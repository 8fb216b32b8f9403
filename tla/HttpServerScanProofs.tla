------------------------ MODULE HttpServerScanProofs ------------------------
(***************************************************************************)
(* Proof that one scan of http_srv_thread serves every connection the     *)
(* last zsock_poll reported readable, and each only once                  *)
(* (EachReadyServedOnce), for every pool size and every interleaving of    *)
(* accepts, closes with compress_fds and peers.  The scan walks a table    *)
(* that shrinks under it: a close moves the later pollfds down one slot   *)
(* and the loop `continue`s at the same index.  The argument is SInv: the  *)
(* ready connections not served yet are exactly the pollfds with POLLIN at *)
(* or after the scan index, and a pollfd keeps POLLIN only if the last     *)
(* poll covered it.                                                         *)
(***************************************************************************)
EXTENDS HttpServerProofs

USE ConstAssumption

(* handle_conn is running for the pollfd at idx.                          *)
Busy == pc \in {"recv", "send"}

(* handle_conn already ran for socket s in this scan.                     *)
IsServed(s) == \E a \in DOMAIN served : served[a] = s

(* A live pollfd has POLLIN only if the last poll covered it: entries past *)
(* nfds keep their revents, and must not keep a stale POLLIN.              *)
RevPolled == \A i \in 0 .. conns_count - 1 : cli[i].rev => Polled(CliPos(i))

(* handle_conn ran at most once per socket, and only for ready sockets.    *)
ServedDistinct == \A a, b \in DOMAIN served : a # b => served[a] # served[b]
ServedReady == \A a \in DOMAIN served : served[a] \in readyAt

(* A pollfd with POLLIN holds a socket the last poll reported.            *)
RevReady == \A i \in 0 .. conns_count - 1 : cli[i].rev => cli[i].fd \in readyAt

(* A pollfd with POLLIN still ahead of the scan holds a socket not served *)
(* yet; the one under the scan index is being served while Busy.           *)
RevFresh ==
    \A i \in idx .. conns_count - 1 :
        cli[i].rev /\ ~(Busy /\ i = idx) => ~IsServed(cli[i].fd)

(* While handle_conn runs, it runs for the socket at idx, the last served. *)
BusyServed ==
    Busy => /\ cli[idx].rev
            /\ served # << >>
            /\ served[Len(served)] = cli[idx].fd

(* A ready socket is served already, or its pollfd, with POLLIN, lies at  *)
(* or after the scan index.                                                 *)
ReadyCovered ==
    \A s \in readyAt :
        \/ IsServed(s)
        \/ \E i \in idx .. conns_count - 1 : cli[i].fd = s /\ cli[i].rev

(* The scan is over whenever the thread is back in zsock_poll.             *)
PollDone == pc = "poll" => idx >= conns_count

SInv ==
    /\ RevPolled /\ ServedDistinct /\ ServedReady /\ RevReady
    /\ RevFresh /\ BusyServed /\ ReadyCovered /\ PollDone

-----------------------------------------------------------------------------
(* listening_count and the number of listener pollfds are naturals.        *)
LEMMA ListenersCounted ==
    ASSUME TypeOK
    PROVE  Cardinality(listening) \in Nat /\ SERVER_FD_COUNT \in Nat
BY ListenerCount DEF TypeOK, SERVER_FD_COUNT

(* SInv reads only the pollfd table, the scan position and the history;   *)
(* a step leaving those alone, without entering or leaving handle_conn and *)
(* without returning to zsock_poll, preserves it.                          *)
LEMMA SInvFrame ==
    ASSUME SInv,
           UNCHANGED <<listening, cli, conns_count, idx, served, readyAt>>,
           Busy' = Busy, pc' = "poll" => pc = "poll"
    PROVE  SInv'
<1>1. RevPolled' /\ ServedDistinct' /\ ServedReady' /\ RevReady'
  BY DEF SInv, RevPolled, ServedDistinct, ServedReady, RevReady, Polled,
         NFds, CliPos
<1>2. RevFresh' /\ BusyServed'
  BY DEF SInv, RevFresh, BusyServed, IsServed
<1>3. ReadyCovered' /\ PollDone'
  BY DEF SInv, ReadyCovered, PollDone, IsServed
<1>4. QED
  BY <1>1, <1>2, <1>3 DEF SInv

LEMMA InitSInv == Init => SInv
<1> SUFFICES ASSUME Init PROVE SInv
  OBVIOUS
<1>1. conns_count = 0 /\ served = << >> /\ readyAt = {} /\ pc = "poll" /\ idx = 0
  BY DEF Init
<1>2. QED
  BY <1>1 DEF SInv, RevPolled, ServedDistinct, ServedReady, RevReady,
              RevFresh, BusyServed, ReadyCovered, PollDone, IsServed, Busy

-----------------------------------------------------------------------------
(* zsock_poll: every polled pollfd gets POLLIN exactly when its socket is  *)
(* readable, and those sockets become the ready set of the new scan.       *)
LEMMA PollSInv ==
    ASSUME IInv, SInv, Poll PROVE SInv'
<1>1. /\ UNCHANGED <<listening, conns_count>>
      /\ served' = << >> /\ idx' = 0 /\ pc' \in {"scan", "accept"}
      /\ readyAt' = {cli[i].fd : i \in {j \in Slots : Polled(CliPos(j)) /\ CliReady(j)}}
  BY DEF Poll
<1>2. \A i \in Slots : /\ cli'[i].fd = cli[i].fd
                       /\ cli'[i].rev = IF Polled(CliPos(i)) THEN CliReady(i)
                                        ELSE cli[i].rev
  <2> SUFFICES ASSUME NEW i \in Slots
               PROVE  /\ cli'[i].fd = cli[i].fd
                      /\ cli'[i].rev = IF Polled(CliPos(i)) THEN CliReady(i)
                                       ELSE cli[i].rev
    OBVIOUS
  <2>1. cli[i] \in PfdT
    BY DEF IInv, TypeOK, PfdT
  <2>2. CASE Polled(CliPos(i))
    <3>1. cli'[i] = [cli[i] EXCEPT !.rev = CliReady(i)]
      BY <2>2 DEF Poll
    <3>2. QED
      BY <2>1, <2>2, <3>1 DEF PfdT
  <2>3. CASE ~Polled(CliPos(i))
    BY <2>3 DEF Poll
  <2>4. QED
    BY <2>2, <2>3
<1>3. \A i \in 0 .. conns_count - 1 : i \in Slots
  BY DEF IInv, TypeOK, Slots
<1>4. \A i \in 0 .. conns_count - 1 : Polled(CliPos(i))' = Polled(CliPos(i))
  BY <1>1 DEF Polled, NFds, CliPos
<1>5. RevPolled' /\ RevReady'
  <2> SUFFICES ASSUME NEW i \in 0 .. conns_count - 1, cli'[i].rev
               PROVE  Polled(CliPos(i)) /\ CliReady(i)
    <3>1. ASSUME NEW i \in 0 .. conns_count - 1,
                 Polled(CliPos(i)) /\ CliReady(i)
          PROVE  cli'[i].fd \in readyAt'
      BY <1>1, <1>2, <1>3, <3>1
    <3>2. QED
      BY <1>1, <1>4, <3>1 DEF RevPolled, RevReady
  <2>1. Polled(CliPos(i))
    BY <1>2, <1>3 DEF SInv, RevPolled
  <2>2. QED
    BY <1>2, <1>3, <2>1
<1>6. ReadyCovered'
  <2> SUFFICES ASSUME NEW s \in readyAt'
               PROVE  \E i \in 0 .. conns_count - 1 : cli'[i].fd = s /\ cli'[i].rev
    BY <1>1 DEF ReadyCovered
  <2>1. PICK j \in Slots : Polled(CliPos(j)) /\ CliReady(j) /\ cli[j].fd = s
    BY <1>1
  <2>2. j \in 0 .. conns_count - 1
    <3>1. cli[j].fd \in Sock
      BY <2>1 DEF CliReady
    <3>2. ~(j \in conns_count .. MAX_CONNS - 1)
      BY <3>1, ConstAssumption DEF IInv, PollSetMatchesConnections, EmptyPfd
    <3>3. QED
      BY <3>2 DEF IInv, TypeOK, Slots
  <2>3. QED
    BY <1>2, <2>1, <2>2
<1>7. ServedDistinct' /\ ServedReady' /\ RevFresh'
  BY <1>1 DEF ServedDistinct, ServedReady, RevFresh, IsServed
<1>8. BusyServed' /\ PollDone'
  BY <1>1 DEF BusyServed, PollDone, Busy
<1>9. QED
  BY <1>5, <1>6, <1>7, <1>8 DEF SInv

-----------------------------------------------------------------------------
(* http_srv_accept stores the new socket at fds.cli[conns_count], whose    *)
(* revents are clear: it is not polled yet and must not look readable.     *)
LEMMA AcceptConnSInv ==
    ASSUME IInv, SInv, NEW l \in Listeners, AcceptConn(l) PROVE SInv'
<1> DEFINE n == conns_count
           K == Cardinality(listening)
<1>1. /\ pc = "accept" /\ pc' \in {"accept", "scan"}
      /\ UNCHANGED <<listening, idx, served, readyAt>>
      /\ cli' = [cli EXCEPT ![n].fd = Head(backlog[l])]
      /\ conns_count' = n + 1 /\ n < MAX_CONNS
  BY DEF AcceptConn, AcceptStep, HttpConnAllocOk, histVars
<1>2. n \in Nat /\ idx \in Nat /\ cli \in [Slots -> PfdT] /\ n \in Slots
  BY <1>1 DEF IInv, TypeOK, PfdT, Slots
<1>3. cli[n] = EmptyPfd
  BY <1>1, <1>2 DEF IInv, PollSetMatchesConnections
<1>4. /\ \A i \in 0 .. n - 1 : cli'[i] = cli[i]
      /\ cli'[n].rev = FALSE
  BY <1>1, <1>2, <1>3 DEF Slots, EmptyPfd
<1>5. K \in Nat /\ SERVER_FD_COUNT \in Nat
  BY ListenersCounted DEF IInv
<1>6. RevPolled'
  <2> SUFFICES ASSUME NEW i \in 0 .. n, cli'[i].rev
               PROVE  SERVER_FD_COUNT + i < (n + 1) + K
    BY <1>1, <1>2 DEF RevPolled, Polled, NFds, CliPos
  <2>1. i \in 0 .. n - 1 /\ cli[i].rev
    BY <1>2, <1>4
  <2>2. SERVER_FD_COUNT + i < n + K
    BY <2>1 DEF SInv, RevPolled, Polled, NFds, CliPos
  <2>3. QED
    BY <1>2, <1>5, <2>2
<1>7. RevReady' /\ RevFresh'
  <2>1. \A i \in 0 .. n : cli'[i].rev => i \in 0 .. n - 1 /\ cli[i].rev
    BY <1>2, <1>4
  <2>2. \A i \in idx .. n : cli'[i].rev => i \in idx .. n - 1 /\ cli[i].rev
    BY <1>2, <1>4
  <2>3. QED
    BY <1>1, <1>2, <1>4, <2>1, <2>2 DEF SInv, RevReady, RevFresh, Busy, IsServed
<1>8. ReadyCovered'
  <2>1. \A i \in idx .. n - 1 : i \in 0 .. n - 1
    BY <1>2
  <2>2. QED
    BY <1>1, <1>2, <1>4, <2>1 DEF SInv, ReadyCovered, IsServed
<1>9. ServedDistinct' /\ ServedReady' /\ BusyServed' /\ PollDone'
  BY <1>1 DEF SInv, ServedDistinct, ServedReady, BusyServed, PollDone, Busy
<1>10. QED
  BY <1>6, <1>7, <1>8, <1>9 DEF SInv

(* A refused or failed accept leaves the pollfd table alone.               *)
LEMMA AcceptDropSInv ==
    ASSUME SInv, NEW l \in Listeners, AcceptRefused(l) \/ AcceptFailed(l)
    PROVE  SInv'
<1>1. /\ UNCHANGED <<listening, cli, conns_count, idx, served, readyAt>>
      /\ pc = "accept" /\ pc' \in {"accept", "scan"}
  BY DEF AcceptRefused, AcceptFailed, AcceptStep, histVars
<1>2. QED
  BY <1>1, SInvFrame DEF Busy

-----------------------------------------------------------------------------
(* The scan finds POLLIN at idx: handle_conn starts for a ready socket     *)
(* not served yet in this scan.                                            *)
LEMMA ScanServeSInv ==
    ASSUME IInv, SInv, ScanServe PROVE SInv'
<1> DEFINE n == conns_count
<1>1. /\ pc = "scan" /\ pc' = "recv" /\ idx < n /\ cli[idx].rev
      /\ served' = Append(served, Cur)
      /\ UNCHANGED <<listening, cli, conns_count, idx, readyAt>>
  BY DEF ScanServe
<1>2. idx \in 0 .. n - 1 /\ Cur \in Sock /\ served \in Seq(Sock)
  BY <1>1 DEF IInv, TypeOK, PollSetMatchesConnections, Cur
<1>3. /\ served' \in Seq(Sock)
      /\ Len(served') = Len(served) + 1
      /\ \A a \in 1 .. Len(served) : served'[a] = served[a]
      /\ served'[Len(served) + 1] = Cur
  BY <1>1, <1>2, AppendFacts
<1>4. DOMAIN served' = 1 .. Len(served) + 1 /\ DOMAIN served = 1 .. Len(served)
  BY <1>2, <1>3
<1>5. ~IsServed(Cur) /\ Cur \in readyAt
  BY <1>1, <1>2 DEF SInv, RevFresh, RevReady, Busy, Cur
<1>6. \A s : IsServed(s)' <=> IsServed(s) \/ s = Cur
  BY <1>3, <1>4 DEF IsServed
<1>7. ServedDistinct' /\ ServedReady'
  BY <1>1, <1>3, <1>4, <1>5 DEF SInv, ServedDistinct, ServedReady, IsServed
<1>8. RevFresh'
  <2> SUFFICES ASSUME NEW i \in idx .. n - 1, cli[i].rev, i # idx
               PROVE  ~IsServed(cli[i].fd)'
    BY <1>1 DEF RevFresh, Busy
  <2>1. ~IsServed(cli[i].fd)
    BY <1>1 DEF SInv, RevFresh, Busy
  <2>2. cli[i].fd # Cur
    BY <1>2 DEF IInv, PollSetMatchesConnections, Cur
  <2>3. QED
    BY <1>1, <1>6, <2>1, <2>2
<1>9. BusyServed'
  BY <1>1, <1>3 DEF BusyServed, Cur
<1>10. ReadyCovered'
  BY <1>1, <1>6 DEF SInv, ReadyCovered
<1>11. RevPolled' /\ RevReady' /\ PollDone'
  BY <1>1 DEF SInv, RevPolled, RevReady, PollDone, Polled, NFds, CliPos
<1>12. QED
  BY <1>7, <1>8, <1>9, <1>10, <1>11 DEF SInv

(* No POLLIN at idx: the scan moves on; or the scan is over.               *)
LEMMA ScanSkipSInv ==
    ASSUME IInv, SInv, ScanSkip \/ ScanEnd PROVE SInv'
<1>1. /\ UNCHANGED <<listening, cli, conns_count, served, readyAt>>
      /\ pc = "scan" /\ pc' \in {"scan", "poll"}
  BY DEF ScanSkip, ScanEnd, histVars
<1>2. idx \in Nat /\ conns_count \in Nat
  BY DEF IInv, TypeOK
<1>3. CASE ScanSkip
  <2>1. idx' = idx + 1 /\ pc' = "scan" /\ ~cli[idx].rev
    BY <1>3 DEF ScanSkip
  <2>2. RevFresh'
    BY <1>1, <1>2, <2>1 DEF SInv, RevFresh, Busy, IsServed
  <2>3. ReadyCovered'
    BY <1>1, <1>2, <2>1 DEF SInv, ReadyCovered, IsServed
  <2>4. RevPolled' /\ ServedDistinct' /\ ServedReady' /\ RevReady'
    BY <1>1 DEF SInv, RevPolled, ServedDistinct, ServedReady, RevReady,
                Polled, NFds, CliPos
  <2>5. BusyServed' /\ PollDone'
    BY <2>1 DEF BusyServed, PollDone, Busy
  <2>6. QED
    BY <2>2, <2>3, <2>4, <2>5 DEF SInv
<1>4. CASE ScanEnd
  <2>1. UNCHANGED idx /\ pc' = "poll" /\ idx >= conns_count
    BY <1>4 DEF ScanEnd
  <2>2. PollDone'
    BY <1>1, <2>1 DEF PollDone
  <2>3. RevPolled' /\ ServedDistinct' /\ ServedReady' /\ RevReady'
    BY <1>1, <2>1 DEF SInv, RevPolled, ServedDistinct, ServedReady, RevReady,
                      Polled, NFds, CliPos
  <2>4. RevFresh' /\ BusyServed' /\ ReadyCovered'
    BY <1>1, <2>1 DEF SInv, RevFresh, BusyServed, ReadyCovered, IsServed, Busy
  <2>5. QED
    BY <2>2, <2>3, <2>4 DEF SInv
<1>5. QED
  BY <1>3, <1>4

-----------------------------------------------------------------------------
(* The close label of handle_conn, compress_fds(idx) and `continue`: the   *)
(* pollfds after idx move down one slot, so the one now under idx is the   *)
(* next still to be scanned, and the closed one had been served.           *)
LEMMA CloseConnSInv ==
    ASSUME IInv, SInv, pc \in {"recv", "send"}, CloseConn,
           UNCHANGED <<listening, served, readyAt>>
    PROVE  SInv'
<1> DEFINE n == conns_count
           k == idx
           K == Cardinality(listening)
<1>1. n \in 1 .. MAX_CONNS /\ k \in 0 .. n - 1
  BY DEF IInv, TypeOK, ScanIndexInRange
<1>2. cli \in [Slots -> PfdT]
  BY DEF IInv, TypeOK, PfdT
<1>3. /\ cli' = CompressFds(cli, k, n - 1)
      /\ conns_count' = n - 1 /\ idx' = k /\ pc' = "scan"
  BY DEF CloseConn
<1>4. \A i \in 0 .. n - 2 : cli'[i] = cli[Src(k, i)]
  BY <1>1, <1>2, <1>3, CompressFdsShape DEF Src
<1>5. K \in Nat /\ SERVER_FD_COUNT \in Nat
  BY ListenersCounted DEF IInv
<1>6. /\ cli[k].rev /\ served # << >> /\ served[Len(served)] = cli[k].fd
  BY DEF SInv, BusyServed, Busy
<1>7. SERVER_FD_COUNT + k < n + K
  BY <1>1, <1>6 DEF SInv, RevPolled, Polled, NFds, CliPos
<1>8. RevPolled'
  <2> SUFFICES ASSUME NEW i \in 0 .. n - 2, cli'[i].rev
               PROVE  SERVER_FD_COUNT + i < (n - 1) + K
    BY <1>1, <1>3 DEF RevPolled, Polled, NFds, CliPos
  <2>1. CASE i < k
    BY <1>1, <1>5, <1>7, <2>1
  <2>2. CASE i >= k
    <3>1. cli[i + 1].rev /\ i + 1 \in 0 .. n - 1
      BY <1>1, <1>4, <2>2 DEF Src
    <3>2. SERVER_FD_COUNT + (i + 1) < n + K
      BY <3>1 DEF SInv, RevPolled, Polled, NFds, CliPos
    <3>3. QED
      BY <1>1, <1>5, <3>2
  <2>3. QED
    BY <1>1, <2>1, <2>2
<1>9. RevReady'
  <2> SUFFICES ASSUME NEW i \in 0 .. n - 2, cli'[i].rev
               PROVE  cli'[i].fd \in readyAt
    BY <1>1, <1>3 DEF RevReady
  <2>1. Src(k, i) \in 0 .. n - 1
    BY <1>1 DEF Src
  <2>2. QED
    BY <1>4, <2>1 DEF SInv, RevReady
<1>10. RevFresh'
  <2> SUFFICES ASSUME NEW i \in k .. n - 2, cli'[i].rev
               PROVE  ~IsServed(cli'[i].fd)
    BY <1>1, <1>3 DEF RevFresh, Busy, IsServed
  <2>1. cli'[i] = cli[i + 1] /\ i + 1 \in k .. n - 1 /\ i + 1 # k
    BY <1>1, <1>4 DEF Src
  <2>2. QED
    BY <2>1 DEF SInv, RevFresh
<1>11. ReadyCovered'
  <2> SUFFICES ASSUME NEW s \in readyAt, ~IsServed(s)
               PROVE  \E i \in k .. n - 2 : cli'[i].fd = s /\ cli'[i].rev
    BY <1>1, <1>3 DEF ReadyCovered, IsServed
  <2>1. PICK j \in k .. n - 1 : cli[j].fd = s /\ cli[j].rev
    BY DEF SInv, ReadyCovered
  <2>2. j # k
    <3>1. Len(served) \in DOMAIN served
      BY <1>6 DEF IInv, TypeOK
    <3>2. QED
      BY <1>6, <2>1, <3>1 DEF IsServed
  <2>3. j - 1 \in k .. n - 2 /\ cli'[j - 1] = cli[j]
    BY <1>1, <1>4, <2>2 DEF Src
  <2>4. QED
    BY <2>1, <2>3
<1>12. ServedDistinct' /\ ServedReady' /\ BusyServed' /\ PollDone'
  BY <1>3 DEF SInv, ServedDistinct, ServedReady, BusyServed, PollDone, Busy
<1>13. QED
  BY <1>8, <1>9, <1>10, <1>11, <1>12 DEF SInv

(* handle_conn returns with keep-alive: idx++, past the served socket.     *)
LEMMA KeepAliveSInv ==
    ASSUME IInv, SInv, pc = "send", pc' = "scan", idx' = idx + 1,
           UNCHANGED <<listening, cli, conns_count, served, readyAt>>
    PROVE  SInv'
<1>1. idx \in Nat /\ served \in Seq(Sock)
  BY DEF IInv, TypeOK
<1>2. cli[idx].rev /\ IsServed(cli[idx].fd)
  <2>1. served # << >> /\ served[Len(served)] = cli[idx].fd /\ cli[idx].rev
    BY DEF SInv, BusyServed, Busy
  <2>2. Len(served) \in DOMAIN served
    BY <1>1, <2>1
  <2>3. QED
    BY <2>1, <2>2 DEF IsServed
<1>3. RevFresh'
  BY <1>1 DEF SInv, RevFresh, Busy, IsServed
<1>4. ReadyCovered'
  BY <1>1, <1>2 DEF SInv, ReadyCovered, IsServed
<1>5. RevPolled' /\ ServedDistinct' /\ ServedReady' /\ RevReady'
  BY DEF SInv, RevPolled, ServedDistinct, ServedReady, RevReady, Polled,
         NFds, CliPos
<1>6. BusyServed' /\ PollDone'
  BY DEF BusyServed, PollDone, Busy
<1>7. QED
  BY <1>3, <1>4, <1>5, <1>6 DEF SInv

-----------------------------------------------------------------------------
(* recv_request fails: the connection is closed and compacted away.        *)
LEMMA RecvCloseSInv ==
    ASSUME IInv, SInv, RecvFull \/ RecvEof PROVE SInv'
<1>1. pc = "recv" /\ CloseConn /\ UNCHANGED <<listening, served, readyAt>>
  BY DEF RecvFull, RecvEof, histVars
<1>2. QED
  BY <1>1, CloseConnSInv

(* recv_request reads bytes: handle_conn goes on for the same socket.      *)
LEMMA RecvBytesSInv ==
    ASSUME SInv, NEW k \in 1 .. REQ_BUF_SIZE, RecvChunk(k) \/ RecvLastChunk(k)
    PROVE  SInv'
<1>1. /\ UNCHANGED <<listening, cli, conns_count, idx, served, readyAt>>
      /\ pc = "recv" /\ pc' \in {"recv", "send"}
  BY DEF RecvChunk, RecvLastChunk, RecvBytes, histVars
<1>2. QED
  BY <1>1, SInvFrame DEF Busy

(* sendall and http_srv_send_response: a partial send or the switch to the *)
(* body keeps handle_conn on the socket; the end of the response either    *)
(* keeps the connection (idx++) or closes it.                               *)
LEMMA SendBytesSInv ==
    ASSUME IInv, SInv, NEW k \in Nat, SendBytes(k) PROVE SInv'
<1>1. /\ UNCHANGED <<listening, readyAt, served, keep_alive>>
      /\ pc = "send"
  BY DEF SendBytes
<1>2. CASE ssent + k < slen \/ (part = "hdr" /\ HasPayload(status) /\ content_len > 0)
  <2>1. UNCHANGED <<pc, idx, conns_count, cli>>
    BY <1>2 DEF SendBytes
  <2>2. QED
    BY <1>1, <2>1, SInvFrame DEF Busy
<1>3. CASE ~(ssent + k < slen) /\ ~(part = "hdr" /\ HasPayload(status) /\ content_len > 0)
  <2>1. ResponseDone
    BY <1>3 DEF SendBytes
  <2>2. CASE keep_alive
    <3>1. pc' = "scan" /\ idx' = idx + 1 /\ UNCHANGED <<conns_count, cli>>
      BY <2>1, <2>2 DEF ResponseDone
    <3>2. QED
      BY <1>1, <3>1, KeepAliveSInv
  <2>3. CASE ~keep_alive
    <3>1. CloseConn
      BY <2>1, <2>3 DEF ResponseDone
    <3>2. QED
      BY <1>1, <3>1, CloseConnSInv
  <2>4. QED
    BY <2>2, <2>3
<1>4. QED
  BY <1>2, <1>3

(* The other steps leave the pollfd table, the scan and the history alone. *)
LEMMA OtherSInv ==
    ASSUME SInv,
           \/ SendFail
           \/ \E s \in Sock : Peer(s)
           \/ UNCHANGED vars \/ Quiescent
    PROVE  SInv'
<1>1. UNCHANGED <<listening, cli, conns_count, idx, served, readyAt, pc>>
  <2>1. CASE SendFail
    BY <2>1 DEF SendFail, srvVars, histVars
  <2>2. ASSUME NEW s \in Sock, Peer(s) PROVE UNCHANGED <<listening, cli, conns_count, idx, served, readyAt, pc>>
    <3>1. ASSUME NEW k \in 1 .. MaxReqLen, SendRequestBytes(s, k)
          PROVE  UNCHANGED <<listening, cli, conns_count, idx, served, readyAt, pc>>
      BY <3>1 DEF SendRequestBytes, srvVars, histVars
    <3>2. QED
      BY <2>2, <3>1 DEF Peer, Connect, BeginRequest, PeerClose, srvVars, histVars
  <2>3. CASE UNCHANGED vars \/ Quiescent
    BY <2>3 DEF Quiescent, vars, srvVars, histVars
  <2>4. QED
    BY <2>1, <2>2, <2>3
<1>2. QED
  BY <1>1, SInvFrame DEF Busy

-----------------------------------------------------------------------------
(* Every step of the reactor and of the peers preserves SInv, given IInv.  *)
THEOREM NextSInv == IInv /\ SInv /\ [Next]_vars => SInv'
<1> SUFFICES ASSUME IInv, SInv, [Next]_vars PROVE SInv'
  OBVIOUS
<1>1. CASE Poll
  BY <1>1, PollSInv
<1>2. ASSUME NEW l \in Listeners, AcceptConn(l) \/ AcceptRefused(l) \/ AcceptFailed(l)
      PROVE  SInv'
  BY <1>2, AcceptConnSInv, AcceptDropSInv
<1>3. CASE ScanServe
  BY <1>3, ScanServeSInv
<1>4. CASE ScanSkip \/ ScanEnd
  BY <1>4, ScanSkipSInv
<1>5. CASE RecvFull \/ RecvEof
  BY <1>5, RecvCloseSInv
<1>6. ASSUME NEW k \in 1 .. REQ_BUF_SIZE, RecvChunk(k) \/ RecvLastChunk(k)
      PROVE  SInv'
  BY <1>6, RecvBytesSInv
<1>7. ASSUME NEW k \in 1 .. slen - ssent, SendBytes(k) PROVE SInv'
  BY <1>7, SendBytesSInv
<1>8. CASE SendFail \/ (\E s \in Sock : Peer(s)) \/ UNCHANGED vars \/ Quiescent
  BY <1>8, OtherSInv
<1>9. QED
  BY <1>1, <1>2, <1>3, <1>4, <1>5, <1>6, <1>7, <1>8 DEF Next, Server

(* IInv and SInv together hold in every reachable state.                   *)
THEOREM SpecSInv == Spec => [](IInv /\ SInv)
<1>1. Init => IInv /\ SInv
  BY InitIInv, InitSInv
<1>2. IInv /\ SInv /\ [Next]_vars => IInv' /\ SInv'
  BY NextIInv, NextSInv
<1>3. QED
  BY <1>1, <1>2, PTL DEF Spec

(* One scan of http_srv_thread runs handle_conn only for sockets the last  *)
(* zsock_poll reported readable, at most once each, and by the time the     *)
(* thread is back in zsock_poll it ran it for all of them, although        *)
(* compress_fds moves pollfds down under the scan index; for every pool    *)
(* size, whatever setup left listening.                                     *)
THEOREM ReadyServedOnce == Spec => []EachReadyServedOnce
<1>1. IInv /\ SInv => EachReadyServedOnce
  <2> SUFFICES ASSUME IInv, SInv PROVE EachReadyServedOnce
    OBVIOUS
  <2>1. pc = "poll" => \A s \in readyAt : IsServed(s)
    <3>1. idx \in Nat /\ conns_count \in Nat
      BY DEF IInv, TypeOK
    <3>2. QED
      BY <3>1 DEF SInv, PollDone, ReadyCovered
  <2>2. QED
    BY <2>1 DEF SInv, ServedDistinct, ServedReady, EachReadyServedOnce, IsServed
<1>2. QED
  BY <1>1, SpecSInv, PTL

=============================================================================
