-------------------------- MODULE HttpServerProofs --------------------------
(***************************************************************************)
(* Proofs about HttpServer, for every value of the constants: the reactor  *)
(* keeps its variables typed, and keeps the pollfd table fds.cli in step   *)
(* with the set of open connections (PollSetMatchesConnections) across     *)
(* accepts, refusals, closes and the compaction done by compress_fds.      *)
(***************************************************************************)
EXTENDS HttpServer, TLAPS

PfdT == [fd : Sock \cup {NoFd}, rev : BOOLEAN]

(* A pending connection waits in exactly one accept queue, at one place,  *)
(* and is in phase "backlog" while it does.  Needed because accept turns   *)
(* the head of a queue into a live slot, which must not be live already.   *)
BacklogOK ==
    \A l \in Listeners : \A j \in 1 .. Len(backlog[l]) :
        /\ phase[backlog[l][j]] = "backlog"
        /\ \A l2 \in Listeners : \A j2 \in 1 .. Len(backlog[l2]) :
              backlog[l2][j2] = backlog[l][j] => l2 = l /\ j2 = j

(* The inductive invariant.                                                *)
IInv ==
    /\ TypeOK
    /\ PollSetMatchesConnections
    /\ ScanIndexInRange
    /\ BacklogOK

USE ConstAssumption

(* What Append leaves in a sequence: its old entries, then the new one.   *)
LEMMA AppendFacts ==
    ASSUME NEW S, NEW q \in Seq(S), NEW x \in S
    PROVE  /\ Append(q, x) \in Seq(S)
           /\ Len(Append(q, x)) = Len(q) + 1
           /\ \A i \in 1 .. Len(q) : Append(q, x)[i] = q[i]
           /\ Append(q, x)[Len(q) + 1] = x
OBVIOUS

(* What Tail leaves of a non-empty sequence: every entry but the first.   *)
LEMMA TailFacts ==
    ASSUME NEW S, NEW q \in Seq(S), q # << >>
    PROVE  /\ Tail(q) \in Seq(S)
           /\ Len(Tail(q)) = Len(q) - 1
           /\ \A i \in 1 .. Len(q) - 1 : Tail(q)[i] = q[i + 1]
OBVIOUS

(* What SubSeq keeps of the unread bytes once k of them are received.     *)
LEMMA DropFacts ==
    ASSUME NEW S, NEW q \in Seq(S), NEW k \in 1 .. Len(q)
    PROVE  SubSeq(q, k + 1, Len(q)) \in Seq(S)
OBVIOUS

-----------------------------------------------------------------------------
(* What compress_fds(k) computes once conns_count went from n to n - 1:   *)
(* slots below k are kept, slots k .. n-2 take their successor, slot n-1   *)
(* is cleared and the slots past it are left alone.                        *)
LEMMA CompressFdsShape ==
    ASSUME NEW c \in [Slots -> PfdT], NEW n \in 1 .. MAX_CONNS,
           NEW k \in 0 .. n - 1
    PROVE  LET d == CompressFds(c, k, n - 1) IN
           /\ d \in [Slots -> PfdT]
           /\ \A i \in 0 .. n - 2 : d[i] = IF i < k THEN c[i] ELSE c[i + 1]
           /\ d[n - 1] = EmptyPfd
           /\ \A i \in n .. MAX_CONNS - 1 : d[i] = c[i]
BY DEF CompressFds, EmptyPfd, Slots, PfdT

(* Each part of the invariant reads only a few variables; a step that    *)
(* leaves those alone preserves it.                                        *)
LEMMA PollSetFrame ==
    ASSUME PollSetMatchesConnections, UNCHANGED <<cli, conns_count, phase>>
    PROVE  PollSetMatchesConnections'
BY DEF PollSetMatchesConnections

LEMMA ScanIndexFrame ==
    ASSUME ScanIndexInRange, UNCHANGED <<idx, conns_count, pc>>
    PROVE  ScanIndexInRange'
BY DEF ScanIndexInRange

LEMMA BacklogFrame ==
    ASSUME BacklogOK, UNCHANGED <<backlog, phase>>
    PROVE  BacklogOK'
BY DEF BacklogOK

THEOREM InitIInv == Init => IInv
<1> SUFFICES ASSUME Init PROVE IInv
  OBVIOUS
<1>1. listening \subseteq Listeners
  BY DEF Init, SetupOutcomes, Listeners
<1>2. TypeOK
  <2>1. cli \in [Slots -> [fd : Sock \cup {NoFd}, rev : BOOLEAN]]
    BY DEF Init, EmptyPfd
  <2>2. backlog \in [Listeners -> Seq(Sock)] /\ served \in Seq(Sock)
    BY DEF Init
  <2>3. wire \in [Sock -> Seq(BOOLEAN)]
    BY DEF Init
  <2>4. phase \in [Sock -> Phases] /\ fin \in [Sock -> BOOLEAN]
         /\ err \in [Sock -> BOOLEAN]
    BY DEF Init, Phases
  <2>5. nreq \in [Sock -> Nat] /\ left \in [Sock -> Nat]
         /\ answered \in [Sock -> Nat]
    BY DEF Init
  <2>6. conns_count \in 0 .. MAX_CONNS /\ idx \in 0 .. MAX_CONNS
    BY DEF Init
  <2>7. pc \in Pcs /\ status \in Statuses
    BY DEF Init, Pcs, Statuses
  <2>8. QED
    BY <1>1, <2>1, <2>2, <2>3, <2>4, <2>5, <2>6, <2>7 DEF Init, TypeOK
<1>3. PollSetMatchesConnections /\ ScanIndexInRange /\ BacklogOK
  BY DEF Init, PollSetMatchesConnections, ScanIndexInRange, BacklogOK,
         Slots, EmptyPfd
<1>4. QED
  BY <1>2, <1>3 DEF IInv

-----------------------------------------------------------------------------
(* The peers' steps leave the server's tables alone.                      *)

(* The entry Connect(s) appends to the accept queue of its port.           *)
NewEntry(s, l, j) == l = Port[s] /\ j = Len(backlog[l]) + 1

LEMMA ConnectIInv ==
    ASSUME IInv, NEW s \in Sock, Connect(s) PROVE IInv'
<1>1. /\ UNCHANGED <<listening, lrev, cli, conns_count, pc, idx>>
      /\ UNCHANGED <<rlen, complete, keep_alive, status, content_len, part>>
      /\ UNCHANGED <<slen, ssent, fin, wire, nreq, left, answered, err>>
      /\ UNCHANGED <<txlog, readyAt, served>>
  BY DEF Connect, histVars
<1>2. phase' \in [Sock -> Phases] /\ backlog' \in [Listeners -> Seq(Sock)]
  BY DEF IInv, TypeOK, Connect, Phases
<1>3. \A m \in Listeners :
         backlog'[m] = IF m = Port[s] THEN Append(backlog[m], s) ELSE backlog[m]
  BY DEF IInv, TypeOK, Connect
<1>4. \A m \in Listeners :
         /\ Len(backlog'[m]) = IF m = Port[s] THEN Len(backlog[m]) + 1
                               ELSE Len(backlog[m])
         /\ \A i \in 1 .. Len(backlog'[m]) :
               backlog'[m][i] = IF m = Port[s] /\ i = Len(backlog[m]) + 1 THEN s
                                ELSE backlog[m][i]
  <2> SUFFICES ASSUME NEW m \in Listeners
               PROVE  /\ Len(backlog'[m]) = IF m = Port[s] THEN Len(backlog[m]) + 1
                                             ELSE Len(backlog[m])
                      /\ \A i \in 1 .. Len(backlog'[m]) :
                            backlog'[m][i] = IF m = Port[s] /\ i = Len(backlog[m]) + 1
                                             THEN s ELSE backlog[m][i]
    OBVIOUS
  <2>1. backlog[m] \in Seq(Sock)
    BY DEF IInv, TypeOK
  <2>2. CASE m = Port[s]
    <3>1. backlog'[m] = Append(backlog[m], s)
      BY <1>3, <2>2
    <3>2. QED
      BY <3>1, <2>1, <2>2, AppendFacts
  <2>3. CASE m # Port[s]
    BY <1>3, <2>1, <2>3
  <2>4. QED
    BY <2>2, <2>3
<1>5. \A m \in Listeners : \A i \in 1 .. Len(backlog[m]) : backlog[m][i] # s
  BY DEF IInv, BacklogOK, Connect
<1>6. BacklogOK'
  <2> SUFFICES ASSUME NEW l \in Listeners, NEW j \in 1 .. Len(backlog'[l])
               PROVE  /\ phase'[backlog'[l][j]] = "backlog"
                      /\ \A l2 \in Listeners : \A j2 \in 1 .. Len(backlog'[l2]) :
                           backlog'[l2][j2] = backlog'[l][j] => l2 = l /\ j2 = j
    BY DEF BacklogOK
  <2>1. phase' = [phase EXCEPT ![s] = "backlog"]
    BY DEF Connect
  <2>5. backlog \in [Listeners -> Seq(Sock)] /\ phase \in [Sock -> Phases]
    BY DEF IInv, TypeOK
  <2>6. NewEntry(s, l, j) \/ (j \in 1 .. Len(backlog[l]) /\ backlog'[l][j] = backlog[l][j])
    BY <1>4 DEF NewEntry
  <2>2. phase'[backlog'[l][j]] = "backlog"
    <3>1. CASE NewEntry(s, l, j)
      <4>1. backlog'[l][j] = s
        BY <1>4, <3>1 DEF NewEntry
      <4>2. QED
        BY <4>1, <2>1, <2>5
    <3>2. CASE ~NewEntry(s, l, j)
      BY <1>5, <2>1, <2>5, <2>6, <3>2 DEF IInv, BacklogOK
    <3>3. QED
      BY <3>1, <3>2
  <2>3. ASSUME NEW l2 \in Listeners, NEW j2 \in 1 .. Len(backlog'[l2]),
               backlog'[l2][j2] = backlog'[l][j]
        PROVE  l2 = l /\ j2 = j
    <3>1. NewEntry(s, l2, j2) \/ (j2 \in 1 .. Len(backlog[l2]) /\ backlog'[l2][j2] = backlog[l2][j2])
      BY <1>4 DEF NewEntry
    <3>2. CASE NewEntry(s, l, j) /\ NewEntry(s, l2, j2)
      BY <3>2 DEF NewEntry
    <3>3. CASE NewEntry(s, l, j) /\ ~NewEntry(s, l2, j2)
      BY <1>4, <1>5, <2>3, <3>1, <3>3 DEF NewEntry
    <3>4. CASE ~NewEntry(s, l, j) /\ NewEntry(s, l2, j2)
      BY <1>4, <1>5, <2>3, <2>6, <3>4 DEF NewEntry
    <3>5. CASE ~NewEntry(s, l, j) /\ ~NewEntry(s, l2, j2)
      BY <2>3, <2>6, <3>1, <3>5 DEF IInv, BacklogOK
    <3>6. QED
      BY <3>2, <3>3, <3>4, <3>5
  <2>4. QED
    BY <2>2, <2>3
<1>7. PollSetMatchesConnections'
  BY <1>1 DEF IInv, TypeOK, PollSetMatchesConnections, Connect
<1>8. QED
  BY <1>1, <1>2, <1>6, <1>7 DEF IInv, TypeOK, ScanIndexInRange

LEMMA BeginRequestIInv ==
    ASSUME IInv, NEW s \in Sock, BeginRequest(s) PROVE IInv'
<1>1. /\ UNCHANGED <<listening, backlog, lrev, cli, conns_count, pc, idx>>
      /\ UNCHANGED <<rlen, complete, keep_alive, status, content_len, part>>
      /\ UNCHANGED <<slen, ssent, phase, fin, wire, answered, err>>
      /\ UNCHANGED <<txlog, readyAt, served>>
  BY DEF BeginRequest, srvVars, histVars
<1>2. left' \in [Sock -> Nat] /\ nreq' \in [Sock -> Nat]
  BY DEF IInv, TypeOK, BeginRequest
<1>3. TypeOK'
  BY <1>1, <1>2 DEF IInv, TypeOK
<1>4. QED
  BY <1>1, <1>3, PollSetFrame, ScanIndexFrame, BacklogFrame DEF IInv

LEMMA SendRequestBytesIInv ==
    ASSUME IInv, NEW s \in Sock, NEW k \in 1 .. MaxReqLen,
           SendRequestBytes(s, k)
    PROVE  IInv'
<1>1. /\ UNCHANGED <<listening, backlog, lrev, cli, conns_count, pc, idx>>
      /\ UNCHANGED <<rlen, complete, keep_alive, status, content_len, part>>
      /\ UNCHANGED <<slen, ssent, phase, fin, nreq, answered, err>>
      /\ UNCHANGED <<txlog, readyAt, served>>
  BY DEF SendRequestBytes, srvVars, histVars
<1>2. wire' \in [Sock -> Seq(BOOLEAN)] /\ left' \in [Sock -> Nat]
  BY DEF IInv, TypeOK, SendRequestBytes
<1>3. TypeOK'
  BY <1>1, <1>2 DEF IInv, TypeOK
<1>4. QED
  BY <1>1, <1>3, PollSetFrame, ScanIndexFrame, BacklogFrame DEF IInv

LEMMA PeerCloseIInv ==
    ASSUME IInv, NEW s \in Sock, PeerClose(s) PROVE IInv'
<1>1. /\ UNCHANGED <<listening, backlog, lrev, cli, conns_count, pc, idx>>
      /\ UNCHANGED <<rlen, complete, keep_alive, status, content_len, part>>
      /\ UNCHANGED <<slen, ssent, phase, wire, nreq, left, answered, err>>
      /\ UNCHANGED <<txlog, readyAt, served>>
  BY DEF PeerClose, srvVars, histVars
<1>2. fin' \in [Sock -> BOOLEAN]
  BY DEF IInv, TypeOK, PeerClose
<1>3. TypeOK'
  BY <1>1, <1>2 DEF IInv, TypeOK
<1>4. QED
  BY <1>1, <1>3, PollSetFrame, ScanIndexFrame, BacklogFrame DEF IInv

-----------------------------------------------------------------------------
(* zsock_poll rewrites only revents: the fds of fds.cli stay where they   *)
(* are, and a cleared entry stays cleared since it never reports POLLIN.   *)
LEMMA PollIInv ==
    ASSUME IInv, Poll PROVE IInv'
<1>1. /\ UNCHANGED <<listening, backlog, conns_count, rlen, complete, keep_alive>>
      /\ UNCHANGED <<status, content_len, part, slen, ssent>>
      /\ UNCHANGED <<phase, fin, wire, nreq, left, answered, err, txlog>>
  BY DEF Poll, peerVars
<1>2. \A i \in Slots : cli'[i] \in PfdT /\ cli'[i].fd = cli[i].fd
  <2> SUFFICES ASSUME NEW i \in Slots
               PROVE  cli'[i] \in PfdT /\ cli'[i].fd = cli[i].fd
    OBVIOUS
  <2>1. cli[i] \in PfdT
    BY DEF IInv, TypeOK, PfdT
  <2>2. CASE Polled(CliPos(i))
    <3>1. cli'[i] = [cli[i] EXCEPT !.rev = CliReady(i)]
      BY <2>2 DEF Poll
    <3>2. CliReady(i) \in BOOLEAN
      BY DEF CliReady
    <3>3. QED
      BY <2>1, <3>1, <3>2 DEF PfdT
  <2>3. CASE ~Polled(CliPos(i))
    BY <2>1, <2>3 DEF Poll
  <2>4. QED
    BY <2>2, <2>3
<1>3. \A i \in conns_count .. MAX_CONNS - 1 : cli'[i] = EmptyPfd
  <2> SUFFICES ASSUME NEW i \in conns_count .. MAX_CONNS - 1
               PROVE  cli'[i] = EmptyPfd
    OBVIOUS
  <2>1. i \in Slots /\ cli[i] = EmptyPfd
    BY DEF IInv, TypeOK, PollSetMatchesConnections, Slots
  <2>2. ~CliReady(i)
    BY <2>1 DEF CliReady, EmptyPfd
  <2>3. cli'[i].rev = FALSE
    <3>1. CASE Polled(CliPos(i))
      <4>1. cli'[i] = [cli[i] EXCEPT !.rev = CliReady(i)]
        BY <2>1, <3>1 DEF Poll
      <4>2. cli'[i].rev = CliReady(i)
        BY <2>1, <4>1 DEF EmptyPfd
      <4>3. QED
        BY <2>2, <4>2
    <3>2. CASE ~Polled(CliPos(i))
      BY <2>1, <3>2 DEF Poll, EmptyPfd
    <3>3. QED
      BY <3>1, <3>2
  <2>4. cli'[i] \in PfdT /\ cli'[i].fd = NoFd
    BY <1>2, <2>1 DEF EmptyPfd
  <2>5. QED
    BY <2>3, <2>4 DEF PfdT, EmptyPfd
<1>4. /\ cli' \in [Slots -> PfdT]
      /\ lrev' \subseteq Listeners /\ readyAt' \subseteq Sock
      /\ served' \in Seq(Sock) /\ pc' \in {"scan", "accept"} /\ idx' = 0
  <2>1. cli' \in [Slots -> PfdT]
    BY <1>2 DEF Poll
  <2>2. readyAt' \subseteq Sock
    BY DEF Poll, CliReady
  <2>3. QED
    BY <2>1, <2>2 DEF Poll
<1>5. TypeOK'
  BY <1>1, <1>4 DEF IInv, TypeOK, PfdT, Pcs
<1>6. PollSetMatchesConnections'
  <2>1. 0 .. conns_count - 1 \subseteq Slots
    BY DEF IInv, TypeOK, Slots
  <2>2. QED
    BY <1>1, <1>2, <1>3, <2>1 DEF IInv, PollSetMatchesConnections
<1>7. ScanIndexInRange'
  BY <1>1, <1>4 DEF IInv, TypeOK, ScanIndexInRange
<1>8. QED
  BY <1>1, <1>5, <1>6, <1>7, BacklogFrame DEF IInv

-----------------------------------------------------------------------------
(* The place in the accept queue before zsock_accept took its head.      *)
Shift(l, m, j) == IF m = l THEN j + 1 ELSE j

(* What every outcome of http_srv_accept shares: zsock_accept takes the   *)
(* oldest pending connection, a socket that no pollfd holds, and leaves    *)
(* the other pending connections queued once each.                         *)
LEMMA AcceptCommon ==
    ASSUME IInv, NEW l \in Listeners, AcceptStep(l), NEW v \in Phases,
           phase' = [phase EXCEPT ![Head(backlog[l])] = v]
    PROVE  /\ Head(backlog[l]) \in Sock
           /\ phase[Head(backlog[l])] = "backlog"
           /\ \A i \in 0 .. conns_count - 1 : cli[i].fd # Head(backlog[l])
           /\ backlog' \in [Listeners -> Seq(Sock)]
           /\ phase' \in [Sock -> Phases]
           /\ lrev' \subseteq Listeners /\ pc' \in {"scan", "accept"}
           /\ BacklogOK'
<1> DEFINE h == Head(backlog[l])
<1>1. backlog \in [Listeners -> Seq(Sock)] /\ phase \in [Sock -> Phases]
  BY DEF IInv, TypeOK
<1>2. backlog[l] # << >> /\ h = backlog[l][1] /\ 1 \in 1 .. Len(backlog[l])
  BY <1>1 DEF AcceptStep
<1>3. h \in Sock /\ phase[h] = "backlog"
  BY <1>1, <1>2 DEF IInv, BacklogOK
<1>4. \A i \in 0 .. conns_count - 1 : cli[i].fd # h
  BY <1>3 DEF IInv, PollSetMatchesConnections
<1>5. \A m \in Listeners :
         /\ Len(backlog'[m]) = IF m = l THEN Len(backlog[m]) - 1 ELSE Len(backlog[m])
         /\ backlog'[m] \in Seq(Sock)
         /\ \A j \in 1 .. Len(backlog'[m]) :
               /\ Shift(l, m, j) \in 1 .. Len(backlog[m])
               /\ backlog'[m][j] = backlog[m][Shift(l, m, j)]
               /\ <<m, Shift(l, m, j)>> # <<l, 1>>
  <2> SUFFICES ASSUME NEW m \in Listeners
               PROVE  /\ Len(backlog'[m]) = IF m = l THEN Len(backlog[m]) - 1
                                             ELSE Len(backlog[m])
                      /\ backlog'[m] \in Seq(Sock)
                      /\ \A j \in 1 .. Len(backlog'[m]) :
                            /\ Shift(l, m, j) \in 1 .. Len(backlog[m])
                            /\ backlog'[m][j] = backlog[m][Shift(l, m, j)]
                            /\ <<m, Shift(l, m, j)>> # <<l, 1>>
    OBVIOUS
  <2>1. CASE m = l
    <3>1. backlog'[m] = Tail(backlog[l])
      BY <1>1, <2>1 DEF AcceptStep
    <3>2. QED
      BY <1>1, <1>2, <2>1, <3>1, TailFacts DEF Shift
  <2>2. CASE m # l
    BY <1>1, <2>2 DEF AcceptStep, Shift
  <2>3. QED
    BY <2>1, <2>2
<1>6. \A m \in Listeners : \A j \in 1 .. Len(backlog'[m]) :
         /\ backlog'[m][j] # h
         /\ phase'[backlog'[m][j]] = "backlog"
  <2> SUFFICES ASSUME NEW m \in Listeners, NEW j \in 1 .. Len(backlog'[m])
               PROVE  backlog'[m][j] # h /\ phase'[backlog'[m][j]] = "backlog"
    OBVIOUS
  <2>1. backlog'[m][j] # h
    <3> DEFINE k == Shift(l, m, j)
    <3>1. /\ k \in 1 .. Len(backlog[m]) /\ backlog'[m][j] = backlog[m][k]
          /\ <<m, k>> # <<l, 1>>
      BY <1>5
    <3>2. backlog[m][k] = backlog[l][1] => m = l /\ k = 1
      BY <1>2, <3>1 DEF IInv, BacklogOK
    <3>3. QED
      BY <1>2, <3>1, <3>2
  <2>2. backlog'[m][j] \in Sock /\ phase[backlog'[m][j]] = "backlog"
    <3> DEFINE k == Shift(l, m, j)
    <3>1. k \in 1 .. Len(backlog[m]) /\ backlog'[m][j] = backlog[m][k]
      BY <1>5
    <3>2. backlog[m][k] \in Sock
      BY <1>1, <3>1
    <3>3. phase[backlog[m][k]] = "backlog"
      BY <3>1 DEF IInv, BacklogOK
    <3>4. QED
      BY <3>1, <3>2, <3>3
  <2>3. QED
    BY <1>1, <2>1, <2>2
<1>7. BacklogOK'
  <2> SUFFICES ASSUME NEW m \in Listeners, NEW j \in 1 .. Len(backlog'[m]),
                      NEW m2 \in Listeners, NEW j2 \in 1 .. Len(backlog'[m2]),
                      backlog'[m2][j2] = backlog'[m][j]
               PROVE  m2 = m /\ j2 = j
    BY <1>6 DEF BacklogOK
  <2>1. m2 = m /\ Shift(l, m2, j2) = Shift(l, m, j)
    BY <1>5 DEF IInv, BacklogOK
  <2>2. QED
    BY <2>1 DEF Shift
<1>8. backlog' \in [Listeners -> Seq(Sock)]
  BY <1>1, <1>5 DEF AcceptStep
<1>9. phase' \in [Sock -> Phases]
  BY <1>1, <1>3
<1>10. lrev' \subseteq Listeners /\ pc' \in {"scan", "accept"}
  BY DEF AcceptStep, IInv, TypeOK
<1>11. QED
  BY <1>3, <1>4, <1>7, <1>8, <1>9, <1>10

(* http_srv_accept with a free context: the new socket takes the pollfd  *)
(* at conns_count, the first cleared one, so the table stays dense.        *)
LEMMA AcceptConnIInv ==
    ASSUME IInv, NEW l \in Listeners, AcceptConn(l) PROVE IInv'
<1> DEFINE h == Head(backlog[l])
           n == conns_count
<1>1. /\ UNCHANGED <<listening, idx, rlen, complete, keep_alive, status>>
      /\ UNCHANGED <<content_len, part, slen, ssent, fin, wire, nreq, left>>
      /\ UNCHANGED <<answered, err, txlog, readyAt, served>>
  BY DEF AcceptConn, histVars
<1>2. /\ h \in Sock /\ phase[h] = "backlog"
      /\ \A i \in 0 .. n - 1 : cli[i].fd # h
      /\ backlog' \in [Listeners -> Seq(Sock)] /\ phase' \in [Sock -> Phases]
      /\ lrev' \subseteq Listeners /\ pc' \in {"scan", "accept"}
      /\ BacklogOK'
  BY AcceptCommon DEF AcceptConn, Phases
<1>3. n \in Slots /\ n' = n + 1
  BY DEF AcceptConn, HttpConnAllocOk, IInv, TypeOK, Slots
<1>4. cli' = [cli EXCEPT ![n].fd = h] /\ phase' = [phase EXCEPT ![h] = "up"]
  BY DEF AcceptConn
<1>5. /\ cli'[n].fd = h
      /\ \A i \in Slots \ {n} : cli'[i] = cli[i]
      /\ cli' \in [Slots -> PfdT]
  <2>1. cli \in [Slots -> PfdT]
    BY DEF IInv, TypeOK, PfdT
  <2>2. cli'[n] = [cli[n] EXCEPT !.fd = h]
    BY <1>3, <1>4, <2>1
  <2>3. cli'[n] \in PfdT /\ cli'[n].fd = h
    BY <1>2, <1>3, <2>1, <2>2 DEF PfdT
  <2>4. \A i \in Slots \ {n} : cli'[i] = cli[i]
    BY <1>4, <2>1
  <2>5. DOMAIN cli' = Slots
    BY <1>4, <2>1
  <2>6. \A i \in Slots : cli'[i] \in PfdT
    BY <2>1, <2>3, <2>4
  <2>7. cli' = [i \in Slots |-> cli'[i]]
    BY <1>4, <2>1
  <2>8. [i \in Slots |-> cli'[i]] \in [Slots -> PfdT]
    BY <2>6
  <2>9. QED
    BY <2>3, <2>4, <2>7, <2>8
<1>6. TypeOK'
  <2>1. conns_count' \in 0 .. MAX_CONNS
    BY <1>3 DEF Slots
  <2>2. QED
    BY <1>1, <1>2, <1>5, <2>1 DEF IInv, TypeOK, PfdT, Pcs
<1>7. PollSetMatchesConnections'
  <2>1. \A i \in 0 .. n - 1 :
           /\ i \in Slots \ {n} /\ cli'[i] = cli[i]
           /\ cli[i].fd \in Sock /\ phase[cli[i].fd] = "up" /\ cli[i].fd # h
           /\ phase'[cli[i].fd] = "up"
    <3> SUFFICES ASSUME NEW i \in 0 .. n - 1
                 PROVE  /\ i \in Slots \ {n} /\ cli'[i] = cli[i]
                        /\ cli[i].fd \in Sock /\ phase[cli[i].fd] = "up"
                        /\ cli[i].fd # h /\ phase'[cli[i].fd] = "up"
      OBVIOUS
    <3>1. i \in Slots \ {n} /\ cli'[i] = cli[i]
      BY <1>3, <1>5 DEF Slots
    <3>2. cli[i].fd \in Sock /\ phase[cli[i].fd] = "up" /\ cli[i].fd # h
      BY <1>2 DEF IInv, PollSetMatchesConnections
    <3>3. phase'[cli[i].fd] = "up"
      BY <1>4, <3>2 DEF IInv, TypeOK
    <3>4. QED
      BY <3>1, <3>2, <3>3
  <2>2. phase'[h] = "up"
    BY <1>2, <1>4 DEF IInv, TypeOK
  <2>3. 0 .. n' - 1 = (0 .. n - 1) \cup {n}
    BY <1>3 DEF Slots
  <2>4. \A i \in 0 .. n' - 1 : cli'[i].fd \in Sock /\ phase'[cli'[i].fd] = "up"
    BY <1>2, <1>5, <2>1, <2>2, <2>3
  <2>5. \A i, j \in 0 .. n' - 1 : i # j => cli'[i].fd # cli'[j].fd
    BY <1>5, <2>1, <2>3 DEF IInv, PollSetMatchesConnections
  <2>6. \A i \in n' .. MAX_CONNS - 1 : cli'[i] = EmptyPfd
    BY <1>3, <1>5 DEF IInv, PollSetMatchesConnections, Slots
  <2>7. ASSUME NEW s \in Sock, phase'[s] = "up"
        PROVE  \E i \in 0 .. n' - 1 : cli'[i].fd = s
    <3>1. CASE s = h
      BY <1>5, <2>3, <3>1
    <3>2. CASE s # h
      <4>1. phase[s] = "up"
        BY <1>4, <2>7, <3>2 DEF IInv, TypeOK
      <4>2. PICK i \in 0 .. n - 1 : cli[i].fd = s
        BY <4>1 DEF IInv, PollSetMatchesConnections
      <4>3. QED
        BY <2>1, <2>3, <4>2
    <3>3. QED
      BY <3>1, <3>2
  <2>8. QED
    BY <2>4, <2>5, <2>6, <2>7 DEF PollSetMatchesConnections
<1>8. ScanIndexInRange'
  BY <1>1, <1>2, <1>3 DEF IInv, TypeOK, ScanIndexInRange
<1>9. QED
  BY <1>2, <1>6, <1>7, <1>8 DEF IInv

(* http_srv_accept without a free context, or a failed zsock_accept: the  *)
(* pending connection is dropped and fds.cli is not touched.               *)
LEMMA AcceptDropIInv ==
    ASSUME IInv, NEW l \in Listeners,
           AcceptRefused(l) \/ AcceptFailed(l)
    PROVE  IInv'
<1> DEFINE h == Head(backlog[l])
<1>1. /\ UNCHANGED <<listening, cli, conns_count, idx, rlen, complete>>
      /\ UNCHANGED <<keep_alive, status, content_len, part, slen, ssent>>
      /\ UNCHANGED <<fin, wire, nreq, left, answered, err, txlog, readyAt, served>>
      /\ AcceptStep(l) /\ phase' = [phase EXCEPT ![h] = "down"]
  BY DEF AcceptRefused, AcceptFailed, histVars
<1>2. /\ h \in Sock /\ phase[h] = "backlog"
      /\ \A i \in 0 .. conns_count - 1 : cli[i].fd # h
      /\ backlog' \in [Listeners -> Seq(Sock)] /\ phase' \in [Sock -> Phases]
      /\ lrev' \subseteq Listeners /\ pc' \in {"scan", "accept"}
      /\ BacklogOK'
  BY <1>1, AcceptCommon DEF Phases
<1>3. TypeOK'
  BY <1>1, <1>2 DEF IInv, TypeOK, Pcs
<1>4. PollSetMatchesConnections'
  BY <1>1, <1>2 DEF IInv, TypeOK, PollSetMatchesConnections
<1>5. ScanIndexInRange'
  BY <1>1, <1>2 DEF IInv, ScanIndexInRange
<1>6. QED
  BY <1>2, <1>3, <1>4, <1>5 DEF IInv

-----------------------------------------------------------------------------
(* The slot of fds.cli that slot i of the compacted table came from once  *)
(* compress_fds(k) ran.                                                     *)
Src(k, i) == IF i < k THEN i ELSE i + 1

(* Closing the connection at idx, then compress_fds(idx): the table stays *)
(* dense and the scan index stays within it.                                *)
LEMMA CloseConnIInv ==
    ASSUME IInv, pc \in {"recv", "send"}, CloseConn, UNCHANGED backlog
    PROVE  /\ cli' \in [Slots -> PfdT]
           /\ conns_count' \in 0 .. MAX_CONNS
           /\ phase' \in [Sock -> Phases]
           /\ idx' = idx /\ pc' = "scan"
           /\ PollSetMatchesConnections'
           /\ ScanIndexInRange'
           /\ BacklogOK'
<1> DEFINE n == conns_count
           k == idx
           c == cli[idx].fd
<1>1. n \in 1 .. MAX_CONNS /\ k \in 0 .. n - 1
  BY DEF IInv, TypeOK, ScanIndexInRange
<1>2. cli \in [Slots -> PfdT] /\ phase \in [Sock -> Phases]
  BY DEF IInv, TypeOK, PfdT
<1>3. /\ cli' = CompressFds(cli, k, n - 1)
      /\ conns_count' = n - 1 /\ idx' = k /\ pc' = "scan"
      /\ phase' = [phase EXCEPT ![c] = "down"]
  BY DEF CloseConn, Cur
<1>4. /\ cli' \in [Slots -> PfdT]
      /\ \A i \in 0 .. n - 2 : cli'[i] = cli[Src(k, i)]
      /\ cli'[n - 1] = EmptyPfd
      /\ \A i \in n .. MAX_CONNS - 1 : cli'[i] = cli[i]
  BY <1>1, <1>2, <1>3, CompressFdsShape DEF Src
<1>5. c \in Sock /\ phase[c] = "up"
  BY <1>1 DEF IInv, PollSetMatchesConnections
<1>6. \A j \in 0 .. n - 1 : j # k =>
         /\ cli[j].fd \in Sock /\ cli[j].fd # c
         /\ phase'[cli[j].fd] = "up"
  <2> SUFFICES ASSUME NEW j \in 0 .. n - 1, j # k
               PROVE  /\ cli[j].fd \in Sock /\ cli[j].fd # c
                      /\ phase'[cli[j].fd] = "up"
    OBVIOUS
  <2>1. cli[j].fd \in Sock /\ phase[cli[j].fd] = "up" /\ cli[j].fd # c
    BY <1>1 DEF IInv, PollSetMatchesConnections
  <2>2. QED
    BY <1>2, <1>3, <2>1
<1>7. \A i \in 0 .. n - 2 : Src(k, i) \in 0 .. n - 1 /\ Src(k, i) # k
  BY <1>1 DEF Src
<1>8. PollSetMatchesConnections'
  <2>1. \A i \in 0 .. n - 2 : cli'[i].fd \in Sock /\ phase'[cli'[i].fd] = "up"
    BY <1>4, <1>6, <1>7
  <2>2. \A i, j \in 0 .. n - 2 : i # j => cli'[i].fd # cli'[j].fd
    <3> SUFFICES ASSUME NEW i \in 0 .. n - 2, NEW j \in 0 .. n - 2, i # j
                 PROVE  cli'[i].fd # cli'[j].fd
      OBVIOUS
    <3>1. Src(k, i) # Src(k, j)
      BY <1>1 DEF Src
    <3>2. QED
      BY <1>4, <1>7, <3>1 DEF IInv, PollSetMatchesConnections
  <2>3. \A i \in n - 1 .. MAX_CONNS - 1 : cli'[i] = EmptyPfd
    BY <1>1, <1>4 DEF IInv, PollSetMatchesConnections
  <2>4. ASSUME NEW s \in Sock, phase'[s] = "up"
        PROVE  \E i \in 0 .. n - 2 : cli'[i].fd = s
    <3>1. s # c /\ phase[s] = "up"
      BY <1>2, <1>3, <2>4
    <3>2. PICK j \in 0 .. n - 1 : cli[j].fd = s
      BY <3>1 DEF IInv, PollSetMatchesConnections
    <3>3. j # k
      BY <3>1, <3>2
    <3>4. CASE j < k
      <4>1. j \in 0 .. n - 2 /\ Src(k, j) = j
        BY <1>1, <3>3, <3>4 DEF Src
      <4>2. QED
        BY <1>4, <3>2, <4>1
    <3>5. CASE j > k
      <4>1. j - 1 \in 0 .. n - 2 /\ Src(k, j - 1) = j
        BY <1>1, <3>5 DEF Src
      <4>2. QED
        BY <1>4, <3>2, <4>1
    <3>6. QED
      BY <1>1, <3>3, <3>4, <3>5
  <2>5. \A s \in Sock : phase'[s] = "up" => \E i \in 0 .. n - 2 : cli'[i].fd = s
    BY <2>4
  <2>6. conns_count' - 1 = n - 2 /\ conns_count' = n - 1
    BY <1>1, <1>3
  <2>7. QED
    BY <2>1, <2>2, <2>3, <2>5, <2>6 DEF PollSetMatchesConnections
<1>9. BacklogOK'
  <2>1. \A l \in Listeners : \A j \in 1 .. Len(backlog[l]) :
           backlog[l][j] # c
    BY <1>5 DEF IInv, BacklogOK
  <2>2. \A l \in Listeners : \A j \in 1 .. Len(backlog[l]) :
           phase'[backlog[l][j]] = phase[backlog[l][j]]
    BY <1>2, <1>3, <2>1
  <2>3. QED
    BY <2>2 DEF IInv, BacklogOK
<1>10. QED
  BY <1>1, <1>2, <1>3, <1>4, <1>5, <1>8, <1>9 DEF ScanIndexInRange, Phases

-----------------------------------------------------------------------------
(* The scan loop of http_srv_thread.                                       *)
LEMMA ScanServeIInv ==
    ASSUME IInv, ScanServe PROVE IInv'
<1>1. /\ UNCHANGED <<listening, backlog, lrev, cli, conns_count, idx, part>>
      /\ UNCHANGED <<slen, ssent, phase, fin, wire, nreq, left, answered, err>>
      /\ UNCHANGED readyAt
  BY DEF ScanServe, peerVars
<1>2. Cur \in Sock
  BY DEF ScanServe, IInv, PollSetMatchesConnections, TypeOK, Cur
<1>3. served' \in Seq(Sock)
  BY <1>2 DEF ScanServe, IInv, TypeOK
<1>4. /\ rlen' \in Nat /\ complete' \in BOOLEAN /\ keep_alive' \in BOOLEAN
      /\ status' \in Statuses /\ content_len' \in Nat /\ pc' = "recv"
  BY DEF ScanServe, Statuses
<1>5. TypeOK'
  BY <1>1, <1>3, <1>4 DEF IInv, TypeOK, Pcs
<1>6. ScanIndexInRange'
  BY <1>1, <1>4 DEF ScanServe, IInv, ScanIndexInRange
<1>7. QED
  BY <1>1, <1>5, <1>6, PollSetFrame, BacklogFrame DEF IInv

LEMMA ScanSkipIInv ==
    ASSUME IInv, ScanSkip \/ ScanEnd PROVE IInv'
<1>1. /\ UNCHANGED <<listening, backlog, lrev, cli, conns_count, rlen>>
      /\ UNCHANGED <<complete, keep_alive, status, content_len, part, slen>>
      /\ UNCHANGED <<ssent, phase, fin, wire, nreq, left, answered, err>>
      /\ UNCHANGED <<txlog, readyAt, served>>
  BY DEF ScanSkip, ScanEnd, peerVars, histVars
<1>2. /\ idx' \in 0 .. conns_count /\ pc' \in {"scan", "poll"}
  BY DEF ScanSkip, ScanEnd, IInv, TypeOK, ScanIndexInRange
<1>3. TypeOK'
  BY <1>1, <1>2 DEF IInv, TypeOK, Pcs
<1>4. ScanIndexInRange'
  BY <1>1, <1>2 DEF ScanIndexInRange
<1>5. QED
  BY <1>1, <1>3, <1>4, PollSetFrame, BacklogFrame DEF IInv

(* recv_request fails (-ENOMEM or the peer closed): the connection closes. *)
LEMMA RecvCloseIInv ==
    ASSUME IInv, RecvFull \/ RecvEof PROVE IInv'
<1>1. /\ UNCHANGED <<listening, backlog, lrev, rlen, complete, keep_alive>>
      /\ UNCHANGED <<status, content_len, part, slen, ssent, fin, wire, nreq>>
      /\ UNCHANGED <<left, answered, err, txlog, readyAt, served>>
      /\ pc = "recv" /\ CloseConn
  BY DEF RecvFull, RecvEof, histVars
<1>2. /\ cli' \in [Slots -> PfdT]
      /\ conns_count' \in 0 .. MAX_CONNS
      /\ phase' \in [Sock -> Phases]
      /\ idx' = idx /\ pc' = "scan"
      /\ PollSetMatchesConnections'
      /\ ScanIndexInRange'
      /\ BacklogOK'
  BY <1>1, CloseConnIInv
<1>3. TypeOK'
  BY <1>1, <1>2 DEF IInv, TypeOK, PfdT, Pcs
<1>4. QED
  BY <1>2, <1>3 DEF IInv

(* zsock_recv returns bytes: the unread bytes shrink, rlen grows, and on  *)
(* completion the route's response is about to be sent.                    *)
LEMMA RecvBytesIInv ==
    ASSUME IInv, NEW k \in 1 .. REQ_BUF_SIZE, RecvChunk(k) \/ RecvLastChunk(k)
    PROVE  IInv'
<1>1. /\ UNCHANGED <<listening, backlog, lrev, cli, conns_count, idx>>
      /\ UNCHANGED <<phase, fin, nreq, left, answered, err, txlog, readyAt, served>>
      /\ RecvBytes(k)
  BY DEF RecvChunk, RecvLastChunk, histVars
<1>2. Cur \in Sock /\ wire[Cur] \in Seq(BOOLEAN) /\ k \in 1 .. Len(wire[Cur])
  BY <1>1 DEF RecvBytes, IInv, TypeOK, ScanIndexInRange, PollSetMatchesConnections, Cur
<1>3. SubSeq(wire[Cur], k + 1, Len(wire[Cur])) \in Seq(BOOLEAN)
  BY <1>2, DropFacts
<1>4. wire' \in [Sock -> Seq(BOOLEAN)] /\ rlen' \in Nat
  BY <1>1, <1>2, <1>3 DEF RecvBytes, IInv, TypeOK
<1>5. /\ complete' \in BOOLEAN /\ keep_alive' \in BOOLEAN /\ status' \in Statuses
      /\ content_len' \in Nat /\ part' \in {"hdr", "body"}
      /\ slen' \in Nat /\ ssent' \in Nat /\ pc' \in {"recv", "send"}
  <2>1. CASE RecvChunk(k)
    BY <2>1 DEF RecvChunk, RecvBytes, IInv, TypeOK
  <2>2. CASE RecvLastChunk(k)
    <3>1. PICK found \in BOOLEAN, fails \in BOOLEAN, cl \in BODY_LENS :
            /\ status' = IF ~found THEN 404 ELSE IF fails THEN 500 ELSE 200
            /\ content_len' = IF found THEN cl ELSE 0
      BY <2>2 DEF RecvLastChunk
    <3>2. status' \in Statuses /\ content_len' \in Nat
      BY <3>1 DEF Statuses
    <3>3. QED
      BY <2>2, <3>2 DEF RecvLastChunk
  <2>3. QED
    BY <1>1, <2>1, <2>2 DEF RecvChunk, RecvLastChunk
<1>6. TypeOK'
  BY <1>1, <1>4, <1>5 DEF IInv, TypeOK, Pcs
<1>7. ScanIndexInRange'
  BY <1>1, <1>5 DEF RecvBytes, IInv, ScanIndexInRange
<1>8. QED
  BY <1>1, <1>6, <1>7, PollSetFrame, BacklogFrame DEF IInv

-----------------------------------------------------------------------------
(* One zsock_send of sendall, and what http_srv_send_response and          *)
(* handle_conn do once a buffer is sent: the body, then keep-alive or close. *)
LEMMA SendBytesIInv ==
    ASSUME IInv, NEW k \in Nat, SendBytes(k) PROVE IInv'
<1>1. /\ UNCHANGED <<listening, backlog, lrev, rlen, complete, keep_alive>>
      /\ UNCHANGED <<status, content_len, fin, wire, nreq, left, err, readyAt>>
      /\ UNCHANGED served /\ pc = "send"
  BY DEF SendBytes
<1>2. Cur \in Sock /\ answered \in [Sock -> Nat]
  BY <1>1 DEF IInv, TypeOK, ScanIndexInRange, PollSetMatchesConnections, Cur
<1>3. CASE ssent + k < slen
  <2>1. /\ UNCHANGED <<part, slen, pc, idx, phase, conns_count, cli, answered>>
        /\ ssent' \in Nat
    BY <1>3 DEF SendBytes, IInv, TypeOK
  <2>2. TypeOK'
    BY <1>1, <2>1 DEF IInv, TypeOK
  <2>3. QED
    BY <1>1, <2>1, <2>2, PollSetFrame, ScanIndexFrame, BacklogFrame DEF IInv
<1>4. CASE ~(ssent + k < slen) /\ part = "hdr" /\ HasPayload(status) /\ content_len > 0
  <2>1. /\ UNCHANGED <<pc, idx, phase, conns_count, cli, answered>>
        /\ part' \in {"hdr", "body"} /\ slen' \in Nat /\ ssent' \in Nat
    BY <1>4 DEF SendBytes, IInv, TypeOK
  <2>2. TypeOK'
    BY <1>1, <2>1 DEF IInv, TypeOK
  <2>3. QED
    BY <1>1, <2>1, <2>2, PollSetFrame, ScanIndexFrame, BacklogFrame DEF IInv
<1>5. CASE ~(ssent + k < slen) /\ ~(part = "hdr" /\ HasPayload(status) /\ content_len > 0)
  <2>1. /\ ResponseDone /\ UNCHANGED <<part, slen, ssent>>
    BY <1>5 DEF SendBytes
  <2>2. answered' \in [Sock -> Nat]
    BY <1>2, <2>1 DEF ResponseDone
  <2>3. CASE keep_alive
    <3>1. /\ pc' = "scan" /\ idx' = idx + 1
          /\ UNCHANGED <<phase, conns_count, cli>>
      BY <2>1, <2>3 DEF ResponseDone
    <3>2. TypeOK'
      BY <1>1, <2>1, <2>2, <3>1 DEF IInv, TypeOK, ScanIndexInRange, Pcs
    <3>3. ScanIndexInRange'
      BY <1>1, <3>1 DEF IInv, TypeOK, ScanIndexInRange
    <3>4. QED
      BY <1>1, <3>1, <3>2, <3>3, PollSetFrame, BacklogFrame DEF IInv
  <2>4. CASE ~keep_alive
    <3>1. CloseConn
      BY <2>1, <2>4 DEF ResponseDone
    <3>2. /\ cli' \in [Slots -> PfdT]
          /\ conns_count' \in 0 .. MAX_CONNS
          /\ phase' \in [Sock -> Phases]
          /\ idx' = idx /\ pc' = "scan"
          /\ PollSetMatchesConnections'
          /\ ScanIndexInRange'
          /\ BacklogOK'
      BY <1>1, <3>1, CloseConnIInv
    <3>3. TypeOK'
      BY <1>1, <2>1, <2>2, <3>2 DEF IInv, TypeOK, PfdT, Pcs
    <3>4. QED
      BY <3>2, <3>3 DEF IInv
  <2>5. QED
    BY <2>3, <2>4
<1>6. QED
  BY <1>3, <1>4, <1>5

(* A failed zsock_send only marks the socket in error.                    *)
LEMMA SendFailIInv ==
    ASSUME IInv, SendFail PROVE IInv'
<1>1. /\ UNCHANGED <<listening, backlog, lrev, cli, conns_count, pc, idx>>
      /\ UNCHANGED <<rlen, complete, keep_alive, status, content_len, part>>
      /\ UNCHANGED <<slen, ssent, phase, fin, wire, nreq, left, answered>>
      /\ UNCHANGED <<txlog, readyAt, served>>
  BY DEF SendFail, srvVars, histVars
<1>2. err' \in [Sock -> BOOLEAN]
  BY DEF SendFail, IInv, TypeOK
<1>3. TypeOK'
  BY <1>1, <1>2 DEF IInv, TypeOK
<1>4. QED
  BY <1>1, <1>3, PollSetFrame, ScanIndexFrame, BacklogFrame DEF IInv

-----------------------------------------------------------------------------
(* Every step of the reactor and of the peers preserves IInv.              *)
THEOREM NextIInv == IInv /\ [Next]_vars => IInv'
<1> SUFFICES ASSUME IInv, [Next]_vars PROVE IInv'
  OBVIOUS
<1>1. CASE Poll
  BY <1>1, PollIInv
<1>2. ASSUME NEW l \in Listeners, AcceptConn(l) \/ AcceptRefused(l) \/ AcceptFailed(l)
      PROVE  IInv'
  BY <1>2, AcceptConnIInv, AcceptDropIInv
<1>3. CASE ScanServe
  BY <1>3, ScanServeIInv
<1>4. CASE ScanSkip \/ ScanEnd
  BY <1>4, ScanSkipIInv
<1>5. CASE RecvFull \/ RecvEof
  BY <1>5, RecvCloseIInv
<1>6. ASSUME NEW k \in 1 .. REQ_BUF_SIZE, RecvChunk(k) \/ RecvLastChunk(k)
      PROVE  IInv'
  BY <1>6, RecvBytesIInv
<1>7. ASSUME NEW k \in 1 .. slen - ssent, SendBytes(k) PROVE IInv'
  BY <1>7, SendBytesIInv
<1>8. CASE SendFail
  BY <1>8, SendFailIInv
<1>9. ASSUME NEW s \in Sock, Peer(s) PROVE IInv'
  <2>1. ASSUME NEW k \in 1 .. MaxReqLen, SendRequestBytes(s, k) PROVE IInv'
    BY <2>1, SendRequestBytesIInv
  <2>2. QED
    BY <1>9, <2>1, ConnectIInv, BeginRequestIInv, PeerCloseIInv DEF Peer
<1>10. CASE UNCHANGED vars \/ Quiescent
  <2>1. UNCHANGED vars
    BY <1>10 DEF Quiescent
  <2>2. /\ UNCHANGED <<listening, backlog, lrev, cli, conns_count, pc, idx>>
        /\ UNCHANGED <<rlen, complete, keep_alive, status, content_len, part>>
        /\ UNCHANGED <<slen, ssent, phase, fin, wire, nreq, left, answered, err>>
        /\ UNCHANGED <<txlog, readyAt, served>>
    BY <2>1 DEF vars, srvVars, peerVars, histVars
  <2>3. TypeOK'
    BY <2>2 DEF IInv, TypeOK
  <2>4. QED
    BY <2>2, <2>3, PollSetFrame, ScanIndexFrame, BacklogFrame DEF IInv
<1>11. QED
  BY <1>1, <1>2, <1>3, <1>4, <1>5, <1>6, <1>7, <1>8, <1>9, <1>10
     DEF Next, Server

(* The reactor never leaves its invariant: IInv holds in every state.      *)
THEOREM SpecIInv == Spec => []IInv
BY InitIInv, NextIInv, PTL DEF Spec

(* Every variable keeps the type of the C object it models, for any pool   *)
(* size, buffer size and set of sockets.                                    *)
THEOREM TypeCorrect == Spec => []TypeOK
BY SpecIInv, PTL DEF IInv

(* accept, http_conn_free and compress_fds keep fds.cli[0..conns_count-1] *)
(* equal to the open connections, each once, with the rest cleared, for    *)
(* every MAX_CONNS and every interleaving of accepts, closes and peers.    *)
THEOREM PollSetInvariant == Spec => []PollSetMatchesConnections
BY SpecIInv, PTL DEF IInv

(* handle_conn never runs on a slot past conns_count, even when the slot  *)
(* under the scan index is closed and compacted away.                      *)
THEOREM ScanIndexInvariant == Spec => []ScanIndexInRange
BY SpecIInv, PTL DEF IInv

=============================================================================
