------------------------ MODULE FilesServerTypeProofs ------------------------
(***************************************************************************)
(* Type correctness of the streaming file handlers of                      *)
(* src/src/http_server/files_server.c for every configuration the model   *)
(* admits, faults included: several connections, connections that die     *)
(* between two calls, fs_read errors and short fs_write.                   *)
(*                                                                         *)
(* TypeOK is not inductive on its own: a later download call reads at the *)
(* position of the slot its static file names, and the byte counts it    *)
(* adds up are naturals only if that slot has a file (with a size) open.  *)
(* The strengthening says that a static fs_file_t that is not empty names *)
(* a slot holding a path, and that the two static files never name the   *)
(* same slot: a first call only takes a free slot, and a slot a static     *)
(* file names is not free.                                                 *)
(***************************************************************************)
EXTENDS FilesServer, TLAPS

USE FilesAssumption

(* The field names of a request record.                                   *)
Fields == {"kind", "dl", "path", "first", "ud", "left", "body", "sent",
           "clen", "from", "status"}

(* The fields of q have the types Req gives them.                         *)
ReqT(q) ==
    /\ q.kind \in Kinds /\ q.dl \in BOOLEAN /\ q.path \in Paths \cup {LongPath}
    /\ q.first \in BOOLEAN /\ q.ud \in BOOLEAN /\ q.left \in Nat
    /\ q.body \in Nat /\ q.sent \in Nat /\ q.clen \in Nat
    /\ q.from \in SUBSET Paths /\ q.status \in {200, 400, 404, 500}

(* Each static fs_file_t that is not empty names a slot with a path open, *)
(* and the two never name the same slot.                                  *)
StaticFilesOpen ==
    /\ ufile # NoH => hpath[ufile] \in Paths
    /\ dfile # NoH => hpath[dfile] \in Paths
    /\ ufile # NoH /\ dfile # NoH => ufile # dfile

TInv == TypeOK /\ StaticFilesOpen

-----------------------------------------------------------------------------
(* A record with the fields of Req, each of its type, is a request.       *)
LEMMA ReqIntro ==
    ASSUME NEW q, q = [f \in Fields |-> q[f]], ReqT(q)
    PROVE  q \in Req
BY Zenon DEF Req, ReqT, Fields

(* A request is a record with the fields of Req, each of its type.        *)
LEMMA ReqElim ==
    ASSUME NEW q \in Req
    PROVE  q = [f \in Fields |-> q[f]] /\ ReqT(q)
BY DEF Req, ReqT, Fields

(* The request of a connection with no request yet.                       *)
LEMMA IdleReqType == IdleReq \in Req
<1>1. IdleReq = [f \in Fields |-> IdleReq[f]]
  BY DEF IdleReq, Fields
<1>2. ReqT(IdleReq)
  BY DEF IdleReq, ReqT, Kinds
<1>3. QED
  BY <1>1, <1>2, ReqIntro

(* Ending a request keeps it a request.                                   *)
LEMMA FinishType ==
    ASSUME NEW r \in Req, NEW st \in {200, 400, 404, 500}
    PROVE  Finish(r, st) \in Req
<1>1. r = [f \in Fields |-> r[f]] /\ ReqT(r)
  BY ReqElim
<1> DEFINE q == Finish(r, st)
<1>2. q = [f \in Fields |-> q[f]]
  BY <1>1 DEF Finish, Fields
<1>3. ReqT(q)
  BY <1>1 DEF Finish, ReqT, Kinds
<1>4. QED
  BY <1>2, <1>3, ReqIntro

(* Replacing the request of one connection by a request.                  *)
LEMMA ReqUpdate ==
    ASSUME NEW c \in Conn, NEW q \in Req, req \in [Conn -> Req]
    PROVE  [req EXCEPT ![c] = q] \in [Conn -> Req]
OBVIOUS

(* fs_close keeps the slots typed.                                        *)
LEMMA CloseType ==
    ASSUME NEW hp \in [Handles -> Paths \cup {NoFile}],
           NEW h \in Handles \cup {NoH}
    PROVE  /\ Close(h, hp) \in [Handles -> Paths \cup {NoFile}]
           /\ \A g \in Handles : g # h => Close(h, hp)[g] = hp[g]
BY DEF Close

(* A request begun by BeginUpload or BeginDownload is a request.          *)
LEMMA BeginReqType ==
    ASSUME NEW r \in Req, NEW p \in Paths \cup {LongPath}, NEW len \in Nat
    PROVE  /\ [r EXCEPT !.kind = "up", !.path = p, !.first = TRUE,
                        !.left = len, !.body = len] \in Req
           /\ [r EXCEPT !.kind = "dl", !.dl = TRUE, !.path = p,
                        !.first = TRUE] \in Req
<1>1. r = [f \in Fields |-> r[f]] /\ ReqT(r)
  BY ReqElim
<1> DEFINE u == [r EXCEPT !.kind = "up", !.path = p, !.first = TRUE,
                          !.left = len, !.body = len]
           d == [r EXCEPT !.kind = "dl", !.dl = TRUE, !.path = p,
                          !.first = TRUE]
<1>2. u = [f \in Fields |-> u[f]] /\ ReqT(u)
  <2>1. u = [f \in Fields |-> u[f]]
    BY <1>1 DEF Fields
  <2>2. ReqT(u)
    BY <1>1 DEF ReqT, Kinds
  <2>3. QED
    BY <2>1, <2>2
<1>3. d = [f \in Fields |-> d[f]] /\ ReqT(d)
  <2>1. d = [f \in Fields |-> d[f]]
    BY <1>1 DEF Fields
  <2>2. ReqT(d)
    BY <1>1 DEF ReqT, Kinds
  <2>3. QED
    BY <2>1, <2>2
<1>4. QED
  BY <1>2, <1>3, ReqIntro

(* The updates a handler call makes to its request keep it a request: an *)
(* upload consumes k bytes of those left, a download records its content  *)
(* length, and a read adds n bytes of the path q to those sent.           *)
LEMMA StepReqType ==
    ASSUME NEW r \in Req
    PROVE  /\ \A k \in 0 .. r.left : [r EXCEPT !.first = FALSE, !.left = @ - k] \in Req
           /\ \A len \in Nat : [r EXCEPT !.ud = TRUE, !.clen = len] \in Req
           /\ \A n \in Nat, q \in Paths :
                 [r EXCEPT !.first = FALSE, !.sent = @ + n,
                           !.from = IF n > 0 THEN @ \cup {q} ELSE @] \in Req
           /\ [r EXCEPT !.ud = FALSE] \in Req
<1>1. r = [f \in Fields |-> r[f]] /\ ReqT(r)
  BY ReqElim
<1>2. ASSUME NEW k \in 0 .. r.left
      PROVE  [r EXCEPT !.first = FALSE, !.left = @ - k] \in Req
  <2> DEFINE a == [r EXCEPT !.first = FALSE, !.left = @ - k]
  <2>1. a = [f \in Fields |-> a[f]]
    BY <1>1 DEF Fields
  <2>2. ReqT(a)
    BY <1>1 DEF ReqT
  <2>3. QED
    BY <2>1, <2>2, ReqIntro
<1>3. ASSUME NEW len \in Nat
      PROVE  [r EXCEPT !.ud = TRUE, !.clen = len] \in Req
  <2> DEFINE b == [r EXCEPT !.ud = TRUE, !.clen = len]
  <2>1. b = [f \in Fields |-> b[f]]
    BY <1>1 DEF Fields
  <2>2. ReqT(b)
    BY <1>1 DEF ReqT
  <2>3. QED
    BY <2>1, <2>2, ReqIntro
<1>4. ASSUME NEW n \in Nat, NEW q \in Paths
      PROVE  [r EXCEPT !.first = FALSE, !.sent = @ + n,
                       !.from = IF n > 0 THEN @ \cup {q} ELSE @] \in Req
  <2> DEFINE e == [r EXCEPT !.first = FALSE, !.sent = @ + n,
                            !.from = IF n > 0 THEN @ \cup {q} ELSE @]
  <2>1. e = [f \in Fields |-> e[f]]
    BY <1>1 DEF Fields
  <2>2. (IF n > 0 THEN r.from \cup {q} ELSE r.from) \in SUBSET Paths
    BY <1>1 DEF ReqT
  <2>3. ReqT(e)
    BY <1>1, <2>2 DEF ReqT
  <2>4. QED
    BY <2>1, <2>3, ReqIntro
<1>5. [r EXCEPT !.ud = FALSE] \in Req
  <2> DEFINE g == [r EXCEPT !.ud = FALSE]
  <2>1. g = [f \in Fields |-> g[f]]
    BY <1>1 DEF Fields
  <2>2. ReqT(g)
    BY <1>1 DEF ReqT
  <2>3. QED
    BY <2>1, <2>2, ReqIntro
<1>6. QED
  BY <1>2, <1>3, <1>4, <1>5

-----------------------------------------------------------------------------
LEMMA InitTInv == Init => TInv
<1> SUFFICES ASSUME Init PROVE TInv
  OBVIOUS
<1>1. req \in [Conn -> Req]
  BY IdleReqType DEF Init
<1>2. TypeOK
  BY <1>1 DEF Init, TypeOK
<1>3. QED
  BY <1>2 DEF Init, TInv, StaticFilesOpen
(* Server side: a request begins on a connection.                        *)
LEMMA BeginTInv ==
    ASSUME TInv, NEW c \in Conn,
           \/ \E p \in Paths \cup {LongPath}, len \in 0 .. MaxBody : BeginUpload(c, p, len)
           \/ \E p \in Paths \cup {LongPath} : BeginDownload(c, p)
    PROVE  TInv'
<1>1. req \in [Conn -> Req] /\ nreq \in [Conn -> 0 .. MaxReqs]
  BY DEF TInv, TypeOK
<1>2. IdleReq \in Req
  BY IdleReqType
<1>3. nreq' \in [Conn -> 0 .. MaxReqs] /\ req' \in [Conn -> Req]
  <2>1. CASE \E p \in Paths \cup {LongPath}, len \in 0 .. MaxBody : BeginUpload(c, p, len)
    <3>1. PICK p \in Paths \cup {LongPath}, len \in 0 .. MaxBody : BeginUpload(c, p, len)
      BY <2>1
    <3>2. [IdleReq EXCEPT !.kind = "up", !.path = p, !.first = TRUE,
                          !.left = len, !.body = len] \in Req
      <4>1. len \in Nat
        OBVIOUS
      <4>2. QED
        BY <1>2, <4>1, BeginReqType, Zenon
    <3>3. nreq' \in [Conn -> 0 .. MaxReqs]
      <4>1. nreq' = [nreq EXCEPT ![c] = nreq[c] + 1] /\ nreq[c] < MaxReqs
        BY <3>1 DEF BeginUpload
      <4>2. nreq[c] + 1 \in 0 .. MaxReqs
        BY <1>1, <4>1
      <4>3. QED
        BY <1>1, <4>1, <4>2
    <3>4. req' \in [Conn -> Req]
      <4> DEFINE q == [IdleReq EXCEPT !.kind = "up", !.path = p, !.first = TRUE, !.left = len, !.body = len]
      <4>1. req' = [req EXCEPT ![c] = q]
        BY <3>1 DEF BeginUpload
      <4>2. QED
        BY <1>1, <3>2, <4>1
    <3>5. QED
      BY <3>3, <3>4
  <2>2. CASE \E p \in Paths \cup {LongPath} : BeginDownload(c, p)
    <3>1. PICK p \in Paths \cup {LongPath} : BeginDownload(c, p)
      BY <2>2
    <3>2. [IdleReq EXCEPT !.kind = "dl", !.dl = TRUE, !.path = p,
                          !.first = TRUE] \in Req
      BY <1>2, BeginReqType, Zenon
    <3>3. nreq' \in [Conn -> 0 .. MaxReqs]
      <4>1. nreq' = [nreq EXCEPT ![c] = nreq[c] + 1] /\ nreq[c] < MaxReqs
        BY <3>1 DEF BeginDownload
      <4>2. nreq[c] + 1 \in 0 .. MaxReqs
        BY <1>1, <4>1
      <4>3. QED
        BY <1>1, <4>1, <4>2
    <3>4. req' \in [Conn -> Req]
      <4> DEFINE q == [IdleReq EXCEPT !.kind = "dl", !.dl = TRUE, !.path = p, !.first = TRUE]
      <4>1. req' = [req EXCEPT ![c] = q]
        BY <3>1 DEF BeginDownload
      <4>2. QED
        BY <1>1, <3>2, <4>1
    <3>5. QED
      BY <3>3, <3>4
  <2>3. QED
    BY <2>1, <2>2
<1>4. UNCHANGED <<hpath, hpos, exists, fsize, ufile, dfile>>
  BY DEF BeginUpload, BeginDownload
<1>5. QED
  BY <1>3, <1>4 DEF TInv, TypeOK, StaticFilesOpen

(* Server side: a connection dies between two calls.                      *)
LEMMA AbortTInv ==
    ASSUME TInv, NEW c \in Conn, Abort(c)
    PROVE  TInv'
<1>1. req' \in [Conn -> Req]
  BY IdleReqType DEF TInv, TypeOK, Abort
<1>2. QED
  BY <1>1 DEF Abort, TInv, TypeOK, StaticFilesOpen

(* A first call that fails before any file is opened, and a download     *)
(* whose path does not fit.                                               *)
LEMMA FailTInv ==
    ASSUME TInv, NEW c \in Conn,
           \/ UploadBadPath(c) \/ UploadOpenFail(c)
           \/ DownloadBadPath(c) \/ DownloadOpenFail(c)
    PROVE  TInv'
<1>1. req \in [Conn -> Req] /\ req[c] \in Req
  BY DEF TInv, TypeOK
<1>2. \A st \in {200, 400, 404, 500} : [req EXCEPT ![c] = Finish(req[c], st)] \in [Conn -> Req]
  BY <1>1, FinishType
<1>3. CASE UploadBadPath(c)
  <2>1. ufile \in Handles \cup {NoH} /\ hpath \in [Handles -> Paths \cup {NoFile}]
    BY DEF TInv, TypeOK
  <2>2. hpath' \in [Handles -> Paths \cup {NoFile}]
        /\ (dfile # NoH => hpath'[dfile] = hpath[dfile])
    BY <2>1, <1>3, CloseType DEF UploadBadPath, TInv, TypeOK, StaticFilesOpen
  <2>3. req' \in [Conn -> Req]
    BY <1>2, <1>3 DEF UploadBadPath
  <2>4. QED
    BY <1>3, <2>2, <2>3 DEF UploadBadPath, TInv, TypeOK, StaticFilesOpen
<1>4. CASE UploadOpenFail(c)
  <2>1. req' \in [Conn -> Req]
    BY <1>2, <1>4 DEF UploadOpenFail
  <2>2. QED
    BY <1>4, <2>1 DEF UploadOpenFail, TInv, TypeOK, StaticFilesOpen
<1>5. CASE DownloadBadPath(c)
  <2>1. req' \in [Conn -> Req]
    BY <1>2, <1>5 DEF DownloadBadPath
  <2>2. QED
    BY <1>5, <2>1 DEF DownloadBadPath, TInv, TypeOK, StaticFilesOpen
<1>6. CASE DownloadOpenFail(c)
  <2>1. req' \in [Conn -> Req]
    BY <1>2, <1>6 DEF DownloadOpenFail
  <2>2. QED
    BY <1>6, <2>1 DEF DownloadOpenFail, TInv, TypeOK, StaticFilesOpen
<1>7. QED
  BY <1>3, <1>4, <1>5, <1>6

(* The write of an upload call and what follows it keeps TInv, whatever  *)
(* slot h the call writes through, provided the filesystem the first-call *)
(* part left is typed, h names a path when it is not empty, and the      *)
(* download's static file still names its path and not h.                *)
LEMMA UploadWriteTInv ==
    ASSUME TInv, NEW c \in Conn, NEW k \in 0 .. req[c].left,
           NEW h \in Handles \cup {NoH},
           NEW hp \in [Handles -> Paths \cup {NoFile}], NEW hpo \in [Handles -> Nat],
           NEW ex \in SUBSET Paths, NEW fs \in [Paths -> Nat],
           h # NoH => hp[h] \in Paths,
           dfile # NoH => hp[dfile] \in Paths /\ dfile # h,
           UploadWrite(c, k, h, hp, hpo, ex, fs), UNCHANGED <<dfile, nreq>>
    PROVE  TInv'
<1>1. /\ req \in [Conn -> Req] /\ req[c] \in Req
      /\ dfile \in Handles \cup {NoH} /\ nreq \in [Conn -> 0 .. MaxReqs]
  BY DEF TInv, TypeOK
<1> DEFINE r == [req[c] EXCEPT !.first = FALSE, !.left = @ - k]
           Grow(w) == [fs EXCEPT ![hp[h]] = IF @ >= hpo[h] + w THEN @ ELSE hpo[h] + w]
           Adv(w) == [hpo EXCEPT ![h] = @ + w]
<1>2. /\ [req EXCEPT ![c] = r] \in [Conn -> Req]
      /\ [req EXCEPT ![c] = Finish(r, 200)] \in [Conn -> Req]
      /\ [req EXCEPT ![c] = Finish(r, 400)] \in [Conn -> Req]
  <2>1. r \in Req
    BY <1>1, StepReqType, Zenon
  <2>2. Finish(r, 200) \in Req /\ Finish(r, 400) \in Req
    BY <2>1, FinishType
  <2>3. QED
    BY <1>1, <2>1, <2>2
<1>3. /\ Close(h, hp) \in [Handles -> Paths \cup {NoFile}]
      /\ dfile # NoH => Close(h, hp)[dfile] = hp[dfile]
  BY <1>1, CloseType
<1>4. ASSUME h # NoH, NEW w \in Nat
      PROVE  Grow(w) \in [Paths -> Nat] /\ Adv(w) \in [Handles -> Nat]
  BY <1>4
<1>5. exists' = ex
  BY DEF UploadWrite
<1>6. CASE /\ k = 0 \/ h # NoH
           /\ fsize' = IF k = 0 THEN fs ELSE Grow(k)
           /\ hpos' = IF k = 0 THEN hpo ELSE Adv(k)
           /\ IF k = req[c].left
              THEN /\ hpath' = Close(h, hp) /\ ufile' = NoH
                   /\ req' = [req EXCEPT ![c] = Finish(r, 200)]
              ELSE /\ hpath' = hp /\ ufile' = h
                   /\ req' = [req EXCEPT ![c] = r]
  <2>1. fsize' \in [Paths -> Nat] /\ hpos' \in [Handles -> Nat]
    BY <1>4, <1>6
  <2>2. CASE k = req[c].left
    BY <1>1, <1>2, <1>3, <1>5, <2>1, <1>6, <2>2 DEF TInv, TypeOK, StaticFilesOpen
  <2>3. CASE k # req[c].left
    BY <1>1, <1>2, <1>5, <2>1, <1>6, <2>3 DEF TInv, TypeOK, StaticFilesOpen
  <2>4. QED
    BY <2>2, <2>3
<1>7. CASE /\ k > 0 /\ h = NoH
           /\ hpath' = hp /\ hpos' = hpo /\ fsize' = fs /\ ufile' = NoH
           /\ req' = [req EXCEPT ![c] = Finish(r, 400)]
  BY <1>1, <1>2, <1>5, <1>7 DEF TInv, TypeOK, StaticFilesOpen
<1>8. CASE /\ k > 0 /\ h # NoH /\ DISK_MAY_FILL
           /\ \E w \in 0 .. k - 1 :
                /\ fsize' = Grow(w)
                /\ hpos' = Adv(w)
                /\ hpath' = IF w # 0 THEN Close(h, hp) ELSE hp
                /\ ufile' = IF w # 0 THEN NoH ELSE h
           /\ req' = [req EXCEPT ![c] = Finish(r, 400)]
  <2>1. PICK w \in 0 .. k - 1 :
                /\ fsize' = Grow(w)
                /\ hpos' = Adv(w)
                /\ hpath' = IF w # 0 THEN Close(h, hp) ELSE hp
                /\ ufile' = IF w # 0 THEN NoH ELSE h
    BY <1>8
  <2>2. fsize' \in [Paths -> Nat] /\ hpos' \in [Handles -> Nat]
    BY <1>4, <1>8, <2>1
  <2>3. QED
    BY <1>1, <1>2, <1>3, <1>5, <1>8, <2>1, <2>2 DEF TInv, TypeOK, StaticFilesOpen
<1>9. QED
  BY <1>6, <1>7, <1>8 DEF UploadWrite

(* First call of an upload that opens its file.                          *)
LEMMA UploadOpenTInv ==
    ASSUME TInv, NEW c \in Conn, NEW k \in 0 .. MaxBody, UploadOpen(c, k)
    PROVE  TInv'
<1> DEFINE p == req[c].path
<1>1. /\ hpath \in [Handles -> Paths \cup {NoFile}] /\ hpos \in [Handles -> Nat]
      /\ exists \subseteq Paths /\ fsize \in [Paths -> Nat]
      /\ req[c] \in Req
  BY DEF TInv, TypeOK
<1>2. p \in Paths /\ k \in 0 .. req[c].left
  <2>1. p \in Paths \cup {LongPath} /\ p # LongPath
    BY <1>1 DEF Req, UploadOpen, PathFits
  <2>2. QED
    BY <2>1 DEF UploadOpen
<1>3. PICK h \in FreeHandles :
         UploadWrite(c, k, h, [hpath EXCEPT ![h] = p], [hpos EXCEPT ![h] = 0],
                     exists \cup {p}, [fsize EXCEPT ![p] = 0])
  BY DEF UploadOpen
<1>4. h \in Handles /\ hpath[h] = NoFile
  BY DEF FreeHandles
<1>5. dfile # NoH => hpath[dfile] \in Paths /\ dfile # h
  BY <1>4 DEF TInv, StaticFilesOpen
<1>6. UNCHANGED <<dfile, nreq>>
  BY DEF UploadOpen
<1> DEFINE hp == [hpath EXCEPT ![h] = p]
           hpo == [hpos EXCEPT ![h] = 0]
           ex == exists \cup {p}
           fs == [fsize EXCEPT ![p] = 0]
<1>7. /\ hp \in [Handles -> Paths \cup {NoFile}] /\ hpo \in [Handles -> Nat]
      /\ ex \in SUBSET Paths /\ fs \in [Paths -> Nat]
      /\ hp[h] \in Paths
      /\ dfile # NoH => hp[dfile] \in Paths /\ dfile # h
  BY <1>1, <1>2, <1>4, <1>5
<1>8. UploadWrite(c, k, h, hp, hpo, ex, fs)
  BY <1>3
<1> HIDE DEF hp, hpo, ex, fs
<1>9. QED
  BY <1>2, <1>4, <1>6, <1>7, <1>8, UploadWriteTInv

(* A later call of an upload, writing through the upload's static file.  *)
LEMMA UploadNextTInv ==
    ASSUME TInv, NEW c \in Conn, NEW k \in 0 .. MaxBody, UploadNext(c, k)
    PROVE  TInv'
<1>1. /\ hpath \in [Handles -> Paths \cup {NoFile}] /\ hpos \in [Handles -> Nat]
      /\ exists \subseteq Paths /\ fsize \in [Paths -> Nat]
      /\ ufile \in Handles \cup {NoH}
  BY DEF TInv, TypeOK
<1>2. /\ ufile # NoH => hpath[ufile] \in Paths
      /\ dfile # NoH => hpath[dfile] \in Paths /\ dfile # ufile
  BY DEF TInv, StaticFilesOpen
<1>3. /\ k \in 0 .. req[c].left
      /\ UploadWrite(c, k, ufile, hpath, hpos, exists, fsize)
      /\ UNCHANGED <<dfile, nreq>>
  BY DEF UploadNext
<1>4. QED
  BY <1>1, <1>2, <1>3, UploadWriteTInv

(* "Read & close" of a download call keeps TInv, whatever slot h it reads *)
(* through, provided the slots the first-call part left are typed, h      *)
(* names a path when it is not empty, and the upload's static file still  *)
(* names its path and not h.                                              *)
LEMMA DownloadReadTInv ==
    ASSUME TInv, NEW c \in Conn, NEW h \in Handles \cup {NoH},
           NEW hp \in [Handles -> Paths \cup {NoFile}], NEW hpo \in [Handles -> Nat],
           NEW r \in Req,
           h # NoH => hp[h] \in Paths,
           ufile # NoH => hp[ufile] \in Paths /\ ufile # h,
           DownloadRead(c, h, hp, hpo, r), UNCHANGED <<exists, fsize, ufile, nreq>>
    PROVE  TInv'
<1>1. /\ req \in [Conn -> Req] /\ fsize \in [Paths -> Nat] /\ exists \subseteq Paths
      /\ ufile \in Handles \cup {NoH} /\ nreq \in [Conn -> 0 .. MaxReqs]
  BY DEF TInv, TypeOK
<1>2. /\ Close(h, hp) \in [Handles -> Paths \cup {NoFile}]
      /\ ufile # NoH => Close(h, hp)[ufile] = hp[ufile]
  BY <1>1, CloseType
<1>3. CASE ReadFail(c, h, hp, hpo, r)
  <2>1. [req EXCEPT ![c] = Finish(r, 500)] \in [Conn -> Req]
    BY <1>1, FinishType
  <2>2. QED
    BY <1>1, <1>2, <1>3, <2>1 DEF ReadFail, TInv, TypeOK, StaticFilesOpen
<1>4. CASE ReadOk(c, h, hp, hpo, r)
  <2> DEFINE pos == hpo[h]
             avail == IF fsize[hp[h]] >= pos THEN fsize[hp[h]] - pos ELSE 0
             n == Least(BUF, avail)
             r2 == [r EXCEPT !.first = FALSE, !.sent = @ + n,
                             !.from = IF n > 0 THEN @ \cup {hp[h]} ELSE @]
  <2>1. h # NoH /\ hp[h] \in Paths /\ pos \in Nat
    BY <1>4 DEF ReadOk
  <2>2. n \in Nat
    BY <1>1, <2>1 DEF Least
  <2>3. r2 \in Req /\ Finish([r2 EXCEPT !.ud = FALSE], 200) \in Req
    <3>1. r2 \in Req
      BY <2>1, <2>2, StepReqType, Zenon
    <3>2. [r2 EXCEPT !.ud = FALSE] \in Req
      BY <3>1, StepReqType
    <3>3. QED
      BY <3>1, <3>2, FinishType
  <2>4. hpos' = [hpo EXCEPT ![h] = pos + n] /\ hpos' \in [Handles -> Nat]
    BY <1>4, <2>1, <2>2 DEF ReadOk
  <2>5. CASE n = BUF
    <3>1. hpath' = hp /\ dfile' = h /\ req' = [req EXCEPT ![c] = r2]
      BY <1>4, <2>5 DEF ReadOk
    <3>2. QED
      BY <1>1, <2>1, <2>3, <2>4, <3>1 DEF TInv, TypeOK, StaticFilesOpen
  <2>6. CASE n # BUF
    <3>1. /\ hpath' = Close(h, hp) /\ dfile' = NoH
          /\ req' = [req EXCEPT ![c] = Finish([r2 EXCEPT !.ud = FALSE], 200)]
      BY <1>4, <2>6 DEF ReadOk
    <3>2. QED
      BY <1>1, <1>2, <2>1, <2>3, <2>4, <3>1 DEF TInv, TypeOK, StaticFilesOpen
  <2>7. QED
    BY <2>5, <2>6
<1>5. QED
  BY <1>3, <1>4 DEF DownloadRead

(* First call of a download that opens its file.                         *)
LEMMA DownloadOpenTInv ==
    ASSUME TInv, NEW c \in Conn, DownloadOpen(c)
    PROVE  TInv'
<1> DEFINE p == req[c].path
<1>1. /\ hpath \in [Handles -> Paths \cup {NoFile}] /\ hpos \in [Handles -> Nat]
      /\ exists \subseteq Paths /\ fsize \in [Paths -> Nat]
      /\ req[c] \in Req
  BY DEF TInv, TypeOK
<1>2. p \in Paths
  BY <1>1 DEF DownloadOpen
<1>3. PICK h \in FreeHandles :
         DownloadRead(c, h, [hpath EXCEPT ![h] = p], [hpos EXCEPT ![h] = 0],
                      [req[c] EXCEPT !.ud = TRUE, !.clen = fsize[p]])
  BY DEF DownloadOpen
<1>4. h \in Handles /\ hpath[h] = NoFile
  BY DEF FreeHandles
<1>5. ufile # NoH => hpath[ufile] \in Paths /\ ufile # h
  BY <1>4 DEF TInv, StaticFilesOpen
<1>6. UNCHANGED <<exists, fsize, ufile, nreq>>
  BY DEF DownloadOpen
<1> DEFINE hp == [hpath EXCEPT ![h] = p]
           hpo == [hpos EXCEPT ![h] = 0]
           r == [req[c] EXCEPT !.ud = TRUE, !.clen = fsize[p]]
<1>7. /\ hp \in [Handles -> Paths \cup {NoFile}] /\ hpo \in [Handles -> Nat]
      /\ hp[h] \in Paths
      /\ ufile # NoH => hp[ufile] \in Paths /\ ufile # h
  BY <1>1, <1>2, <1>4, <1>5
<1>8. r \in Req
  <2>1. fsize[p] \in Nat
    BY <1>1, <1>2
  <2>2. QED
    BY <1>1, <2>1, StepReqType, Zenon
<1>9. DownloadRead(c, h, hp, hpo, r)
  BY <1>3
<1> HIDE DEF hp, hpo, r
<1>10. QED
  BY <1>4, <1>6, <1>7, <1>8, <1>9, DownloadReadTInv

(* A later call of a download, reading through the download's static file. *)
LEMMA DownloadNextTInv ==
    ASSUME TInv, NEW c \in Conn, DownloadNext(c)
    PROVE  TInv'
<1>1. /\ hpath \in [Handles -> Paths \cup {NoFile}] /\ hpos \in [Handles -> Nat]
      /\ dfile \in Handles \cup {NoH} /\ req[c] \in Req
  BY DEF TInv, TypeOK
<1>2. /\ dfile # NoH => hpath[dfile] \in Paths
      /\ ufile # NoH => hpath[ufile] \in Paths /\ ufile # dfile
  BY DEF TInv, StaticFilesOpen
<1>3. /\ DownloadRead(c, dfile, hpath, hpos, req[c])
      /\ UNCHANGED <<exists, fsize, ufile, nreq>>
  BY DEF DownloadNext
<1>4. QED
  BY <1>1, <1>2, <1>3, DownloadReadTInv

(* TInv is inductive.                                                     *)
LEMMA NextTInv == TInv /\ [Next]_vars => TInv'
<1> SUFFICES ASSUME TInv, [Next]_vars PROVE TInv'
  OBVIOUS
<1>1. CASE UNCHANGED vars
  BY <1>1 DEF vars, TInv, TypeOK, StaticFilesOpen
<1>2. CASE Terminated
  BY <1>2 DEF Terminated, vars, TInv, TypeOK, StaticFilesOpen
<1>3. ASSUME NEW c \in Conn,
             \/ \E p \in Paths \cup {LongPath}, len \in 0 .. MaxBody : BeginUpload(c, p, len)
             \/ \E p \in Paths \cup {LongPath} : BeginDownload(c, p)
             \/ Abort(c)
             \/ UploadBadPath(c) \/ UploadOpenFail(c)
             \/ \E k \in 0 .. MaxBody : UploadOpen(c, k) \/ UploadNext(c, k)
             \/ DownloadBadPath(c) \/ DownloadOpenFail(c)
             \/ DownloadOpen(c) \/ DownloadNext(c)
      PROVE  TInv'
  <2>1. CASE \/ \E p \in Paths \cup {LongPath}, len \in 0 .. MaxBody : BeginUpload(c, p, len)
             \/ \E p \in Paths \cup {LongPath} : BeginDownload(c, p)
    BY <2>1, BeginTInv
  <2>2. CASE Abort(c)
    BY <2>2, AbortTInv
  <2>3. CASE \/ UploadBadPath(c) \/ UploadOpenFail(c)
             \/ DownloadBadPath(c) \/ DownloadOpenFail(c)
    BY <2>3, FailTInv
  <2>4. CASE \E k \in 0 .. MaxBody : UploadOpen(c, k) \/ UploadNext(c, k)
    BY <2>4, UploadOpenTInv, UploadNextTInv
  <2>5. CASE DownloadOpen(c)
    BY <2>5, DownloadOpenTInv
  <2>6. CASE DownloadNext(c)
    BY <2>6, DownloadNextTInv
  <2>7. QED
    BY <1>3, <2>1, <2>2, <2>3, <2>4, <2>5, <2>6
<1>4. QED
  BY <1>1, <1>2, <1>3 DEF Next

(* Type correctness of the file handlers (TypeOK, the invariant the       *)
(* files_faults run checks): the slots, the file positions and sizes, the *)
(* two static fs_file_t and the request records stay well typed whatever  *)
(* the connections do, including aborts, fs_read errors and short writes. *)
THEOREM FilesTypeCorrect == Spec => []TypeOK
<1>1. Init => TInv
  BY InitTInv
<1>2. TInv /\ [Next]_vars => TInv'
  BY NextTInv
<1>3. TInv => TypeOK
  BY DEF TInv
<1>4. QED
  BY <1>1, <1>2, <1>3, PTL DEF Spec

====
