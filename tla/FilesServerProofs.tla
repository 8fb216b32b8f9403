-------------------------- MODULE FilesServerProofs --------------------------
(***************************************************************************)
(* Proofs about the streaming file handlers of                             *)
(* src/src/http_server/files_server.c, for every number of filesystem      *)
(* slots, paths, file sizes, body lengths and buffer sizes: when only one  *)
(* connection streams files, no connection dies between two calls and     *)
(* every fs_write writes what it is given, no slot is ever left open      *)
(* without a static fs_file_t naming it.                                   *)
(*                                                                         *)
(* NoLeakedHandle is not inductive on its own: a first call takes a free  *)
(* slot and overwrites the static file, so the proof must know that the   *)
(* static file was empty then.  The strengthening says that a static file *)
(* holds a slot only between the first call of its handler's request and *)
(* the call that ends it, and that the slot is open.                      *)
(*                                                                         *)
(* Under the same hypothesis, a download answered 200 sent its file whole *)
(* and an upload answered 200 stored its body (DownloadsDeliverFiles,      *)
(* UploadsStoreBodies).  Their invariant CInv follows the file position   *)
(* and the file size of a streaming request: both equal what it has sent, *)
(* or what it has received, so far.                                        *)
(***************************************************************************)
EXTENDS FilesServer, TLAPS

(* The configurations the theorem is about: one connection, no aborts,    *)
(* no short writes.                                                        *)
OneConn == \A c, d \in Conn : c = d

Hyp == OneConn /\ ~ABORT_MAY_HAPPEN /\ ~DISK_MAY_FILL

(* A request record has the fields of IdleReq and names a path.           *)
ReqOK(q) == DOMAIN q = DOMAIN IdleReq /\ q.path \in Paths \cup {LongPath}

IInv ==
    /\ hpath \in [Handles -> Paths \cup {NoFile}]
    /\ ufile \in Handles \cup {NoH} /\ dfile \in Handles \cup {NoH}
    /\ DOMAIN req = Conn /\ \A c \in Conn : ReqOK(req[c])
    /\ ufile # NoH => /\ hpath[ufile] # NoFile
                      /\ \A c \in Conn : req[c].kind = "up" /\ ~req[c].first
    /\ dfile # NoH => /\ hpath[dfile] # NoFile
                      /\ \A c \in Conn : req[c].kind = "dl" /\ ~req[c].first
    /\ NoLeakedHandle

-----------------------------------------------------------------------------
(* With neither static file holding a slot, every slot is free.           *)
LEMMA AllFree ==
    ASSUME IInv, ufile = NoH, dfile = NoH
    PROVE  \A h \in Handles : hpath[h] = NoFile
BY FilesAssumption DEF IInv, NoLeakedHandle

(* Closing the only slot that is open frees every slot.                   *)
LEMMA CloseLast ==
    ASSUME IInv, NEW x \in Handles \cup {NoH},
           \A h \in Handles : hpath[h] # NoFile => h = x
    PROVE  \A h \in Handles : Close(x, hpath)[h] = NoFile
BY FilesAssumption DEF Close, IInv

(* The request record of the only connection, replaced.                   *)
LEMMA ReqAt ==
    ASSUME IInv, OneConn, NEW c \in Conn, NEW q, req' = [req EXCEPT ![c] = q]
    PROVE  DOMAIN req' = Conn /\ \A d \in Conn : req'[d] = q
BY DEF IInv, OneConn

(* Finish keeps the fields and the path of a request and ends it.         *)
LEMMA FinishShape ==
    ASSUME NEW r, ReqOK(r), NEW st
    PROVE  ReqOK(Finish(r, st)) /\ Finish(r, st).kind = "done"
BY DEF ReqOK, Finish, IdleReq

-----------------------------------------------------------------------------
(* What one upload call does to the slots, the static file and the        *)
(* request, when every write is whole: it ends the request with the slot  *)
(* closed, or it keeps the slot open in the static file and the request   *)
(* streaming.                                                              *)
LEMMA UploadWriteShape ==
    ASSUME NEW c, NEW k, NEW h, NEW hp, NEW hpo, NEW ex, NEW fs,
           ~DISK_MAY_FILL, ReqOK(req[c]),
           UploadWrite(c, k, h, hp, hpo, ex, fs)
    PROVE  \E q : /\ req' = [req EXCEPT ![c] = q] /\ ReqOK(q)
                  /\ \/ hpath' = Close(h, hp) /\ ufile' = NoH /\ q.kind = "done"
                     \/ /\ hpath' = hp /\ ufile' = h
                        /\ q.kind = req[c].kind /\ ~q.first
<1> DEFINE r == [req[c] EXCEPT !.first = FALSE, !.left = @ - k]
<1>1. ReqOK(r) /\ r.kind = req[c].kind /\ ~r.first
      BY DEF ReqOK, IdleReq
<1>2. ReqOK(Finish(r, 200)) /\ Finish(r, 200).kind = "done"
      BY <1>1, FinishShape
<1>3. ReqOK(Finish(r, 400)) /\ Finish(r, 400).kind = "done"
      BY <1>1, FinishShape
<1>4. CASE k = req[c].left /\ (k = 0 \/ h # NoH)
      BY <1>2, <1>4 DEF UploadWrite
<1>5. CASE k # req[c].left /\ (k = 0 \/ h # NoH)
  <2>1. hpath' = hp /\ ufile' = h /\ req' = [req EXCEPT ![c] = r]
        BY <1>5 DEF UploadWrite
  <2> QED BY <1>1, <2>1
<1>6. CASE ~(k = 0 \/ h # NoH)
  <2>1. /\ hpath' = hp /\ ufile' = NoH /\ h = NoH
        /\ req' = [req EXCEPT ![c] = Finish(r, 400)]
        BY <1>6 DEF UploadWrite
  <2> QED BY <1>3, <2>1 DEF Close
<1> QED BY <1>4, <1>5, <1>6

(* The same for one read of a download.                                    *)
LEMMA DownloadReadShape ==
    ASSUME NEW c, NEW h, NEW hp, NEW hpo, NEW r, ReqOK(r),
           DownloadRead(c, h, hp, hpo, r)
    PROVE  \E q : /\ req' = [req EXCEPT ![c] = q] /\ ReqOK(q)
                  /\ \/ hpath' = Close(h, hp) /\ dfile' = NoH /\ q.kind = "done"
                     \/ /\ h # NoH /\ hpath' = hp /\ dfile' = h
                        /\ q.kind = r.kind /\ ~q.first
<1>1. CASE ReadFail(c, h, hp, hpo, r)
  <2>1. ReqOK(Finish(r, 500)) /\ Finish(r, 500).kind = "done"
        BY FinishShape
  <2>2. hpath' = Close(h, hp) /\ dfile' = NoH /\ req' = [req EXCEPT ![c] = Finish(r, 500)]
        BY <1>1 DEF ReadFail
  <2> QED BY <2>1, <2>2
<1>2. CASE ReadOk(c, h, hp, hpo, r)
  <2> DEFINE pos == hpo[h]
             avail == IF fsize[hp[h]] >= pos THEN fsize[hp[h]] - pos ELSE 0
             n == Least(BUF, avail)
             r2 == [r EXCEPT !.first = FALSE, !.sent = @ + n,
                             !.from = IF n > 0 THEN @ \cup {hp[h]} ELSE @]
  <2>1. ReqOK(r2) /\ r2.kind = r.kind /\ ~r2.first
        BY DEF ReqOK, IdleReq
  <2>2. ReqOK([r2 EXCEPT !.ud = FALSE]) /\ [r2 EXCEPT !.ud = FALSE].kind = r.kind
        BY <2>1 DEF ReqOK, IdleReq
  <2>3. ReqOK(Finish([r2 EXCEPT !.ud = FALSE], 200))
        /\ Finish([r2 EXCEPT !.ud = FALSE], 200).kind = "done"
        BY <2>2, FinishShape
  <2>4. CASE n = BUF
        BY <1>2, <2>1, <2>4 DEF ReadOk
  <2>5. CASE n # BUF
        BY <1>2, <2>3, <2>5 DEF ReadOk
  <2> QED BY <2>4, <2>5
<1> QED BY <1>1, <1>2 DEF DownloadRead

-----------------------------------------------------------------------------
(* The invariant, from what a step leaves in the slots, the static files  *)
(* and the request of the only connection.                                 *)
LEMMA Conclude ==
    ASSUME NEW q, ReqOK(q), DOMAIN req' = Conn, \A d \in Conn : req'[d] = q,
           hpath' \in [Handles -> Paths \cup {NoFile}],
           ufile' \in Handles \cup {NoH}, dfile' \in Handles \cup {NoH},
           ufile' # NoH => hpath'[ufile'] # NoFile /\ q.kind = "up" /\ ~q.first,
           dfile' # NoH => hpath'[dfile'] # NoFile /\ q.kind = "dl" /\ ~q.first,
           NoLeakedHandle'
    PROVE  IInv'
BY DEF IInv

(* A step that frees every slot and empties both static files.             *)
LEMMA ConcludeFree ==
    ASSUME NEW q, ReqOK(q), DOMAIN req' = Conn, \A d \in Conn : req'[d] = q,
           hpath' = [h \in Handles |-> NoFile], ufile' = NoH, dfile' = NoH
    PROVE  IInv'
BY Conclude DEF NoLeakedHandle

(* A request begins: the static files are empty, since the connection's    *)
(* last request has ended.                                                  *)
LEMMA BeginIInv ==
    ASSUME IInv, Hyp, NEW c \in Conn,
           \/ \E p \in Paths \cup {LongPath}, len \in 0 .. MaxBody : BeginUpload(c, p, len)
           \/ \E p \in Paths \cup {LongPath} : BeginDownload(c, p)
    PROVE  IInv'
<1>1. req[c].kind \in {"idle", "done"} /\ UNCHANGED <<hpath, ufile, dfile>>
      BY DEF BeginUpload, BeginDownload
<1>2. ufile = NoH /\ dfile = NoH
      BY <1>1 DEF IInv
<1>3. PICK q : req' = [req EXCEPT ![c] = q] /\ ReqOK(q)
  <2>1. CASE \E p \in Paths \cup {LongPath}, len \in 0 .. MaxBody : BeginUpload(c, p, len)
    <3>1. PICK p \in Paths \cup {LongPath}, len \in 0 .. MaxBody : BeginUpload(c, p, len)
          BY <2>1
    <3>2. ReqOK([IdleReq EXCEPT !.kind = "up", !.path = p, !.first = TRUE,
                 !.left = len, !.body = len])
          BY DEF ReqOK, IdleReq
    <3> QED BY <3>1, <3>2 DEF BeginUpload
  <2>2. CASE \E p \in Paths \cup {LongPath} : BeginDownload(c, p)
    <3>1. PICK p \in Paths \cup {LongPath} : BeginDownload(c, p)
          BY <2>2
    <3>2. ReqOK([IdleReq EXCEPT !.kind = "dl", !.dl = TRUE, !.path = p, !.first = TRUE])
          BY DEF ReqOK, IdleReq
    <3> QED BY <3>1, <3>2 DEF BeginDownload
  <2> QED BY <2>1, <2>2
<1>4. DOMAIN req' = Conn /\ \A d \in Conn : req'[d] = q
      BY <1>3, ReqAt DEF Hyp
<1> QED BY <1>1, <1>2, <1>3, <1>4, Conclude DEF IInv, NoLeakedHandle

(* The first call of an upload that opens nothing: the static file is      *)
(* empty, so the close at `exit:` frees nothing.                           *)
LEMMA UploadFailIInv ==
    ASSUME IInv, Hyp, NEW c \in Conn, UploadBadPath(c) \/ UploadOpenFail(c)
    PROVE  IInv'
<1>1. req[c].kind = "up" /\ req[c].first
      BY DEF UploadBadPath, UploadOpenFail
<1>2. ufile = NoH /\ dfile = NoH
      BY <1>1 DEF IInv
<1>3. hpath' = [h \in Handles |-> NoFile] /\ ufile' = NoH /\ dfile' = NoH
      BY <1>2, AllFree DEF UploadBadPath, UploadOpenFail, Close, IInv
<1>4. req' = [req EXCEPT ![c] = Finish(req[c], 400)]
      BY DEF UploadBadPath, UploadOpenFail
<1>5. ReqOK(Finish(req[c], 400))
      BY FinishShape DEF IInv
<1> QED BY <1>3, <1>4, <1>5, ReqAt, ConcludeFree DEF Hyp

(* The first call of an upload opens a free slot into the empty static     *)
(* file: the call either closes it again (the body was complete) or keeps *)
(* it, and then it is the only open slot.                                  *)
LEMMA UploadOpenIInv ==
    ASSUME IInv, Hyp, NEW c \in Conn, NEW k, UploadOpen(c, k)
    PROVE  IInv'
<1> DEFINE p == req[c].path
<1>1. req[c].kind = "up" /\ req[c].first /\ p \in Paths /\ dfile' = dfile
      BY DEF UploadOpen, PathFits, IInv, ReqOK
<1>2. ufile = NoH /\ dfile = NoH
      BY <1>1 DEF IInv
<1>3. \A h \in Handles : hpath[h] = NoFile
      BY <1>2, AllFree
<1>4. PICK h \in FreeHandles :
          UploadWrite(c, k, h, [hpath EXCEPT ![h] = p], [hpos EXCEPT ![h] = 0],
                      exists \cup {p}, [fsize EXCEPT ![p] = 0])
      BY DEF UploadOpen
<1> DEFINE hp1 == [hpath EXCEPT ![h] = p]
<1>5. h \in Handles /\ h # NoH /\ hp1[h] = p /\ hp1 \in [Handles -> Paths \cup {NoFile}]
      BY <1>1, FilesAssumption DEF FreeHandles, IInv
<1>6. PICK q : /\ req' = [req EXCEPT ![c] = q] /\ ReqOK(q)
               /\ \/ hpath' = Close(h, hp1) /\ ufile' = NoH /\ q.kind = "done"
                  \/ /\ hpath' = hp1 /\ ufile' = h
                     /\ q.kind = req[c].kind /\ ~q.first
  <2>1. ReqOK(req[c]) /\ ~DISK_MAY_FILL
        BY DEF IInv, Hyp
  <2> QED BY <1>4, <2>1, UploadWriteShape
<1>7. DOMAIN req' = Conn /\ \A d \in Conn : req'[d] = q
      BY <1>6, ReqAt DEF Hyp
<1>8. CASE hpath' = Close(h, hp1) /\ ufile' = NoH
  <2>1. hpath' = [g \in Handles |-> NoFile]
        BY <1>3, <1>5, <1>8 DEF Close, IInv
  <2> QED BY <1>1, <1>2, <1>6, <1>7, <1>8, <2>1, ConcludeFree
<1>9. CASE hpath' = hp1 /\ ufile' = h /\ q.kind = req[c].kind /\ ~q.first
  <2>1. \A g \in Handles : hpath'[g] # NoFile => g = h
        BY <1>3, <1>9 DEF IInv
  <2>2. NoLeakedHandle'
        BY <2>1, <1>9 DEF NoLeakedHandle
  <2>3. hpath'[ufile'] # NoFile
        BY <1>1, <1>5, <1>9, FilesAssumption
  <2> QED BY <1>1, <1>2, <1>5, <1>6, <1>7, <1>9, <2>2, <2>3, Conclude
<1> QED BY <1>6, <1>8, <1>9

(* A later call of an upload writes through the static file: the call     *)
(* that completes the body closes the only open slot.                      *)
LEMMA UploadNextIInv ==
    ASSUME IInv, Hyp, NEW c \in Conn, NEW k, UploadNext(c, k)
    PROVE  IInv'
<1>1. req[c].kind = "up" /\ ~req[c].first /\ dfile' = dfile
      BY DEF UploadNext
<1>2. dfile = NoH
      BY <1>1 DEF IInv
<1>3. PICK q : /\ req' = [req EXCEPT ![c] = q] /\ ReqOK(q)
               /\ \/ hpath' = Close(ufile, hpath) /\ ufile' = NoH /\ q.kind = "done"
                  \/ /\ hpath' = hpath /\ ufile' = ufile
                     /\ q.kind = req[c].kind /\ ~q.first
      BY UploadWriteShape DEF UploadNext, Hyp, IInv
<1>4. DOMAIN req' = Conn /\ \A d \in Conn : req'[d] = q
      BY <1>3, ReqAt DEF Hyp
<1>5. CASE hpath' = Close(ufile, hpath) /\ ufile' = NoH
  <2>1. \A h \in Handles : hpath[h] # NoFile => h = ufile
        BY <1>2, FilesAssumption DEF IInv, NoLeakedHandle
  <2>2. hpath' = [g \in Handles |-> NoFile]
        BY <1>5, <2>1, CloseLast DEF IInv, Close
  <2> QED BY <1>1, <1>2, <1>3, <1>4, <1>5, <2>2, ConcludeFree
<1>6. CASE hpath' = hpath /\ ufile' = ufile /\ q.kind = req[c].kind /\ ~q.first
      BY <1>1, <1>2, <1>3, <1>4, <1>6, Conclude DEF IInv, NoLeakedHandle
<1> QED BY <1>3, <1>5, <1>6

(* The first call of a download that opens nothing leaves the slots and   *)
(* the empty static files as they were.                                    *)
LEMMA DownloadFailIInv ==
    ASSUME IInv, Hyp, NEW c \in Conn, DownloadBadPath(c) \/ DownloadOpenFail(c)
    PROVE  IInv'
<1>1. req[c].kind = "dl" /\ req[c].first
      BY DEF DownloadBadPath, DownloadOpenFail
<1>2. ufile = NoH /\ dfile = NoH
      BY <1>1 DEF IInv
<1>3. hpath' = [h \in Handles |-> NoFile] /\ ufile' = NoH /\ dfile' = NoH
      BY <1>2, AllFree DEF DownloadBadPath, DownloadOpenFail, IInv
<1>4. PICK st : req' = [req EXCEPT ![c] = Finish(req[c], st)]
      BY DEF DownloadBadPath, DownloadOpenFail
<1>5. ReqOK(Finish(req[c], st))
      BY FinishShape DEF IInv
<1> QED BY <1>3, <1>4, <1>5, ReqAt, ConcludeFree DEF Hyp

(* The first call of a download opens a free slot into the empty static   *)
(* file and reads: the slot is closed again, or it is the only open one.  *)
LEMMA DownloadOpenIInv ==
    ASSUME IInv, Hyp, NEW c \in Conn, DownloadOpen(c)
    PROVE  IInv'
<1> DEFINE p == req[c].path
           r1 == [req[c] EXCEPT !.ud = TRUE, !.clen = fsize[p]]
<1>1. req[c].kind = "dl" /\ req[c].first /\ p \in Paths /\ ufile' = ufile
      BY DEF DownloadOpen, PathFits, IInv, ReqOK
<1>2. ufile = NoH /\ dfile = NoH
      BY <1>1 DEF IInv
<1>3. \A h \in Handles : hpath[h] = NoFile
      BY <1>2, AllFree
<1>4. PICK h \in FreeHandles :
          DownloadRead(c, h, [hpath EXCEPT ![h] = p], [hpos EXCEPT ![h] = 0], r1)
      BY DEF DownloadOpen
<1> DEFINE hp1 == [hpath EXCEPT ![h] = p]
<1>5. h \in Handles /\ h # NoH /\ hp1[h] = p /\ hp1 \in [Handles -> Paths \cup {NoFile}]
      BY <1>1, FilesAssumption DEF FreeHandles, IInv
<1>6. ReqOK(r1) /\ r1.kind = "dl"
      BY <1>1 DEF IInv, ReqOK, IdleReq
<1>7. PICK q : /\ req' = [req EXCEPT ![c] = q] /\ ReqOK(q)
               /\ \/ hpath' = Close(h, hp1) /\ dfile' = NoH /\ q.kind = "done"
                  \/ /\ h # NoH /\ hpath' = hp1 /\ dfile' = h
                     /\ q.kind = r1.kind /\ ~q.first
  <2> DEFINE hpo1 == [hpos EXCEPT ![h] = 0]
  <2>1. DownloadRead(c, h, hp1, hpo1, r1)
        BY <1>4
  <2> HIDE DEF hp1, hpo1, r1
  <2> QED BY <2>1, <1>6, DownloadReadShape
<1>8. DOMAIN req' = Conn /\ \A d \in Conn : req'[d] = q
      BY <1>7, ReqAt DEF Hyp
<1>9. CASE hpath' = Close(h, hp1) /\ dfile' = NoH
  <2>1. hpath' = [g \in Handles |-> NoFile]
        BY <1>3, <1>5, <1>9 DEF Close, IInv
  <2> QED BY <1>1, <1>2, <1>7, <1>8, <1>9, <2>1, ConcludeFree
<1>10. CASE hpath' = hp1 /\ dfile' = h /\ q.kind = r1.kind /\ ~q.first
  <2>1. \A g \in Handles : hpath'[g] # NoFile => g = h
        BY <1>3, <1>10 DEF IInv
  <2>2. NoLeakedHandle'
        BY <2>1, <1>10 DEF NoLeakedHandle
  <2>3. hpath'[dfile'] # NoFile
        BY <1>1, <1>5, <1>10, FilesAssumption
  <2> QED BY <1>1, <1>2, <1>5, <1>6, <1>7, <1>8, <1>10, <2>2, <2>3, Conclude
<1> QED BY <1>7, <1>9, <1>10

(* A later call of a download reads through the static file: the read    *)
(* that ends the response, or fails, closes the only open slot.            *)
LEMMA DownloadNextIInv ==
    ASSUME IInv, Hyp, NEW c \in Conn, DownloadNext(c)
    PROVE  IInv'
<1>1. req[c].kind = "dl" /\ ~req[c].first /\ ufile' = ufile
      /\ DownloadRead(c, dfile, hpath, hpos, req[c])
      BY DEF DownloadNext
<1>2. ufile = NoH /\ ReqOK(req[c])
      BY <1>1 DEF IInv
<1>3. PICK q : /\ req' = [req EXCEPT ![c] = q] /\ ReqOK(q)
               /\ \/ hpath' = Close(dfile, hpath) /\ dfile' = NoH /\ q.kind = "done"
                  \/ /\ dfile # NoH /\ hpath' = hpath /\ dfile' = dfile
                     /\ q.kind = req[c].kind /\ ~q.first
      BY <1>1, <1>2, DownloadReadShape
<1>4. DOMAIN req' = Conn /\ \A d \in Conn : req'[d] = q
      BY <1>3, ReqAt DEF Hyp
<1>5. CASE hpath' = Close(dfile, hpath) /\ dfile' = NoH
  <2>1. \A h \in Handles : hpath[h] # NoFile => h = dfile
        BY <1>2, FilesAssumption DEF IInv, NoLeakedHandle
  <2>2. hpath' = [g \in Handles |-> NoFile]
        BY <1>5, <2>1, CloseLast DEF IInv, Close
  <2> QED BY <1>1, <1>2, <1>3, <1>4, <1>5, <2>2, ConcludeFree
<1>6. CASE dfile # NoH /\ hpath' = hpath /\ dfile' = dfile
           /\ q.kind = req[c].kind /\ ~q.first
      BY <1>1, <1>2, <1>3, <1>4, <1>6, Conclude DEF IInv, NoLeakedHandle
<1> QED BY <1>3, <1>5, <1>6

-----------------------------------------------------------------------------
(* The initial state satisfies the invariant.                              *)
LEMMA InitIInv == Init => IInv
<1> SUFFICES ASSUME Init PROVE IInv
    OBVIOUS
<1>1. ReqOK(IdleReq)
      BY DEF ReqOK, IdleReq
<1> QED BY <1>1, FilesAssumption DEF Init, IInv, NoLeakedHandle

(* Every step, and every stutter, keeps the invariant.                    *)
LEMMA NextIInv ==
    ASSUME Hyp
    PROVE  IInv /\ [Next]_vars => IInv'
<1> SUFFICES ASSUME IInv, [Next]_vars PROVE IInv'
    OBVIOUS
<1>1. ASSUME NEW c \in Conn,
             \/ \E p \in Paths \cup {LongPath}, len \in 0 .. MaxBody : BeginUpload(c, p, len)
             \/ \E p \in Paths \cup {LongPath} : BeginDownload(c, p)
      PROVE  IInv'
      BY <1>1, BeginIInv
<1>2. ASSUME NEW c \in Conn, Abort(c) PROVE FALSE
      BY <1>2 DEF Abort, Hyp
<1>3. ASSUME NEW c \in Conn, UploadBadPath(c) \/ UploadOpenFail(c) PROVE IInv'
      BY <1>3, UploadFailIInv
<1>4. ASSUME NEW c \in Conn, NEW k \in 0 .. MaxBody, UploadOpen(c, k) \/ UploadNext(c, k)
      PROVE  IInv'
      BY <1>4, UploadOpenIInv, UploadNextIInv
<1>5. ASSUME NEW c \in Conn, DownloadBadPath(c) \/ DownloadOpenFail(c) PROVE IInv'
      BY <1>5, DownloadFailIInv
<1>6. ASSUME NEW c \in Conn, DownloadOpen(c) PROVE IInv'
      BY <1>6, DownloadOpenIInv
<1>7. ASSUME NEW c \in Conn, DownloadNext(c) PROVE IInv'
      BY <1>7, DownloadNextIInv
<1>8. CASE Terminated \/ UNCHANGED vars
      BY <1>8 DEF Terminated, vars, IInv, NoLeakedHandle, ReqOK
<1> QED BY <1>1, <1>2, <1>3, <1>4, <1>5, <1>6, <1>7, <1>8 DEF Next

-----------------------------------------------------------------------------
(* No descriptor leak in the handlers themselves, for every number of     *)
(* slots, paths, sizes and body lengths: while one connection streams     *)
(* files, no connection dies between two calls and no write is short,     *)
(* every slot that http_file_upload or http_file_download opens stays     *)
(* named by their static fs_file_t until their fs_close frees it.  The    *)
(* leaks of the files_leak run need a second connection, an abort or a    *)
(* full disk.                                                              *)
THEOREM HandlersNoLeak ==
    ASSUME Hyp
    PROVE  Spec => []NoLeakedHandle
<1>1. IInv /\ [Next]_vars => IInv'
      BY NextIInv
<1>2. Spec => []IInv
      BY <1>1, InitIInv, PTL DEF Spec
<1> QED BY <1>2, PTL DEF IInv


-----------------------------------------------------------------------------
(***************************************************************************)
(* What the files hold.  With one connection, a streaming upload has       *)
(* written the first body - left bytes of its body to its own slot, and    *)
(* the file holds exactly those; a streaming download has read `sent`     *)
(* bytes of the file it announced, whose size is the content length.       *)
(***************************************************************************)
ReqNums(q) ==
    /\ q.left \in Nat /\ q.body \in Nat /\ q.sent \in Nat /\ q.clen \in Nat
    /\ q.from \subseteq Paths

(* A streaming upload, past its first call.                                *)
UpStreamOK(q) ==
    /\ ufile # NoH /\ hpath[ufile] = q.path /\ q.path \in exists
    /\ q.left <= q.body
    /\ hpos[ufile] = q.body - q.left /\ fsize[q.path] = q.body - q.left

(* A streaming download, past its first call.                              *)
DlStreamOK(q) ==
    /\ q.ud /\ dfile # NoH /\ hpath[dfile] = q.path /\ q.path \in Paths
    /\ hpos[dfile] = q.sent /\ q.sent <= q.clen /\ fsize[q.path] = q.clen
    /\ q.from \subseteq {q.path}

(* An answered request, status 200.                                        *)
DoneOK(q) ==
    /\ q.dl => q.sent = q.clen /\ q.from \subseteq {q.path}
    /\ ~q.dl => q.path \in exists /\ fsize[q.path] = q.body

ContentOK(q) ==
    /\ ReqNums(q)
    /\ q.kind = "up" => ~q.dl
    /\ q.kind = "dl" => q.dl
    /\ q.kind = "up" /\ q.first => q.left = q.body
    /\ q.kind = "dl" /\ q.first => q.sent = 0 /\ q.from = {}
    /\ q.kind = "up" /\ ~q.first => UpStreamOK(q)
    /\ q.kind = "dl" /\ ~q.first => DlStreamOK(q)
    /\ q.kind = "done" /\ q.status = 200 => DoneOK(q)

CInv ==
    /\ hpos \in [Handles -> Nat] /\ fsize \in [Paths -> Nat]
    /\ exists \subseteq Paths
    /\ \A c \in Conn : ContentOK(req[c])


-----------------------------------------------------------------------------
(* CInv from what a step leaves as the request of the only connection.    *)
LEMMA ConcludeC ==
    ASSUME NEW q, DOMAIN req' = Conn, \A d \in Conn : req'[d] = q,
           hpos' \in [Handles -> Nat], fsize' \in [Paths -> Nat],
           exists' \subseteq Paths, ContentOK(q)'
    PROVE  CInv'
BY DEF CInv

(* A request that ends with a status other than 200 says nothing of the   *)
(* files.                                                                  *)
LEMMA FinishNot200 ==
    ASSUME NEW r, ReqOK(r), ReqNums(r), NEW st, st # 200,
           NEW q, q = Finish(r, st)
    PROVE  ContentOK(q)'
BY DEF ContentOK, ReqNums, ReqOK, Finish, IdleReq

LEMMA InitCInv == Init => CInv
<1> SUFFICES ASSUME Init PROVE CInv
    OBVIOUS
<1>1. ContentOK(IdleReq)
      BY DEF ContentOK, ReqNums, IdleReq
<1> QED BY <1>1 DEF Init, CInv

(* A request begins: its first call is still to come, with nothing sent  *)
(* and the whole body to arrive.                                           *)
LEMMA BeginCInv ==
    ASSUME IInv, CInv, Hyp, NEW c \in Conn,
           \/ \E p \in Paths \cup {LongPath}, len \in 0 .. MaxBody : BeginUpload(c, p, len)
           \/ \E p \in Paths \cup {LongPath} : BeginDownload(c, p)
    PROVE  CInv'
<1>1. UNCHANGED <<hpos, fsize, exists>>
      BY DEF BeginUpload, BeginDownload
<1>2. PICK q : req' = [req EXCEPT ![c] = q] /\ ContentOK(q)'
  <2>1. CASE \E p \in Paths \cup {LongPath}, len \in 0 .. MaxBody : BeginUpload(c, p, len)
    <3>1. PICK p \in Paths \cup {LongPath}, len \in 0 .. MaxBody : BeginUpload(c, p, len)
          BY <2>1
    <3>2. ContentOK([IdleReq EXCEPT !.kind = "up", !.path = p, !.first = TRUE,
                     !.left = len, !.body = len])'
          BY DEF ContentOK, ReqNums, IdleReq
    <3> QED BY <3>1, <3>2 DEF BeginUpload
  <2>2. CASE \E p \in Paths \cup {LongPath} : BeginDownload(c, p)
    <3>1. PICK p \in Paths \cup {LongPath} : BeginDownload(c, p)
          BY <2>2
    <3>2. ContentOK([IdleReq EXCEPT !.kind = "dl", !.dl = TRUE, !.path = p,
                     !.first = TRUE])'
          BY DEF ContentOK, ReqNums, IdleReq
    <3> QED BY <3>1, <3>2 DEF BeginDownload
  <2> QED BY <2>1, <2>2
<1>3. DOMAIN req' = Conn /\ \A d \in Conn : req'[d] = q
      BY <1>2, ReqAt DEF Hyp
<1> QED BY <1>1, <1>2, <1>3, ConcludeC DEF CInv

(* A first call that opens nothing ends the request with 400, 404 or 500  *)
(* and leaves the files alone.                                             *)
LEMMA FailCInv ==
    ASSUME IInv, CInv, Hyp, NEW c \in Conn,
           \/ UploadBadPath(c) \/ UploadOpenFail(c)
           \/ DownloadBadPath(c) \/ DownloadOpenFail(c)
    PROVE  CInv'
<1>1. UNCHANGED <<hpos, fsize, exists>>
      BY DEF UploadBadPath, UploadOpenFail, DownloadBadPath, DownloadOpenFail
<1>2. PICK st : st # 200 /\ req' = [req EXCEPT ![c] = Finish(req[c], st)]
      BY DEF UploadBadPath, UploadOpenFail, DownloadBadPath, DownloadOpenFail
<1>3. PICK q : q = Finish(req[c], st)
      OBVIOUS
<1>4. ContentOK(q)'
      BY <1>2, <1>3, FinishNot200 DEF IInv, CInv, ContentOK
<1>5. DOMAIN req' = Conn /\ \A d \in Conn : req'[d] = q
      BY <1>2, <1>3, ReqAt DEF Hyp
<1> QED BY <1>1, <1>4, <1>5, ConcludeC DEF CInv


(* One upload call with every write whole, from a state where the file     *)
(* position and the file size both equal the bytes already received: the  *)
(* call writes its k bytes at the end of the file, and the file holds the *)
(* whole body once the last byte is written.                               *)
LEMMA UploadStepCInv ==
    ASSUME IInv, Hyp, NEW c \in Conn, NEW k \in Nat, NEW h \in Handles, NEW hp,
           NEW hpo \in [Handles -> Nat], NEW ex \in SUBSET Paths,
           NEW fs \in [Paths -> Nat],
           req[c].kind = "up", ~req[c].dl, ReqNums(req[c]),
           k <= req[c].left, req[c].left <= req[c].body,
           hp[h] = req[c].path, req[c].path \in ex,
           hpo[h] = req[c].body - req[c].left, fs[req[c].path] = hpo[h],
           UploadWrite(c, k, h, hp, hpo, ex, fs)
    PROVE  CInv'
<1> DEFINE q0 == req[c]
           path == q0.path
           r == [q0 EXCEPT !.first = FALSE, !.left = @ - k]
<1>1. h # NoH /\ ~DISK_MAY_FILL /\ path \in Paths /\ ReqOK(q0)
      BY FilesAssumption DEF Hyp, IInv
<1>2. /\ exists' = ex
      /\ fsize' = [fs EXCEPT ![path] = hpo[h] + k]
      /\ hpos' = [hpo EXCEPT ![h] = hpo[h] + k]
  <2>1. CASE k = 0
        BY <1>1, <2>1 DEF UploadWrite
  <2>2. CASE k # 0
        BY <1>1, <2>2 DEF UploadWrite
  <2> QED BY <2>1, <2>2
<1>3. /\ fsize' \in [Paths -> Nat] /\ hpos' \in [Handles -> Nat]
      /\ fsize'[path] = q0.body - q0.left + k /\ hpos'[h] = q0.body - q0.left + k
      BY <1>1, <1>2 DEF ReqNums
<1>4. /\ ReqOK(r) /\ ReqNums(r) /\ r.kind = "up" /\ ~r.dl /\ ~r.first
      /\ r.left = q0.left - k /\ r.body = q0.body /\ r.path = path
      BY <1>1 DEF ReqOK, ReqNums, IdleReq
<1>5. DOMAIN req = Conn
      BY DEF IInv
<1>6. CASE k = q0.left
  <2>1. req' = [req EXCEPT ![c] = Finish(r, 200)]
        BY <1>1, <1>6 DEF UploadWrite
  <2>2. PICK q : q = Finish(r, 200)
        OBVIOUS
  <2>3. /\ ReqNums(q) /\ q.kind = "done" /\ q.status = 200 /\ ~q.dl
        /\ q.path = path /\ q.body = q0.body
        BY <1>4, <2>2 DEF Finish, ReqOK, ReqNums, IdleReq
  <2>4. ContentOK(q)'
        BY <1>2, <1>3, <1>6, <2>3 DEF ContentOK, DoneOK, ReqNums
  <2> QED BY <1>2, <1>3, <2>1, <2>2, <2>4, ReqAt, ConcludeC DEF Hyp
<1>7. CASE k # q0.left
  <2>1. hpath' = hp /\ ufile' = h /\ req' = [req EXCEPT ![c] = r]
        BY <1>1, <1>7 DEF UploadWrite
  <2>2. PICK q : q = r
        OBVIOUS
  <2>3. q.left <= q.body /\ q.body - q.left = q0.body - q0.left + k
        BY <1>4, <2>2, <1>7 DEF ReqNums
  <2>4. UpStreamOK(q)'
        BY <1>1, <1>2, <1>3, <1>4, <2>1, <2>2, <2>3 DEF UpStreamOK
  <2>5. ContentOK(q)'
        BY <1>4, <2>2, <2>4 DEF ContentOK
  <2> QED BY <1>2, <1>3, <2>1, <2>2, <2>5, ReqAt, ConcludeC DEF Hyp
<1> QED BY <1>6, <1>7

(* The first call of an upload: open_w_file truncates the file, so it    *)
(* and the new slot's position start at 0, as no byte has been received.  *)
LEMMA UploadOpenCInv ==
    ASSUME IInv, CInv, Hyp, NEW c \in Conn, NEW k, UploadOpen(c, k)
    PROVE  CInv'
<1> DEFINE p == req[c].path
<1>1. /\ req[c].kind = "up" /\ req[c].first /\ p \in Paths /\ k \in 0 .. req[c].left
      /\ ContentOK(req[c])
      BY DEF UploadOpen, PathFits, IInv, ReqOK, CInv
<1>2. ~req[c].dl /\ ReqNums(req[c]) /\ req[c].left = req[c].body
      BY <1>1 DEF ContentOK
<1>3. PICK h \in FreeHandles :
          UploadWrite(c, k, h, [hpath EXCEPT ![h] = p], [hpos EXCEPT ![h] = 0],
                      exists \cup {p}, [fsize EXCEPT ![p] = 0])
      BY DEF UploadOpen
<1>4. h \in Handles
      BY DEF FreeHandles
<1>5. [hpath EXCEPT ![h] = p][h] = p
      BY <1>4 DEF IInv
<1>6. /\ [hpos EXCEPT ![h] = 0] \in [Handles -> Nat]
      /\ [hpos EXCEPT ![h] = 0][h] = 0
      BY <1>4 DEF CInv
<1>7. 0 = req[c].body - req[c].left
      BY <1>2 DEF ReqNums
<1>8. exists \cup {p} \in SUBSET Paths
      BY <1>1 DEF CInv
<1>9. [fsize EXCEPT ![p] = 0] \in [Paths -> Nat] /\ [fsize EXCEPT ![p] = 0][p] = 0
      BY <1>1 DEF CInv
<1>10. k \in Nat /\ k <= req[c].left /\ req[c].left <= req[c].body
      BY <1>1, <1>2 DEF ReqNums
<1> DEFINE hp1 == [hpath EXCEPT ![h] = p]
           hpo1 == [hpos EXCEPT ![h] = 0]
           ex1 == exists \cup {p}
           fs1 == [fsize EXCEPT ![p] = 0]
<1>11. /\ hp1[h] = req[c].path /\ hpo1 \in [Handles -> Nat] /\ ex1 \in SUBSET Paths
       /\ fs1 \in [Paths -> Nat] /\ req[c].path \in ex1
       /\ hpo1[h] = req[c].body - req[c].left /\ fs1[req[c].path] = hpo1[h]
       /\ UploadWrite(c, k, h, hp1, hpo1, ex1, fs1)
      BY <1>3, <1>5, <1>6, <1>7, <1>8, <1>9
<1> HIDE DEF hp1, hpo1, ex1, fs1
<1> QED BY <1>1, <1>2, <1>4, <1>10, <1>11, UploadStepCInv


(* A later call of an upload writes through the static file at the end of *)
(* what the earlier calls wrote.                                           *)
LEMMA UploadNextCInv ==
    ASSUME IInv, CInv, Hyp, NEW c \in Conn, NEW k, UploadNext(c, k)
    PROVE  CInv'
<1>1. /\ req[c].kind = "up" /\ ~req[c].first /\ k \in 0 .. req[c].left
      /\ UploadWrite(c, k, ufile, hpath, hpos, exists, fsize)
      BY DEF UploadNext
<1>2. ~req[c].dl /\ ReqNums(req[c]) /\ UpStreamOK(req[c])
      BY <1>1 DEF CInv, ContentOK
<1>3. /\ ufile \in Handles /\ hpath[ufile] = req[c].path /\ req[c].path \in exists
      /\ req[c].left <= req[c].body
      /\ hpos[ufile] = req[c].body - req[c].left /\ fsize[req[c].path] = hpos[ufile]
      BY <1>2 DEF UpStreamOK, IInv
<1>4. k \in Nat /\ k <= req[c].left
      BY <1>1, <1>2 DEF ReqNums
<1>5. hpos \in [Handles -> Nat] /\ exists \in SUBSET Paths /\ fsize \in [Paths -> Nat]
      BY DEF CInv
<1> QED BY <1>1, <1>2, <1>3, <1>4, <1>5, UploadStepCInv


(* One read of a download, from a state where the file position is the    *)
(* number of bytes sent and the file still has the size announced: a full *)
(* buffer keeps that so, and a shorter one sends the rest of the file.    *)
LEMMA DownloadReadCInv ==
    ASSUME IInv, Hyp, NEW c \in Conn, NEW h \in Handles, NEW hp,
           NEW hpo \in [Handles -> Nat], NEW r,
           ReqOK(r), ReqNums(r), r.kind = "dl", r.dl, r.ud, r.path \in Paths,
           hp[h] = r.path, hpo[h] = r.sent, r.sent <= r.clen,
           fsize \in [Paths -> Nat], exists \subseteq Paths,
           fsize[r.path] = r.clen, r.from \subseteq {r.path},
           UNCHANGED <<exists, fsize>>,
           DownloadRead(c, h, hp, hpo, r)
    PROVE  CInv'
<1>1. DOMAIN req = Conn /\ fsize' \in [Paths -> Nat] /\ exists' \subseteq Paths
      BY DEF IInv
<1>2. CASE ReadFail(c, h, hp, hpo, r)
  <2>1. hpos' = hpo /\ req' = [req EXCEPT ![c] = Finish(r, 500)]
        BY <1>2 DEF ReadFail
  <2>2. PICK q : q = Finish(r, 500)
        OBVIOUS
  <2>3. ContentOK(q)'
        BY <2>2, FinishNot200
  <2>4. hpos' \in [Handles -> Nat] /\ fsize' \in [Paths -> Nat] /\ exists' \subseteq Paths
        BY <2>1
  <2>5. DOMAIN req' = Conn /\ \A d \in Conn : req'[d] = q
    <3>1. req' = [req EXCEPT ![c] = q]
          BY <2>1, <2>2
    <3> QED BY <3>1, ReqAt DEF Hyp
  <2> QED BY <2>3, <2>4, <2>5, ConcludeC
<1>3. CASE ReadOk(c, h, hp, hpo, r)
  <2> DEFINE pos == hpo[h]
             avail == IF fsize[hp[h]] >= pos THEN fsize[hp[h]] - pos ELSE 0
             n == Least(BUF, avail)
             r2 == [r EXCEPT !.first = FALSE, !.sent = @ + n,
                             !.from = IF n > 0 THEN @ \cup {hp[h]} ELSE @]
  <2>1. /\ avail = r.clen - r.sent /\ n \in Nat /\ n <= r.clen - r.sent
        /\ n # BUF => n = r.clen - r.sent
        BY FilesAssumption DEF Least, ReqNums
  <2>2. /\ hpos' \in [Handles -> Nat] /\ hpos'[h] = r.sent + n
    <3>1. hpos' = [hpo EXCEPT ![h] = pos + n]
          BY <1>3 DEF ReadOk
    <3> QED BY <2>1, <3>1 DEF ReqNums
  <2>3. /\ ReqOK(r2) /\ ReqNums(r2) /\ r2.kind = "dl" /\ r2.dl /\ r2.ud
        /\ ~r2.first /\ r2.sent = r.sent + n /\ r2.clen = r.clen
        /\ r2.path = r.path /\ r2.from \subseteq {r.path}
        BY <2>1 DEF ReqOK, ReqNums, IdleReq
  <2>4. CASE n = BUF
    <3>1. hpath' = hp /\ dfile' = h /\ req' = [req EXCEPT ![c] = r2]
          BY <1>3, <2>4 DEF ReadOk
    <3>2. PICK q : q = r2
          OBVIOUS
    <3>3. h # NoH /\ q.sent <= q.clen
          BY <2>1, <2>3, <3>2, FilesAssumption DEF ReqNums
    <3>4. DlStreamOK(q)'
          BY <2>2, <2>3, <3>1, <3>2, <3>3 DEF DlStreamOK
    <3>5. ContentOK(q)'
          BY <2>3, <3>2, <3>4 DEF ContentOK
    <3>6. DOMAIN req' = Conn /\ \A d \in Conn : req'[d] = q
      <4>1. req' = [req EXCEPT ![c] = q]
            BY <3>1, <3>2
      <4> QED BY <4>1, ReqAt DEF Hyp
    <3> QED BY <1>1, <2>2, <3>5, <3>6, ConcludeC
  <2>5. CASE n # BUF
    <3>1. req' = [req EXCEPT ![c] = Finish([r2 EXCEPT !.ud = FALSE], 200)]
          BY <1>3, <2>5 DEF ReadOk
    <3>2. PICK q : q = Finish([r2 EXCEPT !.ud = FALSE], 200)
          OBVIOUS
    <3>3. /\ ReqNums(q) /\ q.kind = "done" /\ q.status = 200 /\ q.dl
          /\ q.sent = r2.sent /\ q.clen = r2.clen /\ q.from = r2.from /\ q.path = r2.path
          BY <2>3, <3>2 DEF Finish, ReqOK, ReqNums, IdleReq
    <3>4. q.sent = q.clen /\ q.from \subseteq {q.path}
          BY <2>1, <2>3, <2>5, <3>3 DEF ReqNums
    <3>5. ContentOK(q)'
          BY <3>3, <3>4 DEF ContentOK, DoneOK
    <3>6. DOMAIN req' = Conn /\ \A d \in Conn : req'[d] = q
      <4>1. req' = [req EXCEPT ![c] = q]
            BY <3>1, <3>2
      <4> QED BY <4>1, ReqAt DEF Hyp
    <3> QED BY <1>1, <2>2, <3>5, <3>6, ConcludeC
  <2> QED BY <2>4, <2>5
<1> QED BY <1>2, <1>3 DEF DownloadRead


(* The first call of a download opens the file at position 0 and reads   *)
(* it; the content length is the size fs_stat gave.                       *)
LEMMA DownloadOpenCInv ==
    ASSUME IInv, CInv, Hyp, NEW c \in Conn, DownloadOpen(c)
    PROVE  CInv'
<1> DEFINE p == req[c].path
           r1 == [req[c] EXCEPT !.ud = TRUE, !.clen = fsize[p]]
<1>1. /\ req[c].kind = "dl" /\ req[c].first /\ p \in Paths
      /\ UNCHANGED <<exists, fsize>> /\ ContentOK(req[c]) /\ ReqOK(req[c])
      BY DEF DownloadOpen, PathFits, IInv, ReqOK, CInv
<1>2. req[c].dl /\ ReqNums(req[c]) /\ req[c].sent = 0 /\ req[c].from = {}
      BY <1>1 DEF ContentOK
<1>3. PICK h \in FreeHandles :
          DownloadRead(c, h, [hpath EXCEPT ![h] = p], [hpos EXCEPT ![h] = 0], r1)
      BY DEF DownloadOpen
<1>4. h \in Handles
      BY DEF FreeHandles
<1>5. /\ ReqOK(r1) /\ ReqNums(r1) /\ r1.kind = "dl" /\ r1.dl /\ r1.ud
      /\ r1.path = p /\ r1.sent = 0 /\ r1.clen = fsize[p] /\ r1.from = {}
      BY <1>1, <1>2 DEF ReqOK, ReqNums, IdleReq, CInv
<1> DEFINE hp1 == [hpath EXCEPT ![h] = p]
           hpo1 == [hpos EXCEPT ![h] = 0]
<1>6. /\ hp1[h] = r1.path /\ hpo1 \in [Handles -> Nat] /\ hpo1[h] = r1.sent
      /\ r1.sent <= r1.clen /\ fsize[r1.path] = r1.clen /\ r1.from \subseteq {r1.path}
      /\ fsize \in [Paths -> Nat] /\ exists \subseteq Paths /\ r1.path \in Paths
      /\ DownloadRead(c, h, hp1, hpo1, r1)
      BY <1>1, <1>3, <1>4, <1>5 DEF IInv, CInv
<1> HIDE DEF hp1, hpo1, r1
<1> QED BY <1>1, <1>4, <1>5, <1>6, DownloadReadCInv

(* A later call of a download reads on from where the last read ended.    *)
LEMMA DownloadNextCInv ==
    ASSUME IInv, CInv, Hyp, NEW c \in Conn, DownloadNext(c)
    PROVE  CInv'
<1>1. /\ req[c].kind = "dl" /\ ~req[c].first
      /\ DownloadRead(c, dfile, hpath, hpos, req[c])
      /\ UNCHANGED <<exists, fsize>>
      BY DEF DownloadNext
<1>2. req[c].dl /\ ReqNums(req[c]) /\ DlStreamOK(req[c]) /\ ReqOK(req[c])
      BY <1>1 DEF CInv, ContentOK, IInv
<1>3. /\ dfile \in Handles /\ req[c].ud /\ req[c].path \in Paths
      /\ hpath[dfile] = req[c].path /\ hpos[dfile] = req[c].sent
      /\ req[c].sent <= req[c].clen /\ fsize[req[c].path] = req[c].clen
      /\ req[c].from \subseteq {req[c].path}
      BY <1>2 DEF DlStreamOK, IInv
<1>4. hpos \in [Handles -> Nat] /\ fsize \in [Paths -> Nat] /\ exists \subseteq Paths
      BY DEF CInv
<1> QED BY <1>1, <1>2, <1>3, <1>4, DownloadReadCInv

-----------------------------------------------------------------------------
(* Every step, and every stutter, keeps CInv, given IInv.                  *)
LEMMA NextCInv ==
    ASSUME Hyp
    PROVE  IInv /\ CInv /\ [Next]_vars => CInv'
<1> SUFFICES ASSUME IInv, CInv, [Next]_vars PROVE CInv'
    OBVIOUS
<1>1. ASSUME NEW c \in Conn,
             \/ \E p \in Paths \cup {LongPath}, len \in 0 .. MaxBody : BeginUpload(c, p, len)
             \/ \E p \in Paths \cup {LongPath} : BeginDownload(c, p)
      PROVE  CInv'
      BY <1>1, BeginCInv
<1>2. ASSUME NEW c \in Conn, Abort(c) PROVE FALSE
      BY <1>2 DEF Abort, Hyp
<1>3. ASSUME NEW c \in Conn,
             \/ UploadBadPath(c) \/ UploadOpenFail(c)
             \/ DownloadBadPath(c) \/ DownloadOpenFail(c)
      PROVE  CInv'
      BY <1>3, FailCInv
<1>4. ASSUME NEW c \in Conn, NEW k \in 0 .. MaxBody, UploadOpen(c, k) \/ UploadNext(c, k)
      PROVE  CInv'
      BY <1>4, UploadOpenCInv, UploadNextCInv
<1>5. ASSUME NEW c \in Conn, DownloadOpen(c) PROVE CInv'
      BY <1>5, DownloadOpenCInv
<1>6. ASSUME NEW c \in Conn, DownloadNext(c) PROVE CInv'
      BY <1>6, DownloadNextCInv
<1>7. CASE Terminated \/ UNCHANGED vars
      BY <1>7 DEF Terminated, vars, CInv, ContentOK, ReqNums, UpStreamOK,
         DlStreamOK, DoneOK
<1> QED BY <1>1, <1>2, <1>3, <1>4, <1>5, <1>6, <1>7 DEF Next

(* A download that ends with 200 sent exactly the bytes of the file it    *)
(* names and announced, for every buffer size, file size and number of    *)
(* slots: the short read that ends it is the rest of the file, so a file  *)
(* whose size is a multiple of resp->buffer.size is sent whole too.  This  *)
(* holds with one connection, no aborts and whole writes (Hyp); the        *)
(* MC_FilesServer_shared configuration shows it failing with two.          *)
THEOREM DownloadsDeliverFiles ==
    ASSUME Hyp
    PROVE  Spec => []DownloadDeliversFile
<1>1. IInv /\ CInv /\ [Next]_vars => IInv' /\ CInv'
      BY NextIInv, NextCInv
<1>2. Init => IInv /\ CInv
      BY InitIInv, InitCInv
<1>3. IInv /\ CInv => DownloadDeliversFile
      BY DEF CInv, ContentOK, DoneOK, DownloadDeliversFile
<1> QED BY <1>1, <1>2, <1>3, PTL DEF Spec

(* An upload that ends with 200 left the file it names holding exactly    *)
(* its body: open_w_file truncated the file, and every chunk was written   *)
(* at the end of the previous one.  Under the same hypothesis.            *)
THEOREM UploadsStoreBodies ==
    ASSUME Hyp
    PROVE  Spec => []UploadStoresBody
<1>1. IInv /\ CInv /\ [Next]_vars => IInv' /\ CInv'
      BY NextIInv, NextCInv
<1>2. Init => IInv /\ CInv
      BY InitIInv, InitCInv
<1>3. IInv /\ CInv => UploadStoresBody
      BY DEF CInv, ContentOK, DoneOK, UploadStoresBody
<1> QED BY <1>1, <1>2, <1>3, PTL DEF Spec

=============================================================================
