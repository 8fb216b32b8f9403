---------------------------- MODULE FilesServer ----------------------------
(***************************************************************************)
(* The streaming file handlers of src/src/http_server/files_server.c,      *)
(* http_file_upload and http_file_download, over a filesystem with a fixed *)
(* number of open-file handles.  Each handler keeps its open file in one   *)
(* `static struct fs_file_t file`, shared by every connection.            *)
(*                                                                         *)
(* The server side that calls the handlers is not under src/: it is        *)
(* modelled from the spec's streaming handler protocol (section 4.6).  A   *)
(* request begins on a connection; its handler is called once per reactor  *)
(* tick, on the first call with requestBegins / responseIsFirstCall set,   *)
(* until the upload body is complete or the download does not mark the     *)
(* response "not complete"; calls of different connections interleave.     *)
(* A connection may also die between two calls.                            *)
(*                                                                         *)
(* File contents are abstracted to sizes; a path is a model value.         *)
(***************************************************************************)
EXTENDS Naturals, FiniteSets

CONSTANTS
    Conn,             \* connections that may stream a file
    Paths,            \* paths a request may name (model values)
    LongPath,         \* a path whose reconstruction overflows filepath[]
    Handles,          \* the filesystem's open-file slots (model values)
    NoH,              \* fs_file_t with mp == NULL: no open file
    BUF,              \* resp->buffer.size, in abstract bytes
    MaxSize,          \* bound: initial size of a file
    MaxBody,          \* bound: length of an upload body
    MaxReqs,          \* bound: requests per connection
    READ_MAY_FAIL,    \* whether fs_read may fail with an I/O error
    DISK_MAY_FILL,    \* whether fs_write may write fewer bytes than asked
    ABORT_MAY_HAPPEN  \* whether a connection may die between two calls

NoFile == "nofile"   \* an fs slot with no file open

ASSUME FilesAssumption ==
    /\ LongPath \notin Paths /\ NoH \notin Handles
    /\ NoFile \notin Paths \cup {LongPath}
    /\ BUF \in Nat \ {0} /\ MaxSize \in Nat /\ MaxBody \in Nat
    /\ MaxReqs \in Nat
    /\ {READ_MAY_FAIL, DISK_MAY_FILL, ABORT_MAY_HAPPEN} \subseteq BOOLEAN

VARIABLES
    hpath,     \* [Handles -> Paths \cup {NoFile}] what each fs slot has open
    hpos,      \* [Handles -> Nat] the file position of each open file
    exists,    \* files present on the filesystem
    fsize,     \* [Paths -> Nat] their sizes
    ufile,     \* the static fs_file_t of http_file_upload
    dfile,     \* the static fs_file_t of http_file_download
    req,       \* [Conn -> request record] the request streaming on a connection
    nreq       \* [Conn -> Nat] requests begun on a connection

vars == <<hpath, hpos, exists, fsize, ufile, dfile, req, nreq>>

Kinds == {"idle", "up", "dl", "done"}

(* A request: the handler it runs, the path it names, whether the next    *)
(* call is the first, req->user_data set (download), upload body bytes    *)
(* still to arrive and in all, bytes sent and the content length announced *)
(* (download), the paths whose bytes were sent, and the status code.       *)
Req == [kind : Kinds, dl : BOOLEAN, path : Paths \cup {LongPath},
        first : BOOLEAN, ud : BOOLEAN, left : Nat, body : Nat,
        sent : Nat, clen : Nat, from : SUBSET Paths, status : {200, 400, 404, 500}]

IdleReq == [kind |-> "idle", dl |-> FALSE, path |-> LongPath, first |-> FALSE,
            ud |-> FALSE, left |-> 0, body |-> 0, sent |-> 0, clen |-> 0,
            from |-> {}, status |-> 200]

Least(a, b) == IF a <= b THEN a ELSE b

(* The handler call ends the request with status st.                      *)
Finish(r, st) == [r EXCEPT !.kind = "done", !.status = st]

FreeHandles == {h \in Handles : hpath[h] = NoFile}

-----------------------------------------------------------------------------
(* req_filepath_get: the path parts fit in filepath[] (else -ENOMEM).     *)
PathFits(p) == p # LongPath

(* fs_close on an fs_file_t: frees the slot it has open; a no-op on an    *)
(* fs_file_t that has none (mp == NULL).                                   *)
Close(h, hp) == IF h = NoH THEN hp ELSE [hp EXCEPT ![h] = NoFile]

Init ==
    /\ hpath = [h \in Handles |-> NoFile]
    /\ hpos = [h \in Handles |-> 0]
    /\ exists \in SUBSET Paths
    /\ fsize \in [Paths -> 0 .. MaxSize]
    /\ \A p \in Paths \ exists : fsize[p] = 0
    /\ ufile = NoH /\ dfile = NoH
    /\ req = [c \in Conn |-> IdleReq]
    /\ nreq = [c \in Conn |-> 0]

-----------------------------------------------------------------------------
(***************************************************************************)
(* The server side (spec section 4.6): requests begin and connections die. *)
(***************************************************************************)
BeginUpload(c, p, len) ==
    /\ req[c].kind \in {"idle", "done"}
    /\ nreq[c] < MaxReqs
    /\ req' = [req EXCEPT ![c] = [IdleReq EXCEPT !.kind = "up", !.path = p,
                  !.first = TRUE, !.left = len, !.body = len]]
    /\ nreq' = [nreq EXCEPT ![c] = @ + 1]
    /\ UNCHANGED <<hpath, hpos, exists, fsize, ufile, dfile>>

BeginDownload(c, p) ==
    /\ req[c].kind \in {"idle", "done"}
    /\ nreq[c] < MaxReqs
    /\ req' = [req EXCEPT ![c] = [IdleReq EXCEPT !.kind = "dl", !.dl = TRUE,
                  !.path = p, !.first = TRUE]]
    /\ nreq' = [nreq EXCEPT ![c] = @ + 1]
    /\ UNCHANGED <<hpath, hpos, exists, fsize, ufile, dfile>>

(* The connection is closed (peer gone, send error) between two calls:    *)
(* the handler is not called again.                                        *)
Abort(c) ==
    /\ ABORT_MAY_HAPPEN
    /\ req[c].kind \in {"up", "dl"}
    /\ req' = [req EXCEPT ![c] = IdleReq]
    /\ UNCHANGED <<hpath, hpos, exists, fsize, ufile, dfile, nreq>>

-----------------------------------------------------------------------------
(***************************************************************************)
(* http_file_upload.  One call is one action: the first-call part (path,   *)
(* open_w_file), the write of this call's chunk of k bytes (buf.data is    *)
(* NULL when k = 0), the close on completion and the close at `exit:`.     *)
(* The body is complete once its last byte has arrived (k = left).        *)
(***************************************************************************)

(* The write of this call's chunk and what follows it, with the upload's   *)
(* static file h, on the filesystem hp/hpo/ex/fs left by the first-call    *)
(* part.  r is the request once this call has consumed its k bytes.       *)
UploadWrite(c, k, h, hp, hpo, ex, fs) ==
    LET r == [req[c] EXCEPT !.first = FALSE, !.left = @ - k]
        complete == k = req[c].left
        Grow(w) == [fs EXCEPT ![hp[h]] = IF @ >= hpo[h] + w THEN @ ELSE hpo[h] + w]
    IN
    \* every branch leaves the set of files as the first-call part left it
    /\ exists' = ex
    /\ \/ /\ k = 0 \/ h # NoH                 \* written == buf.filling
          /\ fsize' = IF k = 0 THEN fs ELSE Grow(k)
          /\ hpos' = IF k = 0 THEN hpo ELSE [hpo EXCEPT ![h] = @ + k]
          /\ IF complete                         \* fs_close(&file), ret = 0
             THEN /\ hpath' = Close(h, hp) /\ ufile' = NoH
                  /\ req' = [req EXCEPT ![c] = Finish(r, 200)]
             ELSE /\ hpath' = hp /\ ufile' = h
                  /\ req' = [req EXCEPT ![c] = r]
       \/ /\ k > 0 /\ h = NoH                 \* fs_write: -EBADF, discard
          /\ hpath' = hp /\ hpos' = hpo /\ fsize' = fs /\ ufile' = NoH
          /\ req' = [req EXCEPT ![c] = Finish(r, 400)]
       \/ /\ k > 0 /\ h # NoH /\ DISK_MAY_FILL \* short write, discard
          /\ \E w \in 0 .. k - 1 :
               /\ fsize' = Grow(w)
               /\ hpos' = [hpo EXCEPT ![h] = @ + w]
               \* exit: fs_close(&file) only if ret = written is not 0
               /\ hpath' = IF w # 0 THEN Close(h, hp) ELSE hp
               /\ ufile' = IF w # 0 THEN NoH ELSE h
          /\ req' = [req EXCEPT ![c] = Finish(r, 400)]

(* First call, req_filepath_get fails: discard with 400, ret = -ENOMEM,   *)
(* and `exit:` closes the static file, whichever upload opened it.         *)
UploadBadPath(c) ==
    /\ req[c].kind = "up" /\ req[c].first /\ ~PathFits(req[c].path)
    /\ hpath' = Close(ufile, hpath) /\ ufile' = NoH
    /\ req' = [req EXCEPT ![c] = Finish(@, 400)]
    /\ UNCHANGED <<hpos, exists, fsize, dfile, nreq>>

(* First call, open_w_file: fs_file_t_init, then fs_open fails (no free   *)
(* slot): discard, ret = 0, nothing is closed.                             *)
UploadOpenFail(c) ==
    /\ req[c].kind = "up" /\ req[c].first /\ PathFits(req[c].path)
    /\ FreeHandles = {}
    /\ ufile' = NoH
    /\ req' = [req EXCEPT ![c] = Finish(@, 400)]
    /\ UNCHANGED <<hpath, hpos, exists, fsize, dfile, nreq>>

(* Faulty variant of UploadOpen: open_w_file without fs_truncate.         *)
UploadOpenNoTruncate(c, k) ==
    LET p == req[c].path IN
    /\ req[c].kind = "up" /\ req[c].first /\ PathFits(p)
    /\ k \in 0 .. req[c].left
    /\ \E h \in FreeHandles :
         UploadWrite(c, k, h, [hpath EXCEPT ![h] = p], [hpos EXCEPT ![h] = 0],
                     exists \cup {p}, fsize)
    /\ UNCHANGED <<dfile, nreq>>

(* First call, open_w_file succeeds: fs_open(CREATE | WRITE) takes a free *)
(* slot and fs_truncate(file, 0) empties the file; then the write.         *)
UploadOpen(c, k) ==
    LET p == req[c].path IN
    /\ req[c].kind = "up" /\ req[c].first /\ PathFits(p)
    /\ k \in 0 .. req[c].left
    /\ \E h \in FreeHandles :
         UploadWrite(c, k, h, [hpath EXCEPT ![h] = p], [hpos EXCEPT ![h] = 0],
                     exists \cup {p}, [fsize EXCEPT ![p] = 0])
    /\ UNCHANGED <<dfile, nreq>>

(* A later call, with the next k bytes of the body.                       *)
UploadNext(c, k) ==
    /\ req[c].kind = "up" /\ ~req[c].first
    /\ k \in 0 .. req[c].left
    /\ UploadWrite(c, k, ufile, hpath, hpos, exists, fsize)
    /\ UNCHANGED <<dfile, nreq>>

-----------------------------------------------------------------------------
(***************************************************************************)
(* http_file_download.  One call is one action: the first-call part (path, *)
(* open_r_file, content length, user_data), then, while user_data is set,  *)
(* one fs_read of resp->buffer.size bytes and the close after the last.    *)
(***************************************************************************)

(* Faulty variant of ReadFail: the error path returns without fs_close.   *)
ReadFailNoClose(c, h, hp, hpo, r) ==
    /\ h = NoH \/ READ_MAY_FAIL
    /\ hpath' = hp /\ hpos' = hpo /\ dfile' = h
    /\ req' = [req EXCEPT ![c] = Finish(r, 500)]

(* Faulty variant of ReadOk: more data is expected only when the read    *)
(* filled size - 1 bytes, so a full buffer ends the response.             *)
ReadOkShort(c, h, hp, hpo, r) ==
    LET pos == hpo[h]
        avail == IF fsize[hp[h]] >= pos THEN fsize[hp[h]] - pos ELSE 0
        n == Least(BUF, avail)
        r2 == [r EXCEPT !.first = FALSE, !.sent = @ + n,
                        !.from = IF n > 0 THEN @ \cup {hp[h]} ELSE @]
    IN /\ h # NoH
       /\ hpos' = [hpo EXCEPT ![h] = pos + n]
       /\ IF n = BUF - 1
          THEN /\ hpath' = hp /\ dfile' = h
               /\ req' = [req EXCEPT ![c] = r2]
          ELSE /\ hpath' = Close(h, hp) /\ dfile' = NoH
               /\ req' = [req EXCEPT ![c] = Finish([r2 EXCEPT !.ud = FALSE], 200)]

(* Faulty variant of ReadOk: the file position is advanced by n - 1.      *)
ReadOkPosSlip(c, h, hp, hpo, r) ==
    LET pos == hpo[h]
        avail == IF fsize[hp[h]] >= pos THEN fsize[hp[h]] - pos ELSE 0
        n == Least(BUF, avail)
        r2 == [r EXCEPT !.first = FALSE, !.sent = @ + n,
                        !.from = IF n > 0 THEN @ \cup {hp[h]} ELSE @]
    IN /\ h # NoH
       /\ hpos' = [hpo EXCEPT ![h] = pos + n - 1]
       /\ IF n = BUF
          THEN /\ hpath' = hp /\ dfile' = h
               /\ req' = [req EXCEPT ![c] = r2]
          ELSE /\ hpath' = Close(h, hp) /\ dfile' = NoH
               /\ req' = [req EXCEPT ![c] = Finish([r2 EXCEPT !.ud = FALSE], 200)]

(* "Read & close" with the download's static file h, on the slots hp/hpo   *)
(* left by the first-call part; r is the request after that part.          *)
(* fs_read fails (-EBADF on a file with no slot, or an I/O error):        *)
(* fs_close, 500, ret = 0; user_data is left set.                          *)
ReadFail(c, h, hp, hpo, r) ==
    /\ h = NoH \/ READ_MAY_FAIL
    /\ hpath' = Close(h, hp) /\ hpos' = hpo /\ dfile' = NoH
    /\ req' = [req EXCEPT ![c] = Finish(r, 500)]

(* fs_read gives n bytes; a full buffer marks the response not complete,  *)
(* anything less closes the file and clears user_data.                    *)
ReadOk(c, h, hp, hpo, r) ==
    LET pos == hpo[h]
        avail == IF fsize[hp[h]] >= pos THEN fsize[hp[h]] - pos ELSE 0
        n == Least(BUF, avail)
        r2 == [r EXCEPT !.first = FALSE, !.sent = @ + n,
                        !.from = IF n > 0 THEN @ \cup {hp[h]} ELSE @]
    IN /\ h # NoH
       /\ hpos' = [hpo EXCEPT ![h] = pos + n]
       /\ IF n = BUF
          THEN /\ hpath' = hp /\ dfile' = h
               /\ req' = [req EXCEPT ![c] = r2]
          ELSE /\ hpath' = Close(h, hp) /\ dfile' = NoH
               /\ req' = [req EXCEPT ![c] = Finish([r2 EXCEPT !.ud = FALSE], 200)]

DownloadRead(c, h, hp, hpo, r) == ReadFail(c, h, hp, hpo, r) \/ ReadOk(c, h, hp, hpo, r)

(* First call, req_filepath_get fails: 400, ret = 0; user_data stays NULL. *)
DownloadBadPath(c) ==
    /\ req[c].kind = "dl" /\ req[c].first /\ ~PathFits(req[c].path)
    /\ req' = [req EXCEPT ![c] = Finish(@, 400)]
    /\ UNCHANGED <<hpath, hpos, exists, fsize, ufile, dfile, nreq>>

(* First call, open_r_file: fs_file_t_init(file), then fs_stat finds no   *)
(* file (-ENOENT, 404) or fs_open finds no free slot (500).               *)
DownloadOpenFail(c) ==
    /\ req[c].kind = "dl" /\ req[c].first /\ PathFits(req[c].path)
    /\ req[c].path \notin exists \/ FreeHandles = {}
    /\ dfile' = NoH
    /\ req' = [req EXCEPT ![c] = Finish(@, IF req[c].path \notin exists
                                              THEN 404 ELSE 500)]
    /\ UNCHANGED <<hpath, hpos, exists, fsize, ufile, nreq>>

(* First call, open_r_file succeeds: the content length is the size      *)
(* fs_stat gave, user_data = &file, and the first read follows.           *)
DownloadOpen(c) ==
    LET p == req[c].path IN
    /\ req[c].kind = "dl" /\ req[c].first /\ PathFits(p) /\ p \in exists
    /\ \E h \in FreeHandles :
         DownloadRead(c, h, [hpath EXCEPT ![h] = p], [hpos EXCEPT ![h] = 0],
                      [req[c] EXCEPT !.ud = TRUE, !.clen = fsize[p]])
    /\ UNCHANGED <<exists, fsize, ufile, nreq>>

(* A later call: user_data is set, read the next buffer.                  *)
DownloadNext(c) ==
    /\ req[c].kind = "dl" /\ ~req[c].first /\ req[c].ud
    /\ DownloadRead(c, dfile, hpath, hpos, req[c])
    /\ UNCHANGED <<exists, fsize, ufile, nreq>>

-----------------------------------------------------------------------------
(* No request is streaming and every connection has made its requests.     *)
Terminated ==
    /\ \A c \in Conn : req[c].kind \in {"idle", "done"} /\ nreq[c] = MaxReqs
    /\ UNCHANGED vars

Next ==
    \/ \E c \in Conn :
         \/ \E p \in Paths \cup {LongPath}, len \in 0 .. MaxBody : BeginUpload(c, p, len)
         \/ \E p \in Paths \cup {LongPath} : BeginDownload(c, p)
         \/ Abort(c)
         \/ UploadBadPath(c) \/ UploadOpenFail(c)
         \/ \E k \in 0 .. MaxBody : UploadOpen(c, k) \/ UploadNext(c, k)
         \/ DownloadBadPath(c) \/ DownloadOpenFail(c)
         \/ DownloadOpen(c) \/ DownloadNext(c)
    \/ Terminated

Spec == Init /\ [][Next]_vars

-----------------------------------------------------------------------------
(* Type correctness of the filesystem slots, the static files and the     *)
(* requests.                                                               *)
TypeOK ==
    /\ hpath \in [Handles -> Paths \cup {NoFile}]
    /\ hpos \in [Handles -> Nat]
    /\ exists \subseteq Paths /\ fsize \in [Paths -> Nat]
    /\ ufile \in Handles \cup {NoH} /\ dfile \in Handles \cup {NoH}
    /\ req \in [Conn -> Req] /\ nreq \in [Conn -> 0 .. MaxReqs]

(* No descriptor leak (the TODO above http_file_download): every slot the  *)
(* filesystem holds open is still referenced by one of the two static      *)
(* fs_file_t, so a later fs_close can free it.  A slot no static file      *)
(* names stays open for ever, and downloads fail with 500 once all are.    *)
NoLeakedHandle ==
    \A h \in Handles : hpath[h] # NoFile => h \in {ufile, dfile}

(* A download answered 200 sent exactly the content length it announced,  *)
(* and only bytes of the file it names (spec section 8: a file whose size  *)
(* is an exact multiple of the buffer is sent whole).                     *)
DownloadDeliversFile ==
    \A c \in Conn :
        req[c].kind = "done" /\ req[c].dl /\ req[c].status = 200
            => /\ req[c].sent = req[c].clen
               /\ req[c].from \subseteq {req[c].path}

(* An upload answered 200 left the file it names holding exactly the      *)
(* body: open_w_file truncates what was there and every chunk is written.  *)
UploadStoresBody ==
    \A c \in Conn :
        req[c].kind = "done" /\ ~req[c].dl /\ req[c].status = 200
            => req[c].path \in exists /\ fsize[req[c].path] = req[c].body

=============================================================================
