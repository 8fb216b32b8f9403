# TLA+ models of the stm32f429zi CANIOT controller

This directory holds TLA+ models of the firmware under `src/src/`: the HTTP
reactor, the streaming file handlers, the route resolver, the LED driver and
the device registry. Each module is translated from the C source and checked
with TLC on small instances. The main safety invariants of the HTTP reactor
and of the device registry are also proved with TLAPS for every value of the
constants.

## The system

The firmware is a Zephyr application. Its parts, and how they interact:

| Part | Source | Role |
|---|---|---|
| HTTP reactor | `http_server/http_server.c` | One thread. It binds a plaintext and a TLS listener (`http_srv_setup_sockets`). It polls them together with a compacted table of client pollfds (`fds.cli[0..conns_count-1]`). It accepts connections into a fixed pool (`http_srv_accept`). For each readable client it runs `handle_conn`: blocking `recv_request` into one shared buffer, route dispatch (`http_srv_process_request`), and `http_srv_send_response` through `sendall`. A closed connection is freed, then `compress_fds` moves the later pollfds down, and the scan resumes at the same index. |
| Streaming file handlers | `http_server/files_server.c` | `http_file_upload` and `http_file_download`. Both are called by the server once per chunk, with one `static struct fs_file_t file` shared by all connections. |
| Route resolver | `http_server/routes.c` | A linear scan of a constant route table. It matches with `strncmp` over `MAX(route_len, url_len)`. |
| Device registry | `mydevices.c` | A mutex-protected list of at most 20 devices. It is fed by BLE (Xiaomi) frames from an IPC work item, by CAN telemetry and by the die temperature. |
| LEDs and button | `user_io.c` | `led_set_mode` under a mutex. A periodic `k_timer` callback `led_process` toggles the LEDs. |
| CAN filter, HA data, F429ZI device, SNTP | `ha/*.c`, `net_time.c` | Decoding and glue code, with little or no state. |

The HTTP server calls into the route resolver and, through the routes, into
the handlers. The handlers read the device registry. Those handler bodies are
outside `src/`.

## Modules

### `HttpServer.tla`: the reactor, with the peers

**State.** The variables follow the C objects:

| Variable | C object |
|---|---|
| `listening` | the listeners whose `setup_socket` succeeded (`listening_count`) |
| `backlog` | the TCP accept queue of each listener |
| `lrev` | the listener revents |
| `cli` | `fds.cli`, each entry holding `fd` and `rev`, where `rev` is `revents & POLLIN` |
| `conns_count` | `conns_count` |
| `pc` | where the reactor thread is: poll, accept, scan, recv or send |
| `idx` | the scan index |
| `rlen` | `req->len` |
| `complete`, `keep_alive` | the same connection fields |
| `status`, `content_len` | the same response fields |
| `part`, `slen`, `ssent` | which `sendall` is running, its `len` and its `sent` |

The peers are modelled as the environment:

| Variable | Meaning |
|---|---|
| `phase` | the state of each client socket: idle, backlog, up or down |
| `fin` | the peer has closed its side |
| `wire` | unread request bytes. A byte is `TRUE` when it ends a message, which stands for the external http_parser's `on_message_complete`. |
| `nreq`, `left`, `answered` | requests begun, bytes still to send, responses completed |
| `err` | the socket is in error |

Three history variables exist only for the properties:

| Variable | Meaning |
|---|---|
| `txlog` | the bytes of the current response, in the order the peer got them |
| `readyAt` | the clients reported readable by the last poll |
| `served` | the clients `handle_conn` ran for since that poll |

**Actions.** There is one action per step of the code:

- `Poll` is `zsock_poll` over `conns_count + listening_count` entries.
- `AcceptConn`, `AcceptRefused` and `AcceptFailed` are the three outcomes of `http_srv_accept`, in the order srv then sec.
- `ScanServe`, `ScanSkip` and `ScanEnd` are the scan loop.
- `RecvFull`, `RecvEof`, `RecvChunk` and `RecvLastChunk` are the exits of `recv_request`. `RecvLastChunk` continues into dispatch: 404, 500 or 200 with a content length.
- `SendBytes(k)` is one `zsock_send` of `sendall` that accepts `k` bytes. It continues into the body `sendall` and `ResponseDone`, which means keep-alive (`idx++`) or `CloseConn`.
- `SendFail` is a failed `zsock_send`.
- `CloseConn` covers the close label of `handle_conn` (`zsock_close`, `http_conn_free`) plus `compress_fds(idx)` and `continue`.
- `Quiescent` is a stutter for the state where the reactor blocks forever in poll. It stops TLC from reporting deadlock.

**What is abstracted.**

- Byte contents, header text and logging are not modelled.
- The http_parser is reduced to the end-of-message flag.
- `http_conn_alloc`/`http_conn_free` and `http_code_has_payload` are not under `src/`. They are modelled from the spec and marked `spec_modelled` in `PROJECT.json`.
- `-EAGAIN` retries are not modelled, and neither is the `ret <= 0` branch of poll (a 5 s sleep).

### `HttpServerProofs.tla`, `HttpServerScanProofs.tla`, `MyDevicesProofs.tla`, `FilesServerProofs.tla`, `FilesServerTypeProofs.tla` and `UserIOProofs.tla`: TLAPS proofs

Described under "What is proved" below.

### `MC_HttpServer.tla`: model values for TLC

It defines three client sockets and the port each one targets.

### `FilesServer.tla`: the streaming file handlers

**State.**

| Variable | C object |
|---|---|
| `hpath`, `hpos` | the filesystem's open-file slots: the path each one has open, and its position |
| `exists`, `fsize` | the files on the filesystem, and their sizes |
| `ufile`, `dfile` | `static struct fs_file_t file` of `http_file_upload` and of `http_file_download`: the slot it refers to, or `NoH` (`mp == NULL`) |
| `req` | per connection: the handler it streams, the path, first call or not, `req->user_data`, body bytes left, bytes sent, the content length, the files whose bytes were sent, and the status |
| `nreq` | requests begun per connection (bounded by `MaxReqs`) |

File contents are abstracted to sizes, and a path is a model value.
`LongPath` is a path whose reconstruction overflows `filepath[]` (`req_filepath_get` returns `-ENOMEM`).

**Actions.** One handler call is one action, because the reactor calls
the handlers one at a time:

- `UploadBadPath`, `UploadOpenFail` and `UploadOpen` are the first call of `http_file_upload`. `UploadOpen` runs `open_w_file`, that is `fs_open` and `fs_truncate`, then the write.
- `UploadNext` is a later call of `http_file_upload`.
- `UploadWrite` is shared by both. It covers the write, the close on completion, and the close at `exit:`, which happens only when `ret != 0`.
- `DownloadBadPath`, `DownloadOpenFail` and `DownloadOpen` are the first call of `http_file_download`. It sets the content length from `fs_stat` and then reads.
- `DownloadNext` is a later call, made while `user_data` is set.
- `ReadFail` and `ReadOk` are the two outcomes of `fs_read`.

The server side that calls the handlers is not under `src/`. It is modelled
from the spec's handler protocol (section 4.6) and marked `spec_modelled`:

- `BeginUpload` and `BeginDownload` start a request.
- `Abort` is a connection that dies between two calls. It is allowed only when `ABORT_MAY_HAPPEN` is set.

### `UserIO.tla`: LEDs, their mutex and the timer interrupt

**State.**

| Variable | Meaning |
|---|---|
| `leds` | the `struct led` records (mode, state, pending, remaining) and the GPIO pin |
| `timer` | the `k_timer`: running, period, and ticks left |
| `owner`, `lockCount` | the recursive `k_mutex` |
| `pc`, `arg` | per thread: where it is in `user_io_init` or `led_set_mode`, and its locals |
| `age`, `due` | history for the timing property: ticks since an LED was scheduled, and the delay its mode asks for |

**Actions.**

- `led_set_mode` is split at every point the timer interrupt can preempt it: `Call`, `Lock`, `CheckMode` (the early `return` at line 117 keeps the mutex), `SetState`, `Prep` (`led_prepare_next`), `Arm` (`k_timer_remaining_get`, then `k_timer_start`) and `Unlock`.
- `UserIoInit` is `user_io_init`. Its `goto exit` paths keep the mutex.
- `LedProcess` is the expiry function `led_process`, which runs without the mutex. It is taken as soon as the timer expires. Its last step, `k_timer_stop` or `k_timer_start` (lines 158-162), is a nested `IF` in the order of the code's `if` / `else if`. A `CASE` would not do: its first two guards overlap, and a `CASE` with overlapping guards leaves the value unspecified.
- `Tick` is 100 ms passing.
- `PrepareNext` translates `led_prepare_next`, including the missing `break` after `FLASHING`.

### `Routes.tla`: `route_resolve`

- Strings are tuples of one-character strings.
- `url` is not NUL-terminated. `strncmp` over `MAX(route_len, url_len)` bytes (`UrlMatch`, recursive `StrNCmpEq`) therefore reads the bytes that follow it in the request buffer (`tail`).
- Each loop iteration is one action: `SkipMethod` (the `continue`), `Matched`, `Mismatched`, and then `ScanEnd` (NULL).
- Routes declares a RECURSIVE operator, so it is checked by TLC only.

### `MyDevices.tla`: the device registry and the IPC work item

**State.**

| Variable | Meaning |
|---|---|
| `list` | `devices.list[0..count-1]`. A device is its medium, its address and its type; measurements are left out. |
| `msgq` | `ipc_ble_msgq`, which holds one frame, as `K_MSGQ_DEFINE(..., 1U, 4U)` defines it |
| `work`, `cur`, `ri` | the work item's state and the frame being registered |
| `attached` | `ipc_attach_rx_msgq` has been called |
| `delivered` | frames the IPC driver has received |
| `dropped` | history: listed devices whose record of the last frame was not applied |

**Actions.**

- `MydeviceInit` is `mydevice_init`.
- `IpcReceive` is the driver's `K_NO_WAIT` put. The driver is not under `src/`: a frame is lost when the queue is full.
- `WorkTrigger` is the `k_work_poll` trigger.
- `WorkGet`, `FrameRecord` (one record of the loop under the mutex: a failed record makes the loop `goto exit`), `FrameEnd` and `WorkDone` (reset the poll event, resubmit) make up `ipc_work_handler`.
- `CaniotTelemetry` and `DieTemperature` each run wholly under the mutex, so each is one action. They are blocked while a frame loop holds the mutex.
- `Found` translates `mydevice_get` and `phys_addr_cmp`. `GetOrRegister` and `Registers` translate `mydevice_get_or_register` and the count check of `mydevice_register`.

### MC modules

`MC_FilesServer`, `MC_UserIO`, `MC_Routes` and `MC_MyDevices` supply the model values:

- connections, paths and handles, with symmetry on handles, and on connections when there are two;
- LEDs and threads, with symmetry on LEDs;
- the url and tail sets, which contain every prefix of every pattern and every pattern with a byte added;
- BLE addresses, a CAN id, and frames of one or two distinct records.

## Runs

| Run | cfg | Expect | What it shows |
|---|---|---|---|
| reactor | `MC_HttpServer.cfg` | pass | See the paragraph below. |
| live | `MC_HttpServer_live.cfg` | pass | `RequestEventuallyAnswered`: every request a peer has fully sent is eventually answered, or its connection is closed. |
| sendorder | `MC_HttpServer_sendorder.cfg` | violation | `ResponseBytesInOrder` fails. After a partial send, `sendall` sends `buf` from its start again (finding 1). |
| senderr | `MC_HttpServer_senderr.cfg` | violation | `SendErrorClosesConnection` fails. A hard send error makes `sendall` loop forever (finding 2). |
| setup | `MC_HttpServer_setup.cfg` | violation | `PolledCoversSlots` fails. With the plaintext listener bound and the TLS one not, nfds misses the last client slot (finding 3). |
| files | `MC_FilesServer.cfg` | pass | One connection, up to three uploads and downloads, two filesystem slots, read errors. `NoLeakedHandle`: every open slot is referred to by a static `fs_file_t`. `DownloadDeliversFile`: a download that ends with 200 sent exactly the content length it announced, all from its own file. `UploadStoresBody`: an upload that ends with 200 left the file with exactly its body's size. |
| files_faults | `MC_FilesServer_faults.cfg` | pass | Two connections with every fault on: `TypeOK`. This is the run where one connection's handler call finds the shared static file closed by the other (the `-EBADF` paths). |
| files_leak | `MC_FilesServer_leak.cfg` | violation | `NoLeakedHandle` fails: a slot stays open with no `fs_file_t` referring to it (findings 4 to 6). |
| userio | `MC_UserIO.cfg` | pass | Two LEDs, one thread setting every mode up to four times, the timer interrupt, and `user_io_init` succeeding or failing. `SettledPins`: between calls, an OFF LED is dark, a STEADY one lit, and neither is pending. `PendingLedHasTimer`: a pending LED always has the timer running. |
| userio_lock | `MC_UserIO_lock.cfg` | violation | `NoThreadBlockedByIdleOwner` fails: a thread blocks on the mutex held by a thread that has left `led_set_mode` (finding 7). |
| routes | `MC_Routes.cfg` | pass | `ResolveByMemoryPrefix`: over GET and POST, every prefix of every pattern and every pattern with a byte added, followed by the rest of any pattern and a space, `route_resolve` returns the first route of the method whose pattern the url and the following bytes spell, with its default content type. The tail made of the space alone is the well-formed request, where this is the exact match. |
| devices | `MC_MyDevices.cfg` | pass | Three sensors in frames of one or two records, a CAN device and the die sensor, racing for a list of three. `UniqueDevices`: no device is listed twice. `TypeOK` includes the list bound. `QueueEventuallyDrained`: every queued frame is eventually taken out, under the fairness below. |

**The reactor run.** It has 3 clients, 2 listeners, `MAX_CONNS = 2`, and failing accepts and sends. It checks four invariants:

- `TypeOK`.
- `PollSetMatchesConnections`: `fds.cli[0..conns_count-1]` hold exactly the open connections, each once, and the rest are cleared.
- `EachReadyServedOnce`: in one scan, `handle_conn` runs only for connections the last poll reported, at most once each, and for all of them.
- `ScanIndexInRange`.

**Bounds.**

- The reactor run has three clients against a pool of two. That forces a refusal, and it also produces a close in the middle of a scan, with a connection shifted into the scan index.
- One request per client, of at most two bytes, with a one-byte buffer. That is enough to reach every exit of `recv_request`: full buffer, EOF, and complete.
- `BODY_LENS = {0, 1}` covers both an empty body and a non-empty one.
- The live run needs a buffer of 2 and requests of up to 3 bytes. With a buffer of 1, the full-buffer close hides a missed completion.
- The reactor run reaches 2.2 million distinct states in under a minute. The live run reaches 160 thousand.

**Bounds of the other runs.**

- The files runs have two slots and two paths, so a leaked slot can starve a later open, and a buffer of 2 with files of up to 4, so a download takes several calls and can end on an exact multiple of the buffer.
- One connection is the largest case in which the per-request properties can hold, because the static `fs_file_t` is shared (finding 4). The faults run has two connections and smaller bounds (571 thousand states).
- The userio run has two LEDs, so the interrupt reschedules one while the other is being set, and `MaxAge = 6`, one tick more than the longest delay. It reaches 846 thousand states.
- The lock run needs two threads and a single LED.
- The devices run has a list of three against four devices, so the list fills, and a queue of one frame, as in the code. It delivers up to four frames. It reaches 50 thousand states.

**Fairness.** The HTTP reactor's `FairSpec` assumes two things:

- Weak fairness of the reactor's actions. It is one thread that only blocks in poll.
- Weak fairness, per peer, of sending the rest of a request it began. `recv_request` blocks with no timeout (spec section 9), so without this assumption no progress is possible.

It does not assume that peers connect, begin requests or close.

`MyDevices`' `FairSpec` assumes weak fairness of `mydevice_init`, of the kernel's
`k_work_poll` trigger, and of the steps of the work handler. The system work
queue runs every submitted item, and the handler's loops never block: the
`k_msgq_get` is `K_NO_WAIT`, and the mutex is held by CAN or die-temperature
calls that are single actions. Nothing is assumed of the producers.

## What is proved (TLAPS)

`HttpServerProofs.tla` proves `Spec => []IInv`, and from it three theorems:

- `TypeCorrect`: `[]TypeOK`.
- `PollSetInvariant`: `[]PollSetMatchesConnections`.
- `ScanIndexInvariant`: `[]ScanIndexInRange`.

These hold for every `MAX_CONNS`, buffer size, header length, set of sockets and port assignment that satisfy `ConstAssumption`.

**The inductive invariant.**
`IInv == TypeOK /\ PollSetMatchesConnections /\ ScanIndexInRange /\ BacklogOK`. On their own, the first three conjuncts are not inductive. Accept turns the head of an accept queue into a live pollfd, and the table stays duplicate-free only if that socket is not already live. `BacklogOK` supplies this: each pending connection is queued exactly once and is in phase `backlog`. TLC checked `IInv` as an invariant before it was proved.

**The argument.** There is one lemma per action, and `NextIInv` combines them. The central lemmas:

- `CompressFdsShape` states what `compress_fds(k)` computes once the count dropped from `n` to `n-1`: slots below `k` are kept, slots `k..n-2` take their successor, and slot `n-1` is cleared.
- `CloseConnIInv` uses it to show that slot `i` of the new table comes from slot `Src(k, i)` of the old one. That map is injective and misses only the closed slot.
- `AcceptCommon` shows that the accepted socket is in no pollfd, and that the rest of the queue stays queued once.
- Frame lemmas (`PollSetFrame`, `ScanIndexFrame`, `BacklogFrame`) cover the actions that leave a conjunct's variables alone.

`HttpServerScanProofs.tla` extends `HttpServerProofs` and proves
`ReadyServedOnce`: `Spec => []EachReadyServedOnce`. One scan of
`http_srv_thread` runs `handle_conn` only for sockets the last `zsock_poll`
reported readable, at most once each. By the time the thread is back in
`zsock_poll`, it has run it for all of them. This holds for every pool size
and every outcome of setup.

The scan walks a table that shrinks under it, which makes this hard:
`compress_fds` moves the later pollfds down and the loop `continue`s at the
same index. `EachReadyServedOnce` is not inductive. The proof strengthens it with `SInv`:

- `RevReady`: a live pollfd with POLLIN holds a socket of the ready set.
- `RevFresh`: a pollfd with POLLIN at or after the scan index holds a socket not yet served (the one being served excepted).
- `BusyServed`: while `handle_conn` runs, the socket at `idx` is the last one served and still has POLLIN.
- `ReadyCovered`: a ready socket is served already, or its pollfd with POLLIN lies at or after `idx`.
- `PollDone`: in `zsock_poll`, `idx >= conns_count`.
- `RevPolled`: a live pollfd has POLLIN only if the last poll covered it.

`RevPolled` is needed because entries past `nfds` keep their old revents. With a
failed listener setup, the last live pollfd is never polled (see the findings).
The proof shows that this pollfd never holds a stale POLLIN: it enters the table
with clear revents, and a close only moves entries down. That finding therefore
starves a connection, but never makes the scan serve one the poll did not report.

`CloseConnSInv` carries the argument through the compaction, using
`CompressFdsShape` and `Src` from `HttpServerProofs`. The closed slot is the
served one (`BusyServed`), so a ready socket found at `idx` is already served.
Every other one moved down by one slot and is still at or after `idx`.
`RevPolled` needs `listening_count` to be a natural number. The prover has no
facts about `Cardinality`, so this is the named assumption `ListenerCount` of
`HttpServer`. TLC evaluates it on every run, and the runs cover both values of
`NONSECURE`. `IInv /\ SInv` was checked by TLC as an invariant on the reactor
configuration (2.2 million states). It was also checked on a configuration with
setup failures, a pool of three and all clients on the plaintext port, before
it was proved.

`MyDevicesProofs.tla` proves two theorems about the device registry, for every
list size, queue size, set of devices and set of frames allowed by `DevicesAssumption`:

- `RegistryTypeCorrect`: `[]TypeOK`. It includes `Len(list) <= LIST_SIZE`, so `mydevice_register` never writes past the list.
- `RegistryUnique`: `[]UniqueDevices`.

`TypeOK /\ UniqueDevices` is inductive as it stands. The argument rests on
`NotFoundNotListed`: a device that `mydevice_get` does not find is in no entry
of the list. For a BLE or CAN device, an equal entry would have a valid address
with the same medium and address. For the die sensor, it would have the same
type. `GetOrRegisterOK` uses it to show that `mydevice_get_or_register` appends
only a new device, and only when the count check of `mydevice_register` leaves
room. One lemma per group of actions (`InitIpcIInv`, `WorkIInv`,
`FrameRecordIInv`, `RegisterIInv`) then gives `NextIInv`. The mutex is what makes
each producer's lookup and append one action, so the proof covers every
interleaving of the producers.

`FilesServerProofs.tla` proves `HandlersNoLeak`: `[]NoLeakedHandle` under the
hypothesis `Hyp` (one connection, `~ABORT_MAY_HAPPEN`, `~DISK_MAY_FILL`). It
holds for every number of slots, paths, file sizes, body lengths and buffer
sizes that satisfy `FilesAssumption`. This is the configuration of the `files`
run, and the `files_leak` run shows that each part of `Hyp` is needed. The
theorem says the handlers on their own close what they open, on every path:
completion, `-EBADF`, a failed `fs_read`, `-ENOMEM` for the path, and
`fs_open` with no free slot. So the leaks of findings 4-6 come only from the
shared static file, aborts and zero-byte writes.

**The inductive invariant.** `NoLeakedHandle` is not inductive. A first call
takes a free slot and overwrites the static file, which is safe only if the
static file was empty. `IInv` adds the following:

- typing of `hpath`, `ufile`, `dfile` and of the request records (`ReqOK`);
- a static file names a slot only while a request of its own handler is past its first call;
- that slot is open.

From `IInv`, a request that begins finds both static files empty and every slot
free (`AllFree`). Closing the one slot a static file names frees them all
(`CloseLast`). `UploadWriteShape` and `DownloadReadShape` reduce one handler
call to two outcomes: the request ends with the slot closed, or it goes on with
the slot kept in the static file. One lemma per group of actions then gives
`NextIInv`. TLC checked `IInv` as an invariant of the `files` configuration
before it was proved.

`FilesServerTypeProofs.tla` proves `FilesTypeCorrect`: `[]TypeOK` of
`FilesServer`, the invariant of the `files_faults` run. It needs no hypothesis
beyond `FilesAssumption`: any number of connections, with aborts, `fs_read`
errors and short `fs_write`. `TypeOK` is not inductive on its own. A later
download call reads at the position of the slot its static file names, and the
count of bytes it adds to `sent` and to the position is a natural only if that
slot holds a path with a size. The strengthening `StaticFilesOpen` says the following:

- a static `fs_file_t` that is not empty names a slot with a path open;
- the upload's and the download's static files never name the same slot.

The second conjunct is what keeps the first true when `UploadBadPath` or a
completed upload closes the upload's slot. A first call takes only a free slot,
and a slot a static file names is not free, so the two cannot meet. The
lemmas `UploadWriteTInv` and `DownloadReadTInv` handle one call's write or read
through any slot satisfying these conditions, and the first-call and
later-call actions instantiate them. The request records are typed field by
field (`ReqIntro`, `ReqElim`), because the provers do not decide membership in
the 11-field record set `Req` in one step. TLC checked `TInv` as an invariant
of the `files_faults` configuration (571,628 states) before it was proved.

`UserIOProofs.tla` proves four theorems about `user_io.c` for every set of
LEDs and threads and every bound allowed by `UserIOAssumption`. They cover any
number of threads calling `led_set_mode` concurrently, preempted at any step by
`led_process`:

- `TypeCorrect`: `[]TypeOK`.
- `MutexExcludes`: `[]Excl`. Every thread between its `k_mutex_lock` and its `k_mutex_unlock` owns the mutex.
- `LedsSettled`: `[]SettledPins`.
- `TimerServesPending`: `[]PendingLedHasTimer`.

**The inductive invariant.** Neither `SettledPins` nor `PendingLedHasTimer` is
inductive. A thread inside `led_set_mode` changes its LED over four steps, and
`led_process` may run between any two of them. `IInv` adds the following:

- the mutex is free exactly when its count is 0 (`LockOK`), and only its owner is inside (`Excl`);
- the LED of a thread already has the thread's mode (`ModeOK`);
- after `SetState`, an `OFF` or `STEADY` LED shows its value (`PrepOK`);
- after `Prep`, the LED is settled (`ArmOK`);
- every LED no thread is working on is settled (`SettleOK`);
- a thread about to arm the timer with `K_FOREVER` has an LED that is not pending (`NearOK`);
- a pending LED has 1 to 5 ticks to go (`RemOK`), and a running timer has a period of 1 or 5 ticks (`TimerOK`).

**The argument.** `Excl` makes the other threads' LEDs untouched by a thread's
step (`OthersOut`). `led_process` changes only pending LEDs, and it never
changes what an `OFF` or `STEADY` LED shows (`LedProcessLed`). While an LED is
pending, it restarts the timer with the least of 5 and the periods of the LEDs
it toggled (`LeastIn`), so the timer keeps running (`LedProcessIInv`). One lemma
per action gives `NextIInv`. TLC checked `IInv` as an invariant, with two
threads, before it was proved: 2.8 million states with `MaxCalls = 2`.

The same module proves `DownloadsDeliverFiles` (`[]DownloadDeliversFile`) and
`UploadsStoreBodies` (`[]UploadStoresBody`) under `Hyp`, for every buffer size,
file size, body length and chunking. Their invariant is `CInv`, which is
inductive together with `IInv`. It follows the static file of a streaming
request:

- for an upload past its first call, the slot's position and the file's size both equal the bytes received so far, `body - left`;
- for a download past its first call, the position equals the bytes sent, and the file still has the size announced as the content length.

On the upload side, `UploadStepCInv` shows that one call writes its chunk at
the end of the file. `Grow` therefore sets the size to the new position, and
the call that takes the last byte leaves the file holding the body. On the
download side, `DownloadReadCInv` shows that a full buffer keeps the invariant.
A read shorter than `resp->buffer.size` is exactly the rest of the file. So the
response that ends with it has sent the content length, and that includes a
file whose size is a multiple of the buffer: its last read is an empty one.

**Left to TLC.** These stay with model checking:

- The liveness property (`RequestEventuallyAnswered`), because it needs fairness and `ENABLED`.
- `QueueEventuallyDrained` (liveness), `NoLeakedHandle`, `DownloadDeliversFile` and `UploadStoresBody` with several connections, aborts or short writes (they fail there, see the findings), the timing property `BlinkOnTime` of `UserIO` (it is stated over history variables and is violated by the code), and every property of `Routes`. Routes declares a RECURSIVE operator, so no theorem can be stated in a module that reaches it. Its invariant `ResolveByMemoryPrefix` would also need induction over the bytes of the url, which the installed provers cannot do: the induction theorems take an operator parameter that they cannot instantiate.

## Findings

1. **`sendall` resends the start of the buffer** (`http_server.c:400`). `zsock_send(sock, buf, len - sent, 0)` never advances `buf`. After a partial send, the peer receives a duplicated prefix and never the tail. This contradicts spec section 8.
2. **`sendall` never gives up on a hard error** (`http_server.c:401-407`). A negative `ret` other than `-EAGAIN` falls through, and the loop calls `zsock_send` again forever. The reactor thread is lost. Spec sections 4.7 and 7 say the connection is aborted.
3. **A setup failure is not fatal** (`http_server.c:169-197, 232-237`). `http_srv_thread` ignores the result of setup. If the TLS listener fails after the plaintext one succeeds, `listening_count` is 1, and poll stops one entry short of the last client pollfd. The spec says a bind or TLS failure aborts startup.
4. **Both file handlers share one `static struct fs_file_t`** (`files_server.c:198, 287`). A second request's first call runs `fs_file_t_init` on it while another connection's file is open, and that slot is never closed. The other request's next calls then read or write the second file. `MC_FilesServer_shared.cfg` shows a download sending another file's bytes (`DownloadDeliversFile` fails). The comment at line 281 says downloads fail after about four because a descriptor is not closed.
5. **An aborted request leaks its file** (`files_server.c:113, 155`). A connection closed between two calls leaves the static file open, and the next first call forgets it.
6. **A write of 0 bytes leaks the upload file** (`files_server.c:244, 273`). `ret = written = 0`, so `exit:` does not close the file, although a fatal error is meant to.
7. **`led_set_mode` returns with the mutex locked** (`user_io.c:117`) when the mode is unchanged, and so do the error paths of `user_io_init` (`user_io.c:100`). Any other thread that later sets an LED blocks forever.

### Further findings, each shown by its own configuration

For these, the property states what the code means to do and the code does
not do it. TLC reports the violation under the configuration named:

- **`MC_UserIO_flash.cfg`, `BlinkOnTime`.** `led_prepare_next` sets `remaining = 1` for a lit `FLASHING` LED and falls through, with no `break`, to the 1 Hz case, which sets 5. A flash stays lit 500 ms instead of 100 ms (`user_io.c:39-45`).
- **`MC_UserIO_blink.cfg`, `BlinkOnTime`.** `led_set_mode` starts the timer only if `k_timer_remaining_get` is 0. A `BLINKING_5Hz` LED set while the timer runs at its 500 ms period waits 500 ms for its first toggle (`user_io.c:126`).
- **`MC_MyDevices_full.cfg`, `NoRecordDropped`.** With the list full, a frame's record for an unknown device makes the loop `goto exit`. The later records of the frame are dropped, including those of devices already listed (`mydevices.c:277`).
- **Routes.** With bytes other than the space after the url, `"/i"` followed by `"nfo "` resolves to `/info`. This is the quirk spec section 9 documents. `ResolveByMemoryPrefix` states it as the rule the code implements.

## Not modelled

- **`http_server.c`, pipelined requests.** The peers wait for each response, so the bytes of a second request received in the same `zsock_recv` (line 383) are never produced.
- **`files_server.c`:** `http_file_stats` returns 0, and the access history is compiled out.
- **`mydevices.c`:**
  - `mydevice_iterate` and `mydevice_match_filter` are a read-only walk under the mutex. Its callbacks, the REST handlers, are outside `src/`.
  - The measurement values and timestamps written into a device are not modelled.
- **`user_io.c`:** `button_pressed` only logs.
- **`net_time.c`** is a work item doing one SNTP query and storing its result. It is pure I/O.
- **`ha/data.c`, `ha/devices/f429zi.c` and `ha/caniot_controller.c`** are stateless decoding and glue: a size table, unit conversion, and one registry call per frame.
- **The headers** hold declarations only.


