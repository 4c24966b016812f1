# A verification project for strero

strero is the streaming daemon of an IP camera: it takes encoded frames from the
vendor's encoder and serves them over RTSP and RTMP, offers snapshots, MJPEG and
ONVIF over HTTP, and runs the camera's control loops (motion, day/night, OSD).
It is one process of cooperating threads, written in C. This directory holds TLA+
models of its core, the TLC configurations that check them and the proofs TLAPS
checks. Paths below are relative to `src/src/` unless they begin with `docs/`.

How to run: `tlc -workers 2 -config RtspServer.cfg MCRtspServer.tla` (and likewise
for every run of `PROJECT.json`), `tlapm RtspServerProofs.tla`.

Some parts of the process share no state. Where that is so, one module (`RtspParts`,
`RtmpParts`, `Process`) puts several of them side by side: a variable `part` says which one
a behaviour is about, and the variables of the others keep their initial value. A behaviour
of such a run is a behaviour of one part; the number of its states is the sum, not the
product. These modules have no bounds of their own: the proofs are about them, and the MC
modules add the values for TLC.

## 1. The system

### Threads

| thread | code | shares state with |
|---|---|---|
| main | `main.c` | everything, at start; then sleeps for ever |
| frame thread | `frame_manager.c:258` | RTSP clients, RTMP connections, stream parameters |
| RTSP server thread | `modules/rtsp/rtsp_server.c:1208` | the session table, with the frame thread |
| RTMP server: accept, one per connection | `modules/rtmp_server/rtmp_server.c:450,517` | the connection list |
| RTMP client: manager, one per target | `modules/rtmp_client/rtmp_client.c:535,2582` | the connection list, the sockets |
| HTTP server, one thread per MJPEG viewer | `modules/http/http_module.c:485,1274` | route table, JPEG encoder channel |
| snapshot worker | `snapshot_fallback.c:182` | the JPEG encoder channel |
| motion, photosensing, OSD timer, metrics, audio, ONVIF discovery | one file each in `modules/` | their module's context |
| configuration monitor | `config.c:576` | the global configuration |

### Components, their state and their operations

| component | state | operations | what makes it correct |
|---|---|---|---|
| RTSP session table (`rtsp_server.c`) | 8 slots: active, state, sockets, transport, idle time; the client count; the descriptor table of the process | create, start, stop, destroy; accept plain/TLS; OPTIONS, DESCRIBE, SETUP, PLAY, PAUSE, TEARDOWN; hang-up; idle sweep; EBADF sweep | count = slots in use; a slot's numbers are its own sockets; nobody else's descriptor closed; dead and idle clients reclaimed; PLAY answered means playing |
| RTSP frame delivery (`rtsp_server.c:542-865`) | needs_idr and idr_wait_start of each client, the send in progress | send_frame per encoder frame, PLAY, the other control messages, disconnection | a new client starts with a key frame or after a real 5s wait; media reaches only the client it is meant for |
| RTP packetizer (`rtsp_server.c:2422-2991`) | the NAL unit at hand, bytes done | single packet, FU-A / FU fragmentation, interleaved framing | a receiver that follows RFC 6184 and RFC 7798 gets the NAL units back |
| TLS sessions (`rtsp_server.c:3176-3329`) | `ssl_context`, `ssl_mutex` | accept, read, write with retries, cleanup | a session has an owner until it is freed; two writers exclude each other |
| RTSP module (`rtsp_module.c`, `rtsp_server_start`) | module flags, encoder channels, server resources, key and certificate files | init, start, stop, cleanup; certificate generation | a failed start leaves nothing behind; key and certificate belong together |
| Frame manager (`frame_manager.c`) | 8 consumer entries, their number, stream parameters, the thread | register, unregister, enable, get parameters, start, stop, cleanup; the frame loop | no callback after unregistration, every frame distributed once and released once, ids not reused |
| Module system (`module_system.c`, `http_router.c`) | registry of modules with a state each, route table | register, init all, start all, cleanup all | whatever the link order, each path has the handler of a module that runs |
| RTMP server | connection list and count, accept thread, a thread per connection | accept, handshake, commands, frame callback, destroy | the count is exact; a connection is freed once and by nobody while in use |
| RTMP session | chunk size of both directions, last headers | handshake, connect, createStream, publish, messages in chunks | both ends agree on where a chunk begins |
| RTMP client | connection list, state machine per target | create, start, stop, destroy, reconnect, send_frame | a target that fails is tried again; frames only while PUBLISHING |
| HTTP server | listening socket, client sockets, MJPEG threads | accept, read, dispatch, MJPEG, snapshot, stop | a thread's socket is its own; requests are answered |
| JPEG channel users (`snapshot_fallback.c`, `http_module.c`) | the encoder channel | start receive, poll, get, release, stop | the channel is not left receiving; each stream obtained is released |
| Motion detection | IVS set-up, event active, start and last-motion time | a result per period, scripts | start and stop scripts alternate, events are a cooldown apart |
| Photosensing | mode, filter, night and day counters, IR cut status | a sample per period | the mode follows the light and the filter the mode |
| ONVIF discovery | ring of message ids, cache of clients | probe received | no second reply to what a clock that may be set still shows as recent, none left out for no reason |
| OSD | a context and regions per stream, one cached clock text | init, timer, zones, cleanup | clocks are current, boxes lie in the picture, an exit leaves no region, context or font |
| Configuration | global structure, modification time | load, reload by the monitor thread | edits arrive; rates stay within the sensor |
| Start-up and lock file (`main.c`) | lock file, initialisation sequence | take, check, release lock; unwinding | at most one instance; exit leaves nothing acquired |
| Metrics, audio, IMP control, ONVIF services, authentication | a context each | timer or loop, setters | see section 5 |

### Interactions and hard behaviours

The frame thread calls every registered consumer with `consumers_mutex` held; the
RTSP consumer calls `rtsp_server_send_frame`, which walks the session table without
any lock while the server thread changes it. What orders the two is only the order of
assignments and one 10ms delay. Sockets are named by descriptor numbers that the whole
process shares, so whoever closes a number twice, or late, closes somebody else's.
Stop and destroy functions exist for every part but the program never calls most of
them: `main` sleeps for ever and installs no signal handler. They are modelled as
the code defines them, since other callers rely on them being right.

The full list of hazards, each at its line with the properties aimed at it, is in
`PROJECT.json`. The blocking calls of the RTSP server thread (`SSL_accept` with a
300s limit, `send` to a client that does not read) are assumed to return: a run that
states liveness says what happens when they do.

## 2. The modules

### RtspServer (`MCRtspServer`, `RtspServerProofs`)

The session table and the thread that owns it. `active`, `st`, `sock`, `rtp`,
`transport`, `idle` are the fields of `clients[i]`, `count` is `client_count`, `pc` says
where the server thread is in its loop (`select`, the two accept blocks, the scan over
the slots, and the two places where it sleeps for 10ms with a slot half closed).
`kernel` maps every descriptor number to the object it really refers to, so a stale
number in a slot is visible as a disagreement between `sock` and `kernel`; `held` are
the numbers other threads have opened.

One action is one turn of the corresponding code: `SelectFails`, `SelectReady` and
`SelectTimesOut` are the three outcomes of `select()` with everything done for them;
`AcceptPlain`, `AcceptTls`, `HandshakeFails`, `AcceptNothing` the accept blocks; a
request action (`SetupUdp`, `Play`, ...) is the handler together with what the loop
does before it (hiding PLAYING of a TCP client: `Seen`, remembering `was_playing`: `was`).
It ends (`Return`) with the state the handler left, for the frame thread to see, and with
`pc` at "back"; what the loop does then, putting a client that came in PLAYING and is READY
back to PLAYING, or deactivating one whose connection or reply was lost, is a step of its
own (`Restore`). The 10ms windows are separate steps (`FinishClose`, `FinishTeardown`), so
other threads run inside them.

Abstractions: activity time is one flag per slot (`idle`: older than `session_timeout`);
requests that do not touch the session (OPTIONS, DESCRIBE, errors, failed
authentication) are one action; TLS is a handshake that succeeds or fails.

| run | bounds | question |
|---|---|---|
| `rtsp_server` | 2 slots, 3 numbers, 1 foreign descriptor, no handshake or TEARDOWN fault | table, count, descriptors and the discipline of PLAY hold in every interleaving, through stop and destroy |
| `rtsp_pause` | 1 slot, 2 numbers, no fault | expected violation: a PAUSE over UDP is undone by the loop (section 3) |
| `rtsp_server_live` | 1 slot, 2 numbers, TLS, 1 failed handshake, 1 lost TEARDOWN reply, 1 foreign descriptor, `FairSpec` | faults only lower the count (`CapacityNeverLost`); `ClientsReclaimed`: a connection its peer closed is closed here too, an idle client is dropped if `select` times out again and again |

Two slots are enough to have one client served while another is idle, closing or
hanging up, and to have slot order matter; as many numbers as sessions plus one lets a
closed number be reused both by a session and by another thread, and fewer makes
`accept` and `socket` fail. Liveness is per slot, and one slot with every fault fits TLC.
`MaxForeign`, `MaxBadHandshakes` and `MaxLostTeardowns` bound how often the environment
acts; the proofs hold for any bounds (`ForeignNeverClosed` for no failed handshake). `PlayDiscipline` says
who plays: the client of a slot that is PLAYING was answered 200 to a PLAY in its present
session (`granted`), one that was answered is PLAYING when the loop goes on, and a state
becomes PLAYING in two ways only, from READY: by such a PLAY, or by the loop resuming a client
that came in PLAYING. The second way is the code's: it does not ask for the transport
(`modules/rtsp/rtsp_server.c:1476-1480`), so that it also undoes a PAUSE or SETUP over UDP. That
a PAUSE holds is therefore no part of `PlayDiscipline`; `rtsp_pause` shows that it is false.

Fairness: `WF_vars(ServerThread)`. The thread runs whenever it can: `select()` has a
timeout of one second, and the sockets' blocking calls are assumed to return. That quiet
seconds occur is not assumed: `IdleReclaimed` has them as its premise, because the
code looks for idle clients in such seconds only.

### IdrGate, RtpPayload, TlsSession, RtspModule (`RtspParts`, `MCRtspParts`, `RtspPartsProofs`)

Four parts of the RTSP module side by side, in the run `rtsp_parts`.

`IdrGate`: how a client that says PLAY joins a running stream. One slot is followed
through several sessions: `needs` is `needs_idr`, `start` is `idr_wait_start_us`, `now` the
reading of the clock that `rtsp_server_send_frame` takes before it walks the clients.
Every assignment of the PLAY handler is a step (`Play`, `Raise`, `Stamp`), and so is
every NAL unit the frame thread sends; the clock wraps, and the difference of two
readings is the unsigned one of the code. Frames are key frames with parameter sets,
parameter sets alone, or inter frames, in any order: nothing says the encoder ever
delivers a key frame. Another client only costs the frame thread time between steps, so
one slot is enough. Properties: the gate of an undisturbed session is opened by a key frame
really sent or by the timeout (`KeyOrTimeout`), and nobody waits for ever (`WaitEnds`).
Bounds: clock modulo 7 with a timeout of 2, which tells a short wait, a long one and a
wrapped difference apart; 2 sessions of 2 PLAYs and 1 control message. Fairness: the encoder
delivers (`FrameThread`), a request that was begun is finished, time passes.

`RtpPayload`: one frame of one or two NAL units on its way to one client: single
packets, FU-A (H.264) or FU (H.265), UDP or interleaved, while the server thread handles
control messages of the same client, over either transport: PLAY, PAUSE, SETUP, TEARDOWN and
others, refused or not, the end of the connection, and the loop that hides a TCP client before
the handler and resumes the client after it. All of them change in mid-frame what the frame
thread reads once per unit (the state) or at each packet (transport and socket). A NAL unit is
its size, a packet the range of bytes it carries. `FrameComplete` is the receiver's side, of a
frame no send of which failed. Whatever the server thread did, each unit arrives whole, in one
packet or in fragments chained from a start to an end without a gap, or not at all, unless
SETUP or PLAY sent part of it elsewhere (`moved`: another transport or socket, a new sequence
number and SSRC); the units are in their order, and nothing follows the marker. If the client
played all the time (`hidden` is false) and no unit is refused for its size (`MAX_SAFE_FRAME_SIZE`,
H.264), every unit arrives and the last packet has the marker. It speaks of the
positions of the packets in the stream, so that it says the same of frames and packets of any
size. For TLC there are one or two units, one control message in a frame, ten bytes behind the
RTP header and sizes around every limit they make (2, 6 to 9, 16 to 19, with 18 as the limit
for H.264): 1.5 million states. Not in it: a SETUP for the other stream, which changes the
codec as well, and what else a closed number may refer to (`MediaSockets`).

`TlsSession`: `ssl_context`, `use_tls` and `ssl_mutex` of one slot, the server thread
and the frame thread as writers with their retries, for both back ends. A thread's local
`ssl` is a variable, since it is read once and used after the mutex was given back.
`SlotTlsSound`: a session is lost to a failing write or not at all, and two writers exclude
each other unless the mutex was initialised anew while one held it. Two sessions and three
attempts.

`RtspModule`: the module's start call by call, each of which may fail, stop and cleanup, up
to three starts; the key and certificate files the mbedTLS back end writes, with power losses
between them. `NothingLeftBehind` and `PresentsPair`, both proved. That a failed start
leaves encoders receiving is excepted (`broken`).

### MediaSockets (`MCMediaSockets`, `MediaSocketsProofs`)

Which socket a media packet goes to. `kernel` again says what a number refers to; `made`
is the session the frame at hand is for and `wire` the packet that went out last, for
whom and to what. The frame thread engages a client, and then reads the slot again at
each NAL unit (`NextNal`) and at each packet, but that the function for H.264 fragments keeps
the UDP number it read for the whole unit (`cached`), and that for H.265 does not. (Over TCP
the latter sends prefix and packet in two calls, which `RtpPayload` has.) The server thread hides, deactivates,
waits, closes and clears in the order of the code, one assignment or `close` per step;
the idle sweep and a TEARDOWN whose reply is lost skip the delay. `DelayCovers` is the
assumption the code itself makes, that 10ms are longer than what is left of a send.

| run | bounds | question |
|---|---|---|
| `media_sockets` | 2 slots, 3 numbers, 2 sessions, frames of 2 NAL units in 2 fragments, 1 sweep, 1 lost reply, foreign descriptors, `DelayCovers` | slots refer to their own sockets; while all clients left in order, media reaches its own session only |

Two sessions on two slots with a third number cover reuse of a number by the same slot,
by the other one and by another thread; two NAL units and two fragments put a
disconnection before, inside and after each.

### FrameManager and FrameFeed (`MCFrameManager`, `FrameManagerProofs`)

The table of frame consumers, the frame thread and the callers. A module enters a call
(`Enter`: the checks made before the mutex) and commits it in one step, its critical
section (`Register`, `SetEnabled`, `Unregister`). The frame thread goes through the
channels, counts the consumers, polls, copies the stream (or finds no memory), learns
the stream parameters, and, holding the mutex, begins and ends one callback after the
other. The main thread starts, stops and joins it. Statistics are left out.

`FrameFeed` is what the consumers are promised: a frame reaches, in one step,
everybody subscribed to its channel at that moment. `FrameManager` implements it:
`Wants` are the masks of active entries, a frame counts as made when the mutex is taken
for it, and as delivered to all who will be called.

| run | bounds | question |
|---|---|---|
| `frame_manager` | 2 modules, 3 entries, 1 channel, 1 frame, restarts, `FairSpec` | callbacks run for registered consumers only, none after stop has returned; calls and stop return (`NobodyWaitsForEver`); `FrameFeed` is implemented |

Entries are never reused, so three entries and two modules fill the table and refuse a
registration. One channel and one frame suffice for TLC because each distribution starts
from the same place; the theorems hold for any number of both. Fairness: the frame thread
and the join are weakly fair. A module that waits for the mutex gets it (strong fairness
of `Commit`): the frame thread releases it after each frame and polls the encoder before
it takes it again, and POSIX mutexes do not starve a waiter for ever in practice; the code
itself has no queue.

### RtmpClient (`MCRtmpClient`, `RtmpClientProofs`)

The push client: the main thread (`mpc`: create, and destroy step by step), the manager
thread (`gpc`), one connection thread per target (`tpc`), and the sender (`spc`), the
thread that brings frames. `conns` is the connection list under `connections_mutex`;
`state`, `thread_running`, `socket_fd` and `avc_header_sent` are not protected by it.
Name lookup, connect, TLS, handshake and the publish commands are one attempt that
succeeds (`Publish`) or fails (`SetupFails`). `peer` records what the current session was
sent. A session may be lost at any time (`Drop`); from then on sending fails, while
`SO_ERROR` may or may not tell the watching thread.

| run | bounds | question |
|---|---|---|
| `rtmp_client` | 2 targets, one with a malformed url, 2 faults, the sender may outlast the pause between attempts, `FairSpec` | nothing freed is in use, sockets have an owner, destroy returns, dead sessions are noticed |

Two targets give a list in which one connection is destroyed while the thread of another
runs; two faults allow a failure and another one during the recovery. Fairness: threads
run, sleeps and socket calls end (the sockets have timeouts of 30 seconds), frames keep
coming; whoever waits for the mutex gets it, since the sender releases it between two
frames; strong fairness of `HeaderFails` stands for key frames, which recur. `Detect` is
not fair: a peer that closes in good order sets no error. Abstractions: a timed-out send
counts as a lost session; `close` and the assignment of -1 are one step and numbers are not
reused (what reuse does is the subject of `MediaSockets`); the sender is the only caller
besides the main thread, because cleanup runs only when the frame manager could not start.
That the sender tests `g_rtmp_client` without a lock is in the model: between the test and
the mutex, or holding the mutex of an empty list, it may find the
client freed (`UseAfterFree`, the end of the process). `FreedIsUnused` excepts exactly that: of a
freed client it says that the manager and all connection threads have ended and the sender is
at no connection.

### RtmpServer and RtmpSession (`RtmpParts`, `MCRtmpServer`, `RtmpServerProofs`)

`RtmpServer`: the accept thread (`acceptor`, `candidate`), a thread per connection
that is neither joined nor detached (`life` follows each structure from its
allocation to its release, with the three steps of `rtmp_connection_cleanup`), the frame
callback (`sender`, `todo`) and stop and destroy (`main`), on one list, its count and its
mutex. A critical section that does not block is one step; the distribution of a frame and
destroy keep the mutex over several, and destroy gives it back (`DestroyUnlocks`) before it
frees the server (`DestroyFrees`). The callback tests
`g_rtmp_server` without the mutex, so it may find the server freed on its way to the mutex or
holding it; `ListSound` says of a freed server that no thread is ahead of a section that
dereferences it and no callback has connections left to visit, and leaves that callback out.

`RtmpSession`: one publishing session between the repository's own push client and the
server, token by token: handshake, chunk size, connect, createStream, publish, frames. `up`
and `down` are the two directions of the connection; a chunk header says how many bytes
follow, a run of payload how many there are, and the lengths are those the code computes.
Two threads of the client write on the one connection. `odd` notes the writes of which the
code leaves open how they are read (two threads at once, a message longer than a chunk).
AMF values are their types and sizes. The server's `last_headers` is one static array for all
connections; with one session in the model nobody else writes it.

| run | bounds | question |
|---|---|---|
| `rtmp_server` | 2 connections with room for 1, 1 distributed frame; a session with 1 pushed frame of a whole chunk or one byte more, at time 0 or at the extended timestamp, connection lost anywhere, fair | `ListSound`: count, list and what is freed agree. `GoneIsFreed`: a connection whose peer left is freed. `SessionInOrder`: the two ends agree at every chunk on where it begins. `Delivered`: a session whose connection holds gets through |
| `rtmp_session_chunks` | 1 frame of two chunks | expected violation: the message is never assembled (section 3) |

Two connections and one place let one be refused, or accepted while the other's thread is
between its unlinking and its end. Fairness: threads run; a peer that has gone is noticed as
the end of file; `accept()` itself is not fair, clients need not come; whoever waits for the
mutex gets it (strong fairness), as it is released after every frame.

### HttpServer (`MCHttpServer`, `HttpServerProofs`)

The one thread that accepts, reads and answers (`server`, `current`), the detached MJPEG
threads (`stream`, `frames`, `errors`), the snapshot worker (`worker`, `file`), and stop
(`main`). `held` says what every descriptor number stands for, and the kernel hands out the
lowest free one. The JPEG channel is the set of threads between start and stop of a capture
(`capturing`) and whether it receives (`receiving`); no lock protects it. A request is read,
dispatched and answered, answered with an error, handed to an MJPEG thread, or found empty;
what the handlers print is left out.

| run | bounds | question |
|---|---|---|
| `http_server` | 2 clients, 3 numbers, streams of 1 frame or 1 error, fair | a stream's socket stays its own; the channel is not left receiving; a request that was sent is answered while descriptors last |

Three numbers are the listening socket and one per client, so that a snapshot file competes
with them for the last. Fairness: the server thread and the streams run; each waiting client is
eventually accepted (the kernel's queue is first in, first out: strong fairness per client);
a client that has connected sends or leaves, since the read has no timeout of its own.

### The process (`Process`, `MCProcess`, `ProcessProofs`)

Seven parts side by side, in the run `process` (and `osd_clock`, expected to fail).

`InstanceLock`: processes that open the lock file, ask for the
lock, run, are killed, or end by closing the descriptor and unlinking the path. The kernel ties
the lock to the inode, the next process finds the path. `SecondNeedsTornPath`: two run at a time
only after a path was removed while somebody had its inode open.

`ModuleSystem`: constructors that register in the order of the linker, then the list of `main`;
initialisation and start in that order, with failures; cleanup in reverse; and the route
table those starts fill. `ImagesAnswered`: whatever order and failure, the image paths are
answered by the grabber exactly when it runs, with the one exception of the code (a grabber
disabled by its configuration counts as running).

`Streamer`: `main` from the configuration to the frame manager and through the exit path,
against the thread that reloads the configuration file, both on `g_config` without a lock. Each
SDK call may fail. `EditsArrive`: an edit in a second of its own is not missed.
`RatesWithinSensor` and `NothingLeft`: only a reload that overtakes `main` (`late`) breaks the
limits of the sensor or the symmetry of the exit path.

`Osd`: contexts and regions per stream, the timer thread, the zones the motion module draws,
the teardown. The timer reads the pointer of a context three times and draws in between
(`Look`, `Peek`, `Update`, `Draw`, `Render`, `Show`), and main tears the streams down beside it
(`Unpublish`, `DestroyRegions`, `Release`), under another lock, before it stops the timer. What
the timer then finds gone ends the process (`Killed`) or is used all the same: `FontHeld`, that a
font found loaded is there until the text is drawn, is false (`OsdTeardown.cfg`, section 3).
`RefreshedUnlessTwin`: a clock whose turn it was is current unless another stream's clock shows
the same text. `CleanupSound` is about what an exit that was not killed leaves behind, however
the timer was running: no region but the clocks' and those of failed initialisations, no font,
no published context and none in use (the structure itself is lost: `osd_context_cleanup` clears
the pointer first, and frees that). `BoxesInFrame`: clocks and scaled zones lie inside the
picture. Rounding of the scale as a float is not modelled.

`Photosensing`: a poll of the control thread is one step, since nobody else writes what it
reads but the ISP's mode, which IMP control sets too. `FollowsLight`: the filter is where the
mode wants it, and the mode follows light that stays. Exceptions are the code's: a failed
switch, and a configuration whose `ircut_night_state` is not 0.

`Motion`: the IVS set-up call by call with its unwinding, the detection thread, a script that
takes any time. A result is one Boolean, the module is enabled with a script configured.
`MotionDiscipline`: scripts alternate, events begin a cooldown apart, IVS is given back, stop
returns.

`OnvifDiscovery`: the ring of message ids and the cache of clients, with a clock that may be set
forward and back at any moment. `heard` and `served` keep, for each id and client, what two more
clocks showed: one that is only ever set forward (`Fast`) and one that is only ever set back
(`Slow`). `ProbesAnswered`: a probe heard less than the window ago, with every second by which
the clock was set forward since then counted as one that passed (`Fresh`), is answered again
only if the ring overflowed, and so for the pause of a client; and a probe is left out only if it
was heard, or its client answered, less than that ago when the seconds the clock was set back are
taken off (`Recent`). So a step forward lets a retransmission be answered early, and a step back
lets probes be ignored longer, by no more than the step. An id is one of at most 127 characters (a longer one is
stored cut off and never recognised); a reply that is not sent because no address is configured
counts as answered, as in the code.

| part | bounds |
|---|---|
| lock | 3 processes, 3 inodes: a holder, one that waits on the same file, one that makes a new file |
| modules | both link orders or none, a registry of 4 that refuses one of main's modules |
| main | 2 streams, a good file, one above the sensor's rate and one that does not parse, 2 edits in different seconds |
| OSD | 2 streams, equal or different formats, positions at all corners, 2 seconds |
| light | 5 lights, 4 configurations, 2 failing calls |
| motion | 7 seconds with a cooldown of 2: three events; 1 failing call |
| discovery | a ring of 2 for 3 ids, a cache of 1 for 2 clients, a window of 2 and a pause of 1; 1 second forward and 1 back, so that a step is as long as the pause and shorter than the window |

In all parts a `sleep(1)` advances `time(NULL)`: the models let a second pass at each such round.
Fairness: the monitor, the control thread and the detection thread run when they can (they poll
and sleep with timeouts), scripts end, and `main` joins. The other parts have safety
properties only.

## 3. Where code and documents disagree

Three runs expect a violation. Each refutes a sentence of a document or a comment.

| run | what the code does | what is said |
|---|---|---|
| `rtmp_session_chunks` | `rtmp_chunk_read` clears the message it is given, and with it what the caller kept of a partial one, so a message longer than a chunk is never complete, `modules/rtmp_server/rtmp_server.c:942` | `docs/RTMP_TECHNICAL.md:112`: "Partial message assembly across multiple chunks" |
| `rtsp_pause` | the loop puts every client that came in PLAYING and is READY after the handler back to PLAYING, over UDP too, so a PAUSE that was answered 200 is undone, `modules/rtsp/rtsp_server.c:1478` | `docs/RTSP_CLIENTS.md:40`: "Pause: Client sends RTSP PAUSE command to server", `:42`: "Server stops/starts streaming" |
| `osd_clock` | two streams with the same time format share one cached text, and the second clock is not redrawn, `modules/osd/osd_module.c:2031` | `:2259`: "updates timestamps every second" |

Further properties that a document or a comment suggests are violated; the runs state them
with a condition or leave them out. They can be checked by hand, with the configuration
named, or, where the configuration is that of a run, with the property in the place of
those it lists:

| configuration | module | property | what it shows |
|---|---|---|---|
| `RtspServerTeardown.cfg` | `MCRtspServer` | `AtMostMaxClients` | a TEARDOWN whose reply fails leaves the count one too low (`rtsp_server.c:2216`, `:1490`), so that `docs/RTSP_SERVER.md:95` "Maximum concurrent clients" is exceeded |
| `RtspParts.cfg` | `MCRtspParts` | `TimeoutIsReal` | the wait is an unsigned difference of two threads' clock readings and may look very long at once (`rtsp_server.c:833`; `:832` speaks of more than 5 seconds) |
| `RtspParts.cfg` | `MCRtspParts` | `InvalidNotUsed` | a session marked invalid (`rtsp_server.c:3324`) is still used by a thread that had read it before |
| `MediaSocketsSweep.cfg` | `MCMediaSockets` | `OwnMediaOnly` | the idle sweep closes the sockets of a client that is active and PLAYING (`rtsp_server.c:1307`; `:1485` marks it inactive first) |
| `RtmpClientReconnects.cfg` | `MCRtmpClient` | `Reconnects` | a connection whose first messages fail ends its thread and is never replaced (`rtmp_client.c:2742`; `docs/RTMP_CLIENT.md:39` "Automatic retry") |
| `RtmpClientHeader.cfg` | `MCRtmpClient` | `HeaderFirst` | the flag that the header was sent survives reconnection (`rtmp_client.c:1083`; `docs/RTMP_FLOW.md:33`) |
| `RtmpServerStop.cfg` | `MCRtmpServer` | `StopEnds` | stop does not end: the accept thread stays in `accept()`, or destroy locks the mutex it holds (`rtmp_server.c:433`) |
| `HttpServerClosing.cfg` | `MCHttpServer` | `AnsweredIsClosed` | the socket of an answered request stays open (`modules/http/http_module.c:647`; `:803` sends "Connection: close") |
| `OsdTeardown.cfg` | `MCProcess` | `FontHeld` | main frees the font of a stream while the timer thread, stopped only later, may be drawing with it (`modules/osd/osd_module.c:1586`, `:494`, `:947`; `docs/MODULAR_SYSTEM.md:632` "Init → Start → Stop → Cleanup works correctly") |
| `Process.cfg` | `MCProcess` | `OneInstance` | the lock file is closed before its path is removed (`main.c:93-95`), so two later instances can hold locks on two files |
| `Process.cfg` | `MCProcess` | `AlwaysReturns` | after a day switch that the ISP refused the camera stays in night mode (`photosensing_module.c:631`) |

Not a property of any module: `docs/MOTION_DETECTION.md` says the wait for a script has a
timeout of 100ms, while `waitpid` blocks (`motion_module.c:361-406`); the model's scripts
take any time.

## 4. What is proved

Eight proof modules, for every value of the constants (with the assumptions named `...Assumption`
in the modules, which TLC evaluates on every run). "Run" names the run that checks the same
property on a small instance.

| module | theorem | property | run |
|---|---|---|---|
| `RtspServerProofs` | `TypeCorrect` | `TypeOK` | |
| | `SocketsOwned` | `OwnSockets`, `ForeignIntact` | `rtsp_server` |
| | `CountIsExact` | `CountExact` | `rtsp_server` |
| | `CapacityIsKept` | `CapacityNeverLost` | `rtsp_server_live` |
| | `AdmittedHasRoom` | `RoomWhenAdmitted` | |
| | `ForeignNeverClosed` | `NoForeignClose` | |
| | `PlaysAreDisciplined` | `PlayDiscipline` | `rtsp_server` |
| | `DestroyClosesAll` | `DestroyClosesSessions` | `rtsp_server` |
| `MediaSocketsProofs` | `TypeCorrect`, `SlotsOwned` | `SlotsOwnSockets` | `media_sockets` |
| | `MediaReachesOwner` | `OrderlyMediaOnly` | `media_sockets` |
| | `SlotKeptWhileSending` | `NoReuseWhileSending` | |
| `FrameManagerProofs` | `TypeCorrect`, `IdsStayValid`, `StreamsGivenBack` | | |
| | `CallbacksOfRegistered` | `CallbackRegistered` | `frame_manager` |
| | `StopMeansStopped` | `StoppedMeansStopped` | `frame_manager` |
| | `FeedImplemented` | `ImplementsFeed` | `frame_manager` |
| `RtmpClientProofs` | `TypeCorrect` | | |
| | `NothingFreedInUse` | `FreedIsUnused` | `rtmp_client` |
| | `NoSocketLost` | `SocketsAccounted` | `rtmp_client` |
| `RtmpServerProofs` | `RtmpServerTypes` | `TypeOK` | |
| | `ListStaysSound` | `ListSound` | `rtmp_server` |
| | `SessionStaysInOrder` | `SessionInOrder` | `rtmp_server` |
| `HttpServerProofs` | `StreamsKeepTheirSockets` | `StreamsKeepSockets` | `http_server` |
| | `ChannelLeftQuiet` | `QuietAfterCaptures` | `http_server` |
| `RtspPartsProofs` | `FailedStartsLeaveNothing` | `NothingLeftBehind` | `rtsp_parts` |
| | `ServerPresentsPair` | `PresentsPair` | `rtsp_parts` |
| | `KeyOpensGate` | `KeyOrTimeout` | `rtsp_parts` |
| | `TlsSessionsOwned` | `SlotTlsSound` | `rtsp_parts` |
| | `FramesArriveWhole` | `FrameComplete` | `rtsp_parts` |
| `ProcessProofs` | `SecondInstanceNeedsTornPath` | `SecondNeedsTornPath` | `process` |
| | `GrabberAnswersItsPaths` | `ImagesAnswered` | `process` |
| | `RatesStayWithinSensor` | `RatesWithinSensor` | `process` |
| | `ExitLeavesNothing` | `NothingLeft` | `process` |
| | `CleanupStaysSound` | `CleanupSound` | `process` |
| | `ClocksRefreshed` | `RefreshedUnlessTwin` | `process` |
| | `BoxesLieInFrame` | `BoxesInFrame` | `process` |
| | `FilterStaysInPlace` | `FilterInPlace`, the safety part of `FollowsLight` | `process` |
| | `MotionStaysSafe` | `ScriptsPaired`, `EventsSpaced`, `NothingHeld`, the safety part of `MotionDiscipline` | `process` |
| | `ProbesStayAnswered` | `ProbesAnswered` | `process` |

Each proof has the same layout: an inductive invariant holds initially, one lemma per group of
actions (or per part of the invariant) shows that it is kept, with one step per action, and
the temporal step joins them. The invariants, and why the goals alone are not inductive:

* `RtspServer`: `SocketInv` adds to `OwnSockets` that the descriptors of other threads are
  theirs, since a cleanup must not free what another slot or thread refers to. `CountInv`
  has to say what `count` is inside the two windows in which a slot is half closed. Both hold
  until the first fault: a failed handshake leaves a closed number in a slot, and a lost
  TEARDOWN reply counts a client out twice (`RtspServerTeardown.cfg`), so `SocketsOwned` and
  `DestroyClosesAll` have `badHandshakes = 0` as their premise and `CountIsExact` has `Faultless`;
  `ForeignNeverClosed` and `AdmittedHasRoom` say the same of actions and of the accept path.
  `TypeCorrect`, `PlaysAreDisciplined` and `CapacityIsKept` hold with every fault. `PlayInv` adds
  to the discipline that a PLAY is on record only until the slots are given to new clients, and
  that the client the loop will resume had its PLAY granted before.  For the last one
  the sockets are of no help, as two slots may hold the same number and another thread a third
  copy of it. `SpareInv` counts instead: `Refs` are all references of slots and threads to
  numbers, and those beyond one for each open number are to spare; there are at most as many to
  spare as the count is too low. A failed handshake adds one and an uncounted slot; a release
  closes a number under somebody else's reference at most as often as it gives one up that
  was to spare (`ToSpare`, an injection); and a slot that `select` failing takes out of use
  without counting it out held one.
* `MediaSockets`: no two slots hold the same session (`SessionsDistinct`), so closing what
  one slot owns takes nothing from another. Under `DelayCovers`, as long as all clients left in
  order, a client that is leaving can no longer be engaged (`Leaving`), the delay has let the
  frame under way end before a socket is closed (`Clear`), and so the client being sent to
  keeps its slot (`Kept`, `Same`) and the number in `cached` its socket (`OwnCached`).
* `FrameManager`: `TableInv` relates the ids the modules hold, the entries and the calls in
  progress, and says who holds the mutex at which place; `DeliveryInv`, for the refinement,
  that while a frame is handed out exactly the active consumers below the loop index have it.
* `RtmpClient`: the main thread's place fixes the flag and the thread of the connection it
  destroys; a thread that runs belongs to a connection in the list; the sender's remaining
  connections are in the list while it holds the mutex. What is proved of the freed client leaves
  out a sender at the mutex of it, as the property does.
* `RtmpServer`: `ServerInv` says that the count is the list's (`ListExact`), who holds the mutex
  where (`MutexSound`), what the accept thread may still do with its candidate
  (`CandidateSound`), and that the server is freed after the
  accept thread has left and the list is empty (`FreedLast`). A callback that tested the pointer
  before is left out, as in the property.
* `HttpServer`: `HttpInv` ties every socket to its number in `held` (`SocketsOwn`,
  `NumbersTrue`) and says which client the server thread has in hand (`CurrentSound`): only then
  does "nobody else closes it" follow. The lowest free number is a predicate, `LowestFree`.
* `RtspModule`: `HeldInv` says at which places of a start there is a server, and that what is
  held is within what destroy releases; `EncoderInv` that, as long as no start failed, encoders
  that receive have a `stream_info`, so that stop reaches them; `PairInv` that two usable files
  belong together and the certificate is missing while a pair is being made.
* `IdrGate`: `GateInv` says of a first PLAY, at each place of its handler, that the gate is
  still shut, or a key frame or the timeout has opened it, and that a frame under way that
  will clear the gate is a key frame whose parameter sets may be on the wire already.
* `TlsSession`: `TlsInv` ties the places of the two threads to the slot's session
  (`SessionsOwned`: who may still free it), `MutexInv` says that the thread that writes holds
  the mutex as long as that mutex is the one it locked.
* `RtpPayload`: `PayloadInv` adds to the property what is true of a frame still under way:
  units behind the one at hand are assembled or were not sent at all, and all were sent while
  nothing disturbed them (`PayloadProgress`), the packets of the unit at hand are chained up to
  the byte reached and none is marked as the end (`UnitProgress`), a unit in fragments has bytes
  left (`PayloadTypes`), and a client that was never hidden plays (`NeverHidden`). The lemma `LastAdded` says what one more packet changes.
* `RtmpSession`: `SessionInv` describes the whole stream under way, since a chunk says how long
  it is only in a header that was written before: the parts of the handshake come first
  (`PartsFirst`), then connect (`FirstIsConnect`), then messages of one header and its data,
  of the lengths of their kind (`EndsAgree`); and no command is under way any more when the
  server takes the smaller chunk size (`SizeAfterCommands`), for the client writes commands in
  one piece whatever the size.
* `InstanceLock`: `LockInv` says that at most one process holds the lock of an inode, that
  a running process holds it, and, while no path was torn, that every open inode is the path's.
* `ModuleSystem`: `GrabberInv` says who owns the image paths for each combination of the two
  modules' states in the middle of the starts, in either order; `RoutesInv` that nothing serves
  before it was started and that a server has a router.
* `Streamer`: `RatesInv` holds the rate within the sensor's limits from its adjustment until a
  reload comes late. `SdkInv` says which of the acquisitions belong to channels that are
  enabled, and `LeftInv` what each stage of the exit has left to those after it.
* `Osd`: `ContextInv` relates the published contexts to the loop index of main and to what the
  timer is looking at or drawing on; `RegionsInv` says of each region that it is a clock, one of a
  failed initialisation, or still reached by the teardown, and so of each font and each context in
  use, unless the process was killed. `ClockInv` says whose text the cache holds
  in the middle of a round: the cached second is current only if some stream left its text in
  it. `BoxInv` places every box in its picture, by arithmetic on the scaled coordinates.
* `Motion`: `TimesInv` relates the start and the last motion of an event to the time read last,
  from which the spacing follows however long a script takes.
* `OnvifDiscovery`: `RingInv` and `CacheInv` count: an id or client heard within its window is
  in the table unless as many younger ones as the table holds came after it. The sets of
  younger ones are nested by age, so that the oldest entry is the one overwritten. What the
  clock in use makes of an entry's age lies between what the clock set only back and the one
  set only forward make of it.

Assumptions on the constants, and what the code says of them:

* `RtpPayload`: a packet has room for more than 4 bytes (the code's 1188 are
  `MAX_RTP_PACKET_SIZE` less the header) and NAL units are not empty (`nal_sizes[i] > 0`).
* `RtmpSession`: the lengths of the strings are bounded by the client's buffers, the configured
  chunk size by 128 and 65536 (`modules/rtmp_client/rtmp_client.c:351`), frames are not empty.
* `Streamer`: streams are numbered from 0, and a file may name any number as its rate.
* `Osd`: pictures and rendered texts have a size (texts are padded); zones are what
  `motion_module_config_validate` lets through. `BoxesInFrame` has as its premise that a
  displayed zone lies within 1920x1080, from non-negative positions.
* `IdrGate`: the clock wraps later than one tick after the timeout (2^64us and 5s).
* `OnvifDiscovery`: both tables have room for at least one entry.

## 5. What is only model-checked, and what is not modelled

Every invariant the runs check is stated by a theorem. What stays with TLC:

* Liveness, since fairness and ENABLED are out of the prover's reach: `ClientsReclaimed`,
  `NobodyWaitsForEver`, `DestroyReturns`, `DeadNoticed`, `GoneIsFreed`, `Delivered`,
  `RequestsAnswered`, `WaitEnds`, `EditsArrive`, and of `FollowsLight` and `MotionDiscipline`
  all but the parts named in the table.
* The rounding of the zones' scale: both model and proof have exact integer division, the code
  has floats.

The expected violations are counterexamples and need no proof. The type invariants are in no
run, except where a proof has them; they hold when `ProcessTypeOK`, `PartsTypeOK`,
`SessionTypeOK` or `TypeOK` is named as the INVARIANT of `Process.cfg`, `RtspParts.cfg`,
`RtmpServer.cfg` or `HttpServer.cfg`.

Not modelled, and why:

* `auth_utils.c`: Base64 and comparisons, pure functions on strings. The static buffer
  that `extract_auth_header` returns is used by two threads (`:315`); a model of it would
  say no more than that it is static.
* `metrics`: counters and a history that only the metrics page prints; nothing decides by
  them.
* `audio`: one loop that captures and encodes, with no consumer for what it encodes.
* `onvif_services.c`: SOAP replies printed from templates, without state.
* `imp_control`: setters that check a range and pass the value to the vendor's ISP; only
  the running mode interferes with other code and is in `Photosensing`.
* Snapshot consumer, `module_stop_all`, the module system's RTSP hooks, `get_frame` in
  `common.c`, the OSD's updates of information and logo: nobody calls them.
* Text parsing and formatting (RTSP headers, SDP, HTTP, SOAP, JSON, AMF values beyond
  their sizes), rendering of text, upload of files, the TLS libraries, the vendor SDK behind
  `hal/`, C library shims, logging and statistics. Where such code decides something (a
  request parses, a handshake fails, the encoder has a frame) the outcome is a
  nondeterministic choice.

## 6. Plan

Done: every component on the media path and the control loops. What would add most now:

1. The type invariants of the parts that have none proved (`PartsTypeOK`, `ProcessTypeOK`,
   `SessionTypeOK`), and the safety parts of the liveness properties: `EditsArrive` and
   `RequestsAnswered` rest on facts about what is not missed or lost.
2. A composition of `FrameManager` with `RtspServer` and `RtmpClient` as consumers, so that
   a callback that blocks in a send delays the other consumer.
3. `RtmpSession` over several frames and with the server's own distribution of frames.
4. The HTTP parser's treatment of partial reads, and the image-grab page as one more user
   of the JPEG channel.
5. Metrics and audio, once something in the program reads what they produce.
