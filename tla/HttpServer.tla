------------------------------ MODULE HttpServer ------------------------------
(* The HTTP server (src/modules/http/http_module.c): one thread that accepts,  *)
(* reads and answers one request at a time, the detached threads of MJPEG      *)
(* streams, and the snapshot worker (src/snapshot_fallback.c), which captures  *)
(* from the same JPEG encoder channel.  Descriptors are numbers the kernel     *)
(* hands out again: a number somebody closes may belong to somebody else.      *)
EXTENDS Naturals, FiniteSets

CONSTANTS Clients,   \* peers, each of which connects once
          Fds,       \* descriptor numbers left to the process
          MaxFrames, \* frames after which a stream ends (3000)
          MaxErrors  \* failed captures in a row after which it ends (5)

NoFd == 0
Free == "free"

ASSUME FdsAssumption     == Fds \subseteq Nat \ {NoFd}
ASSUME ClientsAssumption == Clients \cap {Free, "listen", "file"} = {}

VARIABLES server,      \* where the server thread is
          current,     \* the client it serves (none or one)
          running,     \* g_http_module_state.running and http_server_running
          exit,        \* thread_should_exit
          listening,   \* g_http_module_state.server_socket, NoFd for -1
          main,        \* where http_module_stop is
          held,        \* what each descriptor number stands for
          peer,        \* what each client does
          socket,      \* the descriptor of its connection, NoFd before and after
          stream,      \* the MJPEG thread that serves it
          frames, errors, \* frame_count and consecutive_errors of that thread
          worker,      \* where the snapshot worker is
          file,        \* descriptor of the file it writes, or NoFd
          capturing,   \* the threads between start and stop of a capture
          receiving    \* the JPEG channel receives pictures

serverVars == <<server, current, running, exit, listening, main>>
peerVars   == <<peer, socket>>
streamVars == <<stream, frames, errors>>
workVars   == <<worker, file>>
jpegVars   == <<capturing, receiving>>
vars == <<serverVars, held, peerVars, streamVars, workVars, jpegVars>>

TypeOK ==
  /\ server \in {"off", "open", "loop", "accept", "read", "dispatch", "capture", "exited"}
  /\ current \subseteq Clients /\ Cardinality(current) <= 1
  /\ running \in BOOLEAN /\ exit \in BOOLEAN
  /\ listening \in Fds \cup {NoFd} /\ main \in {"idle", "closing", "joining", "stopped"}
  /\ held \in [Fds -> {Free, "listen", "file"} \cup Clients]
  /\ peer \in [Clients -> {"away", "connected", "sent", "answered", "left"}]
  /\ socket \in [Clients -> Fds \cup {NoFd}]
  /\ stream \in [Clients -> {"none", "begin", "loop", "capture", "send", "end", "over"}]
  /\ frames \in [Clients -> 0..MaxFrames] /\ errors \in [Clients -> 0..MaxErrors]
  /\ worker \in {"idle", "capture", "write"} /\ file \in Fds \cup {NoFd}
  /\ capturing \subseteq Clients \cup {"server", "worker"} /\ receiving \in BOOLEAN

Init ==
  /\ server = "off" /\ current = {} /\ running = FALSE /\ exit = FALSE
  /\ listening = NoFd /\ main = "idle" /\ held = [f \in Fds |-> Free]
  /\ peer = [c \in Clients |-> "away"] /\ socket = [c \in Clients |-> NoFd]
  /\ stream = [c \in Clients |-> "none"]
  /\ frames = [c \in Clients |-> 0] /\ errors = [c \in Clients |-> 0]
  /\ worker = "idle" /\ file = NoFd /\ capturing = {} /\ receiving = FALSE

FreeFds == {f \in Fds : held[f] = Free}

\* the kernel hands out the lowest number
LowestFree(f) == f \in FreeFds /\ \A g \in FreeFds : f <= g

\* close(fd): closing -1 does nothing
Closed(f) == [h \in Fds |-> IF h = f THEN Free ELSE held[h]]

-----------------------------------------------------------------------------
(* The peers.                                                               *)

Connect(c) ==
  /\ peer[c] = "away" /\ listening # NoFd /\ peer' = [peer EXCEPT ![c] = "connected"]
  /\ UNCHANGED <<serverVars, held, socket, streamVars, workVars, jpegVars>>

\* the whole request, body included, has arrived
Send(c) ==
  /\ peer[c] = "connected" /\ peer' = [peer EXCEPT ![c] = "sent"]
  /\ UNCHANGED <<serverVars, held, socket, streamVars, workVars, jpegVars>>

\* once it is answered and no thread streams to it nobody looks at it again
Leave(c) ==
  /\ peer[c] \in {"connected", "sent"} \/ (peer[c] = "answered" /\ stream[c] \notin {"none", "over"})
  /\ peer' = [peer EXCEPT ![c] = "left"]
  /\ UNCHANGED <<serverVars, held, socket, streamVars, workVars, jpegVars>>

Replied(c) == peer' = [peer EXCEPT ![c] = IF @ = "sent" THEN "answered" ELSE @]

-----------------------------------------------------------------------------
(* Start and stop.                                                          *)

\* http_module_start: running is set whatever becomes of the thread
Start ==
  /\ main = "idle" /\ server = "off" /\ server' = "open" /\ running' = TRUE
  /\ UNCHANGED <<current, exit, listening, main, held, peerVars, streamVars, workVars, jpegVars>>

\* http_module_stop raises the flag ...
StopFlag ==
  /\ main = "idle" /\ running /\ exit' = TRUE /\ main' = "closing"
  /\ UNCHANGED <<server, current, running, listening, held, peerVars, streamVars, workVars, jpegVars>>

\* ... closes the number the thread stored, whatever that stands for by now ...
StopClose ==
  /\ main = "closing" /\ main' = "joining"
  /\ held' = Closed(listening) /\ listening' = NoFd
  /\ UNCHANGED <<server, current, running, exit, peerVars, streamVars, workVars, jpegVars>>

\* ... and joins; close() does not wake a thread that is blocked in accept()
StopJoin ==
  /\ main = "joining" /\ server = "exited" /\ main' = "stopped" /\ running' = FALSE
  /\ UNCHANGED <<server, current, exit, listening, held, peerVars, streamVars, workVars, jpegVars>>

-----------------------------------------------------------------------------
(* The server thread.                                                       *)

\* socket(), bind() and listen(): the thread ends when one of them fails, and
\* after a failed bind or listen the number it closed stays in server_socket
Open ==
  /\ server = "open"
  /\ \/ \E f \in Fds : /\ LowestFree(f) /\ listening' = f
                        /\ \/ held' = [held EXCEPT ![f] = "listen"] /\ server' = "loop"
                           \/ server' = "exited" /\ UNCHANGED held
     \/ FreeFds = {} /\ listening' = NoFd /\ server' = "exited" /\ UNCHANGED held
  /\ UNCHANGED <<current, running, exit, main, peerVars, streamVars, workVars, jpegVars>>

\* while (!thread_should_exit); at the end the stored number is closed
Loop ==
  /\ server = "loop"
  /\ IF exit THEN server' = "exited" /\ held' = Closed(listening)
     ELSE server' = "accept" /\ UNCHANGED held
  /\ UNCHANGED <<current, running, exit, listening, main, peerVars, streamVars, workVars, jpegVars>>

Waiting == {c \in Clients : peer[c] \in {"connected", "sent", "left"}
                            /\ socket[c] = NoFd /\ stream[c] = "none"}

Accept ==
  /\ server = "accept"
  /\ \E c \in Waiting, f \in Fds :
       /\ LowestFree(f)
       /\ current' = {c} /\ socket' = [socket EXCEPT ![c] = f]
       /\ held' = [held EXCEPT ![f] = c]
  /\ server' = "read"
  /\ UNCHANGED <<running, exit, listening, main, peer, streamVars, workVars, jpegVars>>

\* accept() on a closed descriptor, or with no descriptor left
AcceptFails ==
  /\ server = "accept" /\ (listening = NoFd \/ (Waiting # {} /\ FreeFds = {}))
  /\ server' = "loop"
  /\ UNCHANGED <<current, running, exit, listening, main, held, peerVars, streamVars, workVars, jpegVars>>

Hangup(c) ==
  /\ held' = Closed(socket[c]) /\ socket' = [socket EXCEPT ![c] = NoFd]
  /\ server' = "loop" /\ current' = {}

\* recv() returns nothing, or getpeername() fails: a peer that left
ReadFails(c) ==
  /\ server = "read" /\ current = {c} /\ peer[c] = "left"
  /\ Hangup(c)
  /\ UNCHANGED <<running, exit, listening, main, peer, streamVars, workVars, jpegVars>>

\* recv() blocks without a time limit until the request is there; the request
\* of a peer that has left may have been read before
Read(c) ==
  /\ server = "read" /\ current = {c} /\ peer[c] \in {"sent", "left"}
  /\ server' = "dispatch"
  /\ UNCHANGED <<current, running, exit, listening, main, held, peerVars, streamVars,
                 workVars, jpegVars>>

\* The descriptor of an answered request stays open.  The mutant closes it
\* behind every dispatch.
ClosesBehind(c) == Closed(socket[c])
AfterDispatch(c) == held

Done(c) ==
  /\ server' = "loop" /\ current' = {} /\ held' = AfterDispatch(c)
  /\ UNCHANGED <<running, exit, listening, main>>

\* A request that only takes a reply; what it says is not modelled.
ReplyOnly(c) ==
  /\ server = "dispatch" /\ current = {c}
  /\ Replied(c) /\ Done(c)
  /\ UNCHANGED <<socket, streamVars, workVars, jpegVars>>

\* 401, 403 or 500, before the router sees the request; 404 after it looked
Refused(c)  == ReplyOnly(c)
NotFound(c) == ReplyOnly(c)
\* the documents made on the spot, and the disabled H.264 streams
Overview(c) == ReplyOnly(c)
Json(c)     == ReplyOnly(c)
Mp4(c)      == ReplyOnly(c)
\* /test.jpg opens, reads and closes a file, or answers 404
TestFile(c) == ReplyOnly(c)

\* handle_mjpeg_stream: the channel is off or the thread cannot be made ...
StreamRefused(c) == ReplyOnly(c)

\* ... or the socket is handed to the thread
StreamBegins(c) ==
  /\ server = "dispatch" /\ current = {c}
  /\ stream' = [stream EXCEPT ![c] = "begin"] /\ Done(c)
  /\ UNCHANGED <<peerVars, frames, errors, workVars, jpegVars>>

\* The three steps of every capture; starting may fail, and what the poll
\* finds depends on the encoder and on the other users of the channel.
CaptureStarts(u) == capturing' = capturing \cup {u} /\ receiving' = TRUE
CaptureStops(u)  == capturing' = capturing \ {u} /\ receiving' = FALSE

\* the mutant: an error return that forgets hal_enc_stop
CaptureForgets(u) == capturing' = capturing \ {u} /\ UNCHANGED receiving
CaptureFails(u) == CaptureStops(u)

Snapshot(c) ==
  /\ server = "dispatch" /\ current = {c}
  /\ CaptureStarts("server") /\ server' = "capture"
  /\ UNCHANGED <<current, running, exit, listening, main, held, peerVars, streamVars, workVars>>

\* a channel that is off or does not start
SnapshotRefused(c) == ReplyOnly(c)

\* the mutant sends nothing when the capture fails
Silent(c) == UNCHANGED peer
ErrorReply(c) == Replied(c)

\* the image, or 500 after a timeout: the poll is limited
SnapshotEnds(c) ==
  /\ server = "capture" /\ current = {c}
  /\ \/ CaptureStops("server") /\ Replied(c)
     \/ CaptureFails("server") /\ ErrorReply(c)
  /\ Done(c)
  /\ UNCHANGED <<socket, streamVars, workVars>>

-----------------------------------------------------------------------------
(* mjpeg_stream_thread.                                                     *)

Moves(c, from, to) ==
  /\ stream[c] = from /\ stream' = [stream EXCEPT ![c] = to]

\* the header is sent, or cannot be
StreamHeader(c) ==
  /\ \/ Moves(c, "begin", "loop") /\ Replied(c)
     \/ Moves(c, "begin", "end") /\ peer[c] = "left" /\ UNCHANGED peer
  /\ UNCHANGED <<serverVars, held, socket, frames, errors, workVars, jpegVars>>

MayContinue(c) == running /\ frames[c] < MaxFrames /\ errors[c] < MaxErrors

StreamLoop(c) ==
  /\ IF MayContinue(c) THEN Moves(c, "loop", "capture") /\ CaptureStarts(c)
     ELSE Moves(c, "loop", "end") /\ UNCHANGED jpegVars
  /\ UNCHANGED <<serverVars, held, peerVars, frames, errors, workVars>>

CountedError(c) == [errors EXCEPT ![c] = @ + 1]

\* a capture that does not start, or fails
StreamNoFrame(c) ==
  /\ \/ Moves(c, "capture", "loop") /\ CaptureFails(c)
     \/ MayContinue(c) /\ Moves(c, "loop", "loop") /\ UNCHANGED jpegVars
  /\ errors' = CountedError(c)
  /\ UNCHANGED <<serverVars, held, peerVars, frames, workVars>>

StreamFrame(c) ==
  /\ Moves(c, "capture", "send") /\ CaptureStops(c)
  /\ errors' = [errors EXCEPT ![c] = 0]
  /\ UNCHANGED <<serverVars, held, peerVars, frames, workVars>>

\* header, data and separator; a send that fails ends the stream
StreamSends(c) ==
  /\ \/ Moves(c, "send", "loop") /\ frames' = [frames EXCEPT ![c] = @ + 1]
     \/ Moves(c, "send", "end") /\ peer[c] = "left" /\ UNCHANGED frames
  /\ UNCHANGED <<serverVars, held, peerVars, errors, workVars, jpegVars>>

StreamCloses(c) ==
  /\ Moves(c, "end", "over")
  /\ held' = Closed(socket[c]) /\ socket' = [socket EXCEPT ![c] = NoFd]
  /\ UNCHANGED <<serverVars, peer, frames, errors, workVars, jpegVars>>

-----------------------------------------------------------------------------
(* The snapshot worker, which runs beside the HTTP server in every build.   *)

WorkerStarts ==
  /\ worker = "idle" /\ worker' = "capture" /\ CaptureStarts("worker")
  /\ UNCHANGED <<serverVars, held, peerVars, streamVars, file>>

WorkerFails ==
  /\ worker = "capture" /\ worker' = "idle" /\ CaptureFails("worker")
  /\ UNCHANGED <<serverVars, held, peerVars, streamVars, file>>

WorkerOpens ==
  /\ worker = "capture" /\ worker' = "write"
  /\ \E f \in Fds : LowestFree(f) /\ file' = f /\ held' = [held EXCEPT ![f] = "file"]
  /\ UNCHANGED <<serverVars, peerVars, streamVars, jpegVars>>

WorkerEnds ==
  /\ worker = "write" /\ worker' = "idle" /\ CaptureStops("worker")
  /\ held' = Closed(file) /\ file' = NoFd
  /\ UNCHANGED <<serverVars, peerVars, streamVars>>

-----------------------------------------------------------------------------

ServerStep == Open \/ Loop \/ Accept \/ AcceptFails
              \/ \E c \in Clients : \/ ReadFails(c) \/ Read(c) \/ Refused(c) \/ NotFound(c)
                                    \/ Overview(c) \/ Json(c) \/ Mp4(c) \/ TestFile(c)
                                    \/ StreamRefused(c) \/ StreamBegins(c)
                                    \/ Snapshot(c) \/ SnapshotRefused(c) \/ SnapshotEnds(c)

StreamStep(c) == \/ StreamHeader(c) \/ StreamLoop(c) \/ StreamNoFrame(c)
                 \/ StreamFrame(c) \/ StreamSends(c) \/ StreamCloses(c)

Next ==
  \/ \E c \in Clients : Connect(c) \/ Send(c) \/ Leave(c) \/ StreamStep(c)
  \/ Start \/ StopFlag \/ StopClose \/ StopJoin
  \/ ServerStep
  \/ WorkerStarts \/ WorkerFails \/ WorkerOpens \/ WorkerEnds

Spec == Init /\ [][Next]_vars

(* Every thread is scheduled, every capture has a time limit, the kernel hands *)
(* out connections in the order they came, and a client that is being read     *)
(* sends its request or goes away: without that recv() holds the only server   *)
(* thread for good.                                                            *)
FairSpec ==
  /\ Spec /\ WF_vars(ServerStep)
  /\ \A c \in Clients : /\ SF_vars(Accept /\ current' = {c})
                        /\ WF_vars(StreamStep(c))
                        /\ WF_vars((Send(c) \/ Leave(c)) /\ peer[c] = "connected")
  /\ WF_vars(WorkerFails \/ WorkerOpens \/ WorkerEnds)

-----------------------------------------------------------------------------
(* Properties.                                                              *)

(* The socket of an MJPEG client is open, and stands for that client, until   *)
(* the thread that streams to it closes it (http_module.c:1270): nothing else *)
(* closes it, so the thread never writes into or closes a descriptor that was *)
(* handed to somebody else.                                                   *)
StreamsKeepSockets ==
  \A c \in Clients : stream[c] \in {"begin", "loop", "capture", "send", "end"}
                       => socket[c] # NoFd /\ held[socket[c]] = c

(* Snapshots, streams and the worker start and stop one JPEG channel without  *)
(* a lock between them; whatever order they fall in, the channel is not left  *)
(* receiving pictures when the last of them is through.                       *)
QuietAfterCaptures == capturing = {} => ~receiving

(* While descriptors last and nobody stops the server, a client that has sent *)
(* its request is answered, though streams run and other clients came first.  *)
RequestsAnswered ==
  \A c \in Clients : (peer[c] = "sent")
                       ~> (peer[c] \in {"answered", "left"} \/ exit \/ FreeFds = {}
                           \/ listening = NoFd \/ server = "exited")

(* http_module.c:803: every answer announces "Connection: close", so the      *)
(* connection of an answered request is closed.                               *)
AnsweredIsClosed ==
  \A c \in Clients : (peer[c] = "answered" /\ stream[c] = "none") ~> (socket[c] = NoFd)
=============================================================================
