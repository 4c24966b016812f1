--------------------------- MODULE HttpServerProofs ---------------------------
(* That no thread of the HTTP server writes into, or closes, a descriptor that *)
(* has been handed to somebody else, and that the JPEG channel is left alone   *)
(* once nobody captures from it, for any number of clients and descriptors.    *)
EXTENDS HttpServer, TLAPS

(* The parts of the type invariant that the proofs need.                      *)
Typed ==
  /\ listening \in Fds \cup {NoFd} /\ file \in Fds \cup {NoFd}
  /\ held \in [Fds -> {Free, "listen", "file"} \cup Clients]
  /\ socket \in [Clients -> Fds \cup {NoFd}]
  /\ stream \in [Clients -> {"none", "begin", "loop", "capture", "send", "end", "over"}]

(* A descriptor a client has stands for it.  While the server thread may still *)
(* accept, the two other numbers that are remembered stand for what they were  *)
(* opened for, so that they are not handed to a client; afterwards either may  *)
(* be stale, but is no client's.                                              *)
SocketsOwn == \A c \in Clients : socket[c] # NoFd => held[socket[c]] = c
NumbersTrue ==
  /\ listening # NoFd => held[listening] \notin Clients
  /\ file # NoFd => held[file] \notin Clients
  /\ server # "exited" => /\ listening # NoFd => held[listening] = "listen"
                          /\ file # NoFd => held[file] = "file"

Streaming == {"begin", "loop", "capture", "send", "end"}

(* The client that is served has a descriptor, and no thread yet.             *)
CurrentSound ==
  /\ server \in {"off", "open"} => listening = NoFd
  /\ server \in {"read", "dispatch", "capture"} =>
       \E c \in Clients : current = {c} /\ socket[c] # NoFd /\ stream[c] = "none"
  /\ \A c \in Clients : stream[c] \in Streaming => socket[c] # NoFd

HttpInv == Typed /\ SocketsOwn /\ NumbersTrue /\ CurrentSound

-----------------------------------------------------------------------------
(* The sockets.                                                               *)

LEMMA HttpInitially == Init => HttpInv
BY FdsAssumption
DEF Init, HttpInv, Typed, SocketsOwn, NumbersTrue, CurrentSound, Streaming, Free

(* What only a reply changes is not the sockets' business.                    *)
Quiet == UNCHANGED <<held, socket, stream, listening, file>>

LEMMA QuietKeeps ==
  ASSUME HttpInv, Quiet, UNCHANGED <<server, current>>
  PROVE  HttpInv'
BY DEF HttpInv, Typed, SocketsOwn, NumbersTrue, CurrentSound, Quiet

LEMMA BackToLoop ==
  ASSUME HttpInv, Quiet, server \notin {"exited", "off", "open"}, server' = "loop"
  PROVE  HttpInv'
BY DEF HttpInv, Typed, SocketsOwn, NumbersTrue, CurrentSound, Quiet

LEMMA ReplyKeeps ==
  ASSUME HttpInv, NEW c \in Clients, ReplyOnly(c)
  PROVE  HttpInv'
<1>1. Quiet /\ server = "dispatch" /\ server' = "loop"
  BY DEF ReplyOnly, Done, AfterDispatch, streamVars, workVars, Quiet
<1> QED BY <1>1, BackToLoop

(* A lowest free descriptor is nobody's, and what takes it keeps the others.  *)
LEMMA FreshIsFree ==
  ASSUME HttpInv, NEW f \in Fds, LowestFree(f)
  PROVE  /\ held[f] = Free /\ f # NoFd
         /\ \A c \in Clients : socket[c] # f
         /\ server # "exited" => listening # f /\ file # f
BY FdsAssumption, ClientsAssumption
DEF HttpInv, Typed, SocketsOwn, NumbersTrue, LowestFree, FreeFds, Free

LEMMA HttpKept == HttpInv /\ [Next]_vars => HttpInv'
<1> SUFFICES ASSUME HttpInv, [Next]_vars PROVE HttpInv'
  OBVIOUS
<1> USE DEF serverVars, peerVars, streamVars, workVars, jpegVars
<1>1. ASSUME NEW c \in Clients, Connect(c) PROVE HttpInv'
  BY <1>1, QuietKeeps DEF Connect, Quiet
<1>2. ASSUME NEW c \in Clients, Send(c) PROVE HttpInv'
  BY <1>2, QuietKeeps DEF Send, Quiet
<1>3. ASSUME NEW c \in Clients, Leave(c) PROVE HttpInv'
  BY <1>3, QuietKeeps DEF Leave, Quiet
<1>4. CASE Start
  BY <1>4
  DEF Start, HttpInv, Typed, SocketsOwn, NumbersTrue, CurrentSound, Streaming, Closed
<1>5. CASE StopFlag
  BY <1>5, QuietKeeps DEF StopFlag, Quiet
<1>6. CASE StopClose
  BY <1>6, FdsAssumption, ClientsAssumption
  DEF StopClose, Free, HttpInv, Typed, SocketsOwn, NumbersTrue, CurrentSound,
      Streaming, Closed
<1>7. CASE StopJoin
  BY <1>7, QuietKeeps DEF StopJoin, Quiet
<1>8. CASE Open
  <2>1. listening = NoFd
    BY <1>8 DEF Open, HttpInv, CurrentSound
  <2>2. ASSUME NEW f \in Fds, LowestFree(f), listening' = f,
               held' = [held EXCEPT ![f] = "listen"], server' = "loop"
        PROVE  HttpInv'
    BY <1>8, <2>1, <2>2, FreshIsFree, FdsAssumption, ClientsAssumption
    DEF Open, HttpInv, Typed, SocketsOwn, NumbersTrue, CurrentSound, Streaming
  <2>3. ASSUME listening' \in Fds => held[listening'] = Free,
               listening' \in Fds \cup {NoFd}, UNCHANGED held, server' = "exited"
        PROVE  HttpInv'
    BY <1>8, <2>3, FdsAssumption, ClientsAssumption
    DEF Open, HttpInv, Typed, SocketsOwn, NumbersTrue, CurrentSound, Streaming, Free
  <2>4. ASSUME NEW f \in Fds, LowestFree(f), listening' = f, server' = "exited",
               UNCHANGED held
        PROVE  HttpInv'
    BY <2>3, <2>4, FreshIsFree
  <2>5. ASSUME listening' = NoFd, server' = "exited", UNCHANGED held
        PROVE  HttpInv'
    BY <2>3, <2>5, FdsAssumption
  <2> QED BY <1>8, <2>2, <2>4, <2>5 DEF Open
<1>9. CASE Loop
  <2>1. CASE ~exit
    BY <1>9, <2>1 DEF Loop, HttpInv, Typed, SocketsOwn, NumbersTrue, CurrentSound
  <2>2. CASE exit
    <3>1. /\ held' = [h \in Fds |-> IF h = listening THEN Free ELSE held[h]]
          /\ UNCHANGED <<listening, file, socket, stream>> /\ server' = "exited"
      BY <1>9, <2>2 DEF Loop, Closed
    <3>2. \A c \in Clients : socket[c] # NoFd => socket[c] # listening
      BY <1>9, ClientsAssumption DEF Loop, HttpInv, Typed, SocketsOwn, NumbersTrue
    <3> QED
      BY <3>1, <3>2, FdsAssumption, ClientsAssumption
      DEF HttpInv, Typed, SocketsOwn, NumbersTrue, CurrentSound, Free
  <2> QED BY <2>1, <2>2
<1>10. CASE Accept
  <2>1. PICK c \in Waiting, f \in Fds :
          /\ LowestFree(f) /\ current' = {c}
          /\ socket' = [socket EXCEPT ![c] = f] /\ held' = [held EXCEPT ![f] = c]
    BY <1>10 DEF Accept
  <2>2. c \in Clients /\ socket[c] = NoFd /\ stream[c] = "none"
    BY DEF Waiting
  <2>3. /\ held[f] = Free /\ f # NoFd /\ listening # f /\ file # f
        /\ \A d \in Clients : socket[d] # f
    BY <1>10, <2>1, FreshIsFree DEF Accept
  <2> QED BY <1>10, <2>1, <2>2, <2>3
  DEF Accept, HttpInv, Typed, SocketsOwn, NumbersTrue, CurrentSound, Streaming
<1>11. CASE AcceptFails
  BY <1>11
  DEF AcceptFails, HttpInv, Typed, SocketsOwn, NumbersTrue, CurrentSound, Streaming,
      Closed
<1>12. ASSUME NEW c \in Clients, ReadFails(c) PROVE HttpInv'
  BY <1>12, FdsAssumption, ClientsAssumption
  DEF ReadFails, Hangup, Free, HttpInv, Typed, SocketsOwn, NumbersTrue, CurrentSound,
      Streaming, Closed
<1>13. ASSUME NEW c \in Clients, Read(c) PROVE HttpInv'
  BY <1>13
  DEF Read, HttpInv, Typed, SocketsOwn, NumbersTrue, CurrentSound, Streaming, Closed
<1>14. ASSUME NEW c \in Clients, Refused(c) PROVE HttpInv'
  BY <1>14, ReplyKeeps DEF Refused
<1>15. ASSUME NEW c \in Clients, NotFound(c) PROVE HttpInv'
  BY <1>15, ReplyKeeps DEF NotFound
<1>16. ASSUME NEW c \in Clients, Overview(c) PROVE HttpInv'
  BY <1>16, ReplyKeeps DEF Overview
<1>17. ASSUME NEW c \in Clients, Json(c) PROVE HttpInv'
  BY <1>17, ReplyKeeps DEF Json
<1>18. ASSUME NEW c \in Clients, Mp4(c) PROVE HttpInv'
  BY <1>18, ReplyKeeps DEF Mp4
<1>19. ASSUME NEW c \in Clients, TestFile(c) PROVE HttpInv'
  BY <1>19, ReplyKeeps DEF TestFile
<1>20. ASSUME NEW c \in Clients, StreamRefused(c) PROVE HttpInv'
  BY <1>20, ReplyKeeps DEF StreamRefused
<1>21. ASSUME NEW c \in Clients, StreamBegins(c) PROVE HttpInv'
  BY <1>21
  DEF StreamBegins, Done, AfterDispatch, HttpInv, Typed, SocketsOwn, NumbersTrue,
      CurrentSound, Streaming, Closed
<1>22. ASSUME NEW c \in Clients, Snapshot(c) PROVE HttpInv'
  BY <1>22
  DEF Snapshot, HttpInv, Typed, SocketsOwn, NumbersTrue, CurrentSound, Streaming, Closed
<1>23. ASSUME NEW c \in Clients, SnapshotRefused(c) PROVE HttpInv'
  BY <1>23, ReplyKeeps DEF SnapshotRefused
<1>24. ASSUME NEW c \in Clients, SnapshotEnds(c) PROVE HttpInv'
  <2>1. Quiet /\ server = "capture" /\ server' = "loop"
    BY <1>24 DEF SnapshotEnds, Done, AfterDispatch, Quiet
  <2> QED BY <2>1, BackToLoop
<1>25. ASSUME NEW c \in Clients, StreamHeader(c) PROVE HttpInv'
  BY <1>25
  DEF StreamHeader, Moves, HttpInv, Typed, SocketsOwn, NumbersTrue, CurrentSound,
      Streaming, Closed
<1>26. ASSUME NEW c \in Clients, StreamLoop(c) PROVE HttpInv'
  BY <1>26
  DEF StreamLoop, Moves, HttpInv, Typed, SocketsOwn, NumbersTrue, CurrentSound,
      Streaming, Closed
<1>27. ASSUME NEW c \in Clients, StreamNoFrame(c) PROVE HttpInv'
  BY <1>27
  DEF StreamNoFrame, Moves, HttpInv, Typed, SocketsOwn, NumbersTrue, CurrentSound,
      Streaming, Closed
<1>28. ASSUME NEW c \in Clients, StreamFrame(c) PROVE HttpInv'
  BY <1>28
  DEF StreamFrame, Moves, HttpInv, Typed, SocketsOwn, NumbersTrue, CurrentSound,
      Streaming, Closed
<1>29. ASSUME NEW c \in Clients, StreamSends(c) PROVE HttpInv'
  BY <1>29
  DEF StreamSends, Moves, HttpInv, Typed, SocketsOwn, NumbersTrue, CurrentSound,
      Streaming, Closed
<1>30. ASSUME NEW c \in Clients, StreamCloses(c) PROVE HttpInv'
  BY <1>30, FdsAssumption, ClientsAssumption
  DEF StreamCloses, Moves, Free, HttpInv, Typed, SocketsOwn, NumbersTrue, CurrentSound,
      Streaming, Closed
<1>31. CASE WorkerStarts
  BY <1>31, QuietKeeps DEF WorkerStarts, Quiet
<1>32. CASE WorkerFails
  BY <1>32, QuietKeeps DEF WorkerFails, Quiet
<1>33. CASE WorkerOpens
  <2>1. PICK f \in Fds : LowestFree(f) /\ file' = f /\ held' = [held EXCEPT ![f] = "file"]
    BY <1>33 DEF WorkerOpens
  <2>2. /\ held[f] = Free /\ f # NoFd
        /\ \A d \in Clients : socket[d] # f
        /\ server # "exited" => listening # f
    BY <2>1, FreshIsFree
  <2> QED BY <1>33, <2>1, <2>2, FdsAssumption, ClientsAssumption
  DEF WorkerOpens, HttpInv, Typed, SocketsOwn, NumbersTrue, CurrentSound, Streaming
<1>34. CASE WorkerEnds
  BY <1>34, FdsAssumption, ClientsAssumption
  DEF WorkerEnds, Free, HttpInv, Typed, SocketsOwn, NumbersTrue, CurrentSound,
      Streaming, Closed
<1>35. CASE UNCHANGED vars
  BY <1>35, QuietKeeps DEF vars, Quiet
<1> QED
  BY <1>1, <1>2, <1>3, <1>4, <1>5, <1>6, <1>7, <1>8, <1>9, <1>10, <1>11, <1>12, <1>13,
     <1>14, <1>15, <1>16, <1>17, <1>18, <1>19, <1>20, <1>21, <1>22, <1>23, <1>24,
     <1>25, <1>26, <1>27, <1>28, <1>29, <1>30, <1>31, <1>32, <1>33, <1>34, <1>35
  DEF Next, ServerStep, StreamStep

-----------------------------------------------------------------------------
(* The JPEG channel: a step leaves it alone, or begins or ends a capture.     *)

LEMMA ChannelKept == QuietAfterCaptures /\ [Next]_vars => QuietAfterCaptures'
<1> SUFFICES ASSUME QuietAfterCaptures, [Next]_vars PROVE QuietAfterCaptures'
  OBVIOUS
<1>1. ASSUME UNCHANGED jpegVars PROVE QuietAfterCaptures'
  BY <1>1 DEF jpegVars, QuietAfterCaptures
<1>2. ASSUME NEW u, CaptureStarts(u) PROVE QuietAfterCaptures'
  BY <1>2 DEF CaptureStarts, QuietAfterCaptures
<1>3. ASSUME NEW u, CaptureStops(u) PROVE QuietAfterCaptures'
  BY <1>3 DEF CaptureStops, QuietAfterCaptures
<1>4. ASSUME NEW u, CaptureFails(u) PROVE QuietAfterCaptures'
  BY <1>3, <1>4 DEF CaptureFails
<1>5. ASSUME NEW c \in Clients, ReplyOnly(c) PROVE QuietAfterCaptures'
  BY <1>1, <1>5 DEF ReplyOnly
<1>6. CASE ServerStep
  <2>1. CASE Open \/ Loop \/ Accept \/ AcceptFails
    BY <1>1, <2>1 DEF Open, Loop, Accept, AcceptFails
  <2>2. ASSUME NEW c \in Clients, ReadFails(c) \/ Read(c) \/ StreamBegins(c)
        PROVE  QuietAfterCaptures'
    BY <1>1, <2>2 DEF ReadFails, Read, StreamBegins
  <2>3. ASSUME NEW c \in Clients, Snapshot(c) \/ SnapshotEnds(c)
        PROVE  QuietAfterCaptures'
    BY <1>2, <1>3, <1>4, <2>3 DEF Snapshot, SnapshotEnds
  <2>4. ASSUME NEW c \in Clients,
               \/ Refused(c) \/ NotFound(c) \/ Overview(c) \/ Json(c) \/ Mp4(c)
               \/ TestFile(c) \/ StreamRefused(c) \/ SnapshotRefused(c)
        PROVE  QuietAfterCaptures'
    BY <1>5, <2>4
    DEF Refused, NotFound, Overview, Json, Mp4, TestFile, StreamRefused, SnapshotRefused
  <2> QED BY <1>6, <2>1, <2>2, <2>3, <2>4 DEF ServerStep
<1>7. ASSUME NEW c \in Clients, StreamStep(c) PROVE QuietAfterCaptures'
  <2>1. CASE StreamHeader(c) \/ StreamSends(c) \/ StreamCloses(c)
    BY <1>1, <2>1 DEF StreamHeader, StreamSends, StreamCloses
  <2>2. CASE StreamLoop(c)
    BY <1>1, <1>2, <2>2 DEF StreamLoop
  <2>3. CASE StreamNoFrame(c) \/ StreamFrame(c)
    BY <1>1, <1>3, <1>4, <2>3 DEF StreamNoFrame, StreamFrame
  <2> QED BY <1>7, <2>1, <2>2, <2>3 DEF StreamStep
<1>8. ASSUME NEW c \in Clients, Connect(c) \/ Send(c) \/ Leave(c)
      PROVE  QuietAfterCaptures'
  BY <1>1, <1>8 DEF Connect, Send, Leave
<1>9. CASE Start \/ StopFlag \/ StopClose \/ StopJoin
  BY <1>1, <1>9 DEF Start, StopFlag, StopClose, StopJoin
<1>10. CASE WorkerStarts \/ WorkerFails \/ WorkerOpens \/ WorkerEnds
  BY <1>1, <1>2, <1>3, <1>4, <1>10
  DEF WorkerStarts, WorkerFails, WorkerOpens, WorkerEnds
<1>11. CASE UNCHANGED vars
  BY <1>1, <1>11 DEF vars
<1> QED BY <1>6, <1>7, <1>8, <1>9, <1>10, <1>11 DEF Next

-----------------------------------------------------------------------------
(* http_module.c:1270: nobody but the thread of an MJPEG stream closes the     *)
(* socket it writes to, and the kernel hands its number to nobody.             *)
THEOREM StreamsKeepTheirSockets == Spec => []StreamsKeepSockets
<1>1. HttpInv => StreamsKeepSockets
  BY DEF HttpInv, SocketsOwn, CurrentSound, Streaming, StreamsKeepSockets
<1> QED BY <1>1, HttpInitially, HttpKept, PTL DEF Spec

(* http_module.c:1149-1190, snapshot_fallback.c: whatever the order in which   *)
(* snapshots, streams and the worker start and stop it, the channel does not   *)
(* receive pictures when the last of them is through.                          *)
THEOREM ChannelLeftQuiet == Spec => []QuietAfterCaptures
<1>1. Init => QuietAfterCaptures
  BY DEF Init, QuietAfterCaptures
<1> QED BY <1>1, ChannelKept, PTL DEF Spec
=============================================================================
