------------------------------ MODULE RtpPayload ------------------------------
(* One frame on its way to one client (modules/rtsp/rtsp_server.c): the frame  *)
(* thread sends its NAL units one after the other, each in a packet of its own *)
(* or in fragments, over UDP or interleaved with the RTSP replies on the TCP   *)
(* connection.  The server thread meanwhile handles the control messages of    *)
(* the client: it hides a TCP client from the frame thread, and PAUSE, SETUP,  *)
(* PLAY, TEARDOWN and the end of the connection change the state, the          *)
(* transport or the socket of any client in mid-frame.  A NAL unit is its size *)
(* in bytes; a packet says which bytes of which unit it carries.               *)
(* Left out: a SETUP for the other stream (it changes the codec as well) and   *)
(* other owners of a socket number that is closed (MediaSockets).              *)
EXTENDS Naturals, Sequences

CONSTANTS Room,         \* bytes of a packet behind the RTP header
          Sizes,        \* of the NAL units
          MaxSafe,      \* MAX_SAFE_FRAME_SIZE
          MaxNals,      \* bound of the model on the NAL units of the frame
          MaxRequests   \* bound on control messages during the frame

\* what the modules that instantiate this one assume: a packet has room for more
\* than the four bytes kept for headers (it has 1188), and a unit without bytes is
\* not sent at all
SizesAssumption ==
  Room \in Nat /\ Room > 4 /\ Sizes \subseteq Nat \ {0}
  /\ {MaxSafe, MaxNals, MaxRequests} \subseteq Nat

VARIABLES codec, tcp,   \* client->codec; client->transport_mode is TCP
          state,        \* client->state
          socket,       \* client->rtp_socket_fd is a socket
          server,       \* where the server thread is
          was,          \* was_playing of the server thread
          requests,     \* control messages so far
          nals, nal,    \* the frame; the NAL unit at hand
          pc,           \* where the frame thread is
          done,         \* bytes of the unit that are behind it
          fragments,    \* fragments_sent
          cached,       \* rtp_socket of the H.264 fragments is a socket
          out,          \* what went out, in order: packets, prefixes and replies
          failed,       \* history: a send failed
          hidden,       \* history: the client was not playing at some time
          moved         \* history: SETUP changed where the packets go, or PLAY how
                        \* they are numbered

clientVars == <<codec, tcp, state, socket>>
serverVars == <<server, was, requests, hidden, moved>>
frameVars  == <<nals, nal, pc, done, fragments, cached, failed>>
payloadVars == <<clientVars, serverVars, frameVars, out>>

\* bytes the NAL header takes, and the FU headers in its place
NalHeader == IF codec = "h264" THEN 1 ELSE 2
FuHeaders == IF codec = "h264" THEN 2 ELSE 3

\* max_single_packet_size; max_payload_size of the two fragmenting functions
MaxSingle  == Room - 4
MaxPayload == Room - FuHeaders

TypeOK ==
  /\ codec \in {"h264", "h265"} /\ state \in {"INIT", "READY", "PLAYING"}
  /\ server \in {"select", "handle", "ready", "respond", "leave", "restore", "close", "closed"}
  /\ requests \in 0..MaxRequests
  /\ nals \in Seq(Sizes) /\ nal \in 1..Len(nals) + 1
  /\ pc \in {"next", "send", "body", "end"}
  /\ done \in Nat /\ fragments \in Nat
  /\ {tcp, socket, was, cached, failed, hidden, moved} \subseteq BOOLEAN

Init ==
  /\ codec \in {"h264", "h265"} /\ tcp \in BOOLEAN /\ socket = ~tcp /\ state = "PLAYING"
  /\ server = "select" /\ was = FALSE /\ requests = 0
  /\ nals \in UNION {[1..n -> Sizes] : n \in 1..MaxNals}
  /\ nal = 1 /\ pc = "next" /\ done = 0 /\ fragments = 0 /\ cached = FALSE
  /\ out = << >> /\ failed = FALSE /\ hidden = FALSE /\ moved = FALSE

-----------------------------------------------------------------------------
(* The frame thread.                                                        *)

Size == nals[nal]
Marked == nal = Len(nals)

NextNal ==
  /\ nal' = nal + 1 /\ done' = 0 /\ fragments' = 0 /\ cached' = FALSE
  /\ pc' = IF Marked THEN "end" ELSE "next"

\* send_rtp_packet looks at the state once for each unit
Withheld == state # "PLAYING"
Skipped == Withheld

\* what is not sent at all: units of a client that does not play, and units above
\* the limit of the H.264 fragments
Dropped == Skipped \/ (codec = "h264" /\ Size > MaxSafe)

Plain == Size <= MaxSingle
Whole == Size > MaxSingle /\ Size <= MaxPayload

\* a unit in fragments is sent without its NAL header; those of H.264 read the
\* socket once
Begin ==
  /\ pc = "next"
  /\ IF Dropped THEN NextNal
     ELSE /\ pc' = "send" /\ fragments' = 0 /\ UNCHANGED nal
          /\ cached' = (~tcp /\ socket)
          /\ done' = IF Plain \/ Whole THEN 0 ELSE NalHeader
  /\ UNCHANGED <<clientVars, serverVars, nals, failed, out>>

Unit == [nal |-> nal, from |-> 0, to |-> Size, fu |-> FALSE, s |-> FALSE, e |-> FALSE,
         m |-> Marked]

Smaller(a, b) == IF a > b THEN b ELSE a
LastAtMost == Size - done <= MaxPayload
LastIfLess == Size - done < MaxPayload
IsLast     == LastAtMost

Fragment ==
  [nal |-> nal, from |-> done, to |-> done + Smaller(Size - done, MaxPayload),
   fu |-> TRUE, s |-> fragments = 0, e |-> IsLast, m |-> Marked /\ IsLast]

Packet == IF Plain \/ Whole THEN Unit ELSE Fragment

\* the transport takes the packet
Deliver ==
  /\ server # "closed"
  /\ out' = Append(out, Packet)
  /\ IF Packet.to = Size THEN NextNal
     ELSE /\ done' = Packet.to /\ fragments' = fragments + 1 /\ pc' = "send"
          /\ UNCHANGED <<nal, cached>>
  /\ UNCHANGED <<clientVars, serverVars, nals, failed>>

\* send_rtp_packet itself; an interleaved packet and its prefix in one call
SendPlain == pc = "send" /\ Plain /\ (tcp \/ socket) /\ Deliver

SendWholeH264 ==
  pc = "send" /\ codec = "h264" /\ Whole /\ (tcp \/ socket) /\ Deliver
SendFuH264 ==
  pc = "send" /\ codec = "h264" /\ ~Plain /\ ~Whole /\ (tcp \/ cached) /\ Deliver

\* send_h265_fragmented_rtp: an interleaved packet follows its prefix in a second
\* call
Prefixed(p) ==
  \/ (pc = "body" \/ (pc = "send" /\ ~tcp /\ socket)) /\ Deliver
  \/ /\ pc = "send" /\ tcp /\ server # "closed"
     /\ out' = Append(out, [prefix |-> p]) /\ pc' = "body"
     /\ UNCHANGED <<clientVars, serverVars, nals, nal, done, fragments, cached, failed>>

SendWholeH265 == pc # "end" /\ codec = "h265" /\ Whole /\ Prefixed(Unit)
SendFuH265 == pc # "end" /\ codec = "h265" /\ ~Plain /\ ~Whole /\ Prefixed(Fragment)

\* A send that fails, as one without a socket does, gives the unit up; nobody looks
\* at the result
SendFails ==
  /\ pc \in {"send", "body"} /\ failed' = TRUE
  /\ NextNal
  /\ UNCHANGED <<clientVars, serverVars, nals, out>>

-----------------------------------------------------------------------------
(* The server thread, on this client's connection.                          *)

\* the state becomes s, for the frame thread to see
BecomeState(s) == state' = s /\ hidden' = (hidden \/ s # "PLAYING")

\* a control message; a TCP client is hidden while it is handled
Receive ==
  /\ server = "select" /\ requests < MaxRequests
  /\ server' = "handle" /\ requests' = requests + 1 /\ was' = (state = "PLAYING")
  /\ BecomeState(IF tcp /\ state = "PLAYING" THEN "READY" ELSE state)
  /\ UNCHANGED <<codec, tcp, socket, moved, frameVars, out>>

\* what changes nothing of the client's: other requests, and those refused
Other ==
  /\ server = "handle" /\ server' = "respond"
  /\ UNCHANGED <<clientVars, was, requests, hidden, moved, frameVars, out>>

\* PLAY draws a new sequence number and SSRC, also for a client that plays
Play ==
  /\ server = "handle" /\ state \in {"READY", "PLAYING"}
  /\ server' = "respond" /\ moved' = TRUE /\ BecomeState("PLAYING")
  /\ UNCHANGED <<codec, tcp, socket, was, requests, frameVars, out>>

Pause ==
  /\ server = "handle" /\ state = "PLAYING"
  /\ server' = "respond" /\ BecomeState("READY")
  /\ UNCHANGED <<codec, tcp, socket, was, requests, moved, frameVars, out>>

\* SETUP sets the transport first; without client ports, or without a new socket, it
\* is refused after that
Setup ==
  /\ server = "handle" /\ moved' = TRUE
  /\ \/ tcp' = TRUE /\ server' = "ready" /\ UNCHANGED socket
     \/ tcp' = FALSE /\ server' = "ready" /\ socket' = TRUE
     \/ tcp' = FALSE /\ server' = "respond" /\ socket' \in {socket, FALSE}
  /\ UNCHANGED <<codec, state, was, requests, hidden, frameVars, out>>

SetupReady ==
  /\ server = "ready" /\ server' = "respond" /\ BecomeState("READY")
  /\ UNCHANGED <<codec, tcp, socket, was, requests, moved, frameVars, out>>

Teardown ==
  /\ server = "handle" /\ server' = "leave" /\ BecomeState("INIT")
  /\ UNCHANGED <<codec, tcp, socket, was, requests, moved, frameVars, out>>

\* send_rtsp_response; over UDP the packets have a socket of their own
Respond ==
  /\ server \in {"respond", "leave"}
  /\ server' = IF server = "leave" THEN "close" ELSE "restore"
  /\ out' = IF tcp THEN Append(out, [reply |-> requests]) ELSE out
  /\ UNCHANGED <<clientVars, was, requests, hidden, moved, frameVars>>

\* every client that played before its message and is READY after it plays again
Restore ==
  /\ server = "restore" /\ server' = "select"
  /\ BecomeState(IF was /\ state = "READY" THEN "PLAYING" ELSE state)
  /\ UNCHANGED <<codec, tcp, socket, was, requests, moved, frameVars, out>>

\* the peer has gone, the reply was lost, or the client was silent for too long
Lose ==
  /\ server \in {"handle", "respond", "leave", "select"} /\ server' = "close"
  /\ UNCHANGED <<clientVars, was, requests, hidden, moved, frameVars, out>>

\* cleanup_client
Close ==
  /\ server = "close" /\ server' = "closed" /\ socket' = FALSE /\ BecomeState("INIT")
  /\ UNCHANGED <<codec, tcp, was, requests, moved, frameVars, out>>

Finished == pc = "end" /\ server \in {"select", "closed"} /\ UNCHANGED payloadVars

ServerThread ==
  \/ Receive \/ Other \/ Play \/ Pause \/ Setup \/ SetupReady \/ Teardown
  \/ Respond \/ Restore \/ Lose \/ Close

Next ==
  \/ Begin \/ SendPlain \/ SendWholeH264 \/ SendFuH264 \/ SendWholeH265 \/ SendFuH265
  \/ SendFails
  \/ ServerThread
  \/ Finished

Spec == Init /\ [][Next]_payloadVars

-----------------------------------------------------------------------------
(* What a receiver makes of it.                                             *)

IsPacket(o) == "nal" \in DOMAIN o

\* the positions of the packets, and of those of unit n, in what went out
Sent  == {i \in DOMAIN out : IsPacket(out[i])}
Of(n) == {i \in Sent : out[i].nal = n}

\* of a set of positions: the first, the last, and two that follow each other
First(I, i)      == \A j \in I : i <= j
Final(I, i)      == \A j \in I : j <= i
Follows(I, i, j) == i < j /\ \A k \in I : k <= i \/ j <= k

\* the packets of a unit fit the buffer, the first begins where the unit begins and
\* each of the others where the one before it ended
Chained(I) ==
  /\ \A i \in I :
       /\ out[i].to - out[i].from + (IF out[i].fu THEN FuHeaders ELSE 0) <= Room
       /\ out[i].s = (out[i].fu /\ First(I, i))
       /\ First(I, i) => out[i].from = IF out[i].fu THEN NalHeader ELSE 0
  /\ \A i, j \in I : Follows(I, i, j) => out[j].from = out[i].to

\* the last of them, and no other, is marked as the end and carries the last byte
Ended(n, I) ==
  /\ \A i \in I : out[i].e = (out[i].fu /\ Final(I, i))
  /\ \E i \in I : Final(I, i) /\ out[i].to = nals[n]

Assembled(n) == Chained(Of(n)) /\ Ended(n, Of(n))

\* the client played all the time, and no unit is above the limit
Undisturbed ==
  ~hidden /\ \A n \in 1..Len(nals) : codec = "h264" => nals[n] <= MaxSafe

(* rtsp_server.c:2422-2991: of a frame of which no send failed, whatever the   *)
(* server thread did to the client in the middle of it, a NAL unit arrives     *)
(* whole, in one packet or in fragments from a start to an end that fit the    *)
(* buffer, or not at all, unless SETUP or PLAY moved it to other packets (2111,*)
(* 2150); the units are in their order, and nothing follows the marker.  When  *)
(* the client played all the time and no unit is too large for H.264, every    *)
(* unit arrives and the last packet has the marker.                            *)
FrameComplete ==
  pc = "end" /\ ~failed =>
    /\ ~moved => \A n \in 1..Len(nals) : Of(n) = {} \/ Assembled(n)
    /\ \A i, j \in Sent : i <= j => out[i].nal <= out[j].nal
    /\ \A i \in Sent : out[i].m => Final(Sent, i)
    /\ Undisturbed => /\ \A n \in 1..Len(nals) : Of(n) # {}
                      /\ \A i \in Sent : out[i].m = Final(Sent, i)
=============================================================================
