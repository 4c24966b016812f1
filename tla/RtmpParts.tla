------------------------------- MODULE RtmpParts -------------------------------
(* The RTMP server in two independent parts, one per behaviour: the threads   *)
(* and the list of connections, and what one connection exchanges with the    *)
(* push client of this repository.  "part" says which one a behaviour is      *)
(* about; the variables of the other keep an initial value.                   *)
EXTENDS RtmpServer, Sequences

CONSTANTS Parts,      \* the parts a behaviour may be about
          AppLen, UrlLen, KeyLen, ConfigChunk, FrameLens, Timestamps,
          FramesPushed  \* of the session

VARIABLES part,
          up, down, broken, client, chunkOut, streamId, pusher, pushed, server,
          chunkIn, lastLen, lastType, connState, published, sent, got, odd

S == INSTANCE RtmpSession WITH
       MaxFrames <- FramesPushed, sender <- pusher, frames <- pushed,
       publishing <- published

ASSUME SessionAssumption == S!LengthsAssumption

sessionVars == <<up, down, broken, client, chunkOut, streamId, pusher, pushed, server,
                 chunkIn, lastLen, lastType, connState, published, sent, got, odd>>
bothVars == <<part, vars, sessionVars>>

InThreads(A) == part = "threads" /\ A /\ UNCHANGED <<part, sessionVars>>
InSession(A) == part = "session" /\ A /\ UNCHANGED <<part, vars>>

BothInit == part \in Parts /\ Init /\ S!Init

BothNext ==
  \/ part = "threads" /\ Next /\ UNCHANGED <<part, sessionVars>>
  \/ part = "session" /\ S!Next /\ UNCHANGED <<part, vars>>

BothSafety == BothInit /\ [][BothNext]_bothVars

(* The fairness of RtmpServer and of RtmpSession.                             *)
BothSpec ==
  /\ BothSafety
  /\ WF_bothVars(InThreads(Join \/ DestroyLock \/ DestroyUnlocks \/ DestroyFrees))
  /\ WF_bothVars(InThreads(Sender))
  /\ WF_bothVars(InThreads(Refuse \/ OutOfMemory
       \/ \E c \in Conns : Create(c) \/ Link(c) \/ Spawn(c) \/ Cleaned(c)))
  /\ \A c \in Conns :
       /\ WF_bothVars(InThreads(gone[c] /\ (HandshakeFails(c) \/ ReadFails(c))))
       /\ WF_bothVars(InThreads(Round(c) \/ CloseSocket(c) \/ FreeConn(c)))
       /\ SF_bothVars(InThreads(Unlink(c)))
  /\ SF_bothVars(InThreads(CountPublishers)) /\ SF_bothVars(InThreads(SendLock))
  /\ SF_bothVars(InThreads(\E c \in Conns : Link(c)))
  /\ WF_bothVars(InSession(S!ClientThread \/ S!ClientFails))
  /\ WF_bothVars(InSession(S!ServerThread))
  /\ WF_bothVars(InSession(S!SendPiece \/ S!SendFails))

-----------------------------------------------------------------------------
(* The properties of the session, under their own names.                    *)

(* The types of the session (rtmp_client.c, rtmp_server.c).                   *)
SessionTypeOK == S!TypeOK

(* rtmp_server.c:1089-1230, rtmp_client.c:938-1035: the two ends agree at     *)
(* every chunk on where it begins, and what is assembled is what was written,  *)
(* in its order.                                                              *)
SessionInOrder == S!SessionInOrder

(* rtmp_server.c:1635-1970: a session whose connection holds gets through.    *)
Delivered == part = "session" => S!Delivered

(* docs/RTMP_TECHNICAL.md:112: a message of several chunks is assembled.      *)
Assembled == part = "session" => S!Assembled
=============================================================================
