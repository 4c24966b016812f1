------------------------------- MODULE RtspParts -------------------------------
(* Four parts of the RTSP module, one per behaviour: a client at the gate of   *)
(* key frames, a frame on its way in packets, the TLS sessions of a slot, and  *)
(* the module itself from its start to its cleanup.  "part" says which one a   *)
(* behaviour is about; the variables of the others keep an initial value.      *)
EXTENDS RtspModule, Sequences

CONSTANTS Wrap, Timeout, TicksPerFrame, GateSessions, MaxPlays, MaxControls,  \* IdrGate
          Room, Sizes, MaxSafe, MaxNals, MaxRequests,                         \* RtpPayload
          TlsSessions, MaxRetries                                             \* TlsSession

VARIABLES part,
          active, st, needs, start, gatePc, sessions, plays, controls, clock, ticks, fpc,
          frame, nals, now, clears, keyed, expired, waited,
          codec, tcp, state, socket, rtpServer, was, requests, hidden, moved, rtpNals, nal,
          rtpPc, done, fragments, cached, out, failed,
          tlsBackend, tlsActive, ctx, useTls, session, made, mutex, tlsPc, ssl, retries,
          unmade, invalid

G == INSTANCE IdrGate WITH pc <- gatePc, MaxSessions <- GateSessions

P == INSTANCE RtpPayload WITH server <- rtpServer, nals <- rtpNals, pc <- rtpPc

T == INSTANCE TlsSession WITH
       backend <- tlsBackend, active <- tlsActive, pc <- tlsPc,
       MaxSessions <- TlsSessions

ASSUME GateAssumption == G!ClockAssumption /\ G!RequestsAssumption
ASSUME PayloadAssumption == P!SizesAssumption
ASSUME TlsAssumption == T!BoundsAssumption

gateVars == <<active, st, needs, start, gatePc, sessions, plays, controls, clock, ticks,
              fpc, frame, nals, now, clears, keyed, expired, waited>>
payloadVars == <<codec, tcp, state, socket, rtpServer, was, requests, hidden, moved, rtpNals,
                 nal, rtpPc, done, fragments, cached, out, failed>>
tlsVars == <<tlsBackend, tlsActive, ctx, useTls, session, made, mutex, tlsPc, ssl, retries,
             unmade, invalid>>
others == <<part, payloadVars, tlsVars, rtspVars>>
partsVars == <<gateVars, others>>

PartsInit ==
  /\ part \in {"gate", "payload", "tls", "module"}
  /\ Init /\ G!Init /\ P!Init /\ T!Init

PartsNext ==
  \/ part = "gate" /\ G!Next /\ UNCHANGED others
  \/ part = "payload" /\ P!Next /\ UNCHANGED <<part, gateVars, tlsVars, rtspVars>>
  \/ part = "tls" /\ T!Next /\ UNCHANGED <<part, gateVars, payloadVars, rtspVars>>
  \/ part = "module" /\ Next /\ UNCHANGED <<part, gateVars, payloadVars, tlsVars>>

AtGate(A) == part = "gate" /\ A /\ UNCHANGED others

PartsSpec == PartsInit /\ [][PartsNext]_partsVars

(* The fairness of IdrGate.                                                    *)
PartsFairness ==
  /\ WF_partsVars(AtGate(G!FrameThread))
  /\ WF_partsVars(AtGate(G!Resume \/ G!Raise \/ G!Stamp \/ G!Clean))
  /\ WF_partsVars(AtGate(G!Tick))

-----------------------------------------------------------------------------
(* The properties of the parts, under their own names.                         *)

(* The types of the parts (rtsp_server.c, rtsp_module.c).                      *)
PartsTypeOK == TypeOK /\ G!TypeOK /\ P!TypeOK /\ T!TypeOK

(* rtsp_server.c:2422-2991: a NAL unit arrives whole or not at all, whatever   *)
(* message is handled in mid-frame, its packets fit their buffer, and nothing  *)
(* follows the marker; of an undisturbed frame every unit arrives.             *)
FrameComplete == P!FrameComplete

(* rtsp_server.c:3176-3329: a session of a slot is lost to a failing write or *)
(* not at all, and two threads write at once only after the mutex was made     *)
(* anew while one of them held it.                                             *)
SlotTlsSound == T!SessionsOwned /\ T!WritersExclude

(* rtsp_server.c:3324, "mark it as invalid immediately to prevent further use" *)
(* (it is used, by a thread that had read it before, as the README tells).       *)
InvalidNotUsed == T!InvalidNotUsed

(* rtsp_server.c:841-858: the gate is opened by a key picture or the timeout.  *)
KeyOrTimeout == G!KeyOrTimeout

(* rtsp_server.c:832, "more than 5 seconds" (false, as the README tells).        *)
TimeoutIsReal == G!TimeoutIsReal

(* rtsp_server.c:834: a client that waits for a key picture does not wait for  *)
(* ever.                                                                       *)
WaitEnds == G!WaitEnds
=============================================================================
