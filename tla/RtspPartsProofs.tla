--------------------------- MODULE RtspPartsProofs ---------------------------
(* What the parts of the RTSP module promise, for any number of sessions, of   *)
(* retries, of streams and of starts: which pair of files the TLS server       *)
(* presents and what a failed start leaves behind, when a client that joins is *)
(* let through the gate of key frames, to whom a TLS session belongs, and that *)
(* a frame of any number of NAL units reaches an undisturbed client whole.     *)
EXTENDS RtspParts, TLAPS

-----------------------------------------------------------------------------
(* The module itself, from its start to its cleanup.                           *)

(* A server exists from CreateServer until the stop, or until the start failed; *)
(* what rtsp_server_start acquired is within what rtsp_server_destroy releases. *)
HeldInv ==
  /\ held \subseteq Releases
  /\ (pc \in {"idle", "infos", "create"} /\ ~server) => held = {}
  /\ pc \in {"infos", "create"} => ~server
  /\ pc \notin {"idle", "infos", "create"} => server
  /\ (pc = "idle" /\ ~running) => ~server
  /\ pc # "idle" => initialized /\ ~running
  /\ running => initialized

(* As long as no start failed, the encoders that receive have a stream_info, so *)
(* that the stop reaches them, and none receives while the module is stopped.   *)
EncoderInv ==
  /\ receiving \subseteq Streams
  /\ ~broken => /\ receiving \subseteq infos
                /\ pc \notin {"idle", "infos"} => infos = Streams
                /\ pc = "infos" => receiving = {}
                /\ (pc = "idle" /\ ~running) => receiving = {}

(* Two usable files belong together; while they are made nothing is presented, *)
(* and the certificate, which is written last, is missing.                     *)
PairInv ==
  /\ (certFile # 0 /\ keyFile # 0) => certFile = keyFile
  /\ own # 0 => own = certFile /\ own = keyFile
  /\ pc \in {"certificate", "genkey", "gencert"} => own = 0
  /\ pc \in {"genkey", "gencert"} => certFile = 0
  /\ pc = "gencert" => keyFile = pairs

ModuleInv == HeldInv /\ EncoderInv /\ PairInv

LEMMA ModuleInitially == Init => ModuleInv
BY DEF Init, ModuleInv, HeldInv, EncoderInv, PairInv

LEMMA HeldKept == ModuleInv /\ [Next]_rtspVars => HeldInv'
<1> SUFFICES ASSUME ModuleInv, [Next]_rtspVars PROVE HeldInv'
  OBVIOUS
<1> USE DEF ModuleInv, HeldInv, configVars, moduleVars, fileVars, serverVars
<1>1. CASE ModuleInit
  BY <1>1 DEF ModuleInit, Releases, Contexts, Sockets
<1>2. CASE ModuleStart
  BY <1>2 DEF ModuleStart, Goes, Releases, Contexts, Sockets
<1>3. CASE CreateInfos
  BY <1>3 DEF CreateInfos, Releases, Contexts, Sockets
<1>4. CASE CreateServer
  BY <1>4 DEF CreateServer, Goes, Releases, Contexts, Sockets
<1>5. CASE AddStreams
  BY <1>5 DEF AddStreams, Goes, Releases, Contexts, Sockets
<1>6. CASE Listen
  BY <1>6 DEF Listen, Fails, Releases, Contexts, Sockets
<1>7. CASE TlsInitOpenssl
  BY <1>7 DEF TlsInitOpenssl, Fails, Releases, Contexts, Sockets
<1>8. CASE TlsInitMbedtls
  BY <1>8 DEF TlsInitMbedtls, Fails, Releases, Contexts, Sockets
<1>9. CASE TlsNotCompiled
  BY <1>9 DEF TlsNotCompiled, Fails, Releases, Contexts, Sockets
<1>10. CASE LoadCertificate
  BY <1>10 DEF LoadCertificate, Goes, Releases, Contexts, Sockets
<1>11. CASE GenerateKey
  BY <1>11 DEF GenerateKey, GenerateFails, Written, WriteOrder, KeyFirst, Releases,
     Contexts, Sockets
<1>12. CASE GenerateCertificate
  BY <1>12 DEF GenerateCertificate, GenerateFails, Written, WriteOrder, KeyFirst,
     Releases, Contexts, Sockets
<1>13. CASE TlsListen
  BY <1>13 DEF TlsListen, Fails, Releases, Contexts, Sockets
<1>14. CASE StartThreads
  <2>1. UNCHANGED <<backend, server, initialized>> /\ server
    BY <1>14 DEF StartThreads, Goes
  <2>2. held' \subseteq Releases'
    BY <1>14, <2>1 DEF StartThreads, Goes, Fails, Releases, Contexts
  <2>3. pc \in {"server_thread", "rtp_thread"}
    BY <1>14 DEF StartThreads, Goes
  <2>4. \/ pc' \in {"rtp_thread", "failed"} /\ running' = running
        \/ pc' = "idle" /\ running'
    BY <1>14 DEF StartThreads, Goes, Fails
  <2> QED BY <2>1, <2>2, <2>3, <2>4
<1>15. CASE SetupFails
  BY <1>15 DEF SetupFails, Goes, Destroyed, Releases, Contexts, Sockets
<1>16. CASE ModuleStop
  BY <1>16 DEF ModuleStop, Stop, Stopped, Destroyed, Releases, Contexts, Sockets
<1>17. CASE ModuleCleanup
  BY <1>17 DEF ModuleCleanup, Stop, Stopped, Destroyed, Releases, Contexts, Sockets
<1>18. CASE PowerLost
  BY <1>18 DEF PowerLost, Releases, Contexts, Sockets
<1>19. CASE UNCHANGED rtspVars
  BY <1>19 DEF rtspVars, Releases, Contexts, Sockets
<1> QED BY <1>1, <1>2, <1>3, <1>4, <1>5, <1>6, <1>7, <1>8, <1>9, <1>10, <1>11, <1>12,
<1>13, <1>14, <1>15, <1>16, <1>17, <1>18, <1>19
    DEF Next, Start

LEMMA EncoderKept == ModuleInv /\ [Next]_rtspVars => EncoderInv'
<1> SUFFICES ASSUME ModuleInv, [Next]_rtspVars PROVE EncoderInv'
  OBVIOUS
<1> USE DEF ModuleInv, HeldInv, EncoderInv, configVars, moduleVars, fileVars, serverVars
<1>1. CASE ModuleInit
  BY <1>1 DEF ModuleInit
<1>2. CASE ModuleStart
  BY <1>2 DEF ModuleStart, Goes
<1>3. CASE CreateInfos
  BY <1>3 DEF CreateInfos
<1>4. CASE CreateServer
  BY <1>4 DEF CreateServer, Goes
<1>5. CASE AddStreams
  BY <1>5 DEF AddStreams, Goes
<1>6. CASE Listen
  BY <1>6 DEF Listen, Fails
<1>7. CASE TlsInitOpenssl
  BY <1>7 DEF TlsInitOpenssl, Fails
<1>8. CASE TlsInitMbedtls
  BY <1>8 DEF TlsInitMbedtls, Fails
<1>9. CASE TlsNotCompiled
  BY <1>9 DEF TlsNotCompiled, Fails
<1>10. CASE LoadCertificate
  BY <1>10 DEF LoadCertificate, Goes
<1>11. CASE GenerateKey
  BY <1>11 DEF GenerateKey, GenerateFails, Written, WriteOrder, KeyFirst
<1>12. CASE GenerateCertificate
  BY <1>12 DEF GenerateCertificate, GenerateFails, Written, WriteOrder, KeyFirst
<1>13. CASE TlsListen
  BY <1>13 DEF TlsListen, Fails
<1>14. CASE StartThreads
  BY <1>14 DEF StartThreads, Goes, Fails
<1>15. CASE SetupFails
  BY <1>15 DEF SetupFails, Goes, Destroyed
<1>16. CASE ModuleStop
  BY <1>16 DEF ModuleStop, Stop, Stopped, Destroyed
<1>17. CASE ModuleCleanup
  BY <1>17 DEF ModuleCleanup, Stop, Stopped, Destroyed
<1>18. CASE PowerLost
  BY <1>18 DEF PowerLost
<1>19. CASE UNCHANGED rtspVars
  BY <1>19 DEF rtspVars
<1> QED BY <1>1, <1>2, <1>3, <1>4, <1>5, <1>6, <1>7, <1>8, <1>9, <1>10, <1>11, <1>12,
<1>13, <1>14, <1>15, <1>16, <1>17, <1>18, <1>19
    DEF Next, Start

LEMMA PairKept == ModuleInv /\ [Next]_rtspVars => PairInv'
<1> SUFFICES ASSUME ModuleInv, [Next]_rtspVars PROVE PairInv'
  OBVIOUS
<1> USE DEF ModuleInv, HeldInv, PairInv, configVars, moduleVars, fileVars, serverVars
<1>1. CASE ModuleInit
  BY <1>1 DEF ModuleInit
<1>2. CASE ModuleStart
  BY <1>2 DEF ModuleStart, Goes
<1>3. CASE CreateInfos
  BY <1>3 DEF CreateInfos
<1>4. CASE CreateServer
  BY <1>4 DEF CreateServer, Goes
<1>5. CASE AddStreams
  BY <1>5 DEF AddStreams, Goes
<1>6. CASE Listen
  BY <1>6 DEF Listen, Fails
<1>7. CASE TlsInitOpenssl
  BY <1>7 DEF TlsInitOpenssl, Fails
<1>8. CASE TlsInitMbedtls
  BY <1>8 DEF TlsInitMbedtls, Fails
<1>9. CASE TlsNotCompiled
  BY <1>9 DEF TlsNotCompiled, Fails
<1>10. CASE LoadCertificate
  BY <1>10 DEF LoadCertificate, Goes
<1>11. CASE GenerateKey
  BY <1>11 DEF GenerateKey, GenerateFails, Written, WriteOrder, KeyFirst
<1>12. CASE GenerateCertificate
  BY <1>12 DEF GenerateCertificate, GenerateFails, Written, WriteOrder, KeyFirst
<1>13. CASE TlsListen
  BY <1>13 DEF TlsListen, Fails
<1>14. CASE StartThreads
  BY <1>14 DEF StartThreads, Goes, Fails
<1>15. CASE SetupFails
  BY <1>15 DEF SetupFails, Goes, Destroyed
<1>16. CASE ModuleStop
  BY <1>16 DEF ModuleStop, Stop, Stopped, Destroyed
<1>17. CASE ModuleCleanup
  BY <1>17 DEF ModuleCleanup, Stop, Stopped, Destroyed
<1>18. CASE PowerLost
  BY <1>18 DEF PowerLost
<1>19. CASE UNCHANGED rtspVars
  BY <1>19 DEF rtspVars
<1> QED BY <1>1, <1>2, <1>3, <1>4, <1>5, <1>6, <1>7, <1>8, <1>9, <1>10, <1>11, <1>12,
<1>13, <1>14, <1>15, <1>16, <1>17, <1>18, <1>19
    DEF Next, Start

LEMMA ModuleKept == ModuleInv /\ [Next]_rtspVars => ModuleInv'
BY HeldKept, EncoderKept, PairKept DEF ModuleInv


-----------------------------------------------------------------------------
(* The gate of key frames.  Before the first PLAY of the slot nothing waits and *)
(* no frame clears the flag; after it the flag is up until a key picture was   *)
(* sent, is about to be, or the timeout was taken.                             *)
BeforePlay == sessions <= 1 /\ plays = 0
FirstPlay  == sessions = 1 /\ plays = 1 /\ controls = 0

GateInv ==
  /\ sessions \in Nat /\ plays \in Nat /\ controls \in Nat
  /\ clears => fpc = "send"
  /\ sessions = 0 => ~active /\ plays = 0 /\ controls = 0
  /\ BeforePlay => /\ ~needs /\ ~clears /\ gatePc \in {"idle", "closing"}
                   /\ st # "PLAYING" /\ controls = 0
  /\ FirstPlay =>
       /\ gatePc # "hidden"
       /\ gatePc = "replying" => ~needs /\ ~clears
       /\ (gatePc \in {"stamping", "idle"} /\ G!Playing) =>
            /\ needs \/ keyed \/ expired
            /\ clears => keyed \/ nals \in {<<"ps", "key">>, <<"key">>}

LEMMA GateInitially == G!Init => GateInv
BY DEF G!Init, GateInv, BeforePlay, FirstPlay

LEMMA GateKept == GateInv /\ [G!Next]_(G!vars) => GateInv'
<1> SUFFICES ASSUME GateInv, [G!Next]_(G!vars) PROVE GateInv'
  OBVIOUS
<1> USE DEF GateInv, BeforePlay, FirstPlay, G!Playing, G!slot, G!server, G!time,
       G!sender, G!history
<1>1. CASE G!Connect
  BY <1>1 DEF G!Connect
<1>2. CASE G!Setup
  BY <1>2 DEF G!Setup
<1>3. CASE G!Hide
  BY <1>3 DEF G!Hide
<1>4. CASE G!Resume
  BY <1>4 DEF G!Resume
<1>5. CASE G!Play
  BY <1>5 DEF G!Play
<1>6. CASE G!Raise
  BY <1>6 DEF G!Raise
<1>7. CASE G!Stamp
  BY <1>7 DEF G!Stamp
<1>8. CASE G!Deactivate
  BY <1>8 DEF G!Deactivate
<1>9. CASE G!Teardown
  BY <1>9 DEF G!Teardown
<1>10. CASE G!Clean
  BY <1>10 DEF G!Clean
<1>11. CASE G!FrameArrives
  BY <1>11 DEF G!FrameArrives
<1>12. CASE G!Skip
  BY <1>12 DEF G!Skip
<1>13. CASE G!Pass
  BY <1>13 DEF G!Pass, G!Send
<1>14. CASE G!GiveUp
  BY <1>14 DEF G!GiveUp, G!Send
<1>15. CASE G!SendKey
  BY <1>15 DEF G!SendKey, G!Send, G!Opens, G!NalsOf
<1>16. CASE G!SendNal
  <2>1. nals = <<"ps", "key">> => nals' = <<"key">>
    BY <1>16 DEF G!SendNal
  <2>2. nals = <<"key">> /\ st = "PLAYING" => keyed'
    <3>1. nals = <<"key">> => Head(nals) = "key"
      OBVIOUS
    <3> QED BY <3>1, <1>16 DEF G!SendNal
  <2>3. UNCHANGED <<G!slot, G!server, fpc, clears, expired>> /\ (keyed => keyed')
    BY <1>16 DEF G!SendNal
  <2>4. fpc = "send"
    BY <1>16 DEF G!SendNal
  <2> HIDE DEF G!Playing
  <2>5. G!Playing' <=> G!Playing
    BY <2>3 DEF G!Playing
  <2>6. (FirstPlay /\ gatePc \in {"stamping", "idle"} /\ G!Playing /\ clears) =>
          keyed' \/ nals' \in {<<"ps", "key">>, <<"key">>}
    BY <2>1, <2>2, <2>3 DEF G!Playing
  <2> QED BY <2>3, <2>4, <2>5, <2>6
<1>17. CASE G!FrameDone
  BY <1>17 DEF G!FrameDone
<1>18. CASE G!Tick
  BY <1>18 DEF G!Tick
<1>19. CASE UNCHANGED G!vars
  BY <1>19 DEF G!vars
<1> QED BY <1>1, <1>2, <1>3, <1>4, <1>5, <1>6, <1>7, <1>8, <1>9, <1>10, <1>11, <1>12,
<1>13, <1>14, <1>15, <1>16, <1>17, <1>18, <1>19 DEF G!Next, G!Server, G!FrameThread
-----------------------------------------------------------------------------
(* The TLS sessions of a slot.                                                 *)

(* The slot has no session while none can be cleaned up, and OpenSSL's mutex is *)
(* held by the thread that writes, unless it was made anew beneath it.          *)
TlsInv ==
  /\ tlsPc \in [T!Threads -> {"idle", "handshake", "reading", "request", "ready", "lock",
                              "writing", "sleep", "cleanup", "exhausted", "mutex"}]
  /\ session \in [T!Sessions -> {"none", "handshake", "live", "freed"}]
  /\ made \in 0..TlsSessions
  /\ tlsPc["server"] \in {"handshake", "mutex"} => ctx = 0
  /\ (tlsPc["server"] = "idle" /\ ~tlsActive) => ctx = 0
  /\ tlsPc["server"] \notin {"idle", "cleanup", "mutex"} => tlsActive
  /\ T!SessionsOwned

MutexInv ==
  (tlsBackend = "openssl" /\ ~unmade) =>
    \A t \in T!Threads : tlsPc[t] \in {"writing", "exhausted"} => mutex = t

LEMMA TlsInitially == T!Init => TlsInv /\ MutexInv
BY TlsAssumption DEF T!BoundsAssumption, T!Init, TlsInv, MutexInv, T!SessionsOwned,
   T!Threads, T!Sessions

LEMMA TlsKept == TlsInv /\ [T!Next]_(T!tlsVars) => TlsInv'
<1> SUFFICES ASSUME TlsInv, [T!Next]_(T!tlsVars) PROVE TlsInv'
  OBVIOUS
<1> USE TlsAssumption DEF T!BoundsAssumption, TlsInv, T!SessionsOwned, T!Threads,
       T!Sessions, T!slotVars, T!threadVars, T!Goto
<1>1. CASE T!Accept
  BY <1>1 DEF T!Accept
<1>2. CASE T!Shaken
  <2>1. T!SessionsOwned'
    <3> SUFFICES ASSUME NEW s \in T!Sessions, session'[s] = "live", s # made
                 PROVE s \in invalid'
      BY <1>2 DEF T!Shaken
    <3>1. session[s] = "live" /\ invalid' = invalid /\ ctx = 0
      BY <1>2 DEF T!Shaken
    <3> QED BY <3>1
  <2> QED BY <1>2, <2>1 DEF T!Shaken
<1>3. CASE T!HandshakeFails
  BY <1>3 DEF T!HandshakeFails, T!AfterFailure, T!FreedOnFailure
<1>4. CASE T!Deactivate
  BY <1>4 DEF T!Deactivate
<1>5. CASE T!FreeSession
  BY <1>5 DEF T!FreeSession
<1>6. CASE T!RenewMutex
  BY <1>6 DEF T!RenewMutex
<1>7. CASE T!Read
  BY <1>7 DEF T!Read
<1>8. CASE T!ReadDone
  BY <1>8 DEF T!ReadDone
<1>9. CASE T!BeginFrame
  BY <1>9 DEF T!BeginFrame
<1>10. CASE T!EndFrame
  BY <1>10 DEF T!EndFrame
<1>11. ASSUME NEW t \in T!Threads, T!Writer(t) PROVE TlsInv'
  <2> USE DEF T!Return, T!MayWrite
  <2>1. CASE T!Write(t)
    BY <2>1 DEF T!Write
  <2>2. CASE T!Lock(t)
    BY <2>2 DEF T!Lock
  <2>3. CASE T!WriteDone(t)
    BY <2>3 DEF T!WriteDone
  <2>4. CASE T!WantMore(t)
    BY <2>4 DEF T!WantMore
  <2>5. CASE T!WriteCorrupted(t)
    BY <2>5 DEF T!WriteCorrupted
  <2> QED BY <1>11, <2>1, <2>2, <2>3, <2>4, <2>5 DEF T!Writer
<1>12. CASE UNCHANGED T!tlsVars
  BY <1>12 DEF T!tlsVars
<1> QED BY <1>1, <1>2, <1>3, <1>4, <1>5, <1>6, <1>7, <1>8, <1>9, <1>10, <1>11, <1>12
     DEF T!Next, T!Server

LEMMA MutexKept == TlsInv /\ MutexInv /\ [T!Next]_(T!tlsVars) => MutexInv'
<1> SUFFICES ASSUME TlsInv, MutexInv, [T!Next]_(T!tlsVars) PROVE MutexInv'
  OBVIOUS
<1> USE DEF TlsInv, MutexInv, T!Threads, T!slotVars, T!threadVars, T!Goto
<1>1. CASE T!Server
  BY <1>1 DEF T!Server, T!Accept, T!Shaken, T!HandshakeFails, T!Deactivate,
     T!FreeSession, T!RenewMutex, T!Read, T!ReadDone
<1>2. CASE T!BeginFrame \/ T!EndFrame
  BY <1>2 DEF T!BeginFrame, T!EndFrame
<1>3. ASSUME NEW t \in T!Threads, T!Writer(t) PROVE MutexInv'
  <2> USE DEF T!Return, T!MayWrite, T!Unlock
  <2>1. CASE T!Write(t)
    BY <2>1 DEF T!Write
  <2>2. CASE T!Lock(t)
    BY <2>2 DEF T!Lock, T!Lockable, T!MutexFree
  <2>3. CASE T!WriteDone(t)
    BY <2>3 DEF T!WriteDone
  <2>4. CASE T!WantMore(t)
    BY <2>4 DEF T!WantMore
  <2>5. CASE T!WriteCorrupted(t)
    BY <2>5 DEF T!WriteCorrupted
  <2> QED BY <1>3, <2>1, <2>2, <2>3, <2>4, <2>5 DEF T!Writer
<1>4. CASE UNCHANGED T!tlsVars
  BY <1>4 DEF T!tlsVars
<1> QED BY <1>1, <1>2, <1>3, <1>4 DEF T!Next

-----------------------------------------------------------------------------
(* A behaviour of the parts is one of each of them that stutters in its turn.  *)
LEMMA StepsOfParts ==
  ASSUME [PartsNext]_partsVars
  PROVE  [Next]_rtspVars /\ [G!Next]_(G!vars) /\ [T!Next]_(T!tlsVars)
<1>1. [Next]_rtspVars
  BY DEF PartsNext, partsVars, others
<1>2. [G!Next]_(G!vars)
  BY DEF PartsNext, partsVars, gateVars, G!vars, G!slot, G!server, G!time, G!sender,
     G!history
<1>3. [T!Next]_(T!tlsVars)
  BY DEF PartsNext, partsVars, others, tlsVars, T!tlsVars, T!slotVars, T!threadVars
<1> QED BY <1>1, <1>2, <1>3

(* rtsp_server.c:294-446, rtsp_module.c:379-472: whichever calls of the starts *)
(* failed, a module without a server holds nothing of one, and after a cleanup *)
(* no encoder receives, unless a start had failed.                             *)
THEOREM FailedStartsLeaveNothing == PartsSpec => []NothingLeftBehind
<1>1. ModuleInv => NothingLeftBehind
  BY DEF ModuleInv, HeldInv, EncoderInv, NothingLeftBehind, NoServerNothingHeld,
     EncodersStopped
<1>2. PartsInit => ModuleInv
  BY ModuleInitially DEF PartsInit
<1>3. ModuleInv /\ [PartsNext]_partsVars => ModuleInv'
  BY ModuleKept, StepsOfParts
<1> QED BY <1>1, <1>2, <1>3, PTL DEF PartsSpec

(* rtsp_server.c:3350-3497: neither a loss of power between the two files nor a *)
(* write that fails makes the server present a certificate with an older key.  *)
THEOREM ServerPresentsPair == PartsSpec => []PresentsPair
<1>1. ModuleInv => PresentsPair
  BY DEF ModuleInv, PairInv, PresentsPair
<1>2. PartsInit => ModuleInv
  BY ModuleInitially DEF PartsInit
<1>3. ModuleInv /\ [PartsNext]_partsVars => ModuleInv'
  BY ModuleKept, StepsOfParts
<1> QED BY <1>1, <1>2, <1>3, PTL DEF PartsSpec

(* rtsp_server.c:841-858: the first PLAY of a slot is answered with a key      *)
(* picture or the five seconds of the timeout, however the frame thread's      *)
(* steps fall between the three writes of handle_play_request.                 *)
THEOREM KeyOpensGate == PartsSpec => []KeyOrTimeout
<1>1. GateInv => KeyOrTimeout
  BY DEF GateInv, FirstPlay, KeyOrTimeout, G!KeyOrTimeout, G!Undisturbed
<1>2. PartsInit => GateInv
  BY GateInitially DEF PartsInit
<1>3. GateInv /\ [PartsNext]_partsVars => GateInv'
  BY GateKept, StepsOfParts
<1> QED BY <1>1, <1>2, <1>3, PTL DEF PartsSpec

(* rtsp_server.c:3176-3329: of all the sessions of a slot none is forgotten but *)
(* by the write that failed on it, and OpenSSL's writers exclude each other    *)
(* until cleanup_client makes their mutex anew under one of them.              *)
THEOREM TlsSessionsOwned == PartsSpec => []SlotTlsSound
<1>1. TlsInv /\ MutexInv => SlotTlsSound
  BY DEF TlsInv, MutexInv, SlotTlsSound, T!WritersExclude, T!Inside, T!Threads
<1>2. PartsInit => TlsInv /\ MutexInv
  BY TlsInitially DEF PartsInit
<1>3. TlsInv /\ MutexInv /\ [PartsNext]_partsVars => (TlsInv /\ MutexInv)'
  BY StepsOfParts, TlsKept, MutexKept
<1> QED BY <1>1, <1>2, <1>3, PTL DEF PartsSpec

-----------------------------------------------------------------------------
(* A frame on its way in packets (RtpPayload): the packets of the unit at hand*)
(* are chained up to the byte the frame thread has reached, and those of the  *)
(* units before it up to their ends.                                          *)

\* What goes out: packets, prefixes and replies.
PacketSet == [nal : Nat, from : Nat, to : Nat, fu : BOOLEAN, s : BOOLEAN, e : BOOLEAN,
              m : BOOLEAN]
PrefixSet == [prefix : PacketSet]
ReplySet  == [reply : Nat]
Items == PacketSet \union PrefixSet \union ReplySet

\* A unit that one packet holds.
InOne == P!Plain \/ P!Whole

\* The types of the payload part, and that a unit in fragments still has bytes to
\* send.
PayloadTypes ==
  /\ codec \in {"h264", "h265"}
  /\ requests \in Nat /\ failed \in BOOLEAN /\ hidden \in BOOLEAN
  /\ rtpNals \in Seq(Sizes) /\ Len(rtpNals) >= 1
  /\ nal \in 1..(Len(rtpNals) + 1)
  /\ rtpPc \in {"next", "send", "body", "end"}
  /\ rtpPc = "end" <=> nal = Len(rtpNals) + 1
  /\ done \in Nat /\ fragments \in Nat
  /\ out \in Seq(Items)
  /\ rtpPc \in {"send", "body"} /\ ~InOne => done < P!Size

\* A client that was never hidden plays.
NeverHidden == ~hidden => state = "PLAYING"

\* Of a frame of which no send failed: the units behind the one at hand are assembled
\* or were not sent at all, in order, and nothing follows the marker.  When nothing
\* disturbs it, all of them were sent, and the last packet of the frame has the marker.
PayloadProgress ==
  ~failed =>
    /\ \A n \in 1..(nal - 1) : P!Of(n) = {} \/ P!Assembled(n)
    /\ \A i \in P!Sent : out[i].nal <= nal
    /\ \A i, j \in P!Sent : i <= j => out[i].nal <= out[j].nal
    /\ \A i \in P!Sent : out[i].m => rtpPc = "end" /\ P!Final(P!Sent, i)
    /\ P!Undisturbed => \A n \in 1..(nal - 1) : P!Of(n) # {}
    /\ P!Undisturbed /\ rtpPc = "end" =>
         \A i \in P!Sent : P!Final(P!Sent, i) => out[i].m

\* Of the unit at hand: its fragments are chained from its first byte up to
\* "done", none of them marked as the end.
UnitProgress ==
  ~failed =>
    /\ rtpPc = "next" => P!Of(nal) = {}
    /\ rtpPc \in {"send", "body"} =>
         /\ P!Chained(P!Of(nal))
         /\ InOne => P!Of(nal) = {}
         /\ fragments = 0 <=> P!Of(nal) = {}
         /\ P!Of(nal) = {} /\ ~InOne => done = P!NalHeader
         /\ \A i \in P!Of(nal) :
              out[i].fu /\ ~out[i].e /\ (P!Final(P!Of(nal), i) => out[i].to = done)

\* The inductive invariant of a frame on its way.
PayloadInv == PayloadTypes /\ NeverHidden /\ PayloadProgress /\ UnitProgress

\* A position behind all the others is the last, and follows the last of them.
LEMMA LastAdded ==
  ASSUME NEW I \in SUBSET Nat, NEW k \in Nat, \A i \in I : i < k
  PROVE  /\ \A i \in I : P!First(I \union {k}, i) <=> P!First(I, i)
         /\ P!First(I \union {k}, k) <=> I = {}
         /\ \A i \in I \union {k} : P!Final(I \union {k}, i) <=> i = k
         /\ \A i, j \in I : P!Follows(I \union {k}, i, j) <=> P!Follows(I, i, j)
         /\ \A i \in I : P!Follows(I \union {k}, i, k) <=> P!Final(I, i)
         /\ \A j \in I \union {k} : ~P!Follows(I \union {k}, k, j)
<1>1. \A i \in I : P!First(I \union {k}, i) <=> P!First(I, i)
  BY DEF P!First
<1>2. P!First(I \union {k}, k) <=> I = {}
  BY DEF P!First
<1>3. \A i \in I \union {k} : P!Final(I \union {k}, i) <=> i = k
  BY DEF P!Final
<1>4. \A i, j \in I : P!Follows(I \union {k}, i, j) <=> P!Follows(I, i, j)
  BY DEF P!Follows
<1>5. \A i \in I : P!Follows(I \union {k}, i, k) <=> P!Final(I, i)
  BY DEF P!Follows, P!Final
<1>6. \A j \in I \union {k} : ~P!Follows(I \union {k}, k, j)
  BY DEF P!Follows
<1> QED BY <1>1, <1>2, <1>3, <1>4, <1>5, <1>6

\* A packet has a unit; prefixes and replies have none.
LEMMA PacketOrNot ==
  /\ \A o \in PacketSet : P!IsPacket(o)
  /\ \A o \in PrefixSet \union ReplySet : ~P!IsPacket(o)
<1>1. \A o \in PacketSet : P!IsPacket(o)
  BY DEF PacketSet, P!IsPacket
<1>2. \A o \in PrefixSet : ~P!IsPacket(o)
  BY DEF PrefixSet, P!IsPacket
<1>3. \A o \in ReplySet : ~P!IsPacket(o)
  BY DEF ReplySet, P!IsPacket
<1> QED BY <1>1, <1>2, <1>3

\* The packets among what went out.
LEMMA Positions ==
  ASSUME out \in Seq(Items)
  PROVE  /\ P!Sent \subseteq 1..Len(out) /\ P!Sent \subseteq Nat
         /\ \A n : P!Of(n) \subseteq P!Sent
         /\ \A n : \A i \in P!Sent : i \in P!Of(n) <=> out[i].nal = n
         /\ \A i \in P!Sent : out[i] \in PacketSet
<1>1. P!Sent \subseteq 1..Len(out) /\ P!Sent \subseteq Nat
  BY DEF P!Sent
<1>2. \A n : P!Of(n) \subseteq P!Sent
  BY DEF P!Of
<1>3. \A n : \A i \in P!Sent : i \in P!Of(n) <=> out[i].nal = n
  BY DEF P!Of
<1>4. ASSUME NEW i \in P!Sent PROVE out[i] \in PacketSet
  <2>1. out[i] \in Items /\ P!IsPacket(out[i])
    BY DEF P!Sent
  <2> QED BY <2>1, PacketOrNot DEF Items
<1> QED BY <1>1, <1>2, <1>3, <1>4

\* One packet more is the last of its unit.
LEMMA PacketSent ==
  ASSUME out \in Seq(Items), NEW x \in PacketSet, out' = Append(out, x)
  PROVE  /\ out' \in Seq(Items) /\ Len(out) + 1 \in Nat
         /\ P!Sent' = P!Sent \union {Len(out) + 1}
         /\ out'[Len(out) + 1] = x
         /\ \A i \in P!Sent : i < Len(out) + 1 /\ out'[i] = out[i]
         /\ \A n : x.nal = n => P!Of(n)' = P!Of(n) \union {Len(out) + 1}
         /\ \A n : x.nal # n => P!Of(n)' = P!Of(n)
<1>1. x \in Items /\ P!IsPacket(x)
  BY PacketOrNot DEF Items
<1>2. /\ out' \in Seq(Items) /\ Len(out') = Len(out) + 1 /\ Len(out) \in Nat
      /\ DOMAIN out = 1..Len(out) /\ DOMAIN out' = 1..(Len(out) + 1)
      /\ out'[Len(out) + 1] = x /\ \A i \in 1..Len(out) : out'[i] = out[i]
  BY <1>1
<1>3. P!Sent' = P!Sent \union {Len(out) + 1}
  <2>1. P!Sent' = {i \in DOMAIN out' : P!IsPacket(out'[i])}
    BY DEF P!Sent, P!IsPacket
  <2>2. P!Sent = {i \in DOMAIN out : P!IsPacket(out[i])}
    BY DEF P!Sent
  <2>3. ASSUME NEW i PROVE i \in P!Sent' <=> i \in P!Sent \union {Len(out) + 1}
    <3>1. CASE i \in 1..Len(out)
      BY <1>2, <2>1, <2>2, <3>1
    <3>2. CASE i = Len(out) + 1
      BY <1>1, <1>2, <2>1, <3>2
    <3>3. CASE i \notin 1..(Len(out) + 1)
      BY <1>2, <2>1, <2>2, <3>3
    <3> QED BY <1>2, <3>1, <3>2, <3>3
  <2> QED BY <2>3
<1>4. \A i \in P!Sent : i < Len(out) + 1 /\ out'[i] = out[i]
  BY <1>2, Positions
<1>5. \A n : P!Of(n)' = {i \in P!Sent' : out'[i].nal = n}
  BY DEF P!Of
<1>6. ASSUME NEW n, x.nal = n PROVE P!Of(n)' = P!Of(n) \union {Len(out) + 1}
  BY <1>2, <1>3, <1>4, <1>5, <1>6 DEF P!Of
<1>7. ASSUME NEW n, x.nal # n PROVE P!Of(n)' = P!Of(n)
  BY <1>2, <1>3, <1>4, <1>5, <1>7 DEF P!Of
<1>8. \A n : x.nal = n => P!Of(n)' = P!Of(n) \union {Len(out) + 1}
  BY <1>6
<1>9. \A n : x.nal # n => P!Of(n)' = P!Of(n)
  BY <1>7
<1>10. out' \in Seq(Items) /\ Len(out) + 1 \in Nat /\ out'[Len(out) + 1] = x
  BY <1>2
<1> QED BY <1>3, <1>4, <1>8, <1>9, <1>10, Zenon

\* A prefix or a reply leaves the packets where they are.
LEMMA OtherSent ==
  ASSUME out \in Seq(Items), NEW x \in PrefixSet \union ReplySet, out' = Append(out, x)
  PROVE  /\ out' \in Seq(Items) /\ P!Sent' = P!Sent
         /\ \A i \in P!Sent : out'[i] = out[i]
         /\ \A n : P!Of(n)' = P!Of(n)
<1>1. x \in Items /\ ~P!IsPacket(x)
  BY PacketOrNot DEF Items
<1>2. /\ out' \in Seq(Items) /\ Len(out') = Len(out) + 1 /\ Len(out) \in Nat
      /\ DOMAIN out = 1..Len(out) /\ DOMAIN out' = 1..(Len(out) + 1)
      /\ out'[Len(out) + 1] = x /\ \A i \in 1..Len(out) : out'[i] = out[i]
  BY <1>1
<1>3. P!Sent' = P!Sent
  <2>1. P!Sent' = {i \in DOMAIN out' : P!IsPacket(out'[i])}
    BY DEF P!Sent, P!IsPacket
  <2>2. P!Sent = {i \in DOMAIN out : P!IsPacket(out[i])}
    BY DEF P!Sent
  <2>3. ASSUME NEW i PROVE i \in P!Sent' <=> i \in P!Sent
    <3>1. CASE i \in 1..Len(out)
      BY <1>2, <2>1, <2>2, <3>1
    <3>2. CASE i = Len(out) + 1
      BY <1>1, <1>2, <2>1, <2>2, <3>2
    <3>3. CASE i \notin 1..(Len(out) + 1)
      BY <1>2, <2>1, <2>2, <3>3
    <3> QED BY <1>2, <3>1, <3>2, <3>3
  <2> QED BY <2>3
<1>4. \A i \in P!Sent : out'[i] = out[i]
  BY <1>2, Positions
<1>5. \A n : P!Of(n)' = {i \in P!Sent' : out'[i].nal = n}
  BY DEF P!Of
<1>6. ASSUME NEW n PROVE P!Of(n)' = P!Of(n)
  BY <1>3, <1>4, <1>5 DEF P!Of
<1> QED BY <1>2, <1>3, <1>4, <1>6

\* Packets that stay where they are stay chained.
LEMMA ChainStays ==
  ASSUME NEW I, \A i \in I : out'[i] = out[i], codec' = codec, P!Chained(I)
  PROVE  P!Chained(I)'
BY DEF P!Chained, P!FuHeaders, P!NalHeader

\* Packets that stay where they are stay ended.
LEMMA EndStays ==
  ASSUME NEW I, NEW n, \A i \in I : out'[i] = out[i], rtpNals' = rtpNals, P!Ended(n, I)
  PROVE  P!Ended(n, I)'
BY DEF P!Ended

\* A packet that begins where the last one ended extends the chain.
LEMMA ChainGrows ==
  ASSUME NEW I \in SUBSET Nat, NEW k \in Nat, \A i \in I : i < k /\ out'[i] = out[i],
         codec' = codec, P!Chained(I), NEW x, out'[k] = x,
         x.to - x.from + (IF x.fu THEN P!FuHeaders ELSE 0) <= Room,
         x.s = (x.fu /\ I = {}),
         I = {} => x.from = IF x.fu THEN P!NalHeader ELSE 0,
         \A i \in I : P!Final(I, i) => x.from = out[i].to
  PROVE  P!Chained(I \union {k})'
<1> DEFINE J == I \union {k}
<1>1. /\ \A i \in I : P!First(J, i) <=> P!First(I, i)
      /\ P!First(J, k) <=> I = {}
      /\ \A i, j \in I : P!Follows(J, i, j) <=> P!Follows(I, i, j)
      /\ \A i \in I : P!Follows(J, i, k) <=> P!Final(I, i)
      /\ \A j \in J : ~P!Follows(J, k, j)
  BY LastAdded
<1>2. P!FuHeaders' = P!FuHeaders /\ P!NalHeader' = P!NalHeader
  BY DEF P!FuHeaders, P!NalHeader
<1> HIDE DEF J
<1>3. ASSUME NEW i \in J
      PROVE  /\ out'[i].to - out'[i].from + (IF out'[i].fu THEN P!FuHeaders ELSE 0) <= Room
             /\ out'[i].s = (out'[i].fu /\ P!First(J, i))
             /\ P!First(J, i) => out'[i].from = IF out'[i].fu THEN P!NalHeader ELSE 0
  <2>1. CASE i \in I
    <3>1. /\ out[i].to - out[i].from + (IF out[i].fu THEN P!FuHeaders ELSE 0) <= Room
          /\ out[i].s = (out[i].fu /\ P!First(I, i))
          /\ P!First(I, i) => out[i].from = IF out[i].fu THEN P!NalHeader ELSE 0
      BY <2>1 DEF P!Chained
    <3>2. out'[i] = out[i]
      BY <2>1
    <3>3. P!First(J, i) = P!First(I, i)
      BY <1>1, <2>1 DEF P!First
    <3> QED BY <3>1, <3>2, <3>3
  <2>2. CASE i = k
    <3>1. P!First(J, i) = (I = {})
      BY <1>1, <2>2 DEF P!First
    <3> QED BY <2>2, <3>1
  <2> QED BY <2>1, <2>2 DEF J
<1>4. ASSUME NEW i \in J, NEW j \in J, P!Follows(J, i, j)
      PROVE  out'[j].from = out'[i].to
  <2>1. CASE i \in I /\ j \in I
    BY <1>1, <1>4, <2>1 DEF P!Chained
  <2>2. CASE i \in I /\ j = k
    BY <1>1, <1>4, <2>2
  <2>3. CASE i = k
    BY <1>1, <1>4, <2>3
  <2> QED BY <2>1, <2>2, <2>3 DEF J
<1>5. P!Chained(J)'
  BY <1>2, <1>3, <1>4 DEF P!Chained
<1> QED BY <1>5 DEF J

\* A packet up to the last byte ends the unit.
LEMMA EndGrows ==
  ASSUME NEW I \in SUBSET Nat, NEW k \in Nat, NEW n, \A i \in I : i < k /\ out'[i] = out[i],
         \A i \in I : out[i].e = FALSE, NEW x, out'[k] = x, x.e = x.fu, x.to = rtpNals[n],
         x.fu \in BOOLEAN, rtpNals' = rtpNals
  PROVE  P!Ended(n, I \union {k})'
<1> DEFINE J == I \union {k}
<1>1. \A i \in J : P!Final(J, i) <=> i = k
  BY LastAdded
<1>2. k \notin I
  OBVIOUS
<1> HIDE DEF J
<1>3. ASSUME NEW i \in J PROVE out'[i].e = (out'[i].fu /\ P!Final(J, i))
  <2>1. CASE i \in I
    <3>1. P!Final(J, i) = FALSE
      BY <1>1, <1>2, <2>1 DEF P!Final, J
    <3> QED BY <2>1, <3>1
  <2>2. CASE i = k
    <3>1. P!Final(J, i) = TRUE
      BY <1>1, <2>2 DEF P!Final, J
    <3> QED BY <2>2, <3>1
  <2> QED BY <2>1, <2>2 DEF J
<1>4. k \in J /\ P!Final(J, k) /\ out'[k].to = rtpNals'[n]
  BY <1>1 DEF J
<1>5. P!Ended(n, J)'
  BY <1>3, <1>4 DEF P!Ended
<1> QED BY <1>5 DEF J

\* The sizes of the headers fit the room of a packet.
LEMMA Rooms ==
  ASSUME PayloadTypes
  PROVE  /\ Room \in Nat /\ Room > 4
         /\ P!FuHeaders \in Nat /\ P!NalHeader \in Nat /\ P!MaxSingle \in Nat /\ P!MaxPayload \in Nat
         /\ P!MaxSingle + 4 = Room /\ P!MaxPayload + P!FuHeaders = Room
         /\ P!MaxPayload >= 2 /\ P!NalHeader <= P!MaxPayload /\ P!MaxSingle < Room
<1>1. Room \in Nat /\ Room > 4
  BY PayloadAssumption DEF P!SizesAssumption
<1>2. P!FuHeaders \in {2, 3} /\ P!NalHeader \in {1, 2}
  BY DEF P!FuHeaders, P!NalHeader
<1> QED BY <1>1, <1>2 DEF P!MaxSingle, P!MaxPayload

\* A unit in one packet fits it, and one in fragments is longer than a fragment.
LEMMA UnitSize ==
  ASSUME PayloadTypes, rtpPc # "end"
  PROVE  /\ nal \in 1..Len(rtpNals) /\ nal \in Nat /\ P!Size \in Nat \ {0} /\ P!Size = rtpNals[nal]
         /\ Len(rtpNals) \in Nat
         /\ InOne => P!Size <= Room
         /\ ~InOne => P!Size > P!MaxPayload
<1>1. nal \in 1..Len(rtpNals) /\ Len(rtpNals) \in Nat
  BY DEF PayloadTypes
<1>2. P!Size \in Sizes /\ P!Size = rtpNals[nal]
  BY <1>1 DEF PayloadTypes, P!Size
<1>3. P!Size \in Nat \ {0}
  BY <1>2, PayloadAssumption DEF P!SizesAssumption
<1>4. InOne => P!Size <= Room
  BY <1>3, Rooms DEF InOne, P!Plain, P!Whole
<1>5. ~InOne => P!Size > P!MaxPayload
  BY <1>3, Rooms DEF InOne, P!Plain, P!Whole
<1> QED BY <1>1, <1>2, <1>3, <1>4, <1>5

\* a unit in one packet
LEMMA UnitPacket ==
  ASSUME PayloadTypes, rtpPc # "end"
  PROVE  /\ P!Unit \in PacketSet /\ P!Unit.nal = nal /\ P!Unit.from = 0 /\ P!Unit.to = P!Size
         /\ P!Unit.fu = FALSE /\ P!Unit.s = FALSE /\ P!Unit.e = FALSE /\ P!Unit.m = P!Marked
         /\ InOne => P!Packet = P!Unit
<1>1. P!Marked \in BOOLEAN
  BY DEF P!Marked
<1>2. P!Unit = [nal |-> nal, from |-> 0, to |-> P!Size, fu |-> FALSE, s |-> FALSE, e |-> FALSE,
                m |-> P!Marked]
  BY DEF P!Unit
<1>3. InOne => P!Packet = P!Unit
  BY DEF P!Packet, InOne
<1> QED BY <1>1, <1>2, <1>3, UnitSize DEF PacketSet

\* a fragment of one that is not
LEMMA FragmentPacket ==
  ASSUME PayloadTypes, rtpPc \in {"send", "body"}, ~InOne
  PROVE  /\ P!Fragment \in PacketSet /\ P!Fragment.nal = nal /\ P!Fragment.from = done
         /\ P!Fragment.fu = TRUE /\ P!Fragment.s = (fragments = 0)
         /\ P!Fragment.e = (P!Fragment.to = P!Size)
         /\ P!Fragment.m = (P!Marked /\ P!Fragment.to = P!Size)
         /\ P!Fragment.to <= P!Size /\ P!Fragment.to - done <= P!MaxPayload
         /\ P!Packet = P!Fragment
<1>1. done \in Nat /\ done < P!Size /\ P!Size \in Nat /\ nal \in Nat /\ P!MaxPayload \in Nat
      /\ P!MaxPayload >= 2
  BY UnitSize, Rooms DEF PayloadTypes
<1> DEFINE to == done + P!Smaller(P!Size - done, P!MaxPayload)
<1>2. P!Fragment = [nal |-> nal, from |-> done, to |-> to,
                    fu |-> TRUE, s |-> fragments = 0, e |-> P!IsLast, m |-> P!Marked /\ P!IsLast]
  BY DEF P!Fragment
<1>3. to \in Nat /\ to <= P!Size /\ to - done <= P!MaxPayload
  BY <1>1 DEF P!Smaller
<1>4. P!IsLast <=> to = P!Size
  BY <1>1 DEF P!IsLast, P!LastAtMost, P!Smaller
<1>5. P!IsLast \in BOOLEAN /\ P!Marked \in BOOLEAN
  BY DEF P!IsLast, P!LastAtMost, P!Marked
<1>6. P!IsLast = (to = P!Size)
  BY <1>4, <1>5
<1>7. P!Packet = P!Fragment
  BY DEF P!Packet, InOne
<1> HIDE DEF to
<1>8. P!Fragment \in PacketSet
  BY <1>1, <1>2, <1>3, <1>5 DEF PacketSet
<1>9. P!Fragment.to = to /\ P!Fragment.e = P!IsLast /\ P!Fragment.m = (P!Marked /\ P!IsLast)
  BY <1>2
<1> QED BY <1>2, <1>3, <1>6, <1>7, <1>8, <1>9

\* What the packet at hand carries.
LEMMA PacketFacts ==
  ASSUME PayloadTypes, rtpPc \in {"send", "body"}
  PROVE  /\ P!Packet \in PacketSet /\ P!Packet.nal = nal
         /\ P!Packet.to - P!Packet.from + (IF P!Packet.fu THEN P!FuHeaders ELSE 0) <= Room
         /\ InOne => P!Packet.from = 0 /\ P!Packet.to = P!Size /\ P!Packet.fu = FALSE
                      /\ P!Packet.s = FALSE
         /\ ~InOne => P!Packet.from = done /\ P!Packet.fu = TRUE /\ P!Packet.s = (fragments = 0)
                       /\ P!Packet.to <= P!Size
         /\ P!Packet.to = P!Size => P!Packet.e = P!Packet.fu
         /\ P!Packet.to # P!Size => P!Packet.e = FALSE
         /\ P!Packet.m = (P!Marked /\ P!Packet.to = P!Size)
<1>1. CASE InOne
  <2>1. P!Packet = P!Unit /\ P!Marked \in BOOLEAN
    BY <1>1, UnitPacket DEF P!Marked
  <2>2. P!Size \in Nat /\ P!Size <= Room
    BY <1>1, UnitSize
  <2>3. P!Packet.from = 0 /\ P!Packet.to = P!Size /\ P!Packet.fu = FALSE /\ P!Packet.s = FALSE
        /\ P!Packet.e = FALSE /\ P!Packet.m = P!Marked /\ P!Packet \in PacketSet /\ P!Packet.nal = nal
    BY <2>1, UnitPacket
  <2>4. P!Packet.m = (P!Marked /\ P!Packet.to = P!Size)
    BY <2>1, <2>3
  <2>5. P!Packet.to - P!Packet.from + (IF P!Packet.fu THEN P!FuHeaders ELSE 0) <= Room
    BY <2>2, <2>3
  <2> QED BY <1>1, <2>3, <2>4, <2>5
<1>2. CASE ~InOne
  <2>1. P!Packet = P!Fragment
    BY <1>2, FragmentPacket
  <2>2. P!Packet.to \in Nat /\ done \in Nat
    BY <1>2, <2>1, FragmentPacket DEF PacketSet, PayloadTypes
  <2>3. P!Packet.to - P!Packet.from + P!FuHeaders <= Room
    <3>1. P!Packet.from = done /\ P!Packet.to - done <= P!MaxPayload
      BY <1>2, <2>1, FragmentPacket
    <3>2. P!MaxPayload \in Nat /\ P!FuHeaders \in Nat /\ P!MaxPayload + P!FuHeaders = Room
      BY Rooms
    <3> HIDE DEF InOne
    <3>3. \A t, f \in Nat, a, b \in Nat : t - f <= a /\ a + b = Room => t - f + b <= Room
      BY Rooms
    <3> QED BY <2>2, <3>1, <3>2, <3>3
  <2> QED BY <1>2, <2>1, <2>3, FragmentPacket
<1> QED BY <1>1, <1>2

\* an interleaved H.265 packet is announced by its prefix
WritesPrefix ==
  /\ rtpPc = "send" /\ (\E p \in PacketSet : out' = Append(out, [prefix |-> p])) /\ rtpPc' = "body"
  /\ UNCHANGED <<codec, state, requests, hidden, rtpNals, nal, done, fragments, failed>>

\* A packet is taken by the transport.
Delivers == rtpPc \in {"send", "body"} /\ P!Deliver

\* What the server thread does to the client, for the frame thread to see.
Serves ==
  /\ UNCHANGED <<codec, rtpNals, nal, rtpPc, done, fragments, failed>>
  /\ requests' \in {requests, requests + 1}
  /\ out' = out \/ out' = Append(out, [reply |-> requests])
  /\ UNCHANGED <<state, hidden>> \/ hidden' = (hidden \/ state' # "PLAYING")

\* Every step of the server thread is one of those.
LEMMA ServerSteps == P!ServerThread => Serves
<1> USE DEF Serves, P!clientVars, P!frameVars, P!BecomeState
<1>1. P!Receive => Serves
  BY DEF P!Receive
<1>2. P!Other \/ P!Play \/ P!Pause \/ P!Teardown => Serves
  BY DEF P!Other, P!Play, P!Pause, P!Teardown
<1>3. P!Setup \/ P!SetupReady => Serves
  BY DEF P!Setup, P!SetupReady
<1>4. P!Respond \/ P!Restore => Serves
  BY DEF P!Respond, P!Restore
<1>5. P!Lose \/ P!Close => Serves
  BY DEF P!Lose, P!Close
<1> QED BY <1>1, <1>2, <1>3, <1>4, <1>5 DEF P!ServerThread

\* The steps of the part, by what they send.
LEMMA PayloadSteps ==
  ASSUME PayloadTypes, [P!Next]_(P!payloadVars)
  PROVE  \/ P!Begin \/ Delivers \/ WritesPrefix \/ P!SendFails
         \/ Serves \/ UNCHANGED P!payloadVars
<1>1. CASE P!SendPlain
  BY <1>1 DEF P!SendPlain, Delivers
<1>2. CASE P!SendWholeH264 \/ P!SendFuH264
  BY <1>2 DEF P!SendWholeH264, P!SendFuH264, Delivers
<1>3. CASE P!SendWholeH265
  <2>1. P!Prefixed(P!Unit) /\ P!Unit \in PacketSet
    BY <1>3, UnitPacket DEF P!SendWholeH265
  <2> QED BY <2>1 DEF P!Prefixed, Delivers, WritesPrefix, P!clientVars, P!serverVars
<1>4. CASE P!SendFuH265
  <2>1. P!Prefixed(P!Fragment) /\ ~InOne
    BY <1>4 DEF P!SendFuH265, InOne
  <2>2. rtpPc \in {"send", "body"}
    BY <2>1 DEF P!Prefixed
  <2>3. P!Fragment \in PacketSet
    BY <2>1, <2>2, FragmentPacket
  <2> QED BY <2>1, <2>3 DEF P!Prefixed, Delivers, WritesPrefix, P!clientVars, P!serverVars
<1>5. CASE P!Finished
  BY <1>5 DEF P!Finished
<1> QED BY <1>1, <1>2, <1>3, <1>4, <1>5, ServerSteps DEF P!Next

\* The frame thread goes on to the next unit, or has sent the last.
LEMMA NextUnit ==
  ASSUME PayloadTypes, rtpPc # "end", P!NextNal, rtpNals' = rtpNals
  PROVE  /\ nal' = nal + 1 /\ nal' \in 1..(Len(rtpNals) + 1) /\ done' = 0 /\ fragments' = 0
         /\ rtpPc' \in {"next", "end"} /\ (rtpPc' = "end" <=> nal' = Len(rtpNals) + 1)
         /\ (rtpPc' = "end" <=> P!Marked)
BY UnitSize DEF P!NextNal, P!Marked

\* Every step keeps the types.
LEMMA PayloadTypesKept == PayloadTypes /\ [P!Next]_(P!payloadVars) => PayloadTypes'
<1> SUFFICES ASSUME PayloadTypes, [P!Next]_(P!payloadVars) PROVE PayloadTypes'
  OBVIOUS
<1>1. CASE P!Begin
  <2>1. /\ rtpPc = "next" /\ UNCHANGED <<codec, requests, hidden, failed, rtpNals, out>>
    BY <1>1 DEF P!Begin, P!clientVars, P!serverVars
  <2>2. CASE P!NextNal
    BY <2>1, <2>2, NextUnit DEF PayloadTypes
  <2>3. CASE ~P!NextNal
    <3>1. /\ rtpPc' = "send" /\ nal' = nal /\ fragments' = 0
          /\ done' = IF InOne THEN 0 ELSE P!NalHeader
      BY <1>1, <2>3 DEF P!Begin, InOne
    <3>2. P!Size' = P!Size /\ (InOne' <=> InOne)
      BY <2>1, <3>1 DEF P!Size, InOne, P!Plain, P!Whole, P!MaxSingle, P!MaxPayload, P!FuHeaders
    <3>3. done' \in Nat /\ (~InOne => done' < P!Size)
      BY <2>1, <3>1, Rooms, UnitSize
    <3>4. nal \in 1..Len(rtpNals)
      BY <2>1, UnitSize
    <3> HIDE DEF InOne
    <3> QED BY <2>1, <3>1, <3>2, <3>3, <3>4 DEF PayloadTypes
  <2> QED BY <2>2, <2>3
<1>2. CASE Delivers
  <2>1. /\ rtpPc \in {"send", "body"} /\ out' = Append(out, P!Packet)
        /\ UNCHANGED <<codec, requests, hidden, failed, rtpNals>>
    BY <1>2 DEF Delivers, P!Deliver, P!clientVars, P!serverVars
  <2>2. P!Packet \in PacketSet /\ out \in Seq(Items)
    BY <2>1, PacketFacts DEF PayloadTypes
  <2>3. out' \in Seq(Items)
    BY <2>1, <2>2, PacketSent
  <2>4. CASE P!Packet.to = P!Size
    <3>1. P!NextNal
      BY <1>2, <2>4 DEF Delivers, P!Deliver
    <3> QED BY <2>1, <2>3, <3>1, NextUnit DEF PayloadTypes
  <2>5. CASE P!Packet.to # P!Size
    <3>1. /\ done' = P!Packet.to /\ fragments' = fragments + 1 /\ rtpPc' = "send" /\ nal' = nal
      BY <1>2, <2>5 DEF Delivers, P!Deliver
    <3>2. P!Size' = P!Size /\ (InOne' <=> InOne)
      BY <2>1, <3>1 DEF P!Size, InOne, P!Plain, P!Whole, P!MaxSingle, P!MaxPayload, P!FuHeaders
    <3>3. done' \in Nat /\ (~InOne => done' < P!Size)
      <4>1. P!Packet.to \in Nat /\ P!Size \in Nat
        BY <2>1, <2>2, UnitSize DEF PacketSet
      <4>2. ~InOne => P!Packet.to <= P!Size
        BY <2>1, PacketFacts
      <4> QED BY <2>5, <3>1, <4>1, <4>2
    <3>4. nal \in 1..Len(rtpNals) /\ fragments \in Nat
      BY <2>1, UnitSize DEF PayloadTypes
    <3> HIDE DEF InOne
    <3> QED BY <2>1, <2>3, <3>1, <3>2, <3>3, <3>4 DEF PayloadTypes
  <2> QED BY <2>4, <2>5
<1>3. CASE WritesPrefix
  <2>1. PICK p \in PacketSet : out' = Append(out, [prefix |-> p])
    BY <1>3 DEF WritesPrefix
  <2>2. [prefix |-> p] \in PrefixSet
    BY DEF PrefixSet
  <2>3. out' \in Seq(Items)
    BY <2>1, <2>2, OtherSent DEF PayloadTypes
  <2>4. P!Size' = P!Size /\ (InOne' <=> InOne)
    BY <1>3 DEF WritesPrefix, P!Size, InOne, P!Plain, P!Whole, P!MaxSingle, P!MaxPayload, P!FuHeaders
  <2> HIDE DEF InOne
  <2> QED BY <1>3, <2>3, <2>4 DEF PayloadTypes, WritesPrefix
<1>4. CASE P!SendFails
  <2>1. rtpPc \in {"send", "body"} /\ P!NextNal /\ failed' = TRUE
        /\ UNCHANGED <<codec, requests, hidden, rtpNals, out>>
    BY <1>4 DEF P!SendFails, P!clientVars, P!serverVars
  <2> QED BY <2>1, NextUnit DEF PayloadTypes
<1>5. CASE Serves \/ UNCHANGED P!payloadVars
  <2>1. /\ UNCHANGED <<codec, rtpNals, nal, rtpPc, done, fragments, failed>>
        /\ requests' \in {requests, requests + 1}
        /\ hidden' = hidden \/ hidden' = (hidden \/ state' # "PLAYING")
    BY <1>5 DEF Serves, P!payloadVars, P!clientVars, P!serverVars, P!frameVars
  <2>2. out' \in Seq(Items)
    <3>1. CASE out' = out
      BY <3>1 DEF PayloadTypes
    <3>2. CASE out' = Append(out, [reply |-> requests])
      <4>1. [reply |-> requests] \in ReplySet
        BY DEF ReplySet, PayloadTypes
      <4> QED BY <3>2, <4>1, OtherSent DEF PayloadTypes
    <3> QED BY <1>5, <3>1, <3>2 DEF Serves, P!payloadVars
  <2>3. P!Size' = P!Size /\ (InOne' <=> InOne)
    BY <2>1 DEF P!Size, InOne, P!Plain, P!Whole, P!MaxSingle, P!MaxPayload, P!FuHeaders
  <2>4. hidden' \in BOOLEAN
    <3>1. hidden \in BOOLEAN /\ (hidden \/ state' # "PLAYING") \in BOOLEAN
      BY DEF PayloadTypes
    <3> QED BY <2>1, <3>1, Zenon
  <2>5. requests' \in Nat
    BY <2>1 DEF PayloadTypes
  <2> HIDE DEF InOne
  <2> QED BY <2>1, <2>2, <2>3, <2>4, <2>5 DEF PayloadTypes
<1> QED BY <1>1, <1>2, <1>3, <1>4, <1>5, PayloadSteps

\* Whoever makes the client stop playing has hidden it.
LEMMA NeverHiddenKept ==
  PayloadTypes /\ NeverHidden /\ [P!Next]_(P!payloadVars) => NeverHidden'
<1> SUFFICES ASSUME PayloadTypes, NeverHidden, [P!Next]_(P!payloadVars) PROVE NeverHidden'
  OBVIOUS
<1>1. CASE P!Begin \/ Delivers \/ WritesPrefix \/ P!SendFails \/ UNCHANGED P!payloadVars
  <2>1. UNCHANGED <<hidden, state>>
    BY <1>1 DEF P!Begin, Delivers, P!Deliver, WritesPrefix, P!SendFails, P!payloadVars, P!clientVars,
                P!serverVars
  <2> QED BY <2>1 DEF NeverHidden
<1>2. CASE Serves
  <2>1. CASE UNCHANGED <<state, hidden>>
    BY <2>1 DEF NeverHidden
  <2>2. CASE hidden' = (hidden \/ state' # "PLAYING")
    <3>1. ~hidden' => state' = "PLAYING"
      BY <2>2, Zenon
    <3> QED BY <3>1 DEF NeverHidden
  <2> QED BY <1>2, <2>1, <2>2 DEF Serves
<1> QED BY <1>1, <1>2, PayloadSteps

\* A frame of which no send failed up to and with a step had none before it, and one
\* that is undisturbed after the step was so before it.
LEMMA NoneFailed ==
  ASSUME PayloadTypes, [P!Next]_(P!payloadVars), ~failed'
  PROVE  /\ ~failed /\ ~P!SendFails /\ codec' = codec /\ rtpNals' = rtpNals
         /\ P!Undisturbed' => P!Undisturbed
<1>1. ~P!SendFails
  BY DEF P!SendFails
<1>2. codec' = codec /\ rtpNals' = rtpNals /\ failed' = failed
      /\ (hidden' = hidden \/ hidden' = (hidden \/ state' # "PLAYING"))
  BY <1>1, PayloadSteps DEF P!Begin, Delivers, P!Deliver, WritesPrefix, Serves, P!payloadVars,
     P!clientVars, P!serverVars, P!frameVars
<1>3. ~hidden' => ~hidden
  BY <1>2 DEF PayloadTypes
<1>4. P!Undisturbed' => P!Undisturbed
  BY <1>2, <1>3 DEF P!Undisturbed
<1> QED BY <1>1, <1>2, <1>4

\* A unit that is assembled stays so.
LEMMA AssembledStays ==
  ASSUME out \in Seq(Items), NEW n, P!Of(n)' = P!Of(n), \A i \in P!Sent : out'[i] = out[i],
         codec' = codec, rtpNals' = rtpNals, P!Assembled(n)
  PROVE  P!Assembled(n)'
<1>1. PICK I : I = P!Of(n)
  OBVIOUS
<1>2. \A i \in I : out'[i] = out[i]
  BY <1>1, Positions
<1>3. P!Chained(I)' /\ P!Ended(n, I)'
  BY <1>1, <1>2, ChainStays, EndStays DEF P!Assembled
<1>4. P!Of(n)' = I
  BY <1>1
<1> QED BY <1>3, <1>4 DEF P!Assembled

\* no packet is sent
LEMMA ProgressStays ==
  ASSUME PayloadTypes, PayloadProgress, UnitProgress, ~failed, P!Undisturbed' => P!Undisturbed,
         P!Sent' = P!Sent, \A n : P!Of(n)' = P!Of(n), \A i \in P!Sent : out'[i] = out[i],
         UNCHANGED <<codec, rtpNals, nal, done, fragments>>,
         rtpPc' = rtpPc \/ (rtpPc = "send" /\ rtpPc' = "body")
  PROVE  PayloadProgress' /\ UnitProgress'
<1>1. /\ \A n \in 1..(nal - 1) : P!Of(n) = {} \/ P!Assembled(n)
      /\ \A i \in P!Sent : out[i].nal <= nal
      /\ \A i, j \in P!Sent : i <= j => out[i].nal <= out[j].nal
      /\ \A i \in P!Sent : out[i].m => rtpPc = "end" /\ P!Final(P!Sent, i)
      /\ P!Undisturbed => \A n \in 1..(nal - 1) : P!Of(n) # {}
      /\ P!Undisturbed /\ rtpPc = "end" =>
           \A i \in P!Sent : P!Final(P!Sent, i) => out[i].m
  BY DEF PayloadProgress
<1>2. \A n \in 1..(nal - 1) : P!Of(n)' = {} \/ P!Assembled(n)'
  BY <1>1, AssembledStays DEF PayloadTypes
<1>3. rtpPc' = "end" <=> rtpPc = "end"
  OBVIOUS
<1>4. PICK S : S = P!Sent
  OBVIOUS
<1>5. /\ \A i \in S : out'[i].nal <= nal
      /\ \A i, j \in S : i <= j => out'[i].nal <= out'[j].nal
      /\ \A i \in S : out'[i].m => rtpPc' = "end" /\ P!Final(S, i)
      /\ P!Undisturbed /\ rtpPc' = "end" => \A i \in S : P!Final(S, i) => out'[i].m
  BY <1>1, <1>3, <1>4
<1>6. P!Sent' = S
  BY <1>4
<1>7. PayloadProgress'
  <2>1. P!Undisturbed => \A n \in 1..(nal - 1) : P!Of(n)' # {}
    BY <1>1
  <2> QED BY <1>2, <1>5, <1>6, <2>1 DEF PayloadProgress
<1>8. PICK I : I = P!Of(nal)
  OBVIOUS
<1>9. P!Of(nal)' = I
  BY <1>8
<1>10. InOne' <=> InOne
  BY DEF P!Size, InOne, P!Plain, P!Whole, P!MaxSingle, P!MaxPayload, P!FuHeaders
<1>11. P!NalHeader' = P!NalHeader
  BY DEF P!NalHeader
<1>12. \A i \in I : out'[i] = out[i]
  BY <1>8, Positions DEF PayloadTypes
<1>13. UnitProgress'
  <2> HIDE DEF InOne
  <2>1. rtpPc' = "next" => I = {}
    BY <1>8 DEF UnitProgress
  <2>2. ASSUME rtpPc' \in {"send", "body"}
        PROVE  /\ P!Chained(I)' /\ (InOne => I = {}) /\ (fragments = 0 <=> I = {})
               /\ (I = {} /\ ~InOne => done = P!NalHeader)
               /\ \A i \in I : out'[i].fu /\ ~out'[i].e /\ (P!Final(I, i) => out'[i].to = done)
    <3>1. rtpPc \in {"send", "body"}
      BY <2>2
    <3>2. P!Chained(I)'
      BY <1>8, <1>12, <3>1, ChainStays DEF UnitProgress
    <3>3. /\ (InOne => I = {}) /\ (fragments = 0 <=> I = {})
          /\ (I = {} /\ ~InOne => done = P!NalHeader)
          /\ \A i \in I : out[i].fu /\ ~out[i].e /\ (P!Final(I, i) => out[i].to = done)
      BY <1>8, <3>1 DEF UnitProgress
    <3> QED BY <1>12, <3>2, <3>3
  <2> QED BY <1>9, <1>10, <1>11, <2>1, <2>2 DEF UnitProgress
<1> QED BY <1>7, <1>13

\* No unit behind the one at hand has a packet.
LEMMA NothingAhead ==
  ASSUME PayloadTypes, NEW w \in Nat, \A i \in P!Sent : out[i].nal < w
  PROVE  P!Of(w) = {}
<1>1. \A i \in P!Sent : out[i].nal \in Nat /\ out[i].nal # w
  BY Positions DEF PayloadTypes, PacketSet
<1> QED BY <1>1 DEF P!Of

\* The frame thread begins a unit, or leaves it out.
LEMMA BeginKept ==
  ASSUME PayloadInv, ~failed, P!Begin
  PROVE  PayloadProgress' /\ UnitProgress'
<1>1. /\ rtpPc = "next" /\ out' = out /\ rtpNals' = rtpNals /\ codec' = codec
      /\ hidden' = hidden /\ PayloadTypes
  BY DEF PayloadInv, P!Begin, P!clientVars, P!serverVars
<1>2. /\ nal \in 1..Len(rtpNals) /\ nal \in Nat /\ P!Size = rtpNals[nal] /\ P!Size \in Nat
      /\ Len(rtpNals) \in Nat
  BY <1>1, UnitSize
<1>3. P!Undisturbed' <=> P!Undisturbed
  BY <1>1 DEF P!Undisturbed
<1>4. P!Sent' = P!Sent /\ \A n : P!Of(n)' = P!Of(n)
  BY <1>1 DEF P!Sent, P!Of, P!IsPacket
<1>5. P!Of(nal) = {}
  BY <1>1 DEF PayloadInv, UnitProgress
<1>6. /\ \A n \in 1..(nal - 1) : P!Of(n) = {} \/ P!Assembled(n)
      /\ \A i \in P!Sent : out[i].nal <= nal
      /\ \A i, j \in P!Sent : i <= j => out[i].nal <= out[j].nal
      /\ \A i \in P!Sent : ~out[i].m
      /\ P!Undisturbed => \A n \in 1..(nal - 1) : P!Of(n) # {}
  BY <1>1 DEF PayloadInv, PayloadProgress
<1>7. \A n \in 1..(nal - 1) : P!Of(n)' = {} \/ P!Assembled(n)'
  BY <1>1, <1>4, <1>6, AssembledStays DEF PayloadTypes
<1>8. CASE P!Dropped
  <2>1. P!NextNal
    BY <1>8 DEF P!Begin
  <2>2. nal' = nal + 1 /\ rtpPc' \in {"next", "end"}
    BY <1>1, <2>1, NextUnit
  <2>3. ~P!Undisturbed
    <3>1. SUFFICES ASSUME P!Undisturbed PROVE FALSE
      OBVIOUS
    <3>2. state = "PLAYING" /\ (codec = "h264" => rtpNals[nal] <= MaxSafe)
      BY <1>2, <3>1 DEF P!Undisturbed, PayloadInv, NeverHidden
    <3>3. MaxSafe \in Nat
      BY PayloadAssumption DEF P!SizesAssumption
    <3> QED BY <1>2, <1>8, <3>2, <3>3 DEF P!Dropped, P!Skipped, P!Withheld
  <2>4. P!Of(nal)' = {}
    <3>1. PICK w \in Nat : w = nal + 1
      BY <1>2
    <3>2. \A i \in P!Sent : out[i].nal < w
      <4> TAKE i \in P!Sent
      <4>1. out[i].nal \in Nat
        BY <1>1, Positions DEF PayloadTypes, PacketSet
      <4> QED BY <1>2, <1>6, <3>1, <4>1
    <3>3. P!Of(w) = {}
      BY <1>1, <3>2, NothingAhead
    <3>4. P!Of(w)' = {}
      BY <1>4, <3>3
    <3> QED BY <2>2, <3>1, <3>4
  <2>5. UnitProgress'
    BY <2>2, <2>4 DEF UnitProgress
  <2>6. \A n \in 1..(nal' - 1) : P!Of(n)' = {} \/ P!Assembled(n)'
    <3> TAKE n \in 1..(nal' - 1)
    <3>1. n \in 1..(nal - 1) \/ n = nal
      BY <1>2, <2>2
    <3>2. CASE n = nal
      BY <1>4, <1>5, <3>2
    <3> QED BY <1>7, <3>1, <3>2
  <2>7. \A i \in P!Sent : out[i].nal <= nal'
    <3> TAKE i \in P!Sent
    <3>1. out[i].nal \in Nat
      BY <1>1, Positions DEF PayloadTypes, PacketSet
    <3> QED BY <1>2, <1>6, <2>2, <3>1
  <2>8. PayloadProgress'
    BY <1>1, <1>3, <1>4, <1>6, <2>3, <2>6, <2>7 DEF PayloadProgress
  <2> QED BY <2>5, <2>8
<1>9. CASE ~P!Dropped
  <2>1. /\ rtpPc' = "send" /\ nal' = nal /\ fragments' = 0
        /\ done' = IF InOne THEN 0 ELSE P!NalHeader
    BY <1>9 DEF P!Begin, InOne
  <2>2. P!Of(nal)' = {}
    BY <1>4, <1>5, <2>1
  <2>3. UnitProgress'
    <3>1. P!Chained({})'
      BY DEF P!Chained
    <3>2. P!NalHeader' = P!NalHeader
      BY <1>1 DEF P!NalHeader
    <3>3. InOne' <=> InOne
      BY <1>1, <2>1 DEF P!Size, InOne, P!Plain, P!Whole, P!MaxSingle, P!MaxPayload, P!FuHeaders
    <3> HIDE DEF InOne
    <3> QED BY <2>1, <2>2, <3>1, <3>2, <3>3 DEF UnitProgress
  <2>4. PayloadProgress'
    <3>1. P!Undisturbed => \A n \in 1..(nal - 1) : P!Of(n)' # {}
      BY <1>4, <1>6
    <3> QED BY <1>1, <1>3, <1>4, <1>6, <1>7, <2>1, <3>1 DEF PayloadProgress
  <2> QED BY <2>3, <2>4
<1> QED BY <1>8, <1>9

\* The transport takes a packet: a fragment, or the last of a unit.
LEMMA DeliverKept ==
  ASSUME PayloadInv, ~failed, Delivers
  PROVE  PayloadProgress' /\ UnitProgress'
<1> DEFINE x == P!Packet
<1>0. PICK k \in Nat : k = Len(out) + 1
  BY DEF PayloadInv, PayloadTypes
<1>1. /\ rtpPc \in {"send", "body"} /\ out' = Append(out, x) /\ codec' = codec /\ rtpNals' = rtpNals
      /\ IF x.to = P!Size THEN P!NextNal
         ELSE done' = x.to /\ fragments' = fragments + 1 /\ rtpPc' = "send" /\ nal' = nal
  BY DEF Delivers, P!Deliver, P!clientVars, P!serverVars
<1>2. PayloadTypes /\ out \in Seq(Items) /\ fragments \in Nat
  BY DEF PayloadInv, PayloadTypes
<1>3. /\ x \in PacketSet /\ x.nal = nal
      /\ x.to - x.from + (IF x.fu THEN P!FuHeaders ELSE 0) <= Room
      /\ InOne => x.from = 0 /\ x.to = P!Size /\ x.fu = FALSE /\ x.s = FALSE
      /\ ~InOne => x.from = done /\ x.fu = TRUE /\ x.s = (fragments = 0) /\ x.to <= P!Size
      /\ x.to = P!Size => x.e = x.fu
      /\ x.to # P!Size => x.e = FALSE
      /\ x.m = (P!Marked /\ x.to = P!Size)
  BY <1>1, <1>2, PacketFacts
<1>4. /\ nal \in 1..Len(rtpNals) /\ nal \in Nat /\ P!Size \in Nat /\ P!Size = rtpNals[nal]
      /\ Len(rtpNals) \in Nat
  BY <1>1, <1>2, UnitSize
<1>5. x.to \in Nat /\ x.fu \in BOOLEAN
  BY <1>3 DEF PacketSet
<1> HIDE DEF x
<1>6. /\ k \in Nat /\ P!Sent' = P!Sent \union {k} /\ out'[k] = x
      /\ \A i \in P!Sent : i < k /\ out'[i] = out[i]
      /\ \A n : nal = n => P!Of(n)' = P!Of(n) \union {k}
      /\ \A n : nal # n => P!Of(n)' = P!Of(n)
  BY <1>0, <1>1, <1>2, <1>3, PacketSent
<1>7. /\ \A n \in 1..(nal - 1) : P!Of(n) = {} \/ P!Assembled(n)
      /\ \A i \in P!Sent : out[i].nal <= nal
      /\ \A i, j \in P!Sent : i <= j => out[i].nal <= out[j].nal
      /\ \A i \in P!Sent : ~out[i].m
      /\ P!Undisturbed => \A n \in 1..(nal - 1) : P!Of(n) # {}
  BY <1>1 DEF PayloadInv, PayloadProgress
<1>8. PICK S : S = P!Sent
  OBVIOUS
<1>9. PICK I : I = P!Of(nal)
  OBVIOUS
<1>10. PICK u \in Nat : u = nal
  BY <1>4
<1>11. I \in SUBSET Nat /\ I \subseteq S /\ S \in SUBSET Nat
  BY <1>2, <1>8, <1>9, Positions
<1>12. \A i \in S : i < k /\ out'[i] = out[i]
  BY <1>6, <1>8
<1>13. /\ P!Chained(I) /\ (InOne => I = {}) /\ (fragments = 0 <=> I = {})
       /\ (I = {} /\ ~InOne => done = P!NalHeader)
       /\ \A i \in I : out[i].fu /\ ~out[i].e /\ (P!Final(I, i) => out[i].to = done)
  BY <1>1, <1>9 DEF PayloadInv, UnitProgress
<1>14. P!Chained(I \union {k})'
  <2>1. x.s = (x.fu /\ I = {})
    BY <1>3, <1>13
  <2>2. I = {} => x.from = IF x.fu THEN P!NalHeader ELSE 0
    BY <1>3, <1>13
  <2>3. \A i \in I : P!Final(I, i) => x.from = out[i].to
    BY <1>3, <1>13
  <2>4. \A i \in I : i < k /\ out'[i] = out[i]
    BY <1>11, <1>12
  <2> QED BY <1>1, <1>3, <1>6, <1>11, <1>13, <2>1, <2>2, <2>3, <2>4, ChainGrows
<1>15. P!Of(u)' = I \union {k}
  BY <1>6, <1>9, <1>10
<1>16. P!Sent' = S \union {k}
  BY <1>6, <1>8
<1>17. /\ \A n \in 1..(nal - 1) : P!Of(n)' = {} \/ P!Assembled(n)'
       /\ P!Undisturbed' => \A n \in 1..(nal - 1) : P!Of(n)' # {}
  <2>1. \A n \in 1..(nal - 1) : n # nal /\ P!Of(n)' = P!Of(n)
    BY <1>4, <1>6
  <2>2. \A i \in P!Sent : out'[i] = out[i]
    BY <1>6
  <2>3. \A n \in 1..(nal - 1) : P!Of(n)' = {} \/ P!Assembled(n)'
    BY <1>1, <1>2, <1>7, <2>1, <2>2, AssembledStays
  <2>4. P!Undisturbed' => P!Undisturbed
    <3>1. hidden' = hidden
      BY DEF Delivers, P!Deliver, P!serverVars
    <3> QED BY <1>1, <3>1 DEF P!Undisturbed
  <2> QED BY <1>7, <2>1, <2>3, <2>4
<1>18. \A i \in S \union {k} : out'[i].nal <= nal
  BY <1>3, <1>4, <1>6, <1>7, <1>8, <1>12
<1>19. \A i, j \in S \union {k} : i <= j => out'[i].nal <= out'[j].nal
  <2> TAKE i, j \in S \union {k}
  <2> HAVE i <= j
  <2>1. CASE j = k
    BY <1>3, <1>6, <1>18, <2>1
  <2>2. CASE j # k
    <3>1. j \in S /\ j < k /\ i \in Nat /\ j \in Nat
      BY <1>6, <1>11, <1>12, <2>2
    <3>2. i \in S
      BY <1>6, <3>1
    <3> QED BY <1>7, <1>8, <1>12, <3>1, <3>2
  <2> QED BY <2>1, <2>2
<1>20. \A i \in S \union {k} : P!Final(S \union {k}, i) <=> i = k
  BY <1>6, <1>11, <1>12, LastAdded
<1>21. CASE x.to # P!Size
  <2>1. done' = x.to /\ fragments' = fragments + 1 /\ rtpPc' = "send" /\ nal' = nal
    BY <1>1, <1>21
  <2>2. ~InOne
    BY <1>3, <1>21
  <2>3. InOne' <=> InOne
    BY <1>1, <2>1 DEF P!Size, InOne, P!Plain, P!Whole, P!MaxSingle, P!MaxPayload, P!FuHeaders
  <2>4. P!Of(nal)' = I \union {k}
    BY <1>10, <1>15, <2>1
  <2>5. \A i \in I \union {k} :
          out'[i].fu /\ ~out'[i].e /\ (P!Final(I \union {k}, i) => out'[i].to = x.to)
    <3>1. \A i \in I \union {k} : P!Final(I \union {k}, i) <=> i = k
      BY <1>6, <1>11, <1>12, LastAdded
    <3>2. \A i \in I : i # k /\ out'[i].fu /\ ~out'[i].e
      BY <1>6, <1>11, <1>12, <1>13
    <3>3. out'[k].fu /\ ~out'[k].e /\ out'[k].to = x.to
      BY <1>3, <1>6, <1>21, <2>2
    <3> QED BY <3>1, <3>2, <3>3
  <2>6. UnitProgress'
    <3> HIDE DEF InOne
    <3>1. I \union {k} # {} /\ fragments' # 0
      BY <1>2, <2>1
    <3>2. PICK J : J = I \union {k}
      OBVIOUS
    <3>3. P!Of(nal)' = J /\ P!Chained(J)' /\ J # {}
      BY <1>14, <2>4, <3>1, <3>2
    <3>4. \A i \in J : out'[i].fu /\ ~out'[i].e /\ (P!Final(J, i) => out'[i].to = done')
      BY <2>1, <2>5, <3>2
    <3> QED BY <2>1, <2>2, <2>3, <3>1, <3>3, <3>4 DEF UnitProgress
  <2>7. \A i \in S \union {k} : ~out'[i].m
    BY <1>3, <1>6, <1>7, <1>8, <1>12, <1>21
  <2>8. PayloadProgress'
    BY <1>16, <1>17, <1>18, <1>19, <2>1, <2>7 DEF PayloadProgress
  <2> QED BY <2>6, <2>8
<1>22. CASE x.to = P!Size
  <2>1. P!NextNal
    BY <1>1, <1>22
  <2>2. /\ nal' = nal + 1 /\ rtpPc' \in {"next", "end"} /\ (rtpPc' = "end" <=> P!Marked)
    BY <1>1, <1>2, <2>1, NextUnit
  <2>3. P!Assembled(u)'
    <3>1. P!Ended(u, I \union {k})'
      <4>1. \A i \in I : i < k /\ out'[i] = out[i]
        BY <1>11, <1>12
      <4>2. \A i \in I : out[i].e = FALSE
        <5> TAKE i \in I
        <5>1. out[i] \in PacketSet
          BY <1>2, <1>8, <1>11, Positions
        <5>2. out[i].e \in BOOLEAN
          BY <5>1 DEF PacketSet
        <5> QED BY <1>13, <5>2
      <4>3. x.to = rtpNals[u]
        BY <1>4, <1>10, <1>22
      <4> QED BY <1>1, <1>3, <1>5, <1>6, <1>11, <1>22, <4>1, <4>2, <4>3, EndGrows
    <3>2. P!Of(u)' = I \union {k}
      BY <1>15
    <3> QED BY <1>14, <3>1, <3>2 DEF P!Assembled
  <2>4. /\ \A n \in 1..(nal' - 1) : P!Of(n)' = {} \/ P!Assembled(n)'
        /\ P!Undisturbed' => \A n \in 1..(nal' - 1) : P!Of(n)' # {}
    <3>1. \A n \in 1..(nal' - 1) : n \in 1..(nal - 1) \/ n = u
      BY <1>4, <1>10, <2>2
    <3>2. P!Of(u)' # {}
      BY <1>15
    <3> QED BY <1>17, <2>3, <3>1, <3>2
  <2>5. P!Of(nal)' = {}
    <3>1. PICK w \in Nat : w = nal + 1
      BY <1>4
    <3>2. P!Of(w)' = P!Of(w)
      BY <1>4, <1>6, <3>1
    <3>3. \A i \in P!Sent : out[i].nal < w
      <4> TAKE i \in P!Sent
      <4>1. out[i].nal \in Nat
        BY <1>2, Positions DEF PacketSet
      <4> QED BY <1>4, <1>7, <3>1, <4>1
    <3>4. P!Of(w) = {}
      BY <1>2, <3>3, NothingAhead
    <3> QED BY <2>2, <3>1, <3>2, <3>4
  <2>6. UnitProgress'
    BY <2>2, <2>5 DEF UnitProgress
  <2>7. \A i \in S \union {k} : out'[i].m <=> rtpPc' = "end" /\ P!Final(S \union {k}, i)
    <3>1. \A i \in S : ~out'[i].m /\ i # k
      BY <1>6, <1>7, <1>8, <1>11, <1>12
    <3>2. out'[k].m <=> rtpPc' = "end"
      BY <1>3, <1>6, <1>22, <2>2
    <3> QED BY <1>20, <3>1, <3>2
  <2>8. \A i \in S \union {k} : out'[i].nal <= nal'
    <3> TAKE i \in S \union {k}
    <3>1. out'[i].nal <= nal
      BY <1>18
    <3>2. out'[i].nal \in Nat
      <4>1. CASE i = k
        BY <1>3, <1>4, <1>6, <4>1
      <4>2. CASE i \in S
        <5>1. out[i] \in PacketSet
          BY <1>2, <1>8, <4>2, Positions
        <5> QED BY <1>12, <4>2, <5>1 DEF PacketSet
      <4> QED BY <4>1, <4>2
    <3> QED BY <1>4, <2>2, <3>1, <3>2
  <2>9. PayloadProgress'
    BY <1>16, <1>19, <2>4, <2>7, <2>8 DEF PayloadProgress
  <2> QED BY <2>6, <2>9
<1> QED BY <1>21, <1>22

\* A frame begins with nothing sent.
LEMMA PayloadInitially == P!Init => PayloadInv
<1> SUFFICES ASSUME P!Init PROVE PayloadInv
  OBVIOUS
<1>1. /\ codec \in {"h264", "h265"} /\ state = "PLAYING" /\ requests = 0 /\ hidden = FALSE
      /\ nal = 1 /\ rtpPc = "next" /\ done = 0 /\ fragments = 0 /\ failed = FALSE /\ out = << >>
  BY DEF P!Init
<1>2. rtpNals \in Seq(Sizes) /\ Len(rtpNals) \in Nat /\ Len(rtpNals) >= 1
  <2>1. PICK n \in 1..MaxNals : rtpNals \in [1..n -> Sizes]
    BY DEF P!Init
  <2>2. n \in Nat /\ n >= 1
    BY <2>1, PayloadAssumption DEF P!SizesAssumption
  <2> QED BY <2>1, <2>2
<1>3. P!Sent = {} /\ \A n : P!Of(n) = {}
  BY <1>1 DEF P!Sent, P!Of
<1>4. PayloadTypes
  <2>1. failed \in BOOLEAN /\ hidden \in BOOLEAN
    BY <1>1, Zenon
  <2>2. ~(rtpPc = "end") /\ ~(nal = Len(rtpNals) + 1) /\ nal \in 1..(Len(rtpNals) + 1)
    BY <1>1, <1>2
  <2>3. out \in Seq(Items)
    BY <1>1
  <2> QED BY <1>1, <1>2, <2>1, <2>2, <2>3 DEF PayloadTypes
<1>5. NeverHidden
  BY <1>1 DEF NeverHidden
<1>6. PayloadProgress /\ UnitProgress
  BY <1>1, <1>3 DEF PayloadProgress, UnitProgress
<1> QED BY <1>4, <1>5, <1>6 DEF PayloadInv

\* Every step keeps the invariant of the payload part.
LEMMA PayloadKept == PayloadInv /\ [P!Next]_(P!payloadVars) => PayloadInv'
<1> SUFFICES ASSUME PayloadInv, [P!Next]_(P!payloadVars) PROVE PayloadInv'
  OBVIOUS
<1>1. PayloadTypes' /\ NeverHidden'
  BY PayloadTypesKept, NeverHiddenKept DEF PayloadInv
<1>2. ASSUME failed' PROVE PayloadProgress' /\ UnitProgress'
  BY <1>2 DEF PayloadProgress, UnitProgress
<1>3. ASSUME ~failed' PROVE PayloadProgress' /\ UnitProgress'
  <2>1. /\ ~failed /\ ~P!SendFails /\ codec' = codec /\ rtpNals' = rtpNals
        /\ P!Undisturbed' => P!Undisturbed
    BY <1>3, NoneFailed DEF PayloadInv
  <2>2. CASE P!Begin
    BY <2>1, <2>2, BeginKept
  <2>3. CASE Delivers
    BY <2>1, <2>3, DeliverKept
  <2>4. CASE WritesPrefix
    <3>1. PICK p \in PacketSet : out' = Append(out, [prefix |-> p])
      BY <2>4 DEF WritesPrefix
    <3>2. [prefix |-> p] \in PrefixSet
      BY DEF PrefixSet
    <3>3. P!Sent' = P!Sent /\ (\A n : P!Of(n)' = P!Of(n)) /\ \A i \in P!Sent : out'[i] = out[i]
      BY <3>1, <3>2, OtherSent DEF PayloadInv, PayloadTypes
    <3> QED BY <2>1, <2>4, <3>3, ProgressStays DEF WritesPrefix, PayloadInv
  <2>5. CASE Serves \/ UNCHANGED P!payloadVars
    <3>1. UNCHANGED <<codec, rtpNals, nal, rtpPc, done, fragments>>
      BY <2>5 DEF Serves, P!payloadVars, P!clientVars, P!serverVars, P!frameVars
    <3>2. P!Sent' = P!Sent /\ (\A n : P!Of(n)' = P!Of(n)) /\ \A i \in P!Sent : out'[i] = out[i]
      <4>1. CASE out' = out
        BY <4>1 DEF P!Sent, P!Of, P!IsPacket
      <4>2. CASE out' = Append(out, [reply |-> requests])
        <5>1. [reply |-> requests] \in ReplySet
          BY DEF ReplySet, PayloadInv, PayloadTypes
        <5> QED BY <4>2, <5>1, OtherSent DEF PayloadInv, PayloadTypes
      <4> QED BY <2>5, <4>1, <4>2 DEF Serves, P!payloadVars
    <3> QED BY <2>1, <3>1, <3>2, ProgressStays DEF PayloadInv
  <2> QED BY <2>1, <2>2, <2>3, <2>4, <2>5, PayloadSteps DEF PayloadInv
<1> QED BY <1>1, <1>2, <1>3 DEF PayloadInv

\* What the invariant says of a frame that is out.
LEMMA PayloadInvImplies == PayloadInv => FrameComplete
<1> SUFFICES ASSUME PayloadInv, rtpPc = "end", ~failed
             PROVE  /\ \A n \in 1..Len(rtpNals) : P!Of(n) = {} \/ P!Assembled(n)
                    /\ \A i, j \in P!Sent : i <= j => out[i].nal <= out[j].nal
                    /\ \A i \in P!Sent : out[i].m => P!Final(P!Sent, i)
                    /\ P!Undisturbed => /\ \A n \in 1..Len(rtpNals) : P!Of(n) # {}
                                       /\ \A i \in P!Sent : out[i].m = P!Final(P!Sent, i)
  BY DEF FrameComplete, P!FrameComplete
<1>1. nal - 1 = Len(rtpNals)
  BY DEF PayloadInv, PayloadTypes
<1>2. /\ \A n \in 1..(nal - 1) : P!Of(n) = {} \/ P!Assembled(n)
      /\ \A i, j \in P!Sent : i <= j => out[i].nal <= out[j].nal
      /\ \A i \in P!Sent : out[i].m => P!Final(P!Sent, i)
      /\ P!Undisturbed => \A n \in 1..(nal - 1) : P!Of(n) # {}
      /\ P!Undisturbed => \A i \in P!Sent : P!Final(P!Sent, i) => out[i].m
  BY DEF PayloadInv, PayloadProgress
<1>3. ASSUME P!Undisturbed, NEW i \in P!Sent PROVE out[i].m = P!Final(P!Sent, i)
  <2>1. out[i] \in PacketSet
    BY Positions DEF PayloadInv, PayloadTypes
  <2>2. out[i].m \in BOOLEAN
    BY <2>1 DEF PacketSet
  <2>3. P!Final(P!Sent, i) \in BOOLEAN
    BY DEF P!Final
  <2> QED BY <1>2, <1>3, <2>2, <2>3
<1> QED BY <1>1, <1>2, <1>3

(* rtsp_server.c:2422-2991: of a frame of any number of NAL units of any       *)
(* sizes, in packets of any room, over UDP or interleaved, of which no send    *)
(* failed, a unit arrives whole or not at all, whatever control messages are   *)
(* handled in the middle of it, unless SETUP or PLAY moves it to other packets;*)
(* the units are in order, each packet fits the buffer and nothing follows the *)
(* marker.  When the client plays all the time and no H.264 unit is above the  *)
(* limit, every unit arrives, and the last packet has the marker.              *)
THEOREM FramesArriveWhole == PartsSpec => []FrameComplete
<1>1. PartsInit => PayloadInv
  BY PayloadInitially DEF PartsInit
<1>2. PayloadInv /\ [PartsNext]_partsVars => PayloadInv'
  <2> SUFFICES ASSUME PayloadInv, [PartsNext]_partsVars PROVE PayloadInv'
    OBVIOUS
  <2>1. ASSUME UNCHANGED payloadVars PROVE UNCHANGED P!payloadVars
    BY <2>1 DEF payloadVars, P!payloadVars, P!clientVars, P!serverVars, P!frameVars
  <2>2. [P!Next]_(P!payloadVars)
    BY <2>1 DEF PartsNext, partsVars, others
  <2> QED BY <2>2, PayloadKept
<1> QED BY <1>1, <1>2, PayloadInvImplies, PTL DEF PartsSpec
=============================================================================
