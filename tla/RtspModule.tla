------------------------------ MODULE RtspModule ------------------------------
(* The RTSP module from its start to its cleanup (modules/rtsp/rtsp_module.c,  *)
(* and rtsp_server_start with rtsp_server_tls_init in rtsp_server.c).  Any     *)
(* call of a start may fail.  The mbedTLS back end writes itself a key and a   *)
(* certificate when it finds none; the two files outlive the process, and the  *)
(* power can be lost between them.  A file is the number of the pair it        *)
(* belongs to, 0 when it is missing or does not parse.                         *)
EXTENDS Naturals, FiniteSets

CONSTANTS Streams,     \* the enabled streams, at most MAX_VIDEO_STREAMS
          MaxStarts    \* bound of the model on starts of the module

VARIABLES backend,     \* the back end the program was built with
          enabled, tls,\* config.enabled, config.tls_enabled
          initialized, running,
          pc,          \* where the start of the module is
          infos,       \* the stream_infos[] that are not NULL
          receiving,   \* channels whose encoder was told to start receiving
          server,      \* whether g_rtsp_module_state.server is not NULL
          held,        \* what rtsp_server_start acquired for it
          own,         \* the pair the TLS configuration presents, 0 for none
          certFile, keyFile,
          pairs,       \* pairs of files made so far
          starts,
          broken       \* history: a start of the module failed

configVars == <<backend, enabled, tls>>
moduleVars == <<initialized, running, infos, receiving>>
fileVars   == <<certFile, keyFile, pairs>>
serverVars == <<server, held, own>>
rtspVars == <<configVars, moduleVars, serverVars, fileVars, pc, starts, broken>>

\* tls_context, tls_entropy, tls_ctr_drbg, tls_cert_context, tls_key_context
Contexts == CASE backend = "mbedtls" -> {"config", "entropy", "drbg", "cert", "key"}
              [] backend = "openssl" -> {"config"}
              [] OTHER -> {}
Sockets == {"listen", "tlslisten"}

TypeOK ==
  /\ backend \in {"openssl", "mbedtls", "none"} /\ enabled \in BOOLEAN /\ tls \in BOOLEAN
  /\ initialized \in BOOLEAN /\ running \in BOOLEAN /\ server \in BOOLEAN
  /\ pc \in {"idle", "infos", "create", "streams", "listen", "tls", "certificate",
             "genkey", "gencert", "tlslisten", "server_thread", "rtp_thread", "failed"}
  /\ infos \subseteq Streams /\ receiving \subseteq Streams
  /\ held \subseteq Sockets \cup Contexts \cup {"threads"}
  /\ own \in 0..pairs /\ certFile \in 0..pairs /\ keyFile \in 0..pairs
  /\ starts \in 0..MaxStarts /\ broken \in BOOLEAN

\* a device without the files, or with a pair, or with one of its two files
Init ==
  /\ backend \in {"openssl", "mbedtls", "none"} /\ enabled \in BOOLEAN /\ tls \in BOOLEAN
  /\ initialized = FALSE /\ running = FALSE /\ pc = "idle"
  /\ infos = {} /\ receiving = {} /\ server = FALSE /\ held = {} /\ own = 0
  /\ certFile \in {0, 1} /\ keyFile \in {0, 1} /\ pairs = 1
  /\ starts = 0 /\ broken = FALSE

Goes(from, to) == pc = from /\ pc' = to

-----------------------------------------------------------------------------
(* rtsp_module_init, _start and setup_rtsp_server.                          *)

ModuleInit ==
  /\ pc = "idle" /\ ~initialized
  /\ initialized' = TRUE /\ running' = FALSE /\ infos' = {}
  /\ server' = FALSE
  /\ UNCHANGED <<configVars, receiving, held, own, fileVars, pc, starts, broken>>

\* the stream_infos are forgotten first; a module that is disabled just runs
ModuleStart ==
  /\ initialized /\ ~running /\ starts < MaxStarts
  /\ starts' = starts + 1
  /\ IF enabled THEN Goes("idle", "infos") /\ infos' = {} /\ UNCHANGED running
     ELSE pc = "idle" /\ running' = TRUE /\ UNCHANGED <<pc, infos>>
  /\ UNCHANGED <<configVars, initialized, receiving, serverVars, fileVars, broken>>

\* stream_create of each; without memory the module is not started
CreateInfos ==
  /\ pc = "infos"
  /\ \/ infos' = Streams /\ pc' = "create" /\ UNCHANGED broken
     \/ /\ \E some \in (SUBSET Streams) \ {Streams} : infos' = some
        /\ pc' = "idle" /\ broken' = TRUE
  /\ UNCHANGED <<configVars, initialized, running, receiving, serverVars, fileVars, starts>>

CreateServer ==
  /\ \/ Goes("create", "streams") /\ server' = TRUE /\ UNCHANGED broken
     \/ Goes("create", "idle") /\ broken' = TRUE /\ UNCHANGED server
  /\ UNCHANGED <<configVars, moduleVars, held, own, fileVars, starts>>

\* rtsp_server_add_stream and IMP_Encoder_StartRecvPic; what fails is logged
AddStreams ==
  /\ Goes("streams", "listen")
  /\ \E added \in SUBSET Streams : receiving' = receiving \cup added
  /\ UNCHANGED <<configVars, initialized, running, infos, serverVars, fileVars, starts,
                 broken>>

-----------------------------------------------------------------------------
(* rtsp_server_start.                                                       *)

\* A call fails, and rtsp_server_start takes back "back"
Fails(back) == pc' = "failed" /\ held' = held \ back /\ UNCHANGED own

Listen ==
  /\ pc = "listen"
  /\ \/ held' = held \cup {"listen"} /\ UNCHANGED own
        /\ pc' = IF tls THEN "tls" ELSE "server_thread"
     \/ Fails({})
  /\ UNCHANGED <<configVars, moduleVars, server, fileVars, starts, broken>>

\* OpenSSL wants both files to be usable and to belong together
TlsInitOpenssl ==
  /\ pc = "tls" /\ backend = "openssl"
  /\ \/ /\ certFile # 0 /\ certFile = keyFile
        /\ held' = held \cup Contexts /\ own' = certFile /\ pc' = "tlslisten"
     \/ Fails({"listen"})
  /\ UNCHANGED <<configVars, moduleVars, server, fileVars, starts, broken>>

\* mbedTLS: five allocations, the seed and the defaults
TlsInitMbedtls ==
  /\ pc = "tls" /\ backend = "mbedtls"
  /\ \/ held' = held \cup Contexts /\ own' = 0 /\ pc' = "certificate"
     \/ Fails({"listen"})
  /\ UNCHANGED <<configVars, moduleVars, server, fileVars, starts, broken>>

TlsNotCompiled ==
  /\ pc = "tls" /\ backend = "none" /\ Fails({"listen"})
  /\ UNCHANGED <<configVars, moduleVars, server, fileVars, starts, broken>>

\* A certificate that does not parse is made anew with its key; a key that does
\* not parse is not, and the server goes on without either.
LoadCertificate ==
  /\ IF certFile = 0 THEN Goes("certificate", "genkey") /\ UNCHANGED own
     ELSE /\ Goes("certificate", "tlslisten")
          /\ own' = IF keyFile # 0 THEN certFile ELSE 0
  /\ UNCHANGED <<configVars, moduleVars, server, held, fileVars, starts, broken>>

\* generate_self_signed_certificate writes the key first
KeyFirst  == <<"key", "certificate">>
CertFirst == <<"certificate", "key">>
WriteOrder == KeyFirst

\* the file is not opened, or cut short, or written
Written(file, pair) ==
  IF file = "key" THEN keyFile' = pair /\ UNCHANGED certFile
  ELSE certFile' = pair /\ UNCHANGED keyFile

GenerateFails(file) ==
  /\ pc' = "tlslisten"
  /\ UNCHANGED <<certFile, keyFile>> \/ Written(file, 0)

GenerateKey ==
  /\ pc = "genkey"
  /\ pairs' = pairs + 1
  /\ \/ Written(WriteOrder[1], pairs + 1) /\ pc' = "gencert"
     \/ GenerateFails(WriteOrder[1])
  /\ UNCHANGED <<configVars, moduleVars, serverVars, starts, broken>>

\* ... and what was generated is loaded
GenerateCertificate ==
  /\ pc = "gencert"
  /\ \/ Written(WriteOrder[2], pairs) /\ own' = certFile' /\ pc' = "tlslisten"
     \/ GenerateFails(WriteOrder[2]) /\ UNCHANGED own
  /\ UNCHANGED <<configVars, moduleVars, server, held, pairs, starts, broken>>

\* socket, bind and listen for the TLS port
TlsListen ==
  /\ pc = "tlslisten"
  /\ \/ held' = held \cup {"tlslisten"} /\ pc' = "server_thread" /\ UNCHANGED own
     \/ Fails(Contexts \cup {"listen"})
  /\ UNCHANGED <<configVars, moduleVars, server, fileVars, starts, broken>>

\* a thread that cannot be created leaves the TLS socket and contexts; the server
\* thread is joined when the RTP thread is the one
StartThreads ==
  /\ \/ Goes("server_thread", "rtp_thread") /\ held' = held \cup {"threads"}
        /\ UNCHANGED <<own, running>>
     \/ Goes("rtp_thread", "idle") /\ running' = TRUE /\ UNCHANGED <<held, own>>
     \/ /\ pc \in {"server_thread", "rtp_thread"} /\ Fails({"threads", "listen"})
        /\ UNCHANGED running
  /\ UNCHANGED <<configVars, initialized, infos, receiving, server, fileVars, starts, broken>>

\* rtsp_server_destroy; the mutant leaves the TLS contexts
Releases == Sockets \cup Contexts \cup {"threads"}
LeavesContexts == Sockets \cup {"threads"}
Destroyed == Releases

SetupFails ==
  /\ Goes("failed", "idle")
  /\ held' = held \ Destroyed /\ server' = FALSE /\ broken' = TRUE
  /\ UNCHANGED <<configVars, moduleVars, own, fileVars, starts>>

-----------------------------------------------------------------------------
(* rtsp_module_stop, _cleanup, and the end of the process.                  *)

\* the encoders to stop are those whose stream_info is there
Stopped == infos

Stop ==
  /\ server' = FALSE
  /\ held' = IF server THEN held \ Destroyed ELSE held
  /\ receiving' = receiving \ Stopped
  /\ infos' = {} /\ running' = FALSE

ModuleStop ==
  /\ pc = "idle" /\ running /\ Stop
  /\ UNCHANGED <<configVars, initialized, own, fileVars, pc, starts, broken>>

ModuleCleanup ==
  /\ pc = "idle" /\ initialized /\ initialized' = FALSE
  /\ IF running THEN Stop ELSE UNCHANGED <<server, held, receiving, infos, running>>
  /\ UNCHANGED <<configVars, own, fileVars, pc, starts, broken>>

\* power off and on
PowerLost ==
  /\ initialized' = FALSE /\ running' = FALSE /\ pc' = "idle" /\ infos' = {}
  /\ receiving' = {} /\ server' = FALSE /\ held' = {} /\ own' = 0 /\ broken' = FALSE
  /\ UNCHANGED <<configVars, fileVars, starts>>

Start == ModuleStart \/ CreateInfos \/ CreateServer \/ AddStreams \/ Listen
         \/ TlsInitOpenssl \/ TlsInitMbedtls \/ TlsNotCompiled \/ LoadCertificate
         \/ GenerateKey \/ GenerateCertificate \/ TlsListen \/ StartThreads \/ SetupFails

Next == ModuleInit \/ Start \/ ModuleStop \/ ModuleCleanup \/ PowerLost

Spec == Init /\ [][Next]_rtspVars

-----------------------------------------------------------------------------
(* Properties.                                                              *)

(* rtsp_server.c:294-446, rtsp_module.c:379: whichever call of a start failed, *)
(* and however often the module was started, a module without a server holds   *)
(* no socket, no TLS context and no thread of one.                             *)
NoServerNothingHeld == (pc = "idle" /\ ~server) => held = {}

(* rtsp_server.c:3350-3497: the key is written before the certificate, so that *)
(* no loss of power and no failing write leaves a certificate that goes with   *)
(* an older key: what the server presents is a pair.                           *)
PresentsPair == (own # 0 /\ pc = "idle" /\ running) => own = keyFile

(* rtsp_module.c:443-472: a module that was cleaned up left no encoder         *)
(* receiving, unless one of its starts had failed: then rtsp_module_stop       *)
(* returns before it stops any.                                                *)
EncodersStopped == (~initialized /\ ~broken) => receiving = {}

(* Neither a failed start nor a cleanup leaves anything behind, but for that. *)
NothingLeftBehind == NoServerNothingHeld /\ EncodersStopped
=============================================================================
