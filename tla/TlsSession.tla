------------------------------ MODULE TlsSession ------------------------------
(* The TLS sessions of one client slot of the RTSP server                      *)
(* (modules/rtsp/rtsp_server.c, OpenSSL and mbedTLS back ends).  The server    *)
(* thread accepts, reads requests, replies and cleans the slot up; the frame   *)
(* thread writes RTP packets through the same session.  Only OpenSSL's writer  *)
(* takes ssl_mutex, gives it back between its attempts, and keeps the session  *)
(* it found at the first one.                                                  *)
EXTENDS Naturals, FiniteSets

CONSTANTS MaxSessions,  \* bound of the model on connections of the slot
          MaxRetries    \* max_retries of the OpenSSL writer

\* what the modules that instantiate this one assume of its constants
BoundsAssumption == MaxSessions \in Nat /\ MaxRetries \in Nat

VARIABLES backend,      \* the back end the program was built with
          active,       \* client->active
          ctx, useTls,  \* client->ssl_context (0 is NULL), client->use_tls
          session,      \* what has become of each session
          made,         \* sessions made so far
          mutex,        \* who holds ssl_mutex
          pc,           \* where each thread is
          ssl,          \* the local variable ssl of each thread
          retries,      \* retry_count of each thread
          unmade,       \* history: ssl_mutex was made anew while it was held
          invalid       \* history: sessions a failed write took from the slot

slotVars   == <<active, ctx, useTls, session, made>>
threadVars == <<pc, ssl, retries>>
tlsVars == <<backend, slotVars, mutex, threadVars, unmade, invalid>>

Threads  == {"server", "frames"}
Sessions == 1..MaxSessions

TypeOK ==
  /\ backend \in {"openssl", "mbedtls"} /\ active \in BOOLEAN /\ useTls \in BOOLEAN
  /\ ctx \in 0..MaxSessions /\ made \in 0..MaxSessions
  /\ session \in [Sessions -> {"none", "handshake", "live", "freed"}]
  /\ mutex \in Threads \cup {"free"} /\ unmade \in BOOLEAN /\ invalid \subseteq Sessions
  /\ pc \in [Threads -> {"idle", "handshake", "reading", "request", "ready", "lock",
                         "writing", "sleep", "cleanup", "exhausted", "mutex"}]
  /\ ssl \in [Threads -> 0..MaxSessions] /\ retries \in [Threads -> 0..MaxRetries]

Init ==
  /\ backend \in {"openssl", "mbedtls"}
  /\ active = FALSE /\ ctx = 0 /\ useTls = FALSE
  /\ session = [s \in Sessions |-> "none"] /\ made = 0
  /\ mutex = "free" /\ unmade = FALSE /\ invalid = {}
  /\ pc = [t \in Threads |-> "idle"]
  /\ ssl = [t \in Threads |-> 0] /\ retries = [t \in Threads |-> 0]

Goto(t, place) == pc' = [pc EXCEPT ![t] = place]

-----------------------------------------------------------------------------
(* The server thread: accept and clean up.                                  *)

\* a free slot, its fields cleared, and SSL_new or mbedtls_ssl_setup
Accept ==
  /\ pc["server"] = "idle" /\ ~active /\ made < MaxSessions
  /\ made' = made + 1 /\ active' = TRUE /\ ctx' = 0 /\ useTls' = FALSE
  /\ session' = [session EXCEPT ![made + 1] = "handshake"]
  /\ Goto("server", "handshake")
  /\ UNCHANGED <<backend, mutex, ssl, retries, unmade, invalid>>

Shaken ==
  /\ pc["server"] = "handshake"
  /\ ctx' = made /\ useTls' = TRUE
  /\ session' = [session EXCEPT ![made] = "live"]
  /\ Goto("server", "idle")
  /\ UNCHANGED <<backend, active, made, mutex, ssl, retries, unmade, invalid>>

FreedOnFailure  == "freed"
KeptOnFailure == "live"
AfterFailure  == FreedOnFailure

\* a failed handshake leaves the slot active and without a session
HandshakeFails ==
  /\ pc["server"] = "handshake"
  /\ session' = [session EXCEPT ![made] = AfterFailure]
  /\ Goto("server", "idle")
  /\ UNCHANGED <<backend, active, ctx, useTls, made, mutex, ssl, retries, unmade, invalid>>

\* a request, the end of the connection or the timeout of an idle session; the
\* slot is inactive for ten milliseconds before it is cleaned up, after a TEARDOWN
\* and in the idle sweep for no longer than a step takes
Deactivate ==
  /\ pc["server"] \in {"idle", "request"} /\ active
  /\ active' = FALSE
  /\ Goto("server", "cleanup")
  /\ UNCHANGED <<backend, ctx, useTls, session, made, mutex, ssl, retries, unmade, invalid>>

\* rtsp_client_tls_cleanup: OpenSSL clears use_tls in any case
FreeSession ==
  /\ pc["server"] = "cleanup"
  /\ session' = [s \in Sessions |-> IF s = ctx THEN "freed" ELSE session[s]]
  /\ ctx' = 0
  /\ useTls' = (useTls /\ backend = "mbedtls" /\ ctx = 0)
  /\ Goto("server", "mutex")
  /\ UNCHANGED <<backend, active, made, mutex, ssl, retries, unmade, invalid>>

\* ... and the sockets, and ssl_mutex destroyed and made anew
RenewMutex ==
  /\ pc["server"] = "mutex"
  /\ mutex' = "free" /\ unmade' = (unmade \/ mutex # "free")
  /\ Goto("server", "idle")
  /\ UNCHANGED <<backend, slotVars, ssl, retries, invalid>>

-----------------------------------------------------------------------------
(* Reading a request.                                                       *)

Secured == useTls /\ ctx # 0

\* without a session recv() does
Read ==
  /\ pc["server"] = "idle" /\ active
  /\ IF Secured
     THEN ssl' = [ssl EXCEPT !["server"] = ctx] /\ Goto("server", "reading")
     ELSE Goto("server", "request") /\ UNCHANGED ssl
  /\ UNCHANGED <<backend, slotVars, mutex, retries, unmade, invalid>>

\* a failed read ends the connection, which Deactivate does
ReadDone ==
  /\ pc["server"] = "reading"
  /\ ssl' = [ssl EXCEPT !["server"] = 0] /\ Goto("server", "request")
  /\ UNCHANGED <<backend, slotVars, mutex, retries, unmade, invalid>>

-----------------------------------------------------------------------------
(* Writing: a reply by the server thread, a packet by the frame thread.     *)

\* A frame is begun for an active client, and the client is not asked again
\* between the fragments of a NAL unit.
BeginFrame ==
  /\ pc["frames"] = "idle" /\ active
  /\ Goto("frames", "ready")
  /\ UNCHANGED <<backend, slotVars, mutex, ssl, retries, unmade, invalid>>

EndFrame ==
  /\ pc["frames"] = "ready"
  /\ Goto("frames", "idle")
  /\ UNCHANGED <<backend, slotVars, mutex, ssl, retries, unmade, invalid>>

MayWrite(t) == pc[t] = IF t = "server" THEN "request" ELSE "ready"
Return(t) == Goto(t, IF t = "server" THEN "idle" ELSE "ready")

\* rtsp_client_tls_write decides without the mutex; send() is not followed here
Write(t) ==
  /\ MayWrite(t)
  /\ retries' = [retries EXCEPT ![t] = 0]
  /\ \/ ~Secured /\ Return(t) /\ UNCHANGED ssl
     \/ Secured /\ backend = "openssl" /\ Goto(t, "lock") /\ UNCHANGED ssl
     \/ /\ Secured /\ backend = "mbedtls"
        /\ ssl' = [ssl EXCEPT ![t] = ctx] /\ Goto(t, "writing")
  /\ UNCHANGED <<backend, slotVars, mutex, unmade, invalid>>

MutexFree == mutex = "free"
NotAsked  == TRUE
Lockable  == MutexFree

\* the local variable is read once, behind the first lock
Lock(t) ==
  /\ pc[t] \in {"lock", "sleep"} /\ Lockable
  /\ mutex' = t
  /\ ssl' = [ssl EXCEPT ![t] = IF pc[t] = "lock" THEN ctx ELSE ssl[t]]
  /\ IF retries[t] < MaxRetries THEN Goto(t, "writing") ELSE Goto(t, "exhausted")
  /\ UNCHANGED <<backend, slotVars, retries, unmade, invalid>>

\* the mutex is unlocked by whoever comes by its end
Unlock == mutex' = IF backend = "openssl" THEN "free" ELSE mutex

\* written, or failed without consequences
WriteDone(t) ==
  /\ pc[t] \in {"writing", "exhausted"}
  /\ Unlock /\ Return(t)
  /\ ssl' = [ssl EXCEPT ![t] = 0]
  /\ UNCHANGED <<backend, slotVars, retries, unmade, invalid>>

\* SSL_ERROR_WANT_READ and SSL_ERROR_WANT_WRITE; mbedTLS calls again at once
WantMore(t) ==
  /\ pc[t] = "writing" /\ backend = "openssl"
  /\ retries' = [retries EXCEPT ![t] = @ + 1]
  /\ mutex' = "free" /\ Goto(t, "sleep")
  /\ UNCHANGED <<backend, slotVars, ssl, unmade, invalid>>

\* SSL_ERROR_SSL and SSL_ERROR_SYSCALL mark the session of the slot as invalid,
\* and from there on the connection is used without TLS
WriteCorrupted(t) ==
  /\ pc[t] = "writing" /\ backend = "openssl"
  /\ invalid' = (invalid \cup {ctx}) \ {0}
  /\ ctx' = 0 /\ useTls' = FALSE
  /\ Unlock /\ Return(t)
  /\ ssl' = [ssl EXCEPT ![t] = 0]
  /\ UNCHANGED <<backend, active, session, made, retries, unmade>>

Server == Accept \/ Shaken \/ HandshakeFails \/ Deactivate \/ FreeSession \/ RenewMutex
          \/ Read \/ ReadDone

Writer(t) == Write(t) \/ Lock(t) \/ WriteDone(t) \/ WantMore(t) \/ WriteCorrupted(t)

Next == Server \/ BeginFrame \/ EndFrame \/ \E t \in Threads : Writer(t)

Spec == Init /\ [][Next]_tlsVars

-----------------------------------------------------------------------------
(* Properties.                                                              *)

Inside(t) == pc[t] = "writing"

(* rtsp_server.c:3272: two threads are within SSL_write at the same time only  *)
(* after cleanup_client made the mutex anew while one of them held it.         *)
WritersExclude ==
  (backend = "openssl" /\ ~unmade) => ~(Inside("server") /\ Inside("frames"))

(* rtsp_server.c:3176-3235, 3321-3329: a session that is not freed belongs to  *)
(* the slot, or it was given up by a write that failed, which is the one way   *)
(* to lose a session.                                                          *)
SessionsOwned ==
  \A s \in Sessions : session[s] = "live" => ctx = s \/ s \in invalid

(* rtsp_server.c:3324, "mark it as invalid immediately to prevent further      *)
(* use": nobody writes through a session that was marked as invalid.           *)
InvalidNotUsed == \A t \in Threads : Inside(t) => ssl[t] \notin invalid
=============================================================================
