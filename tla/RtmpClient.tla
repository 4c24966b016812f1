------------------------------ MODULE RtmpClient ------------------------------
(***************************************************************************)
(* The RTMP push client (rtmp_client.c).  Every enabled target has a       *)
(* connection and the connection a thread that connects, publishes and     *)
(* watches; a manager thread creates missing connections; the thread that  *)
(* takes frames from the encoder writes them to all publishing             *)
(* connections; the main thread tears everything down.                     *)
(*                                                                         *)
(* connections_mutex protects the list.  The connection threads never take *)
(* it: they change state, thread_running's reader and the socket while the *)
(* sender, holding the mutex, uses them.                                   *)
(***************************************************************************)
EXTENDS Naturals

CONSTANTS
    Targets,    \* enabled stream targets
    Malformed,  \* those whose url does not parse
    SleepCovers, \* the sleep between two attempts outlasts a frame's sending
    MaxFaults   \* bound: failures of the network and of pthread_create

None == "none"

ASSUME SizesAssumption == /\ None \notin Targets /\ Malformed \subseteq Targets
                          /\ SleepCovers \in BOOLEAN /\ MaxFaults \in Nat

VARIABLES
    client,   \* g_rtmp_client
    running,  \* client->running
    mutex,    \* who holds connections_mutex
    mpc, cur, \* the main thread, the connection it is destroying
    gpc,      \* the manager thread
    conns,    \* targets with a connection in the list
    tpc,      \* the connection threads
    trun,     \* thread_running
    state,    \* state, with the handshake's sub-states as CONNECTING
    sock,     \* socket_fd, and whether the peer is still there
    avc,      \* avc_header_sent
    peer,     \* what the sender did on the current session
    spc, todo, to, \* the sender: place, connections left, current one
    faults

mainVars   == <<client, running, mpc, cur>>
listVars   == <<gpc, conns>>
connVars   == <<tpc, trun, state, sock, peer>>
senderVars == <<spc, todo, to, avc>>
vars == <<mainVars, mutex, listVars, connVars, senderVars, faults>>

Init ==
    /\ client = "none" /\ running = FALSE /\ mutex = "free"
    /\ mpc = "init" /\ cur = None /\ gpc = "off" /\ conns = {}
    /\ tpc = [t \in Targets |-> "none"]
    /\ trun = [t \in Targets |-> FALSE]
    /\ state = [t \in Targets |-> "DISCONNECTED"]
    /\ sock = [t \in Targets |-> "none"]
    /\ avc = [t \in Targets |-> FALSE]
    /\ peer = [t \in Targets |-> {}]
    /\ spc = "idle" /\ todo = {} /\ to = None
    /\ faults = 0

(* A failure of the environment; the runs have finitely many.              *)
Fault == faults < MaxFaults /\ faults' = faults + 1

-----------------------------------------------------------------------------
(* rtmp_client_module_start and rtmp_client_destroy                        *)

Create ==
    /\ mpc = "init" /\ mpc' = "up"
    /\ client' = "live" /\ running' = TRUE /\ gpc' = "top"
    /\ UNCHANGED <<mutex, cur, conns, connVars, senderVars, faults>>

BeginStop ==
    /\ mpc = "up" /\ mpc' = "join"
    /\ running' = FALSE
    /\ UNCHANGED <<client, cur, mutex, listVars, connVars, senderVars, faults>>

Goto(place) == /\ mpc' = place
               /\ UNCHANGED <<client, running, gpc, senderVars, faults>>

JoinManager ==
    /\ mpc = "join" /\ gpc = "exited" /\ Goto("lock")
    /\ UNCHANGED <<cur, mutex, conns, connVars>>

LockList ==
    /\ mpc = "lock" /\ mutex = "free" /\ mutex' = "main" /\ Goto("list")
    /\ UNCHANGED <<cur, conns, connVars>>

(* rtmp_client_connection_stop: clear the flag, close the socket, join.    *)
StopConnection ==
    /\ mpc = "list"
    /\ \E t \in conns :
         /\ cur' = t
         /\ trun' = [trun EXCEPT ![t] = FALSE]
         /\ Goto(IF trun[t] THEN "close" ELSE "free")
    /\ UNCHANGED <<mutex, conns, tpc, state, sock, peer>>

CloseSocket ==
    /\ mpc = "close" /\ Goto("jointhread")
    /\ sock' = [sock EXCEPT ![cur] = "none"]
    /\ UNCHANGED <<cur, mutex, conns, tpc, trun, state, peer>>

(* Mutant: a thread that is sleeping between two attempts is not waited for*)
JoinUnlessAsleep ==
    /\ mpc = "jointhread" /\ tpc[cur] \in {"returned", "sleep"} /\ Goto("free")
    /\ UNCHANGED <<cur, mutex, conns, connVars>>

JoinThread ==
    /\ mpc = "jointhread" /\ tpc[cur] = "returned" /\ Goto("free")
    /\ UNCHANGED <<cur, mutex, conns, connVars>>

(* Mutant: destroy relies on the thread to have closed its socket.         *)
FreeOnly ==
    /\ mpc = "free" /\ Goto("list")
    /\ conns' = conns \ {cur} /\ cur' = None
    /\ UNCHANGED <<mutex, connVars>>

FreeConnection ==
    /\ mpc = "free" /\ Goto("list")
    /\ sock' = [sock EXCEPT ![cur] = "none"]
    /\ conns' = conns \ {cur} /\ cur' = None
    /\ UNCHANGED <<mutex, tpc, trun, state, peer>>

UnlockList ==
    /\ mpc = "list" /\ conns = {} /\ mutex' = "free" /\ Goto("freeclient")
    /\ UNCHANGED <<cur, conns, connVars>>

FreeClient ==
    /\ mpc = "freeclient" /\ mpc' = "down"
    /\ client' = "freed"
    /\ UNCHANGED <<running, cur, mutex, listVars, connVars, senderVars, faults>>

-----------------------------------------------------------------------------
(* rtmp_client_manager_thread                                              *)

ManagerGoes(place) == /\ gpc' = place
                      /\ UNCHANGED <<mainVars, mutex, senderVars>>

ManagerTop ==
    /\ gpc = "top"
    /\ ManagerGoes(IF running THEN "manage" ELSE "exited")
    /\ UNCHANGED <<conns, connVars, faults>>

(* One critical section creates and starts the missing connections.  When  *)
(* pthread_create fails the connection stays in the list, with no thread.  *)
Manage ==
    /\ gpc = "manage" /\ mutex = "free"
    /\ \E threadless \in SUBSET (Targets \ conns) :
         LET started == (Targets \ conns) \ threadless
         IN  /\ IF threadless = {} THEN UNCHANGED faults ELSE Fault
             /\ trun' = [t \in Targets |-> trun[t] \/ t \in started]
             /\ tpc' = [t \in Targets |-> IF t \in started THEN "parse" ELSE tpc[t]]
    /\ conns' = Targets
    /\ ManagerGoes("sleep")
    /\ UNCHANGED <<state, sock, peer>>

ManagerSleep ==
    /\ gpc = "sleep" /\ ManagerGoes("top")
    /\ UNCHANGED <<conns, connVars, faults>>

-----------------------------------------------------------------------------
(* rtmp_client_connection_thread                                           *)

Goes(t, place) == /\ tpc' = [tpc EXCEPT ![t] = place]
                  /\ UNCHANGED <<mainVars, mutex, listVars, trun, senderVars>>

Parse(t) ==
    /\ tpc[t] = "parse"
    /\ Goes(t, IF t \in Malformed THEN "returned" ELSE "loop")
    /\ UNCHANGED <<state, sock, peer, faults>>

(* Mutant: the thread does not look at thread_running between attempts.    *)
LoopForever(t) ==
    /\ tpc[t] = "loop" /\ Goes(t, "open")
    /\ UNCHANGED <<state, sock, peer, faults>>

Loop(t) ==
    /\ tpc[t] = "loop"
    /\ Goes(t, IF trun[t] THEN "open" ELSE "returned")
    /\ UNCHANGED <<state, sock, peer, faults>>

Open(t) ==
    /\ tpc[t] = "open"
    /\ state' = [state EXCEPT ![t] = "CONNECTING"]
    /\ \/ /\ sock' = [sock EXCEPT ![t] = "up"]
          /\ peer' = [peer EXCEPT ![t] = {}]
          /\ Goes(t, "setup") /\ UNCHANGED faults
       \/ /\ Fault /\ Goes(t, "sleep")
          /\ UNCHANGED <<sock, peer>>

(* Name lookup, connect, TLS, handshake, connect, createStream, publish.   *)
Publish(t) ==
    /\ tpc[t] = "setup" /\ sock[t] = "up"
    /\ state' = [state EXCEPT ![t] = "PUBLISHING"]
    /\ Goes(t, "announce")
    /\ UNCHANGED <<sock, peer, faults>>

SetupFails(t) ==
    /\ tpc[t] = "setup"
    /\ IF sock[t] = "up" THEN Fault ELSE UNCHANGED faults
    /\ sock' = [sock EXCEPT ![t] = "none"]
    /\ Goes(t, "sleep")
    /\ UNCHANGED <<state, peer>>

(* The chunk size and the AAC configuration, sent when already PUBLISHING. *)
Announce(t) ==
    /\ tpc[t] = "announce" /\ sock[t] = "up"
    /\ Goes(t, "monitor")
    /\ UNCHANGED <<state, sock, peer, faults>>

AnnounceFails(t) ==
    /\ tpc[t] = "announce" /\ sock[t] # "up"
    /\ state' = [state EXCEPT ![t] = "ERROR"]
    /\ Goes(t, "returned")
    /\ UNCHANGED <<sock, peer, faults>>

Leave(t) ==
    /\ tpc[t] = "monitor"
    /\ ~trun[t] \/ state[t] # "PUBLISHING" \/ sock[t] = "none"
    /\ Goes(t, "close")
    /\ UNCHANGED <<state, sock, peer, faults>>

(* SO_ERROR tells of a reset, but not of a peer that closed in good order. *)
Detect(t) ==
    /\ tpc[t] = "monitor" /\ sock[t] = "down"
    /\ Goes(t, "close")
    /\ UNCHANGED <<state, sock, peer, faults>>

Close(t) ==
    /\ tpc[t] = "close"
    /\ sock' = [sock EXCEPT ![t] = "none"]
    /\ state' = [state EXCEPT ![t] = "DISCONNECTED"]
    /\ Goes(t, "sleep")
    /\ UNCHANGED <<peer, faults>>

(* 30 seconds, and 5 more after a session; a blocked send times out after  *)
(* 30, so only a very late sender is still busy with the old session.      *)
Sleep(t) ==
    /\ tpc[t] = "sleep"
    /\ SleepCovers => to # t
    /\ Goes(t, "loop")
    /\ UNCHANGED <<state, sock, peer, faults>>

(* The peer resets or closes the session, or stops reading: from then on   *)
(* what is sent fails.                                                     *)
Drop(t) ==
    /\ sock[t] = "up" /\ Fault
    /\ sock' = [sock EXCEPT ![t] = "down"]
    /\ UNCHANGED <<mainVars, mutex, listVars, tpc, trun, state, peer,
                   senderVars>>

-----------------------------------------------------------------------------
(* The sender: rtmp_client_send_frame, and before it the question whether  *)
(* any connection is active, each in a critical section of its own.        *)

Active(t) == state[t] = "PUBLISHING" /\ trun[t]

SenderGoes(place) == /\ spc' = place
                     /\ UNCHANGED <<mainVars, listVars, tpc, trun, sock, faults>>

FrameArrives ==
    /\ spc = "idle" /\ client = "live"
    /\ SenderGoes("count")
    /\ UNCHANGED <<mutex, state, peer, todo, to, avc>>

CountActive ==
    /\ spc = "count" /\ client = "live" /\ mutex = "free"
    /\ SenderGoes(IF \E t \in conns : Active(t) THEN "lock" ELSE "idle")
    /\ UNCHANGED <<mutex, state, peer, todo, to, avc>>

SenderLocks ==
    /\ spc = "lock" /\ client = "live" /\ mutex = "free"
    /\ mutex' = "sender" /\ todo' = conns
    /\ SenderGoes("next")
    /\ UNCHANGED <<state, peer, to, avc>>

(* The client is checked without the mutex and may be freed before it is   *)
(* locked, or before a sender that found an empty list has unlocked it:    *)
(* undefined, here the end of the process, or an unlock as if nothing was. *)
UseAfterFree ==
    /\ spc \in {"count", "lock", "next"} /\ client = "freed"
    /\ mutex' = "free"
    /\ SenderGoes("crashed")
    /\ UNCHANGED <<state, peer, todo, to, avc>>

NextConnection ==
    /\ spc = "next"
    /\ \E t \in todo :
         /\ todo' = todo \ {t}
         /\ IF Active(t) /\ sock[t] # "none"
              THEN to' = t /\ SenderGoes(IF avc[t] THEN "frame" ELSE "header")
              ELSE UNCHANGED to /\ SenderGoes("next")
    /\ UNCHANGED <<mutex, state, peer, avc>>

(* The parameters of the frame manager or, failing them, of the key frame. *)
SendHeader ==
    /\ spc = "header" /\ sock[to] = "up"
    /\ peer' = [peer EXCEPT ![to] = @ \cup {"header"}]
    /\ avc' = [avc EXCEPT ![to] = TRUE]
    /\ SenderGoes("frame")
    /\ UNCHANGED <<mutex, state, todo, to>>

(* No parameters for five seconds: go on without.                          *)
WaiveHeader ==
    /\ spc = "header"
    /\ peer' = [peer EXCEPT ![to] = @ \cup {"waived"}]
    /\ avc' = [avc EXCEPT ![to] = TRUE]
    /\ SenderGoes("frame")
    /\ UNCHANGED <<mutex, state, todo, to>>

(* No parameters yet, or sending them before an inter frame failed.        *)
SkipFrame ==
    /\ spc = "header"
    /\ to' = None
    /\ SenderGoes("next")
    /\ UNCHANGED <<mutex, state, peer, todo, avc>>

(* A key frame is sent also when the header before it could not be.        *)
HeaderFails ==
    /\ spc = "header" /\ sock[to] # "up"
    /\ SenderGoes("frame")
    /\ UNCHANGED <<mutex, state, peer, todo, to, avc>>

SendFrame ==
    /\ spc = "frame" /\ sock[to] = "up"
    /\ peer' = [peer EXCEPT ![to] = @ \cup {"frame"}]
    /\ to' = None
    /\ SenderGoes("next")
    /\ UNCHANGED <<mutex, state, todo, avc>>

(* Mutant: a failed frame leaves the state alone.                          *)
IgnoreFailure ==
    /\ spc = "frame" /\ sock[to] # "up"
    /\ to' = None
    /\ SenderGoes("next")
    /\ UNCHANGED <<mutex, state, peer, todo, avc>>

FrameFails ==
    /\ spc = "frame" /\ sock[to] # "up"
    /\ SenderGoes("mark")
    /\ UNCHANGED <<mutex, state, peer, todo, to, avc>>

MarkDisconnected ==
    /\ spc = "mark"
    /\ state' = [state EXCEPT ![to] = "DISCONNECTED"]
    /\ to' = None
    /\ SenderGoes("next")
    /\ UNCHANGED <<mutex, peer, todo, avc>>

SenderUnlocks ==
    /\ spc = "next" /\ todo = {} /\ mutex' = "free"
    /\ SenderGoes("idle")
    /\ UNCHANGED <<state, peer, todo, to, avc>>

-----------------------------------------------------------------------------
Main == \/ Create \/ JoinManager \/ StopConnection \/ CloseSocket \/ JoinThread
        \/ FreeConnection \/ UnlockList \/ FreeClient

Manager == ManagerTop \/ ManagerSleep

Thread(t) == \/ Parse(t) \/ Loop(t) \/ Open(t) \/ Publish(t) \/ SetupFails(t)
             \/ Announce(t) \/ AnnounceFails(t) \/ Leave(t) \/ Close(t) \/ Sleep(t)

Sender == \/ FrameArrives \/ CountActive \/ SenderLocks \/ UseAfterFree
          \/ NextConnection \/ SendHeader \/ WaiveHeader \/ SkipFrame
          \/ HeaderFails \/ SendFrame \/ FrameFails \/ MarkDisconnected
          \/ SenderUnlocks

Next == \/ Main \/ BeginStop \/ LockList
        \/ Manager \/ Manage
        \/ \E t \in Targets : Thread(t) \/ Detect(t) \/ Drop(t)
        \/ Sender

Spec == Init /\ [][Next]_vars

(* All threads run; sleeps and socket calls end; frames keep coming; who   *)
(* waits for the mutex gets it, because the sender releases it between two *)
(* frames; and key frames recur.  Nothing makes SO_ERROR report.           *)
FairSpec == /\ Spec
            /\ WF_vars(Main) /\ SF_vars(LockList)
            /\ WF_vars(Manager) /\ SF_vars(Manage)
            /\ \A t \in Targets : WF_vars(Thread(t))
            /\ WF_vars(Sender) /\ SF_vars(HeaderFails)

-----------------------------------------------------------------------------
(* Properties                                                              *)

(* Every variable stays within its type.                                   *)
TypeOK ==
    /\ client \in {"none", "live", "freed"} /\ running \in BOOLEAN
    /\ mutex \in {"free", "main", "sender"}
    /\ mpc \in {"init", "up", "join", "lock", "list", "close", "jointhread",
                "free", "freeclient", "down"}
    /\ cur \in Targets \cup {None}
    /\ mpc \in {"close", "jointhread", "free"} => cur \in conns
    /\ gpc \in {"off", "top", "manage", "sleep", "exited"}
    /\ conns \subseteq Targets
    /\ tpc \in [Targets -> {"none", "parse", "loop", "open", "setup", "announce",
                            "monitor", "close", "sleep", "returned"}]
    /\ trun \in [Targets -> BOOLEAN]
    /\ state \in [Targets -> {"DISCONNECTED", "CONNECTING", "PUBLISHING", "ERROR"}]
    /\ sock \in [Targets -> {"none", "up", "down"}]
    /\ avc \in [Targets -> BOOLEAN]
    /\ peer \in [Targets -> SUBSET {"header", "waived", "frame"}]
    /\ spc \in {"idle", "count", "lock", "next", "header", "frame", "mark", "crashed"}
    /\ todo \subseteq Targets /\ to \in Targets \cup {None}
    /\ spc \in {"header", "frame", "mark"} => to \in Targets
    /\ faults \in 0..MaxFaults

Freed(t) == t \notin conns

(* rtmp_client.c:502-532: when destroy frees a connection its thread has   *)
(* returned and the sender does not use it; when it frees the client the   *)
(* manager and all connection threads have ended and the sender is at no   *)
(* connection.  Not promised, and false: that the sender does not touch    *)
(* the mutex of a client that was freed since line 735 (UseAfterFree).     *)
FreedIsUnused ==
    /\ \A t \in Targets : Freed(t) => /\ tpc[t] \in {"none", "returned"}
                                      /\ t \notin todo \cup {to}
    /\ client = "freed" => /\ gpc = "exited" /\ conns = {}
                           /\ \A t \in Targets : tpc[t] \in {"none", "returned"}
                           /\ spc \notin {"header", "frame", "mark"} /\ todo = {}

(* An open socket has an owner that will close it: the thread that uses it,*)
(* or the connection its thread abandoned, until destroy.  So an attempt   *)
(* starts with no socket open, and none survives the connection.           *)
SocketsAccounted == \A t \in Targets :
    sock[t] # "none" =>
        /\ ~Freed(t)
        /\ tpc[t] \in {"setup", "announce", "monitor", "close", "returned"}

(* rtmp_client_destroy returns, whatever the connection threads, the       *)
(* manager and the sender are doing.                                       *)
DestroyReturns == mpc = "join" ~> client = "freed"

(* A session that died under its watching thread is noticed, also when the *)
(* socket reports no error: the sender's failure tells the thread.         *)
DeadNoticed == \A t \in Targets :
    tpc[t] = "monitor" /\ sock[t] = "down" ~> sock[t] = "none"

(* An attempt that failed or a session that was lost is followed by        *)
(* another attempt until one succeeds, unless the connection is stopped or *)
(* fails while it announces itself.                                        *)
Retries == \A t \in Targets :
    tpc[t] = "sleep" ~> \/ tpc[t] = "monitor" /\ sock[t] = "up"
                        \/ state[t] = "ERROR" \/ ~trun[t]

(* docs/RTMP_CLIENT.md: "Auto-Reconnection: Automatic retry"; so a session *)
(* that broke is followed by one that works, unless the client is stopped. *)
Reconnects == \A t \in Targets :
    sock[t] = "down" ~> \/ tpc[t] = "monitor" /\ sock[t] = "up"
                        \/ mpc \notin {"init", "up"}

(* docs/RTMP_FLOW.md: the sequence header precedes the frames of a session;*)
(* the sender may only give up waiting for it.                             *)
HeaderFirst == \A t \in Targets :
    "frame" \in peer[t] => peer[t] \cap {"header", "waived"} # {}

=============================================================================
