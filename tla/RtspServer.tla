------------------------------ MODULE RtspServer ------------------------------
(***************************************************************************)
(* The session table of the RTSP server (modules/rtsp/rtsp_server.c) and   *)
(* the one thread that owns it, server_thread_func: a select() loop that   *)
(* accepts connections into slots, serves one request per readable slot,   *)
(* sweeps idle slots when the network is quiet and dead descriptors when   *)
(* select() fails.  The main thread starts, stops and destroys the server. *)
(*                                                                         *)
(* A slot refers to its sockets by descriptor NUMBER, and numbers belong   *)
(* to the whole process: `kernel` is the table of what each number really  *)
(* refers to, the slots hold what the server believes.  Other threads      *)
(* (HTTP, RTMP, ONVIF, files) open and close descriptors meanwhile.        *)
(***************************************************************************)
EXTENDS Integers, FiniteSets

CONSTANTS
    NumSlots,        \* MAX_RTSP_CLIENTS
    MaxClients,      \* server->config.max_clients
    Fds,             \* descriptor numbers available to sessions and others
    TlsEnabled,      \* server->config.tls_enabled
    MaxForeign,      \* bound: descriptors other threads hold at once
    MaxBadHandshakes,\* bound: TLS handshakes that fail
    MaxLostTeardowns \* bound: TEARDOWN replies the peer no longer takes

ASSUME SlotsAssumption == NumSlots \in Nat \ {0}
ASSUME ClientsAssumption == MaxClients \in Nat \ {0}
ASSUME FdsAssumption == Fds \subseteq Nat
ASSUME BoundsAssumption == /\ TlsEnabled \in BOOLEAN
                           /\ MaxForeign \in Nat
                           /\ MaxBadHandshakes \in Nat
                           /\ MaxLostTeardowns \in Nat

VARIABLES
    active,    \* clients[i].active
    st,        \* clients[i].state
    sock,      \* clients[i].socket_fd
    rtp,       \* clients[i].rtp_socket_fd
    transport, \* clients[i].transport_mode
    idle,      \* last_activity_us of the client is older than session_timeout
    count,     \* server->client_count
    kernel,    \* the object each descriptor number refers to
    gone,      \* control connections whose peer has closed
    held,      \* descriptor numbers other threads believe they own
    phase,     \* the main thread's view of the server
    pc,        \* where the server thread is
    cur,       \* the slot the scan over the clients has reached
    ready,     \* read_fds: the session descriptors select() flagged
    pending,   \* read_fds: the listening sockets select() flagged
    was,       \* was_playing: the client being served came in as PLAYING
    result,    \* result >= 0: handle_client_connection went well
    reply,     \* the response to the PLAY, PAUSE or TEARDOWN just handled
    granted,   \* history: slots whose session was answered 200 to a PLAY
    badHandshakes, lostTeardowns  \* faults that happened so far

slotVars  == <<active, st, sock, rtp, transport, idle, count, granted>>
tableVars == <<kernel, gone, held>>
loopVars  == <<pc, cur, ready, pending, was, result, reply>>
faultVars == <<badHandshakes, lostTeardowns>>
serverVars == <<slotVars, loopVars, faultVars, phase>>
vars == <<slotVars, tableVars, loopVars, faultVars, phase>>

Slots   == 1..NumSlots
None    == -1
States  == {"INIT", "READY", "PLAYING"}
Free    == <<"free", 0>>
Foreign == <<"foreign", 0>>
Ctrl(s) == <<"ctrl", s>>
Rtp(s)  == <<"rtp", s>>
Objects == {Free, Foreign} \cup {Ctrl(s) : s \in Slots} \cup {Rtp(s) : s \in Slots}

NoReply == [slot |-> 0, method |-> "none", ok |-> FALSE]
Replies == [slot   : Slots \cup {0},
            method : {"none", "PLAY", "PAUSE", "TEARDOWN"},
            ok     : BOOLEAN]

-----------------------------------------------------------------------------
(* Descriptors.  The kernel hands out the lowest free number.              *)

LowestFree(f) == /\ kernel[f] = Free
                 /\ \A g \in Fds : kernel[g] = Free => f <= g

TableFull == \A f \in Fds : kernel[f] # Free

(* Mutant: close() is forgotten.                                           *)
ClosedNothing(C) == kernel

Closed(C) == [f \in Fds |-> IF f \in C THEN Free ELSE kernel[f]]

-----------------------------------------------------------------------------
(* rtsp_server_create and rtsp_server_start                                *)

Init ==
    /\ active = [s \in Slots |-> FALSE]
    /\ st = [s \in Slots |-> "INIT"]
    /\ sock = [s \in Slots |-> None]
    /\ rtp = [s \in Slots |-> None]
    /\ transport = [s \in Slots |-> "UDP"]
    /\ idle = [s \in Slots |-> FALSE]
    /\ count = 0
    /\ kernel = [f \in Fds |-> Free]
    /\ gone = {} /\ held = {}
    /\ phase = "created"
    /\ pc = "select" /\ cur = 0 /\ ready = {} /\ pending = {}
    /\ was = FALSE /\ result = FALSE
    /\ reply = NoReply /\ granted = {}
    /\ badHandshakes = 0 /\ lostTeardowns = 0

(* A start that fails to bind, listen or create a thread unwinds to the    *)
(* created state, which is a stuttering step here.                         *)
Start == /\ phase = "created"
         /\ phase' = "running"
         /\ UNCHANGED <<slotVars, tableVars, loopVars, faultVars>>

(* rtsp_server_stop: should_stop is set and the plain listening socket     *)
(* closed while the server thread may be anywhere in its loop.             *)
Stop == /\ phase = "running"
        /\ phase' = "stopping"
        /\ UNCHANGED <<slotVars, tableVars, loopVars, faultVars>>

-----------------------------------------------------------------------------
(* Mutant: the slot keeps the numbers of the sockets it has closed.        *)
CleanupKeepsFds(s) ==
    /\ kernel' = Closed({sock[s], rtp[s]})
    /\ gone' = gone \ {sock[s], rtp[s]}
    /\ active' = [active EXCEPT ![s] = FALSE]
    /\ st' = [st EXCEPT ![s] = "INIT"]
    /\ idle' = [idle EXCEPT ![s] = FALSE]
    /\ UNCHANGED <<sock, rtp, transport, granted, held>>

(* cleanup_client(s): close both sockets and give the slot back.           *)
Cleanup(s) ==
    /\ kernel' = Closed({sock[s], rtp[s]})
    /\ gone' = gone \ {sock[s], rtp[s]}
    /\ sock' = [sock EXCEPT ![s] = None]
    /\ rtp' = [rtp EXCEPT ![s] = None]
    /\ active' = [active EXCEPT ![s] = FALSE]
    /\ st' = [st EXCEPT ![s] = "INIT"]
    /\ idle' = [idle EXCEPT ![s] = FALSE]
    /\ UNCHANGED <<transport, granted, held>>

(* rtsp_server_destroy after the join: every slot is cleaned up.           *)
Destroy ==
    /\ pc = "exited" /\ phase = "stopping"
    /\ LET closing == {sock[s] : s \in Slots} \cup {rtp[s] : s \in Slots}
       IN  kernel' = Closed(closing) /\ gone' = gone \ closing
    /\ sock' = [s \in Slots |-> None]
    /\ rtp' = [s \in Slots |-> None]
    /\ active' = [s \in Slots |-> FALSE]
    /\ st' = [s \in Slots |-> "INIT"]
    /\ idle' = [s \in Slots |-> FALSE]
    /\ phase' = "destroyed"
    /\ UNCHANGED <<transport, granted, count, held, loopVars, faultVars>>

-----------------------------------------------------------------------------
(* The select() call and its three outcomes                                *)

Watched == {sock[s] : s \in {x \in Slots : active[x] /\ sock[x] # None}}

AtSelect == pc = "select" /\ phase \in {"running", "stopping"}

Exit == /\ AtSelect /\ phase = "stopping"
        /\ pc' = "exited"
        /\ UNCHANGED <<slotVars, tableVars, faultVars, phase, cur, ready, pending, was, result, reply>>

(* EBADF: a watched number is not open.  The slots that hold such a number *)
(* are deactivated, and nothing else is done for them.                     *)
SelectFails ==
    /\ AtSelect /\ phase = "running"
    /\ \E f \in Watched : kernel[f] = Free
    /\ active' = [s \in Slots |-> /\ active[s]
                                  /\ sock[s] # None => kernel[sock[s]] # Free]
    /\ UNCHANGED <<st, sock, rtp, transport, granted, idle, count, tableVars,
                   faultVars, phase, loopVars>>

(* Something is readable; a connection the peer has closed always is.      *)
SelectReady ==
    /\ AtSelect /\ phase = "running"
    /\ \A f \in Watched : kernel[f] # Free
    /\ \E R \in SUBSET Watched :
         \E P \in SUBSET (IF TlsEnabled THEN {"plain", "tls"} ELSE {"plain"}) :
           /\ R # {} \/ P # {}
           /\ Watched \cap gone \subseteq R
           /\ ready' = R /\ pending' = P
    /\ pc' = "accept"
    /\ UNCHANGED <<slotVars, tableVars, faultVars, phase, cur, was, result, reply>>

(* Mutant: a client that is PLAYING never expires.                         *)
ExpiredNotPlaying == {s \in Slots : active[s] /\ idle[s] /\ st[s] # "PLAYING"}

Expired == {s \in Slots : active[s] /\ idle[s]}

(* A quiet second: slots idle for longer than session_timeout are cleaned  *)
(* up and leave the count.                                                 *)
SelectTimesOut ==
    /\ AtSelect /\ phase = "running"
    /\ \A f \in Watched : kernel[f] # Free
    /\ Watched \cap gone = {}
    /\ LET closing == ({sock[s] : s \in Expired} \cup {rtp[s] : s \in Expired}) \ {None}
       IN  kernel' = Closed(closing) /\ gone' = gone \ closing
    /\ sock' = [s \in Slots |-> IF s \in Expired THEN None ELSE sock[s]]
    /\ rtp' = [s \in Slots |-> IF s \in Expired THEN None ELSE rtp[s]]
    /\ active' = [s \in Slots |-> active[s] /\ s \notin Expired]
    /\ st' = [s \in Slots |-> IF s \in Expired THEN "INIT" ELSE st[s]]
    /\ idle' = [s \in Slots |-> idle[s] /\ s \notin Expired]
    /\ count' = count - Cardinality(Expired)
    /\ UNCHANGED <<transport, granted, held, faultVars, phase, loopVars>>

-----------------------------------------------------------------------------
(* New connections                                                         *)

FreeSlots == {s \in Slots : ~active[s]}

(* find_free_client_slot: the first slot that is not active.               *)
FirstFree(s) == s \in FreeSlots /\ \A x \in FreeSlots : s <= x

(* A new connection becomes descriptor f of slot s, whatever the slot held.*)
Occupy(s, f) ==
    /\ active' = [active EXCEPT ![s] = TRUE]
    /\ st' = [st EXCEPT ![s] = "INIT"]
    /\ sock' = [sock EXCEPT ![s] = f]
    /\ rtp' = [rtp EXCEPT ![s] = None]
    /\ transport' = [transport EXCEPT ![s] = "UDP"]
    /\ idle' = [idle EXCEPT ![s] = FALSE]
    /\ granted' = granted \ {s}

NextListener == /\ pc' = IF pc = "accept" THEN "tls" ELSE "scan"
                /\ UNCHANGED <<cur, ready, pending, was, result, reply>>

(* The listener at hand has no connection, is closed, the process is out   *)
(* of descriptors, the server is full, or no slot is free: the connection  *)
(* (if any) is closed again and nothing is recorded.                       *)
AcceptNothing ==
    /\ pc \in {"accept", "tls"}
    /\ \/ pc = "accept" /\ ("plain" \notin pending \/ phase # "running")
       \/ pc = "tls" /\ "tls" \notin pending
       \/ TableFull
       \/ count >= MaxClients
       \/ FreeSlots = {}
    /\ NextListener
    /\ UNCHANGED <<slotVars, tableVars, faultVars, phase>>

CanAdmit == count < MaxClients /\ FreeSlots # {}

AcceptPlain ==
    /\ pc = "accept" /\ "plain" \in pending /\ phase = "running"
    /\ CanAdmit
    /\ \E s \in Slots, f \in Fds :
         /\ FirstFree(s) /\ LowestFree(f)
         /\ Occupy(s, f)
         /\ kernel' = [kernel EXCEPT ![f] = Ctrl(s)]
    /\ count' = count + 1
    /\ NextListener
    /\ UNCHANGED <<gone, held, faultVars, phase>>

AcceptTls ==
    /\ pc = "tls" /\ "tls" \in pending
    /\ CanAdmit
    /\ \E s \in Slots, f \in Fds :
         /\ FirstFree(s) /\ LowestFree(f)
         /\ Occupy(s, f)
         /\ kernel' = [kernel EXCEPT ![f] = Ctrl(s)]
    /\ count' = count + 1
    /\ NextListener
    /\ UNCHANGED <<gone, held, faultVars, phase>>

(* A handshake that fails: the descriptor is closed, but the slot was      *)
(* filled in before the handshake and is left active and uncounted.        *)
HandshakeFails ==
    /\ pc = "tls" /\ "tls" \in pending
    /\ CanAdmit
    /\ badHandshakes < MaxBadHandshakes
    /\ badHandshakes' = badHandshakes + 1
    /\ \E s \in Slots, f \in Fds :
         FirstFree(s) /\ LowestFree(f) /\ Occupy(s, f)
    /\ NextListener
    /\ UNCHANGED <<count, tableVars, lostTeardowns, phase>>

-----------------------------------------------------------------------------
(* One request of a readable client (handle_client_connection)             *)

Todo == {s \in Slots : s > cur /\ active[s] /\ sock[s] # None /\ sock[s] \in ready}

Serving(s) == pc = "scan" /\ s \in Todo /\ \A x \in Todo : s <= x

(* recv() returns data: the number refers to an open connection.           *)
Readable(s) == kernel[sock[s]] # Free /\ sock[s] \notin gone

(* The loop starts over: FD_ZERO forgets what was readable.                *)
ScanDone == /\ pc = "scan" /\ Todo = {}
            /\ pc' = "select" /\ cur' = 0 /\ ready' = {} /\ pending' = {}
            /\ reply' = NoReply /\ UNCHANGED <<was, result>>
            /\ UNCHANGED <<slotVars, tableVars, faultVars, phase>>

(* A TCP client is shown to the handler as READY while it is PLAYING.      *)
Seen(s) == IF transport[s] = "TCP" /\ st[s] = "PLAYING" THEN "READY" ELSE st[s]

(* The handler is back: `new` is the state it left, for the frame thread   *)
(* to see, `sent` whether its reply went out.                              *)
Return(s, new, sent) ==
    /\ cur' = s
    /\ was' = (st[s] = "PLAYING")
    /\ st' = [st EXCEPT ![s] = new]
    /\ result' = sent
    /\ pc' = "back"
    /\ UNCHANGED active

(* After the handler a client that came in PLAYING and is READY is put     *)
(* back to PLAYING: the TCP client hidden from the frame thread for the    *)
(* message, and the UDP client whose PAUSE or SETUP made it READY alike.   *)
(* A lost reply or connection deactivates the client.                      *)
Restore ==
    /\ pc = "back"
    /\ st' = [st EXCEPT ![cur] = IF active[cur] /\ result /\ was /\ @ = "READY"
                                   THEN "PLAYING" ELSE @]
    /\ IF result THEN pc' = "scan" /\ UNCHANGED active
                 ELSE pc' = "closing" /\ active' = [active EXCEPT ![cur] = FALSE]
    /\ was' = FALSE /\ result' = FALSE
    /\ UNCHANGED <<sock, rtp, transport, granted, idle, count, tableVars,
                   faultVars, phase, cur, ready, pending, reply>>

Answer(s, method, ok) == reply' = [slot |-> s, method |-> method, ok |-> ok]

Touch(s) == idle' = [idle EXCEPT ![s] = FALSE]

(* recv() fails or reads end of file, or the request does not parse.       *)
Disconnect(s) ==
    /\ Serving(s)
    /\ Return(s, Seen(s), FALSE)
    /\ idle' \in {idle, [idle EXCEPT ![s] = FALSE]}
    /\ reply' = NoReply
    /\ UNCHANGED <<sock, rtp, transport, granted, count, tableVars, faultVars,
                   phase, ready, pending>>

(* Interleaved RTP/RTCP from the client is ignored, without being counted  *)
(* as activity.                                                            *)
Interleaved(s) ==
    /\ Serving(s) /\ Readable(s)
    /\ Return(s, Seen(s), TRUE)
    /\ reply' = NoReply
    /\ UNCHANGED <<sock, rtp, transport, granted, idle, count, tableVars,
                   faultVars, phase, ready, pending>>

(* Everything answered without touching the session: OPTIONS, DESCRIBE,    *)
(* unknown methods, and any request that fails authentication.             *)
Other(s, sent) ==
    /\ Serving(s) /\ Readable(s)
    /\ Touch(s) /\ reply' = NoReply
    /\ Return(s, Seen(s), sent)
    /\ UNCHANGED <<sock, rtp, transport, granted, count, tableVars, faultVars,
                   phase, ready, pending>>

(* handle_setup_request.  404 for an unknown stream changes nothing and is *)
(* in Other; a UDP SETUP without client ports is refused after the         *)
(* transport was switched; a UDP SETUP stores a new socket over the old.   *)
SetupTcp(s, sent) ==
    /\ Serving(s) /\ Readable(s)
    /\ Touch(s) /\ reply' = NoReply
    /\ transport' = [transport EXCEPT ![s] = "TCP"]
    /\ Return(s, "READY", sent)
    /\ UNCHANGED <<sock, rtp, granted, count, tableVars, faultVars, phase,
                   ready, pending>>

SetupNoPorts(s, sent) ==
    /\ Serving(s) /\ Readable(s)
    /\ Touch(s) /\ reply' = NoReply
    /\ transport' = [transport EXCEPT ![s] = "UDP"]
    /\ Return(s, Seen(s), sent)
    /\ UNCHANGED <<sock, rtp, granted, count, tableVars, faultVars, phase,
                   ready, pending>>

SetupUdp(s, sent) ==
    /\ Serving(s) /\ Readable(s)
    /\ Touch(s) /\ reply' = NoReply
    /\ transport' = [transport EXCEPT ![s] = "UDP"]
    /\ \/ /\ TableFull
          /\ rtp' = [rtp EXCEPT ![s] = None]
          /\ Return(s, Seen(s), sent)
          /\ UNCHANGED kernel
       \/ \E f \in Fds :
            /\ LowestFree(f)
            /\ rtp' = [rtp EXCEPT ![s] = f]
            /\ kernel' = [kernel EXCEPT ![f] = Rtp(s)]
            /\ Return(s, "READY", sent)
    /\ UNCHANGED <<sock, granted, count, gone, held, faultVars, phase, ready,
                   pending>>

(* Mutant: PLAY does not look at the state.                                *)
PlayUnchecked(s, sent) ==
    /\ Serving(s) /\ Readable(s)
    /\ Touch(s)
    /\ Answer(s, "PLAY", TRUE) /\ Return(s, "PLAYING", sent)
    /\ granted' = granted \cup {s}
    /\ UNCHANGED <<sock, rtp, transport, count, tableVars, faultVars, phase,
                   ready, pending>>

Play(s, sent) ==
    /\ Serving(s) /\ Readable(s)
    /\ Touch(s)
    /\ IF Seen(s) \in {"READY", "PLAYING"}
         THEN /\ Answer(s, "PLAY", TRUE) /\ Return(s, "PLAYING", sent)
              /\ granted' = granted \cup {s}
         ELSE /\ Answer(s, "PLAY", FALSE) /\ Return(s, Seen(s), sent)
              /\ UNCHANGED granted
    /\ UNCHANGED <<sock, rtp, transport, count, tableVars, faultVars, phase,
                   ready, pending>>

Pause(s, sent) ==
    /\ Serving(s) /\ Readable(s)
    /\ Touch(s)
    /\ IF Seen(s) = "PLAYING"
         THEN Answer(s, "PAUSE", TRUE) /\ Return(s, "READY", sent)
         ELSE Answer(s, "PAUSE", FALSE) /\ Return(s, Seen(s), sent)
    /\ UNCHANGED <<sock, rtp, transport, granted, count, tableVars, faultVars,
                   phase, ready, pending>>

(* TEARDOWN: the reply, 10ms, then cleanup_client and the count.  When the *)
(* reply was lost the handler has cleaned up AND reports an error, so the  *)
(* main loop cleans up and counts the client out once more.                *)
Teardown(s) ==
    /\ Serving(s) /\ Readable(s)
    /\ Touch(s)
    /\ st' = [st EXCEPT ![s] = "INIT"]
    /\ cur' = s
    /\ \/ Answer(s, "TEARDOWN", TRUE) /\ UNCHANGED lostTeardowns
       \/ /\ lostTeardowns < MaxLostTeardowns
          /\ lostTeardowns' = lostTeardowns + 1
          /\ Answer(s, "TEARDOWN", FALSE)
    /\ pc' = "teardown"
    /\ UNCHANGED <<active, sock, rtp, transport, granted, count, tableVars,
                   badHandshakes, phase, ready, pending, was, result>>

FinishTeardown ==
    /\ pc = "teardown"
    /\ Cleanup(cur)
    /\ count' = count - 1
    /\ pc' = IF reply.ok THEN "scan" ELSE "closing"
    /\ UNCHANGED <<faultVars, phase, cur, ready, pending, was, result, reply>>

(* Mutant: a client that hangs up is not counted out.                      *)
FinishCloseUncounted ==
    /\ pc = "closing"
    /\ Cleanup(cur)
    /\ pc' = "scan"
    /\ UNCHANGED <<count, faultVars, phase, cur, ready, pending, was, result, reply>>

(* The end of the 10ms window after a client was deactivated.              *)
FinishClose ==
    /\ pc = "closing"
    /\ Cleanup(cur)
    /\ count' = count - 1
    /\ pc' = "scan"
    /\ UNCHANGED <<faultVars, phase, cur, ready, pending, was, result, reply>>

-----------------------------------------------------------------------------
(* The peers, the clock and the other threads of the process               *)

PeerCloses == /\ \E s \in Slots, f \in Fds \ gone :
                    /\ kernel[f] = Ctrl(s)
                    /\ gone' = gone \cup {f}
              /\ UNCHANGED <<kernel, held, serverVars>>

TimePasses(s) == /\ active[s] /\ ~idle[s]
                 /\ idle' = [idle EXCEPT ![s] = TRUE]
                 /\ UNCHANGED <<active, st, sock, rtp, transport, granted, count,
                                tableVars, loopVars, faultVars, phase>>

ForeignOpen == /\ Cardinality(held) < MaxForeign
               /\ \E f \in Fds : /\ LowestFree(f)
                                 /\ kernel' = [kernel EXCEPT ![f] = Foreign]
                                 /\ held' = held \cup {f}
               /\ UNCHANGED <<gone, serverVars>>

ForeignClose == \E f \in held : /\ kernel' = Closed({f})
                                /\ held' = held \ {f}
                                /\ gone' = gone \ {f}
                                /\ UNCHANGED serverVars

-----------------------------------------------------------------------------
Serve(s) == \/ Disconnect(s)
            \/ Interleaved(s)
            \/ Teardown(s)
            \/ \E sent \in BOOLEAN : \/ Other(s, sent)
                                     \/ SetupTcp(s, sent)
                                     \/ SetupNoPorts(s, sent)
                                     \/ SetupUdp(s, sent)
                                     \/ Play(s, sent)
                                     \/ Pause(s, sent)

ServerThread == \/ Exit \/ SelectFails \/ SelectReady \/ SelectTimesOut
                \/ AcceptNothing \/ AcceptPlain \/ AcceptTls \/ HandshakeFails
                \/ ScanDone \/ Restore \/ FinishTeardown \/ FinishClose
                \/ \E s \in Slots : Serve(s)

MainThread == Start \/ Stop \/ Destroy

Environment == \/ PeerCloses \/ ForeignOpen \/ ForeignClose
               \/ \E s \in Slots : TimePasses(s)

Next == ServerThread \/ MainThread \/ Environment

Spec == Init /\ [][Next]_vars

(* The server thread is scheduled whenever it can run: select() has a one  *)
(* second timeout, so it always can.                                       *)
FairSpec == Spec /\ WF_vars(ServerThread)

-----------------------------------------------------------------------------
(* Properties                                                              *)

(* Every variable stays within its type; count is an int and may go wrong. *)
TypeOK ==
    /\ active \in [Slots -> BOOLEAN]
    /\ st \in [Slots -> States]
    /\ sock \in [Slots -> Fds \cup {None}]
    /\ rtp \in [Slots -> Fds \cup {None}]
    /\ transport \in [Slots -> {"UDP", "TCP"}]
    /\ idle \in [Slots -> BOOLEAN]
    /\ count \in Int
    /\ kernel \in [Fds -> Objects]
    /\ gone \subseteq Fds /\ held \subseteq Fds
    /\ phase \in {"created", "running", "stopping", "destroyed"}
    /\ pc \in {"select", "accept", "tls", "scan", "back", "teardown", "closing",
              "exited"}
    /\ cur \in Slots \cup {0}
    /\ pc \in {"back", "teardown", "closing"} => cur \in Slots
    /\ ready \subseteq Fds /\ pending \subseteq {"plain", "tls"}
    /\ was \in BOOLEAN /\ result \in BOOLEAN
    /\ reply \in Replies /\ granted \subseteq Slots
    /\ badHandshakes \in 0..MaxBadHandshakes
    /\ lostTeardowns \in 0..MaxLostTeardowns

ActiveSlots == {s \in Slots : active[s]}

(* The slot whose client is deactivated but not yet cleaned up.            *)
ClosingSlot == IF pc = "closing" THEN {cur} ELSE {}

(* The number of clients the server compares with max_clients is the       *)
(* number of slots in use: accept, TEARDOWN, hang-up and idle sweep agree  *)
(* on who adds one and who takes one away, also in the middle of the 10ms  *)
(* disconnection window.                                                   *)
CountExact == phase # "destroyed" =>
                  count = Cardinality(ActiveSlots \cup ClosingSlot)

(* When the count admits a client there is a slot for it: the branch "No   *)
(* free client slots" of the accept path is dead code.                     *)
RoomWhenAdmitted == pc \in {"accept", "tls"} /\ count < MaxClients => FreeSlots # {}

(* The server never serves more clients than max_clients.                  *)
AtMostMaxClients == Cardinality(ActiveSlots) <= MaxClients

(* A descriptor number stored in a slot still refers to the socket that    *)
(* was opened for this slot: nothing closed it and nobody reused it.  So   *)
(* reading, sending and closing through a slot concern its own client.     *)
OwnSockets == \A s \in Slots :
                 /\ sock[s] # None => kernel[sock[s]] = Ctrl(s)
                 /\ rtp[s] # None => kernel[rtp[s]] = Rtp(s)

(* A descriptor another thread holds still refers to what it opened: the   *)
(* server never closes a number twice.                                     *)
ForeignIntact == \A f \in held : kernel[f] = Foreign

(* No step of the server closes a descriptor another thread has opened.    *)
NoForeignClose == [][\A f \in Fds : kernel[f] = Foreign /\ kernel'[f] # Foreign
                                        => UNCHANGED serverVars]_vars

(* Whoever is PLAYING was answered 200 to a PLAY of its present session,   *)
(* and a client answered 200 to its PLAY is PLAYING when the loop goes on, *)
(* also when TCP made the handler see it as READY.  Its state becomes      *)
(* PLAYING in two ways only, both from READY: such a PLAY, and the loop    *)
(* resuming the client it serves, which was PLAYING when the message came  *)
(* in.  (The second also undoes a PAUSE over UDP: PauseHolds is false.)    *)
PlayAnswered == reply.method = "PLAY" /\ reply.ok /\ active[reply.slot]
                    => st[reply.slot] = "PLAYING"
OnlyGrantedPlay == \A s \in Slots : st[s] = "PLAYING" => s \in granted
PlayDiscipline == /\ []PlayAnswered
                  /\ []OnlyGrantedPlay
                  /\ [][\A s \in Slots : st[s] # "PLAYING" /\ st'[s] = "PLAYING"
                           => /\ st[s] = "READY"
                              /\ \/ reply' = [slot |-> s, method |-> "PLAY", ok |-> TRUE]
                                 \/ s = cur /\ was]_vars

(* docs/RTSP_CLIENTS.md: "Client sends RTSP PAUSE command to server ...    *)
(* Server stops/starts streaming".  A client whose PAUSE was answered 200  *)
(* is not PLAYING once the loop has turned to the next client.  The code   *)
(* breaks it: the loop resumes every client that came in PLAYING.          *)
PauseHolds == pc = "scan" /\ reply.method = "PAUSE" /\ reply.ok
                  => st[reply.slot] # "PLAYING"

(* Faults only ever lower the count: the server may admit too many, but    *)
(* it never loses the capacity to admit a client at all.                   *)
CapacityNeverLost == phase # "destroyed" =>
                         count <= Cardinality(ActiveSlots \cup ClosingSlot)

(* rtsp_server_destroy leaves no control connection open.                  *)
DestroyClosesSessions == phase = "destroyed" =>
                             \A f \in Fds, s \in Slots : kernel[f] # Ctrl(s)

(* A connection its peer has closed is noticed and its descriptor          *)
(* released, unless the server is being stopped.                           *)
HungUpReclaimed == \A f \in Fds : f \in gone ~> (f \notin gone \/ pc = "exited")

(* "Automatic client timeout and cleanup": unless the sockets never stay    *)
(* quiet for a second, a client idle for longer than session_timeout is    *)
(* dropped or speaks again.  Without the premise it need not be: one       *)
(* client that keeps talking keeps the sweep from running.                 *)
IdleReclaimed == SF_vars(SelectTimesOut) =>
                     \A s \in Slots : (active[s] /\ idle[s])
                         ~> (~active[s] \/ ~idle[s] \/ phase # "running")

(* No client that hung up or fell silent occupies its slot for ever.        *)
ClientsReclaimed == HungUpReclaimed /\ IdleReclaimed

=============================================================================
