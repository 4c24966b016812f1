------------------------------ MODULE RtmpServer ------------------------------
(* The life of the RTMP server (src/modules/rtmp_server/rtmp_server.c): the   *)
(* accept thread, one thread per connection that nobody joins or detaches, the *)
(* list of connections with its count and its mutex, the callback that        *)
(* distributes frames, and rtmp_server_destroy.  A critical section without a blocking call is one    *)
(* step guarded by the mutex; the distribution of a frame and the destruction *)
(* block while they hold it and keep it over several steps.                   *)
EXTENDS Naturals, FiniteSets

CONSTANTS Conns,           \* the connection structures the accept thread allocates
          MaxConnections,  \* config.max_connections
          MaxFrames        \* bound of the model on distributed frames

ASSUME ConnsAssumption  == IsFiniteSet(Conns)
ASSUME LimitAssumption  == MaxConnections \in Nat \ {0} /\ MaxFrames \in Nat

VARIABLES alive,       \* g_rtmp_server is not NULL
          running,     \* server->running
          acceptor,    \* where the accept thread is
          candidate,   \* the connections (none or one) the accept thread is creating
          life,        \* what has become of each structure
          state,       \* conn->state
          publishing,  \* conn->publishing
          keepGoing,   \* conn->thread_running
          gone,        \* the peer has closed its end
          list, count, \* server->connections, server->current_connections
          mutex,       \* who holds connections_mutex
          main,        \* where the thread that starts and stops the module is
          sender,      \* where the frame callback is
          todo,        \* connections it has still to visit
          frames       \* frames distributed so far

connVars   == <<life, state, publishing, keepGoing, gone>>
listVars   == <<list, count>>
acceptVars == <<acceptor, candidate>>
sendVars   == <<sender, todo, frames>>
vars == <<alive, running, acceptVars, connVars, listVars, mutex, main, sendVars>>

Free == "free"

\* unused, being created, blocked in the handshake, at the head of the message
\* loop, blocked in a read, and the three steps of rtmp_connection_cleanup
Lives == {"unused", "created", "handshake", "loop", "reading",
          "ending", "closed", "unlinked", "freed"}

ConnStates == {"uninitialized", "handshake_done", "connected"}

TypeOK ==
  /\ alive \in BOOLEAN /\ running \in BOOLEAN
  /\ acceptor \in {"none", "accept", "limit", "link", "spawn", "clean", "exited"}
  /\ candidate \subseteq Conns
  /\ life \in [Conns -> Lives] /\ state \in [Conns -> ConnStates]
  /\ publishing \in [Conns -> BOOLEAN]
  /\ keepGoing \in [Conns -> BOOLEAN] /\ gone \in [Conns -> BOOLEAN]
  /\ list \subseteq Conns /\ count \in Nat
  /\ mutex \in {Free, "main", "sender"}
  /\ main \in {"idle", "joining", "locking", "closing", "destroying", "freeing"}
  /\ sender \in {"idle", "entered", "counted", "sending"}
  /\ todo \subseteq Conns /\ frames \in 0..MaxFrames

Init ==
  /\ alive = FALSE /\ running = FALSE
  /\ acceptor = "none" /\ candidate = {}
  /\ life = [c \in Conns |-> "unused"]
  /\ state = [c \in Conns |-> "uninitialized"]
  /\ publishing = [c \in Conns |-> FALSE]
  /\ keepGoing = [c \in Conns |-> FALSE]
  /\ gone = [c \in Conns |-> FALSE]
  /\ list = {} /\ count = 0 /\ mutex = Free
  /\ main = "idle" /\ sender = "idle" /\ todo = {} /\ frames = 0

-----------------------------------------------------------------------------
(* The module's start and stop.                                            *)

\* rtmp_server_module_start and rtmp_server_create; socket, bind, listen or
\* pthread_create failing frees everything again and is a stutter
Start ==
  /\ main = "idle" /\ ~alive /\ acceptor = "none"
  /\ alive' = TRUE /\ running' = TRUE /\ acceptor' = "accept"
  /\ UNCHANGED <<candidate, connVars, listVars, mutex, main, sendVars>>

\* rtmp_server_module_stop, rtmp_server_destroy: running is cleared and the
\* listening socket closed; a thread blocked in accept() is not woken by it
Stop ==
  /\ main = "idle" /\ alive
  /\ main' = "joining" /\ running' = FALSE
  /\ UNCHANGED <<alive, acceptVars, connVars, listVars, mutex, sendVars>>

AcceptorLeft == acceptor = "exited"

Join ==
  /\ main = "joining" /\ AcceptorLeft
  /\ main' = "locking"
  /\ UNCHANGED <<alive, running, acceptVars, connVars, listVars, mutex, sendVars>>

DestroyLock ==
  /\ main = "locking" /\ mutex = Free
  /\ mutex' = "main" /\ main' = "closing"
  /\ UNCHANGED <<alive, running, acceptVars, connVars, listVars, sendVars>>

\* the first connection of the list goes to rtmp_connection_cleanup, which
\* closes its socket and then locks the mutex its caller already holds
DestroyCloses(c) ==
  /\ main = "closing" /\ c \in list
  /\ keepGoing' = [keepGoing EXCEPT ![c] = FALSE]
  /\ main' = "destroying"
  /\ UNCHANGED <<alive, running, acceptVars, life, state, publishing, gone,
                 listVars, mutex, sendVars>>

\* with no connection left the mutex is given back ...
DestroyUnlocks ==
  /\ main = "closing" /\ list = {}
  /\ mutex' = Free /\ main' = "freeing"
  /\ UNCHANGED <<alive, running, acceptVars, connVars, listVars, sendVars>>

\* ... and the server freed, also when a callback has taken it meanwhile
DestroyFrees ==
  /\ main = "freeing"
  /\ alive' = FALSE /\ main' = "idle"
  /\ UNCHANGED <<running, acceptVars, connVars, listVars, mutex, sendVars>>

-----------------------------------------------------------------------------
(* The accept thread.                                                      *)

\* a client connects; the listening socket outlives its close while accept()
\* is blocked on it
Accept ==
  /\ acceptor = "accept" /\ acceptor' = "limit"
  /\ UNCHANGED <<alive, running, candidate, connVars, listVars, mutex, main, sendVars>>

\* accept() fails: on a transient error, or because the descriptor is closed
AcceptFails ==
  /\ acceptor = "accept" /\ acceptor' = IF running THEN "accept" ELSE "exited"
  /\ UNCHANGED <<alive, running, candidate, connVars, listVars, mutex, main, sendVars>>

NextRound == IF running THEN "accept" ELSE "exited"

\* current_connections is read without the mutex
Refuse ==
  /\ acceptor = "limit" /\ count >= MaxConnections
  /\ acceptor' = NextRound
  /\ UNCHANGED <<alive, running, candidate, connVars, listVars, mutex, main, sendVars>>

BelowLimit == count < MaxConnections

Create(c) ==
  /\ acceptor = "limit" /\ BelowLimit /\ life[c] = "unused"
  /\ life' = [life EXCEPT ![c] = "created"]
  /\ keepGoing' = [keepGoing EXCEPT ![c] = TRUE]
  /\ candidate' = {c} /\ acceptor' = "link"
  /\ UNCHANGED <<alive, running, state, publishing, gone, listVars, mutex, main, sendVars>>

\* calloc fails; bounds the model too: no structure of Conns is left
OutOfMemory ==
  /\ acceptor = "limit" /\ BelowLimit /\ \A c \in Conns : life[c] # "unused"
  /\ acceptor' = NextRound
  /\ UNCHANGED <<alive, running, candidate, connVars, listVars, mutex, main, sendVars>>

Link(c) ==
  /\ acceptor = "link" /\ c \in candidate /\ mutex = Free
  /\ list' = list \cup {c} /\ count' = count + 1
  /\ acceptor' = "spawn"
  /\ UNCHANGED <<alive, running, candidate, connVars, mutex, main, sendVars>>

Spawn(c) ==
  /\ acceptor = "spawn" /\ c \in candidate
  /\ life' = [life EXCEPT ![c] = "handshake"]
  /\ candidate' = {} /\ acceptor' = NextRound
  /\ UNCHANGED <<alive, running, state, publishing, keepGoing, gone, listVars,
                 mutex, main, sendVars>>

\* pthread_create fails: the accept thread itself runs the cleanup
SpawnFails(c) ==
  /\ acceptor = "spawn" /\ c \in candidate
  /\ life' = [life EXCEPT ![c] = "ending"] /\ acceptor' = "clean"
  /\ UNCHANGED <<alive, running, candidate, state, publishing, keepGoing, gone,
                 listVars, mutex, main, sendVars>>

Cleaned(c) ==
  /\ acceptor = "clean" /\ c \in candidate /\ life[c] = "freed"
  /\ candidate' = {} /\ acceptor' = NextRound
  /\ UNCHANGED <<alive, running, connVars, listVars, mutex, main, sendVars>>

-----------------------------------------------------------------------------
(* A connection's thread.                                                  *)

Moves(c, from, to) == life[c] = from /\ life' = [life EXCEPT ![c] = to]

Handshake(c) ==
  /\ Moves(c, "handshake", "loop") /\ ~gone[c]
  /\ state' = [state EXCEPT ![c] = "handshake_done"]
  /\ UNCHANGED <<alive, running, acceptVars, publishing, keepGoing, gone, listVars,
                 mutex, main, sendVars>>

\* a wrong version, a peer that closes, or 30 seconds without a byte
HandshakeFails(c) ==
  /\ Moves(c, "handshake", "ending")
  /\ UNCHANGED <<alive, running, acceptVars, state, publishing, keepGoing, gone,
                 listVars, mutex, main, sendVars>>

\* the loop's condition, read without a lock
MayServe(c) == keepGoing[c] /\ alive /\ running

Round(c) ==
  /\ Moves(c, "loop", IF MayServe(c) THEN "reading" ELSE "ending")
  /\ UNCHANGED <<alive, running, acceptVars, state, publishing, keepGoing, gone,
                 listVars, mutex, main, sendVars>>

\* the peer closed, a read failed or timed out
ReadFails(c) ==
  /\ Moves(c, "reading", "ending")
  /\ UNCHANGED <<alive, running, acceptVars, state, publishing, keepGoing, gone,
                 listVars, mutex, main, sendVars>>

\* rtmp_command_handle; no command asks in which state the connection is, and a
\* reply that cannot be written changes nothing
Command(c) ==
  /\ Moves(c, "reading", "loop") /\ ~gone[c]
  /\ \/ /\ state' = [state EXCEPT ![c] = "connected"]            \* connect
        /\ UNCHANGED <<publishing, keepGoing>>
     \/ /\ publishing' = [publishing EXCEPT ![c] = TRUE]         \* publish
        /\ UNCHANGED <<state, keepGoing>>
     \/ /\ publishing' = [publishing EXCEPT ![c] = FALSE]        \* deleteStream
        /\ UNCHANGED <<state, keepGoing>>
     \/ /\ keepGoing' = [keepGoing EXCEPT ![c] = FALSE]          \* close
        /\ UNCHANGED <<state, publishing>>
     \/ UNCHANGED <<state, publishing, keepGoing>>  \* createStream, play, media
  /\ UNCHANGED <<alive, running, acceptVars, gone, listVars, mutex, main, sendVars>>

\* rtmp_connection_cleanup: the flag and the socket first, without the mutex
CloseSocket(c) ==
  /\ Moves(c, "ending", "closed")
  /\ keepGoing' = [keepGoing EXCEPT ![c] = FALSE]
  /\ UNCHANGED <<alive, running, acceptVars, state, publishing, gone, listVars,
                 mutex, main, sendVars>>

\* the count follows the list only when the connection is found in it
Unlinked(c) == /\ list' = list \ {c}
               /\ count' = IF c \in list THEN count - 1 ELSE count

UnlinkUnlocked == TRUE
UnlinkFree     == mutex = Free

Unlink(c) ==
  /\ Moves(c, "closed", "unlinked")
  /\ IF alive THEN UnlinkFree /\ Unlinked(c) ELSE UNCHANGED listVars
  /\ UNCHANGED <<alive, running, acceptVars, state, publishing, keepGoing, gone,
                 mutex, main, sendVars>>

FreeConn(c) ==
  /\ Moves(c, "unlinked", "freed")
  /\ UNCHANGED <<alive, running, acceptVars, state, publishing, keepGoing, gone,
                 listVars, mutex, main, sendVars>>

PeerCloses(c) ==
  /\ life[c] \in {"handshake", "loop", "reading"} /\ ~gone[c]
  /\ gone' = [gone EXCEPT ![c] = TRUE]
  /\ UNCHANGED <<alive, running, acceptVars, life, state, publishing, keepGoing,
                 listVars, mutex, main, sendVars>>

-----------------------------------------------------------------------------
(* rtmp_server_module_rtsp_frame_callback, on the thread that delivers frames. *)

Frame ==
  /\ sender = "idle" /\ alive /\ frames < MaxFrames
  /\ sender' = "entered" /\ frames' = frames + 1
  /\ UNCHANGED <<alive, running, acceptVars, connVars, listVars, mutex, main, todo>>

\* the publishers are counted under the mutex, which is then released.  A callback
\* that the freeing of the server catches at any of its places uses freed memory;
\* the model lets it take no further step
Publishers == {c \in list : publishing[c] /\ keepGoing[c]}

CountPublishers ==
  /\ sender = "entered" /\ alive /\ mutex = Free
  /\ sender' = IF Publishers = {} THEN "idle" ELSE "counted"
  /\ UNCHANGED <<alive, running, acceptVars, connVars, listVars, mutex, main, todo, frames>>

SendLock ==
  /\ sender = "counted" /\ alive /\ mutex = Free
  /\ mutex' = "sender" /\ sender' = "sending" /\ todo' = list
  /\ UNCHANGED <<alive, running, acceptVars, connVars, listVars, main, frames>>

\* one connection: a publisher gets the frame, in a write that blocks until the
\* peer has taken it, has gone or has let 30 seconds pass
SendTo(c) ==
  /\ sender = "sending" /\ c \in todo
  /\ todo' = todo \ {c}
  /\ UNCHANGED <<alive, running, acceptVars, connVars, listVars, mutex, main,
                 sender, frames>>

KeptAfterSending == "sender"
ReleasedAfterSending == Free

SendDone ==
  /\ sender = "sending" /\ alive /\ todo = {}
  /\ mutex' = ReleasedAfterSending /\ sender' = "idle"
  /\ UNCHANGED <<alive, running, acceptVars, connVars, listVars, main, todo, frames>>

-----------------------------------------------------------------------------
Main == Start \/ Stop \/ Join \/ DestroyLock \/ DestroyUnlocks \/ DestroyFrees
        \/ \E c \in Conns : DestroyCloses(c)

Acceptor == Accept \/ AcceptFails \/ Refuse \/ OutOfMemory
            \/ \E c \in Conns : Create(c) \/ Link(c) \/ Spawn(c)
                                \/ SpawnFails(c) \/ Cleaned(c)

Thread(c) == \/ Handshake(c) \/ HandshakeFails(c) \/ Round(c) \/ Command(c)
             \/ ReadFails(c) \/ CloseSocket(c) \/ Unlink(c) \/ FreeConn(c)

Sender == CountPublishers \/ SendLock \/ SendDone \/ \E c \in Conns : SendTo(c)

Next == Main \/ Acceptor \/ Frame \/ Sender
        \/ \E c \in Conns : Thread(c) \/ PeerCloses(c)

Spec == Init /\ [][Next]_vars

(* Fairness: the threads run.  A connection whose peer has gone gets the end  *)
(* of file or the write error; accept() returns only when a client connects,  *)
(* so the accept thread is fair except for that step.                         *)
FairSpec ==
  /\ Spec
  /\ WF_vars(Join \/ DestroyLock \/ DestroyUnlocks \/ DestroyFrees) /\ WF_vars(Sender)
  /\ WF_vars(Refuse \/ OutOfMemory
             \/ \E c \in Conns : Create(c) \/ Link(c) \/ Spawn(c) \/ Cleaned(c))
  /\ \A c \in Conns : /\ WF_vars(gone[c] /\ (HandshakeFails(c) \/ ReadFails(c)))
                      /\ WF_vars(Round(c) \/ CloseSocket(c) \/ FreeConn(c))
                      /\ SF_vars(Unlink(c))
  /\ SF_vars(CountPublishers) /\ SF_vars(SendLock)
  /\ SF_vars(\E c \in Conns : Link(c))

-----------------------------------------------------------------------------
(* Properties.                                                             *)

\* current_connections counts the list, and the limit read without the mutex
\* is never exceeded: only the accept thread adds, and it adds one at a time.
LimitHolds == count = Cardinality(list) /\ count <= MaxConnections

\* No connection is freed while the frame callback has still to visit it, while
\* it is linked, or while the accept thread is creating it: rtmp_connection_
\* cleanup frees without a reference count and relies on the list alone.
FreedIsUnreachable ==
  \A c \in Conns : life[c] = "freed" =>
     /\ c \notin list /\ c \notin todo
     /\ c \in candidate => acceptor = "clean"

\* rtmp_server.c:406-447: when g_rtmp_server has been freed, no connection is
\* linked, none is still ahead of the section of its cleanup that dereferences the
\* server, the accept thread has left, and no callback has connections to visit.
\* Not promised, and false: that no callback is on its way to the freed mutex, or
\* holds it (line 2390 tests the pointer without it).
ServerOutlivesThreads ==
  ~alive => /\ list = {} /\ todo = {} /\ mutex # "main"
            /\ acceptor \in {"none", "exited"}
            /\ \A c \in Conns : life[c] \in {"unused", "unlinked", "freed"}

\* What the list, its count and its mutex are for.
ListSound == LimitHolds /\ FreedIsUnreachable /\ ServerOutlivesThreads

\* A connection whose peer has gone is unlinked and freed, whatever the frame
\* callback and the accept thread do with the mutex, unless the server is being
\* destroyed.
GoneIsFreed ==
  \A c \in Conns : gone[c] ~> (life[c] = "freed" \/ main # "idle")

\* rtmp_server_destroy "Close all connections" (rtmp_server.c:428): a stopped
\* module ends up without a server.  The code hangs, in the join or on the mutex.
StopEnds == (main = "joining") ~> ~alive
=============================================================================
