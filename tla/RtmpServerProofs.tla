--------------------------- MODULE RtmpServerProofs ---------------------------
(* That the list of connections of the RTMP server, its count and its mutex do *)
(* what rtmp_connection_cleanup and rtmp_server_destroy rely on, for any number *)
(* of connections and any limit; and that the two ends of a session agree on   *)
(* every chunk, for any frames and any lengths of what the client sends.       *)
EXTENDS RtmpParts, FiniteSetTheorems, SequenceTheorems, TLAPS

-----------------------------------------------------------------------------
(* Types.                                                                   *)

LEMMA TypeInitially == Init => TypeOK
<1> SUFFICES ASSUME Init PROVE TypeOK
  OBVIOUS
<1>1. /\ life \in [Conns -> Lives] /\ state \in [Conns -> ConnStates]
      /\ publishing \in [Conns -> BOOLEAN]
      /\ keepGoing \in [Conns -> BOOLEAN] /\ gone \in [Conns -> BOOLEAN]
  BY DEF Init, Lives, ConnStates
<1>2. frames \in 0..MaxFrames /\ count \in Nat
  BY LimitAssumption DEF Init
<1> QED BY <1>1, <1>2 DEF Init, TypeOK

\* The count never goes below zero: a connection found in the list is counted.
Counted == count = Cardinality(list)

LEMMA FiniteList == ASSUME TypeOK PROVE IsFiniteSet(list)
BY ConnsAssumption, FS_Subset DEF TypeOK

LEMMA CountOfRemoved ==
  ASSUME TypeOK, Counted, NEW c \in list
  PROVE  count - 1 \in Nat /\ count - 1 = Cardinality(list \ {c})
<1>1. IsFiniteSet(list)
  BY FiniteList
<1>2. Cardinality(list \ {c}) = Cardinality(list) - 1
  BY <1>1, FS_RemoveElement
<1>3. IsFiniteSet(list \ {c})
  BY <1>1, FS_Subset
<1>4. Cardinality(list \ {c}) \in Nat
  BY <1>3, FS_CardinalityType
<1> QED BY <1>2, <1>4 DEF Counted

LEMMA TypeKept == TypeOK /\ Counted /\ [Next]_vars => TypeOK'
<1> SUFFICES ASSUME TypeOK, Counted, [Next]_vars PROVE TypeOK'
  OBVIOUS
<1> USE DEF TypeOK, Lives, ConnStates, Free
<1>1. CASE Start
  BY <1>1 DEF Start, acceptVars, connVars, listVars, sendVars
<1>2. CASE Stop
  BY <1>2 DEF Stop, acceptVars, connVars, listVars, sendVars
<1>3. CASE Join
  BY <1>3 DEF Join, AcceptorLeft, acceptVars, connVars, listVars, sendVars
<1>4. CASE DestroyLock
  BY <1>4 DEF DestroyLock, acceptVars, connVars, listVars, sendVars
<1>5. ASSUME NEW c \in Conns, DestroyCloses(c) PROVE TypeOK'
  BY <1>5 DEF DestroyCloses, acceptVars, connVars, listVars, sendVars
<1>6. CASE DestroyUnlocks \/ DestroyFrees
  BY <1>6 DEF DestroyUnlocks, DestroyFrees, acceptVars, connVars, listVars, sendVars
<1>7. CASE Accept
  BY <1>7 DEF Accept, acceptVars, connVars, listVars, sendVars
<1>8. CASE AcceptFails
  BY <1>8 DEF AcceptFails, acceptVars, connVars, listVars, sendVars
<1>9. CASE Refuse
  BY <1>9 DEF Refuse, NextRound, acceptVars, connVars, listVars, sendVars
<1>10. ASSUME NEW c \in Conns, Create(c) PROVE TypeOK'
  BY <1>10 DEF Create, BelowLimit, acceptVars, connVars, listVars, sendVars
<1>11. CASE OutOfMemory
  BY <1>11 DEF OutOfMemory, NextRound, acceptVars, connVars, listVars, sendVars
<1>12. ASSUME NEW c \in Conns, Link(c) PROVE TypeOK'
  BY <1>12 DEF Link, acceptVars, connVars, listVars, sendVars
<1>13. ASSUME NEW c \in Conns, Spawn(c) PROVE TypeOK'
  BY <1>13 DEF Spawn, NextRound, acceptVars, connVars, listVars, sendVars
<1>14. ASSUME NEW c \in Conns, SpawnFails(c) PROVE TypeOK'
  BY <1>14 DEF SpawnFails, acceptVars, connVars, listVars, sendVars
<1>15. ASSUME NEW c \in Conns, Cleaned(c) PROVE TypeOK'
  BY <1>15 DEF Cleaned, NextRound, acceptVars, connVars, listVars, sendVars
<1>16. ASSUME NEW c \in Conns, Handshake(c) PROVE TypeOK'
  BY <1>16 DEF Handshake, Moves, acceptVars, connVars, listVars, sendVars
<1>17. ASSUME NEW c \in Conns, HandshakeFails(c) PROVE TypeOK'
  BY <1>17 DEF HandshakeFails, Moves, acceptVars, connVars, listVars, sendVars
<1>18. ASSUME NEW c \in Conns, Round(c) PROVE TypeOK'
  BY <1>18 DEF Round, Moves, MayServe, acceptVars, connVars, listVars, sendVars
<1>19. ASSUME NEW c \in Conns, Command(c) PROVE TypeOK'
  <2>1. life' \in [Conns -> Lives]
    BY <1>19 DEF Command, Moves
  <2>2. state' \in [Conns -> ConnStates] /\ publishing' \in [Conns -> BOOLEAN]
    BY <1>19 DEF Command
  <2>3. keepGoing' \in [Conns -> BOOLEAN]
    BY <1>19 DEF Command
  <2> QED BY <1>19, <2>1, <2>2, <2>3 DEF Command, acceptVars, listVars, sendVars
<1>20. ASSUME NEW c \in Conns, ReadFails(c) PROVE TypeOK'
  BY <1>20 DEF ReadFails, Moves, acceptVars, connVars, listVars, sendVars
<1>21. ASSUME NEW c \in Conns, CloseSocket(c) PROVE TypeOK'
  BY <1>21 DEF CloseSocket, Moves, acceptVars, connVars, listVars, sendVars
<1>22. ASSUME NEW c \in Conns, Unlink(c) PROVE TypeOK'
  BY <1>22, CountOfRemoved
  DEF Unlink, Moves, UnlinkFree, Unlinked, acceptVars, connVars, listVars, sendVars
<1>23. ASSUME NEW c \in Conns, FreeConn(c) PROVE TypeOK'
  BY <1>23 DEF FreeConn, Moves, acceptVars, connVars, listVars, sendVars
<1>24. ASSUME NEW c \in Conns, PeerCloses(c) PROVE TypeOK'
  BY <1>24 DEF PeerCloses, acceptVars, connVars, listVars, sendVars
<1>25. CASE Frame
  BY <1>25, LimitAssumption DEF Frame, acceptVars, connVars, listVars, sendVars
<1>26. CASE CountPublishers
  BY <1>26 DEF CountPublishers, Publishers, acceptVars, connVars, listVars, sendVars
<1>27. CASE SendLock
  BY <1>27 DEF SendLock, acceptVars, connVars, listVars, sendVars
<1>28. ASSUME NEW c \in Conns, SendTo(c) PROVE TypeOK'
  BY <1>28 DEF SendTo, acceptVars, connVars, listVars, sendVars
<1>29. CASE SendDone
  BY <1>29 DEF SendDone, ReleasedAfterSending, acceptVars, connVars, listVars, sendVars
<1>30. CASE UNCHANGED vars
  BY <1>30 DEF vars, acceptVars, connVars, listVars, sendVars, acceptVars, connVars,
     listVars, sendVars
<1> QED
  BY <1>1, <1>2, <1>3, <1>4, <1>5, <1>6, <1>7, <1>8, <1>9, <1>10, <1>11, <1>12, <1>13,
     <1>14, <1>15, <1>16, <1>17, <1>18, <1>19, <1>20, <1>21, <1>22, <1>23, <1>24,
     <1>25, <1>26, <1>27, <1>28, <1>29, <1>30
  DEF Next, Main, Acceptor, Sender, Thread

-----------------------------------------------------------------------------
(* Who is where: which connections are linked at which point of their life.   *)

Serving == {"handshake", "loop", "reading", "ending", "closed"}

\* the accept thread's connection, and that of nobody else, is being created
CandidateSound ==
  /\ candidate # {} <=> acceptor \in {"link", "spawn", "clean"}
  /\ \A c, d \in candidate : c = d
  /\ \A c \in candidate :
       /\ acceptor \in {"link", "spawn"} => life[c] = "created"
       /\ acceptor = "clean" => life[c] \notin {"unused", "created"}
  /\ \A c \in Conns : life[c] = "created"
                        => c \in candidate /\ acceptor \in {"link", "spawn"}

\* the list holds the connections with a thread, and the one about to get it
ListExact ==
  list = {c \in Conns : \/ life[c] \in Serving
                        \/ life[c] = "created" /\ acceptor = "spawn"}

\* the mutex is with who is inside a section that blocks, and what the frame
\* callback has still to visit is linked
MutexSound ==
  /\ mutex = "main" <=> main \in {"closing", "destroying"}
  /\ mutex = "sender" <=> sender = "sending"
  /\ todo \subseteq list /\ (sender # "sending" => todo = {})

\* the server is freed by the thread that destroys it, which waited for the
\* accept thread before
FreedLast ==
  /\ main # "idle" => alive
  /\ main \in {"locking", "closing", "destroying", "freeing"} => acceptor = "exited"
  /\ main = "freeing" => list = {}
  /\ ~alive => acceptor \in {"none", "exited"} /\ list = {} /\ main = "idle"

\* nobody but the accept thread adds, so the limit it read stays good
LimitKept == count <= MaxConnections /\ (acceptor = "link" => count < MaxConnections)

ServerInv ==
  /\ TypeOK /\ Counted /\ CandidateSound /\ ListExact /\ MutexSound /\ FreedLast
  /\ LimitKept

LEMMA InvInitially == Init => ServerInv
<1> SUFFICES ASSUME Init PROVE ServerInv
  OBVIOUS
<1>1. Counted
  BY FS_EmptySet DEF Init, Counted
<1> QED
  BY <1>1, TypeInitially, LimitAssumption
  DEF Init, ServerInv, CandidateSound, ListExact, MutexSound, FreedLast, LimitKept,
      Serving, Free

LEMMA CandidateKept == ServerInv /\ [Next]_vars => CandidateSound'
<1> SUFFICES ASSUME ServerInv, [Next]_vars PROVE CandidateSound'
  OBVIOUS
<1> USE DEF ServerInv, TypeOK, CandidateSound, ListExact, MutexSound, FreedLast,
Serving, Lives, Free
<1>1. CASE Start
  BY <1>1 DEF Start, acceptVars, connVars, listVars, sendVars
<1>2. CASE Stop
  BY <1>2 DEF Stop, acceptVars, connVars, listVars, sendVars
<1>3. CASE Join
  BY <1>3 DEF Join, AcceptorLeft, acceptVars, connVars, listVars, sendVars
<1>4. CASE DestroyLock
  BY <1>4 DEF DestroyLock, acceptVars, connVars, listVars, sendVars
<1>5. ASSUME NEW c \in Conns, DestroyCloses(c) PROVE CandidateSound'
  BY <1>5 DEF DestroyCloses, acceptVars, connVars, listVars, sendVars
<1>6. CASE DestroyUnlocks \/ DestroyFrees
  BY <1>6 DEF DestroyUnlocks, DestroyFrees, acceptVars, connVars, listVars, sendVars
<1>7. CASE Accept
  BY <1>7 DEF Accept, acceptVars, connVars, listVars, sendVars
<1>8. CASE AcceptFails
  BY <1>8 DEF AcceptFails, acceptVars, connVars, listVars, sendVars
<1>9. CASE Refuse
  BY <1>9 DEF Refuse, NextRound, acceptVars, connVars, listVars, sendVars
<1>10. ASSUME NEW c \in Conns, Create(c) PROVE CandidateSound'
  BY <1>10 DEF Create, BelowLimit, acceptVars, connVars, listVars, sendVars
<1>11. CASE OutOfMemory
  BY <1>11 DEF OutOfMemory, NextRound, acceptVars, connVars, listVars, sendVars
<1>12. ASSUME NEW c \in Conns, Link(c) PROVE CandidateSound'
  BY <1>12 DEF Link, acceptVars, connVars, listVars, sendVars
<1>13. ASSUME NEW c \in Conns, Spawn(c) PROVE CandidateSound'
  BY <1>13 DEF Spawn, NextRound, acceptVars, connVars, listVars, sendVars
<1>14. ASSUME NEW c \in Conns, SpawnFails(c) PROVE CandidateSound'
  BY <1>14 DEF SpawnFails, acceptVars, connVars, listVars, sendVars
<1>15. ASSUME NEW c \in Conns, Cleaned(c) PROVE CandidateSound'
  BY <1>15 DEF Cleaned, NextRound, acceptVars, connVars, listVars, sendVars
<1>16. ASSUME NEW c \in Conns, Handshake(c) PROVE CandidateSound'
  BY <1>16 DEF Handshake, Moves, acceptVars, connVars, listVars, sendVars
<1>17. ASSUME NEW c \in Conns, HandshakeFails(c) PROVE CandidateSound'
  BY <1>17 DEF HandshakeFails, Moves, acceptVars, connVars, listVars, sendVars
<1>18. ASSUME NEW c \in Conns, Round(c) PROVE CandidateSound'
  BY <1>18 DEF Round, Moves, MayServe, acceptVars, connVars, listVars, sendVars
<1>19. ASSUME NEW c \in Conns, Command(c) PROVE CandidateSound'
  BY <1>19 DEF Command, Moves, acceptVars, connVars, listVars, sendVars
<1>20. ASSUME NEW c \in Conns, ReadFails(c) PROVE CandidateSound'
  BY <1>20 DEF ReadFails, Moves, acceptVars, connVars, listVars, sendVars
<1>21. ASSUME NEW c \in Conns, CloseSocket(c) PROVE CandidateSound'
  BY <1>21 DEF CloseSocket, Moves, acceptVars, connVars, listVars, sendVars
<1>22. ASSUME NEW c \in Conns, Unlink(c) PROVE CandidateSound'
  BY <1>22 DEF Unlink, Moves, UnlinkFree, Unlinked, acceptVars, connVars, listVars,
     sendVars
<1>23. ASSUME NEW c \in Conns, FreeConn(c) PROVE CandidateSound'
  BY <1>23 DEF FreeConn, Moves, acceptVars, connVars, listVars, sendVars
<1>24. ASSUME NEW c \in Conns, PeerCloses(c) PROVE CandidateSound'
  BY <1>24 DEF PeerCloses, acceptVars, connVars, listVars, sendVars
<1>25. CASE Frame
  BY <1>25 DEF Frame, acceptVars, connVars, listVars, sendVars
<1>26. CASE CountPublishers
  BY <1>26 DEF CountPublishers, Publishers, acceptVars, connVars, listVars, sendVars
<1>27. CASE SendLock
  BY <1>27 DEF SendLock, acceptVars, connVars, listVars, sendVars
<1>28. ASSUME NEW c \in Conns, SendTo(c) PROVE CandidateSound'
  BY <1>28 DEF SendTo, acceptVars, connVars, listVars, sendVars
<1>29. CASE SendDone
  BY <1>29 DEF SendDone, ReleasedAfterSending, acceptVars, connVars, listVars, sendVars
<1>30. CASE UNCHANGED vars
  BY <1>30 DEF vars, acceptVars, connVars, listVars, sendVars, acceptVars, connVars,
     listVars, sendVars
<1> QED
  BY <1>1, <1>2, <1>3, <1>4, <1>5, <1>6, <1>7, <1>8, <1>9, <1>10, <1>11, <1>12, <1>13,
     <1>14, <1>15, <1>16, <1>17, <1>18, <1>19, <1>20, <1>21, <1>22, <1>23, <1>24,
     <1>25, <1>26, <1>27, <1>28, <1>29, <1>30
  DEF Next, Main, Acceptor, Sender, Thread

LEMMA ListKept == ServerInv /\ [Next]_vars => ListExact'
<1> SUFFICES ASSUME ServerInv, [Next]_vars PROVE ListExact'
  OBVIOUS
<1> USE DEF ServerInv, TypeOK, CandidateSound, ListExact, MutexSound, FreedLast,
Serving, Lives, Free
<1>1. CASE Start
  BY <1>1 DEF Start, acceptVars, connVars, listVars, sendVars
<1>2. CASE Stop
  BY <1>2 DEF Stop, acceptVars, connVars, listVars, sendVars
<1>3. CASE Join
  BY <1>3 DEF Join, AcceptorLeft, acceptVars, connVars, listVars, sendVars
<1>4. CASE DestroyLock
  BY <1>4 DEF DestroyLock, acceptVars, connVars, listVars, sendVars
<1>5. ASSUME NEW c \in Conns, DestroyCloses(c) PROVE ListExact'
  BY <1>5 DEF DestroyCloses, acceptVars, connVars, listVars, sendVars
<1>6. CASE DestroyUnlocks \/ DestroyFrees
  BY <1>6 DEF DestroyUnlocks, DestroyFrees, acceptVars, connVars, listVars, sendVars
<1>7. CASE Accept
  BY <1>7 DEF Accept, acceptVars, connVars, listVars, sendVars
<1>8. CASE AcceptFails
  BY <1>8 DEF AcceptFails, acceptVars, connVars, listVars, sendVars
<1>9. CASE Refuse
  BY <1>9 DEF Refuse, NextRound, acceptVars, connVars, listVars, sendVars
<1>10. ASSUME NEW c \in Conns, Create(c) PROVE ListExact'
  BY <1>10 DEF Create, BelowLimit, acceptVars, connVars, listVars, sendVars
<1>11. CASE OutOfMemory
  BY <1>11 DEF OutOfMemory, NextRound, acceptVars, connVars, listVars, sendVars
<1>12. ASSUME NEW c \in Conns, Link(c) PROVE ListExact'
  BY <1>12 DEF Link, acceptVars, connVars, listVars, sendVars
<1>13. ASSUME NEW c \in Conns, Spawn(c) PROVE ListExact'
  BY <1>13 DEF Spawn, NextRound, acceptVars, connVars, listVars, sendVars
<1>14. ASSUME NEW c \in Conns, SpawnFails(c) PROVE ListExact'
  BY <1>14 DEF SpawnFails, acceptVars, connVars, listVars, sendVars
<1>15. ASSUME NEW c \in Conns, Cleaned(c) PROVE ListExact'
  BY <1>15 DEF Cleaned, NextRound, acceptVars, connVars, listVars, sendVars
<1>16. ASSUME NEW c \in Conns, Handshake(c) PROVE ListExact'
  BY <1>16 DEF Handshake, Moves, acceptVars, connVars, listVars, sendVars
<1>17. ASSUME NEW c \in Conns, HandshakeFails(c) PROVE ListExact'
  BY <1>17 DEF HandshakeFails, Moves, acceptVars, connVars, listVars, sendVars
<1>18. ASSUME NEW c \in Conns, Round(c) PROVE ListExact'
  BY <1>18 DEF Round, Moves, MayServe, acceptVars, connVars, listVars, sendVars
<1>19. ASSUME NEW c \in Conns, Command(c) PROVE ListExact'
  BY <1>19 DEF Command, Moves, acceptVars, connVars, listVars, sendVars
<1>20. ASSUME NEW c \in Conns, ReadFails(c) PROVE ListExact'
  BY <1>20 DEF ReadFails, Moves, acceptVars, connVars, listVars, sendVars
<1>21. ASSUME NEW c \in Conns, CloseSocket(c) PROVE ListExact'
  BY <1>21 DEF CloseSocket, Moves, acceptVars, connVars, listVars, sendVars
<1>22. ASSUME NEW c \in Conns, Unlink(c) PROVE ListExact'
  BY <1>22 DEF Unlink, Moves, UnlinkFree, Unlinked, acceptVars, connVars, listVars,
     sendVars
<1>23. ASSUME NEW c \in Conns, FreeConn(c) PROVE ListExact'
  BY <1>23 DEF FreeConn, Moves, acceptVars, connVars, listVars, sendVars
<1>24. ASSUME NEW c \in Conns, PeerCloses(c) PROVE ListExact'
  BY <1>24 DEF PeerCloses, acceptVars, connVars, listVars, sendVars
<1>25. CASE Frame
  BY <1>25 DEF Frame, acceptVars, connVars, listVars, sendVars
<1>26. CASE CountPublishers
  BY <1>26 DEF CountPublishers, Publishers, acceptVars, connVars, listVars, sendVars
<1>27. CASE SendLock
  BY <1>27 DEF SendLock, acceptVars, connVars, listVars, sendVars
<1>28. ASSUME NEW c \in Conns, SendTo(c) PROVE ListExact'
  BY <1>28 DEF SendTo, acceptVars, connVars, listVars, sendVars
<1>29. CASE SendDone
  BY <1>29 DEF SendDone, ReleasedAfterSending, acceptVars, connVars, listVars, sendVars
<1>30. CASE UNCHANGED vars
  BY <1>30 DEF vars, acceptVars, connVars, listVars, sendVars, acceptVars, connVars,
     listVars, sendVars
<1> QED
  BY <1>1, <1>2, <1>3, <1>4, <1>5, <1>6, <1>7, <1>8, <1>9, <1>10, <1>11, <1>12, <1>13,
     <1>14, <1>15, <1>16, <1>17, <1>18, <1>19, <1>20, <1>21, <1>22, <1>23, <1>24,
     <1>25, <1>26, <1>27, <1>28, <1>29, <1>30
  DEF Next, Main, Acceptor, Sender, Thread

LEMMA MutexKept == ServerInv /\ [Next]_vars => MutexSound'
<1> SUFFICES ASSUME ServerInv, [Next]_vars PROVE MutexSound'
  OBVIOUS
<1> USE DEF ServerInv, TypeOK, CandidateSound, ListExact, MutexSound, FreedLast,
Serving, Lives, Free
<1>1. CASE Start
  BY <1>1 DEF Start, acceptVars, connVars, listVars, sendVars
<1>2. CASE Stop
  BY <1>2 DEF Stop, acceptVars, connVars, listVars, sendVars
<1>3. CASE Join
  BY <1>3 DEF Join, AcceptorLeft, acceptVars, connVars, listVars, sendVars
<1>4. CASE DestroyLock
  BY <1>4 DEF DestroyLock, acceptVars, connVars, listVars, sendVars
<1>5. ASSUME NEW c \in Conns, DestroyCloses(c) PROVE MutexSound'
  BY <1>5 DEF DestroyCloses, acceptVars, connVars, listVars, sendVars
<1>6. CASE DestroyUnlocks \/ DestroyFrees
  BY <1>6 DEF DestroyUnlocks, DestroyFrees, acceptVars, connVars, listVars, sendVars
<1>7. CASE Accept
  BY <1>7 DEF Accept, acceptVars, connVars, listVars, sendVars
<1>8. CASE AcceptFails
  BY <1>8 DEF AcceptFails, acceptVars, connVars, listVars, sendVars
<1>9. CASE Refuse
  BY <1>9 DEF Refuse, NextRound, acceptVars, connVars, listVars, sendVars
<1>10. ASSUME NEW c \in Conns, Create(c) PROVE MutexSound'
  BY <1>10 DEF Create, BelowLimit, acceptVars, connVars, listVars, sendVars
<1>11. CASE OutOfMemory
  BY <1>11 DEF OutOfMemory, NextRound, acceptVars, connVars, listVars, sendVars
<1>12. ASSUME NEW c \in Conns, Link(c) PROVE MutexSound'
  BY <1>12 DEF Link, acceptVars, connVars, listVars, sendVars
<1>13. ASSUME NEW c \in Conns, Spawn(c) PROVE MutexSound'
  BY <1>13 DEF Spawn, NextRound, acceptVars, connVars, listVars, sendVars
<1>14. ASSUME NEW c \in Conns, SpawnFails(c) PROVE MutexSound'
  BY <1>14 DEF SpawnFails, acceptVars, connVars, listVars, sendVars
<1>15. ASSUME NEW c \in Conns, Cleaned(c) PROVE MutexSound'
  BY <1>15 DEF Cleaned, NextRound, acceptVars, connVars, listVars, sendVars
<1>16. ASSUME NEW c \in Conns, Handshake(c) PROVE MutexSound'
  BY <1>16 DEF Handshake, Moves, acceptVars, connVars, listVars, sendVars
<1>17. ASSUME NEW c \in Conns, HandshakeFails(c) PROVE MutexSound'
  BY <1>17 DEF HandshakeFails, Moves, acceptVars, connVars, listVars, sendVars
<1>18. ASSUME NEW c \in Conns, Round(c) PROVE MutexSound'
  BY <1>18 DEF Round, Moves, MayServe, acceptVars, connVars, listVars, sendVars
<1>19. ASSUME NEW c \in Conns, Command(c) PROVE MutexSound'
  BY <1>19 DEF Command, Moves, acceptVars, connVars, listVars, sendVars
<1>20. ASSUME NEW c \in Conns, ReadFails(c) PROVE MutexSound'
  BY <1>20 DEF ReadFails, Moves, acceptVars, connVars, listVars, sendVars
<1>21. ASSUME NEW c \in Conns, CloseSocket(c) PROVE MutexSound'
  BY <1>21 DEF CloseSocket, Moves, acceptVars, connVars, listVars, sendVars
<1>22. ASSUME NEW c \in Conns, Unlink(c) PROVE MutexSound'
  BY <1>22 DEF Unlink, Moves, UnlinkFree, Unlinked, acceptVars, connVars, listVars,
     sendVars
<1>23. ASSUME NEW c \in Conns, FreeConn(c) PROVE MutexSound'
  BY <1>23 DEF FreeConn, Moves, acceptVars, connVars, listVars, sendVars
<1>24. ASSUME NEW c \in Conns, PeerCloses(c) PROVE MutexSound'
  BY <1>24 DEF PeerCloses, acceptVars, connVars, listVars, sendVars
<1>25. CASE Frame
  BY <1>25 DEF Frame, acceptVars, connVars, listVars, sendVars
<1>26. CASE CountPublishers
  BY <1>26 DEF CountPublishers, Publishers, acceptVars, connVars, listVars, sendVars
<1>27. CASE SendLock
  BY <1>27 DEF SendLock, acceptVars, connVars, listVars, sendVars
<1>28. ASSUME NEW c \in Conns, SendTo(c) PROVE MutexSound'
  BY <1>28 DEF SendTo, acceptVars, connVars, listVars, sendVars
<1>29. CASE SendDone
  BY <1>29 DEF SendDone, ReleasedAfterSending, acceptVars, connVars, listVars, sendVars
<1>30. CASE UNCHANGED vars
  BY <1>30 DEF vars, acceptVars, connVars, listVars, sendVars, acceptVars, connVars,
     listVars, sendVars
<1> QED
  BY <1>1, <1>2, <1>3, <1>4, <1>5, <1>6, <1>7, <1>8, <1>9, <1>10, <1>11, <1>12, <1>13,
     <1>14, <1>15, <1>16, <1>17, <1>18, <1>19, <1>20, <1>21, <1>22, <1>23, <1>24,
     <1>25, <1>26, <1>27, <1>28, <1>29, <1>30
  DEF Next, Main, Acceptor, Sender, Thread

LEMMA FreedKept == ServerInv /\ [Next]_vars => FreedLast'
<1> SUFFICES ASSUME ServerInv, [Next]_vars PROVE FreedLast'
  OBVIOUS
<1> USE DEF ServerInv, TypeOK, CandidateSound, ListExact, MutexSound, FreedLast,
Serving, Lives, Free
<1>1. CASE Start
  BY <1>1 DEF Start, acceptVars, connVars, listVars, sendVars
<1>2. CASE Stop
  BY <1>2 DEF Stop, acceptVars, connVars, listVars, sendVars
<1>3. CASE Join
  BY <1>3 DEF Join, AcceptorLeft, acceptVars, connVars, listVars, sendVars
<1>4. CASE DestroyLock
  BY <1>4 DEF DestroyLock, acceptVars, connVars, listVars, sendVars
<1>5. ASSUME NEW c \in Conns, DestroyCloses(c) PROVE FreedLast'
  BY <1>5 DEF DestroyCloses, acceptVars, connVars, listVars, sendVars
<1>6. CASE DestroyUnlocks \/ DestroyFrees
  BY <1>6 DEF DestroyUnlocks, DestroyFrees, acceptVars, connVars, listVars, sendVars
<1>7. CASE Accept
  BY <1>7 DEF Accept, acceptVars, connVars, listVars, sendVars
<1>8. CASE AcceptFails
  BY <1>8 DEF AcceptFails, acceptVars, connVars, listVars, sendVars
<1>9. CASE Refuse
  BY <1>9 DEF Refuse, NextRound, acceptVars, connVars, listVars, sendVars
<1>10. ASSUME NEW c \in Conns, Create(c) PROVE FreedLast'
  BY <1>10 DEF Create, BelowLimit, acceptVars, connVars, listVars, sendVars
<1>11. CASE OutOfMemory
  BY <1>11 DEF OutOfMemory, NextRound, acceptVars, connVars, listVars, sendVars
<1>12. ASSUME NEW c \in Conns, Link(c) PROVE FreedLast'
  BY <1>12 DEF Link, acceptVars, connVars, listVars, sendVars
<1>13. ASSUME NEW c \in Conns, Spawn(c) PROVE FreedLast'
  BY <1>13 DEF Spawn, NextRound, acceptVars, connVars, listVars, sendVars
<1>14. ASSUME NEW c \in Conns, SpawnFails(c) PROVE FreedLast'
  BY <1>14 DEF SpawnFails, acceptVars, connVars, listVars, sendVars
<1>15. ASSUME NEW c \in Conns, Cleaned(c) PROVE FreedLast'
  BY <1>15 DEF Cleaned, NextRound, acceptVars, connVars, listVars, sendVars
<1>16. ASSUME NEW c \in Conns, Handshake(c) PROVE FreedLast'
  BY <1>16 DEF Handshake, Moves, acceptVars, connVars, listVars, sendVars
<1>17. ASSUME NEW c \in Conns, HandshakeFails(c) PROVE FreedLast'
  BY <1>17 DEF HandshakeFails, Moves, acceptVars, connVars, listVars, sendVars
<1>18. ASSUME NEW c \in Conns, Round(c) PROVE FreedLast'
  BY <1>18 DEF Round, Moves, MayServe, acceptVars, connVars, listVars, sendVars
<1>19. ASSUME NEW c \in Conns, Command(c) PROVE FreedLast'
  BY <1>19 DEF Command, Moves, acceptVars, connVars, listVars, sendVars
<1>20. ASSUME NEW c \in Conns, ReadFails(c) PROVE FreedLast'
  BY <1>20 DEF ReadFails, Moves, acceptVars, connVars, listVars, sendVars
<1>21. ASSUME NEW c \in Conns, CloseSocket(c) PROVE FreedLast'
  BY <1>21 DEF CloseSocket, Moves, acceptVars, connVars, listVars, sendVars
<1>22. ASSUME NEW c \in Conns, Unlink(c) PROVE FreedLast'
  BY <1>22 DEF Unlink, Moves, UnlinkFree, Unlinked, acceptVars, connVars, listVars,
     sendVars
<1>23. ASSUME NEW c \in Conns, FreeConn(c) PROVE FreedLast'
  BY <1>23 DEF FreeConn, Moves, acceptVars, connVars, listVars, sendVars
<1>24. ASSUME NEW c \in Conns, PeerCloses(c) PROVE FreedLast'
  BY <1>24 DEF PeerCloses, acceptVars, connVars, listVars, sendVars
<1>25. CASE Frame
  BY <1>25 DEF Frame, acceptVars, connVars, listVars, sendVars
<1>26. CASE CountPublishers
  BY <1>26 DEF CountPublishers, Publishers, acceptVars, connVars, listVars, sendVars
<1>27. CASE SendLock
  BY <1>27 DEF SendLock, acceptVars, connVars, listVars, sendVars
<1>28. ASSUME NEW c \in Conns, SendTo(c) PROVE FreedLast'
  BY <1>28 DEF SendTo, acceptVars, connVars, listVars, sendVars
<1>29. CASE SendDone
  BY <1>29 DEF SendDone, ReleasedAfterSending, acceptVars, connVars, listVars, sendVars
<1>30. CASE UNCHANGED vars
  BY <1>30 DEF vars, acceptVars, connVars, listVars, sendVars, acceptVars, connVars,
     listVars, sendVars
<1> QED
  BY <1>1, <1>2, <1>3, <1>4, <1>5, <1>6, <1>7, <1>8, <1>9, <1>10, <1>11, <1>12, <1>13,
     <1>14, <1>15, <1>16, <1>17, <1>18, <1>19, <1>20, <1>21, <1>22, <1>23, <1>24,
     <1>25, <1>26, <1>27, <1>28, <1>29, <1>30
  DEF Next, Main, Acceptor, Sender, Thread

LEMMA CountKept == ServerInv /\ [Next]_vars => Counted' /\ LimitKept'
<1> SUFFICES ASSUME ServerInv, [Next]_vars PROVE Counted' /\ LimitKept'
  OBVIOUS
<1> USE DEF ServerInv, Counted, LimitKept
<1>1. ASSUME NEW c \in Conns, Link(c) PROVE Counted' /\ LimitKept'
  <2>1. c \notin list
    BY <1>1 DEF Link, CandidateSound, ListExact, Serving
  <2>2. Cardinality(list \cup {c}) = Cardinality(list) + 1
    BY <2>1, FiniteList, FS_AddElement
  <2> QED BY <1>1, <2>2, LimitAssumption DEF Link, TypeOK
<1>2. ASSUME NEW c \in Conns, Unlink(c) PROVE Counted' /\ LimitKept'
  <2>1. CASE c \in list /\ alive
    <3>1. count - 1 \in Nat /\ count - 1 = Cardinality(list \ {c})
      BY <2>1, CountOfRemoved
    <3>2. list' = list \ {c} /\ count' = count - 1 /\ acceptor' = acceptor
      BY <1>2, <2>1 DEF Unlink, Unlinked, acceptVars
    <3>3. count \in Nat /\ MaxConnections \in Nat
      BY LimitAssumption DEF TypeOK
    <3> QED BY <3>1, <3>2, <3>3
  <2>2. CASE c \notin list \/ ~alive
    <3>1. list' = list /\ count' = count
      BY <1>2, <2>2 DEF Unlink, Unlinked, listVars
    <3> QED BY <1>2, <3>1 DEF Unlink, acceptVars
  <2> QED BY <2>1, <2>2
<1>3. ASSUME NEW c \in Conns, Create(c) PROVE Counted' /\ LimitKept'
  BY <1>3 DEF Create, BelowLimit, listVars
<1>4. ASSUME UNCHANGED listVars, acceptor' = "link" => acceptor = "link"
      PROVE  Counted' /\ LimitKept'
  BY <1>4 DEF listVars
<1>5. CASE Start
  BY <1>5, <1>4 DEF Start, acceptVars, sendVars
<1>6. CASE Stop
  BY <1>6, <1>4 DEF Stop, acceptVars, sendVars
<1>7. CASE Join
  BY <1>7, <1>4 DEF Join, AcceptorLeft, acceptVars, sendVars
<1>8. CASE DestroyLock
  BY <1>8, <1>4 DEF DestroyLock, acceptVars, sendVars
<1>9. ASSUME NEW c \in Conns, DestroyCloses(c) PROVE Counted' /\ LimitKept'
  BY <1>9, <1>4 DEF DestroyCloses, acceptVars, sendVars
<1>10. CASE DestroyUnlocks \/ DestroyFrees
  BY <1>10, <1>4 DEF DestroyUnlocks, DestroyFrees, acceptVars, sendVars
<1>11. CASE Accept
  BY <1>11, <1>4 DEF Accept, acceptVars, sendVars
<1>12. CASE AcceptFails
  BY <1>12, <1>4 DEF AcceptFails, acceptVars, sendVars
<1>13. CASE Refuse
  BY <1>13, <1>4 DEF Refuse, NextRound, acceptVars, sendVars
<1>14. CASE OutOfMemory
  BY <1>14, <1>4 DEF OutOfMemory, NextRound, acceptVars, sendVars
<1>15. ASSUME NEW c \in Conns, Spawn(c) PROVE Counted' /\ LimitKept'
  BY <1>15, <1>4 DEF Spawn, NextRound, acceptVars, sendVars
<1>16. ASSUME NEW c \in Conns, SpawnFails(c) PROVE Counted' /\ LimitKept'
  BY <1>16, <1>4 DEF SpawnFails, acceptVars, sendVars
<1>17. ASSUME NEW c \in Conns, Cleaned(c) PROVE Counted' /\ LimitKept'
  BY <1>17, <1>4 DEF Cleaned, NextRound, acceptVars, sendVars
<1>18. ASSUME NEW c \in Conns, Handshake(c) PROVE Counted' /\ LimitKept'
  BY <1>18, <1>4 DEF Handshake, Moves, acceptVars, sendVars
<1>19. ASSUME NEW c \in Conns, HandshakeFails(c) PROVE Counted' /\ LimitKept'
  BY <1>19, <1>4 DEF HandshakeFails, Moves, acceptVars, sendVars
<1>20. ASSUME NEW c \in Conns, Round(c) PROVE Counted' /\ LimitKept'
  BY <1>20, <1>4 DEF Round, Moves, MayServe, acceptVars, sendVars
<1>21. ASSUME NEW c \in Conns, Command(c) PROVE Counted' /\ LimitKept'
  BY <1>21, <1>4 DEF Command, Moves, acceptVars, sendVars
<1>22. ASSUME NEW c \in Conns, ReadFails(c) PROVE Counted' /\ LimitKept'
  BY <1>22, <1>4 DEF ReadFails, Moves, acceptVars, sendVars
<1>23. ASSUME NEW c \in Conns, CloseSocket(c) PROVE Counted' /\ LimitKept'
  BY <1>23, <1>4 DEF CloseSocket, Moves, acceptVars, sendVars
<1>24. ASSUME NEW c \in Conns, FreeConn(c) PROVE Counted' /\ LimitKept'
  BY <1>24, <1>4 DEF FreeConn, Moves, acceptVars, sendVars
<1>25. ASSUME NEW c \in Conns, PeerCloses(c) PROVE Counted' /\ LimitKept'
  BY <1>25, <1>4 DEF PeerCloses, acceptVars, sendVars
<1>26. CASE Frame
  BY <1>26, <1>4 DEF Frame, acceptVars, sendVars
<1>27. CASE CountPublishers
  BY <1>27, <1>4 DEF CountPublishers, Publishers, acceptVars, sendVars
<1>28. CASE SendLock
  BY <1>28, <1>4 DEF SendLock, acceptVars, sendVars
<1>29. ASSUME NEW c \in Conns, SendTo(c) PROVE Counted' /\ LimitKept'
  BY <1>29, <1>4 DEF SendTo, acceptVars, sendVars
<1>30. CASE SendDone
  BY <1>30, <1>4 DEF SendDone, ReleasedAfterSending, acceptVars, sendVars
<1>31. CASE UNCHANGED vars
  BY <1>31, <1>4 DEF vars, acceptVars
<1> QED
  BY <1>1, <1>2, <1>3, <1>5, <1>6, <1>7, <1>8, <1>9, <1>10, <1>11, <1>12, <1>13, <1>14,
     <1>15, <1>16, <1>17, <1>18, <1>19, <1>20, <1>21, <1>22, <1>23, <1>24, <1>25,
     <1>26, <1>27, <1>28, <1>29, <1>30, <1>31
  DEF Next, Main, Acceptor, Sender, Thread

LEMMA InvKept == ServerInv /\ [Next]_vars => ServerInv'
BY TypeKept, CandidateKept, ListKept, MutexKept, FreedKept, CountKept DEF ServerInv

LEMMA InvImplies == ServerInv => ListSound
<1> SUFFICES ASSUME ServerInv PROVE ListSound
  OBVIOUS
<1>1. LimitHolds
  BY DEF ServerInv, Counted, LimitKept, LimitHolds
<1>2. FreedIsUnreachable
  BY DEF ServerInv, ListExact, MutexSound, CandidateSound, FreedIsUnreachable, Serving
<1>3. ServerOutlivesThreads
  BY DEF ServerInv, ListExact, MutexSound, CandidateSound, FreedLast, Serving, TypeOK,
         Lives, Free, ServerOutlivesThreads
<1> QED BY <1>1, <1>2, <1>3 DEF ListSound

-----------------------------------------------------------------------------
(* Every variable of the RTMP server keeps its type (rtmp_server.c).           *)
THEOREM RtmpServerTypes == Spec => []TypeOK
<1>1. ServerInv => TypeOK
  BY DEF ServerInv
<1> QED BY <1>1, InvInitially, InvKept, PTL DEF Spec

(* rtmp_server.c:406-531, 605-642: the count is that of the list and within    *)
(* max_connections; no connection is freed while the list, the accept thread   *)
(* or the frame callback still leads to it; and the server is freed after the  *)
(* accept thread, every connection's section under the mutex and every visit   *)
(* of the callback.  A callback that only tested the pointer (line 2390) may   *)
(* find the server freed.                                                      *)
THEOREM ListStaysSound == Spec => []ListSound
BY InvInitially, InvKept, InvImplies, PTL DEF Spec

-----------------------------------------------------------------------------
(* A session (RtmpSession): why the server never loses its place.  The parts   *)
(* of the handshake come before the messages; every message stands in the      *)
(* stream as one header and its data, both of the length the server expects;   *)
(* and the commands, which the client writes in one piece whatever the chunk   *)
(* size, are all read before the server takes the smaller size.               *)

\* The kinds of messages the client writes, the tokens that travel up and the
\* pieces a frame is cut into.
Kinds == {"connect", "createStream", "publish", "setChunkSize", "audio", "video"}
Names == Kinds \union {"none"}
Token == [kind : {"c0", "c1", "c2", "header", "data"}, fmt : Nat, len : Int, type : Names]
Chunk == [kind : {"header", "data"}, fmt : Nat, len : Int, type : Names]

\* How many of C0, C1 and C2 the client has written and the server has read.
PartsWritten ==
  IF client = "c0" THEN 0
  ELSE IF client = "c1" THEN 1
  ELSE IF client \in {"s0", "s1", "s2", "c2"} THEN 2 ELSE 3
PartsRead ==
  IF server = "c0" THEN 0
  ELSE IF server \in {"s0", "c1"} THEN 1
  ELSE IF server \in {"s1", "s2", "c2"} THEN 2 ELSE 3
Waiting == PartsWritten - PartsRead

\* Where the client has not written connect, where the server shakes hands, and
\* where the client is once SET_CHUNK_SIZE is written.
Early == {"c0", "c1", "s0", "s1", "s2", "c2", "connect"}
Handshaking == {"c0", "s0", "c1", "s1", "s2", "c2"}
PartKinds == {"c0", "c1", "c2"}
Commands == {"connect", "createStream", "publish"}
Past == {"useChunk", "aac", "aacData", "steady"}

\* The types of the session.  Lengths are integers: only those of messages whose
\* ends agree are known to be positive.
SessionTypes ==
  /\ up \in Seq(Token) /\ pusher \in Seq(Chunk)
  /\ sent \in Seq(Names) /\ got \in Seq(Names)
  /\ lastLen \in Int /\ lastType \in Names
  /\ broken \in BOOLEAN /\ odd \in BOOLEAN /\ published \in BOOLEAN
  /\ chunkIn \in {S!ServerChunk, ConfigChunk}
  /\ client \in Early \union Past \union {"connecting", "createStream", "creating", "publish",
                  "publishing", "setChunk", "setChunkData", "failed"}
  /\ server \in Handshaking \union {"loop", "lost", "closed"}
  /\ chunkOut \in {S!ClientChunk, ConfigChunk}
  /\ client \in {"aac", "aacData", "steady"} => chunkOut = ConfigChunk

\* the parts of the handshake come first
PartsFirst ==
  /\ broken => up = << >>
  /\ ~broken =>
       /\ client # "failed" /\ server # "closed"
       /\ Waiting \in Nat /\ Waiting <= Len(up)
       /\ \A i \in 1..Len(up) : up[i].kind \in PartKinds <=> i <= Waiting
       /\ client \in Early => Len(up) = Waiting /\ pusher = << >>

\* the first message is connect
FirstIsConnect ==
  /\ got # << >> => connState = "connected" /\ server \notin Handshaking
  /\ got = << >> =>
       /\ ~published /\ chunkIn = S!ServerChunk
       /\ ~broken /\ client \notin Early =>
            /\ Len(up) >= Waiting + 2
            /\ up[Waiting + 1] = S!Header(0, S!ConnectLen, "connect")
            /\ up[Waiting + 2] = S!Data(S!ConnectLen, "connect")

\* after SET_CHUNK_SIZE no command is written
SizeAfterCommands ==
  /\ \A i, j \in 1..Len(sent) : i < j /\ sent[i] = "setChunkSize" => sent[j] \notin Commands
  /\ \A i \in 1..Len(sent) : sent[i] = "setChunkSize" => client \in Past \union {"failed"}
  /\ chunkIn # S!ServerChunk => \E i \in 1..Len(got) : got[i] = "setChunkSize"

\* What is assembled is the beginning of what was written.
GotIsSent ==
  /\ Len(got) <= Len(sent)
  /\ \A i \in 1..Len(got) : got[i] = sent[i]

\* How many messages are written and not read, and whether a header stands
\* without its data.
Unread == Len(sent) - Len(got)
Half == client \in {"setChunkData", "aacData"} \/ Len(pusher) = 1

\* The lengths a message of each kind may have, and the two tokens of one.
Lengths(t) == IF t = "connect" THEN {S!ConnectLen}
              ELSE IF t = "createStream" THEN {S!CreateStreamLen}
              ELSE IF t = "publish" THEN {S!PublishLen}
              ELSE IF t = "video" THEN 1..ConfigChunk ELSE {4}

IsMessage(h, d, t) ==
  \E n \in Lengths(t) : h = S!Header(0, n, t) /\ d = S!Data(n, t)

\* the frame at hand
FrameWritten ==
  pusher # << >> =>
    /\ client = "steady"
    /\ Len(pusher) \in {1, 2}
    /\ Len(pusher) = 2 => IsMessage(pusher[1], pusher[2], "video")
    /\ Len(pusher) = 1 => IsMessage(up[Len(up)], pusher[1], "video")

\* the messages not read yet, each in one chunk
Messages ==
  \A m \in 1..Unread :
    IsMessage(up[Waiting + 2 * m - 1], up[Waiting + 2 * m], sent[Len(got) + m])

\* the header of the message the connection thread is writing
HeaderWritten ==
  /\ client = "setChunkData" => up[Len(up)] = S!Header(0, 4, "setChunkSize")
  /\ client = "aacData" => up[Len(up)] = S!Header(0, 4, "audio")

Pending ==
  /\ \A i \in 1..Len(sent) : sent[i] \in Kinds
  /\ Len(up) = Waiting + 2 * Unread + (IF Half THEN 1 ELSE 0)
  /\ Messages /\ HeaderWritten /\ FrameWritten

\* Until a frame of the three odd kinds is written the two ends agree.
EndsAgree == ~odd => GotIsSent /\ server # "lost" /\ (~broken => Pending)

\* The inductive invariant of a session.
SessionInv == SessionTypes /\ PartsFirst /\ FirstIsConnect /\ SizeAfterCommands /\ EndsAgree

-----------------------------------------------------------------------------
\* What is appended leaves the tokens before it in their places.
LEMMA Joined ==
  ASSUME NEW X, NEW s \in Seq(X), NEW t \in Seq(X)
  PROVE  /\ s \o t \in Seq(X) /\ Len(s \o t) = Len(s) + Len(t)
         /\ \A i \in 1..Len(s) : (s \o t)[i] = s[i]
         /\ \A i \in 1..Len(t) : (s \o t)[Len(s) + i] = t[i]
OBVIOUS

\* What is left behind a number of tokens.
LEMMA Dropped ==
  ASSUME NEW X, NEW s \in Seq(X), NEW n \in 0..Len(s)
  PROVE  /\ SubSeq(s, n + 1, Len(s)) \in Seq(X)
         /\ Len(SubSeq(s, n + 1, Len(s))) = Len(s) - n
         /\ \A i \in 1..(Len(s) - n) : SubSeq(s, n + 1, Len(s))[i] = s[n + i]
BY SubSeqProperties

\* The first token and those behind it.
LEMMA HeadTail ==
  ASSUME NEW X, NEW s \in Seq(X), s # << >>
  PROVE  /\ Tail(s) \in Seq(X) /\ Len(Tail(s)) = Len(s) - 1 /\ Head(s) = s[1]
         /\ \A i \in 1..(Len(s) - 1) : Tail(s)[i] = s[1 + i]
         /\ Len(s) \in Nat \ {0} /\ s[1] \in X
OBVIOUS

\* A header and a run of data are pieces of a frame.
LEMMA ChunkTokens ==
  ASSUME NEW f \in Nat, NEW n \in Int, NEW t \in Names
  PROVE  S!Header(f, n, t) \in Chunk /\ S!Data(n, t) \in Chunk
BY DEF S!Header, S!Data, Chunk

\* A piece of a frame is a token, and no part of the handshake.
LEMMA ChunkIsToken ==
  ASSUME NEW c \in Chunk
  PROVE  c \in Token /\ c.kind \notin PartKinds
BY DEF Chunk, Token, PartKinds

\* What the client writes consists of tokens.
LEMMA Tokens ==
  ASSUME NEW f \in Nat, NEW n \in Int, NEW t \in Names, NEW c \in {"c0", "c1", "c2"}
  PROVE  /\ S!Part(c) \in Token /\ S!Header(f, n, t) \in Token /\ S!Data(n, t) \in Token
         /\ <<S!Part(c)>> \in Seq(Token) /\ <<S!Header(f, n, t)>> \in Seq(Token)
         /\ <<S!Data(n, t)>> \in Seq(Token) /\ S!Whole(n, t) \in Seq(Token)
         /\ Len(S!Whole(n, t)) = 2
         /\ S!Whole(n, t)[1] = S!Header(0, n, t) /\ S!Whole(n, t)[2] = S!Data(n, t)
<1>1. S!Part(c) \in Token
  BY DEF S!Part, Token, Names
<1>2. S!Header(f, n, t) \in Token /\ S!Header(0, n, t) \in Token
  BY DEF S!Header, Token
<1>3. S!Data(n, t) \in Token
  BY DEF S!Data, Token
<1> HIDE DEF Token
<1>4. <<S!Part(c)>> \in Seq(Token) /\ <<S!Header(f, n, t)>> \in Seq(Token)
      /\ <<S!Data(n, t)>> \in Seq(Token)
  BY <1>1, <1>2, <1>3
<1>5. S!Whole(n, t) \in Seq(Token) /\ Len(S!Whole(n, t)) = 2
  BY <1>2, <1>3 DEF S!Whole
<1>6. S!Whole(n, t)[1] = S!Header(0, n, t) /\ S!Whole(n, t)[2] = S!Data(n, t)
  BY DEF S!Whole
<1> QED BY <1>1, <1>2, <1>3, <1>4, <1>5, <1>6

\* Every command fits a chunk of the size the server begins with (the buffers
\* app[256], tc_url[512] and stream_key[256] bound them), and no configured size
\* is larger.
LEMMA CommandLengths ==
  /\ S!ConnectLen \in Nat /\ S!CreateStreamLen \in Nat /\ S!PublishLen \in Nat
  /\ 1 <= S!ConnectLen /\ S!ConnectLen <= S!ServerChunk
  /\ 1 <= S!CreateStreamLen /\ S!CreateStreamLen <= S!ServerChunk
  /\ 1 <= S!PublishLen /\ S!PublishLen <= S!ServerChunk
  /\ S!ServerChunk \in Nat
  /\ ConfigChunk \in Nat /\ 4 <= ConfigChunk /\ ConfigChunk <= S!ServerChunk
<1>1. AppLen \in 0..255 /\ UrlLen \in 0..511 /\ KeyLen \in 0..255
  BY SessionAssumption DEF S!LengthsAssumption
<1>2. \A k, n \in Nat : S!PropertyLen(k, n) = 5 + k + n
  BY DEF S!PropertyLen, S!StringLen
<1>3. \A n \in Nat : S!StringLen(n) = 3 + n
  BY DEF S!StringLen
<1>4. S!NumberLen = 9 /\ S!NullLen = 1 /\ S!ObjectStartLen = 1 /\ S!ObjectEndLen = 3
  BY DEF S!NumberLen, S!NullLen, S!ObjectStartLen, S!ObjectEndLen
<1>5. S!ConnectLen = 81 + AppLen + UrlLen
  <2>1. /\ S!PropertyLen(3, AppLen) = 8 + AppLen /\ S!PropertyLen(4, 10) = 19
        /\ S!PropertyLen(8, 8) = 21 /\ S!PropertyLen(5, UrlLen) = 10 + UrlLen
        /\ S!StringLen(7) = 10
    BY <1>1 DEF S!PropertyLen, S!StringLen
  <2> QED BY <1>1, <1>4, <2>1 DEF S!ConnectLen
<1>6. S!CreateStreamLen = 25 /\ S!PublishLen = 30 + KeyLen
  BY <1>1, <1>3, <1>4 DEF S!CreateStreamLen, S!PublishLen
<1>7. S!ConnectLen \in Nat /\ 1 <= S!ConnectLen /\ S!ConnectLen <= 1000
  BY <1>1, <1>5
<1>8. /\ S!CreateStreamLen \in Nat /\ 1 <= S!CreateStreamLen /\ S!CreateStreamLen <= 1000
      /\ S!PublishLen \in Nat /\ 1 <= S!PublishLen /\ S!PublishLen <= 1000
  BY <1>1, <1>6
<1>9. S!ServerChunk \in Nat /\ 1000 <= S!ServerChunk
  BY DEF S!ServerChunk
<1>10. S!ConnectLen <= S!ServerChunk /\ S!CreateStreamLen <= S!ServerChunk
       /\ S!PublishLen <= S!ServerChunk
  BY <1>7, <1>8, <1>9
<1>11. ConfigChunk \in Nat /\ 4 <= ConfigChunk /\ ConfigChunk <= S!ServerChunk
  BY SessionAssumption DEF S!LengthsAssumption, S!ServerChunk
<1> QED BY <1>7, <1>8, <1>9, <1>10, <1>11

\* a frame of no more than a chunk is written as one
LEMMA OneChunk ==
  ASSUME NEW n \in Nat \ {0}, NEW size \in Nat, n <= size
  PROVE  S!Chunked(n, "video", size) = <<S!Header(0, n, "video"), S!Data(n, "video")>>
<1>1. (n + size - 1) \div size = 1
  OBVIOUS
<1> DEFINE pieces == (n + size - 1) \div size
           Piece(i) == IF i < pieces THEN size ELSE n - size * (pieces - 1)
<1>2. pieces = 1 /\ Piece(1) = n
  BY <1>1
<1>3. S!Chunked(n, "video", size) =
        [i \in 1..(2 * pieces) |->
           IF i % 2 = 1 THEN S!Header(IF i = 1 THEN 0 ELSE 3, n, "video")
                        ELSE S!Data(Piece(i \div 2), "video")]
  BY DEF S!Chunked
<1> HIDE DEF pieces, Piece
<1>4. S!Chunked(n, "video", size) =
        [i \in 1..2 |->
           IF i % 2 = 1 THEN S!Header(IF i = 1 THEN 0 ELSE 3, n, "video")
                        ELSE S!Data(Piece(i \div 2), "video")]
  BY <1>2, <1>3
<1>5. 1 % 2 = 1 /\ 2 % 2 = 0 /\ 2 \div 2 = 1
  OBVIOUS
<1> QED BY <1>2, <1>4, <1>5

\* A frame is cut into headers and data, and into at least one pair.
LEMMA ChunksAreChunks ==
  ASSUME NEW n \in Nat \ {0}, NEW size \in Nat \ {0}
  PROVE  S!Chunked(n, "video", size) \in Seq(Chunk) /\ S!Chunked(n, "video", size) # << >>
<1> DEFINE pieces == (n + size - 1) \div size
           Piece(i) == IF i < pieces THEN size ELSE n - size * (pieces - 1)
           f == [i \in 1..(2 * pieces) |->
                   IF i % 2 = 1 THEN S!Header(IF i = 1 THEN 0 ELSE 3, n, "video")
                                ELSE S!Data(Piece(i \div 2), "video")]
<1>1. pieces \in Nat \ {0}
  OBVIOUS
<1>2. \A i \in Int : Piece(i) \in Int
  BY <1>1
<1>3. S!Chunked(n, "video", size) = f
  BY DEF S!Chunked
<1>4. ASSUME NEW i \in 1..(2 * pieces) PROVE f[i] \in Chunk
  <2>1. "video" \in Names
    BY DEF Names, Kinds
  <2>2. S!Header(IF i = 1 THEN 0 ELSE 3, n, "video") \in Chunk
    BY <2>1, ChunkTokens
  <2>3. S!Data(Piece(i \div 2), "video") \in Chunk
    <3>1. i \div 2 \in Int
      BY <1>1
    <3>2. Piece(i \div 2) \in Int
      BY <3>1, <1>2
    <3> HIDE DEF Piece
    <3> QED BY <2>1, <3>2, ChunkTokens
  <2>4. f[i] = IF i % 2 = 1 THEN S!Header(IF i = 1 THEN 0 ELSE 3, n, "video")
                            ELSE S!Data(Piece(i \div 2), "video")
    BY Zenon
  <2> HIDE DEF f, Piece, pieces
  <2> QED BY <2>2, <2>3, <2>4
<1> HIDE DEF pieces, Piece
<1>5. f \in [1..(2 * pieces) -> Chunk]
  BY <1>4
<1>6. 2 * pieces \in Nat /\ 2 * pieces # 0
  BY <1>1
<1>7. f \in Seq(Chunk) /\ Len(f) = 2 * pieces
  <2> HIDE DEF f
  <2>1. f \in [1..(2 * pieces) -> Chunk]
    BY <1>5
  <2> QED BY <2>1, <1>6
<1> QED BY <1>3, <1>6, <1>7

\* One token written is a sequence of one joined.
LEMMA AppendJoins ==
  ASSUME NEW X, NEW s \in Seq(X), NEW x \in X
  PROVE  Append(s, x) = s \o <<x>>
OBVIOUS

\* What is left behind the header and the data the server has read.
LEMMA TwoDropped ==
  ASSUME NEW X, NEW s \in Seq(X), Len(s) >= 2
  PROVE  /\ SubSeq(s, 3, Len(s)) \in Seq(X)
         /\ Len(SubSeq(s, 3, Len(s))) = Len(s) - 2
         /\ \A i \in 1..(Len(s) - 2) : SubSeq(s, 3, Len(s))[i] = s[2 + i]
<1>1. 2 \in 0..Len(s) /\ 2 + 1 = 3
  OBVIOUS
<1>2. /\ SubSeq(s, 2 + 1, Len(s)) \in Seq(X)
      /\ Len(SubSeq(s, 2 + 1, Len(s))) = Len(s) - 2
      /\ \A i \in 1..(Len(s) - 2) : SubSeq(s, 2 + 1, Len(s))[i] = s[2 + i]
  BY <1>1, Dropped
<1> QED BY <1>1, <1>2

\* Every step keeps the types.
LEMMA SessionTypesKept ==
  SessionTypes /\ [S!Next]_(S!vars)
    => SessionTypes'
<1> SUFFICES ASSUME SessionTypes, [S!Next]_(S!vars) PROVE SessionTypes'
  OBVIOUS
<1> USE DEF SessionTypes, Early, Past, Handshaking
<1>1. CASE S!Break
  BY <1>1 DEF S!Break, S!clientVars, S!sendVars, S!serverVars
<1>2. CASE S!ClientFails
  BY <1>2 DEF S!ClientFails, S!clientVars, S!sendVars, S!serverVars
<1>3. CASE S!Writes("c0", "c1", <<S!Part("c0")>>) /\ UNCHANGED <<streamId, sent>>
  <2>1. <<S!Part("c0")>> \in Seq(Token)
    BY Tokens DEF Names, Kinds
  <2>2. up \o <<S!Part("c0")>> \in Seq(Token)
    BY <2>1, Joined
  <2> QED BY <1>3, <2>2 DEF S!Writes, S!clientVars, S!sendVars, S!serverVars
<1>4. CASE S!Writes("c1", "s0", <<S!Part("c1")>>) /\ UNCHANGED <<streamId, sent>>
  <2>1. <<S!Part("c1")>> \in Seq(Token)
    BY Tokens DEF Names, Kinds
  <2>2. up \o <<S!Part("c1")>> \in Seq(Token)
    BY <2>1, Joined
  <2> QED BY <1>4, <2>2 DEF S!Writes, S!clientVars, S!sendVars, S!serverVars
<1>5. CASE S!Reads("s0", "s1", "s0") \/ S!Reads("s1", "s2", "s1") \/ S!Reads("s2", "c2", "s2")
  BY <1>5 DEF S!Reads, S!clientVars, S!sendVars, S!serverVars
<1>6. CASE S!Writes("c2", "connect", <<S!Part("c2")>>) /\ UNCHANGED <<streamId, sent>>
  <2>1. <<S!Part("c2")>> \in Seq(Token)
    BY Tokens DEF Names, Kinds
  <2>2. up \o <<S!Part("c2")>> \in Seq(Token)
    BY <2>1, Joined
  <2> QED BY <1>6, <2>2 DEF S!Writes, S!clientVars, S!sendVars, S!serverVars
<1>7. CASE S!Connect
  <2>1. S!Whole(S!ConnectLen, "connect") \in Seq(Token) /\ "connect" \in Names
    BY Tokens, CommandLengths DEF Names, Kinds
  <2>2. up \o S!Whole(S!ConnectLen, "connect") \in Seq(Token) /\ Append(sent, "connect") \in Seq(Names)
    BY <2>1, Joined
  <2> QED BY <1>7, <2>2 DEF S!Connect, S!Writes, S!clientVars, S!sendVars, S!serverVars
<1>8. CASE S!CreateStream
  <2>1. S!Whole(S!CreateStreamLen, "createStream") \in Seq(Token) /\ "createStream" \in Names
    BY Tokens, CommandLengths DEF Names, Kinds
  <2>2. up \o S!Whole(S!CreateStreamLen, "createStream") \in Seq(Token) /\ Append(sent, "createStream") \in Seq(Names)
    BY <2>1, Joined
  <2> QED BY <1>8, <2>2 DEF S!CreateStream, S!Writes, S!clientVars, S!sendVars, S!serverVars
<1>9. CASE S!Publish
  <2>1. S!Whole(S!PublishLen, "publish") \in Seq(Token) /\ "publish" \in Names
    BY Tokens, CommandLengths DEF Names, Kinds
  <2>2. up \o S!Whole(S!PublishLen, "publish") \in Seq(Token) /\ Append(sent, "publish") \in Seq(Names)
    BY <2>1, Joined
  <2> QED BY <1>9, <2>2 DEF S!Publish, S!Writes, S!clientVars, S!sendVars, S!serverVars
<1>10. CASE S!AwaitReply
  BY <1>10 DEF S!AwaitReply, S!ReadAvailable, S!clientVars, S!sendVars, S!serverVars
<1>11. CASE S!SetChunkHeader
  <2>1. <<S!Header(0, 4, "setChunkSize")>> \in Seq(Token)
    BY Tokens DEF Names, Kinds
  <2>2. up \o <<S!Header(0, 4, "setChunkSize")>> \in Seq(Token)
    BY <2>1, Joined
  <2> QED BY <1>11, <2>2 DEF S!SetChunkHeader, S!Writes, S!clientVars, S!sendVars, S!serverVars
<1>12. CASE S!SetChunkData
  <2>1. <<S!Data(4, "setChunkSize")>> \in Seq(Token) /\ "setChunkSize" \in Names
    BY Tokens DEF Names, Kinds
  <2>2. up \o <<S!Data(4, "setChunkSize")>> \in Seq(Token) /\ Append(sent, "setChunkSize") \in Seq(Names)
    BY <2>1, Joined
  <2> QED BY <1>12, <2>2 DEF S!SetChunkData, S!Writes, S!clientVars, S!sendVars, S!serverVars
<1>13. CASE S!UseChunk
  BY <1>13 DEF S!UseChunk, S!clientVars, S!sendVars, S!serverVars
<1>14. CASE S!AacHeader
  <2>1. <<S!Header(0, 4, "audio")>> \in Seq(Token)
    BY Tokens DEF Names, Kinds
  <2>2. up \o <<S!Header(0, 4, "audio")>> \in Seq(Token)
    BY <2>1, Joined
  <2> QED BY <1>14, <2>2 DEF S!AacHeader, S!Writes, S!clientVars, S!sendVars, S!serverVars
<1>15. CASE S!AacData
  <2>1. <<S!Data(4, "audio")>> \in Seq(Token) /\ "audio" \in Names
    BY Tokens DEF Names, Kinds
  <2>2. up \o <<S!Data(4, "audio")>> \in Seq(Token) /\ Append(sent, "audio") \in Seq(Names)
    BY <2>1, Joined
  <2> QED BY <1>15, <2>2 DEF S!AacData, S!Writes, S!clientVars, S!sendVars, S!serverVars
<1>16. ASSUME NEW n \in FrameLens, NEW ts \in Timestamps, S!BeginFrame(n, ts) PROVE SessionTypes'
  <2>1. n \in Nat \ {0} /\ chunkOut \in Nat \ {0}
    BY SessionAssumption, CommandLengths DEF S!LengthsAssumption, S!ClientChunk
  <2>2. S!Chunked(n, "video", chunkOut) \in Seq(Chunk) /\ S!Chunked(n, "video", chunkOut) # << >>
    BY <2>1, ChunksAreChunks
  <2>3. "video" \in Names
    BY DEF Names, Kinds
  <2>4. <<S!Header(4, n, "video")>> \in Seq(Chunk)
    BY <2>1, <2>3, ChunkTokens
  <2>5. Tail(S!Chunked(n, "video", chunkOut)) \in Seq(Chunk)
    BY <2>2, HeadTail
  <2>6. <<S!Header(4, n, "video")>> \o Tail(S!Chunked(n, "video", chunkOut)) \in Seq(Chunk)
    BY <2>4, <2>5, Joined
  <2>7. pusher' \in Seq(Chunk)
    BY <1>16, <2>2, <2>6 DEF S!BeginFrame
  <2>8. odd' \in BOOLEAN
    BY <1>16 DEF S!BeginFrame
  <2> QED BY <1>16, <2>7, <2>8 DEF S!BeginFrame, S!clientVars, S!serverVars
<1>17. CASE S!SendPiece
  <2>1. Head(pusher) \in Token /\ Tail(pusher) \in Seq(Chunk)
    BY <1>17, HeadTail, ChunkIsToken DEF S!SendPiece
  <2>2. Append(up, Head(pusher)) \in Seq(Token) /\ Append(sent, "video") \in Seq(Names)
    BY <2>1 DEF Names, Kinds
  <2> QED BY <1>17, <2>1, <2>2 DEF S!SendPiece, S!clientVars, S!sendVars, S!serverVars
<1>18. CASE S!SendFails
  BY <1>18 DEF S!SendFails, S!clientVars, S!sendVars, S!serverVars
<1>19. CASE S!ServerReads("c0", "s0", "c0") /\ connState' = "version_sent"
  BY <1>19 DEF S!ServerReads, S!clientVars, S!sendVars, S!serverVars
<1>20. CASE S!ServerWrites("s0", "c1", "s0") \/ S!ServerWrites("s1", "s2", "s1") \/ S!ServerWrites("s2", "c2", "s2")
  BY <1>20 DEF S!ServerWrites, S!clientVars, S!sendVars, S!serverVars
<1>21. CASE S!ServerReads("c1", "s1", "c1") /\ UNCHANGED connState
  BY <1>21 DEF S!ServerReads, S!clientVars, S!sendVars, S!serverVars
<1>22. CASE S!ServerReads("c2", "loop", "c2") /\ connState' = "handshake_done"
  BY <1>22 DEF S!ServerReads, S!clientVars, S!sendVars, S!serverVars
<1>23. CASE S!ReadChunk
  <2>1. Len(up) >= 2 /\ up' = SubSeq(up, 3, Len(up)) /\ Head(up) = up[1] /\ up[1] \in Token
    BY <1>23 DEF S!ReadChunk, S!Aligned, S!ChunkThere
  <2>2. up' \in Seq(Token)
    BY <2>1, Dropped
  <2>3. up[1].len \in Int /\ up[1].type \in Names
    BY <2>1 DEF Token
  <2>4. S!HeaderLen(Head(up)) \in Int /\ S!HeaderType(Head(up)) \in Names
    BY <2>1, <2>3 DEF S!HeaderLen, S!HeaderType
  <2>5. lastLen' \in Int /\ lastType' \in Names
    BY <1>23, <2>4 DEF S!ReadChunk
  <2>6. got' \in Seq(Names) /\ chunkIn' \in {S!ServerChunk, ConfigChunk} /\ published' \in BOOLEAN
    <3>1. CASE S!Handle(S!HeaderType(Head(up)))
      <4>1. got' = Append(got, S!HeaderType(Head(up)))
            /\ chunkIn' \in {chunkIn, ConfigChunk}
        BY <3>1 DEF S!Handle, S!NewChunkIn
      <4>2. published' \in BOOLEAN
        BY <3>1, Zenon DEF S!Handle
      <4> QED BY <4>1, <4>2, <2>4
    <3>2. CASE UNCHANGED <<got, published, chunkIn>>
      BY <3>2
    <3> QED BY <1>23, <3>1, <3>2 DEF S!ReadChunk
  <2> QED BY <1>23, <2>2, <2>5, <2>6 DEF S!ReadChunk, S!clientVars, S!sendVars
<1>24. CASE S!Misread
  BY <1>24 DEF S!Misread, S!clientVars, S!sendVars, S!serverVars
<1>25. CASE S!ServerEnds
  BY <1>25 DEF S!ServerEnds, S!clientVars, S!sendVars, S!serverVars
<1>26. CASE UNCHANGED S!vars
  BY <1>26 DEF S!vars, S!clientVars, S!sendVars, S!serverVars
<1> QED BY <1>1, <1>2, <1>3, <1>4, <1>5, <1>6, <1>7, <1>8, <1>9, <1>10, <1>11, <1>12, <1>13, <1>14, <1>15, <1>16, <1>17, <1>18, <1>19, <1>20, <1>21, <1>22, <1>23, <1>24, <1>25, <1>26
     DEF S!Next, S!ClientThread, S!ClientHandshake, S!ServerThread, S!ServerHandshake

\* A message written behind the handshake leaves its parts in front.
LEMMA PartsAppended ==
  ASSUME SessionTypes, PartsFirst, NEW t \in Seq(Token), up' = up \o t, ~broken, ~broken',
         \A i \in 1..Len(t) : t[i].kind \notin PartKinds,
         client' \notin Early \union {"failed"}, server' = server, Waiting' = Waiting
  PROVE  PartsFirst'
<1>1. /\ Len(up') = Len(up) + Len(t) /\ Len(up) \in Nat /\ Len(t) \in Nat
      /\ \A i \in 1..Len(up) : up'[i] = up[i]
      /\ \A i \in 1..Len(t) : up'[Len(up) + i] = t[i]
  BY Joined DEF SessionTypes
<1>2. Waiting \in Nat /\ Waiting <= Len(up) /\ server # "closed"
  BY DEF PartsFirst
<1>3. ASSUME NEW i \in 1..Len(up') PROVE up'[i].kind \in PartKinds <=> i <= Waiting
  <2>1. CASE i <= Len(up)
    BY <1>1, <2>1 DEF PartsFirst
  <2>2. CASE i > Len(up)
    <3> DEFINE j == i - Len(up)
    <3>1. j \in 1..Len(t) /\ i = Len(up) + j
      BY <1>1, <2>2
    <3>2. up'[i] = t[j]
      BY <3>1, <1>1
    <3> QED BY <3>1, <3>2, <1>1, <1>2, <2>2
  <2> QED BY <1>1, <2>1, <2>2
<1> QED BY <1>1, <1>2, <1>3 DEF PartsFirst

\* A part of the handshake is written while nothing else is under way.
LEMMA PartWritten ==
  ASSUME SessionTypes, PartsFirst, NEW a \in Token, up' = up \o <<a>>, a.kind \in PartKinds,
         ~broken, ~broken', client \in Early, client' \in Early, server' = server,
         pusher' = pusher, Waiting' = Waiting + 1
  PROVE  PartsFirst'
<1>1. /\ Len(up') = Len(up) + 1 /\ Len(up) \in Nat
      /\ \A i \in 1..Len(up) : up'[i] = up[i]
      /\ up'[Len(up) + 1] = a
  BY Joined DEF SessionTypes
<1>2. Waiting \in Nat /\ Waiting = Len(up) /\ server # "closed"
  BY DEF PartsFirst
<1>3. \A i \in 1..Len(up') : up'[i].kind \in PartKinds /\ i <= Waiting'
  BY <1>1, <1>2 DEF PartsFirst
<1>4. pusher = << >>
  BY DEF PartsFirst
<1> QED BY <1>1, <1>2, <1>3, <1>4 DEF PartsFirst, Early

\* A part of the handshake is read from the front.
LEMMA PartRead ==
  ASSUME SessionTypes, PartsFirst, up # << >>, Head(up).kind \in PartKinds, up' = Tail(up),
         client' = client, broken' = broken, pusher' = pusher,
         server' # "closed", Waiting' = Waiting - 1
  PROVE  PartsFirst'
<1>1. /\ Len(up') = Len(up) - 1 /\ Len(up) \in Nat \ {0} /\ Head(up) = up[1]
      /\ \A i \in 1..(Len(up) - 1) : up'[i] = up[1 + i]
  BY HeadTail DEF SessionTypes
<1>2. /\ ~broken /\ Waiting \in Nat /\ Waiting <= Len(up)
      /\ \A i \in 1..Len(up) : up[i].kind \in PartKinds <=> i <= Waiting
  BY DEF PartsFirst
<1>3. 1 <= Waiting
  BY <1>1, <1>2
<1>4. ASSUME NEW i \in 1..Len(up') PROVE up'[i].kind \in PartKinds <=> i <= Waiting'
  <2>1. 1 + i \in 1..Len(up) /\ up'[i] = up[1 + i]
    BY <1>1
  <2>2. up[1 + i].kind \in PartKinds <=> 1 + i <= Waiting
    BY <2>1, <1>2
  <2> QED BY <2>1, <2>2, <1>2
<1>5. client' # "failed" /\ ~broken'
  BY <1>2 DEF PartsFirst
<1>6. client' \in Early => Len(up') = Waiting' /\ pusher' = << >>
  BY <1>1, <1>2 DEF PartsFirst
<1>7. Waiting' \in Nat /\ Waiting' <= Len(up')
  BY <1>1, <1>2, <1>3
<1> QED BY <1>4, <1>5, <1>6, <1>7 DEF PartsFirst

\* Every step keeps the parts of the handshake in front of the messages.
LEMMA PartsKept ==
  SessionTypes /\ PartsFirst /\ [S!Next]_(S!vars)
    => PartsFirst'
<1> SUFFICES ASSUME SessionTypes /\ PartsFirst, [S!Next]_(S!vars) PROVE PartsFirst'
  OBVIOUS
<1>1. CASE S!Break
  <2>1. broken' /\ up' = << >>
    BY <1>1 DEF S!Break, S!clientVars, S!sendVars, S!serverVars, PartsFirst
  <2> QED BY <2>1 DEF PartsFirst
<1>2. CASE S!ClientFails
  <2>1. broken' /\ up' = << >>
    BY <1>2 DEF S!ClientFails, S!clientVars, S!sendVars, S!serverVars, PartsFirst
  <2> QED BY <2>1 DEF PartsFirst
<1>3. CASE S!Writes("c0", "c1", <<S!Part("c0")>>) /\ UNCHANGED <<streamId, sent>>
  <2>1. S!Part("c0") \in Token /\ S!Part("c0").kind \in PartKinds
    BY Tokens DEF Names, S!Part, PartKinds
  <2>2. Waiting' = Waiting + 1 /\ client \in Early /\ client' \in Early /\ ~broken /\ ~broken' /\ server' = server /\ pusher' = pusher
    BY <1>3 DEF S!Writes, S!clientVars, S!sendVars, S!serverVars, Waiting, PartsWritten, PartsRead, Early, SessionTypes
  <2>3. up' = up \o <<S!Part("c0")>>
    BY <1>3 DEF S!Writes, S!clientVars, S!sendVars, S!serverVars
  <2> QED BY <2>1, <2>2, <2>3, PartWritten
<1>4. CASE S!Writes("c1", "s0", <<S!Part("c1")>>) /\ UNCHANGED <<streamId, sent>>
  <2>1. S!Part("c1") \in Token /\ S!Part("c1").kind \in PartKinds
    BY Tokens DEF Names, S!Part, PartKinds
  <2>2. Waiting' = Waiting + 1 /\ client \in Early /\ client' \in Early /\ ~broken /\ ~broken' /\ server' = server /\ pusher' = pusher
    BY <1>4 DEF S!Writes, S!clientVars, S!sendVars, S!serverVars, Waiting, PartsWritten, PartsRead, Early, SessionTypes
  <2>3. up' = up \o <<S!Part("c1")>>
    BY <1>4 DEF S!Writes, S!clientVars, S!sendVars, S!serverVars
  <2> QED BY <2>1, <2>2, <2>3, PartWritten
<1>5. CASE S!Reads("s0", "s1", "s0") \/ S!Reads("s1", "s2", "s1") \/ S!Reads("s2", "c2", "s2")
  <2>1. CASE broken
    BY <1>5, <2>1 DEF S!Reads, S!clientVars, S!sendVars, S!serverVars, PartsFirst
  <2>2. CASE ~broken
    <3>1. /\ up' = up /\ ~broken' /\ client' # "failed" /\ server' # "closed"
          /\ client' \in Early => client \in Early /\ pusher' = pusher
      BY <1>5, <2>2 DEF S!Reads, S!clientVars, S!sendVars, S!serverVars, Early, PartsFirst, S!MaySend
    <3>2. Waiting' = Waiting
      BY <1>5 DEF S!Reads, S!clientVars, S!sendVars, S!serverVars, Waiting, PartsWritten, PartsRead, SessionTypes
    <3> QED BY <2>2, <3>1, <3>2 DEF PartsFirst
  <2> QED BY <2>1, <2>2
<1>6. CASE S!Writes("c2", "connect", <<S!Part("c2")>>) /\ UNCHANGED <<streamId, sent>>
  <2>1. S!Part("c2") \in Token /\ S!Part("c2").kind \in PartKinds
    BY Tokens DEF Names, S!Part, PartKinds
  <2>2. Waiting' = Waiting + 1 /\ client \in Early /\ client' \in Early /\ ~broken /\ ~broken' /\ server' = server /\ pusher' = pusher
    BY <1>6 DEF S!Writes, S!clientVars, S!sendVars, S!serverVars, Waiting, PartsWritten, PartsRead, Early, SessionTypes
  <2>3. up' = up \o <<S!Part("c2")>>
    BY <1>6 DEF S!Writes, S!clientVars, S!sendVars, S!serverVars
  <2> QED BY <2>1, <2>2, <2>3, PartWritten
<1>7. CASE S!Connect
  <2>1. S!Header(0, S!ConnectLen, "connect") \in Chunk /\ S!Data(S!ConnectLen, "connect") \in Chunk
    BY CommandLengths, ChunkTokens DEF Names, Kinds
  <2>2. S!Whole(S!ConnectLen, "connect") \in Seq(Token)
        /\ \A i \in 1..Len(S!Whole(S!ConnectLen, "connect")) : S!Whole(S!ConnectLen, "connect")[i].kind \notin PartKinds
    BY <2>1, ChunkIsToken DEF S!Whole
  <2>3. Waiting' = Waiting /\ client' \notin Early \union {"failed"} /\ ~broken /\ ~broken' /\ server' = server
    BY <1>7 DEF S!Connect, S!Writes, S!clientVars, S!sendVars, S!serverVars, Waiting, PartsWritten, PartsRead, Early
  <2>4. up' = up \o S!Whole(S!ConnectLen, "connect")
    BY <1>7 DEF S!Connect, S!Writes, S!clientVars, S!sendVars, S!serverVars
  <2> QED BY <2>2, <2>3, <2>4, PartsAppended
<1>8. CASE S!CreateStream
  <2>1. S!Header(0, S!CreateStreamLen, "createStream") \in Chunk /\ S!Data(S!CreateStreamLen, "createStream") \in Chunk
    BY CommandLengths, ChunkTokens DEF Names, Kinds
  <2>2. S!Whole(S!CreateStreamLen, "createStream") \in Seq(Token)
        /\ \A i \in 1..Len(S!Whole(S!CreateStreamLen, "createStream")) : S!Whole(S!CreateStreamLen, "createStream")[i].kind \notin PartKinds
    BY <2>1, ChunkIsToken DEF S!Whole
  <2>3. Waiting' = Waiting /\ client' \notin Early \union {"failed"} /\ ~broken /\ ~broken' /\ server' = server
    BY <1>8 DEF S!CreateStream, S!Writes, S!clientVars, S!sendVars, S!serverVars, Waiting, PartsWritten, PartsRead, Early
  <2>4. up' = up \o S!Whole(S!CreateStreamLen, "createStream")
    BY <1>8 DEF S!CreateStream, S!Writes, S!clientVars, S!sendVars, S!serverVars
  <2> QED BY <2>2, <2>3, <2>4, PartsAppended
<1>9. CASE S!Publish
  <2>1. S!Header(0, S!PublishLen, "publish") \in Chunk /\ S!Data(S!PublishLen, "publish") \in Chunk
    BY CommandLengths, ChunkTokens DEF Names, Kinds
  <2>2. S!Whole(S!PublishLen, "publish") \in Seq(Token)
        /\ \A i \in 1..Len(S!Whole(S!PublishLen, "publish")) : S!Whole(S!PublishLen, "publish")[i].kind \notin PartKinds
    BY <2>1, ChunkIsToken DEF S!Whole
  <2>3. Waiting' = Waiting /\ client' \notin Early \union {"failed"} /\ ~broken /\ ~broken' /\ server' = server
    BY <1>9 DEF S!Publish, S!Writes, S!clientVars, S!sendVars, S!serverVars, Waiting, PartsWritten, PartsRead, Early
  <2>4. up' = up \o S!Whole(S!PublishLen, "publish")
    BY <1>9 DEF S!Publish, S!Writes, S!clientVars, S!sendVars, S!serverVars
  <2> QED BY <2>2, <2>3, <2>4, PartsAppended
<1>10. CASE S!AwaitReply
  <2>1. CASE broken
    BY <1>10, <2>1 DEF S!AwaitReply, S!ReadAvailable, S!clientVars, S!sendVars, S!serverVars, PartsFirst
  <2>2. CASE ~broken
    <3>1. /\ up' = up /\ ~broken' /\ client' # "failed" /\ server' # "closed"
          /\ client' \in Early => client \in Early /\ pusher' = pusher
      BY <1>10, <2>2 DEF S!AwaitReply, S!ReadAvailable, S!clientVars, S!sendVars, S!serverVars, Early, PartsFirst, S!MaySend
    <3>2. Waiting' = Waiting
      BY <1>10 DEF S!AwaitReply, S!ReadAvailable, S!clientVars, S!sendVars, S!serverVars, Waiting, PartsWritten, PartsRead, SessionTypes
    <3> QED BY <2>2, <3>1, <3>2 DEF PartsFirst
  <2> QED BY <2>1, <2>2
<1>11. CASE S!SetChunkHeader
  <2>1. S!Header(0, 4, "setChunkSize") \in Chunk
    BY ChunkTokens DEF Names, Kinds
  <2>2. <<S!Header(0, 4, "setChunkSize")>> \in Seq(Token) /\ \A i \in 1..Len(<<S!Header(0, 4, "setChunkSize")>>) : <<S!Header(0, 4, "setChunkSize")>>[i].kind \notin PartKinds
    BY <2>1, ChunkIsToken
  <2>3. Waiting' = Waiting /\ client' \notin Early \union {"failed"} /\ ~broken /\ ~broken' /\ server' = server
    BY <1>11 DEF S!SetChunkHeader, S!Writes, S!clientVars, S!sendVars, S!serverVars, Waiting, PartsWritten, PartsRead, Early
  <2>4. up' = up \o <<S!Header(0, 4, "setChunkSize")>>
    BY <1>11 DEF S!SetChunkHeader, S!Writes, S!clientVars, S!sendVars, S!serverVars
  <2> QED BY <2>2, <2>3, <2>4, PartsAppended
<1>12. CASE S!SetChunkData
  <2>1. S!Data(4, "setChunkSize") \in Chunk
    BY ChunkTokens DEF Names, Kinds
  <2>2. <<S!Data(4, "setChunkSize")>> \in Seq(Token) /\ \A i \in 1..Len(<<S!Data(4, "setChunkSize")>>) : <<S!Data(4, "setChunkSize")>>[i].kind \notin PartKinds
    BY <2>1, ChunkIsToken
  <2>3. Waiting' = Waiting /\ client' \notin Early \union {"failed"} /\ ~broken /\ ~broken' /\ server' = server
    BY <1>12 DEF S!SetChunkData, S!Writes, S!clientVars, S!sendVars, S!serverVars, Waiting, PartsWritten, PartsRead, Early
  <2>4. up' = up \o <<S!Data(4, "setChunkSize")>>
    BY <1>12 DEF S!SetChunkData, S!Writes, S!clientVars, S!sendVars, S!serverVars
  <2> QED BY <2>2, <2>3, <2>4, PartsAppended
<1>13. CASE S!UseChunk
  <2>1. CASE broken
    BY <1>13, <2>1 DEF S!UseChunk, S!clientVars, S!sendVars, S!serverVars, PartsFirst
  <2>2. CASE ~broken
    <3>1. /\ up' = up /\ ~broken' /\ client' # "failed" /\ server' # "closed"
          /\ client' \in Early => client \in Early /\ pusher' = pusher
      BY <1>13, <2>2 DEF S!UseChunk, S!clientVars, S!sendVars, S!serverVars, Early, PartsFirst, S!MaySend
    <3>2. Waiting' = Waiting
      BY <1>13 DEF S!UseChunk, S!clientVars, S!sendVars, S!serverVars, Waiting, PartsWritten, PartsRead, SessionTypes
    <3> QED BY <2>2, <3>1, <3>2 DEF PartsFirst
  <2> QED BY <2>1, <2>2
<1>14. CASE S!AacHeader
  <2>1. S!Header(0, 4, "audio") \in Chunk
    BY ChunkTokens DEF Names, Kinds
  <2>2. <<S!Header(0, 4, "audio")>> \in Seq(Token) /\ \A i \in 1..Len(<<S!Header(0, 4, "audio")>>) : <<S!Header(0, 4, "audio")>>[i].kind \notin PartKinds
    BY <2>1, ChunkIsToken
  <2>3. Waiting' = Waiting /\ client' \notin Early \union {"failed"} /\ ~broken /\ ~broken' /\ server' = server
    BY <1>14 DEF S!AacHeader, S!Writes, S!clientVars, S!sendVars, S!serverVars, Waiting, PartsWritten, PartsRead, Early
  <2>4. up' = up \o <<S!Header(0, 4, "audio")>>
    BY <1>14 DEF S!AacHeader, S!Writes, S!clientVars, S!sendVars, S!serverVars
  <2> QED BY <2>2, <2>3, <2>4, PartsAppended
<1>15. CASE S!AacData
  <2>1. S!Data(4, "audio") \in Chunk
    BY ChunkTokens DEF Names, Kinds
  <2>2. <<S!Data(4, "audio")>> \in Seq(Token) /\ \A i \in 1..Len(<<S!Data(4, "audio")>>) : <<S!Data(4, "audio")>>[i].kind \notin PartKinds
    BY <2>1, ChunkIsToken
  <2>3. Waiting' = Waiting /\ client' \notin Early \union {"failed"} /\ ~broken /\ ~broken' /\ server' = server
    BY <1>15 DEF S!AacData, S!Writes, S!clientVars, S!sendVars, S!serverVars, Waiting, PartsWritten, PartsRead, Early
  <2>4. up' = up \o <<S!Data(4, "audio")>>
    BY <1>15 DEF S!AacData, S!Writes, S!clientVars, S!sendVars, S!serverVars
  <2> QED BY <2>2, <2>3, <2>4, PartsAppended
<1>16. ASSUME NEW n \in FrameLens, NEW ts \in Timestamps, S!BeginFrame(n, ts) PROVE PartsFirst'
  <2>1. CASE broken
    BY <1>16, <2>1 DEF S!BeginFrame, S!clientVars, S!sendVars, S!serverVars, PartsFirst
  <2>2. CASE ~broken
    <3>1. /\ up' = up /\ ~broken' /\ client' # "failed" /\ server' # "closed"
          /\ client' \in Early => client \in Early /\ pusher' = pusher
      BY <1>16, <2>2 DEF S!BeginFrame, S!clientVars, S!sendVars, S!serverVars, Early, PartsFirst, S!MaySend
    <3>2. Waiting' = Waiting
      BY <1>16 DEF S!BeginFrame, S!clientVars, S!sendVars, S!serverVars, Waiting, PartsWritten, PartsRead, SessionTypes
    <3> QED BY <2>2, <3>1, <3>2 DEF PartsFirst
  <2> QED BY <2>1, <2>2
<1>17. CASE S!SendPiece
  <2>1. Head(pusher) \in Chunk /\ Len(pusher) # 0
    BY <1>17, HeadTail DEF S!SendPiece, SessionTypes
  <2>2. <<Head(pusher)>> \in Seq(Token) /\ \A i \in 1..Len(<<Head(pusher)>>) : <<Head(pusher)>>[i].kind \notin PartKinds
    BY <2>1, ChunkIsToken
  <2>3. Waiting' = Waiting /\ client' = client /\ ~broken /\ ~broken' /\ server' = server
    BY <1>17 DEF S!SendPiece, S!clientVars, S!sendVars, S!serverVars, Waiting, PartsWritten, PartsRead
  <2>4. up' = up \o <<Head(pusher)>>
    BY <1>17, <2>1, AppendJoins, ChunkIsToken DEF S!SendPiece, SessionTypes
  <2>5. client \notin Early \union {"failed"}
    BY <2>1, <2>3 DEF PartsFirst
  <2> QED BY <2>2, <2>3, <2>4, <2>5, PartsAppended
<1>18. CASE S!SendFails
  <2>1. broken' /\ up' = << >>
    BY <1>18 DEF S!SendFails, S!clientVars, S!sendVars, S!serverVars, PartsFirst
  <2> QED BY <2>1 DEF PartsFirst
<1>19. CASE S!ServerReads("c0", "s0", "c0") /\ connState' = "version_sent"
  <2>1. up # << >> /\ Head(up).kind \in PartKinds /\ up' = Tail(up) /\ server' # "closed"
        /\ client' = client /\ broken' = broken /\ pusher' = pusher
    BY <1>19 DEF S!ServerReads, S!clientVars, S!sendVars, S!serverVars, PartKinds
  <2>2. ~broken /\ Waiting \in Nat
    BY <2>1 DEF PartsFirst
  <2>3. Waiting' = Waiting - 1
    BY <1>19, <2>2 DEF S!ServerReads, S!clientVars, S!sendVars, S!serverVars, Waiting, PartsWritten, PartsRead
  <2> QED BY <2>1, <2>3, PartRead
<1>20. CASE S!ServerWrites("s0", "c1", "s0") \/ S!ServerWrites("s1", "s2", "s1") \/ S!ServerWrites("s2", "c2", "s2")
  <2>1. CASE broken
    BY <1>20, <2>1 DEF S!ServerWrites, S!clientVars, S!sendVars, S!serverVars, PartsFirst
  <2>2. CASE ~broken
    <3>1. /\ up' = up /\ ~broken' /\ client' # "failed" /\ server' # "closed"
          /\ client' \in Early => client \in Early /\ pusher' = pusher
      BY <1>20, <2>2 DEF S!ServerWrites, S!clientVars, S!sendVars, S!serverVars, Early, PartsFirst, S!MaySend
    <3>2. Waiting' = Waiting
      BY <1>20 DEF S!ServerWrites, S!clientVars, S!sendVars, S!serverVars, Waiting, PartsWritten, PartsRead, SessionTypes
    <3> QED BY <2>2, <3>1, <3>2 DEF PartsFirst
  <2> QED BY <2>1, <2>2
<1>21. CASE S!ServerReads("c1", "s1", "c1") /\ UNCHANGED connState
  <2>1. up # << >> /\ Head(up).kind \in PartKinds /\ up' = Tail(up) /\ server' # "closed"
        /\ client' = client /\ broken' = broken /\ pusher' = pusher
    BY <1>21 DEF S!ServerReads, S!clientVars, S!sendVars, S!serverVars, PartKinds
  <2>2. ~broken /\ Waiting \in Nat
    BY <2>1 DEF PartsFirst
  <2>3. Waiting' = Waiting - 1
    BY <1>21, <2>2 DEF S!ServerReads, S!clientVars, S!sendVars, S!serverVars, Waiting, PartsWritten, PartsRead
  <2> QED BY <2>1, <2>3, PartRead
<1>22. CASE S!ServerReads("c2", "loop", "c2") /\ connState' = "handshake_done"
  <2>1. up # << >> /\ Head(up).kind \in PartKinds /\ up' = Tail(up) /\ server' # "closed"
        /\ client' = client /\ broken' = broken /\ pusher' = pusher
    BY <1>22 DEF S!ServerReads, S!clientVars, S!sendVars, S!serverVars, PartKinds
  <2>2. ~broken /\ Waiting \in Nat
    BY <2>1 DEF PartsFirst
  <2>3. Waiting' = Waiting - 1
    BY <1>22, <2>2 DEF S!ServerReads, S!clientVars, S!sendVars, S!serverVars, Waiting, PartsWritten, PartsRead
  <2> QED BY <2>1, <2>3, PartRead
<1>23. CASE S!ReadChunk
  <2>1. Len(up) >= 2 /\ up' = SubSeq(up, 3, Len(up)) /\ server = "loop" /\ server' = "loop"
        /\ broken' = broken /\ client' = client /\ pusher' = pusher
    BY <1>23 DEF S!ReadChunk, S!clientVars, S!sendVars, S!serverVars, S!Aligned, S!ChunkThere
  <2>2. ~broken /\ Waiting \in Nat /\ Waiting <= Len(up) /\ client # "failed"
    BY <2>1 DEF PartsFirst
  <2>3. Waiting = 0 /\ Waiting' = Waiting
    BY <2>1, <2>2 DEF Waiting, PartsWritten, PartsRead
  <2>4. Len(up') = Len(up) - 2 /\ \A i \in 1..(Len(up) - 2) : up'[i] = up[2 + i]
    BY <2>1, TwoDropped DEF SessionTypes
  <2>5. client \notin Early
    BY <2>1, <2>2, <2>3 DEF PartsFirst
  <2>6. ASSUME NEW i \in 1..Len(up') PROVE up'[i].kind \notin PartKinds
    BY <2>1, <2>2, <2>3, <2>4 DEF PartsFirst
  <2> QED BY <2>1, <2>2, <2>3, <2>4, <2>5, <2>6 DEF PartsFirst
<1>24. CASE S!Misread
  <2>1. /\ up # << >> /\ up' = << >> /\ server = "loop" /\ server' = "lost" /\ broken' = broken
        /\ client' = client /\ pusher' = pusher
    BY <1>24 DEF S!Misread, S!clientVars, S!sendVars, S!serverVars, S!ChunkThere
  <2>2. ~broken /\ Waiting \in Nat /\ client # "failed"
    BY <2>1 DEF PartsFirst
  <2>3. Waiting = 0 /\ Waiting' = Waiting
    BY <2>1, <2>2 DEF Waiting, PartsWritten, PartsRead
  <2> QED BY <2>1, <2>2, <2>3 DEF PartsFirst
<1>25. CASE S!ServerEnds
  <2>1. broken' /\ up' = << >>
    BY <1>25 DEF S!ServerEnds, S!clientVars, S!sendVars, S!serverVars, PartsFirst
  <2> QED BY <2>1 DEF PartsFirst
<1>26. CASE UNCHANGED S!vars
  BY <1>26 DEF S!vars, S!clientVars, S!sendVars, S!serverVars, PartsFirst, Waiting, PartsWritten, PartsRead
<1> QED BY <1>1, <1>2, <1>3, <1>4, <1>5, <1>6, <1>7, <1>8, <1>9, <1>10, <1>11, <1>12, <1>13, <1>14, <1>15, <1>16, <1>17, <1>18, <1>19, <1>20, <1>21, <1>22, <1>23, <1>24, <1>25, <1>26
     DEF S!Next, S!ClientThread, S!ClientHandshake, S!ServerThread, S!ServerHandshake

\* One token appended.
LEMMA OneJoined ==
  ASSUME NEW X, NEW s \in Seq(X), NEW a \in X
  PROVE  /\ s \o <<a>> \in Seq(X) /\ Len(s \o <<a>>) = Len(s) + 1
         /\ \A i \in 1..Len(s) : (s \o <<a>>)[i] = s[i]
         /\ (s \o <<a>>)[Len(s) + 1] = a
OBVIOUS

\* Two tokens appended.
LEMMA TwoJoined ==
  ASSUME NEW X, NEW s \in Seq(X), NEW a \in X, NEW b \in X
  PROVE  /\ s \o <<a, b>> \in Seq(X) /\ Len(s \o <<a, b>>) = Len(s) + 2
         /\ \A i \in 1..Len(s) : (s \o <<a, b>>)[i] = s[i]
         /\ (s \o <<a, b>>)[Len(s) + 1] = a
         /\ (s \o <<a, b>>)[Len(s) + 2] = b
OBVIOUS

\* A message assembled leaves something assembled.
LEMMA Longer ==
  ASSUME NEW X, NEW s \in Seq(X), NEW x \in X
  PROVE  Append(s, x) # << >> /\ Len(Append(s, x)) = Len(s) + 1
<1>1. Len(Append(s, x)) = Len(s) + 1 /\ Len(s) \in Nat
  OBVIOUS
<1>2. Len(<< >>) = 0
  OBVIOUS
<1> QED BY <1>1, <1>2

\* what is written later stands behind connect
LEMMA FirstStays ==
  ASSUME SessionTypes, PartsFirst, FirstIsConnect, NEW t \in Seq(Token), up' = up \o t, ~broken,
         client \notin Early, server' = server, Waiting' = Waiting, got' = got,
         published' = published, chunkIn' = chunkIn, connState' = connState
  PROVE  FirstIsConnect'
<1>1. /\ Len(up') = Len(up) + Len(t) /\ Len(up) \in Nat /\ Len(t) \in Nat
      /\ \A i \in 1..Len(up) : up'[i] = up[i]
  BY Joined DEF SessionTypes
<1>2. Waiting \in Nat
  BY DEF PartsFirst
<1>3. CASE got # << >>
  BY <1>3 DEF FirstIsConnect
<1>4. CASE got = << >>
  <2>1. /\ ~published /\ chunkIn = S!ServerChunk /\ Len(up) >= Waiting + 2
        /\ up[Waiting + 1] = S!Header(0, S!ConnectLen, "connect")
        /\ up[Waiting + 2] = S!Data(S!ConnectLen, "connect")
    BY <1>4 DEF FirstIsConnect
  <2>2. up'[Waiting + 1] = up[Waiting + 1] /\ up'[Waiting + 2] = up[Waiting + 2]
    BY <1>1, <1>2, <2>1
  <2> HIDE DEF Waiting
  <2>3. Len(up') >= Waiting' + 2
    BY <1>1, <1>2, <2>1
  <2> QED BY <1>4, <2>1, <2>2, <2>3 DEF FirstIsConnect
<1> QED BY <1>3, <1>4

\* a part of the handshake is read in front of it
LEMMA FirstMoves ==
  ASSUME SessionTypes, PartsFirst, PartsFirst', FirstIsConnect, server \in Handshaking,
         up # << >>, Head(up).kind \in PartKinds, up' = Tail(up), client' = client,
         broken' = broken, Waiting' = Waiting - 1, got' = got, published' = published,
         chunkIn' = chunkIn
  PROVE  FirstIsConnect'
<1>1. /\ Len(up') = Len(up) - 1 /\ Len(up) \in Nat \ {0} /\ Head(up) = up[1]
      /\ \A i \in 1..(Len(up) - 1) : up'[i] = up[1 + i]
  BY HeadTail DEF SessionTypes
<1>2. ~broken
  BY DEF PartsFirst
<1>3. Waiting \in Nat /\ Waiting' \in Nat
  BY <1>2 DEF PartsFirst
<1>4. got = << >>
  BY DEF FirstIsConnect
<1>5. ASSUME client \notin Early
      PROVE  /\ Len(up') >= Waiting' + 2
             /\ up'[Waiting' + 1] = S!Header(0, S!ConnectLen, "connect")
             /\ up'[Waiting' + 2] = S!Data(S!ConnectLen, "connect")
  <2>1. /\ Len(up) >= Waiting + 2
        /\ up[Waiting + 1] = S!Header(0, S!ConnectLen, "connect")
        /\ up[Waiting + 2] = S!Data(S!ConnectLen, "connect")
    BY <1>2, <1>4, <1>5 DEF FirstIsConnect
  <2> HIDE DEF Waiting
  <2>2. up'[Waiting' + 1] = up[Waiting + 1] /\ up'[Waiting' + 2] = up[Waiting + 2]
    BY <1>1, <1>3, <2>1
  <2> QED BY <1>1, <1>3, <2>1, <2>2
<1> QED BY <1>4, <1>5 DEF FirstIsConnect

\* Every step keeps connect the first message.
LEMMA FirstKept ==
  SessionTypes /\ SessionTypes' /\ PartsFirst /\ PartsFirst' /\ FirstIsConnect
  /\ [S!Next]_(S!vars)
    => FirstIsConnect'
<1> SUFFICES ASSUME SessionTypes /\ SessionTypes' /\ PartsFirst /\ PartsFirst' /\ FirstIsConnect, [S!Next]_(S!vars) PROVE FirstIsConnect'
  OBVIOUS
<1>1. CASE S!Break
  <2>1. broken' /\ got' = got /\ published' = published /\ chunkIn' = chunkIn
        /\ connState' = connState /\ server' = server
    BY <1>1 DEF S!Break, S!clientVars, S!sendVars, S!serverVars
  <2> QED BY <2>1 DEF FirstIsConnect
<1>2. CASE S!ClientFails
  <2>1. broken' /\ got' = got /\ published' = published /\ chunkIn' = chunkIn
        /\ connState' = connState /\ server' = server
    BY <1>2 DEF S!ClientFails, S!clientVars, S!sendVars, S!serverVars
  <2> QED BY <2>1 DEF FirstIsConnect
<1>3. CASE S!Writes("c0", "c1", <<S!Part("c0")>>) /\ UNCHANGED <<streamId, sent>>
  <2>1. /\ got' = got /\ published' = published /\ chunkIn' = chunkIn /\ connState' = connState
        /\ server' \in Handshaking => server \in Handshaking
        /\ broken' = broken
        /\ client' \in Early \/ (client \notin Early /\ up' = up)
    BY <1>3 DEF S!Writes, S!clientVars, S!sendVars, S!serverVars, Handshaking, Early, S!MaySend
  <2>2. CASE client' \in Early \/ broken
    BY <2>1, <2>2 DEF FirstIsConnect
  <2>3. CASE client' \notin Early /\ ~broken
    <3>1. Waiting' = Waiting
      BY <1>3, <2>1, <2>3 DEF S!Writes, S!clientVars, S!sendVars, S!serverVars, Waiting, PartsWritten, PartsRead, SessionTypes, Early
    <3> HIDE DEF Waiting
    <3> QED BY <2>1, <2>3, <3>1 DEF FirstIsConnect
  <2> QED BY <2>2, <2>3
<1>4. CASE S!Writes("c1", "s0", <<S!Part("c1")>>) /\ UNCHANGED <<streamId, sent>>
  <2>1. /\ got' = got /\ published' = published /\ chunkIn' = chunkIn /\ connState' = connState
        /\ server' \in Handshaking => server \in Handshaking
        /\ broken' = broken
        /\ client' \in Early \/ (client \notin Early /\ up' = up)
    BY <1>4 DEF S!Writes, S!clientVars, S!sendVars, S!serverVars, Handshaking, Early, S!MaySend
  <2>2. CASE client' \in Early \/ broken
    BY <2>1, <2>2 DEF FirstIsConnect
  <2>3. CASE client' \notin Early /\ ~broken
    <3>1. Waiting' = Waiting
      BY <1>4, <2>1, <2>3 DEF S!Writes, S!clientVars, S!sendVars, S!serverVars, Waiting, PartsWritten, PartsRead, SessionTypes, Early
    <3> HIDE DEF Waiting
    <3> QED BY <2>1, <2>3, <3>1 DEF FirstIsConnect
  <2> QED BY <2>2, <2>3
<1>5. CASE S!Reads("s0", "s1", "s0") \/ S!Reads("s1", "s2", "s1") \/ S!Reads("s2", "c2", "s2")
  <2>1. /\ got' = got /\ published' = published /\ chunkIn' = chunkIn /\ connState' = connState
        /\ server' \in Handshaking => server \in Handshaking
        /\ broken' = broken
        /\ client' \in Early \/ (client \notin Early /\ up' = up)
    BY <1>5 DEF S!Reads, S!clientVars, S!sendVars, S!serverVars, Handshaking, Early, S!MaySend
  <2>2. CASE client' \in Early \/ broken
    BY <2>1, <2>2 DEF FirstIsConnect
  <2>3. CASE client' \notin Early /\ ~broken
    <3>1. Waiting' = Waiting
      BY <1>5, <2>1, <2>3 DEF S!Reads, S!clientVars, S!sendVars, S!serverVars, Waiting, PartsWritten, PartsRead, SessionTypes, Early
    <3> HIDE DEF Waiting
    <3> QED BY <2>1, <2>3, <3>1 DEF FirstIsConnect
  <2> QED BY <2>2, <2>3
<1>6. CASE S!Writes("c2", "connect", <<S!Part("c2")>>) /\ UNCHANGED <<streamId, sent>>
  <2>1. /\ got' = got /\ published' = published /\ chunkIn' = chunkIn /\ connState' = connState
        /\ server' \in Handshaking => server \in Handshaking
        /\ broken' = broken
        /\ client' \in Early \/ (client \notin Early /\ up' = up)
    BY <1>6 DEF S!Writes, S!clientVars, S!sendVars, S!serverVars, Handshaking, Early, S!MaySend
  <2>2. CASE client' \in Early \/ broken
    BY <2>1, <2>2 DEF FirstIsConnect
  <2>3. CASE client' \notin Early /\ ~broken
    <3>1. Waiting' = Waiting
      BY <1>6, <2>1, <2>3 DEF S!Writes, S!clientVars, S!sendVars, S!serverVars, Waiting, PartsWritten, PartsRead, SessionTypes, Early
    <3> HIDE DEF Waiting
    <3> QED BY <2>1, <2>3, <3>1 DEF FirstIsConnect
  <2> QED BY <2>2, <2>3
<1>7. CASE S!Connect
  <2> DEFINE h == S!Header(0, S!ConnectLen, "connect")
             d == S!Data(S!ConnectLen, "connect")
  <2>1. h \in Token /\ d \in Token
    BY Tokens, CommandLengths DEF Names, Kinds
  <2>2. /\ up' = up \o <<h, d>> /\ ~broken /\ client \in Early
        /\ server' = server /\ got' = got
        /\ published' = published /\ chunkIn' = chunkIn /\ connState' = connState
    BY <1>7 DEF S!Connect, S!Writes, S!clientVars, S!sendVars, S!serverVars, Early, S!Whole
  <2>3. Waiting' = Waiting
    BY <1>7 DEF S!Connect, S!Writes, S!clientVars, S!sendVars, S!serverVars, Waiting, PartsWritten, PartsRead
  <2>4. Len(up) = Waiting /\ up \in Seq(Token) /\ Len(up) \in Nat
    BY <2>2 DEF PartsFirst, SessionTypes
  <2> HIDE DEF Waiting, h, d
  <2>5. Len(up') = Len(up) + 2 /\ up'[Len(up) + 1] = h /\ up'[Len(up) + 2] = d
    BY <2>1, <2>2, <2>4, TwoJoined
  <2>6. Len(up') >= Waiting' + 2 /\ up'[Waiting' + 1] = h /\ up'[Waiting' + 2] = d
    BY <2>3, <2>4, <2>5
  <2> QED BY <2>2, <2>6 DEF FirstIsConnect, h, d
<1>8. CASE S!CreateStream
  <2>1. S!Whole(S!CreateStreamLen, "createStream") \in Seq(Token)
    BY Tokens, CommandLengths DEF Names, Kinds
  <2>2. /\ up' = up \o S!Whole(S!CreateStreamLen, "createStream") /\ ~broken /\ client \notin Early /\ server' = server /\ got' = got
        /\ published' = published /\ chunkIn' = chunkIn /\ connState' = connState
    BY <1>8 DEF S!CreateStream, S!Writes, S!clientVars, S!sendVars, S!serverVars, Early
  <2>3. Waiting' = Waiting
    BY <1>8 DEF S!CreateStream, S!Writes, S!clientVars, S!sendVars, S!serverVars, Waiting, PartsWritten, PartsRead
  <2> QED BY <2>1, <2>2, <2>3, FirstStays
<1>9. CASE S!Publish
  <2>1. S!Whole(S!PublishLen, "publish") \in Seq(Token)
    BY Tokens, CommandLengths DEF Names, Kinds
  <2>2. /\ up' = up \o S!Whole(S!PublishLen, "publish") /\ ~broken /\ client \notin Early /\ server' = server /\ got' = got
        /\ published' = published /\ chunkIn' = chunkIn /\ connState' = connState
    BY <1>9 DEF S!Publish, S!Writes, S!clientVars, S!sendVars, S!serverVars, Early
  <2>3. Waiting' = Waiting
    BY <1>9 DEF S!Publish, S!Writes, S!clientVars, S!sendVars, S!serverVars, Waiting, PartsWritten, PartsRead
  <2> QED BY <2>1, <2>2, <2>3, FirstStays
<1>10. CASE S!AwaitReply
  <2>1. /\ got' = got /\ published' = published /\ chunkIn' = chunkIn /\ connState' = connState
        /\ server' \in Handshaking => server \in Handshaking
        /\ broken' = broken
        /\ client' \in Early \/ (client \notin Early /\ up' = up)
    BY <1>10 DEF S!AwaitReply, S!ReadAvailable, S!clientVars, S!sendVars, S!serverVars, Handshaking, Early, S!MaySend
  <2>2. CASE client' \in Early \/ broken
    BY <2>1, <2>2 DEF FirstIsConnect
  <2>3. CASE client' \notin Early /\ ~broken
    <3>1. Waiting' = Waiting
      BY <1>10, <2>1, <2>3 DEF S!AwaitReply, S!ReadAvailable, S!clientVars, S!sendVars, S!serverVars, Waiting, PartsWritten, PartsRead, SessionTypes, Early
    <3> HIDE DEF Waiting
    <3> QED BY <2>1, <2>3, <3>1 DEF FirstIsConnect
  <2> QED BY <2>2, <2>3
<1>11. CASE S!SetChunkHeader
  <2>1. <<S!Header(0, 4, "setChunkSize")>> \in Seq(Token)
    BY Tokens DEF Names, Kinds
  <2>2. /\ up' = up \o <<S!Header(0, 4, "setChunkSize")>> /\ ~broken /\ client \notin Early /\ server' = server /\ got' = got
        /\ published' = published /\ chunkIn' = chunkIn /\ connState' = connState
    BY <1>11 DEF S!SetChunkHeader, S!Writes, S!clientVars, S!sendVars, S!serverVars, Early
  <2>3. Waiting' = Waiting
    BY <1>11 DEF S!SetChunkHeader, S!Writes, S!clientVars, S!sendVars, S!serverVars, Waiting, PartsWritten, PartsRead
  <2> QED BY <2>1, <2>2, <2>3, FirstStays
<1>12. CASE S!SetChunkData
  <2>1. <<S!Data(4, "setChunkSize")>> \in Seq(Token)
    BY Tokens DEF Names, Kinds
  <2>2. /\ up' = up \o <<S!Data(4, "setChunkSize")>> /\ ~broken /\ client \notin Early /\ server' = server /\ got' = got
        /\ published' = published /\ chunkIn' = chunkIn /\ connState' = connState
    BY <1>12 DEF S!SetChunkData, S!Writes, S!clientVars, S!sendVars, S!serverVars, Early
  <2>3. Waiting' = Waiting
    BY <1>12 DEF S!SetChunkData, S!Writes, S!clientVars, S!sendVars, S!serverVars, Waiting, PartsWritten, PartsRead
  <2> QED BY <2>1, <2>2, <2>3, FirstStays
<1>13. CASE S!UseChunk
  <2>1. /\ got' = got /\ published' = published /\ chunkIn' = chunkIn /\ connState' = connState
        /\ server' \in Handshaking => server \in Handshaking
        /\ broken' = broken
        /\ client' \in Early \/ (client \notin Early /\ up' = up)
    BY <1>13 DEF S!UseChunk, S!clientVars, S!sendVars, S!serverVars, Handshaking, Early, S!MaySend
  <2>2. CASE client' \in Early \/ broken
    BY <2>1, <2>2 DEF FirstIsConnect
  <2>3. CASE client' \notin Early /\ ~broken
    <3>1. Waiting' = Waiting
      BY <1>13, <2>1, <2>3 DEF S!UseChunk, S!clientVars, S!sendVars, S!serverVars, Waiting, PartsWritten, PartsRead, SessionTypes, Early
    <3> HIDE DEF Waiting
    <3> QED BY <2>1, <2>3, <3>1 DEF FirstIsConnect
  <2> QED BY <2>2, <2>3
<1>14. CASE S!AacHeader
  <2>1. <<S!Header(0, 4, "audio")>> \in Seq(Token)
    BY Tokens DEF Names, Kinds
  <2>2. /\ up' = up \o <<S!Header(0, 4, "audio")>> /\ ~broken /\ client \notin Early /\ server' = server /\ got' = got
        /\ published' = published /\ chunkIn' = chunkIn /\ connState' = connState
    BY <1>14 DEF S!AacHeader, S!Writes, S!clientVars, S!sendVars, S!serverVars, Early
  <2>3. Waiting' = Waiting
    BY <1>14 DEF S!AacHeader, S!Writes, S!clientVars, S!sendVars, S!serverVars, Waiting, PartsWritten, PartsRead
  <2> QED BY <2>1, <2>2, <2>3, FirstStays
<1>15. CASE S!AacData
  <2>1. <<S!Data(4, "audio")>> \in Seq(Token)
    BY Tokens DEF Names, Kinds
  <2>2. /\ up' = up \o <<S!Data(4, "audio")>> /\ ~broken /\ client \notin Early /\ server' = server /\ got' = got
        /\ published' = published /\ chunkIn' = chunkIn /\ connState' = connState
    BY <1>15 DEF S!AacData, S!Writes, S!clientVars, S!sendVars, S!serverVars, Early
  <2>3. Waiting' = Waiting
    BY <1>15 DEF S!AacData, S!Writes, S!clientVars, S!sendVars, S!serverVars, Waiting, PartsWritten, PartsRead
  <2> QED BY <2>1, <2>2, <2>3, FirstStays
<1>16. ASSUME NEW n \in FrameLens, NEW ts \in Timestamps, S!BeginFrame(n, ts) PROVE FirstIsConnect'
  <2>1. /\ got' = got /\ published' = published /\ chunkIn' = chunkIn /\ connState' = connState
        /\ server' \in Handshaking => server \in Handshaking
        /\ broken' = broken
        /\ client' \in Early \/ (client \notin Early /\ up' = up)
    BY <1>16 DEF S!BeginFrame, S!clientVars, S!sendVars, S!serverVars, Handshaking, Early, S!MaySend
  <2>2. CASE client' \in Early \/ broken
    BY <2>1, <2>2 DEF FirstIsConnect
  <2>3. CASE client' \notin Early /\ ~broken
    <3>1. Waiting' = Waiting
      BY <1>16, <2>1, <2>3 DEF S!BeginFrame, S!clientVars, S!sendVars, S!serverVars, Waiting, PartsWritten, PartsRead, SessionTypes, Early
    <3> HIDE DEF Waiting
    <3> QED BY <2>1, <2>3, <3>1 DEF FirstIsConnect
  <2> QED BY <2>2, <2>3
<1>17. CASE S!SendPiece
  <2>1. Head(pusher) \in Token /\ pusher # << >>
    BY <1>17, HeadTail, ChunkIsToken DEF S!SendPiece, SessionTypes
  <2>2. <<Head(pusher)>> \in Seq(Token)
    BY <2>1
  <2>3. /\ up' = up \o <<Head(pusher)>> /\ ~broken /\ server' = server /\ got' = got
        /\ published' = published /\ chunkIn' = chunkIn /\ connState' = connState
    BY <1>17, <2>1, AppendJoins DEF S!SendPiece, S!clientVars, S!sendVars, S!serverVars, SessionTypes
  <2>4. client \notin Early
    BY <2>1, <2>3 DEF PartsFirst
  <2>5. Waiting' = Waiting
    BY <1>17 DEF S!SendPiece, S!clientVars, S!sendVars, S!serverVars, Waiting, PartsWritten, PartsRead
  <2> QED BY <2>2, <2>3, <2>4, <2>5, FirstStays
<1>18. CASE S!SendFails
  <2>1. broken' /\ got' = got /\ published' = published /\ chunkIn' = chunkIn
        /\ connState' = connState /\ server' = server
    BY <1>18 DEF S!SendFails, S!clientVars, S!sendVars, S!serverVars
  <2> QED BY <2>1 DEF FirstIsConnect
<1>19. CASE S!ServerReads("c0", "s0", "c0") /\ connState' = "version_sent"
  <2>1. up # << >> /\ Head(up).kind \in PartKinds /\ up' = Tail(up) /\ server \in Handshaking
        /\ client' = client /\ broken' = broken /\ got' = got /\ published' = published
        /\ chunkIn' = chunkIn
    BY <1>19 DEF S!ServerReads, S!clientVars, S!sendVars, S!serverVars, PartKinds, Handshaking
  <2>2. ~broken /\ Waiting \in Nat
    BY <2>1 DEF PartsFirst
  <2>3. Waiting' = Waiting - 1
    BY <1>19, <2>2 DEF S!ServerReads, S!clientVars, S!sendVars, S!serverVars, Waiting, PartsWritten, PartsRead
  <2> QED BY <2>1, <2>3, FirstMoves
<1>20. CASE S!ServerWrites("s0", "c1", "s0") \/ S!ServerWrites("s1", "s2", "s1") \/ S!ServerWrites("s2", "c2", "s2")
  <2>1. /\ got' = got /\ published' = published /\ chunkIn' = chunkIn /\ connState' = connState
        /\ server' \in Handshaking => server \in Handshaking
        /\ broken' = broken
        /\ client' \in Early \/ (client \notin Early /\ up' = up)
    BY <1>20 DEF S!ServerWrites, S!clientVars, S!sendVars, S!serverVars, Handshaking, Early, S!MaySend
  <2>2. CASE client' \in Early \/ broken
    BY <2>1, <2>2 DEF FirstIsConnect
  <2>3. CASE client' \notin Early /\ ~broken
    <3>1. Waiting' = Waiting
      BY <1>20, <2>1, <2>3 DEF S!ServerWrites, S!clientVars, S!sendVars, S!serverVars, Waiting, PartsWritten, PartsRead, SessionTypes, Early
    <3> HIDE DEF Waiting
    <3> QED BY <2>1, <2>3, <3>1 DEF FirstIsConnect
  <2> QED BY <2>2, <2>3
<1>21. CASE S!ServerReads("c1", "s1", "c1") /\ UNCHANGED connState
  <2>1. up # << >> /\ Head(up).kind \in PartKinds /\ up' = Tail(up) /\ server \in Handshaking
        /\ client' = client /\ broken' = broken /\ got' = got /\ published' = published
        /\ chunkIn' = chunkIn
    BY <1>21 DEF S!ServerReads, S!clientVars, S!sendVars, S!serverVars, PartKinds, Handshaking
  <2>2. ~broken /\ Waiting \in Nat
    BY <2>1 DEF PartsFirst
  <2>3. Waiting' = Waiting - 1
    BY <1>21, <2>2 DEF S!ServerReads, S!clientVars, S!sendVars, S!serverVars, Waiting, PartsWritten, PartsRead
  <2> QED BY <2>1, <2>3, FirstMoves
<1>22. CASE S!ServerReads("c2", "loop", "c2") /\ connState' = "handshake_done"
  <2>1. up # << >> /\ Head(up).kind \in PartKinds /\ up' = Tail(up) /\ server \in Handshaking
        /\ client' = client /\ broken' = broken /\ got' = got /\ published' = published
        /\ chunkIn' = chunkIn
    BY <1>22 DEF S!ServerReads, S!clientVars, S!sendVars, S!serverVars, PartKinds, Handshaking
  <2>2. ~broken /\ Waiting \in Nat
    BY <2>1 DEF PartsFirst
  <2>3. Waiting' = Waiting - 1
    BY <1>22, <2>2 DEF S!ServerReads, S!clientVars, S!sendVars, S!serverVars, Waiting, PartsWritten, PartsRead
  <2> QED BY <2>1, <2>3, FirstMoves
<1>23. CASE S!ReadChunk
  <2>1. Len(up) >= 2 /\ up # << >> /\ server = "loop" /\ server' = "loop" /\ broken' = broken
        /\ client' = client /\ Head(up) = up[1]
    BY <1>23 DEF S!ReadChunk, S!clientVars, S!sendVars, S!serverVars, S!Aligned, S!ChunkThere, SessionTypes
  <2>2. ~broken /\ Waiting \in Nat /\ Waiting <= Len(up) /\ client # "failed"
    BY <2>1 DEF PartsFirst
  <2>3. Waiting = 0
    BY <2>1, <2>2 DEF Waiting, PartsWritten, PartsRead
  <2>4. client \notin Early
    BY <2>1, <2>2, <2>3 DEF PartsFirst
  <2>7. \A x \in Names : Append(got, x) # << >>
    <3> TAKE x \in Names
    <3>1. got \in Seq(Names)
      BY DEF SessionTypes
    <3> QED BY <3>1, Longer
  <2>8. S!HeaderType(Head(up)) \in Names
    <3>1. up[1] \in Token
      BY <2>1 DEF SessionTypes
    <3>2. up[1].type \in Names
      BY <3>1 DEF Token
    <3> QED BY <2>1, <3>2 DEF SessionTypes, S!HeaderType
  <2>5. CASE got # << >>
    <3>1. connState = "connected"
      BY <2>5 DEF FirstIsConnect
    <3>2. connState' = "connected"
      BY <1>23, <3>1 DEF S!ReadChunk, S!Handle
    <3>3. got' # << >>
      BY <1>23, <2>5, <2>7, <2>8 DEF S!ReadChunk, S!Handle
    <3> QED BY <2>1, <3>2, <3>3 DEF FirstIsConnect, Handshaking
  <2>6. CASE got = << >>
    <3>1. up[1] = S!Header(0, S!ConnectLen, "connect") /\ chunkIn = S!ServerChunk
      BY <2>2, <2>3, <2>4, <2>6 DEF FirstIsConnect
    <3>2. S!HeaderLen(Head(up)) = S!ConnectLen /\ S!HeaderType(Head(up)) = "connect"
      BY <2>1, <3>1 DEF S!HeaderLen, S!HeaderType, S!Header
    <3>3. S!ChunkData(Head(up)) = S!ConnectLen
      BY <3>1, <3>2, CommandLengths DEF S!ChunkData, S!Smaller
    <3>4. S!Handle("connect")
      BY <1>23, <3>2, <3>3, CommandLengths DEF S!ReadChunk
    <3>5. S!Handled("connect")
      BY DEF S!Handled, S!Parses, S!Amf
    <3>6. connState' = "connected" /\ got' = Append(got, "connect")
      BY <3>4, <3>5 DEF S!Handle
    <3>7. got' # << >>
      BY <3>6, <2>7 DEF Names, Kinds
    <3> QED BY <2>1, <3>6, <3>7 DEF FirstIsConnect, Handshaking
  <2> QED BY <2>5, <2>6
<1>24. CASE S!Misread
  <2>1. /\ up # << >> /\ server = "loop" /\ server' = "lost" /\ broken' = broken
        /\ client' = client /\ got' = got /\ published' = published
        /\ chunkIn' = chunkIn /\ connState' = connState
    BY <1>24 DEF S!Misread, S!clientVars, S!sendVars, S!serverVars, S!ChunkThere
  <2>2. got # << >>
    <3> SUFFICES ASSUME got = << >> PROVE FALSE
      OBVIOUS
    <3>1. ~broken /\ Waiting \in Nat /\ Waiting <= Len(up) /\ client # "failed" /\ Len(up) \in Nat \ {0}
          /\ Head(up) = up[1]
      BY <2>1, HeadTail DEF PartsFirst, SessionTypes
    <3>2. Waiting = 0
      BY <2>1, <3>1 DEF Waiting, PartsWritten, PartsRead
    <3>3. client \notin Early
      BY <3>1, <3>2 DEF PartsFirst
    <3>4. /\ up[1] = S!Header(0, S!ConnectLen, "connect") /\ up[2] = S!Data(S!ConnectLen, "connect")
          /\ Len(up) >= 2 /\ chunkIn = S!ServerChunk
      BY <3>1, <3>2, <3>3 DEF FirstIsConnect
    <3>5. Head(up).kind = "header" /\ Head(up).fmt = 0 /\ Head(up).len = S!ConnectLen
          /\ up[2].kind = "data" /\ up[2].len = S!ConnectLen
      BY <3>1, <3>4 DEF S!Header, S!Data
    <3>6. S!ChunkData(Head(up)) = S!ConnectLen
      BY <3>4, <3>5, CommandLengths DEF S!ChunkData, S!Smaller, S!HeaderLen
    <3> QED BY <1>24, <2>1, <3>4, <3>5, <3>6 DEF S!Misread, S!Aligned, S!ChunkThere
  <2> QED BY <2>1, <2>2 DEF FirstIsConnect, Handshaking
<1>25. CASE S!ServerEnds
  <2>1. broken' /\ got' = got /\ ~published' /\ chunkIn' = chunkIn
        /\ connState' = connState /\ server' \notin Handshaking
    BY <1>25 DEF S!ServerEnds, S!clientVars, S!sendVars, S!serverVars, Handshaking
  <2> QED BY <2>1 DEF FirstIsConnect
<1>26. CASE UNCHANGED S!vars
  BY <1>26 DEF S!vars, S!clientVars, S!sendVars, S!serverVars, FirstIsConnect, Waiting, PartsWritten, PartsRead
<1> QED BY <1>1, <1>2, <1>3, <1>4, <1>5, <1>6, <1>7, <1>8, <1>9, <1>10, <1>11, <1>12, <1>13, <1>14, <1>15, <1>16, <1>17, <1>18, <1>19, <1>20, <1>21, <1>22, <1>23, <1>24, <1>25, <1>26
     DEF S!Next, S!ClientThread, S!ClientHandshake, S!ServerThread, S!ServerHandshake

\* a message is written: no command after SET_CHUNK_SIZE
LEMMA SentGrows ==
  ASSUME SessionTypes, SizeAfterCommands, NEW x \in Names, sent' = Append(sent, x),
         x \notin Commands \/ client \notin Past \union {"failed"},
         client \in Past \union {"failed"} \/ x = "setChunkSize"
            => client' \in Past \union {"failed"},
         got' = got, chunkIn' = chunkIn
  PROVE  SizeAfterCommands'
<1>1. /\ Len(sent) \in Nat /\ Len(sent') = Len(sent) + 1 /\ sent'[Len(sent) + 1] = x
      /\ \A i \in 1..Len(sent) : sent'[i] = sent[i]
  BY DEF SessionTypes
<1>2. ASSUME NEW i \in 1..Len(sent'), sent'[i] = "setChunkSize"
      PROVE  client' \in Past \union {"failed"}
  <2>1. CASE i \in 1..Len(sent)
    BY <1>1, <1>2, <2>1 DEF SizeAfterCommands
  <2>2. CASE i = Len(sent) + 1
    BY <1>1, <1>2, <2>2
  <2> QED BY <1>1, <2>1, <2>2
<1>3. ASSUME NEW i \in 1..Len(sent'), NEW j \in 1..Len(sent'), i < j, sent'[i] = "setChunkSize"
      PROVE  sent'[j] \notin Commands
  <2>1. i \in 1..Len(sent) /\ sent[i] = "setChunkSize"
    BY <1>1, <1>3
  <2>2. CASE j \in 1..Len(sent)
    BY <1>1, <1>3, <2>1, <2>2 DEF SizeAfterCommands
  <2>3. CASE j = Len(sent) + 1
    <3>1. client \in Past \union {"failed"}
      BY <2>1 DEF SizeAfterCommands
    <3> QED BY <1>1, <2>3, <3>1
  <2> QED BY <1>1, <2>2, <2>3
<1> QED BY <1>2, <1>3 DEF SizeAfterCommands

\* Every step keeps the commands before SET_CHUNK_SIZE.
LEMMA SizeKept ==
  SessionTypes /\ SizeAfterCommands /\ [S!Next]_(S!vars)
    => SizeAfterCommands'
<1> SUFFICES ASSUME SessionTypes /\ SizeAfterCommands, [S!Next]_(S!vars) PROVE SizeAfterCommands'
  OBVIOUS
<1>1. CASE S!Break
  BY <1>1 DEF S!Break, S!clientVars, S!sendVars, S!serverVars, SizeAfterCommands, Past
<1>2. CASE S!ClientFails
  BY <1>2 DEF S!ClientFails, S!clientVars, S!sendVars, S!serverVars, SizeAfterCommands, Past
<1>3. CASE S!Writes("c0", "c1", <<S!Part("c0")>>) /\ UNCHANGED <<streamId, sent>>
  BY <1>3 DEF S!Writes, S!clientVars, S!sendVars, S!serverVars, SizeAfterCommands, Past
<1>4. CASE S!Writes("c1", "s0", <<S!Part("c1")>>) /\ UNCHANGED <<streamId, sent>>
  BY <1>4 DEF S!Writes, S!clientVars, S!sendVars, S!serverVars, SizeAfterCommands, Past
<1>5. CASE S!Reads("s0", "s1", "s0") \/ S!Reads("s1", "s2", "s1") \/ S!Reads("s2", "c2", "s2")
  BY <1>5 DEF S!Reads, S!clientVars, S!sendVars, S!serverVars, SizeAfterCommands, Past
<1>6. CASE S!Writes("c2", "connect", <<S!Part("c2")>>) /\ UNCHANGED <<streamId, sent>>
  BY <1>6 DEF S!Writes, S!clientVars, S!sendVars, S!serverVars, SizeAfterCommands, Past
<1>7. CASE S!Connect
  <2>1. "connect" \in Names
    BY DEF Names, Kinds
  <2>2. sent' = Append(sent, "connect") /\ got' = got /\ chunkIn' = chunkIn
    BY <1>7 DEF S!Connect, S!Writes, S!clientVars, S!sendVars, S!serverVars
  <2>3. /\ "connect" \notin Commands \/ client \notin Past \union {"failed"}
        /\ client \in Past \union {"failed"} \/ "connect" = "setChunkSize"
            => client' \in Past \union {"failed"}
    BY <1>7 DEF S!Connect, S!Writes, S!clientVars, S!sendVars, S!serverVars, Past, Commands
  <2> QED BY <2>1, <2>2, <2>3, SentGrows
<1>8. CASE S!CreateStream
  <2>1. "createStream" \in Names
    BY DEF Names, Kinds
  <2>2. sent' = Append(sent, "createStream") /\ got' = got /\ chunkIn' = chunkIn
    BY <1>8 DEF S!CreateStream, S!Writes, S!clientVars, S!sendVars, S!serverVars
  <2>3. /\ "createStream" \notin Commands \/ client \notin Past \union {"failed"}
        /\ client \in Past \union {"failed"} \/ "createStream" = "setChunkSize"
            => client' \in Past \union {"failed"}
    BY <1>8 DEF S!CreateStream, S!Writes, S!clientVars, S!sendVars, S!serverVars, Past, Commands
  <2> QED BY <2>1, <2>2, <2>3, SentGrows
<1>9. CASE S!Publish
  <2>1. "publish" \in Names
    BY DEF Names, Kinds
  <2>2. sent' = Append(sent, "publish") /\ got' = got /\ chunkIn' = chunkIn
    BY <1>9 DEF S!Publish, S!Writes, S!clientVars, S!sendVars, S!serverVars
  <2>3. /\ "publish" \notin Commands \/ client \notin Past \union {"failed"}
        /\ client \in Past \union {"failed"} \/ "publish" = "setChunkSize"
            => client' \in Past \union {"failed"}
    BY <1>9 DEF S!Publish, S!Writes, S!clientVars, S!sendVars, S!serverVars, Past, Commands
  <2> QED BY <2>1, <2>2, <2>3, SentGrows
<1>10. CASE S!AwaitReply
  BY <1>10 DEF S!AwaitReply, S!ReadAvailable, S!clientVars, S!sendVars, S!serverVars, SizeAfterCommands, Past
<1>11. CASE S!SetChunkHeader
  BY <1>11 DEF S!SetChunkHeader, S!Writes, S!clientVars, S!sendVars, S!serverVars, SizeAfterCommands, Past
<1>12. CASE S!SetChunkData
  <2>1. "setChunkSize" \in Names
    BY DEF Names, Kinds
  <2>2. sent' = Append(sent, "setChunkSize") /\ got' = got /\ chunkIn' = chunkIn
    BY <1>12 DEF S!SetChunkData, S!Writes, S!clientVars, S!sendVars, S!serverVars
  <2>3. /\ "setChunkSize" \notin Commands \/ client \notin Past \union {"failed"}
        /\ client \in Past \union {"failed"} \/ "setChunkSize" = "setChunkSize"
            => client' \in Past \union {"failed"}
    BY <1>12 DEF S!SetChunkData, S!Writes, S!clientVars, S!sendVars, S!serverVars, Past, Commands
  <2> QED BY <2>1, <2>2, <2>3, SentGrows
<1>13. CASE S!UseChunk
  BY <1>13 DEF S!UseChunk, S!clientVars, S!sendVars, S!serverVars, SizeAfterCommands, Past
<1>14. CASE S!AacHeader
  BY <1>14 DEF S!AacHeader, S!Writes, S!clientVars, S!sendVars, S!serverVars, SizeAfterCommands, Past
<1>15. CASE S!AacData
  <2>1. "audio" \in Names
    BY DEF Names, Kinds
  <2>2. sent' = Append(sent, "audio") /\ got' = got /\ chunkIn' = chunkIn
    BY <1>15 DEF S!AacData, S!Writes, S!clientVars, S!sendVars, S!serverVars
  <2>3. /\ "audio" \notin Commands \/ client \notin Past \union {"failed"}
        /\ client \in Past \union {"failed"} \/ "audio" = "setChunkSize"
            => client' \in Past \union {"failed"}
    BY <1>15 DEF S!AacData, S!Writes, S!clientVars, S!sendVars, S!serverVars, Past, Commands
  <2> QED BY <2>1, <2>2, <2>3, SentGrows
<1>16. ASSUME NEW n \in FrameLens, NEW ts \in Timestamps, S!BeginFrame(n, ts) PROVE SizeAfterCommands'
  BY <1>16 DEF S!BeginFrame, S!clientVars, S!sendVars, S!serverVars, SizeAfterCommands, Past
<1>17. CASE S!SendPiece
  <2>1. got' = got /\ chunkIn' = chunkIn /\ client' = client
    BY <1>17 DEF S!SendPiece, S!clientVars, S!sendVars, S!serverVars
  <2>2. CASE Len(pusher) = 1
    <3>1. sent' = Append(sent, "video") /\ "video" \in Names /\ "video" \notin Commands
          /\ "video" # "setChunkSize"
      BY <1>17, <2>2 DEF S!SendPiece, Names, Kinds, Commands
    <3> QED BY <2>1, <3>1, SentGrows
  <2>3. CASE Len(pusher) # 1
    BY <1>17, <2>1, <2>3 DEF S!SendPiece, SizeAfterCommands
  <2> QED BY <2>2, <2>3
<1>18. CASE S!SendFails
  BY <1>18 DEF S!SendFails, S!clientVars, S!sendVars, S!serverVars, SizeAfterCommands, Past
<1>19. CASE S!ServerReads("c0", "s0", "c0") /\ connState' = "version_sent"
  BY <1>19 DEF S!ServerReads, S!clientVars, S!sendVars, S!serverVars, SizeAfterCommands, Past
<1>20. CASE S!ServerWrites("s0", "c1", "s0") \/ S!ServerWrites("s1", "s2", "s1") \/ S!ServerWrites("s2", "c2", "s2")
  BY <1>20 DEF S!ServerWrites, S!clientVars, S!sendVars, S!serverVars, SizeAfterCommands, Past
<1>21. CASE S!ServerReads("c1", "s1", "c1") /\ UNCHANGED connState
  BY <1>21 DEF S!ServerReads, S!clientVars, S!sendVars, S!serverVars, SizeAfterCommands, Past
<1>22. CASE S!ServerReads("c2", "loop", "c2") /\ connState' = "handshake_done"
  BY <1>22 DEF S!ServerReads, S!clientVars, S!sendVars, S!serverVars, SizeAfterCommands, Past
<1>23. CASE S!ReadChunk
  <2>1. sent' = sent /\ client' = client /\ Head(up) = up[1] /\ up[1] \in Token
    BY <1>23 DEF S!ReadChunk, S!clientVars, S!sendVars, S!serverVars, S!Aligned, S!ChunkThere, SessionTypes
  <2>2. S!HeaderType(Head(up)) \in Names
    <3>1. up[1].type \in Names
      BY <2>1 DEF Token
    <3> QED BY <2>1, <3>1 DEF SessionTypes, S!HeaderType
  <2>3. CASE UNCHANGED <<got, chunkIn>>
    BY <2>1, <2>3 DEF SizeAfterCommands
  <2>4. CASE S!Handle(S!HeaderType(Head(up)))
    <3> DEFINE t == S!HeaderType(Head(up))
    <3>1. got' = Append(got, t) /\ chunkIn' = IF t = "setChunkSize" THEN S!NewChunkIn ELSE chunkIn
      BY <2>4 DEF S!Handle
    <3> HIDE DEF t
    <3>2. t \in Names
      BY <2>2 DEF t
    <3>3. /\ Len(got) \in Nat /\ Len(got') = Len(got) + 1 /\ got'[Len(got) + 1] = t
          /\ \A i \in 1..Len(got) : got'[i] = got[i]
      BY <3>1, <3>2 DEF SessionTypes
    <3>4. chunkIn' # S!ServerChunk => \E i \in 1..Len(got') : got'[i] = "setChunkSize"
      BY <3>1, <3>3 DEF SizeAfterCommands
    <3> QED BY <2>1, <3>4 DEF SizeAfterCommands
  <2> QED BY <1>23, <2>3, <2>4 DEF S!ReadChunk
<1>24. CASE S!Misread
  BY <1>24 DEF S!Misread, S!clientVars, S!sendVars, S!serverVars, SizeAfterCommands, Past
<1>25. CASE S!ServerEnds
  BY <1>25 DEF S!ServerEnds, S!clientVars, S!sendVars, S!serverVars, SizeAfterCommands, Past
<1>26. CASE UNCHANGED S!vars
  BY <1>26 DEF S!vars, S!clientVars, S!sendVars, S!serverVars, SizeAfterCommands, Past
<1> QED BY <1>1, <1>2, <1>3, <1>4, <1>5, <1>6, <1>7, <1>8, <1>9, <1>10, <1>11, <1>12, <1>13, <1>14, <1>15, <1>16, <1>17, <1>18, <1>19, <1>20, <1>21, <1>22, <1>23, <1>24, <1>25, <1>26
     DEF S!Next, S!ClientThread, S!ClientHandshake, S!ServerThread, S!ServerHandshake

\* The numbers of tokens and messages are natural.
LEMMA Sizes ==
  ASSUME SessionTypes, PartsFirst, ~broken, GotIsSent
  PROVE  /\ Waiting \in Nat /\ Len(up) \in Nat /\ Unread \in Nat
         /\ Len(sent) \in Nat /\ Len(got) \in Nat /\ Len(pusher) \in Nat
         /\ Len(sent) = Len(got) + Unread /\ up \in Seq(Token)
<1>1. Waiting \in Nat
  BY DEF PartsFirst
<1>2. Len(up) \in Nat /\ Len(sent) \in Nat /\ Len(got) \in Nat /\ Len(pusher) \in Nat
      /\ up \in Seq(Token)
  BY DEF SessionTypes
<1> QED BY <1>1, <1>2 DEF GotIsSent, Unread

\* until connect is written only parts of the handshake are under way
LEMMA NothingEarly ==
  ASSUME SessionTypes, PartsFirst, ~broken, GotIsSent, Pending, client \in Early
  PROVE  Unread = 0 /\ Len(up) = Waiting
<1>1. Len(up) = Waiting
  BY DEF PartsFirst
<1>2. Len(up) = Waiting + 2 * Unread + (IF Half THEN 1 ELSE 0)
  BY DEF Pending
<1> HIDE DEF Waiting, Unread, Half
<1> QED BY <1>1, <1>2, Sizes

\* A client that has not written connect has nothing pending.
LEMMA EarlyPending ==
  ASSUME SessionTypes', PartsFirst', ~broken', client' \in Early, Unread' = 0,
         \A i \in 1..Len(sent') : sent'[i] \in Kinds
  PROVE  Pending'
<1>1. Len(up') = Waiting' /\ pusher' = << >> /\ Waiting' \in Nat
  BY DEF PartsFirst
<1>2. Len(pusher') = 0
  BY <1>1
<1>3. ~Half'
  BY <1>2 DEF Half, Early
<1>4. Messages'
  BY DEF Messages
<1>5. HeaderWritten' /\ FrameWritten'
  BY <1>1 DEF HeaderWritten, FrameWritten, Early
<1>6. Len(up') = Waiting' + 2 * Unread' + (IF Half' THEN 1 ELSE 0)
  <2>1. (IF Half' THEN 1 ELSE 0) = 0
    BY <1>3, Zenon
  <2>2. \A w \in Nat : \A u, l : u = 0 /\ l = w => l = w + 2 * u + 0
    OBVIOUS
  <2>3. Len(up') = Waiting' + 2 * Unread' + 0
    BY <1>1, <2>2, Zenon
  <2> QED BY <2>1, <2>3
<1> QED BY <1>4, <1>5, <1>6 DEF Pending

\* the messages under way stay where they are, and one may follow them
LEMMA MessagesKept ==
  ASSUME Waiting \in Nat, Waiting' = Waiting, Unread \in Nat, Len(up) \in Nat,
         Len(got) \in Nat, Len(sent) = Len(got) + Unread, Messages,
         Len(up) >= Waiting + 2 * Unread,
         \A i \in 1..Len(up) : up'[i] = up[i], got' = got,
         \A i \in 1..Len(sent) : sent'[i] = sent[i],
         \/ Unread' = Unread
         \/ /\ Unread' = Unread + 1
            /\ IsMessage(up'[Waiting + 2 * Unread + 1], up'[Waiting + 2 * Unread + 2],
                         sent'[Len(sent) + 1])
  PROVE  Messages'
<1> HIDE DEF Waiting, Unread
<1> SUFFICES ASSUME NEW m \in 1..Unread'
             PROVE  IsMessage(up'[Waiting + 2 * m - 1], up'[Waiting + 2 * m], sent'[Len(got) + m])
  BY DEF Messages
<1>1. CASE m \in 1..Unread
  <2>1. IsMessage(up[Waiting + 2 * m - 1], up[Waiting + 2 * m], sent[Len(got) + m])
    BY <1>1 DEF Messages
  <2>2. Waiting + 2 * m - 1 \in 1..Len(up) /\ Waiting + 2 * m \in 1..Len(up)
        /\ Len(got) + m \in 1..Len(sent)
    BY <1>1
  <2>3. up'[Waiting + 2 * m - 1] = up[Waiting + 2 * m - 1] /\ up'[Waiting + 2 * m] = up[Waiting + 2 * m]
        /\ sent'[Len(got) + m] = sent[Len(got) + m]
    BY <2>2
  <2> QED BY <2>1, <2>3
<1>2. CASE m \notin 1..Unread
  <2>1. Unread' = Unread + 1 /\ m = Unread + 1
    BY <1>2
  <2>2. Waiting + 2 * m - 1 = Waiting + 2 * Unread + 1 /\ Waiting + 2 * m = Waiting + 2 * Unread + 2
        /\ Len(got) + m = Len(sent) + 1
    BY <2>1
  <2>3. IsMessage(up'[Waiting + 2 * Unread + 1], up'[Waiting + 2 * Unread + 2], sent'[Len(sent) + 1])
    BY <2>1
  <2> QED BY <2>2, <2>3
<1> QED BY <1>1, <1>2

\* what is sent is still what was got, when more is sent
LEMMA MoreSent ==
  ASSUME SessionTypes, GotIsSent, NEW x \in Names, sent' = Append(sent, x), got' = got
  PROVE  /\ GotIsSent' /\ Unread' = Unread + 1 /\ Len(sent') = Len(sent) + 1
         /\ sent'[Len(sent) + 1] = x /\ \A i \in 1..Len(sent) : sent'[i] = sent[i]
<1>1. /\ Len(sent) \in Nat /\ Len(got) \in Nat /\ Len(sent') = Len(sent) + 1
      /\ sent'[Len(sent) + 1] = x /\ \A i \in 1..Len(sent) : sent'[i] = sent[i]
  BY DEF SessionTypes
<1> QED BY <1>1 DEF GotIsSent, Unread

\* What is sent is a message of a known kind.
LEMMA KindsSent ==
  ASSUME SessionTypes, NEW x \in Kinds, sent' = Append(sent, x),
         \A i \in 1..Len(sent) : sent[i] \in Kinds
  PROVE  \A i \in 1..Len(sent') : sent'[i] \in Kinds
<1>1. x \in Names
  BY DEF Names
<1>2. /\ Len(sent) \in Nat /\ Len(sent') = Len(sent) + 1
      /\ sent'[Len(sent) + 1] = x /\ \A i \in 1..Len(sent) : sent'[i] = sent[i]
  BY <1>1 DEF SessionTypes
<1> QED BY <1>2

\* the connection thread writes a whole message
LEMMA WholeWritten ==
  ASSUME SessionTypes, PartsFirst, ~broken, GotIsSent, Pending, Waiting' = Waiting,
         NEW n \in Int, NEW x \in Kinds, n \in Lengths(x), up' = up \o S!Whole(n, x),
         sent' = Append(sent, x), got' = got, pusher' = pusher,
         client \notin Past \union {"setChunkData"}, client' \notin Past \union {"setChunkData"}
  PROVE  GotIsSent' /\ Pending'
<1> HIDE DEF Waiting, Unread, Half
<1> DEFINE h == S!Header(0, n, x)
           d == S!Data(n, x)
<1>1. x \in Names /\ h \in Token /\ d \in Token /\ S!Whole(n, x) = <<h, d>>
  BY Tokens DEF Names, S!Whole
<1>2. /\ Waiting \in Nat /\ Len(up) \in Nat /\ Unread \in Nat /\ Len(sent) \in Nat
      /\ Len(got) \in Nat /\ Len(sent) = Len(got) + Unread /\ up \in Seq(Token)
  BY Sizes
<1>3. IsMessage(h, d, x)
  BY DEF IsMessage
<1>4. pusher = << >> /\ Len(pusher) # 1
  <2>1. pusher = << >>
    BY DEF Pending, FrameWritten, Past
  <2>2. Len(<< >>) = 0
    OBVIOUS
  <2> QED BY <2>1, <2>2
<1>5. ~Half /\ ~Half'
  BY <1>4 DEF Half, Past
<1>6. Len(up) = Waiting + 2 * Unread
  BY <1>2, <1>5 DEF Pending
<1> HIDE DEF h, d
<1>7. /\ Len(up') = Len(up) + 2 /\ up'[Len(up) + 1] = h /\ up'[Len(up) + 2] = d
      /\ \A i \in 1..Len(up) : up'[i] = up[i]
  BY <1>1, <1>2, TwoJoined
<1>8. /\ GotIsSent' /\ Unread' = Unread + 1 /\ sent'[Len(sent) + 1] = x
      /\ \A i \in 1..Len(sent) : sent'[i] = sent[i]
  BY <1>1, MoreSent
<1>9. \A i \in 1..Len(sent') : sent'[i] \in Kinds
  BY KindsSent DEF Pending
<1>10. Messages'
  <2>1. IsMessage(up'[Waiting + 2 * Unread + 1], up'[Waiting + 2 * Unread + 2], sent'[Len(sent) + 1])
    BY <1>3, <1>6, <1>7, <1>8
  <2>2. Messages
    BY DEF Pending
  <2>3. Len(up) >= Waiting + 2 * Unread
    BY <1>2, <1>6
  <2> HIDE DEF IsMessage, Messages
  <2> QED BY <1>2, <1>7, <1>8, <2>1, <2>2, <2>3, MessagesKept
<1>11. Len(up') = Waiting' + 2 * Unread' + 0
  BY <1>2, <1>6, <1>7, <1>8
<1>12. HeaderWritten' /\ FrameWritten'
  BY <1>4 DEF HeaderWritten, FrameWritten, Past
<1> QED BY <1>5, <1>8, <1>9, <1>10, <1>11, <1>12 DEF Pending

\* a header is written, its data is not yet
LEMMA HeaderOnly ==
  ASSUME SessionTypes, PartsFirst, ~broken, GotIsSent, Pending, Waiting' = Waiting,
         NEW h \in Token, up' = up \o <<h>>, sent' = sent, got' = got,
         ~Half, Half', up'[Len(up')] = h => HeaderWritten' /\ FrameWritten'
  PROVE  GotIsSent' /\ Pending'
<1> HIDE DEF Waiting, Unread, Half
<1>1. /\ Waiting \in Nat /\ Len(up) \in Nat /\ Unread \in Nat /\ Len(sent) \in Nat
      /\ Len(got) \in Nat /\ Len(sent) = Len(got) + Unread /\ up \in Seq(Token)
  BY Sizes
<1>2. Len(up) = Waiting + 2 * Unread
  BY <1>1 DEF Pending
<1>3. /\ Len(up') = Len(up) + 1 /\ up'[Len(up) + 1] = h
      /\ \A i \in 1..Len(up) : up'[i] = up[i]
  BY <1>1, OneJoined
<1>4. GotIsSent' /\ Unread' = Unread
  BY DEF GotIsSent, Unread
<1>5. Messages'
  <2>1. Messages
    BY DEF Pending
  <2> QED BY <1>1, <1>2, <1>3, <1>4, <2>1, MessagesKept
<1>6. Len(up') = Waiting' + 2 * Unread' + 1
  BY <1>1, <1>2, <1>3, <1>4
<1>7. HeaderWritten' /\ FrameWritten'
  BY <1>3
<1>8. \A i \in 1..Len(sent') : sent'[i] \in Kinds
  BY DEF Pending
<1> QED BY <1>4, <1>5, <1>6, <1>7, <1>8 DEF Pending

\* the data of the header just written follows it
LEMMA DataWritten ==
  ASSUME SessionTypes, PartsFirst, ~broken, GotIsSent, Pending, Waiting' = Waiting,
         NEW d \in Token, NEW x \in Kinds, up' = up \o <<d>>, sent' = Append(sent, x), got' = got,
         Half, ~Half', IsMessage(up[Len(up)], d, x), HeaderWritten', FrameWritten'
  PROVE  GotIsSent' /\ Pending'
<1> HIDE DEF Waiting, Unread, Half
<1>1. /\ Waiting \in Nat /\ Len(up) \in Nat /\ Unread \in Nat /\ Len(sent) \in Nat
      /\ Len(got) \in Nat /\ Len(sent) = Len(got) + Unread /\ up \in Seq(Token)
  BY Sizes
<1>2. Len(up) = Waiting + 2 * Unread + 1
  BY <1>1 DEF Pending
<1>3. /\ Len(up') = Len(up) + 1 /\ up'[Len(up) + 1] = d
      /\ \A i \in 1..Len(up) : up'[i] = up[i]
  BY <1>1, OneJoined
<1>4. x \in Names
  BY DEF Names
<1>5. /\ GotIsSent' /\ Unread' = Unread + 1 /\ sent'[Len(sent) + 1] = x
      /\ \A i \in 1..Len(sent) : sent'[i] = sent[i]
  BY <1>4, MoreSent
<1>6. Messages'
  <2>1. IsMessage(up'[Waiting + 2 * Unread + 1], up'[Waiting + 2 * Unread + 2], sent'[Len(sent) + 1])
    <3>1. up'[Waiting + 2 * Unread + 1] = up[Len(up)] /\ up'[Waiting + 2 * Unread + 2] = d
      BY <1>1, <1>2, <1>3
    <3> QED BY <3>1, <1>5
  <2>2. Messages
    BY DEF Pending
  <2> QED BY <1>1, <1>2, <1>3, <1>5, <2>1, <2>2, MessagesKept
<1>7. Len(up') = Waiting' + 2 * Unread' + 0
  BY <1>1, <1>2, <1>3, <1>5
<1>8. \A i \in 1..Len(sent') : sent'[i] \in Kinds
  BY KindsSent DEF Pending
<1> QED BY <1>5, <1>6, <1>7, <1>8 DEF Pending

\* nothing is written or read
LEMMA PendingStays ==
  ASSUME Pending, GotIsSent, up' = up, sent' = sent, got' = got, Waiting' = Waiting,
         Half' <=> Half, HeaderWritten', FrameWritten'
  PROVE  GotIsSent' /\ Pending'
<1> HIDE DEF Waiting, Half
<1>1. Unread' = Unread /\ GotIsSent'
  BY DEF Unread, GotIsSent
<1> HIDE DEF Unread
<1>2. Messages'
  BY <1>1 DEF Pending, Messages
<1> QED BY <1>1, <1>2 DEF Pending

\* the server reads a part of the handshake
LEMMA PendingMoves ==
  ASSUME SessionTypes, PartsFirst, PartsFirst', ~broken, ~broken', GotIsSent, Pending,
         up # << >>, up' = Tail(up), Waiting' = Waiting - 1, sent' = sent, got' = got,
         pusher' = pusher, client' = client
  PROVE  GotIsSent' /\ Pending'
<1> HIDE DEF Waiting
<1>1. /\ Waiting \in Nat /\ Len(up) \in Nat /\ Unread \in Nat /\ Len(sent) \in Nat
      /\ Len(got) \in Nat /\ Len(sent) = Len(got) + Unread /\ up \in Seq(Token)
  BY Sizes
<1>2. Waiting - 1 \in Nat
  BY DEF PartsFirst
<1>3. Unread' = Unread /\ GotIsSent' /\ Half' = Half
  BY DEF Unread, GotIsSent, Half
<1> HIDE DEF Unread, Half
<1>4. Len(up) = Waiting + 2 * Unread + (IF Half THEN 1 ELSE 0)
  BY DEF Pending
<1>5. /\ Len(up') = Len(up) - 1 /\ \A i \in 1..(Len(up) - 1) : up'[i] = up[1 + i]
  BY <1>1, HeadTail
<1>6. Messages'
  <2> SUFFICES ASSUME NEW m \in 1..Unread
               PROVE  IsMessage(up'[Waiting' + 2 * m - 1], up'[Waiting' + 2 * m], sent[Len(got) + m])
    BY <1>3 DEF Messages
  <2>1. IsMessage(up[Waiting + 2 * m - 1], up[Waiting + 2 * m], sent[Len(got) + m])
    BY DEF Pending, Messages
  <2>2. Len(up) >= Waiting + 2 * Unread
    BY <1>1, <1>4
  <2>3. Waiting' + 2 * m - 1 \in 1..(Len(up) - 1) /\ Waiting' + 2 * m \in 1..(Len(up) - 1)
    BY <1>1, <1>2, <2>2
  <2>4. up'[Waiting' + 2 * m - 1] = up[1 + (Waiting' + 2 * m - 1)]
        /\ up'[Waiting' + 2 * m] = up[1 + (Waiting' + 2 * m)]
    BY <1>5, <2>3
  <2>5. 1 + (Waiting' + 2 * m - 1) = Waiting + 2 * m - 1 /\ 1 + (Waiting' + 2 * m) = Waiting + 2 * m
    BY <1>1
  <2> QED BY <2>1, <2>4, <2>5
<1>7. Half => up'[Len(up')] = up[Len(up)]
  <2> HAVE Half
  <2>1. Len(up) >= 2
    BY <1>1, <1>2, <1>4
  <2>2. Len(up') \in 1..(Len(up) - 1) /\ 1 + Len(up') = Len(up)
    BY <1>1, <1>5, <2>1
  <2> QED BY <1>5, <2>2
<1>8. HeaderWritten' /\ FrameWritten'
  BY <1>7 DEF Pending, HeaderWritten, FrameWritten, Half
<1>9. Len(up') = Waiting' + 2 * Unread' + (IF Half' THEN 1 ELSE 0)
  BY <1>1, <1>3, <1>4, <1>5
<1> QED BY <1>3, <1>6, <1>8, <1>9 DEF Pending

\* the server takes the first message
LEMMA PendingTaken ==
  ASSUME SessionTypes, PartsFirst, ~broken, GotIsSent, Pending, Waiting = 0, Waiting' = 0,
         Unread >= 1, up' = SubSeq(up, 3, Len(up)), got' = Append(got, sent[Len(got) + 1]),
         sent' = sent, pusher' = pusher, client' = client
  PROVE  GotIsSent' /\ Pending'
<1> HIDE DEF Waiting, Unread
<1>1. /\ Waiting \in Nat /\ Len(up) \in Nat /\ Unread \in Nat /\ Len(sent) \in Nat
      /\ Len(got) \in Nat /\ Len(sent) = Len(got) + Unread /\ up \in Seq(Token)
  BY Sizes
<1>2. Len(got) + 1 \in 1..Len(sent) /\ sent[Len(got) + 1] \in Names
  BY <1>1 DEF SessionTypes
<1>3. /\ Len(got') = Len(got) + 1 /\ got'[Len(got) + 1] = sent[Len(got) + 1]
      /\ \A i \in 1..Len(got) : got'[i] = got[i]
  BY <1>2 DEF SessionTypes
<1>4. GotIsSent'
  BY <1>1, <1>2, <1>3 DEF GotIsSent
<1>5. Unread' = Unread - 1
  BY <1>1, <1>3 DEF Unread
<1>6. Half' = Half
  BY DEF Half
<1> HIDE DEF Half
<1>7. Len(up) = 2 * Unread + (IF Half THEN 1 ELSE 0)
  BY <1>1 DEF Pending
<1>8. Len(up) >= 2 /\ Len(up) >= 2 * Unread
  BY <1>1, <1>7
<1>9. Len(up') = Len(up) - 2 /\ \A i \in 1..(Len(up) - 2) : up'[i] = up[2 + i]
  BY <1>1, <1>8, TwoDropped
<1>10. Messages'
  <2> SUFFICES ASSUME NEW m \in 1..(Unread - 1)
               PROVE  IsMessage(up'[0 + 2 * m - 1], up'[0 + 2 * m], sent[Len(got') + m])
    BY <1>5 DEF Messages
  <2>1. m + 1 \in 1..Unread
    BY <1>1
  <2>2. IsMessage(up[0 + 2 * (m + 1) - 1], up[0 + 2 * (m + 1)], sent[Len(got) + (m + 1)])
    BY <2>1 DEF Pending, Messages
  <2>3. 0 + 2 * m - 1 \in 1..(Len(up) - 2) /\ 0 + 2 * m \in 1..(Len(up) - 2)
    BY <1>1, <1>8
  <2>4. up'[0 + 2 * m - 1] = up[2 + (0 + 2 * m - 1)] /\ up'[0 + 2 * m] = up[2 + (0 + 2 * m)]
    BY <1>9, <2>3
  <2>5. 2 + (0 + 2 * m - 1) = 0 + 2 * (m + 1) - 1 /\ 2 + (0 + 2 * m) = 0 + 2 * (m + 1)
        /\ Len(got') + m = Len(got) + (m + 1)
    BY <1>1, <1>3
  <2> QED BY <2>2, <2>4, <2>5
<1>11. Half => up'[Len(up')] = up[Len(up)]
  <2> HAVE Half
  <2>1. Len(up) >= 3
    BY <1>1, <1>7
  <2>2. Len(up') \in 1..(Len(up) - 2) /\ 2 + Len(up') = Len(up)
    BY <1>1, <1>9, <2>1
  <2> QED BY <1>9, <2>2
<1>12. HeaderWritten' /\ FrameWritten'
  BY <1>11 DEF Pending, HeaderWritten, FrameWritten, Half
<1>13. Len(up') = Waiting' + 2 * Unread' + (IF Half' THEN 1 ELSE 0)
  BY <1>1, <1>5, <1>6, <1>7, <1>9
<1>14. \A i \in 1..Len(sent') : sent'[i] \in Kinds
  BY DEF Pending
<1> QED BY <1>4, <1>10, <1>12, <1>13, <1>14 DEF Pending

\* the first message not read yet is what is at the head of the stream
LEMMA MessageAtHead ==
  ASSUME SessionTypes, PartsFirst, ~broken, GotIsSent, Pending, Waiting = 0, Len(up) >= 2
  PROVE  /\ Unread >= 1 /\ Unread \in Nat /\ Len(got) + 1 \in 1..Len(sent)
         /\ IsMessage(up[1], up[2], sent[Len(got) + 1])
<1> HIDE DEF Waiting, Unread, Half
<1>1. /\ Waiting \in Nat /\ Len(up) \in Nat /\ Unread \in Nat /\ Len(sent) \in Nat
      /\ Len(got) \in Nat /\ Len(sent) = Len(got) + Unread
  BY Sizes
<1>2. Len(up) = Waiting + 2 * Unread + (IF Half THEN 1 ELSE 0)
  BY DEF Pending
<1>3. Unread >= 1
  BY <1>1, <1>2
<1>4. 1 \in 1..Unread /\ Waiting + 2 * 1 - 1 = 1 /\ Waiting + 2 * 1 = 2
  BY <1>1, <1>3
<1>5. IsMessage(up[Waiting + 2 * 1 - 1], up[Waiting + 2 * 1], sent[Len(got) + 1])
  BY <1>4, Zenon DEF Pending, Messages
<1> QED BY <1>1, <1>3, <1>4, <1>5

\* A message fits the first chunk size of the server; a message that is no
\* command fits the configured one.
LEMMA LengthBounds ==
  ASSUME NEW t \in Kinds, NEW n \in Lengths(t)
  PROVE  /\ n \in Nat /\ 1 <= n /\ n <= S!ServerChunk
         /\ t \notin Commands => n <= ConfigChunk
<1>1. CASE t \in Commands
  BY <1>1, CommandLengths DEF Lengths, Commands
<1>2. CASE t \notin Commands
  BY <1>2, CommandLengths DEF Lengths, Commands
<1> QED BY <1>1, <1>2

\* the message at the head fits the chunk size the server reads with
LEMMA FitsChunk ==
  ASSUME SessionTypes, GotIsSent, SizeAfterCommands, Len(got) + 1 \in 1..Len(sent),
         sent[Len(got) + 1] \in Kinds, NEW n \in Lengths(sent[Len(got) + 1])
  PROVE  n <= chunkIn /\ n \in Nat
<1> DEFINE t == sent[Len(got) + 1]
<1> HIDE DEF t
<1>1. t \in Kinds /\ n \in Lengths(t)
  BY DEF t
<1>2. /\ n \in Nat /\ n <= S!ServerChunk /\ (t \notin Commands => n <= ConfigChunk)
  BY <1>1, LengthBounds
<1>3. CASE chunkIn = S!ServerChunk
  BY <1>2, <1>3
<1>4. CASE chunkIn # S!ServerChunk
  <2>1. PICK i \in 1..Len(got) : got[i] = "setChunkSize"
    BY <1>4 DEF SizeAfterCommands
  <2>2. Len(got) \in Nat /\ i \in 1..Len(sent) /\ sent[i] = "setChunkSize" /\ i < Len(got) + 1
    BY <2>1 DEF GotIsSent, SessionTypes
  <2>3. t \notin Commands
    BY <2>2 DEF SizeAfterCommands, t
  <2>4. chunkIn = ConfigChunk
    BY <1>4 DEF SessionTypes
  <2> QED BY <1>2, <2>3, <2>4
<1> QED BY <1>3, <1>4

\* Every step keeps the two ends in agreement.
LEMMA EndsAgreeKept ==
  SessionTypes /\ SessionTypes' /\ PartsFirst /\ PartsFirst' /\ SizeAfterCommands /\ EndsAgree
  /\ [S!Next]_(S!vars)
    => EndsAgree'
<1> SUFFICES ASSUME SessionTypes /\ SessionTypes' /\ PartsFirst /\ PartsFirst' /\ SizeAfterCommands /\ EndsAgree, [S!Next]_(S!vars) PROVE EndsAgree'
  OBVIOUS
<1>1. CASE S!Break
  <2> SUFFICES ASSUME ~odd' PROVE GotIsSent' /\ server' # "lost" /\ (~broken' => Pending')
    BY DEF EndsAgree
  <2>1. ~odd
    BY <1>1 DEF S!Break, S!clientVars, S!sendVars, S!serverVars, SessionTypes, S!ChunkThere
  <2>2. GotIsSent /\ server # "lost" /\ (~broken => Pending)
    BY <2>1 DEF EndsAgree
  <2>3. sent' = sent /\ got' = got /\ broken' /\ server' # "lost"
    BY <1>1, <2>2 DEF S!Break, S!clientVars, S!sendVars, S!serverVars
  <2> QED BY <2>2, <2>3 DEF GotIsSent
<1>2. CASE S!ClientFails
  <2> SUFFICES ASSUME ~odd' PROVE GotIsSent' /\ server' # "lost" /\ (~broken' => Pending')
    BY DEF EndsAgree
  <2>1. ~odd
    BY <1>2 DEF S!ClientFails, S!clientVars, S!sendVars, S!serverVars, SessionTypes, S!ChunkThere
  <2>2. GotIsSent /\ server # "lost" /\ (~broken => Pending)
    BY <2>1 DEF EndsAgree
  <2>3. sent' = sent /\ got' = got /\ broken' /\ server' # "lost"
    BY <1>2, <2>2 DEF S!ClientFails, S!clientVars, S!sendVars, S!serverVars
  <2> QED BY <2>2, <2>3 DEF GotIsSent
<1>3. CASE S!Writes("c0", "c1", <<S!Part("c0")>>) /\ UNCHANGED <<streamId, sent>>
  <2> SUFFICES ASSUME ~odd' PROVE GotIsSent' /\ server' # "lost" /\ (~broken' => Pending')
    BY DEF EndsAgree
  <2>1. ~odd
    BY <1>3 DEF S!Writes, S!clientVars, S!sendVars, S!serverVars, SessionTypes, S!ChunkThere
  <2>2. GotIsSent /\ server # "lost" /\ (~broken => Pending)
    BY <2>1 DEF EndsAgree
  <2>3. /\ client \in Early /\ client' \in Early /\ ~broken /\ ~broken' /\ sent' = sent
        /\ got' = got /\ server' = server
    BY <1>3 DEF S!Writes, S!clientVars, S!sendVars, S!serverVars, Early
  <2>4. Unread' = 0
    BY <2>2, <2>3, NothingEarly DEF Unread
  <2>5. \A i \in 1..Len(sent') : sent'[i] \in Kinds
    BY <2>2, <2>3 DEF Pending
  <2>6. Pending'
    BY <2>3, <2>4, <2>5, EarlyPending
  <2> QED BY <2>2, <2>3, <2>6 DEF GotIsSent
<1>4. CASE S!Writes("c1", "s0", <<S!Part("c1")>>) /\ UNCHANGED <<streamId, sent>>
  <2> SUFFICES ASSUME ~odd' PROVE GotIsSent' /\ server' # "lost" /\ (~broken' => Pending')
    BY DEF EndsAgree
  <2>1. ~odd
    BY <1>4 DEF S!Writes, S!clientVars, S!sendVars, S!serverVars, SessionTypes, S!ChunkThere
  <2>2. GotIsSent /\ server # "lost" /\ (~broken => Pending)
    BY <2>1 DEF EndsAgree
  <2>3. /\ client \in Early /\ client' \in Early /\ ~broken /\ ~broken' /\ sent' = sent
        /\ got' = got /\ server' = server
    BY <1>4 DEF S!Writes, S!clientVars, S!sendVars, S!serverVars, Early
  <2>4. Unread' = 0
    BY <2>2, <2>3, NothingEarly DEF Unread
  <2>5. \A i \in 1..Len(sent') : sent'[i] \in Kinds
    BY <2>2, <2>3 DEF Pending
  <2>6. Pending'
    BY <2>3, <2>4, <2>5, EarlyPending
  <2> QED BY <2>2, <2>3, <2>6 DEF GotIsSent
<1>5. CASE S!Reads("s0", "s1", "s0") \/ S!Reads("s1", "s2", "s1") \/ S!Reads("s2", "c2", "s2")
  <2> SUFFICES ASSUME ~odd' PROVE GotIsSent' /\ server' # "lost" /\ (~broken' => Pending')
    BY DEF EndsAgree
  <2>1. ~odd
    BY <1>5 DEF S!Reads, S!clientVars, S!sendVars, S!serverVars, SessionTypes, S!ChunkThere
  <2>2. GotIsSent /\ server # "lost" /\ (~broken => Pending)
    BY <2>1 DEF EndsAgree
  <2>3. /\ client \in Early /\ client' \in Early /\ ~broken /\ ~broken' /\ sent' = sent
        /\ got' = got /\ server' = server
    BY <1>5 DEF S!Reads, S!clientVars, S!sendVars, S!serverVars, Early
  <2>4. Unread' = 0
    BY <2>2, <2>3, NothingEarly DEF Unread
  <2>5. \A i \in 1..Len(sent') : sent'[i] \in Kinds
    BY <2>2, <2>3 DEF Pending
  <2>6. Pending'
    BY <2>3, <2>4, <2>5, EarlyPending
  <2> QED BY <2>2, <2>3, <2>6 DEF GotIsSent
<1>6. CASE S!Writes("c2", "connect", <<S!Part("c2")>>) /\ UNCHANGED <<streamId, sent>>
  <2> SUFFICES ASSUME ~odd' PROVE GotIsSent' /\ server' # "lost" /\ (~broken' => Pending')
    BY DEF EndsAgree
  <2>1. ~odd
    BY <1>6 DEF S!Writes, S!clientVars, S!sendVars, S!serverVars, SessionTypes, S!ChunkThere
  <2>2. GotIsSent /\ server # "lost" /\ (~broken => Pending)
    BY <2>1 DEF EndsAgree
  <2>3. /\ client \in Early /\ client' \in Early /\ ~broken /\ ~broken' /\ sent' = sent
        /\ got' = got /\ server' = server
    BY <1>6 DEF S!Writes, S!clientVars, S!sendVars, S!serverVars, Early
  <2>4. Unread' = 0
    BY <2>2, <2>3, NothingEarly DEF Unread
  <2>5. \A i \in 1..Len(sent') : sent'[i] \in Kinds
    BY <2>2, <2>3 DEF Pending
  <2>6. Pending'
    BY <2>3, <2>4, <2>5, EarlyPending
  <2> QED BY <2>2, <2>3, <2>6 DEF GotIsSent
<1>7. CASE S!Connect
  <2> SUFFICES ASSUME ~odd' PROVE GotIsSent' /\ server' # "lost" /\ (~broken' => Pending')
    BY DEF EndsAgree
  <2>1. ~odd
    BY <1>7 DEF S!Connect, S!Writes, S!clientVars, S!sendVars, S!serverVars, SessionTypes, S!ChunkThere
  <2>2. GotIsSent /\ server # "lost" /\ (~broken => Pending)
    BY <2>1 DEF EndsAgree
  <2>3. /\ up' = up \o S!Whole(S!ConnectLen, "connect") /\ sent' = Append(sent, "connect")
        /\ got' = got /\ pusher' = pusher /\ server' = server /\ ~broken
        /\ client \notin Past \union {"setChunkData"} /\ client' \notin Past \union {"setChunkData"}
    BY <1>7 DEF S!Connect, S!Writes, S!clientVars, S!sendVars, S!serverVars, Past
  <2>4. Waiting' = Waiting
    BY <1>7 DEF S!Connect, S!Writes, S!clientVars, S!sendVars, S!serverVars, Waiting, PartsWritten, PartsRead
  <2>5. S!ConnectLen \in Int /\ "connect" \in Kinds /\ S!ConnectLen \in Lengths("connect")
    BY CommandLengths DEF Lengths, Kinds
  <2> QED BY <2>2, <2>3, <2>4, <2>5, WholeWritten
<1>8. CASE S!CreateStream
  <2> SUFFICES ASSUME ~odd' PROVE GotIsSent' /\ server' # "lost" /\ (~broken' => Pending')
    BY DEF EndsAgree
  <2>1. ~odd
    BY <1>8 DEF S!CreateStream, S!Writes, S!clientVars, S!sendVars, S!serverVars, SessionTypes, S!ChunkThere
  <2>2. GotIsSent /\ server # "lost" /\ (~broken => Pending)
    BY <2>1 DEF EndsAgree
  <2>3. /\ up' = up \o S!Whole(S!CreateStreamLen, "createStream") /\ sent' = Append(sent, "createStream")
        /\ got' = got /\ pusher' = pusher /\ server' = server /\ ~broken
        /\ client \notin Past \union {"setChunkData"} /\ client' \notin Past \union {"setChunkData"}
    BY <1>8 DEF S!CreateStream, S!Writes, S!clientVars, S!sendVars, S!serverVars, Past
  <2>4. Waiting' = Waiting
    BY <1>8 DEF S!CreateStream, S!Writes, S!clientVars, S!sendVars, S!serverVars, Waiting, PartsWritten, PartsRead
  <2>5. S!CreateStreamLen \in Int /\ "createStream" \in Kinds /\ S!CreateStreamLen \in Lengths("createStream")
    BY CommandLengths DEF Lengths, Kinds
  <2> QED BY <2>2, <2>3, <2>4, <2>5, WholeWritten
<1>9. CASE S!Publish
  <2> SUFFICES ASSUME ~odd' PROVE GotIsSent' /\ server' # "lost" /\ (~broken' => Pending')
    BY DEF EndsAgree
  <2>1. ~odd
    BY <1>9 DEF S!Publish, S!Writes, S!clientVars, S!sendVars, S!serverVars, SessionTypes, S!ChunkThere
  <2>2. GotIsSent /\ server # "lost" /\ (~broken => Pending)
    BY <2>1 DEF EndsAgree
  <2>3. /\ up' = up \o S!Whole(S!PublishLen, "publish") /\ sent' = Append(sent, "publish")
        /\ got' = got /\ pusher' = pusher /\ server' = server /\ ~broken
        /\ client \notin Past \union {"setChunkData"} /\ client' \notin Past \union {"setChunkData"}
    BY <1>9 DEF S!Publish, S!Writes, S!clientVars, S!sendVars, S!serverVars, Past
  <2>4. Waiting' = Waiting
    BY <1>9 DEF S!Publish, S!Writes, S!clientVars, S!sendVars, S!serverVars, Waiting, PartsWritten, PartsRead
  <2>5. S!PublishLen \in Int /\ "publish" \in Kinds /\ S!PublishLen \in Lengths("publish")
    BY CommandLengths DEF Lengths, Kinds
  <2> QED BY <2>2, <2>3, <2>4, <2>5, WholeWritten
<1>10. CASE S!AwaitReply
  <2> SUFFICES ASSUME ~odd' PROVE GotIsSent' /\ server' # "lost" /\ (~broken' => Pending')
    BY DEF EndsAgree
  <2>1. ~odd
    BY <1>10 DEF S!AwaitReply, S!ReadAvailable, S!clientVars, S!sendVars, S!serverVars, SessionTypes, S!ChunkThere
  <2>2. GotIsSent /\ server # "lost" /\ (~broken => Pending)
    BY <2>1 DEF EndsAgree
  <2>3. CASE broken
    BY <1>10, <2>2, <2>3 DEF S!AwaitReply, S!ReadAvailable, S!clientVars, S!sendVars, S!serverVars, GotIsSent
  <2>4. CASE ~broken
    <3>1. /\ up' = up /\ sent' = sent /\ got' = got /\ pusher' = pusher /\ server' = server
          /\ ~broken' /\ client \notin {"setChunkData", "aacData", "steady"}
          /\ client' \notin {"setChunkData", "aacData", "steady"}
      BY <1>10, <2>4 DEF S!AwaitReply, S!ReadAvailable, S!clientVars, S!sendVars, S!serverVars
    <3>2. Waiting' = Waiting
      BY <1>10 DEF S!AwaitReply, S!ReadAvailable, S!clientVars, S!sendVars, S!serverVars, Waiting, PartsWritten, PartsRead
    <3>3. pusher = << >>
      BY <2>2, <2>4, <3>1 DEF Pending, FrameWritten
    <3>4. HeaderWritten' /\ FrameWritten' /\ (Half' <=> Half)
      BY <3>1, <3>3 DEF HeaderWritten, FrameWritten, Half
    <3> QED BY <2>2, <2>4, <3>1, <3>2, <3>4, PendingStays
  <2> QED BY <2>3, <2>4
<1>11. CASE S!SetChunkHeader
  <2> SUFFICES ASSUME ~odd' PROVE GotIsSent' /\ server' # "lost" /\ (~broken' => Pending')
    BY DEF EndsAgree
  <2>1. ~odd
    BY <1>11 DEF S!SetChunkHeader, S!Writes, S!clientVars, S!sendVars, S!serverVars, SessionTypes, S!ChunkThere
  <2>2. GotIsSent /\ server # "lost" /\ (~broken => Pending)
    BY <2>1 DEF EndsAgree
  <2> DEFINE h == S!Header(0, 4, "setChunkSize")
  <2>3. h \in Token
    BY Tokens DEF Names, Kinds
  <2>4. /\ up' = up \o <<h>> /\ sent' = sent /\ got' = got /\ pusher' = pusher
        /\ server' = server /\ ~broken /\ client \notin {"setChunkData", "aacData", "steady"}
        /\ client' = IF "setChunkSize" = "audio" THEN "aacData" ELSE "setChunkData"
    BY <1>11 DEF S!SetChunkHeader, S!Writes, S!clientVars, S!sendVars, S!serverVars
  <2>5. Waiting' = Waiting
    BY <1>11 DEF S!SetChunkHeader, S!Writes, S!clientVars, S!sendVars, S!serverVars, Waiting, PartsWritten, PartsRead
  <2>6. pusher = << >>
    BY <2>2, <2>4 DEF Pending, FrameWritten
  <2>7. Len(<< >>) = 0
    OBVIOUS
  <2>8. ~Half /\ Half'
    BY <2>4, <2>6, <2>7 DEF Half
  <2>9. up'[Len(up')] = h => HeaderWritten' /\ FrameWritten'
    BY <2>4, <2>6 DEF HeaderWritten, FrameWritten
  <2> HIDE DEF h
  <2> QED BY <2>2, <2>3, <2>4, <2>5, <2>8, <2>9, HeaderOnly
<1>12. CASE S!SetChunkData
  <2> SUFFICES ASSUME ~odd' PROVE GotIsSent' /\ server' # "lost" /\ (~broken' => Pending')
    BY DEF EndsAgree
  <2>1. ~odd
    BY <1>12 DEF S!SetChunkData, S!Writes, S!clientVars, S!sendVars, S!serverVars, SessionTypes, S!ChunkThere
  <2>2. GotIsSent /\ server # "lost" /\ (~broken => Pending)
    BY <2>1 DEF EndsAgree
  <2> DEFINE d == S!Data(4, "setChunkSize")
  <2>3. d \in Token /\ "setChunkSize" \in Kinds
    BY Tokens DEF Names, Kinds
  <2>4. /\ up' = up \o <<d>> /\ sent' = Append(sent, "setChunkSize") /\ got' = got /\ pusher' = pusher
        /\ server' = server /\ ~broken /\ client' \notin {"setChunkData", "aacData"}
        /\ client = IF "setChunkSize" = "audio" THEN "aacData" ELSE "setChunkData"
    BY <1>12 DEF S!SetChunkData, S!Writes, S!clientVars, S!sendVars, S!serverVars
  <2>5. Waiting' = Waiting
    BY <1>12 DEF S!SetChunkData, S!Writes, S!clientVars, S!sendVars, S!serverVars, Waiting, PartsWritten, PartsRead
  <2>6. pusher = << >>
    BY <2>2, <2>4 DEF Pending, FrameWritten
  <2>7. Len(<< >>) = 0
    OBVIOUS
  <2>8. Half /\ ~Half'
    BY <2>4, <2>6, <2>7 DEF Half
  <2>9. HeaderWritten' /\ FrameWritten'
    BY <2>4, <2>6 DEF HeaderWritten, FrameWritten
  <2>10. up[Len(up)] = S!Header(0, 4, "setChunkSize")
    BY <2>2, <2>4 DEF Pending, HeaderWritten
  <2>11. IsMessage(up[Len(up)], d, "setChunkSize")
    BY <2>10 DEF IsMessage, Lengths
  <2> HIDE DEF d
  <2> QED BY <2>2, <2>3, <2>4, <2>5, <2>8, <2>9, <2>11, DataWritten
<1>13. CASE S!UseChunk
  <2> SUFFICES ASSUME ~odd' PROVE GotIsSent' /\ server' # "lost" /\ (~broken' => Pending')
    BY DEF EndsAgree
  <2>1. ~odd
    BY <1>13 DEF S!UseChunk, S!clientVars, S!sendVars, S!serverVars, SessionTypes, S!ChunkThere
  <2>2. GotIsSent /\ server # "lost" /\ (~broken => Pending)
    BY <2>1 DEF EndsAgree
  <2>3. CASE broken
    BY <1>13, <2>2, <2>3 DEF S!UseChunk, S!clientVars, S!sendVars, S!serverVars, GotIsSent
  <2>4. CASE ~broken
    <3>1. /\ up' = up /\ sent' = sent /\ got' = got /\ pusher' = pusher /\ server' = server
          /\ ~broken' /\ client \notin {"setChunkData", "aacData", "steady"}
          /\ client' \notin {"setChunkData", "aacData", "steady"}
      BY <1>13, <2>4 DEF S!UseChunk, S!clientVars, S!sendVars, S!serverVars
    <3>2. Waiting' = Waiting
      BY <1>13 DEF S!UseChunk, S!clientVars, S!sendVars, S!serverVars, Waiting, PartsWritten, PartsRead
    <3>3. pusher = << >>
      BY <2>2, <2>4, <3>1 DEF Pending, FrameWritten
    <3>4. HeaderWritten' /\ FrameWritten' /\ (Half' <=> Half)
      BY <3>1, <3>3 DEF HeaderWritten, FrameWritten, Half
    <3> QED BY <2>2, <2>4, <3>1, <3>2, <3>4, PendingStays
  <2> QED BY <2>3, <2>4
<1>14. CASE S!AacHeader
  <2> SUFFICES ASSUME ~odd' PROVE GotIsSent' /\ server' # "lost" /\ (~broken' => Pending')
    BY DEF EndsAgree
  <2>1. ~odd
    BY <1>14 DEF S!AacHeader, S!Writes, S!clientVars, S!sendVars, S!serverVars, SessionTypes, S!ChunkThere
  <2>2. GotIsSent /\ server # "lost" /\ (~broken => Pending)
    BY <2>1 DEF EndsAgree
  <2> DEFINE h == S!Header(0, 4, "audio")
  <2>3. h \in Token
    BY Tokens DEF Names, Kinds
  <2>4. /\ up' = up \o <<h>> /\ sent' = sent /\ got' = got /\ pusher' = pusher
        /\ server' = server /\ ~broken /\ client \notin {"setChunkData", "aacData", "steady"}
        /\ client' = IF "audio" = "audio" THEN "aacData" ELSE "setChunkData"
    BY <1>14 DEF S!AacHeader, S!Writes, S!clientVars, S!sendVars, S!serverVars
  <2>5. Waiting' = Waiting
    BY <1>14 DEF S!AacHeader, S!Writes, S!clientVars, S!sendVars, S!serverVars, Waiting, PartsWritten, PartsRead
  <2>6. pusher = << >>
    BY <2>2, <2>4 DEF Pending, FrameWritten
  <2>7. Len(<< >>) = 0
    OBVIOUS
  <2>8. ~Half /\ Half'
    BY <2>4, <2>6, <2>7 DEF Half
  <2>9. up'[Len(up')] = h => HeaderWritten' /\ FrameWritten'
    BY <2>4, <2>6 DEF HeaderWritten, FrameWritten
  <2> HIDE DEF h
  <2> QED BY <2>2, <2>3, <2>4, <2>5, <2>8, <2>9, HeaderOnly
<1>15. CASE S!AacData
  <2> SUFFICES ASSUME ~odd' PROVE GotIsSent' /\ server' # "lost" /\ (~broken' => Pending')
    BY DEF EndsAgree
  <2>1. ~odd
    BY <1>15 DEF S!AacData, S!Writes, S!clientVars, S!sendVars, S!serverVars, SessionTypes, S!ChunkThere
  <2>2. GotIsSent /\ server # "lost" /\ (~broken => Pending)
    BY <2>1 DEF EndsAgree
  <2> DEFINE d == S!Data(4, "audio")
  <2>3. d \in Token /\ "audio" \in Kinds
    BY Tokens DEF Names, Kinds
  <2>4. /\ up' = up \o <<d>> /\ sent' = Append(sent, "audio") /\ got' = got /\ pusher' = pusher
        /\ server' = server /\ ~broken /\ client' \notin {"setChunkData", "aacData"}
        /\ client = IF "audio" = "audio" THEN "aacData" ELSE "setChunkData"
    BY <1>15 DEF S!AacData, S!Writes, S!clientVars, S!sendVars, S!serverVars
  <2>5. Waiting' = Waiting
    BY <1>15 DEF S!AacData, S!Writes, S!clientVars, S!sendVars, S!serverVars, Waiting, PartsWritten, PartsRead
  <2>6. pusher = << >>
    BY <2>2, <2>4 DEF Pending, FrameWritten
  <2>7. Len(<< >>) = 0
    OBVIOUS
  <2>8. Half /\ ~Half'
    BY <2>4, <2>6, <2>7 DEF Half
  <2>9. HeaderWritten' /\ FrameWritten'
    BY <2>4, <2>6 DEF HeaderWritten, FrameWritten
  <2>10. up[Len(up)] = S!Header(0, 4, "audio")
    BY <2>2, <2>4 DEF Pending, HeaderWritten
  <2>11. IsMessage(up[Len(up)], d, "audio")
    BY <2>10 DEF IsMessage, Lengths
  <2> HIDE DEF d
  <2> QED BY <2>2, <2>3, <2>4, <2>5, <2>8, <2>9, <2>11, DataWritten
<1>16. ASSUME NEW n \in FrameLens, NEW ts \in Timestamps, S!BeginFrame(n, ts) PROVE EndsAgree'
  <2> SUFFICES ASSUME ~odd' PROVE GotIsSent' /\ server' # "lost" /\ (~broken' => Pending')
    BY DEF EndsAgree
  <2>1. ~odd
    BY <1>16 DEF S!BeginFrame, S!clientVars, S!sendVars, S!serverVars, SessionTypes, S!ChunkThere
  <2>2. GotIsSent /\ server # "lost" /\ (~broken => Pending)
    BY <2>1 DEF EndsAgree
  <2>3. /\ client = "steady" /\ ~(n > chunkOut) /\ ~S!Extended(ts) /\ pusher = << >>
        /\ pusher' = S!Chunked(n, "video", chunkOut)
        /\ up' = up /\ sent' = sent /\ got' = got /\ server' = server
        /\ ~broken /\ ~broken' /\ client' = client
    BY <1>16 DEF S!BeginFrame, S!clientVars, S!sendVars, S!serverVars, S!Odd
  <2>4. chunkOut = ConfigChunk
    BY <2>3 DEF SessionTypes, Early, Past
  <2>5. n \in Nat \ {0} /\ ConfigChunk \in Nat /\ n <= ConfigChunk
    BY <2>3, <2>4, SessionAssumption, CommandLengths DEF S!LengthsAssumption
  <2>6. pusher' = <<S!Header(0, n, "video"), S!Data(n, "video")>>
    BY <2>3, <2>4, <2>5, OneChunk
  <2>7. Len(pusher') = 2 /\ pusher'[1] = S!Header(0, n, "video") /\ pusher'[2] = S!Data(n, "video")
    BY <2>6
  <2>8. Len(<< >>) = 0
    OBVIOUS
  <2>9. ~Half /\ ~Half'
    BY <2>3, <2>7, <2>8 DEF Half
  <2>10. n \in Lengths("video")
    BY <2>5 DEF Lengths
  <2>11. IsMessage(pusher'[1], pusher'[2], "video")
    BY <2>7, <2>10 DEF IsMessage
  <2>12. FrameWritten'
    BY <2>3, <2>7, <2>11 DEF FrameWritten
  <2>13. HeaderWritten'
    BY <2>3 DEF HeaderWritten
  <2>14. Waiting' = Waiting
    BY <1>16 DEF S!BeginFrame, S!clientVars, S!sendVars, S!serverVars, Waiting, PartsWritten, PartsRead
  <2> QED BY <2>2, <2>3, <2>9, <2>12, <2>13, <2>14, PendingStays
<1>17. CASE S!SendPiece
  <2> SUFFICES ASSUME ~odd' PROVE GotIsSent' /\ server' # "lost" /\ (~broken' => Pending')
    BY DEF EndsAgree
  <2>1. ~odd
    BY <1>17 DEF S!SendPiece, S!clientVars, S!sendVars, S!serverVars, SessionTypes, S!ChunkThere
  <2>2. GotIsSent /\ server # "lost" /\ (~broken => Pending)
    BY <2>1 DEF EndsAgree
  <2> DEFINE p == Head(pusher)
  <2>3. p \in Token /\ pusher # << >> /\ p = pusher[1] /\ Len(pusher) \in Nat
        /\ Len(Tail(pusher)) = Len(pusher) - 1
        /\ \A i \in 1..(Len(pusher) - 1) : Tail(pusher)[i] = pusher[1 + i]
    BY <1>17, HeadTail, ChunkIsToken DEF S!SendPiece, SessionTypes
  <2>4. /\ up' = up \o <<p>> /\ got' = got /\ pusher' = Tail(pusher)
        /\ server' = server /\ ~broken /\ client' = client
        /\ sent' = IF Len(pusher) = 1 THEN Append(sent, "video") ELSE sent
    BY <1>17, <2>3, AppendJoins DEF S!SendPiece, S!clientVars, S!sendVars, S!serverVars, SessionTypes
  <2>5. Waiting' = Waiting
    BY <1>17 DEF S!SendPiece, S!clientVars, S!sendVars, S!serverVars, Waiting, PartsWritten, PartsRead
  <2>6. /\ client = "steady" /\ Len(pusher) \in {1, 2}
        /\ Len(pusher) = 2 => IsMessage(pusher[1], pusher[2], "video")
        /\ Len(pusher) = 1 => IsMessage(up[Len(up)], pusher[1], "video")
    BY <2>2, <2>3, <2>4 DEF Pending, FrameWritten
  <2> HIDE DEF p
  <2>7. CASE Len(pusher) = 2
    <3>1. Len(pusher') = 1 /\ pusher'[1] = pusher[2]
      <4>1. 1 \in 1..(Len(pusher) - 1) /\ 1 + 1 = 2
        BY <2>7
      <4>2. Tail(pusher)[1] = pusher[1 + 1]
        BY <2>3, <4>1
      <4>3. Tail(pusher)[1] = pusher[2]
        BY <4>1, <4>2, Zenon
      <4>4. Len(Tail(pusher)) = 1
        BY <2>3, <2>7
      <4> QED BY <2>4, <4>3, <4>4, Zenon
    <3>2. ~Half /\ Half'
      BY <2>6, <2>7, <3>1 DEF Half
    <3>3. up'[Len(up')] = p => HeaderWritten' /\ FrameWritten'
      BY <2>3, <2>4, <2>6, <2>7, <3>1 DEF HeaderWritten, FrameWritten
    <3>4. sent' = sent
      BY <2>4, <2>7
    <3> QED BY <2>2, <2>3, <2>4, <2>5, <3>2, <3>3, <3>4, HeaderOnly
  <2>8. CASE Len(pusher) = 1
    <3>1. Len(pusher') = 0 /\ pusher' \in Seq(Chunk)
      BY <2>3, <2>4, <2>8 DEF SessionTypes
    <3>2. pusher' = << >>
      BY <3>1
    <3>3. Half /\ ~Half'
      <4>1. Half
        BY <2>8 DEF Half
      <4>2. client' = "steady" /\ Len(pusher') # 1
        BY <2>4, <2>6, <3>1
      <4> QED BY <4>1, <4>2 DEF Half
    <3>4. HeaderWritten' /\ FrameWritten'
      BY <2>4, <2>6, <3>2 DEF HeaderWritten, FrameWritten
    <3>5. sent' = Append(sent, "video") /\ "video" \in Kinds
      BY <2>4, <2>8 DEF Kinds
    <3>6. IsMessage(up[Len(up)], p, "video")
      BY <2>3, <2>6, <2>8
    <3> QED BY <2>2, <2>3, <2>4, <2>5, <3>3, <3>4, <3>5, <3>6, DataWritten
  <2> QED BY <2>6, <2>7, <2>8
<1>18. CASE S!SendFails
  <2> SUFFICES ASSUME ~odd' PROVE GotIsSent' /\ server' # "lost" /\ (~broken' => Pending')
    BY DEF EndsAgree
  <2>1. ~odd
    BY <1>18 DEF S!SendFails, S!clientVars, S!sendVars, S!serverVars, SessionTypes, S!ChunkThere
  <2>2. GotIsSent /\ server # "lost" /\ (~broken => Pending)
    BY <2>1 DEF EndsAgree
  <2>3. sent' = sent /\ got' = got /\ broken' /\ server' # "lost"
    BY <1>18, <2>2 DEF S!SendFails, S!clientVars, S!sendVars, S!serverVars
  <2> QED BY <2>2, <2>3 DEF GotIsSent
<1>19. CASE S!ServerReads("c0", "s0", "c0") /\ connState' = "version_sent"
  <2> SUFFICES ASSUME ~odd' PROVE GotIsSent' /\ server' # "lost" /\ (~broken' => Pending')
    BY DEF EndsAgree
  <2>1. ~odd
    BY <1>19 DEF S!ServerReads, S!clientVars, S!sendVars, S!serverVars, SessionTypes, S!ChunkThere
  <2>2. GotIsSent /\ server # "lost" /\ (~broken => Pending)
    BY <2>1 DEF EndsAgree
  <2>3. /\ up # << >> /\ up' = Tail(up) /\ client' = client /\ broken' = broken
        /\ pusher' = pusher /\ sent' = sent /\ got' = got /\ server' # "lost"
    BY <1>19 DEF S!ServerReads, S!clientVars, S!sendVars, S!serverVars
  <2>4. ~broken /\ Waiting \in Nat
    BY <2>3 DEF PartsFirst
  <2>5. Waiting' = Waiting - 1
    BY <1>19, <2>4 DEF S!ServerReads, S!clientVars, S!sendVars, S!serverVars, Waiting, PartsWritten, PartsRead
  <2> QED BY <2>2, <2>3, <2>4, <2>5, PendingMoves
<1>20. CASE S!ServerWrites("s0", "c1", "s0") \/ S!ServerWrites("s1", "s2", "s1") \/ S!ServerWrites("s2", "c2", "s2")
  <2> SUFFICES ASSUME ~odd' PROVE GotIsSent' /\ server' # "lost" /\ (~broken' => Pending')
    BY DEF EndsAgree
  <2>1. ~odd
    BY <1>20 DEF S!ServerWrites, S!clientVars, S!sendVars, S!serverVars, SessionTypes, S!ChunkThere
  <2>2. GotIsSent /\ server # "lost" /\ (~broken => Pending)
    BY <2>1 DEF EndsAgree
  <2>3. /\ up' = up /\ sent' = sent /\ got' = got /\ pusher' = pusher /\ server' # "lost"
        /\ ~broken /\ ~broken' /\ client' = client
    BY <1>20 DEF S!ServerWrites, S!clientVars, S!sendVars, S!serverVars
  <2>4. Waiting' = Waiting
    BY <1>20 DEF S!ServerWrites, S!clientVars, S!sendVars, S!serverVars, Waiting, PartsWritten, PartsRead
  <2>5. HeaderWritten' /\ FrameWritten' /\ (Half' <=> Half)
    BY <2>2, <2>3 DEF Pending, HeaderWritten, FrameWritten, Half
  <2> QED BY <2>2, <2>3, <2>4, <2>5, PendingStays
<1>21. CASE S!ServerReads("c1", "s1", "c1") /\ UNCHANGED connState
  <2> SUFFICES ASSUME ~odd' PROVE GotIsSent' /\ server' # "lost" /\ (~broken' => Pending')
    BY DEF EndsAgree
  <2>1. ~odd
    BY <1>21 DEF S!ServerReads, S!clientVars, S!sendVars, S!serverVars, SessionTypes, S!ChunkThere
  <2>2. GotIsSent /\ server # "lost" /\ (~broken => Pending)
    BY <2>1 DEF EndsAgree
  <2>3. /\ up # << >> /\ up' = Tail(up) /\ client' = client /\ broken' = broken
        /\ pusher' = pusher /\ sent' = sent /\ got' = got /\ server' # "lost"
    BY <1>21 DEF S!ServerReads, S!clientVars, S!sendVars, S!serverVars
  <2>4. ~broken /\ Waiting \in Nat
    BY <2>3 DEF PartsFirst
  <2>5. Waiting' = Waiting - 1
    BY <1>21, <2>4 DEF S!ServerReads, S!clientVars, S!sendVars, S!serverVars, Waiting, PartsWritten, PartsRead
  <2> QED BY <2>2, <2>3, <2>4, <2>5, PendingMoves
<1>22. CASE S!ServerReads("c2", "loop", "c2") /\ connState' = "handshake_done"
  <2> SUFFICES ASSUME ~odd' PROVE GotIsSent' /\ server' # "lost" /\ (~broken' => Pending')
    BY DEF EndsAgree
  <2>1. ~odd
    BY <1>22 DEF S!ServerReads, S!clientVars, S!sendVars, S!serverVars, SessionTypes, S!ChunkThere
  <2>2. GotIsSent /\ server # "lost" /\ (~broken => Pending)
    BY <2>1 DEF EndsAgree
  <2>3. /\ up # << >> /\ up' = Tail(up) /\ client' = client /\ broken' = broken
        /\ pusher' = pusher /\ sent' = sent /\ got' = got /\ server' # "lost"
    BY <1>22 DEF S!ServerReads, S!clientVars, S!sendVars, S!serverVars
  <2>4. ~broken /\ Waiting \in Nat
    BY <2>3 DEF PartsFirst
  <2>5. Waiting' = Waiting - 1
    BY <1>22, <2>4 DEF S!ServerReads, S!clientVars, S!sendVars, S!serverVars, Waiting, PartsWritten, PartsRead
  <2> QED BY <2>2, <2>3, <2>4, <2>5, PendingMoves
<1>23. CASE S!ReadChunk
  <2> SUFFICES ASSUME ~odd' PROVE GotIsSent' /\ server' # "lost" /\ (~broken' => Pending')
    BY DEF EndsAgree
  <2>1. ~odd
    BY <1>23 DEF S!ReadChunk, S!clientVars, S!sendVars, S!serverVars, SessionTypes, S!ChunkThere
  <2>2. GotIsSent /\ server # "lost" /\ (~broken => Pending)
    BY <2>1 DEF EndsAgree
  <2>3. /\ Len(up) >= 2 /\ up' = SubSeq(up, 3, Len(up)) /\ server = "loop" /\ server' = "loop"
        /\ broken' = broken /\ client' = client /\ pusher' = pusher /\ sent' = sent
        /\ Head(up) = up[1] /\ up[2].len = S!ChunkData(Head(up))
    BY <1>23 DEF S!ReadChunk, S!clientVars, S!sendVars, S!serverVars, S!Aligned, S!ChunkThere, SessionTypes
  <2>4. ~broken /\ Waiting \in Nat /\ client # "failed"
    BY <2>3 DEF PartsFirst
  <2>5. Waiting = 0 /\ Waiting' = 0
    BY <2>3, <2>4 DEF Waiting, PartsWritten, PartsRead
  <2> DEFINE t == sent[Len(got) + 1]
  <2>6. /\ Unread >= 1 /\ Unread \in Nat /\ Len(got) + 1 \in 1..Len(sent)
        /\ IsMessage(up[1], up[2], t)
    BY <2>2, <2>3, <2>4, <2>5, MessageAtHead
  <2> HIDE DEF t
  <2>7. PICK n \in Lengths(t) : up[1] = S!Header(0, n, t) /\ up[2] = S!Data(n, t)
    BY <2>6 DEF IsMessage
  <2>8. t \in Kinds
    BY <2>2, <2>4, <2>6 DEF Pending, t
  <2>9. n \in Nat
    BY <2>8, LengthBounds
  <2>10. S!HeaderLen(Head(up)) = n /\ S!HeaderType(Head(up)) = t /\ S!ChunkData(Head(up)) = n
    BY <2>3, <2>7 DEF S!HeaderLen, S!HeaderType, S!Header, S!Data
  <2>11. S!Handle(t)
    BY <1>23, <2>9, <2>10 DEF S!ReadChunk
  <2>12. got' = Append(got, t)
    BY <2>11 DEF S!Handle
  <2>13. got' = Append(got, sent[Len(got) + 1])
    BY <2>12 DEF t
  <2>14. GotIsSent' /\ Pending'
    BY <2>2, <2>3, <2>4, <2>5, <2>6, <2>13, PendingTaken
  <2> QED BY <2>3, <2>14
<1>24. CASE S!Misread
  <2> SUFFICES ASSUME ~odd' PROVE GotIsSent' /\ server' # "lost" /\ (~broken' => Pending')
    BY DEF EndsAgree
  <2>1. ~odd
    BY <1>24 DEF S!Misread, S!clientVars, S!sendVars, S!serverVars, SessionTypes, S!ChunkThere
  <2>2. GotIsSent /\ server # "lost" /\ (~broken => Pending)
    BY <2>1 DEF EndsAgree
  <2>3. up # << >> /\ server = "loop"
    BY <1>24 DEF S!Misread, S!ChunkThere
  <2>4. ~broken /\ Waiting \in Nat /\ client # "failed" /\ Len(up) \in Nat \ {0} /\ Head(up) = up[1]
    BY <2>3, HeadTail DEF PartsFirst, SessionTypes
  <2>5. Waiting = 0
    BY <2>3, <2>4 DEF Waiting, PartsWritten, PartsRead
  <2> DEFINE t == sent[Len(got) + 1]
  <2>6. CASE Len(up) >= 2
    <3>1. /\ Len(got) + 1 \in 1..Len(sent) /\ IsMessage(up[1], up[2], t)
      BY <2>2, <2>4, <2>5, <2>6, MessageAtHead
    <3>2. t \in Kinds
      BY <2>2, <2>4, <3>1 DEF Pending
    <3>3. PICK n \in Lengths(t) : up[1] = S!Header(0, n, t) /\ up[2] = S!Data(n, t)
      BY <3>1 DEF IsMessage
    <3>4. n <= chunkIn /\ n \in Nat
      BY <2>2, <3>1, <3>2, FitsChunk
    <3> HIDE DEF t
    <3>5. Head(up).kind = "header" /\ Head(up).fmt = 0 /\ Head(up).len = n
          /\ up[2].kind = "data" /\ up[2].len = n
      BY <2>4, <3>3 DEF S!Header, S!Data
    <3>6. S!ChunkData(Head(up)) = n
      <4>1. S!HeaderLen(Head(up)) = n
        BY <3>5 DEF S!HeaderLen
      <4>2. chunkIn \in Nat
        BY CommandLengths DEF SessionTypes
      <4> QED BY <3>4, <4>1, <4>2 DEF S!ChunkData, S!Smaller
    <3> QED BY <1>24, <2>3, <2>6, <3>5, <3>6 DEF S!Misread, S!Aligned, S!ChunkThere
  <2>7. CASE ~(Len(up) >= 2)
    <3>1. Len(up) = 1
      BY <2>4, <2>7
    <3>2. Len(up) = 0 + 2 * Unread + (IF Half THEN 1 ELSE 0) /\ Unread \in Nat
      <4> HIDE DEF Waiting, Unread, Half
      <4> QED BY <2>2, <2>4, <2>5, Sizes DEF Pending
    <3>3. Half
      <4> HIDE DEF Unread, Half
      <4> QED BY <3>1, <3>2
    <3>4. up[Len(up)].kind = "header"
      <4>1. CASE client = "setChunkData"
        BY <2>2, <2>4, <4>1 DEF Pending, HeaderWritten, S!Header
      <4>2. CASE client = "aacData"
        BY <2>2, <2>4, <4>2 DEF Pending, HeaderWritten, S!Header
      <4>3. CASE Len(pusher) = 1
        <5>1. Len(<< >>) = 0
          OBVIOUS
        <5>4. pusher # << >>
          BY <4>3, <5>1
        <5>2. IsMessage(up[Len(up)], pusher[1], "video")
          BY <2>2, <2>4, <4>3, <5>4 DEF Pending, FrameWritten
        <5>3. \E k \in Lengths("video") : up[Len(up)] = S!Header(0, k, "video")
          BY <5>2 DEF IsMessage
        <5> QED BY <5>3 DEF S!Header
      <4> QED BY <3>3, <4>1, <4>2, <4>3 DEF Half
    <3> QED BY <1>24, <2>4, <3>1, <3>4 DEF S!Misread, S!ChunkThere
  <2> QED BY <2>6, <2>7
<1>25. CASE S!ServerEnds
  <2> SUFFICES ASSUME ~odd' PROVE GotIsSent' /\ server' # "lost" /\ (~broken' => Pending')
    BY DEF EndsAgree
  <2>1. ~odd
    BY <1>25 DEF S!ServerEnds, S!clientVars, S!sendVars, S!serverVars, SessionTypes, S!ChunkThere
  <2>2. GotIsSent /\ server # "lost" /\ (~broken => Pending)
    BY <2>1 DEF EndsAgree
  <2>3. sent' = sent /\ got' = got /\ broken' /\ server' # "lost"
    BY <1>25, <2>2 DEF S!ServerEnds, S!clientVars, S!sendVars, S!serverVars
  <2> QED BY <2>2, <2>3 DEF GotIsSent
<1>26. CASE UNCHANGED S!vars
  BY <1>26 DEF S!vars, S!clientVars, S!sendVars, S!serverVars, EndsAgree, GotIsSent, Unread, Pending, Messages, HeaderWritten, FrameWritten, Half, Waiting, PartsWritten, PartsRead
<1> QED BY <1>1, <1>2, <1>3, <1>4, <1>5, <1>6, <1>7, <1>8, <1>9, <1>10, <1>11, <1>12, <1>13, <1>14, <1>15, <1>16, <1>17, <1>18, <1>19, <1>20, <1>21, <1>22, <1>23, <1>24, <1>25, <1>26
     DEF S!Next, S!ClientThread, S!ClientHandshake, S!ServerThread, S!ServerHandshake

\* A session begins in agreement.
LEMMA SessionBegins ==
  S!Init
    => SessionInv
<1> SUFFICES ASSUME S!Init PROVE SessionInv
  OBVIOUS
<1>1. /\ up = << >> /\ ~broken /\ broken \in BOOLEAN /\ client = "c0" /\ chunkOut = S!ClientChunk
      /\ pusher = << >> /\ server = "c0" /\ chunkIn = S!ServerChunk /\ lastLen = 0
      /\ lastType = "none" /\ published = FALSE /\ sent = << >> /\ got = << >> /\ odd = FALSE
  BY DEF S!Init
<1>2. /\ << >> \in Seq(Token) /\ << >> \in Seq(Chunk) /\ << >> \in Seq(Names) /\ Len(<< >>) = 0
      /\ "none" \in Names
  BY DEF Names
<1>3. Waiting = 0
  BY <1>1 DEF Waiting, PartsWritten, PartsRead
<1>4. SessionTypes
  <2>1. up \in Seq(Token) /\ pusher \in Seq(Chunk) /\ sent \in Seq(Names) /\ got \in Seq(Names)
    BY <1>1, <1>2, Zenon
  <2>2. lastLen \in Int /\ lastType \in Names
    BY <1>1, <1>2
  <2>3. broken \in BOOLEAN /\ odd \in BOOLEAN /\ published \in BOOLEAN
    BY <1>1, Zenon
  <2>4. /\ client \in Early \union Past \union {"connecting", "createStream", "creating", "publish",
                  "publishing", "setChunk", "setChunkData", "failed"}
        /\ server \in Handshaking \union {"loop", "lost", "closed"}
        /\ client \notin {"aac", "aacData", "steady"}
    BY <1>1 DEF Early, Handshaking
  <2>5. chunkIn \in {S!ServerChunk, ConfigChunk} /\ chunkOut \in {S!ClientChunk, ConfigChunk}
    BY <1>1, Zenon
  <2> QED BY <2>1, <2>2, <2>3, <2>4, <2>5 DEF SessionTypes
<1>5. PartsFirst
  <2> HIDE DEF Waiting
  <2> QED BY <1>1, <1>2, <1>3 DEF PartsFirst
<1>6. FirstIsConnect
  BY <1>1 DEF FirstIsConnect, Early
<1>7. SizeAfterCommands
  BY <1>1, <1>2 DEF SizeAfterCommands
<1>8. EndsAgree
  <2>1. GotIsSent /\ Unread = 0
    BY <1>1, <1>2 DEF GotIsSent, Unread
  <2>2. ~Half
    BY <1>1, <1>2 DEF Half
  <2>3. Messages
    BY <2>1 DEF Messages
  <2>4. HeaderWritten /\ FrameWritten
    BY <1>1 DEF HeaderWritten, FrameWritten
  <2>5. Len(up) = Waiting + 2 * Unread + (IF Half THEN 1 ELSE 0)
    BY <1>1, <1>2, <1>3, <2>1, <2>2
  <2>6. \A i \in 1..Len(sent) : sent[i] \in Kinds
    BY <1>1, <1>2
  <2> QED BY <1>1, <2>1, <2>3, <2>4, <2>5, <2>6 DEF EndsAgree, Pending
<1> QED BY <1>4, <1>5, <1>6, <1>7, <1>8 DEF SessionInv

\* Every step of a session keeps its invariant.
LEMMA SessionInvKept ==
  SessionInv /\ [S!Next]_(S!vars)
    => SessionInv'
<1> SUFFICES ASSUME SessionInv, [S!Next]_(S!vars) PROVE SessionInv'
  OBVIOUS
<1>1. SessionTypes /\ PartsFirst /\ FirstIsConnect /\ SizeAfterCommands /\ EndsAgree
  BY DEF SessionInv
<1>2. SessionTypes'
  BY <1>1, SessionTypesKept
<1>3. PartsFirst'
  BY <1>1, PartsKept
<1>4. FirstIsConnect'
  BY <1>1, <1>2, <1>3, FirstKept
<1>5. SizeAfterCommands'
  BY <1>1, SizeKept
<1>6. EndsAgree'
  BY <1>1, <1>2, <1>3, EndsAgreeKept
<1> QED BY <1>2, <1>3, <1>4, <1>5, <1>6 DEF SessionInv

\* What the invariant says of the order of the messages.
LEMMA SessionInvImplies ==
  SessionInv
    => SessionInOrder
<1> SUFFICES ASSUME SessionInv PROVE S!InStep /\ S!InOrder
  BY DEF SessionInOrder, S!SessionInOrder
<1>1. S!InStep
  BY DEF S!InStep, SessionInv, EndsAgree
<1>2. published => connState = "connected"
  BY DEF SessionInv, FirstIsConnect
<1>3. ASSUME ~odd PROVE Len(got) <= Len(sent) /\ got = SubSeq(sent, 1, Len(got))
  <2>1. GotIsSent
    BY <1>3 DEF SessionInv, EndsAgree
  <2>2. got \in Seq(Names) /\ sent \in Seq(Names) /\ Len(got) \in Nat /\ Len(sent) \in Nat
    BY DEF SessionInv, SessionTypes
  <2>3. Len(got) <= Len(sent) /\ \A i \in 1..Len(got) : got[i] = sent[i]
    BY <2>1 DEF GotIsSent
  <2>4. SubSeq(sent, 1, Len(got)) = [i \in 1..Len(got) |-> sent[i]]
    BY <2>2, <2>3
  <2>5. got = [i \in 1..Len(got) |-> got[i]]
    BY <2>2
  <2> QED BY <2>3, <2>4, <2>5
<1> QED BY <1>1, <1>2, <1>3 DEF S!InOrder

(* rtmp_server.c:1089-1230, rtmp_client.c:938-1035: of any number of frames of  *)
(* any sizes and timestamps, with any lengths of app, URL and stream key the   *)
(* client's buffers hold and any chunk size it may be configured with, the     *)
(* server takes payload for a header only after a frame of the three odd       *)
(* kinds; until then it has assembled a beginning of what was written; and a   *)
(* connection that publishes has been through connect.                        *)
THEOREM SessionStaysInOrder == BothSafety => []SessionInOrder
<1>1. BothInit => SessionInv
  BY SessionBegins DEF BothInit
<1>2. SessionInv /\ [BothNext]_bothVars => SessionInv'
  <2> SUFFICES ASSUME SessionInv, [BothNext]_bothVars PROVE SessionInv'
    OBVIOUS
  <2>1. ASSUME UNCHANGED sessionVars PROVE UNCHANGED S!vars
    BY <2>1 DEF sessionVars, S!vars, S!clientVars, S!sendVars, S!serverVars
  <2>2. [S!Next]_(S!vars)
    BY <2>1 DEF BothNext, bothVars
  <2> QED BY <2>2, SessionInvKept
<1> QED BY <1>1, <1>2, SessionInvImplies, PTL DEF BothSafety
=============================================================================
