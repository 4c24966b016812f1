-------------------------- MODULE RtmpClientProofs --------------------------
(***************************************************************************)
(* Proofs about RtmpClient, for every set of targets: its type invariant,  *)
(* that connections are freed only when nobody uses them, and no socket is *)
(* lost.  The argument is the life of a connection: thread_running is      *)
(* cleared only by the destroying thread, which joins before it frees; the *)
(* manager, which alone adds connections, has ended by then; and the       *)
(* sender uses connections only while it holds the mutex.                  *)
(***************************************************************************)
EXTENDS RtmpClient, TLAPS

(* Every variable stays within its type.                                   *)
THEOREM TypeCorrect == Spec => []TypeOK
<1> USE DEF mainVars, listVars, connVars, senderVars, None
<1>1. Init => TypeOK
  <2> SUFFICES ASSUME Init PROVE TypeOK
    OBVIOUS
  <2>1. faults \in 0..MaxFaults
    BY SizesAssumption DEF Init
  <2>2. mpc \notin {"close", "jointhread", "free"} /\ spc = "idle"
    BY DEF Init
  <2> QED
    BY <2>1, <2>2 DEF Init, TypeOK
<1>2. TypeOK /\ [Next]_vars => TypeOK'
  <2> SUFFICES ASSUME TypeOK, [Next]_vars PROVE TypeOK'
    OBVIOUS
  <2> USE SizesAssumption DEF TypeOK, Goto, ManagerGoes, Goes, SenderGoes, Fault
  <2>1. CASE Create
    BY <2>1 DEF Create
  <2>2. CASE JoinManager
    BY <2>2 DEF JoinManager
  <2>3. CASE StopConnection
    BY <2>3 DEF StopConnection
  <2>4. CASE CloseSocket
    BY <2>4 DEF CloseSocket
  <2>5. CASE JoinThread
    BY <2>5 DEF JoinThread
  <2>6. CASE FreeConnection
    BY <2>6 DEF FreeConnection
  <2>7. CASE UnlockList
    BY <2>7 DEF UnlockList
  <2>8. CASE FreeClient
    BY <2>8 DEF FreeClient
  <2>9. CASE BeginStop
    <3>1. /\ mpc' = "join" /\ running' = FALSE
          /\ UNCHANGED <<client, cur, mutex, gpc, conns, tpc, trun, state, sock, peer,
                         spc, todo, to, avc, faults>>
      BY ONLY <2>9 DEF BeginStop, listVars, connVars, senderVars
    <3>2. /\ mpc' \in {"init", "up", "join", "lock", "list", "close", "jointhread",
                      "free", "freeclient", "down"}
          /\ mpc' \notin {"close", "jointhread", "free"}
          /\ running' \in BOOLEAN
      BY ONLY <3>1
    <3> QED BY ONLY TypeOK, <3>1, <3>2 DEF TypeOK
  <2>10. CASE LockList
    BY <2>10 DEF LockList
  <2>11. CASE ManagerTop
    BY <2>11 DEF ManagerTop
  <2>12. CASE ManagerSleep
    BY <2>12 DEF ManagerSleep
  <2>13. CASE Manage
    BY <2>13 DEF Manage
  <2>14. ASSUME NEW t \in Targets, Parse(t) PROVE TypeOK'
    BY <2>14 DEF Parse
  <2>15. ASSUME NEW t \in Targets, Loop(t) PROVE TypeOK'
    BY <2>15 DEF Loop
  <2>16. ASSUME NEW t \in Targets, Open(t) PROVE TypeOK'
    BY <2>16 DEF Open
  <2>17. ASSUME NEW t \in Targets, Publish(t) PROVE TypeOK'
    BY <2>17 DEF Publish
  <2>18. ASSUME NEW t \in Targets, SetupFails(t) PROVE TypeOK'
    BY <2>18 DEF SetupFails
  <2>19. ASSUME NEW t \in Targets, Announce(t) PROVE TypeOK'
    BY <2>19 DEF Announce
  <2>20. ASSUME NEW t \in Targets, AnnounceFails(t) PROVE TypeOK'
    BY <2>20 DEF AnnounceFails
  <2>21. ASSUME NEW t \in Targets, Leave(t) PROVE TypeOK'
    BY <2>21 DEF Leave
  <2>22. ASSUME NEW t \in Targets, Close(t) PROVE TypeOK'
    BY <2>22 DEF Close
  <2>23. ASSUME NEW t \in Targets, Sleep(t) PROVE TypeOK'
    BY <2>23 DEF Sleep
  <2>24. ASSUME NEW t \in Targets, Detect(t) PROVE TypeOK'
    BY <2>24 DEF Detect
  <2>25. ASSUME NEW t \in Targets, Drop(t) PROVE TypeOK'
    BY <2>25 DEF Drop
  <2>26. CASE FrameArrives
    BY <2>26 DEF FrameArrives
  <2>27. CASE CountActive
    BY <2>27 DEF CountActive
  <2>28. CASE SenderLocks
    BY <2>28 DEF SenderLocks
  <2>29. CASE UseAfterFree
    BY <2>29 DEF UseAfterFree
  <2>30. CASE NextConnection
    BY <2>30 DEF NextConnection
  <2>31. CASE SendHeader
    BY <2>31 DEF SendHeader
  <2>32. CASE WaiveHeader
    BY <2>32 DEF WaiveHeader
  <2>33. CASE SkipFrame
    BY <2>33 DEF SkipFrame
  <2>34. CASE HeaderFails
    BY <2>34 DEF HeaderFails
  <2>35. CASE SendFrame
    BY <2>35 DEF SendFrame
  <2>36. CASE FrameFails
    BY <2>36 DEF FrameFails
  <2>37. CASE MarkDisconnected
    BY <2>37 DEF MarkDisconnected
  <2>38. CASE SenderUnlocks
    BY <2>38 DEF SenderUnlocks
  <2>39. CASE UNCHANGED vars
    BY <2>39 DEF vars
  <2>40. QED
    BY <2>1, <2>2, <2>3, <2>4, <2>5, <2>6, <2>7, <2>8, <2>9, <2>10,
       <2>11, <2>12, <2>13, <2>14, <2>15, <2>16, <2>17, <2>18, <2>19,
       <2>20, <2>21, <2>22, <2>23, <2>24, <2>25, <2>26, <2>27, <2>28,
       <2>29, <2>30, <2>31, <2>32, <2>33, <2>34, <2>35, <2>36, <2>37,
       <2>38, <2>39
       DEF Next, Main, Manager, Thread, Sender
<1> QED
  BY <1>1, <1>2, PTL DEF Spec

-----------------------------------------------------------------------------
(* Who holds connections_mutex is told by where the threads are.           *)
MutexInv == /\ mutex = "main" <=> mpc \in {"list", "close", "jointhread", "free"}
            /\ mutex = "sender" <=> spc \in {"next", "header", "frame", "mark"}

(* The sender keeps connections only inside its critical section, and they *)
(* are in the list.                                                        *)
SenderInv == /\ todo \subseteq conns /\ to \in conns \cup {None}
             /\ mutex # "sender" => todo = {} /\ to = None
             /\ spc = "next" => to = None

(* The manager has ended when the list is taken apart, and the list is     *)
(* empty when the client is freed.                                         *)
TeardownInv == /\ mpc \notin {"init", "up", "join"} => gpc = "exited"
               /\ mpc \in {"freeclient", "down"} => conns = {}
               /\ client = "freed" => mpc = "down"

(* A connection whose thread_running is clear has no thread, except the one*)
(* that is being stopped; and one out of the list has neither thread nor   *)
(* socket.                                                                 *)
Threadless(t) == tpc[t] \in {"none", "returned"}
ThreadInv == \A t \in Targets :
    /\ trun[t] \/ Threadless(t) \/ (mpc \in {"close", "jointhread"} /\ t = cur)
    /\ mpc = "free" /\ t = cur => Threadless(t)
    /\ t \notin conns => Threadless(t)

ClientInv == TypeOK /\ MutexInv /\ SenderInv /\ TeardownInv /\ ThreadInv /\ SocketsAccounted

LEMMA Inductive == Spec => []ClientInv
<1> USE DEF mainVars, listVars, connVars, senderVars, None
<1>1. TypeOK /\ Init => ClientInv
  BY DEF Init, ClientInv, MutexInv, SenderInv, TeardownInv, ThreadInv, Threadless,
         SocketsAccounted
<1>2. TypeOK' /\ ClientInv /\ [Next]_vars => ClientInv'
  <2> SUFFICES ASSUME TypeOK', ClientInv, [Next]_vars PROVE ClientInv'
    OBVIOUS
  <2> USE DEF ClientInv, TypeOK, MutexInv, SenderInv, TeardownInv, ThreadInv,
              Threadless, SocketsAccounted, Freed,
              Goto, ManagerGoes, Goes, SenderGoes, Fault
  <2>1. CASE Create
    BY <2>1 DEF Create
  <2>2. CASE JoinManager
    BY <2>2 DEF JoinManager
  <2>3. CASE StopConnection
    BY <2>3 DEF StopConnection
  <2>4. CASE CloseSocket
    BY <2>4 DEF CloseSocket
  <2>5. CASE JoinThread
    BY <2>5 DEF JoinThread
  <2>6. CASE FreeConnection
    BY <2>6 DEF FreeConnection
  <2>7. CASE UnlockList
    BY <2>7 DEF UnlockList
  <2>8. CASE FreeClient
    BY <2>8 DEF FreeClient
  <2>9. CASE BeginStop
    BY <2>9 DEF BeginStop
  <2>10. CASE LockList
    BY <2>10 DEF LockList
  <2>11. CASE ManagerTop
    BY <2>11 DEF ManagerTop
  <2>12. CASE ManagerSleep
    BY <2>12 DEF ManagerSleep
  <2>13. CASE Manage
    <3>1. PICK threadless \in SUBSET (Targets \ conns) :
             LET started == (Targets \ conns) \ threadless
             IN  /\ trun' = [t \in Targets |-> trun[t] \/ t \in started]
                 /\ tpc' = [t \in Targets |-> IF t \in started THEN "parse" ELSE tpc[t]]
      BY ONLY <2>13 DEF Manage
    <3>2. conns' = Targets /\ gpc = "manage" /\ gpc' = "sleep" /\ mutex = "free"
          /\ UNCHANGED <<mpc, cur, client, mutex, todo, to, spc, sock>>
      BY <2>13 DEF Manage
    <3>3. mpc \in {"init", "up", "join"}
      BY <3>2
    <3>4. MutexInv' /\ SenderInv' /\ TeardownInv'
      BY <3>2, <3>3
    <3>5. ASSUME NEW t \in Targets
          PROVE  (tpc'[t] = tpc[t] /\ trun'[t] = trun[t])
                   \/ (t \notin conns /\ tpc'[t] = "parse" /\ trun'[t])
      <4> DEFINE started == (Targets \ conns) \ threadless
      <4>1. /\ trun'[t] = (trun[t] \/ t \in started)
            /\ tpc'[t] = IF t \in started THEN "parse" ELSE tpc[t]
        BY <3>1
      <4>2. trun[t] \in BOOLEAN
        OBVIOUS
      <4> HIDE DEF TypeOK
      <4>3. CASE t \in started
        BY <4>1, <4>3 DEF started
      <4>4. CASE t \notin started
        BY ONLY <4>1, <4>2, <4>4
      <4> QED
        BY <4>3, <4>4
    <3>6. ThreadInv'
      <4>1. \A t \in Targets : t \in conns'
        BY <3>2
      <4>2. ASSUME NEW t \in Targets, t \in conns, tpc'[t] = tpc[t], trun'[t] = trun[t]
            PROVE  trun'[t] \/ Threadless(t)'
        BY <4>2, <3>3
      <4>3. ASSUME NEW t \in Targets, t \notin conns
            PROVE  trun'[t] \/ Threadless(t)'
        BY <4>3, <3>3, <3>5
      <4> QED
        BY <4>1, <4>2, <4>3, <3>2, <3>3, <3>5
    <3>7. SocketsAccounted'
      BY <3>2, <3>5
    <3> QED
      BY <3>4, <3>6, <3>7
  <2>14. ASSUME NEW t \in Targets, Parse(t) PROVE ClientInv'
    BY <2>14 DEF Parse
  <2>15. ASSUME NEW t \in Targets, Loop(t) PROVE ClientInv'
    BY <2>15 DEF Loop
  <2>16. ASSUME NEW t \in Targets, Open(t) PROVE ClientInv'
    BY <2>16 DEF Open
  <2>17. ASSUME NEW t \in Targets, Publish(t) PROVE ClientInv'
    BY <2>17 DEF Publish
  <2>18. ASSUME NEW t \in Targets, SetupFails(t) PROVE ClientInv'
    BY <2>18 DEF SetupFails
  <2>19. ASSUME NEW t \in Targets, Announce(t) PROVE ClientInv'
    BY <2>19 DEF Announce
  <2>20. ASSUME NEW t \in Targets, AnnounceFails(t) PROVE ClientInv'
    BY <2>20 DEF AnnounceFails
  <2>21. ASSUME NEW t \in Targets, Leave(t) PROVE ClientInv'
    BY <2>21 DEF Leave
  <2>22. ASSUME NEW t \in Targets, Close(t) PROVE ClientInv'
    BY <2>22 DEF Close
  <2>23. ASSUME NEW t \in Targets, Sleep(t) PROVE ClientInv'
    BY <2>23 DEF Sleep
  <2>24. ASSUME NEW t \in Targets, Detect(t) PROVE ClientInv'
    BY <2>24 DEF Detect
  <2>25. ASSUME NEW t \in Targets, Drop(t) PROVE ClientInv'
    BY <2>25 DEF Drop
  <2>26. CASE FrameArrives
    BY <2>26 DEF FrameArrives
  <2>27. CASE CountActive
    BY <2>27 DEF CountActive
  <2>28. CASE SenderLocks
    BY <2>28 DEF SenderLocks
  <2>29. CASE UseAfterFree
    BY <2>29 DEF UseAfterFree
  <2>30. CASE NextConnection
    BY <2>30 DEF NextConnection
  <2>31. CASE SendHeader
    BY <2>31 DEF SendHeader
  <2>32. CASE WaiveHeader
    BY <2>32 DEF WaiveHeader
  <2>33. CASE SkipFrame
    BY <2>33 DEF SkipFrame
  <2>34. CASE HeaderFails
    BY <2>34 DEF HeaderFails
  <2>35. CASE SendFrame
    BY <2>35 DEF SendFrame
  <2>36. CASE FrameFails
    BY <2>36 DEF FrameFails
  <2>37. CASE MarkDisconnected
    BY <2>37 DEF MarkDisconnected
  <2>38. CASE SenderUnlocks
    BY <2>38 DEF SenderUnlocks
  <2>39. CASE UNCHANGED vars
    BY <2>39 DEF vars
  <2>40. QED
    BY <2>1, <2>2, <2>3, <2>4, <2>5, <2>6, <2>7, <2>8, <2>9, <2>10,
       <2>11, <2>12, <2>13, <2>14, <2>15, <2>16, <2>17, <2>18, <2>19,
       <2>20, <2>21, <2>22, <2>23, <2>24, <2>25, <2>26, <2>27, <2>28,
       <2>29, <2>30, <2>31, <2>32, <2>33, <2>34, <2>35, <2>36, <2>37,
       <2>38, <2>39
       DEF Next, Main, Manager, Thread, Sender
<1> QED
  BY <1>1, <1>2, TypeCorrect, PTL DEF Spec

(* rtmp_client.c:502-532: a connection is freed only when neither its      *)
(* thread nor the sender uses it, the client only when the manager and all *)
(* connection threads have ended; a sender that tested the pointer before  *)
(* (line 735) may still be at its mutex.                                   *)
THEOREM NothingFreedInUse == Spec => []FreedIsUnused
<1>1. ClientInv => FreedIsUnused
  BY SizesAssumption DEF ClientInv, MutexInv, SenderInv, TeardownInv, ThreadInv,
                         Threadless, FreedIsUnused, Freed, TypeOK
<1> QED
  BY <1>1, Inductive, PTL

(* Every open socket has an owner that closes it.                          *)
THEOREM NoSocketLost == Spec => []SocketsAccounted
<1>1. ClientInv => SocketsAccounted
  BY DEF ClientInv
<1> QED
  BY <1>1, Inductive, PTL

=============================================================================
