--------------------------- MODULE RtspServerProofs ---------------------------
(***************************************************************************)
(* Theorems of RtspServer, for any number of slots, clients and            *)
(* descriptors.                                                            *)
(***************************************************************************)
EXTENDS RtspServer, FiniteSetTheorems, TLAPS

USE SlotsAssumption, ClientsAssumption, FdsAssumption, BoundsAssumption

(* Handing a number back to the kernel keeps the table a table.            *)
LEMMA ClosedType ==
  ASSUME kernel \in [Fds -> Objects], NEW C
  PROVE  Closed(C) \in [Fds -> Objects]
  BY DEF Closed, Objects

(* A recorded response is one of the possible responses.                   *)
LEMMA AnswerType ==
  ASSUME NEW s \in Slots, NEW m \in {"PLAY", "PAUSE", "TEARDOWN"}, NEW ok \in BOOLEAN,
         Answer(s, m, ok)
  PROVE  reply' \in Replies
  BY DEF Answer, Replies

(* What Return writes, and what the handlers write.                        *)
LoopType ==
    /\ active \in [Slots -> BOOLEAN] /\ st \in [Slots -> States]
    /\ pc \in {"select", "accept", "tls", "scan", "back", "teardown", "closing",
              "exited"}
    /\ cur \in Slots \cup {0}
    /\ pc \in {"back", "teardown", "closing"} => cur \in Slots
    /\ was \in BOOLEAN /\ result \in BOOLEAN

SessionType ==
    /\ sock \in [Slots -> Fds \cup {None}] /\ rtp \in [Slots -> Fds \cup {None}]
    /\ transport \in [Slots -> {"UDP", "TCP"}] /\ idle \in [Slots -> BOOLEAN]
    /\ kernel \in [Fds -> Objects]
    /\ reply \in Replies /\ granted \subseteq Slots
    /\ lostTeardowns \in 0..MaxLostTeardowns

OtherType ==
    /\ count \in Int /\ gone \subseteq Fds /\ held \subseteq Fds
    /\ phase \in {"created", "running", "stopping", "destroyed"}
    /\ ready \subseteq Fds /\ pending \subseteq {"plain", "tls"}
    /\ badHandshakes \in 0..MaxBadHandshakes

LEMMA TypeSplit == /\ TypeOK <=> LoopType /\ SessionType /\ OtherType
                   /\ TypeOK' <=> LoopType' /\ SessionType' /\ OtherType'
  BY DEF TypeOK, LoopType, SessionType, OtherType

(* The initial state is type correct.                                      *)
LEMMA TypeInit == Init => TypeOK
<1> SUFFICES ASSUME Init PROVE TypeOK
  OBVIOUS
<1>0. was \in BOOLEAN /\ result \in BOOLEAN
  BY DEF Init
<1>1. LoopType
  BY <1>0 DEF Init, LoopType, States
<1>4. OtherType
  BY DEF Init, OtherType
<1>2. NoReply \in Replies
  BY DEF NoReply, Replies
<1>3. SessionType
  BY <1>2 DEF Init, SessionType, Objects, None
<1> QED BY <1>1, <1>3, <1>4, TypeSplit

LEMMA ReturnType ==
  ASSUME LoopType, NEW s \in Slots, NEW new \in States, NEW sent \in BOOLEAN,
         Return(s, new, sent)
  PROVE  LoopType'
<1>1. /\ cur' = s /\ active' = active /\ pc' = "back" /\ result' = sent
      /\ was' = (st[s] = "PLAYING") /\ st' = [st EXCEPT ![s] = new]
  BY DEF Return
<1>2. was' \in BOOLEAN
  BY <1>1
<1> QED BY <1>1, <1>2 DEF LoopType

(* Every step of the server thread preserves type correctness.             *)
LEMMA TypeServe ==
  ASSUME TypeOK, NEW s \in Slots, Serve(s)
  PROVE  TypeOK'
<1>0. LoopType /\ SessionType /\ OtherType
  BY TypeSplit
<1>s. Seen(s) \in States /\ {"INIT", "READY", "PLAYING"} \subseteq States
  BY <1>0 DEF Seen, States, LoopType
<1>r. NoReply \in Replies
  BY DEF NoReply, Replies
<1>o. ASSUME UNCHANGED <<count, gone, held, phase, ready, pending, badHandshakes>>
      PROVE  OtherType'
  BY <1>0, <1>o DEF OtherType
<1>1. CASE Disconnect(s)
  <2>1. LoopType'
    BY <1>0, <1>1, <1>s, ReturnType DEF Disconnect
  <2>2. SessionType'
    BY <1>0, <1>1, <1>r DEF Disconnect, tableVars, faultVars, SessionType
  <2> QED BY <1>1, <1>o, <2>1, <2>2, TypeSplit DEF Disconnect, tableVars, faultVars
<1>2. CASE Interleaved(s)
  <2>1. LoopType'
    BY <1>0, <1>2, <1>s, ReturnType DEF Interleaved
  <2>2. SessionType'
    BY <1>0, <1>2, <1>r DEF Interleaved, tableVars, faultVars, SessionType
  <2> QED BY <1>2, <1>o, <2>1, <2>2, TypeSplit DEF Interleaved, tableVars, faultVars
<1>3. CASE Teardown(s)
  <2>1. reply' \in Replies
    BY <1>3, AnswerType DEF Teardown
  <2>2. lostTeardowns' \in 0..MaxLostTeardowns
    <3>1. \/ lostTeardowns' = lostTeardowns
          \/ /\ lostTeardowns < MaxLostTeardowns
             /\ lostTeardowns' = lostTeardowns + 1
      BY <1>3 DEF Teardown
    <3>2. lostTeardowns \in Nat /\ lostTeardowns <= MaxLostTeardowns
      BY <1>0 DEF SessionType
    <3> QED BY ONLY <3>1, <3>2, BoundsAssumption
  <2>3. UNCHANGED <<active, sock, rtp, transport, granted, count, kernel, gone, held,
                    badHandshakes, phase, ready, pending, was, result>>
    BY <1>3 DEF Teardown, tableVars
  <2>4. st' = [st EXCEPT ![s] = "INIT"] /\ idle' = [idle EXCEPT ![s] = FALSE]
        /\ cur' = s /\ pc' = "teardown"
    BY <1>3 DEF Teardown, Touch
  <2>5. LoopType'
    BY <1>0, <1>s, <2>3, <2>4 DEF LoopType
  <2>6. SessionType'
    BY <1>0, <2>1, <2>2, <2>3, <2>4 DEF SessionType
  <2> QED BY <1>o, <2>3, <2>5, <2>6, TypeSplit
<1>4. ASSUME NEW sent \in BOOLEAN, Other(s, sent)
      PROVE  TypeOK'
  <2>1. LoopType'
    BY <1>0, <1>4, <1>s, ReturnType DEF Other
  <2>2. SessionType'
    BY <1>0, <1>4, <1>r DEF Other, Touch, tableVars, faultVars, SessionType
  <2> QED BY <1>4, <1>o, <2>1, <2>2, TypeSplit DEF Other, tableVars, faultVars
<1>5. ASSUME NEW sent \in BOOLEAN, SetupTcp(s, sent)
      PROVE  TypeOK'
  <2>1. LoopType'
    BY <1>0, <1>5, <1>s, ReturnType DEF SetupTcp
  <2>2. SessionType'
    BY <1>0, <1>5, <1>r DEF SetupTcp, Touch, tableVars, faultVars, SessionType
  <2> QED BY <1>5, <1>o, <2>1, <2>2, TypeSplit DEF SetupTcp, tableVars, faultVars
<1>6. ASSUME NEW sent \in BOOLEAN, SetupNoPorts(s, sent)
      PROVE  TypeOK'
  <2>1. LoopType'
    BY <1>0, <1>6, <1>s, ReturnType DEF SetupNoPorts
  <2>2. SessionType'
    BY <1>0, <1>6, <1>r DEF SetupNoPorts, Touch, tableVars, faultVars, SessionType
  <2> QED BY <1>6, <1>o, <2>1, <2>2, TypeSplit DEF SetupNoPorts, tableVars, faultVars
<1>7. ASSUME NEW sent \in BOOLEAN, SetupUdp(s, sent)
      PROVE  TypeOK'
  <2>1. LoopType'
    BY <1>0, <1>7, <1>s, ReturnType DEF SetupUdp
  <2>2. SessionType'
    <3>1. rtp' \in [Slots -> Fds \cup {None}] /\ kernel' \in [Fds -> Objects]
      BY <1>0, <1>7 DEF SetupUdp, SessionType, Objects
    <3>2. /\ UNCHANGED <<sock, granted, lostTeardowns>> /\ reply' = NoReply
          /\ transport' = [transport EXCEPT ![s] = "UDP"]
          /\ idle' = [idle EXCEPT ![s] = FALSE]
      BY <1>7 DEF SetupUdp, Touch, faultVars
    <3> QED BY <1>0, <1>r, <3>1, <3>2 DEF SessionType
  <2> QED BY <1>7, <1>o, <2>1, <2>2, TypeSplit DEF SetupUdp, tableVars, faultVars
<1>8. ASSUME NEW sent \in BOOLEAN, Play(s, sent)
      PROVE  TypeOK'
  <2>1. LoopType'
    BY <1>0, <1>8, <1>s, ReturnType DEF Play
  <2>2. SessionType'
    <3>1. reply' \in Replies
      BY <1>8, AnswerType DEF Play
    <3>2. granted' \subseteq Slots
      BY <1>0, <1>8 DEF Play, SessionType
    <3> QED BY <1>0, <1>8, <3>1, <3>2 DEF Play, Touch, tableVars, faultVars, SessionType
  <2> QED BY <1>8, <1>o, <2>1, <2>2, TypeSplit DEF Play, tableVars, faultVars
<1>9. ASSUME NEW sent \in BOOLEAN, Pause(s, sent)
      PROVE  TypeOK'
  <2>1. LoopType'
    BY <1>0, <1>9, <1>s, ReturnType DEF Pause
  <2>2. SessionType'
    <3>1. reply' \in Replies
      BY <1>9, AnswerType DEF Pause
    <3> QED BY <1>0, <1>9, <3>1 DEF Pause, Touch, tableVars, faultVars, SessionType
  <2> QED BY <1>9, <1>o, <2>1, <2>2, TypeSplit DEF Pause, tableVars, faultVars
<1> QED BY <1>1, <1>2, <1>3, <1>4, <1>5, <1>6, <1>7, <1>8, <1>9 DEF Serve

(* So do the steps of the loop around the requests, of the main thread and *)
(* of the environment.                                                     *)
LEMMA TypeNext == TypeOK /\ [Next]_vars => TypeOK'
<1> SUFFICES ASSUME TypeOK, [Next]_vars PROVE TypeOK'
  OBVIOUS
<1> USE DEF TypeOK
<1>1. CASE UNCHANGED vars
  BY <1>1 DEF vars, slotVars, tableVars, loopVars, faultVars
<1>2. CASE Start \/ Stop
  BY <1>2 DEF Start, Stop, slotVars, tableVars, loopVars, faultVars
<1>3. CASE Destroy
  <2>1. kernel' \in [Fds -> Objects]
    BY <1>3, ClosedType DEF Destroy
  <2> QED BY <1>3, <2>1 DEF Destroy, loopVars, faultVars, States
<1>4. CASE Exit
  BY <1>4 DEF Exit, slotVars, tableVars, faultVars
<1>5. CASE SelectFails
  BY <1>5 DEF SelectFails, tableVars, faultVars, loopVars
<1>6. CASE SelectReady
  <2>1. Watched \subseteq Fds
    BY DEF Watched, None
  <2> QED BY <1>6, <2>1 DEF SelectReady, slotVars, tableVars, faultVars
<1>7. CASE SelectTimesOut
  <2>1. kernel' \in [Fds -> Objects]
    BY <1>7, ClosedType DEF SelectTimesOut
  <2>2. Cardinality(Expired) \in Nat
    <3>1. IsFiniteSet(Slots)
      BY FS_Interval DEF Slots
    <3> QED BY <3>1, FS_Subset, FS_CardinalityType DEF Expired
  <2>3. gone' \subseteq Fds
    BY <1>7 DEF SelectTimesOut
  <2>4. /\ sock' \in [Slots -> Fds \cup {None}]
        /\ rtp' \in [Slots -> Fds \cup {None}]
        /\ active' \in [Slots -> BOOLEAN]
        /\ idle' \in [Slots -> BOOLEAN]
    BY <1>7 DEF SelectTimesOut
  <2>5. st' \in [Slots -> States]
    BY <1>7 DEF SelectTimesOut, States
  <2>6. count' \in Int
    BY <1>7, <2>2 DEF SelectTimesOut
  <2> QED BY <1>7, <2>1, <2>3, <2>4, <2>5, <2>6 DEF SelectTimesOut, loopVars, faultVars
<1>8. CASE AcceptNothing
  BY <1>8 DEF AcceptNothing, NextListener, slotVars, tableVars, faultVars
<1>9. CASE AcceptPlain
  BY <1>9 DEF AcceptPlain, Occupy, NextListener, faultVars, States, Objects
<1>10. CASE AcceptTls
  BY <1>10 DEF AcceptTls, Occupy, NextListener, faultVars, States, Objects
<1>11. CASE HandshakeFails
  BY <1>11 DEF HandshakeFails, Occupy, NextListener, tableVars, States
<1>12. CASE ScanDone
  BY <1>12 DEF ScanDone, slotVars, tableVars, faultVars, Replies, NoReply
<1>13. CASE FinishTeardown \/ FinishClose
  <2>1. /\ Cleanup(cur) /\ cur \in Slots
        /\ count' = count - 1
        /\ pc' \in {"scan", "closing"}
        /\ UNCHANGED <<badHandshakes, lostTeardowns, phase, cur, ready, pending, was,
                       result, reply>>
    BY <1>13 DEF FinishTeardown, FinishClose, faultVars
  <2>2. kernel' \in [Fds -> Objects]
    BY <2>1, ClosedType DEF Cleanup
  <2>3. gone' \subseteq Fds /\ held' \subseteq Fds
    BY <2>1 DEF Cleanup
  <2>4. /\ sock' \in [Slots -> Fds \cup {None}]
        /\ rtp' \in [Slots -> Fds \cup {None}]
        /\ active' \in [Slots -> BOOLEAN]
        /\ idle' \in [Slots -> BOOLEAN]
        /\ st' \in [Slots -> States]
        /\ transport' \in [Slots -> {"UDP", "TCP"}] /\ granted' \subseteq Slots
    BY <2>1 DEF Cleanup, States
  <2> QED BY <2>1, <2>2, <2>3, <2>4
<1>14. CASE \E s \in Slots : Serve(s)
  BY <1>14, TypeServe
<1>15. CASE PeerCloses
  BY <1>15 DEF PeerCloses, serverVars, slotVars, loopVars, faultVars
<1>16. CASE ForeignOpen
  BY <1>16 DEF ForeignOpen, serverVars, slotVars, loopVars, faultVars, Objects
<1>17. CASE ForeignClose
  <2>1. kernel' \in [Fds -> Objects]
    BY <1>17, ClosedType DEF ForeignClose
  <2> QED BY <1>17, <2>1 DEF ForeignClose, serverVars, slotVars, loopVars, faultVars
<1>18. CASE \E s \in Slots : TimePasses(s)
  BY <1>18 DEF TimePasses, tableVars, loopVars, faultVars
<1>19. CASE Restore
  <2>1. /\ pc' \in {"scan", "closing"} /\ cur' = cur /\ cur \in Slots
        /\ active' \in [Slots -> BOOLEAN] /\ st' \in [Slots -> States]
    BY <1>19 DEF Restore, States
  <2> QED BY <1>19, <2>1 DEF Restore, tableVars, faultVars
<1> QED BY <1>1, <1>2, <1>3, <1>4, <1>5, <1>6, <1>7, <1>8, <1>9, <1>10, <1>11, <1>12,
           <1>13, <1>14, <1>15, <1>16, <1>17, <1>18, <1>19
           DEF Next, ServerThread, MainThread, Environment

(* Type correctness of every run of the server.                            *)
THEOREM TypeCorrect == Spec => []TypeOK
<1>1. Init => TypeOK
  BY TypeInit
<1>2. TypeOK /\ [Next]_vars => TypeOK'
  BY TypeNext
<1> QED BY <1>1, <1>2, PTL DEF Spec

-----------------------------------------------------------------------------
(***************************************************************************)
(* Without failing handshakes the descriptors of the slots and of the      *)
(* other threads stay their own: SocketInv is inductive over TypeOK.       *)
(***************************************************************************)
SocketInv == OwnSockets /\ ForeignIntact

(* Objects of different slots, kinds and threads are different.            *)
LEMMA ObjectsDiffer ==
  ASSUME NEW s \in Slots, NEW x \in Slots
  PROVE  /\ Ctrl(s) # Rtp(x) /\ Ctrl(s) # Free /\ Ctrl(s) # Foreign
         /\ Rtp(s) # Free /\ Rtp(s) # Foreign /\ Foreign # Free
         /\ Ctrl(s) = Ctrl(x) => s = x
         /\ Rtp(s) = Rtp(x) => s = x
  BY DEF Ctrl, Rtp, Free, Foreign

(* No watched descriptor is closed, so select() never reports EBADF.       *)
LEMMA WatchedOpen ==
  ASSUME TypeOK, SocketInv
  PROVE  \A f \in Watched : kernel[f] # Free
<1> SUFFICES ASSUME NEW s \in Slots, sock[s] # None PROVE kernel[sock[s]] # Free
  BY DEF Watched
<1> QED BY ObjectsDiffer DEF SocketInv, OwnSockets

(* Cleaning up a slot closes its own sockets only.                         *)
LEMMA CleanupOwn ==
  ASSUME TypeOK, SocketInv, NEW s \in Slots, Cleanup(s)
  PROVE  SocketInv'
<1>1. kernel' = Closed({sock[s], rtp[s]}) /\ UNCHANGED held
  BY DEF Cleanup
<1>s. /\ sock[s] \notin Fds \/ kernel[sock[s]] = Ctrl(s)
      /\ rtp[s] \notin Fds \/ kernel[rtp[s]] = Rtp(s)
  BY FdsAssumption DEF None, SocketInv, OwnSockets
<1>2. ASSUME NEW x \in Slots, sock'[x] # None
      PROVE  kernel'[sock'[x]] = Ctrl(x)
  <2>1. x # s /\ sock'[x] = sock[x] /\ kernel[sock[x]] = Ctrl(x) /\ sock[x] \in Fds
    BY <1>2 DEF Cleanup, TypeOK, SocketInv, OwnSockets
  <2>2. sock[x] # sock[s] /\ sock[x] # rtp[s]
    BY <1>s, <2>1, ObjectsDiffer
  <2> QED BY <1>1, <2>1, <2>2 DEF Closed
<1>3. ASSUME NEW x \in Slots, rtp'[x] # None
      PROVE  kernel'[rtp'[x]] = Rtp(x)
  <2>1. x # s /\ rtp'[x] = rtp[x] /\ kernel[rtp[x]] = Rtp(x) /\ rtp[x] \in Fds
    BY <1>3 DEF Cleanup, TypeOK, SocketInv, OwnSockets
  <2>2. rtp[x] # sock[s] /\ rtp[x] # rtp[s]
    BY <1>s, <2>1, ObjectsDiffer
  <2> QED BY <1>1, <2>1, <2>2 DEF Closed
<1>4. ASSUME NEW f \in held
      PROVE  kernel'[f] = Foreign
  <2>1. kernel[f] = Foreign /\ f \in Fds
    BY DEF TypeOK, SocketInv, ForeignIntact
  <2>2. f # sock[s] /\ f # rtp[s]
    BY <1>s, <2>1, ObjectsDiffer
  <2> QED BY <1>1, <2>1, <2>2 DEF Closed
<1> QED BY <1>1, <1>2, <1>3, <1>4 DEF SocketInv, OwnSockets, ForeignIntact

(* A sweep of a set of slots, all of them or the expired ones, does too.   *)
LEMMA SweepOwn ==
  ASSUME TypeOK, SocketInv, NEW E \in SUBSET Slots, NEW C,
         C = ({sock[s] : s \in E} \cup {rtp[s] : s \in E}) \ {None},
         kernel' = Closed(C), held' = held,
         sock' = [s \in Slots |-> IF s \in E THEN None ELSE sock[s]],
         rtp' = [s \in Slots |-> IF s \in E THEN None ELSE rtp[s]]
  PROVE  SocketInv'
<1>c. ASSUME NEW f \in C
      PROVE  \E y \in E : kernel[f] \in {Ctrl(y), Rtp(y)}
  <2>1. PICK y \in E : f \in {sock[y], rtp[y]}
    OBVIOUS
  <2> QED BY <2>1 DEF SocketInv, OwnSockets
<1>1. ASSUME NEW x \in Slots, sock'[x] # None
      PROVE  kernel'[sock'[x]] = Ctrl(x)
  <2>1. x \notin E /\ sock'[x] = sock[x] /\ kernel[sock[x]] = Ctrl(x) /\ sock[x] \in Fds
    BY <1>1 DEF TypeOK, SocketInv, OwnSockets
  <2>2. ASSUME sock[x] \in C PROVE FALSE
    <3>1. PICK y \in E : kernel[sock[x]] \in {Ctrl(y), Rtp(y)}
      BY <2>2, <1>c
    <3> QED BY <3>1, <2>1, ObjectsDiffer
  <2> QED BY <2>1, <2>2 DEF Closed
<1>2. ASSUME NEW x \in Slots, rtp'[x] # None
      PROVE  kernel'[rtp'[x]] = Rtp(x)
  <2>1. x \notin E /\ rtp'[x] = rtp[x] /\ kernel[rtp[x]] = Rtp(x) /\ rtp[x] \in Fds
    BY <1>2 DEF TypeOK, SocketInv, OwnSockets
  <2>2. ASSUME rtp[x] \in C PROVE FALSE
    <3>1. PICK y \in E : kernel[rtp[x]] \in {Ctrl(y), Rtp(y)}
      BY <2>2, <1>c
    <3> QED BY <3>1, <2>1, ObjectsDiffer
  <2> QED BY <2>1, <2>2 DEF Closed
<1>3. ASSUME NEW f \in held
      PROVE  kernel'[f] = Foreign
  <2>1. kernel[f] = Foreign /\ f \in Fds
    BY DEF TypeOK, SocketInv, ForeignIntact
  <2>2. ASSUME f \in C PROVE FALSE
    <3>1. PICK y \in E : kernel[f] \in {Ctrl(y), Rtp(y)}
      BY <2>2, <1>c
    <3> QED BY <3>1, <2>1, ObjectsDiffer
  <2> QED BY <2>1, <2>2 DEF Closed
<1> QED BY <1>1, <1>2, <1>3 DEF SocketInv, OwnSockets, ForeignIntact

(* A new object gets a number nobody uses: nothing the slots or the other  *)
(* threads hold is free.                                                   *)
LEMMA FreshFd ==
  ASSUME TypeOK, SocketInv, NEW f \in Fds, LowestFree(f)
  PROVE  /\ \A s \in Slots : sock[s] # f /\ rtp[s] # f
         /\ f \notin held
<1>1. ASSUME NEW s \in Slots PROVE sock[s] # f /\ rtp[s] # f
  BY ObjectsDiffer, FdsAssumption DEF LowestFree, SocketInv, OwnSockets, None
<1>2. Foreign # Free
  BY DEF Foreign, Free
<1> QED BY <1>1, <1>2 DEF LowestFree, SocketInv, ForeignIntact

(* A connection accepted into a slot is the slot's own.                    *)
LEMMA AcceptOwn ==
  ASSUME TypeOK, SocketInv, NEW s \in Slots, NEW f \in Fds, LowestFree(f), Occupy(s, f),
         kernel' = [kernel EXCEPT ![f] = Ctrl(s)], held' = held
  PROVE  SocketInv'
<1>1. /\ sock' = [sock EXCEPT ![s] = f]
      /\ rtp' = [rtp EXCEPT ![s] = None]
  BY DEF Occupy
<1> QED BY <1>1, FreshFd DEF TypeOK, SocketInv, OwnSockets, ForeignIntact

LEMMA SocketNext ==
  ASSUME badHandshakes' = 0, TypeOK, SocketInv, [Next]_vars
  PROVE  SocketInv'
<1> USE DEF SocketInv, OwnSockets, ForeignIntact
<1>1. CASE UNCHANGED <<sock, rtp, kernel, held>>
  BY <1>1
<1>2. CASE Destroy
  <2>1. Closed({sock[s] : s \in Slots} \cup {rtp[s] : s \in Slots})
          = Closed(({sock[s] : s \in Slots} \cup {rtp[s] : s \in Slots}) \ {None})
    BY FdsAssumption DEF Closed, None
  <2> QED BY <1>2, <2>1, SweepOwn DEF Destroy
<1>3. CASE SelectTimesOut
  BY <1>3, SweepOwn DEF SelectTimesOut, Expired
<1>4. CASE AcceptPlain \/ AcceptTls
  BY <1>4, AcceptOwn DEF AcceptPlain, AcceptTls
<1>5. CASE FinishTeardown \/ FinishClose
  BY <1>5, CleanupOwn DEF FinishTeardown, FinishClose, TypeOK
<1>6. ASSUME NEW s \in Slots, NEW sent \in BOOLEAN, SetupUdp(s, sent)
      PROVE  SocketInv'
  <2>1. CASE UNCHANGED kernel /\ rtp' = [rtp EXCEPT ![s] = None]
    BY <1>6, <2>1 DEF SetupUdp, TypeOK
  <2>2. CASE \E f \in Fds : /\ LowestFree(f)
                            /\ rtp' = [rtp EXCEPT ![s] = f]
                            /\ kernel' = [kernel EXCEPT ![f] = Rtp(s)]
    <3>1. PICK f \in Fds : /\ LowestFree(f)
                           /\ rtp' = [rtp EXCEPT ![s] = f]
                           /\ kernel' = [kernel EXCEPT ![f] = Rtp(s)]
      BY <2>2
    <3> QED BY <1>6, <3>1, FreshFd DEF SetupUdp, TypeOK
  <2> QED BY <1>6, <2>1, <2>2 DEF SetupUdp
<1>7. CASE ForeignOpen
  <2>1. PICK f \in Fds : /\ LowestFree(f)
                         /\ kernel' = [kernel EXCEPT ![f] = Foreign]
                         /\ held' = held \cup {f}
    BY <1>7 DEF ForeignOpen
  <2> QED BY <1>7, <2>1, FreshFd DEF ForeignOpen, serverVars, slotVars, TypeOK
<1>8. CASE ForeignClose
  <2>1. PICK f \in held : /\ kernel' = Closed({f})
                          /\ held' = held \ {f}
                          /\ UNCHANGED <<sock, rtp>>
    BY <1>8 DEF ForeignClose, serverVars, slotVars
  <2>2. \A s \in Slots : /\ sock[s] # None => sock[s] # f
                         /\ rtp[s] # None => rtp[s] # f
    BY ObjectsDiffer
  <2> QED BY <2>1, <2>2 DEF Closed, TypeOK
<1>9. CASE \E s \in Slots : Serve(s)
  <2>1. PICK s \in Slots : Serve(s)
    BY <1>9
  <2>2. CASE UNCHANGED <<sock, rtp, kernel, held>>
    BY <2>2
  <2>3. CASE \E sent \in BOOLEAN : SetupUdp(s, sent)
    BY <1>6, <2>3
  <2> QED BY <2>1, <2>2, <2>3 DEF Serve, Disconnect, Interleaved, Teardown, Other,
             SetupTcp, SetupNoPorts, Play, Pause, tableVars
<1>10. ~HandshakeFails
  BY DEF HandshakeFails, TypeOK
<1>11. CASE UNCHANGED vars
  BY <1>11, <1>1 DEF vars, slotVars, tableVars
<1>12. CASE \/ Start \/ Stop \/ Exit \/ SelectFails \/ SelectReady \/ AcceptNothing
            \/ ScanDone \/ Restore \/ PeerCloses \/ \E s \in Slots : TimePasses(s)
  BY <1>12, <1>1 DEF Start, Stop, Exit, SelectFails, SelectReady, AcceptNothing,
     ScanDone, Restore, PeerCloses, TimePasses, serverVars, slotVars, tableVars
<1> QED BY <1>2, <1>3, <1>4, <1>5, <1>7, <1>8, <1>9, <1>10, <1>11, <1>12
           DEF Next, ServerThread, MainThread, Environment

-----------------------------------------------------------------------------
(***************************************************************************)
(* With no lost TEARDOWN reply either, the count is exact.  The            *)
(* windows in which a slot is half released are part of the invariant.     *)
(***************************************************************************)
WindowInv == /\ pc = "closing" => ~active[cur]
             /\ pc = "back" => active[cur]
             /\ pc = "teardown" => active[cur] /\ reply.ok

CountInv == WindowInv /\ CountExact

Counted == ActiveSlots \cup ClosingSlot

LEMMA CountedFinite ==
  ASSUME TypeOK
  PROVE  /\ IsFiniteSet(Counted) /\ Cardinality(Counted) \in Nat
         /\ IsFiniteSet(Slots) /\ Cardinality(Slots) = NumSlots
<1>1. Counted \subseteq Slots
  BY DEF Counted, ActiveSlots, ClosingSlot, TypeOK
<1>2. IsFiniteSet(Slots) /\ Cardinality(Slots) = NumSlots
  BY FS_Interval DEF Slots
<1> QED BY <1>1, <1>2, FS_Subset, FS_CardinalityType

(* A step that changes neither the set nor the count.                      *)
LEMMA CountSame ==
  ASSUME CountExact, Counted' = Counted, count' = count,
         phase = "destroyed" => phase' = "destroyed"
  PROVE  CountExact'
  BY DEF CountExact, Counted

(* An accepted connection is counted in, and its slot was free.            *)
LEMMA CountAccept ==
  ASSUME TypeOK, CountExact, NEW s \in Slots, ~active[s], pc # "closing", pc' # "closing",
         active' = [active EXCEPT ![s] = TRUE], count' = count + 1, phase' = phase
  PROVE  CountExact'
<1>1. Counted' = Counted \cup {s} /\ s \notin Counted
  <2>1. active \in [Slots -> BOOLEAN] /\ ClosingSlot = {} /\ ClosingSlot' = {}
    BY DEF TypeOK, ClosingSlot
  <2>2. ActiveSlots' = ActiveSlots \cup {s} /\ s \notin ActiveSlots
    BY <2>1 DEF ActiveSlots
  <2> QED BY <2>1, <2>2 DEF Counted
<1>2. IsFiniteSet(Counted) /\ Cardinality(Counted) \in Nat
  BY CountedFinite
<1>3. Cardinality(Counted') = Cardinality(Counted) + 1
  BY ONLY <1>1, <1>2, FS_AddElement
<1> QED BY <1>3 DEF CountExact, Counted

(* A released slot is counted out.                                         *)
LEMMA CountRelease ==
  ASSUME TypeOK, CountExact, NEW s \in Slots, s \in Counted, Counted' = Counted \ {s},
         count' = count - 1, phase' = phase
  PROVE  CountExact'
<1>1. Cardinality(Counted') = Cardinality(Counted) - 1
  BY CountedFinite, FS_RemoveElement
<1> QED BY <1>1 DEF CountExact, Counted

(* The idle sweep counts out as many clients as it releases.               *)
LEMMA CountSweep ==
  ASSUME TypeOK, CountExact, SelectTimesOut
  PROVE  CountExact'
<1>1. Expired \subseteq Counted /\ Counted' = Counted \ Expired
  BY DEF SelectTimesOut, AtSelect, Expired, Counted, ActiveSlots, ClosingSlot, loopVars,
         TypeOK
<1>2. /\ IsFiniteSet(Expired) /\ IsFiniteSet(Counted')
      /\ Cardinality(Expired) \in Nat /\ Cardinality(Counted') \in Nat
  BY <1>1, CountedFinite, FS_Subset, FS_CardinalityType
<1>3. Cardinality(Counted) = Cardinality(Counted') + Cardinality(Expired)
  <2>1. Counted = Counted' \cup Expired /\ Counted' \cap Expired = {}
    BY <1>1
  <2> QED BY <1>2, <2>1, FS_Union, FS_EmptySet
<1> QED BY <1>2, <1>3 DEF SelectTimesOut, AtSelect, CountExact, Counted, TypeOK

LEMMA CountNext ==
  ASSUME badHandshakes' = 0, lostTeardowns' = 0, TypeOK, SocketInv, CountInv, [Next]_vars
  PROVE  CountInv'
<1> USE DEF CountInv
<1>1. CASE UNCHANGED <<active, pc, cur, count, reply>>
           /\ (phase = "destroyed" => phase' = "destroyed")
  <2>1. Counted' = Counted
    BY <1>1 DEF Counted, ActiveSlots, ClosingSlot
  <2> QED BY <1>1, <2>1, CountSame DEF WindowInv
<1>2. CASE Destroy
  BY <1>2 DEF Destroy, WindowInv, CountExact, loopVars
<1>3. CASE SelectFails
  <2>1. \A f \in Watched : kernel[f] # Free
    BY WatchedOpen
  <2> QED BY <1>3, <2>1 DEF SelectFails
<1>4. CASE SelectTimesOut
  BY <1>4, CountSweep DEF SelectTimesOut, AtSelect, WindowInv, loopVars
<1>5. CASE AcceptPlain \/ AcceptTls
  <2>1. PICK s \in Slots : ~active[s] /\ active' = [active EXCEPT ![s] = TRUE]
    BY <1>5 DEF AcceptPlain, AcceptTls, FirstFree, FreeSlots, Occupy
  <2>2. /\ pc # "closing" /\ pc' \notin {"closing", "teardown", "back"}
        /\ count' = count + 1 /\ phase' = phase
    BY <1>5 DEF AcceptPlain, AcceptTls, NextListener
  <2> QED BY <2>1, <2>2, CountAccept DEF WindowInv
<1>6. CASE FinishTeardown
  <2>1. /\ cur \in Slots /\ active[cur] /\ pc' = "scan" /\ cur' = cur
        /\ active' = [active EXCEPT ![cur] = FALSE] /\ count' = count - 1 /\ phase' = phase
    BY <1>6 DEF FinishTeardown, WindowInv, Cleanup, TypeOK
  <2>2. cur \in Counted /\ Counted' = Counted \ {cur}
    BY <1>6, <2>1 DEF Counted, ActiveSlots, ClosingSlot, TypeOK, FinishTeardown
  <2> QED BY <2>1, <2>2, CountRelease DEF WindowInv
<1>7. CASE FinishClose
  <2>1. /\ cur \in Slots /\ pc = "closing" /\ pc' = "scan" /\ cur' = cur /\ ~active[cur]
        /\ active' = [active EXCEPT ![cur] = FALSE] /\ count' = count - 1 /\ phase' = phase
    BY <1>7 DEF FinishClose, WindowInv, Cleanup, TypeOK
  <2>2. cur \in Counted /\ Counted' = Counted \ {cur}
    BY <2>1 DEF Counted, ActiveSlots, ClosingSlot, TypeOK
  <2> QED BY <2>1, <2>2, CountRelease DEF WindowInv
<1>8. CASE \E s \in Slots : Serve(s)
  <2>1. PICK s \in Slots : Serve(s)
    BY <1>8
  <2>2. CASE Teardown(s)
    <3>1. /\ pc = "scan" /\ active[s] /\ pc' = "teardown" /\ cur' = s /\ active' = active
          /\ count' = count /\ phase' = phase /\ reply'.ok
      BY <2>2 DEF Teardown, Serving, Todo, Answer, TypeOK
    <3>2. Counted' = Counted
      BY <3>1 DEF Counted, ActiveSlots, ClosingSlot
    <3> QED BY <3>1, <3>2, CountSame DEF WindowInv
  <2>3. CASE ~Teardown(s)
    <3>1. \E new \in {Seen(s), "READY", "PLAYING"}, sent \in BOOLEAN : Return(s, new, sent)
      BY <2>1, <2>3 DEF Serve, Disconnect, Interleaved, Other, SetupTcp, SetupNoPorts,
                        SetupUdp, Play, Pause
    <3>2. pc = "scan" /\ active[s] /\ count' = count /\ phase' = phase
      BY <2>1, <2>3 DEF Serve, Disconnect, Interleaved, Other, SetupTcp, SetupNoPorts,
                        SetupUdp, Play, Pause, Serving, Todo
    <3>3. Counted' = Counted /\ WindowInv'
      BY <3>1, <3>2 DEF Return, Counted, ActiveSlots, ClosingSlot, TypeOK, WindowInv
    <3> QED BY <3>2, <3>3, CountSame
  <2> QED BY <2>1, <2>2, <2>3
<1>9. CASE AcceptNothing \/ ScanDone \/ SelectReady \/ Exit
  <2>1. /\ pc \notin {"closing", "teardown", "back"}
        /\ pc' \notin {"closing", "teardown", "back"}
        /\ UNCHANGED <<active, count, phase>>
    BY <1>9 DEF AcceptNothing, NextListener, ScanDone, SelectReady, AtSelect, Exit, slotVars
  <2>2. Counted' = Counted
    BY <2>1 DEF Counted, ActiveSlots, ClosingSlot
  <2> QED BY <2>1, <2>2, CountSame DEF WindowInv
<1>10. ~HandshakeFails
  BY DEF HandshakeFails, TypeOK
<1>11. CASE UNCHANGED vars
  BY <1>1, <1>11 DEF vars, slotVars, loopVars
<1>12. CASE \/ Start \/ Stop \/ PeerCloses \/ ForeignOpen \/ ForeignClose
            \/ \E s \in Slots : TimePasses(s)
  <2>1. UNCHANGED <<active, pc, cur, count, reply>>
    BY <1>12 DEF Start, Stop, PeerCloses, ForeignOpen, ForeignClose, TimePasses,
       serverVars, slotVars, loopVars
  <2>2. phase = "destroyed" => phase' = "destroyed"
    BY <1>12 DEF Start, Stop, PeerCloses, ForeignOpen, ForeignClose, TimePasses, serverVars
  <2> QED BY <1>1, <2>1, <2>2
<1>13. CASE Restore
  <2>1. /\ pc = "back" /\ cur \in Slots /\ active[cur] /\ cur' = cur
        /\ count' = count /\ phase' = phase
        /\ \/ active' = active /\ pc' = "scan"
           \/ active' = [active EXCEPT ![cur] = FALSE] /\ pc' = "closing"
    BY <1>13 DEF Restore, WindowInv, TypeOK
  <2>2. Counted' = Counted /\ WindowInv'
    BY <2>1 DEF Counted, ActiveSlots, ClosingSlot, TypeOK, WindowInv
  <2> QED BY <2>1, <2>2, CountSame
<1> QED BY <1>2, <1>3, <1>4, <1>5, <1>6, <1>7, <1>8, <1>9, <1>10, <1>11, <1>12, <1>13
           DEF Next, ServerThread, MainThread, Environment

-----------------------------------------------------------------------------
(***************************************************************************)
(* The theorems                                                            *)
(***************************************************************************)

(* No fault is forgotten.                                                  *)
LEMMA FaultsStay ==
  ASSUME TypeOK, [Next]_vars
  PROVE  badHandshakes <= badHandshakes' /\ lostTeardowns <= lostTeardowns'
<1>1. badHandshakes \in Nat /\ lostTeardowns \in Nat
  BY DEF TypeOK
<1>2. CASE UNCHANGED faultVars
  BY <1>1, <1>2 DEF faultVars
<1>3. CASE HandshakeFails
  BY <1>1, <1>3 DEF HandshakeFails
<1>4. CASE \E s \in Slots : Teardown(s)
  <2>1. badHandshakes' = badHandshakes
    BY <1>4 DEF Teardown
  <2>2. lostTeardowns' = lostTeardowns \/ lostTeardowns' = lostTeardowns + 1
    BY <1>4 DEF Teardown, Answer
  <2> QED BY <1>1, <2>1, <2>2
<1>5. CASE \E s \in Slots : Serve(s)
  BY <1>2, <1>4, <1>5 DEF Serve, Disconnect, Interleaved, Other, SetupTcp, SetupNoPorts,
     SetupUdp, Play, Pause
<1>6. CASE ServerThread
  BY <1>2, <1>3, <1>5, <1>6 DEF ServerThread, Exit, SelectFails, SelectReady, SelectTimesOut,
     AcceptNothing, AcceptPlain, AcceptTls, ScanDone, Restore, FinishTeardown, FinishClose
<1>7. CASE MainThread \/ Environment \/ UNCHANGED vars
  BY <1>2, <1>7 DEF MainThread, Environment, Start, Stop, Destroy, PeerCloses, ForeignOpen,
     ForeignClose, TimePasses, vars, serverVars
<1> QED BY <1>6, <1>7 DEF Next

LEMMA SocketInit == Init => SocketInv
  BY DEF Init, SocketInv, OwnSockets, ForeignIntact

LEMMA CountInit == Init => CountInv
<1> SUFFICES ASSUME Init PROVE CountInv
  OBVIOUS
<1>1. ActiveSlots \cup ClosingSlot = {}
  BY DEF Init, ActiveSlots, ClosingSlot
<1> QED BY <1>1, FS_EmptySet DEF Init, CountInv, WindowInv, CountExact

(* Until a TLS handshake fails (rtsp_server.c:1428), a descriptor number   *)
(* kept in a slot refers to the slot's own socket for as long as the slot  *)
(* keeps it, in every interleaving with the other threads of the process.  *)
THEOREM SocketsOwned == Spec => [](badHandshakes = 0 => OwnSockets /\ ForeignIntact)
<1> DEFINE IInv == TypeOK /\ (badHandshakes = 0 => SocketInv)
<1>1. Init => IInv
  BY TypeInit, SocketInit
<1>2. IInv /\ [Next]_vars => IInv'
  <2> SUFFICES ASSUME IInv, [Next]_vars PROVE IInv'
    OBVIOUS
  <2>1. badHandshakes' = 0 => badHandshakes = 0
    BY FaultsStay DEF TypeOK
  <2> QED BY <2>1, TypeNext, SocketNext
<1>3. IInv => (badHandshakes = 0 => OwnSockets /\ ForeignIntact)
  BY DEF SocketInv
<1> HIDE DEF IInv
<1> QED BY <1>1, <1>2, <1>3, PTL DEF Spec

(* Nothing has gone wrong yet.                                             *)
Faultless == badHandshakes = 0 /\ lostTeardowns = 0

LEMMA FaultlessNext ==
  TypeOK /\ (Faultless => SocketInv /\ CountInv) /\ [Next]_vars
    => TypeOK' /\ (Faultless => SocketInv /\ CountInv)'
<1> SUFFICES ASSUME TypeOK, Faultless => SocketInv /\ CountInv, [Next]_vars
             PROVE  TypeOK' /\ (Faultless' => SocketInv' /\ CountInv')
  OBVIOUS
<1>1. Faultless' => Faultless
  BY FaultsStay DEF TypeOK, Faultless
<1> QED BY <1>1, TypeNext, SocketNext, CountNext DEF Faultless

(* Until, besides, a TEARDOWN reply is lost (:2216), client_count is the   *)
(* number of slots in use in every state of the loop.                      *)
THEOREM CountIsExact == Spec => [](Faultless => CountExact)
<1> DEFINE IInv == TypeOK /\ (Faultless => SocketInv /\ CountInv)
<1>1. Init => IInv
  BY TypeInit, SocketInit, CountInit
<1>2. IInv /\ [Next]_vars => IInv'
  BY FaultlessNext
<1>3. IInv => (Faultless => CountExact)
  BY DEF CountInv
<1> HIDE DEF IInv
<1> QED BY <1>1, <1>2, <1>3, PTL DEF Spec

(* And if max_clients does not exceed the number of slots, an admitted     *)
(* connection always finds a slot: the accept path's last branch is dead.  *)
THEOREM AdmittedHasRoom == ASSUME MaxClients <= NumSlots
                           PROVE  Spec => [](Faultless => RoomWhenAdmitted)
<1> DEFINE IInv == /\ TypeOK /\ (Faultless => SocketInv /\ CountInv)
                   /\ phase = "destroyed" => pc = "exited"
<1>1. Init => IInv
  BY TypeInit, SocketInit, CountInit DEF Init
<1>2. ASSUME TypeOK, phase = "destroyed" => pc = "exited", [Next]_vars
      PROVE  (phase = "destroyed" => pc = "exited")'
  <2>1. CASE Destroy
    BY <2>1 DEF Destroy, loopVars
  <2>2. CASE UNCHANGED vars \/ MainThread \/ Environment
    BY <1>2, <2>1, <2>2 DEF MainThread, Environment, Start, Stop, PeerCloses, ForeignOpen,
       ForeignClose, TimePasses, vars, serverVars, loopVars
  <2>3. CASE ServerThread
    <3>1. phase' = phase /\ pc # "exited"
      <4>1. CASE Exit \/ SelectFails \/ SelectReady \/ SelectTimesOut
        BY ONLY <4>1 DEF Exit, SelectFails, SelectReady, SelectTimesOut, AtSelect
      <4>2. CASE AcceptNothing \/ AcceptPlain \/ AcceptTls \/ HandshakeFails
        BY ONLY <4>2 DEF AcceptNothing, AcceptPlain, AcceptTls, HandshakeFails
      <4>3. CASE ScanDone \/ Restore \/ FinishTeardown \/ FinishClose
        BY ONLY <4>3 DEF ScanDone, Restore, FinishTeardown, FinishClose
      <4>4. ASSUME NEW s \in Slots, Serve(s) PROVE phase' = phase /\ pc # "exited"
        BY ONLY <4>4 DEF Serve, Serving, Disconnect, Interleaved, Teardown, Other,
           SetupTcp, SetupNoPorts, SetupUdp, Play, Pause
      <4> QED BY ONLY <2>3, <4>1, <4>2, <4>3, <4>4 DEF ServerThread
    <3> QED BY <1>2, <3>1
  <2> QED BY <1>2, <2>1, <2>2, <2>3 DEF Next
<1>3. IInv /\ [Next]_vars => IInv'
  BY <1>2, FaultlessNext
<1>4. ASSUME IInv, Faultless, pc \in {"accept", "tls"}, count < MaxClients
      PROVE  FreeSlots # {}
  <2>1. count = Cardinality(ActiveSlots \cup {})
    BY <1>4 DEF CountInv, CountExact, ClosingSlot
  <2>2. ASSUME FreeSlots = {} PROVE FALSE
    <3>1. ActiveSlots \cup {} = Slots
      BY <2>2 DEF FreeSlots, ActiveSlots
    <3>2. count = NumSlots
      BY <1>4, <2>1, <3>1, CountedFinite
    <3> QED BY <1>4, <3>2
  <2> QED BY <2>2
<1>5. IInv => (Faultless => RoomWhenAdmitted)
  BY <1>4 DEF RoomWhenAdmitted
<1> HIDE DEF IInv
<1> QED BY <1>1, <1>3, <1>5, PTL DEF Spec

(* A descriptor opened by another thread is closed by that thread only.    *)
THEOREM ForeignNeverClosed == ASSUME MaxBadHandshakes = 0
                              PROVE  Spec => NoForeignClose
<1>1. Init => TypeOK /\ SocketInv
  BY TypeInit, SocketInit
<1>2. TypeOK /\ SocketInv /\ [Next]_vars => (TypeOK /\ SocketInv)'
  <2>1. TypeOK' => badHandshakes' = 0
    BY DEF TypeOK
  <2> QED BY <2>1, TypeNext, SocketNext
<1>3. ASSUME TypeOK, SocketInv, [Next]_vars, NEW f \in Fds,
             kernel[f] = Foreign, kernel'[f] # Foreign
      PROVE  UNCHANGED serverVars
  <2>1. \A s \in Slots : sock[s] # f /\ rtp[s] # f
    BY <1>3, ObjectsDiffer, FdsAssumption DEF SocketInv, OwnSockets, None
  <2>2. kernel' # kernel
    BY <1>3
  <2>3. CASE ForeignOpen \/ ForeignClose
    BY <2>3 DEF ForeignOpen, ForeignClose
  <2>4. ASSUME NEW C, kernel' = Closed(C) PROVE f \in C
    BY <1>3, <2>4 DEF Closed, TypeOK
  <2>5. ASSUME NEW g \in Fds, LowestFree(g), NEW o, kernel' = [kernel EXCEPT ![g] = o]
        PROVE  FALSE
    <3>1. g # f
      BY <1>3, <2>5 DEF LowestFree, Foreign, Free
    <3> QED BY <1>3, <2>5, <3>1 DEF TypeOK
  <2>6. CASE Destroy \/ SelectTimesOut
    BY <2>1, <2>4, <2>6 DEF Destroy, SelectTimesOut, Expired
  <2>7. CASE FinishTeardown \/ FinishClose
    BY <1>3, <2>1, <2>4, <2>7 DEF FinishTeardown, FinishClose, Cleanup, TypeOK
  <2>8. CASE AcceptPlain \/ AcceptTls
    BY <2>5, <2>8 DEF AcceptPlain, AcceptTls
  <2>9. ASSUME NEW s \in Slots, Serve(s) PROVE FALSE
    <3>1. CASE \E sent \in BOOLEAN : SetupUdp(s, sent)
      BY <2>2, <2>5, <3>1 DEF SetupUdp
    <3>2. CASE Disconnect(s) \/ Interleaved(s) \/ Teardown(s)
      BY <2>2, <3>2 DEF Disconnect, Interleaved, Teardown, tableVars
    <3>3. CASE \E sent \in BOOLEAN : \/ Other(s, sent) \/ SetupTcp(s, sent)
                                     \/ SetupNoPorts(s, sent)
                                     \/ Play(s, sent) \/ Pause(s, sent)
      BY <2>2, <3>3 DEF Other, SetupTcp, SetupNoPorts, Play, Pause, tableVars
    <3> QED BY ONLY <2>9, <3>1, <3>2, <3>3 DEF Serve
  <2>10. CASE \/ Start \/ Stop \/ Exit \/ SelectFails \/ SelectReady \/ AcceptNothing
              \/ HandshakeFails \/ ScanDone \/ Restore \/ PeerCloses \/ UNCHANGED vars
              \/ \E s \in Slots : TimePasses(s)
    BY <2>2, <2>10 DEF Start, Stop, Exit, SelectFails, SelectReady, AcceptNothing,
       HandshakeFails, ScanDone, Restore, PeerCloses, TimePasses, vars, tableVars
  <2> QED BY <1>3, <2>3, <2>6, <2>7, <2>8, <2>9, <2>10
             DEF Next, ServerThread, MainThread, Environment
<1>4. TypeOK /\ SocketInv /\ [Next]_vars =>
        [\A f \in Fds : kernel[f] = Foreign /\ kernel'[f] # Foreign
                            => UNCHANGED serverVars]_vars
  BY <1>3
<1> QED BY <1>1, <1>2, <1>4, PTL DEF Spec, NoForeignClose

-----------------------------------------------------------------------------
(***************************************************************************)
(* PLAY                                                                    *)
(***************************************************************************)

(* A response to PLAY is on record only while the loop is scanning: the    *)
(* slots are given to new clients after it is forgotten.  The client the   *)
(* loop will resume was granted its PLAY before the message came in.       *)
PlayInv == /\ pc \notin {"scan", "back", "closing"} => reply.method # "PLAY"
           /\ pc = "back" /\ was => cur \in granted
           /\ reply.method = "PLAY" => reply.slot \in Slots
           /\ PlayAnswered /\ OnlyGrantedPlay

(* What a step may do to a session that is not playing.                    *)
Starts(s) == st[s] # "PLAYING" /\ st'[s] = "PLAYING"
                => /\ st[s] = "READY"
                   /\ \/ reply' = [slot |-> s, method |-> "PLAY", ok |-> TRUE]
                      \/ s = cur /\ was

(* A handler that starts nobody.                                           *)
LEMMA ReturnStartsNobody ==
  ASSUME TypeOK, PlayInv, NEW s \in Slots, NEW new \in {Seen(s), "READY", "INIT"},
         NEW sent, Return(s, new, sent), granted' = granted
  PROVE  /\ \A x \in Slots : st'[x] = "PLAYING" => st[x] = "PLAYING"
         /\ OnlyGrantedPlay' /\ (was' => cur' \in granted')
<1>1. new = "PLAYING" => st[s] = "PLAYING"
  BY DEF Seen
<1>2. \A x \in Slots \ {s} : st'[x] = st[x]
  BY DEF Return, TypeOK
<1>3. st'[s] = "PLAYING" => st[s] = "PLAYING"
  BY <1>1 DEF Return, TypeOK
<1>4. was' => cur' \in granted'
  BY DEF Return, PlayInv, OnlyGrantedPlay
<1> QED BY <1>2, <1>3, <1>4 DEF PlayInv, OnlyGrantedPlay

(* A request handled by the scan.                                          *)
LEMMA PlayServe ==
  ASSUME TypeOK, PlayInv, NEW s \in Slots, Serve(s)
  PROVE  PlayInv' /\ \A x \in Slots : Starts(x)
<1>1. CASE \E sent \in BOOLEAN : Play(s, sent)
  <2>1. PICK sent \in BOOLEAN : Play(s, sent)
    BY <1>1
  <2>2. CASE Seen(s) \in {"READY", "PLAYING"}
    <3>1. /\ reply' = [slot |-> s, method |-> "PLAY", ok |-> TRUE]
          /\ Return(s, "PLAYING", sent) /\ granted' = granted \cup {s}
      BY <2>1, <2>2 DEF Play, Answer
    <3>2. st' = [st EXCEPT ![s] = "PLAYING"] /\ pc' = "back" /\ cur' = s
      BY <3>1 DEF Return
    <3>3. st[s] \in {"READY", "PLAYING"}
      BY <2>2 DEF Seen, TypeOK
    <3>4. OnlyGrantedPlay'
      BY <3>1, <3>2 DEF OnlyGrantedPlay, PlayInv, TypeOK
    <3> QED BY <3>1, <3>2, <3>3, <3>4 DEF Starts, PlayInv, PlayAnswered, TypeOK
  <2>3. CASE Seen(s) \notin {"READY", "PLAYING"}
    <3>1. /\ reply' = [slot |-> s, method |-> "PLAY", ok |-> FALSE]
          /\ Return(s, Seen(s), sent) /\ granted' = granted
      BY <2>1, <2>3 DEF Play, Answer
    <3>2. pc' = "back"
      BY <3>1 DEF Return
    <3> QED BY <3>1, <3>2, ReturnStartsNobody DEF Starts, PlayInv, PlayAnswered
  <2> QED BY <2>2, <2>3
<1>2. CASE Teardown(s)
  <2>1. /\ st' = [st EXCEPT ![s] = "INIT"] /\ granted' = granted /\ pc' = "teardown"
        /\ reply'.method = "TEARDOWN"
    BY <1>2 DEF Teardown, Answer
  <2> QED BY <2>1 DEF Starts, PlayInv, PlayAnswered, OnlyGrantedPlay, TypeOK
<1>3. CASE ~Teardown(s) /\ ~\E sent \in BOOLEAN : Play(s, sent)
  <2>1. /\ \E new \in {Seen(s), "READY", "INIT"}, sent \in BOOLEAN : Return(s, new, sent)
        /\ granted' = granted
    BY <1>3 DEF Serve, Disconnect, Interleaved, Other, SetupTcp, SetupNoPorts, SetupUdp, Pause
  <2>2. reply' = NoReply \/ \E ok \in BOOLEAN : Answer(s, "PAUSE", ok)
    BY <1>3 DEF Serve, Disconnect, Interleaved, Other, SetupTcp, SetupNoPorts, SetupUdp, Pause
  <2>3. reply'.method # "PLAY"
    BY <2>2 DEF Answer, NoReply
  <2> QED BY <2>1, <2>3, ReturnStartsNobody DEF Starts, PlayInv, PlayAnswered
<1> QED BY <1>1, <1>2, <1>3

(* Every other step.                                                       *)
LEMMA PlayNext ==
  ASSUME TypeOK, PlayInv, [Next]_vars
  PROVE  PlayInv' /\ \A x \in Slots : Starts(x)
<1>1. ASSUME NEW s \in Slots, Serve(s)
      PROVE  PlayInv' /\ \A x \in Slots : Starts(x)
  BY <1>1, PlayServe
<1>2. CASE AcceptPlain \/ AcceptTls \/ HandshakeFails
  <2>1. PICK s \in Slots : st' = [st EXCEPT ![s] = "INIT"] /\ granted' = granted \ {s}
    BY <1>2 DEF AcceptPlain, AcceptTls, HandshakeFails, Occupy
  <2>2. pc \in {"accept", "tls"} /\ pc' \in {"tls", "scan"} /\ reply' = reply
    BY <1>2 DEF AcceptPlain, AcceptTls, HandshakeFails, NextListener
  <2> QED BY <2>1, <2>2 DEF Starts, PlayInv, PlayAnswered, OnlyGrantedPlay, TypeOK
<1>3. CASE FinishTeardown \/ FinishClose
  <2>1. cur \in Slots /\ pc \in {"teardown", "closing"} /\ pc' \in {"scan", "closing"}
    BY <1>3 DEF FinishTeardown, FinishClose, TypeOK
  <2>2. /\ st' = [st EXCEPT ![cur] = "INIT"] /\ active' = [active EXCEPT ![cur] = FALSE]
        /\ reply' = reply /\ granted' = granted
    BY <1>3 DEF FinishTeardown, FinishClose, Cleanup
  <2>3. \A x \in Slots : Starts(x)
    BY <2>1, <2>2 DEF Starts, TypeOK
  <2>4. PlayAnswered' /\ OnlyGrantedPlay'
    BY <2>1, <2>2 DEF PlayInv, PlayAnswered, OnlyGrantedPlay, TypeOK, Replies
  <2> QED BY <2>1, <2>2, <2>3, <2>4 DEF PlayInv
<1>4. CASE Destroy \/ SelectTimesOut \/ SelectFails
  <2>1. /\ \A x \in Slots : st'[x] \in {"INIT", st[x]}
        /\ UNCHANGED <<pc, reply, granted>> /\ pc \in {"exited", "select"}
    BY <1>4 DEF Destroy, SelectTimesOut, SelectFails, AtSelect, loopVars, TypeOK
  <2> QED BY <2>1 DEF Starts, PlayInv, PlayAnswered, OnlyGrantedPlay, TypeOK
<1>5. CASE ScanDone
  BY <1>5 DEF ScanDone, slotVars, NoReply, Starts, PlayInv, PlayAnswered, OnlyGrantedPlay
<1>6. CASE SelectReady \/ Exit \/ AcceptNothing
  <2>1. /\ UNCHANGED <<st, active, reply, granted>>
        /\ pc \in {"select", "accept", "tls"} /\ pc' # "back"
    BY <1>6 DEF SelectReady, Exit, AcceptNothing, AtSelect, NextListener, slotVars
  <2> QED BY <2>1 DEF Starts, PlayInv, PlayAnswered, OnlyGrantedPlay
<1>7. CASE \/ Start \/ Stop \/ PeerCloses \/ ForeignOpen \/ ForeignClose
           \/ (\E s \in Slots : TimePasses(s)) \/ UNCHANGED vars
  <2>1. UNCHANGED <<st, active, pc, cur, was, reply, granted>>
    BY <1>7 DEF Start, Stop, PeerCloses, ForeignOpen, ForeignClose, TimePasses, vars,
       serverVars, slotVars, loopVars
  <2> QED BY <2>1 DEF Starts, PlayInv, PlayAnswered, OnlyGrantedPlay
<1>8. CASE Restore
  <2>1. /\ pc = "back" /\ pc' \in {"scan", "closing"} /\ cur \in Slots
        /\ UNCHANGED <<reply, granted>>
        /\ \A x \in Slots : active'[x] => active[x]
    BY <1>8 DEF Restore, TypeOK
  <2>2. /\ \A x \in Slots \ {cur} : st'[x] = st[x]
        /\ \/ st'[cur] = st[cur]
           \/ st[cur] = "READY" /\ st'[cur] = "PLAYING" /\ was
    BY <1>8, <2>1 DEF Restore, TypeOK
  <2>3. /\ \A x \in Slots : Starts(x)
        /\ \A x \in Slots : st[x] = "PLAYING" => st'[x] = "PLAYING"
    BY <2>2 DEF Starts
  <2>4. OnlyGrantedPlay'
    BY <2>1, <2>2 DEF PlayInv, OnlyGrantedPlay
  <2>5. PlayAnswered'
    <3> SUFFICES ASSUME reply'.method = "PLAY", reply'.ok, active'[reply'.slot]
                 PROVE  st'[reply'.slot] = "PLAYING"
      BY DEF PlayAnswered
    <3>1. reply.slot \in Slots /\ st[reply.slot] = "PLAYING"
      BY <2>1 DEF PlayInv, PlayAnswered
    <3> QED BY <2>1, <2>3, <3>1
  <2> QED BY <2>1, <2>3, <2>4, <2>5 DEF PlayInv
<1> QED BY <1>1, <1>2, <1>3, <1>4, <1>5, <1>6, <1>7, <1>8
           DEF Next, ServerThread, MainThread, Environment

(* Whoever plays was answered 200 to a PLAY of its present session; what   *)
(* makes a session play is such a PLAY, or the loop resuming the client it *)
(* serves (rtsp_server.c:1476), which came in playing; and the loop does   *)
(* not undo a PLAY.                                                        *)
THEOREM PlaysAreDisciplined == Spec => PlayDiscipline
<1>1. Init => TypeOK /\ PlayInv
  BY TypeInit DEF Init, PlayInv, PlayAnswered, OnlyGrantedPlay, NoReply
<1>2. TypeOK /\ PlayInv /\ [Next]_vars => (TypeOK /\ PlayInv)'
  BY TypeNext, PlayNext
<1>3. TypeOK /\ PlayInv => PlayAnswered /\ OnlyGrantedPlay
  BY DEF PlayInv
<1>4. TypeOK /\ PlayInv /\ [Next]_vars =>
        [\A s \in Slots : st[s] # "PLAYING" /\ st'[s] = "PLAYING"
           => /\ st[s] = "READY"
              /\ \/ reply' = [slot |-> s, method |-> "PLAY", ok |-> TRUE]
                 \/ s = cur /\ was]_vars
  BY PlayNext DEF Starts
<1> QED BY <1>1, <1>2, <1>3, <1>4, PTL DEF Spec, PlayDiscipline

-----------------------------------------------------------------------------
(***************************************************************************)
(* Destruction                                                             *)
(***************************************************************************)

(* An open control connection is the one its slot names; a slot that was   *)
(* given back names none, but for the one in the 10ms window; and after    *)
(* destroy no slot names any.                                              *)
NamedInv ==
    /\ \A s \in Slots, f \in Fds : kernel[f] = Ctrl(s) => sock[s] = f
    /\ \A s \in Slots : active[s] \/ sock[s] = None \/ (pc = "closing" /\ cur = s)
    /\ phase = "destroyed" => pc = "exited" /\ \A s \in Slots : sock[s] = None

(* Closing the sockets of a set of slots and forgetting their numbers.     *)
LEMMA NamedRelease ==
  ASSUME TypeOK, NamedInv, NEW S \in SUBSET Slots, NEW C,
         \A s \in S : sock[s] # None => sock[s] \in C,
         kernel' = Closed(C),
         sock' = [s \in Slots |-> IF s \in S THEN None ELSE sock[s]]
  PROVE  \A s \in Slots, f \in Fds : kernel'[f] = Ctrl(s) => sock'[s] = f
<1> SUFFICES ASSUME NEW s \in Slots, NEW f \in Fds, kernel'[f] = Ctrl(s)
             PROVE  sock'[s] = f
  OBVIOUS
<1>1. kernel[f] = Ctrl(s) /\ f \notin C
  BY DEF Closed, Ctrl, Free
<1>2. sock[s] = f
  BY <1>1 DEF NamedInv
<1>3. s \notin S
  BY <1>1, <1>2, FdsAssumption DEF None
<1> QED BY <1>2, <1>3

LEMMA NamedNext ==
  ASSUME badHandshakes' = 0, TypeOK, SocketInv, NamedInv, [Next]_vars
  PROVE  NamedInv'
<1>1. CASE AcceptPlain \/ AcceptTls
  <2>1. PICK s \in Slots, f \in Fds :
           /\ ~active[s] /\ kernel[f] = Free /\ kernel' = [kernel EXCEPT ![f] = Ctrl(s)]
           /\ active' = [active EXCEPT ![s] = TRUE] /\ sock' = [sock EXCEPT ![s] = f]
    BY <1>1 DEF AcceptPlain, AcceptTls, FirstFree, FreeSlots, LowestFree, Occupy
  <2>2. pc \in {"accept", "tls"} /\ phase' = phase /\ pc' # "closing"
    BY <1>1 DEF AcceptPlain, AcceptTls, NextListener
  <2>3. phase # "destroyed" /\ sock[s] = None
    BY <2>1, <2>2 DEF NamedInv
  <2>4. ASSUME NEW x \in Slots, NEW g \in Fds, kernel'[g] = Ctrl(x) PROVE sock'[x] = g
    <3>1. CASE g = f
      <4>1. x = s
        BY <2>1, <2>4, <3>1 DEF Ctrl, TypeOK
      <4> QED BY <2>1, <3>1, <4>1 DEF TypeOK
    <3>2. CASE g # f
      <4>1. kernel[g] = Ctrl(x) /\ sock[x] = g
        BY <2>1, <2>4, <3>2 DEF TypeOK, NamedInv
      <4>2. x # s
        BY <2>3, <4>1, FdsAssumption DEF None
      <4> QED BY <2>1, <4>1, <4>2 DEF TypeOK
    <3> QED BY <3>1, <3>2
  <2>5. \A x \in Slots : active'[x] \/ sock'[x] = None
    BY <2>1, <2>2 DEF NamedInv, TypeOK
  <2> QED BY <2>2, <2>3, <2>4, <2>5 DEF NamedInv
<1>2. CASE FinishTeardown \/ FinishClose
  <2>1. /\ cur \in Slots /\ cur' = cur /\ phase' = phase /\ pc # "exited"
        /\ kernel' = Closed({sock[cur], rtp[cur]})
        /\ sock' = [sock EXCEPT ![cur] = None] /\ active' = [active EXCEPT ![cur] = FALSE]
    BY <1>2 DEF FinishTeardown, FinishClose, Cleanup, TypeOK
  <2>2. sock' = [s \in Slots |-> IF s \in {cur} THEN None ELSE sock[s]]
    BY <2>1 DEF TypeOK
  <2>3. \A s \in Slots, f \in Fds : kernel'[f] = Ctrl(s) => sock'[s] = f
    <3>1. /\ {cur} \in SUBSET Slots
          /\ \A s \in {cur} : sock[s] # None => sock[s] \in {sock[cur], rtp[cur]}
      BY <2>1
    <3> QED BY <2>1, <2>2, <3>1, NamedRelease
  <2>4. \A s \in Slots : active'[s] \/ sock'[s] = None
    <3>1. \A s \in Slots \ {cur} : active[s] \/ sock[s] = None
      BY DEF NamedInv
    <3> QED BY <2>1, <3>1 DEF TypeOK
  <2> QED BY <2>1, <2>3, <2>4 DEF NamedInv
<1>3. CASE SelectTimesOut
  <2>1. kernel' = Closed(({sock[s] : s \in Expired} \cup {rtp[s] : s \in Expired}) \ {None})
    BY <1>3 DEF SelectTimesOut
  <2>2. /\ sock' = [s \in Slots |-> IF s \in Expired THEN None ELSE sock[s]]
        /\ active' = [s \in Slots |-> active[s] /\ s \notin Expired]
        /\ pc = "select" /\ phase' = phase /\ phase = "running"
    BY <1>3 DEF SelectTimesOut, AtSelect
  <2> DEFINE C == ({sock[s] : s \in Expired} \cup {rtp[s] : s \in Expired}) \ {None}
  <2>3. Expired \in SUBSET Slots /\ \A s \in Expired : sock[s] # None => sock[s] \in C
    BY DEF Expired
  <2>4. kernel' = Closed(C)
    BY <2>1
  <2> HIDE DEF C
  <2>5. PICK S \in SUBSET Slots : S = Expired
    BY <2>3
  <2>6. /\ \A s \in S : sock[s] # None => sock[s] \in C
        /\ sock' = [s \in Slots |-> IF s \in S THEN None ELSE sock[s]]
    BY <2>2, <2>3, <2>5
  <2>7. \A s \in Slots, f \in Fds : kernel'[f] = Ctrl(s) => sock'[s] = f
    BY <2>4, <2>6, NamedRelease
  <2> QED BY <2>2, <2>7 DEF NamedInv
<1>4. CASE Destroy
  <2>1. /\ kernel' = Closed({sock[s] : s \in Slots} \cup {rtp[s] : s \in Slots})
        /\ sock' = [s \in Slots |-> IF s \in Slots THEN None ELSE sock[s]]
        /\ pc = "exited" /\ pc' = pc
    BY <1>4 DEF Destroy, loopVars
  <2> DEFINE C == {sock[s] : s \in Slots} \cup {rtp[s] : s \in Slots}
  <2>2. kernel' = Closed(C) /\ \A s \in Slots : sock[s] # None => sock[s] \in C
    BY <2>1
  <2> HIDE DEF C
  <2>3. \A s \in Slots, f \in Fds : kernel'[f] = Ctrl(s) => sock'[s] = f
    BY <2>1, <2>2, NamedRelease
  <2> QED BY <2>1, <2>3 DEF NamedInv
<1>5. ASSUME NEW s \in Slots, Serve(s) PROVE NamedInv'
  <2>1. /\ sock' = sock /\ phase' = phase /\ pc = "scan"
        /\ \/ kernel' = kernel
           \/ \E f \in Fds : kernel' = [kernel EXCEPT ![f] = Rtp(s)]
    BY <1>5 DEF Serve, Serving, Disconnect, Interleaved, Teardown, Other, SetupTcp,
       SetupNoPorts, SetupUdp, Play, Pause, tableVars
  <2>2. active' = active
    BY <1>5 DEF Serve, Disconnect, Interleaved, Teardown, Other, SetupTcp, SetupNoPorts,
       SetupUdp, Play, Pause, Return
  <2>3. \A x \in Slots, f \in Fds : kernel'[f] = Ctrl(x) => kernel[f] = Ctrl(x)
    BY <2>1 DEF TypeOK, Rtp, Ctrl
  <2> QED BY <2>1, <2>2, <2>3 DEF NamedInv, TypeOK
<1>6. CASE ForeignOpen \/ ForeignClose
  <2>1. \A x \in Slots, f \in Fds : kernel'[f] = Ctrl(x) => kernel[f] = Ctrl(x)
    BY <1>6 DEF ForeignOpen, ForeignClose, Closed, TypeOK, Foreign, Free, Ctrl
  <2>2. UNCHANGED <<sock, active, pc, cur, phase>>
    BY <1>6 DEF ForeignOpen, ForeignClose, serverVars, slotVars, loopVars
  <2> QED BY <2>1, <2>2 DEF NamedInv
<1>7. CASE \/ Exit \/ SelectReady \/ AcceptNothing \/ ScanDone \/ Start \/ Stop
           \/ PeerCloses \/ (\E s \in Slots : TimePasses(s)) \/ UNCHANGED vars
  <2>1. /\ UNCHANGED <<sock, active, kernel>>
        /\ pc = "closing" => UNCHANGED <<pc, cur>>
        /\ phase' = "destroyed" => phase = "destroyed"
        /\ pc = "exited" => pc' = "exited"
    BY <1>7 DEF Exit, SelectReady, AcceptNothing, NextListener, ScanDone, Start, Stop,
       PeerCloses, TimePasses, AtSelect, vars, serverVars, slotVars, tableVars, loopVars
  <2> QED BY <2>1 DEF NamedInv
<1>8. ~HandshakeFails
  BY DEF HandshakeFails, TypeOK
<1>9. CASE SelectFails
  BY <1>9, WatchedOpen DEF SelectFails
<1>10. CASE Restore
  <2>1. /\ sock' = sock /\ kernel' = kernel /\ phase' = phase /\ pc = "back" /\ cur' = cur
        /\ \/ active' = active
           \/ active' = [active EXCEPT ![cur] = FALSE] /\ pc' = "closing"
    BY <1>10 DEF Restore, tableVars
  <2> QED BY <2>1 DEF NamedInv, TypeOK
<1> QED BY <1>1, <1>2, <1>3, <1>4, <1>5, <1>6, <1>7, <1>8, <1>9, <1>10
           DEF Next, ServerThread, MainThread, Environment

(* Unless a TLS handshake failed, rtsp_server_destroy leaves no control    *)
(* connection open, whatever the clients did and wherever the loop was.    *)
THEOREM DestroyClosesAll == Spec => [](badHandshakes = 0 => DestroyClosesSessions)
<1> DEFINE IInv == TypeOK /\ (badHandshakes = 0 => SocketInv /\ NamedInv)
<1>1. Init => IInv
  <2>1. Init => NamedInv
    BY DEF Init, NamedInv, Free, Ctrl
  <2> QED BY <2>1, TypeInit, SocketInit
<1>2. IInv /\ [Next]_vars => IInv'
  <2> SUFFICES ASSUME IInv, [Next]_vars PROVE IInv'
    OBVIOUS
  <2>1. badHandshakes' = 0 => badHandshakes = 0
    BY FaultsStay DEF TypeOK
  <2> QED BY <2>1, TypeNext, SocketNext, NamedNext
<1>3. IInv => (badHandshakes = 0 => DestroyClosesSessions)
  BY FdsAssumption DEF NamedInv, DestroyClosesSessions, None
<1> HIDE DEF IInv
<1> QED BY <1>1, <1>2, <1>3, PTL DEF Spec

-----------------------------------------------------------------------------
(***************************************************************************)
(* Faults make the count err on one side only.  A failed handshake leaves  *)
(* a slot in use that is not counted and whose number is closed; whoever   *)
(* gets the number next shares it, and whichever of the two is released    *)
(* first leaves the other one with a number that is closed.  So what       *)
(* matters is how many references there are beyond one for each open       *)
(* number: one of them is given up whenever a slot is left uncounted.      *)
(***************************************************************************)

\* Who refers to which number: the slots in use to their sockets, and the other
\* threads to what they have opened.
Refs == {r \in {"sock", "rtp", "held"} \X (Slots \cup {0}) \X Fds :
           \/ r[1] = "sock" /\ r[2] \in Counted /\ r[3] = sock[r[2]]
           \/ r[1] = "rtp" /\ r[2] \in Counted /\ r[3] = rtp[r[2]]
           \/ r[1] = "held" /\ r[2] = 0 /\ r[3] \in held}

\* The numbers of references.
Numbers(C) == {r[3] : r \in C}

Open == {f \in Fds : kernel[f] # Free}

\* Of the references R all but those in D are to open numbers, each to another.
Spare(D, R, O) ==
  /\ D \subseteq R /\ IsFiniteSet(D)
  /\ \A r \in R \ D : r[3] \in O
  /\ \A q, r \in R \ D : q[3] = r[3] => q = r

SpareInv == phase # "destroyed" =>
  \E D \in SUBSET Refs : Spare(D, Refs, Open) /\ count + Cardinality(D) <= Cardinality(Counted)

LateInv == pc \in {"back", "teardown"} => active[cur]

\* What is left of the references needs no more of them to spare.
LEMMA SpareLess ==
  ASSUME NEW R, NEW D, NEW O, Spare(D, R, O), NEW Q \in SUBSET R, NEW P, O \subseteq P
  PROVE  /\ Spare(D \cap Q, Q, P)
         /\ Cardinality(D \cap Q) \in Nat /\ Cardinality(D) \in Nat
         /\ Cardinality(D \cap Q) <= Cardinality(D)
<1>1. /\ IsFiniteSet(D \cap Q) /\ Cardinality(D \cap Q) <= Cardinality(D)
      /\ Cardinality(D \cap Q) \in Nat /\ Cardinality(D) \in Nat
  BY FS_Subset, FS_CardinalityType DEF Spare
<1> QED BY <1>1 DEF Spare

\* A reference to a number that was closed and has been opened for it.
LEMMA SpareOpened ==
  ASSUME NEW R, NEW D, NEW O, Spare(D, R, O), NEW x, x[3] \notin O,
         NEW Q \in SUBSET (R \cup {x}), NEW P, O \cup {x[3]} \subseteq P
  PROVE  /\ Spare(D \cap Q, Q, P)
         /\ Cardinality(D \cap Q) \in Nat /\ Cardinality(D) \in Nat
         /\ Cardinality(D \cap Q) <= Cardinality(D)
<1>1. /\ IsFiniteSet(D \cap Q) /\ Cardinality(D \cap Q) <= Cardinality(D)
      /\ Cardinality(D \cap Q) \in Nat /\ Cardinality(D) \in Nat
  BY FS_Subset, FS_CardinalityType DEF Spare
<1>2. x \in R => x \in D
  BY DEF Spare
<1> QED BY <1>1, <1>2 DEF Spare

\* A reference to a number that is closed.
LEMMA SpareAdded ==
  ASSUME NEW R, NEW D, NEW O, Spare(D, R, O), NEW x, NEW Q \in SUBSET (R \cup {x})
  PROVE  /\ Spare((D \cup {x}) \cap Q, Q, O)
         /\ Cardinality((D \cup {x}) \cap Q) \in Nat /\ Cardinality(D) \in Nat
         /\ Cardinality((D \cup {x}) \cap Q) <= Cardinality(D) + 1
<1> DEFINE E == (D \cup {x}) \cap Q
<1>1. /\ IsFiniteSet(D \cup {x}) /\ Cardinality(D) \in Nat
      /\ Cardinality(D \cup {x}) \in Nat /\ Cardinality(D \cup {x}) <= Cardinality(D) + 1
  BY FS_AddElement, FS_CardinalityType DEF Spare
<1>2. IsFiniteSet(E) /\ Cardinality(E) \in Nat /\ Cardinality(E) <= Cardinality(D \cup {x})
  BY <1>1, FS_Subset, FS_CardinalityType
<1>3. Spare(E, Q, O)
  BY <1>2 DEF Spare
<1> QED BY <1>1, <1>2, <1>3

\* When the references in C are given up and their numbers closed, then where one
\* of them was to spare, the one that shared its number is now.
ToSpare(R, D, C) == (D \ C) \cup {r \in R \ (C \cup D) : \E c \in C : c[3] = r[3]}

LEMMA SpareClosed ==
  ASSUME NEW R, NEW D, NEW O, Spare(D, R, O), NEW C \in SUBSET R,
         NEW Q \in SUBSET (R \ C), NEW P, O \ Numbers(C) \subseteq P
  PROVE  /\ Spare(ToSpare(R, D, C) \cap Q, Q, P)
         /\ Cardinality(ToSpare(R, D, C) \cap Q) \in Nat /\ Cardinality(D) \in Nat
         /\ Cardinality(ToSpare(R, D, C) \cap Q) <= Cardinality(D)
<1> DEFINE A == {r \in R \ (C \cup D) : \E c \in C : c[3] = r[3]}
           B == D \cap C
           E == (D \ C) \cup A
           g == [a \in A |-> CHOOSE b \in B : b[3] = a[3]]
<1>1. \A a \in A : \E b \in B : b[3] = a[3]
  BY DEF Spare
<1>2. \A a \in A : g[a] \in B /\ g[a][3] = a[3]
  BY <1>1
<1>3. g \in Injection(A, B)
  BY <1>2 DEF Spare, Injection, IsInjective
<1>4. /\ IsFiniteSet(B) /\ IsFiniteSet(D \ C) /\ Cardinality(B) \in Nat
      /\ Cardinality(D \ C) \in Nat /\ Cardinality(D) \in Nat
  BY FS_Subset, FS_CardinalityType DEF Spare
<1> HIDE DEF g
<1>5. IsFiniteSet(A) /\ Cardinality(A) <= Cardinality(B) /\ Cardinality(A) \in Nat
  BY <1>3, <1>4, FS_Injection, FS_CardinalityType
<1>6. Cardinality(D) = Cardinality(D \ C) + Cardinality(B)
  <2>1. Cardinality(D \ C) = Cardinality(D) - Cardinality(B)
    BY FS_Difference DEF Spare
  <2> QED BY <2>1, <1>4
<1>7. /\ IsFiniteSet(E) /\ Cardinality(E) \in Nat
      /\ Cardinality(E) <= Cardinality(D \ C) + Cardinality(A)
  <2>1. IsFiniteSet((D \ C) \cap A) /\ Cardinality((D \ C) \cap A) \in Nat
    BY <1>5, FS_Subset, FS_CardinalityType
  <2>2. IsFiniteSet(E) /\ Cardinality(E)
          = Cardinality(D \ C) + Cardinality(A) - Cardinality((D \ C) \cap A)
    BY <1>4, <1>5, FS_Union
  <2> QED BY <1>4, <1>5, <2>1, <2>2, FS_CardinalityType
<1>8. Spare(E, R \ C, P)
  <2>1. \A r \in (R \ C) \ E : r[3] \in P
    BY DEF Spare, Numbers
  <2> QED BY <1>7, <2>1 DEF Spare
<1>9. /\ Spare(E \cap Q, Q, P) /\ Cardinality(E \cap Q) \in Nat
      /\ Cardinality(E \cap Q) <= Cardinality(E)
  BY <1>8, SpareLess
<1> QED BY <1>4, <1>5, <1>6, <1>7, <1>9 DEF ToSpare

\* Slots that are out of use are counted out, and then some.
LEMMA CountedLess ==
  ASSUME TypeOK, NEW X \in SUBSET Counted
  PROVE  /\ Cardinality(Counted \ X) = Cardinality(Counted) - Cardinality(X)
         /\ IsFiniteSet(X) /\ Cardinality(X) \in Nat
<1>1. IsFiniteSet(X) /\ Cardinality(X) \in Nat
  BY CountedFinite, FS_Subset, FS_CardinalityType
<1>2. Counted \cap X = X
  OBVIOUS
<1>3. Cardinality(Counted \ X) = Cardinality(Counted) - Cardinality(Counted \cap X)
  BY CountedFinite, FS_Difference
<1> QED BY <1>1, <1>2, <1>3

\* A step that leaves the slots in use and their sockets alone.
LEMMA SpareSame ==
  ASSUME TypeOK, TypeOK', SpareInv, Counted' = Counted, Refs' \subseteq Refs, Open \subseteq Open',
         count' <= count, phase' # "destroyed" => phase # "destroyed"
  PROVE  SpareInv'
<1> SUFFICES ASSUME phase' # "destroyed"
             PROVE  \E E \in SUBSET Refs' : /\ Spare(E, Refs', Open')
                                            /\ count' + Cardinality(E) <= Cardinality(Counted')
  BY DEF SpareInv
<1>1. PICK D \in SUBSET Refs : /\ Spare(D, Refs, Open)
                               /\ count + Cardinality(D) <= Cardinality(Counted)
  BY DEF SpareInv
<1>2. /\ Spare(D \cap Refs', Refs', Open')
      /\ Cardinality(D \cap Refs') \in Nat /\ Cardinality(D) \in Nat
      /\ Cardinality(D \cap Refs') <= Cardinality(D)
  BY <1>1, SpareLess
<1>3. count \in Int /\ count' \in Int /\ Cardinality(Counted) \in Nat
  BY CountedFinite DEF TypeOK
<1>4. count' + Cardinality(D \cap Refs') <= Cardinality(Counted')
  BY <1>1, <1>2, <1>3
<1> QED BY <1>2, <1>4

\* A step that opens a number for one more reference, counted or not.
LEMMA SpareGrows ==
  ASSUME TypeOK, TypeOK', SpareInv, NEW x, x[3] \notin Open, Refs' \subseteq Refs \cup {x},
         Open \cup {x[3]} \subseteq Open',
         phase' # "destroyed" => phase # "destroyed",
         Cardinality(Counted') - count' >= Cardinality(Counted) - count,
         Cardinality(Counted') \in Nat
  PROVE  SpareInv'
<1> SUFFICES ASSUME phase' # "destroyed"
             PROVE  \E E \in SUBSET Refs' : /\ Spare(E, Refs', Open')
                                            /\ count' + Cardinality(E) <= Cardinality(Counted')
  BY DEF SpareInv
<1>1. PICK D \in SUBSET Refs : /\ Spare(D, Refs, Open)
                               /\ count + Cardinality(D) <= Cardinality(Counted)
  BY DEF SpareInv
<1>2. /\ Spare(D \cap Refs', Refs', Open')
      /\ Cardinality(D \cap Refs') \in Nat /\ Cardinality(D) \in Nat
      /\ Cardinality(D \cap Refs') <= Cardinality(D)
  BY <1>1, SpareOpened
<1>3. count \in Int /\ count' \in Int /\ Cardinality(Counted) \in Nat
  BY CountedFinite DEF TypeOK
<1>4. count' + Cardinality(D \cap Refs') <= Cardinality(Counted')
  BY <1>1, <1>2, <1>3
<1> QED BY <1>2, <1>4

\* A step that closes the numbers of the references C, and counts out the slots X
\* it takes out of use.
LEMMA SpareRelease ==
  ASSUME TypeOK, TypeOK', SpareInv, NEW C \in SUBSET Refs, Refs' \subseteq Refs \ C,
         Open \ Numbers(C) \subseteq Open',
         phase' # "destroyed" => phase # "destroyed",
         Cardinality(Counted') - count' >= Cardinality(Counted) - count,
         Cardinality(Counted') \in Nat
  PROVE  SpareInv'
<1> SUFFICES ASSUME phase' # "destroyed"
             PROVE  \E E \in SUBSET Refs' : /\ Spare(E, Refs', Open')
                                            /\ count' + Cardinality(E) <= Cardinality(Counted')
  BY DEF SpareInv
<1>1. PICK D \in SUBSET Refs : /\ Spare(D, Refs, Open)
                               /\ count + Cardinality(D) <= Cardinality(Counted)
  BY DEF SpareInv
<1>2. /\ Spare(ToSpare(Refs, D, C) \cap Refs', Refs', Open')
      /\ Cardinality(ToSpare(Refs, D, C) \cap Refs') \in Nat /\ Cardinality(D) \in Nat
      /\ Cardinality(ToSpare(Refs, D, C) \cap Refs') <= Cardinality(D)
  BY ONLY <1>1, C \in SUBSET Refs, Refs' \subseteq Refs \ C,
     Open \ Numbers(C) \subseteq Open', SpareClosed
<1>3. count \in Int /\ count' \in Int /\ Cardinality(Counted) \in Nat
  BY CountedFinite DEF TypeOK
<1>4. count' + Cardinality(ToSpare(Refs, D, C) \cap Refs') <= Cardinality(Counted')
  BY <1>1, <1>2, <1>3
<1>5. ToSpare(Refs, D, C) \cap Refs' \in SUBSET Refs'
  OBVIOUS
<1> QED BY <1>2, <1>4, <1>5

\* A failed handshake: one more slot in use, uncounted, with a closed number.
LEMMA SpareHandshake ==
  ASSUME TypeOK, TypeOK', SpareInv, HandshakeFails
  PROVE  SpareInv'
<1> SUFFICES ASSUME phase' # "destroyed"
             PROVE  \E E \in SUBSET Refs' : /\ Spare(E, Refs', Open')
                                            /\ count' + Cardinality(E) <= Cardinality(Counted')
  BY DEF SpareInv
<1>1. PICK s \in Slots, f \in Fds : ~active[s] /\ Occupy(s, f)
  BY DEF HandshakeFails, FirstFree, FreeSlots
<1>2. /\ pc = "tls" /\ pc' # "closing" /\ count' = count /\ kernel' = kernel /\ held' = held
      /\ phase' = phase
  BY DEF HandshakeFails, NextListener, tableVars
<1>3. Counted' = Counted \cup {s} /\ s \notin Counted
  BY <1>1, <1>2 DEF Occupy, TypeOK, Counted, ClosingSlot, ActiveSlots
<1>4. Cardinality(Counted') = Cardinality(Counted) + 1
  BY ONLY <1>3, CountedFinite, TypeOK, FS_AddElement
<1>5. Refs' \subseteq Refs \cup {<<"sock", s, f>>}
  BY <1>1, <1>2, <1>3, FdsAssumption DEF Occupy, TypeOK, Refs, None
<1>6. Open' = Open
  BY <1>2 DEF Open
<1>7. PICK D \in SUBSET Refs : /\ Spare(D, Refs, Open)
                               /\ count + Cardinality(D) <= Cardinality(Counted)
  BY <1>2 DEF SpareInv
<1> DEFINE E == (D \cup {<<"sock", s, f>>}) \cap Refs'
<1>8. /\ Spare(E, Refs', Open) /\ Cardinality(E) \in Nat /\ Cardinality(D) \in Nat
      /\ Cardinality(E) <= Cardinality(D) + 1
  BY <1>5, <1>7, SpareAdded
<1>9. count \in Int /\ Cardinality(Counted) \in Nat
  BY CountedFinite DEF TypeOK
<1> HIDE DEF E
<1>10. count' + Cardinality(E) <= Cardinality(Counted')
  BY <1>2, <1>4, <1>7, <1>8, <1>9
<1> QED BY <1>6, <1>8, <1>10 DEF E

\* select() failed: the slots left uncounted held references to spare.
LEMMA SpareFails ==
  ASSUME TypeOK, TypeOK', SpareInv, SelectFails
  PROVE  SpareInv'
<1> SUFFICES ASSUME phase' # "destroyed"
             PROVE  \E E \in SUBSET Refs' : /\ Spare(E, Refs', Open')
                                            /\ count' + Cardinality(E) <= Cardinality(Counted')
  BY DEF SpareInv
<1> DEFINE X == {s \in ActiveSlots : sock[s] # None /\ kernel[sock[s]] = Free}
           Y == {<<"sock", s, sock[s]>> : s \in X}
           g == [s \in X |-> <<"sock", s, sock[s]>>]
<1>1. /\ UNCHANGED <<sock, rtp, count, kernel, held, phase, pc, cur>> /\ pc = "select"
      /\ active' = [s \in Slots |-> active[s] /\ (sock[s] # None => kernel[sock[s]] # Free)]
  BY DEF SelectFails, AtSelect, tableVars, loopVars
<1>2. X \subseteq Counted /\ Counted' = Counted \ X
  BY <1>1 DEF Counted, ActiveSlots, ClosingSlot, TypeOK
<1>3. /\ Cardinality(Counted') = Cardinality(Counted) - Cardinality(X)
      /\ IsFiniteSet(X) /\ Cardinality(X) \in Nat
  BY <1>2, CountedLess
<1>4. PICK D \in SUBSET Refs : /\ Spare(D, Refs, Open)
                               /\ count + Cardinality(D) <= Cardinality(Counted)
  BY <1>1 DEF SpareInv
<1>5. \A s \in X : <<"sock", s, sock[s]>> \in Refs /\ sock[s] \notin Open
  BY <1>2 DEF Refs, Open, TypeOK, ActiveSlots
<1>6. Y \subseteq D
  BY <1>4, <1>5 DEF Spare
<1>7. g \in Injection(X, Y)
  BY DEF Injection, IsInjective
<1>8. /\ IsFiniteSet(Y) /\ Cardinality(Y) \in Nat /\ Cardinality(X) <= Cardinality(Y)
      /\ Cardinality(D) \in Nat
  <2> HIDE DEF g, X
  <2>1. IsFiniteSet(Y) /\ Cardinality(Y) \in Nat /\ Cardinality(D) \in Nat
    BY <1>4, <1>6, FS_Subset, FS_CardinalityType DEF Spare
  <2> HIDE DEF Y
  <2> QED BY <1>7, <2>1, FS_Injection
<1>9. Refs' \subseteq Refs \ Y
  BY <1>1, <1>2 DEF Refs
<1>10. Spare(D \ Y, Refs \ Y, Open)
  BY <1>4, <1>6, FS_Difference DEF Spare
<1>11. Cardinality(D \ Y) = Cardinality(D) - Cardinality(Y) /\ Cardinality(D \ Y) \in Nat
  <2>1. D \cap Y = Y
    BY <1>6
  <2> QED BY <1>4, <2>1, FS_Difference, FS_CardinalityType DEF Spare
<1>12. Open' = Open
  BY <1>1 DEF Open
<1> DEFINE E == (D \ Y) \cap Refs'
<1>13. /\ Spare(E, Refs', Open') /\ Cardinality(E) \in Nat
       /\ Cardinality(E) <= Cardinality(D \ Y)
  BY <1>9, <1>10, <1>12, SpareLess
<1>14. count \in Int /\ Cardinality(Counted) \in Nat
  BY CountedFinite DEF TypeOK
<1> HIDE DEF E, X, Y
<1>15. count' + Cardinality(E) <= Cardinality(Counted')
  BY <1>1, <1>3, <1>4, <1>8, <1>11, <1>13, <1>14
<1> QED BY <1>13, <1>15 DEF E

\* A slot is released: both its numbers are closed.
LEMMA SpareCleanup ==
  ASSUME TypeOK, TypeOK', SpareInv, LateInv, FinishTeardown \/ FinishClose
  PROVE  SpareInv'
<1>1. /\ pc \in {"teardown", "closing"} /\ cur \in Slots /\ cur' = cur /\ count' = count - 1
      /\ phase' = phase /\ Cleanup(cur) /\ pc' \in {"scan", "closing"}
      /\ pc' = "closing" => pc = "teardown"
  BY DEF FinishTeardown, FinishClose, TypeOK
<1>2. cur \in Counted
  BY <1>1 DEF LateInv, Counted, ActiveSlots, ClosingSlot
<1>3. Counted' = Counted \/ Counted' = Counted \ {cur}
  <2>1. active' = [active EXCEPT ![cur] = FALSE] /\ active \in [Slots -> BOOLEAN]
    BY <1>1 DEF Cleanup, TypeOK
  <2>2. ActiveSlots' = ActiveSlots \ {cur}
    BY <1>1, <2>1 DEF ActiveSlots
  <2>3. CASE pc' = "scan"
    BY <1>1, <2>2, <2>3 DEF Counted, ClosingSlot
  <2>4. CASE pc' = "closing"
    <3>1. cur \in ActiveSlots /\ ClosingSlot = {} /\ ClosingSlot' = {cur}
      BY <1>1, <2>4 DEF LateInv, ActiveSlots, ClosingSlot
    <3> QED BY <2>2, <3>1 DEF Counted
  <2> QED BY <1>1, <2>3, <2>4
<1>4. /\ Cardinality(Counted') - count' >= Cardinality(Counted) - count
      /\ Cardinality(Counted') \in Nat
  <2>1. /\ Cardinality(Counted \ {cur}) = Cardinality(Counted) - 1
        /\ Cardinality(Counted \ {cur}) \in Nat
    BY <1>2, CountedFinite, FS_RemoveElement, FS_CardinalityType
  <2>2. Cardinality(Counted) \in Nat /\ count \in Int
    BY CountedFinite DEF TypeOK
  <2> QED BY ONLY <1>1, <1>3, <2>1, <2>2
<1> DEFINE C == {r \in Refs : r[1] \in {"sock", "rtp"} /\ r[2] = cur}
<1>5. Refs' \subseteq Refs \ C
  <2>1. /\ sock' = [sock EXCEPT ![cur] = None] /\ rtp' = [rtp EXCEPT ![cur] = None]
        /\ held' = held
    BY <1>1 DEF Cleanup
  <2>2. Counted' \subseteq Counted
    BY <1>3
  <2> QED BY <1>1, <2>1, <2>2, FdsAssumption DEF Refs, None, TypeOK
<1>6. Open \ Numbers(C) \subseteq Open'
  <2> SUFFICES ASSUME NEW f \in Fds, kernel[f] # Free, \A r \in C : r[3] # f
               PROVE  kernel'[f] # Free
    BY DEF Open, Numbers
  <2>1. sock[cur] = f => <<"sock", cur, f>> \in C
    BY <1>1, <1>2 DEF Refs
  <2>2. rtp[cur] = f => <<"rtp", cur, f>> \in C
    BY <1>1, <1>2 DEF Refs
  <2>3. f # sock[cur] /\ f # rtp[cur]
    BY <2>1, <2>2
  <2> QED BY <1>1, <2>3 DEF Cleanup, Closed
<1> HIDE DEF C
<1>7. C \in SUBSET Refs
  BY DEF C
<1> QED BY <1>1, <1>4, <1>5, <1>6, <1>7, SpareRelease

\* The idle sweep: the same for several slots.
LEMMA SpareSweep ==
  ASSUME TypeOK, TypeOK', SpareInv, SelectTimesOut
  PROVE  SpareInv'
<1>1. /\ pc = "select" /\ UNCHANGED <<held, phase, pc, cur>>
      /\ count' = count - Cardinality(Expired)
      /\ active' = [s \in Slots |-> active[s] /\ s \notin Expired]
      /\ sock' = [s \in Slots |-> IF s \in Expired THEN None ELSE sock[s]]
      /\ rtp' = [s \in Slots |-> IF s \in Expired THEN None ELSE rtp[s]]
      /\ kernel' = Closed(({sock[s] : s \in Expired} \cup {rtp[s] : s \in Expired}) \ {None})
  BY DEF SelectTimesOut, AtSelect, loopVars
<1>2. Expired \subseteq Counted /\ Counted' = Counted \ Expired
  BY <1>1 DEF Expired, Counted, ActiveSlots, ClosingSlot, TypeOK
<1>3. /\ Cardinality(Counted') - count' >= Cardinality(Counted) - count
      /\ Cardinality(Counted') \in Nat
  <2>1. /\ Cardinality(Counted') = Cardinality(Counted) - Cardinality(Expired)
        /\ Cardinality(Expired) \in Nat
    BY <1>2, CountedLess
  <2>2. Cardinality(Counted) \in Nat /\ count \in Int
    BY CountedFinite DEF TypeOK
  <2>3. IsFiniteSet(Counted')
    BY <1>2, CountedFinite, FS_Subset
  <2>4. Cardinality(Counted') \in Nat
    BY <2>3, FS_CardinalityType
  <2> QED BY <1>1, <2>1, <2>2, <2>4
<1> DEFINE C == {r \in Refs : r[1] \in {"sock", "rtp"} /\ r[2] \in Expired}
<1>4. Refs' \subseteq Refs \ C
  <2> SUFFICES ASSUME NEW r \in Refs' PROVE r \in Refs \ C
    OBVIOUS
  <2>1. /\ r \in {"sock", "rtp", "held"} \X (Slots \cup {0}) \X Fds /\ r[3] # None
        /\ \/ r[1] = "sock" /\ r[2] \in Counted' /\ r[3] = sock'[r[2]]
           \/ r[1] = "rtp" /\ r[2] \in Counted' /\ r[3] = rtp'[r[2]]
           \/ r[1] = "held" /\ r[2] = 0 /\ r[3] \in held'
    BY FdsAssumption DEF Refs, None
  <2>2. Counted \subseteq Slots
    BY DEF Counted, ActiveSlots, ClosingSlot, TypeOK
  <2>3. CASE r[1] = "held"
    BY <1>1, <2>1, <2>3 DEF Refs
  <2>4. CASE r[1] = "sock"
    BY <1>1, <1>2, <2>1, <2>2, <2>4 DEF Refs
  <2>5. CASE r[1] = "rtp"
    BY <1>1, <1>2, <2>1, <2>2, <2>5 DEF Refs
  <2> QED BY <2>1, <2>3, <2>4, <2>5
<1>5. Open \ Numbers(C) \subseteq Open'
  <2> SUFFICES ASSUME NEW f \in Fds, kernel[f] # Free, \A r \in C : r[3] # f
               PROVE  kernel'[f] # Free
    BY DEF Open, Numbers
  <2>1. \A s \in Expired : s \in Slots /\ s \in Counted
    BY <1>2 DEF Expired
  <2>2. \A s \in Expired : sock[s] = f => <<"sock", s, f>> \in C
    BY <2>1 DEF Refs
  <2>3. \A s \in Expired : rtp[s] = f => <<"rtp", s, f>> \in C
    BY <2>1 DEF Refs
  <2>4. \A s \in Expired : f # sock[s] /\ f # rtp[s]
    BY <2>2, <2>3
  <2> QED BY <1>1, <2>4 DEF Closed
<1> HIDE DEF C
<1>6. C \in SUBSET Refs
  BY DEF C
<1> QED BY <1>1, <1>3, <1>4, <1>5, <1>6, SpareRelease

\* Another thread closes what it has opened.
LEMMA SpareForeign ==
  ASSUME TypeOK, TypeOK', SpareInv, ForeignClose
  PROVE  SpareInv'
<1>1. PICK f \in held : kernel' = Closed({f}) /\ held' = held \ {f} /\ UNCHANGED serverVars
  BY DEF ForeignClose
<1>2. UNCHANGED <<active, sock, rtp, count, phase, pc, cur>>
  BY <1>1 DEF serverVars, slotVars, loopVars
<1>3. Counted' = Counted
  BY <1>2 DEF Counted, ActiveSlots, ClosingSlot
<1> DEFINE C == {<<"held", 0, f>>}
<1>4. C \in SUBSET Refs
  BY DEF Refs, TypeOK
<1>5. Refs' \subseteq Refs \ C
  BY <1>1, <1>2, <1>3 DEF Refs
<1>6. Open \ Numbers(C) \subseteq Open'
  BY <1>1 DEF Open, Closed, Numbers
<1>7. Cardinality(Counted) \in Nat /\ count \in Int
  BY CountedFinite DEF TypeOK
<1> HIDE DEF C
<1> QED BY <1>2, <1>3, <1>4, <1>5, <1>6, <1>7, SpareRelease

\* A number that is opened for a slot, or by another thread.
LEMMA SpareAccept ==
  ASSUME TypeOK, TypeOK', SpareInv, AcceptPlain \/ AcceptTls
  PROVE  SpareInv'
<1>1. PICK s \in Slots, f \in Fds : /\ ~active[s] /\ kernel[f] = Free /\ Occupy(s, f)
                                    /\ kernel' = [kernel EXCEPT ![f] = Ctrl(s)]
  BY DEF AcceptPlain, AcceptTls, FirstFree, FreeSlots, LowestFree
<1>2. /\ pc # "closing" /\ pc' # "closing" /\ count' = count + 1 /\ held' = held
      /\ phase' = phase
  BY DEF AcceptPlain, AcceptTls, NextListener
<1>3. Counted' = Counted \cup {s} /\ s \notin Counted
  BY <1>1, <1>2 DEF Occupy, TypeOK, Counted, ClosingSlot, ActiveSlots
<1>4. Cardinality(Counted') = Cardinality(Counted) + 1
  BY ONLY <1>3, CountedFinite, TypeOK, FS_AddElement
<1> DEFINE x == <<"sock", s, f>>
<1>5. Refs' \subseteq Refs \cup {x}
  BY <1>1, <1>2, <1>3, FdsAssumption DEF Occupy, TypeOK, Refs, None
<1>6. x[3] \notin Open /\ Open \cup {x[3]} \subseteq Open'
  BY <1>1 DEF Open, Free, Ctrl, TypeOK
<1>7. Cardinality(Counted) \in Nat /\ count \in Int
  BY CountedFinite DEF TypeOK
<1>8. /\ Cardinality(Counted') - count' >= Cardinality(Counted) - count
      /\ Cardinality(Counted') \in Nat
  BY <1>2, <1>4, <1>7
<1> HIDE DEF x
<1> QED BY <1>2, <1>5, <1>6, <1>8, SpareGrows

LEMMA SpareForeignOpen ==
  ASSUME TypeOK, TypeOK', SpareInv, ForeignOpen
  PROVE  SpareInv'
<1>1. PICK f \in Fds : /\ kernel[f] = Free /\ kernel' = [kernel EXCEPT ![f] = Foreign]
                       /\ held' = held \cup {f}
  BY DEF ForeignOpen, LowestFree
<1>2. UNCHANGED <<active, sock, rtp, count, phase, pc, cur>>
  BY DEF ForeignOpen, serverVars, slotVars, loopVars
<1>3. Counted' = Counted
  BY <1>2 DEF Counted, ActiveSlots, ClosingSlot
<1> DEFINE x == <<"held", 0, f>>
<1>4. Refs' \subseteq Refs \cup {x}
  BY <1>1, <1>2, <1>3 DEF Refs
<1>5. x[3] \notin Open /\ Open \cup {x[3]} \subseteq Open'
  BY <1>1 DEF Open, Free, Foreign, TypeOK
<1>6. Cardinality(Counted) \in Nat /\ count \in Int
  BY CountedFinite DEF TypeOK
<1> HIDE DEF x
<1> QED BY <1>2, <1>3, <1>4, <1>5, <1>6, SpareGrows

\* A request leaves the slot in use; only a SETUP over UDP changes a number.
LEMMA SpareServe ==
  ASSUME TypeOK, TypeOK', SpareInv, NEW s \in Slots, Serve(s)
  PROVE  SpareInv'
<1>1. /\ pc = "scan" /\ active[s] /\ cur' = s /\ UNCHANGED <<sock, count, held, phase>>
      /\ active' = active /\ pc' # "closing"
  BY DEF Serve, Disconnect, Interleaved, Other, SetupTcp, SetupNoPorts, SetupUdp,
         Play, Pause, Teardown, Serving, Todo, Return, tableVars
<1>2. Counted' = Counted
  BY <1>1 DEF Counted, ActiveSlots, ClosingSlot, TypeOK
<1>3. CASE UNCHANGED <<rtp, kernel>>
  <2>1. Refs' = Refs /\ Open' = Open
    BY <1>1, <1>2, <1>3 DEF Refs, Open
  <2> QED BY <1>1, <1>2, <2>1, SpareSame DEF TypeOK
<1>4. CASE \E sent \in BOOLEAN : SetupUdp(s, sent)
  <2>1. CASE rtp' = [rtp EXCEPT ![s] = None] /\ UNCHANGED kernel
    <3>1. Refs' \subseteq Refs /\ Open' = Open
      BY <1>1, <1>2, <2>1, FdsAssumption DEF Refs, Open, None, TypeOK
    <3> QED BY <1>1, <1>2, <3>1, SpareSame DEF TypeOK
  <2>2. ASSUME NEW f \in Fds, kernel[f] = Free, rtp' = [rtp EXCEPT ![s] = f],
               kernel' = [kernel EXCEPT ![f] = Rtp(s)]
        PROVE  SpareInv'
    <3> DEFINE x == <<"rtp", s, f>>
    <3>1. Refs' \subseteq Refs \cup {x}
      BY <1>1, <1>2, <2>2 DEF Refs, TypeOK
    <3>2. x[3] \notin Open /\ Open \cup {x[3]} \subseteq Open'
      BY <2>2 DEF Open, Free, Rtp, TypeOK
    <3>3. Cardinality(Counted) \in Nat /\ count \in Int
      BY CountedFinite DEF TypeOK
    <3> HIDE DEF x
    <3> QED BY <1>1, <1>2, <3>1, <3>2, <3>3, SpareGrows
  <2> QED BY <1>4, <2>1, <2>2 DEF SetupUdp, LowestFree
<1>5. UNCHANGED <<rtp, kernel>> \/ \E sent \in BOOLEAN : SetupUdp(s, sent)
  BY DEF Serve, Disconnect, Interleaved, Other, SetupTcp, SetupNoPorts, Play, Pause,
         Teardown, tableVars
<1> QED BY <1>3, <1>4, <1>5

LEMMA SpareNext == TypeOK /\ TypeOK' /\ SpareInv /\ LateInv /\ [Next]_vars => SpareInv'
<1> SUFFICES ASSUME TypeOK, TypeOK', SpareInv, LateInv, [Next]_vars PROVE SpareInv'
  OBVIOUS
<1>1. ASSUME UNCHANGED <<sock, rtp, held, kernel, count>>, Counted' = Counted,
             phase' # "destroyed" => phase # "destroyed"
      PROVE  SpareInv'
  <2>1. Refs' = Refs /\ Open' = Open
    BY <1>1 DEF Refs, Open
  <2> QED BY <1>1, <2>1, SpareSame DEF TypeOK
<1>2. CASE Destroy
  BY <1>2 DEF Destroy, SpareInv
<1>3. CASE \/ SelectFails \/ SelectTimesOut \/ HandshakeFails \/ ForeignOpen \/ ForeignClose
           \/ AcceptPlain \/ AcceptTls
  BY <1>3, SpareFails, SpareSweep, SpareHandshake, SpareForeignOpen, SpareForeign,
     SpareAccept
<1>4. CASE FinishTeardown \/ FinishClose
  BY <1>4, SpareCleanup
<1>5. CASE \E s \in Slots : Serve(s)
  BY <1>5, SpareServe
<1>6. CASE AcceptNothing \/ ScanDone \/ SelectReady \/ Exit
  <2>1. /\ pc # "closing" /\ pc' # "closing"
        /\ UNCHANGED <<active, sock, rtp, held, kernel, count, phase>>
    BY <1>6 DEF AcceptNothing, NextListener, ScanDone, SelectReady, AtSelect, Exit, slotVars,
                tableVars
  <2>2. Counted' = Counted
    BY <2>1 DEF Counted, ActiveSlots, ClosingSlot
  <2> QED BY <1>1, <2>1, <2>2
<1>7. CASE \/ Start \/ Stop \/ PeerCloses \/ UNCHANGED vars
           \/ \E s \in Slots : TimePasses(s)
  <2>1. /\ UNCHANGED <<active, pc, cur, sock, rtp, held, kernel, count>>
        /\ phase' # "destroyed" => phase # "destroyed"
    BY <1>7 DEF Start, Stop, PeerCloses, TimePasses, vars, serverVars, slotVars, loopVars,
                tableVars
  <2>2. Counted' = Counted
    BY <2>1 DEF Counted, ActiveSlots, ClosingSlot
  <2> QED BY <1>1, <2>1, <2>2
<1>8. CASE Restore
  <2>1. /\ pc = "back" /\ cur \in Slots /\ active[cur] /\ cur' = cur
        /\ UNCHANGED <<sock, rtp, held, kernel, count, phase>>
        /\ \/ active' = active /\ pc' = "scan"
           \/ active' = [active EXCEPT ![cur] = FALSE] /\ pc' = "closing"
    BY <1>8 DEF Restore, tableVars, LateInv, TypeOK
  <2>2. Counted' = Counted
    BY <2>1 DEF Counted, ActiveSlots, ClosingSlot, TypeOK
  <2> QED BY <1>1, <2>1, <2>2
<1> QED BY <1>2, <1>3, <1>4, <1>5, <1>6, <1>7, <1>8
           DEF Next, ServerThread, MainThread, Environment

LEMMA LateNext == TypeOK /\ LateInv /\ [Next]_vars => LateInv'
<1> SUFFICES ASSUME TypeOK, LateInv, [Next]_vars, pc' \in {"back", "teardown"}
             PROVE  active'[cur']
  BY DEF LateInv
<1>1. CASE \E s \in Slots : Serve(s)
  <2>1. PICK s \in Slots : Serve(s)
    BY <1>1
  <2>2. active[s] /\ cur' = s /\ active' = active
    BY <2>1 DEF Serve, Disconnect, Interleaved, Other, SetupTcp, SetupNoPorts, SetupUdp,
                Play, Pause, Teardown, Serving, Todo, Return
  <2> QED BY <2>2
<1>2. CASE \/ Destroy \/ Exit \/ SelectFails \/ SelectReady \/ SelectTimesOut
           \/ AcceptNothing \/ AcceptPlain \/ AcceptTls \/ HandshakeFails
           \/ ScanDone \/ Restore \/ FinishTeardown \/ FinishClose
  BY <1>2 DEF Destroy, Exit, SelectFails, SelectReady, SelectTimesOut, AtSelect,
     AcceptNothing, AcceptPlain, AcceptTls, HandshakeFails, NextListener, ScanDone,
     Restore, FinishTeardown, FinishClose, loopVars
<1>3. CASE \/ Start \/ Stop \/ PeerCloses \/ ForeignOpen \/ ForeignClose \/ UNCHANGED vars
           \/ \E s \in Slots : TimePasses(s)
  <2>1. UNCHANGED <<active, pc, cur>>
    BY <1>3 DEF Start, Stop, PeerCloses, ForeignOpen, ForeignClose, TimePasses, vars,
       serverVars, slotVars, loopVars
  <2> QED BY <2>1 DEF LateInv
<1> QED BY <1>1, <1>2, <1>3 DEF Next, ServerThread, MainThread, Environment

(* However many handshakes fail (rtsp_server.c:1428-1434) and TEARDOWN     *)
(* replies are lost (:1490, :2216), and whoever gets a closed number that  *)
(* a slot still holds, the count never exceeds the slots in use: faults    *)
(* make the server admit too many, but keep nobody out for good.           *)
THEOREM CapacityIsKept == Spec => []CapacityNeverLost
<1> DEFINE IInv == TypeOK /\ SpareInv /\ LateInv
<1>1. Init => IInv
  <2> SUFFICES ASSUME Init PROVE IInv
    OBVIOUS
  <2>1. TypeOK /\ LateInv
    BY TypeInit DEF Init, LateInv
  <2>2. Refs = {} /\ count = 0
    BY FdsAssumption DEF Init, Refs, Counted, ActiveSlots, ClosingSlot
  <2>3. Spare({}, Refs, Open) /\ Cardinality({}) = 0
    BY <2>2, FS_EmptySet DEF Spare
  <2>4. SpareInv
    BY <2>1, <2>2, <2>3, CountedFinite DEF SpareInv
  <2> QED BY <2>1, <2>4
<1>2. IInv /\ [Next]_vars => IInv'
  BY TypeNext, SpareNext, LateNext
<1>3. IInv => CapacityNeverLost
  <2> SUFFICES ASSUME TypeOK, SpareInv, phase # "destroyed"
               PROVE  count <= Cardinality(Counted)
    BY DEF CapacityNeverLost, Counted
  <2>1. PICK D \in SUBSET Refs : /\ Spare(D, Refs, Open)
                                 /\ count + Cardinality(D) <= Cardinality(Counted)
    BY DEF SpareInv
  <2>2. Cardinality(D) \in Nat
    BY <2>1, FS_CardinalityType DEF Spare
  <2> QED BY <2>1, <2>2, CountedFinite DEF TypeOK
<1> HIDE DEF IInv
<1> QED BY <1>1, <1>2, <1>3, PTL DEF Spec
===============================================================================
