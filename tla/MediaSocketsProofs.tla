-------------------------- MODULE MediaSocketsProofs --------------------------
(***************************************************************************)
(* Theorems of MediaSockets, for any number of slots, descriptors,         *)
(* sessions, NAL units and fragments.                                      *)
(***************************************************************************)
EXTENDS MediaSockets, TLAPS

USE SlotsAssumption, FdsAssumption, BoundsAssumption

(* TypeOK and what it rests on: a slot in use has a session.               *)
TypeInv == TypeOK /\ \A s \in Slots : active[s] => sess[s] # 0

LEMMA TypeInit == Init => TypeInv
  BY DEF Init, TypeInv, TypeOK, Slots, Objects, Free, NoPacket, None, Live

(* The descriptor a packet goes to, if any, is one of the table.           *)
LEMMA TargetType ==
  ASSUME TypeOK, fpc = "nal", Target # None
  PROVE  Target \in Fds
<1>1. fslot \in Slots
  BY DEF TypeOK
<1>2. cached # Live => cached \in Fds \cup {None}
  BY DEF TypeOK
<1> QED BY <1>1, <1>2 DEF Target, TypeOK

LEMMA CloseType ==
  ASSUME TypeOK, NEW fd, Close(fd)
  PROVE  kernel' \in [Fds -> Objects]
  BY DEF Close, TypeOK, Objects

LEMMA SlotNumbers == \A s \in Slots : s \in Int /\ s # 0
  BY DEF Slots

LEMMA TypeServer ==
  ASSUME TypeInv, ServerThread
  PROVE  TypeInv'
<1> USE DEF TypeInv, TypeOK
<1>1. ASSUME NEW s \in Slots, Connect(s)
      PROVE  TypeInv'
  <2>1. accepted + 1 \in Sessions /\ accepted + 1 \in 0..MaxSessions /\ accepted + 1 # 0
    BY <1>1 DEF Connect, Sessions
  <2>2. kernel' \in [Fds -> Objects] /\ sock' \in [Slots -> Fds \cup {None}]
    BY <1>1, <2>1 DEF Connect, Objects
  <2>3. /\ rtp' = [rtp EXCEPT ![s] = None]
        /\ active' = [active EXCEPT ![s] = TRUE]
        /\ st' = [st EXCEPT ![s] = "INIT"]
        /\ tcp' = [tcp EXCEPT ![s] = FALSE]
        /\ sess' = [sess EXCEPT ![s] = accepted + 1]
        /\ accepted' = accepted + 1
        /\ UNCHANGED <<pc, cur, sweeps, lost, fpc, fslot, nals, frags, cached, made, wire>>
    BY <1>1 DEF Connect, frameVars
  <2> QED BY <2>1, <2>2, <2>3
<1>2. ASSUME NEW s \in Slots, SetupTcp(s)
      PROVE  TypeInv'
  BY <1>2 DEF SetupTcp, frameVars
<1>3. ASSUME NEW s \in Slots, SetupUdp(s)
      PROVE  TypeInv'
  <2>1. sess[s] \in Sessions
    BY <1>3 DEF SetupUdp, Handling, Sessions
  <2>2. kernel' \in [Fds -> Objects] /\ rtp' \in [Slots -> Fds \cup {None}]
    BY <1>3, <2>1 DEF SetupUdp, Objects
  <2> QED BY <1>3, <2>2 DEF SetupUdp, frameVars
<1>4. ASSUME NEW s \in Slots, Play(s)
      PROVE  TypeInv'
  BY <1>4 DEF Play, Idle, frameVars
<1>5. ASSUME NEW s \in Slots, Hide(s)
      PROVE  TypeInv'
  BY <1>5, SlotNumbers DEF Hide, Busy, frameVars
<1>6. ASSUME NEW s \in Slots, Deactivate(s)
      PROVE  TypeInv'
  BY <1>6, SlotNumbers DEF Deactivate, Busy, frameVars
<1>7. ASSUME NEW s \in Slots, Teardown(s)
      PROVE  TypeInv'
  BY <1>7, SlotNumbers DEF Teardown, Busy, frameVars
<1>8. ASSUME NEW s \in Slots, TeardownLost(s)
      PROVE  TypeInv'
  BY <1>8, SlotNumbers DEF TeardownLost, frameVars
<1>9. ASSUME NEW s \in Slots, Sweep(s)
      PROVE  TypeInv'
  BY <1>9, SlotNumbers DEF Sweep, slotVars, frameVars
<1>10. CASE Resume
  BY <1>10 DEF Resume, Idle, frameVars
<1>11. CASE DelayOver
  BY <1>11 DEF DelayOver, slotVars, frameVars
<1>12. CASE CloseCtrl
  <2>1. kernel' \in [Fds -> Objects]
    BY <1>12, CloseType DEF CloseCtrl
  <2> QED BY <1>12, <2>1 DEF CloseCtrl, slotVars, frameVars
<1>13. CASE ClearCtrl
  BY <1>13 DEF ClearCtrl, frameVars
<1>14. CASE CloseRtp
  <2>1. kernel' \in [Fds -> Objects]
    BY <1>14, CloseType DEF CloseRtp
  <2> QED BY <1>14, <2>1 DEF CloseRtp, slotVars, frameVars
<1>15. CASE ClearRtp
  BY <1>15 DEF ClearRtp, frameVars
<1>16. CASE Release
  BY <1>16 DEF Release, Idle, frameVars
<1> QED
  BY <1>1, <1>2, <1>3, <1>4, <1>5, <1>6, <1>7, <1>8, <1>9, <1>10, <1>11, <1>12,
     <1>13, <1>14, <1>15, <1>16 DEF ServerThread

LEMMA TypeFrame ==
  ASSUME TypeInv, FrameThread
  PROVE  TypeInv'
<1> USE DEF TypeInv, TypeOK
<1>0. NoPacket \in [for : 0..MaxSessions, to : Objects]
  BY DEF NoPacket, Objects
<1>1. ASSUME NEW s \in Slots, Engage(s)
      PROVE  TypeInv'
  BY <1>0, <1>1, SlotNumbers DEF Engage, serverVars, slotVars
<1>2. CASE NextNal
  <2>1. fslot \in Slots
    BY <1>2 DEF NextNal
  <2>2. /\ fpc' \in {"frame", "nal"} /\ frags' \in 0..MaxFragments
        /\ cached' \in Fds \cup {None, Live}
        /\ nals' \in 0..MaxNals
    BY <1>2, <2>1 DEF NextNal
  <2> QED BY <1>2, <2>2, <1>0 DEF NextNal, serverVars, slotVars
<1>3. CASE SendPacket
  <2>1. kernel[Target] \in Objects
    BY <1>3, TargetType DEF SendPacket
  <2>2. wire' \in [for : 0..MaxSessions, to : Objects]
    BY <1>3, <2>1 DEF SendPacket
  <2> QED BY <1>3, <2>2 DEF SendPacket, serverVars, slotVars
<1>4. CASE NalDone
  BY <1>0, <1>4 DEF NalDone, serverVars, slotVars
<1>5. CASE FrameDone
  BY <1>0, <1>5 DEF FrameDone, serverVars, slotVars
<1> QED BY <1>1, <1>2, <1>3, <1>4, <1>5 DEF FrameThread

LEMMA TypeNext == TypeInv /\ [Next]_vars => TypeInv'
<1> SUFFICES ASSUME TypeInv, [Next]_vars PROVE TypeInv'
  OBVIOUS
<1>1. CASE ServerThread
  BY <1>1, TypeServer
<1>2. CASE FrameThread
  BY <1>2, TypeFrame
<1>3. CASE ForeignOpen
  <2>1. kernel' \in [Fds -> Objects]
    BY <1>3 DEF ForeignOpen, Objects, TypeInv, TypeOK
  <2> QED BY <1>3, <2>1 DEF ForeignOpen, serverVars, slotVars, frameVars, TypeInv, TypeOK
<1>4. CASE ForeignClose
  <2>1. kernel' \in [Fds -> Objects]
    BY <1>4, CloseType DEF ForeignClose, TypeInv
  <2> QED BY <1>4, <2>1 DEF ForeignClose, serverVars, slotVars, frameVars, TypeInv, TypeOK
<1>5. CASE UNCHANGED vars
  BY <1>5 DEF vars, serverVars, slotVars, frameVars, TypeInv, TypeOK
<1> QED BY <1>1, <1>2, <1>3, <1>4, <1>5 DEF Next

(* Type correctness of the sockets and the sender, for every instance.     *)
THEOREM TypeCorrect == Spec => []TypeOK
<1>1. TypeInv => TypeOK
  BY DEF TypeInv
<1> QED BY TypeInit, TypeNext, <1>1, PTL DEF Spec

-----------------------------------------------------------------------------
(* Who owns which descriptor.  Two slots never hold the same session, and  *)
(* closing what a slot owns takes nothing from anybody else.               *)
SessionsDistinct ==
    /\ \A s \in Slots : sess[s] <= accepted
    /\ \A s, t \in Slots : s # t /\ sess[s] # 0 => sess[s] # sess[t]

OwnInv == SessionsDistinct /\ SlotsOwnSockets

LEMMA Tags == \A m, n : /\ Ctrl(m) # Rtp(n) /\ Ctrl(m) # Free /\ Ctrl(m) # Foreign
                        /\ Rtp(n) # Free /\ Rtp(n) # Foreign
                        /\ Ctrl(m) = Ctrl(n) => m = n
                        /\ Rtp(m) = Rtp(n) => m = n
  BY DEF Ctrl, Rtp, Free, Foreign

LEMMA NoneNoFd == None \notin Fds /\ Live \notin Fds /\ None # Live
  BY DEF None, Live

(* A socket a slot refers to was opened by a session of the server.        *)
LEMMA OwnedSession ==
  ASSUME TypeOK, NEW f \in Fds, NEW n, kernel[f] = Ctrl(n) \/ kernel[f] = Rtp(n)
  PROVE  n \in Sessions /\ n # 0
<1>1. kernel[f] \in Objects
  BY DEF TypeOK
<1>2. PICK k \in Sessions : kernel[f] = Ctrl(k) \/ kernel[f] = Rtp(k)
  BY <1>1, Tags DEF Objects
<1> QED BY <1>2, Tags DEF Sessions

(* Closing the control socket of cur leaves all other entries alone.       *)
LEMMA CloseCtrlOwn ==
  ASSUME TypeOK, OwnInv, CloseCtrl
  PROVE  OwnInv'
<1> USE DEF OwnInv, SlotsOwnSockets
<1>0. /\ pc = "close" /\ pc' = "clear" /\ cur \in Slots
      /\ UNCHANGED <<active, st, tcp, sock, rtp, sess, cur, accepted>>
      /\ kernel' = [f \in Fds |-> IF f = sock[cur] THEN Free ELSE kernel[f]]
  BY DEF CloseCtrl, Close, slotVars, TypeOK
<1>1. SessionsDistinct'
  BY <1>0 DEF SessionsDistinct
<1>2. ASSUME NEW s \in Slots, sock[s] # None, s # cur
      PROVE  kernel'[sock[s]] = Ctrl(sess[s])
  <2>1. sock[s] \in Fds /\ kernel[sock[s]] = Ctrl(sess[s]) /\ sess[s] # 0
    BY <1>0, <1>2, OwnedSession DEF TypeOK
  <2>2. sock[s] # sock[cur]
    BY <1>0, <1>2, <2>1, Tags DEF SessionsDistinct
  <2> QED BY <1>0, <2>1, <2>2
<1>3. ASSUME NEW s \in Slots, rtp[s] # None
      PROVE  kernel'[rtp[s]] = Rtp(sess[s])
  <2>1. rtp[s] \in Fds /\ kernel[rtp[s]] = Rtp(sess[s])
    BY <1>0, <1>3 DEF TypeOK
  <2>2. rtp[s] # sock[cur]
    BY <1>0, <2>1, Tags, NoneNoFd
  <2> QED BY <1>0, <2>1, <2>2
<1> QED BY <1>0, <1>1, <1>2, <1>3

(* Closing the RTP socket of cur leaves all other entries alone.           *)
LEMMA CloseRtpOwn ==
  ASSUME TypeOK, OwnInv, CloseRtp
  PROVE  OwnInv'
<1> USE DEF OwnInv, SlotsOwnSockets
<1>0. /\ pc = "closeRtp" /\ pc' = "clearRtp" /\ cur \in Slots
      /\ UNCHANGED <<active, st, tcp, sock, rtp, sess, cur, accepted>>
      /\ kernel' = [f \in Fds |-> IF f = rtp[cur] THEN Free ELSE kernel[f]]
  BY DEF CloseRtp, Close, slotVars, TypeOK
<1>1. SessionsDistinct'
  BY <1>0 DEF SessionsDistinct
<1>2. ASSUME NEW s \in Slots, sock[s] # None
      PROVE  kernel'[sock[s]] = Ctrl(sess[s])
  <2>1. sock[s] \in Fds /\ kernel[sock[s]] = Ctrl(sess[s])
    BY <1>0, <1>2 DEF TypeOK
  <2>2. sock[s] # rtp[cur]
    BY <1>0, <2>1, Tags, NoneNoFd
  <2> QED BY <1>0, <2>1, <2>2
<1>3. ASSUME NEW s \in Slots, rtp[s] # None, s # cur
      PROVE  kernel'[rtp[s]] = Rtp(sess[s])
  <2>1. rtp[s] \in Fds /\ kernel[rtp[s]] = Rtp(sess[s]) /\ sess[s] # 0
    BY <1>0, <1>3, OwnedSession DEF TypeOK
  <2>2. rtp[s] # rtp[cur]
    BY <1>0, <1>3, <2>1, Tags DEF SessionsDistinct
  <2> QED BY <1>0, <2>1, <2>2
<1> QED BY <1>0, <1>1, <1>2, <1>3

(* A number handed out by the kernel was nobody's.                         *)
LEMMA OpenOwn ==
  ASSUME TypeInv, OwnInv,
         \/ \E s \in Slots : Connect(s) \/ SetupUdp(s)
         \/ ForeignOpen
  PROVE  OwnInv'
<1> USE DEF OwnInv, SlotsOwnSockets, TypeInv
<1>1. ASSUME NEW s \in Slots, Connect(s)
      PROVE  OwnInv'
  <2>0. /\ pc = "idle" /\ pc' = "idle" /\ cur' = cur
        /\ accepted' = accepted + 1
        /\ rtp' = [rtp EXCEPT ![s] = None]
        /\ sess' = [sess EXCEPT ![s] = accepted + 1]
    BY <1>1 DEF Connect
  <2>1. PICK f \in Fds : /\ kernel[f] = Free
                         /\ kernel' = [kernel EXCEPT ![f] = Ctrl(accepted + 1)]
                         /\ sock' = [sock EXCEPT ![s] = f]
    BY <1>1 DEF Connect
  <2>2. SessionsDistinct'
    BY <2>0 DEF SessionsDistinct, TypeOK
  <2>3. ASSUME NEW t \in Slots, t # s
        PROVE  /\ sock'[t] # None => kernel'[sock'[t]] = Ctrl(sess'[t])
               /\ rtp'[t] # None => kernel'[rtp'[t]] = Rtp(sess'[t])
    BY <2>0, <2>1, <2>3, Tags DEF TypeOK
  <2>4. kernel'[sock'[s]] = Ctrl(sess'[s]) /\ rtp'[s] = None
    BY <2>0, <2>1 DEF TypeOK
  <2> QED BY <2>2, <2>3, <2>4
<1>2. ASSUME NEW s \in Slots, SetupUdp(s)
      PROVE  OwnInv'
  <2>0. pc \in {"idle", "hidden"} /\ UNCHANGED <<pc, cur, sock, sess, accepted>>
    BY <1>2 DEF SetupUdp, Handling
  <2>1. PICK f \in Fds : /\ kernel[f] = Free
                         /\ kernel' = [kernel EXCEPT ![f] = Rtp(sess[s])]
                         /\ rtp' = [rtp EXCEPT ![s] = f]
    BY <1>2 DEF SetupUdp
  <2>2. SessionsDistinct'
    BY <2>0 DEF SessionsDistinct
  <2>3. ASSUME NEW t \in Slots
        PROVE  /\ sock'[t] # None => kernel'[sock'[t]] = Ctrl(sess'[t])
               /\ rtp'[t] # None => kernel'[rtp'[t]] = Rtp(sess'[t])
    BY <2>0, <2>1, Tags DEF TypeOK
  <2> QED BY <2>2, <2>3
<1>3. CASE ForeignOpen
  <2>0. UNCHANGED <<pc, cur, sock, rtp, sess, accepted>>
    BY <1>3 DEF ForeignOpen, serverVars, slotVars
  <2>1. PICK f \in Fds : /\ kernel[f] = Free
                         /\ kernel' = [kernel EXCEPT ![f] = Foreign]
    BY <1>3 DEF ForeignOpen
  <2>2. SessionsDistinct'
    BY <2>0 DEF SessionsDistinct
  <2> QED BY <2>0, <2>1, <2>2, Tags DEF TypeOK
<1> QED BY <1>1, <1>2, <1>3

LEMMA OwnNext == TypeInv /\ OwnInv /\ [Next]_vars => OwnInv'
<1> SUFFICES ASSUME TypeInv, OwnInv, [Next]_vars PROVE OwnInv'
  OBVIOUS
<1> USE DEF OwnInv, SlotsOwnSockets, TypeInv
<1>0. CASE UNCHANGED <<sock, rtp, sess, kernel, accepted>> /\ pc \notin {"clear", "clearRtp"}
  BY <1>0 DEF SessionsDistinct
<1>1. CASE \/ \E s \in Slots : Connect(s) \/ SetupUdp(s)
           \/ ForeignOpen
  BY <1>1, OpenOwn
<1>2. CASE \/ \E s \in Slots : \/ SetupTcp(s) \/ Play(s) \/ Hide(s) \/ Deactivate(s)
                               \/ Teardown(s) \/ TeardownLost(s) \/ Sweep(s)
           \/ Resume \/ DelayOver \/ Release
  <2>1. UNCHANGED <<sock, rtp, sess, kernel, accepted>> /\ pc \notin {"clear", "clearRtp"}
    BY <1>2 DEF SetupTcp, Play, Hide, Deactivate, Teardown, TeardownLost, Sweep,
                Resume, DelayOver, Release, Handling, Busy, Idle, slotVars
  <2> QED BY <1>0, <2>1
<1>3. CASE CloseCtrl
  BY <1>3, CloseCtrlOwn
<1>4. CASE CloseRtp
  BY <1>4, CloseRtpOwn
<1>5. CASE ClearCtrl
  <2>1. /\ pc = "clear" /\ pc' = "closeRtp" /\ sock' = [sock EXCEPT ![cur] = None]
        /\ UNCHANGED <<rtp, sess, kernel, cur, accepted>>
    BY <1>5 DEF ClearCtrl
  <2> QED BY <2>1 DEF SessionsDistinct, TypeOK
<1>6. CASE ClearRtp
  <2>1. /\ pc = "clearRtp" /\ pc' = "release" /\ rtp' = [rtp EXCEPT ![cur] = None]
        /\ UNCHANGED <<sock, sess, kernel, cur, accepted>>
    BY <1>6 DEF ClearRtp
  <2> QED BY <2>1 DEF SessionsDistinct, TypeOK
<1>7. CASE FrameThread \/ UNCHANGED vars
  <2>1. UNCHANGED <<sock, rtp, sess, kernel, accepted, pc, cur>>
    BY <1>7 DEF FrameThread, Engage, NextNal, SendPacket, NalDone, FrameDone, vars,
                serverVars, slotVars
  <2> QED BY <2>1 DEF SessionsDistinct
<1>8. CASE ForeignClose
  <2>1. PICK f \in Fds : kernel[f] = Foreign /\ Close(f)
    BY <1>8 DEF ForeignClose
  <2>2. UNCHANGED <<sock, rtp, sess, accepted, pc, cur>>
    BY <1>8 DEF ForeignClose, serverVars, slotVars
  <2> QED BY <2>1, <2>2, Tags DEF Close, SessionsDistinct, TypeOK
<1> QED
  BY <1>1, <1>2, <1>3, <1>4, <1>5, <1>6, <1>7, <1>8 DEF Next, ServerThread

(* What the slots store are their own open sockets, whatever path closed   *)
(* the sockets of other clients, and whatever other threads open and       *)
(* close.                                                                  *)
THEOREM SlotsOwned == Spec => []SlotsOwnSockets
<1>1. Init => OwnInv
  BY DEF Init, OwnInv, SessionsDistinct, SlotsOwnSockets, None
<1>2. OwnInv => SlotsOwnSockets
  BY DEF OwnInv
<1> QED BY TypeInit, TypeNext, OwnNext, <1>1, <1>2, PTL DEF Spec

-----------------------------------------------------------------------------
(* What keeps media away from other sessions.  A client that is leaving    *)
(* can no longer be engaged (Leaving); the delay has let a frame under way *)
(* end before the sockets are closed (Clear); so the client being sent to  *)
(* keeps its slot (Kept, Same), and the number the fragmenting function    *)
(* remembers keeps its socket (OwnCached).                                 *)
Closing == {"close", "clear", "closeRtp", "clearRtp", "release"}

Leaving   == pc \in Closing \cup {"delay"} => ~active[cur] \/ st[cur] = "INIT"
Clear     == pc \in Closing /\ fpc # "idle" => fslot # cur
Kept      == fpc # "idle" => active[fslot] \/ (pc = "delay" /\ cur = fslot)
Same      == fpc # "idle" => sess[fslot] = made
OwnCached == fpc = "nal" /\ cached \in Fds => kernel[cached] = Rtp(made)

SlotInv  == Leaving /\ Clear /\ Kept /\ Same
MediaInv == SlotInv /\ OwnCached /\ OwnMediaOnly
OrderlyInv == Orderly => MediaInv

(* Sweeps and lost replies are only ever added.                            *)
LEMMA OrderlyBefore ==
  ASSUME TypeOK, [Next]_vars, Orderly'
  PROVE  /\ Orderly
         /\ UNCHANGED <<sweeps, lost>>
         /\ \A s \in Slots : ~Sweep(s) /\ ~TeardownLost(s)
<1> USE DEF Orderly, TypeOK
<1>1. ASSUME NEW s \in Slots, Sweep(s)
      PROVE  FALSE
  BY <1>1 DEF Sweep
<1>2. ASSUME NEW s \in Slots, TeardownLost(s)
      PROVE  FALSE
  BY <1>2 DEF TeardownLost
<1>3. UNCHANGED <<sweeps, lost>>
  <2>1. CASE ServerThread
    BY <1>1, <1>2, <2>1 DEF ServerThread, Connect, SetupTcp, SetupUdp, Play, Hide,
       Deactivate, Teardown, Resume, DelayOver, CloseCtrl, ClearCtrl, CloseRtp,
       ClearRtp, Release, Busy, Idle
  <2>2. CASE FrameThread \/ ForeignOpen \/ ForeignClose \/ UNCHANGED vars
    BY <2>2 DEF FrameThread, Engage, NextNal, SendPacket, NalDone, FrameDone,
       ForeignOpen, ForeignClose, vars, serverVars
  <2> QED BY <2>1, <2>2 DEF Next
<1> QED BY <1>1, <1>2, <1>3

(* The server's steps never take a slot from the frame thread.             *)
LEMMA SlotServer ==
  ASSUME DelayCovers, TypeInv, SlotInv, ServerThread,
         \A s \in Slots : ~Sweep(s) /\ ~TeardownLost(s)
  PROVE  SlotInv'
<1> USE DEF SlotInv, Leaving, Clear, Kept, Same, Closing, TypeInv, TypeOK
<1>1. ASSUME NEW s \in Slots, Connect(s)
      PROVE  SlotInv'
  BY <1>1 DEF Connect, frameVars
<1>2. ASSUME NEW s \in Slots, SetupTcp(s) \/ SetupUdp(s)
      PROVE  SlotInv'
  BY <1>2 DEF SetupTcp, SetupUdp, Handling, frameVars
<1>3. ASSUME NEW s \in Slots, Play(s)
      PROVE  SlotInv'
  BY <1>3 DEF Play, Handling, Idle, frameVars
<1>4. ASSUME NEW s \in Slots, Hide(s)
      PROVE  SlotInv'
  BY <1>4 DEF Hide, Busy, frameVars
<1>5. ASSUME NEW s \in Slots, Deactivate(s)
      PROVE  SlotInv'
  BY <1>5 DEF Deactivate, Handling, Busy, frameVars
<1>6. ASSUME NEW s \in Slots, Teardown(s)
      PROVE  SlotInv'
  BY <1>6 DEF Teardown, Handling, Busy, frameVars
<1>7. CASE Resume
  BY <1>7 DEF Resume, Idle, frameVars
<1>8. CASE DelayOver
  BY <1>8 DEF DelayOver, slotVars, frameVars
<1>9. CASE CloseCtrl \/ CloseRtp
  BY <1>9 DEF CloseCtrl, CloseRtp, slotVars, frameVars
<1>10. CASE ClearCtrl \/ ClearRtp
  BY <1>10 DEF ClearCtrl, ClearRtp, frameVars
<1>11. CASE Release
  BY <1>11 DEF Release, Idle, frameVars
<1> QED BY <1>1, <1>2, <1>3, <1>4, <1>5, <1>6, <1>7, <1>8, <1>9, <1>10, <1>11
        DEF ServerThread

(* Nor does the server close or reopen the number the frame thread uses.   *)
LEMMA CachedServer ==
  ASSUME TypeInv, OwnInv, SlotInv, OwnCached, ServerThread
  PROVE  OwnCached' /\ UNCHANGED frameVars
<1>0. UNCHANGED frameVars
  BY DEF ServerThread, Connect, SetupTcp, SetupUdp, Play, Hide, Deactivate, Teardown,
     TeardownLost, Sweep, Resume, DelayOver, CloseCtrl, ClearCtrl, CloseRtp, ClearRtp,
     Release, Busy, Idle, frameVars
<1> SUFFICES ASSUME fpc = "nal", cached \in Fds
             PROVE  kernel'[cached] = Rtp(made)
  BY <1>0 DEF OwnCached, frameVars
<1>c. kernel[cached] = Rtp(made)
  BY DEF OwnCached
<1> USE DEF TypeInv, TypeOK
<1>1. ASSUME NEW s \in Slots, Connect(s) \/ SetupUdp(s)
      PROVE  kernel'[cached] = Rtp(made)
  BY <1>1, <1>c, Tags DEF Connect, SetupUdp
<1>2. CASE CloseCtrl
  <2>1. cur \in Slots /\ pc = "close" /\ Close(sock[cur])
    BY <1>2 DEF CloseCtrl
  <2>2. sock[cur] # cached
    BY <1>c, <2>1, Tags, NoneNoFd DEF OwnInv, SlotsOwnSockets
  <2> QED BY <1>c, <2>1, <2>2 DEF Close
<1>3. CASE CloseRtp
  <2>1. cur \in Slots /\ fslot \in Slots /\ pc = "closeRtp" /\ Close(rtp[cur])
    BY <1>3 DEF CloseRtp
  <2>2. fslot # cur /\ sess[fslot] = made
    BY <2>1 DEF SlotInv, Clear, Same, Closing
  <2>3. made # 0
    BY <1>c, OwnedSession
  <2>4. rtp[cur] # cached
    <3>1. SUFFICES ASSUME rtp[cur] = cached PROVE FALSE
      OBVIOUS
    <3>2. kernel[cached] = Rtp(sess[cur])
      BY <2>1, <3>1, NoneNoFd DEF OwnInv, SlotsOwnSockets
    <3>3. sess[cur] = sess[fslot]
      BY <1>c, <2>2, <3>2, Tags
    <3> QED BY <2>1, <2>2, <2>3, <3>3 DEF OwnInv, SessionsDistinct
  <2> QED BY <1>c, <2>1, <2>4 DEF Close
<1>4. CASE UNCHANGED kernel
  BY <1>4, <1>c
<1> QED
  BY <1>1, <1>2, <1>3, <1>4 DEF ServerThread, SetupTcp, Play, Hide, Deactivate,
     Teardown, TeardownLost, Sweep, Resume, DelayOver, ClearCtrl, ClearRtp, Release,
     slotVars

(* The frame thread's own steps.                                           *)
LEMMA MediaFrame ==
  ASSUME TypeInv, OwnInv, MediaInv, FrameThread
  PROVE  MediaInv'
<1> USE DEF MediaInv, SlotInv, Leaving, Clear, Kept, Same, Closing, OwnCached,
            OwnMediaOnly, TypeInv, TypeOK
<1>1. ASSUME NEW s \in Slots, Engage(s)
      PROVE  MediaInv'
  BY <1>1 DEF Engage, serverVars, slotVars
<1>2. CASE NextNal
  <2>0. fslot \in Slots /\ fpc = "frame" /\ fpc' \in {"frame", "nal"}
        /\ wire' = NoPacket /\ UNCHANGED <<serverVars, kernel, fslot, made>>
    BY <1>2 DEF NextNal
  <2>1. ASSUME fpc' = "nal", cached' \in Fds
        PROVE  kernel[cached'] = Rtp(made)
    <3>1. cached' = rtp[fslot] /\ rtp[fslot] # None
      BY <1>2, <2>0, <2>1, NoneNoFd DEF NextNal
    <3>2. ~(pc = "clearRtp" /\ cur = fslot)
      BY <2>0
    <3> QED BY <2>0, <3>1, <3>2 DEF OwnInv, SlotsOwnSockets
  <2> QED BY <2>0, <2>1 DEF serverVars, slotVars
<1>3. CASE SendPacket
  <2>0. /\ fslot \in Slots /\ fpc = "nal" /\ Target # None
        /\ wire' = [for |-> made, to |-> kernel[Target]]
        /\ UNCHANGED <<serverVars, kernel, fpc, fslot, nals, cached, made>>
    BY <1>3 DEF SendPacket
  <2>1. sess[fslot] = made /\ ~(pc \in Closing /\ cur = fslot)
    BY <2>0
  <2>2. kernel[Target] \in {Ctrl(made), Rtp(made)}
    BY <2>0, <2>1, TargetType DEF Target, OwnInv, SlotsOwnSockets
  <2> QED BY <2>0, <2>2 DEF serverVars, slotVars
<1>4. CASE NalDone
  BY <1>4 DEF NalDone, serverVars, slotVars
<1>5. CASE FrameDone
  BY <1>5 DEF FrameDone, serverVars, slotVars
<1> QED BY <1>1, <1>2, <1>3, <1>4, <1>5 DEF FrameThread

LEMMA OrderlyNext ==
  DelayCovers => (TypeInv /\ OwnInv /\ OrderlyInv /\ [Next]_vars => OrderlyInv')
<1> SUFFICES ASSUME DelayCovers, TypeInv, OwnInv, OrderlyInv, [Next]_vars, Orderly'
             PROVE  MediaInv'
  BY DEF OrderlyInv
<1>0. /\ MediaInv
      /\ \A s \in Slots : ~Sweep(s) /\ ~TeardownLost(s)
  BY OrderlyBefore DEF OrderlyInv, TypeInv
<1>1. CASE ServerThread
  <2>1. SlotInv'
    BY <1>0, <1>1, SlotServer DEF MediaInv
  <2>2. OwnCached' /\ UNCHANGED frameVars
    BY <1>0, <1>1, CachedServer DEF MediaInv
  <2> QED BY <1>0, <2>1, <2>2 DEF MediaInv, OwnMediaOnly, frameVars
<1>2. CASE FrameThread
  BY <1>0, <1>2, MediaFrame
<1>3. CASE ForeignOpen \/ ForeignClose
  <2>1. UNCHANGED <<serverVars, frameVars>>
    BY <1>3 DEF ForeignOpen, ForeignClose
  <2>2. \A f \in Fds : kernel[f] \notin {Free, Foreign} => kernel'[f] = kernel[f]
    BY <1>3 DEF ForeignOpen, ForeignClose, Close, TypeInv, TypeOK
  <2>3. OwnCached'
    BY <1>0, <2>1, <2>2, Tags DEF MediaInv, OwnCached, frameVars
  <2> QED BY <1>0, <2>1, <2>3 DEF MediaInv, SlotInv, Leaving, Clear, Kept, Same,
             OwnMediaOnly, serverVars, slotVars, frameVars
<1>4. CASE UNCHANGED vars
  BY <1>0, <1>4 DEF MediaInv, SlotInv, Leaving, Clear, Kept, Same, OwnCached,
     OwnMediaOnly, vars, serverVars, slotVars, frameVars
<1> QED BY <1>1, <1>2, <1>3, <1>4 DEF Next

LEMMA OrderlyInit == Init => OwnInv /\ OrderlyInv
  BY DEF Init, OwnInv, SessionsDistinct, SlotsOwnSockets, None, OrderlyInv, MediaInv,
     SlotInv, Leaving, Clear, Kept, Same, OwnCached, OwnMediaOnly, Closing

(* As long as a send ends within the 10ms delay, and no idle sweep and no  *)
(* lost TEARDOWN reply has bypassed it, a packet goes to the session it    *)
(* was made for.                                                           *)
THEOREM MediaReachesOwner == DelayCovers => (Spec => []OrderlyMediaOnly)
<1> SUFFICES ASSUME DelayCovers PROVE Spec => []OrderlyMediaOnly
  OBVIOUS
<1>1. OrderlyInv => OrderlyMediaOnly
  BY DEF OrderlyInv, MediaInv, OrderlyMediaOnly
<1>2. TypeInv /\ OwnInv /\ OrderlyInv /\ [Next]_vars => OrderlyInv'
  BY OrderlyNext
<1> QED BY TypeInit, TypeNext, OrderlyInit, OwnNext, <1>1, <1>2, PTL DEF Spec

(* Under the same conditions a slot is not given to another client while   *)
(* the frame thread is sending to it.                                      *)
THEOREM SlotKeptWhileSending == DelayCovers => (Spec => []NoReuseWhileSending)
<1> SUFFICES ASSUME DelayCovers PROVE Spec => []NoReuseWhileSending
  OBVIOUS
<1>1. OrderlyInv => NoReuseWhileSending
  BY DEF OrderlyInv, MediaInv, SlotInv, Same, NoReuseWhileSending
<1>2. TypeInv /\ OwnInv /\ OrderlyInv /\ [Next]_vars => OrderlyInv'
  BY OrderlyNext
<1> QED BY TypeInit, TypeNext, OrderlyInit, OwnNext, <1>1, <1>2, PTL DEF Spec

=============================================================================
