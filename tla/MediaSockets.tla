----------------------------- MODULE MediaSockets -----------------------------
(***************************************************************************)
(* Which socket a media packet goes to (modules/rtsp/rtsp_server.c).  The  *)
(* frame thread sends the NAL units of a frame, whole or in fragments, on  *)
(* descriptor numbers it reads from the client's slot; the server thread   *)
(* meanwhile hides, deactivates, closes and reuses the slot.  There is no  *)
(* lock: the code relies on the order of its assignments and on a delay of *)
(* 10ms between deactivating a client and closing its sockets.             *)
(*                                                                         *)
(* A session is numbered when it is accepted, so a packet made for one     *)
(* session can be told from the next one in the same slot, and a number    *)
(* in a slot from the socket it refers to.                                 *)
(***************************************************************************)
EXTENDS Integers, FiniteSets

CONSTANTS
    NumSlots,       \* MAX_RTSP_CLIENTS
    Fds,            \* descriptor numbers
    MaxSessions,    \* bound: connections accepted altogether
    MaxNals,        \* bound: NAL units of a frame
    MaxFragments,   \* bound: fragments of a NAL unit
    DelayCovers,    \* a send to a client ends within 10ms of its deactivation
    MaxSweeps,      \* bound: clients dropped by the idle sweep
    MaxLostReplies  \* bound: TEARDOWN replies that cannot be sent

ASSUME SlotsAssumption == NumSlots \in Nat \ {0}
ASSUME FdsAssumption == Fds \subseteq Nat
ASSUME BoundsAssumption == /\ {MaxSessions, MaxSweeps, MaxLostReplies} \subseteq Nat
                           /\ {MaxNals, MaxFragments} \subseteq Nat \ {0}
                           /\ DelayCovers \in BOOLEAN

VARIABLES
    active, st, tcp,  \* clients[i].active, .state, .transport_mode
    sock, rtp,        \* clients[i].socket_fd, .rtp_socket_fd
    sess,             \* the session that uses slot i, or used it last
    kernel,           \* what each descriptor number refers to
    pc, cur,          \* the server thread and the slot it is busy with
    accepted, sweeps, lost,  \* connections, sweeps and lost replies so far
    fpc, fslot,       \* the frame thread and the client it sends to
    nals, frags,      \* NAL units and fragments still to be sent
    cached,           \* rtp_socket of the fragmenting function
    made,             \* the session the frame is being sent to
    wire              \* the packet that went out last

slotVars   == <<active, st, tcp, sock, rtp, sess>>
serverVars == <<slotVars, pc, cur, accepted, sweeps, lost>>
frameVars  == <<fpc, fslot, nals, frags, cached, made, wire>>
vars == <<serverVars, kernel, frameVars>>

Slots    == 1..NumSlots
Sessions == 1..MaxSessions
None == -1
Live == -2   \* not cached: the field is read at every packet
Free    == <<"free", 0>>
Foreign == <<"foreign", 0>>
Ctrl(n) == <<"ctrl", n>>
Rtp(n)  == <<"rtp", n>>
Objects == {Free, Foreign} \cup {Ctrl(n) : n \in Sessions} \cup {Rtp(n) : n \in Sessions}

NoPacket == [for |-> 0, to |-> Free]

Init ==
    /\ active = [s \in Slots |-> FALSE]
    /\ st = [s \in Slots |-> "INIT"]
    /\ tcp = [s \in Slots |-> FALSE]
    /\ sock = [s \in Slots |-> None] /\ rtp = [s \in Slots |-> None]
    /\ sess = [s \in Slots |-> 0]
    /\ kernel = [f \in Fds |-> Free]
    /\ pc = "idle" /\ cur = 0 /\ accepted = 0 /\ sweeps = 0 /\ lost = 0
    /\ fpc = "idle" /\ fslot = 0 /\ nals = 0 /\ frags = 0
    /\ cached = Live /\ made = 0 /\ wire = NoPacket

-----------------------------------------------------------------------------
(* The server thread: one request, disconnection or sweep at a time        *)

Busy(s) == cur' = s /\ UNCHANGED <<accepted, sweeps, lost, frameVars>>
Idle    == pc' = "idle" /\ cur' = 0 /\ UNCHANGED <<accepted, sweeps, lost, frameVars>>

(* The request being handled is one of slot s.                             *)
Handling(s) == active[s] /\ (pc = "idle" \/ (pc = "hidden" /\ cur = s))

Connect(s) ==
    /\ pc = "idle" /\ ~active[s] /\ accepted < MaxSessions
    /\ accepted' = accepted + 1
    /\ \E f \in Fds : /\ kernel[f] = Free
                      /\ kernel' = [kernel EXCEPT ![f] = Ctrl(accepted + 1)]
                      /\ sock' = [sock EXCEPT ![s] = f]
    /\ rtp' = [rtp EXCEPT ![s] = None]
    /\ active' = [active EXCEPT ![s] = TRUE]
    /\ st' = [st EXCEPT ![s] = "INIT"]
    /\ tcp' = [tcp EXCEPT ![s] = FALSE]
    /\ sess' = [sess EXCEPT ![s] = accepted + 1]
    /\ UNCHANGED <<pc, cur, sweeps, lost, frameVars>>

(* SETUP leaves a client READY; one that was PLAYING is hidden meanwhile.  *)
SetupTcp(s) ==
    /\ Handling(s) /\ st[s] # "PLAYING"
    /\ tcp' = [tcp EXCEPT ![s] = TRUE]
    /\ st' = [st EXCEPT ![s] = "READY"]
    /\ UNCHANGED <<active, sock, rtp, sess, kernel, pc, cur, accepted, sweeps,
                   lost, frameVars>>

SetupUdp(s) ==
    /\ Handling(s) /\ st[s] # "PLAYING"
    /\ \E f \in Fds : /\ kernel[f] = Free
                      /\ kernel' = [kernel EXCEPT ![f] = Rtp(sess[s])]
                      /\ rtp' = [rtp EXCEPT ![s] = f]
    /\ tcp' = [tcp EXCEPT ![s] = FALSE]
    /\ st' = [st EXCEPT ![s] = "READY"]
    /\ UNCHANGED <<active, sock, sess, pc, cur, accepted, sweeps, lost, frameVars>>

Play(s) ==
    /\ Handling(s) /\ st[s] = "READY"
    /\ st' = [st EXCEPT ![s] = "PLAYING"]
    /\ UNCHANGED <<active, tcp, sock, rtp, sess, kernel>>
    /\ Idle

(* A message of a playing TCP client, or a PAUSE or SETUP of any.          *)
Hide(s) ==
    /\ pc = "idle" /\ active[s] /\ st[s] = "PLAYING"
    /\ st' = [st EXCEPT ![s] = "READY"]
    /\ pc' = "hidden"
    /\ UNCHANGED <<active, tcp, sock, rtp, sess, kernel>>
    /\ Busy(s)

Resume ==
    /\ pc = "hidden"
    /\ st' = [st EXCEPT ![cur] = "PLAYING"]
    /\ UNCHANGED <<active, tcp, sock, rtp, sess, kernel>>
    /\ Idle

(* Mutant: the client stays active while the thread sleeps.                *)
DeactivateLater(s) ==
    /\ Handling(s)
    /\ pc' = "delay"
    /\ UNCHANGED <<slotVars, kernel>>
    /\ Busy(s)

(* The client hung up or its reply was lost.                               *)
Deactivate(s) ==
    /\ Handling(s)
    /\ active' = [active EXCEPT ![s] = FALSE]
    /\ pc' = "delay"
    /\ UNCHANGED <<st, tcp, sock, rtp, sess, kernel>>
    /\ Busy(s)

Teardown(s) ==
    /\ Handling(s)
    /\ st' = [st EXCEPT ![s] = "INIT"]
    /\ pc' = "delay"
    /\ UNCHANGED <<active, tcp, sock, rtp, sess, kernel>>
    /\ Busy(s)

(* Without a reply to wait for, cleanup_client follows at once.            *)
TeardownLost(s) ==
    /\ Handling(s) /\ lost < MaxLostReplies
    /\ st' = [st EXCEPT ![s] = "INIT"]
    /\ lost' = lost + 1 /\ pc' = "close" /\ cur' = s
    /\ UNCHANGED <<active, tcp, sock, rtp, sess, kernel, accepted, sweeps, frameVars>>

(* The idle sweep calls cleanup_client directly, too.                      *)
Sweep(s) ==
    /\ pc = "idle" /\ active[s] /\ sweeps < MaxSweeps
    /\ sweeps' = sweeps + 1 /\ pc' = "close" /\ cur' = s
    /\ UNCHANGED <<slotVars, kernel, accepted, lost, frameVars>>

(* usleep(10000) ends.                                                     *)
DelayOver ==
    /\ pc = "delay"
    /\ DelayCovers => ~(fpc # "idle" /\ fslot = cur)
    /\ pc' = "close"
    /\ UNCHANGED <<slotVars, kernel, cur, accepted, sweeps, lost, frameVars>>

Close(fd) == kernel' = [f \in Fds |-> IF f = fd THEN Free ELSE kernel[f]]

(* cleanup_client: close() and the assignment of -1 are two steps, for     *)
(* the control socket, then for the RTP socket; the flags come last.       *)
CloseCtrl ==
    /\ pc = "close"
    /\ Close(sock[cur])
    /\ pc' = "clear"
    /\ UNCHANGED <<slotVars, cur, accepted, sweeps, lost, frameVars>>

ClearCtrl ==
    /\ pc = "clear"
    /\ sock' = [sock EXCEPT ![cur] = None]
    /\ pc' = "closeRtp"
    /\ UNCHANGED <<active, st, tcp, rtp, sess, kernel, cur, accepted, sweeps, lost, frameVars>>

CloseRtp ==
    /\ pc = "closeRtp"
    /\ Close(rtp[cur])
    /\ pc' = "clearRtp"
    /\ UNCHANGED <<slotVars, cur, accepted, sweeps, lost, frameVars>>

(* Mutant: the number of the RTP socket is kept.                           *)
ClearRtpForgotten ==
    /\ pc = "clearRtp"
    /\ pc' = "release"
    /\ UNCHANGED <<slotVars, kernel, cur, accepted, sweeps, lost, frameVars>>

ClearRtp ==
    /\ pc = "clearRtp"
    /\ rtp' = [rtp EXCEPT ![cur] = None]
    /\ pc' = "release"
    /\ UNCHANGED <<active, st, tcp, sock, sess, kernel, cur, accepted, sweeps, lost, frameVars>>

Release ==
    /\ pc = "release"
    /\ active' = [active EXCEPT ![cur] = FALSE]
    /\ st' = [st EXCEPT ![cur] = "INIT"]
    /\ UNCHANGED <<tcp, sock, rtp, sess, kernel>>
    /\ Idle

-----------------------------------------------------------------------------
(* The frame thread                                                        *)

(* rtsp_server_send_frame reaches client s and finds it playing.           *)
Engage(s) ==
    /\ fpc = "idle" /\ active[s] /\ st[s] = "PLAYING"
    /\ fpc' = "frame" /\ fslot' = s
    /\ nals' \in 1..MaxNals
    /\ made' = sess[s] /\ wire' = NoPacket
    /\ UNCHANGED <<serverVars, kernel, frags, cached>>

(* The next NAL unit is dropped when the client is no longer PLAYING,      *)
(* else sent whole or in fragments; for UDP the fragments of an H.264 unit *)
(* go to a socket read once, those of an H.265 unit read it again.         *)
NextNal ==
    /\ fpc = "frame" /\ nals > 0
    /\ nals' = nals - 1 /\ wire' = NoPacket
    /\ IF st[fslot] # "PLAYING"
         THEN UNCHANGED <<fpc, frags, cached>>
         ELSE /\ fpc' = "nal"
              /\ frags' \in 1..MaxFragments
              /\ \/ cached' = Live
                 \/ /\ frags' > 1
                    /\ cached' = IF tcp[fslot] THEN None ELSE rtp[fslot]
    /\ UNCHANGED <<serverVars, kernel, fslot, made>>

Target == IF tcp[fslot] THEN sock[fslot]
          ELSE IF cached = Live THEN rtp[fslot] ELSE cached

SendPacket ==
    /\ fpc = "nal" /\ frags > 0
    /\ Target # None /\ kernel[Target] # Free
    /\ frags' = frags - 1
    /\ wire' = [for |-> made, to |-> kernel[Target]]
    /\ UNCHANGED <<serverVars, kernel, fpc, fslot, nals, cached, made>>

(* All fragments are sent, or one send failed and the NAL is abandoned.    *)
NalDone ==
    /\ fpc = "nal"
    /\ fpc' = "frame" /\ frags' = 0 /\ cached' = Live /\ wire' = NoPacket
    /\ UNCHANGED <<serverVars, kernel, fslot, nals, made>>

FrameDone ==
    /\ fpc = "frame" /\ nals = 0
    /\ fpc' = "idle" /\ fslot' = 0 /\ made' = 0 /\ wire' = NoPacket
    /\ UNCHANGED <<serverVars, kernel, nals, frags, cached>>

-----------------------------------------------------------------------------
(* Other threads of the process use descriptors as well.                   *)

ForeignOpen == /\ \E f \in Fds : /\ kernel[f] = Free
                                 /\ kernel' = [kernel EXCEPT ![f] = Foreign]
               /\ UNCHANGED <<serverVars, frameVars>>

ForeignClose == /\ \E f \in Fds : kernel[f] = Foreign /\ Close(f)
                /\ UNCHANGED <<serverVars, frameVars>>

ServerThread == \/ \E s \in Slots : \/ Connect(s) \/ SetupTcp(s) \/ SetupUdp(s)
                                    \/ Play(s) \/ Hide(s) \/ Deactivate(s)
                                    \/ Teardown(s) \/ TeardownLost(s) \/ Sweep(s)
                \/ Resume \/ DelayOver \/ CloseCtrl \/ ClearCtrl
                \/ CloseRtp \/ ClearRtp \/ Release

FrameThread == \/ \E s \in Slots : Engage(s)
               \/ NextNal \/ SendPacket \/ NalDone \/ FrameDone

Next == ServerThread \/ FrameThread \/ ForeignOpen \/ ForeignClose

Spec == Init /\ [][Next]_vars

-----------------------------------------------------------------------------
(* Properties                                                              *)

(* Every variable stays within its type.                                   *)
TypeOK ==
    /\ active \in [Slots -> BOOLEAN] /\ tcp \in [Slots -> BOOLEAN]
    /\ st \in [Slots -> {"INIT", "READY", "PLAYING"}]
    /\ sock \in [Slots -> Fds \cup {None}] /\ rtp \in [Slots -> Fds \cup {None}]
    /\ sess \in [Slots -> 0..MaxSessions]
    /\ kernel \in [Fds -> Objects]
    /\ pc \in {"idle", "hidden", "delay", "close", "clear", "closeRtp", "clearRtp",
             "release"}
    /\ cur \in Slots \cup {0} /\ (cur = 0 <=> pc = "idle")
    /\ accepted \in 0..MaxSessions
    /\ sweeps \in 0..MaxSweeps /\ lost \in 0..MaxLostReplies
    /\ fpc \in {"idle", "frame", "nal"}
    /\ fslot \in Slots \cup {0} /\ (fslot = 0 <=> fpc = "idle")
    /\ nals \in 0..MaxNals /\ frags \in 0..MaxFragments
    /\ cached \in Fds \cup {None, Live}
    /\ made \in 0..MaxSessions
    /\ wire \in [for : 0..MaxSessions, to : Objects]

(* A packet only ever arrives at the session the frame was being sent to:  *)
(* on its own control connection or its own RTP socket, never on another   *)
(* client's, a later client's or another thread's descriptor.              *)
OwnMediaOnly == wire # NoPacket => wire.to \in {Ctrl(wire.for), Rtp(wire.for)}

(* Every client so far left through the deactivation and the delay.        *)
Orderly == sweeps = 0 /\ lost = 0

(* As long as that is so, and a send ends within the delay, the order of   *)
(* the server's assignments alone keeps media away from other sessions.    *)
OrderlyMediaOnly == Orderly => OwnMediaOnly

(* What a slot stores are its own open sockets, except between close() and *)
(* the assignment of -1: whatever close path ran before.                   *)
SlotsOwnSockets ==
    \A s \in Slots :
        /\ sock[s] # None /\ ~(pc = "clear" /\ cur = s) => kernel[sock[s]] = Ctrl(sess[s])
        /\ rtp[s] # None /\ ~(pc = "clearRtp" /\ cur = s) => kernel[rtp[s]] = Rtp(sess[s])

(* "Small delay to let other threads finish their operations": while the   *)
(* frame thread works on a client its slot is not given to another one.    *)
NoReuseWhileSending == Orderly /\ fpc # "idle" => sess[fslot] = made

=============================================================================
