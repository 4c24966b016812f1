------------------------------- MODULE IdrGate -------------------------------
(***************************************************************************)
(* How a client that says PLAY joins a running stream                      *)
(* (modules/rtsp/rtsp_server.c).  The server thread handles the PLAY and   *)
(* raises needs_idr; the frame thread offers every encoded frame to the    *)
(* client and lets the flag decide: wait for a key frame, pass parameter   *)
(* sets, give up after five seconds.  No lock orders the two threads, so   *)
(* every assignment of the server thread is a step, and so is every NAL    *)
(* unit the frame thread sends.                                            *)
(*                                                                         *)
(* Clients do not influence each other's gate: the module follows one slot *)
(* and its successive sessions.  What another client costs the frame       *)
(* thread is time between its steps.                                       *)
(***************************************************************************)
EXTENDS Integers, Sequences

CONSTANTS
    Wrap,          \* the unsigned long microsecond clock wraps here (in ticks)
    Timeout,       \* five seconds, in ticks
    TicksPerFrame, \* bound: ticks from one frame to the next
    MaxSessions,   \* bound: clients that use the slot one after the other
    MaxPlays,      \* bound: PLAY requests of one session
    MaxControls    \* bound: other requests of one playing session

\* what the modules that instantiate this one assume of its constants
ClockAssumption == /\ Timeout \in Nat \ {0}
                   /\ Wrap \in Nat
                   /\ Wrap > Timeout + 1
                   /\ TicksPerFrame \in Nat
RequestsAssumption == {MaxSessions, MaxPlays, MaxControls} \subseteq Nat

VARIABLES
    active, st,     \* client->active, client->state
    needs,          \* client->needs_idr
    start,          \* client->idr_wait_start_us
    pc,             \* the server thread within its request
    sessions,       \* clients of this slot so far
    plays, controls,\* requests of this session so far
    clock,          \* get_monotonic_time_us()
    ticks,          \* ticks since the last frame arrived
    fpc,            \* the frame thread
    frame, nals,    \* the frame at hand, its NAL units still to be sent
    now,            \* current_time_us of rtsp_server_send_frame
    clears,         \* the frame is sent from the branch that then clears needs
    keyed,          \* history: a key picture was sent since the last PLAY
    expired,        \* history: the timeout branch was taken since then
    waited          \* history: ticks since then, up to Timeout + 1

slot    == <<active, st, needs, start>>
server  == <<pc, sessions, plays, controls>>
time    == <<clock, ticks>>
sender  == <<fpc, frame, nals, now, clears>>
history == <<keyed, expired, waited>>
vars == <<slot, server, time, sender, history>>

(* What the encoder puts into one frame: parameter sets come with the key  *)
(* picture or alone.                                                       *)
NalsOf == [idr |-> <<"ps", "key">>, ps |-> <<"ps">>, p |-> <<"p">>]
Frames == DOMAIN NalsOf

Init ==
    /\ active = FALSE /\ st = "INIT" /\ needs = FALSE /\ start = 0
    /\ pc = "idle" /\ sessions = 0 /\ plays = 0 /\ controls = 0
    /\ clock = 0 /\ ticks = 0
    /\ fpc = "wait" /\ frame = "p" /\ nals = <<>> /\ now = 0 /\ clears = FALSE
    /\ keyed = FALSE /\ expired = FALSE /\ waited = 0

-----------------------------------------------------------------------------
(* The server thread                                                       *)

Connect ==
    /\ pc = "idle" /\ ~active
    /\ sessions < MaxSessions /\ sessions' = sessions + 1
    /\ active' = TRUE /\ st' = "INIT" /\ needs' = FALSE /\ start' = 0
    /\ plays' = 0 /\ controls' = 0
    /\ keyed' = FALSE /\ expired' = FALSE /\ waited' = 0
    /\ UNCHANGED <<pc, time, sender>>

Setup ==
    /\ pc = "idle" /\ active /\ st = "INIT"
    /\ st' = "READY"
    /\ UNCHANGED <<active, needs, start, server, time, sender, history>>

(* A request of a playing client: over TCP the loop shows the client as    *)
(* READY while it handles any message, and a PAUSE makes it READY itself.  *)
Hide ==
    /\ pc = "idle" /\ active /\ st = "PLAYING"
    /\ controls < MaxControls
    /\ st' = "READY" /\ pc' = "hidden" /\ controls' = controls + 1
    /\ UNCHANGED <<active, needs, start, sessions, plays, time, sender, history>>

(* The loop puts it back to PLAYING.                                       *)
Resume ==
    /\ pc = "hidden"
    /\ st' = "PLAYING" /\ pc' = "idle"
    /\ UNCHANGED <<active, needs, start, sessions, plays, controls, time, sender, history>>

(* handle_play_request, its writes in order: the state, then (the reply    *)
(* having been sent) needs_idr, then idr_wait_start_us.                    *)
Play ==
    /\ \/ pc = "hidden"
       \/ pc = "idle" /\ active /\ st \in {"READY", "PLAYING"}
    /\ plays < MaxPlays
    /\ plays' = plays + 1
    /\ st' = "PLAYING" /\ pc' = "replying"
    /\ keyed' = FALSE /\ expired' = FALSE /\ waited' = 0
    /\ UNCHANGED <<active, needs, start, sessions, controls, time, sender>>

Raise ==
    /\ pc = "replying"
    /\ needs' = TRUE /\ pc' = "stamping"
    /\ UNCHANGED <<active, st, start, sessions, plays, controls, time, sender, history>>

Stamp ==
    /\ pc = "stamping"
    /\ start' = clock /\ pc' = "idle"
    /\ UNCHANGED <<active, st, needs, sessions, plays, controls, time, sender, history>>

(* A hang-up, or a reply that could not be sent.                           *)
Deactivate ==
    /\ pc \in {"idle", "hidden", "replying"} /\ active
    /\ active' = FALSE /\ pc' = "closing"
    /\ UNCHANGED <<st, needs, start, sessions, plays, controls, time, sender, history>>

(* TEARDOWN resets the state first and deactivates only in the cleanup.    *)
Teardown ==
    /\ pc \in {"idle", "hidden"} /\ active
    /\ st' = "INIT" /\ pc' = "closing"
    /\ UNCHANGED <<active, needs, start, sessions, plays, controls, time, sender, history>>

(* cleanup_client, after 10ms or at once.                                  *)
Clean ==
    /\ pc = "closing"
    /\ active' = FALSE /\ st' = "INIT" /\ pc' = "idle"
    /\ UNCHANGED <<needs, start, sessions, plays, controls, time, sender, history>>

-----------------------------------------------------------------------------
(* The frame thread: rtsp_server_send_frame for this client                *)

FrameArrives ==
    /\ fpc = "wait"
    /\ frame' \in Frames
    /\ now' = clock /\ ticks' = 0 /\ fpc' = "check"
    /\ UNCHANGED <<slot, server, clock, nals, clears, history>>

Playing == active /\ st = "PLAYING"

(* Mutant: nobody gives up waiting.                                        *)
NeverLate == FALSE

(* wait_time_us > 5000000, in unsigned arithmetic                          *)
Late == (now - start) % Wrap > Timeout

(* Mutant: parameter sets open the gate as well.                           *)
OpensOnParameters == frame \in {"idr", "ps"}

(* The frame after which the client needs no key frame any more.           *)
Opens == frame = "idr"

Send(clearing) == /\ fpc' = "send" /\ nals' = NalsOf[frame] /\ clears' = clearing
                  /\ UNCHANGED <<frame, now>>

Skip ==
    /\ fpc = "check"
    /\ ~Playing \/ (needs /\ ~Late /\ frame = "p")
    /\ fpc' = "wait" /\ now' = 0
    /\ UNCHANGED <<slot, server, time, frame, nals, clears, history>>

(* The client is streaming already, or only gets parameter sets.           *)
Pass ==
    /\ fpc = "check" /\ Playing
    /\ ~needs \/ (~Late /\ ~Opens /\ frame = "ps")
    /\ Send(FALSE)
    /\ UNCHANGED <<slot, server, time, history>>

GiveUp ==
    /\ fpc = "check" /\ Playing /\ needs /\ Late
    /\ needs' = FALSE /\ expired' = TRUE
    /\ Send(FALSE)
    /\ UNCHANGED <<active, st, start, server, time, keyed, waited>>

SendKey ==
    /\ fpc = "check" /\ Playing /\ needs /\ ~Late /\ Opens
    /\ Send(TRUE)
    /\ UNCHANGED <<slot, server, time, history>>

(* send_rtp_packet drops the NAL unit of a client that is not PLAYING now. *)
SendNal ==
    /\ fpc = "send" /\ nals # <<>>
    /\ nals' = Tail(nals)
    /\ keyed' = (keyed \/ (st = "PLAYING" /\ Head(nals) = "key"))
    /\ UNCHANGED <<slot, server, time, fpc, frame, now, clears, expired, waited>>

FrameDone ==
    /\ fpc = "send" /\ nals = <<>>
    /\ needs' = (needs /\ ~clears)
    /\ fpc' = "wait" /\ now' = 0 /\ clears' = FALSE
    /\ UNCHANGED <<active, st, start, server, time, frame, nals, history>>

-----------------------------------------------------------------------------
Tick ==
    /\ ticks < TicksPerFrame
    /\ clock' = (clock + 1) % Wrap /\ ticks' = ticks + 1
    /\ waited' = IF waited > Timeout THEN waited ELSE waited + 1
    /\ UNCHANGED <<slot, server, sender, keyed, expired>>

Server == \/ Connect \/ Setup \/ Hide \/ Resume \/ Play
          \/ Raise \/ Stamp \/ Deactivate \/ Teardown \/ Clean
FrameThread == \/ FrameArrives \/ Skip \/ Pass \/ GiveUp \/ SendKey
               \/ SendNal \/ FrameDone

Next == Server \/ FrameThread \/ Tick

Spec == Init /\ [][Next]_vars

(* The encoder delivers, the request at hand is finished, time passes.     *)
FairSpec == /\ Spec
            /\ WF_vars(FrameThread)
            /\ WF_vars(Resume \/ Raise \/ Stamp \/ Clean)
            /\ WF_vars(Tick)

-----------------------------------------------------------------------------
(* Properties                                                              *)

(* Every variable stays within its type.                                   *)
TypeOK ==
    /\ active \in BOOLEAN /\ needs \in BOOLEAN /\ clears \in BOOLEAN
    /\ st \in {"INIT", "READY", "PLAYING"}
    /\ start \in 0..(Wrap - 1) /\ clock \in 0..(Wrap - 1) /\ now \in 0..(Wrap - 1)
    /\ pc \in {"idle", "hidden", "replying", "stamping", "closing"}
    /\ sessions \in 0..MaxSessions /\ plays \in 0..MaxPlays /\ controls \in 0..MaxControls
    /\ ticks \in 0..TicksPerFrame
    /\ fpc \in {"wait", "check", "send"} /\ frame \in Frames
    /\ nals \in {<<>>, <<"ps">>, <<"key">>, <<"p">>, <<"ps", "key">>}
    /\ keyed \in BOOLEAN /\ expired \in BOOLEAN
    /\ waited \in 0..(Timeout + 1)

(* A first session that has asked for nothing but one PLAY.                 *)
Undisturbed == sessions = 1 /\ plays = 1 /\ controls = 0

(* A playing client that waits for nothing has been sent a key picture, or *)
(* was given up on: the gate is opened by nothing else (line 845: "The     *)
(* client has its keyframe, so we can clear the flag").  Only a session no *)
(* other request or earlier session disturbs is promised this much: a NAL  *)
(* unit sent while a control message hides PLAYING is dropped, and the     *)
(* flag is cleared all the same.                                           *)
KeyOrTimeout == Undisturbed /\ pc = "idle" /\ Playing /\ ~needs => keyed \/ expired

(* "if client has been waiting more than 5 seconds, allow any frame": the  *)
(* timeout branch is taken after more than five seconds of waiting only.   *)
TimeoutIsReal == [][~expired /\ expired' => waited > Timeout]_vars

(* Nobody waits for ever, even if the encoder never produces a key frame.  *)
WaitEnds == (active /\ needs) ~> (~active \/ ~needs)

=============================================================================
