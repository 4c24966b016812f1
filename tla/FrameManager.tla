----------------------------- MODULE FrameManager -----------------------------
(***************************************************************************)
(* The frame manager (frame_manager.c): a table of frame consumers under   *)
(* consumers_mutex and one thread that takes frames from the encoder       *)
(* channels and calls back every active consumer of the channel.           *)
(*                                                                         *)
(* The modules register, switch and unregister their consumer from threads *)
(* of their own; the mutex is held across all callbacks of a frame.  The   *)
(* main thread starts and stops the manager.                               *)
(***************************************************************************)
EXTENDS Integers, FiniteSets

CONSTANTS
    Modules,       \* modules that own a consumer (RTSP, RTMP, snapshot)
    MaxConsumers,  \* MAX_FRAME_CONSUMERS
    NumChannels,   \* encoder channels the thread polls
    MaxFrames      \* bound: frames per channel

ASSUME SizesAssumption == /\ MaxConsumers \in Nat \ {0}
                          /\ NumChannels \in Nat \ {0}
                          /\ MaxFrames \in Nat

VARIABLES
    entries,  \* consumers[]: owner, channel_mask, active
    count,    \* consumer_count
    id,       \* the consumer id each module holds, 0 if none
    call,     \* the call each module is in, before its critical section
    mutex,    \* consumers_mutex, as held across a distribution
    running,  \* g_frame_manager.running
    mpc,      \* the main thread
    fpc, ch, i, \* the frame thread: place, channel, consumer index
    held,     \* a stream obtained from the encoder and not released yet
    seq,      \* seq[channel] of process_frame_from_encoder
    params,   \* which of SPS and PPS each channel's stream_params has
    got       \* the sequence number each module was last called back with

tableVars == <<entries, count, id>>
frameVars == <<fpc, ch, i, held, seq, params, got>>
vars == <<tableVars, call, mutex, running, mpc, frameVars>>

Channels == 1..NumChannels
Ids      == 1..MaxConsumers
Nobody   == [owner |-> "none", mask |-> {}, active |-> FALSE]
Entries  == [owner : Modules \cup {"none"}, mask : SUBSET Channels, active : BOOLEAN]
NoCall   == [op |-> "none", mask |-> {}]
Calls    == [op : {"none", "register", "enable", "disable", "unregister"},
             mask : SUBSET Channels]

Init ==
    /\ entries = [k \in Ids |-> Nobody] /\ count = 0
    /\ id = [m \in Modules |-> 0]
    /\ call = [m \in Modules |-> NoCall]
    /\ mutex = "free" /\ running = FALSE /\ mpc = "stopped"
    /\ fpc = "off" /\ ch = 1 /\ i = 1 /\ held = FALSE
    /\ seq = [c \in Channels |-> 0]
    /\ params = [c \in Channels |-> {}]
    /\ got = [m \in Modules |-> [c \in Channels |-> 0]]

-----------------------------------------------------------------------------
(* The modules.  A call is entered, checks its argument, and then does its *)
(* work in one critical section.                                           *)

Enter(m) ==
    /\ call[m] = NoCall
    /\ \/ /\ id[m] = 0
          /\ \E S \in (SUBSET Channels) \ {{}} :
               call' = [call EXCEPT ![m] = [op |-> "register", mask |-> S]]
       \/ /\ id[m] \in 1..count
          /\ \E op \in {"enable", "disable", "unregister"} :
               call' = [call EXCEPT ![m] = [op |-> op, mask |-> {}]]
    /\ UNCHANGED <<tableVars, mutex, running, mpc, frameVars>>

(* Mutant: the callbacks run with the mutex released.                      *)
AlwaysUnlocked == TRUE

Unlocked == mutex = "free"

Return(m) == /\ call' = [call EXCEPT ![m] = NoCall]
             /\ UNCHANGED <<mutex, running, mpc, frameVars>>

Register(m) ==
    /\ call[m].op = "register" /\ Unlocked
    /\ IF count < MaxConsumers
         THEN /\ entries' = [entries EXCEPT ![count + 1] =
                    [owner |-> m, mask |-> call[m].mask, active |-> TRUE]]
              /\ count' = count + 1
              /\ id' = [id EXCEPT ![m] = count + 1]
         ELSE UNCHANGED tableVars
    /\ Return(m)

SetEnabled(m) ==
    /\ call[m].op \in {"enable", "disable"} /\ Unlocked
    /\ entries' = [entries EXCEPT ![id[m]].active = (call[m].op = "enable")]
    /\ UNCHANGED <<count, id>>
    /\ Return(m)

Unregister(m) ==
    /\ call[m].op = "unregister" /\ Unlocked
    /\ entries' = [entries EXCEPT ![id[m]].active = FALSE]
    /\ id' = [id EXCEPT ![m] = 0]
    /\ UNCHANGED count
    /\ Return(m)

-----------------------------------------------------------------------------
(* The main thread                                                         *)

Start ==
    /\ mpc = "stopped"
    /\ running' = TRUE /\ mpc' = "running"
    /\ fpc' = "top" /\ ch' = 1 /\ i' = 1
    /\ UNCHANGED <<tableVars, call, mutex, held, seq, params, got>>

Stop ==
    /\ mpc = "running"
    /\ running' = FALSE /\ mpc' = "joining"
    /\ UNCHANGED <<tableVars, call, mutex, frameVars>>

(* Mutant: stop does not wait.                                             *)
JoinAtOnce ==
    /\ mpc = "joining" /\ mpc' = "stopped"
    /\ UNCHANGED <<tableVars, call, mutex, running, frameVars>>

Join ==
    /\ mpc = "joining" /\ fpc = "exited"
    /\ mpc' = "stopped"
    /\ UNCHANGED <<tableVars, call, mutex, running, frameVars>>

-----------------------------------------------------------------------------
(* The frame thread                                                        *)

Others == <<tableVars, call, running, mpc>>

Active(k, c) == entries[k].active /\ c \in entries[k].mask

NextChannel == IF ch < NumChannels THEN fpc' = "count" /\ ch' = ch + 1
                                   ELSE fpc' = "top" /\ ch' = 1

(* Mutant: the thread never looks at running again.                        *)
TopForever ==
    /\ fpc = "top"
    /\ fpc' = "count"
    /\ UNCHANGED <<Others, mutex, ch, i, held, seq, params, got>>

Top ==
    /\ fpc = "top"
    /\ fpc' = IF running THEN "count" ELSE "exited"
    /\ UNCHANGED <<Others, mutex, ch, i, held, seq, params, got>>

(* frame_manager_get_consumer_count decides whether the channel is polled. *)
CheckChannel ==
    /\ fpc = "count" /\ Unlocked
    /\ IF \E k \in 1..count : Active(k, ch)
         THEN fpc' = "get" /\ UNCHANGED ch
         ELSE NextChannel
    /\ UNCHANGED <<Others, mutex, i, held, seq, params, got>>

NoFrame ==
    /\ fpc = "get"
    /\ NextChannel
    /\ UNCHANGED <<Others, mutex, i, held, seq, params, got>>

GetFrame ==
    /\ fpc = "get" /\ seq[ch] < MaxFrames
    /\ held' = TRUE /\ fpc' = "copy"
    /\ UNCHANGED <<Others, mutex, ch, i, seq, params, got>>

(* realloc fails: the frame is given back and lost.                        *)
NoMemory ==
    /\ fpc = "copy"
    /\ held' = FALSE
    /\ NextChannel
    /\ UNCHANGED <<Others, mutex, i, seq, params, got>>

(* extract_stream_params: SPS and PPS are taken once, until both are there.*)
Extract(found) == IF params[ch] = {"sps", "pps"} THEN UNCHANGED params
                  ELSE params' = [params EXCEPT ![ch] = @ \cup found]

Copy ==
    /\ fpc = "copy"
    /\ seq' = [seq EXCEPT ![ch] = @ + 1]
    /\ \E found \in SUBSET {"sps", "pps"} : Extract(found)
    /\ fpc' = "lock"
    /\ UNCHANGED <<Others, mutex, ch, i, held, got>>

(* distribute_frame_to_consumers                                           *)
Lock ==
    /\ fpc = "lock" /\ mutex = "free"
    /\ mutex' = "frame" /\ i' = 1 /\ fpc' = "distribute"
    /\ UNCHANGED <<Others, ch, held, seq, params, got>>

SkipConsumer ==
    /\ fpc = "distribute" /\ i <= count /\ ~Active(i, ch)
    /\ i' = i + 1
    /\ UNCHANGED <<Others, mutex, fpc, ch, held, seq, params, got>>

BeginCallback ==
    /\ fpc = "distribute" /\ i <= count /\ Active(i, ch)
    /\ fpc' = "callback"
    /\ got' = [got EXCEPT ![entries[i].owner][ch] = seq[ch]]
    /\ UNCHANGED <<Others, mutex, ch, i, held, seq, params>>

EndCallback ==
    /\ fpc = "callback"
    /\ i' = i + 1 /\ fpc' = "distribute"
    /\ UNCHANGED <<Others, mutex, ch, held, seq, params, got>>

Unlock ==
    /\ fpc = "distribute" /\ i > count
    /\ mutex' = "free" /\ fpc' = "release" /\ i' = 1
    /\ UNCHANGED <<Others, ch, held, seq, params, got>>

Release ==
    /\ fpc = "release"
    /\ held' = FALSE
    /\ NextChannel
    /\ UNCHANGED <<Others, mutex, i, seq, params, got>>

-----------------------------------------------------------------------------
Commit(m) == Register(m) \/ SetEnabled(m) \/ Unregister(m)

FrameThread == \/ Top \/ CheckChannel \/ NoFrame \/ GetFrame \/ NoMemory \/ Copy
               \/ Lock \/ SkipConsumer \/ BeginCallback \/ EndCallback
               \/ Unlock \/ Release

Next == \/ \E m \in Modules : Enter(m) \/ Commit(m)
        \/ Start \/ Stop \/ Join
        \/ FrameThread

Spec == Init /\ [][Next]_vars

(* Threads run, callbacks return, and a thread that keeps asking for the   *)
(* mutex gets it: the frame thread releases it between frames.             *)
FairSpec == /\ Spec
            /\ WF_vars(FrameThread) /\ WF_vars(Join)
            /\ \A m \in Modules : SF_vars(Commit(m))

-----------------------------------------------------------------------------
(* Properties                                                              *)

(* Every variable stays within its type.                                   *)
TypeOK ==
    /\ entries \in [Ids -> Entries] /\ count \in 0..MaxConsumers
    /\ id \in [Modules -> 0..MaxConsumers]
    /\ call \in [Modules -> Calls]
    /\ mutex \in {"free", "frame"} /\ running \in BOOLEAN
    /\ mpc \in {"stopped", "running", "joining"}
    /\ fpc \in {"off", "top", "count", "get", "copy", "lock", "distribute",
                "callback", "release", "exited"}
    /\ ch \in Channels /\ i \in 1..(MaxConsumers + 1)
    /\ held \in BOOLEAN
    /\ seq \in [Channels -> Nat]
    /\ params \in [Channels -> SUBSET {"sps", "pps"}]
    /\ got \in [Modules -> [Channels -> Nat]]

(* The consumer id a module holds designates the module's own entry:       *)
(* another module's registration never takes it over, also while the       *)
(* consumer is disabled.                                                   *)
IdsDesignateOwner == \A m \in Modules :
                        id[m] # 0 => id[m] <= count /\ entries[id[m]].owner = m

(* When frame_manager_unregister_consumer has returned, the consumer's     *)
(* callback is not running and its user_data may go away; and a callback   *)
(* that is running belongs to a consumer that is registered and active.    *)
CallbackRegistered == fpc = "callback" =>
                         /\ entries[i].active
                         /\ id[entries[i].owner] = i

(* No callback is running or can start once frame_manager_stop returned.   *)
StoppedMeansStopped == mpc = "stopped" => fpc \in {"off", "exited"}

(* Each stream taken from the encoder is released, on every path, before   *)
(* the next one is asked for and before the thread ends.                   *)
StreamsReleased == held <=> fpc \in {"copy", "lock", "distribute", "callback", "release"}

(* The promise: FrameFeed, where a frame that is being handed out counts   *)
(* as delivered to everybody who is going to be called.                    *)
Wants == [m \in Modules |-> IF id[m] # 0 /\ entries[id[m]].active
                              THEN entries[id[m]].mask ELSE {}]
Made  == [c \in Channels |-> IF fpc = "lock" /\ c = ch THEN seq[c] - 1 ELSE seq[c]]
Given == [m \in Modules |-> [c \in Channels |->
            IF fpc \in {"distribute", "callback"} /\ c = ch /\ ch \in Wants[m]
              THEN seq[ch] ELSE got[m][c]]]

Feed == INSTANCE FrameFeed WITH
    Consumers <- Modules, wants <- Wants, made <- Made, got <- Given

(* Frames reach all consumers subscribed to the channel, none twice, none  *)
(* out of order, none in part: the manager implements FrameFeed.           *)
ImplementsFeed == Feed!Spec

(* A module that registers, switches or unregisters its consumer gets its  *)
(* answer, however busy the frame thread is, and frame_manager_stop returns *)
(* when the frame thread has been told to end.                             *)
CallsReturn == \A m \in Modules : call[m] # NoCall ~> call[m] = NoCall
StopReturns == mpc = "joining" ~> mpc = "stopped"
NobodyWaitsForEver == CallsReturn /\ StopReturns

=============================================================================
