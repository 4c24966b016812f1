-------------------------- MODULE FrameManagerProofs --------------------------
(***************************************************************************)
(* Theorems of FrameManager, for any number of modules, consumers and      *)
(* channels.                                                               *)
(***************************************************************************)
EXTENDS FrameManager, TLAPS

USE SizesAssumption

(* A module that is in a call has the consumer id the call is about.       *)
CallsMatch == \A m \in Modules :
    /\ call[m].op = "register" => id[m] = 0
    /\ call[m].op \in {"enable", "disable", "unregister"} => id[m] # 0

(* An active entry is in use and its owner holds its id.                   *)
ActiveHeld == \A k \in Ids :
    entries[k].active => /\ k <= count /\ entries[k].owner \in Modules
                         /\ id[entries[k].owner] = k

(* The mutex is held while a frame is handed out, to an active consumer.   *)
Locked  == mutex = "frame" <=> fpc \in {"distribute", "callback"}
Calling == fpc = "callback" => i <= count /\ Active(i, ch)

TableInv == /\ TypeOK /\ IdsDesignateOwner /\ CallsMatch /\ ActiveHeld
            /\ Locked /\ Calling /\ StoppedMeansStopped /\ StreamsReleased

LEMMA SizeFacts == /\ 1 \in Channels /\ 1 \in 1..(MaxConsumers + 1)
                   /\ \A k \in Ids : k \in Nat /\ k # 0 /\ k <= MaxConsumers
                   /\ \A c \in Channels : c \in Nat /\ (c < NumChannels => c + 1 \in Channels)
  BY DEF Channels, Ids

LEMMA TableInit == Init => TableInv
<1> SUFFICES ASSUME Init PROVE TableInv
  OBVIOUS
<1>1. entries \in [Ids -> Entries] /\ call \in [Modules -> Calls]
  BY DEF Init, Nobody, Entries, NoCall, Calls
<1>2. id \in [Modules -> 0..MaxConsumers] /\ count \in 0..MaxConsumers
  BY DEF Init
<1>3. TypeOK
  BY <1>1, <1>2, SizeFacts DEF Init, TypeOK
<1> QED BY <1>3 DEF Init, TableInv, IdsDesignateOwner, CallsMatch, ActiveHeld, Nobody,
        NoCall, Locked, Calling, StoppedMeansStopped, StreamsReleased

LEMMA SetActiveType ==
  ASSUME TypeOK, NEW k \in Ids, NEW b \in BOOLEAN
  PROVE  [entries EXCEPT ![k].active = b] \in [Ids -> Entries]
<1>1. [entries[k] EXCEPT !.active = b] \in Entries
  BY DEF TypeOK, Entries
<1> QED BY <1>1 DEF TypeOK

(* The modules' calls keep the table, whatever the frame thread is at.     *)
LEMMA TableModules ==
  ASSUME TableInv, NEW m \in Modules, Enter(m) \/ Commit(m)
  PROVE  TableInv'
<1> USE DEF TableInv, IdsDesignateOwner, CallsMatch, ActiveHeld, Locked, Calling,
            StoppedMeansStopped, StreamsReleased
<1>1. CASE Enter(m)
  <2>0. UNCHANGED <<entries, count, id, mutex, running, mpc, fpc, ch, i, held, seq,
                    params, got>>
    BY <1>1 DEF Enter, tableVars, frameVars
  <2>1. PICK c \in Calls : /\ call' = [call EXCEPT ![m] = c]
                           /\ c.op = "register" => id[m] = 0
                           /\ c.op # "register" => id[m] \in 1..count
    <3>1. CASE /\ id[m] = 0
               /\ \E S \in (SUBSET Channels) \ {{}} :
                    call' = [call EXCEPT ![m] = [op |-> "register", mask |-> S]]
      <4>1. PICK S \in SUBSET Channels : call' = [call EXCEPT ![m] = [op |-> "register", mask |-> S]]
        BY <3>1
      <4>2. [op |-> "register", mask |-> S] \in Calls
        BY DEF Calls
      <4> QED BY <3>1, <4>1, <4>2
    <3>2. CASE /\ id[m] \in 1..count
               /\ \E op \in {"enable", "disable", "unregister"} :
                    call' = [call EXCEPT ![m] = [op |-> op, mask |-> {}]]
      BY <3>2 DEF Calls
    <3> QED BY <1>1, <3>1, <3>2 DEF Enter
  <2>2. call' \in [Modules -> Calls]
    BY <2>1 DEF TypeOK
  <2>3. TypeOK'
    BY <2>0, <2>2 DEF TypeOK
  <2>4. CallsMatch'
    BY <2>0, <2>1 DEF TypeOK
  <2> QED BY <2>0, <2>3, <2>4 DEF Active
<1>2. CASE Register(m)
  <2>0. /\ call[m].op = "register" /\ id[m] = 0
        /\ call' = [call EXCEPT ![m] = NoCall]
        /\ UNCHANGED <<mutex, running, mpc, frameVars>>
    BY <1>2 DEF Register, Return
  <2>1. call' \in [Modules -> Calls]
    BY <2>0 DEF TypeOK, Calls, NoCall
  <2>9. Locked' /\ Calling' /\ StoppedMeansStopped' /\ StreamsReleased'
    BY <1>2, <2>0 DEF Register, Unlocked, frameVars
  <2>2. CASE count < MaxConsumers
    <3>1. /\ entries' = [entries EXCEPT ![count + 1] =
                [owner |-> m, mask |-> call[m].mask, active |-> TRUE]]
          /\ count' = count + 1
          /\ id' = [id EXCEPT ![m] = count + 1]
      BY <1>2, <2>2 DEF Register
    <3>2. count + 1 \in Ids /\ count + 1 \in 0..MaxConsumers
      BY <2>2 DEF TypeOK, Ids
    <3>3. TypeOK'
      BY <2>0, <2>1, <3>1, <3>2 DEF TypeOK, Entries, Calls, frameVars
    <3>4. IdsDesignateOwner'
      BY <2>0, <3>1, <3>2 DEF TypeOK, Ids
    <3>5. CallsMatch'
      BY <2>0, <3>1 DEF TypeOK, NoCall
    <3>6. ActiveHeld'
      <4> SUFFICES ASSUME NEW k \in Ids, entries'[k].active
                   PROVE  /\ k <= count' /\ entries'[k].owner \in Modules
                          /\ id'[entries'[k].owner] = k
        OBVIOUS
      <4>1. CASE k = count + 1
        BY <3>1, <3>2, <4>1 DEF TypeOK
      <4>2. CASE k # count + 1
        <5>1. entries'[k] = entries[k]
          BY <3>1, <4>2 DEF TypeOK
        <5>2. entries[k].owner # m
          BY <2>0, <5>1, SizeFacts
        <5> QED BY <3>1, <5>1, <5>2, SizeFacts DEF TypeOK
      <4> QED BY <4>1, <4>2
    <3> QED BY <2>9, <3>3, <3>4, <3>5, <3>6
  <2>3. CASE ~(count < MaxConsumers)
    <3>1. UNCHANGED tableVars
      BY <1>2, <2>3 DEF Register
    <3> QED BY <2>0, <2>1, <2>9, <3>1 DEF TypeOK, NoCall, tableVars, frameVars
  <2> QED BY <2>2, <2>3
<1>3. CASE SetEnabled(m)
  <2>0. /\ id[m] \in 1..count /\ id[m] \in Ids
        /\ entries[id[m]].owner = m
        /\ entries' = [entries EXCEPT ![id[m]].active = (call[m].op = "enable")]
        /\ UNCHANGED <<count, id>>
        /\ call' = [call EXCEPT ![m] = NoCall]
        /\ UNCHANGED <<mutex, running, mpc, frameVars>>
    BY <1>3 DEF SetEnabled, Return, TypeOK, Ids
  <2>1. TypeOK'
    <3>1. entries' \in [Ids -> Entries]
      BY <2>0, (call[m].op = "enable") \in BOOLEAN, SetActiveType
    <3>2. call' \in [Modules -> Calls] /\ id' \in [Modules -> 0..MaxConsumers]
      BY <2>0 DEF TypeOK, Calls, NoCall
    <3> QED BY <2>0, <3>1, <3>2 DEF TypeOK, frameVars
  <2>2. \A k \in Ids : entries'[k].owner = entries[k].owner
    BY <2>0 DEF TypeOK, Entries
  <2>3. \A k \in Ids : k # id[m] => entries'[k] = entries[k]
    BY <2>0 DEF TypeOK
  <2>4. IdsDesignateOwner'
    BY <2>0, <2>2 DEF TypeOK, Ids
  <2>5. CallsMatch'
    BY <2>0 DEF TypeOK, NoCall
  <2>6. ActiveHeld'
    BY <2>0, <2>2, <2>3 DEF Ids, TypeOK
  <2>9. Locked' /\ Calling' /\ StoppedMeansStopped' /\ StreamsReleased'
    BY <1>3, <2>0 DEF SetEnabled, Unlocked, frameVars
  <2> QED BY <2>1, <2>4, <2>5, <2>6, <2>9
<1>4. CASE Unregister(m)
  <2>0. /\ id[m] \in 1..count /\ id[m] \in Ids
        /\ entries[id[m]].owner = m
        /\ entries' = [entries EXCEPT ![id[m]].active = FALSE]
        /\ id' = [id EXCEPT ![m] = 0] /\ UNCHANGED count
        /\ call' = [call EXCEPT ![m] = NoCall]
        /\ UNCHANGED <<mutex, running, mpc, frameVars>>
    BY <1>4 DEF Unregister, Return, TypeOK, Ids
  <2>1. TypeOK'
    <3>1. entries' \in [Ids -> Entries]
      BY <2>0, SetActiveType
    <3>2. call' \in [Modules -> Calls] /\ id' \in [Modules -> 0..MaxConsumers]
      BY <2>0 DEF TypeOK, Calls, NoCall
    <3> QED BY <2>0, <3>1, <3>2 DEF TypeOK, frameVars
  <2>2. \A k \in Ids : entries'[k].owner = entries[k].owner
    BY <2>0 DEF TypeOK, Entries
  <2>3. \A k \in Ids : k # id[m] => entries'[k] = entries[k]
    BY <2>0 DEF TypeOK
  <2>4. ~entries'[id[m]].active
    BY <2>0 DEF TypeOK, Entries
  <2>5. IdsDesignateOwner'
    BY <2>0, <2>2 DEF TypeOK, Ids
  <2>6. CallsMatch'
    BY <2>0 DEF TypeOK, NoCall
  <2>7. ActiveHeld'
    BY <2>0, <2>2, <2>3, <2>4 DEF Ids, TypeOK
  <2>9. Locked' /\ Calling' /\ StoppedMeansStopped' /\ StreamsReleased'
    BY <1>4, <2>0 DEF Unregister, Unlocked, frameVars
  <2> QED BY <2>1, <2>5, <2>6, <2>7, <2>9
<1> QED BY <1>1, <1>2, <1>3, <1>4 DEF Commit

LEMMA NextChannelType ==
  ASSUME TypeOK, NextChannel
  PROVE  ch' \in Channels /\ fpc' \in {"count", "top"}
  BY SizeFacts DEF NextChannel, TypeOK

(* The other threads do not touch the table.                               *)
LEMMA TableOthers ==
  ASSUME TableInv, Start \/ Stop \/ Join \/ FrameThread \/ UNCHANGED vars
  PROVE  TableInv' /\ UNCHANGED <<entries, count, id, call>>
<1> USE DEF TypeOK
<1>0. UNCHANGED <<entries, count, id, call>>
  BY DEF Start, Stop, Join, FrameThread, Top, CheckChannel, NoFrame, GetFrame, NoMemory,
     Copy, Lock, SkipConsumer, BeginCallback, EndCallback, Unlock, Release, Others,
     tableVars, vars
<1>a. IdsDesignateOwner' /\ CallsMatch' /\ ActiveHeld'
  BY <1>0 DEF TableInv, IdsDesignateOwner, CallsMatch, ActiveHeld
<1>b. Locked' /\ Calling' /\ StoppedMeansStopped' /\ StreamsReleased'
  <2> USE DEF TableInv, Locked, Calling, Active, StoppedMeansStopped, StreamsReleased
  <2>1. CASE Start
    BY <1>0, <2>1 DEF Start, TypeOK
  <2>2. CASE Stop \/ Join \/ UNCHANGED vars
    BY <1>0, <2>2 DEF Stop, Join, frameVars, vars
  <2>3. CASE Top
    BY <1>0, <2>3 DEF Top, Others
  <2>4. CASE CheckChannel \/ NoFrame \/ NoMemory \/ Release
    BY <1>0, <2>4 DEF CheckChannel, NoFrame, NoMemory, Release, NextChannel, Others
  <2>5. CASE GetFrame \/ Copy
    BY <1>0, <2>5 DEF GetFrame, Copy, Others
  <2>6. CASE Lock \/ Unlock
    BY <1>0, <2>6 DEF Lock, Unlock, Others
  <2>7. CASE SkipConsumer \/ BeginCallback \/ EndCallback
    BY <1>0, <2>7 DEF SkipConsumer, BeginCallback, EndCallback, Others
  <2> QED BY <2>1, <2>2, <2>3, <2>4, <2>5, <2>6, <2>7 DEF FrameThread
<1> SUFFICES TypeOK'
  BY <1>0, <1>a, <1>b DEF TableInv
<1> USE DEF TableInv
<1>1. CASE Start \/ Stop \/ Join \/ UNCHANGED vars
  BY <1>0, <1>1, SizeFacts DEF Start, Stop, Join, vars, frameVars, tableVars
<1>2. CASE Top
  BY <1>0, <1>2 DEF Top, Others
<1>3. CASE CheckChannel \/ NoFrame \/ NoMemory \/ Release
  <2>1. ch' \in Channels /\ fpc' \in {"count", "top", "get"}
    BY <1>3, NextChannelType DEF CheckChannel, NoFrame, NoMemory, Release
  <2> QED BY <1>0, <1>3, <2>1 DEF CheckChannel, NoFrame, NoMemory, Release, Others
<1>4. CASE GetFrame
  BY <1>0, <1>4 DEF GetFrame, Others
<1>5. CASE Copy
  <2>1. params' \in [Channels -> SUBSET {"sps", "pps"}]
    BY <1>5 DEF Copy, Extract
  <2>2. seq' \in [Channels -> Nat]
    BY <1>5 DEF Copy
  <2> QED BY <1>0, <1>5, <2>1, <2>2 DEF Copy, Others
<1>6. CASE Lock \/ Unlock
  BY <1>0, <1>6, SizeFacts DEF Lock, Unlock, Others
<1>7. CASE SkipConsumer
  BY <1>0, <1>7 DEF SkipConsumer, Others
<1>8. CASE BeginCallback
  <2>1. i \in Ids /\ entries[i].owner \in Modules
    BY <1>8 DEF BeginCallback, Active, ActiveHeld, Ids
  <2>2. got' \in [Modules -> [Channels -> Nat]]
    BY <1>8, <2>1 DEF BeginCallback
  <2> QED BY <1>0, <1>8, <2>2 DEF BeginCallback, Others
<1>9. CASE EndCallback
  BY <1>0, <1>9 DEF EndCallback, Others, Calling
<1> QED BY <1>1, <1>2, <1>3, <1>4, <1>5, <1>6, <1>7, <1>8, <1>9 DEF FrameThread

LEMMA TableNext == TableInv /\ [Next]_vars => TableInv'
  BY TableModules, TableOthers DEF Next

LEMMA TableAlways == Spec => []TableInv
  BY TableInit, TableNext, PTL DEF Spec

(* Type correctness, for every number of modules, consumers and channels.  *)
THEOREM TypeCorrect == Spec => []TypeOK
<1>1. TableInv => TypeOK
  BY DEF TableInv
<1> QED BY TableAlways, <1>1, PTL

(* The id a module holds designates its own entry for as long as it is     *)
(* registered, whatever the other modules register meanwhile.              *)
THEOREM IdsStayValid == Spec => []IdsDesignateOwner
<1>1. TableInv => IdsDesignateOwner
  BY DEF TableInv
<1> QED BY TableAlways, <1>1, PTL

(* A callback that runs is that of a consumer still registered and active: *)
(* unregistration waits for it, so user_data may be freed afterwards.      *)
THEOREM CallbacksOfRegistered == Spec => []CallbackRegistered
<1>1. TableInv => CallbackRegistered
  <2> SUFFICES ASSUME TableInv, fpc = "callback"
               PROVE  entries[i].active /\ id[entries[i].owner] = i
    BY DEF CallbackRegistered
  <2>1. i \in Ids
    BY DEF TableInv, Calling, TypeOK, Ids
  <2> QED BY <2>1 DEF TableInv, Calling, Active, ActiveHeld
<1> QED BY TableAlways, <1>1, PTL

(* When frame_manager_stop has returned the frame thread has ended: no     *)
(* callback runs and none can start until the next start.                  *)
THEOREM StopMeansStopped == Spec => []StoppedMeansStopped
<1>1. TableInv => StoppedMeansStopped
  BY DEF TableInv
<1> QED BY TableAlways, <1>1, PTL

(* Every stream taken from the encoder is given back on every path.        *)
THEOREM StreamsGivenBack == Spec => []StreamsReleased
<1>1. TableInv => StreamsReleased
  BY DEF TableInv
<1> QED BY TableAlways, <1>1, PTL

-----------------------------------------------------------------------------
(* The refinement.  While a frame is handed out, the consumers the loop    *)
(* has passed have it; before, the frame has a number.                     *)
Visited(k) == k < i \/ (k = i /\ fpc = "callback")

Reached == mutex = "frame" =>
    \A m \in Modules :
        id[m] # 0 /\ Active(id[m], ch) /\ Visited(id[m]) => got[m][ch] = seq[ch]

Numbered == fpc = "lock" => seq[ch] > 0

DeliveryInv == Reached /\ Numbered

LEMMA DeliveryNext == TableInv /\ DeliveryInv /\ [Next]_vars => DeliveryInv'
<1> SUFFICES ASSUME TableInv, DeliveryInv, [Next]_vars PROVE DeliveryInv'
  OBVIOUS
<1> USE DEF DeliveryInv, Reached, Numbered, Visited, Active, TableInv, TypeOK, Locked
<1>1. ASSUME NEW m \in Modules, Enter(m)
      PROVE  DeliveryInv'
  BY <1>1 DEF Enter, tableVars, frameVars
<1>2. ASSUME NEW m \in Modules, Commit(m)
      PROVE  DeliveryInv'
  BY <1>2 DEF Commit, Register, SetEnabled, Unregister, Unlocked, Return, frameVars
<1>3. CASE Start \/ Stop \/ Join \/ UNCHANGED vars
  BY <1>3 DEF Start, Stop, Join, vars, tableVars, frameVars, StoppedMeansStopped
<1>4. CASE Top \/ CheckChannel \/ NoFrame \/ GetFrame \/ NoMemory \/ Release \/ Unlock
  BY <1>4 DEF Top, CheckChannel, NoFrame, GetFrame, NoMemory, Release, Unlock,
              NextChannel, Others, tableVars
<1>5. CASE Copy
  BY <1>5 DEF Copy, Others, tableVars
<1>6. CASE Lock
  <2>1. \A m \in Modules : id[m] # 0 => id[m] >= 1
    OBVIOUS
  <2> QED BY <1>6, <2>1 DEF Lock, Others, tableVars
<1>7. CASE SkipConsumer
  <2>1. /\ UNCHANGED <<entries, id, seq, got, ch, mutex>>
        /\ fpc = "distribute" /\ fpc' = "distribute" /\ i' = i + 1
        /\ ~Active(i, ch)
    BY <1>7 DEF SkipConsumer, Others, tableVars
  <2>2. \A m \in Modules : id[m] < i + 1 => id[m] < i \/ id[m] = i
    <3>1. i \in Int /\ \A m \in Modules : id[m] \in Int
      OBVIOUS
    <3> QED BY ONLY <3>1
  <2> QED BY <2>1, <2>2
<1>8. CASE BeginCallback
  <2>1. i \in Ids /\ entries[i].owner \in Modules /\ id[entries[i].owner] = i
    BY <1>8 DEF BeginCallback, ActiveHeld, Ids
  <2>2. \A m \in Modules : id[m] = i => m = entries[i].owner
    BY <2>1, SizeFacts DEF IdsDesignateOwner
  <2>3. got'[entries[i].owner][ch] = seq[ch]
    BY <1>8, <2>1 DEF BeginCallback
  <2>4. \A m \in Modules : m # entries[i].owner => got'[m] = got[m]
    BY <1>8, <2>1 DEF BeginCallback
  <2> QED BY <1>8, <2>2, <2>3, <2>4 DEF BeginCallback, Others, tableVars
<1>9. CASE EndCallback
  <2>1. /\ UNCHANGED <<entries, id, seq, got, ch, mutex>>
        /\ fpc = "callback" /\ fpc' = "distribute" /\ i' = i + 1
    BY <1>9 DEF EndCallback, Others, tableVars
  <2>2. \A m \in Modules : id[m] < i + 1 => id[m] < i \/ id[m] = i
    <3>1. i \in Int /\ \A m \in Modules : id[m] \in Int
      OBVIOUS
    <3> QED BY ONLY <3>1
  <2> QED BY <2>1, <2>2
<1> QED BY <1>1, <1>2, <1>3, <1>4, <1>5, <1>6, <1>7, <1>8, <1>9 DEF Next, FrameThread

(* A call of module m changes the subscription of m only.                  *)
LEMMA CommitSubscribes ==
  ASSUME TableInv, NEW m \in Modules, Commit(m)
  PROVE  \E S \in SUBSET Channels : Wants' = [Wants EXCEPT ![m] = S]
<1> USE DEF TableInv, TypeOK, IdsDesignateOwner
<1>1. \A n \in Modules : n # m =>
        /\ id'[n] = id[n]
        /\ id[n] # 0 => entries'[id[n]] = entries[id[n]]
  <2>1. CASE Register(m)
    <3>1. CASE UNCHANGED tableVars
      BY <3>1 DEF tableVars
    <3>2. CASE /\ count < MaxConsumers
               /\ entries' = [entries EXCEPT ![count + 1] =
                    [owner |-> m, mask |-> call[m].mask, active |-> TRUE]]
               /\ id' = [id EXCEPT ![m] = count + 1]
      BY <3>2 DEF Ids
    <3> QED BY <2>1, <3>1, <3>2 DEF Register
  <2>2. CASE SetEnabled(m) \/ Unregister(m)
    <3>1. /\ id[m] \in 1..count /\ \A n \in Modules : n # m => id'[n] = id[n]
          /\ \A k \in Ids : k # id[m] => entries'[k] = entries[k]
      BY <2>2 DEF SetEnabled, Unregister, CallsMatch
    <3>2. ASSUME NEW n \in Modules, n # m, id[n] # 0
          PROVE  id[n] # id[m] /\ id[n] \in Ids
      <4>1. entries[id[n]].owner = n /\ entries[id[m]].owner = m
        BY <3>1, <3>2
      <4> QED BY <3>2, <4>1 DEF Ids
    <3> QED BY <3>1, <3>2
  <2> QED BY <2>1, <2>2 DEF Commit
<1>2. TypeOK'
  BY TableModules
<1>3. Wants'[m] \in SUBSET Channels
  <2>1. id'[m] # 0 => entries'[id'[m]] \in Entries
    BY <1>2, TableModules DEF Ids
  <2> QED BY <2>1 DEF Wants, Entries
<1>4. \A n \in Modules : n # m => Wants'[n] = Wants[n]
  BY <1>1 DEF Wants
<1>5. Wants' = [Wants EXCEPT ![m] = Wants'[m]]
  <2>1. /\ Wants = [n \in Modules |-> Wants[n]]
        /\ Wants' = [n \in Modules |-> Wants'[n]]
    BY ONLY DEF Wants
  <2> QED BY ONLY <1>4, <2>1
<1> QED BY <1>3, <1>5

(* Each step of the frame manager is a step of FrameFeed or invisible:     *)
(* Lock publishes the frame, a module's call subscribes.                   *)
LEMMA FeedStep ==
  TableInv /\ DeliveryInv /\ [Next]_vars => [Feed!Next]_(Feed!feed)
<1> SUFFICES ASSUME TableInv, DeliveryInv, [Next]_vars
             PROVE  Feed!Next \/ UNCHANGED <<Wants, Made, Given>>
  BY DEF Feed!feed
<1> USE DEF TableInv, TypeOK, Locked
<1>w. UNCHANGED <<entries, id>> => UNCHANGED Wants
  BY DEF Wants
<1>p. /\ fpc # "lock" => Made = seq
      /\ mutex # "frame" => Given = got
  BY DEF Made, Given
<1>q. TypeOK' /\ Locked'
  BY TableNext
<1>r. /\ fpc' # "lock" => Made' = seq'
      /\ mutex' # "frame" => Given' = got'
  BY <1>q DEF Made, Given
<1>1. ASSUME NEW m \in Modules, Enter(m)
      PROVE  UNCHANGED <<Wants, Made, Given>>
  BY <1>1 DEF Enter, tableVars, frameVars, Wants, Made, Given
<1>2. ASSUME NEW m \in Modules, Commit(m)
      PROVE  Feed!Next
  <2>1. mutex = "free" /\ UNCHANGED <<mutex, frameVars>>
    BY <1>2 DEF Commit, Register, SetEnabled, Unregister, Unlocked, Return
  <2>2. UNCHANGED <<Made, Given>>
    BY <1>p, <1>r, <2>1 DEF frameVars, Made
  <2> QED BY <1>2, <2>2, CommitSubscribes DEF Feed!Next, Feed!Subscribe
<1>3. CASE Start \/ Stop \/ Join \/ UNCHANGED vars
  <2>1. UNCHANGED <<entries, id, ch, seq, got, mutex>>
        \/ (Start /\ UNCHANGED <<entries, id, seq, got, mutex>>)
    BY <1>3 DEF Start, Stop, Join, vars, tableVars, frameVars
  <2>2. CASE Start
    BY <1>w, <1>p, <1>r, <2>2 DEF Start, tableVars, StoppedMeansStopped
  <2>3. CASE Stop \/ Join \/ UNCHANGED vars
    BY <2>3 DEF Stop, Join, vars, tableVars, frameVars, Wants, Made, Given
  <2> QED BY <1>3, <2>2, <2>3
<1>4. CASE Top \/ CheckChannel \/ NoFrame \/ GetFrame \/ NoMemory \/ Release
  <2>1. /\ UNCHANGED <<entries, id, seq, got, mutex>>
        /\ fpc # "lock" /\ fpc' # "lock" /\ mutex # "frame"
    BY <1>4 DEF Top, CheckChannel, NoFrame, GetFrame, NoMemory, Release, NextChannel,
                Others, tableVars
  <2> QED BY <1>w, <1>p, <1>r, <2>1
<1>5. CASE Copy
  <2>1. /\ UNCHANGED <<entries, id, got, mutex, ch>> /\ mutex # "frame"
        /\ fpc = "copy" /\ fpc' = "lock" /\ seq' = [seq EXCEPT ![ch] = @ + 1]
    BY <1>5 DEF Copy, Others, tableVars
  <2>2. Made' = Made
    BY <2>1 DEF Made
  <2> QED BY <1>w, <1>p, <1>r, <2>1, <2>2
<1>6. CASE Lock
  <2>1. /\ UNCHANGED <<entries, id, seq, got, ch>>
        /\ fpc = "lock" /\ fpc' = "distribute"
    BY <1>6 DEF Lock, Others, tableVars
  <2>2. UNCHANGED Wants /\ seq[ch] > 0
    BY <1>w, <2>1 DEF DeliveryInv, Numbered
  <2>3. Made' = [Made EXCEPT ![ch] = @ + 1]
    <3>1. Made[ch] + 1 = seq[ch]
      BY <2>1, <2>2 DEF Made
    <3>2. Made' = seq
      BY <1>r, <2>1
    <3>3. \A c \in Channels : c # ch => Made[c] = seq[c]
      BY DEF Made
    <3>4. Made = [c \in Channels |-> Made[c]]
      BY DEF Made
    <3> QED BY <3>1, <3>2, <3>3, <3>4
  <2>4. Given' = [m \in Modules |-> IF ch \in Wants[m]
                                      THEN [Given[m] EXCEPT ![ch] = Made[ch] + 1]
                                      ELSE Given[m]]
    BY <2>1, <2>2 DEF Given, Made
  <2> QED BY <2>2, <2>3, <2>4 DEF Feed!Next, Feed!Publish
<1>7. CASE SkipConsumer \/ EndCallback
  BY <1>7 DEF SkipConsumer, EndCallback, Others, tableVars, Wants, Made, Given
<1>8. CASE BeginCallback
  <2>0. /\ UNCHANGED <<entries, id, seq, ch, mutex>>
        /\ fpc = "distribute" /\ fpc' = "callback"
        /\ i <= count /\ Active(i, ch)
        /\ got' = [got EXCEPT ![entries[i].owner][ch] = seq[ch]]
    BY <1>8 DEF BeginCallback, Others, tableVars
  <2>1. /\ i \in Ids /\ entries[i].owner \in Modules
        /\ id[entries[i].owner] = i
    BY <2>0 DEF Active, ActiveHeld, Ids
  <2>2. ch \in Wants[entries[i].owner]
    BY <2>0, <2>1, SizeFacts DEF Wants, Active
  <2>3. \A m \in Modules, c \in Channels :
          m # entries[i].owner \/ c # ch => got'[m][c] = got[m][c]
    BY <2>0, <2>1
  <2>4. Given' = Given
    BY <1>w, <2>0, <2>2, <2>3 DEF Given
  <2> QED BY <1>w, <1>p, <1>r, <2>0, <2>4
<1>9. CASE Unlock
  <2>0. /\ UNCHANGED <<entries, id, seq, got, ch>> /\ mutex = "frame" /\ mutex' = "free"
        /\ fpc = "distribute" /\ fpc' = "release" /\ i > count
    BY <1>9 DEF Unlock, Others, tableVars
  <2>1. ASSUME NEW m \in Modules, ch \in Wants[m]
        PROVE  got[m][ch] = seq[ch]
    <3>1. id[m] # 0 /\ Active(id[m], ch) /\ id[m] < i
      BY <2>0, <2>1 DEF Wants, Active, IdsDesignateOwner
    <3> QED BY <2>0, <3>1 DEF DeliveryInv, Reached, Visited
  <2>2. Given = got
    BY <2>0, <2>1 DEF Given
  <2> QED BY <1>w, <1>p, <1>r, <2>0, <2>2
<1> QED BY <1>1, <1>2, <1>3, <1>4, <1>5, <1>6, <1>7, <1>8, <1>9 DEF Next, FrameThread

(* Frames reach all subscribers of their channel, none twice, none out of  *)
(* order: the mutex and the loop implement the one-step promise.           *)
THEOREM FeedImplemented == Spec => ImplementsFeed
<1>1. Init => Feed!Init
  BY DEF Init, Feed!Init, Wants, Made, Given
<1>2. Init => DeliveryInv
  BY DEF Init, DeliveryInv, Reached, Numbered
<1> QED BY TableInit, TableNext, DeliveryNext, FeedStep, <1>1, <1>2, PTL
        DEF Spec, ImplementsFeed, Feed!Spec

=============================================================================
