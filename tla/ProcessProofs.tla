---------------------------- MODULE ProcessProofs ----------------------------
(* What the parts of the process promise, for any number of modules, streams,  *)
(* descriptors, messages, seconds and faults: for each part the invariant that *)
(* its promise rests on, that its steps keep it, and the theorem.              *)
EXTENDS Process, FiniteSetTheorems, WellFoundedInduction, SequenceTheorems, TLAPS

(* A step of the process is a step of one part, or leaves that part's        *)
(* variables alone.                                                          *)
LEMMA StepsOfParts ==
  ASSUME [ProcessNext]_processVars
  PROVE  /\ [Next]_lockVars
         /\ [M!Next]_(M!moduleVars)
         /\ [S!Next]_(S!streamerVars)
         /\ [O!Next]_(O!osdVars)
         /\ [P!Next]_(P!photoVars)
         /\ [V!Next]_(V!motionVars)
         /\ [D!Next]_(D!discoveryVars)
<1> USE DEF ProcessNext, Daemon, AtLight, AtMotion, processVars, daemonVars, controlVars
<1>1. [Next]_lockVars
  BY DEF lockVars
<1>2. [M!Next]_(M!moduleVars)
  BY DEF moduleVars, M!moduleVars
<1>3. [S!Next]_(S!streamerVars)
  BY DEF streamerVars, S!streamerVars, S!mainVars, S!configVars, S!fileVars
<1>4. [O!Next]_(O!osdVars)
  BY DEF osdVars, O!osdVars, O!treeVars, O!timerVars
<1>5. [P!Next]_(P!photoVars)
  BY DEF photoVars, P!photoVars, P!stateVars, P!modeVars, P!countVars
<1>6. [V!Next]_(V!motionVars)
  BY DEF motionVars, V!motionVars, V!lifeVars, V!eventVars
<1>7. [D!Next]_(D!discoveryVars)
  BY DEF discoveryVars, D!discoveryVars, D!tables, D!clock, D!history
<1> QED BY <1>1, <1>2, <1>3, <1>4, <1>5, <1>6, <1>7

-----------------------------------------------------------------------------
(* A single instance (main.c).                                             *)

(* As long as no path was torn, every open descriptor is on the file at the   *)
(* path; who runs holds the lock, and a lock is held on a file of one's own.   *)
OpenOnPath == \A p \in Processes : fd[p] = {} \/ fd[p] = path
LockedAlone == \A p, q \in locked : fd[p] = fd[q] => p = q

LockInv ==
  /\ \A i, j \in path : i = j
  /\ fd \in [Processes -> SUBSET Inodes] /\ locked \subseteq Processes
  /\ life \in [Processes -> {"new", "opened", "running", "closed", "gone"}]
  /\ torn \in BOOLEAN
  /\ \A p \in Processes : life[p] \in {"opened", "running"} <=> fd[p] # {}
  /\ locked = {p \in Processes : life[p] = "running"}
  /\ LockedAlone
  /\ ~torn => OpenOnPath

LEMMA LockInitially == Init => LockInv
BY DEF Init, LockInv, LockedAlone, OpenOnPath

LEMMA LockKept == LockInv /\ [Next]_lockVars => LockInv'
<1> SUFFICES ASSUME LockInv, [Next]_lockVars PROVE LockInv'
  OBVIOUS
<1> USE DEF LockInv, LockedAlone, OpenOnPath
<1>1. ASSUME NEW p \in Processes, Open(p) PROVE LockInv'
  <2>1. PICK i \in Inodes : /\ IF path = {} THEN i \notin InUse ELSE i \in path
                            /\ path' = {i} /\ fd' = [fd EXCEPT ![p] = {i}]
    BY <1>1 DEF Open
  <2>2. p \notin locked /\ locked' = locked /\ torn' = torn
    BY <1>1 DEF Open
  <2>3. ASSUME ~torn, NEW q \in Processes, fd[q] # {} PROVE fd[q] = {i}
    <3>1. fd[q] = path
      BY <2>3
    <3>2. path # {}
      BY <2>3, <3>1
    <3>3. path = {i}
      BY <2>1, <3>2
    <3> QED BY <3>1, <3>3
  <2> QED BY <1>1, <2>1, <2>2, <2>3 DEF Open
<1>2. ASSUME NEW p \in Processes, OpenFails(p) PROVE LockInv'
  BY <1>2 DEF OpenFails
<1>3. ASSUME NEW p \in Processes, Lock(p) PROVE LockInv'
  BY <1>3 DEF Lock, Grantable
<1>4. ASSUME NEW p \in Processes, Refused(p) PROVE LockInv'
  BY <1>4 DEF Refused
<1>5. ASSUME NEW p \in Processes, Close(p) PROVE LockInv'
  BY <1>5 DEF Close
<1>6. ASSUME NEW p \in Processes, Unlink(p) PROVE LockInv'
  BY <1>6 DEF Unlink
<1>7. ASSUME NEW p \in Processes, Killed(p) PROVE LockInv'
  BY <1>7 DEF Killed
<1>8. CASE UNCHANGED lockVars
  BY <1>8 DEF lockVars
<1> QED BY <1>1, <1>2, <1>3, <1>4, <1>5, <1>6, <1>7, <1>8 DEF Next

LEMMA LockInvImplies == LockInv => SecondNeedsTornPath
<1> SUFFICES ASSUME LockInv, ~torn PROVE ~(Cardinality(Running) > 1)
  BY DEF SecondNeedsTornPath
<1>1. \A p, q \in Running : p = q
  BY DEF LockInv, OpenOnPath, LockedAlone, Running
<1>2. CASE Running = {}
  BY <1>2, FS_EmptySet
<1>3. CASE Running # {}
  <2>1. PICK p : p \in Running
    BY <1>3
  <2>2. Running = {p}
    BY <1>1, <2>1
  <2> QED BY <2>2, FS_Singleton
<1> QED BY <1>2, <1>3

(* main.c:90-159: a lock file left by a kill, or closed and not yet          *)
(* unlinked, never lets a second instance in.                                *)
THEOREM SecondInstanceNeedsTornPath == ProcessSpec => []SecondNeedsTornPath
<1>1. ProcessInit => LockInv
  BY LockInitially DEF ProcessInit
<1>2. LockInv /\ [ProcessNext]_processVars => LockInv'
  BY StepsOfParts, LockKept
<1>3. LockInv => SecondNeedsTornPath
  BY LockInvImplies
<1> QED BY <1>1, <1>2, <1>3, PTL DEF ProcessSpec

-----------------------------------------------------------------------------
(* The modules and the paths of the image grabber (module_system.c).       *)

(* Before the modules are started no path has a handler and nobody serves.   *)
NotStarted == stage \in {"link", "register", "init"}

(* What every stage leaves in the registry and the routes; the server serves *)
(* only behind its router.                                                   *)
RoutesInv ==
  /\ stage \in {"link", "register", "init", "start", "running", "cleanup", "over"}
  /\ mstate \in [M!Modules -> {"unregistered", "registered", "initialized", "running", "error"}]
  /\ enabled \in [M!Modules -> BOOLEAN] /\ serving \in [M!Modules -> BOOLEAN]
  /\ DOMAIN owner = M!Paths
  /\ NotStarted => /\ \A m \in M!Modules : ~serving[m] /\ mstate[m] # "running"
                   /\ owner["image"] = "none" 
  /\ stage \in {"start", "running"} => (serving["http"] => router)

(* Who answers the paths of the grabber follows from which of the two        *)
(* modules ran, in either order of their starts: a grabber that serves has   *)
(* taken them, and a server that started before a grabber that does not run, *)
(* or without one, answers them itself.                                      *)
GrabberInv ==
  ("image_grab" \in M!Modules /\ stage \in {"start", "running"}) =>
    /\ serving["image_grab"] =>
         mstate["image_grab"] = "running" /\ owner["image"] = "image_grab"
    /\ ~serving["image_grab"] => owner["image"] \in {"http_fallback", "none"}
    /\ (serving["http"] /\ ~serving["image_grab"] /\ mstate["image_grab"] # "running") =>
         owner["image"] = "http_fallback"

(* main registers the server itself.                                         *)
LEMMA ServerIsModule == "http" \in M!Modules /\ "image" \in M!Paths
BY RoutesAssumption DEF M!RoutesAssumption, M!Modules, M!Paths

LEMMA RoutesInitially == M!Init => RoutesInv /\ GrabberInv
BY ServerIsModule DEF M!Init, RoutesInv, GrabberInv, NotStarted, M!NoOne

LEMMA RoutesKept == RoutesInv /\ [M!Next]_(M!moduleVars) => RoutesInv'
<1> SUFFICES ASSUME RoutesInv, [M!Next]_(M!moduleVars) PROVE RoutesInv'
  OBVIOUS
<1> USE ServerIsModule, RoutesAssumption DEF RoutesInv, NotStarted, M!RoutesAssumption
<1>1. CASE M!RegisterLinked
  BY <1>1 DEF M!RegisterLinked, M!RegisterNext, M!Registered
<1>2. CASE M!RegisterManual
  BY <1>2 DEF M!RegisterManual, M!RegisterNext, M!Registered
<1>3. CASE M!Walk("init", "start") \/ M!Walk("start", "running")
  BY <1>3 DEF M!Walk
<1>4. ASSUME NEW ok \in BOOLEAN, M!InitModule(ok) PROVE RoutesInv'
  BY <1>4 DEF M!InitModule
<1>5. ASSUME NEW ok \in BOOLEAN, M!StartOther(ok) PROVE RoutesInv'
  BY <1>5 DEF M!StartOther, M!Starting, M!Startable, M!Becomes
<1>6. ASSUME NEW ok \in BOOLEAN, M!StartHttp(ok) PROVE RoutesInv'
  BY <1>6 DEF M!StartHttp, M!Starting, M!Startable, M!Becomes, M!WithForeign
<1>7. CASE M!Skip
  BY <1>7 DEF M!Skip, M!Starting
<1>8. CASE M!StartDisabled
  BY <1>8 DEF M!StartDisabled, M!Starting, M!Becomes
<1>9. CASE M!StartGrabber
  BY <1>9 DEF M!StartGrabber, M!Starting, M!Becomes
<1>10. CASE M!BeginCleanup
  BY <1>10 DEF M!BeginCleanup
<1>11. CASE M!CleanupModule
  BY <1>11 DEF M!CleanupModule
<1>12. CASE M!CleanupDone
  BY <1>12 DEF M!CleanupDone
<1>13. CASE UNCHANGED M!moduleVars
  BY <1>13 DEF M!moduleVars
<1> QED BY <1>1, <1>2, <1>3, <1>4, <1>5, <1>6, <1>7, <1>8, <1>9, <1>10, <1>11, <1>12, <1>13
  DEF M!Next

LEMMA GrabberKept == RoutesInv /\ GrabberInv /\ [M!Next]_(M!moduleVars) => GrabberInv'
<1> SUFFICES ASSUME RoutesInv, GrabberInv, [M!Next]_(M!moduleVars) PROVE GrabberInv'
  OBVIOUS
<1> USE ServerIsModule, RoutesAssumption DEF RoutesInv, GrabberInv, NotStarted, M!RoutesAssumption
<1>1. CASE M!RegisterLinked
  BY <1>1 DEF M!RegisterLinked, M!RegisterNext, M!Registered
<1>2. CASE M!RegisterManual
  BY <1>2 DEF M!RegisterManual, M!RegisterNext, M!Registered
<1>3. CASE M!Walk("init", "start") \/ M!Walk("start", "running")
  BY <1>3 DEF M!Walk
<1>4. ASSUME NEW ok \in BOOLEAN, M!InitModule(ok) PROVE GrabberInv'
  BY <1>4 DEF M!InitModule
<1>5. ASSUME NEW ok \in BOOLEAN, M!StartOther(ok) PROVE GrabberInv'
  BY <1>5 DEF M!StartOther, M!Starting, M!Startable, M!Becomes
<1>6. ASSUME NEW ok \in BOOLEAN, M!StartHttp(ok) PROVE GrabberInv'
  <2>1. /\ registry[position + 1] = "http" /\ mstate' = [mstate EXCEPT !["http"] = IF ok THEN "running" ELSE "error"]
        /\ serving' = [serving EXCEPT !["http"] = ok] /\ stage' = "start" /\ stage = "start"
    BY <1>6 DEF M!StartHttp, M!Starting, M!Becomes, M!Current
  <2>2. "image_grab" \in M!Modules => 
          /\ serving'["image_grab"] = serving["image_grab"]
          /\ mstate'["image_grab"] = mstate["image_grab"]
    BY <2>1
  <2>3. owner' = M!WithForeign(M!WithFallback(M!WithCore(owner)))
    BY <1>6 DEF M!StartHttp
  <2>4. owner'["image"] = M!WithFallback(M!WithCore(owner))["image"]
    BY <2>3 DEF M!WithForeign
  <2>5. M!WithCore(owner)["image"] = owner["image"] /\ DOMAIN M!WithCore(owner) = M!Paths
    BY DEF M!WithCore
  <2>6. owner'["image"] = IF M!GrabberEnabled THEN owner["image"] ELSE "http_fallback"
    BY <2>4, <2>5 DEF M!WithFallback
  <2> QED BY <2>1, <2>2, <2>6 DEF M!GrabberEnabled
<1>7. CASE M!Skip
  BY <1>7 DEF M!Skip, M!Starting
<1>8. CASE M!StartDisabled
  BY <1>8 DEF M!StartDisabled, M!Starting, M!Becomes, M!Startable
<1>9. CASE M!StartGrabber
  <2>1. registry[position + 1] = "image_grab" /\ UNCHANGED router /\ stage' = stage
    BY <1>9 DEF M!StartGrabber, M!Starting, M!Current
  <2>2. CASE router
    BY <1>9, <2>1, <2>2 DEF M!StartGrabber, M!Becomes, M!Current
  <2>3. CASE ~router
    <3>1. UNCHANGED <<owner, serving>> /\ mstate' = [mstate EXCEPT !["image_grab"] = "error"]
      BY <1>9, <2>1, <2>3 DEF M!StartGrabber, M!Becomes, M!Current
    <3>2. stage = "start" /\ mstate["image_grab"] = "initialized"
      BY <1>9, <2>1 DEF M!StartGrabber, M!Starting, M!Startable, M!Current
    <3> QED BY <2>1, <2>3, <3>1, <3>2
  <2> QED BY <2>2, <2>3
<1>10. CASE M!BeginCleanup
  BY <1>10 DEF M!BeginCleanup
<1>11. CASE M!CleanupModule
  BY <1>11 DEF M!CleanupModule
<1>12. CASE M!CleanupDone
  BY <1>12 DEF M!CleanupDone
<1>13. CASE UNCHANGED M!moduleVars
  BY <1>13 DEF M!moduleVars
<1> QED BY <1>1, <1>2, <1>3, <1>4, <1>5, <1>6, <1>7, <1>8, <1>9, <1>10, <1>11, <1>12, <1>13
  DEF M!Next

LEMMA Images == RoutesInv /\ GrabberInv => M!ImagesAnswered
BY ServerIsModule DEF RoutesInv, GrabberInv, M!ImagesAnswered, M!Started, M!NoOne

(* http_module.c:150-162: in whichever order the linker puts the modules and *)
(* whichever of them fail to start, the paths of the image grabber are       *)
(* answered by the grabber exactly when it runs.                             *)
THEOREM GrabberAnswersItsPaths == ProcessSpec => []ImagesAnswered
<1>1. ProcessInit => RoutesInv /\ GrabberInv
  BY RoutesInitially DEF ProcessInit
<1>2. RoutesInv /\ GrabberInv /\ [ProcessNext]_processVars => (RoutesInv /\ GrabberInv)'
  BY StepsOfParts, RoutesKept, GrabberKept
<1>3. RoutesInv /\ GrabberInv => ImagesAnswered
  BY Images DEF ImagesAnswered
<1> QED BY <1>1, <1>2, <1>3, PTL DEF ProcessSpec

-----------------------------------------------------------------------------
(* The frame rates and what main acquires (main.c, sensor.c, config.c).    *)

(* From the adjustment on, the configured rate is within the sensor's        *)
(* limits, unless a reload came after it; so is every rate that was set from *)
(* it.                                                                       *)
RatesInv ==
  /\ fps \in Int /\ file \in Contents /\ json \in Contents
  /\ DOMAIN encoderFps = Chans
  /\ (~late /\ pc \notin {"config", "modules", "adjust", "failed"}) => fps \in MinFps..MaxFps
  /\ ~late => /\ sensorFps = 0 \/ sensorFps \in MinFps..MaxFps
              /\ \A c \in Chans : encoderFps[c] = 0 \/ encoderFps[c] \in MinFps..MaxFps

LEMMA RatesInitially == S!Init => RatesInv
BY RatesAssumption DEF S!RatesAssumption, S!Init, RatesInv

LEMMA RatesKept == RatesInv /\ [S!Next]_(S!streamerVars) => RatesInv'
<1> SUFFICES ASSUME RatesInv, [S!Next]_(S!streamerVars) PROVE RatesInv'
  OBVIOUS
<1> USE RatesAssumption DEF S!RatesAssumption, RatesInv, S!mainVars, S!configVars, S!fileVars, S!Goes
<1>1. CASE S!LoadConfig
  BY <1>1 DEF S!LoadConfig
<1>2. CASE S!ReadSensor
  BY <1>2 DEF S!ReadSensor
<1>3. CASE S!Adjust
  BY <1>3 DEF S!Adjust, S!Adjusted, S!Clamped
<1>4. CASE S!Acquire
  BY <1>4 DEF S!Acquire, S!AfterBoard
<1>5. CASE S!SetSensorFps
  BY <1>5 DEF S!SetSensorFps
<1>6. CASE S!ApplyConfig
  BY <1>6 DEF S!ApplyConfig
<1>7. CASE S!CreateSources
  BY <1>7 DEF S!CreateSources, S!Each
<1>8. CASE S!CreateEncoders
  BY <1>8 DEF S!CreateEncoders, S!Each, S!EncoderRates
<1>9. CASE S!CreateJpegs
  BY <1>9 DEF S!CreateJpegs, S!JpegCreated
<1>10. CASE S!CreateOsds
  BY <1>10 DEF S!CreateOsds
<1>11. CASE S!Bind
  BY <1>11 DEF S!Bind
<1>12. CASE S!StreamOn
  BY <1>12 DEF S!StreamOn, S!Each
<1>13. CASE S!StartServices
  BY <1>13 DEF S!StartServices
<1>14. CASE S!StreamOff
  BY <1>14 DEF S!StreamOff, S!Release
<1>15. CASE S!Unbind
  BY <1>15 DEF S!Unbind
<1>16. CASE S!ReleaseJpegs
  BY <1>16 DEF S!ReleaseJpegs
<1>17. CASE S!ReleaseEncoders
  BY <1>17 DEF S!ReleaseEncoders, S!Release
<1>18. CASE S!ReleaseBoard
  BY <1>18 DEF S!ReleaseBoard
<1>19. CASE S!Check
  BY <1>19 DEF S!Check
<1>20. CASE S!Stamp
  BY <1>20 DEF S!Stamp
<1>21. CASE S!Read
  BY <1>21 DEF S!Read
<1>22. CASE S!ParseFps
  BY <1>22 DEF S!ParseFps, S!PastAdjusting
<1>23. CASE S!ClearStreams
  BY <1>23 DEF S!ClearStreams
<1>24. CASE S!FillStreams
  BY <1>24 DEF S!FillStreams
<1>25. CASE S!Edit
  BY <1>25 DEF S!Edit
<1>26. CASE UNCHANGED S!streamerVars
  BY <1>26 DEF S!streamerVars
<1> QED BY <1>1, <1>2, <1>3, <1>4, <1>5, <1>6, <1>7, <1>8, <1>9, <1>10, <1>11, <1>12, <1>13,
    <1>14, <1>15, <1>16, <1>17, <1>18, <1>19, <1>20, <1>21, <1>22, <1>23, <1>24, <1>25,
    <1>26 DEF S!Next, S!Main, S!Monitor

LEMMA RatesFollow == RatesInv => S!RatesWithinSensor
BY DEF RatesInv, S!RatesWithinSensor, S!Range

(* sensor.c:166-232: only a reload that overtakes main makes the sensor or   *)
(* an encoder run at a rate outside what the sensor reports, wherever        *)
(* between the steps of main the thread that reloads is.                     *)
THEOREM RatesStayWithinSensor == ProcessSpec => []RatesWithinSensor
<1>1. ProcessInit => RatesInv
  BY RatesInitially DEF ProcessInit
<1>2. RatesInv /\ [ProcessNext]_processVars => RatesInv'
  BY StepsOfParts, RatesKept
<1>3. RatesInv => RatesWithinSensor
  BY RatesFollow DEF RatesWithinSensor
<1> QED BY <1>1, <1>2, <1>3, PTL DEF ProcessSpec

(* The channel that a loop of main reaches next is one of those it walks.    *)
LEMMA MinIsElement ==
  ASSUME NEW T, T \subseteq Nat, T # {}
  PROVE  S!Min(T) \in T
<1>1. PICK x \in T : \A y \in T : ~(<<y, x>> \in OpToRel(<, Nat))
  BY NatLessThanWellFounded, WFMin
<1>2. \A y \in T : ~(y < x)
  BY <1>1, Zenon DEF OpToRel
<1> QED BY <1>2, \A y \in T : ~(y < x) => x =< y DEF S!Min

(* Channels are numbered from zero.                                          *)
LEMMA MaxOfChans ==
  ASSUME NEW n \in Nat, Chans = 0..n
  PROVE  S!Max(Chans) = n
BY DEF S!Max

(* What main acquires once per channel.                                      *)
PerChannel == {"source", "group", "encoder", "streaming", "jpeg", "osd", "bound", "direct"}
(* The stages in which main has acquired nothing but the board.              *)
SettingUp == {"config", "modules", "adjust", "isp", "sensor", "enabled", "system", "tuning",
              "sensorfps", "apply"}

(* What main holds of the SDK belongs to channels that were enabled when it  *)
(* was acquired, and JPEG encoders to streams that are on, as long as no     *)
(* reload changed these.                                                     *)
SdkInv ==
  /\ sdk \subseteq (S!Board \cup PerChannel) \X Nat
  /\ enable \subseteq Chans /\ on \subseteq Chans /\ stream \in Nat
  /\ file \in Contents
  /\ pc \in SettingUp => \A k \in sdk : k[1] \in S!Board
  /\ \A k \in sdk : k[1] \in S!Board => k[2] = 0
  /\ \A k \in sdk : k[1] \in PerChannel => k[2] \in Chans
  /\ \A k \in sdk : k[1] \in {"source", "group", "encoder", "streaming"} => k[2] \in enable
  /\ ~late => \A k \in sdk : k[1] = "jpeg" => k[2] \in on

(* What each stage of the exit has left behind it: the loops before it have  *)
(* released everything they walk.                                            *)
LeftInv ==
  /\ pc \in {"unbind", "unjpeg", "unencode", "unsource", "unsystem"} =>
       \A k \in sdk : k[1] # "streaming"
  /\ pc \in {"unjpeg", "unencode", "unsource", "unsystem"} => \A k \in sdk : k[1] # "osd"
  /\ (pc = "unjpeg" /\ ~late) => \A k \in sdk : k[1] = "jpeg" => k[2] >= stream
  /\ (pc \in {"unencode", "unsource", "unsystem"} /\ ~late) => \A k \in sdk : k[1] # "jpeg"
  /\ pc \in {"unsource", "unsystem"} => \A k \in sdk : k[1] \notin {"encoder", "group"}
  /\ pc = "unsystem" => \A k \in sdk : k[1] # "source"
  /\ (pc = "ended" /\ ~late) => \A k \in sdk : k[1] \in {"direct", "bound"}

LEMMA SdkInitially == S!Init => SdkInv /\ LeftInv
BY ChansAssumption DEF S!ChansAssumption, S!Init, SdkInv, LeftInv

(* A loop that sets up one channel after the other adds one acquisition per  *)
(* step, or gives up.                                                        *)
LEMMA EachAdds ==
  ASSUME NEW from, NEW what, NEW to, enable \subseteq Nat, S!Each(from, what, to)
  PROVE  /\ pc = from /\ pc' \in {from, to, "failed"}
         /\ sdk' = sdk \/ \E c \in enable : sdk' = sdk \cup {<<what, c>>}
<1>1. S!Pending(what) # {} => S!Min(S!Pending(what)) \in enable
  BY MinIsElement DEF S!Pending
<1> QED BY <1>1 DEF S!Each

(* A loop that gives back only removes, and has nothing left to remove when  *)
(* it is over.                                                               *)
LEMMA ReleaseRemoves ==
  ASSUME NEW from, NEW whats, NEW to, S!Release(from, whats, to),
         enable \subseteq Chans
  PROVE  /\ pc = from /\ pc' \in {from, to, "failed"} /\ sdk' \subseteq sdk
         /\ (pc' = to /\ to \notin {from, "failed"}) =>
              \A w \in whats, c \in enable : <<w, c>> \notin sdk'
<1> DEFINE left == enable \cap UNION {S!Holding(w) : w \in whats}
<1>1. left = {} => \A w \in whats, c \in enable : <<w, c>> \notin sdk
  <2> SUFFICES ASSUME NEW w \in whats, NEW c \in enable, <<w, c>> \in sdk PROVE c \in left
    OBVIOUS
  <2>1. c \in S!Holding(w)
    BY DEF S!Holding
  <2>2. c \in UNION {S!Holding(v) : v \in whats}
    BY <2>1, Zenon
  <2> QED BY <2>2, Zenon
<1>2. IF left = {} THEN pc' = to /\ UNCHANGED sdk
      ELSE \/ sdk' = sdk \ (whats \X {S!Min(left)}) /\ UNCHANGED pc
           \/ pc' = "failed" /\ UNCHANGED sdk
  BY DEF S!Release
<1>3. pc = from
  BY DEF S!Release
<1> HIDE DEF left
<1> QED BY <1>1, <1>2, <1>3

LEMMA SdkKept == SdkInv /\ [S!Next]_(S!streamerVars) => SdkInv'
<1> SUFFICES ASSUME SdkInv, [S!Next]_(S!streamerVars) PROVE SdkInv'
  OBVIOUS
<1>0. PICK n \in Nat : Chans = 0..n
  BY ChansAssumption DEF S!ChansAssumption
<1>00. \A c \in Contents : c.on \subseteq Chans
  BY ChansAssumption DEF S!ChansAssumption
<1> USE <1>0, <1>00 DEF S!Parsed, SdkInv, S!Board, PerChannel, SettingUp, S!mainVars, S!configVars, S!fileVars, S!Goes
<1>1. CASE S!LoadConfig
  BY <1>1 DEF S!LoadConfig
<1>2. CASE S!ReadSensor
  BY <1>2 DEF S!ReadSensor
<1>3. CASE S!Adjust
  BY <1>3 DEF S!Adjust
<1>4. CASE S!Acquire
  BY <1>4 DEF S!Acquire, S!AfterBoard
<1>5. CASE S!SetSensorFps
  BY <1>5 DEF S!SetSensorFps
<1>6. CASE S!ApplyConfig
  <2>1. sdk' = sdk /\ UNCHANGED <<late, on, stream, file>> /\ pc = "apply" /\ pc' = "source"
    BY <1>6 DEF S!ApplyConfig
  <2>2. \A k \in sdk : k[1] \in S!Board
    BY <2>1
  <2>3. \A k \in sdk : k[1] \notin PerChannel
    BY <2>2
  <2>4. enable' \subseteq Chans
    BY <1>6 DEF S!ApplyConfig
  <2> QED BY <2>1, <2>2, <2>3, <2>4
<1>7. CASE S!CreateSources
  <2>1. enable \subseteq Nat
    OBVIOUS
  <2>2. /\ pc \notin SettingUp /\ pc' \notin SettingUp
        /\ UNCHANGED <<enable, late, on, file>>
        /\ sdk' = sdk \/ \E c \in enable, w \in {"source", "group", "encoder", "streaming"} :
                           sdk' = sdk \cup {<<w, c>>}
    BY <1>7, <2>1, EachAdds DEF S!CreateSources
  <2>3. stream' \in Nat
    BY <1>7 DEF S!CreateSources
  <2> QED BY <2>2, <2>3
<1>8. CASE S!CreateEncoders
  <2>1. enable \subseteq Nat
    OBVIOUS
  <2>2. /\ pc \notin SettingUp /\ pc' \notin SettingUp
        /\ UNCHANGED <<enable, late, on, file>>
        /\ sdk' = sdk \/ \E c \in enable, w \in {"source", "group", "encoder", "streaming"} :
                           sdk' = sdk \cup {<<w, c>>}
    BY <1>8, <2>1, EachAdds DEF S!CreateEncoders
  <2>3. stream' \in Nat
    BY <1>8 DEF S!CreateEncoders
  <2> QED BY <2>2, <2>3
<1>9. CASE S!CreateJpegs
  BY <1>9 DEF S!CreateJpegs, S!JpegCreated, S!Holding
<1>10. CASE S!CreateOsds
  <2>1. PICK new \in SUBSET ({"osd", "bound", "direct"} \X Chans) : sdk' = sdk \cup new
    BY <1>10 DEF S!CreateOsds
  <2>2. /\ UNCHANGED <<enable, late, on, stream, file>>
        /\ pc \notin SettingUp /\ pc' \notin SettingUp
    BY <1>10 DEF S!CreateOsds
  <2>3. \A k \in new : k[1] \in {"osd", "bound", "direct"} /\ k[2] \in Chans
    OBVIOUS
  <2> QED BY <2>1, <2>2, <2>3
<1>11. CASE S!Bind
  <2>1. PICK new \in SUBSET ({"osd", "bound", "direct"} \X Chans) : sdk' = sdk \cup new
    <3>1. CASE UNCHANGED sdk
      BY <3>1, sdk' = sdk \cup {}
    <3>2. CASE sdk' = sdk \cup ({"bound"} \X S!Holding("osd"))
                          \cup ({"direct"} \X (enable \ S!Holding("osd")))
      <4> DEFINE both == ({"bound"} \X S!Holding("osd"))
                           \cup ({"direct"} \X (enable \ S!Holding("osd")))
      <4>1. both \subseteq {"osd", "bound", "direct"} \X Chans
        BY DEF S!Holding
      <4>2. sdk' = sdk \cup both
        BY <3>2
      <4> QED BY <4>1, <4>2
    <3> QED BY <1>11, <3>1, <3>2 DEF S!Bind
  <2>2. /\ UNCHANGED <<enable, late, on, stream, file>>
        /\ pc \notin SettingUp /\ pc' \notin SettingUp
    BY <1>11 DEF S!Bind
  <2>3. \A k \in new : k[1] \in {"osd", "bound", "direct"} /\ k[2] \in Chans
    OBVIOUS
  <2> QED BY <2>1, <2>2, <2>3
<1>12. CASE S!StreamOn
  <2>1. enable \subseteq Nat
    OBVIOUS
  <2>2. /\ pc \notin SettingUp /\ pc' \notin SettingUp
        /\ UNCHANGED <<enable, late, on, file>>
        /\ sdk' = sdk \/ \E c \in enable, w \in {"source", "group", "encoder", "streaming"} :
                           sdk' = sdk \cup {<<w, c>>}
    BY <1>12, <2>1, EachAdds DEF S!StreamOn
  <2>3. stream' \in Nat
    BY <1>12 DEF S!StreamOn
  <2> QED BY <2>2, <2>3
<1>13. CASE S!StartServices
  BY <1>13 DEF S!StartServices
<1>14. CASE S!StreamOff
  BY <1>14 DEF S!StreamOff, S!Release, S!Holding
<1>15. CASE S!Unbind
  BY <1>15 DEF S!Unbind
<1>16. CASE S!ReleaseJpegs
  BY <1>16, MaxOfChans DEF S!ReleaseJpegs, S!Holding, S!StreamsWalked
<1>17. CASE S!ReleaseEncoders
  BY <1>17 DEF S!ReleaseEncoders, S!Release, S!Holding, S!PerEncoder, S!ChannelAndGroup
<1>18. CASE S!ReleaseBoard
  BY <1>18 DEF S!ReleaseBoard
<1>19. CASE S!Check
  BY <1>19 DEF S!Check
<1>20. CASE S!Stamp
  BY <1>20 DEF S!Stamp
<1>21. CASE S!Read
  BY <1>21 DEF S!Read
<1>22. CASE S!ParseFps
  BY <1>22 DEF S!ParseFps, S!PastAdjusting
<1>23. CASE S!ClearStreams
  BY <1>23 DEF S!ClearStreams, S!PastAdjusting
<1>24. CASE S!FillStreams
  BY <1>24 DEF S!FillStreams, S!PastAdjusting
<1>25. CASE S!Edit
  BY <1>25 DEF S!Edit
<1>26. CASE UNCHANGED S!streamerVars
  BY <1>26 DEF S!streamerVars
<1> QED BY <1>1, <1>2, <1>3, <1>4, <1>5, <1>6, <1>7, <1>8, <1>9, <1>10, <1>11, <1>12, <1>13,
    <1>14, <1>15, <1>16, <1>17, <1>18, <1>19, <1>20, <1>21, <1>22, <1>23, <1>24, <1>25, <1>26
  DEF S!Next, S!Main, S!Monitor

LEMMA LeftKept == SdkInv /\ LeftInv /\ [S!Next]_(S!streamerVars) => LeftInv'
<1> SUFFICES ASSUME SdkInv, LeftInv, [S!Next]_(S!streamerVars) PROVE LeftInv'
  OBVIOUS
<1>0. PICK n \in Nat : Chans = 0..n
  BY ChansAssumption DEF S!ChansAssumption
<1> USE <1>0 DEF SdkInv, LeftInv, S!Board, PerChannel, SettingUp, S!mainVars, S!configVars, S!fileVars, S!Goes
<1>1. CASE S!LoadConfig
  BY <1>1 DEF S!LoadConfig
<1>2. CASE S!ReadSensor
  BY <1>2 DEF S!ReadSensor
<1>3. CASE S!Adjust
  BY <1>3 DEF S!Adjust
<1>4. CASE S!Acquire
  BY <1>4 DEF S!Acquire, S!AfterBoard
<1>5. CASE S!SetSensorFps
  BY <1>5 DEF S!SetSensorFps
<1>6. CASE S!ApplyConfig
  BY <1>6 DEF S!ApplyConfig
<1>7. CASE S!CreateSources
  BY <1>7 DEF S!CreateSources, S!Each, S!Pending, S!Holding
<1>8. CASE S!CreateEncoders
  BY <1>8 DEF S!CreateEncoders, S!Each, S!Pending, S!Holding
<1>9. CASE S!CreateJpegs
  BY <1>9 DEF S!CreateJpegs, S!JpegCreated, S!Holding
<1>10. CASE S!CreateOsds
  BY <1>10 DEF S!CreateOsds, S!Holding
<1>11. CASE S!Bind
  BY <1>11 DEF S!Bind, S!Holding
<1>12. CASE S!StreamOn
  BY <1>12 DEF S!StreamOn, S!Each, S!Pending, S!Holding
<1>13. CASE S!StartServices
  BY <1>13 DEF S!StartServices
<1>14. CASE S!StreamOff
  <2>1. /\ pc = "off" /\ pc' \in {"off", "unbind", "failed"} /\ sdk' \subseteq sdk
        /\ pc' = "unbind" => \A c \in enable : <<"streaming", c>> \notin sdk'
    BY <1>14, ReleaseRemoves DEF S!StreamOff
  <2>2. pc' = "unbind" => \A k \in sdk' : k[1] # "streaming"
    <3> SUFFICES ASSUME pc' = "unbind", NEW k \in sdk', k[1] = "streaming" PROVE FALSE
      OBVIOUS
    <3>1. k = <<k[1], k[2]>> /\ k[2] \in enable
      BY <2>1
    <3> QED BY <2>1, <3>1
  <2> QED BY <2>1, <2>2
<1>15. CASE S!Unbind
  BY <1>15 DEF S!Unbind
<1>16. CASE S!ReleaseJpegs
  BY <1>16, MaxOfChans DEF S!ReleaseJpegs, S!Holding, S!StreamsWalked
<1>17. CASE S!ReleaseEncoders
  <2>1. CASE S!Release("unencode", S!PerEncoder, "unsource")
    <3>1. /\ pc = "unencode" /\ pc' \in {"unencode", "unsource", "failed"} /\ sdk' \subseteq sdk
          /\ pc' = "unsource" =>
               \A w \in {"encoder", "group"}, c \in enable : <<w, c>> \notin sdk'
      BY <2>1, ReleaseRemoves DEF S!PerEncoder, S!ChannelAndGroup
    <3>2. pc' = "unsource" => \A k \in sdk' : k[1] \notin {"encoder", "group"}
      <4> SUFFICES ASSUME pc' = "unsource", NEW k \in sdk', k[1] \in {"encoder", "group"}
                   PROVE FALSE
        OBVIOUS
      <4>1. k = <<k[1], k[2]>> /\ k[2] \in enable
        BY <3>1
      <4> QED BY <3>1, <4>1
    <3>3. UNCHANGED late
      BY <1>17 DEF S!ReleaseEncoders
    <3> QED BY <3>1, <3>2, <3>3
  <2>2. CASE S!Release("unsource", {"source"}, "unsystem")
    <3>1. /\ pc = "unsource" /\ pc' \in {"unsource", "unsystem", "failed"} /\ sdk' \subseteq sdk
          /\ pc' = "unsystem" => \A c \in enable : <<"source", c>> \notin sdk'
      BY <2>2, ReleaseRemoves
    <3>2. pc' = "unsystem" => \A k \in sdk' : k[1] # "source"
      <4> SUFFICES ASSUME pc' = "unsystem", NEW k \in sdk', k[1] = "source"
                   PROVE FALSE
        OBVIOUS
      <4>1. k = <<k[1], k[2]>> /\ k[2] \in enable
        BY <3>1
      <4> QED BY <3>1, <4>1
    <3>3. UNCHANGED late
      BY <1>17 DEF S!ReleaseEncoders
    <3> QED BY <3>1, <3>2, <3>3
  <2> QED BY <1>17, <2>1, <2>2 DEF S!ReleaseEncoders
<1>18. CASE S!ReleaseBoard
  BY <1>18 DEF S!ReleaseBoard
<1>19. CASE S!Check
  BY <1>19 DEF S!Check
<1>20. CASE S!Stamp
  BY <1>20 DEF S!Stamp
<1>21. CASE S!Read
  BY <1>21 DEF S!Read
<1>22. CASE S!ParseFps
  BY <1>22 DEF S!ParseFps, S!PastAdjusting
<1>23. CASE S!ClearStreams
  BY <1>23 DEF S!ClearStreams, S!PastAdjusting
<1>24. CASE S!FillStreams
  BY <1>24 DEF S!FillStreams, S!PastAdjusting
<1>25. CASE S!Edit
  BY <1>25 DEF S!Edit
<1>26. CASE UNCHANGED S!streamerVars
  BY <1>26 DEF S!streamerVars
<1> QED BY <1>1, <1>2, <1>3, <1>4, <1>5, <1>6, <1>7, <1>8, <1>9, <1>10, <1>11, <1>12, <1>13,
    <1>14, <1>15, <1>16, <1>17, <1>18, <1>19, <1>20, <1>21, <1>22, <1>23, <1>24, <1>25, <1>26
  DEF S!Next, S!Main, S!Monitor

LEMMA LeftFollows == SdkInv /\ LeftInv => S!NothingLeft
<1> SUFFICES ASSUME SdkInv, LeftInv, pc = "ended", ~late, NEW k \in sdk
             PROVE  k \in {"direct", "bound"} \X Chans
  BY DEF S!NothingLeft
<1>1. k = <<k[1], k[2]>> /\ k[1] \in {"direct", "bound"}
  BY DEF SdkInv, LeftInv
<1>2. k[2] \in Chans
  BY <1>1 DEF SdkInv, PerChannel
<1> QED BY <1>1, <1>2

(* main.c:1061-1212: an exit no reload disturbed gives back all that main    *)
(* acquired but direct bindings and bindings whose removal failed, whichever *)
(* of the calls that set it up had failed.                                   *)
THEOREM ExitLeavesNothing == ProcessSpec => []NothingLeft
<1>1. ProcessInit => SdkInv /\ LeftInv
  BY SdkInitially DEF ProcessInit
<1>2. SdkInv /\ LeftInv /\ [ProcessNext]_processVars => (SdkInv /\ LeftInv)'
  BY StepsOfParts, SdkKept, LeftKept
<1>3. SdkInv /\ LeftInv => NothingLeft
  BY LeftFollows DEF NothingLeft
<1> QED BY <1>1, <1>2, <1>3, PTL DEF ProcessSpec

-----------------------------------------------------------------------------
(* The display: contexts, regions, clocks and boxes (osd_module.c).        *)

(* How many streams there are.                                               *)
Count == Cardinality(Streams)

(* The sizes of the module of the display are those of the library.          *)
LEMMA OsdCardinality ==
  ASSUME NEW T
  PROVE  O!Cardinality(T) = Cardinality(T) /\ O!IsFiniteSet(T) = IsFiniteSet(T)
<1>1. O!Cardinality(T) = Cardinality(T)
  BY DEF O!Cardinality, Cardinality
<1>2. O!IsFiniteSet(T) = IsFiniteSet(T)
  BY DEF O!IsFiniteSet, IsFiniteSet
<1> QED BY <1>1, <1>2

(* Streams are numbered from zero.                                           *)
LEMMA StreamsAreNumbered ==
  Count \in Nat /\ Streams = 0..(Count - 1) /\ O!Cardinality(Streams) = Count
BY StreamsAssumption, FS_CardinalityType, OsdCardinality DEF O!StreamsAssumption, Count

(* How far main may be.                                                      *)
Stages == {"boot", "zones", "run", "unpublish", "regions", "release", "join", "over", "killed"}

(* Who may use a context: a published one is live, main publishes them in    *)
(* order at boot and takes them back in order at exit; the timer looks at    *)
(* the context of a stream, and what it looks at or draws on was live and is *)
(* still allocated.                                                          *)
ContextInv ==
  /\ main \in Stages \X Nat
  /\ published \subseteq Streams /\ DOMAIN memory = Streams
  /\ \A s \in published : memory[s] = "live"
  /\ main[1] = "boot" => timer = "off" /\ \A s \in published : s < main[2]
  /\ main[1] \in {"unpublish", "regions", "release"} => \A s \in published : s >= main[2]
  /\ main[1] \in {"regions", "release"} => 
       main[2] \in Streams \ published /\ memory[main[2]] = "live"
  /\ main[1] \in {"join", "over"} => published = {}
  /\ timer \in {"off", "look", "peek", "update", "asleep", "ended", "killed"} \cup O!Drawing
  /\ chan \in Nat
  /\ timer \in {"peek", "update"} \cup O!Drawing =>
       chan \in Streams /\ memory[chan] \in {"live", "lost"}

LEMMA ContextInitially == O!Init => ContextInv
BY DEF O!Init, ContextInv, Stages, O!Drawing

LEMMA ContextKept == ContextInv /\ [O!Next]_(O!osdVars) => ContextInv'
<1> SUFFICES ASSUME ContextInv, [O!Next]_(O!osdVars) PROVE ContextInv'
  OBVIOUS
<1> USE StreamsAreNumbered DEF ContextInv, Stages, O!Drawing, O!Passed, O!Killed, O!treeVars, O!timerVars
<1>1. ASSUME NEW s \in Streams, O!Skip(s) PROVE ContextInv'
  BY <1>1 DEF O!Skip, O!Booting
<1>2. ASSUME NEW s \in Streams, O!InitFailsEarly(s) \/ O!FormatRejected(s) \/ O!InitFailsLate(s) PROVE ContextInv'
  <2>1. /\ main = <<"boot", s>> /\ main' = <<"boot", s + 1>>
        /\ UNCHANGED <<published, timer, chan>>
        /\ memory' = [memory EXCEPT ![s] = "freed"]
    BY <1>2 DEF O!InitFailsEarly, O!FormatRejected, O!InitFailsLate, O!Booting, O!Undone
  <2>2. s \notin published
    BY <2>1
  <2> QED BY <2>1, <2>2
<1>3. ASSUME NEW s \in Streams, O!InitStream(s) PROVE ContextInv'
  <2>1. /\ main = <<"boot", s>> /\ main' = <<"boot", s + 1>>
        /\ UNCHANGED <<timer, chan>>
        /\ memory' = [memory EXCEPT ![s] = "live"]
        /\ published' = published \cup {s}
    BY <1>3 DEF O!InitStream, O!Booting
  <2>2. timer = "off"
    BY <2>1
  <2> QED BY <2>1, <2>2
<1>4. ASSUME NEW s \in Streams, O!UpdateZones(s) PROVE ContextInv'
  BY <1>4 DEF O!UpdateZones
<1>5. ASSUME NEW s \in Streams, O!Watch(s) PROVE ContextInv'
  BY <1>5 DEF O!Watch
<1>6. ASSUME NEW s \in Streams, O!Unpublish(s) PROVE ContextInv'
  BY <1>6 DEF O!Unpublish
<1>7. ASSUME NEW s \in Streams, O!DestroyRegions(s) PROVE ContextInv'
  BY <1>7 DEF O!DestroyRegions
<1>8. ASSUME NEW s \in Streams, O!Release(s) PROVE ContextInv'
  BY <1>8 DEF O!Release
<1>9. CASE O!Start
  BY <1>9 DEF O!Start
<1>10. CASE O!Running
  BY <1>10 DEF O!Running
<1>11. CASE O!Quit
  BY <1>11 DEF O!Quit
<1>12. CASE O!StopTimer
  BY <1>12 DEF O!StopTimer
<1>13. CASE O!Join
  BY <1>13 DEF O!Join
<1>14. CASE O!Look
  BY <1>14 DEF O!Look
<1>15. CASE O!Peek \/ O!Update
  <2>1. /\ UNCHANGED <<published, memory>> /\ timer # "off"
        /\ chan \in Streams => chan' \in {chan, chan + 1}
        /\ main' \in {main, <<"killed", 0>>}
    <3>1. CASE O!Peek
      BY <3>1 DEF O!Peek
    <3>2. CASE O!Update
      BY <3>2 DEF O!Update
    <3> QED BY <1>15, <3>1, <3>2
  <2> QED BY <1>15, <2>1 DEF O!Peek, O!Update
<1>16. CASE O!Draw \/ O!Render \/ O!Show
  BY <1>16 DEF O!Draw, O!Render, O!Show
<1>17. CASE O!Sleep \/ O!Wake
  <2>1. /\ UNCHANGED <<main, published, memory>>
        /\ timer \in {"look", "asleep"} /\ timer' \in {"asleep", "look", "ended"}
        /\ chan' \in {chan, 0}
    BY <1>17 DEF O!Sleep, O!Wake
  <2> QED BY <2>1
<1>18. CASE O!Tick
  BY <1>18 DEF O!Tick
<1>19. CASE UNCHANGED O!osdVars
  BY <1>19 DEF O!osdVars
<1> QED BY <1>1, <1>2, <1>3, <1>4, <1>5, <1>6, <1>7, <1>8, <1>9, <1>10, <1>11, <1>12, <1>13,
    <1>14, <1>15, <1>16, <1>17, <1>18, <1>19 DEF O!Next

(* The regions of a stream are regions.                                      *)
LEMMA WantedKinds ==
  ASSUME NEW s
  PROVE  O!Wanted(s) \in Seq(O!Kinds)
<1> DEFINE K == O!Kinds
<1>1. {"font", "logo", "info", "time"} \subseteq K
  BY DEF O!Kinds
<1>2. ZoneRegions \in Seq(STRING)
  BY StreamsAssumption DEF O!StreamsAssumption
<1>3. \A i \in 1..Len(ZoneRegions) : ZoneRegions[i] \in K
  <2> SUFFICES ASSUME NEW i \in 1..Len(ZoneRegions) PROVE ZoneRegions[i] \in O!ToSet(ZoneRegions)
    BY DEF O!Kinds
  <2> QED BY <1>2 DEF O!ToSet
<1>4. ZoneRegions \in Seq(K)
  BY <1>2, <1>3, SeqDef
<1> HIDE DEF K
<1>5. /\ <<"font">> \in Seq(K)
      /\ (IF config[s].logo THEN <<"logo">> ELSE << >>) \in Seq(K)
      /\ (IF config[s].info THEN <<"info">> ELSE << >>) \in Seq(K)
      /\ (IF config[s].zones THEN ZoneRegions ELSE << >>) \in Seq(K)
  BY <1>1, <1>4
<1> QED BY <1>5 DEF O!Wanted, K

(* A part of a list has no elements of its own.                              *)
LEMMA ToSetOfPart ==
  ASSUME NEW T, NEW q \in Seq(T), NEW n \in 0..Len(q)
  PROVE  O!ToSet(q) \subseteq T /\ O!ToSet(SubSeq(q, 1, n)) \subseteq T
BY DEF O!ToSet

(* Every region in the SDK is a clock, or was made by an initialisation that *)
(* failed, or its context still holds its handle and is about to give it     *)
(* back; so is every context in use and every font loaded, unless the        *)
(* process was killed.                                                       *)
RegionsInv ==
  /\ made \subseteq Streams \X O!Kinds /\ DOMAIN handle = Streams
  /\ \A k \in made :
       \/ k[2] = "time"
       \/ k[1] \in failed
       \/ /\ k[2] \in handle[k[1]]
          /\ k[1] \in published \/ main = <<"regions", k[1]>> \/ main[1] = "killed"
  /\ font \subseteq Streams
  /\ \A s \in Streams :
       s \in font \/ memory[s] = "live" =>
         \/ s \in published \/ main[1] = "killed"
         \/ main[1] \in {"regions", "release"} /\ main[2] = s

LEMMA RegionsInitially == O!Init => RegionsInv
BY DEF O!Init, RegionsInv

LEMMA RegionsKept == ContextInv /\ RegionsInv /\ [O!Next]_(O!osdVars) => RegionsInv'
<1> SUFFICES ASSUME ContextInv, RegionsInv, [O!Next]_(O!osdVars) PROVE RegionsInv'
  OBVIOUS
<1> USE StreamsAreNumbered DEF ContextInv, RegionsInv, Stages, O!Drawing, O!Passed, O!Killed, O!treeVars, O!timerVars
<1>1. ASSUME NEW s \in Streams, O!Skip(s) \/ O!UpdateZones(s) \/ O!Watch(s) PROVE RegionsInv'
  BY <1>1 DEF O!Skip, O!Booting, O!UpdateZones, O!Watch
<1>2. ASSUME NEW s \in Streams, O!InitFailsEarly(s) \/ O!FormatRejected(s) PROVE RegionsInv'
  BY <1>2 DEF O!InitFailsEarly, O!FormatRejected, O!Booting, O!Undone
<1>3. ASSUME NEW s \in Streams, O!InitFailsLate(s) PROVE RegionsInv'
  <2>1. /\ main = <<"boot", s>> /\ main' = <<"boot", s + 1>>
        /\ s \notin published
    BY <1>3 DEF O!InitFailsLate, O!Booting
  <2>2. PICK n \in 0..Len(O!Wanted(s)), clock \in SUBSET {"time"} :
          made' = made \cup O!Regions(s, O!ToSet(SubSeq(O!Wanted(s), 1, n)) \cup clock)
    BY <1>3, Zenon DEF O!InitFailsLate
  <2> DEFINE new == O!ToSet(SubSeq(O!Wanted(s), 1, n)) \cup clock
  <2>3. new \subseteq O!Kinds
    <3>1. O!Wanted(s) \in Seq(O!Kinds) /\ "time" \in O!Kinds
      BY WantedKinds DEF O!Kinds
    <3> QED BY <3>1, ToSetOfPart
  <2>4. /\ UNCHANGED <<published, handle, font>> /\ failed' = failed \cup {s}
        /\ memory' = [memory EXCEPT ![s] = "freed"]
    BY <1>3 DEF O!InitFailsLate, O!Undone
  <2> HIDE DEF new
  <2>5. \A k \in made' : k \in made \/ (k \in Streams \X O!Kinds /\ k[1] = s)
    BY <2>2, <2>3 DEF O!Regions, new
  <2> QED BY <2>1, <2>4, <2>5
<1>4. ASSUME NEW s \in Streams, O!InitStream(s) PROVE RegionsInv'
  <2>1. /\ main = <<"boot", s>> /\ main' = <<"boot", s + 1>>
        /\ s \notin published
    BY <1>4 DEF O!InitStream, O!Booting
  <2>2. PICK clock \in SUBSET {"time"} :
          /\ handle' = [handle EXCEPT ![s] = O!ToSet(O!Wanted(s)) \cup clock]
          /\ made' = made \cup O!Regions(s, O!ToSet(O!Wanted(s)) \cup clock)
    BY <1>4 DEF O!InitStream
  <2> DEFINE ks == O!ToSet(O!Wanted(s)) \cup clock
  <2>3. ks \subseteq O!Kinds
    <3>1. O!Wanted(s) \in Seq(O!Kinds) /\ "time" \in O!Kinds
      BY WantedKinds DEF O!Kinds
    <3> QED BY <3>1, ToSetOfPart
  <2>4. /\ published' = published \cup {s} /\ UNCHANGED failed /\ font' = font \cup {s}
        /\ memory' = [memory EXCEPT ![s] = "live"]
    BY <1>4 DEF O!InitStream
  <2>5. handle' = [handle EXCEPT ![s] = ks] /\ made' = made \cup O!Regions(s, ks)
    BY <2>2
  <2> HIDE DEF ks
  <2>6. \A k \in made' : k \notin made => (k \in Streams \X O!Kinds /\ k[1] = s /\ k[2] \in ks)
    BY <2>3, <2>5 DEF O!Regions
  <2> QED BY <2>1, <2>4, <2>5, <2>6
<1>6. ASSUME NEW s \in Streams, O!Unpublish(s) PROVE RegionsInv'
  BY <1>6 DEF O!Unpublish
<1>7. ASSUME NEW s \in Streams, O!DestroyRegions(s) PROVE RegionsInv'
  BY <1>7 DEF O!DestroyRegions, O!Swept, O!Regions
<1>8. ASSUME NEW s \in Streams, O!Release(s) PROVE RegionsInv'
  BY <1>8 DEF O!Release
<1>9. CASE O!Start \/ O!Running \/ O!Quit \/ O!StopTimer \/ O!Join
  <2>1. /\ UNCHANGED <<published, failed, made, handle, font, memory>>
        /\ main[1] \notin {"regions", "release"}
        /\ main'[1] # "killed" => main[1] # "killed"
    BY <1>9 DEF O!Start, O!Running, O!Quit, O!StopTimer, O!Join
  <2>2. main[1] # "killed"
    BY <1>9 DEF O!Start, O!Running, O!Quit, O!StopTimer, O!Join
  <2> QED BY <2>1, <2>2
<1>10. CASE \/ O!Look \/ O!Peek \/ O!Update \/ O!Draw \/ O!Render \/ O!Show
             \/ O!Sleep \/ O!Wake \/ O!Tick
  <2>1. /\ UNCHANGED <<published, failed, made, handle, font, memory>>
        /\ main' = main \/ main' = <<"killed", 0>>
    BY <1>10 DEF O!Look, O!Peek, O!Update, O!Draw, O!Render, O!Show, O!Sleep, O!Wake, O!Tick
  <2> QED BY <2>1
<1>11. CASE UNCHANGED O!osdVars
  BY <1>11 DEF O!osdVars
<1> QED BY <1>1, <1>2, <1>3, <1>4, <1>6, <1>7, <1>8, <1>9, <1>10, <1>11 DEF O!Next

LEMMA CleanupFollows == ContextInv /\ RegionsInv => O!CleanupSound
<1> SUFFICES ASSUME ContextInv, RegionsInv PROVE O!CleanupSound
  OBVIOUS
<1>1. O!RegionsReleased
  BY DEF ContextInv, RegionsInv, O!RegionsReleased
<1>2. O!ContextsReleased
  BY DEF ContextInv, RegionsInv, O!ContextsReleased
<1> QED BY <1>1, <1>2 DEF O!CleanupSound

(* osd_module.c:1518-1592, 1991-2005: an exit that comes to its end, beside a *)
(* timer in the middle of a drawing or not, leaves in the SDK only clocks and *)
(* what failed initialisations had made, no context in use and no font.       *)
THEOREM CleanupStaysSound == ProcessSpec => []CleanupSound
<1>1. ProcessInit => ContextInv /\ RegionsInv
  BY ContextInitially, RegionsInitially DEF ProcessInit
<1>2. ContextInv /\ RegionsInv /\ [ProcessNext]_processVars => (ContextInv /\ RegionsInv)'
  BY StepsOfParts, ContextKept, RegionsKept
<1>3. ContextInv /\ RegionsInv => CleanupSound
  BY CleanupFollows DEF CleanupSound
<1> QED BY <1>1, <1>2, <1>3, PTL DEF ProcessSpec

(* Who left the text that the streams share: a stream whose turn it was in this *)
(* second, and whose clock shows the same.                                     *)
LeftText(r) ==
  /\ memory[r] \in {"live", "lost"} /\ config[r].time
  /\ turn[r].at = now /\ O!Text(config[r].format, now) = last.text

(* Within a round of the timer: the streams whose turn it was come before    *)
(* the current one, and a text of this second in the shared cache was left   *)
(* there by one of them.                                                     *)
ClockInv ==
  /\ now \in Nat \ {0} /\ last.at \in Nat
  /\ DOMAIN shown = Streams /\ turn \in [Streams -> [at : Nat, done : BOOLEAN]]
  /\ \A s \in Streams : turn[s].at # 0 => s < chan \/ (s = chan /\ timer \in O!Drawing \cup {"killed"})
  /\ \A s \in Streams : turn[s].at = 0 => ~turn[s].done
  /\ \A s \in Streams : turn[s].at <= now
  /\ last.at <= now
  /\ timer = "off" => last.at = 0 /\ \A s \in Streams : turn[s].at = 0
  /\ last.at = now => \E r \in Streams : LeftText(r)
  /\ timer \in O!Drawing => turn[chan].at # 0
  /\ timer \in O!Drawing => last.text = O!Text(config[chan].format, turn[chan].at)

(* What the theorem says, in the middle of a round as well.                  *)
TurnInv ==
  \A s \in Streams :
    (turn[s].done /\ \A r \in Streams : ~O!Twins(s, r))
      => shown[s] = O!Text(config[s].format, turn[s].at)

LEMMA ClockInitially == O!Init => ClockInv /\ TurnInv
BY DEF O!Init, ClockInv, TurnInv, O!NoTurn, O!Drawing

LEMMA ClockKept == ContextInv /\ ClockInv /\ [O!Next]_(O!osdVars) => ClockInv'
<1> SUFFICES ASSUME ContextInv, ClockInv, [O!Next]_(O!osdVars) PROVE ClockInv'
  OBVIOUS
<1> USE StreamsAreNumbered DEF ContextInv, ClockInv, LeftText, Stages, O!Drawing, O!treeVars, O!timerVars
<1>1. ASSUME NEW s \in Streams, O!Skip(s) \/ O!UpdateZones(s) \/ O!Watch(s) PROVE ClockInv'
  <2>1. UNCHANGED <<now, last, shown, turn, chan, timer, memory, config>>
    BY <1>1 DEF O!Skip, O!Booting, O!UpdateZones, O!Watch
  <2> QED BY <2>1
<1>2. ASSUME NEW s \in Streams,
             O!InitFailsEarly(s) \/ O!FormatRejected(s) \/ O!InitFailsLate(s) \/ O!InitStream(s)
      PROVE ClockInv'
  <2>1. /\ UNCHANGED <<now, last, shown, turn, chan, timer>> /\ main = <<"boot", s>>
    BY <1>2 DEF O!InitFailsEarly, O!FormatRejected, O!InitFailsLate, O!InitStream, O!Booting,
       O!Undone
  <2> QED BY <2>1
<1>3. ASSUME NEW s \in Streams, O!Unpublish(s) \/ O!DestroyRegions(s) PROVE ClockInv'
  <2>1. UNCHANGED <<now, last, shown, turn, chan, timer, memory, config>>
    BY <1>3 DEF O!Unpublish, O!DestroyRegions
  <2> QED BY <2>1
<1>4. ASSUME NEW s \in Streams, O!Release(s) PROVE ClockInv'
  <2>1. /\ UNCHANGED <<now, last, shown, turn, chan, timer, config>>
        /\ memory' = [memory EXCEPT ![s] = "lost"]
    BY <1>4 DEF O!Release
  <2> QED BY <2>1
<1>5. CASE O!Start \/ O!Running \/ O!Quit \/ O!StopTimer \/ O!Join
  <2>1. /\ UNCHANGED <<now, last, shown, turn, chan, memory, config>>
        /\ timer' = timer \/ timer' = "asleep"
    BY <1>5 DEF O!Start, O!Running, O!Quit, O!StopTimer, O!Join
  <2>2. \A s \in Streams : turn[s].at # 0 => timer # "off"
    OBVIOUS
  <2>3. timer' # timer => timer = "off"
    BY <1>5 DEF O!Start, O!Running, O!Quit, O!StopTimer, O!Join
  <2> QED BY <2>1, <2>2, <2>3
<1>6. CASE O!Look \/ O!Peek
  <2>1. /\ UNCHANGED <<now, last, shown, turn, memory, config>>
        /\ timer \in {"look", "peek"} /\ timer' \in {"look", "peek", "update", "killed"}
        /\ chan' \in {chan, chan + 1}
    BY <1>6 DEF O!Look, O!Peek, O!Passed, O!Killed
  <2>2. \A s \in Streams : turn[s].at # 0 => s < chan'
    BY <2>1
  <2> QED BY <2>1, <2>2
<1>7. CASE O!Update
  <2> DEFINE t == O!Text(config[chan].format, now)
  <2>1. timer = "update" /\ chan \in Streams /\ UNCHANGED <<now, shown, memory, config>>
    BY <1>7 DEF O!Update
  <2>2. CASE chan \notin published \/ ~config[chan].time
    <3>1. timer' = "look" /\ chan' = chan + 1 /\ UNCHANGED <<last, turn>>
      BY <1>7, <2>2 DEF O!Update, O!Passed
    <3> QED BY <2>1, <3>1
  <2>3. CASE chan \in published /\ config[chan].time
    <3>1. /\ turn' = [turn EXCEPT ![chan] = [at |-> now, done |-> ~O!Changed(t)]]
          /\ IF O!Changed(t)
             THEN last' = [at |-> now, text |-> t] /\ timer' = "draw" /\ UNCHANGED chan
             ELSE timer' = "look" /\ chan' = chan + 1 /\ UNCHANGED last
      BY <1>7, <2>3 DEF O!Update, O!Passed
    <3>2. ~O!Changed(t) => last.at = now /\ last.text = t
      BY DEF O!Changed
    <3>3. O!Changed(t) \in BOOLEAN
      BY DEF O!Changed
    <3> HIDE DEF t
    <3>4. /\ turn' \in [Streams -> [at : Nat, done : BOOLEAN]]
          /\ turn'[chan].at = now
          /\ \A s \in Streams \ {chan} : turn'[s] = turn[s]
      BY <2>1, <3>1, <3>3
    <3>5. CASE O!Changed(t)
      <4>1. LeftText(chan)'
        BY <2>1, <2>3, <3>1, <3>4, <3>5 DEF t
      <4> QED BY <2>1, <2>3, <3>1, <3>4, <3>5, <4>1 DEF t
    <3>6. CASE ~O!Changed(t)
      <4>1. PICK r \in Streams : LeftText(r)
        BY <3>2, <3>6
      <4>2. r # chan
        BY <2>1, <4>1
      <4>3. LeftText(r)'
        BY <2>1, <3>1, <3>2, <3>4, <3>6, <4>1, <4>2
      <4>4. \A s \in Streams : turn'[s].at # 0 => s < chan'
        BY <2>1, <3>1, <3>4, <3>6
      <4>5. ASSUME NEW s \in Streams, turn'[s].at = 0 PROVE ~turn'[s].done
        <5>1. s # chan
          BY <2>1, <3>4, <4>5
        <5> QED BY <3>4, <4>5, <5>1
      <4> QED BY <2>1, <3>1, <3>2, <3>4, <3>6, <4>3, <4>4, <4>5
    <3> QED BY <3>5, <3>6
  <2> QED BY <2>2, <2>3
<1>d. CASE O!Draw \/ O!Render
  <2>1. /\ UNCHANGED <<now, last, shown, turn, memory, config>> /\ timer \in O!Drawing
        /\ \/ timer' \in O!Drawing /\ chan' = chan
           \/ timer' = "look" /\ chan' = chan + 1
           \/ timer' = "killed" /\ chan' = chan
    BY <1>d DEF O!Draw, O!Render, O!Passed, O!Killed
  <2> QED BY <2>1
<1>8. CASE O!Show
  <2>1. /\ timer = "show" /\ timer' = "look" /\ chan' = chan + 1
        /\ UNCHANGED <<now, last, memory, config>>
        /\ DOMAIN shown' = Streams
        /\ turn' = turn \/ turn' = [turn EXCEPT ![chan].done = TRUE]
    BY <1>8 DEF O!Show, O!Passed
  <2>2. /\ turn' \in [Streams -> [at : Nat, done : BOOLEAN]]
        /\ \A s \in Streams : turn'[s].at = turn[s].at
        /\ \A s \in Streams : turn'[s].done = turn[s].done \/ s = chan
    <3>1. turn[chan] \in [at : Nat, done : BOOLEAN]
      BY <2>1
    <3>2. /\ [turn[chan] EXCEPT !.done = TRUE] \in [at : Nat, done : BOOLEAN]
          /\ [turn[chan] EXCEPT !.done = TRUE].at = turn[chan].at
      BY <3>1
    <3>3. CASE turn' = [turn EXCEPT ![chan] = [turn[chan] EXCEPT !.done = TRUE]]
      BY <2>1, <3>2, <3>3
    <3>4. CASE turn' = turn
      BY <3>4
    <3> QED BY <2>1, <3>3, <3>4
  <2>3. turn[chan].at # 0 => \A s \in Streams : turn'[s].at = 0 => ~turn'[s].done
    BY <2>2
  <2>4. \A s \in Streams : turn'[s].at # 0 => s < chan'
    BY <2>1, <2>2
  <2>5. last'.at = now' => \E r \in Streams : LeftText(r)'
    BY <2>1, <2>2
  <2> QED BY <2>1, <2>2, <2>3, <2>4, <2>5
<1>9. CASE O!Sleep
  BY <1>9 DEF O!Sleep
<1>10. CASE O!Wake
  <2>1. UNCHANGED <<now, last, memory, config, shown>> /\ timer = "asleep"
    BY <1>10 DEF O!Wake
  <2>2. CASE flag
    <3>1. /\ \A s \in Streams : turn[s].at < now
          /\ timer' = "look" /\ chan' = 0
          /\ turn' = [s \in Streams |-> [at |-> 0, done |-> FALSE]]
      BY <1>10, <2>2 DEF O!Wake, O!NoTurn
    <3>2. last.at # now
      BY <3>1
    <3> QED BY <2>1, <3>1, <3>2
  <2>3. CASE ~flag
    <3>1. timer' = "ended" /\ UNCHANGED <<chan, turn>>
      BY <1>10, <2>3 DEF O!Wake
    <3> QED BY <2>1, <3>1
  <2> QED BY <2>2, <2>3
<1>11. CASE O!Tick
  BY <1>11 DEF O!Tick
<1>12. CASE UNCHANGED O!osdVars
  BY <1>12 DEF O!osdVars
<1> QED BY <1>1, <1>2, <1>3, <1>4, <1>5, <1>6, <1>7, <1>d, <1>8, <1>9, <1>10, <1>11, <1>12 DEF O!Next

LEMMA TurnKept == ContextInv /\ ClockInv /\ TurnInv /\ [O!Next]_(O!osdVars) => TurnInv'
<1> SUFFICES ASSUME ContextInv, ClockInv, TurnInv, [O!Next]_(O!osdVars) PROVE TurnInv'
  OBVIOUS
<1> USE StreamsAreNumbered DEF ContextInv, ClockInv, LeftText, TurnInv, O!Twins, Stages, O!Drawing, O!treeVars, O!timerVars
<1>1. ASSUME NEW s \in Streams, O!Skip(s) \/ O!UpdateZones(s) \/ O!Watch(s) PROVE TurnInv'
  <2>1. UNCHANGED <<now, last, shown, turn, chan, timer, memory, config>>
    BY <1>1 DEF O!Skip, O!Booting, O!UpdateZones, O!Watch
  <2> QED BY <2>1
<1>2. ASSUME NEW s \in Streams,
             O!InitFailsEarly(s) \/ O!FormatRejected(s) \/ O!InitFailsLate(s) \/ O!InitStream(s)
      PROVE TurnInv'
  <2>1. /\ UNCHANGED <<now, last, shown, turn, chan, timer>> /\ main = <<"boot", s>>
    BY <1>2 DEF O!InitFailsEarly, O!FormatRejected, O!InitFailsLate, O!InitStream, O!Booting,
       O!Undone
  <2> QED BY <2>1
<1>3. ASSUME NEW s \in Streams, O!Unpublish(s) \/ O!DestroyRegions(s) PROVE TurnInv'
  <2>1. UNCHANGED <<now, last, shown, turn, chan, timer, memory, config>>
    BY <1>3 DEF O!Unpublish, O!DestroyRegions
  <2> QED BY <2>1
<1>4. ASSUME NEW s \in Streams, O!Release(s) PROVE TurnInv'
  <2>1. /\ UNCHANGED <<now, last, shown, turn, chan, timer, config>>
        /\ memory' = [memory EXCEPT ![s] = "lost"] /\ memory[s] = "live"
    BY <1>4 DEF O!Release
  <2>2. \A r \in Streams :
          memory[r] \in {"live", "lost"} <=> memory'[r] \in {"live", "lost"}
    BY <2>1
  <2>3. \A q, r \in Streams : O!Twins(q, r)' <=> O!Twins(q, r)
    BY <2>1, <2>2
  <2> HIDE DEF O!Twins
  <2> QED BY <2>1, <2>3
<1>5. CASE O!Start \/ O!Running \/ O!Quit \/ O!StopTimer \/ O!Join
  <2>1. /\ UNCHANGED <<now, last, shown, turn, chan, memory, config>>
    BY <1>5 DEF O!Start, O!Running, O!Quit, O!StopTimer, O!Join
  <2> QED BY <2>1
<1>6. CASE O!Look \/ O!Peek \/ O!Draw \/ O!Render \/ O!Sleep \/ O!Tick
  <2>1. UNCHANGED <<shown, turn, memory, config>>
    BY <1>6 DEF O!Look, O!Peek, O!Draw, O!Render, O!Sleep, O!Tick
  <2> QED BY <2>1
<1>7. CASE O!Update
  <2> DEFINE t == O!Text(config[chan].format, now)
  <2>1. timer = "update" /\ chan \in Streams /\ UNCHANGED <<now, shown, memory, config>>
    BY <1>7 DEF O!Update
  <2>2. CASE chan \notin published \/ ~config[chan].time
    <3>1. UNCHANGED turn
      BY <1>7, <2>2 DEF O!Update, O!Passed
    <3> QED BY <2>1, <3>1
  <2>3. CASE chan \in published /\ config[chan].time
    <3>1. turn' = [turn EXCEPT ![chan] = [at |-> now, done |-> ~O!Changed(t)]]
      BY <1>7, <2>3 DEF O!Update, O!Passed
    <3>2. ~O!Changed(t) => last.at = now /\ last.text = t
      BY DEF O!Changed
    <3> HIDE DEF t
    <3>3. /\ turn'[chan].at = now /\ turn'[chan].done = ~O!Changed(t)
          /\ \A s \in Streams \ {chan} : turn'[s] = turn[s]
      BY <2>1, <3>1
    <3>4. ASSUME NEW s \in Streams, s = chan, turn'[s].done
          PROVE  \E r \in Streams : O!Twins(s, r)'
      <4>0. ~O!Changed(t)
        BY <3>3, <3>4
      <4>1. PICK r \in Streams : LeftText(r)
        BY <3>2, <4>0
      <4>2. r # chan
        BY <2>1, <4>1
      <4>3. /\ memory'[r] \in {"live", "lost"} /\ config'[r].time
            /\ O!Text(config'[r].format, now) = t
        BY <2>1, <3>2, <4>0, <4>1
      <4> QED BY <2>1, <3>3, <3>4, <4>2, <4>3 DEF t
    <3>5. \A s \in Streams \ {chan}, r \in Streams : O!Twins(s, r)' <=> O!Twins(s, r)
      BY <2>1, <3>3
    <3> HIDE DEF O!Twins
    <3>6. ASSUME NEW s \in Streams, turn'[s].done, \A r \in Streams : ~O!Twins(s, r)'
          PROVE  shown'[s] = O!Text(config'[s].format, turn'[s].at)
      <4>1. s # chan
        BY <3>4, <3>6
      <4> QED BY <2>1, <3>3, <3>5, <3>6, <4>1
    <3> QED BY <3>6
  <2> QED BY <2>2, <2>3
<1>8. CASE O!Show
  <2>1. /\ timer = "show" /\ UNCHANGED <<memory, config>>
        /\ \/ UNCHANGED <<turn, shown>>
           \/ /\ turn' = [turn EXCEPT ![chan].done = TRUE]
              /\ shown' = [shown EXCEPT ![chan] = last.text]
    BY <1>8 DEF O!Show
  <2>2. /\ \A s \in Streams : turn'[s].at = turn[s].at
        /\ \A s \in Streams \ {chan} : turn'[s].done = turn[s].done /\ shown'[s] = shown[s]
        /\ UNCHANGED <<turn, shown>> \/ shown'[chan] = last.text
    <3>1. turn[chan] \in [at : Nat, done : BOOLEAN] /\ chan \in Streams
      BY <2>1
    <3>2. [turn[chan] EXCEPT !.done = TRUE].at = turn[chan].at
      BY <3>1
    <3>3. CASE UNCHANGED <<turn, shown>>
      BY <3>3
    <3>4. CASE /\ turn' = [turn EXCEPT ![chan] = [turn[chan] EXCEPT !.done = TRUE]]
               /\ shown' = [shown EXCEPT ![chan] = last.text]
      BY <3>1, <3>2, <3>4
    <3> QED BY <2>1, <3>3, <3>4
  <2>3. \A s, r \in Streams : O!Twins(s, r)' <=> O!Twins(s, r)
    BY <2>1, <2>2
  <2> HIDE DEF O!Twins
  <2>4. CASE UNCHANGED <<turn, shown>>
    BY <2>1, <2>3, <2>4
  <2>5. CASE shown'[chan] = last.text
    BY <2>1, <2>2, <2>3, <2>5
  <2> QED BY <2>2, <2>4, <2>5
<1>10. CASE O!Wake
  <2>1. UNCHANGED <<memory, config, shown>> /\ timer = "asleep"
    BY <1>10 DEF O!Wake
  <2>2. CASE flag
    <3>1. turn' = [s \in Streams |-> [at |-> 0, done |-> FALSE]]
      BY <1>10, <2>2 DEF O!Wake, O!NoTurn
    <3> QED BY <2>1, <3>1
  <2>3. CASE ~flag
    <3>1. UNCHANGED turn
      BY <1>10, <2>3 DEF O!Wake
    <3> QED BY <2>1, <3>1
  <2> QED BY <2>2, <2>3
<1>12. CASE UNCHANGED O!osdVars
  BY <1>12 DEF O!osdVars
<1> QED BY <1>1, <1>2, <1>3, <1>4, <1>5, <1>6, <1>7, <1>8, <1>10, <1>12 DEF O!Next

LEMMA RefreshFollows == TurnInv => O!RefreshedUnlessTwin
BY DEF TurnInv, O!RefreshedUnlessTwin

(* osd_module.c:2035-2053: a clock whose turn it was is current, unless the  *)
(* clock of another stream shows the same text: only then is the text that   *)
(* the streams share taken for its own.                                      *)
THEOREM ClocksRefreshed == ProcessSpec => []RefreshedUnlessTwin
<1>1. ProcessInit => ContextInv /\ ClockInv /\ TurnInv
  BY ContextInitially, ClockInitially DEF ProcessInit
<1>2. ContextInv /\ ClockInv /\ TurnInv /\ [ProcessNext]_processVars => (ContextInv /\ ClockInv /\ TurnInv)'
  BY StepsOfParts, ContextKept, ClockKept, TurnKept
<1>3. ContextInv /\ ClockInv /\ TurnInv => RefreshedUnlessTwin
  BY RefreshFollows DEF RefreshedUnlessTwin
<1> QED BY <1>1, <1>2, <1>3, PTL DEF ProcessSpec

(* A zone of a list.                                                         *)
ZoneType == [x : Int, y : Int, w : Nat, h : Nat]

(* The rectangle of a zone on a stream.                                      *)
ZoneBox(s, z) == LET r == O!Scaled(s, z) IN O!Rect(r.x, r.y, r.w, r.h)

(* Where the rectangle of a region comes from: that of a clock from its      *)
(* position, that of a zone from one of the zones shown, which the SDK was   *)
(* given only because something of it is visible.                            *)
Placement(k) ==
  \/ k[2] = "time" /\ O!Valid(config[k[1]].format) /\ box[k] = O!ClockBox(k[1])
  \/ /\ k[2] # "time"
     /\ \E z \in O!ToSet(O!Displayed) : O!Drawable(k[1], z) /\ box[k] = ZoneBox(k[1], z)

(* The rectangles in the SDK, by the configuration and the zones, which do   *)
(* not change; a stream that got a context has a valid format.               *)
BoxInv ==
  /\ config \in Configs /\ zones \in Seq(ZoneType)
  /\ \A s \in Streams : memory[s] \in {"live", "lost"} => O!Valid(config[s].format)
  /\ \A k \in DOMAIN box : k[1] \in Streams /\ Placement(k)

LEMMA BoxInitially == O!Init => BoxInv
<1> SUFFICES ASSUME O!Init PROVE BoxInv
  OBVIOUS
<1>1. config \in Configs /\ memory = [s \in Streams |-> "none"] /\ box = << >>
  BY DEF O!Init
<1>2. PICK zs \in ZoneLists : zones = O!Converted(zs)
  BY DEF O!Init
<1>3. zs \in Seq(ZoneType)
  BY SizesAssumption DEF O!SizesAssumption, ZoneType
<1>4. \A i \in 1..Len(zs) : O!Converted(zs)[i] \in ZoneType
  <2> SUFFICES ASSUME NEW i \in 1..Len(zs) PROVE O!Converted(zs)[i] \in ZoneType
    OBVIOUS
  <2>1. zs[i] \in ZoneType /\ DOMAIN zs = 1..Len(zs)
    BY <1>3
  <2>2. Size[Monitored].w \in Nat /\ Size[Monitored].h \in Nat
    BY SizesAssumption DEF O!SizesAssumption
  <2>3. [zs[i] EXCEPT !.w = Size[Monitored].w, !.h = Size[Monitored].h] \in ZoneType
    BY <2>1, <2>2 DEF ZoneType
  <2> QED BY <2>1, <2>3 DEF O!Converted
<1>5. O!Converted(zs) = [i \in 1..Len(zs) |-> O!Converted(zs)[i]] /\ Len(zs) \in Nat
  BY <1>3 DEF O!Converted
<1>6. zones \in Seq(ZoneType)
  BY <1>2, <1>4, <1>5, SeqDef
<1> QED BY <1>1, <1>6 DEF BoxInv

(* As many zones are shown as there are regions for zones.                   *)
LEMMA DisplayedOfRegions ==
  ASSUME zones \in Seq(ZoneType)
  PROVE  /\ O!Displayed \in Seq(ZoneType)
         /\ DOMAIN O!Displayed \subseteq DOMAIN ZoneRegions
         /\ \A i \in DOMAIN O!Displayed : O!Displayed[i] \in O!ToSet(O!Displayed)
         /\ \A i \in DOMAIN O!Displayed : ZoneRegions[i] # "time"
<1> DEFINE n == IF Len(zones) > Len(ZoneRegions) THEN Len(ZoneRegions) ELSE Len(zones)
<1>1. ZoneRegions \in Seq(STRING) /\ "time" \notin O!ToSet(ZoneRegions)
  BY StreamsAssumption, SizesAssumption DEF O!StreamsAssumption, O!SizesAssumption
<1>2. n \in Nat /\ n <= Len(zones) /\ n <= Len(ZoneRegions)
  BY <1>1
<1>3. O!Displayed = SubSeq(zones, 1, n)
  BY DEF O!Displayed
<1> HIDE DEF n
<1>4. SubSeq(zones, 1, n) \in Seq(ZoneType) /\ DOMAIN SubSeq(zones, 1, n) = 1..n
  BY <1>2
<1>5. DOMAIN ZoneRegions = 1..Len(ZoneRegions)
  BY <1>1
<1>6. \A i \in DOMAIN ZoneRegions : ZoneRegions[i] # "time"
  BY <1>1 DEF O!ToSet
<1> QED BY <1>2, <1>3, <1>4, <1>5, <1>6 DEF O!ToSet

(* A rectangle depends on nothing but the configuration and the zones.       *)
LEMMA SameZones ==
  ASSUME UNCHANGED <<config, zones>>
  PROVE  /\ O!Displayed' = O!Displayed /\ O!System' = O!System
         /\ \A s, z : /\ O!Drawable(s, z)' = O!Drawable(s, z)
                      /\ ZoneBox(s, z)' = ZoneBox(s, z)
<1>1. O!Displayed' = O!Displayed
  BY DEF O!Displayed
<1>2. O!Within(640, 360)' = O!Within(640, 360) /\ O!Within(1280, 720)' = O!Within(1280, 720)
  BY <1>1 DEF O!Within
<1>3. O!System' = O!System
  <2>1. O!Reaching' = O!Reaching
    BY <1>1 DEF O!Reaching
  <2> QED BY <1>1, <1>2, <2>1 DEF O!System
<1>4. \A s, z : O!Scaled(s, z)' = O!Scaled(s, z)
  BY <1>3 DEF O!Scaled
<1> QED BY <1>1, <1>3, <1>4 DEF O!Drawable, ZoneBox

(* A rectangle that stays keeps its reason.                                  *)
LEMMA StaysPlaced ==
  ASSUME UNCHANGED <<config, zones>>, NEW k, Placement(k), box'[k] = box[k]
  PROVE  Placement(k)'
<1>1. CASE k[2] = "time"
  BY <1>1 DEF Placement, O!ClockBox, O!ClockSize, O!Valid
<1>2. CASE k[2] # "time"
  BY <1>2, SameZones DEF Placement
<1> QED BY <1>1, <1>2

LEMMA BoxKept == ContextInv /\ BoxInv /\ [O!Next]_(O!osdVars) => BoxInv'
<1> SUFFICES ASSUME ContextInv, BoxInv, [O!Next]_(O!osdVars) PROVE BoxInv'
  OBVIOUS
<1> USE DEF O!treeVars, O!timerVars
<1> DEFINE Placed == \A s \in Streams : memory'[s] \in {"live", "lost"} => O!Valid(config[s].format)
<1>1. ASSUME UNCHANGED <<config, zones>>, Placed, box' = box PROVE BoxInv'
  BY <1>1, StaysPlaced DEF BoxInv, O!Valid
<1>m. ASSUME UNCHANGED memory PROVE Placed
  BY <1>m DEF BoxInv
<1>2. ASSUME NEW s \in Streams, O!InitStream(s) PROVE BoxInv'
  <2>1. /\ UNCHANGED <<config, zones, box>> /\ O!Valid(config[s].format)
        /\ memory' = [memory EXCEPT ![s] = "live"]
    BY <1>2 DEF O!InitStream
  <2>2. Placed
    BY <2>1 DEF BoxInv, ContextInv
  <2> QED BY <2>1, <2>2, <1>1
<1>3. ASSUME UNCHANGED <<config, zones, memory>>, NEW new,
             DOMAIN box' = DOMAIN box \cup new,
             \A k \in DOMAIN box \ new : box'[k] = box[k],
             \A k \in new : k[1] \in Streams /\ Placement(k)'
      PROVE  BoxInv'
  BY <1>3, <1>m, StaysPlaced DEF BoxInv, O!Valid
<1>4. ASSUME NEW s \in Streams, O!UpdateZones(s) PROVE BoxInv'
  <2>1. UNCHANGED <<config, zones, memory>>
    BY <1>4 DEF O!UpdateZones
  <2>2. CASE s \in published /\ config[s].zones
    <3>1. PICK ok \in SUBSET DOMAIN O!Displayed :
            LET here == {i \in ok : ZoneRegions[i] \in handle[s] /\ O!Drawable(s, O!Displayed[i])}
                new == {<<s, ZoneRegions[i]>> : i \in here}
            IN box' = [k \in DOMAIN box \cup new |->
                         IF k \notin new THEN box[k]
                         ELSE LET i == CHOOSE i \in here : ZoneRegions[i] = k[2]
                                  r == O!Scaled(s, O!Displayed[i])
                              IN O!Rect(r.x, r.y, r.w, r.h)]
      BY <1>4, <2>2 DEF O!UpdateZones
    <3> DEFINE here == {i \in ok : ZoneRegions[i] \in handle[s] /\ O!Drawable(s, O!Displayed[i])}
               new == {<<s, ZoneRegions[i]>> : i \in here}
    <3>2. /\ DOMAIN box' = DOMAIN box \cup new
          /\ \A k \in DOMAIN box \ new : box'[k] = box[k]
          /\ \A k \in new : box'[k] = ZoneBox(s, O!Displayed[CHOOSE i \in here : ZoneRegions[i] = k[2]])
      BY <3>1 DEF ZoneBox
    <3>3. ASSUME NEW k \in new PROVE k[1] \in Streams /\ Placement(k)'
      <4>1. PICK i \in here : k = <<s, ZoneRegions[i]>>
        OBVIOUS
      <4> DEFINE j == CHOOSE x \in here : ZoneRegions[x] = k[2]
      <4>2. j \in here /\ k[1] = s /\ k[2] = ZoneRegions[i]
        BY <4>1
      <4>3. box'[k] = ZoneBox(s, O!Displayed[j])
        BY <3>2
      <4> HIDE DEF j
      <4>4. j \in DOMAIN O!Displayed /\ O!Drawable(s, O!Displayed[j]) /\ i \in DOMAIN O!Displayed
        BY <4>1, <4>2
      <4>5. O!Displayed[j] \in O!ToSet(O!Displayed) /\ ZoneRegions[i] # "time"
        BY <4>4, DisplayedOfRegions DEF BoxInv
      <4>6. O!Displayed' = O!Displayed /\ k[2] # "time"
        BY <2>1, <4>2, <4>5 DEF O!Displayed
      <4>7. \A z : /\ O!Drawable(s, z)' = O!Drawable(s, z)
                   /\ ZoneBox(s, z)' = ZoneBox(s, z)
        BY <2>1, SameZones
      <4> QED BY <4>2, <4>3, <4>4, <4>5, <4>6, <4>7 DEF Placement
    <3> HIDE DEF here, new
    <3> QED BY <2>1, <3>2, <3>3, <1>3
  <2>3. CASE ~ (s \in published /\ config[s].zones)
    <3>1. box' = box
      BY <1>4, <2>3 DEF O!UpdateZones
    <3> QED BY <2>1, <3>1, <1>1, <1>m
  <2> QED BY <2>2, <2>3
<1>5. CASE O!Show
  <2>1. UNCHANGED <<config, zones, memory>> /\ timer = "show"
    BY <1>5 DEF O!Show
  <2>2. CASE box' = box
    BY <2>1, <2>2, <1>1, <1>m
  <2>3. CASE box' = [k \in DOMAIN box \cup {<<chan, "time">>} |->
                       IF k = <<chan, "time">> THEN O!ClockBox(chan) ELSE box[k]]
    <3>1. PICK s \in Streams : s = chan /\ memory[s] \in {"live", "lost"}
      BY <2>1 DEF ContextInv, O!Drawing
    <3> DEFINE key == <<s, "time">>
               new == {key}
    <3>2. /\ DOMAIN box' = DOMAIN box \cup new
          /\ \A k \in DOMAIN box \ new : box'[k] = box[k]
          /\ box'[key] = O!ClockBox(s)
      BY <2>3, <3>1
    <3>3. s \in Streams /\ O!Valid(config[s].format)
      BY <3>1 DEF BoxInv
    <3>4. key[1] = s /\ key[2] = "time"
      OBVIOUS
    <3>5. O!ClockBox(s)' = O!ClockBox(s) /\ O!Valid(config[s].format)'
      BY <2>1, <3>3 DEF O!ClockBox, O!ClockSize, O!Valid
    <3> HIDE DEF key
    <3>6. Placement(key)'
      BY <3>2, <3>4, <3>5 DEF Placement
    <3>7. \A k \in new : k[1] \in Streams /\ Placement(k)'
      BY <3>3, <3>4, <3>6
    <3> HIDE DEF new
    <3> QED BY <2>1, <3>2, <3>7, <1>3
  <2> QED BY <1>5, <2>2, <2>3 DEF O!Show
<1>6. ASSUME NEW s \in Streams,
             \/ O!Skip(s) \/ O!InitFailsEarly(s) \/ O!FormatRejected(s) \/ O!InitFailsLate(s)
             \/ O!Watch(s) \/ O!Unpublish(s) \/ O!DestroyRegions(s) \/ O!Release(s)
      PROVE  BoxInv'
  <2>1. UNCHANGED <<config, zones, box>>
    BY <1>6 DEF O!Skip, O!InitFailsEarly, O!FormatRejected, O!InitFailsLate, O!Undone, O!Watch,
                O!Unpublish, O!DestroyRegions, O!Release
  <2>2. \/ UNCHANGED memory \/ memory' = [memory EXCEPT ![s] = "freed"]
        \/ main = <<"release", s>> /\ memory' = [memory EXCEPT ![s] = "lost"]
    BY <1>6 DEF O!Skip, O!InitFailsEarly, O!FormatRejected, O!InitFailsLate, O!Undone, O!Watch,
                O!Unpublish, O!DestroyRegions, O!Release
  <2>3. main = <<"release", s>> => O!Valid(config[s].format)
    BY DEF BoxInv, ContextInv
  <2>4. Placed
    BY <2>2, <2>3 DEF BoxInv, ContextInv
  <2> QED BY <2>1, <2>4, <1>1
<1>7. CASE O!Start \/ O!Running \/ O!Quit \/ O!StopTimer \/ O!Join \/ O!Tick
  <2>1. UNCHANGED <<config, zones, box, memory>>
    BY <1>7 DEF O!Start, O!Running, O!Quit, O!StopTimer, O!Join, O!Tick
  <2> QED BY <2>1, <1>1, <1>m
<1>8. CASE \/ O!Look \/ O!Peek \/ O!Update \/ O!Draw \/ O!Render \/ O!Sleep \/ O!Wake
            \/ UNCHANGED O!osdVars
  <2>1. UNCHANGED <<config, zones, box, memory>>
    BY <1>8 DEF O!Look, O!Peek, O!Update, O!Draw, O!Render, O!Sleep, O!Wake, O!osdVars
  <2> QED BY <2>1, <1>1, <1>m
<1> QED BY <1>2, <1>4, <1>5, <1>6, <1>7, <1>8 DEF O!Next

(* parse_position keeps a text that fits inside the picture, whatever the    *)
(* position, also one counted from the right or the bottom.                  *)
LEMMA ClockPlaced ==
  ASSUME NEW p \in Int, NEW len \in Nat \ {0}, NEW limit \in Nat, len <= limit
  PROVE  O!Placed(p, len, limit) \in Int /\ 0 <= O!Placed(p, len, limit) /\ O!Placed(p, len, limit) + len <= limit
BY DEF O!Placed

(* The widths and heights of the coordinate systems zones are given in.      *)
Edges == {360, 640, 720, 1080, 1280, 1920}
(* A coordinate in the picture.                                              *)
Scale(a, size, d) == (a * size) \div d

(* An offset and a length that stay within the picture.                      *)
PartsFit(a, b, size, d) ==
  /\ Scale(a, size, d) \in Nat /\ Scale(b, size, d) \in Nat
  /\ Scale(a, size, d) + Scale(b, size, d) <= size

\* rounding down two parts apart gives no more than rounding down the whole
LEMMA PartsScaled ==
  ASSUME NEW d \in Edges, NEW a \in Nat, NEW b \in Nat, a + b <= d,
         NEW size \in Nat
  PROVE  PartsFit(a, b, size, d)
<1> DEFINE p == a * size
           q == b * size
<1>1. p \in Nat /\ q \in Nat
  OBVIOUS
<1>2. p + q = (a + b) * size
  OBVIOUS
<1>3. (a + b) * size <= d * size
  BY DEF Edges
<1>4. p + q <= d * size
  BY <1>1, <1>2, <1>3 DEF Edges
<1> HIDE DEF p, q
<1>5. p \div d \in Nat /\ q \div d \in Nat /\ p \div d + q \div d <= size
  BY <1>1, <1>4 DEF Edges
<1> QED BY <1>5 DEF p, q, Scale, PartsFit

(* The system chosen for the zones contains each of them, if 1920x1080 does. *)
LEMMA SystemContains ==
  ASSUME NEW z \in O!ToSet(O!Displayed), O!Sized(z), O!Within(1920, 1080),
         z.x \in Nat, z.y \in Nat, z.w \in Nat, z.h \in Nat
  PROVE  /\ O!System.w \in {640, 1280, 1920} /\ O!System.h \in {360, 720, 1080}
         /\ z.x + z.w <= O!System.w /\ z.y + z.h <= O!System.h
<1>1. O!Reaching
  BY DEF O!Reaching, O!Sized
<1>2. \/ O!System = [w |-> 640, h |-> 360] /\ O!Within(640, 360)
      \/ O!System = [w |-> 1280, h |-> 720] /\ O!Within(1280, 720)
      \/ O!System = [w |-> 1920, h |-> 1080]
  BY <1>1 DEF O!System
<1> QED BY <1>2 DEF O!Within

LEMMA InPicture == BoxInv => O!BoxesInFrame
<1> SUFFICES ASSUME BoxInv, NEW k \in DOMAIN box
             PROVE  LET s == k[1] sz == O!ClockSize(s) IN
                    (IF k[2] = "time" THEN sz.w <= Size[s].w /\ sz.h <= Size[s].h
                     ELSE O!Within(1920, 1080) /\ \A z \in O!ToSet(O!Displayed) : z.x >= 0 /\ z.y >= 0)
                      => /\ 0 <= box[k][1] /\ box[k][1] <= box[k][3] /\ box[k][3] < Size[s].w
                         /\ 0 <= box[k][2] /\ box[k][2] <= box[k][4] /\ box[k][4] < Size[s].h
  BY DEF O!BoxesInFrame
<1> DEFINE s == k[1]
<1>1. s \in Streams /\ Placement(k)
  BY DEF BoxInv
<1>2. Size[s].w \in Nat \ {0} /\ Size[s].h \in Nat \ {0}
  BY <1>1, SizesAssumption DEF O!SizesAssumption
<1>4. CASE k[2] = "time"
  <2> SUFFICES ASSUME O!ClockSize(s).w <= Size[s].w, O!ClockSize(s).h <= Size[s].h
               PROVE  /\ 0 <= box[k][1] /\ box[k][1] <= box[k][3] /\ box[k][3] < Size[s].w
                      /\ 0 <= box[k][2] /\ box[k][2] <= box[k][4] /\ box[k][4] < Size[s].h
    BY <1>4
  <2>1. box[k] = O!ClockBox(s) /\ O!Valid(config[s].format)
    BY <1>1, <1>4 DEF Placement
  <2>2. O!ClockSize(s).w \in Nat \ {0} /\ O!ClockSize(s).h \in Nat \ {0}
    BY <2>1, SizesAssumption DEF O!SizesAssumption, O!ClockSize, O!Valid
  <2>3. config[s].x \in Int /\ config[s].y \in Int
    BY <1>1, SizesAssumption DEF O!SizesAssumption, BoxInv
  <2> DEFINE x == O!Placed(config[s].x, O!ClockSize(s).w, Size[s].w)
             y == O!Placed(config[s].y, O!ClockSize(s).h, Size[s].h)
  <2>4. x \in Int /\ 0 <= x /\ x + O!ClockSize(s).w <= Size[s].w
    BY <1>2, <2>2, <2>3, ClockPlaced
  <2>5. y \in Int /\ 0 <= y /\ y + O!ClockSize(s).h <= Size[s].h
    BY <1>2, <2>2, <2>3, ClockPlaced
  <2>6. box[k] = O!Rect(x, y, O!ClockSize(s).w, O!ClockSize(s).h)
    BY <2>1 DEF O!ClockBox
  <2> HIDE DEF x, y, s
  <2> QED BY <1>2, <2>2, <2>4, <2>5, <2>6 DEF O!Rect
<1>5. CASE k[2] # "time"
  <2> SUFFICES ASSUME O!Within(1920, 1080), \A z \in O!ToSet(O!Displayed) : z.x >= 0 /\ z.y >= 0
               PROVE  /\ 0 <= box[k][1] /\ box[k][1] <= box[k][3] /\ box[k][3] < Size[s].w
                      /\ 0 <= box[k][2] /\ box[k][2] <= box[k][4] /\ box[k][4] < Size[s].h
    BY <1>5
  <2>1. PICK z \in O!ToSet(O!Displayed) : O!Drawable(s, z) /\ box[k] = ZoneBox(s, z)
    BY <1>1, <1>5 DEF Placement
  <2>2. z \in ZoneType
    BY DisplayedOfRegions DEF BoxInv, O!ToSet
  <2>3. CASE z.w = 0 \/ z.h = 0
    <3>1. box[k] = O!Rect(0, 0, Size[s].w, Size[s].h)
      BY <2>1, <2>3 DEF ZoneBox, O!Scaled
    <3> QED BY <3>1, <1>2 DEF O!Rect
  <2>4. CASE z.w # 0 /\ z.h # 0
    <3>1. O!Sized(z) /\ z.x \in Nat /\ z.y \in Nat /\ z.w \in Nat /\ z.h \in Nat
      BY <2>2, <2>4 DEF ZoneType, O!Sized
    <3>2. /\ O!System.w \in {640, 1280, 1920} /\ O!System.h \in {360, 720, 1080}
          /\ z.x + z.w <= O!System.w /\ z.y + z.h <= O!System.h
      BY <3>1, SystemContains
    <3> DEFINE x == Scale(z.x, Size[s].w, O!System.w)
               y == Scale(z.y, Size[s].h, O!System.h)
               w == Scale(z.w, Size[s].w, O!System.w)
               h == Scale(z.h, Size[s].h, O!System.h)
    <3>a. Size[s].w \in Nat /\ O!System.w \in Edges
      BY <1>2, <3>2 DEF Edges
    <3>b. Size[s].h \in Nat /\ O!System.h \in Edges
      BY <1>2, <3>2 DEF Edges
    <3>3. x \in Nat /\ w \in Nat /\ x + w <= Size[s].w
      <4>1. PartsFit(z.x, z.w, Size[s].w, O!System.w)
        BY <3>a, <3>1, <3>2, PartsScaled
      <4> QED BY <4>1 DEF PartsFit
    <3>4. y \in Nat /\ h \in Nat /\ y + h <= Size[s].h
      <4>1. PartsFit(z.y, z.h, Size[s].h, O!System.h)
        BY <3>b, <3>1, <3>2, PartsScaled
      <4> QED BY <4>1 DEF PartsFit
    <3>5. box[k] = O!Rect(x, y, w, h) /\ w > 0 /\ h > 0
      BY <2>1, <2>4 DEF ZoneBox, O!Scaled, O!Drawable, Scale
    <3> HIDE DEF x, y, w, h, s
    <3> QED BY <1>2, <3>3, <3>4, <3>5 DEF O!Rect
  <2> QED BY <2>3, <2>4
<1> QED BY <1>4, <1>5

(* osd_module.c:66-115, 2751-2825: clocks that fit and zones given within    *)
(* 1920x1080 are drawn inside the picture, for pictures of any size and      *)
(* positions from any corner: no zone is rounded over the edge.              *)
THEOREM BoxesLieInFrame == ProcessSpec => []BoxesInFrame
<1>1. ProcessInit => ContextInv /\ BoxInv
  BY ContextInitially, BoxInitially DEF ProcessInit
<1>2. ContextInv /\ BoxInv /\ [ProcessNext]_processVars => (ContextInv /\ BoxInv)'
  BY StepsOfParts, ContextKept, BoxKept
<1>3. ContextInv /\ BoxInv => BoxesInFrame
  BY InPicture DEF BoxesInFrame
<1> QED BY <1>1, <1>2, <1>3, PTL DEF ProcessSpec

-----------------------------------------------------------------------------
(* The switch between day and night (photosensing_module.c).               *)

LEMMA FilterInitially == P!Init => P!FilterInPlace
BY DEF P!Init, P!FilterInPlace

(* Each step that sets the mode moves the filter with it; a poll may do so   *)
(* twice.                                                                    *)
LEMMA FilterKept == P!FilterInPlace /\ [P!Next]_(P!photoVars) => P!FilterInPlace'
<1> SUFFICES ASSUME P!FilterInPlace, [P!Next]_(P!photoVars) PROVE P!FilterInPlace'
  OBVIOUS
<1> USE DEF P!FilterInPlace, P!stateVars, P!modeVars, P!countVars
<1>1. CASE P!ModuleInit \/ P!SignalStop \/ P!Join \/ P!ModuleCleanup \/ P!ThreadEnds \/ P!LightChanges
  BY <1>1 DEF P!ModuleInit, P!SignalStop, P!Join, P!ModuleCleanup, P!ThreadEnds, P!LightChanges,
     P!State
<1>2. CASE P!ModuleStart
  BY <1>2 DEF P!ModuleStart, P!MoveFilter, P!State, P!Fault
<1>3. CASE P!Poll
  <2>1. UNCHANGED <<settings, photoRunning>>
    BY <1>3 DEF P!Poll
  <2>2. CASE disturbed'
    BY <2>2
  <2>3. CASE ~ disturbed'
    <3>1. PICK low, gain \in P!Gains : P!Decide(FALSE, low, gain) /\ disturbed' = disturbed
      BY <1>3, <2>3 DEF P!Poll
    <3> DEFINE Right(s) == settings.ircut => s.filter = P!State(s.isp)
    <3>2. ASSUME NEW s, NEW mode, Right(s), NEW t \in P!Request(s, mode, FALSE) PROVE Right(t)
      BY <3>2 DEF P!Request, P!Switched
    <3>3. ASSUME photoRunning PROVE Right([isp |-> isp, filter |-> filter, ircut |-> ircut])
      BY <2>3, <3>1, <3>3 DEF P!State
    <3>4. ASSUME photoRunning
          PROVE  \E after : Right(after) /\ isp' = after.isp /\ filter' = after.filter
      <4> DEFINE before == [isp |-> isp, filter |-> filter, ircut |-> ircut]
      <4>1. PICK s \in IF P!NightDue THEN P!Request(before, "night", FALSE) ELSE {before} :
              LET rec == IF P!NightDue THEN low ELSE record
                  count == P!DayCount(s, gain, rec)
                  due == count > settings.dayCount
              IN \E after \in IF due THEN P!Request(s, "day", FALSE) ELSE {s} :
                   isp' = after.isp /\ filter' = after.filter
        BY <3>1 DEF P!Decide
      <4>2. Right(s)
        BY <3>2, <3>3, <3>4
      <4>3. PICK after : /\ after = s \/ after \in P!Request(s, "day", FALSE)
                         /\ isp' = after.isp /\ filter' = after.filter
        BY <4>1
      <4> HIDE DEF Right
      <4> QED BY <4>2, <4>3, <3>2
    <3> QED BY <2>1, <3>4 DEF P!State
  <2> QED BY <2>2, <2>3
<1>4. CASE P!Override
  BY <1>4 DEF P!Override, P!State, P!Fault
<1>5. CASE UNCHANGED P!photoVars
  BY <1>5 DEF P!photoVars, P!State
<1> QED BY <1>1, <1>2, <1>3, <1>4, <1>5 DEF P!Next

(* photosensing_module.c:129-143, 571-579, 629-636: as long as no call       *)
(* failed and nobody else set the mode, the filter is where the mode wants   *)
(* it, also when a poll switches twice.                                      *)
THEOREM FilterStaysInPlace == ProcessSpec => []P!FilterInPlace
<1>1. ProcessInit => P!FilterInPlace
  BY FilterInitially DEF ProcessInit
<1>2. P!FilterInPlace /\ [ProcessNext]_processVars => P!FilterInPlace'
  BY StepsOfParts, FilterKept
<1> QED BY <1>1, <1>2, PTL DEF ProcessSpec

-----------------------------------------------------------------------------
(* Motion detection (motion_module.c).                                     *)

(* The last motion is no older than the last event, but while its script     *)
(* runs: then the result that is being processed is that young.              *)
TimesInv ==
  /\ {seconds, lastMotion, read} \subseteq Nat /\ begun \in Nat \X Nat
  /\ lastMotion <= seconds /\ read <= seconds
  /\ ~ motionRunning => motionThread = "none"
  /\ motionThread = "start" => read >= begun[2]
  /\ motionThread # "start" => lastMotion >= begun[2]
  /\ begun[1] > 0 => begun[2] - begun[1] >= Cooldown

LEMMA PairsInitially == V!Init => V!ScriptsPaired /\ V!NothingHeld
<1> SUFFICES ASSUME V!Init PROVE V!ScriptsPaired /\ V!NothingHeld
  OBVIOUS
<1>1. detected = FALSE /\ calls = "none" /\ ivs = {}
  BY DEF V!Init
<1> QED BY <1>1 DEF V!ScriptsPaired, V!NothingHeld

LEMMA TimesInitially == V!Init => TimesInv
<1> SUFFICES ASSUME V!Init PROVE TimesInv
  OBVIOUS
<1>1. motionThread = "none" /\ seconds = 1 /\ lastMotion = 0 /\ read = 0 /\ begun = <<0, 0>>
  BY DEF V!Init
<1> QED BY <1>1 DEF TimesInv

(* A script is begun exactly with the event, and ended with it.              *)
LEMMA PairsKept == V!ScriptsPaired /\ [V!Next]_(V!motionVars) => V!ScriptsPaired'
<1> SUFFICES ASSUME V!ScriptsPaired, [V!Next]_(V!motionVars) PROVE V!ScriptsPaired'
  OBVIOUS
<1> USE DEF V!ScriptsPaired, V!lifeVars, V!eventVars
<1>1. CASE V!ModuleInit \/ V!ModuleCleanup
  <2>1. detected' = FALSE /\ calls' = "none"
    BY <1>1 DEF V!ModuleInit, V!ModuleCleanup, V!Forget
  <2> QED BY <2>1
<1>2. CASE V!Process
  <2>1. CASE V!MotionBegins
    BY <2>1 DEF V!MotionBegins
  <2>2. CASE V!MotionGoesOn
    BY <2>2 DEF V!MotionGoesOn
  <2>3. CASE V!Quiet
    <3>1. detected' = FALSE /\ calls' = "stop"
      BY <2>3 DEF V!Quiet
    <3> QED BY <3>1
  <2> QED BY <1>2, <2>1, <2>2, <2>3 DEF V!Process, V!Moved
<1>3. CASE \/ V!StartFails \/ V!ModuleStart \/ V!SignalStop \/ V!Join \/ V!Thread \/ V!Tick
           \/ UNCHANGED V!motionVars
  BY <1>3 DEF V!StartFails, V!ModuleStart, V!SignalStop, V!Join, V!Thread, V!InitPeriodEnds,
              V!ScriptEnds, V!ThreadEnds, V!Tick, V!motionVars
<1> QED BY <1>1, <1>2, <1>3 DEF V!Next

(* Each step of the setup that fails gives back what the steps before it     *)
(* took.                                                                     *)
LEMMA HeldKept == V!NothingHeld /\ [V!Next]_(V!motionVars) => V!NothingHeld'
<1> SUFFICES ASSUME V!NothingHeld, [V!Next]_(V!motionVars) PROVE V!NothingHeld'
  OBVIOUS
<1> USE DEF V!NothingHeld, V!lifeVars, V!eventVars
<1>1. CASE V!StartFails
  <2>1. PICK n \in 1..7 : ivs' = (ivs \cup V!Acquired(n - 1)) \ V!Undone(n)
    BY <1>1 DEF V!StartFails
  <2>2. V!Acquired(n - 1) \subseteq V!Undone(n)
    BY DEF V!Undone, V!Acquired
  <2> QED BY <1>1, <2>1, <2>2 DEF V!StartFails
<1>2. CASE V!Join
  BY <1>2 DEF V!Join, V!TakeDown
<1>3. CASE V!ModuleInit \/ V!ModuleCleanup \/ V!ModuleStart \/ V!SignalStop
  BY <1>3 DEF V!ModuleInit, V!ModuleCleanup, V!ModuleStart, V!SignalStop
<1>4. CASE V!Process \/ V!Thread \/ V!Tick \/ UNCHANGED V!motionVars
  BY <1>4 DEF V!Process, V!Moved, V!MotionBegins, V!MotionGoesOn, V!Quiet, V!Thread,
              V!InitPeriodEnds, V!ScriptEnds, V!ThreadEnds, V!Tick, V!motionVars
<1> QED BY <1>1, <1>2, <1>3, <1>4 DEF V!Next

LEMMA TimesKept == TimesInv /\ [V!Next]_(V!motionVars) => TimesInv'
<1> SUFFICES ASSUME TimesInv, [V!Next]_(V!motionVars) PROVE TimesInv'
  OBVIOUS
<1> USE DEF TimesInv, V!lifeVars, V!eventVars
<1>1. CASE V!ModuleInit \/ V!ModuleCleanup
  <2>1. begun' = <<0, 0>> /\ lastMotion' = 0 /\ UNCHANGED <<read, seconds, motionThread, motionRunning>>
    BY <1>1 DEF V!ModuleInit, V!ModuleCleanup, V!Forget
  <2> QED BY <2>1
<1>2. CASE V!Process
  <2>1. CASE V!MotionBegins
    <3>1. /\ begun' = <<begun[2], seconds>> /\ read' = seconds /\ motionThread' = "start"
          /\ motionThread = "poll" /\ UNCHANGED <<seconds, lastMotion>>
      BY <1>2, <2>1 DEF V!Process, V!MotionBegins
    <3>2. lastMotion > 0 => seconds - lastMotion >= Cooldown
      <4>1. ~ V!CoolingDown
        BY <1>2, <2>1 DEF V!Process, V!MotionBegins, V!Moved, V!Quiet
      <4> QED BY <4>1, EventsAssumption DEF V!CoolingDown, V!EventsAssumption
    <3>3. begun[2] \in Nat /\ lastMotion >= begun[2] /\ lastMotion \in Nat /\ seconds \in Nat
      BY <3>1
    <3>4. begun[2] > 0 => seconds - begun[2] >= Cooldown
      BY <3>2, <3>3, EventsAssumption DEF V!EventsAssumption
    <3>5. /\ {seconds', lastMotion', read'} \subseteq Nat /\ begun' \in Nat \X Nat
          /\ begun'[1] = begun[2] /\ begun'[2] = seconds /\ motionRunning' = motionRunning
          /\ lastMotion' <= seconds' /\ read' <= seconds'
      BY <3>1, <3>3, <1>2 DEF V!Process
    <3>6. motionThread' = "start" /\ read' = seconds /\ motionRunning' = motionRunning
      BY <3>1, <3>5
    <3>7. ~ motionRunning' => motionThread' = "none"
      BY <3>1, <3>5
    <3> QED BY <3>3, <3>4, <3>5, <3>6, <3>7
  <2>2. CASE V!MotionGoesOn
    <3>1. /\ lastMotion' = seconds /\ motionThread = "poll"
          /\ UNCHANGED <<seconds, read, begun, motionThread, motionRunning>>
      BY <1>2, <2>2 DEF V!Process, V!MotionGoesOn
    <3> QED BY <3>1
  <2>3. CASE V!Quiet
    <3>1. /\ motionThread = "poll" /\ motionThread' = "stop"
          /\ UNCHANGED <<seconds, lastMotion, read, begun, motionRunning>>
      BY <1>2, <2>3 DEF V!Process, V!Quiet
    <3> QED BY <3>1
  <2> QED BY <1>2, <2>1, <2>2, <2>3 DEF V!Process, V!Moved
<1>3. CASE V!ScriptEnds
  <2>1. /\ UNCHANGED <<read, begun, seconds, motionRunning>> /\ motionThread \in {"start", "stop"}
        /\ motionThread' = "poll"
        /\ lastMotion' = IF motionThread = "start" THEN read ELSE lastMotion
    BY <1>3 DEF V!ScriptEnds
  <2> QED BY <2>1
<1>4. CASE V!Tick
  <2>1. seconds' = seconds + 1 /\ UNCHANGED <<read, begun, lastMotion, motionThread, motionRunning>>
    BY <1>4 DEF V!Tick
  <2> QED BY <2>1
<1>5. CASE V!ModuleStart \/ V!Join \/ V!InitPeriodEnds \/ V!ThreadEnds
  <2>1. /\ UNCHANGED <<read, begun, lastMotion, seconds>> /\ motionThread' # "start"
        /\ motionThread # "start" /\ (~ motionRunning' => motionThread' = "none")
    BY <1>5 DEF V!ModuleStart, V!Join, V!InitPeriodEnds, V!ThreadEnds
  <2> QED BY <2>1
<1>6. CASE V!StartFails \/ V!SignalStop \/ UNCHANGED V!motionVars
  <2>1. UNCHANGED <<read, begun, lastMotion, seconds, motionThread, motionRunning>>
    BY <1>6 DEF V!StartFails, V!SignalStop, V!motionVars
  <2> QED BY <2>1
<1> QED BY <1>1, <1>2, <1>3, <1>4, <1>5, <1>6 DEF V!Next, V!Thread

(* motion_module.c:281-358: the script is run once at the start and once at    *)
(* the end of every event, events begin at least cooldown_time apart, however  *)
(* long the script takes, and a module that is not running holds nothing of    *)
(* IVS unless a call of a takedown failed.                                     *)
THEOREM MotionStaysSafe ==
  ProcessSpec => [](V!ScriptsPaired /\ V!EventsSpaced /\ V!NothingHeld)
<1> DEFINE Inv == V!ScriptsPaired /\ V!NothingHeld /\ TimesInv
<1>1. ProcessInit => Inv
  BY PairsInitially, TimesInitially DEF ProcessInit
<1>2. Inv /\ [ProcessNext]_processVars => Inv'
  BY StepsOfParts, PairsKept, HeldKept, TimesKept
<1>3. Inv => V!ScriptsPaired /\ V!EventsSpaced /\ V!NothingHeld
  BY DEF V!EventsSpaced, TimesInv
<1> QED BY <1>1, <1>2, <1>3, PTL DEF ProcessSpec

-----------------------------------------------------------------------------
(* The answers to discovery (onvif_discovery.c).                           *)

(* One element more makes a set larger by one, if it is new.                 *)
LEMMA Added ==
  ASSUME NEW T, IsFiniteSet(T), NEW x
  PROVE  /\ D!Cardinality(T) \in Nat /\ IsFiniteSet(T \cup {x})
         /\ D!Cardinality(T \cup {x}) = IF x \in T THEN D!Cardinality(T) ELSE D!Cardinality(T) + 1
<1>1. D!Cardinality(T) = Cardinality(T) /\ D!Cardinality(T \cup {x}) = Cardinality(T \cup {x})
  BY DEF D!Cardinality, Cardinality
<1> QED BY <1>1, FS_AddElement, FS_CardinalityType

(* A part of a finite set is no larger.                                      *)
LEMMA Larger ==
  ASSUME NEW T, IsFiniteSet(T), NEW U, U \subseteq T
  PROVE  /\ D!Cardinality(T) \in Nat /\ D!Cardinality(U) \in Nat
         /\ D!Cardinality(U) <= D!Cardinality(T)
<1>1. D!Cardinality(T) = Cardinality(T) /\ D!Cardinality(U) = Cardinality(U)
  BY DEF D!Cardinality, Cardinality
<1> QED BY <1>1, FS_Subset, FS_CardinalityType

(* All sets of ids and of clients are finite.                                *)
LEMMA FinitePart ==
  /\ \A T \in SUBSET Ids : IsFiniteSet(T)
  /\ \A T \in SUBSET Clients : IsFiniteSet(T)
<1>1. IsFiniteSet(Ids) /\ IsFiniteSet(Clients)
  BY TablesAssumption DEF D!TablesAssumption, D!IsFiniteSet, IsFiniteSet
<1> QED BY <1>1, FS_Subset

\* how many entries were written after the one at k
Written(k, n, size) == IF k < n THEN n - 1 - k ELSE n - 1 - k + size

(* Writing the entry at n puts it last and moves all others one further.     *)
LEMMA WrittenMoves ==
  ASSUME NEW size \in Nat \ {0}, NEW k \in 0..(size - 1), NEW n \in 0..(size - 1)
  PROVE  /\ Written(k, n, size) \in 0..(size - 1) /\ (n + 1) % size \in 0..(size - 1)
         /\ Written(n, n, size) = size - 1
         /\ Written(n, (n + 1) % size, size) = 0
         /\ k # n => Written(k, (n + 1) % size, size) = Written(k, n, size) + 1
<1>1. (n + 1) % size = IF n + 1 = size THEN 0 ELSE n + 1
  OBVIOUS
<1> QED BY <1>1 DEF Written

(* What the ring of message ids and its history are made of.                 *)
RingTypes ==
  /\ ring \in [0..(RingSize - 1) -> [id : Ids \cup {"none"}, at : Int]]
  /\ next \in 0..(RingSize - 1)
  /\ elapsed \in Nat /\ ahead \in Nat /\ behind \in Nat
  /\ heard \in [Ids -> [fast : Int, slow : Int]] /\ younger \in [Ids -> SUBSET Ids]
  /\ \A i \in Ids : heard[i].fast <= D!Fast

(* What is no more than a number less than w is less than w.                 *)
LEMMA Between == \A a, b, w \in Int : a <= b /\ b < w => a < w
OBVIOUS

(* The ring knows i, no older than the steps forward since make it, and      *)
(* since it was written at least as many ids were recorded as lie between it *)
(* and the index that is written next.                                       *)
Held(i) == \E k \in 0..(RingSize - 1) :
              /\ ring[k].id = i /\ D!Now - ring[k].at <= D!Fast - heard[i].fast
              /\ D!Cardinality(younger[i]) >= Written(k, next, RingSize)

(* The entry at k looks at least as old as its id, but for the steps back      *)
(* since.                                                                    *)
RingAged(k) ==
  /\ D!Ever(heard[ring[k].id])
  /\ D!Slow - heard[ring[k].id].slow <= D!Now - ring[k].at

(* An id heard after i was recorded after it, and so was everything recorded *)
(* after that id; an id that is fresh is in the ring unless so many others   *)
(* were that it holds no more; entries look no younger than the steps back   *)
(* since make them.                                                          *)
RingInv ==
  /\ RingTypes
  /\ \A i \in Ids : \A j \in younger[i] :
        D!Ever(heard[j]) /\ heard[j].fast >= heard[i].fast /\ younger[j] \subseteq younger[i]
  /\ \A i \in Ids : D!Fresh(heard[i], Window) =>
                       D!Cardinality(younger[i]) >= RingSize \/ Held(i)
  /\ \A k \in 0..(RingSize - 1) : ring[k].id \in Ids => RingAged(k)

LEMMA RingInitially == D!Init => RingInv
<1> SUFFICES ASSUME D!Init PROVE RingInv
  OBVIOUS
<1> USE TablesAssumption DEF D!TablesAssumption
<1>1. /\ ring = [i \in 0..(RingSize - 1) |-> [id |-> "none", at |-> 0]] /\ next = 0
      /\ elapsed = MaxBack + Window /\ ahead = 0 /\ behind = 0
      /\ heard = [i \in Ids |-> D!Never] /\ younger = [i \in Ids |-> {}]
  BY DEF D!Init
<1>2. RingTypes
  BY <1>1 DEF RingTypes, D!Never, D!Fast
<1>3. \A i \in Ids : ~ D!Fresh(heard[i], Window)
  BY <1>1 DEF D!Fresh, D!Ever, D!Never
<1>4. \A k \in 0..(RingSize - 1) : ring[k].id \notin Ids
  BY <1>1
<1> QED BY <1>1, <1>2, <1>3, <1>4 DEF RingInv

(* Recording an id that is not a duplicate: if it is known to be younger     *)
(* than i already, then the ring forgot it because it is full of others.     *)
LEMMA RingRecords ==
  ASSUME RingInv, NEW n \in Ids, D!Record(n), D!Remember(n), ~ D!IsDuplicate(n),
         UNCHANGED D!clock
  PROVE  RingInv'
<1> USE TablesAssumption DEF D!TablesAssumption
<1>1. /\ ring' = [ring EXCEPT ![next] = [id |-> n, at |-> D!Now]]
      /\ next' = (next + 1) % RingSize /\ D!Now \in Int /\ D!Now' = D!Now
      /\ heard' = [heard EXCEPT ![n] = D!Moment]
      /\ younger' = [j \in Ids |-> IF j = n THEN {} ELSE younger[j] \cup {n}]
      /\ elapsed' = elapsed /\ ahead' = ahead /\ behind' = behind
      /\ elapsed \in Nat /\ ahead \in Nat /\ behind \in Nat
      /\ D!Fast' = D!Fast /\ D!Slow' = D!Slow /\ D!Now' = D!Now
      /\ D!Fast \in Nat /\ D!Slow \in Int /\ D!Now \in Int
      /\ D!Now <= D!Fast /\ D!Slow <= D!Now /\ D!Moment \in [fast : Int, slow : Int]
      /\ D!Moment.fast = D!Fast /\ D!Moment.slow = D!Slow /\ D!Ever(D!Moment)
  BY DEF D!Record, D!Remember, RingInv, RingTypes, D!Now, D!Fast, D!Slow, D!Moment, D!Ever, D!clock
<1>t. RingTypes'
  <2>1. next' \in 0..(RingSize - 1)
    BY <1>1, WrittenMoves DEF RingInv, RingTypes
  <2> QED BY <1>1, <2>1 DEF RingInv, RingTypes
<1>2. \A j \in Ids : heard'[j] = (IF j = n THEN D!Moment ELSE heard[j])
                     /\ younger'[j] = (IF j = n THEN {} ELSE younger[j] \cup {n})
  BY <1>1 DEF RingInv, RingTypes
<1>3. \A k \in 0..(RingSize - 1) : ring'[k] = IF k = next THEN [id |-> n, at |-> D!Now] ELSE ring[k]
  BY <1>1 DEF RingInv, RingTypes
<1>4. \A i \in Ids : \A j \in younger'[i] :
        D!Ever(heard'[j]) /\ heard'[j].fast >= heard'[i].fast /\ younger'[j] \subseteq younger'[i]
  <2> SUFFICES ASSUME NEW i \in Ids, NEW j \in younger'[i]
               PROVE  D!Ever(heard'[j]) /\ heard'[j].fast >= heard'[i].fast /\ younger'[j] \subseteq younger'[i]
    OBVIOUS
  <2>1. i # n /\ j \in younger[i] \cup {n} /\ j \in Ids /\ younger[i] \subseteq Ids
    <3>1. younger[i] \in SUBSET Ids /\ younger'[i] = (IF i = n THEN {} ELSE younger[i] \cup {n})
      BY <1>2 DEF RingInv, RingTypes
    <3> QED BY <3>1
  <2>2. CASE j = n
    BY <2>1, <2>2, <1>1, <1>2 DEF RingInv, RingTypes
  <2>3. CASE j # n
    <3>1. D!Ever(heard[j]) /\ heard[j].fast >= heard[i].fast /\ younger[j] \subseteq younger[i]
      BY <2>1, <2>3 DEF RingInv
    <3> QED BY <2>1, <2>3, <3>1, <1>2
  <2> QED BY <2>2, <2>3
<1>5. ASSUME NEW i \in Ids, D!Fresh(heard[i], Window), n \in younger[i]
      PROVE  D!Cardinality(younger[i]) >= RingSize
  <2>1. D!Ever(heard[n]) /\ heard[n].fast >= heard[i].fast /\ younger[n] \subseteq younger[i]
    BY <1>5 DEF RingInv
  <2>2. D!Fresh(heard[n], Window) /\ heard[n].fast \in Int /\ heard[n].slow \in Int
    <3>1. /\ heard[n].fast \in Int /\ heard[n].slow \in Int /\ heard[i].fast \in Int
      BY DEF RingInv, RingTypes
    <3>2. D!Fast - heard[i].fast < Window
      BY <1>5 DEF D!Fresh
    <3>3. D!Fast \in Int /\ Window \in Int
      <4>1. D!Fast \in Nat
        BY <1>1
      <4> QED BY <4>1
    <3>4. D!Fast - heard[n].fast < Window
      BY <2>1, <3>1, <3>2, <3>3
    <3> QED BY <2>1, <3>1, <3>4 DEF D!Fresh
  <2>3. ~ Held(n)
    <3> SUFFICES ASSUME NEW k \in 0..(RingSize - 1), ring[k].id = n,
                        D!Now - ring[k].at <= D!Fast - heard[n].fast
                 PROVE  FALSE
      BY DEF Held
    <3>1. ring[k].at \in Int /\ DOMAIN ring = 0..(RingSize - 1)
      BY DEF RingInv, RingTypes
    <3>2. D!Now - ring[k].at < Window
      <4>1. D!Fast - heard[n].fast < Window
        BY <2>2 DEF D!Fresh
      <4>2. D!Now - ring[k].at \in Int /\ D!Fast - heard[n].fast \in Int /\ Window \in Int
        <5>1. D!Now - ring[k].at \in Int
          <6>1. D!Now \in Int
            BY <1>1
          <6> QED BY <3>1, <6>1
        <5>2. D!Fast - heard[n].fast \in Int
          <6>1. D!Fast \in Int
            BY <1>1
          <6> QED BY <2>2, <6>1
        <5>3. Window \in Int
          OBVIOUS
        <5> QED BY <5>1, <5>2, <5>3
      <4> QED BY <4>1, <4>2, Between
    <3> QED BY <3>1, <3>2, <1>1 DEF D!IsDuplicate
  <2>4. D!Cardinality(younger[n]) >= RingSize
    BY <2>2, <2>3 DEF RingInv
  <2>5. D!Cardinality(younger[n]) \in Nat /\ D!Cardinality(younger[i]) \in Nat
        /\ D!Cardinality(younger[n]) <= D!Cardinality(younger[i])
    BY <2>1, FinitePart, Larger DEF RingInv, RingTypes
  <2> QED BY <2>4, <2>5
<1>6. ASSUME NEW i \in Ids, D!Fresh(heard[i], Window)'
      PROVE  D!Cardinality(younger[i])' >= RingSize \/ Held(i)'
  <2>1. CASE i = n
    <3>1. ring'[next].id = n /\ ring'[next].at = D!Now /\ next \in 0..(RingSize - 1)
          /\ heard'[n] = D!Moment /\ younger'[n] = {}
      BY <1>1, <1>2, <1>3 DEF RingInv, RingTypes
    <3>2. D!Cardinality({}) = 0
      BY FS_EmptySet DEF D!Cardinality, Cardinality
    <3>3. Written(next, next', RingSize) = 0
      BY <1>1, <3>1, WrittenMoves
    <3> QED BY <2>1, <3>1, <3>2, <3>3, <1>1 DEF Held
  <2>2. CASE i # n
    <3>1. heard'[i] = heard[i] /\ younger'[i] = younger[i] \cup {n} /\ D!Fresh(heard[i], Window)
      BY <1>6, <2>2, <1>1, <1>2 DEF D!Fresh, D!Ever
    <3>2. IsFiniteSet(younger[i]) /\ younger[i] \subseteq Ids
      BY FinitePart DEF RingInv, RingTypes
    <3>3. /\ D!Cardinality(younger[i]) \in Nat
          /\ D!Cardinality(younger'[i]) =
                IF n \in younger[i] THEN D!Cardinality(younger[i]) ELSE D!Cardinality(younger[i]) + 1
      BY <3>1, <3>2, Added
    <3>4. CASE D!Cardinality(younger[i]) >= RingSize
      BY <3>3, <3>4
    <3>5. CASE D!Cardinality(younger[i]) < RingSize
      <4>1. n \notin younger[i] /\ Held(i)
        BY <1>5, <3>1, <3>3, <3>5 DEF RingInv
      <4>2. PICK k \in 0..(RingSize - 1) :
                /\ ring[k].id = i /\ D!Now - ring[k].at <= D!Fast - heard[i].fast
                /\ D!Cardinality(younger[i]) >= Written(k, next, RingSize)
        BY <4>1 DEF Held
      <4>3. next \in 0..(RingSize - 1)
        BY DEF RingInv, RingTypes
      <4>4. CASE k = next
        <5>1. Written(k, next, RingSize) = RingSize - 1
          BY <4>4, <4>3, WrittenMoves
        <5> QED BY <5>1, <4>1, <4>2, <3>3
      <4>5. CASE k # next
        <5>1. Written(k, next', RingSize) = Written(k, next, RingSize) + 1
              /\ Written(k, next, RingSize) \in Int
          BY <4>5, <4>3, <1>1, WrittenMoves
        <5>2. ring'[k] = ring[k]
          BY <1>3, <4>5
        <5>3. D!Cardinality(younger'[i]) >= Written(k, next', RingSize)
          BY <5>1, <4>1, <4>2, <3>3
        <5>4. ring'[k].id = i /\ D!Now' - ring'[k].at <= D!Fast' - heard'[i].fast
          BY <5>2, <4>2, <3>1, <1>1
        <5> QED BY <5>3, <5>4 DEF Held
      <4> QED BY <4>4, <4>5
    <3> QED BY <3>3, <3>4, <3>5
  <2> QED BY <2>1, <2>2
<1>7. ASSUME NEW k \in 0..(RingSize - 1), ring'[k].id \in Ids
      PROVE  RingAged(k)'
  <2>1. CASE k = next
    BY <2>1, <1>1, <1>2, <1>3, <1>7 DEF RingAged, D!Ever
  <2>2. CASE k # next
    <3>1. ring'[k] = ring[k] /\ RingAged(k) /\ ring[k].at \in Int
      BY <2>2, <1>1, <1>3, <1>7 DEF RingInv, RingTypes
    <3>2. CASE ring[k].id = n
      <4>1. heard'[n] = D!Moment /\ k \in DOMAIN ring
        BY <1>2 DEF RingInv, RingTypes
      <4>2. ~ (D!Now - ring[k].at < Window)
        BY <3>2, <4>1 DEF D!IsDuplicate
      <4>3. D!Now - ring[k].at >= 0
        BY <3>1, <4>2, <1>1
      <4> QED BY <3>1, <3>2, <4>1, <4>3, <1>1 DEF RingAged
    <3>3. CASE ring[k].id # n
      <4>1. heard'[ring[k].id] = heard[ring[k].id]
        BY <1>2, <1>7, <3>1, <3>3
      <4> QED BY <3>1, <4>1, <1>1 DEF RingAged, D!Ever
    <3> QED BY <3>2, <3>3
  <2> QED BY <2>1, <2>2
<1> QED BY <1>t, <1>4, <1>6, <1>7 DEF RingInv

(* What the three clocks do when time goes on, or the clock in use is set.   *)
LEMMA ClocksStand ==
  ASSUME {elapsed, ahead, behind} \subseteq Nat, {elapsed', ahead', behind'} \subseteq Nat,
         elapsed' >= elapsed, ahead' >= ahead, behind' >= behind
  PROVE  /\ {D!Now, D!Now', D!Fast, D!Fast', D!Slow, D!Slow'} \subseteq Int /\ D!Fast <= D!Fast'
         /\ D!Now' - D!Now <= D!Fast' - D!Fast /\ D!Slow' - D!Slow <= D!Now' - D!Now
<1>1. /\ D!Now = elapsed + ahead - behind /\ D!Now' = elapsed' + ahead' - behind'
      /\ D!Fast = elapsed + ahead /\ D!Fast' = elapsed' + ahead'
      /\ D!Slow = elapsed - behind /\ D!Slow' = elapsed' - behind'
  BY DEF D!Now, D!Fast, D!Slow
<1>2. D!Now \in Int /\ D!Now' \in Int
  BY <1>1
<1>3. D!Fast \in Int /\ D!Fast' \in Int /\ D!Fast <= D!Fast'
  BY <1>1
<1>4. D!Slow \in Int /\ D!Slow' \in Int
  BY <1>1
<1>5. D!Now' - D!Now <= D!Fast' - D!Fast
  BY <1>1
<1>6. D!Slow' - D!Slow <= D!Now' - D!Now
  BY <1>1
<1> QED BY <1>2, <1>3, <1>4, <1>5, <1>6

(* Time that goes on, and steps of the clock, keep it.                       *)
LEMMA RingStands ==
  ASSUME RingInv, UNCHANGED <<ring, next, heard, younger>>,
         {elapsed', ahead', behind'} \subseteq Nat,
         elapsed' >= elapsed, ahead' >= ahead, behind' >= behind
  PROVE  RingInv'
<1>0. /\ {D!Now, D!Now', D!Fast, D!Fast', D!Slow, D!Slow'} \subseteq Int /\ D!Fast <= D!Fast'
      /\ D!Now' - D!Now <= D!Fast' - D!Fast /\ D!Slow' - D!Slow <= D!Now' - D!Now
  <2>1. {elapsed, ahead, behind} \subseteq Nat
    BY DEF RingInv, RingTypes
  <2> QED BY <2>1, ClocksStand
<1>1. RingTypes'
  BY <1>0 DEF RingInv, RingTypes
<1>2. ASSUME NEW i \in Ids, D!Fresh(heard[i], Window)'
      PROVE  D!Cardinality(younger[i])' >= RingSize \/ Held(i)'
  <2>1. D!Fresh(heard[i], Window)
    <3>1. heard[i].fast \in Int /\ heard' = heard
      BY DEF RingInv, RingTypes
    <3>2. D!Ever(heard[i]) /\ D!Fast' - heard[i].fast < Window
      BY <1>2, <3>1 DEF D!Fresh, D!Ever
    <3>3. Window \in Nat
      BY TablesAssumption DEF D!TablesAssumption
    <3> QED BY <1>0, <3>1, <3>2, <3>3 DEF D!Fresh
  <2>2. CASE D!Cardinality(younger[i]) >= RingSize
    BY <2>2
  <2>3. CASE Held(i)
    <3>1. PICK k \in 0..(RingSize - 1) :
                /\ ring[k].id = i /\ D!Now - ring[k].at <= D!Fast - heard[i].fast
                /\ D!Cardinality(younger[i]) >= Written(k, next, RingSize)
      BY <2>3 DEF Held
    <3>2. ring[k].at \in Int /\ heard[i].fast \in Int /\ heard[i].slow \in Int
      BY DEF RingInv, RingTypes
    <3>4. D!Now' - ring'[k].at <= D!Fast' - heard'[i].fast
      BY <3>1, <3>2, <1>0
    <3> QED BY <3>1, <3>4 DEF Held
  <2> QED BY <2>1, <2>2, <2>3 DEF RingInv
<1>3. ASSUME NEW k \in 0..(RingSize - 1), ring'[k].id \in Ids PROVE RingAged(k)'
  <2>1. RingAged(k) /\ ring[k].at \in Int /\ heard[ring[k].id].slow \in Int
    BY <1>3 DEF RingInv, RingTypes
  <2> QED BY <1>0, <2>1 DEF RingAged, D!Ever
<1>4. \A i \in Ids : \A j \in younger'[i] :
        D!Ever(heard'[j]) /\ heard'[j].fast >= heard'[i].fast /\ younger'[j] \subseteq younger'[i]
  BY DEF RingInv
<1> QED BY <1>1, <1>2, <1>3, <1>4 DEF RingInv

LEMMA RingKept == RingInv /\ [D!Next]_(D!discoveryVars) => RingInv'
<1> SUFFICES ASSUME RingInv, [D!Next]_(D!discoveryVars) PROVE RingInv'
  OBVIOUS
<1> USE DEF D!tables, D!history
<1>t. {elapsed, ahead, behind} \subseteq Nat
  BY DEF RingInv, RingTypes
<1>1. CASE UNCHANGED D!discoveryVars
  BY <1>1, <1>t, RingStands DEF D!discoveryVars, D!clock
<1>2. ASSUME NEW i \in Ids, NEW c \in Clients, D!Probe(i, c) PROVE RingInv'
  <2>1. UNCHANGED D!clock
    BY <1>2 DEF D!Probe
  <2>2. CASE D!IsDuplicate(i)
    BY <1>2, <2>1, <2>2, <1>t, RingStands DEF D!Probe, D!Ignore, D!clock
  <2>3. CASE ~ D!IsDuplicate(i)
    <3>1. D!Record(i) /\ D!Remember(i)
      BY <1>2, <2>3 DEF D!Probe, D!Hold, D!Answer
    <3> QED BY <2>1, <2>3, <3>1, RingRecords
  <2> QED BY <2>2, <2>3
<1>3. CASE D!Tick
  BY <1>3, <1>t, RingStands DEF D!Tick
<1>4. CASE D!SetForward \/ D!SetBack
  <2>1. ahead' \in Nat /\ behind' \in Nat /\ ahead' >= ahead /\ behind' >= behind
    BY <1>4, <1>t, TablesAssumption DEF D!SetForward, D!SetBack, D!TablesAssumption
  <2> QED BY <1>4, <1>t, <2>1, RingStands DEF D!SetForward, D!SetBack
<1>5. CASE D!OtherDatagram \/ D!StartDiscovery \/ D!StopDiscovery \/ D!Join
  BY <1>5, <1>t, RingStands DEF D!clock, D!OtherDatagram, D!StartDiscovery, D!StopDiscovery, D!Join
<1> QED BY <1>1, <1>2, <1>3, <1>4, <1>5 DEF D!Next

(* What the cache of clients and its history are made of.                    *)
CacheTypes ==
  /\ cache \in [0..(CacheSize - 1) -> [ip : Clients \cup {"none"}, at : Int]]
  /\ nextClient \in 0..(CacheSize - 1)
  /\ elapsed \in Nat /\ ahead \in Nat /\ behind \in Nat
  /\ served \in [Clients -> [fast : Int, slow : Int]] /\ later \in [Clients -> SUBSET Clients]
  /\ \A c \in Clients : served[c].fast <= D!Fast

(* No client is in the cache twice, so the first entry is the only one.      *)
EntriesUnique ==
  \A j, k \in 0..(CacheSize - 1) : cache[j].ip = cache[k].ip /\ cache[k].ip \in Clients => j = k

(* The same of the cache as Held of the ring.                                *)
Paused(c) == \E k \in 0..(CacheSize - 1) :
               /\ cache[k].ip = c /\ D!Now - cache[k].at <= D!Fast - served[c].fast
               /\ D!Cardinality(later[c]) >= Written(k, nextClient, CacheSize)

(* The same of the cache as RingAged of the ring.                            *)
CacheAged(k) ==
  /\ D!Ever(served[cache[k].ip])
  /\ D!Slow - served[cache[k].ip].slow <= D!Now - cache[k].at

(* The cache of clients: as the ring, but that a client whose pause is over  *)
(* keeps its place.                                                          *)
CacheInv ==
  /\ CacheTypes /\ EntriesUnique
  /\ \A d \in Clients : \A c \in later[d] : D!Ever(served[c]) /\ later[c] \subseteq later[d]
  /\ \A c \in Clients : D!Ever(served[c]) => D!Cardinality(later[c]) >= CacheSize \/ Paused(c)
  /\ \A k \in 0..(CacheSize - 1) : cache[k].ip \in Clients => CacheAged(k)

LEMMA CacheInitially == D!Init => CacheInv
<1> SUFFICES ASSUME D!Init PROVE CacheInv
  OBVIOUS
<1> USE TablesAssumption DEF D!TablesAssumption
<1>1. /\ cache = [i \in 0..(CacheSize - 1) |-> [ip |-> "none", at |-> 0]] /\ nextClient = 0
      /\ elapsed = MaxBack + Window /\ ahead = 0 /\ behind = 0
      /\ served = [i \in Clients |-> D!Never] /\ later = [i \in Clients |-> {}]
  BY DEF D!Init
<1>2. CacheTypes
  BY <1>1 DEF CacheTypes, D!Never, D!Fast
<1>3. \A c \in Clients : ~ D!Ever(served[c]) /\ later[c] = {}
  BY <1>1 DEF D!Ever, D!Never
<1>4. \A k \in 0..(CacheSize - 1) : cache[k].ip \notin Clients
  BY <1>1
<1> QED BY <1>1, <1>2, <1>3, <1>4 DEF CacheInv, EntriesUnique

(* The entry that is looked up first is the entry.                           *)
LEMMA EntryIs ==
  ASSUME CacheInv, NEW c \in Clients
  PROVE  D!Entry(c) = {k \in 0..(CacheSize - 1) : cache[k].ip = c}
<1>1. DOMAIN cache = 0..(CacheSize - 1) /\ CacheSize \in Nat
  BY TablesAssumption DEF CacheInv, CacheTypes, D!TablesAssumption
<1>2. ASSUME NEW k \in 0..(CacheSize - 1), cache[k].ip = c, NEW j \in 0..(k - 1), cache[j].ip = c
      PROVE  FALSE
  <2>1. j \in 0..(CacheSize - 1) /\ j # k
    BY <1>1
  <2> QED BY <2>1, <1>2 DEF CacheInv, EntriesUnique
<1> QED BY <1>1, <1>2 DEF D!Entry

(* Answering a client stamps its entry, or puts it at the index that is      *)
(* written next.                                                             *)
LEMMA CacheServes ==
  ASSUME CacheInv, NEW c \in Clients, D!Serve(c),
         served' = [served EXCEPT ![c] = D!Moment],
         later' = IF D!Entry(c) # {} THEN later
                  ELSE [d \in Clients |-> IF d = c THEN {} ELSE later[d] \cup {c}],
         UNCHANGED D!clock
  PROVE  CacheInv'
<1> USE TablesAssumption DEF D!TablesAssumption
<1> DEFINE Ks == 0..(CacheSize - 1)
<1>1. /\ elapsed' = elapsed /\ ahead' = ahead /\ behind' = behind
      /\ elapsed \in Nat /\ ahead \in Nat /\ behind \in Nat
      /\ D!Fast' = D!Fast /\ D!Slow' = D!Slow /\ D!Now' = D!Now
      /\ D!Fast \in Nat /\ D!Slow \in Int /\ D!Now \in Int
      /\ D!Now <= D!Fast /\ D!Slow <= D!Now /\ D!Moment \in [fast : Int, slow : Int]
      /\ D!Moment.fast = D!Fast /\ D!Moment.slow = D!Slow /\ D!Ever(D!Moment)
  BY DEF CacheInv, CacheTypes, D!Now, D!Fast, D!Slow, D!Moment, D!Ever, D!clock
<1>2. \A d \in Clients : served'[d] = IF d = c THEN D!Moment ELSE served[d]
  BY DEF CacheInv, CacheTypes
<1>3. ASSUME NEW x \in Ks, cache[x].ip = c PROVE CacheInv'
  <2>1. D!Entry(c) = {x}
    BY <1>3, EntryIs DEF CacheInv, EntriesUnique
  <2>2. /\ cache' = [cache EXCEPT ![x] = [ip |-> c, at |-> D!Now]]
        /\ nextClient' = nextClient /\ later' = later
    BY <2>1 DEF D!Serve
  <2>3. \A k \in Ks : /\ cache'[k] = IF k = x THEN [ip |-> c, at |-> D!Now] ELSE cache[k]
                      /\ cache'[k].ip = cache[k].ip
    BY <1>3, <2>2 DEF CacheInv, CacheTypes
  <2>4. CacheTypes'
    BY <1>1, <1>2, <2>2 DEF CacheInv, CacheTypes
  <2>5. EntriesUnique'
    BY <2>3 DEF CacheInv, EntriesUnique
  <2>6. \A d \in Clients : \A b \in later'[d] : D!Ever(served'[b]) /\ later'[b] \subseteq later'[d]
    BY <1>1, <1>2, <2>2 DEF CacheInv, CacheTypes
  <2>7. ASSUME NEW d \in Clients, D!Ever(served'[d])
        PROVE  D!Cardinality(later[d])' >= CacheSize \/ Paused(d)'
    <3>1. CASE d = c
      <4>1. D!Ever(served[c])
        BY <1>3 DEF CacheInv, CacheAged
      <4>2. CASE Paused(c)
        <5>1. D!Cardinality(later[c]) >= Written(x, nextClient, CacheSize)
          BY <4>2, <1>3 DEF Paused, CacheInv, EntriesUnique
        <5>2. cache'[x].ip = c /\ D!Now' - cache'[x].at <= D!Fast' - served'[c].fast
          BY <1>1, <1>2, <1>3, <2>3
        <5> QED BY <3>1, <5>1, <5>2, <2>2 DEF Paused
      <4> QED BY <3>1, <4>1, <4>2, <2>2 DEF CacheInv
    <3>2. CASE d # c
      <4>1. served'[d] = served[d]
        BY <3>2, <1>2
      <4>2. CASE Paused(d)
        <5>1. PICK k \in Ks : /\ cache[k].ip = d /\ D!Now - cache[k].at <= D!Fast - served[d].fast
                              /\ D!Cardinality(later[d]) >= Written(k, nextClient, CacheSize)
          BY <4>2 DEF Paused
        <5>2. cache'[k] = cache[k]
          BY <5>1, <3>2, <1>3, <2>3
        <5> QED BY <5>1, <5>2, <4>1, <1>1, <2>2 DEF Paused
      <4> QED BY <2>7, <4>1, <4>2, <2>2 DEF CacheInv
    <3> QED BY <3>1, <3>2
  <2>8. ASSUME NEW k \in Ks, cache'[k].ip \in Clients
        PROVE  CacheAged(k)'
    <3>1. CASE k = x
      BY <3>1, <1>1, <1>2, <1>3, <2>3 DEF CacheAged
    <3>2. CASE k # x
      <4>1. cache'[k] = cache[k] /\ cache[k].ip # c
        BY <3>2, <1>3, <2>3 DEF CacheInv, EntriesUnique
      <4>2. served'[cache[k].ip] = served[cache[k].ip] /\ CacheAged(k)
        BY <4>1, <2>8, <1>2 DEF CacheInv
      <4> QED BY <4>1, <4>2, <1>1 DEF CacheAged
    <3> QED BY <3>1, <3>2
  <2> QED BY <2>4, <2>5, <2>6, <2>7, <2>8 DEF CacheInv
<1>4. CASE \A x \in Ks : cache[x].ip # c
  <2>1. D!Entry(c) = {}
    BY <1>4, EntryIs
  <2>2. /\ cache' = [cache EXCEPT ![nextClient] = [ip |-> c, at |-> D!Now]]
        /\ nextClient' = (nextClient + 1) % CacheSize
        /\ later' = [d \in Clients |-> IF d = c THEN {} ELSE later[d] \cup {c}]
    BY <2>1 DEF D!Serve
  <2>n. nextClient \in Ks
    BY DEF CacheInv, CacheTypes
  <2>3. \A k \in Ks : cache'[k] = IF k = nextClient THEN [ip |-> c, at |-> D!Now] ELSE cache[k]
    BY <2>2 DEF CacheInv, CacheTypes
  <2>l. \A d \in Clients : /\ later'[d] = IF d = c THEN {} ELSE later[d] \cup {c}
                           /\ later[d] \subseteq Clients
    BY <2>2 DEF CacheInv, CacheTypes
  <2>4. CacheTypes'
    <3>1. nextClient' \in Ks
      BY <2>2, <2>n, WrittenMoves
    <3> QED BY <1>1, <1>2, <2>2, <3>1 DEF CacheInv, CacheTypes
  <2>5. EntriesUnique'
    BY <1>4, <2>3 DEF CacheInv, EntriesUnique
  <2>6. ASSUME NEW d \in Clients, NEW b \in later'[d]
        PROVE  D!Ever(served'[b]) /\ later'[b] \subseteq later'[d]
    <3>1. d # c /\ b \in later[d] \cup {c} /\ b \in Clients
      BY <2>l
    <3>2. CASE b = c
      <4>1. served'[c] = D!Moment /\ later'[c] = {}
        BY <1>2, <2>l
      <4> QED BY <3>2, <4>1, <1>1
    <3>3. CASE b # c
      <4>1. D!Ever(served[b]) /\ later[b] \subseteq later[d]
        BY <3>1, <3>3 DEF CacheInv
      <4> QED BY <3>1, <3>3, <4>1, <2>l, <1>2
    <3> QED BY <3>2, <3>3
  <2>7. ASSUME NEW d \in Clients, c \in later[d]
        PROVE  D!Cardinality(later[d]) >= CacheSize
    <3>1. D!Ever(served[c]) /\ later[c] \subseteq later[d]
      BY <2>7 DEF CacheInv
    <3>2. ~ Paused(c)
      BY <1>4 DEF Paused
    <3>3. D!Cardinality(later[c]) >= CacheSize
      BY <3>1, <3>2 DEF CacheInv
    <3>4. /\ D!Cardinality(later[c]) \in Nat /\ D!Cardinality(later[d]) \in Nat
          /\ D!Cardinality(later[c]) <= D!Cardinality(later[d])
      BY <3>1, <2>l, FinitePart, Larger
    <3> QED BY <3>3, <3>4
  <2>8. ASSUME NEW d \in Clients, D!Ever(served'[d])
        PROVE  D!Cardinality(later[d])' >= CacheSize \/ Paused(d)'
    <3>1. CASE d = c
      <4>1. cache'[nextClient].ip = c /\ cache'[nextClient].at = D!Now /\ served'[c] = D!Moment
            /\ later'[c] = {}
        <5>1. cache'[nextClient] = [ip |-> c, at |-> D!Now]
          BY <2>n, <2>3
        <5>2. cache'[nextClient].ip = c /\ cache'[nextClient].at = D!Now
          BY ONLY <5>1
        <5>3. served'[c] = D!Moment
          BY <1>2
        <5>4. later'[c] = {}
          BY <2>l
        <5> QED BY <5>2, <5>3, <5>4
      <4>2. D!Cardinality({}) = 0
        BY FS_EmptySet DEF D!Cardinality, Cardinality
      <4>3. Written(nextClient, nextClient', CacheSize) = 0
        BY <2>2, <2>n, WrittenMoves
      <4>4. D!Now' - cache'[nextClient].at <= D!Fast' - served'[c].fast
        BY <4>1, <1>1
      <4>5. D!Cardinality(later'[c]) >= Written(nextClient, nextClient', CacheSize)
        BY <4>1, <4>2, <4>3
      <4> QED BY <3>1, <4>1, <4>4, <4>5, <2>n DEF Paused
    <3>2. CASE d # c
      <4>1. served'[d] = served[d] /\ later'[d] = later[d] \cup {c}
        BY <3>2, <1>2, <2>l
      <4>2. /\ D!Cardinality(later[d]) \in Nat
            /\ D!Cardinality(later'[d]) =
                 IF c \in later[d] THEN D!Cardinality(later[d]) ELSE D!Cardinality(later[d]) + 1
        BY <4>1, <2>l, FinitePart, Added
      <4>3. CASE D!Cardinality(later[d]) >= CacheSize
        BY <4>2, <4>3
      <4>4. CASE D!Cardinality(later[d]) < CacheSize
        <5>1. c \notin later[d] /\ Paused(d)
          BY <2>7, <2>8, <4>1, <4>2, <4>4 DEF CacheInv
        <5>2. PICK k \in Ks : /\ cache[k].ip = d /\ D!Now - cache[k].at <= D!Fast - served[d].fast
                              /\ D!Cardinality(later[d]) >= Written(k, nextClient, CacheSize)
          BY <5>1 DEF Paused
        <5>3. CASE k = nextClient
          <6>1. Written(k, nextClient, CacheSize) = CacheSize - 1
            BY <5>3, <2>n, WrittenMoves
          <6> QED BY <6>1, <5>1, <5>2, <4>2
        <5>4. CASE k # nextClient
          <6>1. Written(k, nextClient', CacheSize) = Written(k, nextClient, CacheSize) + 1
                /\ Written(k, nextClient, CacheSize) \in Int
            BY <5>4, <2>2, <2>n, WrittenMoves
          <6>2. D!Cardinality(later'[d]) >= Written(k, nextClient', CacheSize)
            BY <6>1, <5>1, <5>2, <4>2
          <6>3. cache'[k].ip = d /\ D!Now' - cache'[k].at <= D!Fast' - served'[d].fast
            BY <5>2, <5>4, <2>3, <4>1, <1>1
          <6> QED BY <6>2, <6>3 DEF Paused
        <5> QED BY <5>3, <5>4
      <4> QED BY <4>2, <4>3, <4>4
    <3> QED BY <3>1, <3>2
  <2>9. ASSUME NEW k \in Ks, cache'[k].ip \in Clients
        PROVE  CacheAged(k)'
    <3>1. CASE k = nextClient
      BY <3>1, <1>1, <1>2, <2>3 DEF CacheAged
    <3>2. CASE k # nextClient
      <4>1. cache'[k] = cache[k] /\ cache[k].ip # c
        BY <3>2, <1>4, <2>3
      <4>2. served'[cache[k].ip] = served[cache[k].ip] /\ CacheAged(k)
        BY <4>1, <2>9, <1>2 DEF CacheInv
      <4> QED BY <4>1, <4>2, <1>1 DEF CacheAged
    <3> QED BY <3>1, <3>2
  <2> QED BY <2>4, <2>5, <2>6, <2>8, <2>9 DEF CacheInv
<1> QED BY <1>3, <1>4

(* As RingStands.                                                            *)
LEMMA CacheStands ==
  ASSUME CacheInv, UNCHANGED <<cache, nextClient, served, later>>,
         {elapsed', ahead', behind'} \subseteq Nat,
         elapsed' >= elapsed, ahead' >= ahead, behind' >= behind
  PROVE  CacheInv'
<1>0. /\ {D!Now, D!Now', D!Fast, D!Fast', D!Slow, D!Slow'} \subseteq Int /\ D!Fast <= D!Fast'
      /\ D!Now' - D!Now <= D!Fast' - D!Fast /\ D!Slow' - D!Slow <= D!Now' - D!Now
  <2>1. {elapsed, ahead, behind} \subseteq Nat
    BY DEF CacheInv, CacheTypes
  <2> QED BY <2>1, ClocksStand
<1>1. CacheTypes' /\ EntriesUnique'
  BY <1>0 DEF CacheInv, CacheTypes, EntriesUnique
<1>2. ASSUME NEW c \in Clients, Paused(c) PROVE Paused(c)'
  <2>1. PICK k \in 0..(CacheSize - 1) :
            /\ cache[k].ip = c /\ D!Now - cache[k].at <= D!Fast - served[c].fast
            /\ D!Cardinality(later[c]) >= Written(k, nextClient, CacheSize)
    BY <1>2 DEF Paused
  <2>2. cache[k].at \in Int /\ served[c].fast \in Int /\ served[c].slow \in Int
    BY DEF CacheInv, CacheTypes
  <2>4. D!Now' - cache'[k].at <= D!Fast' - served'[c].fast
    BY <2>1, <2>2, <1>0
  <2> QED BY <2>1, <2>4 DEF Paused
<1>3. ASSUME NEW k \in 0..(CacheSize - 1), cache'[k].ip \in Clients PROVE CacheAged(k)'
  <2>1. CacheAged(k) /\ cache[k].at \in Int /\ served[cache[k].ip].slow \in Int
    BY <1>3 DEF CacheInv, CacheTypes
  <2> QED BY <1>0, <2>1 DEF CacheAged, D!Ever
<1>4. /\ \A d \in Clients : \A c \in later'[d] : D!Ever(served'[c]) /\ later'[c] \subseteq later'[d]
      /\ \A c \in Clients : D!Ever(served'[c]) => D!Cardinality(later[c])' >= CacheSize \/ Paused(c)'
  BY <1>2 DEF CacheInv
<1> QED BY <1>1, <1>3, <1>4 DEF CacheInv

LEMMA CacheKept == CacheInv /\ [D!Next]_(D!discoveryVars) => CacheInv'
<1> SUFFICES ASSUME CacheInv, [D!Next]_(D!discoveryVars) PROVE CacheInv'
  OBVIOUS
<1> USE DEF D!tables, D!history
<1>t. {elapsed, ahead, behind} \subseteq Nat
  BY DEF CacheInv, CacheTypes
<1>1. CASE UNCHANGED D!discoveryVars
  BY <1>1, <1>t, CacheStands DEF D!discoveryVars, D!clock
<1>2. ASSUME NEW i \in Ids, NEW c \in Clients, D!Probe(i, c) PROVE CacheInv'
  <2>1. UNCHANGED D!clock
    BY <1>2 DEF D!Probe
  <2>2. CASE D!Ignore \/ D!Hold(i)
    BY <2>1, <2>2, <1>t, CacheStands DEF D!Hold, D!Ignore, D!clock
  <2>3. CASE D!Answer(i, c)
    BY <2>1, <2>3, CacheServes DEF D!Answer
  <2> QED BY <1>2, <2>2, <2>3 DEF D!Probe
<1>3. CASE D!Tick
  BY <1>3, <1>t, CacheStands DEF D!Tick
<1>4. CASE D!SetForward \/ D!SetBack
  <2>1. ahead' \in Nat /\ behind' \in Nat /\ ahead' >= ahead /\ behind' >= behind
    BY <1>4, <1>t, TablesAssumption DEF D!SetForward, D!SetBack, D!TablesAssumption
  <2> QED BY <1>4, <1>t, <2>1, CacheStands DEF D!SetForward, D!SetBack
<1>5. CASE D!OtherDatagram \/ D!StartDiscovery \/ D!StopDiscovery \/ D!Join
  BY <1>5, <1>t, CacheStands DEF D!clock, D!OtherDatagram, D!StartDiscovery, D!StopDiscovery, D!Join
<1> QED BY <1>1, <1>2, <1>3, <1>4, <1>5 DEF D!Next

(* What both tables together say of a probe.                                 *)
LEMMA Answered == RingInv /\ CacheInv => D!ProbesAnswered
<1> SUFFICES ASSUME RingInv, CacheInv PROVE D!ProbesAnswered
  OBVIOUS
<1> USE TablesAssumption DEF D!TablesAssumption
<1>1. {D!Now, D!Fast, D!Slow} \subseteq Int
  BY DEF RingInv, RingTypes, D!Now, D!Fast, D!Slow
<1>2. ASSUME NEW i \in Ids, ~ D!IsDuplicate(i), D!Fresh(heard[i], Window)
      PROVE  D!Cardinality(younger[i]) >= RingSize
  <2> SUFFICES ASSUME NEW k \in 0..(RingSize - 1), ring[k].id = i,
                      D!Now - ring[k].at <= D!Fast - heard[i].fast
               PROVE  FALSE
    BY <1>2 DEF RingInv, Held
  <2>1. ring[k].at \in Int /\ DOMAIN ring = 0..(RingSize - 1) /\ heard[i].fast \in Int /\ heard[i].slow \in Int
    BY DEF RingInv, RingTypes
  <2>2. D!Now - ring[k].at < Window
    <3>1. D!Fast - heard[i].fast < Window
      BY <1>2 DEF D!Fresh
    <3>2. /\ Window \in Int /\ D!Fast \in Int /\ D!Now \in Int /\ heard[i].fast \in Int
          /\ ring[k].at \in Int /\ D!Now - ring[k].at <= D!Fast - heard[i].fast
      BY <1>1, <2>1
    <3> QED BY ONLY <3>1, <3>2
  <2> QED BY <1>2, <2>1, <2>2 DEF D!IsDuplicate
<1>3. ASSUME NEW c \in Clients, ~ D!IsPausing(c), D!Fresh(served[c], Pause)
      PROVE  D!Cardinality(later[c]) >= CacheSize
  <2>1. D!Ever(served[c])
    BY <1>3 DEF D!Fresh, D!Ever
  <2> SUFFICES ASSUME NEW k \in 0..(CacheSize - 1), cache[k].ip = c,
                      D!Now - cache[k].at <= D!Fast - served[c].fast
               PROVE  FALSE
    BY <2>1 DEF CacheInv, Paused
  <2>2. cache[k].at \in Int /\ served[c].fast \in Int /\ served[c].slow \in Int /\ k \in D!Entry(c)
    BY EntryIs DEF CacheInv, CacheTypes
  <2>3. D!Now - cache[k].at < Pause
    BY <1>3, <2>2, <1>1 DEF D!Fresh, D!Ever
  <2> QED BY <1>3, <2>2, <2>3 DEF D!IsPausing
<1>4. ASSUME NEW i \in Ids, D!IsDuplicate(i) PROVE D!Recent(heard[i], Window)
  <2>1. PICK k \in DOMAIN ring : ring[k].id = i /\ D!Now - ring[k].at < Window
    BY <1>4 DEF D!IsDuplicate
  <2>2. k \in 0..(RingSize - 1) /\ ring[k].at \in Int /\ heard[i].fast \in Int /\ heard[i].slow \in Int
    BY DEF RingInv, RingTypes
  <2>3. D!Ever(heard[i]) /\ D!Slow - heard[i].slow <= D!Now - ring[k].at
    BY <1>4, <2>1, <2>2 DEF RingInv, RingAged
  <2> QED BY <1>1, <1>4, <2>1, <2>2, <2>3 DEF D!Recent
<1>5. ASSUME NEW c \in Clients, D!IsPausing(c) PROVE D!Recent(served[c], Pause)
  <2>1. PICK k \in D!Entry(c) : D!Now - cache[k].at < Pause
    BY <1>5 DEF D!IsPausing
  <2>2. k \in 0..(CacheSize - 1) /\ cache[k].ip = c /\ cache[k].at \in Int /\ served[c].fast \in Int /\ served[c].slow \in Int
    BY EntryIs DEF CacheInv, CacheTypes
  <2>3. D!Ever(served[c]) /\ D!Slow - served[c].slow <= D!Now - cache[k].at
    BY <1>5, <2>2 DEF CacheInv, CacheAged
  <2> QED BY <1>1, <1>5, <2>1, <2>2, <2>3 DEF D!Recent
<1> QED BY <1>2, <1>3, <1>4, <1>5 DEF D!ProbesAnswered, D!NotTwice, D!IgnoredForAReason, D!Answers

(* onvif_discovery.c:134-196: a retransmission within the window, or a       *)
(* client twice within its pause, is answered only if as many others came in *)
(* between as the table holds, or the clock was set forward by what is left  *)
(* of the window; nothing is ignored without that reason for longer than the *)
(* window, the pause and the time by which the clock was set back since.     *)
THEOREM ProbesStayAnswered == ProcessSpec => []ProbesAnswered
<1>1. ProcessInit => RingInv /\ CacheInv
  BY RingInitially, CacheInitially DEF ProcessInit
<1>2. RingInv /\ CacheInv /\ [ProcessNext]_processVars => (RingInv /\ CacheInv)'
  BY StepsOfParts, RingKept, CacheKept
<1>3. RingInv /\ CacheInv => ProbesAnswered
  BY Answered DEF ProbesAnswered
<1> QED BY <1>1, <1>2, <1>3, PTL DEF ProcessSpec
=============================================================================
