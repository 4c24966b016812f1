------------------------------- MODULE Process -------------------------------
(* Independent parts of the life of the process, one per behaviour: the lock   *)
(* that keeps a second instance out, the modules it starts, main beside the    *)
(* thread that reloads its configuration, the on-screen display, the switch    *)
(* between day and night, motion detection, and the answers to discovery.      *)
(* "part" says which one a behaviour is about; the variables of the others     *)
(* keep an initial value.                                                      *)
EXTENDS InstanceLock, Integers, Sequences

CONSTANTS Linked, Manual, MaxModules, Foreign,                 \* ModuleSystem
          Chans, Contents, MinFps, MaxFps, MaxEdits, PerSecond, \* Streamer
          Streams, Size, Configs, TextSize, Lasting, ZoneLists, \* Osd
          Monitored, ZoneRegions, MaxSeconds,
          Settings, Lights, PhotoMaxFaults,                    \* Photosensing
          Cooldown, MinTime, MotionTime, MotionMaxFaults,      \* Motion
          Ids, Clients, RingSize, CacheSize, Window, Pause,    \* OnvifDiscovery
          DiscoveryTime, MaxAhead, MaxBack

VARIABLES part,
          stage, position, linked, registry, mstate, enabled, serving, router, owner,
          pc, stream, enable, sdk, sensorFps, encoderFps, fps, on, seen, monitor, json,
          file, version, loaded, late,
          main, config, zones, published, memory, handle, font, made, failed, box,
          timer, flag, chan, now, last, shown, turn, watched,
          settings, photoReady, photoRunning, photoThread, photoLeave, isp, filter, ircut,
          nights, days, record, light, photoFaults, disturbed,
          motionReady, motionRunning, ivs, motionThread, motionLeave, detected, executed,
          lastMotion, since, read, seconds, motionFaults, calls, begun, lost,
          answering, listener, ring, next, cache, nextClient, elapsed, ahead, behind,
          heard, younger, served, later

M == INSTANCE ModuleSystem

S == INSTANCE Streamer

O == INSTANCE Osd

P == INSTANCE Photosensing WITH
       ready <- photoReady, running <- photoRunning, thread <- photoThread,
       leave <- photoLeave, faults <- photoFaults, MaxFaults <- PhotoMaxFaults

V == INSTANCE Motion WITH
       ready <- motionReady, running <- motionRunning, thread <- motionThread,
       leave <- motionLeave, last <- lastMotion, now <- seconds, faults <- motionFaults,
       MaxTime <- MotionTime, MaxFaults <- MotionMaxFaults

D == INSTANCE OnvifDiscovery WITH
       running <- answering, thread <- listener, MaxTime <- DiscoveryTime

ASSUME RoutesAssumption == M!RoutesAssumption
ASSUME RatesAssumption == S!RatesAssumption
ASSUME ChansAssumption == S!ChansAssumption
ASSUME StreamsAssumption == O!StreamsAssumption
ASSUME SizesAssumption == O!SizesAssumption
ASSUME EventsAssumption == V!EventsAssumption
ASSUME TablesAssumption == D!TablesAssumption

moduleVars   == <<stage, position, linked, registry, mstate, enabled, serving, router, owner>>
streamerVars == <<pc, stream, enable, sdk, sensorFps, encoderFps, fps, on, seen, monitor,
                  json, file, version, loaded, late>>
osdVars == <<main, config, zones, published, memory, handle, font, made, failed, box,
             timer, flag, chan, now, last, shown, turn, watched>>
photoVars == <<settings, photoReady, photoRunning, photoThread, photoLeave, isp, filter, ircut,
               nights, days, record, light, photoFaults, disturbed>>
motionVars == <<motionReady, motionRunning, ivs, motionThread, motionLeave, detected, executed,
                lastMotion, since, read, seconds, motionFaults, calls, begun, lost>>
discoveryVars == <<answering, listener, ring, next, cache, nextClient, elapsed, ahead, behind,
                   heard, younger, served, later>>
controlVars == <<photoVars, motionVars, discoveryVars>>
daemonVars  == <<lockVars, moduleVars, streamerVars, osdVars>>
processVars == <<part, daemonVars, controlVars>>

ProcessInit ==
  /\ part \in {"lock", "modules", "main", "osd", "light", "motion", "discovery"}
  /\ Init /\ M!Init /\ S!Init /\ O!Init /\ P!Init /\ V!Init /\ D!Init

Daemon ==
  /\ UNCHANGED <<part, controlVars>>
  /\ \/ part = "lock" /\ Next /\ UNCHANGED <<moduleVars, streamerVars, osdVars>>
     \/ part = "modules" /\ M!Next /\ UNCHANGED <<lockVars, streamerVars, osdVars>>
     \/ part = "main" /\ S!Next /\ UNCHANGED <<lockVars, moduleVars, osdVars>>
     \/ part = "osd" /\ O!Next /\ UNCHANGED <<lockVars, moduleVars, streamerVars>>

AtLight(A)  == part = "light" /\ A /\ UNCHANGED <<part, daemonVars, motionVars, discoveryVars>>
AtMotion(A) == part = "motion" /\ A /\ UNCHANGED <<part, daemonVars, photoVars, discoveryVars>>

ProcessNext ==
  \/ Daemon
  \/ AtLight(P!Next)
  \/ AtMotion(V!Next)
  \/ part = "discovery" /\ D!Next /\ UNCHANGED <<part, daemonVars, photoVars, motionVars>>

ProcessSpec == ProcessInit /\ [][ProcessNext]_processVars

(* The monitor of Streamer, the control thread of Photosensing and the         *)
(* detection thread of Motion are threads that run when they can: their polls  *)
(* and sleeps end; so do scripts, and main joins.                              *)
Monitor == part = "main" /\ S!Monitor /\ UNCHANGED <<part, lockVars, moduleVars, osdVars, controlVars>>

ProcessFairness ==
  /\ WF_processVars(Monitor)
  /\ WF_processVars(AtLight(P!Poll))
  /\ WF_processVars(AtMotion(V!Thread)) /\ WF_processVars(AtMotion(V!Join))

-----------------------------------------------------------------------------
(* The properties of the parts, under their own names.                      *)

(* The types of all parts (main.c, module_system.c, config.c, osd_module.c     *)
(* and the control loops).                                                    *)
ProcessTypeOK == TypeOK /\ M!TypeOK /\ S!TypeOK /\ O!TypeOK /\ P!TypeOK /\ V!TypeOK /\ D!TypeOK

(* http_module.c:150-162: the paths of the image grabber are answered by the  *)
(* grabber exactly when it runs.                                              *)
ImagesAnswered == M!ImagesAnswered

(* config.c:397-421: an edit in a second of its own is not missed.            *)
EditsArrive == S!EditsArrive

(* sensor.c:166-232: only an overtaking reload breaks the limits of the       *)
(* sensor.                                                                    *)
RatesWithinSensor == S!RatesWithinSensor

(* main.c:1061-1212: an undisturbed exit leaves nothing but direct bindings   *)
(* and bindings whose removal failed.                                         *)
NothingLeft == S!NothingLeft

(* osd_module.c:2035-2053: a clock whose turn it was is current, unless another *)
(* stream's clock shows the same text.                                        *)
RefreshedUnlessTwin == O!RefreshedUnlessTwin

(* osd_module.c:2259: the clock of every watched stream is brought up to date. *)
EveryClockRefreshed == O!EveryClockRefreshed

(* osd_module.c:1572-1593, 1991-2005: what the exit leaves in the SDK is the   *)
(* clocks and what failed initialisations had made; no context stays in use    *)
(* and no font loaded.                                                        *)
CleanupSound == O!CleanupSound

(* osd_module.c:494, 947-963: the font of a drawing under way is not freed      *)
(* (false).                                                                   *)
FontHeld == O!FontHeld

(* osd_module.c:66-115, 2751-2825: clocks and zones lie inside the picture.   *)
BoxesInFrame == O!BoxesInFrame

(* photosensing_module.c:567-650: the mode follows the light that stays, and   *)
(* the filter the mode.                                                        *)
FollowsLight == P!FollowsLight

(* photosensing_module.c:629-637: the same after a switch that failed (false). *)
AlwaysReturns == P!AlwaysReturns

(* motion_module.c:281-358, 826-850: scripts come in pairs, events apart, IVS  *)
(* is given back, and stop returns.                                            *)
MotionDiscipline == V!MotionDiscipline

(* onvif_discovery.c:134-196: no probe answered twice or ignored for nothing,  *)
(* but for what the steps of the clock add to an age or take off it.           *)
ProbesAnswered == D!ProbesAnswered
=============================================================================
