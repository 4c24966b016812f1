------------------------------- MODULE Streamer -------------------------------
(* main (src/main.c) from the configuration to the frame manager and through   *)
(* the exit path, beside the thread that reloads the configuration file        *)
(* (src/config.c).  Both use g_config and no lock orders them.  The SDK is     *)
(* what main has acquired from it; any of its calls may fail, and before the   *)
(* exit path a failed call ends the process without releasing anything.        *)
EXTENDS Integers, FiniteSets, FiniteSetsExt, Functions

CONSTANTS Chans,      \* the streams of the configuration file: 0..1
          Contents,   \* contents of the file: [ok, fps, on]
          MinFps, MaxFps, \* what the sensor driver reports
          MaxEdits,   \* bound of the model on edits of the file
          PerSecond   \* edits that share one modification time

\* what the modules that instantiate this one assume of its constants
RatesAssumption ==
  /\ MinFps \in Nat /\ MaxFps \in Nat /\ MinFps <= MaxFps
  /\ \A c \in Contents : c.fps \in Int
ChansAssumption ==
  /\ Chans \subseteq Nat
  /\ \E n \in Chans : Chans = 0..n
  /\ \A c \in Contents : c.on \subseteq Chans

VARIABLES pc,         \* where main is
          stream,     \* loop index of main where it walks g_config->streams
          enable,     \* the chn[] entries with enable set
          sdk,        \* what is acquired: <<what, channel>>
          sensorFps,  \* argument of IMP_ISP_Tuning_SetSensorFPS, 0 before
          encoderFps, \* frame rate each encoder channel was created with, 0 before
          fps, on,    \* g_config->sensor.fps; streams with enabled set
          seen,       \* g_config->last_modified_time
          monitor,    \* where the monitor thread is
          json,       \* what it has parsed the file to
          file,       \* the file, [ok, fps, on]
          version,    \* edits of the file so far
          loaded,     \* history: the version that was read last
          late        \* history: main's settings were replaced after it adjusted them

mainVars   == <<pc, stream, enable, sdk, sensorFps, encoderFps>>
configVars == <<fps, on, seen>>
fileVars   == <<file, version>>
streamerVars == <<mainVars, configVars, monitor, json, fileVars, loaded, late>>

\* IMP_ISP_Open, AddSensor, EnableSensor, System_Init, EnableTuning, in order
Board == {"isp", "sensor", "enabled", "system", "tuning"}

TypeOK ==
  /\ pc \in STRING /\ stream \in Nat /\ enable \subseteq Chans
  /\ sdk \subseteq (Board \cup {"source", "group", "encoder", "jpeg", "osd",
                                "bound", "direct", "streaming"})
                   \X (Chans \cup {0})
  /\ fps \in Nat /\ on \subseteq Chans /\ seen \in Nat /\ loaded \in Nat
  /\ sensorFps \in Nat /\ encoderFps \in [Chans -> Nat]
  /\ monitor \in {"none", "sleep", "stat", "read", "fps", "streams", "fill"}
  /\ file \in Contents /\ json \in Contents /\ version \in 0..MaxEdits
  /\ late \in BOOLEAN

Mtime == version \div PerSecond
Usable(c) == c.ok /\ c.fps \in 1..60

Init ==
  /\ pc = "config" /\ stream = 0 /\ enable = {} /\ sdk = {}
  /\ sensorFps = 0 /\ encoderFps = [c \in Chans |-> 0]
  /\ fps = 0 /\ on = {} /\ seen = 0 /\ monitor = "none"
  /\ file \in Contents /\ json = file /\ version = 0 /\ loaded = 0 /\ late = FALSE

-----------------------------------------------------------------------------
(* Start-up, up to the sensor.                                              *)

Goes(from, to) == pc = from /\ pc' = to

\* main returns -1: the process is over, and its threads with it
Dead == {"failed", "ended"}

\* config_init_and_load; the monitor is allowed not to start
LoadConfig ==
  /\ IF Usable(file) THEN Goes("config", "modules") ELSE Goes("config", "failed")
  /\ fps' = file.fps /\ on' = file.on /\ seen' = Mtime /\ loaded' = version
  /\ monitor' \in {"sleep", "none"}
  /\ UNCHANGED <<stream, enable, sdk, sensorFps, encoderFps, json, fileVars, late>>

\* module registration and initialisation (ModuleSystem), whose result is only
\* logged, and sensor_read_info_from_proc
ReadSensor ==
  /\ Goes("modules", "adjust") \/ Goes("modules", "failed")
  /\ UNCHANGED <<stream, enable, sdk, sensorFps, encoderFps, configVars, monitor,
                 json, fileVars, loaded, late>>

Unclamped == fps
Clamped == IF fps > MaxFps THEN MaxFps ELSE IF fps < MinFps THEN MinFps ELSE fps
Adjusted == Clamped

\* sensor_validate_and_adjust_config writes what it adjusts into g_config
Adjust ==
  /\ Goes("adjust", "isp")
  /\ fps' = Adjusted
  /\ UNCHANGED <<stream, enable, sdk, sensorFps, encoderFps, on, seen, monitor,
                 json, fileVars, loaded, late>>

AfterBoard == [isp |-> "sensor", sensor |-> "enabled", enabled |-> "system",
               system |-> "tuning", tuning |-> "sensorfps"]

\* the ISP, the sensor, the system, tuning and its five settings
Acquire ==
  /\ pc \in DOMAIN AfterBoard
  /\ \/ sdk' = sdk \cup {<<pc, 0>>} /\ pc' = AfterBoard[pc]
     \/ pc' = "failed" /\ UNCHANGED sdk
  /\ UNCHANGED <<stream, enable, sensorFps, encoderFps, configVars, monitor, json,
                 fileVars, loaded, late>>

SetSensorFps ==
  /\ Goes("sensorfps", "apply") \/ Goes("sensorfps", "failed")
  /\ sensorFps' = fps
  /\ UNCHANGED <<stream, enable, sdk, encoderFps, configVars, monitor, json, fileVars,
                 loaded, late>>

\* apply_config_to_channels: from here on main follows chn[]
ApplyConfig ==
  /\ Goes("apply", "source")
  /\ enable' = on
  /\ UNCHANGED <<stream, sdk, sensorFps, encoderFps, configVars, monitor, json, fileVars,
                 loaded, late>>

-----------------------------------------------------------------------------
(* Start-up, the pipeline of each enabled channel.                          *)

Holding(what) == {c \in Chans : <<what, c>> \in sdk}
Pending(what) == enable \ Holding(what)

\* One pass over the enabled channels; a failed call ends the process.
Each(from, what, to) ==
  /\ pc = from
  /\ IF Pending(what) = {} THEN pc' = to /\ UNCHANGED sdk
     ELSE \/ sdk' = sdk \cup {<<what, Min(Pending(what))>>} /\ UNCHANGED pc
          \/ pc' = "failed" /\ UNCHANGED sdk

\* IMP_FrameSource_CreateChn with its attributes; IMP_Encoder_CreateGroup
CreateSources ==
  /\ Each("source", "source", "group") \/ Each("group", "group", "encoder")
  /\ UNCHANGED <<stream, enable, sensorFps, encoderFps, configVars, monitor, json,
                 fileVars, loaded, late>>

\* The attributes of the encoder channels "created": the sensor's frame rate as
\* g_config holds it by now, which is the group length too
EncoderRates(created) ==
  [c \in Chans |-> IF c \in created THEN fps ELSE encoderFps[c]]

\* buffers, attributes, IMP_Encoder_CreateChn and IMP_Encoder_RegisterChn
CreateEncoders ==
  /\ Each("encoder", "encoder", "jpeg")
  /\ encoderFps' = EncoderRates({c \in Chans : <<"encoder", c>> \in sdk' \ sdk})
  /\ stream' = 0
  /\ UNCHANGED <<enable, sensorFps, configVars, monitor, json, fileVars, loaded, late>>

StreamsWalked == stream > Max(Chans)

\* jpeg_init_channel creates the channel and registers it to the group of the
\* stream, which has to exist
JpegCreated ==
  /\ stream \in Holding("group")
  /\ sdk' = sdk \cup {<<"jpeg", stream>>} /\ UNCHANGED pc

\* one per stream that g_config enables by now
CreateJpegs ==
  /\ pc = "jpeg"
  /\ IF StreamsWalked THEN pc' = "osd" /\ UNCHANGED <<stream, sdk>>
     ELSE /\ stream' = stream + 1
          /\ \/ stream \notin on /\ UNCHANGED <<pc, sdk>>
             \/ stream \in on /\ JpegCreated
             \/ stream \in on /\ pc' = "failed" /\ UNCHANGED sdk
  /\ UNCHANGED <<enable, sensorFps, encoderFps, configVars, monitor, json, fileVars,
                 loaded, late>>

\* osd_init may fail for any channel: the channel then goes without
CreateOsds ==
  /\ Goes("osd", "bind")
  /\ \E with \in SUBSET enable : sdk' = sdk \cup ({"osd"} \X with)
  /\ UNCHANGED <<stream, enable, sensorFps, encoderFps, configVars, monitor, json,
                 fileVars, loaded, late>>

\* frame source to OSD to encoder, or frame source to encoder
Bind ==
  /\ \/ /\ Goes("bind", "stream")
        /\ sdk' = sdk \cup ({"bound"} \X Holding("osd"))
                      \cup ({"direct"} \X (enable \ Holding("osd")))
     \/ Goes("bind", "failed") /\ UNCHANGED sdk
  /\ UNCHANGED <<stream, enable, sensorFps, encoderFps, configVars, monitor, json,
                 fileVars, loaded, late>>

StreamOn ==
  /\ Each("stream", "streaming", "start")
  /\ UNCHANGED <<stream, enable, sensorFps, encoderFps, configVars, monitor, json,
                 fileVars, loaded, late>>

\* module_start_all, the snapshot worker and the consumers, whose failures are
\* logged; then the frame manager, whose failure is the only way out
StartServices ==
  /\ Goes("start", "running") \/ Goes("start", "off")
  /\ UNCHANGED <<stream, enable, sdk, sensorFps, encoderFps, configVars, monitor, json,
                 fileVars, loaded, late>>

-----------------------------------------------------------------------------
(* The exit path: the first call that fails returns from main.              *)

\* One pass over the enabled channels that still hold something.
Release(from, whats, to) ==
  LET left == enable \cap UNION {Holding(w) : w \in whats}
  IN /\ pc = from
     /\ IF left = {} THEN pc' = to /\ UNCHANGED sdk
        ELSE \/ sdk' = sdk \ (whats \X {Min(left)}) /\ UNCHANGED pc
             \/ pc' = "failed" /\ UNCHANGED sdk

\* Step.a: IMP_FrameSource_DisableChn
StreamOff ==
  /\ Release("off", {"streaming"}, "unbind")
  /\ UNCHANGED <<stream, enable, sensorFps, encoderFps, configVars, monitor, json,
                 fileVars, loaded, late>>

\* Step.b: both unbinds name the OSD cell, so they fail, and only log it, for a
\* channel that was bound without one; then osd_cleanup_all
Unbind ==
  /\ Goes("unbind", "unjpeg") /\ stream' = 0
  /\ \E failed \in SUBSET enable :
       sdk' = sdk \ (({"bound"} \X (enable \ failed)) \cup ({"osd"} \X Chans))
  /\ UNCHANGED <<enable, sensorFps, encoderFps, configVars, monitor, json, fileVars,
                 loaded, late>>

\* jpeg_exit walks the streams g_config enables by now: querying a channel that
\* was never created fails
ReleaseJpegs ==
  /\ pc = "unjpeg"
  /\ IF StreamsWalked THEN pc' = "unencode" /\ UNCHANGED <<stream, sdk>>
     ELSE /\ stream' = stream + 1
          /\ \/ stream \notin on /\ UNCHANGED <<pc, sdk>>
             \/ /\ stream \in on \cap Holding("jpeg")
                /\ sdk' = sdk \ {<<"jpeg", stream>>} /\ UNCHANGED pc
             \/ stream \in on /\ pc' = "failed" /\ UNCHANGED sdk
  /\ UNCHANGED <<enable, sensorFps, encoderFps, configVars, monitor, json, fileVars,
                 loaded, late>>

\* Step.c: encoder channel and group; the mutant forgets the group
ChannelOnly == {"encoder"}
ChannelAndGroup == {"encoder", "group"}
PerEncoder == ChannelAndGroup

\* Step.c and Step.d
ReleaseEncoders ==
  /\ Release("unencode", PerEncoder, "unsource") \/ Release("unsource", {"source"}, "unsystem")
  /\ UNCHANGED <<stream, enable, sensorFps, encoderFps, configVars, monitor, json,
                 fileVars, loaded, late>>

\* snapshot worker, modules, Step.e: System_Exit, DisableSensor, DelSensor,
\* DisableTuning, Close
ReleaseBoard ==
  /\ \/ Goes("unsystem", "ended") /\ sdk' = sdk \ (Board \X {0})
     \/ Goes("unsystem", "failed") /\ sdk' = sdk \ {<<"system", 0>>}
  /\ UNCHANGED <<stream, enable, sensorFps, encoderFps, configVars, monitor, json,
                 fileVars, loaded, late>>

-----------------------------------------------------------------------------
(* The monitor thread and whoever edits the file.                           *)

Alive == pc \notin Dead

Edit ==
  /\ Alive /\ version < MaxEdits
  /\ version' = version + 1 /\ file' \in Contents \ {file}
  /\ UNCHANGED <<mainVars, configVars, monitor, json, loaded, late>>

\* main has read or is going to read what it adjusted
PastAdjusting == pc \notin {"config", "modules", "adjust"}

\* config_check_and_reload, every two seconds; a failing stat() is a stutter
Check ==
  /\ Alive /\ monitor = "sleep" /\ Mtime # seen /\ monitor' = "stat"
  /\ UNCHANGED <<mainVars, configVars, json, fileVars, loaded, late>>

\* config_reload drops the old tree; config_load looks at the time before the
\* contents
Stamp ==
  /\ Alive /\ monitor = "stat" /\ monitor' = "read"
  /\ seen' = Mtime
  /\ UNCHANGED <<mainVars, fps, on, json, fileVars, loaded, late>>

\* json_object_from_file; a file that does not parse leaves no tree and the
\* settings as they are
Read ==
  /\ Alive /\ monitor = "read"
  /\ json' = file /\ loaded' = version
  /\ monitor' = IF file.ok THEN "fps" ELSE "sleep"
  /\ UNCHANGED <<mainVars, configVars, fileVars, late>>

\* the mutant is a loader that takes the modification time when it has read
StampedAgain == Mtime
SeenAfterReading == seen

\* config_parse_json overwrites the frame rate that main adjusted ...
ParseFps ==
  /\ Alive /\ monitor = "fps" /\ monitor' = "streams"
  /\ fps' = json.fps /\ seen' = SeenAfterReading
  /\ late' = (late \/ PastAdjusting)
  /\ UNCHANGED <<mainVars, on, json, fileVars, loaded>>

\* ... puts a cleared array in the place of the streams ...
ClearStreams ==
  /\ Alive /\ monitor = "streams" /\ monitor' = "fill"
  /\ on' = {} /\ late' = (late \/ PastAdjusting)
  /\ UNCHANGED <<mainVars, fps, seen, json, fileVars, loaded>>

\* parse_stream_config into a cleared entry: a stream that does not say that it
\* is enabled is not
Parsed(tree) == {c \in Chans : c \in tree.on}

\* ... and fills it; the checks of config_load follow and undo nothing
FillStreams ==
  /\ Alive /\ monitor = "fill" /\ monitor' = "sleep"
  /\ on' = Parsed(json) /\ late' = (late \/ PastAdjusting)
  /\ UNCHANGED <<mainVars, fps, seen, json, fileVars, loaded>>

Monitor == Check \/ Stamp \/ Read \/ ParseFps \/ ClearStreams \/ FillStreams

Main ==
  \/ LoadConfig \/ ReadSensor \/ Adjust \/ Acquire \/ SetSensorFps \/ ApplyConfig
  \/ CreateSources \/ CreateEncoders \/ CreateJpegs \/ CreateOsds \/ Bind \/ StreamOn
  \/ StartServices \/ StreamOff \/ Unbind \/ ReleaseJpegs \/ ReleaseEncoders \/ ReleaseBoard

Next == Main \/ Monitor \/ Edit

(* The monitor is a thread of its own that sleeps two seconds a round: the    *)
(* scheduler runs it.                                                         *)
Spec == Init /\ [][Next]_streamerVars
FairSpec == Spec /\ WF_streamerVars(Monitor)

-----------------------------------------------------------------------------
(* Properties.                                                              *)

(* An edit of the file in a second of its own is not missed, wherever in the  *)
(* reload it falls: config_load takes the modification time before it reads,  *)
(* so an edit in between is found on the next round.                          *)
EditsArrive == (Alive /\ monitor # "none") ~> (~Alive \/ loaded = version)

(* Only a reload that overtakes main (config_parse_json against               *)
(* sensor_validate_and_adjust_config) makes the sensor or an encoder run at a *)
(* rate outside what the sensor reports.                                      *)
RatesWithinSensor ==
  ~late => \A r \in {sensorFps} \cup Range(encoderFps) : r = 0 \/ r \in MinFps..MaxFps

(* When main returns 0 from the exit path and no reload changed the streams   *)
(* under it, nothing is left but the direct bindings, which it never undoes,  *)
(* and those whose unbinding failed.                                          *)
NothingLeft == (pc = "ended" /\ ~late) => sdk \subseteq {"direct", "bound"} \X Chans
=============================================================================
