--------------------------------- MODULE Osd ---------------------------------
(* The on-screen display (src/modules/osd/osd_module.c): main creates one     *)
(* context per stream before it starts the modules, a timer thread redraws    *)
(* the clock of the streams somebody watches once a second, the motion module *)
(* draws its zones once, and at exit main tears the contexts down while the   *)
(* timer still runs, perhaps in the middle of a drawing: the module is only   *)
(* stopped after that, and the locks of the two are not the same.             *)
EXTENDS Integers, Sequences, FiniteSets, SequencesExt

CONSTANTS Streams,     \* 0 .. MAX_STREAMS - 1
          Size,        \* stream -> [w, h] of its pictures
          Configs,     \* configurations to try: stream -> [on, time, logo, info,
                       \*   zones, format, x, y]
          TextSize,    \* format -> [w, h] of its rendered text
          Lasting,     \* format -> seconds after which its text changes
          ZoneLists,   \* zone files: sequences of [x, y, w, h]
          Monitored,   \* the stream whose frames the motion detector sees
          ZoneRegions, \* the regions for zones, OSD_MAX_MOTION_ZONES of them
          MaxSeconds   \* bound on the clock

\* what the modules that instantiate this one assume of its constants
StreamsAssumption ==
  /\ IsFiniteSet(Streams) /\ Streams = 0..(Cardinality(Streams) - 1)
  /\ ZoneRegions \in Seq(STRING)

\* a text is never of no size, for it has a margin; validation leaves zones of
\* size (0, 0) and zones with a width and a height
SizesAssumption ==
  /\ "time" \notin ToSet(ZoneRegions)
  /\ Size \in [Streams -> [w : Nat \ {0}, h : Nat \ {0}]] /\ Monitored \in Streams
  /\ \A f \in DOMAIN Lasting : TextSize[f] \in [w : Nat \ {0}, h : Nat \ {0}]
  /\ \A c \in Configs : \A s \in Streams : c[s].x \in Int /\ c[s].y \in Int
  /\ ZoneLists \subseteq Seq([x : Int, y : Int, w : Nat, h : Nat])

Kinds == {"font", "logo", "info", "time"} \cup ToSet(ZoneRegions)

VARIABLES main,      \* how far main is
          config,    \* g_osd_module_state.config
          zones,     \* the zones of the motion module
          published, \* streams with a context in g_osd_contexts
          memory,    \* stream -> what became of its osd_context_t
          handle,    \* stream -> regions its context holds a handle of
          font,      \* streams whose font is loaded
          made,      \* <<stream, region>> that exist in the SDK
          failed,    \* history: streams whose osd_init failed
          box,       \* <<stream, region>> -> the rectangle the SDK shows
          timer,     \* where the timer thread is: between two reads of what the
             \*   exit takes away
          flag,      \* timer_thread_running
          chan,      \* its loop variable
          now,       \* time(NULL)
          last,      \* last_timestamp_time and last_timestamp
          shown,     \* stream -> the text of its clock
          turn,      \* history: stream -> its turn in this round, and whether
             \*   the update returned 0
          watched    \* streams with a playing client

treeVars  == <<config, zones, published, memory, handle, font, made, failed, box>>
timerVars == <<timer, flag, chan, last, shown, turn>>
osdVars == <<main, treeVars, timerVars, now, watched>>

NoText == <<"none", 0>>
Text(f, t) == <<f, t \div Lasting[f]>>
NoTurn == [at |-> 0, done |-> FALSE]
Drawing == {"draw", "render", "show"}

TypeOK ==
  /\ main[1] \in {"boot", "zones", "run", "unpublish", "regions", "release", "join", "over",
                 "killed"}
  /\ main[2] \in 0..Cardinality(Streams) /\ config \in Configs
  /\ published \subseteq Streams /\ font \subseteq Streams /\ failed \subseteq Streams
  /\ memory \in [Streams -> {"none", "live", "freed", "lost"}]
  /\ handle \in [Streams -> SUBSET Kinds] /\ made \subseteq Streams \X Kinds
  /\ DOMAIN box \subseteq Streams \X Kinds
  /\ timer \in {"off", "look", "peek", "update", "asleep", "ended", "killed"} \cup Drawing
  /\ flag \in BOOLEAN /\ chan \in Streams \cup {Cardinality(Streams)}
  /\ now \in 1..MaxSeconds /\ watched \subseteq Streams

(* The zones the motion module hands out: one of size (0, 0) got the size of *)
(* the frames the detector sees, the others keep the coordinates of the file. *)
Converted(zs) ==
  [i \in DOMAIN zs |-> IF zs[i].w = 0 /\ zs[i].h = 0
                       THEN [zs[i] EXCEPT !.w = Size[Monitored].w, !.h = Size[Monitored].h]
                       ELSE zs[i]]

Init ==
  /\ main = <<"boot", 0>> /\ config \in Configs
  /\ \E zs \in ZoneLists : zones = Converted(zs)
  /\ published = {} /\ memory = [s \in Streams |-> "none"]
  /\ handle = [s \in Streams |-> {}] /\ font = {} /\ made = {} /\ failed = {}
  /\ box = << >>
  /\ timer = "off" /\ flag = FALSE /\ chan = 0 /\ now = 1
  /\ last = [at |-> 0, text |-> NoText]
  /\ shown = [s \in Streams |-> NoText] /\ turn = [s \in Streams |-> NoTurn]
  /\ watched = {}

-----------------------------------------------------------------------------
(* osd_init, for each stream in turn.                                       *)

\* the regions osd_create_regions wants, in its order; the clock's comes last,
\* and the context goes on without it when it cannot be had
Wanted(s) ==
  LET c == config[s] IN
  <<"font">> \o (IF c.logo THEN <<"logo">> ELSE << >>)
             \o (IF c.info THEN <<"info">> ELSE << >>)
             \o (IF c.zones THEN ZoneRegions ELSE << >>)

Booting(s) == main = <<"boot", s>> /\ main' = <<"boot", s + 1>>
Regions(s, ks) == {<<s, k>> : k \in ks}

\* the module or the stream is disabled
Skip(s) ==
  /\ Booting(s) /\ ~config[s].on
  /\ UNCHANGED <<treeVars, timerVars, now, watched>>

\* what was made is undone, in the reverse order
Undone(s) ==
  /\ memory' = [memory EXCEPT ![s] = "freed"] /\ failed' = failed \cup {s}
  /\ UNCHANGED <<config, zones, published, handle, font, box, timerVars, now, watched>>

\* CreateGroup fails, or the font cannot be loaded
InitFailsEarly(s) == Booting(s) /\ config[s].on /\ Undone(s) /\ UNCHANGED made

\* osd_validate_time_format
Valid(f) == f \in DOMAIN Lasting
FormatRejected(s) ==
  Booting(s) /\ config[s].on /\ ~Valid(config[s].format) /\ Undone(s) /\ UNCHANGED made

\* the regions or IMP_OSD_Start: group, font and context go, the regions made so
\* far stay in the SDK
InitFailsLate(s) ==
  /\ Booting(s) /\ config[s].on /\ Valid(config[s].format)
  /\ \E n \in 0..Len(Wanted(s)), clock \in SUBSET {"time"} :
       /\ n < Len(Wanted(s)) => clock = {}
       /\ made' = made \cup Regions(s, ToSet(SubSeq(Wanted(s), 1, n)) \cup clock)
  /\ Undone(s)

InitStream(s) ==
  /\ Booting(s) /\ config[s].on /\ Valid(config[s].format)
  /\ \E clock \in SUBSET {"time"} :
       LET ks == ToSet(Wanted(s)) \cup clock IN
       /\ handle' = [handle EXCEPT ![s] = ks]
       /\ made' = made \cup Regions(s, ks)
  /\ memory' = [memory EXCEPT ![s] = "live"]
  /\ published' = published \cup {s} /\ font' = font \cup {s}
  /\ UNCHANGED <<config, zones, failed, box, timerVars, now, watched>>

\* osd_module_start
Start ==
  /\ main = <<"boot", Cardinality(Streams)>> /\ main' = <<"zones", 0>>
  /\ \/ timer' = "asleep" /\ flag' = TRUE \* pthread_create
     \/ UNCHANGED <<timer, flag>>       \* it fails, or the module is disabled
  /\ UNCHANGED <<treeVars, chan, last, shown, turn, now, watched>>

-----------------------------------------------------------------------------
(* osd_update_motion_zones, called once per stream by motion_module_start.  *)

Displayed == SubSeq(zones, 1, IF Len(zones) > Len(ZoneRegions)
                              THEN Len(ZoneRegions) ELSE Len(zones))
Sized(z) == z.w > 0 /\ z.h > 0
Within(w, h) == \A z \in ToSet(Displayed) : Sized(z) => z.x + z.w <= w /\ z.y + z.h <= h

\* some right and some bottom edge are positive
Reaching ==
  \E y, z \in ToSet(Displayed) : Sized(y) /\ y.x + y.w > 0 /\ Sized(z) /\ z.y + z.h > 0

\* the coordinate system the zones are taken to be in; the mutant looks at the
\* right edge alone
SystemByWidth ==
  CASE ~Reaching -> [w |-> 1920, h |-> 1080]
    [] \A z \in ToSet(Displayed) : Sized(z) => z.x + z.w <= 640 -> [w |-> 640, h |-> 360]
    [] OTHER -> [w |-> 1920, h |-> 1080]
System ==
  CASE ~Reaching -> [w |-> 1920, h |-> 1080]
    [] Within(640, 360) -> [w |-> 640, h |-> 360]
    [] Within(1280, 720) -> [w |-> 1280, h |-> 720]
    [] OTHER -> [w |-> 1920, h |-> 1080]

Rect(x, y, w, h) == <<x, y, x + w - 1, y + h - 1>>
Scaled(s, z) ==
  LET X(n) == (n * Size[s].w) \div System.w
      Y(n) == (n * Size[s].h) \div System.h
  IN IF z.w = 0 \/ z.h = 0 THEN [x |-> 0, y |-> 0, w |-> Size[s].w, h |-> Size[s].h]
     ELSE [x |-> X(z.x), y |-> Y(z.y), w |-> X(z.w), h |-> Y(z.h)]
Drawable(s, z) ==
  LET r == Scaled(s, z) IN r.w > 0 /\ r.h > 0 /\ r.x < Size[s].w /\ r.y < Size[s].h

\* a zone is shown when none of the three calls for it fails; they do when the
\* region was never created
UpdateZones(s) ==
  /\ main = <<"zones", s>> /\ main' = <<"zones", s + 1>>
  /\ IF s \in published /\ config[s].zones
     THEN \E ok \in SUBSET DOMAIN Displayed :
            LET here == {i \in ok : ZoneRegions[i] \in handle[s] /\ Drawable(s, Displayed[i])}
                new == {<<s, ZoneRegions[i]>> : i \in here}
            IN box' = [k \in DOMAIN box \cup new |->
                         IF k \notin new THEN box[k]
                         ELSE LET i == CHOOSE i \in here : ZoneRegions[i] = k[2]
                                  r == Scaled(s, Displayed[i])
                              IN Rect(r.x, r.y, r.w, r.h)]
     ELSE UNCHANGED box
  /\ UNCHANGED <<config, zones, published, memory, handle, font, made, failed,
                 timerVars, now, watched>>

Running ==
  /\ main = <<"zones", Cardinality(Streams)>> /\ main' = <<"run", 0>>
  /\ UNCHANGED <<treeVars, timerVars, now, watched>>

-----------------------------------------------------------------------------
(* osd_timer_thread and osd_update_timestamp_current.                       *)

\* the loop goes on to the next stream
Passed == timer' = "look" /\ chan' = chan + 1

\* the kernel ends the process
Killed == main' = <<"killed", 0>> /\ timer' = "killed" /\ UNCHANGED chan

\* the pointer is tested
Look ==
  /\ timer = "look" /\ chan \in Streams
  /\ IF chan \in published THEN timer' = "peek" /\ UNCHANGED chan ELSE Passed
  /\ UNCHANGED <<main, treeVars, flag, last, shown, turn, now, watched>>

\* its initialized field and the number of clients: the build may read the
\* pointer for the field again, when it is gone
Peek ==
  /\ timer = "peek"
  /\ \/ chan \notin published /\ Killed
     \/ /\ IF memory[chan] = "live" /\ chan \in watched
           THEN timer' = "update" /\ UNCHANGED chan
           ELSE Passed
        /\ UNCHANGED main
  /\ UNCHANGED <<treeVars, flag, last, shown, turn, now, watched>>

\* last_timestamp and last_timestamp_time are shared by all streams; the mutant
\* redraws only when the second changed as well
BothChanged(t) == now # last.at /\ t # last.text
Changed(t) == now # last.at \/ t # last.text

\* the pointer is read once more, for the call; it may be gone
Update ==
  /\ timer = "update"
  /\ LET t == Text(config[chan].format, now) IN
     IF chan \notin published \/ ~config[chan].time
     THEN Passed /\ UNCHANGED <<last, turn>>
     ELSE /\ turn' = [turn EXCEPT ![chan] = [at |-> now, done |-> ~Changed(t)]]
          /\ IF Changed(t) THEN /\ last' = [at |-> now, text |-> t] /\ timer' = "draw"
                                /\ UNCHANGED chan
             ELSE Passed /\ UNCHANGED last
  /\ UNCHANGED <<main, treeVars, flag, shown, now, watched>>

\* one axis of parse_position
Placed(p, len, limit) ==
  LET raw == IF p < 0 THEN limit + p - len ELSE p
      low == IF raw < 0 THEN 0 ELSE raw
  IN IF low + len > limit THEN limit - len ELSE low

ClockSize(s) == TextSize[config[s].format]
ClockBox(s) ==
  LET c == config[s] sz == ClockSize(s)
  IN Rect(Placed(c.x, sz.w, Size[s].w), Placed(c.y, sz.h, Size[s].h), sz.w, sz.h)

\* osd_create_text_bitmap goes on when ctx->sft is there
Loaded(s) == s \in font
Draw ==
  /\ timer = "draw"
  /\ IF Loaded(chan) THEN timer' = "render" /\ UNCHANGED chan ELSE Passed
  /\ UNCHANGED <<main, treeVars, flag, last, shown, turn, now, watched>>

\* and takes the glyphs of the text from it: there may be no memory for the
\* bitmap; what the cleanup has freed since the test is used all the same
Render ==
  /\ timer = "render"
  /\ \/ chan \notin font /\ Killed
     \/ /\ \/ timer' = "show" /\ UNCHANGED chan
           \/ Passed
        /\ UNCHANGED main
  /\ UNCHANGED <<treeVars, flag, last, shown, turn, now, watched>>

\* the text is last.text; the SDK needs the region
Show ==
  /\ timer = "show" /\ Passed
  /\ \/ /\ <<chan, "time">> \in made
        /\ shown' = [shown EXCEPT ![chan] = last.text]
        /\ box' = [k \in DOMAIN box \cup {<<chan, "time">>} |->
                     IF k = <<chan, "time">> THEN ClockBox(chan) ELSE box[k]]
        /\ turn' = [turn EXCEPT ![chan].done = TRUE]
     \/ UNCHANGED <<shown, box, turn>> \* one of three SDK calls fails
  /\ UNCHANGED <<main, config, zones, published, memory, handle, font, made, failed,
                 flag, last, now, watched>>

Sleep ==
  /\ timer = "look" /\ chan = Cardinality(Streams) /\ timer' = "asleep"
  /\ UNCHANGED <<main, treeVars, flag, chan, last, shown, turn, now, watched>>

\* sleep(1): the clock has moved on
Wake ==
  /\ timer = "asleep"
  /\ IF flag
     THEN /\ \A s \in Streams : turn[s].at < now
          /\ timer' = "look" /\ chan' = 0 /\ turn' = [s \in Streams |-> NoTurn]
     ELSE timer' = "ended" /\ UNCHANGED <<chan, turn>>
  /\ UNCHANGED <<main, treeVars, flag, last, shown, now, watched>>

Tick ==
  /\ now < MaxSeconds /\ now' = now + 1
  /\ UNCHANGED <<main, treeVars, timerVars, watched>>

\* a client starts or stops playing
Watch(s) ==
  /\ watched' = IF s \in watched THEN watched \ {s} ELSE watched \cup {s}
  /\ UNCHANGED <<main, treeVars, timerVars, now>>

-----------------------------------------------------------------------------
(* osd_cleanup_all, then osd_module_cleanup, from main.                     *)

Quit ==
  /\ main = <<"run", 0>> /\ main' = <<"unpublish", 0>>
  /\ UNCHANGED <<treeVars, timerVars, now, watched>>

\* osd_context_cleanup begins by clearing the pointer
Unpublish(s) ==
  /\ main = <<"unpublish", s>>
  /\ main' = IF s \in published THEN <<"regions", s>> ELSE <<"unpublish", s + 1>>
  /\ published' = published \ {s}
  /\ UNCHANGED <<config, zones, memory, handle, font, made, failed, box, timerVars, now, watched>>

\* the handles its loops walk: OSD_REGION_COUNT of them, the clock's is not among
\* them; the loops of the mutant end before the last
SweptButLast == Kinds \ {"time", ZoneRegions[Len(ZoneRegions)]}
Swept == Kinds \ {"time"}

DestroyRegions(s) ==
  /\ main = <<"regions", s>> /\ main' = <<"release", s>>
  /\ made' = made \ Regions(s, handle[s] \cap Swept)
  /\ handle' = [handle EXCEPT ![s] = @ \ Swept]
  /\ UNCHANGED <<config, zones, published, memory, font, failed, box, timerVars, now, watched>>

\* the font and its glyphs; then the context is freed through the pointer that was
\* cleared, and so stays
Release(s) ==
  /\ main = <<"release", s>> /\ main' = <<"unpublish", s + 1>>
  /\ font' = font \ {s} /\ memory' = [memory EXCEPT ![s] = "lost"]
  /\ UNCHANGED <<config, zones, published, handle, made, failed, box, timerVars, now, watched>>

\* osd_module_stop; what osd_cleanup_all finds then is empty
StopTimer ==
  /\ main = <<"unpublish", Cardinality(Streams)>> /\ main' = <<"join", 0>> /\ flag' = FALSE
  /\ UNCHANGED <<treeVars, timer, chan, last, shown, turn, now, watched>>

Join ==
  /\ main = <<"join", 0>> /\ timer \in {"off", "ended"} /\ main' = <<"over", 0>>
  /\ UNCHANGED <<treeVars, timerVars, now, watched>>

Next ==
  \/ \E s \in Streams : \/ Skip(s) \/ InitFailsEarly(s) \/ FormatRejected(s)
                        \/ InitFailsLate(s) \/ InitStream(s) \/ UpdateZones(s) \/ Watch(s)
                        \/ Unpublish(s) \/ DestroyRegions(s) \/ Release(s)
  \/ Start \/ Running \/ Quit \/ StopTimer \/ Join
  \/ Look \/ Peek \/ Update \/ Draw \/ Render \/ Show \/ Sleep \/ Wake \/ Tick

-----------------------------------------------------------------------------
(* osd_module.c:2035-2053: a stream whose turn it was shows the text of that  *)
(* second, unless a call failed or another stream of the same text, whose turn *)
(* came first, left it in the shared cache.                                   *)
Twins(s, r) ==
  /\ r # s /\ memory[r] \in {"live", "lost"} /\ config[r].time
  /\ Text(config[r].format, turn[s].at) = Text(config[s].format, turn[s].at)
RefreshedUnlessTwin ==
  \A s \in Streams :
    timer = "asleep" /\ turn[s].done /\ (\A r \in Streams : ~Twins(s, r))
      => shown[s] = Text(config[s].format, turn[s].at)

(* osd_module.c:2259: the clock of every watched stream is brought up to date. *)
EveryClockRefreshed ==
  \A s \in Streams : timer = "asleep" /\ turn[s].done
                       => shown[s] = Text(config[s].format, turn[s].at)

(* osd_module.c:1991-2005: after the exit the SDK holds no region but those of *)
(* clocks and of streams whose initialisation failed.                         *)
RegionsReleased ==
  main = <<"over", 0>> => \A k \in made : k[2] = "time" \/ k[1] \in failed

(* osd_module.c:1572-1593: nor does a context stay in use, or a font loaded.  *)
ContextsReleased ==
  main = <<"over", 0>> => font = {} /\ published = {} /\ \A s \in Streams : memory[s] # "live"

(* What the teardown leaves behind, a timer beside it that draws or not.      *)
CleanupSound == RegionsReleased /\ ContextsReleased

(* osd_module.c:494, 947-963: the font that the timer found loaded is there   *)
(* until the text is drawn (false: osd_context_cleanup frees it meanwhile).   *)
FontHeld == timer = "render" => chan \in font

(* osd_module.c:66-115, 2751-2825: a clock that fits its picture, and zones   *)
(* given within 1920x1080, are drawn inside the picture.                      *)
BoxesInFrame ==
  \A k \in DOMAIN box :
    LET s == k[1] sz == ClockSize(s) IN
    (IF k[2] = "time" THEN sz.w <= Size[s].w /\ sz.h <= Size[s].h
     ELSE Within(1920, 1080) /\ \A z \in ToSet(Displayed) : z.x >= 0 /\ z.y >= 0)
      => /\ 0 <= box[k][1] /\ box[k][1] <= box[k][3] /\ box[k][3] < Size[s].w
         /\ 0 <= box[k][2] /\ box[k][2] <= box[k][4] /\ box[k][4] < Size[s].h
=============================================================================
