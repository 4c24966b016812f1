------------------------------ MODULE MCProcess ------------------------------
(* Process for TLC: a camera with two streams, and values that do not matter   *)
(* to the part a behaviour is about are fixed.                                 *)
EXTENDS Process

CONSTANTS i1, i2, i3, c1, c2

\* both orders in which two constructors can run, or none left by the linker; a
\* registry of four refuses the last of main's modules
Orders == {<<"image_grab", "metrics">>, <<"metrics", "image_grab">>, << >>}
MainsModules == <<"onvif", "metrics", "http", "rtmp">>

\* a usable file at the limit of the sensor, one above it with a stream less,
\* and one that does not parse; two edits, each in a second of its own
Files == {[ok |-> TRUE,  fps |-> 25, on |-> {0, 1}],
          [ok |-> TRUE,  fps |-> 30, on |-> {0}],
          [ok |-> FALSE, fps |-> 25, on |-> {}]}
\* two streams of which the second is small, with clocks of the same or of
\* different formats, from all four corners; zones of the sub stream, of a narrow
\* picture, one that fills the frame beside one of the full resolution, and more
\* zones than regions.  Where one stream is off every list is tried, else one
Overlay(f, x, y, z) ==
  [on |-> TRUE, time |-> TRUE, logo |-> FALSE, info |-> z, zones |-> z,
   format |-> f, x |-> x, y |-> y]
Pair(a, b) == [s \in {0, 1} |-> IF s = 0 THEN a ELSE b]
Overlays == {Pair(Overlay("hms", 10, -10, TRUE),  Overlay("hms", -10, 10, FALSE)),
             Pair(Overlay("hms", 630, 350, FALSE), Overlay("hm", -630, 350, TRUE)),
             Pair([Overlay("hm", 0, 0, FALSE) EXCEPT !.on = FALSE], Overlay("date", 5, 5, TRUE)),
             Pair(Overlay("hm", 0, 0, TRUE), [Overlay("hm", 5, 5, FALSE) EXCEPT !.on = FALSE]),
             Pair(Overlay("%", 0, 0, FALSE), Overlay("hm", -1, -1, FALSE))}
Zone(x, y, w, h) == [x |-> x, y |-> y, w |-> w, h |-> h]
Pictures == [s \in {0, 1} |-> IF s = 0 THEN [w |-> 1920, h |-> 1080] ELSE [w |-> 640, h |-> 360]]
Texts == [f \in {"hms", "hm", "date", "%"} |-> [w |-> IF f = "date" THEN 800 ELSE 120, h |-> 20]]
Spans == [f \in {"hms", "hm", "date"} |-> IF f = "hms" THEN 1 ELSE 3]
ZoneFiles == {<<Zone(0, 0, 0, 0), Zone(1000, 500, 333, 111)>>,
              <<Zone(300, 200, 301, 299)>>,
              <<Zone(0, 0, 640, 360), Zone(0, 0, 640, 360), Zone(0, 0, 1920, 1080)>>}
Regions == <<"zone0", "zone1">>

\* the filter used, not used, or set up the other way round, and thresholds that
\* overlap; night, lamps at night, dusk, and two kinds of daylight
Camera(used, day, night) ==
  [ircut |-> used, dayState |-> day, nightState |-> night, nightIso |-> 5, dayIso |-> 4,
   dayIso2 |-> 2, nightCount |-> 1, dayCount |-> 1, offset |-> 1, dayGain |-> 6, init |-> 2]
Cameras == {Camera(TRUE, 1, 0), Camera(FALSE, 1, 0), Camera(TRUE, 0, 1),
            [Camera(TRUE, 1, 0) EXCEPT !.dayIso = 8]}
Daylight == {[iso |-> 7, gain |-> 1], [iso |-> 7, gain |-> 3], [iso |-> 4, gain |-> 3],
             [iso |-> 3, gain |-> 7], [iso |-> 1, gain |-> 5]}

MCInit ==
  /\ ProcessInit
  /\ part # "modules" => linked = << >>
  /\ part # "main" => file.fps = 30
  /\ config[0].x = 630 => Len(zones) = 2
  /\ config[0].x = 10 => Len(zones) = 3
  /\ part # "osd" => config[0].x = 10
  /\ part # "light" => settings = Camera(TRUE, 1, 0) /\ filter = 0 /\ light.gain = 1

MCSpec == MCInit /\ [][ProcessNext]_processVars /\ ProcessFairness
=============================================================================
