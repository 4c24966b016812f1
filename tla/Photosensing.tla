----------------------------- MODULE Photosensing -----------------------------
(* The switch between day and night mode                                      *)
(* (modules/photosensing/photosensing_module.c): a control thread that reads  *)
(* the exposure and the blue gain, and drives the ISP and the IR cut filter.  *)
(* imp_control sets the mode of the ISP as well, without telling the thread.  *)
(* A poll is one step: nothing else writes what it reads, except the mode.    *)
EXTENDS Integers

CONSTANTS Settings,    \* configurations that config_validate accepts, see Init
          Lights,      \* what the sensor may measure: [iso, gain]
          MaxFaults    \* bound of the model on failing SDK and GPIO calls

VARIABLES settings,    \* config
          ready,       \* initialized
          running,
          thread,      \* "none" before it is created and after the join
          leave,       \* thread_should_exit
          isp,         \* the running mode of the ISP
          filter,      \* the position of the filter, as photosensing_set_ircut left it
          ircut,       \* ircut_status
          nights, days,\* night_count, day_count, no further than the threshold
          record,      \* gb_gain_record
          light,
          faults,
          disturbed    \* history: since the start a call of a poll failed, or
                       \* imp_control set the mode

stateVars == <<settings, ready, leave>>
modeVars  == <<isp, filter, ircut>>
countVars == <<nights, days, record>>
photoVars == <<stateVars, running, thread, modeVars, countVars, light, faults, disturbed>>

Gains == {l.gain : l \in Lights}

TypeOK ==
  /\ settings \in Settings /\ ready \in BOOLEAN /\ running \in BOOLEAN
  /\ thread \in {"none", "polling", "over"} /\ leave \in BOOLEAN
  /\ isp \in {"day", "night"} /\ filter \in {0, 1} /\ ircut \in BOOLEAN
  /\ nights \in 0..(settings.nightCount + 1) /\ days \in 0..(settings.dayCount + 1)
  /\ record \in Gains \cup {settings.init}
  /\ light \in Lights /\ faults \in 0..MaxFaults /\ disturbed \in BOOLEAN

\* the ISP starts in day mode, the filter where the last run left it
Init ==
  /\ settings \in Settings
  /\ ready = FALSE /\ running = FALSE /\ thread = "none" /\ leave = FALSE
  /\ isp = "day" /\ filter \in {0, 1} /\ ircut = TRUE
  /\ nights = 0 /\ days = 0 /\ record = settings.init
  /\ light \in Lights /\ faults = 0 /\ disturbed = FALSE

-----------------------------------------------------------------------------
(* The module.  A configuration that is not enabled never gets to Start.      *)

\* setup_photosensing_defaults
ModuleInit ==
  /\ ~ready /\ ready' = TRUE /\ leave' = FALSE
  /\ ircut' = TRUE /\ nights' = 0 /\ days' = 0 /\ record' = settings.init
  /\ UNCHANGED <<settings, running, thread, isp, filter, light, faults, disturbed>>

State(mode) == IF mode = "day" THEN settings.dayState ELSE settings.nightState
Fault == faults < MaxFaults /\ faults' = faults + 1

\* The status follows the setting, whether the filter moved or not
MoveFilter(mode, moved) ==
  IF settings.ircut
    THEN filter' = (IF moved THEN State(mode) ELSE filter) /\ ircut' = (State(mode) = 0)
    ELSE UNCHANGED <<filter, ircut>>

\* day mode, the filter, the thread; a filter that does not move is only logged,
\* a thread that is not created leaves the mode and the filter.  The counts
\* start where the last run ended.
ModuleStart ==
  /\ ready /\ ~running
  /\ \/ /\ isp' = "day" /\ MoveFilter("day", TRUE) /\ leave' = FALSE
        /\ running' = TRUE /\ thread' = "polling" /\ disturbed' = FALSE
        /\ UNCHANGED faults
     \/ /\ Fault /\ isp' = "day" /\ MoveFilter("day", FALSE) /\ leave' = FALSE
        /\ running' = TRUE /\ thread' = "polling" /\ disturbed' = TRUE
     \/ /\ Fault /\ isp' = "day" /\ MoveFilter("day", TRUE) /\ leave' = FALSE
        /\ UNCHANGED <<running, thread, disturbed>>
     \/ Fault /\ UNCHANGED <<isp, filter, ircut, leave, running, thread, disturbed>>
  /\ UNCHANGED <<settings, ready, countVars, light>>

SignalStop ==
  /\ running /\ ~leave /\ leave' = TRUE
  /\ UNCHANGED <<settings, ready, running, thread, modeVars, countVars, light, faults,
                 disturbed>>

Join ==
  /\ running /\ leave /\ thread = "over"
  /\ running' = FALSE /\ thread' = "none"
  /\ UNCHANGED <<stateVars, modeVars, countVars, light, faults, disturbed>>

\* cleanup stops the thread first
ModuleCleanup ==
  /\ ready /\ ~running /\ ready' = FALSE
  /\ UNCHANGED <<settings, leave, running, thread, modeVars, countVars, light, faults,
                 disturbed>>

-----------------------------------------------------------------------------
(* The control thread.                                                        *)

AtMost(n, limit) == IF n > limit + 1 THEN limit + 1 ELSE n

\* a mutant with the polarity of the status reversed
Reversed(s, mode, i, f) ==
  [isp |-> i, filter |-> IF settings.ircut THEN f ELSE s.filter,
   ircut |-> IF settings.ircut THEN State(mode) # 0 ELSE s.ircut]

\* What a request for a mode makes of the ISP, the filter and the status: nothing
\* when the ISP says that it is in that mode already.  When calls fail, the ISP
\* may answer anything, refuse the mode, and the filter stay; none is repeated.
Switched(s, mode, i, f) ==
  [isp |-> i, filter |-> IF settings.ircut THEN f ELSE s.filter,
   ircut |-> IF settings.ircut THEN State(mode) = 0 ELSE s.ircut]

Request(s, mode, fault) ==
  IF fault THEN {s} \cup {Switched(s, mode, i, f) : i \in {mode, s.isp},
                                                   f \in {State(mode), s.filter}}
  ELSE IF s.isp = mode THEN {s}
  ELSE {Switched(s, mode, mode, State(mode))}

IsDark == light.iso > settings.nightIso
IsLight(s, gain, rec) ==
  /\ light.iso < settings.dayIso /\ s.ircut
  /\ gain > rec + settings.offset
CountsAsDay(gain) == light.iso < settings.dayIso2 \/ gain > settings.dayGain

NightCount == IF IsDark THEN AtMost(nights + 1, settings.nightCount) ELSE 0
NightDue == NightCount > settings.nightCount
DayCount(s, gain, rec) ==
  IF IsLight(s, gain, rec) /\ CountsAsDay(gain) THEN AtMost(days + 1, settings.dayCount) ELSE 0

\* the night part, then the day part; in between the gain is sampled twenty times
\* again when night is due: "low" is the least of the samples, "gain" the last
Decide(fault, low, gain) ==
  LET before == [isp |-> isp, filter |-> filter, ircut |-> ircut]
      rec == IF NightDue THEN low ELSE record
  IN \E atNight \in IF NightDue THEN Request(before, "night", fault) ELSE {before} :
       LET count == DayCount(atNight, gain, rec)
           due == count > settings.dayCount
       IN \E after \in IF due THEN Request(atNight, "day", fault) ELSE {atNight} :
            /\ isp' = after.isp /\ filter' = after.filter /\ ircut' = after.ircut
            /\ nights' = NightCount /\ days' = count /\ record' = rec

Poll ==
  /\ thread = "polling" /\ ~leave
  /\ \E low, gain \in Gains :
       /\ IF NightDue THEN low <= gain ELSE low = gain /\ gain = light.gain
       /\ \/ Decide(FALSE, low, gain) /\ UNCHANGED <<faults, disturbed>>
          \/ Fault /\ Decide(TRUE, low, gain) /\ disturbed' = TRUE
  /\ UNCHANGED <<stateVars, running, thread, light>>

\* told to, or because the exposure or the gain could not be read
ThreadEnds ==
  /\ thread = "polling" /\ thread' = "over"
  /\ \/ leave /\ UNCHANGED faults
     \/ Fault
  /\ UNCHANGED <<stateVars, running, modeVars, countVars, light, disturbed>>

-----------------------------------------------------------------------------
(* imp_control_apply_all sets a mode, and the light changes.                  *)

Override ==
  /\ Fault /\ isp' \in {"day", "night"} /\ disturbed' = TRUE
  /\ UNCHANGED <<stateVars, running, thread, filter, ircut, countVars, light>>

LightChanges ==
  /\ light' \in Lights \ {light}
  /\ UNCHANGED <<stateVars, running, thread, modeVars, countVars, faults, disturbed>>

Next == ModuleInit \/ ModuleStart \/ SignalStop \/ Join \/ ModuleCleanup
        \/ Poll \/ ThreadEnds \/ Override \/ LightChanges

Spec == Init /\ [][Next]_photoVars

-----------------------------------------------------------------------------
(* Properties.                                                                *)

(* photosensing_module.c:129-143, 571-579, 629-636: while no call failed and  *)
(* nobody else set the mode, the filter is where the mode wants it, and the   *)
(* module's switches never separate the two.                                  *)
FilterInPlace == (running /\ ~disturbed /\ settings.ircut) => filter = State(isp)

(* photosensing_module.c:567-613: when it stays dark, the camera ends up in   *)
(* night mode, whatever failed and whoever set the mode before.               *)
DarkIsNight ==
  <>[](thread = "polling" /\ ~leave /\ IsDark /\ light.iso >= settings.dayIso)
     => <>[](isp = "night")

(* photosensing_module.c:616-649: when it stays light and the gain stays above*)
(* the record, the camera returns to day mode, if the filter is out at night  *)
(* (ircut_night_state 0) and nothing failed since the start.                  *)
BrightIsDay ==
  <>[](/\ thread = "polling" /\ ~leave /\ ~disturbed /\ ~IsDark
       /\ light.iso < settings.dayIso /\ CountsAsDay(light.gain)
       /\ light.gain > record + settings.offset
       /\ settings.ircut => settings.nightState = 0)
     => <>[](isp = "day")

FollowsLight == []FilterInPlace /\ DarkIsNight /\ BrightIsDay

(* The same without the exception for failed calls: false, since a day switch *)
(* that the ISP refuses has moved the filter already, and is not repeated.    *)
AlwaysReturns ==
  <>[](/\ thread = "polling" /\ ~leave /\ ~IsDark
       /\ light.iso < settings.dayIso /\ CountsAsDay(light.gain)
       /\ light.gain > record + settings.offset
       /\ settings.ircut => settings.nightState = 0)
     => <>[](isp = "day")
=============================================================================
