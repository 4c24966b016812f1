-------------------------------- MODULE Motion --------------------------------
(* Motion detection (modules/motion/motion_module.c): the IVS group that main *)
(* sets up and takes down, and the detection thread that turns results into   *)
(* events and runs a script at the start and at the end of each.  The thread   *)
(* waits for its script while time goes on.  A result says whether any         *)
(* included zone moved: setup and processing number these zones alike.         *)
EXTENDS Naturals

CONSTANTS Cooldown, MinTime, \* cooldown_time and min_time, in seconds
          MaxTime,      \* bound of the model on seconds
          MaxFaults     \* bound of the model on failing SDK calls

\* what the modules that instantiate this one assume of its constants
EventsAssumption == Cooldown \in Nat

VARIABLES ready,        \* initialized
          running,
          ivs,          \* what is acquired of IVS
          thread,       \* "none", "init", "poll", "over", or the script it waits for
          leave,        \* thread_should_exit
          detected,     \* motion_detected
          executed,     \* motion_start_script_executed
          last,         \* last_motion_time
          since,        \* motion_start_time
          read,         \* current_time of the result being processed
          now, faults,
          calls,        \* history: the script run last since the initialisation
          begun,        \* history: when the last two events began, 0 if they did not
          lost          \* history: a call of a takedown failed

lifeVars  == <<ready, running, ivs, lost>>
eventVars == <<detected, executed, last, since, read, calls, begun>>
motionVars == <<lifeVars, thread, leave, eventVars, now, faults>>

Steps == <<"group", "interface", "channel", "registered", "bound", "receiving">>
Acquired(n) == {Steps[i] : i \in 1..n}

TypeOK ==
  /\ ready \in BOOLEAN /\ running \in BOOLEAN /\ leave \in BOOLEAN
  /\ ivs \subseteq Acquired(6)
  /\ thread \in {"none", "init", "poll", "start", "stop", "over"}
  /\ detected \in BOOLEAN /\ executed \in BOOLEAN
  /\ {last, since, read, now} \subseteq 0..MaxTime /\ faults \in 0..MaxFaults
  /\ calls \in {"none", "start", "stop"} /\ begun \in (0..MaxTime) \X (0..MaxTime)
  /\ lost \in BOOLEAN

\* the clock counts from the boot of the camera, which was a while ago
Init ==
  /\ ready = FALSE /\ running = FALSE /\ ivs = {} /\ thread = "none" /\ leave = FALSE
  /\ detected = FALSE /\ executed = FALSE /\ last = 0 /\ since = 0 /\ read = 0
  /\ now = 1 /\ faults = 0 /\ calls = "none" /\ begun = <<0, 0>> /\ lost = FALSE

Fault == faults < MaxFaults /\ faults' = faults + 1

-----------------------------------------------------------------------------
(* The module, enabled and with a script.                                     *)

Forget ==
  /\ detected' = FALSE /\ executed' = FALSE /\ last' = 0 /\ since' = 0
  /\ calls' = "none" /\ begun' = <<0, 0>> /\ UNCHANGED read

ModuleInit ==
  /\ ~ready /\ ready' = TRUE /\ Forget
  /\ UNCHANGED <<running, ivs, lost, thread, leave, now, faults>>

\* What motion_setup_ivs takes back when its nth step fails.  From the binding
\* on, it calls motion_cleanup_ivs.
Undone(n) == IF n <= 4 THEN Acquired(n - 1) ELSE Acquired(6)
\* a mutant that only destroys the group when the channel is not registered
UndoneGroup(n) == IF n <= 4 THEN {"group"} ELSE Acquired(6)

\* motion_cleanup_ivs goes on when one of its calls fails
TakeDown ==
  \/ ivs' = {} /\ UNCHANGED <<lost, faults>>
  \/ Fault /\ ivs' \in SUBSET (ivs \ {"interface"}) /\ lost' = TRUE

StartFails ==
  /\ ready /\ ~running
  /\ Fault /\ UNCHANGED lost
  /\ \E n \in 1..7 : ivs' = (ivs \cup Acquired(n - 1)) \ Undone(n)
  /\ UNCHANGED <<ready, running, thread, leave, eventVars, now>>

\* the thread sleeps for init_time first
ModuleStart ==
  /\ ready /\ ~running
  /\ ivs' = Acquired(6) /\ leave' = FALSE /\ running' = TRUE /\ thread' = "init"
  /\ UNCHANGED <<ready, lost, eventVars, now, faults>>

SignalStop ==
  /\ running /\ ~leave /\ leave' = TRUE
  /\ UNCHANGED <<lifeVars, thread, eventVars, now, faults>>

Join ==
  /\ running /\ leave /\ thread = "over"
  /\ TakeDown /\ running' = FALSE /\ thread' = "none"
  /\ UNCHANGED <<ready, leave, eventVars, now>>

\* cleanup stops the module first
ModuleCleanup ==
  /\ ready /\ ~running /\ ready' = FALSE /\ leave' = FALSE /\ Forget
  /\ UNCHANGED <<running, ivs, lost, thread, now, faults>>

-----------------------------------------------------------------------------
(* The detection thread.                                                      *)

InitPeriodEnds ==
  /\ thread = "init" /\ thread' = "poll"
  /\ UNCHANGED <<lifeVars, leave, eventVars, now, faults>>

CoolingDown == last > 0 /\ now - last < Cooldown

\* a mutant that lets the flag of the last event stand
BeginsOnce ==
  /\ detected' = TRUE /\ executed' = TRUE /\ since' = now /\ UNCHANGED last
  /\ begun' = <<begun[2], now>>
  /\ IF executed THEN UNCHANGED <<thread, calls, read>>
     ELSE thread' = "start" /\ calls' = "start" /\ read' = now

\* motion_process_result; results that cannot be polled or got change nothing
MotionBegins ==
  /\ detected' = TRUE /\ executed' = TRUE /\ since' = now /\ read' = now
  /\ thread' = "start" /\ calls' = "start" /\ begun' = <<begun[2], now>>
  /\ UNCHANGED last

\* motion in an event whose script was run
MotionGoesOn == last' = now /\ UNCHANGED <<thread, detected, executed, since, read, calls, begun>>

Moved ==
  /\ ~CoolingDown
  /\ IF detected THEN MotionGoesOn ELSE MotionBegins

Quiet ==
  /\ detected /\ now - since >= MinTime
  /\ detected' = FALSE /\ thread' = "stop" /\ calls' = "stop"
  /\ UNCHANGED <<executed, last, since, read, begun>>

Process ==
  /\ thread = "poll" /\ ~leave
  /\ Moved \/ Quiet
  /\ UNCHANGED <<lifeVars, leave, now, faults>>

\* waitpid returns, or fork had failed; the time of the motion is that of the
\* result, however long the script took
ScriptEnds ==
  /\ thread \in {"start", "stop"} /\ thread' = "poll"
  /\ last' = IF thread = "start" THEN read ELSE last
  /\ UNCHANGED <<lifeVars, leave, detected, executed, since, read, calls, begun, now, faults>>

ThreadEnds ==
  /\ thread = "poll" /\ leave /\ thread' = "over"
  /\ UNCHANGED <<lifeVars, leave, eventVars, now, faults>>

Tick ==
  /\ now < MaxTime /\ now' = now + 1
  /\ UNCHANGED <<lifeVars, thread, leave, eventVars, faults>>

Thread == InitPeriodEnds \/ ScriptEnds \/ ThreadEnds

Next == ModuleInit \/ StartFails \/ ModuleStart \/ SignalStop \/ Join \/ ModuleCleanup
        \/ Process \/ Thread \/ Tick

Spec == Init /\ [][Next]_motionVars

-----------------------------------------------------------------------------
(* Properties.                                                                *)

(* motion_module.c:307-354 and docs/MOTION_DETECTION.md:65: the script is run *)
(* once at the start and once at the end of every event, also of one that goes *)
(* on while the module is stopped and started again.                           *)
ScriptsPaired == detected = (calls = "start")

(* motion_module.c:309-316: events begin at least cooldown_time apart, however *)
(* long the scripts run.                                                       *)
EventsSpaced == begun[1] > 0 => begun[2] - begun[1] >= Cooldown

(* motion_module.c:115-278: a module that is not running holds nothing of IVS, *)
(* whichever step of the setup failed, if the calls of its takedowns did not.  *)
NothingHeld == (~running /\ ~lost) => ivs = {}

(* motion_module.c:830-854: stop returns, if scripts end.                      *)
StopReturns == leave ~> ~running

MotionDiscipline == [](ScriptsPaired /\ EventsSpaced /\ NothingHeld) /\ StopReturns
=============================================================================
