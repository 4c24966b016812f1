----------------------------- MODULE ModuleSystem -----------------------------
(* The module registry (src/module_system.c) and what starting the modules in *)
(* its order does to the routes of the HTTP server (modules/http/http_router.c, *)
(* http_module_start, image_grab_module_start).  Constructors register modules *)
(* before main does; main then registers its own list, in which a name that is *)
(* already there is refused.                                                  *)
EXTENDS Naturals, Sequences, FiniteSets, SequencesExt

CONSTANTS Linked,     \* the orders in which the linker may run the constructors
          Manual,     \* the sequence of modules main registers
          MaxModules, \* MAX_MODULES
          Foreign     \* modules whose routes http_module_start registers itself

Modules == ToSet(Manual) \cup UNION {ToSet(l) : l \in Linked}
Paths == {"core", "image"} \cup Foreign
NoOne == "none"

\* what the modules that instantiate this one assume of its constants: the paths of
\* the image grabber are its own, and main registers the HTTP server
RoutesAssumption == "image" \notin Foreign /\ "http" \in ToSet(Manual)

VARIABLES stage,     \* how far main is with the modules
          position,  \* registrations done, or index of the module being handled
          linked,    \* the order of the constructors in this build
          registry,  \* g_modules[0..g_module_count-1]
          mstate,    \* module->state
          enabled,   \* the enabled field of the module's own configuration
          serving,   \* the module's own running flag
          router,    \* router_initialized
          owner      \* the module_name of the handler of each path

moduleVars == <<stage, position, linked, registry, mstate, enabled, serving, router, owner>>

TypeOK ==
  /\ stage \in {"link", "register", "init", "start", "running", "cleanup", "over"}
  /\ position \in Nat /\ linked \in Linked
  /\ registry \in Seq(Modules) /\ Len(registry) <= MaxModules
  /\ mstate \in [Modules -> {"unregistered", "registered", "initialized", "running", "error"}]
  /\ enabled \in [Modules -> BOOLEAN] /\ serving \in [Modules -> BOOLEAN]
  /\ router \in BOOLEAN
  /\ owner \in [Paths -> Modules \cup Foreign \cup {NoOne, "http_fallback"}]

Init ==
  /\ stage = "link" /\ position = 0 /\ linked \in Linked /\ registry = << >>
  /\ mstate = [m \in Modules |-> "unregistered"]
  /\ enabled = [m \in Modules |-> FALSE] /\ serving = [m \in Modules |-> FALSE]
  /\ router = FALSE /\ owner = [p \in Paths |-> NoOne]

-----------------------------------------------------------------------------
(* module_register, called by the constructors and then by main.            *)

Duplicate(m) == m \in ToSet(registry)

\* the result is only logged
Registered(m) ==
  IF Len(registry) >= MaxModules \/ Duplicate(m)
  THEN UNCHANGED <<registry, mstate>>
  ELSE /\ registry' = Append(registry, m)
       /\ mstate' = [mstate EXCEPT ![m] = "registered"]

RegisterNext(list, here, next) ==
  /\ stage = here
  /\ IF position < Len(list)
     THEN /\ Registered(list[position + 1])
          /\ position' = position + 1 /\ UNCHANGED stage
     ELSE stage' = next /\ position' = 0 /\ UNCHANGED <<registry, mstate>>
  /\ UNCHANGED <<linked, enabled, serving, router, owner>>

\* constructors, then main; module_system_init finds the registry initialised
\* by the first constructor and leaves it alone
RegisterLinked == RegisterNext(linked, "link", "register")
RegisterManual == RegisterNext(Manual, "register", "init")

-----------------------------------------------------------------------------
(* module_init_all and module_start_all walk the registry once.             *)

Current == registry[position + 1]

Walk(here, next) ==
  /\ stage = here /\ position = Len(registry)
  /\ stage' = next /\ position' = 0
  /\ UNCHANGED <<linked, registry, mstate, enabled, serving, router, owner>>

\* A module without a configuration file is handed a buffer that malloc did not
\* clear, so what it reads from it is arbitrary.
InitModule(ok) ==
  /\ stage = "init" /\ position < Len(registry)
  /\ \E on \in BOOLEAN : enabled' = [enabled EXCEPT ![Current] = ok /\ on]
  /\ mstate' = [mstate EXCEPT ![Current] = IF ok THEN "initialized" ELSE "error"]
  /\ position' = position + 1
  /\ UNCHANGED <<stage, linked, registry, serving, router, owner>>

Startable == mstate[Current] = "initialized"

Starting ==
  /\ stage = "start" /\ position < Len(registry)
  /\ position' = position + 1
  /\ UNCHANGED <<stage, linked, registry, enabled>>

\* a module that failed to initialise is passed over
Skip ==
  /\ Starting /\ ~Startable
  /\ UNCHANGED <<mstate, serving, router, owner>>

Becomes(s) == mstate' = [mstate EXCEPT ![Current] = s]

\* start() returns 0 without doing anything when the configuration disables
\* the module: the registry calls it running
StartDisabled ==
  /\ Starting /\ Startable /\ Current \in {"http", "image_grab"}
  /\ ~enabled[Current]
  /\ Becomes("running") /\ UNCHANGED <<serving, router, owner>>

\* every other module
StartOther(ok) ==
  /\ Starting /\ Startable /\ Current \notin {"http", "image_grab"}
  /\ Becomes(IF ok THEN "running" ELSE "error")
  /\ serving' = [serving EXCEPT ![Current] = ok]
  /\ UNCHANGED <<router, owner>>

\* is_image_grab_module_enabled asks the registry, not the module; the mutant
\* asks whether the module is compiled in
GrabberCompiled == "image_grab" \in Modules
GrabberEnabled == "image_grab" \in Modules /\ mstate["image_grab"] = "running"

\* a later registration takes a path over
WithCore(o)     == [o EXCEPT !["core"] = "http"]
WithFallback(o) == IF GrabberEnabled THEN o ELSE [o EXCEPT !["image"] = "http_fallback"]
WithForeign(o)  == [p \in Paths |-> IF p \in Foreign THEN p ELSE o[p]]

\* http_module_start: the router, the core routes, the stand-ins for
\* image_grab, the routes of other modules, then the thread.  When the thread
\* cannot be created the routes stay.
StartHttp(ok) ==
  /\ Starting /\ Startable /\ Current = "http" /\ enabled["http"]
  /\ router' = TRUE /\ owner' = WithForeign(WithFallback(WithCore(owner)))
  /\ serving' = [serving EXCEPT !["http"] = ok]
  /\ Becomes(IF ok THEN "running" ELSE "error")

\* image_grab_module_start: without a router its routes cannot be registered
StartGrabber ==
  /\ Starting /\ Startable /\ Current = "image_grab" /\ enabled["image_grab"]
  /\ IF router
     THEN /\ owner' = [owner EXCEPT !["image"] = "image_grab"]
          /\ serving' = [serving EXCEPT !["image_grab"] = TRUE]
          /\ Becomes("running")
     ELSE Becomes("error") /\ UNCHANGED <<owner, serving>>
  /\ UNCHANGED router

-----------------------------------------------------------------------------
(* module_cleanup_all, from the last registered to the first, whatever state *)
(* a module is in.                                                           *)

\* the exit path of main
BeginCleanup ==
  /\ stage = "running" /\ stage' = "cleanup" /\ position' = Len(registry)
  /\ UNCHANGED <<linked, registry, mstate, enabled, serving, router, owner>>

\* http_module_cleanup stops a running server, which cleans the router
CleanupModule ==
  /\ stage = "cleanup" /\ position > 0
  /\ LET m == registry[position]
         routerGone == m = "http" /\ serving["http"]
     IN /\ serving' = [serving EXCEPT ![m] = FALSE]
        /\ router' = (router /\ ~routerGone)
        /\ owner' = IF routerGone THEN [p \in Paths |-> NoOne] ELSE owner
        /\ mstate' = [mstate EXCEPT ![m] = "unregistered"]
  /\ position' = position - 1
  /\ UNCHANGED <<stage, linked, registry, enabled>>

CleanupDone ==
  /\ stage = "cleanup" /\ position = 0
  /\ stage' = "over" /\ registry' = << >>
  /\ UNCHANGED <<position, linked, mstate, enabled, serving, router, owner>>

Next ==
  \/ RegisterLinked \/ RegisterManual
  \/ Walk("init", "start") \/ Walk("start", "running")
  \/ \E ok \in BOOLEAN : InitModule(ok) \/ StartOther(ok) \/ StartHttp(ok)
  \/ Skip \/ StartDisabled \/ StartGrabber
  \/ BeginCleanup \/ CleanupModule \/ CleanupDone

Spec == Init /\ [][Next]_moduleVars

-----------------------------------------------------------------------------
(* Properties.                                                              *)

Started == stage = "running" /\ serving["http"]

(* Whatever the link order and whatever fails, a path of the image grabber is *)
(* answered by the grabber exactly when the grabber runs, and otherwise by the *)
(* stand-in (http_register_image_grab_fallback_routes), with one exception    *)
(* the code makes: a grabber that its configuration disables and that started *)
(* before the server counts as running, and its paths stay without a handler. *)
ImagesAnswered ==
  (Started /\ "image_grab" \in Modules) =>
     CASE serving["image_grab"] -> owner["image"] = "image_grab"
       [] ~serving["image_grab"] /\ mstate["image_grab"] # "running" ->
            owner["image"] = "http_fallback"
       [] OTHER -> owner["image"] \in {"http_fallback", NoOne}
=============================================================================
