---------------------------- MODULE OnvifDiscovery ----------------------------
(* The answer to WS-Discovery probes (modules/onvif/onvif_discovery.c): a ring *)
(* of recent message ids, in which retransmissions are recognised, and a cache *)
(* of clients that were answered within the last second.  Both are static: they *)
(* outlive the thread.  Clocks are seconds of time(), which somebody may set   *)
(* forward or back.                                                             *)
EXTENDS Integers, FiniteSets, Functions

CONSTANTS Ids,        \* message ids of the 127 characters at most that the ring keeps
          Clients,    \* addresses
          RingSize,   \* MAX_RECENT_MESSAGES
          CacheSize,  \* MAX_RECENT_CLIENTS
          Window,     \* the 5 seconds of is_duplicate_message
          Pause,      \* RESPONSE_COOLDOWN_SECONDS
          MaxTime,    \* bound of the model on seconds
          MaxAhead,   \* how far the clock may be set forward, in all
          MaxBack     \* how far it may be set back, in all

\* what the modules that instantiate this one assume of its constants
TablesAssumption ==
  /\ {RingSize, CacheSize} \subseteq Nat \ {0}
  /\ {Window, Pause, MaxAhead, MaxBack} \subseteq Nat
  /\ "none" \notin Ids \cup Clients
  /\ IsFiniteSet(Ids) /\ IsFiniteSet(Clients)

VARIABLES running,    \* discovery_running
          thread,     \* "none", "receiving", "over"
          ring,       \* recent_messages: [id, at] per index, id "none" before use
          next,       \* its next_index
          cache,      \* client_cooldown_cache: [ip, at] per index, ip "none" before use
          nextClient, \* its next_index
          elapsed,    \* seconds that really passed
          ahead,      \* how far the clock was set forward
          behind,     \* how far it was set back
          heard,      \* history: when each id was last taken for new
          younger,    \* history: the ids recorded since each id was
          served,     \* history: when each client was last answered
          later       \* history: the clients added since each client was

tables  == <<ring, next, cache, nextClient>>
history == <<heard, younger, served, later>>
clock   == <<elapsed, ahead, behind>>
discoveryVars == <<running, thread, tables, clock, history>>

Now == elapsed + ahead - behind

\* what a clock would show that is only ever set forward, or only ever back, and
\* what the two showed at a moment
Fast == elapsed + ahead
Slow == elapsed - behind
Moment == [fast |-> Fast, slow |-> Slow]
Never == [fast |-> -1, slow |-> 0]

TypeOK ==
  /\ running \in BOOLEAN /\ thread \in {"none", "receiving", "over"}
  /\ ring \in [0..(RingSize - 1) -> [id : Ids \cup {"none"}, at : Int]]
  /\ cache \in [0..(CacheSize - 1) -> [ip : Clients \cup {"none"}, at : Int]]
  /\ next \in DOMAIN ring /\ nextClient \in DOMAIN cache
  /\ elapsed \in Nat /\ ahead \in 0..MaxAhead /\ behind \in 0..MaxBack
  /\ heard \in [Ids -> [fast : Int, slow : Int]] /\ younger \in [Ids -> SUBSET Ids]
  /\ served \in [Clients -> [fast : Int, slow : Int]] /\ later \in [Clients -> SUBSET Clients]

\* a clock beyond 1970, so that unused entries are old
Init ==
  /\ running = FALSE /\ thread = "none"
  /\ ring = [i \in 0..(RingSize - 1) |-> [id |-> "none", at |-> 0]] /\ next = 0
  /\ cache = [i \in 0..(CacheSize - 1) |-> [ip |-> "none", at |-> 0]] /\ nextClient = 0
  /\ elapsed = MaxBack + Window /\ ahead = 0 /\ behind = 0
  /\ heard = [i \in Ids |-> Never] /\ younger = [i \in Ids |-> {}]
  /\ served = [c \in Clients |-> Never] /\ later = [c \in Clients |-> {}]

-----------------------------------------------------------------------------
(* is_duplicate_message and is_client_in_cooldown.                            *)

IsDuplicate(i) == \E k \in DOMAIN ring : ring[k].id = i /\ Now - ring[k].at < Window

\* a mutant that does not move on
RecordInPlace(i) ==
  /\ ring' = [ring EXCEPT ![next] = [id |-> i, at |-> Now]]
  /\ UNCHANGED next

Record(i) ==
  /\ ring' = [ring EXCEPT ![next] = [id |-> i, at |-> Now]]
  /\ next' = (next + 1) % RingSize

\* the first entry of the client counts
Entry(c) == {k \in DOMAIN cache : cache[k].ip = c /\ \A j \in 0..(k - 1) : cache[j].ip # c}
IsPausing(c) == \E k \in Entry(c) : Now - cache[k].at < Pause

Serve(c) ==
  LET k == IF Entry(c) = {} THEN nextClient ELSE CHOOSE e \in Entry(c) : TRUE
  IN /\ cache' = [cache EXCEPT ![k] = [ip |-> c, at |-> Now]]
     /\ nextClient' = IF Entry(c) = {} THEN (nextClient + 1) % CacheSize ELSE nextClient

-----------------------------------------------------------------------------
(* The thread, and the calls of the ONVIF module.                             *)

Remember(i) ==
  /\ heard' = [heard EXCEPT ![i] = Moment]
  /\ younger' = [j \in Ids |-> IF j = i THEN {} ELSE younger[j] \cup {i}]

\* A probe is recorded before the client's pause is looked at
Ignore == UNCHANGED <<tables, history>>
Hold(i) == Record(i) /\ Remember(i) /\ UNCHANGED <<cache, nextClient, served, later>>
\* nothing is sent while the configuration has no address
Answer(i, c) ==
  /\ Record(i) /\ Remember(i) /\ Serve(c)
  /\ served' = [served EXCEPT ![c] = Moment]
  /\ later' = IF Entry(c) # {} THEN later
              ELSE [d \in Clients |-> IF d = c THEN {} ELSE later[d] \cup {c}]

Answers(i, c) == ~IsDuplicate(i) /\ ~IsPausing(c)

Probe(i, c) ==
  /\ thread = "receiving"
  /\ IF IsDuplicate(i) THEN Ignore ELSE IF IsPausing(c) THEN Hold(i) ELSE Answer(i, c)
  /\ thread' = IF running THEN "receiving" ELSE "over"
  /\ UNCHANGED <<running, clock>>

\* a datagram that is no probe, or has no message id, only ends the wait
OtherDatagram ==
  /\ thread = "receiving" /\ ~running /\ thread' = "over"
  /\ UNCHANGED <<running, tables, clock, history>>

\* socket, bind and the multicast group may fail: the thread is over at once, and
\* the flag set
StartDiscovery ==
  /\ ~running /\ thread = "none"
  /\ running' = TRUE /\ thread' \in {"receiving", "over"}
  /\ UNCHANGED <<tables, clock, history>>

StopDiscovery ==
  /\ running /\ running' = FALSE
  /\ UNCHANGED <<thread, tables, clock, history>>

Join ==
  /\ ~running /\ thread = "over" /\ thread' = "none"
  /\ UNCHANGED <<running, tables, clock, history>>

Tick ==
  /\ elapsed < MaxTime /\ elapsed' = elapsed + 1
  /\ UNCHANGED <<running, thread, tables, ahead, behind, history>>

\* NTP, or somebody, sets the clock
SetForward ==
  /\ \E n \in 1..(MaxAhead - ahead) : ahead' = ahead + n
  /\ UNCHANGED <<running, thread, tables, elapsed, behind, history>>

SetBack ==
  /\ \E n \in 1..(MaxBack - behind) : behind' = behind + n
  /\ UNCHANGED <<running, thread, tables, elapsed, ahead, history>>

Next == \/ \E i \in Ids, c \in Clients : Probe(i, c)
        \/ OtherDatagram \/ StartDiscovery \/ StopDiscovery \/ Join \/ Tick
        \/ SetForward \/ SetBack

Spec == Init /\ [][Next]_discoveryVars

-----------------------------------------------------------------------------
(* Properties.  "heard" and "served" remember what the tables stand for.  A    *)
(* step of the clock makes an entry look older, or younger, than it is: Fresh   *)
(* counts the steps forward since as time that passed, Recent takes the steps   *)
(* back off it.                                                               *)

Ever(m) == m.fast >= 0
Fresh(m, span) == Ever(m) /\ Fast - m.fast < span
Recent(m, span) == Ever(m) /\ Slow - m.slow < span

(* onvif_discovery.c:134-158: a retransmission that is fresh is answered only  *)
(* if as many other probes as the ring holds came in between, a client that    *)
(* was just answered only if as many others were added to the cache.           *)
NotTwice ==
  \A i \in Ids, c \in Clients :
     Answers(i, c) =>
       /\ Fresh(heard[i], Window) => Cardinality(younger[i]) >= RingSize
       /\ Fresh(served[c], Pause) => Cardinality(later[c]) >= CacheSize

(* onvif_discovery.c:165-196: a probe is ignored only if its id was heard      *)
(* recently, or its client answered: for no longer than the window and the     *)
(* pause, and the time by which the clock was set back.                        *)
IgnoredForAReason ==
  \A i \in Ids, c \in Clients :
     ~Answers(i, c) => Recent(heard[i], Window) \/ Recent(served[c], Pause)

(* Both tables do what they stand for, as far as the clock lets them.          *)
ProbesAnswered == NotTwice /\ IgnoredForAReason
=============================================================================
