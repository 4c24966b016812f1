---------------------------- MODULE MCMediaSockets ----------------------------
(* Model-checking instance of MediaSockets: descriptor numbers 1..N.       *)
EXTENDS MediaSockets

Fds2 == 1..2
Fds3 == 1..3
Fds4 == 1..4
=============================================================================
