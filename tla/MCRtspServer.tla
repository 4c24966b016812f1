---------------------------- MODULE MCRtspServer ----------------------------
(* Instances of RtspServer for TLC: descriptor numbers are 1..N.           *)
EXTENDS RtspServer

Fds2 == 1..2
Fds3 == 1..3
Fds4 == 1..4
=============================================================================
