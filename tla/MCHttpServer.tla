---------------------------- MODULE MCHttpServer ----------------------------
(* Two clients on three descriptors: the listening socket and one for each    *)
(* client, so that a snapshot file competes with the clients for the last.    *)
EXTENDS HttpServer

ThreeFds == 1..3
=============================================================================
