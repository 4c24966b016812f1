----------------------------- MODULE MCRtspParts -----------------------------
(* RtspParts for TLC: values that do not matter to the part a behaviour is     *)
(* about are fixed.                                                            *)
EXTENDS RtspParts

\* NAL units around every limit that ten bytes behind the RTP header make
AnySizes == {2, 6, 7, 8, 9, 16, 17, 18, 19}

MCInit ==
  /\ PartsInit
  /\ part # "payload" => codec = "h264" /\ ~tcp /\ rtpNals = <<2>>
  /\ part # "tls" => tlsBackend = "openssl"
  /\ part # "module" => backend = "none" /\ ~enabled /\ ~tls /\ certFile = 0 /\ keyFile = 0

MCSpec == MCInit /\ [][PartsNext]_partsVars /\ PartsFairness
=============================================================================
