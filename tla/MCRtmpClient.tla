----------------------------- MODULE MCRtmpClient -----------------------------
(* Model values for checking RtmpClient with TLC.                          *)
EXTENDS RtmpClient, TLC

CONSTANTS youtube, twitch

Both == {youtube, twitch}
One  == {youtube}
=============================================================================
