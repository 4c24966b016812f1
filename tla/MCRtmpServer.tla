----------------------------- MODULE MCRtmpServer -----------------------------
(* RtmpParts for TLC: two connections, and a session to                       *)
(* rtmp://192.168.1.10:1935/live with a key of eight characters.              *)
EXTENDS RtmpParts

\* frames of one chunk, of one byte more, or of two chunks
SomeFrames == {256, 257}
LongFrames == {512}
SomeTimes  == {0, 16777215}  \* the escape value of RtmpSession
AtStart    == {0}
=============================================================================
