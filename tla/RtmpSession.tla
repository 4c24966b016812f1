------------------------------ MODULE RtmpSession ------------------------------
(* One publishing session over one TCP connection, both ends of this          *)
(* repository: the push client (rtmp_client.c, from the handshake to the      *)
(* frames) and a connection thread of the server (rtmp_server.c).  What is    *)
(* written on the connection is a sequence of tokens: the parts of the        *)
(* handshake, the chunk headers, and runs of payload with their number of     *)
(* bytes.  Numbers of bytes are those of the code.                            *)
EXTENDS Naturals, Sequences

CONSTANTS AppLen, UrlLen, KeyLen,  \* lengths of app, tcUrl and stream key
          ConfigChunk,             \* config.connection.chunk_size of the client
          FrameLens,               \* sizes of the encoded frames
          Timestamps,              \* their timestamps
          MaxFrames                \* bound of the model on frames sent

ClientChunk == 4096       \* RTMP_DEFAULT_CHUNK_SIZE of the client
ServerChunk == 65536      \* RTMP_DEFAULT_CHUNK_SIZE of the server
Escape      == 16777215   \* 0xFFFFFF: an extended timestamp follows

\* what the modules that instantiate this one assume: the buffers of the client
\* (app[256], tc_url[512], stream_key[256]), the chunk sizes its configuration may
\* have, and that no frame is empty behind the five bytes of its tag
LengthsAssumption ==
  /\ AppLen \in 0..255 /\ UrlLen \in 0..511 /\ KeyLen \in 0..255
  /\ ConfigChunk \in 128..65536
  /\ FrameLens \subseteq Nat \ {0} /\ Timestamps \subseteq Nat /\ MaxFrames \in Nat

VARIABLES up, down,      \* tokens under way to the server, to the client
          broken,        \* the connection is lost
          client,        \* where the client's connection thread is
          chunkOut,      \* conn->chunk_size_out of the client
          streamId,      \* conn->stream_id of the client
          sender,        \* the message the frame thread is writing, and how far
          frames,        \* frames begun
          server,        \* where the server's thread is
          chunkIn,       \* conn->chunk_size_in of the server
          lastLen, lastType,  \* last_headers[] of the chunk stream: in the code one
                         \* static array for all connections, here that of a
                         \* server with one connection
          connState, publishing,
          sent, got,     \* messages completely written, completely assembled
          odd            \* history: a message was written that need not be read
                         \* as it was meant (see Odd below)

clientVars == <<client, chunkOut, streamId>>
sendVars   == <<sender, frames>>
serverVars == <<server, chunkIn, lastLen, lastType, connState, publishing, got>>
vars == <<up, down, broken, clientVars, sendVars, serverVars, sent, odd>>

-----------------------------------------------------------------------------
(* Encodings: the number of bytes each AMF0 value takes, and the values of    *)
(* each command in their order.                                               *)

StringLen(n)      == 1 + 2 + n
NumberLen         == 1 + 8
NullLen           == 1
ObjectStartLen    == 1
PropertyLen(k, n) == 2 + k + StringLen(n)
ObjectEndLen      == 3

ConnectLen == StringLen(7) + NumberLen + ObjectStartLen + PropertyLen(3, AppLen)
              + PropertyLen(4, 10) + PropertyLen(8, 8) + PropertyLen(5, UrlLen)
              + ObjectEndLen
CreateStreamLen == StringLen(12) + NumberLen + NullLen
PublishLen == StringLen(7) + NumberLen + NullLen + StringLen(KeyLen) + StringLen(4)

\* _result with an empty object and null; _result with null and the identifier;
\* onStatus with null and an object that never holds the status
ConnectResultLen      == StringLen(7) + NumberLen + ObjectStartLen + ObjectEndLen + NullLen
CreateStreamResultLen == StringLen(7) + NumberLen + NullLen + NumberLen
PublishStatusLen      == StringLen(8) + NumberLen + NullLen + ObjectStartLen + ObjectEndLen

Amf(command) ==
  CASE command = "connect"      -> <<"string", "number", "object">>
    [] command = "createStream" -> <<"string", "number", "null">>
    [] command = "publish"      -> <<"string", "number", "null", "string", "string">>

\* rtmp_command_parse: a name, a number, whatever comes third, and arguments
Parses(values)    == Len(values) >= 2 /\ values[1] = "string" /\ values[2] = "number"
Arguments(values) == SubSeq(values, 4, Len(values))
HasKey(values)    == Len(Arguments(values)) >= 1 /\ Arguments(values)[1] = "string"

-----------------------------------------------------------------------------
(* Tokens.                                                                   *)

Part(name)         == [kind |-> name, fmt |-> 0, len |-> 0, type |-> "none"]
Header(f, n, type) == [kind |-> "header", fmt |-> f, len |-> n, type |-> type]
Data(n, type)      == [kind |-> "data", fmt |-> 0, len |-> n, type |-> type]

\* the reader takes four more bytes after a header whose timestamp is the
\* escape value; the client writes the low 24 bits and never those bytes
Extended(ts) == ts % (Escape + 1) = Escape

\* rtmp_client_write_chunk: one header and all the data, whatever the chunk size
Whole(n, type) == <<Header(0, n, type), Data(n, type)>>

\* rtmp_client_send_chunked_message and rtmp_chunk_write: a full header, then
\* continuation headers, each followed by at most a chunk of data
Chunked(n, type, size) ==
  LET pieces == (n + size - 1) \div size
      Piece(i) == IF i < pieces THEN size ELSE n - size * (pieces - 1)
  IN [i \in 1..(2 * pieces) |->
        IF i % 2 = 1 THEN Header(IF i = 1 THEN 0 ELSE 3, n, type)
                     ELSE Data(Piece(i \div 2), type)]

-----------------------------------------------------------------------------
Init ==
  /\ up = <<>> /\ down = <<>> /\ broken = FALSE
  /\ client = "c0" /\ chunkOut = ClientChunk /\ streamId = 0
  /\ sender = <<>> /\ frames = 0
  /\ server = "c0" /\ chunkIn = ServerChunk /\ lastLen = 0 /\ lastType = "none"
  /\ connState = "uninitialized" /\ publishing = FALSE
  /\ sent = <<>> /\ got = <<>>
  /\ odd = FALSE

\* the connection is lost: what is under way does not arrive
Break ==
  /\ ~broken /\ broken' = TRUE /\ up' = <<>> /\ down' = <<>>
  /\ UNCHANGED <<clientVars, sendVars, serverVars, sent, odd>>

-----------------------------------------------------------------------------
(* The client's connection thread.                                          *)

ClientFails == /\ client \notin {"failed", "steady"} /\ broken
               /\ client' = "failed"
               /\ UNCHANGED <<up, down, broken, chunkOut, streamId, sendVars, serverVars, sent, odd>>

Writes(from, to, tokens) ==
  /\ client = from /\ ~broken /\ client' = to
  /\ up' = up \o tokens
  /\ UNCHANGED <<down, broken, chunkOut, sendVars, serverVars, odd>>

Reads(from, to, name) ==
  /\ client = from /\ ~broken /\ down # <<>> /\ Head(down).kind = name
  /\ client' = to /\ down' = Tail(down)
  /\ UNCHANGED <<up, broken, chunkOut, streamId, sendVars, serverVars, sent, odd>>

ClientHandshake ==
  \/ Writes("c0", "c1", <<Part("c0")>>) /\ UNCHANGED <<streamId, sent>>
  \/ Writes("c1", "s0", <<Part("c1")>>) /\ UNCHANGED <<streamId, sent>>
  \/ Reads("s0", "s1", "s0")
  \/ Reads("s1", "s2", "s1")
  \/ Reads("s2", "c2", "s2")
  \/ Writes("c2", "connect", <<Part("c2")>>) /\ UNCHANGED <<streamId, sent>>

\* a command goes out in one piece; the reply is given 200 milliseconds
Connect ==
  /\ Writes("connect", "connecting", Whole(ConnectLen, "connect"))
  /\ sent' = Append(sent, "connect") /\ UNCHANGED streamId
CreateStream ==
  /\ Writes("createStream", "creating", Whole(CreateStreamLen, "createStream"))
  /\ sent' = Append(sent, "createStream") /\ UNCHANGED streamId
Publish ==
  /\ Writes("publish", "publishing", Whole(PublishLen, "publish"))
  /\ sent' = Append(sent, "publish") /\ UNCHANGED streamId

\* rtmp_client_connection_read_available takes what has arrived, which may be
\* nothing, and never looks whether it is the answer
ReadAvailable(from, to) ==
  /\ client = from /\ ~broken /\ client' = to
  /\ \E n \in 0..Len(down) :
       /\ down' = SubSeq(down, n + 1, Len(down))
       /\ IF from = "creating" /\ n > 0 /\ down[n].type # "createStreamResult"
            THEN streamId' \in {0, 1}
            ELSE streamId' = IF from = "creating" THEN 1 ELSE streamId
  /\ UNCHANGED <<up, broken, chunkOut, sendVars, serverVars, sent, odd>>

AwaitReply == \/ ReadAvailable("connecting", "createStream")
              \/ ReadAvailable("creating", "publish")
              \/ ReadAvailable("publishing", "setChunk")

\* the state is PUBLISHING from here on: frames may come.  SET_CHUNK_SIZE is
\* written with the old size, then the new one is used
SetChunkHeader ==
  /\ Writes("setChunk", "setChunkData", <<Header(0, 4, "setChunkSize")>>)
  /\ UNCHANGED <<streamId, sent>>
SetChunkData ==
  /\ Writes("setChunkData", "useChunk", <<Data(4, "setChunkSize")>>)
  /\ sent' = Append(sent, "setChunkSize") /\ UNCHANGED streamId
UseChunk ==
  /\ client = "useChunk" /\ client' = "aac" /\ chunkOut' = ConfigChunk
  /\ UNCHANGED <<up, down, broken, streamId, sendVars, serverVars, sent, odd>>

\* send_aac_config: a header and four bytes
AacHeader ==
  Writes("aac", "aacData", <<Header(0, 4, "audio")>>) /\ UNCHANGED <<streamId, sent>>
AacData ==
  /\ Writes("aacData", "steady", <<Data(4, "audio")>>)
  /\ sent' = Append(sent, "audio") /\ UNCHANGED streamId

ClientThread == ClientHandshake \/ Connect \/ CreateStream \/ Publish \/ AwaitReply
                \/ SetChunkHeader \/ SetChunkData \/ UseChunk \/ AacHeader \/ AacData

-----------------------------------------------------------------------------
(* The frame thread writes a frame chunk by chunk on the same socket.        *)

\* conn->state is RTMP_CLIENT_STATE_PUBLISHING
MaySend == client \in {"setChunk", "setChunkData", "useChunk", "aac", "aacData", "steady"}

\* Three kinds of frame the server need not understand: one written while the
\* connection thread still writes, one of more than a chunk, and one whose
\* timestamp reads as the escape value.
Odd(n, ts) == client # "steady" \/ n > chunkOut \/ Extended(ts)

BeginFrame(n, ts) ==
  /\ MaySend /\ sender = <<>> /\ frames < MaxFrames /\ ~broken
  /\ sender' = IF Extended(ts) THEN <<Header(4, n, "video")>> \o Tail(Chunked(n, "video", chunkOut))
                               ELSE Chunked(n, "video", chunkOut)
  /\ frames' = frames + 1 /\ odd' = (odd \/ Odd(n, ts))
  /\ UNCHANGED <<up, down, broken, clientVars, serverVars, sent>>

SendPiece ==
  /\ sender # <<>> /\ ~broken
  /\ up' = Append(up, Head(sender)) /\ sender' = Tail(sender)
  /\ sent' = IF Len(sender) = 1 THEN Append(sent, "video") ELSE sent
  /\ UNCHANGED <<down, broken, clientVars, frames, serverVars, odd>>

\* a write that fails ends the publishing
SendFails ==
  /\ sender # <<>> /\ broken
  /\ sender' = <<>> /\ client' = "failed"
  /\ UNCHANGED <<up, down, broken, chunkOut, streamId, frames, serverVars, sent, odd>>

-----------------------------------------------------------------------------
(* The server's thread.                                                      *)

ServerReads(from, to, name) ==
  /\ server = from /\ up # <<>> /\ Head(up).kind = name
  /\ up' = Tail(up) /\ server' = to
  /\ UNCHANGED <<down, broken, clientVars, sendVars, chunkIn, lastLen, lastType,
                 publishing, got, sent, odd>>

ServerWrites(from, to, name) ==
  /\ server = from /\ ~broken /\ server' = to
  /\ down' = Append(down, Part(name))
  /\ UNCHANGED <<up, broken, clientVars, sendVars, chunkIn, lastLen, lastType,
                 connState, publishing, got, sent, odd>>

\* rtmp_handshake_process; C2 is not compared with S1
SwappedHandshake ==
  \/ ServerReads("c0", "s0", "c0") /\ connState' = "version_sent"
  \/ ServerWrites("s0", "c1", "s0")
  \/ ServerReads("c1", "c2", "c1") /\ UNCHANGED connState
  \/ ServerReads("c2", "s1", "c2") /\ UNCHANGED connState
  \/ ServerWrites("s1", "s2", "s1")
  \/ ServerWrites("s2", "loop", "s2")
ServerHandshake ==
  \/ ServerReads("c0", "s0", "c0") /\ connState' = "version_sent"
  \/ ServerWrites("s0", "c1", "s0")
  \/ ServerReads("c1", "s1", "c1") /\ UNCHANGED connState
  \/ ServerWrites("s1", "s2", "s1")
  \/ ServerWrites("s2", "c2", "s2")
  \/ ServerReads("c2", "loop", "c2") /\ connState' = "handshake_done"

Smaller(a, b) == IF a < b THEN a ELSE b

\* rtmp_chunk_read at the head of the stream h, rest: a continuation takes the
\* length and the type of the last header of its chunk stream; the message was
\* just cleared, so every chunk is read as if it were the first
HeaderLen(h)  == IF h.fmt = 3 THEN lastLen ELSE h.len
StaleType(h)  == lastType
HeaderType(h) == IF h.fmt = 3 THEN lastType ELSE h.type
ChunkData(h)  == Smaller(HeaderLen(h), chunkIn)

ChunkThere == Len(up) >= 2 /\ server = "loop" /\ Head(up).kind = "header"

\* the data of the chunk is there, and nothing else
Aligned == ChunkThere /\ Head(up).fmt # 4 /\ up[2].kind = "data" /\ up[2].len = ChunkData(Head(up))

\* rtmp_message_parse and rtmp_command_handle for one complete message
Handled(type) == type \in {"connect", "createStream", "publish"} /\ Parses(Amf(type))

Replies(type) ==
  CASE type = "connect"      -> Chunked(ConnectResultLen, "connectResult", ServerChunk)
    [] type = "createStream" -> Chunked(CreateStreamResultLen, "createStreamResult", ServerChunk)
    [] type = "publish"      -> Chunked(PublishStatusLen, "publishStatus", ServerChunk)

NewChunkIn == ConfigChunk

Handle(type) ==
  /\ got' = Append(got, type)
  /\ connState' = IF Handled(type) /\ type = "connect" THEN "connected" ELSE connState
  /\ publishing' = (publishing \/ (Handled(type) /\ type = "publish" /\ HasKey(Amf(type))))
  /\ chunkIn' = IF type = "setChunkSize" THEN NewChunkIn ELSE chunkIn
  /\ down' = IF Handled(type) /\ ~broken THEN down \o Replies(type) ELSE down

ReadChunk ==
  /\ Aligned
  /\ up' = SubSeq(up, 3, Len(up))
  /\ lastLen' = HeaderLen(Head(up)) /\ lastType' = HeaderType(Head(up))
  /\ IF ChunkData(Head(up)) >= HeaderLen(Head(up))
       THEN Handle(HeaderType(Head(up)))
       ELSE UNCHANGED <<got, connState, publishing, chunkIn, down>>
  /\ UNCHANGED <<broken, clientVars, sendVars, server, sent, odd>>

\* what is read as a header is data, or what is read as data runs into a header
Misread ==
  /\ server = "loop"
  /\ \/ up # <<>> /\ Head(up).kind = "data"
     \/ ChunkThere /\ ~Aligned
  /\ server' = "lost" /\ up' = <<>>
  /\ UNCHANGED <<down, broken, clientVars, sendVars, chunkIn, lastLen, lastType,
                 connState, publishing, got, sent, odd>>

\* end of file or an error, in the handshake or between messages
NoticesLoss   == server # "closed"

ServerEnds ==
  /\ broken /\ up = <<>> /\ NoticesLoss
  /\ server' = "closed" /\ publishing' = FALSE
  /\ UNCHANGED <<up, down, broken, clientVars, sendVars, chunkIn, lastLen, lastType,
                 connState, got, sent, odd>>

ServerThread == ServerHandshake \/ ReadChunk \/ Misread \/ ServerEnds

-----------------------------------------------------------------------------
Next == Break \/ ClientFails \/ ClientThread \/ SendPiece \/ SendFails \/ ServerThread
        \/ \E n \in FrameLens, ts \in Timestamps : BeginFrame(n, ts)

Spec == Init /\ [][Next]_vars
\* both threads run; frames and the loss of the connection may never come
FairSpec == Spec /\ WF_vars(ClientThread \/ ClientFails) /\ WF_vars(ServerThread)
                 /\ WF_vars(SendPiece \/ SendFails)

-----------------------------------------------------------------------------
TypeOK ==
  /\ {broken, publishing, odd} \subseteq BOOLEAN
  /\ chunkOut \in {ClientChunk, ConfigChunk} /\ chunkIn \in {ServerChunk, ConfigChunk}
  /\ streamId \in {0, 1} /\ frames \in 0..MaxFrames /\ lastLen \in Nat
  /\ server \in {"c0", "s0", "c1", "s1", "s2", "c2", "loop", "lost", "closed"}
  /\ client \in {"c0", "c1", "s0", "s1", "s2", "c2", "connect", "connecting",
                 "createStream", "creating", "publish", "publishing", "setChunk",
                 "setChunkData", "useChunk", "aac", "aacData", "steady", "failed"}
  /\ \A i \in DOMAIN up : up[i].kind = "data" => up[i].len > 0

\* The server takes payload for a header, or a header for payload, only after
\* one of the odd frames: the two ends agree at every chunk on its size, also
\* around SET_CHUNK_SIZE and for the commands written in one piece.
InStep == server = "lost" => odd

\* What the server has assembled is what the client wrote, in its order; the
\* client never waits for an answer, yet who publishes has connected.
InOrder == /\ ~odd => Len(got) <= Len(sent) /\ got = SubSeq(sent, 1, Len(got))
           /\ publishing => connState = "connected"

\* What the server makes of the bytes of a session.
SessionInOrder == InStep /\ InOrder

\* A session whose connection is not lost gets through: it is publishing at the
\* server, and every message written has been assembled there.
Delivered ==
  [](~broken /\ ~odd) => <>[](publishing /\ client = "steady" /\ got = sent)

\* docs/RTMP_TECHNICAL.md:112, "Partial message assembly across multiple chunks":
\* a message of several chunks is assembled.  The code clears it at every chunk.
Assembled == [](~broken /\ server # "lost") => []<>(Len(got) = Len(sent))
=============================================================================
