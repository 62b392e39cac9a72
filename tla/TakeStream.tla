----------------------------- MODULE TakeStream ------------------------------
(***************************************************************************)
(* TakeStream of zizq/src/take.rs: the body of GET /jobs/take, which the   *)
(* network delivers in chunks cut anywhere, is decoded into jobs.          *)
(***************************************************************************)
EXTENDS Integers, SequencesExt

CONSTANTS
  Jobs,        \* the jobs the server may hand out
  Garbage,     \* frames that are no job the client knows
  Content,     \* [format -> [Jobs \cup Garbage -> the bytes of one]]
  MaxFrames    \* bound: the frames the server sends on one connection

Formats == {"Json", "MessagePack"}
Byte    == 0 .. 255
HighByte == 16777216    \* 2^24: what the first byte of a u32 counts

Tab        == 9
LineFeed   == 10
FormFeed   == 12
Return     == 13
Space      == 32
Whitespace == {Tab, LineFeed, FormFeed, Return, Space}

(* A record is not empty and fits the header of a frame; two records       *)
(* differ, if one is a job.  JSON is written on one line, and neither      *)
(* consists of whitespace nor ends in a carriage return.                   *)
ASSUME ContentAssumption ==
  /\ Jobs \cap Garbage = {}
  /\ (Jobs \cup Garbage) \cap {"beat", "blank", "NeedMore", "Heartbeat", "Decode", "Transport"} = {}
  /\ Content \in [Formats -> [Jobs \cup Garbage -> Seq(Byte)]]
  /\ \A f \in Formats : \A x \in Jobs \cup Garbage :
       Content[f][x] # <<>> /\ Len(Content[f][x]) \div HighByte \in Byte
  /\ \A f \in Formats : \A j \in Jobs : \A x \in Jobs \cup Garbage :
       Content[f][j] = Content[f][x] => j = x
  /\ \A x \in Jobs \cup Garbage :
       LET line == Content["Json"][x]
       IN  /\ \A i \in 1 .. Len(line) : line[i] # LineFeed
           /\ \E i \in 1 .. Len(line) : line[i] \notin Whitespace
           /\ line[Len(line)] # Return

ASSUME MaxFramesAssumption == MaxFrames \in Nat

VARIABLES
  format,     \* the decoder the Content-Type picked
  frames,     \* what the server has sent
  body,       \* those frames as bytes
  ends,       \* the length of the body after each of them
  lost,       \* how many bytes at its end do not reach the client
  ending,     \* "open", or how the body ended: "clean" or "broken"
  received,   \* how many bytes poll_next has read
  buffer,     \* StreamDecoder's buffer
  finished,   \* TakeStream::finished
  items       \* what poll_next has returned, and how much of the body it had taken

vars == <<format, frames, body, ends, lost, ending, received, buffer, finished, items>>

connection == <<format, frames, body, ends, lost, ending>>

-----------------------------------------------------------------------------
(* The server's side: jobs, frames that are none, and heartbeats.          *)
FrameKinds == Jobs \cup Garbage \cup {"beat", "blank"}

Text(f) ==
  IF f = "beat" THEN <<>> ELSE IF f = "blank" THEN <<Space>> ELSE Content[format][f]

LineEnds == {<<LineFeed>>, <<Return, LineFeed>>}

(* u32::to_be_bytes *)
Header(n) == <<n \div HighByte, (n \div 65536) % 256, (n \div 256) % 256, n % 256>>

Framings(f) ==
  IF format = "Json" THEN {Text(f) \o eol : eol \in LineEnds}
  ELSE IF f = "blank" THEN {} ELSE {Header(Len(Text(f))) \o Text(f)}

(* How far the body reaches. *)
Arriving == Len(body) - lost

-----------------------------------------------------------------------------
(* The decoders: what the first frame of the buffer is, and how many bytes *)
(* it takes off.                                                           *)
Found(is, took) == [is |-> is, took |-> took]

NeedMore == Found("NeedMore", 0)

Parsed(bytes, took) ==
  IF \E j \in Jobs : bytes = Content[format][j]
  THEN Found(CHOOSE j \in Jobs : bytes = Content[format][j], took)
  ELSE Found("Decode", took)

Blank(bytes) == \A i \in 1 .. Len(bytes) : bytes[i] \in Whitespace

Stripped(line) ==
  IF line # <<>> /\ line[Len(line)] = Return THEN SubSeq(line, 1, Len(line) - 1) ELSE line

(* iter().position: 0 for None. *)
FirstLineFeed(bytes) == SelectInSeq(bytes, LAMBDA b : b = LineFeed)

M_DecodeNdjson(bytes) ==
  LET nl == FirstLineFeed(bytes)
      line == Stripped(SubSeq(bytes, 1, nl - 1))
  IN  IF nl = 0 THEN NeedMore
      ELSE IF Blank(line) THEN Found("NeedMore", nl)
      ELSE Parsed(line, nl)

DecodeNdjson(bytes) ==
  LET nl == FirstLineFeed(bytes)
      line == Stripped(SubSeq(bytes, 1, nl - 1))
  IN  IF nl = 0 THEN NeedMore
      ELSE IF Blank(line) THEN Found("Heartbeat", nl)
      ELSE Parsed(line, nl)

(* u32::from_be_bytes *)
BigEndian(bytes) == HighByte * bytes[1] + 65536 * bytes[2] + 256 * bytes[3] + bytes[4]

M_DecodeMsgpack(bytes) ==
  IF Len(bytes) < 4 THEN NeedMore
  ELSE LET len == BigEndian(bytes)
       IN  IF len = 0 THEN Found("Heartbeat", 4)
           ELSE IF Len(bytes) < 4 + len THEN NeedMore
           ELSE Parsed(SubSeq(bytes, 5, 4 + len), len)

DecodeMsgpack(bytes) ==
  IF Len(bytes) < 4 THEN NeedMore
  ELSE LET len == BigEndian(bytes)
       IN  IF len = 0 THEN Found("Heartbeat", 4)
           ELSE IF Len(bytes) < 4 + len THEN NeedMore
           ELSE Parsed(SubSeq(bytes, 5, 4 + len), 4 + len)

Decoded == IF format = "Json" THEN DecodeNdjson(buffer) ELSE DecodeMsgpack(buffer)

Rest == SubSeq(buffer, Decoded.took + 1, Len(buffer))

(* How much of the body has been taken off the buffer. *)
Consumed == received - Len(buffer)

-----------------------------------------------------------------------------
Init ==
  /\ format \in Formats
  /\ frames = <<>> /\ body = <<>> /\ ends = <<>>
  /\ lost = 0
  /\ ending = "open"
  /\ received = 0
  /\ buffer = <<>>
  /\ finished = FALSE
  /\ items = <<>>

Send(f) ==
  /\ ending = "open"
  /\ Len(frames) < MaxFrames
  /\ \E bytes \in Framings(f) :
       /\ frames' = Append(frames, f)
       /\ body' = body \o bytes
       /\ ends' = Append(ends, Len(body) + Len(bytes))
  /\ UNCHANGED <<format, lost, ending, received, buffer, finished, items>>

(* The server closes, or the connection breaks: what is still on its way   *)
(* is lost from any byte on.                                               *)
ConnectionEnds(how) ==
  /\ ending = "open"
  /\ ending' = how
  /\ lost' \in 0 .. Len(body) - received
  /\ UNCHANGED <<format, frames, body, ends, received, buffer, finished, items>>

(* poll_next, one round of its loops each: the decoder comes first, and    *)
(* goes on past heartbeats.                                                *)
SkipHeartbeat ==
  /\ ~finished
  /\ Decoded.is = "Heartbeat"
  /\ buffer' = Rest
  /\ UNCHANGED <<connection, received, finished, items>>

Yield(item) == items' = Append(items, [is |-> item, at |-> Consumed + Decoded.took])

M_YieldJob ==
  /\ ~finished
  /\ Decoded.is \in Jobs
  /\ Yield(Decoded.is)
  /\ UNCHANGED <<connection, received, buffer, finished>>

YieldJob ==
  /\ ~finished
  /\ Decoded.is \in Jobs
  /\ Yield(Decoded.is)
  /\ buffer' = Rest
  /\ UNCHANGED <<connection, received, finished>>

YieldDecodeError ==
  /\ ~finished
  /\ Decoded.is = "Decode"
  /\ Yield("Decode")
  /\ buffer' = Rest
  /\ finished' = TRUE
  /\ UNCHANGED <<connection, received>>

(* The decoder needs more, and a chunk has arrived. *)
Feed ==
  /\ ~finished
  /\ Decoded.is = "NeedMore"
  /\ \E n \in 1 .. Arriving - received :
       /\ buffer' = buffer \o SubSeq(body, received + 1, received + n)
       /\ received' = received + n
  /\ UNCHANGED <<connection, finished, items>>

BodyBreaks ==
  /\ ~finished
  /\ Decoded.is = "NeedMore"
  /\ received = Arriving
  /\ ending = "broken"
  /\ finished' = TRUE
  /\ Yield("Transport")
  /\ UNCHANGED <<connection, received, buffer>>

M_BodyEnds ==
  /\ ~finished
  /\ Decoded.is = "NeedMore"
  /\ received = Arriving
  /\ ending = "clean"
  /\ buffer' = <<>>
  /\ IF buffer = <<>> THEN UNCHANGED items ELSE Yield("Decode")
  /\ UNCHANGED <<connection, received, finished>>

(* finalize: a partial frame at the end of the body is an error. *)
BodyEnds ==
  /\ ~finished
  /\ Decoded.is = "NeedMore"
  /\ received = Arriving
  /\ ending = "clean"
  /\ buffer' = <<>>
  /\ finished' = TRUE
  /\ IF buffer = <<>> THEN UNCHANGED items ELSE Yield("Decode")
  /\ UNCHANGED <<connection, received>>

-----------------------------------------------------------------------------
Client == SkipHeartbeat \/ YieldJob \/ YieldDecodeError \/ Feed \/ BodyBreaks \/ BodyEnds

Server ==
  \/ \E f \in FrameKinds : Send(f)
  \/ \E how \in {"clean", "broken"} : ConnectionEnds(how)

Next == Client \/ Server

Spec == Init /\ [][Next]_vars

(* The caller polls, and what is on its way arrives; the server may leave  *)
(* the connection open for good.                                           *)
FairSpec == Spec /\ WF_vars(Client)

-----------------------------------------------------------------------------
TypeOK ==
  /\ format \in Formats
  /\ frames \in Seq(FrameKinds)
  /\ Len(frames) <= MaxFrames
  /\ body \in Seq(Byte)
  /\ ends \in Seq(0 .. Len(body))
  /\ Len(ends) = Len(frames)
  /\ lost \in 0 .. Len(body)
  /\ ending \in {"open", "clean", "broken"}
  /\ received \in 0 .. Arriving
  /\ buffer \in Seq(Byte)
  /\ Len(buffer) <= received
  /\ finished \in BOOLEAN
  /\ items \in Seq([is : Jobs \cup {"Decode", "Transport"}, at : 0 .. received])
  /\ Len(items) <= Len(frames) + 1

(* The frames that lie whole within the first n bytes of the body, and the *)
(* jobs among them that no garbled frame precedes.                         *)
WholeIn(n) == {k \in DOMAIN frames : ends[k] <= n}

GarbledIn(n) == \E k \in WholeIn(n) : frames[k] \in Garbage

DueIn(n) ==
  {k \in WholeIn(n) : frames[k] \in Jobs /\ \A g \in 1 .. k : frames[g] \notin Garbage}

(* The place of a job in the stream is where its frame ends. *)
IsYielded(k) == \E i \in DOMAIN items : items[i] = [is |-> frames[k], at |-> ends[k]]

(* The error that ends a stream, if one does: a frame that is no job, a    *)
(* connection that broke, or a body that ends within a frame.              *)
Outcome ==
  IF GarbledIn(Arriving) THEN {"Decode"}
  ELSE IF ending = "broken" THEN {"Transport"}
  ELSE IF Arriving = 0 \/ \E k \in DOMAIN ends : ends[k] = Arriving THEN {} ELSE {"Decode"}

Errors == {i \in DOMAIN items : items[i].is \notin Jobs}

(* The stream yields the jobs whose frames reach the client, in the order  *)
(* they were sent in and once each, however the bytes are cut into chunks, *)
(* and ends with an error for a frame or an ending that is not one, which  *)
(* nothing follows.                                                        *)
AsPromised ==
  /\ \A i \in DOMAIN items \ Errors :
       \E k \in DueIn(received) : items[i] = [is |-> frames[k], at |-> ends[k]]
  /\ \A i, j \in DOMAIN items \ Errors : i < j => items[i].at < items[j].at
  /\ \A k \in DOMAIN frames : \A i \in DOMAIN items :
       k \in DueIn(items[i].at) => IsYielded(k)
  /\ \A i \in Errors : i = Len(items) /\ finished
  /\ finished => /\ ending = "open" => GarbledIn(received)
                 /\ \A k \in DueIn(Arriving) : IsYielded(k)
                 /\ {items[i].is : i \in Errors} = Outcome

(* A job is yielded as soon as its last byte is read: poll_next waits for  *)
(* the network only when it holds no whole job back.                       *)
NothingHeldBack ==
  ~finished /\ Decoded.is = "NeedMore" =>
    /\ \A k \in DueIn(received) : IsYielded(k)
    /\ ~GarbledIn(received)

(* Once the body has ended, so does the stream. *)
Ends == (ending # "open") ~> finished
=============================================================================
