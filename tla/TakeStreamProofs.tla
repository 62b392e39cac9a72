-------------------------- MODULE TakeStreamProofs ---------------------------
(* Theorems about TakeStream: any jobs, any frames, any cut into chunks. *)
EXTENDS TakeStream, SequenceTheorems, TLAPS

-----------------------------------------------------------------------------
(* The bytes of a frame.                                                   *)

LEMMA Joined ==
  ASSUME NEW S, NEW s \in Seq(S), NEW t \in Seq(S), NEW r, r = s \o t
  PROVE  /\ r \in Seq(S) /\ Len(r) = Len(s) + Len(t)
         /\ \A i \in 1 .. Len(s) : r[i] = s[i]
         /\ \A i \in 1 .. Len(t) : r[Len(s) + i] = t[i]
  OBVIOUS

LEMMA Prefix ==
  ASSUME NEW S, NEW s \in Seq(S), NEW n \in Nat, n <= Len(s), NEW r, r = SubSeq(s, 1, n)
  PROVE  /\ r \in Seq(S) /\ Len(r) = n
         /\ \A i \in 1 .. n : r[i] = s[i]
  OBVIOUS

LEMMA Chunk ==
  ASSUME NEW S, NEW s \in Seq(S), NEW m \in Nat, NEW n \in Nat, m + n <= Len(s),
         NEW r, r = SubSeq(s, m + 1, m + n)
  PROVE  /\ r \in Seq(S) /\ Len(r) = n
         /\ \A i \in 1 .. n : r[i] = s[m + i]
<1>1. r \in Seq(S) /\ Len(r) = n
  OBVIOUS
<1>2. \A i \in 1 .. n : r[i] = s[(m + 1) + i - 1]
  OBVIOUS
<1>3. \A i \in 1 .. n : (m + 1) + i - 1 = m + i
  OBVIOUS
<1> QED BY <1>1, <1>2, <1>3

LEMMA TextBytes ==
  ASSUME format \in Formats, NEW f \in FrameKinds
  PROVE  /\ Text(f) \in Seq(Byte)
         /\ Len(Text(f)) \div HighByte \in Byte
         /\ f \in Jobs \cup Garbage => Text(f) = Content[format][f] /\ Len(Text(f)) > 0
         /\ f = "beat" => Text(f) = <<>>
<1>1. CASE f \in Jobs \cup Garbage
  <2>1. Text(f) = Content[format][f]
    BY <1>1, ContentAssumption DEF Text
  <2>2. Content[format][f] \in Seq(Byte)
    BY <1>1, ContentAssumption
  <2>3. Content[format][f] # <<>> /\ Len(Content[format][f]) \div HighByte \in Byte
    BY <1>1, ContentAssumption
  <2>4. f # "beat"
    BY <1>1, ContentAssumption
  <2> QED BY <2>1, <2>2, <2>3, <2>4, EmptySeq
<1>2. CASE f = "beat"
  <2>1. Text(f) = <<>> /\ f \notin Jobs \cup Garbage
    BY <1>2, ContentAssumption DEF Text
  <2>2. 0 \div HighByte \in Byte
    BY SMT DEF HighByte, Byte
  <2> QED BY <2>1, <2>2
<1>3. CASE f = "blank"
  <2>1. Text(f) = <<Space>> /\ f \notin Jobs \cup Garbage
    BY <1>3, ContentAssumption DEF Text
  <2>2. 1 \div HighByte \in Byte
    BY SMT DEF HighByte, Byte
  <2>3. <<Space>> \in Seq(Byte) /\ Len(<<Space>>) = 1
    BY DEF Space, Byte
  <2> QED BY <2>1, <2>2, <2>3, <1>3
<1> QED BY <1>1, <1>2, <1>3 DEF FrameKinds

LEMMA HeaderBytes ==
  ASSUME NEW n \in Nat, n \div HighByte \in Byte
  PROVE  /\ Header(n) \in Seq(Byte)
         /\ Len(Header(n)) = 4
         /\ BigEndian(Header(n)) = n
<1>1. /\ (n \div 65536) % 256 \in Byte
      /\ (n \div 256) % 256 \in Byte
      /\ n % 256 \in Byte
  BY SMT DEF Byte
<1>2. /\ Header(n) \in Seq(Byte)
      /\ Len(Header(n)) = 4
  BY <1>1 DEF Header
<1>3. /\ n % 256 = n - 256 * (n \div 256)
      /\ (n \div 256) % 256 = (n \div 256) - 256 * (n \div 65536)
      /\ (n \div 65536) % 256 = (n \div 65536) - 256 * (n \div HighByte)
  BY SMT DEF HighByte
<1>4. /\ Header(n)[1] = n \div HighByte
      /\ Header(n)[2] = (n \div 65536) - 256 * (n \div HighByte)
      /\ Header(n)[3] = (n \div 256) - 256 * (n \div 65536)
      /\ Header(n)[4] = n - 256 * (n \div 256)
  BY <1>3 DEF Header
<1>5. /\ n \div HighByte \in Int
      /\ n \div 65536 \in Int
      /\ n \div 256 \in Int
  BY SMT DEF HighByte
<1>6. BigEndian(Header(n)) = n
  BY <1>4, <1>5, SMT DEF BigEndian, HighByte
<1> QED BY <1>2, <1>6

(* A line ends in its only line feed, and without its end is the text. *)
LEMMA LineBytes ==
  ASSUME format = "Json", NEW f \in FrameKinds, NEW bytes \in Framings(f)
  PROVE  /\ bytes \in Seq(Byte)
         /\ Len(bytes) > 0
         /\ \A i \in 1 .. Len(bytes) : bytes[i] = LineFeed <=> i = Len(bytes)
         /\ Stripped(SubSeq(bytes, 1, Len(bytes) - 1)) = Text(f)
<1>1. PICK eol \in LineEnds : bytes = Text(f) \o eol
  BY DEF Framings
<1>2. Text(f) \in Seq(Byte)
  BY TextBytes DEF Formats
<1>3. eol \in Seq(Byte) /\ Len(eol) \in {1, 2} /\ eol[Len(eol)] = LineFeed
        /\ (Len(eol) = 2 => eol[1] = Return)
  <2>1. CASE eol = <<LineFeed>>
    BY <2>1 DEF LineFeed, Byte
  <2>2. CASE eol = <<Return, LineFeed>>
    BY <2>2 DEF LineFeed, Return, Byte
  <2> QED BY <1>1, <2>1, <2>2 DEF LineEnds
<1>4. \A i \in 1 .. Len(Text(f)) : Text(f)[i] # LineFeed
  <2>1. CASE f \in Jobs \cup Garbage
    BY <2>1, TextBytes, ContentAssumption DEF Formats
  <2>2. CASE f \in {"beat", "blank"}
    BY <2>2, ContentAssumption DEF Text, LineFeed, Space
  <2> QED BY <2>1, <2>2 DEF FrameKinds
<1>5. Text(f) # <<>> => Text(f)[Len(Text(f))] # Return
  <2>1. CASE f \in Jobs \cup Garbage
    BY <2>1, TextBytes, ContentAssumption DEF Formats
  <2>2. CASE f \in {"beat", "blank"}
    BY <2>2, ContentAssumption DEF Text, Return, Space
  <2> QED BY <2>1, <2>2 DEF FrameKinds
<1> DEFINE t == Text(f)
<1> HIDE DEF t
<1>6. /\ bytes \in Seq(Byte) /\ Len(bytes) = Len(t) + Len(eol)
      /\ \A i \in 1 .. Len(t) : bytes[i] = t[i]
      /\ \A i \in 1 .. Len(eol) : bytes[Len(t) + i] = eol[i]
  <2>1. bytes = t \o eol /\ t \in Seq(Byte) /\ eol \in Seq(Byte)
    BY <1>1, <1>2, <1>3 DEF t
  <2> QED BY <2>1, Joined
<1>7. \A i \in 1 .. Len(bytes) : bytes[i] = LineFeed <=> i = Len(bytes)
  <2>1. t \in Seq(Byte) /\ \A i \in 1 .. Len(t) : t[i] # LineFeed
    BY <1>2, <1>4 DEF t
  <2> TAKE i \in 1 .. Len(bytes)
  <2>2. CASE i <= Len(t)
    BY <2>1, <2>2, <1>3, <1>6
  <2>3. CASE i = Len(t) + 1
    <3>1. bytes[i] = eol[1]
      BY <2>1, <2>3, <1>3, <1>6
    <3> QED BY <2>1, <2>3, <3>1, <1>3, <1>6 DEF LineFeed, Return
  <2>4. CASE i = Len(t) + 2
    <3>1. Len(eol) = 2 /\ bytes[i] = eol[2]
      BY <2>1, <2>4, <1>3, <1>6
    <3> QED BY <2>1, <2>4, <3>1, <1>3, <1>6
  <2> QED BY <2>1, <2>2, <2>3, <2>4, <1>3, <1>6
<1>8. Stripped(SubSeq(bytes, 1, Len(bytes) - 1)) = t
  <2> DEFINE line == SubSeq(bytes, 1, Len(bytes) - 1)
  <2>1. line \in Seq(Byte) /\ Len(line) = Len(bytes) - 1 /\ \A i \in 1 .. Len(line) : line[i] = bytes[i]
    <3>1. bytes \in Seq(Byte) /\ Len(bytes) - 1 \in Nat /\ Len(bytes) - 1 <= Len(bytes)
      <4>1. Len(t) \in Nat
        BY <1>2 DEF t
      <4> QED BY <4>1, <1>6, <1>3
    <3> DEFINE n == Len(bytes) - 1
    <3>2. line = SubSeq(bytes, 1, n)
      OBVIOUS
    <3>3. n \in Nat /\ n <= Len(bytes)
      BY <3>1
    <3> HIDE DEF line, n
    <3>4. line \in Seq(Byte) /\ Len(line) = n /\ \A i \in 1 .. n : line[i] = bytes[i]
      BY <3>1, <3>2, <3>3, Prefix
    <3> QED BY <3>4 DEF n
  <2>2. CASE Len(eol) = 1
    <3>1. line = t
      BY <2>1, <2>2, <1>6, <1>2 DEF t
    <3> QED BY <3>1, <1>5 DEF Stripped, t
  <2>3. CASE Len(eol) = 2
    <3> HIDE DEF line
    <3>1. line # <<>> /\ line[Len(line)] = Return
      BY <2>1, <2>3, <1>6, <1>3, <1>2 DEF t
    <3>2. SubSeq(line, 1, Len(line) - 1) = t
      BY <2>1, <2>3, <1>6, <1>2 DEF t
    <3>3. Stripped(line) = t
      BY <3>1, <3>2 DEF Stripped
    <3> QED BY <3>3 DEF line
  <2> QED BY <2>2, <2>3, <1>3
<1> QED BY <1>6, <1>7, <1>8, <1>2, <1>3 DEF t

LEMMA PackedBytes ==
  ASSUME format = "MessagePack", NEW f \in FrameKinds, NEW bytes \in Framings(f)
  PROVE  /\ bytes \in Seq(Byte)
         /\ f # "blank"
         /\ Len(bytes) = 4 + Len(Text(f))
         /\ BigEndian(bytes) = Len(Text(f))
         /\ SubSeq(bytes, 5, Len(bytes)) = Text(f)
<1>1. f # "blank" /\ bytes = Header(Len(Text(f))) \o Text(f)
  BY DEF Framings
<1>2. Text(f) \in Seq(Byte) /\ Len(Text(f)) \div HighByte \in Byte
  BY TextBytes DEF Formats
<1> DEFINE t == Text(f)
           h == Header(Len(t))
<1> HIDE DEF t, h
<1>3. h \in Seq(Byte) /\ Len(h) = 4 /\ BigEndian(h) = Len(t)
  BY <1>2, HeaderBytes DEF t, h
<1>4. /\ bytes \in Seq(Byte) /\ Len(bytes) = 4 + Len(t)
      /\ \A i \in 1 .. 4 : bytes[i] = h[i]
      /\ \A i \in 1 .. Len(t) : bytes[4 + i] = t[i]
  <2>1. bytes = h \o t /\ h \in Seq(Byte) /\ t \in Seq(Byte)
    BY <1>1, <1>2, <1>3 DEF t, h
  <2>2. /\ bytes \in Seq(Byte) /\ Len(bytes) = Len(h) + Len(t)
        /\ \A i \in 1 .. Len(h) : bytes[i] = h[i]
        /\ \A i \in 1 .. Len(t) : bytes[Len(h) + i] = t[i]
    BY <2>1, Joined
  <2> QED BY <1>3, <2>1, <2>2
<1>5. BigEndian(bytes) = Len(t)
  BY <1>3, <1>4 DEF BigEndian
<1>6. SubSeq(bytes, 5, Len(bytes)) = t
  <2>1. t \in Seq(Byte)
    BY <1>2 DEF t
  <2> DEFINE payload == SubSeq(bytes, 5, Len(bytes))
  <2>2. payload \in Seq(Byte) /\ Len(payload) = Len(t)
    BY <2>1, <1>4
  <2>3. \A i \in 1 .. Len(t) : payload[i] = bytes[4 + i]
    BY <2>1, <1>4
  <2> HIDE DEF payload
  <2>4. payload = t
    BY <2>1, <2>2, <2>3, <1>4
  <2> QED BY <2>4 DEF payload
<1> QED BY <1>1, <1>4, <1>5, <1>6 DEF t

-----------------------------------------------------------------------------
(* What the decoder makes of a frame.                                      *)
Means(f) == IF f \in Jobs THEN f ELSE IF f \in Garbage THEN "Decode" ELSE "Heartbeat"

LEMMA ParsedMeans ==
  ASSUME format \in Formats, NEW f \in Jobs \cup Garbage, NEW took \in Nat
  PROVE  Parsed(Content[format][f], took) = Found(Means(f), took)
<1>1. CASE f \in Jobs
  <2>1. \A j \in Jobs : Content[format][f] = Content[format][j] => j = f
    BY <1>1, ContentAssumption
  <2>2. (CHOOSE j \in Jobs : Content[format][f] = Content[format][j]) = f
    BY <1>1, <2>1
  <2> QED BY <1>1, <2>2 DEF Parsed, Means
<1>2. CASE f \in Garbage
  <2>1. f \notin Jobs
    BY <1>2, ContentAssumption
  <2>2. \A j \in Jobs : Content[format][f] # Content[format][j]
    BY <1>2, <2>1, ContentAssumption
  <2> QED BY <1>2, <2>1, <2>2 DEF Parsed, Means
<1> QED BY <1>1, <1>2

LEMMA LineFeedFound ==
  ASSUME NEW b \in Seq(Byte), NEW n \in 1 .. Len(b),
         \A i \in 1 .. n : b[i] = LineFeed <=> i = n
  PROVE  FirstLineFeed(b) = n
<1> DEFINE I == {i \in 1 .. Len(b) : b[i] = LineFeed}
<1>1. n \in I /\ \A i \in I : n <= i
  OBVIOUS
<1>2. (CHOOSE x \in I : \A y \in I : x =< y) = n
  <2>1. \A x \in I : (\A y \in I : x =< y) => x = n
    BY <1>1
  <2> HIDE DEF I
  <2> QED BY <1>1, <2>1
<1>3. FirstLineFeed(b) = IF I # {} THEN CHOOSE x \in I : \A y \in I : x =< y ELSE 0
  BY DEF FirstLineFeed, SelectInSeq, Min
<1> HIDE DEF I
<1> QED BY <1>1, <1>2, <1>3

LEMMA NoLineFeed ==
  ASSUME NEW b \in Seq(Byte), \A i \in 1 .. Len(b) : b[i] # LineFeed
  PROVE  FirstLineFeed(b) = 0
<1> DEFINE I == {i \in 1 .. Len(b) : b[i] = LineFeed}
<1>1. I = {}
  OBVIOUS
<1>2. FirstLineFeed(b) = IF I # {} THEN CHOOSE x \in I : \A y \in I : x =< y ELSE 0
  BY DEF FirstLineFeed, SelectInSeq, Min
<1> HIDE DEF I
<1> QED BY <1>1, <1>2

(* Bytes that begin as a frame does: the decoder finds the frame, if all   *)
(* of it is there, and else waits.                                         *)
BeginsAs(b, bytes) == \A i \in 1 .. Len(bytes) : i <= Len(b) => b[i] = bytes[i]

LEMMA LineDecoded ==
  ASSUME format = "Json", NEW f \in FrameKinds, NEW bytes \in Framings(f),
         NEW b \in Seq(Byte), BeginsAs(b, bytes)
  PROVE  DecodeNdjson(b) = IF Len(b) < Len(bytes) THEN NeedMore ELSE Found(Means(f), Len(bytes))
<1> DEFINE n == Len(bytes)
<1>1. /\ bytes \in Seq(Byte) /\ n \in Nat \ {0}
      /\ \A i \in 1 .. n : bytes[i] = LineFeed <=> i = n
      /\ Stripped(SubSeq(bytes, 1, n - 1)) = Text(f)
  BY LineBytes
<1>2. CASE Len(b) < n
  <2>1. \A i \in 1 .. Len(b) : b[i] # LineFeed
    BY <1>1, <1>2 DEF BeginsAs
  <2>2. FirstLineFeed(b) = 0
    BY <2>1, NoLineFeed
  <2> QED BY <1>2, <2>2 DEF DecodeNdjson
<1>3. CASE Len(b) >= n
  <2>1. \A i \in 1 .. n : b[i] = LineFeed <=> i = n
    BY <1>1, <1>3 DEF BeginsAs
  <2>2. FirstLineFeed(b) = n
    BY <1>1, <1>3, <2>1, LineFeedFound
  <2>3. SubSeq(b, 1, n - 1) = SubSeq(bytes, 1, n - 1)
    <3> DEFINE s == SubSeq(b, 1, n - 1)
               t == SubSeq(bytes, 1, n - 1)
    <3>0. n - 1 \in Nat /\ n - 1 <= Len(b) /\ n - 1 <= n
      BY <1>1, <1>3
    <3>3. \A i \in 1 .. n - 1 : b[i] = bytes[i]
      BY <1>1, <1>3 DEF BeginsAs
    <3>4. n = Len(bytes)
      OBVIOUS
    <3> HIDE DEF n
    <3>1. s \in Seq(Byte) /\ Len(s) = n - 1 /\ \A i \in 1 .. n - 1 : s[i] = b[i]
      BY <3>0, Prefix
    <3>2. t \in Seq(Byte) /\ Len(t) = n - 1 /\ \A i \in 1 .. n - 1 : t[i] = bytes[i]
      BY <3>0, <3>4, <1>1, Prefix
    <3> HIDE DEF s, t
    <3>5. s = t
      BY <3>1, <3>2, <3>3, SeqEqual
    <3> QED BY <3>5 DEF s, t
  <2>4. DecodeNdjson(b) = IF Blank(Text(f)) THEN Found("Heartbeat", n) ELSE Parsed(Text(f), n)
    BY <1>1, <2>2, <2>3 DEF DecodeNdjson
  <2>5. CASE f \in Jobs \cup Garbage
    <3>1. Text(f) = Content["Json"][f]
      BY <2>5, TextBytes DEF Formats
    <3>2. ~Blank(Content["Json"][f])
      BY <2>5, ContentAssumption DEF Blank
    <3>3. Parsed(Text(f), n) = Found(Means(f), n)
      BY <2>5, <1>1, <3>1, ParsedMeans DEF Formats
    <3> QED BY <1>1, <1>3, <2>4, <3>1, <3>2, <3>3
  <2>6. CASE f \in {"beat", "blank"}
    <3>1. f \notin Jobs \cup Garbage
      BY <2>6, ContentAssumption
    <3>2. Blank(Text(f))
      BY <2>6 DEF Text, Blank, Space, Whitespace
    <3> QED BY <1>1, <1>3, <2>4, <3>1, <3>2 DEF Means
  <2> QED BY <2>5, <2>6 DEF FrameKinds
<1> QED BY <1>1, <1>2, <1>3

LEMMA PackedDecoded ==
  ASSUME format = "MessagePack", NEW f \in FrameKinds, NEW bytes \in Framings(f),
         NEW b \in Seq(Byte), BeginsAs(b, bytes)
  PROVE  DecodeMsgpack(b) = IF Len(b) < Len(bytes) THEN NeedMore ELSE Found(Means(f), Len(bytes))
<1> DEFINE n == Len(Text(f))
<1>1. /\ bytes \in Seq(Byte) /\ f # "blank" /\ n \in Nat
      /\ Len(bytes) = 4 + n
      /\ BigEndian(bytes) = n
      /\ SubSeq(bytes, 5, 4 + n) = Text(f)
  BY PackedBytes, TextBytes DEF Formats
<1>2. f \in Jobs \cup Garbage => n > 0 /\ Text(f) = Content["MessagePack"][f]
  BY TextBytes DEF Formats
<1>3. f \notin Jobs \cup Garbage => n = 0
  BY <1>1, TextBytes DEF FrameKinds, Formats
<1>4. CASE Len(b) < 4
  BY <1>1, <1>4 DEF DecodeMsgpack
<1>5. CASE Len(b) >= 4
  <2>1. BigEndian(b) = n
    <3>1. b[1] = bytes[1] /\ b[2] = bytes[2] /\ b[3] = bytes[3] /\ b[4] = bytes[4]
      BY <1>1, <1>5 DEF BeginsAs
    <3> QED BY <1>1, <3>1 DEF BigEndian
  <2>2. DecodeMsgpack(b) = IF n = 0 THEN Found("Heartbeat", 4)
                           ELSE IF Len(b) < 4 + n THEN NeedMore
                           ELSE Parsed(SubSeq(b, 5, 4 + n), 4 + n)
    BY <1>5, <2>1 DEF DecodeMsgpack
  <2>3. CASE n = 0
    BY <2>2, <2>3, <1>1, <1>2, <1>5 DEF Means
  <2>4. CASE n > 0 /\ Len(b) < 4 + n
    BY <2>2, <2>4, <1>1
  <2>5. CASE n > 0 /\ Len(b) >= 4 + n
    <3> DEFINE s == SubSeq(b, 5, 4 + n)
               t == SubSeq(bytes, 5, 4 + n)
    <3>1. s \in Seq(Byte) /\ Len(s) = n /\ \A i \in 1 .. n : s[i] = b[4 + i]
      BY <1>1, <2>5
    <3>2. t \in Seq(Byte) /\ Len(t) = n /\ \A i \in 1 .. n : t[i] = bytes[4 + i]
      BY <1>1
    <3>3. \A i \in 1 .. n : b[4 + i] = bytes[4 + i]
      BY <1>1, <2>5 DEF BeginsAs
    <3> HIDE DEF s, t
    <3>4. s = t
      BY <3>1, <3>2, <3>3, SeqEqual
    <3>5. SubSeq(b, 5, 4 + n) = Text(f)
      BY <3>4, <1>1 DEF s, t
    <3>6. f \in Jobs \cup Garbage /\ Text(f) = Content["MessagePack"][f]
      BY <1>2, <1>3, <2>5
    <3>7. Parsed(Text(f), 4 + n) = Found(Means(f), 4 + n)
      BY <3>6, <1>1, ParsedMeans DEF Formats
    <3>8. DecodeMsgpack(b) = Parsed(SubSeq(b, 5, 4 + n), 4 + n)
      BY <2>2, <2>5, <1>1
    <3>9. Len(b) >= Len(bytes)
      BY <2>5, <1>1
    <3>10. DecodeMsgpack(b) = Found(Means(f), 4 + n)
      BY <3>5, <3>7, <3>8
    <3> QED BY <3>9, <3>10, <1>1
  <2> QED BY <2>3, <2>4, <2>5, <1>1
<1> QED BY <1>1, <1>4, <1>5

(* The decoder of either format. *)
LEMMA DecodedFrame ==
  ASSUME format \in Formats, NEW f \in FrameKinds, NEW bytes \in Framings(f),
         buffer \in Seq(Byte), BeginsAs(buffer, bytes)
  PROVE  /\ bytes \in Seq(Byte) /\ Len(bytes) > 0
         /\ Decoded = IF Len(buffer) < Len(bytes) THEN NeedMore ELSE Found(Means(f), Len(bytes))
<1>1. CASE format = "Json"
  BY <1>1, LineBytes, LineDecoded DEF Decoded
<1>2. CASE format = "MessagePack"
  <2>1. Len(Text(f)) \in Nat
    BY TextBytes
  <2> QED BY <1>2, <2>1, PackedBytes, PackedDecoded DEF Decoded
<1> QED BY <1>1, <1>2 DEF Formats

LEMMA DecodedNothing ==
  ASSUME format \in Formats, buffer = <<>>
  PROVE  Decoded = NeedMore
<1>1. DecodeNdjson(<<>>) = NeedMore
  <2>1. <<>> \in Seq(Byte) /\ \A i \in 1 .. Len(<<>>) : <<>>[i] # LineFeed
    OBVIOUS
  <2>2. FirstLineFeed(<<>>) = 0
    BY <2>1, NoLineFeed
  <2> QED BY <2>2 DEF DecodeNdjson
<1>2. DecodeMsgpack(<<>>) = NeedMore
  BY DEF DecodeMsgpack
<1> QED BY <1>1, <1>2 DEF Decoded

-----------------------------------------------------------------------------
(* The inductive invariant.                                                *)

(* Where the frames end, counted from 0. *)
After(k) == IF k = 0 THEN 0 ELSE ends[k]

(* The body is the frames, one after the other. *)
Framed ==
  /\ \A k \in 1 .. Len(frames) : \E bytes \in Framings(frames[k]) :
       /\ ends[k] = After(k - 1) + Len(bytes)
       /\ \A i \in 1 .. Len(bytes) : body[After(k - 1) + i] = bytes[i]
  /\ \A j, k \in 1 .. Len(frames) : j < k => ends[j] < ends[k]
  /\ Len(body) = After(Len(frames))

(* What is in the buffer is the part of the body between what the decoder  *)
(* took off it and what was read.                                          *)
Window == \A i \in 1 .. Len(buffer) : buffer[i] = body[Consumed + i]

(* The decoder stands between two frames. *)
Between(k) ==
  /\ k \in 0 .. Len(frames)
  /\ Consumed = After(k)
  /\ Len(items) <= k
  /\ \A g \in 1 .. k : frames[g] \notin Garbage
  /\ \A j \in 1 .. k : frames[j] \in Jobs => IsYielded(j)
  /\ \A i \in DOMAIN items : items[i].is \in Jobs /\ items[i].at <= Consumed

Decoding == ~finished => Window /\ \E k \in 0 .. Len(frames) : Between(k)

IInv ==
  /\ TypeOK
  /\ ending = "open" => lost = 0
  /\ Framed
  /\ Decoding
  /\ AsPromised

-----------------------------------------------------------------------------
LEMMA Types ==
  ASSUME TypeOK
  PROVE  /\ Len(frames) \in Nat /\ DOMAIN frames = 1 .. Len(frames) /\ DOMAIN ends = 1 .. Len(frames)
         /\ \A j \in 1 .. Len(frames) : frames[j] \in FrameKinds /\ ends[j] \in Nat /\ ends[j] <= Len(body)
         /\ Len(items) \in Nat /\ DOMAIN items = 1 .. Len(items)
         /\ \A i \in 1 .. Len(items) :
              /\ items[i] \in [is : Jobs \cup {"Decode", "Transport"}, at : 0 .. received]
              /\ items[i].at \in Nat /\ items[i].at <= received
              /\ items[i].is \in Jobs \cup {"Decode", "Transport"}
         /\ Len(body) \in Nat /\ Arriving \in Nat /\ Arriving <= Len(body)
         /\ received \in Nat /\ received <= Arriving /\ received <= Len(body)
         /\ buffer \in Seq(Byte) /\ Len(buffer) \in Nat
         /\ Consumed = received - Len(buffer) /\ Consumed \in Nat /\ Consumed <= received
<1>1. /\ Len(body) \in Nat /\ Arriving \in Nat /\ Arriving <= Len(body)
      /\ received \in Nat /\ received <= Arriving /\ received <= Len(body)
  BY DEF TypeOK, Arriving
<1>2. /\ Len(frames) \in Nat /\ DOMAIN frames = 1 .. Len(frames) /\ DOMAIN ends = 1 .. Len(frames)
      /\ \A j \in 1 .. Len(frames) : frames[j] \in FrameKinds /\ ends[j] \in Nat /\ ends[j] <= Len(body)
  BY <1>1 DEF TypeOK
<1>3. items \in Seq([is : Jobs \cup {"Decode", "Transport"}, at : 0 .. received])
  BY DEF TypeOK
<1>4. \A i \in 1 .. Len(items) : items[i] \in [is : Jobs \cup {"Decode", "Transport"}, at : 0 .. received]
  <2> DEFINE S == [is : Jobs \cup {"Decode", "Transport"}, at : 0 .. received]
  <2>1. items \in Seq(S)
    BY <1>3
  <2> HIDE DEF S
  <2>2. \A i \in 1 .. Len(items) : items[i] \in S
    BY <2>1
  <2> QED BY <2>2 DEF S
<1>5. \A i \in 1 .. Len(items) :
        /\ items[i].at \in 0 .. received
        /\ items[i].is \in Jobs \cup {"Decode", "Transport"}
  BY <1>4
<1>6. Len(items) \in Nat /\ DOMAIN items = 1 .. Len(items)
  BY <1>3
<1>7. buffer \in Seq(Byte) /\ Len(buffer) <= received
  BY DEF TypeOK
<1>8. Len(buffer) \in Nat /\ Consumed = received - Len(buffer) /\ Consumed \in Nat /\ Consumed <= received
  BY <1>1, <1>7 DEF Consumed
<1> QED BY <1>1, <1>2, <1>4, <1>5, <1>6, <1>7, <1>8

(* The frames that end within the first n bytes, n being where one ends. *)
LEMMA WholeAt ==
  ASSUME TypeOK, Framed, NEW k \in 0 .. Len(frames)
  PROVE  /\ After(k) \in 0 .. Len(body)
         /\ \A j \in 1 .. Len(frames) : ends[j] <= After(k) <=> j <= k
         /\ \A n \in Nat : After(k) <= n /\ (k < Len(frames) => n < ends[k + 1])
              => \A j \in 1 .. Len(frames) : ends[j] <= n <=> j <= k
<1>1. /\ Len(frames) \in Nat /\ Len(ends) = Len(frames)
      /\ \A j \in 1 .. Len(frames) : ends[j] \in 0 .. Len(body)
      /\ Len(body) \in Nat
  BY DEF TypeOK
<1>2. \A i, j \in 1 .. Len(frames) : i < j => ends[i] < ends[j]
  BY DEF Framed
<1>3. \A j \in 1 .. Len(frames) : ends[j] > 0
  <2> TAKE j \in 1 .. Len(frames)
  <2>1. PICK bytes \in Framings(frames[j]) : ends[j] = After(j - 1) + Len(bytes)
    BY DEF Framed
  <2>2. frames[j] \in FrameKinds /\ format \in Formats
    BY DEF TypeOK
  <2>3. bytes \in Seq(Byte) /\ Len(bytes) > 0
    <3>1. Len(Text(frames[j])) \in Nat
      BY <2>2, TextBytes
    <3> QED BY <2>2, <3>1, LineBytes, PackedBytes DEF Formats
  <2>4. After(j - 1) \in Nat
    BY <1>1 DEF After
  <2> QED BY <2>1, <2>3, <2>4
<1>4. \A j \in 1 .. Len(frames) : ends[j] <= After(k) <=> j <= k
  BY <1>1, <1>2, <1>3 DEF After
<1>5. ASSUME NEW n \in Nat, After(k) <= n, k < Len(frames) => n < ends[k + 1],
             NEW j \in 1 .. Len(frames)
      PROVE  ends[j] <= n <=> j <= k
  <2>1. CASE j <= k
    BY <2>1, <1>1, <1>4, <1>5 DEF After
  <2>2. CASE j > k
    <3>1. ends[k + 1] <= ends[j]
      BY <2>2, <1>1, <1>2
    <3> QED BY <2>2, <3>1, <1>1, <1>5
  <2> QED BY <2>1, <2>2
<1> QED BY <1>1, <1>4, <1>5 DEF After

(* What the decoder finds: the next frame, or that it is not all there. *)
LEMMA NextFrame ==
  ASSUME IInv, ~finished, NEW k \in Nat, Between(k)
  PROVE  /\ k \in 0 .. Len(frames)
         /\ \/ /\ Decoded = NeedMore
               /\ \A j \in 1 .. Len(frames) : ends[j] <= received <=> j <= k
            \/ /\ k < Len(frames)
               /\ Decoded = Found(Means(frames[k + 1]), ends[k + 1] - Consumed)
               /\ ends[k + 1] <= received
               /\ ends[k + 1] > Consumed
<1>1. /\ TypeOK /\ Framed /\ Window
      /\ k \in 0 .. Len(frames) /\ Consumed = After(k)
      /\ buffer \in Seq(Byte) /\ received \in Nat /\ format \in Formats
      /\ Len(buffer) \in Nat /\ received = Consumed + Len(buffer)
      /\ received <= Len(body) /\ Len(body) \in Nat
  BY DEF IInv, Decoding, Between, TypeOK, Consumed, Arriving
<1>2. After(k) \in 0 .. Len(body)
  BY <1>1, WholeAt
<1>3. CASE k = Len(frames)
  <2>1. Consumed = Len(body)
    BY <1>1, <1>3 DEF Framed
  <2>2. buffer = <<>>
    BY <1>1, <2>1, EmptySeq
  <2>3. Decoded = NeedMore
    BY <1>1, <2>2, DecodedNothing
  <2>4. After(k) <= received /\ ~(k < Len(frames))
    BY <1>1, <1>2, <1>3
  <2>5. \A j \in 1 .. Len(frames) : ends[j] <= received <=> j <= k
    BY <1>1, <2>4, WholeAt
  <2> QED BY <1>1, <2>3, <2>5
<1>4. CASE k < Len(frames)
  <2>1. k + 1 \in 1 .. Len(frames) /\ frames[k + 1] \in FrameKinds /\ (k + 1) - 1 = k
    BY <1>1, <1>4 DEF TypeOK
  <2>2. PICK bytes \in Framings(frames[k + 1]) :
          /\ ends[k + 1] = After(k) + Len(bytes)
          /\ \A i \in 1 .. Len(bytes) : body[After(k) + i] = bytes[i]
    BY <1>1, <2>1 DEF Framed
  <2>3. BeginsAs(buffer, bytes)
    BY <1>1, <2>2 DEF BeginsAs, Window
  <2>4. /\ bytes \in Seq(Byte) /\ Len(bytes) > 0
        /\ Decoded = IF Len(buffer) < Len(bytes) THEN NeedMore
                     ELSE Found(Means(frames[k + 1]), Len(bytes))
    BY <1>1, <2>1, <2>3, DecodedFrame
  <2>5. Len(bytes) \in Nat /\ ends[k + 1] = Consumed + Len(bytes) /\ Consumed \in Nat
    BY <1>1, <1>2, <2>2, <2>4
  <2>6. CASE Len(buffer) < Len(bytes)
    <3>1. received < ends[k + 1] /\ After(k) <= received
      BY <1>1, <2>5, <2>6
    <3>2. \A j \in 1 .. Len(frames) : ends[j] <= received <=> j <= k
      BY <1>1, <3>1, WholeAt
    <3> QED BY <1>1, <2>4, <2>6, <3>2
  <2>7. CASE Len(buffer) >= Len(bytes)
    <3>1. Len(bytes) = ends[k + 1] - Consumed
      BY <2>5
    <3>2. Decoded = Found(Means(frames[k + 1]), ends[k + 1] - Consumed)
      BY <1>1, <2>4, <2>5, <2>7, <3>1
    <3> QED BY <1>1, <1>4, <2>4, <2>5, <2>7, <3>2
  <2> QED BY <1>1, <2>5, <2>6, <2>7
<1> QED BY <1>1, <1>3, <1>4

-----------------------------------------------------------------------------
(* The steps of the client.                                                *)

(* A frame taken off the buffer: the decoder stands behind it. *)
LEMMA FrameTaken ==
  ASSUME IInv, ~finished, NEW k \in Nat, Between(k), Decoded.is # "NeedMore",
         buffer' = Rest, UNCHANGED <<connection, received>>
  PROVE  /\ k + 1 \in 1 .. Len(frames) /\ k \in 0 .. Len(frames)
         /\ Decoded.is = Means(frames[k + 1])
         /\ Consumed + Decoded.took = ends[k + 1]
         /\ ends[k + 1] \in 0 .. received /\ Consumed < ends[k + 1]
         /\ buffer' \in Seq(Byte) /\ Len(buffer') <= received
         /\ Consumed' = ends[k + 1]
         /\ Window'
         /\ \A j \in 1 .. Len(frames) : ends[j] <= ends[k + 1] <=> j <= k + 1
<1>1. /\ k \in 0 .. Len(frames) /\ k < Len(frames)
      /\ Decoded = Found(Means(frames[k + 1]), ends[k + 1] - Consumed)
      /\ ends[k + 1] <= received
      /\ ends[k + 1] > Consumed
  BY NextFrame DEF NeedMore, Found
<1>2. /\ TypeOK /\ Framed /\ Window
      /\ buffer \in Seq(Byte) /\ received \in Nat /\ Len(buffer) \in Nat
      /\ Len(frames) \in Nat
      /\ Consumed = received - Len(buffer) /\ Consumed \in Nat
      /\ received <= Len(body) /\ Len(body) \in Nat
      /\ ends[k + 1] \in Nat
  <2>1. TypeOK /\ Framed /\ Window
    BY DEF IInv, Decoding
  <2>2. k + 1 \in 1 .. Len(frames)
    BY <1>1, <2>1, Types
  <2> QED BY <2>1, <2>2, Types
<1>3. Decoded.is = Means(frames[k + 1]) /\ Decoded.took = ends[k + 1] - Consumed
  BY <1>1 DEF Found
<1> DEFINE t == ends[k + 1] - Consumed
<1>4. t \in Nat \ {0} /\ t <= Len(buffer)
  BY <1>1, <1>2
<1>5. buffer' = SubSeq(buffer, t + 1, Len(buffer))
  BY <1>3 DEF Rest
<1>6. /\ buffer' \in Seq(Byte) /\ Len(buffer') = Len(buffer) - t
      /\ \A i \in 1 .. Len(buffer) - t : buffer'[i] = buffer[t + i]
  <2> HIDE DEF t
  <2> QED BY <1>2, <1>4, <1>5
<1>7. Consumed' = ends[k + 1]
  BY <1>1, <1>2, <1>6 DEF Consumed
<1>8. Window'
  <2> SUFFICES ASSUME NEW i \in 1 .. Len(buffer') PROVE buffer'[i] = body'[Consumed' + i]
    BY DEF Window
  <2>1. i \in 1 .. Len(buffer) - t /\ t + i \in 1 .. Len(buffer)
    <3> HIDE DEF t
    <3> QED BY <1>2, <1>4, <1>6
  <2>2. buffer'[i] = buffer[t + i] /\ buffer[t + i] = body[Consumed + (t + i)]
    BY <1>2, <1>6, <2>1 DEF Window
  <2>3. Consumed + (t + i) = Consumed' + i
    BY <1>2, <1>7, <2>1
  <2>4. body' = body
    BY DEF connection
  <2> QED BY <2>2, <2>3, <2>4
<1>9. \A j \in 1 .. Len(frames) : ends[j] <= ends[k + 1] <=> j <= k + 1
  <2>1. k + 1 \in 0 .. Len(frames) /\ After(k + 1) = ends[k + 1]
    BY <1>1, <1>2 DEF After
  <2> QED BY <1>2, <2>1, WholeAt
<1> QED BY <1>1, <1>2, <1>3, <1>6, <1>7, <1>8, <1>9

(* The decoder that waits has passed every frame that was read whole. *)
LEMMA WaitsAfter ==
  ASSUME IInv, ~finished, NEW k \in Nat, Between(k), Decoded.is = "NeedMore"
  PROVE  /\ Decoded.took = 0
         /\ \A j \in 1 .. Len(frames) : ends[j] <= received <=> j <= k
<1>1. CASE Decoded = NeedMore /\ \A j \in 1 .. Len(frames) : ends[j] <= received <=> j <= k
  BY <1>1 DEF NeedMore, Found
<1>2. CASE k < Len(frames) /\ Decoded = Found(Means(frames[k + 1]), ends[k + 1] - Consumed)
  <2>1. Means(frames[k + 1]) = "NeedMore"
    BY <1>2 DEF Found
  <2> QED BY <2>1, ContentAssumption DEF Means
<1> QED BY <1>1, <1>2, NextFrame

LEMMA SameConnection ==
  ASSUME IInv, UNCHANGED connection
  PROVE  Framed' /\ (ending' = "open" => lost' = 0)
<1>1. /\ format' = format /\ frames' = frames /\ body' = body /\ ends' = ends
      /\ lost' = lost /\ ending' = ending
  BY DEF connection
<1>2. \A f : Framings(f)' = Framings(f)
  BY <1>1 DEF Framings, Text
<1> QED BY <1>1, <1>2 DEF IInv, Framed, After

LEMMA KeepsHeartbeat == IInv /\ SkipHeartbeat => IInv'
<1> SUFFICES ASSUME IInv, SkipHeartbeat PROVE IInv'
  OBVIOUS
<1>1. /\ ~finished /\ Decoded.is = "Heartbeat" /\ buffer' = Rest
      /\ UNCHANGED connection /\ received' = received /\ finished' = finished /\ items' = items
  BY DEF SkipHeartbeat
<1>2. PICK k \in 0 .. Len(frames) : Between(k)
  BY <1>1 DEF IInv, Decoding
<1>3. k \in Nat /\ TypeOK /\ Len(frames) \in Nat
  BY DEF IInv, TypeOK
<1>4. /\ k + 1 \in 1 .. Len(frames)
      /\ Decoded.is = Means(frames[k + 1])
      /\ ends[k + 1] \in 0 .. received /\ Consumed < ends[k + 1]
      /\ buffer' \in Seq(Byte) /\ Len(buffer') <= received
      /\ Consumed' = ends[k + 1]
      /\ Window'
  BY <1>1, <1>2, <1>3, FrameTaken
<1>5. frames[k + 1] \notin Jobs \cup Garbage
  BY <1>1, <1>4, ContentAssumption DEF Means
<1>6. /\ format' = format /\ frames' = frames /\ body' = body /\ ends' = ends
      /\ lost' = lost /\ ending' = ending
  BY <1>1 DEF connection
<1>7. TypeOK'
  BY <1>1, <1>3, <1>4, <1>6 DEF TypeOK, Arriving
<1>8. AsPromised'
  BY <1>1, <1>6 DEF IInv, AsPromised, IsYielded, DueIn, WholeIn, GarbledIn, Errors, Outcome, Arriving
<1>9. Between(k + 1)'
  <2>1. k + 1 \in 0 .. Len(frames) /\ After(k + 1) = ends[k + 1] /\ k <= k + 1
    BY <1>3, <1>4 DEF After
  <2>2. \A j \in 1 .. k + 1 : j \in 1 .. k \/ j = k + 1
    BY <1>3
  <2>3. \A i \in DOMAIN items : items[i].at <= Consumed'
    <3>1. \A i \in DOMAIN items : items[i].at \in Nat
      BY <1>3, Types
    <3>2. Consumed \in Nat /\ ends[k + 1] \in Nat
      BY <1>3, <1>4 DEF Consumed, TypeOK
    <3> QED BY <1>2, <1>4, <3>1, <3>2 DEF Between
  <2>4. (k + 1 \in 0 .. Len(frames) /\ Consumed = After(k + 1))'
    BY <1>4, <1>6, <2>1 DEF After
  <2>5. Len(items) <= k + 1
    BY <1>2, <1>3 DEF Between, TypeOK
  <2> QED BY <1>1, <1>2, <1>5, <1>6, <2>2, <2>3, <2>4, <2>5 DEF Between, IsYielded
<1>10. Decoding'
  BY <1>4, <1>6, <1>9, <1>3 DEF Decoding
<1> QED BY <1>1, <1>7, <1>8, <1>10, SameConnection DEF IInv

LEMMA KeepsYieldJob == IInv /\ YieldJob => IInv'
<1> SUFFICES ASSUME IInv, YieldJob PROVE IInv'
  OBVIOUS
<1>1. /\ ~finished /\ Decoded.is \in Jobs /\ buffer' = Rest
      /\ UNCHANGED connection /\ received' = received /\ finished' = finished
      /\ items' = Append(items, [is |-> Decoded.is, at |-> Consumed + Decoded.took])
  BY DEF YieldJob, Yield
<1>2. PICK k \in 0 .. Len(frames) : Between(k)
  BY <1>1 DEF IInv, Decoding
<1>3. k \in Nat /\ TypeOK /\ Len(frames) \in Nat /\ received \in Nat /\ Consumed \in Nat
  BY DEF IInv, TypeOK, Consumed
<1>4. /\ k + 1 \in 1 .. Len(frames)
      /\ Decoded.is = Means(frames[k + 1])
      /\ Consumed + Decoded.took = ends[k + 1]
      /\ ends[k + 1] \in 0 .. received /\ Consumed < ends[k + 1]
      /\ buffer' \in Seq(Byte) /\ Len(buffer') <= received
      /\ Consumed' = ends[k + 1]
      /\ Window'
      /\ \A j \in 1 .. Len(frames) : ends[j] <= ends[k + 1] <=> j <= k + 1
  <2>1. Decoded.is # "NeedMore"
    BY <1>1, ContentAssumption
  <2> QED BY <1>1, <1>2, <1>3, <2>1, FrameTaken
<1>5. Decoded.is = frames[k + 1] /\ frames[k + 1] \in Jobs /\ frames[k + 1] \notin Garbage
  BY <1>1, <1>4, ContentAssumption DEF Means
<1>6. /\ format' = format /\ frames' = frames /\ body' = body /\ ends' = ends
      /\ lost' = lost /\ ending' = ending
  BY <1>1 DEF connection
<1> DEFINE new == [is |-> frames[k + 1], at |-> ends[k + 1]]
           N == Len(items)
<1>7. /\ items' = Append(items, new) /\ N \in Nat /\ N <= k
      /\ Len(items') = N + 1 /\ DOMAIN items = 1 .. N /\ DOMAIN items' = 1 .. N + 1
      /\ \A i \in 1 .. N : items'[i] = items[i]
      /\ items'[N + 1] = new
      /\ new.is = frames[k + 1] /\ new.at = ends[k + 1]
      /\ items' \in Seq([is : Jobs \cup {"Decode", "Transport"}, at : 0 .. received])
  <2>1. items \in Seq([is : Jobs \cup {"Decode", "Transport"}, at : 0 .. received])
    BY <1>3 DEF TypeOK
  <2>2. new \in [is : Jobs \cup {"Decode", "Transport"}, at : 0 .. received]
    BY <1>4, <1>5
  <2>3. items' = Append(items, new) /\ N <= k
    BY <1>1, <1>2, <1>4, <1>5 DEF Between
  <2> HIDE DEF new
  <2>4. /\ N \in Nat /\ Len(items') = N + 1 /\ DOMAIN items = 1 .. N /\ DOMAIN items' = 1 .. N + 1
        /\ \A i \in 1 .. N : items'[i] = items[i]
        /\ items'[N + 1] = new
        /\ items' \in Seq([is : Jobs \cup {"Decode", "Transport"}, at : 0 .. received])
    BY <2>1, <2>2, <2>3
  <2> QED BY <2>3, <2>4 DEF new
<1> HIDE DEF new, N
<1>8. /\ \A i \in 1 .. N : items[i].is \in Jobs /\ items[i].at <= Consumed /\ items[i].at \in Nat
      /\ \A g \in 1 .. k + 1 : frames[g] \notin Garbage
      /\ \A j \in 1 .. k + 1 : frames[j] \in Jobs => IsYielded(j)'
  <2>1. \A j \in 1 .. k + 1 : j \in 1 .. k \/ j = k + 1
    BY <1>3
  <2>2. \A i \in 1 .. N : items[i].at \in Nat
    BY <1>3, Types DEF N
  <2>3. IsYielded(k + 1)'
    BY <1>3, <1>6, <1>7 DEF IsYielded, new
  <2>4. \A j \in 1 .. k : IsYielded(j) => IsYielded(j)'
    BY <1>3, <1>6, <1>7 DEF IsYielded
  <2> QED BY <1>2, <1>5, <1>7, <2>1, <2>2, <2>3, <2>4 DEF Between
<1>9. TypeOK'
  <2>1. Len(items') <= Len(frames) + 1
    BY <1>3, <1>4, <1>7
  <2> QED BY <1>1, <1>3, <1>4, <1>6, <1>7, <2>1 DEF TypeOK, Arriving
<1>10. Between(k + 1)'
  <2>1. (k + 1 \in 0 .. Len(frames) /\ Consumed = After(k + 1))'
    BY <1>3, <1>4, <1>6 DEF After
  <2>2. \A i \in DOMAIN items' : items'[i].is \in Jobs /\ items'[i].at <= Consumed'
    BY <1>3, <1>4, <1>5, <1>7, <1>8
  <2>3. Len(items') <= k + 1
    BY <1>3, <1>7
  <2> QED BY <1>6, <1>8, <2>1, <2>2, <2>3 DEF Between
<1>11. AsPromised'
  <2>1. Errors' = {}
    BY <1>10 DEF Between, Errors
  <2>2. \A i \in DOMAIN items' : \E j \in DueIn(received)' : items'[i] = [is |-> frames'[j], at |-> ends'[j]]
    <3>1. DueIn(received)' = DueIn(received)
      BY <1>1, <1>6 DEF DueIn, WholeIn
    <3>2. k + 1 \in DueIn(received)
      BY <1>3, <1>4, <1>5, <1>8 DEF DueIn, WholeIn
    <3>3. \A i \in 1 .. N : \E j \in DueIn(received) : items[i] = [is |-> frames[j], at |-> ends[j]]
      BY <1>7, <1>8 DEF IInv, AsPromised, Errors
    <3>4. items'[N + 1] = [is |-> frames[k + 1], at |-> ends[k + 1]]
      BY <1>7 DEF new
    <3>5. \A i \in 1 .. N + 1 : i \in 1 .. N \/ i = N + 1
      BY <1>7
    <3> QED BY <1>6, <1>7, <3>1, <3>2, <3>3, <3>4, <3>5
  <2>3. \A i, j \in DOMAIN items' : i < j => items'[i].at < items'[j].at
    <3>1. \A i, j \in 1 .. N : i < j => items[i].at < items[j].at
      BY <1>7, <1>8 DEF IInv, AsPromised, Errors
    <3>2. \A i \in 1 .. N : items[i].at < ends[k + 1]
      BY <1>3, <1>4, <1>8
    <3> QED BY <1>7, <3>1, <3>2
  <2>4. \A j \in DOMAIN frames' : \A i \in DOMAIN items' : j \in DueIn(items[i].at)' => IsYielded(j)'
    <3> SUFFICES ASSUME NEW j \in DOMAIN frames, NEW i \in DOMAIN items', j \in DueIn(items[i].at)'
                 PROVE  IsYielded(j)'
      BY <1>6
    <3>1. j \in 1 .. Len(frames) /\ frames[j] \in Jobs /\ ends[j] <= items'[i].at /\ ends[j] \in Nat
      BY <1>3, <1>6, Types DEF DueIn, WholeIn
    <3>2. items'[i].at <= ends[k + 1] /\ items'[i].at \in Nat /\ ends[k + 1] \in Nat
      <4>1. i \in 1 .. N \/ i = N + 1
        BY <1>7
      <4> QED BY <1>3, <1>4, <1>7, <1>8, <4>1
    <3>3. j <= k + 1
      BY <1>4, <3>1, <3>2
    <3> QED BY <1>3, <1>8, <3>1, <3>3
  <2>5. ~finished'
    BY <1>1
  <2> QED BY <2>1, <2>2, <2>3, <2>4, <2>5 DEF AsPromised
<1>12. Decoding'
  BY <1>3, <1>4, <1>6, <1>10 DEF Decoding
<1> QED BY <1>1, <1>9, <1>11, <1>12, SameConnection DEF IInv

(* An error ends the stream, once every job that is due was yielded. *)
LEMMA Finishing ==
  ASSUME IInv, ~finished, NEW k \in 0 .. Len(frames), Between(k),
         UNCHANGED <<connection, received>>, finished' = TRUE,
         NEW e \in {"Decode", "Transport"}, NEW a \in 0 .. received,
         items' = Append(items, [is |-> e, at |-> a]),
         \A j \in DueIn(Arriving) : j <= k,
         Outcome = {e}, ending # "open" \/ GarbledIn(received),
         buffer' \in Seq(Byte), Len(buffer') <= received
  PROVE  IInv'
<1> DEFINE new == [is |-> e, at |-> a]
           N == Len(items)
           S == [is : Jobs \cup {"Decode", "Transport"}, at : 0 .. received]
<1>1. /\ format' = format /\ frames' = frames /\ body' = body /\ ends' = ends
      /\ lost' = lost /\ ending' = ending /\ received' = received
  BY DEF connection
<1>2. TypeOK
  BY DEF IInv
<1>3. e \notin Jobs
  BY ContentAssumption
<1>4. /\ N \in Nat /\ N <= k /\ k \in Nat /\ k <= Len(frames) /\ Len(frames) \in Nat
      /\ items' = Append(items, new) /\ new \in S
      /\ items \in Seq(S)
  BY <1>2, Types DEF Between, TypeOK
<1>5. new.is = e /\ new.at = a
  OBVIOUS
<1> HIDE DEF new, N, S
<1>6. /\ Len(items') = N + 1 /\ DOMAIN items = 1 .. N /\ DOMAIN items' = 1 .. N + 1
      /\ \A i \in 1 .. N : items'[i] = items[i]
      /\ items'[N + 1] = new
      /\ items' \in Seq(S)
  BY <1>4 DEF N
<1>7. \A i \in 1 .. N : items[i].is \in Jobs
  BY <1>6 DEF Between
<1>8. Errors = {} /\ Errors' = {N + 1}
  <2>1. Errors = {}
    BY <1>6, <1>7 DEF Errors
  <2>2. \A i \in 1 .. N + 1 : items'[i].is \notin Jobs <=> i = N + 1
    BY <1>3, <1>4, <1>5, <1>6, <1>7
  <2> QED BY <1>4, <1>6, <2>1, <2>2 DEF Errors
<1>9. \A j \in 1 .. Len(frames) : IsYielded(j) => IsYielded(j)'
  BY <1>1, <1>4, <1>6 DEF IsYielded
<1>10. \A j \in DueIn(Arriving) : IsYielded(j)'
  BY <1>2, <1>4, <1>9, Types DEF Between, DueIn, WholeIn
<1>11. TypeOK'
  <2>1. Len(items') <= Len(frames) + 1
    BY <1>4, <1>6
  <2>2. items' \in Seq([is : Jobs \cup {"Decode", "Transport"}, at : 0 .. received])
    BY <1>6 DEF S
  <2> QED BY <1>1, <1>2, <2>1, <2>2 DEF TypeOK, Arriving
<1>12. AsPromised'
  <2>1. \A i \in 1 .. N : \E j \in DueIn(received) : items[i] = [is |-> frames[j], at |-> ends[j]]
    BY <1>6, <1>8 DEF IInv, AsPromised
  <2>2. Arriving' = Arriving
    BY <1>1 DEF Arriving
  <2>3. DueIn(received)' = DueIn(received) /\ DueIn(Arriving)' = DueIn(Arriving)
    BY <1>1 DEF DueIn, WholeIn, Arriving
  <2>4. DOMAIN items' \ Errors' = 1 .. N
    BY <1>4, <1>6, <1>8
  <2>5. \A i \in 1 .. N : \E j \in DueIn(received)' : items'[i] = [is |-> frames'[j], at |-> ends'[j]]
    BY <1>1, <1>6, <2>1, <2>3
  <2>6. \A i, j \in 1 .. N : i < j => items'[i].at < items'[j].at
    BY <1>6, <1>8 DEF IInv, AsPromised
  <2>7. \A j \in DOMAIN frames' : \A i \in DOMAIN items' : j \in DueIn(items[i].at)' => IsYielded(j)'
    <3> SUFFICES ASSUME NEW j \in DOMAIN frames, NEW i \in DOMAIN items', j \in DueIn(items[i].at)'
                 PROVE  IsYielded(j)'
      BY <1>1
    <3>1. /\ j \in 1 .. Len(frames) /\ frames[j] \in Jobs /\ ends[j] <= items'[i].at /\ ends[j] \in Nat
          /\ \A g \in 1 .. j : frames[g] \notin Garbage
      BY <1>1, <1>2, Types DEF DueIn, WholeIn
    <3>2. items'[i].at \in Nat /\ items'[i].at <= Arriving /\ Arriving \in Nat
      <4>1. i \in 1 .. N \/ i = N + 1
        BY <1>4, <1>6
      <4> QED BY <1>2, <1>5, <1>6, <4>1, Types DEF N
    <3>3. j \in DueIn(Arriving)
      BY <1>2, <3>1, <3>2, Types DEF DueIn, WholeIn
    <3> QED BY <1>10, <3>3
  <2>8. \A i \in Errors' : i = Len(items') /\ finished'
    BY <1>6, <1>8
  <2>9. {items'[i].is : i \in Errors'} = Outcome'
    <3>1. Outcome' = Outcome
      BY <1>1 DEF Outcome, GarbledIn, WholeIn, Arriving
    <3> QED BY <1>5, <1>6, <1>8, <3>1
  <2>10. (ending = "open" => GarbledIn(received))'
    BY <1>1 DEF GarbledIn, WholeIn
  <2>11. \A j \in DueIn(Arriving)' : IsYielded(j)'
    BY <1>10, <2>3
  <2> QED BY <2>4, <2>5, <2>6, <2>7, <2>8, <2>9, <2>10, <2>11 DEF AsPromised
<1>13. Decoding'
  BY DEF Decoding
<1> QED BY <1>11, <1>12, <1>13, SameConnection DEF IInv

LEMMA KeepsDecodeError == IInv /\ YieldDecodeError => IInv'
<1> SUFFICES ASSUME IInv, YieldDecodeError PROVE IInv'
  OBVIOUS
<1>1. /\ ~finished /\ Decoded.is = "Decode" /\ buffer' = Rest
      /\ UNCHANGED <<connection, received>> /\ finished' = TRUE
      /\ items' = Append(items, [is |-> "Decode", at |-> Consumed + Decoded.took])
  BY DEF YieldDecodeError, Yield
<1>2. PICK k \in 0 .. Len(frames) : Between(k)
  BY <1>1 DEF IInv, Decoding
<1>3. k \in Nat /\ TypeOK
  BY DEF IInv, TypeOK
<1>4. /\ k + 1 \in 1 .. Len(frames)
      /\ Decoded.is = Means(frames[k + 1])
      /\ Consumed + Decoded.took = ends[k + 1]
      /\ ends[k + 1] \in 0 .. received
      /\ buffer' \in Seq(Byte) /\ Len(buffer') <= received
  <2>1. Decoded.is # "NeedMore"
    BY <1>1
  <2> QED BY <1>1, <1>2, <1>3, <2>1, FrameTaken
<1>5. frames[k + 1] \in Garbage
  BY <1>1, <1>4, ContentAssumption DEF Means
<1>6. \A j \in DueIn(Arriving) : j <= k
  BY <1>3, <1>4, <1>5, Types DEF DueIn, WholeIn
<1>7. GarbledIn(received) /\ GarbledIn(Arriving)
  BY <1>3, <1>4, <1>5, Types DEF GarbledIn, WholeIn
<1>8. Outcome = {"Decode"}
  BY <1>7 DEF Outcome
<1> QED BY <1>1, <1>2, <1>4, <1>6, <1>7, <1>8, Finishing

LEMMA KeepsBodyBreaks == IInv /\ BodyBreaks => IInv'
<1> SUFFICES ASSUME IInv, BodyBreaks PROVE IInv'
  OBVIOUS
<1>1. /\ ~finished /\ Decoded.is = "NeedMore" /\ buffer' = buffer
      /\ received = Arriving /\ ending = "broken"
      /\ UNCHANGED <<connection, received>> /\ finished' = TRUE
      /\ items' = Append(items, [is |-> "Transport", at |-> Consumed + Decoded.took])
  BY DEF BodyBreaks, Yield
<1>2. PICK k \in 0 .. Len(frames) : Between(k)
  BY <1>1 DEF IInv, Decoding
<1>3. k \in Nat /\ TypeOK
  BY DEF IInv, TypeOK
<1>4. Decoded.took = 0 /\ \A j \in 1 .. Len(frames) : ends[j] <= received <=> j <= k
  BY <1>1, <1>2, <1>3, WaitsAfter
<1>5. Consumed + Decoded.took \in 0 .. received /\ buffer' \in Seq(Byte) /\ Len(buffer') <= received
  BY <1>1, <1>3, <1>4, Types DEF TypeOK
<1>6. \A j \in DueIn(Arriving) : j <= k
  BY <1>1, <1>3, <1>4, Types DEF DueIn, WholeIn
<1>7. ~GarbledIn(Arriving)
  BY <1>1, <1>2, <1>3, <1>4, Types DEF GarbledIn, WholeIn, Between
<1>8. Outcome = {"Transport"}
  BY <1>1, <1>7 DEF Outcome
<1> QED BY <1>1, <1>2, <1>5, <1>6, <1>8, Finishing

LEMMA KeepsBodyEnds == IInv /\ BodyEnds => IInv'
<1> SUFFICES ASSUME IInv, BodyEnds PROVE IInv'
  OBVIOUS
<1>1. /\ ~finished /\ Decoded.is = "NeedMore" /\ buffer' = <<>>
      /\ received = Arriving /\ ending = "clean"
      /\ UNCHANGED <<connection, received>> /\ finished' = TRUE
      /\ IF buffer = <<>> THEN items' = items
         ELSE items' = Append(items, [is |-> "Decode", at |-> Consumed + Decoded.took])
  BY DEF BodyEnds, Yield
<1>2. PICK k \in 0 .. Len(frames) : Between(k)
  BY <1>1 DEF IInv, Decoding
<1>3. k \in Nat /\ TypeOK /\ Framed
  BY DEF IInv, TypeOK
<1>4. Decoded.took = 0 /\ \A j \in 1 .. Len(frames) : ends[j] <= received <=> j <= k
  BY <1>1, <1>2, <1>3, WaitsAfter
<1>5. \A j \in DueIn(Arriving) : j <= k
  BY <1>1, <1>3, <1>4, Types DEF DueIn, WholeIn
<1>6. ~GarbledIn(Arriving)
  BY <1>1, <1>2, <1>3, <1>4, Types DEF GarbledIn, WholeIn, Between
<1>7. buffer' \in Seq(Byte) /\ Len(buffer') = 0 /\ received \in Nat /\ Len(buffer') <= received
  <2>1. <<>> \in Seq(Byte) /\ Len(<<>>) = 0
    OBVIOUS
  <2> QED BY <1>1, <1>3, <2>1, Types
<1>8. CASE buffer = <<>>
  <2>1. /\ format' = format /\ frames' = frames /\ body' = body /\ ends' = ends
        /\ lost' = lost /\ ending' = ending /\ received' = received /\ items' = items
    BY <1>1, <1>8 DEF connection
  <2>2. Consumed = received
    BY <1>3, <1>8, Types
  <2>3. Outcome = {}
    <3>1. received = After(k) /\ (k = 0 \/ k \in DOMAIN ends)
      BY <1>2, <1>3, <2>2, Types DEF Between
    <3>2. Arriving = 0 \/ \E j \in DOMAIN ends : ends[j] = Arriving
      BY <1>1, <3>1 DEF After
    <3> QED BY <1>1, <1>6, <3>2 DEF Outcome
  <2>4. Errors = {}
    BY <1>2 DEF Errors, Between
  <2>5. TypeOK'
    BY <1>1, <1>3, <1>7, <2>1 DEF TypeOK, Arriving
  <2>6. AsPromised'
    <3>1. \A j \in DueIn(Arriving) : IsYielded(j)
      BY <1>2, <1>3, <1>5, Types DEF Between, DueIn, WholeIn
    <3>2. {items[i].is : i \in Errors} = Outcome
      BY <2>3, <2>4
    <3> QED BY <1>1, <2>1, <2>4, <3>1, <3>2
            DEF IInv, AsPromised, IsYielded, DueIn, WholeIn, GarbledIn, Errors, Outcome, Arriving
  <2> QED BY <1>1, <2>5, <2>6, SameConnection DEF IInv, Decoding
<1>9. CASE buffer # <<>>
  <2>1. Len(buffer) > 0
    BY <1>3, <1>9, Types, EmptySeq
  <2>2. Consumed < received
    BY <1>3, <2>1, Types
  <2>3. \A j \in DOMAIN ends : ends[j] # Arriving
    <3> SUFFICES ASSUME NEW j \in 1 .. Len(frames), ends[j] = received PROVE FALSE
      BY <1>1, <1>3, Types
    <3>1. j <= k
      BY <1>3, <1>4, Types
    <3>2. ends[j] <= After(k)
      BY <1>3, <3>1, WholeAt
    <3> QED BY <1>2, <1>3, <2>2, <3>2, Types DEF Between
  <2>4. Outcome = {"Decode"}
    <3>1. Arriving # 0
      BY <1>1, <1>3, <2>2, Types
    <3> QED BY <1>1, <1>6, <2>3, <3>1 DEF Outcome
  <2>5. Consumed + Decoded.took \in 0 .. received
    BY <1>3, <1>4, Types
  <2> QED BY <1>1, <1>2, <1>5, <1>7, <1>9, <2>4, <2>5, Finishing
<1> QED BY <1>8, <1>9

LEMMA KeepsFeed == IInv /\ Feed => IInv'
<1> SUFFICES ASSUME IInv, Feed PROVE IInv'
  OBVIOUS
<1>1. PICK n \in 1 .. Arriving - received :
        /\ buffer' = buffer \o SubSeq(body, received + 1, received + n)
        /\ received' = received + n
  BY DEF Feed
<1>2. ~finished /\ UNCHANGED connection /\ finished' = finished /\ items' = items
  BY DEF Feed
<1>3. PICK k \in 0 .. Len(frames) : Between(k)
  BY <1>2 DEF IInv, Decoding
<1>4. /\ format' = format /\ frames' = frames /\ body' = body /\ ends' = ends
      /\ lost' = lost /\ ending' = ending
  BY <1>2 DEF connection
<1>5. TypeOK /\ Framed /\ Window /\ body \in Seq(Byte)
  BY <1>2 DEF IInv, Decoding, TypeOK
<1>6. /\ n \in Nat /\ received \in Nat /\ received + n <= Len(body) /\ received + n <= Arriving
      /\ buffer \in Seq(Byte) /\ Len(buffer) \in Nat /\ Len(body) \in Nat /\ Arriving \in Nat
      /\ Consumed = received - Len(buffer) /\ Consumed \in Nat
  BY <1>5, Types
<1> DEFINE chunk == SubSeq(body, received + 1, received + n)
<1>7. chunk \in Seq(Byte) /\ Len(chunk) = n /\ \A i \in 1 .. n : chunk[i] = body[received + i]
  BY <1>5, <1>6, Chunk
<1> HIDE DEF chunk
<1>8. /\ buffer' \in Seq(Byte) /\ Len(buffer') = Len(buffer) + n
      /\ \A i \in 1 .. Len(buffer) : buffer'[i] = buffer[i]
      /\ \A i \in 1 .. n : buffer'[Len(buffer) + i] = body[received + i]
  <2>1. buffer' = buffer \o chunk
    BY <1>1 DEF chunk
  <2>2. /\ buffer' \in Seq(Byte) /\ Len(buffer') = Len(buffer) + Len(chunk)
        /\ \A i \in 1 .. Len(buffer) : buffer'[i] = buffer[i]
        /\ \A i \in 1 .. Len(chunk) : buffer'[Len(buffer) + i] = chunk[i]
    <3>1. buffer \in Seq(Byte) /\ chunk \in Seq(Byte)
      BY <1>6, <1>7
    <3> QED BY <2>1, <3>1, Joined
  <2> QED BY <1>7, <2>2
<1>9. Consumed' = Consumed
  BY <1>1, <1>6, <1>8 DEF Consumed
<1>10. Window'
  <2> SUFFICES ASSUME NEW i \in 1 .. Len(buffer') PROVE buffer'[i] = body[Consumed + i]
    BY <1>4, <1>9 DEF Window
  <2>1. CASE i <= Len(buffer)
    BY <2>1, <1>5, <1>6, <1>8 DEF Window
  <2>2. CASE i > Len(buffer)
    <3>1. PICK m \in 1 .. n : i = Len(buffer) + m
      <4>1. i - Len(buffer) \in 1 .. n /\ i = Len(buffer) + (i - Len(buffer))
        BY <2>2, <1>6, <1>8
      <4> QED BY <4>1
    <3>2. Consumed + i = received + m
      BY <3>1, <1>6
    <3> QED BY <3>1, <3>2, <1>8
  <2> QED BY <2>1, <2>2, <1>6, <1>8
<1>11. TypeOK'
  <2>1. items \in Seq([is : Jobs \cup {"Decode", "Transport"}, at : 0 .. received + n])
    <3> DEFINE S == [is : Jobs \cup {"Decode", "Transport"}, at : 0 .. received]
               T == [is : Jobs \cup {"Decode", "Transport"}, at : 0 .. received + n]
    <3>1. S \subseteq T
      BY <1>6
    <3>2. items \in Seq(S)
      BY <1>5 DEF TypeOK
    <3> HIDE DEF S, T
    <3>3. items \in Seq(T)
      BY <3>1, <3>2
    <3> QED BY <3>3 DEF T
  <2>2. Len(buffer') <= received + n
    BY <1>6, <1>8
  <2>3. received + n \in 0 .. Arriving
    BY <1>6
  <2> QED BY <1>1, <1>2, <1>4, <1>5, <1>8, <2>1, <2>2, <2>3 DEF TypeOK, Arriving
<1>12. AsPromised'
  <2>1. \A j \in DueIn(received) : j \in DueIn(received)'
    BY <1>1, <1>4, <1>5, <1>6, Types DEF DueIn, WholeIn
  <2>2. Errors' = Errors /\ DOMAIN items' = DOMAIN items
    BY <1>2 DEF Errors
  <2>3. \A i \in DOMAIN items' \ Errors' :
          \E j \in DueIn(received)' : items'[i] = [is |-> frames'[j], at |-> ends'[j]]
    BY <1>2, <1>4, <2>1, <2>2 DEF IInv, AsPromised
  <2>4. \A j \in DOMAIN frames' : \A i \in DOMAIN items' : j \in DueIn(items[i].at)' => IsYielded(j)'
    BY <1>2, <1>4 DEF IInv, AsPromised, DueIn, WholeIn, IsYielded
  <2>5. ~finished'
    BY <1>2
  <2>6. /\ \A i, j \in DOMAIN items' \ Errors' : i < j => items'[i].at < items'[j].at
        /\ \A i \in Errors' : i = Len(items') /\ finished'
    BY <1>2, <2>2 DEF IInv, AsPromised
  <2> QED BY <2>3, <2>4, <2>5, <2>6 DEF AsPromised
<1>13. Between(k)'
  BY <1>2, <1>3, <1>4, <1>9 DEF Between, After, IsYielded
<1>14. Decoding'
  BY <1>4, <1>10, <1>13 DEF Decoding
<1> QED BY <1>2, <1>11, <1>12, <1>14, SameConnection DEF IInv

-----------------------------------------------------------------------------
(* The steps of the server.                                                *)

LEMMA KeepsSend == ASSUME IInv, NEW f \in FrameKinds, Send(f) PROVE IInv'
<1>1. PICK bytes \in Framings(f) :
        /\ frames' = Append(frames, f)
        /\ body' = body \o bytes
        /\ ends' = Append(ends, Len(body) + Len(bytes))
  BY DEF Send
<1>2. /\ ending = "open" /\ Len(frames) < MaxFrames
      /\ format' = format /\ lost' = lost /\ ending' = ending /\ received' = received
      /\ buffer' = buffer /\ finished' = finished /\ items' = items
  BY DEF Send
<1>3. TypeOK /\ Framed /\ lost = 0 /\ body \in Seq(Byte) /\ format \in Formats
  BY <1>2 DEF IInv, TypeOK
<1> DEFINE N == Len(frames)
           L == Len(body)
           E == Len(body) + Len(bytes)
<1>4. bytes \in Seq(Byte) /\ Len(bytes) \in Nat \ {0}
  <2>1. Len(Text(f)) \in Nat
    BY <1>3, TextBytes
  <2> QED BY <1>3, <2>1, LineBytes, PackedBytes DEF Formats
<1>5. N \in Nat /\ L \in Nat /\ E \in Nat /\ E > L /\ received \in Nat /\ received <= L
  BY <1>3, <1>4, Types
<1>6. /\ body' \in Seq(Byte) /\ Len(body') = E
      /\ \A i \in 1 .. L : body'[i] = body[i]
      /\ \A i \in 1 .. Len(bytes) : body'[L + i] = bytes[i]
  BY <1>1, <1>3, <1>4, Joined
<1>7. /\ frames' \in Seq(FrameKinds) /\ Len(frames') = N + 1 /\ DOMAIN frames' = 1 .. N + 1
      /\ \A j \in 1 .. N : frames'[j] = frames[j]
      /\ frames'[N + 1] = f
  <2>1. frames \in Seq(FrameKinds)
    BY <1>3 DEF TypeOK
  <2> QED BY <1>1, <2>1
<1>8. /\ ends' \in Seq(0 .. Len(body')) /\ Len(ends') = N + 1 /\ DOMAIN ends' = 1 .. N + 1
      /\ \A j \in 1 .. N : ends'[j] = ends[j]
      /\ ends'[N + 1] = E
  <2>1. ends \in Seq(0 .. L) /\ Len(ends) = N
    BY <1>3 DEF TypeOK
  <2>2. 0 .. L \subseteq 0 .. E /\ E \in 0 .. E
    BY <1>5
  <2>3. ends \in Seq(0 .. E)
    BY <2>1, <2>2
  <2> HIDE DEF E, N
  <2>4. ends' = Append(ends, E)
    BY <1>1 DEF E
  <2> QED BY <1>6, <2>1, <2>2, <2>3, <2>4
<1> HIDE DEF N, L, E
<1>9. /\ Arriving = L /\ Arriving' = E
      /\ \A j \in 1 .. N : ends[j] \in Nat /\ ends[j] <= L /\ frames[j] \in FrameKinds
      /\ DOMAIN frames = 1 .. N /\ DOMAIN ends = 1 .. N
  BY <1>2, <1>3, <1>5, <1>6, Types DEF Arriving, N, L
<1>10. TypeOK'
  <2>1. Len(frames') <= MaxFrames
    BY <1>2, <1>5, <1>7, MaxFramesAssumption DEF N
  <2>2. Len(ends') = Len(frames') /\ lost' \in 0 .. Len(body')
    BY <1>2, <1>3, <1>5, <1>6, <1>7, <1>8
  <2>3. received' \in 0 .. Arriving'
    BY <1>2, <1>5, <1>9
  <2>4. Len(items') <= Len(frames') + 1
    BY <1>2, <1>3, <1>5, <1>7, Types DEF TypeOK, N
  <2> QED BY <1>2, <1>3, <1>6, <1>7, <1>8, <2>1, <2>2, <2>3, <2>4 DEF TypeOK
<1>11. Framed'
  <2>1. \A j \in 0 .. N : After(j)' = After(j)
    BY <1>5, <1>8 DEF After
  <2>2. \A g : Framings(g)' = Framings(g)
    BY <1>2 DEF Framings, Text
  <2>3. After(N) = L
    BY <1>3 DEF Framed, N, L
  <2>4. ASSUME NEW j \in 1 .. N + 1
        PROVE  \E bs \in Framings(frames'[j]) :
                 /\ ends'[j] = After(j - 1) + Len(bs)
                 /\ \A i \in 1 .. Len(bs) : body'[After(j - 1) + i] = bs[i]
    <3>1. CASE j = N + 1
      <4>1. j - 1 = N
        BY <3>1, <1>5
      <4>2. bytes \in Framings(frames'[j])
        BY <3>1, <1>7
      <4>3. After(j - 1) = L
        BY <4>1, <2>3
      <4>4. ends'[j] = L + Len(bytes)
        BY <3>1, <1>8 DEF E, L
      <4> QED BY <4>2, <4>3, <4>4, <1>6
    <3>2. CASE j \in 1 .. N
      <4>1. PICK bs \in Framings(frames[j]) :
              /\ ends[j] = After(j - 1) + Len(bs)
              /\ \A i \in 1 .. Len(bs) : body[After(j - 1) + i] = bs[i]
        BY <3>2, <1>3 DEF Framed, N
      <4>2. bs \in Seq(Byte)
        <5>1. frames[j] \in FrameKinds
          BY <1>9, <3>2
        <5> QED BY <5>1, <1>3, LineBytes, PackedBytes DEF Formats
      <4>3. After(j - 1) \in Nat
        <5>1. j - 1 \in 0 .. Len(frames)
          BY <3>2, <1>5 DEF N
        <5>2. After(j - 1) \in 0 .. Len(body)
          BY <5>1, <1>3, WholeAt
        <5> QED BY <5>2
      <4>4. ends[j] <= L /\ ends[j] \in Nat
        BY <3>2, <1>9
      <4>5. \A i \in 1 .. Len(bs) : body'[After(j - 1) + i] = bs[i]
        <5> TAKE i \in 1 .. Len(bs)
        <5>1. After(j - 1) + i \in 1 .. L
          BY <1>5, <4>1, <4>2, <4>3, <4>4
        <5> QED BY <5>1, <4>1, <1>6
      <4> QED BY <3>2, <4>1, <4>5, <1>7, <1>8
    <3> QED BY <3>1, <3>2, <1>5
  <2>5. \A i, j \in 1 .. N + 1 : i < j => ends'[i] < ends'[j]
    <3>1. \A i, j \in 1 .. N : i < j => ends[i] < ends[j]
      BY <1>3 DEF Framed, N
    <3>2. \A i \in 1 .. N : ends[i] < E
      BY <1>5, <1>9
    <3> QED BY <3>1, <3>2, <1>5, <1>8
  <2>6. (Len(body) = After(Len(frames)))'
    BY <1>5, <1>6, <1>7, <1>8 DEF After
  <2>7. \A j \in 1 .. Len(frames') : j \in 1 .. N + 1 /\ j - 1 \in 0 .. N
    BY <1>5, <1>7
  <2>8. \A j \in 1 .. Len(frames') : After(j - 1)' = After(j - 1)
    BY <2>1, <2>7
  <2>9. \A j \in 1 .. Len(frames') : \E bs \in Framings(frames[j])' :
          /\ ends'[j] = After(j - 1)' + Len(bs)
          /\ \A i \in 1 .. Len(bs) : body'[After(j - 1)' + i] = bs[i]
    <3> TAKE j \in 1 .. Len(frames')
    <3>1. After(j - 1)' = After(j - 1) /\ Framings(frames[j])' = Framings(frames'[j])
      BY <2>8, <1>2 DEF Framings, Text
    <3> QED BY <3>1, <2>4, <2>7
  <2> QED BY <2>5, <2>6, <2>9, <1>7 DEF Framed
<1>12. \A j \in 1 .. N : IsYielded(j)' <=> IsYielded(j)
  BY <1>2, <1>7, <1>8 DEF IsYielded
<1>13. \A n \in 0 .. L : \A j \in 1 .. N + 1 : ends'[j] <= n => j \in 1 .. N
  BY <1>5, <1>8
<1>14. Decoding'
  <2> SUFFICES ASSUME ~finished PROVE (Window /\ \E k \in 0 .. Len(frames) : Between(k))'
    BY <1>2 DEF Decoding
  <2>1. PICK k \in 0 .. N : Between(k)
    BY DEF IInv, Decoding, N
  <2>2. Window /\ Consumed' = Consumed
    BY <1>2 DEF IInv, Decoding, Consumed
  <2>3. Window'
    <3> SUFFICES ASSUME NEW i \in 1 .. Len(buffer) PROVE buffer[i] = body'[Consumed + i]
      BY <1>2, <2>2 DEF Window
    <3>1. Consumed + i \in 1 .. L
      BY <1>3, <1>5, Types
    <3> QED BY <1>6, <2>2, <3>1 DEF Window
  <2>4. Between(k)'
    <3>1. k \in 0 .. N + 1 /\ \A j \in 1 .. k : j \in 1 .. N
      BY <1>5
    <3>2. After(k)' = After(k)
      BY <1>5, <1>8 DEF After
    <3> QED BY <1>2, <1>7, <1>12, <2>1, <2>2, <3>1, <3>2 DEF Between
  <2> QED BY <1>5, <1>7, <2>3, <2>4
<1>15. AsPromised'
  <2>1. \A j : j \in DueIn(received)' <=> j \in DueIn(received)
    BY <1>2, <1>5, <1>7, <1>8, <1>9, <1>13 DEF DueIn, WholeIn
  <2>2. Errors' = Errors /\ DOMAIN items' = DOMAIN items
    BY <1>2 DEF Errors
  <2>3. \A i \in DOMAIN items' \ Errors' :
          \E j \in DueIn(received)' : items'[i] = [is |-> frames'[j], at |-> ends'[j]]
    <3>1. \A j \in DueIn(received) : j \in 1 .. N
      BY <1>9 DEF DueIn, WholeIn
    <3> QED BY <1>2, <1>7, <1>8, <2>1, <2>2, <3>1 DEF IInv, AsPromised
  <2>4. \A j \in DOMAIN frames' : \A i \in DOMAIN items' : j \in DueIn(items[i].at)' => IsYielded(j)'
    <3> SUFFICES ASSUME NEW j \in DOMAIN frames', NEW i \in DOMAIN items, j \in DueIn(items[i].at)'
                 PROVE  IsYielded(j)'
      BY <1>2
    <3>1. items[i].at \in 0 .. L
      BY <1>3, <1>5, Types
    <3>2. j \in 1 .. N /\ j \in DueIn(items[i].at)
      BY <1>2, <1>5, <1>7, <1>8, <1>9, <1>13, <3>1 DEF DueIn, WholeIn
    <3> QED BY <1>9, <1>12, <3>2 DEF IInv, AsPromised
  <2>5. /\ \A i, j \in DOMAIN items' \ Errors' : i < j => items'[i].at < items'[j].at
        /\ \A i \in Errors' : i = Len(items') /\ finished'
    BY <1>2, <2>2 DEF IInv, AsPromised
  <2>6. ASSUME finished
        PROVE  /\ GarbledIn(received)'
               /\ \A j \in DueIn(Arriving)' : IsYielded(j)'
               /\ {items'[i].is : i \in Errors'} = Outcome'
    <3>1. PICK g \in 1 .. N : ends[g] <= received /\ frames[g] \in Garbage
      BY <1>2, <1>9, <2>6 DEF IInv, AsPromised, GarbledIn, WholeIn
    <3>2. g \in 1 .. N + 1 /\ ends'[g] <= received' /\ frames'[g] \in Garbage
      BY <1>2, <1>5, <1>7, <1>8, <3>1
    <3>3. GarbledIn(received)'
      BY <1>7, <3>2 DEF GarbledIn, WholeIn
    <3>4. GarbledIn(Arriving) /\ GarbledIn(Arriving)'
      BY <1>2, <1>5, <1>7, <1>8, <1>9, <3>1, <3>2 DEF GarbledIn, WholeIn
    <3>5. Outcome = {"Decode"} /\ Outcome' = {"Decode"}
      BY <3>4 DEF Outcome
    <3>6. \A j \in DueIn(Arriving)' : j \in DueIn(Arriving)
      <4> SUFFICES ASSUME NEW j \in DueIn(Arriving)' PROVE j \in DueIn(Arriving)
        OBVIOUS
      <4>1. j \in 1 .. N + 1 /\ frames'[j] \in Jobs /\ \A h \in 1 .. j : frames'[h] \notin Garbage
        BY <1>7 DEF DueIn, WholeIn
      <4>2. j \in 1 .. N
        BY <1>5, <3>1, <3>2, <4>1
      <4> QED BY <1>5, <1>7, <1>9, <4>1, <4>2 DEF DueIn, WholeIn
    <3>7. \A j \in DueIn(Arriving) : j \in 1 .. N
      BY <1>9 DEF DueIn, WholeIn
    <3> QED BY <1>2, <1>12, <2>2, <2>6, <3>3, <3>5, <3>6, <3>7 DEF IInv, AsPromised
  <2> QED BY <1>2, <2>3, <2>4, <2>5, <2>6 DEF AsPromised
<1> QED BY <1>2, <1>3, <1>10, <1>11, <1>14, <1>15 DEF IInv

LEMMA KeepsConnectionEnds ==
  ASSUME IInv, NEW how \in {"clean", "broken"}, ConnectionEnds(how) PROVE IInv'
<1>1. /\ ending = "open" /\ ending' = how /\ lost' \in 0 .. Len(body) - received
      /\ format' = format /\ frames' = frames /\ body' = body /\ ends' = ends
      /\ received' = received /\ buffer' = buffer /\ finished' = finished /\ items' = items
  BY DEF ConnectionEnds
<1>2. TypeOK /\ Framed
  BY DEF IInv
<1>3. /\ lost' \in Nat /\ lost' <= Len(body) /\ Arriving' \in Nat /\ received <= Arriving'
      /\ Arriving' <= Len(body) /\ Len(body) \in Nat /\ received \in Nat /\ Arriving = Len(body)
  BY <1>1, <1>2, Types DEF Arriving, IInv
<1>4. TypeOK'
  BY <1>1, <1>2, <1>3 DEF TypeOK
<1>5. Framed'
  <2>1. \A f : Framings(f)' = Framings(f)
    BY <1>1 DEF Framings, Text
  <2> QED BY <1>1, <1>2, <2>1 DEF Framed, After
<1>6. Decoding'
  <2>1. Window' <=> Window
    BY <1>1 DEF Window, Consumed
  <2>2. \A k : Between(k)' <=> Between(k)
    BY <1>1 DEF Between, Consumed, After, IsYielded
  <2> QED BY <1>1, <2>1, <2>2 DEF IInv, Decoding
<1>7. AsPromised'
  <2>1. Errors' = Errors
    BY <1>1 DEF Errors
  <2>2. ASSUME finished
        PROVE  /\ \A j \in DueIn(Arriving)' : IsYielded(j)'
               /\ {items'[i].is : i \in Errors'} = Outcome'
    <3>1. GarbledIn(received)
      BY <1>1, <2>2 DEF IInv, AsPromised
    <3>2. GarbledIn(Arriving) /\ GarbledIn(Arriving)'
      BY <1>1, <1>2, <1>3, <3>1, Types DEF GarbledIn, WholeIn
    <3>3. Outcome = {"Decode"} /\ Outcome' = {"Decode"}
      BY <3>2 DEF Outcome
    <3>4. \A j \in DueIn(Arriving)' : j \in DueIn(Arriving)
      BY <1>1, <1>2, <1>3, Types DEF DueIn, WholeIn
    <3>5. \A j : IsYielded(j)' <=> IsYielded(j)
      BY <1>1 DEF IsYielded
    <3> QED BY <1>1, <2>1, <2>2, <3>3, <3>4, <3>5 DEF IInv, AsPromised
  <2>3. ending' # "open"
    BY <1>1
  <2> QED BY <1>1, <2>1, <2>2, <2>3 DEF IInv, AsPromised, IsYielded, DueIn, WholeIn
<1> QED BY <1>1, <1>4, <1>5, <1>6, <1>7 DEF IInv

-----------------------------------------------------------------------------
LEMMA InitInv == Init => IInv
<1> SUFFICES ASSUME Init PROVE IInv
  OBVIOUS
<1>1. /\ format \in Formats /\ frames = <<>> /\ body = <<>> /\ ends = <<>>
      /\ lost = 0 /\ ending = "open" /\ received = 0 /\ buffer = <<>> /\ finished = FALSE /\ items = <<>>
  BY DEF Init
<1>2. TypeOK
  <2>1. \A S : <<>> \in Seq(S)
    OBVIOUS
  <2>2. Len(<<>>) = 0
    OBVIOUS
  <2>3. 0 \in 0 .. 0 /\ 0 - 0 = 0 /\ 0 <= 0 /\ 0 <= 0 + 1 /\ 0 <= MaxFrames
    BY MaxFramesAssumption
  <2>4. Arriving = 0
    BY <1>1, <2>2, <2>3 DEF Arriving
  <2> QED BY <1>1, <2>1, <2>2, <2>3, <2>4 DEF TypeOK
<1>3. Framed
  BY <1>1 DEF Framed, After
<1>4. Between(0)
  <2>1. 0 \in 0 .. Len(frames) /\ Len(items) <= 0 /\ DOMAIN items = {} /\ 1 .. 0 = {}
    BY <1>1
  <2>2. Consumed = After(0)
    <3>1. Len(<<>>) = 0 /\ 0 - 0 = 0
      OBVIOUS
    <3> QED BY <1>1, <3>1 DEF Consumed, After
  <2> QED BY <2>1, <2>2 DEF Between
<1>5. Decoding
  <2>1. Window
    BY <1>1 DEF Window
  <2> QED BY <1>1, <1>4, <2>1 DEF Decoding
<1>6. AsPromised
  BY <1>1 DEF AsPromised, Errors
<1> QED BY <1>1, <1>2, <1>3, <1>5, <1>6 DEF IInv

LEMMA Inductive == IInv /\ [Next]_vars => IInv'
<1> SUFFICES ASSUME IInv, [Next]_vars PROVE IInv'
  OBVIOUS
<1>1. CASE UNCHANGED vars
  <2>1. /\ format' = format /\ frames' = frames /\ body' = body /\ ends' = ends /\ lost' = lost
        /\ ending' = ending /\ received' = received /\ buffer' = buffer /\ finished' = finished
        /\ items' = items
    BY <1>1 DEF vars
  <2>2. TypeOK' <=> TypeOK
    BY <2>1 DEF TypeOK, Arriving
  <2>3. Framed'
    BY <2>1, SameConnection DEF connection
  <2>4. Decoding' <=> Decoding
    BY <2>1 DEF Decoding, Window, Between, Consumed, After, IsYielded
  <2>5. AsPromised' <=> AsPromised
    BY <2>1 DEF AsPromised, IsYielded, DueIn, WholeIn, GarbledIn, Errors, Outcome, Arriving
  <2> QED BY <2>1, <2>2, <2>3, <2>4, <2>5 DEF IInv
<1>2. CASE Client
  BY <1>2, KeepsHeartbeat, KeepsYieldJob, KeepsDecodeError, KeepsFeed, KeepsBodyBreaks, KeepsBodyEnds
     DEF Client
<1>3. CASE Server
  <2>1. ASSUME NEW f \in FrameKinds, Send(f) PROVE IInv'
    BY <2>1, KeepsSend
  <2>2. ASSUME NEW how \in {"clean", "broken"}, ConnectionEnds(how) PROVE IInv'
    BY <2>2, KeepsConnectionEnds
  <2> QED BY <1>3, <2>1, <2>2 DEF Server
<1> QED BY <1>1, <1>2, <1>3 DEF Next

(* Types, and that the stream returns at most one thing per frame and one  *)
(* more when it ends.                                                      *)
THEOREM TypesKept == Spec => []TypeOK
<1>1. IInv => TypeOK
  BY DEF IInv
<1> QED BY <1>1, InitInv, Inductive, PTL DEF Spec

(* Whatever jobs are sent, in either format, and wherever the network cuts *)
(* the bytes: the jobs of the whole frames come out in order, once each,   *)
(* and the error that the frames and the ending call for comes last.       *)
THEOREM StreamAsPromised == Spec => []AsPromised
<1>1. IInv => AsPromised
  BY DEF IInv
<1> QED BY <1>1, InitInv, Inductive, PTL DEF Spec

(* poll_next never waits for the network with a whole job in its buffer.   *)
THEOREM NothingIsHeldBack == Spec => []NothingHeldBack
<1>1. IInv => NothingHeldBack
  <2> SUFFICES ASSUME IInv, ~finished, Decoded.is = "NeedMore"
               PROVE  /\ \A k \in DueIn(received) : IsYielded(k)
                      /\ ~GarbledIn(received)
    BY DEF NothingHeldBack
  <2>1. PICK k \in 0 .. Len(frames) : Between(k)
    BY DEF IInv, Decoding
  <2>2. k \in Nat /\ TypeOK
    BY DEF IInv, TypeOK
  <2>3. \A j \in 1 .. Len(frames) : ends[j] <= received <=> j <= k
    BY <2>1, <2>2, WaitsAfter
  <2>4. \A j \in WholeIn(received) : j \in 1 .. k
    BY <2>2, <2>3, Types DEF WholeIn
  <2> QED BY <2>1, <2>4 DEF Between, DueIn, GarbledIn, WholeIn
<1> QED BY <1>1, InitInv, Inductive, PTL DEF Spec
=============================================================================
