----------------------------- MODULE NetFraming -----------------------------
(***************************************************************************)
(* One direction of a TCP connection: EventConn::Send packs a payload into *)
(* send_buf_ and flushes it (native/net/net_event.cpp, net_buffer.cpp),    *)
(* the stream arrives in pieces of any size, and HandleRead moves it to    *)
(* recv_buf_ and takes packets off it until none is complete.              *)
(*                                                                         *)
(* A byte is a number.  A length header has digits below Base, so that the *)
(* limit of a two byte header is within reach.                             *)
(***************************************************************************)
EXTENDS Integers, SequencesExt

CONSTANTS Framers,    \* "be4", "le4", "be2", "le2", "line", "fixed", "raw", "custom", "ws_client", "ws_server"
          Payloads,   \* what the script sends
          Base,       \* of a digit of a length header
          SendCap, RecvCap, MaxPacket, FixedLen,   \* send_buf_size, recv_buf_size, max_packet_len, fixed_packet_len
          WsShort,    \* lengths below have the short websocket header (126)
          WsMax,      \* the largest websocket payload (0xFFFF)
          MaxSends    \* bound

VARIABLES framer,    \* cfg_.framer; for websockets, which side sends
          sendBuf,   \* send_buf_ of the sender
          wire,      \* bytes that were sent and have not arrived
          input,     \* the receiver's evbuffer
          recvBuf,   \* recv_buf_ of the receiver
          hs,        \* the websocket handshake: ws_open_ and hs_buf_
          fpc,       \* "idle", "fill" or "parse" (HandleRead), "closed", "broken"
          fsent, fgot   \* history: the payloads that Send accepted, and those that were received

frameVars == <<framer, sendBuf, wire, input, recvBuf, hs, fpc, fsent, fgot>>

(***************************************************************************)
(* The ring of native/net/net_buffer.cpp: buf_ with head_, tail_ and       *)
(* size_.  Sequences stand for the linear memory that bytes come from and  *)
(* go to.                                                                  *)
(***************************************************************************)
Least(a, b) == IF a <= b THEN a ELSE b

NewRing(cap) == [cap |-> cap, buf |-> [j \in 0..cap - 1 |-> 0], head |-> 0, tail |-> 0, size |-> 0]

\* memcpy into buf_ at an offset, and from it.
CopyIn(buf, at, data) == [j \in DOMAIN buf |-> IF j \in at..at + Len(data) - 1 THEN data[j - at + 1] ELSE buf[j]]
CopyOut(buf, at, n) == [i \in 1..n |-> buf[at + i - 1]]

\* Mutant: what does not fit before the end is written behind the first byte.
WriteWrapsLate(b, data) ==
    LET len   == Least(Len(data), b.cap - b.size)
        first == Least(len, b.cap - b.tail)
    IN  [b EXCEPT !.buf = CopyIn(CopyIn(@, b.tail, SubSeq(data, 1, first)), 1, SubSeq(data, first + 1, len)),
                  !.tail = (@ + len) % b.cap, !.size = @ + len]

\* Write: as much as there is room for, in two pieces if it reaches the end of buf_.
Write(b, data) ==
    LET len   == Least(Len(data), b.cap - b.size)
        first == Least(len, b.cap - b.tail)
    IN  [b EXCEPT !.buf = CopyIn(CopyIn(@, b.tail, SubSeq(data, 1, first)), 0, SubSeq(data, first + 1, len)),
                  !.tail = (@ + len) % b.cap, !.size = @ + len]

\* Peek: the first bytes, at most len.
Peek(b, len) ==
    LET n     == Least(len, b.size)
        first == Least(n, b.cap - b.head)
    IN  CopyOut(b.buf, b.head, first) \o CopyOut(b.buf, 0, n - first)

Skip(b, len) == LET n == Least(len, b.size) IN [b EXCEPT !.head = (@ + n) % b.cap, !.size = @ - n]

\* Read: what Peek returns, consumed.
Read(b, len) == [data |-> Peek(b, len), ring |-> Skip(b, len)]

\* The contiguous region that can be written (received into) and the one that can be read (sent from).
WritableRegion(b) ==
    IF b.size >= b.cap THEN [at |-> 0, len |-> 0]
    ELSE [at |-> b.tail, len |-> (IF b.head > b.tail THEN b.head ELSE b.cap) - b.tail]

ReadableRegion(b) ==
    IF b.size = 0 THEN [at |-> 0, len |-> 0]
    ELSE [at |-> b.head, len |-> (IF b.tail > b.head THEN b.tail ELSE b.cap) - b.head]

CommitWrite(b, n) == [b EXCEPT !.tail = (@ + n) % b.cap, !.size = @ + n]
CommitRead(b, n) == [b EXCEPT !.head = (@ + n) % b.cap, !.size = @ - n]

(***************************************************************************)
(* Packets, and the connection that carries them.                          *)
(***************************************************************************)
PadByte == 0
LF == 10
CR == 13
Text == 129    \* FIN and the text opcode
HsByte == 200  \* of the handshake's headers
HsEnd == 201   \* the blank line after headers that are accepted
HsBad == 202   \* and after those that are not

\* The configuration: any framer. A websocket server's answer to the handshake is ahead of its first frame.
ParseConfig ==
    /\ framer \in Framers
    /\ IF framer = "ws_server" THEN wire \in {<<HsByte, HsEnd>>, <<HsByte, HsBad>>} ELSE wire = <<>>
    /\ hs = [open |-> framer # "ws_server", buf |-> <<>>]

FrameInit ==
    /\ ParseConfig
    /\ sendBuf = NewRing(SendCap) /\ recvBuf = NewRing(RecvCap)
    /\ input = <<>> /\ fpc = "idle" /\ fsent = <<>> /\ fgot = <<>>

-----------------------------------------------------------------------------
(* Packing.                                                                *)

HeaderSize == CASE framer \in {"be4", "le4"} -> 4 [] framer \in {"be2", "le2"} -> 2 [] OTHER -> 0
BigEndian == framer \in {"be4", "be2"}

\* The length as digits, most significant first or last.
Weight == <<1, Base, Base * Base, Base * Base * Base>>
LengthHeader(n, size) ==
    LET digit(k) == (n \div Weight[k + 1]) % Base
    IN  [i \in 1..size |-> IF BigEndian THEN digit(size - i) ELSE digit(i - 1)]
HeaderLength(h) ==
    LET digit(k) == IF k >= Len(h) THEN 0 ELSE IF BigEndian THEN h[Len(h) - k] ELSE h[k + 1]
    IN  ((digit(3) * Base + digit(2)) * Base + digit(1)) * Base + digit(0)

EncodedPacketSize(n) ==
    CASE framer = "line" -> n + 1
      [] framer = "fixed" -> IF FixedLen > 0 THEN FixedLen ELSE n
      [] OTHER -> HeaderSize + n

RoomFor(b, data) == EncodedPacketSize(Len(data)) <= b.cap - b.size

\* WritePacket: all of the packet or nothing.
WritePacketOK(b, data) == RoomFor(b, data) /\ (framer \in {"be2", "le2"} => Len(data) <= Base^2 - 1)

\* A fixed packet: padded with zeros, or cut.
Fixed(data) ==
    LET n == IF FixedLen > 0 THEN FixedLen ELSE Len(data)
    IN  [i \in 1..n |-> IF i <= Len(data) THEN data[i] ELSE PadByte]

WritePacket(b, data) ==
    CASE HeaderSize > 0   -> Write(Write(b, LengthHeader(Len(data), HeaderSize)), data)
      [] framer = "line"  -> Write(Write(b, data), <<LF>>)
      [] framer = "fixed" -> Write(b, Fixed(data))
      [] OTHER            -> Write(b, data)

\* FlushSend: the readable region, and once more if the bytes go round the end.
FlushSend(b) ==
    LET r == ReadableRegion(b)
        c == CommitRead(b, r.len)
        q == ReadableRegion(c)
    IN  [ring |-> CommitRead(c, q.len), out |-> CopyOut(b.buf, r.at, r.len) \o CopyOut(c.buf, q.at, q.len)]

\* EncodeWsText: a short or a long length, and from a client a mask (here one byte, which is added).
Mask == 1
WsMasked == framer = "ws_client"
EncodeWsText(data) ==
    LET bit == IF WsMasked THEN 128 ELSE 0
        len == IF Len(data) < WsShort THEN <<Len(data) + bit>>
               ELSE <<WsShort + bit, Len(data) \div Base, Len(data) % Base>>
    IN  <<Text>> \o len \o (IF WsMasked THEN <<Mask>> \o [i \in DOMAIN data |-> data[i] + Mask] ELSE data)

WebSocket == framer \in {"ws_client", "ws_server"}

\* EventConn::Send.
Send(data) ==
    /\ fpc = "idle" /\ Len(fsent) < MaxSends
    /\ IF WebSocket
       THEN Len(data) <= WsMax /\ wire' = wire \o EncodeWsText(data) /\ UNCHANGED sendBuf
       ELSE /\ WritePacketOK(sendBuf, data)
            /\ LET f == FlushSend(WritePacket(sendBuf, data)) IN sendBuf' = f.ring /\ wire' = wire \o f.out
    /\ fsent' = Append(fsent, data)
    /\ UNCHANGED <<framer, input, recvBuf, hs, fpc, fgot>>

-----------------------------------------------------------------------------
(* Unpacking: no packet yet, one packet, or an error.                      *)

NoPacket == [ok |-> FALSE, err |-> FALSE]
BadPacket == [ok |-> FALSE, err |-> TRUE]
Packet(data, n) == [ok |-> TRUE, err |-> FALSE, data |-> data, ring |-> Skip(recvBuf, n)]

ValidatePayloadLen(n) ==
    IF n > MaxPacket \/ HeaderSize + n > RecvCap THEN BadPacket
    ELSE IF recvBuf.size < HeaderSize + n THEN NoPacket
    ELSE [ok |-> TRUE]

ParseHeader ==
    IF recvBuf.size < HeaderSize THEN NoPacket
    ELSE LET n == HeaderLength(Peek(recvBuf, HeaderSize))
             v == ValidatePayloadLen(n)
         IN  IF v.ok THEN Packet(Read(Skip(recvBuf, HeaderSize), n).data, HeaderSize + n) ELSE v

\* The first line, without its line feed and a carriage return before it.
ParseLine ==
    LET scan  == Peek(recvBuf, Least(recvBuf.size, MaxPacket + 1))
        ends  == {i \in DOMAIN scan : scan[i] = LF}
        end   == CHOOSE i \in ends : \A j \in ends : i <= j
        strip == IF end > 1 /\ scan[end - 1] = CR THEN end - 2 ELSE end - 1
    IN  IF ends # {} THEN Packet(SubSeq(scan, 1, strip), end)
        ELSE IF recvBuf.size > MaxPacket THEN BadPacket ELSE NoPacket

ParseFixed ==
    IF FixedLen <= 0 THEN NoPacket
    ELSE IF FixedLen > RecvCap \/ FixedLen > MaxPacket THEN BadPacket
    ELSE IF recvBuf.size < FixedLen THEN NoPacket
    ELSE Packet(Peek(recvBuf, FixedLen), FixedLen)

ParseRaw ==
    LET n == Least(recvBuf.size, MaxPacket) IN IF n = 0 THEN NoPacket ELSE Packet(Peek(recvBuf, n), n)

\* What a function of the script answers to at most max_packet_len bytes: nil, or a string and how many bytes that
\* consumed. (Here it takes two at a time, and a number that is out of range stands for all of them.)
Shown == Least(recvBuf.size, MaxPacket)
ParserAnswers ==
    IF framer # "custom" \/ Shown < 2 THEN {[nil |-> TRUE, str |-> <<>>, consumed |-> 0]}
    ELSE {[nil |-> FALSE, str |-> Peek(recvBuf, 2), consumed |-> k] : k \in {2} \cup (IF Shown = 2 THEN {-1, 3} ELSE {})}

CustomParser(a) ==
    IF Shown = 0 \/ a.nil \/ (a.consumed = 0 /\ a.str = <<>>) THEN NoPacket
    ELSE Packet(a.str, IF a.consumed \in 0..Shown THEN a.consumed ELSE Shown)

TryParsePacket(a) ==
    CASE framer = "custom" -> CustomParser(a)
      [] HeaderSize > 0    -> ParseHeader
      [] framer = "line"   -> ParseLine
      [] framer = "fixed"  -> ParseFixed
      [] framer = "raw"    -> ParseRaw

\* The header: opcode and length, two bytes of a long length, and the mask.
WsHeaderSize(short) == (IF short THEN 2 ELSE 4) + (IF WsMasked THEN 1 ELSE 0)

\* TryParseWsFrame, of a text frame.
TryParseWsFrame ==
    IF recvBuf.size < 2 THEN NoPacket
    ELSE LET h     == Peek(recvBuf, 4)
             short == h[2] % 128 < WsShort
             hlen  == WsHeaderSize(short)
         IN  IF ~short /\ recvBuf.size < 4 THEN NoPacket
             ELSE LET n == IF short THEN h[2] % 128 ELSE (h[3] * Base) + h[4]
                      f == Peek(recvBuf, hlen + n)
                  IN  IF recvBuf.size < hlen + n THEN NoPacket
                      ELSE Packet([i \in 1..n |-> f[hlen + i] - (IF WsMasked THEN f[hlen] ELSE 0)], hlen + n)

-----------------------------------------------------------------------------
(* Receiving.                                                              *)

\* libevent: the next bytes, as many as the network has brought.
Arrive ==
    /\ fpc = "idle"
    /\ \E n \in 1..Len(wire) : input' = SubSeq(wire, 1, n) /\ wire' = SubSeq(wire, n + 1, Len(wire))
    /\ fpc' = "fill"
    /\ UNCHANGED <<framer, sendBuf, recvBuf, hs, fsent, fgot>>

Close == fpc' = "closed"

\* HandleRead's first loop: the input goes to the writable region, while there is one.
HandleReadFill ==
    /\ fpc = "fill" /\ input # <<>>
    /\ LET r == WritableRegion(recvBuf)
           n == Least(Len(input), r.len)
       IN  IF r.len = 0 THEN Close /\ UNCHANGED <<input, recvBuf>>
           ELSE /\ recvBuf' = CommitWrite([recvBuf EXCEPT !.buf = CopyIn(@, r.at, SubSeq(input, 1, n))], n)
                /\ input' = SubSeq(input, n + 1, Len(input))
                /\ UNCHANGED fpc
    /\ UNCHANGED <<framer, sendBuf, wire, hs, fsent, fgot>>

HandleReadFilled ==
    /\ fpc = "fill" /\ input = <<>> /\ fpc' = "parse"
    /\ UNCHANGED <<framer, sendBuf, wire, input, recvBuf, hs, fsent, fgot>>

\* PumpWsHandshake: once the headers are complete and accepted, what follows them is put back.
PumpWsHandshake ==
    /\ fpc = "parse" /\ ~hs.open
    /\ LET all  == hs.buf \o Peek(recvBuf, recvBuf.size)
           none == Skip(recvBuf, recvBuf.size)
           ends == {i \in DOMAIN all : all[i] \in {HsEnd, HsBad}}
           end  == CHOOSE i \in ends : \A j \in ends : i <= j
       IN  IF ends = {} THEN hs' = [hs EXCEPT !.buf = all] /\ recvBuf' = none /\ fpc' = "idle"
           ELSE /\ recvBuf' = Write(none, SubSeq(all, end + 1, Len(all)))
                /\ hs' = [open |-> all[end] = HsEnd, buf |-> <<>>]
                /\ IF all[end] = HsEnd THEN UNCHANGED fpc ELSE Close
    /\ UNCHANGED <<framer, sendBuf, wire, input, fsent, fgot>>

\* HandleRead's second loop: one packet is handed to the sink (an empty websocket message is not), until none is
\* complete or one is not acceptable.
HandleReadParse ==
    /\ fpc = "parse" /\ hs.open
    /\ \E a \in ParserAnswers : \E p \in {IF WebSocket THEN TryParseWsFrame ELSE TryParsePacket(a)} :
           IF p.ok
           THEN /\ recvBuf' = p.ring
                /\ fgot' = IF WebSocket /\ p.data = <<>> THEN fgot ELSE Append(fgot, p.data)
                /\ UNCHANGED fpc
           ELSE fpc' = (IF p.err THEN "closed" ELSE "idle") /\ UNCHANGED <<recvBuf, fgot>>
    /\ UNCHANGED <<framer, sendBuf, wire, input, hs, fsent>>

\* The script's parser is called from libevent's read callback. An error of it unwinds libevent's loop, which is never
\* entered again, and obj:close frees the connection under HandleRead; what follows is not defined, and nothing here.
ParserBreaks ==
    /\ fpc = "parse" /\ framer = "custom" /\ Shown > 0
    /\ fpc' = "broken"
    /\ UNCHANGED <<framer, sendBuf, wire, input, recvBuf, hs, fsent, fgot>>

FrameNext ==
    \/ \E data \in Payloads : Send(data)
    \/ Arrive \/ HandleReadFill \/ HandleReadFilled \/ PumpWsHandshake \/ HandleReadParse \/ ParserBreaks

-----------------------------------------------------------------------------

\* The bytes in a ring, from the oldest on; those that were sent and that no parser has taken yet, from the one that
\* comes next on; and those of a packet.
Contents(b) == [i \in 1..b.size |-> b.buf[(b.head + i - 1) % b.cap]]
Unread == hs.buf \o Contents(recvBuf) \o input \o wire
Encoded(data) ==
    CASE WebSocket          -> EncodeWsText(data)
      [] HeaderSize > 0     -> LengthHeader(Len(data), HeaderSize) \o data
      [] framer = "line"    -> data \o <<LF>>
      [] framer = "fixed"   -> Fixed(data)
      [] framer \in {"raw", "custom"} -> data

\* No byte is lost, doubled or moved between the one that Send wrote and the parser, however the rings wrap around:
\* a packet is all there behind what is in flight, and only the parsers take bytes, from the front.
FlowStep ==
    \/ fpc = "idle" /\ \E data \in Payloads : fsent' = Append(fsent, data) /\ Unread' = Unread \o Encoded(data)
    \/ UNCHANGED fsent /\ fpc = "parse" /\ \E n \in 0..Len(Unread) : Unread' = SubSeq(Unread, n + 1, Len(Unread))
    \/ UNCHANGED fsent /\ Unread' = Unread
FlowKept == [][FlowStep]_frameVars

\* What a receiver is to get of the messages ms: a fixed packet is padded or cut, a line ends at a line feed of the
\* payload too and loses its carriage return, an empty websocket message is dropped, a parser makes its own packets.
Lines(ms) ==
    LET text == FoldLeft(LAMBDA acc, m : acc \o m \o <<LF>>, <<>>, ms)
        step(acc, c) ==
            IF c # LF THEN [acc EXCEPT !.line = Append(@, c)]
            ELSE [done |-> Append(acc.done,
                                  IF acc.line # <<>> /\ Last(acc.line) = CR THEN Front(acc.line) ELSE acc.line),
                  line |-> <<>>]
    IN  FoldLeft(step, [done |-> <<>>, line |-> <<>>], text).done
Expected(ms) ==
    CASE framer = "line"   -> Lines(ms)
      [] framer = "fixed"  -> [i \in DOMAIN ms |-> Fixed(ms[i])]
      [] framer = "raw"    -> FlattenSeq(ms)
      [] framer = "custom" -> LET all == FlattenSeq(ms)
                              IN  [i \in 1..(Len(all) \div 2) |-> SubSeq(all, 2 * i - 1, 2 * i)]
      [] WebSocket         -> SelectSeq(ms, LAMBDA m : m # <<>>)
      [] OTHER             -> ms
Received == IF framer = "raw" THEN FlattenSeq(fgot) ELSE fgot

\* The stream is not damaged: however the bytes of the packets are cut into pieces and wherever they lie in the two
\* rings, what is received is the beginning of what was sent, and all of it once everything has arrived.
StreamIntact ==
    /\ IsPrefix(Received, Expected(fsent))
    /\ fpc = "idle" /\ wire = <<>> => Received = Expected(fsent)

=============================================================================
