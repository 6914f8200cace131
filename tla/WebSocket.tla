----------------------------- MODULE WebSocket ------------------------------
(***************************************************************************)
(* A websocket between the client of this crate, which sends through       *)
(* WsSinks and receives through the dispatcher of WsConnection::start, and *)
(* a server whose stream is a WsTransport (ws/transport.rs); both use the  *)
(* codec of ws/codec.rs and the frames of ws/frame.rs.                     *)
(*                                                                         *)
(* WsConnection::sink clones the codec and its flags: every sink, and the  *)
(* dispatcher, has flags of its own.  A frame is a record of its opcode,   *)
(* the FIN bit, the mask bit, the length of its payload and the number n   *)
(* of that payload among those with data; bytes arrive one frame at a time *)
(* but in any pieces.                                                      *)
(***************************************************************************)
EXTENDS Integers, Sequences

CONSTANTS Sinks,     \* the sinks of the client
          Lens,      \* lengths of payloads
          max_size,  \* Codec::max_size of either end
          MaxFrames  \* bound: frames that the client sends

VARIABLES
    wflags,   \* of each sink's codec: W_CONTINUATION and CLOSED
    made,     \* frames sent by the sinks
    data,     \* those with data
    pings,    \* and pings
    misused,  \* a sink has sent what the server may refuse
    up, have, \* frames to the server, and the bytes of the first that are there
    t,        \* WsTransport: its flags and R_CONTINUATION of its codec
    dst,      \* what it has passed to the application
    tio,      \* the server's io: "open", "closing" or "closed"
    down,     \* frames to the client
    pongs,    \* pongs the client's service has seen
    cio       \* the client's io: "open" or "closed"

vars == <<wflags, made, data, pings, misused, up, have, t, dst, tio, down, pongs, cio>>

Init ==
    /\ wflags = [k \in Sinks |-> {}] /\ made = 0 /\ data = 0 /\ pings = 0 /\ misused = FALSE
    /\ up = <<>> /\ have = 0 /\ down = <<>>
    /\ t = [flags |-> {}, rcont |-> FALSE] /\ dst = <<>> /\ tio = "open"
    /\ pongs = 0 /\ cio = "open"

-----------------------------------------------------------------------------
(* Parser::write_message.  The size of what it writes before the payload,   *)
(* and what the second byte says of the length                              *)
LengthByte(len) == IF len < 126 THEN len ELSE IF len <= 65535 THEN 126 ELSE 127
Extended(b) == CASE b < 126 -> 0 [] b = 126 -> 2 [] b = 127 -> 8
Size(f) == 2 + Extended(LengthByte(f.len)) + (IF f.mask THEN 4 ELSE 0) + f.len

write_message(op, fin, mask, len, n) ==
    [op |-> op, fin |-> fin, mask |-> mask, len |-> len, n |-> n]

(* Parser::parse, on the first `bytes' bytes of frame f: what it needs, and  *)
(* in which order it looks                                                  *)
parse_metadata(f, bytes, server) ==
    LET b == LengthByte(f.len)
        idx == 2 + Extended(b) + (IF server THEN 4 ELSE 0)
    IN  IF bytes < 2 THEN "none"
        ELSE IF f.mask # server THEN "error"
        ELSE IF bytes < 2 + Extended(b) THEN "none"
        ELSE IF f.len > max_size THEN "error"
        ELSE IF bytes < idx THEN "none"
        ELSE "frame"
parseShort(f, bytes, server) ==
    LET m == parse_metadata(f, bytes, server)
        idx == 2 + Extended(LengthByte(f.len)) + (IF server THEN 4 ELSE 0)
    IN  IF m = "frame" /\ bytes <= idx + f.len THEN "none"
        ELSE IF m = "frame" /\ f.op \in {"Ping", "Pong"} /\ f.len > 125 THEN "error"
        ELSE m
parse(f, bytes, server) ==
    LET m == parse_metadata(f, bytes, server)
        idx == 2 + Extended(LengthByte(f.len)) + (IF server THEN 4 ELSE 0)
    IN  IF m = "frame" /\ bytes < idx + f.len THEN "none"
        ELSE IF m = "frame" /\ f.op \in {"Ping", "Pong"} /\ f.len > 125 THEN "error"
        ELSE m

(* Codec::decode: the item, and R_CONTINUATION after it *)
Opens(f) == ~f.fin /\ f.op \in {"Text", "Binary"}
DecodeFails(f, rcont) ==
    \/ f.op = "Continue" /\ ~rcont
    \/ Opens(f) /\ rcont
    \/ f.op = "Close" /\ ~f.fin
ContinuationKept(f, rcont) == rcont \/ Opens(f)
Continuation(f, rcont) == (rcont \/ Opens(f)) /\ ~(f.op = "Continue" /\ f.fin)

-----------------------------------------------------------------------------
(* The client.  Codec::encodev, whose errors leave nothing on the wire.      *)
Started(k) == "W_CONTINUATION" \in wflags[k]
Message(m, len, n) ==
    CASE m \in {"Text", "Binary", "Ping", "Pong", "Close"} ->
            write_message(m, TRUE, TRUE, len, n)
      [] m = "FirstText" -> write_message("Text", FALSE, TRUE, len, n)
      [] m = "FirstBinary" -> write_message("Binary", FALSE, TRUE, len, n)
      [] m = "Continue" -> write_message("Continue", FALSE, TRUE, len, n)
      [] m = "Last" -> write_message("Continue", TRUE, TRUE, len, n)

EncodeOK(k, m) ==
    /\ m \in {"FirstText", "FirstBinary"} => ~Started(k)
    /\ m \in {"Continue", "Last"} => Started(k)
FlagsAfter(k, m) ==
    CASE m \in {"FirstText", "FirstBinary"} -> wflags[k] \union {"W_CONTINUATION"}
      [] m = "Last" -> wflags[k] \ {"W_CONTINUATION"}
      [] m = "Close" -> wflags[k] \union {"CLOSED"}
      [] OTHER -> wflags[k]

Data == {"Text", "Binary", "FirstText", "FirstBinary", "Continue", "Last"}
Messages == Data \union {"Ping", "Close"}

(* What the server does not take: text, too much, and the first fragment of  *)
(* a message while another sink is in the middle of one.                    *)
Misuse(k, m, len) ==
    \/ m \in {"Text", "FirstText"}
    \/ len > max_size \/ (m = "Ping" /\ len > 125)
    \/ m = "FirstBinary" /\ \E j \in Sinks \ {k} : Started(j)

(* WsSink::send; it asks is_closed before the encoder has set the flag. *)
send(k, m, len) ==
    /\ cio = "open" /\ made < MaxFrames
    /\ EncodeOK(k, m)
    /\ made' = made + 1
    /\ data' = IF m \in Data THEN data + 1 ELSE data
    /\ pings' = IF m = "Ping" THEN pings + 1 ELSE pings
    /\ misused' = (misused \/ Misuse(k, m, len))
    /\ up' = Append(up, Message(m, len, data'))
    /\ wflags' = [wflags EXCEPT ![k] = FlagsAfter(k, m)]
    /\ cio' = IF m = "Close" /\ "CLOSED" \in wflags[k] THEN "closed" ELSE cio
    /\ UNCHANGED <<have, t, dst, tio, down, pongs>>

(* The dispatcher of WsConnection::start with a service that answers         *)
(* nothing; a frame from the server is whole when it is decoded.            *)
ClientFrame ==
    /\ cio = "open" /\ down # <<>>
    /\ parse(down[1], Size(down[1]), FALSE) = "frame"
    /\ ~DecodeFails(down[1], FALSE)
    /\ pongs' = IF down[1].op = "Pong" THEN pongs + 1 ELSE pongs
    /\ down' = Tail(down)
    /\ UNCHANGED <<wflags, made, data, pings, misused, up, have, t, dst, tio, cio>>

(* Stop(Reason::Io) *)
ClientGone ==
    /\ cio = "open" /\ down = <<>> /\ tio = "closed"
    /\ cio' = "closed"
    /\ UNCHANGED <<wflags, made, data, pings, misused, up, have, t, dst, tio, down, pongs>>

-----------------------------------------------------------------------------
(* The transport: more bytes of the first frame, up to a boundary of its      *)
(* header or just before its end.                                           *)
Cuts(f) == {1, 2, 5, 10, Size(f) - 1, Size(f)}
Arrive(n) ==
    /\ tio = "open" /\ up # <<>>
    /\ n \in Cuts(up[1]) /\ have < n /\ n <= Size(up[1])
    /\ have' = n
    /\ UNCHANGED <<wflags, made, data, pings, misused, up, t, dst, tio, down, pongs, cio>>

(* WsTransport::process_read_buf, for one frame *)
Taken == up' = Tail(up) /\ have' = 0
Fails == t' = [t EXCEPT !.flags = @ \union {"PROTO_ERR"}] /\ tio' = "closing"
PassSkipsLast(f, flags) ==
    /\ dst' = IF f.op = "Continue" /\ f.fin THEN dst ELSE Append(dst, f.n)
    /\ t' = [flags |-> flags, rcont |-> Continuation(f, t.rcont)]
    /\ UNCHANGED <<tio, down>>
Pass(f, flags) ==
    /\ dst' = Append(dst, f.n)
    /\ t' = [flags |-> flags, rcont |-> Continuation(f, t.rcont)]
    /\ UNCHANGED <<tio, down>>

ReadError ==
    /\ tio = "open" /\ up # <<>>
    /\ \/ parse(up[1], have, TRUE) = "error"
       \/ parse(up[1], have, TRUE) = "frame" /\ DecodeFails(up[1], t.rcont)
    /\ Fails
    /\ UNCHANGED <<wflags, made, data, pings, misused, up, have, dst, down, pongs, cio>>

ReadFrame ==
    /\ tio = "open" /\ up # <<>> /\ parse(up[1], have, TRUE) = "frame"
    /\ ~DecodeFails(up[1], t.rcont)
    /\ LET f == up[1] IN
        \/ f.op = "Text" /\ Fails /\ UNCHANGED <<dst, down>>
        \/ f.op = "Binary" /\ Pass(f, t.flags \union (IF f.fin THEN {} ELSE {"CONTINUATION"}))
        \/ /\ f.op = "Continue" /\ "CONTINUATION" \in t.flags
           /\ Pass(f, t.flags \ (IF f.fin THEN {"CONTINUATION"} ELSE {}))
        \/ f.op = "Ping" /\ down' = Append(down, write_message("Pong", TRUE, FALSE, f.len, 0))
           /\ UNCHANGED <<t, dst, tio>>
        \/ f.op = "Close" /\ tio' = "closing" /\ UNCHANGED <<t, dst, down>>
    /\ Taken
    /\ UNCHANGED <<wflags, made, data, pings, misused, pongs, cio>>

(* io.close, by the server's application *)
ServerClose ==
    /\ tio = "open" /\ tio' = "closing"
    /\ UNCHANGED <<wflags, made, data, pings, misused, up, have, t, dst, down, pongs, cio>>

(* WsTransport::shutdown *)
shutdown ==
    /\ tio = "closing"
    /\ IF "CLOSED" \in t.flags THEN UNCHANGED <<t, down>>
       ELSE /\ t' = [t EXCEPT !.flags = @ \union {"CLOSED"}]
            /\ down' = Append(down, write_message("Close", TRUE, FALSE, 2, 0))
    /\ tio' = "closed"
    /\ UNCHANGED <<wflags, made, data, pings, misused, up, have, dst, pongs, cio>>

Transport == up # <<>> /\ have < Size(up[1]) /\ Arrive(Size(up[1]))
Reads == ReadError \/ ReadFrame
Client == ClientFrame \/ ClientGone

Next ==
    \/ \E k \in Sinks, m \in Messages, len \in Lens : send(k, m, len)
    \/ \E n \in (IF up = <<>> THEN {} ELSE Cuts(up[1])) : Arrive(n)
    \/ Client \/ Reads \/ ServerClose \/ shutdown

Spec == Init /\ [][Next]_vars
Fairness == WF_vars(Transport) /\ WF_vars(Reads) /\ WF_vars(Client) /\ WF_vars(shutdown)
LiveSpec == Spec /\ Fairness

-----------------------------------------------------------------------------
(* The server's application reads the payloads of the client's binary        *)
(* messages, fragments included, each once and in the order of the sends,    *)
(* whatever pings come between them and however the bytes were cut.          *)
StreamIntact == dst = [k \in 1 .. Len(dst) |-> k] /\ Len(dst) <= data

(* WsTransport ends in PROTO_ERR only for what it does not support: sinks    *)
(* that send binary messages of an allowed size, one message at a time, are  *)
(* never refused, however many messages and control frames they send.        *)
NoFalseAlarm == "PROTO_ERR" \in t.flags => misused

(* Every ping is answered, unless an end has closed: the parser never waits  *)
(* for more than the writer wrote, at any boundary of the length encoding,   *)
(* and the reading loop never stalls on a frame.                             *)
PingsAnswered == []<>(pongs = pings \/ tio # "open" \/ cio # "open")
=============================================================================
