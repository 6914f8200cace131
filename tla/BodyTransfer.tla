---------------------------- MODULE BodyTransfer ----------------------------
(***************************************************************************)
(* One message body on its way: a body stream that the server dispatcher   *)
(* (poll_send_payload) or the client (send_body) encodes with              *)
(* TransferEncoding (h1/encoder.rs), a transport that delivers it in any   *)
(* pieces, and PlStream (client/h1proto.rs), which decodes it with         *)
(* PayloadDecoder (h1/decoder.rs) and then releases the connection.        *)
(*                                                                         *)
(* A byte is a record: a byte of the body with its position, a digit of a  *)
(* chunk size, CR, LF, or "more", a byte of the message that follows.      *)
(***************************************************************************)
EXTENDS Integers, Sequences

CONSTANTS Sizes,    \* lengths of the pieces the body stream yields
          Lengths,  \* values of Content-Length
          MaxBody   \* bound: bytes the body stream yields

ASSUME BodyAssumption == Sizes \subseteq Nat /\ Lengths \subseteq Nat /\ MaxBody \in Nat

VARIABLES
    te,        \* TransferEncoding: its kind, Length's count and Chunked's flag
    made,      \* bytes the body stream has yielded
    writer,    \* "body", "done" (after encode_eof) or "failed"
    wire,      \* sent and not received
    peer,      \* the sender's end: "open", "closed" (FIN) or "lost" (reset)
    dec,       \* PayloadDecoder: its kind, state and count
    src,       \* received and not decoded
    got,       \* the bytes PlStream has yielded
    reader,    \* "reading", or how PlStream ended
    http_10,   \* the response is HTTP/1.0
    keepalive, \* ClientPayloadCodec::keepalive
    conn       \* the reader's connection: "held", "pooled" or "dropped"

writing == <<te, made, writer>>
reading == <<dec, src, got, reader, conn>>
fixed == <<http_10, keepalive>>
vars == <<writing, wire, peer, reading, fixed>>

Byte(t, v) == [t |-> t, v |-> v]
CR == Byte("cr", 0)
LF == Byte("lf", 0)
Bytes(t, i, n) == [k \in 1 .. n |-> Byte(t, i + k)]

Kinds == {"Chunked", "Length", "Eof"}
ByteTypes == {"hex", "cr", "lf", "data", "more"}
Items == {"chunk", "eof", "none", "error", "state"}
ChunkedStates == {"Size", "Body", "BodyCr", "BodyLf", "EndCr", "EndLf", "End"}
Alphabet == [t : ByteTypes, v : Nat]
Decoders == [kind : Kinds, st : ChunkedStates, rem : Nat]
Outcomes == [dec : Decoders, src : Seq(Alphabet), item : Items, chunk : Seq(Alphabet)]

TypeOK ==
    /\ te \in [kind : Kinds, rem : Nat, eof : BOOLEAN]
    /\ made \in 0 .. MaxBody /\ writer \in {"body", "done", "failed"}
    /\ \A b \in {wire[k] : k \in DOMAIN wire} \union {src[k] : k \in DOMAIN src} :
            b.t \in ByteTypes
    /\ peer \in {"open", "closed", "lost"}
    /\ dec \in Decoders
    /\ \A k \in DOMAIN got : got[k].t \in {"data", "more"}
    /\ reader \in {"reading", "end", "decode", "incomplete"}
    /\ http_10 \in BOOLEAN /\ keepalive \in BOOLEAN
    /\ conn \in {"held", "pooled", "dropped"}

(* The two ends agree on the framing (module H1Exchange); a body that ends   *)
(* with the connection is never kept alive.                                 *)
Init ==
    /\ \E k \in Kinds, n \in Lengths :
        /\ te = [kind |-> k, rem |-> IF k = "Length" THEN n ELSE 0, eof |-> FALSE]
        /\ dec = [kind |-> k, st |-> "Size", rem |-> IF k = "Length" THEN n ELSE 0]
    /\ http_10 \in (IF te.kind = "Chunked" THEN {FALSE} ELSE BOOLEAN)
    /\ keepalive \in (IF te.kind = "Eof" THEN {FALSE} ELSE BOOLEAN)
    /\ made = 0 /\ writer = "body" /\ wire = <<>> /\ peer = "open"
    /\ src = <<>> /\ got = <<>> /\ reader = "reading" /\ conn = "held"

-----------------------------------------------------------------------------
(* TransferEncoding::encode for n bytes of the body. *)
Least(a, b) == IF a <= b THEN a ELSE b

EncodeChunked(n) ==
    IF te.eof THEN <<>>
    ELSE IF n = 0 THEN <<Byte("hex", 0), CR, LF, CR, LF>>
    ELSE <<Byte("hex", n), CR, LF>> \o Bytes("data", made, n) \o <<CR, LF>>

encode(n) ==
    CASE te.kind = "Eof" ->
            wire' = wire \o Bytes("data", made, n) /\ UNCHANGED te
      [] te.kind = "Chunked" ->
            /\ wire' = wire \o EncodeChunked(n)
            /\ te' = [te EXCEPT !.eof = @ \/ n = 0]
      [] te.kind = "Length" ->
            /\ wire' = wire \o Bytes("data", made, Least(te.rem, n))
            /\ te' = [te EXCEPT !.rem = @ - Least(@, n)]

(* TransferEncoding::encode_eof *)
encode_eof ==
    /\ te.kind = "Length" => te.rem = 0
    /\ te' = [te EXCEPT !.eof = te.kind = "Chunked"]
    /\ wire' = wire \o (IF te.kind = "Chunked" THEN EncodeChunked(0) ELSE <<>>)

(* BodyStream::poll_next_chunk passes over empty pieces; poll_send_payload  *)
(* and send_body encode the others.                                         *)
poll_next_chunk_any(n) == n >= 0
poll_next_chunk(n) == n > 0
Chunk(n) ==
    /\ writer = "body" /\ peer = "open" /\ made + n <= MaxBody
    /\ poll_next_chunk(n)
    /\ made' = made + n
    /\ encode(n)
    /\ UNCHANGED <<writer, peer, reading, fixed>>

BodyDone ==
    /\ writer = "body" /\ peer = "open"
    /\ encode_eof
    /\ writer' = "done"
    /\ UNCHANGED <<made, peer, reading, fixed>>

(* The body stream fails, or ends before its length: ctl_proto_err, whose   *)
(* ack writes an error response behind what has been written.  The client's  *)
(* send_body gives its connection up instead: that is Close.                *)
BodyFails ==
    /\ writer = "body" /\ peer = "open"
    /\ writer' = "failed"
    /\ wire' = wire \o Bytes("more", 0, 2)
    /\ UNCHANGED <<te, made, peer, reading, fixed>>

(* The bytes of another message may follow. *)
Follow ==
    /\ writer = "done" /\ peer = "open" /\ te.kind # "Eof"
    /\ \A k \in DOMAIN (src \o wire) : (src \o wire)[k].t # "more"
    /\ wire' = wire \o Bytes("more", 0, 1)
    /\ UNCHANGED <<writing, peer, reading, fixed>>

-----------------------------------------------------------------------------
(* The transport. *)
Close == peer = "open" /\ peer' = "closed" /\ UNCHANGED <<writing, wire, reading, fixed>>

Lose == peer # "lost" /\ peer' = "lost" /\ wire' = <<>> /\ UNCHANGED <<writing, reading, fixed>>

Receive(k) ==
    /\ reader = "reading"
    /\ src' = src \o SubSeq(wire, 1, k)
    /\ wire' = SubSeq(wire, k + 1, Len(wire))
    /\ UNCHANGED <<writing, peer, dec, got, reader, conn, fixed>>

-----------------------------------------------------------------------------
(* PayloadDecoder::decode.  A result is the decoder and the buffer after    *)
(* the call, and the item: a chunk, "eof", nothing yet, or an error.        *)
Rest(s, n) == SubSeq(s, n + 1, Len(s))
Result(d, s, item, chunk) == [dec |-> d, src |-> s, item |-> item, chunk |-> chunk]

(* Up to d.rem bytes of the buffer. *)
Piece(d, s, st) ==
    LET n == Least(d.rem, Len(s))
    IN  Result([d EXCEPT !.rem = @ - n, !.st = IF d.rem = n THEN st ELSE @],
               Rest(s, n), "chunk", SubSeq(s, 1, n))

(* httparse::parse_chunk_size (external): a line, or a part of one *)
SizeLine(s) ==
    IF s # <<>> /\ s[1].t # "hex" THEN "bad"
    ELSE IF Len(s) < 3 THEN "partial"
    ELSE IF s[2] = CR /\ s[3] = LF THEN "line" ELSE "bad"

(* One byte of the line ends. *)
Expected == [BodyCr |-> CR, BodyLf |-> LF, EndCr |-> CR, EndLf |-> LF]
After == [BodyCr |-> "BodyLf", BodyLf |-> "Size", EndCr |-> "EndLf", EndLf |-> "End"]

(* ChunkedState::step: "state" is a step that yields nothing. *)
step(d, s) ==
    CASE d.st = "Size" ->
            (CASE SizeLine(s) = "partial" -> Result(d, s, "none", <<>>)
               [] SizeLine(s) = "bad" -> Result(d, s, "error", <<>>)
               [] SizeLine(s) = "line" ->
                    Result([d EXCEPT !.rem = s[1].v, !.st = IF s[1].v > 0 THEN "Body" ELSE "EndCr"],
                           Rest(s, 3), "state", <<>>))
      [] d.st = "Body" ->
            IF s = <<>> THEN Result(d, s, "state", <<>>) ELSE Piece(d, s, "BodyCr")
      [] d.st \in DOMAIN After ->
            IF s = <<>> THEN Result(d, s, "none", <<>>)
            ELSE IF s[1] = Expected[d.st]
                 THEN Result([d EXCEPT !.st = After[d.st]], Rest(s, 1), "state", <<>>)
                 ELSE Result(d, Rest(s, 1), "error", <<>>)
      [] d.st = "End" -> Result(d, s, "state", <<>>)

(* The loop of decode: it ends with the body, an item, or the buffer.  It    *)
(* turns at most five times after the first step: from the CR behind a chunk *)
(* over BodyLf, Size, EndCr and EndLf to the end.                            *)
Turn[r \in Outcomes] ==
    IF r.item # "state" THEN r
    ELSE IF r.dec.st = "End" THEN [r EXCEPT !.item = "eof"]
    ELSE IF r.src = <<>> THEN [r EXCEPT !.item = "none"]
    ELSE step(r.dec, r.src)
Run(r) == Turn[Turn[Turn[Turn[Turn[r]]]]]

decode(d, s) ==
    CASE d.kind = "Length" ->
            IF d.rem = 0 THEN Result(d, s, "eof", <<>>)
            ELSE IF s = <<>> THEN Result(d, s, "none", <<>>)
            ELSE Piece(d, s, d.st)
      [] d.kind = "Chunked" -> Run(step(d, s))
      [] d.kind = "Eof" ->
            IF s = <<>> THEN Result(d, s, "none", <<>>) ELSE Result(d, <<>>, "chunk", s)

(* release_connection; the transport's state is known once it is received. *)
Gone == peer # "open" /\ wire = <<>>
release_connection(s) ==
    conn' = IF ~keepalive \/ Gone \/ s # <<>> THEN "dropped" ELSE "pooled"

(* PlStream::poll_next *)
poll_next ==
    /\ reader = "reading"
    /\ \E r \in {decode(dec, src)} :
        /\ dec' = r.dec /\ src' = r.src
        /\ got' = got \o r.chunk
        /\ \/ r.item = "chunk" /\ UNCHANGED <<reader, conn>>
           \/ r.item = "eof" /\ reader' = "end" /\ release_connection(r.src)
           \/ r.item = "error" /\ reader' = "decode" /\ conn' = "dropped"
           \/ r.item = "none" /\ ~Gone /\ UNCHANGED <<reader, conn>>
           \/ /\ r.item = "none" /\ Gone
              /\ reader' = IF peer = "closed" /\ http_10 THEN "end" ELSE "incomplete"
              /\ conn' = "dropped"
    /\ UNCHANGED <<writing, wire, peer, fixed>>

Next ==
    \/ \E n \in Sizes : Chunk(n)
    \/ BodyDone \/ BodyFails \/ Follow
    \/ Close \/ Lose
    \/ \E k \in 1 .. Len(wire) : Receive(k)
    \/ poll_next

Spec == Init /\ [][Next]_vars

(* Sent bytes arrive, and the consumer of PlStream polls it to its end. *)
Fairness == WF_vars(\E k \in 1 .. Len(wire) : Receive(k)) /\ WF_vars(poll_next)
LiveSpec == Spec /\ Fairness
-----------------------------------------------------------------------------
(* A body whose failure cannot be told from its bytes: the error response   *)
(* that BodyFails appends is read as a part of it.                          *)
Blurred == writer = "failed" /\ te.kind # "Chunked"

(* What the reader has is what the writer's stream yielded, in order, from  *)
(* the first byte on, however TransferEncoding framed it and the transport  *)
(* cut it; PayloadDecoder takes no framing byte and nothing of the next     *)
(* message for the body.  The stream ends without an error only behind the  *)
(* last byte of a finished body (HTTP/1.0 ends with the connection), with   *)
(* nothing of the body left where the next response would be read; and      *)
(* PlStream gives its connection back to the pool only then, when no byte   *)
(* of the body can still arrive.                                            *)
Whole == IF te.kind = "Length" THEN te.rem = 0 ELSE writer = "done"
Intact ==
    /\ TypeOK
    /\ ~Blurred =>
        /\ got = Bytes("data", 0, Len(got)) /\ Len(got) <= made
        /\ reader = "end" /\ ~http_10 =>
            /\ Whole
            /\ te.kind = "Length" \/ Len(got) = made
            /\ \A k \in DOMAIN (src \o wire) : (src \o wire)[k].t = "more"
        /\ conn = "pooled" => /\ reader = "end" /\ src = <<>> /\ Whole
                              /\ \A k \in DOMAIN wire : wire[k].t = "more"

(* Once a delimited body has been written to its end, PlStream comes to an  *)
(* end whether or not the sender ever closes: the decoder never waits for a *)
(* byte that the encoder does not write.                                    *)
BodyEnds == (writer = "done" /\ te.kind # "Eof") ~> reader # "reading"
=============================================================================
