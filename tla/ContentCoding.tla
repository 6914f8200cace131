---------------------------- MODULE ContentCoding ---------------------------
(***************************************************************************)
(* The way of a response body through content encodings: Encoder           *)
(* (encoding/encoder.rs) on the server, Decoder (encoding/decoder.rs) as   *)
(* client/sender.rs puts it in front of the payload, and the reader that   *)
(* collects a response (MessageBody and ReadBody of client/response.rs).   *)
(*                                                                         *)
(* Encoder and Decoder lend their codec to a thread of the blocking pool   *)
(* when a chunk is large and work in place when it is small.  A chunk is   *)
(* its number n with a mark z that it is compressed; the end that a        *)
(* compressor appends has number 0.  Lengths are counted in chunks.        *)
(***************************************************************************)
EXTENDS Naturals, Sequences

CONSTANTS MaxChunks,  \* bound: chunks of a body
          Limits      \* payload limits, 0 for none

ASSUME CodingAssumption == MaxChunks \in Nat /\ Limits \subseteq Nat

Encodings == {"Auto", "Br", "Deflate", "Gzip", "Identity"}

VARIABLES
    conf,      \* encoding the server asks for, the response and the client
    given,     \* chunks the body has given
    failed,    \* the body has failed
    enc,       \* Encoder: inner is Some, eof, fut, and what the codec holds
    coded,     \* chunks on their way
    sent,      \* the stream of chunks: "open", "end" or "failed"
    decoder,   \* Decoder
    collector, \* the reader: "new", "reading", or how it has ended
    buf        \* ReadBody::buf

cvars == <<conf, given, failed, enc, coded, sent, decoder, collector, buf>>

Part(n, z) == [n |-> n, z |-> z]
Numbers(k, z) == [n \in 1 .. k |-> Part(n, z)]

(* Encoder::response: whether the body is encoded; the response may have a   *)
(* Content-Encoding of its own (own).                                       *)
can_encode(c) ==
    /\ c.encoding \in {"Deflate", "Gzip"}
    /\ c.own = "none" /\ c.status \notin {101, 204} /\ c.body \notin {"None", "Empty"}

(* The header that goes out, and Decoder::from_headers *)
ContentEncodingHeader(c) == IF can_encode(c) THEN c.encoding ELSE c.own
from_headers(c) == c.decompress /\ ContentEncodingHeader(c) \in {"Deflate", "Gzip"}

(* MessageBody::new: the content-length, where there is one *)
ContentLength(c) == IF can_encode(c) \/ c.body = "Stream" THEN 0 ELSE c.total

Codec(inner) == [inner |-> inner, eof |-> FALSE, fut |-> "none", held |-> <<>>]

Configurations ==
    {c \in [encoding : Encodings, own : {"none", "Br", "Gzip"}, status : {200, 204},
            body : {"None", "Empty", "Bytes", "Sized", "Stream"}, total : 0 .. MaxChunks,
            decompress : BOOLEAN, limit : Limits] :
        /\ c.body \in {"None", "Empty"} => c.total = 0
        /\ c.body = "Bytes" => c.total <= 1
        /\ c.status = 204 => c.body = "None"}

CodingInit ==
    /\ conf \in Configurations
    /\ given = 0 /\ failed = FALSE /\ coded = <<>> /\ sent = "open"
    /\ enc = Codec(can_encode(conf)) /\ decoder = Codec(from_headers(conf))
    /\ collector = "new" /\ buf = <<>>

-----------------------------------------------------------------------------
(* Encoder::poll_next_chunk, one turn of its loop at a time; the dispatcher  *)
(* polls until the end and not after an error.                              *)
Emit(chunks) == coded' = coded \o chunks

(* ContentEncoder::take: what the compressor has put out, the oldest first *)
Taken(held) == {SubSeq(held, 1, k) : k \in 0 .. Len(held)}
Left(held, chunks) == SubSeq(held, Len(chunks) + 1, Len(held))

(* ContentEncoder::finish *)
finish(held) == Append(held, Part(0, TRUE))

(* The body has a chunk; one with a Content-Encoding is compressed already. *)
EncodeChunk(large) ==
    LET c == Part(given + 1, conf.own # "none")
        held == Append(enc.held, Part(given + 1, TRUE))
    IN  /\ sent = "open" /\ enc.fut = "none" /\ ~enc.eof /\ ~failed /\ given < conf.total
        /\ given' = given + 1
        /\ \/ ~enc.inner /\ ~large /\ Emit(<<c>>) /\ UNCHANGED enc
           \/ /\ enc.inner /\ ~large
              /\ \E chunks \in Taken(held) :
                    Emit(chunks) /\ enc' = [enc EXCEPT !.held = Left(held, chunks)]
           \/ /\ enc.inner /\ large
              /\ enc' = [enc EXCEPT !.inner = FALSE, !.fut = "running", !.held = held]
              /\ UNCHANGED coded
        /\ UNCHANGED <<conf, failed, sent, decoder, collector, buf>>

(* self.fut is ready: the codec comes back, or the thread was canceled. *)
EncodeFut ==
    /\ sent = "open" /\ enc.fut \in {"done", "canceled"}
    /\ \/ /\ enc.fut = "done"
          /\ \E chunks \in Taken(enc.held) :
                /\ Emit(chunks)
                /\ enc' = [enc EXCEPT !.inner = TRUE, !.fut = "none", !.held = Left(@, chunks)]
          /\ UNCHANGED sent
       \/ enc.fut = "canceled" /\ sent' = "failed" /\ UNCHANGED <<enc, coded>>
    /\ UNCHANGED <<conf, given, failed, decoder, collector, buf>>

(* The body ends: what is left comes out, and then the end. *)
EncodeEnd ==
    /\ sent = "open" /\ enc.fut = "none" /\ ~failed
    /\ \/ /\ ~enc.eof /\ enc.inner /\ given = conf.total
          /\ Emit(finish(enc.held))
          /\ enc' = [enc EXCEPT !.inner = FALSE, !.eof = TRUE, !.held = <<>>]
          /\ UNCHANGED sent
       \/ /\ enc.eof \/ (~enc.inner /\ given = conf.total)
          /\ sent' = "end" /\ UNCHANGED <<enc, coded>>
    /\ UNCHANGED <<conf, given, failed, decoder, collector, buf>>

(* The body fails, and the connection with it. *)
SourceFails ==
    /\ ~failed /\ given < conf.total /\ conf.body \in {"Sized", "Stream"}
    /\ failed' = TRUE
    /\ UNCHANGED <<conf, given, enc, coded, sent, decoder, collector, buf>>
EncodeError ==
    /\ sent = "open" /\ enc.fut = "none" /\ ~enc.eof /\ failed
    /\ sent' = "failed"
    /\ UNCHANGED <<conf, given, failed, enc, coded, decoder, collector, buf>>

(* The thread of spawn_blocking, for either end *)
Blocking ==
    /\ \E r \in {"done", "canceled"} :
        \/ enc.fut = "running" /\ enc' = [enc EXCEPT !.fut = r] /\ UNCHANGED decoder
        \/ decoder.fut = "running" /\ decoder' = [decoder EXCEPT !.fut = r] /\ UNCHANGED enc
    /\ UNCHANGED <<conf, given, failed, coded, sent, collector, buf>>

-----------------------------------------------------------------------------
(* MessageBody::poll for the first time *)
Overflows(n) == conf.limit > 0 /\ n > conf.limit
StartReading ==
    /\ collector = "new"
    /\ collector' = IF Overflows(ContentLength(conf)) THEN "overflow" ELSE "reading"
    /\ UNCHANGED <<conf, given, failed, enc, coded, sent, decoder, buf>>

(* ReadBody::poll on a chunk; an empty one is not given (feed_data's None). *)
ReadEach(chunks) ==
    IF Overflows(Len(chunks)) THEN collector' = "overflow" /\ UNCHANGED buf
    ELSE buf' = buf \o chunks /\ UNCHANGED collector
Read(chunks) ==
    IF Overflows(Len(buf) + Len(chunks)) THEN collector' = "overflow" /\ UNCHANGED buf
    ELSE buf' = buf \o chunks /\ UNCHANGED collector

(* ContentDecoder::feed_data; with the flush that follows, all that the      *)
(* chunks hold, and nothing for the end, which is the last there is.  Chunks *)
(* that are not compressed are an error.                                    *)
Corrupt(chunks) == \E k \in DOMAIN chunks : ~chunks[k].z
Plain(chunks) ==
    LET n == Len(chunks) - (IF chunks[Len(chunks)].n = 0 THEN 1 ELSE 0)
    IN  [k \in 1 .. n |-> Part(chunks[k].n, FALSE)]
Feed(chunks) ==
    IF Corrupt(chunks) THEN collector' = "error" /\ UNCHANGED buf ELSE Read(Plain(chunks))

(* Decoder::poll_next: a piece of the stream, of any size *)
DecodePiece(k, large) ==
    LET chunks == SubSeq(coded, 1, k) IN
    /\ collector = "reading" /\ decoder.fut = "none" /\ ~decoder.eof
    /\ k \in 1 .. Len(coded)
    /\ coded' = SubSeq(coded, k + 1, Len(coded))
    /\ \/ ~decoder.inner /\ ~large /\ Read(chunks) /\ UNCHANGED decoder
       \/ decoder.inner /\ ~large /\ Feed(chunks) /\ UNCHANGED decoder
       \/ /\ decoder.inner /\ large
          /\ decoder' = [decoder EXCEPT !.inner = FALSE, !.fut = "running", !.held = chunks]
          /\ UNCHANGED <<collector, buf>>
    /\ UNCHANGED <<conf, given, failed, enc, sent>>

DecodeFut ==
    /\ collector = "reading" /\ decoder.fut \in {"done", "canceled"}
    /\ \/ /\ decoder.fut = "done" /\ Feed(decoder.held)
          /\ decoder' = [decoder EXCEPT !.inner = TRUE, !.fut = "none", !.held = <<>>]
       \/ decoder.fut = "canceled" /\ collector' = "error" /\ UNCHANGED <<decoder, buf>>
    /\ UNCHANGED <<conf, given, failed, enc, coded, sent>>

(* feed_eof has nothing left after the flush. *)
DecodeEnd ==
    /\ collector = "reading" /\ decoder.fut = "none" /\ coded = <<>> /\ sent # "open"
    /\ decoder' = [decoder EXCEPT !.eof = (sent = "end"), !.inner = (@ /\ sent # "end")]
    /\ collector' = IF sent = "end" THEN "ok" ELSE "error"
    /\ UNCHANGED <<conf, given, failed, enc, coded, sent, buf>>

(* ReadBody's deadline counts only while the stream is pending. *)
Pending == decoder.fut = "running" \/ (decoder.fut = "none" /\ coded = <<>> /\ sent = "open")
Timeout ==
    /\ collector = "reading" /\ Pending
    /\ collector' = "timeout"
    /\ UNCHANGED <<conf, given, failed, enc, coded, sent, decoder, buf>>

Encode == EncodeFut \/ EncodeEnd \/ EncodeError \/ \E large \in BOOLEAN : EncodeChunk(large)
Decode ==
    \/ StartReading \/ DecodeFut \/ DecodeEnd
    \/ \E k \in 1 .. Len(coded), large \in BOOLEAN : DecodePiece(k, large)

CodingNext == Encode \/ SourceFails \/ Blocking \/ Decode \/ Timeout

CodingSpec == CodingInit /\ [][CodingNext]_cvars

-----------------------------------------------------------------------------
(* What the reader should get: the chunks of the body, compressed only if    *)
(* they are and nobody was to undo it.                                      *)
Wanted ==
    IF from_headers(conf) THEN Numbers(conf.total, FALSE)
    ELSE IF can_encode(conf) THEN Append(Numbers(conf.total, TRUE), Part(0, TRUE))
    ELSE Numbers(conf.total, conf.own # "none")

(* The reader of a response collects exactly the body the application gave,  *)
(* in its order, whichever chunks were coded in place and whichever on       *)
(* another thread; it is refused as too large only if it is, and never       *)
(* taken for complete after an error of the body or of the coding.           *)
RoundTrip ==
    /\ buf = SubSeq(Wanted, 1, Len(buf))
    /\ collector = "ok" => buf = Wanted /\ ~failed
    /\ collector \in {"ok", "overflow"} => (collector = "overflow") = Overflows(Len(Wanted))

(* A reader is never left waiting: codecs come back from the other thread    *)
(* and every end is passed on.                                              *)
Collected == collector = "reading" ~> collector # "reading"
=============================================================================
