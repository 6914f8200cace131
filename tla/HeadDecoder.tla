---------------------------- MODULE HeadDecoder ----------------------------
(***************************************************************************)
(* MessageDecoder (h1/decoder.rs): how the head of a message becomes a     *)
(* Request or a ResponseHead when the transport delivers it in pieces.     *)
(*                                                                         *)
(* A head is a first line, header fields and the empty line "eof"; each is *)
(* an item of two bytes, so that a read can end between items or inside    *)
(* one.  A field is known by what set_header tells apart in it.  The       *)
(* decoder works on what has arrived, leaves an item that is not complete  *)
(* in the buffer and keeps the rest for the next call; behind a head the   *)
(* next one may already lie (a body in between is BodyTransfer's).         *)
(***************************************************************************)
EXTENDS Naturals, Sequences, FiniteSets

CONSTANTS Fields,        \* header fields the peer can send
          MaxFields,     \* fields of one head
          MaxUnread,     \* items that lie in the buffer at a time
          max_headers, max_buf_size   \* HttpServiceConfig

VARIABLES
    side,    \* the T of MessageDecoder<T>: "request" or "response"
    src,     \* the buffer: whole items not consumed
    half,    \* and one byte of the item behind them
    tail,    \* items sent of the head that is being sent
    inner,   \* Inner
    hdrs,    \* the flag is_reading_hdrs() reports
    seen,    \* the items consumed of the current head
    out      \* what the last call of decode() came to

hdvars == <<side, src, half, tail, inner, hdrs, seen, out>>

Size == 2   \* bytes of an item

(* First lines, and the fields by what they mean to set_header *)
Lines == [request |-> {"GET", "GET10", "POST", "POST10", "CONNECT", "bad line"},
          response |-> {"200", "200_10", "101", "bad line"}]
Version(line) == IF line \in {"GET10", "POST10", "200_10"} THEN 10 ELSE 11
Lengths == {"length 0", "length 5", "bad length"}
Codings == {"chunked", "identity", "bad coding"}
Conns   == {"Close", "KeepAlive", "Upgrade", "bad conn"}
Upgrades == {"websocket", "h2c"}
Name(f) ==
    CASE f \in Lengths -> "content-length" [] f \in Codings -> "transfer-encoding"
      [] f \in Conns -> "connection" [] f \in Upgrades -> "upgrade" [] OTHER -> f

(* State::default() and Inner as MessageDecoder::new() makes it; val is the  *)
(* items the message was made of, <<>> for None.                            *)
NewState == [ka |-> "none", up |-> FALSE, expect |-> FALSE, chunked |-> FALSE, te |-> FALSE,
             length |-> "none", version |-> 11]
NewInner == [st |-> NewState, val |-> <<>>, consumed |-> 0]
NoOutcome == [is |-> "none", hd |-> <<>>, val |-> <<>>, payload |-> "none", ka |-> "none",
              expect |-> FALSE]

HeadTypeOK ==
    /\ side \in {"request", "response"} /\ half \in BOOLEAN /\ hdrs \in BOOLEAN
    /\ src \in Seq(Fields \cup Lines[side] \cup {"eof"}) /\ tail \in 0 .. MaxFields + 1
    /\ inner.consumed \in Nat /\ out.is \in {"none", "pending", "ok", "error"}

HeadInit ==
    /\ side \in {"request", "response"} /\ src = <<>> /\ half = FALSE /\ tail = 0
    /\ inner = NewInner /\ hdrs = FALSE /\ seen = <<>> /\ out = NoOutcome

-----------------------------------------------------------------------------
(* The transport: a byte of an item, or the item to its end.               *)
NextItem ==
    IF tail = 0 THEN Lines[side] ELSE {"eof"} \cup (IF tail <= MaxFields THEN Fields ELSE {})
Receive ==
    /\ out.is # "error" /\ Len(src) < MaxUnread
    /\ \/ ~half /\ half' = TRUE /\ UNCHANGED <<src, tail>>
       \/ \E i \in NextItem :
            /\ src' = Append(src, i) /\ half' = FALSE
            /\ tail' = IF i = "eof" THEN 0 ELSE tail + 1
    /\ out' = NoOutcome
    /\ UNCHANGED <<side, inner, hdrs, seen>>

-----------------------------------------------------------------------------
(* MessageType::set_header: the errors, and what it notes *)
Refused(st, f) ==
    \/ f \in Lengths /\ (st.length # "none" \/ st.chunked \/ f = "bad length")
    \/ f \in Codings /\ (st.te \/ st.version = 10 \/ f = "bad coding")
    \/ f = "chunked" /\ st.length # "none"
connectionType(f) == IF f = "bad conn" THEN "none" ELSE f
noted(st, f) ==
    CASE f \in Lengths -> [st EXCEPT !.length = f]
      [] f \in Codings -> [st EXCEPT !.te = TRUE, !.chunked = f = "chunked"]
      [] f \in Conns   -> [st EXCEPT !.ka = connectionType(f)]
      [] f \in Upgrades -> [st EXCEPT !.up = TRUE,
                                      !.length = IF f = "websocket" THEN "none" ELSE @]
      [] f = "expect"  -> [st EXCEPT !.expect = TRUE]
      [] OTHER -> st

(* MessageDecoder::decode_headers on buffer s *)
names(in) == {Name(in.val[k]) : k \in 2 .. Len(in.val)}
RECURSIVE decode_headers(_, _)
decode_headers(s, in) ==
    CASE s = <<>> -> [is |-> "pending", src |-> s, inner |-> in]
      [] s # <<>> /\ Head(s) = "eof" -> [is |-> "ok", src |-> Tail(s), inner |-> in]
      [] s # <<>> /\ Head(s) # "eof" ->
            IF Head(s) = "bad field" \/ Cardinality(names(in)) >= max_headers \/ Refused(in.st, Head(s))
            THEN [is |-> "error", src |-> s, inner |-> in]
            ELSE decode_headers(Tail(s), [in EXCEPT !.st = noted(@, Head(s)), !.val = Append(@, Head(s))])

(* State::payload_length; set_payload_length refuses an HTTP/1.0 POST with   *)
(* none and then takes a length of zero for none.                           *)
lengthOf(st) ==
    CASE st.chunked -> "chunked"
      [] ~st.chunked /\ st.length # "none" -> st.length
      [] OTHER -> IF st.up THEN "upgrade" ELSE "none"
NoLength(in) == in.val[1] = "POST10" /\ lengthOf(in.st) = "none"
Framing(in) ==
    LET length == IF lengthOf(in.st) = "length 0" THEN "none" ELSE lengthOf(in.st)
        line == in.val[1]
    IN  CASE length \in {"chunked", "length 5"} -> length
          [] line = "101" \/ (line = "CONNECT" /\ length = "none") -> "stream"
          [] line = "200_10" /\ length \in {"none", "upgrade"} -> "eof"
          [] length = "upgrade" /\ side = "request" -> "stream"
          [] OTHER -> "none"
(* The message: a response of HTTP/1.0 that ends with its connection closes  *)
(* it, and only a request can expect.                                       *)
Framed(in) ==
    [is |-> "ok", hd |-> <<>>, val |-> in.val, payload |-> Framing(in),
     ka |-> IF Framing(in) = "eof" THEN "Close" ELSE in.st.ka,
     expect |-> in.st.expect /\ side = "request"]

(* Request::decode and ResponseHead::decode: the first line.  The version is *)
(* noted in the state.                                                      *)
first(in, line) == [in EXCEPT !.val = <<line>>, !.st.version = Version(line)]

(* How much of the buffer counts against max_buf_size: a head is too large   *)
(* with all that was consumed of it before; behind a complete one the buffer *)
(* belongs to the next message.                                             *)
bufSize(in, len, left, is) ==
    CASE is = "ok" -> in.consumed + len - left
      [] is = "pending" -> in.consumed + len
      [] is = "error" -> 0

(* The state kept for the next call; the first form counts this call only.   *)
keptOfCall(r, len, left) ==
    IF r.is = "ok" THEN NewInner ELSE [r.inner EXCEPT !.consumed = len - left]
kept(r, len, left) ==
    IF r.is = "ok" THEN NewInner
    ELSE [r.inner EXCEPT !.consumed = @ + len - left]

(* MessageDecoder::decode; hd is the head as far as it has arrived.  After an *)
(* error the decoder is not called again, whatever is left in it.            *)
BytesOf(s) == Size * Len(s) + (IF half THEN 1 ELSE 0)
Result ==
    IF inner.val # <<>> THEN decode_headers(src, inner)
    ELSE IF src = <<>> THEN [is |-> "pending", src |-> src, inner |-> inner]
    ELSE IF Head(src) = "bad line" THEN [is |-> "error", src |-> src, inner |-> inner]
    ELSE decode_headers(Tail(src), first(inner, Head(src)))
Fails(r) ==
    \/ r.is = "error" \/ (r.is = "ok" /\ NoLength(r.inner))
    \/ bufSize(inner, BytesOf(src), BytesOf(r.src), r.is) >= max_buf_size
Arrived ==
    LET ends == {k \in DOMAIN src : src[k] = "eof"}
    IN  seen \o (IF ends = {} THEN src ELSE SubSeq(src, 1, CHOOSE k \in ends : \A l \in ends : k <= l))
Decode ==
    /\ out.is # "error"
    /\ LET r == Result
           is == IF Fails(r) THEN "error" ELSE r.is
       IN  /\ src' = r.src
           /\ inner' = IF is = "error" THEN NewInner ELSE kept(r, BytesOf(src), BytesOf(r.src))
           /\ hdrs' = (is # "ok" /\ (hdrs \/ BytesOf(src) > 0))
           /\ seen' = IF is = "ok" THEN <<>> ELSE seen \o SubSeq(src, 1, Len(src) - Len(r.src))
           /\ out' = [IF is = "ok" THEN Framed(r.inner) ELSE NoOutcome EXCEPT !.is = is, !.hd = Arrived]
    /\ UNCHANGED <<side, half, tail>>

(* A connection that failed is closed and the next has a codec of its own. *)
Reconnect ==
    /\ out.is = "error"
    /\ src' = <<>> /\ half' = FALSE /\ tail' = 0
    /\ inner' = NewInner /\ hdrs' = FALSE /\ seen' = <<>> /\ out' = NoOutcome
    /\ UNCHANGED side

HeadNext == Receive \/ Decode \/ Reconnect
HeadSpec == HeadInit /\ [][HeadNext]_hdvars

-----------------------------------------------------------------------------
(* A head h, as far as it has arrived, judged as a whole.                  *)

Positions(h) == {j \in 2 .. Len(h) : h[j] # "eof"}
InForce(h, i, j) == h[i] \in Lengths /\ \A k \in i + 1 .. j - 1 : h[k] # "websocket"
BadField(h, j) ==
    \/ h[j] \in {"bad field", "bad length", "bad coding"}
    \/ h[j] \in Codings /\ (Version(h[1]) = 10 \/ \E i \in 2 .. j - 1 : h[i] \in Codings)
    \/ h[j] \in Lengths \cup {"chunked"} /\ \E i \in 2 .. j - 1 : InForce(h, i, j)
    \/ h[j] \in Lengths /\ \E i \in 2 .. j - 1 : h[i] = "chunked"
    \/ Cardinality({Name(h[i]) : i \in 2 .. j - 1}) >= max_headers
Complete(h) == h # <<>> /\ h[Len(h)] = "eof"
LengthsOf(h) == {h[i] : i \in {i \in Positions(h) : InForce(h, i, Len(h))}}
Has(h, fs) == \E i \in Positions(h) : h[i] \in fs
BadHead(h) ==
    \/ Size * Len(h) + (IF half /\ ~Complete(h) THEN 1 ELSE 0) >= max_buf_size
    \/ h # <<>> /\ h[1] = "bad line"
    \/ \E j \in Positions(h) : BadField(h, j)
    \/ Complete(h) /\ h[1] = "POST10" /\ LengthsOf(h) = {} /\ ~Has(h, Upgrades)
PayloadOf(h) ==
    CASE Has(h, {"chunked"}) -> "chunked"
      [] "length 5" \in LengthsOf(h) -> "length 5"
      [] OTHER -> CASE h[1] \in {"CONNECT", "101"} -> "stream"
                    [] h[1] = "200_10" -> "eof"
                    [] OTHER -> IF side = "request" /\ Has(h, Upgrades) /\ LengthsOf(h) = {}
                                THEN "stream" ELSE "none"
(* What the message says of the connection: the last Connection header.    *)
LastConn(h) ==
    LET at == {i \in Positions(h) : h[i] \in Conns}
    IN  IF at = {} THEN "none"
        ELSE connectionType(h[CHOOSE i \in at : \A k \in at : k <= i])

(* However the transport cuts a head, and whatever lies behind it or came    *)
(* before it on the connection, MessageDecoder::decode accepts it, refuses   *)
(* it or waits exactly as if the head had been judged in one piece; an       *)
(* accepted message has the headers that were sent, in their order, with the *)
(* payload and the connection type they ask for; and is_reading_hdrs(), from *)
(* which the dispatcher starts the header timer, is set exactly while part   *)
(* of a head has been read.                                                 *)
HeadsDecoded ==
    /\ HeadTypeOK
    /\ out.is # "none" =>
        LET h == out.hd
        IN  /\ out.is = (IF BadHead(h) THEN "error" ELSE IF Complete(h) THEN "ok" ELSE "pending")
            /\ out.is # "error" => (hdrs <=> (out.is = "pending" /\ (h # <<>> \/ half)))
            /\ out.is = "ok" =>
                /\ out.val = SubSeq(h, 1, Len(h) - 1)
                /\ out.payload = PayloadOf(h)
                /\ out.ka = IF out.payload = "eof" THEN "Close" ELSE LastConn(h)
                /\ out.expect = (side = "request" /\ Has(h, {"expect"}))

=============================================================================
