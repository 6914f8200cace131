----------------------------- MODULE H1Exchange -----------------------------
(***************************************************************************)
(* Exchanges between the client of this crate (client/h1proto.rs with      *)
(* ClientCodec) and its server (h1::Codec under the dispatcher) on one     *)
(* connection: what each end writes into a head, what the other makes of   *)
(* it, and whether the two agree on where the body ends and on what        *)
(* becomes of the connection.                                              *)
(*                                                                         *)
(* A message on the wire is a record of its version, the header that       *)
(* frames it (hdr), its Connection header (conn) and te, the encoding of   *)
(* the body that really follows; the bytes are module BodyTransfer's.      *)
(***************************************************************************)
EXTENDS Naturals

CONSTANTS Requests,   \* requests the application makes
          Responses   \* responses the service returns

VARIABLES
    ka,      \* HttpServiceConfig::ka_enabled
    client,  \* "idle" (in the pool), "waiting", "body", "gone" or "upgraded"
    cc,      \* ClientCodec: ctype, the HEAD flag, the payload decoder
    req,     \* the request last sent
    server,  \* where the dispatcher is with it
    sc,      \* h1::Codec: version, ctype, the HEAD and STREAM flags
    res      \* the response last sent

vars == <<ka, client, cc, req, server, sc, res>>

(* ConnectionType, if any, and BodySize *)
Connections == {"Close", "KeepAlive", "Upgrade", "none"}
Sizes == {"none", "empty", "sized", "stream"}

ASSUME HeadsAssumption ==
    /\ \A r \in Requests : r.version \in {10, 11} /\ r.conn \in Connections /\ r.size \in Sizes
    /\ \A r \in Responses : r.conn \in Connections /\ r.size \in Sizes /\ r.chunked \in BOOLEAN

(* RequestHead::connection_type; 10 and 11 are HTTP/1.0 and HTTP/1.1. *)
connection_type(conn, version) ==
    IF conn # "none" THEN conn ELSE IF version = 10 THEN "Close" ELSE "KeepAlive"

-----------------------------------------------------------------------------
(* h1/encoder.rs, for either end. *)

(* MessageEncoder::encode: the encoding of the body *)
TransferEncoding(head, stream, size, chunked) ==
    CASE head \/ size \in {"none", "empty"} -> "empty"
      [] ~head /\ size = "sized" -> "length"
      [] ~head /\ size = "stream" -> IF chunked /\ ~stream THEN "chunked" ELSE "eof"

(* MessageType::encode_headers: the header that frames it *)
Bodiless == {100, 102, 204}
LengthHeader(status, size, chunked) ==
    LET length == CASE status \in Bodiless -> "none" [] status = 101 -> "stream" [] OTHER -> size
    IN  CASE length = "none" -> "none"
          [] length = "empty" -> "zero"
          [] length = "sized" -> "length"
          [] length = "stream" -> IF chunked THEN "chunked" ELSE "none"

(* and the Connection header *)
ConnectionHeaderSilent(ctype, version) ==
    IF ctype = "Upgrade" \/ (ctype = "KeepAlive" /\ version = 10) THEN ctype ELSE "none"
ConnectionHeader(ctype, version) ==
    CASE ctype = "Upgrade" -> "Upgrade"
      [] ctype = "KeepAlive" /\ version = 10 -> "KeepAlive"
      [] ctype = "Close" /\ version = 11 -> "Close"
      [] OTHER -> "none"

-----------------------------------------------------------------------------
(* h1/decoder.rs, for either end.                                          *)

(* set_header refuses a Transfer-Encoding of HTTP/1.0. *)
HeaderError(m) == m.hdr = "chunked" /\ m.version = 10

(* State::payload_length, with a length of zero taken for none; an upgrade   *)
(* to a websocket voids it                                                  *)
payload_length(m) ==
    CASE m.hdr \in {"chunked", "length"} -> m.hdr
      [] m.hdr = "zero" /\ ~m.upgrade -> "none"
      [] m.hdr \in {"none", "zero"} /\ m.upgrade -> "upgrade"
      [] m.hdr = "none" /\ ~m.upgrade -> "none"

(* Request::set_payload_length *)
RequestError(m) ==
    \/ HeaderError(m)
    \/ m.version = 10 /\ m.method = "POST" /\ m.hdr = "none" /\ ~m.upgrade
RequestPayload(m) ==
    LET length == payload_length(m)
    IN  IF length = "upgrade" \/ (length = "none" /\ m.method = "CONNECT") THEN "stream" ELSE length
(* RequestHead::upgrade: set_upgrade, or the Connection header *)
IsUpgrade(m) == RequestPayload(m) = "stream" \/ m.conn = "Upgrade"

(* ResponseHead::set_payload_length *)
ToEof(m) == payload_length(m) \in {"none", "upgrade"} /\ m.status # 101 /\ m.version = 10
ResponsePayload(m) ==
    LET length == payload_length(m)
    IN  CASE length \in {"chunked", "length"} -> length
          [] length \in {"none", "upgrade"} /\ m.status = 101 -> "eof"
          [] ToEof(m) -> "eof"
          [] OTHER -> "none"
ResponseConn(m) == IF ToEof(m) THEN "Close" ELSE m.conn

-----------------------------------------------------------------------------
(* Nothing sent yet. *)
NoRequest == [sent |-> FALSE, method |-> "GET", version |-> 11, hdr |-> "none",
              conn |-> "none", upgrade |-> FALSE, te |-> "empty"]
NoResponse == [sent |-> FALSE, status |-> 200, version |-> 11, hdr |-> "none",
               conn |-> "none", upgrade |-> FALSE, te |-> "empty", refusal |-> FALSE]

(* ClientCodec::new and Codec::new *)
Init ==
    /\ ka \in BOOLEAN
    /\ client = "idle" /\ server = "read"
    /\ cc = [ctype |-> "Close", head |-> FALSE, payload |-> "none"]
    /\ sc = [version |-> 11, ctype |-> "KeepAlive", head |-> FALSE, stream |-> FALSE]
    /\ req = NoRequest /\ res = NoResponse

-----------------------------------------------------------------------------
(* The client.  ClientCodec::encodev on a new ClientCodec; send_request     *)
(* always enables keep-alive.                                               *)
SendRequest(r) ==
    /\ client = "idle"
    /\ LET ctype == connection_type(r.conn, r.version) IN
        /\ cc' = [ctype |-> ctype, head |-> r.method = "HEAD", payload |-> "none"]
        /\ req' = [sent |-> TRUE, method |-> r.method, version |-> r.version,
                   hdr |-> LengthHeader(0, r.size, TRUE),
                   conn |-> ConnectionHeader(ctype, r.version), upgrade |-> r.upgrade,
                   te |-> TransferEncoding(FALSE, FALSE, r.size, TRUE)]
    /\ client' = "waiting"
    /\ res' = NoResponse
    /\ UNCHANGED <<ka, server, sc>>

(* release_connection, once nothing of the response is outstanding *)
Release(ctype) == client' = IF ctype = "KeepAlive" THEN "idle" ELSE "gone"

(* ClientCodec::decode, and what send_request_inner makes of it *)
RecvResponse ==
    /\ client = "waiting" /\ res.sent /\ ~HeaderError(res)
    /\ LET conn == ResponseConn(res)
           ctype == IF conn \in {"none", "KeepAlive"} THEN cc.ctype ELSE conn
           payload == IF cc.head THEN "none" ELSE ResponsePayload(res)
       IN  /\ cc' = [cc EXCEPT !.ctype = ctype, !.payload = payload]
           /\ IF res.status = 101 THEN client' = "upgraded"
              ELSE IF payload = "none" THEN Release(ctype)
              ELSE client' = "body"
    /\ UNCHANGED <<ka, req, server, sc, res>>

RecvError ==
    /\ client = "waiting" /\ res.sent /\ HeaderError(res)
    /\ client' = "gone"
    /\ UNCHANGED <<ka, cc, req, server, sc, res>>

(* The connection ends before the response: ConnectError::Disconnected *)
Closed == server \in {"closing", "timedout"}
Disconnected ==
    /\ client = "waiting" /\ ~res.sent /\ Closed
    /\ client' = "gone"
    /\ UNCHANGED <<ka, cc, req, server, sc, res>>

(* PlStream: a delimited body ends with its last byte, another one with    *)
(* the connection, and so does one whose bytes do not come.                *)
ReadBody ==
    /\ client = "body"
    /\ IF cc.payload = res.te /\ cc.payload # "eof" THEN Release(cc.ctype)
       ELSE Closed /\ client' = "gone"
    /\ UNCHANGED <<ka, cc, req, server, sc, res>>

-----------------------------------------------------------------------------
(* The server.  Codec::decode *)
DecodedSticky(m) ==
    LET ctype == connection_type(m.conn, m.version)
    IN  [version |-> m.version, head |-> sc.head \/ m.method = "HEAD",
         ctype |-> IF ctype = "KeepAlive" /\ ~ka THEN "Close" ELSE ctype,
         stream |-> sc.stream \/ RequestPayload(m) = "stream"]
Decoded(m) ==
    LET ctype == connection_type(m.conn, m.version)
    IN  [version |-> m.version, head |-> m.method = "HEAD",
         ctype |-> IF ctype = "KeepAlive" /\ ~ka THEN "Close" ELSE ctype,
         stream |-> sc.stream \/ RequestPayload(m) = "stream"]

(* poll_read_request, and NewRequest::ack, which sends an upgrade to        *)
(* ctl_upgrade and so to Codec::reset_upgrade                               *)
ReadRequest ==
    /\ server = "read" /\ req.sent
    /\ IF RequestError(req) THEN server' = "refused" /\ UNCHANGED sc
       ELSE IF IsUpgrade(req)
            THEN /\ server' = "upgrading"
                 /\ sc' = [Decoded(req) EXCEPT !.stream = FALSE, !.ctype = "Close"]
            ELSE server' = "called" /\ sc' = Decoded(req)
    /\ req' = [req EXCEPT !.sent = FALSE]
    /\ UNCHANGED <<ka, client, cc, res>>

(* Codec::encodev for a response of the service or of the control service   *)
Encode(r, conn, refusal) ==
    LET ctype == IF conn \in {"none", "KeepAlive"} THEN sc.ctype ELSE conn
    IN  /\ sc' = [sc EXCEPT !.ctype = ctype]
        /\ res' = [sent |-> TRUE, status |-> r.status, version |-> sc.version,
                   hdr |-> LengthHeader(r.status, r.size, r.chunked),
                   conn |-> ConnectionHeader(ctype, sc.version), upgrade |-> r.status = 101,
                   te |-> TransferEncoding(sc.head, sc.stream, r.size, r.chunked),
                   refusal |-> refusal]

(* update_hdrs_timer with nothing left to read: the next request, or close *)
AfterResponseOpen(ctype) == server' = "read"
AfterResponse(ctype) == server' = IF ctype = "KeepAlive" THEN "read" ELSE "closing"

(* send_response; it adds Close if the request's body was not taken. *)
Respond(r, taken) ==
    /\ server = "called" /\ r.status # 101
    /\ taken \/ RequestPayload(req) # "none"
    /\ Encode(r, IF taken THEN r.conn ELSE "Close", FALSE)
    /\ AfterResponse(sc'.ctype)
    /\ UNCHANGED <<ka, client, cc, req>>

(* A malformed request: the response of ctl_proto_err, and Stop *)
Refuse ==
    /\ server = "refused"
    /\ Encode([status |-> 400, size |-> "sized", chunked |-> TRUE], "none", TRUE)
    /\ server' = "closing"
    /\ UNCHANGED <<ka, client, cc, req>>

(* UpgradeAck and UpgradeFailed answer and disconnect; UpgradeHandled, after *)
(* the handler has sent its 101 with the codec it was given                 *)
RespondUpgrade(r) ==
    /\ server = "upgrading"
    /\ Encode(r, r.conn, FALSE)
    /\ server' = IF r.status = 101 THEN "handed" ELSE "closing"
    /\ UNCHANGED <<ka, client, cc, req>>

(* The keep-alive timer *)
KeepAliveTimeout ==
    /\ server = "read" /\ ~req.sent /\ ka /\ res.sent
    /\ server' = "timedout"
    /\ UNCHANGED <<ka, client, cc, req, sc, res>>

ClientStep == RecvResponse \/ RecvError \/ Disconnected \/ ReadBody
ServerStep ==
    \/ ReadRequest \/ Refuse
    \/ \E r \in Responses : RespondUpgrade(r) \/ \E taken \in BOOLEAN : Respond(r, taken)

Next == (\E r \in Requests : SendRequest(r)) \/ ClientStep \/ ServerStep \/ KeepAliveTimeout

Spec == Init /\ [][Next]_vars

(* The service answers, both ends go on, and timers fire. *)
Fairness == WF_vars(ClientStep) /\ WF_vars(ServerStep) /\ WF_vars(KeepAliveTimeout)
LiveSpec == Spec /\ Fairness

-----------------------------------------------------------------------------
(* The heads the code frames soundly.  Not among them: a chunked body in a  *)
(* message of HTTP/1.0, which the encoder writes and the decoder refuses; a *)
(* stream of HTTP/1.1 that is not chunked, which the client takes for empty;*)
(* a body under status 100, 102 or 204, which is written without a length;  *)
(* the refusal of a request that was not decoded, under the flags of the    *)
(* one before; and the framing of a 101, after which there is no HTTP.      *)
Framable(m) ==
    /\ ~(m.hdr = "chunked" /\ m.version = 10)
    /\ ~(m.te = "eof" /\ m.version = 11)
    /\ ~(m.te # "empty" /\ m.hdr = "none" /\ m.version = 11)
FramableResponse(m) ==
    Framable(m) /\ ~m.refusal /\ m.status # 101 /\ ~(m.status \in Bodiless /\ m.te # "empty")

(* What is read is what was written. *)
SameBody(payload, te) ==
    \/ payload = te
    \/ payload \in {"none", "stream", "eof"} /\ te = "empty"

(* The end that reads a message takes it for neither longer nor shorter     *)
(* than the end that wrote it: for every method, status, version and body,  *)
(* the decoder chosen from the headers fits the encoder chosen beside them, *)
(* with what the two codecs remember of the exchanges before.               *)
FramingAgrees ==
    /\ req.sent /\ Framable(req) /\ ~RequestError(req) => SameBody(RequestPayload(req), req.te)
    /\ (client = "waiting" /\ res.sent /\ FramableResponse(res)) =>
            ~HeaderError(res) /\ SameBody(IF cc.head THEN "none" ELSE ResponsePayload(res), res.te)

(* The client puts a connection back into its pool only if the server means *)
(* to keep it: after an exchange of HTTP/1.1 with a request the server      *)
(* could read, an idle connection is not one the server is closing.         *)
KeepAliveAgrees ==
    client = "idle" /\ server = "closing" => res.version = 10 \/ res.refusal

(* No exchange hangs: whatever the two codecs make of the heads, a request  *)
(* comes to a response with its body, or to an error.                       *)
Completes == client \in {"waiting", "body"} ~> client \in {"idle", "gone", "upgraded"}
=============================================================================
