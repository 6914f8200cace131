---------------------------- MODULE H1Dispatcher ----------------------------
(***************************************************************************)
(* The HTTP/1 server dispatcher (geario-http/src/h1/dispatcher.rs) with    *)
(* the parts of the codec (h1/codec.rs) and of the control messages        *)
(* (h1/control.rs) it is driven by, for one connection.                    *)
(*                                                                         *)
(* A step of the dispatcher is one turn of the loop in Dispatcher::poll.   *)
(* The peer, the application (publish service, response body, holder of    *)
(* the request payload), the control service, the io timer and the server  *)
(* shutdown are its environment and step in between.                       *)
(*                                                                         *)
(* Bytes are abstracted to items: a request head, a part of one, a piece   *)
(* of a body, the end of a body, and bytes that do not parse.  How decoders *)
(* cut the byte stream into these items is not the subject here.           *)
(***************************************************************************)
EXTENDS Naturals, Sequences, FiniteSets

CONSTANTS MaxReq,     \* bound: request heads the peer sends
          MaxBuf,     \* bound: items received and not decoded
          Heads,      \* the request heads the peer may send
          KaEnabled,  \* HttpServiceConfig::ka_enabled
          HdrsRate,   \* headers_read_rate is set
          PlRate,     \* payload_read_rate is set
          KeepPayload \* the application may hold on to the payload of a
                      \* request after the response to it is complete

ASSUME DispatcherAssumption ==
    /\ MaxReq \in Nat /\ MaxBuf \in Nat
    /\ Heads \subseteq [body : {"none", "sized", "stream"}, expect : BOOLEAN, close : BOOLEAN]
    /\ KaEnabled \in BOOLEAN /\ HdrsRate \in BOOLEAN /\ PlRate \in BOOLEAN
    /\ KeepPayload \in BOOLEAN

VARIABLES
    st,          \* State
    ctl,         \* the control message of State::CallControl
    flags,       \* Flags: "SENT" is DISCONNECT_SENT, "KA", "HDRS", "PL"
    disconnect,  \* DispatcherInner::disconnect, or "none"
    payload,     \* DispatcherInner::payload is Some
    ctype,       \* Codec::ctype
    reading,     \* MessageDecoder::hdrs
    head,        \* the head of the current request
    inbuf,       \* received and not decoded
    closed,      \* Io::is_closed
    timer,       \* the io timer: "off" or what it was started for
    fired,       \* expiry of the timer not yet seen: "no" or its purpose
    rx,          \* the payload receiver: "ready", "full", "error", "dropped"
    shutdown,    \* DispatcherConfig::is_shutdown
    peer,        \* what the peer is in the middle of sending
    sent,        \* request heads the peer has sent
    unread,      \* the body of the last request is not decoded to its end
    broken,      \* MessageDecoder has returned an error
    resp         \* the response to each request begun (a head was decoded, or
                 \* there is an error to report): "none", "open" (head
                 \* written) or "done"

inner == <<st, ctl, flags, disconnect, payload, ctype, reading, head>>
io == <<inbuf, closed, timer, fired>>
env == <<rx, shutdown, peer, sent>>
ghost == <<unread, broken, resp>>
vars == <<inner, io, env, ghost>>

NoHead == [body |-> "none", expect |-> FALSE, close |-> FALSE]
Item(t, h) == [t |-> t, h |-> h]
Items == {Item("head", h) : h \in Heads}
           \union {Item(t, NoHead) : t \in {"part", "data", "last", "bad"}}
Reasons == {"Shutdown", "UpgradeHandled", "UpgradeFailed", "ExpectFailed", "PayloadDropped"}
Disconnects == {"svc", "err", "proto", "gone", "ka"}

TypeOK ==
    /\ st \in {"CallPublish", "CallControl", "ReadRequest", "ReadPayload",
               "SendPayload", "Stop", "Done"}
    /\ ctl \in {"none", "request", "expect", "upgrade"} \union Disconnects
    /\ flags \subseteq {"SENT", "KA", "HDRS", "PL"}
    /\ disconnect \in Reasons \union {"none"}
    /\ payload \in BOOLEAN
    /\ ctype \in {"KeepAlive", "Close", "Upgrade"}
    /\ reading \in BOOLEAN
    /\ head \in Heads \union {NoHead}
    /\ inbuf \in Seq(Items)
    /\ closed \in BOOLEAN
    /\ timer \in {"off", "HDRS", "KA", "PL"}
    /\ fired \in {"no", "HDRS", "KA", "PL"}
    /\ rx \in {"ready", "full", "error", "dropped"}
    /\ shutdown \in BOOLEAN
    /\ peer \in {"head", "part", "sized", "piece", "stream", "over"}
    /\ sent \in 0 .. MaxReq
    /\ unread \in BOOLEAN
    /\ broken \in BOOLEAN
    /\ resp \in Seq({"none", "open", "done"})

(* Dispatcher::new starts the header timer. *)
Init ==
    /\ st = "ReadRequest" /\ ctl = "none" /\ disconnect = "none" /\ payload = FALSE
    /\ flags = IF HdrsRate THEN {"HDRS"} ELSE {}
    /\ timer = IF HdrsRate THEN "HDRS" ELSE "off"
    /\ fired = "no"
    /\ ctype = "KeepAlive" /\ reading = FALSE /\ head = NoHead
    /\ inbuf = <<>> /\ closed = FALSE /\ rx = "dropped" /\ shutdown = FALSE
    /\ peer = "head" /\ sent = 0
    /\ unread = FALSE /\ broken = FALSE /\ resp = <<>>

-----------------------------------------------------------------------------
(* What a poll of the request payload or of the transport may change; the  *)
(* functions of the dispatcher pass it on as they go.                      *)
Same == [res |-> "pending", payload |-> payload, rx |-> rx, inbuf |-> inbuf,
         unread |-> unread, flags |-> flags, disconnect |-> disconnect,
         timer |-> timer, fired |-> fired]

Take(o) == payload' = o.payload /\ rx' = o.rx /\ inbuf' = o.inbuf /\ unread' = o.unread
Goto(s, c, o) ==
    /\ st' = s /\ ctl' = c
    /\ flags' = o.flags /\ disconnect' = o.disconnect
    /\ timer' = o.timer /\ fired' = o.fired

(* publish, control, and the states that need no call *)
Proceed(s, c, o) == Goto(s, c, o)

(* ctl_keepalive, ctl_error, ctl_proto_err, ctl_peer_gone: the flag is set *)
(* and the message goes out whatever was sent before.                      *)
Disconnect(c, o) ==
    Goto("CallControl", c, [o EXCEPT !.flags = @ \union {"SENT"}])

(* stop *)
Halt(o) == Proceed("Stop", "none", [o EXCEPT !.timer = "off", !.fired = "no"])

(* check_disconnect, when there is something to disconnect for *)
MustDisconnect(o) == "SENT" \in o.flags \/ o.disconnect # "none"
CheckDisconnect(o) ==
    IF "SENT" \in o.flags THEN Halt(o)
    ELSE Disconnect("svc", [o EXCEPT !.disconnect = "none"])

(* ctl_svc_disconnect *)
SvcDisconnect(o) == IF "SENT" \in o.flags THEN Halt(o) ELSE Disconnect("svc", o)

(* The response is complete: stop, drain the request body, or go on. *)
NextRequestEager(o) ==
    IF MustDisconnect(o) THEN CheckDisconnect(o) ELSE Proceed("ReadRequest", "none", o)
NextRequest(o) ==
    IF MustDisconnect(o) THEN CheckDisconnect(o)
    ELSE Proceed(IF o.payload THEN "ReadPayload" ELSE "ReadRequest", "none", o)

-----------------------------------------------------------------------------
(* send_response: rc is the connection type the response asks for, long    *)
(* that it has a body to stream.  Codec::encodev keeps the type, the head  *)
(* itself always encodes.                                                  *)
ResponseType(rc) ==
    IF payload /\ rx = "dropped" THEN "Close" ELSE IF rc = "none" THEN ctype ELSE rc

send_response_hasty(rc, long, o) ==
    /\ ctype' = ResponseType(rc)
    /\ resp' = [resp EXCEPT ![Len(resp)] = IF long THEN "open" ELSE "done"]
    /\ NextRequest(o)
    /\ Take(o)
send_response(rc, long, o) ==
    /\ \/ /\ closed
          /\ Disconnect("gone", o)
          /\ UNCHANGED <<ctype, resp>>
       \/ /\ ~closed
          /\ ctype' = ResponseType(rc)
          /\ resp' = [resp EXCEPT ![Len(resp)] = IF long THEN "open" ELSE "done"]
          /\ IF long THEN Proceed("SendPayload", "none", o) ELSE NextRequest(o)
    /\ Take(o)

-----------------------------------------------------------------------------
(* Io::poll_recv_decode (external): what is buffered is decoded first; only *)
(* when that yields nothing are a closed transport and the timer reported.  *)
Nothing == inbuf = <<>>
Front(t) == inbuf # <<>> /\ inbuf[1].t = t

(* update_payload_timer *)
PayloadTimer(o) ==
    IF PlRate /\ "PL" \notin o.flags
    THEN [o EXCEPT !.flags = @ \union {"PL"}, !.timer = "PL", !.fired = "no"]
    ELSE o

(* handle_timeout.  Whether a body came fast enough is left open here; for  *)
(* a head it never has (see ReadTimer).                                     *)
HandleTimeout ==
    LET seen == [Same EXCEPT !.fired = "no"]
        slow == [seen EXCEPT !.res = "proto",
                             !.rx = IF payload /\ "PL" \in flags THEN "error" ELSE @]
    IN  CASE "HDRS" \in flags -> {slow}
          [] "HDRS" \notin flags /\ "PL" \in flags -> {slow, [seen EXCEPT !.timer = "PL"]}
          [] OTHER -> {seen}

(* poll_request_payload_inner, one turn of its loop. *)
PayloadReady ==
    CASE Front("data") ->
            {PayloadTimer([Same EXCEPT !.res = "ok", !.inbuf = Tail(@), !.rx = r]) :
                r \in {"ready", "full"}}
      [] Front("last") ->
            LET o == PayloadTimer([Same EXCEPT !.res = "ok", !.inbuf = Tail(@)])
            IN  {[o EXCEPT !.flags = @ \ {"PL"}, !.payload = FALSE, !.unread = FALSE]}
      [] Nothing /\ closed -> {[Same EXCEPT !.res = "gone", !.rx = "error"]}
      [] Nothing /\ ~closed /\ fired # "no" -> HandleTimeout
      [] Nothing /\ ~closed /\ fired = "no" -> {PayloadTimer(Same)}
      [] OTHER -> {[Same EXCEPT !.res = "proto", !.rx = "error"]}

PayloadFullFlagged == [Same EXCEPT !.timer = "off", !.fired = "no"]
PayloadFull ==
    IF "PL" \in flags
    THEN [Same EXCEPT !.flags = @ \ {"PL"}, !.timer = "off", !.fired = "no"]
    ELSE Same

PayloadGone == [Same EXCEPT !.payload = FALSE, !.disconnect = "PayloadDropped"]

PayloadPoll ==
    CASE ~payload -> {[Same EXCEPT !.res = "ok"]}
      [] payload /\ rx = "ready" -> PayloadReady
      [] payload /\ rx = "full" -> {PayloadFull}
      [] payload /\ rx \in {"error", "dropped"} -> {PayloadGone}

Failed(o) == o.res \in {"proto", "gone"}

-----------------------------------------------------------------------------
(* State::ReadRequest.  Its check_disconnect never finds anything: every     *)
(* way into the state has just made the same check.  A state in which it    *)
(* did would be a deadlock here.                                            *)
CanRead == st = "ReadRequest" /\ ~MustDisconnect(Same) /\ ~shutdown

ReadShutdown ==
    /\ st = "ReadRequest" /\ ~MustDisconnect(Same) /\ shutdown
    /\ SvcDisconnect(Same)
    /\ UNCHANGED <<payload, rx, inbuf, unread, ctype, reading, head, closed, shutdown,
                   peer, sent, broken, resp>>

(* Codec::decode and the head of poll_read_request *)
ConnectionType(h) ==
    CASE h.close \/ (h.body # "stream" /\ ~KaEnabled) -> "Close"
      [] ~h.close /\ h.body = "stream" -> "Upgrade"
      [] OTHER -> "KeepAlive"

ReadHead ==
    /\ CanRead /\ Front("head")
    /\ LET h == inbuf[1].h
           o == [Same EXCEPT !.inbuf = Tail(@), !.flags = @ \ {"KA", "HDRS", "PL"},
                             !.payload = (h.body # "none"), !.unread = (h.body # "none"),
                             !.rx = IF h.body = "none" THEN @ ELSE "ready"]
       IN  /\ head' = h
           /\ ctype' = ConnectionType(h)
           /\ Take(o)
           /\ Proceed("CallControl", "request", o)
    /\ resp' = Append(resp, "none")
    /\ reading' = FALSE
    /\ UNCHANGED <<closed, shutdown, peer, sent, broken>>

(* Bytes that are no head, body bytes taken for a head included. *)
ReadMalformedUnmarked ==
    /\ CanRead /\ ~Nothing /\ ~Front("head") /\ ~Front("part")
    /\ broken' = TRUE
    /\ resp' = Append(resp, "none")
    /\ Proceed("CallControl", "proto", Same)
    /\ UNCHANGED <<payload, rx, inbuf, unread, ctype, reading, head, closed, shutdown,
                   peer, sent>>
ReadMalformed ==
    /\ CanRead /\ ~Nothing /\ ~Front("head") /\ ~Front("part")
    /\ broken' = TRUE
    /\ resp' = Append(resp, "none")
    /\ Disconnect("proto", Same)
    /\ UNCHANGED <<payload, rx, inbuf, unread, ctype, reading, head, closed, shutdown,
                   peer, sent>>

(* update_hdrs_timer for an incomplete head *)
ReadPart ==
    /\ CanRead /\ Front("part")
    /\ LET o == [Same EXCEPT !.inbuf = Tail(@)] IN
        /\ Take(o)
        /\ IF "HDRS" \notin flags /\ HdrsRate
           THEN Proceed(st, ctl, [o EXCEPT !.flags = (@ \ {"KA", "PL"}) \union {"HDRS"},
                                           !.timer = "HDRS", !.fired = "no"])
           ELSE Proceed(st, ctl, o)
    /\ reading' = TRUE
    /\ UNCHANGED <<ctype, head, closed, shutdown, peer, sent, broken, resp>>

(* update_hdrs_timer when there is nothing to read: the keep-alive timer,  *)
(* or the end of a connection that is not kept alive.                      *)
ReadIdle ==
    /\ CanRead /\ Nothing /\ ~closed /\ fired = "no"
    /\ "HDRS" \notin flags /\ ~reading
    /\ \/ /\ ctype = "KeepAlive" /\ "KA" \notin flags /\ KaEnabled
          /\ Proceed(st, ctl, [Same EXCEPT !.flags = @ \union {"KA"}, !.timer = "KA"])
          /\ UNCHANGED closed
       \/ /\ ctype # "KeepAlive"
          /\ closed' = TRUE
          /\ Disconnect("ka", Same)
    /\ UNCHANGED <<payload, rx, inbuf, unread, ctype, reading, head, shutdown, peer, sent,
                   broken, resp>>

ReadGone ==
    /\ CanRead /\ Nothing /\ closed
    /\ Disconnect("gone", Same)
    /\ UNCHANGED <<payload, rx, inbuf, unread, ctype, reading, head, closed, shutdown,
                   peer, sent, broken, resp>>

ReadTimeout ==
    /\ CanRead /\ Nothing /\ ~closed /\ fired # "no"
    /\ \/ /\ "HDRS" \in flags
          /\ \E o \in HandleTimeout : Disconnect("proto", o) /\ Take(o)
          /\ resp' = Append(resp, "none")
       \/ /\ "HDRS" \notin flags
          /\ Disconnect("ka", [Same EXCEPT !.fired = "no"]) /\ Take(Same)
          /\ UNCHANGED resp
    /\ UNCHANGED <<ctype, reading, head, closed, shutdown, peer, sent, broken>>

ReadRequest ==
    \/ ReadShutdown \/ ReadHead \/ ReadMalformed
    \/ ReadPart \/ ReadIdle \/ ReadGone \/ ReadTimeout

-----------------------------------------------------------------------------
(* State::ReadPayload, after the response.  check_disconnect comes after   *)
(* the poll and sees the flag the poll has just set: the control call it   *)
(* made is never polled.  A poll that has fed a piece of the body leaves   *)
(* for State::ReadRequest, whether the body is complete or not.  Unless    *)
(* KeepPayload, whoever answered the request has dropped its payload by    *)
(* the time the dispatcher gets here.                                      *)
ReadPayload ==
    /\ st = "ReadPayload"
    /\ KeepPayload \/ rx = "dropped"
    /\ \E o \in PayloadPoll :
        LET p == IF Failed(o) THEN [o EXCEPT !.flags = @ \union {"SENT"}] ELSE o IN
        /\ Take(p)
        /\ \/ MustDisconnect(p) /\ CheckDisconnect(p)
           \/ ~MustDisconnect(p) /\ p.res = "ok" /\ Proceed("ReadRequest", "none", p)
           \/ ~MustDisconnect(p) /\ p.res = "pending" /\ Proceed(st, ctl, p)
    /\ UNCHANGED <<ctype, reading, head, closed, shutdown, peer, sent, broken, resp>>

-----------------------------------------------------------------------------
(* State::CallPublish: the service answers, fails, or is still running and *)
(* poll_request looks at the transport (the future is then spawned or      *)
(* dropped when the state changes).                                        *)
ResponseTypes == {"none", "Close", "Upgrade"}

PublishDone ==
    /\ st = "CallPublish"
    /\ \E rc \in ResponseTypes, long \in BOOLEAN : send_response(rc, long, Same)
    /\ UNCHANGED <<reading, head, closed, shutdown, peer, sent, broken>>

PublishFailed ==
    /\ st = "CallPublish"
    /\ Disconnect("err", Same)
    /\ UNCHANGED <<payload, rx, inbuf, unread, ctype, reading, head, closed, shutdown,
                   peer, sent, broken, resp>>

PublishPendingDeaf ==
    /\ st = "CallPublish" /\ payload
    /\ \E o \in PayloadPoll :
          /\ Take(o)
          /\ IF Failed(o) THEN Disconnect(o.res, o) ELSE Proceed(st, ctl, o)
    /\ UNCHANGED <<ctype, reading, head, closed, shutdown, peer, sent, broken, resp>>
PublishPending ==
    /\ st = "CallPublish"
    /\ \/ /\ payload
          /\ \E o \in PayloadPoll :
                /\ Take(o)
                /\ IF Failed(o) THEN Disconnect(o.res, o) ELSE Proceed(st, ctl, o)
       \/ /\ ~payload
          /\ \/ closed /\ Disconnect("gone", Same)
             \/ ~closed /\ fired # "no" /\ Proceed(st, ctl, [Same EXCEPT !.fired = "no"])
          /\ Take(Same)
    /\ UNCHANGED <<ctype, reading, head, closed, shutdown, peer, sent, broken, resp>>

-----------------------------------------------------------------------------
(* State::CallControl: the control service acks the message, fails it with *)
(* a response, or fails itself.                                            *)
Upgrade == head.body = "stream"

(* ctl_upgrade, with Codec::reset_upgrade *)
CtlUpgrade == Proceed("CallControl", "upgrade", Same) /\ ctype' = "Close"
Publish(o) == Proceed("CallPublish", "none", o) /\ UNCHANGED ctype

AckRequest ==
    /\ ctl = "request"
    /\ \/ head.expect /\ Proceed("CallControl", "expect", Same) /\ UNCHANGED ctype
       \/ ~head.expect /\ Upgrade /\ CtlUpgrade
       \/ ~head.expect /\ ~Upgrade /\ Publish(Same)
    /\ Take(Same) /\ UNCHANGED resp

(* ControlResult::Continue writes "100 Continue" first. *)
AckExpect ==
    /\ ctl = "expect"
    /\ \/ closed /\ Disconnect("gone", Same) /\ UNCHANGED ctype
       \/ ~closed /\ Upgrade /\ CtlUpgrade
       \/ ~closed /\ ~Upgrade /\ Publish(Same)
    /\ Take(Same) /\ UNCHANGED resp

AckUpgrade ==
    /\ ctl = "upgrade"
    /\ \/ Publish([Same EXCEPT !.disconnect = "UpgradeHandled"])
       \/ SvcDisconnect(Same) /\ UNCHANGED ctype      \* Upgrade::handle
    /\ Take(Same) /\ UNCHANGED resp

Respond ==
    \E rc \in ResponseTypes, long \in BOOLEAN :
        \/ ctl \in {"request", "err", "proto"} /\ send_response(rc, long, Same)
        \/ /\ ctl = "expect"
           /\ send_response(rc, long, [Same EXCEPT !.disconnect = "ExpectFailed"])
        \/ /\ ctl = "upgrade"
           /\ send_response(rc, long, [Same EXCEPT !.disconnect = "UpgradeFailed"])

AckDisconnect ==
    /\ ctl \in {"svc", "gone", "ka"}
    /\ Halt(Same) /\ Take(Same)
    /\ UNCHANGED <<ctype, resp>>

ControlFailed == Proceed("Done", "none", Same) /\ Take(Same) /\ UNCHANGED <<ctype, resp>>

ControlDone ==
    /\ st = "CallControl"
    /\ AckRequest \/ AckExpect \/ AckUpgrade \/ Respond \/ AckDisconnect \/ ControlFailed
    /\ UNCHANGED <<reading, head, closed, shutdown, peer, sent, broken>>

(* While the call is pending the request payload is polled and the result  *)
(* of that is ignored.                                                     *)
ControlPending ==
    /\ st = "CallControl"
    /\ \E o \in PayloadPoll : Take(o) /\ Proceed(st, ctl, o)
    /\ UNCHANGED <<ctype, reading, head, closed, shutdown, peer, sent, broken, resp>>

-----------------------------------------------------------------------------
(* State::SendPayload: one look at the request payload, whose failure only *)
(* records PayloadDropped, then the response body goes on, ends, or fails  *)
(* (the stream fails, or it ends before its declared length).              *)
SendPoll ==
    IF disconnect # "none" THEN {Same}
    ELSE {IF Failed(o)
          THEN [o EXCEPT !.flags = @ \union {"SENT"}, !.disconnect = "PayloadDropped"]
          ELSE o : o \in PayloadPoll}

SendPayload ==
    /\ st = "SendPayload"
    /\ \/ closed /\ Disconnect("gone", Same) /\ Take(Same) /\ UNCHANGED resp
       \/ /\ ~closed
          /\ \E o \in SendPoll :
                /\ Take(o)
                /\ \/ Proceed(st, ctl, o) /\ UNCHANGED resp
                   \/ NextRequest(o) /\ resp' = [resp EXCEPT ![Len(resp)] = "done"]
                   \/ Disconnect("proto", o) /\ UNCHANGED resp
    /\ UNCHANGED <<ctype, reading, head, closed, shutdown, peer, sent, broken>>

(* State::Stop: Io::poll_shutdown *)
Stop ==
    /\ st = "Stop"
    /\ Proceed("Done", "none", Same)
    /\ closed' = TRUE
    /\ UNCHANGED <<payload, rx, inbuf, unread, ctype, reading, head, shutdown, peer, sent,
                   broken, resp>>

-----------------------------------------------------------------------------
(* The environment. *)
Deliver(t, h, p) ==
    /\ inbuf' = Append(inbuf, Item(t, h))
    /\ peer' = p

PeerSend ==
    /\ ~closed /\ Len(inbuf) < MaxBuf
    /\ \/ /\ peer \in {"head", "part"} /\ sent < MaxReq
          /\ sent' = sent + 1
          /\ \E h \in Heads : Deliver("head", h, IF h.body = "none" THEN "head" ELSE h.body)
       \/ /\ UNCHANGED sent
          /\ \/ peer = "head" /\ sent < MaxReq /\ Deliver("part", NoHead, "part")
             \/ peer = "sized" /\ Deliver("data", NoHead, "piece")
             \/ peer \in {"sized", "piece"} /\ Deliver("last", NoHead, "head")
             \/ peer = "stream" /\ Deliver("data", NoHead, "over")
             \/ peer \in {"head", "part", "sized"} /\ Deliver("bad", NoHead, "over")
    /\ UNCHANGED <<inner, closed, timer, fired, rx, shutdown, ghost>>

PeerClose ==
    /\ ~closed /\ closed' = TRUE
    /\ UNCHANGED <<inner, inbuf, timer, fired, env, ghost>>

TimerFires ==
    /\ timer # "off" /\ st # "Done"
    /\ fired' = timer /\ timer' = "off"
    /\ UNCHANGED <<inner, inbuf, closed, env, ghost>>

(* The holder of the payload reads it or drops it. *)
AppReads ==
    /\ payload /\ rx = "full" /\ rx' = "ready"
    /\ UNCHANGED <<inner, io, shutdown, peer, sent, ghost>>

AppDrops ==
    /\ payload /\ rx # "dropped" /\ rx' = "dropped"
    /\ UNCHANGED <<inner, io, shutdown, peer, sent, ghost>>

BeginShutdown ==
    /\ ~shutdown /\ shutdown' = TRUE
    /\ UNCHANGED <<inner, io, rx, peer, sent, ghost>>

Environment ==
    PeerSend \/ PeerClose \/ TimerFires \/ AppReads \/ AppDrops \/ BeginShutdown

Poll == ReadRequest \/ ReadPayload \/ PublishPending \/ ControlPending \/ SendPayload \/ Stop

Next == Poll \/ PublishDone \/ PublishFailed \/ ControlDone \/ Environment

Spec == Init /\ [][Next]_vars

(* The dispatcher is polled after every change of what it waits for, the   *)
(* control service answers, whoever holds a payload reads it, and without  *)
(* KeepPayload drops it with the response.  Nothing is assumed of the      *)
(* publish service, of response bodies or of the peer.                     *)
AppDone == st = "ReadPayload" /\ ~KeepPayload /\ AppDrops
Fairness == WF_vars(Poll) /\ WF_vars(ControlDone) /\ WF_vars(AppReads) /\ WF_vars(AppDone)

LiveSpec == Spec /\ Fairness

-----------------------------------------------------------------------------
(* Correctness. *)

(* Bytes of a request body are never parsed as the next request: when the   *)
(* dispatcher is about to decode a head, the body of the request before it  *)
(* has been decoded to its end.                                             *)
BodyNeverParsedAsHead == CanRead => ~unread

(* MessageDecoder keeps no state after an error and would panic if it were  *)
(* called again: it is not.                                                 *)
NoDecodeAfterError == CanRead => ~broken

(* Requests are answered one at a time and in order: while a request is     *)
(* handled, the responses to all earlier ones are complete.                 *)
ResponsesInOrder == \A m \in 1 .. Len(resp) - 1 : resp[m] = "done"

(* A read timeout that is switched on has a timer running or its expiry     *)
(* waiting to be seen, as long as the payload can still be delivered.       *)
Armed(f) == timer = f \/ fired = f
TimeoutsAreArmed ==
    "SENT" \notin flags =>
        /\ ("HDRS" \in flags => Armed("HDRS"))
        /\ ("PL" \in flags /\ payload /\ rx \in {"ready", "full"} => Armed("PL"))
        /\ ("KA" \in flags => Armed("KA"))

(* Once the transport is closed the dispatcher ends, even if the service it *)
(* called never answers; and a connection that waits for a request ends     *)
(* when the server shuts down.                                              *)
DispatcherEnds ==
    /\ closed ~> (st = "Done")
    /\ (shutdown /\ st = "ReadRequest") ~> (st = "Done")

=============================================================================
