------------------------- MODULE H1Dispatcher_proofs -------------------------
(***************************************************************************)
(* Proofs about the dispatcher for any set of heads and any configuration. *)
(* The functions of the dispatcher pass a record on (the Outcome of a poll *)
(* of the payload); the lemmas say what such a record keeps, the theorems  *)
(* follow action by action.                                                *)
(***************************************************************************)
EXTENDS H1Dispatcher, SequenceTheorems, TLAPS

Outcome ==
    [res : {"pending", "ok", "proto", "gone"}, payload : BOOLEAN,
     rx : {"ready", "full", "error", "dropped"}, inbuf : Seq(Items), unread : BOOLEAN,
     flags : SUBSET {"SENT", "KA", "HDRS", "PL"}, disconnect : Reasons \union {"none"},
     timer : {"off", "HDRS", "KA", "PL"}, fired : {"no", "HDRS", "KA", "PL"}]

(* An outcome that comes from the current state: a disconnect that was sent *)
(* or is due stays so, and a body is not forgotten unless it was decoded to *)
(* its end or a disconnect is due.                                          *)
Follows(o) ==
    /\ o \in Outcome
    /\ "SENT" \in flags => "SENT" \in o.flags
    /\ disconnect # "none" => o.disconnect # "none"
    /\ o.unread => unread /\ (payload => o.payload \/ o.disconnect # "none")

(* Looking at the payload changes nothing to begin with. *)
LEMMA SameFollows == TypeOK => Follows(Same)
  BY DEF TypeOK, Same, Outcome, Follows

(* update_payload_timer only touches the flag and the timer. *)
LEMMA PayloadTimerFollows ==
    ASSUME NEW o, Follows(o) PROVE Follows(PayloadTimer(o))
<1>1. o.flags \union {"PL"} \in SUBSET {"SENT", "KA", "HDRS", "PL"}
  BY Zenon DEF Follows, Outcome
<1>2. Follows([o EXCEPT !.flags = @ \union {"PL"}, !.timer = "PL", !.fired = "no"])
  BY <1>1, ZenonT(60) DEF Follows, Outcome
<1> QED
  BY <1>2, Zenon DEF PayloadTimer

(* So does handle_timeout, and it may fail the payload. *)
LEMMA HandleTimeoutFollows ==
    ASSUME TypeOK, NEW o \in HandleTimeout PROVE Follows(o)
<1> DEFINE seen == [Same EXCEPT !.fired = "no"]
<1>1. Follows(seen)
  BY SameFollows, Zenon DEF Outcome, Follows
<1>2. seen.rx = Same.rx
  BY Zenon DEF Same
<1>3. Follows([seen EXCEPT !.timer = "PL"])
  <2> HIDE DEF seen
  <2> QED
    BY <1>1, Zenon DEF Outcome, Follows
<1>4. \A x \in {"error", Same.rx} : Follows([seen EXCEPT !.res = "proto", !.rx = x])
  <2> HIDE DEF seen
  <2> QED
    BY <1>1, <1>2, Zenon DEF Outcome, Follows
<1> QED
  BY <1>1, <1>2, <1>3, <1>4, Zenon DEF HandleTimeout

(* Decoding an item (Io::poll_recv_decode) leaves a buffer of items. *)
LEMMA FrontTail ==
    ASSUME TypeOK, inbuf # <<>> PROVE Tail(inbuf) \in Seq(Items) /\ inbuf[1] \in Items
  BY DEF TypeOK

(* So does an outcome with another buffer, whether or not the payload is fed. *)
LEMMA DecodeFollows ==
    ASSUME NEW o, Follows(o), NEW s \in Seq(Items)
    PROVE  /\ Follows([o EXCEPT !.res = "ok", !.inbuf = s])
           /\ \A r \in {"ready", "full"} : Follows([o EXCEPT !.res = "ok", !.inbuf = s, !.rx = r])
<1>1. Follows([o EXCEPT !.res = "ok", !.inbuf = s])
  BY Zenon DEF Follows, Outcome
<1>2. ASSUME NEW r \in {"ready", "full"}
      PROVE  Follows([o EXCEPT !.res = "ok", !.inbuf = s, !.rx = r])
  BY ZenonT(60) DEF Follows, Outcome
<1> QED
  BY <1>1, <1>2, Zenon

(* One turn of the loop of poll_request_payload_inner. *)
LEMMA PayloadReadyFollows ==
    ASSUME TypeOK, NEW o \in PayloadReady PROVE Follows(o)
<1> DEFINE Fed(r) == [Same EXCEPT !.res = "ok", !.inbuf = Tail(@), !.rx = r]
           Ended == PayloadTimer([Same EXCEPT !.res = "ok", !.inbuf = Tail(@)])
<1>1. CASE Front("data")
  <2>0. Tail(Same.inbuf) \in Seq(Items)
    BY <1>1, FrontTail, Zenon DEF Front, Same
  <2>1. \A r \in {"ready", "full"} : Follows(Fed(r))
    BY <2>0, SameFollows, DecodeFollows, Zenon
  <2>2. PayloadReady = {PayloadTimer(Fed(r)) : r \in {"ready", "full"}}
    BY <1>1, Zenon DEF PayloadReady, Front, Nothing
  <2>3. PICK r \in {"ready", "full"} : o = PayloadTimer(Fed(r))
    BY <2>2, Zenon
  <2> QED
    BY <2>1, <2>3, PayloadTimerFollows, Zenon
<1>2. CASE Front("last")
  <2>0. Tail(Same.inbuf) \in Seq(Items)
    BY <1>2, FrontTail, Zenon DEF Front, Same
  <2>1. Follows([Same EXCEPT !.res = "ok", !.inbuf = Tail(@)])
    BY <2>0, SameFollows, DecodeFollows, Zenon
  <2>2. Follows(Ended)
    BY <2>1, PayloadTimerFollows, Zenon
  <2>3. o = [Ended EXCEPT !.flags = @ \ {"PL"}, !.payload = FALSE, !.unread = FALSE]
    BY <1>2, Zenon DEF PayloadReady, Front, Nothing
  <2> HIDE DEF Ended
  <2> QED
    BY <2>2, <2>3, Zenon DEF Outcome, Follows
<1>3. CASE ~Front("data") /\ ~Front("last")
  <2>1. \A x \in {"gone", "proto"} : Follows([Same EXCEPT !.res = x, !.rx = "error"])
    BY SameFollows, Zenon DEF Outcome, Follows
  <2>2. Follows(PayloadTimer(Same))
    BY SameFollows, PayloadTimerFollows, Zenon
  <2> QED
    BY <1>3, <2>1, <2>2, HandleTimeoutFollows, Zenon DEF PayloadReady
<1> QED
  BY <1>1, <1>2, <1>3, Zenon

(* poll_request_payload_inner *)
LEMMA PayloadPollFollows ==
    ASSUME TypeOK, NEW o \in PayloadPoll PROVE Follows(o)
<1>1. Follows([Same EXCEPT !.res = "ok"])
  BY SameFollows, Zenon DEF Outcome, Follows
<1>2. Follows(PayloadFull)
  <2>1. flags \ {"PL"} \in SUBSET {"SENT", "KA", "HDRS", "PL"} /\ Same.flags = flags
    BY Zenon DEF TypeOK, Same
  <2>2. Follows([Same EXCEPT !.flags = @ \ {"PL"}, !.timer = "off", !.fired = "no"])
    BY <2>1, SameFollows, ZenonT(60) DEF Outcome, Follows
  <2> QED
    BY <2>2, SameFollows, Zenon DEF PayloadFull
<1>3. Follows(PayloadGone)
  BY SameFollows, Zenon DEF Outcome, Follows, PayloadGone, Reasons
<1> QED
  BY <1>1, <1>2, <1>3, PayloadReadyFollows, Zenon DEF PayloadPoll, TypeOK

(* The same with a disconnect noted or sent. *)
LEMMA MarkFollows ==
    ASSUME NEW o, Follows(o)
    PROVE  /\ Follows([o EXCEPT !.flags = @ \union {"SENT"}])
           /\ \A r \in Reasons : Follows([o EXCEPT !.disconnect = r])
<1>1. o.flags \union {"SENT"} \in SUBSET {"SENT", "KA", "HDRS", "PL"}
  BY Zenon DEF Follows, Outcome
<1>2. Follows([o EXCEPT !.flags = @ \union {"SENT"}])
  BY <1>1, Zenon DEF Follows, Outcome
<1>3. \A r \in Reasons : Follows([o EXCEPT !.disconnect = r])
  BY Zenon DEF Follows, Outcome, Reasons
<1> QED
  BY <1>2, <1>3, Zenon

(* The same with other timer flags and another timer. *)
LEMMA RearmFollows ==
    ASSUME NEW o, Follows(o), NEW f \in SUBSET {"SENT", "KA", "HDRS", "PL"},
           "SENT" \in o.flags => "SENT" \in f, NEW t \in {"off", "HDRS", "KA", "PL"}
    PROVE  Follows([o EXCEPT !.flags = f, !.timer = t, !.fired = "no"])
  BY ZenonT(60) DEF Follows, Outcome

(* And so does starting one whose expiry was looked at already. *)
LEMMA ArmFollows ==
    ASSUME NEW o, Follows(o), NEW f \in SUBSET {"SENT", "KA", "HDRS", "PL"},
           "SENT" \in o.flags => "SENT" \in f, NEW t \in {"off", "HDRS", "KA", "PL"}
    PROVE  Follows([o EXCEPT !.flags = f, !.timer = t])
  BY Zenon DEF Follows, Outcome

-----------------------------------------------------------------------------
(* How the dispatcher moves on. *)
States == {"CallPublish", "CallControl", "ReadRequest", "ReadPayload", "SendPayload", "Stop", "Done"}
Messages == {"none", "request", "expect", "upgrade"} \union Disconnects

Due == "SENT" \in flags \/ disconnect # "none"

Moved ==
    /\ st \in States /\ ctl \in Messages
    /\ flags \subseteq {"SENT", "KA", "HDRS", "PL"} /\ disconnect \in Reasons \union {"none"}
    /\ timer \in {"off", "HDRS", "KA", "PL"} /\ fired \in {"no", "HDRS", "KA", "PL"}

Taken ==
    /\ payload \in BOOLEAN /\ unread \in BOOLEAN
    /\ rx \in {"ready", "full", "error", "dropped"} /\ inbuf \in Seq(Items)

Kept ==
    /\ ctype \in {"KeepAlive", "Close", "Upgrade"} /\ reading \in BOOLEAN
    /\ head \in Heads \union {NoHead} /\ closed \in BOOLEAN /\ shutdown \in BOOLEAN
    /\ peer \in {"head", "part", "sized", "piece", "stream", "over"} /\ sent \in 0 .. MaxReq
    /\ broken \in BOOLEAN /\ resp \in Seq({"none", "open", "done"})

(* The type invariant, by who owns the variable. *)
LEMMA TypeParts ==
    (TypeOK => Moved /\ Taken /\ Kept) /\ (Moved' /\ Taken' /\ Kept' => TypeOK')
  BY Zenon DEF TypeOK, Moved, Taken, Kept, States, Messages

Advance(o) ==
    /\ Moved'
    /\ "SENT" \in o.flags => "SENT" \in flags'
    /\ "SENT" \in o.flags \/ o.disconnect # "none" => Due'

(* publish, control and a change of state keep the types of what they set. *)
LEMMA ProceedAdvances ==
    ASSUME TypeOK, NEW o, Follows(o), NEW s \in States, NEW c \in Messages, Proceed(s, c, o)
    PROVE  Advance(o) /\ st' = s
  BY Zenon DEF TypeOK, Follows, Outcome, Proceed, Goto, Advance, Moved, Due

(* ctl_error, ctl_proto_err, ctl_peer_gone and ctl_keepalive leave a         *)
(* disconnect due.                                                           *)
LEMMA DisconnectAdvances ==
    ASSUME TypeOK, NEW o, Follows(o), NEW c \in Disconnects, Disconnect(c, o)
    PROVE  Advance(o) /\ st' = "CallControl" /\ "SENT" \in flags'
<1>1. Follows([o EXCEPT !.flags = @ \union {"SENT"}])
  BY MarkFollows, Zenon
<1> QED
  BY <1>1, Zenon DEF Follows, Outcome, Disconnect, Goto, Advance, Moved, Due, States, Messages

(* So does stop, whose State::Stop reads nothing any more. *)
LEMMA HaltAdvances ==
    ASSUME TypeOK, NEW o, Follows(o), Halt(o)
    PROVE  Advance(o) /\ st' = "Stop"
  BY Zenon DEF TypeOK, Follows, Outcome, Halt, Proceed, Goto, Advance, Moved, Due, States, Messages

(* check_disconnect *)
LEMMA CheckDisconnectAdvances ==
    ASSUME TypeOK, NEW o, Follows(o), CheckDisconnect(o)
    PROVE  Advance(o) /\ st' \in {"Stop", "CallControl"}
<1>1. CASE "SENT" \in o.flags
  BY <1>1, HaltAdvances, Zenon DEF CheckDisconnect
<1>2. CASE "SENT" \notin o.flags
  BY <1>2, Zenon
  DEF CheckDisconnect, Disconnect, TypeOK, Follows, Outcome, Goto, Advance, Moved, Due, States,
      Messages, Disconnects
<1> QED
  BY <1>1, <1>2, Zenon

(* ctl_svc_disconnect *)
LEMMA SvcDisconnectAdvances ==
    ASSUME TypeOK, NEW o, Follows(o), SvcDisconnect(o)
    PROVE  Advance(o) /\ st' \in {"Stop", "CallControl"}
  BY HaltAdvances, DisconnectAdvances, Zenon DEF SvcDisconnect, Disconnects

(* The end of send_response and of poll_send_payload: a request body that is *)
(* still to be read is not forgotten.                                        *)
LEMMA NextRequestAdvances ==
    ASSUME TypeOK, NEW o, Follows(o), NextRequest(o)
    PROVE  /\ Advance(o)
           /\ st' \in {"Stop", "CallControl", "ReadPayload", "ReadRequest"}
           /\ st' = "ReadRequest" => ~o.payload
  BY CheckDisconnectAdvances, ProceedAdvances, Zenon DEF NextRequest, States, Messages, Follows, Outcome

(* What a poll of the payload leaves behind is of its type. *)
LEMMA TakeType == ASSUME NEW o, Follows(o), Take(o) PROVE Taken'
  BY Zenon DEF Follows, Outcome, Take, Taken

(* Marking the last response. *)
LEMMA MarkResponse ==
    ASSUME TypeOK, NEW v \in {"none", "open", "done"}, NEW r,
           r = [resp EXCEPT ![Len(resp)] = v]
    PROVE  /\ r \in Seq({"none", "open", "done"}) /\ Len(r) = Len(resp)
           /\ \A m \in 1 .. Len(resp) : r[m] = IF m = Len(resp) THEN v ELSE resp[m]
<1>1. resp \in Seq({"none", "open", "done"}) /\ Len(resp) \in Nat
  BY DEF TypeOK
<1>2. CASE Len(resp) = 0
  <2> DEFINE S == {"none", "open", "done"}
  <2>1. resp \in [1 .. 0 -> S]
    BY <1>1, <1>2, LenProperties, Zenon
  <2>2. r \in [1 .. 0 -> S]
    BY <2>1, <1>2, Zenon
  <2>3. r \in Seq(S)
    BY <2>2, SeqDef
  <2>4. Len(r) \in Nat /\ DOMAIN r = 1 .. Len(r)
    BY <2>3, LenProperties, Zenon
  <2>5. DOMAIN r = 1 .. 0
    BY <2>2, Zenon
  <2>6. Len(r) = 0
    BY <2>4, <2>5
  <2> QED
    BY <1>1, <1>2, <2>3, <2>6
<1>3. CASE Len(resp) # 0
  BY <1>1, <1>3, ExceptSeq
<1> QED
  BY <1>2, <1>3, Zenon

(* send_response as a whole. *)
LEMMA SendResponseMoves ==
    ASSUME TypeOK, NEW o, Follows(o), NEW rc \in ResponseTypes, NEW long \in BOOLEAN,
           send_response(rc, long, o)
    PROVE  /\ Advance(o) /\ Taken' /\ Take(o)
           /\ ctype' \in {"KeepAlive", "Close", "Upgrade"}
           /\ st' \in {"Stop", "CallControl", "ReadPayload", "ReadRequest", "SendPayload"}
           /\ st' = "ReadRequest" => ~o.payload
           /\ \/ resp' = resp
              \/ \E v \in {"open", "done"} : resp' = [resp EXCEPT ![Len(resp)] = v]
           /\ st' \in {"ReadPayload", "ReadRequest"} => resp' = [resp EXCEPT ![Len(resp)] = "done"]
<1>1. Taken' /\ Take(o)
  BY TakeType, Zenon DEF send_response
<1>2. CASE closed /\ Disconnect("gone", o) /\ UNCHANGED <<ctype, resp>>
  BY <1>1, <1>2, DisconnectAdvances, Zenon DEF Disconnects, TypeOK
<1>3. CASE /\ ~closed /\ ctype' = ResponseType(rc)
           /\ resp' = [resp EXCEPT ![Len(resp)] = IF long THEN "open" ELSE "done"]
           /\ IF long THEN Proceed("SendPayload", "none", o) ELSE NextRequest(o)
  <2>1. ctype' \in {"KeepAlive", "Close", "Upgrade"}
    BY <1>3, Zenon DEF ResponseType, ResponseTypes, TypeOK
  <2>2. CASE long
    BY <1>1, <1>3, <2>1, <2>2, ProceedAdvances, Zenon DEF States, Messages
  <2>3. CASE ~long
    BY <1>1, <1>3, <2>1, <2>3, NextRequestAdvances, Zenon
  <2> QED
    BY <2>2, <2>3, Zenon
<1> QED
  BY <1>2, <1>3, Zenon DEF send_response

-----------------------------------------------------------------------------
(* The inductive invariant.  A body that is not read to its end still has  *)
(* its payload, or a disconnect is due; nothing is due only after a        *)
(* complete response; a decoder that failed is never asked again, because  *)
(* the disconnect was sent.                                                *)
Settled == \A m \in 1 .. Len(resp) : resp[m] = "done"
Body ==
    /\ unread => payload \/ Due
    /\ st = "ReadRequest" /\ unread => Due
Order ==
    /\ ResponsesInOrder
    /\ st \in {"ReadRequest", "ReadPayload"} => Settled
    /\ broken => "SENT" \in flags

(* A step that moves on by an outcome keeps hold of an unread body. *)
LEMMA BodyStep ==
    ASSUME TypeOK, Body, NEW o, Follows(o), Take(o), Advance(o),
           st' = "ReadRequest" => ~o.payload \/ st = "ReadRequest"
    PROVE  Body'
<1>1. unread' => unread /\ (payload => payload' \/ o.disconnect # "none")
  BY Zenon DEF Follows, Take
<1>2. Due => Due'
  BY Zenon DEF Follows, Advance, Due
<1>3. o.disconnect # "none" => Due'
  BY Zenon DEF Advance
<1>4. payload' = o.payload
  BY Zenon DEF Take
<1> QED
  BY <1>1, <1>2, <1>3, <1>4, Zenon DEF Body

(* A step that answers nothing keeps the responses in order. *)
LEMMA OrderStep ==
    ASSUME TypeOK, Order, NEW o, Follows(o), Advance(o), UNCHANGED <<resp, broken>>,
           st' \in {"ReadRequest", "ReadPayload"} => st \in {"ReadRequest", "ReadPayload"}
    PROVE  Order'
  BY Zenon DEF Order, Follows, Advance, ResponsesInOrder, Settled

(* So does send_response, which answers the request at hand. *)
LEMMA OrderAnswer ==
    ASSUME TypeOK, Order, NEW o, Follows(o), NEW rc \in ResponseTypes, NEW long \in BOOLEAN,
           send_response(rc, long, o), UNCHANGED broken
    PROVE  Order'
<1>1. broken' => "SENT" \in flags'
  BY SendResponseMoves, Zenon DEF Order, Follows, Advance
<1>2. CASE resp' = resp /\ st' \notin {"ReadRequest", "ReadPayload"}
  BY <1>1, <1>2, Zenon DEF Order, ResponsesInOrder
<1>3. CASE \E v \in {"open", "done"} : resp' = [resp EXCEPT ![Len(resp)] = v]
  <2>1. PICK v \in {"open", "done"} : resp' = [resp EXCEPT ![Len(resp)] = v]
    BY <1>3, Zenon
  <2>2. ResponsesInOrder'
    BY <2>1, MarkResponse DEF Order, ResponsesInOrder, TypeOK
  <2>3. ASSUME st' \in {"ReadRequest", "ReadPayload"} PROVE Settled'
    <3>1. resp' = [resp EXCEPT ![Len(resp)] = "done"]
      BY <2>3, SendResponseMoves, Zenon
    <3> QED
      BY <3>1, MarkResponse DEF Order, ResponsesInOrder, Settled, TypeOK
  <2> QED
    BY <1>1, <2>2, <2>3, Zenon DEF Order
<1> QED
  BY <1>2, <1>3, SendResponseMoves, Zenon

-----------------------------------------------------------------------------
(* The actions, by state of the dispatcher. *)
Preserves == TypeOK' /\ Order' /\ (Body => Body')

(* A step that begins an error report for the request being read. *)
LEMMA OrderAppend ==
    ASSUME TypeOK, Order, st = "ReadRequest", resp' = Append(resp, "none"),
           st' \notin {"ReadRequest", "ReadPayload"}, broken' => "SENT" \in flags'
    PROVE  Order' /\ resp' \in Seq({"none", "open", "done"})
<1>1. resp \in Seq({"none", "open", "done"})
  BY Zenon DEF TypeOK
<1>2. resp' \in Seq({"none", "open", "done"}) /\ Len(resp') = Len(resp) + 1
  BY <1>1
<1>3. \A m \in 1 .. Len(resp) : resp'[m] = resp[m]
  BY <1>1
<1> QED
  BY <1>1, <1>2, <1>3 DEF Order, Settled, ResponsesInOrder

(* A step that takes an outcome and neither answers nor reads a request. *)
LEMMA QuietStep ==
    ASSUME TypeOK, Order, NEW o, Follows(o), Take(o), Advance(o), Kept',
           UNCHANGED <<resp, broken>>,
           st' \in {"ReadRequest", "ReadPayload"} => st' = st
    PROVE  Preserves
<1>1. TypeOK'
  BY TypeParts, TakeType, Zenon DEF Advance
<1>2. Order'
  BY OrderStep, Zenon
<1>3. Body => Body'
  BY BodyStep, Zenon
<1> QED
  BY <1>1, <1>2, <1>3, Zenon DEF Preserves

(* State::ReadRequest: poll_read_request and update_hdrs_timer. *)
LEMMA ReadRequestPreserves == ASSUME TypeOK, Order, ReadRequest PROVE Preserves
<1>0. Follows(Same) /\ Moved /\ Taken /\ Kept
  BY SameFollows, TypeParts, Zenon
<1>2. CASE ReadShutdown
  <2>1. Advance(Same) /\ st' \in {"Stop", "CallControl"} /\ Take(Same)
    BY <1>0, <1>2, SvcDisconnectAdvances, Zenon DEF ReadShutdown, Take, Same
  <2> QED
    BY <1>0, <1>2, <2>1, QuietStep, Zenon DEF ReadShutdown, Kept
<1>3. CASE ReadHead
  <2> DEFINE h == inbuf[1].h
             o == [Same EXCEPT !.inbuf = Tail(@), !.flags = @ \ {"KA", "HDRS", "PL"},
                               !.payload = (h.body # "none"), !.unread = (h.body # "none"),
                               !.rx = IF h.body = "none" THEN @ ELSE "ready"]
  <2>1. st = "ReadRequest" /\ st' = "CallControl" /\ ctl' = "request"
    BY <1>3, Zenon DEF ReadHead, CanRead, Proceed, Goto
  <2>2. flags' = flags \ {"KA", "HDRS", "PL"} /\ UNCHANGED <<disconnect, timer, fired>>
    BY <1>3, Zenon DEF ReadHead, Proceed, Goto, Same
  <2>3. /\ payload' = (h.body # "none") /\ unread' = (h.body # "none") /\ inbuf' = Tail(inbuf)
        /\ rx' \in {rx, "ready"}
    BY <1>3, Zenon DEF ReadHead, Take, Same
  <2>4. inbuf # <<>> /\ h \in Heads \union {NoHead}
    BY <1>3, FrontTail DEF ReadHead, Front, Items, Item
  <2>5. Moved'
    BY <2>1, <2>2, Zenon DEF TypeOK, Moved, States, Messages
  <2>6. Taken'
    BY <2>3, <2>4, FrontTail, Zenon DEF TypeOK, Taken
  <2>7. Order' /\ resp' \in Seq({"none", "open", "done"})
    BY <1>3, <2>1, <2>2, OrderAppend, Zenon DEF ReadHead, Order
  <2>8. Kept'
    BY <1>0, <1>3, <2>4, <2>7, Zenon DEF ReadHead, Kept, ConnectionType
  <2> QED
    BY <2>1, <2>3, <2>5, <2>6, <2>7, <2>8, TypeParts, Zenon DEF Preserves, Body
<1>4. CASE ReadMalformed
  <2>1. /\ Advance(Same) /\ st' = "CallControl" /\ "SENT" \in flags' /\ Take(Same)
        /\ st = "ReadRequest" /\ resp' = Append(resp, "none")
    BY <1>0, <1>4, DisconnectAdvances, Zenon DEF ReadMalformed, Take, Same, Disconnects, CanRead
  <2>2. Order' /\ resp' \in Seq({"none", "open", "done"})
    BY <2>1, OrderAppend, Zenon
  <2>3. Kept'
    BY <1>0, <1>4, <2>2, Zenon DEF ReadMalformed, Kept
  <2> QED
    BY <1>0, <2>1, <2>2, <2>3, BodyStep, TakeType, TypeParts, Zenon DEF Preserves, Advance
<1>5. CASE ReadPart
  <2> DEFINE o == [Same EXCEPT !.inbuf = Tail(@)]
             p == [o EXCEPT !.flags = (@ \ {"KA", "PL"}) \union {"HDRS"},
                            !.timer = "HDRS", !.fired = "no"]
  <2>1. Follows(o)
    BY <1>0, <1>5, FrontTail, Zenon DEF ReadPart, Front, Follows, Outcome, Same
  <2>2. (o.flags \ {"KA", "PL"}) \union {"HDRS"} \in SUBSET {"SENT", "KA", "HDRS", "PL"}
    BY Zenon DEF TypeOK, Same
  <2>3. Follows(p)
    <3> HIDE DEF o
    <3> QED
      BY <2>1, <2>2, RearmFollows, Zenon
  <2>4. Take(o) /\ Take(p) /\ st = "ReadRequest" /\ st \in States /\ ctl \in Messages
    BY <1>5, Zenon DEF ReadPart, Take, CanRead, TypeOK, Same, States, Messages
  <2>5. Proceed(st, ctl, o) \/ Proceed(st, ctl, p)
    BY <1>5, Zenon DEF ReadPart
  <2> HIDE DEF o, p
  <2>6. \/ Advance(o) /\ st' = st
        \/ Advance(p) /\ st' = st
    BY <2>1, <2>3, <2>4, <2>5, ProceedAdvances, Zenon
  <2>7. Kept' /\ UNCHANGED <<resp, broken>>
    BY <1>0, <1>5, Zenon DEF ReadPart, Kept
  <2> QED
    BY <2>1, <2>3, <2>4, <2>6, <2>7, QuietStep, Zenon
<1>6. CASE ReadIdle
  <2> DEFINE p == [Same EXCEPT !.flags = @ \union {"KA"}, !.timer = "KA"]
  <2>1. Same.flags \union {"KA"} \in SUBSET {"SENT", "KA", "HDRS", "PL"}
    BY Zenon DEF TypeOK, Same
  <2>2. Follows(p)
    BY <1>0, <2>1, ArmFollows, Zenon
  <2>3. /\ Take(Same) /\ Take(p) /\ st = "ReadRequest" /\ st \in States /\ ctl \in Messages
        /\ UNCHANGED <<resp, broken>>
    BY <1>6, Zenon DEF ReadIdle, Take, CanRead, TypeOK, Same, States, Messages
  <2>4. Kept'
    BY <1>0, <1>6, Zenon DEF ReadIdle, Kept
  <2>5. Proceed(st, ctl, p) \/ Disconnect("ka", Same)
    BY <1>6, Zenon DEF ReadIdle
  <2> HIDE DEF p
  <2>6. \/ Advance(p) /\ st' = st
        \/ Advance(Same) /\ st' = "CallControl"
    BY <1>0, <2>2, <2>3, <2>5, ProceedAdvances, DisconnectAdvances, Zenon DEF Disconnects
  <2> QED
    BY <1>0, <2>2, <2>3, <2>4, <2>6, QuietStep, Zenon
<1>7. CASE ReadGone
  <2>1. Advance(Same) /\ st' = "CallControl" /\ Take(Same)
    BY <1>0, <1>7, DisconnectAdvances, Zenon DEF ReadGone, Take, Same, Disconnects
  <2> QED
    BY <1>0, <1>7, <2>1, QuietStep, Zenon DEF ReadGone, Kept
<1>8. CASE ReadTimeout
  <2> DEFINE p == [Same EXCEPT !.fired = "no"]
  <2>0. st = "ReadRequest"
    BY <1>8, Zenon DEF ReadTimeout, CanRead
  <2>1. CASE "HDRS" \in flags
    <3>1. PICK o \in HandleTimeout : Disconnect("proto", o) /\ Take(o)
      BY <1>8, <2>1, Zenon DEF ReadTimeout
    <3>2. Follows(o)
      BY HandleTimeoutFollows, Zenon
    <3>3. Advance(o) /\ st' = "CallControl" /\ "SENT" \in flags'
      BY <3>1, <3>2, DisconnectAdvances, Zenon DEF Disconnects
    <3>4. Order' /\ resp' \in Seq({"none", "open", "done"})
      BY <1>8, <2>0, <2>1, <3>3, OrderAppend, Zenon DEF ReadTimeout
    <3>5. Kept'
      BY <1>0, <1>8, <3>4, Zenon DEF ReadTimeout, Kept
    <3> QED
      BY <3>1, <3>2, <3>3, <3>4, <3>5, BodyStep, TakeType, TypeParts, Zenon DEF Preserves, Advance
  <2>2. CASE "HDRS" \notin flags
    <3>1. Follows(p)
      BY <1>0, Zenon DEF Follows, Outcome
    <3>2. Disconnect("ka", p) /\ Take(p) /\ UNCHANGED <<resp, broken>>
      BY <1>8, <2>2, Zenon DEF ReadTimeout, Take, Same
    <3> HIDE DEF p
    <3>3. Advance(p) /\ st' = "CallControl"
      BY <3>1, <3>2, DisconnectAdvances, Zenon DEF Disconnects
    <3>4. Kept'
      BY <1>0, <1>8, <3>2, Zenon DEF ReadTimeout, Kept
    <3> QED
      BY <3>1, <3>2, <3>3, <3>4, QuietStep, Zenon
  <2> QED
    BY <2>1, <2>2, Zenon
<1> QED
  BY <1>2, <1>3, <1>4, <1>5, <1>6, <1>7, <1>8, Zenon DEF ReadRequest

(* A step that answers the current request. *)
LEMMA AnswerStep ==
    ASSUME TypeOK, Order, NEW o, Follows(o), NEW rc \in ResponseTypes, NEW long \in BOOLEAN,
           send_response(rc, long, o),
           UNCHANGED <<reading, head, closed, shutdown, peer, sent, broken>>
    PROVE  Preserves
<1>1. Order'
  BY OrderAnswer, Zenon
<1>2. /\ Advance(o) /\ Taken' /\ Take(o)
      /\ ctype' \in {"KeepAlive", "Close", "Upgrade"}
      /\ st' = "ReadRequest" => ~o.payload
  BY SendResponseMoves, Zenon
<1>3. Body => Body'
  BY <1>2, BodyStep, Zenon
<1>4. resp' \in Seq({"none", "open", "done"})
  BY SendResponseMoves, MarkResponse DEF TypeOK
<1>5. Kept'
  BY <1>2, <1>4, TypeParts, Zenon DEF Kept
<1> QED
  BY <1>1, <1>2, <1>3, <1>5, TypeParts, Zenon DEF Preserves, Advance

(* State::CallPublish. *)
LEMMA PublishPreserves ==
    ASSUME TypeOK, Order, PublishDone \/ PublishFailed \/ PublishPending PROVE Preserves
<1>0. Follows(Same) /\ Moved /\ Taken /\ Kept
  BY SameFollows, TypeParts, Zenon
<1>1. CASE PublishDone
  BY <1>0, <1>1, AnswerStep, Zenon DEF PublishDone
<1>2. CASE PublishFailed
  <2>1. Advance(Same) /\ st' = "CallControl" /\ Take(Same)
    BY <1>0, <1>2, DisconnectAdvances, Zenon DEF PublishFailed, Take, Same, Disconnects
  <2> QED
    BY <1>0, <1>2, <2>1, QuietStep, Zenon DEF PublishFailed, Kept
<1>3. CASE PublishPending
  <2>1. st = "CallPublish" /\ Kept' /\ UNCHANGED <<resp, broken>> /\ ctl \in Messages
    BY <1>0, <1>3, Zenon DEF PublishPending, Kept, Moved
  <2>2. CASE payload
    <3>1. PICK o \in PayloadPoll :
            Take(o) /\ IF Failed(o) THEN Disconnect(o.res, o) ELSE Proceed(st, ctl, o)
      BY <1>3, <2>2, Zenon DEF PublishPending
    <3>2. Follows(o)
      BY PayloadPollFollows, Zenon
    <3>3. Advance(o) /\ st' \in {"CallControl", "CallPublish"}
      BY <2>1, <3>1, <3>2, DisconnectAdvances, ProceedAdvances, Zenon DEF Failed, Disconnects, States
    <3> QED
      BY <2>1, <3>1, <3>2, <3>3, QuietStep, Zenon
  <2>3. CASE ~payload
    <3> DEFINE p == [Same EXCEPT !.fired = "no"]
    <3>1. Follows(p)
      BY <1>0, Zenon DEF Follows, Outcome
    <3>2. Take(Same) /\ Take(p) /\ (Disconnect("gone", Same) \/ Proceed(st, ctl, p))
      BY <1>3, <2>3, Zenon DEF PublishPending, Take, Same
    <3> HIDE DEF p
    <3>3. \/ Advance(Same) /\ st' = "CallControl"
          \/ Advance(p) /\ st' = "CallPublish"
      BY <1>0, <2>1, <3>1, <3>2, DisconnectAdvances, ProceedAdvances, Zenon DEF Disconnects, States
    <3> QED
      BY <1>0, <2>1, <3>1, <3>2, <3>3, QuietStep, Zenon
  <2> QED
    BY <2>2, <2>3, Zenon
<1> QED
  BY <1>1, <1>2, <1>3, Zenon

(* State::CallControl. *)
LEMMA ControlPreserves ==
    ASSUME TypeOK, Order, ControlDone \/ ControlPending PROVE Preserves
<1>0. Follows(Same) /\ Moved /\ Taken /\ Kept
  BY SameFollows, TypeParts, Zenon
<1>a. \A r \in Reasons : Follows([Same EXCEPT !.disconnect = r])
  BY <1>0, MarkFollows, Zenon
<1>1. CASE ControlPending
  <2>1. PICK o \in PayloadPoll : Take(o) /\ Proceed(st, ctl, o)
    BY <1>1, Zenon DEF ControlPending
  <2>2. Follows(o) /\ Advance(o) /\ st' = st
    BY <1>0, <2>1, PayloadPollFollows, ProceedAdvances, Zenon DEF Moved
  <2> QED
    BY <1>0, <1>1, <2>1, <2>2, QuietStep, Zenon DEF ControlPending, Kept
<1>2. CASE ControlDone /\ Respond
  <2>1. UNCHANGED <<reading, head, closed, shutdown, peer, sent, broken>>
    BY <1>2, Zenon DEF ControlDone
  <2>2. PICK rc \in ResponseTypes, long \in BOOLEAN :
            \/ send_response(rc, long, Same)
            \/ send_response(rc, long, [Same EXCEPT !.disconnect = "ExpectFailed"])
            \/ send_response(rc, long, [Same EXCEPT !.disconnect = "UpgradeFailed"])
    BY <1>2, Zenon DEF Respond
  <2>3. "ExpectFailed" \in Reasons /\ "UpgradeFailed" \in Reasons
    BY Zenon DEF Reasons
  <2> QED
    BY <1>0, <1>a, <2>1, <2>2, <2>3, AnswerStep, Zenon
<1>3. CASE ControlDone /\ ~Respond
  <2> DEFINE p == [Same EXCEPT !.disconnect = "UpgradeHandled"]
  <2>1. Follows(p)
    BY <1>a, Zenon DEF Reasons
  <2>2. Take(Same) /\ Take(p) /\ UNCHANGED <<resp, broken>>
    BY <1>3, Zenon DEF ControlDone, AckRequest, AckExpect, AckUpgrade, AckDisconnect, ControlFailed, Take, Same
  <2>3. \/ \E s \in {"CallControl", "CallPublish", "Done"}, c \in {"none", "expect", "upgrade"} :
              Proceed(s, c, Same) \/ Proceed(s, c, p)
        \/ Disconnect("gone", Same) \/ SvcDisconnect(Same) \/ Halt(Same)
    BY <1>3, Zenon DEF ControlDone, AckRequest, AckExpect, AckUpgrade, AckDisconnect, ControlFailed,
                Publish, CtlUpgrade
  <2>4. ctype' \in {ctype, "Close"}
    BY <1>3, Zenon DEF ControlDone, AckRequest, AckExpect, AckUpgrade, AckDisconnect, ControlFailed,
                Publish, CtlUpgrade
  <2>5. Kept'
    BY <1>0, <1>3, <2>2, <2>4, Zenon DEF ControlDone, Kept
  <2> HIDE DEF p
  <2>6. \/ Advance(Same) /\ st' \notin {"ReadRequest", "ReadPayload"}
        \/ Advance(p) /\ st' \notin {"ReadRequest", "ReadPayload"}
    BY <1>0, <2>1, <2>3, ProceedAdvances, DisconnectAdvances, SvcDisconnectAdvances, HaltAdvances, Zenon
       DEF States, Messages, Disconnects
  <2> QED
    BY <1>0, <2>1, <2>2, <2>5, <2>6, QuietStep, Zenon
<1> QED
  BY <1>1, <1>2, <1>3, Zenon

(* State::SendPayload: poll_send_payload. *)
LEMMA SendPayloadPreserves == ASSUME TypeOK, Order, SendPayload PROVE Preserves
<1>0. Follows(Same) /\ Moved /\ Taken /\ Kept
  BY SameFollows, TypeParts, Zenon
<1>1. st = "SendPayload" /\ UNCHANGED broken /\ ctl \in Messages
  BY <1>0, Zenon DEF SendPayload, Moved
<1>2. ASSUME NEW o \in SendPoll PROVE Follows(o)
  <2>1. CASE disconnect # "none"
    BY <1>0, <1>2, <2>1, Zenon DEF SendPoll
  <2>2. CASE disconnect = "none"
    <3>1. PICK q \in PayloadPoll :
            o = IF Failed(q)
                THEN [q EXCEPT !.flags = @ \union {"SENT"}, !.disconnect = "PayloadDropped"]
                ELSE q
      BY <1>2, <2>2, Zenon DEF SendPoll
    <3>2. Follows(q)
      BY PayloadPollFollows, Zenon
    <3>3. Follows([[q EXCEPT !.flags = @ \union {"SENT"}] EXCEPT !.disconnect = "PayloadDropped"])
      BY <3>2, MarkFollows, Zenon DEF Reasons
    <3> QED
      BY <3>1, <3>2, <3>3, Zenon
  <2> QED
    BY <2>1, <2>2, Zenon
<1>3. CASE closed
  <2>1. Advance(Same) /\ st' = "CallControl" /\ Take(Same) /\ UNCHANGED resp
    BY <1>0, <1>3, DisconnectAdvances, Zenon DEF SendPayload, Disconnects
  <2> QED
    BY <1>0, <1>1, <2>1, QuietStep, Zenon DEF SendPayload, Kept
<1>4. CASE ~closed
  <2>1. PICK o \in SendPoll :
          /\ Take(o)
          /\ \/ Proceed(st, ctl, o) /\ UNCHANGED resp
             \/ NextRequest(o) /\ resp' = [resp EXCEPT ![Len(resp)] = "done"]
             \/ Disconnect("proto", o) /\ UNCHANGED resp
    BY <1>4, Zenon DEF SendPayload
  <2>2. Follows(o)
    BY <1>2, Zenon
  <2>3. CASE UNCHANGED resp /\ (Proceed(st, ctl, o) \/ Disconnect("proto", o))
    <3>1. Advance(o) /\ st' \in {"SendPayload", "CallControl"}
      BY <1>1, <2>2, <2>3, ProceedAdvances, DisconnectAdvances, Zenon DEF States, Disconnects
    <3> QED
      BY <1>0, <1>1, <2>1, <2>2, <2>3, <3>1, QuietStep DEF SendPayload, Kept
  <2>4. CASE NextRequest(o) /\ resp' = [resp EXCEPT ![Len(resp)] = "done"]
    <3>1. Advance(o) /\ (st' = "ReadRequest" => ~o.payload)
      BY <2>2, <2>4, NextRequestAdvances, Zenon
    <3>2. Body => Body'
      BY <2>1, <2>2, <3>1, BodyStep, Zenon
    <3>a. /\ resp' \in Seq({"none", "open", "done"}) /\ Len(resp') = Len(resp)
          /\ \A m \in 1 .. Len(resp) : resp'[m] = IF m = Len(resp) THEN "done" ELSE resp[m]
      BY <2>4, MarkResponse, Zenon
    <3>3. Settled' /\ ResponsesInOrder' /\ resp' \in Seq({"none", "open", "done"})
      BY <3>a DEF Order, Settled, ResponsesInOrder, TypeOK
    <3>4. Order'
      BY <1>1, <2>2, <3>1, <3>3, Zenon DEF Order, Advance, Follows
    <3>5. Kept'
      BY <1>0, <3>3, Zenon DEF SendPayload, Kept
    <3> QED
      BY <2>1, <2>2, <3>1, <3>2, <3>4, <3>5, TakeType, TypeParts, Zenon DEF Preserves, Advance
  <2> QED
    BY <2>1, <2>3, <2>4, Zenon
<1> QED
  BY <1>3, <1>4, Zenon

(* State::ReadPayload keeps the order of responses whatever the application *)
(* does; that the body is not forgotten needs the payload to be dropped.    *)
LEMMA ReadPayloadPreserves ==
    ASSUME TypeOK, Order, ReadPayload
    PROVE  TypeOK' /\ Order' /\ (~KeepPayload /\ Body => Body')
<1>0. Moved /\ Taken /\ Kept /\ st = "ReadPayload"
  BY TypeParts, Zenon DEF ReadPayload
<1>1. PICK q \in PayloadPoll :
        LET p == IF Failed(q) THEN [q EXCEPT !.flags = @ \union {"SENT"}] ELSE q IN
        /\ Take(p)
        /\ \/ MustDisconnect(p) /\ CheckDisconnect(p)
           \/ ~MustDisconnect(p) /\ p.res = "ok" /\ Proceed("ReadRequest", "none", p)
           \/ ~MustDisconnect(p) /\ p.res = "pending" /\ Proceed(st, ctl, p)
  BY Zenon DEF ReadPayload
<1> DEFINE p == IF Failed(q) THEN [q EXCEPT !.flags = @ \union {"SENT"}] ELSE q
<1>2. Follows(p)
  BY PayloadPollFollows, MarkFollows, Zenon
<1>3. ~KeepPayload /\ p.res = "ok" /\ ~MustDisconnect(p) => ~p.payload
  <2> SUFFICES ASSUME ~KeepPayload, p.res = "ok", ~MustDisconnect(p) PROVE ~p.payload
    BY Zenon
  <2>1. rx = "dropped"
    BY Zenon DEF ReadPayload
  <2>2. CASE payload
    <3>1. q = PayloadGone
      BY <2>1, <2>2, Zenon DEF PayloadPoll
    <3> QED
      BY <3>1, Zenon DEF PayloadGone, Same, Failed, MustDisconnect
  <2>3. CASE ~payload
    <3>1. q = [Same EXCEPT !.res = "ok"]
      BY <2>3, Zenon DEF PayloadPoll
    <3> QED
      BY <2>3, <3>1, Zenon DEF Same, Failed
  <2> QED
    BY <2>2, <2>3, Zenon
<1>4. Take(p) /\ Advance(p) /\ st' \in {"Stop", "CallControl", "ReadRequest", "ReadPayload"}
  <2> HIDE DEF p
  <2>1. Take(p) /\ (CheckDisconnect(p) \/ Proceed("ReadRequest", "none", p) \/ Proceed(st, ctl, p))
    BY <1>1, Zenon DEF p
  <2> QED
    BY <1>0, <1>2, <2>1, CheckDisconnectAdvances, ProceedAdvances, Zenon DEF States, Messages, Moved
<1>5. ~KeepPayload /\ st' = "ReadRequest" => ~p.payload
  <2> HIDE DEF p
  <2>1. \/ CheckDisconnect(p)
        \/ ~MustDisconnect(p) /\ p.res = "ok"
        \/ Proceed(st, ctl, p)
    BY <1>1, Zenon DEF p
  <2>2. CheckDisconnect(p) \/ Proceed(st, ctl, p) => st' # "ReadRequest"
    BY <1>0, <1>2, CheckDisconnectAdvances, ProceedAdvances, Zenon DEF Moved
  <2> QED
    BY <1>3, <2>1, <2>2, Zenon
<1> HIDE DEF p
<1>6. Kept' /\ UNCHANGED <<resp, broken>>
  BY <1>0, Zenon DEF ReadPayload, Kept
<1>7. TypeOK'
  BY <1>2, <1>4, <1>6, TakeType, TypeParts, Zenon DEF Advance
<1>8. Order'
  BY <1>0, <1>2, <1>4, <1>6, OrderStep, Zenon
<1>9. ~KeepPayload /\ Body => Body'
  BY <1>2, <1>4, <1>5, BodyStep, Zenon
<1> QED
  BY <1>7, <1>8, <1>9, Zenon

(* State::Stop. *)
LEMMA StopPreserves == ASSUME TypeOK, Order, Stop PROVE Preserves
<1>0. Follows(Same) /\ Moved /\ Taken /\ Kept
  BY SameFollows, TypeParts, Zenon
<1>1. Advance(Same) /\ st' = "Done" /\ Take(Same)
  BY <1>0, ProceedAdvances, Zenon DEF Stop, Take, Same, States, Messages
<1> QED
  BY <1>0, <1>1, QuietStep, Zenon DEF Stop, Kept

(* Peer, application, timer and shutdown. *)
LEMMA EnvironmentPreserves == ASSUME TypeOK, Order, Environment PROVE Preserves
<1>0. UNCHANGED <<st, ctl, flags, disconnect, payload, ctype, reading, head>>
      /\ UNCHANGED <<unread, broken, resp>>
  BY Zenon DEF Environment, PeerSend, PeerClose, TimerFires, AppReads, AppDrops, BeginShutdown, inner, ghost
<1>1. Order' /\ (Body => Body')
  BY <1>0, Zenon DEF Order, Body, Due, ResponsesInOrder, Settled
<1>2. TypeOK'
  <2>1. CASE PeerSend
    <3>1. PICK t \in {"head", "part", "data", "last", "bad"}, h \in Heads \union {NoHead} :
            /\ inbuf' = Append(inbuf, Item(t, h)) /\ (t = "head" => h \in Heads)
            /\ (t # "head" => h = NoHead)
      BY <2>1, Zenon DEF PeerSend, Deliver
    <3>2. Item(t, h) \in Items
      BY <3>1, Zenon DEF Items
    <3>3. inbuf' \in Seq(Items)
      BY <3>1, <3>2 DEF TypeOK
    <3>4. sent' \in 0 .. MaxReq
      BY <2>1, DispatcherAssumption DEF PeerSend, TypeOK
    <3>5. peer' \in {"head", "part", "sized", "piece", "stream", "over"}
      BY <2>1, DispatcherAssumption, Zenon DEF PeerSend, Deliver
    <3> QED
      BY <1>0, <2>1, <3>3, <3>4, <3>5 DEF TypeOK, PeerSend
  <2>2. CASE PeerClose
    BY <1>0, <2>2 DEF TypeOK, PeerClose, env
  <2>3. CASE TimerFires
    BY <1>0, <2>3 DEF TypeOK, TimerFires, env
  <2>4. CASE AppReads
    BY <1>0, <2>4 DEF TypeOK, AppReads, io
  <2>5. CASE AppDrops
    BY <1>0, <2>5 DEF TypeOK, AppDrops, io
  <2>6. CASE BeginShutdown
    BY <1>0, <2>6 DEF TypeOK, BeginShutdown, io
  <2> QED
    BY <2>1, <2>2, <2>3, <2>4, <2>5, <2>6, Zenon DEF Environment
<1> QED
  BY <1>1, <1>2, Zenon DEF Preserves

-----------------------------------------------------------------------------
(* Every step. *)
LEMMA StepPreserves ==
    ASSUME TypeOK, Order, [Next]_vars
    PROVE  TypeOK' /\ Order' /\ (~KeepPayload /\ Body => Body')
<1>1. CASE Next
  BY <1>1, ReadRequestPreserves, PublishPreserves, ControlPreserves, SendPayloadPreserves,
     ReadPayloadPreserves, StopPreserves, EnvironmentPreserves, Zenon DEF Next, Poll, Preserves
<1>2. CASE UNCHANGED vars
  <2>1. TypeOK'
    BY <1>2 DEF vars, inner, io, env, ghost, TypeOK
  <2>2. Order'
    BY <1>2, Zenon DEF vars, inner, io, env, ghost, Order, ResponsesInOrder, Settled
  <2>3. Body => Body'
    BY <1>2, Zenon DEF vars, inner, io, env, ghost, Body, Due
  <2> QED
    BY <2>1, <2>2, <2>3, Zenon
<1> QED
  BY <1>1, <1>2, Zenon

(* Dispatcher::new *)
LEMMA InitHolds == Init => TypeOK /\ Order /\ Body
<1> SUFFICES ASSUME Init PROVE TypeOK /\ Order /\ Body
  BY Zenon
<1>1. TypeOK
  <2>1. 0 \in 0 .. MaxReq
    BY DispatcherAssumption
  <2>2. payload \in BOOLEAN /\ unread \in BOOLEAN /\ reading \in BOOLEAN
        /\ closed \in BOOLEAN /\ shutdown \in BOOLEAN /\ broken \in BOOLEAN
    BY Zenon DEF Init
  <2>3. inbuf \in Seq(Items) /\ resp \in Seq({"none", "open", "done"})
    BY EmptySeq, Zenon DEF Init
  <2>4. /\ flags \subseteq {"SENT", "KA", "HDRS", "PL"} /\ timer \in {"off", "HDRS", "KA", "PL"}
        /\ head \in Heads \union {NoHead}
    BY Zenon DEF Init
  <2> QED
    BY <2>1, <2>2, <2>3, <2>4, Zenon DEF TypeOK, Init
<1>2. Order /\ Body
  BY DEF Init, Order, Body, ResponsesInOrder, Settled
<1> QED
  BY <1>1, <1>2, Zenon

(* The dispatcher's variables stay within their types (Dispatcher::poll). *)
THEOREM TypeCorrect == Spec => []TypeOK
<1>1. Init => TypeOK /\ Order
  BY InitHolds, Zenon
<1>2. TypeOK /\ Order /\ [Next]_vars => (TypeOK /\ Order)'
  BY StepPreserves, Zenon
<1> QED
  BY <1>1, <1>2, PTL DEF Spec

(* Requests are answered one at a time and in order, whatever peer,         *)
(* application and control service do (send_response, poll_send_payload).   *)
THEOREM AnswersInOrder == Spec => []ResponsesInOrder
<1>1. Init => TypeOK /\ Order
  BY InitHolds, Zenon
<1>2. TypeOK /\ Order /\ [Next]_vars => (TypeOK /\ Order)'
  BY StepPreserves, Zenon
<1>3. Order => ResponsesInOrder
  BY Zenon DEF Order
<1> QED
  BY <1>1, <1>2, <1>3, PTL DEF Spec

(* The message decoder is never called after it has failed                  *)
(* (check_disconnect guards poll_read_request).                             *)
THEOREM DecoderNotReused == Spec => []NoDecodeAfterError
<1>1. Init => TypeOK /\ Order
  BY InitHolds, Zenon
<1>2. TypeOK /\ Order /\ [Next]_vars => (TypeOK /\ Order)'
  BY StepPreserves, Zenon
<1>3. Order => NoDecodeAfterError
  BY Zenon DEF Order, NoDecodeAfterError, CanRead, MustDisconnect, Same
<1> QED
  BY <1>1, <1>2, <1>3, PTL DEF Spec

(* If payloads are dropped with the response at the latest, no byte of a    *)
(* body is decoded as a request (State::ReadPayload, State::ReadRequest).   *)
THEOREM BodiesAreNotRequests == ~KeepPayload => (Spec => []BodyNeverParsedAsHead)
<1> SUFFICES ASSUME ~KeepPayload PROVE Spec => []BodyNeverParsedAsHead
  BY Zenon
<1>1. Init => TypeOK /\ Order /\ Body
  BY InitHolds, Zenon
<1>2. TypeOK /\ Order /\ Body /\ [Next]_vars => (TypeOK /\ Order /\ Body)'
  BY StepPreserves, Zenon
<1>3. Body => BodyNeverParsedAsHead
  BY Zenon DEF Body, BodyNeverParsedAsHead, CanRead, MustDisconnect, Same, Due
<1> QED
  BY <1>1, <1>2, <1>3, PTL DEF Spec

-----------------------------------------------------------------------------
(* The timers.  There is one io timer for three purposes; it is off once it  *)
(* has fired.  Past the head of a request the header and keep-alive flags    *)
(* are gone, so that the timer is free for the payload; and while the        *)
(* dispatcher waits for a request there is no payload to time.               *)
Arms ==
    /\ fired # "no" => timer = "off"
    /\ ctl \in Disconnects => "SENT" \in flags
    /\ "SENT" \notin flags =>
        /\ "HDRS" \in flags => Armed("HDRS") /\ "KA" \notin flags
        /\ "KA" \in flags => Armed("KA")
        /\ "PL" \in flags /\ payload /\ rx \in {"ready", "full"} => Armed("PL")
        /\ st # "ReadRequest" => "HDRS" \notin flags /\ "KA" \notin flags
        /\ st = "ReadRequest" => ~payload

(* The same of an outcome, after the head *)
Timed(o) ==
    /\ o.fired # "no" => o.timer = "off"
    /\ "SENT" \notin o.flags =>
        /\ "HDRS" \notin o.flags /\ "KA" \notin o.flags
        /\ "PL" \in o.flags /\ o.payload /\ o.rx \in {"ready", "full"} =>
            o.timer = "PL" \/ o.fired = "PL"

(* The outcome a poll begins with *)
LEMMA SameTimed == ASSUME Arms, st # "ReadRequest" PROVE Timed(Same)
  BY Zenon DEF Arms, Timed, Same, Armed

(* update_payload_timer starts the timer with its flag. *)
LEMMA PayloadTimerTimed == ASSUME NEW o, Follows(o), Timed(o) PROVE Timed(PayloadTimer(o))
<1>1. CASE PlRate /\ "PL" \notin o.flags
  <2> DEFINE p == [o EXCEPT !.flags = @ \union {"PL"}, !.timer = "PL", !.fired = "no"]
  <2>1. /\ p.flags = o.flags \union {"PL"} /\ p.timer = "PL" /\ p.fired = "no"
        /\ p.payload = o.payload /\ p.rx = o.rx
    BY Zenon DEF Follows, Outcome
  <2>2. PayloadTimer(o) = p
    BY <1>1, Zenon DEF PayloadTimer
  <2> HIDE DEF p
  <2> QED
    BY <2>1, <2>2 DEF Timed
<1>2. CASE ~(PlRate /\ "PL" \notin o.flags)
  BY <1>2, Zenon DEF PayloadTimer
<1> QED
  BY <1>1, <1>2, Zenon

(* handle_timeout fails the payload or starts the timer again. *)
LEMMA HandleTimeoutTimed ==
    ASSUME TypeOK, Timed(Same), NEW o \in HandleTimeout PROVE Timed(o)
<1> DEFINE seen == [Same EXCEPT !.fired = "no"]
<1>1. /\ seen.flags = flags /\ seen.fired = "no" /\ seen.timer = timer
      /\ seen.payload = payload /\ seen.rx = rx
  BY Zenon DEF Same
<1>2. "SENT" \notin flags => "HDRS" \notin flags /\ "KA" \notin flags
  BY Zenon DEF Timed, Same
<1>3. CASE \E x \in {"error", rx} : /\ o = [seen EXCEPT !.res = "proto", !.rx = x]
                                    /\ payload /\ "PL" \in flags => x = "error"
  <2>1. PICK x \in {"error", rx} : /\ o = [seen EXCEPT !.res = "proto", !.rx = x]
                                   /\ payload /\ "PL" \in flags => x = "error"
    BY <1>3, Zenon
  <2>2. /\ o.flags = flags /\ o.fired = "no" /\ o.timer = timer /\ o.payload = payload /\ o.rx = x
    BY <2>1, Zenon DEF Same
  <2> QED
    BY <1>2, <2>1, <2>2, Zenon DEF Timed
<1>4. CASE o = [seen EXCEPT !.timer = "PL"]
  <2>1. o.flags = flags /\ o.fired = "no" /\ o.timer = "PL"
    BY <1>4, Zenon DEF Same
  <2> QED
    BY <1>2, <2>1, Zenon DEF Timed
<1>5. CASE o = seen /\ "HDRS" \notin flags /\ "PL" \notin flags
  BY <1>1, <1>2, <1>5, Zenon DEF Timed
<1> QED
  BY <1>3, <1>4, <1>5, Zenon DEF HandleTimeout, Same

(* poll_request_payload_inner *)
LEMMA PayloadPollTimed ==
    ASSUME TypeOK, Timed(Same), NEW o \in PayloadPoll PROVE Timed(o)
<1>0. Follows(Same)
  BY SameFollows, Zenon
<1>1. ASSUME payload, rx = "ready", o \in PayloadReady PROVE Timed(o)
  <2> DEFINE Fed(r) == [Same EXCEPT !.res = "ok", !.inbuf = Tail(@), !.rx = r]
             Last == [Same EXCEPT !.res = "ok", !.inbuf = Tail(@)]
  <2>1. CASE Front("data")
    <3>0. Tail(Same.inbuf) \in Seq(Items)
      BY <2>1, FrontTail, Zenon DEF Front, Same
    <3>1. PICK r \in {"ready", "full"} : o = PayloadTimer(Fed(r))
      BY <1>1, <2>1, Zenon DEF PayloadReady, Front, Nothing
    <3>2. Follows(Fed(r))
      BY <1>0, <3>0, DecodeFollows, Zenon
    <3>3. /\ Fed(r).flags = flags /\ Fed(r).timer = timer /\ Fed(r).fired = fired
          /\ Fed(r).payload = payload /\ Fed(r).rx = r
      BY Zenon DEF Same
    <3>4. Timed(Fed(r))
      <4> HIDE DEF Fed
      <4> QED
        BY <1>1, <3>3, Zenon DEF Timed, Same
    <3> HIDE DEF Fed
    <3> QED
      BY <3>1, <3>2, <3>4, PayloadTimerTimed, Zenon
  <2>2. CASE Front("last")
    <3>0. Tail(Same.inbuf) \in Seq(Items)
      BY <2>2, FrontTail, Zenon DEF Front, Same
    <3>1. o = [PayloadTimer(Last) EXCEPT !.flags = @ \ {"PL"}, !.payload = FALSE, !.unread = FALSE]
      BY <1>1, <2>2, Zenon DEF PayloadReady, Front, Nothing
    <3>2. Follows(Last)
      BY <1>0, <3>0, DecodeFollows, Zenon
    <3>3. /\ Last.flags = flags /\ Last.timer = timer /\ Last.fired = fired
          /\ Last.payload = payload /\ Last.rx = rx
      BY Zenon DEF Same
    <3> HIDE DEF Last
    <3>4. Timed(Last)
      BY <1>1, <3>3, Zenon DEF Timed, Same
    <3>5. Timed(PayloadTimer(Last)) /\ Follows(PayloadTimer(Last))
      BY <3>2, <3>4, PayloadTimerTimed, PayloadTimerFollows, Zenon
    <3>6. PICK p : p = PayloadTimer(Last)
      BY Zenon
    <3>7. /\ o.flags = p.flags \ {"PL"} /\ o.timer = p.timer /\ o.fired = p.fired
          /\ o.payload = FALSE
      BY <3>1, <3>5, <3>6, Zenon DEF Follows, Outcome
    <3> QED
      BY <3>5, <3>6, <3>7, Zenon DEF Timed
  <2>3. CASE \E x \in {"gone", "proto"} : o = [Same EXCEPT !.res = x, !.rx = "error"]
    <3>1. o.flags = flags /\ o.timer = timer /\ o.fired = fired /\ o.rx = "error"
      BY <2>3, Zenon DEF Same
    <3> QED
      BY <3>1, Zenon DEF Timed, Same
  <2>4. CASE o = PayloadTimer(Same)
    BY <1>0, <2>4, PayloadTimerTimed, Zenon
  <2>5. CASE o \in HandleTimeout
    BY <2>5, HandleTimeoutTimed, Zenon
  <2> QED
    BY <1>1, <2>1, <2>2, <2>3, <2>4, <2>5, Zenon DEF PayloadReady
<1>2. CASE o = [Same EXCEPT !.res = "ok"]
  <2>1. o.flags = flags /\ o.timer = timer /\ o.fired = fired /\ o.payload = payload /\ o.rx = rx
    BY <1>2, Zenon DEF Same
  <2> QED
    BY <2>1, Zenon DEF Timed, Same
<1>3. CASE o = PayloadFull
  <2>1. CASE "PL" \in flags
    <3>1. o.flags = flags \ {"PL"} /\ o.timer = "off" /\ o.fired = "no"
      BY <1>3, <2>1, Zenon DEF PayloadFull, Same
    <3> QED
      BY <3>1, Zenon DEF Timed, Same
  <2>2. CASE "PL" \notin flags
    BY <1>3, <2>2, Zenon DEF PayloadFull
  <2> QED
    BY <2>1, <2>2, Zenon
<1>4. CASE o = PayloadGone
  <2>1. o.flags = flags /\ o.timer = timer /\ o.fired = fired /\ o.payload = FALSE
    BY <1>4, Zenon DEF PayloadGone, Same
  <2> QED
    BY <2>1, Zenon DEF Timed, Same
<1> QED
  BY <1>1, <1>2, <1>3, <1>4, Zenon DEF PayloadPoll, TypeOK

(* How the dispatcher moves on with an outcome that is timed *)
LEMMA ProceedArms ==
    ASSUME NEW o, Follows(o), Timed(o), NEW s, NEW c, Proceed(s, c, o), Take(o),
           c \in Disconnects => "SENT" \in o.flags, s = "ReadRequest" => ~o.payload
    PROVE  Arms'
  BY Zenon DEF Proceed, Goto, Take, Timed, Arms, Armed

(* Who sends a disconnect has no timer to answer for. *)
LEMMA DisconnectArms ==
    ASSUME NEW o, Follows(o), o.fired # "no" => o.timer = "off", NEW c, Disconnect(c, o)
    PROVE  Arms'
<1> DEFINE p == [o EXCEPT !.flags = @ \union {"SENT"}]
<1>1. p.flags = o.flags \union {"SENT"} /\ p.timer = o.timer /\ p.fired = o.fired
  BY Zenon DEF Follows, Outcome
<1>2. flags' = p.flags /\ timer' = p.timer /\ fired' = p.fired
  BY Zenon DEF Disconnect, Goto
<1> HIDE DEF p
<1> QED
  BY <1>1, <1>2, Zenon DEF Arms

(* stop, once a disconnect was sent *)
LEMMA HaltArms ==
    ASSUME NEW o, Follows(o), "SENT" \in o.flags, Halt(o)
    PROVE  Arms'
<1>1. flags' = o.flags /\ fired' = "no"
  BY Zenon DEF Halt, Proceed, Goto, Follows, Outcome
<1> QED
  BY <1>1, Zenon DEF Arms

(* check_disconnect and ctl_svc_disconnect *)
LEMMA CheckArms ==
    ASSUME NEW o, Follows(o), o.fired # "no" => o.timer = "off",
           CheckDisconnect(o) \/ SvcDisconnect(o)
    PROVE  Arms'
<1>1. CASE "SENT" \in o.flags
  BY <1>1, HaltArms, Zenon DEF CheckDisconnect, SvcDisconnect
<1>2. CASE "SENT" \notin o.flags /\ SvcDisconnect(o)
  BY <1>2, DisconnectArms, Zenon DEF SvcDisconnect
<1>3. CASE "SENT" \notin o.flags /\ CheckDisconnect(o)
  <2> DEFINE p == [o EXCEPT !.disconnect = "none"]
  <2>1. p.flags = o.flags /\ p.timer = o.timer /\ p.fired = o.fired
    BY Zenon DEF Follows, Outcome
  <2>2. flags' = [p EXCEPT !.flags = @ \union {"SENT"}].flags
        /\ timer' = [p EXCEPT !.flags = @ \union {"SENT"}].timer
        /\ fired' = [p EXCEPT !.flags = @ \union {"SENT"}].fired
    BY <1>3, Zenon DEF CheckDisconnect, Disconnect, Goto
  <2>3. flags' = o.flags \union {"SENT"} /\ timer' = o.timer /\ fired' = o.fired
    BY <2>1, <2>2, Zenon DEF Follows, Outcome
  <2> QED
    BY <2>3, Zenon DEF Arms
<1> QED
  BY <1>1, <1>2, <1>3, Zenon

(* The response is complete. *)
LEMMA NextRequestArms ==
    ASSUME NEW o, Follows(o), Timed(o), NextRequest(o), Take(o)
    PROVE  Arms'
<1>1. o.fired # "no" => o.timer = "off"
  BY Zenon DEF Timed
<1>2. CASE CheckDisconnect(o)
  BY <1>1, <1>2, CheckArms, Zenon
<1>3. CASE Proceed(IF o.payload THEN "ReadPayload" ELSE "ReadRequest", "none", o)
  <2>1. "none" \notin Disconnects
    BY Zenon DEF Disconnects
  <2> QED
    BY <1>3, <2>1, ProceedArms, Zenon
<1> QED
  BY <1>2, <1>3, Zenon DEF NextRequest

(* send_response as a whole *)
LEMMA SendResponseArms ==
    ASSUME NEW o, Follows(o), Timed(o), NEW rc, NEW long, send_response(rc, long, o)
    PROVE  Arms'
<1>1. Take(o) /\ (o.fired # "no" => o.timer = "off") /\ "none" \notin Disconnects
  BY Zenon DEF send_response, Timed, Disconnects
<1>2. CASE Disconnect("gone", o)
  BY <1>1, <1>2, DisconnectArms, Zenon
<1>3. CASE Proceed("SendPayload", "none", o)
  BY <1>1, <1>3, ProceedArms, Zenon
<1>4. CASE NextRequest(o)
  BY <1>1, <1>4, NextRequestArms, Zenon
<1> QED
  BY <1>2, <1>3, <1>4, Zenon DEF send_response

(* State::ReadRequest *)
LEMMA ReadRequestArms ==
    ASSUME TypeOK, Arms, ReadRequest
    PROVE  Arms'
<1>1. Follows(Same) /\ (Same.fired # "no" => Same.timer = "off") /\ Same.flags = flags
  BY SameFollows, Zenon DEF Same, Arms
<1>2. CASE ReadShutdown
  BY <1>1, <1>2, CheckArms, Zenon DEF ReadShutdown
<1>3. CASE ReadHead
  <2>1. flags' = flags \ {"KA", "HDRS", "PL"} /\ timer' = timer /\ fired' = fired
    BY <1>3, Zenon DEF ReadHead, Proceed, Goto, Same
  <2>2. ctl' = "request" /\ st' = "CallControl"
    BY <1>3, Zenon DEF ReadHead, Proceed, Goto
  <2> QED
    BY <2>1, <2>2, Zenon DEF Arms, Disconnects
<1>4. CASE ReadMalformed \/ ReadGone
  BY <1>1, <1>4, DisconnectArms, Zenon DEF ReadMalformed, ReadGone
<1>5. CASE ReadPart
  <2>1. payload' = payload /\ rx' = rx /\ st' = st /\ ctl' = ctl
    BY <1>5, Zenon DEF ReadPart, Take, Same, Proceed, Goto
  <2>2. CASE "HDRS" \notin flags /\ HdrsRate
    <3>1. flags' = (flags \ {"KA", "PL"}) \union {"HDRS"} /\ timer' = "HDRS" /\ fired' = "no"
      BY <1>5, <2>2, Zenon DEF ReadPart, Same, Proceed, Goto
    <3>2. st = "ReadRequest"
      BY <1>5, Zenon DEF ReadPart, CanRead
    <3> QED
      BY <2>1, <3>1, <3>2, Zenon DEF Arms, Armed
  <2>3. CASE ~("HDRS" \notin flags /\ HdrsRate)
    <3>1. UNCHANGED <<flags, timer, fired>>
      BY <1>5, <2>3, Zenon DEF ReadPart, Same, Proceed, Goto
    <3> QED
      BY <2>1, <3>1, Zenon DEF Arms, Armed
  <2> QED
    BY <2>2, <2>3, Zenon
<1>6. CASE ReadIdle
  <2>1. CASE Disconnect("ka", Same)
    BY <1>1, <2>1, DisconnectArms, Zenon
  <2>2. CASE Proceed(st, ctl, [Same EXCEPT !.flags = @ \union {"KA"}, !.timer = "KA"])
    <3>1. /\ flags' = flags \union {"KA"} /\ timer' = "KA" /\ fired' = fired
          /\ st' = st /\ ctl' = ctl
      BY <2>2, Zenon DEF Proceed, Goto, Same
    <3>2. /\ st = "ReadRequest" /\ "HDRS" \notin flags /\ fired = "no" /\ "SENT" \notin flags
          /\ payload' = payload
      BY <1>6, Zenon DEF ReadIdle, CanRead, MustDisconnect, Same
    <3> QED
      BY <3>1, <3>2, Zenon DEF Arms, Armed
  <2> QED
    BY <1>6, <2>1, <2>2, Zenon DEF ReadIdle
<1>7. CASE ReadTimeout
  <2>1. CASE \E o \in HandleTimeout : Disconnect("proto", o)
    <3>1. PICK o \in HandleTimeout : Disconnect("proto", o)
      BY <2>1, Zenon
    <3>2. Follows(o)
      BY HandleTimeoutFollows, Zenon
    <3>3. o.fired = "no"
      BY Zenon DEF HandleTimeout, Same
    <3> QED
      BY <3>1, <3>2, <3>3, DisconnectArms, Zenon
  <2>2. CASE Disconnect("ka", [Same EXCEPT !.fired = "no"])
    <3>1. Follows([Same EXCEPT !.fired = "no"]) /\ [Same EXCEPT !.fired = "no"].fired = "no"
      BY <1>1, Zenon DEF Follows, Outcome
    <3> QED
      BY <2>2, <3>1, DisconnectArms, Zenon
  <2> QED
    BY <1>7, <2>1, <2>2, Zenon DEF ReadTimeout
<1> QED
  BY <1>2, <1>3, <1>4, <1>5, <1>6, <1>7, Zenon DEF ReadRequest

(* State::ReadPayload, when the payload goes with the response *)
LEMMA ReadPayloadArms ==
    ASSUME ~KeepPayload, TypeOK, Arms, ReadPayload
    PROVE  Arms'
<1>1. PICK o \in PayloadPoll :
        LET p == IF Failed(o) THEN [o EXCEPT !.flags = @ \union {"SENT"}] ELSE o IN
        /\ Take(p)
        /\ \/ MustDisconnect(p) /\ CheckDisconnect(p)
           \/ ~MustDisconnect(p) /\ p.res = "ok" /\ Proceed("ReadRequest", "none", p)
           \/ ~MustDisconnect(p) /\ p.res = "pending" /\ Proceed(st, ctl, p)
  BY Zenon DEF ReadPayload
<1>2. st = "ReadPayload" /\ rx = "dropped"
  BY Zenon DEF ReadPayload
<1>3. Timed(Same) /\ Follows(o)
  BY <1>2, SameTimed, PayloadPollFollows, Zenon
<1>4. Timed(o)
  BY <1>3, PayloadPollTimed, Zenon
<1>5. o = PayloadGone \/ (o = [Same EXCEPT !.res = "ok"] /\ ~payload)
  <2>1. CASE payload
    BY <1>2, <2>1, Zenon DEF PayloadPoll
  <2>2. CASE ~payload
    BY <2>2, Zenon DEF PayloadPoll
  <2> QED
    BY <2>1, <2>2, Zenon
<1>6. o.res \in {"ok", "pending"} /\ o.payload = FALSE
  BY <1>5, Zenon DEF PayloadGone, Same, TypeOK
<1>7. ~Failed(o)
  BY <1>6, Zenon DEF Failed
<1>8. /\ Take(o)
      /\ \/ CheckDisconnect(o)
         \/ Proceed("ReadRequest", "none", o)
         \/ ~MustDisconnect(o) /\ Proceed(st, ctl, o)
  BY <1>1, <1>7, Zenon
<1>9. (o.fired # "no" => o.timer = "off") /\ "none" \notin Disconnects
  BY <1>4, Zenon DEF Timed, Disconnects
<1>10. CASE CheckDisconnect(o)
  BY <1>3, <1>9, <1>10, CheckArms, Zenon
<1>11. CASE Proceed("ReadRequest", "none", o)
  BY <1>3, <1>4, <1>6, <1>8, <1>9, <1>11, ProceedArms, Zenon
<1>12. CASE Proceed(st, ctl, o)
  <2>1. ctl \in Disconnects => "SENT" \in o.flags
    BY <1>3, Zenon DEF Arms, Follows
  <2> QED
    BY <1>2, <1>3, <1>4, <1>6, <1>8, <1>12, <2>1, ProceedArms, Zenon
<1> QED
  BY <1>8, <1>10, <1>11, <1>12, Zenon

(* State::CallPublish *)
LEMMA PublishArms ==
    ASSUME TypeOK, Arms, PublishDone \/ PublishFailed \/ PublishPending
    PROVE  Arms'
<1>1. st = "CallPublish"
  BY Zenon DEF PublishDone, PublishFailed, PublishPending
<1>2. Timed(Same) /\ Follows(Same) /\ (Same.fired # "no" => Same.timer = "off")
  BY <1>1, SameTimed, SameFollows, Zenon DEF Same, Arms
<1>3. ctl \in Disconnects => "SENT" \in flags
  BY Zenon DEF Arms
<1>4. CASE PublishDone
  BY <1>2, <1>4, SendResponseArms, Zenon DEF PublishDone
<1>5. CASE PublishFailed
  BY <1>2, <1>5, DisconnectArms, Zenon DEF PublishFailed
<1>6. CASE PublishPending
  <2>1. ASSUME NEW o \in PayloadPoll, Take(o),
               IF Failed(o) THEN Disconnect(o.res, o) ELSE Proceed(st, ctl, o)
        PROVE  Arms'
    <3>1. Follows(o) /\ Timed(o)
      BY <1>2, PayloadPollFollows, PayloadPollTimed, Zenon
    <3>2. /\ o.fired # "no" => o.timer = "off"
          /\ ctl \in Disconnects => "SENT" \in o.flags
      BY <1>3, <3>1, Zenon DEF Timed, Follows
    <3> QED
      BY <1>1, <2>1, <3>1, <3>2, DisconnectArms, ProceedArms, Zenon
  <2>2. CASE Disconnect("gone", Same)
    BY <1>2, <2>2, DisconnectArms, Zenon
  <2>3. CASE ~payload /\ Proceed(st, ctl, [Same EXCEPT !.fired = "no"]) /\ Take(Same)
    <3>1. /\ st' = st /\ ctl' = ctl /\ flags' = flags /\ timer' = timer /\ fired' = "no"
          /\ payload' = payload
      BY <2>3, Zenon DEF Proceed, Goto, Take, Same
    <3> QED
      BY <1>1, <2>3, <3>1, Zenon DEF Arms
  <2> QED
    BY <1>6, <2>1, <2>2, <2>3, Zenon DEF PublishPending
<1> QED
  BY <1>4, <1>5, <1>6, Zenon

(* State::CallControl *)
LEMMA ControlArms ==
    ASSUME TypeOK, Arms, ControlDone \/ ControlPending
    PROVE  Arms'
<1>1. st = "CallControl"
  BY Zenon DEF ControlDone, ControlPending
<1>2. /\ Timed(Same) /\ Follows(Same) /\ (Same.fired # "no" => Same.timer = "off")
      /\ Same.flags = flags
  BY <1>1, SameTimed, SameFollows, Zenon DEF Same, Arms
<1>3. /\ ctl \in Disconnects => "SENT" \in flags
      /\ {"none", "expect", "upgrade"} \intersect Disconnects = {}
  BY Zenon DEF Arms, Disconnects
<1>4. ASSUME NEW r \in Reasons
      PROVE  /\ Follows([Same EXCEPT !.disconnect = r]) /\ Timed([Same EXCEPT !.disconnect = r])
  <2>1. Follows([Same EXCEPT !.disconnect = r])
    BY <1>2, MarkFollows, Zenon
  <2>2. \A f \in {"flags", "timer", "fired", "payload", "rx"} : [Same EXCEPT !.disconnect = r][f] = Same[f]
    BY Zenon DEF Same
  <2> QED
    BY <1>2, <2>1, <2>2, Zenon DEF Timed
<1>5. ASSUME NEW s \in {"CallControl", "CallPublish", "Done"}, NEW c \in {"none", "expect", "upgrade"},
             Proceed(s, c, Same), Take(Same)
      PROVE  Arms'
  BY <1>2, <1>3, <1>5, ProceedArms, Zenon
<1>6. CASE AckRequest \/ AckExpect
  <2>1. Take(Same)
    BY <1>6, Zenon DEF AckRequest, AckExpect
  <2>2. \/ Disconnect("gone", Same)
        \/ \E s \in {"CallControl", "CallPublish"}, c \in {"none", "expect", "upgrade"} : Proceed(s, c, Same)
    BY <1>6, Zenon DEF AckRequest, AckExpect, CtlUpgrade, Publish
  <2> QED
    BY <1>2, <1>5, <2>1, <2>2, DisconnectArms, Zenon
<1>7. CASE AckUpgrade
  <2>1. CASE SvcDisconnect(Same)
    BY <1>2, <2>1, CheckArms, Zenon
  <2>2. CASE Publish([Same EXCEPT !.disconnect = "UpgradeHandled"])
    <3> DEFINE o == [Same EXCEPT !.disconnect = "UpgradeHandled"]
    <3>1. Take(Same) /\ Proceed("CallPublish", "none", o)
      BY <1>7, <2>2, Zenon DEF AckUpgrade, Publish
    <3>2. Take(o)
      BY <3>1, Zenon DEF Take, Same
    <3>3. Follows(o) /\ Timed(o)
      BY <1>4, Zenon DEF Reasons
    <3> QED
      BY <1>3, <3>1, <3>2, <3>3, ProceedArms, Zenon
  <2> QED
    BY <1>7, <2>1, <2>2, Zenon DEF AckUpgrade
<1>8. CASE Respond
  <2>1. \E rc \in ResponseTypes, long \in BOOLEAN :
            \/ send_response(rc, long, Same)
            \/ \E r \in Reasons : send_response(rc, long, [Same EXCEPT !.disconnect = r])
    BY <1>8, Zenon DEF Respond, Reasons
  <2> QED
    BY <1>2, <1>4, <2>1, SendResponseArms, Zenon
<1>9. CASE AckDisconnect
  <2>1. "SENT" \in Same.flags
    BY <1>2, <1>3, <1>9, Zenon DEF AckDisconnect, Disconnects
  <2> QED
    BY <1>2, <1>9, <2>1, HaltArms, Zenon DEF AckDisconnect
<1>10. CASE ControlFailed
  BY <1>5, <1>10, Zenon DEF ControlFailed
<1>11. CASE ControlPending
  <2>1. PICK o \in PayloadPoll : Take(o) /\ Proceed(st, ctl, o)
    BY <1>11, Zenon DEF ControlPending
  <2>2. Follows(o) /\ Timed(o)
    BY <1>2, PayloadPollFollows, PayloadPollTimed, Zenon
  <2>3. ctl \in Disconnects => "SENT" \in o.flags
    BY <1>3, <2>2, Zenon DEF Follows
  <2> QED
    BY <1>1, <2>1, <2>2, <2>3, ProceedArms, Zenon
<1> QED
  BY <1>6, <1>7, <1>8, <1>9, <1>10, <1>11, Zenon DEF ControlDone

(* State::SendPayload *)
LEMMA SendPayloadArms ==
    ASSUME TypeOK, Arms, SendPayload
    PROVE  Arms'
<1>1. st = "SendPayload"
  BY Zenon DEF SendPayload
<1>2. Timed(Same) /\ Follows(Same) /\ (Same.fired # "no" => Same.timer = "off")
  BY <1>1, SameTimed, SameFollows, Zenon DEF Same, Arms
<1>3. ctl \in Disconnects => "SENT" \in flags
  BY Zenon DEF Arms
<1>4. CASE Disconnect("gone", Same)
  BY <1>2, <1>4, DisconnectArms, Zenon
<1>5. ASSUME NEW o \in SendPoll, Take(o),
             Proceed(st, ctl, o) \/ NextRequest(o) \/ Disconnect("proto", o)
      PROVE  Arms'
  <2>1. Follows(o) /\ Timed(o)
    <3>1. CASE disconnect # "none"
      BY <1>2, <1>5, <3>1, Zenon DEF SendPoll
    <3>2. CASE disconnect = "none"
      <4>1. PICK p \in PayloadPoll :
              o = IF Failed(p)
                  THEN [p EXCEPT !.flags = @ \union {"SENT"}, !.disconnect = "PayloadDropped"]
                  ELSE p
        BY <1>5, <3>2, Zenon DEF SendPoll
      <4>2. Follows(p) /\ Timed(p)
        BY <1>2, PayloadPollFollows, PayloadPollTimed, Zenon
      <4>3. CASE Failed(p)
        <5>1. o = [p EXCEPT !.flags = @ \union {"SENT"}, !.disconnect = "PayloadDropped"]
          BY <4>1, <4>3, Zenon
        <5>2. Follows(o)
          BY <4>2, <5>1, MarkFollows, Zenon DEF Reasons
        <5>3. o.fired = p.fired /\ o.timer = p.timer /\ "SENT" \in o.flags
          BY <4>2, <5>1, Zenon DEF Follows, Outcome
        <5> QED
          BY <4>2, <5>2, <5>3, Zenon DEF Timed
      <4> QED
        BY <4>1, <4>2, <4>3, Zenon
    <3> QED
      BY <3>1, <3>2, Zenon
  <2>2. /\ o.fired # "no" => o.timer = "off"
        /\ ctl \in Disconnects => "SENT" \in o.flags
    BY <1>3, <2>1, Zenon DEF Timed, Follows
  <2>3. CASE Proceed(st, ctl, o)
    BY <1>1, <1>5, <2>1, <2>2, <2>3, ProceedArms, Zenon
  <2> QED
    BY <1>5, <2>1, <2>2, <2>3, NextRequestArms, DisconnectArms, Zenon
<1> QED
  BY <1>4, <1>5, Zenon DEF SendPayload

(* State::Stop *)
LEMMA StopArms ==
    ASSUME TypeOK, Arms, Stop
    PROVE  Arms'
<1>1. Timed(Same) /\ Follows(Same) /\ Take(Same) /\ Proceed("Done", "none", Same)
  BY SameTimed, SameFollows, Zenon DEF Stop, Take, Same
<1>2. "none" \notin Disconnects
  BY Zenon DEF Disconnects
<1> QED
  BY <1>1, <1>2, ProceedArms, Zenon

(* The peer, the timer and the holder of the payload *)
LEMMA EnvironmentArms ==
    ASSUME TypeOK, Arms, Environment
    PROVE  Arms'
<1>1. UNCHANGED <<st, ctl, flags, payload>>
  BY Zenon DEF Environment, PeerSend, PeerClose, TimerFires, AppReads, AppDrops, BeginShutdown, inner
<1>2. CASE TimerFires
  <2>1. UNCHANGED rx /\ fired' = timer /\ timer' = "off" /\ timer # "off"
    BY <1>2, Zenon DEF TimerFires, env
  <2> QED
    BY <1>1, <2>1, Zenon DEF Arms, Armed
<1>3. CASE AppReads \/ AppDrops
  <2>1. UNCHANGED <<timer, fired>> /\ (rx' \in {"ready", "full"} => rx = "full")
    BY <1>3, Zenon DEF AppReads, AppDrops, io
  <2> QED
    BY <1>1, <2>1, Zenon DEF Arms, Armed
<1>4. CASE PeerSend \/ PeerClose \/ BeginShutdown
  <2>1. UNCHANGED <<timer, fired, rx>>
    BY <1>4, Zenon DEF PeerSend, PeerClose, BeginShutdown, io, env
  <2> QED
    BY <1>1, <2>1, Zenon DEF Arms, Armed
<1> QED
  BY <1>2, <1>3, <1>4, Zenon DEF Environment

(* A read timeout that is switched on has its timer running or its expiry    *)
(* waiting to be seen (update_hdrs_timer, update_payload_timer,              *)
(* reset_keepalive and handle_timeout share one io timer), when the payload  *)
(* goes with the response.                                                   *)
THEOREM TimersAreArmed == ~KeepPayload => (Spec => []TimeoutsAreArmed)
<1> SUFFICES ASSUME ~KeepPayload PROVE Spec => []TimeoutsAreArmed
  BY Zenon
<1> DEFINE TimeInv == TypeOK /\ Order /\ Arms
<1>1. Init => TimeInv
  <2> SUFFICES ASSUME Init PROVE Arms
    BY InitHolds, Zenon
  <2> QED
    BY Zenon DEF Init, Arms, Disconnects, Armed
<1>2. TimeInv /\ [Next]_vars => TimeInv'
  <2> SUFFICES ASSUME TypeOK, Order, Arms, [Next]_vars PROVE Arms'
    BY StepPreserves, Zenon
  <2>1. CASE Next
    BY <2>1, ReadRequestArms, ReadPayloadArms, PublishArms, ControlArms, SendPayloadArms, StopArms,
       EnvironmentArms, Zenon DEF Next, Poll
  <2>2. CASE UNCHANGED vars
    <3>1. UNCHANGED <<st, ctl, flags, payload, rx, timer, fired>>
      BY <2>2, Zenon DEF vars, inner, io, env
    <3> QED
      BY <3>1, Zenon DEF Arms, Armed
  <2> QED
    BY <2>1, <2>2, Zenon
<1>3. TimeInv => TimeoutsAreArmed
  BY Zenon DEF Arms, TimeoutsAreArmed
<1> QED
  BY <1>1, <1>2, <1>3, PTL DEF Spec

==============================================================================
