--------------------------- MODULE HyperTransport ---------------------------
(***************************************************************************)
(* A geario connection served by hyper (geario-http/src/hyper_rt): the     *)
(* protocol is detected from the first bytes (serve.rs), then              *)
(* GearioTransport (transport.rs) answers hyper's poll_read, poll_write,   *)
(* poll_flush and poll_shutdown from geario's buffered Io.                 *)
(*                                                                         *)
(* geario's Io and hyper are external.  Io has a read buffer, a write      *)
(* buffer with watermarks, and one waker for each half of hyper's task:    *)
(* one reads, the other writes, flushes and shuts down.  A half that was   *)
(* told Pending does nothing until it is woken.  Bytes are numbered in the *)
(* order they are sent.                                                    *)
(***************************************************************************)
EXTENDS Integers, Sequences, FiniteSetsExt

CONSTANTS Preface,   \* length of the HTTP/2 preface: 24 in the code
          MaxIn,     \* bound: bytes of the remote
          MaxOut,    \* bound: bytes of hyper
          Quantum,   \* MAX_BUFFERED_WRITE
          High, Low  \* the Io's write watermarks

ASSUME HyperTransportAssumption ==
    /\ {Preface, Quantum, High} \subseteq Nat \ {0} /\ MaxIn \in Nat /\ MaxOut \in Nat
    /\ Low \in 0 .. High - 1

VARIABLES
    remote,  \* the peer: differs is its first byte that is not the preface's,
             \* beyond the preface if it speaks HTTP/2; sent, how much it sent
    rd,      \* read side of Io: bytes in the buffer, waker
    wr,      \* write side: buffer, backpressure flag, waker and what it waits for
    sock,    \* what has been handed to the socket
    io,      \* "open", "closing", "closed" (NotConnected) or "reset"
    rtask,   \* the reading half: what it does, and what it has got
    wtask,   \* the writing half: what it does, and how much it has handed over
    shutting_down

hyvars == <<remote, rd, wr, sock, io, rtask, wtask, shutting_down>>

IoGone == io \in {"closed", "reset"}

HyperTypeOK ==
    /\ remote.differs \in 1 .. Preface + 1 /\ remote.sent \in 0 .. MaxIn
    /\ rd.buf \in Seq(1 .. MaxIn) /\ rd.waker \in BOOLEAN
    /\ wr.buf \in Seq(1 .. MaxOut) /\ wr.back \in BOOLEAN
    /\ wr.waker \in {"none", "low", "empty", "closed"}
    /\ rtask.at \in {"detect", "run", "eof", "error"} /\ rtask.as \in {"none", "h1", "h2"}
    /\ wtask.at \in {"idle", "run", "closing", "shut", "ended", "error"}
    /\ io \in {"open", "closing", "closed", "reset"} /\ shutting_down \in BOOLEAN

HyperInit ==
    /\ \E d \in 1 .. Preface + 1 :
        remote = [differs |-> d, sent |-> 0]
    /\ rd = [buf |-> <<>>, waker |-> FALSE]
    /\ wr = [buf |-> <<>>, back |-> FALSE, waker |-> "none"]
    /\ sock = <<>> /\ io = "open" /\ shutting_down = FALSE
    /\ rtask = [at |-> "detect", parked |-> FALSE, got |-> <<>>, as |-> "none"]
    /\ wtask = [at |-> "idle", parked |-> FALSE, given |-> 0, flushed |-> 0]

-----------------------------------------------------------------------------
(* External: the driver of geario's Io *)

(* The halves after an event that wakes them *)
wokenReader == [rtask EXCEPT !.parked = FALSE]
wokenWriter == [wtask EXCEPT !.parked = FALSE]

Arrive ==
    /\ io = "open" /\ remote.sent < MaxIn
    /\ remote' = [remote EXCEPT !.sent = @ + 1]
    /\ rd' = [buf |-> Append(rd.buf, remote.sent + 1), waker |-> FALSE]
    /\ rtask' = IF rd.waker THEN wokenReader ELSE rtask
    /\ UNCHANGED <<wr, sock, io, wtask, shutting_down>>

(* n bytes of the write buffer are handed to the socket; who waits for the   *)
(* low watermark or for an empty buffer is woken.                            *)
afterSend(n) == [wr EXCEPT !.buf = SubSeq(@, n + 1, Len(@)), !.back = @ /\ Len(wr.buf) - n > Low]
Awaited(w) ==
    \/ w.waker = "low" /\ Len(w.buf) <= Low
    \/ w.waker = "empty" /\ w.buf = <<>>

Transmit ==
    /\ ~IoGone
    /\ \E n \in 1 .. Len(wr.buf) :
        /\ sock' = sock \o SubSeq(wr.buf, 1, n)
        /\ wr' = [afterSend(n) EXCEPT !.waker = IF Awaited(afterSend(n)) THEN "none" ELSE @]
        /\ wtask' = IF Awaited(afterSend(n)) THEN wokenWriter ELSE wtask
    /\ UNCHANGED <<remote, rd, io, rtask, shutting_down>>

(* The stream ends: our shutdown when all is sent, or the peer at any time. *)
IoClose(how) ==
    /\ ~IoGone /\ io' = how
    /\ rd' = [rd EXCEPT !.waker = FALSE] /\ wr' = [wr EXCEPT !.waker = "none"]
    /\ rtask' = wokenReader /\ wtask' = wokenWriter
    /\ UNCHANGED <<remote, sock, shutting_down>>
ShutDone == io = "closing" /\ wr.buf = <<>> /\ IoClose("closed")
PeerClose == IoClose("closed") \/ IoClose("reset")

(* Io::poll_read_ready after the buffer has been looked at, which resets the *)
(* ready flag: Ready(Ok(None)), Ready(Err), Ready(Ok(Some)) though nothing   *)
(* is there, or Pending with the waker registered.                           *)
poll_read_ready ==
    CASE io = "closed" -> {"none"} [] io = "reset" -> {"error"} [] ~IoGone -> {"some", "pending"}

(* What a half does next, when poll_read_ready said o: "some" polls again. *)
afterReadReady(o) ==
    /\ rd' = [rd EXCEPT !.waker = o = "pending"]
    /\ rtask' = CASE o = "none" -> [rtask EXCEPT !.at = IF @ = "detect" THEN "error" ELSE "eof"]
                   [] o = "error" -> [rtask EXCEPT !.at = "error"]
                   [] o = "pending" -> [rtask EXCEPT !.parked = TRUE]
                   [] o = "some" -> rtask

-----------------------------------------------------------------------------
(* detect: the buffer is looked at, and left as it is. *)
verdictByPrefix ==
    IF rd.buf = <<>> THEN "unknown" ELSE IF Len(rd.buf) < remote.differs THEN "h2" ELSE "h1"
verdict ==
    IF Len(rd.buf) >= Preface THEN (IF remote.differs > Preface THEN "h2" ELSE "h1")
    ELSE IF Len(rd.buf) < remote.differs THEN "unknown" ELSE "h1"

(* serve_auto: when the protocol is known hyper gets the transport. *)
Detect ==
    /\ rtask.at = "detect" /\ ~rtask.parked
    /\ \/ /\ verdict # "unknown" /\ UNCHANGED rd
          /\ rtask' = [rtask EXCEPT !.at = "run", !.as = verdict]
          /\ wtask' = [wtask EXCEPT !.at = "run"]
       \/ /\ verdict = "unknown" /\ UNCHANGED wtask
          /\ \E o \in poll_read_ready : afterReadReady(o)
    /\ UNCHANGED <<remote, wr, sock, io, shutting_down>>

(* drain_read_buffer *)
drain_read_buffer(room) ==
    LET n == Min({Len(rd.buf), room})
    IN  /\ n > 0
        /\ rd' = [rd EXCEPT !.buf = SubSeq(@, n + 1, Len(@))]
        /\ rtask' = [rtask EXCEPT !.got = @ \o SubSeq(rd.buf, 1, n)]
        /\ UNCHANGED remote

(* poll_read with the buffer empty.  poll_read_ready may find a byte on the  *)
(* socket.  If it says that there are some and there are none, it is asked   *)
(* once more, so that Pending always has a waker.                            *)
PollEmptyOnce ==
    \/ /\ io = "open" /\ remote.sent < MaxIn /\ UNCHANGED rd
       /\ remote' = [remote EXCEPT !.sent = @ + 1]
       /\ rtask' = [rtask EXCEPT !.got = Append(@, remote.sent + 1)]
    \/ /\ UNCHANGED remote
       /\ \E o \in poll_read_ready :
            IF o = "some" THEN rtask' = [rtask EXCEPT !.parked = TRUE] /\ UNCHANGED rd
            ELSE afterReadReady(o)
PollEmpty ==
    \/ /\ io = "open" /\ remote.sent < MaxIn /\ UNCHANGED rd
       /\ remote' = [remote EXCEPT !.sent = @ + 1]
       /\ rtask' = [rtask EXCEPT !.got = Append(@, remote.sent + 1)]
    \/ /\ UNCHANGED remote
       /\ \E first, second \in poll_read_ready :
            afterReadReady(IF first = "some" THEN second ELSE first)

PollRead(room) ==
    /\ rtask.at = "run" /\ ~rtask.parked
    /\ \/ drain_read_buffer(room)
       \/ rd.buf = <<>> /\ PollEmpty
    /\ UNCHANGED <<wr, sock, io, wtask, shutting_down>>

-----------------------------------------------------------------------------
NextBytes(n) == [i \in 1 .. n |-> wtask.given + i]
Fails == wtask' = [wtask EXCEPT !.at = "error"] /\ UNCHANGED <<wr, sock>>
Parks(until) ==
    wtask' = [wtask EXCEPT !.parked = TRUE] /\ wr' = [wr EXCEPT !.waker = until] /\ UNCHANGED sock

(* try_write_vectored: the socket takes some, unless bytes are queued. *)
try_write_vectored(len) == IF wr.buf = <<>> THEN 0 .. len ELSE {0}

(* with_write_buf, for the slices a call gave (head and body, or one): at    *)
(* most one quantum is copied.                                               *)
bufferedAll(head, body) == head + body
buffered(head, body) ==
    LET written == Min({head, Quantum}) IN written + Min({body, Quantum - written})

(* poll_write, and poll_write_vectored for two slices *)
PollWrite(head, body) ==
    LET len == head + body
    IN  /\ wtask.at = "run" /\ ~wtask.parked /\ wtask.given + len <= MaxOut
        /\ \/ IoGone /\ Fails
           \/ ~IoGone /\ wr.back /\ Parks("low")
           \/ /\ ~IoGone /\ ~wr.back
              /\ \E n \in try_write_vectored(len) :
                    IF n > 0
                    THEN /\ sock' = sock \o NextBytes(n) /\ UNCHANGED wr
                         /\ wtask' = [wtask EXCEPT !.given = @ + n]
                    ELSE LET k == buffered(head, body)
                         IN  /\ wr' = [wr EXCEPT !.buf = @ \o NextBytes(k),
                                                 !.back = Len(wr.buf) + k >= High]
                             /\ wtask' = [wtask EXCEPT !.given = @ + k] /\ UNCHANGED sock
    /\ UNCHANGED <<remote, rd, io, rtask, shutting_down>>

(* finished_or, for the error flush reports *)
finished_or == IF shutting_down /\ io = "closed" THEN "ok" ELSE "error"

(* poll_flush: send_buf, then wait for an empty buffer.  flushed is how much *)
(* hyper has been told is sent.                                              *)
PollFlush ==
    /\ ~wtask.parked
    /\ \/ wtask.at = "run" /\ wtask.flushed < wtask.given
       \/ wtask.at = "shut"
    /\ \/ /\ IoGone /\ UNCHANGED <<wr, sock>>
          /\ wtask' = [wtask EXCEPT !.at = IF finished_or = "error" THEN "error"
                                              ELSE IF @ = "shut" THEN "ended" ELSE @]
       \/ /\ ~IoGone
          /\ \E n \in 0 .. Len(wr.buf) :
                /\ sock' = sock \o SubSeq(wr.buf, 1, n)
                /\ IF n = Len(wr.buf)
                   THEN /\ wr' = afterSend(n)
                        /\ wtask' = [wtask EXCEPT !.flushed = wtask.given]
                   ELSE /\ wr' = [afterSend(n) EXCEPT !.waker = "empty"]
                        /\ wtask' = [wtask EXCEPT !.parked = TRUE]
    /\ UNCHANGED <<remote, rd, io, rtask, shutting_down>>

(* poll_shutdown, when hyper has written all; it is Ready once Io is closed. *)
PollShutdown ==
    /\ wtask.at \in {"run", "closing"} /\ ~wtask.parked /\ wtask.given = MaxOut
    /\ shutting_down' = TRUE
    /\ \/ IoGone /\ wtask' = [wtask EXCEPT !.at = "shut"] /\ UNCHANGED <<io, wr>>
       \/ /\ ~IoGone /\ io' = "closing"
          /\ wtask' = [wtask EXCEPT !.at = "closing", !.parked = TRUE]
          /\ wr' = [wr EXCEPT !.waker = "closed"]
    /\ UNCHANGED <<remote, rd, sock, rtask>>

(* What hyper gives to a call: all it has, some of it, or all in two slices. *)
Slices == LET rest == MaxOut - wtask.given IN {<<rest, 0>>, <<1, 0>>, <<1, rest - 1>>}

PollWrites == wtask.given < MaxOut /\ \E bufs \in Slices : PollWrite(bufs[1], bufs[2])
PollReads == \E room \in 1 .. 2 : PollRead(room)

HyperNext ==
    \/ Arrive \/ Transmit \/ ShutDone \/ PeerClose
    \/ Detect \/ PollReads \/ PollWrites \/ PollFlush \/ PollShutdown

(* A half that is not waiting is polled (and Io is not ready with nothing    *)
(* for ever), and the driver sends what is buffered as long as the stream is *)
(* there.  Nothing is assumed of the peer, and hyper need not shut down; but *)
(* it stays with a shutdown it has begun.                                    *)
PollShutdowns == wtask.at = "closing" /\ PollShutdown
HyperSpec ==
    /\ HyperInit /\ [][HyperNext]_hyvars
    /\ WF_hyvars(Detect) /\ WF_hyvars(PollReads)
    /\ WF_hyvars(PollWrites) /\ WF_hyvars(PollFlush) /\ WF_hyvars(PollShutdowns)
    /\ WF_hyvars(Transmit) /\ WF_hyvars(ShutDone)

-----------------------------------------------------------------------------
UpTo(n) == [i \in 1 .. n |-> i]

(* The protocol hyper is started with is the one the peer speaks, however    *)
(* its first bytes are cut; hyper then reads every byte of the connection in *)
(* order, those that were looked at included, and is told of the end only    *)
(* after the last one.                                                       *)
ReadsAll ==
    /\ HyperTypeOK
    /\ rtask.got \o rd.buf = UpTo(remote.sent)
    /\ rtask.as # "none" => (rtask.as = "h2" <=> remote.differs > Preface)
    /\ rtask.at = "eof" => rd.buf = <<>>

(* Bytes reach the socket in the order hyper wrote them, whether directly or *)
(* through the buffer; "the high watermark can be exceeded by at most one    *)
(* copy quantum"; a flush that succeeds has sent everything; and a           *)
(* connection that hyper shut down itself does not end in an error unless    *)
(* the peer broke it.                                                        *)
WritesInOrder ==
    /\ sock \o wr.buf = UpTo(wtask.given)
    /\ Len(wr.buf) <= High - 1 + Quantum
    /\ wtask.flushed <= Len(sock)
    /\ wtask.at = "error" /\ shutting_down => io = "reset"

(* No half waits for ever: the protocol is told once the preface is there,   *)
(* what has arrived is read, the end of the stream is noticed, what is       *)
(* written is sent, and a shutdown ends.                                     *)
HyperProceeds ==
    /\ remote.sent >= Preface ~> rtask.at # "detect"
    /\ \A k \in 1 .. MaxIn :
            remote.sent >= k ~> Len(rtask.got) >= k \/ rtask.at \in {"detect", "error"}
    /\ io = "closed" ~> rtask.at \in {"eof", "error"}
    /\ wtask.at = "run" ~> wtask.flushed = MaxOut \/ wtask.at # "run"
    /\ wtask.at = "closing" ~> wtask.at \in {"ended", "error"}
=============================================================================
