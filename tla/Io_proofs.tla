----------------------------- MODULE Io_proofs ------------------------------
(***************************************************************************)
(* What watches, moves and frames the bytes of a connection: the read-rate *)
(* timers of the dispatcher, for every rate, timeout and width of the      *)
(* counters; hyper on geario's Io, for any length of the preface, quantum, *)
(* watermarks and number of bytes; and the exchanges of client and server, *)
(* for every set of requests and responses.                                *)
(***************************************************************************)
EXTENDS ReadTimer, HyperTransport, H1Exchange, SequenceTheorems, TLAPS

-----------------------------------------------------------------------------
(* The read-rate timers. *)

(* The inductive invariant: a running timer has spent exactly what          *)
(* read_max_timeout lacks, and a head's expiry finds nothing consumed.      *)
Spent ==
    timer \in Kinds /\ Rate[timer].max_timeout # 0 =>
        /\ read_max_timeout > 0
        /\ deadline = Rate[timer].max_timeout - read_max_timeout + Rate[timer].timeout

TimerInv ==
    /\ TimerTypeOK
    /\ timer = "HDRS" => read_consumed = 0
    /\ Spent

(* The two rates are records of natural numbers. *)
LEMMA RateFields ==
    ASSUME NEW k \in Kinds
    PROVE  /\ Rate[k].rate \in Nat
           /\ Rate[k].timeout \in Nat /\ Rate[k].timeout > 0
           /\ Rate[k].max_timeout \in Nat
  BY RateAssumption

(* Dispatcher::new starts the header timer with all of its time left. *)
LEMMA TimerInvInit == TimerInit => TimerInv
  <1> SUFFICES ASSUME TimerInit PROVE TimerInv
    BY Zenon
  <1>1. "HDRS" \in Kinds
    BY Zenon DEF Kinds
  <1>2. Rate["HDRS"].max_timeout \in Nat /\ Rate["HDRS"].timeout \in Nat
    BY <1>1, RateFields, Zenon
  <1>3. TimerTypeOK
    BY <1>1, <1>2, RateAssumption DEF TimerInit, TimerTypeOK
  <1>4. Spent
    BY <1>2 DEF TimerInit, Spent
  <1> QED
    BY <1>3, <1>4, Zenon DEF TimerInv, TimerInit

(* Starting a timer, from update_hdrs_timer or update_payload_timer, gives   *)
(* it all of its time.                                                       *)
LEMMA TimerStarted ==
    ASSUME NEW k \in Kinds, StartTimer(k)
    PROVE  /\ timer' = k /\ deadline' \in Nat
           /\ read_max_timeout' \in Nat
           /\ Spent'
  BY RateFields DEF StartTimer, Spent

(* Every step of the dispatcher's timers preserves the invariant. *)
LEMMA TimerInvStep == TimerInv /\ [TimerNext]_tvars => TimerInv'
  <1> SUFFICES ASSUME TimerInv, [TimerNext]_tvars PROVE TimerInv'
    BY Zenon
  <1> USE DEF counts
  <1>t. /\ TimerTypeOK /\ Spent /\ (timer = "HDRS" => read_consumed = 0)
        /\ MaxBytes \in Nat /\ Word \in Nat \ {0} /\ MaxBytes < Word
        /\ "HDRS" \in Kinds /\ "PL" \in Kinds
        /\ "off" \notin Kinds /\ "failed" \notin Kinds
    BY RateAssumption, Zenon DEF TimerInv, Kinds
  <1>1. CASE UNCHANGED tvars
    BY <1>t, <1>1, Zenon DEF tvars, TimerInv, TimerTypeOK, Spent
  <1>2. ASSUME NEW n \in 0 .. MaxBytes, NEW l \in 0 .. MaxBytes, HeadPart(n, l)
        PROVE  TimerInv'
    <2>1. l \in 0 .. Word - 1 /\ unread' = l /\ read_remains' = l
      BY <1>t, <1>2 DEF HeadPart, ReadSome
    <2>2. CASE timer = "HDRS"
               /\ UNCHANGED <<timer, read_consumed, read_max_timeout, deadline>>
      <3>1. Spent'
        BY <1>t, <2>2, Zenon DEF Spent
      <3> QED
        BY <1>t, <2>1, <2>2, <3>1, Zenon DEF TimerInv, TimerTypeOK
    <2>3. CASE timer = "off" /\ read_consumed' = 0 /\ StartTimer("HDRS")
      <3>2. /\ timer' = "HDRS" /\ deadline' \in Nat
            /\ read_max_timeout' \in Nat /\ Spent'
        BY <1>t, <2>3, TimerStarted, Zenon
      <3> QED
        BY <1>t, <2>1, <2>3, <3>2 DEF TimerInv, TimerTypeOK
    <2> QED
      BY <1>2, <2>2, <2>3, Zenon DEF HeadPart
  <1>3. ASSUME NEW n \in 0 .. MaxBytes, NEW l \in 0 .. MaxBytes, HeadDone(n, l)
        PROVE  TimerInv'
    <2>1. Spent'
      BY <1>t, <1>3, Zenon DEF HeadDone, Spent
    <2> QED
      BY <1>t, <1>3, <2>1 DEF HeadDone, ReadSome, TimerInv, TimerTypeOK
  <1>4. ASSUME NEW n \in 0 .. MaxBytes, NEW l \in 0 .. MaxBytes, BodyPart(n, l)
        PROVE  TimerInv'
    <2>1. l \in 0 .. Word - 1 /\ unread' = l /\ read_remains' = l
          /\ unread + n - l \in 0 .. Word - 1
      BY <1>t, <1>4 DEF BodyPart, ReadSome, TimerTypeOK
    <2>2. CASE timer = "PL"
               /\ read_consumed' = (read_consumed + (unread + n - l)) % Word
               /\ UNCHANGED <<timer, read_max_timeout, deadline>>
      <3>1. Spent'
        BY <1>t, <2>2, Zenon DEF Spent
      <3>2. read_consumed' \in 0 .. Word - 1
        <4> DEFINE s == read_consumed + (unread + n - l)
        <4>1. s \in Nat /\ Word \in Nat /\ Word > 0
          BY <1>t, <2>1 DEF TimerTypeOK
        <4>2. s % Word \in 0 .. Word - 1
          <5> HIDE DEF s
          <5> QED BY <4>1
        <4> QED
          BY <2>2, <4>2, Zenon
      <3> QED
        BY <1>t, <2>1, <2>2, <3>1, <3>2, Zenon DEF TimerInv, TimerTypeOK
    <2>3. CASE timer = "off" /\ read_consumed' = unread + n - l /\ StartTimer("PL")
      <3>2. /\ timer' = "PL" /\ deadline' \in Nat
            /\ read_max_timeout' \in Nat /\ Spent'
        BY <1>t, <2>3, TimerStarted, Zenon
      <3> QED
        BY <1>t, <2>1, <2>3, <3>2, Zenon DEF TimerInv, TimerTypeOK
    <2> QED
      BY <1>4, <2>2, <2>3, Zenon DEF BodyPart
  <1>5. CASE BodyStop
    <2>1. Spent'
      BY <1>t, <1>5, Zenon DEF BodyStop, Spent
    <2> QED
      BY <1>t, <1>5, <2>1, Zenon DEF BodyStop, TimerInv, TimerTypeOK
  <1>6. CASE Expire
    <2>k. timer \in Kinds
      BY <1>6, Zenon DEF Expire
    <2>r. /\ Rate[timer].rate \in Nat /\ Rate[timer].max_timeout \in Nat
          /\ Rate[timer].timeout \in Nat /\ Rate[timer].timeout > 0
      BY <2>k, RateFields, Zenon
    <2>1. leftAfter(timer) \in Nat
      BY <1>t, <2>r DEF leftAfter, TimerTypeOK
    <2>2. /\ remainsAt(timer) \in 0 .. Word - 1 /\ consumedAt(timer) \in 0 .. Word - 1
          /\ (timer = "HDRS" => consumedAt(timer) = 0)
      BY <1>t DEF remainsAt, consumedAt, TimerTypeOK
    <2>4. /\ read_remains' = remainsAt(timer) /\ read_consumed' = consumedAt(timer)
          /\ read_max_timeout' = leftAfter(timer) /\ unread' = unread
      BY <1>6, Zenon DEF Expire
    <2>5. CASE Extended(timer) /\ deadline' = deadline + Rate[timer].timeout /\ UNCHANGED timer
      <3>1. Spent'
        <4>1. SUFFICES ASSUME Rate[timer].max_timeout # 0
                       PROVE  /\ read_max_timeout' > 0
                              /\ deadline' = Rate[timer].max_timeout - read_max_timeout'
                                             + Rate[timer].timeout
          BY <2>5, Zenon DEF Spent
        <4>2. total(timer) > Rate[timer].rate /\ leftAfter(timer) # 0
          BY <2>5, <4>1, Zenon DEF Extended
        <4>3. leftAfter(timer) = read_max_timeout - Rate[timer].timeout
          BY <4>1, <4>2, Zenon DEF leftAfter
        <4>4. deadline = Rate[timer].max_timeout - read_max_timeout + Rate[timer].timeout
          BY <1>t, <2>k, <4>1, Zenon DEF Spent
        <4> QED
          BY <1>t, <2>r, <2>1, <2>4, <2>5, <4>2, <4>3, <4>4 DEF TimerTypeOK
      <3> QED
        BY <1>t, <2>r, <2>1, <2>2, <2>4, <2>5, <3>1 DEF TimerInv, TimerTypeOK
    <2>6. CASE timer' = "failed" /\ UNCHANGED deadline
      <3>1. Spent'
        BY <1>t, <2>6, Zenon DEF Spent
      <3> QED
        BY <1>t, <2>1, <2>2, <2>4, <2>6, <3>1, Zenon DEF TimerInv, TimerTypeOK
    <2> QED
      BY <1>6, <2>5, <2>6, Zenon DEF Expire
  <1> QED
    BY <1>1, <1>2, <1>3, <1>4, <1>5, <1>6, Zenon DEF TimerNext

(* The invariant holds in every reachable state. *)
LEMMA TimerInvariance == TimerSpec => []TimerInv
  BY TimerInvInit, TimerInvStep, PTL DEF TimerSpec

(* handle_timeout's unsigned subtraction never wraps, for any rates. *)
THEOREM SubtractionIsSafe == TimerSpec => []NoUnderflow
  <1>1. TimerInv => NoUnderflow
    BY DEF TimerInv, TimerTypeOK, NoUnderflow, consumedAt, remainsAt, Kinds
  <1> QED
    BY <1>1, TimerInvariance, PTL

(* A peer that keeps the timer extended is cut off less than one period      *)
(* after max_timeout, for any timeout and max_timeout.                       *)
THEOREM ReadingIsBounded == TimerSpec => []BoundedReading
  <1>1. TimerInv => BoundedReading
    <2> SUFFICES ASSUME TimerInv, timer \in Kinds, Rate[timer].max_timeout # 0
                 PROVE  deadline < Rate[timer].max_timeout + Rate[timer].timeout
      BY Zenon DEF BoundedReading
    <2>1. /\ Rate[timer].max_timeout \in Nat /\ Rate[timer].timeout \in Nat
          /\ read_max_timeout \in Nat
      BY RateFields, Zenon DEF TimerInv, TimerTypeOK
    <2> QED
      BY <2>1 DEF TimerInv, Spent
  <1> QED
    BY <1>1, TimerInvariance, PTL

(* The two together: what handle_timeout decides by, and what it grants. *)
THEOREM TimersAreSafe == TimerSpec => []ReadTimersSafe
  BY SubtractionIsSafe, ReadingIsBounded, PTL DEF ReadTimersSafe

-----------------------------------------------------------------------------
(* hyper on geario's Io. *)
InBytes == 1 .. MaxIn
OutBytes == 1 .. MaxOut
Remotes == [differs : 1 .. Preface + 1, sent : 0 .. MaxIn]
ReadSides == [buf : Seq(InBytes), waker : BOOLEAN]
WriteSides ==
    [buf : Seq(OutBytes), back : BOOLEAN, waker : {"none", "low", "empty", "closed"}]
ReadTasks ==
    [at : {"detect", "run", "eof", "error"}, parked : BOOLEAN, got : Seq(InBytes),
     as : {"none", "h1", "h2"}]
WriteTasks ==
    [at : {"idle", "run", "closing", "shut", "ended", "error"}, parked : BOOLEAN,
     given : 0 .. MaxOut, flushed : 0 .. MaxOut]

HyperTypes ==
    /\ remote \in Remotes /\ rd \in ReadSides /\ rtask \in ReadTasks
    /\ wr \in WriteSides /\ sock \in Seq(OutBytes) /\ wtask \in WriteTasks
    /\ io \in {"open", "closing", "closed", "reset"} /\ shutting_down \in BOOLEAN

(* Reading: the end of the stream is told when nothing can follow. *)
Reading ==
    /\ rtask.got \o rd.buf = UpTo(remote.sent)
    /\ rtask.as # "none" => (rtask.as = "h2" <=> remote.differs > Preface)
    /\ rtask.at = "eof" => rd.buf = <<>> /\ IoGone

(* Writing: without backpressure the buffer is below the high watermark, and *)
(* nobody writes after a shutdown.                                           *)
Writing ==
    /\ sock \o wr.buf = UpTo(wtask.given)
    /\ Len(wr.buf) <= High - 1 + Quantum
    /\ ~wr.back => Len(wr.buf) < High
    /\ wtask.flushed <= Len(sock)
    /\ rtask.at = "detect" => wtask.at = "idle"
    /\ wtask.at \in {"idle", "run"} => ~shutting_down
    /\ wtask.at = "error" /\ shutting_down => io = "reset"

HyperInv == HyperTypes /\ Reading /\ Writing

(* The constants are numbers, and all but the bounds are positive. *)
LEMMA HyperConstants ==
  /\ Preface \in Nat /\ Preface > 0 /\ Quantum \in Nat /\ Quantum > 0
  /\ High \in Nat /\ High > 0 /\ Low \in Nat /\ Low < High
  /\ MaxIn \in Nat /\ MaxOut \in Nat
BY HyperTransportAssumption

(* Of two numbers the minimum is the smaller. *)
LEMMA MinOfTwo ==
  ASSUME NEW a \in Int, NEW b \in Int
  PROVE  Min({a, b}) = IF a <= b THEN a ELSE b
<1> DEFINE m == IF a <= b THEN a ELSE b
<1>1. m \in {a, b} /\ \A y \in {a, b} : m <= y
  OBVIOUS
<1>2. \A x \in {a, b} : (\A y \in {a, b} : x <= y) => x = m
  OBVIOUS
<1> QED
  BY <1>1, <1>2, Zenon DEF Min

(* The bytes up to n are a sequence of that length, and the next k extend it. *)
LEMMA UpToExtended ==
  ASSUME NEW n \in Nat, NEW k \in Nat
  PROVE  /\ UpTo(n) \in Seq(Nat) /\ Len(UpTo(n)) = n
         /\ [i \in 1 .. k |-> n + i] \in Seq(Nat)
         /\ Len([i \in 1 .. k |-> n + i]) = k
         /\ UpTo(n) \o [i \in 1 .. k |-> n + i] = UpTo(n + k)
         /\ Append(UpTo(n), n + 1) = UpTo(n + 1)
<1>1. UpTo(n) \in Seq(Nat) /\ Len(UpTo(n)) = n
  BY DEF UpTo
<1>2. [i \in 1 .. k |-> n + i] \in Seq(Nat) /\ Len([i \in 1 .. k |-> n + i]) = k
  OBVIOUS
<1>3. UpTo(n) \o [i \in 1 .. k |-> n + i] = UpTo(n + k)
  BY <1>1, <1>2 DEF UpTo
<1>4. Append(UpTo(n), n + 1) = UpTo(n + 1)
  BY <1>1 DEF UpTo
<1> QED
  BY <1>1, <1>2, <1>3, <1>4, Zenon

(* Moving the first n of b from the front of b to the end of a keeps the     *)
(* bytes of both in their order: drain_read_buffer, and what the driver      *)
(* sends.                                                                    *)
Along(S, a, b, n) ==
    /\ SubSeq(b, n + 1, Len(b)) \in Seq(S) /\ Len(SubSeq(b, n + 1, Len(b))) = Len(b) - n
    /\ a \o SubSeq(b, 1, n) \in Seq(S) /\ Len(a \o SubSeq(b, 1, n)) = Len(a) + n
    /\ (a \o SubSeq(b, 1, n)) \o SubSeq(b, n + 1, Len(b)) = a \o b
Moves(S) == \A a, b \in Seq(S) : \A n \in 0 .. Len(b) : Along(S, a, b, n)

(* Bytes of any kind do so. *)
LEMMA MovedAlong ==
  ASSUME NEW S
  PROVE  Moves(S)
<1> SUFFICES ASSUME NEW a \in Seq(S), NEW b \in Seq(S), NEW n \in 0 .. Len(b)
             PROVE  Along(S, a, b, n)
  BY Zenon DEF Moves
<1>1. SubSeq(b, 1, n) \in Seq(S) /\ Len(SubSeq(b, 1, n)) = n
  OBVIOUS
<1>2. SubSeq(b, n + 1, Len(b)) \in Seq(S) /\ Len(SubSeq(b, n + 1, Len(b))) = Len(b) - n
  OBVIOUS
<1>3. a \o SubSeq(b, 1, n) \in Seq(S) /\ Len(a \o SubSeq(b, 1, n)) = Len(a) + n
  BY <1>1
<1>4. SubSeq(b, 1, n) \o SubSeq(b, n + 1, Len(b)) = b
  <2>1. 1 \in 1 .. Len(b) + 1 /\ n \in 1 - 1 .. Len(b) /\ Len(b) \in n .. Len(b)
    OBVIOUS
  <2>2. SubSeq(b, 1, n) \o SubSeq(b, n + 1, Len(b)) = SubSeq(b, 1, Len(b))
    BY <2>1, ConcatAdjacentSubSeq, Zenon
  <2> QED
    BY <2>2, SubSeqFull, Zenon
<1>5. (a \o SubSeq(b, 1, n)) \o SubSeq(b, n + 1, Len(b)) = a \o b
  <2>1. (a \o SubSeq(b, 1, n)) \o SubSeq(b, n + 1, Len(b))
            = a \o (SubSeq(b, 1, n) \o SubSeq(b, n + 1, Len(b)))
    <3>1. PICK u \in Seq(S) : u = SubSeq(b, 1, n)
      BY <1>1, Zenon
    <3>2. PICK v \in Seq(S) : v = SubSeq(b, n + 1, Len(b))
      BY <1>2, Zenon
    <3>3. (a \o u) \o v = a \o (u \o v)
      BY SMTT(30)
    <3> QED
      BY <3>1, <3>2, <3>3, Zenon
  <2> QED
    BY <2>1, <1>4, Zenon
<1> QED
  BY <1>1, <1>2, <1>3, <1>5, Zenon DEF Along

(* A byte appended to the second of two sequences is the last of both. *)
LEMMA AppendedAlong ==
  ASSUME NEW S, NEW a \in Seq(S), NEW b \in Seq(S), NEW x \in S
  PROVE  a \o Append(b, x) = Append(a \o b, x)
<1>1. a \o b \in Seq(S) /\ <<x>> \in Seq(S)
  OBVIOUS
<1>2. Append(b, x) = b \o <<x>>
  BY AppendIsConcat, Zenon
<1>3. Append(a \o b, x) = (a \o b) \o <<x>>
  <2>1. \A u \in Seq(S) : Append(u, x) = u \o <<x>>
    BY AppendIsConcat, Zenon
  <2> QED
    BY <1>1, <2>1, Zenon
<1>4. (a \o b) \o <<x>> = a \o (b \o <<x>>)
  <2>1. \A u \in Seq(S) : (a \o b) \o u = a \o (b \o u)
    BY SMTT(30)
  <2> QED
    BY <1>1, <2>1, Zenon
<1> QED
  BY <1>2, <1>3, <1>4, Zenon

(* One more byte of the remote is a legal count. *)
LEMMA OneMore ==
  ASSUME remote \in Remotes, remote.sent < MaxIn, remote' = [remote EXCEPT !.sent = @ + 1]
  PROVE  /\ remote' \in Remotes
         /\ remote'.sent = remote.sent + 1 /\ remote'.differs = remote.differs
         /\ remote.sent \in Nat /\ remote.sent + 1 \in InBytes
BY HyperConstants DEF Remotes, InBytes

-----------------------------------------------------------------------------
(* What a byte that arrives does: Io's buffer, or hyper itself, gets it. *)
LEMMA ArriveReads ==
  ASSUME HyperTypes, Reading, Arrive
  PROVE  Reading' /\ (remote \in Remotes /\ rd \in ReadSides /\ rtask \in ReadTasks)'
<1>1. /\ remote' \in Remotes
      /\ remote'.sent = remote.sent + 1 /\ remote'.differs = remote.differs
      /\ remote.sent \in Nat /\ remote.sent + 1 \in InBytes
  BY OneMore, Zenon DEF Arrive, HyperTypes
<1>2. rd' \in ReadSides /\ rd'.buf = Append(rd.buf, remote.sent + 1)
  BY <1>1 DEF Arrive, HyperTypes, ReadSides
<1>3. /\ rtask' \in ReadTasks
      /\ rtask'.got = rtask.got /\ rtask'.as = rtask.as /\ rtask'.at = rtask.at
  BY Zenon DEF Arrive, HyperTypes, ReadTasks, wokenReader
<1>4. rtask.at # "eof"
  BY Zenon DEF Arrive, Reading, IoGone
<1>5. rtask'.got \o rd'.buf = UpTo(remote'.sent)
  <2>1. rtask.got \in Seq(InBytes) /\ rd.buf \in Seq(InBytes)
    BY Zenon DEF HyperTypes, ReadTasks, ReadSides
  <2>2. rtask.got \o Append(rd.buf, remote.sent + 1) = Append(rtask.got \o rd.buf, remote.sent + 1)
    <3>1. \A a, b \in Seq(InBytes) : \A x \in InBytes : a \o Append(b, x) = Append(a \o b, x)
      BY AppendedAlong
    <3> QED
      BY <1>1, <2>1, <3>1, Zenon
  <2> QED
    BY <1>1, <1>2, <1>3, <2>1, <2>2, UpToExtended, Zenon DEF Reading
<1> QED
  BY <1>1, <1>2, <1>3, <1>4, <1>5, Zenon DEF Reading

(* What poll_read_ready's answer does, wherever it is asked. *)
LEMMA ReadReadyReads ==
  ASSUME HyperTypes, Reading, UNCHANGED <<remote, io>>, rd.buf = <<>> \/ rtask.at = "detect",
         NEW o \in poll_read_ready, afterReadReady(o)
  PROVE  Reading' /\ (remote \in Remotes /\ rd \in ReadSides /\ rtask \in ReadTasks)'
<1>0. o \in {"none", "error", "some", "pending"} /\ (o = "none" => io = "closed")
  BY Zenon DEF poll_read_ready, HyperTypes, IoGone
<1>1. rd' \in ReadSides /\ rd'.buf = rd.buf
  BY <1>0, Zenon DEF afterReadReady, HyperTypes, ReadSides
<1>2. /\ rtask' \in ReadTasks /\ rtask'.got = rtask.got /\ rtask'.as = rtask.as
      /\ rtask'.at = "eof" => rtask.at = "eof" \/ (o = "none" /\ rtask.at # "detect")
  BY <1>0, Zenon DEF afterReadReady, HyperTypes, ReadTasks
<1>3. remote' \in Remotes
  BY Zenon DEF HyperTypes
<1> QED
  BY <1>0, <1>1, <1>2, <1>3, Zenon DEF Reading, IoGone

(* Detection reads nothing, and tells h2 only of a whole preface. *)
LEMMA DetectReads ==
  ASSUME HyperTypes, Reading, Detect
  PROVE  Reading' /\ (remote \in Remotes /\ rd \in ReadSides /\ rtask \in ReadTasks)'
<1>0. UNCHANGED <<remote, io>> /\ rtask.at = "detect"
  BY Zenon DEF Detect
<1>1. CASE verdict # "unknown" /\ UNCHANGED rd /\ rtask' = [rtask EXCEPT !.at = "run", !.as = verdict]
  <2>1. verdict \in {"h1", "h2"} /\ (verdict = "h2" <=> remote.differs > Preface)
    BY <1>1, HyperConstants DEF verdict, HyperTypes, Remotes, ReadSides
  <2>2. /\ rtask' \in ReadTasks /\ rtask'.got = rtask.got
        /\ rtask'.at = "run" /\ rtask'.as = verdict
    BY <1>1, <2>1, Zenon DEF HyperTypes, ReadTasks
  <2> QED
    BY <1>0, <1>1, <2>1, <2>2, Zenon DEF Reading, HyperTypes
<1>2. CASE \E o \in poll_read_ready : afterReadReady(o)
  BY <1>0, <1>2, ReadReadyReads, Zenon
<1> QED
  BY <1>1, <1>2, Zenon DEF Detect

(* poll_read hands over the front of the buffer, or a byte of the socket if  *)
(* the buffer is empty.                                                      *)
LEMMA PollReadReads ==
  ASSUME HyperTypes, Reading, NEW room \in Nat, PollRead(room)
  PROVE  Reading' /\ (remote \in Remotes /\ rd \in ReadSides /\ rtask \in ReadTasks)'
<1>0. UNCHANGED io /\ rtask.at = "run"
  BY Zenon DEF PollRead
<1>1. CASE drain_read_buffer(room)
  <2> DEFINE n == Min({Len(rd.buf), room})
  <2>1. rd.buf \in Seq(InBytes) /\ rtask.got \in Seq(InBytes)
    BY Zenon DEF HyperTypes, ReadSides, ReadTasks
  <2>2. n \in 0 .. Len(rd.buf)
    <3>1. Len(rd.buf) \in Int /\ Len(rd.buf) >= 0 /\ room \in Int
      BY <2>1
    <3> QED
      BY <3>1, MinOfTwo
  <2> HIDE DEF n
  <2>3. /\ rd' = [rd EXCEPT !.buf = SubSeq(@, n + 1, Len(@))]
        /\ rtask' = [rtask EXCEPT !.got = @ \o SubSeq(rd.buf, 1, n)]
        /\ UNCHANGED remote
    BY <1>1, Zenon DEF drain_read_buffer, n
  <2>4. /\ SubSeq(rd.buf, n + 1, Len(rd.buf)) \in Seq(InBytes)
        /\ rtask.got \o SubSeq(rd.buf, 1, n) \in Seq(InBytes)
        /\ (rtask.got \o SubSeq(rd.buf, 1, n)) \o SubSeq(rd.buf, n + 1, Len(rd.buf))
                = rtask.got \o rd.buf
    <3>1. Moves(InBytes)
      BY MovedAlong, Zenon
    <3> QED
      BY <2>1, <2>2, <3>1, Zenon DEF Moves, Along
  <2>5. rd' \in ReadSides /\ rd'.buf = SubSeq(rd.buf, n + 1, Len(rd.buf))
    BY <2>3, <2>4, Zenon DEF HyperTypes, ReadSides
  <2>6. /\ rtask' \in ReadTasks /\ rtask'.got = rtask.got \o SubSeq(rd.buf, 1, n)
        /\ rtask'.as = rtask.as /\ rtask'.at = rtask.at
    BY <2>3, <2>4, Zenon DEF HyperTypes, ReadTasks
  <2> QED
    BY <1>0, <2>3, <2>4, <2>5, <2>6, Zenon DEF Reading, HyperTypes
<1>2. CASE rd.buf = <<>> /\ PollEmpty
  <2>1. CASE \E first, second \in poll_read_ready :
                afterReadReady(IF first = "some" THEN second ELSE first) /\ UNCHANGED remote
    BY <1>0, <1>2, <2>1, ReadReadyReads, Zenon
  <2>2. CASE /\ io = "open" /\ remote.sent < MaxIn /\ UNCHANGED rd
             /\ remote' = [remote EXCEPT !.sent = @ + 1]
             /\ rtask' = [rtask EXCEPT !.got = Append(@, remote.sent + 1)]
    <3>1. /\ remote' \in Remotes
          /\ remote'.sent = remote.sent + 1 /\ remote'.differs = remote.differs
          /\ remote.sent \in Nat /\ remote.sent + 1 \in InBytes
      BY <2>2, OneMore, Zenon DEF HyperTypes
    <3>2. /\ rtask' \in ReadTasks /\ rtask'.got = Append(rtask.got, remote.sent + 1)
          /\ rtask'.as = rtask.as /\ rtask'.at = rtask.at
      <4>1. rtask.got \in Seq(InBytes)
        BY Zenon DEF HyperTypes, ReadTasks
      <4>2. Append(rtask.got, remote.sent + 1) \in Seq(InBytes)
        BY <3>1, <4>1
      <4> QED
        BY <2>2, <4>2, Zenon DEF HyperTypes, ReadTasks
    <3>3. rtask.got \o <<>> = rtask.got /\ rtask'.got \o <<>> = rtask'.got
      BY <3>2, ConcatEmptySeq, Zenon DEF HyperTypes, ReadTasks
    <3>4. rtask'.got \o rd'.buf = UpTo(remote'.sent)
      <4>1. rtask.got = UpTo(remote.sent)
        BY <1>2, <3>3, Zenon DEF Reading
      <4>2. Append(UpTo(remote.sent), remote.sent + 1) = UpTo(remote.sent + 1)
        BY <3>1, UpToExtended, Zenon
      <4> QED
        BY <1>2, <2>2, <3>1, <3>2, <3>3, <4>1, <4>2, Zenon
    <3> QED
      BY <1>0, <2>2, <3>1, <3>2, <3>4, Zenon DEF Reading, HyperTypes
  <2> QED
    BY <1>2, <2>1, <2>2, Zenon DEF PollEmpty
<1> QED
  BY <1>1, <1>2, Zenon DEF PollRead

-----------------------------------------------------------------------------
(* Sending n bytes of the write buffer, which the driver and poll_flush do,  *)
(* keeps the order; the backpressure ends only below the low watermark.      *)
LEMMA SendKeeps ==
  ASSUME HyperTypes, Writing, NEW n \in 0 .. Len(wr.buf), sock' = sock \o SubSeq(wr.buf, 1, n),
         wr'.buf = SubSeq(wr.buf, n + 1, Len(wr.buf)),
         wr'.back = (wr.back /\ Len(wr.buf) - n > Low)
  PROVE  /\ wr'.buf \in Seq(OutBytes) /\ sock' \in Seq(OutBytes)
         /\ Len(sock') = Len(sock) + n /\ Len(wr'.buf) = Len(wr.buf) - n
         /\ sock' \o wr'.buf = UpTo(wtask.given)
         /\ Len(wr'.buf) <= High - 1 + Quantum
         /\ ~wr'.back => Len(wr'.buf) < High
<1>1. wr.buf \in Seq(OutBytes) /\ sock \in Seq(OutBytes) /\ Len(wr.buf) \in Nat /\ wr.back \in BOOLEAN
  BY DEF HyperTypes, WriteSides
<1>2. Moves(OutBytes)
  BY MovedAlong, Zenon
<1>3. /\ SubSeq(wr.buf, n + 1, Len(wr.buf)) \in Seq(OutBytes)
      /\ Len(SubSeq(wr.buf, n + 1, Len(wr.buf))) = Len(wr.buf) - n
      /\ sock \o SubSeq(wr.buf, 1, n) \in Seq(OutBytes)
      /\ Len(sock \o SubSeq(wr.buf, 1, n)) = Len(sock) + n
      /\ (sock \o SubSeq(wr.buf, 1, n)) \o SubSeq(wr.buf, n + 1, Len(wr.buf)) = sock \o wr.buf
  BY <1>1, <1>2, Zenon DEF Moves, Along
<1>4. sock \o wr.buf = UpTo(wtask.given)
  BY Zenon DEF Writing
<1>5. Len(wr.buf) - n <= High - 1 + Quantum
  BY <1>1, HyperConstants DEF Writing
<1>6. (~(wr.back /\ Len(wr.buf) - n > Low)) => Len(wr.buf) - n < High
  BY <1>1, HyperConstants DEF Writing
<1> QED
  BY <1>3, <1>4, <1>5, <1>6, Zenon

(* The driver sends from the buffer and wakes who waited for it. *)
LEMMA TransmitWrites ==
  ASSUME HyperTypes, Writing, Transmit
  PROVE  Writing' /\ (wr \in WriteSides /\ sock \in Seq(OutBytes) /\ wtask \in WriteTasks)'
<1>1. PICK n \in 1 .. Len(wr.buf) :
        /\ sock' = sock \o SubSeq(wr.buf, 1, n)
        /\ wr' = [afterSend(n) EXCEPT !.waker = IF Awaited(afterSend(n)) THEN "none" ELSE @]
        /\ wtask' = IF Awaited(afterSend(n)) THEN wokenWriter ELSE wtask
  BY Zenon DEF Transmit
<1>2. UNCHANGED <<io, rtask, shutting_down>>
  BY Zenon DEF Transmit
<1>3. n \in 0 .. Len(wr.buf) /\ wr \in WriteSides /\ wtask \in WriteTasks
  BY DEF HyperTypes
<1>4. /\ wr'.buf = SubSeq(wr.buf, n + 1, Len(wr.buf))
      /\ wr'.back = (wr.back /\ Len(wr.buf) - n > Low)
      /\ wr'.buf \in Seq(OutBytes) => wr' \in WriteSides
  BY <1>1, <1>3, Zenon DEF afterSend, WriteSides
<1>5. /\ wtask' \in WriteTasks /\ wtask'.at = wtask.at
      /\ wtask'.given = wtask.given /\ wtask'.flushed = wtask.flushed
  BY <1>1, <1>3, Zenon DEF wokenWriter, WriteTasks
<1>6. /\ wr'.buf \in Seq(OutBytes) /\ sock' \in Seq(OutBytes)
      /\ Len(sock') = Len(sock) + n
      /\ sock' \o wr'.buf = UpTo(wtask.given)
      /\ Len(wr'.buf) <= High - 1 + Quantum
      /\ ~wr'.back => Len(wr'.buf) < High
  BY <1>1, <1>3, <1>4, SendKeeps, Zenon
<1>7. wtask'.flushed <= Len(sock')
  BY <1>5, <1>6 DEF Writing, HyperTypes, WriteTasks
<1> QED
  BY <1>2, <1>4, <1>5, <1>6, <1>7, Zenon DEF Writing

(* The stream's end only wakes the halves. *)
LEMMA IoCloseKeeps ==
  ASSUME HyperTypes, Reading, Writing, NEW how \in {"closed", "reset"}, IoClose(how)
  PROVE  Reading' /\ Writing' /\ HyperTypes'
<1>1. rd' \in ReadSides /\ rd'.buf = rd.buf
  BY Zenon DEF IoClose, HyperTypes, ReadSides
<1>2. wr' \in WriteSides /\ wr'.buf = wr.buf /\ wr'.back = wr.back
  BY Zenon DEF IoClose, HyperTypes, WriteSides
<1>3. /\ rtask' \in ReadTasks
      /\ rtask'.at = rtask.at /\ rtask'.got = rtask.got /\ rtask'.as = rtask.as
  BY Zenon DEF IoClose, HyperTypes, wokenReader, ReadTasks
<1>4. /\ wtask' \in WriteTasks
      /\ wtask'.at = wtask.at /\ wtask'.given = wtask.given /\ wtask'.flushed = wtask.flushed
  BY Zenon DEF IoClose, HyperTypes, wokenWriter, WriteTasks
<1>5. UNCHANGED <<remote, sock, shutting_down>> /\ io' = how /\ ~IoGone
  BY Zenon DEF IoClose
<1>6. HyperTypes'
  BY <1>1, <1>2, <1>3, <1>4, <1>5, Zenon DEF HyperTypes
<1>7. Reading'
  BY <1>1, <1>3, <1>5, Zenon DEF Reading, IoGone
<1>8. Writing'
  BY <1>2, <1>3, <1>4, <1>5, Zenon DEF Writing, IoGone
<1> QED
  BY <1>6, <1>7, <1>8, Zenon

(* with_write_buf copies no more than it was given and than one quantum. *)
LEMMA BufferedBounded ==
  ASSUME NEW head \in Nat, NEW body \in Nat
  PROVE  /\ buffered(head, body) \in Nat
         /\ buffered(head, body) <= head + body /\ buffered(head, body) <= Quantum
<1>1. Quantum \in Nat
  BY HyperConstants, Zenon
<1>2. PICK w \in Nat : w = Min({head, Quantum}) /\ w <= head /\ w <= Quantum
  BY <1>1, MinOfTwo
<1>3. Quantum - w \in Nat
  BY <1>1, <1>2
<1>4. PICK r \in Nat : r = Min({body, Quantum - w}) /\ r <= body /\ r <= Quantum - w
  BY <1>3, MinOfTwo
<1>5. buffered(head, body) = w + r
  BY <1>2, <1>4, Zenon DEF buffered
<1> QED
  BY <1>1, <1>2, <1>4, <1>5

(* The next k bytes of hyper are the bytes that follow those it has handed   *)
(* over, wherever they go.                                                   *)
LEMMA NextBytesFollow ==
  ASSUME HyperTypes, Writing, NEW k \in Nat, wtask.given + k <= MaxOut
  PROVE  /\ NextBytes(k) \in Seq(OutBytes) /\ Len(NextBytes(k)) = k
         /\ wr.buf \o NextBytes(k) \in Seq(OutBytes)
         /\ Len(wr.buf \o NextBytes(k)) = Len(wr.buf) + k
         /\ sock \o NextBytes(k) \in Seq(OutBytes)
         /\ Len(sock \o NextBytes(k)) = Len(sock) + k
         /\ sock \o (wr.buf \o NextBytes(k)) = UpTo(wtask.given + k)
         /\ wr.buf = <<>> => (sock \o NextBytes(k)) \o wr.buf = UpTo(wtask.given + k)
<1>1. wtask.given \in Nat /\ wr.buf \in Seq(OutBytes) /\ sock \in Seq(OutBytes)
  BY HyperConstants DEF HyperTypes, WriteTasks, WriteSides
<1>2. PICK g \in Nat : g = wtask.given
  BY <1>1, Zenon
<1>3. NextBytes(k) = [i \in 1 .. k |-> g + i]
  BY <1>2, Zenon DEF NextBytes
<1>4. NextBytes(k) \in Seq(OutBytes) /\ Len(NextBytes(k)) = k
  <2>1. g + k <= MaxOut
    BY <1>2, Zenon
  <2>2. \A i \in 1 .. k : g + i \in OutBytes
    BY <2>1, HyperConstants DEF OutBytes
  <2> QED
    BY <1>3, <2>2
<1>5. PICK x \in Seq(OutBytes) : x = NextBytes(k) /\ Len(x) = k
  BY <1>4, Zenon
<1>6. PICK b \in Seq(OutBytes) : b = wr.buf
  BY <1>1, Zenon
<1>7. PICK a \in Seq(OutBytes) : a = sock
  BY <1>1, Zenon
<1>8. /\ b \o x \in Seq(OutBytes) /\ Len(b \o x) = Len(b) + k
      /\ a \o x \in Seq(OutBytes) /\ Len(a \o x) = Len(a) + k
  BY <1>5
<1>9. a \o b = UpTo(g) /\ UpTo(g) \o x = UpTo(g + k)
  <2>1. UpTo(g) \o [i \in 1 .. k |-> g + i] = UpTo(g + k)
    BY UpToExtended, Zenon
  <2> QED
    BY <1>2, <1>3, <1>5, <1>6, <1>7, <2>1, Zenon DEF Writing
<1>10. a \o (b \o x) = UpTo(g + k)
  <2>1. (a \o b) \o x = a \o (b \o x)
    BY SMT
  <2> QED
    BY <1>9, <2>1, Zenon
<1>11. b = <<>> => (a \o x) \o b = UpTo(g + k)
  <2> SUFFICES ASSUME b = <<>> PROVE (a \o x) \o <<>> = UpTo(g + k)
    BY Zenon
  <2>1. a \o <<>> = a /\ (a \o x) \o <<>> = a \o x
    BY <1>8, ConcatEmptySeq, Zenon
  <2> QED
    BY <1>9, <2>1, Zenon
<1> QED
  BY <1>2, <1>4, <1>5, <1>6, <1>7, <1>8, <1>10, <1>11, Zenon

(* What hyper has handed over grows within its bound. *)
LEMMA HandedOver ==
  ASSUME wtask \in WriteTasks, NEW k \in Nat, wtask.given + k <= MaxOut,
         wtask' = [wtask EXCEPT !.given = @ + k]
  PROVE  /\ wtask' \in WriteTasks /\ wtask'.at = wtask.at
         /\ wtask'.given = wtask.given + k /\ wtask'.flushed = wtask.flushed
BY HyperConstants DEF WriteTasks

(* poll_write hands bytes to the socket only when none are queued, and       *)
(* queues at most one quantum when there is no backpressure.                 *)
LEMMA PollWriteWrites ==
  ASSUME HyperTypes, Writing, NEW head \in Nat, NEW body \in Nat, PollWrite(head, body)
  PROVE  Writing' /\ (wr \in WriteSides /\ sock \in Seq(OutBytes) /\ wtask \in WriteTasks)'
<1>1. /\ wtask.at = "run" /\ wtask.given + (head + body) <= MaxOut
      /\ UNCHANGED <<io, rtask, shutting_down>>
  BY Zenon DEF PollWrite
<1>2. rtask.at # "detect" /\ ~shutting_down
  BY <1>1, Zenon DEF Writing
<1>3. /\ wr \in WriteSides /\ wtask \in WriteTasks /\ sock \in Seq(OutBytes)
      /\ wtask.given \in Nat /\ wtask.flushed \in Nat
      /\ wr.buf \in Seq(OutBytes) /\ Len(wr.buf) \in Nat /\ Len(sock) \in Nat
  BY HyperConstants DEF HyperTypes, WriteTasks, WriteSides
<1>4. CASE Fails
  <2>1. wtask' \in WriteTasks /\ wtask'.given = wtask.given /\ wtask'.flushed = wtask.flushed
    BY <1>3, <1>4, Zenon DEF Fails, WriteTasks
  <2>2. UNCHANGED <<wr, sock>>
    BY <1>4, Zenon DEF Fails
  <2> QED
    BY <1>1, <1>2, <1>3, <2>1, <2>2, Zenon DEF Writing
<1>5. CASE Parks("low")
  <2>1. /\ wtask' \in WriteTasks /\ wtask'.at = wtask.at
        /\ wtask'.given = wtask.given /\ wtask'.flushed = wtask.flushed
    BY <1>3, <1>5, Zenon DEF Parks, WriteTasks
  <2>2. UNCHANGED sock /\ wr' \in WriteSides /\ wr'.buf = wr.buf /\ wr'.back = wr.back
    BY <1>3, <1>5, Zenon DEF Parks, WriteSides
  <2> QED
    BY <1>1, <1>2, <1>3, <2>1, <2>2, Zenon DEF Writing
<1>6. ASSUME NEW n \in try_write_vectored(head + body), n > 0,
             sock' = sock \o NextBytes(n), UNCHANGED wr, wtask' = [wtask EXCEPT !.given = @ + n]
      PROVE  Writing' /\ (wr \in WriteSides /\ sock \in Seq(OutBytes) /\ wtask \in WriteTasks)'
  <2>1. wr.buf = <<>> /\ n \in Nat /\ wtask.given + n <= MaxOut
    <3>1. wr.buf = <<>> /\ n \in 0 .. head + body
      BY <1>6 DEF try_write_vectored
    <3> QED
      BY <1>1, <1>3, <3>1, HyperConstants
  <2>2. /\ sock \o NextBytes(n) \in Seq(OutBytes) /\ Len(sock \o NextBytes(n)) = Len(sock) + n
        /\ (sock \o NextBytes(n)) \o wr.buf = UpTo(wtask.given + n)
    BY <2>1, NextBytesFollow, Zenon
  <2>3. /\ wtask' \in WriteTasks /\ wtask'.at = wtask.at
        /\ wtask'.given = wtask.given + n /\ wtask'.flushed = wtask.flushed
    BY <1>3, <1>6, <2>1, HandedOver, Zenon
  <2>4. wtask'.flushed <= Len(sock')
    BY <1>3, <1>6, <2>1, <2>2, <2>3 DEF Writing
  <2>5. sock' \o wr'.buf = UpTo(wtask'.given)
    BY <1>6, <2>2, <2>3, Zenon
  <2> QED
    BY <1>1, <1>2, <1>3, <1>6, <2>2, <2>3, <2>4, <2>5, Zenon DEF Writing
<1>7. ASSUME NEW k, k = buffered(head, body), ~wr.back, UNCHANGED sock,
             wr' = [wr EXCEPT !.buf = @ \o NextBytes(k), !.back = Len(wr.buf) + k >= High],
             wtask' = [wtask EXCEPT !.given = @ + k]
      PROVE  Writing' /\ (wr \in WriteSides /\ sock \in Seq(OutBytes) /\ wtask \in WriteTasks)'
  <2>1. k \in Nat /\ k <= Quantum /\ wtask.given + k <= MaxOut
    BY <1>1, <1>3, <1>7, BufferedBounded, HyperConstants, SMTT(30)
  <2>2. /\ wr.buf \o NextBytes(k) \in Seq(OutBytes) /\ Len(wr.buf \o NextBytes(k)) = Len(wr.buf) + k
        /\ sock \o (wr.buf \o NextBytes(k)) = UpTo(wtask.given + k)
    BY <2>1, NextBytesFollow, Zenon
  <2>3. /\ wtask' \in WriteTasks /\ wtask'.at = wtask.at
        /\ wtask'.given = wtask.given + k /\ wtask'.flushed = wtask.flushed
    BY <1>3, <1>7, <2>1, HandedOver, Zenon
  <2>4. /\ wr' \in WriteSides /\ wr'.buf = wr.buf \o NextBytes(k)
        /\ wr'.back <=> Len(wr.buf) + k >= High
    <3>1. PICK x \in Seq(OutBytes) : x = wr.buf \o NextBytes(k)
      BY <2>2, Zenon
    <3>2. wr' = [wr EXCEPT !.buf = x, !.back = Len(wr.buf) + k >= High]
      BY <1>7, <3>1, Zenon
    <3>3. wr' \in WriteSides /\ wr'.buf = x /\ (wr'.back <=> Len(wr.buf) + k >= High)
      <4>1. CASE Len(wr.buf) + k >= High
        <5>1. wr' = [wr EXCEPT !.buf = x, !.back = TRUE]
          BY <3>2, <4>1, Zenon
        <5> QED
          BY <1>3, <4>1, <5>1, Zenon DEF WriteSides
      <4>2. CASE ~(Len(wr.buf) + k >= High)
        <5>1. wr' = [wr EXCEPT !.buf = x, !.back = FALSE]
          <6>1. (Len(wr.buf) + k >= High) = FALSE
            BY <1>3, <2>1, <4>2, HyperConstants
          <6> QED
            BY <3>2, <6>1, Zenon
        <5> QED
          BY <1>3, <4>2, <5>1, Zenon DEF WriteSides
      <4> QED
        BY <4>1, <4>2, Zenon
    <3> QED
      BY <3>1, <3>3, Zenon
  <2>5. Len(wr'.buf) <= High - 1 + Quantum /\ (~wr'.back => Len(wr'.buf) < High)
    <3>1. Len(wr.buf) < High
      BY <1>7, Zenon DEF Writing
    <3>2. Len(wr'.buf) = Len(wr.buf) + k
      BY <2>2, <2>4, Zenon
    <3>3. ~wr'.back => ~(Len(wr.buf) + k >= High)
      BY <2>4, Zenon
    <3>4. Len(wr.buf) + k <= High - 1 + Quantum /\ (~(Len(wr.buf) + k >= High) => Len(wr.buf) + k < High)
      <4>1. Len(wr.buf) \in Nat
        <5>1. wr.buf \in Seq(OutBytes)
          BY <1>3, Zenon DEF WriteSides
        <5> QED
          BY <5>1, LenProperties, Zenon
      <4>2. PICK n \in Nat : n = Len(wr.buf)
        BY <4>1, Zenon
      <4>3. n < High
        BY <3>1, <4>2, Zenon
      <4>4. n + k <= High - 1 + Quantum /\ (~(n + k >= High) => n + k < High)
        BY <2>1, <4>3, HyperConstants
      <4> QED
        BY <4>2, <4>4, Zenon
    <3> QED
      BY <3>2, <3>3, <3>4, Zenon
  <2>6. sock' \o wr'.buf = UpTo(wtask'.given)
    BY <1>7, <2>2, <2>3, <2>4, Zenon
  <2> QED
    BY <1>1, <1>2, <1>3, <1>7, <2>3, <2>4, <2>5, <2>6, Zenon DEF Writing
<1> QED
  BY <1>4, <1>5, <1>6, <1>7, Zenon DEF PollWrite

(* poll_flush reports what it has sent, and an error only of a stream that   *)
(* hyper did not shut down itself.                                           *)
LEMMA PollFlushWrites ==
  ASSUME HyperTypes, Writing, PollFlush
  PROVE  Writing' /\ (wr \in WriteSides /\ sock \in Seq(OutBytes) /\ wtask \in WriteTasks)'
<1>1. wtask.at \in {"run", "shut"} /\ UNCHANGED <<io, rtask, shutting_down>>
  BY Zenon DEF PollFlush
<1>2. rtask.at # "detect" /\ io \in {"open", "closing", "closed", "reset"}
  BY <1>1, Zenon DEF Writing, HyperTypes
<1>3. /\ wr \in WriteSides /\ wtask \in WriteTasks /\ sock \in Seq(OutBytes)
      /\ wtask.given \in Nat /\ wtask.flushed \in Nat
      /\ wr.buf \in Seq(OutBytes) /\ Len(wr.buf) \in Nat /\ Len(sock) \in Nat
  BY HyperConstants DEF HyperTypes, WriteTasks, WriteSides
<1>4. CASE /\ IoGone /\ UNCHANGED <<wr, sock>>
           /\ wtask' = [wtask EXCEPT !.at = IF finished_or = "error" THEN "error"
                                              ELSE IF @ = "shut" THEN "ended" ELSE @]
  <2>1. /\ wtask' \in WriteTasks /\ wtask'.given = wtask.given /\ wtask'.flushed = wtask.flushed
        /\ wtask'.at = "error" => finished_or = "error"
        /\ wtask'.at \in {"idle", "run"} => wtask'.at = wtask.at
        /\ wtask'.at # "idle"
    BY <1>1, <1>3, <1>4, Zenon DEF WriteTasks
  <2>2. finished_or = "error" /\ shutting_down => io = "reset"
    BY <1>2, <1>4, Zenon DEF finished_or, IoGone
  <2> QED
    BY <1>1, <1>2, <1>3, <1>4, <2>1, <2>2, Zenon DEF Writing
<1>5. ASSUME NEW n \in 0 .. Len(wr.buf), sock' = sock \o SubSeq(wr.buf, 1, n),
             IF n = Len(wr.buf)
             THEN wr' = afterSend(n) /\ wtask' = [wtask EXCEPT !.flushed = wtask.given]
             ELSE /\ wr' = [afterSend(n) EXCEPT !.waker = "empty"]
                  /\ wtask' = [wtask EXCEPT !.parked = TRUE]
      PROVE  Writing' /\ (wr \in WriteSides /\ sock \in Seq(OutBytes) /\ wtask \in WriteTasks)'
  <2>1. /\ wr'.buf = SubSeq(wr.buf, n + 1, Len(wr.buf))
        /\ wr'.back = (wr.back /\ Len(wr.buf) - n > Low)
        /\ wr'.buf \in Seq(OutBytes) => wr' \in WriteSides
    BY <1>3, <1>5, Zenon DEF afterSend, WriteSides
  <2>2. /\ wtask' \in WriteTasks /\ wtask'.at = wtask.at /\ wtask'.given = wtask.given
        /\ wtask'.flushed = IF n = Len(wr.buf) THEN wtask.given ELSE wtask.flushed
    BY <1>3, <1>5, Zenon DEF WriteTasks
  <2>3. /\ wr'.buf \in Seq(OutBytes) /\ sock' \in Seq(OutBytes)
        /\ Len(sock') = Len(sock) + n /\ Len(wr'.buf) = Len(wr.buf) - n
        /\ sock' \o wr'.buf = UpTo(wtask.given)
        /\ Len(wr'.buf) <= High - 1 + Quantum
        /\ ~wr'.back => Len(wr'.buf) < High
    BY <1>5, <2>1, SendKeeps, Zenon
  <2>4. wtask'.flushed <= Len(sock')
    <3>1. CASE n = Len(wr.buf)
      <4>1. Len(sock') + Len(wr'.buf) = Len(UpTo(wtask.given))
        <5>1. \A u, v \in Seq(OutBytes) : Len(u \o v) = Len(u) + Len(v)
          OBVIOUS
        <5> QED
          BY <2>3, <5>1, Zenon
      <4>2. Len(UpTo(wtask.given)) = wtask.given
        BY <1>3, UpToExtended, Zenon
      <4> QED
        BY <1>3, <2>2, <2>3, <3>1, <4>1, <4>2
    <3>2. CASE n # Len(wr.buf)
      BY <1>3, <2>2, <2>3, <3>2 DEF Writing
    <3> QED
      BY <3>1, <3>2, Zenon
  <2> QED
    BY <1>1, <1>2, <2>1, <2>2, <2>3, <2>4, Zenon DEF Writing
<1> QED
  BY <1>4, <1>5, Zenon DEF PollFlush

(* poll_shutdown: a stream that is gone already is not an error. *)
LEMMA PollShutdownWrites ==
  ASSUME HyperTypes, Writing, PollShutdown
  PROVE  /\ Writing' /\ (wr \in WriteSides /\ sock \in Seq(OutBytes) /\ wtask \in WriteTasks)'
         /\ io' \in {"open", "closing", "closed", "reset"} /\ (IoGone => io' = io)
<1>1. /\ wtask.at \in {"run", "closing"} /\ shutting_down' = TRUE
      /\ UNCHANGED <<sock, rtask>>
  BY Zenon DEF PollShutdown
<1>2. rtask.at # "detect" /\ io \in {"open", "closing", "closed", "reset"}
  BY <1>1, Zenon DEF Writing, HyperTypes
<1>3. wr \in WriteSides /\ wtask \in WriteTasks /\ sock \in Seq(OutBytes)
  BY Zenon DEF HyperTypes
<1>4. CASE IoGone /\ wtask' = [wtask EXCEPT !.at = "shut"] /\ UNCHANGED <<io, wr>>
  <2>1. /\ wtask' \in WriteTasks /\ wtask'.at = "shut"
        /\ wtask'.given = wtask.given /\ wtask'.flushed = wtask.flushed
    BY <1>3, <1>4, Zenon DEF WriteTasks
  <2> QED
    BY <1>1, <1>2, <1>3, <1>4, <2>1, Zenon DEF Writing
<1>5. CASE /\ ~IoGone /\ io' = "closing"
           /\ wtask' = [wtask EXCEPT !.at = "closing", !.parked = TRUE]
           /\ wr' = [wr EXCEPT !.waker = "closed"]
  <2>1. /\ wtask' \in WriteTasks /\ wtask'.at = "closing"
        /\ wtask'.given = wtask.given /\ wtask'.flushed = wtask.flushed
    BY <1>3, <1>5, Zenon DEF WriteTasks
  <2>2. wr' \in WriteSides /\ wr'.buf = wr.buf /\ wr'.back = wr.back
    BY <1>3, <1>5, Zenon DEF WriteSides
  <2> QED
    BY <1>1, <1>2, <1>3, <1>5, <2>1, <2>2, Zenon DEF Writing
<1> QED
  BY <1>4, <1>5, Zenon DEF PollShutdown

(* The invariant holds at the start. *)
LEMMA HyperInvInit ==
  HyperInit => HyperInv
<1> SUFFICES ASSUME HyperInit PROVE HyperInv
  BY Zenon
<1>1. PICK d \in 1 .. Preface + 1 : remote = [differs |-> d, sent |-> 0]
  BY Zenon DEF HyperInit
<1>2. HyperTypes
  <2>1. remote \in Remotes
    BY <1>1, HyperConstants DEF Remotes
  <2>2. rd \in ReadSides /\ rtask \in ReadTasks
    BY DEF HyperInit, ReadSides, ReadTasks
  <2>3. wr \in WriteSides /\ sock \in Seq(OutBytes) /\ wtask \in WriteTasks
    BY HyperConstants DEF HyperInit, WriteSides, WriteTasks
  <2> QED
    BY <2>1, <2>2, <2>3, Zenon DEF HyperTypes, HyperInit
<1>3. UpTo(0) = <<>> /\ <<>> \o <<>> = <<>>
  BY DEF UpTo
<1>4. Reading
  BY <1>1, <1>3, Zenon DEF Reading, HyperInit
<1>5. Writing
  BY <1>3, HyperConstants DEF Writing, HyperInit
<1> QED
  BY <1>2, <1>4, <1>5, Zenon DEF HyperInv

(* Every step of hyper, of its transport and of the driver keeps it. *)
LEMMA HyperInvStep ==
  HyperInv /\ [HyperNext]_hyvars => HyperInv'
<1> SUFFICES ASSUME HyperTypes, Reading, Writing, [HyperNext]_hyvars PROVE HyperInv'
  BY Zenon DEF HyperInv
<1>1. CASE Arrive
  <2>1. Reading' /\ (remote \in Remotes /\ rd \in ReadSides /\ rtask \in ReadTasks)'
    BY <1>1, ArriveReads, Zenon
  <2>2. UNCHANGED <<wr, sock, io, wtask, shutting_down>>
    BY <1>1, Zenon DEF Arrive
  <2>3. rtask'.at = rtask.at
    BY <1>1, Zenon DEF Arrive, wokenReader, HyperTypes, ReadTasks
  <2> QED
    BY <2>1, <2>2, <2>3, Zenon DEF HyperInv, HyperTypes, Writing
<1>2. CASE Transmit
  <2>1. Writing' /\ (wr \in WriteSides /\ sock \in Seq(OutBytes) /\ wtask \in WriteTasks)'
    BY <1>2, TransmitWrites, Zenon
  <2>2. UNCHANGED <<remote, rd, io, rtask, shutting_down>>
    BY <1>2, Zenon DEF Transmit
  <2> QED
    BY <2>1, <2>2, Zenon DEF HyperInv, HyperTypes, Reading, IoGone
<1>3. CASE ShutDone \/ PeerClose
  BY <1>3, IoCloseKeeps, Zenon DEF ShutDone, PeerClose, HyperInv
<1>4. CASE Detect
  <2>1. Reading' /\ (remote \in Remotes /\ rd \in ReadSides /\ rtask \in ReadTasks)'
    BY <1>4, DetectReads, Zenon
  <2>2. UNCHANGED <<wr, sock, io, shutting_down>> /\ rtask.at = "detect" /\ wtask.at = "idle"
    BY <1>4, Zenon DEF Detect, Writing
  <2>3. /\ wtask' \in WriteTasks
        /\ wtask'.given = wtask.given /\ wtask'.flushed = wtask.flushed
        /\ wtask'.at = "run" \/ wtask' = wtask
    BY <1>4, Zenon DEF Detect, HyperTypes, WriteTasks
  <2>4. rtask'.at = "detect" => wtask' = wtask
    BY <1>4, Zenon DEF Detect, HyperTypes, ReadTasks
  <2>5. Writing'
    BY <2>2, <2>3, <2>4, Zenon DEF Writing
  <2> QED
    BY <2>1, <2>2, <2>3, <2>5, Zenon DEF HyperInv, HyperTypes
<1>5. CASE PollReads
  <2>1. PICK room \in 1 .. 2 : PollRead(room)
    BY <1>5, Zenon DEF PollReads
  <2>2. Reading' /\ (remote \in Remotes /\ rd \in ReadSides /\ rtask \in ReadTasks)'
    BY <2>1, PollReadReads
  <2>3. UNCHANGED <<wr, sock, io, wtask, shutting_down>> /\ rtask.at = "run"
    BY <2>1, Zenon DEF PollRead
  <2>4. rtask'.at # "detect"
    <3>1. rtask \in ReadTasks /\ rtask.at = "run"
      BY <2>3, Zenon DEF HyperTypes
    <3>2. CASE \E x : rtask' = [rtask EXCEPT !.got = x]
      BY <3>1, <3>2, Zenon DEF ReadTasks
    <3>3. ASSUME NEW o \in poll_read_ready, afterReadReady(o) PROVE rtask'.at # "detect"
      <4>1. o \in {"none", "error", "some", "pending"}
        BY Zenon DEF poll_read_ready, HyperTypes, IoGone
      <4> QED
        BY <3>1, <3>3, <4>1, Zenon DEF afterReadReady, ReadTasks
    <3> QED
      BY <2>1, <3>2, <3>3, Zenon DEF PollRead, drain_read_buffer, PollEmpty
  <2> QED
    BY <2>2, <2>3, <2>4, Zenon DEF HyperInv, HyperTypes, Writing
<1>6. CASE PollWrites
  <2>1. PICK head \in Nat, body \in Nat : PollWrite(head, body)
    <3>1. wtask.given \in Nat /\ MaxOut \in Nat /\ wtask.given < MaxOut
      BY <1>6, HyperConstants DEF PollWrites, HyperTypes, WriteTasks
    <3>2. PICK bufs \in Slices : PollWrite(bufs[1], bufs[2])
      BY <1>6, Zenon DEF PollWrites
    <3>3. bufs[1] \in Nat /\ bufs[2] \in Nat
      BY <3>1, <3>2 DEF Slices
    <3> QED
      BY <3>2, <3>3, Zenon
  <2>2. Writing' /\ (wr \in WriteSides /\ sock \in Seq(OutBytes) /\ wtask \in WriteTasks)'
    BY <2>1, PollWriteWrites, Zenon
  <2>3. UNCHANGED <<remote, rd, io, rtask, shutting_down>>
    BY <2>1, Zenon DEF PollWrite
  <2> QED
    BY <2>2, <2>3, Zenon DEF HyperInv, HyperTypes, Reading, IoGone
<1>7. CASE PollFlush
  <2>1. Writing' /\ (wr \in WriteSides /\ sock \in Seq(OutBytes) /\ wtask \in WriteTasks)'
    BY <1>7, PollFlushWrites, Zenon
  <2>2. UNCHANGED <<remote, rd, io, rtask, shutting_down>>
    BY <1>7, Zenon DEF PollFlush
  <2> QED
    BY <2>1, <2>2, Zenon DEF HyperInv, HyperTypes, Reading, IoGone
<1>8. CASE PollShutdown
  <2>1. /\ Writing' /\ (wr \in WriteSides /\ sock \in Seq(OutBytes) /\ wtask \in WriteTasks)'
        /\ io' \in {"open", "closing", "closed", "reset"} /\ (IoGone => io' = io)
    BY <1>8, PollShutdownWrites, Zenon
  <2>2. UNCHANGED <<remote, rd, sock, rtask>> /\ shutting_down' = TRUE
    BY <1>8, Zenon DEF PollShutdown
  <2> QED
    BY <2>1, <2>2, Zenon DEF HyperInv, HyperTypes, Reading, IoGone
<1>9. CASE UNCHANGED hyvars
  BY <1>9, Zenon DEF hyvars, HyperInv, HyperTypes, Reading, Writing, IoGone
<1> QED
  BY <1>1, <1>2, <1>3, <1>4, <1>5, <1>6, <1>7, <1>8, <1>9, Zenon DEF HyperNext

(* The protocol is the peer's, and hyper reads every byte of the connection  *)
(* in order, those detect looked at included, and the end after them.        *)
THEOREM HyperReadsAll == HyperSpec => []ReadsAll
<1>1. HyperInv => ReadsAll
  <2> SUFFICES ASSUME HyperTypes, Reading PROVE ReadsAll
    BY Zenon DEF HyperInv
  <2>1. HyperTypeOK
    BY Zenon DEF HyperTypes, HyperTypeOK, Remotes, ReadSides, WriteSides, ReadTasks, WriteTasks,
           InBytes, OutBytes
  <2> QED
    BY <2>1, Zenon DEF Reading, ReadsAll
<1> QED
  BY <1>1, HyperInvInit, HyperInvStep, PTL DEF HyperSpec

(* What hyper writes reaches the socket in order, with at most a quantum     *)
(* above the high watermark; a flush told everything is sent, and a shutdown *)
(* of hyper's own does not end in an error unless the peer broke the stream. *)
THEOREM HyperWritesInOrder == HyperSpec => []WritesInOrder
<1>1. HyperInv => WritesInOrder
  BY Zenon DEF HyperInv, Writing, WritesInOrder
<1> QED
  BY <1>1, HyperInvInit, HyperInvStep, PTL DEF HyperSpec

-----------------------------------------------------------------------------
(* The exchanges of the client with the server. *)

(* A request is framed as its body is encoded. *)
Framed(hdr, te) ==
    \/ hdr \in {"none", "zero"} /\ te = "empty"
    \/ hdr \in {"length", "chunked"} /\ te = hdr
Records ==
    /\ DOMAIN cc = {"ctype", "head", "payload"}
    /\ DOMAIN sc = {"version", "ctype", "head", "stream"}
    /\ {"sent", "version", "hdr", "conn", "te"} \subseteq DOMAIN req
CodecsOK ==
    /\ req.version \in {10, 11} /\ req.conn \in Connections
    /\ sc.version \in {10, 11} /\ sc.ctype \in {"Close", "KeepAlive", "Upgrade"}
    /\ sc.stream = FALSE /\ sc.head \in BOOLEAN /\ cc.head \in BOOLEAN

(* One message is under way at a time, and both codecs know the method. *)
Answering == server \in {"called", "upgrading", "refused"}
InTurn ==
    /\ Answering => client = "waiting" /\ ~res.sent /\ ~req.sent
    /\ req.sent => ~res.sent
    /\ req.sent /\ server = "read" => client = "waiting" /\ cc.head = (req.method = "HEAD")
    /\ server \in {"called", "upgrading"} => sc.head = cc.head
    /\ server = "upgrading" => sc.ctype = "Close"

(* Of HTTP/1.1 and decoded *)
Plain(m) == m.version # 10 /\ ~m.refusal
(* A server that closes has said so, and the client has heard it. *)
SaysClose ==
    server = "closing" /\ Plain(res) =>
        /\ res.sent => res.conn \in {"Close", "Upgrade"}
        /\ client = "body" => cc.ctype # "KeepAlive"

ExchangeInv ==
    /\ Records /\ Framed(req.hdr, req.te) /\ CodecsOK /\ InTurn /\ SaysClose
    /\ FramingAgrees /\ KeepAliveAgrees

(* ClientCodec::new and Codec::new *)
LEMMA ExchangeInit == Init => ExchangeInv
<1> SUFFICES ASSUME Init PROVE ExchangeInv
  BY Zenon
<1>1. Records
  BY Zenon DEF Init, Records, NoRequest, NoResponse, Connections
<1>2. Framed(req.hdr, req.te) /\ CodecsOK
  BY Zenon DEF Init, Framed, CodecsOK, NoRequest, Connections
<1>3. InTurn /\ SaysClose
  BY Zenon DEF Init, InTurn, Answering, SaysClose, NoRequest, NoResponse
<1>4. FramingAgrees /\ KeepAliveAgrees
  BY Zenon DEF Init, FramingAgrees, KeepAliveAgrees, NoRequest, NoResponse
<1> QED
  BY <1>1, <1>2, <1>3, <1>4, Zenon DEF ExchangeInv

(* MessageEncoder::encode on a request: the header and the encoding go       *)
(* together.                                                                 *)
LEMMA RequestFramed ==
  ASSUME NEW size \in Sizes
  PROVE  Framed(LengthHeader(0, size, TRUE), TransferEncoding(FALSE, FALSE, size, TRUE))
BY DEF Framed, Sizes, LengthHeader, Bodiless, TransferEncoding

(* A request framed so is read as it was written. *)
LEMMA RequestRead ==
  ASSUME NEW m, Framed(m.hdr, m.te)
  PROVE  SameBody(RequestPayload(m), m.te)
BY Zenon DEF Framed, SameBody, RequestPayload, payload_length

(* The client sends a request. *)
LEMMA SendRequestStep ==
  ASSUME ExchangeInv, NEW r \in Requests, SendRequest(r)
  PROVE  ExchangeInv'
<1>1. r.version \in {10, 11} /\ r.conn \in Connections /\ r.size \in Sizes
  BY HeadsAssumption, Zenon
<1>2. connection_type(r.conn, r.version) \in {"Close", "KeepAlive", "Upgrade"}
  BY <1>1, Zenon DEF connection_type, Connections
<1>3. /\ client' = "waiting" /\ res' = NoResponse /\ UNCHANGED <<ka, server, sc>>
      /\ cc'.head = (r.method = "HEAD") /\ cc'.head \in BOOLEAN
      /\ req'.sent = TRUE /\ req'.method = r.method /\ req'.version = r.version
      /\ req'.hdr = LengthHeader(0, r.size, TRUE)
      /\ req'.conn = ConnectionHeader(connection_type(r.conn, r.version), r.version)
      /\ req'.te = TransferEncoding(FALSE, FALSE, r.size, TRUE)
      /\ client = "idle"
  BY Zenon DEF SendRequest
<1>4. Framed(req.hdr, req.te)'
  BY <1>1, <1>3, RequestFramed, Zenon DEF Framed
<1>5. CodecsOK'
  BY <1>1, <1>3, Zenon DEF ExchangeInv, CodecsOK, ConnectionHeader, Connections
<1>6. ~res'.sent
  BY <1>3, Zenon DEF NoResponse
<1>7. InTurn'
  BY <1>3, <1>6, Zenon DEF ExchangeInv, InTurn, Answering
<1>8. SaysClose' /\ KeepAliveAgrees'
  BY <1>3, <1>6, Zenon DEF SaysClose, KeepAliveAgrees
<1>9. FramingAgrees'
  BY <1>4, <1>6, RequestRead, Zenon DEF FramingAgrees
<1>10. Records'
  BY <1>3, Zenon DEF ExchangeInv, Records, SendRequest
<1> QED
  BY <1>4, <1>5, <1>7, <1>8, <1>9, <1>10, Zenon DEF ExchangeInv

(* The client takes a response, or the end of the connection. *)
LEMMA ClientExchange ==
  ASSUME ExchangeInv, ClientStep
  PROVE  ExchangeInv'
<1>1. /\ UNCHANGED <<ka, req, server, sc, res>> /\ client \in {"waiting", "body"}
      /\ client' \in {"idle", "gone", "upgraded", "body"}
      /\ cc'.head = cc.head
  <2>1. CASE RecvResponse
    <3>1. \E x, y : cc' = [cc EXCEPT !.ctype = x, !.payload = y]
      BY <2>1, Zenon DEF RecvResponse
    <3>2. cc'.head = cc.head
      BY <3>1
    <3> QED
      BY <2>1, <3>2, Zenon DEF RecvResponse, Release
  <2>2. CASE RecvError \/ Disconnected \/ ReadBody
    BY <2>2, Zenon DEF RecvError, Disconnected, ReadBody, Release
  <2> QED
    BY <2>1, <2>2, Zenon DEF ClientStep
<1>2. Framed(req.hdr, req.te)' /\ CodecsOK'
  BY <1>1, Zenon DEF ExchangeInv, CodecsOK
<1>3. ~Answering /\ ~(req.sent /\ server = "read")
  <2>1. CASE client = "body"
    BY <2>1, Zenon DEF ExchangeInv, InTurn
  <2>2. CASE client = "waiting"
    <3>1. res.sent \/ server \in {"closing", "timedout"}
      BY <2>2, Zenon DEF ClientStep, RecvResponse, RecvError, Disconnected, ReadBody, Closed
    <3> QED
      BY <3>1, Zenon DEF ExchangeInv, InTurn, Answering
  <2> QED
    BY <1>1, <2>1, <2>2, Zenon
<1>4. InTurn' /\ FramingAgrees'
  <2>1. InTurn'
    BY <1>1, <1>3, Zenon DEF ExchangeInv, InTurn, Answering
  <2>2. FramingAgrees'
    BY <1>1, <1>2, RequestRead, Zenon DEF FramingAgrees
  <2> QED
    BY <2>1, <2>2, Zenon
<1>5. ASSUME server = "closing", Plain(res)
      PROVE  (client' = "body" => cc'.ctype # "KeepAlive") /\ client' # "idle"
  <2>1. CASE RecvResponse
    <3>1. res.conn \in {"Close", "Upgrade"} /\ res.version # 10
      BY <1>5, <2>1, Zenon DEF ExchangeInv, SaysClose, Plain, RecvResponse
    <3>2. ResponseConn(res) \in {"Close", "Upgrade"}
      BY <3>1, Zenon DEF ResponseConn, ToEof
    <3>3. PICK x, y : /\ cc' = [cc EXCEPT !.ctype = x, !.payload = y]
                      /\ x = ResponseConn(res)
                      /\ IF res.status = 101 THEN client' = "upgraded"
                         ELSE IF y = "none" THEN Release(x) ELSE client' = "body"
      BY <2>1, <3>2, Zenon DEF RecvResponse
    <3>4. cc'.ctype = x
      BY <3>3
    <3> QED
      BY <3>2, <3>3, <3>4, Zenon DEF Release
  <2>2. CASE RecvError \/ Disconnected \/ ReadBody
    BY <1>5, <2>2, Zenon DEF RecvError, Disconnected, ReadBody, Release, ExchangeInv, SaysClose
  <2> QED
    BY <2>1, <2>2, Zenon DEF ClientStep
<1>6. SaysClose'
  BY <1>1, <1>5, Zenon DEF ExchangeInv, SaysClose, Plain
<1>7. KeepAliveAgrees'
  BY <1>1, <1>5, Zenon DEF KeepAliveAgrees, Plain
<1>8. Records'
  <2>1. DOMAIN cc' = DOMAIN cc
    BY Zenon DEF ClientStep, RecvResponse, RecvError, Disconnected, ReadBody
  <2> QED
    BY <1>1, <2>1, Zenon DEF ExchangeInv, Records
<1> QED
  BY <1>2, <1>4, <1>6, <1>7, <1>8, Zenon DEF ExchangeInv

(* The server reads a request. *)
LEMMA ReadRequestExchange ==
  ASSUME ExchangeInv, ReadRequest
  PROVE  ExchangeInv'
<1>1. /\ server = "read" /\ req.sent /\ UNCHANGED <<ka, client, cc, res>>
      /\ server' \in {"called", "upgrading", "refused"}
      /\ req' = [req EXCEPT !.sent = FALSE]
  BY Zenon DEF ReadRequest
<1>2. client = "waiting" /\ ~res.sent /\ cc.head = (req.method = "HEAD")
  BY <1>1, Zenon DEF ExchangeInv, InTurn
<1>3. /\ req'.version = req.version /\ req'.conn = req.conn /\ req'.hdr = req.hdr /\ req'.te = req.te
      /\ req'.sent = FALSE
  BY <1>1
<1>4. /\ sc'.version \in {10, 11} /\ sc'.ctype \in {"Close", "KeepAlive", "Upgrade"}
      /\ sc'.stream = FALSE /\ sc'.head \in BOOLEAN
      /\ server' # "refused" => sc'.head = cc.head
      /\ server' = "upgrading" => sc'.ctype = "Close"
  <2>1. CASE UNCHANGED sc /\ server' = "refused"
    BY <2>1, Zenon DEF ExchangeInv, CodecsOK
  <2>2. connection_type(req.conn, req.version) \in {"Close", "KeepAlive", "Upgrade"}
    BY Zenon DEF ExchangeInv, CodecsOK, connection_type, Connections
  <2>3. /\ Decoded(req).version \in {10, 11} /\ Decoded(req).ctype \in {"Close", "KeepAlive", "Upgrade"}
        /\ Decoded(req).head = (req.method = "HEAD")
        /\ Decoded(req).stream = (sc.stream \/ RequestPayload(req) = "stream")
    BY <2>2, Zenon DEF ExchangeInv, CodecsOK, Decoded
  <2>4. CASE sc' = [Decoded(req) EXCEPT !.stream = FALSE, !.ctype = "Close"]
    <3>1. PICK d : d = Decoded(req)
      BY Zenon
    <3>2. \E x, y, z, w : d = [version |-> x, head |-> y, ctype |-> z, stream |-> w]
      BY <3>1, Zenon DEF Decoded
    <3>3. sc'.version = d.version /\ sc'.head = d.head /\ sc'.stream = FALSE /\ sc'.ctype = "Close"
      BY <2>4, <3>1, <3>2, Zenon
    <3> QED
      BY <1>2, <2>3, <3>1, <3>3, Zenon
  <2>5. CASE sc' = Decoded(req) /\ ~IsUpgrade(req) /\ server' = "called"
    BY <1>2, <2>3, <2>5, Zenon DEF ExchangeInv, CodecsOK, IsUpgrade
  <2> QED
    BY <2>1, <2>4, <2>5, Zenon DEF ReadRequest
<1>5. CodecsOK'
  BY <1>1, <1>3, <1>4, Zenon DEF ExchangeInv, CodecsOK
<1>6. InTurn' /\ SaysClose' /\ KeepAliveAgrees'
  BY <1>1, <1>2, <1>3, <1>4, Zenon DEF InTurn, SaysClose, KeepAliveAgrees
<1>7. FramingAgrees'
  BY <1>1, <1>2, <1>3, Zenon DEF FramingAgrees
<1>8. Records'
  <2>1. DOMAIN sc' = {"version", "ctype", "head", "stream"}
    BY Zenon DEF ReadRequest, Decoded, ExchangeInv, Records
  <2>2. DOMAIN req' = DOMAIN req
    BY <1>1, Zenon
  <2> QED
    BY <1>1, <2>1, <2>2, Zenon DEF ExchangeInv, Records
<1> QED
  BY <1>3, <1>5, <1>6, <1>7, <1>8, Zenon DEF ExchangeInv

(* MessageEncoder::encode on a response: what ResponseHead::set_payload_length *)
(* makes of the header is what was encoded, if the codecs agree on HEAD.     *)
LEMMA ResponseRead ==
  ASSUME NEW size \in Sizes, NEW chunked \in BOOLEAN, NEW head \in BOOLEAN, NEW m,
         m.hdr = LengthHeader(m.status, size, chunked),
         m.te = TransferEncoding(head, FALSE, size, chunked),
         m.version \in {10, 11}, m.status # 101 => m.upgrade = FALSE, FramableResponse(m)
  PROVE  ~HeaderError(m) /\ SameBody(IF head THEN "none" ELSE ResponsePayload(m), m.te)
<1>1. /\ m.status # 101 /\ m.upgrade = FALSE
      /\ m.status \in Bodiless => m.te = "empty"
      /\ ~(m.hdr = "chunked" /\ m.version = 10)
      /\ m.te = "eof" => m.version = 10
  BY Zenon DEF FramableResponse, Framable
<1>2. ~HeaderError(m)
  BY <1>1, Zenon DEF HeaderError
<1>3. \/ m.te = "empty" /\ (m.hdr \in {"none", "zero"} \/ head)
      \/ m.hdr \in {"length", "chunked"} /\ m.te = m.hdr /\ ~head
      \/ m.hdr = "none" /\ m.te = "eof" /\ ~head
  <2>1. CASE m.status \in Bodiless
    BY <1>1, <2>1, Zenon DEF LengthHeader
  <2>2. CASE m.status \notin Bodiless
    BY <1>1, <2>2, Zenon DEF LengthHeader, TransferEncoding, Sizes
  <2> QED
    BY <2>1, <2>2, Zenon
<1>4. CASE head
  BY <1>2, <1>3, <1>4, Zenon DEF SameBody
<1>5. CASE ~head /\ m.hdr \in {"none", "zero"}
  <2>1. payload_length(m) = "none"
    BY <1>1, <1>5, Zenon DEF payload_length
  <2>2. ResponsePayload(m) = IF m.version = 10 THEN "eof" ELSE "none"
    BY <1>1, <2>1, Zenon DEF ResponsePayload, ToEof
  <2>3. m.te \in {"empty", "eof"}
    BY <1>3, <1>5, Zenon
  <2> QED
    BY <1>1, <1>2, <1>5, <2>2, <2>3, Zenon DEF SameBody
<1>6. CASE ~head /\ m.hdr \in {"length", "chunked"}
  <2>1. payload_length(m) = m.hdr
    BY <1>6, Zenon DEF payload_length
  <2>2. ResponsePayload(m) = m.hdr
    BY <1>6, <2>1, Zenon DEF ResponsePayload, ToEof
  <2> QED
    BY <1>2, <1>3, <1>6, <2>2, Zenon DEF SameBody
<1> QED
  BY <1>3, <1>4, <1>5, <1>6, Zenon

(* Codec::encodev *)
LEMMA EncodeIs ==
  ASSUME CodecsOK, NEW r, r.size \in Sizes, r.chunked \in BOOLEAN,
         NEW conn \in Connections, NEW refusal \in BOOLEAN, Encode(r, conn, refusal)
  PROVE  /\ res'.sent = TRUE /\ res'.refusal = refusal
         /\ sc'.version \in {10, 11} /\ sc'.head \in BOOLEAN /\ sc'.stream = FALSE
         /\ sc'.ctype \in {"Close", "KeepAlive", "Upgrade"}
         /\ sc'.ctype = (IF conn \in {"none", "KeepAlive"} THEN sc.ctype ELSE conn)
         /\ sc'.ctype # "KeepAlive" /\ res'.version # 10 => res'.conn \in {"Close", "Upgrade"}
         /\ FramableResponse(res') =>
                /\ ~HeaderError(res')
                /\ SameBody(IF sc.head THEN "none" ELSE ResponsePayload(res'), res'.te)
<1>1. PICK ctype : ctype = IF conn \in {"none", "KeepAlive"} THEN sc.ctype ELSE conn
  BY Zenon
<1>2. sc' = [sc EXCEPT !.ctype = ctype]
  BY <1>1, Zenon DEF Encode
<1>3. /\ sc'.ctype = ctype /\ sc'.version = sc.version /\ sc'.head = sc.head /\ sc'.stream = sc.stream
  BY <1>2
<1>4. ctype \in {"Close", "KeepAlive", "Upgrade"}
  BY <1>1, Zenon DEF CodecsOK, Connections
<1>5. res' = [sent |-> TRUE, status |-> r.status, version |-> sc.version,
              hdr |-> LengthHeader(r.status, r.size, r.chunked),
              conn |-> ConnectionHeader(ctype, sc.version), upgrade |-> r.status = 101,
              te |-> TransferEncoding(sc.head, sc.stream, r.size, r.chunked),
              refusal |-> refusal]
  BY <1>1, Zenon DEF Encode
<1>6. /\ res'.sent = TRUE /\ res'.refusal = refusal /\ res'.version = sc.version
      /\ res'.conn = ConnectionHeader(ctype, sc.version)
  BY <1>5, Zenon
<1>7. /\ res'.status = r.status /\ res'.upgrade = (r.status = 101)
      /\ res'.hdr = LengthHeader(r.status, r.size, r.chunked)
      /\ res'.te = TransferEncoding(sc.head, sc.stream, r.size, r.chunked)
  BY <1>5, Zenon
<1>8. ctype # "KeepAlive" /\ res'.version # 10 => res'.conn \in {"Close", "Upgrade"}
  BY <1>4, <1>6, Zenon DEF ConnectionHeader, CodecsOK
<1>9. FramableResponse(res') =>
          /\ ~HeaderError(res')
          /\ SameBody(IF sc.head THEN "none" ELSE ResponsePayload(res'), res'.te)
  <2> SUFFICES ASSUME FramableResponse(res')
               PROVE  /\ ~HeaderError(res')
                      /\ SameBody(IF sc.head THEN "none" ELSE ResponsePayload(res'), res'.te)
    BY Zenon
  <2>1. sc.stream = FALSE /\ sc.version \in {10, 11}
    BY Zenon DEF CodecsOK
  <2>2. PICK m : m = res'
    BY Zenon
  <2>3. PICK head \in BOOLEAN : head = sc.head
    BY Zenon DEF CodecsOK
  <2>0. PICK size \in Sizes, chunked \in BOOLEAN : size = r.size /\ chunked = r.chunked
    BY Zenon
  <2>4. m.hdr = LengthHeader(m.status, size, chunked)
    BY <1>7, <2>0, <2>2, Zenon
  <2>5. m.te = TransferEncoding(head, FALSE, size, chunked)
    BY <1>7, <2>0, <2>1, <2>2, <2>3, Zenon
  <2>6. m.version \in {10, 11} /\ (m.status # 101 => m.upgrade = FALSE) /\ FramableResponse(m)
    BY <1>6, <1>7, <2>1, <2>2, Zenon
  <2>7. ~HeaderError(m) /\ SameBody(IF head THEN "none" ELSE ResponsePayload(m), m.te)
    BY <2>4, <2>5, <2>6, ResponseRead, Zenon
  <2> QED
    BY <2>2, <2>3, <2>7, Zenon
<1> QED
  BY <1>1, <1>3, <1>4, <1>6, <1>8, <1>9, Zenon DEF CodecsOK

(* A response that ends the exchange: the server reads on if it said so.     *)
LEMMA AnswerExchange ==
  ASSUME ExchangeInv, NEW r, r.size \in Sizes, r.chunked \in BOOLEAN,
         NEW conn \in Connections, NEW refusal \in BOOLEAN, Encode(r, conn, refusal),
         Answering, server \in {"called", "upgrading"} \/ refusal,
         UNCHANGED <<ka, client, cc, req>>,
         \/ server' \in {"read", "handed"}
         \/ server' = "closing" /\ (refusal \/ sc'.ctype # "KeepAlive")
  PROVE  ExchangeInv'
<1>1. /\ Framed(req.hdr, req.te) /\ CodecsOK /\ client = "waiting" /\ ~req.sent
      /\ server \in {"called", "upgrading"} => sc.head = cc.head
  BY Zenon DEF ExchangeInv, InTurn
<1>2. /\ res'.sent = TRUE /\ res'.refusal = refusal
      /\ sc'.version \in {10, 11} /\ sc'.head \in BOOLEAN /\ sc'.stream = FALSE
      /\ sc'.ctype \in {"Close", "KeepAlive", "Upgrade"}
      /\ sc'.ctype # "KeepAlive" /\ res'.version # 10 => res'.conn \in {"Close", "Upgrade"}
      /\ FramableResponse(res') =>
                /\ ~HeaderError(res')
                /\ SameBody(IF sc.head THEN "none" ELSE ResponsePayload(res'), res'.te)
  BY <1>1, EncodeIs, Zenon
<1>3. Framed(req.hdr, req.te)' /\ CodecsOK'
  BY <1>1, <1>2, Zenon DEF CodecsOK
<1>4. InTurn' /\ SaysClose' /\ KeepAliveAgrees'
  BY <1>1, <1>2, Zenon DEF InTurn, Answering, SaysClose, Plain, KeepAliveAgrees
<1>5. FramingAgrees'
  <2>1. FramableResponse(res') => sc.head = cc.head
    BY <1>1, <1>2, Zenon DEF FramableResponse
  <2> QED
    BY <1>1, <1>2, <2>1, Zenon DEF FramingAgrees
<1>6. Records'
  <2>1. DOMAIN sc' = DOMAIN sc
    BY Zenon DEF Encode
  <2> QED
    BY <2>1, Zenon DEF ExchangeInv, Records
<1> QED
  BY <1>3, <1>4, <1>5, <1>6, Zenon DEF ExchangeInv

(* The steps of the dispatcher *)
LEMMA ServerExchange ==
  ASSUME ExchangeInv, ServerStep
  PROVE  ExchangeInv'
<1>1. CASE ReadRequest
  BY <1>1, ReadRequestExchange, Zenon
<1>2. CASE Refuse
  <2>1. PICK r : r = [status |-> 400, size |-> "sized", chunked |-> TRUE]
    BY Zenon
  <2>2. r.size \in Sizes /\ r.chunked \in BOOLEAN /\ "none" \in Connections
    BY <2>1, Zenon DEF Sizes, Connections
  <2>3. /\ Encode(r, "none", TRUE) /\ Answering /\ server' = "closing"
        /\ UNCHANGED <<ka, client, cc, req>>
    BY <1>2, <2>1, Zenon DEF Refuse, Answering
  <2> QED
    BY <2>2, <2>3, AnswerExchange, Zenon
<1>3. ASSUME NEW r \in Responses, NEW taken \in BOOLEAN, Respond(r, taken)
      PROVE  ExchangeInv'
  <2>1. PICK conn : conn = IF taken THEN r.conn ELSE "Close"
    BY Zenon
  <2>2. r.size \in Sizes /\ r.chunked \in BOOLEAN /\ conn \in Connections
    BY <2>1, HeadsAssumption, Zenon DEF Connections
  <2>3. /\ Encode(r, conn, FALSE) /\ server = "called" /\ UNCHANGED <<ka, client, cc, req>>
        /\ server' = IF sc'.ctype = "KeepAlive" THEN "read" ELSE "closing"
    BY <1>3, <2>1, Zenon DEF Respond, AfterResponse
  <2>4. Answering
    BY <2>3, Zenon DEF Answering
  <2> QED
    BY <2>2, <2>3, <2>4, AnswerExchange, Zenon
<1>4. ASSUME NEW r \in Responses, RespondUpgrade(r)
      PROVE  ExchangeInv'
  <2>1. r.size \in Sizes /\ r.chunked \in BOOLEAN /\ r.conn \in Connections
    BY HeadsAssumption, Zenon
  <2>2. /\ Encode(r, r.conn, FALSE) /\ server = "upgrading" /\ UNCHANGED <<ka, client, cc, req>>
        /\ server' \in {"handed", "closing"}
    BY <1>4, Zenon DEF RespondUpgrade
  <2>3. Answering /\ CodecsOK /\ sc.ctype = "Close"
    BY <2>2, Zenon DEF Answering, ExchangeInv, InTurn
  <2>4. sc'.ctype = IF r.conn \in {"none", "KeepAlive"} THEN sc.ctype ELSE r.conn
    BY <2>1, <2>2, <2>3, EncodeIs, Zenon
  <2>5. sc'.ctype # "KeepAlive"
    BY <2>3, <2>4, Zenon
  <2> QED
    BY <2>1, <2>2, <2>3, <2>5, AnswerExchange, Zenon
<1> QED
  BY <1>1, <1>2, <1>3, <1>4, Zenon DEF ServerStep

(* Every step keeps the invariant. *)
LEMMA ExchangeStep == ExchangeInv /\ [Next]_vars => ExchangeInv'
<1> SUFFICES ASSUME ExchangeInv, [Next]_vars PROVE ExchangeInv'
  BY Zenon
<1>1. CASE KeepAliveTimeout
  <2>1. /\ server = "read" /\ server' = "timedout" /\ ~req.sent
        /\ UNCHANGED <<ka, client, cc, req, sc, res>>
    BY <1>1, Zenon DEF KeepAliveTimeout
  <2>2. Records' /\ Framed(req.hdr, req.te)' /\ CodecsOK'
    BY <2>1, Zenon DEF ExchangeInv, Records, CodecsOK
  <2>3. InTurn'
    BY <2>1, Zenon DEF InTurn, Answering
  <2>4. SaysClose' /\ FramingAgrees' /\ KeepAliveAgrees'
    BY <2>1, Zenon DEF ExchangeInv, SaysClose, FramingAgrees, KeepAliveAgrees
  <2> QED
    BY <2>2, <2>3, <2>4, Zenon DEF ExchangeInv
<1>2. CASE UNCHANGED vars
  <2>1. UNCHANGED <<ka, client, cc, req, server, sc, res>>
    BY <1>2, Zenon DEF vars
  <2>2. Records' /\ Framed(req.hdr, req.te)' /\ CodecsOK'
    BY <2>1, Zenon DEF ExchangeInv, Records, CodecsOK
  <2>3. InTurn'
    BY <2>1, Zenon DEF ExchangeInv, InTurn, Answering
  <2>4. SaysClose' /\ FramingAgrees' /\ KeepAliveAgrees'
    BY <2>1, Zenon DEF ExchangeInv, SaysClose, FramingAgrees, KeepAliveAgrees
  <2> QED
    BY <2>2, <2>3, <2>4, Zenon DEF ExchangeInv
<1> QED
  BY <1>1, <1>2, SendRequestStep, ClientExchange, ServerExchange, Zenon DEF Next

(* The end that reads a message takes it for neither longer nor shorter than *)
(* the end that wrote it, for every method and status and any sequence of    *)
(* exchanges on a connection: what ClientCodec and Codec remember of one is  *)
(* never applied to another.                                                 *)
THEOREM FramingDoesAgree == Spec => []FramingAgrees
<1>1. ExchangeInv => FramingAgrees
  BY Zenon DEF ExchangeInv
<1> QED
  BY <1>1, ExchangeInit, ExchangeStep, PTL DEF Spec

(* release_connection puts a connection back only if the dispatcher means to *)
(* read another request from it, for HTTP/1.1 and requests that decode.      *)
THEOREM KeepAliveDoesAgree == Spec => []KeepAliveAgrees
<1>1. ExchangeInv => KeepAliveAgrees
  BY Zenon DEF ExchangeInv
<1> QED
  BY <1>1, ExchangeInit, ExchangeStep, PTL DEF Spec
=============================================================================
