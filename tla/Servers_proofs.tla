--------------------------- MODULE Servers_proofs ---------------------------
(* The servers: the two of the C interface, and the HTTP services of the      *)
(* crate that are shut down.                                                  *)
EXTENDS Responder, NativeServer, ServiceShutdown, SequenceTheorems, TLAPS

-----------------------------------------------------------------------------
(***************************************************************************)
(* The slot of a responder outlives every use of it, for any number of     *)
(* requests.                                                               *)
(*                                                                         *)
(* The count of references alone says nothing of who holds them: Slot      *)
(* ties it to the task (two while it waits, one once it is dropped, none   *)
(* once it has answered), and the answer to the call, which has sent the   *)
(* reply and does not look at the slot any more.                           *)
(***************************************************************************)
NativeTypeOK ==
    /\ task \in [Natives -> {"none", "waiting", "answered", "dropped"}]
    /\ refs \in [Natives -> Int] /\ sender \in [Natives -> BOOLEAN]
    /\ reply \in [Natives -> {"empty", "full", "closed"}]
    /\ call \in [Natives -> {"none", "entered", "sending", "returned"}]
    /\ status \in [Natives -> {"none", "OK", "INVALID_ARG"}]

Slot(r) ==
    /\ task[r] \in {"none", "answered"} => refs[r] = 0
    /\ task[r] = "waiting" => refs[r] = 2
    /\ task[r] = "dropped" => refs[r] = 1

Lent(r) ==
    /\ task[r] = "none" => sender[r] = FALSE /\ call[r] = "none"
    /\ task[r] = "answered" => sender[r] = FALSE /\ call[r] \in {"none", "returned"}
    /\ call[r] \in {"sending", "returned"} => sender[r] = FALSE

Answer(r) ==
    /\ reply[r] = "full" => call[r] = "returned"
    /\ reply[r] = "closed" <=> task[r] = "dropped"
    /\ status[r] = "INVALID_ARG" => task[r] = "dropped"

NativeInv == NativeTypeOK /\ \A r \in Natives : Slot(r) /\ Lent(r) /\ Answer(r)

-----------------------------------------------------------------------------
(* Start and stop of the server touch no responder. *)
LEMMA ServerKeeps ==
  ASSUME NativeInv, UNCHANGED <<task, refs, sender, reply, call, status>>
  PROVE  NativeInv'
BY Zenon DEF NativeInv, NativeTypeOK, Slot, Lent, Answer

(* native_dispatch and its early return *)
LEMMA DispatchKeeps ==
  ASSUME NativeInv, NEW r \in Natives, native_dispatch(r) \/ native_refuse(r)
  PROVE  NativeInv'
<1>1. /\ task[r] = "none" /\ refs[r] = 0 /\ sender[r] = FALSE /\ call[r] = "none"
      /\ reply[r] # "full" /\ reply[r] # "closed" /\ status[r] # "INVALID_ARG"
  BY Zenon DEF native_dispatch, native_refuse, NativeInv, Slot, Lent, Answer
<1>2. NativeTypeOK' /\ UNCHANGED <<reply, call, status>>
      /\ \A q \in Natives : q # r => task'[q] = task[q] /\ refs'[q] = refs[q] /\ sender'[q] = sender[q]
  <2>1. CASE native_dispatch(r)
    BY <2>1 DEF native_dispatch, NativeInv, NativeTypeOK
  <2>2. CASE native_refuse(r)
    BY <2>2, Zenon DEF native_refuse, NativeInv, NativeTypeOK
  <2>3. QED
    BY <2>1, <2>2, Zenon
<1>3. \/ task'[r] = "waiting" /\ refs'[r] = 2
      \/ task'[r] = "answered" /\ refs'[r] = 0 /\ sender'[r] = FALSE
  BY <1>1, Zenon DEF native_dispatch, native_refuse, NativeInv, NativeTypeOK
<1>4. Slot(r)' /\ Lent(r)' /\ Answer(r)'
  BY <1>1, <1>2, <1>3, Zenon DEF Slot, Lent, Answer
<1>5. \A q \in Natives : q # r => Slot(q)' /\ Lent(q)' /\ Answer(q)'
  BY <1>2 DEF NativeInv, Slot, Lent, Answer
<1>6. QED
  BY <1>2, <1>4, <1>5, Zenon DEF NativeInv

(* Tasks that go away while they wait *)
LEMMA DroppedKeeps ==
  ASSUME NativeInv, NEW rs, \A r \in rs : r \in Natives /\ task[r] = "waiting",
         Dropped(rs), UNCHANGED <<sender, call, status>>
  PROVE  NativeInv'
<1>1. /\ \A r \in rs : refs[r] = 2
      /\ task \in [Natives -> {"none", "waiting", "answered", "dropped"}]
      /\ refs \in [Natives -> Int] /\ reply \in [Natives -> {"empty", "full", "closed"}]
  BY Zenon DEF NativeInv, NativeTypeOK, Slot
<1>2. /\ task' \in [Natives -> {"none", "waiting", "answered", "dropped"}]
      /\ refs' \in [Natives -> Int] /\ reply' \in [Natives -> {"empty", "full", "closed"}]
  BY <1>1 DEF Dropped
<1>3. \A r \in Natives : r \in rs => task'[r] = "dropped" /\ refs'[r] = 1 /\ reply'[r] = "closed"
  BY <1>1 DEF Dropped
<1>4. \A r \in Natives : r \notin rs => task'[r] = task[r] /\ refs'[r] = refs[r] /\ reply'[r] = reply[r]
  BY Zenon DEF Dropped
<1>5. NativeTypeOK'
  BY <1>2, Zenon DEF NativeInv, NativeTypeOK
<1>6. ASSUME NEW r \in Natives
      PROVE  Slot(r)' /\ Lent(r)' /\ Answer(r)'
  <2>1. CASE r \in rs
    BY <1>3, <2>1, Zenon DEF NativeInv, Slot, Lent, Answer
  <2>2. CASE r \notin rs
    BY <1>4, <2>2 DEF NativeInv, Slot, Lent, Answer
  <2>3. QED
    BY <2>1, <2>2, Zenon
<1>7. QED
  BY <1>5, <1>6, Zenon DEF NativeInv

(* The reply arrives: both references go. *)
LEMMA ReplyKeeps ==
  ASSUME NativeInv, NEW r \in Natives, native_reply(r)
  PROVE  NativeInv'
<1>1. /\ task[r] = "waiting" /\ refs[r] = 2 /\ reply[r] = "full" /\ call[r] = "returned"
      /\ sender[r] = FALSE
  BY Zenon DEF native_reply, Waiting, NativeInv, Slot, Lent, Answer
<1>2. NativeTypeOK' /\ UNCHANGED <<sender, reply, call, status>>
      /\ task'[r] = "answered" /\ refs'[r] = 0
      /\ \A q \in Natives : q # r => task'[q] = task[q] /\ refs'[q] = refs[q]
  BY <1>1 DEF native_reply, NativeInv, NativeTypeOK
<1>3. Slot(r)' /\ Lent(r)' /\ Answer(r)'
  BY <1>1, <1>2, Zenon DEF NativeInv, Slot, Lent, Answer
<1>4. \A q \in Natives : q # r => Slot(q)' /\ Lent(q)' /\ Answer(q)'
  BY <1>2 DEF NativeInv, Slot, Lent, Answer
<1>5. QED
  BY <1>2, <1>3, <1>4, Zenon DEF NativeInv

(* geario_http_native_h1_respond *)
LEMMA RespondKeeps ==
  ASSUME NativeInv, NEW r \in Natives, Enter(r) \/ TakeSender(r) \/ SendReply(r)
  PROVE  NativeInv'
<1>1. NativeTypeOK' /\ UNCHANGED <<task, refs>>
      /\ \A q \in Natives : q # r => /\ sender'[q] = sender[q] /\ reply'[q] = reply[q]
                                     /\ call'[q] = call[q] /\ status'[q] = status[q]
  <2>1. CASE Enter(r)
    BY <2>1, Zenon DEF Enter, NativeInv, NativeTypeOK
  <2>2. CASE TakeSender(r)
    BY <2>2, Zenon DEF TakeSender, NativeInv, NativeTypeOK
  <2>3. CASE SendReply(r)
    BY <2>3, Zenon DEF SendReply, NativeInv, NativeTypeOK
  <2>4. QED
    BY <2>1, <2>2, <2>3, Zenon
<1>2. Slot(r)' /\ Lent(r)' /\ Answer(r)'
  <2>1. CASE Enter(r)
    BY <2>1, Zenon DEF Enter, NativeInv, NativeTypeOK, Slot, Lent, Answer
  <2>2. CASE TakeSender(r)
    BY <2>2, Zenon DEF TakeSender, NativeInv, NativeTypeOK, Slot, Lent, Answer
  <2>3. CASE SendReply(r)
    BY <2>3, Zenon DEF SendReply, NativeInv, NativeTypeOK, Slot, Lent, Answer
  <2>4. QED
    BY <2>1, <2>2, <2>3, Zenon
<1>3. \A q \in Natives : q # r => Slot(q)' /\ Lent(q)' /\ Answer(q)'
  BY <1>1 DEF NativeInv, Slot, Lent, Answer
<1>4. QED
  BY <1>1, <1>2, <1>3, Zenon DEF NativeInv

(* NativeInv is an invariant of the native server. *)
LEMMA NativeInvariant == NativeSpec => []NativeInv
<1>1. NativeInit => NativeInv
  BY DEF NativeInit, NativeInv, NativeTypeOK, Slot, Lent, Answer
<1>2. ASSUME NativeInv, [NativeNext]_nvars
      PROVE  NativeInv'
  <2>1. CASE Spawn \/ Ready \/ NativeStop \/ UNCHANGED nvars
    BY <1>2, <2>1, ServerKeeps, Zenon DEF Spawn, Ready, NativeStop, nvars
  <2>2. CASE ThreadEnds
    BY <1>2, <2>2, DroppedKeeps, Zenon DEF ThreadEnds, Waiting
  <2>3. ASSUME NEW r \in Natives, ConnectionDrops(r)
        PROVE  NativeInv'
    BY <1>2, <2>3, DroppedKeeps, Zenon DEF ConnectionDrops, Waiting
  <2>4. ASSUME NEW r \in Natives, native_dispatch(r) \/ native_refuse(r)
        PROVE  NativeInv'
    BY <1>2, <2>4, DispatchKeeps, Zenon
  <2>5. ASSUME NEW r \in Natives, native_reply(r)
        PROVE  NativeInv'
    BY <1>2, <2>5, ReplyKeeps, Zenon
  <2>6. ASSUME NEW r \in Natives, Enter(r) \/ TakeSender(r) \/ SendReply(r)
        PROVE  NativeInv'
    BY <1>2, <2>6, RespondKeeps, Zenon
  <2>7. QED
    BY <1>2, <2>1, <2>2, <2>3, <2>4, <2>5, <2>6, Zenon DEF NativeNext, NativeRuns
<1>3. QED
  BY <1>1, <1>2, PTL DEF NativeSpec

(* A call of the host that is about to lock a responder's slot finds it      *)
(* alive, no reference is dropped twice and every answered request has freed *)
(* its slot, for any number of requests.                                     *)
THEOREM SlotsStayAlive == NativeSpec => []SlotAlive
<1>1. NativeInv => SlotAlive
  <2> SUFFICES ASSUME NativeInv, NEW r \in Natives
               PROVE  /\ call[r] = "entered" => refs[r] > 0
                      /\ refs[r] >= 0
                      /\ task[r] = "answered" => refs[r] = 0
                      /\ status[r] = "INVALID_ARG" => task[r] = "dropped"
    BY Zenon DEF SlotAlive
  <2>1. task[r] \in {"none", "waiting", "answered", "dropped"} /\ Slot(r) /\ Lent(r) /\ Answer(r)
    BY Zenon DEF NativeInv, NativeTypeOK
  <2>2. QED
    BY <2>1 DEF Slot, Lent, Answer
<1>2. QED
  BY <1>1, NativeInvariant, PTL

-----------------------------------------------------------------------------
(***************************************************************************)
(* For any set of connections, and for both services: shutdown never waits *)
(* for a notification nobody will send, and nothing is served once it has  *)
(* returned.                                                               *)
(***************************************************************************)
(* The sender of the oneshot is used only when shutdown was asked for and   *)
(* no connection was left; from then on the flag keeps requests out.        *)
NoBusy == \A c \in Conns : at[c] # "busy"

(* The stages of call after insert_io and before the dispatcher runs.       *)
Registered(s) == s = "connect" \/ (s = "ctl" /\ ~H1Only)

SvcInv ==
    /\ SvcTypeOK
    /\ ServedIsCounted
    /\ NoSleeper
    /\ NoLostNotify
    /\ NothingServedAfterDown
    /\ service # "up" => flag
    /\ ~shutdown_tx => flag /\ NoBusy
    /\ \A c \in Conns : Registered(at[c]) => c \in inflight

(* Nothing is registered and nothing runs when the service starts.          *)
LEMMA SvcInvInit == SvcInit => SvcInv
BY Zenon, ServiceAssumption DEF SvcInit, SvcInv, SvcTypeOK, Stages, ServedIsCounted, NoSleeper, NoLostNotify,
     NothingServedAfterDown, NoBusy, Registered

(* A step that moves one call and leaves the configuration alone, to a      *)
(* stage that needs no registration or from one that had it.                *)
LEMMA QuietPreserves ==
    ASSUME NEW c \in Conns, NEW s \in Stages, SvcInv, Move(c, s), Quiet,
           Registered(s) \/ s \in {"start", "idle", "busy"} => c \in inflight,
           flag => s \notin {"idle", "busy"}
    PROVE  SvcInv'
BY Zenon DEF SvcInv, SvcTypeOK, Stages, Move, Quiet, ServedIsCounted, NoSleeper, NoLostNotify,
       NothingServedAfterDown, NoBusy, Registered

(* insert_io, on the way to the next stage of call.                         *)
LEMMA InsertPreserves ==
    ASSUME NEW c \in Conns, NEW s \in {"ctl", "connect"}, SvcInv, Move(c, s), insert_io(c)
    PROVE  SvcInv'
BY Zenon DEF SvcInv, SvcTypeOK, Stages, Move, insert_io, ServedIsCounted, NoSleeper, NoLostNotify,
       NothingServedAfterDown, NoBusy, Registered

(* remove_io at the end of call: the last connection notifies.              *)
LEMMA FinishPreserves ==
    ASSUME NEW c \in Conns, SvcInv, Finish(c)
    PROVE  SvcInv'
<1>1. /\ at' = [at EXCEPT ![c] = "end"] /\ inflight' = inflight \ {c}
      /\ shutdown_tx' = (shutdown_tx /\ ~(flag /\ inflight' = {}))
      /\ UNCHANGED <<flag, woken, shutdown_rx, service>>
  BY Zenon DEF Finish, Move, remove_io
<1>2. SvcTypeOK'
  BY <1>1, Zenon DEF SvcInv, SvcTypeOK, Stages
<1>3. \A d \in Conns : at'[d] = IF d = c THEN "end" ELSE at[d]
  BY <1>1, Zenon DEF SvcInv, SvcTypeOK
<1>4. /\ ServedIsCounted' /\ NoSleeper'
      /\ \A d \in Conns : Registered(at'[d]) => d \in inflight'
  BY <1>1, <1>3 DEF SvcInv, ServedIsCounted, NoSleeper, Registered
<1>5. NothingServedAfterDown' /\ (service' # "up" => flag')
  BY <1>1, <1>3 DEF SvcInv, NothingServedAfterDown
<1>6. NoLostNotify'
  BY <1>1, Zenon DEF SvcInv, NoLostNotify
<1>7. ~shutdown_tx' => flag' /\ NoBusy'
  <2>1. CASE ~shutdown_tx
    BY <2>1, <1>1, <1>3 DEF SvcInv, NoBusy
  <2>2. CASE shutdown_tx
    <3>1. ~shutdown_tx' => flag /\ inflight' = {}
      BY <2>2, <1>1, Zenon
    <3>2. inflight' = {} => NoBusy'
      BY <1>4, Zenon DEF ServedIsCounted, NoBusy
    <3> QED BY <3>1, <3>2, <1>1, Zenon
  <2> QED BY <2>1, <2>2, Zenon
<1> QED BY <1>2, <1>4, <1>5, <1>6, <1>7, Zenon DEF SvcInv

(* A poll of the dispatcher, from any stage in which it runs.               *)
LEMMA ReadRequestPreserves ==
    ASSUME NEW c \in Conns, SvcInv, at[c] \in {"start", "idle", "busy"}, ReadRequest(c)
    PROVE  SvcInv'
<1>1. c \in inflight
  BY Zenon DEF SvcInv, ServedIsCounted
<1>2. CASE ~flag /\ Move(c, "busy") /\ Quiet
  BY <1>1, <1>2, QuietPreserves, Zenon DEF Stages, Registered
<1>3. CASE ~flag /\ Move(c, "idle") /\ Quiet
  BY <1>1, <1>3, QuietPreserves, Zenon DEF Stages, Registered
<1>4. CASE Finish(c)
  BY <1>4, FinishPreserves, Zenon
<1> QED BY <1>2, <1>3, <1>4, Zenon DEF ReadRequest

(* Every step of the service keeps the invariant.                           *)
LEMMA StepPreserves == SvcInv /\ [SvcNext]_svcvars => SvcInv'
<1> SUFFICES ASSUME SvcInv, [SvcNext]_svcvars PROVE SvcInv'
  BY Zenon
<1>1. ASSUME NEW c \in Conns, Call(c) PROVE SvcInv'
  BY <1>1, QuietPreserves, Zenon DEF Call, Stages, Registered
<1>2. ASSUME NEW c \in Conns, CreateSvc(c) PROVE SvcInv'
  <2>1. CASE H1Only /\ Move(c, "ctl") /\ Quiet
    BY <2>1, QuietPreserves, Zenon DEF Stages, Registered
  <2>2. CASE Move(c, "ctl") /\ insert_io(c)
    BY <2>2, InsertPreserves, Zenon
  <2>3. CASE Move(c, "end") /\ Quiet
    BY <2>3, QuietPreserves, Zenon DEF Stages, Registered
  <2> QED BY <1>2, <2>1, <2>2, <2>3, Zenon DEF CreateSvc
<1>3. ASSUME NEW c \in Conns, CreateCtl(c) PROVE SvcInv'
  <2>1. CASE H1Only /\ Move(c, "connect") /\ insert_io(c)
    BY <2>1, InsertPreserves, Zenon
  <2>2. CASE ~H1Only /\ Move(c, "connect") /\ Quiet
    <3>1. c \in inflight
      BY <1>3, <2>2, Zenon DEF CreateCtl, SvcInv, Registered
    <3> QED BY <2>2, <3>1, QuietPreserves, Zenon DEF Stages, Registered
  <2>3. CASE Move(c, "end") /\ Quiet
    BY <2>3, QuietPreserves, Zenon DEF Stages, Registered
  <2> QED BY <1>3, <2>1, <2>2, <2>3, Zenon DEF CreateCtl
<1>4. ASSUME NEW c \in Conns, Connect(c) PROVE SvcInv'
  <2>1. c \in inflight
    BY <1>4, Zenon DEF Connect, SvcInv, Registered
  <2>2. CASE Move(c, "start") /\ Quiet
    BY <2>1, <2>2, QuietPreserves, Zenon DEF Stages, Registered
  <2> QED BY <1>4, <2>2, FinishPreserves, Zenon DEF Connect
<1>5. ASSUME NEW c \in Conns, FirstPoll(c) \/ WokenPoll(c) \/ PeerPoll(c) \/ Answered(c) PROVE SvcInv'
  BY <1>5, ReadRequestPreserves, Zenon DEF FirstPoll, WokenPoll, PeerPoll, Answered
<1>6. CASE Shutdown
  BY <1>6, Zenon DEF Shutdown, SvcInv, SvcTypeOK, ServedIsCounted, NoSleeper, NoLostNotify,
     NothingServedAfterDown, NoBusy, Registered
<1>7. CASE ShutdownDone
  BY <1>7, Zenon DEF ShutdownDone, SvcInv, SvcTypeOK, ServedIsCounted, NoSleeper, NoLostNotify,
     NothingServedAfterDown, NoBusy, Registered
<1>8. CASE UNCHANGED svcvars
  BY <1>8, Zenon DEF svcvars, SvcInv, SvcTypeOK, ServedIsCounted, NoSleeper, NoLostNotify,
     NothingServedAfterDown, NoBusy, Registered
<1> QED BY <1>1, <1>2, <1>3, <1>4, <1>5, <1>6, <1>7, <1>8, Zenon DEF SvcNext, Run

(* SvcTypeOK holds in every reachable state.                                   *)
THEOREM TypeCorrect == SvcSpec => []SvcTypeOK
<1>1. SvcInv => SvcTypeOK
  BY Zenon DEF SvcInv
<1> QED BY <1>1, SvcInvInit, StepPreserves, PTL DEF SvcSpec

(* Shutdown never waits for a notification nobody will send: while it      *)
(* waits, a connection is registered or notify_shutdown was called.        *)
THEOREM NotifyNotLost == SvcSpec => []NoLostNotify
<1>1. SvcInv => NoLostNotify
  BY Zenon DEF SvcInv
<1> QED BY <1>1, SvcInvInit, StepPreserves, PTL DEF SvcSpec

(* No request is handled once Service::shutdown has returned, whatever     *)
(* connections were being set up when it was called.                       *)
THEOREM DownMeansQuiet == SvcSpec => []NothingServedAfterDown
<1>1. SvcInv => NothingServedAfterDown
  BY Zenon DEF SvcInv
<1> QED BY <1>1, SvcInvInit, StepPreserves, PTL DEF SvcSpec

(* Every dispatcher that waits for a request was woken by the shutdown.    *)
THEOREM NobodySleeps == SvcSpec => []NoSleeper
<1>1. SvcInv => NoSleeper
  BY Zenon DEF SvcInv
<1> QED BY <1>1, SvcInvInit, StepPreserves, PTL DEF SvcSpec
-----------------------------------------------------------------------------
(***************************************************************************)
(* That the chunks of a response arrive, for any number of requests up to  *)
(* the number of responders there are (MaxReq <= Locals).                  *)
(*                                                                         *)
(* Numbered says that no responder is given twice, so that whatever the    *)
(* tables hold under a number belongs to one request.  For a host that     *)
(* keeps the documented order, Kept says how far the worker has come with  *)
(* the calls of a request and that the commands in the mailbox are the     *)
(* rest of them, in order; Chunked says the same of the chunks, which are  *)
(* numbered from 2, begin being the first call.                            *)
(***************************************************************************)
Numbered ==
    /\ \A r, q \in Reqs : r # q /\ id[r] # 0 => id[r] # id[q]
    /\ \A r \in Reqs : disp[r] = "none" =>
        /\ id[r] = 0 /\ next_local <= r
        /\ \A q \in Reqs : id[q] < next_local
    /\ \A i \in Ids : PENDING[i] # 0 => id[PENDING[i]] = i
    /\ \A i \in Ids : STREAMING[i] # 0 => id[STREAMING[i]] = i
    /\ \A r \in Reqs : rx[r] # "closed"

(* The places of the mailbox with commands for r *)
Sent(r) == {k \in 1 .. Len(mailbox) : mailbox[k].id = id[r]}

Kept(r) ==
    /\ via[r] # "foreign" => Sent(r) = {}
    /\ phase[r] = "fresh" => Sent(r) = {} /\ PENDING[id[r]] = r /\ STREAMING[id[r]] = 0
    /\ phase[r] = "streaming" => STREAMING[id[r]] = r \/ \E k \in Sent(r) : mailbox[k].op = "begin"
    /\ \A k \in Sent(r) :
        /\ mailbox[k].op \in {"begin", "respond"} =>
            PENDING[id[r]] = r /\ \A j \in Sent(r) : j >= k
        /\ mailbox[k].op \in {"write", "finish"} =>
            STREAMING[id[r]] = r \/ \E j \in Sent(r) : j < k /\ mailbox[j].op = "begin"
        /\ mailbox[k].op \in {"respond", "finish"} =>
            phase[r] = "done" /\ \A j \in Sent(r) : j <= k

(* The chunk of the m-th write is m + 1. *)
Ordinal(s) == \A m \in 1 .. Len(s) : s[m] = m + 1
Counted(r) ==
    /\ Ordinal(body[r]) /\ Ordinal(wrote[r]) /\ Len(body[r]) <= Len(wrote[r])
    /\ worker = "up" /\ phase[r] = "fresh" => calls[r] = 0 /\ Len(wrote[r]) = 0
    /\ worker = "up" /\ phase[r] = "streaming" => calls[r] = Len(wrote[r]) + 1

Writes(r) == {k \in Sent(r) : mailbox[k].op = "write"}
Chunked(r) ==
    /\ \A v \in Len(body[r]) + 2 .. Len(wrote[r]) + 1 : \E k \in Writes(r) : mailbox[k].chunk = v
    /\ \A k \in Writes(r) : mailbox[k].chunk \in Len(body[r]) + 2 .. Len(wrote[r]) + 1
    /\ \A j, k \in Writes(r) : j < k => mailbox[j].chunk < mailbox[k].chunk

Orderly(r) ==
    /\ Counted(r)
    /\ id[r] = 0 => phase[r] = "fresh"
    /\ worker = "up" /\ id[r] # 0 =>
        Kept(r) /\ (disp[r] # "gone" => Chunked(r))

(* Commands are for requests that have a responder. *)
Addressed == \A k \in 1 .. Len(mailbox) : \E r \in Reqs : id[r] = mailbox[k].id

ResponderInv ==
    /\ TypeOK /\ Numbered /\ Addressed
    /\ host = "ordered" => (\A r \in Reqs : Orderly(r)) /\ (worker = "up" => last.status = "OK")

-----------------------------------------------------------------------------
LEMMA ResponderConstants ==
    /\ 0 \notin Reqs /\ 0 \notin Ids /\ Reqs \subseteq Nat /\ Ids \subseteq Nat
    /\ \A i \in {0} \union Ids : i \in Nat
BY ResponderAssumption DEF Reqs, Ids

(* What deliver_local, begin_stream_local, write_chunk_local and             *)
(* finish_stream_local do: nothing to another responder, and a chunk goes    *)
(* only to the request whose responder it is.                                *)
Performed(op, i, c) ==
    /\ PENDING' \in [Ids -> {0} \union Reqs] /\ STREAMING' \in [Ids -> {0} \union Reqs]
    /\ rx' \in [Reqs -> {"empty", "once", "stream", "closed"}]
    /\ \A j \in Ids : j # i => PENDING'[j] = PENDING[j] /\ STREAMING'[j] = STREAMING[j]
    /\ PENDING'[i] \in {PENDING[i], 0} /\ STREAMING'[i] \in {STREAMING[i], PENDING[i], 0}
    /\ op = "begin" => STREAMING'[i] = PENDING[i]
    /\ op = "write" => UNCHANGED <<PENDING, STREAMING>> /\ Write(i, c)
    /\ op # "write" => UNCHANGED body
    /\ \A r \in Reqs : rx'[r] = "closed" => rx[r] = "closed"

LEMMA PerformEffects ==
  ASSUME TypeOK, NEW op \in Ops, NEW i \in Ids, NEW c, Known(op, i), Perform(op, i, c)
  PROVE  Performed(op, i, c)
<1>1. /\ PENDING \in [Ids -> {0} \union Reqs] /\ STREAMING \in [Ids -> {0} \union Reqs]
      /\ rx \in [Reqs -> {"empty", "once", "stream", "closed"}]
  BY Zenon DEF TypeOK
<1>2. CASE op = "respond"
  <2>1. /\ rx' = [rx EXCEPT ![PENDING[i]] = "once"] /\ PENDING' = [PENDING EXCEPT ![i] = 0]
        /\ UNCHANGED <<STREAMING, body>>
    BY <1>2, Zenon DEF Perform
  <2> QED
    BY <1>1, <1>2, <2>1, Zenon DEF Performed
<1>3. CASE op = "begin"
  <2>1. /\ rx' = [rx EXCEPT ![PENDING[i]] = "stream"] /\ PENDING' = [PENDING EXCEPT ![i] = 0]
        /\ STREAMING' = [STREAMING EXCEPT ![i] = PENDING[i]] /\ UNCHANGED body
    BY <1>3, Zenon DEF Perform
  <2> QED
    BY <1>1, <1>3, <2>1, Zenon DEF Performed
<1>4. CASE op = "write"
  BY <1>1, <1>4, Zenon DEF Perform, Performed
<1>5. CASE op = "finish"
  <2>1. STREAMING' = [STREAMING EXCEPT ![i] = 0] /\ UNCHANGED <<PENDING, rx, body>>
    BY <1>5, Zenon DEF Perform
  <2> QED
    BY <1>1, <1>5, <2>1, Zenon DEF Performed
<1> QED
  BY <1>2, <1>3, <1>4, <1>5, Zenon DEF Ops

(* write_chunk_local *)
LEMMA WriteEffects ==
  ASSUME TypeOK, Numbered, NEW i \in Ids, STREAMING[i] # 0, NEW c \in Chunks, Write(i, c)
  PROVE  /\ body' \in [Reqs -> Seq(Chunks)]
         /\ \A r \in Reqs : id[r] # i => body'[r] = body[r]
         /\ \A r \in Reqs : STREAMING[i] = r =>
                body'[r] = IF disp[r] = "gone" THEN body[r] ELSE Append(body[r], c)
<1>1. PICK q \in Reqs : q = STREAMING[i] /\ id[q] = i
  BY Zenon DEF TypeOK, Numbered
<1>2. body \in [Reqs -> Seq(Chunks)]
  BY Zenon DEF TypeOK
<1>3. body' = [body EXCEPT ![q] = IF disp[q] = "gone" THEN @ ELSE Append(@, c)]
  BY <1>1, Zenon DEF Write
<1>4. body[q] \in Seq(Chunks) /\ Append(body[q], c) \in Seq(Chunks)
  BY <1>2, AppendProperties, Zenon
<1> QED
  BY <1>1, <1>2, <1>3, <1>4, Zenon

(* What every step does to the tables, in terms of the requests *)
LEMMA PerformKeeps ==
  ASSUME TypeOK, Numbered, NEW op \in Ops, NEW i \in Ids, NEW c \in Chunks, Known(op, i),
         Perform(op, i, c)
  PROVE  /\ Performed(op, i, c) /\ body' \in [Reqs -> Seq(Chunks)]
         /\ \A r \in Reqs : id[r] # i => body'[r] = body[r]
<1>1. Performed(op, i, c)
  BY PerformEffects, Zenon
<1>2. CASE op = "write"
  BY <1>1, <1>2, WriteEffects, Zenon DEF Performed, Known
<1>3. CASE op # "write"
  BY <1>1, <1>3, ZenonT(60) DEF Performed, TypeOK
<1> QED
  BY <1>1, <1>2, <1>3, Zenon

LEMMA PerformNumbered ==
  ASSUME TypeOK, Numbered, NEW op \in Ops, NEW i \in Ids, NEW c, Known(op, i),
         Performed(op, i, c), UNCHANGED dispatched
  PROVE  Numbered'
<1>1. UNCHANGED <<id, disp, next_local>>
  BY Zenon DEF dispatched
<1>2. ASSUME NEW j \in Ids PROVE /\ PENDING'[j] # 0 => id[PENDING'[j]] = j
                                 /\ STREAMING'[j] # 0 => id[STREAMING'[j]] = j
  <2>1. CASE j = i
    BY <2>1, Zenon DEF Numbered, Performed
  <2>2. CASE j # i
    BY <2>2, Zenon DEF Numbered, Performed
  <2> QED
    BY <2>1, <2>2, Zenon
<1>3. \A r \in Reqs : rx'[r] # "closed"
  BY Zenon DEF Numbered, Performed
<1> QED
  BY <1>1, <1>2, <1>3, Zenon DEF Numbered

(* TypeOK, by what changes together *)
TablesOK ==
    /\ PENDING \in [Ids -> {0} \union Reqs] /\ STREAMING \in [Ids -> {0} \union Reqs]
    /\ rx \in [Reqs -> {"empty", "once", "stream", "closed"}]
    /\ body \in [Reqs -> Seq(Chunks)]
DispatchOK ==
    /\ next_local \in Ids /\ id \in [Reqs -> {0} \union Ids] /\ worker \in {"up", "down"}
    /\ disp \in [Reqs -> {"none", "waiting", "answered", "gone"}]
HostOK ==
    /\ host \in DOMAIN MaxCalls /\ calls \in [Reqs -> Nat]
    /\ phase \in [Reqs -> {"fresh", "streaming", "done"}]
    /\ via \in [Reqs -> {"any"} \union Threads] /\ wrote \in [Reqs -> Seq(Chunks)]
    /\ last \in [op : Ops \union {"none"}, from : Threads \union {"none"},
                 status : Statuses, before : {"fresh", "streaming", "done"}]

LEMMA TypeParts == TypeOK <=> TablesOK /\ DispatchOK /\ HostOK /\ mailbox \in Seq(Commands)
BY Zenon DEF TypeOK, TablesOK, DispatchOK, HostOK

LEMMA SameParts ==
    /\ TablesOK /\ UNCHANGED tables => TablesOK'
    /\ DispatchOK /\ UNCHANGED dispatched => DispatchOK'
    /\ HostOK /\ UNCHANGED hosted => HostOK'
<1>1. TablesOK /\ UNCHANGED tables => TablesOK'
  BY Zenon DEF tables, TablesOK
<1>2. DispatchOK /\ UNCHANGED dispatched => DispatchOK'
  BY Zenon DEF dispatched, DispatchOK
<1>3. HostOK /\ UNCHANGED hosted => HostOK'
  BY Zenon DEF hosted, HostOK
<1> QED
  BY <1>1, <1>2, <1>3, Zenon

(* TypeOK and Numbered are kept by every step, whatever the host does. *)
Sound == TypeOK /\ Numbered

(* dispatch: the responder it registers is nobody's. *)
LEMMA DispatchFresh ==
  ASSUME MaxReq <= Locals, Sound, NEW r \in Reqs, Dispatch(r)
  PROVE  /\ next_local <= r /\ \A q \in Reqs : id[q] < next_local
         /\ id[r] = 0 /\ PENDING[next_local] = 0 /\ STREAMING[next_local] = 0
         /\ \A q \in Reqs : disp[q] = "none" /\ q # r => q > r
<1>1. disp[r] = "none" /\ \A q \in 1 .. r - 1 : disp[q] # "none"
  BY Zenon DEF Dispatch
<1>2. next_local <= r /\ id[r] = 0 /\ \A q \in Reqs : id[q] < next_local
  BY <1>1, Zenon DEF Sound, Numbered
<1>3. next_local \in Ids /\ next_local \in Nat
  BY ResponderConstants, Zenon DEF Sound, TypeOK
<1>4. /\ PENDING[next_local] \in {0} \union Reqs /\ STREAMING[next_local] \in {0} \union Reqs
      /\ PENDING[next_local] # 0 => id[PENDING[next_local]] = next_local
      /\ STREAMING[next_local] # 0 => id[STREAMING[next_local]] = next_local
  BY <1>3, Zenon DEF Sound, TypeOK, Numbered
<1>5. PENDING[next_local] = 0 /\ STREAMING[next_local] = 0
  BY <1>2, <1>3, <1>4
<1>6. \A q \in Reqs : disp[q] = "none" /\ q # r => q > r
  BY <1>1 DEF Reqs
<1> QED
  BY <1>2, <1>5, <1>6, Zenon

LEMMA DispatchSound ==
  ASSUME MaxReq <= Locals, Sound, NEW r \in Reqs, Dispatch(r)
  PROVE  Sound'
<1> DEFINE i == next_local
<1>0. TypeOK /\ Numbered /\ TablesOK /\ DispatchOK /\ HostOK /\ mailbox \in Seq(Commands)
  BY TypeParts, Zenon DEF Sound
<1>1. /\ next_local' = IF i = Locals THEN 1 ELSE i + 1
      /\ id' = [id EXCEPT ![r] = i]
      /\ PENDING' = [PENDING EXCEPT ![i] = r]
      /\ rx' = [q \in Reqs |-> IF q = PENDING[i] THEN "closed" ELSE rx[q]]
      /\ disp' = [disp EXCEPT ![r] = "waiting"]
      /\ UNCHANGED <<STREAMING, body, worker, hosted, mailbox>>
  BY Zenon DEF Dispatch, register
<1>2. /\ i <= r /\ \A q \in Reqs : id[q] < i
      /\ id[r] = 0 /\ PENDING[i] = 0 /\ STREAMING[i] = 0
      /\ \A q \in Reqs : disp[q] = "none" /\ q # r => q > r
  BY DispatchFresh, Zenon
<1>3. i \in Ids /\ i \in 1 .. Locals /\ r \in 1 .. MaxReq /\ MaxReq \in Nat /\ Locals \in Nat
  BY <1>0, ResponderAssumption, Zenon DEF DispatchOK, Ids, Reqs
<1>4. rx' = rx
  BY <1>0, <1>1, <1>2, ResponderConstants, Zenon DEF TablesOK
<1>5. TablesOK'
  BY <1>0, <1>1, <1>3, <1>4, Zenon DEF TablesOK
<1>6. DispatchOK'
  <2>1. next_local' \in Ids
    BY <1>1, <1>3 DEF Ids
  <2> QED
    BY <1>0, <1>1, <1>3, <2>1, Zenon DEF DispatchOK
<1>7. TypeOK'
  <2>1. HostOK' /\ mailbox' \in Seq(Commands)
    BY <1>0, <1>1, SameParts, Zenon
  <2> QED
    BY <1>5, <1>6, <2>1, TypeParts, Zenon DEF TypeOK, TablesOK, DispatchOK, HostOK
<1>8. id \in [Reqs -> {0} \union Ids] /\ \A q \in Reqs : id'[q] = IF q = r THEN i ELSE id[q]
  BY <1>0, <1>1, Zenon DEF DispatchOK
<1>9. \A p, q \in Reqs : p # q /\ id'[p] # 0 => id'[p] # id'[q]
  <2>1. \A q \in Reqs : id[q] # i
    BY <1>2, <1>3, <1>8, ResponderConstants
  <2> QED
    BY <1>0, <1>3, <1>8, <2>1 DEF Numbered
<1>10. ASSUME NEW q \in Reqs, disp'[q] = "none"
       PROVE  id'[q] = 0 /\ next_local' <= q /\ \A p \in Reqs : id'[p] < next_local'
  <2>1. q # r /\ disp[q] = "none"
    BY <1>0, <1>1, <1>10, Zenon DEF DispatchOK
  <2>2. q > r /\ q \in 1 .. MaxReq
    BY <1>2, <2>1, Zenon DEF Reqs
  <2>3. next_local' = i + 1
    BY <1>1, <1>2, <1>3, <2>2
  <2>4. id'[q] = 0
    BY <1>0, <1>8, <2>1, Zenon DEF Numbered
  <2>5. ASSUME NEW p \in Reqs PROVE id'[p] < i + 1
    <3>1. id[p] < i
      BY <1>2, Zenon
    <3>2. id[p] \in {0} \union Ids
      BY <1>8, Zenon
    <3>3. id[p] \in Nat
      BY <3>2, ResponderConstants, Zenon
    <3> QED
      BY <1>3, <1>8, <3>1, <3>3
  <2> QED
    BY <1>2, <1>3, <2>2, <2>3, <2>4, <2>5
<1>11. \A j \in Ids : /\ PENDING'[j] # 0 => id'[PENDING'[j]] = j
                      /\ STREAMING'[j] # 0 => id'[STREAMING'[j]] = j
  <2> SUFFICES ASSUME NEW j \in Ids
               PROVE  /\ PENDING'[j] # 0 => id'[PENDING'[j]] = j
                      /\ STREAMING'[j] # 0 => id'[STREAMING'[j]] = j
    BY Zenon
  <2>1. \A q \in Reqs : id[q] = j => id'[q] = j
    BY <1>2, <1>8, ResponderConstants, Zenon
  <2>2. STREAMING[j] \in {0} \union Reqs /\ PENDING[j] \in {0} \union Reqs
    BY <1>0, Zenon DEF TablesOK
  <2>3. STREAMING'[j] # 0 => id'[STREAMING'[j]] = j
    BY <1>0, <1>1, <2>1, <2>2, Zenon DEF Numbered
  <2>4. CASE j = i
    BY <1>0, <1>1, <1>8, <2>3, <2>4, Zenon DEF TablesOK
  <2>5. CASE j # i
    BY <1>0, <1>1, <2>1, <2>2, <2>3, <2>5, Zenon DEF TablesOK, Numbered
  <2> QED
    BY <2>4, <2>5, Zenon
<1>12. \A q \in Reqs : rx'[q] # "closed"
  BY <1>0, <1>4, Zenon DEF Numbered
<1> QED
  BY <1>7, <1>9, <1>10, <1>11, <1>12, Zenon DEF Sound, Numbered

(* A call that is carried out, now or from the mailbox *)
LEMMA PerformSound ==
  ASSUME Sound, NEW op \in Ops, NEW i \in Ids, NEW c \in Chunks, Known(op, i), Perform(op, i, c),
         UNCHANGED dispatched, HostOK', mailbox' \in Seq(Commands)
  PROVE  Sound'
<1>1. /\ Performed(op, i, c) /\ body' \in [Reqs -> Seq(Chunks)]
      /\ TypeOK /\ Numbered /\ DispatchOK
  BY PerformKeeps, TypeParts, Zenon DEF Sound
<1>2. Numbered'
  BY <1>1, PerformNumbered, Zenon
<1>3. TablesOK'
  BY <1>1, Zenon DEF TablesOK, Performed
<1>4. DispatchOK'
  BY <1>1, SameParts, Zenon
<1>5. TypeOK'
  BY <1>3, <1>4, Zenon DEF TypeOK, TablesOK, DispatchOK, HostOK
<1> QED
  BY <1>2, <1>5, Zenon DEF Sound

(* A step that leaves the tables and the numbers alone *)
LEMMA IdleSound ==
  ASSUME Sound, UNCHANGED <<tables, id, next_local>>, DispatchOK', HostOK', mailbox' \in Seq(Commands),
         \A r \in Reqs : disp'[r] = "none" => disp[r] = "none"
  PROVE  Sound'
<1>1. UNCHANGED <<PENDING, STREAMING, rx, body, id, next_local>>
  BY Zenon DEF tables
<1>2. Numbered'
  <2>1. Numbered
    BY Zenon DEF Sound
  <2>2. /\ \A r, q \in Reqs : r # q /\ id'[r] # 0 => id'[r] # id'[q]
        /\ \A i \in Ids : PENDING'[i] # 0 => id'[PENDING'[i]] = i
        /\ \A i \in Ids : STREAMING'[i] # 0 => id'[STREAMING'[i]] = i
        /\ \A r \in Reqs : rx'[r] # "closed"
    <3>1. /\ \A r, q \in Reqs : r # q /\ id[r] # 0 => id[r] # id[q]
          /\ \A i \in Ids : PENDING[i] # 0 => id[PENDING[i]] = i
          /\ \A i \in Ids : STREAMING[i] # 0 => id[STREAMING[i]] = i
          /\ \A r \in Reqs : rx[r] # "closed"
      BY <2>1, Zenon DEF Numbered
    <3> QED
      BY <1>1, <3>1, SMT
  <2>3. ASSUME NEW r \in Reqs, disp'[r] = "none"
        PROVE  id'[r] = 0 /\ next_local' <= r /\ \A q \in Reqs : id'[q] < next_local'
    BY <1>1, <2>1, <2>3, Zenon DEF Numbered
  <2> QED
    BY <2>2, <2>3, Zenon DEF Numbered
<1>3. TypeOK'
  BY <1>1, Zenon DEF Sound, TypeOK, DispatchOK, HostOK
<1> QED
  BY <1>2, <1>3, Zenon DEF Sound

(* The status of a call on the worker is OK only if its responder is known. *)
LEMMA LocalKnown ==
  ASSUME TypeOK, NEW op \in Ops, NEW i \in Ids, Status(op, i, "local") = "OK"
  PROVE  Known(op, i)
BY Zenon DEF Status, Streaming, Known, Ops

(* The host's side of a call *)
LEMMA CalledOK ==
  ASSUME HostOK, NEW op \in Ops, NEW r \in Reqs, NEW from \in Threads, NEW x \in Statuses,
         NEW c \in Chunks, Called(op, r, from, x, c)
  PROVE  HostOK'
<1>1. calls' \in [Reqs -> Nat]
  BY DEF Called, HostOK
<1>2. phase' \in [Reqs -> {"fresh", "streaming", "done"}]
  BY Zenon DEF Called, HostOK, After
<1>3. via' \in [Reqs -> {"any"} \union Threads]
  BY Zenon DEF Called, HostOK
<1>4. wrote' \in [Reqs -> Seq(Chunks)]
  <2>1. wrote \in [Reqs -> Seq(Chunks)] /\ Append(wrote[r], c) \in Seq(Chunks)
    BY AppendProperties, Zenon DEF HostOK
  <2> QED
    BY <2>1, Zenon DEF Called
<1>5. last' \in [op : Ops \union {"none"}, from : Threads \union {"none"},
                 status : Statuses, before : {"fresh", "streaming", "done"}]
  BY Zenon DEF Called, HostOK
<1>6. host' \in DOMAIN MaxCalls
  BY Zenon DEF Called, HostOK
<1> QED
  BY <1>1, <1>2, <1>3, <1>4, <1>5, <1>6, Zenon DEF HostOK

(* The chunk of a call has a number within the bound. *)
LEMMA ChunkNumber ==
  ASSUME HostOK, NEW r \in Reqs, calls[r] < MaxCalls[host]
  PROVE  calls[r] + 1 \in Chunks
<1>1. host \in {"ordered", "free"} /\ MaxCalls["ordered"] \in Nat /\ MaxCalls["free"] \in Nat
      /\ calls[r] \in Nat
  BY ResponderAssumption, Zenon DEF HostOK
<1> QED
  BY <1>1 DEF Chunks

LEMMA CallHostSound ==
  ASSUME Sound, NEW op \in Ops, NEW r \in Reqs, NEW from \in Threads, CallHost(op, r, from)
  PROVE  Sound'
<1> DEFINE i == id[r]
           c == calls[r] + 1
           x == Status(op, i, from)
<1>0. TypeOK /\ Numbered /\ TablesOK /\ DispatchOK /\ HostOK /\ mailbox \in Seq(Commands)
  BY TypeParts, Zenon DEF Sound
<1>1. /\ i # 0 /\ calls[r] < MaxCalls[host] /\ Called(op, r, from, x, c) /\ UNCHANGED dispatched
      /\ \/ from = "local" /\ x = "OK" /\ Perform(op, i, c) /\ UNCHANGED mailbox
         \/ /\ from = "foreign" /\ x = "OK"
            /\ mailbox' = Append(mailbox, [op |-> op, id |-> i, chunk |-> c])
            /\ UNCHANGED tables
         \/ x # "OK" /\ UNCHANGED <<mailbox, tables>>
  BY Zenon DEF CallHost
<1>2. i \in Ids /\ c \in Chunks /\ x \in Statuses
  BY <1>0, <1>1, ChunkNumber, Zenon DEF DispatchOK, Status, Statuses
<1>3. HostOK'
  BY <1>0, <1>1, <1>2, CalledOK, Zenon
<1>4. CASE from = "local" /\ x = "OK" /\ Perform(op, i, c) /\ UNCHANGED mailbox
  <2>1. Known(op, i)
    BY <1>0, <1>2, <1>4, LocalKnown, Zenon
  <2> HIDE DEF i, c, x
  <2> QED
    BY <1>0, <1>1, <1>2, <1>3, <1>4, <2>1, PerformSound, Zenon
<1>5. CASE UNCHANGED tables /\ mailbox' \in Seq(Commands)
  <2>1. DispatchOK' /\ UNCHANGED <<id, next_local, disp>>
    BY <1>0, <1>1, SameParts, Zenon DEF dispatched
  <2> QED
    BY <1>3, <1>5, <2>1, IdleSound, Zenon
<1>6. Append(mailbox, [op |-> op, id |-> i, chunk |-> c]) \in Seq(Commands)
  <2>1. [op |-> op, id |-> i, chunk |-> c] \in Commands
    BY <1>2, Zenon DEF Commands
  <2> QED
    BY <1>0, <2>1, AppendProperties, Zenon
<1> QED
  BY <1>0, <1>1, <1>4, <1>5, <1>6, Zenon

(* The mailbox task *)
LEMMA MailboxTakes ==
  ASSUME TypeOK, Mailbox
  PROVE  /\ mailbox[1] \in Commands /\ Len(mailbox) \in Nat \ {0} /\ mailbox' \in Seq(Commands)
         /\ Len(mailbox') = Len(mailbox) - 1
         /\ \A k \in 1 .. Len(mailbox') : mailbox'[k] = mailbox[k + 1]
         /\ UNCHANGED <<dispatched, hosted>>
         /\ IF Known(mailbox[1].op, mailbox[1].id)
            THEN Perform(mailbox[1].op, mailbox[1].id, mailbox[1].chunk) ELSE UNCHANGED tables
<1>1. mailbox \in Seq(Commands) /\ mailbox # <<>> /\ mailbox' = Tail(mailbox)
  BY Zenon DEF TypeOK, Mailbox
<1>2. Head(mailbox) = mailbox[1] /\ Len(mailbox) \in Nat \ {0}
  BY <1>1
<1>3. mailbox[1] \in Commands
  BY <1>1, <1>2
<1>4. /\ mailbox' \in Seq(Commands) /\ Len(mailbox') = Len(mailbox) - 1
      /\ \A k \in 1 .. Len(mailbox') : mailbox'[k] = mailbox[k + 1]
  BY <1>1, HeadTailProperties, Zenon
<1> QED
  BY <1>2, <1>3, <1>4, Zenon DEF Mailbox

LEMMA MailboxSound == ASSUME Sound, Mailbox PROVE Sound'
<1> DEFINE c == mailbox[1]
<1>0. TypeOK /\ Numbered /\ TablesOK /\ DispatchOK /\ HostOK
  BY TypeParts, Zenon DEF Sound
<1>1. /\ c \in Commands /\ mailbox' \in Seq(Commands) /\ UNCHANGED <<dispatched, hosted>>
      /\ IF Known(c.op, c.id) THEN Perform(c.op, c.id, c.chunk) ELSE UNCHANGED tables
  BY <1>0, MailboxTakes, Zenon
<1>2. c.op \in Ops /\ c.id \in Ids /\ c.chunk \in Chunks
  BY <1>1, Zenon DEF Commands
<1> HIDE DEF c
<1>3. HostOK' /\ DispatchOK'
  BY <1>0, <1>1, SameParts, Zenon
<1>4. CASE Known(c.op, c.id)
  BY <1>1, <1>2, <1>3, <1>4, PerformSound, Zenon
<1>5. CASE ~Known(c.op, c.id)
  <2>1. UNCHANGED <<id, next_local, disp>>
    BY <1>1, Zenon DEF dispatched
  <2> QED
    BY <1>1, <1>3, <1>5, <2>1, IdleSound, Zenon
<1> QED
  BY <1>4, <1>5, Zenon

(* The other steps of the worker.  No sender is dropped: no reply is closed. *)
LEMMA ReplyIs ==
  ASSUME Sound, NEW r \in Reqs, Reply(r)
  PROVE  /\ disp' = [disp EXCEPT ![r] = "answered"] /\ disp[r] = "waiting" /\ UNCHANGED tables
         /\ UNCHANGED <<next_local, id, worker, hosted, mailbox>>
<1>1. rx[r] # "closed" /\ rx \in [Reqs -> {"empty", "once", "stream", "closed"}]
  BY Zenon DEF Sound, Numbered, TypeOK
<1>2. PENDING' = PENDING
  BY <1>1, Zenon DEF Reply
<1>3. rx' = [q \in Reqs |-> rx[q]]
  BY <1>1, Zenon DEF Reply
<1>4. rx' = rx
  BY <1>1, <1>3, Zenon
<1> QED
  BY <1>2, <1>4, Zenon DEF Reply, tables

LEMMA WorkerSound ==
  ASSUME Sound, \/ StopServer
                \/ \E r \in Reqs : Reply(r) \/ DispatchRefused(r) \/ ConnectionLost(r)
  PROVE  Sound'
<1>0. TypeOK /\ Numbered /\ TablesOK /\ DispatchOK /\ HostOK /\ mailbox \in Seq(Commands)
  BY TypeParts, Zenon DEF Sound
<1>1. UNCHANGED <<tables, id, next_local, hosted>> /\ mailbox' \in Seq(Commands)
  <2>1. CASE StopServer
    <3>1. <<>> \in Seq(Commands)
      OBVIOUS
    <3> QED
      BY <2>1, <3>1, Zenon DEF StopServer
  <2>2. CASE \E r \in Reqs : Reply(r) \/ DispatchRefused(r) \/ ConnectionLost(r)
    BY <1>0, <2>2, ReplyIs, Zenon DEF DispatchRefused, ConnectionLost
  <2> QED
    BY <2>1, <2>2, Zenon
<1>2. DispatchOK' /\ \A r \in Reqs : disp'[r] = "none" => disp[r] = "none"
  <2>1. CASE StopServer
    BY <1>0, <1>1, <2>1, Zenon DEF StopServer, DispatchOK
  <2>2. ASSUME NEW r \in Reqs, Reply(r) \/ DispatchRefused(r) \/ ConnectionLost(r)
        PROVE  DispatchOK' /\ \A q \in Reqs : disp'[q] = "none" => disp[q] = "none"
    <3>1. disp' \in {[disp EXCEPT ![r] = "answered"], [disp EXCEPT ![r] = "gone"]} /\ UNCHANGED worker
      BY <2>2, ReplyIs, Zenon DEF DispatchRefused, ConnectionLost
    <3> QED
      BY <1>0, <1>1, <3>1, Zenon DEF DispatchOK
  <2> QED
    BY <2>1, <2>2, Zenon
<1>3. HostOK'
  BY <1>0, <1>1, SameParts, Zenon
<1> QED
  BY <1>1, <1>2, <1>3, IdleSound, Zenon

LEMMA SoundStep ==
  ASSUME MaxReq <= Locals, Sound, [Next]_vars
  PROVE  Sound'
<1>1. CASE Next
  BY <1>1, DispatchSound, CallHostSound, MailboxSound, WorkerSound, Zenon DEF Next, Work
<1>2. CASE UNCHANGED vars
  <2>1. UNCHANGED <<tables, dispatched, hosted, mailbox, id, next_local, disp>>
    BY <1>2, Zenon DEF vars, dispatched
  <2>2. DispatchOK' /\ HostOK' /\ mailbox' \in Seq(Commands)
    BY <2>1, TypeParts, SameParts, Zenon DEF Sound
  <2> QED
    BY <2>1, <2>2, IdleSound, Zenon
<1> QED
  BY <1>1, <1>2, Zenon

-----------------------------------------------------------------------------
(* The commands for r come d places nearer, or stay where they are. *)
Nearer(r, d) ==
    /\ Sent(r)' \subseteq Nat \ {0} /\ Sent(r) \subseteq Nat \ {0}
    /\ \A k \in Nat \ {0} : k \in Sent(r)' <=> k + d \in Sent(r)
    /\ \A k \in Sent(r)' : mailbox'[k] = mailbox[k + d]
    /\ \A k \in Sent(r) : k > d => k - d \in Sent(r)' /\ k - d + d = k

LEMMA NearerWrites ==
  ASSUME NEW r, NEW d \in {0, 1}, Nearer(r, d)
  PROVE  /\ \A k \in Writes(r)' : k + d \in Writes(r) /\ mailbox'[k] = mailbox[k + d] /\ k \in Nat
         /\ \A k \in Writes(r) : k > d => /\ k - d \in Writes(r)' /\ mailbox'[k - d] = mailbox[k]
                                          /\ k \in Nat
<1>1. ASSUME NEW k \in Writes(r)'
      PROVE  k + d \in Writes(r) /\ mailbox'[k] = mailbox[k + d] /\ k \in Nat
  <2>1. k \in Sent(r)' /\ mailbox'[k].op = "write"
    BY <1>1, Zenon DEF Writes
  <2> QED
    BY <2>1, Zenon DEF Nearer, Writes
<1>2. ASSUME NEW k \in Writes(r), k > d
      PROVE  k - d \in Writes(r)' /\ mailbox'[k - d] = mailbox[k] /\ k \in Nat
  <2>1. k \in Sent(r) /\ mailbox[k].op = "write" /\ k \in Nat
    BY <1>2, Zenon DEF Writes, Nearer
  <2>2. k - d \in Sent(r)' /\ mailbox'[k - d] = mailbox[k]
    BY <1>2, <2>1, Zenon DEF Nearer
  <2> QED
    BY <2>1, <2>2, Zenon DEF Writes
<1> QED
  BY <1>1, <1>2, Zenon

(* A step that is not about r.  Its responder, its body and its commands are *)
(* left alone, though these may come nearer.                                 *)
LEMMA OthersOrderly ==
  ASSUME NEW r \in Reqs, Orderly(r), NEW d \in {0, 1},
         id'[r] = id[r], phase'[r] = phase[r], via'[r] = via[r], calls'[r] = calls[r],
         wrote'[r] = wrote[r], body'[r] = body[r], worker' = "up" => worker = "up",
         disp'[r] # "gone" => disp[r] # "gone",
         id[r] # 0 => PENDING'[id[r]] = PENDING[id[r]] /\ STREAMING'[id[r]] = STREAMING[id[r]],
         worker' = "up" => Nearer(r, d) /\ (d = 1 => 1 \notin Sent(r))
  PROVE  Orderly(r)'
<1>1. Counted(r)'
  BY Zenon DEF Orderly, Counted
<1>2. ASSUME worker' = "up", id[r] # 0 PROVE Kept(r)'
  <2>1. Kept(r) /\ Nearer(r, d) /\ (d = 1 => 1 \notin Sent(r))
    BY <1>2, Zenon DEF Orderly
  <2>2. \A k \in Sent(r) : k > d /\ k \in Nat
    BY <2>1 DEF Nearer
  <2>3. Sent(r) = {} => Sent(r)' = {}
    BY <2>1, Zenon DEF Nearer
  <2>4. phase[r] = "streaming" =>
            STREAMING'[id[r]] = r \/ \E k \in Sent(r)' : mailbox'[k].op = "begin"
    <3> SUFFICES ASSUME NEW k \in Sent(r), mailbox[k].op = "begin"
                 PROVE  \E j \in Sent(r)' : mailbox'[j].op = "begin"
      BY <1>2, <2>1, Zenon DEF Kept
    <3> QED
      BY <2>1, <2>2, Zenon DEF Nearer
  <2>5. ASSUME NEW k \in Sent(r)'
        PROVE  /\ mailbox'[k].op \in {"begin", "respond"} =>
                    PENDING'[id[r]] = r /\ \A j \in Sent(r)' : j >= k
               /\ mailbox'[k].op \in {"write", "finish"} =>
                    STREAMING'[id[r]] = r \/ \E j \in Sent(r)' : j < k /\ mailbox'[j].op = "begin"
               /\ mailbox'[k].op \in {"respond", "finish"} =>
                    phase'[r] = "done" /\ \A j \in Sent(r)' : j <= k
    <3>1. k + d \in Sent(r) /\ mailbox'[k] = mailbox[k + d] /\ k \in Nat
      BY <2>1, Zenon DEF Nearer
    <3>2. \A j \in Sent(r)' : j + d \in Sent(r) /\ j \in Nat
      BY <2>1, Zenon DEF Nearer
    <3>3. mailbox[k + d].op \in {"begin", "respond"} =>
            PENDING'[id[r]] = r /\ \A j \in Sent(r)' : j >= k
      BY <1>2, <2>1, <3>1, <3>2 DEF Kept
    <3>4. mailbox[k + d].op \in {"write", "finish"} =>
            STREAMING'[id[r]] = r \/ \E j \in Sent(r)' : j < k /\ mailbox'[j].op = "begin"
      <4> SUFFICES ASSUME NEW j \in Sent(r), j < k + d, mailbox[j].op = "begin"
                   PROVE  \E m \in Sent(r)' : m < k /\ mailbox'[m].op = "begin"
        BY <1>2, <2>1, <3>1, Zenon DEF Kept
      <4>1. j - d \in Sent(r)' /\ j - d < k /\ mailbox'[j - d] = mailbox[j]
        BY <2>1, <2>2, <3>1 DEF Nearer
      <4> QED
        BY <4>1, Zenon
    <3>5. mailbox[k + d].op \in {"respond", "finish"} =>
            phase'[r] = "done" /\ \A j \in Sent(r)' : j <= k
      <4> SUFFICES ASSUME mailbox[k + d].op \in {"respond", "finish"}
                   PROVE  phase'[r] = "done" /\ \A j \in Sent(r)' : j <= k
        BY Zenon
      <4>1. phase[r] = "done" /\ \A j \in Sent(r) : j <= k + d
        BY <2>1, <3>1, Zenon DEF Kept
      <4> QED
        BY <3>1, <3>2, <4>1
    <3> QED
      BY <3>1, <3>3, <3>4, <3>5, Zenon
  <2> QED
    BY <1>2, <2>1, <2>3, <2>4, <2>5, Zenon DEF Kept
<1>3. ASSUME worker' = "up", id[r] # 0, disp'[r] # "gone" PROVE Chunked(r)'
  <2>1. Chunked(r) /\ Nearer(r, d) /\ (d = 1 => 1 \notin Sent(r))
    BY <1>3, Zenon DEF Orderly
  <2>2. /\ \A k \in Writes(r)' : k + d \in Writes(r) /\ mailbox'[k] = mailbox[k + d] /\ k \in Nat
        /\ \A k \in Writes(r) : k > d => /\ k - d \in Writes(r)' /\ mailbox'[k - d] = mailbox[k]
                                         /\ k \in Nat
    BY <2>1, NearerWrites, Zenon
  <2>3. \A k \in Writes(r) : k > d
    BY <2>1 DEF Nearer, Writes
  <2>4. \A v \in Len(body[r]) + 2 .. Len(wrote[r]) + 1 : \E k \in Writes(r)' : mailbox'[k].chunk = v
    BY <2>1, <2>2, <2>3, SMTT(30) DEF Chunked
  <2>5. \A k \in Writes(r)' : mailbox'[k].chunk \in Len(body[r]) + 2 .. Len(wrote[r]) + 1
    BY <2>1, <2>2, Zenon DEF Chunked
  <2>6. ASSUME NEW j \in Writes(r)', NEW k \in Writes(r)', j < k
        PROVE  mailbox'[j].chunk < mailbox'[k].chunk
    <3>1. j + d \in Writes(r) /\ k + d \in Writes(r) /\ j + d < k + d
      BY <2>2, <2>6
    <3>2. mailbox[j + d].chunk < mailbox[k + d].chunk
      BY <2>1, <3>1, Zenon DEF Chunked
    <3> QED
      BY <2>2, <3>2, Zenon
  <2> QED
    BY <2>4, <2>5, <2>6, Zenon DEF Chunked
<1> QED
  BY <1>1, <1>2, <1>3, Zenon DEF Orderly

(* The mailbox, as a step changes it *)
LEMMA MailSame ==
  ASSUME TypeOK, NEW r \in Reqs, UNCHANGED mailbox, id'[r] = id[r]
  PROVE  Nearer(r, 0)
<1>1. Len(mailbox) \in Nat
  BY DEF TypeOK
<1>2. Sent(r)' = Sent(r) /\ Sent(r) \subseteq Nat \ {0}
  BY <1>1 DEF Sent
<1> QED
  BY <1>2 DEF Nearer

LEMMA MailTaken ==
  ASSUME TypeOK, NEW r \in Reqs, Mailbox
  PROVE  Nearer(r, 1)
<1>1. /\ Len(mailbox) \in Nat \ {0} /\ Len(mailbox') = Len(mailbox) - 1 /\ id' = id
      /\ \A k \in 1 .. Len(mailbox') : mailbox'[k] = mailbox[k + 1]
  BY MailboxTakes, Zenon DEF dispatched
<1>2. Sent(r)' = {k \in 1 .. Len(mailbox') : mailbox'[k].id = id[r]}
  BY <1>1, Zenon DEF Sent
<1>3. \A k \in Nat \ {0} : k \in Sent(r)' <=> k + 1 \in Sent(r)
  BY <1>1, <1>2 DEF Sent
<1>4. Sent(r) \subseteq Nat \ {0} /\ Sent(r)' \subseteq Nat \ {0}
  BY <1>1, <1>2 DEF Sent
<1>5. \A k \in Sent(r)' : mailbox'[k] = mailbox[k + 1]
  BY <1>1, <1>2, Zenon
<1>6. \A k \in Sent(r) : k > 1 => k - 1 \in Sent(r)' /\ k - 1 + 1 = k
  BY <1>3, <1>4
<1> QED
  BY <1>3, <1>4, <1>5, <1>6, Zenon DEF Nearer

LEMMA MailPosted ==
  ASSUME TypeOK, NEW r \in Reqs, id'[r] = id[r], NEW c \in Commands, mailbox' = Append(mailbox, c)
  PROVE  /\ c.id # id[r] => Nearer(r, 0)
         /\ c.id = id[r] =>
                /\ Sent(r)' = Sent(r) \union {Len(mailbox) + 1}
                /\ \A k \in Sent(r) : k \in Nat /\ k < Len(mailbox) + 1 /\ mailbox'[k] = mailbox[k]
                /\ mailbox'[Len(mailbox) + 1] = c /\ Len(mailbox) \in Nat
<1>1. /\ mailbox \in Seq(Commands) /\ Len(mailbox) \in Nat /\ Len(mailbox') = Len(mailbox) + 1
      /\ \A k \in 1 .. Len(mailbox) : mailbox'[k] = mailbox[k]
      /\ mailbox'[Len(mailbox) + 1] = c
  BY AppendProperties DEF TypeOK
<1>2. Sent(r)' = {k \in 1 .. Len(mailbox') : mailbox'[k].id = id[r]}
  BY Zenon DEF Sent
<1>3. \A k \in Sent(r) : k \in Nat \ {0} /\ k < Len(mailbox) + 1 /\ mailbox'[k] = mailbox[k]
  BY <1>1 DEF Sent
<1>4. CASE c.id # id[r]
  <2>1. Sent(r)' = Sent(r)
    BY <1>1, <1>2, <1>4 DEF Sent
  <2> QED
    BY <1>3, <1>4, <2>1 DEF Nearer
<1>5. CASE c.id = id[r]
  <2>1. Sent(r)' = Sent(r) \union {Len(mailbox) + 1}
    BY <1>1, <1>2, <1>5 DEF Sent
  <2> QED
    BY <1>1, <1>3, <1>5, <2>1, Zenon
<1> QED
  BY <1>4, <1>5, Zenon

(* A command of r is carried out. *)
LEMMA OwnKept ==
  ASSUME NEW r \in Reqs, Kept(r), 1 \in Sent(r), Nearer(r, 1),
         id'[r] = id[r], phase'[r] = phase[r], via'[r] = via[r],
         STREAMING'[id[r]] = r \/ mailbox[1].op \in {"respond", "finish"}
  PROVE  Kept(r)'
<1>1. phase[r] # "fresh" /\ via[r] = "foreign"
  BY Zenon DEF Kept
<1>2. \A k \in Sent(r)' : k + 1 \in Sent(r) /\ mailbox'[k] = mailbox[k + 1] /\ k \in Nat \ {0}
  BY Zenon DEF Nearer
<1>3. CASE mailbox[1].op \in {"respond", "finish"}
  <2>1. phase[r] = "done" /\ \A j \in Sent(r) : j <= 1
    BY <1>3, Zenon DEF Kept
  <2>2. Sent(r)' = {}
    BY <1>2, <2>1
  <2> QED
    BY <1>1, <2>1, <2>2, Zenon DEF Kept
<1>4. CASE STREAMING'[id[r]] = r
  <2>1. ASSUME NEW k \in Sent(r)' PROVE mailbox'[k].op \notin {"begin", "respond"}
    <3>1. k + 1 \in Sent(r) /\ mailbox'[k] = mailbox[k + 1] /\ k \in Nat \ {0} /\ ~(1 >= k + 1)
      BY <1>2
    <3>2. mailbox[k + 1].op \notin {"begin", "respond"}
      BY <3>1, Zenon DEF Kept
    <3> QED
      BY <3>1, <3>2, Zenon
  <2>2. ASSUME NEW k \in Sent(r)', mailbox'[k].op \in {"respond", "finish"}
        PROVE  phase[r] = "done" /\ \A j \in Sent(r)' : j <= k
    <3>1. phase[r] = "done" /\ \A j \in Sent(r) : j <= k + 1
      BY <1>2, <2>2, Zenon DEF Kept
    <3> QED
      BY <1>2, <3>1
  <2> QED
    BY <1>1, <1>4, <2>1, <2>2, Zenon DEF Kept
<1> QED
  BY <1>3, <1>4, Zenon

(* A body that gets the next chunk *)
LEMMA NextOrdinal ==
  ASSUME NEW s \in Seq(Chunks), Ordinal(s), NEW c \in Chunks, c = Len(s) + 2
  PROVE  Ordinal(Append(s, c)) /\ Len(Append(s, c)) = Len(s) + 1
<1> DEFINE t == Append(s, c)
<1>1. /\ Len(t) = Len(s) + 1 /\ Len(s) \in Nat /\ t[Len(s) + 1] = c
      /\ \A i \in 1 .. Len(s) : t[i] = s[i]
  BY AppendProperties, LenProperties
<1> HIDE DEF t
<1>2. Ordinal(t)
  BY <1>1 DEF Ordinal
<1> QED
  BY <1>1, <1>2, Zenon DEF t

(* The first write in the mailbox is the chunk the body waits for. *)
LEMMA FirstChunk ==
  ASSUME NEW r \in Reqs, Chunked(r), 1 \in Writes(r), Writes(r) \subseteq Nat \ {0},
         Len(body[r]) \in Nat, Len(wrote[r]) \in Nat
  PROVE  mailbox[1].chunk = Len(body[r]) + 2 /\ Len(body[r]) < Len(wrote[r])
<1>1. mailbox[1].chunk \in Len(body[r]) + 2 .. Len(wrote[r]) + 1
  BY Zenon DEF Chunked
<1>2. Len(body[r]) + 2 \in Len(body[r]) + 2 .. Len(wrote[r]) + 1 /\ mailbox[1].chunk \in Nat
  BY <1>1
<1>3. PICK k \in Writes(r) : mailbox[k].chunk = Len(body[r]) + 2
  BY <1>2, Zenon DEF Chunked
<1>4. CASE k = 1
  BY <1>2, <1>3, <1>4
<1>5. CASE k # 1
  <2>1. k > 1
    BY <1>5
  <2>2. mailbox[1].chunk < mailbox[k].chunk
    BY <2>1, Zenon DEF Chunked
  <2> QED
    BY <1>1, <1>2, <1>3, <2>2
<1> QED
  BY <1>4, <1>5, Zenon

LEMMA OwnChunked ==
  ASSUME NEW r \in Reqs, Chunked(r), Nearer(r, 1), 1 \in Sent(r), wrote'[r] = wrote[r],
         Len(body[r]) \in Nat, Len(wrote[r]) \in Nat,
         IF mailbox[1].op = "write" THEN Len(body'[r]) = Len(body[r]) + 1 ELSE body'[r] = body[r]
  PROVE  Chunked(r)'
<1> DEFINE first == IF mailbox[1].op = "write" THEN Len(body[r]) + 3 ELSE Len(body[r]) + 2
<1>1. /\ \A k \in Writes(r)' : k + 1 \in Writes(r) /\ mailbox'[k] = mailbox[k + 1] /\ k \in Nat
      /\ \A k \in Writes(r) : k > 1 => /\ k - 1 \in Writes(r)' /\ mailbox'[k - 1] = mailbox[k]
                                       /\ k \in Nat
  BY NearerWrites, Zenon
<1>2. Writes(r) \subseteq Nat \ {0} /\ (1 \in Writes(r) <=> mailbox[1].op = "write")
      /\ Writes(r)' \subseteq Nat \ {0}
  BY Zenon DEF Writes, Nearer
<1>3. first \in Nat /\ Len(body'[r]) + 2 = first
  BY DEF Chunked
<1>4. mailbox[1].op = "write" => mailbox[1].chunk = Len(body[r]) + 2
  BY <1>2, FirstChunk, Zenon
<1> HIDE DEF first
<1>5. ASSUME NEW v \in first .. Len(wrote[r]) + 1
      PROVE  \E k \in Writes(r)' : mailbox'[k].chunk = v
  <2>1. v \in Len(body[r]) + 2 .. Len(wrote[r]) + 1 /\ (mailbox[1].op = "write" => v # Len(body[r]) + 2)
    BY <1>3 DEF first
  <2>2. PICK k \in Writes(r) : mailbox[k].chunk = v
    BY <2>1, Zenon DEF Chunked
  <2>3. k # 1
    BY <1>2, <1>4, <2>1, <2>2, Zenon
  <2>4. k > 1
    BY <1>2, <2>3
  <2> QED
    BY <1>1, <2>2, <2>4, Zenon
<1>6. ASSUME NEW k \in Writes(r)'
      PROVE  mailbox'[k].chunk \in first .. Len(wrote[r]) + 1
  <2>1. k + 1 \in Writes(r) /\ mailbox'[k] = mailbox[k + 1] /\ k + 1 > 1
    BY <1>1, <1>2
  <2>2. mailbox[k + 1].chunk \in Len(body[r]) + 2 .. Len(wrote[r]) + 1
    BY <2>1, Zenon DEF Chunked
  <2>3. mailbox[1].op = "write" => mailbox[1].chunk < mailbox[k + 1].chunk
    BY <1>2, <2>1, Zenon DEF Chunked
  <2> QED
    BY <1>4, <2>1, <2>2, <2>3 DEF first
<1>7. ASSUME NEW j \in Writes(r)', NEW k \in Writes(r)', j < k
      PROVE  mailbox'[j].chunk < mailbox'[k].chunk
  <2>1. j + 1 \in Writes(r) /\ k + 1 \in Writes(r) /\ j + 1 < k + 1
    BY <1>1, <1>2, <1>7
  <2>2. mailbox[j + 1].chunk < mailbox[k + 1].chunk
    BY <2>1, Zenon DEF Chunked
  <2> QED
    BY <1>1, <2>2, Zenon
<1> QED
  BY <1>3, <1>5, <1>6, <1>7, Zenon DEF Chunked

LEMMA OwnOrderly ==
  ASSUME Sound, NEW r \in Reqs, Orderly(r), id[r] # 0, Mailbox, mailbox[1].id = id[r]
  PROVE  Orderly(r)'
<1> DEFINE c == mailbox[1]
<1>0. PICK i : i = id[r]
  BY Zenon
<1>1. /\ TypeOK /\ Numbered /\ worker = "up" /\ Kept(r) /\ Counted(r)
      /\ disp[r] # "gone" => Chunked(r)
  BY Zenon DEF Sound, Orderly, Mailbox
<1>2. /\ c \in Commands /\ Len(mailbox) \in Nat \ {0} /\ UNCHANGED <<dispatched, hosted>>
      /\ IF Known(c.op, c.id) THEN Perform(c.op, c.id, c.chunk) ELSE UNCHANGED tables
  BY <1>1, MailboxTakes, Zenon
<1>3. c.op \in Ops /\ c.id = i /\ i \in Ids /\ c.chunk \in Chunks
  BY <1>0, <1>2, Zenon DEF Commands
<1>4. 1 \in Sent(r) /\ Nearer(r, 1) /\ \A j \in Sent(r) : ~(j < 1)
  BY <1>1, <1>2, MailTaken DEF Sent
<1>5. /\ c.op \in {"begin", "respond"} => PENDING[i] = r
      /\ c.op \in {"write", "finish"} => STREAMING[i] = r
  BY <1>0, <1>1, <1>4, Zenon DEF Kept
<1>6. Known(c.op, i)
  BY <1>3, <1>5, ResponderConstants, Zenon DEF Known, Ops
<1>7. Performed(c.op, i, c.chunk)
  BY <1>1, <1>2, <1>3, <1>6, PerformEffects, Zenon
<1>8. UNCHANGED <<id, disp, worker, phase, via, wrote, calls>>
  BY <1>2, Zenon DEF dispatched, hosted
<1>9. Kept(r)'
  <2>1. STREAMING'[i] = r \/ c.op \in {"respond", "finish"}
    BY <1>3, <1>5, <1>7, Zenon DEF Performed, Ops
  <2> QED
    BY <1>0, <1>1, <1>4, <1>8, <2>1, OwnKept, Zenon
<1>10. body[r] \in Seq(Chunks) /\ Len(body[r]) \in Nat /\ Len(wrote[r]) \in Nat
  BY <1>1 DEF TypeOK
<1>11. CASE c.op # "write" \/ disp[r] = "gone"
  <2>1. body'[r] = body[r]
    <3>1. CASE c.op # "write"
      BY <1>7, <3>1, Zenon DEF Performed
    <3>2. CASE c.op = "write" /\ disp[r] = "gone"
      <4>1. Write(i, c.chunk) /\ STREAMING[i] = r /\ r # 0
        BY <1>5, <1>7, <3>2, ResponderConstants, Zenon DEF Performed
      <4> HIDE DEF c
      <4> QED
        BY <1>1, <1>3, <3>2, <4>1, WriteEffects, Zenon
    <3> QED
      BY <1>11, <3>1, <3>2, Zenon
  <2>2. Counted(r)'
    BY <1>1, <1>8, <2>1, Zenon DEF Counted
  <2>3. disp[r] # "gone" => Chunked(r)'
    BY <1>1, <1>4, <1>8, <1>10, <1>11, <2>1, OwnChunked, Zenon
  <2> QED
    BY <1>1, <1>8, <1>9, <2>2, <2>3, Zenon DEF Orderly
<1>12. CASE c.op = "write" /\ disp[r] # "gone"
  <2>1. Write(i, c.chunk) /\ STREAMING[i] = r /\ r # 0
    BY <1>5, <1>7, <1>12, ResponderConstants, Zenon DEF Performed
  <2>2. body'[r] = Append(body[r], c.chunk)
    <3> HIDE DEF c
    <3> QED
      BY <1>1, <1>3, <1>12, <2>1, WriteEffects, Zenon
  <2>3. c.chunk = Len(body[r]) + 2 /\ Len(body[r]) < Len(wrote[r])
    <3>1. 1 \in Writes(r) /\ Writes(r) \subseteq Nat \ {0}
      BY <1>4, <1>12, Zenon DEF Writes, Nearer
    <3> QED
      BY <1>1, <1>10, <1>12, <3>1, FirstChunk, Zenon
  <2>4. Ordinal(body'[r]) /\ Len(body'[r]) = Len(body[r]) + 1
    <3> HIDE DEF c
    <3> QED
      BY <1>1, <1>3, <1>10, <2>2, <2>3, NextOrdinal, Zenon DEF Counted
  <2>5. Counted(r)'
    BY <1>1, <1>8, <1>10, <2>3, <2>4 DEF Counted
  <2>6. Chunked(r)'
    BY <1>1, <1>4, <1>8, <1>10, <1>12, <2>4, OwnChunked, Zenon
  <2> QED
    BY <1>1, <1>8, <1>9, <2>5, <2>6, Zenon DEF Orderly
<1> QED
  BY <1>11, <1>12, Zenon

-----------------------------------------------------------------------------
(* Calls of a host that keeps the documented order.  What the worker has to  *)
(* be at for a call on the worker:                                           *)
LEMMA OrderKnown ==
  ASSUME TypeOK, NEW op \in Ops, NEW r \in Reqs, Kept(r), via[r] # "foreign", InOrder(op, r)
  PROVE  /\ op \in {"respond", "begin"} => PENDING[id[r]] = r /\ STREAMING[id[r]] = 0
         /\ op \in {"write", "finish"} => STREAMING[id[r]] = r
         /\ Sent(r) = {} /\ Known(op, id[r]) /\ Status(op, id[r], "local") = "OK"
<1>1. Sent(r) = {}
  BY Zenon DEF Kept
<1>2. op \in {"respond", "begin"} => PENDING[id[r]] = r /\ STREAMING[id[r]] = 0
  BY Zenon DEF Kept, InOrder
<1>3. op \in {"write", "finish"} => STREAMING[id[r]] = r
  BY <1>1, Zenon DEF Kept, InOrder
<1>4. r # 0 /\ (op \in {"respond", "begin"} \/ op \in {"write", "finish"})
  BY ResponderConstants, Zenon DEF Ops
<1>5. Known(op, id[r])
  BY <1>2, <1>3, <1>4 DEF Known
<1>6. Status(op, id[r], "local") = "OK"
  <2>1. CASE op \in {"respond", "begin"}
    BY <1>2, <1>5, <2>1, Zenon DEF Status, Streaming
  <2>2. CASE op \in {"write", "finish"}
    BY <1>5, <2>2, Zenon DEF Status, Streaming
  <2> QED
    BY <1>4, <2>1, <2>2, Zenon
<1> QED
  BY <1>1, <1>2, <1>3, <1>5, <1>6, Zenon

(* A call that is answered with OK counts, and so does its chunk. *)
LEMMA CallCounts ==
  ASSUME TypeOK, NEW op \in Ops, NEW r \in Reqs, NEW from, Counted(r), worker = "up", InOrder(op, r),
         Called(op, r, from, "OK", calls[r] + 1), calls[r] + 1 \in Chunks
  PROVE  /\ phase'[r] = After(op) /\ via'[r] = from /\ Ordinal(wrote'[r])
         /\ phase'[r] = "streaming" => calls'[r] = Len(wrote'[r]) + 1
         /\ op # "write" => wrote'[r] = wrote[r]
         /\ op = "write" => /\ wrote'[r] = Append(wrote[r], calls[r] + 1)
                            /\ calls[r] + 1 = Len(wrote[r]) + 2 /\ Len(wrote'[r]) = Len(wrote[r]) + 1
<1>1. /\ phase'[r] = After(op) /\ via'[r] = from /\ calls'[r] = calls[r] + 1
      /\ wrote'[r] = IF op = "write" THEN Append(wrote[r], calls[r] + 1) ELSE wrote[r]
  BY Zenon DEF Called, TypeOK
<1>2. calls[r] \in Nat /\ wrote[r] \in Seq(Chunks) /\ Len(wrote[r]) \in Nat
  BY DEF TypeOK
<1>3. CASE op = "write"
  <2>1. phase[r] = "streaming" /\ calls[r] + 1 = Len(wrote[r]) + 2
    BY <1>2, <1>3 DEF InOrder, Counted
  <2>2. Ordinal(wrote[r])
    BY Zenon DEF Counted
  <2>3. Ordinal(wrote'[r]) /\ Len(wrote'[r]) = Len(wrote[r]) + 1
    BY <1>1, <1>2, <1>3, <2>1, <2>2, NextOrdinal, Zenon
  <2> QED
    BY <1>1, <1>2, <1>3, <2>1, <2>3
<1>4. CASE op # "write"
  <2>1. After(op) = "streaming" => op = "begin"
    BY <1>4, Zenon DEF After
  <2>2. op = "begin" => calls[r] = 0 /\ Len(wrote[r]) = 0
    BY Zenon DEF InOrder, Counted
  <2> QED
    BY <1>1, <1>2, <1>4, <2>1, <2>2, Zenon DEF Counted
<1> QED
  BY <1>3, <1>4, Zenon

(* on the worker *)
LEMMA LocalOrderly ==
  ASSUME Sound, NEW op \in Ops, NEW r \in Reqs, Orderly(r), worker = "up", id[r] \in Ids,
         via[r] \in {"any", "local"}, InOrder(op, r), calls[r] + 1 \in Chunks,
         Called(op, r, "local", "OK", calls[r] + 1), Perform(op, id[r], calls[r] + 1),
         UNCHANGED <<mailbox, dispatched>>
  PROVE  Orderly(r)'
<1> DEFINE c == calls[r] + 1
<1>0. PICK i : i = id[r]
  BY Zenon
<1>1. /\ TypeOK /\ Numbered /\ Kept(r) /\ Counted(r) /\ id[r] # 0
      /\ disp[r] # "gone" => Chunked(r)
  BY ResponderConstants, Zenon DEF Sound, Orderly
<1>2. /\ op \in {"respond", "begin"} => PENDING[i] = r
      /\ op \in {"write", "finish"} => STREAMING[i] = r
      /\ Sent(r) = {} /\ Known(op, i)
  BY <1>0, <1>1, OrderKnown, Zenon
<1>3. /\ phase'[r] = After(op) /\ via'[r] = "local" /\ Ordinal(wrote'[r])
      /\ phase'[r] = "streaming" => calls'[r] = Len(wrote'[r]) + 1
      /\ op # "write" => wrote'[r] = wrote[r]
      /\ op = "write" => /\ wrote'[r] = Append(wrote[r], c)
                         /\ c = Len(wrote[r]) + 2 /\ Len(wrote'[r]) = Len(wrote[r]) + 1
  BY <1>1, CallCounts, ZenonT(60)
<1>4. UNCHANGED <<id, disp, worker>> /\ Sent(r)' = {}
  BY <1>2, Zenon DEF dispatched, Sent
<1>5. Performed(op, i, c)
  BY <1>0, <1>1, <1>2, PerformEffects, Zenon
<1>6. Kept(r)'
  <2>1. phase'[r] = "streaming" => STREAMING'[i] = r
    BY <1>2, <1>3, <1>5, Zenon DEF After, Performed, Ops
  <2>2. phase'[r] # "fresh"
    BY <1>3, Zenon DEF After
  <2> QED
    BY <1>0, <1>4, <2>1, <2>2, Zenon DEF Kept
<1>7. /\ body[r] \in Seq(Chunks) /\ Len(body[r]) \in Nat /\ Len(wrote[r]) \in Nat
      /\ Len(body[r]) <= Len(wrote[r])
  BY <1>1 DEF TypeOK, Counted
<1>8. disp[r] # "gone" => Len(body[r]) = Len(wrote[r])
  <2> SUFFICES ASSUME disp[r] # "gone", Len(body[r]) < Len(wrote[r]) PROVE FALSE
    BY <1>7, SMTT(30)
  <2>1. Len(wrote[r]) + 1 \in Len(body[r]) + 2 .. Len(wrote[r]) + 1
    BY <1>7
  <2>2. Writes(r) = {}
    BY <1>2, Zenon DEF Writes
  <2> QED
    BY <1>1, <2>1, <2>2, Zenon DEF Chunked
<1>9. /\ Ordinal(body'[r]) /\ Len(body'[r]) <= Len(wrote'[r])
      /\ disp[r] # "gone" => Len(body'[r]) = Len(wrote'[r])
  <2>1. CASE op # "write"
    BY <1>1, <1>3, <1>5, <1>7, <1>8, <2>1, Zenon DEF Performed, Counted
  <2>2. CASE op = "write"
    <3>1. body'[r] = IF disp[r] = "gone" THEN body[r] ELSE Append(body[r], c)
      <4>1. STREAMING[i] = r /\ r # 0 /\ Write(i, c) /\ i \in Ids /\ c \in Chunks
        BY <1>0, <1>2, <1>5, <2>2, ResponderConstants, Zenon DEF Performed
      <4> HIDE DEF c
      <4> QED
        BY <1>1, <4>1, WriteEffects, Zenon
    <3>2. CASE disp[r] = "gone"
      BY <1>1, <1>3, <1>7, <2>2, <3>1, <3>2 DEF Counted
    <3>3. CASE disp[r] # "gone"
      <4>1. c = Len(body[r]) + 2 /\ body'[r] = Append(body[r], c) /\ c \in Chunks
        BY <1>3, <1>8, <2>2, <3>1, <3>3, Zenon
      <4>2. Ordinal(body[r])
        BY <1>1, Zenon DEF Counted
      <4> HIDE DEF c
      <4>3. Ordinal(body'[r]) /\ Len(body'[r]) = Len(body[r]) + 1
        BY <1>7, <4>1, <4>2, NextOrdinal, Zenon
      <4> QED
        BY <1>3, <1>7, <1>8, <2>2, <3>3, <4>3
    <3> QED
      BY <3>2, <3>3, Zenon
  <2> QED
    BY <2>1, <2>2, Zenon
<1>10. Counted(r)'
  <2>1. phase'[r] # "fresh"
    BY <1>3, Zenon DEF After
  <2> QED
    BY <1>3, <1>9, <2>1, Zenon DEF Counted
<1>11. disp[r] # "gone" => Chunked(r)'
  <2>1. Writes(r)' = {}
    BY <1>4, Zenon DEF Writes
  <2>2. Len(body'[r]) = Len(wrote'[r]) /\ Len(wrote'[r]) \in Nat
        => Len(body'[r]) + 2 .. Len(wrote'[r]) + 1 = {}
    OBVIOUS
  <2>3. Len(wrote'[r]) \in Nat
    BY <1>3, <1>7
  <2> QED
    BY <1>9, <2>1, <2>2, <2>3, Zenon DEF Chunked
<1> QED
  BY <1>1, <1>4, <1>6, <1>10, <1>11, Zenon DEF Orderly

(* through the mailbox *)
LEMMA ForeignOrderly ==
  ASSUME Sound, NEW op \in Ops, NEW r \in Reqs, Orderly(r), worker = "up", id[r] \in Ids,
         InOrder(op, r), calls[r] + 1 \in Chunks,
         Called(op, r, "foreign", "OK", calls[r] + 1),
         mailbox' = Append(mailbox, [op |-> op, id |-> id[r], chunk |-> calls[r] + 1]),
         UNCHANGED <<tables, dispatched>>
  PROVE  Orderly(r)'
<1>0. PICK i, c, x, n : /\ i = id[r] /\ c = calls[r] + 1 /\ n = Len(mailbox) + 1
                        /\ x = [op |-> op, id |-> id[r], chunk |-> calls[r] + 1]
  BY Zenon
<1>1. /\ TypeOK /\ Numbered /\ Kept(r) /\ Counted(r) /\ id[r] # 0
      /\ disp[r] # "gone" => Chunked(r)
  BY ResponderConstants, Zenon DEF Sound, Orderly
<1>2. x \in Commands /\ x.op = op /\ x.id = i /\ x.chunk = c
  BY <1>0, Zenon DEF Commands
<1>3. UNCHANGED <<id, disp, worker, PENDING, STREAMING, body>>
  BY Zenon DEF dispatched, tables
<1>4. /\ Sent(r)' = Sent(r) \union {n} /\ n \in Nat
      /\ \A k \in Sent(r) : k \in Nat /\ k < n /\ mailbox'[k] = mailbox[k]
      /\ mailbox'[n] = x
  <2>1. mailbox' = Append(mailbox, x) /\ id'[r] = id[r] /\ x.id = id[r]
    BY <1>0, <1>2, <1>3, Zenon
  <2>2. Len(mailbox) \in Nat
    BY <1>1 DEF TypeOK
  <2>3. /\ Sent(r)' = Sent(r) \union {Len(mailbox) + 1}
        /\ \A k \in Sent(r) : k \in Nat /\ k < Len(mailbox) + 1 /\ mailbox'[k] = mailbox[k]
        /\ mailbox'[Len(mailbox) + 1] = x
    BY <1>1, <1>2, <2>1, MailPosted, ZenonT(60)
  <2>4. n = Len(mailbox) + 1
    BY <1>0, Zenon
  <2>5. Len(mailbox) + 1 \in Nat
    BY <2>2
  <2> QED
    BY <2>3, <2>4, <2>5, Zenon
<1>5. /\ phase'[r] = After(op) /\ via'[r] = "foreign" /\ Ordinal(wrote'[r])
      /\ phase'[r] = "streaming" => calls'[r] = Len(wrote'[r]) + 1
      /\ op # "write" => wrote'[r] = wrote[r]
      /\ op = "write" => c = Len(wrote[r]) + 2 /\ Len(wrote'[r]) = Len(wrote[r]) + 1
  <2>1. TypeOK /\ Counted(r)
    BY <1>1, Zenon
  <2> QED
    BY <1>0, <2>1, CallCounts, ZenonT(60)
<1>6. /\ op \in {"respond", "begin"} => phase[r] = "fresh" /\ Sent(r) = {} /\ PENDING[i] = r
      /\ op \in {"write", "finish"} =>
            /\ phase[r] = "streaming"
            /\ STREAMING[i] = r \/ \E k \in Sent(r) : mailbox[k].op = "begin"
  BY <1>0, <1>1, Zenon DEF InOrder, Kept
<1>7. phase'[r] # "fresh" /\ (phase'[r] = "streaming" <=> op \in {"begin", "write"})
      /\ (phase'[r] = "done" <=> op \in {"respond", "finish"})
  BY <1>5, Zenon DEF After, Ops
<1>8. Kept(r)'
  <2>0. \A j \in Sent(r)' : j <= n /\ (Sent(r) = {} => j = n)
    BY <1>4, SMTT(30)
  <2>1. phase'[r] = "streaming" => STREAMING[i] = r \/ \E k \in Sent(r)' : mailbox'[k].op = "begin"
    BY <1>2, <1>4, <1>6, <1>7, Zenon
  <2>2. ASSUME NEW k \in Sent(r)', mailbox'[k].op \in {"begin", "respond"}
        PROVE  PENDING[i] = r /\ \A j \in Sent(r)' : j >= k
    <3>1. CASE k = n
      BY <1>2, <1>4, <1>6, <2>0, <2>2, <3>1, Zenon
    <3>2. CASE k \in Sent(r)
      <4>1. PENDING[i] = r /\ \A j \in Sent(r) : j >= k
        BY <1>0, <1>1, <1>4, <2>2, <3>2, Zenon DEF Kept
      <4> QED
        BY <1>4, <3>2, <4>1
    <3> QED
      BY <1>4, <3>1, <3>2, Zenon
  <2>3. ASSUME NEW k \in Sent(r)', mailbox'[k].op \in {"write", "finish"}
        PROVE  STREAMING[i] = r \/ \E j \in Sent(r)' : j < k /\ mailbox'[j].op = "begin"
    <3>1. CASE k = n
      BY <1>2, <1>4, <1>6, <2>3, <3>1, Zenon
    <3>2. CASE k \in Sent(r)
      <4>1. STREAMING[i] = r \/ \E j \in Sent(r) : j < k /\ mailbox[j].op = "begin"
        BY <1>0, <1>1, <1>4, <2>3, <3>2, Zenon DEF Kept
      <4> QED
        BY <1>4, <4>1, Zenon
    <3> QED
      BY <1>4, <3>1, <3>2, Zenon
  <2>4. ASSUME NEW k \in Sent(r)', mailbox'[k].op \in {"respond", "finish"}
        PROVE  phase'[r] = "done" /\ \A j \in Sent(r)' : j <= k
    <3>1. CASE k = n
      BY <1>2, <1>4, <1>7, <2>0, <2>4, <3>1, Zenon
    <3>2. CASE k \in Sent(r)
      <4>1. phase[r] = "done"
        BY <1>1, <1>4, <2>4, <3>2, Zenon DEF Kept
      <4> QED
        BY <1>6, <4>1, Zenon DEF Ops
    <3> QED
      BY <1>4, <3>1, <3>2, Zenon
  <2> QED
    BY <1>0, <1>3, <1>5, <1>7, <2>1, <2>2, <2>3, <2>4, Zenon DEF Kept
<1>9. Len(body[r]) \in Nat /\ Len(wrote[r]) \in Nat /\ Len(body[r]) <= Len(wrote[r])
  BY <1>1 DEF TypeOK, Counted
<1>10. Counted(r)'
  <2>1. Len(body[r]) <= Len(wrote'[r])
    BY <1>5, <1>9
  <2> QED
    BY <1>1, <1>3, <1>5, <1>7, <2>1, Zenon DEF Counted
<1>11. ASSUME disp[r] # "gone" PROVE Chunked(r)'
  <2>0. Chunked(r)
    BY <1>1, <1>11, Zenon
  <2>1. \A k \in Writes(r) : k \in Writes(r)' /\ mailbox'[k] = mailbox[k] /\ k < n
    BY <1>4, Zenon DEF Writes
  <2>2. CASE op # "write"
    <3>1. \A k \in Writes(r)' : k \in Writes(r)
      BY <1>2, <1>4, <2>2, Zenon DEF Writes
    <3> QED
      BY <1>3, <1>5, <2>0, <2>1, <2>2, <3>1, Zenon DEF Chunked
  <2>3. CASE op = "write"
    <3>1. n \in Writes(r)' /\ mailbox'[n].chunk = Len(wrote[r]) + 2
          /\ \A k \in Writes(r)' : k \in Writes(r) \/ k = n
      BY <1>2, <1>4, <1>5, <2>3, Zenon DEF Writes
    <3>2. Len(wrote'[r]) = Len(wrote[r]) + 1
      BY <1>5, <2>3, Zenon
    <3>3. ASSUME NEW v \in Len(body[r]) + 2 .. Len(wrote[r]) + 2
          PROVE  \E k \in Writes(r)' : mailbox'[k].chunk = v
      <4>1. CASE v = Len(wrote[r]) + 2
        BY <3>1, <4>1, Zenon
      <4>2. CASE v \in Len(body[r]) + 2 .. Len(wrote[r]) + 1
        BY <2>0, <2>1, <4>2, Zenon DEF Chunked
      <4>3. v = Len(wrote[r]) + 2 \/ v \in Len(body[r]) + 2 .. Len(wrote[r]) + 1
        BY <1>9
      <4> QED
        BY <4>1, <4>2, <4>3, Zenon
    <3>4. \A k \in Writes(r) : mailbox'[k].chunk \in Len(body[r]) + 2 .. Len(wrote[r]) + 1
      BY <2>0, <2>1, Zenon DEF Chunked
    <3>5. \A k \in Writes(r)' : mailbox'[k].chunk \in Len(body[r]) + 2 .. Len(wrote[r]) + 2
      <4>1. /\ Len(wrote[r]) + 2 \in Len(body[r]) + 2 .. Len(wrote[r]) + 2
            /\ \A v \in Len(body[r]) + 2 .. Len(wrote[r]) + 1 : v \in Len(body[r]) + 2 .. Len(wrote[r]) + 2
        BY <1>9
      <4> QED
        BY <3>1, <3>4, <4>1, Zenon
    <3>6. ASSUME NEW j \in Writes(r)', NEW k \in Writes(r)', j < k
          PROVE  mailbox'[j].chunk < mailbox'[k].chunk
      <4>1. j \in Writes(r)
        <5>1. j \in Sent(r)' /\ k \in Sent(r)'
          BY Zenon DEF Writes
        <5>2. j # n
          BY <1>4, <3>6, <5>1
        <5> QED
          BY <3>1, <5>2, Zenon
      <4>2. CASE k \in Writes(r)
        BY <2>0, <2>1, <3>6, <4>1, <4>2, Zenon DEF Chunked
      <4>3. CASE k = n
        <5>1. mailbox'[j].chunk \in Len(body[r]) + 2 .. Len(wrote[r]) + 1
          BY <3>4, <4>1, Zenon
        <5>2. mailbox'[k].chunk = Len(wrote[r]) + 2
          BY <3>1, <4>3, Zenon
        <5>3. \A u \in Len(body[r]) + 2 .. Len(wrote[r]) + 1 : u < Len(wrote[r]) + 2
          BY <1>9
        <5> QED
          BY <5>1, <5>2, <5>3, Zenon
      <4> QED
        BY <3>1, <4>2, <4>3, Zenon
    <3>7. Len(wrote'[r]) + 1 = Len(wrote[r]) + 2
      BY <1>9, <3>2
    <3> QED
      BY <1>3, <3>3, <3>5, <3>6, <3>7, Zenon DEF Chunked
  <2> QED
    BY <2>2, <2>3, Zenon
<1> QED
  BY <1>1, <1>3, <1>8, <1>10, <1>11, Zenon DEF Orderly

(* A call of another request *)
LEMMA CallOthers ==
  ASSUME Sound, NEW op \in Ops, NEW r \in Reqs, NEW from \in Threads, CallHost(op, r, from),
         NEW q \in Reqs, q # r, Orderly(q)
  PROVE  Orderly(q)'
<1>0. PICK i, c : i = id[r] /\ c = calls[r] + 1
  BY Zenon
<1>1. /\ TypeOK /\ Numbered /\ HostOK /\ DispatchOK /\ i # 0 /\ calls[r] < MaxCalls[host]
      /\ \E x : Called(op, r, from, x, c)
      /\ UNCHANGED dispatched
  BY <1>0, TypeParts, Zenon DEF Sound, CallHost
<1>2. i \in Ids /\ c \in Chunks /\ id[q] # i
  BY <1>0, <1>1, ChunkNumber, Zenon DEF DispatchOK, Numbered
<1>3. /\ phase'[q] = phase[q] /\ via'[q] = via[q] /\ calls'[q] = calls[q] /\ wrote'[q] = wrote[q]
      /\ UNCHANGED <<id, disp, worker>>
  BY <1>1, Zenon DEF Called, HostOK, dispatched
<1>4. CASE from = "local" /\ Status(op, i, from) = "OK" /\ Perform(op, i, c) /\ UNCHANGED mailbox
  <2>1. Known(op, i)
    BY <1>1, <1>2, <1>4, LocalKnown, Zenon
  <2>2. Performed(op, i, c) /\ body'[q] = body[q]
    BY <1>1, <1>2, <1>4, <2>1, PerformKeeps, Zenon
  <2>3. id[q] # 0 => PENDING'[id[q]] = PENDING[id[q]] /\ STREAMING'[id[q]] = STREAMING[id[q]]
    BY <1>1, <1>2, <2>2, Zenon DEF Performed, DispatchOK
  <2>4. Nearer(q, 0)
    BY <1>1, <1>3, <1>4, MailSame, Zenon
  <2> QED
    BY <1>3, <2>2, <2>3, <2>4, OthersOrderly
<1>5. CASE UNCHANGED tables /\ Nearer(q, 0)
  <2>1. UNCHANGED <<PENDING, STREAMING, body>>
    BY <1>5, Zenon DEF tables
  <2> QED
    BY <1>3, <1>5, <2>1, OthersOrderly
<1>6. CASE UNCHANGED <<mailbox, tables>>
  BY <1>1, <1>3, <1>5, <1>6, MailSame, Zenon
<1>7. CASE UNCHANGED tables /\ mailbox' = Append(mailbox, [op |-> op, id |-> i, chunk |-> c])
  <2>1. PICK x : x = [op |-> op, id |-> i, chunk |-> c]
    BY Zenon
  <2>2. x \in Commands /\ x.id = i
    BY <1>2, <2>1, Zenon DEF Commands
  <2>3. mailbox' = Append(mailbox, x) /\ id'[q] = id[q]
    BY <1>3, <1>7, <2>1, Zenon
  <2> QED
    BY <1>1, <1>2, <1>5, <1>7, <2>2, <2>3, MailPosted, Zenon
<1> QED
  BY <1>0, <1>4, <1>6, <1>7, Zenon DEF CallHost

(* A call of a host that keeps the order is not refused while the worker     *)
(* runs.                                                                     *)
LEMMA CallOwn ==
  ASSUME Sound, NEW op \in Ops, NEW r \in Reqs, NEW from \in Threads, CallHost(op, r, from),
         host = "ordered", Orderly(r)
  PROVE  Orderly(r)' /\ (worker' = "up" => last'.status = "OK")
<1>0. PICK i, c, x : i = id[r] /\ c = calls[r] + 1 /\ x = Status(op, i, from)
  BY Zenon
<1>1. /\ TypeOK /\ Numbered /\ HostOK /\ DispatchOK /\ i # 0 /\ calls[r] < MaxCalls[host]
      /\ Called(op, r, from, x, c) /\ InOrder(op, r) /\ via[r] \in {"any", from}
      /\ UNCHANGED dispatched /\ (from = "local" => worker = "up")
  BY <1>0, TypeParts, Zenon DEF Sound, CallHost, Allowed
<1>2. i \in Ids /\ c \in Chunks
  BY <1>0, <1>1, ChunkNumber, Zenon DEF DispatchOK
<1>3. worker = "up" => Kept(r)
  BY <1>0, <1>1, Zenon DEF Orderly
<1>4. from = "local" => x = "OK" /\ via[r] # "foreign"
  <2> SUFFICES ASSUME from = "local" PROVE x = "OK" /\ via[r] # "foreign"
    BY Zenon
  <2>1. via[r] # "foreign"
    BY <1>1, Zenon
  <2> QED
    BY <1>0, <1>1, <1>3, <2>1, OrderKnown
<1>5. from = "foreign" /\ worker = "up" => x = "OK"
  BY <1>0, Zenon DEF Status, Streaming
<1>6. worker' = worker /\ last'.status = x
  BY <1>1, Zenon DEF dispatched, Called
<1>7. from \in {"local", "foreign"} /\ worker \in {"up", "down"}
  BY <1>1, Zenon DEF Threads, DispatchOK
<1>8. CASE from = "local"
  <2>1. Perform(op, id[r], calls[r] + 1) /\ UNCHANGED mailbox
    BY <1>0, <1>4, <1>8, Zenon DEF CallHost
  <2>2. Called(op, r, "local", "OK", calls[r] + 1)
    BY <1>0, <1>1, <1>4, <1>8, Zenon
  <2>3. id[r] \in Ids /\ calls[r] + 1 \in Chunks /\ via[r] \in {"any", "local"} /\ worker = "up"
    BY <1>0, <1>1, <1>2, <1>8, Zenon
  <2>4. Orderly(r)'
    BY <1>1, <2>1, <2>2, <2>3, LocalOrderly, Zenon
  <2> QED
    BY <1>4, <1>6, <1>8, <2>4, Zenon
<1>9. CASE from = "foreign" /\ worker = "up"
  <2>1. mailbox' = Append(mailbox, [op |-> op, id |-> id[r], chunk |-> calls[r] + 1])
        /\ UNCHANGED tables
    BY <1>0, <1>5, <1>9, Zenon DEF CallHost
  <2>2. Called(op, r, "foreign", "OK", calls[r] + 1)
    BY <1>0, <1>1, <1>5, <1>9, Zenon
  <2>3. id[r] \in Ids /\ calls[r] + 1 \in Chunks
    BY <1>0, <1>2, Zenon
  <2>4. Orderly(r)'
    BY <1>1, <1>9, <2>1, <2>2, <2>3, ForeignOrderly, Zenon
  <2> QED
    BY <1>5, <1>6, <1>9, <2>4, Zenon
<1>10. CASE from = "foreign" /\ worker = "down"
  <2>1. x = "INVALID_ARG"
    BY <1>0, <1>10, Zenon DEF Status, Streaming
  <2>2. UNCHANGED tables
    BY <1>0, <2>1, Zenon DEF CallHost
  <2>3. phase'[r] = phase[r] /\ wrote'[r] = wrote[r] /\ UNCHANGED <<id, body, worker>>
    BY <1>1, <2>1, <2>2, Zenon DEF Called, HostOK, dispatched, tables
  <2> QED
    BY <1>6, <1>10, <2>3, Zenon DEF Orderly, Counted
<1> QED
  BY <1>7, <1>8, <1>9, <1>10, Zenon

(* A request gets its responder. *)
LEMMA DispatchOrderly ==
  ASSUME MaxReq <= Locals, Sound, Addressed, NEW r \in Reqs, Dispatch(r), NEW q \in Reqs, Orderly(q)
  PROVE  Orderly(q)'
<1>0. PICK i : i = next_local
  BY Zenon
<1>1. /\ TypeOK /\ DispatchOK /\ TablesOK /\ worker = "up" /\ UNCHANGED <<STREAMING, body, worker, mailbox>>
      /\ id' = [id EXCEPT ![r] = i] /\ PENDING' = [PENDING EXCEPT ![i] = r]
      /\ disp' = [disp EXCEPT ![r] = "waiting"]
      /\ UNCHANGED <<phase, via, wrote, calls>>
  BY <1>0, TypeParts, Zenon DEF Sound, Dispatch, register, hosted
<1>2. /\ \A p \in Reqs : id[p] < i
      /\ id[r] = 0 /\ STREAMING[i] = 0 /\ i \in Ids /\ i \in Nat /\ i # 0
  BY <1>0, <1>1, DispatchFresh, ResponderConstants, Zenon DEF DispatchOK
<1>3. \A p \in Reqs : id[p] # i
  BY <1>1, <1>2, ResponderConstants DEF DispatchOK
<1>4. CASE q # r
  <2>1. id'[q] = id[q] /\ disp'[q] = disp[q]
    BY <1>1, <1>4, Zenon DEF DispatchOK
  <2>2. id[q] # 0 => PENDING'[id[q]] = PENDING[id[q]] /\ STREAMING'[id[q]] = STREAMING[id[q]]
    BY <1>1, <1>3, Zenon DEF TablesOK, DispatchOK
  <2>3. Nearer(q, 0)
    BY <1>1, <2>1, MailSame, Zenon
  <2> QED
    BY <1>1, <2>1, <2>2, <2>3, OthersOrderly
<1>5. CASE q = r
  <2>1. /\ phase[r] = "fresh" /\ Len(wrote[r]) = 0 /\ Len(body[r]) = 0 /\ Counted(r)
    <3>1. /\ phase[r] = "fresh" /\ Counted(r) /\ Len(wrote[r]) = 0 /\ Len(body[r]) <= Len(wrote[r])
      BY <1>1, <1>2, <1>5, Zenon DEF Orderly, Counted
    <3>2. Len(body[r]) \in Nat
      BY <1>1 DEF TypeOK
    <3> QED
      BY <3>1, <3>2
  <2>2. id'[r] = i /\ PENDING'[i] = r /\ STREAMING'[i] = 0
    BY <1>1, <1>2, Zenon DEF DispatchOK, TablesOK
  <2>3. Sent(r)' = {} /\ Writes(r)' = {}
    <3>1. Sent(r)' = {k \in 1 .. Len(mailbox) : mailbox[k].id = i}
      BY <1>1, <2>2, Zenon DEF Sent
    <3>2. Sent(r)' = {}
      BY <1>3, <3>1, Zenon DEF Addressed
    <3> QED
      BY <3>2, Zenon DEF Writes
  <2>4. Kept(r)'
    BY <1>1, <2>1, <2>2, <2>3, Zenon DEF Kept
  <2>5. Chunked(r)'
    <3>1. Len(body[r]) + 2 .. Len(wrote[r]) + 1 = {}
      BY <2>1
    <3> QED
      BY <1>1, <2>3, <3>1, Zenon DEF Chunked
  <2>6. Counted(r)'
    BY <1>1, <2>1, Zenon DEF Counted
  <2> QED
    BY <1>1, <1>2, <1>5, <2>1, <2>2, <2>4, <2>5, <2>6, Zenon DEF Orderly
<1> QED
  BY <1>4, <1>5, Zenon

(* The mailbox task takes a command. *)
LEMMA MailboxOrderly ==
  ASSUME Sound, Mailbox, NEW q \in Reqs, Orderly(q)
  PROVE  Orderly(q)'
<1> DEFINE c == mailbox[1]
<1>1. /\ TypeOK /\ Numbered /\ c \in Commands /\ UNCHANGED <<dispatched, hosted>>
      /\ IF Known(c.op, c.id) THEN Perform(c.op, c.id, c.chunk) ELSE UNCHANGED tables
  BY MailboxTakes, Zenon DEF Sound
<1>2. c.op \in Ops /\ c.id \in Ids /\ c.chunk \in Chunks
  BY <1>1, Zenon DEF Commands
<1>3. CASE c.id = id[q]
  BY <1>2, <1>3, OwnOrderly, ResponderConstants, Zenon
<1>4. CASE c.id # id[q]
  <2>1. UNCHANGED <<id, disp, worker, phase, via, wrote, calls>>
    BY <1>1, Zenon DEF dispatched, hosted
  <2>2. Nearer(q, 1) /\ 1 \notin Sent(q)
    BY <1>1, <1>4, MailTaken, Zenon DEF Sent
  <2>3. /\ body'[q] = body[q]
        /\ id[q] # 0 => PENDING'[id[q]] = PENDING[id[q]] /\ STREAMING'[id[q]] = STREAMING[id[q]]
    <3>1. CASE ~Known(c.op, c.id)
      BY <1>1, <3>1, Zenon DEF tables
    <3>2. CASE Known(c.op, c.id)
      <4> HIDE DEF c
      <4>1. Performed(c.op, c.id, c.chunk) /\ body'[q] = body[q]
        BY <1>1, <1>2, <1>4, <3>2, PerformKeeps, Zenon
      <4>2. id[q] \in {0} \union Ids
        BY <1>1, Zenon DEF TypeOK
      <4> QED
        BY <1>4, <4>1, <4>2, Zenon DEF Performed
    <3> QED
      BY <3>1, <3>2, Zenon
  <2> QED
    BY <2>1, <2>2, <2>3, OthersOrderly, Zenon
<1> QED
  BY <1>3, <1>4, Zenon

(* The other steps of the worker; if it stops, the mailbox is dropped. *)
LEMMA WorkerOrderly ==
  ASSUME Sound, \/ StopServer
                \/ \E r \in Reqs : Reply(r) \/ DispatchRefused(r) \/ ConnectionLost(r),
         NEW q \in Reqs, Orderly(q)
  PROVE  Orderly(q)'
<1>1. TypeOK /\ DispatchOK
  BY TypeParts, Zenon DEF Sound
<1>2. UNCHANGED <<tables, id, hosted>>
  BY ReplyIs, Zenon DEF StopServer, DispatchRefused, ConnectionLost
<1>3. UNCHANGED <<PENDING, STREAMING, body, phase, via, wrote, calls>>
  BY <1>2, Zenon DEF tables, hosted
<1>4. CASE StopServer
  <2>1. worker' = "down"
    BY <1>4, Zenon DEF StopServer
  <2> QED
    BY <1>2, <1>3, <2>1, Zenon DEF Orderly, Counted
<1>5. ASSUME NEW r \in Reqs, Reply(r) \/ DispatchRefused(r) \/ ConnectionLost(r)
      PROVE  Orderly(q)'
  <2>1. /\ UNCHANGED <<worker, mailbox>>
        /\ \/ disp' = [disp EXCEPT ![r] = "gone"]
           \/ disp' = [disp EXCEPT ![r] = "answered"] /\ disp[r] = "waiting"
    BY <1>5, ReplyIs, Zenon DEF DispatchRefused, ConnectionLost
  <2>2. disp'[q] # "gone" => disp[q] # "gone"
    BY <1>1, <2>1, Zenon DEF DispatchOK
  <2>3. Nearer(q, 0)
    BY <1>1, <1>2, <2>1, MailSame, Zenon
  <2> QED
    BY <1>2, <1>3, <2>1, <2>2, <2>3, OthersOrderly
<1> QED
  BY <1>4, <1>5, Zenon

(* Commands stay addressed: a responder is never taken back. *)
LEMMA AddressedStep ==
  ASSUME MaxReq <= Locals, Sound, Addressed, [Next]_vars
  PROVE  Addressed'
<1>1. TypeOK /\ DispatchOK /\ mailbox \in Seq(Commands)
  BY TypeParts, Zenon DEF Sound
<1>2. CASE UNCHANGED <<id, mailbox>>
  BY <1>2, Zenon DEF Addressed
<1>3. CASE UNCHANGED vars
  BY <1>2, <1>3, Zenon DEF vars, dispatched
<1>4. CASE Mailbox
  <2>1. /\ mailbox' = Tail(mailbox) /\ mailbox # <<>> /\ UNCHANGED id
    BY <1>4, Zenon DEF Mailbox, dispatched
  <2>2. /\ Len(mailbox') = Len(mailbox) - 1 /\ Len(mailbox) \in Nat
        /\ \A k \in 1 .. Len(mailbox') : mailbox'[k] = mailbox[k + 1]
    BY <1>1, <2>1, HeadTailProperties, LenProperties, Zenon
  <2>3. \A k \in 1 .. Len(mailbox') : k + 1 \in 1 .. Len(mailbox)
    BY <2>2
  <2> QED
    BY <2>1, <2>2, <2>3, Zenon DEF Addressed
<1>5. CASE StopServer
  BY <1>5 DEF StopServer, Addressed
<1>6. ASSUME NEW r \in Reqs, Reply(r) \/ DispatchRefused(r) \/ ConnectionLost(r)
      PROVE  Addressed'
  BY <1>2, <1>6, Zenon DEF Reply, DispatchRefused, ConnectionLost
<1>7. ASSUME NEW r \in Reqs, Dispatch(r)
      PROVE  Addressed'
  <2>1. id[r] = 0 /\ UNCHANGED mailbox /\ \E i : id' = [id EXCEPT ![r] = i]
    BY <1>7, DispatchFresh, Zenon DEF Dispatch, register
  <2>2. \A k \in 1 .. Len(mailbox) : mailbox[k].id # 0
    <3> SUFFICES ASSUME NEW k \in 1 .. Len(mailbox) PROVE mailbox[k].id # 0
      BY Zenon
    <3>1. mailbox[k] \in Commands
      BY <1>1, ElementOfSeq, Zenon
    <3> QED
      BY <3>1, ResponderConstants, Zenon DEF Commands
  <2>3. \A q \in Reqs : id[q] # 0 => id'[q] = id[q]
    BY <1>1, <2>1, Zenon DEF DispatchOK
  <2> QED
    BY <2>1, <2>2, <2>3 DEF Addressed
<1>8. ASSUME NEW op \in Ops, NEW r \in Reqs, NEW from \in Threads, CallHost(op, r, from)
      PROVE  Addressed'
  <2>0. UNCHANGED id
    BY <1>8, Zenon DEF CallHost, dispatched
  <2>1. CASE UNCHANGED mailbox
    BY <1>2, <2>0, <2>1, Zenon
  <2>2. CASE mailbox' = Append(mailbox, [op |-> op, id |-> id[r], chunk |-> calls[r] + 1])
    <3>1. PICK x : x = [op |-> op, id |-> id[r], chunk |-> calls[r] + 1]
      BY Zenon
    <3>2. x.id = id[r] /\ mailbox' = Append(mailbox, x)
      BY <2>2, <3>1, Zenon
    <3>3. /\ Len(mailbox') = Len(mailbox) + 1 /\ Len(mailbox) \in Nat
          /\ \A k \in 1 .. Len(mailbox) : mailbox'[k] = mailbox[k]
          /\ mailbox'[Len(mailbox) + 1] = x
      BY <1>1, <3>2
    <3>4. \A k \in 1 .. Len(mailbox') : k \in 1 .. Len(mailbox) \/ k = Len(mailbox) + 1
      BY <3>3
    <3> QED
      BY <2>0, <3>2, <3>3, <3>4, Zenon DEF Addressed
  <2> QED
    BY <1>8, <2>1, <2>2, Zenon DEF CallHost
<1> QED
  BY <1>3, <1>4, <1>5, <1>6, <1>7, <1>8, Zenon DEF Next, Work

(* Every step keeps a request in order, with a host that keeps the order. *)
LEMMA OrderStep ==
  ASSUME MaxReq <= Locals, ResponderInv, [Next]_vars, host = "ordered"
  PROVE  (\A q \in Reqs : Orderly(q)') /\ (worker' = "up" => last'.status = "OK")
<1>1. /\ Sound /\ Addressed /\ (\A q \in Reqs : Orderly(q)) /\ (worker = "up" => last.status = "OK")
  BY Zenon DEF ResponderInv, Sound
<1>2. CASE UNCHANGED vars
  <2>1. UNCHANGED <<PENDING, STREAMING, body, id, disp, worker, calls, phase, via, wrote, last, mailbox>>
    BY <1>2, Zenon DEF vars, tables, dispatched, hosted
  <2> QED
    BY <1>1, <2>1 DEF Orderly, Counted, Kept, Chunked, Writes, Sent
<1>3. CASE Mailbox
  BY <1>1, <1>3, MailboxOrderly, Zenon DEF Mailbox, dispatched, hosted
<1>4. CASE \/ StopServer
           \/ \E r \in Reqs : Reply(r) \/ DispatchRefused(r) \/ ConnectionLost(r)
  <2>1. UNCHANGED last /\ (worker' = "up" => worker = "up")
    BY <1>4, Zenon DEF StopServer, Reply, DispatchRefused, ConnectionLost, hosted
  <2> QED
    BY <1>1, <1>4, <2>1, WorkerOrderly, Zenon
<1>5. ASSUME NEW r \in Reqs, Dispatch(r)
      PROVE  (\A q \in Reqs : Orderly(q)') /\ (worker' = "up" => last'.status = "OK")
  <2>1. UNCHANGED last /\ worker' = worker
    BY <1>5, Zenon DEF Dispatch, hosted
  <2> QED
    BY <1>1, <1>5, <2>1, DispatchOrderly, Zenon
<1>6. ASSUME NEW op \in Ops, NEW r \in Reqs, NEW from \in Threads, CallHost(op, r, from)
      PROVE  (\A q \in Reqs : Orderly(q)') /\ (worker' = "up" => last'.status = "OK")
  BY <1>1, <1>6, CallOthers, CallOwn, Zenon
<1> QED
  BY <1>2, <1>3, <1>4, <1>5, <1>6, Zenon DEF Next, Work

LEMMA ResponderInit == Init => ResponderInv
<1> SUFFICES ASSUME Init PROVE ResponderInv
  BY Zenon
<1>1. 1 \in Ids /\ 1 \in Nat
  BY ResponderAssumption DEF Ids
<1>2. <<>> \in Seq(Commands) /\ <<>> \in Seq(Chunks) /\ Len(<<>>) = 0
  OBVIOUS
<1>3. TypeOK
  <2>1. TablesOK
    BY <1>2, Zenon DEF Init, TablesOK
  <2>2. DispatchOK
    BY <1>1, Zenon DEF Init, DispatchOK
  <2>3. HostOK
    BY <1>2, Zenon DEF Init, HostOK, NoCall, Statuses
  <2> QED
    BY <1>2, <2>1, <2>2, <2>3, TypeParts, Zenon DEF Init
<1>4. Numbered
  BY <1>1, ResponderConstants, ResponderAssumption DEF Init, Numbered, Reqs
<1>5. Addressed
  BY <1>2 DEF Init, Addressed
<1>6. \A r \in Reqs : Orderly(r)
  BY <1>2 DEF Init, Orderly, Counted, Ordinal
<1> QED
  BY <1>3, <1>4, <1>5, <1>6, Zenon DEF Init, ResponderInv, NoCall

LEMMA ResponderStep ==
  ASSUME MaxReq <= Locals, ResponderInv, [Next]_vars
  PROVE  ResponderInv'
<1>1. Sound' /\ Addressed'
  BY SoundStep, AddressedStep, Zenon DEF ResponderInv, Sound
<1>2. host' = host
  <2>1. CASE UNCHANGED vars
    BY <2>1, Zenon DEF vars, hosted
  <2>2. CASE Mailbox \/ StopServer
    BY <2>2, Zenon DEF Mailbox, StopServer, hosted
  <2>3. ASSUME NEW r \in Reqs, Reply(r) \/ Dispatch(r) \/ DispatchRefused(r) \/ ConnectionLost(r)
        PROVE  host' = host
    BY <2>3, Zenon DEF Reply, Dispatch, DispatchRefused, ConnectionLost, hosted
  <2>4. ASSUME NEW op \in Ops, NEW r \in Reqs, NEW from \in Threads, CallHost(op, r, from)
        PROVE  host' = host
    BY <2>4, Zenon DEF CallHost, Called
  <2> QED
    BY <2>1, <2>2, <2>3, <2>4, Zenon DEF Next, Work
<1> QED
  BY <1>1, <1>2, OrderStep, Zenon DEF ResponderInv, Sound

(* What is in order has arrived, or is on its way. *)
LEMMA OrderedArrives ==
  ASSUME TypeOK, NEW r \in Reqs, Orderly(r)
  PROVE  /\ IsPrefix(body[r], wrote[r])
         /\ worker = "up" /\ disp[r] # "gone" /\ ~OnItsWay(r) => body[r] = wrote[r]
<1>1. /\ body[r] \in Seq(Chunks) /\ wrote[r] \in Seq(Chunks) /\ mailbox \in Seq(Commands)
  BY Zenon DEF TypeOK
<1>2. /\ Len(body[r]) \in Nat /\ Len(wrote[r]) \in Nat /\ DOMAIN mailbox = 1 .. Len(mailbox)
  BY <1>1, LenProperties, Zenon
<1>3. /\ Ordinal(body[r]) /\ Ordinal(wrote[r]) /\ Len(body[r]) <= Len(wrote[r])
  BY Zenon DEF Orderly, Counted
<1>4. IsPrefix(body[r], wrote[r])
  <2>1. ASSUME NEW k \in 1 .. Len(body[r]) PROVE body[r][k] = wrote[r][k]
    <3>1. k \in 1 .. Len(wrote[r])
      BY <1>2, <1>3
    <3> QED
      BY <1>3, <3>1, Zenon DEF Ordinal
  <2> QED
    BY <1>3, <2>1, Zenon DEF IsPrefix
<1>5. ASSUME worker = "up", disp[r] # "gone", ~OnItsWay(r)
      PROVE  Len(body[r]) = Len(wrote[r])
  <2>1. CASE id[r] = 0
    BY <1>2, <1>3, <1>5, <2>1 DEF Orderly, Counted
  <2>2. CASE id[r] # 0
    <3>1. Writes(r) = {}
      BY <1>2, <1>5, Zenon DEF OnItsWay, Sent, Writes
    <3>2. Chunked(r)
      BY <1>5, <2>2, Zenon DEF Orderly
    <3>3. \A v \in Len(body[r]) + 2 .. Len(wrote[r]) + 1 : FALSE
      BY <3>1, <3>2, Zenon DEF Chunked
    <3>4. ~(Len(body[r]) < Len(wrote[r]))
      BY <1>2, <3>3
    <3> QED
      BY <1>2, <1>3, <3>4
  <2> QED
    BY <2>1, <2>2, Zenon
<1>6. ASSUME Len(body[r]) = Len(wrote[r])
      PROVE  body[r] = wrote[r]
  <2>1. \A k \in 1 .. Len(body[r]) : body[r][k] = wrote[r][k]
    BY <1>3, <1>6, Zenon DEF Ordinal
  <2> QED
    BY <1>1, <1>6, <2>1, SeqEqual, Zenon
<1> QED
  BY <1>4, <1>5, <1>6, Zenon

(* ChunksArrive: what the host was told is OK happens.  The chunks whose     *)
(* geario_http_response_write returned OK are in the body in order, or in    *)
(* the mailbox behind those before them, and a host that keeps to the        *)
(* documented order is not refused while the server runs, for any number of  *)
(* requests and of calls, as long as NEXT_LOCAL does not come round to       *)
(* a number in use.                                                          *)
THEOREM ChunksDoArrive == MaxReq <= Locals => (Spec => []ChunksArrive)
<1> SUFFICES ASSUME MaxReq <= Locals PROVE Spec => []ChunksArrive
  BY Zenon
<1>1. Init => ResponderInv
  BY ResponderInit, Zenon
<1>2. ResponderInv /\ [Next]_vars => ResponderInv'
  BY ResponderStep, Zenon
<1>3. ResponderInv => ChunksArrive
  BY OrderedArrives, Zenon DEF ResponderInv, ChunksArrive
<1> QED
  BY <1>1, <1>2, <1>3, PTL DEF Spec

=============================================================================
