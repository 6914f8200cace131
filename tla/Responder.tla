----------------------------- MODULE Responder -----------------------------
(***************************************************************************)
(* Responders of the C interface's server (geario-http-ffi/src/            *)
(* responder.rs and the handlers of server.rs), for one worker.            *)
(*                                                                         *)
(* A request waits in dispatch for its reply.  The host answers through    *)
(* geario_http_respond, or _begin, _write and _finish, on the worker       *)
(* ("local") or on any other thread ("foreign"); foreign calls go through  *)
(* the worker's mailbox.                                                   *)
(***************************************************************************)
EXTENDS Naturals, Sequences, FiniteSets

CONSTANTS MaxReq,    \* bound: requests the worker dispatches
          MaxCalls,  \* bound: calls of the host for one request, by what
                     \* the host does: "ordered" (the documented order, all
                     \* calls for a responder on one kind of thread) or "free"
          Locals     \* the local part of a responder runs from 1 to Locals

Reqs == 1 .. MaxReq

ASSUME ResponderAssumption ==
    /\ MaxReq \in Nat /\ Locals \in Nat \ {0}
    /\ MaxCalls \in [{"ordered", "free"} -> Nat]

VARIABLES
    host,       \* what the host does
    next_local, \* NEXT_LOCAL
    id,         \* the responder of each request, 0 before it has one
    PENDING,    \* the request whose reply a responder stands for, or 0
    STREAMING,  \* the request whose body a responder stands for, or 0
    mailbox,    \* the commands of WORKER_COMMANDS for this worker
    worker,     \* "up" or "down"
    rx,         \* the oneshot of each request: "empty", "once", "stream",
                \* "closed" (its sender was dropped)
    disp,       \* dispatch: "none", "waiting", "answered", "gone"
    body,       \* chunks put into the body of each response
    calls,      \* calls of the host for each request
    phase,      \* what the host has done: "fresh", "streaming", "done"
    via,        \* the kind of thread it did it on
    wrote,      \* the chunks whose write returned OK
    last        \* the last call and its status

tables == <<PENDING, STREAMING, rx, body>>
dispatched == <<next_local, id, disp, worker>>
hosted == <<host, calls, phase, via, wrote, last>>
vars == <<tables, dispatched, hosted, mailbox>>

Ops == {"respond", "begin", "write", "finish"}
Threads == {"local", "foreign"}
Ids == 1 .. Locals
Statuses == {"OK", "WRONG_STATE", "INVALID_ARG"}
Chunks == 1 .. (MaxCalls["ordered"] + MaxCalls["free"] + 1)
Commands == [op : Ops, id : Ids, chunk : Chunks]
NoCall == [op |-> "none", from |-> "none", status |-> "OK", before |-> "fresh"]

TypeOK ==
    /\ host \in DOMAIN MaxCalls
    /\ next_local \in Ids
    /\ id \in [Reqs -> {0} \union Ids]
    /\ PENDING \in [Ids -> {0} \union Reqs] /\ STREAMING \in [Ids -> {0} \union Reqs]
    /\ mailbox \in Seq(Commands)
    /\ worker \in {"up", "down"}
    /\ rx \in [Reqs -> {"empty", "once", "stream", "closed"}]
    /\ disp \in [Reqs -> {"none", "waiting", "answered", "gone"}]
    /\ body \in [Reqs -> Seq(Chunks)]
    /\ calls \in [Reqs -> Nat]
    /\ phase \in [Reqs -> {"fresh", "streaming", "done"}]
    /\ via \in [Reqs -> {"any"} \union Threads]
    /\ wrote \in [Reqs -> Seq(Chunks)]
    /\ last \in [op : Ops \union {"none"}, from : Threads \union {"none"},
                 status : Statuses, before : {"fresh", "streaming", "done"}]

Init ==
    /\ host \in DOMAIN MaxCalls
    /\ next_local = 1 /\ mailbox = <<>> /\ worker = "up"
    /\ id = [r \in Reqs |-> 0] /\ disp = [r \in Reqs |-> "none"]
    /\ PENDING = [i \in Ids |-> 0] /\ STREAMING = [i \in Ids |-> 0]
    /\ rx = [r \in Reqs |-> "empty"] /\ body = [r \in Reqs |-> <<>>]
    /\ calls = [r \in Reqs |-> 0] /\ phase = [r \in Reqs |-> "fresh"]
    /\ via = [r \in Reqs |-> "any"] /\ wrote = [r \in Reqs |-> <<>>] /\ last = NoCall

-----------------------------------------------------------------------------
(* The worker. *)

(* dispatch: once the body is read, register a responder and call the      *)
(* handler.  A responder that is still pending is replaced, which drops    *)
(* the sender of the older request.                                        *)
register(r) ==
    LET i == next_local IN
    /\ next_local' = IF i = Locals THEN 1 ELSE i + 1
    /\ id' = [id EXCEPT ![r] = i]
    /\ PENDING' = [PENDING EXCEPT ![i] = r]
    /\ rx' = [q \in Reqs |-> IF q = PENDING[i] THEN "closed" ELSE rx[q]]

Dispatch(r) ==
    /\ worker = "up" /\ disp[r] = "none" /\ \A q \in 1 .. r - 1 : disp[q] # "none"
    /\ register(r)
    /\ disp' = [disp EXCEPT ![r] = "waiting"]
    /\ UNCHANGED <<STREAMING, body, worker, hosted, mailbox>>

(* read_body fails: 413 or 400, and the handler is not called. *)
DispatchRefused(r) ==
    /\ worker = "up" /\ disp[r] = "none" /\ \A q \in 1 .. r - 1 : disp[q] # "none"
    /\ disp' = [disp EXCEPT ![r] = "gone"]
    /\ UNCHANGED <<next_local, id, worker, tables, hosted, mailbox>>

(* rx.await resolves: build_response, or forget and 500. *)
Reply(r) ==
    /\ worker = "up" /\ disp[r] = "waiting" /\ rx[r] # "empty"
    /\ disp' = [disp EXCEPT ![r] = "answered"]
    /\ PENDING' = IF rx[r] = "closed" THEN [PENDING EXCEPT ![id[r]] = 0] ELSE PENDING
    /\ rx' = [q \in Reqs |-> IF rx[r] = "closed" /\ q # r /\ PENDING[id[r]] = q
                              THEN "closed" ELSE rx[q]]
    /\ UNCHANGED <<STREAMING, body, next_local, id, worker, hosted, mailbox>>

(* The connection goes away and with it dispatch, or the response body. *)
ConnectionLost(r) ==
    /\ worker = "up" /\ disp[r] \in {"waiting", "answered"}
    /\ disp' = [disp EXCEPT ![r] = "gone"]
    /\ UNCHANGED <<next_local, id, worker, tables, hosted, mailbox>>

(* deliver_local, begin_stream_local, write_chunk_local, finish_stream_local *)
Known(op, i) == IF op \in {"respond", "begin"} THEN PENDING[i] # 0 ELSE STREAMING[i] # 0

Write(i, c) ==
    LET r == STREAMING[i] IN
    body' = [body EXCEPT ![r] = IF disp[r] = "gone" THEN @ ELSE Append(@, c)]

PerformHeadless(op, i, c) ==
    \/ /\ op = "respond"
       /\ rx' = [rx EXCEPT ![PENDING[i]] = "once"]
       /\ PENDING' = [PENDING EXCEPT ![i] = 0] /\ UNCHANGED <<STREAMING, body>>
    \/ /\ op = "begin"
       /\ STREAMING' = [STREAMING EXCEPT ![i] = PENDING[i]]
       /\ PENDING' = [PENDING EXCEPT ![i] = 0] /\ UNCHANGED <<rx, body>>
    \/ op = "write" /\ Write(i, c) /\ UNCHANGED <<PENDING, STREAMING, rx>>
    \/ /\ op = "finish" /\ STREAMING' = [STREAMING EXCEPT ![i] = 0]
       /\ UNCHANGED <<PENDING, rx, body>>
Perform(op, i, c) ==
    \/ /\ op = "respond"
       /\ rx' = [rx EXCEPT ![PENDING[i]] = "once"]
       /\ PENDING' = [PENDING EXCEPT ![i] = 0] /\ UNCHANGED <<STREAMING, body>>
    \/ /\ op = "begin"
       /\ rx' = [rx EXCEPT ![PENDING[i]] = "stream"]
       /\ STREAMING' = [STREAMING EXCEPT ![i] = PENDING[i]]
       /\ PENDING' = [PENDING EXCEPT ![i] = 0] /\ UNCHANGED body
    \/ op = "write" /\ Write(i, c) /\ UNCHANGED <<PENDING, STREAMING, rx>>
    \/ /\ op = "finish" /\ STREAMING' = [STREAMING EXCEPT ![i] = 0]
       /\ UNCHANGED <<PENDING, rx, body>>

(* ensure_worker_mailbox: the task that executes foreign calls. *)
MailboxLifo ==
    /\ worker = "up" /\ mailbox # <<>>
    /\ LET c == mailbox[Len(mailbox)] IN
        IF Known(c.op, c.id) THEN Perform(c.op, c.id, c.chunk) ELSE UNCHANGED tables
    /\ mailbox' = SubSeq(mailbox, 1, Len(mailbox) - 1)
    /\ UNCHANGED <<dispatched, hosted>>
Mailbox ==
    /\ worker = "up" /\ mailbox # <<>>
    /\ LET c == Head(mailbox) IN
        IF Known(c.op, c.id) THEN Perform(c.op, c.id, c.chunk) ELSE UNCHANGED tables
    /\ mailbox' = Tail(mailbox)
    /\ UNCHANGED <<dispatched, hosted>>

(* geario_http_server_stop: the worker's tasks are dropped. *)
StopServer ==
    /\ worker = "up" /\ worker' = "down"
    /\ disp' = [r \in Reqs |-> IF disp[r] = "none" THEN "none" ELSE "gone"]
    /\ mailbox' = <<>>
    /\ UNCHANGED <<tables, next_local, id, hosted>>

-----------------------------------------------------------------------------
(* The host. *)

(* responder::phase on the worker; on another thread it is always Done. *)
Streaming(i, from) == from = "local" /\ STREAMING[i] # 0

(* The documented order, and the thread it keeps to *)
InOrder(op, r) == phase[r] = (IF op \in {"respond", "begin"} THEN "fresh" ELSE "streaming")
Allowed(op, r, from) ==
    host = "ordered" => InOrder(op, r) /\ via[r] \in {"any", from}

After(op) == IF op \in {"begin", "write"} THEN "streaming" ELSE "done"

Status(op, i, from) ==
    CASE op \in {"respond", "begin"} /\ Streaming(i, from) -> "WRONG_STATE"
      [] from = "local" /\ ~Streaming(i, from) /\ ~Known(op, i) -> "INVALID_ARG"
      [] from = "foreign" /\ worker = "down" -> "INVALID_ARG"
      [] OTHER -> "OK"

Called(op, r, from, status, c) ==
    /\ calls' = [calls EXCEPT ![r] = @ + 1]
    /\ phase' = [phase EXCEPT ![r] = IF status = "OK" THEN After(op) ELSE @]
    /\ via' = [via EXCEPT ![r] = from]
    /\ wrote' = [wrote EXCEPT ![r] = IF op = "write" /\ status = "OK" THEN Append(@, c) ELSE @]
    /\ UNCHANGED host
    /\ last' = [op |-> op, from |-> from, status |-> status, before |-> phase[r]]

(* geario_http_respond, _begin, _write, _finish.  Local calls are made from *)
(* a callback or a task of the worker.                                      *)
CallHost(op, r, from) ==
    LET i == id[r]
        c == calls[r] + 1
        status == Status(op, i, from)
    IN  /\ i # 0 /\ calls[r] < MaxCalls[host] /\ Allowed(op, r, from)
        /\ from = "local" => worker = "up"
        /\ Called(op, r, from, status, c)
        /\ \/ from = "local" /\ status = "OK" /\ Perform(op, i, c) /\ UNCHANGED mailbox
           \/ /\ from = "foreign" /\ status = "OK"
              /\ mailbox' = Append(mailbox, [op |-> op, id |-> i, chunk |-> c])
              /\ UNCHANGED tables
           \/ status # "OK" /\ UNCHANGED <<mailbox, tables>>
        /\ UNCHANGED dispatched

-----------------------------------------------------------------------------
Work == Mailbox \/ \E r \in Reqs : Reply(r)

Next ==
    \/ Work \/ StopServer
    \/ \E r \in Reqs : Dispatch(r) \/ DispatchRefused(r) \/ ConnectionLost(r)
    \/ \E op \in Ops, r \in Reqs, from \in Threads : CallHost(op, r, from)

Spec == Init /\ [][Next]_vars

(* The worker runs what is ready. *)
LiveSpec == Spec /\ WF_vars(Mailbox) /\ \A r \in Reqs : WF_vars(Reply(r))

-----------------------------------------------------------------------------
(* Correctness. *)
OnItsWay(r) == \E k \in DOMAIN mailbox : mailbox[k].id = id[r]

(* What the host was told is OK happens: a chunk whose write returned OK is  *)
(* in the body, in order, or still on its way behind the chunks before it;  *)
(* nothing else is ever in a body.  And a host that keeps to the documented *)
(* order is never refused while the server runs, even if the connection has *)
(* gone away.                                                               *)
IsPrefix(s, t) == Len(s) <= Len(t) /\ \A k \in 1 .. Len(s) : s[k] = t[k]
ChunksArrive ==
    /\ TypeOK
    /\ host = "ordered" /\ worker = "up" => last.status = "OK"
    /\ host = "ordered" => \A r \in Reqs :
        /\ IsPrefix(body[r], wrote[r])
        /\ worker = "up" /\ disp[r] # "gone" /\ ~OnItsWay(r) => body[r] = wrote[r]

(* A request the host has answered or begun to answer gets its response, if  *)
(* its connection and the server live on.                                   *)
Settles ==
    \A r \in Reqs : (host = "ordered" /\ phase[r] # "fresh") \/ rx[r] = "closed"
                        ~> disp[r] \in {"answered", "gone"}

=============================================================================
