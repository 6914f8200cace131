----------------------------- MODULE FfiClient -----------------------------
(***************************************************************************)
(* The client of the C interface (geario-http-ffi/src/client/mod.rs): the  *)
(* host threads that call geario_http_client_*, the command channel, and   *)
(* the worker thread with one task per request.                            *)
(*                                                                         *)
(* On the worker a step runs from one await to the next.  Callbacks into   *)
(* the host run inside such a step, and the host's other threads run on    *)
(* meanwhile: a callback whose return matters (on_chunk that is going to   *)
(* pause, on_done) is a stage of its own, and while a request is in one    *)
(* the worker does nothing else.                                           *)
(***************************************************************************)
EXTENDS Integers, Sequences, FiniteSets

CONSTANTS MaxJobs,       \* bound: requests accepted
          MaxBad,       \* bound: requests refused for their arguments
          MaxChan,      \* bound: commands in the channel
          MaxInflight,  \* GearioHttpClientOptions::max_inflight_requests
          MaxRetries,   \* GearioHttpClientOptions::max_retries
          Idempotent    \* the requests whose method is idempotent

Jobs == 1 .. MaxJobs

ASSUME ClientAssumption ==
    /\ MaxJobs \in Nat /\ MaxBad \in Nat /\ MaxChan \in Nat
    /\ MaxInflight \in Nat \ {0} /\ MaxRetries \in Nat
    /\ Idempotent \subseteq Jobs

VARIABLES
    closed,     \* GearioHttpClient::closed, and with it the channel
    next_id,    \* GearioHttpClient::next_id
    chan,       \* the command channel
    inflight,   \* Counters::inflight
    paused,     \* Counters::paused
    client_worker,     \* the worker thread: "up" or "down"
    stage,      \* what the task of each request is doing
    failed,     \* run_job: attempts that have failed
    PAUSED,     \* requests with a sender in PAUSED
    resumed,    \* requests whose pause was ended by that sender
    CANCELLED,
    wire,       \* how often the request was handed to a connection
    asked,      \* the host has asked for the current pause to end
    bad         \* requests refused for their arguments

hostside == <<closed, next_id, asked, bad>>
job == <<stage, failed, wire>>
pauses == <<paused, PAUSED, resumed, CANCELLED>>
cvars == <<hostside, job, pauses, chan, inflight, client_worker>>

Callback == {"pausing", "reported"}
Running == {"start", "checkout", "sending", "body", "paused"} \union Callback
Live == {"queued"} \union Running
Stages == {"none", "gone"} \union Live

ClientCommands == [t : {"Send", "Cancel", "Resume", "Shutdown"}, id : 0 .. MaxJobs]
Cmd(t, id) == [t |-> t, id |-> id]

ClientTypeOK ==
    /\ closed \in BOOLEAN
    /\ next_id \in 1 .. MaxJobs + 1
    /\ chan \in Seq(ClientCommands)
    /\ inflight \in 0 .. MaxJobs + MaxBad
    /\ paused \in 0 .. MaxJobs
    /\ client_worker \in {"up", "down"}
    /\ stage \in [Jobs -> Stages]
    /\ failed \in [Jobs -> 0 .. MaxRetries + 1]
    /\ wire \in [Jobs -> 0 .. MaxRetries + 1]
    /\ PAUSED \subseteq Jobs /\ resumed \subseteq Jobs /\ CANCELLED \subseteq Jobs
    /\ asked \subseteq Jobs
    /\ bad \in 0 .. MaxBad

ClientInit ==
    /\ closed = FALSE /\ next_id = 1 /\ asked = {} /\ bad = 0
    /\ chan = <<>> /\ inflight = 0 /\ client_worker = "up"
    /\ stage = [id \in Jobs |-> "none"]
    /\ failed = [id \in Jobs |-> 0] /\ wire = [id \in Jobs |-> 0]
    /\ paused = 0 /\ PAUSED = {} /\ resumed = {} /\ CANCELLED = {}

-----------------------------------------------------------------------------
(* The host. *)
Push(c) == Len(chan) < MaxChan /\ chan' = Append(chan, c)

(* geario_http_client_send claims the slot before it looks at the request. *)
(* (try_send cannot fail: the channel is closed only together with the     *)
(* client.)                                                                *)
Send ==
    /\ ~closed /\ inflight < MaxInflight /\ next_id <= MaxJobs
    /\ inflight' = inflight + 1
    /\ Push(Cmd("Send", next_id))
    /\ next_id' = next_id + 1
    /\ stage' = [stage EXCEPT ![next_id] = "queued"]
    /\ UNCHANGED <<closed, asked, bad, failed, wire, pauses, client_worker>>

(* The header does not validate, or the url is empty. *)
SendInvalid ==
    /\ ~closed /\ inflight < MaxInflight /\ bad < MaxBad
    /\ inflight' = inflight + 1 /\ bad' = bad + 1
    /\ UNCHANGED <<closed, next_id, asked, job, pauses, chan, client_worker>>

(* The host resumes what it has paused, at the earliest from another       *)
(* thread while on_chunk has not returned yet; it cancels at any time.     *)
Resume(id) ==
    /\ ~closed /\ stage[id] \in {"pausing", "paused"} /\ id \notin asked
    /\ Push(Cmd("Resume", id))
    /\ asked' = asked \union {id}
    /\ UNCHANGED <<closed, next_id, bad, job, pauses, inflight, client_worker>>

Cancel(id) ==
    /\ ~closed /\ id < next_id
    /\ Push(Cmd("Cancel", id))
    /\ UNCHANGED <<hostside, job, pauses, inflight, client_worker>>

Close ==
    /\ ~closed /\ closed' = TRUE
    /\ chan' = Append(chan, Cmd("Shutdown", 0))
    /\ UNCHANGED <<next_id, asked, bad, job, pauses, inflight, client_worker>>

-----------------------------------------------------------------------------
(* The command loop of the worker. *)
Free == client_worker = "up" /\ \A id \in Jobs : stage[id] \notin Callback

(* Removing the sender from PAUSED and using it *)
Wake(id) == PAUSED' = PAUSED \ {id} /\ resumed' = resumed \union (PAUSED \cap {id})

(* The runtime ends and drops every task: the guards release their slots.  *)
Abandon ==
    /\ client_worker' = "down"
    /\ inflight' = inflight - Cardinality({id \in Jobs : stage[id] \in Running})
    /\ stage' = [id \in Jobs |-> IF stage[id] \in Running THEN "gone" ELSE stage[id]]
    /\ UNCHANGED <<failed, wire, pauses>>

Execute(c) ==
    /\ c.t = "Cancel" => /\ CANCELLED' = CANCELLED \union {c.id} /\ Wake(c.id)
                         /\ UNCHANGED <<job, paused, inflight, client_worker>>
    /\ c.t = "Resume" => Wake(c.id) /\ UNCHANGED <<job, paused, CANCELLED, inflight, client_worker>>
    /\ c.t = "Send" => /\ stage' = [stage EXCEPT ![c.id] = "start"]
                       /\ UNCHANGED <<failed, wire, pauses, inflight, client_worker>>
    /\ c.t = "Shutdown" => Abandon

CommandLoopThreaded ==
    /\ client_worker = "up" /\ chan # <<>>
    /\ chan' = Tail(chan)
    /\ Execute(Head(chan))
    /\ UNCHANGED hostside
CommandLoop ==
    /\ Free /\ chan # <<>>
    /\ chan' = Tail(chan)
    /\ Execute(Head(chan))
    /\ UNCHANGED hostside

-----------------------------------------------------------------------------
(* run_job and deliver. *)
Go(id, s) == stage' = [stage EXCEPT ![id] = s]
At(id, s) == Free /\ stage[id] = s
Rest == <<hostside, chan, client_worker>>

(* report: on_done is running. *)
Report(id) == Go(id, "reported")

(* on_done has returned and InflightGuard is dropped. *)
ReleaseLate(id) ==
    /\ client_worker = "up" /\ stage[id] = "reported"
    /\ Go(id, "gone")
    /\ UNCHANGED <<Rest, inflight, failed, wire, pauses>>
Release(id) ==
    /\ client_worker = "up" /\ stage[id] = "reported"
    /\ Go(id, "gone") /\ inflight' = inflight - 1
    /\ UNCHANGED <<Rest, failed, wire, pauses>>

(* The url and the method are checked. *)
Start(id) ==
    /\ At(id, "start")
    /\ Go(id, "checkout") \/ Report(id)
    /\ UNCHANGED <<Rest, failed, wire, pauses, inflight>>

attempts(id) == IF id \in Idempotent THEN MaxRetries + 1 ELSE 1

(* The attempt has failed: the next one, or the last error. *)
TryAgain(id) ==
    /\ failed' = [failed EXCEPT ![id] = @ + 1]
    /\ Go(id, IF failed[id] + 1 < attempts(id) THEN "checkout" ELSE "reported")

(* Pool::checkout gives a lease, whose sender takes the request, or fails. *)
(* A request hyper cannot build is reported at once.                       *)
Checkout(id) ==
    /\ At(id, "checkout")
    /\ \/ Go(id, "sending") /\ wire' = [wire EXCEPT ![id] = @ + 1] /\ UNCHANGED failed
       \/ TryAgain(id) /\ UNCHANGED wire
       \/ Report(id) /\ UNCHANGED <<wire, failed>>
    /\ UNCHANGED <<Rest, pauses, inflight>>

(* The response head, and what on_headers says to it *)
Headers(id) ==
    /\ At(id, "sending")
    /\ Go(id, "body") \/ Report(id)
    /\ UNCHANGED <<Rest, failed, wire, pauses, inflight>>

(* The connection fails before a response: only an idempotent method is    *)
(* tried again.                                                            *)
SendFailedReplay(id) ==
    /\ At(id, "sending")
    /\ failed' = [failed EXCEPT ![id] = @ + 1]
    /\ Go(id, IF failed[id] < MaxRetries THEN "checkout" ELSE "reported")
    /\ UNCHANGED <<Rest, wire, pauses, inflight>>
SendFailed(id) ==
    /\ At(id, "sending")
    /\ \/ id \in Idempotent /\ TryAgain(id)
       \/ id \notin Idempotent /\ Report(id) /\ UNCHANGED failed
    /\ UNCHANGED <<Rest, wire, pauses, inflight>>

SendTimeout(id) ==
    /\ At(id, "sending") /\ Report(id)
    /\ UNCHANGED <<Rest, failed, wire, pauses, inflight>>

(* The next frame: a chunk on_chunk cancels or pauses at (a chunk it lets  *)
(* pass changes nothing), the end of the body, or an error.                *)
Frame(id) ==
    /\ At(id, "body")
    /\ Go(id, "pausing") \/ Report(id)
    /\ UNCHANGED <<Rest, failed, wire, pauses, inflight>>

(* on_chunk has returned PAUSE. *)
Pause(id) ==
    /\ client_worker = "up" /\ stage[id] = "pausing"
    /\ Go(id, "paused")
    /\ paused' = paused + 1 /\ PAUSED' = PAUSED \union {id}
    /\ UNCHANGED <<Rest, failed, wire, resumed, CANCELLED, inflight>>

(* rx.await is over: CANCELLED is looked at here and nowhere else. *)
EndPauseRepeats(id) ==
    /\ At(id, "paused") /\ id \in resumed
    /\ paused' = paused - 1 /\ resumed' = resumed \ {id} /\ asked' = asked \ {id}
    /\ CANCELLED' = CANCELLED \ {id}
    /\ IF id \in CANCELLED THEN Report(id) ELSE Go(id, "pausing")
    /\ UNCHANGED <<closed, next_id, bad, chan, client_worker, failed, wire, PAUSED, inflight>>
EndPause(id) ==
    /\ At(id, "paused") /\ id \in resumed
    /\ paused' = paused - 1 /\ resumed' = resumed \ {id} /\ asked' = asked \ {id}
    /\ CANCELLED' = CANCELLED \ {id}
    /\ IF id \in CANCELLED THEN Report(id) ELSE Go(id, "body")
    /\ UNCHANGED <<closed, next_id, bad, chan, client_worker, failed, wire, PAUSED, inflight>>

-----------------------------------------------------------------------------
(* What the worker does by itself, and what it needs the peer for *)
Local(id) == Start(id) \/ Release(id) \/ SendTimeout(id) \/ Pause(id) \/ EndPause(id)
Network(id) == Checkout(id) \/ Headers(id) \/ SendFailed(id) \/ Frame(id)
Host == Send \/ SendInvalid \/ Close \/ \E id \in Jobs : Resume(id) \/ Cancel(id)

ClientNext == Host \/ CommandLoop \/ \E id \in Jobs : Local(id) \/ Network(id)

ClientSpec == ClientInit /\ [][ClientNext]_cvars

(* The worker polls its tasks and the command loop in turn, so none is      *)
(* passed over for ever because another one is in a callback.  Checkout ends *)
(* (there is a connect timeout) and a request timeout is set.               *)
TimedSpec ==
    /\ ClientSpec
    /\ SF_cvars(CommandLoop)
    /\ \A id \in Jobs : SF_cvars(Local(id)) /\ SF_cvars(Checkout(id))

(* Moreover no peer leaves a body unfinished.  How often the host pauses is  *)
(* its own choice: a frame that is not the end is not progress.             *)
Ends(id) == At(id, "body") /\ Report(id) /\ UNCHANGED <<Rest, failed, wire, pauses, inflight>>
AnsweredSpec == TimedSpec /\ \A id \in Jobs : SF_cvars(Ends(id))

(* Moreover the host resumes what it pauses (the channel has room for it:    *)
(* MaxChan is a bound of the model).                                        *)
ClientLiveSpec == AnsweredSpec /\ \A id \in Jobs : SF_cvars(Resume(id))

-----------------------------------------------------------------------------
(* Correctness. *)
Count(S) == Cardinality({id \in Jobs : stage[id] \in S})

(* Every slot is held by a request that was accepted and has not ended, or   *)
(* was lost to a refused one; the guard releases each exactly once.         *)
SlotsAccounted == ClientTypeOK /\ (client_worker = "up" => inflight = Count(Live) + bad)

(* A request whose method is not idempotent reaches a connection once, any   *)
(* other at most once more than max_retries.                                *)
SentAtMost ==
    \A id \in Jobs : wire[id] <= MaxRetries + 1 /\ (id \notin Idempotent => wire[id] <= 1)

(* A resume is not lost, not even one the host sent before on_chunk has      *)
(* returned PAUSE: it is on its way or has taken effect.                    *)
ResumeNotLost ==
    client_worker = "up" => \A id \in asked :
        \/ id \in resumed \/ stage[id] \in {"reported", "gone"}
        \/ \E i \in DOMAIN chan : chan[i] = Cmd("Resume", id)

(* Every accepted request is reported, or the client is closed.             *)
Done(id) == stage[id] \in {"reported", "gone"}
Reported == \A id \in Jobs : (stage[id] = "queued") ~> (Done(id) \/ closed)

=============================================================================
