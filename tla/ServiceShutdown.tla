-------------------------- MODULE ServiceShutdown --------------------------
(***************************************************************************)
(* The life of the connections of one HTTP service and its shutdown:       *)
(* HttpService (geario-http/src/service.rs), H1Service (h1/service.rs) and *)
(* the DispatcherConfig they share with every dispatcher (config.rs).      *)
(*                                                                         *)
(* A member of Conns is one call of the service.  Each await ends a step.  *)
(* The dispatcher itself is module H1Dispatcher; here it is reduced to     *)
(* what shutdown depends on: whether it waits for a request (idle, and not *)
(* polled until something wakes it) or handles one (busy).                 *)
(***************************************************************************)
EXTENDS Naturals, FiniteSets

CONSTANTS Conns,   \* connections handed to the service
          H1Only   \* TRUE for H1Service, FALSE for HttpService

ASSUME ServiceAssumption == H1Only \in BOOLEAN /\ IsFiniteSet(Conns)

VARIABLES
    at,           \* what the call for a connection is doing
    inflight,     \* DispatcherConfigInner::inflight
    flag,         \* Flags::SHUTDOWN
    woken,        \* dispatchers notify_dispatcher has woken
    shutdown_rx,  \* DispatcherConfigInner::shutdown_rx is Some
    shutdown_tx,  \* DispatcherConfigInner::shutdown_tx is Some
    service       \* Service::shutdown: "up" (not called), "waiting", "down"

svcvars == <<at, inflight, flag, woken, shutdown_rx, shutdown_tx, service>>

Stages == {"new", "svc", "ctl", "connect", "start", "idle", "busy", "end"}

SvcTypeOK ==
    /\ at \in [Conns -> Stages]
    /\ inflight \subseteq Conns
    /\ woken \subseteq Conns
    /\ flag \in BOOLEAN /\ shutdown_rx \in BOOLEAN /\ shutdown_tx \in BOOLEAN
    /\ service \in {"up", "waiting", "down"}

SvcInit ==
    /\ at = [c \in Conns |-> "new"]
    /\ inflight = {} /\ woken = {} /\ flag = FALSE
    /\ shutdown_rx = TRUE /\ shutdown_tx = TRUE /\ service = "up"

-----------------------------------------------------------------------------
Move(c, s) == at' = [at EXCEPT ![c] = s]

(* Nothing of the configuration changes. *)
Quiet == UNCHANGED <<inflight, flag, woken, shutdown_rx, shutdown_tx, service>>

insert_io(c) == inflight' = inflight \union {c} /\ UNCHANGED <<flag, woken, shutdown_rx, shutdown_tx, service>>

(* remove_io, then notify_shutdown by the last connection *)
remove_ioUnnotified(c) ==
    /\ inflight' = inflight \ {c}
    /\ shutdown_tx' = (shutdown_tx /\ ~(flag /\ inflight = {}))
    /\ UNCHANGED <<flag, woken, shutdown_rx, service>>
remove_io(c) ==
    /\ inflight' = inflight \ {c}
    /\ shutdown_tx' = (shutdown_tx /\ ~(flag /\ inflight' = {}))
    /\ UNCHANGED <<flag, woken, shutdown_rx, service>>

(* The rest of call once handle_io has returned. *)
Finish(c) == Move(c, "end") /\ remove_io(c)

-----------------------------------------------------------------------------
(* call: the handler service is created first.  HttpService registers the  *)
(* connection before it creates the control service.                       *)
Call(c) == at[c] = "new" /\ Move(c, "svc") /\ Quiet

CreateSvc(c) ==
    /\ at[c] = "svc"
    /\ \/ Move(c, "ctl") /\ IF H1Only THEN Quiet ELSE insert_io(c)
       \/ Move(c, "end") /\ Quiet

(* A control service that cannot be created ends the call with an error;   *)
(* HttpService has registered the connection by then and leaves it there.  *)
CreateCtl(c) ==
    /\ at[c] = "ctl"
    /\ \/ Move(c, "connect") /\ IF H1Only THEN insert_io(c) ELSE Quiet
       \/ Move(c, "end") /\ Quiet

(* handle_io: Control::connect is acknowledged or fails. *)
Connect(c) ==
    /\ at[c] = "connect"
    /\ \/ Move(c, "start") /\ Quiet
       \/ Finish(c)

(* The dispatcher is polled in State::ReadRequest (poll_request, then      *)
(* poll_read_request): it stops if the service is shutting down; otherwise *)
(* it begins a request, waits for one, or the connection ends.             *)
ReadRequest(c) ==
    \/ ~flag /\ at[c] # "busy" /\ Move(c, "busy") /\ Quiet
    \/ ~flag /\ Move(c, "idle") /\ Quiet
    \/ Finish(c)

FirstPoll(c) == at[c] = "start" /\ ReadRequest(c)

(* Woken by notify_dispatcher *)
WokenPollDeaf(c) == at[c] = "idle" /\ c \in woken /\ flag /\ Move(c, "idle") /\ Quiet
WokenPoll(c) == at[c] = "idle" /\ c \in woken /\ flag /\ ReadRequest(c)

(* Woken by its peer or a timer: it may or may not come. *)
PeerPoll(c) == at[c] = "idle" /\ ReadRequest(c)

(* The request is answered (or fails) and the state machine goes on. *)
Answered(c) == at[c] = "busy" /\ ReadRequest(c)

-----------------------------------------------------------------------------
(* Service::shutdown with DispatcherConfig::shutdown and wait_shutdown.    *)
ShutdownHasty ==
    /\ service = "up"
    /\ flag' = TRUE /\ woken' = inflight
    /\ \/ Cardinality(inflight) < 2 /\ service' = "down" /\ UNCHANGED shutdown_rx
       \/ Cardinality(inflight) >= 2 /\ service' = "waiting" /\ shutdown_rx' = FALSE
    /\ UNCHANGED <<at, inflight, shutdown_tx>>
Shutdown ==
    /\ service = "up"
    /\ flag' = TRUE /\ woken' = inflight
    /\ \/ inflight = {} /\ service' = "down" /\ UNCHANGED shutdown_rx
       \/ inflight # {} /\ service' = "waiting" /\ shutdown_rx' = FALSE
    /\ UNCHANGED <<at, inflight, shutdown_tx>>

(* The receiver resolves once the sender was used. *)
ShutdownDone ==
    /\ service = "waiting" /\ ~shutdown_tx /\ service' = "down"
    /\ UNCHANGED <<at, inflight, flag, woken, shutdown_rx, shutdown_tx>>

(* The calls of the service, driven by the runtime *)
Run(c) == CreateSvc(c) \/ CreateCtl(c) \/ Connect(c) \/ FirstPoll(c) \/ WokenPoll(c) \/ Answered(c)

SvcNext ==
    \/ \E c \in Conns : Call(c) \/ Run(c) \/ PeerPoll(c)
    \/ Shutdown \/ ShutdownDone

SvcSpec == SvcInit /\ [][SvcNext]_svcvars

(* The executor polls what can run, factories and handlers finish what they *)
(* were asked.  Nothing is assumed of the peers.                            *)
Fairness == (\A c \in Conns : WF_svcvars(Run(c))) /\ WF_svcvars(ShutdownDone)

SvcLiveSpec == SvcSpec /\ Fairness

-----------------------------------------------------------------------------
(* Correctness. *)

(* While shutdown waits, someone is still going to end its wait: the last   *)
(* connection registered, or the notification that was already sent.  (A    *)
(* connection whose handler is still being created when shutdown begins may *)
(* register after the last one has left.)                                   *)
NoLostNotify == service = "waiting" => (inflight # {} \/ ~shutdown_tx)

(* Once shutdown has returned no request is being handled, and none will be: *)
(* connections that register after the count was taken are turned away by   *)
(* the flag.                                                                *)
NothingServedAfterDown == service = "down" => \A c \in Conns : at[c] # "busy"

(* A connection that handles requests is one shutdown waits for.            *)
ServedIsCounted == \A c \in Conns : at[c] \in {"start", "idle", "busy"} => c \in inflight

(* No dispatcher sleeps through a shutdown: one that waits for a request has *)
(* been woken if the service is shutting down.                              *)
NoSleeper == flag => \A c \in Conns : at[c] = "idle" => c \in woken

(* Shutdown returns once the requests it waits for are answered.            *)
ShutdownCompletes == flag ~> service = "down"
=============================================================================
