---------------------------- MODULE NativeServer ----------------------------
(***************************************************************************)
(* The native HTTP/1 server of the C interface (geario-http-ffi/src/       *)
(* native_server.rs): start and stop on a host thread, native_dispatch on  *)
(* the workers, and geario_http_native_h1_respond on any thread.           *)
(*                                                                         *)
(* A responder is the address of an Arc<NativeResponder>.  native_dispatch *)
(* keeps one reference and gives one to the C side; respond borrows the    *)
(* latter for as long as it runs.  The host answers each request at most   *)
(* once: the address is not valid after that.                              *)
(***************************************************************************)
EXTENDS Integers, FiniteSets

CONSTANT Natives  \* requests

VARIABLES
    nserver,  \* "none", "starting", "up", "stopping", "down", or "null"
    stop,     \* the stop channel: "empty", "sent"
    task,     \* native_dispatch: "none", "waiting", "answered", "dropped"
    refs,     \* strong count of each request's slot, 0 if there is none
    sender,   \* NativeResponder::sender is Some
    reply,    \* the channel for the reply: "empty", "full" or "closed"
    call,     \* respond: "none", "entered", "sending", "returned"
    status    \* what it returned

nvars == <<nserver, stop, task, refs, sender, reply, call, status>>

NativeInit ==
    /\ nserver = "none" /\ stop = "empty"
    /\ task = [r \in Natives |-> "none"] /\ refs = [r \in Natives |-> 0]
    /\ sender = [r \in Natives |-> FALSE] /\ reply = [r \in Natives |-> "empty"]
    /\ call = [r \in Natives |-> "none"] /\ status = [r \in Natives |-> "none"]

-----------------------------------------------------------------------------
(* geario_http_native_h1_start: a thread binds the address, and the host     *)
(* waits to hear whether it could.                                          *)
Spawn ==
    /\ nserver = "none" /\ nserver' = "starting"
    /\ UNCHANGED <<stop, task, refs, sender, reply, call, status>>
Ready ==
    /\ nserver = "starting" /\ nserver' \in {"up", "null"}
    /\ UNCHANGED <<stop, task, refs, sender, reply, call, status>>

(* geario_http_native_h1_stop, up to the join *)
NativeStop ==
    /\ nserver = "up" /\ nserver' = "stopping" /\ stop' = "sent"
    /\ UNCHANGED <<task, refs, sender, reply, call, status>>

(* A task that goes away while it waits takes its reference and the receiver *)
(* with it; the reference of the C side stays.                              *)
Dropped(rs) ==
    /\ task' = [r \in Natives |-> IF r \in rs THEN "dropped" ELSE task[r]]
    /\ refs' = [r \in Natives |-> IF r \in rs THEN refs[r] - 1 ELSE refs[r]]
    /\ reply' = [r \in Natives |-> IF r \in rs THEN "closed" ELSE reply[r]]
Waiting == {r \in Natives : task[r] = "waiting"}

(* The thread hears of it, server.stop(false) drops the tasks, it ends. *)
ThreadEnds ==
    /\ stop = "sent" /\ nserver = "stopping" /\ nserver' = "down"
    /\ Dropped(Waiting)
    /\ UNCHANGED <<stop, sender, call, status>>

ConnectionDrops(r) ==
    /\ nserver \in {"up", "stopping"} /\ r \in Waiting
    /\ Dropped({r})
    /\ UNCHANGED <<nserver, stop, sender, call, status>>

(* native_dispatch, up to rx.recv; or 400 if the body cannot be read *)
native_dispatch_uncloned(r) ==
    /\ nserver = "up" /\ task[r] = "none"
    /\ task' = [task EXCEPT ![r] = "waiting"]
    /\ refs' = [refs EXCEPT ![r] = 1]
    /\ sender' = [sender EXCEPT ![r] = TRUE]
    /\ UNCHANGED <<nserver, stop, reply, call, status>>
native_dispatch(r) ==
    /\ nserver = "up" /\ task[r] = "none"
    /\ task' = [task EXCEPT ![r] = "waiting"]
    /\ refs' = [refs EXCEPT ![r] = 2]
    /\ sender' = [sender EXCEPT ![r] = TRUE]
    /\ UNCHANGED <<nserver, stop, reply, call, status>>
native_refuse(r) ==
    /\ nserver = "up" /\ task[r] = "none"
    /\ task' = [task EXCEPT ![r] = "answered"]
    /\ UNCHANGED <<nserver, stop, refs, sender, reply, call, status>>

(* The reply is there: the C side's reference and the task's are dropped.    *)
(* (That every sender is gone without a reply does not happen: respond       *)
(* sends with the only one.)                                                *)
native_reply(r) ==
    /\ nserver \in {"up", "stopping"} /\ r \in Waiting /\ reply[r] = "full"
    /\ task' = [task EXCEPT ![r] = "answered"]
    /\ refs' = [refs EXCEPT ![r] = @ - 2]
    /\ UNCHANGED <<nserver, stop, sender, reply, call, status>>

-----------------------------------------------------------------------------
(* geario_http_native_h1_respond: it takes the sender out of the slot, which *)
(* is the last time it looks at the slot, and sends.                        *)
Enter(r) ==
    /\ call[r] = "none" /\ sender[r]
    /\ call' = [call EXCEPT ![r] = "entered"]
    /\ UNCHANGED <<nserver, stop, task, refs, sender, reply, status>>
TakeSender(r) ==
    /\ call[r] = "entered"
    /\ call' = [call EXCEPT ![r] = "sending"]
    /\ sender' = [sender EXCEPT ![r] = FALSE]
    /\ UNCHANGED <<nserver, stop, task, refs, reply, status>>
SendReply(r) ==
    /\ call[r] = "sending"
    /\ call' = [call EXCEPT ![r] = "returned"]
    /\ \/ /\ reply[r] = "empty" /\ reply' = [reply EXCEPT ![r] = "full"]
          /\ status' = [status EXCEPT ![r] = "OK"]
       \/ /\ reply[r] = "closed" /\ status' = [status EXCEPT ![r] = "INVALID_ARG"]
          /\ UNCHANGED reply
    /\ UNCHANGED <<nserver, stop, task, refs, sender>>

NativeRuns ==
    \/ Ready \/ ThreadEnds
    \/ \E r \in Natives : TakeSender(r) \/ SendReply(r) \/ native_reply(r)
NativeNext ==
    \/ Spawn \/ NativeStop \/ NativeRuns
    \/ \E r \in Natives :
        native_dispatch(r) \/ native_refuse(r) \/ ConnectionDrops(r) \/ Enter(r)

NativeSpec == NativeInit /\ [][NativeNext]_nvars

-----------------------------------------------------------------------------
(* A call that is about to lock a slot finds it alive: whenever the task or  *)
(* the server goes away, the reference lent to the C side is still there,    *)
(* and no reference is dropped twice.  Every slot is freed with its answer.  *)
SlotAlive ==
    \A r \in Natives :
        /\ call[r] = "entered" => refs[r] > 0
        /\ refs[r] >= 0
        /\ task[r] = "answered" => refs[r] = 0
        /\ status[r] = "INVALID_ARG" => task[r] = "dropped"

(* A request the host answers is answered or has lost its connection, and    *)
(* geario_http_native_h1_stop returns, whoever is in the middle of what.     *)
NativeSettles ==
    /\ \A r \in Natives : call[r] = "entered" ~> task[r] \in {"answered", "dropped"}
    /\ nserver = "stopping" ~> nserver = "down"
=============================================================================
