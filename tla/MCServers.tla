------------------------------ MODULE MCServers ------------------------------
(* The servers, one at a time: the two of the C interface, and an HTTP        *)
(* service of the crate that is being shut down.                              *)
EXTENDS Responder, NativeServer, ServiceShutdown

VARIABLE kind  \* "hyper": geario_http_server_start, "native": _native_h1_start, "service"

(* An orderly host begins, writes twice and finishes; any other makes two   *)
(* calls for each request.                                                  *)
MCMaxCalls == [ordered |-> 4, free |-> 2]

MCInit ==
    /\ Init /\ NativeInit /\ SvcInit /\ kind \in {"hyper", "native", "service"}
    /\ kind # "hyper" => host = "free"
Hyper(A) == kind = "hyper" /\ A /\ UNCHANGED <<nvars, svcvars, kind>>
Native(A) == kind = "native" /\ A /\ UNCHANGED <<vars, svcvars, kind>>
Svc(A) == kind = "service" /\ A /\ UNCHANGED <<vars, nvars, kind>>
MCNext == Hyper(Next) \/ Native(NativeNext) \/ Svc(SvcNext)

(* Fairness as in LiveSpec and SvcLiveSpec; the native server's threads and  *)
(* tasks run.                                                                *)
MCSpec ==
    /\ MCInit /\ [][MCNext]_<<vars, nvars, svcvars, kind>>
    /\ WF_vars(Hyper(Mailbox)) /\ \A r \in Reqs : WF_vars(Hyper(Reply(r)))
    /\ WF_nvars(Native(NativeRuns))
    /\ WF_svcvars(Svc(ShutdownDone)) /\ \A c \in Conns : WF_svcvars(Svc(Run(c)))

(* Every call of a host into either server of the C interface comes to its   *)
(* end, and geario_http_native_h1_stop returns (Responder, NativeServer).    *)
CallsSettle == Settles /\ NativeSettles
=============================================================================
