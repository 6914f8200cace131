---------------------------- MODULE MCH1Exchange ----------------------------
(* Client and server over one connection, one of four views of it at a time:  *)
(* an exchange of messages (H1Exchange) with every head the client and the    *)
(* service can ask for, a WebSocket's opening (Handshake), the heads as they  *)
(* arrive (HeadDecoder), or the timers that watch them arrive (ReadTimer).    *)
(* In the first an upgrade is asked for with its Connection header and        *)
(* without a body.                                                            *)
EXTENDS H1Exchange, Handshake, HeadDecoder, ReadTimer

VARIABLE view

MCRequests ==
    {r \in [method : {"GET", "HEAD", "POST", "CONNECT"}, version : {10, 11}, conn : Connections,
            size : Sizes, upgrade : BOOLEAN] :
        /\ r.upgrade => r.conn = "Upgrade" /\ r.size = "none" /\ r.version = 11
        /\ r.method \in {"GET", "HEAD", "CONNECT"} => r.size = "none"}
MCResponses ==
    {r \in [status : {101, 200, 204}, size : Sizes, conn : Connections, chunked : BOOLEAN] :
        /\ r.status = 101 => r.size = "stream" /\ r.conn = "Upgrade"
        /\ r.size # "stream" => r.chunked}
MCFields == {"length 0", "length 5", "bad length", "chunked", "identity", "Close", "bad conn",
             "websocket", "h2c", "expect", "x", "bad field"}

(* Periods of two seconds, of six for a head and five for a body; a rate of   *)
(* one byte.                                                                  *)
Bounded == [k \in Kinds |-> [rate |-> 1, timeout |-> 2,
                             max_timeout |-> IF k = "HDRS" THEN 6 ELSE 5]]

MCInit ==
    /\ view \in {"exchange", "opening", "heads", "timer"}
    /\ Init /\ WsInit /\ HeadInit /\ TimerInit
    /\ view # "exchange" => ~ka
    /\ view # "opening" => ws_server.is = "geario" /\ ws_cfg.uri = "ok" /\ ws_cfg.timeout /\ ws_cfg.server_mode
    /\ view # "heads" => side = "request"
Exchanging(A) == view = "exchange" /\ A /\ UNCHANGED <<wsvars, hdvars, tvars, view>>
Opening(A) == view = "opening" /\ A /\ UNCHANGED <<vars, hdvars, tvars, view>>
Decoding(A) == view = "heads" /\ A /\ UNCHANGED <<vars, wsvars, tvars, view>>
Timing(A) == view = "timer" /\ A /\ UNCHANGED <<vars, wsvars, hdvars, view>>
MCNext == Exchanging(Next) \/ Opening(WsNext) \/ Decoding(HeadNext) \/ Timing(TimerNext)

(* The fairness of H1Exchange; and the handshake's timer fires. *)
MCSpec ==
    /\ MCInit /\ [][MCNext]_<<vars, wsvars, hdvars, tvars, view>>
    /\ WF_vars(Exchanging(ClientStep)) /\ WF_vars(Exchanging(ServerStep))
    /\ WF_vars(Exchanging(KeepAliveTimeout)) /\ WF_wsvars(Opening(TimeoutWs))

(* No exchange hangs: a request comes to a response or to an error           *)
(* (H1Exchange), and connect() with a timeout to an end (Handshake).         *)
ExchangesEnd == Completes /\ ConnectEnds
=============================================================================
