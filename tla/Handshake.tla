----------------------------- MODULE Handshake -----------------------------
(***************************************************************************)
(* The WebSocket opening handshake: WsClientConfig (ws/cfg.rs), WsClient   *)
(* (ws/client.rs) and the server's handshake() (ws/handshake.rs).  The     *)
(* client may be configured with headers that spoil its request, and may   *)
(* meet a geario server or any other peer, which answers what it likes, an *)
(* answer to somebody else's key included, late or not at all.             *)
(***************************************************************************)
EXTENDS Naturals

CONSTANTS Keys,     \* keys the client may draw
          NoKey     \* an answer or a configuration without one

ASSUME HandshakeAssumption == NoKey \notin Keys

VARIABLES
    ws_cfg,     \* WsClientConfig and the URI
    ws_client,  \* where connect() is, its key, and whether its frames are masked
    ws_req,     \* the request on its way
    ws_server,  \* "geario" or another, and what it did with the request
    ws_res      \* the answer on its way

wsvars == <<ws_cfg, ws_client, ws_req, ws_server, ws_res>>

Unset == "unset"
Option == [upgrade |-> {"websocket", "other"}, version |-> {"13", "12"},
           host |-> {"given"}, key |-> Keys]
Answer == [is : {TRUE}, status : {101, 200, 400}, upgrade : {"websocket", "other", Unset},
           connection : {"upgrade", "close", Unset}, accept : Keys \union {NoKey}]
NoHandshake == [is |-> FALSE]
NoAnswer == [is |-> FALSE]

WsTypeOK ==
    /\ ws_cfg.headers.upgrade \in Option.upgrade /\ ws_cfg.headers.version \in Option.version
    /\ ws_cfg.timeout \in BOOLEAN /\ ws_cfg.server_mode \in BOOLEAN
    /\ ws_client.at \in {"configuring", "invalid uri", "idle", "connecting", "waiting",
                         "connected", "failed"}
    /\ ws_client.key \in Keys \union {NoKey}
    /\ ws_server.is \in {"geario", "other"}
    /\ ws_server.did \in {"nothing", "switched", "refused"}

(* WsClientConfig::new, and the URI that WsClient::new will be given *)
WsInit ==
    /\ \E timeout, mode \in BOOLEAN, uri \in {"ok", "refused"} :
        ws_cfg = [headers |-> [upgrade |-> "websocket", version |-> "13", host |-> Unset, key |-> NoKey],
                  timeout |-> timeout, server_mode |-> mode, uri |-> uri]
    /\ ws_client = [at |-> "configuring", key |-> NoKey, masks |-> TRUE, drawn |-> {}, why |-> "none"]
    /\ ws_req = NoHandshake /\ ws_res = NoAnswer
    /\ \E is \in {"geario", "other"} : ws_server = [is |-> is, did |-> "nothing", for |-> NoKey]

-----------------------------------------------------------------------------
(* set_header, and set_origin, set_protocols and the like, replace; *)
(* set_header_if_unset does not.                                    *)
SetHeader(k, v, if_unset) ==
    /\ ws_client.at = "configuring"
    /\ ws_cfg' = IF if_unset /\ ws_cfg.headers[k] \notin {Unset, NoKey} THEN ws_cfg
                 ELSE [ws_cfg EXCEPT !.headers[k] = v]
    /\ UNCHANGED <<ws_client, ws_req, ws_server, ws_res>>

(* WsClient::new refuses a URI without host, scheme or with an unknown one. *)
NewClient ==
    /\ ws_client.at = "configuring"
    /\ ws_client' = [ws_client EXCEPT !.at = IF ws_cfg.uri = "ok" THEN "idle" ELSE "invalid uri"]
    /\ UNCHANGED <<ws_cfg, ws_req, ws_server, ws_res>>

(* connect: the configured headers, Host if there is none, and a key of its  *)
(* own in place of any other.  Each attempt has a connection of its own.     *)
ConnectWs ==
    /\ ws_client.at \in {"idle", "failed", "connected"}
    /\ \E k \in Keys \ ws_client.drawn :
        /\ ws_client' = [ws_client EXCEPT !.at = "connecting", !.key = k, !.drawn = @ \union {k}]
        /\ ws_req' = [is |-> TRUE, method |-> "GET", connection |-> "upgrade",
                      headers |-> [ws_cfg.headers EXCEPT
                          !.host = IF @ = Unset THEN "from uri" ELSE @, !.key = k]]
    /\ ws_res' = NoAnswer /\ ws_server' = [ws_server EXCEPT !.did = "nothing"]
    /\ UNCHANGED ws_cfg

Failing(why) == ws_client' = [ws_client EXCEPT !.at = "failed", !.why = why]

(* The connector opens the connection, or fails. *)
Opened ==
    /\ ws_client.at = "connecting"
    /\ \/ ws_client' = [ws_client EXCEPT !.at = "waiting"] /\ UNCHANGED ws_req
       \/ Failing("connect") /\ ws_req' = NoHandshake
    /\ UNCHANGED <<ws_cfg, ws_server, ws_res>>

(* verify_handshake, in its order *)
verify_handshake(r) ==
    CASE r.method # "GET" -> "GetMethodRequired"
      [] r.method = "GET" /\ r.headers.upgrade # "websocket" -> "NoWebsocketUpgrade"
      [] r.method = "GET" /\ r.headers.upgrade = "websocket" ->
            IF r.connection # "upgrade" THEN "NoConnectionUpgrade"
            ELSE IF r.headers.version = Unset THEN "NoVersionHeader"
            ELSE IF r.headers.version \notin {"13", "8", "7"} THEN "UnsupportedVersion"
            ELSE IF r.headers.key = NoKey THEN "BadWebsocketKey" ELSE "ok"

(* handshake_response; hash_key is one to one, and a key stands for its hash. *)
handshake_response(r) ==
    [is |-> TRUE, status |-> 101, upgrade |-> "websocket", connection |-> "upgrade",
     accept |-> r.headers.key]
(* ResponseError for HandshakeError *)
error_response ==
    [is |-> TRUE, status |-> 400, upgrade |-> Unset, connection |-> Unset, accept |-> NoKey]

Serve ==
    /\ ws_server.is = "geario" /\ ws_req.is /\ ws_client.at # "connecting"
    /\ \/ /\ verify_handshake(ws_req) = "ok" /\ ws_res' = handshake_response(ws_req)
          /\ ws_server' = [ws_server EXCEPT !.did = "switched", !.for = ws_req.headers.key]
       \/ /\ verify_handshake(ws_req) # "ok" /\ ws_res' = error_response
          /\ ws_server' = [ws_server EXCEPT !.did = "refused"]
    /\ ws_req' = NoHandshake /\ UNCHANGED <<ws_cfg, ws_client>>

(* Any other peer: whatever it answers. *)
ServeOther ==
    /\ ws_server.is = "other" /\ ws_req.is /\ ws_client.at # "connecting"
    /\ ws_res' \in Answer
    /\ ws_req' = NoHandshake /\ UNCHANGED <<ws_cfg, ws_client, ws_server>>

(* The checks of the answer, in their order *)
checkNoAccept(a, key) ==
    IF a.status # 101 THEN "InvalidResponseStatus"
    ELSE IF a.upgrade # "websocket" THEN "InvalidUpgradeHeader"
    ELSE IF a.connection = Unset THEN "MissingConnectionHeader"
    ELSE IF a.connection # "upgrade" THEN "InvalidConnectionHeader"
    ELSE IF a.accept = NoKey THEN "MissingWebSocketAcceptHeader" ELSE "ok"
check(a, key) ==
    IF a.status # 101 THEN "InvalidResponseStatus"
    ELSE IF a.upgrade # "websocket" THEN "InvalidUpgradeHeader"
    ELSE IF a.connection = Unset THEN "MissingConnectionHeader"
    ELSE IF a.connection # "upgrade" THEN "InvalidConnectionHeader"
    ELSE IF a.accept = NoKey THEN "MissingWebSocketAcceptHeader"
    ELSE IF a.accept # key THEN "InvalidChallengeResponse" ELSE "ok"

RecvAnswer ==
    /\ ws_client.at = "waiting" /\ ws_res.is
    /\ LET why == check(ws_res, ws_client.key)
       IN  IF why # "ok" THEN Failing(why)
           ELSE ws_client' = [ws_client EXCEPT !.at = "connected", !.masks = ~ws_cfg.server_mode]
    /\ UNCHANGED <<ws_cfg, ws_req, ws_server, ws_res>>

(* The timeout covers the request and its answer, not the connecting. *)
TimeoutWs ==
    /\ ws_client.at = "waiting" /\ ws_cfg.timeout /\ Failing("Timeout")
    /\ UNCHANGED <<ws_cfg, ws_req, ws_server, ws_res>>
DisconnectWs ==
    /\ ws_client.at = "waiting" /\ Failing("Disconnected") /\ ws_req' = NoHandshake
    /\ UNCHANGED <<ws_cfg, ws_server, ws_res>>

WsNext ==
    \/ \E k \in DOMAIN Option : \E v \in Option[k], if_unset \in BOOLEAN : SetHeader(k, v, if_unset)
    \/ NewClient \/ ConnectWs \/ Opened \/ Serve \/ ServeOther
    \/ RecvAnswer \/ TimeoutWs \/ DisconnectWs

WsSpec == WsInit /\ [][WsNext]_wsvars

-----------------------------------------------------------------------------
(* connect() succeeds only with an answer made for the key of this attempt,  *)
(* so never with one of another connection, and a geario server has then     *)
(* switched for this very request; such a server refuses only a client whose *)
(* Upgrade or version header was configured away, and its answer is never    *)
(* one the client turns down, unless it is a refusal.                        *)
HandshakeAgrees ==
    /\ WsTypeOK
    /\ ws_client.at = "connected" => ws_res.status = 101 /\ ws_res.accept = ws_client.key
    /\ ws_client.at = "connected" /\ ws_server.is = "geario" =>
            ws_server.did = "switched" /\ ws_server.for = ws_client.key
    /\ ws_server.did = "refused" =>
            ws_cfg.headers.upgrade # "websocket" \/ ws_cfg.headers.version # "13"
    /\ ws_server.is = "geario" /\ ws_client.at = "failed" /\ ws_server.did # "refused" =>
            ws_client.why \in {"connect", "Timeout", "Disconnected"}

(* With a timeout, connect() ends once the connection is open. *)
ConnectEnds == ws_client.at = "waiting" /\ ws_cfg.timeout ~> ws_client.at # "waiting"
=============================================================================
