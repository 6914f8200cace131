------------------------------ MODULE FfiPool ------------------------------
(***************************************************************************)
(* The per-worker connection pool of the C client (geario-http-ffi/src/    *)
(* client/pool.rs), the way a connection is opened (client/connect.rs) and *)
(* what a request does with its lease (perform and deliver in              *)
(* client/mod.rs).  The tasks of one worker share the pool; each runs      *)
(* without interruption up to its next await.                              *)
(***************************************************************************)
EXTENDS Sequences, Integers

CONSTANTS Req,        \* requests that can be in flight at once
          Origin,     \* what the URLs resolve to
          TlsOrigin,  \* the origins with scheme https
          Conn,       \* connections that can be open at once
          Clients,    \* how a client may be built: [proxied, tls, require_h2]
          None

ASSUME FfiPoolAssumption == Origin # {} /\ None \notin Conn /\ None \notin Req

VARIABLES
    client,   \* how this client was built
    h2,       \* the shared HTTP/2 sender of an origin, or None
    h1_idle,  \* the idle HTTP/1 senders of an origin, newest last
    stage,    \* where the task of a request is
    origin,   \* the origin of a request
    lease,    \* the connection a request has borrowed, or None
    proto, at, st,  \* of a connection: protocol, origin, and whether hyper
                    \* says it is "ready", "busy" or "dead"
    owed      \* HTTP/1: the request whose response comes next, or None

pool == <<h2, h1_idle>>
task == <<stage, origin, lease>>
wire == <<proto, at, st, owed>>
vars == <<client, pool, task, wire>>

Connecting == {"tcp", "tunnel", "tls", "handshake"}
Stages == {"idle", "leased", "sent", "drained"} \union Connecting

TypeOK ==
    /\ client \in Clients
    /\ h2 \in [Origin -> Conn \union {None}]
    /\ h1_idle \in [Origin -> Seq(Conn)]
    /\ stage \in [Req -> Stages]
    /\ origin \in [Req -> Origin]
    /\ lease \in [Req -> Conn \union {None}]
    /\ proto \in [Conn -> {"h1", "h2"}]
    /\ at \in [Conn -> Origin]
    /\ st \in [Conn -> {"closed", "ready", "busy", "dead"}]
    /\ owed \in [Conn -> Req \union {None}]

anOrigin == CHOOSE o \in Origin : TRUE

Init ==
    /\ client \in Clients
    /\ h2 = [o \in Origin |-> None] /\ h1_idle = [o \in Origin |-> <<>>]
    /\ stage = [r \in Req |-> "idle"] /\ origin = [r \in Req |-> anOrigin]
    /\ lease = [r \in Req |-> None]
    /\ proto = [c \in Conn |-> "h1"] /\ at = [c \in Conn |-> anOrigin]
    /\ st = [c \in Conn |-> "closed"] /\ owed = [c \in Conn |-> None]

Go(r, s) == stage' = [stage EXCEPT ![r] = s]

-----------------------------------------------------------------------------
(* Pool::checkout up to its await *)

(* SendRequest::is_ready: of HTTP/1 the connection wants a request, of      *)
(* HTTP/2 it has not ended.                                                 *)
is_readyAlive(c) == st[c] # "dead"
is_ready(c) == IF proto[c] = "h2" THEN st[c] # "dead" ELSE st[c] = "ready"

(* Popping stops at the newest one that is ready; all are gone if none is. *)
usable(o) == {i \in 1 .. Len(h1_idle[o]) : is_ready(h1_idle[o][i])}
newest(o) == {i \in usable(o) : \A j \in usable(o) : j <= i}

(* A live shared HTTP/2 connection *)
shared(o) == h2[o] # None /\ is_ready(h2[o])

CheckoutPeek(r, o) ==
    /\ stage[r] = "idle"
    /\ origin' = [origin EXCEPT ![r] = o]
    /\ \/ /\ shared(o)
          /\ lease' = [lease EXCEPT ![r] = h2[o]]
          /\ Go(r, "leased") /\ UNCHANGED pool
       \/ /\ ~shared(o)
          /\ h2' = [h2 EXCEPT ![o] = None]
          /\ \/ /\ \E n \in newest(o) :
                    /\ lease' = [lease EXCEPT ![r] = h1_idle[o][n]]
                    /\ h1_idle' = [h1_idle EXCEPT ![o] = SubSeq(@, 1, n)]
                /\ Go(r, "leased")
             \/ /\ usable(o) = {}
                /\ h1_idle' = [h1_idle EXCEPT ![o] = <<>>]
                /\ Go(r, "tcp") /\ UNCHANGED lease
    /\ UNCHANGED wire
Checkout(r, o) ==
    /\ stage[r] = "idle"
    /\ origin' = [origin EXCEPT ![r] = o]
    /\ \/ /\ shared(o)
          /\ lease' = [lease EXCEPT ![r] = h2[o]]
          /\ Go(r, "leased") /\ UNCHANGED pool
       \/ /\ ~shared(o)
          /\ h2' = [h2 EXCEPT ![o] = None]
          /\ \/ /\ \E n \in newest(o) :
                    /\ lease' = [lease EXCEPT ![r] = h1_idle[o][n]]
                    /\ h1_idle' = [h1_idle EXCEPT ![o] = SubSeq(@, 1, n - 1)]
                /\ Go(r, "leased")
             \/ /\ usable(o) = {}
                /\ h1_idle' = [h1_idle EXCEPT ![o] = <<>>]
                /\ Go(r, "tcp") /\ UNCHANGED lease
    /\ UNCHANGED wire

-----------------------------------------------------------------------------
(* connect and open *)

(* Any await of open may fail, and the timeout covers them all: the request  *)
(* fails before it has a connection.                                        *)
ConnectFails(r) ==
    /\ stage[r] \in Connecting /\ Go(r, "idle")
    /\ UNCHANGED <<pool, origin, lease, wire>>

Tcp(r) ==
    /\ stage[r] = "tcp"
    /\ Go(r, CASE origin[r] \notin TlsOrigin -> "handshake"
               [] origin[r] \in TlsOrigin /\ client.proxied -> "tunnel"
               [] OTHER -> IF client.tls THEN "tls" ELSE "idle")
    /\ UNCHANGED <<pool, origin, lease, wire>>

(* tunnel and check_tunnel: the proxy accepts, or refuses (ConnectFails) *)
Tunnel(r) ==
    /\ stage[r] = "tunnel"
    /\ Go(r, IF client.tls THEN "tls" ELSE "idle")
    /\ UNCHANGED <<pool, origin, lease, wire>>

Unused(c) ==
    /\ st[c] \in {"closed", "dead"}
    /\ \A r \in Req : lease[r] # c
    /\ \A o \in Origin : h2[o] # c /\ \A i \in 1 .. Len(h1_idle[o]) : h1_idle[o][i] # c

(* The HTTP handshake on a new connection, the rest of checkout, the lease *)
Open(r, c, p) ==
    /\ Unused(c)
    /\ proto' = [proto EXCEPT ![c] = p] /\ at' = [at EXCEPT ![c] = origin[r]]
    /\ st' = [st EXCEPT ![c] = "ready"] /\ owed' = [owed EXCEPT ![c] = None]
    /\ h2' = IF p = "h2" THEN [h2 EXCEPT ![origin[r]] = c] ELSE h2
    /\ lease' = [lease EXCEPT ![r] = c]
    /\ Go(r, "leased") /\ UNCHANGED <<h1_idle, origin>>

(* ALPN decides the protocol. *)
TlsDone(r) ==
    /\ stage[r] = "tls"
    /\ \E p \in {"h1", "h2"} :
           IF client.require_h2 /\ p = "h1"
           THEN Go(r, "idle") /\ UNCHANGED <<pool, origin, lease, wire>>
           ELSE \E c \in Conn : Open(r, c, p)

HandshakeH1(r) ==
    /\ stage[r] = "handshake"
    /\ \E c \in Conn : Open(r, c, "h1")

-----------------------------------------------------------------------------
(* What perform and deliver do with the lease *)

(* Lease::checkin *)
checkin(r, s) ==
    /\ h1_idle' = IF proto[lease[r]] = "h1" /\ is_ready(lease[r])
                  THEN [h1_idle EXCEPT ![origin[r]] = Append(@, lease[r])]
                  ELSE h1_idle
    /\ lease' = [lease EXCEPT ![r] = None]
    /\ Go(r, s)
    /\ UNCHANGED <<h2, origin>>

(* perform: send_request.  An HTTP/1 connection then owes the response. *)
Send(r) ==
    /\ stage[r] = "leased" /\ st[lease[r]] # "dead"
    /\ Go(r, "sent")
    /\ IF proto[lease[r]] = "h1"
       THEN /\ owed' = [owed EXCEPT ![lease[r]] = IF @ = None THEN r ELSE @]
            /\ st' = [st EXCEPT ![lease[r]] = "busy"]
       ELSE UNCHANGED <<owed, st>>
    /\ UNCHANGED <<pool, origin, lease, proto, at>>

(* perform: the connection ended before a response, or the request timed out *)
SendFails(r) ==
    /\ \/ stage[r] = "leased" /\ st[lease[r]] = "dead"
       \/ stage[r] = "sent"
    /\ checkin(r, "idle")
    /\ UNCHANGED wire

(* deliver: cancelled by a callback, or the body failed; the lease is dropped *)
Cancelled(r) ==
    /\ stage[r] = "sent"
    /\ lease' = [lease EXCEPT ![r] = None] /\ Go(r, "idle")
    /\ UNCHANGED <<pool, origin, wire>>

(* deliver: the last frame of the body *)
BodyEnds(r) ==
    /\ stage[r] = "sent" /\ st[lease[r]] # "dead"
    /\ owed' = IF proto[lease[r]] = "h1" THEN [owed EXCEPT ![lease[r]] = None] ELSE owed
    /\ Go(r, "drained")
    /\ UNCHANGED <<pool, origin, lease, proto, at, st>>

(* deliver: checkin *)
Delivered(r) == stage[r] = "drained" /\ checkin(r, "idle") /\ UNCHANGED wire

-----------------------------------------------------------------------------
(* hyper's connection task: after a response it wants another request, or   *)
(* reads on with nobody waiting for the response, or ends.  An HTTP/1       *)
(* connection whose sender was dropped ends.                                *)
Wants(c) ==
    /\ st[c] = "busy" /\ owed[c] = None
    /\ st' = [st EXCEPT ![c] = "ready"]
    /\ UNCHANGED <<pool, task, proto, at, owed>>

Ends(c) ==
    /\ st[c] \in {"ready", "busy"}
    /\ st' = [st EXCEPT ![c] = "dead"] /\ owed' = [owed EXCEPT ![c] = None]
    /\ UNCHANGED <<pool, task, proto, at>>

Request(r) ==
    \/ \E o \in Origin : Checkout(r, o)
    \/ ConnectFails(r) \/ Tcp(r) \/ Tunnel(r) \/ TlsDone(r) \/ HandshakeH1(r)
    \/ Send(r) \/ SendFails(r) \/ Cancelled(r) \/ BodyEnds(r) \/ Delivered(r)

Next ==
    /\ \/ \E r \in Req : Request(r)
       \/ \E c \in Conn : Wants(c) \/ Ends(c)
    /\ UNCHANGED client

Spec == Init /\ [][Next]_vars

-----------------------------------------------------------------------------
(* Correctness. *)

Held(r) == lease[r] # None
Idle(o) == {h1_idle[o][i] : i \in 1 .. Len(h1_idle[o])}

(* An HTTP/1 connection serves one request at a time: it is leased once, or  *)
(* idle in one place, never both.                                           *)
H1Exclusive ==
    /\ TypeOK
    /\ \A r, q \in Req : r # q /\ Held(r) /\ lease[r] = lease[q] => proto[lease[r]] = "h2"
    /\ \A o \in Origin :
         /\ \A i, j \in 1 .. Len(h1_idle[o]) : h1_idle[o][i] = h1_idle[o][j] => i = j
         /\ \A r \in Req : lease[r] \notin Idle(o)

(* Whoever waits for a response on an HTTP/1 connection waits for its own:   *)
(* a connection given back after a timeout or a failure is not used while    *)
(* the abandoned response is still to come.  And neither a lease nor         *)
(* anything the pool keeps leads to another origin.                          *)
OwnAnswer ==
    /\ \A r \in Req : stage[r] = "sent" /\ proto[lease[r]] = "h1" /\ st[lease[r]] # "dead"
        => owed[lease[r]] = r
    /\ \A r \in Req : Held(r) => at[lease[r]] = origin[r]
    /\ \A o \in Origin : /\ h2[o] # None => at[h2[o]] = o
                         /\ \A c \in Idle(o) : at[c] = o

=============================================================================
