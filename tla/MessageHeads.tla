---------------------------- MODULE MessageHeads ----------------------------
(***************************************************************************)
(* The message heads of geario-http/src/message.rs.  Every request and     *)
(* response keeps its head (method, URI, headers, connection, extensions)  *)
(* in an Rc that goes back to a thread-local pool when its last Message is *)
(* dropped.  clear() does not touch all fields: each user of the pool must *)
(* write the ones that are left before anyone reads them.  The users of a  *)
(* thread are here together: the HTTP/1 server's decoder, the client, the  *)
(* WebSocket client (these three share a pool) and the server's responses. *)
(*                                                                         *)
(* A field is "default", "own" when its present user wrote it, or "left"   *)
(* when it still has what an earlier user wrote.                           *)
(***************************************************************************)
EXTENDS Naturals, Sequences, FiniteSets

CONSTANTS HeadId,   \* the heads there may be at a time
          User,     \* messages there may be at a time
          PoolMax   \* 128 in the code

ASSUME MessageHeadsAssumption == PoolMax \in Nat /\ "none" \notin HeadId

VARIABLES
    field,   \* what the fields of a head have
    pool,    \* REQUEST_POOL and RESPONSE_POOL
    msg      \* the messages: what for, at what stage, and the head

mvars == <<field, pool, msg>>

Requests == {"server", "client", "ws"}
Kind == Requests \union {"response"}
Pool(k) == IF k \in Requests THEN "request" ELSE "response"

RequestField == {"id", "uri", "method", "version", "headers", "headers_vec",
                 "extensions", "io", "flags"}
ResponseField == {"version", "status", "reason", "headers", "headers_vec",
                  "extensions", "io", "flags"}
Field == RequestField \union ResponseField

Tag == {"default", "own", "left"}
Default == [f \in Field |-> "default"]
Idle == [kind |-> "none", at |-> "idle", head |-> "none"]
Messages ==
    {Idle} \union [kind : Kind, at : {"building", "failed", "delivered"}, head : HeadId]

HeadsTypeOK ==
    /\ field \in [HeadId -> [Field -> Tag]]
    /\ pool \in [{"request", "response"} -> Seq(HeadId)]
    /\ msg \in [User -> Messages]

HeadsInit ==
    /\ field = [h \in HeadId |-> Default]
    /\ pool = [p \in {"request", "response"} |-> <<>>]
    /\ msg = [u \in User |-> Idle]

Pooled(h) == \E p \in DOMAIN pool : \E i \in DOMAIN pool[p] : pool[p][i] = h
Holders(h) == {u \in User : msg[u].head = h}
Unused(h) == ~Pooled(h) /\ Holders(h) = {}

-----------------------------------------------------------------------------
(* Head::clear of the two kinds of head *)
Cleared(p) ==
    IF p = "request"
    THEN {"io", "flags", "version", "headers", "headers_vec", "extensions"}
    ELSE {"reason", "headers", "headers_vec", "io", "flags", "extensions"}

clear(p, x) == [f \in Field |-> IF f \in Cleared(p) THEN "default" ELSE x[f]]

write(x, F) == [f \in Field |-> IF f \in F THEN "own" ELSE x[f]]

(* Whoever took the head before is not its user any more. *)
handOn(x) == [f \in Field |-> IF x[f] = "own" THEN "left" ELSE x[f]]

(* MessagePool::get_message, and the fields the caller writes at once *)
get_message(u, k, F, at) ==
    LET p == Pool(k)
    IN  /\ msg[u] = Idle
        /\ \/ /\ pool[p] # <<>>
              /\ LET h == pool[p][Len(pool[p])]
                 IN  /\ pool' = [pool EXCEPT ![p] = SubSeq(@, 1, Len(@) - 1)]
                     /\ field' = [field EXCEPT ![h] = write(clear(p, @), F)]
                     /\ msg' = [msg EXCEPT ![u] = [kind |-> k, at |-> at, head |-> h]]
           \/ /\ pool[p] = <<>>
              /\ \E h \in HeadId :
                    /\ Unused(h)
                    /\ field' = [field EXCEPT ![h] = write(Default, F)]
                    /\ msg' = [msg EXCEPT ![u] = [kind |-> k, at |-> at, head |-> h]]
              /\ UNCHANGED pool

(* The HTTP/1 decoder makes a request of the request line. *)
Decode(u) == get_message(u, "server", {"uri", "method", "version"}, "building")

(* ClientRequest::new; an invalid URI leaves the old one and is reported     *)
(* when the request is sent.                                                 *)
NewRequest(u) ==
    \/ get_message(u, "client", {"method", "uri"}, "building")
    \/ get_message(u, "client", {"method"}, "failed")

(* WsClient::connect *)
ConnectNoMethod(u) == get_message(u, "ws", {"uri", "flags", "headers"}, "building")
Connect(u) == get_message(u, "ws", {"method", "uri", "flags", "headers"}, "building")

(* Message::with_status: Response::new, with_body and ResponseBuilder::new *)
WithStatus(u) == get_message(u, "response", {"status"}, "building")

(* DerefMut for Message panics if there is another Message of this head; the *)
(* handler is then unwound, which drops its message.                         *)
Exclusive(u) == Holders(msg[u].head) = {u}

Write(u, F) == field' = [field EXCEPT ![msg[u].head] = write(@, F)] /\ UNCHANGED pool

(* What decoder, builder or handler writes before the message is used *)
Optional(k) ==
    {"headers", "flags"} \union (CASE k = "server" -> {"headers_vec"} [] k = "client" -> {"version"}
                                   [] k = "ws" -> {} [] k = "response" -> {"reason"})
Decorate(u) ==
    /\ msg[u].at \in {"building", "failed"} /\ Exclusive(u)
    /\ Write(u, Optional(msg[u].kind)) /\ UNCHANGED msg

(* The head is used: Codec::decode and the dispatcher hand the request to    *)
(* the service, send_request and WsClient::connect encode the request,       *)
(* Codec::encodev the response.                                              *)
Deliver(u) ==
    /\ msg[u].at = "building" /\ Exclusive(u)
    /\ Write(u, CASE msg[u].kind = "server" -> {"id", "io"}
                  [] msg[u].kind \in {"client", "response"} -> {"version"}
                  [] msg[u].kind = "ws" -> {})
    /\ msg' = [msg EXCEPT ![u].at = "delivered"]

(* extensions_mut needs no exclusive access. *)
Extend(u) ==
    /\ msg[u] # Idle /\ Write(u, {"extensions"}) /\ UNCHANGED msg

(* Response::take clones the Message: two of them have the same head. *)
Share(u, w) ==
    /\ msg[u].kind = "response" /\ msg[u].at = "building" /\ msg[w] = Idle
    /\ msg' = [msg EXCEPT ![w] = msg[u]] /\ UNCHANGED <<field, pool>>

(* Drop for Message *)
DropSharedMessage(u) ==
    LET h == msg[u].head
        p == Pool(msg[u].kind)
    IN  /\ msg[u] # Idle
        /\ msg' = [msg EXCEPT ![u] = Idle]
        /\ \/ /\ Len(pool[p]) < PoolMax
              /\ field' = [field EXCEPT ![h] = handOn(clear(p, @))]
              /\ pool' = [pool EXCEPT ![p] = Append(@, h)]
           \/ /\ Len(pool[p]) >= PoolMax
              /\ field' = [field EXCEPT ![h] = Default] /\ UNCHANGED pool
DropMessage(u) ==
    LET h == msg[u].head
        p == Pool(msg[u].kind)
    IN  /\ msg[u] # Idle
        /\ msg' = [msg EXCEPT ![u] = Idle]
        /\ \/ /\ Exclusive(u) /\ Len(pool[p]) < PoolMax
              /\ field' = [field EXCEPT ![h] = handOn(clear(p, @))]
              /\ pool' = [pool EXCEPT ![p] = Append(@, h)]
           \/ /\ Exclusive(u) /\ Len(pool[p]) >= PoolMax
              /\ field' = [field EXCEPT ![h] = Default] /\ UNCHANGED pool
           \/ ~Exclusive(u) /\ UNCHANGED <<field, pool>>

HeadsNext ==
    \/ \E u \in User :
        \/ Decode(u) \/ NewRequest(u) \/ Connect(u) \/ WithStatus(u)
        \/ Decorate(u) \/ Deliver(u) \/ Extend(u) \/ DropMessage(u)
    \/ \E u, w \in User : Share(u, w)

HeadsSpec == HeadsInit /\ [][HeadsNext]_mvars

-----------------------------------------------------------------------------
(* What is read of a delivered head: a client's request has no id. *)
Read(k) ==
    CASE k = "server" -> RequestField
      [] k \in {"client", "ws"} -> RequestField \ {"id"}
      [] k = "response" -> ResponseField

(* A message that is handed to a service or put on the wire has nothing an   *)
(* earlier message left in its recycled head, whatever that message was: the *)
(* fields clear() does not reset are written by each user of the pool.       *)
NoLeftovers ==
    /\ HeadsTypeOK
    /\ \A u \in User : msg[u].at = "delivered" =>
        \A f \in Read(msg[u].kind) : field[msg[u].head][f] # "left"

(* A head is in a pool at most once and only when no message has it, so two  *)
(* messages never come to share a head through the pool; and what waits in   *)
(* the pool holds no connection, header or extension of the last message.    *)
PoolUnshared ==
    /\ \A p, q \in DOMAIN pool : \A i \in DOMAIN pool[p], j \in DOMAIN pool[q] :
            pool[p][i] = pool[q][j] => p = q /\ i = j
    /\ \A p \in DOMAIN pool : \A i \in DOMAIN pool[p] :
            /\ Holders(pool[p][i]) = {}
            /\ \A f \in Cleared(p) : field[pool[p][i]][f] = "default"
    /\ \A u, w \in User : msg[u].head = msg[w].head /\ msg[u] # Idle /\ u # w =>
            msg[u].kind = "response" /\ msg[w].kind = "response"
=============================================================================
