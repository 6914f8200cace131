--------------------------- MODULE ConnectionPool ---------------------------
(***************************************************************************)
(* The connection pool of the native client (geario-http/src/client/       *)
(* pool.rs).  Everything runs on one thread: a client call, the completion *)
(* of a connect task, the release of a lease and one pass of the support   *)
(* task are each atomic.  The pass of the support task over the waiters is *)
(* split into one step per waiter (task = "scan"); no other step is taken  *)
(* in between.                                                             *)
(*                                                                         *)
(* A member of Calls is one invocation of ConnectionPool::call; its stat   *)
(* also stands for the receiving end of the oneshot it waits on: dropping  *)
(* the call future makes it "canceled".                                    *)
(***************************************************************************)
EXTENDS Naturals, Sequences, FiniteSets

CONSTANTS Calls,   \* invocations of the pool service
          Keys,    \* authorities
          Conns,   \* identities of transports
          NoConn,  \* not a transport
          NoKey,   \* not an authority
          Limit    \* ClientConfig::limit, 0 for no limit

ASSUME PoolAssumption ==
    /\ Limit \in Nat
    /\ IsFiniteSet(Calls) /\ IsFiniteSet(Keys)
    /\ NoConn \notin Conns /\ NoKey \notin Keys

VARIABLES
    pool,        \* "up", "shut" after shutdown(), "dropped" after Drop
    acquired,    \* Inner::acquired
    available,   \* Inner::available, newest connection last
    connecting,  \* Inner::connecting
    waker,       \* Inner::waker holds a value
    waiters,     \* Waiters::waiters, a queue of calls per key
    task,        \* the support task: "spawned", "scan", "wait" or "exited"
    todo,        \* the keys the current pass has not finished
    stat,        \* what each call is doing
    key,         \* the authority each call asked for
    lease,       \* the transport each call holds
    opening,     \* calls whose connect task is running
    quality,     \* "none" (not open), "clean" or "bad" (expired, closed, dirty)
    home         \* the authority each open transport is connected to

poolVars == <<acquired, available, connecting, waker, waiters>>
callVars == <<stat, key, lease, opening>>
connVars == <<quality, home>>
vars == <<pool, poolVars, task, todo, callVars, connVars>>

stopped == pool # "up"
Pending == {r \in Calls : stat[r] \in {"opening", "queued"}}
Leased == {r \in Calls : stat[r] = "leased"}

TypeOK ==
    /\ pool \in {"up", "shut", "dropped"}
    /\ acquired \in Nat
    /\ available \in [Keys -> Seq(Conns)]
    /\ connecting \subseteq Keys
    /\ waker \in BOOLEAN
    /\ waiters \in [Keys -> Seq(Calls)]
    /\ task \in {"spawned", "scan", "wait", "exited"}
    /\ todo \subseteq Keys
    /\ stat \in [Calls -> {"new", "opening", "queued", "leased", "done", "failed", "canceled"}]
    /\ key \in [Calls -> Keys \union {NoKey}]
    /\ lease \in [Calls -> Conns \union {NoConn}]
    /\ opening \subseteq Calls
    /\ quality \in [Conns -> {"none", "clean", "bad"}]
    /\ home \in [Conns -> Keys \union {NoKey}]

Init ==
    /\ pool = "up" /\ task = "spawned" /\ todo = {}
    /\ acquired = 0 /\ connecting = {} /\ waker = FALSE
    /\ available = [k \in Keys |-> <<>>]
    /\ waiters = [k \in Keys |-> <<>>]
    /\ stat = [r \in Calls |-> "new"]
    /\ key = [r \in Calls |-> NoKey]
    /\ lease = [r \in Calls |-> NoConn]
    /\ opening = {}
    /\ quality = [c \in Conns |-> "none"]
    /\ home = [c \in Conns |-> NoKey]

-----------------------------------------------------------------------------
(* Waiters::cleanup drops the canceled calls at the front of a queue. *)
LiveIn(q) == {i \in DOMAIN q : stat[q[i]] # "canceled"}
FirstLive(q) == {i \in LiveIn(q) : \A j \in LiveIn(q) : i <= j}
cleanup(q) ==
    IF FirstLive(q) = {} THEN <<>> ELSE SubSeq(q, CHOOSE i \in FirstLive(q) : TRUE, Len(q))

(* Inner::check_availibility, with acq leases out. *)
no_check_availibility(acq) == UNCHANGED <<waiters, waker>>
check_availibility(acq) ==
    LET w == [k \in Keys |-> cleanup(waiters[k])]
    IN  /\ waiters' = w
        /\ waker' = (waker \/ ((\E k \in Keys : w[k] # <<>>) /\ acq < Limit))

(* Inner::acquire looks at the idle connections of a key from the newest   *)
(* on, discards those it cannot use and stops at the first it can.         *)
AtLimit == Limit > 0 /\ acquired >= Limit
Usable(k) == {i \in DOMAIN available[k] : quality[available[k][i]] = "clean"}
Newest(k) == {i \in Usable(k) : \A j \in Usable(k) : j <= i}

DiscardAbove(k, n) ==
    LET gone == {available[k][j] : j \in (n + 1) .. Len(available[k])}
    IN  /\ quality' = [c \in Conns |-> IF c \in gone THEN "none" ELSE quality[c]]
        /\ home' = [c \in Conns |-> IF c \in gone THEN NoKey ELSE home[c]]

(* Acquire::Acquired: the call gets an idle connection. *)
Reuse(r, k) ==
    /\ ~AtLimit
    /\ stat' = [stat EXCEPT ![r] = "leased"]
    /\ acquired' = acquired + 1
    /\ \E n \in Newest(k) :
        /\ lease' = [lease EXCEPT ![r] = available[k][n]]
        /\ available' = [available EXCEPT ![k] = SubSeq(available[k], 1, n - 1)]
        /\ DiscardAbove(k, n)
    /\ UNCHANGED <<connecting, opening>>

(* Acquire::Available: open_connection and OpenGuard::new. *)
Open(r, k) ==
    /\ ~AtLimit /\ Usable(k) = {} /\ k \notin connecting
    /\ stat' = [stat EXCEPT ![r] = "opening"]
    /\ opening' = opening \union {r}
    /\ connecting' = connecting \union {k}
    /\ available' = [available EXCEPT ![k] = <<>>]
    /\ DiscardAbove(k, 0)
    /\ UNCHANGED <<acquired, lease>>

(* Acquire::NotAvailable: the pool is full, or a connect to k is under way. *)
Busy(k) ==
    /\ \/ /\ AtLimit
          /\ UNCHANGED <<available, connVars>>
       \/ /\ ~AtLimit /\ Usable(k) = {} /\ k \in connecting
          /\ available' = [available EXCEPT ![k] = <<>>]
          /\ DiscardAbove(k, 0)
    /\ UNCHANGED <<acquired, connecting, opening, lease>>

(* The lease of r ends: acquired is decremented and waiters are looked for. *)
GiveBackUncounted(r) ==
    /\ stat' = [stat EXCEPT ![r] = "done"]
    /\ lease' = [lease EXCEPT ![r] = NoConn]
    /\ check_availibility(acquired)
    /\ UNCHANGED acquired
GiveBack(r) ==
    /\ stat' = [stat EXCEPT ![r] = "done"]
    /\ lease' = [lease EXCEPT ![r] = NoConn]
    /\ acquired' = acquired - 1
    /\ check_availibility(acquired - 1)

-----------------------------------------------------------------------------
(* Only the support task runs while it walks the waiters. *)
Idle == task # "scan"

(* ConnectionPool::call for a request whose URI has an authority. *)
Call(r, k) ==
    /\ Idle /\ pool # "dropped" /\ stat[r] = "new"
    /\ key' = [key EXCEPT ![r] = k]
    /\ \/ (Reuse(r, k) \/ Open(r, k)) /\ UNCHANGED waiters
       \/ /\ Busy(k)
          /\ stat' = [stat EXCEPT ![r] = "queued"]
          /\ waiters' = [waiters EXCEPT ![k] = Append(@, r)]
    /\ UNCHANGED <<pool, waker, task, todo>>

(* ConnectionPool::call for a URI without an authority. *)
CallUnresolved(r) ==
    /\ Idle /\ pool # "dropped" /\ stat[r] = "new"
    /\ stat' = [stat EXCEPT ![r] = "failed"]
    /\ UNCHANGED <<pool, poolVars, task, todo, key, lease, opening, connVars>>

(* The caller drops the future of a call that has not been answered. *)
Cancel(r) ==
    /\ Idle /\ r \in Pending
    /\ stat' = [stat EXCEPT ![r] = "canceled"]
    /\ UNCHANGED <<pool, poolVars, task, todo, key, lease, opening, connVars>>

(* The connect task of open_connection ends without a connection: the      *)
(* connector failed, or the pool was stopped meanwhile.  OpenGuard::drop.  *)
OpenFailed(r) ==
    /\ Idle /\ r \in opening
    /\ stat' = [stat EXCEPT ![r] = IF @ = "canceled" THEN @ ELSE "failed"]
    /\ opening' = opening \ {r}
    /\ connecting' = connecting \ {key[r]}
    /\ check_availibility(acquired)
    /\ UNCHANGED <<pool, acquired, available, task, todo, key, lease, connVars>>

(* The new connection is sent to the caller; if the caller is gone it goes *)
(* to the idle list (Connection::release(false)).                          *)
DeliverBlindly(r, c) ==
    /\ stat' = [stat EXCEPT ![r] = "leased"]
    /\ lease' = [lease EXCEPT ![r] = c]
    /\ acquired' = acquired + 1
    /\ check_availibility(acquired + 1)
    /\ UNCHANGED available
Deliver(r, c) ==
    \/ /\ stat[r] # "canceled"
       /\ stat' = [stat EXCEPT ![r] = "leased"]
       /\ lease' = [lease EXCEPT ![r] = c]
       /\ acquired' = acquired + 1
       /\ check_availibility(acquired + 1)
       /\ UNCHANGED available
    \/ /\ stat[r] = "canceled"
       /\ available' = [available EXCEPT ![key[r]] = Append(@, c)]
       /\ check_availibility(acquired)
       /\ UNCHANGED <<stat, lease, acquired>>

(* The connect task succeeds and the pool is still in use. *)
Opened(r) ==
    /\ Idle /\ r \in opening /\ ~stopped
    /\ opening' = opening \ {r}
    /\ connecting' = connecting \ {key[r]}
    /\ \E c \in Conns :
        /\ quality[c] = "none"
        /\ quality' = [quality EXCEPT ![c] = "clean"]
        /\ home' = [home EXCEPT ![c] = key[r]]
        /\ Deliver(r, c)
    /\ UNCHANGED <<pool, task, todo, key>>

(* The holder gives the connection back: h1proto::release_connection closes *)
(* it when told to, or when it is closed or has unread data.                *)
Release(r, force) ==
    /\ Idle /\ r \in Leased
    /\ LET c == lease[r] IN
        IF force \/ quality[c] = "bad"
        THEN /\ quality' = [quality EXCEPT ![c] = "none"]
             /\ home' = [home EXCEPT ![c] = NoKey]
             /\ UNCHANGED available
        ELSE /\ available' = [available EXCEPT ![key[r]] = Append(@, c)]
             /\ UNCHANGED connVars
    /\ GiveBack(r)
    /\ UNCHANGED <<pool, connecting, task, todo, key, opening>>

(* The holder, or the call future that was just answered, is dropped with  *)
(* the connection: Acquired::drop.                                         *)
DropLease(r) ==
    /\ Idle /\ r \in Leased
    /\ quality' = [quality EXCEPT ![lease[r]] = "none"]
    /\ home' = [home EXCEPT ![lease[r]] = NoKey]
    /\ GiveBack(r)
    /\ UNCHANGED <<pool, available, connecting, task, todo, key, opening>>

(* Service::shutdown. *)
Shutdown ==
    /\ Idle /\ pool = "up"
    /\ pool' = "shut"
    /\ UNCHANGED <<poolVars, task, todo, callVars, connVars>>

(* Drop of the last ConnectionPool: no call future borrows it any more. *)
DropPool ==
    /\ Idle /\ pool # "dropped" /\ Pending = {}
    /\ pool' = "dropped"
    /\ waiters' = [k \in Keys |-> <<>>]
    /\ waker' = TRUE
    /\ UNCHANGED <<acquired, available, connecting, task, todo, callVars, connVars>>

(* An open transport expires, is closed by its peer or gets stray data. *)
Spoil(c) ==
    /\ Idle /\ quality[c] = "clean"
    /\ quality' = [quality EXCEPT ![c] = "bad"]
    /\ UNCHANGED <<pool, poolVars, task, todo, callVars, home>>

-----------------------------------------------------------------------------
(* run_connection_pool.  A pass starts when the task is first polled and   *)
(* whenever the waker fires; a stop ends the task instead.                 *)
Wake ==
    /\ \/ task = "spawned" /\ UNCHANGED waker
       \/ task = "wait" /\ waker /\ ~stopped /\ waker' = FALSE
    /\ task' = "scan"
    /\ todo' = {k \in Keys : waiters[k] # <<>>}
    /\ UNCHANGED <<pool, acquired, available, connecting, waiters, callVars, connVars>>

ExitUnneeded ==
    /\ task = "wait" /\ (stopped \/ \A k \in Keys : waiters[k] = <<>>)
    /\ task' = "exited"
    /\ UNCHANGED <<pool, poolVars, todo, callVars, connVars>>
Exit ==
    /\ task = "wait" /\ stopped
    /\ task' = "exited"
    /\ UNCHANGED <<pool, poolVars, todo, callVars, connVars>>

(* A waiter that cannot be served stays at the front and ends its key. *)
PutOff(k) == todo' = todo \ {k} /\ UNCHANGED waiters

(* One turn of the inner loop: the waiter at the front of one key's queue. *)
Serve(k) ==
    /\ task = "scan" /\ k \in todo /\ waiters[k] # <<>>
    /\ LET r == Head(waiters[k]) IN
        \/ /\ stat[r] = "canceled"
           /\ waiters' = [waiters EXCEPT ![k] = Tail(@)]
           /\ UNCHANGED <<todo, stat, lease, acquired, available, connecting, opening, connVars>>
        \/ /\ stat[r] # "canceled"
           /\ Reuse(r, k) \/ Open(r, k)
           /\ waiters' = [waiters EXCEPT ![k] = Tail(@)]
           /\ UNCHANGED todo
        \/ /\ stat[r] # "canceled"
           /\ Busy(k) /\ PutOff(k)
           /\ UNCHANGED stat
    /\ UNCHANGED <<pool, waker, task, key>>

NextKey(k) ==
    /\ task = "scan" /\ k \in todo /\ waiters[k] = <<>>
    /\ todo' = todo \ {k}
    /\ UNCHANGED <<pool, poolVars, task, callVars, connVars>>

EndPass ==
    /\ task = "scan" /\ todo = {}
    /\ waiters' = [k \in Keys |-> cleanup(waiters[k])]
    /\ task' = "wait"
    /\ UNCHANGED <<pool, acquired, available, connecting, waker, todo, callVars, connVars>>

Task == Wake \/ Exit \/ EndPass \/ \E k \in Keys : Serve(k) \/ NextKey(k)

Next ==
    \/ \E r \in Calls :
        \/ \E k \in Keys : Call(r, k)
        \/ CallUnresolved(r)
        \/ Cancel(r)
        \/ OpenFailed(r)
        \/ Opened(r)
        \/ \E force \in BOOLEAN : Release(r, force)
        \/ DropLease(r)
    \/ Shutdown
    \/ DropPool
    \/ \E c \in Conns : Spoil(c)
    \/ Task

Spec == Init /\ [][Next]_vars

(* The runtime polls the support task and the connect tasks (the connector *)
(* answers or times out), and holders give their leases back.              *)
Fairness ==
    /\ WF_vars(Task)
    /\ \A r \in Calls :
        /\ WF_vars(Opened(r) \/ OpenFailed(r))
        /\ WF_vars(DropLease(r) \/ \E force \in BOOLEAN : Release(r, force))

LiveSpec == Spec /\ Fairness

-----------------------------------------------------------------------------
(* Correctness. *)

(* What Inner::acquire decides by is exact: acquired is the number of       *)
(* leases that are out, each counted once and uncounted once whether it is  *)
(* released, dropped, or dropped inside a channel nobody reads, and         *)
(* connecting names the authorities open_connection runs for, once each.    *)
(* The limit is compared with the leases only, not with the connects under  *)
(* way, so it can be overshot, but by no more than one connection per       *)
(* authority that was asked for.                                            *)
Accounting ==
    /\ TypeOK
    /\ acquired = Cardinality(Leased)
    /\ connecting = {key[r] : r \in opening}
    /\ \A r, s \in opening : key[r] = key[s] => r = s
    /\ Limit > 0 =>
        acquired + Cardinality(connecting) <= Limit + Cardinality({key[r] : r \in Calls} \ {NoKey})

(* With a limit, a waiter is never left behind: while the support task      *)
(* sleeps, either it has been woken, or every lease is out, or a connect to *)
(* the waiter's authority will wake it.                                     *)
NoStrandedWaiter ==
    (Limit > 0 /\ task = "wait" /\ ~stopped) =>
        \A r \in Calls :
            stat[r] = "queued" => waker \/ acquired >= Limit \/ key[r] \in connecting

(* Every call is answered unless the pool is stopped. *)
Answered == \A r \in Calls : (r \in Pending) ~> (r \notin Pending \/ stopped)

(* What a caller sees of the state of its call *)
seen(s) ==
    CASE s = "new" -> "new"
      [] s \in {"opening", "queued"} -> "wait"
      [] s = "leased" -> "held"
      [] OTHER -> "over"

(* The pool keeps the promise of LeasePool. *)
Promise == INSTANCE LeasePool WITH
    state <- [r \in Calls |-> seen(stat[r])],
    holds <- lease
KeepsPromise == Promise!LeaseSpec
=============================================================================
