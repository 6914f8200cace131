------------------------------ MODULE LeasePool ------------------------------
(***************************************************************************)
(* What a connection pool promises to its users: a call is answered at     *)
(* most once, with a connection nobody else holds, or refused; a           *)
(* connection that was handed out comes back at most once.                 *)
(***************************************************************************)
CONSTANTS Calls, Conns, NoConn

VARIABLES state, holds

leaseVars == <<state, holds>>

LeaseInit ==
    /\ state = [r \in Calls |-> "new"]
    /\ holds = [r \in Calls |-> NoConn]

Free(c) == \A r \in Calls : holds[r] # c

Ask(r) ==
    /\ state[r] = "new"
    /\ state' = [state EXCEPT ![r] = "wait"]
    /\ UNCHANGED holds

Grant(r, c) ==
    /\ state[r] \in {"new", "wait"} /\ Free(c)
    /\ state' = [state EXCEPT ![r] = "held"]
    /\ holds' = [holds EXCEPT ![r] = c]

Refuse(r) ==
    /\ state[r] \in {"new", "wait"}
    /\ state' = [state EXCEPT ![r] = "over"]
    /\ UNCHANGED holds

Return(r) ==
    /\ state[r] = "held"
    /\ state' = [state EXCEPT ![r] = "over"]
    /\ holds' = [holds EXCEPT ![r] = NoConn]

LeaseNext ==
    \E r \in Calls : Ask(r) \/ Refuse(r) \/ Return(r) \/ \E c \in Conns : Grant(r, c)

LeaseSpec == LeaseInit /\ [][LeaseNext]_leaseVars
=============================================================================
