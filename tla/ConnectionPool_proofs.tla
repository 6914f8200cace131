------------------------ MODULE ConnectionPool_proofs ------------------------
(***************************************************************************)
(* The connection pool of the native client implements LeasePool, and its  *)
(* counters are exact, for any number of calls, authorities and transports *)
(* and any limit.                                                          *)
(*                                                                         *)
(* A connection is granted only while nobody has it because what is leased *)
(* or idle is open, each in one place (Owned, Stored), and what is new is  *)
(* not.  A call is answered once because it is in one queue at most, and   *)
(* not in a connect task at the same time (Queued).                        *)
(***************************************************************************)
EXTENDS ConnectionPool, FiniteSetTheorems, WellFoundedInduction, TLAPS

Held == \A r \in Calls : lease[r] # NoConn <=> stat[r] = "leased"

Keyed ==
    \A r \in Calls :
        /\ stat[r] \in {"opening", "queued", "leased", "canceled"} => key[r] \in Keys
        /\ stat[r] = "new" => key[r] = NoKey

Owned ==
    /\ \A r, s \in Calls : lease[r] # NoConn /\ lease[r] = lease[s] => r = s
    /\ \A r \in Calls : lease[r] # NoConn => quality[lease[r]] # "none"

Stored ==
    /\ \A k \in Keys : \A i \in 1 .. Len(available[k]) :
        /\ quality[available[k][i]] # "none"
        /\ \A r \in Calls : lease[r] # available[k][i]
    /\ \A k, l \in Keys : \A i \in 1 .. Len(available[k]), j \in 1 .. Len(available[l]) :
        available[k][i] = available[l][j] => k = l /\ i = j

Queued ==
    /\ \A k \in Keys : \A i \in 1 .. Len(waiters[k]) :
        /\ waiters[k][i] \notin opening /\ key[waiters[k][i]] = k
        /\ stat[waiters[k][i]] \in {"queued", "canceled"}
    /\ \A k, l \in Keys : \A i \in 1 .. Len(waiters[k]), j \in 1 .. Len(waiters[l]) :
        waiters[k][i] = waiters[l][j] => k = l /\ i = j

Connects ==
    /\ \A r \in opening : stat[r] \in {"opening", "canceled"}
    /\ connecting = {key[r] : r \in opening}
    /\ \A r, s \in opening : key[r] = key[s] => r = s

Asked == {key[r] : r \in Calls} \ {NoKey}
Counted ==
    /\ acquired = Cardinality(Leased)
    /\ Limit > 0 => acquired + Cardinality(connecting) <= Limit + Cardinality(Asked)

PoolInv == TypeOK /\ Held /\ Keyed /\ Owned /\ Stored /\ Queued /\ Connects /\ Counted

(* What a step does not touch stays as it should be. *)
LEMMA Untouched ==
  ASSUME PoolInv
  PROVE  /\ UNCHANGED <<stat, lease>> => Held'
         /\ UNCHANGED <<stat, key>> => Keyed'
         /\ UNCHANGED <<lease, quality>> => Owned'
         /\ UNCHANGED <<available, lease, quality>> => Stored'
         /\ UNCHANGED <<waiters, opening, key, stat>> => Queued'
         /\ UNCHANGED <<opening, connecting, key, stat>> => Connects'
         /\ UNCHANGED <<acquired, connecting, key, stat>> => Counted'
<1>1. UNCHANGED <<stat, lease>> => Held'
  BY Zenon DEF PoolInv, Held
<1>2. UNCHANGED <<stat, key>> => Keyed'
  BY Zenon DEF PoolInv, Keyed
<1>3. UNCHANGED <<lease, quality>> => Owned'
  BY Zenon DEF PoolInv, Owned
<1>4. UNCHANGED <<available, lease, quality>> => Stored'
  <2>1. Stored
    BY Zenon DEF PoolInv
  <2>2. QED
    BY <2>1, SMTT(30) DEF Stored
<1>5. UNCHANGED <<waiters, opening, key, stat>> => Queued'
  <2>1. Queued
    BY Zenon DEF PoolInv
  <2>2. QED
    BY <2>1, SMTT(30) DEF Queued
<1>6. UNCHANGED <<opening, connecting, key, stat>> => Connects'
  BY Zenon DEF PoolInv, Connects
<1>7. UNCHANGED <<acquired, connecting, key, stat>> => Counted'
  BY Zenon DEF PoolInv, Counted, Leased, Asked
<1>8. QED
  BY <1>1, <1>2, <1>3, <1>4, <1>5, <1>6, <1>7, Zenon

(* What is idle is open and not leased. *)
LEMMA IdleFacts ==
  ASSUME PoolInv, NEW k \in Keys, NEW i \in 1 .. Len(available[k])
  PROVE  /\ available[k][i] \in Conns /\ available[k][i] # NoConn
         /\ quality[available[k][i]] # "none" /\ \A q \in Calls : lease[q] # available[k][i]
<1>1. available[k][i] \in Conns
  BY DEF PoolInv, TypeOK
<1>2. available[k][i] # NoConn
  BY <1>1, PoolAssumption, Zenon
<1>3. quality[available[k][i]] # "none" /\ \A q \in Calls : lease[q] # available[k][i]
  BY Zenon DEF PoolInv, Stored
<1>4. QED
  BY <1>1, <1>2, <1>3, Zenon

(* Who waits is a call for the queue's key, and no connect task runs for it. *)
LEMMA WaiterFacts ==
  ASSUME PoolInv, NEW k \in Keys, NEW i \in 1 .. Len(waiters[k])
  PROVE  /\ waiters[k][i] \in Calls /\ waiters[k][i] \notin opening /\ key[waiters[k][i]] = k
         /\ stat[waiters[k][i]] \in {"queued", "canceled"}
<1>1. waiters[k][i] \in Calls
  BY DEF PoolInv, TypeOK
<1>2. /\ waiters[k][i] \notin opening /\ key[waiters[k][i]] = k
      /\ stat[waiters[k][i]] \in {"queued", "canceled"}
  BY Zenon DEF PoolInv, Queued
<1>3. QED
  BY <1>1, <1>2, Zenon

(* A call is in one place of one queue. *)
LEMMA OnePlace ==
  ASSUME PoolInv, NEW k \in Keys, NEW l \in Keys,
         NEW i \in 1 .. Len(waiters[k]), NEW j \in 1 .. Len(waiters[l])
  PROVE  waiters[k][i] = waiters[l][j] => k = l /\ i = j
<1>1. Queued
  BY Zenon DEF PoolInv
<1>2. QED
  BY <1>1, SMTT(30) DEF Queued

-----------------------------------------------------------------------------
(* How the steps of a call look to its caller *)

(* The call is asked for. *)
LEMMA SeesAsk ==
  ASSUME TypeOK, NEW r \in Calls, stat[r] = "new", NEW s \in {"opening", "queued"},
         stat' = [stat EXCEPT ![r] = s], lease' = lease
  PROVE  Promise!LeaseNext
<1>1. Promise!Ask(r)
  BY Zenon DEF Promise!Ask, TypeOK, seen
<1>2. QED
  BY <1>1, Zenon DEF Promise!LeaseNext

(* The call gets a connection nobody has. *)
LEMMA SeesGrant ==
  ASSUME TypeOK, NEW r \in Calls, stat[r] \in {"new", "opening", "queued"},
         NEW c \in Conns, \A q \in Calls : lease[q] # c,
         stat' = [stat EXCEPT ![r] = "leased"], lease' = [lease EXCEPT ![r] = c]
  PROVE  Promise!LeaseNext
<1>1. Promise!Grant(r, c)
  BY Zenon DEF Promise!Grant, Promise!Free, TypeOK, seen
<1>2. QED
  BY <1>1, Zenon DEF Promise!LeaseNext

(* The call fails or is given up. *)
LEMMA SeesRefuse ==
  ASSUME TypeOK, NEW r \in Calls, stat[r] \in {"new", "opening", "queued"},
         NEW s \in {"failed", "canceled"}, stat' = [stat EXCEPT ![r] = s], lease' = lease
  PROVE  Promise!LeaseNext
<1>1. Promise!Refuse(r)
  BY Zenon DEF Promise!Refuse, TypeOK, seen
<1>2. QED
  BY <1>1, Zenon DEF Promise!LeaseNext

(* The lease ends. *)
LEMMA SeesReturn ==
  ASSUME TypeOK, NEW r \in Calls, stat[r] = "leased",
         stat' = [stat EXCEPT ![r] = "done"], lease' = [lease EXCEPT ![r] = NoConn]
  PROVE  Promise!LeaseNext
<1>1. Promise!Return(r)
  BY Zenon DEF Promise!Return, TypeOK, seen
<1>2. QED
  BY <1>1, Zenon DEF Promise!LeaseNext

(* A call goes from the queue to its connect task, or nothing happens to it. *)
LEMMA SeesNothing ==
  ASSUME TypeOK, NEW r \in Calls, stat[r] = "queued",
         stat' = [stat EXCEPT ![r] = "opening"], lease' = lease
  PROVE  UNCHANGED Promise!leaseVars
BY Zenon DEF Promise!leaseVars, TypeOK, seen

-----------------------------------------------------------------------------
(* The queues.  All that happens to one, but for a new waiter, is that some  *)
(* of its front goes.                                                        *)
Shorter(q, w) ==
    \E m \in Nat : \A i \in 1 .. Len(w) : i + m \in 1 .. Len(q) /\ w[i] = q[i + m]

(* The fronts that go: nothing, or the first waiter *)
LEMMA ZeroOne == 0 \in Nat /\ 1 \in Nat
BY Zenon

(* A queue that stays *)
LEMMA SameShorter ==
  ASSUME NEW q \in Seq(Calls)
  PROVE  Shorter(q, q)
<1>1. \A i \in 1 .. Len(q) : i + 0 \in 1 .. Len(q) /\ q[i] = q[i + 0]
  OBVIOUS
<1>2. QED
  BY <1>1, ZeroOne, Zenon DEF Shorter

(* The first waiter is taken off its queue. *)
LEMMA TailShorter ==
  ASSUME NEW q \in Seq(Calls), q # <<>>
  PROVE  /\ Tail(q) \in Seq(Calls) /\ Shorter(q, Tail(q))
         /\ \A i \in 1 .. Len(Tail(q)) : \E j \in 1 .. Len(q) : j # 1 /\ Tail(q)[i] = q[j]
<1>1. Tail(q) \in Seq(Calls) /\ Len(Tail(q)) = Len(q) - 1
  OBVIOUS
<1>2. \A i \in 1 .. Len(Tail(q)) : i + 1 \in 1 .. Len(q) /\ i + 1 # 1 /\ Tail(q)[i] = q[i + 1]
  BY <1>1
<1>3. Shorter(q, Tail(q))
  BY <1>2, ZeroOne, Zenon DEF Shorter
<1>4. QED
  BY <1>1, <1>2, <1>3, Zenon

(* Waiters::cleanup *)
LEMMA CleanupShortens ==
  ASSUME NEW q \in Seq(Calls)
  PROVE  cleanup(q) \in Seq(Calls) /\ Shorter(q, cleanup(q))
<1>1. CASE FirstLive(q) = {}
  BY <1>1 DEF cleanup, Shorter
<1>2. CASE FirstLive(q) # {}
  <2> DEFINE n == CHOOSE i \in FirstLive(q) : TRUE
  <2>1. n \in 1 .. Len(q)
    BY <1>2 DEF FirstLive, LiveIn
  <2>2. cleanup(q) = SubSeq(q, n, Len(q))
    BY <1>2, Zenon DEF cleanup
  <2> HIDE DEF n
  <2>3. /\ SubSeq(q, n, Len(q)) \in Seq(Calls) /\ Len(SubSeq(q, n, Len(q))) = Len(q) - n + 1
        /\ \A i \in 1 .. Len(q) - n + 1 : SubSeq(q, n, Len(q))[i] = q[i + (n - 1)]
    BY <2>1
  <2>4. n - 1 \in Nat /\ \A i \in 1 .. Len(q) - n + 1 : i + (n - 1) \in 1 .. Len(q)
    BY <2>1
  <2>5. QED
    BY <2>2, <2>3, <2>4, Zenon DEF Shorter
<1>3. QED
  BY <1>1, <1>2, Zenon

(* Shorter queues are still queues of waiters, each in one place. *)
LEMMA QueuesShorten ==
  ASSUME PoolInv, \A k \in Keys : Shorter(waiters[k], waiters'[k]),
         \A k \in Keys : \A i \in 1 .. Len(waiters'[k]) :
            /\ waiters'[k][i] \notin opening' /\ key'[waiters'[k][i]] = k
            /\ stat'[waiters'[k][i]] \in {"queued", "canceled"}
  PROVE  Queued'
<1>1. ASSUME NEW k \in Keys, NEW l \in Keys,
             NEW i \in 1 .. Len(waiters'[k]), NEW j \in 1 .. Len(waiters'[l]),
             waiters'[k][i] = waiters'[l][j]
      PROVE  k = l /\ i = j
  <2>1. PICK m \in Nat : \A x \in 1 .. Len(waiters'[k]) :
            x + m \in 1 .. Len(waiters[k]) /\ waiters'[k][x] = waiters[k][x + m]
    BY Zenon DEF Shorter
  <2>2. PICK n \in Nat : \A x \in 1 .. Len(waiters'[l]) :
            x + n \in 1 .. Len(waiters[l]) /\ waiters'[l][x] = waiters[l][x + n]
    BY Zenon DEF Shorter
  <2>3. k = l
    <3>1. /\ waiters'[k][i] = waiters[k][i + m] /\ i + m \in 1 .. Len(waiters[k])
          /\ waiters'[l][j] = waiters[l][j + n] /\ j + n \in 1 .. Len(waiters[l])
      BY <2>1, <2>2, Zenon
    <3>2. waiters[k][i + m] = waiters[l][j + n] => k = l
      BY <3>1, OnePlace
    <3>3. QED
      BY <1>1, <3>1, <3>2, Zenon
  <2>4. waiters'[k][j] = waiters[k][j + m] /\ j + m \in 1 .. Len(waiters[k])
    BY <2>1, <2>3, Zenon
  <2>5. waiters'[k][i] = waiters[k][i + m] /\ i + m \in 1 .. Len(waiters[k])
    BY <2>1, Zenon
  <2>6. i + m = j + m
    BY <1>1, <2>3, <2>4, <2>5 DEF PoolInv, Queued
  <2>7. QED
    BY <2>3, <2>6
<1>2. QED
  BY <1>1, Zenon DEF Queued

(* check_availibility and the end of a pass, when calls that are not in a    *)
(* queue change                                                              *)
LEMMA CleanedQueues ==
  ASSUME PoolInv, waiters' = [k \in Keys |-> cleanup(waiters[k])], opening' \subseteq opening, key' = key,
         \A q \in Calls : stat[q] \in {"queued", "canceled"} => stat'[q] = stat[q]
  PROVE  waiters' \in [Keys -> Seq(Calls)] /\ Queued'
<1>1. \A k \in Keys : waiters[k] \in Seq(Calls)
  BY Zenon DEF PoolInv, TypeOK
<1>2. \A k \in Keys : /\ waiters'[k] \in Seq(Calls) /\ Shorter(waiters[k], waiters'[k])
                      /\ waiters'[k] = cleanup(waiters[k])
  BY <1>1, CleanupShortens, Zenon
<1>3. ASSUME NEW k \in Keys, NEW i \in 1 .. Len(waiters'[k])
      PROVE  /\ waiters'[k][i] \notin opening' /\ key'[waiters'[k][i]] = k
             /\ stat'[waiters'[k][i]] \in {"queued", "canceled"}
  <2>1. PICK j \in 1 .. Len(waiters[k]) : waiters'[k][i] = waiters[k][j]
    BY <1>2, Zenon DEF Shorter
  <2>2. waiters[k][j] \in Calls
    BY <1>1
  <2>3. QED
    BY <2>1, <2>2 DEF PoolInv, Queued
<1>4. Queued'
  BY <1>2, <1>3, QueuesShorten, Zenon
<1>5. QED
  BY <1>2, <1>4, Zenon

-----------------------------------------------------------------------------
(* The counters *)

(* Calls and authorities are finitely many. *)
LEMMA Finite ==
  ASSUME PoolInv
  PROVE  /\ IsFiniteSet(Leased) /\ IsFiniteSet(connecting) /\ IsFiniteSet(Asked)
         /\ Cardinality(Leased) \in Nat /\ Cardinality(connecting) \in Nat
         /\ Cardinality(Asked) \in Nat /\ connecting \subseteq Asked
<1>1. Leased \subseteq Calls /\ connecting \subseteq Keys /\ Asked \subseteq Keys
  BY Zenon DEF PoolInv, TypeOK, Leased, Asked
<1>2. connecting \subseteq Asked
  BY <1>1, PoolAssumption, Zenon DEF PoolInv, TypeOK, Connects, Asked
<1>3. QED
  BY <1>1, <1>2, PoolAssumption, FS_Subset, FS_CardinalityType, Zenon

(* The bound on leases and connects: either the pool is not over the limit,  *)
(* or a connect has become a lease.                                          *)
LEMMA BoundKept ==
  ASSUME PoolInv, IsFiniteSet(Asked'), connecting' \subseteq Asked', Asked \subseteq Asked',
         acquired' \in Nat,
         Limit > 0 => \/ acquired' <= Limit
                      \/ acquired' + Cardinality(connecting') <= acquired + Cardinality(connecting)
  PROVE  Limit > 0 => acquired' + Cardinality(connecting') <= Limit + Cardinality(Asked')
<1>1. IsFiniteSet(connecting')
  BY FS_Subset, Zenon
<1>2. Cardinality(connecting') <= Cardinality(Asked') /\ Cardinality(Asked) <= Cardinality(Asked')
  BY FS_Subset, Zenon
<1>3. /\ Cardinality(connecting') \in Nat /\ Cardinality(Asked') \in Nat /\ Cardinality(Asked) \in Nat
      /\ Cardinality(connecting) \in Nat /\ acquired \in Nat /\ Limit \in Nat
  BY <1>1, Finite, FS_CardinalityType, PoolAssumption, Zenon DEF PoolInv, TypeOK
<1>4. Limit > 0 => acquired + Cardinality(connecting) <= Limit + Cardinality(Asked)
  BY Zenon DEF PoolInv, Counted
<1>5. QED
  BY <1>2, <1>3, <1>4

(* A call that gets a connection is one lease more. *)
LEMMA LeasedMore ==
  ASSUME PoolInv, NEW r \in Calls, stat[r] # "leased", stat' = [stat EXCEPT ![r] = "leased"]
  PROVE  Cardinality(Leased') = acquired + 1
<1>1. Leased' = Leased \union {r} /\ r \notin Leased
  BY Zenon DEF PoolInv, TypeOK, Leased
<1>2. QED
  BY <1>1, Finite, FS_AddElement, Zenon DEF PoolInv, Counted

(* A lease that ends is one less. *)
LEMMA LeasedLess ==
  ASSUME PoolInv, NEW r \in Calls, stat[r] = "leased", stat' = [stat EXCEPT ![r] = "done"]
  PROVE  Cardinality(Leased') = acquired - 1 /\ acquired - 1 \in Nat
<1>1. Leased' = Leased \ {r} /\ r \in Leased
  BY Zenon DEF PoolInv, TypeOK, Leased
<1>2. IsFiniteSet(Leased) /\ IsFiniteSet(Leased \ {r}) /\ acquired = Cardinality(Leased)
  BY Finite, FS_RemoveElement, Zenon DEF PoolInv, Counted
<1>3. Cardinality(Leased \ {r}) = Cardinality(Leased) - 1 /\ Cardinality(Leased \ {r}) \in Nat
  BY <1>1, <1>2, FS_RemoveElement, FS_CardinalityType, Zenon
<1>4. QED
  BY <1>1, <1>2, <1>3, Zenon

(* Nothing else changes the number of leases. *)
LEMMA LeasedSame ==
  ASSUME PoolInv, \A q \in Calls : stat'[q] = "leased" <=> stat[q] = "leased"
  PROVE  Cardinality(Leased') = acquired
<1>1. Leased' = Leased
  BY Zenon DEF Leased
<1>2. QED
  BY <1>1, Zenon DEF PoolInv, Counted

(* An authority that was asked for stays one. *)
LEMMA AskedGrows ==
  ASSUME PoolInv, key' \in [Calls -> Keys \union {NoKey}],
         \A q \in Calls : key[q] # NoKey => key'[q] = key[q]
  PROVE  /\ IsFiniteSet(Asked') /\ Asked \subseteq Asked'
         /\ \A q \in Calls : key'[q] # NoKey => key'[q] \in Asked'
<1>1. Asked' \subseteq Keys
  BY Zenon DEF Asked
<1>2. Asked \subseteq Asked'
  BY Zenon DEF Asked
<1>3. QED
  BY <1>1, <1>2, PoolAssumption, FS_Subset, Zenon DEF Asked

-----------------------------------------------------------------------------
(* The idle connections *)

(* Discarding the newer ones of a key leaves the others open. *)
LEMMA Discard ==
  ASSUME PoolInv, NEW k \in Keys, NEW n \in 0 .. Len(available[k]), DiscardAbove(k, n)
  PROVE  /\ quality' \in [Conns -> {"none", "clean", "bad"}]
         /\ home' \in [Conns -> Keys \union {NoKey}]
         /\ \A l \in Keys : \A i \in 1 .. Len(available[l]) :
                l # k \/ i <= n => quality'[available[l][i]] = quality[available[l][i]]
         /\ \A r \in Calls : lease[r] # NoConn => quality'[lease[r]] = quality[lease[r]]
<1> DEFINE gone == {available[k][j] : j \in (n + 1) .. Len(available[k])}
<1>1. /\ quality' = [c \in Conns |-> IF c \in gone THEN "none" ELSE quality[c]]
      /\ home' = [c \in Conns |-> IF c \in gone THEN NoKey ELSE home[c]]
  BY Zenon DEF DiscardAbove
<1>2. \A l \in Keys : \A i \in 1 .. Len(available[l]) : available[l][i] \in Conns
  BY DEF PoolInv, TypeOK
<1>3. ASSUME NEW l \in Keys, NEW i \in 1 .. Len(available[l]), l # k \/ i <= n
      PROVE  available[l][i] \notin gone
  <2>1. ASSUME NEW j \in (n + 1) .. Len(available[k]), available[l][i] = available[k][j]
        PROVE  FALSE
    <3>1. j \in 1 .. Len(available[k]) /\ j > n
      OBVIOUS
    <3>2. l = k /\ i = j
      BY <2>1, <3>1, Zenon DEF PoolInv, Stored
    <3>3. QED
      BY <1>3, <3>1, <3>2
  <2>2. QED
    BY <2>1, Zenon
<1>4. ASSUME NEW r \in Calls PROVE lease[r] \notin gone
  <2>1. \A j \in (n + 1) .. Len(available[k]) : j \in 1 .. Len(available[k])
    OBVIOUS
  <2>2. QED
    BY <2>1, ZenonT(60) DEF PoolInv, Stored
<1> HIDE DEF gone
<1>5. quality \in [Conns -> {"none", "clean", "bad"}] /\ home \in [Conns -> Keys \union {NoKey}]
      /\ \A r \in Calls : lease[r] \in Conns \union {NoConn}
  BY Zenon DEF PoolInv, TypeOK
<1>6. QED
  BY <1>1, <1>2, <1>3, <1>4, <1>5, Zenon

(* The idle lists stay as they are while what is in them stays open and is   *)
(* not leased.                                                               *)
LEMMA SameIdle ==
  ASSUME PoolInv, available' = available,
         \A k \in Keys : \A i \in 1 .. Len(available[k]) :
            /\ quality'[available[k][i]] # "none"
            /\ \A q \in Calls : lease'[q] # available[k][i]
  PROVE  Stored'
BY DEF PoolInv, Stored

(* Looking for an idle connection in vain forgets those of the key. *)
LEMMA Forget ==
  ASSUME PoolInv, NEW k \in Keys, available' = [available EXCEPT ![k] = <<>>], DiscardAbove(k, 0),
         lease' = lease
  PROVE  /\ available' \in [Keys -> Seq(Conns)]
         /\ quality' \in [Conns -> {"none", "clean", "bad"}]
         /\ home' \in [Conns -> Keys \union {NoKey}]
         /\ Owned' /\ Stored'
<1>1. available \in [Keys -> Seq(Conns)] /\ 0 \in 0 .. Len(available[k])
  BY DEF PoolInv, TypeOK
<1>2. /\ available' \in [Keys -> Seq(Conns)] /\ Len(available'[k]) = 0
      /\ \A l \in Keys : l # k => available'[l] = available[l]
  BY <1>1
<1>3. /\ quality' \in [Conns -> {"none", "clean", "bad"}]
      /\ home' \in [Conns -> Keys \union {NoKey}]
      /\ \A l \in Keys : \A i \in 1 .. Len(available[l]) :
            l # k \/ i <= 0 => quality'[available[l][i]] = quality[available[l][i]]
      /\ \A r \in Calls : lease[r] # NoConn => quality'[lease[r]] = quality[lease[r]]
  BY <1>1, Discard, Zenon
<1>4. Owned'
  BY <1>3, Zenon DEF PoolInv, Owned
<1>5. \A l \in Keys : \A i \in 1 .. Len(available'[l]) :
        l # k /\ i \in 1 .. Len(available[l]) /\ available'[l][i] = available[l][i]
  BY <1>2
<1>6. Stored'
  BY <1>3, <1>5, SMTT(30) DEF PoolInv, Stored
<1>7. QED
  BY <1>2, <1>3, <1>4, <1>6, Zenon

-----------------------------------------------------------------------------
(* It is the turn of a call r for k, new or the first of its queue: it       *)
(* leaves the queue.                                                         *)
Turn(r, k) ==
    /\ stat[r] \in {"new", "queued"} /\ r \notin opening /\ key[r] \in {NoKey, k}
    /\ key' = [key EXCEPT ![r] = k]
    /\ waiters' \in [Keys -> Seq(Calls)]
    /\ \A l \in Keys : Shorter(waiters[l], waiters'[l])
    /\ \A l \in Keys : \A i \in 1 .. Len(waiters'[l]) : waiters'[l][i] # r
    /\ UNCHANGED <<pool, waker, task>> /\ todo' = todo

(* What the turn of a call does to the other calls *)
LEMMA TurnFacts ==
  ASSUME PoolInv, NEW r \in Calls, NEW k \in Keys, Turn(r, k),
         NEW s \in {"leased", "opening"}, stat' = [stat EXCEPT ![r] = s],
         opening' = opening \/ opening' = opening \union {r}
  PROVE  /\ stat' \in [Calls -> {"new", "opening", "queued", "leased", "done", "failed", "canceled"}]
         /\ stat'[r] = s /\ key'[r] = k /\ lease[r] = NoConn
         /\ key' \in [Calls -> Keys \union {NoKey}]
         /\ \A q \in Calls : q # r => stat'[q] = stat[q] /\ key'[q] = key[q]
         /\ \A q \in Calls : key[q] # NoKey => key'[q] = key[q]
         /\ Keyed' /\ Queued'
<1>1. /\ stat' \in [Calls -> {"new", "opening", "queued", "leased", "done", "failed", "canceled"}]
      /\ stat'[r] = s /\ key'[r] = k /\ lease[r] = NoConn
      /\ key' \in [Calls -> Keys \union {NoKey}]
      /\ \A q \in Calls : q # r => stat'[q] = stat[q] /\ key'[q] = key[q]
  BY Zenon DEF Turn, PoolInv, TypeOK, Held
<1>2. \A q \in Calls : key[q] # NoKey => key'[q] = key[q]
  BY <1>1, Zenon DEF Turn
<1>3. Keyed'
  BY <1>1, Zenon DEF PoolInv, Keyed
<1>4. ASSUME NEW l \in Keys, NEW i \in 1 .. Len(waiters'[l])
      PROVE  /\ waiters'[l][i] \notin opening' /\ key'[waiters'[l][i]] = l
             /\ stat'[waiters'[l][i]] \in {"queued", "canceled"}
  <2>1. PICK j \in 1 .. Len(waiters[l]) : waiters'[l][i] = waiters[l][j]
    BY Zenon DEF Turn, Shorter
  <2>2. waiters[l][j] \in Calls /\ waiters[l][j] # r
    BY <2>1 DEF PoolInv, TypeOK, Turn
  <2>3. QED
    BY <1>1, <2>1, <2>2 DEF PoolInv, Queued
<1>5. Queued'
  BY <1>4, QueuesShorten, Zenon DEF Turn
<1>6. QED
  BY <1>1, <1>2, <1>3, <1>5, Zenon

(* Inner::acquire finds an idle connection. *)
LEMMA ReuseKeeps ==
  ASSUME PoolInv, NEW r \in Calls, NEW k \in Keys, Turn(r, k), Reuse(r, k)
  PROVE  PoolInv' /\ Promise!LeaseNext
<1>1. PICK n \in Newest(k) :
        /\ lease' = [lease EXCEPT ![r] = available[k][n]]
        /\ available' = [available EXCEPT ![k] = SubSeq(available[k], 1, n - 1)]
        /\ DiscardAbove(k, n)
  BY Zenon DEF Reuse
<1> DEFINE c == available[k][n]
           s == SubSeq(available[k], 1, n - 1)
<1>2. /\ available[k] \in Seq(Conns) /\ n \in 1 .. Len(available[k]) /\ n \in 0 .. Len(available[k])
      /\ c \in Conns /\ c # NoConn /\ quality[c] # "none" /\ \A q \in Calls : lease[q] # c
  BY PoolAssumption DEF Newest, Usable, PoolInv, TypeOK, Stored
<1>3. /\ s \in Seq(Conns) /\ Len(s) = n - 1
      /\ \A i \in 1 .. n - 1 : s[i] = available[k][i] /\ i \in 1 .. Len(available[k]) /\ i <= n /\ i # n
  BY <1>2
<1>4. /\ quality' \in [Conns -> {"none", "clean", "bad"}]
      /\ home' \in [Conns -> Keys \union {NoKey}]
      /\ \A l \in Keys : \A i \in 1 .. Len(available[l]) :
            l # k \/ i <= n => quality'[available[l][i]] = quality[available[l][i]]
      /\ \A q \in Calls : lease[q] # NoConn => quality'[lease[q]] = quality[lease[q]]
  BY <1>1, <1>2, Discard, Zenon
<1>5. quality'[c] # "none"
  BY <1>2, <1>4
<1> HIDE DEF s
<1>6. /\ available' \in [Keys -> Seq(Conns)] /\ available'[k] = s
      /\ \A l \in Keys : l # k => available'[l] = available[l]
  BY <1>1, <1>3, Zenon DEF PoolInv, TypeOK, s
<1>7. \A l \in Keys : \A i \in 1 .. Len(available'[l]) :
        /\ i \in 1 .. Len(available[l]) /\ available'[l][i] = available[l][i]
        /\ (l # k \/ i <= n) /\ (l # k \/ i # n)
  BY <1>3, <1>6, Zenon
<1>8. stat' = [stat EXCEPT ![r] = "leased"] /\ acquired' = acquired + 1 /\ ~AtLimit
      /\ UNCHANGED <<connecting, opening>>
  BY Zenon DEF Reuse
<1>9. /\ stat' \in [Calls -> {"new", "opening", "queued", "leased", "done", "failed", "canceled"}]
      /\ stat'[r] = "leased" /\ key'[r] = k /\ lease[r] = NoConn
      /\ key' \in [Calls -> Keys \union {NoKey}]
      /\ \A q \in Calls : q # r => stat'[q] = stat[q] /\ key'[q] = key[q]
      /\ \A q \in Calls : key[q] # NoKey => key'[q] = key[q]
      /\ Keyed' /\ Queued'
  BY <1>8, TurnFacts, Zenon
<1>10. lease' \in [Calls -> Conns \union {NoConn}] /\ lease'[r] = c
       /\ \A q \in Calls : q # r => lease'[q] = lease[q]
  BY <1>1, <1>2, Zenon DEF PoolInv, TypeOK
<1> HIDE DEF c
<1>11. TypeOK'
  BY <1>4, <1>6, <1>8, <1>9, <1>10, SMTT(30) DEF PoolInv, TypeOK, Turn
<1>12. Held' /\ Owned'
  BY <1>2, <1>4, <1>5, <1>9, <1>10, SMTT(30) DEF PoolInv, Held, Owned
<1>13. Stored'
  <2>1. \A l \in Keys : \A i \in 1 .. Len(available'[l]) : available[l][i] # c
    BY <1>2, <1>7 DEF c, PoolInv, Stored
  <2>2. \A q \in Calls : lease'[q] = lease[q] \/ lease'[q] = c
    BY <1>10, Zenon
  <2>3. \A l \in Keys : \A i \in 1 .. Len(available'[l]) :
            quality'[available[l][i]] = quality[available[l][i]]
    BY <1>4, <1>7
  <2>4. \A l \in Keys : \A i \in 1 .. Len(available'[l]) :
            /\ quality'[available'[l][i]] # "none"
            /\ \A q \in Calls : lease'[q] # available'[l][i]
    BY <1>7, <2>1, <2>2, <2>3 DEF PoolInv, Stored
  <2>5. \A l, m \in Keys : \A i \in 1 .. Len(available'[l]), j \in 1 .. Len(available'[m]) :
            available'[l][i] = available'[m][j] => l = m /\ i = j
    BY <1>7 DEF PoolInv, Stored
  <2>6. QED
    BY <2>4, <2>5, Zenon DEF Stored
<1>14. Connects'
  <2>1. \A q \in opening : q \in Calls /\ q # r
    BY Zenon DEF PoolInv, TypeOK, Turn
  <2>2. QED
    BY <1>8, <1>9, <2>1 DEF PoolInv, Connects
<1>15. Counted'
  <2>1. acquired' = Cardinality(Leased')
    BY <1>8, LeasedMore, Zenon DEF Turn
  <2>2. IsFiniteSet(Asked') /\ Asked \subseteq Asked'
    BY <1>9, AskedGrows, Zenon
  <2>3. connecting' \subseteq Asked'
    BY <1>8, <2>2, Finite, Zenon
  <2>4. Limit > 0 => acquired' <= Limit
    BY <1>8, PoolAssumption DEF AtLimit, PoolInv, TypeOK
  <2>5. acquired' \in Nat
    BY <1>8 DEF PoolInv, TypeOK
  <2>6. QED
    BY <2>1, <2>2, <2>3, <2>4, <2>5, BoundKept, Zenon DEF Counted
<1>16. Promise!LeaseNext
  BY <1>1, <1>2, <1>8, SeesGrant, ZenonT(60) DEF PoolInv, Turn, c
<1>17. QED
  BY <1>9, <1>11, <1>12, <1>13, <1>14, <1>15, <1>16, Zenon DEF PoolInv

(* Inner::acquire finds none: a connect task starts. *)
LEMMA OpenKeeps ==
  ASSUME PoolInv, NEW r \in Calls, NEW k \in Keys, Turn(r, k), Open(r, k)
  PROVE  PoolInv' /\ (Promise!LeaseNext \/ UNCHANGED Promise!leaseVars)
<1>1. /\ stat' = [stat EXCEPT ![r] = "opening"] /\ opening' = opening \union {r}
      /\ connecting' = connecting \union {k} /\ k \notin connecting /\ ~AtLimit
      /\ available' = [available EXCEPT ![k] = <<>>] /\ DiscardAbove(k, 0)
      /\ acquired' = acquired /\ lease' = lease
  BY Zenon DEF Open
<1>2. /\ stat' \in [Calls -> {"new", "opening", "queued", "leased", "done", "failed", "canceled"}]
      /\ stat'[r] = "opening" /\ key'[r] = k /\ lease[r] = NoConn
      /\ key' \in [Calls -> Keys \union {NoKey}]
      /\ \A q \in Calls : q # r => stat'[q] = stat[q] /\ key'[q] = key[q]
      /\ \A q \in Calls : key[q] # NoKey => key'[q] = key[q]
      /\ Keyed' /\ Queued'
  BY <1>1, TurnFacts, Zenon
<1>3. /\ available' \in [Keys -> Seq(Conns)]
      /\ quality' \in [Conns -> {"none", "clean", "bad"}]
      /\ home' \in [Conns -> Keys \union {NoKey}]
      /\ Owned' /\ Stored'
  BY <1>1, Forget, ZenonT(60)
<1>4. TypeOK'
  BY <1>1, <1>2, <1>3, SMTT(30) DEF PoolInv, TypeOK, Turn
<1>5. Held'
  BY <1>1, <1>2, Zenon DEF PoolInv, Held
<1>6. Connects'
  <2>1. \A q \in opening : q \in Calls /\ q # r /\ key'[q] = key[q] /\ stat'[q] = stat[q]
    BY <1>2, Zenon DEF PoolInv, TypeOK, Turn
  <2>2. \A q \in opening : key[q] # k
    BY <1>1, Zenon DEF PoolInv, Connects
  <2>3. connecting' = {key'[q] : q \in opening'}
    BY <1>1, <1>2, <2>1 DEF PoolInv, Connects
  <2>4. \A q, p \in opening' : key'[q] = key'[p] => q = p
    BY <1>1, <1>2, <2>1, <2>2 DEF PoolInv, Connects
  <2>5. \A q \in opening' : stat'[q] \in {"opening", "canceled"}
    BY <1>1, <1>2, <2>1, Zenon DEF PoolInv, Connects
  <2>6. QED
    BY <2>3, <2>4, <2>5, Zenon DEF Connects
<1>7. Counted'
  <2>1. \A q \in Calls : stat'[q] = "leased" <=> stat[q] = "leased"
    BY <1>2, Zenon DEF Turn
  <2>2. acquired' = Cardinality(Leased')
    BY <1>1, <2>1, LeasedSame, Zenon
  <2>3. /\ IsFiniteSet(Asked') /\ Asked \subseteq Asked'
        /\ \A q \in Calls : key'[q] # NoKey => key'[q] \in Asked'
    BY <1>2, AskedGrows, Zenon
  <2>4. connecting' \subseteq Asked'
    BY <1>1, <1>2, <2>3, Finite, PoolAssumption, Zenon
  <2>5. Limit > 0 => acquired' <= Limit
    BY <1>1, PoolAssumption DEF AtLimit, PoolInv, TypeOK
  <2>6. acquired' \in Nat
    BY <1>1, Zenon DEF PoolInv, TypeOK
  <2>7. QED
    BY <2>2, <2>3, <2>4, <2>5, <2>6, BoundKept, SMTT(30) DEF Counted
<1>8. Promise!LeaseNext \/ UNCHANGED Promise!leaseVars
  <2>1. CASE stat[r] = "new"
    BY <1>1, <2>1, SeesAsk, Zenon DEF PoolInv
  <2>2. CASE stat[r] = "queued"
    BY <1>1, <2>2, SeesNothing, Zenon DEF PoolInv
  <2>3. QED
    BY <2>1, <2>2, Zenon DEF Turn
<1>9. QED
  BY <1>2, <1>3, <1>4, <1>5, <1>6, <1>7, <1>8, Zenon DEF PoolInv

(* Inner::acquire has none to give: the idle ones it cannot use may go. *)
LEMMA BusyKeeps ==
  ASSUME PoolInv, NEW k \in Keys, Busy(k)
  PROVE  /\ available' \in [Keys -> Seq(Conns)]
         /\ quality' \in [Conns -> {"none", "clean", "bad"}]
         /\ home' \in [Conns -> Keys \union {NoKey}]
         /\ Owned' /\ Stored' /\ UNCHANGED <<acquired, connecting, opening, lease>>
<1>1. CASE UNCHANGED <<available, connVars, lease>>
  BY <1>1 DEF Busy, connVars, PoolInv, TypeOK, Owned, Stored
<1>2. CASE available' = [available EXCEPT ![k] = <<>>] /\ DiscardAbove(k, 0) /\ lease' = lease
  BY <1>2, Forget, Zenon DEF Busy
<1>3. QED
  BY <1>1, <1>2, Zenon DEF Busy

-----------------------------------------------------------------------------
(* The steps of the pool *)

(* A call for an authority *)
LEMMA CallKeeps ==
  ASSUME PoolInv, NEW r \in Calls, NEW k \in Keys, Call(r, k)
  PROVE  PoolInv' /\ (Promise!LeaseNext \/ UNCHANGED Promise!leaseVars)
<1>1. /\ stat[r] = "new" /\ key' = [key EXCEPT ![r] = k] /\ UNCHANGED <<pool, waker, task, todo>>
      /\ key[r] = NoKey
  BY Zenon DEF Call, PoolInv, Keyed
<1>2. r \notin opening /\ \A l \in Keys : \A i \in 1 .. Len(waiters[l]) : waiters[l][i] # r
  BY <1>1 DEF PoolInv, Connects, Queued
<1>3. CASE (Reuse(r, k) \/ Open(r, k)) /\ waiters' = waiters
  <2>1. \A l \in Keys : Shorter(waiters[l], waiters[l])
    <3>1. \A l \in Keys : waiters[l] \in Seq(Calls)
      BY Zenon DEF PoolInv, TypeOK
    <3>2. QED
      BY <3>1, SameShorter, Zenon
  <2>2. Turn(r, k)
    BY <1>1, <1>2, <1>3, <2>1, Zenon DEF Turn, PoolInv, TypeOK
  <2>3. QED
    BY <1>3, <2>2, ReuseKeeps, OpenKeeps, Zenon
<1>4. CASE Busy(k) /\ stat' = [stat EXCEPT ![r] = "queued"]
           /\ waiters' = [waiters EXCEPT ![k] = Append(waiters[k], r)]
  <2>1. /\ available' \in [Keys -> Seq(Conns)]
        /\ quality' \in [Conns -> {"none", "clean", "bad"}]
        /\ home' \in [Conns -> Keys \union {NoKey}]
        /\ Owned' /\ Stored' /\ UNCHANGED <<acquired, connecting, opening, lease>>
    BY <1>4, BusyKeeps, Zenon
  <2>2. /\ stat' \in [Calls -> {"new", "opening", "queued", "leased", "done", "failed", "canceled"}]
        /\ key' \in [Calls -> Keys \union {NoKey}] /\ stat'[r] = "queued" /\ key'[r] = k
        /\ \A q \in Calls : q # r => stat'[q] = stat[q] /\ key'[q] = key[q]
    BY <1>1, <1>4, SMTT(30) DEF PoolInv, TypeOK
  <2> DEFINE n == Len(waiters[k]) + 1
             w == Append(waiters[k], r)
  <2>3. /\ w \in Seq(Calls) /\ Len(w) = n /\ n \in Nat /\ w[n] = r
        /\ \A i \in 1 .. n : i # n => i \in 1 .. Len(waiters[k]) /\ w[i] = waiters[k][i]
    BY DEF PoolInv, TypeOK
  <2> HIDE DEF w
  <2>4. /\ waiters' \in [Keys -> Seq(Calls)] /\ waiters'[k] = w
        /\ \A l \in Keys : l # k => waiters'[l] = waiters[l]
    BY <1>4, <2>3, Zenon DEF PoolInv, TypeOK, w
  <2>5. \A l \in Keys : \A i \in 1 .. Len(waiters'[l]) :
            \/ i \in 1 .. Len(waiters[l]) /\ waiters'[l][i] = waiters[l][i]
            \/ l = k /\ i = n /\ waiters'[l][i] = r
    BY <2>3, <2>4, Zenon
  <2> HIDE DEF n
  <2>6. TypeOK'
    BY <1>1, <2>1, <2>2, <2>4, Zenon DEF PoolInv, TypeOK
  <2>7. Held' /\ Keyed'
    BY <1>1, <2>1, <2>2, ZenonT(60) DEF PoolInv, Held, Keyed
  <2>8. Queued'
    <3>1. \A l \in Keys : \A i \in 1 .. Len(waiters[l]) : waiters[l][i] \in Calls
      BY DEF PoolInv, TypeOK
    <3>2. ASSUME NEW l \in Keys, NEW i \in 1 .. Len(waiters'[l])
          PROVE  /\ waiters'[l][i] \notin opening' /\ key'[waiters'[l][i]] = l
                 /\ stat'[waiters'[l][i]] \in {"queued", "canceled"}
      <4>1. CASE i \in 1 .. Len(waiters[l]) /\ waiters'[l][i] = waiters[l][i]
        <5>1. /\ waiters[l][i] \notin opening /\ key[waiters[l][i]] = l
              /\ stat[waiters[l][i]] \in {"queued", "canceled"}
          BY <4>1, SMTT(30) DEF PoolInv, Queued
        <5>2. QED
          BY <1>2, <2>1, <2>2, <3>1, <4>1, <5>1, SMTT(30)
      <4>2. CASE l = k /\ waiters'[l][i] = r
        BY <1>2, <2>1, <2>2, <4>2, Zenon
      <4>3. QED
        BY <2>5, <4>1, <4>2, SMTT(30)
    <3>3. \A l, m \in Keys : \A i \in 1 .. Len(waiters'[l]), j \in 1 .. Len(waiters'[m]) :
            waiters'[l][i] = waiters'[m][j] => l = m /\ i = j
      BY <1>2, <2>5, SMTT(30) DEF PoolInv, Queued
    <3>4. QED
      BY <3>2, <3>3, Zenon DEF Queued
  <2>9. Connects'
    <3>1. \A q \in opening : q \in Calls /\ key'[q] = key[q] /\ stat'[q] = stat[q]
      BY <1>2, <2>2, Zenon DEF PoolInv, TypeOK
    <3>2. opening' = opening /\ connecting' = connecting
      BY <2>1, Zenon
    <3>3. QED
      BY <3>1, <3>2 DEF PoolInv, Connects
  <2>10. Counted'
    <3>1. \A q \in Calls : stat'[q] = "leased" <=> stat[q] = "leased"
      BY <1>1, <2>2, Zenon
    <3>2. \A q \in Calls : key[q] # NoKey => key'[q] = key[q]
      BY <1>1, <2>2, Zenon
    <3>3. IsFiniteSet(Asked') /\ Asked \subseteq Asked'
      BY <2>2, <3>2, AskedGrows, Zenon
    <3>4. acquired' = Cardinality(Leased') /\ acquired' \in Nat /\ connecting' \subseteq Asked'
      BY <2>1, <3>1, <3>3, LeasedSame, Finite, SMTT(30) DEF PoolInv, TypeOK
    <3>5. acquired' + Cardinality(connecting') <= acquired + Cardinality(connecting)
      BY <2>1, Finite DEF PoolInv, TypeOK
    <3>6. QED
      BY <3>3, <3>4, <3>5, BoundKept, Zenon DEF Counted
  <2>11. Promise!LeaseNext
    BY <1>1, <1>4, <2>1, SeesAsk, ZenonT(60) DEF PoolInv
  <2>12. QED
    BY <2>1, <2>6, <2>7, <2>8, <2>9, <2>10, <2>11, Zenon DEF PoolInv
<1>5. QED
  BY <1>3, <1>4, Zenon DEF Call

(* A call without an authority, or whose future is dropped *)
LEMMA GivenUpKeeps ==
  ASSUME PoolInv, NEW r \in Calls, CallUnresolved(r) \/ Cancel(r)
  PROVE  PoolInv' /\ Promise!LeaseNext
<1> USE DEF poolVars, connVars
<1>1. PICK s \in {"failed", "canceled"} :
        /\ stat' = [stat EXCEPT ![r] = s] /\ stat[r] \in {"new", "opening", "queued"}
        /\ s = "failed" => stat[r] = "new"
        /\ s = "canceled" => stat[r] \in {"opening", "queued"}
  BY Zenon DEF CallUnresolved, Cancel, Pending
<1>2. UNCHANGED <<pool, poolVars, task, todo, key, lease, opening, connVars>>
  BY Zenon DEF CallUnresolved, Cancel
<1>3. /\ stat' \in [Calls -> {"new", "opening", "queued", "leased", "done", "failed", "canceled"}]
      /\ stat'[r] = s /\ \A q \in Calls : q # r => stat'[q] = stat[q]
  BY <1>1, Zenon DEF PoolInv, TypeOK
<1>4. TypeOK' /\ Owned' /\ Stored'
  <2>1. TypeOK'
    BY <1>2, <1>3, SMTT(30) DEF PoolInv, TypeOK
  <2>2. lease' = lease /\ quality' = quality /\ available' = available
    BY <1>2, Zenon
  <2>3. QED
    BY <2>1, <2>2, Untouched, ZenonT(60)
<1>5. Held' /\ Keyed'
  BY <1>1, <1>2, <1>3, Zenon DEF PoolInv, Held, Keyed
<1>6. Queued'
  <2>1. \A l \in Keys : \A i \in 1 .. Len(waiters[l]) : waiters[l][i] \in Calls
    BY DEF PoolInv, TypeOK
  <2>2. \A l \in Keys : \A i \in 1 .. Len(waiters[l]) : stat'[waiters[l][i]] \in {"queued", "canceled"}
    BY <1>1, <1>3, <2>1, SMTT(30) DEF PoolInv, Queued
  <2>3. waiters' = waiters /\ opening' = opening /\ key' = key
    BY <1>2, Zenon DEF poolVars
  <2>4. Queued
    BY Zenon DEF PoolInv
  <2>5. \A l \in Keys : \A i \in 1 .. Len(waiters'[l]) :
            /\ waiters'[l][i] \notin opening' /\ key'[waiters'[l][i]] = l
            /\ stat'[waiters'[l][i]] \in {"queued", "canceled"}
    BY <2>2, <2>3, <2>4, SMT DEF Queued
  <2>6. QED
    BY <2>3, <2>4, <2>5, SMTT(30) DEF Queued
<1>7. Connects'
  <2>1. \A q \in opening : q \in Calls
    BY Zenon DEF PoolInv, TypeOK
  <2>2. \A q \in opening : stat'[q] \in {"opening", "canceled"}
    BY <1>1, <1>3, <2>1, Zenon DEF PoolInv, Connects
  <2>3. QED
    BY <1>2, <2>2, Zenon DEF PoolInv, Connects
<1>8. Counted'
  <2>1. \A q \in Calls : stat'[q] = "leased" <=> stat[q] = "leased"
    BY <1>1, <1>3, Zenon
  <2>2. Cardinality(Leased') = acquired
    BY <2>1, LeasedSame, Zenon
  <2>3. QED
    BY <1>2, <2>2, Zenon DEF PoolInv, Counted, Asked
<1>9. Promise!LeaseNext
  BY <1>1, <1>2, SeesRefuse, ZenonT(60) DEF PoolInv
<1>10. QED
  BY <1>4, <1>5, <1>6, <1>7, <1>8, <1>9, Zenon DEF PoolInv

(* OpenGuard::drop: a connect task less *)
LEMMA ConnectGone ==
  ASSUME PoolInv, NEW r \in opening, opening' = opening \ {r}, connecting' = connecting \ {key[r]},
         key' = key, \A q \in Calls : q # r => stat'[q] = stat[q]
  PROVE  /\ Connects' /\ opening' \subseteq Calls /\ connecting' \subseteq Keys
         /\ IsFiniteSet(Asked') /\ Asked \subseteq Asked' /\ connecting' \subseteq Asked'
         /\ Cardinality(connecting') = Cardinality(connecting) - 1
<1>1. opening \subseteq Calls /\ connecting \subseteq Keys
  BY Zenon DEF PoolInv, TypeOK
<1>2. Asked' = Asked /\ IsFiniteSet(Asked) /\ connecting \subseteq Asked /\ IsFiniteSet(connecting)
  BY Finite, Zenon DEF Asked
<1>3. key[r] \in connecting
  BY Zenon DEF PoolInv, Connects
<1>4. Cardinality(connecting') = Cardinality(connecting) - 1
  BY <1>2, <1>3, FS_RemoveElement, Zenon
<1>5. connecting' = {key'[q] : q \in opening'}
  <2>1. connecting = {key[q] : q \in opening} /\ \A q \in opening : key[q] = key[r] => q = r
    BY Zenon DEF PoolInv, Connects
  <2>2. QED
    BY <2>1, Zenon
<1>6. Connects'
  BY <1>1, <1>5, Zenon DEF PoolInv, Connects
<1>7. QED
  BY <1>1, <1>2, <1>4, <1>6, Zenon

(* A connect task that ends without a connection *)
LEMMA OpenFailedKeeps ==
  ASSUME PoolInv, NEW r \in Calls, OpenFailed(r)
  PROVE  PoolInv' /\ (Promise!LeaseNext \/ UNCHANGED Promise!leaseVars)
<1> USE DEF connVars
<1> DEFINE s == IF stat[r] = "canceled" THEN "canceled" ELSE "failed"
<1>1. /\ r \in opening /\ stat' = [stat EXCEPT ![r] = s]
      /\ opening' = opening \ {r} /\ connecting' = connecting \ {key[r]}
      /\ waiters' = [k \in Keys |-> cleanup(waiters[k])] /\ waker' \in BOOLEAN
      /\ UNCHANGED <<pool, acquired, available, task, todo, key, lease, connVars>>
  BY Zenon DEF OpenFailed, check_availibility, PoolInv, TypeOK
<1>2. stat[r] \in {"opening", "canceled"}
  BY <1>1, Zenon DEF PoolInv, Connects
<1>3. /\ stat' \in [Calls -> {"new", "opening", "queued", "leased", "done", "failed", "canceled"}]
      /\ stat'[r] = s /\ \A q \in Calls : q # r => stat'[q] = stat[q]
  BY <1>1, Zenon DEF PoolInv, TypeOK
<1>4. waiters' \in [Keys -> Seq(Calls)] /\ Queued'
  <2>1. \A q \in Calls : stat[q] \in {"queued", "canceled"} => stat'[q] = stat[q]
    BY <1>2, <1>3, Zenon
  <2>2. QED
    BY <1>1, <2>1, CleanedQueues, Zenon
<1>5. /\ Connects' /\ opening' \subseteq Calls /\ connecting' \subseteq Keys
      /\ IsFiniteSet(Asked') /\ Asked \subseteq Asked' /\ connecting' \subseteq Asked'
      /\ Cardinality(connecting') = Cardinality(connecting) - 1
  BY <1>1, <1>3, ConnectGone, SMTT(30)
<1>6. TypeOK' /\ Owned' /\ Stored'
  <2>1. TypeOK'
    BY <1>1, <1>3, <1>4, <1>5, Zenon DEF PoolInv, TypeOK
  <2>2. lease' = lease /\ quality' = quality /\ available' = available
    BY <1>1, Zenon
  <2>3. QED
    BY <2>1, <2>2, Untouched, Zenon
<1>7. Held' /\ Keyed'
  BY <1>1, <1>2, <1>3, Zenon DEF PoolInv, Held, Keyed
<1>8. Counted'
  <2>1. \A q \in Calls : stat'[q] = "leased" <=> stat[q] = "leased"
    BY <1>2, <1>3, SMTT(30)
  <2>2. acquired' = Cardinality(Leased') /\ acquired' \in Nat
    BY <1>1, <2>1, LeasedSame, SMTT(30) DEF PoolInv, TypeOK
  <2>3. acquired' + Cardinality(connecting') <= acquired + Cardinality(connecting)
    BY <1>1, <1>5, Finite DEF PoolInv, TypeOK
  <2>4. QED
    BY <1>5, <2>2, <2>3, BoundKept, Zenon DEF Counted
<1>9. Promise!LeaseNext \/ UNCHANGED Promise!leaseVars
  <2>1. CASE stat[r] = "opening"
    BY <1>1, <2>1, SeesRefuse, ZenonT(60) DEF PoolInv
  <2>2. CASE stat[r] = "canceled"
    <3>1. stat' = stat
      BY <1>1, <2>2, Zenon DEF PoolInv, TypeOK
    <3>2. QED
      BY <1>1, <3>1, Zenon DEF Promise!leaseVars
  <2>3. QED
    BY <1>2, <2>1, <2>2, Zenon
<1>10. QED
  BY <1>4, <1>5, <1>6, <1>7, <1>8, <1>9, Zenon DEF PoolInv

(* A connection nobody has goes to the idle list. *)
LEMMA Store ==
  ASSUME PoolInv, NEW k \in Keys, NEW c \in Conns,
         available' = [available EXCEPT ![k] = Append(available[k], c)],
         \A l \in Keys : \A i \in 1 .. Len(available[l]) :
            available[l][i] # c /\ quality'[available[l][i]] # "none",
         quality'[c] # "none",
         \A q \in Calls : lease'[q] # c /\ lease'[q] \in {lease[q], NoConn}
  PROVE  available' \in [Keys -> Seq(Conns)] /\ Stored'
<1> DEFINE n == Len(available[k]) + 1
           s == Append(available[k], c)
<1>1. /\ s \in Seq(Conns) /\ Len(s) = n /\ n \in Nat /\ s[n] = c
      /\ \A i \in 1 .. n : i # n => i \in 1 .. Len(available[k]) /\ s[i] = available[k][i]
  <2>1. available[k] \in Seq(Conns)
    BY SMTT(30) DEF PoolInv, TypeOK
  <2>2. QED
    BY <2>1, SMTT(30)
<1> HIDE DEF s
<1>2. /\ available' \in [Keys -> Seq(Conns)] /\ available'[k] = s
      /\ \A l \in Keys : l # k => available'[l] = available[l]
  BY <1>1, Zenon DEF PoolInv, TypeOK, s
<1>3. \A l \in Keys : \A i \in 1 .. Len(available'[l]) :
        \/ i \in 1 .. Len(available[l]) /\ available'[l][i] = available[l][i]
        \/ l = k /\ i = n /\ available'[l][i] = c
  BY <1>1, <1>2, SMTT(30)
<1> HIDE DEF n
<1>5. ASSUME NEW l \in Keys, NEW i \in 1 .. Len(available'[l])
      PROVE  quality'[available'[l][i]] # "none" /\ \A q \in Calls : lease'[q] # available'[l][i]
  <2>1. CASE i \in 1 .. Len(available[l]) /\ available'[l][i] = available[l][i]
    BY <2>1, IdleFacts, ZenonT(60)
  <2>2. CASE available'[l][i] = c
    BY <2>2, SMTT(30)
  <2>3. QED
    BY <1>3, <2>1, <2>2, SMTT(30)
<1>6. \A l, m \in Keys : \A i \in 1 .. Len(available'[l]), j \in 1 .. Len(available'[m]) :
        available'[l][i] = available'[m][j] => l = m /\ i = j
  BY <1>3, SMTT(30) DEF PoolInv, Stored
<1>7. QED
  BY <1>2, <1>5, <1>6, ZenonT(60) DEF Stored

(* A connect task that succeeds: the caller gets the connection or, if it is *)
(* gone, the idle list.                                                      *)
LEMMA OpenedKeeps ==
  ASSUME PoolInv, NEW r \in Calls, Opened(r)
  PROVE  PoolInv' /\ (Promise!LeaseNext \/ UNCHANGED Promise!leaseVars)
<1>1. PICK c \in Conns :
        /\ quality[c] = "none" /\ quality' = [quality EXCEPT ![c] = "clean"]
        /\ home' = [home EXCEPT ![c] = key[r]] /\ Deliver(r, c)
  BY Zenon DEF Opened
<1>2. /\ r \in opening /\ opening' = opening \ {r} /\ connecting' = connecting \ {key[r]}
      /\ UNCHANGED <<pool, task, todo, key>>
  BY SMTT(30) DEF Opened
<1>3. stat[r] \in {"opening", "canceled"} /\ key[r] \in Keys /\ lease[r] = NoConn
  <2>1. stat[r] \in {"opening", "canceled"}
    BY <1>2, Zenon DEF PoolInv, Connects
  <2>2. key[r] \in Keys
    BY <2>1, Zenon DEF PoolInv, Keyed
  <2>3. lease[r] = NoConn
    BY <2>1, Zenon DEF PoolInv, Held
  <2>4. QED
    BY <2>1, <2>2, <2>3, Zenon
<1>4. /\ \A q \in Calls : lease[q] # c
      /\ \A l \in Keys : \A i \in 1 .. Len(available[l]) : available[l][i] # c /\ available[l][i] \in Conns
      /\ c # NoConn
  BY <1>1, PoolAssumption, SMTT(30) DEF PoolInv, TypeOK, Owned, Stored
<1>5. /\ quality' \in [Conns -> {"none", "clean", "bad"}] /\ home' \in [Conns -> Keys \union {NoKey}]
      /\ quality'[c] = "clean" /\ \A d \in Conns : d # c => quality'[d] = quality[d]
  BY <1>1, <1>3, Zenon DEF PoolInv, TypeOK
<1>6. waiters' = [k \in Keys |-> cleanup(waiters[k])] /\ waker' \in BOOLEAN
  BY <1>1, ZenonT(60) DEF Deliver, check_availibility, PoolInv, TypeOK
<1>7. /\ \A q \in Calls : q # r => stat'[q] = stat[q]
      /\ stat[r] = "canceled" => stat'[r] = stat[r]
  <2>1. stat' = stat \/ (stat[r] # "canceled" /\ stat' = [stat EXCEPT ![r] = "leased"])
    BY <1>1, ZenonT(60) DEF Deliver
  <2>2. stat \in [Calls -> {"new", "opening", "queued", "leased", "done", "failed", "canceled"}]
    BY Zenon DEF PoolInv, TypeOK
  <2>3. QED
    BY <2>1, <2>2, Zenon
<1>8. \A q \in Calls : stat[q] \in {"queued", "canceled"} => stat'[q] = stat[q]
  BY <1>3, <1>7, Zenon
<1>9. waiters' \in [Keys -> Seq(Calls)] /\ Queued'
  BY <1>2, <1>6, <1>8, CleanedQueues, SMTT(30)
<1>10. /\ Connects' /\ opening' \subseteq Calls /\ connecting' \subseteq Keys
       /\ IsFiniteSet(Asked') /\ Asked \subseteq Asked' /\ connecting' \subseteq Asked'
       /\ Cardinality(connecting') = Cardinality(connecting) - 1
  BY <1>2, <1>7, ConnectGone, SMTT(30)
<1>11. acquired \in Nat /\ Cardinality(connecting) \in Nat
       /\ \A q \in Calls : lease[q] \in Conns \union {NoConn}
  BY Finite, Zenon DEF PoolInv, TypeOK
<1>12. CASE /\ stat[r] # "canceled" /\ stat' = [stat EXCEPT ![r] = "leased"]
            /\ lease' = [lease EXCEPT ![r] = c] /\ acquired' = acquired + 1 /\ available' = available
  <2>1. /\ stat'[r] = "leased" /\ lease'[r] = c /\ \A q \in Calls : q # r => lease'[q] = lease[q]
        /\ stat' \in [Calls -> {"new", "opening", "queued", "leased", "done", "failed", "canceled"}]
        /\ lease' \in [Calls -> Conns \union {NoConn}]
    BY <1>12, SMTT(30) DEF PoolInv, TypeOK
  <2>2. TypeOK'
    <3>1. TypeOK
      BY Zenon DEF PoolInv
    <3>2. QED
      BY <1>2, <1>5, <1>6, <1>9, <1>10, <1>12, <2>1, <3>1, SMTT(30) DEF TypeOK
  <2>3. Held' /\ Keyed' /\ Owned'
    <3>1. Held'
      <4>1. Held
        BY SMTT(30) DEF PoolInv
      <4>2. QED
        BY <1>4, <1>7, <2>1, <4>1, ZenonT(60) DEF Held
    <3>2. Keyed'
      <4>1. Keyed /\ key' = key
        BY <1>2, SMTT(30) DEF PoolInv
      <4>2. ASSUME NEW q \in Calls
            PROVE  /\ stat'[q] \in {"opening", "queued", "leased", "canceled"} => key'[q] \in Keys
                   /\ stat'[q] = "new" => key'[q] = NoKey
        <5>1. CASE q = r
          BY <1>3, <2>1, <4>1, <5>1, Zenon
        <5>2. CASE q # r
          BY <1>7, <4>1, <5>2, Zenon DEF Keyed
        <5>3. QED
          BY <5>1, <5>2, Zenon
      <4>3. QED
        BY <4>2, Zenon DEF Keyed
    <3>3. Owned'
      BY <1>4, <1>5, <1>11, <2>1, SMTT(30) DEF PoolInv, Owned
    <3>4. QED
      BY <3>1, <3>2, <3>3, SMTT(30)
  <2>4. Stored'
    <3>1. \A q \in Calls : lease'[q] = lease[q] \/ lease'[q] = c
      BY <2>1, Zenon
    <3>2. ASSUME NEW l \in Keys, NEW i \in 1 .. Len(available[l])
          PROVE  /\ quality'[available[l][i]] # "none"
                 /\ \A q \in Calls : lease'[q] # available[l][i]
      <4>1. available[l][i] # c /\ available[l][i] \in Conns
        BY <1>4, Zenon
      <4>2. quality[available[l][i]] # "none" /\ \A q \in Calls : lease[q] # available[l][i]
        BY IdleFacts, ZenonT(60)
      <4>3. QED
        BY <1>5, <3>1, <4>1, <4>2, SMTT(30)
    <3>3. QED
      BY <1>12, <3>2, SameIdle, Zenon
  <2>5. Counted'
    <3>1. acquired' = Cardinality(Leased') /\ acquired' \in Nat
      <4>1. stat[r] # "leased" /\ stat' = [stat EXCEPT ![r] = "leased"]
        BY <1>3, <1>12, Zenon
      <4>2. Cardinality(Leased') = acquired + 1
        BY <4>1, LeasedMore, ZenonT(60)
      <4>3. QED
        BY <1>11, <1>12, <4>2
    <3>2. acquired' + Cardinality(connecting') <= acquired + Cardinality(connecting)
      BY <1>10, <1>11, <1>12
    <3>3. QED
      BY <1>10, <3>1, <3>2, BoundKept, SMTT(30) DEF Counted
  <2>6. Promise!LeaseNext
    BY <1>3, <1>4, <1>12, SeesGrant, ZenonT(60) DEF PoolInv
  <2>7. QED
    BY <1>9, <1>10, <2>2, <2>3, <2>4, <2>5, <2>6, SMTT(30) DEF PoolInv
<1>13. CASE /\ stat[r] = "canceled" /\ UNCHANGED <<stat, lease, acquired>>
            /\ available' = [available EXCEPT ![key[r]] = Append(available[key[r]], c)]
  <2>1. \A l \in Keys : \A i \in 1 .. Len(available[l]) :
            available[l][i] # c /\ quality'[available[l][i]] # "none"
    BY <1>4, <1>5, IdleFacts, ZenonT(60)
  <2>2. \A q \in Calls : lease'[q] # c /\ lease'[q] \in {lease[q], NoConn}
    BY <1>4, <1>13, Zenon
  <2>3. quality'[c] # "none"
    BY <1>5, Zenon
  <2>4. available' \in [Keys -> Seq(Conns)] /\ Stored'
    BY <1>3, <1>13, <2>1, <2>2, <2>3, Store, ZenonT(60)
  <2>5. TypeOK'
    <3>1. TypeOK
      BY Zenon DEF PoolInv
    <3>2. UNCHANGED <<stat, lease, acquired>>
      BY <1>13, Zenon
    <3>3. QED
      BY <1>2, <1>5, <1>6, <1>9, <1>10, <2>4, <3>1, <3>2, SMTT(30) DEF TypeOK
  <2>6. Held' /\ Keyed' /\ Owned'
    <3>1. UNCHANGED <<stat, lease, key>>
      BY <1>2, <1>13, Zenon
    <3>2. Held' /\ Keyed'
      BY <3>1, Untouched, ZenonT(60)
    <3>3. Owned'
      <4>1. \A q \in Calls : lease[q] # NoConn => quality'[lease[q]] = quality[lease[q]]
        BY <1>4, <1>5, <1>11, Zenon
      <4>2. QED
        BY <3>1, <4>1, Zenon DEF PoolInv, Owned
    <3>4. QED
      BY <3>2, <3>3, Zenon
  <2>7. Counted'
    <3>1. acquired' = Cardinality(Leased') /\ acquired' \in Nat
      <4>1. stat' = stat /\ acquired' = acquired
        BY <1>13, Zenon
      <4>2. Cardinality(Leased') = acquired
        BY <4>1, LeasedSame, Zenon
      <4>3. QED
        BY <1>11, <4>1, <4>2, Zenon
    <3>2. acquired' + Cardinality(connecting') <= acquired + Cardinality(connecting)
      BY <1>10, <1>11, <1>13, SMTT(30)
    <3>3. QED
      BY <1>10, <3>1, <3>2, BoundKept, Zenon DEF Counted
  <2>8. UNCHANGED Promise!leaseVars
    BY <1>13, ZenonT(60) DEF Promise!leaseVars
  <2>9. QED
    BY <1>9, <1>10, <2>4, <2>5, <2>6, <2>7, <2>8, SMTT(30) DEF PoolInv
<1>14. QED
  BY <1>1, <1>12, <1>13, Zenon DEF Deliver

(* A lease that ends, with its connection closed or back in the idle list *)
LEMMA ReturnKeeps ==
  ASSUME PoolInv, NEW r \in Calls, DropLease(r) \/ \E force \in BOOLEAN : Release(r, force)
  PROVE  PoolInv' /\ Promise!LeaseNext
<1> DEFINE c == lease[r]
<1>1. /\ stat[r] = "leased" /\ stat' = [stat EXCEPT ![r] = "done"]
      /\ lease' = [lease EXCEPT ![r] = NoConn] /\ acquired' = acquired - 1
      /\ waiters' = [k \in Keys |-> cleanup(waiters[k])] /\ waker' \in BOOLEAN
      /\ UNCHANGED <<pool, connecting, task, todo, key, opening>>
  BY ZenonT(60) DEF DropLease, Release, GiveBack, check_availibility, Leased, PoolInv, TypeOK
<1>2. c \in Conns /\ c # NoConn /\ key[r] \in Keys /\ quality[c] # "none"
  BY <1>1, Zenon DEF PoolInv, TypeOK, Held, Keyed, Owned
<1>3. /\ stat' \in [Calls -> {"new", "opening", "queued", "leased", "done", "failed", "canceled"}]
      /\ stat'[r] = "done" /\ \A q \in Calls : q # r => stat'[q] = stat[q]
      /\ lease' \in [Calls -> Conns \union {NoConn}] /\ lease'[r] = NoConn
      /\ \A q \in Calls : q # r => lease'[q] = lease[q] /\ lease[q] # c
  BY <1>1, <1>2, Zenon DEF PoolInv, TypeOK, Owned
<1>4. waiters' \in [Keys -> Seq(Calls)] /\ Queued'
  <2>1. \A q \in Calls : stat[q] \in {"queued", "canceled"} => stat'[q] = stat[q]
    BY <1>1, <1>3, Zenon
  <2>2. QED
    BY <1>1, <2>1, CleanedQueues, Zenon
<1>5. \A l \in Keys : \A i \in 1 .. Len(available[l]) :
        available[l][i] \in Conns /\ available[l][i] # c /\ quality[available[l][i]] # "none"
  BY SMTT(30) DEF PoolInv, TypeOK, Stored
<1>6. /\ available' \in [Keys -> Seq(Conns)] /\ quality' \in [Conns -> {"none", "clean", "bad"}]
      /\ home' \in [Conns -> Keys \union {NoKey}] /\ Stored'
      /\ \A d \in Conns : d # c => quality'[d] = quality[d]
  <2>1. CASE /\ quality' = [quality EXCEPT ![c] = "none"] /\ home' = [home EXCEPT ![c] = NoKey]
             /\ available' = available
    <3>1. /\ quality' \in [Conns -> {"none", "clean", "bad"}] /\ home' \in [Conns -> Keys \union {NoKey}]
          /\ \A d \in Conns : d # c => quality'[d] = quality[d]
      BY <2>1, ZenonT(60) DEF PoolInv, TypeOK
    <3>2. \A l \in Keys : \A i \in 1 .. Len(available[l]) :
            /\ quality'[available[l][i]] # "none"
            /\ \A q \in Calls : lease'[q] # available[l][i]
      <4>1. SUFFICES ASSUME NEW l \in Keys, NEW i \in 1 .. Len(available[l])
                     PROVE  /\ quality'[available[l][i]] # "none"
                            /\ \A q \in Calls : lease'[q] # available[l][i]
        BY Zenon
      <4>2. /\ available[l][i] \in Conns /\ available[l][i] # c /\ available[l][i] # NoConn
            /\ quality[available[l][i]] # "none"
        BY <1>5, PoolAssumption, Zenon
      <4>3. \A q \in Calls : lease[q] # available[l][i]
        BY SMTT(30) DEF PoolInv, Stored
      <4>4. QED
        BY <1>3, <3>1, <4>2, <4>3, Zenon
    <3>3. Stored'
      BY <2>1, <3>2, SameIdle, Zenon
    <3>4. QED
      BY <2>1, <3>1, <3>3, Zenon DEF PoolInv, TypeOK
  <2>2. CASE /\ available' = [available EXCEPT ![key[r]] = Append(available[key[r]], c)]
             /\ UNCHANGED <<quality, home>>
    <3>1. \A q \in Calls : lease'[q] # c /\ lease'[q] \in {lease[q], NoConn}
      BY <1>2, <1>3, Zenon
    <3>2. \A l \in Keys : \A i \in 1 .. Len(available[l]) :
            available[l][i] # c /\ quality'[available[l][i]] # "none"
      BY <1>5, <2>2, Zenon
    <3>3. quality'[c] # "none"
      BY <1>2, <2>2, Zenon
    <3> HIDE DEF c
    <3>4. available' \in [Keys -> Seq(Conns)] /\ Stored'
      BY <1>2, <2>2, <3>1, <3>2, <3>3, Store, ZenonT(60)
    <3>5. QED
      BY <2>2, <3>4, Zenon DEF PoolInv, TypeOK
  <2>3. QED
    <3>1. CASE DropLease(r)
      BY <2>1, <3>1, Zenon DEF DropLease
    <3>2. CASE \E force \in BOOLEAN : Release(r, force)
      BY <2>1, <2>2, <3>2, ZenonT(60) DEF Release, connVars
    <3>3. QED
      BY <3>1, <3>2, Zenon
<1>7. acquired - 1 \in Nat /\ acquired' = Cardinality(Leased')
  BY <1>1, LeasedLess, ZenonT(60)
<1>8. TypeOK'
  BY <1>1, <1>3, <1>4, <1>6, <1>7, SMTT(30) DEF PoolInv, TypeOK
<1>9. Held' /\ Keyed'
  <2>1. \A q \in Calls : lease'[q] # NoConn <=> stat'[q] = "leased"
    BY <1>3, Zenon DEF PoolInv, Held
  <2>2. \A q \in Calls : key'[q] = key[q]
    BY <1>1, SMTT(30)
  <2>3. QED
    BY <1>3, <2>1, <2>2, Zenon DEF PoolInv, Held, Keyed
<1>10. Owned'
  <2>1. \A q \in Calls : lease'[q] # NoConn =>
            q # r /\ lease'[q] = lease[q] /\ lease[q] \in Conns /\ lease[q] # c
    BY <1>3, SMTT(30) DEF PoolInv, TypeOK
  <2>2. \A q \in Calls : lease'[q] # NoConn => quality'[lease'[q]] # "none"
    <3>1. \A q \in Calls : lease[q] # NoConn => quality[lease[q]] # "none"
      BY Zenon DEF PoolInv, Owned
    <3>2. \A q \in Calls : lease'[q] # NoConn =>
            quality'[lease'[q]] = quality[lease[q]] /\ lease[q] # NoConn
      BY <1>6, <2>1, Zenon
    <3>3. QED
      BY <3>1, <3>2, Zenon
  <2>3. QED
    BY <2>1, <2>2, SMTT(30) DEF PoolInv, Owned
<1>11. Connects'
  <2>1. \A q \in opening : q \in Calls /\ q # r
    BY <1>1, Zenon DEF PoolInv, TypeOK, Connects
  <2>2. QED
    BY <1>1, <1>3, <2>1 DEF PoolInv, Connects
<1>12. Counted'
  <2>1. Asked' = Asked /\ connecting' = connecting
    BY <1>1, SMTT(30) DEF Asked
  <2>2. acquired' + Cardinality(connecting') <= acquired + Cardinality(connecting)
    BY <1>1, <2>1, Finite DEF PoolInv, TypeOK
  <2>3. IsFiniteSet(Asked') /\ connecting' \subseteq Asked' /\ Asked \subseteq Asked' /\ acquired' \in Nat
    BY <1>1, <1>7, <2>1, Finite, Zenon
  <2>4. QED
    BY <1>7, <2>2, <2>3, BoundKept, SMTT(30) DEF Counted
<1>13. Promise!LeaseNext
  BY <1>1, SeesReturn, ZenonT(60) DEF PoolInv
<1>14. QED
  BY <1>4, <1>6, <1>8, <1>9, <1>10, <1>11, <1>12, <1>13, Zenon DEF PoolInv

-----------------------------------------------------------------------------
(* The support task *)

(* One turn of its loop: the first waiter of a key *)
LEMMA ServeKeeps ==
  ASSUME PoolInv, NEW k \in Keys, Serve(k)
  PROVE  PoolInv' /\ (Promise!LeaseNext \/ UNCHANGED Promise!leaseVars)
<1> DEFINE r == Head(waiters[k])
<1>1. /\ waiters[k] # <<>> /\ waiters[k] \in Seq(Calls) /\ k \in todo /\ todo \subseteq Keys
      /\ UNCHANGED <<pool, waker, task, key>>
  BY Zenon DEF Serve, PoolInv, TypeOK
<1>2. r \in Calls /\ r = waiters[k][1] /\ 1 \in 1 .. Len(waiters[k])
  BY <1>1, SMTT(30)
<1>3. r \notin opening /\ key[r] = k /\ stat[r] \in {"queued", "canceled"}
  BY <1>2 DEF PoolInv, Queued
<1>4. ASSUME waiters' = [waiters EXCEPT ![k] = Tail(waiters[k])]
      PROVE  /\ waiters' \in [Keys -> Seq(Calls)]
             /\ \A l \in Keys : Shorter(waiters[l], waiters'[l])
             /\ \A l \in Keys : \A i \in 1 .. Len(waiters'[l]) : waiters'[l][i] # r
  <2>1. /\ Tail(waiters[k]) \in Seq(Calls) /\ Shorter(waiters[k], Tail(waiters[k]))
        /\ \A i \in 1 .. Len(Tail(waiters[k])) :
                \E j \in 1 .. Len(waiters[k]) : j # 1 /\ Tail(waiters[k])[i] = waiters[k][j]
    BY <1>1, TailShorter, ZenonT(60)
  <2>2. /\ waiters' \in [Keys -> Seq(Calls)] /\ waiters'[k] = Tail(waiters[k])
        /\ \A l \in Keys : l # k => waiters'[l] = waiters[l]
    BY <1>4, <2>1, Zenon DEF PoolInv, TypeOK
  <2>3. ASSUME NEW l \in Keys
        PROVE  Shorter(waiters[l], waiters'[l])
    <3>1. CASE l = k
      BY <2>1, <2>2, <3>1, Zenon
    <3>2. CASE l # k
      <4>1. waiters[l] \in Seq(Calls)
        BY Zenon DEF PoolInv, TypeOK
      <4>2. QED
        BY <2>2, <3>2, <4>1, SameShorter, ZenonT(60)
    <3>3. QED
      BY <3>1, <3>2, Zenon
  <2>4. ASSUME NEW l \in Keys, NEW i \in 1 .. Len(waiters'[l])
        PROVE  waiters'[l][i] # r
    <3>1. PICK j \in 1 .. Len(waiters[l]) : waiters'[l][i] = waiters[l][j] /\ (l # k \/ j # 1)
      BY <2>1, <2>2, ZenonT(60)
    <3>2. waiters[l][j] = waiters[k][1] => l = k /\ j = 1
      BY <1>2, OnePlace, Zenon
    <3>3. QED
      BY <1>2, <3>1, <3>2, Zenon
  <2>5. QED
    BY <2>2, <2>3, <2>4, Zenon
<1> HIDE DEF r
<1>5. CASE /\ stat[r] = "canceled" /\ waiters' = [waiters EXCEPT ![k] = Tail(waiters[k])]
           /\ UNCHANGED <<todo, stat, lease, acquired, available, connecting, opening, connVars>>
  <2>1. ASSUME NEW l \in Keys, NEW i \in 1 .. Len(waiters'[l])
        PROVE  /\ waiters'[l][i] \notin opening' /\ key'[waiters'[l][i]] = l
               /\ stat'[waiters'[l][i]] \in {"queued", "canceled"}
    <3>1. PICK j \in 1 .. Len(waiters[l]) : waiters'[l][i] = waiters[l][j]
      BY <1>4, <1>5, ZenonT(60) DEF Shorter
    <3>2. opening' = opening /\ key' = key /\ stat' = stat
      BY <1>1, <1>5, Zenon
    <3>3. QED
      BY <3>1, <3>2, WaiterFacts, ZenonT(60)
  <2>2. Queued'
    BY <1>4, <1>5, <2>1, QueuesShorten, ZenonT(60)
  <2>3. /\ UNCHANGED <<pool, waker, task, key, todo, stat, lease, acquired, available, connecting>>
        /\ UNCHANGED <<opening, quality, home>> /\ waiters' \in [Keys -> Seq(Calls)]
    BY <1>1, <1>4, <1>5, ZenonT(60) DEF connVars
  <2>4. TypeOK'
    BY <2>3, SMTT(30) DEF PoolInv, TypeOK
  <2>5. Held' /\ Keyed' /\ Owned' /\ Stored' /\ Connects' /\ Counted'
    BY <2>3, Untouched, Zenon
  <2>6. QED
    BY <2>2, <2>3, <2>4, <2>5, Zenon DEF PoolInv, Promise!leaseVars
<1>6. CASE /\ stat[r] # "canceled" /\ (Reuse(r, k) \/ Open(r, k))
           /\ waiters' = [waiters EXCEPT ![k] = Tail(waiters[k])] /\ todo' = todo
  <2>1. key' = [key EXCEPT ![r] = k]
    BY <1>1, <1>2, <1>3, Zenon DEF PoolInv, TypeOK
  <2>2. Turn(r, k)
    BY <1>1, <1>3, <1>4, <1>6, <2>1, ZenonT(60) DEF Turn
  <2>3. QED
    BY <1>2, <1>6, <2>2, ReuseKeeps, OpenKeeps, ZenonT(60)
<1>7. CASE Busy(k) /\ PutOff(k) /\ UNCHANGED stat
  <2>1. /\ available' \in [Keys -> Seq(Conns)]
        /\ quality' \in [Conns -> {"none", "clean", "bad"}]
        /\ home' \in [Conns -> Keys \union {NoKey}]
        /\ Owned' /\ Stored' /\ UNCHANGED <<acquired, connecting, opening, lease>>
    BY <1>7, BusyKeeps, SMTT(30)
  <2>2. todo' \subseteq Keys /\ waiters' = waiters
    BY <1>1, <1>7, SMTT(30) DEF PutOff
  <2>3. TypeOK'
    BY <1>1, <1>7, <2>1, <2>2, Zenon DEF PoolInv, TypeOK
  <2>4. Held' /\ Keyed' /\ Queued' /\ Connects' /\ Counted'
    BY <1>1, <1>7, <2>1, <2>2, SMTT(30) DEF PoolInv, Held, Keyed, Queued, Connects, Counted, Leased, Asked
  <2>5. QED
    BY <1>7, <2>1, <2>3, <2>4, SMTT(30) DEF PoolInv, Promise!leaseVars
<1>8. QED
  BY <1>5, <1>6, <1>7, SMTT(30) DEF Serve, r

(* The other turns of the task, the stop of the pool and a transport that    *)
(* goes bad: nothing a caller sees, and no call, lease or connect changes.   *)
LEMMA QuietKeeps ==
  ASSUME PoolInv,
         \/ Shutdown \/ DropPool \/ Wake \/ Exit \/ EndPass
         \/ (\E k \in Keys : NextKey(k)) \/ (\E c \in Conns : Spoil(c))
  PROVE  PoolInv' /\ UNCHANGED Promise!leaseVars
<1> USE DEF poolVars, callVars, connVars
<1>1. UNCHANGED <<acquired, available, connecting, stat, key, lease, opening, home>>
  BY SMTT(30) DEF Shutdown, DropPool, Wake, Exit, EndPass, NextKey, Spoil
<1>2. /\ quality' \in [Conns -> {"none", "clean", "bad"}]
      /\ \A c \in Conns : quality[c] # "none" => quality'[c] # "none"
  <2>1. CASE \E c \in Conns : Spoil(c)
    BY <2>1, Zenon DEF Spoil, PoolInv, TypeOK
  <2>2. CASE quality' = quality
    BY <2>2, SMTT(30) DEF PoolInv, TypeOK
  <2>3. QED
    BY <2>1, <2>2, SMTT(30) DEF Shutdown, DropPool, Wake, Exit, EndPass, NextKey
<1>3. waiters' \in [Keys -> Seq(Calls)] /\ Queued'
  <2>1. CASE waiters' = waiters
    BY <1>1, <2>1 DEF PoolInv, TypeOK, Queued
  <2>2. CASE waiters' = [k \in Keys |-> cleanup(waiters[k])]
    BY <1>1, <2>2, CleanedQueues, SMTT(30)
  <2>3. CASE waiters' = [k \in Keys |-> <<>>]
    <3>1. waiters' \in [Keys -> Seq(Calls)] /\ \A k \in Keys : Len(waiters'[k]) = 0
      BY <2>3
    <3>2. \A k \in Keys : \A i \in 1 .. Len(waiters'[k]) : FALSE
      BY <3>1, SMTT(30)
    <3>3. QED
      BY <3>1, <3>2, Zenon DEF Queued
  <2>4. QED
    BY <2>1, <2>2, <2>3, SMTT(30) DEF Shutdown, DropPool, Wake, Exit, EndPass, NextKey, Spoil
<1>4. /\ pool' \in {"up", "shut", "dropped"} /\ waker' \in BOOLEAN
      /\ task' \in {"spawned", "scan", "wait", "exited"} /\ todo' \subseteq Keys
  BY ZenonT(60) DEF Shutdown, DropPool, Wake, Exit, EndPass, NextKey, Spoil, PoolInv, TypeOK
<1>5. TypeOK'
  BY <1>1, <1>2, <1>3, <1>4, SMTT(30) DEF PoolInv, TypeOK
<1>6. Owned'
  <2>1. \A r \in Calls : lease[r] \in Conns \union {NoConn}
    BY Zenon DEF PoolInv, TypeOK
  <2>2. QED
    BY <1>1, <1>2, <2>1, Zenon DEF PoolInv, Owned
<1>7. Stored'
  <2>1. \A k \in Keys : \A i \in 1 .. Len(available[k]) : available[k][i] \in Conns
    BY DEF PoolInv, TypeOK
  <2>2. ASSUME NEW k \in Keys, NEW i \in 1 .. Len(available[k])
        PROVE  quality'[available[k][i]] # "none" /\ \A q \in Calls : lease'[q] # available[k][i]
    <3>1. quality[available[k][i]] # "none" /\ \A q \in Calls : lease[q] # available[k][i]
      BY IdleFacts, ZenonT(60)
    <3>2. QED
      BY <1>1, <1>2, <2>1, <3>1, Zenon
  <2>3. QED
    BY <1>1, <2>2, SameIdle, Zenon
<1>8. Held' /\ Keyed' /\ Connects' /\ Counted'
  BY <1>1, Zenon DEF PoolInv, Held, Keyed, Connects, Counted, Leased, Asked
<1>9. QED
  BY <1>1, <1>3, <1>5, <1>6, <1>7, <1>8, SMTT(30) DEF PoolInv, Promise!leaseVars

-----------------------------------------------------------------------------
(* The pool and its task *)

(* Every step keeps the invariant, and is a step of LeasePool or none. *)
LEMMA PoolStep ==
  ASSUME PoolInv, [Next]_vars
  PROVE  PoolInv' /\ [Promise!LeaseNext]_(Promise!leaseVars)
<1>1. CASE UNCHANGED vars
  <2>1. PoolInv'
    <3>1. /\ UNCHANGED <<pool, acquired, available, connecting, waker, waiters, task, todo>>
          /\ UNCHANGED <<stat, key, lease, opening, quality, home>>
      BY <1>1, Zenon DEF vars, poolVars, callVars, connVars
    <3>2. TypeOK'
      BY <3>1, SMTT(30) DEF PoolInv, TypeOK
    <3>3. QED
      BY <3>1, <3>2, Untouched, ZenonT(60) DEF PoolInv
  <2>2. UNCHANGED Promise!leaseVars
    BY <1>1, Zenon DEF vars, callVars, Promise!leaseVars
  <2>3. QED
    BY <2>1, <2>2, Zenon
<1>2. ASSUME NEW r \in Calls, NEW k \in Keys, Call(r, k)
      PROVE  PoolInv' /\ [Promise!LeaseNext]_(Promise!leaseVars)
  BY <1>2, CallKeeps, Zenon
<1>3. ASSUME NEW r \in Calls, CallUnresolved(r) \/ Cancel(r)
      PROVE  PoolInv' /\ [Promise!LeaseNext]_(Promise!leaseVars)
  BY <1>3, GivenUpKeeps, Zenon
<1>4. ASSUME NEW r \in Calls, OpenFailed(r)
      PROVE  PoolInv' /\ [Promise!LeaseNext]_(Promise!leaseVars)
  BY <1>4, OpenFailedKeeps, Zenon
<1>5. ASSUME NEW r \in Calls, Opened(r)
      PROVE  PoolInv' /\ [Promise!LeaseNext]_(Promise!leaseVars)
  BY <1>5, OpenedKeeps, Zenon
<1>6. ASSUME NEW r \in Calls, DropLease(r) \/ \E force \in BOOLEAN : Release(r, force)
      PROVE  PoolInv' /\ [Promise!LeaseNext]_(Promise!leaseVars)
  BY <1>6, ReturnKeeps, Zenon
<1>7. ASSUME NEW k \in Keys, Serve(k)
      PROVE  PoolInv' /\ [Promise!LeaseNext]_(Promise!leaseVars)
  BY <1>7, ServeKeeps, Zenon
<1>8. CASE \/ Shutdown \/ DropPool \/ Wake \/ Exit \/ EndPass
           \/ (\E k \in Keys : NextKey(k)) \/ (\E c \in Conns : Spoil(c))
  BY <1>8, QuietKeeps, Zenon
<1>9. QED
  BY <1>1, <1>2, <1>3, <1>4, <1>5, <1>6, <1>7, <1>8, ZenonT(60) DEF Next, Task

(* The pool starts empty. *)
LEMMA PoolStart ==
  ASSUME Init
  PROVE  PoolInv /\ Promise!LeaseInit
<1>1. TypeOK /\ Held /\ Keyed /\ Owned
  <2>1. <<>> \in Seq(Conns) /\ <<>> \in Seq(Calls)
    OBVIOUS
  <2>2. available \in [Keys -> Seq(Conns)] /\ waiters \in [Keys -> Seq(Calls)]
    BY <2>1, Zenon DEF Init
  <2>3. /\ stat \in [Calls -> {"new", "opening", "queued", "leased", "done", "failed", "canceled"}]
        /\ key \in [Calls -> Keys \union {NoKey}] /\ lease \in [Calls -> Conns \union {NoConn}]
        /\ quality \in [Conns -> {"none", "clean", "bad"}] /\ home \in [Conns -> Keys \union {NoKey}]
    BY Zenon DEF Init
  <2>4. TypeOK
    BY <2>2, <2>3, Zenon DEF Init, TypeOK
  <2>5. \A r \in Calls : stat[r] = "new" /\ key[r] = NoKey /\ lease[r] = NoConn
    BY Zenon DEF Init
  <2>6. QED
    BY <2>4, <2>5, Zenon DEF Held, Keyed, Owned
<1>2. \A k \in Keys : /\ \A i \in 1 .. Len(available[k]) : FALSE
                      /\ \A i \in 1 .. Len(waiters[k]) : FALSE
  BY DEF Init
<1>3. Stored /\ Queued
  BY <1>2, Zenon DEF Stored, Queued
<1>4. Connects /\ Leased = {} /\ Asked = {} /\ connecting = {} /\ acquired = 0
  BY Zenon DEF Init, Connects, Leased, Asked
<1>5. Counted
  BY <1>4, FS_EmptySet, PoolAssumption DEF Counted
<1>6. Promise!LeaseInit
  BY Zenon DEF Init, Promise!LeaseInit, seen
<1>7. QED
  BY <1>1, <1>3, <1>4, <1>5, <1>6, Zenon DEF PoolInv

(* PoolInv is an invariant of the pool. *)
LEMMA PoolInvariant == Spec => []PoolInv
<1>1. Init => PoolInv
  BY PoolStart, Zenon
<1>2. PoolInv /\ [Next]_vars => PoolInv'
  BY PoolStep, Zenon
<1>3. QED
  BY <1>1, <1>2, PTL DEF Spec

(* The counters Inner::acquire decides by are exact, and the limit is        *)
(* overshot by no more than one connection per authority asked for,          *)
(* whatever the number of calls, authorities and transports and the limit.   *)
THEOREM CountersAreExact == Spec => []Accounting
<1>1. PoolInv => Accounting
  BY Zenon DEF PoolInv, Connects, Counted, Asked, Accounting
<1>2. QED
  BY <1>1, PoolInvariant, PTL

(* The pool implements LeasePool: a call is answered at most once, with a    *)
(* connection that nobody else holds, and a lease ends once.                 *)
THEOREM PoolKeepsPromise == Spec => KeepsPromise
<1>1. Init => Promise!LeaseInit
  BY PoolStart, Zenon
<1>2. PoolInv /\ [Next]_vars => [Promise!LeaseNext]_(Promise!leaseVars)
  BY PoolStep, Zenon
<1>3. QED
  BY <1>1, <1>2, PoolInvariant, PTL DEF Spec, KeepsPromise, Promise!LeaseSpec

-----------------------------------------------------------------------------
(* No waiter is left behind.  A call that is queued is in the queue of its   *)
(* authority; and once the pass of the support task has gone past an         *)
(* authority whose waiters it could not serve, something will wake it.       *)
InLine(r) == \E i \in 1 .. Len(waiters[key[r]]) : waiters[key[r]][i] = r
Lined == \A r \in Calls : stat[r] = "queued" => InLine(r)
Foreseen(k) == waker \/ acquired >= Limit \/ k \in connecting
Passed ==
    /\ task # "scan" => todo = {}
    /\ Limit > 0 /\ task \in {"scan", "wait"} /\ ~stopped =>
        \A r \in Calls : stat[r] = "queued" /\ key[r] \notin todo => Foreseen(key[r])

(* A set of numbers has a least one. *)
LEMMA Smallest ==
  ASSUME NEW T, T \subseteq Nat, T # {}
  PROVE  \E x \in T : \A y \in T : x <= y
<1>1. PICK x \in T : \A y \in T : <<y, x>> \notin OpToRel(<, Nat)
  BY WFMin, NatLessThanWellFounded, Zenon
<1>2. \A y \in T : ~(y < x)
  BY <1>1, Zenon DEF OpToRel
<1>3. QED
  BY <1>2

(* Waiters::cleanup drops nobody who still waits. *)
LEMMA CleanupKeepsLive ==
  ASSUME NEW q \in Seq(Calls), NEW j \in 1 .. Len(q), stat[q[j]] # "canceled"
  PROVE  \E i \in 1 .. Len(cleanup(q)) : cleanup(q)[i] = q[j]
<1> DEFINE n == CHOOSE i \in FirstLive(q) : TRUE
<1>1. LiveIn(q) \subseteq Nat /\ LiveIn(q) # {} /\ j \in LiveIn(q) /\ LiveIn(q) \subseteq 1 .. Len(q)
  BY DEF LiveIn
<1>2. PICK x \in LiveIn(q) : \A y \in LiveIn(q) : x <= y
  BY <1>1, Smallest, Zenon
<1>3. x \in FirstLive(q)
  BY <1>2, Zenon DEF FirstLive
<1>4. n \in FirstLive(q)
  BY <1>3, Zenon
<1>5. cleanup(q) = SubSeq(q, n, Len(q))
  BY <1>3, Zenon DEF cleanup
<1> HIDE DEF n
<1>6. n \in 1 .. Len(q) /\ n <= j
  BY <1>1, <1>4, Zenon DEF FirstLive
<1>7. /\ Len(SubSeq(q, n, Len(q))) = Len(q) - n + 1
      /\ j - n + 1 \in 1 .. Len(q) - n + 1 /\ SubSeq(q, n, Len(q))[j - n + 1] = q[j]
  BY <1>6
<1>8. QED
  BY <1>5, <1>7, Zenon

(* A queued call is still in the line after the clean-up. *)
LEMMA CleanupKeepsQueued ==
  ASSUME NEW r, stat[r] = "queued", InLine(r), waiters[key[r]] \in Seq(Calls)
  PROVE  \E i \in 1 .. Len(cleanup(waiters[key[r]])) : cleanup(waiters[key[r]])[i] = r
<1>1. PICK q \in Seq(Calls) : q = waiters[key[r]]
  BY Zenon
<1>2. PICK j \in 1 .. Len(q) : q[j] = r
  BY <1>1, Zenon DEF InLine
<1>3. stat[q[j]] # "canceled"
  BY <1>2, Zenon
<1>4. \E i \in 1 .. Len(cleanup(q)) : cleanup(q)[i] = q[j]
  BY <1>3, CleanupKeepsLive, Zenon
<1> QED
  BY <1>1, <1>2, <1>4, Zenon

LEMMA SomebodyWaits ==
  ASSUME NEW w, NEW r, \E i \in 1 .. Len(w) : w[i] = r
  PROVE  w # <<>>
OBVIOUS

(* After check_availibility a queued call is still in its queue, and it will *)
(* be looked at unless every lease is out.                                   *)
LEMMA CheckSees ==
  ASSUME PoolInv, PoolInv', Lined, NEW acq, check_availibility(acq), acquired' = acq,
         \A q \in Calls : stat'[q] = "queued" => stat[q] = "queued" /\ key'[q] = key[q]
  PROVE  Lined' /\ \A r \in Calls : stat'[r] = "queued" => waker' \/ acquired' >= Limit
<1>1. waiters' = [k \in Keys |-> cleanup(waiters[k])]
  BY Zenon DEF check_availibility
<1>2. ASSUME NEW r \in Calls, stat'[r] = "queued"
      PROVE  key[r] \in Keys /\ InLine(r)'
  <2>1. stat[r] = "queued" /\ key'[r] = key[r] /\ key[r] \in Keys
    BY <1>2, Zenon DEF PoolInv, Keyed
  <2>2. InLine(r)
    BY <2>1, Zenon DEF Lined
  <2>3. waiters[key[r]] \in Seq(Calls) /\ waiters'[key[r]] = cleanup(waiters[key[r]])
    BY <1>1, <2>1, Zenon DEF PoolInv, TypeOK
  <2>4. \E i \in 1 .. Len(waiters'[key[r]]) : waiters'[key[r]][i] = r
    BY <2>1, <2>2, <2>3, CleanupKeepsQueued, Zenon
  <2>5. QED
    BY <2>1, <2>4, Zenon DEF InLine
<1>3. ASSUME NEW r \in Calls, stat'[r] = "queued"
      PROVE  waker' \/ acquired' >= Limit
  <2>1. key[r] \in Keys /\ key'[r] = key[r] /\ InLine(r)'
    BY <1>2, <1>3, Zenon
  <2>2. waiters'[key[r]] # <<>>
    BY <2>1, SomebodyWaits, Zenon DEF InLine
  <2>3. acq < Limit => waker'
    <3>1. cleanup(waiters[key[r]]) # <<>>
      BY <1>1, <2>1, <2>2, Zenon
    <3>2. waker' = \/ waker
                   \/ /\ \E k \in Keys : [l \in Keys |-> cleanup(waiters[l])][k] # <<>>
                      /\ acq < Limit
      BY Zenon DEF check_availibility
    <3>3. \E k \in Keys : [l \in Keys |-> cleanup(waiters[l])][k] # <<>>
      BY <2>1, <3>1, Zenon
    <3>4. QED
      BY <3>2, <3>3, Zenon
  <2>4. acquired' \in Nat /\ Limit \in Nat
    BY PoolAssumption, Zenon DEF PoolInv, TypeOK
  <2>5. acq < Limit \/ acquired' >= Limit
    BY <2>4
  <2>6. QED
    BY <2>3, <2>5, Zenon
<1>4. QED
  BY <1>2, <1>3, Zenon DEF Lined

(* Steps that put nobody in a queue, and take no lease or connect away. *)
LEMMA OthersWait ==
  ASSUME Lined, Passed, UNCHANGED <<waiters, todo, task>>, pool' = pool \/ pool' = "shut",
         \A q \in Calls : stat'[q] = "queued" => stat[q] = "queued" /\ key'[q] = key[q],
         waker => waker', acquired >= Limit => acquired' >= Limit, connecting \subseteq connecting'
  PROVE  Lined' /\ Passed'
<1>1. Lined'
  BY Zenon DEF Lined, InLine
<1>2. stopped => stopped'
  BY Zenon DEF stopped
<1>3. \A k : Foreseen(k) => Foreseen(k)'
  BY Zenon DEF Foreseen
<1>4. QED
  BY <1>1, <1>2, <1>3, Zenon DEF Passed

(* A call that is answered at once, or that has to wait *)
LEMMA CallLines ==
  ASSUME PoolInv, PoolInv', Lined, Passed, NEW r \in Calls, NEW k \in Keys, Call(r, k)
  PROVE  Lined' /\ Passed'
<1>1. /\ task # "scan" /\ stat[r] = "new" /\ key' = [key EXCEPT ![r] = k]
      /\ UNCHANGED <<pool, waker, task, todo>>
  BY Zenon DEF Call, Idle
<1>2. /\ \A q \in Calls : q # r => key'[q] = key[q]
      /\ key'[r] = k /\ acquired \in Nat /\ Limit \in Nat
      /\ stat \in [Calls -> {"new", "opening", "queued", "leased", "done", "failed", "canceled"}]
  BY <1>1, PoolAssumption, Zenon DEF PoolInv, TypeOK
<1>3. CASE (Reuse(r, k) \/ Open(r, k)) /\ UNCHANGED waiters
  <2>1. \A q \in Calls : stat'[q] = "queued" => stat[q] = "queued" /\ q # r
    BY <1>2, <1>3, Zenon DEF Reuse, Open
  <2>2. /\ acquired >= Limit => acquired' >= Limit
        /\ connecting \subseteq connecting'
    BY <1>2, <1>3 DEF Reuse, Open
  <2>3. QED
    BY <1>1, <1>2, <1>3, <2>1, <2>2, OthersWait, Zenon
<1>4. CASE /\ Busy(k) /\ stat' = [stat EXCEPT ![r] = "queued"]
           /\ waiters' = [waiters EXCEPT ![k] = Append(@, r)]
  <2>1. /\ waiters[k] \in Seq(Calls)
        /\ \A l \in Keys : l # k => waiters'[l] = waiters[l]
        /\ waiters'[k] = Append(waiters[k], r)
    BY <1>4, Zenon DEF PoolInv, TypeOK
  <2>2. /\ \A i \in 1 .. Len(waiters[k]) :
            i \in 1 .. Len(waiters'[k]) /\ waiters'[k][i] = waiters[k][i]
        /\ Len(waiters[k]) + 1 \in 1 .. Len(waiters'[k])
        /\ waiters'[k][Len(waiters[k]) + 1] = r
    BY <2>1
  <2>3. ASSUME NEW q \in Calls, stat'[q] = "queued"
        PROVE  InLine(q)'
    <3>1. CASE q = r
      BY <1>2, <2>2, <3>1, Zenon DEF InLine
    <3>2. CASE q # r
      <4>1. stat[q] = "queued" /\ key'[q] = key[q] /\ key[q] \in Keys
        BY <1>2, <1>4, <2>3, <3>2, Zenon DEF PoolInv, Keyed
      <4>2. PICK i \in 1 .. Len(waiters[key[q]]) : waiters[key[q]][i] = q
        BY <4>1, Zenon DEF Lined, InLine
      <4>3. i \in 1 .. Len(waiters'[key[q]]) /\ waiters'[key[q]][i] = q
        BY <2>1, <2>2, <4>1, <4>2, Zenon
      <4>4. QED
        BY <4>1, <4>3, Zenon DEF InLine
    <3>3. QED
      BY <3>1, <3>2, Zenon
  <2>4. acquired' = acquired /\ connecting' = connecting /\ (acquired >= Limit \/ k \in connecting)
    BY <1>4, Zenon DEF Busy, AtLimit
  <2>5. ASSUME Limit > 0, task' \in {"scan", "wait"}, ~stopped',
               NEW q \in Calls, stat'[q] = "queued", key'[q] \notin todo'
        PROVE  Foreseen(key[q])'
    <3>1. CASE q = r
      BY <1>2, <2>4, <3>1, Zenon DEF Foreseen
    <3>2. CASE q # r
      <4>1. stat[q] = "queued" /\ key'[q] = key[q] /\ ~stopped
        BY <1>1, <1>2, <1>4, <2>5, <3>2, Zenon DEF stopped
      <4>2. Foreseen(key[q])
        BY <1>1, <2>5, <4>1, Zenon DEF Passed
      <4>3. QED
        BY <1>1, <2>4, <4>1, <4>2 DEF Foreseen
    <3>3. QED
      BY <3>1, <3>2, Zenon
  <2>6. QED
    BY <1>1, <2>3, <2>5, Zenon DEF Lined, Passed
<1>5. QED
  BY <1>3, <1>4, Zenon DEF Call

(* The end of a connect task or of a lease: check_availibility looks for     *)
(* waiters.                                                                  *)
LEMMA EndsAreSeen ==
  ASSUME PoolInv, PoolInv', Lined, Passed, NEW r \in Calls,
         \/ OpenFailed(r) \/ Opened(r) \/ DropLease(r) \/ \E force \in BOOLEAN : Release(r, force)
  PROVE  Lined' /\ Passed'
<1>1. task # "scan" /\ UNCHANGED <<task, todo, key>>
  BY Zenon DEF OpenFailed, Opened, DropLease, Release, Idle
<1>2. check_availibility(acquired')
  <2>1. CASE OpenFailed(r)
    BY <2>1, Zenon DEF OpenFailed
  <2>2. CASE Opened(r)
    BY <2>2, Zenon DEF Opened, Deliver
  <2>3. CASE DropLease(r) \/ \E force \in BOOLEAN : Release(r, force)
    BY <2>3, Zenon DEF DropLease, Release, GiveBack
  <2>4. QED
    BY <2>1, <2>2, <2>3, Zenon
<1>3. \A q \in Calls : stat'[q] = "queued" => stat[q] = "queued" /\ key'[q] = key[q]
  <2>1. stat \in [Calls -> {"new", "opening", "queued", "leased", "done", "failed", "canceled"}]
    BY Zenon DEF PoolInv, TypeOK
  <2>2. \E x \in {"failed", "leased", "done", "canceled"} : stat' = [stat EXCEPT ![r] = x] \/ stat' = stat
    BY Zenon DEF OpenFailed, Opened, Deliver, DropLease, Release, GiveBack
  <2>3. QED
    BY <1>1, <2>1, <2>2, Zenon
<1>4. Lined' /\ \A q \in Calls : stat'[q] = "queued" => waker' \/ acquired' >= Limit
  BY <1>2, <1>3, CheckSees, Zenon
<1>5. Passed'
  BY <1>1, <1>4, Zenon DEF Passed, Foreseen
<1>6. QED
  BY <1>4, <1>5, Zenon

(* The pass of the support task *)
LEMMA PassGoesOn ==
  ASSUME PoolInv, PoolInv', Lined, Passed, NEW k \in Keys, Serve(k) \/ NextKey(k)
  PROVE  Lined' /\ Passed'
<1>1. task = "scan" /\ UNCHANGED <<pool, waker, task, key>>
  BY Zenon DEF Serve, NextKey, poolVars, callVars
<1>2. /\ stat \in [Calls -> {"new", "opening", "queued", "leased", "done", "failed", "canceled"}]
      /\ waiters \in [Keys -> Seq(Calls)] /\ acquired \in Nat /\ Limit \in Nat
  BY PoolAssumption, Zenon DEF PoolInv, TypeOK
<1>3. ASSUME NEW q \in Calls, stat[q] = "queued", key[q] = k PROVE waiters[k] # <<>>
  <2>1. PICK i \in 1 .. Len(waiters[k]) : waiters[k][i] = q
    BY <1>3, Zenon DEF Lined, InLine
  <2>2. QED
    BY <2>1
<1>4. CASE NextKey(k)
  <2>1. /\ waiters[k] = <<>> /\ todo' = todo \ {k}
        /\ UNCHANGED <<acquired, connecting, waiters, stat>>
    BY <1>4, Zenon DEF NextKey, poolVars, callVars
  <2>2. \A q \in Calls : stat[q] = "queued" => key[q] # k
    BY <1>3, <2>1, Zenon
  <2>3. Lined'
    BY <1>1, <2>1, Zenon DEF Lined, InLine
  <2>4. QED
    BY <1>1, <2>1, <2>2, <2>3, Zenon DEF Passed, Foreseen, stopped
<1>5. CASE Serve(k) /\ waiters' = [waiters EXCEPT ![k] = Tail(@)]
  <2> DEFINE r == Head(waiters[k])
  <2>1. /\ waiters[k] # <<>> /\ r \in Calls /\ r = waiters[k][1] /\ 1 \in 1 .. Len(waiters[k])
    BY <1>2, <1>5 DEF Serve
  <2>2. /\ UNCHANGED todo /\ connecting \subseteq connecting'
        /\ acquired >= Limit => acquired' >= Limit
        /\ stat'[r] # "queued" /\ \A q \in Calls : q # r => stat'[q] = stat[q]
    <3> HIDE DEF r
    <3>1. CASE /\ stat[r] = "canceled"
               /\ UNCHANGED <<todo, stat, lease, acquired, available, connecting, opening, connVars>>
      BY <3>1, Zenon
    <3>2. CASE Reuse(r, k) /\ UNCHANGED todo
      BY <1>2, <2>1, <3>2 DEF Reuse
    <3>3. CASE Open(r, k) /\ UNCHANGED todo
      BY <1>2, <2>1, <3>3, Zenon DEF Open
    <3>4. UNCHANGED waiters => FALSE
      <4>1. Len(Tail(waiters[k])) # Len(waiters[k])
        BY <1>2, <2>1
      <4>2. waiters'[k] = Tail(waiters[k])
        BY <1>2, <1>5, Zenon
      <4>3. QED
        BY <4>1, <4>2, Zenon
    <3>5. QED
      BY <1>5, <3>1, <3>2, <3>3, <3>4, Zenon DEF Serve, PutOff, r
  <2> HIDE DEF r
  <2>3. ASSUME NEW q \in Calls, stat'[q] = "queued"
        PROVE  InLine(q)' /\ stat[q] = "queued"
    <3>1. stat[q] = "queued" /\ q # r /\ key[q] \in Keys
      BY <2>2, <2>3, Zenon DEF PoolInv, Keyed
    <3>2. PICK i \in 1 .. Len(waiters[key[q]]) : waiters[key[q]][i] = q
      BY <3>1, Zenon DEF Lined, InLine
    <3>3. CASE key[q] = k
      <4>1. waiters'[k] = Tail(waiters[k]) /\ i # 1
        BY <1>2, <1>5, <2>1, <3>1, <3>2, <3>3, Zenon
      <4>2. i - 1 \in 1 .. Len(Tail(waiters[k])) /\ Tail(waiters[k])[i - 1] = q
        BY <1>2, <2>1, <3>2, <3>3, <4>1
      <4>3. QED
        BY <1>1, <3>1, <3>3, <4>1, <4>2, Zenon DEF InLine
    <3>4. CASE key[q] # k
      <4>1. waiters'[key[q]] = waiters[key[q]]
        BY <1>2, <1>5, <3>1, <3>4, Zenon
      <4>2. QED
        BY <1>1, <3>1, <3>2, <4>1, Zenon DEF InLine
    <3>5. QED
      BY <3>3, <3>4, Zenon
  <2>4. Lined'
    BY <2>3, Zenon DEF Lined
  <2>5. QED
    BY <1>1, <2>2, <2>3, <2>4, Zenon DEF Passed, Foreseen, stopped
<1>6. CASE Serve(k) /\ Busy(k) /\ PutOff(k) /\ UNCHANGED stat
  <2>1. /\ todo' = todo \ {k} /\ UNCHANGED <<waiters, acquired, connecting>>
        /\ acquired >= Limit \/ k \in connecting
    BY <1>6, Zenon DEF PutOff, Busy, AtLimit
  <2>2. Lined'
    BY <1>1, <1>6, <2>1, Zenon DEF Lined, InLine
  <2>3. QED
    BY <1>1, <1>6, <2>1, <2>2, Zenon DEF Passed, Foreseen, stopped
<1>7. QED
  BY <1>4, <1>5, <1>6, Zenon DEF Serve

(* The rest of the task, the stop of the pool, and what does not matter to a *)
(* waiter                                                                    *)
LEMMA RestLines ==
  ASSUME PoolInv, PoolInv', Lined, Passed,
         \/ Shutdown \/ DropPool \/ Wake \/ Exit \/ EndPass \/ UNCHANGED vars
         \/ (\E c \in Conns : Spoil(c)) \/ (\E r \in Calls : CallUnresolved(r) \/ Cancel(r))
  PROVE  Lined' /\ Passed'
<1>1. CASE \/ Shutdown \/ UNCHANGED vars
           \/ (\E c \in Conns : Spoil(c)) \/ (\E r \in Calls : CallUnresolved(r) \/ Cancel(r))
  <2>1. /\ UNCHANGED <<waiters, todo, task, key, waker, acquired, connecting>>
        /\ pool' = pool \/ pool' = "shut"
    BY <1>1, Zenon DEF Shutdown, vars, Spoil, CallUnresolved, Cancel, poolVars, callVars, connVars
  <2>2. \A q \in Calls : stat'[q] = "queued" => stat[q] = "queued"
    <3>1. stat \in [Calls -> {"new", "opening", "queued", "leased", "done", "failed", "canceled"}]
      BY Zenon DEF PoolInv, TypeOK
    <3>2. stat' = stat \/ \E r \in Calls : \E x \in {"failed", "canceled"} : stat' = [stat EXCEPT ![r] = x]
      BY <1>1, Zenon DEF Shutdown, vars, Spoil, CallUnresolved, Cancel, callVars
    <3>3. QED
      BY <3>1, <3>2, Zenon
  <2>3. QED
    BY <2>1, <2>2, OthersWait, Zenon
<1>2. CASE DropPool
  <2>1. /\ pool' = "dropped" /\ UNCHANGED <<task, todo, stat>>
        /\ \A q \in Calls : stat[q] # "queued"
    BY <1>2, Zenon DEF DropPool, callVars, Pending
  <2>2. QED
    BY <2>1, Zenon DEF Lined, Passed, stopped
<1>3. CASE Wake
  <2>1. /\ task' = "scan" /\ todo' = {k \in Keys : waiters[k] # <<>>}
        /\ UNCHANGED <<waiters, stat, key>>
    BY <1>3, Zenon DEF Wake, callVars
  <2>2. Lined'
    BY <2>1, Zenon DEF Lined, InLine
  <2>3. ASSUME NEW q \in Calls, stat[q] = "queued" PROVE key[q] \in todo'
    <3>1. key[q] \in Keys
      BY <2>3, Zenon DEF PoolInv, Keyed
    <3>2. waiters[key[q]] # <<>>
      BY <2>3, SomebodyWaits, Zenon DEF Lined, InLine
    <3>3. QED
      BY <2>1, <3>1, <3>2, Zenon
  <2>4. QED
    BY <2>1, <2>2, <2>3, Zenon DEF Passed
<1>4. CASE Exit
  <2>1. task' = "exited" /\ task = "wait" /\ UNCHANGED <<waiters, stat, key, todo>>
    BY <1>4, Zenon DEF Exit, poolVars, callVars
  <2>2. QED
    BY <2>1, Zenon DEF Lined, InLine, Passed
<1>5. CASE EndPass
  <2>1. /\ task = "scan" /\ todo = {} /\ task' = "wait"
        /\ waiters' = [k \in Keys |-> cleanup(waiters[k])]
        /\ UNCHANGED <<pool, acquired, connecting, waker, todo, stat, key>>
    BY <1>5, Zenon DEF EndPass, callVars
  <2>2. ASSUME NEW r \in Calls, stat'[r] = "queued" PROVE InLine(r)'
    <3>1. stat[r] = "queued" /\ key[r] \in Keys
      BY <2>1, <2>2, Zenon DEF PoolInv, Keyed
    <3>2. InLine(r)
      BY <3>1, Zenon DEF Lined
    <3>3. waiters[key[r]] \in Seq(Calls) /\ waiters'[key[r]] = cleanup(waiters[key[r]])
      BY <2>1, <3>1, Zenon DEF PoolInv, TypeOK
    <3>4. \E i \in 1 .. Len(waiters'[key[r]]) : waiters'[key[r]][i] = r
      BY <3>1, <3>2, <3>3, CleanupKeepsQueued, Zenon
    <3>5. QED
      BY <2>1, <3>4, Zenon DEF InLine
  <2>3. QED
    BY <2>1, <2>2, Zenon DEF Lined, Passed, Foreseen, stopped
<1>6. QED
  BY <1>1, <1>2, <1>3, <1>4, <1>5, Zenon

(* With a limit no waiter is left behind: while the support task sleeps, it  *)
(* has been woken, or every lease is out, or a connect to the authority of   *)
(* each waiter is under way.                                                 *)
THEOREM NobodyIsStranded == Spec => []NoStrandedWaiter
<1> DEFINE WaitInv == PoolInv /\ Lined /\ Passed
<1>1. Init => WaitInv
  <2> SUFFICES ASSUME Init PROVE WaitInv
    BY Zenon
  <2>1. \A r \in Calls : stat[r] # "queued"
    BY Zenon DEF Init
  <2>2. task = "spawned" /\ todo = {}
    BY Zenon DEF Init
  <2>3. QED
    BY <2>1, <2>2, PoolStart, Zenon DEF Lined, Passed
<1>2. WaitInv /\ [Next]_vars => WaitInv'
  <2> SUFFICES ASSUME PoolInv, Lined, Passed, [Next]_vars PROVE WaitInv'
    BY Zenon
  <2>1. PoolInv'
    BY PoolStep, Zenon
  <2>2. ASSUME NEW r \in Calls, NEW k \in Keys, Call(r, k) PROVE Lined' /\ Passed'
    BY <2>1, <2>2, CallLines, Zenon
  <2>3. ASSUME NEW r \in Calls,
               \/ OpenFailed(r) \/ Opened(r) \/ DropLease(r) \/ \E force \in BOOLEAN : Release(r, force)
        PROVE  Lined' /\ Passed'
    BY <2>1, <2>3, EndsAreSeen, Zenon
  <2>4. ASSUME NEW k \in Keys, Serve(k) \/ NextKey(k) PROVE Lined' /\ Passed'
    BY <2>1, <2>4, PassGoesOn, Zenon
  <2>5. CASE \/ Shutdown \/ DropPool \/ Wake \/ Exit \/ EndPass \/ UNCHANGED vars
             \/ (\E c \in Conns : Spoil(c)) \/ (\E r \in Calls : CallUnresolved(r) \/ Cancel(r))
    BY <2>1, <2>5, RestLines, Zenon
  <2>6. Lined' /\ Passed'
    BY <2>2, <2>3, <2>4, <2>5, ZenonT(60) DEF Next, Task
  <2>7. QED
    BY <2>1, <2>6, Zenon
<1>3. WaitInv => NoStrandedWaiter
  BY Zenon DEF Passed, Foreseen, NoStrandedWaiter
<1>4. QED
  BY <1>1, <1>2, <1>3, PTL DEF Spec

=============================================================================
