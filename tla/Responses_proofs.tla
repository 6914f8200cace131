------------------------- MODULE Responses_proofs -------------------------
(***************************************************************************)
(* What a client is given: its own response, and its body as it was sent.  *)
(*                                                                         *)
(* The pool of the C client gives nobody another request's response, for   *)
(* any number of requests, connections and origins.  H1Exclusive and       *)
(* OwnAnswer need each other: a request finds only its own response        *)
(* because nobody else has the connection, and a connection that is ready  *)
(* has no response to come because only its one holder sends on it.        *)
(* Replies says the latter, at every stage of a request.                   *)
(*                                                                         *)
(* The content codings are exact for bodies of any length and any limit of *)
(* the collector.  At says which part of the coded body a buffer holds;    *)
(* the invariant follows the body through the encoder, the wire, the       *)
(* decoder and the collector as consecutive parts, none lost between.      *)
(***************************************************************************)
EXTENDS FfiPool, ContentCoding, SequenceTheorems, TLAPS

Using == {"leased", "sent", "drained"}

(* Who has a lease, and where it leads *)
Leases ==
    \A r \in Req : /\ lease[r] # None <=> stage[r] \in Using
                   /\ lease[r] # None => at[lease[r]] = origin[r]

(* Only an HTTP/2 connection has two holders. *)
Exclusive ==
    \A r, q \in Req : r # q /\ lease[r] # None /\ lease[r] = lease[q] => proto[lease[r]] = "h2"

(* What the pool keeps *)
Parked ==
    \A o \in Origin :
        /\ \A i \in 1 .. Len(h1_idle[o]) :
            /\ proto[h1_idle[o][i]] = "h1" /\ at[h1_idle[o][i]] = o
            /\ \A r \in Req : lease[r] # h1_idle[o][i]
        /\ \A i, j \in 1 .. Len(h1_idle[o]) : h1_idle[o][i] = h1_idle[o][j] => i = j
Shared == \A o \in Origin : h2[o] # None => proto[h2[o]] = "h2" /\ at[h2[o]] = o

(* Whose response comes next on an HTTP/1 connection *)
Replies ==
    /\ \A c \in Conn : proto[c] = "h1" /\ st[c] = "ready" => owed[c] = None
    /\ \A r \in Req : stage[r] = "leased" /\ proto[lease[r]] = "h1" => owed[lease[r]] = None
    /\ \A r \in Req : stage[r] = "sent" /\ proto[lease[r]] = "h1" /\ st[lease[r]] # "dead"
            => owed[lease[r]] = r

PoolInv == TypeOK /\ Leases /\ Exclusive /\ Parked /\ Shared /\ Replies

-----------------------------------------------------------------------------
(* A step of connect before there is a connection changes nothing but the    *)
(* stage.                                                                    *)
LEMMA StageOnly ==
  ASSUME PoolInv, NEW r \in Req, NEW s \in Stages \ Using, stage[r] \notin Using, Go(r, s),
         UNCHANGED <<pool, origin, lease, wire, client>>
  PROVE  PoolInv'
<1> USE DEF pool, wire, Go
<1>1. TypeOK'
  BY Zenon DEF PoolInv, TypeOK
<1>2. stage' = [stage EXCEPT ![r] = s] /\ \A q \in Req : q # r => stage'[q] = stage[q]
  BY Zenon DEF PoolInv, TypeOK
<1>3. stage'[r] = s
  BY Zenon DEF PoolInv, TypeOK
<1>4. Leases'
  BY <1>2, <1>3, Zenon DEF PoolInv, Leases, Using
<1>5. Exclusive' /\ Parked' /\ Shared'
  BY DEF PoolInv, Exclusive, Parked, Shared
<1>6. Replies'
  BY <1>2, <1>3, Zenon DEF PoolInv, Replies, Using
<1>7. QED
  BY <1>1, <1>4, <1>5, <1>6, Zenon DEF PoolInv

(* checkout takes the shared HTTP/2 connection, the newest idle one that is  *)
(* ready, or none and then forgets the idle ones.                            *)
LEMMA CheckoutKeeps ==
  ASSUME PoolInv, NEW r \in Req, NEW o \in Origin, Checkout(r, o), UNCHANGED client
  PROVE  PoolInv'
<1> USE DEF pool, wire, Go
<1>1. /\ stage[r] = "idle" /\ lease[r] = None /\ origin' = [origin EXCEPT ![r] = o]
      /\ UNCHANGED <<proto, at, st, owed, client>>
  BY Zenon DEF Checkout, PoolInv, Leases, Using
<1>2. CASE shared(o) /\ lease' = [lease EXCEPT ![r] = h2[o]]
           /\ stage' = [stage EXCEPT ![r] = "leased"] /\ UNCHANGED <<h2, h1_idle>>
  <2>1. h2[o] \in Conn /\ proto[h2[o]] = "h2" /\ at[h2[o]] = o
    BY <1>2 DEF shared, PoolInv, TypeOK, Shared
  <2>2. TypeOK'
    BY <1>1, <1>2, <2>1, Zenon DEF PoolInv, TypeOK, Stages
  <2>3. /\ lease'[r] = h2[o] /\ stage'[r] = "leased" /\ origin'[r] = o
        /\ \A q \in Req : q # r => lease'[q] = lease[q] /\ stage'[q] = stage[q] /\ origin'[q] = origin[q]
    BY <1>1, <1>2, Zenon DEF PoolInv, TypeOK
  <2>4. Leases'
    BY <1>1, <2>1, <2>3, FfiPoolAssumption DEF PoolInv, Leases, Using
  <2>5. Exclusive'
    BY <1>1, <2>1, <2>3 DEF PoolInv, Exclusive
  <2>6. Parked'
    BY <1>1, <1>2, <2>1, <2>3 DEF PoolInv, Parked
  <2>7. Shared' /\ Replies'
    BY <1>1, <1>2, <2>1, <2>3 DEF PoolInv, Shared, Replies
  <2>8. QED
    BY <2>2, <2>4, <2>5, <2>6, <2>7, Zenon DEF PoolInv
<1>3. ASSUME NEW n \in newest(o), h2' = [h2 EXCEPT ![o] = None],
             lease' = [lease EXCEPT ![r] = h1_idle[o][n]],
             h1_idle' = [h1_idle EXCEPT ![o] = SubSeq(h1_idle[o], 1, n - 1)],
             stage' = [stage EXCEPT ![r] = "leased"]
      PROVE  PoolInv'
  <2> DEFINE c == h1_idle[o][n]
             s == SubSeq(h1_idle[o], 1, n - 1)
  <2>1. /\ h1_idle[o] \in Seq(Conn) /\ n \in 1 .. Len(h1_idle[o]) /\ c \in Conn
        /\ proto[c] = "h1" /\ at[c] = o /\ \A q \in Req : lease[q] # c
    BY DEF newest, usable, PoolInv, TypeOK, Parked
  <2>2. st[c] = "ready" /\ owed[c] = None
    BY <2>1, Zenon DEF newest, usable, is_ready, PoolInv, Replies
  <2>3. /\ s \in Seq(Conn) /\ Len(s) = n - 1
        /\ \A i \in 1 .. n - 1 : s[i] = h1_idle[o][i] /\ i \in 1 .. Len(h1_idle[o]) /\ i # n
    BY <2>1
  <2> HIDE DEF s
  <2>4. /\ h1_idle' \in [Origin -> Seq(Conn)] /\ h1_idle'[o] = s
        /\ \A p \in Origin : p # o => h1_idle'[p] = h1_idle[p]
        /\ h2' \in [Origin -> Conn \union {None}] /\ h2'[o] = None
        /\ \A p \in Origin : p # o => h2'[p] = h2[p]
    BY <1>3, <2>3, Zenon DEF PoolInv, TypeOK, s
  <2>5. /\ lease'[r] = c /\ stage'[r] = "leased" /\ origin'[r] = o
        /\ \A q \in Req : q # r => lease'[q] = lease[q] /\ stage'[q] = stage[q] /\ origin'[q] = origin[q]
    BY <1>1, <1>3, Zenon DEF PoolInv, TypeOK
  <2>6. TypeOK'
    BY <1>1, <1>3, <2>1, <2>4, Zenon DEF PoolInv, TypeOK, Stages
  <2> HIDE DEF c
  <2>7. Leases'
    BY <1>1, <2>1, <2>5, FfiPoolAssumption DEF PoolInv, Leases, Using
  <2>8. Exclusive'
    BY <1>1, <2>1, <2>5 DEF PoolInv, Exclusive
  <2>9. Parked'
    <3>1. ASSUME NEW p \in Origin, NEW i \in 1 .. Len(h1_idle'[p])
          PROVE  /\ i \in 1 .. Len(h1_idle[p]) /\ h1_idle'[p][i] = h1_idle[p][i]
                 /\ h1_idle[p][i] # c
      <4>1. CASE p = o
        BY <2>1, <2>3, <2>4, <4>1, Zenon DEF c, PoolInv, Parked
      <4>2. CASE p # o
        BY <2>1, <2>4, <4>2 DEF PoolInv, Parked
      <4>3. QED
        BY <4>1, <4>2, Zenon
    <3>2. \A q \in Req : lease'[q] = lease[q] \/ lease'[q] = c
      BY <2>5, Zenon
    <3>3. QED
      BY <1>1, <3>1, <3>2 DEF PoolInv, Parked
  <2>10. Shared'
    BY <1>1, <2>4, Zenon DEF PoolInv, Shared
  <2>11. Replies'
    BY <1>1, <2>2, <2>5 DEF PoolInv, Replies
  <2>12. QED
    BY <2>6, <2>7, <2>8, <2>9, <2>10, <2>11, Zenon DEF PoolInv
<1>4. CASE h2' = [h2 EXCEPT ![o] = None] /\ h1_idle' = [h1_idle EXCEPT ![o] = <<>>]
           /\ stage' = [stage EXCEPT ![r] = "tcp"] /\ lease' = lease
  <2>1. /\ h1_idle' \in [Origin -> Seq(Conn)] /\ Len(h1_idle'[o]) = 0
        /\ \A p \in Origin : p # o => h1_idle'[p] = h1_idle[p]
        /\ h2' \in [Origin -> Conn \union {None}] /\ h2'[o] = None
        /\ \A p \in Origin : p # o => h2'[p] = h2[p]
    BY <1>4 DEF PoolInv, TypeOK
  <2>2. /\ stage'[r] = "tcp" /\ origin'[r] = o
        /\ \A q \in Req : q # r => stage'[q] = stage[q] /\ origin'[q] = origin[q]
    BY <1>1, <1>4, Zenon DEF PoolInv, TypeOK
  <2>3. TypeOK'
    BY <1>1, <1>4, <2>1, Zenon DEF PoolInv, TypeOK, Stages, Connecting
  <2>4. Leases' /\ Exclusive'
    BY <1>1, <1>4, <2>2 DEF PoolInv, Leases, Exclusive, Using
  <2>5. Parked'
    BY <1>1, <1>4, <2>1 DEF PoolInv, Parked
  <2>6. Shared' /\ Replies'
    BY <1>1, <1>4, <2>1, <2>2 DEF PoolInv, Shared, Replies
  <2>7. QED
    BY <2>3, <2>4, <2>5, <2>6, Zenon DEF PoolInv
<1>5. QED
  BY <1>2, <1>3, <1>4, Zenon DEF Checkout

(* A new connection goes to the request that opened it, and is shared at     *)
(* once if it is HTTP/2.                                                     *)
LEMMA OpenKeeps ==
  ASSUME PoolInv, NEW r \in Req, NEW c \in Conn, NEW p \in {"h1", "h2"}, Open(r, c, p),
         stage[r] \notin Using, UNCHANGED client
  PROVE  PoolInv'
<1>1. /\ lease[r] = None /\ \A q \in Req : lease[q] # c
      /\ \A o \in Origin : h2[o] # c /\ \A i \in 1 .. Len(h1_idle[o]) : h1_idle[o][i] # c
  BY Zenon DEF Open, Unused, PoolInv, Leases
<1>2. /\ proto'[c] = p /\ at'[c] = origin[r] /\ st'[c] = "ready" /\ owed'[c] = None
      /\ \A d \in Conn : d # c => /\ proto'[d] = proto[d] /\ at'[d] = at[d]
                                 /\ st'[d] = st[d] /\ owed'[d] = owed[d]
  BY Zenon DEF Open, PoolInv, TypeOK
<1>3. /\ lease'[r] = c /\ stage'[r] = "leased" /\ origin' = origin /\ h1_idle' = h1_idle
      /\ \A q \in Req : q # r => lease'[q] = lease[q] /\ stage'[q] = stage[q]
  BY Zenon DEF Open, Go, PoolInv, TypeOK
<1>4. \A o \in Origin : h2'[o] = h2[o] \/ (p = "h2" /\ o = origin[r] /\ h2'[o] = c)
  BY Zenon DEF Open, PoolInv, TypeOK
<1>5. TypeOK'
  BY Zenon DEF Open, Go, PoolInv, TypeOK, Stages
<1>6. \A q \in Req : lease[q] \in Conn \union {None}
  BY Zenon DEF PoolInv, TypeOK
<1>7. Leases'
  BY <1>1, <1>2, <1>3, <1>6, FfiPoolAssumption DEF PoolInv, Leases, Using
<1>8. Exclusive'
  BY <1>1, <1>2, <1>3, <1>6 DEF PoolInv, Exclusive
<1>9. Parked'
  <2>1. \A o \in Origin : \A i \in 1 .. Len(h1_idle[o]) : h1_idle[o][i] \in Conn
    BY DEF PoolInv, TypeOK
  <2>2. \A q \in Req : lease'[q] = lease[q] \/ lease'[q] = c
    BY <1>3, Zenon
  <2>3. QED
    BY <1>1, <1>2, <1>3, <2>1, <2>2 DEF PoolInv, Parked
<1>10. Shared'
  <2>1. \A o \in Origin : h2[o] \in Conn \union {None}
    BY Zenon DEF PoolInv, TypeOK
  <2>2. QED
    BY <1>1, <1>2, <1>4, <2>1 DEF PoolInv, Shared
<1>11. Replies'
  <2>1. \A d \in Conn : proto'[d] = "h1" /\ st'[d] = "ready" => owed'[d] = None
    BY <1>2, Zenon DEF PoolInv, Replies
  <2>2. \A q \in Req : stage[q] \in Using => lease[q] \in Conn /\ lease[q] # c
    BY <1>1, <1>6, Zenon DEF PoolInv, Leases
  <2>3. \A q \in Req : stage'[q] = "leased" /\ proto'[lease'[q]] = "h1" => owed'[lease'[q]] = None
    BY <1>2, <1>3, <2>2 DEF PoolInv, Replies, Using
  <2>4. \A q \in Req : stage'[q] = "sent" /\ proto'[lease'[q]] = "h1" /\ st'[lease'[q]] # "dead"
            => owed'[lease'[q]] = q
    BY <1>2, <1>3, <2>2 DEF PoolInv, Replies, Using
  <2>5. QED
    BY <2>1, <2>3, <2>4, Zenon DEF Replies
<1>12. QED
  BY <1>5, <1>7, <1>8, <1>9, <1>10, <1>11, Zenon DEF PoolInv

(* A request that ends gives its connection back if it is HTTP/1 and ready,  *)
(* or drops it.                                                              *)
LEMMA CheckinKeeps ==
  ASSUME PoolInv, NEW r \in Req, stage[r] \in Using, checkin(r, "idle"), UNCHANGED <<wire, client>>
  PROVE  PoolInv'
<1> USE DEF wire
<1> DEFINE c == lease[r]
           o == origin[r]
           s == Append(h1_idle[o], c)
           n == Len(h1_idle[o]) + 1
<1>1. c \in Conn /\ at[c] = o /\ o \in Origin /\ h1_idle[o] \in Seq(Conn)
  BY Zenon DEF PoolInv, Leases, TypeOK
<1>2. /\ s \in Seq(Conn) /\ Len(s) = n /\ s[n] = c /\ n \in Nat
      /\ \A i \in 1 .. n : i # n => s[i] = h1_idle[o][i] /\ i \in 1 .. Len(h1_idle[o])
  BY <1>1
<1> HIDE DEF s
<1>3. /\ lease'[r] = None /\ stage'[r] = "idle" /\ origin' = origin /\ h2' = h2
      /\ \A q \in Req : q # r => lease'[q] = lease[q] /\ stage'[q] = stage[q]
  BY Zenon DEF checkin, Go, PoolInv, TypeOK
<1>4. /\ h1_idle' \in [Origin -> Seq(Conn)]
      /\ \A p \in Origin :
            \/ h1_idle'[p] = h1_idle[p]
            \/ p = o /\ h1_idle'[p] = s /\ proto[c] = "h1"
  BY <1>1, <1>2, Zenon DEF checkin, PoolInv, TypeOK, s
<1>5. TypeOK'
  BY <1>4, Zenon DEF checkin, Go, PoolInv, TypeOK, Stages
<1>6. Leases' /\ Exclusive'
  BY <1>3, FfiPoolAssumption DEF PoolInv, Leases, Exclusive, Using
<1>7. Parked'
  <2>1. ASSUME NEW p \in Origin, h1_idle'[p] = h1_idle[p]
        PROVE  /\ \A i \in 1 .. Len(h1_idle'[p]) :
                    /\ proto[h1_idle'[p][i]] = "h1" /\ at[h1_idle'[p][i]] = p
                    /\ \A q \in Req : lease'[q] # h1_idle'[p][i]
               /\ \A i, j \in 1 .. Len(h1_idle'[p]) : h1_idle'[p][i] = h1_idle'[p][j] => i = j
    <3>1. \A i \in 1 .. Len(h1_idle[p]) : h1_idle[p][i] \in Conn
      BY DEF PoolInv, TypeOK
    <3>2. QED
      BY <1>3, <2>1, <3>1, FfiPoolAssumption DEF PoolInv, Parked
  <2>2. ASSUME h1_idle'[o] = s, proto[c] = "h1"
        PROVE  /\ \A i \in 1 .. Len(h1_idle'[o]) :
                    /\ proto[h1_idle'[o][i]] = "h1" /\ at[h1_idle'[o][i]] = o
                    /\ \A q \in Req : lease'[q] # h1_idle'[o][i]
               /\ \A i, j \in 1 .. Len(h1_idle'[o]) : h1_idle'[o][i] = h1_idle'[o][j] => i = j
    <3>1. \A i \in 1 .. Len(h1_idle[o]) : /\ h1_idle[o][i] \in Conn /\ h1_idle[o][i] # c
                                          /\ proto[h1_idle[o][i]] = "h1" /\ at[h1_idle[o][i]] = o
                                          /\ \A q \in Req : lease[q] # h1_idle[o][i]
      BY <1>1 DEF PoolInv, TypeOK, Parked
    <3>2. \A q \in Req : lease'[q] # c
      BY <1>1, <1>3, <2>2, FfiPoolAssumption, Zenon DEF PoolInv, Exclusive
    <3>3. \A i, j \in 1 .. Len(h1_idle[o]) : h1_idle[o][i] = h1_idle[o][j] => i = j
      BY <1>1, Zenon DEF PoolInv, Parked
    <3>4. \A i \in 1 .. n : \A q \in Req : lease'[q] # s[i]
      BY <1>2, <1>3, <3>1, <3>2, FfiPoolAssumption, SMTT(30)
    <3>5. \A i \in 1 .. n : proto[s[i]] = "h1" /\ at[s[i]] = o
      BY <1>1, <1>2, <2>2, <3>1, ZenonT(60)
    <3>6. \A i, j \in 1 .. n : s[i] = s[j] => i = j
      BY <1>2, <3>1, <3>3, SMTT(30)
    <3> HIDE DEF n, o, c
    <3>7. QED
      BY <1>2, <2>2, <3>4, <3>5, <3>6, Zenon
  <2>3. QED
    BY <1>4, <2>1, <2>2 DEF Parked
<1>8. Shared' /\ Replies'
  BY <1>3 DEF PoolInv, Shared, Replies
<1>9. QED
  BY <1>5, <1>6, <1>7, <1>8, Zenon DEF PoolInv

(* deliver drops the lease of a request that was cancelled or has failed. *)
LEMMA CancelledKeeps ==
  ASSUME PoolInv, NEW r \in Req, Cancelled(r), UNCHANGED client
  PROVE  PoolInv'
<1> USE DEF pool, wire, Go
<1>1. /\ lease'[r] = None /\ stage'[r] = "idle" /\ UNCHANGED <<pool, origin, wire>>
      /\ \A q \in Req : q # r => lease'[q] = lease[q] /\ stage'[q] = stage[q]
  BY Zenon DEF Cancelled, PoolInv, TypeOK
<1>2. TypeOK'
  BY Zenon DEF Cancelled, PoolInv, TypeOK, Stages
<1>3. Leases' /\ Exclusive'
  BY <1>1 DEF PoolInv, Leases, Exclusive, Using
<1>4. Parked'
  <2>1. \A o \in Origin : \A i \in 1 .. Len(h1_idle[o]) : h1_idle[o][i] # None
    BY FfiPoolAssumption DEF PoolInv, TypeOK
  <2>2. QED
    BY <1>1, <2>1 DEF PoolInv, Parked
<1>5. Shared' /\ Replies'
  BY <1>1 DEF PoolInv, Shared, Replies
<1>6. QED
  BY <1>2, <1>3, <1>4, <1>5, Zenon DEF PoolInv

-----------------------------------------------------------------------------
(* A request that sends, or has read its response, changes the state of its  *)
(* connection, which of HTTP/1 nobody else has.                              *)
LEMMA SendKeeps ==
  ASSUME PoolInv, NEW r \in Req, Send(r) \/ BodyEnds(r), UNCHANGED client
  PROVE  PoolInv'
<1> USE DEF pool, wire, Go
<1> DEFINE c == lease[r]
<1>1. stage[r] \in {"leased", "sent"} /\ c \in Conn
  BY DEF Send, BodyEnds, PoolInv, TypeOK, Leases, Using
<1>2. /\ UNCHANGED <<pool, origin, lease, proto, at>> /\ stage'[r] \in Using
      /\ \A q \in Req : q # r => stage'[q] = stage[q]
      /\ \A d \in Conn : d # c => st'[d] = st[d] /\ owed'[d] = owed[d]
      /\ proto[c] = "h2" => st' = st /\ owed' = owed
  BY <1>1 DEF Send, BodyEnds, PoolInv, TypeOK, Using
<1>3. TypeOK'
  <2>1. CASE Send(r)
    <3>1. st' \in [Conn -> {"closed", "ready", "busy", "dead"}]
      BY <1>1, <2>1, Zenon DEF Send, PoolInv, TypeOK
    <3>2. owed' \in [Conn -> Req \union {None}]
      BY <1>1, <2>1, ZenonT(60) DEF Send, PoolInv, TypeOK
    <3>3. stage' \in [Req -> Stages]
      BY <2>1, Zenon DEF Send, PoolInv, TypeOK, Stages
    <3>4. QED
      BY <1>2, <3>1, <3>2, <3>3, Zenon DEF PoolInv, TypeOK
  <2>2. CASE BodyEnds(r)
    BY <1>1, <2>2, Zenon DEF BodyEnds, PoolInv, TypeOK, Stages
  <2>3. QED
    BY <2>1, <2>2, Zenon
<1>4. Leases'
  BY <1>1, <1>2, Zenon DEF PoolInv, Leases, Using
<1>5. Exclusive' /\ Parked' /\ Shared'
  BY <1>2 DEF PoolInv, Exclusive, Parked, Shared
<1>6. proto[c] = "h1" => /\ st'[c] = "busy" \/ (st'[c] = st[c] /\ owed'[c] = None)
                         /\ stage'[r] = "sent" => owed'[c] = r
                         /\ stage'[r] # "leased"
  <2>1. CASE Send(r)
    BY <1>1, <2>1, Zenon DEF Send, PoolInv, TypeOK, Replies
  <2>2. CASE BodyEnds(r)
    BY <1>1, <2>2, Zenon DEF BodyEnds, PoolInv, TypeOK
  <2>3. QED
    BY <2>1, <2>2, Zenon
<1>7. Replies'
  <2>1. \A d \in Conn : proto[d] \in {"h1", "h2"}
    BY Zenon DEF PoolInv, TypeOK
  <2>2. \A d \in Conn : proto'[d] = "h1" /\ st'[d] = "ready" => owed'[d] = None
    BY <1>1, <1>2, <1>6, Zenon DEF PoolInv, Replies
  <2>3. \A q \in Req : q # r /\ stage[q] \in Using /\ proto[lease[q]] = "h1" =>
            /\ st'[lease[q]] = st[lease[q]] /\ owed'[lease[q]] = owed[lease[q]]
    <3>1. \A q \in Req : stage[q] \in Using => lease[q] \in Conn /\ lease[q] # None
      BY Zenon DEF PoolInv, TypeOK, Leases
    <3>2. \A q \in Req : q # r /\ stage[q] \in Using /\ proto[lease[q]] = "h1" => lease[q] # c
      BY <3>1, Zenon DEF PoolInv, Exclusive
    <3>3. QED
      BY <1>2, <3>1, <3>2, Zenon
  <2>4. stage'[r] # "leased"
    BY Zenon DEF Send, BodyEnds, PoolInv, TypeOK
  <2>5. \A q \in Req : stage'[q] = "leased" /\ proto'[lease'[q]] = "h1" => owed'[lease'[q]] = None
    BY <1>2, <2>3, <2>4, Zenon DEF PoolInv, Replies, Using
  <2>6. \A q \in Req : stage'[q] = "sent" /\ proto'[lease'[q]] = "h1" /\ st'[lease'[q]] # "dead"
            => owed'[lease'[q]] = q
    BY <1>2, <1>6, <2>3, Zenon DEF PoolInv, Replies, Using
  <2>7. QED
    BY <2>2, <2>5, <2>6, Zenon DEF Replies
<1>8. QED
  BY <1>3, <1>4, <1>5, <1>7, Zenon DEF PoolInv

(* hyper's connection task makes a connection ready only when no response is *)
(* to come.                                                                  *)
LEMMA HyperKeeps ==
  ASSUME PoolInv, NEW c \in Conn, Wants(c) \/ Ends(c), UNCHANGED client
  PROVE  PoolInv'
<1> USE DEF pool, task
<1>1. /\ UNCHANGED <<pool, task, proto, at>> /\ owed'[c] = None
      /\ st'[c] \in {"ready", "dead"} /\ (st'[c] = "ready" => owed' = owed)
      /\ \A d \in Conn : d # c => st'[d] = st[d] /\ owed'[d] = owed[d]
      /\ st[c] # "dead"
  BY Zenon DEF Wants, Ends, PoolInv, TypeOK
<1>2. TypeOK'
  BY Zenon DEF Wants, Ends, PoolInv, TypeOK
<1>3. Leases' /\ Exclusive' /\ Parked' /\ Shared'
  BY <1>1 DEF PoolInv, Leases, Exclusive, Parked, Shared
<1>4. Replies'
  <2>1. \A q \in Req : stage[q] \in Using => lease[q] \in Conn
    BY Zenon DEF PoolInv, TypeOK, Leases
  <2>2. QED
    BY <1>1, <2>1, Zenon DEF PoolInv, Replies, Using
<1>5. QED
  BY <1>2, <1>3, <1>4, Zenon DEF PoolInv

-----------------------------------------------------------------------------
(* Every step of a request and of a connection keeps the invariant. *)
LEMMA PoolStep == PoolInv /\ [Next]_vars => PoolInv'
<1> SUFFICES ASSUME PoolInv, [Next]_vars PROVE PoolInv'
  BY Zenon
<1>1. CASE UNCHANGED vars
  BY <1>1 DEF vars, pool, task, wire, PoolInv, TypeOK, Leases, Exclusive, Parked, Shared, Replies
<1>2. ASSUME NEW c \in Conn, Wants(c) \/ Ends(c), UNCHANGED client PROVE PoolInv'
  BY <1>2, HyperKeeps, Zenon
<1>3. ASSUME NEW r \in Req, Request(r), UNCHANGED client PROVE PoolInv'
  <2>1. ASSUME NEW o \in Origin, Checkout(r, o) PROVE PoolInv'
    BY <1>3, <2>1, CheckoutKeeps, Zenon
  <2>2. CASE ConnectFails(r) \/ Tcp(r) \/ Tunnel(r)
    <3>1. /\ stage[r] \notin Using /\ UNCHANGED <<pool, origin, lease, wire, client>>
          /\ \E s \in Stages \ Using : Go(r, s)
      BY <1>3, <2>2, Zenon DEF ConnectFails, Tcp, Tunnel, Connecting, Stages, Using
    <3>2. QED
      BY <3>1, StageOnly, Zenon
  <2>3. CASE TlsDone(r)
    <3>1. stage[r] \notin Using /\ "idle" \in Stages \ Using
      BY <2>3, Zenon DEF TlsDone, Using, Stages
    <3>2. CASE Go(r, "idle") /\ UNCHANGED <<pool, origin, lease, wire>>
      BY <1>3, <3>1, <3>2, StageOnly, Zenon
    <3>3. ASSUME NEW p \in {"h1", "h2"}, NEW c \in Conn, Open(r, c, p) PROVE PoolInv'
      BY <1>3, <3>1, <3>3, OpenKeeps, Zenon
    <3>4. QED
      BY <2>3, <3>2, <3>3, Zenon DEF TlsDone
  <2>4. CASE HandshakeH1(r)
    <3>1. stage[r] \notin Using /\ \E c \in Conn : Open(r, c, "h1")
      BY <2>4, Zenon DEF HandshakeH1, Using
    <3>2. QED
      BY <1>3, <3>1, OpenKeeps, Zenon
  <2>5. CASE Send(r) \/ BodyEnds(r)
    BY <1>3, <2>5, SendKeeps, Zenon
  <2>6. CASE SendFails(r) \/ Delivered(r)
    <3>1. stage[r] \in Using /\ checkin(r, "idle") /\ UNCHANGED <<wire, client>>
      BY <1>3, <2>6, Zenon DEF SendFails, Delivered, Using
    <3>2. QED
      BY <3>1, CheckinKeeps, Zenon
  <2>7. CASE Cancelled(r)
    BY <1>3, <2>7, CancelledKeeps, Zenon
  <2>8. QED
    BY <1>3, <2>1, <2>2, <2>3, <2>4, <2>5, <2>6, <2>7, Zenon DEF Request
<1>4. QED
  BY <1>1, <1>2, <1>3, Zenon DEF Next

(* The invariant holds always: at first the pool is empty. *)
LEMMA PoolInvariant == Spec => []PoolInv
<1>1. Init => PoolInv
  <2> SUFFICES ASSUME Init PROVE PoolInv
    BY Zenon
  <2>1. anOrigin \in Origin
    BY FfiPoolAssumption, Zenon DEF anOrigin
  <2>2. TypeOK
    BY <2>1 DEF Init, TypeOK, Stages
  <2>3. Leases /\ Exclusive /\ Shared /\ Replies
    BY Zenon DEF Init, Leases, Exclusive, Shared, Replies, Using
  <2>4. Parked
    BY DEF Init, Parked
  <2>5. QED
    BY <2>2, <2>3, <2>4, Zenon DEF PoolInv
<1>2. QED
  BY <1>1, PoolStep, PTL DEF Spec

(* An HTTP/1 connection is leased once or idle in one place, however many    *)
(* requests check out, time out, are cancelled or fail.                      *)
THEOREM LeasesExclusive == Spec => []H1Exclusive
<1>1. PoolInv => H1Exclusive
  BY DEF PoolInv, H1Exclusive, Exclusive, Parked, Held, Idle
<1>2. QED
  BY <1>1, PoolInvariant, PTL

(* No request waits for a response on an HTTP/1 connection where another's   *)
(* is still to come, and none has a connection to another origin.            *)
THEOREM AnswersAreOwn == Spec => []OwnAnswer
<1>1. PoolInv => OwnAnswer
  BY DEF PoolInv, OwnAnswer, Replies, Leases, Shared, Parked, Held, Idle
<1>2. QED
  BY <1>1, PoolInvariant, PTL


-----------------------------------------------------------------------------
(* The content codings. *)

Parts == [n : Nat, z : BOOLEAN]
Futs == {"none", "running", "done", "canceled"}
Codecs == [inner : BOOLEAN, eof : BOOLEAN, fut : Futs, held : Seq(Parts)]
CodingTypes ==
    /\ conf \in Configurations /\ given \in Nat /\ failed \in BOOLEAN
    /\ enc \in Codecs /\ decoder \in Codecs
    /\ coded \in Seq(Parts) /\ buf \in Seq(Parts)
    /\ sent \in {"open", "end", "failed"}
    /\ collector \in {"new", "reading", "ok", "overflow", "error", "timeout"}

(* What Encoder puts out under the configuration c: the chunks of the body,  *)
(* and the end of the compressor                                             *)
Nth(c, k) == Part(IF k <= c.total THEN k ELSE 0, can_encode(c) \/ c.own # "none")
Full(c) == c.total + (IF can_encode(c) THEN 1 ELSE 0)

(* s is a part of it, from behind place o on. *)
At(s, o, c) == \A k \in 1 .. Len(s) : s[k] = Nth(c, o + k)

(* Where the encoder is with it *)
Put == given + (IF enc.eof THEN 1 ELSE 0)
Encoding ==
    /\ given <= conf.total
    /\ failed => given < conf.total
    /\ can_encode(conf) => (enc.fut = "none" => enc.inner \/ enc.eof)
    /\ ~can_encode(conf) => ~enc.inner /\ enc.fut = "none" /\ ~enc.eof /\ enc.held = <<>>
    /\ enc.eof => enc.fut = "none" /\ given = conf.total /\ enc.held = <<>>
    /\ sent = "end" => given = conf.total /\ enc.held = <<>> /\ (can_encode(conf) => enc.eof)

(* Where the decoder is *)
Decoding ==
    /\ from_headers(conf) => (decoder.fut = "none" => decoder.inner \/ decoder.eof)
    /\ ~from_headers(conf) => ~decoder.inner /\ decoder.fut = "none"
    /\ decoder.fut = "none" <=> decoder.held = <<>>
    /\ decoder.eof => collector = "ok"

(* What the reader collects of the first p parts *)
Size(c, p) == IF from_headers(c) /\ p > c.total THEN c.total ELSE p
Kth(c, k) == IF from_headers(c) THEN Part(k, FALSE) ELSE Nth(c, k)
Live == collector \in {"new", "reading", "ok"}
Collecting ==
    /\ \A k \in 1 .. Len(buf) : buf[k] = Kth(conf, k)
    /\ Len(buf) <= Size(conf, Full(conf)) /\ ~Overflows(Len(buf))
    /\ collector = "ok" => sent = "end" /\ coded = <<>> /\ decoder.held = <<>>
    /\ collector = "overflow" => Overflows(Size(conf, Full(conf)))

(* p parts have gone to the reader, the others are on their way in order. *)
Placed(p) ==
    /\ p + Len(decoder.held) + Len(coded) + Len(enc.held) = Put
    /\ At(decoder.held, p, conf)
    /\ At(coded, p + Len(decoder.held), conf)
    /\ At(enc.held, p + Len(decoder.held) + Len(coded), conf)
    /\ Live => Len(buf) = Size(conf, p)

CodingInv == CodingTypes /\ Encoding /\ Decoding /\ Collecting /\ \E p \in Nat : Placed(p)

-----------------------------------------------------------------------------
(* Functions that are sequences *)
LEMMA FunctionIsSeq ==
  ASSUME NEW S, NEW n \in Nat, NEW f \in [1 .. n -> S]
  PROVE  f \in Seq(S) /\ Len(f) = n
OBVIOUS

(* A part of what is put out: taken apart, and put together *)
LEMMA AtSplit ==
  ASSUME NEW s \in Seq(Parts), NEW o \in Nat, NEW c, At(s, o, c), NEW k \in 0 .. Len(s)
  PROVE  /\ SubSeq(s, 1, k) \in Seq(Parts) /\ Len(SubSeq(s, 1, k)) = k /\ At(SubSeq(s, 1, k), o, c)
         /\ SubSeq(s, k + 1, Len(s)) \in Seq(Parts) /\ Len(SubSeq(s, k + 1, Len(s))) = Len(s) - k
         /\ At(SubSeq(s, k + 1, Len(s)), o + k, c)
<1>1. Len(s) \in Nat /\ \A i \in 1 .. Len(s) : s[i] \in Parts
  OBVIOUS
<1>2. /\ SubSeq(s, 1, k) \in Seq(Parts) /\ Len(SubSeq(s, 1, k)) = k
      /\ \A i \in 1 .. k : SubSeq(s, 1, k)[i] = s[i]
  <2>1. \A i \in 1 .. k : s[i] \in Parts
    BY <1>1
  <2>2. /\ SubSeq(s, 1, k) \in Seq(Parts)
        /\ Len(SubSeq(s, 1, k)) = IF 1 <= k THEN k - 1 + 1 ELSE 0
        /\ \A i \in 1 .. k - 1 + 1 : SubSeq(s, 1, k)[i] = s[1 + i - 1]
    BY <1>1, <2>1, SubSeqProperties
  <2>3. \A i \in 1 .. k : i \in 1 .. k - 1 + 1 /\ 1 + i - 1 = i
    BY <1>1
  <2> QED
    BY <1>1, <2>2, <2>3
<1>3. /\ SubSeq(s, k + 1, Len(s)) \in Seq(Parts) /\ Len(SubSeq(s, k + 1, Len(s))) = Len(s) - k
      /\ \A i \in 1 .. Len(s) - k : SubSeq(s, k + 1, Len(s))[i] = s[k + i]
  <2>1. \A i \in k + 1 .. Len(s) : s[i] \in Parts
    BY <1>1
  <2>2. /\ SubSeq(s, k + 1, Len(s)) \in Seq(Parts)
        /\ Len(SubSeq(s, k + 1, Len(s))) = IF k + 1 <= Len(s) THEN Len(s) - (k + 1) + 1 ELSE 0
        /\ \A i \in 1 .. Len(s) - (k + 1) + 1 : SubSeq(s, k + 1, Len(s))[i] = s[k + 1 + i - 1]
    BY <1>1, <2>1, SubSeqProperties
  <2>3. \A i \in 1 .. Len(s) - k : i \in 1 .. Len(s) - (k + 1) + 1 /\ k + 1 + i - 1 = k + i
    BY <1>1
  <2> QED
    BY <1>1, <2>2, <2>3
<1>4. At(SubSeq(s, 1, k), o, c)
  BY <1>1, <1>2 DEF At
<1>5. At(SubSeq(s, k + 1, Len(s)), o + k, c)
  <2> SUFFICES ASSUME NEW i \in 1 .. Len(s) - k
               PROVE  SubSeq(s, k + 1, Len(s))[i] = Nth(c, (o + k) + i)
    BY <1>3, Zenon DEF At
  <2>1. k + i \in 1 .. Len(s) /\ o + (k + i) = (o + k) + i
    BY <1>1
  <2> QED
    BY <1>3, <2>1, Zenon DEF At
<1> QED
  BY <1>2, <1>3, <1>4, <1>5, Zenon

(* Parts behind parts, in their places *)
LEMMA AtConcat ==
  ASSUME NEW s \in Seq(Parts), NEW t \in Seq(Parts), NEW o \in Nat, NEW c,
         At(s, o, c), At(t, o + Len(s), c)
  PROVE  s \o t \in Seq(Parts) /\ Len(s \o t) = Len(s) + Len(t) /\ At(s \o t, o, c)
<1>1. Len(s) \in Nat /\ Len(t) \in Nat
  OBVIOUS
<1>2. /\ s \o t \in Seq(Parts) /\ Len(s \o t) = Len(s) + Len(t)
      /\ \A i \in 1 .. Len(s) + Len(t) : (s \o t)[i] = IF i <= Len(s) THEN s[i] ELSE t[i - Len(s)]
  BY ConcatProperties, Zenon
<1>3. ASSUME NEW i \in 1 .. Len(s) + Len(t) PROVE (s \o t)[i] = Nth(c, o + i)
  <2>1. CASE i <= Len(s)
    BY <1>1, <1>2, <2>1 DEF At
  <2>2. CASE ~(i <= Len(s))
    <3>1. i - Len(s) \in 1 .. Len(t) /\ (o + Len(s)) + (i - Len(s)) = o + i
      BY <1>1, <2>2
    <3> QED
      BY <1>2, <2>2, <3>1, Zenon DEF At
  <2> QED
    BY <2>1, <2>2, Zenon
<1> QED
  BY <1>2, <1>3, Zenon DEF At

(* One more part, in its place *)
LEMMA AtAppend ==
  ASSUME NEW s \in Seq(Parts), NEW o \in Nat, NEW c, At(s, o, c), NEW x \in Parts,
         x = Nth(c, o + Len(s) + 1)
  PROVE  Append(s, x) \in Seq(Parts) /\ Len(Append(s, x)) = Len(s) + 1 /\ At(Append(s, x), o, c)
<1>1. Len(s) \in Nat
  OBVIOUS
<1>2. /\ Append(s, x) \in Seq(Parts) /\ Len(Append(s, x)) = Len(s) + 1
      /\ \A i \in 1 .. Len(s) : Append(s, x)[i] = s[i]
      /\ Append(s, x)[Len(s) + 1] = x
  BY AppendProperties
<1>3. ASSUME NEW i \in 1 .. Len(s) + 1 PROVE Append(s, x)[i] = Nth(c, o + i)
  <2>1. CASE i \in 1 .. Len(s)
    BY <1>2, <2>1, Zenon DEF At
  <2>2. CASE i = Len(s) + 1
    <3>1. o + i = o + Len(s) + 1
      BY <1>1, <2>2
    <3> QED
      BY <1>2, <2>2, <3>1, Zenon
  <2> QED
    BY <1>1, <2>1, <2>2
<1> QED
  BY <1>2, <1>3, Zenon DEF At

(* No parts are in their places. *)
LEMMA AtEmpty ==
  ASSUME NEW o, NEW c
  PROVE  At(<<>>, o, c) /\ Len(<<>>) = 0 /\ <<>> \in Seq(Parts)
BY DEF At

-----------------------------------------------------------------------------
(* What a configuration fixes: the number of parts with the end mark *)
LEMMA Configured ==
  ASSUME NEW c \in Configurations
  PROVE  /\ c.total \in Nat /\ c.limit \in Nat /\ Full(c) \in Nat /\ Full(c) >= c.total
         /\ can_encode(c) => Full(c) = c.total + 1 /\ c.own = "none"
         /\ ~can_encode(c) => Full(c) = c.total
         /\ from_headers(c) => can_encode(c) \/ c.own # "none"
<1>0. c.total \in 0 .. MaxChunks /\ c.limit \in Limits
  BY Zenon DEF Configurations
<1>1. c.total \in Nat /\ c.limit \in Nat
  <2>1. c.limit \in Nat
    BY <1>0, CodingAssumption, Zenon
  <2>2. \A n \in 0 .. MaxChunks : n \in Nat
    BY CodingAssumption
  <2> QED
    BY <1>0, <2>1, <2>2, Zenon
<1>2. can_encode(c) => c.own = "none"
  BY Zenon DEF can_encode
<1>3. from_headers(c) => can_encode(c) \/ c.own # "none"
  BY Zenon DEF from_headers, ContentEncodingHeader
<1> QED
  BY <1>1, <1>2, <1>3 DEF Full

(* The k-th part of a body *)
LEMMA NthPart ==
  ASSUME NEW c \in Configurations, NEW k \in Nat \ {0}
  PROVE  /\ Nth(c, k) \in Parts
         /\ Nth(c, k).n = IF k <= c.total THEN k ELSE 0
         /\ from_headers(c) => Nth(c, k).z = TRUE
<1>1. (IF k <= c.total THEN k ELSE 0) \in Nat /\ (can_encode(c) \/ c.own # "none") \in BOOLEAN
  BY Zenon
<1> QED
  BY <1>1, Configured, Zenon DEF Nth, Part, Parts

(* More parts are not fewer chunks. *)
LEMMA SizeGrows ==
  ASSUME NEW c \in Configurations, NEW p \in Nat, NEW q \in Nat, p <= q
  PROVE  Size(c, p) \in Nat /\ Size(c, q) \in Nat /\ Size(c, p) <= Size(c, q)
BY Configured DEF Size

(* What is too large stays too large. *)
LEMMA OverflowGrows ==
  ASSUME conf \in Configurations, NEW m \in Nat, NEW n \in Nat, m <= n, Overflows(m)
  PROVE  Overflows(n)
BY Configured DEF Overflows

(* ReadBody::poll takes the plain chunks t of the parts from p to q. *)
LEMMA Collect ==
  ASSUME CodingTypes, Collecting, NEW p \in Nat, Len(buf) = Size(conf, p),
         NEW q \in Nat, p <= q, q <= Full(conf),
         NEW t \in Seq(Parts), Len(buf) + Len(t) = Size(conf, q),
         \A k \in 1 .. Len(t) : t[k] = Kth(conf, Len(buf) + k),
         Read(t)
  PROVE  \/ collector' = "overflow" /\ buf' = buf /\ Overflows(Size(conf, Full(conf)))
         \/ /\ collector' = collector /\ buf' \in Seq(Parts) /\ Len(buf') = Size(conf, q)
            /\ \A k \in 1 .. Len(buf') : buf'[k] = Kth(conf, k)
            /\ Len(buf') <= Size(conf, Full(conf)) /\ ~Overflows(Len(buf'))
<1>1. conf \in Configurations /\ buf \in Seq(Parts) /\ Len(buf) \in Nat /\ Len(t) \in Nat
  BY DEF CodingTypes
<1>2. /\ Full(conf) \in Nat /\ Size(conf, q) \in Nat /\ Size(conf, Full(conf)) \in Nat
      /\ Size(conf, q) <= Size(conf, Full(conf))
  BY <1>1, Configured, SizeGrows, Zenon
<1>3. CASE Overflows(Len(buf) + Len(t))
  <2>1. Overflows(Size(conf, Full(conf)))
    BY <1>1, <1>2, <1>3, OverflowGrows, Zenon
  <2> QED
    BY <1>3, <2>1, Zenon DEF Read
<1>4. CASE ~Overflows(Len(buf) + Len(t))
  <2>1. buf' = buf \o t /\ collector' = collector
    BY <1>4, Zenon DEF Read
  <2>2. /\ buf' \in Seq(Parts) /\ Len(buf') = Len(buf) + Len(t)
        /\ \A i \in 1 .. Len(buf) + Len(t) : buf'[i] = IF i <= Len(buf) THEN buf[i] ELSE t[i - Len(buf)]
    BY <1>1, <2>1, ConcatProperties, Zenon
  <2>3. ASSUME NEW i \in 1 .. Len(buf') PROVE buf'[i] = Kth(conf, i)
    <3>1. CASE i <= Len(buf)
      BY <1>1, <2>2, <2>3, <3>1 DEF Collecting
    <3>2. CASE ~(i <= Len(buf))
      <4>1. i - Len(buf) \in 1 .. Len(t) /\ Len(buf) + (i - Len(buf)) = i
        BY <1>1, <2>2, <2>3, <3>2
      <4> QED
        BY <2>2, <3>2, <4>1, Zenon
    <3> QED
      BY <3>1, <3>2, Zenon
  <2> QED
    BY <1>2, <1>4, <2>1, <2>2, <2>3, Zenon
<1> QED
  BY <1>3, <1>4, Zenon

(* A piece of the stream goes to the reader, through the decoder if the      *)
(* headers say so: nothing that Encoder put out is corrupt.                  *)
LEMMA Consume ==
  ASSUME CodingTypes, Collecting, NEW p \in Nat, Len(buf) = Size(conf, p),
         NEW chunks \in Seq(Parts), chunks # <<>>, At(chunks, p, conf), p + Len(chunks) <= Full(conf),
         IF from_headers(conf) THEN Feed(chunks) ELSE Read(chunks)
  PROVE  \/ collector' = "overflow" /\ buf' = buf /\ Overflows(Size(conf, Full(conf)))
         \/ /\ collector' = collector /\ buf' \in Seq(Parts)
            /\ Len(buf') = Size(conf, p + Len(chunks))
            /\ \A k \in 1 .. Len(buf') : buf'[k] = Kth(conf, k)
            /\ Len(buf') <= Size(conf, Full(conf)) /\ ~Overflows(Len(buf'))
<1>1. /\ conf \in Configurations /\ Len(buf) \in Nat /\ Len(chunks) \in Nat \ {0}
      /\ p + Len(chunks) \in Nat /\ DOMAIN chunks = 1 .. Len(chunks)
  BY DEF CodingTypes
<1>2. conf.total \in Nat /\ Full(conf) \in Nat
  BY <1>1, Configured, Zenon
<1>3. CASE ~from_headers(conf)
  <2>1. Len(buf) = p /\ Size(conf, p + Len(chunks)) = p + Len(chunks)
    BY <1>3, Zenon DEF Size
  <2>2. \A k \in 1 .. Len(chunks) : chunks[k] = Kth(conf, Len(buf) + k)
    BY <1>3, <2>1, Zenon DEF Kth, At
  <2>3. Read(chunks) /\ p <= p + Len(chunks) /\ Len(buf) + Len(chunks) = Size(conf, p + Len(chunks))
    BY <1>1, <1>3, <2>1
  <2> QED
    BY <1>1, <2>2, <2>3, Collect, Zenon
<1>4. CASE from_headers(conf)
  <2>1. \A k \in 1 .. Len(chunks) : p + k \in Nat \ {0}
    BY <1>1
  <2>2. \A k \in 1 .. Len(chunks) : /\ chunks[k].n = IF p + k <= conf.total THEN p + k ELSE 0
                                    /\ chunks[k].z = TRUE
    BY <1>1, <1>4, <2>1, NthPart, Zenon DEF At
  <2>3. ~Corrupt(chunks)
    BY <1>1, <2>2, Zenon DEF Corrupt
  <2>0. PICK l \in Nat \ {0} : l = Len(chunks)
    BY <1>1, Zenon
  <2>4. PICK n \in Nat : n = l - (IF chunks[l].n = 0 THEN 1 ELSE 0)
    <3>1. l - (IF chunks[l].n = 0 THEN 1 ELSE 0) \in Nat
      OBVIOUS
    <3> QED
      BY <3>1, Zenon
  <2>5. PICK t : t = [k \in 1 .. n |-> Part(chunks[k].n, FALSE)]
    BY Zenon
  <2>6. Read(t)
    BY <1>4, <2>0, <2>3, <2>4, <2>5, Zenon DEF Feed, Plain
  <2>7. PICK total \in Nat : total = conf.total
    BY <1>2, Zenon
  <2>15. p + l <= total + 1
    <3>1. Full(conf) <= total + 1
      BY <1>1, <2>7, Configured
    <3> QED
      BY <1>2, <2>0, <2>7, <3>1
  <2>8. IF p + l <= total THEN n = l ELSE n = l - 1
    <3>1. chunks[l].n = IF p + l <= total THEN p + l ELSE 0
      BY <2>0, <2>2, <2>7
    <3>2. p + l # 0
      OBVIOUS
    <3> QED
      BY <2>4, <3>1, <3>2
  <2>16. p + n <= total /\ n <= l /\ p <= total /\ p + n = (IF p + l > total THEN total ELSE p + l)
    BY <2>8, <2>15
  <2>9. p + n <= conf.total /\ n <= Len(chunks) /\ Len(buf) = p
    <3>1. Len(buf) = p
      BY <1>4, <2>7, <2>16 DEF Size
    <3> QED
      BY <2>0, <2>7, <2>16, <3>1, Zenon
  <2>10. Len(buf) + n = Size(conf, p + Len(chunks))
    BY <1>4, <2>0, <2>7, <2>9, <2>16, Zenon DEF Size
  <2>11. \A k \in 1 .. n : Part(chunks[k].n, FALSE) = Part(p + k, FALSE) /\ Part(p + k, FALSE) \in Parts
    <3> SUFFICES ASSUME NEW k \in 1 .. n
                 PROVE  Part(chunks[k].n, FALSE) = Part(p + k, FALSE) /\ Part(p + k, FALSE) \in Parts
      BY Zenon
    <3>1. k \in 1 .. Len(chunks) /\ p + k <= conf.total /\ p + k \in Nat
      BY <1>1, <1>2, <2>9
    <3>2. chunks[k].n = p + k
      BY <2>2, <3>1, Zenon
    <3> QED
      BY <3>1, <3>2, Zenon DEF Part, Parts
  <2>12. t \in Seq(Parts) /\ Len(t) = n /\ \A k \in 1 .. n : t[k] = Part(p + k, FALSE)
    <3>1. t \in [1 .. n -> Parts] /\ \A k \in 1 .. n : t[k] = Part(p + k, FALSE)
      BY <2>5, <2>11, Zenon
    <3> QED
      BY <3>1, FunctionIsSeq, Zenon
  <2>13. \A k \in 1 .. Len(t) : t[k] = Kth(conf, Len(buf) + k)
    BY <1>4, <2>9, <2>12, Zenon DEF Kth
  <2>14. p <= p + Len(chunks) /\ Len(buf) + Len(t) = Size(conf, p + Len(chunks))
    BY <1>1, <2>10, <2>12
  <2> QED
    BY <1>1, <2>6, <2>12, <2>13, <2>14, Collect, Zenon
<1> QED
  BY <1>3, <1>4, Zenon

-----------------------------------------------------------------------------
(* The sizes of what is on its way add up to what Encoder has put out. *)
LEMMA Sizes ==
  ASSUME CodingInv, NEW p \in Nat, Placed(p)
  PROVE  /\ conf \in Configurations /\ Put \in Nat /\ Put <= Full(conf) /\ given \in Nat
         /\ conf.total \in Nat /\ Full(conf) \in Nat
         /\ enc.held \in Seq(Parts) /\ coded \in Seq(Parts) /\ decoder.held \in Seq(Parts)
         /\ Len(enc.held) \in Nat /\ Len(coded) \in Nat /\ Len(decoder.held) \in Nat
         /\ p + Len(decoder.held) \in Nat /\ p + Len(decoder.held) + Len(coded) \in Nat
<1>1. /\ conf \in Configurations /\ given \in Nat /\ enc.held \in Seq(Parts)
      /\ coded \in Seq(Parts) /\ decoder.held \in Seq(Parts)
  BY Zenon DEF CodingInv, CodingTypes, Codecs
<1>2. Len(enc.held) \in Nat /\ Len(coded) \in Nat /\ Len(decoder.held) \in Nat
  BY <1>1
<1>3. given <= conf.total /\ (enc.eof => can_encode(conf))
  BY Zenon DEF CodingInv, Encoding
<1>4. conf.total \in Nat /\ Full(conf) \in Nat
  BY <1>1, Configured, Zenon
<1>5. Put \in Nat /\ Put <= Full(conf)
  BY <1>1, <1>3, <1>4, Configured DEF Put
<1> QED
  BY <1>1, <1>2, <1>4, <1>5

(* A step of the encoder, which leaves the reader alone *)
LEMMA Forward ==
  ASSUME CodingInv, NEW p \in Nat, Placed(p), UNCHANGED <<conf, decoder, collector, buf>>,
         coded' \in Seq(Parts), enc' \in Codecs, given' \in Nat, failed' \in BOOLEAN,
         sent' \in {"open", "end", "failed"}, sent # "end", Encoding',
         p + Len(decoder.held) + Len(coded') + Len(enc'.held) = Put',
         At(coded', p + Len(decoder.held), conf),
         At(enc'.held, p + Len(decoder.held) + Len(coded'), conf)
  PROVE  CodingInv'
<1>1. CodingTypes'
  BY Zenon DEF CodingInv, CodingTypes
<1>2. Decoding'
  BY Zenon DEF CodingInv, Decoding
<1>3. Collecting'
  BY Zenon DEF CodingInv, Collecting, Overflows
<1>4. Placed(p)'
  BY Zenon DEF Placed, Live
<1> QED
  BY <1>1, <1>2, <1>3, <1>4, Zenon DEF CodingInv

(* The first k of the parts in the encoder come out. *)
Flown(s, h, k, t, left, o, c) ==
    /\ t \in Seq(Parts) /\ Len(t) = Len(s) + k /\ At(t, o, c)
    /\ left \in Seq(Parts) /\ Len(left) = Len(h) - k /\ At(left, o + Len(t), c)
(* k parts move from the codec to the stream and keep their places. *)
LEMMA Flow ==
  ASSUME NEW o \in Nat, NEW c, NEW s \in Seq(Parts), At(s, o, c),
         NEW h \in Seq(Parts), At(h, o + Len(s), c), NEW k \in 0 .. Len(h)
  PROVE  Flown(s, h, k, s \o SubSeq(h, 1, k), Left(h, SubSeq(h, 1, k)), o, c)
<1>1. Len(s) \in Nat /\ Len(h) \in Nat /\ o + Len(s) \in Nat /\ k \in Nat
  OBVIOUS
<1>2. /\ SubSeq(h, 1, k) \in Seq(Parts) /\ Len(SubSeq(h, 1, k)) = k
      /\ At(SubSeq(h, 1, k), o + Len(s), c)
      /\ SubSeq(h, k + 1, Len(h)) \in Seq(Parts) /\ Len(SubSeq(h, k + 1, Len(h))) = Len(h) - k
      /\ At(SubSeq(h, k + 1, Len(h)), (o + Len(s)) + k, c)
  BY <1>1, AtSplit, Zenon
<1>3. /\ s \o SubSeq(h, 1, k) \in Seq(Parts) /\ Len(s \o SubSeq(h, 1, k)) = Len(s) + k
      /\ At(s \o SubSeq(h, 1, k), o, c)
  <2>1. PICK t \in Seq(Parts) : t = SubSeq(h, 1, k) /\ Len(t) = k /\ At(t, o + Len(s), c)
    BY <1>2, Zenon
  <2>2. s \o t \in Seq(Parts) /\ Len(s \o t) = Len(s) + Len(t) /\ At(s \o t, o, c)
    BY <2>1, AtConcat, Zenon
  <2> QED
    BY <2>1, <2>2, Zenon
<1>4. (o + Len(s)) + k = o + Len(s \o SubSeq(h, 1, k))
  BY <1>1, <1>3
<1> QED
  BY <1>2, <1>3, <1>4, Zenon DEF Left, Flown

(* Encoder::poll_next_chunk: a chunk is coded in place or on a thread. *)
LEMMA EncodeChunkKeeps ==
  ASSUME CodingInv, NEW large \in BOOLEAN, EncodeChunk(large)
  PROVE  CodingInv'
<1>1. PICK p \in Nat : Placed(p)
  BY Zenon DEF CodingInv
<1>2. PICK o \in Nat : o = p + Len(decoder.held)
  BY <1>1, Sizes, Zenon
<1>3. /\ conf \in Configurations /\ given \in Nat /\ conf.total \in Nat
      /\ enc.held \in Seq(Parts) /\ coded \in Seq(Parts)
      /\ Len(enc.held) \in Nat /\ Len(coded) \in Nat /\ o + Len(coded) \in Nat
  BY <1>1, <1>2, Sizes, Zenon
<1>4. /\ sent = "open" /\ enc.fut = "none" /\ ~enc.eof /\ ~failed /\ given < conf.total
      /\ given' = given + 1
      /\ UNCHANGED <<conf, failed, sent, decoder, collector, buf>>
  BY Zenon DEF EncodeChunk
<1>5. o + Len(coded) + Len(enc.held) = given /\ At(coded, o, conf) /\ At(enc.held, o + Len(coded), conf)
  <2>1. /\ o + Len(coded) + Len(enc.held) = Put /\ At(coded, o, conf)
        /\ At(enc.held, o + Len(coded), conf)
    BY <1>1, <1>2, Zenon DEF Placed
  <2>2. Put = given
    BY <1>3, <1>4 DEF Put
  <2> QED
    BY <2>1, <2>2, Zenon
<1>0. PICK a \in Nat, b \in Nat : a = Len(coded) /\ b = Len(enc.held) /\ o + a + b = given
  BY <1>3, <1>5, Zenon
<1>6. enc \in Codecs /\ failed \in BOOLEAN
  BY Zenon DEF CodingInv, CodingTypes
<1>7. Nth(conf, given + 1) = Part(given + 1, can_encode(conf) \/ conf.own # "none")
  BY <1>3, <1>4 DEF Nth
<1>8. Nth(conf, given + 1) \in Parts
  <2>1. given + 1 \in Nat \ {0}
    BY <1>3
  <2> QED
    BY <1>3, <2>1, NthPart, Zenon
<1>9. enc.inner => can_encode(conf)
  BY Zenon DEF CodingInv, Encoding
<1>10. given' \in Nat /\ given' <= conf.total
  BY <1>3, <1>4
<1>11. CASE ~enc.inner /\ ~large
  <2>1. ~can_encode(conf)
    BY <1>4, <1>11, Zenon DEF CodingInv, Encoding
  <2>2. PICK x : x = Part(given + 1, conf.own # "none")
    BY Zenon
  <2>3. coded' = coded \o <<x>> /\ enc' = enc
    BY <1>11, <2>2, Zenon DEF EncodeChunk, Emit
  <2>4. x \in Parts /\ x = Nth(conf, given + 1)
    BY <1>7, <1>8, <2>1, <2>2, Zenon
  <2>5. enc.held = <<>> /\ Len(enc.held) = 0
    BY <2>1, Zenon DEF CodingInv, Encoding
  <2>6. x = Nth(conf, o + Len(coded) + 1)
    BY <1>3, <1>5, <2>4, <2>5
  <2>7. coded' = Append(coded, x)
    BY <1>3, <2>3, <2>4, AppendIsConcat, Zenon
  <2>8. coded' \in Seq(Parts) /\ Len(coded') = Len(coded) + 1 /\ At(coded', o, conf)
    BY <1>3, <1>5, <2>4, <2>6, <2>7, AtAppend, Zenon
  <2>9. Encoding'
    BY <1>4, <1>10, <2>1, <2>3, Zenon DEF CodingInv, Encoding
  <2>10. At(enc'.held, o + Len(coded'), conf)
    BY <2>3, <2>5, AtEmpty, Zenon
  <2>11. o + Len(coded') + Len(enc'.held) = Put'
    <3>1. Put' = (given + 1) + 0
      BY <1>4, <2>3, Zenon DEF Put
    <3>2. b = 0 /\ Len(coded') = a + 1 /\ Len(enc'.held) = b
      BY <1>0, <2>3, <2>5, <2>8, Zenon
    <3>3. o + (a + 1) + b = (given + 1) + 0
      <4>1. o + (a + 1) + b = ((o + a + b) + 1) + 0
        OBVIOUS
      <4> QED
        BY <1>0, <4>1, Zenon
    <3> QED
      BY <3>1, <3>2, <3>3, Zenon
  <2> QED
    BY <1>1, <1>2, <1>4, <1>6, <1>10, <2>3, <2>8, <2>9, <2>10, <2>11, Forward, Zenon
<1>12. CASE enc.inner
  <2>1. PICK h : h = Append(enc.held, Part(given + 1, TRUE))
    BY Zenon
  <2>2. Part(given + 1, TRUE) = Nth(conf, o + Len(coded) + Len(enc.held) + 1)
    BY <1>5, <1>7, <1>9, <1>12, Zenon
  <2>3. Part(given + 1, TRUE) \in Parts
    BY <1>5, <1>8, <2>2, Zenon
  <2>4. h \in Seq(Parts) /\ Len(h) = Len(enc.held) + 1 /\ At(h, o + Len(coded), conf)
    BY <1>3, <1>5, <2>1, <2>2, <2>3, AtAppend, Zenon
  <2>5. CASE ~large
    <3>1. PICK chunks \in Taken(h) :
            coded' = coded \o chunks /\ enc' = [enc EXCEPT !.held = Left(h, chunks)]
      BY <1>12, <2>1, <2>5, Zenon DEF EncodeChunk, Emit
    <3>2. PICK k \in 0 .. Len(h) : chunks = SubSeq(h, 1, k)
      BY Zenon DEF Taken
    <3>3. /\ coded' \in Seq(Parts) /\ Len(coded') = Len(coded) + k /\ At(coded', o, conf)
          /\ Left(h, chunks) \in Seq(Parts) /\ Len(Left(h, chunks)) = Len(h) - k
          /\ At(Left(h, chunks), o + Len(coded'), conf)
      <4>1. Flown(coded, h, k, coded \o SubSeq(h, 1, k), Left(h, SubSeq(h, 1, k)), o, conf)
        BY <1>3, <1>5, <2>4, <3>2, Flow, Zenon
      <4> QED
        BY <3>1, <3>2, <4>1, Zenon DEF Flown
    <3>4. enc' \in Codecs /\ enc'.held = Left(h, chunks) /\ enc'.eof = FALSE
          /\ enc'.inner = TRUE /\ enc'.fut = "none"
      BY <1>4, <1>6, <1>12, <3>1, <3>3, Zenon DEF Codecs
    <3>5. o + Len(coded') + Len(enc'.held) = Put'
      <4>1. (o + a + b) + 1 = o + (a + k) + ((b + 1) - k)
        OBVIOUS
      <4>2. Put' = given + 1
        BY <1>3, <1>4, <3>4 DEF Put
      <4> QED
        BY <1>0, <2>4, <3>3, <3>4, <4>1, <4>2, Zenon
    <3>6. Encoding'
      BY <1>4, <1>9, <1>10, <1>12, <3>4, Zenon DEF Encoding
    <3> QED
      BY <1>1, <1>2, <1>4, <1>6, <1>10, <3>3, <3>4, <3>5, <3>6, Forward, Zenon
  <2>6. CASE large
    <3>1. enc' = [enc EXCEPT !.inner = FALSE, !.fut = "running", !.held = h] /\ coded' = coded
      BY <1>12, <2>1, <2>6, Zenon DEF EncodeChunk
    <3>2. /\ enc' \in Codecs /\ enc'.held = h /\ enc'.eof = FALSE /\ enc'.fut = "running"
      BY <1>4, <1>6, <2>4, <3>1, Zenon DEF Codecs, Futs
    <3>3. o + Len(coded') + Len(enc'.held) = Put'
      <4>1. (o + a + b) + 1 = o + a + (b + 1)
        OBVIOUS
      <4>2. Put' = given + 1
        BY <1>3, <1>4, <3>2 DEF Put
      <4> QED
        BY <1>0, <2>4, <3>1, <3>2, <4>1, <4>2, Zenon
    <3>4. Encoding'
      BY <1>4, <1>9, <1>10, <1>12, <3>2, Zenon DEF Encoding
    <3>5. At(coded', o, conf) /\ At(enc'.held, o + Len(coded'), conf) /\ coded' \in Seq(Parts)
      BY <1>3, <1>5, <2>4, <3>1, <3>2, Zenon
    <3> QED
      BY <1>1, <1>2, <1>4, <1>6, <1>10, <3>2, <3>3, <3>4, <3>5, Forward, Zenon
  <2> QED
    BY <2>5, <2>6, Zenon
<1>13. ~enc.inner => ~large
  BY Zenon DEF EncodeChunk
<1> QED
  BY <1>11, <1>12, <1>13, Zenon

(* The codec is back, or the thread was canceled. *)
LEMMA EncodeFutKeeps ==
  ASSUME CodingInv, EncodeFut
  PROVE  CodingInv'
<1>1. PICK p \in Nat : Placed(p)
  BY Zenon DEF CodingInv
<1>2. PICK o \in Nat : o = p + Len(decoder.held)
  BY <1>1, Sizes, Zenon
<1>3. /\ conf \in Configurations /\ given \in Nat /\ enc.held \in Seq(Parts) /\ coded \in Seq(Parts)
      /\ Len(enc.held) \in Nat /\ Len(coded) \in Nat
  BY <1>1, Sizes, Zenon
<1>4. /\ sent = "open" /\ enc.fut \in {"done", "canceled"}
      /\ UNCHANGED <<conf, given, failed, decoder, collector, buf>>
  BY Zenon DEF EncodeFut
<1>5. /\ o + Len(coded) + Len(enc.held) = Put /\ At(coded, o, conf)
      /\ At(enc.held, o + Len(coded), conf)
  BY <1>1, <1>2, Zenon DEF Placed
<1>6. enc \in Codecs /\ failed \in BOOLEAN /\ Encoding
  BY Zenon DEF CodingInv, CodingTypes
<1>7. can_encode(conf) /\ enc.eof = FALSE
  BY <1>4, <1>6, Zenon DEF Encoding, Codecs
<1>8. CASE enc.fut = "done"
  <2>1. PICK h \in Seq(Parts) : h = enc.held
    BY <1>3, Zenon
  <2>2. PICK chunks \in Taken(h) :
            /\ coded' = coded \o chunks /\ sent' = sent
            /\ enc' = [enc EXCEPT !.inner = TRUE, !.fut = "none", !.held = Left(h, chunks)]
    BY <1>8, <2>1, Zenon DEF EncodeFut, Emit
  <2>3. PICK k \in 0 .. Len(h) : chunks = SubSeq(h, 1, k)
    BY Zenon DEF Taken
  <2>4. Flown(coded, h, k, coded \o SubSeq(h, 1, k), Left(h, SubSeq(h, 1, k)), o, conf)
    BY <1>3, <1>5, <2>1, <2>3, Flow, Zenon
  <2>5. /\ coded' \in Seq(Parts) /\ Len(coded') = Len(coded) + k /\ At(coded', o, conf)
        /\ Left(h, chunks) \in Seq(Parts) /\ Len(Left(h, chunks)) = Len(h) - k
        /\ At(Left(h, chunks), o + Len(coded'), conf)
    BY <2>2, <2>3, <2>4, Zenon DEF Flown
  <2>6. /\ enc' \in Codecs /\ enc'.held = Left(h, chunks) /\ enc'.eof = FALSE
        /\ enc'.inner = TRUE /\ enc'.fut = "none"
    BY <1>6, <1>7, <2>2, <2>5, Zenon DEF Codecs, Futs
  <2>7. o + Len(coded') + Len(enc'.held) = Put'
    <3>1. PICK a \in Nat, b \in Nat : a = Len(coded) /\ b = Len(h)
      BY <1>3, <2>1, Zenon
    <3>2. o + (a + k) + (b - k) = o + a + b
      BY <2>3, <3>1
    <3>3. Put' = Put
      BY <1>4, <1>7, <2>6, Zenon DEF Put
    <3> QED
      BY <1>5, <2>1, <2>5, <2>6, <3>1, <3>2, <3>3, Zenon
  <2>8. Encoding'
    BY <1>4, <1>6, <1>7, <2>2, <2>6, Zenon DEF Encoding
  <2> QED
    BY <1>1, <1>2, <1>3, <1>4, <1>6, <2>2, <2>5, <2>6, <2>7, <2>8, Forward, Zenon
<1>9. CASE enc.fut = "canceled"
  <2>1. sent' = "failed" /\ enc' = enc /\ coded' = coded
    BY <1>9, Zenon DEF EncodeFut
  <2>2. Encoding'
    BY <1>4, <1>6, <2>1, Zenon DEF Encoding
  <2>3. Put' = Put
    BY <1>4, <2>1, Zenon DEF Put
  <2> QED
    BY <1>1, <1>2, <1>3, <1>4, <1>5, <1>6, <2>1, <2>2, <2>3, Forward, Zenon
<1> QED
  BY <1>4, <1>8, <1>9, Zenon

(* The body ends, and with it the compressor. *)
LEMMA EncodeEndKeeps ==
  ASSUME CodingInv, EncodeEnd
  PROVE  CodingInv'
<1>1. PICK p \in Nat : Placed(p)
  BY Zenon DEF CodingInv
<1>2. PICK o \in Nat : o = p + Len(decoder.held)
  BY <1>1, Sizes, Zenon
<1>3. /\ conf \in Configurations /\ given \in Nat /\ enc.held \in Seq(Parts) /\ coded \in Seq(Parts)
      /\ Len(enc.held) \in Nat /\ Len(coded) \in Nat /\ conf.total \in Nat
      /\ o + Len(coded) \in Nat
  BY <1>1, <1>2, Sizes, Zenon
<1>4. /\ sent = "open" /\ enc.fut = "none" /\ ~failed
      /\ UNCHANGED <<conf, given, failed, decoder, collector, buf>>
  BY Zenon DEF EncodeEnd
<1>5. /\ o + Len(coded) + Len(enc.held) = Put /\ At(coded, o, conf)
      /\ At(enc.held, o + Len(coded), conf)
  BY <1>1, <1>2, Zenon DEF Placed
<1>6. enc \in Codecs /\ failed \in BOOLEAN /\ Encoding
  BY Zenon DEF CodingInv, CodingTypes
<1>7. CASE ~enc.eof /\ enc.inner /\ given = conf.total /\ UNCHANGED sent
           /\ Emit(finish(enc.held))
           /\ enc' = [enc EXCEPT !.inner = FALSE, !.eof = TRUE, !.held = <<>>]
  <2>1. can_encode(conf) /\ Put = conf.total
    BY <1>3, <1>6, <1>7 DEF Encoding, Put
  <2>2. PICK f \in Seq(Parts) : f = finish(enc.held) /\ Len(f) = Len(enc.held) + 1
                                /\ At(f, o + Len(coded), conf)
    <3>1. Part(0, TRUE) \in Parts
      BY Zenon DEF Part, Parts
    <3>2. Part(0, TRUE) = Nth(conf, o + Len(coded) + Len(enc.held) + 1)
      <4>1. Nth(conf, conf.total + 1) = Part(0, TRUE)
        <5>1. ~(conf.total + 1 <= conf.total)
          BY <1>3
        <5>2. (can_encode(conf) \/ conf.own # "none") = TRUE
          BY <2>1, Zenon
        <5> QED
          BY <5>1, <5>2, Zenon DEF Nth
      <4> QED
        BY <1>5, <2>1, <4>1, Zenon
    <3> QED
      BY <1>3, <1>5, <3>1, <3>2, AtAppend, Zenon DEF finish
  <2>3. /\ coded' \in Seq(Parts) /\ Len(coded') = Len(coded) + Len(f) /\ At(coded', o, conf)
    BY <1>3, <1>5, <1>7, <2>2, AtConcat, Zenon DEF Emit
  <2>4. /\ enc' \in Codecs /\ enc'.held = <<>> /\ enc'.eof = TRUE
        /\ enc'.inner = FALSE /\ enc'.fut = "none"
    BY <1>4, <1>6, <1>7, EmptySeq, Zenon DEF Codecs
  <2>5. o + Len(coded') + Len(enc'.held) = Put'
    <3>1. PICK a \in Nat, b \in Nat : a = Len(coded) /\ b = Len(enc.held) /\ o + a + b = conf.total
      BY <1>3, <1>5, <2>1, Zenon
    <3>2. o + (a + (b + 1)) + 0 = (o + a + b) + 1
      OBVIOUS
    <3>3. Put' = conf.total + 1
      BY <1>4, <1>7, <2>4, Zenon DEF Put
    <3>4. Len(enc'.held) = 0
      BY <2>4
    <3> QED
      BY <2>2, <2>3, <3>1, <3>2, <3>3, <3>4, Zenon
  <2>6. Encoding'
    BY <1>4, <1>6, <1>7, <2>1, <2>4, Zenon DEF Encoding
  <2>7. At(enc'.held, o + Len(coded'), conf)
    BY <2>4, AtEmpty, Zenon
  <2> QED
    BY <1>1, <1>2, <1>3, <1>4, <1>6, <1>7, <2>3, <2>4, <2>5, <2>6, <2>7, Forward, Zenon
<1>8. CASE (enc.eof \/ (~enc.inner /\ given = conf.total)) /\ sent' = "end" /\ UNCHANGED <<enc, coded>>
  <2>1. Encoding'
    BY <1>4, <1>6, <1>8, Zenon DEF Encoding
  <2>2. Put' = Put
    BY <1>4, <1>8, Zenon DEF Put
  <2> QED
    BY <1>1, <1>2, <1>3, <1>4, <1>5, <1>6, <1>8, <2>1, <2>2, Forward, Zenon
<1> QED
  BY <1>7, <1>8, Zenon DEF EncodeEnd

(* The steps that only move a flag *)
LEMMA FlagsKeep ==
  ASSUME CodingInv, SourceFails \/ EncodeError \/ Blocking \/ Timeout
  PROVE  CodingInv'
<1>1. PICK p \in Nat : Placed(p)
  BY Zenon DEF CodingInv
<1>2. CodingTypes /\ Encoding /\ Decoding /\ Collecting
  BY Zenon DEF CodingInv
<1>3. CASE SourceFails
  <2>1. /\ failed' = TRUE /\ given < conf.total
        /\ UNCHANGED <<conf, given, enc, coded, sent, decoder, collector, buf>>
    BY <1>3, Zenon DEF SourceFails
  <2>2. CodingTypes'
    BY <1>2, <2>1, Zenon DEF CodingTypes
  <2>3. Encoding'
    BY <1>2, <2>1, Zenon DEF Encoding
  <2>4. Decoding'
    BY <1>2, <2>1, Zenon DEF Decoding
  <2>5. Collecting'
    BY <1>2, <2>1, Zenon DEF Collecting, Overflows
  <2>6. Placed(p)'
    BY <1>1, <2>1, Zenon DEF Placed, Put, Live
  <2> QED
    BY <2>2, <2>3, <2>4, <2>5, <2>6, Zenon DEF CodingInv
<1>4. CASE EncodeError
  <2>1. /\ sent = "open" /\ sent' = "failed" /\ sent' # "end"
        /\ UNCHANGED <<conf, given, failed, enc, coded, decoder, collector, buf>>
    BY <1>4, Zenon DEF EncodeError
  <2>2. CodingTypes'
    BY <1>2, <2>1, Zenon DEF CodingTypes
  <2>3. Encoding'
    BY <1>2, <2>1, Zenon DEF Encoding
  <2>4. Decoding'
    BY <1>2, <2>1, Zenon DEF Decoding
  <2>5. Collecting'
    BY <1>2, <2>1, Zenon DEF Collecting, Overflows
  <2>6. Placed(p)'
    BY <1>1, <2>1, Zenon DEF Placed, Put, Live
  <2> QED
    BY <2>2, <2>3, <2>4, <2>5, <2>6, Zenon DEF CodingInv
<1>5. CASE Blocking
  <2>1. PICK r \in {"done", "canceled"} :
            \/ enc.fut = "running" /\ enc' = [enc EXCEPT !.fut = r] /\ UNCHANGED decoder
            \/ decoder.fut = "running" /\ decoder' = [decoder EXCEPT !.fut = r] /\ UNCHANGED enc
    BY <1>5, Zenon DEF Blocking
  <2>2. UNCHANGED <<conf, given, failed, coded, sent, collector, buf>>
    BY <1>5, Zenon DEF Blocking
  <2>3. CASE enc.fut = "running" /\ enc' = [enc EXCEPT !.fut = r] /\ UNCHANGED decoder
    <3>1. enc' \in Codecs /\ enc'.fut = r /\ enc'.inner = enc.inner /\ enc'.eof = enc.eof /\ enc'.held = enc.held
      BY <1>2, <2>1, <2>3, Zenon DEF CodingTypes, Codecs, Futs
    <3>2. r # "none" /\ enc.eof = FALSE /\ can_encode(conf)
      BY <1>2, <2>1, <2>3, Zenon DEF Encoding, CodingTypes, Codecs
    <3>3. CodingTypes'
      BY <1>2, <2>2, <2>3, <3>1, Zenon DEF CodingTypes
    <3>4. Encoding'
      BY <1>2, <2>2, <3>1, <3>2, Zenon DEF Encoding
    <3>5. Decoding' /\ Collecting'
      BY <1>2, <2>2, <2>3, Zenon DEF Decoding, Collecting, Overflows
    <3>6. Placed(p)'
      BY <1>1, <2>2, <2>3, <3>1, Zenon DEF Placed, Put, Live
    <3> QED
      BY <3>3, <3>4, <3>5, <3>6, Zenon DEF CodingInv
  <2>4. CASE decoder.fut = "running" /\ decoder' = [decoder EXCEPT !.fut = r] /\ UNCHANGED enc
    <3>1. decoder' \in Codecs /\ decoder'.fut = r /\ decoder'.inner = decoder.inner
          /\ decoder'.eof = decoder.eof /\ decoder'.held = decoder.held
      BY <1>2, <2>1, <2>4, Zenon DEF CodingTypes, Codecs, Futs
    <3>2. r # "none" /\ from_headers(conf) /\ decoder.held # <<>>
      BY <1>2, <2>1, <2>4, Zenon DEF Decoding
    <3>3. CodingTypes'
      BY <1>2, <2>2, <2>4, <3>1, Zenon DEF CodingTypes
    <3>4. Encoding'
      BY <1>2, <2>2, <2>4, Zenon DEF Encoding
    <3>5. Decoding' /\ Collecting'
      BY <1>2, <2>2, <3>1, <3>2, Zenon DEF Decoding, Collecting, Overflows
    <3>6. Placed(p)'
      BY <1>1, <2>2, <2>4, <3>1, Zenon DEF Placed, Put, Live
    <3> QED
      BY <3>3, <3>4, <3>5, <3>6, Zenon DEF CodingInv
  <2> QED
    BY <2>1, <2>3, <2>4, Zenon
<1>6. CASE Timeout
  <2>1. collector = "reading" /\ collector' = "timeout"
        /\ UNCHANGED <<conf, given, failed, enc, coded, sent, decoder, buf>>
    BY <1>6, Zenon DEF Timeout
  <2>2. CodingTypes' /\ Encoding'
    BY <1>2, <2>1, Zenon DEF CodingTypes, Encoding
  <2>3. Decoding' /\ Collecting'
    BY <1>2, <2>1, Zenon DEF Decoding, Collecting, Overflows
  <2>4. Placed(p)'
    BY <1>1, <2>1, Zenon DEF Placed, Put, Live
  <2> QED
    BY <2>2, <2>3, <2>4, Zenon DEF CodingInv
<1> QED
  BY <1>3, <1>4, <1>5, <1>6, Zenon

(* The reader looks at the content-length first: it is only there for a body *)
(* that goes as it is.                                                       *)
LEMMA StartReadingKeeps ==
  ASSUME CodingInv, StartReading
  PROVE  CodingInv'
<1>1. PICK p \in Nat : Placed(p)
  BY Zenon DEF CodingInv
<1>2. CodingTypes /\ Encoding /\ Decoding /\ Collecting
  BY Zenon DEF CodingInv
<1>3. /\ collector = "new" /\ UNCHANGED <<conf, given, failed, enc, coded, sent, decoder, buf>>
      /\ collector' = IF Overflows(ContentLength(conf)) THEN "overflow" ELSE "reading"
  BY Zenon DEF StartReading
<1>4. conf \in Configurations /\ conf.total \in Nat /\ conf.limit \in Nat /\ ~decoder.eof
  BY <1>2, <1>3, Configured, Zenon DEF CodingTypes, Decoding
<1>5. Overflows(ContentLength(conf)) => Overflows(Size(conf, Full(conf)))
  <2>1. CASE can_encode(conf) \/ conf.body = "Stream"
    BY <1>4, <2>1 DEF ContentLength, Overflows
  <2>2. CASE ~(can_encode(conf) \/ conf.body = "Stream")
    <3>1. Full(conf) = conf.total /\ ContentLength(conf) = conf.total
      BY <1>4, <2>2, Configured, Zenon DEF ContentLength
    <3>2. Size(conf, conf.total) = conf.total
      BY <1>4, Zenon DEF Size
    <3> QED
      BY <3>1, <3>2, Zenon
  <2> QED
    BY <2>1, <2>2, Zenon
<1>6. CodingTypes' /\ Encoding' /\ collector' \in {"overflow", "reading"}
  BY <1>2, <1>3, Zenon DEF CodingTypes, Encoding
<1>7. Decoding'
  BY <1>2, <1>3, <1>4, Zenon DEF Decoding
<1>8. Collecting'
  BY <1>2, <1>3, <1>5, Zenon DEF Collecting, Overflows
<1>9. Placed(p)'
  BY <1>1, <1>3, <1>6, Zenon DEF Placed, Put, Live
<1> QED
  BY <1>6, <1>7, <1>8, <1>9, Zenon DEF CodingInv

(* A step of the reader moves parts on and leaves the encoder alone. *)
LEMMA Backward ==
  ASSUME CodingInv, UNCHANGED <<conf, given, failed, enc, sent>>,
         coded' \in Seq(Parts), decoder' \in Codecs, buf' \in Seq(Parts),
         collector' \in {"reading", "ok", "overflow", "error"},
         Decoding', Collecting', NEW p \in Nat, Placed(p), NEW q \in Nat,
         q + Len(decoder'.held) + Len(coded') = p + Len(decoder.held) + Len(coded),
         At(decoder'.held, q, conf), At(coded', q + Len(decoder'.held), conf),
         collector' \in {"reading", "ok"} => Len(buf') = Size(conf, q)
  PROVE  CodingInv'
<1>1. CodingTypes' /\ Encoding'
  BY Zenon DEF CodingInv, CodingTypes, Encoding
<1>2. Live' => collector' \in {"reading", "ok"}
  BY Zenon DEF Live
<1>3. Put' = Put
  BY Zenon DEF Put
<1>4. Placed(q)'
  BY <1>2, <1>3, Zenon DEF Placed
<1> QED
  BY <1>1, <1>4, Zenon DEF CodingInv

(* What is taken is at most what there is to take. *)
LEMMA PutBounded ==
  ASSUME CodingInv
  PROVE  Put \in Nat /\ Put <= Full(conf)
<1>1. /\ conf \in Configurations /\ given \in Nat /\ given <= conf.total /\ enc.eof \in BOOLEAN
      /\ enc.eof => can_encode(conf)
  BY Zenon DEF CodingInv, CodingTypes, Encoding, Codecs
<1>2. conf.total \in Nat
  BY <1>1, Configured, Zenon
<1>3. CASE enc.eof
  BY <1>1, <1>2, <1>3 DEF Put, Full
<1>4. CASE ~enc.eof
  BY <1>1, <1>2, <1>4 DEF Put, Full
<1> QED
  BY <1>3, <1>4, Zenon

(* What the reader has, once it has taken the parts up to q *)
LEMMA CollectingNext ==
  ASSUME CodingInv, collector = "reading", UNCHANGED <<conf, sent>>, NEW q \in Nat,
         \/ collector' = "overflow" /\ buf' = buf /\ Overflows(Size(conf, Full(conf)))
         \/ /\ collector' = collector /\ buf' \in Seq(Parts)
            /\ Len(buf') = Size(conf, q)
            /\ \A k \in 1 .. Len(buf') : buf'[k] = Kth(conf, k)
            /\ Len(buf') <= Size(conf, Full(conf)) /\ ~Overflows(Len(buf'))
  PROVE  /\ Collecting' /\ buf' \in Seq(Parts) /\ collector' \in {"reading", "overflow"}
         /\ collector' \in {"reading", "ok"} => Len(buf') = Size(conf, q)
<1>1. buf \in Seq(Parts) /\ Collecting
  BY Zenon DEF CodingInv, CodingTypes
<1>2. CASE collector' = "overflow" /\ buf' = buf /\ Overflows(Size(conf, Full(conf)))
  BY <1>1, <1>2, Zenon DEF Collecting, Overflows
<1>3. CASE /\ collector' = collector /\ buf' \in Seq(Parts)
            /\ Len(buf') = Size(conf, q)
            /\ \A k \in 1 .. Len(buf') : buf'[k] = Kth(conf, k)
            /\ Len(buf') <= Size(conf, Full(conf)) /\ ~Overflows(Len(buf'))
  BY <1>3, Zenon DEF Collecting, Overflows
<1> QED
  BY <1>2, <1>3, Zenon

(* Decoder::poll_next: a piece is decoded in place or on a thread. *)
LEMMA DecodePieceKeeps ==
  ASSUME CodingInv, NEW k \in 1 .. Len(coded), NEW large \in BOOLEAN, DecodePiece(k, large)
  PROVE  CodingInv'
<1>1. PICK p \in Nat : Placed(p)
  BY Zenon DEF CodingInv
<1>2. CodingTypes /\ Encoding /\ Decoding /\ Collecting
  BY Zenon DEF CodingInv
<1>3. /\ collector = "reading" /\ decoder.fut = "none" /\ decoder.eof = FALSE /\ decoder.held = <<>>
      /\ UNCHANGED <<conf, given, failed, enc, sent>> /\ decoder.inner = from_headers(conf)
      /\ conf \in Configurations /\ coded \in Seq(Parts) /\ enc.held \in Seq(Parts)
      /\ Len(coded) \in Nat /\ Len(enc.held) \in Nat
  <2>1. collector = "reading" /\ decoder.fut = "none" /\ UNCHANGED <<conf, given, failed, enc, sent>>
    BY Zenon DEF DecodePiece
  <2>2. decoder.eof = FALSE /\ decoder.inner \in BOOLEAN
    BY <1>2, <2>1, Zenon DEF CodingTypes, Codecs, Decoding
  <2>3. decoder.inner = from_headers(conf)
    <3>1. CASE from_headers(conf)
      BY <1>2, <2>1, <2>2, <3>1, Zenon DEF Decoding, from_headers
    <3>2. CASE ~from_headers(conf)
      BY <1>2, <2>1, <2>2, <3>2, Zenon DEF Decoding, from_headers
    <3> QED
      BY <3>1, <3>2, Zenon
  <2> QED
    BY <1>1, <1>2, <2>1, <2>2, <2>3, Sizes, Zenon DEF Decoding
<1>4. PICK l \in Nat, e \in Nat : /\ l = Len(coded) /\ e = Len(enc.held) /\ p + 0 + l + e = Put /\ k \in 1 .. l
                                  /\ At(coded, p + 0, conf)
  BY <1>1, <1>3, AtEmpty, Zenon DEF Placed
<1>5. p + 0 = p /\ k \in 0 .. l /\ k \in Nat \ {0} /\ p + k \in Nat /\ p + k <= Full(conf)
  <2>1. PICK u \in Nat, f \in Nat : u = Put /\ f = Full(conf) /\ u <= f
    BY <1>3, PutBounded, Configured, Zenon
  <2>2. p + 0 + l + e = u /\ k \in 1 .. l /\ u <= f
    BY <1>4, <2>1, Zenon
  <2>3. p + 0 = p /\ k \in 0 .. l /\ k \in Nat \ {0} /\ p + k \in Nat /\ p + k <= f
    BY <2>2
  <2> QED
    BY <2>1, <2>3, Zenon
<1>6. PICK chunks \in Seq(Parts) : /\ chunks = SubSeq(coded, 1, k) /\ Len(chunks) = k /\ At(chunks, p, conf)
                                   /\ coded' \in Seq(Parts) /\ Len(coded') = l - k /\ At(coded', p + k, conf)
  <2>1. coded' = SubSeq(coded, k + 1, Len(coded))
    BY Zenon DEF DecodePiece
  <2>2. At(coded, p, conf) /\ k \in 0 .. Len(coded)
    BY <1>4, <1>5, Zenon
  <2>3. /\ SubSeq(coded, 1, k) \in Seq(Parts) /\ Len(SubSeq(coded, 1, k)) = k
        /\ At(SubSeq(coded, 1, k), p, conf)
        /\ SubSeq(coded, k + 1, Len(coded)) \in Seq(Parts)
        /\ Len(SubSeq(coded, k + 1, Len(coded))) = Len(coded) - k
        /\ At(SubSeq(coded, k + 1, Len(coded)), p + k, conf)
    BY <1>3, <2>2, AtSplit, Zenon
  <2> QED
    BY <1>4, <2>1, <2>3, Zenon
<1>7. chunks # <<>> /\ Len(buf) = Size(conf, p)
  <2>1. chunks # <<>>
    BY <1>5, <1>6, AtEmpty, Zenon
  <2> QED
    BY <1>1, <1>3, <2>1, Zenon DEF Placed, Live
<1>8. CASE ~large
  <2>1. decoder' = decoder /\ IF from_headers(conf) THEN Feed(chunks) ELSE Read(chunks)
    BY <1>3, <1>6, <1>8, Zenon DEF DecodePiece
  <2>2. \/ collector' = "overflow" /\ buf' = buf /\ Overflows(Size(conf, Full(conf)))
        \/ /\ collector' = collector /\ buf' \in Seq(Parts)
           /\ Len(buf') = Size(conf, p + Len(chunks))
           /\ \A i \in 1 .. Len(buf') : buf'[i] = Kth(conf, i)
           /\ Len(buf') <= Size(conf, Full(conf)) /\ ~Overflows(Len(buf'))
    BY <1>2, <1>5, <1>6, <1>7, <2>1, Consume, Zenon
  <2>3. /\ Collecting' /\ buf' \in Seq(Parts) /\ collector' \in {"reading", "overflow"}
        /\ collector' \in {"reading", "ok"} => Len(buf') = Size(conf, p + k)
    BY <1>3, <1>5, <1>6, <2>2, CollectingNext, Zenon
  <2>4. Decoding'
    BY <1>2, <1>3, <2>1, Zenon DEF Decoding
  <2>5. decoder' \in Codecs /\ decoder'.held = <<>> /\ Len(<<>>) = 0
    BY <1>2, <1>3, <2>1, AtEmpty, Zenon DEF CodingTypes
  <2>6. (p + k) + 0 + (l - k) = p + 0 + l /\ (p + k) + 0 = p + k
    BY <1>5
  <2>7. /\ (p + k) + Len(decoder'.held) + Len(coded') = p + Len(decoder.held) + Len(coded)
        /\ At(decoder'.held, p + k, conf) /\ At(coded', (p + k) + Len(decoder'.held), conf)
    BY <1>3, <1>4, <1>6, <2>5, <2>6, AtEmpty, Zenon
  <2>8. collector' \in {"reading", "ok", "overflow", "error"}
    BY <2>3, Zenon
  <2> QED
    BY <1>1, <1>3, <1>5, <1>6, <2>3, <2>4, <2>5, <2>7, <2>8, Backward, Zenon
<1>9. CASE large
  <2>1. /\ decoder' = [decoder EXCEPT !.inner = FALSE, !.fut = "running", !.held = chunks]
        /\ from_headers(conf) /\ UNCHANGED <<collector, buf>>
    BY <1>3, <1>6, <1>9, Zenon DEF DecodePiece
  <2>2. decoder' \in Codecs /\ decoder'.held = chunks /\ decoder'.fut = "running" /\ decoder'.eof = FALSE
    BY <1>2, <1>3, <2>1, Zenon DEF CodingTypes, Codecs, Futs
  <2>3. Decoding'
    BY <1>3, <1>7, <2>1, <2>2, Zenon DEF Decoding
  <2>4. Collecting' /\ buf' \in Seq(Parts) /\ collector' = "reading" /\ Len(buf') = Size(conf, p)
    BY <1>2, <1>3, <1>7, <2>1, Zenon DEF Collecting, CodingTypes, Overflows
  <2>5. p + k + (l - k) = p + 0 + l
    BY <1>5
  <2>6. /\ p + Len(decoder'.held) + Len(coded') = p + Len(decoder.held) + Len(coded)
        /\ At(decoder'.held, p, conf) /\ At(coded', p + Len(decoder'.held), conf)
    BY <1>3, <1>4, <1>6, <2>2, <2>5, AtEmpty, Zenon
  <2>7. collector' \in {"reading", "ok", "overflow", "error"}
    BY <2>4, Zenon
  <2> QED
    BY <1>1, <1>3, <1>6, <2>2, <2>3, <2>4, <2>6, <2>7, Backward, Zenon
<1> QED
  BY <1>8, <1>9, Zenon

(* Decoder::poll_next: the codec is back from its thread. *)
LEMMA DecodeFutKeeps ==
  ASSUME CodingInv, DecodeFut
  PROVE  CodingInv'
<1>1. PICK p \in Nat : Placed(p)
  BY Zenon DEF CodingInv
<1>2. CodingTypes /\ Encoding /\ Decoding /\ Collecting
  BY Zenon DEF CodingInv
<1>3. /\ collector = "reading" /\ decoder.fut \in {"done", "canceled"} /\ decoder.held # <<>>
      /\ UNCHANGED <<conf, given, failed, enc, coded, sent>> /\ from_headers(conf)
      /\ decoder \in Codecs /\ decoder.eof = FALSE
      /\ conf \in Configurations /\ coded \in Seq(Parts) /\ enc.held \in Seq(Parts)
      /\ decoder.held \in Seq(Parts) /\ Len(decoder.held) \in Nat
      /\ Len(coded) \in Nat /\ Len(enc.held) \in Nat /\ buf \in Seq(Parts)
  <2>1. /\ collector = "reading" /\ decoder.fut \in {"done", "canceled"}
        /\ UNCHANGED <<conf, given, failed, enc, coded, sent>>
    BY Zenon DEF DecodeFut
  <2>2. decoder \in Codecs /\ decoder.eof = FALSE /\ decoder.held # <<>> /\ from_headers(conf) /\ buf \in Seq(Parts)
    BY <1>2, <2>1, Zenon DEF CodingTypes, Codecs, Decoding
  <2> QED
    BY <1>1, <2>1, <2>2, Sizes, Zenon
<1>4. PICK h \in Nat, l \in Nat, e \in Nat :
          /\ h = Len(decoder.held) /\ l = Len(coded) /\ e = Len(enc.held) /\ p + h + l + e = Put
          /\ At(decoder.held, p, conf) /\ At(coded, p + h, conf)
  BY <1>1, <1>3, Zenon DEF Placed
<1>5. p + h \in Nat /\ p + h <= Full(conf)
  <2>1. PICK u \in Nat, f \in Nat : u = Put /\ f = Full(conf) /\ u <= f
    BY <1>3, PutBounded, Configured, Zenon
  <2>2. p + h + l + e = u
    BY <1>4, <2>1, Zenon
  <2>3. p + h \in Nat /\ p + h <= f
    BY <2>1, <2>2
  <2> QED
    BY <2>1, <2>3, Zenon
<1>6. Len(buf) = Size(conf, p)
  BY <1>1, <1>3, Zenon DEF Placed, Live
<1>7. CASE decoder.fut = "done"
  <2>1. /\ Feed(decoder.held)
        /\ decoder' = [decoder EXCEPT !.inner = TRUE, !.fut = "none", !.held = <<>>]
    BY <1>7, Zenon DEF DecodeFut
  <2>2. \/ collector' = "overflow" /\ buf' = buf /\ Overflows(Size(conf, Full(conf)))
        \/ /\ collector' = collector /\ buf' \in Seq(Parts)
           /\ Len(buf') = Size(conf, p + Len(decoder.held))
           /\ \A i \in 1 .. Len(buf') : buf'[i] = Kth(conf, i)
           /\ Len(buf') <= Size(conf, Full(conf)) /\ ~Overflows(Len(buf'))
    BY <1>2, <1>3, <1>4, <1>5, <1>6, <2>1, Consume, Zenon
  <2>3. /\ Collecting' /\ buf' \in Seq(Parts) /\ collector' \in {"reading", "overflow"}
        /\ collector' \in {"reading", "ok"} => Len(buf') = Size(conf, p + h)
    BY <1>3, <1>4, <1>5, <2>2, CollectingNext, Zenon
  <2>4. /\ decoder' \in Codecs /\ decoder'.held = <<>> /\ decoder'.fut = "none"
        /\ decoder'.inner = TRUE /\ decoder'.eof = FALSE
    BY <1>3, <2>1, AtEmpty, Zenon DEF Codecs, Futs
  <2>5. Decoding'
    BY <1>3, <2>4, Zenon DEF Decoding
  <2>6. (p + h) + 0 + l = p + h + l /\ (p + h) + 0 = p + h
    OBVIOUS
  <2>7. /\ (p + h) + Len(decoder'.held) + Len(coded') = p + Len(decoder.held) + Len(coded)
        /\ At(decoder'.held, p + h, conf) /\ At(coded', (p + h) + Len(decoder'.held), conf)
        /\ coded' \in Seq(Parts)
    BY <1>3, <1>4, <2>4, <2>6, AtEmpty, Zenon
  <2>8. collector' \in {"reading", "ok", "overflow", "error"}
    BY <2>3, Zenon
  <2> QED
    BY <1>1, <1>3, <1>5, <2>3, <2>4, <2>5, <2>7, <2>8, Backward, Zenon
<1>8. CASE decoder.fut = "canceled"
  <2>1. collector' = "error" /\ UNCHANGED <<decoder, buf>>
    BY <1>8, Zenon DEF DecodeFut
  <2>2. Decoding' /\ Collecting'
    BY <1>2, <1>3, <2>1, Zenon DEF Decoding, Collecting, Overflows
  <2>3. /\ p + Len(decoder'.held) + Len(coded') = p + Len(decoder.held) + Len(coded)
        /\ At(decoder'.held, p, conf) /\ At(coded', p + Len(decoder'.held), conf)
        /\ coded' \in Seq(Parts) /\ decoder' \in Codecs /\ buf' \in Seq(Parts)
    BY <1>3, <1>4, <2>1, Zenon
  <2>4. collector' \in {"reading", "ok", "overflow", "error"} /\ ~(collector' \in {"reading", "ok"})
    BY <2>1, Zenon
  <2> QED
    BY <1>1, <1>3, <2>2, <2>3, <2>4, Backward, Zenon
<1> QED
  BY <1>3, <1>7, <1>8, Zenon

(* Decoder::poll_next at the end of the stream *)
LEMMA DecodeEndKeeps ==
  ASSUME CodingInv, DecodeEnd
  PROVE  CodingInv'
<1>1. PICK p \in Nat : Placed(p)
  BY Zenon DEF CodingInv
<1>2. CodingTypes /\ Encoding /\ Decoding /\ Collecting
  BY Zenon DEF CodingInv
<1>3. /\ collector = "reading" /\ decoder.fut = "none" /\ coded = <<>> /\ sent # "open"
      /\ UNCHANGED <<conf, given, failed, enc, coded, sent, buf>>
      /\ decoder' = [decoder EXCEPT !.eof = (sent = "end"), !.inner = (@ /\ sent # "end")]
      /\ collector' = IF sent = "end" THEN "ok" ELSE "error"
  BY Zenon DEF DecodeEnd
<1>4. /\ decoder \in Codecs /\ decoder.eof = FALSE /\ decoder.held = <<>>
      /\ coded \in Seq(Parts) /\ buf \in Seq(Parts) /\ Len(buf) = Size(conf, p)
      /\ At(coded, p + Len(decoder.held), conf) /\ At(decoder.held, p, conf)
  BY <1>1, <1>2, <1>3, Zenon DEF CodingTypes, Codecs, Decoding, Placed, Live
<1>5. /\ decoder' \in Codecs /\ decoder'.held = <<>> /\ decoder'.fut = "none"
      /\ decoder'.eof = (sent = "end") /\ decoder'.inner = (decoder.inner /\ sent # "end")
  BY <1>3, <1>4, Zenon DEF Codecs
<1>6. collector' \in {"ok", "error"} /\ (collector' = "ok" <=> sent = "end")
  BY <1>3, Zenon
<1>7. Decoding'
  BY <1>2, <1>3, <1>4, <1>5, <1>6, Zenon DEF Decoding
<1>8. Collecting'
  BY <1>2, <1>3, <1>5, <1>6, Zenon DEF Collecting, Overflows
<1>9. /\ p + Len(decoder'.held) + Len(coded') = p + Len(decoder.held) + Len(coded)
      /\ At(decoder'.held, p, conf) /\ At(coded', p + Len(decoder'.held), conf)
      /\ coded' \in Seq(Parts) /\ buf' \in Seq(Parts)
      /\ collector' \in {"reading", "ok"} => Len(buf') = Size(conf, p)
      /\ collector' \in {"reading", "ok", "overflow", "error"}
  BY <1>3, <1>4, <1>5, <1>6, Zenon
<1> QED
  BY <1>1, <1>3, <1>5, <1>7, <1>8, <1>9, Backward, Zenon

(* Nothing is on its way at first. *)
LEMMA CodingStart ==
  ASSUME CodingInit
  PROVE  CodingInv
<1>1. /\ conf \in Configurations /\ given = 0 /\ failed = FALSE /\ coded = <<>> /\ sent = "open"
      /\ enc = Codec(can_encode(conf)) /\ decoder = Codec(from_headers(conf))
      /\ collector = "new" /\ buf = <<>>
  BY Zenon DEF CodingInit
<1>2. can_encode(conf) \in BOOLEAN /\ from_headers(conf) \in BOOLEAN
  BY Zenon DEF can_encode, from_headers
<1>3. \A b \in BOOLEAN : /\ Codec(b) \in Codecs /\ Codec(b).inner = b /\ Codec(b).eof = FALSE
                         /\ Codec(b).fut = "none" /\ Codec(b).held = <<>>
  BY AtEmpty, Zenon DEF Codec, Codecs, Futs
<1>4. /\ enc \in Codecs /\ enc.inner = can_encode(conf) /\ enc.eof = FALSE /\ enc.fut = "none" /\ enc.held = <<>>
      /\ decoder \in Codecs /\ decoder.inner = from_headers(conf) /\ decoder.eof = FALSE
      /\ decoder.fut = "none" /\ decoder.held = <<>>
  BY <1>1, <1>2, <1>3, Zenon
<1>5. conf.total \in Nat /\ conf.limit \in Nat /\ 0 \in Nat /\ 0 <= conf.total /\ Full(conf) \in Nat
  BY <1>1, Configured
<1>6. CodingTypes
  BY <1>1, <1>4, <1>5, AtEmpty, Zenon DEF CodingTypes
<1>7. Encoding
  BY <1>1, <1>4, <1>5, Zenon DEF Encoding
<1>8. Decoding
  BY <1>1, <1>4, Zenon DEF Decoding
<1>9. Len(buf) = 0 /\ 1 .. 0 = {} /\ ~Overflows(0)
  BY <1>1, <1>5 DEF Overflows
<1>10. 0 <= Size(conf, Full(conf)) /\ Size(conf, 0) = 0
  BY <1>1, <1>5 DEF Size
<1>11. Collecting
  BY <1>1, <1>9, <1>10, Zenon DEF Collecting
<1>12. Put = 0 /\ 0 + 0 + 0 + 0 = 0
  BY <1>1, <1>4 DEF Put
<1>13. Placed(0)
  BY <1>1, <1>4, <1>9, <1>10, <1>12, AtEmpty, Zenon DEF Placed
<1> QED
  BY <1>5, <1>6, <1>7, <1>8, <1>11, <1>13, Zenon DEF CodingInv

(* It holds after every step. *)
LEMMA CodingStep ==
  ASSUME CodingInv, [CodingNext]_cvars
  PROVE  CodingInv'
<1>1. CASE CodingNext
  BY <1>1, EncodeChunkKeeps, EncodeFutKeeps, EncodeEndKeeps, FlagsKeep, StartReadingKeeps,
     DecodePieceKeeps, DecodeFutKeeps, DecodeEndKeeps, Zenon DEF CodingNext, Encode, Decode
<1>2. CASE UNCHANGED cvars
  <2>1. PICK p \in Nat : Placed(p)
    BY Zenon DEF CodingInv
  <2>2. Placed(p)'
    BY <1>2, <2>1, Zenon DEF cvars, Placed, Put, Live
  <2>3. (CodingTypes /\ Encoding /\ Decoding /\ Collecting)'
    BY <1>2, ZenonT(60) DEF cvars, CodingInv, CodingTypes, Encoding, Decoding, Collecting, Overflows
  <2> QED
    BY <2>2, <2>3, Zenon DEF CodingInv
<1> QED
  BY <1>1, <1>2, Zenon

(* What the reader should get is what it collects of all that is put out. *)
LEMMA WantedParts ==
  ASSUME conf \in Configurations
  PROVE  /\ Wanted \in Seq(Parts) /\ Len(Wanted) = Size(conf, Full(conf))
         /\ \A k \in 1 .. Len(Wanted) : Wanted[k] = Kth(conf, k)
<1>1. PICK total \in Nat : total = conf.total
  BY Configured, Zenon
<1>2. ASSUME NEW z \in BOOLEAN
      PROVE  /\ Numbers(total, z) \in Seq(Parts) /\ Len(Numbers(total, z)) = total
             /\ \A k \in 1 .. total : Numbers(total, z)[k] = Part(k, z)
  <2>1. \A k \in 1 .. total : Part(k, z) \in Parts
    BY DEF Part, Parts
  <2>2. Numbers(total, z) \in [1 .. total -> Parts] /\ \A k \in 1 .. total : Numbers(total, z)[k] = Part(k, z)
    BY <2>1, Zenon DEF Numbers
  <2> QED
    BY <2>2, FunctionIsSeq, Zenon
<1>3. \A k \in 1 .. total : k <= total
  OBVIOUS
<1>4. CASE from_headers(conf)
  <2>1. Wanted = Numbers(total, FALSE) /\ \A k : Kth(conf, k) = Part(k, FALSE)
    BY <1>1, <1>4, Zenon DEF Wanted, Kth
  <2>2. Size(conf, Full(conf)) = total
    <3>1. PICK f \in Nat : f = Full(conf) /\ f >= total
      BY <1>1, Configured, Zenon
    <3>2. CASE f > total
      BY <1>1, <1>4, <3>1, <3>2, Zenon DEF Size
    <3>3. CASE ~(f > total)
      <4>1. f = total
        BY <3>1, <3>3
      <4> QED
        BY <1>1, <3>1, <3>3, <4>1, Zenon DEF Size
    <3> QED
      BY <3>2, <3>3, Zenon
  <2> QED
    BY <1>2, <2>1, <2>2, Zenon
<1>5. CASE ~from_headers(conf) /\ can_encode(conf)
  <2>1. PICK s \in Seq(Parts) : /\ s = Numbers(total, TRUE) /\ Len(s) = total
                                /\ \A k \in 1 .. total : s[k] = Part(k, TRUE)
    BY <1>2, Zenon
  <2>2. Wanted = Append(s, Part(0, TRUE)) /\ Part(0, TRUE) \in Parts
    <3>1. Part(0, TRUE) \in Parts
      BY Zenon DEF Part, Parts
    <3> QED
      BY <1>1, <1>5, <2>1, <3>1, Zenon DEF Wanted
  <2>3. /\ Wanted \in Seq(Parts) /\ Len(Wanted) = total + 1
        /\ \A k \in 1 .. total : Wanted[k] = Part(k, TRUE)
        /\ Wanted[total + 1] = Part(0, TRUE)
    <3>1. PICK x \in Parts : x = Part(0, TRUE)
      BY <2>2, Zenon
    <3>2. /\ Append(s, x) \in Seq(Parts) /\ Len(Append(s, x)) = Len(s) + 1
          /\ \A k \in 1 .. Len(s) : Append(s, x)[k] = s[k]
          /\ Append(s, x)[Len(s) + 1] = x
      BY AppendProperties
    <3> QED
      BY <2>1, <2>2, <3>1, <3>2, Zenon
  <2>4. Size(conf, Full(conf)) = total + 1
    BY <1>1, <1>5, Configured, Zenon DEF Size
  <2>5. \A k : Kth(conf, k) = Part(IF k <= total THEN k ELSE 0, TRUE)
    <3>1. (can_encode(conf) \/ conf.own # "none") = TRUE
      BY <1>5, Zenon
    <3> QED
      BY <1>1, <1>5, <3>1, Zenon DEF Kth, Nth
  <2>6. \A k \in 1 .. total + 1 : Wanted[k] = Kth(conf, k)
    <3> SUFFICES ASSUME NEW k \in 1 .. total + 1 PROVE Wanted[k] = Kth(conf, k)
      BY Zenon
    <3>1. (k \in 1 .. total /\ k <= total) \/ (k = total + 1 /\ ~(k <= total))
      OBVIOUS
    <3> QED
      BY <2>3, <2>5, <3>1, Zenon
  <2> QED
    BY <2>3, <2>4, <2>6, Zenon
<1>6. CASE ~from_headers(conf) /\ ~can_encode(conf)
  <2>1. PICK z \in BOOLEAN : z = (conf.own # "none")
    BY Zenon
  <2>2. Wanted = Numbers(total, z) /\ Size(conf, Full(conf)) = total
    BY <1>1, <1>6, <2>1, Configured, Zenon DEF Wanted, Size
  <2>3. (can_encode(conf) \/ conf.own # "none") = z
    BY <1>6, <2>1, Zenon
  <2>4. \A k \in 1 .. total : Kth(conf, k) = Part(k, z)
    BY <1>1, <1>3, <1>6, <2>3, Zenon DEF Kth, Nth
  <2> QED
    BY <1>2, <2>2, <2>4, Zenon
<1> QED
  BY <1>4, <1>5, <1>6, Zenon

(* It is enough for RoundTrip. *)
LEMMA CodingSafe ==
  ASSUME CodingInv
  PROVE  RoundTrip
<1>1. PICK p \in Nat : Placed(p)
  BY Zenon DEF CodingInv
<1>2. CodingTypes /\ Encoding /\ Decoding /\ Collecting
  BY Zenon DEF CodingInv
<1>3. conf \in Configurations /\ buf \in Seq(Parts) /\ conf.total \in Nat /\ Len(buf) \in Nat
  BY <1>2, Configured DEF CodingTypes
<1>4. PICK w \in Seq(Parts) : /\ w = Wanted /\ Len(w) = Size(conf, Full(conf))
                              /\ \A k \in 1 .. Len(w) : w[k] = Kth(conf, k)
  BY <1>3, WantedParts, Zenon
<1>5. PICK n \in Nat, m \in Nat : n = Len(w) /\ m = Len(buf) /\ m <= n
  <2>1. Len(w) \in Nat
    OBVIOUS
  <2> QED
    BY <1>2, <1>3, <1>4, <2>1, Zenon DEF Collecting
<1>6. \A k \in 1 .. m : k \in 1 .. n
  BY <1>5
<1>7. \A k \in 1 .. m : buf[k] = w[k]
  BY <1>2, <1>4, <1>5, <1>6, Zenon DEF Collecting
<1>8. buf = SubSeq(w, 1, m)
  BY <1>3, <1>5, <1>7
<1>9. ASSUME collector = "ok"
      PROVE  buf = w /\ ~failed /\ ~Overflows(n)
  <2>1. sent = "end" /\ coded = <<>> /\ decoder.held = <<>>
    BY <1>2, <1>9, Zenon DEF Collecting
  <2>2. given = conf.total /\ enc.held = <<>> /\ (can_encode(conf) <=> enc.eof)
    BY <1>2, <2>1, Zenon DEF Encoding
  <2>3. Put = Full(conf)
    BY <2>2, Zenon DEF Put, Full
  <2>4. p + 0 + 0 + 0 = Put
    BY <1>1, <2>1, <2>2, AtEmpty, Zenon DEF Placed
  <2>5. p = Full(conf)
    BY <2>3, <2>4
  <2>6. m = n
    BY <1>1, <1>4, <1>5, <1>9, <2>5, Zenon DEF Placed, Live
  <2>7. buf = w
    <3>1. Len(buf) = Len(w) /\ \A k \in 1 .. Len(buf) : buf[k] = w[k]
      BY <1>5, <1>7, <2>6, Zenon
    <3> QED
      BY <1>3, <3>1, SeqEqual, Zenon
  <2>8. ~failed
    BY <1>2, <1>3, <2>2 DEF Encoding
  <2> QED
    BY <1>2, <1>5, <2>6, <2>7, <2>8, Zenon DEF Collecting
<1>10. ASSUME collector = "overflow" PROVE Overflows(n)
  BY <1>2, <1>4, <1>5, <1>10, Zenon DEF Collecting
<1>11. collector \in {"ok", "overflow"} => (collector = "overflow") = Overflows(n)
  <2>1. Overflows(n) \in BOOLEAN
    BY Zenon DEF Overflows
  <2> QED
    BY <1>9, <1>10, <2>1, Zenon
<1> QED
  BY <1>4, <1>5, <1>8, <1>9, <1>11, Zenon DEF RoundTrip

(* What is proved of the content codings, for any number of chunks and any   *)
(* limits: whichever chunks Encoder and Decoder work on in place and         *)
(* whichever on the blocking pool, the reader of a response collects the     *)
(* body the application gave, in its order, and takes it for complete only   *)
(* when it is.                                                               *)
THEOREM RoundTripsAreExact == CodingSpec => []RoundTrip
<1>1. CodingInit => CodingInv
  BY CodingStart, Zenon
<1>2. CodingInv /\ [CodingNext]_cvars => CodingInv'
  BY CodingStep, Zenon
<1>3. CodingInv => RoundTrip
  BY CodingSafe, Zenon
<1> QED
  BY <1>1, <1>2, <1>3, PTL DEF CodingSpec
=============================================================================
