----------------------------- MODULE HeaderMap -----------------------------
(***************************************************************************)
(* One HeaderMap (geario-http/src/types/map.rs): it is made, from nothing  *)
(* or by from_iter, its methods (module Headers) are called in any order,  *)
(* and it is walked with Iter and GetAll, one next() at a time.            *)
(***************************************************************************)
EXTENDS Headers

CONSTANTS NoName,     \* a text that is no header name
          Pairs,      \* inputs of from_iter: sequences of <<name, text>>, a
                      \* text being what split(',') makes of it
          MaxValues   \* bound: values of one name

PairType == (Name \union {NoName}) \X Seq(Val \union {Space, Invalid})

ASSUME HeaderMapAssumption ==
    /\ EmptyVal \in Val /\ Space \notin Val /\ Invalid \notin Val
    /\ NoName \notin Name
    /\ Pairs \subseteq Seq(PairType)

-----------------------------------------------------------------------------
VARIABLES
    inner,   \* HeaderMap::inner
    todo,    \* pairs from_iter has still to fold
    parsed,  \* values of the first of them, from the pieces parsed so far
    cursor   \* an Iter or a GetAll: the names its hash map iterator has left,
             \* current (or item), idx, and what it has yielded

making == <<todo, parsed>>
hvars == <<inner, making, cursor>>

NoCursor == [of |-> "none", left |-> {}, current |-> NoName, idx |-> 0, out |-> <<>>]
Cursors == [of : {"none", "iter", "all", "iter end", "all end"}, left : SUBSET Name,
            current : Name \union {NoName}, idx : Nat, out : Seq(Name \X Val)]

HeaderTypeOK ==
    /\ inner \in [Name -> ValueType]
    /\ todo \in Seq(PairType) /\ parsed \in Seq(Val)
    /\ cursor \in Cursors

HeaderInit == inner = new /\ todo = <<>> /\ parsed = <<>> /\ cursor = NoCursor

(* The map is not borrowed and not being made. *)
Free == cursor = NoCursor /\ todo = <<>>
Update(m) == Free /\ inner' = m /\ UNCHANGED <<making, cursor>>

Insert(n, v) == Update(insert(inner, n, v))
AppendValue(n, v) == Len(inner[n].vals) < MaxValues /\ Update(append(inner, n, v))
RemoveName(k) == Update(remove(inner, k))
ClearMap == Update(new)

(* get_mut, and a write through it *)
GetMut(k, v) ==
    /\ contains_key(inner, k)
    /\ Update([inner EXCEPT ![k].vals[1] = v])

FromIter(ps) == Free /\ inner' = new /\ todo' = ps /\ UNCHANGED <<parsed, cursor>>
ParsePiece ==
    /\ todo # <<>> /\ todo[1][2] # <<>>
    /\ parsed' = try_from(parsed, Head(todo[1][2]))
    /\ todo' = [todo EXCEPT ![1] = <<@[1], Tail(@[2])>>]
    /\ UNCHANGED <<inner, cursor>>
FoldPair ==
    /\ todo # <<>> /\ todo[1][2] = <<>>
    /\ inner' = foldPair(inner, todo[1][1], collect(parsed))
    /\ todo' = Tail(todo) /\ parsed' = <<>>
    /\ UNCHANGED cursor

-----------------------------------------------------------------------------
(* iter() and get_all() borrow the map until the walk is over. *)
Iter ==
    /\ Free
    /\ cursor' = [NoCursor EXCEPT !.of = "iter", !.left = {n \in Name : inner[n].kind # "None"}]
    /\ UNCHANGED <<inner, making>>
GetAll(k) ==
    /\ Free
    /\ cursor' = [NoCursor EXCEPT !.of = "all", !.current = IF contains_key(inner, k) THEN k ELSE NoName]
    /\ UNCHANGED <<inner, making>>

Yield(n, i) == Append(cursor.out, <<n, inner[n].vals[i]>>)

(* Values of a Multi come one by one. *)
Within == cursor.current # NoName /\ cursor.idx < Len(inner[cursor.current].vals)
NextWithin ==
    cursor' = [cursor EXCEPT !.idx = @ + 1, !.out = Yield(cursor.current, cursor.idx + 1)]

(* Iter::next behind them: the next name of the hash map.  The first value  *)
(* of a Multi is yielded by the call that finds it.                         *)
NextNameStale(n) ==
    cursor' = [cursor EXCEPT !.left = @ \ {n},
                             !.current = IF inner[n].kind = "Multi" THEN n ELSE NoName,
                             !.idx = IF inner[n].kind = "Multi" THEN @ + 1 ELSE @,
                             !.out = Yield(n, 1)]
NextName(n) ==
    cursor' = [cursor EXCEPT !.left = @ \ {n},
                             !.current = IF inner[n].kind = "Multi" THEN n ELSE NoName,
                             !.idx = IF inner[n].kind = "Multi" THEN 1 ELSE 0,
                             !.out = Yield(n, 1)]
IterNext ==
    /\ cursor.of = "iter"
    /\ \/ Within /\ NextWithin
       \/ ~Within /\ \E n \in cursor.left : NextName(n)
       \/ ~Within /\ cursor.left = {} /\ cursor' = [cursor EXCEPT !.of = "iter end"]
    /\ UNCHANGED <<inner, making>>

(* GetAll::next takes a One out of item. *)
GetAllNext ==
    /\ cursor.of = "all"
    /\ \/ /\ Within /\ inner[cursor.current].kind = "One"
          /\ cursor' = [cursor EXCEPT !.current = NoName, !.out = Yield(cursor.current, 1)]
       \/ Within /\ inner[cursor.current].kind = "Multi" /\ NextWithin
       \/ ~Within /\ cursor' = [cursor EXCEPT !.of = "all end", !.current = NoName]
    /\ UNCHANGED <<inner, making>>

Drop == cursor.of \in {"iter end", "all end"} /\ cursor' = NoCursor /\ UNCHANGED <<inner, making>>

HeaderNext ==
    \/ \E n \in Name, v \in Val : Insert(n, v) \/ AppendValue(n, v)
    \/ \E k \in Name \union {NoName} : RemoveName(k) \/ GetAll(k) \/ \E v \in Val : GetMut(k, v)
    \/ \E ps \in Pairs : FromIter(ps)
    \/ ClearMap \/ ParsePiece \/ FoldPair \/ Iter \/ IterNext \/ GetAllNext \/ Drop

HeaderSpec == HeaderInit /\ [][HeaderNext]_hvars
-----------------------------------------------------------------------------
(* Correctness. *)

(* One and Multi are told apart by the number of values and never otherwise: *)
(* no Multi is empty (get would panic on it) or has a single value, so the   *)
(* derived equality of two maps is that of their contents.                   *)
canonical(x) ==
    /\ x.kind = "None" <=> x.vals = <<>>
    /\ x.kind = "One" <=> Len(x.vals) = 1
Canonical == \A n \in Name : canonical(inner[n])

(* The representation is that of a multimap: every operation, however the    *)
(* values of a name are held, does what it does to a list of values.         *)
MM == INSTANCE MultiMap WITH entries <- [n \in Name |-> inner[n].vals]
IsMultiMap == MM!Spec

(* In what was yielded, the first k of the values of n stand together and in *)
(* their order behind p others, and n is nowhere else.                       *)
Run(out, n, values, k, p) ==
    /\ p + k <= Len(out)
    /\ \A i \in 1 .. Len(out) : out[i][1] = n <=> (p < i /\ i <= p + k)
    /\ \A i \in 1 .. k : out[p + i] = <<n, values[i]>>
Met(n, k) == \E p \in 0 .. Len(cursor.out) : Run(cursor.out, n, inner[n].vals, k, p)

(* A finished walk has met every value of every name it is about once, those *)
(* of one name together and in their order.                                  *)
WalkComplete ==
    /\ HeaderTypeOK
    /\ cursor.of = "iter end" => \A n \in Name : Met(n, Len(inner[n].vals))
    /\ cursor.of = "all end" => \E k \in Name \union {NoName} :
        \A n \in Name : Met(n, IF n = k THEN Len(inner[n].vals) ELSE 0)
=============================================================================
