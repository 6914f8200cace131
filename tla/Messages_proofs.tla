-------------------------- MODULE Messages_proofs ---------------------------
(* What messages are made of: header maps, and the heads that are recycled.   *)
EXTENDS HeaderMap, MessageHeads, SequenceTheorems, TLAPS

-----------------------------------------------------------------------------
(***************************************************************************)
(* That a HeaderMap is a multimap, whatever the names and the values.      *)
(*                                                                         *)
(* Good says of one Value what the inductive invariant says of all of      *)
(* them; the first lemmas show that every way to make a Value makes a good *)
(* one with the values it should have.                                     *)
(***************************************************************************)
Good(x) == x \in ValueType /\ canonical(x)

MapInv ==
    /\ inner \in [Name -> ValueType]
    /\ Canonical
    /\ todo \in Seq(PairType) /\ parsed \in Seq(Val)

-----------------------------------------------------------------------------
(* Value::One, and no value at all *)
LEMMA OneGood == \A v \in Val : Good(One(v)) /\ One(v).vals = <<v>>
BY DEF Good, One, ValueType, canonical

LEMMA NoneGood == Good(None) /\ None.vals = <<>>
BY DEF Good, None, ValueType, canonical

(* Extend: a good Value that holds something stays good, and has the values *)
(* of both in their order.                                                  *)
LEMMA ExtendGood ==
  ASSUME NEW x, Good(x), x.vals # <<>>, NEW s \in Seq(Val)
  PROVE  Good(extend(x, s)) /\ extend(x, s).vals = x.vals \o s
<1>1. CASE s = <<>>
  BY <1>1 DEF extend, Good, ValueType
<1>2. CASE s # <<>>
  <2>1. x.vals \in Seq(Val) /\ Len(x.vals) > 0 /\ Len(s) > 0
    BY <1>2 DEF Good, ValueType
  <2>2. x.vals \o s \in Seq(Val) /\ Len(x.vals \o s) > 1
    BY <2>1
  <2>3. extend(x, s) = Multi(x.vals \o s)
    BY <1>2, Zenon DEF extend
  <2>4. QED
    BY <2>2, <2>3 DEF Multi, Good, ValueType, canonical
<1>3. QED
  BY <1>1, <1>2, Zenon

(* Value::append *)
LEMMA AppendGood ==
  ASSUME NEW x, Good(x), x.vals # <<>>, NEW v \in Val
  PROVE  Good(appendTo(x, v)) /\ appendTo(x, v).vals = Append(x.vals, v)
<1>1. x.vals \in Seq(Val) /\ Len(x.vals) > 0
  BY DEF Good, ValueType
<1>2. Append(x.vals, v) \in Seq(Val) /\ Len(Append(x.vals, v)) > 1
  BY <1>1
<1>3. QED
  BY <1>2 DEF appendTo, Multi, Good, ValueType, canonical

(* FromIterator for Value: never without a value *)
LEMMA CollectSome ==
  ASSUME NEW h \in Val, NEW t \in Seq(Val)
  PROVE  Good(extend(One(h), t)) /\ extend(One(h), t).vals # <<>>
<1> DEFINE x == One(h)
           z == x.vals \o t
<1>1. Good(x)
  BY OneGood, Zenon
<1>2. x.vals \in Seq(Val) /\ Len(x.vals) = 1
  BY DEF One
<1>3. x.vals # <<>>
  <2>1. x.vals = <<h>>
    BY Zenon DEF One
  <2>2. QED
    BY <2>1
<1> HIDE DEF x
<1>4. Good(extend(x, t)) /\ extend(x, t).vals = z
  BY <1>1, <1>3, ExtendGood, Zenon
<1>5. z \in Seq(Val) /\ Len(z) = Len(x.vals) + Len(t)
  BY <1>2, ConcatProperties, Zenon
<1> HIDE DEF z
<1>6. z # <<>>
  BY <1>2, <1>5, LenProperties, EmptySeq
<1>7. QED
  BY <1>4, <1>6, Zenon DEF x

LEMMA CollectGood ==
  ASSUME NEW s \in Seq(Val)
  PROVE  Good(collect(s)) /\ collect(s).vals # <<>>
<1>1. CASE s = <<>>
  BY <1>1, OneGood, HeaderMapAssumption DEF collect
<1>2. CASE s # <<>>
  <2>1. Head(s) \in Val /\ Tail(s) \in Seq(Val)
    BY <1>2
  <2>2. QED
    BY <1>2, <2>1, CollectSome, Zenon DEF collect
<1>3. QED
  BY <1>1, <1>2, Zenon

(* A write through get_mut keeps the number of values. *)
LEMMA AmendGood ==
  ASSUME NEW x, Good(x), x.vals # <<>>, NEW v \in Val
  PROVE  /\ Good([x EXCEPT !.vals = [x.vals EXCEPT ![1] = v]])
         /\ [x EXCEPT !.vals = [x.vals EXCEPT ![1] = v]].vals = [x.vals EXCEPT ![1] = v]
<1> DEFINE s == [x.vals EXCEPT ![1] = v]
<1>1. x.vals \in Seq(Val) /\ Len(x.vals) > 0 /\ x \in ValueType
  BY DEF Good, ValueType
<1>2. s \in Seq(Val) /\ Len(s) = Len(x.vals)
  BY <1>1
<1>3. canonical(x) /\ x.kind \in {"None", "One", "Multi"}
  BY Zenon DEF Good, ValueType
<1> HIDE DEF s
<1> DEFINE y == [x EXCEPT !.vals = s]
<1>4. y \in ValueType /\ y.kind = x.kind /\ y.vals = s
  BY <1>1, <1>2, Zenon DEF ValueType
<1> HIDE DEF y
<1>5. canonical(y)
  BY <1>1, <1>2, <1>3, <1>4 DEF canonical
<1>6. QED
  BY <1>4, <1>5, Zenon DEF Good, y, s

-----------------------------------------------------------------------------
Maps == {m \in [Name -> ValueType] : \A n \in Name : canonical(m[n])}
lists(m) == [n \in Name |-> m[n].vals]

(* A map whose Values are good stays so when one of them is replaced by a    *)
(* good one; as a multimap, it changes the list of that name only.           *)
LEMMA ReplaceOne ==
  ASSUME NEW m \in Maps, NEW n \in Name, NEW x, Good(x), NEW w, w = [m EXCEPT ![n] = x]
  PROVE  w \in Maps /\ lists(w) = [lists(m) EXCEPT ![n] = x.vals]
BY Zenon DEF Maps, Good, lists

LEMMA GoodValues == \A m \in Maps, n \in Name : Good(m[n])
BY Zenon DEF Maps, Good

(* HeaderMap::new *)
LEMMA NewMap == new \in Maps /\ lists(new) = [n \in Name |-> <<>>]
BY NoneGood, Zenon DEF new, Maps, Good, lists

(* HeaderMap::append and the fold of from_iter put values behind those of    *)
(* the name and touch no other name.                                         *)
Added(m, w, n) ==
    /\ Len(lists(w)[n]) > Len(lists(m)[n])
    /\ SubSeq(lists(w)[n], 1, Len(lists(m)[n])) = lists(m)[n]
    /\ lists(w) = [lists(m) EXCEPT ![n] = lists(w)[n]]

LEMMA ReplaceAdds ==
  ASSUME NEW m \in Maps, NEW n \in Name, NEW x, Good(x), NEW s \in Seq(Val), s # <<>>,
         x.vals = m[n].vals \o s
  PROVE  [m EXCEPT ![n] = x] \in Maps /\ Added(m, [m EXCEPT ![n] = x], n)
<1> DEFINE w == [m EXCEPT ![n] = x]
<1>1. w \in Maps /\ lists(w) = [lists(m) EXCEPT ![n] = x.vals]
  BY ReplaceOne, ZenonT(60)
<1>2. lists(m)[n] = m[n].vals /\ lists(m) \in [Name -> Seq(Val)]
  BY Zenon DEF lists, Maps, ValueType
<1>3. lists(w)[n] = m[n].vals \o s
  BY <1>1, <1>2, Zenon
<1>4. m[n].vals \in Seq(Val) /\ Len(s) > 0
  BY <1>2
<1>5. /\ Len(m[n].vals \o s) > Len(m[n].vals)
      /\ SubSeq(m[n].vals \o s, 1, Len(m[n].vals)) = m[n].vals
  BY <1>4
<1>6. QED
  BY <1>1, <1>2, <1>3, <1>5, Zenon DEF Added

LEMMA AppendAdds ==
  ASSUME NEW m \in Maps, NEW n \in Name, NEW v \in Val
  PROVE  append(m, n, v) \in Maps /\ Added(m, append(m, n, v), n)
<1>1. Good(m[n]) /\ m[n].vals \in Seq(Val)
  BY GoodValues, Zenon DEF Good, ValueType
<1>2. <<v>> \in Seq(Val) /\ <<v>> # <<>>
  OBVIOUS
<1>3. CASE m[n].kind = "None"
  <2>1. m[n].vals = <<>>
    BY <1>1, <1>3, Zenon DEF Good, canonical
  <2>2. Good(One(v)) /\ One(v).vals = m[n].vals \o <<v>>
    BY <2>1, OneGood
  <2>3. QED
    BY <1>2, <1>3, <2>2, ReplaceAdds, Zenon DEF append
<1>4. CASE m[n].kind # "None"
  <2>1. m[n].vals # <<>>
    BY <1>1, <1>4, Zenon DEF Good, canonical
  <2>2. Good(appendTo(m[n], v)) /\ appendTo(m[n], v).vals = Append(m[n].vals, v)
    BY <1>1, <2>1, AppendGood, Zenon
  <2>3. Append(m[n].vals, v) = m[n].vals \o <<v>>
    BY <1>1, AppendIsConcat, Zenon
  <2>4. QED
    BY <1>2, <1>4, <2>2, <2>3, ReplaceAdds, Zenon DEF append
<1>5. QED
  BY <1>3, <1>4, Zenon

LEMMA FoldAdds ==
  ASSUME NEW m \in Maps, NEW k \in Name, NEW x, Good(x), x.vals # <<>>
  PROVE  foldPair(m, k, x) \in Maps /\ Added(m, foldPair(m, k, x), k)
<1>1. Good(m[k]) /\ m[k].vals \in Seq(Val) /\ x.vals \in Seq(Val)
  BY GoodValues, Zenon DEF Good, ValueType
<1>2. CASE m[k].kind = "None"
  <2>1. m[k].vals = <<>>
    BY <1>1, <1>2, Zenon DEF Good, canonical
  <2>2. x.vals = m[k].vals \o x.vals
    BY <1>1, <2>1
  <2>3. QED
    BY <1>1, <1>2, <2>2, ReplaceAdds, Zenon DEF foldPair
<1>3. CASE m[k].kind # "None"
  <2>1. m[k].vals # <<>>
    BY <1>1, <1>3, Zenon DEF Good, canonical
  <2>2. Good(extend(m[k], x.vals)) /\ extend(m[k], x.vals).vals = m[k].vals \o x.vals
    BY <1>1, <2>1, ExtendGood, Zenon
  <2>3. QED
    BY <1>1, <1>3, <2>2, ReplaceAdds, Zenon DEF foldPair
<1>4. QED
  BY <1>2, <1>3, Zenon

-----------------------------------------------------------------------------
LEMMA InvMaps == MapInv => inner \in Maps
BY Zenon DEF MapInv, Maps, Canonical

(* What a step may do to the map: nothing, or one operation of a multimap    *)
(* that leaves all Values good.                                              *)
Steps ==
    /\ inner' \in Maps
    /\ \/ inner' = inner
       \/ lists(inner') = [n \in Name |-> <<>>]
       \/ \E n \in Name : Added(inner, inner', n)
       \/ \E n \in Name : lists(inner') = [lists(inner) EXCEPT ![n] = <<>>]
       \/ \E n \in Name, v \in Val : lists(inner') = [lists(inner) EXCEPT ![n] = <<v>>]
       \/ \E n \in Name, v \in Val :
            /\ lists(inner)[n] # <<>>
            /\ lists(inner') = [lists(inner) EXCEPT ![n] = [@ EXCEPT ![1] = v]]

LEMMA InsertSteps ==
  ASSUME MapInv, NEW n \in Name, NEW v \in Val, Insert(n, v)
  PROVE  Steps
<1> DEFINE x == One(v)
<1>1. inner \in Maps /\ inner' = [inner EXCEPT ![n] = x]
  BY InvMaps, Zenon DEF Insert, Update, insert
<1>2. Good(x) /\ x.vals = <<v>>
  BY OneGood, Zenon
<1> HIDE DEF x
<1>3. inner' \in Maps /\ lists(inner') = [lists(inner) EXCEPT ![n] = x.vals]
  <2>1. Good(x)
    BY <1>2, Zenon
  <2>2. QED
    BY <1>1, <2>1, ReplaceOne, Zenon
<1>4. lists(inner') = [lists(inner) EXCEPT ![n] = <<v>>]
  BY <1>2, <1>3, Zenon
<1>5. QED
  BY <1>3, <1>4, Zenon DEF Steps

LEMMA AppendSteps ==
  ASSUME MapInv, NEW n \in Name, NEW v \in Val, AppendValue(n, v)
  PROVE  Steps
BY InvMaps, AppendAdds, Zenon DEF AppendValue, Update, Steps

LEMMA RemoveSteps ==
  ASSUME MapInv, NEW k \in Name \union {NoName}, RemoveName(k)
  PROVE  Steps
<1>1. inner \in Maps /\ inner' = remove(inner, k)
  BY InvMaps, Zenon DEF RemoveName, Update
<1>2. CASE k \in Name
  <2>1. inner' = [inner EXCEPT ![k] = None]
    BY <1>1, <1>2, Zenon DEF remove
  <2>2. inner' \in Maps /\ lists(inner') = [lists(inner) EXCEPT ![k] = None.vals]
    <3>1. Good(None) /\ inner \in Maps
      BY <1>1, NoneGood, Zenon
    <3>2. QED
      BY <1>2, <2>1, <3>1, ReplaceOne, Zenon
  <2>3. lists(inner') = [lists(inner) EXCEPT ![k] = <<>>]
    BY <2>2, NoneGood, Zenon
  <2>4. QED
    BY <1>2, <2>2, <2>3, Zenon DEF Steps
<1>3. CASE k \notin Name
  BY <1>1, <1>3, Zenon DEF remove, Steps
<1>4. QED
  BY <1>2, <1>3, Zenon

LEMMA GetMutSteps ==
  ASSUME MapInv, NEW k \in Name \union {NoName}, NEW v \in Val, GetMut(k, v)
  PROVE  Steps
<1> DEFINE x == inner[k]
           y == [x EXCEPT !.vals = [x.vals EXCEPT ![1] = v]]
<1>1. inner \in Maps /\ k \in Name
  BY InvMaps, Zenon DEF GetMut, contains_key
<1>2. Good(x) /\ x.kind # "None"
  BY <1>1, GoodValues, Zenon DEF GetMut, contains_key
<1>3. x.vals # <<>>
  BY <1>2, Zenon DEF Good, canonical
<1>4. Good(y) /\ y.vals = [x.vals EXCEPT ![1] = v]
  BY <1>2, <1>3, AmendGood, Zenon
<1>5. inner' = [inner EXCEPT ![k] = y]
  BY Zenon DEF GetMut, Update
<1> HIDE DEF y
<1>6. inner' \in Maps /\ lists(inner') = [lists(inner) EXCEPT ![k] = y.vals]
  <2>1. Good(y)
    BY <1>4, Zenon
  <2>2. QED
    BY <1>1, <1>5, <2>1, ReplaceOne, Zenon
<1>7. lists(inner)[k] = x.vals
  BY <1>1, Zenon DEF lists
<1>8. [lists(inner) EXCEPT ![k] = y.vals] = [lists(inner) EXCEPT ![k] = [@ EXCEPT ![1] = v]]
  BY <1>4, <1>7, Zenon
<1>9. \E n \in Name, w \in Val :
          /\ lists(inner)[n] # <<>>
          /\ lists(inner') = [lists(inner) EXCEPT ![n] = [@ EXCEPT ![1] = w]]
  BY <1>1, <1>3, <1>6, <1>7, <1>8, Zenon
<1>10. QED
  BY <1>6, <1>9, Zenon DEF Steps

LEMMA FoldSteps ==
  ASSUME MapInv, FoldPair
  PROVE  Steps
<1>1. inner \in Maps /\ inner' = foldPair(inner, todo[1][1], collect(parsed))
  BY InvMaps, Zenon DEF FoldPair
<1>2. Good(collect(parsed)) /\ collect(parsed).vals # <<>>
  BY CollectGood, Zenon DEF MapInv
<1>3. CASE todo[1][1] \in Name
  BY <1>1, <1>2, <1>3, FoldAdds, Zenon DEF Steps
<1>4. CASE todo[1][1] \notin Name
  BY <1>1, <1>4, Zenon DEF foldPair, Steps
<1>5. QED
  BY <1>3, <1>4, Zenon

(* Walks, and steps of from_iter that only parse, leave the map alone. *)
LEMMA NextSteps ==
  ASSUME MapInv, HeaderNext
  PROVE  Steps
<1>1. inner \in Maps
  BY InvMaps, Zenon
<1>2. ASSUME NEW n \in Name, NEW v \in Val, Insert(n, v) \/ AppendValue(n, v)
      PROVE  Steps
  BY <1>2, InsertSteps, AppendSteps, Zenon
<1>3. ASSUME NEW k \in Name \union {NoName},
             RemoveName(k) \/ GetAll(k) \/ \E v \in Val : GetMut(k, v)
      PROVE  Steps
  <2>1. CASE RemoveName(k)
    BY <2>1, RemoveSteps, Zenon
  <2>2. CASE GetAll(k)
    BY <1>1, <2>2, Zenon DEF GetAll, Steps
  <2>3. CASE \E v \in Val : GetMut(k, v)
    BY <2>3, GetMutSteps, Zenon
  <2>4. QED
    BY <1>3, <2>1, <2>2, <2>3, Zenon
<1>4. CASE ClearMap \/ \E ps \in Pairs : FromIter(ps)
  BY <1>4, NewMap, Zenon DEF ClearMap, FromIter, Update, Steps
<1>5. CASE FoldPair
  BY <1>5, FoldSteps, Zenon
<1>6. CASE ParsePiece \/ Iter \/ IterNext \/ GetAllNext \/ Drop
  BY <1>1, <1>6, Zenon DEF ParsePiece, Iter, IterNext, GetAllNext, Drop, Steps
<1>7. QED
  BY <1>2, <1>3, <1>4, <1>5, <1>6, Zenon DEF HeaderNext

(* The pairs from_iter is given stay pairs, and what it parses are values. *)
LEMMA MakingTypes ==
  ASSUME MapInv, HeaderNext
  PROVE  todo' \in Seq(PairType) /\ parsed' \in Seq(Val)
<1>1. todo \in Seq(PairType) /\ parsed \in Seq(Val)
  BY Zenon DEF MapInv
<1>2. CASE \E ps \in Pairs : FromIter(ps)
  BY <1>1, <1>2, HeaderMapAssumption, Zenon DEF FromIter
<1>3. CASE ParsePiece
  <2>1. todo # <<>> /\ todo[1] \in PairType /\ todo[1][2] # <<>>
    BY <1>1, <1>3 DEF ParsePiece
  <2>2. /\ todo[1][1] \in Name \union {NoName}
        /\ todo[1][2] \in Seq(Val \union {Space, Invalid})
    BY <2>1, Zenon DEF PairType
  <2>3. /\ Head(todo[1][2]) \in Val \union {Space, Invalid}
        /\ Tail(todo[1][2]) \in Seq(Val \union {Space, Invalid})
    BY <2>1, <2>2
  <2>4. parsed' \in Seq(Val)
    BY <1>1, <1>3, <2>3, HeaderMapAssumption DEF ParsePiece, try_from, trim
  <2>5. <<todo[1][1], Tail(todo[1][2])>> \in PairType
    BY <2>2, <2>3, Zenon DEF PairType
  <2>6. todo' \in Seq(PairType)
    BY <1>1, <1>3, <2>1, <2>5 DEF ParsePiece
  <2>7. QED
    BY <2>4, <2>6, Zenon
<1>4. CASE FoldPair
  BY <1>1, <1>4 DEF FoldPair
<1>5. CASE UNCHANGED making
  BY <1>1, <1>5, Zenon DEF making
<1>6. QED
  BY <1>2, <1>3, <1>4, <1>5, Zenon
  DEF HeaderNext, Insert, AppendValue, RemoveName, GetMut, ClearMap, Update,
      GetAll, Iter, IterNext, GetAllNext, Drop

LEMMA InvStep == MapInv /\ [HeaderNext]_hvars => MapInv'
<1> SUFFICES ASSUME MapInv, [HeaderNext]_hvars PROVE MapInv'
  BY Zenon
<1>1. CASE HeaderNext
  <2>1. inner' \in Maps
    BY <1>1, NextSteps, Zenon DEF Steps
  <2>2. QED
    BY <1>1, <2>1, MakingTypes, Zenon DEF MapInv, Maps, Canonical
<1>2. CASE UNCHANGED hvars
  BY <1>2, Zenon DEF hvars, making, MapInv, Canonical
<1>3. QED
  BY <1>1, <1>2, Zenon

LEMMA InvInit == HeaderInit => MapInv
BY NewMap DEF HeaderInit, MapInv, Maps, Canonical

(* Whatever is done to a HeaderMap, a name without values is absent, one     *)
(* with one value is a One, and one with more is a Multi: get never meets an *)
(* empty queue, and maps with the same contents are equal.                   *)
THEOREM CanonicalAlways == HeaderSpec => []Canonical
<1>1. MapInv => Canonical
  BY Zenon DEF MapInv
<1>2. QED
  BY <1>1, InvInit, InvStep, PTL DEF HeaderSpec

(* Every step of a HeaderMap is a step of the multimap of its values.        *)
LEMMA StepIsMultiMapStep ==
  ASSUME MapInv, [HeaderNext]_hvars
  PROVE  [MM!Next]_([n \in Name |-> inner[n].vals])
<1>1. CASE HeaderNext
  <2>1. Steps
    BY <1>1, NextSteps, Zenon
  <2>2. QED
    BY <2>1, Zenon DEF Steps, Added, lists, MM!Next, MM!Clear, MM!Add, MM!Remove, MM!Set, MM!Amend
<1>2. CASE UNCHANGED hvars
  BY <1>2, Zenon DEF hvars
<1>3. QED
  BY <1>1, <1>2, Zenon

(* A HeaderMap is a multimap, for any names and values: the representation   *)
(* by One and Multi cannot be seen through its operations.                   *)
THEOREM HeaderMapIsMultiMap == HeaderSpec => IsMultiMap
<1>1. HeaderInit => MM!Init
  BY NewMap, Zenon DEF HeaderInit, MM!Init, lists
<1>2. QED
  BY <1>1, InvInit, InvStep, StepIsMultiMapStep, PTL DEF HeaderSpec, IsMultiMap, MM!Spec

-----------------------------------------------------------------------------
(* Walks.  What an Iter has met are the names it has taken from the hash map  *)
(* iterator, all of their values but for those of the Multi it is in; a      *)
(* GetAll has met the values before its index.                               *)
AllMet == \E k \in Name \union {NoName} :
    \A n \in Name : Met(n, IF n = k THEN Len(inner[n].vals) ELSE 0)

IterMet ==
    /\ \A n \in cursor.left : Met(n, 0) /\ inner[n].kind # "None"
    /\ \A n \in Name \ cursor.left : n # cursor.current => Met(n, Len(inner[n].vals))
    /\ cursor.current # NoName =>
        /\ cursor.current \notin cursor.left
        /\ cursor.idx \in 1 .. Len(cursor.out) /\ cursor.idx <= Len(inner[cursor.current].vals)
        /\ Run(cursor.out, cursor.current, inner[cursor.current].vals, cursor.idx,
               Len(cursor.out) - cursor.idx)

Walk ==
    /\ cursor \in Cursors
    /\ todo # <<>> => cursor = NoCursor
    /\ cursor.of \in {"iter", "iter end"} => IterMet
    /\ cursor.of = "iter end" => cursor.left = {} /\ ~Within
    /\ cursor.of \in {"all", "all end"} /\ cursor.current = NoName => AllMet
    /\ cursor.of = "all" /\ cursor.current # NoName =>
        /\ cursor.idx = Len(cursor.out) /\ cursor.idx <= Len(inner[cursor.current].vals)
        /\ inner[cursor.current].kind # "None"
        /\ \A i \in 1 .. cursor.idx : cursor.out[i] = <<cursor.current, inner[cursor.current].vals[i]>>
    /\ cursor.of = "all end" => cursor.current = NoName

(* A pair of another name leaves the run of a name where it is. *)
LEMMA RunOther ==
  ASSUME NEW S, NEW out \in Seq(S), NEW q \in S, NEW n, q[1] # n, NEW values,
         NEW k \in Nat, NEW p \in Nat, Run(out, n, values, k, p)
  PROVE  Run(Append(out, q), n, values, k, p)
<1> DEFINE more == Append(out, q)
<1>1. /\ Len(more) = Len(out) + 1 /\ Len(out) \in Nat
      /\ \A i \in 1 .. Len(out) : more[i] = out[i]
      /\ more[Len(out) + 1] = q
  BY AppendProperties, LenProperties
<1> HIDE DEF more
<1>2. p + k <= Len(more)
  BY <1>1 DEF Run
<1>3. \A i \in 1 .. Len(more) : more[i][1] = n <=> (p < i /\ i <= p + k)
  <2> SUFFICES ASSUME NEW i \in 1 .. Len(more)
               PROVE  more[i][1] = n <=> (p < i /\ i <= p + k)
    BY Zenon
  <2>1. CASE i \in 1 .. Len(out)
    BY <1>1, <2>1, Zenon DEF Run
  <2>2. CASE i = Len(out) + 1
    <3>1. p + k <= Len(out)
      BY Zenon DEF Run
    <3>2. ~(i <= p + k)
      BY <1>1, <2>2, <3>1
    <3> QED
      BY <1>1, <2>2, <3>2, Zenon
  <2>3. i \in 1 .. Len(out) \/ i = Len(out) + 1
    BY <1>1
  <2> QED
    BY <2>1, <2>2, <2>3, Zenon
<1>4. ASSUME NEW i \in 1 .. k PROVE more[p + i] = <<n, values[i]>>
  <2>1. PICK l \in Nat : l = Len(out) /\ p + k <= l
    BY <1>1, Zenon DEF Run
  <2>2. p + i \in 1 .. l
    BY <2>1
  <2>3. out[p + i] = <<n, values[i]>>
    BY Zenon DEF Run
  <2> QED
    BY <1>1, <2>1, <2>2, <2>3, Zenon
<1> QED
  BY <1>2, <1>3, <1>4, Zenon DEF Run, more

(* The next value behind the last one of its name makes the run longer. *)
LEMMA RunGrows ==
  ASSUME NEW S, NEW out \in Seq(S), NEW n, NEW values, NEW k \in 0 .. Len(out),
         <<n, values[k + 1]>> \in S, Run(out, n, values, k, Len(out) - k)
  PROVE  Run(Append(out, <<n, values[k + 1]>>), n, values, k + 1, Len(out) - k)
<1> DEFINE q == <<n, values[k + 1]>>
           more == Append(out, q)
<1>1. /\ Len(more) = Len(out) + 1 /\ Len(out) \in Nat
      /\ \A i \in 1 .. Len(out) : more[i] = out[i]
      /\ more[Len(out) + 1] = q
  BY AppendProperties, LenProperties
<1>2. q[1] = n
  BY Zenon
<1> HIDE DEF more, q
<1>3. Len(out) - k + (k + 1) <= Len(more)
  BY <1>1
<1>4. \A i \in 1 .. Len(more) : more[i][1] = n <=> (Len(out) - k < i /\ i <= Len(out) - k + (k + 1))
  <2> SUFFICES ASSUME NEW i \in 1 .. Len(more)
               PROVE  more[i][1] = n <=> (Len(out) - k < i /\ i <= Len(out) - k + (k + 1))
    BY Zenon
  <2>1. CASE i \in 1 .. Len(out)
    BY <1>1, <2>1 DEF Run
  <2>2. CASE i = Len(out) + 1
    BY <1>1, <1>2, <2>2 DEF Run
  <2> QED
    BY <1>1, <2>1, <2>2, SMTT(30)
<1>5. \A i \in 1 .. k + 1 : more[Len(out) - k + i] = <<n, values[i]>>
  <2> SUFFICES ASSUME NEW i \in 1 .. k + 1 PROVE more[Len(out) - k + i] = <<n, values[i]>>
    BY Zenon
  <2>1. CASE i \in 1 .. k
    <3>1. Len(out) - k + i \in 1 .. Len(out)
      BY <1>1, <2>1
    <3>2. out[Len(out) - k + i] = <<n, values[i]>>
      BY <2>1, Zenon DEF Run
    <3> QED
      BY <1>1, <3>1, <3>2, Zenon
  <2>2. CASE i = k + 1
    <3>1. Len(out) - k + i = Len(out) + 1
      BY <1>1, <2>2
    <3> QED
      BY <1>1, <2>2, <3>1, Zenon DEF q
  <2> QED
    BY <2>1, <2>2
<1> QED
  BY <1>3, <1>4, <1>5, Zenon DEF Run, more, q

(* A name not met may as well begin at the end. *)
LEMMA RunNone ==
  ASSUME NEW S, NEW out \in Seq(S), NEW n, NEW values, NEW p \in Nat, Run(out, n, values, 0, p),
         NEW q \in 0 .. Len(out)
  PROVE  Run(out, n, values, 0, q)
<1>1. \A i \in 1 .. Len(out) : out[i][1] # n
  BY DEF Run
<1> QED
  BY <1>1 DEF Run

(* Both of them, of what a cursor has met: it goes on with the value k + 1   *)
(* of n.                                                                     *)
LEMMA MetGoesOn ==
  ASSUME Walk, UNCHANGED inner, NEW n \in Name, NEW k \in 0 .. Len(cursor.out),
         <<n, inner[n].vals[k + 1]>> \in Name \X Val,
         cursor'.out = Append(cursor.out, <<n, inner[n].vals[k + 1]>>),
         Run(cursor.out, n, inner[n].vals, k, Len(cursor.out) - k)
  PROVE  /\ Run(cursor'.out, n, inner[n].vals, k + 1, Len(cursor'.out) - (k + 1))
         /\ Len(cursor'.out) = Len(cursor.out) + 1
         /\ Met(n, k + 1)'
         /\ \A m \in Name \ {n} : \A j \in Nat : Met(m, j) => Met(m, j)'
<1>1. cursor.out \in Seq(Name \X Val) /\ Len(cursor.out) \in Nat
  <2>1. cursor \in Cursors
    BY Zenon DEF Walk
  <2>2. cursor.out \in Seq(Name \X Val)
    BY <2>1, Zenon DEF Cursors
  <2> QED
    BY <2>2, LenProperties, Zenon
<1>2. Run(cursor'.out, n, inner[n].vals, k + 1, Len(cursor.out) - k)
  BY <1>1, RunGrows, Zenon
<1>3. Len(cursor'.out) = Len(cursor.out) + 1
  BY <1>1
<1>4. Len(cursor'.out) - (k + 1) = Len(cursor.out) - k /\ Len(cursor.out) - k \in 0 .. Len(cursor'.out)
  <2>1. PICK a \in Nat : a = Len(cursor.out)
    BY <1>1, Zenon
  <2>2. k \in 0 .. a => (a + 1) - (k + 1) = a - k /\ a - k \in 0 .. (a + 1)
    OBVIOUS
  <2> QED
    BY <1>3, <2>1, <2>2, Zenon
<1>5. Met(n, k + 1)'
  BY <1>2, <1>4, Zenon DEF Met
<1>6. ASSUME NEW m \in Name \ {n}, NEW j \in Nat, Met(m, j)
      PROVE  Met(m, j)'
  <2>1. PICK p \in 0 .. Len(cursor.out) : Run(cursor.out, m, inner[m].vals, j, p)
    BY <1>6, Zenon DEF Met
  <2>2. p \in Nat /\ p \in 0 .. Len(cursor'.out)
    BY <1>1, <1>3
  <2>3. <<n, inner[n].vals[k + 1]>>[1] # m
    BY <1>6, Zenon
  <2>4. Run(cursor'.out, m, inner[m].vals, j, p)
    BY <1>1, <2>1, <2>2, <2>3, RunOther, Zenon
  <2> QED
    BY <2>2, <2>4, Zenon DEF Met
<1> QED
  BY <1>2, <1>3, <1>4, <1>5, <1>6, Zenon

(* What a walk writes into its cursor *)
LEMMA CursorMoves ==
  ASSUME NEW c \in Cursors, NEW i \in Nat, NEW out \in Seq(Name \X Val)
  PROVE  /\ [c EXCEPT !.idx = i, !.out = out] \in Cursors
         /\ \A l \in SUBSET Name, n \in Name \union {NoName} :
                [c EXCEPT !.left = l, !.current = n, !.idx = i, !.out = out] \in Cursors
         /\ \A n \in Name \union {NoName} : [c EXCEPT !.current = n, !.out = out] \in Cursors
<1> DEFINE Outs == Seq(Name \X Val)
<1> HIDE DEF Outs
<1> QED
  BY Zenon DEF Cursors, Outs

(* No walk *)
LEMMA NoWalk == NoCursor \in Cursors /\ (cursor = NoCursor => Walk)
<1>1. NoCursor \in Cursors /\ NoCursor.of = "none"
  <2>1. <<>> \in Seq(Name \X Val)
    OBVIOUS
  <2> QED
    BY <2>1, Zenon DEF NoCursor, Cursors
<1> QED
  BY <1>1, Zenon DEF Walk

(* iter() *)
LEMMA IterWalk ==
  ASSUME MapInv, Walk, Iter
  PROVE  Walk'
<1> DEFINE Held == {n \in Name : inner[n].kind # "None"}
<1>1. /\ cursor' = [NoCursor EXCEPT !.of = "iter", !.left = Held]
      /\ UNCHANGED <<inner, todo>> /\ todo = <<>>
  BY Zenon DEF Iter, Free, making
<1>2. /\ cursor'.of = "iter" /\ cursor'.left = Held /\ cursor'.current = NoName /\ cursor'.out = <<>>
      /\ cursor' \in Cursors
  <2>1. Held \subseteq Name
    BY Zenon
  <2> HIDE DEF Held
  <2> QED
    BY <1>1, <2>1, NoWalk, Zenon DEF NoCursor, Cursors
<1>3. \A n \in Name : Met(n, 0)'
  BY <1>2 DEF Met, Run
<1>4. \A n \in Name \ Held : Len(inner[n].vals) = 0
  <2> SUFFICES ASSUME NEW n \in Name, inner[n].kind = "None" PROVE Len(inner[n].vals) = 0
    BY Zenon
  <2>1. inner[n].vals = <<>>
    BY Zenon DEF MapInv, Canonical, canonical
  <2> QED
    BY <2>1
<1>5. IterMet'
  BY <1>1, <1>2, <1>3, <1>4, Zenon DEF IterMet
<1> QED
  BY <1>1, <1>2, <1>5, Zenon DEF Walk

(* get_all() *)
LEMMA GetAllWalk ==
  ASSUME MapInv, Walk, NEW k \in Name \union {NoName}, GetAll(k)
  PROVE  Walk'
<1> DEFINE c == IF contains_key(inner, k) THEN k ELSE NoName
<1>1. /\ cursor' = [NoCursor EXCEPT !.of = "all", !.current = c]
      /\ UNCHANGED <<inner, todo>> /\ todo = <<>>
  BY Zenon DEF GetAll, Free, making
<1>2. c \in Name \union {NoName} /\ (c # NoName => inner[c].kind # "None" /\ c \in Name)
  BY Zenon DEF contains_key
<1> HIDE DEF c
<1>3. /\ cursor'.of = "all" /\ cursor'.current = c /\ cursor'.out = <<>> /\ cursor'.idx = 0
      /\ cursor' \in Cursors
  BY <1>1, <1>2, NoWalk, Zenon DEF NoCursor, Cursors
<1>4. \A n \in Name : Met(n, 0)'
  BY <1>3 DEF Met, Run
<1>5. AllMet'
  <2>1. \A n \in Name : Met(n, IF n = NoName THEN Len(inner[n].vals) ELSE 0)'
    BY <1>4, HeaderMapAssumption, Zenon
  <2> QED
    BY <2>1, Zenon DEF AllMet
<1>6. c # NoName => Len(inner[c].vals) \in Nat
  BY <1>2 DEF MapInv, ValueType
<1>7. todo' = <<>> /\ inner' = inner
  BY <1>1, Zenon
<1>8. /\ cursor'.idx = Len(cursor'.out)
      /\ \A i \in 1 .. cursor'.idx : cursor'.out[i] = <<c, inner[c].vals[i]>>
  BY <1>3
<1>9. c # NoName => cursor'.idx <= Len(inner[c].vals)
  BY <1>3, <1>6
<1> QED
  BY <1>2, <1>3, <1>5, <1>7, <1>8, <1>9, Zenon DEF Walk

(* A value of a Multi, by Iter::next or GetAll::next *)
LEMMA WithinYields ==
  ASSUME MapInv, Walk, UNCHANGED <<inner, making>>, Within, NextWithin, cursor.of \in {"iter", "all"}
  PROVE  /\ cursor' \in Cursors /\ cursor'.idx = cursor.idx + 1
         /\ cursor'.of = cursor.of /\ cursor'.left = cursor.left /\ cursor'.current = cursor.current
         /\ <<cursor.current, inner[cursor.current].vals[cursor.idx + 1]>> \in Name \X Val
         /\ cursor'.out = Append(cursor.out, <<cursor.current, inner[cursor.current].vals[cursor.idx + 1]>>)
<1> DEFINE c == cursor.current
           q == <<c, inner[c].vals[cursor.idx + 1]>>
<1>1. cursor \in Cursors
  BY Zenon DEF Walk
<1>2. c \in Name /\ cursor.idx \in Nat /\ cursor.out \in Seq(Name \X Val)
  BY <1>1, Zenon DEF Within, Cursors
<1>3. inner[c].vals \in Seq(Val) /\ cursor.idx + 1 \in 1 .. Len(inner[c].vals)
  BY <1>2 DEF Within, MapInv, ValueType
<1>4. q \in Name \X Val
  BY <1>2, <1>3, ElementOfSeq, Zenon
<1>5. cursor' = [cursor EXCEPT !.idx = @ + 1, !.out = Append(cursor.out, q)]
  BY Zenon DEF NextWithin, Yield
<1> HIDE DEF q
<1>6. Append(cursor.out, q) \in Seq(Name \X Val)
  BY <1>2, <1>4, AppendProperties, Zenon
<1>7. /\ cursor'.idx = cursor.idx + 1 /\ cursor'.out = Append(cursor.out, q)
      /\ cursor'.of = cursor.of /\ cursor'.left = cursor.left /\ cursor'.current = cursor.current
  BY <1>1, <1>5, Zenon DEF Cursors
<1>8. cursor' \in Cursors
  <2>1. cursor.idx + 1 \in Nat
    BY <1>2
  <2> QED
    BY <1>1, <1>5, <1>6, <2>1, CursorMoves, Zenon
<1> QED
  BY <1>4, <1>7, <1>8, Zenon DEF q

(* Iter::next *)
LEMMA IterNextWalk ==
  ASSUME MapInv, Walk, IterNext
  PROVE  Walk'
<1>1. /\ cursor.of = "iter" /\ UNCHANGED <<inner, making>> /\ IterMet /\ cursor \in Cursors
      /\ todo = <<>> /\ todo' = <<>>
  <2>1. cursor.of = "iter" /\ UNCHANGED <<inner, making>>
    BY Zenon DEF IterNext
  <2>2. cursor # NoCursor /\ todo' = todo
    BY <2>1 DEF NoCursor, making
  <2> QED
    BY <2>1, <2>2, Zenon DEF Walk
<1>2. /\ cursor.left \in SUBSET Name /\ cursor.current \in Name \union {NoName}
      /\ cursor.idx \in Nat /\ cursor.out \in Seq(Name \X Val)
  BY <1>1, Zenon DEF Cursors
<1>3. cursor.current # NoName => Len(inner[cursor.current].vals) \in Nat
  BY <1>2 DEF MapInv, ValueType
<1>4. inner' = inner
  BY <1>1, Zenon
<1>5. CASE Within /\ NextWithin
  <2> DEFINE c == cursor.current
  <2>1. /\ c \in Name /\ c \notin cursor.left
        /\ cursor.idx \in 1 .. Len(cursor.out) /\ cursor.idx < Len(inner[c].vals)
        /\ Run(cursor.out, c, inner[c].vals, cursor.idx, Len(cursor.out) - cursor.idx)
    BY <1>1, <1>2, <1>5, Zenon DEF Within, IterMet
  <2>2. /\ cursor' \in Cursors /\ cursor'.idx = cursor.idx + 1
        /\ cursor'.of = "iter" /\ cursor'.left = cursor.left /\ cursor'.current = c
        /\ <<c, inner[c].vals[cursor.idx + 1]>> \in Name \X Val
        /\ cursor'.out = Append(cursor.out, <<c, inner[c].vals[cursor.idx + 1]>>)
    BY <1>1, <1>5, WithinYields, Zenon
  <2>3. cursor.idx \in 0 .. Len(cursor.out)
    BY <2>1
  <2>4. /\ Run(cursor'.out, c, inner[c].vals, cursor.idx + 1, Len(cursor'.out) - (cursor.idx + 1))
        /\ Len(cursor'.out) = Len(cursor.out) + 1
        /\ \A m \in Name \ {c} : \A j \in Nat : Met(m, j) => Met(m, j)'
    BY <1>4, <2>1, <2>2, <2>3, MetGoesOn, Zenon
  <2>5. \A n \in cursor.left : Met(n, 0)' /\ inner[n].kind # "None"
    BY <1>1, <1>2, <2>1, <2>4, Zenon DEF IterMet
  <2>6. \A n \in Name \ cursor.left : n # c => Met(n, Len(inner[n].vals))'
    <3> SUFFICES ASSUME NEW n \in Name \ cursor.left, n # c PROVE Met(n, Len(inner[n].vals))'
      BY Zenon
    <3>1. Len(inner[n].vals) \in Nat
      BY DEF MapInv, ValueType
    <3>2. Met(n, Len(inner[n].vals))
      BY <1>1, Zenon DEF IterMet
    <3> QED
      BY <1>4, <2>4, <3>1, <3>2, Zenon DEF Met
  <2>7. cursor'.idx \in 1 .. Len(cursor'.out) /\ cursor'.idx <= Len(inner[c].vals)
    <3>1. /\ cursor.idx \in 1 .. Len(cursor.out) /\ Len(cursor.out) \in Nat
          /\ cursor.idx < Len(inner[c].vals) /\ Len(inner[c].vals) \in Nat
      <4>1. inner[c].vals \in Seq(Val)
        BY <2>1, Zenon DEF MapInv, ValueType
      <4>2. Len(inner[c].vals) \in Nat
        BY <4>1, LenProperties, Zenon
      <4>3. Len(cursor.out) \in Nat
        BY <1>2, LenProperties, Zenon
      <4> QED
        BY <2>1, <4>2, <4>3, Zenon
    <3>2. PICK j \in Nat, l \in Nat, v \in Nat :
                j = cursor.idx /\ l = Len(cursor.out) /\ v = Len(inner[c].vals)
      BY <1>2, <3>1, Zenon
    <3>3. j \in 1 .. l /\ j < v
      BY <3>1, <3>2, Zenon
    <3>4. j + 1 \in 1 .. l + 1 /\ j + 1 <= v
      BY <3>3
    <3> QED
      BY <2>2, <2>4, <3>2, <3>4, Zenon
  <2>8. IterMet'
    BY <1>4, <2>1, <2>2, <2>4, <2>5, <2>6, <2>7, Zenon DEF IterMet
  <2> QED
    BY <1>1, <2>2, <2>8, Zenon DEF Walk
<1>6. ASSUME ~Within, NEW n \in cursor.left, NextName(n)
      PROVE  Walk'
  <2> DEFINE q == <<n, inner[n].vals[1]>>
             c == IF inner[n].kind = "Multi" THEN n ELSE NoName
             i == IF inner[n].kind = "Multi" THEN 1 ELSE 0
  <2>1. n \in Name /\ Met(n, 0) /\ inner[n].kind # "None" /\ inner[n] \in ValueType /\ canonical(inner[n])
    BY <1>1, <1>2, <1>6, Zenon DEF IterMet, MapInv, Canonical
  <2>2. /\ inner[n].vals \in Seq(Val) /\ Len(inner[n].vals) \in Nat /\ Len(inner[n].vals) > 0
        /\ inner[n].kind # "Multi" => Len(inner[n].vals) = 1
    BY <2>1 DEF ValueType, canonical
  <2>3. q \in Name \X Val
    BY <2>1, <2>2, ElementOfSeq
  <2>4. cursor' = [cursor EXCEPT !.left = cursor.left \ {n}, !.current = c, !.idx = i,
                                 !.out = Append(cursor.out, q)]
    BY <1>6, Zenon DEF NextName, Yield
  <2>5. Append(cursor.out, q) \in Seq(Name \X Val)
    BY <1>2, <2>3, AppendProperties, Zenon
  <2>6. /\ cursor' \in Cursors /\ cursor'.of = "iter" /\ cursor'.left = cursor.left \ {n}
        /\ cursor'.current = c /\ cursor'.idx = i /\ cursor'.out = Append(cursor.out, q)
    <3>1. cursor.left \ {n} \in SUBSET Name /\ c \in Name \union {NoName} /\ i \in Nat
      BY <1>2, <2>1, Zenon
    <3> HIDE DEF q, c, i
    <3>2. cursor' \in Cursors
      BY <1>1, <2>4, <2>5, <3>1, CursorMoves, Zenon
    <3> QED
      BY <1>1, <2>4, <3>2, Zenon DEF Cursors
  <2>7. Run(cursor.out, n, inner[n].vals, 0, Len(cursor.out) - 0) /\ 0 \in 0 .. Len(cursor.out)
    <3>1. PICK p \in 0 .. Len(cursor.out) : Run(cursor.out, n, inner[n].vals, 0, p)
      BY <2>1, Zenon DEF Met
    <3>2. /\ Len(cursor.out) \in Nat /\ p \in Nat /\ 0 \in 0 .. Len(cursor.out)
          /\ Len(cursor.out) \in 0 .. Len(cursor.out) /\ Len(cursor.out) - 0 = Len(cursor.out)
      BY <1>2, LenProperties
    <3> QED
      BY <1>2, <3>1, <3>2, RunNone, Zenon
  <2>8. /\ Run(cursor'.out, n, inner[n].vals, 1, Len(cursor'.out) - 1)
        /\ Len(cursor'.out) = Len(cursor.out) + 1
        /\ Met(n, 1)'
        /\ \A m \in Name \ {n} : \A j \in Nat : Met(m, j) => Met(m, j)'
    <3> HIDE DEF c, i
    <3> QED
      BY <1>4, <2>1, <2>3, <2>6, <2>7, MetGoesOn
  <2>9. \A m \in cursor.left \ {n} : Met(m, 0)' /\ inner[m].kind # "None"
    BY <1>1, <1>2, <2>8, Zenon DEF IterMet
  <2>10. \A m \in Name \ (cursor.left \ {n}) : m # c => Met(m, Len(inner[m].vals))'
    <3> SUFFICES ASSUME NEW m \in Name \ (cursor.left \ {n}), m # c
                 PROVE  Met(m, Len(inner[m].vals))'
      BY Zenon
    <3>1. CASE m = n
      <4>1. Len(inner[m].vals) = 1 /\ Len(inner'[m].vals) = 1
        BY <1>4, <2>2, <3>1, Zenon
      <4> QED
        BY <2>8, <3>1, <4>1, Zenon
    <3>2. CASE m # n
      <4>1. Len(inner[m].vals) \in Nat
        BY DEF MapInv, ValueType
      <4>2. Met(m, Len(inner[m].vals))
        <5>1. CASE m # cursor.current
          BY <1>1, <3>2, <5>1, Zenon DEF IterMet
        <5>2. CASE m = cursor.current
          <6>1. /\ m # NoName /\ cursor.idx \in 1 .. Len(cursor.out) /\ cursor.idx = Len(inner[m].vals)
                /\ Run(cursor.out, m, inner[m].vals, cursor.idx, Len(cursor.out) - cursor.idx)
            BY <1>1, <1>2, <1>3, <1>6, <5>2, HeaderMapAssumption DEF Within, IterMet
          <6>2. Len(cursor.out) - cursor.idx \in 0 .. Len(cursor.out)
            <7>1. Len(cursor.out) \in Nat /\ cursor.idx \in 1 .. Len(cursor.out)
              BY <1>2, <6>1, LenProperties, Zenon
            <7> QED
              BY <7>1
          <6> QED
            BY <6>1, <6>2, Zenon DEF Met
        <5> QED
          BY <5>1, <5>2, Zenon
      <4> QED
        BY <1>4, <2>8, <3>2, <4>1, <4>2, Zenon DEF Met
    <3> QED
      BY <3>1, <3>2, Zenon
  <2>11. c # NoName => /\ c = n /\ i = 1 /\ i <= Len(inner[c].vals) /\ i \in 1 .. Len(cursor'.out)
                       /\ c \notin cursor.left \ {n}
    BY <1>2, <2>2, <2>8, LenProperties
  <2>12. IterMet'
    <3> HIDE DEF c, i
    <3> QED
      BY <1>4, <2>6, <2>8, <2>9, <2>10, <2>11, Zenon DEF IterMet
  <2> QED
    BY <1>1, <2>6, <2>12, Zenon DEF Walk
<1>7. CASE ~Within /\ cursor.left = {} /\ cursor' = [cursor EXCEPT !.of = "iter end"]
  <2>1. /\ cursor' \in Cursors /\ cursor'.of = "iter end" /\ cursor'.left = {}
        /\ cursor'.current = cursor.current /\ cursor'.idx = cursor.idx /\ cursor'.out = cursor.out
    BY <1>1, <1>7, Zenon DEF Cursors
  <2>2. IterMet' /\ ~Within'
    BY <1>1, <1>4, <1>7, <2>1, Zenon DEF IterMet, Met, Within
  <2> QED
    BY <1>1, <2>1, <2>2, Zenon DEF Walk
<1> QED
  BY <1>5, <1>6, <1>7, Zenon DEF IterNext

(* GetAll::next *)
LEMMA GetAllNextWalk ==
  ASSUME MapInv, Walk, GetAllNext
  PROVE  Walk'
<1>0. PICK c : c = cursor.current
  BY Zenon
<1>1. /\ cursor.of = "all" /\ UNCHANGED <<inner, making>> /\ cursor \in Cursors
      /\ todo = <<>> /\ todo' = <<>>
  <2>1. cursor.of = "all" /\ UNCHANGED <<inner, making>>
    BY Zenon DEF GetAllNext
  <2>2. cursor # NoCursor /\ todo' = todo
    BY <2>1 DEF NoCursor, making
  <2> QED
    BY <2>1, <2>2, Zenon DEF Walk
<1>2. /\ c \in Name \union {NoName} /\ cursor.idx \in Nat /\ cursor.out \in Seq(Name \X Val)
      /\ inner' = inner
  BY <1>0, <1>1, Zenon DEF Cursors
<1>3. c # NoName =>
        /\ c \in Name /\ inner[c].vals \in Seq(Val) /\ Len(inner[c].vals) \in Nat
        /\ inner[c].kind = "One" => Len(inner[c].vals) = 1
        /\ cursor.idx = Len(cursor.out) /\ cursor.idx <= Len(inner[c].vals)
        /\ \A i \in 1 .. cursor.idx : cursor.out[i] = <<c, inner[c].vals[i]>>
  <2>1. ASSUME c # NoName
        PROVE  /\ cursor.idx = Len(cursor.out) /\ cursor.idx <= Len(inner[c].vals)
               /\ \A i \in 1 .. cursor.idx : cursor.out[i] = <<c, inner[c].vals[i]>>
    BY <1>0, <1>1, <2>1, Zenon DEF Walk
  <2>2. ASSUME c # NoName
        PROVE  /\ c \in Name /\ inner[c].vals \in Seq(Val) /\ Len(inner[c].vals) \in Nat
               /\ inner[c].kind = "One" => Len(inner[c].vals) = 1
    BY <1>2, <2>2 DEF MapInv, ValueType, Canonical, canonical
  <2> QED
    BY <2>1, <2>2, Zenon
<1>4. c # NoName =>
        /\ Run(cursor.out, c, inner[c].vals, cursor.idx, Len(cursor.out) - cursor.idx)
        /\ \A m \in Name \ {c} : Met(m, 0)
  <2> SUFFICES ASSUME c # NoName
               PROVE  /\ Run(cursor.out, c, inner[c].vals, cursor.idx, 0)
                      /\ \A m \in Name \ {c} : Met(m, 0)
    <3>1. c # NoName => Len(cursor.out) - cursor.idx = 0
      BY <1>2, <1>3
    <3> QED
      BY <3>1, Zenon
  <2>1. \A i \in 1 .. Len(cursor.out) : cursor.out[i][1] = c
    BY <1>3
  <2>2. Run(cursor.out, c, inner[c].vals, cursor.idx, 0)
    <3>1. cursor.idx \in Nat /\ cursor.idx = Len(cursor.out)
      BY <1>2, <1>3, Zenon
    <3>2. \A i \in 1 .. cursor.idx : cursor.out[0 + i] = <<c, inner[c].vals[i]>>
      BY <1>3, <3>1
    <3> QED
      BY <2>1, <3>1, <3>2 DEF Run
  <2>3. ASSUME NEW m \in Name \ {c} PROVE Run(cursor.out, m, inner[m].vals, 0, 0)
    BY <1>2, <2>1 DEF Run
  <2>4. 0 \in 0 .. Len(cursor.out)
    BY <1>2, LenProperties
  <2> QED
    BY <2>2, <2>3, <2>4, Zenon DEF Met
<1>5. CASE Within /\ inner[c].kind = "Multi" /\ NextWithin
  <2>1. /\ cursor' \in Cursors /\ cursor'.idx = cursor.idx + 1
        /\ cursor'.of = "all" /\ cursor'.current = c
        /\ <<c, inner[c].vals[cursor.idx + 1]>> \in Name \X Val
        /\ cursor'.out = Append(cursor.out, <<c, inner[c].vals[cursor.idx + 1]>>)
    BY <1>0, <1>1, <1>5, WithinYields, Zenon
  <2>2. c # NoName /\ cursor.idx < Len(inner[c].vals)
    BY <1>0, <1>5, Zenon DEF Within
  <2>3. /\ Len(cursor'.out) = Len(cursor.out) + 1
        /\ \A i \in 1 .. Len(cursor.out) : cursor'.out[i] = cursor.out[i]
        /\ cursor'.out[Len(cursor.out) + 1] = <<c, inner[c].vals[cursor.idx + 1]>>
    BY <1>2, <2>1, AppendProperties
  <2>4. /\ cursor'.idx = Len(cursor'.out) /\ cursor'.idx <= Len(inner[c].vals)
        /\ \A i \in 1 .. cursor'.idx : cursor'.out[i] = <<c, inner[c].vals[i]>>
    <3>1. /\ cursor'.idx = Len(cursor'.out) /\ cursor'.idx <= Len(inner[c].vals)
          /\ cursor'.idx = cursor.idx + 1 /\ Len(cursor.out) = cursor.idx
      BY <1>2, <1>3, <2>1, <2>2, <2>3
    <3>2. ASSUME NEW i \in 1 .. cursor'.idx PROVE cursor'.out[i] = <<c, inner[c].vals[i]>>
      <4>1. CASE i = cursor.idx + 1
        BY <2>3, <3>1, <4>1, Zenon
      <4>2. CASE i \in 1 .. cursor.idx
        BY <1>3, <2>2, <2>3, <3>1, <4>2, Zenon
      <4> QED
        BY <1>2, <3>1, <4>1, <4>2
    <3> QED
      BY <3>1, <3>2, Zenon
  <2> QED
    BY <1>1, <1>2, <1>5, <2>1, <2>2, <2>4, Zenon DEF Walk
<1>6. CASE /\ Within /\ inner[c].kind = "One"
           /\ cursor' = [cursor EXCEPT !.current = NoName, !.out = Yield(c, 1)]
  <2>1. c # NoName /\ cursor.idx = 0 /\ Len(inner[c].vals) = 1
    BY <1>0, <1>2, <1>3, <1>6, SMTT(30) DEF Within
  <2> DEFINE q == <<c, inner[c].vals[1]>>
  <2>2. q \in Name \X Val /\ Append(cursor.out, q) \in Seq(Name \X Val)
    <3>1. q \in Name \X Val
      BY <1>3, <2>1, ElementOfSeq
    <3> QED
      BY <1>2, <3>1, AppendProperties, Zenon
  <2>3. /\ cursor' \in Cursors /\ cursor'.of = "all" /\ cursor'.current = NoName
        /\ cursor'.out = Append(cursor.out, q)
    <3>1. cursor' = [cursor EXCEPT !.current = NoName, !.out = Append(cursor.out, q)]
      BY <1>6, Zenon DEF Yield
    <3> HIDE DEF q
    <3>2. cursor' \in Cursors
      BY <1>1, <1>2, <2>2, <3>1, CursorMoves, Zenon
    <3> QED
      BY <1>1, <3>1, <3>2, Zenon DEF Cursors
  <2>4. 0 \in 0 .. Len(cursor.out) /\ c \in Name
        /\ Run(cursor.out, c, inner[c].vals, 0, Len(cursor.out) - 0)
    BY <1>2, <1>3, <1>4, <2>1, LenProperties
  <2>5. Met(c, 1)' /\ \A m \in Name \ {c} : \A j \in Nat : Met(m, j) => Met(m, j)'
    <3>1. 0 + 1 = 1
      OBVIOUS
    <3> QED
      BY <1>2, <2>2, <2>3, <2>4, <3>1, MetGoesOn, Zenon
  <2>7. \A n \in Name : Met(n, IF n = c THEN Len(inner[n].vals) ELSE 0)'
    <3> SUFFICES ASSUME NEW n \in Name
                 PROVE  Met(n, IF n = c THEN Len(inner[n].vals) ELSE 0)'
      BY Zenon
    <3>1. CASE n = c
      <4>1. Len(inner'[n].vals) = 1
        BY <1>2, <2>1, <3>1, Zenon
      <4> QED
        BY <2>5, <3>1, <4>1, Zenon DEF Met
    <3>2. CASE n # c
      BY <1>4, <2>1, <2>5, <3>2
    <3> QED
      BY <3>1, <3>2, Zenon
  <2>8. AllMet'
    BY <2>4, <2>7, Zenon DEF AllMet
  <2> QED
    BY <1>1, <2>3, <2>8, Zenon DEF Walk
<1>7. CASE ~Within /\ cursor' = [cursor EXCEPT !.of = "all end", !.current = NoName]
  <2>1. /\ cursor' \in Cursors /\ cursor'.of = "all end" /\ cursor'.current = NoName
        /\ cursor'.out = cursor.out
    BY <1>1, <1>7, Zenon DEF Cursors
  <2>2. AllMet
    <3>1. CASE c = NoName
      BY <1>0, <1>1, <3>1, Zenon DEF Walk
    <3>2. CASE c # NoName
      <4>1. cursor.idx = Len(inner[c].vals) /\ c \in Name
        BY <1>0, <1>2, <1>3, <1>7, <3>2 DEF Within
      <4>2. Len(cursor.out) - cursor.idx \in 0 .. Len(cursor.out)
        BY <1>2, <1>3, <3>2
      <4>3. Met(c, Len(inner[c].vals))
        BY <1>4, <3>2, <4>1, <4>2, Zenon DEF Met
      <4>4. \A n \in Name : Met(n, IF n = c THEN Len(inner[n].vals) ELSE 0)
        BY <1>4, <3>2, <4>3, Zenon
      <4> QED
        BY <4>1, <4>4, Zenon DEF AllMet
    <3> QED
      BY <3>1, <3>2, Zenon
  <2>3. AllMet'
    BY <1>2, <2>1, <2>2, Zenon DEF AllMet, Met
  <2> QED
    BY <1>1, <2>1, <2>3, Zenon DEF Walk
<1> QED
  BY <1>0, <1>5, <1>6, <1>7, Zenon DEF GetAllNext

LEMMA WalkStep ==
  ASSUME MapInv, Walk, [HeaderNext]_hvars
  PROVE  Walk'
<1>1. CASE cursor' = NoCursor
  <2>1. NoCursor \in Cursors /\ NoCursor.of = "none"
    BY NoWalk, Zenon DEF NoCursor
  <2> QED
    BY <1>1, <2>1, Zenon DEF Walk
<1>2. CASE UNCHANGED hvars
  <2>1. UNCHANGED <<inner, todo, cursor>>
    BY <1>2, Zenon DEF hvars, making
  <2> QED
    BY <2>1, Zenon DEF Walk, IterMet, AllMet, Met, Within
<1>3. ASSUME NEW n \in Name, NEW v \in Val, Insert(n, v) \/ AppendValue(n, v)
      PROVE  cursor' = NoCursor
  BY <1>3, Zenon DEF Insert, AppendValue, Update, Free
<1>4. ASSUME NEW k \in Name \union {NoName}, RemoveName(k) \/ \E v \in Val : GetMut(k, v)
      PROVE  cursor' = NoCursor
  BY <1>4, Zenon DEF RemoveName, GetMut, Update, Free
<1>5. CASE ClearMap \/ \E ps \in Pairs : FromIter(ps)
  BY <1>1, <1>5, Zenon DEF ClearMap, FromIter, Update, Free
<1>6. CASE ParsePiece \/ FoldPair
  BY <1>1, <1>6, Zenon DEF ParsePiece, FoldPair, Walk
<1>7. CASE Drop
  BY <1>1, <1>7, Zenon DEF Drop
<1> QED
  BY <1>1, <1>2, <1>3, <1>4, <1>5, <1>6, <1>7, IterWalk, GetAllWalk, IterNextWalk, GetAllNextWalk, Zenon
  DEF HeaderNext

(* A walk of a HeaderMap that has come to its end (Iter, or GetAll for one   *)
(* name) has met every value once, those of a name together and in order,    *)
(* for any map and in whatever order the hash map gives the names.           *)
THEOREM WalksAreComplete == HeaderSpec => []WalkComplete
<1>1. HeaderInit => Walk
  BY NoWalk, Zenon DEF HeaderInit
<1>2. MapInv /\ Walk => WalkComplete
  <2> SUFFICES ASSUME MapInv, Walk PROVE WalkComplete
    BY Zenon
  <2>1. HeaderTypeOK
    BY Zenon DEF MapInv, Walk, HeaderTypeOK
  <2>2. ASSUME cursor.of = "iter end", NEW n \in Name PROVE Met(n, Len(inner[n].vals))
    <3>1. cursor \in Cursors /\ IterMet /\ cursor.left = {} /\ ~Within
      BY <2>2, Zenon DEF Walk
    <3>2. CASE n # cursor.current
      BY <3>1, <3>2, Zenon DEF IterMet
    <3>3. CASE n = cursor.current
      <4>1. /\ n # NoName /\ cursor.idx \in Nat /\ cursor.out \in Seq(Name \X Val)
            /\ Len(inner[n].vals) \in Nat
        <5>1. n # NoName /\ Len(inner[n].vals) \in Nat
          BY HeaderMapAssumption DEF MapInv, ValueType
        <5>2. cursor.idx \in Nat /\ cursor.out \in Seq(Name \X Val)
          BY <3>1, Zenon DEF Cursors
        <5> QED
          BY <5>1, <5>2, Zenon
      <4>2. /\ cursor.idx = Len(inner[n].vals) /\ cursor.idx \in 1 .. Len(cursor.out)
            /\ Run(cursor.out, n, inner[n].vals, cursor.idx, Len(cursor.out) - cursor.idx)
        BY <3>1, <3>3, <4>1 DEF Within, IterMet
      <4>3. Len(cursor.out) \in Nat
        BY <4>1, LenProperties, Zenon
      <4>4. Len(cursor.out) - cursor.idx \in 0 .. Len(cursor.out)
        <5>1. cursor.idx \in 1 .. Len(cursor.out)
          BY <4>2, Zenon
        <5> QED
          BY <4>3, <5>1
      <4> QED
        BY <4>2, <4>4, Zenon DEF Met
    <3> QED
      BY <3>2, <3>3, Zenon
  <2>3. cursor.of = "all end" => AllMet
    BY Zenon DEF Walk
  <2> QED
    BY <2>1, <2>2, <2>3, Zenon DEF WalkComplete, AllMet
<1> QED
  BY <1>1, <1>2, InvInit, InvStep, WalkStep, PTL DEF HeaderSpec

-----------------------------------------------------------------------------
(***************************************************************************)
(* That recycled heads are safe, for any number of messages and heads and  *)
(* any size of the pools.                                                  *)
(*                                                                         *)
(* NoLeftovers speaks of delivered messages only and is not inductive:     *)
(* Written says which fields a message has made its own at every stage.    *)
(* It needs PoolUnshared, as a head may lose its fields to the next user   *)
(* only when nobody else has it.                                           *)
(***************************************************************************)
(* The fields that have nothing left of an earlier user *)
Written(k, at) ==
    IF at = "failed" THEN {}
    ELSE IF at = "delivered" THEN Read(k)
    ELSE IF k = "response" THEN ResponseField \ {"version"} ELSE RequestField \ {"id"}

Owned ==
    \A u \in User : msg[u] # Idle =>
        \A f \in Written(msg[u].kind, msg[u].at) : field[msg[u].head][f] # "left"

HeadsInv == HeadsTypeOK /\ PoolUnshared /\ Owned

-----------------------------------------------------------------------------
(* Head::clear resets the same fields whatever they had. *)
LEMMA ClearedDefault ==
  ASSUME NEW p \in {"request", "response"}, NEW x \in [Field -> Tag]
  PROVE  /\ clear(p, x) \in [Field -> Tag] /\ handOn(clear(p, x)) \in [Field -> Tag]
         /\ \A f \in Cleared(p) : /\ clear(p, x)[f] = "default"
                                  /\ handOn(clear(p, x))[f] = "default"
<1>1. Cleared(p) \subseteq Field
  BY Zenon DEF Cleared, Field, RequestField, ResponseField
<1>2. QED
  BY <1>1, Zenon DEF clear, handOn, Tag

(* A caller of get_message writes what clear does not reset. *)
LEMMA FreshFields ==
  ASSUME NEW k \in Kind, NEW at \in {"building", "failed"}, NEW F \in SUBSET Field,
         NEW x \in [Field -> Tag],
         \A f \in Cleared(Pool(k)) : x[f] = "default",
         at = "building" => IF k = "response" THEN "status" \in F ELSE {"uri", "method"} \subseteq F
  PROVE  /\ write(x, F) \in [Field -> Tag]
         /\ \A f \in Written(k, at) : write(x, F)[f] # "left"
<1>1. write(x, F) \in [Field -> Tag]
  BY Zenon DEF write, Tag
<1>2. Written(k, at) \subseteq Field
  BY Zenon DEF Written, Field, RequestField, ResponseField, Kind, Requests
<1>3. ASSUME NEW f \in Written(k, at)
      PROVE  f \in F \/ f \in Cleared(Pool(k))
  BY <1>3, Zenon DEF Written, Cleared, Pool, RequestField, ResponseField, Kind, Requests
<1>4. QED
  BY <1>1, <1>2, <1>3, Zenon DEF write

(* A message has one of the heads, one of the kinds and one of the stages;   *)
(* an idle one has none.                                                     *)
LEMMA MessageShape ==
  ASSUME HeadsTypeOK, NEW u \in User
  PROVE  /\ msg[u] \in Messages
         /\ msg[u] # Idle => /\ msg[u].kind \in Kind
                            /\ msg[u].at \in {"building", "failed", "delivered"}
                            /\ msg[u].head \in HeadId
                            /\ msg[u] = [kind |-> msg[u].kind, at |-> msg[u].at,
                                        head |-> msg[u].head]
         /\ msg[u].head \in HeadId => msg[u] # Idle
         /\ msg[u].at \in {"building", "failed", "delivered"} => msg[u] # Idle
         /\ msg[u].kind \in Kind => msg[u] # Idle
BY MessageHeadsAssumption DEF HeadsTypeOK, Messages, Idle, Kind, Requests

-----------------------------------------------------------------------------
(* u takes the head h, which nobody has, with the fields x. *)
Taken(u, k, at, h, x) ==
    /\ Holders(h) = {} /\ msg[u] = Idle
    /\ \A f \in Written(k, at) : x[f] # "left"
    /\ field' = [field EXCEPT ![h] = x]
    /\ msg' = [msg EXCEPT ![u] = [kind |-> k, at |-> at, head |-> h]]
    /\ pool' \in [{"request", "response"} -> Seq(HeadId)]
    /\ \A p \in {"request", "response"} : \A i \in DOMAIN pool'[p] :
            i \in DOMAIN pool[p] /\ pool'[p][i] = pool[p][i] /\ pool'[p][i] # h

(* Taking a head nobody has, with its fields reset or written, keeps the     *)
(* invariant: what get_message does, of a pooled head or a new one.          *)
LEMMA Take ==
  ASSUME HeadsInv, NEW u \in User, NEW k \in Kind, NEW at \in {"building", "failed"},
         NEW h \in HeadId, NEW x \in [Field -> Tag], Taken(u, k, at, h, x)
  PROVE  HeadsInv'
<1> USE DEF Taken
<1> DEFINE m == [kind |-> k, at |-> at, head |-> h]
<1>1. m \in Messages /\ m # Idle
  BY MessageHeadsAssumption, Zenon DEF Messages, Idle, Kind, Requests
<1>2. HeadsTypeOK'
  BY <1>1, Zenon DEF HeadsInv, HeadsTypeOK
<1>3. \A w \in User : w # u => msg'[w] = msg[w] /\ msg[w].head # h
  BY Zenon DEF Holders, HeadsInv, HeadsTypeOK
<1>4. msg'[u] = m
  BY Zenon DEF HeadsInv, HeadsTypeOK
<1>5. DOMAIN pool = {"request", "response"} /\ DOMAIN pool' = {"request", "response"}
  BY Zenon DEF HeadsInv, HeadsTypeOK
<1>6. PoolUnshared'
  <2>1. ASSUME NEW p \in {"request", "response"}, NEW q \in {"request", "response"},
               NEW i \in DOMAIN pool'[p], NEW j \in DOMAIN pool'[q],
               pool'[p][i] = pool'[q][j]
        PROVE  p = q /\ i = j
    BY <2>1, <1>5 DEF HeadsInv, PoolUnshared
  <2>2. ASSUME NEW p \in {"request", "response"}, NEW i \in DOMAIN pool'[p]
        PROVE  /\ {v \in User : msg'[v].head = pool'[p][i]} = {}
               /\ \A f \in Cleared(p) : field'[pool'[p][i]][f] = "default"
    <3>1. i \in DOMAIN pool[p] /\ pool'[p][i] = pool[p][i] /\ pool'[p][i] # h
      BY Zenon
    <3>2. /\ Holders(pool[p][i]) = {}
          /\ \A f \in Cleared(p) : field[pool[p][i]][f] = "default"
      BY <3>1, <1>5 DEF HeadsInv, PoolUnshared
    <3>3. pool[p][i] \in HeadId
      BY <3>1 DEF HeadsInv, HeadsTypeOK
    <3>4. QED
      BY <3>1, <3>2, <3>3, <1>3, <1>4 DEF Holders, HeadsInv, HeadsTypeOK
  <2>3. ASSUME NEW v \in User, NEW w \in User, msg'[v].head = msg'[w].head,
               msg'[v] # Idle, v # w
        PROVE  msg'[v].kind = "response" /\ msg'[w].kind = "response"
    <3>1. v # u /\ w # u
      BY <2>3, <1>3, <1>4
    <3>2. QED
      BY <2>3, <3>1, <1>3 DEF HeadsInv, PoolUnshared
  <2>4. \A p, q \in DOMAIN pool' : \A i \in DOMAIN pool'[p], j \in DOMAIN pool'[q] :
            pool'[p][i] = pool'[q][j] => p = q /\ i = j
    BY <2>1, <1>5
  <2>5. \A p \in DOMAIN pool' : \A i \in DOMAIN pool'[p] :
            /\ {v \in User : msg'[v].head = pool'[p][i]} = {}
            /\ \A f \in Cleared(p) : field'[pool'[p][i]][f] = "default"
    BY <2>2, <1>5, Zenon
  <2>6. \A v, w \in User : msg'[v].head = msg'[w].head /\ msg'[v] # Idle /\ v # w =>
            msg'[v].kind = "response" /\ msg'[w].kind = "response"
    BY <2>3, Zenon
  <2>7. QED
    BY <2>4, <2>5, <2>6, Zenon DEF PoolUnshared, Holders
<1>7. Owned'
  <2>1. ASSUME NEW w \in User, msg'[w] # Idle, NEW f \in Written(msg'[w].kind, msg'[w].at)
        PROVE  field'[msg'[w].head][f] # "left"
    <3>1. CASE w = u
      BY <2>1, <3>1, <1>4, Zenon DEF HeadsInv, HeadsTypeOK
    <3>2. CASE w # u
      <4>1. msg[w].head \in HeadId /\ msg[w].head # h
        BY <2>1, <3>2, <1>3, MessageShape, Zenon DEF HeadsInv
      <4>2. field'[msg[w].head] = field[msg[w].head]
        BY <4>1, Zenon DEF HeadsInv, HeadsTypeOK
      <4>3. msg'[w] = msg[w]
        BY <3>2, <1>3, Zenon
      <4>4. \A g \in Written(msg[w].kind, msg[w].at) : field[msg[w].head][g] # "left"
        BY <2>1, <4>3, Zenon DEF HeadsInv, Owned
      <4>5. QED
        BY <2>1, <4>2, <4>3, <4>4, ZenonT(60)
    <3>3. QED
      BY <3>1, <3>2, Zenon
  <2>2. QED
    BY <2>1, Zenon DEF Owned
<1>8. QED
  BY <1>2, <1>6, <1>7, Zenon DEF HeadsInv

(* get_message of a caller that writes what clear does not reset *)
LEMMA GetMessage ==
  ASSUME HeadsInv, NEW u \in User, NEW k \in Kind, NEW F \in SUBSET Field,
         NEW at \in {"building", "failed"}, get_message(u, k, F, at),
         at = "building" => IF k = "response" THEN "status" \in F ELSE {"uri", "method"} \subseteq F
  PROVE  HeadsInv'
<1> DEFINE p == Pool(k)
<1>1. p \in {"request", "response"} /\ msg[u] = Idle
  BY Zenon DEF Pool, get_message
<1>2. pool \in [{"request", "response"} -> Seq(HeadId)] /\ DOMAIN pool = {"request", "response"}
  BY Zenon DEF HeadsInv, HeadsTypeOK
<1>3. CASE pool[p] # <<>>
  <2> DEFINE n == Len(pool[p])
             h == pool[p][n]
             x == write(clear(p, field[h]), F)
  <2>1. n \in DOMAIN pool[p] /\ n \in Nat /\ n > 0 /\ h \in HeadId /\ pool[p] \in Seq(HeadId)
    BY <1>1, <1>2, <1>3
  <2>2. Holders(h) = {} /\ field[h] \in [Field -> Tag]
    BY <1>1, <1>2, <2>1, Zenon DEF HeadsInv, HeadsTypeOK, PoolUnshared
  <2>3. x \in [Field -> Tag] /\ \A f \in Written(k, at) : x[f] # "left"
    <3> DEFINE y == clear(p, field[h])
    <3>1. y \in [Field -> Tag] /\ \A f \in Cleared(Pool(k)) : y[f] = "default"
      BY <1>1, <2>2, ClearedDefault, Zenon
    <3> HIDE DEF y
    <3>2. write(y, F) \in [Field -> Tag] /\ \A f \in Written(k, at) : write(y, F)[f] # "left"
      BY <3>1, FreshFields, Zenon
    <3>3. QED
      BY <3>2, Zenon DEF y
  <2>4. /\ pool' = [pool EXCEPT ![p] = SubSeq(pool[p], 1, n - 1)]
        /\ field' = [field EXCEPT ![h] = x]
        /\ msg' = [msg EXCEPT ![u] = [kind |-> k, at |-> at, head |-> h]]
    BY <1>3, Zenon DEF get_message
  <2>5. /\ SubSeq(pool[p], 1, n - 1) \in Seq(HeadId)
        /\ DOMAIN SubSeq(pool[p], 1, n - 1) = 1 .. n - 1
        /\ \A i \in 1 .. n - 1 : SubSeq(pool[p], 1, n - 1)[i] = pool[p][i] /\ i \in DOMAIN pool[p] /\ i # n
    BY <2>1
  <2>6. pool' \in [{"request", "response"} -> Seq(HeadId)]
    BY <1>1, <1>2, <2>4, <2>5, Zenon
  <2>7. ASSUME NEW q \in {"request", "response"}, NEW i \in DOMAIN pool'[q]
        PROVE  i \in DOMAIN pool[q] /\ pool'[q][i] = pool[q][i] /\ pool'[q][i] # h
    <3>1. i \in DOMAIN pool[q] /\ pool'[q][i] = pool[q][i] /\ (q # p \/ i # n)
      BY <1>1, <1>2, <2>4, <2>5, Zenon
    <3>2. QED
      BY <1>1, <1>2, <2>1, <3>1 DEF HeadsInv, PoolUnshared
  <2> HIDE DEF h, x
  <2>8. Taken(u, k, at, h, x)
    BY <1>1, <2>2, <2>3, <2>4, <2>6, <2>7, Zenon DEF Taken
  <2>9. QED
    BY <2>1, <2>3, <2>8, Take, Zenon
<1>4. CASE pool[p] = <<>>
  <2>1. PICK h \in HeadId :
            /\ Unused(h)
            /\ field' = [field EXCEPT ![h] = write(Default, F)]
            /\ msg' = [msg EXCEPT ![u] = [kind |-> k, at |-> at, head |-> h]]
    BY <1>4, Zenon DEF get_message
  <2>2. Default \in [Field -> Tag] /\ \A f \in Cleared(Pool(k)) : Default[f] = "default"
    BY Zenon DEF Default, Tag, Cleared, Field, RequestField, ResponseField
  <2> DEFINE x == write(Default, F)
  <2>3. x \in [Field -> Tag] /\ \A f \in Written(k, at) : x[f] # "left"
    BY <2>2, FreshFields, Zenon
  <2>4. pool' = pool /\ Holders(h) = {}
        /\ \A q \in {"request", "response"} : \A i \in DOMAIN pool[q] : pool[q][i] # h
    BY <1>2, <1>4, <2>1, Zenon DEF get_message, Unused, Pooled
  <2>5. field' = [field EXCEPT ![h] = x]
    BY <2>1, Zenon
  <2>6. /\ pool' \in [{"request", "response"} -> Seq(HeadId)]
        /\ \A q \in {"request", "response"} : \A i \in DOMAIN pool'[q] :
                i \in DOMAIN pool[q] /\ pool'[q][i] = pool[q][i] /\ pool'[q][i] # h
    BY <1>2, <2>4, Zenon
  <2> HIDE DEF x
  <2>7. Taken(u, k, at, h, x)
    BY <1>1, <2>1, <2>3, <2>4, <2>5, <2>6, Zenon DEF Taken
  <2>8. QED
    BY <2>3, <2>7, Take, Zenon
<1>5. QED
  BY <1>3, <1>4, Zenon

-----------------------------------------------------------------------------
(* Writing fields of a head one has keeps the invariant, and so does handing *)
(* the message on when that writes the fields that were still missing.       *)
LEMMA Mark ==
  ASSUME HeadsInv, NEW u \in User, msg[u] # Idle, NEW F \in SUBSET Field, Write(u, F),
         \/ msg' = msg
         \/ /\ msg[u].at = "building" /\ msg' = [msg EXCEPT ![u].at = "delivered"]
            /\ Read(msg[u].kind) \subseteq Written(msg[u].kind, "building") \union F
  PROVE  HeadsInv'
<1>1. \A w \in User : /\ msg'[w] \in Messages /\ (msg'[w] = Idle <=> msg[w] = Idle)
                      /\ msg'[w].head = msg[w].head /\ msg'[w].kind = msg[w].kind
                      /\ \/ msg'[w].at = msg[w].at
                         \/ /\ w = u /\ msg[u].at = "building" /\ msg'[w].at = "delivered"
                            /\ Read(msg[u].kind) \subseteq Written(msg[u].kind, "building") \union F
  <2>1. CASE msg' = msg
    BY <2>1, MessageShape, Zenon DEF HeadsInv
  <2>2. CASE msg' # msg
    <3>1. msg[u] \in [kind : Kind, at : {"building", "failed", "delivered"}, head : HeadId]
      BY MessageShape, Zenon DEF HeadsInv, Messages
    <3>2. msg'[u] = [kind |-> msg[u].kind, at |-> "delivered", head |-> msg[u].head]
      BY <2>2, <3>1, Zenon DEF HeadsInv, HeadsTypeOK
    <3>3. msg'[u] \in Messages /\ msg'[u] # Idle
      BY <3>1, <3>2 DEF Messages, Idle
    <3>4. \A w \in User : w # u => msg'[w] = msg[w] /\ msg[w] \in Messages
      BY <2>2, MessageShape, Zenon DEF HeadsInv, HeadsTypeOK
    <3>5. QED
      BY <2>2, <3>2, <3>3, <3>4
  <2>3. QED
    BY <2>1, <2>2, Zenon
<1>2. msg' \in [User -> Messages]
  BY <1>1, Zenon DEF HeadsInv, HeadsTypeOK
<1>3. pool' = pool /\ msg[u].head \in HeadId
  BY MessageShape, Zenon DEF HeadsInv, Write
<1>4. /\ field' \in [HeadId -> [Field -> Tag]]
      /\ \A h \in HeadId : h # msg[u].head => field'[h] = field[h]
      /\ \A f \in Field : field'[msg[u].head][f] = IF f \in F THEN "own" ELSE field[msg[u].head][f]
  BY <1>3, Zenon DEF HeadsInv, HeadsTypeOK, Write, write, Tag
<1>5. PoolUnshared'
  <2>1. ASSUME NEW p \in DOMAIN pool, NEW i \in DOMAIN pool[p]
        PROVE  /\ {v \in User : msg'[v].head = pool[p][i]} = {}
               /\ field'[pool[p][i]] = field[pool[p][i]]
    <3>1. Holders(pool[p][i]) = {} /\ pool[p][i] \in HeadId
      BY DEF HeadsInv, HeadsTypeOK, PoolUnshared
    <3>2. QED
      BY <1>1, <1>4, <3>1 DEF Holders
  <2>2. \A p \in DOMAIN pool : \A i \in DOMAIN pool[p] :
            /\ {v \in User : msg'[v].head = pool[p][i]} = {}
            /\ \A f \in Cleared(p) : field'[pool[p][i]][f] = "default"
    BY <2>1 DEF HeadsInv, PoolUnshared
  <2>3. \A v, w \in User : msg'[v].head = msg'[w].head /\ msg'[v] # Idle /\ v # w =>
            msg'[v].kind = "response" /\ msg'[w].kind = "response"
    BY <1>1 DEF HeadsInv, PoolUnshared
  <2>4. \A p, q \in DOMAIN pool : \A i \in DOMAIN pool[p], j \in DOMAIN pool[q] :
            pool[p][i] = pool[q][j] => p = q /\ i = j
    BY Zenon DEF HeadsInv, PoolUnshared
  <2>5. QED
    BY <1>3, <2>2, <2>3, <2>4, SMT DEF PoolUnshared, Holders
<1>6. Owned'
  <2>1. ASSUME NEW w \in User, msg'[w] # Idle, NEW f \in Written(msg'[w].kind, msg'[w].at)
        PROVE  field'[msg'[w].head][f] # "left"
    <3>1. msg[w].head \in HeadId /\ msg[w].kind \in Kind
      BY <1>1, <2>1, MessageShape, Zenon DEF HeadsInv
    <3>2. f \in Field
      BY <1>1, <2>1, <3>1, Zenon DEF Written, Read, Field, RequestField, ResponseField, Kind, Requests
    <3>3. \A g \in Written(msg[w].kind, msg[w].at) : field[msg[w].head][g] # "left"
      BY <1>1, <2>1, Zenon DEF HeadsInv, Owned
    <3>4. f \in Written(msg[w].kind, msg[w].at) \/ (w = u /\ f \in F)
      BY <1>1, <2>1, Zenon DEF Written
    <3>5. field'[msg[w].head][f] = field[msg[w].head][f] \/ field'[msg[w].head][f] = "own"
      BY <1>4, <3>1, <3>2, Zenon
    <3>6. w = u /\ f \in F => field'[msg[w].head][f] = "own"
      BY <1>4, <3>2, Zenon
    <3>7. QED
      BY <1>1, <3>3, <3>4, <3>5, <3>6, Zenon
  <2>2. QED
    BY <2>1, Zenon DEF Owned
<1>7. QED
  BY <1>2, <1>3, <1>4, <1>5, <1>6, Zenon DEF HeadsInv, HeadsTypeOK

-----------------------------------------------------------------------------
(* Response::take: a second message of the head of a response *)
LEMMA ShareKeeps ==
  ASSUME HeadsInv, NEW u \in User, NEW w \in User, Share(u, w)
  PROVE  HeadsInv'
<1>1. /\ msg[u].kind = "response" /\ msg[u] \in Messages /\ msg[u] # Idle /\ msg[w] = Idle
      /\ msg' = [msg EXCEPT ![w] = msg[u]] /\ field' = field /\ pool' = pool
  BY MessageShape, Zenon DEF Share, HeadsInv, Kind
<1>2. msg' \in [User -> Messages] /\ msg'[w] = msg[u] /\ \A v \in User : v # w => msg'[v] = msg[v]
  BY <1>1, Zenon DEF HeadsInv, HeadsTypeOK
<1>3. PoolUnshared'
  <2>1. \A p \in DOMAIN pool : \A i \in DOMAIN pool[p] :
            /\ {v \in User : msg'[v].head = pool[p][i]} = {}
            /\ \A f \in Cleared(p) : field[pool[p][i]][f] = "default"
    <3>1. ASSUME NEW p \in DOMAIN pool, NEW i \in DOMAIN pool[p], NEW v \in User
          PROVE  msg'[v].head # pool[p][i]
      BY <1>2 DEF HeadsInv, PoolUnshared, Holders
    <3>2. \A p \in DOMAIN pool : \A i \in DOMAIN pool[p] :
            \A f \in Cleared(p) : field[pool[p][i]][f] = "default"
      BY DEF HeadsInv, PoolUnshared
    <3>3. QED
      BY <3>1, <3>2, Zenon
  <2>2. \A x, y \in User : msg'[x].head = msg'[y].head /\ msg'[x] # Idle /\ x # y =>
            msg'[x].kind = "response" /\ msg'[y].kind = "response"
    <3>1. \A x \in User : msg[x].head = msg[u].head => msg[x].kind = "response"
      BY <1>1, Zenon DEF HeadsInv, PoolUnshared
    <3>2. QED
      BY <1>1, <1>2, <3>1 DEF HeadsInv, PoolUnshared
  <2>3. \A p, q \in DOMAIN pool : \A i \in DOMAIN pool[p], j \in DOMAIN pool[q] :
            pool[p][i] = pool[q][j] => p = q /\ i = j
    BY Zenon DEF HeadsInv, PoolUnshared
  <2>4. QED
    BY <1>1, <2>1, <2>2, <2>3, SMT DEF PoolUnshared, Holders
<1>4. Owned'
  BY <1>1, <1>2, Zenon DEF HeadsInv, Owned
<1>5. QED
  BY <1>1, <1>2, <1>3, <1>4, Zenon DEF HeadsInv, HeadsTypeOK

-----------------------------------------------------------------------------
(* Drop for Message: the last message of a head gives it back to the pool or *)
(* frees it, another one only lets go of it.                                 *)
LEMMA DropKeeps ==
  ASSUME HeadsInv, NEW u \in User, DropMessage(u)
  PROVE  HeadsInv'
<1> DEFINE h == msg[u].head
           p == Pool(msg[u].kind)
<1>1. /\ msg[u] # Idle /\ h \in HeadId /\ p \in {"request", "response"}
      /\ field[h] \in [Field -> Tag] /\ pool[p] \in Seq(HeadId)
      /\ DOMAIN pool = {"request", "response"}
  BY MessageShape, Zenon DEF DropMessage, HeadsInv, HeadsTypeOK, Pool
<1>2. /\ msg' \in [User -> Messages] /\ msg'[u] = Idle
      /\ \A w \in User : w # u => msg'[w] = msg[w]
  BY Zenon DEF DropMessage, HeadsInv, HeadsTypeOK, Messages
<1>3. \A q \in {"request", "response"} : \A i \in DOMAIN pool[q] :
        /\ pool[q][i] \in HeadId /\ pool[q][i] # h
        /\ \A w \in User : msg'[w].head # pool[q][i]
        /\ \A f \in Cleared(q) : field[pool[q][i]][f] = "default"
  <2>1. ASSUME NEW q \in {"request", "response"}, NEW i \in DOMAIN pool[q]
        PROVE  /\ pool[q][i] \in HeadId /\ Holders(pool[q][i]) = {}
               /\ \A f \in Cleared(q) : field[pool[q][i]][f] = "default"
    BY <1>1 DEF HeadsInv, HeadsTypeOK, PoolUnshared
  <2>2. QED
    BY <1>1, <1>2, <2>1, MessageHeadsAssumption DEF Holders, Idle
<1>4. \A x, y \in User : msg'[x].head = msg'[y].head /\ msg'[x] # Idle /\ x # y =>
        msg'[x].kind = "response" /\ msg'[y].kind = "response"
  <2>1. ASSUME NEW x \in User, NEW y \in User, msg'[x].head = msg'[y].head, msg'[x] # Idle, x # y
        PROVE  msg'[x].kind = "response" /\ msg'[y].kind = "response"
    <3>1. x # u
      BY <2>1, <1>2, Zenon
    <3>2. y # u
      <4>1. msg'[x].head \in HeadId
        BY <2>1, <3>1, <1>2, MessageShape, Zenon DEF HeadsInv
      <4>2. QED
        BY <2>1, <4>1, <1>2, MessageHeadsAssumption DEF Idle
    <3>3. QED
      BY <2>1, <3>1, <3>2, <1>2 DEF HeadsInv, PoolUnshared
  <2>2. QED
    BY <2>1, Zenon
<1>5. \A q, r \in {"request", "response"} : \A i \in DOMAIN pool[q], j \in DOMAIN pool[r] :
        pool[q][i] = pool[r][j] => q = r /\ i = j
  BY <1>1, Zenon DEF HeadsInv, PoolUnshared
<1>6. ASSUME NEW w \in User, msg'[w] # Idle
      PROVE  /\ w # u /\ msg'[w] = msg[w] /\ msg[w].head \in HeadId
             /\ \A f \in Written(msg[w].kind, msg[w].at) : field[msg[w].head][f] # "left"
             /\ Exclusive(u) => msg[w].head # h
  <2>1. w # u /\ msg'[w] = msg[w]
    BY <1>2, <1>6, Zenon
  <2>2. msg[w].head \in HeadId
    BY <1>6, <2>1, MessageShape, Zenon DEF HeadsInv
  <2>3. \A f \in Written(msg[w].kind, msg[w].at) : field[msg[w].head][f] # "left"
    BY <1>6, <2>1, Zenon DEF HeadsInv, Owned
  <2>4. QED
    BY <2>1, <2>2, <2>3, Zenon DEF Exclusive, Holders
<1> HIDE DEF h, p
<1>7. CASE Exclusive(u) /\ field' = [field EXCEPT ![h] = handOn(clear(p, field[h]))]
           /\ pool' = [pool EXCEPT ![p] = Append(pool[p], h)]
  <2> DEFINE x == handOn(clear(p, field[h]))
             n == Len(pool[p]) + 1
  <2>1. x \in [Field -> Tag] /\ \A f \in Cleared(p) : x[f] = "default"
    BY <1>1, ClearedDefault
  <2> HIDE DEF x
  <2>2. /\ field' \in [HeadId -> [Field -> Tag]] /\ field'[h] = x
        /\ \A g \in HeadId : g # h => field'[g] = field[g]
    BY <1>1, <1>7, <2>1, Zenon DEF HeadsInv, HeadsTypeOK, x
  <2>3. /\ Append(pool[p], h) \in Seq(HeadId) /\ DOMAIN Append(pool[p], h) = 1 .. n
        /\ DOMAIN pool[p] = 1 .. n - 1 /\ n \in Nat
        /\ \A i \in 1 .. n : Append(pool[p], h)[i] = IF i = n THEN h ELSE pool[p][i]
    BY <1>1
  <2>4. pool' \in [{"request", "response"} -> Seq(HeadId)] /\ DOMAIN pool' = {"request", "response"}
    BY <1>1, <1>7, <2>3, Zenon DEF HeadsInv, HeadsTypeOK
  <2>5. ASSUME NEW q \in {"request", "response"}, NEW i \in DOMAIN pool'[q]
        PROVE  \/ i \in DOMAIN pool[q] /\ pool'[q][i] = pool[q][i]
               \/ q = p /\ i = n /\ pool'[q][i] = h
    BY <1>1, <1>7, <2>3 DEF HeadsInv, HeadsTypeOK
  <2> HIDE DEF n
  <2>6. \A q, r \in DOMAIN pool' : \A i \in DOMAIN pool'[q], j \in DOMAIN pool'[r] :
            pool'[q][i] = pool'[r][j] => q = r /\ i = j
    BY <1>3, <1>5, <2>4, <2>5
  <2>7. \A q \in DOMAIN pool' : \A i \in DOMAIN pool'[q] :
            /\ {w \in User : msg'[w].head = pool'[q][i]} = {}
            /\ \A f \in Cleared(q) : field'[pool'[q][i]][f] = "default"
    <3>1. \A w \in User : msg'[w].head # h
      BY <1>1, <1>2, <1>6, <1>7, MessageHeadsAssumption DEF Idle
    <3>2. ASSUME NEW q \in {"request", "response"}, NEW i \in DOMAIN pool'[q]
          PROVE  /\ \A w \in User : msg'[w].head # pool'[q][i]
                 /\ \A f \in Cleared(q) : field'[pool'[q][i]][f] = "default"
      <4>1. CASE i \in DOMAIN pool[q] /\ pool'[q][i] = pool[q][i]
        BY <1>3, <2>2, <4>1
      <4>2. CASE q = p /\ pool'[q][i] = h
        BY <2>1, <2>2, <3>1, <4>2, Zenon
      <4>3. QED
        BY <2>5, <4>1, <4>2, Zenon
    <3>3. QED
      BY <2>4, <3>2
  <2>8. PoolUnshared'
    BY <1>4, <2>6, <2>7, Zenon DEF PoolUnshared, Holders
  <2>9. Owned'
    BY <1>6, <1>7, <2>2 DEF Owned
  <2>10. QED
    BY <1>2, <2>2, <2>4, <2>8, <2>9, Zenon DEF HeadsInv, HeadsTypeOK
<1>8. CASE Exclusive(u) /\ field' = [field EXCEPT ![h] = Default] /\ pool' = pool
  <2>1. /\ field' \in [HeadId -> [Field -> Tag]]
        /\ \A g \in HeadId : g # h => field'[g] = field[g]
    BY <1>1, <1>8, Zenon DEF HeadsInv, HeadsTypeOK, Default, Tag
  <2>2. \A q \in DOMAIN pool : \A i \in DOMAIN pool[q] :
            /\ {w \in User : msg'[w].head = pool[q][i]} = {}
            /\ \A f \in Cleared(q) : field'[pool[q][i]][f] = "default"
    BY <1>1, <1>3, <2>1
  <2>3. PoolUnshared'
    BY <1>1, <1>4, <1>5, <1>8, <2>2, SMT DEF PoolUnshared, Holders
  <2>4. Owned'
    BY <1>6, <1>8, <2>1 DEF Owned
  <2>5. QED
    BY <1>2, <1>8, <2>1, <2>3, <2>4, Zenon DEF HeadsInv, HeadsTypeOK
<1>9. CASE field' = field /\ pool' = pool
  <2>1. \A q \in DOMAIN pool : \A i \in DOMAIN pool[q] :
            /\ {w \in User : msg'[w].head = pool[q][i]} = {}
            /\ \A f \in Cleared(q) : field[pool[q][i]][f] = "default"
    BY <1>1, <1>3
  <2>2. PoolUnshared'
    BY <1>1, <1>4, <1>5, <1>9, <2>1, SMT DEF PoolUnshared, Holders
  <2>3. Owned'
    BY <1>6, <1>9, Zenon DEF Owned
  <2>4. QED
    BY <1>2, <1>9, <2>2, <2>3, Zenon DEF HeadsInv, HeadsTypeOK
<1>10. QED
  BY <1>7, <1>8, <1>9, Zenon DEF DropMessage, h, p

-----------------------------------------------------------------------------
(* Every operation on a message keeps the invariant. *)
LEMMA HeadsStep == HeadsInv /\ [HeadsNext]_mvars => HeadsInv'
<1> SUFFICES ASSUME HeadsInv, [HeadsNext]_mvars PROVE HeadsInv'
  BY Zenon
<1>1. ASSUME NEW u \in User, Decode(u) PROVE HeadsInv'
  <2>1. {"uri", "method", "version"} \in SUBSET Field /\ "server" \in Kind /\ "server" # "response"
    BY Zenon DEF Field, RequestField, Kind, Requests
  <2>2. get_message(u, "server", {"uri", "method", "version"}, "building")
    BY <1>1, Zenon DEF Decode
  <2>3. QED
    BY <2>1, <2>2, GetMessage, Zenon
<1>2. ASSUME NEW u \in User, NewRequest(u) PROVE HeadsInv'
  <2>1. {"method", "uri"} \in SUBSET Field /\ {"method"} \in SUBSET Field /\ "client" \in Kind
    BY Zenon DEF Field, RequestField, Kind, Requests
  <2>2. CASE get_message(u, "client", {"method", "uri"}, "building")
    BY <2>1, <2>2, GetMessage, Zenon
  <2>3. CASE get_message(u, "client", {"method"}, "failed")
    BY <2>1, <2>3, GetMessage, Zenon
  <2>4. QED
    BY <1>2, <2>2, <2>3, Zenon DEF NewRequest
<1>3. ASSUME NEW u \in User, Connect(u) PROVE HeadsInv'
  <2>1. {"method", "uri", "flags", "headers"} \in SUBSET Field /\ "ws" \in Kind
    BY Zenon DEF Field, RequestField, Kind, Requests
  <2>2. get_message(u, "ws", {"method", "uri", "flags", "headers"}, "building")
    BY <1>3, Zenon DEF Connect
  <2>3. QED
    BY <2>1, <2>2, GetMessage, Zenon
<1>4. ASSUME NEW u \in User, WithStatus(u) PROVE HeadsInv'
  <2>1. {"status"} \in SUBSET Field /\ "response" \in Kind
    BY Zenon DEF Field, ResponseField, Kind
  <2>2. get_message(u, "response", {"status"}, "building")
    BY <1>4, Zenon DEF WithStatus
  <2>3. QED
    BY <2>1, <2>2, GetMessage, Zenon
<1>5. ASSUME NEW u \in User, Decorate(u) PROVE HeadsInv'
  <2>1. msg[u] # Idle /\ msg[u].kind \in Kind /\ msg' = msg /\ Write(u, Optional(msg[u].kind))
    BY <1>5, MessageShape, Zenon DEF Decorate, HeadsInv
  <2>2. Optional(msg[u].kind) \in SUBSET Field
    BY <2>1, Zenon DEF Optional, Field, RequestField, ResponseField, Kind, Requests
  <2>3. QED
    BY <2>1, <2>2, Mark, Zenon
<1>6. ASSUME NEW u \in User, Deliver(u) PROVE HeadsInv'
  <2> DEFINE F == CASE msg[u].kind = "server" -> {"id", "io"}
                    [] msg[u].kind \in {"client", "response"} -> {"version"}
                    [] msg[u].kind = "ws" -> {}
  <2>1. /\ msg[u] # Idle /\ msg[u].kind \in Kind /\ msg[u].at = "building"
        /\ msg' = [msg EXCEPT ![u].at = "delivered"] /\ Write(u, F)
    BY <1>6, MessageShape, Zenon DEF Deliver, HeadsInv
  <2>2. F \in SUBSET Field
    BY <2>1, Zenon DEF Field, RequestField, ResponseField, Kind, Requests
  <2>3. Read(msg[u].kind) \subseteq Written(msg[u].kind, "building") \union F
    BY <2>1, Zenon DEF Read, Written, RequestField, ResponseField, Kind, Requests
  <2> HIDE DEF F
  <2>4. QED
    BY <2>1, <2>2, <2>3, Mark, Zenon
<1>7. ASSUME NEW u \in User, Extend(u) PROVE HeadsInv'
  <2>1. msg[u] # Idle /\ msg' = msg /\ Write(u, {"extensions"}) /\ {"extensions"} \in SUBSET Field
    BY <1>7, Zenon DEF Extend, Field, RequestField
  <2>2. QED
    BY <2>1, Mark, Zenon
<1>8. CASE UNCHANGED mvars
  BY <1>8 DEF mvars, HeadsInv, HeadsTypeOK, PoolUnshared, Owned, Holders
<1>9. QED
  BY <1>1, <1>2, <1>3, <1>4, <1>5, <1>6, <1>7, <1>8, ShareKeeps, DropKeeps, Zenon DEF HeadsNext

(* The invariant holds always: at first there is no message and no pooled    *)
(* head.                                                                     *)
LEMMA HeadsInvariant == HeadsSpec => []HeadsInv
<1>1. HeadsInit => HeadsInv
  <2> SUFFICES ASSUME HeadsInit PROVE HeadsInv
    BY Zenon
  <2>1. HeadsTypeOK
    BY DEF HeadsInit, HeadsTypeOK, Default, Tag, Messages
  <2>2. PoolUnshared
    BY DEF HeadsInit, PoolUnshared
  <2>3. Owned
    BY Zenon DEF HeadsInit, Owned
  <2>4. QED
    BY <2>1, <2>2, <2>3, Zenon DEF HeadsInv
<1>2. QED
  BY <1>1, HeadsStep, PTL DEF HeadsSpec

(* A head waits in a pool at most once, with no message of it and nothing of *)
(* the last one in the fields clear resets: for every number of messages and *)
(* every limit of the pools, whatever the order of the drops.                *)
THEOREM PoolNeverShared == HeadsSpec => []PoolUnshared
<1>1. HeadsInv => PoolUnshared
  BY Zenon DEF HeadsInv
<1>2. QED
  BY <1>1, HeadsInvariant, PTL

(* No message that a service sees or that goes on the wire has a field with  *)
(* what an earlier message left in the head, though clear leaves some alone. *)
THEOREM NothingLeftOver == HeadsSpec => []NoLeftovers
<1>1. HeadsInv => NoLeftovers
  <2> SUFFICES ASSUME HeadsInv, NEW u \in User, msg[u].at = "delivered"
               PROVE  \A f \in Read(msg[u].kind) : field[msg[u].head][f] # "left"
    BY Zenon DEF HeadsInv, NoLeftovers
  <2>1. msg[u] # Idle
    BY MessageShape, Zenon DEF HeadsInv
  <2>2. Written(msg[u].kind, msg[u].at) = Read(msg[u].kind)
    BY Zenon DEF Written
  <2>3. QED
    BY <2>1, <2>2, Zenon DEF HeadsInv, Owned
<1>2. QED
  BY <1>1, HeadsInvariant, PTL
=============================================================================
