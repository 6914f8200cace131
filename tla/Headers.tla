------------------------------ MODULE Headers ------------------------------
(***************************************************************************)
(* The methods of HeaderMap and Value (geario-http/src/types/map.rs) as    *)
(* operators.  A map takes every name to None, which stands for a name the *)
(* hash map does not hold, to One value, or to Multi, a queue of them.     *)
(***************************************************************************)
EXTENDS Naturals, Sequences

CONSTANTS Name,       \* header names
          Val,        \* header values
          EmptyVal,   \* the empty one of them
          Space,      \* a text of blanks, which trim() makes empty
          Invalid     \* a text that is no header value

(* Value *)
None == [kind |-> "None", vals |-> <<>>]
One(v) == [kind |-> "One", vals |-> <<v>>]
Multi(s) == [kind |-> "Multi", vals |-> s]
ValueType == [kind : {"None", "One", "Multi"}, vals : Seq(Val)]

appendTo(x, v) == Multi(Append(x.vals, v))

(* Extend: append, for every value of s *)
extend(x, s) == IF s = <<>> THEN x ELSE Multi(x.vals \o s)

(* FromIterator<HeaderValue> *)
collect(s) == IF s = <<>> THEN One(EmptyVal) ELSE extend(One(Head(s)), Tail(s))

(* TryFrom<&str>: one piece between commas, behind those collected so far.   *)
(* Only empty pieces are passed over; one of blanks becomes an empty value.  *)
(* An invalid piece is dropped.                                              *)
trim(t) == IF t = Space THEN EmptyVal ELSE t
try_from(s, t) == IF t \in {EmptyVal, Invalid} THEN s ELSE Append(s, trim(t))

(* HeaderMap.  A lookup by a text that is no name finds nothing. *)
contains_key(m, k) == k \in Name /\ m[k].kind # "None"
get_all(m, k) == IF k \in Name THEN m[k].vals ELSE <<>>
insert(m, n, v) == [m EXCEPT ![n] = One(v)]
append(m, n, v) ==
    [m EXCEPT ![n] = IF m[n].kind = "None" THEN One(v) ELSE appendTo(m[n], v)]
remove(m, k) == IF k \in Name THEN [m EXCEPT ![k] = None] ELSE m
new == [n \in Name |-> None]

(* from_iter: the fold of one pair whose Value is x *)
foldPairOver(m, k, x) == IF k \in Name THEN [m EXCEPT ![k] = x] ELSE m
foldPair(m, k, x) ==
    IF k \notin Name THEN m
    ELSE [m EXCEPT ![k] = IF m[k].kind = "None" THEN x ELSE extend(m[k], x.vals)]
=============================================================================
