------------------------------ MODULE MultiMap ------------------------------
(***************************************************************************)
(* What a HeaderMap promises: every name has a list of values, in the      *)
(* order they were given.  There is no difference between a name that has  *)
(* one value and a name that may have several.                             *)
(***************************************************************************)
EXTENDS Naturals, Sequences

CONSTANTS Name, Val

VARIABLE entries  \* the values of each name

Init == entries = [n \in Name |-> <<>>]

Set(n, v) == entries' = [entries EXCEPT ![n] = <<v>>]

(* The first value is written in place. *)
Amend(n, v) == entries[n] # <<>> /\ entries' = [entries EXCEPT ![n] = [@ EXCEPT ![1] = v]]

Remove(n) == entries' = [entries EXCEPT ![n] = <<>>]

Clear == entries' = [n \in Name |-> <<>>]

(* One or more values are put behind those of n. *)
Add(n) ==
    /\ Len(entries'[n]) > Len(entries[n])
    /\ SubSeq(entries'[n], 1, Len(entries[n])) = entries[n]
    /\ entries' = [entries EXCEPT ![n] = entries'[n]]

Next ==
    \/ Clear
    \/ \E n \in Name :
        \/ Add(n) \/ Remove(n)
        \/ \E v \in Val : Set(n, v) \/ Amend(n, v)

Spec == Init /\ [][Next]_entries
=============================================================================
