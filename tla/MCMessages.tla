----------------------------- MODULE MCMessages -----------------------------
(* How messages are put together: the header map, the pooled heads and the  *)
(* builders, one part in each behaviour.                                    *)
EXTENDS HeaderMap, MessageHeads, Builders

CONSTANTS v1, v2

VARIABLE part

(* Lists for a map to be made of, with names and pieces no header can have. *)
MCPairs ==
    {<< <<"n", <<EmptyVal>> >>, <<"n", <<v1, v2>> >> >>,
     << <<NoName, <<v1>> >>, <<"m", <<Space, Invalid, v2>> >> >>,
     << <<"m", <<Invalid>> >>, <<"n", <<v1>> >> >>}

(* A head of its own, and one with a header of two values *)
MCHeads ==
    {H!new, [H!new EXCEPT !["upgrade"] = H!Multi(<<"b", "a">>), !["cookie"] = H!One("b")]}
MCDefaults == H!insert(H!new, "accept-encoding", "b")
MCNoDefaults == H!new
MCExpired == [c \in Cookies |-> IF c = BadText THEN "bad gone" ELSE "c gone"]

MCInit ==
    /\ part \in {"map", "heads", "builders"}
    /\ HeaderInit /\ HeadsInit /\ BuilderInit
    /\ part # "builders" => b.kind = "response" /\ given = H!new

MCNext ==
    /\ UNCHANGED part
    /\ \/ part = "map" /\ HeaderNext /\ UNCHANGED <<mvars, bvars>>
       \/ part = "heads" /\ HeadsNext /\ UNCHANGED <<hvars, bvars>>
       \/ part = "builders" /\ BuilderNext /\ UNCHANGED <<hvars, mvars>>

MCSpec == MCInit /\ [][MCNext]_<<hvars, mvars, bvars, part>>

=============================================================================
