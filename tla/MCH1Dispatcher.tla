--------------------------- MODULE MCH1Dispatcher ---------------------------
(* Small instances of the HTTP/1 dispatcher. *)
EXTENDS H1Dispatcher

H(b, e, c) == [body |-> b, expect |-> e, close |-> c]
MCHeads == {H("none", FALSE, FALSE), H("none", FALSE, TRUE), H("sized", FALSE, FALSE),
            H("sized", TRUE, FALSE), H("stream", FALSE, FALSE)}
=============================================================================
