----------------------------- MODULE MCFfiPool -----------------------------
EXTENDS FfiPool, TLC

(* Requests are alike, and so are connections. *)
Sym == Permutations(Req) \union Permutations(Conn)

(* A client behind a proxy, one that requires HTTP/2, one without TLS *)
MCClients == {[proxied |-> TRUE, tls |-> TRUE, require_h2 |-> FALSE],
              [proxied |-> FALSE, tls |-> TRUE, require_h2 |-> TRUE],
              [proxied |-> FALSE, tls |-> FALSE, require_h2 |-> FALSE]}
=============================================================================
