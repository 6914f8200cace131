-------------------------- MODULE MCConnectionPool --------------------------
(* Small instances of the connection pool. *)
EXTENDS ConnectionPool

=============================================================================
