---------------------------- MODULE MCFfiClient ----------------------------
(* The first request is idempotent, the others are not. *)
EXTENDS FfiClient

FirstOnly == {1}
=============================================================================
