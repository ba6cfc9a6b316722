-------------------------- MODULE MCConnectionPool --------------------------
(***************************************************************************)
(* ConnectionPool with more threads than connections, and more names for   *)
(* connections than the pool may open.                                     *)
(***************************************************************************)
EXTENDS ConnectionPool
=============================================================================
