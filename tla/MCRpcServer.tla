---------------------------- MODULE MCRpcServer ----------------------------
(***************************************************************************)
(* RpcServer for TLC.  The connections are interchangeable in the safety   *)
(* properties; the run of the liveness properties does not use symmetry.   *)
(***************************************************************************)
EXTENDS RpcServer, TLC

Symmetry == Permutations(Conns)
=============================================================================
