-------------------------- MODULE MCRpcFallback --------------------------
(* RpcFallback for TLC. *)
EXTENDS RpcFallback
=============================================================================
