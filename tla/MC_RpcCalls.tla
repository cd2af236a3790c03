---------------------------- MODULE MC_RpcCalls ----------------------------
(* TLC instances of RpcCalls.                                             *)
EXTENDS RpcCalls
=============================================================================
