----------------------------- MODULE MCRpcClnt -----------------------------
(* The RPC client for TLC; the bounds are in the configurations.           *)
EXTENDS RpcClnt
=============================================================================
