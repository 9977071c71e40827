---------------------------- MODULE MCRpcClient ----------------------------
(* Instances of RpcClient for TLC. *)
EXTENDS RpcClient, TLC

CONSTANTS a, b

CallSymmetry == Permutations(Calls)
============================================================================
