------------------------------ MODULE MCRpcClient ------------------------------
(* Instances of RpcClient for TLC.                                          *)
EXTENDS RpcClient, TLC

(* Requests and buffers are interchangeable.                                *)
Symmetry == Permutations(Requests) \cup Permutations(Buffers)
=============================================================================
