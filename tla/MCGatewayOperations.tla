------------------------ MODULE MCGatewayOperations ------------------------
(* The processes of a kind differ only in their lease owner. *)
EXTENDS GatewayOperations, TLC

Interchangeable == Permutations(Orchestrators) \cup Permutations(Controllers)
=============================================================================
