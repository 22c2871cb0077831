--------------------------- MODULE MCFileDelivery ----------------------------
(* FileDelivery for TLC: requests and deliveries are interchangeable.       *)
EXTENDS FileDelivery, TLC

Interchangeable == Permutations(Requests) \cup Permutations(Sends)
=============================================================================
