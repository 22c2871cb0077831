---------------------------- MODULE MCSessionRecords ----------------------------
(***************************************************************************)
(* SessionRecords over a few interchangeable threads and session ids: no   *)
(* operation tells one thread, or one random session id, from another.     *)
(***************************************************************************)
EXTENDS SessionRecords, TLC

Interchangeable == Permutations(Threads) \cup Permutations(Sids)
=============================================================================
