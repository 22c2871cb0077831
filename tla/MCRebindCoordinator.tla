-------------------------- MODULE MCRebindCoordinator --------------------------
(***************************************************************************)
(* RebindCoordinator with interchangeable session ids: they are random.    *)
(***************************************************************************)
EXTENDS RebindCoordinator, TLC

Interchangeable == Permutations(Sids)
=============================================================================
