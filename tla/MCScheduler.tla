---------------------------- MODULE MCScheduler ----------------------------
(* OrganizeScheduler for model checking: lease tokens are interchangeable. *)
EXTENDS OrganizeScheduler, TLC

TokenSymmetry == Permutations(Tokens)
=============================================================================
