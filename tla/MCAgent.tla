------------------------------ MODULE MCAgent ------------------------------
(* AgentTurns for model checking: identifiers are random, so the pages may   *)
(* as well draw them in order.                                               *)
EXTENDS AgentTurns

DrawnInOrder == \A a, b \in Attempts :
  a < b /\ launch[b] # NoLaunch => launch[a] # NoLaunch
=============================================================================
