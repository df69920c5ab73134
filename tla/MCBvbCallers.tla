---------------------------- MODULE MCBvbCallers -----------------------------
(* The instances of MCBvbProtocol with the account that calls.                *)
EXTENDS MCBvbProtocol, BvbCallers

\* No guard and no property reads the caller of an earlier step, so two states that
\* differ in nothing else need not both be explored.
WithoutCaller == vars
==============================================================================
