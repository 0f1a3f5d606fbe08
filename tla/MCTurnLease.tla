---------------------------- MODULE MCTurnLease -----------------------------
(* TLC instance of TurnLease: two turns, a lease of three units that the    *)
(* heartbeat renews every unit.                                             *)
EXTENDS TurnLease

CONSTANTS t1, t2

MCMaxRetries == [t \in Tasks |-> IF t = t1 THEN 1 ELSE 0]
MCWorkers == 1..MaxCrashes + 1
=============================================================================
