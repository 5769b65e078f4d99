-------------------------- MODULE MCCaddyReconcile --------------------------
(* CaddyReconcile on a few domains and services.  Each kind of trouble has *)
(* a bound of its own; this bounds their sum as well.                       *)
EXTENDS CaddyReconcile

CONSTANT MaxTroubles

\* Bound: stops, faults and restarts together.
Troubles == stops + faults + restarts + boots

BoundedSpec == Init /\ [][Next /\ Troubles' <= MaxTroubles]_vars /\ Fairness
=============================================================================
