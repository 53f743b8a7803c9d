---- MODULE MCPublication ----
(* Instances of Publication for TLC. *)
EXTENDS Publication

\* What is bounded together: the trouble is with the publisher or with the replica, and
\* takes the place of a change.
Bounded == (faults = 0 \/ troubles = 0) /\ changes + faults + troubles <= MaxChanges

BoundedNext ==
    \/ Next /\ UNCHANGED replicaVars /\ Bounded'
    \/ ReplicaStep /\ UNCHANGED vars /\ Bounded'

BoundedSpec == PublicationInit /\ [][BoundedNext]_allVars /\ Fairness
====
