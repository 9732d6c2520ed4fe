-------------------------- MODULE MCNrtReplication --------------------------
EXTENDS NrtReplication

CONSTANTS n1, n2, n3

Work(replicas, flush, merge, commit, crash, start, bitFlip, startFails) ==
  [replicas |-> replicas,
   left |-> [flush |-> flush, merge |-> merge, commit |-> commit, crash |-> crash,
             start |-> start, bitFlip |-> bitFlip, startFails |-> startFails]]

MCWorkloads == {
  Work({n2, n3}, 2, 0, 0, 1, 0, 0, 0),  \* the primary dies, a replica is promoted
  Work({n2, n3}, 1, 1, 0, 1, 0, 0, 0),  \* ... around a merge, copied before it is visible
  Work({n2, n3}, 1, 0, 1, 2, 1, 0, 0),  \* ... around a commit, and somebody comes back
  Work({n2}, 1, 0, 0, 2, 2, 0, 0),      \* everybody dies
  Work({n2}, 2, 1, 0, 0, 0, 1, 0),      \* a copy fails
  Work({n2}, 2, 0, 0, 2, 1, 0, 1)       \* the start of one fails
}
=============================================================================
