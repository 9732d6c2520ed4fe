-------------------------- MODULE MCUpdatesAndMerges --------------------------
(* Instances of UpdatesAndMerges for TLC. *)
EXTENDS UpdatesAndMerges, TLC

Workload(flush, delete, update, tryUpdate, tryDelete, merge) ==
    [flush |-> flush, delete |-> delete, update |-> update, tryUpdate |-> tryUpdate,
     tryDelete |-> tryDelete, merge |-> merge]

\* One merge and one kind of update at a time, two merges without updates, and
\* updates without a merge.
MCWorkloads == {Workload(1, 1, 1, 0, 0, 1), Workload(1, 1, 0, 1, 1, 1),
                Workload(1, 1, 0, 0, 0, 2), Workload(1, 0, 2, 1, 0, 0)}
\* A packet of updates and two merges.
MCTwoMerges == {Workload(0, 0, 1, 0, 0, 2)}
\* Two packets of updates and a merge.
MCTwoUpdates == {Workload(0, 0, 2, 0, 0, 1)}
==============================================================================
