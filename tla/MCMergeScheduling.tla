------------------------- MODULE MCMergeScheduling -------------------------
EXTENDS MergeScheduling

CONSTANTS t1, t2, t3

Work(sizes, merges, threads, calls, docs, launchFails, mergeFails) ==
  [sizes |-> sizes,
   max |-> [merges |-> merges, threads |-> threads],
   left |-> [k \in Calls \cup {"docs", "launchFails", "mergeFails"} |->
               CASE k \in Calls -> Cardinality({i \in DOMAIN calls : calls[i] = k})
                 [] k = "docs" -> docs
                 [] k = "launchFails" -> launchFails
                 [] k = "mergeFails" -> mergeFails]]

MCWorkloads == {
  Work(<<3, 3>>, 2, 1, <<"forceMerge", "commit">>, 1, 0, 1),
  Work(<<3, 3>>, 2, 1, <<"forceMerge", "deleteAll">>, 1, 0, 0),
  Work(<<3, 3, 3, 3>>, 2, 1, <<"forceMerge", "rollback">>, 0, 0, 0),
  Work(<<1, 1, 1, 1>>, 1, 1, <<"forceMerge">>, 0, 0, 1),
  Work(<<3, 3, 1, 1>>, 2, 1, <<"flush", "close">>, 1, 0, 1),
  Work(<<3, 3, 1, 1>>, 2, 1, <<"flush", "commit">>, 1, 1, 0),
  Work(<<3, 3, 1>>, 1, 1, <<"flush", "commit">>, 2, 0, 1),
  Work(<<3, 3>>, 2, 1, <<"deleteAll", "flush", "rollback">>, 2, 0, 0),
  Work(<<3, 3>>, 1, 1, <<"close", "rollback">>, 1, 0, 1)
}

\* One forced merge by four small segments
MCForced == {Work(<<1, 1, 1, 1>>, 1, 1, <<"forceMerge">>, 0, 0, 0)}

\* For three threads
MCThree == {Work(<<3, 3>>, 2, 1, <<"deleteAll", "flush", "rollback">>, 2, 0, 0)}
=============================================================================
