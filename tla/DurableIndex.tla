---------------------------- MODULE DurableIndex ----------------------------
(***************************************************************************)
(* What commits promise, whatever happens: the durable index changes only  *)
(* when a commit is published, and then to exactly what was in memory when *)
(* the commit was prepared.  Abandoned commits, rollbacks and crashes      *)
(* leave it alone; a crash while a commit is under way may fall on either  *)
(* side of it.                                                             *)
(***************************************************************************)
CONSTANTS
  Contents,    \* all contents an index may have
  Empty,       \* the content of a new index, one of Contents
  None         \* not a content

VARIABLES
  head,        \* the content in memory, None without a writer
  prepared,    \* the content of the commit under way, or None
  durable      \* the content a crash leaves behind, None before the first commit

vars == <<head, prepared, durable>>

Init == head = None /\ prepared = None /\ durable \in Contents \cup {None}

Open ==
  /\ head = None
  /\ head' \in {Empty, durable} \ {None}
  /\ UNCHANGED <<prepared, durable>>

Change ==
  /\ head # None
  /\ head' \in Contents
  /\ UNCHANGED <<prepared, durable>>

Prepare ==
  /\ head # None /\ prepared = None
  /\ head' \in Contents
  /\ prepared' = head'
  /\ UNCHANGED durable

Abandon == prepared # None /\ prepared' = None /\ UNCHANGED <<head, durable>>

Publish ==
  /\ prepared # None
  /\ durable' = prepared
  /\ prepared' = None
  /\ UNCHANGED head

\* rollback()
Close ==
  /\ head # None
  /\ head' = None
  /\ prepared' = None
  /\ UNCHANGED durable

Crash ==
  /\ head # None
  /\ head' = None
  /\ prepared' = None
  /\ durable' \in {durable, prepared} /\ (prepared = None => durable' = durable)

Next == Open \/ Change \/ Prepare \/ Abandon \/ Publish \/ Close \/ Crash

Spec == Init /\ [][Next]_vars
==============================================================================
