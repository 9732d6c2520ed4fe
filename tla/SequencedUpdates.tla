-------------------------- MODULE SequencedUpdates --------------------------
(***************************************************************************)
(* What DocumentsWriterDeleteQueue promises to its users, without the      *)
(* linked list, the slices and the lock: every update has a sequence       *)
(* number, and the numbers are "the effective serialization of all         *)
(* operations" (DocumentsWriterDeleteQueue.h:116).  A segment that is      *)
(* sealed sees exactly the updates numbered before the seal; a packet of   *)
(* global deletes holds exactly the deletes numbered since the last one.   *)
(***************************************************************************)
EXTENDS Integers

CONSTANTS Dwpts,      \* the segments being written
          NoDwpt,     \* the "segment" of an update that only deletes
          Keys        \* delete terms

VARIABLES ops,        \* the updates numbered so far
          packets,    \* frozen global deletes, each with the last number it covers
          lastCut,    \* number of the last update some packet accounts for
          sealed,     \* segment -> number of the last update it sees; -1 before
          live        \* segment -> its live documents once written
vars == <<ops, packets, lastCut, sealed, live>>

Update == [seqNo : Nat, key : Keys, del : BOOLEAN,
           dwpt : Dwpts \cup {NoDwpt}, docs : SUBSET Nat]

Init == /\ ops = {}
        /\ packets = {}
        /\ lastCut = 0
        /\ sealed = [d \in Dwpts |-> -1]
        /\ live = [d \in Dwpts |-> {}]

\* An update takes effect: it gets a number above all others.
Serialize == \E op \in ops' :
    /\ op \in Update
    /\ \A o \in ops : o.seqNo < op.seqNo
    /\ lastCut < op.seqNo
    /\ op.dwpt # NoDwpt => sealed[op.dwpt] = -1
    /\ ops' = ops \cup {op}
    /\ UNCHANGED <<packets, lastCut, sealed, live>>

DeletedBetween(m, n) == {o.key : o \in {p \in ops : p.del /\ m < p.seqNo /\ p.seqNo <= n}}

\* The cut moves past every update numbered so far.
MoveCut == /\ lastCut' \in Nat
           /\ lastCut <= lastCut'
           /\ \A o \in ops : o.seqNo <= lastCut'

\* The deletes since the last cut become a packet, unless there are none.
Cut == LET keys == DeletedBetween(lastCut, lastCut') IN
       /\ MoveCut
       /\ packets' = IF keys = {} THEN packets
                     ELSE packets \cup {[keys |-> keys, upto |-> lastCut']}

Freeze == Cut /\ UNCHANGED <<ops, sealed, live>>

\* A segment is sealed together with the cut, so that the packet holds exactly
\* what the segments before it still have to see.
Seal(d) == /\ Cut
           /\ sealed[d] = -1
           /\ sealed' = [sealed EXCEPT ![d] = lastCut']
           /\ UNCHANGED <<ops, live>>

\* The global deletes since the last cut are thrown away (abort).
Drop == MoveCut /\ UNCHANGED <<ops, packets, sealed, live>>

\* The documents of d that no delete numbered after them, and within the seal,
\* has removed.
Survivors(d) ==
    UNION {{i \in o.docs : \A p \in ops : ~ /\ p.del /\ p.key = o.key
                                            /\ o.seqNo < p.seqNo
                                            /\ p.seqNo <= sealed[d]}
             : o \in {x \in ops : x.dwpt = d}}

Write(d) == /\ sealed[d] # -1
            /\ live' = [live EXCEPT ![d] = Survivors(d)]
            /\ UNCHANGED <<ops, packets, lastCut, sealed>>

Next == \/ Serialize \/ Freeze \/ Drop
        \/ \E d \in Dwpts : Seal(d) \/ Write(d)

Spec == Init /\ [][Next]_vars
=============================================================================
