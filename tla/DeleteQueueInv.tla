--------------------------- MODULE DeleteQueueInv ----------------------------
(***************************************************************************)
(* The inductive invariant of DeleteQueue.  DwptInv says what holds of a   *)
(* DWPT d while the call c has it, or with c = Idle while no call has it.  *)
(* Its core is Applied: at every moment the private deletes of a DWPT      *)
(* account for exactly the nodes up to the head of its slice, for each     *)
(* document those that come after it in the serialization.                 *)
(***************************************************************************)
EXTENDS DeleteQueue

Numbered == {"tryLock", "apply", "finish"}          \* in an update that has its number
Buffering == {"indexing", "frozen"}                 \* a DWPT with documents in RAM

\* The list is ordered by sequence number, all of them given out.
QueueOrdered ==
    /\ \A p \in 1..tail : 0 < nodes[p].seqNo /\ nodes[p].seqNo < nextSeqNo
    /\ \A p, q \in 1..tail : p < q => nodes[p].seqNo < nodes[q].seqNo

\* The global slice is empty between steps, lies after the last cut, and the
\* cuts lie one after the other.
GlobalPlaces ==
    /\ globalSlice.head = globalSlice.tail
    /\ globalSlice.tail <= tail
    /\ LastCut.pos <= globalSlice.tail
    /\ \A c \in DOMAIN cuts : cuts[c].pos <= LastCut.pos

\* How many documents of d were finished before the call c.
Finished(d, c) == Len(docs[d]) - c.block

\* A call is at a point that fits the phase of its DWPT.
CallFits(d, c) ==
    /\ c.block <= Len(docs[d])
    /\ c.pc \notin Updating => c.block = 0
    /\ c.pc \in Updating \cup {"lock", "locked"} => phase[d] = "indexing"
    /\ c.pc = "prepare" <=> phase[d] = "frozen"
    /\ c.pc \in Numbered => 0 < c.seqNo /\ c.seqNo < nextSeqNo

\* Where the slice stands: empty unless the call has moved its tail, then up to
\* the call's own number, and up to the cut of a freeze.
SlicePlaces(d, c) == LET s == deleteSlice[d] IN
    /\ s.head <= s.tail /\ s.tail <= tail
    /\ c.pc \notin Numbered \cup {"prepare"} => s.head = s.tail
    /\ c.pc \in Numbered =>
          /\ \A p \in 1..tail : p <= s.tail <=> nodes[p].seqNo <= c.seqNo
          /\ ~c.applySlice => s.head = s.tail \/ Len(docs[d]) = 0
    /\ phase[d] \in {"frozen", "flushed"} => frozenAt[d] \in DOMAIN cuts
    /\ phase[d] = "frozen" => s.tail = cuts[frozenAt[d]].pos

\* Which documents have a number, and that the numbers are those of the past.
DocsNumbered(d, c) ==
    /\ phase[d] = "none" => Len(docs[d]) = 0
    /\ \A i \in 1..Len(docs[d]) :
          /\ docs[d][i].seqNo < nextSeqNo
          /\ phase[d] \in Buffering =>
                (docs[d][i].seqNo = 0 <=> \/ i \in deleteDocIDs[d]
                                          \/ c.pc = "add" /\ i > Finished(d, c))
          /\ c.pc \in Numbered => IF i > Finished(d, c) THEN docs[d][i].seqNo = c.seqNo
                                  ELSE docs[d][i].seqNo < c.seqNo

\* Failed documents and pending deletes concern documents before the call's own.
OnlyFinished(d, c) ==
    /\ \A i \in deleteDocIDs[d] : 0 < i /\ i <= Finished(d, c)
    /\ \A k \in Keys : pendingUpdates[d][k] <= Finished(d, c)

\* What is still to be applied comes after those documents.
Later(d, c) == phase[d] \in Buffering =>
    \A i \in 1..Len(docs[d]), p \in 1..tail :
        i <= Finished(d, c) /\ p > deleteSlice[d].head => docs[d][i].seqNo < nodes[p].seqNo

\* Some node up to h deletes document i of d.
HitUpto(d, i, h) == \E p \in 1..h : /\ nodes[p].key = docs[d][i].key
                                    /\ nodes[p].seqNo > docs[d][i].seqNo

\* The private deletes are the effect of the nodes up to the head of the slice.
Applied(d) == phase[d] \in Buffering =>
    \A i \in 1..Len(docs[d]) : docs[d][i].seqNo # 0 =>
        (pendingUpdates[d][docs[d][i].key] >= i <=> HitUpto(d, i, deleteSlice[d].head))

\* LiveDocsFollowSeqNos for one segment.
LiveDocs(d) == phase[d] = "flushed" =>
    liveDocs[d] = {i \in DOMAIN docs[d] : docs[d][i].seqNo # 0 /\ ~HitUpto(d, i, cuts[frozenAt[d]].pos)}

DwptInv(d, c) == /\ CallFits(d, c) /\ SlicePlaces(d, c) /\ DocsNumbered(d, c)
                 /\ OnlyFinished(d, c) /\ Later(d, c) /\ Applied(d) /\ LiveDocs(d)

\* A DWPT is in the hands of at most one call.
OneCall == /\ \A t, u \in Threads : call[t].dwpt = call[u].dwpt /\ call[t].dwpt # NoDwpt => t = u
           /\ \A t \in Threads : call[t].pc = "idle" => call[t].dwpt = NoDwpt

\* The calls DWPT d answers to: the one that has it, or none.
CallsOf(d) == IF Held(d) THEN {call[t] : t \in {u \in Threads : call[u].dwpt = d}} ELSE {Idle}

DwptsInv == \A d \in Dwpts : \A c \in CallsOf(d) : DwptInv(d, c)

IInv == /\ TypeOK /\ GlobalPlaces /\ PacketsPartitionDeletes
        /\ QueueOrdered /\ OneCall /\ DwptsInv
------------------------------------------------------------------------------
\* The link to SequencedUpdates: the updates have their numbers in common with
\* the list, the cuts and the documents.
OpsNumbered == \A o \in ops : /\ o \in Promise!Update
                              /\ 0 < o.seqNo /\ o.seqNo < nextSeqNo

\* The nodes are the deletes among the updates.
NodesAreDeletes ==
    /\ \A p \in 1..tail : \E o \in ops : o.del /\ o.key = nodes[p].key /\ o.seqNo = nodes[p].seqNo
    /\ \A o \in ops : o.del => \E p \in 1..tail : nodes[p].key = o.key /\ nodes[p].seqNo = o.seqNo

\* A cut is at the same place in the list and in the serialization.
CutsNumbered == \A c \in DOMAIN cuts :
    /\ cuts[c].seqNo < nextSeqNo
    /\ \A p \in 1..tail : p <= cuts[c].pos <=> nodes[p].seqNo <= cuts[c].seqNo

FrozenPhases == \A d \in Dwpts : frozenAt[d] # 0 <=> phase[d] \in {"frozen", "flushed"}

\* The updates of a DWPT are its documents, and the one that the call c has
\* numbered and not yet counted.
DocsAreOps(d, c) ==
    /\ \A i \in 1..Len(docs[d]) : docs[d][i].seqNo # 0 =>
          \E o \in ops : /\ o.dwpt = d /\ i \in o.docs
                         /\ o.key = docs[d][i].key /\ o.seqNo = docs[d][i].seqNo
    /\ \A o \in ops : o.dwpt = d => \A i \in o.docs :
          \/ /\ i \in 1..Len(docs[d])
             /\ o.key = docs[d][i].key /\ o.seqNo = docs[d][i].seqNo
          \/ /\ c.pc \in Numbered /\ c.block = 0 /\ i = Len(docs[d]) + 1
             /\ o.key = c.key /\ o.seqNo = c.seqNo
    /\ c.pc \in Numbered /\ c.block = 0 =>
          \E o \in ops : /\ o.dwpt = d /\ Len(docs[d]) + 1 \in o.docs
                         /\ o.key = c.key /\ o.seqNo = c.seqNo
    /\ c.pc = "add" => \A i \in 1..Len(docs[d]) : i > Finished(d, c) => docs[d][i].key = c.key

Linked == /\ OpsNumbered /\ NodesAreDeletes /\ CutsNumbered /\ FrozenPhases
          /\ \A d \in Dwpts : \A c \in CallsOf(d) : DocsAreOps(d, c)
==============================================================================
