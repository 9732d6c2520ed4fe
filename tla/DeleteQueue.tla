----------------------------- MODULE DeleteQueue -----------------------------
(***************************************************************************)
(* org.apache.lucene.index.DocumentsWriterDeleteQueue, with the part of    *)
(* DocumentsWriterPerThread (DWPT) that works on it.                       *)
(*                                                                         *)
(* The queue is a linked list of deletes of which only the tail is kept.   *)
(* Everyone who has to see the deletes holds a slice of it, a head (not    *)
(* included) and a tail: each DWPT one for the documents it buffers, the   *)
(* queue itself one for all segments flushed before.  Here the list is the *)
(* sequence nodes, a node is its position and the sentinel is position 0,  *)
(* so that tail is Len(nodes) and a slice is a pair of positions.          *)
(*                                                                         *)
(* One step is what the code does under one lock, or between two accesses  *)
(* to shared state.  add and updateSlice are synchronized on the queue;    *)
(* but who holds globalBufferLock reads the tail without that monitor, so  *)
(* that it may find a node linked behind the tail that is not yet the      *)
(* tail.  The number is drawn in one step with the move of the tail, as    *)
(* only who is in the monitor draws or reads one.                          *)
(* the global slice and buffer are under globalBufferLock, which indexing  *)
(* threads only try to take, so that a delete may stay unapplied after the *)
(* call that added it has returned.  A slice of a DWPT belongs to the      *)
(* thread that holds the DWPT's ThreadState.                               *)
(***************************************************************************)
EXTENDS BufferedUpdates, Sequences, FiniteSets

CONSTANTS Threads,       \* threads calling into the queue
          NoThread,      \* holder of the free globalBufferLock
          Dwpts,         \* DWPTs, each writes one segment
          NoDwpt,        \* stands for a call that concerns no DWPT
          Keys,          \* delete terms
          NoKey,         \* stands for a call without a term
          LockedCalls,   \* the calls that wait for the lock: freeze, clear, force
          MaxBlock,      \* documents in one updateDocuments call
          MaxSeqNo,      \* bound on the numbers given out
          MaxCuts,       \* bound on the calls of freezeGlobalBuffer and clear
          MaxFailed      \* bound on the documents of a DWPT whose indexing fails

ASSUME ThreadsAssumption == NoThread \notin Threads
ASSUME DwptsAssumption == NoDwpt \notin Dwpts
ASSUME KeysAssumption == NoKey \notin Keys
ASSUME CallsAssumption == LockedCalls \subseteq {"freeze", "clear", "force"}
ASSUME BoundsAssumption == /\ MaxBlock \in Nat /\ MaxSeqNo \in Nat
                           /\ MaxCuts \in Nat /\ MaxFailed \in Nat

Sentinel == 0
NullNode == -1

VARIABLES nodes,             \* the linked list: a delete term and its number
          tailNext,          \* tail->next: NoThread for nullptr, or the thread whose add
                             \* has linked its node there
          nextSeqNo,
          globalSlice,
          globalBufferedUpdates,
          globalBufferLock,  \* the thread that holds it, or NoThread
          phase,             \* DWPT -> none, indexing, frozen, flushed
          deleteSlice,       \* DWPT -> its slice
          pendingUpdates,    \* DWPT -> deletes for its own segment
          docs,              \* DWPT -> documents in RAM: key and number (0: none)
          deleteDocIDs,      \* DWPT -> documents whose indexing failed
          liveDocs,          \* DWPT -> live documents of the flushed segment
          call,              \* thread -> what it is doing
          ops,               \* history: every update, by sequence number
          cuts,              \* history: every freezeGlobalBuffer and clear
          frozenAt           \* history: DWPT -> the cut of its freeze, 0 before

queueVars == <<nodes, tailNext, nextSeqNo, ops>>
globalVars == <<globalSlice, globalBufferedUpdates, cuts>>
dwptVars == <<phase, deleteSlice, pendingUpdates, docs, deleteDocIDs, liveDocs, frozenAt>>
vars == <<nodes, tailNext, nextSeqNo, globalSlice, globalBufferedUpdates, globalBufferLock,
          phase, deleteSlice, pendingUpdates, docs, deleteDocIDs, liveDocs,
          call, ops, cuts, frozenAt>>

tail == Len(nodes)
Slice == [head : Nat, tail : Nat]
EmptySlice(at) == [head |-> at, tail |-> at]
SliceUpto(s, to) == [head |-> s.head, tail |-> to]
\* Mutant: the loop over the slice stops one node early.
SliceKeysShort(s) == {nodes[n].key : n \in (s.head + 1)..(s.tail - 1)}

\* The nodes DeleteSlice::apply visits: from the one after the head to the tail.
SliceKeys(s) == {nodes[n].key : n \in (s.head + 1)..s.tail}

Doc == [key : Keys, seqNo : Nat]
Cut == [pos : Nat, seqNo : Nat, keys : SUBSET Keys, dropped : BOOLEAN]
LastCut == IF cuts = <<>> THEN [pos |-> Sentinel, seqNo |-> 0, keys |-> {}, dropped |-> FALSE]
           ELSE cuts[Len(cuts)]

Call == [pc : {"idle", "add", "tryLock", "apply", "finish", "lock", "locked", "prepare"},
         dwpt : Dwpts \cup {NoDwpt},
         key : Keys \cup {NoKey},
         del : BOOLEAN,               \* is the key also a delete term?
         block : Nat,                 \* documents already counted in RAM
         seqNo : Nat,
         applySlice : BOOLEAN,
         what : {"freeze", "clear", "force", "none"}]
Updating == {"add", "tryLock", "apply", "finish"}   \* in an update or a delete

Idle == [pc |-> "idle", dwpt |-> NoDwpt, key |-> NoKey, del |-> FALSE,
         block |-> 0, seqNo |-> 0, applySlice |-> FALSE, what |-> "none"]

UpdateCall(d, k, del, n) ==
    [pc |-> "add", dwpt |-> d, key |-> k, del |-> del, block |-> n, seqNo |-> 0,
     applySlice |-> FALSE, what |-> "none"]
NumberedCall(c, pc, n, applies) ==
    [pc |-> pc, dwpt |-> c.dwpt, key |-> c.key, del |-> c.del, block |-> c.block, seqNo |-> n,
     applySlice |-> applies, what |-> c.what]
LockedCall(d, what) ==
    [pc |-> "lock", dwpt |-> d, key |-> NoKey, del |-> FALSE, block |-> 0, seqNo |-> 0,
     applySlice |-> FALSE, what |-> what]

InitWith(start) ==
    /\ nodes = <<>> /\ tailNext = NoThread
    /\ nextSeqNo = 1
    /\ globalSlice = EmptySlice(start)
    /\ globalBufferedUpdates = EmptyUpdates(Keys)
    /\ globalBufferLock = NoThread
    /\ phase = [d \in Dwpts |-> "none"]
    /\ deleteSlice = [d \in Dwpts |-> EmptySlice(Sentinel)]
    /\ pendingUpdates = [d \in Dwpts |-> EmptyUpdates(Keys)]
    /\ docs = [d \in Dwpts |-> <<>>]
    /\ deleteDocIDs = [d \in Dwpts |-> {}]
    /\ liveDocs = [d \in Dwpts |-> {}]
    /\ call = [t \in Threads |-> Idle]
    /\ ops = {}
    /\ cuts = <<>>
    /\ frozenAt = [d \in Dwpts |-> 0]

\* The initializer list of DocumentsWriterDeleteQueue.cpp as it is written: the
\* global slice is built from a tail that only the body assigns.
ConvertedInit == InitWith(NullNode)

\* The global slice starts at the sentinel, "taking the sentinel instance as
\* its initial head" (DocumentsWriterDeleteQueue.h:60).
Init == InitWith(Sentinel)
------------------------------------------------------------------------------
Goto(t, pc) ==
    call' = [call EXCEPT ![t] = NumberedCall(call[t], pc, call[t].seqNo, call[t].applySlice)]
Return(t) == call' = [call EXCEPT ![t] = Idle]

\* The call of t goes on after tryApplyGlobalSlice: an update finishes its
\* document, a plain delete returns.
AfterTryApply(t) == IF call[t].dwpt = NoDwpt THEN Return(t) ELSE Goto(t, "finish")

\* The bounds: a call that needs a number, or makes a cut, starts only if one is
\* left for it.
MoreUpdates == nextSeqNo + Cardinality({t \in Threads : call[t].pc = "add"}) <= MaxSeqNo
MoreCuts == Len(cuts) + Cardinality({t \in Threads : call[t].what \in {"freeze", "clear"}
                                                     /\ call[t].pc # "prepare"}) < MaxCuts

Held(d) == \E t \in Threads : call[t].dwpt = d
numDocsInRAM(d) == Len(docs[d])

\* DocumentsWriter::ensureInitialized and the DWPT constructor: a DWPT starts
\* with an empty slice at the current tail.
SliceOf(d) == IF phase[d] = "none" THEN EmptySlice(tail) ELSE deleteSlice[d]

\* n more documents with key k, not yet numbered.
WithBlock(s, n, k) ==
    s \o [i \in 1..n |-> [key |-> k, seqNo |-> 0]]

\* updateDocument (n = 0) and updateDocuments (n documents) up to the point
\* where all documents are indexed; a block is already counted in numDocsInRAM.
StartUpdate(t, d, k, del, n) ==
    /\ call[t].pc = "idle"
    /\ ~Held(d)
    /\ phase[d] \in {"none", "indexing"}
    /\ MoreUpdates
    /\ phase' = [phase EXCEPT ![d] = "indexing"]
    /\ deleteSlice' = [deleteSlice EXCEPT ![d] = SliceOf(d)]
    /\ docs' = [docs EXCEPT ![d] = WithBlock(docs[d], n, k)]
    /\ call' = [call EXCEPT ![t] = UpdateCall(d, k, del, n)]
    /\ UNCHANGED <<queueVars, globalVars, globalBufferLock, pendingUpdates,
                   deleteDocIDs, liveDocs, frozenAt>>

\* The n-th document fails in processDocument with a non-aborting exception:
\* all n keep their document number and are marked deleted; no delete term is
\* added and the slice stays as it was.
FailUpdate(t, d, k, n) ==
    /\ call[t].pc = "idle"
    /\ ~Held(d)
    /\ phase[d] \in {"none", "indexing"}
    /\ Cardinality(deleteDocIDs[d]) + n <= MaxFailed
    /\ phase' = [phase EXCEPT ![d] = "indexing"]
    /\ deleteSlice' = [deleteSlice EXCEPT ![d] = SliceOf(d)]
    /\ docs' = [docs EXCEPT ![d] = WithBlock(docs[d], n, k)]
    /\ deleteDocIDs' = [deleteDocIDs EXCEPT ![d] =
                           deleteDocIDs[d] \cup (numDocsInRAM(d) + 1)..(numDocsInRAM(d) + n)]
    /\ UNCHANGED <<queueVars, globalVars, globalBufferLock, pendingUpdates,
                   liveDocs, frozenAt, call>>

\* DocumentsWriter::deleteTerms: addDelete, first its add.
StartDelete(t, k) ==
    /\ call[t].pc = "idle"
    /\ MoreUpdates
    /\ call' = [call EXCEPT ![t] = UpdateCall(NoDwpt, k, TRUE, 0)]
    /\ UNCHANGED <<queueVars, globalVars, globalBufferLock, dwptVars>>

\* The document numbers (from 1) an update of t takes in its segment.
DocsOf(t) == LET d == call[t].dwpt IN
    IF d = NoDwpt THEN {}
    ELSE IF call[t].block = 0 THEN {numDocsInRAM(d) + 1}
    ELSE (numDocsInRAM(d) - call[t].block + 1)..numDocsInRAM(d)

\* Mutant: the number is read and never advanced.
NextSequenceNumberStuck(t) ==
    /\ nextSeqNo' = nextSeqNo
    /\ ops' = ops \cup {[seqNo |-> nextSeqNo, key |-> call[t].key, del |-> call[t].del,
                         dwpt |-> call[t].dwpt, docs |-> DocsOf(t)]}

\* getNextSequenceNumber, and the update it numbers.
NextSequenceNumber(t) ==
    /\ nextSeqNo' = nextSeqNo + 1
    /\ ops' = ops \cup {[seqNo |-> nextSeqNo, key |-> call[t].key, del |-> call[t].del,
                         dwpt |-> call[t].dwpt, docs |-> DocsOf(t)]}

\* The documents in ids have the number n.
Renumbered(s, ids, n) ==
    [i \in 1..Len(s) |-> [key |-> s[i].key, seqNo |-> IF i \in ids THEN n ELSE s[i].seqNo]]

\* The documents of a block get the number of their update (the code does not
\* store it; the number is returned to the caller).
NumberBlock(t) == LET d == call[t].dwpt IN
    docs' = IF call[t].block = 0 THEN docs
            ELSE [docs EXCEPT ![d] = Renumbered(docs[d], DocsOf(t), nextSeqNo)]

\* add(node) for a delete, add(node, slice) for an update: the node is linked
\* behind the tail ...
LinkNode(t) ==
    /\ call[t].pc = "add" /\ call[t].del
    /\ tailNext = NoThread            \* nobody else is in the monitor
    /\ tailNext' = t
    /\ UNCHANGED <<nodes, nextSeqNo, ops, globalVars, globalBufferLock, dwptVars, call>>

\* ... and then becomes the tail of the queue and of the caller's slice.
AddNode(t) == LET d == call[t].dwpt IN
    /\ call[t].pc = "add" /\ call[t].del
    /\ tailNext = t /\ tailNext' = NoThread
    /\ NextSequenceNumber(t)
    /\ nodes' = Append(nodes, [key |-> call[t].key, seqNo |-> nextSeqNo])
    /\ NumberBlock(t)
    /\ deleteSlice' = IF d = NoDwpt THEN deleteSlice
                      ELSE [deleteSlice EXCEPT ![d] = SliceUpto(deleteSlice[d], Len(nodes'))]
    /\ call' = [call EXCEPT ![t] = NumberedCall(call[t], "tryLock", nextSeqNo,
                                                d # NoDwpt /\ numDocsInRAM(d) # 0)]
    /\ UNCHANGED <<globalVars, globalBufferLock, phase, pendingUpdates, deleteDocIDs, liveDocs, frozenAt>>

\* updateSlice: the update has no delete term and only catches up with the queue.
UpdateSlice(t) == LET d == call[t].dwpt IN
    /\ call[t].pc = "add" /\ ~call[t].del
    /\ tailNext = NoThread
    /\ NextSequenceNumber(t)
    /\ NumberBlock(t)
    /\ deleteSlice' = [deleteSlice EXCEPT ![d] = SliceUpto(deleteSlice[d], tail)]
    /\ call' = [call EXCEPT ![t] = NumberedCall(call[t], "finish", nextSeqNo,
                   deleteSlice[d].tail # tail /\ numDocsInRAM(d) # 0)]
    /\ UNCHANGED <<nodes, tailNext, globalVars, globalBufferLock, phase, pendingUpdates,
                   deleteDocIDs, liveDocs, frozenAt>>

\* tryApplyGlobalSlice takes the lock only if that is possible at once.
TryLock(t) ==
    /\ call[t].pc = "tryLock"
    /\ IF globalBufferLock = NoThread
         THEN globalBufferLock' = t /\ Goto(t, "apply")
         ELSE UNCHANGED globalBufferLock /\ AfterTryApply(t)
    /\ UNCHANGED <<queueVars, globalVars, dwptVars>>

\* updateSliceNoSeqNo on the global slice and, if it moved, DeleteSlice::apply
\* on the global buffer, which resets the slice.
ApplyGlobalSlice ==
    IF globalSlice.tail # tail
      THEN /\ globalSlice' = EmptySlice(tail)
           /\ globalBufferedUpdates' =
                 AddTerms(globalBufferedUpdates, SliceKeys(SliceUpto(globalSlice, tail)),
                          MAX_INT)
      ELSE UNCHANGED <<globalSlice, globalBufferedUpdates>>

TryApply(t) ==
    /\ call[t].pc = "apply"
    /\ ApplyGlobalSlice
    /\ globalBufferLock' = NoThread
    /\ AfterTryApply(t)
    /\ UNCHANGED <<queueVars, cuts, dwptVars>>

\* Mutant: the documents of the block itself count.
docIDUptoOwn(t) == numDocsInRAM(call[t].dwpt)

\* The documents an update's own slice may delete: those before it.
docIDUpto(t) == numDocsInRAM(call[t].dwpt) - call[t].block

\* The rest of finishDocument and updateDocuments: the slice is applied to the
\* documents before this update, or reset; a single document is then counted.
FinishUpdate(t) ==
    LET d == call[t].dwpt
        slice == deleteSlice[d] IN
    /\ call[t].pc = "finish"
    /\ pendingUpdates' = IF call[t].applySlice
          THEN [pendingUpdates EXCEPT ![d] = AddTerms(pendingUpdates[d], SliceKeys(slice), docIDUpto(t))]
          ELSE pendingUpdates
    /\ deleteSlice' = [deleteSlice EXCEPT ![d] = EmptySlice(slice.tail)]
    /\ docs' = IF call[t].block = 0
          THEN [docs EXCEPT ![d] = Append(docs[d], [key |-> call[t].key, seqNo |-> call[t].seqNo])]
          ELSE docs
    /\ Return(t)
    /\ UNCHANGED <<queueVars, globalVars, globalBufferLock, phase, deleteDocIDs, liveDocs, frozenAt>>
------------------------------------------------------------------------------
\* The calls that wait for globalBufferLock: freezeGlobalBuffer for a DWPT
\* that is checked out for flushing (prepareFlush) or for no DWPT (addDeletes),
\* clear, and getBufferedUpdatesTermsSize (forceApplyGlobalSlice).
StartLocked(t, what, d) ==
    /\ call[t].pc = "idle"
    /\ what \in {"freeze", "clear"} => MoreCuts
    /\ d # NoDwpt => /\ what = "freeze"
                     /\ ~Held(d)
                     /\ phase[d] = "indexing"
                     /\ numDocsInRAM(d) > 0
    /\ call' = [call EXCEPT ![t] = LockedCall(d, what)]
    /\ UNCHANGED <<queueVars, globalVars, globalBufferLock, dwptVars>>

Lock(t) ==
    /\ call[t].pc = "lock"
    /\ globalBufferLock = NoThread
    /\ globalBufferLock' = t
    /\ Goto(t, "locked")
    /\ UNCHANGED <<queueVars, globalVars, dwptVars>>

NewCut(keys, dropped) ==
    cuts' = Append(cuts, [pos |-> tail, seqNo |-> nextSeqNo - 1, keys |-> keys, dropped |-> dropped])

\* freezeGlobalBuffer: the caller's slice and the global slice end at the same
\* node; what the global buffer holds leaves it as a packet.
FreezeGlobalBuffer(t) ==
    LET d == call[t].dwpt
        slice == SliceUpto(globalSlice, tail)
        buffered == IF globalSlice.tail # tail
              THEN AddTerms(globalBufferedUpdates, SliceKeys(slice), MAX_INT)
              ELSE globalBufferedUpdates IN
    /\ call[t].pc = "locked" /\ call[t].what = "freeze"
    /\ globalSlice' = IF globalSlice.tail # tail THEN EmptySlice(tail) ELSE globalSlice
    /\ globalBufferedUpdates' = IF AnyUpdates(buffered) THEN EmptyUpdates(Keys) ELSE buffered
    /\ NewCut({k \in Keys : buffered[k] # NoUpto}, FALSE)
    /\ globalBufferLock' = NoThread
    /\ IF d = NoDwpt
         THEN Return(t) /\ UNCHANGED <<deleteSlice, phase, frozenAt>>
         ELSE /\ deleteSlice' = [deleteSlice EXCEPT ![d] = SliceUpto(deleteSlice[d], tail)]
              /\ phase' = [phase EXCEPT ![d] = "frozen"]
              /\ frozenAt' = [frozenAt EXCEPT ![d] = Len(cuts')]
              /\ Goto(t, "prepare")
    /\ UNCHANGED <<queueVars, pendingUpdates, docs, deleteDocIDs, liveDocs>>

\* clear: what the global slice and buffer hold is forgotten.
Clear(t) ==
    /\ call[t].pc = "locked" /\ call[t].what = "clear"
    /\ globalSlice' = EmptySlice(tail)
    /\ globalBufferedUpdates' = EmptyUpdates(Keys)
    /\ NewCut({}, TRUE)
    /\ globalBufferLock' = NoThread
    /\ Return(t)
    /\ UNCHANGED <<queueVars, dwptVars>>

ForceApply(t) ==
    /\ call[t].pc = "locked" /\ call[t].what = "force"
    /\ ApplyGlobalSlice
    /\ globalBufferLock' = NoThread
    /\ Return(t)
    /\ UNCHANGED <<queueVars, cuts, dwptVars>>

\* The rest of prepareFlush, then flush: the slice is applied to all documents,
\* and the term deletes are resolved against the segment's postings.
\* Document i has the number i - 1 in the code.
PrepareAndFlush(t) ==
    LET d == call[t].dwpt
        slice == deleteSlice[d]
        pending == AddTerms(pendingUpdates[d], SliceKeys(slice), numDocsInRAM(d)) IN
    /\ call[t].pc = "prepare"
    /\ deleteSlice' = [deleteSlice EXCEPT ![d] = EmptySlice(slice.tail)]
    /\ liveDocs' = [liveDocs EXCEPT ![d] =
          {i \in DOMAIN docs[d] \ deleteDocIDs[d] : pending[docs[d][i].key] < i}]
    /\ pendingUpdates' = [pendingUpdates EXCEPT ![d] = EmptyUpdates(Keys)]
    /\ deleteDocIDs' = [deleteDocIDs EXCEPT ![d] = {}]
    /\ phase' = [phase EXCEPT ![d] = "flushed"]
    /\ Return(t)
    /\ UNCHANGED <<queueVars, globalVars, globalBufferLock, docs, frozenAt>>

\* skipSequenceNumbers, called while all indexing is blocked.
SkipSequenceNumbers ==
    /\ MoreUpdates
    /\ nextSeqNo' = nextSeqNo + 1
    /\ UNCHANGED <<nodes, tailNext, ops, globalVars, globalBufferLock, dwptVars, call>>
------------------------------------------------------------------------------
Step(t) ==
    \/ \E d \in Dwpts, k \in Keys, del \in BOOLEAN, n \in 0..MaxBlock : StartUpdate(t, d, k, del, n)
    \/ \E d \in Dwpts, k \in Keys, n \in 1..MaxBlock : FailUpdate(t, d, k, n)
    \/ \E k \in Keys : StartDelete(t, k)
    \/ LinkNode(t) \/ AddNode(t) \/ UpdateSlice(t) \/ TryLock(t) \/ TryApply(t) \/ FinishUpdate(t)
    \/ \E what \in LockedCalls, d \in Dwpts \cup {NoDwpt} : StartLocked(t, what, d)
    \/ Lock(t) \/ FreezeGlobalBuffer(t) \/ Clear(t) \/ ForceApply(t)
    \/ PrepareAndFlush(t)

Next == (\E t \in Threads : Step(t)) \/ SkipSequenceNumbers

Spec == Init /\ [][Next]_vars
------------------------------------------------------------------------------
QueueTypeOK == /\ nodes \in Seq([key : Keys, seqNo : Nat])
               /\ tailNext \in Threads \cup {NoThread}
               /\ nextSeqNo \in Nat \ {0}
GlobalTypeOK == /\ globalSlice \in Slice
                /\ globalBufferedUpdates \in [Keys -> Int]
                /\ globalBufferLock \in Threads \cup {NoThread}
                /\ cuts \in Seq(Cut)
DwptTypeOK == /\ phase \in [Dwpts -> {"none", "indexing", "frozen", "flushed"}]
              /\ deleteSlice \in [Dwpts -> Slice]
              /\ pendingUpdates \in [Dwpts -> [Keys -> Int]]
              /\ docs \in [Dwpts -> Seq(Doc)]
              /\ deleteDocIDs \in [Dwpts -> SUBSET Nat]
              /\ liveDocs \in [Dwpts -> SUBSET Nat]
              /\ frozenAt \in [Dwpts -> Nat]
CallTypeOK == /\ call \in [Threads -> Call]
              /\ \A t \in Threads : call[t].pc \in Updating => call[t].key \in Keys

\* The variables have their types: what the code declares them to hold.
TypeOK == QueueTypeOK /\ GlobalTypeOK /\ DwptTypeOK /\ CallTypeOK

\* Some delete between m (excluded) and n removes a document with this key.
DeletedIn(m, n, k) == \E p \in (m + 1)..n : nodes[p].key = k

\* Each flushed segment shows the effective serialization: one of its documents
\* is live iff it was indexed without failure and no delete of its key has both
\* a larger sequence number and a place in the queue before the freeze.  Two
\* threads replacing the same document at once leave exactly the later one.
LiveDocsFollowSeqNos == \A d \in Dwpts : phase[d] = "flushed" =>
    liveDocs[d] = {i \in DOMAIN docs[d] :
        /\ docs[d][i].seqNo # 0
        /\ \A p \in 1..cuts[frozenAt[d]].pos :
              nodes[p].key = docs[d][i].key => nodes[p].seqNo <= docs[d][i].seqNo}

CutStart(c) == IF c = 1 THEN Sentinel ELSE cuts[c - 1].pos

\* The packets frozen one after the other and the global buffer share the
\* deletes among them: each delete is in exactly one, unless clear dropped it,
\* whatever tryApplyGlobalSlice calls failed to get the lock.
PacketsPartitionDeletes ==
    /\ \A c \in DOMAIN cuts : ~cuts[c].dropped =>
          cuts[c].keys = {k \in Keys : DeletedIn(CutStart(c), cuts[c].pos, k)}
    /\ \A k \in Keys : globalBufferedUpdates[k] =
          IF DeletedIn(LastCut.pos, globalSlice.tail, k) THEN MAX_INT ELSE NoUpto

\* Mutant: a node that is linked and not yet the tail is overlooked.
anyChangesUptoTail == \/ AnyUpdates(globalBufferedUpdates)
                      \/ globalSlice.head # globalSlice.tail
                      \/ globalSlice.tail # tail

\* DocumentsWriterDeleteQueue::anyChanges
anyChanges == \/ AnyUpdates(globalBufferedUpdates)
              \/ globalSlice.head # globalSlice.tail
              \/ globalSlice.tail # tail
              \/ tailNext # NoThread

\* A delete is on its way into the list.
Adding == \E t \in Threads : call[t].pc = "add" /\ call[t].del /\ tailNext = t

\* Whoever gets the lock and asks anyChanges learns exactly whether some delete
\* has been neither frozen nor cleared, or is just being added behind the tail
\* (DocumentsWriterDeleteQueue.cpp:110-125); closing a writer relies on it.
AnyChangesExact ==
    globalBufferLock = NoThread => (anyChanges <=> LastCut.pos < tail \/ Adding)

------------------------------------------------------------------------------
\* The refinement mapping: the packets are the cuts that froze something, and a
\* DWPT is sealed by the cut of its own freeze.
FrozenCuts == {c \in DOMAIN cuts : cuts[c].keys # {}}

Promise == INSTANCE SequencedUpdates WITH
    packets <- {[keys |-> cuts[c].keys, upto |-> cuts[c].seqNo] : c \in FrozenCuts},
    lastCut <- LastCut.seqNo,
    sealed <- [d \in Dwpts |-> IF frozenAt[d] = 0 THEN -1 ELSE cuts[frozenAt[d]].seqNo],
    live <- liveDocs

\* The queue, its slices and its lock give what SequencedUpdates promises.
RefinesSequencedUpdates == Promise!Spec
==============================================================================
