-------------------------- MODULE DeleteQueueProofs --------------------------
EXTENDS DeleteQueueInv, SequenceTheorems, TLAPS

\* Appending a block keeps the documents before it.
LEMMA WithBlockProperties ==
    ASSUME NEW s \in Seq(Doc), NEW n \in Nat, NEW k \in Keys
    PROVE  /\ WithBlock(s, n, k) \in Seq(Doc)
           /\ Len(WithBlock(s, n, k)) = Len(s) + n
           /\ \A i \in 1..(Len(s) + n) :
                 WithBlock(s, n, k)[i] = IF i <= Len(s) THEN s[i] ELSE [key |-> k, seqNo |-> 0]
<1> DEFINE block == [i \in 1..n |-> [key |-> k, seqNo |-> 0]]
<1>1. /\ block \in [1..n -> Doc]
      /\ \A i \in 1..n : block[i] = [key |-> k, seqNo |-> 0]
  BY DEF Doc
<1>2. block \in Seq(Doc) /\ Len(block) = n
  <2> HIDE DEF block
  <2>1. block \in Seq(Doc)
    BY <1>1, SeqDef
  <2> QED BY <1>1, <2>1, LenProperties
<1>3. WithBlock(s, n, k) = s \o block
  BY DEF WithBlock
<1> HIDE DEF block
<1>4. /\ s \o block \in Seq(Doc)
      /\ Len(s \o block) = Len(s) + n
      /\ \A i \in 1..(Len(s) + n) : (s \o block)[i] = IF i <= Len(s) THEN s[i] ELSE block[i - Len(s)]
  BY <1>2, ConcatProperties
<1> QED BY <1>1, <1>3, <1>4, LenProperties

\* Numbering a block leaves the other documents and all keys alone.
LEMMA RenumberedProperties ==
    ASSUME NEW s \in Seq(Doc), NEW ids, NEW n \in Nat
    PROVE  /\ Renumbered(s, ids, n) \in Seq(Doc)
           /\ Len(Renumbered(s, ids, n)) = Len(s)
           /\ \A i \in 1..Len(s) : /\ Renumbered(s, ids, n)[i].key = s[i].key
                                   /\ Renumbered(s, ids, n)[i].seqNo = IF i \in ids THEN n ELSE s[i].seqNo
<1> DEFINE r == Renumbered(s, ids, n)
<1>1. Len(s) \in Nat /\ \A i \in 1..Len(s) : s[i] \in Doc
  BY LenProperties, ElementOfSeq
<1>2. r = [i \in 1..Len(s) |-> [key |-> s[i].key, seqNo |-> IF i \in ids THEN n ELSE s[i].seqNo]]
  BY DEF Renumbered
<1> HIDE DEF r
<1>3. r \in [1..Len(s) -> Doc]
  BY <1>1, <1>2 DEF Doc
<1>4. r \in Seq(Doc)
  BY <1>1, <1>3, SeqDef
<1>5. Len(r) = Len(s)
  BY <1>1, <1>3, <1>4, LenProperties
<1> QED BY <1>1, <1>2, <1>4, <1>5 DEF r

\* The deletes a slice is applied to keep their type, and a term gets the larger
\* of its number and the new one.
LEMMA AddTermsProperties ==
    ASSUME NEW del \in [Keys -> Int], NEW ks, NEW upto \in Int
    PROVE  /\ AddTerms(del, ks, upto) \in [Keys -> Int]
           /\ \A k \in Keys : AddTerms(del, ks, upto)[k] =
                 IF k \in ks THEN AddTerm(del[k], upto) ELSE del[k]
  BY PutReplacesAssumption DEF AddTerms, AddTerm, NoUpto

LEMMA EmptyUpdatesType == EmptyUpdates(Keys) \in [Keys -> Int] /\ \A k \in Keys : EmptyUpdates(Keys)[k] = NoUpto
  BY DEF EmptyUpdates, NoUpto

LEMMA SliceType ==
    /\ \A n \in Nat : /\ EmptySlice(n) \in Slice
                      /\ EmptySlice(n).head = n /\ EmptySlice(n).tail = n
    /\ \A s \in Slice, n \in Nat : /\ SliceUpto(s, n) \in Slice
                                   /\ SliceUpto(s, n).head = s.head /\ SliceUpto(s, n).tail = n
    /\ \A s \in Slice : s.head \in Nat /\ s.tail \in Nat
  BY DEF EmptySlice, SliceUpto, Slice

LEMMA TailType == ASSUME QueueTypeOK PROVE tail \in Nat /\ DOMAIN nodes = 1..tail
  BY LenProperties DEF tail, QueueTypeOK

LEMMA NodesType ==
    ASSUME QueueTypeOK
    PROVE  /\ tail \in Nat
           /\ \A p \in 1..tail : nodes[p].key \in Keys /\ nodes[p].seqNo \in Nat
<1>1. nodes \in Seq([key : Keys, seqNo : Nat])
  BY DEF QueueTypeOK
<1>2. tail \in Nat /\ \A p \in 1..tail : nodes[p] \in [key : Keys, seqNo : Nat]
  BY <1>1, LenProperties, ElementOfSeq DEF tail
<1> QED BY <1>2

\* What a record in Call holds, and that the records the actions build are such.
LEMMA CallFields ==
    ASSUME NEW c \in Call
    PROVE  /\ c.dwpt \in Dwpts \cup {NoDwpt} /\ c.key \in Keys \cup {NoKey} /\ c.del \in BOOLEAN
           /\ c.block \in Nat /\ c.seqNo \in Nat /\ c.applySlice \in BOOLEAN
           /\ c.what \in {"freeze", "clear", "force", "none"}
           /\ c.pc \in {"idle", "add", "tryLock", "apply", "finish", "lock", "locked", "prepare"}
  BY DEF Call

LEMMA IdleType ==
    /\ Idle \in Call /\ Idle.pc = "idle" /\ Idle.dwpt = NoDwpt /\ Idle.block = 0
    /\ Idle.what = "none"
  BY DEF Idle, Call

LEMMA LockedCallType ==
    ASSUME NEW d \in Dwpts \cup {NoDwpt}, NEW what \in LockedCalls
    PROVE  /\ LockedCall(d, what) \in Call
           /\ LockedCall(d, what).pc = "lock" /\ LockedCall(d, what).dwpt = d
           /\ LockedCall(d, what).block = 0 /\ LockedCall(d, what).what = what
  BY CallsAssumption DEF LockedCall, Call

------------------------------------------------------------------------------
LEMMA TypeInit == Init => TypeOK
<1> SUFFICES ASSUME Init PROVE TypeOK
  OBVIOUS
<1>1. QueueTypeOK
  BY DEF Init, InitWith, QueueTypeOK
<1>2. GlobalTypeOK
  BY SliceType, EmptyUpdatesType DEF Init, InitWith, GlobalTypeOK, Sentinel
<1>3. DwptTypeOK
  BY SliceType, EmptyUpdatesType DEF Init, InitWith, DwptTypeOK, Sentinel
<1>4. CallTypeOK
  BY IdleType DEF Init, InitWith, CallTypeOK, Updating
<1> QED BY <1>1, <1>2, <1>3, <1>4 DEF TypeOK

\* Moving on and returning keep the type of the calls.
LEMMA GotoType ==
    ASSUME CallTypeOK, NEW t \in Threads,
           NEW pc \in {"tryLock", "apply", "finish", "locked", "prepare"}, Goto(t, pc),
           pc \in Updating => call[t].pc \in Updating
    PROVE  CallTypeOK'
<1>1. call[t] \in Call /\ call[t].seqNo \in Nat /\ call[t].applySlice \in BOOLEAN
  BY CallFields DEF CallTypeOK
<1>2. NumberedCall(call[t], pc, call[t].seqNo, call[t].applySlice) \in Call
  BY <1>1 DEF NumberedCall, Call
<1>3. /\ NumberedCall(call[t], pc, call[t].seqNo, call[t].applySlice).pc = pc
      /\ NumberedCall(call[t], pc, call[t].seqNo, call[t].applySlice).key = call[t].key
  BY <1>1 DEF NumberedCall
<1> QED BY <1>2, <1>3 DEF Goto, CallTypeOK

LEMMA ReturnType == ASSUME CallTypeOK, NEW t \in Threads, Return(t) PROVE CallTypeOK'
  BY IdleType DEF Return, CallTypeOK, Updating

LEMMA AfterTryApplyType ==
    ASSUME CallTypeOK, NEW t \in Threads, AfterTryApply(t), call[t].pc \in Updating PROVE CallTypeOK'
  BY GotoType, ReturnType DEF AfterTryApply

LEMMA ApplyGlobalSliceType ==
    ASSUME QueueTypeOK, GlobalTypeOK, ApplyGlobalSlice
    PROVE  /\ globalSlice' \in Slice
           /\ globalBufferedUpdates' \in [Keys -> Int]
<1>1. MAX_INT \in Int
  BY DEF MAX_INT
<1>2. AddTerms(globalBufferedUpdates, SliceKeys(SliceUpto(globalSlice, tail)), MAX_INT) \in [Keys -> Int]
  BY <1>1, AddTermsProperties DEF GlobalTypeOK
<1>3. EmptySlice(tail) \in Slice
  BY SliceType, TailType
<1> QED BY <1>2, <1>3 DEF ApplyGlobalSlice, GlobalTypeOK

LEMMA NewCutType ==
    ASSUME QueueTypeOK, GlobalTypeOK, NEW keys \in SUBSET Keys, NEW dropped \in BOOLEAN,
           NewCut(keys, dropped)
    PROVE  cuts' \in Seq(Cut)
<1>1. [pos |-> tail, seqNo |-> nextSeqNo - 1, keys |-> keys, dropped |-> dropped] \in Cut
  BY TailType DEF QueueTypeOK, Cut
<1> QED BY <1>1 DEF NewCut, GlobalTypeOK

LEMMA NumberBlockType ==
    ASSUME TypeOK, NEW t \in Threads, NumberBlock(t) PROVE docs' \in [Dwpts -> Seq(Doc)]
<1>1. ASSUME call[t].dwpt \in Dwpts
      PROVE  Renumbered(docs[call[t].dwpt], DocsOf(t), nextSeqNo) \in Seq(Doc)
  BY <1>1, RenumberedProperties DEF TypeOK, DwptTypeOK, QueueTypeOK
<1> QED BY <1>1 DEF NumberBlock, TypeOK, DwptTypeOK

LEMMA SliceOfType == ASSUME TypeOK, NEW d \in Dwpts PROVE SliceOf(d) \in Slice
  BY SliceType, TailType DEF SliceOf, TypeOK, DwptTypeOK

LEMMA TypeStep == ASSUME TypeOK, [Next]_vars PROVE TypeOK'
<1> QueueTypeOK /\ GlobalTypeOK /\ DwptTypeOK /\ CallTypeOK
  BY DEF TypeOK
<1> SUFFICES QueueTypeOK' /\ GlobalTypeOK' /\ DwptTypeOK' /\ CallTypeOK'
  BY DEF TypeOK
<1>1. ASSUME NEW t \in Threads, NEW d \in Dwpts, NEW k \in Keys, NEW del \in BOOLEAN,
             NEW n \in 0..MaxBlock, StartUpdate(t, d, k, del, n)
      PROVE  QueueTypeOK' /\ GlobalTypeOK' /\ DwptTypeOK' /\ CallTypeOK'
  <2>1. QueueTypeOK' /\ GlobalTypeOK'
    BY <1>1 DEF StartUpdate, QueueTypeOK, GlobalTypeOK, queueVars, globalVars
  <2>2. WithBlock(docs[d], n, k) \in Seq(Doc)
    <3>1. n \in Nat /\ docs[d] \in Seq(Doc)
      BY BoundsAssumption DEF DwptTypeOK
    <3> QED BY <3>1, WithBlockProperties
  <2>3. DwptTypeOK'
    BY <1>1, <2>2, SliceOfType DEF StartUpdate, DwptTypeOK
  <2>4. CallTypeOK'
    BY <1>1, BoundsAssumption DEF StartUpdate, UpdateCall, Call, CallTypeOK
  <2> QED BY <2>1, <2>3, <2>4
<1>2. ASSUME NEW t \in Threads, NEW d \in Dwpts, NEW k \in Keys,
             NEW n \in 1..MaxBlock, FailUpdate(t, d, k, n)
      PROVE  QueueTypeOK' /\ GlobalTypeOK' /\ DwptTypeOK' /\ CallTypeOK'
  <2>1. QueueTypeOK' /\ GlobalTypeOK' /\ CallTypeOK'
    BY <1>2 DEF FailUpdate, QueueTypeOK, GlobalTypeOK, CallTypeOK, queueVars, globalVars
  <2>2. WithBlock(docs[d], n, k) \in Seq(Doc)
    <3>1. n \in Nat /\ docs[d] \in Seq(Doc)
      BY BoundsAssumption DEF DwptTypeOK
    <3> QED BY <3>1, WithBlockProperties
  <2>3. (numDocsInRAM(d) + 1)..(numDocsInRAM(d) + n) \subseteq Nat
    BY BoundsAssumption, LenProperties DEF numDocsInRAM, DwptTypeOK
  <2>4. DwptTypeOK'
    BY <1>2, <2>2, <2>3, SliceOfType DEF FailUpdate, DwptTypeOK
  <2> QED BY <2>1, <2>4
<1>3. ASSUME NEW t \in Threads, NEW k \in Keys, StartDelete(t, k)
      PROVE  QueueTypeOK' /\ GlobalTypeOK' /\ DwptTypeOK' /\ CallTypeOK'
  <2>1. CallTypeOK'
    BY <1>3 DEF StartDelete, UpdateCall, Call, CallTypeOK
  <2> QED BY <1>3, <2>1
       DEF StartDelete, QueueTypeOK, GlobalTypeOK, DwptTypeOK, queueVars, globalVars, dwptVars
<1>4. ASSUME NEW t \in Threads, AddNode(t)
      PROVE  QueueTypeOK' /\ GlobalTypeOK' /\ DwptTypeOK' /\ CallTypeOK'
  <2>1. QueueTypeOK'
    BY <1>4 DEF AddNode, NextSequenceNumber, QueueTypeOK, CallTypeOK, Updating
  <2>2. Len(nodes') \in Nat
    BY <2>1, LenProperties DEF QueueTypeOK
  <2>3. DwptTypeOK'
    BY <1>4, <2>2, NumberBlockType, SliceType DEF AddNode, DwptTypeOK
  <2>4. CallTypeOK'
    BY <1>4 DEF AddNode, NumberedCall, Call, CallTypeOK, QueueTypeOK, Updating
  <2> QED BY <1>4, <2>1, <2>3, <2>4 DEF AddNode, GlobalTypeOK, globalVars
<1>5. ASSUME NEW t \in Threads, UpdateSlice(t)
      PROVE  QueueTypeOK' /\ GlobalTypeOK' /\ DwptTypeOK' /\ CallTypeOK'
  <2>1. QueueTypeOK' /\ GlobalTypeOK'
    BY <1>5 DEF UpdateSlice, NextSequenceNumber, QueueTypeOK, GlobalTypeOK, globalVars
  <2>3. DwptTypeOK'
    BY <1>5, TailType, NumberBlockType, SliceType DEF UpdateSlice, DwptTypeOK
  <2>4. CallTypeOK'
    BY <1>5 DEF UpdateSlice, NumberedCall, Call, CallTypeOK, QueueTypeOK, Updating
  <2> QED BY <2>1, <2>3, <2>4
<1>6. ASSUME NEW t \in Threads, TryLock(t)
      PROVE  QueueTypeOK' /\ GlobalTypeOK' /\ DwptTypeOK' /\ CallTypeOK'
  <2>1. CallTypeOK'
    BY <1>6, GotoType, AfterTryApplyType DEF TryLock, Updating
  <2> QED BY <1>6, <2>1
       DEF TryLock, QueueTypeOK, GlobalTypeOK, DwptTypeOK, queueVars, globalVars, dwptVars
<1>7. ASSUME NEW t \in Threads, TryApply(t)
      PROVE  QueueTypeOK' /\ GlobalTypeOK' /\ DwptTypeOK' /\ CallTypeOK'
  <2>1. CallTypeOK'
    BY <1>7, AfterTryApplyType DEF TryApply, Updating
  <2>2. globalSlice' \in Slice /\ globalBufferedUpdates' \in [Keys -> Int]
    BY <1>7, ApplyGlobalSliceType DEF TryApply
  <2> QED BY <1>7, <2>1, <2>2 DEF TryApply, QueueTypeOK, GlobalTypeOK, DwptTypeOK, queueVars, dwptVars
<1>8. ASSUME NEW t \in Threads, FinishUpdate(t)
      PROVE  QueueTypeOK' /\ GlobalTypeOK' /\ DwptTypeOK' /\ CallTypeOK'
  <2> DEFINE d == call[t].dwpt
  <2>1. QueueTypeOK' /\ GlobalTypeOK'
    BY <1>8 DEF FinishUpdate, QueueTypeOK, GlobalTypeOK, queueVars, globalVars
  <2>2. CallTypeOK'
    BY <1>8, ReturnType DEF FinishUpdate
  <2>3. call[t].seqNo \in Nat /\ call[t].key \in Keys /\ call[t].block \in Nat
    BY <1>8, CallFields DEF FinishUpdate, CallTypeOK, Updating
  <2>4. ASSUME d \in Dwpts PROVE docIDUpto(t) \in Int
    BY <2>3, <2>4, LenProperties DEF docIDUpto, numDocsInRAM, DwptTypeOK
  <2>5. pendingUpdates' \in [Dwpts -> [Keys -> Int]]
    <3>1. ASSUME d \in Dwpts
          PROVE  AddTerms(pendingUpdates[d], SliceKeys(deleteSlice[d]), docIDUpto(t)) \in [Keys -> Int]
      <4>1. pendingUpdates[d] \in [Keys -> Int] /\ docIDUpto(t) \in Int
        BY <2>4, <3>1 DEF DwptTypeOK
      <4> HIDE DEF d
      <4> QED BY <4>1, AddTermsProperties
    <3> QED BY <1>8, <3>1 DEF FinishUpdate, DwptTypeOK
  <2>6. docs' \in [Dwpts -> Seq(Doc)]
    <3>1. [key |-> call[t].key, seqNo |-> call[t].seqNo] \in Doc
      BY <2>3 DEF Doc
    <3>2. d \in Dwpts => Append(docs[d], [key |-> call[t].key, seqNo |-> call[t].seqNo]) \in Seq(Doc)
      BY <3>1 DEF DwptTypeOK
    <3> QED BY <1>8, <3>2 DEF FinishUpdate, DwptTypeOK
  <2>7. deleteSlice' \in [Dwpts -> Slice]
    BY <1>8, SliceType DEF FinishUpdate, DwptTypeOK
  <2> QED BY <1>8, <2>1, <2>2, <2>5, <2>6, <2>7 DEF FinishUpdate, DwptTypeOK
<1>9. ASSUME NEW t \in Threads, NEW what \in LockedCalls, NEW d \in Dwpts \cup {NoDwpt},
             StartLocked(t, what, d)
      PROVE  QueueTypeOK' /\ GlobalTypeOK' /\ DwptTypeOK' /\ CallTypeOK'
  <2>1. CallTypeOK'
    BY <1>9, LockedCallType DEF StartLocked, CallTypeOK, Updating
  <2> QED BY <1>9, <2>1
       DEF StartLocked, QueueTypeOK, GlobalTypeOK, DwptTypeOK, queueVars, globalVars, dwptVars
<1>10. ASSUME NEW t \in Threads, Lock(t)
       PROVE  QueueTypeOK' /\ GlobalTypeOK' /\ DwptTypeOK' /\ CallTypeOK'
  <2>1. CallTypeOK'
    BY <1>10, GotoType DEF Lock, Updating
  <2> QED BY <1>10, <2>1
       DEF Lock, QueueTypeOK, GlobalTypeOK, DwptTypeOK, queueVars, globalVars, dwptVars
<1>11. ASSUME NEW t \in Threads, FreezeGlobalBuffer(t)
       PROVE  QueueTypeOK' /\ GlobalTypeOK' /\ DwptTypeOK' /\ CallTypeOK'
  <2> DEFINE buffered == IF globalSlice.tail # tail
                THEN AddTerms(globalBufferedUpdates, SliceKeys(SliceUpto(globalSlice, tail)),
                              MAX_INT)
                ELSE globalBufferedUpdates
  <2>1. buffered \in [Keys -> Int]
    BY AddTermsProperties DEF MAX_INT, GlobalTypeOK
  <2>2. /\ globalBufferedUpdates' = IF AnyUpdates(buffered) THEN EmptyUpdates(Keys) ELSE buffered
        /\ NewCut({k \in Keys : buffered[k] # NoUpto}, FALSE)
        /\ globalBufferLock' = NoThread
        /\ globalSlice' = IF globalSlice.tail # tail THEN EmptySlice(tail) ELSE globalSlice
    BY <1>11 DEF FreezeGlobalBuffer
  <2> HIDE DEF buffered
  <2>3. cuts' \in Seq(Cut)
    BY <2>2, NewCutType
  <2>4. GlobalTypeOK'
    BY <2>1, <2>2, <2>3, EmptyUpdatesType, SliceType, TailType DEF GlobalTypeOK
  <2>5. CallTypeOK'
    BY <1>11, GotoType, ReturnType DEF FreezeGlobalBuffer, Updating
  <2>6. DwptTypeOK'
    <3>1. Len(cuts') \in Nat
      BY <2>3, LenProperties
    <3>2. deleteSlice' \in [Dwpts -> Slice]
      <4>1. call[t].dwpt \in Dwpts => SliceUpto(deleteSlice[call[t].dwpt], tail) \in Slice
        BY SliceType, TailType DEF DwptTypeOK
      <4> QED BY <1>11, <4>1 DEF FreezeGlobalBuffer, DwptTypeOK
    <3>3. frozenAt' \in [Dwpts -> Nat] /\ phase' \in [Dwpts -> {"none", "indexing", "frozen", "flushed"}]
      BY <1>11, <3>1 DEF FreezeGlobalBuffer, DwptTypeOK
    <3> QED BY <1>11, <3>2, <3>3 DEF FreezeGlobalBuffer, DwptTypeOK
  <2>7. QueueTypeOK'
    BY <1>11 DEF FreezeGlobalBuffer, QueueTypeOK, queueVars
  <2> QED BY <2>4, <2>5, <2>6, <2>7
<1>12. ASSUME NEW t \in Threads, Clear(t)
       PROVE  QueueTypeOK' /\ GlobalTypeOK' /\ DwptTypeOK' /\ CallTypeOK'
  <2>1. cuts' \in Seq(Cut)
    BY <1>12, NewCutType DEF Clear
  <2>2. CallTypeOK'
    BY <1>12, ReturnType DEF Clear
  <2>3. GlobalTypeOK'
    BY <1>12, <2>1, EmptyUpdatesType, SliceType, TailType DEF Clear, GlobalTypeOK
  <2> QED BY <1>12, <2>2, <2>3 DEF Clear, QueueTypeOK, DwptTypeOK, queueVars, dwptVars
<1>13. ASSUME NEW t \in Threads, ForceApply(t)
       PROVE  QueueTypeOK' /\ GlobalTypeOK' /\ DwptTypeOK' /\ CallTypeOK'
  <2>1. CallTypeOK'
    BY <1>13, ReturnType DEF ForceApply
  <2>2. globalSlice' \in Slice /\ globalBufferedUpdates' \in [Keys -> Int]
    BY <1>13, ApplyGlobalSliceType DEF ForceApply
  <2> QED BY <1>13, <2>1, <2>2 DEF ForceApply, QueueTypeOK, GlobalTypeOK, DwptTypeOK, queueVars, dwptVars
<1>14. ASSUME NEW t \in Threads, PrepareAndFlush(t)
       PROVE  QueueTypeOK' /\ GlobalTypeOK' /\ DwptTypeOK' /\ CallTypeOK'
  <2> DEFINE d == call[t].dwpt
             pending == AddTerms(pendingUpdates[d], SliceKeys(deleteSlice[d]), numDocsInRAM(d))
             live == {i \in DOMAIN docs[d] \ deleteDocIDs[d] : pending[docs[d][i].key] < i}
  <2>1. QueueTypeOK' /\ GlobalTypeOK'
    BY <1>14 DEF PrepareAndFlush, QueueTypeOK, GlobalTypeOK, queueVars, globalVars
  <2>2. CallTypeOK'
    BY <1>14, ReturnType DEF PrepareAndFlush
  <2>3. liveDocs' = [liveDocs EXCEPT ![d] = live]
    BY <1>14 DEF PrepareAndFlush
  <2>4. ASSUME d \in Dwpts PROVE live \subseteq Nat
    BY <2>4, LenProperties DEF DwptTypeOK
  <2> HIDE DEF live
  <2>5. liveDocs' \in [Dwpts -> SUBSET Nat]
    BY <2>3, <2>4 DEF DwptTypeOK
  <2>6. deleteSlice' \in [Dwpts -> Slice]
    BY <1>14, SliceType DEF PrepareAndFlush, DwptTypeOK
  <2>7. pendingUpdates' \in [Dwpts -> [Keys -> Int]]
    BY <1>14, EmptyUpdatesType DEF PrepareAndFlush, DwptTypeOK
  <2>8. DwptTypeOK'
    BY <1>14, <2>5, <2>6, <2>7 DEF PrepareAndFlush, DwptTypeOK
  <2> QED BY <2>1, <2>2, <2>8
<1>17. ASSUME NEW t \in Threads, LinkNode(t)
       PROVE  QueueTypeOK' /\ GlobalTypeOK' /\ DwptTypeOK' /\ CallTypeOK'
  BY <1>17 DEF LinkNode, QueueTypeOK, GlobalTypeOK, DwptTypeOK, CallTypeOK, globalVars, dwptVars
<1>15. ASSUME SkipSequenceNumbers
       PROVE  QueueTypeOK' /\ GlobalTypeOK' /\ DwptTypeOK' /\ CallTypeOK'
  BY <1>15 DEF SkipSequenceNumbers, QueueTypeOK, GlobalTypeOK, DwptTypeOK, CallTypeOK, globalVars, dwptVars
<1>16. ASSUME UNCHANGED vars
       PROVE  QueueTypeOK' /\ GlobalTypeOK' /\ DwptTypeOK' /\ CallTypeOK'
  BY <1>16 DEF vars, QueueTypeOK, GlobalTypeOK, DwptTypeOK, CallTypeOK
<1> QED
  BY <1>1, <1>2, <1>3, <1>4, <1>5, <1>6, <1>7, <1>8, <1>9, <1>10, <1>11, <1>12, <1>13, <1>14,
     <1>15, <1>16, <1>17 DEF Next, Step

\* Whatever the bounds and however a map store was converted, each variable of
\* the queue, its global part, its DWPTs and the calls keeps its type.
THEOREM Typing == Spec => []TypeOK
  BY TypeInit, TypeStep, PTL DEF Spec

------------------------------------------------------------------------------

(***************************************************************************)
(* No delete is lost or frozen twice, and anyChanges is exact: the part of *)
(* the inductive invariant that concerns the global slice and buffer is    *)
(* inductive on its own.                                                   *)
(***************************************************************************)

PacketInv == TypeOK /\ GlobalPlaces /\ PacketsPartitionDeletes

\* A stretch of the queue split in two: the keys of the second part are those
\* of the slice between.
LEMMA DeletedInSplit ==
    ASSUME QueueTypeOK, NEW a \in Nat, NEW b \in Nat, NEW c \in Nat, a <= b, b <= c, NEW k
    PROVE  DeletedIn(a, c, k) <=> DeletedIn(a, b, k) \/ k \in SliceKeys([head |-> b, tail |-> c])
  BY DEF DeletedIn, SliceKeys

LEMMA DeletedInEmpty == ASSUME NEW a \in Nat, NEW k PROVE ~DeletedIn(a, a, k)
  BY DEF DeletedIn

\* Appending a node does not change what lies before it.
LEMMA DeletedInStable ==
    ASSUME QueueTypeOK, NEW e \in [key : Keys, seqNo : Nat], nodes' = Append(nodes, e),
           NEW a \in Nat, NEW b \in Nat, b <= tail, NEW k
    PROVE  DeletedIn(a, b, k)' <=> DeletedIn(a, b, k)
  BY DEF DeletedIn, QueueTypeOK, tail

LEMMA LastCutType == ASSUME GlobalTypeOK PROVE LastCut \in Cut
<1>1. CASE cuts = <<>>
  BY <1>1 DEF LastCut, Cut, Sentinel
<1>2. CASE cuts # <<>>
  BY <1>2, EmptySeq, ElementOfSeq, LenProperties DEF LastCut, GlobalTypeOK
<1> QED BY <1>1, <1>2

LEMMA CutsType ==
    ASSUME GlobalTypeOK
    PROVE  /\ Len(cuts) \in Nat /\ DOMAIN cuts = 1..Len(cuts)
           /\ \A c \in DOMAIN cuts : cuts[c].pos \in Nat
<1>1. cuts \in Seq(Cut)
  BY DEF GlobalTypeOK
<1>2. Len(cuts) \in Nat /\ DOMAIN cuts = 1..Len(cuts) /\ \A c \in 1..Len(cuts) : cuts[c] \in Cut
  BY <1>1, LenProperties, ElementOfSeq
<1> QED BY <1>2 DEF Cut

\* What NewCut does to the history of cuts.
LEMMA NewCutProperties ==
    ASSUME TypeOK, NEW keys \in SUBSET Keys, NEW dropped \in BOOLEAN, NewCut(keys, dropped)
    PROVE  /\ Len(cuts') = Len(cuts) + 1 /\ DOMAIN cuts' = 1..(Len(cuts) + 1) /\ DOMAIN cuts = 1..Len(cuts)
           /\ \A c \in DOMAIN cuts : cuts'[c] = cuts[c]
           /\ cuts'[Len(cuts) + 1].pos = tail /\ cuts'[Len(cuts) + 1].keys = keys
           /\ cuts'[Len(cuts) + 1].dropped = dropped
           /\ LastCut' = cuts'[Len(cuts) + 1]
           /\ \A n \in Nat : n = Len(cuts) + 1 => CutStart(n)' = LastCut.pos
           /\ \A c \in DOMAIN cuts : CutStart(c)' = CutStart(c)
<1> DEFINE cut == [pos |-> tail, seqNo |-> nextSeqNo - 1, keys |-> keys, dropped |-> dropped]
<1>1. cut \in Cut
  BY TailType DEF TypeOK, QueueTypeOK, Cut
<1>2. cuts' = Append(cuts, cut) /\ cuts \in Seq(Cut) /\ Len(cuts) \in Nat
  BY LenProperties DEF NewCut, TypeOK, GlobalTypeOK
<1>3. cut.pos = tail /\ cut.keys = keys /\ cut.dropped = dropped
  OBVIOUS
<1> HIDE DEF cut
<1>4. /\ Len(cuts') = Len(cuts) + 1 /\ DOMAIN cuts' = 1..(Len(cuts) + 1) /\ DOMAIN cuts = 1..Len(cuts)
      /\ \A c \in 1..Len(cuts) : cuts'[c] = cuts[c]
      /\ cuts'[Len(cuts) + 1] = cut
  BY <1>1, <1>2
<1>5. cuts' # <<>>
  BY <1>2, <1>4, EmptySeq
<1>6. LastCut' = cuts'[Len(cuts) + 1]
  BY <1>2, <1>4, <1>5 DEF LastCut
<1>7. ASSUME NEW n \in Nat, n = Len(cuts) + 1 PROVE CutStart(n)' = LastCut.pos
  <2>1. CASE Len(cuts) = 0
    <3>1. cuts = <<>>
      BY <1>2, <2>1, EmptySeq
    <3> QED BY <1>7, <2>1, <3>1 DEF CutStart, LastCut
  <2>2. CASE Len(cuts) # 0
    <3>1. cuts # <<>>
      BY <2>2, EmptySeq
    <3>2. n # 1 /\ n - 1 = Len(cuts) /\ Len(cuts) \in 1..Len(cuts)
      BY <1>2, <1>7, <2>2
    <3>3. cuts'[Len(cuts)] = cuts[Len(cuts)]
      BY <1>4, <3>2
    <3> QED BY <3>1, <3>2, <3>3 DEF CutStart, LastCut
  <2> QED BY <2>1, <2>2
<1>8. \A c \in DOMAIN cuts : CutStart(c)' = CutStart(c)
  BY <1>2, <1>4 DEF CutStart
<1> QED BY <1>3, <1>4, <1>6, <1>7, <1>8

\* The buffer that is frozen holds exactly the deletes since the last cut.
LEMMA Buffered ==
    ASSUME PutReplaces = TRUE, PacketInv, NEW buffered,
           buffered = IF globalSlice.tail # tail
              THEN AddTerms(globalBufferedUpdates, SliceKeys(SliceUpto(globalSlice, tail)), MAX_INT)
              ELSE globalBufferedUpdates
    PROVE  /\ buffered \in [Keys -> Int]
           /\ \A k \in Keys : buffered[k] = IF DeletedIn(LastCut.pos, tail, k) THEN MAX_INT ELSE NoUpto
<1> USE DEF PacketInv
<1>1. /\ QueueTypeOK /\ GlobalTypeOK /\ tail \in Nat /\ LastCut.pos \in Nat
      /\ globalSlice.head \in Nat /\ globalSlice.tail \in Nat /\ globalSlice \in Slice
      /\ globalSlice.head = globalSlice.tail
      /\ LastCut.pos <= globalSlice.tail /\ globalSlice.tail <= tail
  BY TailType, LastCutType, SliceType DEF TypeOK, GlobalTypeOK, GlobalPlaces, Cut
<1>2. /\ globalBufferedUpdates \in [Keys -> Int]
      /\ \A k \in Keys : globalBufferedUpdates[k] =
            IF DeletedIn(LastCut.pos, globalSlice.tail, k) THEN MAX_INT ELSE NoUpto
  BY DEF PacketsPartitionDeletes, TypeOK, GlobalTypeOK
<1>3. CASE globalSlice.tail = tail
  BY <1>2, <1>3
<1>4. CASE globalSlice.tail # tail
  <2> DEFINE ks == SliceKeys(SliceUpto(globalSlice, tail))
  <2>1. MAX_INT \in Int
    BY DEF MAX_INT
  <2>2. /\ buffered \in [Keys -> Int]
        /\ \A k \in Keys : buffered[k] =
              IF k \in ks THEN AddTerm(globalBufferedUpdates[k], MAX_INT) ELSE globalBufferedUpdates[k]
    <3> HIDE DEF ks
    <3>1. buffered = AddTerms(globalBufferedUpdates, ks, MAX_INT)
      BY <1>4 DEF ks
    <3> QED BY <1>2, <2>1, <3>1, AddTermsProperties
  <2>3. \A k \in Keys : k \in ks => AddTerm(globalBufferedUpdates[k], MAX_INT) = MAX_INT
    BY <1>2 DEF AddTerm, MAX_INT, NoUpto
  <2>4. \A k \in Keys : DeletedIn(LastCut.pos, tail, k) <=>
                           DeletedIn(LastCut.pos, globalSlice.tail, k) \/ k \in ks
    <3>1. SliceUpto(globalSlice, tail) = [head |-> globalSlice.tail, tail |-> tail]
      BY <1>1 DEF SliceUpto
    <3> QED BY <1>1, <3>1, DeletedInSplit
  <2> HIDE DEF ks
  <2> QED BY <1>2, <2>2, <2>3, <2>4
<1> QED BY <1>3, <1>4

\* updateSliceNoSeqNo and apply move what the global slice lacks to the buffer.
LEMMA ApplyGlobalSliceStep ==
    ASSUME PutReplaces = TRUE, PacketInv, ApplyGlobalSlice, UNCHANGED <<nodes, cuts>>
    PROVE  GlobalPlaces' /\ PacketsPartitionDeletes'
<1>a. QueueTypeOK /\ GlobalTypeOK /\ GlobalPlaces
  BY DEF PacketInv, TypeOK
<1>b. tail \in Nat /\ LastCut \in Cut
  BY <1>a, TailType, LastCutType
<1>c. tail' = tail /\ LastCut' = LastCut
  BY DEF tail, LastCut
<1>d. globalSlice \in Slice /\ globalBufferedUpdates \in [Keys -> Int]
  BY <1>a DEF GlobalTypeOK
<1>1. /\ tail \in Nat /\ tail' = tail /\ LastCut' = LastCut /\ LastCut.pos <= tail
      /\ LastCut.pos \in Nat /\ globalSlice.tail \in Nat
  BY <1>a, <1>b, <1>c, <1>d DEF GlobalPlaces, Cut, Slice
<1>2. globalSlice'.head = globalSlice'.tail /\ globalSlice'.tail = tail
  <2>1. globalSlice' = IF globalSlice.tail # tail THEN EmptySlice(tail) ELSE globalSlice
    BY DEF ApplyGlobalSlice
  <2> QED BY <1>a, <1>1, <2>1, SliceType DEF GlobalPlaces
<1>3. GlobalPlaces'
  BY <1>1, <1>2 DEF PacketInv, GlobalPlaces
<1>4. \A a, b, k : DeletedIn(a, b, k)' <=> DeletedIn(a, b, k)
  BY DEF DeletedIn
<1>5. \A k \in Keys : globalBufferedUpdates'[k] =
         IF DeletedIn(LastCut.pos, tail, k) THEN MAX_INT ELSE NoUpto
  <2>1. globalBufferedUpdates' = IF globalSlice.tail # tail
              THEN AddTerms(globalBufferedUpdates, SliceKeys(SliceUpto(globalSlice, tail)), MAX_INT)
              ELSE globalBufferedUpdates
    BY DEF ApplyGlobalSlice
  <2> QED BY <2>1, Buffered
<1>6. \A c \in DOMAIN cuts : CutStart(c)' = CutStart(c)
  BY DEF CutStart
<1>7. \A k \in Keys : globalBufferedUpdates'[k] =
         IF DeletedIn(LastCut.pos, globalSlice.tail, k)' THEN MAX_INT ELSE NoUpto
  BY <1>1, <1>2, <1>5 DEF DeletedIn
<1>8. PacketsPartitionDeletes'
  BY <1>1, <1>4, <1>6, <1>7 DEF PacketInv, PacketsPartitionDeletes
<1> QED BY <1>3, <1>8

\* A cut at the tail that leaves the global slice and buffer empty, and takes
\* the deletes since the last cut unless it drops them.
LEMMA CutStep ==
    ASSUME PacketInv, NEW keys \in SUBSET Keys, NEW dropped \in BOOLEAN, NewCut(keys, dropped),
           nodes' = nodes, globalSlice'.head = tail, globalSlice'.tail = tail,
           dropped = FALSE => \A k \in Keys : k \in keys <=> DeletedIn(LastCut.pos, tail, k),
           \A k \in Keys : globalBufferedUpdates'[k] = NoUpto
    PROVE  GlobalPlaces' /\ PacketsPartitionDeletes'
<1>1. QueueTypeOK /\ GlobalTypeOK /\ GlobalPlaces /\ TypeOK /\ PacketsPartitionDeletes
  BY DEF PacketInv, TypeOK
<1>2. /\ tail \in Nat /\ tail' = tail /\ LastCut.pos \in Nat /\ LastCut.pos <= tail
      /\ globalSlice.tail \in Nat
  <2>1. tail \in Nat /\ tail' = tail /\ LastCut \in Cut /\ globalSlice \in Slice
    BY <1>1, TailType, LastCutType DEF tail, GlobalTypeOK
  <2> QED BY <1>1, <2>1 DEF GlobalPlaces, Cut, Slice
<1>3. Len(cuts) \in Nat /\ \A c \in DOMAIN cuts : cuts[c].pos \in Nat
  BY <1>1, CutsType
<1>4. /\ DOMAIN cuts' = 1..(Len(cuts) + 1) /\ DOMAIN cuts = 1..Len(cuts)
      /\ \A c \in DOMAIN cuts : cuts'[c] = cuts[c] /\ CutStart(c)' = CutStart(c)
      /\ cuts'[Len(cuts) + 1].pos = tail /\ cuts'[Len(cuts) + 1].keys = keys
      /\ cuts'[Len(cuts) + 1].dropped = dropped
      /\ LastCut' = cuts'[Len(cuts) + 1]
      /\ \A n \in Nat : n = Len(cuts) + 1 => CutStart(n)' = LastCut.pos
  BY <1>1, NewCutProperties
<1>5. LastCut'.pos = tail
  BY <1>4
<1>6. \A c \in DOMAIN cuts' : c \in DOMAIN cuts \/ c = Len(cuts) + 1
  BY <1>3, <1>4
<1>7. GlobalPlaces'
  <2>1. \A c \in DOMAIN cuts' : cuts'[c].pos <= tail
    <3>1. \A c \in DOMAIN cuts : cuts[c].pos <= tail
      BY <1>1, <1>2, <1>3 DEF GlobalPlaces
    <3> QED BY <1>2, <1>4, <1>6, <3>1
  <2> QED BY <1>2, <1>5, <2>1 DEF GlobalPlaces
<1>8. \A a, b, k : DeletedIn(a, b, k)' <=> DeletedIn(a, b, k)
  BY DEF DeletedIn
<1>9. ASSUME NEW c \in DOMAIN cuts', ~cuts'[c].dropped
      PROVE  cuts'[c].keys = {k \in Keys : DeletedIn(CutStart(c), cuts[c].pos, k)'}
  <2>1. CASE c \in DOMAIN cuts
    <3>1. cuts[c].keys = {k \in Keys : DeletedIn(CutStart(c), cuts[c].pos, k)}
      BY <1>1, <1>4, <1>9, <2>1 DEF PacketsPartitionDeletes
    <3> QED BY <1>4, <2>1, <3>1 DEF DeletedIn
  <2>2. CASE c = Len(cuts) + 1
    <3>1. CutStart(c)' = LastCut.pos /\ cuts'[c].pos = tail /\ cuts'[c].keys = keys
      BY <1>3, <1>4, <2>2
    <3>2. keys = {k \in Keys : DeletedIn(LastCut.pos, tail, k)}
      BY <1>4, <1>9, <2>2
    <3> QED BY <3>1, <3>2 DEF DeletedIn
  <2> QED BY <1>6, <2>1, <2>2
<1>10. \A k \in Keys : ~DeletedIn(LastCut.pos, globalSlice.tail, k)'
  BY <1>2, <1>5 DEF DeletedIn
<1>11. PacketsPartitionDeletes'
  BY <1>9, <1>10 DEF PacketsPartitionDeletes
<1> QED BY <1>7, <1>11

\* A cut that takes what buffered holds out of the buffer.
LEMMA FreezeStep ==
    ASSUME PutReplaces = TRUE, PacketInv, NEW t \in Threads, FreezeGlobalBuffer(t)
    PROVE  GlobalPlaces' /\ PacketsPartitionDeletes'
<1> DEFINE buffered == IF globalSlice.tail # tail
              THEN AddTerms(globalBufferedUpdates, SliceKeys(SliceUpto(globalSlice, tail)), MAX_INT)
              ELSE globalBufferedUpdates
           keys == {k \in Keys : buffered[k] # NoUpto}
<1>1. /\ globalBufferedUpdates' = IF AnyUpdates(buffered) THEN EmptyUpdates(Keys) ELSE buffered
      /\ NewCut(keys, FALSE) /\ nodes' = nodes
      /\ globalSlice' = IF globalSlice.tail # tail THEN EmptySlice(tail) ELSE globalSlice
  BY DEF FreezeGlobalBuffer, queueVars
<1>2. /\ buffered \in [Keys -> Int]
      /\ \A k \in Keys : buffered[k] = IF DeletedIn(LastCut.pos, tail, k) THEN MAX_INT ELSE NoUpto
  BY Buffered
<1>3. keys \in SUBSET Keys
  OBVIOUS
<1>4. \A k \in Keys : k \in keys <=> DeletedIn(LastCut.pos, tail, k)
  BY <1>2 DEF MAX_INT, NoUpto
<1>5. \A k \in Keys : globalBufferedUpdates'[k] = NoUpto
  <2> HIDE DEF buffered
  <2> QED BY <1>1, <1>2, EmptyUpdatesType DEF AnyUpdates
<1> HIDE DEF buffered, keys
<1>a. QueueTypeOK /\ GlobalTypeOK /\ GlobalPlaces /\ TypeOK
  BY DEF PacketInv, TypeOK
<1>b. tail \in Nat /\ tail' = tail
  BY <1>a, <1>1, TailType DEF tail
<1>6. globalSlice'.head = tail /\ globalSlice'.tail = tail
  BY <1>a, <1>b, <1>1, SliceType DEF GlobalPlaces
<1> QED BY <1>1, <1>3, <1>4, <1>5, <1>6, CutStep

LEMMA ClearStep ==
    ASSUME PacketInv, NEW t \in Threads, Clear(t)
    PROVE  GlobalPlaces' /\ PacketsPartitionDeletes'
<1>1. NewCut({}, TRUE) /\ nodes' = nodes
  BY DEF Clear, queueVars
<1>2. globalSlice'.head = tail /\ globalSlice'.tail = tail
  BY SliceType, TailType DEF Clear, PacketInv, TypeOK
<1>3. \A k \in Keys : globalBufferedUpdates'[k] = NoUpto
  BY EmptyUpdatesType DEF Clear
<1> QED BY <1>1, <1>2, <1>3, CutStep

\* A delete that is added stays outside the global slice.
LEMMA AddNodeStep ==
    ASSUME PacketInv, NEW t \in Threads, AddNode(t)
    PROVE  GlobalPlaces' /\ PacketsPartitionDeletes'
<1> DEFINE e == [key |-> call[t].key, seqNo |-> nextSeqNo]
<1>1. QueueTypeOK /\ GlobalTypeOK /\ GlobalPlaces /\ CallTypeOK /\ PacketsPartitionDeletes
  BY DEF PacketInv, TypeOK
<1>2. e \in [key : Keys, seqNo : Nat]
  BY <1>1 DEF AddNode, QueueTypeOK, CallTypeOK, Updating
<1>3. nodes' = Append(nodes, e) /\ cuts' = cuts /\ globalSlice' = globalSlice
      /\ globalBufferedUpdates' = globalBufferedUpdates
  BY DEF AddNode, globalVars
<1> HIDE DEF e
<1>4. LastCut' = LastCut /\ \A c \in DOMAIN cuts : CutStart(c)' = CutStart(c)
  BY <1>3 DEF LastCut, CutStart
<1>5. /\ tail \in Nat /\ tail' = tail + 1 /\ LastCut.pos \in Nat /\ globalSlice.tail \in Nat
      /\ globalSlice.tail <= tail /\ LastCut.pos <= tail
      /\ \A c \in DOMAIN cuts : cuts[c].pos \in Nat /\ cuts[c].pos <= tail /\ CutStart(c) \in Nat
  <2>1. tail \in Nat /\ LastCut \in Cut /\ globalSlice \in Slice
    BY <1>1, TailType, LastCutType DEF GlobalTypeOK
  <2>2. tail' = tail + 1
    BY <1>1, <1>2, <1>3 DEF tail, QueueTypeOK
  <2>3. \A c \in DOMAIN cuts : cuts[c].pos \in Nat /\ CutStart(c) \in Nat
    <3>1. /\ Len(cuts) \in Nat /\ DOMAIN cuts = 1..Len(cuts)
          /\ \A c \in 1..Len(cuts) : cuts[c].pos \in Nat
      BY <1>1, CutsType
    <3> QED BY <3>1 DEF CutStart, Sentinel
  <2> QED BY <1>1, <2>1, <2>2, <2>3 DEF GlobalPlaces, Cut, Slice
<1>6. GlobalPlaces'
  BY <1>1, <1>3, <1>4, <1>5 DEF GlobalPlaces
<1>7. \A c \in DOMAIN cuts, k \in Keys :
         DeletedIn(CutStart(c), cuts[c].pos, k)' <=> DeletedIn(CutStart(c), cuts[c].pos, k)
  BY <1>1, <1>2, <1>3, <1>4, <1>5, DeletedInStable
<1>8. \A k \in Keys : DeletedIn(LastCut.pos, globalSlice.tail, k)'
                         <=> DeletedIn(LastCut.pos, globalSlice.tail, k)
  BY <1>1, <1>2, <1>3, <1>4, <1>5, DeletedInStable
<1>9. PacketsPartitionDeletes'
  BY <1>1, <1>3, <1>7, <1>8 DEF PacketsPartitionDeletes
<1> QED BY <1>6, <1>9

LEMMA PacketFrame ==
    ASSUME PacketInv, UNCHANGED <<nodes, globalVars>>
    PROVE  GlobalPlaces' /\ PacketsPartitionDeletes'
  BY DEF PacketInv, globalVars, GlobalPlaces, PacketsPartitionDeletes, LastCut, CutStart, DeletedIn, tail

LEMMA PacketInit == Init => PacketInv
<1> SUFFICES ASSUME Init PROVE PacketInv
  OBVIOUS
<1>1. /\ cuts = <<>> /\ nodes = <<>> /\ globalSlice = EmptySlice(0)
      /\ globalBufferedUpdates = EmptyUpdates(Keys)
  BY DEF Init, InitWith, Sentinel
<1>2. LastCut.pos = 0 /\ globalSlice.tail = 0 /\ globalSlice.head = 0 /\ tail = 0 /\ DOMAIN cuts = {}
  BY <1>1 DEF LastCut, EmptySlice, Sentinel, tail
<1>3. GlobalPlaces
  BY <1>2 DEF GlobalPlaces
<1>4. PacketsPartitionDeletes
  BY <1>1, <1>2, EmptyUpdatesType DEF PacketsPartitionDeletes, DeletedIn
<1> QED BY <1>3, <1>4, TypeInit DEF PacketInv

LEMMA PacketStep ==
    ASSUME PutReplaces = TRUE, PacketInv, [Next]_vars PROVE PacketInv'
<1>1. TypeOK'
  BY TypeStep DEF PacketInv
<1>2. ASSUME UNCHANGED vars PROVE GlobalPlaces' /\ PacketsPartitionDeletes'
  BY <1>2, PacketFrame DEF vars, globalVars
<1>3. ASSUME SkipSequenceNumbers PROVE GlobalPlaces' /\ PacketsPartitionDeletes'
  BY <1>3, PacketFrame DEF SkipSequenceNumbers
<1>4. ASSUME NEW t \in Threads, Step(t)
      PROVE  GlobalPlaces' /\ PacketsPartitionDeletes'
  <2>1. CASE AddNode(t)
    BY <2>1, AddNodeStep
  <2>2. CASE TryApply(t) \/ ForceApply(t)
    BY <2>2, ApplyGlobalSliceStep DEF TryApply, ForceApply, queueVars
  <2>3. CASE FreezeGlobalBuffer(t)
    BY <2>3, FreezeStep
  <2>4. CASE Clear(t)
    BY <2>4, ClearStep
  <2>5. CASE \/ \E d \in Dwpts, k \in Keys, del \in BOOLEAN, n \in 0..MaxBlock : StartUpdate(t, d, k, del, n)
             \/ \E d \in Dwpts, k \in Keys, n \in 1..MaxBlock : FailUpdate(t, d, k, n)
             \/ \E k \in Keys : StartDelete(t, k)
             \/ \E what \in LockedCalls, d \in Dwpts \cup {NoDwpt} : StartLocked(t, what, d)
    BY <2>5, PacketFrame DEF StartUpdate, FailUpdate, StartDelete, StartLocked, queueVars
  <2>6. CASE \/ LinkNode(t) \/ UpdateSlice(t) \/ TryLock(t) \/ FinishUpdate(t) \/ Lock(t)
             \/ PrepareAndFlush(t)
    BY <2>6, PacketFrame DEF LinkNode, UpdateSlice, TryLock, FinishUpdate, Lock, PrepareAndFlush, queueVars
  <2> QED BY <1>4, <2>1, <2>2, <2>3, <2>4, <2>5, <2>6 DEF Step
<1>5. GlobalPlaces' /\ PacketsPartitionDeletes'
  BY <1>2, <1>3, <1>4 DEF Next
<1> QED BY <1>1, <1>5 DEF PacketInv

\* Whichever tryApplyGlobalSlice calls fail to get the lock, each delete leaves
\* the queue in exactly one packet, unless clear dropped it.
THEOREM Packets == ASSUME PutReplaces = TRUE PROVE Spec => []PacketsPartitionDeletes
<1>1. PacketInv /\ [Next]_vars => PacketInv'
  BY PacketStep
<1>2. PacketInv => PacketsPartitionDeletes
  BY DEF PacketInv
<1> QED BY PacketInit, <1>1, <1>2, PTL DEF Spec

\* A node is linked behind the tail only while its add is in the monitor.
LinkedByAdd == tailNext # NoThread => call[tailNext].pc = "add" /\ call[tailNext].del

LEMMA LinkedByAddStep == ASSUME TypeOK, LinkedByAdd, [Next]_vars PROVE LinkedByAdd'
<1>1. call \in [Threads -> Call] /\ tailNext \in Threads \cup {NoThread}
  BY DEF TypeOK, CallTypeOK, QueueTypeOK
<1>2. ASSUME tailNext' = tailNext, call' = call PROVE LinkedByAdd'
  BY <1>2 DEF LinkedByAdd
<1>3. ASSUME NEW t \in Threads, NEW c, call' = [call EXCEPT ![t] = c], tailNext' = tailNext,
             tailNext # t
      PROVE  LinkedByAdd'
  BY <1>1, <1>3 DEF LinkedByAdd
<1>4. ASSUME NEW t \in Threads, Step(t) PROVE LinkedByAdd'
  <2>1. CASE LinkNode(t)
    BY <2>1, ThreadsAssumption DEF LinkNode, LinkedByAdd
  <2>2. CASE AddNode(t)
    BY <2>2 DEF AddNode, LinkedByAdd
  <2>3. CASE UpdateSlice(t)
    BY <1>3, <2>3, ThreadsAssumption DEF UpdateSlice
  <2>4. CASE \/ \E d \in Dwpts, k \in Keys, del \in BOOLEAN, n \in 0..MaxBlock : StartUpdate(t, d, k, del, n)
             \/ \E k \in Keys : StartDelete(t, k)
             \/ \E what \in LockedCalls, d \in Dwpts \cup {NoDwpt} : StartLocked(t, what, d)
    <3>1. call[t].pc = "idle" /\ tailNext' = tailNext /\ \E c : call' = [call EXCEPT ![t] = c]
      BY <2>4 DEF StartUpdate, StartDelete, StartLocked, queueVars
    <3>2. tailNext # t
      BY <3>1, ThreadsAssumption DEF LinkedByAdd
    <3> QED BY <1>3, <3>1, <3>2
  <2>5. CASE \E d \in Dwpts, k \in Keys, n \in 1..MaxBlock : FailUpdate(t, d, k, n)
    BY <1>2, <2>5 DEF FailUpdate, queueVars
  <2>6. CASE \/ TryLock(t) \/ TryApply(t) \/ FinishUpdate(t) \/ Lock(t) \/ FreezeGlobalBuffer(t)
             \/ Clear(t) \/ ForceApply(t) \/ PrepareAndFlush(t)
    <3>1. call[t].pc # "add" /\ tailNext' = tailNext
      BY <2>6 DEF TryLock, TryApply, FinishUpdate, Lock, FreezeGlobalBuffer, Clear, ForceApply,
                  PrepareAndFlush, queueVars
    <3>2. \E c : call' = [call EXCEPT ![t] = c]
      BY <2>6 DEF TryLock, TryApply, FinishUpdate, Lock, FreezeGlobalBuffer, Clear, ForceApply,
                  PrepareAndFlush, AfterTryApply, Goto, Return
    <3>3. tailNext # t
      BY <3>1, ThreadsAssumption DEF LinkedByAdd
    <3> QED BY <1>3, <3>1, <3>2, <3>3
  <2> QED BY <1>4, <2>1, <2>2, <2>3, <2>4, <2>5, <2>6 DEF Step
<1>5. ASSUME SkipSequenceNumbers \/ UNCHANGED vars PROVE LinkedByAdd'
  BY <1>2, <1>5 DEF SkipSequenceNumbers, vars
<1> QED BY <1>4, <1>5 DEF Next

\* Under the lock, anyChanges tells exactly whether some delete has been
\* neither frozen nor cleared, or is linked behind the tail by an add under way,
\* which holds another lock (DocumentsWriterDeleteQueue.cpp:110-125).
THEOREM AnyChanges == ASSUME PutReplaces = TRUE PROVE Spec => []AnyChangesExact
<1>1. PacketInv /\ [Next]_vars => PacketInv'
  BY PacketStep
<1>2. Init => LinkedByAdd
  BY DEF Init, InitWith, LinkedByAdd
<1>3. PacketInv /\ LinkedByAdd /\ [Next]_vars => LinkedByAdd'
  BY LinkedByAddStep DEF PacketInv
<1>4. PacketInv /\ LinkedByAdd => AnyChangesExact
  <2> SUFFICES ASSUME PacketInv, LinkedByAdd
               PROVE  anyChanges <=> LastCut.pos < tail \/ Adding
    BY DEF AnyChangesExact
  <2>1. QueueTypeOK /\ GlobalTypeOK /\ GlobalPlaces /\ PacketsPartitionDeletes
    BY DEF PacketInv, TypeOK
  <2>2. /\ tail \in Nat /\ LastCut.pos \in Nat /\ globalSlice.tail \in Nat
        /\ globalSlice.head = globalSlice.tail /\ LastCut.pos <= globalSlice.tail
        /\ globalSlice.tail <= tail
    <3>1. tail \in Nat /\ LastCut \in Cut /\ globalSlice \in Slice
      BY <2>1, TailType, LastCutType DEF GlobalTypeOK
    <3> QED BY <2>1, <3>1 DEF GlobalPlaces, Cut, Slice
  <2>3. AnyUpdates(globalBufferedUpdates) <=> LastCut.pos < globalSlice.tail
    <3>1. DOMAIN globalBufferedUpdates = Keys
      BY <2>1 DEF GlobalTypeOK
    <3>2. AnyUpdates(globalBufferedUpdates) <=>
             \E k \in Keys : DeletedIn(LastCut.pos, globalSlice.tail, k)
      BY <2>1, <3>1 DEF AnyUpdates, PacketsPartitionDeletes, MAX_INT, NoUpto
    <3>3. \A p \in 1..tail : nodes[p].key \in Keys
      BY <2>1, NodesType
    <3> QED BY <2>2, <3>2, <3>3 DEF DeletedIn
  <2>4. tailNext # NoThread <=> Adding
    BY <2>1, ThreadsAssumption DEF LinkedByAdd, Adding, QueueTypeOK
  <2> QED BY <2>2, <2>3, <2>4 DEF anyChanges
<1> QED BY PacketInit, <1>1, <1>2, <1>3, <1>4, PTL DEF Spec

------------------------------------------------------------------------------

(***************************************************************************)
(* Every flushed segment shows the effect of the operations in the order   *)
(* of their sequence numbers: DwptInv is kept by each call for its own     *)
(* DWPT, and whatever happens to the queue keeps it for the others.        *)
(***************************************************************************)

\* What any step may do to the queue and to the history of cuts.
QueueGrows ==
    /\ tail' \in Nat /\ nextSeqNo' \in Nat
    /\ tail <= tail' /\ nextSeqNo <= nextSeqNo'
    /\ \A p \in 1..tail : nodes'[p] = nodes[p]
    /\ \A p \in 1..tail' : p > tail => nodes'[p].seqNo \in Nat /\ nextSeqNo <= nodes'[p].seqNo
    /\ \A n \in DOMAIN cuts : n \in DOMAIN cuts' /\ cuts'[n] = cuts[n]

SameDwpt(d) ==
    /\ phase'[d] = phase[d] /\ deleteSlice'[d] = deleteSlice[d] /\ docs'[d] = docs[d]
    /\ pendingUpdates'[d] = pendingUpdates[d] /\ deleteDocIDs'[d] = deleteDocIDs[d]
    /\ liveDocs'[d] = liveDocs[d] /\ frozenAt'[d] = frozenAt[d]

\* What is around a DWPT when a call works on it.
Around == TypeOK /\ GlobalPlaces /\ QueueOrdered

LEMMA DwptTypes ==
    ASSUME Around, NEW d \in Dwpts
    PROVE  /\ tail \in Nat /\ nextSeqNo \in Nat
           /\ \A p \in 1..tail : nodes[p].key \in Keys /\ nodes[p].seqNo \in Nat
           /\ deleteSlice[d] \in Slice /\ deleteSlice[d].head \in Nat /\ deleteSlice[d].tail \in Nat
           /\ docs[d] \in Seq(Doc) /\ Len(docs[d]) \in Nat /\ DOMAIN docs[d] = 1..Len(docs[d])
           /\ \A i \in 1..Len(docs[d]) : docs[d][i].key \in Keys /\ docs[d][i].seqNo \in Nat
           /\ \A k \in Keys : pendingUpdates[d][k] \in Int
           /\ deleteDocIDs[d] \subseteq Nat
           /\ \A n \in DOMAIN cuts : cuts[n].pos \in Nat /\ cuts[n].pos <= tail
<1>1. QueueTypeOK /\ GlobalTypeOK /\ DwptTypeOK
  BY DEF Around, TypeOK
<1>2. /\ tail \in Nat /\ nextSeqNo \in Nat
      /\ \A p \in 1..tail : nodes[p].key \in Keys /\ nodes[p].seqNo \in Nat
  BY <1>1, NodesType DEF QueueTypeOK
<1>3. deleteSlice[d] \in Slice /\ docs[d] \in Seq(Doc) /\ pendingUpdates[d] \in [Keys -> Int] /\ deleteDocIDs[d] \subseteq Nat
  BY <1>1 DEF DwptTypeOK
<1>4. Len(docs[d]) \in Nat /\ DOMAIN docs[d] = 1..Len(docs[d]) /\ \A i \in 1..Len(docs[d]) : docs[d][i] \in Doc
  BY <1>3, LenProperties, ElementOfSeq
<1>5. \A n \in DOMAIN cuts : cuts[n].pos \in Nat /\ cuts[n].pos <= tail
  <2>1. (\A n \in DOMAIN cuts : cuts[n].pos \in Nat) /\ LastCut \in Cut /\ globalSlice \in Slice
    BY <1>1, CutsType, LastCutType DEF GlobalTypeOK
  <2>2. LastCut.pos \in Nat /\ globalSlice.tail \in Nat
    BY <2>1 DEF Cut, Slice
  <2> QED BY <1>2, <2>1, <2>2 DEF Around, GlobalPlaces
<1> QED BY <1>2, <1>3, <1>4, <1>5 DEF Slice, Doc

\* The queue and the calls of others do not disturb a DWPT.
LEMMA Frame ==
    ASSUME Around, QueueGrows, NEW d \in Dwpts, NEW c \in Call, DwptInv(d, c), SameDwpt(d)
    PROVE  DwptInv(d, c)'
<1> USE DwptTypes
<1>1. c.block \in Nat /\ c.seqNo \in Nat
  BY CallFields
<1>2. Finished(d, c)' = Finished(d, c) /\ Finished(d, c) \in Int
  BY <1>1 DEF Finished, SameDwpt
<1>3. CallFits(d, c)'
  BY <1>1 DEF DwptInv, CallFits, SameDwpt, QueueGrows
<1>4. SlicePlaces(d, c)'
  <2>1. CallFits(d, c) /\ SlicePlaces(d, c)
    BY DEF DwptInv
  <2>2. ASSUME c.pc \in Numbered, NEW p \in 1..tail'
        PROVE  p <= deleteSlice[d].tail <=> nodes'[p].seqNo <= c.seqNo
    <3>1. CASE p <= tail
      BY <2>1, <2>2, <3>1 DEF SlicePlaces, QueueGrows
    <3>2. CASE p > tail
      BY <1>1, <2>1, <2>2, <3>2 DEF SlicePlaces, CallFits, QueueGrows
    <3> QED BY <3>1, <3>2 DEF QueueGrows
  <2> QED BY <2>1, <2>2 DEF SlicePlaces, SameDwpt, QueueGrows
<1>5. DocsNumbered(d, c)'
  BY <1>1, <1>2 DEF DwptInv, DocsNumbered, SameDwpt, QueueGrows
<1>6. OnlyFinished(d, c)'
  BY <1>2 DEF DwptInv, OnlyFinished, SameDwpt
<1>7. Later(d, c)'
  <2>1. Later(d, c) /\ DocsNumbered(d, c)
    BY DEF DwptInv
  <2>2. ASSUME phase[d] \in Buffering, NEW i \in 1..Len(docs[d]), NEW p \in 1..tail',
               i <= Finished(d, c), p > deleteSlice[d].head
        PROVE  docs[d][i].seqNo < nodes'[p].seqNo
    <3>1. CASE p <= tail
      BY <2>1, <2>2, <3>1 DEF Later, QueueGrows
    <3>2. CASE p > tail
      BY <2>1, <2>2, <3>2 DEF DocsNumbered, QueueGrows
    <3> QED BY <3>1, <3>2 DEF QueueGrows
  <2> QED BY <1>2, <2>2 DEF Later, SameDwpt
<1>9. Applied(d)'
  <2>1. Applied(d) /\ SlicePlaces(d, c)
    BY DEF DwptInv
  <2>2. \A p \in 1..deleteSlice[d].head : nodes'[p] = nodes[p]
    BY <2>1 DEF SlicePlaces, QueueGrows
  <2>3. \A i : HitUpto(d, i, deleteSlice[d].head)' <=> HitUpto(d, i, deleteSlice[d].head)
    BY <2>2 DEF HitUpto, SameDwpt
  <2> QED BY <2>1, <2>3 DEF Applied, SameDwpt
<1>10. LiveDocs(d)'
  <2>1. LiveDocs(d) /\ SlicePlaces(d, c)
    BY DEF DwptInv
  <2>2. ASSUME phase[d] = "flushed"
        PROVE  \A i : HitUpto(d, i, cuts[frozenAt[d]].pos)' <=> HitUpto(d, i, cuts[frozenAt[d]].pos)
    <3>1. frozenAt[d] \in DOMAIN cuts
      BY <2>1, <2>2 DEF SlicePlaces
    <3>2. cuts'[frozenAt[d]] = cuts[frozenAt[d]] /\ \A p \in 1..cuts[frozenAt[d]].pos : nodes'[p] = nodes[p]
      BY <3>1 DEF QueueGrows
    <3> QED BY <3>2 DEF HitUpto, SameDwpt
  <2> QED BY <2>1, <2>2 DEF LiveDocs, SameDwpt
<1> QED BY <1>3, <1>4, <1>5, <1>6, <1>7, <1>9, <1>10 DEF DwptInv

\* Only add changes the list, and what it appends has the next number.
LEMMA GrowsByNode ==
    ASSUME Around, NEW t \in Threads, AddNode(t)
    PROVE  QueueGrows /\ QueueOrdered'
<1> DEFINE e == [key |-> call[t].key, seqNo |-> nextSeqNo]
<1>1. QueueTypeOK /\ CallTypeOK /\ tail \in Nat /\ nextSeqNo \in Nat \ {0} /\ QueueOrdered
  BY TailType DEF Around, TypeOK, QueueTypeOK
<1>2. e \in [key : Keys, seqNo : Nat] /\ e.seqNo = nextSeqNo
  BY <1>1 DEF AddNode, CallTypeOK, Updating
<1>3. nodes' = Append(nodes, e) /\ nextSeqNo' = nextSeqNo + 1 /\ cuts' = cuts
  BY DEF AddNode, NextSequenceNumber, globalVars
<1> HIDE DEF e
<1>4. /\ tail' = tail + 1 /\ nodes'[tail + 1] = e
      /\ \A p \in 1..tail : nodes'[p] = nodes[p]
  BY <1>1, <1>2, <1>3 DEF tail, QueueTypeOK
<1>5. \A p \in 1..(tail + 1) : p \in 1..tail \/ p = tail + 1
  BY <1>1
<1>6. \A p \in 1..tail : nodes[p].seqNo \in Nat
  BY <1>1, NodesType
<1>7. nodes'[tail + 1].seqNo = nextSeqNo
  BY <1>2, <1>4
<1>8. QueueGrows
  <2>1. tail' \in Nat /\ nextSeqNo' \in Nat /\ tail <= tail' /\ nextSeqNo <= nextSeqNo'
    BY <1>1, <1>3, <1>4
  <2>2. ASSUME NEW p \in 1..tail', p > tail PROVE nodes'[p].seqNo \in Nat /\ nextSeqNo <= nodes'[p].seqNo
    <3>1. p = tail + 1
      BY <1>1, <1>4, <2>2
    <3> QED BY <1>1, <1>7, <3>1
  <2> QED BY <1>3, <1>4, <2>1, <2>2 DEF QueueGrows
<1>9. QueueOrdered'
  <2>1. \A p \in 1..tail : nodes'[p].seqNo = nodes[p].seqNo
    BY <1>4
  <2>2. ASSUME NEW p \in 1..tail' PROVE 0 < nodes'[p].seqNo /\ nodes'[p].seqNo < nextSeqNo'
    <3>0. 0 < nextSeqNo /\ nextSeqNo < nextSeqNo' /\ nextSeqNo \in Nat /\ nextSeqNo' \in Nat
      BY <1>1, <1>3
    <3>1. CASE p \in 1..tail
      <4>1. 0 < nodes[p].seqNo /\ nodes[p].seqNo < nextSeqNo /\ nodes[p].seqNo \in Nat
        BY <1>1, <1>6, <3>1 DEF QueueOrdered
      <4> QED BY <2>1, <3>0, <3>1, <4>1
    <3>2. CASE p = tail + 1
      BY <1>7, <3>0, <3>2
    <3> QED BY <1>4, <1>5, <3>1, <3>2
  <2>3. \A p, q \in 1..tail' : p < q => nodes'[p].seqNo < nodes'[q].seqNo
    BY <1>1, <1>4, <1>5, <1>6, <1>7, <2>1 DEF QueueOrdered
  <2> QED BY <2>2, <2>3 DEF QueueOrdered
<1> QED BY <1>8, <1>9

LEMMA GrowsByCut ==
    ASSUME Around, NEW keys \in SUBSET Keys, NEW dropped \in BOOLEAN, NewCut(keys, dropped), UNCHANGED queueVars
    PROVE  QueueGrows /\ QueueOrdered'
<1>1. TypeOK /\ tail \in Nat /\ tail' = tail /\ nodes' = nodes /\ nextSeqNo' = nextSeqNo
      /\ nextSeqNo \in Nat /\ QueueOrdered
  BY TailType DEF Around, TypeOK, QueueTypeOK, queueVars, tail
<1>2. Len(cuts) \in Nat
  BY <1>1, CutsType DEF TypeOK
<1>3. /\ DOMAIN cuts' = 1..(Len(cuts) + 1) /\ DOMAIN cuts = 1..Len(cuts)
      /\ \A c \in DOMAIN cuts : cuts'[c] = cuts[c]
  BY <1>1, NewCutProperties
<1>4. \A c \in DOMAIN cuts : c \in DOMAIN cuts'
  BY <1>2, <1>3
<1> QED BY <1>1, <1>3, <1>4 DEF QueueGrows, QueueOrdered

LEMMA GrowsByNumber ==
    ASSUME Around, UNCHANGED <<nodes, cuts>>, nextSeqNo' = nextSeqNo \/ nextSeqNo' = nextSeqNo + 1
    PROVE  QueueGrows /\ QueueOrdered'
<1>1. tail \in Nat /\ tail' = tail /\ nextSeqNo \in Nat /\ QueueOrdered
      /\ \A p \in 1..tail : nodes[p].seqNo \in Nat
  BY TailType, NodesType DEF Around, TypeOK, QueueTypeOK, tail
<1> QED BY <1>1 DEF QueueGrows, QueueOrdered

LEMMA Grows == ASSUME Around, [Next]_vars PROVE QueueGrows /\ QueueOrdered'
<1>1. ASSUME UNCHANGED <<nodes, nextSeqNo, cuts>> PROVE QueueGrows /\ QueueOrdered'
  BY <1>1, GrowsByNumber
<1>2. CASE UNCHANGED vars
  BY <1>1, <1>2 DEF vars
<1>3. CASE SkipSequenceNumbers
  BY <1>3, GrowsByNumber DEF SkipSequenceNumbers, globalVars
<1>4. ASSUME NEW t \in Threads, Step(t) PROVE QueueGrows /\ QueueOrdered'
  <2>1. CASE AddNode(t)
    BY <2>1, GrowsByNode
  <2>2. CASE UpdateSlice(t)
    BY <2>2, GrowsByNumber DEF UpdateSlice, NextSequenceNumber, globalVars
  <2>3. CASE FreezeGlobalBuffer(t)
    <3>1. \E keys \in SUBSET Keys : NewCut(keys, FALSE)
      BY <2>3 DEF FreezeGlobalBuffer
    <3> QED BY <2>3, <3>1, GrowsByCut DEF FreezeGlobalBuffer
  <2>4. CASE Clear(t)
    BY <2>4, GrowsByCut DEF Clear
  <2>5. CASE \/ \E d \in Dwpts, k \in Keys, del \in BOOLEAN, n \in 0..MaxBlock : StartUpdate(t, d, k, del, n)
             \/ \E d \in Dwpts, k \in Keys, n \in 1..MaxBlock : FailUpdate(t, d, k, n)
             \/ \E k \in Keys : StartDelete(t, k)
             \/ \E what \in LockedCalls, d \in Dwpts \cup {NoDwpt} : StartLocked(t, what, d)
    BY <1>1, <2>5 DEF StartUpdate, FailUpdate, StartDelete, StartLocked, queueVars, globalVars
  <2>6. CASE \/ LinkNode(t) \/ TryLock(t) \/ TryApply(t) \/ FinishUpdate(t) \/ Lock(t)
             \/ ForceApply(t) \/ PrepareAndFlush(t)
    BY <1>1, <2>6 DEF LinkNode, TryLock, TryApply, FinishUpdate, Lock, ForceApply, PrepareAndFlush, queueVars, globalVars
  <2> QED BY <1>4, <2>1, <2>2, <2>3, <2>4, <2>5, <2>6 DEF Step
<1> QED BY <1>2, <1>3, <1>4 DEF Next

\* A call that takes a free DWPT, keeps its own or lets go of it.
LEMMA CallMove ==
    ASSUME CallTypeOK, OneCall, NEW t \in Threads, NEW c \in Call, call' = [call EXCEPT ![t] = c],
           \/ c.dwpt = NoDwpt
           \/ c.dwpt = call[t].dwpt /\ c.pc # "idle"
           \/ ~Held(c.dwpt) /\ c.pc # "idle"
    PROVE  /\ OneCall'
           /\ \A d \in Dwpts : CallsOf(d)' = IF d = c.dwpt THEN {c}
                                             ELSE IF d = call[t].dwpt THEN {Idle} ELSE CallsOf(d)
           /\ call[t].dwpt # NoDwpt => CallsOf(call[t].dwpt) = {call[t]}
<1>1. call \in [Threads -> Call] /\ \A u \in Threads : call'[u] = IF u = t THEN c ELSE call[u]
  BY DEF CallTypeOK
<1>2. OneCall'
  BY <1>1 DEF OneCall, Held
<1>3. ASSUME NEW d \in Dwpts
      PROVE  CallsOf(d)' = IF d = c.dwpt THEN {c} ELSE IF d = call[t].dwpt THEN {Idle} ELSE CallsOf(d)
  <2>1. d # NoDwpt
    BY DwptsAssumption
  <2>2. CASE d = c.dwpt
    <3>1. \A u \in Threads : call'[u].dwpt = d <=> u = t
      BY <1>1, <1>2, <2>1, <2>2 DEF OneCall
    <3> QED BY <1>1, <3>1 DEF CallsOf, Held
  <2>3. CASE d # c.dwpt /\ d = call[t].dwpt
    <3>1. \A u \in Threads : call'[u].dwpt # d
      BY <1>1, <2>1, <2>3 DEF OneCall
    <3> QED BY <2>3, <3>1 DEF CallsOf, Held
  <2>4. CASE d # c.dwpt /\ d # call[t].dwpt
    <3>1. \A u \in Threads : call'[u].dwpt = d <=> call[u].dwpt = d
      BY <1>1, <2>4
    <3>2. \A u \in Threads : call[u].dwpt = d => call'[u] = call[u]
      BY <1>1, <2>4
    <3>3. {u \in Threads : call'[u].dwpt = d} = {u \in Threads : call[u].dwpt = d}
      BY <3>1
    <3>4. {call'[u] : u \in {v \in Threads : call'[v].dwpt = d}} = {call[u] : u \in {v \in Threads : call[v].dwpt = d}}
      BY <3>2, <3>3
    <3>5. Held(d)' <=> Held(d)
      BY <3>1 DEF Held
    <3>6. CallsOf(d)' = CallsOf(d)
      BY <3>4, <3>5 DEF CallsOf
    <3> QED BY <2>4, <3>6
  <2> QED BY <2>2, <2>3, <2>4
<1>4. ASSUME call[t].dwpt # NoDwpt PROVE CallsOf(call[t].dwpt) = {call[t]}
  BY <1>4 DEF OneCall, CallsOf, Held
<1> QED BY <1>2, <1>3, <1>4
------------------------------------------------------------------------------
\* A free DWPT gets a block of n documents without numbers.
LEMMA NewBlock ==
    ASSUME Around, UNCHANGED <<nodes, nextSeqNo, cuts>>, NEW d \in Dwpts, NEW k \in Keys, NEW n \in Nat,
           DwptInv(d, Idle), phase[d] \in {"none", "indexing"}, deleteSlice'[d] = SliceOf(d),
           docs'[d] = WithBlock(docs[d], n, k), pendingUpdates'[d] = pendingUpdates[d],
           phase'[d] = "indexing"
    PROVE  /\ Len(docs'[d]) = Len(docs[d]) + n /\ Len(docs[d]) \in Nat
           /\ \A i \in 1..Len(docs[d]) : docs'[d][i] = docs[d][i]
           /\ \A i \in 1..(Len(docs[d]) + n) : i > Len(docs[d]) => docs'[d][i].seqNo = 0
           /\ deleteSlice'[d].head = deleteSlice'[d].tail /\ deleteSlice'[d].tail <= tail
           /\ deleteSlice'[d].head \in Nat
           /\ phase[d] = "none" => Len(docs[d]) = 0
           /\ phase[d] = "indexing" => deleteSlice'[d] = deleteSlice[d]
           /\ Applied(d)'
<1>0. docs[d] \in Seq(Doc) /\ Len(docs[d]) \in Nat /\ tail \in Nat /\ deleteSlice[d].head \in Nat
  BY DwptTypes
<1>1. /\ Len(docs'[d]) = Len(docs[d]) + n /\ Len(docs[d]) \in Nat
      /\ \A i \in 1..(Len(docs[d]) + n) :
            docs'[d][i] = IF i <= Len(docs[d]) THEN docs[d][i] ELSE [key |-> k, seqNo |-> 0]
  <2> DEFINE w == WithBlock(docs[d], n, k)
  <2>1. /\ Len(w) = Len(docs[d]) + n
        /\ \A i \in 1..(Len(docs[d]) + n) : w[i] = IF i <= Len(docs[d]) THEN docs[d][i] ELSE [key |-> k, seqNo |-> 0]
    BY <1>0, WithBlockProperties
  <2> QED BY <1>0, <2>1
<1>2. /\ \A i \in 1..Len(docs[d]) : docs'[d][i] = docs[d][i]
      /\ \A i \in 1..(Len(docs[d]) + n) : i > Len(docs[d]) => docs'[d][i].seqNo = 0
  <2>1. \A i \in 1..Len(docs[d]) : i \in 1..(Len(docs[d]) + n) /\ i <= Len(docs[d])
    BY <1>0
  <2> QED BY <1>0, <1>1, <2>1
<1>3. SlicePlaces(d, Idle) /\ DocsNumbered(d, Idle) /\ Applied(d)
  BY DEF DwptInv
<1>4. /\ phase[d] = "none" => Len(docs[d]) = 0
      /\ phase[d] = "indexing" => deleteSlice'[d] = deleteSlice[d]
  BY <1>3 DEF DocsNumbered, SliceOf
<1>5. /\ deleteSlice'[d].head = deleteSlice'[d].tail /\ deleteSlice'[d].tail <= tail
      /\ deleteSlice'[d].head \in Nat
  <2>1. CASE phase[d] = "none"
    <3>1. deleteSlice'[d] = EmptySlice(tail)
      BY <2>1 DEF SliceOf
    <3> QED BY <1>0, <3>1 DEF EmptySlice
  <2>2. CASE phase[d] = "indexing"
    BY <1>0, <1>3, <1>4, <2>2, IdleType DEF SlicePlaces, Numbered
  <2> QED BY <2>1, <2>2
<1>6. ASSUME NEW i \in 1..(Len(docs[d]) + n), docs'[d][i].seqNo # 0
      PROVE  pendingUpdates'[d][docs'[d][i].key] >= i <=> HitUpto(d, i, deleteSlice[d].head)'
  <2>1. i \in 1..Len(docs[d]) /\ docs'[d][i] = docs[d][i] /\ phase[d] = "indexing"
    BY <1>0, <1>1, <1>2, <1>4, <1>6
  <2>2. pendingUpdates[d][docs[d][i].key] >= i <=> HitUpto(d, i, deleteSlice[d].head)
    BY <1>3, <1>6, <2>1 DEF Applied, Buffering
  <2>3. HitUpto(d, i, deleteSlice[d].head)' <=> HitUpto(d, i, deleteSlice[d].head)
    BY <1>4, <2>1 DEF HitUpto
  <2> QED BY <2>1, <2>2, <2>3
<1>7. Applied(d)'
  BY <1>1, <1>6 DEF Applied
<1> QED BY <1>0, <1>1, <1>2, <1>4, <1>5, <1>7

LEMMA StartUpdateOwn ==
    ASSUME Around, UNCHANGED <<nodes, nextSeqNo, cuts>>, NEW d \in Dwpts, NEW k \in Keys, NEW n \in Nat,
           DwptInv(d, Idle), phase[d] \in {"none", "indexing"}, deleteSlice'[d] = SliceOf(d),
           docs'[d] = WithBlock(docs[d], n, k), pendingUpdates'[d] = pendingUpdates[d],
           phase'[d] = "indexing", deleteDocIDs'[d] = deleteDocIDs[d],
           NEW c \in Call, c.pc = "add", c.block = n
    PROVE  DwptInv(d, c)'
<1> DEFINE L == Len(docs[d])
<1>1. /\ Len(docs'[d]) = L + n /\ L \in Nat
      /\ \A i \in 1..L : docs'[d][i] = docs[d][i]
      /\ \A i \in 1..(L + n) : i > L => docs'[d][i].seqNo = 0
      /\ deleteSlice'[d].head = deleteSlice'[d].tail /\ deleteSlice'[d].tail <= tail
      /\ deleteSlice'[d].head \in Nat
      /\ phase[d] = "none" => L = 0
      /\ phase[d] = "indexing" => deleteSlice'[d] = deleteSlice[d]
      /\ Applied(d)'
  BY NewBlock
<1> HIDE DEF L
<1>2. tail' = tail /\ Finished(d, c)' = L /\ Finished(d, Idle) = L
  BY <1>1, IdleType DEF tail, Finished, L
<1>3. DocsNumbered(d, Idle) /\ OnlyFinished(d, Idle) /\ Later(d, Idle)
  BY DEF DwptInv
<1>4. CallFits(d, c)'
  BY <1>1 DEF CallFits, Numbered, Updating
<1>5. SlicePlaces(d, c)'
  BY <1>1, <1>2 DEF SlicePlaces, Numbered
<1>6. DocsNumbered(d, c)'
  <2>1. \A i \in 1..L : /\ docs[d][i].seqNo < nextSeqNo
                        /\ phase[d] = "indexing"
                        /\ docs[d][i].seqNo = 0 <=> i \in deleteDocIDs[d]
    BY <1>1, <1>3, IdleType DEF DocsNumbered, Buffering, L
  <2>2. \A i \in deleteDocIDs[d] : i <= L
    BY <1>2, <1>3 DEF OnlyFinished
  <2>3. nextSeqNo \in Nat \ {0}
    BY DEF Around, TypeOK, QueueTypeOK
  <2>4. \A i \in 1..(L + n) : IF i > L THEN TRUE ELSE i \in 1..L
    BY <1>1
  <2>5. ASSUME NEW i \in 1..(L + n)
        PROVE  /\ docs'[d][i].seqNo < nextSeqNo
               /\ docs'[d][i].seqNo = 0 <=> i \in deleteDocIDs[d] \/ i > L
    <3>1. CASE i \in 1..L
      BY <1>1, <2>1, <3>1
    <3>2. CASE i > L
      BY <1>1, <2>2, <2>3, <3>2
    <3> QED BY <2>4, <3>1, <3>2
  <2> QED BY <1>1, <1>2, <2>5 DEF DocsNumbered, Numbered, Buffering
<1>7. OnlyFinished(d, c)'
  BY <1>2, <1>3 DEF OnlyFinished
<1>8. Later(d, c)'
  <2>1. ASSUME NEW i \in 1..(L + n), NEW p \in 1..tail, i <= L, p > deleteSlice'[d].head
        PROVE  docs'[d][i].seqNo < nodes[p].seqNo
    <3>1. i \in 1..L /\ phase[d] = "indexing" /\ deleteSlice'[d] = deleteSlice[d]
      BY <1>1, <2>1
    <3> QED BY <1>1, <1>2, <1>3, <2>1, <3>1 DEF Later, Buffering, L
  <2> QED BY <1>1, <1>2, <2>1 DEF Later
<1> QED BY <1>1, <1>4, <1>5, <1>6, <1>7, <1>8 DEF DwptInv, LiveDocs

\* The documents of a block that failed are all marked.
LEMMA FailUpdateOwn ==
    ASSUME Around, UNCHANGED <<nodes, nextSeqNo, cuts>>, NEW d \in Dwpts, NEW k \in Keys, NEW n \in Nat,
           DwptInv(d, Idle), phase[d] \in {"none", "indexing"}, deleteSlice'[d] = SliceOf(d),
           docs'[d] = WithBlock(docs[d], n, k), pendingUpdates'[d] = pendingUpdates[d],
           phase'[d] = "indexing",
           deleteDocIDs'[d] = deleteDocIDs[d] \cup (Len(docs[d]) + 1)..(Len(docs[d]) + n)
    PROVE  DwptInv(d, Idle)'
<1> DEFINE L == Len(docs[d])
<1>1. /\ Len(docs'[d]) = L + n /\ L \in Nat
      /\ \A i \in 1..L : docs'[d][i] = docs[d][i]
      /\ \A i \in 1..(L + n) : i > L => docs'[d][i].seqNo = 0
      /\ deleteSlice'[d].head = deleteSlice'[d].tail /\ deleteSlice'[d].tail <= tail
      /\ deleteSlice'[d].head \in Nat
      /\ phase[d] = "none" => L = 0
      /\ phase[d] = "indexing" => deleteSlice'[d] = deleteSlice[d]
      /\ Applied(d)'
  BY NewBlock
<1>a. deleteDocIDs'[d] = deleteDocIDs[d] \cup (L + 1)..(L + n) /\ deleteDocIDs[d] \subseteq Nat
  BY DwptTypes
<1>b. \A k2 \in Keys : pendingUpdates[d][k2] \in Int
  BY DwptTypes
<1> HIDE DEF L
<1>2. /\ tail' = tail /\ Finished(d, Idle)' = L + n /\ Finished(d, Idle) = L
      /\ Idle.block = 0 /\ Idle.pc = "idle" /\ Idle' = Idle
  BY <1>1, IdleType DEF tail, Finished, L, Idle
<1>3. DocsNumbered(d, Idle) /\ OnlyFinished(d, Idle) /\ Later(d, Idle)
  BY DEF DwptInv
<1>4. CallFits(d, Idle)'
  BY <1>1, <1>2 DEF CallFits, Numbered, Updating
<1>5. SlicePlaces(d, Idle)'
  BY <1>1, <1>2 DEF SlicePlaces, Numbered
<1>6. DocsNumbered(d, Idle)'
  <2>1. \A i \in 1..L : /\ docs[d][i].seqNo < nextSeqNo
                        /\ phase[d] = "indexing"
                        /\ docs[d][i].seqNo = 0 <=> i \in deleteDocIDs[d]
    BY <1>1, <1>2, <1>3 DEF DocsNumbered, Buffering, L
  <2>2. \A i \in deleteDocIDs[d] : i <= L
    BY <1>2, <1>3 DEF OnlyFinished
  <2>3. nextSeqNo \in Nat \ {0}
    BY DEF Around, TypeOK, QueueTypeOK
  <2>4. \A i \in 1..(L + n) : IF i > L THEN i \in (L + 1)..(L + n) ELSE i \in 1..L
    BY <1>1
  <2>5. ASSUME NEW i \in 1..(L + n)
        PROVE  /\ docs'[d][i].seqNo < nextSeqNo
               /\ docs'[d][i].seqNo = 0 <=> i \in deleteDocIDs'[d]
    <3>1. CASE i \in 1..L
      <4>1. i \notin (L + 1)..(L + n)
        BY <1>1, <3>1
      <4> QED BY <1>1, <1>a, <2>1, <3>1, <4>1
    <3>2. CASE i > L
      BY <1>1, <1>a, <2>3, <2>4, <3>2
    <3> QED BY <2>4, <3>1, <3>2
  <2> QED BY <1>1, <1>2, <2>5 DEF DocsNumbered, Numbered, Buffering
<1>7. OnlyFinished(d, Idle)'
  <2>1. \A i \in deleteDocIDs'[d] : 0 < i /\ i <= L + n
    BY <1>1, <1>2, <1>3, <1>a DEF OnlyFinished
  <2>2. \A k2 \in Keys : pendingUpdates'[d][k2] <= L + n
    BY <1>1, <1>2, <1>3, <1>b DEF OnlyFinished
  <2> QED BY <1>2, <2>1, <2>2 DEF OnlyFinished
<1>8. Later(d, Idle)'
  <2>1. ASSUME NEW i \in 1..(L + n), NEW p \in 1..tail, p > deleteSlice'[d].head
        PROVE  docs'[d][i].seqNo < nodes[p].seqNo
    <3>1. CASE i > L
      BY <1>1, <2>1, <3>1 DEF Around, QueueOrdered
    <3>2. CASE i <= L
      <4>1. i \in 1..L /\ phase[d] = "indexing" /\ deleteSlice'[d] = deleteSlice[d]
        BY <1>1, <2>1, <3>2
      <4> QED BY <1>1, <1>2, <1>3, <2>1, <3>2, <4>1 DEF Later, Buffering, L
    <3> QED BY <1>1, <3>1, <3>2
  <2> QED BY <1>1, <1>2, <2>1 DEF Later
<1> QED BY <1>1, <1>4, <1>5, <1>6, <1>7, <1>8 DEF DwptInv, LiveDocs

\* An update gets its number: the slice ends at the tail of that moment, and
\* the block that is already in RAM is numbered.
LEMMA NumberOwn ==
    ASSUME Around, QueueGrows, NEW d \in Dwpts, NEW c \in Call, NEW e \in Call, DwptInv(d, c),
           c.pc = "add", e.pc \in Numbered, e.block = c.block, e.seqNo = nextSeqNo,
           ~e.applySlice => deleteSlice[d].tail = tail' \/ Len(docs[d]) = 0,
           nextSeqNo' = nextSeqNo + 1, \A p \in 1..tail' : nodes'[p].seqNo <= nextSeqNo,
           deleteSlice'[d] = SliceUpto(deleteSlice[d], tail'),
           docs'[d] = IF c.block = 0 THEN docs[d]
                      ELSE Renumbered(docs[d], (Len(docs[d]) - c.block + 1)..Len(docs[d]), nextSeqNo),
           phase'[d] = phase[d], pendingUpdates'[d] = pendingUpdates[d],
           deleteDocIDs'[d] = deleteDocIDs[d]
    PROVE  DwptInv(d, e)'
<1> DEFINE L == Len(docs[d])
           F == Len(docs[d]) - c.block
           h == deleteSlice[d].head
<1>1. /\ docs[d] \in Seq(Doc) /\ L \in Nat /\ tail \in Nat /\ deleteSlice[d] \in Slice
      /\ h \in Nat /\ deleteSlice[d].tail \in Nat
      /\ \A i \in 1..L : docs[d][i].key \in Keys /\ docs[d][i].seqNo \in Nat
      /\ \A p \in 1..tail : nodes[p].seqNo \in Nat
      /\ \A k \in Keys : pendingUpdates[d][k] \in Int
  BY DwptTypes
<1>2. /\ CallFits(d, c) /\ SlicePlaces(d, c) /\ DocsNumbered(d, c) /\ OnlyFinished(d, c)
      /\ Later(d, c) /\ Applied(d)
  BY DEF DwptInv
<1>3. c.block \in Nat /\ c.block <= L /\ phase[d] = "indexing" /\ F \in Nat /\ F <= L
  <2>1. c.block \in Nat
    BY CallFields
  <2> QED BY <1>1, <1>2, <2>1 DEF CallFits, Updating
<1>4. nextSeqNo \in Nat /\ 0 < nextSeqNo /\ nextSeqNo < nextSeqNo'
  <2>1. nextSeqNo \in Nat \ {0}
    BY DEF Around, TypeOK, QueueTypeOK
  <2> QED BY <2>1
<1>5. /\ Len(docs'[d]) = L
      /\ \A i \in 1..L : /\ docs'[d][i].key = docs[d][i].key
                         /\ docs'[d][i].seqNo = IF i > F THEN nextSeqNo ELSE docs[d][i].seqNo
  <2>1. CASE c.block = 0
    BY <1>1, <1>3, <2>1
  <2>2. CASE c.block # 0
    <3> DEFINE ids == (Len(docs[d]) - c.block + 1)..Len(docs[d])
               r == Renumbered(docs[d], ids, nextSeqNo)
    <3>1. docs'[d] = r
      BY <2>2
    <3>2. \A i \in 1..Len(docs[d]) : i \in ids <=> i > F
      BY <1>1, <1>3
    <3> HIDE DEF ids
    <3>3. /\ Len(r) = Len(docs[d])
          /\ \A i \in 1..Len(docs[d]) : /\ r[i].key = docs[d][i].key
                                       /\ r[i].seqNo = IF i \in ids THEN nextSeqNo ELSE docs[d][i].seqNo
      BY <1>1, <1>4, RenumberedProperties
    <3> HIDE DEF r, F
    <3> QED BY <3>1, <3>2, <3>3
  <2> QED BY <2>1, <2>2
<1>6. /\ deleteSlice'[d].head = h /\ deleteSlice'[d].tail = tail' /\ h <= tail /\ h = deleteSlice[d].tail
      /\ tail' \in Nat /\ tail <= tail'
      /\ \A p \in 1..tail : nodes'[p] = nodes[p]
  BY <1>1, <1>2 DEF SliceUpto, SlicePlaces, Numbered, QueueGrows
<1>7. Finished(d, c) = F /\ Finished(d, e)' = F
  BY <1>5 DEF Finished
<1> HIDE DEF L, F
<1>8. CallFits(d, e)'
  BY <1>3, <1>4, <1>5 DEF CallFits, Numbered, Updating
<1>9. SlicePlaces(d, e)'
  <2>1. ~e.applySlice => h = tail' \/ L = 0
    BY <1>6 DEF L
  <2>2. \A p \in 1..tail' : p <= tail' <=> nodes'[p].seqNo <= e.seqNo
    BY <1>6
  <2>3. phase'[d] \notin {"frozen", "flushed"} /\ e.pc \notin {"prepare"}
    BY <1>3 DEF Numbered
  <2>4. h <= tail'
    BY <1>1, <1>6
  <2> QED BY <1>5, <1>6, <2>1, <2>2, <2>3, <2>4 DEF SlicePlaces
<1>10. DocsNumbered(d, e)'
  <2>1. \A i \in 1..L : /\ docs[d][i].seqNo < nextSeqNo
                        /\ docs[d][i].seqNo = 0 <=> i \in deleteDocIDs[d] \/ i > F
    BY <1>2, <1>3, <1>7 DEF DocsNumbered, Buffering, L
  <2>2. \A i \in deleteDocIDs[d] : i <= F
    BY <1>2, <1>7 DEF OnlyFinished
  <2>3. ASSUME NEW i \in 1..L
        PROVE  /\ docs'[d][i].seqNo < nextSeqNo'
               /\ docs'[d][i].seqNo = 0 <=> i \in deleteDocIDs[d]
               /\ IF i > F THEN docs'[d][i].seqNo = nextSeqNo ELSE docs'[d][i].seqNo < nextSeqNo
    <3>1. CASE i > F
      <4>1. i \notin deleteDocIDs[d]
        BY <1>3, <2>2, <3>1
      <4> QED BY <1>4, <1>5, <3>1, <4>1
    <3>2. CASE ~(i > F)
      BY <1>1, <1>4, <1>5, <2>1, <3>2
    <3> QED BY <3>1, <3>2
  <2> QED BY <1>3, <1>5, <1>7, <2>3 DEF DocsNumbered, Numbered
<1>11. OnlyFinished(d, e)'
  BY <1>2, <1>7 DEF OnlyFinished
<1>12. Later(d, e)'
  <2>1. ASSUME NEW i \in 1..L, NEW p \in 1..tail', i <= F, p > h
        PROVE  docs'[d][i].seqNo < nodes'[p].seqNo
    <3>1. docs'[d][i].seqNo = docs[d][i].seqNo /\ docs[d][i].seqNo < nextSeqNo
      BY <1>2, <1>3, <1>5, <2>1 DEF DocsNumbered, L
    <3>2. CASE p <= tail
      <4>1. p \in 1..tail
        BY <1>1, <1>6, <3>2
      <4>2. docs[d][i].seqNo < nodes[p].seqNo
        BY <1>2, <1>3, <1>7, <2>1, <4>1 DEF Later, Buffering, L
      <4> QED BY <1>6, <3>1, <4>1, <4>2
    <3>3. CASE p > tail
      BY <1>1, <1>4, <2>1, <3>1, <3>3 DEF QueueGrows
    <3> QED BY <1>1, <1>6, <3>2, <3>3
  <2> QED BY <1>5, <1>6, <1>7, <2>1 DEF Later
<1>13. Applied(d)'
  <2>1. ASSUME NEW i \in 1..L, docs'[d][i].seqNo # 0
        PROVE  pendingUpdates[d][docs[d][i].key] >= i
                  <=> \E p \in 1..h : nodes'[p].key = docs[d][i].key /\ nodes'[p].seqNo > docs'[d][i].seqNo
    <3>1. \A p \in 1..h : p \in 1..tail /\ nodes'[p] = nodes[p]
      BY <1>1, <1>6
    <3>2. CASE i > F
      <4>1. \A p \in 1..h : nodes'[p].seqNo \in Nat /\ nodes'[p].seqNo <= nextSeqNo
        BY <1>1, <1>6, <3>1
      <4>2. pendingUpdates[d][docs[d][i].key] <= F
        BY <1>1, <1>2, <1>7 DEF OnlyFinished
      <4>3. pendingUpdates[d][docs[d][i].key] \in Int
        BY <1>1
      <4> QED BY <1>3, <1>4, <1>5, <3>2, <4>1, <4>2, <4>3
    <3>3. CASE ~(i > F)
      <4>1. docs'[d][i].seqNo = docs[d][i].seqNo
        BY <1>5, <3>3
      <4>2. pendingUpdates[d][docs[d][i].key] >= i <=> HitUpto(d, i, h)
        BY <1>2, <1>3, <2>1, <4>1 DEF Applied, Buffering, L
      <4> QED BY <3>1, <4>1, <4>2 DEF HitUpto
    <3> QED BY <3>2, <3>3
  <2> HIDE DEF h
  <2> QED BY <1>5, <1>6, <2>1 DEF Applied, HitUpto
<1> QED BY <1>3, <1>8, <1>9, <1>10, <1>11, <1>12, <1>13 DEF DwptInv, LiveDocs

\* A call with its number goes on without touching the DWPT or the queue.
LEMMA GoOn ==
    ASSUME Around, QueueGrows, NEW d \in Dwpts, NEW c \in Call, NEW e \in Call, DwptInv(d, c), SameDwpt(d),
           e.block = c.block, e.pc \in Numbered => e.seqNo = c.seqNo /\ e.applySlice = c.applySlice,
           \/ e.pc = c.pc
           \/ c.pc \in Numbered /\ e.pc \in Numbered
           \/ c.pc \in {"idle", "lock", "locked"} /\ e.pc \in {"idle", "lock", "locked"}
              /\ (e.pc # "idle" => phase[d] = "indexing")
    PROVE  DwptInv(d, e)'
<1>1. DwptInv(d, c)'
  BY Frame
<1>2. CallFits(d, e)'
  BY <1>1 DEF DwptInv, CallFits, Numbered, Updating, SameDwpt
<1>3. SlicePlaces(d, e)'
  BY <1>1 DEF DwptInv, SlicePlaces, Numbered
<1>4. DocsNumbered(d, e)'
  BY <1>1 DEF DwptInv, DocsNumbered, Numbered, Finished
<1>5. OnlyFinished(d, e)' /\ Later(d, e)'
  BY <1>1 DEF DwptInv, OnlyFinished, Later, Finished
<1> QED BY <1>1, <1>2, <1>3, <1>4, <1>5 DEF DwptInv

\* A slice applied to the finished documents leaves the effect of all nodes up
\* to its tail: what lies between head and tail comes after each of them.
LEMMA SliceApplied ==
    ASSUME PutReplaces = TRUE, Around, NEW d \in Dwpts, NEW c \in Call, DwptInv(d, c), phase[d] \in Buffering,
           NEW pending, pending = AddTerms(pendingUpdates[d], SliceKeys(deleteSlice[d]), Finished(d, c))
    PROVE  /\ \A k \in Keys : pending[k] \in Int /\ pending[k] <= Finished(d, c)
           /\ \A i \in 1..Len(docs[d]) : i <= Finished(d, c) /\ docs[d][i].seqNo # 0 =>
                 (pending[docs[d][i].key] >= i <=> HitUpto(d, i, deleteSlice[d].tail))
<1> DEFINE F == Finished(d, c)
           ks == SliceKeys(deleteSlice[d])
<1>1. /\ tail \in Nat /\ deleteSlice[d].head \in Nat /\ deleteSlice[d].tail \in Nat
      /\ \A i \in 1..Len(docs[d]) : docs[d][i].key \in Keys /\ docs[d][i].seqNo \in Nat
      /\ \A p \in 1..tail : nodes[p].seqNo \in Nat
      /\ Len(docs[d]) \in Nat
  BY DwptTypes
<1>2. pendingUpdates[d] \in [Keys -> Int]
  BY DEF Around, TypeOK, DwptTypeOK
<1>3. CallFits(d, c) /\ SlicePlaces(d, c) /\ OnlyFinished(d, c) /\ Later(d, c) /\ Applied(d)
  BY DEF DwptInv
<1>4. F \in Nat
  BY <1>1, <1>3, CallFields DEF CallFits, Finished
<1>5. deleteSlice[d].head <= deleteSlice[d].tail /\ deleteSlice[d].tail <= tail
  BY <1>3 DEF SlicePlaces
<1>6. \A k \in Keys : pendingUpdates[d][k] \in Int /\ pendingUpdates[d][k] <= F
  BY <1>2, <1>3 DEF OnlyFinished
<1> HIDE DEF F, ks
<1>7. \A k \in Keys : pending[k] = IF k \in ks THEN AddTerm(pendingUpdates[d][k], F) ELSE pendingUpdates[d][k]
  <2>1. pending = AddTerms(pendingUpdates[d], ks, F) /\ F \in Int
    BY <1>4 DEF ks, F
  <2> QED BY <1>2, <2>1, AddTermsProperties
<1>8. \A k \in Keys : pending[k] = IF k \in ks THEN F ELSE pendingUpdates[d][k]
  <2>1. \A k \in Keys : AddTerm(pendingUpdates[d][k], F) = F
    BY <1>4, <1>6 DEF AddTerm, NoUpto
  <2> QED BY <1>7, <2>1
<1>9. ASSUME NEW i \in 1..Len(docs[d]), i <= F, docs[d][i].seqNo # 0
      PROVE  pending[docs[d][i].key] >= i <=> HitUpto(d, i, deleteSlice[d].tail)
  <2> DEFINE k == docs[d][i].key
  <2>1. k \in Keys
    BY <1>1
  <2>2. pendingUpdates[d][k] >= i <=> HitUpto(d, i, deleteSlice[d].head)
    BY <1>3, <1>9 DEF Applied
  <2>3. CASE k \in ks
    <3>1. PICK p \in (deleteSlice[d].head + 1)..deleteSlice[d].tail : nodes[p].key = k
      BY <2>3 DEF ks, SliceKeys
    <3>2. p \in 1..tail /\ p \in 1..deleteSlice[d].tail /\ p > deleteSlice[d].head
      BY <1>1, <1>5
    <3>3. docs[d][i].seqNo < nodes[p].seqNo
      BY <1>3, <1>9, <3>2 DEF Later, F
    <3>4. HitUpto(d, i, deleteSlice[d].tail)
      BY <1>1, <3>1, <3>2, <3>3 DEF HitUpto
    <3>5. pending[k] = F
      BY <1>8, <2>1, <2>3
    <3> QED BY <1>4, <1>9, <3>4, <3>5
  <2>4. CASE k \notin ks
    <3>1. HitUpto(d, i, deleteSlice[d].tail) <=> HitUpto(d, i, deleteSlice[d].head)
      <4>1. \A p \in 1..deleteSlice[d].tail : p > deleteSlice[d].head => nodes[p].key # k
        BY <1>1, <2>4 DEF ks, SliceKeys
      <4>2. \A p \in 1..deleteSlice[d].head : p \in 1..deleteSlice[d].tail
        BY <1>1, <1>5
      <4>3. \A p \in 1..deleteSlice[d].tail : p <= deleteSlice[d].head => p \in 1..deleteSlice[d].head
        BY <1>1
      <4> QED BY <1>1, <4>1, <4>2, <4>3 DEF HitUpto
    <3>2. pending[k] = pendingUpdates[d][k]
      BY <1>8, <2>1, <2>4
    <3> QED BY <2>2, <3>1, <3>2
  <2> QED BY <2>3, <2>4
<1>10. \A k \in Keys : pending[k] \in Int /\ pending[k] <= F
  BY <1>4, <1>6, <1>8
<1> QED BY <1>9, <1>10 DEF F

\* The end of an update: its documents are finished, and all that its slice
\* holds has been applied to those before.
LEMMA FinishOwn ==
    ASSUME PutReplaces = TRUE, Around, UNCHANGED <<nodes, nextSeqNo, cuts>>,
           NEW d \in Dwpts, NEW c \in Call, DwptInv(d, c), c.pc \in Numbered,
           NEW doc \in Doc, doc.seqNo = c.seqNo,
           c.applySlice => pendingUpdates'[d] = AddTerms(pendingUpdates[d], SliceKeys(deleteSlice[d]), Finished(d, c)),
           ~c.applySlice => pendingUpdates'[d] = pendingUpdates[d],
           deleteSlice'[d] = EmptySlice(deleteSlice[d].tail),
           c.block = 0 => docs'[d] = Append(docs[d], doc),
           c.block # 0 => docs'[d] = docs[d],
           phase'[d] = phase[d], deleteDocIDs'[d] = deleteDocIDs[d]
    PROVE  DwptInv(d, Idle)'
<1> DEFINE L == Len(docs[d])
           F == Finished(d, c)
           M == IF c.block = 0 THEN L + 1 ELSE L
           h == deleteSlice[d].tail
<1>1. /\ docs[d] \in Seq(Doc) /\ L \in Nat /\ tail \in Nat /\ tail' = tail
      /\ h \in Nat /\ deleteSlice[d].head \in Nat
      /\ \A i \in 1..L : docs[d][i].key \in Keys /\ docs[d][i].seqNo \in Nat
      /\ \A p \in 1..tail : nodes[p].seqNo \in Nat
      /\ \A k \in Keys : pendingUpdates[d][k] \in Int
      /\ nextSeqNo \in Nat
  BY DwptTypes DEF tail
<1>2. /\ CallFits(d, c) /\ SlicePlaces(d, c) /\ DocsNumbered(d, c) /\ OnlyFinished(d, c)
      /\ Later(d, c) /\ Applied(d)
  BY DEF DwptInv
<1>3. /\ c.block \in Nat /\ phase[d] = "indexing" /\ F \in Nat /\ F = L - c.block /\ F <= L
      /\ 0 < c.seqNo /\ c.seqNo < nextSeqNo /\ c.seqNo \in Nat
  BY <1>1, <1>2, CallFields DEF CallFits, Updating, Numbered, Finished
<1>4. /\ Len(docs'[d]) = M /\ M \in Nat /\ F < M
      /\ \A i \in 1..L : docs'[d][i] = docs[d][i]
      /\ \A i \in 1..M : i \in 1..L \/ (i = L + 1 /\ F = L)
      /\ F = L => docs'[d][L + 1] = doc
  <2>2. c.block = 0 <=> F = L
    BY <1>1, <1>3
  <2>3. CASE c.block = 0
    <3>1. Len(docs'[d]) = L + 1 /\ docs'[d][L + 1] = doc
          /\ \A i \in 1..L : docs'[d][i] = docs[d][i]
      BY <1>1, <2>3
    <3> QED BY <1>1, <1>3, <2>2, <2>3, <3>1
  <2>4. CASE c.block # 0
    BY <1>1, <1>3, <2>2, <2>4
  <2> QED BY <2>3, <2>4
<1>5. Finished(d, Idle)' = M
  BY <1>4, IdleType DEF Finished, Idle
<1>6. h <= tail /\ deleteSlice'[d].head = h /\ deleteSlice'[d].tail = h /\ deleteSlice[d].head <= h
      /\ \A p \in 1..tail : p <= h <=> nodes[p].seqNo <= c.seqNo
  BY <1>1, <1>2 DEF SlicePlaces, EmptySlice
<1>7. /\ \A k \in Keys : pendingUpdates'[d][k] \in Int /\ pendingUpdates'[d][k] <= F
      /\ \A i \in 1..L : i <= F /\ docs[d][i].seqNo # 0 =>
            (pendingUpdates'[d][docs[d][i].key] >= i <=> HitUpto(d, i, h))
  <2>1. CASE c.applySlice
    <3>1. pendingUpdates'[d] = AddTerms(pendingUpdates[d], SliceKeys(deleteSlice[d]), Finished(d, c))
      BY <2>1
    <3>2. phase[d] \in Buffering
      BY <1>3 DEF Buffering
    <3> QED BY <3>1, <3>2, SliceApplied
  <2>2. CASE ~c.applySlice
    <3>1. pendingUpdates'[d] = pendingUpdates[d]
      BY <2>2
    <3>2. deleteSlice[d].head = h \/ L = 0
      BY <1>2, <2>2 DEF SlicePlaces
    <3>3. \A k \in Keys : pendingUpdates[d][k] <= F
      BY <1>2 DEF OnlyFinished
    <3>4. ASSUME NEW i \in 1..L, i <= F, docs[d][i].seqNo # 0
          PROVE  pendingUpdates[d][docs[d][i].key] >= i <=> HitUpto(d, i, h)
      <4>1. deleteSlice[d].head = h
        BY <1>1, <3>2, <3>4
      <4>2. pendingUpdates[d][docs[d][i].key] >= i <=> HitUpto(d, i, deleteSlice[d].head)
        BY <1>2, <1>3, <3>4 DEF Applied, Buffering
      <4> QED BY <4>1, <4>2
    <3> QED BY <1>1, <3>1, <3>3, <3>4
  <2> QED BY <2>1, <2>2
<1> HIDE DEF L, F, M, h
<1>8. \A i \in 1..M : /\ i \in Nat
                      /\ IF i > F THEN docs'[d][i].seqNo = c.seqNo ELSE docs'[d][i].seqNo < c.seqNo
                      /\ docs'[d][i].seqNo \in Nat /\ docs'[d][i].key \in Keys
                      /\ i <= F => i \in 1..L /\ docs'[d][i] = docs[d][i]
  <2>1. \A i \in 1..L : IF i > F THEN docs[d][i].seqNo = c.seqNo ELSE docs[d][i].seqNo < c.seqNo
    BY <1>2 DEF DocsNumbered, L, F
  <2>2. ASSUME NEW i \in 1..L
        PROVE  /\ IF i > F THEN docs'[d][i].seqNo = c.seqNo ELSE docs'[d][i].seqNo < c.seqNo
               /\ docs'[d][i].seqNo \in Nat /\ docs'[d][i].key \in Keys
               /\ i <= F => i \in 1..L /\ docs'[d][i] = docs[d][i]
    BY <1>1, <1>4, <2>1
  <2>3. ASSUME F = L
        PROVE  /\ docs'[d][L + 1].seqNo = c.seqNo /\ docs'[d][L + 1].key \in Keys
               /\ L + 1 > F
    BY <1>1, <1>4, <2>3 DEF Doc
  <2>4. ASSUME NEW i \in 1..M
        PROVE  /\ i \in Nat
               /\ IF i > F THEN docs'[d][i].seqNo = c.seqNo ELSE docs'[d][i].seqNo < c.seqNo
               /\ docs'[d][i].seqNo \in Nat /\ docs'[d][i].key \in Keys
               /\ i <= F => i \in 1..L /\ docs'[d][i] = docs[d][i]
    <3>0. i \in Nat
      BY <1>4
    <3>1. CASE i \in 1..L
      BY <2>2, <3>0, <3>1
    <3>2. CASE i = L + 1 /\ F = L
      <4>1. docs'[d][i].seqNo = c.seqNo /\ docs'[d][i].key \in Keys /\ i > F
        BY <2>3, <3>2
      <4> QED BY <1>3, <3>0, <4>1
    <3> QED BY <1>4, <3>1, <3>2
  <2> QED BY <2>4
<1>9. CallFits(d, Idle)'
  <2>1. Idle' = Idle /\ Idle.pc = "idle" /\ Idle.block = 0
    BY IdleType DEF Idle
  <2> QED BY <1>3, <1>4, <2>1 DEF CallFits, Numbered, Updating
<1>a. Idle' = Idle /\ Idle.pc = "idle"
  BY IdleType DEF Idle
<1>10. SlicePlaces(d, Idle)'
  BY <1>1, <1>3, <1>6, <1>a DEF SlicePlaces, Numbered
<1>11. DocsNumbered(d, Idle)'
  <2>1. \A i \in deleteDocIDs[d] : i <= F
    BY <1>2 DEF OnlyFinished, F
  <2>2. ASSUME NEW i \in 1..M
        PROVE  docs'[d][i].seqNo < nextSeqNo /\ (docs'[d][i].seqNo = 0 <=> i \in deleteDocIDs[d])
    <3>1. CASE i > F
      <4>1. i \notin deleteDocIDs[d]
        BY <1>3, <2>1, <3>1
      <4> QED BY <1>3, <1>8, <3>1, <4>1
    <3>2. CASE ~(i > F)
      <4>1. i \in 1..L /\ docs'[d][i] = docs[d][i]
        BY <1>3, <1>8, <3>2
      <4>2. docs[d][i].seqNo = 0 <=> i \in deleteDocIDs[d]
        BY <1>2, <1>3, <4>1 DEF DocsNumbered, Buffering, Numbered, L
      <4>3. docs'[d][i].seqNo < c.seqNo /\ docs'[d][i].seqNo \in Nat
        BY <1>8, <3>2
      <4>4. docs'[d][i].seqNo < nextSeqNo
        BY <1>1, <1>3, <4>3
      <4> QED BY <4>1, <4>2, <4>4
    <3> QED BY <3>1, <3>2
  <2> QED BY <1>3, <1>4, <1>a, <2>2 DEF DocsNumbered, Numbered
<1>12. OnlyFinished(d, Idle)'
  <2>1. \A i \in deleteDocIDs[d] : 0 < i /\ i <= F
    BY <1>2 DEF OnlyFinished, F
  <2>2. deleteDocIDs[d] \subseteq Nat
    BY DwptTypes
  <2> QED BY <1>3, <1>4, <1>5, <1>7, <2>1, <2>2 DEF OnlyFinished
<1>13. Later(d, Idle)'
  <2>1. ASSUME NEW i \in 1..M, NEW p \in 1..tail, p > h PROVE docs'[d][i].seqNo < nodes[p].seqNo
    <3>1. ~(nodes[p].seqNo <= c.seqNo)
      BY <1>1, <1>6, <2>1
    <3>2. docs'[d][i].seqNo \in Nat /\ docs'[d][i].seqNo <= c.seqNo
      BY <1>3, <1>8
    <3>3. nodes[p].seqNo \in Nat /\ c.seqNo \in Nat
      BY <1>1, <1>3
    <3> QED BY <3>1, <3>2, <3>3
  <2> QED BY <1>1, <1>4, <1>6, <2>1 DEF Later
<1>14. Applied(d)'
  <2>1. ASSUME NEW i \in 1..M, docs'[d][i].seqNo # 0
        PROVE  pendingUpdates'[d][docs'[d][i].key] >= i <=>
                  \E p \in 1..h : nodes[p].key = docs'[d][i].key /\ nodes[p].seqNo > docs'[d][i].seqNo
    <3>1. CASE i > F
      <4>1. \A p \in 1..h : nodes[p].seqNo \in Nat /\ nodes[p].seqNo <= c.seqNo
        BY <1>1, <1>6
      <4>2. docs'[d][i].seqNo = c.seqNo /\ pendingUpdates'[d][docs'[d][i].key] < i
        BY <1>3, <1>7, <1>8, <3>1
      <4>3. pendingUpdates'[d][docs'[d][i].key] \in Int
        BY <1>7, <1>8
      <4> QED BY <1>3, <4>1, <4>2, <4>3
    <3>2. CASE ~(i > F)
      <4>1. i \in 1..L /\ docs'[d][i] = docs[d][i] /\ i <= F
        BY <1>3, <1>8, <3>2
      <4> QED BY <1>7, <2>1, <4>1 DEF HitUpto
    <3> QED BY <3>1, <3>2
  <2> QED BY <1>4, <1>6, <2>1 DEF Applied, HitUpto
<1> QED BY <1>3, <1>9, <1>10, <1>11, <1>12, <1>13, <1>14 DEF DwptInv, LiveDocs

\* The freeze of a DWPT moves the tail of its slice to the cut.
LEMMA FreezeOwn ==
    ASSUME Around, UNCHANGED <<nodes, nextSeqNo>>, NEW d \in Dwpts, NEW c \in Call, NEW e \in Call,
           DwptInv(d, c), c.pc = "locked", e.pc = "prepare", e.block = c.block,
           deleteSlice'[d] = SliceUpto(deleteSlice[d], tail), phase'[d] = "frozen",
           frozenAt'[d] \in DOMAIN cuts', cuts'[frozenAt'[d]].pos = tail,
           docs'[d] = docs[d], pendingUpdates'[d] = pendingUpdates[d], deleteDocIDs'[d] = deleteDocIDs[d]
    PROVE  DwptInv(d, e)'
<1>1. /\ CallFits(d, c) /\ SlicePlaces(d, c) /\ DocsNumbered(d, c) /\ OnlyFinished(d, c)
      /\ Later(d, c) /\ Applied(d)
  BY DEF DwptInv
<1>2. /\ tail \in Nat /\ tail' = tail /\ deleteSlice[d] \in Slice /\ deleteSlice[d].head \in Nat
      /\ deleteSlice[d].tail \in Nat
  BY DwptTypes DEF tail
<1>3. phase[d] = "indexing" /\ Finished(d, e)' = Finished(d, c)
  BY <1>1 DEF CallFits, Finished
<1>4. deleteSlice'[d].head = deleteSlice[d].head /\ deleteSlice'[d].tail = tail /\ deleteSlice[d].head <= tail
  BY <1>1, <1>2 DEF SliceUpto, SlicePlaces
<1>5. CallFits(d, e)'
  BY <1>1 DEF CallFits, Numbered, Updating
<1>6. SlicePlaces(d, e)'
  BY <1>2, <1>4 DEF SlicePlaces, Numbered
<1>7. DocsNumbered(d, e)'
  BY <1>1, <1>3 DEF DocsNumbered, Numbered, Buffering
<1>8. OnlyFinished(d, e)'
  BY <1>1, <1>3 DEF OnlyFinished
<1>9. Later(d, e)'
  BY <1>1, <1>2, <1>3, <1>4 DEF Later, Buffering
<1>10. Applied(d)'
  BY <1>1, <1>3, <1>4 DEF Applied, HitUpto, Buffering
<1> QED BY <1>5, <1>6, <1>7, <1>8, <1>9, <1>10 DEF DwptInv, LiveDocs

\* The flush applies what is left of the slice to all documents.
LEMMA FlushOwn ==
    ASSUME PutReplaces = TRUE, Around, UNCHANGED <<nodes, nextSeqNo, cuts>>, NEW d \in Dwpts, NEW c \in Call,
           DwptInv(d, c), c.pc = "prepare",
           NEW pending, pending = AddTerms(pendingUpdates[d], SliceKeys(deleteSlice[d]), Len(docs[d])),
           liveDocs'[d] = {i \in DOMAIN docs[d] \ deleteDocIDs[d] : pending[docs[d][i].key] < i},
           deleteSlice'[d] = EmptySlice(deleteSlice[d].tail), phase'[d] = "flushed",
           pendingUpdates'[d] = EmptyUpdates(Keys), deleteDocIDs'[d] = {},
           docs'[d] = docs[d], frozenAt'[d] = frozenAt[d]
    PROVE  DwptInv(d, Idle)'
<1>1. CallFits(d, c) /\ SlicePlaces(d, c) /\ DocsNumbered(d, c)
  BY DEF DwptInv
<1>2. /\ tail \in Nat /\ tail' = tail /\ deleteSlice[d].tail \in Nat
      /\ Len(docs[d]) \in Nat /\ DOMAIN docs[d] = 1..Len(docs[d])
      /\ \A i \in 1..Len(docs[d]) : docs[d][i].key \in Keys
  BY DwptTypes DEF tail
<1>3. phase[d] = "frozen" /\ c.block = 0 /\ Finished(d, c) = Len(docs[d])
  BY <1>1, <1>2 DEF CallFits, Finished, Updating
<1>4. Idle' = Idle /\ Idle.pc = "idle" /\ Idle.block = 0 /\ Finished(d, Idle)' = Len(docs[d])
  BY <1>2, IdleType DEF Idle, Finished
<1>5. deleteSlice'[d].head = deleteSlice[d].tail /\ deleteSlice'[d].tail = deleteSlice[d].tail
  BY DEF EmptySlice
<1>6. frozenAt[d] \in DOMAIN cuts /\ deleteSlice[d].tail = cuts[frozenAt[d]].pos /\ deleteSlice[d].tail <= tail
  BY <1>1, <1>3 DEF SlicePlaces
<1>7. CallFits(d, Idle)'
  BY <1>2, <1>4 DEF CallFits, Numbered, Updating
<1>8. SlicePlaces(d, Idle)'
  BY <1>2, <1>4, <1>5, <1>6 DEF SlicePlaces, Numbered
<1>9. DocsNumbered(d, Idle)'
  BY <1>1, <1>4 DEF DocsNumbered, Numbered, Buffering
<1>10. OnlyFinished(d, Idle)'
  BY <1>2, <1>4, EmptyUpdatesType DEF OnlyFinished, NoUpto
<1>11. LiveDocs(d)'
  <2>1. phase[d] \in Buffering /\ pending = AddTerms(pendingUpdates[d], SliceKeys(deleteSlice[d]), Finished(d, c))
    BY <1>3 DEF Buffering
  <2>2. /\ \A k \in Keys : pending[k] \in Int
        /\ \A i \in 1..Len(docs[d]) : i <= Finished(d, c) /\ docs[d][i].seqNo # 0 =>
              (pending[docs[d][i].key] >= i <=> HitUpto(d, i, deleteSlice[d].tail))
    BY <2>1, SliceApplied
  <2>3. ASSUME NEW i \in 1..Len(docs[d])
        PROVE  /\ i \notin deleteDocIDs[d] <=> docs[d][i].seqNo # 0
               /\ docs[d][i].seqNo # 0 => (pending[docs[d][i].key] < i <=> ~HitUpto(d, i, deleteSlice[d].tail))
    <3>1. i \notin deleteDocIDs[d] <=> docs[d][i].seqNo # 0
      BY <1>1, <1>3 DEF DocsNumbered, Buffering
    <3>2. pending[docs[d][i].key] \in Int /\ i <= Finished(d, c)
      BY <1>2, <1>3, <2>2
    <3>3. docs[d][i].seqNo # 0 => (pending[docs[d][i].key] >= i <=> HitUpto(d, i, deleteSlice[d].tail))
      BY <2>2, <3>2
    <3>4. pending[docs[d][i].key] < i <=> ~(pending[docs[d][i].key] >= i)
      BY <1>2, <3>2
    <3> QED BY <3>1, <3>3, <3>4
  <2>4. liveDocs'[d] = {i \in 1..Len(docs[d]) : docs[d][i].seqNo # 0 /\ ~HitUpto(d, i, deleteSlice[d].tail)}
    BY <1>2, <2>3
  <2>5. \A i : HitUpto(d, i, cuts[frozenAt[d]].pos)' <=> HitUpto(d, i, deleteSlice[d].tail)
    BY <1>6 DEF HitUpto
  <2> QED BY <1>2, <2>4, <2>5 DEF LiveDocs
<1> QED BY <1>7, <1>8, <1>9, <1>10, <1>11 DEF DwptInv, Later, Applied, Buffering
------------------------------------------------------------------------------
LEMMA CallsOfType ==
    ASSUME CallTypeOK, NEW d \in Dwpts PROVE CallsOf(d) \subseteq Call
  BY IdleType DEF CallsOf, CallTypeOK

\* A step that changes neither a DWPT nor who has it.
LEMMA OthersKept ==
    ASSUME Around, DwptsInv, QueueGrows, NEW d \in Dwpts, CallsOf(d)' = CallsOf(d), SameDwpt(d),
           NEW c \in CallsOf(d)'
    PROVE  DwptInv(d, c)'
<1>1. c \in CallsOf(d) /\ c \in Call
  BY CallsOfType DEF Around, TypeOK
<1>2. DwptInv(d, c)
  BY <1>1 DEF DwptsInv
<1> QED BY <1>1, <1>2, Frame

\* A step of t in which its call becomes e.
LEMMA Move ==
    ASSUME Around, OneCall, DwptsInv, QueueGrows, NEW t \in Threads, NEW e \in Call,
           call' = [call EXCEPT ![t] = e],
           \/ e.dwpt = NoDwpt
           \/ e.dwpt = call[t].dwpt /\ e.pc # "idle"
           \/ ~Held(e.dwpt) /\ e.pc # "idle",
           \A d \in Dwpts : d # e.dwpt /\ d # call[t].dwpt => SameDwpt(d),
           \A d \in Dwpts : d = e.dwpt => DwptInv(d, e)',
           \A d \in Dwpts : d # e.dwpt /\ d = call[t].dwpt => DwptInv(d, Idle)'
    PROVE  OneCall' /\ DwptsInv'
<1>1. CallTypeOK
  BY DEF Around, TypeOK
<1>2. /\ OneCall'
      /\ \A d \in Dwpts : CallsOf(d)' = IF d = e.dwpt THEN {e}
                                        ELSE IF d = call[t].dwpt THEN {Idle} ELSE CallsOf(d)
  BY <1>1, CallMove
<1>3. ASSUME NEW d \in Dwpts, NEW c \in CallsOf(d)' PROVE DwptInv(d, c)'
  <2>1. CASE d = e.dwpt
    <3>1. c = e
      BY <1>2, <1>3, <2>1
    <3> QED BY <2>1, <3>1
  <2>2. CASE d # e.dwpt /\ d = call[t].dwpt
    <3>1. c = Idle
      BY <1>2, <1>3, <2>2
    <3> QED BY <2>2, <3>1
  <2>3. CASE d # e.dwpt /\ d # call[t].dwpt
    <3>1. CallsOf(d)' = CallsOf(d) /\ SameDwpt(d)
      BY <1>2, <2>3
    <3> QED BY <1>3, <3>1, OthersKept
  <2> QED BY <2>1, <2>2, <2>3
<1>4. DwptsInv'
  BY <1>3 DEF DwptsInv
<1> QED BY <1>2, <1>4

\* What is known of the DWPT a call has, and of one that is free.
LEMMA HolderKnows ==
    ASSUME Around, OneCall, DwptsInv, NEW t \in Threads
    PROVE  \E c \in Call : c = call[t] /\ \A d \in Dwpts : d = c.dwpt => DwptInv(d, c)
<1>1. PICK c \in Call : c = call[t]
  BY DEF Around, TypeOK, CallTypeOK
<1>2. ASSUME NEW d \in Dwpts, d = c.dwpt PROVE DwptInv(d, c)
  <2>1. c \in CallsOf(d)
    BY <1>1, <1>2 DEF CallsOf, Held
  <2> QED BY <2>1 DEF DwptsInv
<1> QED BY <1>1, <1>2

LEMMA FreeKnows ==
    ASSUME DwptsInv, NEW d \in Dwpts, ~Held(d) PROVE DwptInv(d, Idle)
  BY DEF DwptsInv, CallsOf
------------------------------------------------------------------------------
\* One lemma per kind of step: the own DWPT by the lemmas above, the others by Move.
LEMMA StartUpdateStep ==
    ASSUME Around, OneCall, DwptsInv, QueueGrows, NEW t \in Threads, NEW d \in Dwpts, NEW k \in Keys,
           NEW del \in BOOLEAN, NEW n \in 0..MaxBlock, StartUpdate(t, d, k, del, n)
    PROVE  OneCall' /\ DwptsInv'
<1>1. n \in Nat
  BY BoundsAssumption
<1>2. PICK e \in Call : e = UpdateCall(d, k, del, n)
  BY <1>1 DEF UpdateCall, Call
<1>3. e.pc = "add" /\ e.block = n /\ e.dwpt = d /\ e.pc # "idle"
  BY <1>2 DEF UpdateCall
<1>4. /\ phase[d] \in {"none", "indexing"} /\ ~Held(d) /\ call[t].dwpt = NoDwpt
      /\ call' = [call EXCEPT ![t] = e]
      /\ UNCHANGED <<nodes, nextSeqNo, cuts>>
  BY <1>2 DEF StartUpdate, OneCall, queueVars, globalVars
<1>5. /\ deleteSlice'[d] = SliceOf(d) /\ docs'[d] = WithBlock(docs[d], n, k) /\ phase'[d] = "indexing"
      /\ pendingUpdates'[d] = pendingUpdates[d] /\ deleteDocIDs'[d] = deleteDocIDs[d]
      /\ \A f \in Dwpts : f # d => SameDwpt(f)
  BY DEF StartUpdate, SameDwpt, Around, TypeOK, DwptTypeOK
<1>6. DwptInv(d, Idle)
  BY <1>4, FreeKnows
<1>7. DwptInv(d, e)'
  BY <1>1, <1>3, <1>4, <1>5, <1>6, StartUpdateOwn
<1> QED BY <1>3, <1>4, <1>5, <1>7, DwptsAssumption, Move

LEMMA FailUpdateStep ==
    ASSUME Around, OneCall, DwptsInv, QueueGrows, NEW t \in Threads, NEW d \in Dwpts, NEW k \in Keys,
           NEW n \in 1..MaxBlock, FailUpdate(t, d, k, n)
    PROVE  OneCall' /\ DwptsInv'
<1>1. n \in Nat
  BY BoundsAssumption
<1>2. phase[d] \in {"none", "indexing"} /\ ~Held(d) /\ call' = call /\ UNCHANGED <<nodes, nextSeqNo, cuts>>
  BY DEF FailUpdate, queueVars, globalVars
<1>3. /\ deleteSlice'[d] = SliceOf(d) /\ docs'[d] = WithBlock(docs[d], n, k) /\ phase'[d] = "indexing"
      /\ pendingUpdates'[d] = pendingUpdates[d]
      /\ deleteDocIDs'[d] = deleteDocIDs[d] \cup (Len(docs[d]) + 1)..(Len(docs[d]) + n)
      /\ \A f \in Dwpts : f # d => SameDwpt(f)
  BY DEF FailUpdate, SameDwpt, Around, TypeOK, DwptTypeOK, numDocsInRAM
<1>4. DwptInv(d, Idle)
  BY <1>2, FreeKnows
<1>5. DwptInv(d, Idle)'
  BY <1>1, <1>2, <1>3, <1>4, FailUpdateOwn
<1>6. OneCall' /\ \A f \in Dwpts : CallsOf(f)' = CallsOf(f)
  BY <1>2 DEF OneCall, CallsOf, Held
<1>7. ASSUME NEW f \in Dwpts, NEW c \in CallsOf(f)' PROVE DwptInv(f, c)'
  <2>1. CASE f = d
    <3>1. c = Idle
      BY <1>2, <1>6, <1>7, <2>1 DEF CallsOf
    <3> QED BY <1>5, <2>1, <3>1
  <2>2. CASE f # d
    BY <1>3, <1>6, <1>7, <2>2, OthersKept
  <2> QED BY <2>1, <2>2
<1> QED BY <1>6, <1>7 DEF DwptsInv

LEMMA AddNodeOwnStep ==
    ASSUME Around, OneCall, DwptsInv, QueueGrows, QueueOrdered', NEW t \in Threads, AddNode(t)
    PROVE  OneCall' /\ DwptsInv'
<1>1. PICK c \in Call : c = call[t] /\ \A d \in Dwpts : d = c.dwpt => DwptInv(d, c)
  BY HolderKnows
<1>2. PICK e \in Call : /\ call' = [call EXCEPT ![t] = e]
                        /\ e.pc = "tryLock" /\ e.dwpt = c.dwpt /\ e.block = c.block /\ e.seqNo = nextSeqNo
                        /\ e.dwpt # NoDwpt /\ ~e.applySlice => Len(docs[e.dwpt]) = 0
  <2> DEFINE r == NumberedCall(call[t], "tryLock", nextSeqNo, call[t].dwpt # NoDwpt /\ numDocsInRAM(call[t].dwpt) # 0)
  <2>1. r \in Call
    BY <1>1, CallFields DEF NumberedCall, Call, Around, TypeOK, QueueTypeOK
  <2>2. call' = [call EXCEPT ![t] = r]
    BY DEF AddNode
  <2>3. /\ r.pc = "tryLock" /\ r.dwpt = c.dwpt /\ r.block = c.block /\ r.seqNo = nextSeqNo
        /\ r.dwpt # NoDwpt /\ ~r.applySlice => Len(docs[r.dwpt]) = 0
    BY <1>1 DEF NumberedCall, numDocsInRAM
  <2> HIDE DEF r
  <2> QED BY <2>1, <2>2, <2>3
<1>3. /\ c.pc = "add" /\ nextSeqNo' = nextSeqNo + 1 /\ tail' = Len(nodes')
      /\ \A f \in Dwpts : f # c.dwpt => SameDwpt(f)
  BY <1>1 DEF AddNode, NextSequenceNumber, NumberBlock, SameDwpt, Around, TypeOK, DwptTypeOK, tail
<1>4. ASSUME NEW d \in Dwpts, d = c.dwpt PROVE DwptInv(d, e)'
  <2>1. /\ deleteSlice'[d] = SliceUpto(deleteSlice[d], tail')
        /\ docs'[d] = IF c.block = 0 THEN docs[d]
                      ELSE Renumbered(docs[d], (Len(docs[d]) - c.block + 1)..Len(docs[d]), nextSeqNo)
        /\ phase'[d] = phase[d] /\ pendingUpdates'[d] = pendingUpdates[d] /\ deleteDocIDs'[d] = deleteDocIDs[d]
    BY <1>1, <1>3, <1>4, DwptsAssumption
    DEF AddNode, NumberBlock, DocsOf, numDocsInRAM, Around, TypeOK, DwptTypeOK
  <2>2. \A p \in 1..tail' : nodes'[p].seqNo <= nextSeqNo
    <3>1. \A p \in 1..tail' : nodes'[p].seqNo < nextSeqNo'
      BY DEF QueueOrdered
    <3>2. \A p \in 1..tail' : nodes'[p].seqNo \in Nat
      <4>1. \A p \in 1..tail : nodes[p].seqNo \in Nat
        BY NodesType DEF Around, TypeOK
      <4>2. tail \in Nat /\ tail' \in Nat
        BY TailType DEF Around, TypeOK, QueueGrows
      <4> QED BY <4>1, <4>2 DEF QueueGrows
    <3>3. nextSeqNo \in Nat
      BY DEF Around, TypeOK, QueueTypeOK
    <3> QED BY <1>3, <3>1, <3>2, <3>3
  <2>3. e.pc \in Numbered /\ (~e.applySlice => deleteSlice[d].tail = tail' \/ Len(docs[d]) = 0)
    BY <1>2, <1>4, DwptsAssumption DEF Numbered
  <2>4. DwptInv(d, c)
    BY <1>1, <1>4
  <2> QED BY <1>2, <1>3, <2>1, <2>2, <2>3, <2>4, NumberOwn
<1> QED BY <1>1, <1>2, <1>3, <1>4, Move

LEMMA UpdateSliceStep ==
    ASSUME Around, OneCall, DwptsInv, QueueGrows, QueueOrdered', NEW t \in Threads, UpdateSlice(t)
    PROVE  OneCall' /\ DwptsInv'
<1>1. PICK c \in Call : c = call[t] /\ \A d \in Dwpts : d = c.dwpt => DwptInv(d, c)
  BY HolderKnows
<1>2. PICK e \in Call : /\ call' = [call EXCEPT ![t] = e]
                        /\ e.pc = "finish" /\ e.dwpt = c.dwpt /\ e.block = c.block /\ e.seqNo = nextSeqNo
                        /\ ~e.applySlice => deleteSlice[e.dwpt].tail = tail \/ Len(docs[e.dwpt]) = 0
  <2> DEFINE r == NumberedCall(call[t], "finish", nextSeqNo,
                      deleteSlice[call[t].dwpt].tail # tail /\ numDocsInRAM(call[t].dwpt) # 0)
  <2>1. r \in Call
    BY <1>1, CallFields DEF NumberedCall, Call, Around, TypeOK, QueueTypeOK
  <2>2. call' = [call EXCEPT ![t] = r]
    BY DEF UpdateSlice
  <2>3. /\ r.pc = "finish" /\ r.dwpt = c.dwpt /\ r.block = c.block /\ r.seqNo = nextSeqNo
        /\ ~r.applySlice => deleteSlice[r.dwpt].tail = tail \/ Len(docs[r.dwpt]) = 0
    BY <1>1 DEF NumberedCall, numDocsInRAM
  <2> HIDE DEF r
  <2> QED BY <2>1, <2>2, <2>3
<1>3. /\ c.pc = "add" /\ nextSeqNo' = nextSeqNo + 1 /\ nodes' = nodes /\ tail' = tail
      /\ \A f \in Dwpts : f # c.dwpt => SameDwpt(f)
  BY <1>1 DEF UpdateSlice, NextSequenceNumber, NumberBlock, SameDwpt, Around, TypeOK, DwptTypeOK, tail
<1>4. ASSUME NEW d \in Dwpts, d = c.dwpt PROVE DwptInv(d, e)'
  <2>1. /\ deleteSlice'[d] = SliceUpto(deleteSlice[d], tail')
        /\ docs'[d] = IF c.block = 0 THEN docs[d]
                      ELSE Renumbered(docs[d], (Len(docs[d]) - c.block + 1)..Len(docs[d]), nextSeqNo)
        /\ phase'[d] = phase[d] /\ pendingUpdates'[d] = pendingUpdates[d] /\ deleteDocIDs'[d] = deleteDocIDs[d]
    BY <1>1, <1>3, <1>4, DwptsAssumption
    DEF UpdateSlice, NumberBlock, DocsOf, numDocsInRAM, Around, TypeOK, DwptTypeOK
  <2>2. \A p \in 1..tail' : nodes'[p].seqNo <= nextSeqNo
    <3>1. \A p \in 1..tail : nodes[p].seqNo < nextSeqNo /\ nodes[p].seqNo \in Nat /\ nextSeqNo \in Nat
      BY NodesType DEF Around, TypeOK, QueueTypeOK, QueueOrdered
    <3> QED BY <1>3, <3>1
  <2>3. e.pc \in Numbered /\ (~e.applySlice => deleteSlice[d].tail = tail' \/ Len(docs[d]) = 0)
    BY <1>2, <1>3, <1>4 DEF Numbered
  <2>4. DwptInv(d, c)
    BY <1>1, <1>4
  <2> QED BY <1>2, <1>3, <2>1, <2>2, <2>3, <2>4, NumberOwn
<1> QED BY <1>1, <1>2, <1>3, <1>4, Move

\* The call goes on, no DWPT changes.
LEMMA GoOnStep ==
    ASSUME Around, OneCall, DwptsInv, QueueGrows, NEW t \in Threads, NEW c \in Call, NEW e \in Call,
           c = call[t], call' = [call EXCEPT ![t] = e], UNCHANGED dwptVars,
           e.dwpt = c.dwpt, e.block = c.block, e.seqNo = c.seqNo, e.applySlice = c.applySlice,
           \/ c.pc \in Numbered /\ e.pc \in Numbered
           \/ c.pc = "lock" /\ e.pc = "locked"
    PROVE  OneCall' /\ DwptsInv'
<1>1. \A f \in Dwpts : SameDwpt(f)
  BY DEF dwptVars, SameDwpt
<1>2. e.pc # "idle"
  BY DEF Numbered
<1>3. ASSUME NEW d \in Dwpts, d = e.dwpt PROVE DwptInv(d, e)'
  <2>1. DwptInv(d, c)
    BY <1>3, HolderKnows
  <2>2. c.pc = "lock" => phase[d] = "indexing"
    BY <2>1 DEF DwptInv, CallFits
  <2> QED BY <1>1, <2>1, <2>2, GoOn
<1> QED BY <1>1, <1>2, <1>3, Move

\* The call returns, no DWPT changes: it had none, or one it only waited for.
LEMMA ReturnStep ==
    ASSUME Around, OneCall, DwptsInv, QueueGrows, NEW t \in Threads, Return(t), UNCHANGED dwptVars,
           call[t].dwpt = NoDwpt \/ call[t].pc = "locked"
    PROVE  OneCall' /\ DwptsInv'
<1>1. \A f \in Dwpts : SameDwpt(f)
  BY DEF dwptVars, SameDwpt
<1>2. Idle \in Call /\ Idle.dwpt = NoDwpt /\ Idle.pc = "idle" /\ Idle.block = 0
  BY IdleType
<1>3. PICK c \in Call : c = call[t] /\ \A d \in Dwpts : d = c.dwpt => DwptInv(d, c)
  BY HolderKnows
<1>4. ASSUME NEW d \in Dwpts, d = c.dwpt PROVE DwptInv(d, Idle)'
  <2>1. DwptInv(d, c) /\ c.pc = "locked"
    BY <1>3, <1>4, DwptsAssumption
  <2>2. c.block = 0
    BY <2>1 DEF DwptInv, CallFits, Updating
  <2>3. Idle.pc \notin Numbered /\ Idle.block = c.block
    BY <1>2, <2>2 DEF Numbered
  <2> QED BY <1>1, <1>2, <2>1, <2>3, GoOn
<1>5. \A d \in Dwpts : d # NoDwpt
  BY DwptsAssumption
<1>6. call' = [call EXCEPT ![t] = Idle]
  BY DEF Return
<1> HIDE DEF Idle
<1> QED BY <1>1, <1>2, <1>3, <1>4, <1>5, <1>6, Move

LEMMA GotoStep ==
    ASSUME Around, OneCall, DwptsInv, QueueGrows, NEW t \in Threads, NEW pc, Goto(t, pc), UNCHANGED dwptVars,
           \/ call[t].pc \in Numbered /\ pc \in Numbered
           \/ call[t].pc = "lock" /\ pc = "locked"
    PROVE  OneCall' /\ DwptsInv'
<1>1. PICK c \in Call : c = call[t]
  BY HolderKnows
<1>2. PICK e \in Call : e = NumberedCall(c, pc, c.seqNo, c.applySlice)
  BY CallFields DEF NumberedCall, Call, Numbered
<1>3. /\ e.pc = pc /\ e.dwpt = c.dwpt /\ e.block = c.block /\ e.seqNo = c.seqNo
      /\ e.applySlice = c.applySlice
  BY <1>2 DEF NumberedCall
<1>4. call' = [call EXCEPT ![t] = e]
  BY <1>1, <1>2 DEF Goto
<1> QED BY <1>1, <1>3, <1>4, GoOnStep

LEMMA TryApplyStep ==
    ASSUME Around, OneCall, DwptsInv, QueueGrows, NEW t \in Threads, TryLock(t) \/ TryApply(t)
    PROVE  OneCall' /\ DwptsInv'
<1>1. UNCHANGED dwptVars /\ call[t].pc \in Numbered
  BY DEF TryLock, TryApply, Numbered
<1>2. CASE Goto(t, "apply") \/ Goto(t, "finish")
  BY <1>1, <1>2, GotoStep DEF Numbered
<1>3. CASE call[t].dwpt = NoDwpt /\ Return(t)
  BY <1>1, <1>3, ReturnStep
<1> QED BY <1>2, <1>3 DEF TryLock, TryApply, AfterTryApply

LEMMA FinishUpdateStep ==
    ASSUME PutReplaces = TRUE, Around, OneCall, DwptsInv, QueueGrows, NEW t \in Threads, FinishUpdate(t)
    PROVE  OneCall' /\ DwptsInv'
<1>1. PICK c \in Call : c = call[t] /\ \A d \in Dwpts : d = c.dwpt => DwptInv(d, c)
  BY HolderKnows
<1>2. /\ c.pc = "finish" /\ call' = [call EXCEPT ![t] = Idle] /\ UNCHANGED <<nodes, nextSeqNo, cuts>>
      /\ \A f \in Dwpts : f # c.dwpt => SameDwpt(f)
  BY <1>1 DEF FinishUpdate, Return, SameDwpt, queueVars, globalVars, Around, TypeOK, DwptTypeOK
<1>3. PICK doc \in Doc : doc = [key |-> c.key, seqNo |-> c.seqNo]
  BY <1>1, <1>2, CallFields DEF Doc, Around, TypeOK, CallTypeOK, Updating
<1>4. doc.seqNo = c.seqNo
  BY <1>3
<1>5. ASSUME NEW d \in Dwpts, d = c.dwpt PROVE DwptInv(d, Idle)'
  <2>1. /\ c.applySlice => pendingUpdates'[d] = AddTerms(pendingUpdates[d], SliceKeys(deleteSlice[d]), Finished(d, c))
        /\ ~c.applySlice => pendingUpdates'[d] = pendingUpdates[d]
    BY <1>1, <1>5 DEF FinishUpdate, docIDUpto, numDocsInRAM, Finished, Around, TypeOK, DwptTypeOK
  <2>2. /\ deleteSlice'[d] = EmptySlice(deleteSlice[d].tail)
        /\ c.block = 0 => docs'[d] = Append(docs[d], doc)
        /\ c.block # 0 => docs'[d] = docs[d]
        /\ phase'[d] = phase[d] /\ deleteDocIDs'[d] = deleteDocIDs[d]
    BY <1>1, <1>3, <1>5 DEF FinishUpdate, Around, TypeOK, DwptTypeOK
  <2>3. DwptInv(d, c) /\ c.pc \in Numbered
    BY <1>1, <1>2, <1>5 DEF Numbered
  <2> QED BY <1>2, <1>4, <2>1, <2>2, <2>3, FinishOwn
<1>6. Idle \in Call /\ Idle.dwpt = NoDwpt /\ \A d \in Dwpts : d # NoDwpt
  BY IdleType, DwptsAssumption
<1> QED BY <1>1, <1>2, <1>5, <1>6, Move

LEMMA StartCallStep ==
    ASSUME Around, OneCall, DwptsInv, QueueGrows, NEW t \in Threads,
           \/ \E k \in Keys : StartDelete(t, k)
           \/ \E what \in LockedCalls, d \in Dwpts \cup {NoDwpt} : StartLocked(t, what, d)
    PROVE  OneCall' /\ DwptsInv'
<1>1. (\A f \in Dwpts : SameDwpt(f)) /\ call[t].dwpt = NoDwpt /\ \A f \in Dwpts : f # NoDwpt
  BY DwptsAssumption DEF StartDelete, StartLocked, dwptVars, SameDwpt, OneCall
<1>2. ASSUME NEW k \in Keys, StartDelete(t, k) PROVE OneCall' /\ DwptsInv'
  <2>1. PICK e \in Call : e = UpdateCall(NoDwpt, k, TRUE, 0)
    BY DEF UpdateCall, Call
  <2>2. e.dwpt = NoDwpt /\ call' = [call EXCEPT ![t] = e]
    BY <1>2, <2>1 DEF StartDelete, UpdateCall
  <2> QED BY <1>1, <2>2, Move
<1>3. ASSUME NEW what \in LockedCalls, NEW d \in Dwpts \cup {NoDwpt}, StartLocked(t, what, d)
      PROVE  OneCall' /\ DwptsInv'
  <2>1. PICK e \in Call : e = LockedCall(d, what)
    BY LockedCallType
  <2>2. e.pc = "lock" /\ e.dwpt = d /\ e.block = 0 /\ call' = [call EXCEPT ![t] = e]
    BY <1>3, <2>1 DEF StartLocked, LockedCall
  <2>3. ASSUME NEW f \in Dwpts, f = d PROVE DwptInv(f, e)' /\ ~Held(f)
    <3>1. ~Held(f) /\ phase[f] = "indexing"
      BY <1>1, <1>3, <2>3 DEF StartLocked
    <3>2. DwptInv(f, Idle)
      BY <3>1, FreeKnows
    <3>3. Idle \in Call /\ Idle.pc = "idle" /\ Idle.block = 0
      BY IdleType
    <3>4. e.block = Idle.block /\ e.pc \notin Numbered
      BY <2>2, <3>3 DEF Numbered
    <3> QED BY <1>1, <2>2, <3>1, <3>2, <3>3, <3>4, GoOn
  <2>4. d = NoDwpt \/ ~Held(d)
    BY <2>3
  <2> QED BY <1>1, <2>2, <2>3, <2>4, Move
<1> QED BY <1>2, <1>3

LEMMA FreezeOwnStep ==
    ASSUME Around, OneCall, DwptsInv, QueueGrows, NEW t \in Threads, FreezeGlobalBuffer(t)
    PROVE  OneCall' /\ DwptsInv'
<1>1. PICK c \in Call : c = call[t] /\ \A d \in Dwpts : d = c.dwpt => DwptInv(d, c)
  BY HolderKnows
<1>2. c.pc = "locked" /\ UNCHANGED <<nodes, nextSeqNo>> /\ \A d \in Dwpts : d # NoDwpt
  BY <1>1, DwptsAssumption DEF FreezeGlobalBuffer, queueVars
<1>3. CASE c.dwpt = NoDwpt
  <2>1. Return(t) /\ UNCHANGED dwptVars
    BY <1>1, <1>3 DEF FreezeGlobalBuffer, dwptVars
  <2> QED BY <1>1, <1>3, <2>1, ReturnStep
<1>4. CASE c.dwpt # NoDwpt
  <2>1. PICK e \in Call : e = NumberedCall(c, "prepare", c.seqNo, c.applySlice)
    BY CallFields DEF NumberedCall, Call
  <2>2. /\ e.pc = "prepare" /\ e.pc # "idle" /\ e.dwpt = c.dwpt /\ e.block = c.block
        /\ call' = [call EXCEPT ![t] = e]
    BY <1>1, <1>4, <2>1 DEF FreezeGlobalBuffer, Goto, NumberedCall
  <2>3. \A f \in Dwpts : f # c.dwpt => SameDwpt(f)
    BY <1>1, <1>4 DEF FreezeGlobalBuffer, SameDwpt, Around, TypeOK, DwptTypeOK
  <2>4. /\ Len(cuts') \in DOMAIN cuts' /\ cuts'[Len(cuts')].pos = tail
    <3>1. \E keys \in SUBSET Keys : NewCut(keys, FALSE)
      BY DEF FreezeGlobalBuffer
    <3>2. /\ Len(cuts') = Len(cuts) + 1 /\ DOMAIN cuts' = 1..(Len(cuts) + 1)
          /\ cuts'[Len(cuts) + 1].pos = tail
      BY <3>1, NewCutProperties DEF Around
    <3>3. Len(cuts) \in Nat
      BY CutsType DEF Around, TypeOK
    <3> QED BY <3>2, <3>3
  <2>5. ASSUME NEW d \in Dwpts, d = c.dwpt PROVE DwptInv(d, e)'
    <3>1. DwptInv(d, c)
      BY <1>1, <2>5
    <3>2. /\ deleteSlice'[d] = SliceUpto(deleteSlice[d], tail) /\ phase'[d] = "frozen"
          /\ frozenAt'[d] = Len(cuts') /\ docs'[d] = docs[d]
          /\ pendingUpdates'[d] = pendingUpdates[d] /\ deleteDocIDs'[d] = deleteDocIDs[d]
      BY <1>1, <1>4, <2>5 DEF FreezeGlobalBuffer, Around, TypeOK, DwptTypeOK
    <3> QED BY <1>2, <2>2, <2>4, <3>1, <3>2, FreezeOwn
  <2> QED BY <1>1, <2>2, <2>3, <2>5, Move
<1> QED BY <1>3, <1>4

LEMMA PrepareAndFlushStep ==
    ASSUME PutReplaces = TRUE, Around, OneCall, DwptsInv, QueueGrows, NEW t \in Threads, PrepareAndFlush(t)
    PROVE  OneCall' /\ DwptsInv'
<1>1. PICK c \in Call : c = call[t] /\ \A d \in Dwpts : d = c.dwpt => DwptInv(d, c)
  BY HolderKnows
<1>2. /\ c.pc = "prepare" /\ call' = [call EXCEPT ![t] = Idle] /\ UNCHANGED <<nodes, nextSeqNo, cuts>>
      /\ \A f \in Dwpts : f # c.dwpt => SameDwpt(f)
  BY <1>1 DEF PrepareAndFlush, Return, SameDwpt, queueVars, globalVars, Around, TypeOK, DwptTypeOK
<1>3. ASSUME NEW d \in Dwpts, d = c.dwpt PROVE DwptInv(d, Idle)'
  <2>1. PICK pending : pending = AddTerms(pendingUpdates[d], SliceKeys(deleteSlice[d]), Len(docs[d]))
    OBVIOUS
  <2>2. liveDocs'[d] = {i \in DOMAIN docs[d] \ deleteDocIDs[d] : pending[docs[d][i].key] < i}
    BY <1>1, <1>3, <2>1 DEF PrepareAndFlush, numDocsInRAM, Around, TypeOK, DwptTypeOK
  <2>3. /\ deleteSlice'[d] = EmptySlice(deleteSlice[d].tail) /\ phase'[d] = "flushed"
        /\ pendingUpdates'[d] = EmptyUpdates(Keys) /\ deleteDocIDs'[d] = {}
        /\ docs'[d] = docs[d] /\ frozenAt'[d] = frozenAt[d]
    BY <1>1, <1>3 DEF PrepareAndFlush, Around, TypeOK, DwptTypeOK
  <2>4. DwptInv(d, c)
    BY <1>1, <1>3
  <2> QED BY <1>2, <2>1, <2>2, <2>3, <2>4, FlushOwn
<1>4. Idle \in Call /\ Idle.dwpt = NoDwpt /\ \A d \in Dwpts : d # NoDwpt
  BY IdleType, DwptsAssumption
<1> QED BY <1>1, <1>2, <1>3, <1>4, Move

\* Neither a call nor a DWPT changes.
LEMMA NoCallStep ==
    ASSUME Around, OneCall, DwptsInv, QueueGrows, UNCHANGED <<call, dwptVars>>
    PROVE  OneCall' /\ DwptsInv'
<1>1. (\A f \in Dwpts : CallsOf(f)' = CallsOf(f)) /\ OneCall'
  BY DEF OneCall, CallsOf, Held
<1>2. \A f \in Dwpts : SameDwpt(f)
  BY DEF dwptVars, SameDwpt
<1>3. ASSUME NEW d \in Dwpts, NEW c \in CallsOf(d)' PROVE DwptInv(d, c)'
  BY <1>1, <1>2, <1>3, OthersKept
<1> QED BY <1>1, <1>3 DEF DwptsInv
------------------------------------------------------------------------------
LEMMA InvInit == Init => IInv
<1> SUFFICES ASSUME Init PROVE IInv
  OBVIOUS
<1>1. PacketInv
  BY PacketInit
<1>2. tail = 0
  BY DEF Init, InitWith, tail
<1>3. QueueOrdered
  BY <1>2 DEF QueueOrdered
<1>4. OneCall
  BY IdleType DEF Init, InitWith, OneCall
<1>5. ASSUME NEW d \in Dwpts, NEW c \in CallsOf(d) PROVE DwptInv(d, c)
  <2>1. c = Idle
    BY <1>5, IdleType, DwptsAssumption DEF CallsOf, Held, Init, InitWith
  <2>2. /\ phase[d] = "none" /\ deleteSlice[d] = EmptySlice(0) /\ docs[d] = <<>> /\ deleteDocIDs[d] = {}
        /\ pendingUpdates[d] = EmptyUpdates(Keys)
    BY DEF Init, InitWith, Sentinel
  <2>3. Len(docs[d]) = 0 /\ c.pc = "idle" /\ c.block = 0
    BY <2>1, <2>2, IdleType
  <2>4. CallFits(d, c) /\ DocsNumbered(d, c)
    BY <2>2, <2>3 DEF CallFits, DocsNumbered, Numbered, Updating
  <2>5. SlicePlaces(d, c)
    BY <1>2, <2>2, <2>3 DEF SlicePlaces, EmptySlice, Numbered
  <2>6. OnlyFinished(d, c)
    BY <2>2, <2>3, EmptyUpdatesType DEF OnlyFinished, Finished, NoUpto
  <2>7. Later(d, c) /\ Applied(d) /\ LiveDocs(d)
    BY <2>2 DEF Later, Applied, LiveDocs, Buffering
  <2> QED BY <2>4, <2>5, <2>6, <2>7 DEF DwptInv
<1>6. DwptsInv
  BY <1>5 DEF DwptsInv
<1> QED BY <1>1, <1>3, <1>4, <1>6 DEF IInv, PacketInv

LEMMA InvStep == ASSUME PutReplaces = TRUE, IInv, [Next]_vars PROVE IInv'
<1>1. PacketInv'
  BY PacketStep DEF IInv, PacketInv
<1>2. Around /\ OneCall /\ DwptsInv
  BY DEF IInv, Around
<1>3. QueueGrows /\ QueueOrdered'
  BY <1>2, Grows
<1>4. ASSUME NEW t \in Threads, Step(t) PROVE OneCall' /\ DwptsInv'
  <2>1. CASE \E d \in Dwpts, k \in Keys, del \in BOOLEAN, n \in 0..MaxBlock : StartUpdate(t, d, k, del, n)
    BY <1>2, <1>3, <2>1, StartUpdateStep
  <2>2. CASE \E d \in Dwpts, k \in Keys, n \in 1..MaxBlock : FailUpdate(t, d, k, n)
    BY <1>2, <1>3, <2>2, FailUpdateStep
  <2>3. CASE \/ \E k \in Keys : StartDelete(t, k)
             \/ \E what \in LockedCalls, d \in Dwpts \cup {NoDwpt} : StartLocked(t, what, d)
    BY <1>2, <1>3, <2>3, StartCallStep
  <2>4. CASE AddNode(t)
    BY <1>2, <1>3, <2>4, AddNodeOwnStep
  <2>5. CASE UpdateSlice(t)
    BY <1>2, <1>3, <2>5, UpdateSliceStep
  <2>6. CASE TryLock(t) \/ TryApply(t)
    BY <1>2, <1>3, <2>6, TryApplyStep
  <2>7. CASE FinishUpdate(t)
    BY <1>2, <1>3, <2>7, FinishUpdateStep
  <2>8. CASE Lock(t)
    BY <1>2, <1>3, <2>8, GotoStep DEF Lock
  <2>9. CASE FreezeGlobalBuffer(t)
    BY <1>2, <1>3, <2>9, FreezeOwnStep
  <2>10. CASE Clear(t) \/ ForceApply(t)
    BY <1>2, <1>3, <2>10, ReturnStep DEF Clear, ForceApply
  <2>11. CASE PrepareAndFlush(t)
    BY <1>2, <1>3, <2>11, PrepareAndFlushStep
  <2>12. CASE LinkNode(t)
    BY <1>2, <1>3, <2>12, NoCallStep DEF LinkNode
  <2> QED BY <1>4, <2>1, <2>2, <2>3, <2>4, <2>5, <2>6, <2>7, <2>8, <2>9, <2>10, <2>11, <2>12 DEF Step
<1>5. ASSUME SkipSequenceNumbers \/ UNCHANGED vars PROVE OneCall' /\ DwptsInv'
  BY <1>2, <1>3, <1>5, NoCallStep DEF SkipSequenceNumbers, vars, dwptVars
<1>6. OneCall' /\ DwptsInv'
  BY <1>4, <1>5 DEF Next
<1> QED BY <1>1, <1>3, <1>6 DEF IInv, PacketInv

\* The invariant gives the property for each flushed DWPT, whoever has it.
LEMMA InvImpliesLive == IInv => LiveDocsFollowSeqNos
<1> SUFFICES ASSUME IInv, NEW d \in Dwpts, phase[d] = "flushed"
             PROVE  liveDocs[d] = {i \in DOMAIN docs[d] :
                       /\ docs[d][i].seqNo # 0
                       /\ \A p \in 1..cuts[frozenAt[d]].pos :
                             nodes[p].key = docs[d][i].key => nodes[p].seqNo <= docs[d][i].seqNo}
  BY DEF LiveDocsFollowSeqNos
<1>1. Around /\ DwptsInv
  BY DEF IInv, Around
<1>2. PICK c : c \in CallsOf(d)
  BY DEF CallsOf, Held
<1>3. LiveDocs(d) /\ SlicePlaces(d, c)
  BY <1>1, <1>2 DEF DwptsInv, DwptInv
<1>4. /\ DOMAIN docs[d] = 1..Len(docs[d])
      /\ \A i \in 1..Len(docs[d]) : docs[d][i].seqNo \in Nat
      /\ \A p \in 1..tail : nodes[p].seqNo \in Nat
      /\ tail \in Nat
  BY <1>1, DwptTypes
<1>5. cuts[frozenAt[d]].pos \in Nat /\ cuts[frozenAt[d]].pos <= tail
  BY <1>1, <1>3, DwptTypes DEF SlicePlaces
<1>6. ASSUME NEW i \in 1..Len(docs[d])
      PROVE  ~HitUpto(d, i, cuts[frozenAt[d]].pos) <=>
                \A p \in 1..cuts[frozenAt[d]].pos :
                   nodes[p].key = docs[d][i].key => nodes[p].seqNo <= docs[d][i].seqNo
  <2>1. \A p \in 1..cuts[frozenAt[d]].pos : nodes[p].seqNo \in Nat
    BY <1>4, <1>5
  <2>2. docs[d][i].seqNo \in Nat
    BY <1>4
  <2>3. \A p \in 1..cuts[frozenAt[d]].pos : ~(nodes[p].seqNo > docs[d][i].seqNo) <=> nodes[p].seqNo <= docs[d][i].seqNo
    BY <2>1, <2>2
  <2> QED BY <2>3 DEF HitUpto
<1> QED BY <1>3, <1>4, <1>6 DEF LiveDocs

\* However the calls of any number of threads interleave, a flushed segment
\* keeps exactly the documents no later delete had reached when it was frozen.
THEOREM LiveDocsInOrder == ASSUME PutReplaces = TRUE PROVE Spec => []LiveDocsFollowSeqNos
<1>1. IInv /\ [Next]_vars => IInv'
  BY InvStep
<1> QED BY InvInit, <1>1, InvImpliesLive, PTL DEF Spec

------------------------------------------------------------------------------

(***************************************************************************)
(* DeleteQueue implements SequencedUpdates.  Linked ties the history of    *)
(* updates to the list, the cuts and the documents; with it every step of  *)
(* the queue is a step of SequencedUpdates or changes nothing there.       *)
(***************************************************************************)

\* The parts of Linked about a DWPT.
DocsLinked == \A d \in Dwpts : \A c \in CallsOf(d) : DocsAreOps(d, c)

\* What a step keeps of a DWPT that it does not write to.
SameDocs(d) == /\ docs'[d] = docs[d] /\ ops \subseteq ops'
               /\ \A o \in ops' : o.dwpt = d => o \in ops

\* What a cut holds, and that it lies within the list.
LEMMA CutNumbers ==
    ASSUME Around
    PROVE  \A n \in DOMAIN cuts : /\ cuts[n].pos \in Nat /\ cuts[n].pos <= tail
                                  /\ cuts[n].seqNo \in Nat /\ cuts[n].keys \subseteq Keys
<1>1. cuts \in Seq(Cut)
  BY DEF Around, TypeOK, GlobalTypeOK
<1>2. \A n \in DOMAIN cuts : cuts[n] \in Cut
  BY <1>1, LenProperties, ElementOfSeq
<1>3. LastCut \in Cut /\ globalSlice \in Slice /\ tail \in Nat
  BY LastCutType, TailType DEF Around, TypeOK, GlobalTypeOK
<1>4. \A n \in DOMAIN cuts : cuts[n].pos <= LastCut.pos
  BY DEF Around, GlobalPlaces
<1>5. LastCut.pos \in Nat /\ LastCut.pos <= tail
  BY <1>3 DEF Around, GlobalPlaces, Cut, Slice
<1> QED BY <1>2, <1>3, <1>4, <1>5 DEF Cut

\* The update that a call numbers.
LEMMA NewUpdate ==
    ASSUME Around, OneCall, DwptsInv, NEW t \in Threads, NextSequenceNumber(t), call[t].pc = "add"
    PROVE  \E op \in Promise!Update :
              /\ op.seqNo = nextSeqNo /\ op.key = call[t].key /\ op.del = call[t].del
              /\ op.dwpt = call[t].dwpt /\ op.docs = DocsOf(t)
              /\ ops' = ops \cup {op} /\ nextSeqNo' = nextSeqNo + 1
<1>1. PICK c \in Call : c = call[t] /\ \A d \in Dwpts : d = c.dwpt => DwptInv(d, c)
  BY HolderKnows
<1>2. c.key \in Keys /\ nextSeqNo \in Nat
  BY <1>1 DEF Around, TypeOK, CallTypeOK, QueueTypeOK, Updating
<1>3. DocsOf(t) \subseteq Nat
  <2>1. CASE c.dwpt = NoDwpt
    BY <1>1, <2>1 DEF DocsOf
  <2>2. CASE c.dwpt # NoDwpt
    <3>1. c.dwpt \in Dwpts /\ c.block \in Nat
      BY <2>2, CallFields
    <3>2. Len(docs[c.dwpt]) \in Nat /\ c.block <= Len(docs[c.dwpt])
      BY <1>1, <3>1, DwptTypes DEF DwptInv, CallFits
    <3>3. DocsOf(t) = IF c.block = 0 THEN {Len(docs[c.dwpt]) + 1}
                      ELSE (Len(docs[c.dwpt]) - c.block + 1)..Len(docs[c.dwpt])
      BY <1>1, <2>2 DEF DocsOf, numDocsInRAM
    <3> QED BY <3>1, <3>2, <3>3
  <2> QED BY <2>1, <2>2
<1>4. PICK op : op = [seqNo |-> nextSeqNo, key |-> call[t].key, del |-> call[t].del,
                      dwpt |-> call[t].dwpt, docs |-> DocsOf(t)]
  OBVIOUS
<1>5. op \in Promise!Update
  BY <1>1, <1>2, <1>3, <1>4, CallFields DEF Promise!Update
<1>6. /\ op.seqNo = nextSeqNo /\ op.key = call[t].key /\ op.del = call[t].del
      /\ op.dwpt = call[t].dwpt /\ op.docs = DocsOf(t)
  BY <1>4
<1> QED BY <1>4, <1>5, <1>6 DEF NextSequenceNumber
------------------------------------------------------------------------------
\* The numbers of updates, nodes and cuts: one lemma per kind of step.
LEMMA UpdateLinks ==
    ASSUME IInv, Linked, NEW t \in Threads, AddNode(t) \/ UpdateSlice(t)
    PROVE  OpsNumbered' /\ NodesAreDeletes' /\ CutsNumbered'
<1>1. Around /\ OneCall /\ DwptsInv /\ NextSequenceNumber(t) /\ call[t].pc = "add"
  BY DEF IInv, Around, AddNode, UpdateSlice
<1>2. PICK op \in Promise!Update :
         /\ op.seqNo = nextSeqNo /\ op.key = call[t].key /\ op.del = call[t].del
         /\ ops' = ops \cup {op} /\ nextSeqNo' = nextSeqNo + 1
  BY <1>1, NewUpdate
<1>3. /\ tail \in Nat /\ nextSeqNo \in Nat /\ 0 < nextSeqNo
      /\ \A p \in 1..tail : nodes[p].seqNo \in Nat /\ nodes[p].seqNo < nextSeqNo
      /\ \A n \in DOMAIN cuts : cuts[n].pos \in Nat /\ cuts[n].pos <= tail /\ cuts[n].seqNo \in Nat
  <2>1. tail \in Nat /\ \A p \in 1..tail : nodes[p].seqNo \in Nat
    BY <1>1, NodesType DEF Around, TypeOK
  <2>2. nextSeqNo \in Nat /\ 0 < nextSeqNo
    BY <1>1 DEF Around, TypeOK, QueueTypeOK
  <2> QED BY <1>1, <2>1, <2>2, CutNumbers DEF Around, QueueOrdered
<1>4. cuts' = cuts
  BY DEF AddNode, UpdateSlice, globalVars
<1>5. OpsNumbered'
  BY <1>2, <1>3 DEF Linked, OpsNumbered, Promise!Update
<1>6. CASE AddNode(t)
  <2>1. /\ tail' = tail + 1 /\ \A p \in 1..tail : nodes'[p] = nodes[p]
        /\ nodes'[tail + 1] = [key |-> call[t].key, seqNo |-> nextSeqNo] /\ call[t].del
    BY <1>1, <1>6, TailType DEF AddNode, tail, Around, TypeOK, QueueTypeOK
  <2>2. nodes'[tail + 1].key = op.key /\ nodes'[tail + 1].seqNo = op.seqNo /\ op.del
    BY <1>2, <2>1
  <2>3. NodesAreDeletes'
    <3>1. ASSUME NEW p \in 1..tail'
          PROVE  \E o \in ops' : o.del /\ o.key = nodes'[p].key /\ o.seqNo = nodes'[p].seqNo
      <4>1. CASE p = tail + 1
        BY <1>2, <2>2, <4>1
      <4>2. CASE p \in 1..tail
        <5>1. \E o \in ops : o.del /\ o.key = nodes[p].key /\ o.seqNo = nodes[p].seqNo
          BY <4>2 DEF Linked, NodesAreDeletes
        <5> QED BY <1>2, <2>1, <4>2, <5>1
      <4> QED BY <1>3, <2>1, <4>1, <4>2
    <3>2. ASSUME NEW o \in ops', o.del
          PROVE  \E p \in 1..tail' : nodes'[p].key = o.key /\ nodes'[p].seqNo = o.seqNo
      <4>1. CASE o = op
        <5>1. tail + 1 \in 1..tail'
          BY <1>3, <2>1
        <5> QED BY <2>2, <4>1, <5>1
      <4>2. CASE o \in ops
        <5>1. PICK p \in 1..tail : nodes[p].key = o.key /\ nodes[p].seqNo = o.seqNo
          BY <3>2, <4>2 DEF Linked, NodesAreDeletes
        <5>2. p \in 1..tail' /\ nodes'[p] = nodes[p]
          BY <1>3, <2>1
        <5> QED BY <5>1, <5>2
      <4> QED BY <1>2, <4>1, <4>2
    <3> QED BY <3>1, <3>2 DEF NodesAreDeletes
  <2>4. CutsNumbered'
    <3>1. ASSUME NEW n \in DOMAIN cuts, NEW p \in 1..tail'
          PROVE  p <= cuts[n].pos <=> nodes'[p].seqNo <= cuts[n].seqNo
      <4>1. cuts[n].seqNo < nextSeqNo
        BY DEF Linked, CutsNumbered
      <4>2. CASE p = tail + 1
        BY <1>2, <1>3, <2>2, <4>1, <4>2
      <4>3. CASE p \in 1..tail
        BY <2>1, <4>3 DEF Linked, CutsNumbered
      <4> QED BY <1>3, <2>1, <4>2, <4>3
    <3>2. \A n \in DOMAIN cuts : cuts[n].seqNo < nextSeqNo'
      BY <1>2, <1>3 DEF Linked, CutsNumbered
    <3> QED BY <1>4, <3>1, <3>2 DEF CutsNumbered
  <2> QED BY <1>5, <2>3, <2>4
<1>7. CASE UpdateSlice(t)
  <2>1. nodes' = nodes /\ tail' = tail /\ ~op.del
    BY <1>2, <1>7 DEF UpdateSlice, tail
  <2>2. NodesAreDeletes'
    BY <1>2, <2>1 DEF Linked, NodesAreDeletes
  <2>3. \A n \in DOMAIN cuts : cuts[n].seqNo < nextSeqNo'
    BY <1>2, <1>3 DEF Linked, CutsNumbered
  <2>4. CutsNumbered'
    BY <1>4, <2>1, <2>3 DEF Linked, CutsNumbered
  <2> QED BY <1>5, <2>2, <2>4
<1> QED BY <1>6, <1>7

LEMMA CutLinks ==
    ASSUME Around, Linked, NEW keys \in SUBSET Keys, NEW dropped \in BOOLEAN, NewCut(keys, dropped),
           UNCHANGED queueVars
    PROVE  /\ OpsNumbered' /\ NodesAreDeletes' /\ CutsNumbered'
           /\ cuts'[Len(cuts) + 1].seqNo = nextSeqNo - 1
<1>1. /\ DOMAIN cuts' = 1..(Len(cuts) + 1) /\ DOMAIN cuts = 1..Len(cuts)
      /\ \A n \in DOMAIN cuts : cuts'[n] = cuts[n]
      /\ cuts'[Len(cuts) + 1].pos = tail
  BY NewCutProperties DEF Around
<1>2. nodes' = nodes /\ nextSeqNo' = nextSeqNo /\ ops' = ops /\ tail' = tail
  BY DEF queueVars, tail
<1>3. /\ tail \in Nat /\ nextSeqNo \in Nat /\ 0 < nextSeqNo /\ Len(cuts) \in Nat
      /\ \A p \in 1..tail : nodes[p].seqNo \in Nat /\ nodes[p].seqNo < nextSeqNo
  BY NodesType, CutsType DEF Around, TypeOK, QueueTypeOK, QueueOrdered
<1>4. cuts'[Len(cuts) + 1].seqNo = nextSeqNo - 1
  <2>1. cuts \in Seq(Cut)
    BY DEF Around, TypeOK, GlobalTypeOK
  <2>2. [pos |-> tail, seqNo |-> nextSeqNo - 1, keys |-> keys, dropped |-> dropped] \in Cut
    BY <1>3 DEF Cut
  <2> QED BY <2>1, <2>2 DEF NewCut
<1>5. OpsNumbered' /\ NodesAreDeletes'
  BY <1>2 DEF Linked, OpsNumbered, NodesAreDeletes
<1>6. ASSUME NEW n \in DOMAIN cuts'
      PROVE  /\ cuts'[n].seqNo < nextSeqNo
             /\ \A p \in 1..tail : p <= cuts'[n].pos <=> nodes[p].seqNo <= cuts'[n].seqNo
  <2>1. CASE n \in DOMAIN cuts
    BY <1>1, <2>1 DEF Linked, CutsNumbered
  <2>2. CASE n = Len(cuts) + 1
    BY <1>1, <1>3, <1>4, <2>2
  <2> QED BY <1>1, <1>3, <2>1, <2>2
<1> QED BY <1>2, <1>4, <1>5, <1>6 DEF CutsNumbered

LEMMA FrameLinks ==
    ASSUME Around, Linked, UNCHANGED <<nodes, ops, cuts>>, nextSeqNo' = nextSeqNo \/ nextSeqNo' = nextSeqNo + 1
    PROVE  OpsNumbered' /\ NodesAreDeletes' /\ CutsNumbered'
<1>1. tail' = tail
  BY DEF tail
<1>2. nextSeqNo \in Nat
  BY DEF Around, TypeOK, QueueTypeOK
<1>3. OpsNumbered'
  BY <1>2 DEF Linked, OpsNumbered, Promise!Update
<1>4. NodesAreDeletes'
  BY <1>1 DEF Linked, NodesAreDeletes
<1>5. CutsNumbered'
  BY <1>1, <1>2, CutNumbers DEF Linked, CutsNumbered
<1> QED BY <1>3, <1>4, <1>5

LEMMA NumbersStep ==
    ASSUME IInv, Linked, [Next]_vars PROVE OpsNumbered' /\ NodesAreDeletes' /\ CutsNumbered'
<1>1. Around
  BY DEF IInv, Around
<1>2. ASSUME NEW t \in Threads, FreezeGlobalBuffer(t) \/ Clear(t)
      PROVE  OpsNumbered' /\ NodesAreDeletes' /\ CutsNumbered'
  <2>1. UNCHANGED queueVars /\ \E keys \in SUBSET Keys, dropped \in BOOLEAN : NewCut(keys, dropped)
    BY <1>2 DEF FreezeGlobalBuffer, Clear
  <2> QED BY <1>1, <2>1, CutLinks
<1>3. ASSUME NEW t \in Threads, Step(t), ~(FreezeGlobalBuffer(t) \/ Clear(t)), ~(AddNode(t) \/ UpdateSlice(t))
      PROVE  UNCHANGED <<nodes, nextSeqNo, ops, cuts>>
  BY <1>3 DEF Step, StartUpdate, FailUpdate, StartDelete, LinkNode, TryLock, TryApply, FinishUpdate, StartLocked,
              Lock, ForceApply, PrepareAndFlush, queueVars, globalVars
<1>4. ASSUME SkipSequenceNumbers \/ UNCHANGED vars
      PROVE  UNCHANGED <<nodes, ops, cuts>> /\ (nextSeqNo' = nextSeqNo \/ nextSeqNo' = nextSeqNo + 1)
  BY <1>4 DEF SkipSequenceNumbers, vars, globalVars
<1> QED BY <1>1, <1>2, <1>3, <1>4, UpdateLinks, FrameLinks DEF Next

\* A freeze of a DWPT is the only step that gives it a cut.
LEMMA PhasesStep == ASSUME IInv, Linked, [Next]_vars PROVE FrozenPhases'
<1>1. Around /\ OneCall /\ DwptsInv /\ FrozenPhases
  BY DEF IInv, Around, Linked
<1>2. phase \in [Dwpts -> {"none", "indexing", "frozen", "flushed"}] /\ frozenAt \in [Dwpts -> Nat]
  BY <1>1 DEF Around, TypeOK, DwptTypeOK
<1>3. ASSUME NEW t \in Threads, NEW d \in Dwpts, phase[d] \in {"none", "indexing"},
             phase' = [phase EXCEPT ![d] = "indexing"], frozenAt' = frozenAt
      PROVE  FrozenPhases'
  BY <1>1, <1>2, <1>3 DEF FrozenPhases
<1>4. ASSUME NEW t \in Threads, FreezeGlobalBuffer(t) PROVE FrozenPhases'
  <2>1. CASE call[t].dwpt = NoDwpt
    BY <1>1, <1>4, <2>1 DEF FreezeGlobalBuffer, FrozenPhases
  <2>2. CASE call[t].dwpt # NoDwpt
    <3>1. Len(cuts') = Len(cuts) + 1 /\ Len(cuts) \in Nat
      <4>1. \E keys \in SUBSET Keys : NewCut(keys, FALSE)
        BY <1>4 DEF FreezeGlobalBuffer
      <4> QED BY <1>1, <4>1, NewCutProperties, CutsType DEF Around, TypeOK
    <3>2. /\ phase' = [phase EXCEPT ![call[t].dwpt] = "frozen"]
          /\ frozenAt' = [frozenAt EXCEPT ![call[t].dwpt] = Len(cuts')]
      BY <1>4, <2>2 DEF FreezeGlobalBuffer
    <3> QED BY <1>1, <1>2, <3>1, <3>2 DEF FrozenPhases
  <2> QED BY <2>1, <2>2
<1>5. ASSUME NEW t \in Threads, PrepareAndFlush(t) PROVE FrozenPhases'
  <2>1. PICK c \in Call : c = call[t] /\ \A d \in Dwpts : d = c.dwpt => DwptInv(d, c)
    BY <1>1, HolderKnows
  <2>2. /\ phase' = [phase EXCEPT ![c.dwpt] = "flushed"] /\ frozenAt' = frozenAt
        /\ \A d \in Dwpts : d = c.dwpt => phase[d] = "frozen"
    BY <1>5, <2>1 DEF PrepareAndFlush, DwptInv, CallFits
  <2> QED BY <1>1, <1>2, <2>2 DEF FrozenPhases
<1>6. ASSUME UNCHANGED <<phase, frozenAt>> PROVE FrozenPhases'
  BY <1>1, <1>6 DEF FrozenPhases
<1>7. ASSUME NEW t \in Threads, Step(t) PROVE FrozenPhases'
  <2>1. CASE \E d \in Dwpts, k \in Keys, del \in BOOLEAN, n \in 0..MaxBlock : StartUpdate(t, d, k, del, n)
    BY <1>3, <2>1 DEF StartUpdate
  <2>2. CASE \E d \in Dwpts, k \in Keys, n \in 1..MaxBlock : FailUpdate(t, d, k, n)
    BY <1>3, <2>2 DEF FailUpdate
  <2>3. CASE FreezeGlobalBuffer(t) \/ PrepareAndFlush(t)
    BY <1>4, <1>5, <2>3
  <2>4. CASE \/ \E k \in Keys : StartDelete(t, k)
             \/ LinkNode(t) \/ AddNode(t) \/ UpdateSlice(t) \/ TryLock(t) \/ TryApply(t) \/ FinishUpdate(t)
             \/ \E what \in LockedCalls, d \in Dwpts \cup {NoDwpt} : StartLocked(t, what, d)
             \/ Lock(t) \/ Clear(t) \/ ForceApply(t)
    BY <1>6, <2>4 DEF StartDelete, LinkNode, AddNode, UpdateSlice, TryLock, TryApply, FinishUpdate, StartLocked,
                      Lock, Clear, ForceApply, dwptVars
  <2> QED BY <1>7, <2>1, <2>2, <2>3, <2>4 DEF Step
<1>8. ASSUME SkipSequenceNumbers \/ UNCHANGED vars PROVE FrozenPhases'
  BY <1>6, <1>8 DEF SkipSequenceNumbers, vars, dwptVars
<1> QED BY <1>7, <1>8 DEF Next
------------------------------------------------------------------------------
\* The documents of DWPTs: what a step leaves alone keeps its link.
LEMMA DocsFrame ==
    ASSUME NEW d \in Dwpts, NEW c \in Call, NEW e \in Call, DocsAreOps(d, c), SameDocs(d),
           c.pc \in Numbered /\ c.block = 0 <=> e.pc \in Numbered /\ e.block = 0,
           c.pc \in Numbered /\ c.block = 0 => e.key = c.key /\ e.seqNo = c.seqNo,
           e.pc = "add" => c.pc = "add" /\ e.block = c.block /\ e.key = c.key
    PROVE  DocsAreOps(d, e)'
<1>1. docs'[d] = docs[d] /\ ops \subseteq ops' /\ \A o \in ops' : o.dwpt = d => o \in ops
  BY DEF SameDocs
<1>2. ASSUME NEW i \in 1..Len(docs[d]), docs[d][i].seqNo # 0
      PROVE  \E o \in ops' : /\ o.dwpt = d /\ i \in o.docs
                             /\ o.key = docs[d][i].key /\ o.seqNo = docs[d][i].seqNo
  BY <1>1, <1>2 DEF DocsAreOps
<1>3. ASSUME NEW o \in ops', o.dwpt = d, NEW i \in o.docs
      PROVE  \/ /\ i \in 1..Len(docs[d])
                /\ o.key = docs[d][i].key /\ o.seqNo = docs[d][i].seqNo
             \/ /\ e.pc \in Numbered /\ e.block = 0 /\ i = Len(docs[d]) + 1
                /\ o.key = e.key /\ o.seqNo = e.seqNo
  BY <1>1, <1>3 DEF DocsAreOps
<1>4. ASSUME e.pc \in Numbered /\ e.block = 0
      PROVE  \E o \in ops' : /\ o.dwpt = d /\ Len(docs[d]) + 1 \in o.docs
                             /\ o.key = e.key /\ o.seqNo = e.seqNo
  BY <1>1, <1>4 DEF DocsAreOps
<1>5. ASSUME e.pc = "add" PROVE \A i \in 1..Len(docs[d]) : i > Len(docs[d]) - e.block => docs[d][i].key = e.key
  BY <1>5 DEF DocsAreOps, Finished
<1> QED BY <1>1, <1>2, <1>3, <1>4, <1>5 DEF DocsAreOps, Finished

\* A step of t in which its call becomes e.
LEMMA LinkMove ==
    ASSUME CallTypeOK, OneCall, DocsLinked, NEW t \in Threads, NEW e \in Call,
           call' = [call EXCEPT ![t] = e],
           \/ e.dwpt = NoDwpt
           \/ e.dwpt = call[t].dwpt /\ e.pc # "idle"
           \/ ~Held(e.dwpt) /\ e.pc # "idle",
           \A d \in Dwpts : d # e.dwpt /\ d # call[t].dwpt => SameDocs(d),
           \A d \in Dwpts : d = e.dwpt => DocsAreOps(d, e)',
           \A d \in Dwpts : d # e.dwpt /\ d = call[t].dwpt => DocsAreOps(d, Idle)'
    PROVE  DocsLinked'
<1>1. \A d \in Dwpts : CallsOf(d)' = IF d = e.dwpt THEN {e}
                                     ELSE IF d = call[t].dwpt THEN {Idle} ELSE CallsOf(d)
  BY CallMove
<1>2. ASSUME NEW d \in Dwpts, NEW c \in CallsOf(d)' PROVE DocsAreOps(d, c)'
  <2>1. CASE d = e.dwpt
    <3>1. c = e
      BY <1>1, <1>2, <2>1
    <3> QED BY <2>1, <3>1
  <2>2. CASE d # e.dwpt /\ d = call[t].dwpt
    <3>1. c = Idle
      BY <1>1, <1>2, <2>2
    <3> QED BY <2>2, <3>1
  <2>3. CASE d # e.dwpt /\ d # call[t].dwpt
    <3>1. c \in CallsOf(d) /\ SameDocs(d)
      BY <1>1, <1>2, <2>3
    <3>2. c \in Call /\ DocsAreOps(d, c)
      BY <3>1, CallsOfType DEF DocsLinked
    <3> QED BY <3>1, <3>2, DocsFrame
  <2> QED BY <2>1, <2>2, <2>3
<1> QED BY <1>2 DEF DocsLinked

LEMMA HolderLinked ==
    ASSUME CallTypeOK, DocsLinked, NEW t \in Threads
    PROVE  \E c \in Call : c = call[t] /\ \A d \in Dwpts : d = c.dwpt => DocsAreOps(d, c)
<1>1. PICK c \in Call : c = call[t]
  BY DEF CallTypeOK
<1>2. ASSUME NEW d \in Dwpts, d = c.dwpt PROVE DocsAreOps(d, c)
  <2>1. c \in CallsOf(d)
    BY <1>1, <1>2 DEF CallsOf, Held
  <2> QED BY <2>1 DEF DocsLinked
<1> QED BY <1>1, <1>2

LEMMA FreeLinked ==
    ASSUME DocsLinked, NEW d \in Dwpts, ~Held(d) PROVE DocsAreOps(d, Idle)
  BY DEF DocsLinked, CallsOf
------------------------------------------------------------------------------
\* A block is added, by an update or by a failed one: its documents have no number.
LEMMA BlockLinked ==
    ASSUME Around, NEW d \in Dwpts, NEW k \in Keys, NEW n \in Nat, DocsAreOps(d, Idle),
           docs'[d] = WithBlock(docs[d], n, k), ops' = ops, NEW e \in Call,
           \/ e.pc = "idle"
           \/ e.pc = "add" /\ e.block = n /\ e.key = k
    PROVE  DocsAreOps(d, e)'
<1>1. docs[d] \in Seq(Doc) /\ Len(docs[d]) \in Nat
  BY DwptTypes
<1>2. /\ Len(docs'[d]) = Len(docs[d]) + n
      /\ \A i \in 1..(Len(docs[d]) + n) :
            docs'[d][i] = IF i <= Len(docs[d]) THEN docs[d][i] ELSE [key |-> k, seqNo |-> 0]
  <2>1. PICK s \in Seq(Doc) : s = docs[d]
    BY <1>1
  <2>2. /\ Len(WithBlock(s, n, k)) = Len(s) + n
        /\ \A i \in 1..(Len(s) + n) :
              WithBlock(s, n, k)[i] = IF i <= Len(s) THEN s[i] ELSE [key |-> k, seqNo |-> 0]
    BY WithBlockProperties
  <2> QED BY <2>1, <2>2
<1>3. \A i \in 1..Len(docs[d]) : i \in 1..(Len(docs[d]) + n) /\ docs'[d][i] = docs[d][i]
  BY <1>1, <1>2
<1>4. \A i \in 1..(Len(docs[d]) + n) : i \notin 1..Len(docs[d]) => docs'[d][i].seqNo = 0 /\ docs'[d][i].key = k
  BY <1>1, <1>2
<1>5. Idle.pc \notin Numbered /\ e.pc \notin Numbered
  BY IdleType DEF Numbered
<1>6. ASSUME NEW i \in 1..Len(docs'[d]), docs'[d][i].seqNo # 0
      PROVE  \E o \in ops' : /\ o.dwpt = d /\ i \in o.docs
                             /\ o.key = docs'[d][i].key /\ o.seqNo = docs'[d][i].seqNo
  <2>1. i \in 1..Len(docs[d]) /\ docs'[d][i] = docs[d][i]
    BY <1>2, <1>3, <1>4, <1>6
  <2> QED BY <1>6, <2>1 DEF DocsAreOps
<1>7. ASSUME NEW o \in ops', o.dwpt = d, NEW i \in o.docs
      PROVE  /\ i \in 1..Len(docs'[d])
             /\ o.key = docs'[d][i].key /\ o.seqNo = docs'[d][i].seqNo
  <2>1. /\ i \in 1..Len(docs[d])
        /\ o.key = docs[d][i].key /\ o.seqNo = docs[d][i].seqNo
    BY <1>5, <1>7 DEF DocsAreOps
  <2> QED BY <1>2, <1>3, <2>1
<1>8. ASSUME e.pc = "add" PROVE \A i \in 1..Len(docs'[d]) : i > Len(docs'[d]) - e.block => docs'[d][i].key = e.key
  <2>1. e.block = n /\ e.key = k
    BY <1>8
  <2>2. ASSUME NEW i \in 1..Len(docs'[d]), i > Len(docs'[d]) - e.block PROVE docs'[d][i].key = e.key
    <3>1. i \in 1..(Len(docs[d]) + n) /\ i \notin 1..Len(docs[d])
      BY <1>1, <1>2, <2>1, <2>2
    <3> QED BY <1>4, <2>1, <3>1
  <2> QED BY <2>2
<1> QED BY <1>5, <1>6, <1>7, <1>8 DEF DocsAreOps, Finished

LEMMA StartUpdateLinked ==
    ASSUME Around, OneCall, DocsLinked, NEW t \in Threads, NEW d \in Dwpts, NEW k \in Keys,
           NEW del \in BOOLEAN, NEW n \in 0..MaxBlock, StartUpdate(t, d, k, del, n)
    PROVE  DocsLinked'
<1>1. n \in Nat /\ CallTypeOK
  BY BoundsAssumption DEF Around, TypeOK
<1>2. PICK e \in Call : e = UpdateCall(d, k, del, n)
  BY <1>1 DEF UpdateCall, Call
<1>3. e.pc = "add" /\ e.block = n /\ e.dwpt = d /\ e.key = k /\ e.pc # "idle"
  BY <1>2 DEF UpdateCall
<1>4. ~Held(d) /\ call[t].dwpt = NoDwpt /\ call' = [call EXCEPT ![t] = e] /\ ops' = ops
  BY <1>2 DEF StartUpdate, OneCall, queueVars
<1>5. docs'[d] = WithBlock(docs[d], n, k) /\ \A f \in Dwpts : f # d => SameDocs(f)
  BY <1>4 DEF StartUpdate, SameDocs, Around, TypeOK, DwptTypeOK
<1>6. DocsAreOps(d, e)'
  BY <1>1, <1>3, <1>4, <1>5, FreeLinked, BlockLinked
<1> QED BY <1>1, <1>3, <1>4, <1>5, <1>6, DwptsAssumption, LinkMove

LEMMA FailUpdateLinked ==
    ASSUME Around, OneCall, DocsLinked, NEW t \in Threads, NEW d \in Dwpts, NEW k \in Keys,
           NEW n \in 1..MaxBlock, FailUpdate(t, d, k, n)
    PROVE  DocsLinked'
<1>1. n \in Nat /\ CallTypeOK /\ Idle \in Call /\ Idle.pc = "idle"
  BY BoundsAssumption, IdleType DEF Around, TypeOK
<1>2. ~Held(d) /\ call' = call /\ ops' = ops
  BY DEF FailUpdate, queueVars
<1>3. docs'[d] = WithBlock(docs[d], n, k) /\ \A f \in Dwpts : f # d => SameDocs(f)
  BY <1>2 DEF FailUpdate, SameDocs, Around, TypeOK, DwptTypeOK
<1>4. DocsAreOps(d, Idle)'
  BY <1>1, <1>2, <1>3, FreeLinked, BlockLinked
<1>5. \A f \in Dwpts : CallsOf(f)' = CallsOf(f)
  BY <1>2 DEF CallsOf, Held
<1>6. ASSUME NEW f \in Dwpts, NEW c \in CallsOf(f)' PROVE DocsAreOps(f, c)'
  <2>1. CASE f = d
    <3>1. c = Idle
      BY <1>2, <1>5, <1>6, <2>1 DEF CallsOf
    <3> QED BY <1>4, <2>1, <3>1
  <2>2. CASE f # d
    <3>1. c \in Call /\ DocsAreOps(f, c) /\ SameDocs(f)
      BY <1>1, <1>3, <1>5, <1>6, <2>2, CallsOfType DEF DocsLinked
    <3> QED BY <3>1, DocsFrame
  <2> QED BY <2>1, <2>2
<1> QED BY <1>6 DEF DocsLinked

\* A call gets its number, and the documents of its block get it too.
LEMMA NumberLinked ==
    ASSUME Around, OpsNumbered, NEW d \in Dwpts, NEW c \in Call, NEW e \in Call, DwptInv(d, c), DocsAreOps(d, c),
           c.pc = "add", e.pc \in Numbered, e.block = c.block, e.key = c.key, e.seqNo = nextSeqNo,
           NEW op \in Promise!Update, op.dwpt = d, op.key = c.key, op.seqNo = nextSeqNo, ops' = ops \cup {op},
           op.docs = IF c.block = 0 THEN {Len(docs[d]) + 1} ELSE (Len(docs[d]) - c.block + 1)..Len(docs[d]),
           docs'[d] = IF c.block = 0 THEN docs[d]
                      ELSE Renumbered(docs[d], (Len(docs[d]) - c.block + 1)..Len(docs[d]), nextSeqNo)
    PROVE  DocsAreOps(d, e)'
<1>1. /\ docs[d] \in Seq(Doc) /\ Len(docs[d]) \in Nat /\ nextSeqNo \in Nat /\ c.block \in Nat
      /\ c.block <= Len(docs[d])
  BY DwptTypes, CallFields DEF DwptInv, CallFits
<1>2. \A i \in 1..Len(docs[d]) : i > Len(docs[d]) - c.block => docs[d][i].seqNo = 0 /\ docs[d][i].key = c.key
  <2>1. phase[d] \in Buffering
    BY DEF DwptInv, CallFits, Updating, Buffering
  <2> QED BY <2>1 DEF DwptInv, DocsNumbered, DocsAreOps, Finished
<1>3. "add" \notin Numbered
  BY DEF Numbered
<1>4. e.pc # "add"
  BY <1>3
<1>5. \A o \in ops : o.seqNo # 0
  BY DEF OpsNumbered
<1>6. ASSUME NEW o \in ops, o.dwpt = d, NEW i \in o.docs
      PROVE  /\ i \in 1..Len(docs[d]) /\ o.key = docs[d][i].key /\ o.seqNo = docs[d][i].seqNo
             /\ ~(i > Len(docs[d]) - c.block)
  BY <1>2, <1>3, <1>5, <1>6 DEF DocsAreOps
<1>7. CASE c.block = 0
  <2>1. docs'[d] = docs[d] /\ op.docs = {Len(docs[d]) + 1}
    BY <1>7
  <2>2. ASSUME NEW i \in 1..Len(docs[d]), docs[d][i].seqNo # 0
        PROVE  \E o \in ops' : /\ o.dwpt = d /\ i \in o.docs
                               /\ o.key = docs[d][i].key /\ o.seqNo = docs[d][i].seqNo
    BY <2>2 DEF DocsAreOps
  <2>3. ASSUME NEW o \in ops', o.dwpt = d, NEW i \in o.docs
        PROVE  \/ /\ i \in 1..Len(docs[d]) /\ o.key = docs[d][i].key /\ o.seqNo = docs[d][i].seqNo
               \/ i = Len(docs[d]) + 1 /\ o.key = e.key /\ o.seqNo = e.seqNo
    BY <1>6, <2>1, <2>3
  <2>4. /\ op \in ops' /\ op.dwpt = d /\ Len(docs[d]) + 1 \in op.docs
        /\ op.key = e.key /\ op.seqNo = e.seqNo
    BY <2>1
  <2> QED BY <1>4, <1>7, <2>1, <2>2, <2>3, <2>4 DEF DocsAreOps
<1>8. CASE c.block # 0
  <2> DEFINE ids == (Len(docs[d]) - c.block + 1)..Len(docs[d])
  <2>1. docs'[d] = Renumbered(docs[d], ids, nextSeqNo) /\ op.docs = ids
    BY <1>8
  <2>2. \A i \in 1..Len(docs[d]) : i \in ids <=> i > Len(docs[d]) - c.block
    BY <1>1
  <2>3. ids \subseteq 1..Len(docs[d])
    BY <1>1
  <2> HIDE DEF ids
  <2>4. /\ Len(docs'[d]) = Len(docs[d])
        /\ \A i \in 1..Len(docs[d]) : /\ docs'[d][i].key = docs[d][i].key
                                      /\ docs'[d][i].seqNo = IF i \in ids THEN nextSeqNo ELSE docs[d][i].seqNo
    <3>1. PICK s \in Seq(Doc) : s = docs[d]
      BY <1>1
    <3>2. /\ Len(Renumbered(s, ids, nextSeqNo)) = Len(s)
          /\ \A i \in 1..Len(s) : /\ Renumbered(s, ids, nextSeqNo)[i].key = s[i].key
                                  /\ Renumbered(s, ids, nextSeqNo)[i].seqNo = IF i \in ids THEN nextSeqNo ELSE s[i].seqNo
      BY <1>1, RenumberedProperties
    <3> QED BY <2>1, <3>1, <3>2
  <2>5. ASSUME NEW i \in 1..Len(docs[d]), docs'[d][i].seqNo # 0
        PROVE  \E o \in ops' : /\ o.dwpt = d /\ i \in o.docs
                               /\ o.key = docs'[d][i].key /\ o.seqNo = docs'[d][i].seqNo
    <3>1. CASE i \in ids
      <4>1. op \in ops' /\ op.dwpt = d /\ i \in op.docs
        BY <2>1, <3>1
      <4>2. op.key = docs'[d][i].key /\ op.seqNo = docs'[d][i].seqNo
        BY <1>2, <2>2, <2>4, <3>1
      <4> QED BY <4>1, <4>2
    <3>2. CASE i \notin ids
      <4>1. docs'[d][i].key = docs[d][i].key /\ docs'[d][i].seqNo = docs[d][i].seqNo
        BY <2>4, <3>2
      <4> QED BY <2>5, <4>1 DEF DocsAreOps
    <3> QED BY <3>1, <3>2
  <2>6. ASSUME NEW o \in ops', o.dwpt = d, NEW i \in o.docs
        PROVE  i \in 1..Len(docs[d]) /\ o.key = docs'[d][i].key /\ o.seqNo = docs'[d][i].seqNo
    <3>1. CASE o = op
      <4>1. i \in ids /\ i \in 1..Len(docs[d])
        BY <2>1, <2>3, <2>6, <3>1
      <4> QED BY <1>2, <2>2, <2>4, <3>1, <4>1
    <3>2. CASE o \in ops
      BY <1>6, <2>2, <2>4, <2>6, <3>2
    <3> QED BY <3>1, <3>2
  <2> QED BY <1>4, <1>8, <2>4, <2>5, <2>6 DEF DocsAreOps
<1> QED BY <1>7, <1>8

LEMMA UpdateLinked ==
    ASSUME IInv, Linked, NEW t \in Threads, AddNode(t) \/ UpdateSlice(t) PROVE DocsLinked'
<1>1. /\ Around /\ OneCall /\ DwptsInv /\ NextSequenceNumber(t) /\ NumberBlock(t)
      /\ CallTypeOK /\ DocsLinked /\ OpsNumbered
  BY DEF IInv, Around, AddNode, UpdateSlice, Linked, DocsLinked, TypeOK
<1>2. PICK c \in Call : c = call[t] /\ \A d \in Dwpts : d = c.dwpt => DwptInv(d, c)
  BY <1>1, HolderKnows
<1>3. c.pc = "add" /\ \A d \in Dwpts : d = c.dwpt => DocsAreOps(d, c)
  <2>1. c.pc = "add"
    BY <1>2 DEF AddNode, UpdateSlice
  <2> QED BY <1>1, <1>2, <2>1, HolderLinked
<1>4. PICK op \in Promise!Update :
         /\ op.seqNo = nextSeqNo /\ op.key = c.key /\ op.dwpt = c.dwpt /\ op.docs = DocsOf(t)
         /\ ops' = ops \cup {op}
  BY <1>1, <1>2, <1>3, NewUpdate
<1>5. PICK pc \in Numbered, applies \in BOOLEAN : call' = [call EXCEPT ![t] = NumberedCall(c, pc, nextSeqNo, applies)]
  <2>1. "tryLock" \in Numbered /\ "finish" \in Numbered
    BY DEF Numbered
  <2>2. CASE AddNode(t)
    <3>1. (c.dwpt # NoDwpt /\ numDocsInRAM(c.dwpt) # 0) \in BOOLEAN
      OBVIOUS
    <3> QED BY <1>2, <2>1, <2>2, <3>1 DEF AddNode
  <2>3. CASE UpdateSlice(t)
    <3>1. (deleteSlice[c.dwpt].tail # tail /\ numDocsInRAM(c.dwpt) # 0) \in BOOLEAN
      OBVIOUS
    <3> QED BY <1>2, <2>1, <2>3, <3>1 DEF UpdateSlice
  <2> QED BY <2>2, <2>3
<1>6. PICK e \in Call : e = NumberedCall(c, pc, nextSeqNo, applies)
  BY <1>1, CallFields DEF NumberedCall, Call, Numbered, Around, TypeOK, QueueTypeOK
<1>7. /\ e.pc \in Numbered /\ e.pc # "idle" /\ e.dwpt = c.dwpt /\ e.block = c.block /\ e.key = c.key
      /\ e.seqNo = nextSeqNo
  BY <1>6 DEF NumberedCall, Numbered
<1>8. ASSUME NEW f \in Dwpts, f # c.dwpt PROVE SameDocs(f)
  <2>1. docs'[f] = docs[f]
    BY <1>1, <1>2, <1>8 DEF NumberBlock, Around, TypeOK, DwptTypeOK
  <2> QED BY <1>4, <1>8, <2>1 DEF SameDocs
<1>9. ASSUME NEW d \in Dwpts, d = c.dwpt PROVE DocsAreOps(d, e)'
  <2>1. d # NoDwpt
    BY DwptsAssumption
  <2>2. op.docs = IF c.block = 0 THEN {Len(docs[d]) + 1} ELSE (Len(docs[d]) - c.block + 1)..Len(docs[d])
    BY <1>2, <1>4, <1>9, <2>1 DEF DocsOf, numDocsInRAM
  <2>3. docs'[d] = IF c.block = 0 THEN docs[d]
                   ELSE Renumbered(docs[d], (Len(docs[d]) - c.block + 1)..Len(docs[d]), nextSeqNo)
    BY <1>1, <1>2, <1>9, <2>1 DEF NumberBlock, DocsOf, numDocsInRAM, Around, TypeOK, DwptTypeOK
  <2>4. DwptInv(d, c) /\ DocsAreOps(d, c)
    BY <1>2, <1>3, <1>9
  <2> QED BY <1>1, <1>3, <1>4, <1>7, <1>9, <2>2, <2>3, <2>4, NumberLinked
<1>10. call' = [call EXCEPT ![t] = e]
  BY <1>5, <1>6
<1> QED BY <1>1, <1>2, <1>7, <1>8, <1>9, <1>10, LinkMove

\* The update is counted: its single document is now the last of the DWPT.
LEMMA FinishLinked ==
    ASSUME Around, OneCall, DocsLinked, NEW t \in Threads, FinishUpdate(t) PROVE DocsLinked'
<1>1. CallTypeOK
  BY DEF Around, TypeOK
<1>2. PICK c \in Call : c = call[t] /\ \A d \in Dwpts : d = c.dwpt => DocsAreOps(d, c)
  BY <1>1, HolderLinked
<1>3. /\ c.pc \in Numbered /\ call' = [call EXCEPT ![t] = Idle] /\ ops' = ops
      /\ \A f \in Dwpts : f # c.dwpt => docs'[f] = docs[f]
  BY <1>2 DEF FinishUpdate, Return, queueVars, Numbered, Around, TypeOK, DwptTypeOK
<1>4. \A f \in Dwpts : f # c.dwpt => SameDocs(f)
  BY <1>3 DEF SameDocs
<1>5. Idle \in Call /\ Idle.dwpt = NoDwpt /\ Idle.pc \notin Numbered /\ Idle.pc # "add"
  BY IdleType DEF Numbered
<1>6. ASSUME NEW d \in Dwpts, d = c.dwpt PROVE DocsAreOps(d, Idle)'
  <2>1. DocsAreOps(d, c)
    BY <1>2, <1>6
  <2>2. CASE c.block # 0
    <3>1. docs'[d] = docs[d]
      BY <1>2, <2>2 DEF FinishUpdate
    <3>2. SameDocs(d)
      BY <1>3, <3>1 DEF SameDocs
    <3> QED BY <1>5, <2>1, <2>2, <3>2, DocsFrame
  <2>3. CASE c.block = 0
    <3>1. PICK doc \in Doc : doc = [key |-> c.key, seqNo |-> c.seqNo]
      BY <1>1, <1>2, CallFields DEF Doc, CallTypeOK, Updating, FinishUpdate
    <3>2. docs'[d] = Append(docs[d], doc)
      BY <1>2, <1>6, <2>3, <3>1 DEF FinishUpdate, Around, TypeOK, DwptTypeOK
    <3>3. docs[d] \in Seq(Doc) /\ Len(docs[d]) \in Nat
      BY DwptTypes
    <3>4. /\ Len(docs'[d]) = Len(docs[d]) + 1
          /\ \A i \in 1..Len(docs[d]) : docs'[d][i] = docs[d][i]
          /\ docs'[d][Len(docs[d]) + 1] = doc
      BY <3>2, <3>3
    <3>5. ASSUME NEW i \in 1..(Len(docs[d]) + 1), docs'[d][i].seqNo # 0
          PROVE  \E o \in ops : /\ o.dwpt = d /\ i \in o.docs
                                /\ o.key = docs'[d][i].key /\ o.seqNo = docs'[d][i].seqNo
      <4>1. CASE i \in 1..Len(docs[d])
        BY <2>1, <3>4, <3>5, <4>1 DEF DocsAreOps
      <4>2. CASE i = Len(docs[d]) + 1
        <5>1. \E o \in ops : /\ o.dwpt = d /\ Len(docs[d]) + 1 \in o.docs
                             /\ o.key = c.key /\ o.seqNo = c.seqNo
          BY <1>3, <2>1, <2>3 DEF DocsAreOps
        <5> QED BY <3>1, <3>4, <4>2, <5>1
      <4> QED BY <3>3, <4>1, <4>2
    <3>6. ASSUME NEW o \in ops, o.dwpt = d, NEW i \in o.docs
          PROVE  /\ i \in 1..(Len(docs[d]) + 1)
                 /\ o.key = docs'[d][i].key /\ o.seqNo = docs'[d][i].seqNo
      <4>1. CASE i \in 1..Len(docs[d]) /\ o.key = docs[d][i].key /\ o.seqNo = docs[d][i].seqNo
        BY <3>3, <3>4, <4>1
      <4>2. CASE i = Len(docs[d]) + 1 /\ o.key = c.key /\ o.seqNo = c.seqNo
        BY <3>1, <3>3, <3>4, <4>2
      <4> QED BY <2>1, <3>6, <4>1, <4>2 DEF DocsAreOps
    <3> QED BY <1>3, <1>5, <3>4, <3>5, <3>6 DEF DocsAreOps
  <2> QED BY <2>2, <2>3
<1>7. \A d \in Dwpts : d # NoDwpt
  BY DwptsAssumption
<1> HIDE DEF Idle
<1> QED BY <1>1, <1>2, <1>3, <1>4, <1>5, <1>6, <1>7, LinkMove

\* A call goes on, returns or starts, and no document changes.
LEMMA GotoLinked ==
    ASSUME CallTypeOK, OneCall, DocsLinked, NEW t \in Threads, NEW pc, Goto(t, pc), UNCHANGED <<docs, ops>>,
           \/ call[t].pc \in Numbered /\ pc \in Numbered
           \/ call[t].pc \in {"lock", "locked"} /\ pc \in {"locked", "prepare"}
    PROVE  DocsLinked'
<1>1. PICK c \in Call : c = call[t] /\ \A d \in Dwpts : d = c.dwpt => DocsAreOps(d, c)
  BY HolderLinked
<1>2. PICK e \in Call : e = NumberedCall(c, pc, c.seqNo, c.applySlice)
  BY CallFields DEF NumberedCall, Call, Numbered
<1>3. e.pc = pc /\ e.dwpt = c.dwpt /\ e.block = c.block /\ e.seqNo = c.seqNo /\ e.key = c.key
  BY <1>2 DEF NumberedCall
<1>4. call' = [call EXCEPT ![t] = e]
  BY <1>1, <1>2 DEF Goto
<1>5. \A d \in Dwpts : SameDocs(d)
  BY DEF SameDocs
<1>6. e.pc # "add" /\ e.pc # "idle" /\ (c.pc \in Numbered <=> e.pc \in Numbered)
  BY <1>1, <1>3 DEF Numbered
<1>7. ASSUME NEW d \in Dwpts, d = e.dwpt PROVE DocsAreOps(d, e)'
  BY <1>1, <1>3, <1>5, <1>6, <1>7, DocsFrame
<1> QED BY <1>1, <1>3, <1>4, <1>5, <1>6, <1>7, LinkMove

LEMMA ReturnLinked ==
    ASSUME CallTypeOK, OneCall, DocsLinked, NEW t \in Threads, Return(t), UNCHANGED <<docs, ops>>,
           call[t].dwpt = NoDwpt \/ call[t].pc \in {"locked", "prepare"}
    PROVE  DocsLinked'
<1>1. PICK c \in Call : c = call[t] /\ \A d \in Dwpts : d = c.dwpt => DocsAreOps(d, c)
  BY HolderLinked
<1>2. Idle \in Call /\ Idle.dwpt = NoDwpt /\ Idle.pc \notin Numbered /\ Idle.pc # "add"
  BY IdleType DEF Numbered
<1>3. \A d \in Dwpts : SameDocs(d) /\ d # NoDwpt
  BY DwptsAssumption DEF SameDocs
<1>4. ASSUME NEW d \in Dwpts, d = c.dwpt PROVE DocsAreOps(d, Idle)'
  <2>1. c.pc \notin Numbered
    BY <1>1, <1>3, <1>4 DEF Numbered
  <2> QED BY <1>1, <1>2, <1>3, <1>4, <2>1, DocsFrame
<1>5. call' = [call EXCEPT ![t] = Idle]
  BY DEF Return
<1> HIDE DEF Idle
<1> QED BY <1>1, <1>2, <1>3, <1>4, <1>5, LinkMove

LEMMA TryApplyLinked ==
    ASSUME CallTypeOK, OneCall, DocsLinked, NEW t \in Threads, TryLock(t) \/ TryApply(t) PROVE DocsLinked'
<1>1. UNCHANGED <<docs, ops>> /\ call[t].pc \in Numbered
  BY DEF TryLock, TryApply, Numbered, dwptVars, queueVars
<1>2. CASE Goto(t, "apply") \/ Goto(t, "finish")
  BY <1>1, <1>2, GotoLinked DEF Numbered
<1>3. CASE call[t].dwpt = NoDwpt /\ Return(t)
  BY <1>1, <1>3, ReturnLinked
<1> QED BY <1>2, <1>3 DEF TryLock, TryApply, AfterTryApply

LEMMA StartCallLinked ==
    ASSUME CallTypeOK, OneCall, DocsLinked, NEW t \in Threads,
           \/ \E k \in Keys : StartDelete(t, k)
           \/ \E what \in LockedCalls, d \in Dwpts \cup {NoDwpt} : StartLocked(t, what, d)
    PROVE  DocsLinked'
<1>1. (\A f \in Dwpts : SameDocs(f) /\ f # NoDwpt) /\ call[t].dwpt = NoDwpt
  BY DwptsAssumption DEF StartDelete, StartLocked, dwptVars, queueVars, SameDocs, OneCall
<1>2. ASSUME NEW k \in Keys, StartDelete(t, k) PROVE DocsLinked'
  <2>1. PICK e \in Call : e = UpdateCall(NoDwpt, k, TRUE, 0)
    BY DEF UpdateCall, Call
  <2>2. e.dwpt = NoDwpt /\ call' = [call EXCEPT ![t] = e]
    BY <1>2, <2>1 DEF StartDelete, UpdateCall
  <2> QED BY <1>1, <2>2, LinkMove
<1>3. ASSUME NEW what \in LockedCalls, NEW d \in Dwpts \cup {NoDwpt}, StartLocked(t, what, d)
      PROVE  DocsLinked'
  <2>1. PICK e \in Call : e = LockedCall(d, what)
    BY LockedCallType
  <2>2. e.pc = "lock" /\ e.dwpt = d /\ call' = [call EXCEPT ![t] = e]
    BY <1>3, <2>1 DEF StartLocked, LockedCall
  <2>3. ASSUME NEW f \in Dwpts, f = d PROVE DocsAreOps(f, e)' /\ ~Held(f)
    <3>1. ~Held(f)
      BY <1>1, <1>3, <2>3 DEF StartLocked
    <3>2. DocsAreOps(f, Idle)
      BY <3>1, FreeLinked
    <3>3. Idle \in Call /\ Idle.pc \notin Numbered /\ e.pc \notin Numbered /\ e.pc # "add"
      BY <2>2, IdleType DEF Numbered
    <3> QED BY <1>1, <3>1, <3>2, <3>3, DocsFrame
  <2>4. d = NoDwpt \/ ~Held(d)
    BY <2>3
  <2> QED BY <1>1, <2>2, <2>3, <2>4, LinkMove
<1> QED BY <1>2, <1>3

LEMMA DocsStep == ASSUME IInv, Linked, [Next]_vars PROVE DocsLinked'
<1>1. Around /\ OneCall /\ DwptsInv /\ DocsLinked /\ CallTypeOK
  BY DEF IInv, Around, Linked, DocsLinked, TypeOK
<1>3. ASSUME UNCHANGED <<docs, ops, call>> PROVE DocsLinked'
  <2>1. \A d \in Dwpts : SameDocs(d) /\ CallsOf(d)' = CallsOf(d)
    BY <1>3 DEF SameDocs, CallsOf, Held
  <2>2. ASSUME NEW d \in Dwpts, NEW c \in CallsOf(d)' PROVE DocsAreOps(d, c)'
    <3>1. c \in Call /\ DocsAreOps(d, c) /\ SameDocs(d)
      BY <1>1, <2>1, <2>2, CallsOfType DEF DocsLinked
    <3> QED BY <3>1, DocsFrame
  <2> QED BY <2>2 DEF DocsLinked
<1>2. ASSUME NEW t \in Threads, Step(t) PROVE DocsLinked'
  <2>1. CASE \E d \in Dwpts, k \in Keys, del \in BOOLEAN, n \in 0..MaxBlock : StartUpdate(t, d, k, del, n)
    BY <1>1, <2>1, StartUpdateLinked
  <2>2. CASE \E d \in Dwpts, k \in Keys, n \in 1..MaxBlock : FailUpdate(t, d, k, n)
    BY <1>1, <2>2, FailUpdateLinked
  <2>3. CASE \/ \E k \in Keys : StartDelete(t, k)
             \/ \E what \in LockedCalls, d \in Dwpts \cup {NoDwpt} : StartLocked(t, what, d)
    BY <1>1, <2>3, StartCallLinked
  <2>4. CASE AddNode(t) \/ UpdateSlice(t)
    BY <2>4, UpdateLinked
  <2>5. CASE TryLock(t) \/ TryApply(t)
    BY <1>1, <2>5, TryApplyLinked
  <2>6. CASE FinishUpdate(t)
    BY <1>1, <2>6, FinishLinked
  <2>7. CASE Lock(t)
    <3>1. Goto(t, "locked") /\ UNCHANGED <<docs, ops>> /\ call[t].pc = "lock"
      BY <2>7 DEF Lock, dwptVars, queueVars
    <3> QED BY <1>1, <3>1, GotoLinked
  <2>8. CASE FreezeGlobalBuffer(t)
    <3>1. Goto(t, "prepare") \/ Return(t)
      BY <2>8 DEF FreezeGlobalBuffer
    <3>2. UNCHANGED <<docs, ops>> /\ call[t].pc = "locked"
      BY <2>8 DEF FreezeGlobalBuffer, queueVars
    <3> QED BY <1>1, <3>1, <3>2, GotoLinked, ReturnLinked
  <2>9. CASE Clear(t) \/ ForceApply(t) \/ PrepareAndFlush(t)
    <3>1. Return(t) /\ UNCHANGED <<docs, ops>> /\ call[t].pc \in {"locked", "prepare"}
      BY <2>9 DEF Clear, ForceApply, PrepareAndFlush, dwptVars, queueVars
    <3> QED BY <1>1, <3>1, ReturnLinked
  <2>10. CASE LinkNode(t)
    BY <1>3, <2>10 DEF LinkNode, dwptVars
  <2> QED BY <1>2, <2>1, <2>2, <2>3, <2>4, <2>5, <2>6, <2>7, <2>8, <2>9, <2>10 DEF Step
<1>4. ASSUME SkipSequenceNumbers \/ UNCHANGED vars PROVE UNCHANGED <<docs, ops, call>>
  BY <1>4 DEF SkipSequenceNumbers, vars, dwptVars
<1> QED BY <1>2, <1>3, <1>4 DEF Next
------------------------------------------------------------------------------
LEMMA LinkInit == Init => Linked
<1> SUFFICES ASSUME Init PROVE Linked
  OBVIOUS
<1>1. ops = {} /\ tail = 0 /\ cuts = <<>> /\ DOMAIN cuts = {}
  BY DEF Init, InitWith, tail
<1>2. OpsNumbered /\ NodesAreDeletes /\ CutsNumbered
  BY <1>1 DEF OpsNumbered, NodesAreDeletes, CutsNumbered
<1>3. FrozenPhases
  BY DEF Init, InitWith, FrozenPhases
<1>4. ASSUME NEW d \in Dwpts, NEW c \in CallsOf(d) PROVE DocsAreOps(d, c)
  <2>1. c = Idle
    BY <1>4, IdleType, DwptsAssumption DEF CallsOf, Held, Init, InitWith
  <2>2. Len(docs[d]) = 0 /\ c.pc \notin Numbered /\ c.pc # "add"
    BY <2>1, IdleType DEF Init, InitWith, Numbered
  <2> QED BY <1>1, <2>2 DEF DocsAreOps
<1> QED BY <1>2, <1>3, <1>4 DEF Linked

LEMMA LinkStep == ASSUME IInv, Linked, [Next]_vars PROVE Linked'
<1>1. OpsNumbered' /\ NodesAreDeletes' /\ CutsNumbered'
  BY NumbersStep
<1>2. FrozenPhases'
  BY PhasesStep
<1>3. DocsLinked'
  BY DocsStep
<1> QED BY <1>1, <1>2, <1>3 DEF Linked, DocsLinked
------------------------------------------------------------------------------
\* The steps of SequencedUpdates that the steps of the queue are.
LEMMA StutterMaps ==
    ASSUME UNCHANGED <<ops, cuts, frozenAt, liveDocs>> PROVE UNCHANGED Promise!vars
<1>1. LastCut' = LastCut /\ FrozenCuts' = FrozenCuts
  BY DEF LastCut, FrozenCuts
<1> QED BY <1>1 DEF Promise!vars

LEMMA LastCutNumber ==
    ASSUME Around, CutsNumbered
    PROVE  /\ LastCut.seqNo \in Nat /\ LastCut.seqNo < nextSeqNo /\ LastCut.pos \in Nat /\ LastCut.pos <= tail
           /\ \A p \in 1..tail : p <= LastCut.pos <=> nodes[p].seqNo <= LastCut.seqNo
<1>1. /\ tail \in Nat /\ nextSeqNo \in Nat /\ 0 < nextSeqNo
      /\ \A p \in 1..tail : nodes[p].seqNo \in Nat /\ 0 < nodes[p].seqNo
  BY NodesType DEF Around, TypeOK, QueueTypeOK, QueueOrdered
<1>2. CASE cuts = <<>>
  <2>1. LastCut.seqNo = 0 /\ LastCut.pos = 0
    BY <1>2 DEF LastCut, Sentinel
  <2> QED BY <1>1, <2>1
<1>3. CASE cuts # <<>>
  <2>1. LastCut = cuts[Len(cuts)] /\ Len(cuts) \in DOMAIN cuts
    <3>1. cuts \in Seq(Cut)
      BY DEF Around, TypeOK, GlobalTypeOK
    <3> QED BY <1>3, <3>1 DEF LastCut
  <2> QED BY <2>1, CutNumbers DEF CutsNumbered
<1> QED BY <1>2, <1>3

\* What a DWPT that has a cut, and one that has none, is sealed with.
LEMMA SealedAt ==
    ASSUME Around, DwptsInv, FrozenPhases, NEW d \in Dwpts
    PROVE  frozenAt[d] # 0 => frozenAt[d] \in DOMAIN cuts
<1>1. PICK c : c \in CallsOf(d)
  BY DEF CallsOf, Held
<1>2. SlicePlaces(d, c)
  BY <1>1 DEF DwptsInv, DwptInv
<1> QED BY <1>2 DEF SlicePlaces, FrozenPhases

LEMMA SerializeMaps ==
    ASSUME IInv, Linked, NEW t \in Threads, AddNode(t) \/ UpdateSlice(t) PROVE Promise!Serialize
<1>1. /\ Around /\ OneCall /\ DwptsInv /\ NextSequenceNumber(t) /\ call[t].pc = "add"
      /\ OpsNumbered /\ CutsNumbered /\ FrozenPhases
  BY DEF IInv, Around, AddNode, UpdateSlice, Linked
<1>2. PICK op \in Promise!Update :
         op.seqNo = nextSeqNo /\ op.dwpt = call[t].dwpt /\ ops' = ops \cup {op}
  BY <1>1, NewUpdate
<1>3. \A o \in ops : o.seqNo < op.seqNo
  BY <1>1, <1>2 DEF OpsNumbered
<1>4. LastCut.seqNo < op.seqNo
  BY <1>1, <1>2, LastCutNumber
<1>5. op.dwpt # NoDwpt => [d \in Dwpts |-> IF frozenAt[d] = 0 THEN -1 ELSE cuts[frozenAt[d]].seqNo][op.dwpt] = -1
  <2>1. SUFFICES ASSUME op.dwpt # NoDwpt PROVE op.dwpt \in Dwpts /\ frozenAt[op.dwpt] = 0
    OBVIOUS
  <2>2. op.dwpt \in Dwpts
    BY <2>1 DEF Promise!Update
  <2>3. phase[op.dwpt] = "indexing"
    <3>1. PICK c \in Call : c = call[t] /\ \A d \in Dwpts : d = c.dwpt => DwptInv(d, c)
      BY <1>1, HolderKnows
    <3> QED BY <1>1, <1>2, <2>2, <3>1 DEF DwptInv, CallFits, Updating
  <2> QED BY <1>1, <2>2, <2>3 DEF FrozenPhases
<1>6. UNCHANGED <<cuts, frozenAt, liveDocs>>
  BY DEF AddNode, UpdateSlice, globalVars
<1>7. LastCut' = LastCut /\ FrozenCuts' = FrozenCuts
  BY <1>6 DEF LastCut, FrozenCuts
<1>8. op \in ops'
  BY <1>2
<1> QED BY <1>2, <1>3, <1>4, <1>5, <1>6, <1>7, <1>8 DEF Promise!Serialize

\* A cut, and the deletes that it covers in the serialization.
LEMMA KeysBetween ==
    ASSUME Around, Linked
    PROVE  Promise!DeletedBetween(LastCut.seqNo, nextSeqNo - 1) = {k \in Keys : DeletedIn(LastCut.pos, tail, k)}
<1>1. /\ tail \in Nat /\ nextSeqNo \in Nat /\ LastCut.seqNo \in Nat /\ LastCut.pos \in Nat
      /\ LastCut.pos <= tail
      /\ \A p \in 1..tail : /\ nodes[p].seqNo \in Nat /\ nodes[p].key \in Keys
                            /\ p <= LastCut.pos <=> nodes[p].seqNo <= LastCut.seqNo
  BY NodesType, LastCutNumber DEF Around, TypeOK, QueueTypeOK, Linked
<1>2. \A o \in ops : o.seqNo \in Nat /\ o.key \in Keys /\ o.seqNo < nextSeqNo
  BY DEF Linked, OpsNumbered, Promise!Update
<1>3. ASSUME NEW o \in ops, o.del, LastCut.seqNo < o.seqNo
      PROVE  DeletedIn(LastCut.pos, tail, o.key)
  <2>1. PICK p \in 1..tail : nodes[p].key = o.key /\ nodes[p].seqNo = o.seqNo
    BY <1>3 DEF Linked, NodesAreDeletes
  <2>2. p \in (LastCut.pos + 1)..tail
    BY <1>1, <1>2, <1>3, <2>1
  <2> QED BY <2>1, <2>2 DEF DeletedIn
<1>4. ASSUME NEW k \in Keys, DeletedIn(LastCut.pos, tail, k)
      PROVE  \E o \in ops : o.del /\ LastCut.seqNo < o.seqNo /\ o.seqNo <= nextSeqNo - 1 /\ o.key = k
  <2>1. PICK p \in (LastCut.pos + 1)..tail : nodes[p].key = k
    BY <1>4 DEF DeletedIn
  <2>2. p \in 1..tail /\ ~(p <= LastCut.pos)
    BY <1>1
  <2>3. PICK o \in ops : o.del /\ o.key = nodes[p].key /\ o.seqNo = nodes[p].seqNo
    BY <2>2 DEF Linked, NodesAreDeletes
  <2>4. LastCut.seqNo < o.seqNo /\ o.seqNo <= nextSeqNo - 1
    BY <1>1, <1>2, <2>2, <2>3
  <2> QED BY <2>1, <2>3, <2>4
<1> QED BY <1>2, <1>3, <1>4 DEF Promise!DeletedBetween

LEMMA CutMaps ==
    ASSUME IInv, Linked, NEW keys \in SUBSET Keys, NEW dropped \in BOOLEAN, NewCut(keys, dropped),
           UNCHANGED queueVars
    PROVE  /\ LastCut'.seqNo = nextSeqNo - 1 /\ Promise!MoveCut
           /\ {[keys |-> cuts[c].keys, upto |-> cuts[c].seqNo] : c \in FrozenCuts}' =
                 {[keys |-> cuts[c].keys, upto |-> cuts[c].seqNo] : c \in FrozenCuts}
                 \cup IF keys = {} THEN {} ELSE {[keys |-> keys, upto |-> nextSeqNo - 1]}
<1>1. Around /\ CutsNumbered /\ OpsNumbered
  BY DEF IInv, Around, Linked
<1>2. /\ DOMAIN cuts' = 1..(Len(cuts) + 1) /\ DOMAIN cuts = 1..Len(cuts) /\ Len(cuts) \in Nat
      /\ \A c \in DOMAIN cuts : cuts'[c] = cuts[c]
      /\ cuts'[Len(cuts) + 1].keys = keys /\ LastCut' = cuts'[Len(cuts) + 1]
      /\ cuts'[Len(cuts) + 1].seqNo = nextSeqNo - 1
  BY <1>1, NewCutProperties, CutLinks, CutsType DEF Around, TypeOK
<1>3. nextSeqNo \in Nat /\ LastCut.seqNo \in Nat /\ LastCut.seqNo < nextSeqNo
  BY <1>1, LastCutNumber DEF Around, TypeOK, QueueTypeOK
<1>4. Promise!MoveCut
  <2>1. \A o \in ops : o.seqNo \in Nat /\ o.seqNo < nextSeqNo
    BY <1>1 DEF OpsNumbered, Promise!Update
  <2> QED BY <1>2, <1>3, <2>1 DEF Promise!MoveCut
<1>5. FrozenCuts' = FrozenCuts \cup IF keys = {} THEN {} ELSE {Len(cuts) + 1}
  BY <1>2 DEF FrozenCuts
<1>6. FrozenCuts \subseteq DOMAIN cuts
  BY DEF FrozenCuts
<1> QED BY <1>2, <1>4, <1>5, <1>6

LEMMA ClearMaps == ASSUME IInv, Linked, NEW t \in Threads, Clear(t) PROVE Promise!Drop
<1>1. NewCut({}, TRUE) /\ UNCHANGED queueVars /\ UNCHANGED <<frozenAt, liveDocs, ops>>
  BY DEF Clear, dwptVars, queueVars
<1>2. PICK keys \in SUBSET Keys : keys = {}
  OBVIOUS
<1>3. Promise!MoveCut /\ {[keys |-> cuts[c].keys, upto |-> cuts[c].seqNo] : c \in FrozenCuts}' =
                           {[keys |-> cuts[c].keys, upto |-> cuts[c].seqNo] : c \in FrozenCuts}
  BY <1>1, <1>2, CutMaps
<1>4. ASSUME NEW d \in Dwpts, frozenAt[d] # 0 PROVE cuts'[frozenAt[d]] = cuts[frozenAt[d]]
  <2>1. frozenAt[d] \in DOMAIN cuts
    BY <1>4, SealedAt DEF IInv, Around, Linked
  <2> QED BY <1>1, <1>2, <2>1, NewCutProperties DEF IInv
<1>5. \A d \in Dwpts : (IF frozenAt[d] = 0 THEN -1 ELSE cuts[frozenAt[d]].seqNo)' =
                       IF frozenAt[d] = 0 THEN -1 ELSE cuts[frozenAt[d]].seqNo
  BY <1>1, <1>4
<1> QED BY <1>1, <1>3, <1>5 DEF Promise!Drop

LEMMA FreezeMaps ==
    ASSUME IInv, IInv', Linked, NEW t \in Threads, FreezeGlobalBuffer(t)
    PROVE  Promise!Freeze \/ \E d \in Dwpts : Promise!Seal(d)
<1>1. PICK keys \in SUBSET Keys : NewCut(keys, FALSE) /\ UNCHANGED queueVars /\ UNCHANGED <<liveDocs, ops>>
  BY DEF FreezeGlobalBuffer, queueVars
<1>2. /\ Around /\ OneCall /\ DwptsInv /\ FrozenPhases /\ PacketsPartitionDeletes'
  BY DEF IInv, Around, Linked
<1>3. /\ DOMAIN cuts' = 1..(Len(cuts) + 1) /\ DOMAIN cuts = 1..Len(cuts) /\ Len(cuts) \in Nat
      /\ \A c \in DOMAIN cuts : cuts'[c] = cuts[c]
      /\ cuts'[Len(cuts) + 1].keys = keys /\ cuts'[Len(cuts) + 1].pos = tail
      /\ cuts'[Len(cuts) + 1].dropped = FALSE
      /\ Len(cuts') = Len(cuts) + 1 /\ LastCut' = cuts'[Len(cuts) + 1]
      /\ \A n \in Nat : n = Len(cuts) + 1 => CutStart(n)' = LastCut.pos
  BY <1>1, <1>2, NewCutProperties, CutsType DEF Around, TypeOK
<1>4. keys = Promise!DeletedBetween(LastCut.seqNo, LastCut'.seqNo)
  <2>1. PICK n \in Nat : n = Len(cuts) + 1
    BY <1>3
  <2>2. n \in DOMAIN cuts' /\ ~cuts'[n].dropped /\ CutStart(n)' = LastCut.pos /\ cuts'[n].pos = tail
    BY <1>3, <2>1
  <2>3. cuts'[n].keys = {k \in Keys : DeletedIn(CutStart(n), cuts[n].pos, k)'}
    BY <1>2, <2>2 DEF PacketsPartitionDeletes
  <2>4. \A k : DeletedIn(CutStart(n), cuts[n].pos, k)' <=> DeletedIn(LastCut.pos, tail, k)
    BY <1>1, <2>2 DEF DeletedIn, queueVars
  <2>5. keys = {k \in Keys : DeletedIn(LastCut.pos, tail, k)}
    BY <1>3, <2>1, <2>3, <2>4
  <2> QED BY <1>1, <1>2, <2>5, CutMaps, KeysBetween
<1>5. Promise!Cut
  <2>1. /\ LastCut'.seqNo = nextSeqNo - 1 /\ Promise!MoveCut
        /\ {[keys |-> cuts[c].keys, upto |-> cuts[c].seqNo] : c \in FrozenCuts}' =
              {[keys |-> cuts[c].keys, upto |-> cuts[c].seqNo] : c \in FrozenCuts}
              \cup IF keys = {} THEN {} ELSE {[keys |-> keys, upto |-> nextSeqNo - 1]}
    BY <1>1, CutMaps
  <2> QED BY <1>4, <2>1 DEF Promise!Cut
<1>6. \A d \in Dwpts : frozenAt[d] # 0 => cuts'[frozenAt[d]] = cuts[frozenAt[d]]
  BY <1>2, <1>3, SealedAt
<1>7. CASE call[t].dwpt = NoDwpt
  <2>1. frozenAt' = frozenAt
    BY <1>7 DEF FreezeGlobalBuffer
  <2>2. \A d \in Dwpts : (IF frozenAt[d] = 0 THEN -1 ELSE cuts[frozenAt[d]].seqNo)' =
                         IF frozenAt[d] = 0 THEN -1 ELSE cuts[frozenAt[d]].seqNo
    BY <1>6, <2>1
  <2> QED BY <1>1, <1>5, <2>2 DEF Promise!Freeze
<1>8. CASE call[t].dwpt # NoDwpt
  <2>1. PICK d \in Dwpts : d = call[t].dwpt /\ phase[d] = "indexing"
    <3>1. PICK c \in Call : c = call[t] /\ \A d \in Dwpts : d = c.dwpt => DwptInv(d, c)
      BY <1>2, HolderKnows
    <3>2. c.dwpt \in Dwpts /\ c.pc = "locked"
      BY <1>8, <3>1, CallFields DEF FreezeGlobalBuffer
    <3> QED BY <3>1, <3>2 DEF DwptInv, CallFits
  <2>2. frozenAt' = [frozenAt EXCEPT ![d] = Len(cuts')] /\ frozenAt \in [Dwpts -> Nat] /\ frozenAt[d] = 0
    BY <1>2, <1>8, <2>1 DEF FreezeGlobalBuffer, FrozenPhases, Around, TypeOK, DwptTypeOK
  <2> DEFINE sealed == [e \in Dwpts |-> IF frozenAt[e] = 0 THEN -1 ELSE cuts[frozenAt[e]].seqNo]
  <2>3. sealed[d] = -1
    BY <2>2
  <2>4. sealed' = [sealed EXCEPT ![d] = LastCut'.seqNo]
    <3>1. sealed'[d] = LastCut'.seqNo
      BY <1>3, <2>2
    <3>2. \A e \in Dwpts : e # d => sealed'[e] = sealed[e]
      BY <1>6, <2>2
    <3> QED BY <3>1, <3>2
  <2> QED BY <1>1, <1>5, <2>3, <2>4 DEF Promise!Seal
<1> QED BY <1>7, <1>8

\* A delete within the cut of d removes a document: in the list and in the
\* serialization.
LEMMA HitIsDelete ==
    ASSUME Around, DwptsInv, Linked, NEW d \in Dwpts, frozenAt[d] # 0, NEW i \in 1..Len(docs[d])
    PROVE  HitUpto(d, i, cuts[frozenAt[d]].pos) <=>
              \E o \in ops : /\ o.del /\ o.key = docs[d][i].key
                             /\ docs[d][i].seqNo < o.seqNo /\ o.seqNo <= cuts[frozenAt[d]].seqNo
<1>1. frozenAt[d] \in DOMAIN cuts
  BY SealedAt DEF Linked
<1>2. PICK at : at = cuts[frozenAt[d]]
  OBVIOUS
<1>3. /\ at.pos \in Nat /\ at.pos <= tail /\ tail \in Nat /\ docs[d][i].seqNo \in Nat
      /\ \A p \in 1..tail : nodes[p].seqNo \in Nat /\ (p <= at.pos <=> nodes[p].seqNo <= at.seqNo)
  BY <1>1, <1>2, CutNumbers, DwptTypes DEF Linked, CutsNumbered
<1>4. ASSUME NEW p \in 1..at.pos, nodes[p].key = docs[d][i].key, nodes[p].seqNo > docs[d][i].seqNo
      PROVE  \E o \in ops : /\ o.del /\ o.key = docs[d][i].key
                            /\ docs[d][i].seqNo < o.seqNo /\ o.seqNo <= at.seqNo
  <2>1. p \in 1..tail /\ p <= at.pos
    BY <1>3
  <2>2. PICK o \in ops : o.del /\ o.key = nodes[p].key /\ o.seqNo = nodes[p].seqNo
    BY <2>1 DEF Linked, NodesAreDeletes
  <2>3. docs[d][i].seqNo < o.seqNo /\ o.seqNo <= at.seqNo
    BY <1>3, <1>4, <2>1, <2>2
  <2> QED BY <1>4, <2>2, <2>3
<1>5. ASSUME NEW o \in ops, o.del, o.key = docs[d][i].key, docs[d][i].seqNo < o.seqNo, o.seqNo <= at.seqNo
      PROVE  \E p \in 1..at.pos : nodes[p].key = docs[d][i].key /\ nodes[p].seqNo > docs[d][i].seqNo
  <2>1. PICK p \in 1..tail : nodes[p].key = o.key /\ nodes[p].seqNo = o.seqNo
    BY <1>5 DEF Linked, NodesAreDeletes
  <2>2. p \in 1..at.pos /\ nodes[p].seqNo > docs[d][i].seqNo
    BY <1>3, <1>5, <2>1
  <2> QED BY <1>5, <2>1, <2>2
<1> QED BY <1>2, <1>4, <1>5 DEF HitUpto

\* The documents a flushed segment shows are the survivors of the serialization.
LEMMA WriteMaps ==
    ASSUME IInv, IInv', Linked, NEW t \in Threads, PrepareAndFlush(t)
    PROVE  (\E d \in Dwpts : Promise!Write(d)) \/ UNCHANGED Promise!vars
<1>1. Around /\ OneCall /\ DwptsInv /\ DwptsInv' /\ FrozenPhases /\ OpsNumbered /\ CallTypeOK /\ DocsLinked
  BY DEF IInv, Around, Linked, TypeOK, DocsLinked
<1>2. PICK c \in Call : c = call[t] /\ \A d \in Dwpts : d = c.dwpt => DwptInv(d, c) /\ DocsAreOps(d, c)
  BY <1>1, HolderKnows, HolderLinked
<1>3. /\ c.pc = "prepare" /\ UNCHANGED <<nodes, ops, cuts, frozenAt, docs>> /\ liveDocs \in [Dwpts -> SUBSET Nat]
      /\ phase' = [phase EXCEPT ![c.dwpt] = "flushed"]
      /\ \E ids : liveDocs' = [liveDocs EXCEPT ![c.dwpt] = ids]
  BY <1>1, <1>2 DEF PrepareAndFlush, queueVars, globalVars, Around, TypeOK, DwptTypeOK
\* The code has a DWPT here; without one nothing would be written.
<1>4. CASE c.dwpt = NoDwpt
  <2>1. liveDocs' = liveDocs
    BY <1>3, <1>4, DwptsAssumption
  <2> QED BY <1>3, <2>1, StutterMaps
<1>5. CASE c.dwpt # NoDwpt
  <2>1. PICK d \in Dwpts : d = c.dwpt
    BY <1>5, CallFields
  <2>2. /\ frozenAt[d] # 0 /\ DocsAreOps(d, c) /\ c.pc \notin Numbered
        /\ phase'[d] = "flushed" /\ Len(docs[d]) \in Nat /\ DOMAIN docs[d] = 1..Len(docs[d])
    BY <1>1, <1>2, <1>3, <2>1, DwptTypes DEF DwptInv, CallFits, FrozenPhases, Numbered, Around, TypeOK, DwptTypeOK
  <2> DEFINE sealed == [e \in Dwpts |-> IF frozenAt[e] = 0 THEN -1 ELSE cuts[frozenAt[e]].seqNo]
  <2>3. sealed[d] = cuts[frozenAt[d]].seqNo /\ sealed[d] # -1
    <3>1. frozenAt[d] \in DOMAIN cuts
      BY <1>1, <2>2, SealedAt
    <3>2. cuts[frozenAt[d]].seqNo \in Nat
      BY <1>1, <3>1, CutNumbers
    <3> QED BY <2>2, <3>2
  <2>4. liveDocs'[d] = {i \in 1..Len(docs[d]) : docs[d][i].seqNo # 0 /\ ~HitUpto(d, i, cuts[frozenAt[d]].pos)}
    <3>1. PICK e : e \in CallsOf(d)'
      BY DEF CallsOf, Held
    <3>2. LiveDocs(d)'
      BY <1>1, <3>1 DEF DwptsInv, DwptInv
    <3>3. \A i : HitUpto(d, i, cuts[frozenAt[d]].pos)' <=> HitUpto(d, i, cuts[frozenAt[d]].pos)
      BY <1>3 DEF HitUpto
    <3> QED BY <1>3, <2>2, <3>2, <3>3 DEF LiveDocs
  <2>5. Promise!Survivors(d) = liveDocs'[d]
    <3> HIDE DEF sealed
    <3>1. Promise!Survivors(d) =
            UNION {{i \in o.docs : \A p \in ops : ~ /\ p.del /\ p.key = o.key
                                                     /\ o.seqNo < p.seqNo
                                                     /\ p.seqNo <= cuts[frozenAt[d]].seqNo}
                     : o \in {x \in ops : x.dwpt = d}}
      BY <2>3 DEF Promise!Survivors, sealed
    <3>2. ASSUME NEW o \in ops, o.dwpt = d, NEW i \in o.docs,
                 \A p \in ops : ~ /\ p.del /\ p.key = o.key
                                  /\ o.seqNo < p.seqNo /\ p.seqNo <= cuts[frozenAt[d]].seqNo
          PROVE  i \in liveDocs'[d]
      <4>1. i \in 1..Len(docs[d]) /\ o.key = docs[d][i].key /\ o.seqNo = docs[d][i].seqNo
        BY <2>2, <3>2 DEF DocsAreOps
      <4>2. o.seqNo # 0
        BY <1>1 DEF OpsNumbered
      <4>3. ~HitUpto(d, i, cuts[frozenAt[d]].pos)
        BY <1>1, <2>2, <3>2, <4>1, HitIsDelete
      <4> QED BY <2>4, <4>1, <4>2, <4>3
    <3>3. ASSUME NEW i \in liveDocs'[d]
          PROVE  \E o \in ops : /\ o.dwpt = d /\ i \in o.docs
                                /\ \A p \in ops : ~ /\ p.del /\ p.key = o.key
                                                     /\ o.seqNo < p.seqNo
                                                     /\ p.seqNo <= cuts[frozenAt[d]].seqNo
      <4>1. i \in 1..Len(docs[d]) /\ docs[d][i].seqNo # 0 /\ ~HitUpto(d, i, cuts[frozenAt[d]].pos)
        BY <2>4
      <4>2. PICK o \in ops : /\ o.dwpt = d /\ i \in o.docs
                             /\ o.key = docs[d][i].key /\ o.seqNo = docs[d][i].seqNo
        BY <2>2, <4>1 DEF DocsAreOps
      <4>3. \A p \in ops : ~ /\ p.del /\ p.key = o.key
                             /\ o.seqNo < p.seqNo /\ p.seqNo <= cuts[frozenAt[d]].seqNo
        BY <1>1, <2>2, <4>1, <4>2, HitIsDelete
      <4> QED BY <4>2, <4>3
    <3> QED BY <3>1, <3>2, <3>3
  <2>6. liveDocs' = [liveDocs EXCEPT ![d] = Promise!Survivors(d)]
    BY <1>3, <2>1, <2>5
  <2>7. LastCut' = LastCut /\ FrozenCuts' = FrozenCuts
    BY <1>3 DEF LastCut, FrozenCuts
  <2>8. [e \in Dwpts |-> IF frozenAt[e] = 0 THEN -1 ELSE cuts[frozenAt[e]].seqNo][d] # -1
    BY <2>3
  <2>9. UNCHANGED <<ops, cuts, frozenAt>>
    BY <1>3
  <2> HIDE DEF sealed
  <2> QED BY <2>6, <2>7, <2>8, <2>9 DEF Promise!Write
<1> QED BY <1>4, <1>5
------------------------------------------------------------------------------
LEMMA InitMaps == Init => Promise!Init
<1> SUFFICES ASSUME Init PROVE Promise!Init
  OBVIOUS
<1>1. cuts = <<>> /\ ops = {} /\ frozenAt = [d \in Dwpts |-> 0] /\ liveDocs = [d \in Dwpts |-> {}]
  BY DEF Init, InitWith
<1>2. LastCut.seqNo = 0 /\ FrozenCuts = {}
  BY <1>1 DEF LastCut, FrozenCuts
<1> QED BY <1>1, <1>2 DEF Promise!Init

LEMMA StepMaps ==
    ASSUME IInv, IInv', Linked, [Next]_vars PROVE [Promise!Next]_Promise!vars
<1>1. ASSUME NEW t \in Threads, AddNode(t) \/ UpdateSlice(t) PROVE Promise!Next
  BY <1>1, SerializeMaps DEF Promise!Next
<1>2. ASSUME NEW t \in Threads, FreezeGlobalBuffer(t) PROVE Promise!Next
  BY <1>2, FreezeMaps DEF Promise!Next
<1>3. ASSUME NEW t \in Threads, Clear(t) PROVE Promise!Next
  BY <1>3, ClearMaps DEF Promise!Next
<1>4. ASSUME NEW t \in Threads, PrepareAndFlush(t) PROVE Promise!Next \/ UNCHANGED Promise!vars
  BY <1>4, WriteMaps DEF Promise!Next
<1>5. ASSUME NEW t \in Threads, Step(t), ~(FreezeGlobalBuffer(t) \/ Clear(t)), ~(AddNode(t) \/ UpdateSlice(t)),
             ~PrepareAndFlush(t)
      PROVE  UNCHANGED <<ops, cuts, frozenAt, liveDocs>>
  BY <1>5 DEF Step, StartUpdate, FailUpdate, StartDelete, LinkNode, TryLock, TryApply, FinishUpdate,
              StartLocked, Lock, ForceApply, globalVars, queueVars, dwptVars
<1>6. ASSUME SkipSequenceNumbers \/ UNCHANGED vars PROVE UNCHANGED <<ops, cuts, frozenAt, liveDocs>>
  BY <1>6 DEF SkipSequenceNumbers, vars, globalVars, dwptVars
<1> QED BY <1>1, <1>2, <1>3, <1>4, <1>5, <1>6, StutterMaps DEF Next

\* For any number of threads, segments and delete terms the queue, its slices
\* and its lock keep the promise of SequencedUpdates: one total order of all
\* updates, packets that hold exactly the deletes between two cuts, segments
\* that show exactly the survivors of the deletes before their seal.
THEOREM Refinement == ASSUME PutReplaces = TRUE PROVE Spec => RefinesSequencedUpdates
<1>1. IInv /\ [Next]_vars => IInv'
  BY InvStep
<1>2. IInv /\ Linked /\ [Next]_vars => Linked'
  BY LinkStep
<1>3. IInv /\ IInv' /\ Linked /\ [Next]_vars => [Promise!Next]_Promise!vars
  BY StepMaps
<1> QED BY <1>1, <1>2, <1>3, InvInit, LinkInit, InitMaps, PTL DEF Spec, RefinesSequencedUpdates, Promise!Spec
==============================================================================
