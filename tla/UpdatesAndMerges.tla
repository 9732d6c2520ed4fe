--------------------------- MODULE UpdatesAndMerges ---------------------------
(***************************************************************************)
(* Packets of frozen deletes and doc-values updates, resolved while merges *)
(* run: FrozenBufferedUpdates::apply, BufferedUpdatesStream, the merge     *)
(* steps of IndexWriter that hold its monitor, and the pooled              *)
(* ReadersAndUpdates.                                                      *)
(*                                                                         *)
(* A document is a number, with its key and the generation of the segment  *)
(* it came with; the value an update gives it is the generation of the     *)
(* update, 0 the one it was indexed with.  A packet deletes or updates the *)
(* documents of one key.  A segment holds live, its live documents, disk,  *)
(* the values its newest reader sees, pending, the resolved updates not    *)
(* written yet, and merging, those to carry over; the last two belong to   *)
(* its ReadersAndUpdates and are empty while that is not in the pool.      *)
(***************************************************************************)
EXTENDS Integers, Sequences, FiniteSets, FiniteSetsExt

CONSTANTS Keys,
          Opened,        \* segments of the index when the writer is opened
          Workloads      \* the bounds: how often each of Calls happens, one record per workload

Calls == {"flush", "delete", "update", "tryUpdate", "tryDelete", "merge"}
ASSUME OpenedAssumption == Opened \in Nat
ASSUME WorkloadsAssumption == Workloads \subseteq [Calls -> Nat]

VARIABLES docs,              \* history: the documents by number, [key, gen]
          asked,             \* history: the documents each delete or update concerns
          segs,              \* every segment made so far
          segmentInfos,
          pool,              \* ReaderPool::readerMap
          poolReaders,       \* whether a reader stays in the pool
          updates,           \* the packets not finished, with the thread that applies each
          nextGen, completedDelGen, finishedDelGens,
          mergeFinishedGen,
          merges,            \* the registered merges
          left               \* the calls of the workload that are left

genVars == <<nextGen, completedDelGen, finishedDelGens>>
poolVars == <<pool, poolReaders>>
vars == <<docs, asked, segs, segmentInfos, poolVars, updates, genVars, mergeFinishedGen, merges,
          left>>

None == 0
Kinds == {"delete", "update"}

Segment(delGen, disk) == [delGen |-> delGen, live |-> DOMAIN disk, disk |-> disk,
                          pending |-> {}, merging |-> {}, isMerging |-> FALSE]
\* A segment that has left segmentInfos and the pool.
Gone == Segment(-1, [d \in {} |-> 0])

Init ==
    /\ \E key \in [1..Opened -> Keys] : docs = [d \in 1..Opened |-> [key |-> key[d], gen |-> -1]]
    /\ asked = {}
    /\ segs = [s \in 1..Opened |-> Segment(-1, [d \in {s} |-> 0])]
    /\ segmentInfos = 1..Opened
    /\ pool = {} /\ poolReaders \in BOOLEAN
    /\ updates = {}
    /\ nextGen = 1 /\ completedDelGen = 0 /\ finishedDelGens = {}
    /\ mergeFinishedGen = 0 /\ merges = {}
    /\ left \in Workloads

Call(what) == left[what] > 0 /\ left' = [left EXCEPT ![what] = left[what] - 1]
------------------------------------------------------------------------------
(* FinishedSegments.                                                       *)

stillRunning(gen) == gen > completedDelGen /\ gen \notin finishedDelGens

\* The generations below which nothing runs any more are kept as one number.
FinishedSegment(gen) ==
    LET done == finishedDelGens \cup {gen}
        completed == Max({c \in completedDelGen..(completedDelGen + Cardinality(done)) :
                            (completedDelGen + 1)..c \subseteq done}) IN
    /\ completedDelGen' = completed
    /\ finishedDelGens' = {g \in done : g > completed}
------------------------------------------------------------------------------
(* Packets and segments are published.                                     *)

Packet(kind, key, segment) ==
    [gen |-> nextGen, kind |-> kind, key |-> key, segment |-> segment, pc |-> "pushed",
     mergeGenStart |-> 0, seen |-> {}, states |-> {}, todo |-> {}]

\* publishFrozenUpdates: a packet concerns every document published before it.
PublishFrozenUpdates(kind, key) ==
    /\ Call(kind)
    /\ updates' = updates \cup {Packet(kind, key, None)}
    /\ asked' = asked \cup {[gen |-> nextGen, kind |-> kind,
                             docs |-> {d \in DOMAIN docs : docs[d].key = key}]}
    /\ nextGen' = nextGen + 1
    /\ UNCHANGED <<docs, segs, segmentInfos, poolVars, completedDelGen, finishedDelGens,
                   mergeFinishedGen, merges>>

\* publishFlushedSegment: one document, with a private packet or none; the
\* generation of a segment without one is finished at once.
PublishFlushedSegment(key, private) ==
    LET d == Len(docs) + 1 IN
    /\ \A what \in Calls \cap {"flush", private} : left[what] > 0
    /\ left' = [what \in Calls |-> IF what \in {"flush", private} THEN left[what] - 1 ELSE left[what]]
    /\ docs' = Append(docs, [key |-> key, gen |-> nextGen])
    /\ segs' = Append(segs, Segment(nextGen, [e \in {d} |-> 0]))
    /\ segmentInfos' = segmentInfos \cup {Len(segs) + 1}
    /\ nextGen' = nextGen + 1
    /\ IF private = "none"
         THEN FinishedSegment(nextGen) /\ UNCHANGED <<updates, asked>>
         ELSE /\ updates' = updates \cup {Packet(private, key, Len(segs) + 1)}
              /\ asked' = asked \cup {[gen |-> nextGen, kind |-> private, docs |-> {d}]}
              /\ UNCHANGED <<completedDelGen, finishedDelGens>>
    /\ UNCHANGED <<poolVars, mergeFinishedGen, merges>>
------------------------------------------------------------------------------
(* ReadersAndUpdates and the pool.                                         *)

\* Mutant: an update that arrives during a merge is not kept for it.
AddDVUpdateForgets(seg, new) == [seg EXCEPT !.pending = seg.pending \cup new]

\* addDVUpdate
AddDVUpdate(seg, new) ==
    [seg EXCEPT !.pending = seg.pending \cup new,
                !.merging = IF seg.isMerging THEN seg.merging \cup new ELSE seg.merging]

\* writeFieldUpdates: the updates up to the completed generation, the largest last.
WriteFieldUpdates(seg) ==
    LET written == {u \in seg.pending : u.gen <= completedDelGen}
        of(d) == {u.gen : u \in {v \in written : v.doc = d}} IN
    [seg EXCEPT !.pending = seg.pending \ written,
                !.disk = [d \in DOMAIN seg.disk |-> IF of(d) = {} THEN seg.disk[d] ELSE Max(of(d))]]

mergingSegments == UNION {m.sources : m \in merges}
HasReader(m, s) == \E r \in m.readers : r.segment = s

\* The pooled readers that only the pool would hold after p has released its own.
LastRef(s, p) == /\ \A q \in updates \ {p} : s \notin q.states
                 /\ \A m \in merges : ~HasReader(m, s)

\* release: without pooling the last one writes the changes and closes the
\* reader, if the packets before have left no gap.
Released(s, p) == IF ~poolReaders /\ s \in pool /\ LastRef(s, p) THEN WriteFieldUpdates(segs[s])
                  ELSE segs[s]
Closed(s, p) == ~poolReaders /\ LastRef(s, p) /\ Released(s, p).pending = {}

\* dropDeletedSegment leaves the segments of a merge to the merge.
Drops(s) == segs[s].live = {} /\ s \notin mergingSegments

\* writeSomeDocValuesUpdates, at any time.
WriteDocValuesUpdates(s) ==
    /\ s \in pool
    /\ \E u \in segs[s].pending : u.gen <= completedDelGen
    /\ segs' = [segs EXCEPT ![s] = WriteFieldUpdates(segs[s])]
    /\ UNCHANGED <<docs, asked, segmentInfos, poolVars, updates, genVars, mergeFinishedGen, merges, left>>

\* writeReaderPool, of a commit, a reader or flush: all that may be written is,
\* and the segments without a live document are dropped, those included that a
\* packet has open.
WriteReaderPool ==
    LET dropped == {s \in segmentInfos \cap pool : Drops(s)} IN
    /\ dropped # {} \/ \E s \in pool : WriteFieldUpdates(segs[s]) # segs[s]
    /\ segs' = [s \in DOMAIN segs |-> IF s \in dropped THEN Gone
                                      ELSE IF s \in pool THEN WriteFieldUpdates(segs[s]) ELSE segs[s]]
    /\ segmentInfos' = segmentInfos \ dropped
    /\ pool' = pool \ dropped
    /\ UNCHANGED <<docs, asked, poolReaders, updates, genVars, mergeFinishedGen, merges, left>>

\* getReader
EnableReaderPooling ==
    /\ ~poolReaders
    /\ poolReaders' = TRUE
    /\ UNCHANGED <<docs, asked, segs, segmentInfos, pool, updates, genVars, mergeFinishedGen, merges, left>>

\* tryUpdateDocValue: its generation is finished under the lock that gave it.
TryUpdateDocValue(s, d) ==
    /\ s \in segmentInfos \cap pool /\ d \in segs[s].live
    /\ Call("tryUpdate")
    /\ segs' = [segs EXCEPT ![s] = AddDVUpdate(segs[s], {[gen |-> nextGen, doc |-> d]})]
    /\ asked' = asked \cup {[gen |-> nextGen, kind |-> "update", docs |-> {d}]}
    /\ nextGen' = nextGen + 1
    /\ FinishedSegment(nextGen)
    /\ UNCHANGED <<docs, segmentInfos, poolVars, updates, mergeFinishedGen, merges>>

\* tryDeleteDocument
TryDeleteDocument(s, d) ==
    LET seg == [segs[s] EXCEPT !.live = segs[s].live \ {d}]
        drop == seg.live = {} /\ s \notin mergingSegments IN
    /\ s \in segmentInfos \cap pool /\ d \in segs[s].live
    /\ Call("tryDelete")
    /\ segs' = [segs EXCEPT ![s] = IF drop THEN Gone ELSE seg]
    /\ segmentInfos' = IF drop THEN segmentInfos \ {s} ELSE segmentInfos
    /\ pool' = IF drop THEN pool \ {s} ELSE pool
    /\ asked' = asked \cup {[gen |-> 0, kind |-> "delete", docs |-> {d}]}
    /\ UNCHANGED <<poolReaders, docs, updates, genVars, mergeFinishedGen, merges>>
------------------------------------------------------------------------------
(* FrozenBufferedUpdates::apply, synchronized on the packet.               *)

Becomes(p, q) == updates' = (updates \ {p}) \cup {q}
Finished(p) == /\ updates' = updates \ {p}
               /\ FinishedSegment(p.gen)
               /\ nextGen' = nextGen

\* An iteration remembers, without a lock, how many merges have finished.
StartIteration(p) ==
    /\ p.pc = "pushed"
    /\ Becomes(p, [p EXCEPT !.pc = "open", !.mergeGenStart = mergeFinishedGen])
    /\ UNCHANGED <<docs, asked, segs, segmentInfos, poolVars, genVars, mergeFinishedGen, merges, left>>

\* getInfosToApply and openSegmentStates: the segments that are not newer and
\* not seen before.
Unseen(p) == {s \in segmentInfos : /\ p.segment \in {None, s}
                                   /\ segs[s].delGen <= p.gen
                                   /\ s \notin p.seen}

\* Under the lock the segments are opened; with none to open the loop ends.
OpenSegmentStates(p) ==
    LET infos == Unseen(p) IN
    /\ p.pc = "open"
    /\ IF infos = {}
         THEN Becomes(p, [p EXCEPT !.pc = "break"]) /\ pool' = pool
         ELSE /\ Becomes(p, [p EXCEPT !.pc = "resolve", !.seen = p.seen \cup infos,
                                      !.states = infos, !.todo = infos])
              /\ pool' = pool \cup infos
    /\ UNCHANGED <<docs, asked, segs, segmentInfos, poolReaders, genVars, mergeFinishedGen, merges, left>>

Matches(p, s) == {d \in segs[s].live : docs[d].key = p.key}

\* One segment, without a lock; one that was merged away meanwhile is skipped.
ResolveSegment(p, s) ==
    LET seg == segs[s] IN
    /\ p.pc = "resolve" /\ s \in p.todo
    /\ segs' = [segs EXCEPT ![s] =
          IF s \notin pool THEN seg
          ELSE IF p.kind = "delete" THEN [seg EXCEPT !.live = seg.live \ Matches(p, s)]
          ELSE AddDVUpdate(seg, {[gen |-> p.gen, doc |-> d] : d \in Matches(p, s)})]
    /\ Becomes(p, [p EXCEPT !.todo = p.todo \ {s}])
    /\ UNCHANGED <<docs, asked, segmentInfos, poolVars, genVars, mergeFinishedGen, merges, left>>

\* finishApply, under the lock: the segments are released, and those without a
\* live document dropped.
FinishApply(p) ==
    LET dropped == {s \in p.states \cap pool : Drops(s)} IN
    /\ p.pc = "resolve" /\ p.todo = {}
    /\ segs' = [s \in DOMAIN segs |-> IF s \in dropped THEN Gone
                                      ELSE IF s \in p.states THEN Released(s, p) ELSE segs[s]]
    /\ segmentInfos' = segmentInfos \ dropped
    /\ pool' = {s \in pool \ dropped : s \in p.states => ~Closed(s, p)}
    /\ Becomes(p, [p EXCEPT !.pc = "check", !.states = {}])
    /\ UNCHANGED <<poolReaders, docs, asked, genVars, mergeFinishedGen, merges, left>>

\* A private packet is done.  Another one is finished under the lock, if no
\* merge has finished meanwhile, and else resolved once more.
CheckMergeGen(p) ==
    /\ p.pc = "check"
    /\ IF p.segment # None
         THEN Becomes(p, [p EXCEPT !.pc = "break"]) /\ UNCHANGED genVars
         ELSE IF mergeFinishedGen = p.mergeGenStart THEN Finished(p)
         ELSE Becomes(p, [p EXCEPT !.pc = "pushed"]) /\ UNCHANGED genVars
    /\ UNCHANGED <<docs, asked, segs, segmentInfos, poolVars, mergeFinishedGen, merges, left>>

\* Out of the loop the packet is finished without the lock.
FinishUnlocked(p) ==
    /\ p.pc = "break"
    /\ Finished(p)
    /\ UNCHANGED <<docs, asked, segs, segmentInfos, poolVars, mergeFinishedGen, merges, left>>
------------------------------------------------------------------------------
(* Merges.                                                                 *)

\* registerMerge
RegisterMerge(sources) ==
    /\ sources # {} /\ sources \subseteq segmentInfos \ mergingSegments
    /\ Call("merge")
    /\ merges' = merges \cup {[sources |-> sources, pc |-> "registered", readers |-> {}]}
    /\ UNCHANGED <<docs, asked, segs, segmentInfos, poolVars, updates, genVars, mergeFinishedGen>>

\* Mutant: the merge does not wait.
AppliedForMergeAssumed(m) == TRUE

\* waitApplyForMerge: the packets that concern only some of the segments.
AppliedForMerge(m) ==
    \A p \in updates : p.gen > Max({segs[s].delGen : s \in m.sources})

\* writeDocValuesUpdatesForMerge
PreparedForMerge(s) == [WriteFieldUpdates(segs[s]) EXCEPT !.isMerging = TRUE]

MergeInit(m) ==
    /\ m.pc = "registered" /\ AppliedForMerge(m)
    /\ segs' = [s \in DOMAIN segs |-> IF s \in m.sources \cap pool THEN PreparedForMerge(s) ELSE segs[s]]
    /\ merges' = (merges \ {m}) \cup {[m EXCEPT !.pc = "merge"]}
    /\ UNCHANGED <<docs, asked, segmentInfos, poolVars, updates, genVars, mergeFinishedGen, left>>

\* mergeMiddle, for one segment: setIsMerging and getReaderForMerge.
GetReaderForMerge(m, s) ==
    LET seg == segs[s] IN
    /\ m.pc = "merge" /\ s \in m.sources /\ ~HasReader(m, s)
    /\ pool' = pool \cup {s}
    /\ segs' = [segs EXCEPT ![s].isMerging = TRUE, ![s].merging = seg.merging \cup seg.pending]
    /\ merges' = (merges \ {m}) \cup {[m EXCEPT !.readers = m.readers \cup
                    {[segment |-> s, live |-> seg.live, disk |-> seg.disk]}]}
    /\ UNCHANGED <<docs, asked, segmentInfos, poolReaders, updates, genVars, mergeFinishedGen, left>>

\* carryOverHardDeletes: what the reader saw and nobody has deleted since.
CarriedLive(m) == UNION {r.live \cap segs[r.segment].live : r \in m.readers}

\* Mutant: documents the merge has left out are not skipped.
CarriedUpdatesUnmapped(m) ==
    UNION {{u \in segs[r.segment].merging : ~stillRunning(u.gen)} : r \in m.readers}

\* The updates that arrived since, of finished packets only.
CarriedUpdates(m) ==
    UNION {{u \in segs[r.segment].merging : ~stillRunning(u.gen) /\ u.doc \in r.live} : r \in m.readers}

\* commitMergedDeletesAndUpdates, and the release of the merged segment.
MergedSegment(m) ==
    LET all == UNION {r.live : r \in m.readers}
        disk == [d \in all |-> (CHOOSE r \in m.readers : d \in r.live).disk[d]]
        seg == [Segment(Min({segs[s].delGen : s \in m.sources}), disk) EXCEPT
                  !.live = CarriedLive(m), !.pending = CarriedUpdates(m)] IN
    IF poolReaders THEN seg ELSE WriteFieldUpdates(seg)

\* commitMerge, under the lock, and mergeFinish.  A merge that had no document
\* to begin with does not count as finished.
CommitMerge(m) ==
    LET seg == MergedSegment(m)
        s == Len(segs) + 1
        drop == seg.live = {} IN
    /\ m.pc = "merge" /\ \A t \in m.sources : HasReader(m, t)
    /\ mergeFinishedGen' = IF DOMAIN seg.disk = {} THEN mergeFinishedGen ELSE mergeFinishedGen + 1
    /\ segs' = Append([t \in DOMAIN segs |-> IF t \in m.sources THEN Gone ELSE segs[t]],
                      IF drop THEN Gone ELSE seg)
    /\ segmentInfos' = (segmentInfos \ m.sources) \cup (IF drop THEN {} ELSE {s})
    /\ pool' = (pool \ m.sources) \cup (IF ~drop /\ (poolReaders \/ seg.pending # {}) THEN {s} ELSE {})
    /\ merges' = merges \ {m}
    /\ UNCHANGED <<poolReaders, docs, asked, updates, genVars, left>>
------------------------------------------------------------------------------
Next ==
    \/ \E kind \in Kinds, key \in Keys : PublishFrozenUpdates(kind, key)
    \/ \E key \in Keys, private \in Kinds \cup {"none"} : PublishFlushedSegment(key, private)
    \/ \E s \in DOMAIN segs :
          \/ WriteDocValuesUpdates(s)
          \/ \E d \in segs[s].live : TryUpdateDocValue(s, d) \/ TryDeleteDocument(s, d)
    \/ \E p \in updates :
          \/ StartIteration(p) \/ OpenSegmentStates(p) \/ FinishApply(p)
          \/ CheckMergeGen(p) \/ FinishUnlocked(p)
          \/ \E s \in p.todo : ResolveSegment(p, s)
    \/ WriteReaderPool \/ EnableReaderPooling
    \/ \E sources \in SUBSET segmentInfos : RegisterMerge(sources)
    \/ \E m \in merges : \/ MergeInit(m) \/ CommitMerge(m)
                         \/ \E s \in m.sources : GetReaderForMerge(m, s)

Spec == Init /\ [][Next]_vars
------------------------------------------------------------------------------
SegmentOK(seg) == /\ seg.delGen \in Int /\ seg.isMerging \in BOOLEAN
                  /\ seg.live \subseteq DOMAIN seg.disk /\ DOMAIN seg.disk \subseteq DOMAIN docs
                  /\ \A d \in DOMAIN seg.disk : seg.disk[d] \in Nat
                  /\ seg.pending \cup seg.merging \subseteq [gen : Nat, doc : DOMAIN seg.disk]

TypeOK ==
    /\ docs \in Seq([key : Keys, gen : Int])
    /\ asked \subseteq [gen : Nat, kind : Kinds, docs : SUBSET DOMAIN docs]
    /\ \A s \in DOMAIN segs : SegmentOK(segs[s])
    /\ segmentInfos \subseteq DOMAIN segs /\ pool \subseteq segmentInfos
    /\ \A p \in updates : /\ p.pc \in {"pushed", "open", "resolve", "check", "break"}
                          /\ p.todo \subseteq p.states /\ p.states \subseteq p.seen
    /\ nextGen \in Nat /\ completedDelGen \in Nat /\ finishedDelGens \subseteq Nat
    /\ mergeFinishedGen \in Nat
    /\ \A m \in merges : m.pc \in {"registered", "merge"}

\* Nobody is resolving it any more.
Done(a) == \A p \in updates : p.gen # a.gen
Live == UNION {segs[s].live : s \in segmentInfos}

\* What a finished packet deletes stays deleted, whatever merges were running
\* while it was resolved.
DeletesStick == \A a \in asked : a.kind = "delete" /\ Done(a) => a.docs \cap Live = {}

\* A document that no delete concerns is live in exactly one segment: a merge
\* loses none, keeps no copy, and lets no packet reach a younger document.
NothingElseDeleted ==
    \A d \in DOMAIN docs :
        \/ Cardinality({s \in segmentInfos : d \in segs[s].live}) = 1
        \/ \E a \in asked : a.kind = "delete" /\ d \in a.docs

\* "We hold a ref, from when we opened the readers during mergeInit, so it better
\* still be in the pool" (IndexWriter.cpp:3167), and the segments of a merge
\* stay in the index until it commits, though all their documents be deleted.
MergeKeepsSegments ==
    \A m \in merges : m.sources \subseteq segmentInfos /\ {r.segment : r \in m.readers} \subseteq pool

\* Packets resolved while segments merge delete what they are for and nothing
\* else, and take no segment or reader from a merge that needs it
\* (IndexWriter.cpp:3127-3342, FrozenBufferedUpdates.cpp:172-336).
DeletesExact == DeletesStick /\ NothingElseDeleted /\ MergeKeepsSegments

\* The value a reader sees once all that is pending is written.
Value(s, d) == LET gens == {u.gen : u \in {v \in segs[s].pending : v.doc = d}} IN
               IF gens = {} THEN segs[s].disk[d] ELSE Max(gens)
UpdatesOf(d) == {a \in asked : a.kind = "update" /\ d \in a.docs}

\* The newest of the finished updates of a live document decides its value
\* ("we must carry over any still-pending DV updates", ReadersAndUpdates.cpp:748),
\* and no update of another document does.
NewestValueWins ==
    \A s \in segmentInfos : \A d \in segs[s].live :
        /\ \A a \in UpdatesOf(d) : Done(a) => Value(s, d) >= a.gen
        /\ Value(s, d) \in {0} \cup {a.gen : a \in UpdatesOf(d)}

\* assertNoDupGen: a packet never meets its own generation in a segment it has
\* still to resolve.
NoDupGen ==
    \A p \in updates : \A s \in p.todo \cap pool : \A u \in segs[s].pending : u.gen # p.gen

\* writeFieldUpdates may not overtake: no packet that is still running has an
\* older update of a document than the value that is written.
WrittenInOrder ==
    \A s \in segmentInfos : \A d \in DOMAIN segs[s].disk :
        \A a \in UpdatesOf(d) : ~Done(a) => a.gen > segs[s].disk[d]

\* Doc-values updates take effect in the order of their numbers, in what is
\* written, in what is pending and in what a merge carries over.
UpdatesInOrder == NewestValueWins /\ WrittenInOrder /\ NoDupGen
==============================================================================
