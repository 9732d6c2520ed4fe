----------------------------- MODULE CommitFiles -----------------------------
(***************************************************************************)
(* The files of an index: flushes, merges and deletes that write them,     *)
(* commits in two phases, reference counting, rollback, crashes, restarts, *)
(* snapshots, and readers in this process and in others.                   *)
(*                                                                         *)
(* A step is what happens under the writer's monitor, or between two uses  *)
(* of the directory outside it.  While the deleter still has files to      *)
(* delete, or a commit has renamed its file, the monitor is taken.         *)
(***************************************************************************)
EXTENDS IndexFileDeleter, TLC, Functions, FiniteSetsExt

CONSTANTS
  Readers,        \* places for near-real-time readers
  Workloads,      \* how many operations of each kind: functions on Kinds
  Faults,         \* what may fail
  FirstSegments   \* the segments of the index that exists at the start

Kinds == {"flush", "packet", "merge", "commit", "reader", "snapshot", "unused",
          "rollback", "crash", "create", "open", "fault"}

ASSUME CommitFilesAssumption ==
  /\ Workloads \subseteq [Kinds -> Nat]
  /\ FirstSegments \subseteq Nat /\ IsFiniteSet(FirstSegments)
  /\ Faults \subseteq {"flush", "merge", "livedocs", "partly", "write", "sync",
                       "rename", "metadata", "defer", "defer_segments"}

VARIABLES
  dir,       \* the directory
  status,    \* of the writer: "open", "closing", "closed"
  ram,       \* segmentInfos and what else the writer keeps in memory
  deleter,   \* its IndexFileDeleter
  commit,    \* the commit of the holder of commitLock, or prepared
  flushing,  \* the segments written by flushes and not yet published
  merge,     \* the running merge
  packet,    \* the files and segments of the packet being resolved
  readers,   \* for each reader the files it holds
  snaps,     \* snapshots of each generation, by SnapshotDeletionPolicy
  opener,    \* another process that opens the index
  left       \* what is left of the workload

vars == <<dir, status, ram, deleter, commit, flushing, merge, packet, readers,
          snaps, opener, left>>

NoSegments == [n \in {} |-> [del |-> 0, next |-> 1]]
NewSegment == [del |-> 0, next |-> 1]
NoCommit == [pc |-> "idle", infos |-> NoSegments, gen |-> 0, counter |-> 0, files |-> {}]
NoMerge  == [pc |-> "none", inputs |-> {}, n |-> 0, dirty |-> FALSE]
NoPacket == [files |-> {}, segs |-> {}]
NoOpener == [pc |-> "idle", gen |-> 0]
NoDeleter == [refs |-> <<>>, commits |-> <<>>, last |-> {}, doomed |-> <<>>]
NoRam == [infos |-> NoSegments, counter |-> 0, gen |-> 0, changed |-> {},
          stale |-> {}, rollbackTo |-> NoSegments]

Gens(d) == {f.g : f \in {e \in d.files : e.kind = "segments"}}

\* FSDirectory.listAll hides what is pending delete.
Listing == dir.files \ dir.deferred

Spend(k)  == left[k] > 0 /\ left' = [left EXCEPT ![k] = @ - 1]
Fault(f)  == f \in Faults /\ Spend("fault")
Free      == status # "closed" /\ deleter.doomed = <<>> /\ commit.pc # "renamed"

\* changed(): changeCount against pendingCommitChangeCount and
\* lastCommitChangeCount, as the set of ages of the changes not yet committed.
Changed(r) == [r EXCEPT !.changed = @ \cup {"new"}]

Add(d, files) == [d EXCEPT !.files = @ \cup files]

\* deleteFilesIgnoringExceptions and deleteFile: a file that cannot be deleted
\* now is kept in pendingDeletes.
Remove(d, f) == [d EXCEPT !.files = @ \ {f}, !.synced = @ \ {f}, !.named = @ \ {f}]
Defer(d, f)  == [d EXCEPT !.deferred = @ \cup {f}]

Init ==
  LET files == IF FirstSegments = {} THEN {}
               ELSE {Core(n) : n \in FirstSegments} \cup {Segments(1)}
  IN  /\ dir = [files |-> files, synced |-> files, named |-> files, deferred |-> {},
                sis |-> IF files = {} THEN <<>>
                        ELSE 1 :> [infos |-> [n \in FirstSegments |-> NewSegment],
                                   counter |-> Max(FirstSegments) + 1]]
      /\ status = "closed"
      /\ ram = NoRam
      /\ deleter = NoDeleter
      /\ commit = NoCommit
      /\ flushing = {}
      /\ merge = NoMerge
      /\ packet = NoPacket
      /\ readers = [r \in Readers |-> {}]
      /\ snaps = <<>>
      /\ opener = NoOpener
      /\ left \in Workloads

-----------------------------------------------------------------------------
\* Flushes.

\* newSegmentName, then DocumentsWriterPerThread.flush writes the files.
WriteSegment ==
  /\ status = "open"
  /\ Spend("flush")
  /\ ram' = Changed([ram EXCEPT !.counter = @ + 1])
  /\ dir' = Add(dir, {Core(ram.counter)})
  /\ flushing' = flushing \cup {ram.counter}
  /\ UNCHANGED <<status, deleter, commit, merge, packet, readers, snaps, opener>>

\* publishFlushedSegment
PublishSegment ==
  /\ Free
  /\ \E n \in flushing :
       /\ ram' = Changed([ram EXCEPT !.infos = (n :> NewSegment) @@ @])
       /\ flushing' = flushing \ {n}
  /\ deleter' = Checkpoint(deleter, ram'.infos)
  /\ UNCHANGED <<dir, status, commit, merge, packet, readers, snaps, opener, left>>

FlushFailed ==
  /\ Free
  /\ Fault("flush")
  /\ \E n \in flushing :
       /\ deleter' = DeleteNewFiles(deleter, {Core(n)})
       /\ flushing' = flushing \ {n}
  /\ UNCHANGED <<dir, status, ram, commit, merge, packet, readers, snaps, opener>>

-----------------------------------------------------------------------------
\* Deletes.  stale holds the segments with deletes only in memory.

\* PendingDeletes.writeLiveDocs for each segment of ns.
Advanced(infos, ns) ==
  [n \in DOMAIN infos |->
     IF n \in ns THEN [del |-> infos[n].next, next |-> infos[n].next + 1] ELSE infos[n]]

Written(r, ns) == [r EXCEPT !.infos = Advanced(@, ns), !.stale = @ \ ns]

NewLiveDocs(infos, ns) == {LiveDocs(n, infos[n].next) : n \in ns}

\* checkpointNoSIS, if anything was written
CheckpointIf(written, r, d) ==
  IF written THEN [ram |-> Changed(r), deleter |-> Checkpoint(d, r.infos)]
             ELSE [ram |-> r, deleter |-> d]

\* Mutant: segments that are being merged are dropped too.
DroppableMerging(ns) == ns

\* dropDeletedSegment leaves a segment that is being merged to the merge.
Droppable(ns) == ns \ merge.inputs

\* dropDeletedSegment for each segment of ns, then checkpoint.
Drop(r, ns, d) ==
  LET s == [r EXCEPT !.infos = Restrict(@, DOMAIN @ \ ns), !.stale = @ \ ns]
  IN  CheckpointIf(ns # {}, s, d)

\* openSegmentStates: a global packet looks at all segments, that of a flushed
\* segment at its own.
StartPacket ==
  /\ Free /\ status = "open"
  /\ packet = NoPacket
  /\ Spend("packet")
  /\ \E segs \in {DOMAIN ram.infos} \cup {{n} : n \in DOMAIN ram.infos} :
       /\ segs # {}
       /\ packet' = [files |-> FilesOf(Restrict(ram.infos, segs)), segs |-> segs]
  /\ deleter' = IncRef(deleter, packet'.files)
  /\ UNCHANGED <<dir, status, ram, commit, flushing, merge, readers, snaps, opener>>

\* finishApply: deleted are the segments that got deletes, dropped those without
\* a document left.  Without pooling the last release of a reader writes them.
FinishPacket ==
  /\ Free
  /\ packet # NoPacket
  /\ \E deleted \in SUBSET (packet.segs \cap DOMAIN ram.infos), pooled \in BOOLEAN :
     \E dropped \in SUBSET Droppable(deleted) :
       LET now    == IF pooled THEN {} ELSE deleted
           r      == [ram EXCEPT !.stale = @ \cup deleted]
           first  == CheckpointIf(now # {}, Written(r, now), deleter)
           second == CheckpointIf(deleted # {}, first.ram, DecRef(first.deleter, packet.files))
           third  == Drop(second.ram, dropped, second.deleter)
       IN  /\ pooled \/ deleted # {}
           /\ dir' = Add(dir, NewLiveDocs(ram.infos, now))
           /\ ram' = third.ram
           /\ deleter' = third.deleter
           /\ merge' = [merge EXCEPT !.dirty = @ \/ deleted \cap merge.inputs # {}]
  /\ packet' = NoPacket
  /\ UNCHANGED <<status, commit, flushing, readers, snaps, opener, left>>

-----------------------------------------------------------------------------
\* Merges.

\* registerMerge and mergeInit
StartMerge ==
  /\ Free /\ status = "open"
  /\ merge = NoMerge
  /\ Spend("merge")
  /\ \E inputs \in SUBSET DOMAIN ram.infos :
       /\ inputs # {}
       /\ merge' = [pc |-> "running", inputs |-> inputs, n |-> ram.counter, dirty |-> FALSE]
  /\ ram' = Changed([ram EXCEPT !.counter = @ + 1])
  /\ UNCHANGED <<dir, status, deleter, commit, flushing, packet, readers, snaps, opener>>

\* mergeMiddle
WriteMerged ==
  /\ merge.pc = "running" /\ status # "closed"
  /\ dir' = Add(dir, {Core(merge.n)})
  /\ merge' = [merge EXCEPT !.pc = "written"]
  /\ UNCHANGED <<status, ram, deleter, commit, flushing, packet, readers, snaps,
                 opener, left>>

\* commitMerge.  Deletes that came during the merge are carried over; without
\* pooling they are written at once.  A merged segment without documents is
\* dropped.
CommitMerge ==
  /\ Free
  /\ merge.pc = "written"
  /\ \E pooled \in BOOLEAN, drop \in BOOLEAN :
       LET now   == IF merge.dirty /\ ~pooled /\ ~drop THEN {merge.n} ELSE {}
           kept  == Restrict(ram.infos, DOMAIN ram.infos \ merge.inputs)
           infos == IF drop THEN kept ELSE (merge.n :> NewSegment) @@ kept
           r     == [ram EXCEPT !.infos = Advanced(infos, now),
                                !.stale = (@ \ merge.inputs)
                                   \cup (IF merge.dirty /\ ~drop THEN {merge.n} \ now ELSE {})]
           d     == IF drop THEN DeleteNewFiles(deleter, {Core(merge.n)}) ELSE deleter
       IN  /\ pooled \/ merge.dirty
           /\ dir' = Add(dir, NewLiveDocs(infos, now))
           /\ ram' = Changed(r)
           /\ deleter' = Checkpoint(d, r.infos)
  /\ merge' = NoMerge
  /\ UNCHANGED <<status, commit, flushing, packet, readers, snaps, opener, left>>

\* A merge that rollback aborted.
AbortMerge ==
  /\ Free /\ status = "closing"
  /\ merge # NoMerge
  /\ deleter' = IF merge.pc = "written" THEN DeleteNewFiles(deleter, {Core(merge.n)})
                                        ELSE deleter
  /\ merge' = NoMerge
  /\ UNCHANGED <<dir, status, ram, commit, flushing, packet, readers, snaps, opener, left>>

\* What a writer that is gone leaves to the next one.
Gone ==
  /\ status' = "closed"
  /\ ram' = NoRam
  /\ commit' = NoCommit
  /\ flushing' = {} /\ merge' = NoMerge /\ packet' = NoPacket
  /\ readers' = [r \in Readers |-> {}]

\* A merge that fails is a tragic event: the writer removes the merged files and
\* a pending commit and is closed, and its deleter deletes nothing any more.
FailMerge ==
  /\ Free
  /\ merge # NoMerge /\ commit.pc \in {"idle", "prepared"}
  /\ Fault("merge")
  /\ dir' = Remove(Remove(dir, Core(merge.n)), Pending(commit.gen))
  /\ deleter' = NoDeleter
  /\ Gone
  /\ UNCHANGED <<snaps, opener>>

-----------------------------------------------------------------------------
\* Near-real-time readers.

\* getReader: writeAll is writeAllDeletes.
OpenReader(r) ==
  /\ Free /\ status = "open"
  /\ readers[r] = {}
  /\ Spend("reader")
  /\ \E ns \in {{}, ram.stale} :
       LET c == CheckpointIf(ns # {}, Written(ram, ns), deleter)
           files == FilesOf(c.ram.infos)
       IN  /\ files # {}
           /\ dir' = Add(dir, NewLiveDocs(ram.infos, ns))
           /\ ram' = c.ram
           /\ deleter' = IncRef(c.deleter, files)
           /\ readers' = [readers EXCEPT ![r] = files]
  /\ UNCHANGED <<status, commit, flushing, merge, packet, snaps, opener>>

\* doClose: decRefDeleter, but not once the writer is closing.
CloseReader(r) ==
  /\ readers[r] # {}
  /\ status = "open" => Free
  /\ deleter' = IF status = "open" THEN DecRef(deleter, readers[r]) ELSE deleter
  /\ readers' = [readers EXCEPT ![r] = {}]
  /\ UNCHANGED <<dir, status, ram, commit, flushing, merge, packet, snaps, opener, left>>

-----------------------------------------------------------------------------
\* Commits.

\* prepareCommitInternal, under fullFlushLock and the monitor: write the deletes,
\* drop what has no document left, clone segmentInfos and protect its files.
PrepareCommit ==
  /\ Free /\ status = "open"
  /\ commit.pc = "idle"
  /\ Spend("commit")
  /\ \E dropped \in SUBSET Droppable(ram.stale) :
       LET first == CheckpointIf(ram.stale # {}, Written(ram, ram.stale), deleter)
           c     == Drop(first.ram, dropped, first.deleter)
           files == FilesOf(c.ram.infos)
       IN  /\ dir' = Add(dir, NewLiveDocs(ram.infos, ram.stale))
           /\ ram' = [c.ram EXCEPT !.changed = IF @ = {} THEN {} ELSE {"old"}]
           /\ deleter' = IncRef(c.deleter, files)
           /\ commit' = [pc |-> "cloned", infos |-> c.ram.infos, gen |-> ram.gen,
                         counter |-> ram.counter, files |-> files]
  /\ UNCHANGED <<status, flushing, merge, packet, readers, snaps, opener>>

\* The same, when writing the live documents of a segment fails: those of the
\* segments before it are written, and nothing is checkpointed.
PrepareCommitFails ==
  /\ Free /\ status = "open"
  /\ commit.pc = "idle"
  /\ Fault("livedocs")
  /\ \E n \in ram.stale : \E ns \in SUBSET (ram.stale \ {n}) :
       /\ "partly" \notin Faults => ns = {}
       /\ dir' = Add(dir, NewLiveDocs(ram.infos, ns))
       /\ ram' = [Written(ram, ns) EXCEPT !.infos[n].next = @ + 1]
  /\ UNCHANGED <<status, deleter, commit, flushing, merge, packet, readers, snaps, opener>>

\* startCommit without changes
SkipCommit ==
  /\ Free
  /\ commit.pc = "cloned" /\ "old" \notin ram.changed
  /\ deleter' = DecRef(deleter, commit.files)
  /\ commit' = NoCommit
  /\ UNCHANGED <<dir, status, ram, flushing, merge, packet, readers, snaps, opener, left>>

SyncMetaData(d) == [d EXCEPT !.named = d.files]

\* SegmentInfos.write: the file, its contents synced.
WriteInfos(d, g, infos, counter) ==
  [Add(d, {Pending(g)}) EXCEPT !.synced = @ \cup {Pending(g)},
                               !.sis = (g :> [infos |-> infos, counter |-> counter]) @@ @]

\* SegmentInfos.prepareCommit.  The generation advances before anything is
\* written, and a file that could not be written is removed again.
WritePending ==
  /\ Free
  /\ commit.pc = "cloned" /\ "old" \in ram.changed
  /\ \/ /\ dir' = WriteInfos(SyncMetaData(dir), commit.gen + 1, commit.infos, commit.counter)
        /\ commit' = [commit EXCEPT !.pc = "written", !.gen = @ + 1]
        /\ UNCHANGED left
     \/ /\ Fault("write")
        /\ \/ dir' = dir /\ commit' = [commit EXCEPT !.pc = "unwind"]
           \/ /\ dir' = SyncMetaData(dir)
              /\ commit' = [commit EXCEPT !.pc = "unwind", !.gen = @ + 1]
  /\ UNCHANGED <<status, ram, deleter, flushing, merge, packet, readers, snaps, opener>>

\* Mutant: the files are not synced.
SyncedFilesNot(d, files) == d

SyncedFiles(d, files) == [d EXCEPT !.synced = @ \cup files]

\* The sync of startCommit, without the monitor.
SyncFiles ==
  /\ commit.pc = "written"
  /\ commit.files \subseteq Listing
  /\ dir' = SyncedFiles(dir, commit.files)
  /\ commit' = [commit EXCEPT !.pc = "prepared"]
  /\ ram' = [ram EXCEPT !.gen = commit.gen]
  /\ UNCHANGED <<status, deleter, flushing, merge, packet, readers, snaps, opener, left>>

SyncFails ==
  /\ commit.pc = "written"
  /\ IF commit.files \subseteq Listing THEN Fault("sync") ELSE UNCHANGED left
  /\ dir' = Remove(dir, Pending(commit.gen))
  /\ commit' = [commit EXCEPT !.pc = "unwind"]
  /\ UNCHANGED <<status, ram, deleter, flushing, merge, packet, readers, snaps, opener>>

\* The handler of startCommit, and its last block: segmentInfos records the
\* generation that was used.
UnwindCommit ==
  /\ Free
  /\ commit.pc = "unwind"
  /\ deleter' = DecRef(deleter, commit.files)
  /\ ram' = [ram EXCEPT !.gen = commit.gen]
  /\ commit' = NoCommit
  /\ UNCHANGED <<dir, status, flushing, merge, packet, readers, snaps, opener, left>>

\* SegmentInfos.finishCommit up to the rename; the monitor is kept.
Renamed(d, g) ==
  LET Moved(files) == IF Pending(g) \in files THEN (files \ {Pending(g)}) \cup {Segments(g)}
                                              ELSE files
  IN  [d EXCEPT !.files = Moved(@), !.synced = Moved(@), !.named = @ \ {Pending(g)}]

RenamePending ==
  /\ Free
  /\ commit.pc = "prepared"
  /\ \/ /\ dir' = Renamed(dir, commit.gen)
        /\ commit' = [commit EXCEPT !.pc = "renamed"]
        /\ UNCHANGED <<deleter, left>>
     \/ /\ Fault("rename")
        /\ dir' = Remove(dir, Pending(commit.gen))
        /\ deleter' = DecRef(deleter, commit.files)
        /\ commit' = NoCommit
  /\ UNCHANGED <<status, ram, flushing, merge, packet, readers, snaps, opener>>

Snapshotted == {g \in DOMAIN snaps : snaps[g] > 0}

\* Mutant: lastCommitChangeCount becomes changeCount.
CommittedAll(r) == [r EXCEPT !.changed = {}]

\* lastCommitChangeCount becomes pendingCommitChangeCount.
Committed(r) == [r EXCEPT !.changed = @ \ {"old"}]

\* The rest of finishCommit.  After a failure nothing counts segments_N.
FinishCommit ==
  /\ commit.pc = "renamed"
  /\ \/ /\ dir' = SyncMetaData(dir)
        /\ deleter' = DecRef(CheckpointCommit(deleter, commit.infos, commit.gen, Snapshotted),
                             commit.files)
        /\ ram' = [Committed(ram) EXCEPT !.gen = commit.gen, !.rollbackTo = commit.infos]
        /\ UNCHANGED left
     \/ /\ Fault("metadata")
        /\ deleter' = DecRef(deleter, commit.files)
        /\ UNCHANGED <<dir, ram>>
  /\ commit' = NoCommit
  /\ UNCHANGED <<status, flushing, merge, packet, readers, snaps, opener>>

-----------------------------------------------------------------------------
\* Snapshots: SnapshotDeletionPolicy, which has a lock of its own.

CountSnap(g) == IF g \in DOMAIN snaps THEN snaps[g] ELSE 0

Snapshot ==
  /\ status = "open"
  /\ deleter.commits # <<>>
  /\ Spend("snapshot")
  /\ LET g == deleter.commits[Len(deleter.commits)].gen
     IN  snaps' = (g :> CountSnap(g) + 1) @@ snaps
  /\ UNCHANGED <<dir, status, ram, deleter, commit, flushing, merge, packet, readers, opener>>

Release ==
  /\ \E g \in Snapshotted : snaps' = [snaps EXCEPT ![g] = @ - 1]
  /\ UNCHANGED <<dir, status, ram, deleter, commit, flushing, merge, packet, readers,
                 opener, left>>

\* deleteUnusedFiles: revisitPolicy
DeleteUnusedFiles ==
  /\ Free /\ status = "open"
  /\ Spend("unused")
  /\ deleter' = DeleteCommits(deleter, Snapshotted)
  /\ UNCHANGED <<dir, status, ram, commit, flushing, merge, packet, readers, snaps, opener>>

-----------------------------------------------------------------------------
\* Rollback.

BeginRollback ==
  /\ status = "open"
  /\ deleter.doomed = <<>> /\ commit.pc # "renamed"
  /\ Spend("rollback")
  /\ status' = "closing"
  /\ UNCHANGED <<dir, ram, deleter, commit, flushing, merge, packet, readers, snaps, opener>>

\* rollbackInternalNoCommit, once merges are aborted and flushes have ended:
\* drop a prepared commit, go back to the last one, remove what nothing counts.
\* Readers and packets that are still open can no longer release their files.
EndRollback ==
  /\ Free
  /\ status = "closing"
  /\ commit.pc \in {"idle", "prepared"}
  /\ flushing = {} /\ merge = NoMerge
  /\ dir' = IF commit.pc = "prepared" THEN Remove(dir, Pending(commit.gen)) ELSE dir
  /\ LET d == Checkpoint(DecRef(deleter, commit.files), ram.rollbackTo)
         listing == (dir'.files \ dir'.deferred) \ UNION Range(d.doomed)
     IN  deleter' = Close(Refresh(d, listing))
  /\ Gone
  /\ UNCHANGED <<snaps, opener, left>>

-----------------------------------------------------------------------------
\* The directory.

\* Mutant: the other files first.
DeletedFirstOthers(files) ==
  LET others == {f \in files : f.kind # "segments"} IN IF others # {} THEN others ELSE files

\* deleteFiles: segments_N before the files it names.
DeletedFirst(files) ==
  LET infos == {f \in files : f.kind = "segments"} IN IF infos # {} THEN infos ELSE files

\* One file of the batch; on some systems it cannot be deleted while it is open.
DeleteFile ==
  /\ deleter.doomed # <<>>
  /\ \E f \in DeletedFirst(Head(deleter.doomed)) :
       LET rest == Head(deleter.doomed) \ {f} IN
       /\ deleter' = [deleter EXCEPT !.doomed = IF rest = {} THEN Tail(@) ELSE <<rest>> \o Tail(@)]
       /\ \/ dir' = Remove(dir, f) /\ UNCHANGED left
          \/ /\ IF f.kind = "segments" THEN Fault("defer_segments") ELSE Fault("defer")
             /\ dir' = Defer(dir, f)
  /\ UNCHANGED <<status, ram, commit, flushing, merge, packet, readers, snaps, opener>>

\* maybeDeletePendingFiles, in almost every operation of the directory.
RetryDelete ==
  /\ \E f \in dir.deferred :
       dir' = [Remove(dir, f) EXCEPT !.deferred = @ \ {f}]
  /\ UNCHANGED <<status, ram, deleter, commit, flushing, merge, packet, readers,
                 snaps, opener, left>>

\* The process ends, or the machine loses what its file system had not made
\* durable: the names of new files, among them the result of the rename.
Survivors(lost) ==
  LET files == dir.files \ lost
      back  == {Pending(f.g) : f \in {e \in lost : e.kind = "segments"}}
  IN  {files, files \cup back}

Crash ==
  /\ Spend("crash")
  /\ \E lost \in SUBSET (dir.files \ dir.named) : \E files \in Survivors(lost) :
       /\ dir' = [dir EXCEPT !.files = files, !.named = files,
                             !.synced = @ \cap files, !.deferred = {}]
       /\ opener' = IF lost = {} THEN opener ELSE NoOpener
  /\ deleter' = NoDeleter
  /\ Gone
  /\ snaps' = <<>>

-----------------------------------------------------------------------------
\* Opening a writer.

Max0(ns) == IF ns = {} THEN 0 ELSE Max(ns)

\* Mutant: the counter of the commit is trusted.
InflatedCounterNot(counter, names) == counter

\* inflateGens: names stands for the files counted and those pending delete.
InflatedCounter(counter, names) ==
  Max({counter} \cup {f.n + 1 : f \in {e \in names : e.kind \in {"core", "livedocs"}}})

InflatedGen(gen, names) ==
  Max({gen} \cup {f.g : f \in {e \in names : e.kind \in {"segments", "pending"}}})

InflatedInfos(infos, names) ==
  [n \in DOMAIN infos |->
     [infos[n] EXCEPT !.next = 1 + Max({infos[n].del} \cup
        {f.g : f \in {e \in names : e.kind = "livedocs" /\ e.n = n}})]]

Readable(g) == FilesOf(dir.sis[g].infos) \subseteq Listing

\* The constructor of IndexWriter, over the last commit or creating an index.
\* In an empty directory there is no segments_N, and the deleter looks at no file.
OpenWriter ==
  /\ status = "closed"
  /\ deleter.doomed = <<>>
  /\ \A g \in Gens(dir) : Readable(g)
  /\ \E create \in BOOLEAN :
       /\ IF create /\ Gens(dir) # {} THEN Spend("create") ELSE UNCHANGED left
       /\ Gens(dir) = {} => create
       /\ LET last  == Max0(Gens(dir))
              names == (IF last = 0 THEN {} ELSE Listing) \cup dir.deferred
              read  == IF last = 0 THEN [infos |-> NoSegments, counter |-> 0]
                                   ELSE dir.sis[last]
              infos == IF create THEN NoSegments ELSE InflatedInfos(read.infos, names)
              contents == [g \in Gens(dir) |-> dir.sis[g].infos]
          IN  /\ ram' = [infos |-> infos,
                         counter |-> InflatedCounter(read.counter, names),
                         gen |-> InflatedGen(last, names),
                         changed |-> IF create THEN {"new"} ELSE {},
                         stale |-> {}, rollbackTo |-> infos]
              /\ deleter' = Open(Listing, contents, Gens(dir), infos, Snapshotted)
  /\ status' = "open"
  /\ UNCHANGED <<dir, commit, flushing, merge, packet, readers, snaps, opener>>

-----------------------------------------------------------------------------
\* Another process that opens the index: SegmentInfos.FindSegmentsFile.

\* getLastCommitGeneration of a listing
LastGeneration(files) == Max0({f.g : f \in {e \in files : e.kind = "segments"}})

ListFiles ==
  /\ \/ opener.pc = "idle" /\ Spend("open")
     \/ opener.pc = "retry" /\ UNCHANGED left
  /\ LET g == LastGeneration(dir.files)
     IN  opener' = [pc |-> IF g > opener.gen THEN "reading" ELSE "failed", gen |-> g]
  /\ UNCHANGED <<dir, status, ram, deleter, commit, flushing, merge, packet, readers, snaps>>

ReadCommit ==
  /\ opener.pc = "reading"
  /\ LET g == opener.gen
         found == /\ Segments(g) \in dir.files
                  /\ FilesOf(dir.sis[g].infos) \subseteq dir.files
     IN  opener' = IF found THEN NoOpener ELSE [opener EXCEPT !.pc = "retry"]
  /\ UNCHANGED <<dir, status, ram, deleter, commit, flushing, merge, packet, readers,
                 snaps, left>>

-----------------------------------------------------------------------------
Next ==
  \/ WriteSegment \/ PublishSegment \/ FlushFailed
  \/ StartPacket \/ FinishPacket
  \/ StartMerge \/ WriteMerged \/ CommitMerge \/ AbortMerge \/ FailMerge
  \/ \E r \in Readers : OpenReader(r) \/ CloseReader(r)
  \/ PrepareCommit \/ PrepareCommitFails \/ SkipCommit \/ WritePending
  \/ SyncFiles \/ SyncFails \/ UnwindCommit \/ RenamePending \/ FinishCommit
  \/ Snapshot \/ Release \/ DeleteUnusedFiles
  \/ BeginRollback \/ EndRollback
  \/ DeleteFile \/ RetryDelete \/ Crash
  \/ OpenWriter \/ ListFiles \/ ReadCommit

Spec == Init /\ [][Next]_vars

-----------------------------------------------------------------------------
\* Types, and which parts are at rest without a writer.
TypeOK ==
  /\ status \in {"open", "closing", "closed"}
  /\ dir.deferred \subseteq dir.files
  /\ dir.named \subseteq dir.files /\ dir.synced \subseteq dir.files
  /\ \A g \in Gens(dir) : g \in DOMAIN dir.sis
  /\ \A n \in DOMAIN ram.infos : n < ram.counter /\ ram.infos[n].del < ram.infos[n].next
  /\ ram.stale \subseteq DOMAIN ram.infos
  /\ merge.inputs \subseteq DOMAIN ram.infos
  /\ commit.pc \in {"idle", "cloned", "written", "unwind", "prepared", "renamed"}
  /\ opener.pc \in {"idle", "reading", "retry", "failed"}
  /\ status = "closed" => /\ ram = NoRam /\ commit = NoCommit /\ packet = NoPacket
                          /\ flushing = {} /\ merge = NoMerge

Holders(f) ==
  (IF f \in deleter.last THEN 1 ELSE 0)
    + Cardinality({i \in DOMAIN deleter.commits : f \in deleter.commits[i].files})
    + (IF f \in commit.files THEN 1 ELSE 0)
    + (IF f \in packet.files THEN 1 ELSE 0)
    + Cardinality({r \in Readers : f \in readers[r]})

Known == DOMAIN deleter.refs \cup deleter.last \cup commit.files \cup packet.files
           \cup UNION {readers[r] : r \in Readers}
           \cup UNION {deleter.commits[i].files : i \in DOMAIN deleter.commits}

\* The count of a file is the number of those who hold it: each commit, the last
\* checkpoint, the commit under way, the packet and each reader.  A missing or a
\* second release anywhere breaks it (the assertions of RefCount).  Only a reader
\* closed during a rollback leaves its count behind.
CountsExact ==
  \A f \in Known :
    /\ status = "open" => CountOf(deleter, f) = Holders(f)
    /\ status = "closing" => CountOf(deleter, f) >= Holders(f)

\* "in-memory SegmentInfos" is one of the live infos whose files are counted.
HeadIsCounted ==
  status # "closed" => \A f \in FilesOf(ram.infos) : CountOf(deleter, f) > 0

\* Whatever is counted exists, and is not about to be deleted, whichever commits,
\* merges and readers come and go.
LiveFilesKept ==
  status # "closed" =>
    \A f \in DOMAIN deleter.refs : CountOf(deleter, f) > 0 =>
      f \in dir.files \ (dir.deferred \cup UNION Range(deleter.doomed))

\* Each segments_N that can be seen can be read, at any moment, also after a
\* crash or an interrupted deletion.
Restartable == \A g \in Gens(dir) : FilesOf(dir.sis[g].infos) \subseteq dir.files

\* deleteFile throws if the file is not there.
DeletesExist ==
  \A i \in DOMAIN deleter.doomed : deleter.doomed[i] \subseteq dir.files \ dir.deferred

\* An open writer leaves no file behind that nobody counts and nobody is writing.
NoGarbage ==
  status = "open" /\ deleter.doomed = <<>> =>
    \A f \in dir.files \ dir.deferred :
      \/ CountOf(deleter, f) > 0
      \/ f.kind = "core" /\ f.n \in flushing \cup {merge.n}
      \/ f = Pending(commit.gen) /\ commit.pc \in {"written", "prepared"}
      \/ f = Segments(commit.gen) /\ commit.pc = "renamed"

\* No file is deleted that a commit, the writer, a reader, a packet or a commit
\* under way still needs, none is deleted twice, and none is left for nothing: each
\* has as many references as holders.
FilesExact == CountsExact /\ HeadIsCounted /\ LiveFilesKept /\ DeletesExist /\ NoGarbage

\* Nothing is written twice: no name that will be used exists, whatever crashes
\* and rollbacks left behind (inflateGens).
FreshNames ==
  status = "open" =>
    \A f \in dir.files :
      /\ f.kind \in {"core", "livedocs"} => f.n < ram.counter
      /\ f.kind = "livedocs" /\ f.n \in DOMAIN ram.infos => f.g < ram.infos[f.n].next
      /\ f.kind \in {"segments", "pending"} => f.g <= Max({ram.gen, commit.gen})

\* A commit that a snapshot names can be read, across rollbacks and reopenings.
SnapshotsKept ==
  \A g \in Snapshotted :
    {Segments(g)} \cup FilesOf(dir.sis[g].infos) \subseteq dir.files \ dir.deferred

\* The retries of FindSegmentsFile are enough: an open during commits, rollbacks
\* and crashes of the writer ends with a commit.
OpenerNeverFails == opener.pc # "failed"

\* A crash, or the release of a reader or a commit, at any moment leaves every
\* commit readable that can be seen or was promised to a snapshot, and whoever opens
\* the index meanwhile finds one.
CommitsReadable == Restartable /\ SnapshotsKept /\ OpenerNeverFails

\* A writer that believes to have nothing to commit is right.
Content(infos) == [n \in DOMAIN infos |-> infos[n].del]

NothingToCommit ==
  status = "open" /\ ram.changed = {} =>
    /\ Content(ram.infos) = Content(dir.sis[Max(Gens(dir))].infos)
    /\ ram.stale = {}
==============================================================================
