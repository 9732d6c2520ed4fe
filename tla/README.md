# TLA+ models of the indexing core and of its replication

This directory specifies the parts of the repository in which an error loses or
corrupts documents, or makes a call wait for ever, without any test noticing:
the concurrent indexing core of `src/core/src/java/org/apache/lucene/index`, from
an update in memory to a commit on disk, the scheduling of merges, the reopening
of readers, and the near-real-time replication of `src/replicator`. The modules
follow the source operation by operation; TLC checks them on small instances, and
TLAPS proves for all values of the constants what seven of them promise: the delete
queue, the flush control, the full flush that ends in a commit, packets and merges,
the count of documents, the scheduling of merges, and the reopening of readers.

Contents: 1 the system, 2 how the source is read, 3 modules, 4 runs and bounds,
5 fairness, 6 proofs, 7 disagreements found, 8 what is not modelled, 9 plan.

## 1. The system

The repository is a conversion of Apache Lucene (Java, 7.x) to C++. Its
components, with the state each keeps:

| component | source (index/ unless said) | state | operations |
|---|---|---|---|
| delete queue | `DocumentsWriterDeleteQueue`, `BufferedUpdates` | linked list of delete nodes, `nextSeqNo`, global slice and buffer with `globalBufferLock`, a private slice per DWPT | `add`, `addDelete`, `tryApplyGlobalSlice`, `freezeGlobalBuffer`, `clear`, `anyChanges` |
| in-memory segment (DWPT) | `DocumentsWriterPerThread`, `DefaultIndexingChain`, `FreqProxTermsWriter` | documents in RAM, private deletes, failed documents | `updateDocument(s)`, `prepareFlush`, `flush`, `abort` |
| flush control | `DocumentsWriterFlushControl`, `DocumentsWriterPerThreadPool`, `DocumentsWriterStallControl`, `FlushByRamOrCountsPolicy` | `ThreadState`s and their locks, byte counters, `flushQueue`, `blockedFlushes`, `flushingWriters`, `fullFlush`, stall flag | `doAfterDocument`, `nextPendingFlush`, `obtainAndLock`, `markForFullFlush`, `addFlushableState`, `doAfterFlush`, `abortPendingFlushes`, `waitIfStalled` |
| documents writer | `DocumentsWriter`, `DocumentsWriterFlushQueue` | current and flushing delete queue, tickets, `pendingChangesInCurrentFullFlush` | `updateDocument`, `deleteTerms`, `applyAllDeletes`, `doFlush`, `flushAllThreads`, `finishFullFlush`, `lockAndAbortAll`, `forcePurge` |
| packets | `FrozenBufferedUpdates`, `BufferedUpdatesStream` | packets not finished, generations, `completedDelGen` | `push`, `apply`, `finished`, `waitApplyForMerge` |
| reader pool | `ReaderPool`, `ReadersAndUpdates`, `PendingDeletes` | pooled readers, live documents, pending and merging doc-values updates | `get`, `release`, `drop`, `commit`, `addDVUpdate`, `writeFieldUpdates`, `getReaderForMerge` |
| index writer | `IndexWriter` | `segmentInfos`, `mergingSegments`, `mergeFinishedGen`, `pendingCommit`, event queue | `publishFlushedSegment(s)`, `prepareCommit`, `finishCommit`, `rollback`, `deleteAll`, `getReader`, the merge steps |
| document count | `IndexWriter` (`pendingNumDocs`), `DocumentsWriterPerThread` | documents reserved, in memory, in tickets and in segments | `reserveDocs`, `reserveOneDoc`, `adjustPendingNumDocs`, `dropDeletedSegment`, `addIndexes`, `deleteAll`, `rollback` |
| commits and files | `SegmentInfos`, `IndexFileDeleter`, deletion policies, `store/FSDirectory` | reference counts of files, commit points, snapshots, pending deletes; what is named and synced on disk | `checkpoint`, `incRef`, `decRef`, `prepareCommit`, `finishCommit`, `rollback`, `inflateGens`, `FindSegmentsFile` |
| merge scheduling | `IndexWriter`, `ConcurrentMergeScheduler`, `TieredMergePolicy` | pending and running merges, `mergingSegments`, merge threads and their pauses | `merge`, `maybeStall`, `updateMergeThreads`, `registerMerge`, `mergeFinish`, `forceMerge`, `abortMerges`, `close` |
| readers | `StandardDirectoryReader`, `SegmentReader`, `search/ReferenceManager`, `ControlledRealTimeReopenThread` | reference counts, searching generation | `acquire`, `release`, `maybeRefresh`, `waitForGeneration` |
| replication | `src/replicator/.../nrt`, and the nodes of its tests | a primary's points and references, a replica's file counts, copy jobs, pre-copied merges, commits | `flushAndRefresh`, `newNRTPoint`, `finishNRTCopy`, `launchPreCopyMerge`, `commit`, `start`, `promoteReplica` |
| search, codecs, util, analysis and the other top-level modules | `search/`, `codecs/`, `util/`, `src/analysis`, ... | mostly sequential | see `PROJECT.json` |

They interact by calls under locks and by shared state:

    indexing thread --updateDocument--> DWPT --add--> delete queue
          |  doAfterDocument                 ^ slice       | freezeGlobalBuffer
          v                                  |             v
    flush control --next DWPT--> doFlush --prepareFlush--> ticket queue
          ^ markForFullFlush                               | publish, in order
    commit / getReader --flushAllThreads                   v
          |                             IndexWriter: segmentInfos + packets
          v                                  |  apply          ^ commitMerge
    prepareCommit: clone of segmentInfos <---+--- reader pool --+--- merges
          |                                                        ^ scheduler
          v                                                        |
    IndexFileDeleter: counts --> directory      merge threads -----+
          ^ incRef                  ^ copied files
    readers (ReferenceManager)      replicas <--points, merges-- PrimaryNode

Lock order: `fullFlushLock`, then a `ThreadState`, then the monitor of the flush
control, then the ticket queue, then the delete queue; `IndexWriter`, then
`BufferedUpdatesStream`, then `ReadersAndUpdates`.

Hard behaviours, and what makes each component correct:

* **Order without a global lock.** An update's delete, its document and its
  sequence number are produced in different critical sections. *Correct:* every
  segment and packet looks as if the operations had run one by one in the order
  of their numbers.
* **A full flush among running threads.** A commit swaps the delete queue while
  threads index into both. *Correct:* every DWPT of the old queue is flushed
  once and none of the new; the commit is exactly a prefix of the operations.
* **Tickets.** Flushes end in any order and may fail. *Correct:* publication in
  the order of the freezes; a delete never reaches a younger document and never
  misses an older one; a failed flush loses only its own documents.
* **Optimistic resolution.** Packets are resolved without the writer's lock
  while merges replace the segments. *Correct:* deletes and updates survive
  merges, the newest update wins, no packet meets its own generation twice.
* **Accounting and stalls.** *Correct:* bytes balance, the stall flag is
  current, nobody waits for ever.
* **Counting documents.** `pendingNumDocs` is raised before a document exists and
  lowered on every way out of the index. *Correct:* at each moment it is the
  number of documents there are or may be; the limit holds; a rollback ends with
  the count of the commit it goes back to.
* **Commits, crashes and file deletion.** *Correct:* a crash, an exception or a
  rollback between any two steps leaves the last finished commit, whole; each
  file is kept exactly as long as a commit, the writer, a reader, a snapshot or
  a packet needs it; no file name is written twice.
* **Merges.** Merge threads fail, are paused, aborted or not started at all, and
  end together with each other and with the calls that wait for them.
  *Correct:* a merge owns its segments and gives them back on every path, a
  closed writer has none left, `forceMerge` has merged all it was called for,
  and no call waits for ever.
* **Reopening.** Searches take and drop references on readers while they are
  swapped. *Correct:* a reader is open exactly as long as somebody uses it, and
  whoever waited for a change sees it.
* **Replication.** Primaries die, names of files are reused with another
  content, messages arrive late or never. *Correct:* a replica shows exactly
  what a primary has shown; no file it searches is overwritten or deleted; its
  last commit can be opened after a crash at any moment; it gets to the newest
  point it is told of.

## 2. How the source is read

The C++ text does not compile: it keeps the Java semantics in markers (`WARNING:
... originally marked 'synchronized'`, `TODO: ... finally`, `lock_guard`,
`wait`). The models read monitors, volatile fields, `finally` and map updates
as the markers and the original methods they describe. One step of a model is
what happens under one lock, or between two accesses to shared state that no
lock covers. Where the converted text differs from what its own comments say in
a way the text decides, the difference is a constant or an alternative initial
condition: `PutReplaces = FALSE` (`unordered_map::emplace` does not replace)
and `ConvertedInit` (the global slice built before `tail` is assigned). Elsewhere
`emplace` on a converted map is read as `put`, and the conversion's
`!find(x) != end()` as "contains".

Assertions of the source (`assert((cond, L"msg"))`) are taken as claims and
stated as invariants, not used as guards.

## 3. Modules

| module | models | used by |
|---|---|---|
| `BufferedUpdates` | the map from delete term to document number, by value | `DeleteQueue` |
| `SequencedUpdates` | *abstract*: what a delete queue promises | refined by `DeleteQueue`, assumed by `FlushPipeline` |
| `DeleteQueue` | the queue, its slices and lock, the DWPTs as far as deletes go; the refinement mapping to `SequencedUpdates` | `DeleteQueueProofs`, `MCDeleteQueue` |
| `DeleteQueueInv` | the inductive invariant `IInv` of `DeleteQueue`, and `Linked`, what the refinement needs besides | `DeleteQueueProofs` |
| `DeleteQueueProofs` | in four parts the theorems `Typing`; `Packets`, `AnyChanges`; `LiveDocsInOrder`; `Refinement` | |
| `FlushControl` | flush control, pool, stall control, and the control flow of `DocumentsWriter` around them | `MCFlushControl`, `FlushControlProofs` |
| `FlushControlProofs` | its inductive invariant; theorems `Typing`, `Bytes`, `PendingNeverMissed`, `Places`, `StallCurrent` | `FlushControlFullProofs` |
| `FlushControlFullProofs` | what a full flush adds to the invariant; theorems `OldGeneration`, `FullFlush`, `Balance` | |
| `FlushPipeline` | operations, tickets, publication, packets, full flush and commit | `MCFlushPipeline`, `FlushPipelineProofs` |
| `FlushPipelineProofs` | its inductive invariant; theorems `Typing`, `CommitsArePrefixes`, `DeletesMeetDocuments`, `NothingForgotten` | |
| `UpdatesAndMerges` | packets, reader pool and merges | `MCUpdatesAndMerges`, `UpdatesAndMergesProofs` |
| `UpdatesAndMergesProofs` | its inductive invariant; theorems `Typing`, `Exact` | |
| `PendingDocs` | `pendingNumDocs` on all paths of a document, `deleteAll`, `rollback`, `addIndexes`, aborting exceptions | `MCPendingDocs`, `PendingDocsProofs` |
| `PendingDocsProofs` | its inductive invariant; theorems `Typing`, `Exactness`, `Limit` | |
| `IndexFileDeleter` | the deleter as an object: operators on a record | `CommitFiles` |
| `CommitFiles` | files, two-phase commits, rollback, crashes and restarts, readers here and in other processes | `MCCommitFiles` |
| `DurableIndex` | *abstract*: what commits promise | refined by `CommitFiles` (in `MCCommitFiles`) |
| `MergeScheduling` | merges, `ConcurrentMergeScheduler`, and the calls of the writer that wait for merges | `MCMergeScheduling`, `MergeSchedulingProofs` |
| `MergeSchedulingProofs` | its inductive invariants; theorems `SegmentsAreOwned`, `MergeStatesFit`, `ClosedWritersAreQuiet`, `ForceMergeKeepsItsPromise` | |
| `ReaderReopen` | `ReferenceManager`, `ControlledRealTimeReopenThread`, the counts of readers | `MCReaderReopen`, `ReaderReopenProofs` |
| `ReaderReopenProofs` | its inductive invariant; theorems `Typing`, `Counted`, `NeverBack`, `Visible` | |
| `NrtReplication` | primary, replicas, copy jobs, and whoever starts and promotes nodes | `MCNrtReplication` |
| `MC...` | instances: symmetry, workloads, the refinement mapping of `CommitFiles` | |

Operators marked `Mutant:` are wrong variants of the definition that follows
them; they are never used by a specification. `PROJECT.json` pairs each property
with one, and TLC notices the exchange.

**DeleteQueue.** `nodes` is the linked list (a node is its position; `tail` the
last), a slice a pair of positions. A call of `updateDocument` is a sequence of
steps: `StartUpdate` (documents indexed), `LinkNode` and `AddNode` (the monitor of
`add`: first `tail->next`, then `tail`; between the two the node is linked and a
reader of `tail`, which holds another lock, does not see it), `TryLock`/`TryApply`
(`tryApplyGlobalSlice`), `FinishUpdate` (`finishDocument`: apply the private slice,
or move it). The number is drawn together with the move of `tail`: only who is in
the monitor of `add` draws numbers. `FreezeGlobalBuffer` and `PrepareAndFlush`
split a flush between the lock of the queue and the DWPT's own work. `ops`, `cuts`
and `frozenAt` are history for the properties. The refinement to
`SequencedUpdates`, at the end of the module, maps the cuts that froze something to
the set of packets and a DWPT to the number at which it was sealed.

**FlushControl.** `fc` is the object guarded by the flush control's monitor,
`holder` the locks of the `ThreadState`s; `monitor` is set while a loop keeps
the monitor over several steps. `Main` is the holder of `fullFlushLock` and
makes a full flush or `deleteAll`. A flush is the removal of a DWPT from
`flushingWriters`; what it writes belongs to the next module.

**FlushPipeline.** A document is the place of its operation in `log`, one sequence
per delete queue: the order of all operations is built in, and whether the code
keeps to it is the question. The delete queue is used as `SequencedUpdates`
describes it; of the flush control it takes that a DWPT is flushed once. What a
full flush does to the DWPTs is modelled here: each has a phase, a policy that
flushes by RAM marks `ThreadState`s (`MayMark`, `flushPending`), and a thread looks
for marked ones in two steps, `NextPendingFlush` (in the monitor, only while there
is no full flush) and `TryCheckoutForFlush` (after it, without looking at
`fullFlush` again), so that a scan may be late for a full flush. When such a scan
takes a DWPT of the new queue the full flush is *overtaken*, and the history
variable of that name says so. `addDeletes` and `addFlushTicket` are single steps:
the ticket count rises before and falls after everything else they do, so an
observer of `anyChanges` sees at worst one ticket too many.

**UpdatesAndMerges.** A document is a number, a doc-values update is the
generation of its packet, so "newest" is the largest number. A packet runs
through `StartIteration` (volatile read of `mergeFinishedGen`),
`OpenSegmentStates` (under the writer's lock), `ResolveSegment` (no lock),
`FinishApply` (lock), `CheckMergeGen` (lock) or `FinishUnlocked` (no lock). A
merge runs through `RegisterMerge`, `MergeInit`, `GetReaderForMerge` per
segment, `CommitMerge`. Packets of one key stand for term and query deletes
alike; what they match is fixed when a segment is resolved.

**PendingDocs.** Documents have numbers; a segment is a set of them. Each thread
has its own `ThreadState` (`created`, `holder`, `ram`, `flushing`), `Deleter` and
`Closer` are the callers of `deleteAll` and `rollback`, and the order in which
they lock the `ThreadState`s is left open. A call is split where the counter is
changed apart from the documents: `ReserveOneDoc`, `TakeBackOneDoc`, `Index`;
`AddFlushTicket`, `AddSegment` or `FlushFails`, `DoAfterFlush`, the purge of the
ticket queue; `StartApply` and `FinishApply` of a packet, which drop segments;
merges. There is no full flush here: `FlushControl` has it.

**CommitFiles and DurableIndex.** `deleter` is the record that `IndexFileDeleter`
operates on: `refs`, `commits`, `last` (files of the last checkpoint) and
`doomed`, what is still to be deleted; the writer's monitor is not given back
before `doomed` is empty, so that a crash may come between two deletes. A commit
goes `cloned`, `written`, `prepared`, `renamed` or `unwind`. The directory knows
which files exist, which of them are durable (`named` their name, `synced` their
content) and which deletes were deferred; a crash keeps what is durable and any
part of the rest. A restart is the constructor of the writer with the deleter's
first look at the directory and `inflateGens`. `opener` is another process in
`FindSegmentsFile`. The refinement maps `head` to the segments in memory,
`prepared` to the clone of the commit under way, and `durable` to what a crash at
this moment would leave.

**MergeScheduling.** A step is what happens under the writer's monitor; `cms` (the
scheduler's monitor, held across several steps) and `commitLock` are variables.
A segment is its size, the choice of the policy that of `TieredMergePolicy` for a
forced merge, and any two segments of one size for a natural one. `Launch` gives a
merge its thread, which runs `MergeInit`, `MergeMiddle`, `CommitMerge`,
`FinishMerge`, and offers the next merge, or handles its exception, which closes the
writer from within.
Every wait is a guard: all waits of the code are timed ones in a loop, or joins.

**ReaderReopen.** A reader is a generation, a count and whether it is open. A step
ends at each read of the volatile `current`, each atomic operation on a count and
each end of a monitor: `acquire` is `ReadCurrent` and `TakeReference`, a refresh
`EnsureOpenAndLock`, `RefreshIfNeeded`, `SwapReference`, `ReleaseOld`,
`RefreshDone`, `Unlock`. How long the reopen thread sleeps is left open.

**NrtReplication.** A segment is one file, named by the writer's counter; its
content is the `primaryGen` of its writer, so that "the same name, another content"
is what a crash brings about. `index` is each node's directory with what is synced
and its commits, `replica` the fields of a `ReplicaNode`, `job` its `curNRTCopy`,
`warming` the merges that are copied in advance, `net` the messages on their way:
handled in any order, also after the death of their sender, and lost with the
receiver. The nodes' processes exist in the source only in the tests of the package
(`SimplePrimaryNode`, `SimpleReplicaNode`, `Jobs`, `TestStressNRTReplication`);
their code is taken as the way the classes of `nrt` are meant to be used. A copied
file is a step, its renaming belongs to `finish`. The reference that a primary
keeps for a copy (`getCopyState`) is derived: `Held`. `TellReplicas` reaches any of
the replicas. Simplifications: the version grows by one with each change;
`promoteReplica` (commit, shutdown, start as the primary) is one step, guarded as
the source guards it, in which the shutdown deletes merges that were copied in
advance before the new primary chooses its first name; a file whose delete at start
fails means that the node does not start; the primary deletes released files with
its next change.

## 4. Runs and bounds

| run | instance | what it shows |
|---|---|---|
| `queue` | 2 threads, 2 DWPTs, 1 key, 3 operations, 2 freezes or clears, blocks of 1, 1 failed document; `MCBound` | segments follow the numbers, packets partition the deletes, `anyChanges` is exact, the refinement of `SequencedUpdates` (`LiveDocsFollowSeqNos`, `PacketsPartitionDeletes`, `AnyChangesExact`, `RefinesSequencedUpdates`) |
| `flush_counts` | 2 indexing threads, flush every 2 documents, 4 documents of which 1 may fail, one `flushNextBuffer`, one full flush | nothing lost or flushed twice, balance of bytes and counters, completeness of the full flush with all its assertions (`CountersBalance`, `FullFlushIsComplete`) |
| `flush_ram` | RAM limit 4, documents of 3 or 6, 3 of them, a full flush or `deleteAll` | the stall flag is current, and every call returns (`StalledIsCurrent`, `CallsReturn`) |
| `pipeline_commit` | 2 threads, 1 key, 3 operations (update, delete by query), a deletes-only ticket, a full flush, a failing flush, threads that look for marked DWPTs late | unless a full flush is overtaken, a commit is a prefix of the operations and no delete is wrong or lost; no change is forgotten (`CommitIsPrefix`, `DeletesExact`, `NoChangeForgotten`) |
| `updates_merges` | 2 opened segments; four workloads | deletes and updates survive flushes and merges, in order (`DeletesExact`, `UpdatesInOrder`) |
| `updates_lost` | 2 opened segments, 1 update and 2 merges | finding (`NewestValueWins`, section 7) |
| `pending_docs` | limit 4, 1 committed document, 2 added by `addIndexes`, five workloads of 2 or 3 updates; deadlock checked | the count is exact, the limit holds, a rollback is balanced, nobody is stuck (`DocsCounted`, `LimitHolds`) |
| `commit_files` | 2 segments at the start, eight workloads of 3 to 5 operations with faults and crashes | no file goes too early or stays, each visible commit can be read, names are fresh, the refinement of `DurableIndex` (`FilesExact`, `CommitsReadable`, `FreshNames`, `NothingToCommit`, `RefinesDurableIndex`) |
| `merge_scheduler` | 2 calling threads, nine workloads of 2 to 4 segments and up to 3 calls, with failing merges and thread starts | merges own their segments, a closed writer has none, `forceMerge` keeps its promise, every call ends (`MergesOwnSegments`, `ForceMergeIsDone`, `CallsEnd`) |
| `reader_reopen` | 2 threads with 2 calls, 2 changes, 1 failing refresh | readers are counted, changes are visible, refreshes never go back, every call ends except waits that nobody can end any more (`ReadersCounted`, `ChangeIsVisible`, `NeverOlder`, `CallsEnd`) |
| `reader_generation` | the same without failures | finding (`SearchingGenIsIncluded`, section 7) |
| `nrt_replication` | 3 nodes, 4 names of segments, six workloads of 2 to 5 events | replicas show points, commits survive, files are accounted for, replicas catch up (`ReplicasShowPoints`, `CommitSurvives`, `FilesAccounted`, `CatchesUp`) |

Why these bounds are enough for the questions asked. In the first five runs each
property relates two operations on one key, seen from one segment: two threads,
one key and two DWPTs give every order of an update against a delete, a freeze
and another update, and the third operation separates "before", "between" and
"after". A full flush needs a thread in the old queue and one in the new. A lost
update needs one packet and one merge at each of its steps. For files, a
violation takes one holder that lets go, one that still needs the file, and a
crash or fault in between: each workload of `commit_files` combines two kinds of
holders with one or two faults, and together they have every pair. A merge can
be in the way of one call and of one other merge; `merge_scheduler` has two calls
against two merges of four segments. A swap of a reader needs one thread that has
read `current`, one that refreshes and one that closes. Replication needs two
generations of the primary, hence one crash, and a name used by both; the third
node sees both of them. All bounds are guards or workloads (`MaxSeqNo`, `MaxCuts`,
`MaxDocs`, `MaxMain`, `MaxGen`, `MaxName`, `Workloads`, ...), so TLC exhausts each
instance. Runs stop where the bounds are used up, hence `CHECK_DEADLOCK FALSE`;
that this is the only reason is what `CallsReturn`, `CallsEnd` and `CatchesUp`
show, and `pending_docs` checks for deadlock itself (it may stay in a state where
nothing is left to do).

*Workloads.* An instance is chosen by the initial states: how many operations of
each kind, and how many faults, may happen in a behaviour. One run so covers
several small combinations instead of their product.

* `MCBound` keeps `queue` small: while two DWPTs are in use nobody clears the
  queue or forces the global slice and no document fails (those two calls do not
  look at DWPTs; a failing document concerns its own DWPT only).
* `updates_merges` has a flush and a delete with one merge and one update; the same
  with `tryUpdateDocValue` and `tryDeleteDocument` instead of the update; a delete
  with two merges; and a flush, two updates and a `tryUpdateDocValue` without a
  merge. One update with two merges, and two updates with one merge, are left out
  because they go wrong (section 7): every smaller combination holds.
* `commit_files` leaves out the faults "partly", "metadata" and "defer_segments",
  which go wrong (section 7).
* `pending_docs` has `deleteAll` and `rollback` together only without merges, for
  the same reason.
* `pipeline_commit`: its three operations are enough for a late scan, but not for
  one that overtakes a full flush and leaves a trace in the commit, which takes four
  (section 7): the exception in `CommitIsPrefix` and `DeletesExact` takes nothing away
  from what this run checks. With four operations, and neither deletes-only tickets nor
  failures, the properties hold in all 5 966 179 states.
* `CallsEnd` of `reader_reopen` excepts waits that are `Abandoned` (section 7).
* `CallsEnd` of `merge_scheduler` excepts the states in which a merge thread could
  not be started (`LaunchFailed`), or all merge threads have gone and left a merge
  behind (`Stranded`): there calls do hang, see section 7.
* `nrt_replication` has two replicas with a flush, a merge and the death of the
  primary; with a commit, two deaths and a return; one replica and several deaths,
  down to a cold start; and one replica with a copy that fails, or cannot start.

`RamLimit` 4 with documents of 3 bytes lets two documents exceed the stall limit
while one is flushing, one of 6 does so alone. The type invariants also say where
a value may come from (a pooled segment is in the index, a pending update concerns
a document of its segment).

## 5. Fairness

* `flush_ram`: `FairSpec` is weak fairness of "some thread or Main takes a step",
  one formula for all of them. It says that the machine does not stop, and nothing
  about who runs: monitors are not fair, `ReentrantLock` is used without fairness.
  Progress follows because the documents are bounded: whoever spins has work to
  flush, and the work ends. The timeout of one second in `waitIfStalled` is a step
  that may always be taken; the source calls it defensive.
* `merge_scheduler`: weak fairness of each calling thread and of each merge thread.
  A thread is never blocked by an unfair lock for ever, since all its waits are
  timed (`doWait`, one second) or joins, and are tried again.
* `reader_reopen`: weak fairness of the reopen thread and of each thread that is
  inside a call. A wait without limit ends only by a notification: the timeouts of
  `waitForGeneration` are a separate action that only limited waits may take.
* `nrt_replication`: weak fairness of each replica's `Jobs` thread and of the
  threads that handle messages. No node is promised to start or not to crash, no
  primary to answer; `CatchesUp` asks for nothing in these cases, nor after a copy
  has failed, which the code does not repeat before the next point.

## 6. Proofs

The theorems hold for any number of threads, DWPTs, keys, segments, documents,
readers and calls: for all constants that satisfy the named assumptions of the
modules (threads are finite where they are counted, actors differ, bounds are
numbers). What a theorem assumes beyond them is written in it. Each rests on an
inductive invariant: true at the start, kept by every action, and strong enough for
the property. TLC has checked every invariant before it was proved, by adding it
to the configuration of the run of its module: the listed runs do not repeat this.

| theorems | invariant | where | TLC, on the instance of |
|---|---|---|---|
| `Typing`, `Packets`, `AnyChanges`, `LiveDocsInOrder` | `TypeOK`, `PacketInv`, `IInv` | `DeleteQueueInv`, `DeleteQueueProofs` | `queue`, 790 212 states |
| `Refinement` | `IInv` and `Linked` | there | `queue` |
| `Typing`, `Bytes`, `PendingNeverMissed`, `Places`, `StallCurrent` | `FCInv` | `FlushControlProofs` | `flush_counts`, 2 039 589 states; `flush_ram` |
| `OldGeneration`; `FullFlush`, `Balance` | `FCInv` and `Queues`; and `Whole` | `FlushControlFullProofs` | the same; `flush_counts` |
| `Typing`, `CommitsArePrefixes`, `DeletesMeetDocuments`, `NothingForgotten` | `Inv` of `FlushPipelineProofs` | there | `pipeline_commit`, 3 352 872 states |
| `Typing`, `Exact` | `Inv` of `UpdatesAndMergesProofs` | there | `updates_merges`, 864 382 states |
| `Typing`, `Exactness`, `Limit` | `Inv` of `PendingDocsProofs` | there | `pending_docs`, 1 705 780 states |
| `Typing`, `Counted`, `NeverBack`, `Visible` | `Inv` of `ReaderReopenProofs` | there | `reader_reopen`, 568 487 states |
| `SegmentsAreOwned`, `MergeStatesFit`; `ClosedWritersAreQuiet` | `MSInv`; and `QuietInv` | `MergeSchedulingProofs` | `merge_scheduler` with the constraint `DeletesApart`, 271 149 states; three calling threads, 513 978 |
| `ForceMergeKeepsItsPromise` | `MSInv` and `ForcedInv` | `MergeSchedulingProofs` | `merge_scheduler`, 273 786 states; three calling threads with two `forceMerge`, 210 151 |

### The delete queue

All but `Typing` assume `PutReplaces = TRUE`, since with the converted map the
buffered deletes themselves are wrong (section 7).

* `Typing` (`Spec => []TypeOK`): `TypeOK` is inductive on its own, proved
  action by action in `TypeStep`.
* `Packets` (`Spec => []PacketsPartitionDeletes`): each delete is in exactly one
  packet or the global buffer, whatever `tryApplyGlobalSlice` calls fail to get
  the lock. The invariant is `PacketInv`: types, `GlobalPlaces` (the global
  slice is empty between steps and lies behind the last cut; cuts are ordered)
  and the property. The argument: `DeletedIn(a, c, k)` splits at every `b`
  between (`DeletedInSplit`) and does not change for a stretch of the queue that
  is already written (`DeletedInStable`). Applying the global slice extends the
  buffer's stretch by exactly the slice's keys; a freeze turns the buffer's
  stretch into the cut's and starts an empty one.
* `AnyChanges` (`Spec => []AnyChangesExact`) follows from `PacketInv` and
  `LinkedByAdd`: only during an `add` a node is linked behind the tail. It thus
  covers the moment which the last test of `anyChanges` is there for.
* `LiveDocsInOrder` (`Spec => []LiveDocsFollowSeqNos`): each flushed segment
  shows the effect of the operations in the order of their numbers. The property
  says nothing before a flush, so the invariant `IInv` of `DeleteQueueInv` says
  what holds on the way there. `DwptInv(d, c)` describes a DWPT `d` in the hands
  of a call `c`, or of none (`c = Idle`); `OneCall` makes the call unique. Its
  core is `Applied`: the private deletes account for exactly the nodes up to the
  head of the slice, for each document those numbered after it. That a call
  keeps it needs `Later` (what is still to be applied comes after every finished
  document), `SlicePlaces` (a slice is empty between calls: if it were not, a
  document added later would be hit by it), `DocsNumbered` (which documents have
  a number yet) and `OnlyFinished` (nothing concerns the call's own documents).
  The proof has one lemma per kind of change of the own DWPT (`StartUpdateOwn`,
  `FailUpdateOwn`, `NumberOwn`, `FinishOwn`, `FreezeOwn`, `FlushOwn`, `GoOn`),
  `SliceApplied` for the effect of applying a slice, `Frame` for the other DWPTs
  (a queue that only grows at its tail, with larger numbers, disturbs nobody),
  and `Move`, which puts them together for a step of one call.
* `Refinement` (`Spec => RefinesSequencedUpdates`): the queue implements
  `SequencedUpdates`, in which an update takes effect at once, in the total order
  of the numbers. `Linked` ties the history to the data: an operation has the
  number of its node, a document of a DWPT is an operation once it has a number,
  a cut lies at the number of its node. Each action then is a step of the
  abstract queue or none: the monitor of `add` is its `Serialize`
  (`SerializeMaps`), a freeze its `Cut` (`CutMaps`: the keys between two cuts are
  those of the operations between their numbers), `clear` its `Drop`, a flush its
  `Write` (`WriteMaps`, from `LiveDocsFollowSeqNos`); all else stutters.

### Flush control

`FCInv` holds for all constants. `Good(f, dwpts)` is about the record of the flush
control alone, so that it can be kept through the calls of one step: every DWPT
that `f` names is in one place, once, and each counter is the sum or the number of
what it counts. `Held(f, call, Live)` ties it to the callers: a live DWPT is in a
`ThreadState`, blocked or flushing, a flushing one that is in no queue is in the
hands of one caller, and nobody else's. `Owners` says who holds which `ThreadState`
and the monitor, `Control` what a caller at each place of the code knows.

Each operation of the flush control has one lemma about `Good` and `Held`
(`SetFlushPending`, `CheckOut`, `Block`, `CommitPerThreadBytes`, ...), each action
one about `FCInv`, in which these are put in a row as the code calls them. The
counters are sums over sets of changing size: `SumFunction` of the community
modules is a recursive function over finite sets, and what it does when an element
comes or goes is proved here from the least set in which it would not
(`MinimalSet`, `TableExists`). So is what `pruneBlockedQueue` leaves of a list.

* `Bytes`, `Typing` (`Spec => []TypeOK`): `activeBytes` and `flushBytes` are the bytes
  of what they count; hence they are never negative, which the code asserts after
  each subtraction.
* `PendingNeverMissed`: `numPending` may be too large after `deleteAll` (`doOnAbort`
  of a pending state, section 7), never too small: `nextPendingFlush` returns
  without a scan only if nothing is pending.
* `Places`: whoever takes a DWPT, the thread that filled it, another one, or the
  full flush, nobody else has it.
* `StallCurrent` (`Spec => []StalledIsCurrent`) follows from `FCInv` and which
  operations call `updateStallState`.
* `OldGeneration`: `Queues` counts the generations of the delete queue, at most two,
  and says where the old one still is: while states are marked, in states that are
  yet to be marked or in the buffer; then in flushing writers; then nowhere. What is
  blocked during a full flush comes from a `ThreadState`, which has the new queue or
  is still to be marked; this is what the assertion in `addFlushableState` needs.
* `FullFlush` (`Spec => []FullFlushIsComplete`) also says that only old DWPTs are
  flushed meanwhile. It assumes `RamLimit = 0`: then no thread marks the
  `ThreadState` of another one, nothing is pending between two steps and nobody
  scans (`Whole`). With a limit in bytes it is false: a thread that began its scan
  before the full flush checks out a DWPT of the new queue (section 7).
* `Balance` (`Spec => []CountersBalance`) assumes that `deleteAll` is not called, or
  `RamLimit = 0`. It needs one of them: `deleteAll` aborts a pending state without
  taking it out of `numPending`, which is why `PendingNeverMissed` states the half
  that holds always.

### From an operation to a commit

The theorems assume nothing about the constants, not even that threads or keys are
finitely many. `CommitIsPrefix` and `DeletesExact` speak of behaviours in which no
full flush has been overtaken; what the invariant says towards them (`Order`,
`Flushed`, and in `FullFlushOwn` that nothing of the new queue is frozen) has the
same condition, and nothing else does: `TypeOK`, `NoChangeForgotten` and who owns
what hold always. Late scans that do not overtake anything are covered. `Inv` has
four groups of conjuncts.

*Who owns what.* `Refs`, `DocsPlaced`, `DocsCovered`, `ThreadsOwn`, `TicketsOwn` and
`StreamOwns`: a document is in one DWPT, that of its queue; an active DWPT belongs
to one `ThreadState`; a ticket, segment or private packet to one DWPT; and a ticket
covers all documents of its DWPT and everything numbered before it was made.

*Order.* `DeletesExact` says something of published documents only. What holds
on the way there is `Order`, two directions of the same question:
* no delete too many: a published document is in a segment or `Gone`, i.e. has a
  younger delete that has been frozen (`DocsKept`); what packets and tickets will
  still remove is `Gone` as well (`PacketsRight` for packets and the segments they
  apply to, `TicketsRight` for a ticket and the documents published before it);
* no delete lost: a frozen delete that has not reached an older published document
  is in a packet that kills it or in a ticket (`DeletesReach`); for a document
  whose own ticket waits, it is in a later ticket, or the flush itself
  resolves it (`DeletesFollow`).

An action leaves `Order` alone (`QuietOrder`), or is one of three: a
freeze of a queue into a ticket (`Freezes`, `FreezeOrder`), the publication of
the first ticket (`PublishOrder`) or the resolution of a packet (`ApplyOrder`). Of a
freeze the lemma to look at is `KeyGone`: each key of the new ticket is that of a
delete younger than every document that has a ticket. It is where the full flush
comes in: documents of the new queue with a ticket while the old queue
still has deletes to freeze would be hit by older deletes. `PublishOrder` rests on
the order of the generations in `publishFlushedSegment`: a ticket's packet is older
than its segment, and all packets after it are newer.

*The full flush.* `FullFlushOwn`: while it lasts, and unless it is overtaken,
nothing of the new queue is frozen or gets a ticket; no thread is about to freeze
it in any case. `OldQueueFlushed`: of the old queue there are only DWPTs which the
full flush will flush, and none when it has stopped helping. `QueuesFrozen`: only
the current queue, and until the end of the flushes the old one, have deletes that
are not frozen; if the full flush has flushed anything itself, not even the old
one, which is why `anythingFlushed` may decide about the last ticket. `Reported`:
of the deletes of the old queue, `pendingChangesInCurrentFullFlush` knows.

*The commit.* `CommitOld`: an older commit is of queues that no thread appends to,
so that what it is compared with does not change. `Flushed`: once `waitApplyAll` has
chosen the packets to wait for, no ticket has a DWPT or a key, and every document
that is to go is in one of these packets.

* `CommitsArePrefixes` (`Spec => []CommitIsPrefix`): `SegmentsArePrefix` shows that at
  `CloneSegmentInfos` a document is live iff it is of an old queue and no delete of
  the old queues is younger. One direction is `Flushed` and `AllApplied`; the other
  needs that all old documents are published (`DocsKept`, `OldQueueFlushed`, no
  tragic event) and that a document `Gone` is so by a delete of an old queue
  (`FullFlushOwn`: the new one is not frozen).
* `DeletesMeetDocuments` (`Spec => []DeletesExact`) follows from `DocsKept` and
  `DeletesReach`, also after failed flushes and a tragic event.
* `NothingForgotten` (`Spec => []NoChangeForgotten`) follows from `QueuesFrozen` and
  `Reported`.
* `Typing` is `Inv`'s first conjunct.

That the module may use the delete queue as it does is `Refinement`; that a DWPT is
flushed once is `Places`, and that a full flush finds each DWPT of the old queue
`OldGeneration`, both without an assumption on the limit in bytes.

### Packets and merges

* `Exact` (`Spec => []DeletesExact`): a packet that is finished has deleted every
  document it is for, and no other document is ever lost; merges neither lose nor
  copy one. `PacketOK(p)` has the argument: what `p` is for is what was
  asked (`Asked`); its generation tells the segments it concerns (`Reach`); it
  has opened only such segments (`Met`); and a live document that it still has to
  delete is in a segment it has open or has not met, and if it no longer looks for
  segments, `mergeFinishedGen` has moved since it began, so that it will look again
  (`Ahead`). The step to be afraid of is the end of a merge while a packet is
  resolved without the lock. `CommitMerge` is proved for every packet from
  `MergesApart`: what the readers of a merge show contains what is live now, and a
  merge has no segment that a packet of the same or an older generation may still
  have to look at.
* `Typing` is `Inv`'s conjunct `Types` and `SegmentsApart`.

That updates are applied in order (`UpdatesInOrder`) is not a theorem: with two
updates and a merge it is false (section 7), and TLC checks it without these.

### The number of documents

The theorems assume `NoWorkloadHasAllThree`: merges, `deleteAll` and a rollback (or
a failure, which causes one) are not all in one behaviour, any two of them are. It
is needed: `deleteAll` lets merges start that a rollback under way relies on not to
see (section 7), and then the count is wrong.

* `Exactness` (`Spec => []DocsCounted`): `pendingNumDocs` is the sum of what
  segments, flushed tickets, DWPTs in use and DWPTs in flushes hold, and of what is
  reserved. The sums are cardinalities of sets of pairs (`Total`), so that the
  library's facts on finite sets apply: `TotalStep` says what a sum is after one of
  its terms has changed, `TailDocs` what it is without the head of a queue. For a
  step to change the sum by what it changes the counter by, nothing may be in two
  places: `Apart` (segments, tickets and DWPTs share no document), `FlushesOwn` (a
  ticket whose flush has not ended belongs to one thread, so that
  `Marked` hits one ticket), `MergesOwn` (a merge has its segments to itself, in
  the index, and its result no document but theirs). That a rollback ends with the
  count of its commit is `ShutDown`: after the `DocumentsWriter` is closed, no
  thread gets a `ThreadState`; when every one of them was locked once, no DWPT
  has a document (`WritersShut`); when the flushes have ended, the forced purge
  leaves no ticket (`FlushesShut`, `QueueShut`).
* `Limit` (`Spec => []LimitHolds`) needs the stronger `LimitKept`: also with the
  documents of threads that have passed the check and not yet indexed.
* `Typing`: that the counter is never negative is no type but follows from the sum.

### Readers

* `Counted` (`Spec => []ReadersCounted`): `ReadersPlaced` says at which places a
  thread has a reference; each step then changes the count and the set of users
  alike (`CountReleased`, `GivenBack`). `UsedIsCounted` is what makes the steps
  safe: a reader in use has a positive count, so nobody's `decRef` closes it.
* `NeverBack` (`Spec => NeverOlder`, an action property) uses `RefreshAhead`: while
  a thread refreshes, the current reader is the one it started from, as the refresh
  lock is held.
* `Visible` (`Spec => []ChangeIsVisible`) uses `GensFollow`: each announced
  generation is preceded by the publication of a reader that has it.

### Merge scheduling

`MSInv` is `Fine`, a predicate of the writer and of where everyone stands, and what
is known of the calls. Its core:

* `Owned`: `mergingSegments` is exactly what the registered merges have, no two of
  them share a segment, and registered are exactly the merges that are pending,
  each once, or running. It is a statement about the writer alone, so that what
  `registerMerge`, `mergeFinish` and `abortMerges` do to it are lemmas about
  operators (`RegisterGrows`, and the like), used wherever a step calls them.
* `Placed`: a pending merge has no thread yet, a running one is in its own, from
  `Launch` to `FinishMerge`; and its segments stay in the index until it has
  committed, so that no other merge, `deleteAll` or rollback takes them from under
  it. A policy may propose any number of merges at once: `RegisterAll` is a
  recursive function over the proposal, and that the last of them still leaves
  `Owned` is by a least counterexample.

`SegmentsAreOwned` (`Spec => []SegmentsOwned`) is `Owned` and `Placed` without any
hypothesis: also that what is registered is pending, once, or running, so that a
merge that has left both cannot keep segments. `MergeStatesFit` (`Spec /\
[]InBounds => []TypeOK`): `TypeOK` says also how many segments and merges there
are, which only a workload bounds (`InBounds`); everything else in it follows from
`MSInv`.

`ClosedWritersAreQuiet` (`Spec /\ []DeletesApart => []MergesOwnSegments`) adds that a
closed writer has no merge left. `Closer`: one thread closes the writer, a caller
of `rollback` or `close`, or a merge thread whose merge was tragic. `Quiet` follows
it: from `abortMerges` on, merges are stopped and none is pending; when it has
waited, none is running; when it has joined the threads (`sync`), no other merge
thread is left; and so it remains. Each of the three can be undone only by whoever
lets merges run again, and that is `deleteAll`. The hypothesis says that no
`deleteAll` waits for merges while the writer closes. Without it the theorem is
false, with three calling threads (section 7); with the two of `merge_scheduler`
the property holds also without it.

`ForceMergeKeepsItsPromise` (`Spec => ForceMergeIsDone`) speaks of one step, the
normal return of `forceMerge`, but what makes it true is spread over all of
them. The wanted segments are those `forceMerge` marked and those forced
merges have written. `ForcedInv` is

* `Pursued`: merges are stopped, or a merge has failed of which nobody knows yet, or
  a `forceMerge` has marked segments and not proposed merges yet, or a forced merge
  is pending or running, or the wanted segments are few enough. `forceMerge`
  returns when no forced merge is left, so that the last case remains.
* `Tracked`: what `Pursued` rests on. No name is given twice: a merge that has not
  committed has its name to itself (`Fresh`, `Unwritten`). A registered merge that
  takes a wanted segment is forced, and a forced merge writes a wanted one
  (`Marked`): also one that was there before `forceMerge` began, as `MarkForced`
  takes over all of these. A merge is aborted only
  while merges are stopped (`Aborting`).

The steps to be afraid of are two. `CommitMerge` takes wanted segments away and adds
one; the forced merge that did it is still running. `FinishMerge` then ends that
merge, and it may have been the last: the cascade must register another, or
there must be no need to. `UpdatePursues` proves that it does: a wanted segment
that is being merged belongs to a forced merge, so if none is left all wanted
segments are free, and then the first merge that `findForcedMerges` proposes can
always be registered (`ForcedMergesFirst`, `RegisterFirst`; that the next ones
leave it in place is `StepsGrowOn`). Which of the wanted segments it takes does
not matter to this argument. That a workload starts with at most 1000 segments only
keeps the names of flushed segments apart from theirs.

### What is only model-checked

Liveness and fairness (`CallsReturn`, `CallsEnd`, `CatchesUp`) and everything with
`ENABLED`; `UpdatesInOrder` of `UpdatesAndMerges`, `CommitSurvives` and
`FilesAccounted` of `NrtReplication`, which hold for the workloads of their runs and
fail in larger ones (section 7), so that no theorem can say them of all constants;
`DeleteAllIsPointInTime` and the other statements of section 7, which are false.
Not proved yet: the invariants of
`CommitFiles` and its refinement of `DurableIndex`, `ReplicasShowPoints` of
`NrtReplication`. The induction
theorems of the library take an operator as a parameter and are outside what the
installed provers do: where a recursive function is reasoned about, a least
counterexample takes their place. No module with a theorem uses a recursive
operator.

## 7. Disagreements with the source's own statements

Two are runs that TLC must find violated:

| run | where | what |
|---|---|---|
| `updates_lost` | `FrozenBufferedUpdates.cpp:333` | a packet finished outside the lock: a merge skips its update, against the comment at 306 (`NewestValueWins`) |
| `reader_generation` | `ControlledRealTimeReopenThread.h:124` | a refresh that began before a change announces it, against the comment at 295 (`SearchingGenIsIncluded`) |

The others were met while modelling and can be reproduced with the definition
named; no listed run checks them.

*Conversion.*
* `BufferedUpdates.cpp:86`: `emplace` does not replace, so the larger document
  number of a delete is never stored. `PutReplaces = FALSE` in
  `DeleteQueue.cfg` violates `LiveDocsFollowSeqNos`.
* `IndexWriter.cpp` and others write "contains" as `!find(x) != end()`; read as
  intended. Asserts in the form `assert((cond, L"..."))` never fire.

*Flush and deleteAll.*
* `DocumentsWriterFlushControl.cpp:550`: the gap of sequence numbers can be one
  too small, as `ThreadState`s are created after they were counted
  (`FlushControl.NumbersFitGap`, three threads).
* `DocumentsWriterFlushControl.cpp:409`: with a policy that flushes by RAM and
  three threads a DWPT of the new queue is flushed during a full flush, against the
  assertion at `DocumentsWriter.cpp:634` (`FullFlushIsComplete` with the constants
  of `flush_ram`; it holds in `flush_counts`). The commit is then not a prefix of the
  operations, and a delete of the old queue may reach a document of the new one:
  with `MaxOps = 4`, `MaxApply = 0` and `MaxFailed = 0` TLC violates `CommitIsPrefix`
  and `DeletesExact` of `FlushPipeline` when their condition `~overtaken` is taken
  away. A thread leaves the monitor of `nextPendingFlush`, a full flush swaps
  the queues, the other thread fills a DWPT of the new queue, which the policy
  marks, and the first thread checks it out; `CloneSegmentInfos` finds it published.
* `DocumentsWriterPerThread.cpp:220-223` and `:287-290` say that after an aborting
  exception the counter of documents "will be wrong". It is not: `abort` (`:96`)
  takes back all documents of the DWPT, and `DocsCounted` of `PendingDocs` holds with
  aborting exceptions. The comment seems older than that line.
* `DocumentsWriter.cpp:199` and `:214`: a `ThreadState` created before `setAbort`,
  and a ticket of a flush that ends meanwhile, escape `deleteAll`
  (`PendingDocs.DeleteAllIsPointInTime`), though `IndexWriter.cpp:1871` promises
  point-in-time semantics.
* `DocumentsWriterFlushControl.cpp:301`: after `deleteAll`, `numPending` keeps
  counting the aborted pending states, which costs scans only.
* `IndexWriter.cpp:1894`: `deleteAll` lets merges start again while a concurrent
  `rollback` relies on there being none; a merge then ends in a writer that has
  been rolled back (`RollbackIsBalanced` with both and a merge in one workload), or
  is registered by a flush of a third thread before the writer is closed
  (`MergeScheduling.ClosedMeansQuiet` with `MCThree` and three threads, a trace of
  13 states).

*Updates and commits.*
* `ReaderPool.cpp:188`: two updates and a merge, and an older value is carried
  over on top of a newer one (`UpdatesInOrder` with `MCTwoUpdates`).
* `ReaderPool.cpp:268`: a commit that fails after writing the live documents of
  some segments leaves files that the next checkpoint does not count
  (`HeadIsCounted` with `MCPartly` and the fault "partly"), though
  `IndexFileDeleter.h:49` says that the in-memory `SegmentInfos` is counted.
* `IndexFileDeleter.cpp:44`: `inflateGens` runs only if there is an index: after a
  crash before the first commit, `_0` is written again.
* `SegmentInfos.cpp:578` (sync of the directory after the rename) and
  `IndexFileDeleter.cpp:618` (a deferred delete of `segments_N`): with the faults
  "metadata" and "defer_segments" a commit that was reported as failed is found
  after a crash, or a deleted one whose files are gone stays visible.

*Merges.*
* `ConcurrentMergeScheduler.cpp:507`: a merge thread that ends gives up when
  `maxMergeCount` others are alive, and counts threads that have given up as well:
  threads that end together leave the merge which `forceMerge`'s cascade has just
  registered, and `forceMerge` waits until another call offers merges
  (`MergeScheduling.ForceMergeEnds` with `MCForced`), against
  `IndexWriter.h:1241-1243`.
* When the start of a merge thread fails, another `forceMerge` may return with
  too many segments, or wait (`LaunchFailed`).
* `forceMerge` returns normally when a running merge has failed and has not yet
  recorded its exception; `ForceMergeIsDone` excepts this.

*Readers.*
* Closing the manager does not wake those who wait for a generation, though
  `ControlledRealTimeReopenThread.h:160-166` suggests it: the reopen thread dies
  of the `AlreadyClosedException`.
* A refresh that fails sets `searchingGen` all the same (`ChangeIsVisible`
  excepts it).
* `close` of the reopen thread sets `searchingGen` to the maximum, so that nobody waits
  any longer; a `refreshDone` of the application that comes late takes it back.
  `CallsEnd` excepts only waits that these leave behind (`Abandoned`): the reopen
  thread has died, or `searchingGen` was taken back after the thread had ended, and the
  wait is for a later generation.

*Replication.*
* `ReplicaNode.cpp:570-580`: when `job->start()` fails, the failed job stays
  `curNRTCopy` until the next point. `isCopying` (`ReplicaNode.h`: "Non-null when
  we are currently copying files from a new NRT point") stays true, and
  `getSearchingVersion`, on which a promotion depends, waits for its end
  (`NrtReplication.CopyingEnds` with the last workload).
* `ReplicaNode.cpp:667` asserts that `primaryGen` grows. A point of a dead primary
  that arrives late takes `lastPrimaryGen` back, and deletes merges copied in
  advance that a running copy of the new primary relies on: that copy then fails
  to open and is not repeated (`spoilt` in `CatchesUp`). A merge copied from the
  dead primary is then kept as well and overwrites a file of the same name.
* `ReplicaNode.cpp:742-760` asks whether a merge that was copied in advance is part of
  the last point or the last commit, not whether it is part of the commit in progress,
  which `commit` (:301-360) knows only when it is over. With two flushes, two merges,
  two points and a commit in between, the callback renames an unsynced copy over a
  file that the commit has just synced (`CommitSurvives` with
  `Work({n2}, 2, 2, 1, 0, 0, 0, 0)`, a trace of 25 states; the run's workloads are
  smaller). The contents are the same, so only a crash of the machine can tell.
* After a point whose copy could not be opened (`spoilt`) the renamed files have no
  reference and are not pending; the run's workloads are too short for such a point,
  larger ones find `FilesAccounted` violated in this way.
* `transferAndCancel` takes over files by name only, whoever wrote them. That is
  safe because a new primary is chosen only when no replica copies
  (`Promotable`; without this guard TLC finds a replica with a foreign file).
* `ReplicaNode.cpp:326`: `commit` labels what was copied from the last primary with
  the `primaryGen` of the next, once a message of that has arrived.
* `TestStressNRTReplication.cpp:246-250`: `promoteReplica` skips a replica that
  does not answer and may then promote an older one; names under which the skipped
  one has files open are then written again.
* `ReplicaNode.cpp:695` and `:708` assert that a file to be copied in advance is not
  there yet, though the callback (:759-764) handles the late request that
  violates this.
* Merges copied in advance whose point was skipped or cancelled are processed by no
  later point: the file stays until there is a new primary.
* `PreCopyMergedSegmentWarmer.cpp:42` reports a merge as finished before it is
  committed: a refresh in between makes replicas delete it again.

## 8. What is not modelled

Within the modelled components: soft deletes, changes of the configuration at run
time, more than one doc-values field (fields are independent), index sorting (it
permutes document numbers inside a flush or merge), opening on an older
`IndexCommit` or from a reader, `PersistentSnapshotDeletionPolicy`, IO rates other
than "paused", the scores by which a merge policy chooses, `addIndexes` of readers,
`SearcherLifetimeManager`, and of replication the graceful close of nodes, the
transaction log, and the part of a file that a replaced copy had begun. A tragic
event is modelled where it has an effect beyond ending the writer (failing merges,
aborting documents). Query deletes and term deletes differ in what they match and
in where private ones are resolved; `FlushPipeline` has both. A flush whose changes
leave no segment proposes nothing to the merge policy; near-real-time readers and
packets that are open at a rollback leave files that the next opening cleans up; a
deferred delete may be retried at any time, as the source does so at moments that
depend on the clock (`RetryDelete`).

Some actions are coarser than the locks of the code: `PendingDocs` and
`FlushPipeline` add an operation to the queue and count its document in one step;
`MergeScheduling.Launch` tests whether to stall and takes the next merge;
`ReaderReopen.SwapReference` (and `CloseManager`) writes `current` and drops the old
reference; `NrtReplication.FlushAndRefresh` takes the finished merges, refreshes and
sets the new point, and `EndCommit` ends with the change of the references. What other
threads may see between the two is not examined there.

Outside: the query cache is planned (section 9). Codecs, analysis, search,
utilities and the modules on top are sequential transformations of data without the
behaviours above, and by far the larger part of the repository's lines;
`PROJECT.json` names each with its reason.

## 9. Plan

Done, in the order of what can go wrong worst: `DeleteQueue` with its refinement
and theorems, `FlushControl`, `FlushPipeline`, `UpdatesAndMerges`, `CommitFiles`
with its refinement, `MergeScheduling`, `ReaderReopen`, `PendingDocs` (`deleteAll`
and `rollback` across the components), `NrtReplication`.

Theorems done: all invariants of `DeleteQueue` and its refinement; those of
`FlushPipeline`; those of `ReaderReopen` and its action property; `DeletesExact`
of `UpdatesAndMerges`; `DocsCounted` and `LimitHolds` of `PendingDocs`; all invariants
of `FlushControl`; those of `MergeScheduling` and its action property. Next, in this
order: `FilesExact` and the refinement of `DurableIndex` by `CommitFiles`;
`ReplicasShowPoints` of `NrtReplication`.

Breadth: `LRUQueryCache` (its two maps and their accounting), sessions of
`LocalReplicator`, and pure algorithms as functions against reference definitions
(merging of doc-values updates, `DocIDMerger`, merge selection of
`LogMergePolicy`).
