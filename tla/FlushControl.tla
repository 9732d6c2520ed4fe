---------------------------- MODULE FlushControl ----------------------------
(***************************************************************************)
(* org.apache.lucene.index.DocumentsWriterFlushControl with the            *)
(* DocumentsWriterPerThreadPool and the DocumentsWriterStallControl it     *)
(* works on, and the control flow of DocumentsWriter around them: an       *)
(* indexing thread in updateDocument and flushNextBuffer, and Main, the    *)
(* holder of the writer's fullFlushLock, in a full flush (commit, getReader) *)
(* or in deleteAll.                                                        *)
(*                                                                         *)
(* fc holds the fields guarded by the monitor of the flush control and the *)
(* fields of the ThreadStates; holder has the locks of the ThreadStates.   *)
(* A lock of a ThreadState may be awaited only outside the monitor; inside *)
(* it is only tried.  Deletes, tickets and what a flush writes are in      *)
(* other modules: here a flush takes a DWPT out of flushingWriters.        *)
(***************************************************************************)
EXTENDS Integers, Sequences, FiniteSets, Functions

CONSTANTS Threads,              \* indexing threads
          Main,                 \* the thread that commits or deletes everything
          NoThread,
          MaxBufferedDocs,      \* of the FlushByRamOrCountsPolicy, 0: disabled
          RamLimit,             \* ramBufferSizeMB in bytes, 0: disabled
          DocBytes,             \* bytes a document takes
          BigDocBytes,          \*   and those in every second DWPT
          HardMaxBytesPerDWPT,
          CheckPendingFlush,    \* checkPendingFlushOnUpdate
          MainCalls,            \* what Main may do: fullFlush, deleteAll
          MaxDocs,              \* bound on the calls of updateDocument
          MaxFailed,            \* bound on those that fail
          MaxFlushNext,         \* bound on the calls of flushNextBuffer
          MaxMain               \* bound on the calls of Main

ASSUME ThreadsAssumption == Main \notin Threads /\ NoThread \notin Threads \cup {Main}
ASSUME LimitsAssumption == /\ MaxBufferedDocs \in Nat /\ RamLimit \in Nat
                           /\ DocBytes \in Nat /\ BigDocBytes \in Nat
                           /\ HardMaxBytesPerDWPT \in Nat /\ CheckPendingFlush \in BOOLEAN
ASSUME CallsAssumption == MainCalls \subseteq {"fullFlush", "deleteAll"}
ASSUME BoundsAssumption == /\ MaxDocs \in Nat /\ MaxFailed \in Nat
                           /\ MaxFlushNext \in Nat /\ MaxMain \in Nat

VARIABLES fc,            \* the flush control and the ThreadStates
          holder,        \* ThreadState -> the thread that holds its lock
          freeList,      \* of the pool: the ThreadStates nobody works on
          aborted,       \* of the pool: no new ThreadStates
          stalled,       \* of the stall control
          stallWaiters,  \* threads waiting there and not yet notified
          monitor,       \* holder of the monitor across two steps, or NoThread
          deleteQueue,   \* generation of DocumentsWriter::deleteQueue
          currentFullFlushDelQueue,  \* generation, 0: none
          dwpts,         \* every DWPT made so far
          call,          \* thread -> what it is doing
          numbered,      \* history: numbers given out on the flushing queue
                         \*   since markForFullFlush read the last one
          gap,           \* history: numbers it left for them
          made           \* calls made so far, for the bounds

poolVars == <<holder, freeList, aborted>>
stallVars == <<stalled, stallWaiters>>
queueVars == <<deleteQueue, currentFullFlushDelQueue>>
seqVars == <<numbered, gap>>
vars == <<fc, holder, freeList, aborted, stalled, stallWaiters, monitor, deleteQueue,
          currentFullFlushDelQueue, dwpts, call, numbered, gap, made>>

Callers == Threads \cup {Main}
None == 0                       \* no DWPT, no ThreadState
Uninitialized == [dwpt |-> None, flushPending |-> FALSE, bytesUsed |-> 0]
States == DOMAIN fc.states
ActiveThreadStateCount == Len(fc.states)
numDocsInRAM(d) == dwpts[d].docs
bytesUsed(d) == dwpts[d].docs * (IF d % 2 = 0 THEN BigDocBytes ELSE DocBytes)
Stale(d) == dwpts[d].queue # deleteQueue

Idle == [pc |-> "idle", state |-> None, dwpt |-> None, ctx |-> "none", nested |-> FALSE,
         left |-> 0]

Init ==
    /\ fc = [states |-> <<>>, activeBytes |-> 0, flushBytes |-> 0, numPending |-> 0,
             flushingWriters |-> {}, flushQueue |-> <<>>, fullFlushBuffer |-> <<>>,
             blockedFlushes |-> <<>>, fullFlush |-> FALSE]
    /\ holder = <<>>
    /\ freeList = <<>>
    /\ aborted = FALSE
    /\ stalled = FALSE /\ stallWaiters = {}
    /\ monitor = NoThread
    /\ deleteQueue = 1 /\ currentFullFlushDelQueue = 0
    /\ dwpts = <<>>
    /\ call = [t \in Callers |-> Idle]
    /\ numbered = 0 /\ gap = 0
    /\ made = [docs |-> 0, failed |-> 0, next |-> 0, main |-> 0]
------------------------------------------------------------------------------
(* The operations of the flush control on its fields f.                    *)

\* Mutant: the bytes stay active.
SetFlushPendingActive(f, s) ==
    IF numDocsInRAM(f.states[s].dwpt) = 0 THEN f
    ELSE [f EXCEPT !.states[s].flushPending = TRUE, !.numPending = f.numPending + 1]

\* Only a DWPT with documents becomes pending.
SetFlushPending(f, s) ==
    IF numDocsInRAM(f.states[s].dwpt) = 0 THEN f
    ELSE [f EXCEPT !.states[s].flushPending = TRUE,
                   !.flushBytes = f.flushBytes + f.states[s].bytesUsed,
                   !.activeBytes = f.activeBytes - f.states[s].bytesUsed,
                   !.numPending = f.numPending + 1]

\* The DWPT of a pending state leaves it and is registered as flushing.
CheckOut(f, s) ==
    [f EXCEPT !.states[s] = Uninitialized,
              !.flushingWriters = f.flushingWriters \cup
                  {[dwpt |-> f.states[s].dwpt, bytes |-> f.states[s].bytesUsed]},
              !.numPending = f.numPending - 1]

\* Mutant: the blocked DWPT still counts as pending.
BlockPending(f, s) ==
    [f EXCEPT !.states[s] = Uninitialized,
              !.blockedFlushes = Append(f.blockedFlushes,
                  [dwpt |-> f.states[s].dwpt, bytes |-> f.states[s].bytesUsed])]

\* checkoutAndBlock: the DWPT has to wait for the end of the full flush.
Block(f, s) ==
    [f EXCEPT !.states[s] = Uninitialized,
              !.blockedFlushes = Append(f.blockedFlushes,
                  [dwpt |-> f.states[s].dwpt, bytes |-> f.states[s].bytesUsed]),
              !.numPending = f.numPending - 1]

\* The elements of seq at positions P, in their order
Chosen(seq, P) ==
    LET sel[i \in 0..Len(seq)] == IF i = 0 THEN <<>>
          ELSE IF i \in P THEN Append(sel[i - 1], seq[i]) ELSE sel[i - 1]
    IN sel[Len(seq)]

\* pruneBlockedQueue: the blocked DWPTs of queue q are flushing.
Prune(f, q) ==
    LET ofQueue == {i \in DOMAIN f.blockedFlushes : dwpts[f.blockedFlushes[i].dwpt].queue = q}
        moved == Chosen(f.blockedFlushes, ofQueue) IN
    [f EXCEPT !.blockedFlushes = Chosen(f.blockedFlushes, DOMAIN f.blockedFlushes \ ofQueue),
              !.flushingWriters = @ \cup Range(moved),
              !.flushQueue = @ \o [i \in DOMAIN moved |-> moved[i].dwpt]]

PollFlush(f) == IF f.flushQueue = <<>> THEN f ELSE [f EXCEPT !.flushQueue = Tail(f.flushQueue)]
Polled(f) == IF f.flushQueue = <<>> THEN None ELSE Head(f.flushQueue)

CommitPerThreadBytes(f, s) ==
    LET delta == bytesUsed(f.states[s].dwpt) - f.states[s].bytesUsed IN
    IF f.states[s].flushPending
      THEN [f EXCEPT !.states[s].bytesUsed = f.states[s].bytesUsed + delta,
                     !.flushBytes = f.flushBytes + delta]
      ELSE [f EXCEPT !.states[s].bytesUsed = f.states[s].bytesUsed + delta,
                     !.activeBytes = f.activeBytes + delta]

\* findLargestNonPendingWriter: the first of those with the most bytes.
LargestNonPending(f) ==
    LET candidates == {s \in DOMAIN f.states : /\ ~f.states[s].flushPending
                                               /\ f.states[s].bytesUsed > 0
                                               /\ numDocsInRAM(f.states[s].dwpt) > 0}
        best == {s \in candidates : \A o \in candidates :
                    \/ f.states[s].bytesUsed > f.states[o].bytesUsed
                    \/ f.states[s].bytesUsed = f.states[o].bytesUsed /\ s <= o} IN
    IF best = {} THEN None ELSE CHOOSE s \in best : TRUE

MarkLargest(f) ==
    IF LargestNonPending(f) = None THEN f ELSE SetFlushPending(f, LargestNonPending(f))

\* FlushByRamOrCountsPolicy::onInsert
OnInsert(f, s) ==
    IF MaxBufferedDocs > 0 /\ numDocsInRAM(f.states[s].dwpt) >= MaxBufferedDocs
      THEN SetFlushPending(f, s)
    ELSE IF RamLimit > 0 /\ f.activeBytes >= RamLimit THEN MarkLargest(f)
    ELSE f

\* The policy's choice, then the hard limit.
ApplyPolicy(f, s) ==
    LET g == IF f.states[s].flushPending THEN f ELSE OnInsert(f, s) IN
    IF ~f.states[s].flushPending /\ ~g.states[s].flushPending
       /\ g.states[s].bytesUsed > HardMaxBytesPerDWPT
      THEN SetFlushPending(g, s) ELSE g

\* doOnAbort: numPending is not among the fields it changes.
DoOnAbort(f, s) ==
    IF f.states[s].flushPending
      THEN [f EXCEPT !.states[s] = Uninitialized, !.flushBytes = f.flushBytes - f.states[s].bytesUsed]
      ELSE [f EXCEPT !.states[s] = Uninitialized, !.activeBytes = f.activeBytes - f.states[s].bytesUsed]

\* doAfterFlush
AfterFlush(f, d) ==
    LET gone == {w \in f.flushingWriters : w.dwpt = d} IN
    [f EXCEPT !.flushingWriters = f.flushingWriters \ gone,
              !.flushBytes = f.flushBytes - (CHOOSE w \in gone : TRUE).bytes]

\* abortPendingFlushes: everything queued or blocked is dropped.
AbortPending(f) ==
    LET queued == {w \in f.flushingWriters : w.dwpt \in Range(f.flushQueue)} IN
    [f EXCEPT !.flushingWriters = @ \ queued, !.flushQueue = <<>>, !.blockedFlushes = <<>>,
              !.flushBytes = @ - SumFunction([w \in queued |-> w.bytes])
                - SumFunction([i \in DOMAIN f.blockedFlushes |-> f.blockedFlushes[i].bytes])]

PendingDwpts(f) == Range(f.flushQueue)
                   \cup {f.blockedFlushes[i].dwpt : i \in DOMAIN f.blockedFlushes}

StallLimit == 2 * RamLimit
StallState(f) == /\ RamLimit > 0
                 /\ f.activeBytes + f.flushBytes > StallLimit
                 /\ f.activeBytes < StallLimit
\* Mutant: an end of the stall is not passed on.
UpdateStallStateOnly ==
    /\ stalled' = (stalled \/ StallState(fc'))
    /\ stallWaiters' = IF stalled' # stalled THEN {} ELSE stallWaiters

\* updateStallState, and updateStalled which notifies on a change.
UpdateStallState ==
    /\ stalled' = StallState(fc')
    /\ stallWaiters' = IF stalled' # stalled THEN {} ELSE stallWaiters

\* tryLock on a ThreadState under the monitor.
CanLock(t, s) == holder[s] \in {NoThread, t}
Finished(d, status) == [dwpts EXCEPT ![d] = [queue |-> 0, docs |-> 0, status |-> status]]
------------------------------------------------------------------------------
(* Control flow shared by all callers.                                     *)

Goto(t, pc) == call' = [call EXCEPT ![t].pc = pc]
At(pc, s, d, ctx, nested, left) ==
    [pc |-> pc, state |-> s, dwpt |-> d, ctx |-> ctx, nested |-> nested, left |-> left]
MonitorFree == monitor = NoThread

\* What follows doFlush in each of its callers: preUpdate and flushAllThreads
\* ask for the next pending flush, the others return.
AfterDoFlush(ctx) ==
    IF ctx \in {"preUpdate", "fullFlush"} THEN At("next", None, None, ctx, FALSE, 0) ELSE Idle

\* What follows when nextPendingFlush has nothing: within doFlush that returns.
NothingPending(t) ==
    LET ctx == call[t].ctx IN
    IF call[t].nested THEN AfterDoFlush(ctx)
    ELSE CASE ctx = "preUpdate" -> At("stall", None, None, ctx, FALSE, 0)
           [] ctx = "fullFlush" -> At("waitForFlush", None, None, ctx, FALSE, 0)
           [] ctx = "flushNext" -> At("largest", None, None, ctx, FALSE, 0)
           [] OTHER -> Idle

\* nextPendingFlush: the queue is polled under the monitor, and what the scan
\* needs is read there.
NextPendingFlush(t) ==
    /\ call[t].pc = "next" /\ MonitorFree
    /\ fc' = PollFlush(fc)
    /\ IF Polled(fc) # None
         THEN /\ call' = [call EXCEPT ![t].pc = "flush", ![t].dwpt = Polled(fc)]
              /\ UpdateStallState
         ELSE /\ call' = [call EXCEPT ![t] =
                    IF fc.numPending > 0 /\ ~fc.fullFlush
                      THEN [call[t] EXCEPT !.pc = "scan", !.state = 1, !.left = ActiveThreadStateCount]
                      ELSE NothingPending(t)]
              /\ UNCHANGED stallVars
    /\ UNCHANGED <<poolVars, monitor, queueVars, dwpts, seqVars, made>>

\* The scan of nextPendingFlush, outside the monitor but for tryCheckoutForFlush.
ScanPending(t) ==
    LET s == call[t].state IN
    /\ call[t].pc = "scan"
    /\ IF s > call[t].left
         THEN /\ call' = [call EXCEPT ![t] = NothingPending(t)]
              /\ UNCHANGED <<fc, stallVars>>
       ELSE IF ~fc.states[s].flushPending
         THEN /\ call' = [call EXCEPT ![t].state = s + 1]
              /\ UNCHANGED <<fc, stallVars>>
       ELSE /\ MonitorFree
            /\ IF CanLock(t, s)
                 THEN /\ fc' = CheckOut(fc, s)
                      /\ call' = [call EXCEPT ![t] =
                            At("flush", None, fc.states[s].dwpt, call[t].ctx, call[t].nested, 0)]
                 ELSE /\ call' = [call EXCEPT ![t].state = s + 1]
                      /\ UNCHANGED fc
            /\ UpdateStallState
    /\ UNCHANGED <<poolVars, monitor, queueVars, dwpts, seqVars, made>>

\* One round of the loop in doFlush up to doAfterFlush.  With backlog the
\* ticket queue has as many tickets as there are ThreadStates.
Flush(t, backlog) ==
    LET d == call[t].dwpt IN
    /\ call[t].pc = "flush" /\ MonitorFree
    /\ fc' = AfterFlush(fc, d)
    /\ UpdateStallState
    /\ dwpts' = Finished(d, "flushed")
    /\ call' = [call EXCEPT ![t] =
          IF backlog THEN AfterDoFlush(call[t].ctx) ELSE At("next", None, None, call[t].ctx, TRUE, 0)]
    /\ UNCHANGED <<poolVars, monitor, queueVars, seqVars, made>>
------------------------------------------------------------------------------
(* DocumentsWriter::updateDocument.                                        *)

StartUpdate(t) ==
    /\ call[t].pc = "idle"
    /\ made.docs < MaxDocs
    /\ made' = [made EXCEPT !.docs = made.docs + 1]
    /\ call' = [call EXCEPT ![t] =
          IF stalled \/ (Len(fc.flushQueue) > 0 /\ CheckPendingFlush)
            THEN At("next", None, None, "preUpdate", FALSE, 0)
            ELSE At("obtain", None, None, "none", FALSE, 0)]
    /\ UNCHANGED <<fc, poolVars, stallVars, monitor, queueVars, dwpts, seqVars>>

\* preUpdate after waitIfStalled: are there flushes to help with?
AfterStall(t) == IF Len(fc.flushQueue) # 0 THEN At("next", None, None, "preUpdate", FALSE, 0)
                 ELSE At("obtain", None, None, "none", FALSE, 0)

WaitIfStalled(t) ==
    /\ call[t].pc = "stall"
    /\ IF stalled
         THEN Goto(t, "waiting") /\ stallWaiters' = stallWaiters \cup {t}
         ELSE call' = [call EXCEPT ![t] = AfterStall(t)] /\ UNCHANGED stallWaiters
    /\ UNCHANGED <<fc, poolVars, stalled, monitor, queueVars, dwpts, seqVars, made>>

\* The wait ends with a notification or after a second.
WakeUp(t) ==
    /\ call[t].pc = "waiting"
    /\ call' = [call EXCEPT ![t] = AfterStall(t)]
    /\ stallWaiters' = stallWaiters \ {t}
    /\ UNCHANGED <<fc, poolVars, stalled, monitor, queueVars, dwpts, seqVars, made>>

\* DocumentsWriterPerThreadPool::getAndLock: a new ThreadState, or the last one
\* that became free, in whose stead an initialized one is taken if it has no DWPT.
Obtain(t) ==
    LET n == Len(freeList)
        last == freeList[n]
        initialized == {i \in 1..(n - 1) : fc.states[freeList[i]].dwpt # None}
        first == CHOOSE i \in initialized : \A j \in initialized : i <= j
        swap == fc.states[last].dwpt = None /\ initialized # {} IN
    /\ call[t].pc = "obtain"
    /\ IF n = 0
         THEN /\ ~aborted
              /\ fc' = [fc EXCEPT !.states = Append(fc.states, Uninitialized)]
              /\ holder' = Append(holder, t)
              /\ call' = [call EXCEPT ![t] = At("lock", Len(holder'), None, "none", FALSE, 0)]
              /\ UNCHANGED freeList
         ELSE /\ freeList' = IF swap THEN [SubSeq(freeList, 1, n - 1) EXCEPT ![first] = last]
                             ELSE SubSeq(freeList, 1, n - 1)
              /\ call' = [call EXCEPT ![t] =
                    At("lock", IF swap THEN freeList[first] ELSE last, None, "none", FALSE, 0)]
              /\ UNCHANGED <<fc, holder>>
    /\ UNCHANGED <<aborted, stallVars, monitor, queueVars, dwpts, seqVars, made>>

\* addFlushableState: a DWPT with documents is checked out into the buffer, an
\* empty one is forgotten.
AddFlushable(f, s) ==
    LET d == f.states[s].dwpt
        g == IF f.states[s].flushPending THEN f ELSE SetFlushPending(f, s) IN
    IF numDocsInRAM(d) = 0 THEN [f EXCEPT !.states[s] = Uninitialized]
    ELSE [CheckOut(g, s) EXCEPT !.fullFlushBuffer = Append(f.fullFlushBuffer, d)]

\* obtainAndLock once the lock is there, and ensureInitialized: a stale DWPT is
\* enrolled for the full flush, and a new one bound to the current queue.
LockState(t) ==
    LET s == call[t].state
        stale == fc.states[s].dwpt # None /\ Stale(fc.states[s].dwpt)
        f == IF stale THEN AddFlushable(fc, s) ELSE fc
        old == IF stale /\ numDocsInRAM(fc.states[s].dwpt) = 0
                 THEN Finished(fc.states[s].dwpt, "empty") ELSE dwpts IN
    /\ call[t].pc = "lock"
    /\ CanLock(t, s)
    /\ stale => MonitorFree
    /\ holder' = [holder EXCEPT ![s] = t]
    /\ IF f.states[s].dwpt = None
         THEN /\ dwpts' = Append(old, [queue |-> deleteQueue, docs |-> 0, status |-> "live"])
              /\ fc' = [f EXCEPT !.states[s].dwpt = Len(dwpts')]
         ELSE fc' = f /\ UNCHANGED dwpts
    /\ IF stale THEN UpdateStallState ELSE UNCHANGED stallVars
    /\ Goto(t, "index")
    /\ UNCHANGED <<freeList, aborted, monitor, queueVars, seqVars, made>>

InRAM(d, n) == dwpts' = [dwpts EXCEPT ![d].docs = dwpts[d].docs + n]

\* DocumentsWriterPerThread::updateDocument: the document is in RAM and has a
\* sequence number of the DWPT's queue.
Index(t) ==
    LET d == fc.states[call[t].state].dwpt IN
    /\ call[t].pc = "index"
    /\ InRAM(d, 1)
    /\ numbered' = IF gap # 0 /\ (Stale(d) \/ ~MonitorFree) THEN numbered + 1 ELSE numbered
    /\ Goto(t, "after")
    /\ UNCHANGED <<fc, poolVars, stallVars, monitor, queueVars, gap, made>>

\* The document fails, before (n = 0) or after it counts; doAfterDocument is
\* not called and no number given out.
FailDocument(t, n) ==
    /\ call[t].pc = "index"
    /\ made.failed < MaxFailed
    /\ made' = [made EXCEPT !.failed = made.failed + 1]
    /\ InRAM(fc.states[call[t].state].dwpt, n)
    /\ call' = [call EXCEPT ![t].pc = "release", ![t].ctx = "failed"]
    /\ UNCHANGED <<fc, poolVars, stallVars, monitor, queueVars, seqVars>>

\* checkout: during a full flush a pending DWPT is blocked.
Blocks(f) == f.fullFlush

\* doAfterDocument with the checkout at its end.
AfterDocument(t) ==
    LET s == call[t].state IN
    /\ call[t].pc = "after" /\ MonitorFree
    /\ \E f \in {ApplyPolicy(CommitPerThreadBytes(fc, s), s)} :
          LET pending == f.states[s].flushPending
              blocked == Block(f, s) IN
          /\ fc' = IF ~pending THEN f ELSE IF Blocks(f) THEN PollFlush(blocked) ELSE CheckOut(f, s)
          /\ call' = [call EXCEPT ![t].pc = "release",
                ![t].dwpt = IF ~pending THEN None
                            ELSE IF Blocks(f) THEN Polled(blocked) ELSE f.states[s].dwpt]
    /\ UpdateStallState
    /\ UNCHANGED <<poolVars, monitor, queueVars, dwpts, seqVars, made>>

\* release, then postUpdate.
Release(t) ==
    /\ call[t].pc = "release"
    /\ holder' = [holder EXCEPT ![call[t].state] = NoThread]
    /\ freeList' = Append(freeList, call[t].state)
    /\ call' = [call EXCEPT ![t] =
          IF call[t].ctx = "failed" THEN Idle
          ELSE IF call[t].dwpt # None THEN At("flush", None, call[t].dwpt, "postUpdate", FALSE, 0)
          ELSE IF CheckPendingFlush THEN At("next", None, None, "postUpdate", FALSE, 0)
          ELSE Idle]
    /\ UNCHANGED <<fc, aborted, stallVars, monitor, queueVars, dwpts, seqVars, made>>
------------------------------------------------------------------------------
(* IndexWriter::flushNextBuffer: flushOneDWPT.                             *)

StartFlushNext(t) ==
    /\ call[t].pc = "idle"
    /\ made.next < MaxFlushNext
    /\ made' = [made EXCEPT !.next = made.next + 1]
    /\ call' = [call EXCEPT ![t] = At("next", None, None, "flushNext", FALSE, 0)]
    /\ UNCHANGED <<fc, poolVars, stallVars, monitor, queueVars, dwpts, seqVars>>

\* checkoutLargestNonPendingWriter, first its unsynchronized search.
FindLargest(t) ==
    /\ call[t].pc = "largest"
    /\ call' = [call EXCEPT ![t] = IF LargestNonPending(fc) = None THEN Idle
          ELSE At("lockLargest", LargestNonPending(fc), None, "flushNext", FALSE, 0)]
    /\ UNCHANGED <<fc, poolVars, stallVars, monitor, queueVars, dwpts, seqVars, made>>

\* nextPendingFlush within the monitor: nothing changes between poll and scan.
NextPending(t, f) ==
    LET pending == {s \in DOMAIN f.states : f.states[s].flushPending /\ CanLock(t, s)}
        first == CHOOSE s \in pending : \A o \in pending : s <= o IN
    IF f.flushQueue # <<>> THEN [f |-> PollFlush(f), d |-> Polled(f)]
    ELSE IF ~f.fullFlush /\ pending # {} THEN [f |-> CheckOut(f, first), d |-> f.states[first].dwpt]
    ELSE [f |-> f, d |-> None]

CheckOutLargest(t) ==
    LET s == call[t].state
        marked == IF fc.states[s].flushPending THEN fc ELSE SetFlushPending(fc, s)
        result ==
          IF fc.states[s].dwpt = None THEN NextPending(t, fc)
          ELSE IF fc.fullFlush
            THEN IF fc.states[s].flushPending THEN NextPending(t, Block(fc, s)) ELSE [f |-> fc, d |-> None]
          ELSE IF marked.states[s].flushPending
            THEN [f |-> CheckOut(marked, s), d |-> fc.states[s].dwpt]
          ELSE [f |-> fc, d |-> None] IN
    /\ call[t].pc = "lockLargest" /\ MonitorFree
    /\ holder[s] = NoThread
    /\ fc' = result.f
    /\ call' = [call EXCEPT ![t] = IF result.d = None THEN Idle
                                   ELSE At("flush", None, result.d, "flushNext", FALSE, 0)]
    /\ UpdateStallState
    /\ UNCHANGED <<poolVars, monitor, queueVars, dwpts, seqVars, made>>
------------------------------------------------------------------------------
(* DocumentsWriter::flushAllThreads and finishFullFlush.                   *)

\* The numbers markForFullFlush leaves free, one for each active ThreadState
\* and two more.
SeqNoGap == ActiveThreadStateCount + 2

\* markForFullFlush enters the monitor and reads the last number.
MarkForFullFlush ==
    /\ call[Main].pc = "idle" /\ MonitorFree
    /\ "fullFlush" \in MainCalls /\ made.main < MaxMain
    /\ made' = [made EXCEPT !.main = made.main + 1]
    /\ monitor' = Main
    /\ fc' = [fc EXCEPT !.fullFlush = TRUE]
    /\ numbered' = 0 /\ gap' = SeqNoGap
    /\ Goto(Main, "swap")
    /\ UNCHANGED <<poolVars, stallVars, queueVars, dwpts>>

\* The new queue is there, and the monitor left.
SwapQueue ==
    /\ call[Main].pc = "swap"
    /\ deleteQueue' = deleteQueue + 1
    /\ monitor' = NoThread
    /\ call' = [call EXCEPT ![Main] =
                   At("mark", 1, None, "fullFlush", FALSE, ActiveThreadStateCount)]
    /\ UNCHANGED <<fc, poolVars, stallVars, currentFullFlushDelQueue, dwpts, seqVars, made>>

\* One round of the loop over the ThreadStates, under the state's lock.
MarkState ==
    LET s == call[Main].state
        stale == fc.states[s].dwpt # None /\ Stale(fc.states[s].dwpt) IN
    /\ call[Main].pc = "mark" /\ s <= call[Main].left
    /\ holder[s] = NoThread
    /\ call' = [call EXCEPT ![Main].state = s + 1]
    /\ IF stale
         THEN /\ MonitorFree
              /\ fc' = AddFlushable(fc, s)
              /\ dwpts' = IF numDocsInRAM(fc.states[s].dwpt) = 0
                            THEN Finished(fc.states[s].dwpt, "empty") ELSE dwpts
              /\ UpdateStallState
         ELSE UNCHANGED <<fc, dwpts, stallVars>>
    /\ UNCHANGED <<poolVars, monitor, queueVars, seqVars, made>>

\* pruneBlockedQueue(flushingQueue), then fullFlushBuffer moves to flushQueue.
MovedToQueue(f) == LET g == Prune(f, deleteQueue - 1) IN
    [g EXCEPT !.flushQueue = g.flushQueue \o g.fullFlushBuffer, !.fullFlushBuffer = <<>>]

EndMark ==
    /\ call[Main].pc = "mark" /\ call[Main].state > call[Main].left
    /\ MonitorFree
    /\ fc' = MovedToQueue(fc)
    /\ UpdateStallState
    /\ Goto(Main, "setQueue")
    /\ UNCHANGED <<poolVars, monitor, queueVars, dwpts, seqVars, made>>

SetFlushingDeleteQueue ==
    /\ call[Main].pc = "setQueue"
    /\ currentFullFlushDelQueue' = deleteQueue - 1
    /\ call' = [call EXCEPT ![Main] = At("next", None, None, "fullFlush", FALSE, 0)]
    /\ UNCHANGED <<fc, poolVars, stallVars, monitor, deleteQueue, dwpts, seqVars, made>>

\* Mutant: the loop has found nothing more, so it must all be flushed.
NothingFlushingAssumed == TRUE

\* The condition waitForFlush waits for.
NothingFlushing == fc.flushingWriters = {}

WaitForFlush ==
    /\ call[Main].pc = "waitForFlush" /\ MonitorFree
    /\ NothingFlushing
    /\ Goto(Main, "flushed")
    /\ UNCHANGED <<fc, poolVars, stallVars, monitor, queueVars, dwpts, seqVars, made>>

EndFullFlush(f, status) ==
    /\ call[Main].pc = "flushed" /\ MonitorFree
    /\ currentFullFlushDelQueue' = 0
    /\ fc' = [f EXCEPT !.fullFlush = FALSE]
    /\ UpdateStallState
    /\ numbered' = 0 /\ gap' = 0
    /\ call' = [call EXCEPT ![Main] = Idle]
    /\ dwpts' = [d \in DOMAIN dwpts |->
                    IF d \in PendingDwpts(fc) \ PendingDwpts(f)
                      THEN [queue |-> 0, docs |-> 0, status |-> status] ELSE dwpts[d]]
    /\ UNCHANGED <<poolVars, monitor, deleteQueue, made>>

FinishFullFlush == EndFullFlush(Prune(fc, deleteQueue), "flushed")
AbortFullFlushes == EndFullFlush(AbortPending(fc), "aborted")
------------------------------------------------------------------------------
(* DocumentsWriter::lockAndAbortAll, in IndexWriter::deleteAll.            *)

\* The ThreadStates are counted before new ones are shut out.
StartDeleteAll ==
    /\ call[Main].pc = "idle"
    /\ "deleteAll" \in MainCalls /\ made.main < MaxMain
    /\ made' = [made EXCEPT !.main = made.main + 1]
    /\ call' = [call EXCEPT ![Main] =
                   At("setAbort", 1, None, "deleteAll", FALSE, ActiveThreadStateCount)]
    /\ UNCHANGED <<fc, poolVars, stallVars, monitor, queueVars, dwpts, seqVars>>

SetAbort ==
    /\ call[Main].pc = "setAbort"
    /\ aborted' = TRUE
    /\ Goto(Main, "abort")
    /\ UNCHANGED <<fc, holder, freeList, stallVars, monitor, queueVars, dwpts, seqVars, made>>

\* abortThreadState; the lock is kept.
AbortState ==
    LET s == call[Main].state IN
    /\ call[Main].pc = "abort" /\ s <= call[Main].left
    /\ holder[s] = NoThread /\ MonitorFree
    /\ holder' = [holder EXCEPT ![s] = Main]
    /\ fc' = DoOnAbort(fc, s)
    /\ dwpts' = IF fc.states[s].dwpt = None THEN dwpts ELSE Finished(fc.states[s].dwpt, "aborted")
    /\ UpdateStallState
    /\ call' = [call EXCEPT ![Main].state = s + 1]
    /\ UNCHANGED <<freeList, aborted, monitor, queueVars, seqVars, made>>

AbortPendingFlushes ==
    /\ call[Main].pc = "abort" /\ call[Main].state > call[Main].left
    /\ MonitorFree
    /\ fc' = AbortPending(fc)
    /\ dwpts' = [d \in DOMAIN dwpts |-> IF d \in PendingDwpts(fc)
                    THEN [queue |-> 0, docs |-> 0, status |-> "aborted"] ELSE dwpts[d]]
    /\ UpdateStallState
    /\ Goto(Main, "waitAbort")
    /\ UNCHANGED <<poolVars, monitor, queueVars, seqVars, made>>

WaitForAbort ==
    /\ call[Main].pc = "waitAbort" /\ MonitorFree
    /\ NothingFlushing
    /\ Goto(Main, "cleared")
    /\ UNCHANGED <<fc, poolVars, stallVars, monitor, queueVars, dwpts, seqVars, made>>

\* Mutant: new ThreadStates stay shut out.
UnlockAllNoClear ==
    /\ call[Main].pc = "cleared"
    /\ holder' = [s \in DOMAIN holder |-> IF holder[s] = Main THEN NoThread ELSE holder[s]]
    /\ call' = [call EXCEPT ![Main] = Idle]
    /\ UNCHANGED <<fc, freeList, aborted, stallVars, monitor, queueVars, dwpts, seqVars, made>>

\* deleteAll is done and closes what lockAndAbortAll returned.
UnlockAll ==
    /\ call[Main].pc = "cleared"
    /\ aborted' = FALSE
    /\ holder' = [s \in DOMAIN holder |-> IF holder[s] = Main THEN NoThread ELSE holder[s]]
    /\ call' = [call EXCEPT ![Main] = Idle]
    /\ UNCHANGED <<fc, freeList, stallVars, monitor, queueVars, dwpts, seqVars, made>>
------------------------------------------------------------------------------
FlushSteps(t) == NextPendingFlush(t) \/ ScanPending(t) \/ \E backlog \in BOOLEAN : Flush(t, backlog)

ThreadSteps(t) ==
    \/ FlushSteps(t)
    \/ WaitIfStalled(t) \/ WakeUp(t) \/ Obtain(t) \/ LockState(t)
    \/ Index(t) \/ AfterDocument(t) \/ Release(t)
    \/ FindLargest(t) \/ CheckOutLargest(t)

MainSteps ==
    \/ FlushSteps(Main)
    \/ SwapQueue \/ MarkState \/ EndMark \/ SetFlushingDeleteQueue \/ WaitForFlush
    \/ FinishFullFlush \/ AbortFullFlushes
    \/ SetAbort \/ AbortState \/ AbortPendingFlushes \/ WaitForAbort \/ UnlockAll

Next ==
    \/ \E t \in Threads : \/ ThreadSteps(t) \/ StartUpdate(t) \/ StartFlushNext(t)
                          \/ \E n \in 0..1 : FailDocument(t, n)
    \/ MainSteps \/ MarkForFullFlush \/ StartDeleteAll

Spec == Init /\ [][Next]_vars

\* Somebody goes on with a call that has begun.  No thread is favoured: whatever
\* steps a call waits for, some thread can take one.
FairSpec == Spec /\ WF_vars((\E t \in Threads : ThreadSteps(t)) \/ MainSteps)
------------------------------------------------------------------------------
Pcs == {"idle", "next", "scan", "flush", "stall", "waiting", "obtain", "lock", "index", "after",
        "release", "largest", "lockLargest", "swap", "mark", "setQueue", "waitForFlush",
        "flushed", "setAbort", "abort", "waitAbort", "cleared"}
StateRec == [dwpt : Nat, flushPending : BOOLEAN, bytesUsed : Nat]
Flushing == [dwpt : Nat, bytes : Nat]

\* The fields have their types; bytes and numPending never become negative.
TypeOK ==
    /\ fc.states \in Seq(StateRec)
    /\ fc.activeBytes \in Nat /\ fc.flushBytes \in Nat /\ fc.numPending \in Nat
    /\ fc.flushingWriters \subseteq Flushing
    /\ fc.flushQueue \in Seq(Nat) /\ fc.fullFlushBuffer \in Seq(Nat)
    /\ fc.blockedFlushes \in Seq(Flushing)
    /\ fc.fullFlush \in BOOLEAN
    /\ holder \in [States -> Callers \cup {NoThread}]
    /\ freeList \in Seq(States)
    /\ aborted \in BOOLEAN /\ stalled \in BOOLEAN /\ stallWaiters \subseteq Threads
    /\ monitor \in {NoThread, Main}
    /\ deleteQueue \in Nat /\ currentFullFlushDelQueue \in Nat
    /\ dwpts \in Seq([queue : Nat, docs : Nat, status : {"live", "flushed", "aborted", "empty"}])
    /\ call \in [Callers -> [pc : Pcs, state : Nat, dwpt : Nat, nested : BOOLEAN, left : Nat,
                             ctx : {"none", "preUpdate", "postUpdate", "fullFlush", "flushNext",
                                    "deleteAll", "failed"}]]
    /\ numbered \in Nat /\ gap \in Nat

InState(d) == {s \in States : fc.states[s].dwpt = d}
IsBlocked(d) == {i \in DOMAIN fc.blockedFlushes : fc.blockedFlushes[i].dwpt = d}
IsFlushing(d) == {w \in fc.flushingWriters : w.dwpt = d}
Queued(d) == {i \in DOMAIN fc.flushQueue : fc.flushQueue[i] = d}
Buffered(d) == {i \in DOMAIN fc.fullFlushBuffer : fc.fullFlushBuffer[i] = d}
InHand(d) == {t \in Callers : call[t].dwpt = d}
Live == {d \in DOMAIN dwpts : dwpts[d].status = "live"}

\* A DWPT is never lost and never flushed twice: until it is flushed it is in
\* one ThreadState, or blocked, or flushing; and one that is flushing waits in
\* one queue or is in the hands of one thread, whatever way each of them took it.
OnePlace ==
    /\ \A d \in Live :
          /\ Cardinality(InState(d)) + Cardinality(IsBlocked(d)) + Cardinality(IsFlushing(d)) = 1
          /\ Cardinality(Queued(d)) + Cardinality(Buffered(d)) + Cardinality(InHand(d))
                = Cardinality(IsFlushing(d))
    /\ \A s \in States : fc.states[s].dwpt \in Live \cup {None}
    /\ \A w \in fc.flushingWriters : w.dwpt \in Live

PendingStates == {s \in States : fc.states[s].flushPending}
BytesOf(states) == SumFunction([s \in states |-> fc.states[s].bytesUsed])

\* The two counters that decide on stalling are the bytes of the ThreadStates
\* that are not pending, and the bytes of everything on its way to a flush: a
\* byte that leaks would throttle indexing for good.
BytesAreCounted ==
    /\ fc.activeBytes = BytesOf(States \ PendingStates)
    /\ fc.flushBytes = BytesOf(PendingStates) + SumFunction([w \in fc.flushingWriters |-> w.bytes])
                       + SumFunction([i \in DOMAIN fc.blockedFlushes |-> fc.blockedFlushes[i].bytes])

\* numPending is the number of pending ThreadStates; nextPendingFlush scans the
\* states only if it is positive.
PendingIsCounted == fc.numPending = Cardinality(PendingStates)

\* The counters kept by a dozen operations of several threads say what is there
\* to be flushed, whatever commits, policies, checkouts, blocks and failures
\* have moved (DocumentsWriterFlushControl.cpp:106-123, 282-383).
CountersBalance == BytesAreCounted /\ PendingIsCounted

\* What the assertions of markForFullFlush, addFlushableState and
\* finishFullFlush say: only during the marking are there ThreadStates with a
\* DWPT of the old queue; in the end nothing is queued or flushing, and only
\* DWPTs of the new queue are blocked.
FullFlushAsserts ==
    /\ call[Main].pc \notin {"mark", "swap"} =>
          /\ \A s \in States : fc.states[s].dwpt # None => ~Stale(fc.states[s].dwpt)
          /\ fc.fullFlushBuffer = <<>>
    /\ call[Main].pc = "flushed" =>
          /\ fc.flushQueue = <<>> /\ fc.flushingWriters = {}
          /\ \A i \in DOMAIN fc.blockedFlushes : ~Stale(fc.blockedFlushes[i].dwpt)
    /\ ~fc.fullFlush => fc.blockedFlushes = <<>>

\* assertTicketQueueModification in doFlush: "only modifications from the
\* current flushing queue are permitted while doing a full flush".
OnlyFlushingQueue ==
    \A t \in Callers : call[t].pc = "flush" /\ currentFullFlushDelQueue # 0 =>
        dwpts[call[t].dwpt].queue = currentFullFlushDelQueue

\* When flushAllThreads is through, nothing that was indexed before the swap
\* of the queues is still in RAM, nothing of the new queue was flushed with it,
\* no assertion has failed on the way, and at no moment a DWPT was lost or taken twice.
FullFlushIsComplete ==
    /\ OnePlace
    /\ call[Main].pc = "flushed" => \A d \in Live : ~Stale(d)
    /\ OnlyFlushingQueue
    /\ FullFlushAsserts

\* The assertion of getNextSequenceNumber: the operations that still get a
\* number from the old queue after markForFullFlush has read its last one fit
\* into the gap, so that the numbers of the new queue are all larger.
NumbersFitGap == gap # 0 => numbered <= gap

\* Whoever changes the bytes passes the stall state on before leaving the
\* monitor: indexing is throttled exactly while too much waits to be flushed
\* and a flush can help, in every order of documents, flushes and aborts.
StalledIsCurrent == stalled <=> StallState(fc)

\* No update, full flush or deleteAll hangs: not in the stall control, not in
\* the loop that helps with flushing, not on the lock of a ThreadState, and not
\* while it waits for the flushes of others (DocumentsWriterStallControl.cpp:24-45,
\* DocumentsWriterFlushControl.cpp:270-279, 503-528).
CallsReturn == \A t \in Callers : (call[t].pc # "idle") ~> (call[t].pc = "idle")
==============================================================================
