--------------------------- MODULE MergeScheduling ---------------------------
(***************************************************************************)
(* Merges from their registration by the writer, through the threads of    *)
(* ConcurrentMergeScheduler, to mergeFinish: stalled producers, paused     *)
(* merges, forceMerge, deleteAll, rollback, close, and merges that fail,   *)
(* which close the writer from within a merge thread.                      *)
(*                                                                         *)
(* A step is what happens under the writer's monitor.  The monitor of the  *)
(* scheduler is the variable cms, commitLock is one too.  A thread waits   *)
(* by not being able to go on: every wait of the code is a timed one in a  *)
(* loop, or a join.                                                        *)
(***************************************************************************)
EXTENDS Integers, Sequences, FiniteSets, TLC, FiniteSetsExt, SequencesExt, Functions

CONSTANTS
  Threads,           \* the threads of the application
  None,              \* no thread
  MaxSegmentCount,   \* the argument of forceMerge
  AtOnce,            \* maxMergeAtOnceExplicit of the merge policy
  BigSize,           \* MIN_BIG_MERGE_MB, in units of the sizes below
  MaxMerges,         \* more merges than a workload may register
  Workloads          \* instances: sizes of the segments at the start, settings of
                     \* the scheduler, how many calls of each kind, what may fail

Calls == {"flush", "commit", "forceMerge", "deleteAll", "rollback", "close"}
Kinds == Calls \cup {"docs", "launchFails", "mergeFails"}

ASSUME MergeSchedulingAssumption ==
  /\ {MaxSegmentCount, AtOnce} \subseteq Nat \ {0}
  /\ \A w \in Workloads :   \* setMaxMergesAndThreads
       /\ 0 < w.max.threads /\ w.max.threads <= w.max.merges
       /\ w.sizes \in Seq(Nat) /\ Len(w.sizes) <= 1000   \* flushed ones have later names
       /\ w.left \in [Kinds -> Nat]
  /\ AtOnce > 1 /\ None \notin Threads \cup Nat
  /\ Threads \cap Nat = {}   \* merge threads have numbers

VARIABLES
  iw,          \* what the monitor of the writer protects
  at,          \* where each thread is; a merge thread has the number of its merge
  call,        \* what each thread of the application is doing
  mergeThreads,
  paused,      \* the merge threads with a rate of 0 MB per second
  cms,         \* who holds the monitor of the scheduler
  commitLock,  \* and who holds commitLock
  max,         \* maxMergeCount and maxThreadCount of the scheduler
  left         \* the rest of the workload

vars == <<iw, at, call, mergeThreads, paused, cms, commitLock, max, left>>

Init ==
  \E w \in Workloads :
    /\ iw = [infos |-> w.sizes, merges |-> <<>>, pending |-> <<>>, running |-> {}, merging |-> {},
             toMerge |-> {}, mergeGen |-> 0, exceptions |-> {},
             stop |-> FALSE, closing |-> FALSE, closed |-> FALSE, tragedy |-> FALSE]
    /\ at = [t \in Threads |-> "idle"]
    /\ call = [t \in Threads |-> "none"]
    /\ mergeThreads = {}
    /\ paused = {}
    /\ cms = None
    /\ commitLock = None
    /\ max = w.max
    /\ left = w.left

SpendMany(k, n) == left[k] >= n /\ left' = [left EXCEPT ![k] = @ - n]
Spend(k) == SpendMany(k, 1)

\* Function f, with value v at x
With(f, x, v) == [y \in DOMAIN f \cup {x} |-> IF y = x THEN v ELSE f[y]]

Alive(a) == at[a] \notin {"unborn", "dead"}
Forced(w, m) == w.merges[m].forced

-----------------------------------------------------------------------------
\* Registering merges.

\* Mutant: segments that are already merging are taken again.
RegisterAgain(w, segs, forced) ==
  [w EXCEPT !.merges = Append(@, [segs |-> segs, forced |-> forced, registered |-> TRUE,
              aborted |-> FALSE, gen |-> w.mergeGen, named |-> FALSE,
              size |-> MapThenSumSet(LAMBDA s : w.infos[s], segs)]),
            !.pending = Append(@, Len(w.merges) + 1),
            !.merging = @ \cup segs]

\* registerMerge.  A merge with a segment of the forced merge is forced as well.
Register(w, segs, forced) ==
  IF segs \cap w.merging # {} \/ ~(segs \subseteq DOMAIN w.infos) THEN w
  ELSE [w EXCEPT
          !.merges = Append(@, [segs |-> segs, registered |-> TRUE, aborted |-> FALSE,
                                forced |-> forced \/ segs \cap w.toMerge # {},
                                gen |-> w.mergeGen, named |-> FALSE,
                                size |-> MapThenSumSet(LAMBDA s : w.infos[s], segs)]),
          !.pending = Append(@, Len(w.merges) + 1),
          !.merging = @ \cup segs]

\* What findMerges may return: the merge policy picks two segments of one size,
\* and does not look whether they are merging already.
FoundMerges(w) ==
  LET pairs == {s \in SUBSET DOMAIN w.infos :
                  Cardinality(s) = 2 /\ \A a, b \in s : w.infos[a] = w.infos[b]}
  IN  {<<>>} \cup {<<s>> : s \in pairs}

\* TieredMergePolicy.findForcedMerges: full merges of the smallest segments, and
\* a last smaller one when no forced merge is running any more.  The segments
\* have no deletions, so that a single one counts as merged.
ForcedMerges(w) ==
  LET wanted   == w.toMerge \cap DOMAIN w.infos
      eligible == wanted \ w.merging
      Before(s) == {r \in eligible : \/ w.infos[r] < w.infos[s]
                                     \/ (w.infos[r] = w.infos[s] /\ r > s)}
      n        == Cardinality(eligible)
      full     == (n - MaxSegmentCount + 1) \div AtOnce
      Smallest(k, skip) ==
        {s \in eligible : Cardinality(Before(s)) \in skip .. skip + k - 1}
  IN  IF n <= MaxSegmentCount THEN <<>>
      ELSE IF full > 0 THEN [i \in 1 .. full |-> Smallest(AtOnce, (i - 1) * AtOnce)]
      ELSE IF wanted \cap w.merging = {} THEN <<Smallest(n - MaxSegmentCount + 1, 0)>>
      ELSE <<>>

RegisterAll(w, specification, forced) ==
  LET after[i \in 0 .. Len(specification)] ==
        IF i = 0 THEN w ELSE Register(after[i - 1], specification[i], forced)
  IN  after[Len(specification)]

\* updatePendingMerges: what the writer may be afterwards.
UpdatePendingMerges(w, forced) ==
  IF w.stop \/ w.tragedy THEN {w}
  ELSE IF forced THEN {RegisterAll(w, ForcedMerges(w), TRUE)}
  ELSE {RegisterAll(w, specification, FALSE) : specification \in FoundMerges(w)}

\* mergeFinish, which may be called twice
MergeFinish(w, m) ==
  [w EXCEPT !.merging = IF w.merges[m].registered THEN @ \ w.merges[m].segs ELSE @,
            !.merges[m].registered = FALSE,
            !.running = @ \ {m}]

\* The first half of abortMerges, which then waits until no merge is running.
AbortMerges(w) ==
  LET given == Range(w.pending)   \* mergeFinish is called for each of them
  IN  [w EXCEPT !.stop = TRUE, !.pending = <<>>, !.running = @ \ given,
                !.merging = @ \ UNION {w.merges[m].segs :
                                         m \in {n \in given : w.merges[n].registered}},
                !.merges = [m \in DOMAIN @ |->
                  [w.merges[m] EXCEPT !.registered = @ /\ m \notin given,
                                      !.aborted = @ \/ m \in w.running \cup given]]]

AddException(w, m) ==
  IF w.merges[m].gen = w.mergeGen THEN [w EXCEPT !.exceptions = @ \cup {m}] ELSE w

-----------------------------------------------------------------------------
\* ConcurrentMergeScheduler.

\* updateMergeThreads: the largest of the big merges are paused.
Paused(w, threads) ==
  LET big == {m \in threads : w.merges[m].size >= BigSize}
      Larger(m) == {n \in big : \/ w.merges[n].size > w.merges[m].size
                                \/ (w.merges[n].size = w.merges[m].size /\ n < m)}
  IN  {m \in big : Cardinality(Larger(m)) < Cardinality(big) - max.threads}

MergeThreadCount(a) ==
  Cardinality({m \in mergeThreads \ {a} : Alive(m) /\ ~iw.merges[m].aborted})

TooMany(a) == iw.pending # <<>> /\ MergeThreadCount(a) >= max.merges

\* Where a thread goes when the scheduler's merge() returns, and when it throws.
AfterFlush(t) ==
  CASE call[t] \in {"flush", "commit"} -> "return"
    [] call[t] = "forceMerge" -> "mark"
    [] call[t] = "close" -> "drain"
    [] call[t] = "lastCommit" -> "lock"

AfterMerge(a) ==
  CASE a \notin Threads -> "exit"
    [] a \in Threads /\ at[a] = "mergeForced" -> "awaitForced"
    [] a \in Threads /\ at[a] = "drain" -> "awaitMerges"
    [] a \in Threads /\ at[a] = "merge" -> AfterFlush(a)

Throws(a) == IF a \notin Threads THEN "exit"
             ELSE IF call[a] \in {"close", "lastCommit"} THEN "lock" ELSE "return"

\* merge() is called after a flush, by forceMerge, by waitForMerges and at the
\* end of a merge thread.
Scheduling(a) == at[a] \in {"merge", "mergeForced", "drain"}

\* merge(), one round of its loop: a thread of the application waits while there
\* are too many merges, a merge thread gives up.  The monitor is kept until the
\* call ends or waits.
Stall(a) ==
  /\ Scheduling(a) /\ cms = a
  /\ TooMany(a) /\ a \in Threads
  /\ cms' = None
  /\ UNCHANGED <<iw, at, call, mergeThreads, paused, commitLock, max, left>>

EndScheduling(a) ==
  /\ Scheduling(a) /\ cms \in {None, a}
  /\ iw.pending = <<>> \/ (TooMany(a) /\ a \notin Threads)
  /\ at' = [at EXCEPT ![a] = AfterMerge(a)]
  /\ cms' = None
  /\ UNCHANGED <<iw, call, mergeThreads, paused, commitLock, left, max>>

HasRoom(a) == ~TooMany(a)

\* Mutant: the merge stays pending.
PeekNextMerge(w) == [w EXCEPT !.running = @ \cup {Head(w.pending)}]

GetNextMerge(w) == [w EXCEPT !.pending = Tail(@), !.running = @ \cup {Head(w.pending)}]

\* getNextMerge and the start of its thread.  If the thread cannot be started
\* the merge is given up, and the caller learns of it.
Launch(a) ==
  /\ Scheduling(a) /\ cms \in {None, a}
  /\ iw.pending # <<>> /\ HasRoom(a)
  /\ LET m == Head(iw.pending)
         w == GetNextMerge(iw)
     IN  \/ /\ iw' = w
            /\ at' = With(at, m, "init")
            /\ mergeThreads' = {n \in mergeThreads : Alive(n)} \cup {m}
            /\ paused' = Paused(w, mergeThreads')
            /\ cms' = a
            /\ UNCHANGED left
         \/ /\ Spend("launchFails")
            /\ iw' = MergeFinish(w, m)
            /\ at' = [b \in DOMAIN at \cup {m} |->
                        IF b = a THEN Throws(a) ELSE IF b = m THEN "unborn" ELSE at[b]]
            /\ mergeThreads' = mergeThreads \cup {m}
            /\ cms' = None
            /\ UNCHANGED paused
  /\ UNCHANGED <<call, commitLock, max>>

-----------------------------------------------------------------------------
\* A merge thread, first as MergeThread.run runs IndexWriter.merge.

\* mergeInit; when it fails it unregisters the merge before the failure is noted.
MergeInit(m) ==
  /\ at[m] = "init"
  /\ \/ /\ ~iw.tragedy
        /\ iw' = IF iw.merges[m].aborted THEN iw
                 ELSE [iw EXCEPT !.merges[m].named = TRUE]
        /\ at' = [at EXCEPT ![m] = "writing"]
        /\ UNCHANGED left
     \/ /\ (iw.tragedy /\ UNCHANGED left) \/ Spend("mergeFails")
        /\ iw' = MergeFinish(iw, m)
        /\ at' = [at EXCEPT ![m] = "throws"]
  /\ UNCHANGED <<call, mergeThreads, paused, cms, commitLock, max>>

\* mergeMiddle up to commitMerge.  MergeRateLimiter.pause holds a paused merge
\* until its rate changes or it is aborted.
MergeMiddle(m) ==
  /\ at[m] = "writing"
  /\ IF iw.merges[m].aborted
     THEN at' = [at EXCEPT ![m] = "stopped"] /\ UNCHANGED left
     ELSE /\ m \notin paused
          /\ \/ at' = [at EXCEPT ![m] = "written"] /\ UNCHANGED left
             \/ at' = [at EXCEPT ![m] = "throws"] /\ Spend("mergeFails")
  /\ UNCHANGED <<iw, call, mergeThreads, paused, cms, commitLock, max>>

\* Mutant: the merged segment is not among those of a forced merge.
CascadeNever(w, m, segment) == w.toMerge

\* The last lines of commitMerge: a forced merge goes on with its result.
Cascade(w, m, segment) == IF Forced(w, m) THEN w.toMerge \cup {segment} ELSE w.toMerge

\* commitMerge; the segment that merge m writes is -m.
CommitMerge(m) ==
  /\ at[m] = "written"
  /\ \/ iw.tragedy /\ at' = [at EXCEPT ![m] = "throws"] /\ UNCHANGED iw
     \/ /\ ~iw.tragedy /\ iw.merges[m].aborted
        /\ at' = [at EXCEPT ![m] = "merged"] /\ UNCHANGED iw
     \/ /\ ~iw.tragedy /\ ~iw.merges[m].aborted
        /\ at' = [at EXCEPT ![m] = "merged"]
        /\ iw' = [iw EXCEPT
                    !.infos = With(Restrict(@, DOMAIN @ \ iw.merges[m].segs),
                                   -m, iw.merges[m].size),
                    !.toMerge = Cascade(iw, m, -m)]
  /\ UNCHANGED <<call, mergeThreads, paused, cms, commitLock, left, max>>

\* handleMergeException: an exception of an earlier forced merge is not kept, and
\* only an abort ends here.
HandleMergeException(m) ==
  /\ at[m] \in {"throws", "stopped"}
  /\ iw' = AddException(iw, m)
  /\ at' = [at EXCEPT ![m] = IF at[m] = "throws" THEN "failed" ELSE "aborted"]
  /\ UNCHANGED <<call, mergeThreads, paused, cms, commitLock, left, max>>

\* The last block of merge(): mergeFinish, and perhaps more merges.
FinishMerge(m) ==
  /\ at[m] \in {"failed", "aborted", "merged"}
  /\ LET w == MergeFinish(iw, m)
         again == /\ at[m] = "merged" /\ ~w.merges[m].aborted
                  /\ Forced(w, m) \/ (~w.closed /\ ~w.closing)
     IN  iw' \in (IF again THEN UpdatePendingMerges(w, Forced(w, m)) ELSE {w})
  /\ at' = [at EXCEPT ![m] = IF at[m] = "failed" THEN "tragic" ELSE "merge"]
  /\ UNCHANGED <<call, mergeThreads, paused, cms, commitLock, left, max>>

\* tragicEvent: only one thread gets to close the writer, the others go.
TragicEvent(m) ==
  /\ at[m] = "tragic"
  /\ iw' = [iw EXCEPT !.tragedy = TRUE]
  /\ at' = [at EXCEPT ![m] = "shouldClose"]
  /\ UNCHANGED <<call, mergeThreads, paused, cms, commitLock, left, max>>

ShouldClose(m) ==
  /\ at[m] = "shouldClose" /\ m \notin Threads
  /\ iw' = [iw EXCEPT !.closing = @ \/ ~iw.closed]
  /\ at' = [at EXCEPT ![m] = IF iw.closing \/ iw.closed THEN "exit" ELSE "lock"]
  /\ UNCHANGED <<call, mergeThreads, paused, cms, commitLock, left, max>>

\* The last block of MergeThread.run
Exit(m) ==
  /\ at[m] = "exit" /\ cms = None
  /\ at' = [at EXCEPT ![m] = "dead"]
  /\ mergeThreads' = {n \in mergeThreads \ {m} : Alive(n)}
  /\ paused' = Paused(iw, mergeThreads')
  /\ UNCHANGED <<iw, call, cms, commitLock, left, max>>

-----------------------------------------------------------------------------
\* rollbackInternal, by a thread that got to close the writer.

\* rollbackInternal begins with commitLock, and keeps it.
LockCommits(a) ==
  /\ at[a] = "lock" /\ commitLock \in {None, a}
  /\ commitLock' = a
  /\ iw' = AbortMerges(iw)
  /\ at' = [at EXCEPT ![a] = "awaitRunning"]
  /\ UNCHANGED <<call, mergeThreads, paused, cms, left, max>>

\* The end of abortMerges
MergesAborted(a) ==
  /\ at[a] = "awaitRunning" /\ iw.running = {}
  /\ at' = [at EXCEPT ![a] = "sync"]
  /\ UNCHANGED <<iw, call, mergeThreads, paused, cms, commitLock, left, max>>

\* sync: the scheduler joins the merge threads that are alive, itself excepted.
SyncMergeThreads(a) ==
  /\ at[a] = "sync" /\ cms = None
  /\ \A m \in mergeThreads \ {a} : ~Alive(m)
  /\ at' = [at EXCEPT ![a] = "setClosed"]
  /\ UNCHANGED <<iw, call, mergeThreads, paused, cms, commitLock, left, max>>

SetClosed(a) ==
  /\ at[a] = "setClosed"
  /\ iw' = [iw EXCEPT !.closed = TRUE, !.closing = FALSE]
  /\ at' = [at EXCEPT ![a] = IF a \in Threads THEN "return" ELSE "exit"]
  /\ commitLock' = None
  /\ UNCHANGED <<call, mergeThreads, paused, cms, left, max>>

-----------------------------------------------------------------------------
\* The threads of the application.

\* Every call but rollback and close begins with ensureOpen.
Begin(t) ==
  /\ at[t] = "idle"
  /\ \E k \in Calls :
       /\ Spend(k)
       /\ k \in {"rollback", "close"} \/ ~(iw.closed \/ iw.closing)
       /\ call' = [call EXCEPT ![t] = k]
       /\ at' = [at EXCEPT ![t] = CASE k \in {"flush", "forceMerge"} -> "flush"
                                    [] k = "commit" -> "lockCommit"
                                    [] k = "deleteAll" -> "deleteAll"
                                    [] k \in {"rollback", "close"} -> "shouldClose"]
  /\ UNCHANGED <<iw, mergeThreads, paused, cms, commitLock, max>>

\* shouldClose(true) waits for a thread that is closing already.
WaitToClose(t) ==
  /\ at[t] = "shouldClose" /\ t \in Threads
  /\ ~(iw.closing /\ ~iw.closed)
  /\ iw' = [iw EXCEPT !.closing = @ \/ ~iw.closed]
  /\ at' = [at EXCEPT ![t] = IF iw.closed THEN "return"
                             ELSE IF call[t] = "close" THEN "flush" ELSE "lock"]
  /\ UNCHANGED <<call, mergeThreads, paused, cms, commitLock, left, max>>

\* commitInternal, first half: commitLock and ensureOpen
LockCommit(t) ==
  /\ at[t] = "lockCommit" /\ commitLock = None
  /\ commitLock' = IF iw.closed THEN None ELSE t
  /\ at' = [at EXCEPT ![t] = IF iw.closed THEN "return" ELSE "flush"]
  /\ UNCHANGED <<iw, call, mergeThreads, paused, cms, left, max>>

\* Mutant: a commit proposes merges before it gives commitLock back.
KeepCommitLock(t) == commitLock

\* A commit gives commitLock back before it goes on to maybeMerge.
ReleaseCommitLock(t) == IF commitLock = t THEN None ELSE commitLock

FullFlushLocked(t) ==
  \E u \in Threads \ {t} : call[u] = "deleteAll" /\ at[u] = "awaitAborted"

\* doFlush, which publishes any number of segments, perhaps none; merges are
\* proposed if it did (changes that give no segment are left out).
Flush(t) ==
  /\ at[t] = "flush" /\ ~FullFlushLocked(t)
  /\ IF iw.closed \/ iw.tragedy
     THEN UNCHANGED <<iw, left>> /\ at' = [at EXCEPT ![t] = Throws(t)]
     ELSE \E n \in 0 .. left.docs :
            /\ SpendMany("docs", n)
            /\ LET flushed == 1001 + left'.docs .. 1000 + left.docs
               IN  iw' = [iw EXCEPT !.infos = [s \in DOMAIN @ \cup flushed |->
                                                 IF s \in flushed THEN 1 ELSE iw.infos[s]]]
            /\ at' = [at EXCEPT ![t] = IF n > 0 THEN "propose" ELSE AfterFlush(t)]
  /\ commitLock' = ReleaseCommitLock(t)
  /\ UNCHANGED <<call, mergeThreads, paused, cms, max>>

\* maybeMerge up to the scheduler's merge()
Propose(t) ==
  /\ at[t] \in {"propose", "proposeForced"}
  /\ IF iw.closed
     THEN UNCHANGED iw /\ at' = [at EXCEPT ![t] = Throws(t)]
     ELSE /\ iw' \in UpdatePendingMerges(iw, at[t] = "proposeForced")
          /\ at' = [at EXCEPT ![t] = IF at[t] = "propose" THEN "merge" ELSE "mergeForced"]
  /\ UNCHANGED <<call, mergeThreads, paused, cms, commitLock, left, max>>

\* forceMerge: every segment of now is to be merged, and every merge of now
\* becomes a forced one.
MarkForced(t) ==
  /\ at[t] = "mark"
  /\ LET marked == iw.running \cup Range(iw.pending)
     IN  iw' = [iw EXCEPT
           !.exceptions = {}, !.mergeGen = @ + 1,
           !.toMerge = DOMAIN iw.infos \cup {-m : m \in {n \in marked : iw.merges[n].named}},
           !.merges = [m \in DOMAIN @ |-> [iw.merges[m] EXCEPT !.forced = @ \/ m \in marked]]]
  /\ at' = [at EXCEPT ![t] = "proposeForced"]
  /\ UNCHANGED <<call, mergeThreads, paused, cms, commitLock, left, max>>

ForcedMergesLeft(w) == \E m \in w.running \cup Range(w.pending) : Forced(w, m)

\* forceMerge waits, and throws what a forced merge met; "done" is its normal end.
AwaitForced(t) ==
  /\ at[t] = "awaitForced"
  /\ LET failed == iw.tragedy \/ \E m \in iw.exceptions : Forced(iw, m)
     IN  /\ failed \/ ~ForcedMergesLeft(iw)
         /\ at' = [at EXCEPT ![t] =
                     IF failed \/ iw.closed \/ iw.closing THEN "return" ELSE "done"]
  /\ UNCHANGED <<iw, call, mergeThreads, paused, cms, commitLock, left, max>>

\* shutdown: waitForMerges ends, then the last commit
AwaitMerges(t) ==
  /\ at[t] = "awaitMerges"
  /\ iw.pending = <<>> /\ iw.running = {}
  /\ call' = [call EXCEPT ![t] = "lastCommit"]
  /\ at' = [at EXCEPT ![t] = "lockCommit"]
  /\ UNCHANGED <<iw, mergeThreads, paused, cms, commitLock, left, max>>

\* deleteAll under fullFlushLock: abortMerges, and when it is through all
\* segments go and merges may run again.
DeleteAll(t) ==
  /\ at[t] = "deleteAll" /\ ~FullFlushLocked(t)
  /\ iw' = AbortMerges(iw)
  /\ at' = [at EXCEPT ![t] = "awaitAborted"]
  /\ UNCHANGED <<call, mergeThreads, paused, cms, commitLock, left, max>>

ClearSegments(t) ==
  /\ at[t] = "awaitAborted" /\ iw.running = {}
  /\ iw' = [iw EXCEPT !.stop = FALSE, !.infos = <<>>]
  /\ at' = [at EXCEPT ![t] = "return"]
  /\ UNCHANGED <<call, mergeThreads, paused, cms, commitLock, left, max>>

Return(t) ==
  /\ at[t] \in {"return", "done"}
  /\ at' = [at EXCEPT ![t] = "idle"]
  /\ call' = [call EXCEPT ![t] = "none"]
  /\ commitLock' = IF commitLock = t THEN None ELSE commitLock
  /\ UNCHANGED <<iw, mergeThreads, paused, cms, left, max>>

-----------------------------------------------------------------------------
Schedule(a) == Stall(a) \/ EndScheduling(a) \/ Launch(a)

CloseWriter(a) ==
  LockCommits(a) \/ MergesAborted(a) \/ SyncMergeThreads(a) \/ SetClosed(a)

MergeThreadStep(m) ==
  MergeInit(m) \/ MergeMiddle(m) \/ CommitMerge(m) \/ HandleMergeException(m) \/ FinishMerge(m)
    \/ TragicEvent(m) \/ ShouldClose(m) \/ Exit(m) \/ Schedule(m) \/ CloseWriter(m)

\* What goes on by itself once the application has called the writer
CallStep(t) ==
  WaitToClose(t) \/ LockCommit(t) \/ Flush(t) \/ Propose(t) \/ MarkForced(t)
    \/ AwaitForced(t) \/ AwaitMerges(t) \/ DeleteAll(t) \/ ClearSegments(t) \/ Return(t)
    \/ Schedule(t) \/ CloseWriter(t)

Next ==
  \/ \E t \in Threads : Begin(t) \/ CallStep(t)
  \/ \E m \in DOMAIN iw.merges \cap DOMAIN at : MergeThreadStep(m)

Spec == Init /\ [][Next]_vars

\* Every wait of the code is repeated with a timeout, and locks are handed on.
FairSpec ==
  /\ Spec
  /\ \A t \in Threads : WF_vars(CallStep(t))
  /\ \A m \in 1 .. MaxMerges : WF_vars(m \in DOMAIN at /\ MergeThreadStep(m))

-----------------------------------------------------------------------------
MergeThreads == DOMAIN iw.merges \cap DOMAIN at

\* What a workload bounds: the segments it may flush, the merges it may register
InBounds ==
  /\ DOMAIN iw.infos \subseteq (1 .. 1002) \cup {-m : m \in DOMAIN iw.merges}
  /\ Len(iw.merges) <= MaxMerges

\* The states of the writer fit together: a merge that is pending has no thread
\* yet, and every other merge has got one.
TypeOK ==
  /\ InBounds
  /\ DOMAIN at = Threads \cup MergeThreads
  /\ Range(iw.pending) \cap MergeThreads = {} /\ iw.running \subseteq MergeThreads
  /\ mergeThreads \cup paused \cup iw.exceptions \subseteq MergeThreads
  /\ {cms, commitLock} \subseteq DOMAIN at \cup {None}
  /\ \A t \in Threads : call[t] = "none" <=> at[t] = "idle"

Registered == {m \in DOMAIN iw.merges : iw.merges[m].registered}

\* registerMerge marks the segments of a merge and mergeFinish frees them, however
\* the merge ends: marked are the segments of the registered merges, no two of
\* which share a segment, and they stay in the index until their merge takes them
\* out; the registered merges are those that are pending, once, or running, so that
\* none stays registered when nobody will finish it (IndexWriter.cpp:3604-3703,
\* 3839-3858, the asserts of 1975 and 2003).
SegmentsOwned ==
  /\ iw.merging = UNION {iw.merges[m].segs : m \in Registered}
  /\ \A m, n \in Registered : m # n => iw.merges[m].segs \cap iw.merges[n].segs = {}
  /\ Registered = Range(iw.pending) \cup iw.running
  /\ Range(iw.pending) \cap iw.running = {}
  /\ \A i, j \in DOMAIN iw.pending : iw.pending[i] = iw.pending[j] => i = j
  /\ \A m \in Registered :
       (m \in iw.running /\ at[m] = "merged") \/ iw.merges[m].segs \subseteq DOMAIN iw.infos

\* A closed writer has no merge left, neither pending nor in a thread: rollback
\* and close stop them and wait for them, also when a merge thread closes the
\* writer itself after a tragic event (IndexWriter.cpp:1724-1806, 1937-1980).
ClosedMeansQuiet ==
  iw.closed => /\ iw.running = {} /\ iw.pending = <<>> /\ iw.merging = {}
               /\ \A m \in MergeThreads : at[m] \in {"exit", "dead", "unborn"}

\* Merges own their segments, and a writer that closes waits for them.
MergesOwnSegments == SegmentsOwned /\ ClosedMeansQuiet

\* The segments that forceMerge marked, and those forced merges write
OfForceMerge == iw.toMerge \cup {-m : m \in {n \in DOMAIN iw.merges : Forced(iw, n)}}

\* When forceMerge returns normally the segments it was called for, and what
\* became of them, are at most maxNumSegments, unless deleteAll is under way, a
\* later forceMerge has just begun, or a merge has failed of which the writer
\* does not know yet (IndexWriter.cpp:1416-1506, 3490-3495).
ForceMergeIsDone ==
  [][\A t \in Threads :
       /\ at[t] = "awaitForced" /\ at'[t] = "done"
       /\ ~iw.stop /\ \A u \in Threads : at[u] # "proposeForced"
       /\ \A m \in MergeThreads : at[m] \notin {"unborn", "throws", "failed", "tragic"}
       => Cardinality(DOMAIN iw.infos \cap OfForceMerge) <= MaxSegmentCount]_vars

LaunchFailed == \E m \in MergeThreads : at[m] = "unborn"

\* Merges are pending and nobody is left to start them.
Stranded ==
  /\ iw.pending # <<>>
  /\ \A t \in Threads : ~Scheduling(t)
  /\ \A m \in mergeThreads : ~Alive(m)

\* Every call ends: neither stalled producers, nor paused merges, nor commitLock,
\* nor the threads that wait for merges to end or abort, block each other, except
\* that a thread could not be started or that merges are stranded
\* (ConcurrentMergeScheduler.cpp:361-400, 493-530, IndexWriter.cpp:2860).
CallsEnd ==
  \A t \in Threads : at[t] # "idle" ~> at[t] = "idle" \/ LaunchFailed \/ Stranded

\* forceMerge does not wait for ever: it waits "until all merging completes"
\* (IndexWriter.h:1243), and a merge thread that ends goes on to "Let CMS run new
\* merges if necessary" (ConcurrentMergeScheduler.cpp:593).
ForceMergeEnds ==
  \A t \in Threads : at[t] = "awaitForced" ~> at[t] # "awaitForced"
=============================================================================
