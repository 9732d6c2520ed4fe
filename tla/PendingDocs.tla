----------------------------- MODULE PendingDocs -----------------------------
(***************************************************************************)
(* The number of documents of an index is limited, and pendingNumDocs is   *)
(* what the limit is checked against: a counter that every path by which a *)
(* document comes or goes has to keep, without a lock that would hold it   *)
(* together with the documents.  The paths are updateDocument with its     *)
(* failures, the flush and its ticket, the segments that packets, commits  *)
(* and merges drop, addIndexes, deleteAll, and rollback.                   *)
(*                                                                         *)
(* Each thread has a ThreadState of its own.  A segment is the set of its  *)
(* documents, with a generation that tells a merged one from its sources;  *)
(* dead are the documents that failed or were deleted.  There is no full   *)
(* flush here, so that no DWPT waits in flushQueue or blockedFlushes       *)
(* (FlushControl has them).                                                *)
(***************************************************************************)
EXTENDS Integers, Sequences, FiniteSets, FiniteSetsExt

CONSTANTS
  Threads,         \* indexing threads
  Deleter, Closer, \* the threads that call deleteAll and rollback
  None,
  ActualMaxDocs,
  Committed,       \* documents of the commit that was opened
  AddedDocs,       \* documents of an index given to addIndexes
  Workloads        \* records of calls and faults, one chosen at the start

\* What a workload limits: calls, and the faults and events that calls meet.
Kinds == {"docs", "failedDocs", "failures", "packets", "merges", "drops", "adds", "deleteAlls",
          "rollbacks"}

ASSUME ActorsAssumption == /\ IsFiniteSet(Threads)
                           /\ Deleter # Closer /\ {Deleter, Closer} \cap Threads = {}
                           /\ None \notin Threads \cup {Deleter, Closer}
ASSUME DocsAssumption == /\ ActualMaxDocs \in Nat /\ Committed \in 0 .. ActualMaxDocs
                         /\ AddedDocs \in Nat \ {0}
ASSUME WorkloadsAssumption == Workloads \subseteq [Kinds -> Nat]

VARIABLES
  pendingNumDocs,
  segmentInfos, pool,          \* the segments, and those with a ReadersAndUpdates
  dead,
  packets, merges,             \* being applied, running
  created, holder, poolAborted,  \* ThreadStates, who locks them, setAbort
  ram,                         \* thread -> documents of the DWPT in its ThreadState
  flushing,                    \* thread -> documents of the DWPT it flushes
  tickets, purgeLock, backlog, \* the ticket queue; an event to purge it by force
  at,                          \* where each actor is
  todo,                        \* of Deleter and Closer: ThreadStates still to lock
  docWriterClosed, closing, closed, stopMerges, tragedy,
  numbered,                    \* documents so far
  old,                         \* history: those that were there when deleteAll began
  left                         \* of the workload

segVars == <<segmentInfos, pool, dead>>
stateVars == <<created, holder, poolAborted>>
queueVars == <<tickets, purgeLock, backlog>>
lifeVars == <<docWriterClosed, closing, closed, stopMerges, tragedy>>
vars == <<pendingNumDocs, segVars, packets, merges, stateVars, ram, flushing, queueVars,
          at, todo, lifeVars, numbered, old, left>>

Aborters == {Deleter, Closer}
Actors == Threads \cup Aborters

\* The sum of the sizes of the sets that a function takes as values.
Pairs(f) == UNION {{x} \X f[x] : x \in DOMAIN f}
Total(f) == Cardinality(Pairs(f))

NumDocs(S) == Total([s \in S |-> s.docs])
Segment(docs, gen) == [docs |-> docs, gen |-> gen]

\* The commit that was opened; the list of rollbackSegments holds clones of its segments.
CommittedSegments(gen) == IF Committed = 0 THEN {} ELSE {Segment(1 .. Committed, gen)}
rollbackSegments == CommittedSegments(-1)

Init ==
  /\ segmentInfos = CommittedSegments(0) /\ pendingNumDocs = NumDocs(segmentInfos)
  /\ pool = {} /\ dead = {} /\ packets = {} /\ merges = {}
  /\ created = {} /\ poolAborted = FALSE
  /\ holder = [t \in Threads |-> None]
  /\ ram = [t \in Threads |-> {}] /\ flushing = [t \in Threads |-> {}]
  /\ tickets = <<>> /\ purgeLock = None /\ backlog = FALSE
  /\ at = [a \in Actors |-> "idle"] /\ todo = [a \in Aborters |-> {}]
  /\ docWriterClosed = FALSE /\ closing = FALSE /\ closed = FALSE
  /\ stopMerges = FALSE /\ tragedy = FALSE
  /\ numbered = Committed /\ old = {}
  /\ left \in Workloads

Spend(what) == left[what] > 0 /\ left' = [left EXCEPT ![what] = @ - 1]
Goto(a, place) == at' = [at EXCEPT ![a] = place]
FullyDeleted(s) == s.docs \subseteq dead

\* A failing reserveDocs holds the monitor of the writer between its two steps.
WriterFree == \A t \in Threads : at[t] # "takeBackDocs"

------------------------------------------------------------------------------
\* updateDocument

StartUpdate(t) ==
  /\ at[t] = "idle" /\ ~closing /\ ~closed /\ Spend("docs")
  /\ Goto(t, "obtain")
  /\ UNCHANGED <<pendingNumDocs, segVars, packets, merges, stateVars, ram, flushing, queueVars,
                 todo, lifeVars, numbered, old>>

\* A new ThreadState is not made between setAbort and clearAbort.
ObtainAndLock(t) ==
  /\ at[t] = "obtain" /\ holder[t] = None
  /\ t \notin created => ~poolAborted
  /\ created' = created \cup {t}
  /\ IF docWriterClosed THEN Goto(t, "idle") /\ UNCHANGED holder
     ELSE Goto(t, "reserve") /\ holder' = [holder EXCEPT ![t] = t]
  /\ UNCHANGED <<pendingNumDocs, segVars, packets, merges, poolAborted, ram, flushing, queueVars,
                 todo, lifeVars, numbered, old, left>>

\* Mutant: the last document that fits is counted as one too many, and not the next.
ExceedsByOne(n) == n > ActualMaxDocs + 1

Exceeds(n) == n > ActualMaxDocs

ReserveOneDoc(t) ==
  /\ at[t] = "reserve"
  /\ pendingNumDocs' = pendingNumDocs + 1
  /\ Goto(t, IF Exceeds(pendingNumDocs + 1) THEN "takeBack" ELSE "index")
  /\ UNCHANGED <<segVars, packets, merges, stateVars, ram, flushing, queueVars, todo, lifeVars,
                 numbered, old, left>>

TakenBack == pendingNumDocs - 1

TakeBackOneDoc(t) ==
  /\ at[t] = "takeBack"
  /\ pendingNumDocs' = TakenBack
  /\ holder' = [holder EXCEPT ![t] = None]
  /\ Goto(t, "idle")
  /\ UNCHANGED <<segVars, packets, merges, created, poolAborted, ram, flushing, queueVars, todo,
                 lifeVars, numbered, old, left>>

\* The document is in the DWPT, dead if it failed; the policy may ask for a flush.
Index(t, fails, flush) ==
  /\ at[t] = "index"
  /\ numbered' = numbered + 1
  /\ dead' = IF fails THEN dead \cup {numbered + 1} ELSE dead
  /\ LET docs == ram[t] \cup {numbered + 1} IN
     IF flush /\ ~fails
     THEN /\ flushing' = [flushing EXCEPT ![t] = docs]
          /\ ram' = [ram EXCEPT ![t] = {}]
          /\ Goto(t, "pending")
     ELSE /\ ram' = [ram EXCEPT ![t] = docs]
          /\ Goto(t, "idle") /\ UNCHANGED flushing
  /\ IF fails THEN Spend("failedDocs") ELSE UNCHANGED left
  /\ holder' = [holder EXCEPT ![t] = None]
  /\ UNCHANGED <<pendingNumDocs, segmentInfos, pool, packets, merges, created, poolAborted,
                 queueVars, todo, lifeVars, old>>

\* An aborting exception: the DWPT is thrown away with the document that met it.
AbortingException(t) ==
  /\ at[t] = "index" /\ Spend("failures")
  /\ numbered' = numbered + 1
  /\ pendingNumDocs' = pendingNumDocs - (Cardinality(ram[t]) + 1)
  /\ ram' = [ram EXCEPT ![t] = {}]
  /\ tragedy' = TRUE
  /\ holder' = [holder EXCEPT ![t] = None]
  /\ Goto(t, "idle")
  /\ UNCHANGED <<segVars, packets, merges, created, poolAborted, flushing, queueVars, todo,
                 docWriterClosed, closing, closed, stopMerges, old>>

------------------------------------------------------------------------------
\* doFlush

AddFlushTicket(t) ==
  /\ at[t] = "pending"
  /\ tickets' = Append(tickets, [docs |-> flushing[t], phase |-> "flush"])
  /\ Goto(t, "flush")
  /\ UNCHANGED <<pendingNumDocs, segVars, packets, merges, stateVars, ram, flushing, purgeLock,
                 backlog, todo, lifeVars, numbered, old, left>>

Marked(docs, phase) ==
  [i \in DOMAIN tickets |->
     IF tickets[i].docs = docs THEN [tickets[i] EXCEPT !.phase = phase] ELSE tickets[i]]

AddSegment(t) ==
  /\ at[t] = "flush"
  /\ tickets' = Marked(flushing[t], "flushed")
  /\ backlog' = (backlog \/ Len(tickets) >= Cardinality(created))
  /\ Goto(t, "flushed")
  /\ UNCHANGED <<pendingNumDocs, segVars, packets, merges, stateVars, ram, flushing, purgeLock,
                 todo, lifeVars, numbered, old, left>>

FlushFails(t) ==
  /\ at[t] = "flush" /\ Spend("failures")
  /\ pendingNumDocs' = pendingNumDocs - Cardinality(flushing[t])
  /\ tickets' = Marked(flushing[t], "failed")
  /\ tragedy' = TRUE
  /\ Goto(t, "flushFailed")
  /\ UNCHANGED <<segVars, packets, merges, stateVars, ram, flushing, purgeLock, backlog, todo,
                 docWriterClosed, closing, closed, stopMerges, numbered, old>>

\* The DWPT is no longer among the flushingWriters.
DoAfterFlush(t) ==
  /\ at[t] \in {"flushed", "flushFailed"}
  /\ flushing' = [flushing EXCEPT ![t] = {}]
  /\ Goto(t, IF at[t] = "flushed" THEN "publish" ELSE "idle")
  /\ UNCHANGED <<pendingNumDocs, segVars, packets, merges, stateVars, ram, queueVars, todo,
                 lifeVars, numbered, old, left>>

------------------------------------------------------------------------------
\* publishFlushedSegments

TryPurge(t) ==
  /\ at[t] = "publish"
  /\ IF purgeLock = None THEN purgeLock' = t /\ Goto(t, "purging")
     ELSE Goto(t, "events") /\ UNCHANGED purgeLock
  /\ UNCHANGED <<pendingNumDocs, segVars, packets, merges, stateVars, ram, flushing, tickets,
                 backlog, todo, lifeVars, numbered, old, left>>

ForcePurge(a) ==
  /\ at[a] \in {"forcePurge", "dropTickets"} /\ purgeLock = None
  /\ purgeLock' = a
  /\ Goto(a, IF at[a] = "forcePurge" THEN "purging" ELSE "dropping")
  /\ UNCHANGED <<pendingNumDocs, segVars, packets, merges, stateVars, ram, flushing, tickets,
                 backlog, todo, lifeVars, numbered, old, left>>

CanPublish == tickets # <<>> /\ Head(tickets).phase # "flush"

\* A segment that the flush has found fully deleted is dropped at once.
PublishFlushedSegment(a) ==
  /\ at[a] = "purging" /\ purgeLock = a /\ CanPublish /\ WriterFree
  /\ tickets' = Tail(tickets)
  /\ LET s == Segment(Head(tickets).docs, 0) IN
     IF Head(tickets).phase = "failed" THEN UNCHANGED <<pendingNumDocs, segmentInfos>>
     ELSE IF FullyDeleted(s)
       THEN pendingNumDocs' = pendingNumDocs - Cardinality(s.docs) /\ UNCHANGED segmentInfos
     ELSE segmentInfos' = segmentInfos \cup {s} /\ UNCHANGED pendingNumDocs
  /\ UNCHANGED <<pool, dead, packets, merges, stateVars, ram, flushing, purgeLock, backlog, at,
                 todo, lifeVars, numbered, old, left>>

EndPurge(a) ==
  /\ at[a] \in {"purging", "dropping"} /\ purgeLock = a /\ ~CanPublish
  /\ purgeLock' = None
  /\ Goto(a, IF at[a] = "dropping" THEN "count"
             ELSE IF a = Closer THEN "rollback" ELSE "events")
  /\ UNCHANGED <<pendingNumDocs, segVars, packets, merges, stateVars, ram, flushing, tickets,
                 backlog, todo, lifeVars, numbered, old, left>>

ProcessEvents(a) ==
  /\ at[a] = "events"
  /\ IF backlog /\ ~tragedy THEN backlog' = FALSE /\ Goto(a, "forcePurge")
     ELSE Goto(a, IF a = Deleter THEN "abortMerges" ELSE "idle") /\ UNCHANGED backlog
  /\ UNCHANGED <<pendingNumDocs, segVars, packets, merges, stateVars, ram, flushing, tickets,
                 purgeLock, todo, lifeVars, numbered, old, left>>

------------------------------------------------------------------------------
\* Segments that come and go: packets, merges, dropped segments, addIndexes

Merging == UNION {m.segments : m \in merges}

\* Mutant: the documents of a segment are given back each time it is dropped.
DropAgain(s) ==
  IF s \in Merging THEN UNCHANGED <<pendingNumDocs, segmentInfos, pool>>
  ELSE /\ segmentInfos' = segmentInfos \ {s}
       /\ pool' = pool \ {s}
       /\ pendingNumDocs' = pendingNumDocs - Cardinality(s.docs)

\* A segment that is merging stays; its merge drops it.
dropDeletedSegment(s) ==
  IF s \in Merging THEN UNCHANGED <<pendingNumDocs, segmentInfos, pool>>
  ELSE /\ segmentInfos' = segmentInfos \ {s}
       /\ pool' = pool \ {s}
       /\ pendingNumDocs' = IF s \in segmentInfos \cup pool
                             THEN pendingNumDocs - Cardinality(s.docs) ELSE pendingNumDocs

\* A packet opens the segment it deletes from, and deletes all of its documents.
StartApply(s) ==
  /\ ~closed /\ s \in segmentInfos /\ WriterFree /\ Spend("packets")
  /\ packets' = packets \cup {s}
  /\ pool' = pool \cup {s}
  /\ UNCHANGED <<pendingNumDocs, segmentInfos, dead, merges, stateVars, ram, flushing, queueVars,
                 at, todo, lifeVars, numbered, old>>

FinishApply(s) ==
  /\ s \in packets /\ WriterFree
  /\ packets' = packets \ {s}
  /\ dead' = dead \cup s.docs
  /\ dropDeletedSegment(s)
  /\ UNCHANGED <<merges, stateVars, ram, flushing, queueVars, at, todo, lifeVars, numbered, old,
                 left>>

\* A commit or a reader writes the pool; a fully deleted segment that a merge had held is found.
WriteReaderPool(s) ==
  /\ ~closed /\ s \in segmentInfos \cap pool /\ FullyDeleted(s) /\ s \notin Merging /\ WriterFree
  /\ Spend("drops")
  /\ dropDeletedSegment(s)
  /\ UNCHANGED <<dead, packets, merges, stateVars, ram, flushing, queueVars, at, todo, lifeVars,
                 numbered, old>>

\* A merge is registered, and opens its segments with the deletes of that moment.
StartMerge(S) ==
  /\ ~closed /\ ~stopMerges /\ ~tragedy /\ WriterFree /\ Spend("merges")
  /\ S \subseteq segmentInfos /\ Cardinality(S) = 2 /\ S \cap Merging = {}
  /\ merges' = merges \cup {[segments |-> S, aborted |-> FALSE,
                              info |-> Segment(UNION {s.docs : s \in S} \ dead,
                                               1 + Max({s.gen : s \in S}))]}
  /\ pool' = pool \cup S
  /\ UNCHANGED <<pendingNumDocs, segmentInfos, dead, packets, stateVars, ram, flushing,
                 queueVars, at, todo, lifeVars, numbered, old>>

\* Mutant: a merge gives back the documents of its segment and not those it left out.
DelDocCountOfMerged(m) == NumDocs(m.segments) - Cardinality(m.info.docs \cap dead)

DropsMerged(m) == FullyDeleted(m.info)
DelDocCount(m) == IF DropsMerged(m) THEN NumDocs(m.segments)
                  ELSE NumDocs(m.segments) - Cardinality(m.info.docs)

CommitMerge(m) ==
  /\ m \in merges /\ WriterFree
  /\ merges' = merges \ {m}
  /\ IF m.aborted \/ tragedy THEN UNCHANGED <<pendingNumDocs, segmentInfos, pool>>
     ELSE /\ segmentInfos' = (segmentInfos \ m.segments)
                              \cup (IF DropsMerged(m) THEN {} ELSE {m.info})
          /\ pool' = pool \ m.segments
          /\ pendingNumDocs' = pendingNumDocs - DelDocCount(m)
  /\ UNCHANGED <<dead, packets, stateVars, ram, flushing, queueVars, at, todo, lifeVars, numbered,
                 old, left>>

\* A merge that fails is a tragic event; its segments stay.
MergeFails(m) ==
  /\ m \in merges /\ ~m.aborted /\ Spend("failures")
  /\ merges' = merges \ {m}
  /\ tragedy' = TRUE
  /\ UNCHANGED <<pendingNumDocs, segVars, packets, stateVars, ram, flushing, queueVars, at, todo,
                 docWriterClosed, closing, closed, stopMerges, numbered, old>>

\* addIndexes(Directory...): a first look at the limit, before the segments are copied.
StartAddIndexes(t) ==
  /\ at[t] = "idle" /\ ~closing /\ ~closed /\ Spend("adds")
  /\ Goto(t, IF Exceeds(pendingNumDocs + AddedDocs) THEN "idle" ELSE "copied")
  /\ UNCHANGED <<pendingNumDocs, segVars, packets, merges, stateVars, ram, flushing, queueVars,
                 todo, lifeVars, numbered, old>>

InsertCopied(t) ==
  /\ at[t] = "copied" /\ WriterFree
  /\ IF closing \/ closed THEN Goto(t, "idle") /\ UNCHANGED <<pendingNumDocs, segmentInfos, numbered>>
     ELSE /\ pendingNumDocs' = pendingNumDocs + AddedDocs
          /\ IF Exceeds(pendingNumDocs + AddedDocs)
             THEN Goto(t, "takeBackDocs") /\ UNCHANGED <<segmentInfos, numbered>>
             ELSE /\ numbered' = numbered + AddedDocs
                  /\ segmentInfos' = segmentInfos
                       \cup {Segment((numbered + 1) .. (numbered + AddedDocs), 0)}
                  /\ Goto(t, "idle")
  /\ UNCHANGED <<pool, dead, packets, merges, stateVars, ram, flushing, queueVars, todo, lifeVars,
                 old, left>>

TakeBackDocs(t) ==
  /\ at[t] = "takeBackDocs"
  /\ pendingNumDocs' = pendingNumDocs - AddedDocs
  /\ Goto(t, "idle")
  /\ UNCHANGED <<segVars, packets, merges, stateVars, ram, flushing, queueVars, todo, lifeVars,
                 numbered, old, left>>

------------------------------------------------------------------------------
\* deleteAll

StartDeleteAll ==
  /\ at[Deleter] = "idle" /\ ~closing /\ ~closed /\ Spend("deleteAlls")
  /\ old' = 1 .. numbered
  /\ Goto(Deleter, "dropTickets")
  /\ UNCHANGED <<pendingNumDocs, segVars, packets, merges, stateVars, ram, flushing, queueVars,
                 todo, lifeVars, numbered>>

DroppedDocs(ticket) == IF ticket.phase = "flushed" THEN Cardinality(ticket.docs) ELSE 0

DropTicket ==
  /\ at[Deleter] = "dropping" /\ CanPublish
  /\ tickets' = Tail(tickets)
  /\ pendingNumDocs' = pendingNumDocs - DroppedDocs(Head(tickets))
  /\ UNCHANGED <<segVars, packets, merges, stateVars, ram, flushing, purgeLock, backlog, at, todo,
                 lifeVars, numbered, old, left>>

\* The number of ThreadStates is read before setAbort keeps new ones from being made.
CountThreadStates ==
  /\ at[Deleter] = "count"
  /\ todo' = [todo EXCEPT ![Deleter] = created]
  /\ Goto(Deleter, "setAbort")
  /\ UNCHANGED <<pendingNumDocs, segVars, packets, merges, stateVars, ram, flushing, queueVars,
                 lifeVars, numbered, old, left>>

SetAbort ==
  /\ at[Deleter] = "setAbort"
  /\ poolAborted' = TRUE
  /\ Goto(Deleter, "lock")
  /\ UNCHANGED <<pendingNumDocs, segVars, packets, merges, created, holder, ram, flushing,
                 queueVars, todo, lifeVars, numbered, old, left>>

\* deleteAll keeps the locks; abort, for a rollback, gives each back at once.
AbortThreadState(a, t) ==
  /\ at[a] = "lock" /\ t \in todo[a] /\ holder[t] = None
  /\ pendingNumDocs' = pendingNumDocs - Cardinality(ram[t])
  /\ ram' = [ram EXCEPT ![t] = {}]
  /\ todo' = [todo EXCEPT ![a] = @ \ {t}]
  /\ holder' = IF a = Deleter THEN [holder EXCEPT ![t] = Deleter] ELSE holder
  /\ UNCHANGED <<segVars, packets, merges, created, poolAborted, flushing, queueVars, at, lifeVars,
                 numbered, old, left>>

WaitForFlush(a) ==
  /\ at[a] = "lock" /\ todo[a] = {}
  /\ \A t \in Threads : flushing[t] = {}
  /\ Goto(a, IF a = Deleter THEN "events" ELSE "forcePurge")
  /\ UNCHANGED <<pendingNumDocs, segVars, packets, merges, stateVars, ram, flushing, queueVars,
                 todo, lifeVars, numbered, old, left>>

AbortMerges(a) ==
  /\ at[a] = "abortMerges" /\ WriterFree
  /\ stopMerges' = TRUE
  /\ merges' = {[m EXCEPT !.aborted = TRUE] : m \in merges}
  /\ Goto(a, "mergesEnd")
  /\ UNCHANGED <<pendingNumDocs, segVars, packets, stateVars, ram, flushing, queueVars, todo,
                 docWriterClosed, closing, closed, tragedy, numbered, old, left>>

ClearIndex ==
  /\ at[Deleter] = "mergesEnd" /\ merges = {} /\ WriterFree
  /\ stopMerges' = FALSE
  /\ pendingNumDocs' = pendingNumDocs - NumDocs(segmentInfos)
  /\ segmentInfos' = {} /\ pool' = {}
  /\ Goto(Deleter, "unlock")
  /\ UNCHANGED <<dead, packets, merges, stateVars, ram, flushing, queueVars, todo,
                 docWriterClosed, closing, closed, tragedy, numbered, old, left>>

UnlockAll ==
  /\ at[Deleter] = "unlock"
  /\ poolAborted' = FALSE
  /\ holder' = [t \in Threads |-> IF holder[t] = Deleter THEN None ELSE holder[t]]
  /\ Goto(Deleter, "idle")
  /\ UNCHANGED <<pendingNumDocs, segVars, packets, merges, created, ram, flushing, queueVars, todo,
                 lifeVars, numbered, old, left>>

------------------------------------------------------------------------------
\* rollback, called or after a tragic event

StartRollback ==
  /\ at[Closer] = "idle" /\ ~closing /\ ~closed
  /\ tragedy \/ left["rollbacks"] > 0
  /\ closing' = TRUE
  /\ Goto(Closer, "abortMerges")
  /\ UNCHANGED <<pendingNumDocs, segVars, packets, merges, stateVars, ram, flushing, queueVars,
                 todo, docWriterClosed, closed, stopMerges, tragedy, numbered, old, left>>

\* abort counts the ThreadStates after the DocumentsWriter is closed.
CloseDocWriter ==
  /\ at[Closer] = "mergesEnd" /\ merges = {}
  /\ docWriterClosed' = TRUE
  /\ todo' = [todo EXCEPT ![Closer] = created]
  /\ Goto(Closer, "lock")
  /\ UNCHANGED <<pendingNumDocs, segVars, packets, merges, stateVars, ram, flushing, queueVars,
                 closing, closed, stopMerges, tragedy, numbered, old, left>>

RollbackSegmentInfos ==
  /\ at[Closer] = "rollback" /\ WriterFree
  /\ pendingNumDocs' = pendingNumDocs - (NumDocs(segmentInfos) - NumDocs(rollbackSegments))
  /\ segmentInfos' = rollbackSegments /\ pool' = {}
  /\ closed' = TRUE /\ closing' = FALSE
  /\ Goto(Closer, "done")
  /\ UNCHANGED <<dead, packets, merges, stateVars, ram, flushing, queueVars, todo, docWriterClosed,
                 stopMerges, tragedy, numbered, old, left>>

------------------------------------------------------------------------------
ThreadStep(t) ==
  \/ StartUpdate(t) \/ ObtainAndLock(t) \/ ReserveOneDoc(t) \/ TakeBackOneDoc(t)
  \/ \E fails, flush \in BOOLEAN : Index(t, fails, flush)
  \/ AbortingException(t)
  \/ AddFlushTicket(t) \/ AddSegment(t) \/ FlushFails(t) \/ DoAfterFlush(t) \/ TryPurge(t)
  \/ StartAddIndexes(t) \/ InsertCopied(t) \/ TakeBackDocs(t)

PurgeStep(a) == ForcePurge(a) \/ PublishFlushedSegment(a) \/ EndPurge(a) \/ ProcessEvents(a)

AbortStep(a) ==
  (\E t \in Threads : AbortThreadState(a, t)) \/ WaitForFlush(a) \/ AbortMerges(a)

DeleteAllStep ==
  \/ StartDeleteAll \/ DropTicket \/ CountThreadStates \/ SetAbort \/ ClearIndex \/ UnlockAll
  \/ AbortStep(Deleter)

RollbackStep ==
  StartRollback \/ CloseDocWriter \/ RollbackSegmentInfos \/ AbortStep(Closer)

SegmentStep ==
  \/ \E s \in segmentInfos : StartApply(s) \/ WriteReaderPool(s)
  \/ \E s \in packets : FinishApply(s)
  \/ \E S \in kSubset(2, segmentInfos) : StartMerge(S)
  \/ \E m \in merges : CommitMerge(m) \/ MergeFails(m)

\* Nothing is under way: the only state in which nothing more has to happen.
Quiet ==
  /\ \A a \in Actors : at[a] \in {"idle", "done"}
  /\ packets = {} /\ merges = {}
  /\ UNCHANGED vars

Next ==
  \/ \E t \in Threads : ThreadStep(t)
  \/ \E a \in Actors : PurgeStep(a)
  \/ DeleteAllStep \/ RollbackStep \/ SegmentStep \/ Quiet

Spec == Init /\ [][Next]_vars

------------------------------------------------------------------------------
\* The types of the variables; the documents of a segment are never none.
TypeOK ==
  /\ pendingNumDocs \in Nat
  /\ \A s \in segmentInfos \cup pool \cup packets :
        s.docs # {} /\ s.docs \subseteq 1 .. numbered /\ s.gen \in Nat \cup {-1}
  /\ dead \subseteq 1 .. numbered /\ old \subseteq 1 .. numbered
  /\ \A m \in merges : Cardinality(m.segments) = 2 /\ m.aborted \in BOOLEAN
  /\ created \subseteq Threads
  /\ holder \in [Threads -> Actors \cup {None}] /\ purgeLock \in Actors \cup {None}
  /\ \A t \in Threads : ram[t] \cup flushing[t] \subseteq 1 .. numbered
  /\ \A i \in DOMAIN tickets : tickets[i].phase \in {"flush", "flushed", "failed"}
  /\ DOMAIN at = Actors
  /\ todo \in [Aborters -> SUBSET Threads]
  /\ {poolAborted, backlog, docWriterClosed, closing, closed, stopMerges, tragedy} \subseteq BOOLEAN

At(places) == {t \in Threads : at[t] \in places}
FlushedDocs(queue) == [i \in {j \in DOMAIN queue : queue[j].phase = "flushed"} |-> queue[i].docs]
FlushingDocs == [t \in At({"pending", "flush"}) |-> flushing[t]]
Documents ==
  NumDocs(segmentInfos) + Total(FlushedDocs(tickets)) + Total(ram) + Total(FlushingDocs)
Reserved == Cardinality(At({"takeBack", "index"})) + AddedDocs * Cardinality(At({"takeBackDocs"}))

\* pendingNumDocs is at every moment the number of documents that the segments, the tickets
\* of the flush queue and the DWPTs hold, and of those that a call has reserved and not yet
\* added: no path of a document out of the index is forgotten, and none is counted twice.
CountIsExact == pendingNumDocs = Documents + Reserved

\* There are never more documents in the index, on disk and in memory together, than the
\* limit that IndexWriter promises to enforce.
LimitHolds == Documents <= ActualMaxDocs

\* When a rollback has ended, pendingNumDocs is the number of documents of the commit that it
\* has gone back to, as it asserts: nothing was left in the queue, in a DWPT or in a merge.
RollbackIsBalanced == closed => pendingNumDocs = NumDocs(segmentInfos)

\* Whatever calls fail, are aborted or rolled back, in whatever order, the writer knows how
\* many documents it has (IndexWriter.cpp:4691-4721).  This includes aborting exceptions,
\* after which the comments at DocumentsWriterPerThread.cpp:220-223 and 287-290 say that the
\* counter "will be wrong": abort (:96) takes back all documents of the DWPT.
DocsCounted == CountIsExact /\ RollbackIsBalanced

\* deleteAll guarantees point in time semantics: what was there when it began is not in the
\* index when it has ended.
DeleteAllIsPointInTime ==
  at[Deleter] = "idle" => \A s \in segmentInfos : s.docs \cap old = {}
=============================================================================
