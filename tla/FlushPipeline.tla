---------------------------- MODULE FlushPipeline ----------------------------
(***************************************************************************)
(* From a buffered operation to a commit: DocumentsWriter and its          *)
(* DocumentsWriterFlushQueue of tickets, and what IndexWriter does with    *)
(* them (publishFlushedSegments, the packets of BufferedUpdatesStream, the *)
(* full flush of prepareCommit and getReader).                             *)
(*                                                                         *)
(* The parts below are used by what they promise.  Of the delete queue     *)
(* (SequencedUpdates): operations are numbered one by one, log is the      *)
(* operations of each queue by number, and a flush resolves for its own    *)
(* documents the deletes numbered after them.  Of the flush control        *)
(* (FlushControl): a DWPT is flushed once, and a full flush flushes all    *)
(* those of the old queue; here each has a phase, and the DWPTs that the   *)
(* policy by RAM marks are looked for by threads that do not see a full    *)
(* flush begin.  A document is the place <<queue, n>> of its operation in  *)
(* log, which orders all documents by sequence number because the numbers  *)
(* of a queue are all below those of the next.                             *)
(***************************************************************************)
EXTENDS Integers, Sequences, FiniteSets

CONSTANTS Threads,        \* indexing threads, each with a ThreadState
          Keys,
          Kinds,          \* the operations used: add, update, delete, deleteQuery
          MaxOps,         \* bound on the operations
          MaxApply,       \* bound on the deletes-only tickets of applyAllDeletes
          MaxFullFlush,   \* bound on the full flushes
          MaxFailed       \* bound on the flushes that fail

ASSUME KindsAssumption == Kinds \subseteq {"add", "update", "delete", "deleteQuery"}
ASSUME BoundsAssumption == /\ MaxOps \in Nat /\ MaxApply \in Nat
                           /\ MaxFullFlush \in Nat /\ MaxFailed \in Nat

VARIABLES log,          \* history: the operations of each queue, by number
          frozen,       \* queue -> how far its global deletes have been frozen
          dwpts,        \* every DWPT made so far
          state,        \* thread -> the DWPT of its ThreadState
          locked,       \* the threads that hold their ThreadState
          flushPending, \* the ThreadStates whose DWPT is marked to be flushed
          scanning,     \* some thread looks for one of them in nextPendingFlush
          overtaken,    \* history: a full flush was overtaken, see TryCheckoutForFlush
          applying,     \* thread -> the queue it is about to freeze, or 0
          tickets,      \* the ticket queue
          purgeLock,    \* free, helper or main
          segmentInfos, \* the published segments
          updates,      \* the packets pushed and not yet resolved
          nextGen,
          fullFlush,
          pendingChangesInCurrentFullFlush,
          main,         \* the holder of fullFlushLock
          tragedy,
          commit,       \* the last commit point or reader: its queue and documents
          made          \* counters, for the bounds

markVars == <<flushPending, scanning, overtaken>>
opVars == <<log, state, locked, markVars>>
streamVars == <<segmentInfos, updates, nextGen>>
fullFlushVars == <<fullFlush, pendingChangesInCurrentFullFlush, main, commit>>
vars == <<log, frozen, dwpts, state, locked, flushPending, scanning, overtaken, applying,
          tickets, purgeLock, segmentInfos, updates, nextGen, fullFlush,
          pendingChangesInCurrentFullFlush, main, tragedy, commit, made>>

None == 0
deleteQueue == Len(log)
Queue(d) == dwpts[d].queue
Op(x) == log[x[1]][x[2]]
Places == UNION {{<<q, n>> : n \in DOMAIN log[q]} : q \in DOMAIN log}
Before(x, y) == x[1] < y[1] \/ (x[1] = y[1] /\ x[2] < y[2])
Deletes(x) == Op(x).kind # "add"
HasDocument(x) == Op(x).kind \in {"add", "update"}
Removes(y, x) == Deletes(y) /\ Op(y).key = Op(x).key /\ Before(x, y)

MainIdle == [pc |-> "idle", marked |-> {}, anythingFlushed |-> FALSE, waitFor |-> {}]

Init ==
    /\ log = << <<>> >> /\ frozen = <<0>>
    /\ dwpts = <<>>
    /\ state = [t \in Threads |-> None]
    /\ locked = {}
    /\ flushPending = {} /\ scanning = FALSE /\ overtaken = FALSE
    /\ applying = [t \in Threads |-> None]
    /\ tickets = <<>> /\ purgeLock = "free"
    /\ segmentInfos = {} /\ updates = {} /\ nextGen = 1
    /\ fullFlush = FALSE /\ pendingChangesInCurrentFullFlush = FALSE
    /\ main = MainIdle
    /\ tragedy = FALSE
    /\ commit = [queue |-> 0, docs |-> {}]
    /\ made = [ops |-> 0, apply |-> 0, fullFlush |-> 0, failed |-> 0]

Count(what) == made' = [made EXCEPT ![what] = made[what] + 1]
------------------------------------------------------------------------------
(* The delete queues.                                                      *)

\* The keys of the deletes of queue q after its last freeze.
GlobalDeletes(q) ==
    {log[q][n].key : n \in {i \in (frozen[q] + 1)..Len(log[q]) : Deletes(<<q, i>>)}}
anyChangesIn(q) == GlobalDeletes(q) # {}
Frozen(q) == [frozen EXCEPT ![q] = Len(log[q])]

\* Mutant: a full flush holds back no deletes.
MayApplyAlways == TRUE

\* The guard of applyAllDeletes.
MayApply == ~fullFlush

\* addDeletes: freezing and queueing are one step under the monitor of the
\* ticket queue.
AddDeletes(q) == /\ tickets' = Append(tickets, [keys |-> GlobalDeletes(q), dwpt |-> None])
                 /\ frozen' = Frozen(q)
------------------------------------------------------------------------------
(* Indexing threads.                                                       *)

\* getAndLock, obtainAndLock and ensureInitialized: in a full flush a stale
\* DWPT is enrolled for it, and a new one bound to the current queue.
ObtainAndLock(t) ==
    LET d == state[t]
        stale == d # None /\ Queue(d) # deleteQueue
        kept == IF stale THEN [dwpts EXCEPT ![d].phase = IF dwpts[d].docs = {} THEN "empty"
                                                         ELSE "buffered"]
                ELSE dwpts IN
    /\ t \notin locked /\ applying[t] = None
    /\ made.ops < MaxOps /\ ~tragedy
    /\ Count("ops")
    /\ locked' = locked \cup {t}
    /\ IF d = None \/ stale
         THEN /\ dwpts' = Append(kept, [queue |-> deleteQueue, docs |-> {}, phase |-> "active",
                                        upto |-> 0])
              /\ state' = [state EXCEPT ![t] = Len(dwpts')]
              /\ flushPending' = flushPending \ {t}
         ELSE UNCHANGED <<dwpts, state, flushPending>>
    /\ UNCHANGED <<log, scanning, overtaken, frozen, applying, tickets, purgeLock, streamVars,
                   fullFlushVars, tragedy>>

\* checkout: during a full flush the DWPT has to wait.
CheckOutPhase(d) == IF fullFlush THEN "blocked" ELSE "pending"

\* What the flush policy may mark when t has indexed a document: its own
\* ThreadState, and one other with documents, the one that uses most RAM.
MayMark(t, marks) ==
    /\ \A u \in marks \ {t} : state[u] # None /\ dwpts[state[u]].docs # {}
    /\ \A u, v \in marks \ {t} : u = v

\* updateDocument: the document is in RAM and has its number; if the ThreadState
\* is marked (marks, or another thread before) its DWPT leaves it.
UpdateDocument(t, kind, key, marks) ==
    LET d == state[t]
        q == Queue(d)
        flush == t \in marks \cup flushPending IN
    /\ t \in locked /\ kind \in {"add", "update"}
    /\ t \notin flushPending \/ marks = {}
    /\ MayMark(t, marks)
    /\ log' = [log EXCEPT ![q] = Append(log[q], [kind |-> kind, key |-> key])]
    /\ dwpts' = [dwpts EXCEPT ![d].docs = dwpts[d].docs \cup {<<q, Len(log[q]) + 1>>},
                              ![d].phase = IF flush THEN CheckOutPhase(d) ELSE "active"]
    /\ state' = [state EXCEPT ![t] = IF flush THEN None ELSE d]
    /\ locked' = locked \ {t}
    /\ flushPending' = (flushPending \cup marks) \ {t}
    /\ UNCHANGED <<scanning, overtaken, frozen, applying, tickets, purgeLock, streamVars,
                   fullFlushVars, tragedy, made>>

\* nextPendingFlush, by a thread that is about to index or has flushed a DWPT:
\* under the monitor it sees that ThreadStates are marked and that no full flush
\* is going on, and then looks for one without the monitor.  As several threads
\* may have passed the test and each may be slow, scanning stays true.
NextPendingFlush ==
    /\ flushPending # {} /\ ~fullFlush /\ ~scanning
    /\ scanning' = TRUE
    /\ UNCHANGED <<log, state, locked, flushPending, overtaken, frozen, dwpts, applying, tickets,
                   purgeLock, streamVars, fullFlushVars, tragedy, made>>

\* tryCheckoutForFlush of a marked ThreadState that nobody holds.  It does not
\* look at fullFlush again: a full flush that has begun since may be overtaken
\* by a DWPT of the new queue.
TryCheckoutForFlush(t) ==
    LET d == state[t] IN
    /\ scanning /\ t \in flushPending \ locked
    /\ dwpts' = [dwpts EXCEPT ![d].phase = "pending"]
    /\ state' = [state EXCEPT ![t] = None]
    /\ flushPending' = flushPending \ {t}
    /\ overtaken' = (overtaken \/ (fullFlush /\ Queue(d) = deleteQueue))
    /\ UNCHANGED <<log, locked, scanning, frozen, applying, tickets, purgeLock, streamVars,
                   fullFlushVars, tragedy, made>>

\* applyDeleteOrUpdate, synchronized on the DocumentsWriter: the deletes may
\* have grown so large (apply) that they are all frozen.
ApplyDeleteOrUpdate(kind, key, apply) ==
    /\ kind \in {"delete", "deleteQuery"}
    /\ made.ops < MaxOps /\ ~tragedy
    /\ apply => made.apply < MaxApply
    /\ made' = [made EXCEPT !.ops = made.ops + 1,
                            !.apply = IF apply THEN made.apply + 1 ELSE made.apply]
    /\ log' = [log EXCEPT ![deleteQueue] = Append(log[deleteQueue], [kind |-> kind, key |-> key])]
    /\ IF apply /\ MayApply
         THEN /\ tickets' = Append(tickets,
                    [keys |-> GlobalDeletes(deleteQueue) \cup {key}, dwpt |-> None])
              /\ frozen' = [frozen EXCEPT ![deleteQueue] = Len(log[deleteQueue]) + 1]
         ELSE UNCHANGED <<tickets, frozen>>
    /\ UNCHANGED <<dwpts, state, locked, markVars, applying, purgeLock, streamVars, fullFlushVars,
                   tragedy>>

\* applyAllDeletes from preUpdate, postUpdate or doFlush, not synchronized: it
\* has seen that no full flush is going on ...
CheckApply(t) ==
    /\ t \notin locked /\ applying[t] = None
    /\ made.apply < MaxApply /\ MayApply
    /\ Count("apply")
    /\ applying' = [applying EXCEPT ![t] = deleteQueue]
    /\ UNCHANGED <<opVars, frozen, dwpts, tickets, purgeLock, streamVars, fullFlushVars, tragedy>>

\* ... and then adds the deletes of the queue it has read.
ApplyAllDeletes(t) ==
    /\ applying[t] # None
    /\ AddDeletes(applying[t])
    /\ applying' = [applying EXCEPT ![t] = None]
    /\ UNCHANGED <<opVars, dwpts, purgeLock, streamVars, fullFlushVars, tragedy, made>>
------------------------------------------------------------------------------
(* DocumentsWriter::doFlush.                                               *)

\* prepareFlush: the global deletes are frozen into the ticket.
PrepareFlush(d) ==
    /\ tickets' = Append(tickets, [keys |-> GlobalDeletes(Queue(d)), dwpt |-> d])
    /\ frozen' = Frozen(Queue(d))

\* addFlushTicket by the thread that has checked it out, or by the holder of the
\* fullFlushLock while it helps: it finds DWPTs of the old queue in flushQueue.
AddFlushTicket(d, byMain) ==
    /\ dwpts[d].phase = "pending"
    /\ byMain => main.pc = "help" /\ Queue(d) # deleteQueue
    /\ PrepareFlush(d)
    /\ dwpts' = [dwpts EXCEPT ![d].phase = "ticket", ![d].upto = Len(log[Queue(d)])]
    /\ main' = IF byMain THEN [main EXCEPT !.anythingFlushed = TRUE] ELSE main
    /\ UNCHANGED <<opVars, applying, purgeLock, streamVars, fullFlush,
                   pendingChangesInCurrentFullFlush, tragedy, commit, made>>

\* The segment is written: addSegment, and doAfterFlush.
AddSegment(d) ==
    /\ dwpts[d].phase = "ticket"
    /\ dwpts' = [dwpts EXCEPT ![d].phase = "flushed"]
    /\ UNCHANGED <<opVars, frozen, applying, tickets, purgeLock, streamVars, fullFlushVars,
                   tragedy, made>>

\* It is not: a tragic event and markTicketFailed, and doAfterFlush.
MarkTicketFailed(d) ==
    /\ dwpts[d].phase = "ticket"
    /\ made.failed < MaxFailed
    /\ Count("failed")
    /\ dwpts' = [dwpts EXCEPT ![d].phase = "failed"]
    /\ tragedy' = TRUE
    /\ UNCHANGED <<opVars, frozen, applying, tickets, purgeLock, streamVars, fullFlushVars>>
------------------------------------------------------------------------------
(* purgeFlushTickets and publishFlushedSegments.                           *)

CanPublish(ticket) == ticket.dwpt # None => dwpts[ticket.dwpt].phase \in {"flushed", "failed"}

\* tryPurge, or forcePurge in an event.
StartPurge ==
    /\ purgeLock = "free" /\ tickets # <<>>
    /\ purgeLock' = "helper"
    /\ UNCHANGED <<opVars, frozen, dwpts, applying, tickets, streamVars, fullFlushVars, tragedy,
                   made>>

\* What the flush has resolved: the term deletes after the document.
DeletedByTerm(d) == {x \in dwpts[d].docs : \E y \in Places :
                       Removes(y, x) /\ y[1] = Queue(d) /\ y[2] <= dwpts[d].upto
                       /\ Op(y).kind # "deleteQuery"}
\* What is left to the private packet: the deletes by query after it.
DeletedByQuery(d) == {x \in dwpts[d].docs : \E y \in Places :
                       Removes(y, x) /\ y[1] = Queue(d) /\ y[2] <= dwpts[d].upto
                       /\ Op(y).kind = "deleteQuery"}

GlobalPacket(gen, keys) == [delGen |-> gen, keys |-> keys, dwpt |-> None]
PrivatePacket(gen, d) == [delGen |-> gen, keys |-> {}, dwpt |-> d]

\* Mutant: the segment is published before the global packet of its ticket.
GensSegmentFirst(ticket) == [global |-> nextGen + 1, segment |-> nextGen]

\* publishFlushedSegment takes its two generations in this order.
Gens(ticket) == [global |-> nextGen,
                 segment |-> IF ticket.keys # {} THEN nextGen + 1 ELSE nextGen]

\* The ticket's packet and segment are published: the packets are pushed, a
\* segment without a private packet takes a generation that is finished at
\* once, and one without a live document is dropped.
Publish(ticket) ==
    LET d == ticket.dwpt
        hasSegment == d # None /\ dwpts[d].phase = "flushed"
        global == IF ticket.keys = {} THEN {}
                  ELSE {GlobalPacket(Gens(ticket).global, ticket.keys)}
        private == IF hasSegment /\ DeletedByQuery(d) # {}
                     THEN {PrivatePacket(Gens(ticket).segment, d)} ELSE {}
        live == dwpts[d].docs \ DeletedByTerm(d) IN
    /\ updates' = updates \cup global \cup private
    /\ nextGen' = nextGen + Cardinality(global) + (IF hasSegment THEN 1 ELSE 0)
    /\ segmentInfos' = IF hasSegment /\ live # {}
          THEN segmentInfos \cup {[dwpt |-> d, delGen |-> Gens(ticket).segment, live |-> live]}
          ELSE segmentInfos

PublishTicket(who) ==
    /\ purgeLock = who
    /\ tickets # <<>> /\ CanPublish(Head(tickets))
    /\ Publish(Head(tickets))
    /\ tickets' = Tail(tickets)
    /\ UNCHANGED <<opVars, frozen, dwpts, applying, purgeLock, fullFlushVars, tragedy, made>>

NothingToPublish == tickets # <<>> => ~CanPublish(Head(tickets))

EndPurge ==
    /\ purgeLock = "helper" /\ NothingToPublish
    /\ purgeLock' = "free"
    /\ UNCHANGED <<opVars, frozen, dwpts, applying, tickets, streamVars, fullFlushVars, tragedy,
                   made>>

\* openSegmentStates: a packet concerns the segments that are not newer, a
\* private one its own.
Applies(p, s) == s.delGen <= p.delGen /\ p.dwpt \in {None, s.dwpt}

Resolved(p, s) ==
    IF ~Applies(p, s) THEN s
    ELSE IF p.dwpt = None THEN [s EXCEPT !.live = {x \in s.live : Op(x).key \notin p.keys}]
    ELSE [s EXCEPT !.live = s.live \ DeletedByQuery(p.dwpt)]

\* FrozenBufferedUpdates::apply, in an event or by who waits for the packet.
\* Segments without a live document are dropped.
ApplyPacket(p) ==
    /\ p \in updates
    /\ segmentInfos' = {s \in {Resolved(p, s) : s \in segmentInfos} : s.live # {}}
    /\ updates' = updates \ {p}
    /\ UNCHANGED <<opVars, frozen, dwpts, applying, tickets, purgeLock, nextGen, fullFlushVars,
                   tragedy, made>>
------------------------------------------------------------------------------
(* The full flush: prepareCommitInternal, getReader.                       *)

InRAM == {d \in DOMAIN dwpts : dwpts[d].phase \in {"active", "blocked", "buffered", "pending",
                                                   "ticket"} /\ dwpts[d].docs # {}}

\* DocumentsWriter::anyChanges
anyChanges == InRAM # {} \/ anyChangesIn(deleteQueue) \/ tickets # <<>>
              \/ pendingChangesInCurrentFullFlush

\* Mutant: what is buffered now is not remembered for the time of the flush.
PendingChangesForgotten == FALSE

PendingChanges == anyChanges

At(pc) == main' = [main EXCEPT !.pc = pc]

\* Mutant: the new queue goes on where the old one stopped.
NewQueueUnfrozen == log' = Append(log, <<>>) /\ frozen' = frozen

\* A queue with an empty global slice replaces the old one.
NewQueue == log' = Append(log, <<>>) /\ frozen' = Append(frozen, 0)

\* flushAllThreads swaps the queues under the monitor of the DocumentsWriter.
FlushAllThreads ==
    /\ main.pc = "idle" /\ made.fullFlush < MaxFullFlush /\ ~tragedy
    /\ Count("fullFlush")
    /\ pendingChangesInCurrentFullFlush' = PendingChanges
    /\ fullFlush' = TRUE
    /\ NewQueue
    /\ main' = [MainIdle EXCEPT !.pc = "mark"]
    /\ UNCHANGED <<dwpts, state, locked, markVars, applying, tickets, purgeLock, streamVars,
                   tragedy, commit>>

\* markForFullFlush: one ThreadState, under its lock.
MarkForFullFlush(t) ==
    LET d == state[t]
        stale == d # None /\ Queue(d) # deleteQueue IN
    /\ main.pc = "mark" /\ t \notin main.marked /\ t \notin locked
    /\ main' = [main EXCEPT !.marked = main.marked \cup {t}]
    /\ IF stale
         THEN /\ state' = [state EXCEPT ![t] = None]
              /\ flushPending' = flushPending \ {t}
              /\ dwpts' = [dwpts EXCEPT ![d].phase = IF dwpts[d].docs = {} THEN "empty"
                                                     ELSE "buffered"]
         ELSE UNCHANGED <<state, flushPending, dwpts>>
    /\ UNCHANGED <<log, locked, scanning, overtaken, frozen, applying, tickets, purgeLock,
                   streamVars, fullFlush, pendingChangesInCurrentFullFlush, tragedy, commit, made>>

\* pruneBlockedQueue and the move of fullFlushBuffer to flushQueue.
QueueMarked ==
    /\ main.pc = "mark" /\ main.marked = Threads
    /\ At("help")
    /\ dwpts' = [d \in DOMAIN dwpts |->
          IF dwpts[d].phase \in {"buffered", "blocked"} /\ Queue(d) # deleteQueue
            THEN [dwpts[d] EXCEPT !.phase = "pending"] ELSE dwpts[d]]
    /\ UNCHANGED <<opVars, frozen, applying, tickets, purgeLock, streamVars, fullFlush,
                   pendingChangesInCurrentFullFlush, tragedy, commit, made>>

\* Nothing was flushed, so nothing has frozen the deletes of the old queue.
NeedsTicket(q) == ~main.anythingFlushed /\ anyChangesIn(q)

\* waitForFlush, and then the deletes that no flush has frozen get a ticket.
WaitForFlush ==
    LET q == deleteQueue - 1 IN
    /\ main.pc = "help"
    /\ \A d \in DOMAIN dwpts : dwpts[d].phase \notin {"pending", "ticket"}
    /\ IF NeedsTicket(q) THEN AddDeletes(q) ELSE UNCHANGED <<tickets, frozen>>
    /\ At("forcePurge")
    /\ UNCHANGED <<opVars, dwpts, applying, purgeLock, streamVars, fullFlush,
                   pendingChangesInCurrentFullFlush, tragedy, commit, made>>

\* publishFlushedSegments(true)
ForcePurge ==
    /\ main.pc = "forcePurge" /\ purgeLock = "free"
    /\ purgeLock' = "main"
    /\ At("purge")
    /\ UNCHANGED <<opVars, frozen, dwpts, applying, tickets, streamVars, fullFlush,
                   pendingChangesInCurrentFullFlush, tragedy, commit, made>>

\* The tickets are published; waitApplyAll takes the packets to wait for.
EndForcePurge ==
    /\ main.pc = "purge" /\ NothingToPublish
    /\ purgeLock' = "free"
    /\ main' = [main EXCEPT !.pc = "waitApply", !.waitFor = updates]
    /\ UNCHANGED <<opVars, frozen, dwpts, applying, tickets, streamVars, fullFlush,
                   pendingChangesInCurrentFullFlush, tragedy, commit, made>>

AllApplied == main.waitFor \cap updates = {}

\* The segments are cloned for the commit, or a reader opened on them.  After a
\* tragic event startCommit throws.
CloneSegmentInfos ==
    /\ main.pc = "waitApply" /\ AllApplied /\ ~tragedy
    /\ commit' = [queue |-> deleteQueue - 1, docs |-> UNION {s.live : s \in segmentInfos}]
    /\ At("finish")
    /\ UNCHANGED <<opVars, frozen, dwpts, applying, tickets, purgeLock, streamVars, fullFlush,
                   pendingChangesInCurrentFullFlush, tragedy, made>>

\* finishFullFlush: the blocked DWPTs are flushed, and deletes held back applied.
FinishFullFlush(apply) ==
    /\ main.pc = "finish"
    /\ apply => made.apply < MaxApply
    /\ main' = MainIdle
    /\ fullFlush' = FALSE /\ pendingChangesInCurrentFullFlush' = FALSE
    /\ dwpts' = [d \in DOMAIN dwpts |-> IF dwpts[d].phase = "blocked"
                    THEN [dwpts[d] EXCEPT !.phase = "pending"] ELSE dwpts[d]]
    /\ IF apply THEN AddDeletes(deleteQueue) /\ Count("apply")
       ELSE UNCHANGED <<tickets, frozen, made>>
    /\ UNCHANGED <<opVars, applying, purgeLock, streamVars, tragedy, commit>>
------------------------------------------------------------------------------
Next ==
    \/ \E t \in Threads :
          \/ ObtainAndLock(t) \/ CheckApply(t) \/ ApplyAllDeletes(t) \/ MarkForFullFlush(t)
          \/ TryCheckoutForFlush(t)
          \/ \E kind \in Kinds, key \in Keys, marks \in SUBSET Threads :
                UpdateDocument(t, kind, key, marks)
    \/ NextPendingFlush
    \/ \E kind \in Kinds, key \in Keys, apply \in BOOLEAN : ApplyDeleteOrUpdate(kind, key, apply)
    \/ \E d \in DOMAIN dwpts : \/ AddSegment(d) \/ MarkTicketFailed(d)
                               \/ \E byMain \in BOOLEAN : AddFlushTicket(d, byMain)
    \/ StartPurge \/ EndPurge
    \/ \E who \in {"helper", "main"} : PublishTicket(who)
    \/ \E p \in updates : ApplyPacket(p)
    \/ FlushAllThreads \/ QueueMarked \/ WaitForFlush \/ ForcePurge \/ EndForcePurge
    \/ CloneSegmentInfos
    \/ \E apply \in BOOLEAN : FinishFullFlush(apply)

Spec == Init /\ [][Next]_vars
------------------------------------------------------------------------------
OpRec == [kind : Kinds, key : Keys]
DwptRec == [queue : Nat, docs : SUBSET (Nat \X Nat), upto : Nat,
            phase : {"active", "blocked", "buffered", "pending", "ticket", "flushed", "failed",
                     "empty"}]
Packet == [delGen : Nat, keys : SUBSET Keys, dwpt : Nat]

TypeOK ==
    /\ log \in Seq(Seq(OpRec)) /\ Len(log) > 0
    /\ frozen \in [DOMAIN log -> Nat]
    /\ dwpts \in Seq(DwptRec)
    /\ state \in [Threads -> Nat] /\ locked \subseteq Threads
    /\ flushPending \subseteq Threads /\ scanning \in BOOLEAN /\ overtaken \in BOOLEAN
    /\ applying \in [Threads -> Nat]
    /\ tickets \in Seq([keys : SUBSET Keys, dwpt : Nat])
    /\ purgeLock \in {"free", "helper", "main"}
    /\ segmentInfos \subseteq [dwpt : Nat, delGen : Nat, live : SUBSET (Nat \X Nat)]
    /\ updates \subseteq Packet /\ nextGen \in Nat
    /\ fullFlush \in BOOLEAN /\ pendingChangesInCurrentFullFlush \in BOOLEAN
    /\ tragedy \in BOOLEAN
    /\ main \in [pc : {"idle", "mark", "help", "forcePurge", "purge", "waitApply", "finish"},
                 marked : SUBSET Threads, anythingFlushed : BOOLEAN, waitFor : SUBSET Packet]
    /\ commit \in [queue : Nat, docs : SUBSET (Nat \X Nat)]

\* The documents of a sequential execution of the operations up to queue q.
Replay(q) == {x \in Places : /\ x[1] <= q /\ HasDocument(x)
                             /\ \A y \in Places : y[1] <= q => ~Removes(y, x)}

\* "this commit point should reflect all operations <= this seqNo"
\* (TestIndexingSequenceNumbers.cpp:208): a commit has the documents of the
\* operations of the queues before the swap, applied in the order of their
\* numbers, and nothing of any later operation.  Except when a thread that was
\* late in nextPendingFlush has taken a DWPT of the new queue out of a full
\* flush: its documents may be in the commit, and the deletes of the old queue
\* that come after them.
CommitIsPrefix == ~overtaken => commit.docs = Replay(commit.queue)

\* A published document is gone only because of a younger delete, however flushes,
\* tickets and packets overtake each other.
Published(d) == dwpts[d].phase = "flushed" /\ \A i \in DOMAIN tickets : tickets[i].dwpt # d
NoDeleteTooMany ==
    \A d \in DOMAIN dwpts : Published(d) =>
        \A x \in dwpts[d].docs : \/ \E s \in segmentInfos : x \in s.live
                                 \/ \E y \in Places : Removes(y, x)

\* A delete that has been frozen reaches every older document that is
\* published: it is in a packet that applies to the segment, or in a ticket.
NoDeleteLost ==
    \A s \in segmentInfos : \A x \in s.live : \A y \in Places :
        Removes(y, x) /\ y[2] <= frozen[y[1]] =>
            \/ \E p \in updates : Applies(p, s) /\ x \notin Resolved(p, s).live
            \/ \E i \in DOMAIN tickets : Op(y).key \in tickets[i].keys

\* Deletes and documents meet exactly in the order of their numbers, although
\* they travel apart: in DWPTs, in the global buffer, in tickets and in packets
\* (DocumentsWriterFlushQueue.cpp:80-180, IndexWriter.cpp:2046-2090).  Except
\* when a full flush was overtaken: the deletes of the two queues are then
\* frozen in the wrong order.
DeletesExact == ~overtaken => NoDeleteTooMany /\ NoDeleteLost

\* assert(!flushingDeleteQueue->anyChanges()) at the end of flushAllThreads,
\* whoever has flushed the DWPTs: the queue is never used again.
OldQueueIsFrozen ==
    \A q \in DOMAIN log : main.pc \notin {"mark", "help"} \/ q < deleteQueue - 1 =>
        (q < deleteQueue => ~anyChangesIn(q))

\* "there could be a window where all changes are in the ticket queue before
\* they are published" (DocumentsWriter.cpp:272): while some delete of any
\* queue has not been frozen, anyChanges says so.
UnfrozenIsReported == \A q \in DOMAIN log : anyChangesIn(q) => anyChanges

\* No queue that is given up, and no commit that finds nothing to do, leaves a
\* change behind.
NoChangeForgotten == OldQueueIsFrozen /\ UnfrozenIsReported
==============================================================================
