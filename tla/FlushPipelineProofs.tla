------------------------- MODULE FlushPipelineProofs -------------------------
(***************************************************************************)
(* From a buffered operation to a commit, for any number of threads, keys, *)
(* operations and flushes.  No queue is given up with a delete that has    *)
(* not been frozen.  A commit has exactly the documents of the operations  *)
(* before its queue was swapped, and a delete reaches every older document *)
(* and no younger one, as long as no full flush has been overtaken by a    *)
(* thread that was late in nextPendingFlush (TryCheckoutForFlush).         *)
(***************************************************************************)
EXTENDS FlushPipeline, FiniteSetTheorems, SequenceTheorems, TLAPS

\* The phases of a DWPT before it has a ticket, and after
Waiting == {"active", "blocked", "buffered", "pending"}
Ticketed == {"ticket", "flushed", "failed"}
Phases == Waiting \cup Ticketed \cup {"empty"}
SegmentType == [dwpt : Nat, delGen : Nat, live : SUBSET (Nat \X Nat)]
TicketType == [keys : SUBSET Keys, dwpt : Nat]
MainType == [pc : {"idle", "mark", "help", "forcePurge", "purge", "waitApply", "finish"},
             marked : SUBSET Threads, anythingFlushed : BOOLEAN, waitFor : SUBSET Packet]

Writers == DOMAIN dwpts
Phase(d) == dwpts[d].phase
HasTicket(d) == \E i \in DOMAIN tickets : tickets[i].dwpt = d
InFullFlush == main.pc # "idle"
\* The time in which DWPTs of the old queue are still to be flushed
Swapping == main.pc \in {"mark", "help"}

Refs ==
  /\ \A q \in DOMAIN log : frozen[q] <= Len(log[q])
  /\ \A d \in Writers : Queue(d) \in DOMAIN log
  /\ \A t \in Threads : state[t] \in Writers \cup {None} /\ applying[t] <= deleteQueue
  /\ \A i \in DOMAIN tickets : tickets[i].dwpt \in Writers \cup {None}
  /\ \A s \in segmentInfos : s.dwpt \in Writers /\ s.delGen < nextGen
  /\ \A p \in updates : p.dwpt \in Writers \cup {None} /\ p.delGen < nextGen

\* Every document is in one DWPT, that of its queue; a ticket covers all documents of its
\* DWPT and all deletes numbered before it was made.
DocsPlaced ==
  /\ \A d \in Writers : \A x \in dwpts[d].docs : x \in Places /\ x[1] = Queue(d) /\ HasDocument(x)
  /\ \A d, e \in Writers : d = e \/ dwpts[d].docs \cap dwpts[e].docs = {}
  /\ \A x \in Places : HasDocument(x) => \E d \in Writers : x \in dwpts[d].docs
  /\ \A d \in Writers : Phase(d) = "empty" => dwpts[d].docs = {}
DocsCovered ==
  \A d \in Writers : Phase(d) \in Ticketed =>
        /\ dwpts[d].upto <= frozen[Queue(d)]
        /\ \A x \in dwpts[d].docs : x[2] <= dwpts[d].upto

\* An active DWPT is that of one ThreadState, and one that is held or marked has a DWPT.
ThreadsOwn ==
  /\ \A t \in Threads : state[t] # None => Phase(state[t]) = "active"
  /\ \A t, u \in Threads : state[t] = state[u] /\ state[t] # None => t = u
  /\ \A d \in Writers : Phase(d) = "active" => \E t \in Threads : state[t] = d
  /\ \A t \in locked \cup flushPending : state[t] # None

\* In a full flush, unless it is overtaken, nothing of the new queue is frozen or flushed ...
FullFlushOwn ==
  /\ fullFlush <=> InFullFlush
  /\ InFullFlush => deleteQueue > 1
  /\ InFullFlush => \A t \in Threads : applying[t] < deleteQueue
  /\ InFullFlush /\ ~overtaken => frozen[deleteQueue] = 0
  /\ \A d \in Writers : InFullFlush /\ ~overtaken =>
         /\ Phase(d) = "pending" => Queue(d) < deleteQueue /\ Swapping
         /\ Phase(d) \in Ticketed => Queue(d) < deleteQueue
         /\ Phase(d) = "ticket" => Swapping
\* ... and when it has marked all threads, all DWPTs of the old queue are to be flushed.
OldQueueFlushed ==
  /\ \A d \in Writers : Phase(d) \in Waiting =>
         Queue(d) = deleteQueue \/ (Swapping /\ Queue(d) = deleteQueue - 1)
  /\ \A t \in Threads : state[t] # None =>
         Queue(state[t]) = deleteQueue \/ (main.pc = "mark" /\ t \notin main.marked)
  /\ \A d \in Writers : main.pc = "help" /\ Phase(d) \in Waiting /\ Queue(d) < deleteQueue
         => Phase(d) = "pending"

\* Tickets, segments and private packets belong to DWPTs, each to one.
TicketsOwn ==
  /\ \A i \in DOMAIN tickets : tickets[i].dwpt # None => Phase(tickets[i].dwpt) \in Ticketed
  /\ \A i, j \in DOMAIN tickets :
       tickets[i].dwpt = tickets[j].dwpt /\ tickets[i].dwpt # None => i = j
  /\ \A d \in Writers : Phase(d) = "ticket" => HasTicket(d)
  /\ \A d \in Writers : Phase(d) = "failed" => tragedy
StreamOwns ==
  /\ \A s \in segmentInfos : Published(s.dwpt) /\ s.live \subseteq dwpts[s.dwpt].docs
  /\ \A p \in updates : p.dwpt # None => Published(p.dwpt)

\* A delete that has been frozen, a document that has such a delete after it, and a packet
\* that removes a document from a segment
IsFrozen(y) == y[2] <= frozen[y[1]]
Gone(x) == \E y \in Places : IsFrozen(y) /\ Removes(y, x)
Kills(p, s, x) == /\ Applies(p, s)
                  /\ IF p.dwpt = None THEN Op(x).key \in p.keys ELSE x \in DeletedByQuery(p.dwpt)

\* No document is removed without a younger delete: of those that are published, and of those
\* that packets and tickets are still to remove.
DocsKept ==
  \A d \in Writers : Published(d) =>
    \A x \in dwpts[d].docs : (\E s \in segmentInfos : x \in s.live) \/ Gone(x)
PacketsRight ==
  \A p \in updates : p.dwpt = None =>
    \A s \in segmentInfos : s.delGen <= p.delGen =>
      \A x \in s.live : Op(x).key \in p.keys => Gone(x)
TicketsRight ==
  \A i \in DOMAIN tickets : \A d \in Writers :
    Phase(d) \in Ticketed /\ (\A j \in DOMAIN tickets : j >= i => tickets[j].dwpt # d) =>
      \A x \in dwpts[d].docs : Op(x).key \in tickets[i].keys => Gone(x)

\* Every frozen delete is on its way to every older document: to one that is published, and
\* to one whose ticket waits, unless the flush itself resolves it.
DeletesReach ==
  \A s \in segmentInfos : \A x \in s.live : \A y \in Places : Removes(y, x) /\ IsFrozen(y) =>
     \/ \E p \in updates : Kills(p, s, x)
     \/ \E i \in DOMAIN tickets : Op(y).key \in tickets[i].keys
ByFlush(y, d) == y[1] = Queue(d) /\ y[2] <= dwpts[d].upto
DeletesFollow ==
  \A j \in DOMAIN tickets : \A d \in Writers : tickets[j].dwpt = d =>
    \A x \in dwpts[d].docs : \A y \in Places :
      Removes(y, x) /\ IsFrozen(y) /\ ~ByFlush(y, d)
        => \E i \in DOMAIN tickets : i > j /\ Op(y).key \in tickets[i].keys

Order == ~overtaken => /\ DocsKept /\ PacketsRight /\ TicketsRight
                       /\ DeletesReach /\ DeletesFollow

\* What is not frozen: only deletes of the current queue, and in a full flush those of the old
\* one until it has been flushed.
AllFrozen(q) == \A n \in DOMAIN log[q] : Deletes(<<q, n>>) => n <= frozen[q]
QueuesFrozen ==
  /\ \A q \in DOMAIN log : q < deleteQueue - 1 => AllFrozen(q)
  /\ ~Swapping /\ deleteQueue > 1 => AllFrozen(deleteQueue - 1)
  /\ main.pc = "help" /\ main.anythingFlushed => AllFrozen(deleteQueue - 1)
  /\ main.pc = "mark" => ~main.anythingFlushed
\* Of those of the old queue that came without a document, the full flush knows.
Reported ==
  Swapping => \A n \in DOMAIN log[deleteQueue - 1] :
    ~HasDocument(<<deleteQueue - 1, n>>) /\ n > frozen[deleteQueue - 1]
      => pendingChangesInCurrentFullFlush

\* A commit is older than what is written, and when its segments are cloned there is nothing
\* left for them but the packets it has waited for.
CommitOld ==
  /\ commit.queue < deleteQueue
  /\ main.pc \in {"mark", "help", "forcePurge", "purge", "waitApply"}
       => commit.queue < deleteQueue - 1
Flushed ==
  main.pc = "waitApply" /\ ~overtaken =>
    /\ \A i \in DOMAIN tickets : tickets[i].dwpt = None /\ tickets[i].keys = {}
    /\ \A s \in segmentInfos : \A x \in s.live : \A y \in Places :
         Removes(y, x) /\ y[1] < deleteQueue
           => \E p \in updates \cap main.waitFor : Kills(p, s, x)

Inv ==
  /\ TypeOK /\ Refs
  /\ DocsPlaced /\ DocsCovered /\ ThreadsOwn /\ FullFlushOwn /\ OldQueueFlushed
  /\ TicketsOwn /\ StreamOwns
  /\ Order
  /\ QueuesFrozen /\ Reported
  /\ CommitOld /\ CommitIsPrefix /\ Flushed
------------------------------------------------------------------------------
(* Sequences and places.                                                   *)

\* Appending to a sequence keeps what is there.
LEMMA AppendIs ==
  ASSUME NEW T, NEW S \in Seq(T), NEW e \in T
  PROVE  /\ Append(S, e) \in Seq(T) /\ Len(Append(S, e)) = Len(S) + 1
         /\ DOMAIN Append(S, e) = 1 .. Len(S) + 1 /\ DOMAIN S = 1 .. Len(S) /\ Len(S) \in Nat
         /\ Append(S, e)[Len(S) + 1] = e
         /\ \A i \in 1 .. Len(S) : Append(S, e)[i] = S[i]
OBVIOUS

\* What is known of the types of the operations
LEMMA LogTypes ==
  ASSUME TypeOK
  PROVE  /\ Len(log) \in Nat /\ DOMAIN log = 1 .. Len(log) /\ deleteQueue \in DOMAIN log
         /\ \A q \in DOMAIN log :
              /\ log[q] \in Seq(OpRec) /\ Len(log[q]) \in Nat /\ DOMAIN log[q] = 1 .. Len(log[q])
              /\ frozen[q] \in Nat
              /\ \A n \in DOMAIN log[q] : log[q][n] \in OpRec
<1>1. /\ log \in Seq(Seq(OpRec)) /\ Len(log) > 0 /\ frozen \in [DOMAIN log -> Nat]
  BY DEF TypeOK
<1>2. /\ Len(log) \in Nat /\ DOMAIN log = 1 .. Len(log) /\ deleteQueue \in DOMAIN log
  BY <1>1 DEF deleteQueue
<1>3. ASSUME NEW q \in DOMAIN log
      PROVE  /\ log[q] \in Seq(OpRec) /\ Len(log[q]) \in Nat /\ DOMAIN log[q] = 1 .. Len(log[q])
             /\ frozen[q] \in Nat
             /\ \A n \in DOMAIN log[q] : log[q][n] \in OpRec
  <2>1. log[q] \in Seq(OpRec) /\ frozen[q] \in Nat  BY <1>1, <1>3
  <2>2. Len(log[q]) \in Nat /\ DOMAIN log[q] = 1 .. Len(log[q])  BY <2>1
  <2>3. \A n \in DOMAIN log[q] : log[q][n] \in OpRec  BY <2>1
  <2> QED  BY <2>1, <2>2, <2>3
<1> QED  BY <1>2, <1>3

LEMMA FrozenTypes == ASSUME TypeOK PROVE \A q \in DOMAIN log : frozen[q] \in Nat
BY LogTypes
LEMMA FrozenTypeNext == ASSUME TypeOK' PROVE (\A q \in DOMAIN log : frozen[q] \in Nat)'
BY FrozenTypes, PTL

\* ... and of those of the DWPTs
LEMMA WriterTypes ==
  ASSUME TypeOK
  PROVE  /\ Len(dwpts) \in Nat /\ Writers = 1 .. Len(dwpts)
         /\ \A d \in Writers :
              /\ dwpts[d] \in DwptRec
              /\ Queue(d) \in Nat /\ dwpts[d].docs \subseteq Nat \X Nat
              /\ dwpts[d].upto \in Nat /\ Phase(d) \in Phases
<1>1. dwpts \in Seq(DwptRec)  BY DEF TypeOK
<1>2. \A d \in DOMAIN dwpts : dwpts[d] \in DwptRec  BY <1>1
<1> QED  BY <1>1, <1>2 DEF Writers, DwptRec, Queue, Phase, Phases, Waiting, Ticketed

LEMMA NoneIsNoWriter == ASSUME TypeOK PROVE None \notin Writers
BY WriterTypes DEF None
LEMMA NoneIsNoWriterNext == ASSUME TypeOK' PROVE (None \notin Writers)'
BY NoneIsNoWriter, PTL

\* A place is a number in a queue.
LEMMA PlaceIs ==
  /\ \A q, n : <<q, n>> \in Places <=> q \in DOMAIN log /\ n \in DOMAIN log[q]
  /\ \A x \in Places : x = <<x[1], x[2]>> /\ x[1] \in DOMAIN log /\ x[2] \in DOMAIN log[x[1]]
<1>1. \A q, n : <<q, n>> \in Places <=> q \in DOMAIN log /\ n \in DOMAIN log[q]
  BY DEF Places
<1>2. \A x \in Places : \E q \in DOMAIN log : \E n \in DOMAIN log[q] : x = <<q, n>>
  BY DEF Places
<1> QED  BY <1>1, <1>2

LEMMA PlaceTypes ==
  ASSUME TypeOK
  PROVE  \A x \in Places : /\ x[1] \in Nat /\ x[2] \in Nat /\ x[2] > 0 /\ x[1] > 0
                           /\ x[1] <= deleteQueue /\ x[2] <= Len(log[x[1]])
                           /\ x \in Nat \X Nat /\ Op(x) \in OpRec
<1> SUFFICES ASSUME NEW x \in Places
             PROVE  /\ x[1] \in Nat /\ x[2] \in Nat /\ x[2] > 0 /\ x[1] > 0
                    /\ x[1] <= deleteQueue /\ x[2] <= Len(log[x[1]])
                    /\ x \in Nat \X Nat /\ Op(x) \in OpRec
  OBVIOUS
<1>1. x = <<x[1], x[2]>> /\ x[1] \in DOMAIN log /\ x[2] \in DOMAIN log[x[1]]  BY PlaceIs
<1>2. x[1] \in 1 .. Len(log) /\ x[2] \in 1 .. Len(log[x[1]]) /\ Len(log[x[1]]) \in Nat
      /\ Len(log) \in Nat
  BY <1>1, LogTypes
<1>3. x[1] \in Nat /\ x[2] \in Nat  BY <1>2
<1>4. x \in Nat \X Nat  BY <1>1, <1>3
<1>5. Op(x) \in OpRec  BY <1>1, LogTypes DEF Op
<1> QED  BY <1>2, <1>3, <1>4, <1>5 DEF deleteQueue

\* The same of the next state
LEMMA PlaceIsNext ==
  (/\ \A q, n : <<q, n>> \in Places <=> q \in DOMAIN log /\ n \in DOMAIN log[q]
   /\ \A x \in Places : x = <<x[1], x[2]>> /\ x[1] \in DOMAIN log /\ x[2] \in DOMAIN log[x[1]])'
BY PlaceIs, PTL
LEMMA PlaceTypesNext ==
  ASSUME TypeOK'
  PROVE  (\A x \in Places : /\ x[1] \in Nat /\ x[2] \in Nat /\ x[2] > 0 /\ x[1] > 0
                            /\ x[1] <= deleteQueue /\ x[2] <= Len(log[x[1]])
                            /\ x \in Nat \X Nat /\ Op(x) \in OpRec)'
BY PlaceTypes, PTL
------------------------------------------------------------------------------
(* What every step keeps.                                                  *)

\* ... once a full flush has been overtaken, that is not forgotten
LogGrows ==
  /\ overtaken => overtaken'
  /\ \A q \in DOMAIN log :
       /\ q \in DOMAIN log' /\ frozen[q] <= frozen'[q]
       /\ \A n \in DOMAIN log[q] : n \in DOMAIN log'[q] /\ log'[q][n] = log[q][n]
FlushedStay ==
  \A d \in Writers :
    /\ d \in DOMAIN dwpts' /\ dwpts'[d].queue = dwpts[d].queue
    /\ Phase(d) \in Ticketed =>
         /\ dwpts'[d].docs = dwpts[d].docs /\ dwpts'[d].upto = dwpts[d].upto
         /\ dwpts'[d].phase \in Ticketed
         /\ Phase(d) = "flushed" => dwpts'[d].phase = "flushed"
         /\ Phase(d) = "failed" => dwpts'[d].phase = "failed"

LEMMA OpsStay ==
  ASSUME LogGrows
  PROVE  /\ Places \subseteq Places'
         /\ \A x \in Places : Op(x)' = Op(x)
         /\ \A x, y \in Places : Removes(y, x)' <=> Removes(y, x)
         /\ \A x \in Places : HasDocument(x)' <=> HasDocument(x)
<1>1. /\ \A q, n : <<q, n>> \in Places' <=> q \in DOMAIN log' /\ n \in DOMAIN log'[q]
      /\ \A x \in Places : x = <<x[1], x[2]>> /\ x[1] \in DOMAIN log /\ x[2] \in DOMAIN log[x[1]]
  BY PlaceIs, PlaceIsNext
<1>2. \A x \in Places : x \in Places' /\ Op(x)' = Op(x)
  BY <1>1 DEF LogGrows, Op
<1>3. Places \subseteq Places'  BY <1>2
<1>4. \A x, y \in Places : Removes(y, x)' <=> Removes(y, x)
  BY <1>2 DEF Removes, Deletes, Before
<1>5. \A x \in Places : HasDocument(x)' <=> HasDocument(x)
  BY <1>2 DEF HasDocument
<1> QED  BY <1>2, <1>3, <1>4, <1>5

LEMMA FrozenStays ==
  ASSUME TypeOK, TypeOK', LogGrows, NEW y \in Places, IsFrozen(y)
  PROVE  IsFrozen(y)'
<1>1. y[1] \in DOMAIN log /\ y[2] \in Nat  BY PlaceIs, PlaceTypes
<1>2. frozen[y[1]] <= frozen'[y[1]] /\ y[1] \in DOMAIN log'  BY <1>1 DEF LogGrows
<1>3. frozen[y[1]] \in Nat  BY <1>1, LogTypes
<1>4. frozen'[y[1]] \in Nat
  BY <1>2 DEF TypeOK
<1> QED  BY <1>1, <1>2, <1>3, <1>4 DEF IsFrozen

\* A document that has a frozen delete after it keeps it.
LEMMA GoneStays ==
  ASSUME TypeOK, TypeOK', LogGrows, NEW x \in Places, Gone(x)
  PROVE  Gone(x)'
<1>1. PICK y \in Places : IsFrozen(y) /\ Removes(y, x)  BY DEF Gone
<1>2. y \in Places' /\ Removes(y, x)'  BY <1>1, OpsStay
<1>3. IsFrozen(y)'  BY <1>1, FrozenStays
<1> QED  BY <1>2, <1>3 DEF Gone

\* What a flush has resolved was in its queue before, and stays as it is.
LEMMA DeletedStay ==
  ASSUME TypeOK, TypeOK', Refs, DocsPlaced, DocsCovered, LogGrows, FlushedStay,
         NEW d \in Writers, Phase(d) \in Ticketed
  PROVE  /\ DeletedByTerm(d)' = DeletedByTerm(d)
         /\ DeletedByQuery(d)' = DeletedByQuery(d)
<1>1. /\ dwpts'[d].docs = dwpts[d].docs /\ dwpts'[d].upto = dwpts[d].upto
      /\ dwpts'[d].queue = dwpts[d].queue
  BY DEF FlushedStay
<1>2. /\ Queue(d) \in DOMAIN log /\ dwpts[d].upto \in Nat
      /\ dwpts[d].upto <= Len(log[Queue(d)])
  <2>1. Queue(d) \in DOMAIN log /\ frozen[Queue(d)] <= Len(log[Queue(d)])
    BY DEF Refs
  <2>2. dwpts[d].upto <= frozen[Queue(d)]  BY DEF DocsCovered
  <2>3. dwpts[d].upto \in Nat  BY WriterTypes
  <2>4. Len(log[Queue(d)]) \in Nat /\ frozen[Queue(d)] \in Nat  BY <2>1, LogTypes
  <2> QED  BY <2>1, <2>2, <2>3, <2>4
<1>3. ASSUME NEW y \in Places', y[1] = Queue(d), y[2] <= dwpts[d].upto
      PROVE  y \in Places
  <2>1. y = <<y[1], y[2]>> /\ y[2] \in Nat /\ y[2] > 0  BY PlaceIsNext, PlaceTypesNext
  <2>2. y[2] \in DOMAIN log[y[1]]
    BY <1>2, <1>3, <2>1, LogTypes
  <2> QED  BY <1>2, <1>3, <2>1, <2>2, PlaceIs
<1>4. \A x \in dwpts[d].docs : x \in Places  BY DEF DocsPlaced
<1>5. DeletedByTerm(d)' = DeletedByTerm(d)
  BY <1>1, <1>3, <1>4, OpsStay DEF DeletedByTerm, Queue
<1>6. DeletedByQuery(d)' = DeletedByQuery(d)
  BY <1>1, <1>3, <1>4, OpsStay DEF DeletedByQuery, Queue
<1> QED  BY <1>5, <1>6

\* What a packet removes, it removes later too.
LEMMA KillsStay ==
  ASSUME TypeOK, TypeOK', Refs, DocsPlaced, DocsCovered, StreamOwns, LogGrows, FlushedStay,
         NEW p \in updates, NEW s, NEW x \in Places, Kills(p, s, x)
  PROVE  Kills(p, s, x)'
<1>1. CASE p.dwpt = None
  BY <1>1, OpsStay DEF Kills, Applies
<1>2. CASE p.dwpt # None
  <2>1. p.dwpt \in Writers /\ Phase(p.dwpt) \in Ticketed
    BY <1>2 DEF Refs, StreamOwns, Published, Ticketed, Phase
  <2>2. DeletedByQuery(p.dwpt)' = DeletedByQuery(p.dwpt)  BY <2>1, DeletedStay
  <2> QED  BY <1>2, <2>2 DEF Kills, Applies
<1> QED  BY <1>1, <1>2
------------------------------------------------------------------------------
(* The order of documents and deletes: steps that freeze and publish       *)
(* nothing.                                                                *)

Quiet ==
  /\ tickets' = tickets /\ segmentInfos' = segmentInfos /\ updates' = updates
  /\ \A x \in Places' : x \notin Places => ~IsFrozen(x)'
  /\ \A q \in DOMAIN log : frozen'[q] = frozen[q]
  /\ \A d \in DOMAIN dwpts' : dwpts'[d].phase \in Ticketed => d \in Writers /\ Phase(d) \in Ticketed
  /\ \A d \in Writers : dwpts'[d].phase = "flushed" => Phase(d) = "flushed" \/ HasTicket(d)

\* In such a step the flushed DWPTs, their documents and the frozen deletes are the same.
LEMMA QuietKeeps ==
  ASSUME Inv, TypeOK', LogGrows, FlushedStay, Quiet
  PROVE  /\ \A y \in Places' : IsFrozen(y)' => y \in Places /\ IsFrozen(y)
         /\ \A d \in Writers' : Phase(d)' \in Ticketed =>
              /\ d \in Writers /\ Phase(d) \in Ticketed
              /\ dwpts'[d].docs = dwpts[d].docs /\ dwpts'[d].upto = dwpts[d].upto
              /\ dwpts'[d].queue = dwpts[d].queue
              /\ \A x \in dwpts[d].docs : x \in Places
              /\ Published(d)' => Published(d)
<1>1. ASSUME NEW y \in Places', IsFrozen(y)'  PROVE y \in Places /\ IsFrozen(y)
  <2>1. y \in Places  BY <1>1 DEF Quiet
  <2>2. y[1] \in DOMAIN log  BY <2>1, PlaceIs
  <2> QED  BY <1>1, <2>1, <2>2 DEF Quiet, IsFrozen
<1>2. ASSUME NEW d \in Writers', Phase(d)' \in Ticketed
      PROVE  /\ d \in Writers /\ Phase(d) \in Ticketed
             /\ dwpts'[d].docs = dwpts[d].docs /\ dwpts'[d].upto = dwpts[d].upto
             /\ dwpts'[d].queue = dwpts[d].queue
             /\ \A x \in dwpts[d].docs : x \in Places
             /\ Published(d)' => Published(d)
  <2>1. d \in Writers /\ Phase(d) \in Ticketed  BY <1>2 DEF Quiet, Writers, Phase
  <2>2. /\ dwpts'[d].docs = dwpts[d].docs /\ dwpts'[d].upto = dwpts[d].upto
        /\ dwpts'[d].queue = dwpts[d].queue
    BY <2>1 DEF FlushedStay
  <2>3. \A x \in dwpts[d].docs : x \in Places  BY <2>1 DEF Inv, DocsPlaced
  <2>4. Published(d)' => Published(d)
    BY <2>1 DEF Quiet, Published, HasTicket, Phase
  <2> QED  BY <2>1, <2>2, <2>3, <2>4
<1> QED  BY <1>1, <1>2

LEMMA QuietDocsKept ==
  ASSUME Inv, ~overtaken, TypeOK', LogGrows, FlushedStay, Quiet
  PROVE  DocsKept'
<1> SUFFICES ASSUME NEW d \in Writers', Published(d)', NEW x \in dwpts'[d].docs
             PROVE  (\E s \in segmentInfos' : x \in s.live) \/ Gone(x)'
  BY DEF DocsKept
<1>1. Phase(d)' \in Ticketed  BY DEF Published, Phase, Ticketed
<1>2. d \in Writers /\ x \in dwpts[d].docs /\ x \in Places /\ Published(d)
  BY <1>1, QuietKeeps
<1>3. (\E s \in segmentInfos : x \in s.live) \/ Gone(x)
  BY <1>2 DEF Inv, Order, DocsKept
<1>4. Gone(x) => Gone(x)'  BY <1>2, GoneStays DEF Inv
<1> QED  BY <1>3, <1>4 DEF Quiet

LEMMA LiveIsPlaced ==
  ASSUME Inv, NEW s \in segmentInfos, NEW x \in s.live
  PROVE  /\ x \in Places /\ s.dwpt \in Writers /\ x \in dwpts[s.dwpt].docs
         /\ Phase(s.dwpt) = "flushed" /\ Phase(s.dwpt) \in Ticketed
         /\ \A i \in DOMAIN tickets : tickets[i].dwpt # s.dwpt
<1>1. s.dwpt \in Writers /\ Published(s.dwpt) /\ x \in dwpts[s.dwpt].docs
  BY DEF Inv, Refs, StreamOwns
<1>2. x \in Places  BY <1>1 DEF Inv, DocsPlaced
<1> QED  BY <1>1, <1>2 DEF Published, Phase, Ticketed

LEMMA QuietPacketsRight ==
  ASSUME Inv, ~overtaken, TypeOK', LogGrows, FlushedStay, Quiet
  PROVE  PacketsRight'
<1> SUFFICES ASSUME NEW p \in updates, p.dwpt = None, NEW s \in segmentInfos,
                    s.delGen <= p.delGen, NEW x \in s.live, Op(x)'.key \in p.keys
             PROVE  Gone(x)'
  BY DEF PacketsRight, Quiet
<1>1. x \in Places  BY LiveIsPlaced
<1>2. Op(x).key \in p.keys  BY <1>1, OpsStay
<1>3. Gone(x)  BY <1>2 DEF Inv, Order, PacketsRight
<1> QED  BY <1>1, <1>3, GoneStays DEF Inv

LEMMA QuietTicketsRight ==
  ASSUME Inv, ~overtaken, TypeOK', LogGrows, FlushedStay, Quiet
  PROVE  TicketsRight'
<1> SUFFICES ASSUME NEW i \in DOMAIN tickets, NEW d \in Writers', Phase(d)' \in Ticketed,
                    \A j \in DOMAIN tickets : j >= i => tickets[j].dwpt # d,
                    NEW x \in dwpts'[d].docs, Op(x)'.key \in tickets[i].keys
             PROVE  Gone(x)'
  BY DEF TicketsRight, Quiet
<1>1. d \in Writers /\ Phase(d) \in Ticketed /\ x \in dwpts[d].docs /\ x \in Places
  BY QuietKeeps
<1>2. Op(x).key \in tickets[i].keys  BY <1>1, OpsStay
<1>3. Gone(x)  BY <1>1, <1>2 DEF Inv, Order, TicketsRight
<1> QED  BY <1>1, <1>3, GoneStays DEF Inv

LEMMA QuietDeletesReach ==
  ASSUME Inv, ~overtaken, TypeOK', LogGrows, FlushedStay, Quiet
  PROVE  DeletesReach'
<1> SUFFICES ASSUME NEW s \in segmentInfos, NEW x \in s.live, NEW y \in Places',
                    Removes(y, x)', IsFrozen(y)'
             PROVE  \/ \E p \in updates : Kills(p, s, x)'
                    \/ \E i \in DOMAIN tickets : Op(y)'.key \in tickets[i].keys
  BY DEF DeletesReach, Quiet
<1>1. x \in Places  BY LiveIsPlaced
<1>2. y \in Places /\ IsFrozen(y)  BY QuietKeeps
<1>3. Removes(y, x) /\ Op(y)' = Op(y)  BY <1>1, <1>2, OpsStay
<1>4. \/ \E p \in updates : Kills(p, s, x)
      \/ \E i \in DOMAIN tickets : Op(y).key \in tickets[i].keys
  BY <1>2, <1>3 DEF Inv, Order, DeletesReach
<1>5. \A p \in updates : Kills(p, s, x) => Kills(p, s, x)'  BY <1>1, KillsStay DEF Inv
<1> QED  BY <1>3, <1>4, <1>5

LEMMA QuietDeletesFollow ==
  ASSUME Inv, ~overtaken, TypeOK', LogGrows, FlushedStay, Quiet
  PROVE  DeletesFollow'
<1> SUFFICES ASSUME NEW j \in DOMAIN tickets, NEW d \in Writers', tickets[j].dwpt = d,
                    NEW x \in dwpts'[d].docs, NEW y \in Places',
                    Removes(y, x)', IsFrozen(y)', ~ByFlush(y, d)'
             PROVE  \E i \in DOMAIN tickets : i > j /\ Op(y)'.key \in tickets[i].keys
  BY DEF DeletesFollow, Quiet
<1>1. d \in Writers /\ Phase(d) \in Ticketed
  <2>1. d # None  BY NoneIsNoWriterNext
  <2> QED  BY <2>1 DEF Inv, TicketsOwn, Refs
<1>2. d \in Writers /\ x \in dwpts[d].docs /\ x \in Places /\ ~ByFlush(y, d)
  <2>1. Phase(d)' \in Ticketed  BY <1>1 DEF FlushedStay, Phase
  <2> QED  BY <2>1, QuietKeeps DEF ByFlush, Queue
<1>3. y \in Places /\ IsFrozen(y)  BY QuietKeeps
<1>4. Removes(y, x) /\ Op(y)' = Op(y)  BY <1>2, <1>3, OpsStay
<1> QED  BY <1>2, <1>3, <1>4 DEF Inv, Order, DeletesFollow

LEMMA QuietOrder ==
  ASSUME Inv, TypeOK', LogGrows, FlushedStay, Quiet
  PROVE  Order'
BY QuietDocsKept, QuietPacketsRight, QuietTicketsRight, QuietDeletesReach, QuietDeletesFollow
   DEF Order, LogGrows
------------------------------------------------------------------------------
(* Steps that freeze the deletes of queue q into a ticket, that of DWPT d  *)
(* or one without a DWPT.                                                  *)

Freezes(q, d, K) ==
  /\ segmentInfos' = segmentInfos /\ updates' = updates
  /\ tickets' = Append(tickets, [keys |-> K, dwpt |-> d])
  /\ q \in DOMAIN log /\ DOMAIN log' = DOMAIN log /\ (log' # log => q = deleteQueue)
  /\ \A r \in DOMAIN log : frozen'[r] = IF r = q THEN Len(log'[q]) ELSE frozen[r]
  /\ \A n \in DOMAIN log'[q] :
        n > frozen[q] /\ log'[q][n].kind # "add" => log'[q][n].key \in K
  /\ \A k \in K : \E n \in DOMAIN log'[q] :
        n > frozen[q] /\ log'[q][n].kind # "add" /\ log'[q][n].key = k
  /\ \A x \in Places' : x \notin Places => x[1] = q
  /\ d # None =>
       /\ d \in Writers /\ Phase(d) \in Waiting /\ q = Queue(d) /\ log' = log
       /\ dwpts'[d].docs = dwpts[d].docs /\ dwpts'[d].upto = Len(log[q])
  /\ \A e \in DOMAIN dwpts' : dwpts'[e].phase \in Ticketed =>
       e \in Writers /\ (e = d \/ Phase(e) \in Ticketed)
  /\ \A e \in Writers : dwpts'[e].phase = "flushed" => Phase(e) = "flushed"

LEMMA UnfrozenQueue ==
  ASSUME Inv, NEW q \in DOMAIN log, ~AllFrozen(q)
  PROVE  q = deleteQueue \/ (Swapping /\ q = deleteQueue - 1)
<1>1. Len(log) \in Nat /\ q \in 1 .. Len(log)  BY LogTypes DEF Inv
<1> QED  BY <1>1 DEF Inv, QueuesFrozen, deleteQueue

\* What is frozen now was frozen before, or is in the new ticket.
LEMMA FrozenOrKey ==
  ASSUME Inv, TypeOK', LogGrows, NEW q, NEW d, NEW K, Freezes(q, d, K),
         NEW y \in Places', IsFrozen(y)', Deletes(y)'
  PROVE  (y \in Places /\ IsFrozen(y)) \/ (y[1] = q /\ Op(y)'.key \in K)
<1>1. y = <<y[1], y[2]>> /\ y[1] \in DOMAIN log' /\ y[2] \in DOMAIN log'[y[1]]
  BY PlaceIsNext
<1>2. y[2] \in Nat /\ y[2] > 0 /\ frozen[q] \in Nat /\ frozen[q] <= Len(log[q])
      /\ Len(log[q]) \in Nat /\ DOMAIN log[q] = 1 .. Len(log[q]) /\ q \in DOMAIN log
  BY PlaceTypesNext, LogTypes DEF Freezes, Inv, Refs
<1>3. CASE y[1] # q
  <2>1. y \in Places  BY <1>3 DEF Freezes
  <2>2. IsFrozen(y)  BY <1>1, <1>3 DEF Freezes, IsFrozen
  <2> QED  BY <2>1, <2>2
<1>4. CASE y[1] = q /\ y[2] <= frozen[q]
  <2>1. y[2] \in DOMAIN log[q]  BY <1>2, <1>4
  <2>2. y \in Places  BY <1>1, <1>2, <1>4, <2>1, PlaceIs
  <2> QED  BY <1>4, <2>2 DEF IsFrozen
<1>5. CASE y[1] = q /\ y[2] > frozen[q]
  <2>1. log'[q][y[2]].kind # "add" /\ Op(y)' = log'[q][y[2]]
    BY <1>5 DEF Deletes, Op
  <2> QED  BY <1>1, <1>5, <2>1 DEF Freezes
<1> QED  BY <1>2, <1>3, <1>4, <1>5

\* The keys of the new ticket are those of deletes younger than any document with a ticket.
LEMMA KeyGone ==
  ASSUME Inv, ~overtaken, TypeOK', Refs', LogGrows, NEW q, NEW d, NEW K, Freezes(q, d, K),
         NEW e \in Writers, Phase(e) \in Ticketed, NEW x \in dwpts[e].docs, Op(x).key \in K
  PROVE  Gone(x)'
<1>1. PICK n \in DOMAIN log'[q] :
         n > frozen[q] /\ log'[q][n].kind # "add" /\ log'[q][n].key = Op(x).key
  BY DEF Freezes
<1> DEFINE y == <<q, n>>
<1>2. x \in Places /\ x[1] = Queue(e)  BY DEF Inv, DocsPlaced
<1>3. q \in DOMAIN log /\ q \in DOMAIN log'  BY DEF Freezes
<1>4. y \in Places'  BY <1>1, <1>3, PlaceIsNext
<1>5. q \in Nat /\ n \in Nat /\ n <= Len(log'[q])
  <2>1. y[1] \in Nat /\ y[2] \in Nat /\ y[2] <= Len(log'[y[1]])
    BY <1>4, PlaceTypesNext
  <2> QED  BY <2>1
<1>6. IsFrozen(y)'  BY <1>3, <1>5 DEF IsFrozen, Freezes
<1>7. x[1] = q => x[2] < n
  <2>1. x[2] <= dwpts[e].upto /\ dwpts[e].upto <= frozen[Queue(e)]
    BY DEF Inv, DocsCovered
  <2>2. dwpts[e].upto \in Nat /\ frozen[q] \in Nat  BY <1>3, WriterTypes, LogTypes DEF Inv
  <2>3. x[2] \in Nat  BY <1>2, PlaceTypes DEF Inv
  <2> QED  BY <1>1, <1>2, <1>5, <2>1, <2>2, <2>3
<1>8. x[1] <= q
  <2>1. x[1] \in Nat /\ x[1] <= deleteQueue  BY <1>2, PlaceTypes DEF Inv
  <2>2. SUFFICES ASSUME q # deleteQueue, x[1] > q PROVE FALSE
    BY <1>5, <2>1
  <2>3. log' = log  BY <2>2 DEF Freezes
  <2>4. ~AllFrozen(q)
    <3>1. frozen[q] \in Nat  BY <1>3, LogTypes DEF Inv
    <3> QED  BY <1>1, <1>5, <2>3, <3>1 DEF AllFrozen, Deletes, Op
  <2>5. Swapping /\ q = deleteQueue - 1  BY <1>3, <2>2, <2>4, UnfrozenQueue
  <2>6. Queue(e) < deleteQueue
    BY <2>5 DEF Inv, FullFlushOwn, InFullFlush, Swapping
  <2>7. deleteQueue \in Nat  BY LogTypes DEF Inv, deleteQueue
  <2> QED  BY <1>2, <1>5, <2>1, <2>2, <2>5, <2>6, <2>7
<1>9. Removes(y, x)'
  <2>1. Op(x)' = Op(x)  BY <1>2, OpsStay
  <2>2. Op(y)' = log'[q][n]  BY DEF Op
  <2>3. x[1] \in Nat  BY <1>2, PlaceTypes DEF Inv
  <2>4. Before(x, y)  BY <1>5, <1>7, <1>8, <2>3 DEF Before
  <2> HIDE DEF y
  <2> QED  BY <1>1, <2>1, <2>2, <2>4 DEF Removes, Deletes, Before
<1> QED  BY <1>4, <1>6, <1>9 DEF Gone

LEMMA FreezeTickets ==
  ASSUME Inv, NEW q, NEW d, NEW K \in SUBSET Keys, d \in Nat,
         tickets' = Append(tickets, [keys |-> K, dwpt |-> d])
  PROVE  /\ Len(tickets) \in Nat /\ DOMAIN tickets = 1 .. Len(tickets)
         /\ DOMAIN tickets' = 1 .. Len(tickets) + 1
         /\ \A i \in DOMAIN tickets : tickets'[i] = tickets[i]
         /\ tickets'[Len(tickets) + 1].keys = K /\ tickets'[Len(tickets) + 1].dwpt = d
         /\ tickets' \in Seq(TicketType)
<1> DEFINE e == [keys |-> K, dwpt |-> d]
<1>1. e \in TicketType /\ e.keys = K /\ e.dwpt = d  BY DEF TicketType
<1>2. tickets \in Seq(TicketType)  BY DEF Inv, TypeOK, TicketType
<1>3. tickets' = Append(tickets, e)  OBVIOUS
<1> HIDE DEF e
<1> QED  BY <1>1, <1>2, <1>3, AppendIs
\* The DWPTs that are flushed, and have their documents published, with such a step
LEMMA FreezeWriters ==
  ASSUME Inv, TypeOK', LogGrows, FlushedStay,
         NEW q, NEW d \in Nat, NEW K \in SUBSET Keys, Freezes(q, d, K)
  PROVE  /\ \A e \in Writers' : Phase(e)' \in Ticketed /\ e # d =>
              /\ e \in Writers /\ Phase(e) \in Ticketed /\ dwpts'[e].docs = dwpts[e].docs
              /\ dwpts'[e].upto = dwpts[e].upto /\ dwpts'[e].queue = dwpts[e].queue
              /\ \A x \in dwpts[e].docs : x \in Places
         /\ \A e \in Writers' : Published(e)' => e # d /\ Published(e)
         /\ \A i \in DOMAIN tickets : tickets[i].dwpt = d => d = None
<1>1. ASSUME NEW e \in Writers', Phase(e)' \in Ticketed, e # d
      PROVE  /\ e \in Writers /\ Phase(e) \in Ticketed /\ dwpts'[e].docs = dwpts[e].docs
             /\ dwpts'[e].upto = dwpts[e].upto /\ dwpts'[e].queue = dwpts[e].queue
             /\ \A x \in dwpts[e].docs : x \in Places
  <2>1. e \in Writers /\ Phase(e) \in Ticketed  BY <1>1 DEF Freezes, Writers, Phase
  <2>2. \A x \in dwpts[e].docs : x \in Places  BY <2>1 DEF Inv, DocsPlaced
  <2> QED  BY <2>1, <2>2 DEF FlushedStay
<1>2. ASSUME NEW e \in Writers', Published(e)'  PROVE e # d /\ Published(e)
  <2>1. \A i \in DOMAIN tickets' : tickets'[i].dwpt # e  BY <1>2 DEF Published
  <2>2. tickets' = Append(tickets, [keys |-> K, dwpt |-> d])  BY DEF Freezes
  <2>3. e # d /\ \A i \in DOMAIN tickets : tickets[i].dwpt # e
    BY <2>1, <2>2, FreezeTickets
  <2>4. e \in Writers /\ Phase(e) = "flushed"
    <3>1. Phase(e)' = "flushed"  BY <1>2 DEF Published, Phase
    <3>2. e \in Writers  BY <1>1, <2>3, <3>1 DEF Ticketed
    <3> QED  BY <3>1, <3>2 DEF Freezes, Phase
  <2> QED  BY <2>3, <2>4 DEF Published, Phase
<1>3. ASSUME NEW i \in DOMAIN tickets, tickets[i].dwpt = d, d # None  PROVE FALSE
  <2>1. Phase(d) \in Ticketed  BY <1>3 DEF Inv, TicketsOwn
  <2>2. Phase(d) \in Waiting  BY <1>3 DEF Freezes
  <2> QED  BY <2>1, <2>2 DEF Ticketed, Waiting
<1> QED  BY <1>1, <1>2, <1>3

LEMMA FreezeDocsKept ==
  ASSUME Inv, ~overtaken, TypeOK', LogGrows, FlushedStay,
         NEW q, NEW d \in Nat, NEW K \in SUBSET Keys, Freezes(q, d, K)
  PROVE  DocsKept'
<1> SUFFICES ASSUME NEW e \in Writers', Published(e)', NEW x \in dwpts'[e].docs
             PROVE  (\E s \in segmentInfos' : x \in s.live) \/ Gone(x)'
  BY DEF DocsKept
<1>1. e # d /\ Published(e)  BY FreezeWriters
<1>2. Phase(e)' \in Ticketed  BY DEF Published, Phase, Ticketed
<1>3. e \in Writers /\ x \in dwpts[e].docs /\ x \in Places  BY <1>1, <1>2, FreezeWriters
<1>4. (\E s \in segmentInfos : x \in s.live) \/ Gone(x)
  BY <1>1, <1>3 DEF Inv, Order, DocsKept
<1>5. Gone(x) => Gone(x)'  BY <1>3, GoneStays DEF Inv
<1> QED  BY <1>4, <1>5 DEF Freezes

LEMMA FreezePacketsRight ==
  ASSUME Inv, ~overtaken, TypeOK', LogGrows, FlushedStay,
         NEW q, NEW d \in Nat, NEW K \in SUBSET Keys, Freezes(q, d, K)
  PROVE  PacketsRight'
<1> SUFFICES ASSUME NEW p \in updates, p.dwpt = None, NEW s \in segmentInfos,
                    s.delGen <= p.delGen, NEW x \in s.live, Op(x)'.key \in p.keys
             PROVE  Gone(x)'
  BY DEF PacketsRight, Freezes
<1>1. x \in Places  BY LiveIsPlaced
<1>2. Op(x).key \in p.keys  BY <1>1, OpsStay
<1>3. Gone(x)  BY <1>2 DEF Inv, Order, PacketsRight
<1> QED  BY <1>1, <1>3, GoneStays DEF Inv

LEMMA FreezeTicketsRight ==
  ASSUME Inv, ~overtaken, TypeOK', Refs', LogGrows, FlushedStay,
         NEW q, NEW d \in Nat, NEW K \in SUBSET Keys, Freezes(q, d, K)
  PROVE  TicketsRight'
<1> SUFFICES ASSUME NEW i \in DOMAIN tickets', NEW e \in Writers', Phase(e)' \in Ticketed,
                    \A j \in DOMAIN tickets' : j >= i => tickets'[j].dwpt # e,
                    NEW x \in dwpts'[e].docs, Op(x)'.key \in tickets'[i].keys
             PROVE  Gone(x)'
  BY DEF TicketsRight
<1>1. tickets' = Append(tickets, [keys |-> K, dwpt |-> d])  BY DEF Freezes
<1>2. e # d
  <2>1. Len(tickets) + 1 \in DOMAIN tickets' /\ Len(tickets) + 1 >= i
    BY <1>1, FreezeTickets
  <2>2. tickets'[Len(tickets) + 1].dwpt = d  BY <1>1, FreezeTickets
  <2> QED  BY <2>1, <2>2
<1>3. e \in Writers /\ Phase(e) \in Ticketed /\ x \in dwpts[e].docs /\ x \in Places
  BY <1>2, FreezeWriters
<1>4. Op(x)' = Op(x)  BY <1>3, OpsStay
<1>5. CASE i \in DOMAIN tickets
  <2>1. \A j \in DOMAIN tickets : j >= i => tickets[j].dwpt # e
    BY <1>1, FreezeTickets
  <2>2. Op(x).key \in tickets[i].keys  BY <1>1, <1>4, <1>5, FreezeTickets
  <2>3. Gone(x)  BY <1>3, <1>5, <2>1, <2>2 DEF Inv, Order, TicketsRight
  <2> QED  BY <1>3, <2>3, GoneStays DEF Inv
<1>6. CASE i \notin DOMAIN tickets
  <2>1. i = Len(tickets) + 1  BY <1>1, <1>6, FreezeTickets
  <2>2. Op(x).key \in K  BY <1>1, <1>4, <2>1, FreezeTickets
  <2> QED  BY <1>3, <2>2, KeyGone
<1> QED  BY <1>5, <1>6

LEMMA FreezeDeletesReach ==
  ASSUME Inv, ~overtaken, TypeOK', LogGrows, FlushedStay,
         NEW q, NEW d \in Nat, NEW K \in SUBSET Keys, Freezes(q, d, K)
  PROVE  DeletesReach'
<1> SUFFICES ASSUME NEW s \in segmentInfos, NEW x \in s.live, NEW y \in Places',
                    Removes(y, x)', IsFrozen(y)'
             PROVE  \/ \E p \in updates : Kills(p, s, x)'
                    \/ \E i \in DOMAIN tickets' : Op(y)'.key \in tickets'[i].keys
  BY DEF DeletesReach, Freezes
<1>1. x \in Places  BY LiveIsPlaced
<1>2. tickets' = Append(tickets, [keys |-> K, dwpt |-> d])  BY DEF Freezes
<1>3. Deletes(y)'  BY DEF Removes
<1>4. CASE y \in Places /\ IsFrozen(y)
  <2>1. Removes(y, x) /\ Op(y)' = Op(y)  BY <1>1, <1>4, OpsStay
  <2>2. \/ \E p \in updates : Kills(p, s, x)
        \/ \E i \in DOMAIN tickets : Op(y).key \in tickets[i].keys
    BY <1>4, <2>1 DEF Inv, Order, DeletesReach
  <2>3. \A p \in updates : Kills(p, s, x) => Kills(p, s, x)'  BY <1>1, KillsStay DEF Inv
  <2>4. \A i \in DOMAIN tickets : i \in DOMAIN tickets' /\ tickets'[i] = tickets[i]
    BY <1>2, FreezeTickets
  <2> QED  BY <2>1, <2>2, <2>3, <2>4
<1>5. CASE Op(y)'.key \in K
  <2>1. Len(tickets) + 1 \in DOMAIN tickets' /\ tickets'[Len(tickets) + 1].keys = K
    BY <1>2, FreezeTickets
  <2> QED  BY <1>5, <2>1
<1> QED  BY <1>3, <1>4, <1>5, FrozenOrKey

LEMMA FreezeDeletesFollow ==
  ASSUME Inv, ~overtaken, TypeOK', LogGrows, FlushedStay,
         NEW q, NEW d \in Nat, NEW K \in SUBSET Keys, Freezes(q, d, K)
  PROVE  DeletesFollow'
<1> SUFFICES ASSUME NEW j \in DOMAIN tickets', NEW e \in Writers', tickets'[j].dwpt = e,
                    NEW x \in dwpts'[e].docs, NEW y \in Places',
                    Removes(y, x)', IsFrozen(y)', ~ByFlush(y, e)'
             PROVE  \E i \in DOMAIN tickets' : i > j /\ Op(y)'.key \in tickets'[i].keys
  BY DEF DeletesFollow
<1>1. tickets' = Append(tickets, [keys |-> K, dwpt |-> d])  BY DEF Freezes
<1>2. Deletes(y)' /\ e # None  BY NoneIsNoWriterNext DEF Removes
<1>3. CASE j \in DOMAIN tickets
  <2>1. tickets[j].dwpt = e  BY <1>1, <1>3, FreezeTickets
  <2>2. e # d  BY <1>2, <1>3, <2>1, FreezeWriters
  <2>3. e \in Writers /\ Phase(e) \in Ticketed
    BY <1>2, <1>3, <2>1 DEF Inv, TicketsOwn, Refs
  <2>4. Phase(e)' \in Ticketed  BY <2>3 DEF FlushedStay, Phase
  <2>5. /\ x \in dwpts[e].docs /\ x \in Places /\ ~ByFlush(y, e)
    BY <2>2, <2>4, FreezeWriters DEF ByFlush, Queue
  <2>6. CASE y \in Places /\ IsFrozen(y)
    <3>1. Removes(y, x) /\ Op(y)' = Op(y)  BY <2>5, <2>6, OpsStay
    <3>2. PICK i \in DOMAIN tickets : i > j /\ Op(y).key \in tickets[i].keys
      BY <1>3, <2>1, <2>3, <2>5, <2>6, <3>1 DEF Inv, Order, DeletesFollow
    <3>3. i \in DOMAIN tickets' /\ tickets'[i] = tickets[i]  BY <1>1, FreezeTickets
    <3> QED  BY <3>1, <3>2, <3>3
  <2>7. CASE Op(y)'.key \in K
    <3>1. Len(tickets) + 1 \in DOMAIN tickets' /\ tickets'[Len(tickets) + 1].keys = K
          /\ Len(tickets) + 1 > j
      BY <1>1, <1>3, FreezeTickets
    <3> QED  BY <2>7, <3>1
  <2> QED  BY <1>2, <2>6, <2>7, FrozenOrKey
<1>4. CASE j \notin DOMAIN tickets
  <2>1. e = d  BY <1>1, <1>4, FreezeTickets
  <2>2. /\ d \in Writers /\ Phase(d) \in Waiting /\ q = Queue(d) /\ log' = log
        /\ dwpts'[d].docs = dwpts[d].docs /\ dwpts'[d].upto = Len(log[q])
    BY <1>2, <2>1 DEF Freezes
  <2>3. x \in Places /\ x[1] = q  BY <2>1, <2>2 DEF Inv, DocsPlaced
  <2>4. y[1] \in Nat /\ y[2] \in Nat /\ y[2] > 0 /\ y[1] <= Len(log) /\ y[2] <= Len(log[y[1]])
        /\ y[1] \in DOMAIN log
    BY <2>2, PlaceTypesNext, PlaceIsNext DEF deleteQueue
  <2>5. y[1] # q
    <3>1. Queue(d)' = q  BY <2>2 DEF FlushedStay, Queue
    <3> QED  BY <2>1, <2>2, <2>4, <3>1 DEF ByFlush
  <2>6. y[1] > q
    <3>1. Before(x, y)  BY DEF Removes, Before
    <3> QED  BY <2>3, <2>5, <3>1 DEF Before
  <2>7. Swapping /\ q = deleteQueue - 1
    BY <2>2, <2>4, <2>6, LogTypes DEF Inv, OldQueueFlushed, deleteQueue
  <2>8. y[1] = deleteQueue  BY <2>4, <2>6, <2>7, LogTypes DEF Inv, deleteQueue
  <2>9. frozen[y[1]] = 0
    BY <2>7, <2>8 DEF Inv, FullFlushOwn, InFullFlush, Swapping
  <2> QED  BY <2>4, <2>5, <2>9 DEF IsFrozen, Freezes
<1> QED  BY <1>3, <1>4

LEMMA FreezeOrder ==
  ASSUME Inv, TypeOK', Refs', LogGrows, FlushedStay,
         NEW q, NEW d \in Nat, NEW K \in SUBSET Keys, Freezes(q, d, K)
  PROVE  Order'
BY FreezeDocsKept, FreezePacketsRight, FreezeTicketsRight, FreezeDeletesReach,
   FreezeDeletesFollow DEF Order, LogGrows
------------------------------------------------------------------------------
(* A ticket is published.                                                  *)

\* The ticket that is published: of a DWPT whose segment it publishes, and at which generation
HeadHasSegment == tickets[1].dwpt # None /\ Phase(tickets[1].dwpt) = "flushed"
HeadGen == IF tickets[1].keys # {} THEN nextGen + 1 ELSE nextGen
HeadLive == dwpts[tickets[1].dwpt].docs \ DeletedByTerm(tickets[1].dwpt)
HeadSegment == [dwpt |-> tickets[1].dwpt, delGen |-> HeadGen, live |-> HeadLive]
HeadGlobal == GlobalPacket(nextGen, tickets[1].keys)
HeadPrivate == PrivatePacket(HeadGen, tickets[1].dwpt)

LEMMA TicketTypes ==
  ASSUME Inv
  PROVE  /\ tickets \in Seq(TicketType) /\ Len(tickets) \in Nat
         /\ DOMAIN tickets = 1 .. Len(tickets)
         /\ \A i \in DOMAIN tickets :
              /\ tickets[i] \in TicketType /\ tickets[i].keys \subseteq Keys
              /\ tickets[i].dwpt \in Nat /\ tickets[i].dwpt \in Writers \cup {None}
<1>1. tickets \in Seq(TicketType)  BY DEF Inv, TypeOK, TicketType
<1>2. \A i \in DOMAIN tickets : tickets[i] \in TicketType  BY <1>1
<1> QED  BY <1>1, <1>2 DEF TicketType, Inv, Refs

LEMMA PublishTickets ==
  ASSUME Inv, NEW who, PublishTicket(who)
  PROVE  /\ 1 \in DOMAIN tickets /\ CanPublish(tickets[1]) /\ Publish(tickets[1])
         /\ Len(tickets) > 0 /\ DOMAIN tickets' = 1 .. Len(tickets) - 1
         /\ \A i \in DOMAIN tickets' : i + 1 \in DOMAIN tickets /\ tickets'[i] = tickets[i + 1]
         /\ tickets' \in Seq(TicketType)
         /\ overtaken' = overtaken /\ log' = log /\ frozen' = frozen /\ dwpts' = dwpts
<1>1. tickets \in Seq(TicketType) /\ tickets # <<>> /\ tickets' = Tail(tickets)
      /\ CanPublish(Head(tickets)) /\ Publish(Head(tickets))
  BY TicketTypes DEF PublishTicket
<1>2. Head(tickets) = tickets[1]  BY <1>1
<1>3. /\ 1 \in DOMAIN tickets /\ Len(tickets) > 0 /\ DOMAIN tickets' = 1 .. Len(tickets) - 1
      /\ tickets' \in Seq(TicketType)
      /\ \A i \in DOMAIN tickets' : i + 1 \in DOMAIN tickets /\ tickets'[i] = tickets[i + 1]
  BY <1>1
<1> QED  BY <1>1, <1>2, <1>3 DEF PublishTicket, opVars, markVars

LEMMA PublishUpdates ==
  ASSUME Inv, Publish(tickets[1])
  PROVE  /\ updates \subseteq updates'
         /\ tickets[1].keys # {} => HeadGlobal \in updates'
         /\ HeadHasSegment /\ DeletedByQuery(tickets[1].dwpt) # {} => HeadPrivate \in updates'
         /\ \A p \in updates' :
              \/ p \in updates
              \/ tickets[1].keys # {} /\ p = HeadGlobal
              \/ HeadHasSegment /\ p = HeadPrivate
BY DEF Publish, Gens, HeadGlobal, HeadPrivate, HeadHasSegment, HeadGen, Phase

LEMMA PublishSegments ==
  ASSUME Inv, Publish(tickets[1])
  PROVE  /\ segmentInfos \subseteq segmentInfos'
         /\ HeadHasSegment /\ HeadLive # {} => HeadSegment \in segmentInfos'
         /\ \A s \in segmentInfos' : s \in segmentInfos \/ (HeadHasSegment /\ s = HeadSegment)
BY DEF Publish, Gens, HeadSegment, HeadLive, HeadHasSegment, HeadGen, Phase

LEMMA PublishGens ==
  ASSUME Inv, Publish(tickets[1])
  PROVE  /\ nextGen \in Nat /\ HeadGen \in Nat /\ nextGen' \in Nat /\ nextGen <= nextGen'
         /\ nextGen <= HeadGen
         /\ tickets[1].keys # {} => nextGen < nextGen' /\ HeadGen > nextGen
         /\ HeadHasSegment => HeadGen < nextGen'
<1>1. nextGen \in Nat  BY DEF Inv, TypeOK
<1>2. PICK G : /\ nextGen' = nextGen + Cardinality(G) + (IF HeadHasSegment THEN 1 ELSE 0)
               /\ G = IF tickets[1].keys = {} THEN {} ELSE {HeadGlobal}
  <2>1. HeadGlobal = GlobalPacket(Gens(tickets[1]).global, tickets[1].keys)
    BY DEF Gens, HeadGlobal
  <2>2. HeadHasSegment <=> tickets[1].dwpt # None /\ dwpts[tickets[1].dwpt].phase = "flushed"
    BY DEF HeadHasSegment, Phase
  <2> QED  BY <2>1, <2>2, Zenon DEF Publish
<1>3. tickets[1].keys = {} => Cardinality(G) = 0  BY <1>2, FS_EmptySet
<1>4. tickets[1].keys # {} => Cardinality(G) = 1  BY <1>2, FS_Singleton
<1>5. PICK c : c = Cardinality(G)  OBVIOUS
<1>6. nextGen' = nextGen + c + (IF HeadHasSegment THEN 1 ELSE 0)  BY <1>2, <1>5
<1>7. CASE tickets[1].keys = {}
  <2>1. c = 0  BY <1>3, <1>5, <1>7
  <2>2. HeadGen = nextGen  BY <1>7 DEF HeadGen
  <2> QED  BY <1>1, <1>6, <1>7, <2>1, <2>2
<1>8. CASE tickets[1].keys # {}
  <2>1. c = 1  BY <1>4, <1>5, <1>8
  <2>2. HeadGen = nextGen + 1  BY <1>8 DEF HeadGen
  <2> QED  BY <1>1, <1>6, <1>8, <2>1, <2>2
<1> QED  BY <1>7, <1>8

\* The log, what is frozen and the DWPTs stay, and with them what is said of documents.
LEMMA SameOps ==
  ASSUME TypeOK, overtaken' = overtaken, log' = log, frozen' = frozen, dwpts' = dwpts
  PROVE  /\ LogGrows /\ FlushedStay
         /\ Places' = Places
         /\ \A x : Op(x)' = Op(x) /\ (Gone(x)' <=> Gone(x)) /\ (IsFrozen(x)' <=> IsFrozen(x))
         /\ \A x, y : Removes(y, x)' <=> Removes(y, x)
         /\ \A d : DeletedByTerm(d)' = DeletedByTerm(d) /\ DeletedByQuery(d)' = DeletedByQuery(d)
         /\ \A p, s, x : Kills(p, s, x)' <=> Kills(p, s, x)
<1>1. Places' = Places  BY DEF Places
<1>2. \A x : Op(x)' = Op(x)  BY DEF Op
<1>3. \A x, y : Removes(y, x)' <=> Removes(y, x)  BY <1>2 DEF Removes, Deletes, Before
<1>4. \A x : IsFrozen(x)' <=> IsFrozen(x)  BY DEF IsFrozen
<1>5. \A x : Gone(x)' <=> Gone(x)  BY <1>1, <1>3, <1>4 DEF Gone
<1>6. \A d : DeletedByTerm(d)' = DeletedByTerm(d) /\ DeletedByQuery(d)' = DeletedByQuery(d)
  BY <1>1, <1>2, <1>3 DEF DeletedByTerm, DeletedByQuery, Queue
<1>7. \A p, s, x : Kills(p, s, x)' <=> Kills(p, s, x)  BY <1>2, <1>6 DEF Kills, Applies
<1>8. FlushedStay  BY DEF FlushedStay, Writers, Phase
<1>9. LogGrows
  <2>1. \A q \in DOMAIN log : frozen[q] <= frozen[q]  BY LogTypes
  <2> QED  BY <2>1 DEF LogGrows
<1> QED  BY <1>1, <1>2, <1>3, <1>4, <1>5, <1>6, <1>7, <1>8, <1>9
LEMMA PublishDocsKept ==
  ASSUME Inv, ~overtaken, NEW who, PublishTicket(who)
  PROVE  DocsKept'
<1>0. /\ overtaken' = overtaken /\ log' = log /\ frozen' = frozen /\ dwpts' = dwpts
      /\ Publish(tickets[1])
      /\ 1 \in DOMAIN tickets /\ DOMAIN tickets = 1 .. Len(tickets) /\ Len(tickets) \in Nat
      /\ DOMAIN tickets' = 1 .. Len(tickets) - 1
      /\ \A i \in DOMAIN tickets' : tickets'[i] = tickets[i + 1]
  BY PublishTickets, TicketTypes
<1> SUFFICES ASSUME NEW e \in Writers, Published(e)', NEW x \in dwpts[e].docs
             PROVE  (\E s \in segmentInfos' : x \in s.live) \/ Gone(x)
  BY <1>0, SameOps DEF Inv, DocsKept, Writers
<1>1. Phase(e) = "flushed" /\ \A i \in DOMAIN tickets' : tickets'[i].dwpt # e
  BY <1>0 DEF Published, Phase
<1>2. CASE Published(e)
  BY <1>0, <1>2, PublishSegments DEF Inv, Order, DocsKept
<1>3. CASE ~Published(e)
  <2>1. PICK i \in DOMAIN tickets : tickets[i].dwpt = e  BY <1>1, <1>3 DEF Published, Phase
  <2>2. i = 1
    <3>1. SUFFICES ASSUME i > 1 PROVE FALSE  BY <1>0
    <3>2. i - 1 \in DOMAIN tickets' /\ (i - 1) + 1 = i  BY <1>0, <3>1
    <3> QED  BY <1>0, <1>1, <2>1, <3>2
  <2>3. e # None /\ e \in Writers  BY NoneIsNoWriter DEF Inv
  <2>4. HeadHasSegment /\ tickets[1].dwpt = e
    BY <1>1, <2>1, <2>2, <2>3 DEF HeadHasSegment
  <2>5. CASE x \in DeletedByTerm(e)
    <3>1. PICK y \in Places : Removes(y, x) /\ y[1] = Queue(e) /\ y[2] <= dwpts[e].upto
      BY <2>5 DEF DeletedByTerm
    <3>2. dwpts[e].upto <= frozen[Queue(e)]
      BY <1>1 DEF Inv, DocsCovered, Ticketed
    <3>3. y[2] \in Nat /\ dwpts[e].upto \in Nat /\ frozen[Queue(e)] \in Nat
      BY PlaceTypes, WriterTypes, LogTypes DEF Inv, Refs
    <3>4. IsFrozen(y)  BY <3>1, <3>2, <3>3 DEF IsFrozen
    <3> QED  BY <3>1, <3>4 DEF Gone
  <2>6. CASE x \notin DeletedByTerm(e)
    <3>1. x \in HeadLive  BY <2>4, <2>6 DEF HeadLive
    <3>2. HeadSegment \in segmentInfos'  BY <1>0, <2>4, <3>1, PublishSegments
    <3>3. HeadSegment.live = HeadLive  BY DEF HeadSegment
    <3> QED  BY <3>1, <3>2, <3>3
  <2> QED  BY <2>5, <2>6
<1> QED  BY <1>2, <1>3

\* No ticket but the first removes its documents early: the packet is older than its segment.
LEMMA PublishPacketsRight ==
  ASSUME Inv, ~overtaken, NEW who, PublishTicket(who)
  PROVE  PacketsRight'
<1>0. /\ overtaken' = overtaken /\ log' = log /\ frozen' = frozen /\ dwpts' = dwpts
      /\ Publish(tickets[1])
      /\ 1 \in DOMAIN tickets /\ DOMAIN tickets = 1 .. Len(tickets)
  BY PublishTickets, TicketTypes
<1> SUFFICES ASSUME NEW p \in updates', p.dwpt = None, NEW s \in segmentInfos',
                    s.delGen <= p.delGen, NEW x \in s.live, Op(x).key \in p.keys
             PROVE  Gone(x)
  BY <1>0, SameOps DEF Inv, PacketsRight
<1>1. /\ nextGen \in Nat /\ HeadGen \in Nat /\ nextGen <= HeadGen
      /\ tickets[1].keys # {} => HeadGen > nextGen
  BY <1>0, PublishGens
<1>2. CASE s \in segmentInfos /\ p \in updates
  BY <1>2 DEF Inv, Order, PacketsRight
<1>3. CASE s \notin segmentInfos
  <2>1. HeadHasSegment /\ s.delGen = HeadGen
    BY <1>0, <1>3, PublishSegments DEF HeadSegment
  <2>2. CASE p \in updates
    <3>1. p.delGen < nextGen /\ p.delGen \in Nat  BY <2>2 DEF Inv, Refs, TypeOK, Packet
    <3> QED  BY <1>1, <2>1, <3>1
  <2>3. CASE tickets[1].keys # {} /\ p = HeadGlobal
    <3>1. p.delGen = nextGen  BY <2>3 DEF HeadGlobal, GlobalPacket
    <3> QED  BY <1>1, <2>1, <2>3, <3>1
  <2>4. CASE HeadHasSegment /\ p = HeadPrivate
    BY <2>4 DEF HeadPrivate, PrivatePacket, HeadHasSegment
  <2> QED  BY <1>0, <2>2, <2>3, <2>4, PublishUpdates
<1>4. CASE s \in segmentInfos /\ p \notin updates
  <2>1. CASE HeadHasSegment /\ p = HeadPrivate
    BY <2>1 DEF HeadPrivate, PrivatePacket, HeadHasSegment
  <2>2. CASE p = HeadGlobal
    <3>1. Op(x).key \in tickets[1].keys  BY <2>2 DEF HeadGlobal, GlobalPacket
    <3> QED  BY <1>0, <1>4, <3>1, LiveIsPlaced DEF Inv, Order, TicketsRight
  <2> QED  BY <1>0, <1>4, <2>1, <2>2, PublishUpdates
<1> QED  BY <1>2, <1>3, <1>4

LEMMA PublishTicketsRight ==
  ASSUME Inv, ~overtaken, NEW who, PublishTicket(who)
  PROVE  TicketsRight'
<1>0. /\ overtaken' = overtaken /\ log' = log /\ frozen' = frozen /\ dwpts' = dwpts
      /\ DOMAIN tickets = 1 .. Len(tickets) /\ Len(tickets) \in Nat
      /\ DOMAIN tickets' = 1 .. Len(tickets) - 1
      /\ \A i \in DOMAIN tickets' : i + 1 \in DOMAIN tickets /\ tickets'[i] = tickets[i + 1]
  BY PublishTickets, TicketTypes
<1> SUFFICES ASSUME NEW i \in DOMAIN tickets', NEW d \in Writers, Phase(d) \in Ticketed,
                    \A j \in DOMAIN tickets' : j >= i => tickets'[j].dwpt # d,
                    NEW x \in dwpts[d].docs, Op(x).key \in tickets'[i].keys
             PROVE  Gone(x)
  BY <1>0, SameOps DEF Inv, TicketsRight, Writers, Phase
<1>1. i + 1 \in DOMAIN tickets /\ Op(x).key \in tickets[i + 1].keys  BY <1>0
<1>2. ASSUME NEW j \in DOMAIN tickets, j >= i + 1  PROVE tickets[j].dwpt # d
  <2>1. j - 1 \in DOMAIN tickets' /\ j - 1 >= i /\ (j - 1) + 1 = j  BY <1>0, <1>2
  <2> QED  BY <1>0, <2>1
<1> QED  BY <1>1, <1>2 DEF Inv, Order, TicketsRight

LEMMA PublishDeletesReach ==
  ASSUME Inv, ~overtaken, NEW who, PublishTicket(who)
  PROVE  DeletesReach'
<1>0. /\ overtaken' = overtaken /\ log' = log /\ frozen' = frozen /\ dwpts' = dwpts
      /\ Publish(tickets[1])
      /\ 1 \in DOMAIN tickets
      /\ DOMAIN tickets = 1 .. Len(tickets) /\ Len(tickets) \in Nat
      /\ DOMAIN tickets' = 1 .. Len(tickets) - 1
      /\ \A i \in DOMAIN tickets' : i + 1 \in DOMAIN tickets /\ tickets'[i] = tickets[i + 1]
  BY PublishTickets, TicketTypes
<1> SUFFICES ASSUME NEW s \in segmentInfos', NEW x \in s.live, NEW y \in Places,
                    Removes(y, x), IsFrozen(y)
             PROVE  \/ \E p \in updates' : Kills(p, s, x)
                    \/ \E i \in DOMAIN tickets' : Op(y).key \in tickets'[i].keys
  BY <1>0, SameOps DEF Inv, DeletesReach
<1>1. /\ nextGen \in Nat /\ HeadGen \in Nat /\ nextGen <= HeadGen
  BY <1>0, PublishGens
<1>2. \A i \in DOMAIN tickets : i > 1 => i - 1 \in DOMAIN tickets' /\ tickets'[i - 1] = tickets[i]
  <2> SUFFICES ASSUME NEW i \in DOMAIN tickets, i > 1
               PROVE  i - 1 \in DOMAIN tickets' /\ tickets'[i - 1] = tickets[i]
    OBVIOUS
  <2>1. i - 1 \in DOMAIN tickets' /\ (i - 1) + 1 = i  BY <1>0
  <2> QED  BY <1>0, <2>1
<1>3. Op(y).key = Op(x).key  BY DEF Removes
<1>4. CASE s \in segmentInfos
  <2>1. \/ \E p \in updates : Kills(p, s, x)
        \/ \E i \in DOMAIN tickets : Op(y).key \in tickets[i].keys
    BY <1>4 DEF Inv, Order, DeletesReach
  <2>2. CASE \E p \in updates : Kills(p, s, x)  BY <1>0, <2>2, PublishUpdates
  <2>3. CASE \E i \in DOMAIN tickets : Op(y).key \in tickets[i].keys
    <3>1. PICK i \in DOMAIN tickets : Op(y).key \in tickets[i].keys  BY <2>3
    <3>2. CASE i > 1  BY <1>2, <3>1, <3>2
    <3>3. CASE i = 1
      <4>1. HeadGlobal \in updates'  BY <1>0, <3>1, <3>3, PublishUpdates
      <4>2. s.delGen <= nextGen
        <5>1. s.delGen < nextGen /\ s.delGen \in Nat  BY <1>4 DEF Inv, Refs, TypeOK
        <5> QED  BY <1>1, <5>1
      <4>3. Kills(HeadGlobal, s, x)
        BY <1>3, <3>1, <3>3, <4>2 DEF Kills, Applies, HeadGlobal, GlobalPacket, None
      <4> QED  BY <4>1, <4>3
    <3> QED  BY <1>0, <3>2, <3>3
  <2> QED  BY <2>1, <2>2, <2>3
<1>5. CASE s \notin segmentInfos
  <2>1. HeadHasSegment /\ s = HeadSegment  BY <1>0, <1>5, PublishSegments
  <2>2. PICK d : d = tickets[1].dwpt  OBVIOUS
  <2>3. /\ s.dwpt = d /\ s.delGen = HeadGen /\ s.live = dwpts[d].docs \ DeletedByTerm(d)
        /\ d # None /\ d \in Writers
    <3>1. d # None /\ d \in Writers  BY <1>0, <2>1, <2>2, TicketTypes DEF HeadHasSegment
    <3> QED  BY <2>1, <2>2, <3>1 DEF HeadSegment, HeadLive
  <2>4. CASE ByFlush(y, d)
    <3>1. y[1] = Queue(d) /\ y[2] <= dwpts[d].upto  BY <2>4 DEF ByFlush
    <3>2. Op(y).kind = "deleteQuery"
      BY <2>3, <3>1 DEF DeletedByTerm
    <3>3. x \in DeletedByQuery(d)  BY <2>3, <3>1, <3>2 DEF DeletedByQuery
    <3>4. HeadPrivate \in updates'  BY <1>0, <2>1, <2>2, <3>3, PublishUpdates
    <3>5. Kills(HeadPrivate, s, x)
      <4>1. HeadPrivate.dwpt = d /\ HeadPrivate.delGen = HeadGen
        BY <2>2 DEF HeadPrivate, PrivatePacket
      <4>2. HeadGen <= HeadGen  BY <1>1
      <4> QED  BY <2>3, <3>3, <4>1, <4>2 DEF Kills, Applies
    <3> QED  BY <3>4, <3>5
  <2>5. CASE ~ByFlush(y, d)
    <3>1. PICK i \in DOMAIN tickets : i > 1 /\ Op(y).key \in tickets[i].keys
      BY <1>0, <2>2, <2>3, <2>5 DEF Inv, Order, DeletesFollow
    <3> QED  BY <1>2, <3>1
  <2> QED  BY <2>4, <2>5
<1> QED  BY <1>4, <1>5

LEMMA PublishDeletesFollow ==
  ASSUME Inv, ~overtaken, NEW who, PublishTicket(who)
  PROVE  DeletesFollow'
<1>0. /\ overtaken' = overtaken /\ log' = log /\ frozen' = frozen /\ dwpts' = dwpts
      /\ DOMAIN tickets = 1 .. Len(tickets) /\ Len(tickets) \in Nat
      /\ DOMAIN tickets' = 1 .. Len(tickets) - 1
      /\ \A i \in DOMAIN tickets' : i + 1 \in DOMAIN tickets /\ tickets'[i] = tickets[i + 1]
  BY PublishTickets, TicketTypes
<1> SUFFICES ASSUME NEW j \in DOMAIN tickets', NEW d \in Writers, tickets'[j].dwpt = d,
                    NEW x \in dwpts[d].docs, NEW y \in Places,
                    Removes(y, x), IsFrozen(y), ~ByFlush(y, d)
             PROVE  \E i \in DOMAIN tickets' : i > j /\ Op(y).key \in tickets'[i].keys
  BY <1>0, SameOps DEF Inv, DeletesFollow, Writers, ByFlush, Queue
<1>1. j + 1 \in DOMAIN tickets /\ tickets[j + 1].dwpt = d  BY <1>0
<1>2. PICK i \in DOMAIN tickets : i > j + 1 /\ Op(y).key \in tickets[i].keys
  BY <1>1 DEF Inv, Order, DeletesFollow
<1>3. i - 1 \in DOMAIN tickets' /\ i - 1 > j /\ (i - 1) + 1 = i  BY <1>0, <1>2
<1> QED  BY <1>0, <1>2, <1>3

LEMMA PublishOrder ==
  ASSUME Inv, NEW who, PublishTicket(who)
  PROVE  Order'
<1>1. overtaken' = overtaken  BY PublishTickets
<1> QED
  BY <1>1, PublishDocsKept, PublishPacketsRight, PublishTicketsRight, PublishDeletesReach,
     PublishDeletesFollow DEF Order
------------------------------------------------------------------------------
(* A packet is applied.                                                    *)

\* A packet removes a document only if a frozen delete is younger.
LEMMA KillsGone ==
  ASSUME Inv, ~overtaken,
         NEW p \in updates, NEW s \in segmentInfos, NEW x \in s.live, Kills(p, s, x)
  PROVE  Gone(x)
<1>1. CASE p.dwpt = None
  BY <1>1 DEF Kills, Applies, Inv, Order, PacketsRight
<1>2. CASE p.dwpt # None
  <2>1. p.dwpt \in Writers /\ Phase(p.dwpt) \in Ticketed
    BY <1>2 DEF Inv, Refs, StreamOwns, Published, Ticketed, Phase
  <2>2. PICK y \in Places : /\ Removes(y, x) /\ y[1] = Queue(p.dwpt)
                            /\ y[2] <= dwpts[p.dwpt].upto
    BY <1>2 DEF Kills, DeletedByQuery
  <2>3. dwpts[p.dwpt].upto <= frozen[Queue(p.dwpt)]  BY <2>1 DEF Inv, DocsCovered
  <2>4. /\ y[2] \in Nat /\ dwpts[p.dwpt].upto \in Nat /\ frozen[Queue(p.dwpt)] \in Nat
    BY <2>1, PlaceTypes, WriterTypes, LogTypes DEF Inv, Refs
  <2>5. IsFrozen(y)  BY <2>2, <2>3, <2>4 DEF IsFrozen
  <2> QED  BY <2>2, <2>5 DEF Gone
<1> QED  BY <1>1, <1>2

LEMMA ResolvedIs ==
  ASSUME Inv, NEW p \in updates, NEW s \in segmentInfos
  PROVE  /\ Resolved(p, s).dwpt = s.dwpt /\ Resolved(p, s).delGen = s.delGen
         /\ Resolved(p, s) \in SegmentType
         /\ Resolved(p, s).live = {x \in s.live : ~Kills(p, s, x)}
<1>1. s \in SegmentType  BY DEF Inv, TypeOK, SegmentType
<1>2. CASE ~Applies(p, s)
  BY <1>1, <1>2 DEF Resolved, Kills
<1>3. CASE Applies(p, s) /\ p.dwpt = None
  <2>1. PICK L : L = {x \in s.live : Op(x).key \notin p.keys}  OBVIOUS
  <2>2. Resolved(p, s) = [s EXCEPT !.live = L]  BY <1>3, <2>1 DEF Resolved
  <2>3. L = {x \in s.live : ~Kills(p, s, x)}  BY <1>3, <2>1 DEF Kills
  <2>4. L \in SUBSET (Nat \X Nat)  BY <1>1, <2>1 DEF SegmentType
  <2> QED  BY <1>1, <2>2, <2>3, <2>4 DEF SegmentType
<1>4. CASE Applies(p, s) /\ p.dwpt # None
  <2>1. PICK L : L = s.live \ DeletedByQuery(p.dwpt)  OBVIOUS
  <2>2. Resolved(p, s) = [s EXCEPT !.live = L]  BY <1>4, <2>1 DEF Resolved
  <2>3. L = {x \in s.live : ~Kills(p, s, x)}  BY <1>4, <2>1 DEF Kills
  <2>4. L \in SUBSET (Nat \X Nat)  BY <1>1, <2>1 DEF SegmentType
  <2> QED  BY <1>1, <2>2, <2>3, <2>4 DEF SegmentType
<1> QED  BY <1>2, <1>3, <1>4

LEMMA ApplyIs ==
  ASSUME Inv, NEW p \in updates, ApplyPacket(p)
  PROVE  /\ \A r \in segmentInfos' : \E s \in segmentInfos :
              /\ r.dwpt = s.dwpt /\ r.delGen = s.delGen /\ r \in SegmentType
              /\ \A x \in r.live : x \in s.live /\ ~Kills(p, s, x)
         /\ \A s \in segmentInfos : \A x \in s.live : ~Kills(p, s, x) =>
              \E r \in segmentInfos' : x \in r.live
         /\ updates' = updates \ {p} /\ overtaken' = overtaken
         /\ log' = log /\ frozen' = frozen /\ dwpts' = dwpts /\ tickets' = tickets
<1>1. /\ segmentInfos' = {r \in {Resolved(p, s) : s \in segmentInfos} : r.live # {}}
      /\ updates' = updates \ {p} /\ overtaken' = overtaken
      /\ log' = log /\ frozen' = frozen /\ dwpts' = dwpts /\ tickets' = tickets
  BY DEF ApplyPacket, opVars, markVars
<1>2. ASSUME NEW r \in segmentInfos'
      PROVE  \E s \in segmentInfos :
              /\ r.dwpt = s.dwpt /\ r.delGen = s.delGen /\ r \in SegmentType
              /\ \A x \in r.live : x \in s.live /\ ~Kills(p, s, x)
  <2>1. PICK s \in segmentInfos : r = Resolved(p, s)  BY <1>1
  <2> QED  BY <2>1, ResolvedIs
<1>3. ASSUME NEW s \in segmentInfos, NEW x \in s.live, ~Kills(p, s, x)
      PROVE  \E r \in segmentInfos' : x \in r.live
  <2>1. x \in Resolved(p, s).live  BY <1>3, ResolvedIs
  <2>2. Resolved(p, s) \in segmentInfos'  BY <1>1, <2>1
  <2> QED  BY <2>1, <2>2
<1> QED  BY <1>1, <1>2, <1>3

LEMMA ApplyOrder ==
  ASSUME Inv, NEW p \in updates, ApplyPacket(p)
  PROVE  Order'
<1>0. /\ overtaken' = overtaken /\ log' = log /\ frozen' = frozen /\ dwpts' = dwpts
      /\ tickets' = tickets /\ updates' = updates \ {p}
  BY ApplyIs
<1> SUFFICES ASSUME ~overtaken PROVE Order'
  BY <1>0 DEF Order
<1>1. DocsKept'
  <2> SUFFICES ASSUME NEW e \in Writers, Published(e), NEW x \in dwpts[e].docs
               PROVE  (\E r \in segmentInfos' : x \in r.live) \/ Gone(x)
    BY <1>0, SameOps DEF Inv, DocsKept, Writers, Published
  <2>1. CASE Gone(x)  BY <2>1
  <2>2. CASE ~Gone(x)
    <3>1. PICK s \in segmentInfos : x \in s.live  BY <2>2 DEF Inv, Order, DocsKept
    <3>2. ~Kills(p, s, x)  BY <2>2, <3>1, KillsGone
    <3> QED  BY <3>1, <3>2, ApplyIs
  <2> QED  BY <2>1, <2>2
<1>2. PacketsRight'
  <2> SUFFICES ASSUME NEW u \in updates, u.dwpt = None, NEW r \in segmentInfos',
                      r.delGen <= u.delGen, NEW x \in r.live, Op(x).key \in u.keys
               PROVE  Gone(x)
    BY <1>0, SameOps DEF Inv, PacketsRight
  <2>1. PICK s \in segmentInfos : r.delGen = s.delGen /\ x \in s.live  BY ApplyIs
  <2> QED  BY <2>1 DEF Inv, Order, PacketsRight
<1>3. TicketsRight'
  BY <1>0, SameOps DEF Inv, Order, TicketsRight, Writers, Phase
<1>4. DeletesReach'
  <2> SUFFICES ASSUME NEW r \in segmentInfos', NEW x \in r.live, NEW y \in Places,
                      Removes(y, x), IsFrozen(y)
               PROVE  \/ \E u \in updates' : Kills(u, r, x)
                      \/ \E i \in DOMAIN tickets : Op(y).key \in tickets[i].keys
    BY <1>0, SameOps DEF Inv, DeletesReach
  <2>1. PICK s \in segmentInfos : /\ r.dwpt = s.dwpt /\ r.delGen = s.delGen
                                  /\ x \in s.live /\ ~Kills(p, s, x)
    BY ApplyIs
  <2>2. \/ \E u \in updates : Kills(u, s, x)
        \/ \E i \in DOMAIN tickets : Op(y).key \in tickets[i].keys
    BY <2>1 DEF Inv, Order, DeletesReach
  <2>3. \A u \in updates : Kills(u, s, x) => u \in updates' /\ Kills(u, r, x)
    BY <1>0, <2>1 DEF Kills, Applies
  <2> QED  BY <2>2, <2>3
<1>5. DeletesFollow'
  BY <1>0, SameOps DEF Inv, Order, DeletesFollow, Writers, ByFlush, Queue
<1> QED  BY <1>1, <1>2, <1>3, <1>4, <1>5 DEF Order
------------------------------------------------------------------------------
(* The other parts of the invariant, in steps that leave what they are     *)
(* about as it is.                                                         *)

\* No document is made, and none moves.
DocsStay ==
  \A d \in DOMAIN dwpts' :
    \/ d \in Writers /\ dwpts'[d].docs = dwpts[d].docs /\ dwpts'[d].queue = dwpts[d].queue
    \/ d \notin Writers /\ dwpts'[d].docs = {}

LEMMA DocsPlacedStays ==
  ASSUME Inv, LogGrows, FlushedStay, DocsStay,
         \A x \in Places' : x \notin Places => ~HasDocument(x)',
         \A d \in DOMAIN dwpts' : dwpts'[d].phase = "empty" => dwpts'[d].docs = {}
  PROVE  DocsPlaced'
<1>1. /\ \A x \in Places : x \in Places' /\ (HasDocument(x)' <=> HasDocument(x))
      /\ \A x \in Places' : HasDocument(x)' => x \in Places /\ HasDocument(x)
  BY OpsStay
<1>2. \A d \in Writers' : \A x \in dwpts'[d].docs :
         /\ d \in Writers /\ x \in dwpts[d].docs /\ dwpts'[d].queue = dwpts[d].queue
  BY DEF DocsStay, Writers
<1>3. \A d \in Writers : d \in Writers' /\ dwpts'[d].docs = dwpts[d].docs
  BY DEF DocsStay, FlushedStay, Writers
<1>4. \A d \in Writers' : \A x \in dwpts'[d].docs :
         x \in Places' /\ x[1] = Queue(d)' /\ HasDocument(x)'
  BY <1>1, <1>2 DEF Inv, DocsPlaced, Queue
<1>5. \A d, e \in Writers' : d = e \/ dwpts'[d].docs \cap dwpts'[e].docs = {}
  BY <1>2 DEF Inv, DocsPlaced
<1>6. \A x \in Places' : HasDocument(x)' => \E d \in Writers' : x \in dwpts'[d].docs
  BY <1>1, <1>3 DEF Inv, DocsPlaced
<1> QED  BY <1>4, <1>5, <1>6 DEF DocsPlaced, Writers, Phase

LEMMA DocsCoveredStays ==
  ASSUME Inv, TypeOK', Refs', LogGrows, FlushedStay,
         \A d \in DOMAIN dwpts' : dwpts'[d].phase \in Ticketed
                                    => d \in Writers /\ Phase(d) \in Ticketed
  PROVE  DocsCovered'
<1> SUFFICES ASSUME NEW d \in Writers', Phase(d)' \in Ticketed
             PROVE  /\ dwpts'[d].upto <= frozen'[dwpts'[d].queue]
                    /\ \A x \in dwpts'[d].docs : x[2] <= dwpts'[d].upto
  BY DEF DocsCovered, Queue
<1>1. d \in Writers /\ Phase(d) \in Ticketed  BY DEF Writers, Phase
<1>2. /\ dwpts'[d].docs = dwpts[d].docs /\ dwpts'[d].upto = dwpts[d].upto
      /\ dwpts'[d].queue = Queue(d)
  BY <1>1 DEF FlushedStay, Queue
<1>3. /\ dwpts[d].upto <= frozen[Queue(d)]
      /\ \A x \in dwpts[d].docs : x[2] <= dwpts[d].upto
  BY <1>1 DEF Inv, DocsCovered
<1>4. frozen[Queue(d)] <= frozen'[Queue(d)] /\ Queue(d) \in DOMAIN log'
  BY <1>1 DEF LogGrows, Inv, Refs
<1>5. dwpts[d].upto \in Nat /\ frozen[Queue(d)] \in Nat /\ frozen'[Queue(d)] \in Nat
  BY <1>1, <1>4, WriterTypes, LogTypes DEF Inv, Refs, TypeOK
<1> QED  BY <1>2, <1>3, <1>4, <1>5

LEMMA TicketsOwnStays ==
  ASSUME Inv, FlushedStay, tickets' = tickets, tragedy => tragedy',
         \A d \in DOMAIN dwpts' :
           /\ dwpts'[d].phase \in Ticketed => d \in Writers /\ Phase(d) \in Ticketed
           /\ dwpts'[d].phase = "failed" => Phase(d) = "failed" \/ tragedy'
  PROVE  TicketsOwn'
<1>1. \A i \in DOMAIN tickets : tickets[i].dwpt # None => Phase(tickets[i].dwpt)' \in Ticketed
  BY DEF Inv, TicketsOwn, Refs, FlushedStay, Phase
<1>2. \A d \in Writers' : Phase(d)' = "ticket" => d \in Writers /\ Phase(d) = "ticket"
  <2> SUFFICES ASSUME NEW d \in Writers', Phase(d)' = "ticket"
               PROVE  d \in Writers /\ Phase(d) = "ticket"
    OBVIOUS
  <2>1. d \in Writers /\ Phase(d) \in Ticketed  BY DEF Writers, Phase, Ticketed
  <2>2. dwpts'[d].phase = "ticket"  BY DEF Phase
  <2> QED  BY <2>1, <2>2 DEF FlushedStay, Ticketed
<1>3. \A d \in Writers' : Phase(d)' = "failed" => tragedy'
  <2> SUFFICES ASSUME NEW d \in Writers', Phase(d)' = "failed"
               PROVE  tragedy'
    OBVIOUS
  <2>1. d \in Writers /\ (Phase(d) = "failed" \/ tragedy')  BY DEF Writers, Phase, Ticketed
  <2> QED  BY <2>1 DEF Inv, TicketsOwn
<1> QED  BY <1>1, <1>2, <1>3 DEF Inv, TicketsOwn, HasTicket

LEMMA StreamOwnsStays ==
  ASSUME Inv, FlushedStay, tickets' = tickets, segmentInfos' = segmentInfos, updates' = updates
  PROVE  StreamOwns'
<1>1. \A d \in Writers : Published(d) => Published(d)' /\ dwpts'[d].docs = dwpts[d].docs
  BY DEF FlushedStay, Published, Phase, Ticketed
<1> QED  BY <1>1 DEF Inv, StreamOwns, Refs

\* What has been frozen stays frozen.
LEMMA AllFrozenStays ==
  ASSUME Inv, TypeOK', LogGrows, log' = log, NEW q \in DOMAIN log, AllFrozen(q)
  PROVE  AllFrozen(q)'
<1> SUFFICES ASSUME NEW n \in DOMAIN log[q], Deletes(<<q, n>>)'
             PROVE  n <= frozen'[q]
  BY DEF AllFrozen
<1>1. n <= frozen[q]  BY DEF AllFrozen, Deletes, Op
<1>2. frozen[q] <= frozen'[q]  BY DEF LogGrows
<1>3. n \in Nat /\ frozen[q] \in Nat /\ frozen'[q] \in Nat
  BY LogTypes, FrozenTypeNext DEF Inv
<1> QED  BY <1>1, <1>2, <1>3

LEMMA ReportedStays ==
  ASSUME Inv, TypeOK', LogGrows, log' = log, Swapping' => Swapping,
         pendingChangesInCurrentFullFlush' = pendingChangesInCurrentFullFlush
  PROVE  Reported'
<1>1. deleteQueue' = deleteQueue  BY DEF deleteQueue
<1> SUFFICES ASSUME Swapping', NEW n \in DOMAIN log[deleteQueue - 1],
                    ~HasDocument(<<deleteQueue - 1, n>>), n > frozen'[deleteQueue - 1]
             PROVE  pendingChangesInCurrentFullFlush
  BY <1>1 DEF Reported, HasDocument, Op
<1>2. Swapping  OBVIOUS
<1>3. deleteQueue - 1 \in DOMAIN log
  <2>1. deleteQueue > 1  BY <1>2 DEF Inv, FullFlushOwn, InFullFlush, Swapping
  <2> QED  BY <2>1, LogTypes DEF Inv, deleteQueue
<1>4. frozen[deleteQueue - 1] <= frozen'[deleteQueue - 1]  BY <1>3 DEF LogGrows
<1>5. n \in Nat /\ frozen[deleteQueue - 1] \in Nat /\ frozen'[deleteQueue - 1] \in Nat
  BY <1>3, LogTypes, FrozenTypeNext DEF Inv
<1>6. n > frozen[deleteQueue - 1]  BY <1>4, <1>5
<1> QED  BY <1>2, <1>6 DEF Inv, Reported

LEMMA QueuesStay ==
  ASSUME Inv, TypeOK', LogGrows, log' = log,
         \/ main'.pc = main.pc /\ main'.anythingFlushed = main.anythingFlushed
         \/ ~Swapping /\ ~Swapping',
         pendingChangesInCurrentFullFlush' = pendingChangesInCurrentFullFlush
  PROVE  QueuesFrozen' /\ Reported'
<1>1. \A q \in DOMAIN log : AllFrozen(q) => AllFrozen(q)'  BY AllFrozenStays
<1>2. deleteQueue' = deleteQueue /\ Len(log) \in Nat /\ DOMAIN log = 1 .. Len(log)
      /\ (deleteQueue > 1 => deleteQueue - 1 \in DOMAIN log)
  BY LogTypes DEF Inv, deleteQueue
<1>3. Swapping => deleteQueue > 1
  BY DEF Inv, FullFlushOwn, InFullFlush, Swapping
<1>4. QueuesFrozen'
  <2>1. CASE main'.pc = main.pc /\ main'.anythingFlushed = main.anythingFlushed
    BY <1>1, <1>2, <1>3, <2>1 DEF Inv, QueuesFrozen, Swapping
  <2>2. CASE ~Swapping /\ ~Swapping'
    BY <1>1, <1>2, <2>2 DEF Inv, QueuesFrozen, Swapping
  <2> QED  BY <2>1, <2>2
<1>5. Reported'
  <2>1. Swapping' => Swapping  BY DEF Swapping
  <2> QED  BY <2>1, ReportedStays
<1> QED  BY <1>4, <1>5

\* A commit stays what it is when operations come only in queues after it ...
LEMMA CommitStays ==
  ASSUME Inv, TypeOK', LogGrows, commit' = commit,
         \A x \in Places' : x \notin Places => x[1] > commit.queue
  PROVE  CommitIsPrefix'
<1>1. commit.queue \in Nat  BY DEF Inv, TypeOK
<1>2. \A x \in Places' : x[1] <= commit.queue => x \in Places
  BY <1>1, PlaceTypesNext
<1>3. Replay(commit.queue)' = Replay(commit.queue)
  BY <1>2, OpsStay DEF Replay
<1> QED  BY <1>3 DEF Inv, CommitIsPrefix, LogGrows

\* ... which those of the current queue are, and while threads are marked those of the old one.
LEMMA NewOpsAreYounger ==
  ASSUME Inv, NEW q \in Nat, q = deleteQueue \/ (main.pc = "mark" /\ q >= deleteQueue - 1)
  PROVE  q > commit.queue
<1>1. deleteQueue \in Nat /\ commit.queue \in Nat  BY LogTypes DEF Inv, TypeOK, deleteQueue
<1> QED  BY <1>1 DEF Inv, CommitOld

\* When a full flush waits for packets, they hold whatever is left to remove.
LEMMA NothingLeft ==
  ASSUME Inv, TypeOK', LogGrows, FlushedStay,
         segmentInfos' = segmentInfos, updates' = updates,
         main'.pc = "waitApply" /\ ~overtaken' =>
           /\ \A i \in DOMAIN tickets' : tickets'[i].dwpt = None /\ tickets'[i].keys = {}
           /\ main.pc = "waitApply" /\ main'.waitFor = main.waitFor /\ deleteQueue' = deleteQueue
           /\ \A x \in Places' : x \notin Places => x[1] = deleteQueue
  PROVE  Flushed'
<1> SUFFICES ASSUME main'.pc = "waitApply", ~overtaken'
             PROVE  /\ \A i \in DOMAIN tickets' : tickets'[i].dwpt = None /\ tickets'[i].keys = {}
                    /\ \A s \in segmentInfos : \A x \in s.live : \A y \in Places' :
                         Removes(y, x)' /\ y[1] < deleteQueue'
                           => \E p \in updates \cap main'.waitFor : Kills(p, s, x)'
  BY DEF Flushed
<1>1. \A i \in DOMAIN tickets' : tickets'[i].dwpt = None /\ tickets'[i].keys = {}
  OBVIOUS
<1>2. ASSUME NEW s \in segmentInfos, NEW x \in s.live, NEW y \in Places', Removes(y, x)',
             y[1] < deleteQueue'
      PROVE  \E p \in updates \cap main'.waitFor : Kills(p, s, x)'
  <2>1. x \in Places  BY LiveIsPlaced
  <2>2. y \in Places
    <3>1. deleteQueue \in Nat  BY LogTypes DEF Inv, deleteQueue
    <3> QED  BY <1>2, <3>1
  <2>3. Removes(y, x)  BY <1>2, <2>1, <2>2, OpsStay
  <2>4. PICK p \in updates \cap main.waitFor : Kills(p, s, x)
    BY <1>2, <2>2, <2>3 DEF Inv, Flushed, LogGrows
  <2>5. Kills(p, s, x)'  BY <2>1, <2>4, KillsStay DEF Inv
  <2> QED  BY <2>4, <2>5
<1> QED  BY <1>1, <1>2

LEMMA NothingLeftStays ==
  ASSUME Inv, TypeOK', LogGrows, FlushedStay,
         tickets' = tickets, segmentInfos' = segmentInfos, updates' = updates,
         main'.pc = "waitApply" =>
           /\ main.pc = "waitApply" /\ main'.waitFor = main.waitFor /\ deleteQueue' = deleteQueue
           /\ \A x \in Places' : x \notin Places => x[1] = deleteQueue
  PROVE  Flushed'
<1>1. main'.pc = "waitApply" /\ ~overtaken' =>
        \A i \in DOMAIN tickets' : tickets'[i].dwpt = None /\ tickets'[i].keys = {}
  BY DEF Inv, Flushed, LogGrows
<1> QED  BY <1>1, NothingLeft
------------------------------------------------------------------------------
(* Steps that only move on: purging, and the end of a full flush.          *)

LEMMA SameDataKeeps ==
  ASSUME Inv, TypeOK', overtaken' = overtaken, log' = log, frozen' = frozen, dwpts' = dwpts,
         tickets' = tickets,
         segmentInfos' = segmentInfos, updates' = updates, tragedy' = tragedy
  PROVE  /\ LogGrows /\ FlushedStay /\ Places' = Places
         /\ DocsPlaced' /\ DocsCovered' /\ TicketsOwn' /\ StreamOwns' /\ Order'
<1>1. LogGrows /\ FlushedStay /\ Places' = Places  BY SameOps DEF Inv
<1>2. DocsPlaced'
  <2>1. DocsStay  BY DEF DocsStay, Writers
  <2> QED  BY <1>1, <2>1, DocsPlacedStays DEF Inv, DocsPlaced, Writers, Phase
<1>3. DocsCovered'  BY DEF Inv, DocsCovered, Writers, Phase, Queue
<1>4. TicketsOwn'  BY DEF Inv, TicketsOwn, Writers, Phase, HasTicket
<1>5. StreamOwns'  BY <1>1, StreamOwnsStays
<1>6. Order'
  <2>1. Quiet  BY <1>1 DEF Quiet, Writers, Phase
  <2> QED  BY <1>1, <2>1, QuietOrder
<1> QED  BY <1>1, <1>2, <1>3, <1>4, <1>5, <1>6

LEMMA SameThreadsKeep ==
  ASSUME Inv, dwpts' = dwpts, state' = state, locked' = locked, flushPending' = flushPending
  PROVE  ThreadsOwn'
BY DEF Inv, ThreadsOwn, Writers, Phase

LEMMA SameRefsKeep ==
  ASSUME Inv, log' = log, frozen' = frozen, dwpts' = dwpts, state' = state, tickets' = tickets,
         segmentInfos' = segmentInfos, updates' = updates, nextGen' = nextGen,
         \A t \in Threads : applying'[t] <= deleteQueue
  PROVE  Refs'
BY DEF Inv, Refs, Writers, Queue, deleteQueue

\* StartPurge, EndPurge, and steps of nobody
LEMMA PurgeLockStep ==
  ASSUME Inv, opVars' = opVars, streamVars' = streamVars, fullFlushVars' = fullFlushVars,
         frozen' = frozen, dwpts' = dwpts, applying' = applying, tickets' = tickets,
         tragedy' = tragedy, purgeLock' \in {"free", "helper", "main"}
  PROVE  Inv'
<1>1. TypeOK'  BY DEF Inv, TypeOK, opVars, markVars, streamVars, fullFlushVars
<1>2. /\ log' = log /\ state' = state /\ locked' = locked /\ segmentInfos' = segmentInfos
      /\ updates' = updates /\ nextGen' = nextGen /\ fullFlush' = fullFlush
      /\ pendingChangesInCurrentFullFlush' = pendingChangesInCurrentFullFlush
      /\ main' = main /\ commit' = commit
      /\ flushPending' = flushPending /\ overtaken' = overtaken
  BY DEF opVars, markVars, streamVars, fullFlushVars
<1>3. Refs'
  <2>1. \A t \in Threads : applying'[t] <= deleteQueue  BY DEF Inv, Refs
  <2> QED  BY <1>2, <2>1, SameRefsKeep
<1>4. /\ LogGrows /\ FlushedStay /\ Places' = Places
      /\ DocsPlaced' /\ DocsCovered' /\ TicketsOwn' /\ StreamOwns' /\ Order'
  BY <1>1, <1>2, SameDataKeeps
<1>5. ThreadsOwn'  BY <1>2, SameThreadsKeep
<1>6. FullFlushOwn' /\ OldQueueFlushed'
  BY <1>2 DEF Inv, FullFlushOwn, OldQueueFlushed, InFullFlush, Swapping, Writers, Phase, Queue,
              deleteQueue
<1>7. QueuesFrozen' /\ Reported'  BY <1>1, <1>2, <1>4, QueuesStay
<1>8. CommitOld'  BY <1>2 DEF Inv, CommitOld, deleteQueue
<1>9. CommitIsPrefix'  BY <1>1, <1>2, <1>4, CommitStays
<1>10. Flushed'
  <2>1. deleteQueue' = deleteQueue  BY <1>2 DEF deleteQueue
  <2> QED  BY <1>1, <1>2, <1>4, <2>1, NothingLeftStays
<1> QED  BY <1>1, <1>3, <1>4, <1>5, <1>6, <1>7, <1>8, <1>9, <1>10 DEF Inv

LEMMA StartPurgeStep == ASSUME Inv, StartPurge PROVE Inv'
BY PurgeLockStep DEF StartPurge
LEMMA EndPurgeStep == ASSUME Inv, EndPurge PROVE Inv'
BY PurgeLockStep DEF EndPurge
LEMMA StutteringStep == ASSUME Inv, UNCHANGED vars PROVE Inv'
<1>1. purgeLock \in {"free", "helper", "main"}  BY DEF Inv, TypeOK
<1> QED  BY <1>1, PurgeLockStep DEF vars, opVars, markVars, streamVars, fullFlushVars

LEMMA CheckApplyStep == ASSUME Inv, NEW t \in Threads, CheckApply(t) PROVE Inv'
<1>0. /\ applying' = [applying EXCEPT ![t] = deleteQueue] /\ ~fullFlush
      /\ log' = log /\ state' = state /\ locked' = locked /\ segmentInfos' = segmentInfos
      /\ updates' = updates /\ nextGen' = nextGen /\ fullFlush' = fullFlush
      /\ pendingChangesInCurrentFullFlush' = pendingChangesInCurrentFullFlush
      /\ main' = main /\ commit' = commit /\ frozen' = frozen /\ dwpts' = dwpts
      /\ tickets' = tickets /\ purgeLock' = purgeLock /\ tragedy' = tragedy
      /\ markVars' = markVars /\ overtaken' = overtaken
  BY DEF CheckApply, MayApply, opVars, markVars, streamVars, fullFlushVars
<1>1. TypeOK' /\ \A u \in Threads : applying'[u] <= deleteQueue
  <2>1. applying \in [Threads -> Nat] /\ deleteQueue \in Nat
        /\ \A u \in Threads : applying[u] <= deleteQueue
    BY LogTypes DEF Inv, TypeOK, Refs, deleteQueue
  <2>2. applying' \in [Threads -> Nat] /\ \A u \in Threads : applying'[u] <= deleteQueue
    BY <1>0, <2>1
  <2>3. TypeOK'  BY <1>0, <2>2 DEF Inv, TypeOK, markVars
  <2> QED  BY <2>2, <2>3
<1>3. Refs'  BY <1>0, <1>1, SameRefsKeep
<1>4. /\ LogGrows /\ FlushedStay /\ Places' = Places
      /\ DocsPlaced' /\ DocsCovered' /\ TicketsOwn' /\ StreamOwns' /\ Order'
  BY <1>0, <1>1, SameDataKeeps
<1>5. ThreadsOwn'  BY <1>0, SameThreadsKeep DEF markVars
<1>6. FullFlushOwn' /\ OldQueueFlushed'
  BY <1>0 DEF Inv, FullFlushOwn, OldQueueFlushed, InFullFlush, Swapping, Writers, Phase, Queue,
              deleteQueue
<1>7. QueuesFrozen' /\ Reported'  BY <1>0, <1>1, <1>4, QueuesStay
<1>8. CommitOld'  BY <1>0 DEF Inv, CommitOld, deleteQueue
<1>9. CommitIsPrefix'  BY <1>0, <1>1, <1>4, CommitStays
<1>10. Flushed'
  <2>1. deleteQueue' = deleteQueue  BY <1>0 DEF deleteQueue
  <2> QED  BY <1>0, <1>1, <1>4, <2>1, NothingLeftStays
<1> QED  BY <1>1, <1>3, <1>4, <1>5, <1>6, <1>7, <1>8, <1>9, <1>10 DEF Inv

\* The holder of the fullFlushLock goes on, at a place after the swap.
LEMMA MainMoves ==
  ASSUME Inv, TypeOK', overtaken' = overtaken, log' = log, state' = state, locked' = locked,
         segmentInfos' = segmentInfos, updates' = updates, nextGen' = nextGen,
         fullFlush' = fullFlush, frozen' = frozen, dwpts' = dwpts, applying' = applying,
         pendingChangesInCurrentFullFlush' = pendingChangesInCurrentFullFlush,
         tickets' = tickets, tragedy' = tragedy, flushPending' = flushPending,
         main.pc \in {"forcePurge", "purge", "waitApply"},
         main'.pc \in {"purge", "waitApply", "finish"}
  PROVE  /\ Refs' /\ DocsPlaced' /\ DocsCovered' /\ ThreadsOwn' /\ FullFlushOwn'
         /\ OldQueueFlushed' /\ TicketsOwn' /\ StreamOwns' /\ Order'
         /\ QueuesFrozen' /\ Reported' /\ LogGrows /\ FlushedStay /\ Places' = Places
<1>1. Refs'
  <2>1. \A t \in Threads : applying'[t] <= deleteQueue  BY DEF Inv, Refs
  <2> QED  BY <2>1, SameRefsKeep
<1>2. /\ LogGrows /\ FlushedStay /\ Places' = Places
      /\ DocsPlaced' /\ DocsCovered' /\ TicketsOwn' /\ StreamOwns' /\ Order'
  BY SameDataKeeps
<1>3. ThreadsOwn'  BY SameThreadsKeep
<1>4. ~Swapping /\ ~Swapping' /\ InFullFlush /\ InFullFlush'
      /\ main.pc # "mark" /\ main.pc # "help" /\ main'.pc # "help"
  BY DEF Swapping, InFullFlush
<1>5. FullFlushOwn'
  BY <1>4 DEF Inv, FullFlushOwn, Writers, Phase, Queue, deleteQueue
<1>6. OldQueueFlushed'
  BY <1>4 DEF Inv, OldQueueFlushed, Writers, Phase, Queue, deleteQueue
<1>7. QueuesFrozen' /\ Reported'  BY <1>2, <1>4, QueuesStay
<1> QED  BY <1>1, <1>2, <1>3, <1>5, <1>6, <1>7

LEMMA MainTypes ==
  ASSUME Inv
  PROVE  /\ main \in MainType /\ main.waitFor \subseteq Packet
         /\ main.pc \in {"idle", "mark", "help", "forcePurge", "purge", "waitApply", "finish"}
         /\ main.marked \subseteq Threads /\ main.anythingFlushed \in BOOLEAN
BY DEF Inv, TypeOK, MainType

LEMMA ForcePurgeStep == ASSUME Inv, ForcePurge PROVE Inv'
<1>0. /\ log' = log /\ state' = state /\ locked' = locked /\ segmentInfos' = segmentInfos
      /\ markVars' = markVars /\ overtaken' = overtaken
      /\ updates' = updates /\ nextGen' = nextGen /\ fullFlush' = fullFlush
      /\ pendingChangesInCurrentFullFlush' = pendingChangesInCurrentFullFlush
      /\ commit' = commit /\ frozen' = frozen /\ dwpts' = dwpts /\ applying' = applying
      /\ tickets' = tickets /\ purgeLock' = "main" /\ tragedy' = tragedy
      /\ main.pc = "forcePurge" /\ main' = [main EXCEPT !.pc = "purge"]
  BY DEF ForcePurge, At, opVars, markVars, streamVars
<1>1. main' \in MainType /\ main'.pc = "purge"  BY <1>0, MainTypes DEF MainType
<1>2. TypeOK'  BY <1>0, <1>1 DEF Inv, TypeOK, markVars, MainType
<1>3. /\ Refs' /\ DocsPlaced' /\ DocsCovered' /\ ThreadsOwn' /\ FullFlushOwn'
      /\ OldQueueFlushed' /\ TicketsOwn' /\ StreamOwns' /\ Order'
      /\ QueuesFrozen' /\ Reported' /\ LogGrows /\ FlushedStay /\ Places' = Places
  BY <1>0, <1>1, <1>2, MainMoves DEF markVars
<1>4. CommitOld'  BY <1>0, <1>1 DEF Inv, CommitOld, deleteQueue
<1>5. CommitIsPrefix'  BY <1>0, <1>2, <1>3, CommitStays
<1>6. Flushed'  BY <1>1 DEF Flushed
<1> QED  BY <1>2, <1>3, <1>4, <1>5, <1>6 DEF Inv

\* When all tickets can be published, none is left ...
LEMMA NoTicketLeft ==
  ASSUME Inv, ~overtaken, main.pc = "purge", NothingToPublish
  PROVE  tickets = <<>>
<1> SUFFICES ASSUME tickets # <<>> PROVE FALSE
  OBVIOUS
<1>1. Head(tickets) = tickets[1] /\ 1 \in DOMAIN tickets  BY TicketTypes
<1>2. CASE tickets[1].dwpt = None
  BY <1>1, <1>2 DEF NothingToPublish, CanPublish
<1>3. CASE tickets[1].dwpt # None
  <2>1. tickets[1].dwpt \in Writers /\ Phase(tickets[1].dwpt) \in Ticketed
    BY <1>1, <1>3 DEF Inv, Refs, TicketsOwn
  <2>2. Phase(tickets[1].dwpt) # "ticket"
    BY <2>1 DEF Inv, FullFlushOwn, InFullFlush, Swapping
  <2> QED  BY <1>1, <2>1, <2>2 DEF NothingToPublish, CanPublish, Ticketed, Phase
<1> QED  BY <1>2, <1>3

\* ... and every delete before the swap has become a packet.
LEMMA EndForcePurgeStep == ASSUME Inv, EndForcePurge PROVE Inv'
<1>0. /\ log' = log /\ state' = state /\ locked' = locked /\ segmentInfos' = segmentInfos
      /\ markVars' = markVars /\ overtaken' = overtaken
      /\ updates' = updates /\ nextGen' = nextGen /\ fullFlush' = fullFlush
      /\ pendingChangesInCurrentFullFlush' = pendingChangesInCurrentFullFlush
      /\ commit' = commit /\ frozen' = frozen /\ dwpts' = dwpts /\ applying' = applying
      /\ tickets' = tickets /\ purgeLock' = "free" /\ tragedy' = tragedy
      /\ main.pc = "purge" /\ main' = [main EXCEPT !.pc = "waitApply", !.waitFor = updates]
      /\ ~overtaken => tickets = <<>>
  BY NoTicketLeft DEF EndForcePurge, opVars, markVars, streamVars
<1>1. main' \in MainType /\ main'.pc = "waitApply" /\ main'.waitFor = updates
  <2>1. updates \subseteq Packet  BY DEF Inv, TypeOK
  <2> QED  BY <1>0, <2>1, MainTypes DEF MainType
<1>2. TypeOK'  BY <1>0, <1>1 DEF Inv, TypeOK, markVars, MainType
<1>3. /\ Refs' /\ DocsPlaced' /\ DocsCovered' /\ ThreadsOwn' /\ FullFlushOwn'
      /\ OldQueueFlushed' /\ TicketsOwn' /\ StreamOwns' /\ Order'
      /\ QueuesFrozen' /\ Reported' /\ LogGrows /\ FlushedStay /\ Places' = Places
  BY <1>0, <1>1, <1>2, MainMoves DEF markVars
<1>4. CommitOld'  BY <1>0, <1>1 DEF Inv, CommitOld, deleteQueue
<1>5. CommitIsPrefix'  BY <1>0, <1>2, <1>3, CommitStays
<1>6. Flushed'
  <2> SUFFICES ASSUME ~overtaken PROVE Flushed'
    BY <1>0 DEF Flushed
  <2>1. DOMAIN tickets = {}  BY <1>0
  <2>2. ASSUME NEW s \in segmentInfos, NEW x \in s.live, NEW y \in Places, Removes(y, x),
               y[1] < deleteQueue
        PROVE  \E p \in updates : Kills(p, s, x)
    <3>1. IsFrozen(y)
      <4>1. y = <<y[1], y[2]>> /\ y[1] \in DOMAIN log /\ y[2] \in DOMAIN log[y[1]]  BY PlaceIs
      <4>2. AllFrozen(y[1])
        <5>1. y[1] \in Nat /\ deleteQueue \in Nat /\ deleteQueue > 1
          BY <2>2, PlaceTypes, LogTypes, <1>0 DEF Inv, FullFlushOwn, InFullFlush, deleteQueue
        <5> QED  BY <1>0, <2>2, <4>1, <5>1 DEF Inv, QueuesFrozen, Swapping
      <4> QED  BY <2>2, <4>1, <4>2 DEF AllFrozen, IsFrozen, Removes
    <3> QED  BY <2>1, <2>2, <3>1 DEF Inv, Order, DeletesReach
  <2> QED  BY <1>0, <1>1, <2>1, <2>2, SameOps DEF Inv, Flushed, deleteQueue
<1> QED  BY <1>2, <1>3, <1>4, <1>5, <1>6 DEF Inv
\* The segments have the documents of the operations up to the old queue, and no others.
LEMMA SegmentsArePrefix ==
  ASSUME Inv, ~overtaken, main.pc = "waitApply", AllApplied, ~tragedy
  PROVE  UNION {s.live : s \in segmentInfos} = Replay(deleteQueue - 1)
<1>1. deleteQueue \in Nat /\ deleteQueue > 1 /\ InFullFlush /\ ~Swapping /\ frozen[deleteQueue] = 0
  BY LogTypes DEF Inv, FullFlushOwn, InFullFlush, Swapping, deleteQueue
<1>2. ASSUME NEW s \in segmentInfos, NEW x \in s.live
      PROVE  x \in Replay(deleteQueue - 1)
  <2>1. /\ x \in Places /\ s.dwpt \in Writers /\ x \in dwpts[s.dwpt].docs
        /\ Phase(s.dwpt) \in Ticketed
    BY LiveIsPlaced
  <2>2. x[1] = Queue(s.dwpt) /\ HasDocument(x)  BY <2>1 DEF Inv, DocsPlaced
  <2>3. Queue(s.dwpt) < deleteQueue  BY <1>1, <2>1 DEF Inv, FullFlushOwn
  <2>4. x[1] <= deleteQueue - 1
    <3>1. x[1] \in Nat  BY <2>1, PlaceTypes DEF Inv
    <3> QED  BY <1>1, <2>2, <2>3, <3>1
  <2>5. ASSUME NEW y \in Places, y[1] <= deleteQueue - 1, Removes(y, x)  PROVE FALSE
    <3>1. y[1] < deleteQueue
      <4>1. y[1] \in Nat  BY PlaceTypes DEF Inv
      <4> QED  BY <1>1, <2>5, <4>1
    <3> QED  BY <2>5, <3>1 DEF Inv, Flushed, AllApplied
  <2> QED  BY <2>1, <2>2, <2>4, <2>5 DEF Replay
<1>3. ASSUME NEW x \in Replay(deleteQueue - 1)
      PROVE  \E s \in segmentInfos : x \in s.live
  <2>1. /\ x \in Places /\ x[1] <= deleteQueue - 1 /\ HasDocument(x)
        /\ \A y \in Places : y[1] <= deleteQueue - 1 => ~Removes(y, x)
    BY DEF Replay
  <2>2. PICK d \in Writers : x \in dwpts[d].docs  BY <2>1 DEF Inv, DocsPlaced
  <2>3. Queue(d) < deleteQueue
    <3>1. x[1] = Queue(d)  BY <2>2 DEF Inv, DocsPlaced
    <3>2. x[1] \in Nat  BY <2>1, PlaceTypes DEF Inv
    <3> QED  BY <1>1, <2>1, <3>1, <3>2
  <2>4. Phase(d) = "flushed"
    <3>1. Phase(d) \in Phases  BY WriterTypes DEF Inv
    <3>2. Phase(d) \notin Waiting  BY <1>1, <2>3, WriterTypes DEF Inv, OldQueueFlushed
    <3>3. Phase(d) # "empty"  BY <2>2 DEF Inv, DocsPlaced
    <3>4. Phase(d) # "ticket"  BY <1>1 DEF Inv, FullFlushOwn
    <3>5. Phase(d) # "failed"  BY DEF Inv, TicketsOwn
    <3> QED  BY <3>1, <3>2, <3>3, <3>4, <3>5 DEF Phases, Ticketed
  <2>5. Published(d)
    <3>1. d # None  BY NoneIsNoWriter DEF Inv
    <3> QED  BY <2>4, <3>1 DEF Inv, Flushed, Published, Phase
  <2>6. ~Gone(x)
    <3> SUFFICES ASSUME NEW y \in Places, IsFrozen(y), Removes(y, x)  PROVE FALSE
      BY DEF Gone
    <3>1. y[1] \in Nat /\ y[2] \in Nat /\ y[2] > 0 /\ y[1] <= deleteQueue
      BY PlaceTypes DEF Inv
    <3>2. y[1] = deleteQueue  BY <1>1, <2>1, <3>1
    <3> QED  BY <1>1, <3>1, <3>2 DEF IsFrozen
  <2> QED  BY <2>2, <2>5, <2>6 DEF Inv, Order, DocsKept
<1>4. \A x : x \in UNION {s.live : s \in segmentInfos} <=> \E s \in segmentInfos : x \in s.live
  OBVIOUS
<1> QED  BY <1>2, <1>3, <1>4

LEMMA CloneSegmentInfosStep == ASSUME Inv, CloneSegmentInfos PROVE Inv'
<1>0. /\ log' = log /\ state' = state /\ locked' = locked /\ segmentInfos' = segmentInfos
      /\ markVars' = markVars /\ overtaken' = overtaken
      /\ updates' = updates /\ nextGen' = nextGen /\ fullFlush' = fullFlush
      /\ pendingChangesInCurrentFullFlush' = pendingChangesInCurrentFullFlush
      /\ frozen' = frozen /\ dwpts' = dwpts /\ applying' = applying
      /\ tickets' = tickets /\ purgeLock' = purgeLock /\ tragedy' = tragedy
      /\ main.pc = "waitApply" /\ main' = [main EXCEPT !.pc = "finish"]
      /\ AllApplied /\ ~tragedy
  BY DEF CloneSegmentInfos, At, opVars, markVars, streamVars
<1>1. main' \in MainType /\ main'.pc = "finish"  BY <1>0, MainTypes DEF MainType
<1>2. PICK D : D = UNION {s.live : s \in segmentInfos}  OBVIOUS
<1>3. commit' = [queue |-> deleteQueue - 1, docs |-> D]  BY <1>2 DEF CloneSegmentInfos
<1>4. ~overtaken => D = Replay(deleteQueue - 1)  BY <1>0, <1>2, SegmentsArePrefix
<1>5. commit' \in [queue : Nat, docs : SUBSET (Nat \X Nat)] /\ commit'.queue = deleteQueue - 1
      /\ commit'.docs = D
  <2>1. D \subseteq Nat \X Nat  BY <1>2 DEF Inv, TypeOK
  <2>2. deleteQueue - 1 \in Nat  BY LogTypes DEF Inv, deleteQueue
  <2> QED  BY <1>3, <2>1, <2>2
<1>6. TypeOK'  BY <1>0, <1>1, <1>5 DEF Inv, TypeOK, markVars, MainType
<1>7. /\ Refs' /\ DocsPlaced' /\ DocsCovered' /\ ThreadsOwn' /\ FullFlushOwn'
      /\ OldQueueFlushed' /\ TicketsOwn' /\ StreamOwns' /\ Order'
      /\ QueuesFrozen' /\ Reported' /\ LogGrows /\ FlushedStay /\ Places' = Places
  BY <1>0, <1>1, <1>6, MainMoves DEF markVars
<1>8. CommitOld'
  <2>1. deleteQueue \in Nat  BY LogTypes DEF Inv, deleteQueue
  <2>2. deleteQueue' = deleteQueue  BY <1>0 DEF deleteQueue
  <2> QED  BY <1>1, <1>5, <2>1, <2>2 DEF CommitOld
<1>9. CommitIsPrefix'
  <2>1. Replay(deleteQueue - 1)' = Replay(deleteQueue - 1)
    BY <1>0, SameOps DEF Inv, Replay, HasDocument, deleteQueue
  <2>2. deleteQueue' = deleteQueue  BY <1>0 DEF deleteQueue
  <2> QED  BY <1>0, <1>4, <1>5, <2>1, <2>2 DEF CommitIsPrefix
<1>10. Flushed'  BY <1>1 DEF Flushed
<1> QED  BY <1>6, <1>7, <1>8, <1>9, <1>10 DEF Inv
------------------------------------------------------------------------------
(* Publishing keeps the rest.                                              *)

LEMMA PublishTicketStep == ASSUME Inv, NEW who, PublishTicket(who) PROVE Inv'
<1>0. /\ log' = log /\ state' = state /\ locked' = locked /\ fullFlush' = fullFlush
      /\ markVars' = markVars /\ overtaken' = overtaken
      /\ pendingChangesInCurrentFullFlush' = pendingChangesInCurrentFullFlush
      /\ frozen' = frozen /\ dwpts' = dwpts /\ applying' = applying
      /\ purgeLock' = purgeLock /\ tragedy' = tragedy /\ main' = main /\ commit' = commit
  BY DEF PublishTicket, opVars, markVars, fullFlushVars
<1>1. /\ 1 \in DOMAIN tickets /\ CanPublish(tickets[1]) /\ Publish(tickets[1])
      /\ DOMAIN tickets = 1 .. Len(tickets) /\ Len(tickets) \in Nat
      /\ DOMAIN tickets' = 1 .. Len(tickets) - 1 /\ tickets' \in Seq(TicketType)
      /\ \A i \in DOMAIN tickets' : i + 1 \in DOMAIN tickets /\ tickets'[i] = tickets[i + 1]
  BY PublishTickets, TicketTypes
<1>2. /\ nextGen \in Nat /\ HeadGen \in Nat /\ nextGen' \in Nat /\ nextGen <= nextGen'
      /\ tickets[1].keys # {} => nextGen < nextGen'
      /\ HeadHasSegment => HeadGen < nextGen'
  BY <1>1, PublishGens
<1>3. PICK d : d = tickets[1].dwpt  OBVIOUS
<1>4. HeadHasSegment => d \in Writers /\ d \in Nat /\ Phase(d) = "flushed"
  BY <1>1, <1>3, TicketTypes DEF HeadHasSegment
<1>5. \A s \in segmentInfos' :
        /\ s \in SegmentType /\ s.dwpt \in Writers /\ s.delGen < nextGen'
        /\ s \in segmentInfos \/ (HeadHasSegment /\ s.dwpt = d)
        /\ s.live \subseteq dwpts[s.dwpt].docs
  <2> SUFFICES ASSUME NEW s \in segmentInfos'
               PROVE  /\ s \in SegmentType /\ s.dwpt \in Writers /\ s.delGen < nextGen'
                      /\ s \in segmentInfos \/ (HeadHasSegment /\ s.dwpt = d)
                      /\ s.live \subseteq dwpts[s.dwpt].docs
    OBVIOUS
  <2>1. CASE s \in segmentInfos
    <3>1. /\ s \in SegmentType /\ s.dwpt \in Writers /\ s.delGen < nextGen
          /\ s.live \subseteq dwpts[s.dwpt].docs
      BY <2>1 DEF Inv, TypeOK, Refs, StreamOwns, SegmentType
    <3>2. s.delGen \in Nat  BY <3>1 DEF SegmentType
    <3> QED  BY <1>2, <2>1, <3>1, <3>2
  <2>2. CASE HeadHasSegment /\ s = HeadSegment
    <3>1. s = [dwpt |-> d, delGen |-> HeadGen, live |-> HeadLive]
      BY <1>3, <2>2 DEF HeadSegment
    <3>2. HeadLive \subseteq dwpts[d].docs  BY <1>3 DEF HeadLive
    <3>3. dwpts[d].docs \subseteq Nat \X Nat  BY <1>4, <2>2, WriterTypes DEF Inv
    <3> QED  BY <1>2, <1>4, <2>2, <3>1, <3>2, <3>3 DEF SegmentType
  <2> QED  BY <1>1, <2>1, <2>2, PublishSegments
<1>6. \A p \in updates' :
        /\ p \in Packet /\ p.dwpt \in Writers \cup {None} /\ p.delGen < nextGen'
        /\ p \in updates \/ p.dwpt = None \/ (HeadHasSegment /\ p.dwpt = d)
  <2> SUFFICES ASSUME NEW p \in updates'
               PROVE  /\ p \in Packet /\ p.dwpt \in Writers \cup {None} /\ p.delGen < nextGen'
                      /\ p \in updates \/ p.dwpt = None \/ (HeadHasSegment /\ p.dwpt = d)
    OBVIOUS
  <2>1. CASE p \in updates
    <3>1. p \in Packet /\ p.dwpt \in Writers \cup {None} /\ p.delGen < nextGen
      BY <2>1 DEF Inv, TypeOK, Refs
    <3>2. p.delGen \in Nat  BY <3>1 DEF Packet
    <3> QED  BY <1>2, <2>1, <3>1, <3>2
  <2>2. CASE tickets[1].keys # {} /\ p = HeadGlobal
    <3>1. tickets[1].keys \subseteq Keys  BY <1>1, TicketTypes
    <3> QED  BY <1>2, <2>2, <3>1 DEF HeadGlobal, GlobalPacket, Packet, None
  <2>3. CASE HeadHasSegment /\ p = HeadPrivate
    BY <1>2, <1>3, <1>4, <2>3 DEF HeadPrivate, PrivatePacket, Packet
  <2> QED  BY <1>1, <2>1, <2>2, <2>3, PublishUpdates
<1>7. TypeOK'
  BY <1>0, <1>1, <1>2, <1>5, <1>6 DEF Inv, TypeOK, markVars, SegmentType, TicketType
<1>8. Refs'
  <2>1. \A i \in DOMAIN tickets' : tickets'[i].dwpt \in Writers \cup {None}
    BY <1>1, TicketTypes
  <2> QED  BY <1>0, <1>5, <1>6, <2>1 DEF Inv, Refs, Writers, Queue, deleteQueue
<1>9. LogGrows /\ FlushedStay /\ Places' = Places  BY <1>0, SameOps DEF Inv
<1>10. DocsPlaced'
  <2>1. DocsStay  BY <1>0 DEF DocsStay, Writers
  <2> QED  BY <1>0, <1>9, <2>1, DocsPlacedStays DEF Inv, DocsPlaced, Writers, Phase
<1>11. DocsCovered'  BY <1>0 DEF Inv, DocsCovered, Writers, Phase, Queue
<1>12. ThreadsOwn'  BY <1>0, SameThreadsKeep DEF markVars
<1>13. FullFlushOwn' /\ OldQueueFlushed'
  BY <1>0 DEF Inv, FullFlushOwn, OldQueueFlushed, InFullFlush, Swapping, Writers, Phase, Queue,
              deleteQueue
<1>14. \A e \in Writers : Phase(e) = "ticket" => HasTicket(e)'
  <2> SUFFICES ASSUME NEW e \in Writers, Phase(e) = "ticket" PROVE HasTicket(e)'
    OBVIOUS
  <2>1. PICK i \in DOMAIN tickets : tickets[i].dwpt = e  BY DEF Inv, TicketsOwn, HasTicket
  <2>2. i # 1
    <3>1. e # None  BY NoneIsNoWriter DEF Inv
    <3> QED  BY <1>1, <2>1, <3>1 DEF CanPublish, Phase
  <2>3. i - 1 \in DOMAIN tickets' /\ (i - 1) + 1 = i  BY <1>1, <2>2
  <2> QED  BY <1>1, <2>1, <2>3 DEF HasTicket
<1>15. TicketsOwn'
  <2>1. \A i, j \in DOMAIN tickets' :
          tickets'[i].dwpt = tickets'[j].dwpt /\ tickets'[i].dwpt # None => i = j
    <3> SUFFICES ASSUME NEW i \in DOMAIN tickets', NEW j \in DOMAIN tickets',
                        tickets'[i].dwpt = tickets'[j].dwpt, tickets'[i].dwpt # None
                 PROVE  i = j
      OBVIOUS
    <3>1. i + 1 = j + 1  BY <1>1 DEF Inv, TicketsOwn
    <3> QED  BY <1>1, <3>1
  <2>2. \A i \in DOMAIN tickets' : tickets'[i].dwpt # None => Phase(tickets'[i].dwpt) \in Ticketed
    BY <1>1 DEF Inv, TicketsOwn
  <2> QED  BY <1>0, <1>14, <2>1, <2>2 DEF Inv, TicketsOwn, Writers, Phase
<1>16. \A e \in Writers : Published(e) \/ (HeadHasSegment /\ e = d) => Published(e)'
  <2> SUFFICES ASSUME NEW e \in Writers, Published(e) \/ (HeadHasSegment /\ e = d)
               PROVE  Published(e)'
    OBVIOUS
  <2>1. Phase(e) = "flushed"  BY <1>4 DEF Published, Phase
  <2>2. ASSUME NEW i \in DOMAIN tickets', tickets'[i].dwpt = e  PROVE FALSE
    <3>1. i + 1 \in DOMAIN tickets /\ tickets[i + 1].dwpt = e /\ i + 1 # 1  BY <1>1, <2>2
    <3>2. HeadHasSegment /\ e = d  BY <3>1 DEF Published
    <3>3. e # None  BY <3>2, <1>3 DEF HeadHasSegment
    <3> QED  BY <1>1, <1>3, <3>1, <3>2, <3>3 DEF Inv, TicketsOwn
  <2> QED  BY <1>0, <2>1, <2>2 DEF Published, Phase
<1>17. StreamOwns'
  <2>1. \A s \in segmentInfos' : Published(s.dwpt)'
    BY <1>5, <1>16 DEF Inv, StreamOwns
  <2>2. \A p \in updates' : p.dwpt # None => Published(p.dwpt)'
    BY <1>4, <1>6, <1>16 DEF Inv, StreamOwns
  <2> QED  BY <1>0, <1>5, <2>1, <2>2 DEF StreamOwns
<1>18. Order'  BY PublishOrder
<1>19. QueuesFrozen' /\ Reported'  BY <1>0, <1>7, <1>9, QueuesStay
<1>20. CommitOld'  BY <1>0 DEF Inv, CommitOld, deleteQueue
<1>21. CommitIsPrefix'  BY <1>0, <1>7, <1>9, CommitStays
<1>22. Flushed'
  <2> SUFFICES ASSUME main.pc = "waitApply", ~overtaken PROVE Flushed'
    BY <1>0 DEF Flushed
  <2>1. \A i \in DOMAIN tickets : tickets[i].dwpt = None /\ tickets[i].keys = {}
    BY DEF Inv, Flushed
  <2>2. ~HeadHasSegment  BY <1>1, <2>1 DEF HeadHasSegment
  <2>3. \A s \in segmentInfos' : s \in segmentInfos  BY <1>5, <2>2
  <2>4. \A i \in DOMAIN tickets' : tickets'[i].dwpt = None /\ tickets'[i].keys = {}
    BY <1>1, <2>1
  <2>5. updates \subseteq updates'  BY <1>1, PublishUpdates
  <2> QED  BY <1>0, <2>3, <2>4, <2>5, SameOps DEF Inv, Flushed, deleteQueue
<1> QED  BY <1>7, <1>8, <1>10, <1>11, <1>12, <1>13, <1>15, <1>17, <1>18, <1>19, <1>20, <1>21,
            <1>22 DEF Inv

LEMMA ApplyPacketStep == ASSUME Inv, NEW p \in updates, ApplyPacket(p) PROVE Inv'
<1>0. /\ log' = log /\ state' = state /\ locked' = locked /\ fullFlush' = fullFlush
      /\ markVars' = markVars /\ overtaken' = overtaken
      /\ pendingChangesInCurrentFullFlush' = pendingChangesInCurrentFullFlush
      /\ frozen' = frozen /\ dwpts' = dwpts /\ applying' = applying /\ tickets' = tickets
      /\ purgeLock' = purgeLock /\ tragedy' = tragedy /\ main' = main /\ commit' = commit
      /\ nextGen' = nextGen /\ updates' = updates \ {p}
  BY DEF ApplyPacket, opVars, markVars, fullFlushVars
<1>1. \A r \in segmentInfos' : \E s \in segmentInfos :
         /\ r.dwpt = s.dwpt /\ r.delGen = s.delGen /\ r \in SegmentType
         /\ \A x \in r.live : x \in s.live /\ ~Kills(p, s, x)
  BY ApplyIs
<1>2. TypeOK'
  <2>1. segmentInfos' \subseteq SegmentType  BY <1>1
  <2>2. updates' \subseteq Packet  BY <1>0 DEF Inv, TypeOK
  <2> QED  BY <1>0, <2>1, <2>2 DEF Inv, TypeOK, markVars, SegmentType
<1>3. Refs'
  <2>1. \A r \in segmentInfos' : r.dwpt \in Writers /\ r.delGen < nextGen
    BY <1>1 DEF Inv, Refs
  <2> QED  BY <1>0, <2>1 DEF Inv, Refs, Writers, Queue, deleteQueue
<1>4. LogGrows /\ FlushedStay /\ Places' = Places  BY <1>0, SameOps DEF Inv
<1>5. DocsPlaced'
  <2>1. DocsStay  BY <1>0 DEF DocsStay, Writers
  <2> QED  BY <1>0, <1>4, <2>1, DocsPlacedStays DEF Inv, DocsPlaced, Writers, Phase
<1>6. DocsCovered'  BY <1>0 DEF Inv, DocsCovered, Writers, Phase, Queue
<1>7. ThreadsOwn'  BY <1>0, SameThreadsKeep DEF markVars
<1>8. FullFlushOwn' /\ OldQueueFlushed'
  BY <1>0 DEF Inv, FullFlushOwn, OldQueueFlushed, InFullFlush, Swapping, Writers, Phase, Queue,
              deleteQueue
<1>9. TicketsOwn'  BY <1>0 DEF Inv, TicketsOwn, Writers, Phase, HasTicket
<1>10. StreamOwns'
  <2>1. \A d : Published(d)' = Published(d)  BY <1>0 DEF Published
  <2>2. \A r \in segmentInfos' : Published(r.dwpt) /\ r.live \subseteq dwpts[r.dwpt].docs
    BY <1>1 DEF Inv, StreamOwns
  <2> QED  BY <1>0, <2>1, <2>2 DEF Inv, StreamOwns
<1>11. Order'  BY ApplyOrder
<1>12. QueuesFrozen' /\ Reported'  BY <1>0, <1>2, <1>4, QueuesStay
<1>13. CommitOld'  BY <1>0 DEF Inv, CommitOld, deleteQueue
<1>14. CommitIsPrefix'  BY <1>0, <1>2, <1>4, CommitStays
<1>15. Flushed'
  <2> SUFFICES ASSUME main.pc = "waitApply", ~overtaken, NEW r \in segmentInfos',
                      NEW x \in r.live, NEW y \in Places, Removes(y, x), y[1] < deleteQueue
               PROVE  \E u \in updates' \cap main.waitFor : Kills(u, r, x)
    BY <1>0, SameOps DEF Inv, Flushed, deleteQueue
  <2>1. PICK s \in segmentInfos : /\ r.dwpt = s.dwpt /\ r.delGen = s.delGen
                                  /\ x \in s.live /\ ~Kills(p, s, x)
    BY <1>1
  <2>2. PICK u \in updates \cap main.waitFor : Kills(u, s, x)
    BY <2>1 DEF Inv, Flushed
  <2>3. u \in updates' /\ Kills(u, r, x)  BY <1>0, <2>1, <2>2 DEF Kills, Applies
  <2> QED  BY <2>2, <2>3
<1> QED  BY <1>2, <1>3, <1>5, <1>6, <1>7, <1>8, <1>9, <1>10, <1>11, <1>12, <1>13, <1>14, <1>15
         DEF Inv
------------------------------------------------------------------------------
(* Steps in which DWPTs change their phase.                                *)

\* The phase of one DWPT is set.
LEMMA PhaseSet ==
  ASSUME NEW D \in Seq(DwptRec), NEW d \in DOMAIN D, NEW ph \in Phases
  PROVE  LET E == [D EXCEPT ![d].phase = ph] IN
         /\ E \in Seq(DwptRec) /\ Len(E) = Len(D) /\ DOMAIN E = DOMAIN D
         /\ \A e \in DOMAIN D : /\ E[e].queue = D[e].queue /\ E[e].docs = D[e].docs
                                /\ E[e].upto = D[e].upto
                                /\ E[e].phase = IF e = d THEN ph ELSE D[e].phase
<1> DEFINE E == [D EXCEPT ![d].phase = ph]
<1>1. D[d] \in DwptRec  OBVIOUS
<1>2. PICK r : r = [D[d] EXCEPT !.phase = ph]  OBVIOUS
<1>3. /\ r \in DwptRec /\ r.phase = ph
      /\ r.queue = D[d].queue /\ r.docs = D[d].docs /\ r.upto = D[d].upto
  BY <1>1, <1>2 DEF DwptRec, Phases, Waiting, Ticketed
<1>4. E = [D EXCEPT ![d] = r]  BY <1>2
<1>5. E \in Seq(DwptRec) /\ Len(E) = Len(D) /\ DOMAIN E = DOMAIN D  BY <1>3, <1>4
<1>6. \A e \in DOMAIN D : E[e] = IF e = d THEN r ELSE D[e]  BY <1>4
<1> HIDE DEF E
<1>7. \A e \in DOMAIN D : /\ E[e].queue = D[e].queue /\ E[e].docs = D[e].docs
                          /\ E[e].upto = D[e].upto
                          /\ E[e].phase = IF e = d THEN ph ELSE D[e].phase
  BY <1>3, <1>6
<1> QED  BY <1>5, <1>7 DEF E

\* What a step does to the DWPTs that leaves their documents and makes no ticket
WriterStep ==
  /\ \A d \in Writers :
       /\ d \in DOMAIN dwpts' /\ dwpts'[d].queue = dwpts[d].queue
       /\ dwpts'[d].docs = dwpts[d].docs /\ dwpts'[d].upto = dwpts[d].upto
       /\ Phase(d) \in Ticketed <=> dwpts'[d].phase \in Ticketed
       /\ Phase(d) = "flushed" => dwpts'[d].phase = "flushed"
       /\ Phase(d) = "failed" => dwpts'[d].phase = "failed"
       /\ dwpts'[d].phase = "empty" => dwpts[d].docs = {}
       /\ dwpts'[d].phase = "failed" => Phase(d) = "failed" \/ tragedy'
  /\ \A d \in DOMAIN dwpts' : d \notin Writers => dwpts'[d].docs = {} /\ dwpts'[d].phase = "active"

LEMMA WriterStepKeeps ==
  ASSUME Inv, TypeOK', Refs', overtaken => overtaken', log' = log, frozen' = frozen,
         tickets' = tickets,
         segmentInfos' = segmentInfos, updates' = updates, tragedy => tragedy', WriterStep
  PROVE  /\ LogGrows /\ FlushedStay /\ Places' = Places
         /\ DocsPlaced' /\ DocsCovered' /\ TicketsOwn' /\ StreamOwns' /\ Order'
<1>1. LogGrows
  <2>1. \A q \in DOMAIN log : frozen[q] <= frozen[q]  BY LogTypes DEF Inv
  <2> QED  BY <2>1 DEF LogGrows
<1>2. Places' = Places  BY DEF Places
<1>3. FlushedStay  BY DEF WriterStep, FlushedStay
<1>4. DocsStay  BY DEF WriterStep, DocsStay
<1>5. \A d \in DOMAIN dwpts' :
        /\ dwpts'[d].phase \in Ticketed => d \in Writers /\ Phase(d) \in Ticketed
        /\ dwpts'[d].phase = "failed" => Phase(d) = "failed" \/ tragedy'
        /\ dwpts'[d].phase = "empty" => dwpts'[d].docs = {}
        /\ dwpts'[d].phase = "flushed" => d \in Writers /\ Phase(d) \in Ticketed
  BY DEF WriterStep, Ticketed
<1>6. DocsPlaced'  BY <1>1, <1>2, <1>3, <1>4, <1>5, DocsPlacedStays
<1>7. DocsCovered'  BY <1>1, <1>3, <1>5, DocsCoveredStays
<1>8. TicketsOwn'  BY <1>3, <1>5, TicketsOwnStays
<1>9. StreamOwns'  BY <1>3, StreamOwnsStays
<1>10. Quiet
  <2>1. \A d \in Writers : dwpts'[d].phase = "flushed" => Phase(d) = "flushed" \/ HasTicket(d)
    <3> SUFFICES ASSUME NEW d \in Writers, dwpts'[d].phase = "flushed"
                 PROVE  Phase(d) = "flushed" \/ HasTicket(d)
      OBVIOUS
    <3>1. Phase(d) \in Ticketed  BY DEF WriterStep, Ticketed
    <3>2. Phase(d) # "failed"  BY DEF WriterStep
    <3>3. Phase(d) = "ticket" => HasTicket(d)  BY DEF Inv, TicketsOwn
    <3> QED  BY <3>1, <3>2, <3>3 DEF Ticketed
  <2> QED  BY <1>2, <1>5, <2>1 DEF Quiet
<1>11. Order'  BY <1>1, <1>3, <1>10, QuietOrder
<1> QED  BY <1>1, <1>2, <1>3, <1>6, <1>7, <1>8, <1>9, <1>11

\* What follows then for the operations, and for commits
LEMMA WriterStepRest ==
  ASSUME Inv, TypeOK', LogGrows, FlushedStay, Places' = Places, log' = log,
         tickets' = tickets, segmentInfos' = segmentInfos, updates' = updates, commit' = commit,
         pendingChangesInCurrentFullFlush' = pendingChangesInCurrentFullFlush,
         main'.pc = main.pc, main'.anythingFlushed = main.anythingFlushed,
         main'.waitFor = main.waitFor
  PROVE  /\ QueuesFrozen' /\ Reported' /\ CommitOld' /\ CommitIsPrefix' /\ Flushed'
<1>1. QueuesFrozen' /\ Reported'  BY QueuesStay
<1>2. deleteQueue' = deleteQueue  BY DEF deleteQueue
<1>3. CommitOld'  BY <1>2 DEF Inv, CommitOld
<1>4. CommitIsPrefix'  BY CommitStays
<1>5. Flushed'  BY <1>2, NothingLeftStays
<1> QED  BY <1>1, <1>3, <1>4, <1>5

LEMMA WriterSeq == ASSUME Inv PROVE dwpts \in Seq(DwptRec)
BY DEF Inv, TypeOK

\* AddSegment, MarkTicketFailed: the flush of d has ended.
LEMMA FlushEnds ==
  ASSUME Inv, NEW d \in Writers, Phase(d) = "ticket", NEW ph \in {"flushed", "failed"},
         dwpts' = [dwpts EXCEPT ![d].phase = ph], opVars' = opVars, frozen' = frozen,
         applying' = applying, tickets' = tickets, purgeLock' = purgeLock,
         streamVars' = streamVars, fullFlushVars' = fullFlushVars, tragedy' \in BOOLEAN,
         tragedy => tragedy', ph = "failed" => tragedy'
  PROVE  Inv'
<1>0. /\ log' = log /\ state' = state /\ locked' = locked /\ segmentInfos' = segmentInfos
      /\ markVars' = markVars /\ overtaken' = overtaken
      /\ updates' = updates /\ nextGen' = nextGen /\ fullFlush' = fullFlush
      /\ pendingChangesInCurrentFullFlush' = pendingChangesInCurrentFullFlush
      /\ main' = main /\ commit' = commit
  BY DEF opVars, markVars, streamVars, fullFlushVars
<1>1. /\ dwpts' \in Seq(DwptRec) /\ DOMAIN dwpts' = Writers
      /\ \A e \in Writers : /\ dwpts'[e].queue = dwpts[e].queue /\ dwpts'[e].docs = dwpts[e].docs
                            /\ dwpts'[e].upto = dwpts[e].upto
                            /\ dwpts'[e].phase = IF e = d THEN ph ELSE dwpts[e].phase
  <2>1. ph \in Phases  BY DEF Phases, Ticketed
  <2> QED  BY <2>1, WriterSeq, PhaseSet DEF Writers
<1>2. TypeOK'  BY <1>0, <1>1 DEF Inv, TypeOK, markVars
<1>3. Refs'  BY <1>0, <1>1 DEF Inv, Refs, Writers, Queue, deleteQueue
<1>4. WriterStep
  <2>1. \A e \in Writers :
          /\ Phase(e) \in Ticketed <=> dwpts'[e].phase \in Ticketed
          /\ Phase(e) = "flushed" => dwpts'[e].phase = "flushed"
          /\ Phase(e) = "failed" => dwpts'[e].phase = "failed"
          /\ dwpts'[e].phase = "failed" => Phase(e) = "failed" \/ tragedy'
    BY <1>1 DEF Phase, Ticketed
  <2>2. \A e \in Writers : dwpts'[e].phase = "empty" => dwpts[e].docs = {}
    BY <1>1 DEF Phase, Inv, DocsPlaced
  <2> QED  BY <1>1, <2>1, <2>2 DEF WriterStep
<1>5. /\ LogGrows /\ FlushedStay /\ Places' = Places
      /\ DocsPlaced' /\ DocsCovered' /\ TicketsOwn' /\ StreamOwns' /\ Order'
  BY <1>0, <1>2, <1>3, <1>4, WriterStepKeeps
<1>6. /\ QueuesFrozen' /\ Reported' /\ CommitOld' /\ CommitIsPrefix' /\ Flushed'
  BY <1>0, <1>2, <1>5, WriterStepRest
<1>7. ThreadsOwn'
  <2>1. \A e \in Writers : Phase(e)' = "active" <=> Phase(e) = "active"
    BY <1>1 DEF Phase
  <2> QED  BY <1>0, <1>1, <2>1 DEF Inv, ThreadsOwn, Writers, Refs, markVars
<1>8. FullFlushOwn'
  <2>1. \A e \in Writers : Phase(e)' \in Ticketed => Phase(e) \in Ticketed
    BY <1>1 DEF Phase, Ticketed
  <2>2. \A e \in Writers : Phase(e)' \in {"pending", "ticket"} => Phase(e)' = Phase(e)
    BY <1>1 DEF Phase
  <2> QED
    BY <1>0, <1>1, <2>1, <2>2 DEF Inv, FullFlushOwn, InFullFlush, Swapping, Writers, Queue,
                                  deleteQueue
<1>9. OldQueueFlushed'
  <2>1. \A e \in Writers : Phase(e)' \in Waiting => Phase(e)' = Phase(e)
    BY <1>1 DEF Phase, Waiting
  <2>2. \A t \in Threads : state[t] # None => Queue(state[t])' = Queue(state[t])
    BY <1>0, <1>1 DEF Inv, Refs, Queue
  <2> QED
    BY <1>0, <1>1, <2>1, <2>2 DEF Inv, OldQueueFlushed, Swapping, Writers, Queue, deleteQueue
<1> QED  BY <1>2, <1>3, <1>5, <1>6, <1>7, <1>8, <1>9 DEF Inv

LEMMA AddSegmentStep == ASSUME Inv, NEW d \in DOMAIN dwpts, AddSegment(d) PROVE Inv'
<1>1. tragedy \in BOOLEAN  BY DEF Inv, TypeOK
<1> QED  BY <1>1, FlushEnds DEF AddSegment, Writers, Phase

LEMMA MarkTicketFailedStep ==
  ASSUME Inv, NEW d \in DOMAIN dwpts, MarkTicketFailed(d)
  PROVE  Inv'
BY FlushEnds DEF MarkTicketFailed, Writers, Phase
\* A DWPT that is left to the full flush, by the thread it was of
LeftPhase(d) == IF dwpts[d].docs = {} THEN "empty" ELSE "buffered"

LEMMA ThreadState ==
  ASSUME Inv, NEW t \in Threads, state[t] # None
  PROVE  /\ state[t] \in Writers /\ state[t] \in Nat
         /\ Phase(state[t]) = "active" /\ Phase(state[t]) \notin Ticketed
         /\ Queue(state[t]) = deleteQueue \/ (main.pc = "mark" /\ t \notin main.marked)
         /\ Queue(state[t]) = deleteQueue \/ (Swapping /\ Queue(state[t]) = deleteQueue - 1)
<1>1. state[t] \in Writers /\ Phase(state[t]) = "active"  BY DEF Inv, Refs, ThreadsOwn
<1>2. state[t] \in Nat  BY <1>1, WriterTypes DEF Inv
<1>3. Phase(state[t]) \in Waiting /\ Phase(state[t]) \notin Ticketed
  BY <1>1 DEF Waiting, Ticketed
<1> QED  BY <1>1, <1>2, <1>3 DEF Inv, OldQueueFlushed

\* In which of the DWPTs' phases the steps of the full flush may change
LEMMA MarkedStep ==
  ASSUME Inv, TypeOK', Refs', NEW d \in Writers, NEW t \in Threads, state[t] = d,
         Queue(d) # deleteQueue, main'.pc = "mark", main.pc = "mark",
         log' = log, frozen' = frozen, applying' = applying, fullFlush' = fullFlush,
         overtaken => overtaken',
         \A e \in Writers : /\ e \in DOMAIN dwpts' /\ dwpts'[e].queue = dwpts[e].queue
                            /\ dwpts'[e].phase = IF e = d THEN LeftPhase(d) ELSE Phase(e),
         \A e \in DOMAIN dwpts' : e \notin Writers =>
            dwpts'[e].queue = deleteQueue /\ dwpts'[e].phase = "active"
  PROVE  /\ FullFlushOwn'
         /\ \A e \in Writers' : Phase(e)' \in Waiting =>
              Queue(e)' = deleteQueue' \/ (Swapping' /\ Queue(e)' = deleteQueue' - 1)
<1>1. Phase(d) = "active" /\ d # None  BY NoneIsNoWriter DEF Inv, ThreadsOwn
<1>2. Swapping /\ Queue(d) = deleteQueue - 1  BY <1>1, ThreadState
<1>3. \A e \in DOMAIN dwpts' : \/ e \in Writers /\ dwpts'[e].phase = dwpts[e].phase
                               \/ e = d /\ dwpts'[e].phase \in {"empty", "buffered"}
                               \/ e \notin Writers /\ dwpts'[e].phase = "active"
  BY DEF LeftPhase, Phase
<1>4. FullFlushOwn'
  <2>1. \A e \in DOMAIN dwpts' : dwpts'[e].phase \in {"pending", "flushed", "failed", "ticket"} =>
          e \in Writers /\ Phase(e) = dwpts'[e].phase /\ dwpts'[e].queue = dwpts[e].queue
    BY <1>3 DEF Phase
  <2>2. Swapping' /\ InFullFlush /\ InFullFlush'  BY DEF Swapping, InFullFlush
  <2> QED
    BY <2>1, <2>2 DEF Inv, FullFlushOwn, Writers, Phase, Queue, deleteQueue, Ticketed
<1>5. ASSUME NEW e \in Writers', Phase(e)' \in Waiting
      PROVE  Queue(e)' = deleteQueue' \/ (Swapping' /\ Queue(e)' = deleteQueue' - 1)
  <2>1. deleteQueue' = deleteQueue /\ Swapping' /\ Swapping  BY DEF deleteQueue, Swapping
  <2>2. CASE e \notin Writers  BY <2>1, <2>2 DEF Writers, Queue
  <2>3. CASE e = d  BY <1>2, <2>1, <2>3 DEF Queue
  <2>4. CASE e \in Writers /\ e # d
    <3>1. Phase(e) \in Waiting /\ Queue(e)' = Queue(e)  BY <1>5, <2>4 DEF Phase, Queue
    <3> QED  BY <2>1, <2>4, <3>1 DEF Inv, OldQueueFlushed
  <2> QED  BY <2>2, <2>3, <2>4
<1> QED  BY <1>4, <1>5

LEMMA MarkForFullFlushStep == ASSUME Inv, NEW t \in Threads, MarkForFullFlush(t) PROVE Inv'
<1>0. /\ log' = log /\ locked' = locked /\ segmentInfos' = segmentInfos
      /\ flushPending' \subseteq Threads /\ scanning' = scanning /\ overtaken' = overtaken
      /\ updates' = updates /\ nextGen' = nextGen /\ fullFlush' = fullFlush
      /\ pendingChangesInCurrentFullFlush' = pendingChangesInCurrentFullFlush
      /\ frozen' = frozen /\ applying' = applying /\ tickets' = tickets
      /\ purgeLock' = purgeLock /\ tragedy' = tragedy /\ commit' = commit
      /\ main.pc = "mark" /\ t \notin locked
      /\ main' = [main EXCEPT !.marked = main.marked \cup {t}]
  BY DEF MarkForFullFlush, streamVars, Inv, TypeOK
<1>1. /\ main' \in MainType /\ main'.pc = "mark" /\ main'.marked = main.marked \cup {t}
      /\ main'.anythingFlushed = main.anythingFlushed /\ main'.waitFor = main.waitFor
  BY <1>0, MainTypes DEF MainType
<1>2. PICK d : d = state[t]  OBVIOUS
<1>3. CASE ~(d # None /\ Queue(d) # deleteQueue)
  <2>0. state' = state /\ dwpts' = dwpts /\ flushPending' = flushPending
    BY <1>2, <1>3 DEF MarkForFullFlush
  <2>1. TypeOK'  BY <1>0, <1>1, <2>0 DEF Inv, TypeOK, MainType
  <2>2. Refs'
    <3>1. \A u \in Threads : applying'[u] <= deleteQueue  BY <1>0 DEF Inv, Refs
    <3> QED  BY <1>0, <2>0, <3>1, SameRefsKeep
  <2>3. /\ LogGrows /\ FlushedStay /\ Places' = Places
        /\ DocsPlaced' /\ DocsCovered' /\ TicketsOwn' /\ StreamOwns' /\ Order'
    BY <1>0, <2>0, <2>1, SameDataKeeps
  <2>4. /\ QueuesFrozen' /\ Reported' /\ CommitOld' /\ CommitIsPrefix' /\ Flushed'
    BY <1>0, <1>1, <2>1, <2>3, WriterStepRest
  <2>5. ThreadsOwn'  BY <1>0, <2>0, SameThreadsKeep
  <2>6. FullFlushOwn'
    BY <1>0, <1>1, <2>0 DEF Inv, FullFlushOwn, InFullFlush, Swapping, Writers, Phase, Queue,
                            deleteQueue
  <2>7. OldQueueFlushed'
    <3>1. \A u \in Threads : state[u] # None =>
            Queue(state[u]) = deleteQueue \/ (main.pc = "mark" /\ u \notin main'.marked)
      BY <1>0, <1>1, <1>2, <1>3 DEF Inv, OldQueueFlushed
    <3> QED
      BY <1>0, <1>1, <2>0, <3>1 DEF Inv, OldQueueFlushed, Swapping, Writers, Phase, Queue,
                                    deleteQueue
  <2> QED  BY <2>1, <2>2, <2>3, <2>4, <2>5, <2>6, <2>7 DEF Inv
<1>4. CASE d # None /\ Queue(d) # deleteQueue
  <2>0. state' = [state EXCEPT ![t] = None] /\ flushPending' = flushPending \ {t}
        /\ dwpts' = [dwpts EXCEPT ![d].phase = LeftPhase(d)]
    BY <1>2, <1>4 DEF MarkForFullFlush, LeftPhase
  <2>1. /\ d \in Writers /\ d \in Nat /\ Phase(d) = "active" /\ Phase(d) \notin Ticketed
    BY <1>2, <1>4, ThreadState
  <2>2. /\ dwpts' \in Seq(DwptRec) /\ DOMAIN dwpts' = Writers
        /\ \A e \in Writers : /\ dwpts'[e].queue = dwpts[e].queue
                              /\ dwpts'[e].docs = dwpts[e].docs /\ dwpts'[e].upto = dwpts[e].upto
                              /\ dwpts'[e].phase = IF e = d THEN LeftPhase(d) ELSE dwpts[e].phase
    <3>1. LeftPhase(d) \in Phases  BY DEF LeftPhase, Phases, Waiting
    <3> QED  BY <2>0, <2>1, <3>1, WriterSeq, PhaseSet DEF Writers
  <2>3. state \in [Threads -> Nat] /\ state' \in [Threads -> Nat]
        /\ \A u \in Threads : state'[u] = IF u = t THEN None ELSE state[u]
    BY <2>0 DEF Inv, TypeOK, None
  <2>4. TypeOK'  BY <1>0, <1>1, <2>2, <2>3 DEF Inv, TypeOK, MainType
  <2>5. Refs'  BY <1>0, <2>2, <2>3 DEF Inv, Refs, Writers, Queue, deleteQueue
  <2>6. WriterStep
    <3>1. LeftPhase(d) \in {"empty", "buffered"} /\ (LeftPhase(d) = "empty" => dwpts[d].docs = {})
      BY DEF LeftPhase
    <3>2. \A e \in Writers : e # d => dwpts'[e].phase = Phase(e)  BY <2>2 DEF Phase
    <3>3. dwpts'[d].phase = LeftPhase(d)  BY <2>1, <2>2
    <3>4. \A e \in Writers : dwpts'[e].phase = "empty" => dwpts[e].docs = {}
      BY <3>1, <3>2, <3>3 DEF Inv, DocsPlaced
    <3>5. \A e \in Writers :
            /\ Phase(e) \in Ticketed <=> dwpts'[e].phase \in Ticketed
            /\ Phase(e) = "flushed" => dwpts'[e].phase = "flushed"
            /\ Phase(e) = "failed" => dwpts'[e].phase = "failed"
            /\ dwpts'[e].phase = "failed" => Phase(e) = "failed" \/ tragedy'
      BY <2>1, <3>1, <3>2, <3>3 DEF Ticketed
    <3> QED  BY <2>2, <3>4, <3>5 DEF WriterStep
  <2>7. /\ LogGrows /\ FlushedStay /\ Places' = Places
        /\ DocsPlaced' /\ DocsCovered' /\ TicketsOwn' /\ StreamOwns' /\ Order'
    BY <1>0, <2>4, <2>5, <2>6, WriterStepKeeps
  <2>8. /\ QueuesFrozen' /\ Reported' /\ CommitOld' /\ CommitIsPrefix' /\ Flushed'
    BY <1>0, <1>1, <2>4, <2>7, WriterStepRest
  <2>9. \A u \in Threads : u # t /\ state[u] # None => state[u] # d
    BY <1>2, <1>4 DEF Inv, ThreadsOwn
  <2>10. ThreadsOwn'
    <3>1. \A u \in Threads : state'[u] # None => dwpts'[state'[u]].phase = "active"
      <4> SUFFICES ASSUME NEW u \in Threads, state'[u] # None
                   PROVE  dwpts'[state'[u]].phase = "active"
        OBVIOUS
      <4>1. u # t /\ state'[u] = state[u] /\ state[u] # d  BY <2>3, <2>9
      <4>2. state[u] \in Writers /\ Phase(state[u]) = "active"
        BY <4>1 DEF Inv, ThreadsOwn, Refs
      <4> QED  BY <2>2, <4>1, <4>2 DEF Phase
    <3>2. \A u, v \in Threads : state'[u] = state'[v] /\ state'[u] # None => u = v
      BY <2>3 DEF Inv, ThreadsOwn
    <3>3. \A e \in Writers : dwpts'[e].phase = "active" => \E u \in Threads : state'[u] = e
      <4> SUFFICES ASSUME NEW e \in Writers, dwpts'[e].phase = "active"
                   PROVE  \E u \in Threads : state'[u] = e
        OBVIOUS
      <4>1. e # d  BY <2>2 DEF LeftPhase
      <4>2. Phase(e) = "active"  BY <2>2, <4>1 DEF Phase
      <4>3. PICK u \in Threads : state[u] = e  BY <4>2 DEF Inv, ThreadsOwn
      <4>4. u # t  BY <1>2, <4>1, <4>3
      <4> QED  BY <2>3, <4>3, <4>4
    <3>4. \A u \in locked' \cup flushPending' : state'[u] # None
      BY <1>0, <2>0, <2>3 DEF Inv, ThreadsOwn, TypeOK
    <3> QED  BY <2>2, <3>1, <3>2, <3>3, <3>4 DEF ThreadsOwn, Writers, Phase
  <2>11. /\ FullFlushOwn'
         /\ \A e \in Writers' : Phase(e)' \in Waiting =>
              Queue(e)' = deleteQueue' \/ (Swapping' /\ Queue(e)' = deleteQueue' - 1)
    <3>1. \A e \in Writers : /\ e \in DOMAIN dwpts' /\ dwpts'[e].queue = dwpts[e].queue
                             /\ dwpts'[e].phase = IF e = d THEN LeftPhase(d) ELSE Phase(e)
      BY <2>2 DEF Phase
    <3>2. \A e \in DOMAIN dwpts' : e \notin Writers =>
            dwpts'[e].queue = deleteQueue /\ dwpts'[e].phase = "active"
      BY <2>2
    <3> QED  BY <1>0, <1>1, <1>2, <1>4, <2>1, <2>4, <2>5, <3>1, <3>2, MarkedStep
  <2>12. OldQueueFlushed'
    <3>1. ASSUME NEW u \in Threads, state'[u] # None
          PROVE  dwpts'[state'[u]].queue = deleteQueue
                 \/ (main'.pc = "mark" /\ u \notin main'.marked)
      <4>1. u # t /\ state'[u] = state[u] /\ state[u] \in Writers
        BY <2>3, <3>1 DEF Inv, Refs
      <4>2. dwpts'[state'[u]].queue = Queue(state[u])  BY <2>2, <4>1 DEF Queue
      <4> QED  BY <1>0, <1>1, <3>1, <4>1, <4>2 DEF Inv, OldQueueFlushed
    <3>2. deleteQueue' = deleteQueue  BY <1>0 DEF deleteQueue
    <3> QED  BY <1>1, <2>11, <3>1, <3>2 DEF OldQueueFlushed, Queue
  <2> QED  BY <2>4, <2>5, <2>7, <2>8, <2>10, <2>11, <2>12 DEF Inv
<1> QED  BY <1>3, <1>4
\* A thread looks for marked ThreadStates, ...
LEMMA NextPendingFlushStep == ASSUME Inv, NextPendingFlush PROVE Inv'
<1>0. /\ scanning' = TRUE /\ flushPending' = flushPending /\ overtaken' = overtaken
      /\ log' = log /\ state' = state /\ locked' = locked /\ segmentInfos' = segmentInfos
      /\ updates' = updates /\ nextGen' = nextGen /\ fullFlush' = fullFlush
      /\ pendingChangesInCurrentFullFlush' = pendingChangesInCurrentFullFlush
      /\ main' = main /\ commit' = commit /\ frozen' = frozen /\ dwpts' = dwpts
      /\ tickets' = tickets /\ purgeLock' = purgeLock /\ tragedy' = tragedy
      /\ applying' = applying
  BY DEF NextPendingFlush, streamVars, fullFlushVars
<1>1. TypeOK'  BY <1>0 DEF Inv, TypeOK
<1>2. Refs'
  <2>1. \A t \in Threads : applying'[t] <= deleteQueue  BY <1>0 DEF Inv, Refs
  <2> QED  BY <1>0, <2>1, SameRefsKeep
<1>3. /\ LogGrows /\ FlushedStay /\ Places' = Places
      /\ DocsPlaced' /\ DocsCovered' /\ TicketsOwn' /\ StreamOwns' /\ Order'
  BY <1>0, <1>1, SameDataKeeps
<1>4. ThreadsOwn'  BY <1>0, SameThreadsKeep
<1>5. FullFlushOwn' /\ OldQueueFlushed'
  BY <1>0 DEF Inv, FullFlushOwn, OldQueueFlushed, InFullFlush, Swapping, Writers, Phase, Queue,
              deleteQueue
<1>6. QueuesFrozen' /\ Reported' /\ CommitOld' /\ CommitIsPrefix' /\ Flushed'
  BY <1>0, <1>1, <1>3, WriterStepRest
<1> QED  BY <1>1, <1>2, <1>3, <1>4, <1>5, <1>6 DEF Inv

\* ... and takes the DWPT of one, which may be of the new queue.
LEMMA TryCheckoutForFlushStep ==
  ASSUME Inv, NEW t \in Threads, TryCheckoutForFlush(t) PROVE Inv'
<1>1. PICK d : d = state[t]  OBVIOUS
<1>2. /\ log' = log /\ locked' = locked /\ segmentInfos' = segmentInfos
      /\ scanning' = scanning /\ updates' = updates /\ nextGen' = nextGen
      /\ fullFlush' = fullFlush /\ main' = main
      /\ pendingChangesInCurrentFullFlush' = pendingChangesInCurrentFullFlush
      /\ frozen' = frozen /\ applying' = applying /\ tickets' = tickets
      /\ purgeLock' = purgeLock /\ tragedy' = tragedy /\ commit' = commit
      /\ t \in flushPending /\ t \notin locked
      /\ state' = [state EXCEPT ![t] = None] /\ flushPending' = flushPending \ {t}
      /\ dwpts' = [dwpts EXCEPT ![d].phase = "pending"]
      /\ overtaken' = (overtaken \/ (fullFlush /\ Queue(d) = deleteQueue))
  BY <1>1 DEF TryCheckoutForFlush, streamVars, fullFlushVars
<1>3. d # None  BY <1>1, <1>2 DEF Inv, ThreadsOwn
<1>4. /\ d \in Writers /\ d \in Nat /\ Phase(d) = "active" /\ Phase(d) \notin Ticketed
      /\ Queue(d) = deleteQueue \/ (main.pc = "mark" /\ t \notin main.marked)
      /\ Queue(d) = deleteQueue \/ (Swapping /\ Queue(d) = deleteQueue - 1)
  BY <1>1, <1>3, ThreadState
<1>5. /\ dwpts' \in Seq(DwptRec) /\ DOMAIN dwpts' = Writers
      /\ \A e \in Writers : /\ dwpts'[e].queue = dwpts[e].queue
                            /\ dwpts'[e].docs = dwpts[e].docs /\ dwpts'[e].upto = dwpts[e].upto
                            /\ dwpts'[e].phase = IF e = d THEN "pending" ELSE dwpts[e].phase
  <2>1. "pending" \in Phases  BY DEF Phases, Waiting
  <2> QED  BY <1>2, <1>4, <2>1, WriterSeq, PhaseSet DEF Writers
<1>6. state \in [Threads -> Nat] /\ state' \in [Threads -> Nat]
      /\ \A u \in Threads : state'[u] = IF u = t THEN None ELSE state[u]
  BY <1>2 DEF Inv, TypeOK, None
<1>7. TypeOK'
  <2>1. flushPending' \subseteq Threads /\ overtaken' \in BOOLEAN
    BY <1>2 DEF Inv, TypeOK
  <2> QED  BY <1>2, <1>5, <1>6, <2>1 DEF Inv, TypeOK
<1>8. Refs'  BY <1>2, <1>5, <1>6 DEF Inv, Refs, Writers, Queue, deleteQueue
<1>9. WriterStep
  <2>1. \A e \in Writers : e # d => dwpts'[e].phase = Phase(e)  BY <1>5 DEF Phase
  <2>2. dwpts'[d].phase = "pending"  BY <1>4, <1>5
  <2>3. \A e \in Writers : dwpts'[e].phase = "empty" => dwpts[e].docs = {}
    BY <2>1, <2>2 DEF Inv, DocsPlaced
  <2>4. \A e \in Writers :
          /\ Phase(e) \in Ticketed <=> dwpts'[e].phase \in Ticketed
          /\ Phase(e) = "flushed" => dwpts'[e].phase = "flushed"
          /\ Phase(e) = "failed" => dwpts'[e].phase = "failed"
          /\ dwpts'[e].phase = "failed" => Phase(e) = "failed" \/ tragedy'
    BY <1>4, <2>1, <2>2 DEF Ticketed
  <2> QED  BY <1>5, <2>3, <2>4 DEF WriterStep
<1>10. /\ LogGrows /\ FlushedStay /\ Places' = Places
       /\ DocsPlaced' /\ DocsCovered' /\ TicketsOwn' /\ StreamOwns' /\ Order'
  BY <1>2, <1>7, <1>8, <1>9, WriterStepKeeps
<1>11. /\ QueuesFrozen' /\ Reported' /\ CommitOld' /\ CommitIsPrefix' /\ Flushed'
  BY <1>2, <1>7, <1>10, WriterStepRest
<1>12. ThreadsOwn'
  <2>1. \A u \in Threads : state'[u] # None => dwpts'[state'[u]].phase = "active"
    <3> SUFFICES ASSUME NEW u \in Threads, state'[u] # None
                 PROVE  dwpts'[state'[u]].phase = "active"
      OBVIOUS
    <3>1. u # t /\ state'[u] = state[u] /\ state[u] # d
      BY <1>1, <1>3, <1>6 DEF Inv, ThreadsOwn
    <3>2. state[u] \in Writers /\ Phase(state[u]) = "active"
      BY <3>1 DEF Inv, ThreadsOwn, Refs
    <3> QED  BY <1>5, <3>1, <3>2 DEF Phase
  <2>2. \A u, v \in Threads : state'[u] = state'[v] /\ state'[u] # None => u = v
    BY <1>6 DEF Inv, ThreadsOwn
  <2>3. \A e \in Writers : dwpts'[e].phase = "active" => \E u \in Threads : state'[u] = e
    <3> SUFFICES ASSUME NEW e \in Writers, dwpts'[e].phase = "active"
                 PROVE  \E u \in Threads : state'[u] = e
      OBVIOUS
    <3>1. e # d /\ Phase(e) = "active"  BY <1>5 DEF Phase
    <3>2. PICK u \in Threads : state[u] = e  BY <3>1 DEF Inv, ThreadsOwn
    <3> QED  BY <1>1, <1>6, <3>1, <3>2
  <2>4. \A u \in locked' \cup flushPending' : state'[u] # None
    BY <1>2, <1>6 DEF Inv, ThreadsOwn, TypeOK
  <2> QED  BY <1>5, <2>1, <2>2, <2>3, <2>4 DEF ThreadsOwn, Writers, Phase
<1>13. /\ deleteQueue' = deleteQueue /\ InFullFlush' = InFullFlush /\ Swapping' = Swapping
  BY <1>2 DEF deleteQueue, InFullFlush, Swapping
<1>14. deleteQueue \in Nat  BY LogTypes DEF Inv, deleteQueue
<1>15. FullFlushOwn'
  <2>1. ASSUME NEW e \in Writers, InFullFlush, ~overtaken'
        PROVE  /\ dwpts'[e].phase = "pending" => Queue(e) < deleteQueue /\ Swapping
               /\ dwpts'[e].phase \in Ticketed => Queue(e) < deleteQueue
               /\ dwpts'[e].phase = "ticket" => Swapping
    <3>1. ~overtaken /\ Queue(d) # deleteQueue  BY <1>2, <2>1 DEF Inv, FullFlushOwn
    <3>2. CASE e = d
      <4>1. dwpts'[e].phase = "pending"  BY <1>5, <3>2
      <4> QED  BY <1>4, <1>14, <3>1, <3>2, <4>1 DEF Ticketed
    <3>3. CASE e # d
      <4>1. dwpts'[e].phase = Phase(e)  BY <1>5, <3>3 DEF Phase
      <4> QED  BY <2>1, <3>1, <4>1 DEF Inv, FullFlushOwn
    <3> QED  BY <3>2, <3>3
  <2>2. InFullFlush /\ ~overtaken' => frozen[deleteQueue] = 0
    BY <1>2 DEF Inv, FullFlushOwn
  <2>3. /\ fullFlush <=> InFullFlush
        /\ InFullFlush => deleteQueue > 1
        /\ InFullFlush => \A u \in Threads : applying[u] < deleteQueue
    BY DEF Inv, FullFlushOwn
  <2> QED  BY <1>2, <1>5, <1>13, <2>1, <2>2, <2>3 DEF FullFlushOwn, Writers, Phase, Queue
<1>16. OldQueueFlushed'
  <2>1. ASSUME NEW e \in Writers, dwpts'[e].phase \in Waiting
        PROVE  Queue(e) = deleteQueue \/ (Swapping /\ Queue(e) = deleteQueue - 1)
    <3>1. CASE e = d  BY <1>4, <3>1
    <3>2. CASE e # d
      <4>1. Phase(e) \in Waiting  BY <1>5, <2>1, <3>2 DEF Phase
      <4> QED  BY <4>1 DEF Inv, OldQueueFlushed
    <3> QED  BY <3>1, <3>2
  <2>2. ASSUME NEW u \in Threads, state'[u] # None
        PROVE  dwpts'[state'[u]].queue = deleteQueue
               \/ (main.pc = "mark" /\ u \notin main.marked)
    <3>1. state'[u] = state[u] /\ state[u] \in Writers  BY <1>6, <2>2 DEF Inv, Refs
    <3>2. dwpts'[state'[u]].queue = Queue(state[u])  BY <1>5, <3>1 DEF Queue
    <3> QED  BY <2>2, <3>1, <3>2 DEF Inv, OldQueueFlushed
  <2>3. ASSUME NEW e \in Writers, main.pc = "help", dwpts'[e].phase \in Waiting,
               Queue(e) < deleteQueue
        PROVE  dwpts'[e].phase = "pending"
    <3>1. CASE e = d  BY <1>5, <3>1
    <3>2. CASE e # d
      <4>1. dwpts'[e].phase = Phase(e)  BY <1>5, <3>2 DEF Phase
      <4> QED  BY <2>3, <4>1 DEF Inv, OldQueueFlushed
    <3> QED  BY <3>1, <3>2
  <2> QED
    BY <1>2, <1>5, <1>13, <2>1, <2>2, <2>3 DEF OldQueueFlushed, Writers, Phase, Queue
<1> QED  BY <1>7, <1>8, <1>10, <1>11, <1>12, <1>15, <1>16 DEF Inv

\* A thread that has its DWPT already
LEMMA ObtainKeepsStep ==
  ASSUME Inv, NEW t \in Threads, ObtainAndLock(t), state[t] # None, Queue(state[t]) = deleteQueue
  PROVE  Inv'
<1>0. /\ log' = log /\ state' = state /\ dwpts' = dwpts /\ segmentInfos' = segmentInfos
      /\ updates' = updates /\ nextGen' = nextGen /\ fullFlush' = fullFlush
      /\ pendingChangesInCurrentFullFlush' = pendingChangesInCurrentFullFlush
      /\ frozen' = frozen /\ applying' = applying /\ tickets' = tickets /\ main' = main
      /\ purgeLock' = purgeLock /\ tragedy' = tragedy /\ commit' = commit
      /\ locked' = locked \cup {t} /\ flushPending' = flushPending
      /\ scanning' = scanning /\ overtaken' = overtaken
  BY DEF ObtainAndLock, streamVars, fullFlushVars
<1>1. TypeOK'  BY <1>0 DEF Inv, TypeOK
<1>2. Refs'
  <2>1. \A u \in Threads : applying'[u] <= deleteQueue  BY <1>0 DEF Inv, Refs
  <2> QED  BY <1>0, <2>1, SameRefsKeep
<1>3. /\ LogGrows /\ FlushedStay /\ Places' = Places
      /\ DocsPlaced' /\ DocsCovered' /\ TicketsOwn' /\ StreamOwns' /\ Order'
  BY <1>0, <1>1, SameDataKeeps
<1>4. /\ QueuesFrozen' /\ Reported' /\ CommitOld' /\ CommitIsPrefix' /\ Flushed'
  BY <1>0, <1>1, <1>3, WriterStepRest
<1>5. ThreadsOwn'  BY <1>0 DEF Inv, ThreadsOwn, Writers, Phase
<1>6. FullFlushOwn' /\ OldQueueFlushed'
  BY <1>0 DEF Inv, FullFlushOwn, OldQueueFlushed, InFullFlush, Swapping, Writers, Phase, Queue,
              deleteQueue
<1> QED  BY <1>1, <1>2, <1>3, <1>4, <1>5, <1>6 DEF Inv

\* A new DWPT, after the stale one, if there was any, has been left
NewDwpt == [queue |-> deleteQueue, docs |-> {}, phase |-> "active", upto |-> 0]

LEMMA ObtainIs ==
  ASSUME Inv, NEW t \in Threads, ObtainAndLock(t),
         ~(state[t] # None /\ Queue(state[t]) = deleteQueue)
  PROVE  /\ dwpts' \in Seq(DwptRec) /\ DOMAIN dwpts' = Writers \cup {Len(dwpts) + 1}
         /\ Len(dwpts) + 1 \in Nat \ {None} /\ Len(dwpts) + 1 \notin Writers
         /\ dwpts'[Len(dwpts) + 1] = NewDwpt
         /\ \A e \in Writers :
              /\ dwpts'[e].queue = dwpts[e].queue /\ dwpts'[e].docs = dwpts[e].docs
              /\ dwpts'[e].upto = dwpts[e].upto
              /\ dwpts'[e].phase = IF e = state[t] THEN LeftPhase(e) ELSE dwpts[e].phase
         /\ state' \in [Threads -> Nat]
         /\ \A u \in Threads : state'[u] = IF u = t THEN Len(dwpts) + 1 ELSE state[u]
<1>0. Len(dwpts) \in Nat /\ Writers = 1 .. Len(dwpts)  BY WriterTypes DEF Inv
<1>1. NewDwpt \in DwptRec
  <2>1. deleteQueue \in Nat  BY LogTypes DEF Inv, deleteQueue
  <2>2. {} \in SUBSET (Nat \X Nat)  OBVIOUS
  <2> QED  BY <2>1, <2>2 DEF NewDwpt, DwptRec
<1>2. PICK K \in Seq(DwptRec) :
        /\ Len(K) = Len(dwpts) /\ DOMAIN K = Writers
        /\ dwpts' = Append(K, NewDwpt) /\ state' = [state EXCEPT ![t] = Len(dwpts')]
        /\ \A e \in Writers :
             /\ K[e].queue = dwpts[e].queue /\ K[e].docs = dwpts[e].docs
             /\ K[e].upto = dwpts[e].upto
             /\ K[e].phase = IF e = state[t] THEN LeftPhase(e) ELSE dwpts[e].phase
  <2>1. CASE state[t] = None
    <3>1. dwpts' = Append(dwpts, NewDwpt) /\ state' = [state EXCEPT ![t] = Len(dwpts')]
      BY <2>1 DEF ObtainAndLock, NewDwpt
    <3>2. \A e \in Writers : e # state[t]  BY <2>1, NoneIsNoWriter DEF Inv
    <3> QED  BY <3>1, <3>2, WriterSeq DEF Writers
  <2>2. CASE state[t] # None
    <3>1. Queue(state[t]) # deleteQueue  BY <2>2
    <3>2. PICK K : K = [dwpts EXCEPT ![state[t]].phase = LeftPhase(state[t])]  OBVIOUS
    <3>3. dwpts' = Append(K, NewDwpt) /\ state' = [state EXCEPT ![t] = Len(dwpts')]
      BY <2>2, <3>1, <3>2 DEF ObtainAndLock, NewDwpt, LeftPhase
    <3>4. state[t] \in Writers  BY <2>2, ThreadState
    <3>5. LeftPhase(state[t]) \in Phases  BY DEF LeftPhase, Phases, Waiting
    <3>6. /\ K \in Seq(DwptRec) /\ Len(K) = Len(dwpts) /\ DOMAIN K = Writers
          /\ \A e \in Writers : /\ K[e].queue = dwpts[e].queue /\ K[e].docs = dwpts[e].docs
                                /\ K[e].upto = dwpts[e].upto
                                /\ K[e].phase = IF e = state[t] THEN LeftPhase(state[t])
                                                ELSE dwpts[e].phase
      BY <3>2, <3>4, <3>5, WriterSeq, PhaseSet DEF Writers
    <3> QED  BY <3>3, <3>6
  <2> QED  BY <2>1, <2>2
<1>3. /\ dwpts' \in Seq(DwptRec) /\ Len(dwpts') = Len(dwpts) + 1
      /\ DOMAIN dwpts' = 1 .. Len(dwpts) + 1
      /\ dwpts'[Len(dwpts) + 1] = NewDwpt /\ \A e \in Writers : dwpts'[e] = K[e]
  BY <1>0, <1>1, <1>2, AppendIs
<1>4. /\ DOMAIN dwpts' = Writers \cup {Len(dwpts) + 1}
      /\ Len(dwpts) + 1 \in Nat \ {None} /\ Len(dwpts) + 1 \notin Writers
  BY <1>0, <1>3 DEF None
<1>5. /\ state' \in [Threads -> Nat]
      /\ \A u \in Threads : state'[u] = IF u = t THEN Len(dwpts) + 1 ELSE state[u]
  <2>1. state \in [Threads -> Nat]  BY DEF Inv, TypeOK
  <2> QED  BY <1>2, <1>3, <1>4, <2>1
<1> QED  BY <1>2, <1>3, <1>4, <1>5

LEMMA ObtainAndLockStep == ASSUME Inv, NEW t \in Threads, ObtainAndLock(t) PROVE Inv'
<1>1. CASE state[t] # None /\ Queue(state[t]) = deleteQueue  BY <1>1, ObtainKeepsStep
<1>2. CASE ~(state[t] # None /\ Queue(state[t]) = deleteQueue)
  <2>0. /\ log' = log /\ segmentInfos' = segmentInfos
        /\ updates' = updates /\ nextGen' = nextGen /\ fullFlush' = fullFlush
        /\ pendingChangesInCurrentFullFlush' = pendingChangesInCurrentFullFlush
        /\ frozen' = frozen /\ applying' = applying /\ tickets' = tickets /\ main' = main
        /\ purgeLock' = purgeLock /\ tragedy' = tragedy /\ commit' = commit
        /\ locked' = locked \cup {t} /\ deleteQueue' = deleteQueue
        /\ flushPending' = flushPending \ {t} /\ scanning' = scanning /\ overtaken' = overtaken
    BY <1>2 DEF ObtainAndLock, streamVars, fullFlushVars, deleteQueue
  <2>1. PICK new : new = Len(dwpts) + 1  OBVIOUS
  <2>2. /\ dwpts' \in Seq(DwptRec) /\ DOMAIN dwpts' = Writers \cup {new}
        /\ new \in Nat /\ new # None /\ new \notin Writers
        /\ dwpts'[new] = NewDwpt
        /\ \A e \in Writers :
             /\ dwpts'[e].queue = dwpts[e].queue /\ dwpts'[e].docs = dwpts[e].docs
             /\ dwpts'[e].upto = dwpts[e].upto
             /\ dwpts'[e].phase = IF e = state[t] THEN LeftPhase(e) ELSE dwpts[e].phase
        /\ state' \in [Threads -> Nat]
        /\ \A u \in Threads : state'[u] = IF u = t THEN new ELSE state[u]
    BY <1>2, <2>1, ObtainIs
  <2>3. /\ dwpts'[new].queue = deleteQueue /\ dwpts'[new].phase = "active"
        /\ dwpts'[new].docs = {}
    BY <2>2 DEF NewDwpt
  <2>4. deleteQueue \in DOMAIN log /\ deleteQueue \in Nat
    BY LogTypes DEF Inv, deleteQueue
  <2>5. TypeOK'  BY <2>0, <2>2 DEF Inv, TypeOK
  <2>6. Refs'
    <3>1. \A e \in DOMAIN dwpts' : dwpts'[e].queue \in DOMAIN log
      BY <2>2, <2>3, <2>4 DEF Inv, Refs, Queue
    <3>2. \A u \in Threads : state'[u] \in DOMAIN dwpts' \cup {None} /\ applying'[u] <= deleteQueue
      BY <2>0, <2>2 DEF Inv, Refs
    <3>3. Writers \subseteq DOMAIN dwpts'  BY <2>2
    <3> QED  BY <2>0, <3>1, <3>2, <3>3 DEF Inv, Refs, Writers, Queue
  <2>7. \A e \in Writers : e = state[t] =>
          /\ Phase(e) = "active" /\ dwpts'[e].phase \in {"empty", "buffered"}
          /\ dwpts'[e].phase = "empty" => dwpts[e].docs = {}
    BY <2>2, ThreadState, NoneIsNoWriter DEF Inv, LeftPhase
  <2>8. WriterStep
    <3>1. \A e \in Writers :
            /\ Phase(e) \in Ticketed <=> dwpts'[e].phase \in Ticketed
            /\ Phase(e) = "flushed" => dwpts'[e].phase = "flushed"
            /\ Phase(e) = "failed" => dwpts'[e].phase = "failed"
            /\ dwpts'[e].phase = "failed" => Phase(e) = "failed" \/ tragedy'
      BY <2>2, <2>7 DEF Ticketed, Phase
    <3>2. \A e \in Writers : dwpts'[e].phase = "empty" => dwpts[e].docs = {}
      BY <2>2, <2>7 DEF Inv, DocsPlaced, Phase
    <3> QED  BY <2>2, <2>3, <3>1, <3>2 DEF WriterStep
  <2>9. /\ LogGrows /\ FlushedStay /\ Places' = Places
        /\ DocsPlaced' /\ DocsCovered' /\ TicketsOwn' /\ StreamOwns' /\ Order'
    BY <2>0, <2>5, <2>6, <2>8, WriterStepKeeps
  <2>10. /\ QueuesFrozen' /\ Reported' /\ CommitOld' /\ CommitIsPrefix' /\ Flushed'
    BY <2>0, <2>5, <2>9, WriterStepRest
  <2>11. \A u \in Threads : u # t /\ state[u] # None =>
           /\ state[u] # state[t] /\ state[u] \in Writers /\ state[u] # new
           /\ Phase(state[u]) = "active" /\ dwpts'[state[u]].phase = "active"
           /\ dwpts'[state[u]].queue = Queue(state[u])
    <3> SUFFICES ASSUME NEW u \in Threads, u # t, state[u] # None
                 PROVE  /\ state[u] # state[t] /\ state[u] \in Writers /\ state[u] # new
                        /\ Phase(state[u]) = "active" /\ dwpts'[state[u]].phase = "active"
                        /\ dwpts'[state[u]].queue = Queue(state[u])
      OBVIOUS
    <3>1. state[u] \in Writers /\ Phase(state[u]) = "active"  BY ThreadState
    <3>2. state[u] # state[t]  BY DEF Inv, ThreadsOwn
    <3> QED  BY <2>2, <3>1, <3>2 DEF Phase, Queue
  <2>12. ThreadsOwn'
    <3>1. \A u \in Threads : state'[u] # None => dwpts'[state'[u]].phase = "active"
      BY <2>2, <2>3, <2>11
    <3>2. \A u, v \in Threads : state'[u] = state'[v] /\ state'[u] # None => u = v
      BY <2>2, <2>11 DEF Inv, ThreadsOwn
    <3>3. \A e \in DOMAIN dwpts' : dwpts'[e].phase = "active" => \E u \in Threads : state'[u] = e
      <4> SUFFICES ASSUME NEW e \in Writers, dwpts'[e].phase = "active"
                   PROVE  \E u \in Threads : state'[u] = e
        BY <2>2
      <4>1. e # state[t]  BY <2>7
      <4>2. Phase(e) = "active"  BY <2>2, <4>1 DEF Phase
      <4>3. PICK u \in Threads : state[u] = e  BY <4>2 DEF Inv, ThreadsOwn
      <4>4. u # t  BY <4>1, <4>3
      <4> QED  BY <2>2, <4>3, <4>4
    <3>4. \A u \in locked' \cup flushPending' : state'[u] # None
      BY <2>0, <2>2 DEF Inv, ThreadsOwn, TypeOK
    <3> QED  BY <3>1, <3>2, <3>3, <3>4 DEF ThreadsOwn, Writers, Phase
  <2>13. FullFlushOwn' /\ OldQueueFlushed'
    <3>1. \A u \in Threads : state'[u] # None =>
            dwpts'[state'[u]].queue = deleteQueue \/ (main.pc = "mark" /\ u \notin main.marked)
      <4> SUFFICES ASSUME NEW u \in Threads, state'[u] # None
                   PROVE  \/ dwpts'[state'[u]].queue = deleteQueue
                          \/ main.pc = "mark" /\ u \notin main.marked
        OBVIOUS
      <4>1. CASE u = t  BY <2>2, <2>3, <4>1
      <4>2. CASE u # t
        <5>1. state'[u] = state[u] /\ state[u] # None  BY <2>2, <4>2
        <5>2. dwpts'[state[u]].queue = Queue(state[u])  BY <2>11, <4>2, <5>1
        <5> QED  BY <5>1, <5>2 DEF Inv, OldQueueFlushed
      <4> QED  BY <4>1, <4>2
    <3>2. CASE state[t] = None
      <4>1. \A e \in Writers : e # state[t]  BY <3>2, NoneIsNoWriter DEF Inv
      <4>2. \A e \in Writers : dwpts'[e].phase = Phase(e) /\ dwpts'[e].queue = Queue(e)
        BY <2>2, <4>1 DEF Phase, Queue
      <4>3. \A e \in DOMAIN dwpts' : \/ e \in Writers /\ dwpts'[e].phase = Phase(e)
                                        /\ dwpts'[e].queue = Queue(e)
                                     \/ dwpts'[e].queue = deleteQueue /\ dwpts'[e].phase = "active"
        BY <2>2, <2>3, <4>2
      <4>4. FullFlushOwn'
        BY <2>0, <4>3 DEF Inv, FullFlushOwn, InFullFlush, Swapping, Writers, Phase, Queue, Ticketed
      <4>5. OldQueueFlushed'
        <5>1. \A e \in DOMAIN dwpts' : dwpts'[e].phase \in Waiting =>
                \/ dwpts'[e].queue = deleteQueue
                \/ Swapping /\ dwpts'[e].queue = deleteQueue - 1
          BY <4>3 DEF Inv, OldQueueFlushed
        <5>2. \A e \in DOMAIN dwpts' :
                main.pc = "help" /\ dwpts'[e].phase \in Waiting /\ dwpts'[e].queue < deleteQueue
                  => dwpts'[e].phase = "pending"
          BY <2>4, <4>3 DEF Inv, OldQueueFlushed
        <5> QED
          BY <2>0, <3>1, <5>1, <5>2 DEF OldQueueFlushed, Swapping, Writers, Phase, Queue
      <4> QED  BY <4>4, <4>5
    <3>3. CASE state[t] # None
      <4>1. /\ state[t] \in Writers /\ Queue(state[t]) # deleteQueue /\ main.pc = "mark"
        BY <1>2, <3>3, ThreadState
      <4>2. \A e \in Writers :
              /\ e \in DOMAIN dwpts' /\ dwpts'[e].queue = dwpts[e].queue
              /\ dwpts'[e].phase = IF e = state[t] THEN LeftPhase(state[t]) ELSE Phase(e)
        BY <2>2 DEF Phase
      <4>3. \A e \in DOMAIN dwpts' : e \notin Writers =>
              dwpts'[e].queue = deleteQueue /\ dwpts'[e].phase = "active"
        BY <2>2, <2>3
      <4>4. /\ FullFlushOwn'
            /\ \A e \in Writers' : Phase(e)' \in Waiting =>
                 Queue(e)' = deleteQueue' \/ (Swapping' /\ Queue(e)' = deleteQueue' - 1)
        BY <2>0, <2>5, <2>6, <4>1, <4>2, <4>3, MarkedStep
      <4> QED  BY <2>0, <3>1, <4>1, <4>4 DEF OldQueueFlushed, Queue
    <3> QED  BY <3>2, <3>3
  <2> QED  BY <2>5, <2>6, <2>9, <2>10, <2>12, <2>13 DEF Inv
<1> QED  BY <1>1, <1>2

LEMMA QueueMarkedStep == ASSUME Inv, QueueMarked PROVE Inv'
<1>0. /\ log' = log /\ state' = state /\ locked' = locked /\ segmentInfos' = segmentInfos
      /\ markVars' = markVars /\ overtaken' = overtaken
      /\ updates' = updates /\ nextGen' = nextGen /\ fullFlush' = fullFlush
      /\ pendingChangesInCurrentFullFlush' = pendingChangesInCurrentFullFlush
      /\ frozen' = frozen /\ applying' = applying /\ tickets' = tickets
      /\ purgeLock' = purgeLock /\ tragedy' = tragedy /\ commit' = commit
      /\ main.pc = "mark" /\ main.marked = Threads /\ main' = [main EXCEPT !.pc = "help"]
      /\ deleteQueue' = deleteQueue
  BY DEF QueueMarked, At, opVars, markVars, streamVars, deleteQueue
<1>1. /\ main' \in MainType /\ main'.pc = "help"
      /\ main'.anythingFlushed = main.anythingFlushed
  BY <1>0, MainTypes DEF MainType
<1>2. /\ dwpts' \in Seq(DwptRec) /\ DOMAIN dwpts' = Writers
      /\ \A e \in Writers :
           /\ dwpts'[e].queue = dwpts[e].queue /\ dwpts'[e].docs = dwpts[e].docs
           /\ dwpts'[e].upto = dwpts[e].upto
           /\ dwpts'[e].phase = IF Phase(e) \in {"buffered", "blocked"} /\ Queue(e) # deleteQueue
                                  THEN "pending" ELSE Phase(e)
  <2>1. dwpts' = [e \in Writers |->
          IF Phase(e) \in {"buffered", "blocked"} /\ Queue(e) # deleteQueue
            THEN [dwpts[e] EXCEPT !.phase = "pending"] ELSE dwpts[e]]
    BY DEF QueueMarked, Writers, Phase
  <2>2. \A e \in Writers : dwpts[e] \in DwptRec  BY WriterTypes DEF Inv
  <2>3. \A e \in Writers :
           /\ dwpts'[e] \in DwptRec
           /\ dwpts'[e].queue = dwpts[e].queue /\ dwpts'[e].docs = dwpts[e].docs
           /\ dwpts'[e].upto = dwpts[e].upto
           /\ dwpts'[e].phase = IF Phase(e) \in {"buffered", "blocked"} /\ Queue(e) # deleteQueue
                                  THEN "pending" ELSE Phase(e)
    BY <2>1, <2>2 DEF DwptRec, Phase
  <2>4. dwpts' \in Seq(DwptRec)
    <3>1. Writers = 1 .. Len(dwpts) /\ Len(dwpts) \in Nat  BY WriterTypes DEF Inv
    <3>2. dwpts' \in [1 .. Len(dwpts) -> DwptRec]  BY <2>1, <2>3, <3>1
    <3> QED  BY <3>1, <3>2, SeqDef
  <2> QED  BY <2>1, <2>3, <2>4
<1>3. TypeOK'  BY <1>0, <1>1, <1>2 DEF Inv, TypeOK, markVars, MainType
<1>4. Refs'  BY <1>0, <1>2 DEF Inv, Refs, Writers, Queue
<1>5. WriterStep
  <2>1. \A e \in Writers :
            /\ Phase(e) \in Ticketed <=> dwpts'[e].phase \in Ticketed
            /\ Phase(e) = "flushed" => dwpts'[e].phase = "flushed"
            /\ Phase(e) = "failed" => dwpts'[e].phase = "failed"
            /\ dwpts'[e].phase = "failed" => Phase(e) = "failed" \/ tragedy'
            /\ dwpts'[e].phase = "empty" => Phase(e) = "empty"
    BY <1>2 DEF Ticketed
  <2> QED  BY <1>2, <2>1 DEF WriterStep, Inv, DocsPlaced
<1>6. /\ LogGrows /\ FlushedStay /\ Places' = Places
      /\ DocsPlaced' /\ DocsCovered' /\ TicketsOwn' /\ StreamOwns' /\ Order'
  BY <1>0, <1>3, <1>4, <1>5, WriterStepKeeps
<1>7. QueuesFrozen' /\ Reported'
  <2>1. \A q : AllFrozen(q)' <=> AllFrozen(q)  BY <1>0 DEF AllFrozen, Deletes, Op
  <2>2. ~main.anythingFlushed /\ Swapping /\ Swapping'
    BY <1>0, <1>1 DEF Inv, QueuesFrozen, Swapping
  <2>3. QueuesFrozen'
    BY <1>0, <1>1, <2>1, <2>2 DEF Inv, QueuesFrozen
  <2>4. Reported'
    BY <1>0, <2>2 DEF Inv, Reported, HasDocument, Op
  <2> QED  BY <2>3, <2>4
<1>8. CommitOld'  BY <1>0, <1>1 DEF Inv, CommitOld
<1>9. CommitIsPrefix'  BY <1>0, <1>3, <1>6, CommitStays
<1>10. Flushed'  BY <1>1 DEF Flushed
<1>11. ThreadsOwn'
  <2>1. \A e \in Writers : dwpts'[e].phase = "active" <=> Phase(e) = "active"
    BY <1>2
  <2> QED  BY <1>0, <1>2, <2>1 DEF Inv, ThreadsOwn, Writers, Refs, Phase, markVars
<1>12. \A u \in Threads : state[u] # None => Queue(state[u]) = deleteQueue
  BY <1>0 DEF Inv, OldQueueFlushed
<1>13. Swapping /\ Swapping' /\ InFullFlush /\ InFullFlush'
  BY <1>0, <1>1 DEF Swapping, InFullFlush
<1>14. FullFlushOwn'
  <2>1. \A e \in Writers : dwpts'[e].phase \in Ticketed => Phase(e) \in Ticketed
    BY <1>2 DEF Ticketed
  <2>2. ASSUME NEW e \in Writers, dwpts'[e].phase = "pending", ~overtaken
        PROVE  Queue(e) < deleteQueue
    <3>1. CASE Phase(e) = "pending"  BY <1>13, <2>2, <3>1 DEF Inv, FullFlushOwn
    <3>2. CASE Phase(e) # "pending"
      <4>1. Queue(e) # deleteQueue  BY <1>2, <2>2, <3>2
      <4>2. Queue(e) \in 1 .. Len(log) /\ Len(log) \in Nat  BY LogTypes DEF Inv, Refs
      <4> QED  BY <4>1, <4>2 DEF deleteQueue
    <3> QED  BY <3>1, <3>2
  <2> QED
    BY <1>0, <1>2, <1>13, <2>1, <2>2 DEF Inv, FullFlushOwn, Writers, Phase, Queue
<1>15. OldQueueFlushed'
  <2>1. \A e \in Writers : dwpts'[e].phase \in Waiting => Phase(e) \in Waiting
    BY <1>2 DEF Waiting
  <2>2. ASSUME NEW e \in Writers, dwpts'[e].phase \in Waiting, Queue(e) < deleteQueue
        PROVE  dwpts'[e].phase = "pending"
    <3>1. Queue(e) # deleteQueue
      <4>1. deleteQueue \in Nat  BY LogTypes DEF Inv, deleteQueue
      <4> QED  BY <2>2, <4>1
    <3>2. Phase(e) # "active"
      <4> SUFFICES ASSUME Phase(e) = "active" PROVE FALSE
        OBVIOUS
      <4>1. PICK u \in Threads : state[u] = e  BY DEF Inv, ThreadsOwn
      <4>2. e # None  BY NoneIsNoWriter DEF Inv
      <4> QED  BY <1>12, <3>1, <4>1, <4>2
    <3> QED  BY <1>2, <2>1, <2>2, <3>1, <3>2 DEF Waiting
  <2>3. \A u \in Threads : state[u] # None => dwpts'[state[u]].queue = deleteQueue
    BY <1>2, <1>12 DEF Inv, Refs, Queue
  <2> QED
    BY <1>0, <1>2, <1>13, <2>1, <2>2, <2>3 DEF Inv, OldQueueFlushed, Writers, Phase, Queue
<1> QED  BY <1>3, <1>4, <1>6, <1>7, <1>8, <1>9, <1>10, <1>11, <1>14, <1>15 DEF Inv
------------------------------------------------------------------------------
(* Steps that freeze.                                                      *)

LEMMA FreezeTicketsOwn ==
  ASSUME Inv, FlushedStay, NEW q, NEW d \in Nat, NEW K \in SUBSET Keys, Freezes(q, d, K),
         d # None => dwpts'[d].phase = "ticket", tragedy' = tragedy,
         \A e \in DOMAIN dwpts' :
           /\ dwpts'[e].phase = "ticket" => e \in Writers /\ (e = d \/ Phase(e) = "ticket")
           /\ dwpts'[e].phase = "failed" => e \in Writers /\ Phase(e) = "failed"
  PROVE  TicketsOwn'
<1>1. /\ Len(tickets) \in Nat /\ DOMAIN tickets = 1 .. Len(tickets)
      /\ DOMAIN tickets' = 1 .. Len(tickets) + 1
      /\ \A i \in DOMAIN tickets : tickets'[i] = tickets[i]
      /\ tickets'[Len(tickets) + 1].dwpt = d
  BY FreezeTickets DEF Freezes
<1>2. \A i \in DOMAIN tickets' : i \in DOMAIN tickets \/ i = Len(tickets) + 1  BY <1>1
<1>3. \A i \in DOMAIN tickets : tickets[i].dwpt # None => tickets[i].dwpt # d
  BY DEF Freezes, Inv, TicketsOwn, Ticketed, Waiting
<1>4. \A i \in DOMAIN tickets' :
        tickets'[i].dwpt # None => dwpts'[tickets'[i].dwpt].phase \in Ticketed
  <2> SUFFICES ASSUME NEW i \in DOMAIN tickets', tickets'[i].dwpt # None
               PROVE  dwpts'[tickets'[i].dwpt].phase \in Ticketed
    OBVIOUS
  <2>1. CASE i \in DOMAIN tickets
    BY <1>1, <2>1 DEF Inv, TicketsOwn, Refs, FlushedStay, Phase
  <2>2. CASE i = Len(tickets) + 1
    BY <1>1, <2>2 DEF Ticketed
  <2> QED  BY <1>2, <2>1, <2>2
<1>5. \A i, j \in DOMAIN tickets' :
        tickets'[i].dwpt = tickets'[j].dwpt /\ tickets'[i].dwpt # None => i = j
  BY <1>1, <1>2, <1>3 DEF Inv, TicketsOwn
<1>6. \A e \in DOMAIN dwpts' : dwpts'[e].phase = "ticket" =>
        \E i \in DOMAIN tickets' : tickets'[i].dwpt = e
  <2> SUFFICES ASSUME NEW e \in DOMAIN dwpts', dwpts'[e].phase = "ticket"
               PROVE  \E i \in DOMAIN tickets' : tickets'[i].dwpt = e
    OBVIOUS
  <2>1. CASE e = d
    <3>1. Len(tickets) + 1 \in DOMAIN tickets'  BY <1>1
    <3> QED  BY <1>1, <2>1, <3>1
  <2>2. CASE e # d
    <3>1. PICK i \in DOMAIN tickets : tickets[i].dwpt = e
      BY <2>2 DEF Inv, TicketsOwn, HasTicket
    <3>2. i \in DOMAIN tickets'  BY <1>1
    <3> QED  BY <1>1, <3>1, <3>2
  <2> QED  BY <2>1, <2>2
<1>7. \A e \in DOMAIN dwpts' : dwpts'[e].phase = "failed" => tragedy'
  BY DEF Inv, TicketsOwn
<1> QED  BY <1>4, <1>5, <1>6, <1>7 DEF TicketsOwn, Writers, Phase, HasTicket

LEMMA FreezeStreamOwns ==
  ASSUME Inv, FlushedStay, NEW q, NEW d \in Nat, NEW K \in SUBSET Keys, Freezes(q, d, K)
  PROVE  StreamOwns'
<1>1. /\ DOMAIN tickets = 1 .. Len(tickets) /\ Len(tickets) \in Nat
      /\ DOMAIN tickets' = 1 .. Len(tickets) + 1
      /\ \A i \in DOMAIN tickets : tickets'[i] = tickets[i]
      /\ tickets'[Len(tickets) + 1].dwpt = d
  BY FreezeTickets DEF Freezes
<1>2. ASSUME NEW e \in Writers, Published(e)
      PROVE  Published(e)' /\ dwpts'[e].docs = dwpts[e].docs
  <2>1. Phase(e) = "flushed" /\ \A i \in DOMAIN tickets : tickets[i].dwpt # e
    BY <1>2 DEF Published, Phase
  <2>2. e # d
    <3>1. e # None  BY NoneIsNoWriter DEF Inv
    <3> QED  BY <2>1, <3>1 DEF Freezes, Waiting
  <2>3. \A i \in DOMAIN tickets' : tickets'[i].dwpt # e
    <3>1. \A i \in DOMAIN tickets' : i \in DOMAIN tickets \/ i = Len(tickets) + 1  BY <1>1
    <3> QED  BY <1>1, <2>1, <2>2, <3>1
  <2>4. dwpts'[e].phase = "flushed" /\ dwpts'[e].docs = dwpts[e].docs
    BY <2>1 DEF FlushedStay, Ticketed
  <2> QED  BY <2>3, <2>4 DEF Published
<1>3. \A s \in segmentInfos : Published(s.dwpt)' /\ s.live \subseteq dwpts'[s.dwpt].docs
  BY <1>2 DEF Inv, StreamOwns, Refs
<1>4. \A p \in updates : p.dwpt # None => Published(p.dwpt)'
  BY <1>2 DEF Inv, StreamOwns, Refs
<1> QED  BY <1>3, <1>4 DEF StreamOwns, Freezes

\* The global deletes of a queue are those that are not frozen.
LEMMA GlobalDeletesAre ==
  ASSUME Inv, NEW q \in DOMAIN log
  PROVE  /\ GlobalDeletes(q) \in SUBSET Keys
         /\ \A n \in DOMAIN log[q] :
              n > frozen[q] /\ log[q][n].kind # "add" => log[q][n].key \in GlobalDeletes(q)
         /\ \A k \in GlobalDeletes(q) : \E n \in DOMAIN log[q] :
              n > frozen[q] /\ log[q][n].kind # "add" /\ log[q][n].key = k
         /\ AllFrozen(q) <=> GlobalDeletes(q) = {}
<1>0. /\ DOMAIN log[q] = 1 .. Len(log[q]) /\ Len(log[q]) \in Nat /\ frozen[q] \in Nat
      /\ \A n \in DOMAIN log[q] : log[q][n] \in OpRec /\ n \in Nat
  BY LogTypes DEF Inv
<1>1. \A n \in Nat : Deletes(<<q, n>>) <=> log[q][n].kind # "add"  BY DEF Deletes, Op
<1>2. PICK N : N = {i \in (frozen[q] + 1) .. Len(log[q]) : Deletes(<<q, i>>)}  OBVIOUS
<1>3. \A n : n \in N <=> n \in DOMAIN log[q] /\ n > frozen[q] /\ log[q][n].kind # "add"
  BY <1>0, <1>1, <1>2
<1>4. GlobalDeletes(q) = {log[q][n].key : n \in N}  BY <1>2 DEF GlobalDeletes
<1>5. \A n \in DOMAIN log[q] :
        n > frozen[q] /\ log[q][n].kind # "add" => log[q][n].key \in GlobalDeletes(q)
  BY <1>3, <1>4
<1>6. \A k \in GlobalDeletes(q) : \E n \in DOMAIN log[q] :
        n > frozen[q] /\ log[q][n].kind # "add" /\ log[q][n].key = k
  BY <1>3, <1>4
<1>7. GlobalDeletes(q) \in SUBSET Keys  BY <1>0, <1>6 DEF OpRec
<1>8. AllFrozen(q) <=> \A n \in DOMAIN log[q] : ~(n > frozen[q] /\ log[q][n].kind # "add")
  <2>1. \A n \in DOMAIN log[q] : Deletes(<<q, n>>) <=> log[q][n].kind # "add"  BY <1>0, <1>1
  <2>2. \A n \in DOMAIN log[q] : n <= frozen[q] <=> ~(n > frozen[q])  BY <1>0
  <2> QED  BY <2>1, <2>2, Zenon DEF AllFrozen
<1>9. (\A k : k \notin GlobalDeletes(q)) <=> AllFrozen(q)  BY <1>5, <1>6, <1>8
<1> QED  BY <1>5, <1>6, <1>7, <1>9

\* A step that freezes queue q into a ticket without a DWPT, and no DWPT gets a ticket
LEMMA AddDeletesFreezes ==
  ASSUME Inv, NEW q \in DOMAIN log, AddDeletes(q), log' = log, overtaken' = overtaken,
         segmentInfos' = segmentInfos, updates' = updates, Writers \subseteq DOMAIN dwpts',
         \A e \in DOMAIN dwpts' : dwpts'[e].phase \in Ticketed =>
           e \in Writers /\ dwpts'[e].phase = Phase(e)
  PROVE  /\ Freezes(q, None, GlobalDeletes(q)) /\ LogGrows
         /\ GlobalDeletes(q) \in SUBSET Keys /\ None \in Nat
         /\ frozen' \in [DOMAIN log -> Nat] /\ tickets' \in Seq(TicketType)
         /\ frozen'[q] = Len(log[q]) /\ \A r \in DOMAIN log : r # q => frozen'[r] = frozen[r]
         /\ \A i \in DOMAIN tickets' :
              \/ i \in DOMAIN tickets /\ tickets'[i] = tickets[i]
              \/ tickets'[i].keys = GlobalDeletes(q) /\ tickets'[i].dwpt = None
<1>1. /\ tickets' = Append(tickets, [keys |-> GlobalDeletes(q), dwpt |-> None])
      /\ frozen' = [frozen EXCEPT ![q] = Len(log[q])]
  BY DEF AddDeletes, Frozen
<1>2. frozen \in [DOMAIN log -> Nat] /\ Len(log[q]) \in Nat /\ frozen[q] <= Len(log[q])
  BY LogTypes DEF Inv, TypeOK, Refs
<1>3. /\ frozen' \in [DOMAIN log -> Nat]
      /\ \A r \in DOMAIN log : frozen'[r] = IF r = q THEN Len(log[q]) ELSE frozen[r]
  BY <1>1, <1>2
<1>4. /\ GlobalDeletes(q) \in SUBSET Keys
      /\ \A n \in DOMAIN log[q] :
           n > frozen[q] /\ log[q][n].kind # "add" => log[q][n].key \in GlobalDeletes(q)
      /\ \A k \in GlobalDeletes(q) : \E n \in DOMAIN log[q] :
           n > frozen[q] /\ log[q][n].kind # "add" /\ log[q][n].key = k
  BY GlobalDeletesAre
<1>5. Places' = Places  BY DEF Places
<1>6. \A e \in Writers : dwpts'[e].phase = "flushed" => Phase(e) = "flushed"
  BY DEF Ticketed
<1>7. Freezes(q, None, GlobalDeletes(q))
  BY <1>1, <1>3, <1>4, <1>5, <1>6 DEF Freezes
<1>8. LogGrows
  <2>1. \A r \in DOMAIN log : frozen[r] <= frozen'[r]  BY <1>2, <1>3
  <2> QED  BY <2>1 DEF LogGrows
<1>9. None \in Nat  BY DEF None
<1>10. tickets' \in Seq(TicketType)  BY <1>1, <1>4, <1>9, FreezeTickets
<1>11. \A i \in DOMAIN tickets' : \/ i \in DOMAIN tickets /\ tickets'[i] = tickets[i]
                                  \/ tickets'[i].keys = GlobalDeletes(q) /\ tickets'[i].dwpt = None
  <2>1. PICK K : K = GlobalDeletes(q)  OBVIOUS
  <2>2. /\ DOMAIN tickets = 1 .. Len(tickets) /\ Len(tickets) \in Nat
        /\ DOMAIN tickets' = 1 .. Len(tickets) + 1
        /\ \A i \in DOMAIN tickets : tickets'[i] = tickets[i]
        /\ tickets'[Len(tickets) + 1].keys = K /\ tickets'[Len(tickets) + 1].dwpt = None
    BY <1>1, <1>4, <1>9, <2>1, FreezeTickets
  <2>3. \A i \in DOMAIN tickets' : i \in DOMAIN tickets \/ i = Len(tickets) + 1  BY <2>2
  <2> QED  BY <2>1, <2>2, <2>3
<1> QED  BY <1>3, <1>4, <1>7, <1>8, <1>9, <1>10, <1>11

LEMMA FreezeKeeps ==
  ASSUME Inv, TypeOK', Refs', LogGrows, FlushedStay, DocsStay, tragedy' = tragedy,
         NEW q, NEW K \in SUBSET Keys, Freezes(q, None, K),
         \A x \in Places' : x \notin Places => ~HasDocument(x)',
         \A e \in DOMAIN dwpts' :
           /\ dwpts'[e].phase \in Ticketed => e \in Writers /\ dwpts'[e].phase = Phase(e)
           /\ dwpts'[e].phase = "empty" => dwpts'[e].docs = {}
  PROVE  DocsPlaced' /\ DocsCovered' /\ TicketsOwn' /\ StreamOwns' /\ Order'
<1>1. None \in Nat  BY DEF None
<1>2. DocsPlaced'  BY DocsPlacedStays
<1>3. DocsCovered'
  <2>1. \A e \in DOMAIN dwpts' : dwpts'[e].phase \in Ticketed
                                   => e \in Writers /\ Phase(e) \in Ticketed
    OBVIOUS
  <2> QED  BY <2>1, DocsCoveredStays
<1>4. TicketsOwn'
  <2>1. \A e \in DOMAIN dwpts' :
          /\ dwpts'[e].phase = "ticket" => e \in Writers /\ (e = None \/ Phase(e) = "ticket")
          /\ dwpts'[e].phase = "failed" => e \in Writers /\ Phase(e) = "failed"
    BY DEF Ticketed
  <2> QED  BY <1>1, <2>1, FreezeTicketsOwn
<1>5. StreamOwns'  BY <1>1, FreezeStreamOwns
<1>6. Order'  BY <1>1, FreezeOrder
<1> QED  BY <1>2, <1>3, <1>4, <1>5, <1>6

LEMMA FreezeRefs ==
  ASSUME Inv, NEW q \in DOMAIN log, NEW K, log' = log, state' = state, segmentInfos' = segmentInfos,
         updates' = updates, nextGen' = nextGen, DOMAIN dwpts' = Writers,
         \A e \in Writers : dwpts'[e].queue = dwpts[e].queue,
         \A t \in Threads : applying'[t] <= deleteQueue,
         frozen'[q] = Len(log[q]), \A r \in DOMAIN log : r # q => frozen'[r] = frozen[r],
         \A i \in DOMAIN tickets' : \/ i \in DOMAIN tickets /\ tickets'[i] = tickets[i]
                                    \/ tickets'[i].keys = K /\ tickets'[i].dwpt = None
  PROVE  Refs'
<1>1. \A r \in DOMAIN log : frozen'[r] <= Len(log[r])
  <2>1. Len(log[q]) \in Nat  BY LogTypes DEF Inv
  <2> QED  BY <2>1 DEF Inv, Refs
<1>2. \A i \in DOMAIN tickets' : tickets'[i].dwpt \in Writers \cup {None}
  BY DEF Inv, Refs
<1>3. \A e \in Writers : dwpts'[e].queue \in DOMAIN log  BY DEF Inv, Refs, Queue
<1> QED  BY <1>1, <1>2, <1>3 DEF Inv, Refs, Writers, Queue, deleteQueue

LEMMA ApplyAllDeletesStep == ASSUME Inv, NEW t \in Threads, ApplyAllDeletes(t) PROVE Inv'
<1>0. /\ log' = log /\ state' = state /\ locked' = locked /\ segmentInfos' = segmentInfos
      /\ markVars' = markVars /\ overtaken' = overtaken
      /\ updates' = updates /\ nextGen' = nextGen /\ fullFlush' = fullFlush
      /\ pendingChangesInCurrentFullFlush' = pendingChangesInCurrentFullFlush
      /\ main' = main /\ commit' = commit /\ dwpts' = dwpts
      /\ purgeLock' = purgeLock /\ tragedy' = tragedy /\ deleteQueue' = deleteQueue
      /\ applying[t] # None /\ AddDeletes(applying[t])
      /\ applying' = [applying EXCEPT ![t] = None]
  BY DEF ApplyAllDeletes, opVars, markVars, streamVars, fullFlushVars, deleteQueue
<1>1. PICK q : q = applying[t]  OBVIOUS
<1>2. q \in DOMAIN log /\ deleteQueue \in Nat /\ deleteQueue > 0
  <2>1. applying[t] \in Nat /\ applying[t] <= deleteQueue  BY DEF Inv, TypeOK, Refs
  <2> QED  BY <1>0, <1>1, <2>1, LogTypes DEF Inv, deleteQueue, None
<1>3. PICK K : K = GlobalDeletes(q)  OBVIOUS
<1>4. /\ Freezes(q, None, K) /\ LogGrows /\ K \in SUBSET Keys
      /\ frozen' \in [DOMAIN log -> Nat] /\ tickets' \in Seq(TicketType)
      /\ frozen'[q] = Len(log[q]) /\ \A r \in DOMAIN log : r # q => frozen'[r] = frozen[r]
      /\ \A i \in DOMAIN tickets' : \/ i \in DOMAIN tickets /\ tickets'[i] = tickets[i]
                                    \/ tickets'[i].keys = K /\ tickets'[i].dwpt = None
  <2>1. AddDeletes(q)  BY <1>0, <1>1
  <2>2. Writers \subseteq DOMAIN dwpts'
        /\ \A e \in DOMAIN dwpts' : e \in Writers /\ dwpts'[e].phase = Phase(e)
    BY <1>0 DEF Writers, Phase
  <2> QED  BY <1>0, <1>2, <1>3, <2>1, <2>2, AddDeletesFreezes
<1>5. /\ applying' \in [Threads -> Nat]
      /\ \A u \in Threads : applying'[u] = IF u = t THEN 0 ELSE applying[u]
  <2>1. applying \in [Threads -> Nat]  BY DEF Inv, TypeOK
  <2> QED  BY <1>0, <2>1 DEF None
<1>6. TypeOK'  BY <1>0, <1>4, <1>5 DEF Inv, TypeOK, markVars, TicketType
<1>7. Refs'
  <2>1. \A u \in Threads : applying'[u] <= deleteQueue  BY <1>2, <1>5 DEF Inv, Refs
  <2>2. DOMAIN dwpts' = Writers /\ \A e \in Writers : dwpts'[e].queue = dwpts[e].queue
    BY <1>0 DEF Writers
  <2> QED  BY <1>0, <1>2, <1>4, <2>1, <2>2, FreezeRefs
<1>8. FlushedStay /\ DocsStay /\ Places' = Places
      /\ \A e \in DOMAIN dwpts' :
           /\ e \in Writers /\ dwpts'[e].phase = Phase(e)
           /\ dwpts'[e].phase = "empty" => dwpts'[e].docs = {}
  BY <1>0 DEF FlushedStay, DocsStay, Places, Writers, Phase, Inv, DocsPlaced
<1>9. DocsPlaced' /\ DocsCovered' /\ TicketsOwn' /\ StreamOwns' /\ Order'
  BY <1>0, <1>4, <1>6, <1>7, <1>8, FreezeKeeps
<1>10. ThreadsOwn'  BY <1>0, SameThreadsKeep DEF markVars
<1>11. InFullFlush => q < deleteQueue /\ deleteQueue > 1
  BY <1>1 DEF Inv, FullFlushOwn
<1>12. FullFlushOwn'
  <2>1. InFullFlush /\ ~overtaken => frozen'[deleteQueue] = 0
    BY <1>2, <1>4, <1>11, LogTypes DEF Inv, FullFlushOwn
  <2>2. InFullFlush => \A u \in Threads : applying'[u] < deleteQueue
    BY <1>2, <1>5 DEF Inv, FullFlushOwn
  <2> QED
    BY <1>0, <2>1, <2>2 DEF Inv, FullFlushOwn, InFullFlush, Swapping, Writers, Phase, Queue
<1>13. OldQueueFlushed'
  BY <1>0 DEF Inv, OldQueueFlushed, Swapping, Writers, Phase, Queue
<1>14. QueuesFrozen' /\ Reported'  BY <1>0, <1>4, <1>6, QueuesStay
<1>15. CommitOld'  BY <1>0 DEF Inv, CommitOld
<1>16. CommitIsPrefix'  BY <1>0, <1>4, <1>6, <1>8, CommitStays
<1>17. Flushed'
  <2>1. ASSUME main.pc = "waitApply" PROVE \A k : k \notin K
    <3>1. q < deleteQueue /\ deleteQueue > 1 /\ ~Swapping  BY <1>11, <2>1 DEF InFullFlush, Swapping
    <3>2. AllFrozen(q)
      <4>1. q \in Nat  BY <1>2, LogTypes DEF Inv
      <4>2. q < deleteQueue - 1 \/ q = deleteQueue - 1  BY <1>2, <3>1, <4>1
      <4> QED  BY <1>2, <3>1, <4>2 DEF Inv, QueuesFrozen
    <3> QED  BY <1>2, <1>3, <3>2, GlobalDeletesAre
  <2>2. main.pc = "waitApply" /\ ~overtaken =>
          \A i \in DOMAIN tickets' : tickets'[i].dwpt = None /\ tickets'[i].keys = {}
    BY <1>4, <2>1 DEF Inv, Flushed
  <2> QED  BY <1>0, <1>4, <1>6, <1>8, <2>2, NothingLeft
<1> QED  BY <1>6, <1>7, <1>9, <1>10, <1>12, <1>13, <1>14, <1>15, <1>16, <1>17 DEF Inv

LEMMA WaitForFlushStep == ASSUME Inv, WaitForFlush PROVE Inv'
<1>0. /\ log' = log /\ state' = state /\ locked' = locked /\ segmentInfos' = segmentInfos
      /\ markVars' = markVars /\ overtaken' = overtaken
      /\ updates' = updates /\ nextGen' = nextGen /\ fullFlush' = fullFlush
      /\ pendingChangesInCurrentFullFlush' = pendingChangesInCurrentFullFlush
      /\ commit' = commit /\ dwpts' = dwpts /\ applying' = applying
      /\ purgeLock' = purgeLock /\ tragedy' = tragedy /\ deleteQueue' = deleteQueue
      /\ main.pc = "help" /\ main' = [main EXCEPT !.pc = "forcePurge"]
      /\ \A d \in Writers : Phase(d) \notin {"pending", "ticket"}
  BY DEF WaitForFlush, At, opVars, markVars, streamVars, deleteQueue, Writers, Phase
<1>1. PICK q : q = deleteQueue - 1  OBVIOUS
<1>2. /\ InFullFlush /\ Swapping /\ deleteQueue \in Nat /\ deleteQueue > 1 /\ q \in DOMAIN log
      /\ q < deleteQueue /\ deleteQueue \in DOMAIN log
  <2>1. InFullFlush /\ Swapping  BY <1>0 DEF InFullFlush, Swapping
  <2> QED  BY <1>1, <2>1, LogTypes DEF Inv, FullFlushOwn, deleteQueue
<1>3. main' \in MainType /\ main'.pc = "forcePurge"  BY <1>0, MainTypes DEF MainType
<1>4. /\ DOMAIN dwpts' = Writers /\ Places' = Places /\ FlushedStay /\ DocsStay
      /\ \A e \in Writers : dwpts'[e] = dwpts[e]
      /\ \A e \in DOMAIN dwpts' :
           /\ e \in Writers /\ dwpts'[e].phase = Phase(e)
           /\ dwpts'[e].phase = "empty" => dwpts'[e].docs = {}
  BY <1>0 DEF FlushedStay, DocsStay, Places, Writers, Phase, Inv, DocsPlaced
<1>5. /\ TypeOK' /\ Refs' /\ LogGrows
      /\ DocsPlaced' /\ DocsCovered' /\ TicketsOwn' /\ StreamOwns' /\ Order'
      /\ frozen'[deleteQueue] = frozen[deleteQueue]
      /\ AllFrozen(q)'
  <2>1. CASE NeedsTicket(q)
    <3>1. PICK K : K = GlobalDeletes(q)  OBVIOUS
    <3>2. AddDeletes(q)  BY <1>1, <2>1 DEF WaitForFlush
    <3>3. /\ Freezes(q, None, K) /\ LogGrows /\ K \in SUBSET Keys
          /\ frozen' \in [DOMAIN log -> Nat] /\ tickets' \in Seq(TicketType)
          /\ frozen'[q] = Len(log[q]) /\ \A r \in DOMAIN log : r # q => frozen'[r] = frozen[r]
          /\ \A i \in DOMAIN tickets' : \/ i \in DOMAIN tickets /\ tickets'[i] = tickets[i]
                                        \/ tickets'[i].keys = K /\ tickets'[i].dwpt = None
      BY <1>0, <1>2, <1>4, <3>1, <3>2, AddDeletesFreezes
    <3>4. TypeOK'  BY <1>0, <1>3, <3>3 DEF Inv, TypeOK, markVars, TicketType, MainType
    <3>5. Refs'
      <4>1. \A t \in Threads : applying'[t] <= deleteQueue  BY <1>0 DEF Inv, Refs
      <4> QED  BY <1>0, <1>2, <1>4, <3>3, <4>1, FreezeRefs
    <3>6. DocsPlaced' /\ DocsCovered' /\ TicketsOwn' /\ StreamOwns' /\ Order'
      BY <1>0, <1>4, <3>3, <3>4, <3>5, FreezeKeeps
    <3>7. AllFrozen(q)'
      <4>1. DOMAIN log'[q] = 1 .. Len(log[q]) /\ Len(log[q]) \in Nat
        BY <1>0, <1>2, LogTypes DEF Inv
      <4> QED  BY <1>0, <3>3, <4>1 DEF AllFrozen
    <3>8. frozen'[deleteQueue] = frozen[deleteQueue]  BY <1>2, <3>3
    <3> QED  BY <3>3, <3>4, <3>5, <3>6, <3>7, <3>8
  <2>2. CASE ~NeedsTicket(q)
    <3>1. tickets' = tickets /\ frozen' = frozen  BY <1>1, <2>2 DEF WaitForFlush
    <3>2. TypeOK'  BY <1>0, <1>3, <3>1 DEF Inv, TypeOK, markVars, MainType
    <3>3. Refs'
      <4>1. \A t \in Threads : applying'[t] <= deleteQueue  BY <1>0 DEF Inv, Refs
      <4> QED  BY <1>0, <3>1, <4>1, SameRefsKeep
    <3>4. /\ LogGrows
          /\ DocsPlaced' /\ DocsCovered' /\ TicketsOwn' /\ StreamOwns' /\ Order'
      BY <1>0, <3>1, <3>2, SameDataKeeps
    <3>5. AllFrozen(q)
      <4>1. CASE main.anythingFlushed  BY <1>0, <1>1, <4>1 DEF Inv, QueuesFrozen
      <4>2. CASE ~main.anythingFlushed
        <5>1. GlobalDeletes(q) = {}  BY <2>2, <4>2 DEF NeedsTicket, anyChangesIn
        <5> QED  BY <1>2, <5>1, GlobalDeletesAre
      <4> QED  BY <4>1, <4>2
    <3>6. AllFrozen(q)'  BY <1>0, <1>2, <3>2, <3>4, <3>5, AllFrozenStays
    <3> QED  BY <3>1, <3>2, <3>3, <3>4, <3>6
  <2> QED  BY <2>1, <2>2
<1>6. ThreadsOwn'  BY <1>0, SameThreadsKeep DEF markVars
<1>7. InFullFlush' /\ ~Swapping'  BY <1>3 DEF InFullFlush, Swapping
<1>8. FullFlushOwn'
  <2>1. ~overtaken => \A d \in Writers : Phase(d) \in Ticketed => Queue(d) < deleteQueue
    BY <1>2 DEF Inv, FullFlushOwn
  <2>2. /\ fullFlush /\ (~overtaken => frozen[deleteQueue] = 0)
        /\ \A t \in Threads : applying[t] < deleteQueue
    BY <1>2 DEF Inv, FullFlushOwn
  <2> QED
    BY <1>0, <1>2, <1>4, <1>5, <1>7, <2>1, <2>2 DEF FullFlushOwn, Writers, Phase, Queue
<1>9. OldQueueFlushed'
  <2>1. \A d \in Writers : Phase(d) \in Waiting => Queue(d) = deleteQueue
    <3> SUFFICES ASSUME NEW d \in Writers, Phase(d) \in Waiting, Queue(d) # deleteQueue
                 PROVE  FALSE
      OBVIOUS
    <3>1. Queue(d) = q  BY <1>1 DEF Inv, OldQueueFlushed
    <3>2. Phase(d) = "pending"  BY <1>0, <1>2, <3>1 DEF Inv, OldQueueFlushed
    <3> QED  BY <1>0, <3>2
  <2>2. \A t \in Threads : state[t] # None => Queue(state[t]) = deleteQueue
    BY <1>0 DEF Inv, OldQueueFlushed
  <2> QED
    BY <1>0, <1>3, <1>4, <1>7, <2>1, <2>2 DEF OldQueueFlushed, Writers, Phase, Queue
<1>10. QueuesFrozen' /\ Reported'
  <2>1. \A r \in DOMAIN log : r < deleteQueue - 1 => AllFrozen(r)'
    BY <1>0, <1>5, AllFrozenStays DEF Inv, QueuesFrozen
  <2>2. AllFrozen(deleteQueue - 1)'
    <3>1. q' = q  OBVIOUS
    <3> QED  BY <1>0, <1>1, <1>5 DEF AllFrozen, deleteQueue
  <2>3. QueuesFrozen'  BY <1>0, <1>3, <2>1, <2>2 DEF QueuesFrozen
  <2> QED  BY <1>7, <2>3 DEF Reported
<1>11. CommitOld'  BY <1>0, <1>3 DEF Inv, CommitOld
<1>12. CommitIsPrefix'  BY <1>0, <1>4, <1>5, CommitStays
<1>13. Flushed'  BY <1>3 DEF Flushed
<1> QED  BY <1>5, <1>6, <1>8, <1>9, <1>10, <1>11, <1>12, <1>13 DEF Inv

\* finishFullFlush: the blocked DWPTs are to be flushed.
LEMMA FinishIs ==
  ASSUME Inv, NEW apply \in BOOLEAN, FinishFullFlush(apply)
  PROVE  /\ dwpts' \in Seq(DwptRec) /\ DOMAIN dwpts' = Writers
         /\ \A e \in Writers :
              /\ dwpts'[e].queue = dwpts[e].queue /\ dwpts'[e].docs = dwpts[e].docs
              /\ dwpts'[e].upto = dwpts[e].upto
              /\ dwpts'[e].phase = IF Phase(e) = "blocked" THEN "pending" ELSE Phase(e)
<1>1. dwpts' = [e \in Writers |-> IF Phase(e) = "blocked"
                   THEN [dwpts[e] EXCEPT !.phase = "pending"] ELSE dwpts[e]]
  BY DEF FinishFullFlush, Writers, Phase
<1>2. \A e \in Writers : dwpts[e] \in DwptRec  BY WriterTypes DEF Inv
<1>3. \A e \in Writers :
         /\ dwpts'[e] \in DwptRec
         /\ dwpts'[e].queue = dwpts[e].queue /\ dwpts'[e].docs = dwpts[e].docs
         /\ dwpts'[e].upto = dwpts[e].upto
         /\ dwpts'[e].phase = IF Phase(e) = "blocked" THEN "pending" ELSE Phase(e)
  BY <1>1, <1>2 DEF DwptRec, Phase
<1>4. dwpts' \in Seq(DwptRec)
  <2>1. Writers = 1 .. Len(dwpts) /\ Len(dwpts) \in Nat  BY WriterTypes DEF Inv
  <2>2. dwpts' \in [1 .. Len(dwpts) -> DwptRec]  BY <1>1, <1>3, <2>1
  <2> QED  BY <2>1, <2>2, SeqDef
<1> QED  BY <1>1, <1>3, <1>4

LEMMA FinishFullFlushStep ==
  ASSUME Inv, NEW apply \in BOOLEAN, FinishFullFlush(apply)
  PROVE  Inv'
<1>0. /\ log' = log /\ state' = state /\ locked' = locked /\ segmentInfos' = segmentInfos
      /\ markVars' = markVars /\ overtaken' = overtaken
      /\ updates' = updates /\ nextGen' = nextGen /\ fullFlush' = FALSE
      /\ pendingChangesInCurrentFullFlush' = FALSE
      /\ commit' = commit /\ applying' = applying
      /\ purgeLock' = purgeLock /\ tragedy' = tragedy /\ deleteQueue' = deleteQueue
      /\ main.pc = "finish" /\ main' = MainIdle /\ main'.pc = "idle"
  BY DEF FinishFullFlush, MainIdle, opVars, markVars, streamVars, deleteQueue
<1>1. /\ dwpts' \in Seq(DwptRec) /\ DOMAIN dwpts' = Writers
      /\ \A e \in Writers :
           /\ dwpts'[e].queue = dwpts[e].queue /\ dwpts'[e].docs = dwpts[e].docs
           /\ dwpts'[e].upto = dwpts[e].upto
           /\ dwpts'[e].phase = IF Phase(e) = "blocked" THEN "pending" ELSE Phase(e)
  BY FinishIs
<1>2. main' \in MainType
  <2>1. {} \in SUBSET Threads /\ {} \in SUBSET Packet  OBVIOUS
  <2> QED  BY <1>0, <2>1 DEF MainIdle, MainType
<1>3. ~Swapping /\ ~Swapping' /\ ~InFullFlush' /\ Places' = Places
      /\ deleteQueue \in DOMAIN log /\ deleteQueue \in Nat
  BY <1>0, LogTypes DEF Swapping, InFullFlush, Places, Inv, deleteQueue
<1>4. WriterStep /\ FlushedStay /\ DocsStay
  <2>1. \A e \in Writers :
          /\ Phase(e) \in Ticketed <=> dwpts'[e].phase \in Ticketed
          /\ Phase(e) = "flushed" => dwpts'[e].phase = "flushed"
          /\ Phase(e) = "failed" => dwpts'[e].phase = "failed"
          /\ dwpts'[e].phase = "failed" => Phase(e) = "failed" \/ tragedy'
          /\ dwpts'[e].phase = "empty" => Phase(e) = "empty"
          /\ dwpts'[e].phase \in Ticketed => dwpts'[e].phase = Phase(e)
    BY <1>1 DEF Ticketed
  <2>2. WriterStep  BY <1>1, <2>1 DEF WriterStep, Inv, DocsPlaced
  <2> QED  BY <1>1, <2>1, <2>2 DEF FlushedStay, DocsStay
<1>5. /\ TypeOK' /\ Refs' /\ LogGrows
      /\ DocsPlaced' /\ DocsCovered' /\ TicketsOwn' /\ StreamOwns' /\ Order'
  <2>0. \A t \in Threads : applying'[t] <= deleteQueue  BY <1>0 DEF Inv, Refs
  <2>1. CASE apply
    <3>1. PICK q : q = deleteQueue  OBVIOUS
    <3>2. PICK K : K = GlobalDeletes(q)  OBVIOUS
    <3>3. AddDeletes(q)  BY <2>1, <3>1 DEF FinishFullFlush
    <3>4. \A e \in DOMAIN dwpts' :
            /\ dwpts'[e].phase \in Ticketed => e \in Writers /\ dwpts'[e].phase = Phase(e)
            /\ dwpts'[e].phase = "empty" => dwpts'[e].docs = {}
      BY <1>1 DEF Ticketed, Inv, DocsPlaced
    <3>5. /\ Freezes(q, None, K) /\ LogGrows /\ K \in SUBSET Keys
          /\ frozen' \in [DOMAIN log -> Nat] /\ tickets' \in Seq(TicketType)
          /\ frozen'[q] = Len(log[q]) /\ \A r \in DOMAIN log : r # q => frozen'[r] = frozen[r]
          /\ \A i \in DOMAIN tickets' : \/ i \in DOMAIN tickets /\ tickets'[i] = tickets[i]
                                        \/ tickets'[i].keys = K /\ tickets'[i].dwpt = None
      BY <1>0, <1>1, <1>3, <3>1, <3>2, <3>3, <3>4, AddDeletesFreezes
    <3>6. TypeOK'  BY <1>0, <1>1, <1>2, <3>5 DEF Inv, TypeOK, markVars, TicketType, MainType
    <3>7. Refs'  BY <1>0, <1>1, <1>3, <2>0, <3>1, <3>5, FreezeRefs
    <3>8. DocsPlaced' /\ DocsCovered' /\ TicketsOwn' /\ StreamOwns' /\ Order'
      BY <1>0, <1>3, <1>4, <3>4, <3>5, <3>6, <3>7, FreezeKeeps
    <3> QED  BY <3>5, <3>6, <3>7, <3>8
  <2>2. CASE ~apply
    <3>1. tickets' = tickets /\ frozen' = frozen  BY <2>2 DEF FinishFullFlush
    <3>2. TypeOK'  BY <1>0, <1>1, <1>2, <3>1 DEF Inv, TypeOK, markVars, MainType
    <3>3. Refs'  BY <1>0, <1>1, <2>0, <3>1 DEF Inv, Refs, Writers, Queue
    <3>4. /\ LogGrows
          /\ DocsPlaced' /\ DocsCovered' /\ TicketsOwn' /\ StreamOwns' /\ Order'
      BY <1>0, <1>4, <3>1, <3>2, <3>3, WriterStepKeeps
    <3> QED  BY <3>2, <3>3, <3>4
  <2> QED  BY <2>1, <2>2
<1>6. ThreadsOwn'
  <2>1. \A e \in Writers : dwpts'[e].phase = "active" <=> Phase(e) = "active"
    BY <1>1
  <2> QED  BY <1>0, <1>1, <2>1 DEF Inv, ThreadsOwn, Writers, Refs, Phase, markVars
<1>7. FullFlushOwn'  BY <1>0, <1>3 DEF FullFlushOwn
<1>8. OldQueueFlushed'
  <2>1. \A e \in Writers : dwpts'[e].phase \in Waiting => Queue(e) = deleteQueue
    BY <1>1, <1>3 DEF Inv, OldQueueFlushed, Waiting
  <2>2. \A t \in Threads : state[t] # None => dwpts'[state[t]].queue = deleteQueue
    BY <1>0, <1>1 DEF Inv, OldQueueFlushed, Refs, Queue
  <2> QED
    BY <1>0, <1>1, <2>1, <2>2 DEF OldQueueFlushed, Writers, Phase, Queue
<1>9. QueuesFrozen' /\ Reported'
  <2>1. \A r \in DOMAIN log : r < deleteQueue - 1 => AllFrozen(r)'
    BY <1>0, <1>5, AllFrozenStays DEF Inv, QueuesFrozen
  <2>2. deleteQueue > 1 => AllFrozen(deleteQueue - 1)'
    <3> SUFFICES ASSUME deleteQueue > 1 PROVE AllFrozen(deleteQueue - 1)'
      OBVIOUS
    <3>1. PICK r : r = deleteQueue - 1  OBVIOUS
    <3>2. r \in DOMAIN log /\ AllFrozen(r)
      BY <1>3, <3>1, LogTypes DEF Inv, QueuesFrozen, deleteQueue
    <3>3. AllFrozen(r)'  BY <1>0, <1>5, <3>2, AllFrozenStays
    <3> QED  BY <1>0, <3>1, <3>3 DEF AllFrozen, deleteQueue
  <2>3. QueuesFrozen'  BY <1>0, <2>1, <2>2 DEF QueuesFrozen
  <2> QED  BY <1>3, <2>3 DEF Reported
<1>10. CommitOld'  BY <1>0 DEF Inv, CommitOld
<1>11. CommitIsPrefix'  BY <1>0, <1>3, <1>5, CommitStays
<1>12. Flushed'  BY <1>0 DEF Flushed
<1> QED  BY <1>5, <1>6, <1>7, <1>8, <1>9, <1>10, <1>11, <1>12 DEF Inv

\* doFlush: a pending DWPT gets a ticket, with the global deletes of its queue.
LEMMA AddFlushTicketIs ==
  ASSUME Inv, NEW d \in Writers, NEW byMain \in BOOLEAN, AddFlushTicket(d, byMain)
  PROVE  /\ dwpts' \in Seq(DwptRec) /\ DOMAIN dwpts' = Writers
         /\ \A e \in Writers :
              /\ dwpts'[e].queue = dwpts[e].queue /\ dwpts'[e].docs = dwpts[e].docs
              /\ dwpts'[e].upto = IF e = d THEN Len(log[Queue(d)]) ELSE dwpts[e].upto
              /\ dwpts'[e].phase = IF e = d THEN "ticket" ELSE Phase(e)
         /\ frozen' \in [DOMAIN log -> Nat]
         /\ \A r \in DOMAIN log : frozen'[r] = IF r = Queue(d) THEN Len(log[Queue(d)])
                                               ELSE frozen[r]
<1>1. dwpts \in Seq(DwptRec) /\ dwpts[d] \in DwptRec /\ d \in DOMAIN dwpts
  BY WriterSeq, WriterTypes DEF Inv, Writers
<1>2. PICK r : r = [dwpts[d] EXCEPT !.phase = "ticket", !.upto = Len(log[Queue(d)])]  OBVIOUS
<1>3. Len(log[Queue(d)]) \in Nat  BY LogTypes DEF Inv, Refs
<1>4. /\ r \in DwptRec /\ r.phase = "ticket" /\ r.upto = Len(log[Queue(d)])
      /\ r.queue = dwpts[d].queue /\ r.docs = dwpts[d].docs
  BY <1>1, <1>2, <1>3 DEF DwptRec
<1>5. dwpts' = [dwpts EXCEPT ![d] = r]  BY <1>1, <1>2 DEF AddFlushTicket
<1>6. dwpts' \in Seq(DwptRec) /\ DOMAIN dwpts' = Writers
      /\ \A e \in Writers : dwpts'[e] = IF e = d THEN r ELSE dwpts[e]
  BY <1>1, <1>4, <1>5 DEF Writers
<1>7. \A e \in Writers :
        /\ dwpts'[e].queue = dwpts[e].queue /\ dwpts'[e].docs = dwpts[e].docs
        /\ dwpts'[e].upto = IF e = d THEN Len(log[Queue(d)]) ELSE dwpts[e].upto
        /\ dwpts'[e].phase = IF e = d THEN "ticket" ELSE Phase(e)
  BY <1>4, <1>6 DEF Phase
<1>8. /\ frozen' \in [DOMAIN log -> Nat]
      /\ \A q \in DOMAIN log : frozen'[q] = IF q = Queue(d) THEN Len(log[Queue(d)])
                                            ELSE frozen[q]
  <2>1. frozen' = [frozen EXCEPT ![Queue(d)] = Len(log[Queue(d)])]
    BY DEF AddFlushTicket, PrepareFlush, Frozen
  <2>2. frozen \in [DOMAIN log -> Nat]  BY DEF Inv, TypeOK
  <2> QED  BY <1>3, <2>1, <2>2
<1> QED  BY <1>6, <1>7, <1>8

LEMMA AddFlushTicketStep ==
  ASSUME Inv, NEW d \in DOMAIN dwpts, NEW byMain \in BOOLEAN, AddFlushTicket(d, byMain)
  PROVE  Inv'
<1>0. /\ log' = log /\ state' = state /\ locked' = locked /\ segmentInfos' = segmentInfos
      /\ markVars' = markVars /\ overtaken' = overtaken
      /\ updates' = updates /\ nextGen' = nextGen /\ fullFlush' = fullFlush
      /\ pendingChangesInCurrentFullFlush' = pendingChangesInCurrentFullFlush
      /\ commit' = commit /\ applying' = applying
      /\ purgeLock' = purgeLock /\ tragedy' = tragedy /\ deleteQueue' = deleteQueue
      /\ Phase(d) = "pending" /\ d \in Writers /\ d \in Nat /\ d # None
      /\ byMain => main.pc = "help" /\ Queue(d) # deleteQueue
      /\ main' = IF byMain THEN [main EXCEPT !.anythingFlushed = TRUE] ELSE main
  BY WriterTypes, NoneIsNoWriter
     DEF AddFlushTicket, opVars, markVars, streamVars, deleteQueue, Writers, Phase, Inv
<1>1. PICK q : q = Queue(d)  OBVIOUS
<1>2. PICK K : K = GlobalDeletes(q)  OBVIOUS
<1>3. /\ q \in DOMAIN log /\ Len(log[q]) \in Nat /\ frozen[q] \in Nat /\ frozen[q] <= Len(log[q])
      /\ deleteQueue \in Nat /\ deleteQueue \in DOMAIN log
  BY <1>0, <1>1, LogTypes DEF Inv, Refs, deleteQueue
<1>4. /\ dwpts' \in Seq(DwptRec) /\ DOMAIN dwpts' = Writers
      /\ \A e \in Writers :
           /\ dwpts'[e].queue = dwpts[e].queue /\ dwpts'[e].docs = dwpts[e].docs
           /\ dwpts'[e].upto = IF e = d THEN Len(log[q]) ELSE dwpts[e].upto
           /\ dwpts'[e].phase = IF e = d THEN "ticket" ELSE Phase(e)
      /\ frozen' \in [DOMAIN log -> Nat]
      /\ \A r \in DOMAIN log : frozen'[r] = IF r = q THEN Len(log[q]) ELSE frozen[r]
  BY <1>0, <1>1, AddFlushTicketIs
<1>5. /\ K \in SUBSET Keys
      /\ \A n \in DOMAIN log[q] :
           n > frozen[q] /\ log[q][n].kind # "add" => log[q][n].key \in K
      /\ \A k \in K : \E n \in DOMAIN log[q] :
           n > frozen[q] /\ log[q][n].kind # "add" /\ log[q][n].key = k
  BY <1>2, <1>3, GlobalDeletesAre
<1>6. tickets' = Append(tickets, [keys |-> K, dwpt |-> d])
  BY <1>1, <1>2 DEF AddFlushTicket, PrepareFlush
<1>7. Places' = Places  BY <1>0 DEF Places
<1>8. LogGrows
  <2>1. \A r \in DOMAIN log : frozen[r] <= frozen'[r]
    BY <1>3, <1>4, LogTypes DEF Inv
  <2> QED  BY <1>0, <2>1 DEF LogGrows
<1>9. FlushedStay /\ DocsStay
  BY <1>0, <1>4 DEF FlushedStay, DocsStay, Ticketed
<1>10. Freezes(q, d, K)
  <2>1. d # None =>
          /\ d \in Writers /\ Phase(d) \in Waiting /\ q = Queue(d) /\ log' = log
          /\ dwpts'[d].docs = dwpts[d].docs /\ dwpts'[d].upto = Len(log[q])
    BY <1>0, <1>1, <1>4 DEF Waiting
  <2>2. \A e \in DOMAIN dwpts' : dwpts'[e].phase \in Ticketed =>
          e \in Writers /\ (e = d \/ Phase(e) \in Ticketed)
    BY <1>4
  <2>3. \A e \in Writers : dwpts'[e].phase = "flushed" => Phase(e) = "flushed"
    BY <1>4
  <2> QED  BY <1>0, <1>3, <1>4, <1>5, <1>6, <1>7, <2>1, <2>2, <2>3 DEF Freezes
<1>11. main' \in MainType /\ main'.pc = main.pc /\ main'.waitFor = main.waitFor
       /\ main'.anythingFlushed = (byMain \/ main.anythingFlushed)
  BY <1>0, MainTypes DEF MainType
<1>12. tickets' \in Seq(TicketType)
       /\ \A i \in DOMAIN tickets' :
            tickets'[i].dwpt = d \/ (i \in DOMAIN tickets /\ tickets'[i] = tickets[i])
  <2>1. /\ DOMAIN tickets = 1 .. Len(tickets) /\ Len(tickets) \in Nat
        /\ DOMAIN tickets' = 1 .. Len(tickets) + 1
        /\ \A i \in DOMAIN tickets : tickets'[i] = tickets[i]
        /\ tickets'[Len(tickets) + 1].keys = K /\ tickets'[Len(tickets) + 1].dwpt = d
        /\ tickets' \in Seq(TicketType)
    BY <1>0, <1>5, <1>6, FreezeTickets
  <2>2. \A i \in DOMAIN tickets' : i \in DOMAIN tickets \/ i = Len(tickets) + 1  BY <2>1
  <2> QED  BY <2>1, <2>2
<1>13. TypeOK'  BY <1>0, <1>4, <1>11, <1>12 DEF Inv, TypeOK, markVars, TicketType, MainType
<1>14. Refs'
  <2>1. \A r \in DOMAIN log : frozen'[r] <= Len(log[r])  BY <1>3, <1>4 DEF Inv, Refs
  <2>2. \A i \in DOMAIN tickets' : tickets'[i].dwpt \in Writers \cup {None}
    BY <1>0, <1>12 DEF Inv, Refs
  <2> QED  BY <1>0, <1>4, <2>1, <2>2 DEF Inv, Refs, Writers, Queue
<1>15. DocsPlaced'
  <2>1. \A e \in DOMAIN dwpts' : dwpts'[e].phase = "empty" => dwpts'[e].docs = {}
    BY <1>4 DEF Inv, DocsPlaced
  <2> QED  BY <1>7, <1>8, <1>9, <2>1, DocsPlacedStays
<1>16. DocsCovered'
  <2>1. ASSUME NEW e \in Writers, e # d, Phase(e) \in Ticketed
        PROVE  /\ dwpts[e].upto <= frozen'[Queue(e)]
               /\ \A x \in dwpts[e].docs : x[2] <= dwpts[e].upto
    <3>1. /\ dwpts[e].upto <= frozen[Queue(e)]
          /\ \A x \in dwpts[e].docs : x[2] <= dwpts[e].upto
      BY <2>1 DEF Inv, DocsCovered
    <3>2. Queue(e) \in DOMAIN log /\ frozen[Queue(e)] <= frozen'[Queue(e)]
      BY <1>8 DEF LogGrows, Inv, Refs
    <3>3. dwpts[e].upto \in Nat /\ frozen[Queue(e)] \in Nat /\ frozen'[Queue(e)] \in Nat
      BY <1>4, <3>2, WriterTypes, LogTypes DEF Inv
    <3> QED  BY <3>1, <3>2, <3>3
  <2>2. \A x \in dwpts[d].docs : x[2] <= Len(log[q])
    BY <1>0, <1>1, PlaceTypes DEF Inv, DocsPlaced
  <2>3. frozen'[q] = Len(log[q]) /\ Len(log[q]) <= Len(log[q])  BY <1>3, <1>4
  <2> QED  BY <1>1, <1>4, <2>1, <2>2, <2>3 DEF DocsCovered, Writers, Phase, Queue
<1>17. TicketsOwn'
  <2>1. \A e \in DOMAIN dwpts' :
          /\ dwpts'[e].phase = "ticket" => e \in Writers /\ (e = d \/ Phase(e) = "ticket")
          /\ dwpts'[e].phase = "failed" => e \in Writers /\ Phase(e) = "failed"
    BY <1>4
  <2>2. dwpts'[d].phase = "ticket"  BY <1>0, <1>4
  <2> QED  BY <1>0, <1>5, <1>9, <1>10, <2>1, <2>2, FreezeTicketsOwn
<1>18. StreamOwns'  BY <1>0, <1>5, <1>9, <1>10, FreezeStreamOwns
<1>19. Order'  BY <1>0, <1>5, <1>8, <1>9, <1>10, <1>13, <1>14, FreezeOrder
<1>20. ThreadsOwn'
  <2>1. \A e \in Writers : dwpts'[e].phase = "active" <=> Phase(e) = "active"
    BY <1>0, <1>4
  <2> QED  BY <1>0, <1>4, <2>1 DEF Inv, ThreadsOwn, Writers, Refs, Phase, markVars
<1>21. InFullFlush /\ ~overtaken => q < deleteQueue /\ Swapping
  BY <1>0, <1>1 DEF Inv, FullFlushOwn
<1>22. (InFullFlush' <=> InFullFlush) /\ (Swapping' <=> Swapping)
  BY <1>11 DEF InFullFlush, Swapping
<1>23. FullFlushOwn'
  <2>1. /\ InFullFlush /\ ~overtaken => frozen'[deleteQueue] = 0
        /\ InFullFlush => deleteQueue > 1
    BY <1>3, <1>4, <1>21 DEF Inv, FullFlushOwn
  <2>2. \A e \in Writers : InFullFlush /\ ~overtaken =>
          /\ dwpts'[e].phase = "pending" => Queue(e) < deleteQueue /\ Swapping
          /\ dwpts'[e].phase \in Ticketed => Queue(e) < deleteQueue
          /\ dwpts'[e].phase = "ticket" => Swapping
    BY <1>1, <1>4, <1>21 DEF Inv, FullFlushOwn
  <2> QED
    BY <1>0, <1>4, <1>22, <2>1, <2>2 DEF Inv, FullFlushOwn, Writers, Phase, Queue
<1>24. OldQueueFlushed'
  <2>1. \A e \in Writers : dwpts'[e].phase \in Waiting => Phase(e) = dwpts'[e].phase
    BY <1>4 DEF Waiting
  <2>2. \A t \in Threads : state[t] # None => dwpts'[state[t]].queue = Queue(state[t])
    BY <1>4 DEF Inv, Refs, Queue
  <2>3. \A e \in Writers : dwpts'[e].phase \in Waiting =>
          Queue(e) = deleteQueue \/ (Swapping /\ Queue(e) = deleteQueue - 1)
    BY <2>1 DEF Inv, OldQueueFlushed
  <2>4. \A t \in Threads : state'[t] # None =>
          dwpts'[state'[t]].queue = deleteQueue
          \/ (main'.pc = "mark" /\ t \notin main'.marked)
    BY <1>0, <1>11, <2>2 DEF Inv, OldQueueFlushed
  <2>5. \A e \in Writers :
          main'.pc = "help" /\ dwpts'[e].phase \in Waiting /\ Queue(e) < deleteQueue
            => dwpts'[e].phase = "pending"
    BY <1>11, <2>1 DEF Inv, OldQueueFlushed
  <2>6. deleteQueue' = deleteQueue  BY <1>0 DEF deleteQueue
  <2> QED  BY <1>4, <1>22, <2>3, <2>4, <2>5, <2>6 DEF OldQueueFlushed, Writers, Phase, Queue
<1>25. QueuesFrozen'
  <2>1. \A r \in DOMAIN log : AllFrozen(r) => AllFrozen(r)'
    BY <1>0, <1>8, <1>13, AllFrozenStays
  <2>2. deleteQueue > 1 => deleteQueue - 1 \in DOMAIN log
    BY <1>3, LogTypes DEF Inv, deleteQueue
  <2>3. AllFrozen(q)'
    <3>1. DOMAIN log[q] = 1 .. Len(log[q])  BY <1>3, LogTypes DEF Inv
    <3>2. \A n \in DOMAIN log[q] : n <= frozen'[q]  BY <1>3, <1>4, <3>1
    <3> QED  BY <1>0, <3>2 DEF AllFrozen
  <2>4. byMain => q = deleteQueue - 1
    <3> SUFFICES ASSUME byMain PROVE q = deleteQueue - 1
      OBVIOUS
    <3>1. q # deleteQueue  BY <1>0, <1>1
    <3> QED  BY <1>0, <1>1, <3>1 DEF Inv, OldQueueFlushed, Waiting
  <2>5. ASSUME main.pc = "help", main'.anythingFlushed PROVE AllFrozen(deleteQueue - 1)'
    <3>1. CASE byMain
      <4>1. AllFrozen(q)' <=> AllFrozen(deleteQueue - 1)'
        BY <1>0, <2>4, <3>1 DEF AllFrozen, deleteQueue
      <4> QED  BY <2>3, <4>1
    <3>2. CASE ~byMain
      <4>1. PICK r : r = deleteQueue - 1  OBVIOUS
      <4>2. AllFrozen(r) /\ r \in DOMAIN log
        BY <1>11, <2>2, <2>5, <3>2, <4>1 DEF Inv, QueuesFrozen, FullFlushOwn, InFullFlush
      <4>3. AllFrozen(r)'  BY <2>1, <4>2
      <4> QED  BY <1>0, <4>1, <4>3 DEF AllFrozen, deleteQueue
    <3> QED  BY <3>1, <3>2
  <2>6. ASSUME ~Swapping, deleteQueue > 1 PROVE AllFrozen(deleteQueue - 1)'
    <3>1. PICK r : r = deleteQueue - 1  OBVIOUS
    <3>2. AllFrozen(r) /\ r \in DOMAIN log  BY <2>2, <2>6, <3>1 DEF Inv, QueuesFrozen
    <3>3. AllFrozen(r)'  BY <2>1, <3>2
    <3> QED  BY <1>0, <3>1, <3>3 DEF AllFrozen, deleteQueue
  <2>7. \A r \in DOMAIN log : r < deleteQueue - 1 => AllFrozen(r)'
    BY <2>1 DEF Inv, QueuesFrozen
  <2>8. main.pc = "mark" => ~main'.anythingFlushed
    BY <1>0, <1>11 DEF Inv, QueuesFrozen
  <2> QED  BY <1>0, <1>11, <1>22, <2>5, <2>6, <2>7, <2>8 DEF QueuesFrozen
<1>26. Reported'  BY <1>0, <1>8, <1>13, <1>22, ReportedStays
<1>27. CommitOld'  BY <1>0, <1>11 DEF Inv, CommitOld
<1>28. CommitIsPrefix'  BY <1>0, <1>7, <1>8, <1>13, CommitStays
<1>29. Flushed'
  <2>1. main.pc = "waitApply" => overtaken  BY <1>21 DEF InFullFlush, Swapping
  <2> QED  BY <1>0, <1>11, <2>1 DEF Flushed
<1> QED
  BY <1>13, <1>14, <1>15, <1>16, <1>17, <1>18, <1>19, <1>20, <1>23, <1>24, <1>25, <1>26, <1>27,
     <1>28, <1>29 DEF Inv
------------------------------------------------------------------------------
(* Steps that bring an operation.                                          *)

\* A queue has one operation more, at a new place.
LEMMA LogAppend ==
  ASSUME Inv, NEW q \in DOMAIN log, NEW op \in OpRec,
         log' = [log EXCEPT ![q] = Append(log[q], op)]
  PROVE  /\ log' \in Seq(Seq(OpRec)) /\ DOMAIN log' = DOMAIN log /\ deleteQueue' = deleteQueue
         /\ Len(log') > 0 /\ q \in Nat /\ Len(log[q]) \in Nat
         /\ DOMAIN log'[q] = 1 .. Len(log[q]) + 1 /\ Len(log'[q]) = Len(log[q]) + 1
         /\ log'[q][Len(log[q]) + 1] = op
         /\ \A r \in DOMAIN log : r # q => log'[r] = log[r]
         /\ \A r \in DOMAIN log : \A n \in DOMAIN log[r] :
              n \in DOMAIN log'[r] /\ log'[r][n] = log[r][n]
         /\ <<q, Len(log[q]) + 1>> \in Places' /\ <<q, Len(log[q]) + 1>> \notin Places
         /\ \A x \in Places' : x \in Places \/ x = <<q, Len(log[q]) + 1>>
<1>1. PICK S : S = Append(log[q], op)  OBVIOUS
<1>2. PICK n : n = Len(log[q]) + 1  OBVIOUS
<1>3. /\ log \in Seq(Seq(OpRec)) /\ Len(log) > 0 /\ log[q] \in Seq(OpRec) /\ Len(log[q]) \in Nat
      /\ DOMAIN log = 1 .. Len(log) /\ Len(log) \in Nat
  BY LogTypes DEF Inv, TypeOK
<1>4. /\ S \in Seq(OpRec) /\ Len(S) = n /\ DOMAIN S = 1 .. n /\ DOMAIN log[q] = 1 .. Len(log[q])
      /\ S[n] = op /\ \A i \in 1 .. Len(log[q]) : S[i] = log[q][i]
  BY <1>1, <1>2, <1>3, AppendIs
<1>5. log' = [log EXCEPT ![q] = S]  BY <1>1
<1>6. /\ log' \in Seq(Seq(OpRec)) /\ DOMAIN log' = DOMAIN log /\ Len(log') = Len(log)
      /\ log'[q] = S /\ \A r \in DOMAIN log : r # q => log'[r] = log[r]
  BY <1>3, <1>4, <1>5
<1>7. \A r \in DOMAIN log : \A i \in DOMAIN log[r] :
        i \in DOMAIN log'[r] /\ log'[r][i] = log[r][i]
  <2> SUFFICES ASSUME NEW r \in DOMAIN log, NEW i \in DOMAIN log[r]
               PROVE  i \in DOMAIN log'[r] /\ log'[r][i] = log[r][i]
    OBVIOUS
  <2>1. CASE r = q  BY <1>2, <1>3, <1>4, <1>6, <2>1
  <2>2. CASE r # q  BY <1>6, <2>2
  <2> QED  BY <2>1, <2>2
<1>8. <<q, n>> \in Places'
  <2>1. q \in DOMAIN log' /\ n \in DOMAIN log'[q]  BY <1>2, <1>3, <1>4, <1>6
  <2> QED  BY <2>1, PlaceIsNext
<1>9. <<q, n>> \notin Places
  <2>1. n \notin DOMAIN log[q]  BY <1>2, <1>3, <1>4
  <2> QED  BY <2>1, PlaceIs
<1>10. \A x \in Places' : x \in Places \/ x = <<q, n>>
  <2> SUFFICES ASSUME NEW x \in Places', x # <<q, n>>
               PROVE  x \in Places
    OBVIOUS
  <2>1. x = <<x[1], x[2]>> /\ x[1] \in DOMAIN log' /\ x[2] \in DOMAIN log'[x[1]]
    BY PlaceIsNext
  <2>2. x[1] \in DOMAIN log /\ x[2] \in DOMAIN log[x[1]]
    <3>1. CASE x[1] = q
      <4>1. x[2] # n /\ x[2] \in 1 .. n  BY <1>4, <1>6, <2>1, <3>1
      <4> QED  BY <1>2, <1>3, <1>4, <3>1, <4>1
    <3>2. CASE x[1] # q  BY <1>6, <2>1, <3>2
    <3> QED  BY <3>1, <3>2
  <2> QED  BY <2>1, <2>2, PlaceIs
<1>11. deleteQueue' = deleteQueue  BY <1>6 DEF deleteQueue
<1>12. q \in Nat  BY <1>3
<1> QED  BY <1>2, <1>3, <1>4, <1>6, <1>7, <1>8, <1>9, <1>10, <1>11, <1>12

\* The operation is in the current queue, or, while threads are marked, a document of the old.
LEMMA AppendKeeps ==
  ASSUME Inv, TypeOK', LogGrows, NEW q \in DOMAIN log, NEW op \in OpRec,
         log' = [log EXCEPT ![q] = Append(log[q], op)],
         \/ q = deleteQueue
         \/ main.pc = "mark" /\ q = deleteQueue - 1 /\ op.kind \in {"add", "update"},
         \A r \in DOMAIN log : r < deleteQueue => frozen'[r] = frozen[r],
         main' = main, commit' = commit,
         pendingChangesInCurrentFullFlush' = pendingChangesInCurrentFullFlush
  PROVE  QueuesFrozen' /\ Reported' /\ CommitOld' /\ CommitIsPrefix'
<1>1. /\ DOMAIN log' = DOMAIN log /\ deleteQueue' = deleteQueue /\ q \in Nat
      /\ DOMAIN log'[q] = 1 .. Len(log[q]) + 1 /\ Len(log[q]) \in Nat
      /\ log'[q][Len(log[q]) + 1] = op
      /\ \A r \in DOMAIN log : r # q => log'[r] = log[r]
      /\ \A n \in DOMAIN log[q] : log'[q][n] = log[q][n]
      /\ \A x \in Places' : x \in Places \/ x = <<q, Len(log[q]) + 1>>
  BY LogAppend
<1>2. /\ deleteQueue \in Nat /\ DOMAIN log = 1 .. deleteQueue
      /\ (deleteQueue > 1 => deleteQueue - 1 \in DOMAIN log)
  BY LogTypes DEF Inv, deleteQueue
<1>3. ASSUME NEW r \in DOMAIN log, r # q, r < deleteQueue, AllFrozen(r)
      PROVE  AllFrozen(r)'
  BY <1>1, <1>3 DEF AllFrozen, Deletes, Op
<1>4. QueuesFrozen'
  <2>1. ASSUME NEW r \in DOMAIN log, r < deleteQueue - 1 PROVE AllFrozen(r)'
    <3>1. r # q /\ r < deleteQueue  BY <1>2, <2>1
    <3>2. AllFrozen(r)  BY <2>1 DEF Inv, QueuesFrozen
    <3> QED  BY <1>3, <3>1, <3>2
  <2>2. ASSUME AllFrozen(deleteQueue - 1), deleteQueue > 1, main.pc # "mark"
        PROVE  AllFrozen(deleteQueue - 1)'
    <3>1. PICK r : r = deleteQueue - 1  OBVIOUS
    <3>2. r \in DOMAIN log /\ r # q /\ r < deleteQueue /\ AllFrozen(r)  BY <1>2, <2>2, <3>1
    <3>3. AllFrozen(r)'  BY <1>3, <3>2
    <3> QED  BY <1>1, <3>1, <3>3 DEF AllFrozen, deleteQueue
  <2>3. main.pc = "help" => deleteQueue > 1  BY DEF Inv, FullFlushOwn, InFullFlush
  <2> QED  BY <1>1, <2>1, <2>2, <2>3 DEF Inv, QueuesFrozen, Swapping
<1>5. Reported'
  <2> SUFFICES ASSUME Swapping, NEW n \in DOMAIN log'[deleteQueue - 1],
                      log'[deleteQueue - 1][n].kind \notin {"add", "update"},
                      n > frozen'[deleteQueue - 1]
               PROVE  pendingChangesInCurrentFullFlush
    BY <1>1 DEF Reported, HasDocument, Op, Swapping
  <2>1. deleteQueue > 1 /\ deleteQueue - 1 \in DOMAIN log /\ deleteQueue - 1 < deleteQueue
    BY <1>2 DEF Inv, FullFlushOwn, InFullFlush, Swapping
  <2>2. n \in DOMAIN log[deleteQueue - 1] /\ log[deleteQueue - 1][n] = log'[deleteQueue - 1][n]
    <3>1. CASE q # deleteQueue - 1  BY <1>1, <2>1, <3>1
    <3>2. CASE q = deleteQueue - 1
      <4>1. op.kind \in {"add", "update"}  BY <1>2, <3>2
      <4>2. n # Len(log[q]) + 1  BY <1>1, <3>2, <4>1
      <4>3. n \in DOMAIN log[q]
        <5>1. DOMAIN log[q] = 1 .. Len(log[q])  BY LogTypes DEF Inv
        <5>2. n \in 1 .. Len(log[q]) + 1  BY <1>1, <3>2
        <5> QED  BY <1>1, <4>2, <5>1, <5>2
      <4> QED  BY <1>1, <3>2, <4>3
    <3> QED  BY <3>1, <3>2
  <2>3. n > frozen[deleteQueue - 1]  BY <2>1
  <2> QED  BY <2>2, <2>3 DEF Inv, Reported, HasDocument, Op
<1>6. CommitOld'  BY <1>1 DEF Inv, CommitOld
<1>7. CommitIsPrefix'
  <2>1. q > commit.queue
    <3>1. q = deleteQueue \/ (main.pc = "mark" /\ q >= deleteQueue - 1)  BY <1>1, <1>2
    <3> QED  BY <1>1, <3>1, NewOpsAreYounger
  <2>2. \A x \in Places' : x \notin Places => x[1] > commit.queue  BY <1>1, <2>1
  <2> QED  BY <2>2, CommitStays
<1> QED  BY <1>4, <1>5, <1>6, <1>7

\* updateDocument: the DWPT has one document more, and may leave its ThreadState.
NewPlace(d) == <<Queue(d), Len(log[Queue(d)]) + 1>>
DocumentAdded(d, flush) ==
  \A e \in Writers :
    /\ dwpts'[e].queue = dwpts[e].queue /\ dwpts'[e].upto = dwpts[e].upto
    /\ dwpts'[e].docs = IF e = d THEN dwpts[e].docs \cup {NewPlace(d)} ELSE dwpts[e].docs
    /\ dwpts'[e].phase = IF e = d /\ flush THEN CheckOutPhase(d) ELSE Phase(e)

LEMMA UpdateDocumentIs ==
  ASSUME Inv, NEW t \in Threads, NEW kind, NEW key, NEW marks,
         NEW flush \in BOOLEAN, flush <=> t \in marks \cup flushPending,
         UpdateDocument(t, kind, key, marks)
  PROVE  /\ state[t] # None /\ state[t] \in Writers
         /\ dwpts' \in Seq(DwptRec) /\ DOMAIN dwpts' = Writers /\ DocumentAdded(state[t], flush)
         /\ state' \in [Threads -> Nat]
         /\ \A u \in Threads : state'[u] = IF u = t /\ flush THEN None ELSE state[u]
<1>1. PICK d : d = state[t]  OBVIOUS
<1>2. d # None  BY <1>1 DEF UpdateDocument, Inv, ThreadsOwn
<1>3. d \in Writers /\ Phase(d) = "active" /\ state \in [Threads -> Nat]
  BY <1>1, <1>2, ThreadState DEF Inv, TypeOK
<1>4. dwpts \in Seq(DwptRec) /\ dwpts[d] \in DwptRec /\ d \in DOMAIN dwpts
  BY <1>3, WriterSeq, WriterTypes DEF Inv, Writers
<1>5. PICK D : D = dwpts[d].docs \cup {<<Queue(d), Len(log[Queue(d)]) + 1>>}  OBVIOUS
<1>6. PICK ph : ph = IF flush THEN CheckOutPhase(d) ELSE "active"  OBVIOUS
<1>7. D \in SUBSET (Nat \X Nat) /\ ph \in Phases
  <2>1. Queue(d) \in Nat /\ Len(log[Queue(d)]) + 1 \in Nat
    BY <1>3, WriterTypes, LogTypes DEF Inv, Refs
  <2>2. dwpts[d].docs \subseteq Nat \X Nat  BY <1>3, WriterTypes DEF Inv
  <2> QED  BY <1>5, <1>6, <2>1, <2>2 DEF CheckOutPhase, Phases, Waiting
<1>8. PICK r : r = [dwpts[d] EXCEPT !.docs = D, !.phase = ph]  OBVIOUS
<1>9. /\ r \in DwptRec /\ r.phase = ph /\ r.upto = dwpts[d].upto
      /\ r.queue = dwpts[d].queue /\ r.docs = D
  BY <1>4, <1>7, <1>8 DEF DwptRec, Phases, Waiting, Ticketed
<1>10. dwpts' = [dwpts EXCEPT ![d] = r]
  <2>1. dwpts' = [dwpts EXCEPT ![d].docs = D, ![d].phase = ph]
    BY <1>1, <1>5, <1>6 DEF UpdateDocument
  <2> QED  BY <1>4, <1>8, <2>1
<1>11. dwpts' \in Seq(DwptRec) /\ DOMAIN dwpts' = Writers
       /\ \A e \in Writers : dwpts'[e] = IF e = d THEN r ELSE dwpts[e]
  BY <1>4, <1>9, <1>10 DEF Writers
<1>12. DocumentAdded(d, flush)
  <2>1. D = dwpts[d].docs \cup {NewPlace(d)}  BY <1>5 DEF NewPlace
  <2> QED  BY <1>3, <1>6, <1>9, <1>11, <2>1 DEF Phase, DocumentAdded
<1>13. state' = [state EXCEPT ![t] = IF flush THEN None ELSE d]
  BY <1>1 DEF UpdateDocument
<1>14. /\ state' \in [Threads -> Nat]
       /\ \A u \in Threads : state'[u] = IF u = t /\ flush THEN None ELSE state[u]
  <2>1. d \in Nat /\ None \in Nat  BY <1>1, <1>3 DEF None
  <2> QED  BY <1>1, <1>3, <1>13, <2>1
<1> QED  BY <1>1, <1>2, <1>3, <1>11, <1>12, <1>14

LEMMA UpdateDocumentStep ==
  ASSUME Inv, NEW t \in Threads, NEW kind \in Kinds, NEW key \in Keys,
         NEW marks \in SUBSET Threads, UpdateDocument(t, kind, key, marks)
  PROVE  Inv'
<1>0. /\ frozen' = frozen /\ applying' = applying /\ tickets' = tickets
      /\ purgeLock' = purgeLock /\ segmentInfos' = segmentInfos /\ updates' = updates
      /\ nextGen' = nextGen /\ fullFlush' = fullFlush /\ main' = main /\ commit' = commit
      /\ pendingChangesInCurrentFullFlush' = pendingChangesInCurrentFullFlush
      /\ tragedy' = tragedy /\ locked' = locked \ {t} /\ kind \in {"add", "update"}
      /\ flushPending' = (flushPending \cup marks) \ {t} /\ MayMark(t, marks)
      /\ scanning' = scanning /\ overtaken' = overtaken
      /\ log' = [log EXCEPT ![Queue(state[t])] =
                    Append(log[Queue(state[t])], [kind |-> kind, key |-> key])]
  BY DEF UpdateDocument, streamVars, fullFlushVars
<1> PICK flush \in BOOLEAN : flush <=> t \in marks \cup flushPending  OBVIOUS
<1>1. PICK d : d = state[t]  OBVIOUS
<1>2. PICK q : q = Queue(d)  OBVIOUS
<1>3. PICK op : op = [kind |-> kind, key |-> key]  OBVIOUS
<1>4. PICK new : new = <<q, Len(log[q]) + 1>>  OBVIOUS
<1>5. /\ d # None /\ d \in Writers /\ Phase(d) = "active" /\ q \in DOMAIN log /\ op \in OpRec
      /\ op.kind \in {"add", "update"}
      /\ q = deleteQueue \/ (main.pc = "mark" /\ q = deleteQueue - 1 /\ Swapping)
  <2>1. d # None  BY <1>1, UpdateDocumentIs
  <2>2. d \in Writers /\ Phase(d) = "active"
        /\ (Queue(d) = deleteQueue \/ main.pc = "mark")
        /\ (Queue(d) = deleteQueue \/ (Swapping /\ Queue(d) = deleteQueue - 1))
    BY <1>1, <2>1, ThreadState
  <2>3. q \in DOMAIN log  BY <1>2, <2>2 DEF Inv, Refs
  <2>4. op \in OpRec /\ op.kind \in {"add", "update"}  BY <1>0, <1>3 DEF OpRec
  <2> QED  BY <1>2, <2>1, <2>2, <2>3, <2>4
<1>6. log' = [log EXCEPT ![q] = Append(log[q], op)]  BY <1>0, <1>1, <1>2, <1>3
<1>7. /\ log' \in Seq(Seq(OpRec)) /\ DOMAIN log' = DOMAIN log /\ deleteQueue' = deleteQueue
      /\ Len(log') > 0 /\ q \in Nat /\ Len(log[q]) \in Nat
      /\ Len(log'[q]) = Len(log[q]) + 1 /\ log'[q][Len(log[q]) + 1] = op
      /\ \A r \in DOMAIN log : r # q => log'[r] = log[r]
      /\ \A r \in DOMAIN log : \A n \in DOMAIN log[r] :
           n \in DOMAIN log'[r] /\ log'[r][n] = log[r][n]
      /\ new \in Places' /\ new \notin Places /\ new[1] = q /\ new[2] = Len(log[q]) + 1
      /\ \A x \in Places' : x \in Places \/ x = new
  BY <1>4, <1>5, <1>6, LogAppend
<1>8. /\ dwpts' \in Seq(DwptRec) /\ DOMAIN dwpts' = Writers
      /\ \A e \in Writers :
           /\ dwpts'[e].queue = dwpts[e].queue /\ dwpts'[e].upto = dwpts[e].upto
           /\ dwpts'[e].docs = IF e = d THEN dwpts[e].docs \cup {new} ELSE dwpts[e].docs
           /\ dwpts'[e].phase = IF e = d /\ flush THEN CheckOutPhase(e) ELSE Phase(e)
      /\ state' \in [Threads -> Nat]
      /\ \A u \in Threads : state'[u] = IF u = t /\ flush THEN None ELSE state[u]
  <2>1. /\ dwpts' \in Seq(DwptRec) /\ DOMAIN dwpts' = Writers /\ DocumentAdded(d, flush)
        /\ state' \in [Threads -> Nat]
        /\ \A u \in Threads : state'[u] = IF u = t /\ flush THEN None ELSE state[u]
    BY <1>1, UpdateDocumentIs
  <2>2. NewPlace(d) = new  BY <1>2, <1>4 DEF NewPlace
  <2> QED  BY <2>1, <2>2 DEF DocumentAdded
<1>9. CheckOutPhase(d) = (IF InFullFlush THEN "blocked" ELSE "pending")
  BY DEF CheckOutPhase, Inv, FullFlushOwn
<1>10. \A e \in Writers :
         \/ dwpts'[e].phase = Phase(e) /\ (e = d => ~flush)
         \/ /\ e = d /\ flush /\ Phase(e) = "active"
            /\ dwpts'[e].phase = IF InFullFlush THEN "blocked" ELSE "pending"
  BY <1>5, <1>8, <1>9
<1>11. LogGrows
  <2>1. \A r \in DOMAIN log : frozen[r] <= frozen'[r]  BY <1>0, LogTypes DEF Inv
  <2> QED  BY <1>0, <1>7, <2>1 DEF LogGrows
<1>12. \A e \in Writers :
         /\ dwpts'[e].phase \in Ticketed => dwpts'[e].phase = Phase(e) /\ e # d
         /\ Phase(e) \in Ticketed => dwpts'[e].phase = Phase(e) /\ e # d
         /\ dwpts'[e].phase = "empty" => Phase(e) = "empty" /\ e # d
         /\ dwpts'[e].phase = "active" => Phase(e) = "active" /\ (e = d => ~flush)
         /\ dwpts'[e].phase \in Waiting => Phase(e) \in Waiting
         /\ dwpts'[e].phase = "pending" => Phase(e) = "pending" \/ ~InFullFlush
  BY <1>5, <1>10 DEF Ticketed, Waiting
<1>13. FlushedStay  BY <1>8, <1>12 DEF FlushedStay
<1>14. TypeOK'
  <2>1. DOMAIN frozen = DOMAIN log'  BY <1>7 DEF Inv, TypeOK
  <2>2. flushPending' \subseteq Threads  BY <1>0 DEF Inv, TypeOK
  <2> QED  BY <1>0, <1>7, <1>8, <2>1, <2>2 DEF Inv, TypeOK
<1>15. Refs'
  <2>1. \A r \in DOMAIN log : frozen[r] <= Len(log'[r])
    <3> SUFFICES ASSUME NEW r \in DOMAIN log PROVE frozen[r] <= Len(log'[r])
      OBVIOUS
    <3>1. frozen[r] <= Len(log[r]) /\ frozen[r] \in Nat /\ Len(log[r]) \in Nat
      BY LogTypes DEF Inv, Refs
    <3>2. CASE r = q  BY <1>7, <3>1, <3>2
    <3>3. CASE r # q  BY <1>7, <3>1, <3>3
    <3> QED  BY <3>2, <3>3
  <2>2. \A u \in Threads : state'[u] \in Writers \cup {None}  BY <1>8 DEF Inv, Refs
  <2> QED  BY <1>0, <1>7, <1>8, <2>1, <2>2 DEF Inv, Refs, Writers, Queue
<1>16. Quiet
  <2>1. ~IsFrozen(new)'
    <3>1. frozen[q] <= Len(log[q]) /\ frozen[q] \in Nat  BY <1>5, LogTypes DEF Inv, Refs
    <3> QED  BY <1>0, <1>7, <3>1 DEF IsFrozen
  <2>2. \A x \in Places' : x \notin Places => ~IsFrozen(x)'  BY <1>7, <2>1
  <2>3. \A e \in Writers : dwpts'[e].phase = "flushed" => Phase(e) = "flushed"
    BY <1>12 DEF Ticketed
  <2> QED  BY <1>0, <1>8, <1>12, <2>2, <2>3 DEF Quiet
<1>17. Order'  BY <1>11, <1>13, <1>14, <1>16, QuietOrder
<1>18. DocsPlaced'
  <2>1. HasDocument(new)'
    <3>1. Op(new)' = op  BY <1>7 DEF Op
    <3> QED  BY <1>5, <3>1 DEF HasDocument
  <2>2. /\ \A x \in Places : x \in Places' /\ (HasDocument(x)' <=> HasDocument(x))
        /\ \A x \in Places' : x \in Places \/ x = new
    BY <1>7, <1>11, OpsStay
  <2>3. \A e \in Writers : \A x \in dwpts[e].docs :
          x \in Places /\ x[1] = Queue(e) /\ HasDocument(x)
    BY DEF Inv, DocsPlaced
  <2>4. \A e \in Writers : \A x \in dwpts'[e].docs :
          x \in Places' /\ x[1] = dwpts'[e].queue /\ HasDocument(x)'
    <3> SUFFICES ASSUME NEW e \in Writers, NEW x \in dwpts'[e].docs
                 PROVE  x \in Places' /\ x[1] = Queue(e) /\ HasDocument(x)'
      BY <1>8 DEF Queue
    <3>1. CASE x \in dwpts[e].docs  BY <2>2, <2>3, <3>1
    <3>2. CASE x \notin dwpts[e].docs
      <4>1. e = d /\ x = new  BY <1>8, <3>2
      <4> QED  BY <1>2, <1>7, <2>1, <4>1
    <3> QED  BY <3>1, <3>2
  <2>5. \A e, f \in Writers : e = f \/ dwpts'[e].docs \cap dwpts'[f].docs = {}
    <3> SUFFICES ASSUME NEW e \in Writers, NEW f \in Writers, e # f,
                        NEW x, x \in dwpts'[e].docs, x \in dwpts'[f].docs
                 PROVE  FALSE
      BY Zenon
    <3>1. CASE x = new
      <4>1. x \notin dwpts[e].docs /\ x \notin dwpts[f].docs  BY <1>7, <2>3, <3>1
      <4> QED  BY <1>8, <4>1
    <3>2. CASE x # new
      <4>1. x \in dwpts[e].docs /\ x \in dwpts[f].docs  BY <1>8, <3>2
      <4>2. dwpts[e].docs \cap dwpts[f].docs = {}  BY DEF Inv, DocsPlaced
      <4> QED  BY <4>1, <4>2
    <3> QED  BY <3>1, <3>2
  <2>6. \A x \in Places' : HasDocument(x)' => \E e \in Writers : x \in dwpts'[e].docs
    <3> SUFFICES ASSUME NEW x \in Places', HasDocument(x)'
                 PROVE  \E e \in Writers : x \in dwpts'[e].docs
      OBVIOUS
    <3>1. CASE x = new
      <4>1. x \in dwpts'[d].docs  BY <1>5, <1>8, <3>1
      <4> QED  BY <1>5, <4>1
    <3>2. CASE x # new
      <4>1. x \in Places /\ HasDocument(x)  BY <2>2, <3>2
      <4>2. PICK e \in Writers : x \in dwpts[e].docs  BY <4>1 DEF Inv, DocsPlaced
      <4> QED  BY <1>8, <4>2
    <3> QED  BY <3>1, <3>2
  <2>7. \A e \in Writers : dwpts'[e].phase = "empty" => dwpts'[e].docs = {}
    BY <1>8, <1>12 DEF Inv, DocsPlaced
  <2> QED  BY <1>8, <2>4, <2>5, <2>6, <2>7 DEF DocsPlaced, Writers, Phase, Queue
<1>19. DocsCovered'
  <2>1. \A e \in DOMAIN dwpts' :
          dwpts'[e].phase \in Ticketed => e \in Writers /\ Phase(e) \in Ticketed
    BY <1>8, <1>12
  <2> QED  BY <1>11, <1>13, <1>14, <1>15, <2>1, DocsCoveredStays
<1>20. TicketsOwn'
  <2>1. \A e \in DOMAIN dwpts' :
          /\ dwpts'[e].phase \in Ticketed => e \in Writers /\ Phase(e) \in Ticketed
          /\ dwpts'[e].phase = "failed" => Phase(e) = "failed" \/ tragedy'
    BY <1>8, <1>12 DEF Ticketed
  <2> QED  BY <1>0, <1>13, <2>1, TicketsOwnStays
<1>21. StreamOwns'  BY <1>0, <1>13, StreamOwnsStays
<1>22. ThreadsOwn'
  <2>1. \A u \in Threads : u # t /\ state[u] # None => state[u] # d
    BY <1>1 DEF Inv, ThreadsOwn
  <2>2. \A u \in Threads : state'[u] # None => dwpts'[state'[u]].phase = "active"
    <3> SUFFICES ASSUME NEW u \in Threads, state'[u] # None
                 PROVE  dwpts'[state'[u]].phase = "active"
      OBVIOUS
    <3>1. state'[u] = state[u] /\ state[u] # None /\ ~(u = t /\ flush)  BY <1>8
    <3>2. state[u] \in Writers /\ Phase(state[u]) = "active"  BY <3>1, ThreadState
    <3>3. ~(state[u] = d /\ flush)  BY <2>1, <3>1
    <3> QED  BY <1>8, <3>1, <3>2, <3>3
  <2>3. \A u, v \in Threads : state'[u] = state'[v] /\ state'[u] # None => u = v
    BY <1>8 DEF Inv, ThreadsOwn
  <2>4. \A e \in Writers : dwpts'[e].phase = "active" => \E u \in Threads : state'[u] = e
    <3> SUFFICES ASSUME NEW e \in Writers, dwpts'[e].phase = "active"
                 PROVE  \E u \in Threads : state'[u] = e
      OBVIOUS
    <3>1. PICK u \in Threads : state[u] = e  BY <1>12 DEF Inv, ThreadsOwn
    <3>2. ~(u = t /\ flush)  BY <1>1, <1>12, <3>1
    <3> QED  BY <1>8, <3>1, <3>2
  <2>5. \A u \in locked' \cup flushPending' : state'[u] # None
    <3>1. \A u \in locked' \cup flushPending' : u \in Threads /\ u # t
      BY <1>0 DEF Inv, TypeOK
    <3>2. \A u \in locked \cup flushPending \cup (marks \ {t}) : state[u] # None
      BY <1>0 DEF Inv, ThreadsOwn, MayMark
    <3> QED  BY <1>0, <1>8, <3>1, <3>2
  <2> QED  BY <1>8, <2>2, <2>3, <2>4, <2>5 DEF ThreadsOwn, Writers, Phase
<1>23. FullFlushOwn'
  <2>1. \A e \in Writers : InFullFlush /\ ~overtaken =>
          /\ dwpts'[e].phase = "pending" => Queue(e) < deleteQueue /\ Swapping
          /\ dwpts'[e].phase \in Ticketed => Queue(e) < deleteQueue
          /\ dwpts'[e].phase = "ticket" => Swapping
    BY <1>12 DEF Inv, FullFlushOwn, Ticketed
  <2> QED
    BY <1>0, <1>7, <1>8, <2>1 DEF Inv, FullFlushOwn, InFullFlush, Swapping, Writers, Phase, Queue
<1>24. OldQueueFlushed'
  <2>1. \A u \in Threads : state'[u] # None =>
          /\ state'[u] = state[u] /\ state[u] # None
          /\ dwpts'[state[u]].queue = Queue(state[u])
    BY <1>8 DEF Inv, Refs, Queue
  <2>2. \A e \in Writers : main.pc = "help" /\ dwpts'[e].phase \in Waiting /\ Queue(e) < deleteQueue
          => dwpts'[e].phase = "pending"
    <3> SUFFICES ASSUME NEW e \in Writers, main.pc = "help", dwpts'[e].phase \in Waiting,
                        Queue(e) < deleteQueue
                 PROVE  dwpts'[e].phase = "pending"
      OBVIOUS
    <3>1. Phase(e) = "pending"  BY <1>12 DEF Inv, OldQueueFlushed
    <3> QED  BY <1>10, <3>1
  <2>3. \A e \in Writers : dwpts'[e].phase \in Waiting =>
          Queue(e) = deleteQueue \/ (Swapping /\ Queue(e) = deleteQueue - 1)
    BY <1>12 DEF Inv, OldQueueFlushed
  <2>4. \A u \in Threads : state'[u] # None =>
          dwpts'[state'[u]].queue = deleteQueue \/ (main.pc = "mark" /\ u \notin main.marked)
    BY <2>1 DEF Inv, OldQueueFlushed
  <2>5. \A e \in Writers : dwpts'[e].queue = Queue(e)  BY <1>8 DEF Queue
  <2> QED
    BY <1>0, <1>7, <1>8, <2>2, <2>3, <2>4, <2>5
       DEF OldQueueFlushed, Swapping, Writers, Phase, Queue
<1>25. QueuesFrozen' /\ Reported' /\ CommitOld' /\ CommitIsPrefix'
  BY <1>0, <1>5, <1>6, <1>11, <1>14, AppendKeeps
<1>26. Flushed'
  <2>1. main'.pc = "waitApply" =>
          /\ main.pc = "waitApply" /\ main'.waitFor = main.waitFor /\ deleteQueue' = deleteQueue
          /\ \A x \in Places' : x \notin Places => x[1] = deleteQueue
    BY <1>0, <1>5, <1>7
  <2> QED  BY <1>0, <1>11, <1>13, <1>14, <2>1, NothingLeftStays
<1> QED
  BY <1>14, <1>15, <1>17, <1>18, <1>19, <1>20, <1>21, <1>22, <1>23, <1>24, <1>25, <1>26 DEF Inv

LEMMA ApplyDeleteOrUpdateStep ==
  ASSUME Inv, NEW kind \in Kinds, NEW key \in Keys, NEW apply \in BOOLEAN,
         ApplyDeleteOrUpdate(kind, key, apply)
  PROVE  Inv'
<1>1. PICK q : q = deleteQueue  OBVIOUS
<1>2. PICK op : op = [kind |-> kind, key |-> key]  OBVIOUS
<1>3. PICK new : new = <<q, Len(log[q]) + 1>>  OBVIOUS
<1>4. PICK freeze \in BOOLEAN : freeze <=> (apply /\ MayApply)  OBVIOUS
<1>5. PICK K : K = GlobalDeletes(q) \cup {key}  OBVIOUS
<1>0. /\ dwpts' = dwpts /\ state' = state /\ locked' = locked /\ applying' = applying
      /\ markVars' = markVars /\ overtaken' = overtaken
      /\ purgeLock' = purgeLock /\ segmentInfos' = segmentInfos /\ updates' = updates
      /\ nextGen' = nextGen /\ fullFlush' = fullFlush /\ main' = main /\ commit' = commit
      /\ pendingChangesInCurrentFullFlush' = pendingChangesInCurrentFullFlush
      /\ tragedy' = tragedy /\ kind \in {"delete", "deleteQuery"}
      /\ log' = [log EXCEPT ![q] = Append(log[q], op)]
      /\ freeze => /\ tickets' = Append(tickets, [keys |-> K, dwpt |-> None])
                   /\ frozen' = [frozen EXCEPT ![q] = Len(log[q]) + 1]
      /\ ~freeze => tickets' = tickets /\ frozen' = frozen
      /\ freeze => ~InFullFlush
  BY <1>1, <1>2, <1>4, <1>5
     DEF ApplyDeleteOrUpdate, markVars, streamVars, fullFlushVars, MayApply, Inv, FullFlushOwn
<1>6. /\ q \in DOMAIN log /\ op \in OpRec /\ op.kind \in {"delete", "deleteQuery"}
      /\ op.key = key /\ deleteQueue \in Nat
      /\ Len(log[q]) \in Nat /\ frozen[q] \in Nat /\ frozen[q] <= Len(log[q])
      /\ DOMAIN log[q] = 1 .. Len(log[q])
  BY <1>0, <1>1, <1>2, LogTypes DEF Inv, Refs, OpRec, deleteQueue
<1>7. /\ log' \in Seq(Seq(OpRec)) /\ DOMAIN log' = DOMAIN log /\ deleteQueue' = deleteQueue
      /\ Len(log') > 0 /\ q \in Nat /\ DOMAIN log'[q] = 1 .. Len(log[q]) + 1
      /\ Len(log'[q]) = Len(log[q]) + 1 /\ log'[q][Len(log[q]) + 1] = op
      /\ \A r \in DOMAIN log : r # q => log'[r] = log[r]
      /\ \A r \in DOMAIN log : \A n \in DOMAIN log[r] :
           n \in DOMAIN log'[r] /\ log'[r][n] = log[r][n]
      /\ new \in Places' /\ new \notin Places /\ new[1] = q /\ new[2] = Len(log[q]) + 1
      /\ \A x \in Places' : x \in Places \/ x = new
  BY <1>0, <1>3, <1>6, LogAppend
<1>8. /\ frozen' \in [DOMAIN log -> Nat]
      /\ \A r \in DOMAIN log : frozen'[r] = IF freeze /\ r = q THEN Len(log[q]) + 1 ELSE frozen[r]
  <2>1. frozen \in [DOMAIN log -> Nat]  BY DEF Inv, TypeOK
  <2>2. CASE freeze  BY <1>0, <1>6, <2>1, <2>2
  <2>3. CASE ~freeze  BY <1>0, <2>1, <2>3
  <2> QED  BY <2>2, <2>3
<1>9. LogGrows
  <2>1. \A r \in DOMAIN log : frozen[r] <= frozen'[r]  BY <1>6, <1>8, LogTypes DEF Inv
  <2> QED  BY <1>0, <1>7, <2>1 DEF LogGrows
<1>10. /\ FlushedStay /\ DocsStay /\ DOMAIN dwpts' = Writers
       /\ \A e \in DOMAIN dwpts' :
            /\ e \in Writers /\ dwpts'[e].phase = Phase(e)
            /\ dwpts'[e].phase = "empty" => dwpts'[e].docs = {}
  BY <1>0 DEF FlushedStay, DocsStay, Writers, Phase, Inv, DocsPlaced
<1>11. \A x \in Places' : x \notin Places => x[1] = q /\ ~HasDocument(x)'
  <2>1. Op(new)' = op  BY <1>7 DEF Op
  <2>2. ~HasDocument(new)'  BY <1>6, <2>1 DEF HasDocument
  <2> QED  BY <1>7, <2>2
<1>12. \A r \in DOMAIN log : frozen'[r] <= Len(log'[r])
  <2> SUFFICES ASSUME NEW r \in DOMAIN log PROVE frozen'[r] <= Len(log'[r])
    OBVIOUS
  <2>1. frozen[r] <= Len(log[r]) /\ frozen[r] \in Nat /\ Len(log[r]) \in Nat
    BY LogTypes DEF Inv, Refs
  <2>2. CASE r = q
    <3>1. frozen'[q] = (IF freeze THEN Len(log[q]) + 1 ELSE frozen[q])  BY <1>6, <1>8
    <3>2. Len(log'[q]) = Len(log[q]) + 1  BY <1>7
    <3> QED  BY <2>1, <2>2, <3>1, <3>2
  <2>3. CASE r # q  BY <1>7, <1>8, <2>1, <2>3
  <2> QED  BY <2>2, <2>3
<1>13. /\ K \in SUBSET Keys
       /\ \A n \in DOMAIN log'[q] :
            n > frozen[q] /\ log'[q][n].kind # "add" => log'[q][n].key \in K
       /\ \A k \in K : \E n \in DOMAIN log'[q] :
            n > frozen[q] /\ log'[q][n].kind # "add" /\ log'[q][n].key = k
  <2>1. PICK G : G = GlobalDeletes(q)  OBVIOUS
  <2>2. /\ G \in SUBSET Keys
        /\ \A n \in DOMAIN log[q] :
             n > frozen[q] /\ log[q][n].kind # "add" => log[q][n].key \in G
        /\ \A k \in G : \E n \in DOMAIN log[q] :
             n > frozen[q] /\ log[q][n].kind # "add" /\ log[q][n].key = k
    BY <1>6, <2>1, GlobalDeletesAre
  <2>3. \A k : k \in K <=> k \in G \/ k = key  BY <1>5, <2>1
  <2>4. ASSUME NEW n \in DOMAIN log'[q], n > frozen[q], log'[q][n].kind # "add"
        PROVE  log'[q][n].key \in K
    <3>1. CASE n = Len(log[q]) + 1  BY <1>6, <1>7, <2>3, <3>1
    <3>2. CASE n # Len(log[q]) + 1
      <4>0. n \in 1 .. Len(log[q]) + 1  BY <1>7
      <4>1. n \in DOMAIN log[q]  BY <1>6, <3>2, <4>0
      <4> QED  BY <1>6, <1>7, <2>2, <2>3, <2>4, <4>1
    <3> QED  BY <3>1, <3>2
  <2>5. ASSUME NEW k \in K
        PROVE  \E n \in DOMAIN log'[q] :
                 n > frozen[q] /\ log'[q][n].kind # "add" /\ log'[q][n].key = k
    <3>1. CASE k \in G
      <4>1. PICK n \in DOMAIN log[q] :
               n > frozen[q] /\ log[q][n].kind # "add" /\ log[q][n].key = k
        BY <2>2, <3>1
      <4>2. n \in DOMAIN log'[q] /\ log'[q][n] = log[q][n]  BY <1>6, <1>7
      <4> QED  BY <4>1, <4>2
    <3>2. CASE k = key
      <4>1. PICK n : n = Len(log[q]) + 1  OBVIOUS
      <4>2. n \in DOMAIN log'[q] /\ n > frozen[q] /\ log'[q][n] = op  BY <1>6, <1>7, <4>1
      <4> QED  BY <1>6, <3>2, <4>2
    <3> QED  BY <2>3, <3>1, <3>2
  <2>6. K \in SUBSET Keys  BY <2>2, <2>3
  <2> QED  BY <2>4, <2>5, <2>6
<1>14. /\ TypeOK' /\ Refs' /\ DocsPlaced' /\ DocsCovered' /\ TicketsOwn' /\ StreamOwns'
       /\ Order'
  <2>1. CASE freeze
    <3>1. /\ tickets' = Append(tickets, [keys |-> K, dwpt |-> None]) /\ None \in Nat
      BY <1>0, <2>1 DEF None
    <3>2. Freezes(q, None, K)
      <4>1. \A r \in DOMAIN log : frozen'[r] = IF r = q THEN Len(log'[q]) ELSE frozen[r]
        BY <1>7, <1>8, <2>1
      <4>2. \A e \in DOMAIN dwpts' : dwpts'[e].phase \in Ticketed =>
              e \in Writers /\ (e = None \/ Phase(e) \in Ticketed)
        BY <1>10
      <4>3. \A e \in Writers : dwpts'[e].phase = "flushed" => Phase(e) = "flushed"
        BY <1>10
      <4> QED  BY <1>0, <1>1, <1>6, <1>7, <1>11, <1>13, <3>1, <4>1, <4>2, <4>3 DEF Freezes
    <3>3. tickets' \in Seq(TicketType)
          /\ \A i \in DOMAIN tickets' :
               tickets'[i].dwpt = None \/ (i \in DOMAIN tickets /\ tickets'[i] = tickets[i])
      <4>1. /\ DOMAIN tickets = 1 .. Len(tickets) /\ Len(tickets) \in Nat
            /\ DOMAIN tickets' = 1 .. Len(tickets) + 1
            /\ \A i \in DOMAIN tickets : tickets'[i] = tickets[i]
            /\ tickets'[Len(tickets) + 1].keys = K /\ tickets'[Len(tickets) + 1].dwpt = None
            /\ tickets' \in Seq(TicketType)
        BY <1>13, <3>1, FreezeTickets
      <4>2. \A i \in DOMAIN tickets' : i \in DOMAIN tickets \/ i = Len(tickets) + 1  BY <4>1
      <4> QED  BY <4>1, <4>2
    <3>4. TypeOK'  BY <1>0, <1>7, <1>8, <3>3 DEF Inv, TypeOK, markVars, TicketType
    <3>5. Refs'
      <4>1. \A i \in DOMAIN tickets' : tickets'[i].dwpt \in Writers \cup {None}
        BY <3>3 DEF Inv, Refs
      <4> QED  BY <1>0, <1>7, <1>12, <4>1 DEF Inv, Refs, Writers, Queue
    <3>6. DocsPlaced' /\ DocsCovered' /\ TicketsOwn' /\ StreamOwns' /\ Order'
      BY <1>0, <1>9, <1>10, <1>11, <1>13, <3>2, <3>4, <3>5, FreezeKeeps
    <3> QED  BY <3>4, <3>5, <3>6
  <2>2. CASE ~freeze
    <3>1. tickets' = tickets /\ frozen' = frozen  BY <1>0, <2>2
    <3>2. TypeOK'  BY <1>0, <1>7, <1>8, <3>1 DEF Inv, TypeOK, markVars
    <3>3. Refs'  BY <1>0, <1>7, <1>12, <3>1 DEF Inv, Refs, Writers, Queue
    <3>4. DocsPlaced'  BY <1>9, <1>10, <1>11, DocsPlacedStays
    <3>5. DocsCovered'  BY <1>9, <1>10, <3>2, <3>3, DocsCoveredStays
    <3>6. TicketsOwn'  BY <1>0, <1>10, <3>1, TicketsOwnStays
    <3>7. StreamOwns'  BY <1>0, <1>10, <3>1, StreamOwnsStays
    <3>8. Quiet
      <4>1. ~IsFrozen(new)'  BY <1>6, <1>7, <3>1 DEF IsFrozen
      <4> QED  BY <1>0, <1>7, <1>10, <3>1, <4>1 DEF Quiet
    <3>9. Order'  BY <1>9, <1>10, <3>2, <3>8, QuietOrder
    <3> QED  BY <3>2, <3>3, <3>4, <3>5, <3>6, <3>7, <3>9
  <2> QED  BY <2>1, <2>2
<1>15. ThreadsOwn'  BY <1>0, SameThreadsKeep DEF markVars
<1>16. FullFlushOwn'
  <2>1. InFullFlush => frozen'[deleteQueue] = frozen[deleteQueue]
    BY <1>0, <1>1, <1>6, <1>8
  <2> QED
    BY <1>0, <1>7, <2>1 DEF Inv, FullFlushOwn, InFullFlush, Swapping, Writers, Phase, Queue
<1>17. OldQueueFlushed'
  BY <1>0, <1>7 DEF Inv, OldQueueFlushed, Swapping, Writers, Phase, Queue
<1>18. QueuesFrozen' /\ Reported' /\ CommitOld' /\ CommitIsPrefix'
  <2>1. \A r \in DOMAIN log : r < deleteQueue => frozen'[r] = frozen[r]
    BY <1>1, <1>6, <1>8, LogTypes DEF Inv
  <2> QED  BY <1>0, <1>1, <1>6, <1>9, <1>14, <2>1, AppendKeeps
<1>19. Flushed'
  <2>1. main.pc = "waitApply" => ~freeze  BY <1>0 DEF InFullFlush
  <2>2. CASE main.pc = "waitApply"
    BY <1>0, <1>1, <1>7, <1>9, <1>10, <1>11, <1>14, <2>1, <2>2, NothingLeftStays
  <2>3. CASE main.pc # "waitApply"  BY <1>0, <2>3 DEF Flushed
  <2> QED  BY <2>2, <2>3
<1> QED  BY <1>14, <1>15, <1>16, <1>17, <1>18, <1>19 DEF Inv
------------------------------------------------------------------------------
(* The swap of the queues.                                                 *)

LEMMA QueuesSwapped ==
  ASSUME Inv, log' = Append(log, <<>>), frozen' = Append(frozen, 0), overtaken' = overtaken
  PROVE  /\ log' \in Seq(Seq(OpRec)) /\ deleteQueue' = deleteQueue + 1 /\ deleteQueue \in Nat
         /\ DOMAIN log' = 1 .. deleteQueue + 1 /\ DOMAIN log = 1 .. deleteQueue
         /\ Len(log') > 0 /\ frozen' \in [DOMAIN log' -> Nat]
         /\ \A r \in DOMAIN log : log'[r] = log[r] /\ frozen'[r] = frozen[r]
         /\ Len(log'[deleteQueue + 1]) = 0 /\ frozen'[deleteQueue + 1] = 0
         /\ Places' = Places /\ LogGrows
<1>1. PICK S : S = <<>>  OBVIOUS
<1>2. S \in Seq(OpRec) /\ Len(S) = 0 /\ DOMAIN S = 1 .. 0  BY <1>1
<1>3. log \in Seq(Seq(OpRec)) /\ log' = Append(log, S) /\ frozen \in [DOMAIN log -> Nat]
  BY <1>1 DEF Inv, TypeOK
<1>4. /\ log' \in Seq(Seq(OpRec)) /\ Len(log') = Len(log) + 1
      /\ DOMAIN log' = 1 .. Len(log) + 1 /\ DOMAIN log = 1 .. Len(log) /\ Len(log) \in Nat
      /\ log'[Len(log) + 1] = S /\ \A r \in 1 .. Len(log) : log'[r] = log[r]
  BY <1>2, <1>3, AppendIs
<1>5. frozen \in Seq(Nat) /\ Len(frozen) = Len(log)
  <2>1. frozen \in [1 .. Len(log) -> Nat]  BY <1>3, <1>4
  <2>0. Len(log) \in Nat  BY <1>4
  <2>2. frozen \in Seq(Nat)  BY <2>0, <2>1, SeqDef
  <2>3. DOMAIN frozen = 1 .. Len(log)  BY <2>1
  <2>4. Len(frozen) = Len(log)  BY <1>4, <2>2, <2>3, LenProperties
  <2> QED  BY <2>2, <2>4
<1>6. /\ frozen' \in Seq(Nat) /\ DOMAIN frozen' = 1 .. Len(log) + 1
      /\ frozen'[Len(log) + 1] = 0 /\ \A r \in 1 .. Len(log) : frozen'[r] = frozen[r]
  <2>1. 0 \in Nat  OBVIOUS
  <2> QED  BY <1>5, <2>1, AppendIs
<1>7. frozen' \in [DOMAIN log' -> Nat]
  <2>1. frozen' \in [1 .. Len(frozen') -> Nat]  BY <1>6, LenProperties
  <2>2. 1 .. Len(frozen') = DOMAIN log'  BY <1>4, <1>6, <2>1
  <2> QED  BY <2>1, <2>2
<1>8. LogGrows
  <2>1. \A r \in DOMAIN log : frozen[r] <= frozen'[r]
    BY <1>4, <1>6, LogTypes DEF Inv
  <2>2. \A r \in DOMAIN log : r \in DOMAIN log' /\ log'[r] = log[r]  BY <1>4
  <2> QED  BY <2>1, <2>2 DEF LogGrows
<1>9. Places' = Places
  <2>1. ASSUME NEW x \in Places' PROVE x \in Places
    <3>1. x = <<x[1], x[2]>> /\ x[1] \in DOMAIN log' /\ x[2] \in DOMAIN log'[x[1]]
      BY PlaceIsNext
    <3>2. x[1] # Len(log) + 1
      <4> SUFFICES ASSUME x[1] = Len(log) + 1 PROVE FALSE
        OBVIOUS
      <4>1. x[2] \in 1 .. 0  BY <1>2, <1>4, <3>1
      <4> QED  BY <4>1
    <3>3. x[1] \in DOMAIN log /\ x[2] \in DOMAIN log[x[1]]  BY <1>4, <3>1, <3>2
    <3> QED  BY <3>1, <3>3, PlaceIs
  <2>2. Places \subseteq Places'  BY <1>8, OpsStay
  <2> QED  BY <2>1, <2>2
<1> QED  BY <1>2, <1>4, <1>6, <1>7, <1>8, <1>9 DEF deleteQueue

LEMMA FlushAllThreadsStep == ASSUME Inv, FlushAllThreads PROVE Inv'
<1>0. /\ dwpts' = dwpts /\ state' = state /\ locked' = locked /\ applying' = applying
      /\ markVars' = markVars /\ overtaken' = overtaken
      /\ purgeLock' = purgeLock /\ segmentInfos' = segmentInfos /\ updates' = updates
      /\ nextGen' = nextGen /\ fullFlush' = TRUE /\ commit' = commit /\ tickets' = tickets
      /\ pendingChangesInCurrentFullFlush' = anyChanges
      /\ tragedy' = tragedy /\ main.pc = "idle" /\ main' = [MainIdle EXCEPT !.pc = "mark"]
      /\ log' = Append(log, <<>>) /\ frozen' = Append(frozen, 0)
  BY DEF FlushAllThreads, PendingChanges, NewQueue, markVars, streamVars
<1>1. PICK q : q = deleteQueue  OBVIOUS
<1>2. /\ log' \in Seq(Seq(OpRec)) /\ deleteQueue' = q + 1 /\ q \in Nat /\ q > 0
      /\ DOMAIN log' = 1 .. q + 1 /\ DOMAIN log = 1 .. q
      /\ Len(log') > 0 /\ frozen' \in [DOMAIN log' -> Nat]
      /\ \A r \in DOMAIN log : log'[r] = log[r] /\ frozen'[r] = frozen[r]
      /\ Len(log'[q + 1]) = 0 /\ frozen'[q + 1] = 0
      /\ Places' = Places /\ LogGrows
  <2>1. deleteQueue > 0  BY DEF Inv, TypeOK, deleteQueue
  <2> QED  BY <1>0, <1>1, <2>1, QueuesSwapped
<1>3. ~InFullFlush /\ ~Swapping /\ Swapping' /\ InFullFlush' /\ main'.pc = "mark"
      /\ main'.marked = {} /\ ~main'.anythingFlushed /\ main' \in MainType
  <2>1. {} \in SUBSET Threads /\ {} \in SUBSET Packet  OBVIOUS
  <2> QED  BY <1>0, <2>1 DEF InFullFlush, Swapping, MainIdle, MainType
<1>4. anyChanges \in BOOLEAN
  BY Zenon DEF anyChanges, anyChangesIn, Inv, TypeOK
<1>5. TypeOK'  BY <1>0, <1>2, <1>3, <1>4 DEF Inv, TypeOK, markVars, MainType
<1>6. Refs'
  <2>1. \A r \in DOMAIN log' : frozen'[r] <= Len(log'[r])
    <3> SUFFICES ASSUME NEW r \in DOMAIN log' PROVE frozen'[r] <= Len(log'[r])
      OBVIOUS
    <3>1. CASE r \in DOMAIN log  BY <1>2, <3>1 DEF Inv, Refs
    <3>2. CASE r = q + 1  BY <1>2, <3>2
    <3> QED  BY <1>2, <3>1, <3>2
  <2>2. \A e \in Writers : Queue(e) \in DOMAIN log'  BY <1>2 DEF Inv, Refs
  <2>3. \A t \in Threads : state[t] \in Writers \cup {None} /\ applying[t] <= deleteQueue'
    <3>1. \A t \in Threads : applying[t] \in Nat /\ applying[t] <= q
      BY <1>1 DEF Inv, TypeOK, Refs
    <3> QED  BY <1>2, <3>1 DEF Inv, Refs
  <2> QED  BY <1>0, <2>1, <2>2, <2>3 DEF Inv, Refs, Writers, Queue
<1>7. /\ FlushedStay /\ DocsStay /\ DOMAIN dwpts' = Writers
      /\ \A e \in DOMAIN dwpts' :
           /\ e \in Writers /\ dwpts'[e].phase = Phase(e)
           /\ dwpts'[e].phase = "empty" => dwpts'[e].docs = {}
  BY <1>0 DEF FlushedStay, DocsStay, Writers, Phase, Inv, DocsPlaced
<1>8. DocsPlaced'  BY <1>2, <1>7, DocsPlacedStays
<1>9. DocsCovered'  BY <1>2, <1>5, <1>6, <1>7, DocsCoveredStays
<1>10. TicketsOwn'  BY <1>0, <1>7, TicketsOwnStays
<1>11. StreamOwns'  BY <1>0, <1>7, StreamOwnsStays
<1>12. Order'
  <2>1. Quiet  BY <1>0, <1>2, <1>7 DEF Quiet
  <2> QED  BY <1>2, <1>5, <1>7, <2>1, QuietOrder
<1>13. ThreadsOwn'  BY <1>0, SameThreadsKeep DEF markVars
<1>14. FullFlushOwn'
  <2>1. \A t \in Threads : applying[t] < q + 1
    <3>1. \A t \in Threads : applying[t] \in Nat /\ applying[t] <= q
      BY <1>1 DEF Inv, TypeOK, Refs
    <3> QED  BY <1>2, <3>1
  <2>2. \A e \in Writers : Queue(e) < q + 1  BY <1>2 DEF Inv, Refs
  <2> QED  BY <1>0, <1>2, <1>3, <2>1, <2>2 DEF FullFlushOwn, Writers, Queue
<1>15. OldQueueFlushed'
  <2>1. \A e \in Writers : Phase(e) \in Waiting => Queue(e) = (q + 1) - 1
    BY <1>1, <1>2, <1>3 DEF Inv, OldQueueFlushed
  <2> QED  BY <1>0, <1>2, <1>3, <2>1 DEF OldQueueFlushed, Writers, Phase, Queue
<1>16. \A r \in DOMAIN log : AllFrozen(r)' <=> AllFrozen(r)
  BY <1>2 DEF AllFrozen, Deletes, Op
<1>17. QueuesFrozen'
  <2>1. ASSUME NEW r \in DOMAIN log', r < (q + 1) - 1 PROVE AllFrozen(r)'
    <3>0. r \in 1 .. q + 1 /\ DOMAIN log = 1 .. q /\ q \in Nat  BY <1>2
    <3>1. r \in DOMAIN log /\ (r < q - 1 \/ (r = q - 1 /\ q > 1))  BY <2>1, <3>0
    <3>2. AllFrozen(r)  BY <1>1, <1>3, <3>1 DEF Inv, QueuesFrozen
    <3> QED  BY <1>16, <3>1, <3>2
  <2> QED  BY <1>2, <1>3, <2>1 DEF QueuesFrozen
<1>18. Reported'
  <2> SUFFICES ASSUME NEW n \in DOMAIN log'[q], log'[q][n].kind \notin {"add", "update"},
                      n > frozen'[q]
               PROVE  anyChanges
    <3>1. (q + 1) - 1 = q  BY <1>2
    <3> QED  BY <1>0, <1>2, <3>1 DEF Reported, HasDocument, Op
  <2>0. q \in DOMAIN log
    <3>1. q \in Nat /\ q > 0 /\ DOMAIN log = 1 .. q  BY <1>2
    <3> QED  BY <3>1
  <2>1. q \in DOMAIN log /\ log'[q] = log[q] /\ frozen'[q] = frozen[q]  BY <1>2, <2>0
  <2>2. log[q][n].key \in GlobalDeletes(q)  BY <2>1, GlobalDeletesAre
  <2> QED  BY <1>1, <2>2 DEF anyChanges, anyChangesIn
<1>19. CommitOld'
  <2>1. commit.queue < (q + 1) - 1 /\ commit.queue < q + 1
    <3>1. commit.queue < q /\ commit.queue \in Nat  BY <1>1 DEF Inv, CommitOld, TypeOK
    <3> QED  BY <1>2, <3>1
  <2> QED  BY <1>0, <1>2, <2>1 DEF CommitOld
<1>20. CommitIsPrefix'  BY <1>0, <1>2, <1>5, CommitStays
<1>21. Flushed'  BY <1>3 DEF Flushed
<1> QED
  BY <1>5, <1>6, <1>8, <1>9, <1>10, <1>11, <1>12, <1>13, <1>14, <1>15, <1>17, <1>18, <1>19,
     <1>20, <1>21 DEF Inv
------------------------------------------------------------------------------
(* The invariant holds.                                                    *)

LEMMA InitInv == ASSUME Init PROVE Inv
<1>0. /\ Len(log) = 1 /\ DOMAIN log = 1 .. 1 /\ log \in Seq(Seq(OpRec))
      /\ Len(log[1]) = 0 /\ DOMAIN log[1] = 1 .. 0 /\ deleteQueue = 1
      /\ frozen \in [DOMAIN log -> Nat] /\ frozen[1] = 0
  <2>1. PICK S : S = <<>>  OBVIOUS
  <2>2. S \in Seq(OpRec) /\ Len(S) = 0 /\ DOMAIN S = 1 .. 0  BY <2>1
  <2>3. log = <<S>>  BY <2>1 DEF Init
  <2>4. /\ Len(log) = 1 /\ DOMAIN log = 1 .. 1 /\ log \in Seq(Seq(OpRec)) /\ log[1] = S
    BY <2>2, <2>3
  <2>5. frozen = <<0>>  BY DEF Init
  <2> QED  BY <2>2, <2>4, <2>5 DEF deleteQueue
<1>1. /\ \A d \in Writers : FALSE
      /\ \A i \in DOMAIN tickets : FALSE
      /\ dwpts \in Seq(DwptRec) /\ tickets \in Seq(TicketType)
  BY DEF Init, Writers
<1>2. main \in MainType /\ main.pc = "idle" /\ ~InFullFlush /\ ~Swapping
  <2>1. {} \in SUBSET Threads /\ {} \in SUBSET Packet  OBVIOUS
  <2> QED  BY <2>1 DEF Init, MainIdle, MainType, InFullFlush, Swapping
<1>3. commit \in [queue : Nat, docs : SUBSET (Nat \X Nat)] /\ commit.queue = 0
      /\ \A x : x \notin commit.docs
  <2>1. PICK S : S \in SUBSET (Nat \X Nat) /\ S = {}  OBVIOUS
  <2>2. commit = [queue |-> 0, docs |-> S]  BY <2>1 DEF Init
  <2>3. \A x : x \notin S  BY <2>1
  <2> QED  BY <2>1, <2>2, <2>3
<1>4. /\ \A s \in segmentInfos : FALSE
      /\ \A p \in updates : FALSE
  BY DEF Init
<1>5. /\ state \in [Threads -> Nat] /\ \A t \in Threads : state[t] = None /\ applying[t] = 0
      /\ applying \in [Threads -> Nat]
  BY DEF Init, None
<1>6. TypeOK
  <2>1. locked \subseteq Threads /\ nextGen \in Nat /\ purgeLock \in {"free", "helper", "main"}
        /\ fullFlush \in BOOLEAN /\ pendingChangesInCurrentFullFlush \in BOOLEAN
        /\ tragedy \in BOOLEAN /\ flushPending \subseteq Threads
        /\ scanning \in BOOLEAN /\ overtaken \in BOOLEAN
    BY DEF Init
  <2> QED  BY <1>0, <1>1, <1>2, <1>3, <1>4, <1>5, <2>1 DEF TypeOK, TicketType, MainType
<1>7. \A x \in Places : FALSE
  <2> SUFFICES ASSUME NEW x \in Places PROVE FALSE
    OBVIOUS
  <2>1. x[1] \in DOMAIN log /\ x[2] \in DOMAIN log[x[1]]  BY PlaceIs
  <2>2. x[1] = 1  BY <1>0, <2>1
  <2>3. x[2] \in 1 .. 0  BY <1>0, <2>1, <2>2
  <2> QED  BY <2>3
<1>8. Refs  BY <1>0, <1>1, <1>4, <1>5 DEF Refs
<1>9. DocsPlaced /\ DocsCovered /\ OldQueueFlushed /\ TicketsOwn /\ StreamOwns
  BY <1>1, <1>4, <1>5, <1>7
     DEF DocsPlaced, DocsCovered, OldQueueFlushed, TicketsOwn, StreamOwns
<1>10. ThreadsOwn
  <2>1. \A t : t \notin locked \cup flushPending  BY DEF Init
  <2> QED  BY <1>1, <1>5, <2>1 DEF ThreadsOwn
<1>11. FullFlushOwn
  <2>1. ~fullFlush  BY DEF Init
  <2> QED  BY <1>2, <2>1 DEF FullFlushOwn
<1>12. Order
  BY <1>1, <1>4 DEF Order, DocsKept, PacketsRight, TicketsRight, DeletesReach, DeletesFollow
<1>13. QueuesFrozen /\ Reported
  BY <1>0, <1>2 DEF QueuesFrozen, Reported
<1>14. CommitOld  BY <1>0, <1>2, <1>3 DEF CommitOld
<1>15. CommitIsPrefix
  <2>1. \A x : x \notin Replay(commit.queue)  BY <1>7 DEF Replay
  <2> QED  BY <1>3, <2>1 DEF CommitIsPrefix
<1>16. Flushed  BY <1>2 DEF Flushed
<1> QED
  BY <1>6, <1>8, <1>9, <1>10, <1>11, <1>12, <1>13, <1>14, <1>15, <1>16 DEF Inv

LEMMA ThreadNext ==
  ASSUME Inv, NEW t \in Threads,
         \/ ObtainAndLock(t) \/ CheckApply(t) \/ ApplyAllDeletes(t) \/ MarkForFullFlush(t)
         \/ TryCheckoutForFlush(t)
         \/ \E kind \in Kinds, key \in Keys, marks \in SUBSET Threads :
               UpdateDocument(t, kind, key, marks)
  PROVE  Inv'
<1>1. CASE ObtainAndLock(t)  BY <1>1, ObtainAndLockStep
<1>2. CASE CheckApply(t)  BY <1>2, CheckApplyStep
<1>3. CASE ApplyAllDeletes(t)  BY <1>3, ApplyAllDeletesStep
<1>4. CASE MarkForFullFlush(t)  BY <1>4, MarkForFullFlushStep
<1>5. CASE TryCheckoutForFlush(t)  BY <1>5, TryCheckoutForFlushStep
<1>6. ASSUME NEW kind \in Kinds, NEW key \in Keys, NEW marks \in SUBSET Threads,
             UpdateDocument(t, kind, key, marks)
      PROVE  Inv'
  BY <1>6, UpdateDocumentStep
<1> QED  BY <1>1, <1>2, <1>3, <1>4, <1>5, <1>6

LEMMA FlushNext ==
  ASSUME Inv, NEW d \in DOMAIN dwpts,
         \/ AddSegment(d) \/ MarkTicketFailed(d)
         \/ \E byMain \in BOOLEAN : AddFlushTicket(d, byMain)
  PROVE  Inv'
<1>1. CASE AddSegment(d)  BY <1>1, AddSegmentStep
<1>2. CASE MarkTicketFailed(d)  BY <1>2, MarkTicketFailedStep
<1>3. ASSUME NEW byMain \in BOOLEAN, AddFlushTicket(d, byMain) PROVE Inv'
  BY <1>3, AddFlushTicketStep
<1> QED  BY <1>1, <1>2, <1>3

LEMMA NextInv == ASSUME Inv, [Next]_vars PROVE Inv'
<1>1. CASE UNCHANGED vars  BY <1>1, StutteringStep
<1>2. ASSUME NEW t \in Threads,
             \/ ObtainAndLock(t) \/ CheckApply(t) \/ ApplyAllDeletes(t) \/ MarkForFullFlush(t)
             \/ TryCheckoutForFlush(t)
             \/ \E kind \in Kinds, key \in Keys, marks \in SUBSET Threads :
                   UpdateDocument(t, kind, key, marks)
      PROVE  Inv'
  BY <1>2, ThreadNext
<1>3. ASSUME NEW kind \in Kinds, NEW key \in Keys, NEW apply \in BOOLEAN,
             ApplyDeleteOrUpdate(kind, key, apply)
      PROVE  Inv'
  BY <1>3, ApplyDeleteOrUpdateStep
<1>4. ASSUME NEW d \in DOMAIN dwpts,
             \/ AddSegment(d) \/ MarkTicketFailed(d)
             \/ \E byMain \in BOOLEAN : AddFlushTicket(d, byMain)
      PROVE  Inv'
  BY <1>4, FlushNext
<1>5. CASE StartPurge  BY <1>5, StartPurgeStep
<1>6. CASE EndPurge  BY <1>6, EndPurgeStep
<1>7. ASSUME NEW who \in {"helper", "main"}, PublishTicket(who) PROVE Inv'
  BY <1>7, PublishTicketStep
<1>8. ASSUME NEW p \in updates, ApplyPacket(p) PROVE Inv'  BY <1>8, ApplyPacketStep
<1>9. CASE FlushAllThreads  BY <1>9, FlushAllThreadsStep
<1>10. CASE QueueMarked  BY <1>10, QueueMarkedStep
<1>11. CASE WaitForFlush  BY <1>11, WaitForFlushStep
<1>12. CASE ForcePurge  BY <1>12, ForcePurgeStep
<1>13. CASE EndForcePurge  BY <1>13, EndForcePurgeStep
<1>14. CASE CloneSegmentInfos  BY <1>14, CloneSegmentInfosStep
<1>15. ASSUME NEW apply \in BOOLEAN, FinishFullFlush(apply) PROVE Inv'
  BY <1>15, FinishFullFlushStep
<1>16. CASE NextPendingFlush  BY <1>16, NextPendingFlushStep
<1> QED
  BY <1>1, <1>2, <1>3, <1>4, <1>5, <1>6, <1>7, <1>8, <1>9, <1>10, <1>11, <1>12, <1>13, <1>14,
     <1>15, <1>16 DEF Next
------------------------------------------------------------------------------
(* What it implies.                                                        *)

LEMMA InvDeletesExact == ASSUME Inv PROVE DeletesExact
<1> SUFFICES ASSUME ~overtaken PROVE NoDeleteTooMany /\ NoDeleteLost
  BY DEF DeletesExact
<1>1. NoDeleteTooMany
  BY DEF NoDeleteTooMany, Inv, Order, DocsKept, Gone, Writers
<1>2. NoDeleteLost
  <2> SUFFICES ASSUME NEW s \in segmentInfos, NEW x \in s.live, NEW y \in Places,
                      Removes(y, x), y[2] <= frozen[y[1]]
               PROVE  \/ \E p \in updates : Applies(p, s) /\ x \notin Resolved(p, s).live
                      \/ \E i \in DOMAIN tickets : Op(y).key \in tickets[i].keys
    BY DEF NoDeleteLost
  <2>1. \/ \E p \in updates : Kills(p, s, x)
        \/ \E i \in DOMAIN tickets : Op(y).key \in tickets[i].keys
    BY DEF Inv, Order, DeletesReach, IsFrozen
  <2>2. \A p \in updates : Kills(p, s, x) => Applies(p, s) /\ x \notin Resolved(p, s).live
    BY ResolvedIs DEF Kills
  <2> QED  BY <2>1, <2>2
<1> QED  BY <1>1, <1>2

LEMMA InvNoChangeForgotten == ASSUME Inv PROVE NoChangeForgotten
<1>1. deleteQueue \in Nat /\ DOMAIN log = 1 .. deleteQueue  BY LogTypes DEF Inv, deleteQueue
<1>2. OldQueueIsFrozen
  <2> SUFFICES ASSUME NEW q \in DOMAIN log, main.pc \notin {"mark", "help"} \/ q < deleteQueue - 1,
                      q < deleteQueue
               PROVE  ~anyChangesIn(q)
    BY DEF OldQueueIsFrozen
  <2>1. q < deleteQueue - 1 \/ (q = deleteQueue - 1 /\ deleteQueue > 1)  BY <1>1
  <2>2. AllFrozen(q)  BY <1>1, <2>1 DEF Inv, QueuesFrozen, Swapping
  <2> QED  BY <2>2, GlobalDeletesAre DEF anyChangesIn
<1>3. UnfrozenIsReported
  <2> SUFFICES ASSUME NEW q \in DOMAIN log, anyChangesIn(q), q # deleteQueue
               PROVE  anyChanges
    BY DEF UnfrozenIsReported, anyChanges
  <2>1. ~AllFrozen(q) /\ \E k : k \in GlobalDeletes(q)  BY GlobalDeletesAre DEF anyChangesIn
  <2>2. PICK n \in DOMAIN log[q] : n > frozen[q]  BY <2>1, GlobalDeletesAre
  <2>3. Swapping /\ q = deleteQueue - 1  BY <2>1, UnfrozenQueue
  <2>4. PICK x : x = <<q, n>>  OBVIOUS
  <2>5. x \in Places /\ x[2] = n /\ x[1] = q  BY <2>2, <2>4, PlaceIs
  <2>6. CASE ~HasDocument(x)
    <3>1. pendingChangesInCurrentFullFlush  BY <2>2, <2>3, <2>4, <2>6 DEF Inv, Reported
    <3> QED  BY <3>1 DEF anyChanges
  <2>7. CASE HasDocument(x)
    <3>1. PICK d \in Writers : x \in dwpts[d].docs  BY <2>5, <2>7 DEF Inv, DocsPlaced
    <3>2. Queue(d) = q /\ Phase(d) # "empty"  BY <2>5, <3>1 DEF Inv, DocsPlaced
    <3>3. Phase(d) \notin Ticketed
      <4> SUFFICES ASSUME Phase(d) \in Ticketed PROVE FALSE
        OBVIOUS
      <4>1. dwpts[d].upto <= frozen[q] /\ n <= dwpts[d].upto
        BY <2>5, <3>1, <3>2 DEF Inv, DocsCovered
      <4>2. dwpts[d].upto \in Nat /\ frozen[q] \in Nat /\ n \in Nat
        BY WriterTypes, LogTypes DEF Inv
      <4> QED  BY <2>2, <4>1, <4>2
    <3>4. Phase(d) \in Waiting  BY <3>2, <3>3, WriterTypes DEF Inv, Phases
    <3>5. d \in InRAM  BY <3>1, <3>4 DEF InRAM, Waiting, Phase, Writers
    <3> QED  BY <3>5 DEF anyChanges
  <2> QED  BY <2>6, <2>7
<1> QED  BY <1>2, <1>3 DEF NoChangeForgotten

LEMMA InvTypeOK == ASSUME Inv PROVE TypeOK
BY DEF Inv
LEMMA InvCommitIsPrefix == ASSUME Inv PROVE CommitIsPrefix
BY DEF Inv

\* The inductive invariant, in every reachable state, whatever the threads, the
\* operations, the flushes that fail and the packets that overtake each other.
THEOREM Invariant == Spec => []Inv
<1>1. Init => Inv  BY InitInv
<1>2. Inv /\ [Next]_vars => Inv'  BY NextInv
<1> QED  BY <1>1, <1>2, PTL DEF Spec

\* Every variable keeps its type, from the buffer of a thread to a commit.
THEOREM Typing == Spec => []TypeOK
<1>1. Inv => TypeOK  BY InvTypeOK
<1> QED  BY <1>1, Invariant, PTL

\* "this commit point should reflect all operations <= this seqNo": a commit, and a reader
\* opened by getReader, has exactly the documents of the operations of the queues before the
\* swap, applied in their order (prepareCommitInternal, flushAllThreads).  Except when
\* tryCheckoutForFlush has taken a DWPT of the new queue out of a full flush.
THEOREM CommitsArePrefixes == Spec => []CommitIsPrefix
<1>1. Inv => CommitIsPrefix  BY InvCommitIsPrefix
<1> QED  BY <1>1, Invariant, PTL

\* No published document is removed but by a younger delete, and no delete that has been
\* frozen misses an older published document, although deletes travel in tickets and packets
\* and documents in DWPTs and segments (publishFlushedSegment, FrozenBufferedUpdates::apply).
\* Except after a full flush that was overtaken.
THEOREM DeletesMeetDocuments == Spec => []DeletesExact
<1>1. Inv => DeletesExact  BY InvDeletesExact
<1> QED  BY <1>1, Invariant, PTL

\* A queue that has been swapped out is empty of deletes when its full flush has flushed, and
\* until then anyChanges reports them (DocumentsWriter::flushAllThreads, anyChanges).
THEOREM NothingForgotten == Spec => []NoChangeForgotten
<1>1. Inv => NoChangeForgotten  BY InvNoChangeForgotten
<1> QED  BY <1>1, Invariant, PTL
==============================================================================
