--------------------------- MODULE NrtReplication ---------------------------
(***************************************************************************)
(* Near-real-time replication: a primary node (PrimaryNode) that indexes,  *)
(* replicas (ReplicaNode) that copy its files whenever it has a new point, *)
(* and the process that starts and promotes nodes, which the source has    *)
(* only as TestStressNRTReplication.                                       *)
(*                                                                         *)
(* A segment is one file.  Its name is the number the writer gave it, its  *)
(* content the primaryGen of the primary that wrote it: names are reused   *)
(* after a crash, and then the contents differ.  A step is what happens    *)
(* under the monitor of a replica, or one visit of its Jobs thread.        *)
(* Messages are handled in any order, even after the death of the sender,  *)
(* and are lost with the node they were sent to.                           *)
(***************************************************************************)
EXTENDS Integers, Sequences, FiniteSets, TLC, FiniteSetsExt, Functions

CONSTANTS
  Nodes,
  NoNode,
  FirstPrimary,  \* the primary at the start
  MaxName,       \* bound on the names of segments
  Workloads      \* instances: the replicas at the start, how many events of Kinds may happen

Kinds == {"flush", "merge", "commit", "crash", "start", "bitFlip", "startFails"}

ASSUME NrtAssumption ==
  /\ FirstPrimary \in Nodes /\ NoNode \notin Nodes /\ MaxName \in Nat \ {0}
  /\ Workloads \subseteq [replicas : SUBSET (Nodes \ {FirstPrimary}), left : [Kinds -> Nat]]

VARIABLES
  primary,      \* the PrimaryNode and its IndexWriter, and primaryGen
  lastVersion,  \* lastPrimaryVersion, what the starter of nodes knows
  index,        \* node -> its directory
  replica,      \* node -> the fields of its ReplicaNode
  job,          \* node -> curNRTCopy, as a set of at most one
  warming,      \* node -> its merge copy jobs
  committing,   \* node -> the commit in progress, at most one (commitLock)
  net,          \* messages to replicas that are not handled yet
  points,       \* history: the points any primary has opened
  left          \* the rest of the workload

vars == <<primary, lastVersion, index, replica, job, warming, committing, net, points, left>>

Names == 1 .. MaxName
Spend(k) == left[k] > 0 /\ left' = [left EXCEPT ![k] = @ - 1]

\* SegmentInfos, CopyState
NoInfos == [version |-> 0, counter |-> 0, files |-> <<>>]
CopyState(infos, completed, gen) == [infos |-> infos, completed |-> completed, gen |-> gen]
PointOf(infos) == [version |-> infos.version, files |-> infos.files]

NoMerge == [to |-> 0, from |-> {}, warmed |-> FALSE]
Primary(n, infos, gen) ==
  [node |-> n, gen |-> gen, infos |-> infos, merge |-> NoMerge, finished |-> {},
   copy |-> CopyState(infos, {}, gen), tell |-> FALSE]
NoPrimary(gen) == Primary(NoNode, NoInfos, gen)

\* counts: refCounts.  commitFiles: lastCommitFiles but segments_N.  meta: lastFileMetaData.
\* lastNRTFiles are the names in infos.  History, spoilt: a copy has failed; told: the last point.
Opened(state, gen, infos) ==
  [state |-> state, gen |-> gen, infos |-> infos, meta |-> <<>>,
   commitFiles |-> DOMAIN infos.files, pending |-> {}, spoilt |-> FALSE,
   told |-> [gen |-> 0, version |-> 0],
   counts |-> [f \in Names |-> IF f \in DOMAIN infos.files THEN 2 ELSE 0]]
Down == Opened("down", 0, NoInfos)

Init ==
  LET infos == [version |-> 1, counter |-> 1, files |-> <<1>>]
  IN /\ primary = Primary(FirstPrimary, infos, 1)
     /\ lastVersion = 1
     /\ index = [n \in Nodes |-> [files |-> infos.files, synced |-> {1},
                                  commits |-> <<[infos |-> infos, gen |-> 1]>>]]
     /\ job = [n \in Nodes |-> {}]
     /\ warming = [n \in Nodes |-> {}]
     /\ committing = [n \in Nodes |-> {}]
     /\ net = {}
     /\ points = {PointOf(infos)}
     /\ \E w \in Workloads :
          /\ left = w.left
          /\ replica = [n \in Nodes |-> IF n \in w.replicas THEN Opened("run", 1, infos) ELSE Down]

OnPrimary == primary.node # NoNode
Running == {n \in Nodes : replica[n].state = "run"}
Starting == {n \in Nodes : replica[n].state \in {"sync", "opened"}}
lastNRTFiles(n) == DOMAIN replica[n].infos.files

\* The primary with generation g answers
Reachable(g) == OnPrimary /\ primary.gen = g

Without(files, gone) == Restrict(files, DOMAIN files \ gone)
Written(dir, files) == [dir EXCEPT !.files = files @@ @, !.synced = @ \ DOMAIN files]
WithFile(n, f, content) == [index EXCEPT ![n] = Written(@, f :> content)]
-----------------------------------------------------------------------------
(* The primary                                                             *)

\* Files the copying replicas hold through the CopyStates they were given
Held(gen) == UNION {UNION {DOMAIN j.copy.infos.files : j \in {k \in job[n] : k.copy.gen = gen /\ ~k.failed}} :
                      n \in Nodes}

\* The directory of primary p when its IndexFileDeleter has run
Deleted(p, idx) ==
  LET kept == DOMAIN p.infos.files \cup DOMAIN p.copy.infos.files \cup {p.merge.to}
                \cup UNION {DOMAIN c.infos.files : c \in Range(idx[p.node].commits)} \cup Held(p.gen)
  IN [idx EXCEPT ![p.node].files = Restrict(@, DOMAIN @ \cap kept)]

\* A flush publishes a new segment.
Flush ==
  LET f == primary.infos.counter + 1
  IN /\ OnPrimary /\ f <= MaxName /\ Spend("flush")
     /\ primary' = [primary EXCEPT !.infos = [version |-> @.version + 1, counter |-> f,
                                              files |-> (f :> primary.gen) @@ @.files]]
     /\ index' = WithFile(primary.node, f, primary.gen)
     /\ UNCHANGED <<lastVersion, replica, job, warming, committing, net, points>>

\* A merge has written its segment; the warmer asks the replicas to copy it.
WarmMerge ==
  LET f == primary.infos.counter + 1
  IN /\ OnPrimary /\ primary.merge = NoMerge /\ f <= MaxName /\ Spend("merge")
     /\ Cardinality(DOMAIN primary.infos.files) > 1
     /\ primary' = [primary EXCEPT !.infos.counter = f,
                      !.merge = [to |-> f, from |-> DOMAIN primary.infos.files, warmed |-> FALSE]]
     /\ index' = WithFile(primary.node, f, primary.gen)
     /\ net' = net \cup {[kind |-> "merge", to |-> n, gen |-> primary.gen, file |-> f] : n \in Running}
     /\ UNCHANGED <<lastVersion, replica, job, warming, committing, points>>

\* Every replica has answered or was given up.
WarmEnds ==
  /\ OnPrimary /\ primary.merge # NoMerge /\ ~primary.merge.warmed
  /\ primary' = [primary EXCEPT !.merge.warmed = TRUE, !.finished = @ \cup {primary.merge.to}]
  /\ UNCHANGED <<lastVersion, index, replica, job, warming, committing, net, points, left>>

CommitMerge ==
  LET merge == primary.merge
      p == [primary EXCEPT !.merge = NoMerge,
              !.infos.version = @ + 1,
              !.infos.files = (merge.to :> primary.gen) @@ Without(@, merge.from)]
  IN /\ OnPrimary /\ merge.warmed
     /\ primary' = p
     /\ index' = Deleted(p, index)
     /\ UNCHANGED <<lastVersion, replica, job, warming, committing, net, points, left>>

\* flushAndRefresh, when there were changes
FlushAndRefresh ==
  LET p == [primary EXCEPT !.copy = CopyState(primary.infos, primary.finished, primary.gen),
                           !.finished = {}, !.tell = TRUE]
  IN /\ OnPrimary /\ ~primary.tell /\ primary.infos.version # primary.copy.infos.version
     /\ primary' = p
     /\ index' = Deleted(p, index)
     /\ points' = points \cup {PointOf(p.infos)}
     /\ UNCHANGED <<lastVersion, replica, job, warming, committing, net, left>>

\* handleFlush: the caller is told the version, then the replicas that can be reached.
TellReplicas ==
  /\ OnPrimary /\ primary.tell
  /\ primary' = [primary EXCEPT !.tell = FALSE]
  /\ lastVersion' = primary.copy.infos.version
  /\ \E reached \in SUBSET Running :
       LET point == [gen |-> primary.gen, version |-> primary.copy.infos.version]
       IN /\ net' = net \cup {point @@ [kind |-> "point", to |-> n] : n \in reached}
          /\ replica' = [n \in Nodes |-> IF n \in reached THEN [replica[n] EXCEPT !.told = point]
                                         ELSE replica[n]]
  /\ UNCHANGED <<index, job, warming, committing, points, left>>

CommitPrimary ==
  LET c == [infos |-> primary.infos, gen |-> primary.gen]
      idx == [index EXCEPT ![primary.node].commits = <<c>>,
                           ![primary.node].synced = @ \cup DOMAIN c.infos.files]
  IN /\ OnPrimary /\ Spend("commit")
     /\ index[primary.node].commits # <<c>>
     /\ index' = Deleted(primary, idx)
     /\ UNCHANGED <<primary, lastVersion, replica, job, warming, committing, net, points>>
-----------------------------------------------------------------------------
(* Starting, promoting and crashing nodes                                  *)

\* IndexWriter opens a directory that has files, with the infos of its commit: no name of
\* one of them is used again, and no version that lastVersion knows.
BecomePrimary(n, infos, files) ==
  LET counter == Max({infos.counter} \cup files)
      version == Max({infos.version, lastVersion + 1}) + 1
      opened == [version |-> version, counter |-> counter, files |-> infos.files]
  IN /\ primary' = Primary(n, opened, primary.gen)
     /\ lastVersion' = version
     /\ points' = points \cup {PointOf(opened)}

\* The replica to promote: the newest, once nobody starts or copies.
Promotable(n) ==
  /\ n \in Running /\ Starting = {}
  /\ \A m \in Running : job[m] = {} /\ replica[m].infos.version <= replica[n].infos.version

\* promoteReplica: it commits, shuts down and is started as the primary.  The shutdown has
\* deleted what it does not search, files of pre-copied merges too, before IndexWriter opens.
Promote(n) ==
  LET infos == replica[n].infos
  IN /\ ~OnPrimary /\ Promotable(n) /\ committing[n] = {}
     /\ index' = [index EXCEPT ![n] =
                    [files |-> Restrict(@.files, lastNRTFiles(n)), synced |-> lastNRTFiles(n),
                     commits |-> <<[infos |-> infos, gen |-> replica[n].gen]>>]]
     /\ BecomePrimary(n, infos, lastNRTFiles(n))
     /\ replica' = [replica EXCEPT ![n] = Down]
     /\ warming' = [warming EXCEPT ![n] = {}]
     /\ net' = {m \in net : m.to # n}
     /\ UNCHANGED <<job, committing, left>>

LastCommit(n) ==
  IF index[n].commits = <<>> THEN [infos |-> NoInfos, gen |-> 0]
  ELSE index[n].commits[Len(index[n].commits)]

\* deleteUnknownFiles, and what IndexFileDeleter does at the start
OnlyLastCommit(n) ==
  [index[n] EXCEPT !.files = Restrict(@, DOMAIN LastCommit(n).infos.files),
                   !.commits = IF @ = <<>> THEN <<>> ELSE <<LastCommit(n)>>]

\* Cold start: every node is down, one becomes the primary.
ColdStart(n) ==
  /\ ~OnPrimary /\ \A m \in Nodes : replica[m].state = "down"
  /\ BecomePrimary(n, LastCommit(n).infos, DOMAIN index[n].files)
  /\ index' = [index EXCEPT ![n] = OnlyLastCommit(n)]
  /\ UNCHANGED <<replica, job, warming, committing, net, left>>

\* A process ends without warning; what was not synced is there or not.
Crash(n) ==
  /\ n = primary.node \/ replica[n].state # "down"
  /\ Spend("crash")
  /\ \E kept \in {index[n].synced, DOMAIN index[n].files} :
       index' = [index EXCEPT ![n].files = Restrict(@, DOMAIN @ \cap kept)]
  /\ replica' = [replica EXCEPT ![n] = Down]
  /\ job' = [job EXCEPT ![n] = {}]
  /\ warming' = [warming EXCEPT ![n] = {}]
  /\ committing' = [committing EXCEPT ![n] = {}]
  /\ net' = {m \in net : m.to # n}
  /\ primary' = IF n = primary.node THEN NoPrimary(primary.gen + 1) ELSE primary
  /\ UNCHANGED <<lastVersion, points>>
-----------------------------------------------------------------------------
(* ReplicaFileDeleter                                                      *)

IncRef(counts, names) == [f \in Names |-> counts[f] + (IF f \in names THEN 1 ELSE 0)]
DecRef(counts, names) == [f \in Names |-> counts[f] - (IF f \in names THEN 1 ELSE 0)]

\* Directory dir when names have lost a reference or the last chance to get one
DeleteIfNoRef(dir, counts, names) ==
  [dir EXCEPT !.files = Without(@, {f \in names : counts[f] = 0})]
-----------------------------------------------------------------------------
(* Copying: CopyJob, SimpleCopyJob, Jobs                                   *)

\* Mutant: a file of that name is enough.
SameName(r, files, f, content) == f \in DOMAIN files

\* fileIsIdentical: by the metadata of the last point, else by the file itself
Identical(r, files, f, content) ==
  content = IF f \in DOMAIN r.meta THEN r.meta[f] ELSE IF f \in DOMAIN files THEN files[f] ELSE 0

\* newCopyJob for the latest point, on a replica r with these files
NewJob(r, files) ==
  LET wanted == primary.copy.infos.files
  IN [copy |-> primary.copy, copied |-> <<>>, failed |-> FALSE,
      toCopy |-> {f \in DOMAIN wanted : ~Identical(r, files, f, wanted[f])}]

\* transferAndCancel: what the previous job has copied under a name is kept.
Transferred(j, previous) ==
  IF \A p \in previous : p.failed THEN j
  ELSE LET copied == (CHOOSE p \in previous : TRUE).copied
           carried == DOMAIN copied \cap j.toCopy
       IN [j EXCEPT !.toCopy = @ \ carried, !.copied = Restrict(copied, carried)]

\* The Jobs thread is not between the two halves of the end of a merge copy.
JobsFree(n) == \A w \in warming[n] : ~w.ended

\* A primary that is alive must still have the file; what it has sent before it died arrives.
CanRead(gen, f, content) ==
  Reachable(gen) => /\ f \in DOMAIN index[primary.node].files
                    /\ index[primary.node].files[f] = content

\* One file is copied, under a temporary name.
CopyFile(n) ==
  \E j \in job[n] : \E f \in j.toCopy :
    LET content == j.copy.infos.files[f]
    IN /\ ~j.failed /\ JobsFree(n) /\ CanRead(j.copy.gen, f, content)
       /\ job' = [job EXCEPT ![n] = {[j EXCEPT !.toCopy = @ \ {f},
                                               !.copied = (f :> content) @@ @]}]
       /\ UNCHANGED <<primary, lastVersion, index, replica, warming, committing, net, points, left>>

\* The job fails: a checksum differs, or the primary is gone.
CopyFails(n) ==
  \E j \in job[n] :
    /\ ~j.failed /\ JobsFree(n) /\ j.toCopy # {}
    /\ IF Reachable(j.copy.gen) THEN Spend("bitFlip") ELSE UNCHANGED left
    /\ job' = [job EXCEPT ![n] = {}]
    /\ replica' = [replica EXCEPT ![n].spoilt = TRUE]
    /\ UNCHANGED <<primary, lastVersion, index, warming, committing, net, points>>

\* finish: the copies get their names.
Finished(n, j) == Written(index[n], j.copied)
-----------------------------------------------------------------------------
(* The start of a replica                                                  *)

\* Mutant: start keeps the commit whose files may be overwritten.
KeepCommit(n) == OnlyLastCommit(n)

\* start: the segments_N of another primary is deleted before its files may be overwritten.
DeleteCommit(n) == [OnlyLastCommit(n) EXCEPT !.commits = <<>>]

\* sendNewReplica: the primary sends the merge that it is warming.
NewReplica(n) ==
  IF ~OnPrimary \/ primary.merge = NoMerge \/ primary.merge.warmed THEN net
  ELSE net \cup {[kind |-> "merge", to |-> n, gen |-> primary.gen, file |-> primary.merge.to]}

Start(n) ==
  LET c == LastCommit(n)
      changed == c.infos.files # <<>> /\ c.gen # primary.gen
  IN /\ OnPrimary /\ n # primary.node /\ replica[n].state = "down" /\ Spend("start")
     /\ index' = [index EXCEPT ![n] = IF changed THEN DeleteCommit(n) ELSE OnlyLastCommit(n)]
     /\ replica' = [replica EXCEPT ![n] = IF changed THEN Opened("sync", 0, c.infos)
                                          ELSE Opened("run", primary.gen, c.infos)]
     /\ net' = IF changed THEN net ELSE NewReplica(n)
     /\ UNCHANGED <<primary, lastVersion, job, warming, committing, points>>

StartSync(n) ==
  /\ replica[n].state = "sync" /\ job[n] = {} /\ OnPrimary
  /\ job' = [job EXCEPT ![n] = {NewJob(replica[n], index[n].files)}]
  /\ UNCHANGED <<primary, lastVersion, index, replica, warming, committing, net, points, left>>

\* Without a primary the process ends.
SyncFails(n) ==
  /\ replica[n].state = "sync" /\ job[n] = {} /\ ~OnPrimary
  /\ replica' = [replica EXCEPT ![n] = Down]
  /\ UNCHANGED <<primary, lastVersion, index, job, warming, committing, net, points, left>>

FinishSync(n) ==
  \E j \in job[n] :
    LET r == replica[n]
        counts == DecRef(IncRef(r.counts, DOMAIN j.copy.infos.files), lastNRTFiles(n))
    IN /\ r.state = "sync" /\ j.toCopy = {}
       /\ index' = [index EXCEPT ![n] = DeleteIfNoRef(Finished(n, j), counts, lastNRTFiles(n))]
       /\ replica' = [replica EXCEPT ![n] = [r EXCEPT !.state = "opened", !.gen = j.copy.gen,
                        !.infos = j.copy.infos, !.meta = j.copy.infos.files, !.counts = counts]]
       /\ job' = [job EXCEPT ![n] = {}]
       /\ net' = NewReplica(n)
       /\ UNCHANGED <<primary, lastVersion, warming, committing, points, left>>
-----------------------------------------------------------------------------
(* A running replica                                                       *)

\* maybeNewPrimary: a message with another generation ends the pre-copied merges.
ReplicaOf(n, gen) ==
  IF gen = replica[n].gen THEN replica[n]
  ELSE [replica[n] EXCEPT !.gen = gen, !.pending = {}]
DirectoryOf(n, gen) ==
  IF gen = replica[n].gen THEN index[n]
  ELSE DeleteIfNoRef(index[n], replica[n].counts, replica[n].pending)

\* The handler of message m has called maybeNewPrimary.
Receive(n, m) ==
  /\ replica[n].state = "run" /\ m.to = n
  /\ net' = net \ {m}
  /\ replica' = [replica EXCEPT ![n] = ReplicaOf(n, m.gen)]
  /\ index' = [index EXCEPT ![n] = DirectoryOf(n, m.gen)]

\* Mutant: a point is skipped that is one version newer.
IsNewsLater(n, m) == m.version > replica[n].infos.version + 1 /\ Reachable(m.gen)

IsNews(n, m) == m.version > replica[n].infos.version /\ Reachable(m.gen)

\* newNRTPoint, when the point is not newer or its primary does not answer
SkipPoint(n) ==
  \E m \in net :
    /\ m.kind = "point" /\ Receive(n, m) /\ ~IsNews(n, m)
    /\ UNCHANGED <<primary, lastVersion, job, warming, committing, points, left>>

\* newNRTPoint starts a copy job, which replaces the current one and cancels the
\* merge copies of its files.
NewCopy(n, m) ==
  Transferred(NewJob(ReplicaOf(n, m.gen), DirectoryOf(n, m.gen).files), job[n])

NewNRTPoint(n) ==
  \E m \in net :
    LET j == NewCopy(n, m)
    IN /\ m.kind = "point" /\ Receive(n, m) /\ IsNews(n, m)
       /\ job' = [job EXCEPT ![n] = {j}]
       /\ warming' = [warming EXCEPT ![n] = {w \in @ : w.ended \/ w.file \notin j.toCopy}]
       /\ UNCHANGED <<primary, lastVersion, committing, points, left>>

\* The same, but job->start() fails: the job is cancelled and stays curNRTCopy.
NewNRTPointFails(n) ==
  \E m \in net :
    LET j == NewCopy(n, m)
    IN /\ m.kind = "point" /\ IsNews(n, m) /\ Spend("startFails")
       /\ replica[n].state = "run" /\ m.to = n
       /\ net' = net \ {m}
       /\ replica' = [replica EXCEPT ![n] = [ReplicaOf(n, m.gen) EXCEPT !.spoilt = TRUE]]
       /\ index' = [index EXCEPT ![n] = DirectoryOf(n, m.gen)]
       /\ job' = [job EXCEPT ![n] = {[j EXCEPT !.failed = TRUE]}]
       /\ warming' = [warming EXCEPT ![n] = {w \in @ : w.ended \/ w.file \notin j.toCopy}]
       /\ UNCHANGED <<primary, lastVersion, committing, points>>

\* Mutant: the files of the last point are not let go.
CutOverKeeps(r, infos) == IncRef(r.counts, DOMAIN infos.files)

\* The new files are referenced before the old ones are let go.
CutOver(r, infos) == DecRef(IncRef(r.counts, DOMAIN infos.files), DOMAIN r.infos.files)

\* finishNRTCopy.  A copy whose files are not all there cannot be opened.
FinishNRTCopy(n) ==
  \E j \in job[n] :
    LET r == replica[n]
        new == j.copy.infos
        dir == Finished(n, j)
        counts == CutOver(r, new)
        pending == r.pending \ DOMAIN new.files
        opened == \A f \in DOMAIN new.files : f \in DOMAIN dir.files /\ dir.files[f] = new.files[f]
    IN /\ r.state = "run" /\ ~j.failed /\ j.toCopy = {} /\ JobsFree(n)
       /\ job' = [job EXCEPT ![n] = {}]
       /\ IF opened
          THEN /\ replica' = [replica EXCEPT ![n] =
                    [r EXCEPT !.infos = new, !.meta = new.files, !.counts = counts,
                              !.pending = pending \ j.copy.completed]]
               /\ index' = [index EXCEPT ![n] = DeleteIfNoRef(dir, counts,
                              lastNRTFiles(n) \cup (pending \cap j.copy.completed))]
          ELSE /\ replica' = [replica EXCEPT ![n].spoilt = TRUE]
               /\ index' = [index EXCEPT ![n] = dir]
       /\ UNCHANGED <<primary, lastVersion, warming, committing, net, points, left>>
-----------------------------------------------------------------------------
(* Copying merged segments before they are visible                         *)

\* newCopyJob for the file of message m: there may be nothing to copy.
MergeCopy(r, files, m) ==
  [file |-> m.file, gen |-> m.gen, copied |-> <<>>, ended |-> FALSE,
   toCopy |-> {f \in {m.file} : ~Identical(r, files, f, m.gen)}]

LaunchPreCopyMerge(n) ==
  \E m \in net :
    /\ m.kind = "merge" /\ Receive(n, m)
    /\ warming' = IF ~Reachable(m.gen) THEN warming
                  ELSE [warming EXCEPT ![n] = @ \cup
                          {MergeCopy(ReplicaOf(n, m.gen), DirectoryOf(n, m.gen).files, m)}]
    /\ UNCHANGED <<primary, lastVersion, job, committing, points, left>>

\* Jobs takes merge copies when there is no copy for a point.
MayWarm(n) == JobsFree(n) /\ \A j \in job[n] : j.failed

WarmFile(n) ==
  \E w \in warming[n] :
    /\ MayWarm(n) /\ w.toCopy # {} /\ CanRead(w.gen, w.file, w.gen)
    /\ warming' = [warming EXCEPT ![n] = (@ \ {w}) \cup
                     {[w EXCEPT !.toCopy = {}, !.copied = w.file :> w.gen]}]
    /\ UNCHANGED <<primary, lastVersion, index, replica, job, committing, net, points, left>>

\* The primary is gone, or the file is.
WarmFails(n) ==
  \E w \in warming[n] :
    /\ MayWarm(n) /\ w.toCopy # {}
    /\ Reachable(w.gen) => ~CanRead(w.gen, w.file, w.gen)
    /\ warming' = [warming EXCEPT ![n] = @ \ {w}]
    /\ UNCHANGED <<primary, lastVersion, index, replica, job, committing, net, points, left>>

\* The callback first leaves mergeCopyJobs ...
WarmedOnReplica(n) ==
  \E w \in warming[n] :
    /\ MayWarm(n) /\ w.toCopy = {}
    /\ warming' = [warming EXCEPT ![n] = (@ \ {w}) \cup {[w EXCEPT !.ended = TRUE]}]
    /\ UNCHANGED <<primary, lastVersion, index, replica, job, committing, net, points, left>>

\* Mutant: the callback does not ask whether the primary has changed.
KeepOfAnyPrimary(n, w) == w.file \notin lastNRTFiles(n) \cup replica[n].commitFiles

\* ... and then keeps the file, if it is still wanted.
KeepMerged(n, w) ==
  replica[n].gen = w.gen /\ w.file \notin lastNRTFiles(n) \cup replica[n].commitFiles

FinishPreCopyMerge(n) ==
  \E w \in warming[n] :
    /\ w.ended
    /\ warming' = [warming EXCEPT ![n] = @ \ {w}]
    /\ IF KeepMerged(n, w)
       THEN /\ index' = [index EXCEPT ![n] = Written(@, w.copied)]
            /\ replica' = [replica EXCEPT ![n].pending = @ \cup {w.file}]
       ELSE UNCHANGED <<index, replica>>
    /\ UNCHANGED <<primary, lastVersion, job, committing, net, points, left>>
-----------------------------------------------------------------------------
(* ReplicaNode::commit                                                     *)

BeginCommit(n) ==
  /\ committing[n] = {}
  /\ \/ replica[n].state = "opened" /\ UNCHANGED left
     \/ replica[n].state = "run" /\ Spend("commit")
  /\ committing' = [committing EXCEPT ![n] = {[infos |-> replica[n].infos, written |-> FALSE]}]
  /\ replica' = [replica EXCEPT ![n].counts = IncRef(@, lastNRTFiles(n))]
  /\ UNCHANGED <<primary, lastVersion, index, job, warming, net, points>>

\* The files are synced before segments_N, which says what lastPrimaryGen is by now.
WriteCommit(n) ==
  \E c \in committing[n] :
    /\ ~c.written
    /\ index' = [index EXCEPT ![n].synced = @ \cup DOMAIN c.infos.files,
                              ![n].commits = Append(@, [infos |-> c.infos, gen |-> replica[n].gen])]
    /\ committing' = [committing EXCEPT ![n] = {[c EXCEPT !.written = TRUE]}]
    /\ UNCHANGED <<primary, lastVersion, replica, job, warming, net, points, left>>

EndCommit(n) ==
  \E c \in committing[n] :
    LET r == replica[n]
        counts == DecRef(r.counts, r.commitFiles)
    IN /\ c.written
       /\ replica' = [replica EXCEPT ![n] = [r EXCEPT !.state = "run", !.counts = counts,
                                                      !.commitFiles = DOMAIN c.infos.files]]
       /\ index' = [index EXCEPT ![n] =
                      [DeleteIfNoRef(@, counts, r.commitFiles) EXCEPT !.commits = <<LastCommit(n)>>]]
       /\ committing' = [committing EXCEPT ![n] = {}]
       /\ UNCHANGED <<primary, lastVersion, job, warming, net, points, left>>
-----------------------------------------------------------------------------
JobsStep(n) == \/ CopyFile(n) \/ CopyFails(n) \/ FinishNRTCopy(n)
               \/ WarmFile(n) \/ WarmFails(n) \/ WarmedOnReplica(n) \/ FinishPreCopyMerge(n)
Handle(n) == SkipPoint(n) \/ NewNRTPoint(n) \/ NewNRTPointFails(n) \/ LaunchPreCopyMerge(n)
StartStep(n) == StartSync(n) \/ SyncFails(n) \/ FinishSync(n)
CommitStep(n) == BeginCommit(n) \/ WriteCommit(n) \/ EndCommit(n)
PrimaryStep == \/ Flush \/ WarmMerge \/ WarmEnds \/ CommitMerge
               \/ FlushAndRefresh \/ TellReplicas \/ CommitPrimary

Next ==
  \/ PrimaryStep
  \/ \E n \in Nodes : \/ JobsStep(n) \/ Handle(n) \/ StartStep(n) \/ CommitStep(n)
                      \/ Start(n) \/ Promote(n) \/ ColdStart(n) \/ Crash(n)

Spec == Init /\ [][Next]_vars

\* The Jobs thread of a replica runs, and each message is handled by a thread of its own.
FairSpec == Spec /\ \A n \in Nodes : WF_vars(JobsStep(n)) /\ WF_vars(Handle(n))
-----------------------------------------------------------------------------
TypeOK ==
  /\ primary.node \in Nodes \cup {NoNode} /\ primary.tell \in BOOLEAN
  /\ \A n \in Nodes :
       /\ replica[n].state \in {"down", "sync", "opened", "run"}
       /\ replica[n].counts \in [Names -> 0 .. 3]
       /\ replica[n].pending \subseteq Names
       /\ DOMAIN index[n].files \subseteq Names
       /\ n = primary.node => replica[n] = Down
       /\ replica[n] = Down => job[n] = {} /\ warming[n] = {} /\ committing[n] = {}
       /\ Cardinality(job[n]) <= 1 /\ Cardinality(committing[n]) <= 1
  /\ left \in [Kinds -> Nat]

\* What a node shows to searches, none while it is down or starts
Shown == {PointOf(replica[n].infos) : n \in {m \in Nodes : replica[m].state \in {"opened", "run"}}}
           \cup IF OnPrimary THEN {PointOf(primary.copy.infos)} ELSE {}

HasFiles(n, files) ==
  \A f \in DOMAIN files : f \in DOMAIN index[n].files /\ index[n].files[f] = files[f]

\* A replica shows exactly a point its primary has opened: no file it searches is deleted, or
\* overwritten by the file a later primary wrote under the same name; and nodes that show the
\* same version show the same index.
ReplicasShowPoints ==
  /\ \A n \in Nodes : replica[n].state \in {"opened", "run"} => HasFiles(n, replica[n].infos.files)
  /\ Shown \subseteq points \cup {PointOf(NoInfos)}
  /\ \A s, t \in Shown : s.version = t.version => s = t

\* At whatever moment a node crashes, its last commit can be opened again.
CommitSurvives ==
  \A n \in Nodes :
    LET files == LastCommit(n).infos.files
    IN HasFiles(n, files) /\ DOMAIN files \subseteq index[n].synced

\* While its primary lives, a copy job finds every file it still has to copy.
FilesServed ==
  \A n \in Nodes : \A j \in job[n] :
    ~j.failed => \A f \in j.toCopy : CanRead(j.copy.gen, f, j.copy.infos.files[f])

\* Each file has as many references as the last point, the last commit and the commit in
\* progress give it; every other file on the disk is a merged segment that was copied in
\* advance, and that one comes from the primary the replica follows; and the primary has the
\* files that are still to be copied.
FilesAccounted ==
  \A n \in Nodes : replica[n].state # "down" =>
    LET r == replica[n]
        users == <<lastNRTFiles(n), r.commitFiles, UNION {DOMAIN c.infos.files : c \in committing[n]}>>
    IN /\ \A f \in Names : r.counts[f] = Cardinality({i \in 1 .. 3 : f \in users[i]})
       /\ \A f \in DOMAIN index[n].files : r.counts[f] = 0 => f \in r.pending
       /\ \A f \in r.pending : f \in DOMAIN index[n].files /\ index[n].files[f] = r.gen
       /\ FilesServed

\* A replica that is told of a point gets there, or to a later one, unless it crashes, a copy
\* fails or the primary dies.
Behind(n) ==
  /\ replica[n].state = "run" /\ ~replica[n].spoilt
  /\ Reachable(replica[n].told.gen) /\ replica[n].infos.version < replica[n].told.version

CatchesUp == \A n \in Nodes : []<>~Behind(n)

\* isCopying says that a copy is running: whoever waits for its end is not left waiting.
CopyingEnds ==
  \A n \in Nodes : job[n] # {} ~> job[n] = {}
=============================================================================
