--------------------------- MODULE IndexFileDeleter ---------------------------
(***************************************************************************)
(* What IndexFileDeleter does to its own state.  The object is a record d: *)
(*                                                                         *)
(*   refs     the reference counts, a function on the files it knows       *)
(*   commits  the commit points, oldest first: [gen, files]                *)
(*   last     the files of the last checkpoint that was not a commit       *)
(*   doomed   what it has decided to delete and not yet deleted, one batch *)
(*            per call of deleteFiles, in the order of the calls           *)
(*                                                                         *)
(* The writer's monitor is held until doomed is empty again.               *)
(***************************************************************************)
EXTENDS Integers, Sequences, FiniteSets
LOCAL INSTANCE Folds
LOCAL INSTANCE SequencesExt

Core(n)        == [kind |-> "core", n |-> n, g |-> 0]
LiveDocs(n, g) == [kind |-> "livedocs", n |-> n, g |-> g]
Segments(g)    == [kind |-> "segments", n |-> 0, g |-> g]
Pending(g)     == [kind |-> "pending", n |-> 0, g |-> g]

\* The segments_N file and the files of the segments of a commit point, or of
\* the infos in memory: a segment has its own files and its live documents.
FilesOf(infos) ==
  {Core(n) : n \in DOMAIN infos}
    \cup {LiveDocs(n, infos[n].del) : n \in {m \in DOMAIN infos : infos[m].del > 0}}

CountOf(d, f) == IF f \in DOMAIN d.refs THEN d.refs[f] ELSE 0

DeleteFiles(d, files) ==
  IF files = {} THEN d ELSE [d EXCEPT !.doomed = Append(d.doomed, files)]

IncRef(d, files) ==
  [d EXCEPT !.refs = [f \in DOMAIN d.refs \cup files |->
                        CountOf(d, f) + (IF f \in files THEN 1 ELSE 0)]]

DecRef(d, files) ==
  LET freed == {f \in files : CountOf(d, f) = 1}
  IN  DeleteFiles(
        [d EXCEPT !.refs = [f \in (DOMAIN d.refs \cup files) \ freed |->
                              CountOf(d, f) - (IF f \in files THEN 1 ELSE 0)]],
        freed)

\* Mutant: the files of the last time are released first.
CheckpointReleasesFirst(d, infos) ==
  [IncRef(DecRef(d, d.last), FilesOf(infos)) EXCEPT !.last = FilesOf(infos)]

\* checkpoint(infos, false): the new files first, then those of the last time.
Checkpoint(d, infos) ==
  [DecRef(IncRef(d, FilesOf(infos)), d.last) EXCEPT !.last = FilesOf(infos)]

\* KeepOnlyLastCommitDeletionPolicy behind SnapshotDeletionPolicy: all commits
\* but the last are deleted, unless a snapshot of them is kept.
Deleted(d, snapshotted) ==
  {i \in 1 .. Len(d.commits) - 1 : d.commits[i].gen \notin snapshotted}

\* onCommit of the policies, then deleteCommits.
DeleteCommits(d, snapshotted) ==
  LET gone == {d.commits[i] : i \in Deleted(d, snapshotted)}
      Gone(c) == c \in gone
      Kept(c) == c \notin gone
      DecRefCommit(e, c) == DecRef(e, c.files)
  IN  [FoldLeft(DecRefCommit, d, SelectSeq(d.commits, Gone))
         EXCEPT !.commits = SelectSeq(d.commits, Kept)]

\* checkpoint(pendingCommit, true).
CheckpointCommit(d, infos, gen, snapshotted) ==
  LET files == FilesOf(infos) \cup {Segments(gen)}
      e == IncRef(d, files)
  IN  DeleteCommits([e EXCEPT !.commits = Append(e.commits, [gen |-> gen, files |-> files])],
                    snapshotted)

\* Files that were never counted, of a flush or merge that failed.
DeleteNewFiles(d, files) == DeleteFiles(d, {f \in files : CountOf(d, f) = 0})

\* refresh(): listing is the directory, without what is about to be deleted.
Refresh(d, listing) == DeleteFiles(d, listing \ DOMAIN d.refs)

\* close(): here the destructor.
Close(d) == [DecRef(d, d.last) EXCEPT !.last = {}]

\* The commits found in the directory when a writer opens.
LoadCommits(listing, contents, gens) ==
  LET found == SetToSortSeq(gens, LAMBDA a, b : a < b)
      Point(g) == [gen |-> g, files |-> FilesOf(contents[g]) \cup {Segments(g)}]
      zero == [refs |-> [f \in listing |-> 0], commits |-> <<>>, last |-> {}, doomed |-> <<>>]
      Load(e, g) == [IncRef(e, Point(g).files) EXCEPT !.commits = Append(e.commits, Point(g))]
  IN  FoldLeft(Load, zero, found)

\* The constructor: count what the commits name, delete what none of them does,
\* let the policy choose, protect the infos of the writer.
Open(listing, contents, gens, infos, snapshotted) ==
  LET d == IF gens = {}
             THEN [refs |-> <<>>, commits |-> <<>>, last |-> {}, doomed |-> <<>>]
             ELSE LoadCommits(listing, contents, gens)
      e == DeleteFiles(d, {f \in DOMAIN d.refs : d.refs[f] = 0})
  IN  DeleteCommits(Checkpoint(e, infos), snapshotted)
==============================================================================
