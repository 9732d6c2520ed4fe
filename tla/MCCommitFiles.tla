---------------------------- MODULE MCCommitFiles ----------------------------
EXTENDS CommitFiles

CONSTANTS NoContent, Corrupt

Work(ks) == [k \in Kinds |-> IF k \in DOMAIN ks THEN ks[k] ELSE 0]

MCWorkloads ==
  {Work([packet |-> 1, merge |-> 1, commit |-> 1, fault |-> 1]),
   Work([packet |-> 1, merge |-> 1, reader |-> 1, commit |-> 1, rollback |-> 1]),
   Work([flush |-> 1, packet |-> 1, commit |-> 2, crash |-> 1, fault |-> 1]),
   Work([flush |-> 1, packet |-> 1, commit |-> 2, reader |-> 1, rollback |-> 1]),
   Work([packet |-> 1, commit |-> 2, snapshot |-> 1, unused |-> 1, rollback |-> 1, create |-> 1]),
   Work([flush |-> 1, merge |-> 1, commit |-> 2, snapshot |-> 1, crash |-> 1]),
   Work([packet |-> 2, commit |-> 2, open |-> 1, crash |-> 1]),
   Work([flush |-> 1, commit |-> 2, open |-> 1, crash |-> 2, rollback |-> 1])}

\* A commit after writing only some of the deletes failed.
MCPartly == {Work([packet |-> 1, commit |-> 2, reader |-> 1, fault |-> 1])}

\* What a crash leaves behind: the last commit whose name is durable, if all of
\* its files are.
DurableContent ==
  LET gs == Gens([files |-> dir.named])
      g  == Max(gs)
  IN  IF gs = {} THEN NoContent
      ELSE IF FilesOf(dir.sis[g].infos) \subseteq dir.named \cap dir.synced
        THEN Content(dir.sis[g].infos) ELSE Corrupt

HeadContent == IF status = "closed" THEN NoContent ELSE Content(ram.infos)

PreparedContent ==
  IF commit.pc \in {"cloned", "written", "prepared", "renamed"} THEN Content(commit.infos)
                                                               ELSE NoContent

MCContents == UNION {[ns -> 0 .. 3] : ns \in SUBSET (0 .. 5)}

Durable == INSTANCE DurableIndex WITH
  Contents <- MCContents, Empty <- Content(NoSegments), None <- NoContent,
  head <- HeadContent, prepared <- PreparedContent, durable <- DurableContent

RefinesDurableIndex == Durable!Spec
==============================================================================
