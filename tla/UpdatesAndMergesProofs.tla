------------------------ MODULE UpdatesAndMergesProofs ------------------------
(***************************************************************************)
(* Deletes for any number of documents, packets and merges: what a packet  *)
(* has deleted stays deleted, it deletes nothing else, and merges keep     *)
(* what they need.                                                         *)
(***************************************************************************)
EXTENDS UpdatesAndMerges, FiniteSetTheorems, SequenceTheorems, WellFoundedInduction, TLAPS

\* The types of a segment, a packet and a merge
Disks == UNION {[D -> Nat] : D \in SUBSET Nat}
Update == [gen : Nat, doc : Nat]
SegmentType == [delGen : Int, live : SUBSET Nat, disk : Disks, pending : SUBSET Update,
                merging : SUBSET Update, isMerging : BOOLEAN]
PacketType == [gen : Nat, kind : Kinds, key : Keys, segment : Nat,
               pc : {"pushed", "open", "resolve", "check", "break"}, mergeGenStart : Nat,
               seen : SUBSET Nat, states : SUBSET Nat, todo : SUBSET Nat]
ReaderType == [segment : Nat, live : SUBSET Nat, disk : Disks]
MergeType == [sources : SUBSET Nat, pc : {"registered", "merge"}, readers : SUBSET ReaderType]
\* The documents of a segment
Docs(s) == DOMAIN segs[s].disk

Types ==
  /\ docs \in Seq([key : Keys, gen : Int])
  /\ asked \subseteq [gen : Nat, kind : Kinds, docs : SUBSET Nat]
  /\ segs \in Seq(SegmentType)
  /\ segmentInfos \subseteq DOMAIN segs /\ pool \subseteq segmentInfos /\ poolReaders \in BOOLEAN
  /\ updates \subseteq PacketType
  /\ nextGen \in Nat /\ completedDelGen \in Nat
  /\ finishedDelGens \subseteq Nat /\ IsFiniteSet(finishedDelGens)
  /\ mergeFinishedGen \in Nat
  /\ merges \subseteq MergeType
  /\ left \in [Calls -> Nat]

\* Generations are given out once, and segments and histories stay within the documents.
GensGiven ==
  /\ nextGen > 0
  /\ \A d \in DOMAIN docs : docs[d].gen < nextGen
  /\ \A a \in asked : a.gen < nextGen /\ a.docs \subseteq DOMAIN docs
  /\ \A s \in DOMAIN segs : segs[s].delGen < nextGen /\ segs[s].delGen >= -1
  /\ \A p \in updates : p.gen > 0 /\ p.gen < nextGen
  /\ \A p, q \in updates : p.gen = q.gen => p = q

SegmentWithin(s) ==
  /\ segs[s].live \subseteq Docs(s) /\ Docs(s) \subseteq DOMAIN docs
  /\ \A u \in segs[s].pending \cup segs[s].merging : u.doc \in Docs(s)
  /\ \A d \in Docs(s) : segs[s].delGen <= docs[d].gen
  /\ s \notin segmentInfos => Docs(s) = {}

SegmentsApart ==
  /\ \A s \in DOMAIN segs : SegmentWithin(s)
  /\ \A s, t \in DOMAIN segs : s # t => Docs(s) \cap Docs(t) = {}

\* The documents that a packet concerns: those before it, or that of its segment
Concerned(p) ==
  {d \in DOMAIN docs : /\ docs[d].key = p.key
                       /\ IF p.segment = None THEN docs[d].gen < p.gen ELSE docs[d].gen = p.gen}

\* What was asked of a packet
Asked(p) ==
  /\ \E a \in asked : a.gen = p.gen
  /\ \A a \in asked : a.gen = p.gen => a.kind = p.kind /\ a.docs = Concerned(p)

\* How the generation of a packet tells the documents it concerns from the others
Reach(p) ==
  /\ p.segment = None => \A d \in DOMAIN docs : docs[d].gen # p.gen
  /\ p.segment # None =>
       /\ p.segment \in DOMAIN segs
       /\ \A s \in DOMAIN segs : \A d \in Docs(s) :
            /\ s = p.segment <=> docs[d].gen = p.gen
            /\ s = p.segment => segs[s].delGen = p.gen
  /\ \A s \in DOMAIN segs : \A d \in Docs(s) : segs[s].delGen <= p.gen => docs[d].gen <= p.gen

\* The segments that a packet has met
Met(p) ==
  /\ p.todo \subseteq p.states /\ p.states \subseteq p.seen /\ p.seen \subseteq DOMAIN segs
  /\ p.pc # "resolve" => p.states = {}
  /\ p.states \cap segmentInfos \subseteq pool
  /\ p.mergeGenStart <= mergeFinishedGen
  /\ \A s \in p.seen : segs[s].delGen <= p.gen /\ p.segment \in {None, s}

\* A live document that a packet still has to delete is in a segment that it has
\* not met, or has open; when it does not look for more it will look again.
Ahead(p) ==
  p.kind = "delete" =>
    \A s \in segmentInfos : \A d \in segs[s].live \cap Concerned(p) :
      /\ p.pc # "break"
      /\ s \in p.seen => s \in p.todo
      /\ p.pc \in {"resolve", "check"} /\ s \notin p.seen =>
            p.segment = None /\ mergeFinishedGen # p.mergeGenStart

PacketOK(p) == Asked(p) /\ Reach(p) /\ Met(p) /\ Ahead(p)

ReaderOK(m, r) ==
  /\ r.segment \in m.sources \cap pool
  /\ segs[r.segment].live \subseteq r.live /\ r.live \subseteq DOMAIN r.disk
  /\ DOMAIN r.disk = Docs(r.segment)

MergeOK(m) ==
  /\ m.sources # {} /\ m.sources \subseteq segmentInfos
  /\ m.pc = "merge" => \A p \in updates, s \in m.sources : segs[s].delGen < p.gen
  /\ \A r \in m.readers : ReaderOK(m, r)

MergesApart ==
  /\ \A m \in merges : MergeOK(m)
  /\ \A m, n \in merges : m # n => m.sources \cap n.sources = {}

\* Every document is live in a segment, or a delete concerns it.
Accounted ==
  \A d \in DOMAIN docs : \/ \E s \in segmentInfos : d \in segs[s].live
                         \/ \E a \in asked : a.kind = "delete" /\ d \in a.docs

Inv == /\ Types /\ GensGiven /\ SegmentsApart /\ (\A p \in updates : PacketOK(p)) /\ MergesApart
       /\ DeletesStick /\ Accounted
-----------------------------------------------------------------------------
\* The largest and the smallest of some numbers.

LEMMA MinOfNaturals ==
  ASSUME NEW S \in SUBSET Nat, S # {}
  PROVE  \E x \in S : \A y \in S : x <= y
<1>1. \E x \in S : \A y \in S : ~(<<y, x>> \in OpToRel(<, Nat))
  BY NatLessThanWellFounded, WFMin
<1>2. PICK x \in S : \A y \in S : ~(<<y, x>> \in OpToRel(<, Nat))
  BY <1>1
<1>3. \A y \in S : ~(y < x)
  BY <1>2 DEF OpToRel
<1> QED BY <1>3

LEMMA MaxProperties ==
  ASSUME NEW S \in SUBSET Int, S # {}, NEW b \in Int, \A x \in S : x <= b
  PROVE  Max(S) \in S /\ \A x \in S : x <= Max(S)
<1> DEFINE T == {n \in Nat : \E x \in S : n = b - x}
<1>1. \A x \in S : b - x \in T
  OBVIOUS
<1>2. T \in SUBSET Nat /\ T # {}
  BY <1>1
<1>3. PICK n \in T : \A k \in T : n <= k
  BY <1>2, MinOfNaturals
<1>4. PICK m \in S : n = b - m
  BY <1>3
<1>5. \A x \in S : m >= x
  BY <1>1, <1>3, <1>4
<1>6. Max(S) \in S /\ \A x \in S : Max(S) >= x
  BY <1>5 DEF Max
<1> QED BY <1>6

LEMMA MinProperties ==
  ASSUME NEW S \in SUBSET Int, S # {}, NEW b \in Int, \A x \in S : b <= x
  PROVE  Min(S) \in S /\ \A x \in S : Min(S) <= x
<1> DEFINE T == {n \in Nat : \E x \in S : n = x - b}
<1>1. \A x \in S : x - b \in T
  OBVIOUS
<1>2. T \in SUBSET Nat /\ T # {}
  BY <1>1
<1>3. PICK n \in T : \A k \in T : n <= k
  BY <1>2, MinOfNaturals
<1>4. PICK m \in S : n = m - b
  BY <1>3
<1>5. \A x \in S : m <= x
  BY <1>1, <1>3, <1>4
<1>6. Min(S) \in S /\ \A x \in S : Min(S) <= x
  BY <1>5 DEF Min
<1> QED BY <1>6

-----------------------------------------------------------------------------
\* What the operations on a segment leave.

LEMMA SegmentProperties ==
  ASSUME NEW g \in Int, NEW disk \in Disks
  PROVE  LET seg == Segment(g, disk) IN
         /\ seg \in SegmentType /\ seg.delGen = g /\ seg.disk = disk /\ seg.live = DOMAIN disk
         /\ seg.pending = {} /\ seg.merging = {}
<1>1. DOMAIN disk \in SUBSET Nat
  BY DEF Disks
<1> QED BY <1>1 DEF Segment, SegmentType

LEMMA GoneProperties ==
  /\ Gone \in SegmentType /\ Gone.delGen = -1 /\ Gone.live = {} /\ DOMAIN Gone.disk = {}
  /\ Gone.pending = {} /\ Gone.merging = {}
<1>1. [d \in {} |-> 0] \in Disks /\ DOMAIN [d \in {} |-> 0] = {}
  <2>1. [d \in {} |-> 0] \in [{} -> Nat] /\ {} \in SUBSET Nat
    OBVIOUS
  <2> QED BY <2>1 DEF Disks
<1>2. -1 \in Int
  OBVIOUS
<1> QED BY <1>1, <1>2, SegmentProperties DEF Gone

\* A segment that keeps its documents, though some of them may be deleted
Changed(seg, new) ==
  /\ new \in SegmentType /\ new.delGen = seg.delGen /\ DOMAIN new.disk = DOMAIN seg.disk
  /\ new.live \subseteq seg.live
  /\ \A u \in new.pending \cup new.merging : u.doc \in DOMAIN seg.disk

\* A segment whose updates are of its own documents
Within(seg) == \A u \in seg.pending \cup seg.merging : u.doc \in DOMAIN seg.disk

LEMMA SameChanged ==
  ASSUME NEW seg \in SegmentType, Within(seg)
  PROVE  Changed(seg, seg)
  BY DEF Changed, Within

LEMMA AddDVUpdateProperties ==
  ASSUME NEW seg \in SegmentType, Within(seg),
         NEW new \in SUBSET Update, \A u \in new : u.doc \in DOMAIN seg.disk
  PROVE  Changed(seg, AddDVUpdate(seg, new)) /\ AddDVUpdate(seg, new).live = seg.live
<1> DEFINE s == AddDVUpdate(seg, new)
<1>1. /\ s \in SegmentType /\ s.delGen = seg.delGen /\ s.disk = seg.disk /\ s.live = seg.live
      /\ s.pending = seg.pending \cup new /\ s.merging \subseteq seg.merging \cup new
  BY DEF AddDVUpdate, SegmentType
<1> QED BY <1>1 DEF Changed, Within

LEMMA WriteFieldUpdatesProperties ==
  ASSUME NEW seg \in SegmentType, Within(seg), completedDelGen \in Nat
  PROVE  /\ Changed(seg, WriteFieldUpdates(seg)) /\ WriteFieldUpdates(seg).live = seg.live
         /\ WriteFieldUpdates(seg).pending \subseteq seg.pending
         /\ WriteFieldUpdates(seg).merging = seg.merging
<1> DEFINE written == {u \in seg.pending : u.gen <= completedDelGen}
           of(d) == {u.gen : u \in {v \in written : v.doc = d}}
           disk == [d \in DOMAIN seg.disk |-> IF of(d) = {} THEN seg.disk[d] ELSE Max(of(d))]
           s == WriteFieldUpdates(seg)
<1>1. s = [seg EXCEPT !.pending = seg.pending \ written, !.disk = disk]
  BY DEF WriteFieldUpdates
<1>2. disk \in Disks
  <2>1. PICK D \in SUBSET Nat : seg.disk \in [D -> Nat]
    BY DEF SegmentType, Disks
  <2>2. ASSUME NEW d \in D PROVE disk[d] \in Nat
    <3>1. disk[d] = IF of(d) = {} THEN seg.disk[d] ELSE Max(of(d))
      BY <2>1
    <3>2. CASE of(d) = {}
      BY <2>1, <3>1, <3>2
    <3>3. CASE of(d) # {}
      <4>1. of(d) \in SUBSET Nat /\ \A x \in of(d) : x <= completedDelGen
        BY DEF SegmentType, Update
      <4>2. Max(of(d)) \in of(d)
        <5> HIDE DEF of
        <5>1. of(d) \in SUBSET Int /\ completedDelGen \in Int
          BY <4>1
        <5> QED BY <3>3, <4>1, <5>1, MaxProperties
      <4> QED BY <3>1, <3>3, <4>1, <4>2
    <3> QED BY <3>2, <3>3
  <2>3. disk \in [D -> Nat]
    BY <2>1, <2>2
  <2> QED BY <2>3 DEF Disks
<1>3. DOMAIN disk = DOMAIN seg.disk
  OBVIOUS
<1>4. /\ s \in SegmentType /\ s.delGen = seg.delGen /\ s.live = seg.live /\ s.disk = disk
      /\ s.pending \subseteq seg.pending /\ s.merging = seg.merging
  <2> HIDE DEF disk, written, s
  <2> QED BY <1>1, <1>2 DEF SegmentType
<1> QED BY <1>3, <1>4 DEF Changed, Within

-----------------------------------------------------------------------------
\* Steps in which segments keep their documents or are dropped.

LEMMA Segments ==
  ASSUME Types
  PROVE  /\ DOMAIN segs = 1 .. Len(segs) /\ Len(segs) \in Nat
         /\ \A s \in DOMAIN segs : segs[s] \in SegmentType
  BY LenProperties, ElementOfSeq DEF Types

LEMMA Documents ==
  ASSUME Types
  PROVE  /\ DOMAIN docs = 1 .. Len(docs) /\ Len(docs) \in Nat
         /\ \A d \in DOMAIN docs : docs[d].gen \in Int /\ docs[d].key \in Keys
<1>1. DOMAIN docs = 1 .. Len(docs) /\ Len(docs) \in Nat
  BY LenProperties DEF Types
<1>2. \A d \in DOMAIN docs : docs[d] \in [key : Keys, gen : Int]
  BY <1>1, ElementOfSeq DEF Types
<1> QED BY <1>1, <1>2

LEMMA SegmentsWithin ==
  ASSUME Types, SegmentsApart
  PROVE  \A s \in DOMAIN segs : segs[s] \in SegmentType /\ Within(segs[s])
  BY Segments DEF SegmentsApart, SegmentWithin, Within, Docs

Shrinks(dropped) ==
  /\ segs' \in Seq(SegmentType) /\ Len(segs') = Len(segs)
  /\ \A s \in DOMAIN segs : IF s \in dropped THEN segs'[s] = Gone ELSE Changed(segs[s], segs'[s])
  /\ segmentInfos' = segmentInfos \ dropped
  /\ \A m \in merges : m.sources \cap dropped = {}
  /\ docs' = docs

LEMMA ShrinksView ==
  ASSUME Types, NEW dropped, Shrinks(dropped)
  PROVE  /\ DOMAIN segs' = DOMAIN segs
         /\ \A s \in DOMAIN segs :
              /\ Docs(s)' \subseteq Docs(s) /\ segs'[s].live \subseteq segs[s].live
              /\ s \notin dropped => Docs(s)' = Docs(s) /\ segs'[s].delGen = segs[s].delGen
              /\ s \in dropped => Docs(s)' = {} /\ segs'[s].delGen = -1
<1>1. DOMAIN segs' = DOMAIN segs
  BY Segments, LenProperties DEF Shrinks
<1> QED BY <1>1, GoneProperties DEF Shrinks, Changed, Docs

LEMMA ShrinksApart ==
  ASSUME Types, SegmentsApart, NEW dropped, Shrinks(dropped)
  PROVE  SegmentsApart'
<1>1. ASSUME NEW s \in DOMAIN segs PROVE SegmentWithin(s)'
  <2>1. SegmentWithin(s)
    BY DEF SegmentsApart
  <2>2. CASE s \in dropped
    <3>1. segs'[s] = Gone
      BY <2>2 DEF Shrinks
    <3> QED BY <3>1, GoneProperties DEF SegmentWithin, Docs
  <2>3. CASE s \notin dropped
    <3>1. /\ segs'[s].live \subseteq segs[s].live /\ Docs(s)' = Docs(s) /\ segs'[s].delGen = segs[s].delGen
          /\ \A u \in segs'[s].pending \cup segs'[s].merging : u.doc \in Docs(s)
          /\ s \in segmentInfos' <=> s \in segmentInfos
          /\ docs' = docs
      BY <2>3 DEF Shrinks, Changed, Docs
    <3> QED BY <2>1, <3>1 DEF SegmentWithin
  <2> QED BY <2>2, <2>3
<1>2. DOMAIN segs' = DOMAIN segs /\ \A s \in DOMAIN segs : Docs(s)' \subseteq Docs(s)
  BY ShrinksView
<1> QED BY <1>1, <1>2 DEF SegmentsApart

LEMMA ShrinksPackets ==
  ASSUME Inv, NEW dropped, Shrinks(dropped), NEW p \in updates
  PROVE  /\ Reach(p)'
         /\ (asked \subseteq asked' /\ \A a \in asked' \ asked : a.gen # p.gen) => Asked(p)'
         /\ ((\A s \in pool \ pool' : s \notin segmentInfos' \/ s \notin p.states)
             /\ mergeFinishedGen' = mergeFinishedGen) => Met(p)'
         /\ mergeFinishedGen' = mergeFinishedGen => Ahead(p)'
<1>1. Reach(p) /\ Asked(p) /\ Met(p) /\ Ahead(p)
  BY DEF Inv, PacketOK
<1>2. /\ DOMAIN segs' = DOMAIN segs /\ docs' = docs /\ segmentInfos' = segmentInfos \ dropped
      /\ \A s \in DOMAIN segs :
           /\ Docs(s)' \subseteq Docs(s) /\ segs'[s].live \subseteq segs[s].live
           /\ s \notin dropped => Docs(s)' = Docs(s) /\ segs'[s].delGen = segs[s].delGen
           /\ s \in dropped => Docs(s)' = {} /\ segs'[s].delGen = -1
  BY ShrinksView DEF Inv, Shrinks
<1>3. Concerned(p)' = Concerned(p)
  BY <1>2 DEF Concerned
<1>4. Reach(p)'
  BY <1>1, <1>2 DEF Reach
<1>5. ASSUME asked \subseteq asked', \A a \in asked' \ asked : a.gen # p.gen
      PROVE  Asked(p)'
  BY <1>1, <1>3, <1>5 DEF Asked
<1>6. ASSUME \A s \in pool \ pool' : s \notin segmentInfos' \/ s \notin p.states,
             mergeFinishedGen' = mergeFinishedGen
      PROVE  Met(p)'
  <2>1. p.gen \in Nat
    BY DEF Inv, Types, PacketType
  <2>2. p.states \cap segmentInfos' \subseteq pool'
    BY <1>1, <1>2, <1>6 DEF Met
  <2>3. \A s \in p.seen : segs'[s].delGen <= p.gen /\ p.segment \in {None, s}
    BY <1>1, <1>2, <2>1 DEF Met
  <2> QED BY <1>1, <1>2, <1>6, <2>2, <2>3 DEF Met
<1>7. mergeFinishedGen' = mergeFinishedGen => Ahead(p)'
  <2>1. segmentInfos \subseteq DOMAIN segs
    BY DEF Inv, Types
  <2> QED BY <1>1, <1>2, <1>3, <2>1 DEF Ahead
<1> QED BY <1>4, <1>5, <1>6, <1>7

LEMMA ShrinksMerges ==
  ASSUME Inv, NEW dropped, Shrinks(dropped), merges' = merges,
         \A q \in updates' : \E p \in updates : p.gen = q.gen,
         \A m \in merges : \A r \in m.readers : r.segment \in pool'
  PROVE  MergesApart'
<1>1. /\ DOMAIN segs' = DOMAIN segs /\ segmentInfos' = segmentInfos \ dropped
      /\ \A m \in merges : m.sources \cap dropped = {}
      /\ \A s \in DOMAIN segs :
           /\ segs'[s].live \subseteq segs[s].live
           /\ s \notin dropped => Docs(s)' = Docs(s) /\ segs'[s].delGen = segs[s].delGen
  BY ShrinksView DEF Inv, Shrinks
<1>2. segmentInfos \subseteq DOMAIN segs
  BY DEF Inv, Types
<1>3. ASSUME NEW m \in merges PROVE MergeOK(m)'
  <2>1. MergeOK(m) /\ \A s \in m.sources : s \in DOMAIN segs /\ s \notin dropped
    BY <1>1, <1>2 DEF Inv, MergesApart, MergeOK
  <2>2. ASSUME NEW r \in m.readers PROVE ReaderOK(m, r)'
    BY <1>1, <2>1, <2>2 DEF MergeOK, ReaderOK
  <2>3. m.sources # {} /\ m.sources \subseteq segmentInfos'
    BY <1>1, <2>1 DEF MergeOK
  <2>4. m.pc = "merge" => \A q \in updates', s \in m.sources : segs'[s].delGen < q.gen
    BY <1>1, <2>1 DEF MergeOK
  <2> QED BY <2>2, <2>3, <2>4 DEF MergeOK
<1> QED BY <1>3 DEF Inv, MergesApart

LEMMA SegmentsSame ==
  ASSUME Inv, UNCHANGED <<docs, segs, segmentInfos>>
  PROVE  Shrinks({})
  BY SegmentsWithin, SameChanged DEF Inv, Types, Shrinks

\* What the histories say stays true while documents are only deleted for a reason.
LEMMA DeletesStay ==
  ASSUME Inv, NEW dropped, Shrinks(dropped), asked' = asked,
         \A p \in updates : \E q \in updates' : q.gen = p.gen
  PROVE  DeletesStick'
<1>1. Live' \subseteq Live
  <2>1. /\ \A s \in DOMAIN segs : segs'[s].live \subseteq segs[s].live
        /\ segmentInfos' \subseteq segmentInfos /\ segmentInfos \subseteq DOMAIN segs
    BY ShrinksView DEF Inv, Types, Shrinks
  <2> QED BY <2>1 DEF Live
<1>2. \A a \in asked : Done(a)' => Done(a)
  BY DEF Done
<1> QED BY <1>1, <1>2 DEF Inv, DeletesStick

LEMMA AccountedStays ==
  ASSUME Inv, docs' = docs, asked \subseteq asked',
         \A s \in segmentInfos : \A d \in segs[s].live :
            \/ s \in segmentInfos' /\ d \in segs'[s].live
            \/ \E a \in asked' : a.kind = "delete" /\ d \in a.docs
  PROVE  Accounted'
<1> SUFFICES ASSUME NEW d \in DOMAIN docs
             PROVE  \/ \E s \in segmentInfos' : d \in segs'[s].live
                    \/ \E a \in asked' : a.kind = "delete" /\ d \in a.docs
  BY DEF Accounted
<1> QED BY DEF Inv, Accounted

LEMMA GensStay ==
  ASSUME Inv, NEW dropped, Shrinks(dropped), UNCHANGED <<nextGen, asked>>,
         \A q \in updates' : \E p \in updates : p.gen = q.gen,
         \A p, q \in updates' : p.gen = q.gen => p = q
  PROVE  GensGiven'
<1>1. /\ DOMAIN segs' = DOMAIN segs /\ docs' = docs /\ nextGen \in Nat /\ nextGen > 0
      /\ \A s \in DOMAIN segs : segs'[s].delGen = segs[s].delGen \/ segs'[s].delGen = -1
  BY ShrinksView DEF Inv, Types, GensGiven, Shrinks
<1> QED BY <1>1 DEF Inv, GensGiven

\* Only the packets that concern the same documents
SameAim(p, q) == q.gen = p.gen /\ q.kind = p.kind /\ q.key = p.key /\ q.segment = p.segment

LEMMA SameAimSame ==
  ASSUME NEW p, NEW q, SameAim(p, q)
  PROVE  /\ Asked(p)' => Asked(q)'
         /\ Reach(p)' => Reach(q)'
         /\ Concerned(q)' = Concerned(p)'
<1>1. Concerned(q)' = Concerned(p)'
  BY DEF SameAim, Concerned
<1> QED BY <1>1 DEF SameAim, Asked, Reach

\* The steps of a packet p, which becomes q
LEMMA PacketSteps ==
  ASSUME Inv, NEW p \in updates, NEW q \in PacketType, SameAim(p, q), Becomes(p, q),
         NEW dropped, Shrinks(dropped),
         UNCHANGED <<asked, poolReaders, genVars, mergeFinishedGen, merges, left>>,
         pool' \subseteq segmentInfos',
         \A o \in updates \ {p} : \A s \in pool \ pool' : s \notin segmentInfos' \/ s \notin o.states,
         \A m \in merges : \A r \in m.readers : r.segment \in pool',
         Met(q)', Ahead(q)', Accounted'
  PROVE  Inv'
<1>1. /\ updates' = (updates \ {p}) \cup {q} /\ q.gen = p.gen
      /\ UNCHANGED <<nextGen, completedDelGen, finishedDelGens>>
  BY DEF Becomes, SameAim, genVars
<1>2. Types'
  BY <1>1, ShrinksView DEF Inv, Types, Shrinks
<1>3. GensGiven'
  <2>1. \A x, y \in updates' : x.gen = y.gen => x = y
    BY <1>1 DEF Inv, GensGiven
  <2> QED BY <1>1, <2>1, GensStay
<1>4. SegmentsApart'
  BY ShrinksApart DEF Inv
<1>5. ASSUME NEW o \in updates' PROVE PacketOK(o)'
  <2>1. CASE o = q
    <3>1. Reach(p)' /\ Asked(p)'
      BY ShrinksPackets
    <3>2. Reach(q)' /\ Asked(q)'
      BY <3>1, SameAimSame
    <3> QED BY <2>1, <3>2 DEF PacketOK
  <2>2. CASE o # q
    <3>1. o \in updates /\ o # p
      BY <1>1, <2>2
    <3>2. \A s \in pool \ pool' : s \notin segmentInfos' \/ s \notin o.states
      BY <3>1
    <3> QED BY <3>1, <3>2, ShrinksPackets DEF PacketOK
  <2> QED BY <2>1, <2>2
<1>6. MergesApart'
  BY <1>1, ShrinksMerges
<1>7. DeletesStick'
  BY <1>1, DeletesStay
<1> QED BY <1>2, <1>3, <1>4, <1>5, <1>6, <1>7 DEF Inv

\* A packet that has changed where it is, and nothing else
LEMMA PacketMoves ==
  ASSUME Inv, NEW p \in updates, NEW q \in PacketType, SameAim(p, q), Becomes(p, q),
         UNCHANGED <<docs, asked, segs, segmentInfos, poolVars, genVars, mergeFinishedGen, merges, left>>,
         Met(q)', Ahead(q)'
  PROVE  Inv'
<1>1. UNCHANGED <<docs, segs, segmentInfos, pool, poolReaders>>
  BY DEF poolVars
<1>2. Shrinks({})
  BY <1>1, SegmentsSame
<1>3. Accounted'
  BY <1>1, AccountedStays
<1>4. /\ pool' \subseteq segmentInfos' /\ \A m \in merges : \A r \in m.readers : r.segment \in pool'
      /\ pool \ pool' = {}
  BY <1>1 DEF Inv, Types, MergesApart, MergeOK, ReaderOK
<1> QED BY <1>1, <1>2, <1>3, <1>4, PacketSteps

LEMMA StartIterationStep == ASSUME Inv, NEW p \in updates, StartIteration(p) PROVE Inv'
<1>1. PICK q : q = [p EXCEPT !.pc = "open", !.mergeGenStart = mergeFinishedGen]
  OBVIOUS
<1>2. /\ Becomes(p, q) /\ p.pc = "pushed"
      /\ UNCHANGED <<docs, asked, segs, segmentInfos, poolVars, genVars, mergeFinishedGen, merges, left>>
      /\ UNCHANGED <<docs, segs, segmentInfos, pool, mergeFinishedGen>>
  BY <1>1 DEF StartIteration, poolVars
<1>3. p \in PacketType /\ mergeFinishedGen \in Nat
  BY DEF Inv, Types
<1>4. /\ q \in PacketType /\ SameAim(p, q) /\ q.pc = "open" /\ q.mergeGenStart = mergeFinishedGen
      /\ q.seen = p.seen /\ q.states = p.states /\ q.todo = p.todo
  BY <1>1, <1>3 DEF PacketType, SameAim
<1>5. Met(p) /\ Ahead(p)
  BY DEF Inv, PacketOK
<1>6. Met(q)'
  BY <1>2, <1>3, <1>4, <1>5 DEF Met, SameAim
<1>7. Ahead(q)'
  BY <1>2, <1>4, <1>5 DEF Ahead, SameAim, Concerned
<1> QED BY <1>2, <1>4, <1>6, <1>7, PacketMoves

LEMMA OpenSegmentStatesStep == ASSUME Inv, NEW p \in updates, OpenSegmentStates(p) PROVE Inv'
<1> DEFINE infos == Unseen(p)
<1>1. /\ p.pc = "open"
      /\ UNCHANGED <<docs, asked, segs, segmentInfos, poolReaders, nextGen, completedDelGen,
                      finishedDelGens, mergeFinishedGen, merges, left>>
  BY DEF OpenSegmentStates, genVars
<1>2. p \in PacketType /\ Met(p) /\ Ahead(p) /\ Reach(p) /\ p.states = {} /\ p.todo = {}
  BY <1>1 DEF Inv, Types, PacketOK, Met
<1>3. pool \subseteq segmentInfos /\ segmentInfos \subseteq DOMAIN segs /\ segmentInfos \subseteq Nat
  BY Segments DEF Inv, Types
<1>4. infos \subseteq segmentInfos /\ infos = {s \in segmentInfos : /\ p.segment \in {None, s}
                                                                    /\ segs[s].delGen <= p.gen
                                                                 /\ s \notin p.seen}
  BY DEF Unseen
<1> HIDE DEF infos
\* every segment with a document of the packet that it has not met is found
<1>5. ASSUME NEW s \in segmentInfos, NEW d \in segs[s].live \cap Concerned(p), s \notin p.seen
      PROVE  s \in infos
  <2>1. d \in Docs(s) /\ d \in DOMAIN docs /\ segs[s].delGen <= docs[d].gen
    BY <1>3, <1>5 DEF Inv, SegmentsApart, SegmentWithin
  <2>2. docs[d].gen <= p.gen /\ p.segment \in {None, s}
    <3>1. p.gen \in Int /\ docs[d].gen \in Int
      BY <1>2, <2>1, Documents DEF PacketType, Inv
    <3>2. CASE p.segment = None
      BY <1>5, <3>1, <3>2 DEF Concerned
    <3>3. CASE p.segment # None
      BY <1>2, <1>3, <1>5, <2>1, <3>1, <3>3 DEF Concerned, Reach
    <3> QED BY <3>2, <3>3
  <2>3. segs[s].delGen \in Int /\ docs[d].gen \in Int /\ p.gen \in Int
    BY <1>2, <1>3, <2>1, Segments, Documents DEF PacketType, SegmentType, Inv
  <2> QED BY <1>4, <1>5, <2>1, <2>2, <2>3
<1>6. CASE infos = {}
  <2>1. PICK q : q = [p EXCEPT !.pc = "break"]
    OBVIOUS
  <2>2. Becomes(p, q) /\ pool' = pool
    BY <1>6, <2>1 DEF OpenSegmentStates, infos
  <2>3. /\ q \in PacketType /\ SameAim(p, q) /\ q.pc = "break" /\ q.mergeGenStart = p.mergeGenStart
        /\ q.seen = p.seen /\ q.states = p.states /\ q.todo = p.todo
    BY <1>2, <2>1 DEF PacketType, SameAim
  <2>4. Met(q)'
    BY <1>1, <1>2, <2>2, <2>3 DEF Met, SameAim
  <2>5. Ahead(q)'
    <3>1. p.kind = "delete" => \A s \in segmentInfos : segs[s].live \cap Concerned(p) = {}
      BY <1>2, <1>5, <1>6 DEF Ahead
    <3> QED BY <1>1, <2>3, <3>1 DEF Ahead, SameAim, Concerned
  <2> QED BY <1>1, <2>2, <2>3, <2>4, <2>5, PacketMoves DEF poolVars, genVars
<1>7. CASE infos # {}
  <2>1. PICK q : q = [p EXCEPT !.pc = "resolve", !.seen = p.seen \cup infos, !.states = infos,
                              !.todo = infos]
    OBVIOUS
  <2>2. Becomes(p, q) /\ pool' = pool \cup infos
    BY <1>7, <2>1 DEF OpenSegmentStates, infos
  <2>3. /\ q \in PacketType /\ SameAim(p, q) /\ q.pc = "resolve" /\ q.mergeGenStart = p.mergeGenStart
        /\ q.seen = p.seen \cup infos /\ q.states = infos /\ q.todo = infos
    BY <1>2, <1>3, <1>4, <2>1 DEF PacketType, SameAim
  <2>4. Met(q)'
    <3>1. q.seen \subseteq DOMAIN segs /\ q.states \cap segmentInfos \subseteq pool'
      BY <1>2, <1>3, <1>4, <2>2, <2>3 DEF Met
    <3>2. \A s \in q.seen : segs[s].delGen <= p.gen /\ p.segment \in {None, s}
      BY <1>2, <1>4, <2>3 DEF Met
    <3> QED BY <1>1, <1>2, <2>3, <3>1, <3>2 DEF Met, SameAim
  <2>5. Ahead(q)'
    <3>1. p.kind = "delete" => \A s \in segmentInfos : \A d \in segs[s].live \cap Concerned(p) : s \in infos
      BY <1>2, <1>5 DEF Ahead
    <3> QED BY <1>1, <2>3, <3>1 DEF Ahead, SameAim, Concerned
  <2>6. Shrinks({}) /\ Accounted'
    BY <1>1, SegmentsSame, AccountedStays
  <2>7. /\ pool' \subseteq segmentInfos' /\ pool \ pool' = {}
        /\ \A m \in merges : \A r \in m.readers : r.segment \in pool'
    BY <1>1, <1>3, <1>4, <2>2 DEF Inv, MergesApart, MergeOK, ReaderOK
  <2> QED BY <1>1, <2>2, <2>3, <2>4, <2>5, <2>6, <2>7, PacketSteps DEF genVars
<1> QED BY <1>6, <1>7

\* The documents that a packet resolves in a segment are those it concerns.
LEMMA MatchesConcerned ==
  ASSUME Inv, NEW p \in updates, NEW s \in p.todo
  PROVE  Matches(p, s) = segs[s].live \cap Concerned(p) /\ s \in DOMAIN segs
<1>1. Reach(p) /\ Met(p) /\ p \in PacketType
  BY DEF Inv, PacketOK, Types
<1>2. s \in DOMAIN segs /\ segs[s].delGen <= p.gen /\ p.segment \in {None, s}
  BY <1>1 DEF Met
<1>3. segs[s].live \subseteq Docs(s) /\ Docs(s) \subseteq DOMAIN docs
  BY <1>2 DEF Inv, SegmentsApart, SegmentWithin
<1>4. ASSUME NEW d \in segs[s].live, docs[d].key = p.key
      PROVE  d \in Concerned(p)
  <2>1. docs[d].gen \in Int /\ p.gen \in Int
    BY <1>1, <1>3, Documents DEF PacketType, Inv
  <2>2. CASE p.segment = None
    BY <1>1, <1>2, <1>3, <1>4, <2>1, <2>2 DEF Reach, Concerned
  <2>3. CASE p.segment # None
    BY <1>1, <1>2, <1>3, <1>4, <2>1, <2>3 DEF Reach, Concerned
  <2> QED BY <2>2, <2>3
<1> QED BY <1>2, <1>3, <1>4 DEF Matches, Concerned

LEMMA ResolveSegmentStep ==
  ASSUME Inv, NEW p \in updates, NEW s \in p.todo, ResolveSegment(p, s) PROVE Inv'
<1> DEFINE seg == segs[s]
           new == IF s \notin pool THEN seg
                  ELSE IF p.kind = "delete" THEN [seg EXCEPT !.live = seg.live \ Matches(p, s)]
                  ELSE AddDVUpdate(seg, {[gen |-> p.gen, doc |-> d] : d \in Matches(p, s)})
<1>1. /\ p.pc = "resolve" /\ segs' = [segs EXCEPT ![s] = new]
      /\ UNCHANGED <<docs, asked, segmentInfos, pool, poolReaders, genVars, mergeFinishedGen, merges, left>>
  BY DEF ResolveSegment, poolVars
<1>2. PICK q : q = [p EXCEPT !.todo = p.todo \ {s}]
  OBVIOUS
<1>3. Becomes(p, q)
  BY <1>2 DEF ResolveSegment
<1>4. p \in PacketType /\ Met(p) /\ Ahead(p)
  BY DEF Inv, Types, PacketOK
<1>5. /\ q \in PacketType /\ SameAim(p, q) /\ q.pc = "resolve" /\ q.mergeGenStart = p.mergeGenStart
      /\ q.seen = p.seen /\ q.states = p.states /\ q.todo = p.todo \ {s}
  BY <1>1, <1>2, <1>4 DEF PacketType, SameAim
<1>6. /\ s \in DOMAIN segs /\ seg \in SegmentType /\ Within(seg)
      /\ Matches(p, s) = seg.live \cap Concerned(p) /\ seg.live \subseteq Docs(s)
  BY MatchesConcerned, SegmentsWithin DEF Inv, SegmentsApart, SegmentWithin
<1>7. Changed(seg, new) /\ (new.live = seg.live \/ (p.kind = "delete" /\ new.live = seg.live \ Concerned(p)))
      /\ (p.kind = "delete" /\ s \in pool => new.live \cap Concerned(p) = {})
  <2>1. CASE s \notin pool
    BY <1>6, <2>1, SameChanged
  <2>2. CASE s \in pool /\ p.kind = "delete"
    <3>1. PICK alive : alive = seg.live \ Matches(p, s)
      OBVIOUS
    <3>2. new = [seg EXCEPT !.live = alive]
      BY <2>2, <3>1
    <3>3. /\ new \in SegmentType /\ new.live = alive /\ new.delGen = seg.delGen /\ new.disk = seg.disk
          /\ new.pending = seg.pending /\ new.merging = seg.merging
      <4> HIDE DEF new
      <4> QED BY <1>6, <3>1, <3>2 DEF SegmentType
    <3> HIDE DEF new
    <3> QED BY <1>6, <2>2, <3>1, <3>3 DEF Changed, Within
  <2>3. CASE s \in pool /\ p.kind # "delete"
    <3>1. PICK up : up = {[gen |-> p.gen, doc |-> d] : d \in Matches(p, s)}
      OBVIOUS
    <3>2. up \in SUBSET Update /\ \A u \in up : u.doc \in DOMAIN seg.disk
      BY <1>4, <1>6, <3>1 DEF PacketType, Update, SegmentType, Docs
    <3>3. new = AddDVUpdate(seg, up)
      BY <2>3, <3>1
    <3> QED BY <1>6, <2>3, <3>2, <3>3, AddDVUpdateProperties
  <2> QED BY <2>1, <2>2, <2>3
<1> HIDE DEF new
<1>8. Shrinks({})
  <2>1. segs \in Seq(SegmentType) /\ new \in SegmentType
    BY <1>7 DEF Inv, Types, Changed
  <2>2. segs' \in Seq(SegmentType) /\ Len(segs') = Len(segs) /\ segs'[s] = new
        /\ \A t \in DOMAIN segs \ {s} : segs'[t] = segs[t]
    BY <1>1, <1>6, <2>1, ExceptSeq, Segments DEF Inv
  <2>3. \A t \in DOMAIN segs : Changed(segs[t], segs'[t])
    BY <1>7, <2>2, SegmentsWithin, SameChanged DEF Inv
  <2> QED BY <1>1, <2>2, <2>3 DEF Shrinks
<1>9. segs'[s] = new /\ \A t \in DOMAIN segs \ {s} : segs'[t] = segs[t]
  BY <1>1, <1>6
<1>10. Met(q)'
  <2>1. Met(p)'
    BY <1>1, <1>8, ShrinksPackets
  <2> QED BY <1>4, <1>5, <2>1, <1>1 DEF Met, SameAim
<1>11. Ahead(q)'
  <2>1. Ahead(p)'
    BY <1>1, <1>8, ShrinksPackets
  <2>2. s \in segmentInfos => s \in pool
    BY <1>4 DEF Met
  <2>3. Concerned(q)' = Concerned(p) /\ Concerned(p)' = Concerned(p)
    BY <1>1, <1>5 DEF Concerned, SameAim
  <2>4. p.kind = "delete" /\ s \in segmentInfos => segs'[s].live \cap Concerned(p) = {}
    BY <1>7, <1>9, <2>2
  <2> QED BY <1>1, <1>5, <2>1, <2>3, <2>4 DEF Ahead, SameAim
<1>12. Accounted'
  <2>1. p.kind = "delete" => \E a \in asked : a.kind = "delete" /\ a.docs = Concerned(p)
    BY DEF Inv, PacketOK, Asked
  <2>2. \A t \in segmentInfos : \A d \in segs[t].live :
            \/ t \in segmentInfos' /\ d \in segs'[t].live
            \/ \E a \in asked' : a.kind = "delete" /\ d \in a.docs
    BY <1>1, <1>7, <1>9, <2>1 DEF Inv, Types
  <2> QED BY <1>1, <2>2, AccountedStays
<1>13. /\ pool' \subseteq segmentInfos' /\ \A m \in merges : \A r \in m.readers : r.segment \in pool'
       /\ pool \ pool' = {}
  BY <1>1 DEF Inv, Types, MergesApart, MergeOK, ReaderOK
<1> QED BY <1>1, <1>3, <1>5, <1>8, <1>10, <1>11, <1>12, <1>13, PacketSteps

LEMMA ReleasedProperties ==
  ASSUME Inv, NEW s \in DOMAIN segs, NEW p
  PROVE  Changed(segs[s], Released(s, p)) /\ Released(s, p).live = segs[s].live
<1>1. segs[s] \in SegmentType /\ Within(segs[s]) /\ completedDelGen \in Nat
  BY SegmentsWithin DEF Inv, Types
<1>2. Released(s, p) = segs[s] \/ Released(s, p) = WriteFieldUpdates(segs[s])
  BY DEF Released
<1> QED BY <1>1, <1>2, SameChanged, WriteFieldUpdatesProperties

LEMMA FinishApplyStep == ASSUME Inv, NEW p \in updates, FinishApply(p) PROVE Inv'
<1>1. PICK dropped : dropped = {s \in p.states \cap pool : Drops(s)}
  OBVIOUS
<1>2. /\ p.pc = "resolve" /\ p.todo = {}
      /\ segs' = [s \in DOMAIN segs |-> IF s \in dropped THEN Gone
                                        ELSE IF s \in p.states THEN Released(s, p) ELSE segs[s]]
      /\ segmentInfos' = segmentInfos \ dropped
      /\ pool' = {s \in pool \ dropped : s \in p.states => ~Closed(s, p)}
      /\ UNCHANGED <<poolReaders, docs, asked, genVars, mergeFinishedGen, merges, left>>
  BY <1>1 DEF FinishApply
<1>3. PICK q : q = [p EXCEPT !.pc = "check", !.states = {}]
  OBVIOUS
<1>4. Becomes(p, q)
  BY <1>3 DEF FinishApply
<1>5. p \in PacketType /\ Met(p) /\ Ahead(p)
  BY DEF Inv, Types, PacketOK
<1>6. /\ q \in PacketType /\ SameAim(p, q) /\ q.pc = "check" /\ q.mergeGenStart = p.mergeGenStart
      /\ q.seen = p.seen /\ q.states = {} /\ q.todo = {}
  BY <1>2, <1>3, <1>5 DEF PacketType, SameAim
<1>7. \A s \in dropped : segs[s].live = {} /\ \A m \in merges : s \notin m.sources
  BY <1>1 DEF Drops, mergingSegments
<1>8. \A s \in DOMAIN segs \ dropped : Changed(segs[s], segs'[s]) /\ segs'[s].live = segs[s].live
  BY <1>2, ReleasedProperties, SegmentsWithin, SameChanged DEF Inv
<1>9. \A s \in DOMAIN segs \cap dropped : segs'[s] = Gone
  BY <1>2
<1>10. segs' \in Seq(SegmentType) /\ Len(segs') = Len(segs)
  <2>1. DOMAIN segs = 1 .. Len(segs) /\ Len(segs) \in Nat /\ DOMAIN segs' = 1 .. Len(segs)
    BY <1>2, Segments DEF Inv
  <2>2. \A s \in DOMAIN segs : segs'[s] \in SegmentType
    BY <1>8, <1>9, GoneProperties DEF Changed
  <2>3. segs' \in [1 .. Len(segs) -> SegmentType]
    BY <1>2, <2>1, <2>2
  <2>4. segs' \in Seq(SegmentType)
    BY <2>1, <2>3, SeqDef
  <2> QED BY <2>1, <2>4, LenProperties
<1>11. Shrinks(dropped)
  BY <1>2, <1>7, <1>8, <1>9, <1>10 DEF Shrinks
<1>12. Met(q)'
  BY <1>2, <1>5, <1>6, <1>11, ShrinksPackets, ShrinksView DEF Met, SameAim, Inv, Types, PacketType
<1>13. Ahead(q)'
  <2>1. Ahead(p)'
    BY <1>2, <1>11, ShrinksPackets
  <2>2. Concerned(q)' = Concerned(p)'
    BY <1>6 DEF Concerned, SameAim
  <2> QED BY <1>2, <1>6, <2>1, <2>2 DEF Ahead, SameAim
<1>14. Accounted'
  BY <1>2, <1>7, <1>8, AccountedStays DEF Inv, Types
<1>15. \A o \in updates \ {p} : \A s \in pool \ pool' : s \notin segmentInfos' \/ s \notin o.states
  BY <1>2 DEF Closed, LastRef
<1>16. pool' \subseteq segmentInfos' /\ \A m \in merges : \A r \in m.readers : r.segment \in pool'
  <2>1. ASSUME NEW m \in merges, NEW r \in m.readers PROVE r.segment \in pool'
    <3>1. r.segment \in pool /\ r.segment \notin dropped
      BY <1>7 DEF Inv, MergesApart, MergeOK, ReaderOK
    <3>2. ~Closed(r.segment, p)
      BY DEF Closed, LastRef, HasReader
    <3> QED BY <1>2, <3>1, <3>2
  <2> QED BY <1>2, <2>1 DEF Inv, Types
<1> QED BY <1>2, <1>4, <1>6, <1>11, <1>12, <1>13, <1>14, <1>15, <1>16, PacketSteps

LEMMA FinishedSegmentTypes ==
  ASSUME Types, NEW gen \in Nat, FinishedSegment(gen)
  PROVE  completedDelGen' \in Nat /\ finishedDelGens' \subseteq Nat /\ IsFiniteSet(finishedDelGens')
<1> DEFINE done == finishedDelGens \cup {gen}
           cs == {c \in completedDelGen .. (completedDelGen + Cardinality(done)) :
                    (completedDelGen + 1) .. c \subseteq done}
<1>1. done \subseteq Nat /\ IsFiniteSet(done) /\ Cardinality(done) \in Nat /\ completedDelGen \in Nat
  BY FS_AddElement, FS_CardinalityType DEF Types
<1>2. completedDelGen' = Max(cs) /\ finishedDelGens' \in SUBSET done
  BY DEF FinishedSegment
<1> HIDE DEF done
<1>3. completedDelGen \in cs
  BY <1>1
<1>4. cs \in SUBSET Int /\ completedDelGen + Cardinality(done) \in Int
      /\ \A c \in cs : c <= completedDelGen + Cardinality(done) /\ c \in Nat
  BY <1>1
<1> HIDE DEF cs
<1>5. Max(cs) \in cs
  BY <1>3, <1>4, MaxProperties
<1>6. IsFiniteSet(finishedDelGens')
  BY <1>1, <1>2, FS_Subset
<1> QED BY <1>1, <1>2, <1>4, <1>5, <1>6

\* A packet leaves when no live document is left for it to delete.
LEMMA FinishedStep ==
  ASSUME Inv, NEW p \in updates, Finished(p),
         UNCHANGED <<docs, asked, segs, segmentInfos, poolVars, mergeFinishedGen, merges, left>>,
         p.kind = "delete" => \A s \in segmentInfos : segs[s].live \cap Concerned(p) = {}
  PROVE  Inv'
<1>1. /\ updates' = updates \ {p} /\ FinishedSegment(p.gen) /\ nextGen' = nextGen
      /\ UNCHANGED <<docs, segs, segmentInfos, pool, poolReaders, mergeFinishedGen>>
  BY DEF Finished, poolVars
<1>2. Shrinks({})
  BY <1>1, SegmentsSame
<1>3. Types'
  <2>1. p.gen \in Nat
    BY DEF Inv, Types, PacketType
  <2>2. completedDelGen' \in Nat /\ finishedDelGens' \subseteq Nat /\ IsFiniteSet(finishedDelGens')
    BY <1>1, <2>1, FinishedSegmentTypes DEF Inv
  <2> QED BY <1>1, <2>2 DEF Inv, Types
<1>4. GensGiven'
  <2>1. \A x, y \in updates' : x.gen = y.gen => x = y
    BY <1>1 DEF Inv, GensGiven
  <2> QED BY <1>1, <1>2, <2>1, GensStay
<1>5. SegmentsApart'
  BY <1>2, ShrinksApart DEF Inv
<1>6. \A o \in updates' : PacketOK(o)'
  BY <1>1, <1>2, ShrinksPackets DEF PacketOK
<1>7. MergesApart'
  BY <1>1, <1>2, ShrinksMerges DEF Inv, MergesApart, MergeOK, ReaderOK
<1>8. DeletesStick'
  <2> SUFFICES ASSUME NEW a \in asked, a.kind = "delete", Done(a)'
               PROVE  a.docs \cap Live = {}
    BY <1>1 DEF DeletesStick, Live
  <2>1. CASE a.gen # p.gen
    BY <1>1, <2>1 DEF Done, Inv, DeletesStick
  <2>2. CASE a.gen = p.gen
    <3>1. p.kind = "delete" /\ a.docs = Concerned(p)
      BY <2>2 DEF Inv, PacketOK, Asked
    <3> QED BY <3>1 DEF Live
  <2> QED BY <2>1, <2>2
<1>9. Accounted'
  BY <1>1, AccountedStays
<1> QED BY <1>3, <1>4, <1>5, <1>6, <1>7, <1>8, <1>9 DEF Inv

LEMMA CheckMergeGenStep == ASSUME Inv, NEW p \in updates, CheckMergeGen(p) PROVE Inv'
<1>1. /\ p.pc = "check"
      /\ UNCHANGED <<docs, asked, segs, segmentInfos, poolVars, mergeFinishedGen, merges, left>>
      /\ UNCHANGED <<docs, segs, segmentInfos, pool, mergeFinishedGen>>
  BY DEF CheckMergeGen, poolVars
<1>2. p \in PacketType /\ Met(p) /\ Ahead(p) /\ p.todo = {}
  BY <1>1 DEF Inv, Types, PacketOK, Met
<1>3. ASSUME NEW pc \in {"pushed", "break"}, Becomes(p, [p EXCEPT !.pc = pc]), UNCHANGED genVars,
             pc = "break" => p.segment # None
      PROVE  Inv'
  <2>1. PICK q : q = [p EXCEPT !.pc = pc]
    OBVIOUS
  <2>2. /\ q \in PacketType /\ SameAim(p, q) /\ q.pc = pc /\ q.mergeGenStart = p.mergeGenStart
        /\ q.seen = p.seen /\ q.states = p.states /\ q.todo = p.todo
    BY <1>2, <2>1 DEF PacketType, SameAim
  <2>3. Met(q)'
    BY <1>1, <1>2, <2>2 DEF Met, SameAim
  <2>4. Ahead(q)'
    BY <1>1, <1>2, <1>3, <2>2 DEF Ahead, SameAim, Concerned
  <2> QED BY <1>1, <1>3, <2>1, <2>2, <2>3, <2>4, PacketMoves
<1>4. CASE p.segment # None
  BY <1>3, <1>4 DEF CheckMergeGen
<1>5. CASE p.segment = None /\ mergeFinishedGen = p.mergeGenStart
  <2>1. Finished(p)
    BY <1>5 DEF CheckMergeGen
  <2>2. p.kind = "delete" => \A s \in segmentInfos : segs[s].live \cap Concerned(p) = {}
    BY <1>1, <1>2, <1>5 DEF Ahead
  <2> QED BY <1>1, <2>1, <2>2, FinishedStep
<1>6. CASE p.segment = None /\ mergeFinishedGen # p.mergeGenStart
  BY <1>3, <1>6 DEF CheckMergeGen
<1> QED BY <1>4, <1>5, <1>6

LEMMA FinishUnlockedStep == ASSUME Inv, NEW p \in updates, FinishUnlocked(p) PROVE Inv'
<1>1. /\ p.pc = "break" /\ Finished(p)
      /\ UNCHANGED <<docs, asked, segs, segmentInfos, poolVars, mergeFinishedGen, merges, left>>
  BY DEF FinishUnlocked
<1>2. p.kind = "delete" => \A s \in segmentInfos : segs[s].live \cap Concerned(p) = {}
  BY <1>1 DEF Inv, PacketOK, Ahead
<1> QED BY <1>1, <1>2, FinishedStep

\* The steps that change segments, and neither packets nor merges
LEMMA SegmentSteps ==
  ASSUME Inv, NEW dropped, Shrinks(dropped), Types', nextGen' >= nextGen,
         UNCHANGED <<updates, mergeFinishedGen, merges>>, pool' = pool \ dropped,
         asked \subseteq asked',
         \A a \in asked' \ asked : /\ a.gen \in {0, nextGen} /\ a.gen < nextGen' /\ a.docs \subseteq DOMAIN docs
                                   /\ a.kind = "delete" => a.docs \cap Live' = {},
         Accounted'
  PROVE  Inv'
<1>1. /\ DOMAIN segs' = DOMAIN segs /\ docs' = docs /\ segmentInfos' = segmentInfos \ dropped
      /\ \A s \in DOMAIN segs : /\ segs'[s].delGen = segs[s].delGen \/ segs'[s].delGen = -1
                                /\ segs'[s].live \subseteq segs[s].live
  BY ShrinksView DEF Inv, Shrinks
<1>2. GensGiven'
  <2>1. /\ nextGen \in Nat /\ nextGen' \in Nat
        /\ \A d \in DOMAIN docs : docs[d].gen \in Int
        /\ \A a \in asked : a.gen \in Nat
        /\ \A s \in DOMAIN segs : segs[s].delGen \in Int
        /\ \A p \in updates : p.gen \in Nat
    BY Documents, Segments DEF Inv, Types, SegmentType, PacketType
  <2>2. GensGiven
    BY DEF Inv
  <2>3. nextGen' > 0 /\ \A d \in DOMAIN docs' : docs'[d].gen < nextGen'
    BY <1>1, <2>1, <2>2 DEF GensGiven
  <2>4. \A a \in asked' : a.gen < nextGen' /\ a.docs \subseteq DOMAIN docs'
    BY <1>1, <2>1, <2>2 DEF GensGiven
  <2>5. ASSUME NEW s \in DOMAIN segs' PROVE segs'[s].delGen < nextGen' /\ segs'[s].delGen >= -1
    <3>1. /\ segs[s].delGen \in Int /\ segs[s].delGen < nextGen /\ segs[s].delGen >= -1
          /\ segs'[s].delGen = segs[s].delGen \/ segs'[s].delGen = -1
      BY <1>1, <2>1, <2>2 DEF GensGiven
    <3> QED BY <2>1, <2>3, <3>1
  <2>6. \A p \in updates' : p.gen > 0 /\ p.gen < nextGen'
    BY <2>1, <2>2 DEF GensGiven
  <2> QED BY <2>2, <2>3, <2>4, <2>5, <2>6 DEF GensGiven
<1>3. SegmentsApart'
  BY ShrinksApart DEF Inv
<1>4. ASSUME NEW p \in updates PROVE PacketOK(p)'
  <2>1. \A a \in asked' \ asked : a.gen # p.gen
    <3>1. p.gen > 0 /\ p.gen < nextGen /\ p.gen \in Nat /\ nextGen \in Nat
      BY DEF Inv, GensGiven, Types, PacketType
    <3> QED BY <3>1
  <2>2. \A s \in pool \ pool' : s \notin segmentInfos'
    BY <1>1
  <2> QED BY <2>1, <2>2, ShrinksPackets DEF PacketOK
<1>5. MergesApart'
  <2>1. \A m \in merges : \A r \in m.readers : r.segment \in pool'
    BY DEF Inv, MergesApart, MergeOK, ReaderOK, Shrinks
  <2> QED BY <2>1, ShrinksMerges
<1>6. DeletesStick'
  <2>1. Live' \subseteq Live
    BY <1>1 DEF Inv, Types, Live
  <2>2. \A a \in asked : Done(a)' <=> Done(a)
    BY DEF Done
  <2>3. \A a \in asked : a.kind = "delete" /\ Done(a)' => a.docs \cap Live' = {}
    BY <2>1, <2>2 DEF Inv, DeletesStick
  <2> QED BY <2>3 DEF DeletesStick
<1> QED BY <1>2, <1>3, <1>4, <1>5, <1>6 DEF Inv

\* Updates are written, or segments without a live document dropped.
LEMMA QuietSegmentSteps ==
  ASSUME Inv, NEW dropped, dropped \in SUBSET segmentInfos,
         UNCHANGED <<docs, asked, updates, genVars, mergeFinishedGen, merges, left>>,
         \A s \in dropped : segs[s].live = {} /\ s \notin mergingSegments,
         DOMAIN segs' = DOMAIN segs, segs' = [s \in DOMAIN segs |-> segs'[s]],
         \A s \in DOMAIN segs : \/ s \in dropped /\ segs'[s] = Gone
                                \/ s \notin dropped /\ segs'[s] \in {segs[s], WriteFieldUpdates(segs[s])},
         segmentInfos' = segmentInfos \ dropped, pool' = pool \ dropped, poolReaders' \in BOOLEAN
  PROVE  Inv'
<1>1. \A s \in DOMAIN segs \ dropped : Changed(segs[s], segs'[s]) /\ segs'[s].live = segs[s].live
  BY SegmentsWithin, SameChanged, WriteFieldUpdatesProperties DEF Inv, Types
<1>2. segs' \in Seq(SegmentType) /\ Len(segs') = Len(segs)
  <2>1. DOMAIN segs = 1 .. Len(segs) /\ Len(segs) \in Nat
    BY Segments DEF Inv
  <2>2. \A s \in DOMAIN segs : segs'[s] \in SegmentType
    BY <1>1, GoneProperties DEF Changed
  <2>3. segs' \in [1 .. Len(segs) -> SegmentType]
    BY <2>1, <2>2
  <2>4. segs' \in Seq(SegmentType)
    BY <2>1, <2>3, SeqDef
  <2> QED BY <2>1, <2>4, LenProperties
<1>3. Shrinks(dropped)
  BY <1>1, <1>2 DEF Shrinks, mergingSegments
<1>4. Types'
  BY <1>2 DEF Inv, Types, genVars
<1>5. Accounted'
  BY <1>1, AccountedStays DEF Inv, Types
<1>6. nextGen' >= nextGen
  BY DEF Inv, Types, genVars
<1> QED BY <1>3, <1>4, <1>5, <1>6, SegmentSteps

LEMMA NothingDropped ==
  ASSUME Inv,
         UNCHANGED <<docs, asked, segmentInfos, pool, updates, genVars, mergeFinishedGen, merges, left>>,
         DOMAIN segs' = DOMAIN segs, segs' = [s \in DOMAIN segs |-> segs'[s]],
         \A s \in DOMAIN segs : segs'[s] \in {segs[s], WriteFieldUpdates(segs[s])},
         poolReaders' \in BOOLEAN
  PROVE  Inv'
<1>1. PICK dropped : dropped = {}
  OBVIOUS
<1>2. dropped \in SUBSET segmentInfos /\ \A s \in dropped : segs[s].live = {} /\ s \notin mergingSegments
  BY <1>1
<1>3. segmentInfos' = segmentInfos \ dropped /\ pool' = pool \ dropped
  BY <1>1
<1>4. \A s \in DOMAIN segs : \/ s \in dropped /\ segs'[s] = Gone
                             \/ s \notin dropped /\ segs'[s] \in {segs[s], WriteFieldUpdates(segs[s])}
  BY <1>1
<1> QED BY <1>2, <1>3, <1>4, QuietSegmentSteps

LEMMA WriteDocValuesUpdatesStep == ASSUME Inv, NEW s \in DOMAIN segs, WriteDocValuesUpdates(s) PROVE Inv'
<1>1. /\ segs' = [segs EXCEPT ![s] = WriteFieldUpdates(segs[s])]
      /\ UNCHANGED <<docs, asked, segmentInfos, pool, poolReaders, updates, genVars, mergeFinishedGen, merges, left>>
  BY DEF WriteDocValuesUpdates, poolVars
<1>2. segs \in [DOMAIN segs -> SegmentType] /\ poolReaders \in BOOLEAN
  BY Segments, LenProperties DEF Inv, Types
<1>3. /\ DOMAIN segs' = DOMAIN segs /\ segs' = [t \in DOMAIN segs |-> segs'[t]]
      /\ \A t \in DOMAIN segs : segs'[t] \in {segs[t], WriteFieldUpdates(segs[t])}
  BY <1>1, <1>2
<1> QED BY <1>1, <1>2, <1>3, NothingDropped

LEMMA WriteReaderPoolStep == ASSUME Inv, WriteReaderPool PROVE Inv'
<1>1. PICK dropped : dropped = {s \in segmentInfos \cap pool : Drops(s)}
  OBVIOUS
<1>2. /\ segs' = [s \in DOMAIN segs |-> IF s \in dropped THEN Gone
                                      ELSE IF s \in pool THEN WriteFieldUpdates(segs[s]) ELSE segs[s]]
      /\ segmentInfos' = segmentInfos \ dropped /\ pool' = pool \ dropped
      /\ UNCHANGED <<docs, asked, poolReaders, updates, genVars, mergeFinishedGen, merges, left>>
  BY <1>1 DEF WriteReaderPool
<1>3. \A s \in dropped : segs[s].live = {} /\ s \notin mergingSegments
  BY <1>1 DEF Drops
<1>4. poolReaders' \in BOOLEAN /\ dropped \in SUBSET segmentInfos
  BY <1>1, <1>2 DEF Inv, Types
<1>5. /\ DOMAIN segs' = DOMAIN segs /\ segs' = [s \in DOMAIN segs |-> segs'[s]]
      /\ \A s \in DOMAIN segs : \/ s \in dropped /\ segs'[s] = Gone
                                \/ s \notin dropped /\ segs'[s] \in {segs[s], WriteFieldUpdates(segs[s])}
  BY <1>2
<1> QED BY <1>2, <1>3, <1>4, <1>5, QuietSegmentSteps

LEMMA EnableReaderPoolingStep == ASSUME Inv, EnableReaderPooling PROVE Inv'
<1>1. segs = [s \in DOMAIN segs |-> segs[s]]
  BY Segments, LenProperties DEF Inv, Types
<1>2. /\ UNCHANGED <<docs, asked, segs, segmentInfos, pool, updates, genVars, mergeFinishedGen, merges, left>>
      /\ poolReaders' \in BOOLEAN
  BY DEF EnableReaderPooling
<1>3. \A t \in DOMAIN segs : segs'[t] \in {segs[t], WriteFieldUpdates(segs[t])}
  BY <1>2
<1> QED BY <1>1, <1>2, <1>3, NothingDropped

LEMMA StutteringStep == ASSUME Inv, UNCHANGED vars PROVE Inv'
<1>1. segs = [s \in DOMAIN segs |-> segs[s]] /\ poolReaders \in BOOLEAN
  BY Segments, LenProperties DEF Inv, Types
<1>2. /\ UNCHANGED <<docs, asked, segs, segmentInfos, pool, updates, genVars, mergeFinishedGen, merges, left>>
      /\ poolReaders' \in BOOLEAN
  BY <1>1 DEF vars, poolVars
<1>3. \A t \in DOMAIN segs : segs'[t] \in {segs[t], WriteFieldUpdates(segs[t])}
  BY <1>2
<1> QED BY <1>1, <1>2, <1>3, NothingDropped

LEMMA TryUpdateDocValueStep ==
  ASSUME Inv, NEW s \in DOMAIN segs, NEW d \in segs[s].live, TryUpdateDocValue(s, d) PROVE Inv'
<1>1. PICK new : new = AddDVUpdate(segs[s], {[gen |-> nextGen, doc |-> d]})
  OBVIOUS
<1>2. PICK a : a = [gen |-> nextGen, kind |-> "update", docs |-> {d}]
  OBVIOUS
<1>3. /\ segs' = [segs EXCEPT ![s] = new] /\ asked' = asked \cup {a} /\ nextGen' = nextGen + 1
      /\ FinishedSegment(nextGen) /\ Call("tryUpdate")
      /\ UNCHANGED <<docs, segmentInfos, pool, poolReaders, updates, mergeFinishedGen, merges>>
  BY <1>1, <1>2 DEF TryUpdateDocValue, poolVars
<1>4. /\ segs[s] \in SegmentType /\ Within(segs[s]) /\ d \in DOMAIN segs[s].disk /\ d \in DOMAIN docs
      /\ d \in Nat /\ nextGen \in Nat
  BY SegmentsWithin DEF Inv, Types, SegmentType, SegmentsApart, SegmentWithin, Docs
<1>5. Changed(segs[s], new) /\ new.live = segs[s].live
  <2>1. [gen |-> nextGen, doc |-> d] \in Update
    BY <1>4 DEF Update
  <2> QED BY <1>1, <1>4, <2>1, AddDVUpdateProperties
<1>6. /\ segs' \in Seq(SegmentType) /\ Len(segs') = Len(segs) /\ segs'[s] = new
      /\ \A t \in DOMAIN segs \ {s} : segs'[t] = segs[t]
  BY <1>3, <1>5, ExceptSeq, Segments DEF Inv, Types, Changed
<1>7. \A t \in DOMAIN segs : Changed(segs[t], segs'[t]) /\ segs'[t].live = segs[t].live
  BY <1>5, <1>6, SegmentsWithin, SameChanged DEF Inv
<1>8. Shrinks({})
  BY <1>3, <1>6, <1>7 DEF Shrinks
<1>9. Types'
  <2>1. completedDelGen' \in Nat /\ finishedDelGens' \subseteq Nat /\ IsFiniteSet(finishedDelGens')
    BY <1>3, <1>4, FinishedSegmentTypes DEF Inv
  <2>2. a \in [gen : Nat, kind : Kinds, docs : SUBSET Nat]
    BY <1>2, <1>4 DEF Kinds
  <2>3. left' \in [Calls -> Nat]
    BY <1>3 DEF Call, Inv, Types, Calls
  <2>4. DOMAIN segs' = DOMAIN segs
    BY <1>3
  <2> QED BY <1>3, <1>4, <1>6, <2>1, <2>2, <2>3, <2>4 DEF Inv, Types
<1>10. Accounted'
  BY <1>3, <1>7, AccountedStays DEF Inv, Types
<1>11. nextGen' >= nextGen /\ nextGen < nextGen'
  BY <1>3, <1>4
<1>12. pool' = pool \ {}
  BY <1>3
<1>13. \A b \in asked' \ asked : /\ b.gen \in {0, nextGen} /\ b.gen < nextGen' /\ b.docs \subseteq DOMAIN docs
                                 /\ b.kind = "delete" => b.docs \cap Live' = {}
  BY <1>2, <1>3, <1>4, <1>11
<1> QED BY <1>3, <1>8, <1>9, <1>10, <1>11, <1>12, <1>13, SegmentSteps

LEMMA TryDeleteDocumentStep ==
  ASSUME Inv, NEW s \in DOMAIN segs, NEW d \in segs[s].live, TryDeleteDocument(s, d) PROVE Inv'
<1>1. PICK seg : seg = [segs[s] EXCEPT !.live = segs[s].live \ {d}]
  OBVIOUS
<1>2. PICK dropped : dropped = IF seg.live = {} /\ s \notin mergingSegments THEN {s} ELSE {}
  OBVIOUS
<1>3. PICK new : new = IF s \in dropped THEN Gone ELSE seg
  OBVIOUS
<1>4. PICK a : a = [gen |-> 0, kind |-> "delete", docs |-> {d}]
  OBVIOUS
<1>5. s \in segmentInfos \cap pool /\ Call("tryDelete") /\ asked' = asked \cup {a}
  BY <1>4 DEF TryDeleteDocument
<1>6. segs' = [segs EXCEPT ![s] = new]
  BY <1>1, <1>2, <1>3 DEF TryDeleteDocument
<1>7. segmentInfos' = segmentInfos \ dropped /\ pool' = pool \ dropped
  BY <1>1, <1>2 DEF TryDeleteDocument
<1>8. UNCHANGED <<docs, poolReaders, updates, nextGen, completedDelGen, finishedDelGens, mergeFinishedGen, merges>>
  BY DEF TryDeleteDocument, genVars
<1>9. /\ segs[s] \in SegmentType /\ Within(segs[s]) /\ d \in Docs(s) /\ d \in DOMAIN docs
      /\ d \in Nat /\ nextGen \in Nat /\ nextGen > 0
  BY SegmentsWithin DEF Inv, Types, SegmentType, SegmentsApart, SegmentWithin, GensGiven
<1>10. Changed(segs[s], seg) /\ seg.live = segs[s].live \ {d}
  <2>1. /\ seg \in SegmentType /\ seg.live = segs[s].live \ {d} /\ seg.delGen = segs[s].delGen
        /\ seg.disk = segs[s].disk /\ seg.pending = segs[s].pending /\ seg.merging = segs[s].merging
    BY <1>1, <1>9 DEF SegmentType
  <2> QED BY <1>9, <2>1 DEF Changed, Within
<1>11. new \in SegmentType /\ new.live \subseteq segs[s].live \ {d}
  BY <1>3, <1>10, GoneProperties DEF Changed
<1>12. /\ segs' \in Seq(SegmentType) /\ Len(segs') = Len(segs) /\ segs'[s] = new
       /\ \A t \in DOMAIN segs \ {s} : segs'[t] = segs[t]
  BY <1>6, <1>11, ExceptSeq, Segments DEF Inv, Types
<1>13. Shrinks(dropped)
  <2>1. \A t \in DOMAIN segs : IF t \in dropped THEN segs'[t] = Gone ELSE Changed(segs[t], segs'[t])
    BY <1>2, <1>3, <1>10, <1>12, SegmentsWithin, SameChanged DEF Inv
  <2>2. \A m \in merges : m.sources \cap dropped = {}
    BY <1>2 DEF mergingSegments
  <2> QED BY <1>7, <1>8, <1>12, <2>1, <2>2 DEF Shrinks
<1>14. Types'
  <2>1. a \in [gen : Nat, kind : Kinds, docs : SUBSET Nat]
    BY <1>4, <1>9 DEF Kinds
  <2>2. left' \in [Calls -> Nat]
    BY <1>5 DEF Call, Inv, Types, Calls
  <2>3. DOMAIN segs' = DOMAIN segs
    BY <1>6
  <2> QED BY <1>5, <1>7, <1>8, <1>12, <2>1, <2>2, <2>3 DEF Inv, Types
<1>15. Accounted'
  <2>1. a \in asked' /\ a.kind = "delete" /\ d \in a.docs
    BY <1>4, <1>5
  <2>2. ASSUME NEW t \in segmentInfos, NEW e \in segs[t].live, e # d
        PROVE  t \in segmentInfos' /\ e \in segs'[t].live
    <3>1. CASE t # s
      BY <1>2, <1>7, <1>12, <2>2, <3>1 DEF Inv, Types
    <3>2. CASE t = s
      BY <1>2, <1>3, <1>7, <1>10, <1>12, <2>2, <3>2
    <3> QED BY <3>1, <3>2
  <2> QED BY <1>5, <1>8, <2>1, <2>2, AccountedStays
<1>16. ASSUME NEW b \in asked' \ asked
       PROVE  /\ b.gen \in {0, nextGen} /\ b.gen < nextGen' /\ b.docs \subseteq DOMAIN docs
              /\ b.kind = "delete" => b.docs \cap Live' = {}
  <2>1. b = a /\ b.gen = 0 /\ b.docs = {d}
    BY <1>4, <1>5
  <2>2. ASSUME NEW t \in segmentInfos' PROVE d \notin segs'[t].live
    <3>1. t \in DOMAIN segs
      BY <1>7 DEF Inv, Types
    <3>2. CASE t = s
      BY <1>11, <1>12, <3>2
    <3>3. CASE t # s
      BY <1>9, <1>12, <3>1, <3>3 DEF Inv, SegmentsApart, SegmentWithin
    <3> QED BY <3>2, <3>3
  <2>3. 0 < nextGen'
    BY <1>8, <1>9
  <2> QED BY <1>9, <2>1, <2>2, <2>3 DEF Live
<1>17. nextGen' >= nextGen
  BY <1>8, <1>9
<1> QED BY <1>5, <1>7, <1>8, <1>13, <1>14, <1>15, <1>16, <1>17, SegmentSteps

-----------------------------------------------------------------------------
\* The steps that register a merge or advance it

LEMMA MergeSteps ==
  ASSUME Inv, Shrinks({}), left' \in [Calls -> Nat],
         UNCHANGED <<asked, poolReaders, updates, nextGen, completedDelGen, finishedDelGens, mergeFinishedGen>>,
         \A s \in DOMAIN segs : segs'[s].live = segs[s].live,
         pool \subseteq pool', pool' \subseteq segmentInfos,
         NEW others \in SUBSET merges, NEW m \in MergeType, merges' = others \cup {m},
         \A o \in others : o.sources \cap m.sources = {}, MergeOK(m)'
  PROVE  Inv'
<1>1. /\ DOMAIN segs' = DOMAIN segs /\ docs' = docs /\ segmentInfos' = segmentInfos
      /\ \A s \in DOMAIN segs : Docs(s)' = Docs(s) /\ segs'[s].delGen = segs[s].delGen
  <2>1. docs' = docs /\ segmentInfos' = segmentInfos
    BY DEF Shrinks
  <2>2. DOMAIN segs' = DOMAIN segs /\ \A s \in DOMAIN segs : Docs(s)' = Docs(s) /\ segs'[s].delGen = segs[s].delGen
    BY ShrinksView DEF Inv
  <2> QED BY <2>1, <2>2
<1>2. Types'
  BY <1>1 DEF Inv, Types, Shrinks
<1>3. GensGiven'
  BY <1>1 DEF Inv, GensGiven
<1>4. SegmentsApart'
  BY ShrinksApart DEF Inv
<1>5. \A p \in updates : PacketOK(p)'
  BY ShrinksPackets DEF PacketOK
<1>6. MergesApart'
  <2>1. ASSUME NEW o \in others PROVE MergeOK(o)'
    <3>1. MergeOK(o) /\ o.sources \subseteq DOMAIN segs
      BY DEF Inv, MergesApart, MergeOK, Types
    <3>2. \A r \in o.readers : ReaderOK(o, r)'
      BY <1>1, <3>1 DEF MergeOK, ReaderOK
    <3> QED BY <1>1, <3>1, <3>2 DEF MergeOK
  <2>2. \A x, y \in merges' : x # y => x.sources \cap y.sources = {}
    BY DEF Inv, MergesApart
  <2> QED BY <2>1, <2>2 DEF MergesApart
<1>7. DeletesStick'
  BY DeletesStay
<1>8. Accounted'
  BY <1>1, AccountedStays DEF Inv, Types
<1> QED BY <1>2, <1>3, <1>4, <1>5, <1>6, <1>7, <1>8 DEF Inv

LEMMA RegisterMergeStep ==
  ASSUME Inv, NEW sources \in SUBSET segmentInfos, RegisterMerge(sources) PROVE Inv'
<1>1. PICK m : m = [sources |-> sources, pc |-> "registered", readers |-> {}]
  OBVIOUS
<1>2. /\ sources # {} /\ sources \cap mergingSegments = {} /\ merges' = merges \cup {m} /\ Call("merge")
      /\ UNCHANGED <<docs, asked, segs, segmentInfos, pool, poolReaders, updates, nextGen, completedDelGen,
                     finishedDelGens, mergeFinishedGen>>
  BY <1>1 DEF RegisterMerge, poolVars, genVars
<1>3. m \in MergeType /\ m.sources = sources /\ m.pc # "merge" /\ m.readers = {}
  <2>1. sources \in SUBSET Nat
    BY Segments DEF Inv, Types
  <2> QED BY <1>1, <2>1 DEF MergeType
<1>4. MergeOK(m)'
  BY <1>2, <1>3 DEF MergeOK
<1>5. \A o \in merges : o.sources \cap m.sources = {}
  BY <1>2, <1>3 DEF mergingSegments
<1>6. Shrinks({}) /\ left' \in [Calls -> Nat] /\ pool' \subseteq segmentInfos
  BY <1>2, SegmentsSame DEF Call, Inv, Types, Calls
<1> QED BY <1>2, <1>3, <1>4, <1>5, <1>6, MergeSteps

LEMMA MergeInitStep == ASSUME Inv, NEW m \in merges, MergeInit(m) PROVE Inv'
<1>1. PICK n : n = [m EXCEPT !.pc = "merge"]
  OBVIOUS
<1>2. /\ AppliedForMerge(m) /\ merges' = (merges \ {m}) \cup {n}
      /\ segs' = [s \in DOMAIN segs |-> IF s \in m.sources \cap pool THEN PreparedForMerge(s) ELSE segs[s]]
      /\ UNCHANGED <<docs, asked, segmentInfos, pool, poolReaders, updates, nextGen, completedDelGen,
                     finishedDelGens, mergeFinishedGen, left>>
  BY <1>1 DEF MergeInit, poolVars, genVars
<1>3. m \in MergeType /\ MergeOK(m) /\ m.sources \subseteq DOMAIN segs
  BY DEF Inv, Types, MergesApart, MergeOK
<1>4. n \in MergeType /\ n.sources = m.sources /\ n.readers = m.readers
  BY <1>1, <1>3 DEF MergeType
<1>5. ASSUME NEW s \in DOMAIN segs PROVE Changed(segs[s], segs'[s]) /\ segs'[s].live = segs[s].live
  <2>1. segs[s] \in SegmentType /\ Within(segs[s]) /\ completedDelGen \in Nat
    BY SegmentsWithin DEF Inv, Types
  <2>2. CASE s \notin m.sources \cap pool
    BY <1>2, <2>1, <2>2, SameChanged
  <2>3. CASE s \in m.sources \cap pool
    <3>1. PICK written : written = WriteFieldUpdates(segs[s])
      OBVIOUS
    <3>2. segs'[s] = [written EXCEPT !.isMerging = TRUE]
      BY <1>2, <2>3, <3>1 DEF PreparedForMerge
    <3>3. Changed(segs[s], written) /\ written.live = segs[s].live /\ written \in SegmentType
      BY <2>1, <3>1, WriteFieldUpdatesProperties DEF Changed
    <3>4. /\ segs'[s] \in SegmentType /\ segs'[s].live = written.live /\ segs'[s].disk = written.disk
          /\ segs'[s].delGen = written.delGen /\ segs'[s].pending = written.pending
          /\ segs'[s].merging = written.merging
      BY <3>2, <3>3 DEF SegmentType
    <3> QED BY <3>3, <3>4 DEF Changed
  <2> QED BY <2>2, <2>3
<1>6. Shrinks({})
  <2>1. DOMAIN segs = 1 .. Len(segs) /\ Len(segs) \in Nat /\ DOMAIN segs' = DOMAIN segs
    BY <1>2, Segments DEF Inv
  <2>2. \A s \in DOMAIN segs : segs'[s] \in SegmentType
    BY <1>5 DEF Changed
  <2>3. segs' \in [1 .. Len(segs) -> SegmentType]
    BY <1>2, <2>1, <2>2
  <2>4. segs' \in Seq(SegmentType)
    BY <2>1, <2>3, SeqDef
  <2>5. Len(segs') = Len(segs)
    BY <2>1, <2>4, LenProperties
  <2> QED BY <1>2, <1>5, <2>4, <2>5 DEF Shrinks
<1>7. \A p \in updates, s \in m.sources : segs[s].delGen < p.gen
  <2>1. PICK gens : gens = {segs[s].delGen : s \in m.sources}
    OBVIOUS
  <2>2. gens \in SUBSET Int /\ gens # {} /\ nextGen \in Int /\ \A g \in gens : g <= nextGen
    <3>1. \A s \in m.sources : segs[s].delGen \in Int /\ segs[s].delGen < nextGen
      BY <1>3, Segments DEF Inv, GensGiven, SegmentType
    <3>2. nextGen \in Int
      BY DEF Inv, Types
    <3> QED BY <1>3, <2>1, <3>1, <3>2 DEF MergeOK
  <2>3. Max(gens) \in gens /\ \A g \in gens : g <= Max(gens)
    BY <2>2, MaxProperties
  <2>4. \A p \in updates : p.gen \in Int /\ p.gen > Max(gens)
    BY <1>2, <2>1 DEF AppliedForMerge, Inv, Types, PacketType
  <2>5. ASSUME NEW p \in updates, NEW g \in gens PROVE g < p.gen
    <3>1. g \in Int /\ Max(gens) \in Int /\ p.gen \in Int /\ g <= Max(gens) /\ p.gen > Max(gens)
      BY <2>2, <2>3, <2>4
    <3> QED BY <3>1
  <2> QED BY <2>1, <2>5
<1>8. /\ DOMAIN segs' = DOMAIN segs /\ \A s \in DOMAIN segs : Docs(s)' = Docs(s) /\ segs'[s].delGen = segs[s].delGen
  BY <1>6, ShrinksView DEF Inv
<1>9. MergeOK(n)'
  <2>1. \A r \in n.readers : ReaderOK(n, r)'
    BY <1>2, <1>3, <1>4, <1>5, <1>8 DEF MergeOK, ReaderOK
  <2> QED BY <1>2, <1>3, <1>4, <1>7, <1>8, <2>1 DEF MergeOK
<1>10. \A o \in merges \ {m} : o.sources \cap n.sources = {}
  BY <1>4 DEF Inv, MergesApart
<1>11. left' \in [Calls -> Nat] /\ pool' \subseteq segmentInfos
  BY <1>2 DEF Inv, Types
<1> QED BY <1>2, <1>4, <1>5, <1>6, <1>9, <1>10, <1>11, MergeSteps

LEMMA GetReaderForMergeStep ==
  ASSUME Inv, NEW m \in merges, NEW s \in m.sources, GetReaderForMerge(m, s) PROVE Inv'
<1>1. PICK seg : seg = segs[s]
  OBVIOUS
<1>2. PICK r : r = [segment |-> s, live |-> seg.live, disk |-> seg.disk]
  OBVIOUS
<1>3. PICK n : n = [m EXCEPT !.readers = m.readers \cup {r}]
  OBVIOUS
<1>4. PICK new : new = [seg EXCEPT !.isMerging = TRUE, !.merging = seg.merging \cup seg.pending]
  OBVIOUS
<1>5. /\ m.pc = "merge" /\ pool' = pool \cup {s} /\ merges' = (merges \ {m}) \cup {n}
      /\ UNCHANGED <<docs, asked, segmentInfos, poolReaders, updates, nextGen, completedDelGen,
                     finishedDelGens, mergeFinishedGen, left>>
  BY <1>1, <1>2, <1>3 DEF GetReaderForMerge, genVars
<1>6. m \in MergeType /\ MergeOK(m) /\ s \in DOMAIN segs /\ s \in segmentInfos
  BY DEF Inv, Types, MergesApart, MergeOK
<1>7. segs \in [DOMAIN segs -> SegmentType] /\ seg \in SegmentType /\ Within(seg)
  BY <1>1, <1>6, SegmentsWithin, LenProperties, Segments DEF Inv, Types
<1>8. segs' = [segs EXCEPT ![s] = new]
  <2>1. segs' = [segs EXCEPT ![s].isMerging = TRUE, ![s].merging = segs[s].merging \cup segs[s].pending]
    BY DEF GetReaderForMerge
  <2> QED BY <1>1, <1>4, <1>6, <1>7, <2>1
<1>9. /\ new \in SegmentType /\ new.live = seg.live /\ new.disk = seg.disk /\ new.delGen = seg.delGen
      /\ new.pending = seg.pending /\ new.merging = seg.merging \cup seg.pending
  BY <1>4, <1>7 DEF SegmentType
<1>10. Changed(seg, new)
  BY <1>7, <1>9 DEF Changed, Within
<1>11. /\ segs' \in Seq(SegmentType) /\ Len(segs') = Len(segs) /\ segs'[s] = new
       /\ \A t \in DOMAIN segs \ {s} : segs'[t] = segs[t]
  BY <1>6, <1>8, <1>9, ExceptSeq, Segments DEF Inv, Types
<1>12. \A t \in DOMAIN segs : Changed(segs[t], segs'[t]) /\ segs'[t].live = segs[t].live
  BY <1>1, <1>9, <1>10, <1>11, SegmentsWithin, SameChanged DEF Inv
<1>13. Shrinks({})
  BY <1>5, <1>11, <1>12 DEF Shrinks
<1>14. r \in ReaderType /\ r.segment = s /\ r.live = seg.live /\ r.disk = seg.disk
  BY <1>2, <1>6, <1>7, Segments DEF ReaderType, SegmentType, Inv
<1>15. n \in MergeType /\ n.sources = m.sources /\ n.pc = m.pc /\ n.readers = m.readers \cup {r}
  BY <1>3, <1>6, <1>14 DEF MergeType
<1>16. /\ DOMAIN segs' = DOMAIN segs /\ \A t \in DOMAIN segs : Docs(t)' = Docs(t) /\ segs'[t].delGen = segs[t].delGen
  BY <1>13, ShrinksView DEF Inv
<1>17. MergeOK(n)'
  <2>1. m.sources \subseteq DOMAIN segs
    BY <1>6 DEF MergeOK, Inv, Types
  <2>2. \A x \in m.readers : ReaderOK(n, x)'
    BY <1>5, <1>6, <1>12, <1>15, <1>16, <2>1 DEF MergeOK, ReaderOK
  <2>3. ReaderOK(n, r)'
    <3>1. seg.live \subseteq DOMAIN seg.disk /\ Docs(s)' = DOMAIN seg.disk
      BY <1>1, <1>6, <1>16 DEF Docs, Inv, SegmentsApart, SegmentWithin
    <3> QED BY <1>5, <1>9, <1>11, <1>14, <1>15, <3>1 DEF ReaderOK
  <2> QED BY <1>5, <1>6, <1>15, <1>16, <2>1, <2>2, <2>3 DEF MergeOK
<1>18. \A o \in merges \ {m} : o.sources \cap n.sources = {}
  BY <1>15 DEF Inv, MergesApart
<1>19. left' \in [Calls -> Nat] /\ pool \subseteq pool' /\ pool' \subseteq segmentInfos
  BY <1>5, <1>6 DEF Inv, Types
<1> QED BY <1>5, <1>12, <1>13, <1>15, <1>17, <1>18, <1>19, MergeSteps

-----------------------------------------------------------------------------
\* The steps that publish a packet, a segment or both: what is new has the next generation.

Publishes ==
  /\ nextGen' = nextGen + 1 /\ UNCHANGED <<pool, mergeFinishedGen, merges>>
  /\ DOMAIN docs \subseteq DOMAIN docs' /\ \A d \in DOMAIN docs : docs'[d] = docs[d]
  /\ \A d \in DOMAIN docs' \ DOMAIN docs : docs'[d].gen = nextGen
  /\ DOMAIN segs \subseteq DOMAIN segs' /\ \A s \in DOMAIN segs : segs'[s] = segs[s]
  /\ segmentInfos \subseteq segmentInfos' /\ (segmentInfos' \ segmentInfos) \cap DOMAIN segs = {}
  /\ \A s \in DOMAIN segs' \ DOMAIN segs :
        segs'[s].delGen = nextGen /\ Docs(s)' \subseteq DOMAIN docs' \ DOMAIN docs
  /\ updates \subseteq updates' /\ \A p \in updates' \ updates : p.gen = nextGen
  /\ asked \subseteq asked' /\ \A a \in asked' \ asked : a.gen = nextGen

\* What was published before stays as it was.
LEMMA PublishesPackets ==
  ASSUME Inv, Publishes, SegmentsApart', Types', NEW p \in updates
  PROVE  PacketOK(p)'
<1>1. Asked(p) /\ Reach(p) /\ Met(p) /\ Ahead(p)
  BY DEF Inv, PacketOK
<1>2. p.gen \in Nat /\ p.gen < nextGen /\ nextGen \in Nat /\ p.gen # nextGen
  BY DEF Inv, GensGiven, Types, PacketType
<1>3. Concerned(p)' = Concerned(p)
  BY <1>2 DEF Publishes, Concerned
<1>4. Asked(p)'
  BY <1>1, <1>2, <1>3 DEF Publishes, Asked
<1>5. \A s \in DOMAIN segs : Docs(s)' = Docs(s) /\ Docs(s) \subseteq DOMAIN docs
  BY DEF Publishes, Docs, Inv, SegmentsApart, SegmentWithin
<1>6. Reach(p)'
  <2>1. p.segment = None => \A d \in DOMAIN docs' : docs'[d].gen # p.gen
    BY <1>1, <1>2 DEF Publishes, Reach
  <2>2. ASSUME NEW s \in DOMAIN segs', NEW d \in Docs(s)'
        PROVE  /\ p.segment # None => /\ s = p.segment <=> docs'[d].gen = p.gen
                                      /\ s = p.segment => segs'[s].delGen = p.gen
               /\ segs'[s].delGen <= p.gen => docs'[d].gen <= p.gen
    <3>1. CASE s \in DOMAIN segs
      <4>1. segs'[s] = segs[s] /\ d \in Docs(s) /\ docs'[d] = docs[d]
        BY <1>5, <2>2, <3>1 DEF Publishes
      <4> QED BY <1>1, <3>1, <4>1 DEF Reach
    <3>2. CASE s \notin DOMAIN segs
      <4>1. segs'[s].delGen = nextGen /\ docs'[d].gen = nextGen
        BY <2>2, <3>2 DEF Publishes
      <4> QED BY <1>1, <1>2, <3>2, <4>1 DEF Reach
    <3> QED BY <3>1, <3>2
  <2>3. p.segment # None => p.segment \in DOMAIN segs'
    BY <1>1 DEF Reach, Publishes
  <2> QED BY <2>1, <2>2, <2>3 DEF Reach
<1>7. Met(p)'
  BY <1>1 DEF Met, Publishes
<1>8. Ahead(p)'
  <2>1. ASSUME NEW s \in segmentInfos', NEW d \in segs'[s].live \cap Concerned(p)
        PROVE  s \in segmentInfos /\ d \in segs[s].live
    <3>1. CASE s \in DOMAIN segs
      BY <2>1, <3>1 DEF Publishes
    <3>2. CASE s \notin DOMAIN segs
      <4>1. s \in DOMAIN segs' /\ d \in Docs(s)'
        BY <2>1 DEF Types, SegmentsApart, SegmentWithin
      <4>2. d \notin DOMAIN docs
        BY <3>2, <4>1 DEF Publishes
      <4> QED BY <2>1, <4>2 DEF Concerned
    <3> QED BY <3>1, <3>2
  <2> QED BY <1>1, <1>3, <2>1 DEF Ahead, Publishes
<1> QED BY <1>4, <1>6, <1>7, <1>8 DEF PacketOK

LEMMA PublishesMerges ==
  ASSUME Inv, Publishes
  PROVE  MergesApart'
<1>1. ASSUME NEW m \in merges PROVE MergeOK(m)'
  <2>1. MergeOK(m) /\ m.sources \subseteq DOMAIN segs
    BY DEF Inv, MergesApart, MergeOK, Types
  <2>2. ASSUME m.pc = "merge", NEW p \in updates', NEW s \in m.sources PROVE segs'[s].delGen < p.gen
    <3>1. segs'[s].delGen = segs[s].delGen /\ segs[s].delGen < nextGen
      BY <2>1 DEF Publishes, Inv, GensGiven
    <3> QED BY <2>1, <2>2, <3>1 DEF MergeOK, Publishes
  <2>3. \A r \in m.readers : ReaderOK(m, r)'
    BY <2>1 DEF MergeOK, ReaderOK, Docs, Publishes
  <2>4. m.sources # {} /\ m.sources \subseteq segmentInfos'
    BY <2>1 DEF MergeOK, Publishes
  <2> QED BY <2>2, <2>3, <2>4 DEF MergeOK
<1> QED BY <1>1 DEF Inv, MergesApart, Publishes

LEMMA PublishSteps ==
  ASSUME Inv, Publishes, SegmentsApart', Types',
         \A p, q \in updates' \ updates : p = q,
         \A p \in updates' \ updates : PacketOK(p)',
         \A a \in asked' \ asked : a.docs \subseteq DOMAIN docs' /\ \E p \in updates' : p.gen = nextGen,
         \A d \in DOMAIN docs' \ DOMAIN docs : \E s \in segmentInfos' : d \in segs'[s].live
  PROVE  Inv'
<1>1. /\ nextGen \in Nat /\ nextGen > 0
      /\ \A d \in DOMAIN docs : docs[d].gen \in Int /\ docs[d].gen < nextGen
      /\ \A s \in DOMAIN segs : segs[s].delGen \in Int /\ segs[s].delGen < nextGen /\ segs[s].delGen >= -1
      /\ \A p \in updates : p.gen \in Nat /\ p.gen > 0 /\ p.gen < nextGen
      /\ \A a \in asked : a.gen \in Nat /\ a.gen < nextGen /\ a.docs \subseteq DOMAIN docs
  BY Documents, Segments DEF Inv, GensGiven, Types, SegmentType, PacketType
<1>2. GensGiven'
  <2>1. nextGen' > 0 /\ nextGen' = nextGen + 1
    BY <1>1 DEF Publishes
  <2>2. ASSUME NEW d \in DOMAIN docs' PROVE docs'[d].gen < nextGen'
    <3>1. docs'[d].gen = nextGen \/ (docs'[d].gen \in Int /\ docs'[d].gen < nextGen)
      BY <1>1 DEF Publishes
    <3> QED BY <1>1, <2>1, <3>1
  <2>3. ASSUME NEW s \in DOMAIN segs' PROVE segs'[s].delGen < nextGen' /\ segs'[s].delGen >= -1
    <3>1. \/ segs'[s].delGen = nextGen
          \/ segs'[s].delGen \in Int /\ segs'[s].delGen < nextGen /\ segs'[s].delGen >= -1
      BY <1>1 DEF Publishes
    <3> QED BY <1>1, <2>1, <3>1
  <2>4. ASSUME NEW p \in updates' PROVE p.gen > 0 /\ p.gen < nextGen'
    <3>1. p.gen = nextGen \/ (p.gen \in Nat /\ p.gen > 0 /\ p.gen < nextGen)
      BY <1>1 DEF Publishes
    <3> QED BY <1>1, <2>1, <3>1
  <2>5. ASSUME NEW a \in asked' PROVE a.gen < nextGen' /\ a.docs \subseteq DOMAIN docs'
    <3>1. a.gen = nextGen \/ (a.gen \in Nat /\ a.gen < nextGen)
      BY <1>1 DEF Publishes
    <3>2. a.docs \subseteq DOMAIN docs'
      BY <1>1 DEF Publishes
    <3> QED BY <1>1, <2>1, <3>1, <3>2
  <2>6. ASSUME NEW p \in updates', NEW q \in updates', p.gen = q.gen PROVE p = q
    <3>1. (p \in updates <=> p.gen # nextGen) /\ (q \in updates <=> q.gen # nextGen)
      BY <1>1 DEF Publishes
    <3> QED BY <2>6, <3>1 DEF Inv, GensGiven
  <2> QED BY <2>1, <2>2, <2>3, <2>4, <2>5, <2>6 DEF GensGiven
<1>3. \A p \in updates' : PacketOK(p)'
  BY PublishesPackets
<1>4. MergesApart'
  BY PublishesMerges
<1>5. DeletesStick'
  <2> SUFFICES ASSUME NEW a \in asked', a.kind = "delete", Done(a)'
               PROVE  a.docs \cap Live' = {}
    BY DEF DeletesStick
  <2>1. a \in asked
    BY DEF Done, Publishes
  <2>2. Done(a)
    BY DEF Done, Publishes
  <2>3. ASSUME NEW s \in segmentInfos', NEW d \in segs'[s].live PROVE d \notin a.docs
    <3>1. CASE s \in segmentInfos
      BY <2>1, <2>2, <2>3, <3>1 DEF Inv, DeletesStick, Live, Publishes, Types
    <3>2. CASE s \notin segmentInfos
      <4>1. s \in DOMAIN segs' /\ s \notin DOMAIN segs /\ d \in Docs(s)'
        BY <2>3, <3>2 DEF Types, SegmentsApart, SegmentWithin, Publishes
      <4> QED BY <1>1, <2>1, <4>1 DEF Publishes
    <3> QED BY <3>1, <3>2
  <2> QED BY <2>3 DEF Live
<1>6. Accounted'
  <2> SUFFICES ASSUME NEW d \in DOMAIN docs'
               PROVE  \/ \E s \in segmentInfos' : d \in segs'[s].live
                      \/ \E a \in asked' : a.kind = "delete" /\ d \in a.docs
    BY DEF Accounted
  <2>1. CASE d \in DOMAIN docs
    <3>1. CASE \E s \in segmentInfos : d \in segs[s].live
      BY <3>1 DEF Publishes, Inv, Types
    <3>2. CASE \E a \in asked : a.kind = "delete" /\ d \in a.docs
      BY <3>2 DEF Publishes
    <3> QED BY <2>1, <3>1, <3>2 DEF Inv, Accounted
  <2>2. CASE d \notin DOMAIN docs
    BY <2>2
  <2> QED BY <2>1, <2>2
<1> QED BY <1>2, <1>3, <1>4, <1>5, <1>6 DEF Inv

LEMMA PacketProperties ==
  ASSUME Inv, NEW kind \in Kinds, NEW key \in Keys, NEW segment \in Nat
  PROVE  LET p == Packet(kind, key, segment) IN
         /\ p \in PacketType /\ p.gen = nextGen /\ p.kind = kind /\ p.key = key /\ p.segment = segment
         /\ p.pc = "pushed" /\ p.mergeGenStart = 0 /\ p.seen = {} /\ p.states = {} /\ p.todo = {}
  BY DEF Packet, PacketType, Inv, Types

LEMMA PublishFrozenUpdatesStep ==
  ASSUME Inv, NEW kind \in Kinds, NEW key \in Keys, PublishFrozenUpdates(kind, key) PROVE Inv'
<1>1. PICK p : p = Packet(kind, key, None)
  OBVIOUS
<1>2. PICK a : a = [gen |-> nextGen, kind |-> kind, docs |-> {d \in DOMAIN docs : docs[d].key = key}]
  OBVIOUS
<1>3. /\ updates' = updates \cup {p} /\ asked' = asked \cup {a} /\ nextGen' = nextGen + 1 /\ Call(kind)
      /\ UNCHANGED <<docs, segs, segmentInfos, pool, poolReaders, completedDelGen, finishedDelGens,
                     mergeFinishedGen, merges>>
  BY <1>1, <1>2 DEF PublishFrozenUpdates, poolVars
<1>4. /\ p \in PacketType /\ p.gen = nextGen /\ p.kind = kind /\ p.key = key /\ p.segment = None
      /\ p.pc = "pushed" /\ p.mergeGenStart = 0 /\ p.seen = {} /\ p.states = {} /\ p.todo = {}
  <2>1. None \in Nat
    BY DEF None
  <2> QED BY <1>1, <2>1, PacketProperties
<1>5. /\ nextGen \in Nat /\ \A d \in DOMAIN docs : docs[d].gen \in Int /\ docs[d].gen < nextGen
      /\ DOMAIN docs \subseteq Nat
      /\ \A s \in DOMAIN segs : segs[s].delGen < nextGen
      /\ \A s \in DOMAIN segs : Docs(s) \subseteq DOMAIN docs
      /\ \A b \in asked : b.gen \in Nat /\ b.gen < nextGen
  BY Documents DEF Inv, Types, GensGiven, SegmentsApart, SegmentWithin
<1>6. Publishes
  BY <1>2, <1>3, <1>4 DEF Publishes
<1>7. Types'
  <2>1. a \in [gen : Nat, kind : Kinds, docs : SUBSET Nat]
    BY <1>2, <1>5
  <2>2. left' \in [Calls -> Nat]
    BY <1>3 DEF Call, Inv, Types, Calls, Kinds
  <2> QED BY <1>3, <1>4, <1>5, <2>1, <2>2 DEF Inv, Types
<1>8. SegmentsApart'
  BY <1>3 DEF Inv, SegmentsApart, SegmentWithin, Docs
<1>9. PacketOK(p)'
  <2>1. Concerned(p)' = a.docs
    BY <1>2, <1>3, <1>4, <1>5 DEF Concerned
  <2>2. \A b \in asked' : b.gen = p.gen => b = a
    BY <1>3, <1>4, <1>5
  <2>3. Asked(p)'
    BY <1>2, <1>3, <1>4, <2>1, <2>2 DEF Asked
  <2>4. Reach(p)'
    <3>1. \A d \in DOMAIN docs : docs[d].gen # p.gen /\ docs[d].gen <= p.gen
      BY <1>4, <1>5
    <3> QED BY <1>3, <1>4, <1>5, <3>1 DEF Reach, Docs
  <2>5. Met(p)'
    BY <1>3, <1>4 DEF Met, Inv, Types
  <2>6. Ahead(p)'
    BY <1>4 DEF Ahead
  <2> QED BY <2>3, <2>4, <2>5, <2>6 DEF PacketOK
<1>10. /\ \A x, y \in updates' \ updates : x = y
       /\ \A x \in updates' \ updates : PacketOK(x)'
       /\ \A b \in asked' \ asked : b.docs \subseteq DOMAIN docs' /\ \E x \in updates' : x.gen = nextGen
       /\ DOMAIN docs' = DOMAIN docs
  BY <1>2, <1>3, <1>4, <1>9
<1> QED BY <1>6, <1>7, <1>8, <1>10, PublishSteps

LEMMA PublishFlushedSegmentStep ==
  ASSUME Inv, NEW key \in Keys, NEW private \in Kinds \cup {"none"}, PublishFlushedSegment(key, private)
  PROVE  Inv'
<1>1. PICK d : d = Len(docs) + 1
  OBVIOUS
<1>2. PICK s : s = Len(segs) + 1
  OBVIOUS
<1>3. PICK new : new = Segment(nextGen, [e \in {d} |-> 0])
  OBVIOUS
<1>4. PICK a : a = [gen |-> nextGen, kind |-> private, docs |-> {d}]
  OBVIOUS
<1>5. PICK p : p = Packet(private, key, s)
  OBVIOUS
<1>6. /\ docs' = Append(docs, [key |-> key, gen |-> nextGen]) /\ segs' = Append(segs, new)
      /\ segmentInfos' = segmentInfos \cup {s} /\ nextGen' = nextGen + 1
      /\ UNCHANGED <<pool, poolReaders, mergeFinishedGen, merges>>
  BY <1>1, <1>2, <1>3 DEF PublishFlushedSegment, poolVars
<1>7. IF private = "none"
        THEN FinishedSegment(nextGen) /\ UNCHANGED <<updates, asked>>
        ELSE /\ updates' = updates \cup {p} /\ asked' = asked \cup {a}
             /\ UNCHANGED <<completedDelGen, finishedDelGens>>
  BY <1>1, <1>2, <1>4, <1>5 DEF PublishFlushedSegment
<1>8. /\ DOMAIN docs = 1 .. Len(docs) /\ Len(docs) \in Nat /\ d \in Nat /\ d \notin DOMAIN docs
      /\ DOMAIN segs = 1 .. Len(segs) /\ Len(segs) \in Nat /\ s \in Nat /\ s \notin DOMAIN segs
      /\ s # None /\ nextGen \in Nat
  BY <1>1, <1>2, Documents, Segments DEF Inv, Types, None
<1>9. /\ docs' \in Seq([key : Keys, gen : Int]) /\ DOMAIN docs' = DOMAIN docs \cup {d}
      /\ docs'[d] = [key |-> key, gen |-> nextGen] /\ \A e \in DOMAIN docs : docs'[e] = docs[e]
  <2>1. docs \in Seq([key : Keys, gen : Int]) /\ [key |-> key, gen |-> nextGen] \in [key : Keys, gen : Int]
    BY <1>8 DEF Inv, Types
  <2>2. /\ docs' \in Seq([key : Keys, gen : Int]) /\ Len(docs') = d
        /\ docs'[d] = [key |-> key, gen |-> nextGen] /\ \A e \in 1 .. Len(docs) : docs'[e] = docs[e]
    BY <1>1, <1>6, <2>1, AppendProperties
  <2>3. DOMAIN docs' = 1 .. d
    BY <2>2, LenProperties
  <2> QED BY <1>1, <1>8, <2>2, <2>3
<1>10. /\ new \in SegmentType /\ new.delGen = nextGen /\ DOMAIN new.disk = {d} /\ new.live = {d}
       /\ new.pending = {} /\ new.merging = {}
  <2>1. PICK disk : disk = [e \in {d} |-> 0]
    OBVIOUS
  <2>2. disk \in [{d} -> Nat] /\ {d} \in SUBSET Nat /\ DOMAIN disk = {d}
    BY <1>8, <2>1
  <2>3. disk \in Disks
    BY <2>2 DEF Disks
  <2> QED BY <1>3, <1>8, <2>1, <2>2, <2>3, SegmentProperties
<1>11. /\ segs' \in Seq(SegmentType) /\ DOMAIN segs' = DOMAIN segs \cup {s}
       /\ segs'[s] = new /\ \A t \in DOMAIN segs : segs'[t] = segs[t]
  <2>1. segs \in Seq(SegmentType)
    BY DEF Inv, Types
  <2>2. /\ segs' \in Seq(SegmentType) /\ Len(segs') = s
        /\ segs'[s] = new /\ \A t \in 1 .. Len(segs) : segs'[t] = segs[t]
    BY <1>2, <1>6, <1>10, <2>1, AppendProperties
  <2>3. DOMAIN segs' = 1 .. s
    BY <2>2, LenProperties
  <2> QED BY <1>2, <1>8, <2>2, <2>3
<1>12. private # "none" =>
         /\ p \in PacketType /\ p.gen = nextGen /\ p.kind = private /\ p.key = key /\ p.segment = s
         /\ p.pc = "pushed" /\ p.mergeGenStart = 0 /\ p.seen = {} /\ p.states = {} /\ p.todo = {}
  BY <1>5, <1>8, PacketProperties
<1>13. Types'
  <2>1. left' \in [Calls -> Nat]
    <3>1. left \in [Calls -> Nat]
      BY DEF Inv, Types
    <3>2. /\ \A what \in Calls \cap {"flush", private} : left[what] > 0
          /\ left' = [what \in Calls |-> IF what \in {"flush", private} THEN left[what] - 1 ELSE left[what]]
      BY DEF PublishFlushedSegment
    <3>3. \A what \in Calls : left'[what] \in Nat
      BY <3>1, <3>2
    <3> QED BY <3>2, <3>3
  <2>2. completedDelGen' \in Nat /\ finishedDelGens' \subseteq Nat /\ IsFiniteSet(finishedDelGens')
    BY <1>7, <1>8, FinishedSegmentTypes DEF Inv, Types
  <2>3. updates' \subseteq PacketType
    BY <1>7, <1>12 DEF Inv, Types
  <2>4. asked' \subseteq [gen : Nat, kind : Kinds, docs : SUBSET Nat]
    BY <1>4, <1>7, <1>8 DEF Inv, Types
  <2>5. segmentInfos' \subseteq DOMAIN segs' /\ pool' \subseteq segmentInfos'
    BY <1>6, <1>11 DEF Inv, Types
  <2> QED BY <1>6, <1>8, <1>9, <1>11, <2>1, <2>2, <2>3, <2>4, <2>5 DEF Inv, Types
<1>14. Docs(s)' = {d} /\ \A t \in DOMAIN segs : Docs(t)' = Docs(t) /\ Docs(t) \subseteq DOMAIN docs
  BY <1>10, <1>11 DEF Docs, Inv, SegmentsApart, SegmentWithin
<1>15. Publishes
  <2>1. updates \subseteq updates' /\ \A x \in updates' \ updates : x.gen = nextGen
    BY <1>7, <1>12
  <2>2. asked \subseteq asked' /\ \A x \in asked' \ asked : x.gen = nextGen
    BY <1>4, <1>7
  <2>3. \A t \in DOMAIN segs' \ DOMAIN segs : segs'[t].delGen = nextGen /\ Docs(t)' \subseteq DOMAIN docs' \ DOMAIN docs
    BY <1>8, <1>9, <1>10, <1>11, <1>14
  <2>4. \A e \in DOMAIN docs' \ DOMAIN docs : docs'[e].gen = nextGen
    BY <1>9
  <2> QED BY <1>6, <1>8, <1>9, <1>11, <2>1, <2>2, <2>3, <2>4 DEF Publishes
<1>16. SegmentsApart'
  <2>1. SegmentWithin(s)'
    <3>1. docs'[d].gen = nextGen /\ nextGen <= nextGen
      BY <1>8, <1>9
    <3> QED BY <1>6, <1>9, <1>10, <1>11, <1>14, <3>1 DEF SegmentWithin
  <2>2. ASSUME NEW t \in DOMAIN segs PROVE SegmentWithin(t)'
    <3>1. SegmentWithin(t) /\ t # s
      BY <1>8 DEF Inv, SegmentsApart
    <3> QED BY <1>6, <1>9, <1>11, <1>14, <2>2, <3>1 DEF SegmentWithin
  <2>3. \A t, u \in DOMAIN segs' : t # u => Docs(t)' \cap Docs(u)' = {}
    BY <1>8, <1>11, <1>14 DEF Inv, SegmentsApart
  <2> QED BY <1>11, <2>1, <2>2, <2>3 DEF SegmentsApart
<1>17. ASSUME private # "none" PROVE PacketOK(p)'
  <2>1. \A e \in DOMAIN docs : docs[e].gen \in Int /\ docs[e].gen < nextGen /\ docs[e].gen # nextGen
    BY <1>8, Documents DEF Inv, GensGiven
  <2>2. Concerned(p)' = {d}
    BY <1>8, <1>9, <1>12, <1>17, <2>1 DEF Concerned
  <2>3. \A b \in asked : b.gen \in Nat /\ b.gen < nextGen /\ b.gen # nextGen
    BY <1>8 DEF Inv, Types, GensGiven
  <2>4. Asked(p)'
    BY <1>4, <1>7, <1>12, <1>17, <2>2, <2>3 DEF Asked
  <2>5. Reach(p)'
    <3>1. ASSUME NEW t \in DOMAIN segs', NEW e \in Docs(t)'
          PROVE  /\ t = s <=> docs'[e].gen = nextGen
                 /\ t = s => segs'[t].delGen = nextGen
                 /\ docs'[e].gen <= nextGen
      <4>1. CASE t = s
        BY <1>8, <1>9, <1>10, <1>11, <1>14, <3>1, <4>1
      <4>2. CASE t # s
        BY <1>8, <1>9, <1>11, <1>14, <2>1, <3>1, <4>2
      <4> QED BY <4>1, <4>2
    <3> QED BY <1>8, <1>11, <1>12, <1>17, <3>1 DEF Reach
  <2>6. Met(p)'
    BY <1>6, <1>12, <1>17 DEF Met, Inv, Types
  <2>7. Ahead(p)'
    BY <1>12, <1>17 DEF Ahead
  <2> QED BY <2>4, <2>5, <2>6, <2>7 DEF PacketOK
<1>18. \A x, y \in updates' \ updates : x = y
  BY <1>7
<1>19. \A x \in updates' \ updates : PacketOK(x)'
  BY <1>7, <1>17
<1>20. \A b \in asked' \ asked : b.docs \subseteq DOMAIN docs' /\ \E x \in updates' : x.gen = nextGen
  BY <1>4, <1>7, <1>9, <1>12
<1>21. \A e \in DOMAIN docs' \ DOMAIN docs : \E t \in segmentInfos' : e \in segs'[t].live
  BY <1>6, <1>9, <1>10, <1>11
<1> QED BY <1>13, <1>15, <1>16, <1>18, <1>19, <1>20, <1>21, PublishSteps

-----------------------------------------------------------------------------
\* A merge commits.

\* What a merged segment takes over from its sources
Takes(m, seg) ==
  /\ seg \in SegmentType /\ Within(seg) /\ seg.live \subseteq DOMAIN seg.disk
  /\ \A d \in DOMAIN seg.disk : \E t \in m.sources : d \in Docs(t)
  /\ \A d : d \in seg.live <=> \E t \in m.sources : d \in segs[t].live
  /\ \E t \in m.sources : segs[t].delGen = seg.delGen
  /\ \A t \in m.sources : seg.delGen <= segs[t].delGen

LEMMA MergedSegmentTakes ==
  ASSUME Inv, NEW m \in merges, \A t \in m.sources : HasReader(m, t)
  PROVE  Takes(m, MergedSegment(m))
<1>1. m \in MergeType /\ MergeOK(m) /\ m.sources \subseteq DOMAIN segs
  BY DEF Inv, Types, MergesApart, MergeOK
<1>2. ASSUME NEW r \in m.readers
      PROVE  /\ r \in ReaderType /\ r.segment \in m.sources /\ segs[r.segment].live \subseteq r.live
             /\ r.live \subseteq DOMAIN r.disk /\ DOMAIN r.disk = Docs(r.segment)
  BY <1>1 DEF MergeOK, ReaderOK, MergeType
<1>3. PICK all : all = UNION {r.live : r \in m.readers}
  OBVIOUS
<1>4. PICK disk : disk = [d \in all |-> (CHOOSE r \in m.readers : d \in r.live).disk[d]]
  OBVIOUS
<1>5. all \in SUBSET Nat /\ DOMAIN disk = all /\ disk \in Disks
  <2>1. all \in SUBSET Nat
    BY <1>2, <1>3 DEF ReaderType
  <2>2. ASSUME NEW d \in all PROVE disk[d] \in Nat
    <3>1. PICK r : r = CHOOSE x \in m.readers : d \in x.live
      OBVIOUS
    <3>2. r \in m.readers /\ d \in r.live
      BY <1>3, <3>1
    <3>3. r.disk \in Disks /\ d \in DOMAIN r.disk
      BY <1>2, <3>2 DEF ReaderType
    <3>4. PICK D \in SUBSET Nat : r.disk \in [D -> Nat]
      BY <3>3 DEF Disks
    <3>5. r.disk[d] \in Nat
      BY <3>3, <3>4
    <3>6. disk[d] = r.disk[d]
      BY <1>4, <3>1
    <3> QED BY <3>5, <3>6
  <2>3. disk \in [all -> Nat]
    BY <1>4, <2>2
  <2> QED BY <1>4, <2>1, <2>3 DEF Disks
<1>6. PICK gens : gens = {segs[t].delGen : t \in m.sources}
  OBVIOUS
<1>7. Min(gens) \in gens /\ Min(gens) \in Int /\ \A g \in gens : Min(gens) <= g
  <2>1. \A t \in m.sources : segs[t].delGen \in Int /\ -1 <= segs[t].delGen
    BY <1>1, Segments DEF Inv, GensGiven, SegmentType
  <2>2. gens \in SUBSET Int /\ gens # {} /\ -1 \in Int /\ \A g \in gens : -1 <= g
    BY <1>1, <1>6, <2>1 DEF MergeOK
  <2> QED BY <2>2, MinProperties
<1>8. PICK base : base = Segment(Min(gens), disk)
  OBVIOUS
<1>9. /\ base \in SegmentType /\ base.delGen = Min(gens) /\ base.disk = disk /\ base.merging = {}
  BY <1>5, <1>7, <1>8, SegmentProperties
<1>10. PICK raw : raw = [base EXCEPT !.live = CarriedLive(m), !.pending = CarriedUpdates(m)]
  OBVIOUS
<1>11. \A d : d \in CarriedLive(m) <=> \E t \in m.sources : d \in segs[t].live
  BY <1>2 DEF CarriedLive, HasReader
<1>12. CarriedLive(m) \subseteq all
  BY <1>3 DEF CarriedLive
<1>13. CarriedUpdates(m) \in SUBSET Update /\ \A u \in CarriedUpdates(m) : u.doc \in all
  <2>1. \A r \in m.readers : segs[r.segment].merging \subseteq Update
    BY <1>1, <1>2, Segments DEF Inv, SegmentType
  <2> QED BY <1>3, <2>1 DEF CarriedUpdates
<1>14. /\ raw \in SegmentType /\ raw.delGen = Min(gens) /\ raw.disk = disk /\ raw.merging = {}
       /\ raw.live = CarriedLive(m) /\ raw.pending = CarriedUpdates(m)
  BY <1>5, <1>9, <1>10, <1>12, <1>13 DEF SegmentType
<1>15. Within(raw)
  BY <1>5, <1>13, <1>14 DEF Within
<1>16. PICK seg : seg = MergedSegment(m)
  OBVIOUS
<1>17. seg = IF poolReaders THEN raw ELSE WriteFieldUpdates(raw)
  BY <1>3, <1>4, <1>6, <1>8, <1>10, <1>16 DEF MergedSegment
<1>18. Changed(raw, seg) /\ seg.live = raw.live
  BY <1>14, <1>15, <1>17, SameChanged, WriteFieldUpdatesProperties DEF Inv, Types
<1>19. seg \in SegmentType /\ DOMAIN seg.disk = all /\ seg.delGen = Min(gens) /\ Within(seg)
  BY <1>5, <1>14, <1>18 DEF Changed, Within
<1>20. \A d \in all : \E t \in m.sources : d \in Docs(t)
  BY <1>2, <1>3
<1>21. /\ \E t \in m.sources : segs[t].delGen = seg.delGen
       /\ \A t \in m.sources : seg.delGen <= segs[t].delGen
  BY <1>6, <1>7, <1>19
<1> QED BY <1>11, <1>12, <1>14, <1>16, <1>18, <1>19, <1>20, <1>21 DEF Takes

\* The segments after a merge: the new one is n, with the content of new.
Merged(m, seg, new, n) ==
  /\ Takes(m, seg) /\ new = IF seg.live = {} THEN Gone ELSE seg
  /\ n \in Nat /\ n \notin DOMAIN segs
  /\ segs' \in Seq(SegmentType) /\ DOMAIN segs' = DOMAIN segs \cup {n} /\ segs'[n] = new
  /\ \A t \in DOMAIN segs : segs'[t] = IF t \in m.sources THEN Gone ELSE segs[t]
  /\ segmentInfos' = (segmentInfos \ m.sources) \cup (IF seg.live = {} THEN {} ELSE {n})
  /\ pool \ m.sources \subseteq pool' /\ pool' \subseteq segmentInfos'
  /\ mergeFinishedGen' = IF DOMAIN seg.disk = {} THEN mergeFinishedGen ELSE mergeFinishedGen + 1
  /\ m.pc = "merge" /\ merges' = merges \ {m}
  /\ UNCHANGED <<poolReaders, docs, asked, updates, nextGen, completedDelGen, finishedDelGens, left>>

\* Where the documents of a segment come from
LEMMA MergedView ==
  ASSUME Inv, NEW m \in merges, NEW seg, NEW new, NEW n, Merged(m, seg, new, n)
  PROVE  /\ m.sources \subseteq segmentInfos /\ m.sources \subseteq DOMAIN segs
         /\ \A p \in updates, t \in m.sources : segs[t].delGen < p.gen
         /\ \A t \in m.sources : Docs(t)' = {} /\ segs'[t].live = {} /\ segs'[t].delGen = -1
         /\ \A t \in DOMAIN segs \ m.sources : Docs(t)' = Docs(t) /\ segs'[t] = segs[t]
         /\ \A d \in Docs(n)' : \E t \in m.sources : d \in Docs(t) /\ segs'[n].delGen <= segs[t].delGen
         /\ segs'[n].delGen = -1 \/ \E t \in m.sources : segs'[n].delGen = segs[t].delGen
         /\ \A d : d \in segs'[n].live <=> \E t \in m.sources : d \in segs[t].live
         /\ SegmentWithin(n)'
<1>1. m.sources \subseteq segmentInfos /\ m.sources \subseteq DOMAIN segs
  BY DEF Inv, Types, MergesApart, MergeOK
<1>2. \A p \in updates, t \in m.sources : segs[t].delGen < p.gen
  BY DEF Inv, MergesApart, MergeOK, Merged
<1>3. \A t \in m.sources : Docs(t)' = {} /\ segs'[t].live = {} /\ segs'[t].delGen = -1
  BY <1>1, GoneProperties DEF Merged, Docs
<1>4. \A t \in DOMAIN segs \ m.sources : Docs(t)' = Docs(t) /\ segs'[t] = segs[t]
  BY DEF Merged, Docs
<1>5. \A t \in m.sources : \A d \in Docs(t) :
        d \in DOMAIN docs /\ segs[t].delGen <= docs[d].gen /\ segs[t].delGen \in Int /\ docs[d].gen \in Int
  BY <1>1, Documents, Segments DEF Inv, SegmentsApart, SegmentWithin, SegmentType
<1>6. CASE seg.live = {}
  <2>1. segs'[n] = Gone /\ n \notin segmentInfos'
    BY <1>6 DEF Merged, Inv, Types
  <2>2. Docs(n)' = {} /\ segs'[n].live = {} /\ segs'[n].delGen = -1 /\ segs'[n].pending = {} /\ segs'[n].merging = {}
    BY <2>1, GoneProperties DEF Docs
  <2>3. \A d : d \in segs'[n].live <=> \E t \in m.sources : d \in segs[t].live
    BY <1>6, <2>2 DEF Merged, Takes
  <2>4. SegmentWithin(n)'
    BY <2>2 DEF SegmentWithin
  <2> QED BY <1>1, <1>2, <1>3, <1>4, <2>2, <2>3, <2>4
<1>7. CASE seg.live # {}
  <2>1. segs'[n] = seg /\ n \in segmentInfos' /\ Docs(n)' = DOMAIN seg.disk /\ docs' = docs
    BY <1>7 DEF Merged, Docs
  <2>2. \A d \in Docs(n)' : \E t \in m.sources : d \in Docs(t) /\ segs'[n].delGen <= segs[t].delGen
    BY <2>1 DEF Merged, Takes
  <2>3. \A d \in Docs(n)' : d \in DOMAIN docs /\ segs'[n].delGen <= docs[d].gen
    <3>1. segs'[n].delGen \in Int
      BY <2>1 DEF Merged, Takes, SegmentType
    <3> QED BY <1>5, <2>2, <3>1
  <2>4. SegmentWithin(n)'
    BY <2>1, <2>3 DEF SegmentWithin, Merged, Takes, Within
  <2>5. \E t \in m.sources : segs'[n].delGen = segs[t].delGen
    BY <2>1 DEF Merged, Takes
  <2>6. \A d : d \in segs'[n].live <=> \E t \in m.sources : d \in segs[t].live
    BY <2>1 DEF Merged, Takes
  <2> QED BY <1>1, <1>2, <1>3, <1>4, <2>2, <2>4, <2>5, <2>6
<1> QED BY <1>6, <1>7

LEMMA MergedPackets ==
  ASSUME Inv, NEW m \in merges, NEW seg, NEW new, NEW n, Merged(m, seg, new, n), NEW p \in updates
  PROVE  PacketOK(p)'
<1>1. Asked(p) /\ Reach(p) /\ Met(p) /\ Ahead(p) /\ p.gen \in Nat /\ mergeFinishedGen \in Nat
  BY DEF Inv, PacketOK, Types, PacketType
<1>2. docs' = docs /\ asked' = asked /\ DOMAIN segs' = DOMAIN segs \cup {n} /\ n \notin DOMAIN segs
  BY DEF Merged
<1>3. /\ m.sources \subseteq segmentInfos /\ m.sources \subseteq DOMAIN segs
      /\ \A t \in m.sources : segs[t].delGen < p.gen
      /\ \A t \in m.sources : Docs(t)' = {} /\ segs'[t].live = {} /\ segs'[t].delGen = -1
      /\ \A t \in DOMAIN segs \ m.sources : Docs(t)' = Docs(t) /\ segs'[t] = segs[t]
      /\ \A d \in Docs(n)' : \E t \in m.sources : d \in Docs(t)
      /\ \A d \in segs'[n].live : \E t \in m.sources : d \in segs[t].live
  BY MergedView
\* no source of the merge is the segment of the packet
<1>4. ASSUME NEW t \in m.sources, NEW d \in Docs(t)
      PROVE  docs[d].gen <= p.gen /\ (p.segment # None => docs[d].gen # p.gen)
  <2>1. t \in DOMAIN segs /\ segs[t].delGen < p.gen /\ segs[t].delGen \in Int
    BY <1>3, Segments DEF Inv, SegmentType
  <2>2. segs[t].delGen <= p.gen /\ segs[t].delGen # p.gen
    BY <1>1, <2>1
  <2>3. docs[d].gen <= p.gen
    BY <1>1, <1>4, <2>1, <2>2 DEF Reach
  <2>4. p.segment # None => docs[d].gen # p.gen
    BY <1>1, <1>4, <2>1, <2>2 DEF Reach
  <2> QED BY <2>3, <2>4
<1>5. Asked(p)'
  BY <1>1, <1>2 DEF Asked, Concerned
<1>6. Reach(p)'
  <2>1. ASSUME NEW s \in DOMAIN segs', NEW d \in Docs(s)'
        PROVE  /\ p.segment # None => /\ s = p.segment <=> docs[d].gen = p.gen
                                      /\ s = p.segment => segs'[s].delGen = p.gen
               /\ segs'[s].delGen <= p.gen => docs[d].gen <= p.gen
    <3>1. CASE s \in DOMAIN segs
      BY <1>1, <1>3, <2>1, <3>1 DEF Reach
    <3>2. CASE s \notin DOMAIN segs
      <4>1. (s = n /\ p.segment # s) \/ p.segment = None
        BY <1>1, <1>2, <3>2 DEF Reach
      <4>2. PICK t \in m.sources : d \in Docs(t)
        BY <1>2, <1>3, <2>1, <3>2
      <4> QED BY <1>4, <4>1, <4>2
    <3> QED BY <3>1, <3>2
  <2> QED BY <1>1, <1>2, <2>1 DEF Reach
<1>7. Met(p)'
  <2>1. \A s \in p.seen : segs'[s].delGen <= p.gen
    BY <1>1, <1>3 DEF Met
  <2>2. p.states \cap segmentInfos' \subseteq pool'
    <3>1. p.states \subseteq DOMAIN segs
      BY <1>1 DEF Met
    <3> QED BY <1>1, <1>2, <3>1 DEF Merged, Met
  <2>3. p.mergeGenStart \in Nat
    BY DEF Inv, Types, PacketType
  <2>4. p.mergeGenStart <= mergeFinishedGen'
    BY <1>1, <2>3 DEF Met, Merged
  <2> QED BY <1>1, <1>2, <2>1, <2>2, <2>4 DEF Met
<1>8. Ahead(p)'
  <2>1. Concerned(p)' = Concerned(p)
    BY <1>2 DEF Concerned
  <2>2. p.mergeGenStart \in Nat /\ p.mergeGenStart <= mergeFinishedGen
    BY <1>1 DEF Inv, Types, PacketType, Met
  <2>3. ASSUME p.kind = "delete", NEW s \in segmentInfos', NEW d \in segs'[s].live \cap Concerned(p)
        PROVE  /\ p.pc # "break"
               /\ s \in p.seen => s \in p.todo
               /\ p.pc \in {"resolve", "check"} /\ s \notin p.seen =>
                     p.segment = None /\ mergeFinishedGen' # p.mergeGenStart
    <3>1. CASE s \in segmentInfos /\ s \in DOMAIN segs
      <4>1. s \notin m.sources /\ d \in segs[s].live
        BY <1>3, <2>3, <3>1
      <4>2. /\ p.pc # "break"
            /\ s \in p.seen => s \in p.todo
            /\ p.pc \in {"resolve", "check"} /\ s \notin p.seen =>
                  p.segment = None /\ mergeFinishedGen # p.mergeGenStart
        BY <1>1, <2>3, <3>1, <4>1 DEF Ahead
      <4>3. mergeFinishedGen # p.mergeGenStart => mergeFinishedGen' # p.mergeGenStart
        BY <1>1, <2>2 DEF Merged
      <4> QED BY <4>2, <4>3
    <3>2. CASE s \notin segmentInfos \/ s \notin DOMAIN segs
      <4>1. s = n /\ s \notin p.seen
        BY <1>1, <1>2, <3>2 DEF Merged, Met, Inv, Types
      <4>2. PICK t \in m.sources : d \in segs[t].live
        BY <1>3, <2>3, <4>1
      <4>3. p.pc # "break"
        BY <1>1, <1>3, <2>3, <4>2 DEF Ahead
      <4>4. d \in Docs(t) /\ p.segment = None
        <5>1. d \in Docs(t)
          BY <1>3, <4>2 DEF Inv, SegmentsApart, SegmentWithin
        <5>2. p.segment # None => docs[d].gen # p.gen
          BY <1>4, <5>1
        <5> QED BY <2>3, <5>1, <5>2 DEF Concerned
      <4>5. mergeFinishedGen' = mergeFinishedGen + 1
        <5>1. d \in seg.live /\ seg.live \subseteq DOMAIN seg.disk
          BY <4>2 DEF Merged, Takes
        <5> QED BY <5>1 DEF Merged
      <4>6. mergeFinishedGen' # p.mergeGenStart
        BY <1>1, <2>2, <4>5
      <4> QED BY <4>1, <4>3, <4>4, <4>6
    <3> QED BY <3>1, <3>2
  <2> QED BY <2>1, <2>3 DEF Ahead
<1> QED BY <1>5, <1>6, <1>7, <1>8 DEF PacketOK

LEMMA MergedStep ==
  ASSUME Inv, NEW m \in merges, NEW seg, NEW new, NEW n, Merged(m, seg, new, n)
  PROVE  Inv'
<1>1. /\ m.sources \subseteq segmentInfos /\ m.sources \subseteq DOMAIN segs
      /\ \A t \in m.sources : Docs(t)' = {} /\ segs'[t].live = {} /\ segs'[t].delGen = -1
      /\ \A t \in DOMAIN segs \ m.sources : Docs(t)' = Docs(t) /\ segs'[t] = segs[t]
      /\ \A d \in Docs(n)' : \E t \in m.sources : d \in Docs(t)
      /\ segs'[n].delGen = -1 \/ \E t \in m.sources : segs'[n].delGen = segs[t].delGen
      /\ \A d : d \in segs'[n].live <=> \E t \in m.sources : d \in segs[t].live
      /\ SegmentWithin(n)'
  BY MergedView
<1>2. /\ DOMAIN segs' = DOMAIN segs \cup {n} /\ n \notin DOMAIN segs
      /\ segmentInfos \ m.sources \subseteq segmentInfos'
      /\ segmentInfos' \subseteq (segmentInfos \ m.sources) \cup {n}
      /\ (n \in segmentInfos' <=> segs'[n].live # {})
  <2>1. n \in segmentInfos' <=> seg.live # {}
    BY DEF Merged, Inv, Types
  <2>2. seg.live = {} => segs'[n].live = {}
    BY GoneProperties DEF Merged
  <2> QED BY <2>1, <2>2 DEF Merged
<1>3. Types'
  <2>1. mergeFinishedGen' \in Nat
    BY DEF Inv, Types, Merged
  <2>2. segmentInfos' \subseteq DOMAIN segs'
    BY <1>2 DEF Inv, Types
  <2> QED BY <2>1, <2>2 DEF Inv, Types, Merged
<1>4. GensGiven'
  <2>1. \A s \in DOMAIN segs : segs[s].delGen < nextGen /\ segs[s].delGen >= -1
    BY DEF Inv, GensGiven
  <2>2. nextGen \in Nat /\ -1 < nextGen /\ -1 >= -1
    BY DEF Inv, Types
  <2>3. \A s \in DOMAIN segs' : segs'[s].delGen < nextGen /\ segs'[s].delGen >= -1
    BY <1>1, <1>2, <2>1, <2>2
  <2> QED BY <2>3 DEF Inv, GensGiven, Merged
<1>5. SegmentsApart'
  <2>1. ASSUME NEW t \in DOMAIN segs PROVE SegmentWithin(t)'
    <3>1. CASE t \in m.sources
      <4>1. segs'[t] = Gone
        BY <3>1 DEF Merged
      <4> QED BY <4>1, GoneProperties DEF SegmentWithin, Docs
    <3>2. CASE t \notin m.sources
      <4>1. SegmentWithin(t) /\ Docs(t)' = Docs(t) /\ segs'[t] = segs[t] /\ docs' = docs
        BY <1>1, <3>2 DEF Inv, SegmentsApart, Merged
      <4>2. t \in segmentInfos' <=> t \in segmentInfos
        BY <1>2, <3>2
      <4> QED BY <4>1, <4>2 DEF SegmentWithin
    <3> QED BY <3>1, <3>2
  <2>2. \A s, t \in DOMAIN segs : s # t => Docs(s) \cap Docs(t) = {}
    BY DEF Inv, SegmentsApart
  <2>3. \A t \in DOMAIN segs : Docs(t)' \cap Docs(n)' = {}
    BY <1>1, <2>2
  <2>4. \A s, t \in DOMAIN segs : s # t => Docs(s)' \cap Docs(t)' = {}
    BY <1>1, <2>2
  <2> QED BY <1>1, <1>2, <2>1, <2>3, <2>4 DEF SegmentsApart
<1>6. \A p \in updates' : PacketOK(p)'
  BY MergedPackets DEF Merged
<1>7. MergesApart'
  <2>1. ASSUME NEW o \in merges' PROVE MergeOK(o)'
    <3>1. o \in merges /\ MergeOK(o) /\ o.sources \cap m.sources = {} /\ o.sources \subseteq DOMAIN segs
      BY DEF Merged, Inv, MergesApart, MergeOK, Types
    <3>2. ASSUME NEW r \in o.readers PROVE ReaderOK(o, r)'
      <4>1. ReaderOK(o, r) /\ r.segment \in DOMAIN segs \ m.sources
        BY <3>1 DEF MergeOK, ReaderOK
      <4>2. r.segment \in pool'
        BY <4>1 DEF ReaderOK, Merged
      <4> QED BY <1>1, <4>1, <4>2 DEF ReaderOK
    <3>3. o.pc = "merge" => \A p \in updates', s \in o.sources : segs'[s].delGen < p.gen
      BY <1>1, <3>1 DEF MergeOK, Merged
    <3>4. o.sources # {} /\ o.sources \subseteq segmentInfos'
      BY <1>2, <3>1 DEF MergeOK
    <3> QED BY <3>2, <3>3, <3>4 DEF MergeOK
  <2>2. \A x, y \in merges' : x # y => x.sources \cap y.sources = {}
    BY DEF Inv, MergesApart, Merged
  <2> QED BY <2>1, <2>2 DEF MergesApart
<1>8. DeletesStick'
  <2>1. Live' \subseteq Live
    <3> SUFFICES ASSUME NEW s \in segmentInfos', NEW d \in segs'[s].live PROVE d \in Live
      BY DEF Live
    <3>1. CASE s = n
      BY <1>1, <3>1 DEF Live
    <3>2. CASE s # n
      BY <1>1, <1>2, <3>2 DEF Live, Inv, Types
    <3> QED BY <3>1, <3>2
  <2> QED BY <2>1 DEF DeletesStick, Done, Inv, Merged
<1>9. Accounted'
  <2> SUFFICES ASSUME NEW d \in DOMAIN docs
               PROVE  \/ \E s \in segmentInfos' : d \in segs'[s].live
                      \/ \E a \in asked : a.kind = "delete" /\ d \in a.docs
    BY DEF Accounted, Merged
  <2>1. CASE \E s \in segmentInfos : d \in segs[s].live
    <3>1. PICK s \in segmentInfos : d \in segs[s].live
      BY <2>1
    <3>2. CASE s \in m.sources
      <4>1. d \in segs'[n].live
        BY <1>1, <3>1, <3>2
      <4> QED BY <1>2, <4>1
    <3>3. CASE s \notin m.sources
      BY <1>1, <1>2, <3>1, <3>3 DEF Inv, Types
    <3> QED BY <3>2, <3>3
  <2> QED BY <2>1 DEF Inv, Accounted
<1> QED BY <1>3, <1>4, <1>5, <1>6, <1>7, <1>8, <1>9 DEF Inv

LEMMA CommitMergeStep == ASSUME Inv, NEW m \in merges, CommitMerge(m) PROVE Inv'
<1>1. PICK seg : seg = MergedSegment(m)
  OBVIOUS
<1>2. PICK n : n = Len(segs) + 1
  OBVIOUS
<1>3. PICK new : new = IF seg.live = {} THEN Gone ELSE seg
  OBVIOUS
<1>4. PICK rest : rest = [t \in DOMAIN segs |-> IF t \in m.sources THEN Gone ELSE segs[t]]
  OBVIOUS
<1>5. /\ m.pc = "merge" /\ \A t \in m.sources : HasReader(m, t)
      /\ mergeFinishedGen' = IF DOMAIN seg.disk = {} THEN mergeFinishedGen ELSE mergeFinishedGen + 1
      /\ segs' = Append(rest, new)
      /\ segmentInfos' = (segmentInfos \ m.sources) \cup (IF seg.live = {} THEN {} ELSE {n})
      /\ merges' = merges \ {m}
      /\ UNCHANGED <<poolReaders, docs, asked, updates, nextGen, completedDelGen, finishedDelGens, left>>
  BY <1>1, <1>2, <1>3, <1>4 DEF CommitMerge, genVars
<1>6. pool' = (pool \ m.sources) \cup (IF seg.live # {} /\ (poolReaders \/ seg.pending # {}) THEN {n} ELSE {})
  BY <1>1, <1>2 DEF CommitMerge
<1>7. Takes(m, seg)
  BY <1>1, <1>5, MergedSegmentTakes
<1>8. new \in SegmentType
  BY <1>3, <1>7, GoneProperties DEF Takes
<1>9. n \in Nat /\ n \notin DOMAIN segs /\ DOMAIN segs = 1 .. Len(segs) /\ Len(segs) \in Nat
  BY <1>2, Segments DEF Inv
<1>10. rest \in Seq(SegmentType) /\ Len(rest) = Len(segs)
  <2>1. \A t \in DOMAIN segs : rest[t] \in SegmentType
    BY <1>4, Segments, GoneProperties DEF Inv
  <2>2. rest \in [1 .. Len(segs) -> SegmentType]
    BY <1>4, <1>9, <2>1
  <2>3. rest \in Seq(SegmentType)
    BY <1>9, <2>2, SeqDef
  <2>4. DOMAIN rest = 1 .. Len(segs)
    BY <1>4, <1>9
  <2> QED BY <1>9, <2>3, <2>4, LenProperties
<1>11. /\ segs' \in Seq(SegmentType) /\ DOMAIN segs' = DOMAIN segs \cup {n} /\ segs'[n] = new
       /\ \A t \in DOMAIN segs : segs'[t] = IF t \in m.sources THEN Gone ELSE segs[t]
  <2>1. /\ segs' \in Seq(SegmentType) /\ Len(segs') = n /\ segs'[n] = new
        /\ \A t \in 1 .. Len(segs) : segs'[t] = rest[t]
    BY <1>2, <1>5, <1>8, <1>10, AppendProperties
  <2>2. DOMAIN segs' = 1 .. n
    BY <2>1, LenProperties
  <2>3. DOMAIN segs' = DOMAIN segs \cup {n}
    BY <1>2, <1>9, <2>2
  <2> QED BY <1>4, <1>9, <2>1, <2>3
<1>12. pool \ m.sources \subseteq pool' /\ pool' \subseteq segmentInfos'
  BY <1>5, <1>6 DEF Inv, Types
<1>13. Merged(m, seg, new, n)
  BY <1>3, <1>5, <1>7, <1>9, <1>11, <1>12 DEF Merged
<1> QED BY <1>13, MergedStep

-----------------------------------------------------------------------------
LEMMA InitInv == ASSUME Init PROVE Inv
<1>1. PICK key \in [1 .. Opened -> Keys] : docs = [d \in 1 .. Opened |-> [key |-> key[d], gen |-> -1]]
  BY DEF Init
<1>2. /\ asked = {} /\ segs = [s \in 1 .. Opened |-> Segment(-1, [d \in {s} |-> 0])]
      /\ segmentInfos = 1 .. Opened /\ pool = {} /\ poolReaders \in BOOLEAN /\ updates = {}
      /\ nextGen = 1 /\ completedDelGen = 0 /\ finishedDelGens = {}
      /\ mergeFinishedGen = 0 /\ merges = {} /\ left \in Workloads
  BY DEF Init
<1>3. ASSUME NEW s \in 1 .. Opened
      PROVE  /\ segs[s] \in SegmentType /\ segs[s].delGen = -1 /\ Docs(s) = {s} /\ segs[s].live = {s}
             /\ segs[s].pending = {} /\ segs[s].merging = {}
  <2>1. PICK disk : disk = [d \in {s} |-> 0]
    OBVIOUS
  <2>2. disk \in [{s} -> Nat] /\ {s} \in SUBSET Nat /\ DOMAIN disk = {s} /\ -1 \in Int
    BY <2>1
  <2>3. disk \in Disks
    BY <2>2 DEF Disks
  <2>4. segs[s] = Segment(-1, disk)
    BY <1>2, <2>1
  <2> QED BY <2>2, <2>3, <2>4, SegmentProperties DEF Docs
<1>4. docs \in Seq([key : Keys, gen : Int]) /\ DOMAIN docs = 1 .. Opened
  <2>1. docs \in [1 .. Opened -> [key : Keys, gen : Int]]
    BY <1>1
  <2>2. docs \in Seq([key : Keys, gen : Int])
    <3>1. PICK T : T = [key : Keys, gen : Int]
      OBVIOUS
    <3>2. docs \in [1 .. Opened -> T]
      BY <2>1, <3>1
    <3>3. docs \in Seq(T)
      BY <3>2, OpenedAssumption, SeqDef
    <3> QED BY <3>1, <3>3
  <2>3. DOMAIN docs = 1 .. Opened
    BY <2>1
  <2> QED BY <2>2, <2>3
<1>5. segs \in Seq(SegmentType) /\ DOMAIN segs = 1 .. Opened
  <2>1. segs \in [1 .. Opened -> SegmentType]
    BY <1>2, <1>3
  <2> QED BY <2>1, OpenedAssumption, SeqDef
<1>6. Types
  <2>1. left \in [Calls -> Nat]
    BY <1>2, WorkloadsAssumption
  <2>2. IsFiniteSet(finishedDelGens)
    BY <1>2, FS_EmptySet
  <2> QED BY <1>2, <1>4, <1>5, <2>1, <2>2 DEF Types
<1>7. GensGiven
  <2>1. \A d \in DOMAIN docs : docs[d].gen < nextGen
    BY <1>1, <1>2, <1>4
  <2>2. \A s \in DOMAIN segs : segs[s].delGen < nextGen /\ segs[s].delGen >= -1
    <3>1. \A s \in DOMAIN segs : segs[s].delGen = -1
      BY <1>3, <1>5
    <3>2. -1 < nextGen /\ -1 >= -1
      BY <1>2
    <3> QED BY <3>1, <3>2
  <2> QED BY <1>2, <2>1, <2>2 DEF GensGiven
<1>8. SegmentsApart
  <2>1. ASSUME NEW s \in 1 .. Opened PROVE SegmentWithin(s)
    <3>1. segs[s].delGen <= docs[s].gen
      <4>1. docs[s].gen = -1 /\ segs[s].delGen = -1
        BY <1>1, <1>3
      <4> QED BY <4>1
    <3>2. segs[s].live \subseteq Docs(s) /\ Docs(s) \subseteq DOMAIN docs /\ s \in segmentInfos
      BY <1>2, <1>3, <1>4
    <3>3. segs[s].pending \cup segs[s].merging = {}
      BY <1>3
    <3>4. \A d \in Docs(s) : segs[s].delGen <= docs[d].gen
      BY <1>3, <3>1
    <3> QED BY <3>2, <3>3, <3>4 DEF SegmentWithin
  <2>2. \A s, t \in 1 .. Opened : s # t => Docs(s) \cap Docs(t) = {}
    BY <1>3
  <2> QED BY <1>5, <2>1, <2>2 DEF SegmentsApart
<1>9. (\A p \in updates : PacketOK(p)) /\ MergesApart /\ DeletesStick
  BY <1>2 DEF MergesApart, DeletesStick
<1>10. Accounted
  <2>1. \A d \in DOMAIN docs : d \in segmentInfos /\ d \in segs[d].live
    BY <1>2, <1>3, <1>4
  <2> QED BY <2>1 DEF Accounted
<1> QED BY <1>6, <1>7, <1>8, <1>9, <1>10 DEF Inv

LEMMA NextInv == ASSUME Inv, [Next]_vars PROVE Inv'
<1>1. ASSUME NEW kind \in Kinds, NEW key \in Keys, PublishFrozenUpdates(kind, key) PROVE Inv'
  BY <1>1, PublishFrozenUpdatesStep
<1>2. ASSUME NEW key \in Keys, NEW private \in Kinds \cup {"none"}, PublishFlushedSegment(key, private)
      PROVE  Inv'
  BY <1>2, PublishFlushedSegmentStep
<1>3. ASSUME NEW s \in DOMAIN segs,
             \/ WriteDocValuesUpdates(s)
             \/ \E d \in segs[s].live : TryUpdateDocValue(s, d) \/ TryDeleteDocument(s, d)
      PROVE  Inv'
  BY <1>3, WriteDocValuesUpdatesStep, TryUpdateDocValueStep, TryDeleteDocumentStep
<1>4. ASSUME NEW p \in updates,
             \/ StartIteration(p) \/ OpenSegmentStates(p) \/ FinishApply(p)
             \/ CheckMergeGen(p) \/ FinishUnlocked(p)
             \/ \E s \in p.todo : ResolveSegment(p, s)
      PROVE  Inv'
  BY <1>4, StartIterationStep, OpenSegmentStatesStep, FinishApplyStep, CheckMergeGenStep,
     FinishUnlockedStep, ResolveSegmentStep
<1>5. CASE WriteReaderPool \/ EnableReaderPooling
  BY <1>5, WriteReaderPoolStep, EnableReaderPoolingStep
<1>6. ASSUME NEW sources \in SUBSET segmentInfos, RegisterMerge(sources) PROVE Inv'
  BY <1>6, RegisterMergeStep
<1>7. ASSUME NEW m \in merges,
             \/ MergeInit(m) \/ CommitMerge(m)
             \/ \E s \in m.sources : GetReaderForMerge(m, s)
      PROVE  Inv'
  BY <1>7, MergeInitStep, CommitMergeStep, GetReaderForMergeStep
<1>8. CASE UNCHANGED vars
  BY <1>8, StutteringStep
<1> QED BY <1>1, <1>2, <1>3, <1>4, <1>5, <1>6, <1>7, <1>8 DEF Next

LEMMA InvTypeOK == ASSUME Inv PROVE TypeOK
<1>1. asked \subseteq [gen : Nat, kind : Kinds, docs : SUBSET DOMAIN docs]
  BY DEF Inv, Types, GensGiven
<1>2. ASSUME NEW s \in DOMAIN segs PROVE SegmentOK(segs[s])
  <2>1. segs[s] \in SegmentType /\ SegmentWithin(s)
    BY Segments DEF Inv, SegmentsApart
  <2>2. \A d \in DOMAIN segs[s].disk : segs[s].disk[d] \in Nat
    <3>1. PICK D \in SUBSET Nat : segs[s].disk \in [D -> Nat]
      BY <2>1 DEF SegmentType, Disks
    <3> QED BY <3>1
  <2>3. segs[s].pending \cup segs[s].merging \subseteq [gen : Nat, doc : DOMAIN segs[s].disk]
    BY <2>1 DEF SegmentType, SegmentWithin, Docs, Update
  <2> QED BY <2>1, <2>2, <2>3 DEF SegmentOK, SegmentType, SegmentWithin, Docs
<1>3. \A p \in updates : /\ p.pc \in {"pushed", "open", "resolve", "check", "break"}
                         /\ p.todo \subseteq p.states /\ p.states \subseteq p.seen
  BY DEF Inv, Types, PacketType, PacketOK, Met
<1>4. \A m \in merges : m.pc \in {"registered", "merge"}
  BY DEF Inv, Types, MergeType
<1> QED BY <1>1, <1>2, <1>3, <1>4 DEF Inv, Types, TypeOK

LEMMA InvDeletesExact == ASSUME Inv PROVE DeletesExact
<1>1. DeletesStick
  BY DEF Inv
<1>2. NothingElseDeleted
  <2> SUFFICES ASSUME NEW d \in DOMAIN docs
               PROVE  \/ Cardinality({s \in segmentInfos : d \in segs[s].live}) = 1
                      \/ \E a \in asked : a.kind = "delete" /\ d \in a.docs
    BY DEF NothingElseDeleted
  <2>1. CASE \E s \in segmentInfos : d \in segs[s].live
    <3>1. PICK s \in segmentInfos : d \in segs[s].live
      BY <2>1
    <3>2. \A t \in segmentInfos : d \in segs[t].live => t = s
      BY <3>1 DEF Inv, Types, SegmentsApart, SegmentWithin
    <3>3. {t \in segmentInfos : d \in segs[t].live} = {s}
      BY <3>1, <3>2
    <3> QED BY <3>3, FS_Singleton
  <2> QED BY <2>1 DEF Inv, Accounted
<1>3. MergeKeepsSegments
  BY DEF Inv, MergesApart, MergeOK, ReaderOK, MergeKeepsSegments
<1> QED BY <1>1, <1>2, <1>3 DEF DeletesExact

\* The inductive invariant, in every reachable state, whatever the documents,
\* the packets and the merges.
THEOREM Invariant == Spec => []Inv
<1>1. Init => Inv
  BY InitInv
<1>2. Inv /\ [Next]_vars => Inv'
  BY NextInv
<1> QED BY <1>1, <1>2, PTL DEF Spec

\* Every variable keeps its type, and every segment only its own documents and
\* the updates of them (SegmentOK), through writes, packets and merges.
THEOREM Typing == Spec => []TypeOK
<1>1. Inv => TypeOK
  BY InvTypeOK
<1> QED BY <1>1, Invariant, PTL

\* A finished packet has deleted every document it is for, even those in
\* segments that merged while it was resolved; no other document is lost or
\* copied; and a merge finds its segments and readers where it left them
\* (FrozenBufferedUpdates::apply, IndexWriter::commitMerge).
THEOREM Exact == Spec => []DeletesExact
<1>1. Inv => DeletesExact
  BY InvDeletesExact
<1> QED BY <1>1, Invariant, PTL
==============================================================================
