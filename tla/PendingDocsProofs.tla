-------------------------- MODULE PendingDocsProofs --------------------------
(***************************************************************************)
(* The count of documents for any number of threads, documents and calls:  *)
(* it is exact at every moment, the limit holds, and a rollback leaves the *)
(* documents of its commit.                                                *)
(***************************************************************************)
EXTENDS PendingDocs, FiniteSetTheorems, TLAPS

\* The places at which threads, deleteAll and rollback can be
ThreadPlaces == {"idle", "obtain", "reserve", "takeBack", "index", "pending", "flush", "flushed",
                 "flushFailed", "publish", "purging", "events", "forcePurge", "copied",
                 "takeBackDocs"}
DeleterPlaces == {"idle", "dropTickets", "dropping", "count", "setAbort", "lock", "events",
                  "forcePurge", "purging", "abortMerges", "mergesEnd", "unlock"}
CloserPlaces == {"idle", "abortMerges", "mergesEnd", "lock", "forcePurge", "purging", "rollback",
                 "done"}
\* Of a thread: with the lock of its ThreadState, and with a DWPT that it flushes
Locked == {"reserve", "takeBack", "index"}
InFlush == {"pending", "flush", "flushed", "flushFailed"}
\* Where a thread has documents, or has reserved some, that are nowhere else
Counted == {"takeBack", "index", "pending", "flush", "takeBackDocs"}
\* Of the rollback: after the DocumentsWriter has been closed
Shut == {"lock", "forcePurge", "purging", "rollback", "done"}

Numbers == 1 .. numbered
IsSegment(s) == s.docs # {} /\ s.docs \subseteq Numbers /\ s.gen \in Nat \cup {-1}
SegmentType == [docs : SUBSET Nat, gen : Nat \cup {-1}]
MergeType == [segments : SUBSET SegmentType, aborted : BOOLEAN, info : SegmentType]
TicketType == [docs : SUBSET Nat, phase : {"flush", "flushed", "failed"}]

DocTypes ==
  /\ numbered \in Nat /\ Committed <= numbered
  /\ segmentInfos \subseteq SegmentType /\ IsFiniteSet(segmentInfos)
  /\ packets \subseteq SegmentType /\ pool \subseteq segmentInfos
  /\ \A s \in segmentInfos \cup packets : IsSegment(s)
  /\ dead \subseteq Numbers /\ old \subseteq Numbers
  /\ ram \in [Threads -> SUBSET Numbers] /\ flushing \in [Threads -> SUBSET Numbers]
  /\ tickets \in Seq(TicketType)
  /\ \A i \in DOMAIN tickets : tickets[i].docs # {} /\ tickets[i].docs \subseteq Numbers

AtTypes ==
  /\ at \in [Actors -> ThreadPlaces \cup DeleterPlaces \cup CloserPlaces]
  /\ \A t \in Threads : at[t] \in ThreadPlaces
  /\ at[Deleter] \in DeleterPlaces /\ at[Closer] \in CloserPlaces
LifeTypes ==
  /\ created \subseteq Threads
  /\ holder \in [Threads -> Actors \cup {None}] /\ purgeLock \in Actors \cup {None}
  /\ todo \in [Aborters -> SUBSET Threads]
  /\ poolAborted \in BOOLEAN /\ backlog \in BOOLEAN /\ docWriterClosed \in BOOLEAN
  /\ closing \in BOOLEAN /\ closed \in BOOLEAN /\ stopMerges \in BOOLEAN /\ tragedy \in BOOLEAN
  /\ left \in [Kinds -> Nat]

\* The segments of a merge stay in the index and belong to no other merge, and the merged
\* segment has no documents but theirs.
MergesOwn ==
  /\ \A m \in merges :
       /\ m \in MergeType
       /\ m.segments \subseteq segmentInfos /\ Cardinality(m.segments) = 2
       /\ m.info.docs \subseteq UNION {s.docs : s \in m.segments}
  /\ \A m1, m2 \in merges : m1 = m2 \/ m1.segments \cap m2.segments = {}

\* No document is in two places: segments, tickets, and the DWPTs that have no ticket yet.
Waiting(t) == ram[t] \cup (IF at[t] = "pending" THEN flushing[t] ELSE {})
SegmentsApart == \A s1, s2 \in segmentInfos : s1 = s2 \/ s1.docs \cap s2.docs = {}
TicketsApart ==
  /\ \A i, j \in DOMAIN tickets : i = j \/ tickets[i].docs \cap tickets[j].docs = {}
  /\ \A s \in segmentInfos, i \in DOMAIN tickets : s.docs \cap tickets[i].docs = {}
WritersApart ==
  /\ \A t \in Threads, s \in segmentInfos : s.docs \cap Waiting(t) = {}
  /\ \A t \in Threads, i \in DOMAIN tickets : tickets[i].docs \cap Waiting(t) = {}
  /\ \A t, u \in Threads : t = u \/ Waiting(t) \cap Waiting(u) = {}

Apart == SegmentsApart /\ TicketsApart /\ WritersApart

\* A thread has a DWPT to flush exactly in a flush, and then none that documents go to; a
\* ticket whose flush has not ended belongs to one thread, which is flushing it.
FlushesOwn ==
  /\ \A t \in Threads : IF at[t] \in InFlush THEN flushing[t] # {} /\ ram[t] = {}
                        ELSE flushing[t] = {}
  /\ \A t \in Threads : at[t] = "flush" =>
       \E i \in DOMAIN tickets : tickets[i].docs = flushing[t] /\ tickets[i].phase = "flush"
  /\ \A i \in DOMAIN tickets : tickets[i].phase = "flush" =>
       \E t \in Threads : at[t] = "flush" /\ flushing[t] = tickets[i].docs
  /\ \A t, u \in Threads : at[t] = "flush" /\ at[u] = "flush" /\ t # u => flushing[t] # flushing[u]

LocksHeld ==
  \A t \in Threads : /\ at[t] \in Locked => holder[t] = t /\ t \in created
                     /\ ram[t] # {} => t \in created

\* What the rollback has closed or waited for stays empty.
ClosingPlaces ==
  /\ at[Closer] \notin {"idle", "done"} => closing
  /\ at[Closer] = "done" <=> closed
WritersShut ==
  at[Closer] \in Shut => /\ docWriterClosed /\ merges = {}
                         /\ \A t \in Threads \ todo[Closer] : ram[t] = {} /\ at[t] \notin Locked
FlushesShut ==
  at[Closer] \in Shut \ {"lock"} => todo[Closer] = {} /\ \A t \in Threads : flushing[t] = {}
QueueShut == at[Closer] \in {"rollback", "done"} => tickets = <<>>
AddsShut == closed => WriterFree
MergesShut == at[Closer] \in Shut \cup {"mergesEnd"} => stopMerges \/ left["merges"] = 0
ShutDown == /\ ClosingPlaces /\ WritersShut /\ FlushesShut /\ QueueShut /\ AddsShut /\ MergesShut

\* Merges, deleteAll and rollback: at least one of them is not used.
NeverAllThree ==
  \/ left["merges"] = 0 /\ merges = {}
  \/ left["deleteAlls"] = 0 /\ at[Deleter] = "idle"
  \/ left["rollbacks"] = 0 /\ left["failures"] = 0 /\ ~tragedy /\ at[Closer] = "idle"

\* The places of documents, and the calls that have reserved some, in numbers
InSegments == NumDocs(segmentInfos)
InQueue == Total(FlushedDocs(tickets))
InRam == Total(ram)
InFlushes == Total(FlushingDocs)
Reserving == Cardinality(At({"takeBack", "index"}))
Indexing == Cardinality(At({"index"}))
Adding == Cardinality(At({"takeBackDocs"}))

LimitKept == Documents + Cardinality(At({"index"})) <= ActualMaxDocs

Inv == /\ DocTypes /\ AtTypes /\ LifeTypes /\ MergesOwn /\ Apart
       /\ FlushesOwn /\ LocksHeld /\ ShutDown /\ NeverAllThree /\ CountIsExact /\ LimitKept

\* What the theorems assume of the workloads, as ClearIndex lets merges start again that a
\* rollback under way counts on not to see.
NoWorkloadHasAllThree ==
  \A w \in Workloads : \/ w["merges"] = 0 \/ w["deleteAlls"] = 0
                       \/ w["rollbacks"] = 0 /\ w["failures"] = 0

Finite(f) == IsFiniteSet(DOMAIN f) /\ \A x \in DOMAIN f : IsFiniteSet(f[x])
Size(f, x) == IF x \in DOMAIN f THEN Cardinality(f[x]) ELSE 0

------------------------------------------------------------------------------
\* Sums of the sizes of sets: what is added, taken away or changed in one place

LEMMA PairsFinite ==
  ASSUME NEW f, Finite(f)
  PROVE  IsFiniteSet(Pairs(f))
<1> DEFINE D == DOMAIN f
           R == {{x} \X f[x] : x \in D}
           g == [x \in D |-> {x} \X f[x]]
<1>1. g \in Surjection(D, R)
  BY DEF Surjection
<1>2. IsFiniteSet(R)
  BY <1>1, FS_Surjection DEF Finite
<1>3. \A T \in R : IsFiniteSet(T)
  <2> TAKE T \in R
  <2>1. PICK x \in D : T = {x} \X f[x]
    OBVIOUS
  <2>2. IsFiniteSet({x}) /\ IsFiniteSet(f[x])
    BY FS_Singleton DEF Finite
  <2> QED BY <2>1, <2>2, FS_Product
<1> QED BY <1>2, <1>3, FS_UNION DEF Pairs

LEMMA PairsAre ==
  ASSUME NEW f, NEW p
  PROVE  p \in Pairs(f) <=> \E x \in DOMAIN f : \E d \in f[x] : p = <<x, d>>
BY DEF Pairs

LEMMA TotalNat ==
  ASSUME NEW f, Finite(f)
  PROVE  Total(f) \in Nat
BY PairsFinite, FS_CardinalityType DEF Total

LEMMA TotalNone ==
  ASSUME NEW f, \A x \in DOMAIN f : f[x] = {}
  PROVE  Total(f) = 0
<1>1. Pairs(f) = {}
  BY DEF Pairs
<1> QED BY <1>1, FS_EmptySet DEF Total

LEMMA TotalSplit ==
  ASSUME NEW f, NEW g, NEW h, Finite(f), Finite(g), 
         DOMAIN f \cap DOMAIN g = {}, DOMAIN h = DOMAIN f \cup DOMAIN g,
         \A x \in DOMAIN f : h[x] = f[x],
         \A x \in DOMAIN g : h[x] = g[x]
  PROVE  Finite(h) /\ Total(h) = Total(f) + Total(g)
<1>1. Finite(h)
  <2>1. IsFiniteSet(DOMAIN f \cup DOMAIN g)
    BY FS_Union DEF Finite
  <2> QED BY <2>1 DEF Finite
<1>2. Pairs(h) = Pairs(f) \cup Pairs(g)
  BY DEF Pairs
<1>3. Pairs(f) \cap Pairs(g) = {}
  BY DEF Pairs
<1>4. IsFiniteSet(Pairs(f)) /\ IsFiniteSet(Pairs(g))
  BY PairsFinite
<1>5. Cardinality(Pairs(f) \cup Pairs(g)) = Cardinality(Pairs(f)) + Cardinality(Pairs(g)) - Cardinality({})
  BY <1>3, <1>4, FS_Union
<1> QED BY <1>1, <1>2, <1>4, <1>5, FS_EmptySet, FS_CardinalityType DEF Total

LEMMA TotalOne ==
  ASSUME NEW f, NEW x, DOMAIN f = {x}, IsFiniteSet(f[x])
  PROVE  Finite(f) /\ Total(f) = Cardinality(f[x])
<1>1. Finite(f)
  BY FS_Singleton DEF Finite
<1>2. Pairs(f) = {x} \X f[x]
  BY DEF Pairs
<1>3. IsFiniteSet({x}) /\ Cardinality({x}) = 1
  BY FS_Singleton
<1>4. Cardinality({x} \X f[x]) = 1 * Cardinality(f[x])
  BY <1>3, FS_Product
<1>5. Cardinality(f[x]) \in Nat
  BY FS_CardinalityType
<1> QED BY <1>1, <1>2, <1>4, <1>5 DEF Total

LEMMA TotalStep ==
  ASSUME NEW f, NEW g, NEW x, Finite(f), Finite(g),
         DOMAIN g \ {x} = DOMAIN f \ {x},
         \A y \in DOMAIN f \ {x} : g[y] = f[y]
  PROVE  Total(g) = Total(f) - Size(f, x) + Size(g, x)
<1>1. ASSUME NEW h, Finite(h), x \in DOMAIN h
      PROVE  Total(h) = Total([y \in DOMAIN h \ {x} |-> h[y]]) + Cardinality(h[x])
  <2> DEFINE r == [y \in DOMAIN h \ {x} |-> h[y]]
             o == [y \in {x} |-> h[y]]
  <2>1. Finite(r)
    BY <1>1, FS_RemoveElement DEF Finite
  <2>2. Finite(o) /\ Total(o) = Cardinality(h[x])
    <3>1. DOMAIN o = {x} /\ o[x] = h[x]
      OBVIOUS
    <3>2. IsFiniteSet(o[x])
      BY <1>1, <3>1 DEF Finite
    <3> HIDE DEF o
    <3> QED BY <3>1, <3>2, TotalOne
  <2>3. /\ DOMAIN r \cap DOMAIN o = {} /\ DOMAIN h = DOMAIN r \cup DOMAIN o
        /\ \A y \in DOMAIN r : h[y] = r[y]
        /\ \A y \in DOMAIN o : h[y] = o[y]
    BY <1>1
  <2> HIDE DEF r, o
  <2>4. Total(h) = Total(r) + Total(o)
    BY <2>1, <2>2, <2>3, TotalSplit
  <2> QED BY <2>2, <2>4 DEF r
<1> DEFINE r == [y \in DOMAIN f \ {x} |-> f[y]]
<1>2. Finite(r)
  BY FS_RemoveElement DEF Finite
<1>3. \A h : DOMAIN h \ {x} = DOMAIN f \ {x} /\ (\A y \in DOMAIN f \ {x} : h[y] = f[y])
             => [y \in DOMAIN h \ {x} |-> h[y]] = r
  OBVIOUS
<1>4. ASSUME NEW h, Finite(h), DOMAIN h \ {x} = DOMAIN f \ {x},
             \A y \in DOMAIN f \ {x} : h[y] = f[y]
      PROVE  Total(h) = Total(r) + Size(h, x)
  <2>1. CASE x \in DOMAIN h
    BY <1>1, <1>3, <1>4, <2>1 DEF Size
  <2>2. CASE x \notin DOMAIN h
    <3>1. DOMAIN h = DOMAIN h \ {x}
      BY <2>2
    <3>2. [y \in DOMAIN h \ {x} |-> h[y]] = r
      BY <1>3, <1>4
    <3>3. Pairs(h) = Pairs([y \in DOMAIN h \ {x} |-> h[y]])
      BY <3>1 DEF Pairs
    <3>4. Total(h) = Total(r)
      BY <3>2, <3>3 DEF Total
    <3> QED BY <3>4, <2>2, <1>2, TotalNat DEF Size
  <2> QED BY <2>1, <2>2
<1> HIDE DEF r
<1>5. Total(f) = Total(r) + Size(f, x) /\ Total(g) = Total(r) + Size(g, x)
  BY <1>4
<1>6. Size(f, x) \in Nat /\ Size(g, x) \in Nat
  BY FS_CardinalityType DEF Size, Finite
<1> QED BY <1>2, <1>5, <1>6, TotalNat

LEMMA NumDocsSplit ==
  ASSUME NEW S, NEW T, S \cap T = {}, IsFiniteSet(S), IsFiniteSet(T),
         \A s \in S \cup T : IsFiniteSet(s.docs)
  PROVE  /\ NumDocs(S \cup T) = NumDocs(S) + NumDocs(T)
         /\ NumDocs(S) \in Nat /\ NumDocs(T) \in Nat
<1> DEFINE f == [s \in S |-> s.docs]
           g == [s \in T |-> s.docs]
           h == [s \in S \cup T |-> s.docs]
<1>1. Finite(f) /\ Finite(g)
  BY DEF Finite
<1>2. /\ DOMAIN f \cap DOMAIN g = {} /\ DOMAIN h = DOMAIN f \cup DOMAIN g
      /\ \A x \in DOMAIN f : h[x] = f[x]
      /\ \A x \in DOMAIN g : h[x] = g[x]
  OBVIOUS
<1>3. NumDocs(S) = Total(f) /\ NumDocs(T) = Total(g) /\ NumDocs(S \cup T) = Total(h)
  BY DEF NumDocs
<1> HIDE DEF f, g, h
<1>4. Total(h) = Total(f) + Total(g)
  BY <1>1, <1>2, TotalSplit
<1> QED BY <1>1, <1>3, <1>4, TotalNat

LEMMA NumDocsOne ==
  ASSUME NEW s, IsFiniteSet(s.docs)
  PROVE  NumDocs({s}) = Cardinality(s.docs) /\ Cardinality(s.docs) \in Nat
<1> DEFINE f == [x \in {s} |-> x.docs]
<1>1. DOMAIN f = {s} /\ f[s] = s.docs
  OBVIOUS
<1>2. NumDocs({s}) = Total(f)
  BY DEF NumDocs
<1> HIDE DEF f
<1> QED BY <1>1, <1>2, TotalOne, FS_CardinalityType

LEMMA NumDocsNone == NumDocs({}) = 0
<1> DEFINE f == [s \in {} |-> s.docs]
<1>1. \A x \in DOMAIN f : f[x] = {}
  OBVIOUS
<1>2. NumDocs({}) = Total(f)
  BY DEF NumDocs
<1> HIDE DEF f
<1> QED BY <1>1, <1>2, TotalNone

\* The head of the flush queue is the first of its tickets.
LEMMA TailDocs ==
  ASSUME NEW R, NEW q \in Seq(R), q # <<>>, Finite(FlushedDocs(q))
  PROVE  /\ Finite(FlushedDocs(Tail(q)))
         /\ Total(FlushedDocs(q)) =
              Total(FlushedDocs(Tail(q)))
                + (IF Head(q).phase = "flushed" THEN Cardinality(Head(q).docs) ELSE 0)
<1> DEFINE f == FlushedDocs(q)
           g == FlushedDocs(Tail(q))
           D == {j \in 2 .. Len(q) : q[j].phase = "flushed"}
           r == [i \in D |-> q[i].docs]
           b == [i \in D |-> i - 1]
           c == [p \in Pairs(r) |-> <<p[1] - 1, p[2]>>]
<1>a. Finite(f)
  OBVIOUS
<1>1. /\ Len(q) \in Nat \ {0} /\ DOMAIN q = 1 .. Len(q)
      /\ DOMAIN Tail(q) = 1 .. (Len(q) - 1)
      /\ \A i \in 1 .. (Len(q) - 1) : Tail(q)[i] = q[i + 1]
      /\ Head(q) = q[1]
  OBVIOUS
<1>2. DOMAIN f = {j \in 1 .. Len(q) : q[j].phase = "flushed"}
      /\ \A i \in DOMAIN f : f[i] = q[i].docs
  BY <1>1 DEF FlushedDocs
<1>3. DOMAIN g = {j \in 1 .. (Len(q) - 1) : q[j + 1].phase = "flushed"}
      /\ \A i \in DOMAIN g : g[i] = q[i + 1].docs
  BY <1>1 DEF FlushedDocs
<1>4. D = DOMAIN f \ {1}
  BY <1>1, <1>2
<1>5. Finite(r)
  <2>1. IsFiniteSet(D)
    BY <1>4, FS_RemoveElement DEF Finite
  <2>2. \A x \in D : IsFiniteSet(r[x])
    BY <1>2, <1>4 DEF Finite
  <2> QED BY <2>1, <2>2 DEF Finite
<1>6. Total(f) = Total(r) + (IF Head(q).phase = "flushed" THEN Cardinality(Head(q).docs) ELSE 0)
  <2>1. Total(f) = Total(r) - Size(r, 1) + Size(f, 1)
    <3>1. DOMAIN f \ {1} = DOMAIN r \ {1} /\ \A y \in DOMAIN r \ {1} : f[y] = r[y]
      BY <1>2, <1>4
    <3> HIDE DEF f, r
    <3> QED BY <3>1, <1>a, <1>5, TotalStep
  <2>2. Size(r, 1) = 0
    BY <1>1 DEF Size
  <2>3. Size(f, 1) = IF Head(q).phase = "flushed" THEN Cardinality(Head(q).docs) ELSE 0
    BY <1>1, <1>2 DEF Size
  <2>4. Total(r) \in Nat
    <3> HIDE DEF r
    <3> QED BY <1>5, TotalNat
  <2>5. Size(f, 1) \in Nat
    BY FS_CardinalityType DEF Size, Finite
  <2> HIDE DEF f, r
  <2> QED BY <2>1, <2>2, <2>3, <2>4, <2>5
<1>b. \A p : p \in Pairs(r) <=> \E i \in D : \E d \in q[i].docs : p = <<i, d>>
  <2>1. DOMAIN r = D /\ \A i \in D : r[i] = q[i].docs
    OBVIOUS
  <2> HIDE DEF c, r, D
  <2> QED BY <2>1, PairsAre
<1>7. c \in Bijection(Pairs(r), Pairs(g))
  <2>0. \A p \in Pairs(r) : c[p] = <<p[1] - 1, p[2]>>
    OBVIOUS
  <2>1. \A p \in Pairs(r) : c[p] \in Pairs(g)
    <3> HIDE DEF c, r, g
    <3> TAKE p \in Pairs(r)
    <3>1. PICK i, d : i \in D /\ d \in q[i].docs /\ p = <<i, d>>
      BY <1>b
    <3>2. i - 1 \in DOMAIN g /\ g[i - 1] = q[i].docs
      <4>1. i \in 2 .. Len(q) /\ q[i].phase = "flushed"
        BY <3>1
      <4>2. i - 1 \in 1 .. (Len(q) - 1) /\ (i - 1) + 1 = i
        BY <1>1, <4>1
      <4> QED BY <1>3, <4>1, <4>2
    <3>3. c[p] = <<i - 1, d>>
      BY <2>0, <3>1
    <3> QED BY <3>1, <3>2, <3>3, PairsAre
  <2>2. \A p1, p2 \in Pairs(r) : c[p1] = c[p2] => p1 = p2
    <3> HIDE DEF c, r, g
    <3> TAKE p1, p2 \in Pairs(r)
    <3>1. PICK i1, d1 : i1 \in D /\ d1 \in q[i1].docs /\ p1 = <<i1, d1>>
      BY <1>b
    <3>2. PICK i2, d2 : i2 \in D /\ d2 \in q[i2].docs /\ p2 = <<i2, d2>>
      BY <1>b
    <3>3. c[p1] = <<i1 - 1, d1>> /\ c[p2] = <<i2 - 1, d2>>
      BY <2>0, <3>1, <3>2
    <3>4. c[p1] = c[p2] => i1 - 1 = i2 - 1 /\ d1 = d2
      BY <3>3
    <3>5. i1 \in Int /\ i2 \in Int
      BY <1>1, <3>1, <3>2
    <3> HIDE DEF D
    <3> QED BY <3>1, <3>2, <3>4, <3>5
  <2>3. \A e \in Pairs(g) : \E p \in Pairs(r) : c[p] = e
    <3> HIDE DEF c, r, g
    <3> TAKE e \in Pairs(g)
    <3>1. PICK i, d : i \in DOMAIN g /\ d \in g[i] /\ e = <<i, d>>
      BY PairsAre
    <3>2. i \in Int /\ i + 1 \in D /\ d \in q[i + 1].docs
      <4>1. i \in 1 .. (Len(q) - 1) /\ q[i + 1].phase = "flushed" /\ g[i] = q[i + 1].docs
        BY <3>1, <1>3
      <4>2. i + 1 \in 2 .. Len(q) /\ i \in Int
        BY <1>1, <4>1
      <4> QED BY <3>1, <4>1, <4>2
    <3>3. <<i + 1, d>> \in Pairs(r)
      BY <1>b, <3>2
    <3>4. c[<<i + 1, d>>] = <<(i + 1) - 1, d>>
      BY <2>0, <3>3
    <3>5. (i + 1) - 1 = i
      BY <3>2
    <3> QED BY <3>1, <3>3, <3>4, <3>5
  <2>4. c \in [Pairs(r) -> Pairs(g)]
    BY <2>1
  <2> HIDE DEF c, r, g, D
  <2>5. c \in Injection(Pairs(r), Pairs(g))
    BY <2>2, <2>4, Zenon DEF Injection, IsInjective
  <2>6. c \in Surjection(Pairs(r), Pairs(g))
    BY <2>3, <2>4 DEF Surjection
  <2> QED BY <2>5, <2>6 DEF Bijection
<1>8. IsFiniteSet(Pairs(g)) /\ Cardinality(Pairs(g)) = Cardinality(Pairs(r))
  <2> HIDE DEF c, r, g
  <2>1. ExistsBijection(Pairs(r), Pairs(g))
    BY <1>7 DEF ExistsBijection
  <2>2. IsFiniteSet(Pairs(r))
    BY <1>5, PairsFinite
  <2> QED BY <2>1, <2>2, FS_Bijection
<1>9. Finite(g)
  <2>1. IsFiniteSet(DOMAIN g)
    <3>1. IsFiniteSet(1 .. (Len(q) - 1))
      BY <1>1, FS_Interval
    <3>2. DOMAIN g \in SUBSET (1 .. (Len(q) - 1))
      BY <1>3
    <3> HIDE DEF g
    <3> QED BY <3>1, <3>2, FS_Subset
  <2>2. \A i \in DOMAIN g : IsFiniteSet(g[i])
    <3> TAKE i \in DOMAIN g
    <3>1. i + 1 \in DOMAIN f /\ g[i] = f[i + 1]
      BY <1>1, <1>2, <1>3
    <3>2. Finite(f)
      OBVIOUS
    <3> HIDE DEF f, g
    <3> QED BY <3>1, <3>2 DEF Finite
  <2> HIDE DEF g
  <2> QED BY <2>1, <2>2 DEF Finite
<1>10. Total(g) = Total(r)
  BY <1>8 DEF Total
<1> HIDE DEF f, g, r
<1> QED BY <1>6, <1>9, <1>10 DEF f, g

LEMMA CountAt ==
  ASSUME NEW F \in SUBSET Threads, NEW G \in SUBSET Threads, NEW x, F \ {x} = G \ {x}
  PROVE  Cardinality(G) = Cardinality(F) - (IF x \in F THEN 1 ELSE 0) + (IF x \in G THEN 1 ELSE 0)
<1>1. IsFiniteSet(F) /\ IsFiniteSet(G)
  BY ActorsAssumption, FS_Subset
<1>2. Cardinality(F) \in Nat /\ Cardinality(G) \in Nat
  BY <1>1, FS_CardinalityType
<1>3. Cardinality(F \ {x}) = IF x \in F THEN Cardinality(F) - 1 ELSE Cardinality(F)
  BY <1>1, FS_RemoveElement
<1>4. Cardinality(G \ {x}) = IF x \in G THEN Cardinality(G) - 1 ELSE Cardinality(G)
  BY <1>1, FS_RemoveElement
<1>5. PICK rest : rest = F \ {x} /\ rest = G \ {x}
  OBVIOUS
<1>6. PICK n, f, g : n = Cardinality(rest) /\ f = Cardinality(F) /\ g = Cardinality(G)
  OBVIOUS
<1>7. /\ f \in Nat /\ g \in Nat
      /\ n = IF x \in F THEN f - 1 ELSE f
      /\ n = IF x \in G THEN g - 1 ELSE g
  BY <1>2, <1>3, <1>4, <1>5, <1>6
<1>8. g = f - (IF x \in F THEN 1 ELSE 0) + (IF x \in G THEN 1 ELSE 0)
  BY <1>7
<1> QED BY <1>6, <1>8

------------------------------------------------------------------------------
\* Each step keeps the parts of the invariant that say who owns which documents and locks.

LEMMA NextSteps ==
  ASSUME Next
  PROVE  \/ \E t \in Threads : StartUpdate(t)
         \/ \E t \in Threads : ObtainAndLock(t)
         \/ \E t \in Threads : ReserveOneDoc(t)
         \/ \E t \in Threads : TakeBackOneDoc(t)
         \/ \E t \in Threads : \E fails, flush \in BOOLEAN : Index(t, fails, flush)
         \/ \E t \in Threads : AbortingException(t)
         \/ \E t \in Threads : AddFlushTicket(t)
         \/ \E t \in Threads : AddSegment(t)
         \/ \E t \in Threads : FlushFails(t)
         \/ \E t \in Threads : DoAfterFlush(t)
         \/ \E t \in Threads : TryPurge(t)
         \/ \E t \in Threads : StartAddIndexes(t)
         \/ \E t \in Threads : InsertCopied(t)
         \/ \E t \in Threads : TakeBackDocs(t)
         \/ \E a \in Actors : ForcePurge(a)
         \/ \E a \in Actors : PublishFlushedSegment(a)
         \/ \E a \in Actors : EndPurge(a)
         \/ \E a \in Actors : ProcessEvents(a)
         \/ StartDeleteAll
         \/ DropTicket
         \/ CountThreadStates
         \/ SetAbort
         \/ ClearIndex
         \/ UnlockAll
         \/ StartRollback
         \/ CloseDocWriter
         \/ RollbackSegmentInfos
         \/ \E a \in Aborters, t \in Threads : AbortThreadState(a, t)
         \/ \E a \in Aborters : WaitForFlush(a)
         \/ \E a \in Aborters : AbortMerges(a)
         \/ \E s \in segmentInfos : StartApply(s)
         \/ \E s \in segmentInfos : WriteReaderPool(s)
         \/ \E s \in packets : FinishApply(s)
         \/ \E S \in SUBSET segmentInfos : StartMerge(S)
         \/ \E m \in merges : CommitMerge(m)
         \/ \E m \in merges : MergeFails(m)
         \/ UNCHANGED vars
BY DEF Next, ThreadStep, PurgeStep, AbortStep, DeleteAllStep, RollbackStep, SegmentStep, Quiet, kSubset,
       Aborters, vars

LEMMA Distinct ==
  /\ Deleter # Closer /\ Deleter \notin Threads /\ Closer \notin Threads
  /\ None \notin Actors /\ Actors = Threads \cup {Deleter, Closer}
BY ActorsAssumption DEF Actors, Aborters

LEMMA AtTypesStep ==
  ASSUME AtTypes, Next
  PROVE  AtTypes'
<1>1. CASE \E t \in Threads : StartUpdate(t)
  BY <1>1, Distinct DEF AtTypes, ThreadPlaces, DeleterPlaces, CloserPlaces, StartUpdate, Goto, Aborters
<1>2. CASE \E t \in Threads : ObtainAndLock(t)
  BY <1>2, Distinct DEF AtTypes, ThreadPlaces, DeleterPlaces, CloserPlaces, ObtainAndLock, Goto, Aborters
<1>3. CASE \E t \in Threads : ReserveOneDoc(t)
  BY <1>3, Distinct DEF AtTypes, ThreadPlaces, DeleterPlaces, CloserPlaces, ReserveOneDoc, Goto, Aborters
<1>4. CASE \E t \in Threads : TakeBackOneDoc(t)
  BY <1>4, Distinct DEF AtTypes, ThreadPlaces, DeleterPlaces, CloserPlaces, TakeBackOneDoc, Goto, Aborters
<1>5. CASE \E t \in Threads : \E fails, flush \in BOOLEAN : Index(t, fails, flush)
  BY <1>5, Distinct DEF AtTypes, ThreadPlaces, DeleterPlaces, CloserPlaces, Index, Goto, Aborters
<1>6. CASE \E t \in Threads : AbortingException(t)
  BY <1>6, Distinct DEF AtTypes, ThreadPlaces, DeleterPlaces, CloserPlaces, AbortingException, Goto, Aborters
<1>7. CASE \E t \in Threads : AddFlushTicket(t)
  BY <1>7, Distinct DEF AtTypes, ThreadPlaces, DeleterPlaces, CloserPlaces, AddFlushTicket, Goto, Aborters
<1>8. CASE \E t \in Threads : AddSegment(t)
  BY <1>8, Distinct DEF AtTypes, ThreadPlaces, DeleterPlaces, CloserPlaces, AddSegment, Goto, Aborters
<1>9. CASE \E t \in Threads : FlushFails(t)
  BY <1>9, Distinct DEF AtTypes, ThreadPlaces, DeleterPlaces, CloserPlaces, FlushFails, Goto, Aborters
<1>10. CASE \E t \in Threads : DoAfterFlush(t)
  BY <1>10, Distinct DEF AtTypes, ThreadPlaces, DeleterPlaces, CloserPlaces, DoAfterFlush, Goto, Aborters
<1>11. CASE \E t \in Threads : TryPurge(t)
  BY <1>11, Distinct DEF AtTypes, ThreadPlaces, DeleterPlaces, CloserPlaces, TryPurge, Goto, Aborters
<1>12. CASE \E t \in Threads : StartAddIndexes(t)
  BY <1>12, Distinct DEF AtTypes, ThreadPlaces, DeleterPlaces, CloserPlaces, StartAddIndexes, Goto, Aborters
<1>13. CASE \E t \in Threads : InsertCopied(t)
  BY <1>13, Distinct DEF AtTypes, ThreadPlaces, DeleterPlaces, CloserPlaces, InsertCopied, Goto, Aborters
<1>14. CASE \E t \in Threads : TakeBackDocs(t)
  BY <1>14, Distinct DEF AtTypes, ThreadPlaces, DeleterPlaces, CloserPlaces, TakeBackDocs, Goto, Aborters
<1>15. CASE \E a \in Actors : ForcePurge(a)
  BY <1>15, Distinct DEF AtTypes, ThreadPlaces, DeleterPlaces, CloserPlaces, ForcePurge, Goto, Aborters
<1>16. CASE \E a \in Actors : PublishFlushedSegment(a)
  BY <1>16, Distinct DEF AtTypes, ThreadPlaces, DeleterPlaces, CloserPlaces, PublishFlushedSegment, Aborters
<1>17. CASE \E a \in Actors : EndPurge(a)
  BY <1>17, Distinct DEF AtTypes, ThreadPlaces, DeleterPlaces, CloserPlaces, EndPurge, Goto, Aborters
<1>18. CASE \E a \in Actors : ProcessEvents(a)
  BY <1>18, Distinct DEF AtTypes, ThreadPlaces, DeleterPlaces, CloserPlaces, ProcessEvents, Goto, Aborters
<1>19. CASE StartDeleteAll
  BY <1>19, Distinct DEF AtTypes, ThreadPlaces, DeleterPlaces, CloserPlaces, StartDeleteAll, Goto, Aborters
<1>20. CASE DropTicket
  BY <1>20, Distinct DEF AtTypes, ThreadPlaces, DeleterPlaces, CloserPlaces, DropTicket, Aborters
<1>21. CASE CountThreadStates
  BY <1>21, Distinct DEF AtTypes, ThreadPlaces, DeleterPlaces, CloserPlaces, CountThreadStates, Goto, Aborters
<1>22. CASE SetAbort
  BY <1>22, Distinct DEF AtTypes, ThreadPlaces, DeleterPlaces, CloserPlaces, SetAbort, Goto, Aborters
<1>23. CASE ClearIndex
  BY <1>23, Distinct DEF AtTypes, ThreadPlaces, DeleterPlaces, CloserPlaces, ClearIndex, Goto, Aborters
<1>24. CASE UnlockAll
  BY <1>24, Distinct DEF AtTypes, ThreadPlaces, DeleterPlaces, CloserPlaces, UnlockAll, Goto, Aborters
<1>25. CASE StartRollback
  BY <1>25, Distinct DEF AtTypes, ThreadPlaces, DeleterPlaces, CloserPlaces, StartRollback, Goto, Aborters
<1>26. CASE CloseDocWriter
  BY <1>26, Distinct DEF AtTypes, ThreadPlaces, DeleterPlaces, CloserPlaces, CloseDocWriter, Goto, Aborters
<1>27. CASE RollbackSegmentInfos
  BY <1>27, Distinct DEF AtTypes, ThreadPlaces, DeleterPlaces, CloserPlaces, RollbackSegmentInfos, Goto,
     Aborters
<1>28. CASE \E a \in Aborters, t \in Threads : AbortThreadState(a, t)
  BY <1>28, Distinct DEF AtTypes, ThreadPlaces, DeleterPlaces, CloserPlaces, AbortThreadState, Aborters
<1>29. CASE \E a \in Aborters : WaitForFlush(a)
  BY <1>29, Distinct DEF AtTypes, ThreadPlaces, DeleterPlaces, CloserPlaces, WaitForFlush, Goto, Aborters
<1>30. CASE \E a \in Aborters : AbortMerges(a)
  BY <1>30, Distinct DEF AtTypes, ThreadPlaces, DeleterPlaces, CloserPlaces, AbortMerges, Goto, Aborters
<1>31. CASE \E s \in segmentInfos : StartApply(s)
  BY <1>31, Distinct DEF AtTypes, ThreadPlaces, DeleterPlaces, CloserPlaces, StartApply, Aborters
<1>32. CASE \E s \in segmentInfos : WriteReaderPool(s)
  BY <1>32, Distinct DEF AtTypes, ThreadPlaces, DeleterPlaces, CloserPlaces, WriteReaderPool,
     dropDeletedSegment, Aborters
<1>33. CASE \E s \in packets : FinishApply(s)
  BY <1>33, Distinct DEF AtTypes, ThreadPlaces, DeleterPlaces, CloserPlaces, FinishApply, dropDeletedSegment,
     Aborters
<1>34. CASE \E S \in SUBSET segmentInfos : StartMerge(S)
  BY <1>34, Distinct DEF AtTypes, ThreadPlaces, DeleterPlaces, CloserPlaces, StartMerge, Aborters
<1>35. CASE \E m \in merges : CommitMerge(m)
  BY <1>35, Distinct DEF AtTypes, ThreadPlaces, DeleterPlaces, CloserPlaces, CommitMerge, Aborters
<1>36. CASE \E m \in merges : MergeFails(m)
  BY <1>36, Distinct DEF AtTypes, ThreadPlaces, DeleterPlaces, CloserPlaces, MergeFails, Aborters
<1>37. CASE UNCHANGED vars
  BY <1>37, Distinct DEF AtTypes, ThreadPlaces, DeleterPlaces, CloserPlaces, vars
<1> QED BY NextSteps, <1>1, <1>2, <1>3, <1>4, <1>5, <1>6, <1>7, <1>8, <1>9, <1>10, <1>11, <1>12, <1>13,
           <1>14, <1>15, <1>16, <1>17, <1>18, <1>19, <1>20, <1>21, <1>22, <1>23, <1>24, <1>25, <1>26, <1>27,
           <1>28, <1>29, <1>30, <1>31, <1>32, <1>33, <1>34, <1>35, <1>36, <1>37

LEMMA LifeTypesStep ==
  ASSUME AtTypes, LifeTypes, Next
  PROVE  LifeTypes'
<1>1. CASE \E t \in Threads : StartUpdate(t)
  BY <1>1, Distinct DEF LifeTypes, StartUpdate, Spend, Kinds, stateVars, queueVars, lifeVars, vars, Aborters
<1>2. CASE \E t \in Threads : ObtainAndLock(t)
  BY <1>2, Distinct DEF LifeTypes, ObtainAndLock, Spend, Kinds, stateVars, queueVars, lifeVars, vars, Aborters
<1>3. CASE \E t \in Threads : ReserveOneDoc(t)
  BY <1>3, Distinct DEF LifeTypes, ReserveOneDoc, Spend, Kinds, stateVars, queueVars, lifeVars, vars, Aborters
<1>4. CASE \E t \in Threads : TakeBackOneDoc(t)
  BY <1>4, Distinct DEF LifeTypes, TakeBackOneDoc, Spend, Kinds, stateVars, queueVars, lifeVars, vars,
     Aborters
<1>5. CASE \E t \in Threads : \E fails, flush \in BOOLEAN : Index(t, fails, flush)
  BY <1>5, Distinct DEF LifeTypes, Index, Spend, Kinds, stateVars, queueVars, lifeVars, vars, Aborters
<1>6. CASE \E t \in Threads : AbortingException(t)
  BY <1>6, Distinct DEF LifeTypes, AbortingException, Spend, Kinds, stateVars, queueVars, lifeVars, vars,
     Aborters
<1>7. CASE \E t \in Threads : AddFlushTicket(t)
  BY <1>7, Distinct DEF LifeTypes, AddFlushTicket, Spend, Kinds, stateVars, queueVars, lifeVars, vars,
     Aborters
<1>8. CASE \E t \in Threads : AddSegment(t)
  BY <1>8, Distinct DEF LifeTypes, AddSegment, Spend, Kinds, stateVars, queueVars, lifeVars, vars, Aborters
<1>9. CASE \E t \in Threads : FlushFails(t)
  BY <1>9, Distinct DEF LifeTypes, FlushFails, Spend, Kinds, stateVars, queueVars, lifeVars, vars, Aborters
<1>10. CASE \E t \in Threads : DoAfterFlush(t)
  BY <1>10, Distinct DEF LifeTypes, DoAfterFlush, Spend, Kinds, stateVars, queueVars, lifeVars, vars, Aborters
<1>11. CASE \E t \in Threads : TryPurge(t)
  BY <1>11, Distinct DEF LifeTypes, TryPurge, Spend, Kinds, stateVars, queueVars, lifeVars, vars, Aborters
<1>12. CASE \E t \in Threads : StartAddIndexes(t)
  BY <1>12, Distinct DEF LifeTypes, StartAddIndexes, Spend, Kinds, stateVars, queueVars, lifeVars, vars,
     Aborters
<1>13. CASE \E t \in Threads : InsertCopied(t)
  BY <1>13, Distinct DEF LifeTypes, InsertCopied, Spend, Kinds, stateVars, queueVars, lifeVars, vars, Aborters
<1>14. CASE \E t \in Threads : TakeBackDocs(t)
  BY <1>14, Distinct DEF LifeTypes, TakeBackDocs, Spend, Kinds, stateVars, queueVars, lifeVars, vars, Aborters
<1>15. CASE \E a \in Actors : ForcePurge(a)
  BY <1>15, Distinct DEF LifeTypes, ForcePurge, Spend, Kinds, stateVars, queueVars, lifeVars, vars, Aborters
<1>16. CASE \E a \in Actors : PublishFlushedSegment(a)
  BY <1>16, Distinct DEF LifeTypes, PublishFlushedSegment, Spend, Kinds, stateVars, queueVars, lifeVars,
     vars, Aborters
<1>17. CASE \E a \in Actors : EndPurge(a)
  BY <1>17, Distinct DEF LifeTypes, EndPurge, Spend, Kinds, stateVars, queueVars, lifeVars, vars, Aborters
<1>18. CASE \E a \in Actors : ProcessEvents(a)
  BY <1>18, Distinct DEF LifeTypes, ProcessEvents, Spend, Kinds, stateVars, queueVars, lifeVars, vars,
     Aborters
<1>19. CASE StartDeleteAll
  BY <1>19, Distinct DEF LifeTypes, StartDeleteAll, Spend, Kinds, stateVars, queueVars, lifeVars, vars,
     Aborters
<1>20. CASE DropTicket
  BY <1>20, Distinct DEF LifeTypes, DropTicket, Spend, Kinds, stateVars, queueVars, lifeVars, vars, Aborters
<1>21. CASE CountThreadStates
  BY <1>21, Distinct DEF LifeTypes, CountThreadStates, Spend, Kinds, stateVars, queueVars, lifeVars, vars,
     Aborters
<1>22. CASE SetAbort
  BY <1>22, Distinct DEF LifeTypes, SetAbort, Spend, Kinds, stateVars, queueVars, lifeVars, vars, Aborters
<1>23. CASE ClearIndex
  BY <1>23, Distinct DEF LifeTypes, ClearIndex, Spend, Kinds, stateVars, queueVars, lifeVars, vars, Aborters
<1>24. CASE UnlockAll
  BY <1>24, Distinct DEF LifeTypes, UnlockAll, Spend, Kinds, stateVars, queueVars, lifeVars, vars, Aborters
<1>25. CASE StartRollback
  BY <1>25, Distinct DEF LifeTypes, StartRollback, Spend, Kinds, stateVars, queueVars, lifeVars, vars,
     Aborters
<1>26. CASE CloseDocWriter
  BY <1>26, Distinct DEF LifeTypes, CloseDocWriter, Spend, Kinds, stateVars, queueVars, lifeVars, vars,
     Aborters
<1>27. CASE RollbackSegmentInfos
  BY <1>27, Distinct DEF LifeTypes, RollbackSegmentInfos, Spend, Kinds, stateVars, queueVars, lifeVars, vars,
     Aborters
<1>28. CASE \E a \in Aborters, t \in Threads : AbortThreadState(a, t)
  BY <1>28, Distinct DEF LifeTypes, AbortThreadState, Spend, Kinds, stateVars, queueVars, lifeVars, vars,
     Aborters
<1>29. CASE \E a \in Aborters : WaitForFlush(a)
  BY <1>29, Distinct DEF LifeTypes, WaitForFlush, Spend, Kinds, stateVars, queueVars, lifeVars, vars, Aborters
<1>30. CASE \E a \in Aborters : AbortMerges(a)
  BY <1>30, Distinct DEF LifeTypes, AbortMerges, Spend, Kinds, stateVars, queueVars, lifeVars, vars, Aborters
<1>31. CASE \E s \in segmentInfos : StartApply(s)
  BY <1>31, Distinct DEF LifeTypes, StartApply, Spend, Kinds, stateVars, queueVars, lifeVars, vars, Aborters
<1>32. CASE \E s \in segmentInfos : WriteReaderPool(s)
  BY <1>32, Distinct DEF LifeTypes, WriteReaderPool, dropDeletedSegment, Spend, Kinds, stateVars, queueVars,
     lifeVars, vars, Aborters
<1>33. CASE \E s \in packets : FinishApply(s)
  BY <1>33, Distinct DEF LifeTypes, FinishApply, dropDeletedSegment, Spend, Kinds, stateVars, queueVars,
     lifeVars, vars, Aborters
<1>34. CASE \E S \in SUBSET segmentInfos : StartMerge(S)
  BY <1>34, Distinct DEF LifeTypes, StartMerge, Spend, Kinds, stateVars, queueVars, lifeVars, vars, Aborters
<1>35. CASE \E m \in merges : CommitMerge(m)
  BY <1>35, Distinct DEF LifeTypes, CommitMerge, Spend, Kinds, stateVars, queueVars, lifeVars, vars, Aborters
<1>36. CASE \E m \in merges : MergeFails(m)
  BY <1>36, Distinct DEF LifeTypes, MergeFails, Spend, Kinds, stateVars, queueVars, lifeVars, vars, Aborters
<1>37. CASE UNCHANGED vars
  BY <1>37, Distinct DEF LifeTypes, vars, Spend, Kinds, stateVars, queueVars, lifeVars, Aborters
<1> QED BY NextSteps, <1>1, <1>2, <1>3, <1>4, <1>5, <1>6, <1>7, <1>8, <1>9, <1>10, <1>11, <1>12, <1>13,
           <1>14, <1>15, <1>16, <1>17, <1>18, <1>19, <1>20, <1>21, <1>22, <1>23, <1>24, <1>25, <1>26, <1>27,
           <1>28, <1>29, <1>30, <1>31, <1>32, <1>33, <1>34, <1>35, <1>36, <1>37
LEMMA NumbersGrow ==
  ASSUME NEW n \in Nat, NEW k \in Nat
  PROVE  1 .. n \subseteq 1 .. (n + k)
OBVIOUS

LEMMA SegmentTyped ==
  ASSUME NEW docs \in SUBSET Nat, NEW gen \in Nat \cup {-1}
  PROVE  /\ Segment(docs, gen) \in SegmentType
         /\ Segment(docs, gen).docs = docs /\ Segment(docs, gen).gen = gen
BY DEF Segment, SegmentType

LEMMA SegmentDocs == ASSUME NEW docs, NEW gen PROVE Segment(docs, gen).docs = docs
BY DEF Segment

LEMMA TailIs ==
  ASSUME NEW R, NEW q \in Seq(R), q # <<>>
  PROVE  /\ Tail(q) \in Seq(R)
         /\ \A i \in DOMAIN Tail(q) : i + 1 \in DOMAIN q /\ Tail(q)[i] = q[i + 1]
         /\ 1 \in DOMAIN q /\ Head(q) = q[1]
OBVIOUS

LEMMA MarkedTypes ==
  ASSUME DocTypes, NEW docs, NEW phase \in {"flush", "flushed", "failed"}
  PROVE  /\ Marked(docs, phase) \in Seq(TicketType)
         /\ DOMAIN Marked(docs, phase) = DOMAIN tickets
         /\ \A i \in DOMAIN tickets :
              /\ Marked(docs, phase)[i].docs = tickets[i].docs
              /\ Marked(docs, phase)[i].phase = IF tickets[i].docs = docs THEN phase ELSE tickets[i].phase
<1>1. tickets \in Seq(TicketType) /\ Len(tickets) \in Nat /\ DOMAIN tickets = 1 .. Len(tickets)
  BY DEF DocTypes
<1>2. \A i \in DOMAIN tickets : tickets[i] \in TicketType
  BY <1>1
<1>3. ASSUME NEW i \in DOMAIN tickets
      PROVE  /\ Marked(docs, phase)[i] \in TicketType
             /\ Marked(docs, phase)[i].docs = tickets[i].docs
             /\ Marked(docs, phase)[i].phase = IF tickets[i].docs = docs THEN phase ELSE tickets[i].phase
  <2>1. Marked(docs, phase)[i] = IF tickets[i].docs = docs THEN [tickets[i] EXCEPT !.phase = phase] ELSE tickets[i]
    BY DEF Marked
  <2>2. tickets[i] \in TicketType
    BY <1>2
  <2> QED BY <2>1, <2>2 DEF TicketType
<1>4. DOMAIN Marked(docs, phase) = DOMAIN tickets
  BY DEF Marked
<1>5. Marked(docs, phase) \in Seq(TicketType)
  <2>1. Marked(docs, phase) = [i \in 1 .. Len(tickets) |-> Marked(docs, phase)[i]]
    BY <1>1 DEF Marked
  <2> QED BY <1>1, <1>3, <2>1
<1> QED BY <1>3, <1>4, <1>5

LEMMA CommittedTypes ==
  ASSUME NEW gen \in Nat \cup {-1}, NEW n \in Nat, Committed <= n
  PROVE  /\ CommittedSegments(gen) \subseteq SegmentType
         /\ IsFiniteSet(CommittedSegments(gen))
         /\ \A s \in CommittedSegments(gen) : s.docs # {} /\ s.docs \subseteq 1 .. n /\ s.gen = gen
<1>0. Committed \in Nat
  BY DocsAssumption
<1>1. CASE Committed = 0
  BY <1>1, FS_EmptySet DEF CommittedSegments
<1>2. CASE Committed # 0
  <2>1. PICK docs : docs = 1 .. Committed
    OBVIOUS
  <2>2. docs # {} /\ docs \subseteq 1 .. n /\ docs \subseteq Nat
    BY <1>0, <1>2, <2>1
  <2>3. PICK s \in SegmentType : s = Segment(docs, gen) /\ s.docs = docs /\ s.gen = gen
    BY <2>2, SegmentTyped
  <2>4. CommittedSegments(gen) = {s}
    BY <1>2, <2>1, <2>3 DEF CommittedSegments
  <2> QED BY <2>2, <2>3, <2>4, FS_Singleton
<1> QED BY <1>1, <1>2

LEMMA DocTypesStep ==
  ASSUME DocTypes, MergesOwn, FlushesOwn, Next
  PROVE  DocTypes'
<1>1. CASE \E t \in Threads : StartUpdate(t)
  BY <1>1 DEF DocTypes, IsSegment, Numbers, StartUpdate, segVars, queueVars, vars
<1>2. CASE \E t \in Threads : ObtainAndLock(t)
  BY <1>2 DEF DocTypes, IsSegment, Numbers, ObtainAndLock, segVars, queueVars, vars
<1>3. CASE \E t \in Threads : ReserveOneDoc(t)
  BY <1>3 DEF DocTypes, IsSegment, Numbers, ReserveOneDoc, segVars, queueVars, vars
<1>4. CASE \E t \in Threads : TakeBackOneDoc(t)
  BY <1>4 DEF DocTypes, IsSegment, Numbers, TakeBackOneDoc, segVars, queueVars, vars
<1>5. CASE \E t \in Threads : \E fails, flush \in BOOLEAN : Index(t, fails, flush)
  <2>1. PICK t \in Threads, fails, flush \in BOOLEAN : Index(t, fails, flush)
    BY <1>5
  <2>2. numbered' = numbered + 1 /\ Numbers \subseteq Numbers' /\ numbered + 1 \in Numbers'
    BY <2>1 DEF Index, DocTypes, Numbers
  <2>3. ram[t] \cup {numbered + 1} \subseteq Numbers'
    BY <2>2 DEF DocTypes
  <2>4. ram' \in [Threads -> SUBSET Numbers'] /\ flushing' \in [Threads -> SUBSET Numbers']
    <3>1. ram \in [Threads -> SUBSET Numbers'] /\ flushing \in [Threads -> SUBSET Numbers']
      BY <2>2 DEF DocTypes
    <3> QED BY <2>1, <2>3, <3>1 DEF Index
  <2>5. dead' \subseteq Numbers'
    BY <2>1, <2>2 DEF Index, DocTypes
  <2>6. \A s \in segmentInfos \cup packets : IsSegment(s)'
    BY <2>2 DEF DocTypes, IsSegment
  <2>7. numbered' \in Nat /\ Committed <= numbered'
    BY <2>2, DocsAssumption DEF DocTypes
  <2>8. old \subseteq Numbers' /\ \A i \in DOMAIN tickets : tickets[i].docs \subseteq Numbers'
    BY <2>2 DEF DocTypes
  <2> QED BY <2>1, <2>4, <2>5, <2>6, <2>7, <2>8 DEF Index, DocTypes, queueVars
<1>6. CASE \E t \in Threads : AbortingException(t)
  <2>1. PICK t \in Threads : AbortingException(t)
    BY <1>6
  <2>2. numbered' = numbered + 1 /\ Numbers \subseteq Numbers'
    BY <2>1 DEF AbortingException, DocTypes, Numbers
  <2>3. ram' \in [Threads -> SUBSET Numbers'] /\ flushing' \in [Threads -> SUBSET Numbers']
    <3>1. ram \in [Threads -> SUBSET Numbers'] /\ flushing \in [Threads -> SUBSET Numbers']
      BY <2>2 DEF DocTypes
    <3> QED BY <2>1, <3>1 DEF AbortingException
  <2>6. \A s \in segmentInfos \cup packets : IsSegment(s)'
    BY <2>2 DEF DocTypes, IsSegment
  <2>7. numbered' \in Nat /\ Committed <= numbered'
    BY <2>2, DocsAssumption DEF DocTypes
  <2>8. /\ old \subseteq Numbers' /\ dead \subseteq Numbers'
        /\ \A i \in DOMAIN tickets : tickets[i].docs \subseteq Numbers'
    BY <2>2 DEF DocTypes
  <2> QED BY <2>1, <2>3, <2>6, <2>7, <2>8 DEF AbortingException, DocTypes, segVars, queueVars
<1>7. CASE \E t \in Threads : AddFlushTicket(t)
  <2>1. PICK t \in Threads : AddFlushTicket(t)
    BY <1>7
  <2>2. flushing[t] # {} /\ flushing[t] \subseteq Numbers /\ Numbers \subseteq Nat
    BY <2>1 DEF AddFlushTicket, DocTypes, FlushesOwn, InFlush, Numbers
  <2>3. PICK x \in TicketType : x = [docs |-> flushing[t], phase |-> "flush"]
    BY <2>2 DEF TicketType
  <2>4. tickets' = Append(tickets, x) /\ x.docs = flushing[t]
    BY <2>1, <2>3 DEF AddFlushTicket
  <2>5. tickets' \in Seq(TicketType)
    BY <2>3, <2>4 DEF DocTypes
  <2>6. \A i \in DOMAIN tickets' : tickets'[i].docs # {} /\ tickets'[i].docs \subseteq Numbers
    <3> TAKE i \in DOMAIN tickets'
    <3>1. CASE i \in DOMAIN tickets
      <4>1. tickets'[i] = tickets[i]
        BY <2>4, <3>1 DEF DocTypes
      <4> QED BY <3>1, <4>1 DEF DocTypes
    <3>2. CASE i \notin DOMAIN tickets
      <4>1. tickets'[i] = x
        BY <2>3, <2>4, <3>2 DEF DocTypes
      <4> QED BY <2>2, <2>4, <4>1
    <3> QED BY <3>1, <3>2
  <2> QED BY <2>1, <2>5, <2>6 DEF AddFlushTicket, DocTypes, IsSegment, Numbers, segVars
<1>8. CASE \E t \in Threads : AddSegment(t)
  <2>1. PICK t \in Threads : AddSegment(t)
    BY <1>8
  <2>2. tickets' \in Seq(TicketType) /\ DOMAIN tickets' = DOMAIN tickets
        /\ \A i \in DOMAIN tickets : tickets'[i].docs = tickets[i].docs
    BY <2>1, MarkedTypes DEF AddSegment
  <2> QED BY <2>1, <2>2 DEF AddSegment, DocTypes, IsSegment, Numbers, segVars
<1>9. CASE \E t \in Threads : FlushFails(t)
  <2>1. PICK t \in Threads : FlushFails(t)
    BY <1>9
  <2>2. tickets' \in Seq(TicketType) /\ DOMAIN tickets' = DOMAIN tickets
        /\ \A i \in DOMAIN tickets : tickets'[i].docs = tickets[i].docs
    BY <2>1, MarkedTypes DEF FlushFails
  <2> QED BY <2>1, <2>2 DEF FlushFails, DocTypes, IsSegment, Numbers, segVars
<1>10. CASE \E t \in Threads : DoAfterFlush(t)
  BY <1>10 DEF DoAfterFlush, DocTypes, IsSegment, Numbers, segVars, queueVars
<1>11. CASE \E t \in Threads : TryPurge(t)
  BY <1>11 DEF DocTypes, IsSegment, Numbers, TryPurge, segVars, queueVars, vars
<1>12. CASE \E t \in Threads : StartAddIndexes(t)
  BY <1>12 DEF DocTypes, IsSegment, Numbers, StartAddIndexes, segVars, queueVars, vars
<1>13. CASE \E t \in Threads : InsertCopied(t)
  <2>1. PICK t \in Threads : InsertCopied(t)
    BY <1>13
  <2>2. CASE numbered' = numbered /\ segmentInfos' = segmentInfos
    BY <2>1, <2>2 DEF InsertCopied, DocTypes, IsSegment, Numbers, queueVars
  <2>3. CASE /\ numbered' = numbered + AddedDocs
             /\ segmentInfos' = segmentInfos \cup {Segment((numbered + 1) .. (numbered + AddedDocs), 0)}
    <3>1. AddedDocs \in Nat \ {0}
      BY DocsAssumption
    <3>2. Numbers \subseteq Numbers' /\ numbered' \in Nat /\ numbered <= numbered'
      BY <2>3, <3>1 DEF DocTypes, Numbers
    <3>3. PICK docs : docs = (numbered + 1) .. (numbered + AddedDocs)
      OBVIOUS
    <3>4. docs # {} /\ docs \subseteq Numbers' /\ docs \subseteq Nat
      <4>1. docs # {}
        <5>1. numbered + 1 \in (numbered + 1) .. (numbered + AddedDocs)
          BY <3>1 DEF DocTypes
        <5> QED BY <3>3, <5>1
      <4>2. docs \subseteq Numbers'
        BY <2>3, <3>1, <3>3 DEF DocTypes, Numbers
      <4>3. docs \subseteq Nat
        BY <3>1, <3>3 DEF DocTypes
      <4> QED BY <4>1, <4>2, <4>3
    <3>5. PICK s \in SegmentType : s = Segment(docs, 0) /\ s.docs = docs /\ s.gen = 0
      BY <3>4, SegmentTyped
    <3>6. segmentInfos' = segmentInfos \cup {s}
      BY <2>3, <3>3, <3>5
    <3>7. IsFiniteSet(segmentInfos')
      BY <3>6, FS_AddElement DEF DocTypes
    <3>8. \A x \in segmentInfos' \cup packets : IsSegment(x)'
      <4>1. \A x \in segmentInfos \cup packets : IsSegment(x)'
        BY <3>2 DEF DocTypes, IsSegment
      <4>2. IsSegment(s)'
        <5>1. s.gen \in Nat \cup {-1}
          BY <3>5
        <5>2. s.docs # {} /\ s.docs \subseteq Numbers'
          BY <3>4, <3>5
        <5> QED BY <5>1, <5>2 DEF IsSegment
      <4> QED BY <3>6, <4>1, <4>2
    <3>9. ram \in [Threads -> SUBSET Numbers'] /\ flushing \in [Threads -> SUBSET Numbers']
      BY <3>2 DEF DocTypes
    <3>10. Committed <= numbered'
      BY <3>2, DocsAssumption DEF DocTypes
    <3> QED BY <2>1, <3>2, <3>5, <3>6, <3>7, <3>8, <3>9, <3>10 DEF InsertCopied, DocTypes, queueVars
  <2> QED BY <2>1, <2>2, <2>3 DEF InsertCopied
<1>14. CASE \E t \in Threads : TakeBackDocs(t)
  BY <1>14 DEF DocTypes, IsSegment, Numbers, TakeBackDocs, segVars, queueVars, vars
<1>15. CASE \E a \in Actors : ForcePurge(a)
  BY <1>15 DEF DocTypes, IsSegment, Numbers, ForcePurge, segVars, queueVars, vars
<1>16. CASE \E a \in Actors : PublishFlushedSegment(a)
  <2>1. PICK a \in Actors : PublishFlushedSegment(a)
    BY <1>16
  <2>2. tickets # <<>>
    BY <2>1 DEF PublishFlushedSegment, CanPublish
  <2>3. /\ Tail(tickets) \in Seq(TicketType)
        /\ \A i \in DOMAIN Tail(tickets) : i + 1 \in DOMAIN tickets /\ Tail(tickets)[i] = tickets[i + 1]
        /\ 1 \in DOMAIN tickets /\ Head(tickets) = tickets[1]
    BY <2>2, TailIs DEF DocTypes
  <2>4. PICK s \in SegmentType : s = Segment(Head(tickets).docs, 0) /\ IsSegment(s)
    <3>1. Head(tickets).docs \in SUBSET Nat /\ Head(tickets).docs # {} /\ Head(tickets).docs \subseteq Numbers
      BY <2>3 DEF DocTypes, Numbers
    <3> QED BY <3>1, SegmentTyped DEF IsSegment
  <2>5. segmentInfos' = segmentInfos \/ segmentInfos' = segmentInfos \cup {s}
    BY <2>1, <2>4 DEF PublishFlushedSegment
  <2>6. IsFiniteSet(segmentInfos')
    <3>1. IsFiniteSet(segmentInfos)
      BY DEF DocTypes
    <3> QED BY <2>5, <3>1, FS_AddElement
  <2>7. tickets' = Tail(tickets)
    BY <2>1 DEF PublishFlushedSegment
  <2>8. \A i \in DOMAIN tickets' : tickets'[i].docs # {} /\ tickets'[i].docs \subseteq Numbers
    BY <2>3, <2>7 DEF DocTypes
  <2> QED BY <2>1, <2>3, <2>4, <2>5, <2>6, <2>7, <2>8 DEF PublishFlushedSegment, DocTypes, IsSegment, Numbers
<1>17. CASE \E a \in Actors : EndPurge(a)
  BY <1>17 DEF DocTypes, IsSegment, Numbers, EndPurge, segVars, queueVars, vars
<1>18. CASE \E a \in Actors : ProcessEvents(a)
  BY <1>18 DEF DocTypes, IsSegment, Numbers, ProcessEvents, segVars, queueVars, vars
<1>19. CASE StartDeleteAll
  BY <1>19 DEF StartDeleteAll, DocTypes, IsSegment, Numbers, segVars, queueVars
<1>20. CASE DropTicket
  <2>1. tickets # <<>> /\ tickets' = Tail(tickets)
    BY <1>20 DEF DropTicket, CanPublish
  <2>2. /\ Tail(tickets) \in Seq(TicketType)
        /\ \A i \in DOMAIN Tail(tickets) : i + 1 \in DOMAIN tickets /\ Tail(tickets)[i] = tickets[i + 1]
    BY <2>1, TailIs DEF DocTypes
  <2>3. \A i \in DOMAIN tickets' : tickets'[i].docs # {} /\ tickets'[i].docs \subseteq Numbers
    BY <2>1, <2>2 DEF DocTypes
  <2> QED BY <1>20, <2>1, <2>2, <2>3 DEF DropTicket, DocTypes, IsSegment, Numbers, segVars
<1>21. CASE CountThreadStates
  BY <1>21 DEF DocTypes, IsSegment, Numbers, CountThreadStates, segVars, queueVars, vars
<1>22. CASE SetAbort
  BY <1>22 DEF DocTypes, IsSegment, Numbers, SetAbort, segVars, queueVars, vars
<1>23. CASE ClearIndex
  BY <1>23, FS_EmptySet DEF ClearIndex, DocTypes, IsSegment, Numbers, queueVars
<1>24. CASE UnlockAll
  BY <1>24 DEF DocTypes, IsSegment, Numbers, UnlockAll, segVars, queueVars, vars
<1>25. CASE StartRollback
  BY <1>25 DEF DocTypes, IsSegment, Numbers, StartRollback, segVars, queueVars, vars
<1>26. CASE CloseDocWriter
  BY <1>26 DEF DocTypes, IsSegment, Numbers, CloseDocWriter, segVars, queueVars, vars
<1>27. CASE RollbackSegmentInfos
  <2>1. rollbackSegments \subseteq SegmentType /\ IsFiniteSet(rollbackSegments)
        /\ \A s \in rollbackSegments : IsSegment(s)
    <3>1. numbered \in Nat /\ Committed <= numbered /\ -1 \in Nat \cup {-1}
      BY DEF DocTypes
    <3>2. /\ CommittedSegments(-1) \subseteq SegmentType
          /\ IsFiniteSet(CommittedSegments(-1))
          /\ \A s \in CommittedSegments(-1) : s.docs # {} /\ s.docs \subseteq 1 .. numbered /\ s.gen = -1
      BY <3>1, CommittedTypes
    <3> QED BY <3>1, <3>2 DEF rollbackSegments, IsSegment, Numbers
  <2> QED BY <1>27, <2>1, FS_EmptySet DEF RollbackSegmentInfos, DocTypes, IsSegment, Numbers, queueVars
<1>28. CASE \E a \in Aborters, t \in Threads : AbortThreadState(a, t)
  BY <1>28 DEF AbortThreadState, DocTypes, IsSegment, Numbers, segVars, queueVars
<1>29. CASE \E a \in Aborters : WaitForFlush(a)
  BY <1>29 DEF DocTypes, IsSegment, Numbers, WaitForFlush, segVars, queueVars, vars
<1>30. CASE \E a \in Aborters : AbortMerges(a)
  BY <1>30 DEF DocTypes, IsSegment, Numbers, AbortMerges, segVars, queueVars, vars
<1>31. CASE \E s \in segmentInfos : StartApply(s)
  BY <1>31 DEF StartApply, DocTypes, IsSegment, Numbers, queueVars
<1>32. CASE \E s \in segmentInfos : WriteReaderPool(s)
  <2>1. PICK s \in segmentInfos : WriteReaderPool(s)
    BY <1>32
  <2>2. \/ segmentInfos' = segmentInfos /\ pool' = pool
        \/ segmentInfos' = segmentInfos \ {s} /\ pool' = pool \ {s}
    BY <2>1 DEF WriteReaderPool, dropDeletedSegment
  <2>3. IsFiniteSet(segmentInfos) /\ segmentInfos' \in SUBSET segmentInfos
    BY <2>2 DEF DocTypes
  <2>4. IsFiniteSet(segmentInfos')
    BY <2>3, FS_Subset
  <2> QED BY <2>1, <2>2, <2>4 DEF WriteReaderPool, DocTypes, IsSegment, Numbers, queueVars
<1>33. CASE \E s \in packets : FinishApply(s)
  <2>1. PICK s \in packets : FinishApply(s)
    BY <1>33
  <2>2. \/ segmentInfos' = segmentInfos /\ pool' = pool
        \/ segmentInfos' = segmentInfos \ {s} /\ pool' = pool \ {s}
    BY <2>1 DEF FinishApply, dropDeletedSegment
  <2>3. IsFiniteSet(segmentInfos) /\ segmentInfos' \in SUBSET segmentInfos
    BY <2>2 DEF DocTypes
  <2>4. IsFiniteSet(segmentInfos')
    BY <2>3, FS_Subset
  <2> QED BY <2>1, <2>2, <2>4 DEF FinishApply, DocTypes, IsSegment, Numbers, queueVars
<1>34. CASE \E S \in SUBSET segmentInfos : StartMerge(S)
  BY <1>34 DEF StartMerge, DocTypes, IsSegment, Numbers, queueVars
<1>35. CASE \E m \in merges : CommitMerge(m)
  <2>1. PICK m \in merges : CommitMerge(m)
    BY <1>35
  <2>2. CASE m.aborted \/ tragedy
    BY <2>1, <2>2 DEF CommitMerge, DocTypes, IsSegment, Numbers, queueVars
  <2>3. CASE ~(m.aborted \/ tragedy)
    <3>1. /\ segmentInfos' = (segmentInfos \ m.segments) \cup (IF DropsMerged(m) THEN {} ELSE {m.info})
          /\ pool' = pool \ m.segments
      BY <2>1, <2>3 DEF CommitMerge
    <3>2. m.info \in SegmentType /\ m.info.docs \subseteq Numbers
      BY DEF MergesOwn, MergeType, DocTypes, IsSegment
    <3>3. ~DropsMerged(m) => m.info.docs # {} /\ IsSegment(m.info)
      BY <3>2 DEF DropsMerged, FullyDeleted, IsSegment, SegmentType
    <3>4. IsFiniteSet(segmentInfos \ m.segments)
      BY FS_Difference DEF DocTypes
    <3>5. IsFiniteSet(segmentInfos')
      BY <3>1, <3>4, FS_AddElement
    <3>6. segmentInfos' \subseteq SegmentType /\ \A s \in segmentInfos' : IsSegment(s)
      BY <3>1, <3>2, <3>3 DEF DocTypes
    <3>7. pool' \subseteq segmentInfos'
      BY <3>1 DEF DocTypes
    <3> QED BY <2>1, <3>5, <3>6, <3>7 DEF CommitMerge, DocTypes, IsSegment, Numbers, queueVars
  <2> QED BY <2>2, <2>3
<1>36. CASE \E m \in merges : MergeFails(m)
  BY <1>36 DEF DocTypes, IsSegment, Numbers, MergeFails, segVars, queueVars, vars
<1>37. CASE UNCHANGED vars
  BY <1>37 DEF DocTypes, IsSegment, Numbers, vars, segVars, queueVars
<1> QED BY NextSteps, <1>1, <1>2, <1>3, <1>4, <1>5, <1>6, <1>7, <1>8, <1>9, <1>10, <1>11, <1>12, <1>13,
           <1>14, <1>15, <1>16, <1>17, <1>18, <1>19, <1>20, <1>21, <1>22, <1>23, <1>24, <1>25, <1>26, <1>27,
           <1>28, <1>29, <1>30, <1>31, <1>32, <1>33, <1>34, <1>35, <1>36, <1>37

LEMMA MergesKept ==
  ASSUME MergesOwn, merges' \subseteq merges, \A m \in merges' : m.segments \subseteq segmentInfos'
  PROVE  MergesOwn'
BY DEF MergesOwn

LEMMA MergedGen ==
  ASSUME NEW S \in SUBSET SegmentType, Cardinality(S) = 2, IsFiniteSet(S)
  PROVE  1 + Max({s.gen : s \in S}) \in Nat
<1>1. PICK s1 \in S : TRUE
  BY FS_EmptySet
<1>2. IsFiniteSet(S \ {s1}) /\ Cardinality(S \ {s1}) = 1
  BY FS_RemoveElement
<1>3. PICK s2 : S \ {s1} = {s2}
  BY <1>2, FS_Singleton
<1>4. PICK g1 \in Nat \cup {-1} : g1 = s1.gen
  BY <1>1 DEF SegmentType
<1>5. PICK g2 \in Nat \cup {-1} : g2 = s2.gen
  BY <1>3 DEF SegmentType
<1>6. {s.gen : s \in S} = {g1, g2}
  BY <1>1, <1>3, <1>4, <1>5
<1>7. \E x \in {g1, g2} : \A y \in {g1, g2} : x >= y
  <2>1. CASE g1 >= g2
    BY <2>1
  <2>2. CASE g2 >= g1
    BY <2>2
  <2> QED BY <2>1, <2>2
<1>8. Max({g1, g2}) \in {g1, g2}
  BY <1>7 DEF Max
<1>9. Max({s.gen : s \in S}) = Max({g1, g2})
  BY <1>6
<1>10. 1 + Max({g1, g2}) \in Nat
  BY <1>8
<1> QED BY <1>9, <1>10

LEMMA MergesOwnStep ==
  ASSUME DocTypes, MergesOwn, ShutDown, Next
  PROVE  MergesOwn'
<1>1. CASE \E t \in Threads : StartUpdate(t)
  BY <1>1 DEF MergesOwn, StartUpdate, segVars, vars
<1>2. CASE \E t \in Threads : ObtainAndLock(t)
  BY <1>2 DEF MergesOwn, ObtainAndLock, segVars, vars
<1>3. CASE \E t \in Threads : ReserveOneDoc(t)
  BY <1>3 DEF MergesOwn, ReserveOneDoc, segVars, vars
<1>4. CASE \E t \in Threads : TakeBackOneDoc(t)
  BY <1>4 DEF MergesOwn, TakeBackOneDoc, segVars, vars
<1>5. CASE \E t \in Threads : \E fails, flush \in BOOLEAN : Index(t, fails, flush)
  BY <1>5 DEF MergesOwn, Index, segVars, vars
<1>6. CASE \E t \in Threads : AbortingException(t)
  BY <1>6 DEF MergesOwn, AbortingException, segVars, vars
<1>7. CASE \E t \in Threads : AddFlushTicket(t)
  BY <1>7 DEF MergesOwn, AddFlushTicket, segVars, vars
<1>8. CASE \E t \in Threads : AddSegment(t)
  BY <1>8 DEF MergesOwn, AddSegment, segVars, vars
<1>9. CASE \E t \in Threads : FlushFails(t)
  BY <1>9 DEF MergesOwn, FlushFails, segVars, vars
<1>10. CASE \E t \in Threads : DoAfterFlush(t)
  BY <1>10 DEF MergesOwn, DoAfterFlush, segVars, vars
<1>11. CASE \E t \in Threads : TryPurge(t)
  BY <1>11 DEF MergesOwn, TryPurge, segVars, vars
<1>12. CASE \E t \in Threads : StartAddIndexes(t)
  BY <1>12 DEF MergesOwn, StartAddIndexes, segVars, vars
<1>13. CASE \E t \in Threads : InsertCopied(t)
  <2>1. merges' = merges /\ segmentInfos \subseteq segmentInfos'
    BY <1>13 DEF InsertCopied
  <2>2. \A m \in merges' : m.segments \subseteq segmentInfos'
    BY <2>1 DEF MergesOwn
  <2> QED BY <2>1, <2>2, MergesKept
<1>14. CASE \E t \in Threads : TakeBackDocs(t)
  BY <1>14 DEF MergesOwn, TakeBackDocs, segVars, vars
<1>15. CASE \E a \in Actors : ForcePurge(a)
  BY <1>15 DEF MergesOwn, ForcePurge, segVars, vars
<1>16. CASE \E a \in Actors : PublishFlushedSegment(a)
  <2>1. merges' = merges /\ segmentInfos \subseteq segmentInfos'
    BY <1>16 DEF PublishFlushedSegment
  <2>2. \A m \in merges' : m.segments \subseteq segmentInfos'
    BY <2>1 DEF MergesOwn
  <2> QED BY <2>1, <2>2, MergesKept
<1>17. CASE \E a \in Actors : EndPurge(a)
  BY <1>17 DEF MergesOwn, EndPurge, segVars, vars
<1>18. CASE \E a \in Actors : ProcessEvents(a)
  BY <1>18 DEF MergesOwn, ProcessEvents, segVars, vars
<1>19. CASE StartDeleteAll
  BY <1>19 DEF MergesOwn, StartDeleteAll, segVars, vars
<1>20. CASE DropTicket
  BY <1>20 DEF MergesOwn, DropTicket, segVars, vars
<1>21. CASE CountThreadStates
  BY <1>21 DEF MergesOwn, CountThreadStates, segVars, vars
<1>22. CASE SetAbort
  BY <1>22 DEF MergesOwn, SetAbort, segVars, vars
<1>23. CASE ClearIndex
  BY <1>23 DEF ClearIndex, MergesOwn
<1>24. CASE UnlockAll
  BY <1>24 DEF MergesOwn, UnlockAll, segVars, vars
<1>25. CASE StartRollback
  BY <1>25 DEF MergesOwn, StartRollback, segVars, vars
<1>26. CASE CloseDocWriter
  BY <1>26 DEF MergesOwn, CloseDocWriter, segVars, vars
<1>27. CASE RollbackSegmentInfos
  BY <1>27 DEF RollbackSegmentInfos, MergesOwn, ShutDown, WritersShut, Shut
<1>28. CASE \E a \in Aborters, t \in Threads : AbortThreadState(a, t)
  BY <1>28 DEF MergesOwn, AbortThreadState, segVars, vars
<1>29. CASE \E a \in Aborters : WaitForFlush(a)
  BY <1>29 DEF MergesOwn, WaitForFlush, segVars, vars
<1>30. CASE \E a \in Aborters : AbortMerges(a)
  <2>1. segmentInfos' = segmentInfos /\ merges' = {[m EXCEPT !.aborted = TRUE] : m \in merges}
    BY <1>30 DEF AbortMerges, segVars
  <2>2. \A n \in merges' : \E m \in merges : n = [m EXCEPT !.aborted = TRUE]
    BY <2>1
  <2>3. \A m \in merges : /\ [m EXCEPT !.aborted = TRUE] \in MergeType
                          /\ [m EXCEPT !.aborted = TRUE].segments = m.segments
                          /\ [m EXCEPT !.aborted = TRUE].info = m.info
    BY DEF MergesOwn, MergeType
  <2>4. \A n \in merges' : n \in MergeType /\ \E m \in merges : n.segments = m.segments /\ n.info = m.info
                                                      /\ n = [m EXCEPT !.aborted = TRUE]
    BY <2>2, <2>3
  <2>5. \A n \in merges' : /\ n.segments \subseteq segmentInfos' /\ Cardinality(n.segments) = 2
                           /\ n.info.docs \subseteq UNION {s.docs : s \in n.segments}
    <3> TAKE n \in merges'
    <3>1. PICK m \in merges : n.segments = m.segments /\ n.info = m.info
      BY <2>4
    <3>2. /\ m.segments \subseteq segmentInfos /\ Cardinality(m.segments) = 2
          /\ m.info.docs \subseteq UNION {s.docs : s \in m.segments}
      BY DEF MergesOwn
    <3> QED BY <2>1, <3>1, <3>2
  <2>6. \A m1, m2 \in merges' : m1 = m2 \/ m1.segments \cap m2.segments = {}
    BY <2>4 DEF MergesOwn
  <2> QED BY <2>4, <2>5, <2>6 DEF MergesOwn
<1>31. CASE \E s \in segmentInfos : StartApply(s)
  BY <1>31 DEF MergesOwn, StartApply, segVars, vars
<1>32. CASE \E s \in segmentInfos : WriteReaderPool(s)
  <2>1. PICK s \in segmentInfos : WriteReaderPool(s)
    BY <1>32
  <2>2. merges' = merges /\ (segmentInfos' = segmentInfos \/ (s \notin Merging /\ segmentInfos' = segmentInfos \ {s}))
    BY <2>1 DEF WriteReaderPool, dropDeletedSegment
  <2>3. \A m \in merges' : m.segments \subseteq segmentInfos'
    BY <2>2 DEF MergesOwn, Merging
  <2> QED BY <2>2, <2>3, MergesKept
<1>33. CASE \E s \in packets : FinishApply(s)
  <2>1. PICK s \in packets : FinishApply(s)
    BY <1>33
  <2>2. merges' = merges /\ (segmentInfos' = segmentInfos \/ (s \notin Merging /\ segmentInfos' = segmentInfos \ {s}))
    BY <2>1 DEF FinishApply, dropDeletedSegment
  <2>3. \A m \in merges' : m.segments \subseteq segmentInfos'
    BY <2>2 DEF MergesOwn, Merging
  <2> QED BY <2>2, <2>3, MergesKept
<1>34. CASE \E S \in SUBSET segmentInfos : StartMerge(S)
  <2>1. PICK S \in SUBSET segmentInfos : StartMerge(S)
    BY <1>34
  <2>2. PICK info : info = Segment(UNION {s.docs : s \in S} \ dead, 1 + Max({s.gen : s \in S}))
    OBVIOUS
  <2>3. PICK m : m = [segments |-> S, aborted |-> FALSE, info |-> info]
    OBVIOUS
  <2>4. merges' = merges \cup {m} /\ segmentInfos' = segmentInfos /\ S \cap Merging = {}
        /\ Cardinality(S) = 2
    BY <2>1, <2>2, <2>3 DEF StartMerge
  <2>5. info \in SegmentType /\ info.docs \subseteq UNION {s.docs : s \in S}
    <3>1. UNION {s.docs : s \in S} \ dead \in SUBSET Nat
      BY DEF DocTypes, SegmentType
    <3>2. S \in SUBSET SegmentType /\ IsFiniteSet(segmentInfos)
      BY DEF DocTypes
    <3>3. IsFiniteSet(S)
      BY <3>2, FS_Subset
    <3>4. PICK gen \in Nat : gen = 1 + Max({s.gen : s \in S})
      BY <2>4, <3>2, <3>3, MergedGen
    <3>5. PICK docs \in SUBSET Nat : docs = UNION {s.docs : s \in S} \ dead
      BY <3>1
    <3>6. info = Segment(docs, gen)
      BY <2>2, <3>4, <3>5
    <3>7. info \in SegmentType /\ info.docs = docs
      BY <3>6, SegmentTyped
    <3> QED BY <3>5, <3>7
  <2>6. m.segments = S /\ m.info = info /\ m \in MergeType
    BY <2>3, <2>5, <2>1 DEF MergeType, DocTypes
  <2>7. \A n \in merges : n.segments \cap S = {}
    BY <2>4 DEF Merging
  <2>8. \A n \in merges' : /\ n \in MergeType /\ n.segments \subseteq segmentInfos'
                           /\ Cardinality(n.segments) = 2
                           /\ n.info.docs \subseteq UNION {s.docs : s \in n.segments}
    BY <2>4, <2>5, <2>6 DEF MergesOwn
  <2>9. \A m1, m2 \in merges' : m1 = m2 \/ m1.segments \cap m2.segments = {}
    BY <2>4, <2>6, <2>7 DEF MergesOwn
  <2> QED BY <2>8, <2>9 DEF MergesOwn
<1>35. CASE \E m \in merges : CommitMerge(m)
  <2>1. PICK m \in merges : CommitMerge(m)
    BY <1>35
  <2>2. /\ merges' = merges \ {m}
        /\ (segmentInfos' = segmentInfos \/ segmentInfos \ m.segments \subseteq segmentInfos')
    BY <2>1 DEF CommitMerge
  <2>3. \A n \in merges' : n.segments \subseteq segmentInfos'
    BY <2>2 DEF MergesOwn
  <2> QED BY <2>2, <2>3, MergesKept
<1>36. CASE \E m \in merges : MergeFails(m)
  <2>1. segmentInfos' = segmentInfos /\ merges' \subseteq merges
    BY <1>36 DEF MergeFails, segVars
  <2>2. \A m \in merges' : m.segments \subseteq segmentInfos'
    BY <2>1 DEF MergesOwn
  <2> QED BY <2>1, <2>2, MergesKept
<1>37. CASE UNCHANGED vars
  BY <1>37 DEF MergesOwn, vars, segVars
<1> QED BY NextSteps, <1>1, <1>2, <1>3, <1>4, <1>5, <1>6, <1>7, <1>8, <1>9, <1>10, <1>11, <1>12, <1>13,
           <1>14, <1>15, <1>16, <1>17, <1>18, <1>19, <1>20, <1>21, <1>22, <1>23, <1>24, <1>25, <1>26, <1>27,
           <1>28, <1>29, <1>30, <1>31, <1>32, <1>33, <1>34, <1>35, <1>36, <1>37

LEMMA ApartKept ==
  ASSUME Apart, segmentInfos' \subseteq segmentInfos,
         \A t \in Threads : Waiting(t)' \subseteq Waiting(t),
         DOMAIN tickets \subseteq Int,
         \/ /\ DOMAIN tickets' = DOMAIN tickets
            /\ \A i \in DOMAIN tickets : tickets'[i].docs = tickets[i].docs
         \/ \A i \in DOMAIN tickets' : i \in Int /\ i + 1 \in DOMAIN tickets /\ tickets'[i] = tickets[i + 1]
  PROVE  Apart'
<1>1. SegmentsApart'
  BY DEF Apart, SegmentsApart
<1>2. \A i \in DOMAIN tickets' : \E j \in DOMAIN tickets : tickets'[i].docs = tickets[j].docs
  OBVIOUS
<1>3. \A i, k \in DOMAIN tickets' : i = k \/ tickets'[i].docs \cap tickets'[k].docs = {}
  <2>1. CASE \A i \in DOMAIN tickets' : i \in Int /\ i + 1 \in DOMAIN tickets /\ tickets'[i] = tickets[i + 1]
    <3> TAKE i, k \in DOMAIN tickets'
    <3>1. i + 1 = k + 1 => i = k
      BY <2>1
    <3> QED BY <2>1, <3>1 DEF Apart, TicketsApart
  <2>2. CASE /\ DOMAIN tickets' = DOMAIN tickets
             /\ \A i \in DOMAIN tickets : tickets'[i].docs = tickets[i].docs
    BY <2>2 DEF Apart, TicketsApart
  <2> QED BY <2>1, <2>2
<1>4. TicketsApart'
  <2>1. \A s \in segmentInfos', i \in DOMAIN tickets' : s.docs \cap tickets'[i].docs = {}
    BY <1>2 DEF Apart, TicketsApart
  <2> QED BY <1>3, <2>1 DEF TicketsApart
<1>5. WritersApart'
  <2>1. \A t \in Threads, s \in segmentInfos' : s.docs \cap Waiting(t)' = {}
    BY DEF Apart, WritersApart
  <2>2. \A t \in Threads, i \in DOMAIN tickets' : tickets'[i].docs \cap Waiting(t)' = {}
    <3> TAKE t \in Threads, i \in DOMAIN tickets'
    <3>1. PICK j \in DOMAIN tickets : tickets'[i].docs = tickets[j].docs
      BY <1>2
    <3>2. tickets[j].docs \cap Waiting(t) = {}
      BY DEF Apart, WritersApart
    <3> QED BY <3>1, <3>2
  <2>3. \A t, u \in Threads : t = u \/ Waiting(t)' \cap Waiting(u)' = {}
    BY DEF Apart, WritersApart
  <2> HIDE DEF Waiting
  <2> QED BY <2>1, <2>2, <2>3 DEF WritersApart
<1> QED BY <1>1, <1>4, <1>5 DEF Apart

\* A step that leaves the documents where they are, or takes some away.
LEMMA WaitingKept ==
  ASSUME DocTypes, AtTypes, FlushesOwn, Next
  PROVE  \/ \A t \in Threads : Waiting(t)' \subseteq Waiting(t)
         \/ \E t \in Threads : \E fails, flush \in BOOLEAN : Index(t, fails, flush)
<1>1. CASE \E t \in Threads : StartUpdate(t)
  BY <1>1, Distinct DEF Waiting, DocTypes, AtTypes, StartUpdate, Goto, Aborters
<1>2. CASE \E t \in Threads : ObtainAndLock(t)
  BY <1>2, Distinct DEF Waiting, DocTypes, AtTypes, ObtainAndLock, Goto, Aborters
<1>3. CASE \E t \in Threads : ReserveOneDoc(t)
  BY <1>3, Distinct DEF Waiting, DocTypes, AtTypes, ReserveOneDoc, Goto, Aborters
<1>4. CASE \E t \in Threads : TakeBackOneDoc(t)
  BY <1>4, Distinct DEF Waiting, DocTypes, AtTypes, TakeBackOneDoc, Goto, Aborters
<1>5. CASE \E t \in Threads : \E fails, flush \in BOOLEAN : Index(t, fails, flush)
  BY <1>5
<1>6. CASE \E t \in Threads : AbortingException(t)
  BY <1>6, Distinct DEF Waiting, DocTypes, AtTypes, AbortingException, Goto, Aborters
<1>7. CASE \E t \in Threads : AddFlushTicket(t)
  BY <1>7, Distinct DEF Waiting, DocTypes, AtTypes, AddFlushTicket, Goto, Aborters
<1>8. CASE \E t \in Threads : AddSegment(t)
  BY <1>8, Distinct DEF Waiting, DocTypes, AtTypes, AddSegment, Goto, Aborters
<1>9. CASE \E t \in Threads : FlushFails(t)
  BY <1>9, Distinct DEF Waiting, DocTypes, AtTypes, FlushFails, Goto, Aborters
<1>10. CASE \E t \in Threads : DoAfterFlush(t)
  BY <1>10, Distinct DEF Waiting, DocTypes, AtTypes, DoAfterFlush, Goto, Aborters
<1>11. CASE \E t \in Threads : TryPurge(t)
  BY <1>11, Distinct DEF Waiting, DocTypes, AtTypes, TryPurge, Goto, Aborters
<1>12. CASE \E t \in Threads : StartAddIndexes(t)
  BY <1>12, Distinct DEF Waiting, DocTypes, AtTypes, StartAddIndexes, Goto, Aborters
<1>13. CASE \E t \in Threads : InsertCopied(t)
  BY <1>13, Distinct DEF Waiting, DocTypes, AtTypes, InsertCopied, Goto, Aborters
<1>14. CASE \E t \in Threads : TakeBackDocs(t)
  BY <1>14, Distinct DEF Waiting, DocTypes, AtTypes, TakeBackDocs, Goto, Aborters
<1>15. CASE \E a \in Actors : ForcePurge(a)
  BY <1>15, Distinct DEF Waiting, DocTypes, AtTypes, ForcePurge, Goto, Aborters
<1>16. CASE \E a \in Actors : PublishFlushedSegment(a)
  BY <1>16, Distinct DEF Waiting, DocTypes, AtTypes, PublishFlushedSegment, Aborters
<1>17. CASE \E a \in Actors : EndPurge(a)
  BY <1>17, Distinct DEF Waiting, DocTypes, AtTypes, EndPurge, Goto, Aborters
<1>18. CASE \E a \in Actors : ProcessEvents(a)
  BY <1>18, Distinct DEF Waiting, DocTypes, AtTypes, ProcessEvents, Goto, Aborters
<1>19. CASE StartDeleteAll
  BY <1>19, Distinct DEF Waiting, DocTypes, AtTypes, StartDeleteAll, Goto, Aborters
<1>20. CASE DropTicket
  BY <1>20, Distinct DEF Waiting, DocTypes, AtTypes, DropTicket, Aborters
<1>21. CASE CountThreadStates
  BY <1>21, Distinct DEF Waiting, DocTypes, AtTypes, CountThreadStates, Goto, Aborters
<1>22. CASE SetAbort
  BY <1>22, Distinct DEF Waiting, DocTypes, AtTypes, SetAbort, Goto, Aborters
<1>23. CASE ClearIndex
  BY <1>23, Distinct DEF Waiting, DocTypes, AtTypes, ClearIndex, Goto, Aborters
<1>24. CASE UnlockAll
  BY <1>24, Distinct DEF Waiting, DocTypes, AtTypes, UnlockAll, Goto, Aborters
<1>25. CASE StartRollback
  BY <1>25, Distinct DEF Waiting, DocTypes, AtTypes, StartRollback, Goto, Aborters
<1>26. CASE CloseDocWriter
  BY <1>26, Distinct DEF Waiting, DocTypes, AtTypes, CloseDocWriter, Goto, Aborters
<1>27. CASE RollbackSegmentInfos
  BY <1>27, Distinct DEF Waiting, DocTypes, AtTypes, RollbackSegmentInfos, Goto, Aborters
<1>28. CASE \E a \in Aborters, t \in Threads : AbortThreadState(a, t)
  BY <1>28, Distinct DEF Waiting, DocTypes, AtTypes, AbortThreadState, Aborters
<1>29. CASE \E a \in Aborters : WaitForFlush(a)
  BY <1>29, Distinct DEF Waiting, DocTypes, AtTypes, WaitForFlush, Goto, Aborters
<1>30. CASE \E a \in Aborters : AbortMerges(a)
  BY <1>30, Distinct DEF Waiting, DocTypes, AtTypes, AbortMerges, Goto, Aborters
<1>31. CASE \E s \in segmentInfos : StartApply(s)
  BY <1>31, Distinct DEF Waiting, DocTypes, AtTypes, StartApply, Aborters
<1>32. CASE \E s \in segmentInfos : WriteReaderPool(s)
  BY <1>32, Distinct DEF Waiting, DocTypes, AtTypes, WriteReaderPool, dropDeletedSegment, Aborters
<1>33. CASE \E s \in packets : FinishApply(s)
  BY <1>33, Distinct DEF Waiting, DocTypes, AtTypes, FinishApply, dropDeletedSegment, Aborters
<1>34. CASE \E S \in SUBSET segmentInfos : StartMerge(S)
  BY <1>34, Distinct DEF Waiting, DocTypes, AtTypes, StartMerge, Aborters
<1>35. CASE \E m \in merges : CommitMerge(m)
  BY <1>35, Distinct DEF Waiting, DocTypes, AtTypes, CommitMerge, Aborters
<1>36. CASE \E m \in merges : MergeFails(m)
  BY <1>36, Distinct DEF Waiting, DocTypes, AtTypes, MergeFails, Aborters
<1>37. CASE UNCHANGED vars
  BY <1>37, Distinct DEF Waiting, DocTypes, AtTypes, vars
<1> QED BY NextSteps, <1>1, <1>2, <1>3, <1>4, <1>5, <1>6, <1>7, <1>8, <1>9, <1>10, <1>11, <1>12, <1>13,
           <1>14, <1>15, <1>16, <1>17, <1>18, <1>19, <1>20, <1>21, <1>22, <1>23, <1>24, <1>25, <1>26, <1>27,
           <1>28, <1>29, <1>30, <1>31, <1>32, <1>33, <1>34, <1>35, <1>36, <1>37

LEMMA IndexApart ==
  ASSUME DocTypes, AtTypes, Apart, \E t \in Threads : \E fails, flush \in BOOLEAN : Index(t, fails, flush)
  PROVE  Apart'
<1>1. PICK t \in Threads, fails, flush \in BOOLEAN : Index(t, fails, flush)
  OBVIOUS
<1>2. PICK d \in Nat : d = numbered + 1 /\ d \notin Numbers
  BY DEF DocTypes, Numbers
<1>3. /\ Waiting(t)' \subseteq Waiting(t) \cup {d}
      /\ \A u \in Threads \ {t} : Waiting(u)' = Waiting(u)
  BY <1>1, <1>2, Distinct DEF Index, Waiting, DocTypes, AtTypes, Goto
<1>4. segmentInfos' = segmentInfos /\ tickets' = tickets
  BY <1>1 DEF Index, queueVars
<1>5. /\ \A s \in segmentInfos : d \notin s.docs
      /\ \A i \in DOMAIN tickets : d \notin tickets[i].docs
      /\ \A u \in Threads : d \notin Waiting(u)
  BY <1>2 DEF DocTypes, IsSegment, Waiting
<1>6. \A u, w \in Threads : u = w \/ Waiting(u)' \cap Waiting(w)' = {}
  BY <1>3, <1>5 DEF Apart, WritersApart
<1>7. \A u \in Threads, s \in segmentInfos : s.docs \cap Waiting(u)' = {}
  BY <1>3, <1>5 DEF Apart, WritersApart
<1>8. \A u \in Threads, i \in DOMAIN tickets : tickets[i].docs \cap Waiting(u)' = {}
  BY <1>3, <1>5 DEF Apart, WritersApart
<1> HIDE DEF Waiting
<1> QED BY <1>4, <1>6, <1>7, <1>8 DEF Apart, SegmentsApart, TicketsApart, WritersApart

LEMMA KeptApart ==
  ASSUME DocTypes, AtTypes, MergesOwn, FlushesOwn, ShutDown, Apart, Next,
         \A t \in Threads : Waiting(t)' \subseteq Waiting(t),
         ~(\E t \in Threads : \E fails, flush \in BOOLEAN : Index(t, fails, flush))
  PROVE  Apart'
<1>a. DOMAIN tickets \subseteq Int
  BY DEF DocTypes
<1> HIDE DEF Waiting
<1>1. CASE \E t \in Threads : StartUpdate(t)
  <2>1. segmentInfos' \subseteq segmentInfos /\ tickets' = tickets
    BY <1>1 DEF StartUpdate, segVars, queueVars, vars
  <2> QED BY <1>a, <2>1, ApartKept
<1>2. CASE \E t \in Threads : ObtainAndLock(t)
  <2>1. segmentInfos' \subseteq segmentInfos /\ tickets' = tickets
    BY <1>2 DEF ObtainAndLock, segVars, queueVars, vars
  <2> QED BY <1>a, <2>1, ApartKept
<1>3. CASE \E t \in Threads : ReserveOneDoc(t)
  <2>1. segmentInfos' \subseteq segmentInfos /\ tickets' = tickets
    BY <1>3 DEF ReserveOneDoc, segVars, queueVars, vars
  <2> QED BY <1>a, <2>1, ApartKept
<1>4. CASE \E t \in Threads : TakeBackOneDoc(t)
  <2>1. segmentInfos' \subseteq segmentInfos /\ tickets' = tickets
    BY <1>4 DEF TakeBackOneDoc, segVars, queueVars, vars
  <2> QED BY <1>a, <2>1, ApartKept
<1>6. CASE \E t \in Threads : AbortingException(t)
  <2>1. segmentInfos' \subseteq segmentInfos /\ tickets' = tickets
    BY <1>6 DEF AbortingException, segVars, queueVars, vars
  <2> QED BY <1>a, <2>1, ApartKept
<1>7. CASE \E t \in Threads : AddFlushTicket(t)
  <2>1. PICK t \in Threads : AddFlushTicket(t)
    BY <1>7
  <2>2. PICK x \in TicketType : /\ x = [docs |-> flushing[t], phase |-> "flush"]
                                /\ x.docs = flushing[t]
    <3>1. flushing[t] \in SUBSET Nat
      BY DEF DocTypes, Numbers
    <3>2. PICK docs \in SUBSET Nat : docs = flushing[t]
      BY <3>1
    <3>3. [docs |-> docs, phase |-> "flush"] \in TicketType
      BY DEF TicketType
    <3> QED BY <3>2, <3>3
  <2>3. tickets' = Append(tickets, x) /\ segmentInfos' = segmentInfos
    BY <2>1, <2>2 DEF AddFlushTicket, segVars
  <2>4. /\ \A i \in DOMAIN tickets' : i \in DOMAIN tickets \/ i = Len(tickets) + 1
        /\ \A i \in DOMAIN tickets : tickets'[i] = tickets[i]
        /\ tickets'[Len(tickets) + 1] = x
    BY <2>3 DEF DocTypes
  <2>5. x.docs \subseteq Waiting(t) /\ Waiting(t)' = {}
    <3>1. at[t] = "pending" /\ at'[t] = "flush" /\ ram' = ram
      BY <2>1, Distinct DEF AddFlushTicket, Goto, AtTypes
    <3>2. ram[t] = {}
      BY <3>1 DEF FlushesOwn, InFlush
    <3> QED BY <2>2, <3>1, <3>2 DEF Waiting
  <2>6. \A i, j \in DOMAIN tickets' : i = j \/ tickets'[i].docs \cap tickets'[j].docs = {}
    BY <2>4, <2>5 DEF Apart, TicketsApart, WritersApart
  <2>7. \A s \in segmentInfos, i \in DOMAIN tickets' : s.docs \cap tickets'[i].docs = {}
    BY <2>4, <2>5 DEF Apart, TicketsApart, WritersApart
  <2>8. \A u \in Threads : Waiting(u)' \subseteq Waiting(u)
    BY <2>1
  <2>9. \A u \in Threads, i \in DOMAIN tickets' : tickets'[i].docs \cap Waiting(u)' = {}
    <3> TAKE u \in Threads, i \in DOMAIN tickets'
    <3>1. CASE i \in DOMAIN tickets
      BY <2>4, <2>8, <3>1 DEF Apart, WritersApart
    <3>2. CASE i \notin DOMAIN tickets
      <4>1. tickets'[i].docs \subseteq Waiting(t)
        BY <2>4, <2>5, <3>2
      <4>2. u = t \/ Waiting(t) \cap Waiting(u) = {}
        BY DEF Apart, WritersApart
      <4> QED BY <2>5, <2>8, <4>1, <4>2
    <3> QED BY <3>1, <3>2
  <2>10. \A u, w \in Threads : u = w \/ Waiting(u)' \cap Waiting(w)' = {}
    BY <2>8 DEF Apart, WritersApart
  <2>11. \A u \in Threads, s \in segmentInfos : s.docs \cap Waiting(u)' = {}
    BY <2>8 DEF Apart, WritersApart
  <2> HIDE DEF Waiting
  <2> QED BY <2>3, <2>6, <2>7, <2>9, <2>10, <2>11 DEF Apart, SegmentsApart, TicketsApart, WritersApart
<1>8. CASE \E t \in Threads : AddSegment(t)
  <2>1. PICK t \in Threads : AddSegment(t)
    BY <1>8
  <2>2. DOMAIN tickets' = DOMAIN tickets /\ \A i \in DOMAIN tickets : tickets'[i].docs = tickets[i].docs
    BY <2>1, MarkedTypes DEF AddSegment
  <2>3. segmentInfos' = segmentInfos
    BY <2>1 DEF AddSegment, segVars
  <2> QED BY <1>a, <2>1, <2>2, <2>3, ApartKept
<1>9. CASE \E t \in Threads : FlushFails(t)
  <2>1. PICK t \in Threads : FlushFails(t)
    BY <1>9
  <2>2. DOMAIN tickets' = DOMAIN tickets /\ \A i \in DOMAIN tickets : tickets'[i].docs = tickets[i].docs
    BY <2>1, MarkedTypes DEF FlushFails
  <2>3. segmentInfos' = segmentInfos
    BY <2>1 DEF FlushFails, segVars
  <2> QED BY <1>a, <2>1, <2>2, <2>3, ApartKept
<1>10. CASE \E t \in Threads : DoAfterFlush(t)
  <2>1. segmentInfos' \subseteq segmentInfos /\ tickets' = tickets
    BY <1>10 DEF DoAfterFlush, segVars, queueVars, vars
  <2> QED BY <1>a, <2>1, ApartKept
<1>11. CASE \E t \in Threads : TryPurge(t)
  <2>1. segmentInfos' \subseteq segmentInfos /\ tickets' = tickets
    BY <1>11 DEF TryPurge, segVars, queueVars, vars
  <2> QED BY <1>a, <2>1, ApartKept
<1>12. CASE \E t \in Threads : StartAddIndexes(t)
  <2>1. segmentInfos' \subseteq segmentInfos /\ tickets' = tickets
    BY <1>12 DEF StartAddIndexes, segVars, queueVars, vars
  <2> QED BY <1>a, <2>1, ApartKept
<1>13. CASE \E t \in Threads : InsertCopied(t)
  <2>1. PICK t \in Threads : InsertCopied(t)
    BY <1>13
  <2>0. tickets' = tickets
    BY <2>1 DEF InsertCopied, queueVars
  <2>2. CASE segmentInfos' = segmentInfos
    BY <1>a, <2>0, <2>1, <2>2, ApartKept
  <2>3. CASE segmentInfos' = segmentInfos \cup {Segment((numbered + 1) .. (numbered + AddedDocs), 0)}
    <3>1. PICK docs : docs = (numbered + 1) .. (numbered + AddedDocs)
      OBVIOUS
    <3>2. docs \cap Numbers = {}
      BY <3>1, DocsAssumption DEF Numbers, DocTypes
    <3>3. PICK s : s = Segment(docs, 0) /\ s.docs = docs
      BY SegmentDocs
    <3>4. \A r \in segmentInfos' : r \in segmentInfos \/ r = s
      BY <2>3, <3>1, <3>3
    <3>5. SegmentsApart'
      BY <3>2, <3>3, <3>4 DEF Apart, SegmentsApart, DocTypes, IsSegment
    <3>6. \A v \in Threads : Waiting(v)' \subseteq Waiting(v)
      OBVIOUS
    <3>9. \A v, w \in Threads : v = w \/ Waiting(v)' \cap Waiting(w)' = {}
      BY <3>6 DEF Apart, WritersApart
    <3>10. \A v \in Threads, i \in DOMAIN tickets : tickets[i].docs \cap Waiting(v)' = {}
      BY <3>6 DEF Apart, WritersApart
    <3>7. \A u \in Threads : Waiting(u) \subseteq Numbers
      BY DEF Waiting, DocTypes
    <3>8. \A u \in Threads, r \in segmentInfos' : r.docs \cap Waiting(u)' = {}
      BY <3>2, <3>3, <3>4, <3>6, <3>7 DEF Apart, WritersApart
    <3>11. \A r \in segmentInfos', i \in DOMAIN tickets : r.docs \cap tickets[i].docs = {}
      BY <3>2, <3>3, <3>4 DEF Apart, TicketsApart, DocTypes
    <3> HIDE DEF Waiting
    <3> QED BY <2>0, <3>5, <3>8, <3>9, <3>10, <3>11 DEF Apart, TicketsApart, WritersApart
  <2> QED BY <2>1, <2>2, <2>3 DEF InsertCopied
<1>14. CASE \E t \in Threads : TakeBackDocs(t)
  <2>1. segmentInfos' \subseteq segmentInfos /\ tickets' = tickets
    BY <1>14 DEF TakeBackDocs, segVars, queueVars, vars
  <2> QED BY <1>a, <2>1, ApartKept
<1>15. CASE \E a \in Actors : ForcePurge(a)
  <2>1. segmentInfos' \subseteq segmentInfos /\ tickets' = tickets
    BY <1>15 DEF ForcePurge, segVars, queueVars, vars
  <2> QED BY <1>a, <2>1, ApartKept
<1>16. CASE \E a \in Actors : PublishFlushedSegment(a)
  <2>1. PICK a \in Actors : PublishFlushedSegment(a)
    BY <1>16
  <2>2. tickets # <<>> /\ tickets' = Tail(tickets)
    BY <2>1 DEF PublishFlushedSegment, CanPublish
  <2>3. /\ \A i \in DOMAIN tickets' : i \in Nat \ {0} /\ i + 1 \in DOMAIN tickets /\ tickets'[i] = tickets[i + 1]
        /\ 1 \in DOMAIN tickets /\ Head(tickets) = tickets[1]
    BY <2>2, TailIs DEF DocTypes
  <2>4. CASE segmentInfos' = segmentInfos
    BY <1>a, <2>1, <2>3, <2>4, ApartKept
  <2>5. CASE segmentInfos' = segmentInfos \cup {Segment(tickets[1].docs, 0)}
    <3>1. PICK s : s = Segment(tickets[1].docs, 0) /\ s.docs = tickets[1].docs
      BY SegmentDocs
    <3>2. \A r \in segmentInfos' : r \in segmentInfos \/ r = s
      BY <2>5, <3>1
    <3>3. SegmentsApart'
      BY <2>3, <3>1, <3>2 DEF Apart, SegmentsApart, TicketsApart
    <3>4. \A i, j \in DOMAIN tickets' : i = j \/ tickets'[i].docs \cap tickets'[j].docs = {}
      <4> TAKE i, j \in DOMAIN tickets'
      <4>1. i + 1 = j + 1 => i = j
        BY <2>3
      <4> QED BY <2>3, <4>1 DEF Apart, TicketsApart
    <3>5. \A r \in segmentInfos', i \in DOMAIN tickets' : r.docs \cap tickets'[i].docs = {}
      <4> TAKE r \in segmentInfos', i \in DOMAIN tickets'
      <4>1. i + 1 # 1
        BY <2>3
      <4> QED BY <2>3, <3>1, <3>2, <4>1 DEF Apart, TicketsApart
    <3>6. \A t \in Threads : Waiting(t)' \subseteq Waiting(t)
      BY <2>1
    <3>7. \A t \in Threads, r \in segmentInfos' : r.docs \cap Waiting(t)' = {}
      BY <2>3, <3>1, <3>2, <3>6 DEF Apart, WritersApart
    <3>8. \A t \in Threads, i \in DOMAIN tickets' : tickets'[i].docs \cap Waiting(t)' = {}
      BY <2>3, <3>6 DEF Apart, WritersApart
    <3>9. \A t, u \in Threads : t = u \/ Waiting(t)' \cap Waiting(u)' = {}
      BY <3>6 DEF Apart, WritersApart
    <3> HIDE DEF Waiting
    <3> QED BY <3>3, <3>4, <3>5, <3>7, <3>8, <3>9 DEF Apart, TicketsApart, WritersApart
  <2> QED BY <2>1, <2>3, <2>4, <2>5 DEF PublishFlushedSegment
<1>17. CASE \E a \in Actors : EndPurge(a)
  <2>1. segmentInfos' \subseteq segmentInfos /\ tickets' = tickets
    BY <1>17 DEF EndPurge, segVars, queueVars, vars
  <2> QED BY <1>a, <2>1, ApartKept
<1>18. CASE \E a \in Actors : ProcessEvents(a)
  <2>1. segmentInfos' \subseteq segmentInfos /\ tickets' = tickets
    BY <1>18 DEF ProcessEvents, segVars, queueVars, vars
  <2> QED BY <1>a, <2>1, ApartKept
<1>19. CASE StartDeleteAll
  <2>1. segmentInfos' \subseteq segmentInfos /\ tickets' = tickets
    BY <1>19 DEF StartDeleteAll, segVars, queueVars, vars
  <2> QED BY <1>a, <2>1, ApartKept
<1>20. CASE DropTicket
  <2>1. tickets # <<>> /\ tickets' = Tail(tickets) /\ segmentInfos' = segmentInfos
    BY <1>20 DEF DropTicket, CanPublish, segVars
  <2>2. \A i \in DOMAIN tickets' : i \in Int /\ i + 1 \in DOMAIN tickets /\ tickets'[i] = tickets[i + 1]
    BY <2>1, TailIs DEF DocTypes
  <2> QED BY <1>a, <1>20, <2>1, <2>2, ApartKept
<1>21. CASE CountThreadStates
  <2>1. segmentInfos' \subseteq segmentInfos /\ tickets' = tickets
    BY <1>21 DEF CountThreadStates, segVars, queueVars, vars
  <2> QED BY <1>a, <2>1, ApartKept
<1>22. CASE SetAbort
  <2>1. segmentInfos' \subseteq segmentInfos /\ tickets' = tickets
    BY <1>22 DEF SetAbort, segVars, queueVars, vars
  <2> QED BY <1>a, <2>1, ApartKept
<1>23. CASE ClearIndex
  <2>1. segmentInfos' \subseteq segmentInfos /\ tickets' = tickets
    BY <1>23 DEF ClearIndex, queueVars, segVars, vars
  <2> QED BY <1>a, <2>1, ApartKept
<1>24. CASE UnlockAll
  <2>1. segmentInfos' \subseteq segmentInfos /\ tickets' = tickets
    BY <1>24 DEF UnlockAll, segVars, queueVars, vars
  <2> QED BY <1>a, <2>1, ApartKept
<1>25. CASE StartRollback
  <2>1. segmentInfos' \subseteq segmentInfos /\ tickets' = tickets
    BY <1>25 DEF StartRollback, segVars, queueVars, vars
  <2> QED BY <1>a, <2>1, ApartKept
<1>26. CASE CloseDocWriter
  <2>1. segmentInfos' \subseteq segmentInfos /\ tickets' = tickets
    BY <1>26 DEF CloseDocWriter, segVars, queueVars, vars
  <2> QED BY <1>a, <2>1, ApartKept
<1>27. CASE RollbackSegmentInfos
  <2>1. at[Closer] = "rollback" /\ segmentInfos' = rollbackSegments /\ tickets' = tickets
    BY <1>27 DEF RollbackSegmentInfos, queueVars
  <2>2. tickets = <<>> /\ \A t \in Threads : ram[t] = {} /\ flushing[t] = {}
    BY <2>1 DEF ShutDown, WritersShut, FlushesShut, QueueShut, Shut
  <2>3. \A t \in Threads : Waiting(t)' = {}
    <3>1. \A t \in Threads : Waiting(t) = {}
      BY <2>2 DEF Waiting
    <3>2. \A t \in Threads : Waiting(t)' \subseteq Waiting(t)
      BY <1>27
    <3> QED BY <3>1, <3>2
  <2>4. \A s1, s2 \in rollbackSegments : s1 = s2
    BY DEF rollbackSegments, CommittedSegments
  <2>5. DOMAIN tickets = {}
    BY <2>2
  <2> HIDE DEF Waiting
  <2> QED BY <2>1, <2>3, <2>4, <2>5 DEF Apart, SegmentsApart, TicketsApart, WritersApart
<1>28. CASE \E a \in Aborters, t \in Threads : AbortThreadState(a, t)
  <2>1. segmentInfos' \subseteq segmentInfos /\ tickets' = tickets
    BY <1>28 DEF AbortThreadState, segVars, queueVars, vars
  <2> QED BY <1>a, <2>1, ApartKept
<1>29. CASE \E a \in Aborters : WaitForFlush(a)
  <2>1. segmentInfos' \subseteq segmentInfos /\ tickets' = tickets
    BY <1>29 DEF WaitForFlush, segVars, queueVars, vars
  <2> QED BY <1>a, <2>1, ApartKept
<1>30. CASE \E a \in Aborters : AbortMerges(a)
  <2>1. segmentInfos' \subseteq segmentInfos /\ tickets' = tickets
    BY <1>30 DEF AbortMerges, segVars, queueVars, vars
  <2> QED BY <1>a, <2>1, ApartKept
<1>31. CASE \E s \in segmentInfos : StartApply(s)
  <2>1. segmentInfos' \subseteq segmentInfos /\ tickets' = tickets
    BY <1>31 DEF StartApply, segVars, queueVars, vars
  <2> QED BY <1>a, <2>1, ApartKept
<1>32. CASE \E s \in segmentInfos : WriteReaderPool(s)
  <2>1. segmentInfos' \subseteq segmentInfos /\ tickets' = tickets
    BY <1>32 DEF WriteReaderPool, dropDeletedSegment, segVars, queueVars, vars
  <2> QED BY <1>a, <2>1, ApartKept
<1>33. CASE \E s \in packets : FinishApply(s)
  <2>1. segmentInfos' \subseteq segmentInfos /\ tickets' = tickets
    BY <1>33 DEF FinishApply, dropDeletedSegment, segVars, queueVars, vars
  <2> QED BY <1>a, <2>1, ApartKept
<1>34. CASE \E S \in SUBSET segmentInfos : StartMerge(S)
  <2>1. segmentInfos' \subseteq segmentInfos /\ tickets' = tickets
    BY <1>34 DEF StartMerge, segVars, queueVars, vars
  <2> QED BY <1>a, <2>1, ApartKept
<1>35. CASE \E m \in merges : CommitMerge(m)
  <2>1. PICK m \in merges : CommitMerge(m)
    BY <1>35
  <2>0. tickets' = tickets
    BY <2>1 DEF CommitMerge, queueVars
  <2>2. CASE segmentInfos' \subseteq segmentInfos
    BY <1>a, <2>0, <2>1, <2>2, ApartKept
  <2>3. CASE segmentInfos' = (segmentInfos \ m.segments) \cup {m.info}
    <3>1. \A d \in m.info.docs : \E s \in m.segments : s \in segmentInfos /\ d \in s.docs
      BY DEF MergesOwn
    <3>4. \A r \in segmentInfos' : r = m.info \/ (r \in segmentInfos /\ r \notin m.segments)
      BY <2>3
    <3>2. \A r \in segmentInfos' : r = m.info \/ r.docs \cap m.info.docs = {}
      BY <3>1, <3>4 DEF Apart, SegmentsApart
    <3>5. SegmentsApart'
      BY <3>2, <3>4 DEF Apart, SegmentsApart
    <3>6. \A v \in Threads : Waiting(v)' \subseteq Waiting(v)
      OBVIOUS
    <3>9. \A v, w \in Threads : v = w \/ Waiting(v)' \cap Waiting(w)' = {}
      BY <3>6 DEF Apart, WritersApart
    <3>10. \A v \in Threads, i \in DOMAIN tickets : tickets[i].docs \cap Waiting(v)' = {}
      BY <3>6 DEF Apart, WritersApart
    <3>7. \A u \in Threads : m.info.docs \cap Waiting(u) = {}
      BY <3>1 DEF Apart, WritersApart
    <3>8. \A u \in Threads, r \in segmentInfos' : r.docs \cap Waiting(u)' = {}
      BY <3>4, <3>6, <3>7 DEF Apart, WritersApart
    <3>11. \A r \in segmentInfos', i \in DOMAIN tickets : r.docs \cap tickets[i].docs = {}
      BY <3>1, <3>4 DEF Apart, TicketsApart
    <3> HIDE DEF Waiting
    <3> QED BY <2>0, <3>5, <3>8, <3>9, <3>10, <3>11 DEF Apart, TicketsApart, WritersApart
  <2> QED BY <2>1, <2>2, <2>3 DEF CommitMerge
<1>36. CASE \E m \in merges : MergeFails(m)
  <2>1. segmentInfos' \subseteq segmentInfos /\ tickets' = tickets
    BY <1>36 DEF MergeFails, segVars, queueVars, vars
  <2> QED BY <1>a, <2>1, ApartKept
<1>37. CASE UNCHANGED vars
  <2>1. segmentInfos' \subseteq segmentInfos /\ tickets' = tickets
    BY <1>37 DEF vars, segVars, queueVars
  <2> QED BY <1>a, <2>1, ApartKept
<1> QED BY NextSteps, <1>1, <1>2, <1>3, <1>4, <1>6, <1>7, <1>8, <1>9, <1>10, <1>11, <1>12, <1>13, <1>14,
           <1>15, <1>16, <1>17, <1>18, <1>19, <1>20, <1>21, <1>22, <1>23, <1>24, <1>25, <1>26, <1>27, <1>28,
           <1>29, <1>30, <1>31, <1>32, <1>33, <1>34, <1>35, <1>36, <1>37

LEMMA ApartStep ==
  ASSUME DocTypes, AtTypes, MergesOwn, FlushesOwn, ShutDown, Apart, Next
  PROVE  Apart'
BY WaitingKept, IndexApart, KeptApart

LEMMA FlushesKept ==
  ASSUME FlushesOwn, flushing' = flushing, tickets' = tickets,
         \A t \in Threads : /\ ram'[t] = ram[t] \/ ram'[t] = {} \/ at[t] \notin InFlush
                            /\ at'[t] \in InFlush <=> at[t] \in InFlush
                            /\ at'[t] = "flush" <=> at[t] = "flush"
  PROVE  FlushesOwn'
BY DEF FlushesOwn

LEMMA FlushesOwnStep ==
  ASSUME DocTypes, AtTypes, Apart, FlushesOwn, Next
  PROVE  FlushesOwn'
<1>1. CASE \E t \in Threads : StartUpdate(t)
  <2>1. /\ flushing' = flushing /\ tickets' = tickets
        /\ \A t \in Threads : /\ ram'[t] = ram[t] \/ ram'[t] = {}
                              /\ at'[t] \in InFlush <=> at[t] \in InFlush
                              /\ at'[t] = "flush" <=> at[t] = "flush"
    BY <1>1, Distinct DEF StartUpdate, Goto, AtTypes, DocTypes, InFlush, Aborters, queueVars
  <2> QED BY <2>1, FlushesKept
<1>2. CASE \E t \in Threads : ObtainAndLock(t)
  <2>1. /\ flushing' = flushing /\ tickets' = tickets
        /\ \A t \in Threads : /\ ram'[t] = ram[t] \/ ram'[t] = {}
                              /\ at'[t] \in InFlush <=> at[t] \in InFlush
                              /\ at'[t] = "flush" <=> at[t] = "flush"
    BY <1>2, Distinct DEF ObtainAndLock, Goto, AtTypes, DocTypes, InFlush, Aborters, queueVars
  <2> QED BY <2>1, FlushesKept
<1>3. CASE \E t \in Threads : ReserveOneDoc(t)
  <2>1. /\ flushing' = flushing /\ tickets' = tickets
        /\ \A t \in Threads : /\ ram'[t] = ram[t] \/ ram'[t] = {}
                              /\ at'[t] \in InFlush <=> at[t] \in InFlush
                              /\ at'[t] = "flush" <=> at[t] = "flush"
    BY <1>3, Distinct DEF ReserveOneDoc, Goto, AtTypes, DocTypes, InFlush, Aborters, queueVars
  <2> QED BY <2>1, FlushesKept
<1>4. CASE \E t \in Threads : TakeBackOneDoc(t)
  <2>1. /\ flushing' = flushing /\ tickets' = tickets
        /\ \A t \in Threads : /\ ram'[t] = ram[t] \/ ram'[t] = {}
                              /\ at'[t] \in InFlush <=> at[t] \in InFlush
                              /\ at'[t] = "flush" <=> at[t] = "flush"
    BY <1>4, Distinct DEF TakeBackOneDoc, Goto, AtTypes, DocTypes, InFlush, Aborters, queueVars
  <2> QED BY <2>1, FlushesKept
<1>5. CASE \E t \in Threads : \E fails, flush \in BOOLEAN : Index(t, fails, flush)
  <2>1. PICK t \in Threads, fails, flush \in BOOLEAN : Index(t, fails, flush)
    BY <1>5
  <2>2. at[t] = "index" /\ tickets' = tickets
    BY <2>1 DEF Index, queueVars
  <2>3. /\ \A u \in Threads \ {t} : at'[u] = at[u] /\ ram'[u] = ram[u] /\ flushing'[u] = flushing[u]
        /\ \/ at'[t] = "idle" /\ flushing'[t] = flushing[t]
           \/ at'[t] = "pending" /\ flushing'[t] # {} /\ ram'[t] = {}
    <3>1. CASE flush /\ ~fails
      <4>1. /\ flushing' = [flushing EXCEPT ![t] = ram[t] \cup {numbered + 1}]
            /\ ram' = [ram EXCEPT ![t] = {}] /\ at' = [at EXCEPT ![t] = "pending"]
        BY <2>1, <3>1 DEF Index, Goto
      <4> QED BY <4>1, Distinct DEF DocTypes, AtTypes
    <3>2. CASE ~(flush /\ ~fails)
      <4>1. /\ ram' = [ram EXCEPT ![t] = ram[t] \cup {numbered + 1}]
            /\ flushing' = flushing /\ at' = [at EXCEPT ![t] = "idle"]
        BY <2>1, <3>2 DEF Index, Goto
      <4> QED BY <4>1, Distinct DEF DocTypes, AtTypes
    <3> QED BY <3>1, <3>2
  <2> QED BY <2>2, <2>3 DEF FlushesOwn, InFlush
<1>6. CASE \E t \in Threads : AbortingException(t)
  <2>1. /\ flushing' = flushing /\ tickets' = tickets
        /\ \A t \in Threads : /\ ram'[t] = ram[t] \/ ram'[t] = {}
                              /\ at'[t] \in InFlush <=> at[t] \in InFlush
                              /\ at'[t] = "flush" <=> at[t] = "flush"
    BY <1>6, Distinct DEF AbortingException, Goto, AtTypes, DocTypes, InFlush, Aborters, queueVars
  <2> QED BY <2>1, FlushesKept
<1>7. CASE \E t \in Threads : AddFlushTicket(t)
  <2>1. PICK t \in Threads : AddFlushTicket(t)
    BY <1>7
  <2>2. PICK x \in TicketType : x = [docs |-> flushing[t], phase |-> "flush"] /\ x.docs = flushing[t] /\ x.phase = "flush"
    <3>1. flushing[t] \in SUBSET Nat
      BY DEF DocTypes, Numbers
    <3>2. PICK docs \in SUBSET Nat : docs = flushing[t]
      BY <3>1
    <3>3. [docs |-> docs, phase |-> "flush"] \in TicketType
      BY DEF TicketType
    <3> QED BY <3>2, <3>3
  <2>3. tickets' = Append(tickets, x) /\ ram' = ram /\ flushing' = flushing /\ at[t] = "pending"
    BY <2>1, <2>2 DEF AddFlushTicket
  <2>4. /\ \A i \in DOMAIN tickets' : i \in DOMAIN tickets \/ i = Len(tickets) + 1
        /\ \A i \in DOMAIN tickets : i \in DOMAIN tickets' /\ tickets'[i] = tickets[i]
        /\ Len(tickets) + 1 \in DOMAIN tickets' /\ tickets'[Len(tickets) + 1] = x
    BY <2>3 DEF DocTypes
  <2>5. at'[t] = "flush" /\ \A u \in Threads \ {t} : at'[u] = at[u]
    BY <2>1, Distinct DEF AddFlushTicket, Goto, AtTypes
  <2>6. \A i \in DOMAIN tickets : tickets[i].docs \cap flushing[t] = {}
    BY <2>3 DEF Apart, WritersApart, Waiting
  <2>7. \A u \in Threads : at[u] = "flush" => flushing[u] # flushing[t]
    <3> TAKE u \in Threads
    <3> HAVE at[u] = "flush"
    <3>1. PICK i \in DOMAIN tickets : tickets[i].docs = flushing[u]
      BY DEF FlushesOwn
    <3>2. flushing[u] # {}
      BY DEF FlushesOwn, InFlush
    <3> QED BY <2>6, <3>1, <3>2
  <2>8. \A u \in Threads : IF at'[u] \in InFlush THEN flushing'[u] # {} /\ ram'[u] = {} ELSE flushing'[u] = {}
    BY <2>3, <2>5 DEF FlushesOwn, InFlush
  <2>9. \A u \in Threads : at'[u] = "flush" =>
          \E i \in DOMAIN tickets' : tickets'[i].docs = flushing[u] /\ tickets'[i].phase = "flush"
    BY <2>2, <2>4, <2>5 DEF FlushesOwn
  <2>10. \A i \in DOMAIN tickets' : tickets'[i].phase = "flush" =>
           \E u \in Threads : at'[u] = "flush" /\ flushing[u] = tickets'[i].docs
    <3> TAKE i \in DOMAIN tickets'
    <3> HAVE tickets'[i].phase = "flush"
    <3>1. CASE i \in DOMAIN tickets
      <4>1. PICK u \in Threads : at[u] = "flush" /\ flushing[u] = tickets[i].docs
        BY <2>4, <3>1 DEF FlushesOwn
      <4> QED BY <2>3, <2>4, <2>5, <3>1, <4>1
    <3>2. CASE i \notin DOMAIN tickets
      BY <2>2, <2>4, <2>5, <3>2
    <3> QED BY <3>1, <3>2
  <2>11. \A u, w \in Threads : at'[u] = "flush" /\ at'[w] = "flush" /\ u # w => flushing[u] # flushing[w]
    BY <2>5, <2>7 DEF FlushesOwn
  <2> QED BY <2>3, <2>8, <2>9, <2>10, <2>11 DEF FlushesOwn
<1>8. CASE \E t \in Threads : AddSegment(t)
  <2>1. PICK t \in Threads : AddSegment(t)
    BY <1>8
  <2>2. /\ at[t] = "flush" /\ ram' = ram /\ flushing' = flushing
        /\ at'[t] = "flushed" /\ \A u \in Threads \ {t} : at'[u] = at[u]
    BY <2>1, Distinct DEF AddSegment, Goto, AtTypes
  <2>3. /\ DOMAIN tickets' = DOMAIN tickets
        /\ \A i \in DOMAIN tickets : /\ tickets'[i].docs = tickets[i].docs
                                     /\ tickets'[i].phase = IF tickets[i].docs = flushing[t] THEN "flushed" ELSE tickets[i].phase
    BY <2>1, MarkedTypes DEF AddSegment
  <2>4. \A u \in Threads : IF at'[u] \in InFlush THEN flushing'[u] # {} /\ ram'[u] = {} ELSE flushing'[u] = {}
    BY <2>2 DEF FlushesOwn, InFlush
  <2>5. \A u \in Threads : at'[u] = "flush" =>
          \E i \in DOMAIN tickets' : tickets'[i].docs = flushing[u] /\ tickets'[i].phase = "flush"
    <3> TAKE u \in Threads
    <3> HAVE at'[u] = "flush"
    <3>1. u # t /\ at[u] = "flush"
      BY <2>2
    <3>2. flushing[u] # flushing[t]
      BY <2>2, <3>1 DEF FlushesOwn
    <3>3. PICK i \in DOMAIN tickets : tickets[i].docs = flushing[u] /\ tickets[i].phase = "flush"
      BY <3>1 DEF FlushesOwn
    <3> QED BY <2>3, <3>2, <3>3
  <2>6. \A i \in DOMAIN tickets' : tickets'[i].phase = "flush" =>
           \E u \in Threads : at'[u] = "flush" /\ flushing[u] = tickets'[i].docs
    <3> TAKE i \in DOMAIN tickets'
    <3> HAVE tickets'[i].phase = "flush"
    <3>1. tickets[i].phase = "flush" /\ tickets[i].docs # flushing[t]
      BY <2>3
    <3>2. PICK u \in Threads : at[u] = "flush" /\ flushing[u] = tickets[i].docs
      BY <2>3, <3>1 DEF FlushesOwn
    <3> QED BY <2>2, <2>3, <3>1, <3>2
  <2>7. \A u, w \in Threads : at'[u] = "flush" /\ at'[w] = "flush" /\ u # w => flushing[u] # flushing[w]
    BY <2>2 DEF FlushesOwn
  <2> QED BY <2>2, <2>4, <2>5, <2>6, <2>7 DEF FlushesOwn
<1>9. CASE \E t \in Threads : FlushFails(t)
  <2>1. PICK t \in Threads : FlushFails(t)
    BY <1>9
  <2>2. /\ at[t] = "flush" /\ ram' = ram /\ flushing' = flushing
        /\ at'[t] = "flushFailed" /\ \A u \in Threads \ {t} : at'[u] = at[u]
    BY <2>1, Distinct DEF FlushFails, Goto, AtTypes
  <2>3. /\ DOMAIN tickets' = DOMAIN tickets
        /\ \A i \in DOMAIN tickets : /\ tickets'[i].docs = tickets[i].docs
                                     /\ tickets'[i].phase = IF tickets[i].docs = flushing[t] THEN "failed" ELSE tickets[i].phase
    BY <2>1, MarkedTypes DEF FlushFails
  <2>4. \A u \in Threads : IF at'[u] \in InFlush THEN flushing'[u] # {} /\ ram'[u] = {} ELSE flushing'[u] = {}
    BY <2>2 DEF FlushesOwn, InFlush
  <2>5. \A u \in Threads : at'[u] = "flush" =>
          \E i \in DOMAIN tickets' : tickets'[i].docs = flushing[u] /\ tickets'[i].phase = "flush"
    <3> TAKE u \in Threads
    <3> HAVE at'[u] = "flush"
    <3>1. u # t /\ at[u] = "flush"
      BY <2>2
    <3>2. flushing[u] # flushing[t]
      BY <2>2, <3>1 DEF FlushesOwn
    <3>3. PICK i \in DOMAIN tickets : tickets[i].docs = flushing[u] /\ tickets[i].phase = "flush"
      BY <3>1 DEF FlushesOwn
    <3> QED BY <2>3, <3>2, <3>3
  <2>6. \A i \in DOMAIN tickets' : tickets'[i].phase = "flush" =>
           \E u \in Threads : at'[u] = "flush" /\ flushing[u] = tickets'[i].docs
    <3> TAKE i \in DOMAIN tickets'
    <3> HAVE tickets'[i].phase = "flush"
    <3>1. tickets[i].phase = "flush" /\ tickets[i].docs # flushing[t]
      BY <2>3
    <3>2. PICK u \in Threads : at[u] = "flush" /\ flushing[u] = tickets[i].docs
      BY <2>3, <3>1 DEF FlushesOwn
    <3> QED BY <2>2, <2>3, <3>1, <3>2
  <2>7. \A u, w \in Threads : at'[u] = "flush" /\ at'[w] = "flush" /\ u # w => flushing[u] # flushing[w]
    BY <2>2 DEF FlushesOwn
  <2> QED BY <2>2, <2>4, <2>5, <2>6, <2>7 DEF FlushesOwn
<1>10. CASE \E t \in Threads : DoAfterFlush(t)
  <2>1. PICK t \in Threads : DoAfterFlush(t)
    BY <1>10
  <2>2. /\ at[t] \in {"flushed", "flushFailed"} /\ ram' = ram /\ tickets' = tickets
        /\ flushing'[t] = {} /\ \A u \in Threads \ {t} : flushing'[u] = flushing[u]
        /\ at'[t] \in {"publish", "idle"} /\ \A u \in Threads \ {t} : at'[u] = at[u]
    BY <2>1, Distinct DEF DoAfterFlush, Goto, AtTypes, DocTypes, queueVars
  <2>3. \A u \in Threads : at'[u] = "flush" <=> at[u] = "flush"
    BY <2>2
  <2>4. \A u \in Threads : at[u] = "flush" => flushing'[u] = flushing[u]
    BY <2>2
  <2>5. \A u \in Threads : IF at'[u] \in InFlush THEN flushing'[u] # {} /\ ram'[u] = {} ELSE flushing'[u] = {}
    BY <2>2 DEF FlushesOwn, InFlush
  <2> QED BY <2>2, <2>3, <2>4, <2>5 DEF FlushesOwn
<1>11. CASE \E t \in Threads : TryPurge(t)
  <2>1. /\ flushing' = flushing /\ tickets' = tickets
        /\ \A t \in Threads : /\ ram'[t] = ram[t] \/ ram'[t] = {}
                              /\ at'[t] \in InFlush <=> at[t] \in InFlush
                              /\ at'[t] = "flush" <=> at[t] = "flush"
    BY <1>11, Distinct DEF TryPurge, Goto, AtTypes, DocTypes, InFlush, Aborters
  <2> QED BY <2>1, FlushesKept
<1>12. CASE \E t \in Threads : StartAddIndexes(t)
  <2>1. /\ flushing' = flushing /\ tickets' = tickets
        /\ \A t \in Threads : /\ ram'[t] = ram[t] \/ ram'[t] = {}
                              /\ at'[t] \in InFlush <=> at[t] \in InFlush
                              /\ at'[t] = "flush" <=> at[t] = "flush"
    BY <1>12, Distinct DEF StartAddIndexes, Goto, AtTypes, DocTypes, InFlush, Aborters, queueVars
  <2> QED BY <2>1, FlushesKept
<1>13. CASE \E t \in Threads : InsertCopied(t)
  <2>1. /\ flushing' = flushing /\ tickets' = tickets
        /\ \A t \in Threads : /\ ram'[t] = ram[t] \/ ram'[t] = {}
                              /\ at'[t] \in InFlush <=> at[t] \in InFlush
                              /\ at'[t] = "flush" <=> at[t] = "flush"
    BY <1>13, Distinct DEF InsertCopied, Goto, AtTypes, DocTypes, InFlush, Aborters, queueVars
  <2> QED BY <2>1, FlushesKept
<1>14. CASE \E t \in Threads : TakeBackDocs(t)
  <2>1. /\ flushing' = flushing /\ tickets' = tickets
        /\ \A t \in Threads : /\ ram'[t] = ram[t] \/ ram'[t] = {}
                              /\ at'[t] \in InFlush <=> at[t] \in InFlush
                              /\ at'[t] = "flush" <=> at[t] = "flush"
    BY <1>14, Distinct DEF TakeBackDocs, Goto, AtTypes, DocTypes, InFlush, Aborters, queueVars
  <2> QED BY <2>1, FlushesKept
<1>15. CASE \E a \in Actors : ForcePurge(a)
  <2>1. /\ flushing' = flushing /\ tickets' = tickets
        /\ \A t \in Threads : /\ ram'[t] = ram[t] \/ ram'[t] = {}
                              /\ at'[t] \in InFlush <=> at[t] \in InFlush
                              /\ at'[t] = "flush" <=> at[t] = "flush"
    BY <1>15, Distinct DEF ForcePurge, Goto, AtTypes, DocTypes, InFlush, Aborters
  <2> QED BY <2>1, FlushesKept
<1>16. CASE \E a \in Actors : PublishFlushedSegment(a)
  <2>1. /\ tickets # <<>> /\ tickets' = Tail(tickets) /\ Head(tickets).phase # "flush"
        /\ at' = at /\ ram' = ram /\ flushing' = flushing
    BY <1>16 DEF PublishFlushedSegment, CanPublish
  <2>2. /\ \A i \in DOMAIN tickets' : i + 1 \in DOMAIN tickets /\ tickets'[i] = tickets[i + 1]
        /\ \A i \in DOMAIN tickets : i # 1 => i - 1 \in DOMAIN tickets' /\ tickets'[i - 1] = tickets[i]
        /\ tickets[1].phase # "flush"
    BY <2>1 DEF DocTypes
  <2>3. \A u \in Threads : at[u] = "flush" =>
          \E i \in DOMAIN tickets' : tickets'[i].docs = flushing[u] /\ tickets'[i].phase = "flush"
    <3> TAKE u \in Threads
    <3> HAVE at[u] = "flush"
    <3>1. PICK i \in DOMAIN tickets : tickets[i].docs = flushing[u] /\ tickets[i].phase = "flush"
      BY DEF FlushesOwn
    <3>2. i # 1
      BY <2>2, <3>1
    <3> QED BY <2>2, <3>1, <3>2
  <2>4. \A i \in DOMAIN tickets' : tickets'[i].phase = "flush" =>
           \E u \in Threads : at[u] = "flush" /\ flushing[u] = tickets'[i].docs
    BY <2>2 DEF FlushesOwn
  <2> QED BY <2>1, <2>3, <2>4 DEF FlushesOwn
<1>17. CASE \E a \in Actors : EndPurge(a)
  <2>1. /\ flushing' = flushing /\ tickets' = tickets
        /\ \A t \in Threads : /\ ram'[t] = ram[t] \/ ram'[t] = {}
                              /\ at'[t] \in InFlush <=> at[t] \in InFlush
                              /\ at'[t] = "flush" <=> at[t] = "flush"
    BY <1>17, Distinct DEF EndPurge, Goto, AtTypes, DocTypes, InFlush, Aborters
  <2> QED BY <2>1, FlushesKept
<1>18. CASE \E a \in Actors : ProcessEvents(a)
  <2>1. /\ flushing' = flushing /\ tickets' = tickets
        /\ \A t \in Threads : /\ ram'[t] = ram[t] \/ ram'[t] = {}
                              /\ at'[t] \in InFlush <=> at[t] \in InFlush
                              /\ at'[t] = "flush" <=> at[t] = "flush"
    BY <1>18, Distinct DEF ProcessEvents, Goto, AtTypes, DocTypes, InFlush, Aborters
  <2> QED BY <2>1, FlushesKept
<1>19. CASE StartDeleteAll
  <2>1. /\ flushing' = flushing /\ tickets' = tickets
        /\ \A t \in Threads : /\ ram'[t] = ram[t] \/ ram'[t] = {}
                              /\ at'[t] \in InFlush <=> at[t] \in InFlush
                              /\ at'[t] = "flush" <=> at[t] = "flush"
    BY <1>19, Distinct DEF StartDeleteAll, Goto, AtTypes, DocTypes, InFlush, Aborters, queueVars
  <2> QED BY <2>1, FlushesKept
<1>20. CASE DropTicket
  <2>1. /\ tickets # <<>> /\ tickets' = Tail(tickets) /\ Head(tickets).phase # "flush"
        /\ at' = at /\ ram' = ram /\ flushing' = flushing
    BY <1>20 DEF DropTicket, CanPublish
  <2>2. /\ \A i \in DOMAIN tickets' : i + 1 \in DOMAIN tickets /\ tickets'[i] = tickets[i + 1]
        /\ \A i \in DOMAIN tickets : i # 1 => i - 1 \in DOMAIN tickets' /\ tickets'[i - 1] = tickets[i]
        /\ tickets[1].phase # "flush"
    BY <2>1 DEF DocTypes
  <2>3. \A u \in Threads : at[u] = "flush" =>
          \E i \in DOMAIN tickets' : tickets'[i].docs = flushing[u] /\ tickets'[i].phase = "flush"
    <3> TAKE u \in Threads
    <3> HAVE at[u] = "flush"
    <3>1. PICK i \in DOMAIN tickets : tickets[i].docs = flushing[u] /\ tickets[i].phase = "flush"
      BY DEF FlushesOwn
    <3>2. i # 1
      BY <2>2, <3>1
    <3> QED BY <2>2, <3>1, <3>2
  <2>4. \A i \in DOMAIN tickets' : tickets'[i].phase = "flush" =>
           \E u \in Threads : at[u] = "flush" /\ flushing[u] = tickets'[i].docs
    BY <2>2 DEF FlushesOwn
  <2> QED BY <2>1, <2>3, <2>4 DEF FlushesOwn
<1>21. CASE CountThreadStates
  <2>1. /\ flushing' = flushing /\ tickets' = tickets
        /\ \A t \in Threads : /\ ram'[t] = ram[t] \/ ram'[t] = {}
                              /\ at'[t] \in InFlush <=> at[t] \in InFlush
                              /\ at'[t] = "flush" <=> at[t] = "flush"
    BY <1>21, Distinct DEF CountThreadStates, Goto, AtTypes, DocTypes, InFlush, Aborters, queueVars
  <2> QED BY <2>1, FlushesKept
<1>22. CASE SetAbort
  <2>1. /\ flushing' = flushing /\ tickets' = tickets
        /\ \A t \in Threads : /\ ram'[t] = ram[t] \/ ram'[t] = {}
                              /\ at'[t] \in InFlush <=> at[t] \in InFlush
                              /\ at'[t] = "flush" <=> at[t] = "flush"
    BY <1>22, Distinct DEF SetAbort, Goto, AtTypes, DocTypes, InFlush, Aborters, queueVars
  <2> QED BY <2>1, FlushesKept
<1>23. CASE ClearIndex
  <2>1. /\ flushing' = flushing /\ tickets' = tickets
        /\ \A t \in Threads : /\ ram'[t] = ram[t] \/ ram'[t] = {}
                              /\ at'[t] \in InFlush <=> at[t] \in InFlush
                              /\ at'[t] = "flush" <=> at[t] = "flush"
    BY <1>23, Distinct DEF ClearIndex, Goto, AtTypes, DocTypes, InFlush, Aborters, queueVars
  <2> QED BY <2>1, FlushesKept
<1>24. CASE UnlockAll
  <2>1. /\ flushing' = flushing /\ tickets' = tickets
        /\ \A t \in Threads : /\ ram'[t] = ram[t] \/ ram'[t] = {}
                              /\ at'[t] \in InFlush <=> at[t] \in InFlush
                              /\ at'[t] = "flush" <=> at[t] = "flush"
    BY <1>24, Distinct DEF UnlockAll, Goto, AtTypes, DocTypes, InFlush, Aborters, queueVars
  <2> QED BY <2>1, FlushesKept
<1>25. CASE StartRollback
  <2>1. /\ flushing' = flushing /\ tickets' = tickets
        /\ \A t \in Threads : /\ ram'[t] = ram[t] \/ ram'[t] = {}
                              /\ at'[t] \in InFlush <=> at[t] \in InFlush
                              /\ at'[t] = "flush" <=> at[t] = "flush"
    BY <1>25, Distinct DEF StartRollback, Goto, AtTypes, DocTypes, InFlush, Aborters, queueVars
  <2> QED BY <2>1, FlushesKept
<1>26. CASE CloseDocWriter
  <2>1. /\ flushing' = flushing /\ tickets' = tickets
        /\ \A t \in Threads : /\ ram'[t] = ram[t] \/ ram'[t] = {}
                              /\ at'[t] \in InFlush <=> at[t] \in InFlush
                              /\ at'[t] = "flush" <=> at[t] = "flush"
    BY <1>26, Distinct DEF CloseDocWriter, Goto, AtTypes, DocTypes, InFlush, Aborters, queueVars
  <2> QED BY <2>1, FlushesKept
<1>27. CASE RollbackSegmentInfos
  <2>1. /\ flushing' = flushing /\ tickets' = tickets
        /\ \A t \in Threads : /\ ram'[t] = ram[t] \/ ram'[t] = {}
                              /\ at'[t] \in InFlush <=> at[t] \in InFlush
                              /\ at'[t] = "flush" <=> at[t] = "flush"
    BY <1>27, Distinct DEF RollbackSegmentInfos, Goto, AtTypes, DocTypes, InFlush, Aborters, queueVars
  <2> QED BY <2>1, FlushesKept
<1>28. CASE \E a \in Aborters, t \in Threads : AbortThreadState(a, t)
  <2>1. /\ flushing' = flushing /\ tickets' = tickets
        /\ \A t \in Threads : /\ ram'[t] = ram[t] \/ ram'[t] = {}
                              /\ at'[t] \in InFlush <=> at[t] \in InFlush
                              /\ at'[t] = "flush" <=> at[t] = "flush"
    BY <1>28, Distinct DEF AbortThreadState, AtTypes, DocTypes, InFlush, Aborters, queueVars
  <2> QED BY <2>1, FlushesKept
<1>29. CASE \E a \in Aborters : WaitForFlush(a)
  <2>1. /\ flushing' = flushing /\ tickets' = tickets
        /\ \A t \in Threads : /\ ram'[t] = ram[t] \/ ram'[t] = {}
                              /\ at'[t] \in InFlush <=> at[t] \in InFlush
                              /\ at'[t] = "flush" <=> at[t] = "flush"
    BY <1>29, Distinct DEF WaitForFlush, Goto, AtTypes, DocTypes, InFlush, Aborters, queueVars
  <2> QED BY <2>1, FlushesKept
<1>30. CASE \E a \in Aborters : AbortMerges(a)
  <2>1. /\ flushing' = flushing /\ tickets' = tickets
        /\ \A t \in Threads : /\ ram'[t] = ram[t] \/ ram'[t] = {}
                              /\ at'[t] \in InFlush <=> at[t] \in InFlush
                              /\ at'[t] = "flush" <=> at[t] = "flush"
    BY <1>30, Distinct DEF AbortMerges, Goto, AtTypes, DocTypes, InFlush, Aborters, queueVars
  <2> QED BY <2>1, FlushesKept
<1>31. CASE \E s \in segmentInfos : StartApply(s)
  <2>1. /\ flushing' = flushing /\ tickets' = tickets
        /\ \A t \in Threads : /\ ram'[t] = ram[t] \/ ram'[t] = {}
                              /\ at'[t] \in InFlush <=> at[t] \in InFlush
                              /\ at'[t] = "flush" <=> at[t] = "flush"
    BY <1>31, Distinct DEF StartApply, AtTypes, DocTypes, InFlush, Aborters, queueVars
  <2> QED BY <2>1, FlushesKept
<1>32. CASE \E s \in segmentInfos : WriteReaderPool(s)
  <2>1. /\ flushing' = flushing /\ tickets' = tickets
        /\ \A t \in Threads : /\ ram'[t] = ram[t] \/ ram'[t] = {}
                              /\ at'[t] \in InFlush <=> at[t] \in InFlush
                              /\ at'[t] = "flush" <=> at[t] = "flush"
    BY <1>32, Distinct DEF WriteReaderPool, dropDeletedSegment, AtTypes, DocTypes, InFlush, Aborters,
       queueVars
  <2> QED BY <2>1, FlushesKept
<1>33. CASE \E s \in packets : FinishApply(s)
  <2>1. /\ flushing' = flushing /\ tickets' = tickets
        /\ \A t \in Threads : /\ ram'[t] = ram[t] \/ ram'[t] = {}
                              /\ at'[t] \in InFlush <=> at[t] \in InFlush
                              /\ at'[t] = "flush" <=> at[t] = "flush"
    BY <1>33, Distinct DEF FinishApply, dropDeletedSegment, AtTypes, DocTypes, InFlush, Aborters, queueVars
  <2> QED BY <2>1, FlushesKept
<1>34. CASE \E S \in SUBSET segmentInfos : StartMerge(S)
  <2>1. /\ flushing' = flushing /\ tickets' = tickets
        /\ \A t \in Threads : /\ ram'[t] = ram[t] \/ ram'[t] = {}
                              /\ at'[t] \in InFlush <=> at[t] \in InFlush
                              /\ at'[t] = "flush" <=> at[t] = "flush"
    BY <1>34, Distinct DEF StartMerge, AtTypes, DocTypes, InFlush, Aborters, queueVars
  <2> QED BY <2>1, FlushesKept
<1>35. CASE \E m \in merges : CommitMerge(m)
  <2>1. /\ flushing' = flushing /\ tickets' = tickets
        /\ \A t \in Threads : /\ ram'[t] = ram[t] \/ ram'[t] = {}
                              /\ at'[t] \in InFlush <=> at[t] \in InFlush
                              /\ at'[t] = "flush" <=> at[t] = "flush"
    BY <1>35, Distinct DEF CommitMerge, AtTypes, DocTypes, InFlush, Aborters, queueVars
  <2> QED BY <2>1, FlushesKept
<1>36. CASE \E m \in merges : MergeFails(m)
  <2>1. /\ flushing' = flushing /\ tickets' = tickets
        /\ \A t \in Threads : /\ ram'[t] = ram[t] \/ ram'[t] = {}
                              /\ at'[t] \in InFlush <=> at[t] \in InFlush
                              /\ at'[t] = "flush" <=> at[t] = "flush"
    BY <1>36, Distinct DEF MergeFails, AtTypes, DocTypes, InFlush, Aborters, queueVars
  <2> QED BY <2>1, FlushesKept
<1>37. CASE UNCHANGED vars
  <2>1. /\ flushing' = flushing /\ tickets' = tickets
        /\ \A t \in Threads : /\ ram'[t] = ram[t] \/ ram'[t] = {}
                              /\ at'[t] \in InFlush <=> at[t] \in InFlush
                              /\ at'[t] = "flush" <=> at[t] = "flush"
    BY <1>37, Distinct DEF vars, AtTypes, DocTypes, InFlush, queueVars
  <2> QED BY <2>1, FlushesKept
<1> QED BY NextSteps, <1>1, <1>2, <1>3, <1>4, <1>5, <1>6, <1>7, <1>8, <1>9, <1>10, <1>11, <1>12, <1>13,
           <1>14, <1>15, <1>16, <1>17, <1>18, <1>19, <1>20, <1>21, <1>22, <1>23, <1>24, <1>25, <1>26, <1>27,
           <1>28, <1>29, <1>30, <1>31, <1>32, <1>33, <1>34, <1>35, <1>36, <1>37

LEMMA LocksHeldStep ==
  ASSUME DocTypes, AtTypes, LifeTypes, LocksHeld, FlushesOwn, Next
  PROVE  LocksHeld'
<1>1. CASE \E t \in Threads : StartUpdate(t)
  BY <1>1, Distinct DEF LocksHeld, Locked, AtTypes, LifeTypes, DocTypes, StartUpdate, Goto, Aborters,
     stateVars
<1>2. CASE \E t \in Threads : ObtainAndLock(t)
  BY <1>2, Distinct DEF LocksHeld, Locked, AtTypes, LifeTypes, DocTypes, ObtainAndLock, Goto, Aborters
<1>3. CASE \E t \in Threads : ReserveOneDoc(t)
  BY <1>3, Distinct DEF LocksHeld, Locked, AtTypes, LifeTypes, DocTypes, ReserveOneDoc, Goto, Aborters,
     stateVars
<1>4. CASE \E t \in Threads : TakeBackOneDoc(t)
  BY <1>4, Distinct DEF LocksHeld, Locked, AtTypes, LifeTypes, DocTypes, TakeBackOneDoc, Goto, Aborters
<1>5. CASE \E t \in Threads : \E fails, flush \in BOOLEAN : Index(t, fails, flush)
  BY <1>5, Distinct DEF LocksHeld, Locked, AtTypes, LifeTypes, DocTypes, Index, Goto, Aborters
<1>6. CASE \E t \in Threads : AbortingException(t)
  BY <1>6, Distinct DEF LocksHeld, Locked, AtTypes, LifeTypes, DocTypes, AbortingException, Goto, Aborters
<1>7. CASE \E t \in Threads : AddFlushTicket(t)
  BY <1>7, Distinct DEF LocksHeld, Locked, AtTypes, LifeTypes, DocTypes, AddFlushTicket, Goto, Aborters,
     stateVars
<1>8. CASE \E t \in Threads : AddSegment(t)
  BY <1>8, Distinct DEF LocksHeld, Locked, AtTypes, LifeTypes, DocTypes, AddSegment, Goto, Aborters, stateVars
<1>9. CASE \E t \in Threads : FlushFails(t)
  BY <1>9, Distinct DEF LocksHeld, Locked, AtTypes, LifeTypes, DocTypes, FlushFails, Goto, Aborters, stateVars
<1>10. CASE \E t \in Threads : DoAfterFlush(t)
  BY <1>10, Distinct DEF LocksHeld, Locked, AtTypes, LifeTypes, DocTypes, DoAfterFlush, Goto, Aborters,
     stateVars
<1>11. CASE \E t \in Threads : TryPurge(t)
  BY <1>11, Distinct DEF LocksHeld, Locked, AtTypes, LifeTypes, DocTypes, TryPurge, Goto, Aborters, stateVars
<1>12. CASE \E t \in Threads : StartAddIndexes(t)
  BY <1>12, Distinct DEF LocksHeld, Locked, AtTypes, LifeTypes, DocTypes, StartAddIndexes, Goto, Aborters,
     stateVars
<1>13. CASE \E t \in Threads : InsertCopied(t)
  BY <1>13, Distinct DEF LocksHeld, Locked, AtTypes, LifeTypes, DocTypes, InsertCopied, Goto, Aborters,
     stateVars
<1>14. CASE \E t \in Threads : TakeBackDocs(t)
  BY <1>14, Distinct DEF LocksHeld, Locked, AtTypes, LifeTypes, DocTypes, TakeBackDocs, Goto, Aborters,
     stateVars
<1>15. CASE \E a \in Actors : ForcePurge(a)
  BY <1>15, Distinct DEF LocksHeld, Locked, AtTypes, LifeTypes, DocTypes, ForcePurge, Goto, Aborters,
     stateVars
<1>16. CASE \E a \in Actors : PublishFlushedSegment(a)
  BY <1>16, Distinct DEF LocksHeld, Locked, AtTypes, LifeTypes, DocTypes, PublishFlushedSegment, Aborters,
     stateVars
<1>17. CASE \E a \in Actors : EndPurge(a)
  BY <1>17, Distinct DEF LocksHeld, Locked, AtTypes, LifeTypes, DocTypes, EndPurge, Goto, Aborters, stateVars
<1>18. CASE \E a \in Actors : ProcessEvents(a)
  BY <1>18, Distinct DEF LocksHeld, Locked, AtTypes, LifeTypes, DocTypes, ProcessEvents, Goto, Aborters,
     stateVars
<1>19. CASE StartDeleteAll
  BY <1>19, Distinct DEF LocksHeld, Locked, AtTypes, LifeTypes, DocTypes, StartDeleteAll, Goto, Aborters,
     stateVars
<1>20. CASE DropTicket
  BY <1>20, Distinct DEF LocksHeld, Locked, AtTypes, LifeTypes, DocTypes, DropTicket, Aborters, stateVars
<1>21. CASE CountThreadStates
  BY <1>21, Distinct DEF LocksHeld, Locked, AtTypes, LifeTypes, DocTypes, CountThreadStates, Goto, Aborters,
     stateVars
<1>22. CASE SetAbort
  BY <1>22, Distinct DEF LocksHeld, Locked, AtTypes, LifeTypes, DocTypes, SetAbort, Goto, Aborters
<1>23. CASE ClearIndex
  BY <1>23, Distinct DEF LocksHeld, Locked, AtTypes, LifeTypes, DocTypes, ClearIndex, Goto, Aborters,
     stateVars
<1>24. CASE UnlockAll
  BY <1>24, Distinct DEF LocksHeld, Locked, AtTypes, LifeTypes, DocTypes, UnlockAll, Goto, Aborters
<1>25. CASE StartRollback
  BY <1>25, Distinct DEF LocksHeld, Locked, AtTypes, LifeTypes, DocTypes, StartRollback, Goto, Aborters,
     stateVars
<1>26. CASE CloseDocWriter
  BY <1>26, Distinct DEF LocksHeld, Locked, AtTypes, LifeTypes, DocTypes, CloseDocWriter, Goto, Aborters,
     stateVars
<1>27. CASE RollbackSegmentInfos
  BY <1>27, Distinct DEF LocksHeld, Locked, AtTypes, LifeTypes, DocTypes, RollbackSegmentInfos, Goto,
     Aborters, stateVars
<1>28. CASE \E a \in Aborters, t \in Threads : AbortThreadState(a, t)
  BY <1>28, Distinct DEF LocksHeld, Locked, AtTypes, LifeTypes, DocTypes, AbortThreadState, Aborters
<1>29. CASE \E a \in Aborters : WaitForFlush(a)
  BY <1>29, Distinct DEF LocksHeld, Locked, AtTypes, LifeTypes, DocTypes, WaitForFlush, Goto, Aborters,
     stateVars
<1>30. CASE \E a \in Aborters : AbortMerges(a)
  BY <1>30, Distinct DEF LocksHeld, Locked, AtTypes, LifeTypes, DocTypes, AbortMerges, Goto, Aborters,
     stateVars
<1>31. CASE \E s \in segmentInfos : StartApply(s)
  BY <1>31, Distinct DEF LocksHeld, Locked, AtTypes, LifeTypes, DocTypes, StartApply, Aborters, stateVars
<1>32. CASE \E s \in segmentInfos : WriteReaderPool(s)
  BY <1>32, Distinct DEF LocksHeld, Locked, AtTypes, LifeTypes, DocTypes, WriteReaderPool,
     dropDeletedSegment, Aborters, stateVars
<1>33. CASE \E s \in packets : FinishApply(s)
  BY <1>33, Distinct DEF LocksHeld, Locked, AtTypes, LifeTypes, DocTypes, FinishApply, dropDeletedSegment,
     Aborters, stateVars
<1>34. CASE \E S \in SUBSET segmentInfos : StartMerge(S)
  BY <1>34, Distinct DEF LocksHeld, Locked, AtTypes, LifeTypes, DocTypes, StartMerge, Aborters, stateVars
<1>35. CASE \E m \in merges : CommitMerge(m)
  BY <1>35, Distinct DEF LocksHeld, Locked, AtTypes, LifeTypes, DocTypes, CommitMerge, Aborters, stateVars
<1>36. CASE \E m \in merges : MergeFails(m)
  BY <1>36, Distinct DEF LocksHeld, Locked, AtTypes, LifeTypes, DocTypes, MergeFails, Aborters, stateVars
<1>37. CASE UNCHANGED vars
  BY <1>37, Distinct DEF LocksHeld, Locked, AtTypes, LifeTypes, DocTypes, vars, stateVars
<1> QED BY NextSteps, <1>1, <1>2, <1>3, <1>4, <1>5, <1>6, <1>7, <1>8, <1>9, <1>10, <1>11, <1>12, <1>13,
           <1>14, <1>15, <1>16, <1>17, <1>18, <1>19, <1>20, <1>21, <1>22, <1>23, <1>24, <1>25, <1>26, <1>27,
           <1>28, <1>29, <1>30, <1>31, <1>32, <1>33, <1>34, <1>35, <1>36, <1>37

------------------------------------------------------------------------------
\* Each step keeps what the rollback has closed.

LEMMA ShutClosing ==
  ASSUME DocTypes, AtTypes, LifeTypes, FlushesOwn, LocksHeld, ShutDown, NeverAllThree, Next
  PROVE  ClosingPlaces'
<1>1. CASE \E t \in Threads : StartUpdate(t)
  BY <1>1, Distinct DEF ShutDown, ClosingPlaces, AtTypes, StartUpdate, Goto, Aborters, segVars, stateVars,
     queueVars, lifeVars
<1>2. CASE \E t \in Threads : ObtainAndLock(t)
  BY <1>2, Distinct DEF ShutDown, ClosingPlaces, AtTypes, ObtainAndLock, Goto, Aborters, segVars, queueVars,
     lifeVars
<1>3. CASE \E t \in Threads : ReserveOneDoc(t)
  BY <1>3, Distinct DEF ShutDown, ClosingPlaces, AtTypes, ReserveOneDoc, Goto, Aborters, segVars, stateVars,
     queueVars, lifeVars
<1>4. CASE \E t \in Threads : TakeBackOneDoc(t)
  BY <1>4, Distinct DEF ShutDown, ClosingPlaces, AtTypes, TakeBackOneDoc, Goto, Aborters, segVars, queueVars,
     lifeVars
<1>5. CASE \E t \in Threads : \E fails, flush \in BOOLEAN : Index(t, fails, flush)
  BY <1>5, Distinct DEF ShutDown, ClosingPlaces, AtTypes, Index, Goto, Aborters, queueVars, lifeVars
<1>6. CASE \E t \in Threads : AbortingException(t)
  BY <1>6, Distinct DEF ShutDown, ClosingPlaces, AtTypes, AbortingException, Goto, Aborters, segVars,
     queueVars
<1>7. CASE \E t \in Threads : AddFlushTicket(t)
  BY <1>7, Distinct DEF ShutDown, ClosingPlaces, AtTypes, AddFlushTicket, Goto, Aborters, segVars, stateVars,
     lifeVars
<1>8. CASE \E t \in Threads : AddSegment(t)
  BY <1>8, Distinct DEF ShutDown, ClosingPlaces, AtTypes, AddSegment, Goto, Aborters, segVars, stateVars,
     lifeVars
<1>9. CASE \E t \in Threads : FlushFails(t)
  BY <1>9, Distinct DEF ShutDown, ClosingPlaces, AtTypes, FlushFails, Goto, Aborters, segVars, stateVars
<1>10. CASE \E t \in Threads : DoAfterFlush(t)
  BY <1>10, Distinct DEF ShutDown, ClosingPlaces, AtTypes, DoAfterFlush, Goto, Aborters, segVars, stateVars,
     queueVars, lifeVars
<1>11. CASE \E t \in Threads : TryPurge(t)
  BY <1>11, Distinct DEF ShutDown, ClosingPlaces, AtTypes, TryPurge, Goto, Aborters, segVars, stateVars,
     lifeVars
<1>12. CASE \E t \in Threads : StartAddIndexes(t)
  BY <1>12, Distinct DEF ShutDown, ClosingPlaces, AtTypes, StartAddIndexes, Goto, Aborters, segVars,
     stateVars, queueVars, lifeVars
<1>13. CASE \E t \in Threads : InsertCopied(t)
  BY <1>13, Distinct DEF ShutDown, ClosingPlaces, AtTypes, InsertCopied, Goto, Aborters, stateVars,
     queueVars, lifeVars
<1>14. CASE \E t \in Threads : TakeBackDocs(t)
  BY <1>14, Distinct DEF ShutDown, ClosingPlaces, AtTypes, TakeBackDocs, Goto, Aborters, segVars, stateVars,
     queueVars, lifeVars
<1>15. CASE \E a \in Actors : ForcePurge(a)
  BY <1>15, Distinct DEF ShutDown, ClosingPlaces, AtTypes, ForcePurge, Goto, Aborters, segVars, stateVars,
     lifeVars
<1>16. CASE \E a \in Actors : PublishFlushedSegment(a)
  BY <1>16, Distinct DEF ShutDown, ClosingPlaces, AtTypes, PublishFlushedSegment, Aborters, stateVars,
     lifeVars
<1>17. CASE \E a \in Actors : EndPurge(a)
  BY <1>17, Distinct DEF ShutDown, ClosingPlaces, AtTypes, EndPurge, Goto, Aborters, segVars, stateVars,
     lifeVars
<1>18. CASE \E a \in Actors : ProcessEvents(a)
  BY <1>18, Distinct DEF ShutDown, ClosingPlaces, AtTypes, ProcessEvents, Goto, Aborters, segVars, stateVars,
     lifeVars
<1>19. CASE StartDeleteAll
  BY <1>19, Distinct DEF ShutDown, ClosingPlaces, AtTypes, StartDeleteAll, Goto, Aborters, segVars,
     stateVars, queueVars, lifeVars
<1>20. CASE DropTicket
  BY <1>20, Distinct DEF ShutDown, ClosingPlaces, AtTypes, DropTicket, Aborters, segVars, stateVars, lifeVars
<1>21. CASE CountThreadStates
  BY <1>21, Distinct DEF ShutDown, ClosingPlaces, AtTypes, CountThreadStates, Goto, Aborters, segVars,
     stateVars, queueVars, lifeVars
<1>22. CASE SetAbort
  BY <1>22, Distinct DEF ShutDown, ClosingPlaces, AtTypes, SetAbort, Goto, Aborters, segVars, queueVars,
     lifeVars
<1>23. CASE ClearIndex
  BY <1>23, Distinct DEF ShutDown, ClosingPlaces, AtTypes, ClearIndex, Goto, Aborters, stateVars, queueVars
<1>24. CASE UnlockAll
  BY <1>24, Distinct DEF ShutDown, ClosingPlaces, AtTypes, UnlockAll, Goto, Aborters, segVars, queueVars,
     lifeVars
<1>25. CASE StartRollback
  BY <1>25, Distinct DEF ShutDown, ClosingPlaces, AtTypes, StartRollback, Goto, Aborters, segVars, stateVars,
     queueVars
<1>26. CASE CloseDocWriter
  BY <1>26, Distinct DEF ShutDown, ClosingPlaces, AtTypes, CloseDocWriter, Goto, Aborters, segVars,
     stateVars, queueVars
<1>27. CASE RollbackSegmentInfos
  BY <1>27, Distinct DEF ShutDown, ClosingPlaces, AtTypes, RollbackSegmentInfos, Goto, Aborters, stateVars,
     queueVars
<1>28. CASE \E a \in Aborters, t \in Threads : AbortThreadState(a, t)
  BY <1>28, Distinct DEF ShutDown, ClosingPlaces, AtTypes, AbortThreadState, Aborters, segVars, queueVars,
     lifeVars
<1>29. CASE \E a \in Aborters : WaitForFlush(a)
  BY <1>29, Distinct DEF ShutDown, ClosingPlaces, AtTypes, WaitForFlush, Goto, Aborters, segVars, stateVars,
     queueVars, lifeVars
<1>30. CASE \E a \in Aborters : AbortMerges(a)
  BY <1>30, Distinct DEF ShutDown, ClosingPlaces, AtTypes, AbortMerges, Goto, Aborters, segVars, stateVars,
     queueVars
<1>31. CASE \E s \in segmentInfos : StartApply(s)
  BY <1>31, Distinct DEF ShutDown, ClosingPlaces, AtTypes, StartApply, Aborters, stateVars, queueVars,
     lifeVars
<1>32. CASE \E s \in segmentInfos : WriteReaderPool(s)
  BY <1>32, Distinct DEF ShutDown, ClosingPlaces, AtTypes, WriteReaderPool, dropDeletedSegment, Aborters,
     stateVars, queueVars, lifeVars
<1>33. CASE \E s \in packets : FinishApply(s)
  BY <1>33, Distinct DEF ShutDown, ClosingPlaces, AtTypes, FinishApply, dropDeletedSegment, Aborters,
     stateVars, queueVars, lifeVars
<1>34. CASE \E S \in SUBSET segmentInfos : StartMerge(S)
  BY <1>34, Distinct DEF ShutDown, ClosingPlaces, AtTypes, StartMerge, Aborters, stateVars, queueVars,
     lifeVars
<1>35. CASE \E m \in merges : CommitMerge(m)
  BY <1>35, Distinct DEF ShutDown, ClosingPlaces, AtTypes, CommitMerge, Aborters, stateVars, queueVars,
     lifeVars
<1>36. CASE \E m \in merges : MergeFails(m)
  BY <1>36, Distinct DEF ShutDown, ClosingPlaces, AtTypes, MergeFails, Aborters, segVars, stateVars, queueVars
<1>37. CASE UNCHANGED vars
  BY <1>37, Distinct DEF ShutDown, ClosingPlaces, AtTypes, vars, segVars, stateVars, queueVars, lifeVars
<1> QED BY NextSteps, <1>1, <1>2, <1>3, <1>4, <1>5, <1>6, <1>7, <1>8, <1>9, <1>10, <1>11, <1>12, <1>13,
           <1>14, <1>15, <1>16, <1>17, <1>18, <1>19, <1>20, <1>21, <1>22, <1>23, <1>24, <1>25, <1>26, <1>27,
           <1>28, <1>29, <1>30, <1>31, <1>32, <1>33, <1>34, <1>35, <1>36, <1>37

LEMMA ShutWriters ==
  ASSUME DocTypes, AtTypes, LifeTypes, FlushesOwn, LocksHeld, ShutDown, NeverAllThree, Next
  PROVE  WritersShut'
<1>1. CASE \E t \in Threads : StartUpdate(t)
  BY <1>1, Distinct DEF ShutDown, WritersShut, MergesShut, Shut, Locked, DocTypes, LifeTypes, AtTypes,
     StartUpdate, Goto, Aborters, segVars, stateVars, queueVars, lifeVars
<1>2. CASE \E t \in Threads : ObtainAndLock(t)
  BY <1>2, Distinct DEF ShutDown, WritersShut, MergesShut, Shut, Locked, DocTypes, LifeTypes, AtTypes,
     ObtainAndLock, Goto, Aborters, segVars, queueVars, lifeVars
<1>3. CASE \E t \in Threads : ReserveOneDoc(t)
  BY <1>3, Distinct DEF ShutDown, WritersShut, MergesShut, Shut, Locked, DocTypes, LifeTypes, AtTypes,
     ReserveOneDoc, Goto, Aborters, segVars, stateVars, queueVars, lifeVars
<1>4. CASE \E t \in Threads : TakeBackOneDoc(t)
  BY <1>4, Distinct DEF ShutDown, WritersShut, MergesShut, Shut, Locked, DocTypes, LifeTypes, AtTypes,
     TakeBackOneDoc, Goto, Aborters, segVars, queueVars, lifeVars
<1>5. CASE \E t \in Threads : \E fails, flush \in BOOLEAN : Index(t, fails, flush)
  BY <1>5, Distinct DEF ShutDown, WritersShut, MergesShut, Shut, Locked, DocTypes, LifeTypes, AtTypes, Index,
     Goto, Aborters, queueVars, lifeVars
<1>6. CASE \E t \in Threads : AbortingException(t)
  BY <1>6, Distinct DEF ShutDown, WritersShut, MergesShut, Shut, Locked, DocTypes, LifeTypes, AtTypes,
     AbortingException, Goto, Aborters, segVars, queueVars
<1>7. CASE \E t \in Threads : AddFlushTicket(t)
  BY <1>7, Distinct DEF ShutDown, WritersShut, MergesShut, Shut, Locked, DocTypes, LifeTypes, AtTypes,
     AddFlushTicket, Goto, Aborters, segVars, stateVars, lifeVars
<1>8. CASE \E t \in Threads : AddSegment(t)
  BY <1>8, Distinct DEF ShutDown, WritersShut, MergesShut, Shut, Locked, DocTypes, LifeTypes, AtTypes,
     AddSegment, Goto, Aborters, segVars, stateVars, lifeVars
<1>9. CASE \E t \in Threads : FlushFails(t)
  BY <1>9, Distinct DEF ShutDown, WritersShut, MergesShut, Shut, Locked, DocTypes, LifeTypes, AtTypes,
     FlushFails, Goto, Aborters, segVars, stateVars
<1>10. CASE \E t \in Threads : DoAfterFlush(t)
  BY <1>10, Distinct DEF ShutDown, WritersShut, MergesShut, Shut, Locked, DocTypes, LifeTypes, AtTypes,
     DoAfterFlush, Goto, Aborters, segVars, stateVars, queueVars, lifeVars
<1>11. CASE \E t \in Threads : TryPurge(t)
  BY <1>11, Distinct DEF ShutDown, WritersShut, MergesShut, Shut, Locked, DocTypes, LifeTypes, AtTypes,
     TryPurge, Goto, Aborters, segVars, stateVars, lifeVars
<1>12. CASE \E t \in Threads : StartAddIndexes(t)
  BY <1>12, Distinct DEF ShutDown, WritersShut, MergesShut, Shut, Locked, DocTypes, LifeTypes, AtTypes,
     StartAddIndexes, Goto, Aborters, segVars, stateVars, queueVars, lifeVars
<1>13. CASE \E t \in Threads : InsertCopied(t)
  BY <1>13, Distinct DEF ShutDown, WritersShut, MergesShut, Shut, Locked, DocTypes, LifeTypes, AtTypes,
     InsertCopied, Goto, Aborters, stateVars, queueVars, lifeVars
<1>14. CASE \E t \in Threads : TakeBackDocs(t)
  BY <1>14, Distinct DEF ShutDown, WritersShut, MergesShut, Shut, Locked, DocTypes, LifeTypes, AtTypes,
     TakeBackDocs, Goto, Aborters, segVars, stateVars, queueVars, lifeVars
<1>15. CASE \E a \in Actors : ForcePurge(a)
  BY <1>15, Distinct DEF ShutDown, WritersShut, MergesShut, Shut, Locked, DocTypes, LifeTypes, AtTypes,
     ForcePurge, Goto, Aborters, segVars, stateVars, lifeVars
<1>16. CASE \E a \in Actors : PublishFlushedSegment(a)
  BY <1>16, Distinct DEF ShutDown, WritersShut, MergesShut, Shut, Locked, DocTypes, LifeTypes, AtTypes,
     PublishFlushedSegment, Aborters, stateVars, lifeVars
<1>17. CASE \E a \in Actors : EndPurge(a)
  BY <1>17, Distinct DEF ShutDown, WritersShut, MergesShut, Shut, Locked, DocTypes, LifeTypes, AtTypes,
     EndPurge, Goto, Aborters, segVars, stateVars, lifeVars
<1>18. CASE \E a \in Actors : ProcessEvents(a)
  <2>1. PICK a \in Actors : ProcessEvents(a)
    BY <1>18
  <2>2. a # Closer
    BY <2>1 DEF ProcessEvents, AtTypes, CloserPlaces
  <2>3. at'[Closer] = at[Closer] /\ \A t \in Threads : at'[t] = at[t] \/ at'[t] \in {"forcePurge", "idle"}
    BY <2>1, <2>2, Distinct DEF ProcessEvents, Goto, AtTypes
  <2> QED BY <2>1, <2>3 DEF ShutDown, WritersShut, Locked, ProcessEvents, segVars, stateVars, lifeVars
<1>19. CASE StartDeleteAll
  BY <1>19, Distinct DEF ShutDown, WritersShut, MergesShut, Shut, Locked, DocTypes, LifeTypes, AtTypes,
     StartDeleteAll, Goto, Aborters, segVars, stateVars, queueVars, lifeVars
<1>20. CASE DropTicket
  BY <1>20, Distinct DEF ShutDown, WritersShut, MergesShut, Shut, Locked, DocTypes, LifeTypes, AtTypes,
     DropTicket, Aborters, segVars, stateVars, lifeVars
<1>21. CASE CountThreadStates
  BY <1>21, Distinct DEF ShutDown, WritersShut, MergesShut, Shut, Locked, DocTypes, LifeTypes, AtTypes,
     CountThreadStates, Goto, Aborters, segVars, stateVars, queueVars, lifeVars
<1>22. CASE SetAbort
  BY <1>22, Distinct DEF ShutDown, WritersShut, MergesShut, Shut, Locked, DocTypes, LifeTypes, AtTypes,
     SetAbort, Goto, Aborters, segVars, queueVars, lifeVars
<1>23. CASE ClearIndex
  BY <1>23, Distinct DEF ShutDown, WritersShut, MergesShut, Shut, Locked, DocTypes, LifeTypes, AtTypes,
     ClearIndex, Goto, Aborters, stateVars, queueVars
<1>24. CASE UnlockAll
  BY <1>24, Distinct DEF ShutDown, WritersShut, MergesShut, Shut, Locked, DocTypes, LifeTypes, AtTypes,
     UnlockAll, Goto, Aborters, segVars, queueVars, lifeVars
<1>25. CASE StartRollback
  BY <1>25, Distinct DEF ShutDown, WritersShut, MergesShut, Shut, Locked, DocTypes, LifeTypes, AtTypes,
     StartRollback, Goto, Aborters, segVars, stateVars, queueVars
<1>26. CASE CloseDocWriter
  BY <1>26, Distinct DEF ShutDown, WritersShut, MergesShut, Shut, Locked, DocTypes, LifeTypes, AtTypes,
     CloseDocWriter, Goto, Aborters, segVars, stateVars, queueVars, LocksHeld
<1>27. CASE RollbackSegmentInfos
  BY <1>27, Distinct DEF ShutDown, WritersShut, MergesShut, Shut, Locked, DocTypes, LifeTypes, AtTypes,
     RollbackSegmentInfos, Goto, Aborters, stateVars, queueVars
<1>28. CASE \E a \in Aborters, t \in Threads : AbortThreadState(a, t)
  BY <1>28, Distinct DEF ShutDown, WritersShut, MergesShut, Shut, Locked, DocTypes, LifeTypes, AtTypes,
     AbortThreadState, Aborters, segVars, queueVars, lifeVars, LocksHeld
<1>29. CASE \E a \in Aborters : WaitForFlush(a)
  BY <1>29, Distinct DEF ShutDown, WritersShut, MergesShut, Shut, Locked, DocTypes, LifeTypes, AtTypes,
     WaitForFlush, Goto, Aborters, segVars, stateVars, queueVars, lifeVars
<1>30. CASE \E a \in Aborters : AbortMerges(a)
  BY <1>30, Distinct DEF ShutDown, WritersShut, MergesShut, Shut, Locked, DocTypes, LifeTypes, AtTypes,
     AbortMerges, Goto, Aborters, segVars, stateVars, queueVars
<1>31. CASE \E s \in segmentInfos : StartApply(s)
  BY <1>31, Distinct DEF ShutDown, WritersShut, MergesShut, Shut, Locked, DocTypes, LifeTypes, AtTypes,
     StartApply, Aborters, stateVars, queueVars, lifeVars
<1>32. CASE \E s \in segmentInfos : WriteReaderPool(s)
  BY <1>32, Distinct DEF ShutDown, WritersShut, MergesShut, Shut, Locked, DocTypes, LifeTypes, AtTypes,
     WriteReaderPool, dropDeletedSegment, Aborters, stateVars, queueVars, lifeVars
<1>33. CASE \E s \in packets : FinishApply(s)
  BY <1>33, Distinct DEF ShutDown, WritersShut, MergesShut, Shut, Locked, DocTypes, LifeTypes, AtTypes,
     FinishApply, dropDeletedSegment, Aborters, stateVars, queueVars, lifeVars
<1>34. CASE \E S \in SUBSET segmentInfos : StartMerge(S)
  BY <1>34, Distinct DEF ShutDown, WritersShut, MergesShut, Shut, Locked, DocTypes, LifeTypes, AtTypes,
     StartMerge, Aborters, stateVars, queueVars, lifeVars, Spend, Kinds
<1>35. CASE \E m \in merges : CommitMerge(m)
  BY <1>35, Distinct DEF ShutDown, WritersShut, MergesShut, Shut, Locked, DocTypes, LifeTypes, AtTypes,
     CommitMerge, Aborters, stateVars, queueVars, lifeVars
<1>36. CASE \E m \in merges : MergeFails(m)
  BY <1>36, Distinct DEF ShutDown, WritersShut, MergesShut, Shut, Locked, DocTypes, LifeTypes, AtTypes,
     MergeFails, Aborters, segVars, stateVars, queueVars
<1>37. CASE UNCHANGED vars
  BY <1>37, Distinct DEF ShutDown, WritersShut, MergesShut, Shut, Locked, DocTypes, LifeTypes, AtTypes, vars,
     segVars, stateVars, queueVars, lifeVars
<1> QED BY NextSteps, <1>1, <1>2, <1>3, <1>4, <1>5, <1>6, <1>7, <1>8, <1>9, <1>10, <1>11, <1>12, <1>13,
           <1>14, <1>15, <1>16, <1>17, <1>18, <1>19, <1>20, <1>21, <1>22, <1>23, <1>24, <1>25, <1>26, <1>27,
           <1>28, <1>29, <1>30, <1>31, <1>32, <1>33, <1>34, <1>35, <1>36, <1>37

LEMMA ShutFlushes ==
  ASSUME DocTypes, AtTypes, LifeTypes, FlushesOwn, LocksHeld, ShutDown, NeverAllThree, Next
  PROVE  FlushesShut'
<1>1. CASE \E t \in Threads : StartUpdate(t)
  BY <1>1, Distinct DEF ShutDown, WritersShut, FlushesShut, Shut, Locked, DocTypes, LifeTypes, AtTypes,
     StartUpdate, Goto, Aborters, segVars, stateVars, queueVars, lifeVars
<1>2. CASE \E t \in Threads : ObtainAndLock(t)
  BY <1>2, Distinct DEF ShutDown, WritersShut, FlushesShut, Shut, Locked, DocTypes, LifeTypes, AtTypes,
     ObtainAndLock, Goto, Aborters, segVars, queueVars, lifeVars
<1>3. CASE \E t \in Threads : ReserveOneDoc(t)
  BY <1>3, Distinct DEF ShutDown, WritersShut, FlushesShut, Shut, Locked, DocTypes, LifeTypes, AtTypes,
     ReserveOneDoc, Goto, Aborters, segVars, stateVars, queueVars, lifeVars
<1>4. CASE \E t \in Threads : TakeBackOneDoc(t)
  BY <1>4, Distinct DEF ShutDown, WritersShut, FlushesShut, Shut, Locked, DocTypes, LifeTypes, AtTypes,
     TakeBackOneDoc, Goto, Aborters, segVars, queueVars, lifeVars
<1>5. CASE \E t \in Threads : \E fails, flush \in BOOLEAN : Index(t, fails, flush)
  BY <1>5, Distinct DEF ShutDown, WritersShut, FlushesShut, Shut, Locked, DocTypes, LifeTypes, AtTypes,
     Index, Goto, Aborters, queueVars, lifeVars
<1>6. CASE \E t \in Threads : AbortingException(t)
  BY <1>6, Distinct DEF ShutDown, WritersShut, FlushesShut, Shut, Locked, DocTypes, LifeTypes, AtTypes,
     AbortingException, Goto, Aborters, segVars, queueVars
<1>7. CASE \E t \in Threads : AddFlushTicket(t)
  BY <1>7, Distinct DEF ShutDown, WritersShut, FlushesShut, Shut, Locked, DocTypes, LifeTypes, AtTypes,
     AddFlushTicket, Goto, Aborters, segVars, stateVars, lifeVars
<1>8. CASE \E t \in Threads : AddSegment(t)
  BY <1>8, Distinct DEF ShutDown, WritersShut, FlushesShut, Shut, Locked, DocTypes, LifeTypes, AtTypes,
     AddSegment, Goto, Aborters, segVars, stateVars, lifeVars
<1>9. CASE \E t \in Threads : FlushFails(t)
  BY <1>9, Distinct DEF ShutDown, WritersShut, FlushesShut, Shut, Locked, DocTypes, LifeTypes, AtTypes,
     FlushFails, Goto, Aborters, segVars, stateVars
<1>10. CASE \E t \in Threads : DoAfterFlush(t)
  BY <1>10, Distinct DEF ShutDown, WritersShut, FlushesShut, Shut, Locked, DocTypes, LifeTypes, AtTypes,
     DoAfterFlush, Goto, Aborters, segVars, stateVars, queueVars, lifeVars
<1>11. CASE \E t \in Threads : TryPurge(t)
  BY <1>11, Distinct DEF ShutDown, WritersShut, FlushesShut, Shut, Locked, DocTypes, LifeTypes, AtTypes,
     TryPurge, Goto, Aborters, segVars, stateVars, lifeVars
<1>12. CASE \E t \in Threads : StartAddIndexes(t)
  BY <1>12, Distinct DEF ShutDown, WritersShut, FlushesShut, Shut, Locked, DocTypes, LifeTypes, AtTypes,
     StartAddIndexes, Goto, Aborters, segVars, stateVars, queueVars, lifeVars
<1>13. CASE \E t \in Threads : InsertCopied(t)
  BY <1>13, Distinct DEF ShutDown, WritersShut, FlushesShut, Shut, Locked, DocTypes, LifeTypes, AtTypes,
     InsertCopied, Goto, Aborters, stateVars, queueVars, lifeVars
<1>14. CASE \E t \in Threads : TakeBackDocs(t)
  BY <1>14, Distinct DEF ShutDown, WritersShut, FlushesShut, Shut, Locked, DocTypes, LifeTypes, AtTypes,
     TakeBackDocs, Goto, Aborters, segVars, stateVars, queueVars, lifeVars
<1>15. CASE \E a \in Actors : ForcePurge(a)
  BY <1>15, Distinct DEF ShutDown, WritersShut, FlushesShut, Shut, Locked, DocTypes, LifeTypes, AtTypes,
     ForcePurge, Goto, Aborters, segVars, stateVars, lifeVars
<1>16. CASE \E a \in Actors : PublishFlushedSegment(a)
  BY <1>16, Distinct DEF ShutDown, WritersShut, FlushesShut, Shut, Locked, DocTypes, LifeTypes, AtTypes,
     PublishFlushedSegment, Aborters, stateVars, lifeVars
<1>17. CASE \E a \in Actors : EndPurge(a)
  BY <1>17, Distinct DEF ShutDown, WritersShut, FlushesShut, Shut, Locked, DocTypes, LifeTypes, AtTypes,
     EndPurge, Goto, Aborters, segVars, stateVars, lifeVars
<1>18. CASE \E a \in Actors : ProcessEvents(a)
  <2>1. PICK a \in Actors : ProcessEvents(a)
    BY <1>18
  <2>2. a # Closer
    BY <2>1 DEF ProcessEvents, AtTypes, CloserPlaces
  <2>3. at'[Closer] = at[Closer] /\ \A t \in Threads : at'[t] = at[t] \/ at'[t] \in {"forcePurge", "idle"}
    BY <2>1, <2>2, Distinct DEF ProcessEvents, Goto, AtTypes
  <2> QED BY <2>1, <2>3 DEF ShutDown, FlushesShut, ProcessEvents, segVars, stateVars, lifeVars
<1>19. CASE StartDeleteAll
  BY <1>19, Distinct DEF ShutDown, WritersShut, FlushesShut, Shut, Locked, DocTypes, LifeTypes, AtTypes,
     StartDeleteAll, Goto, Aborters, segVars, stateVars, queueVars, lifeVars
<1>20. CASE DropTicket
  BY <1>20, Distinct DEF ShutDown, WritersShut, FlushesShut, Shut, Locked, DocTypes, LifeTypes, AtTypes,
     DropTicket, Aborters, segVars, stateVars, lifeVars
<1>21. CASE CountThreadStates
  BY <1>21, Distinct DEF ShutDown, WritersShut, FlushesShut, Shut, Locked, DocTypes, LifeTypes, AtTypes,
     CountThreadStates, Goto, Aborters, segVars, stateVars, queueVars, lifeVars
<1>22. CASE SetAbort
  BY <1>22, Distinct DEF ShutDown, WritersShut, FlushesShut, Shut, Locked, DocTypes, LifeTypes, AtTypes,
     SetAbort, Goto, Aborters, segVars, queueVars, lifeVars
<1>23. CASE ClearIndex
  BY <1>23, Distinct DEF ShutDown, WritersShut, FlushesShut, Shut, Locked, DocTypes, LifeTypes, AtTypes,
     ClearIndex, Goto, Aborters, stateVars, queueVars
<1>24. CASE UnlockAll
  BY <1>24, Distinct DEF ShutDown, WritersShut, FlushesShut, Shut, Locked, DocTypes, LifeTypes, AtTypes,
     UnlockAll, Goto, Aborters, segVars, queueVars, lifeVars
<1>25. CASE StartRollback
  BY <1>25, Distinct DEF ShutDown, WritersShut, FlushesShut, Shut, Locked, DocTypes, LifeTypes, AtTypes,
     StartRollback, Goto, Aborters, segVars, stateVars, queueVars
<1>26. CASE CloseDocWriter
  BY <1>26, Distinct DEF ShutDown, WritersShut, FlushesShut, Shut, Locked, DocTypes, LifeTypes, AtTypes,
     CloseDocWriter, Goto, Aborters, segVars, stateVars, queueVars
<1>27. CASE RollbackSegmentInfos
  BY <1>27, Distinct DEF ShutDown, WritersShut, FlushesShut, Shut, Locked, DocTypes, LifeTypes, AtTypes,
     RollbackSegmentInfos, Goto, Aborters, stateVars, queueVars
<1>28. CASE \E a \in Aborters, t \in Threads : AbortThreadState(a, t)
  BY <1>28, Distinct DEF ShutDown, WritersShut, FlushesShut, Shut, Locked, DocTypes, LifeTypes, AtTypes,
     AbortThreadState, Aborters, segVars, queueVars, lifeVars
<1>29. CASE \E a \in Aborters : WaitForFlush(a)
  BY <1>29, Distinct DEF ShutDown, WritersShut, FlushesShut, Shut, Locked, DocTypes, LifeTypes, AtTypes,
     WaitForFlush, Goto, Aborters, segVars, stateVars, queueVars, lifeVars
<1>30. CASE \E a \in Aborters : AbortMerges(a)
  BY <1>30, Distinct DEF ShutDown, WritersShut, FlushesShut, Shut, Locked, DocTypes, LifeTypes, AtTypes,
     AbortMerges, Goto, Aborters, segVars, stateVars, queueVars
<1>31. CASE \E s \in segmentInfos : StartApply(s)
  BY <1>31, Distinct DEF ShutDown, WritersShut, FlushesShut, Shut, Locked, DocTypes, LifeTypes, AtTypes,
     StartApply, Aborters, stateVars, queueVars, lifeVars
<1>32. CASE \E s \in segmentInfos : WriteReaderPool(s)
  BY <1>32, Distinct DEF ShutDown, WritersShut, FlushesShut, Shut, Locked, DocTypes, LifeTypes, AtTypes,
     WriteReaderPool, dropDeletedSegment, Aborters, stateVars, queueVars, lifeVars
<1>33. CASE \E s \in packets : FinishApply(s)
  BY <1>33, Distinct DEF ShutDown, WritersShut, FlushesShut, Shut, Locked, DocTypes, LifeTypes, AtTypes,
     FinishApply, dropDeletedSegment, Aborters, stateVars, queueVars, lifeVars
<1>34. CASE \E S \in SUBSET segmentInfos : StartMerge(S)
  BY <1>34, Distinct DEF ShutDown, WritersShut, FlushesShut, Shut, Locked, DocTypes, LifeTypes, AtTypes,
     StartMerge, Aborters, stateVars, queueVars, lifeVars
<1>35. CASE \E m \in merges : CommitMerge(m)
  BY <1>35, Distinct DEF ShutDown, WritersShut, FlushesShut, Shut, Locked, DocTypes, LifeTypes, AtTypes,
     CommitMerge, Aborters, stateVars, queueVars, lifeVars
<1>36. CASE \E m \in merges : MergeFails(m)
  BY <1>36, Distinct DEF ShutDown, WritersShut, FlushesShut, Shut, Locked, DocTypes, LifeTypes, AtTypes,
     MergeFails, Aborters, segVars, stateVars, queueVars
<1>37. CASE UNCHANGED vars
  BY <1>37, Distinct DEF ShutDown, WritersShut, FlushesShut, Shut, Locked, DocTypes, LifeTypes, AtTypes,
     vars, segVars, stateVars, queueVars, lifeVars
<1> QED BY NextSteps, <1>1, <1>2, <1>3, <1>4, <1>5, <1>6, <1>7, <1>8, <1>9, <1>10, <1>11, <1>12, <1>13,
           <1>14, <1>15, <1>16, <1>17, <1>18, <1>19, <1>20, <1>21, <1>22, <1>23, <1>24, <1>25, <1>26, <1>27,
           <1>28, <1>29, <1>30, <1>31, <1>32, <1>33, <1>34, <1>35, <1>36, <1>37

LEMMA ShutQueue ==
  ASSUME DocTypes, AtTypes, LifeTypes, FlushesOwn, LocksHeld, ShutDown, NeverAllThree, Next
  PROVE  QueueShut'
<1>1. CASE \E t \in Threads : StartUpdate(t)
  BY <1>1, Distinct DEF ShutDown, QueueShut, FlushesShut, FlushesOwn, InFlush, Shut, AtTypes, StartUpdate,
     Goto, Aborters, segVars, stateVars, queueVars, lifeVars
<1>2. CASE \E t \in Threads : ObtainAndLock(t)
  BY <1>2, Distinct DEF ShutDown, QueueShut, FlushesShut, FlushesOwn, InFlush, Shut, AtTypes, ObtainAndLock,
     Goto, Aborters, segVars, queueVars, lifeVars
<1>3. CASE \E t \in Threads : ReserveOneDoc(t)
  BY <1>3, Distinct DEF ShutDown, QueueShut, FlushesShut, FlushesOwn, InFlush, Shut, AtTypes, ReserveOneDoc,
     Goto, Aborters, segVars, stateVars, queueVars, lifeVars
<1>4. CASE \E t \in Threads : TakeBackOneDoc(t)
  BY <1>4, Distinct DEF ShutDown, QueueShut, FlushesShut, FlushesOwn, InFlush, Shut, AtTypes, TakeBackOneDoc,
     Goto, Aborters, segVars, queueVars, lifeVars
<1>5. CASE \E t \in Threads : \E fails, flush \in BOOLEAN : Index(t, fails, flush)
  BY <1>5, Distinct DEF ShutDown, QueueShut, FlushesShut, FlushesOwn, InFlush, Shut, AtTypes, Index, Goto,
     Aborters, queueVars, lifeVars
<1>6. CASE \E t \in Threads : AbortingException(t)
  BY <1>6, Distinct DEF ShutDown, QueueShut, FlushesShut, FlushesOwn, InFlush, Shut, AtTypes,
     AbortingException, Goto, Aborters, segVars, queueVars
<1>7. CASE \E t \in Threads : AddFlushTicket(t)
  BY <1>7, Distinct DEF ShutDown, QueueShut, FlushesShut, FlushesOwn, InFlush, Shut, AtTypes, AddFlushTicket,
     Goto, Aborters, segVars, stateVars, lifeVars
<1>8. CASE \E t \in Threads : AddSegment(t)
  <2>1. PICK t \in Threads : AddSegment(t)
    BY <1>8
  <2>2. at[t] = "flush" /\ at'[Closer] = at[Closer]
    BY <2>1, Distinct DEF AddSegment, Goto, AtTypes
  <2>3. at[Closer] \notin Shut \ {"lock"}
    BY <2>2 DEF ShutDown, FlushesShut, FlushesOwn, InFlush
  <2> QED BY <2>2, <2>3 DEF QueueShut, Shut
<1>9. CASE \E t \in Threads : FlushFails(t)
  <2>1. PICK t \in Threads : FlushFails(t)
    BY <1>9
  <2>2. at[t] = "flush" /\ at'[Closer] = at[Closer]
    BY <2>1, Distinct DEF FlushFails, Goto, AtTypes
  <2>3. at[Closer] \notin Shut \ {"lock"}
    BY <2>2 DEF ShutDown, FlushesShut, FlushesOwn, InFlush
  <2> QED BY <2>2, <2>3 DEF QueueShut, Shut
<1>10. CASE \E t \in Threads : DoAfterFlush(t)
  BY <1>10, Distinct DEF ShutDown, QueueShut, FlushesShut, FlushesOwn, InFlush, Shut, AtTypes, DoAfterFlush,
     Goto, Aborters, segVars, stateVars, queueVars, lifeVars
<1>11. CASE \E t \in Threads : TryPurge(t)
  BY <1>11, Distinct DEF ShutDown, QueueShut, FlushesShut, FlushesOwn, InFlush, Shut, AtTypes, TryPurge,
     Goto, Aborters, segVars, stateVars, lifeVars
<1>12. CASE \E t \in Threads : StartAddIndexes(t)
  BY <1>12, Distinct DEF ShutDown, QueueShut, FlushesShut, FlushesOwn, InFlush, Shut, AtTypes,
     StartAddIndexes, Goto, Aborters, segVars, stateVars, queueVars, lifeVars
<1>13. CASE \E t \in Threads : InsertCopied(t)
  BY <1>13, Distinct DEF ShutDown, QueueShut, FlushesShut, FlushesOwn, InFlush, Shut, AtTypes, InsertCopied,
     Goto, Aborters, stateVars, queueVars, lifeVars
<1>14. CASE \E t \in Threads : TakeBackDocs(t)
  BY <1>14, Distinct DEF ShutDown, QueueShut, FlushesShut, FlushesOwn, InFlush, Shut, AtTypes, TakeBackDocs,
     Goto, Aborters, segVars, stateVars, queueVars, lifeVars
<1>15. CASE \E a \in Actors : ForcePurge(a)
  BY <1>15, Distinct DEF ShutDown, QueueShut, FlushesShut, FlushesOwn, InFlush, Shut, AtTypes, ForcePurge,
     Goto, Aborters, segVars, stateVars, lifeVars
<1>16. CASE \E a \in Actors : PublishFlushedSegment(a)
  BY <1>16, Distinct DEF ShutDown, QueueShut, FlushesShut, FlushesOwn, InFlush, Shut, AtTypes,
     PublishFlushedSegment, Aborters, stateVars, lifeVars, CanPublish
<1>17. CASE \E a \in Actors : EndPurge(a)
  <2>1. PICK a \in Actors : EndPurge(a)
    BY <1>17
  <2>2. tickets' = tickets /\ ~CanPublish
    BY <2>1 DEF EndPurge
  <2>3. CASE at'[Closer] = at[Closer]
    BY <2>2, <2>3 DEF ShutDown, QueueShut
  <2>4. CASE at'[Closer] # at[Closer]
    <3>1. a = Closer /\ at[Closer] \in Shut \ {"lock"}
      BY <2>1, <2>4, Distinct DEF EndPurge, Goto, AtTypes, CloserPlaces, Shut
    <3>2. \A t \in Threads : at[t] # "flush"
      BY <3>1 DEF ShutDown, FlushesShut, FlushesOwn, InFlush
    <3>3. ASSUME tickets # <<>> PROVE FALSE
      <4>1. 1 \in DOMAIN tickets /\ tickets[1].phase = "flush"
        BY <2>2, <3>3, TailIs DEF CanPublish, DocTypes
      <4> QED BY <3>2, <4>1 DEF FlushesOwn
    <3> QED BY <2>2, <3>3 DEF QueueShut
  <2> QED BY <2>3, <2>4
<1>18. CASE \E a \in Actors : ProcessEvents(a)
  BY <1>18, Distinct DEF ShutDown, QueueShut, FlushesShut, FlushesOwn, InFlush, Shut, AtTypes, ProcessEvents,
     Goto, Aborters, segVars, stateVars, lifeVars
<1>19. CASE StartDeleteAll
  BY <1>19, Distinct DEF ShutDown, QueueShut, FlushesShut, FlushesOwn, InFlush, Shut, AtTypes,
     StartDeleteAll, Goto, Aborters, segVars, stateVars, queueVars, lifeVars
<1>20. CASE DropTicket
  BY <1>20, Distinct DEF ShutDown, QueueShut, FlushesShut, FlushesOwn, InFlush, Shut, AtTypes, DropTicket,
     Aborters, segVars, stateVars, lifeVars, CanPublish
<1>21. CASE CountThreadStates
  BY <1>21, Distinct DEF ShutDown, QueueShut, FlushesShut, FlushesOwn, InFlush, Shut, AtTypes,
     CountThreadStates, Goto, Aborters, segVars, stateVars, queueVars, lifeVars
<1>22. CASE SetAbort
  BY <1>22, Distinct DEF ShutDown, QueueShut, FlushesShut, FlushesOwn, InFlush, Shut, AtTypes, SetAbort,
     Goto, Aborters, segVars, queueVars, lifeVars
<1>23. CASE ClearIndex
  BY <1>23, Distinct DEF ShutDown, QueueShut, FlushesShut, FlushesOwn, InFlush, Shut, AtTypes, ClearIndex,
     Goto, Aborters, stateVars, queueVars
<1>24. CASE UnlockAll
  BY <1>24, Distinct DEF ShutDown, QueueShut, FlushesShut, FlushesOwn, InFlush, Shut, AtTypes, UnlockAll,
     Goto, Aborters, segVars, queueVars, lifeVars
<1>25. CASE StartRollback
  BY <1>25, Distinct DEF ShutDown, QueueShut, FlushesShut, FlushesOwn, InFlush, Shut, AtTypes, StartRollback,
     Goto, Aborters, segVars, stateVars, queueVars
<1>26. CASE CloseDocWriter
  BY <1>26, Distinct DEF ShutDown, QueueShut, FlushesShut, FlushesOwn, InFlush, Shut, AtTypes,
     CloseDocWriter, Goto, Aborters, segVars, stateVars, queueVars
<1>27. CASE RollbackSegmentInfos
  BY <1>27, Distinct DEF ShutDown, QueueShut, FlushesShut, FlushesOwn, InFlush, Shut, AtTypes,
     RollbackSegmentInfos, Goto, Aborters, stateVars, queueVars
<1>28. CASE \E a \in Aborters, t \in Threads : AbortThreadState(a, t)
  BY <1>28, Distinct DEF ShutDown, QueueShut, FlushesShut, FlushesOwn, InFlush, Shut, AtTypes,
     AbortThreadState, Aborters, segVars, queueVars, lifeVars
<1>29. CASE \E a \in Aborters : WaitForFlush(a)
  BY <1>29, Distinct DEF ShutDown, QueueShut, FlushesShut, FlushesOwn, InFlush, Shut, AtTypes, WaitForFlush,
     Goto, Aborters, segVars, stateVars, queueVars, lifeVars
<1>30. CASE \E a \in Aborters : AbortMerges(a)
  BY <1>30, Distinct DEF ShutDown, QueueShut, FlushesShut, FlushesOwn, InFlush, Shut, AtTypes, AbortMerges,
     Goto, Aborters, segVars, stateVars, queueVars
<1>31. CASE \E s \in segmentInfos : StartApply(s)
  BY <1>31, Distinct DEF ShutDown, QueueShut, FlushesShut, FlushesOwn, InFlush, Shut, AtTypes, StartApply,
     Aborters, stateVars, queueVars, lifeVars
<1>32. CASE \E s \in segmentInfos : WriteReaderPool(s)
  BY <1>32, Distinct DEF ShutDown, QueueShut, FlushesShut, FlushesOwn, InFlush, Shut, AtTypes,
     WriteReaderPool, dropDeletedSegment, Aborters, stateVars, queueVars, lifeVars
<1>33. CASE \E s \in packets : FinishApply(s)
  BY <1>33, Distinct DEF ShutDown, QueueShut, FlushesShut, FlushesOwn, InFlush, Shut, AtTypes, FinishApply,
     dropDeletedSegment, Aborters, stateVars, queueVars, lifeVars
<1>34. CASE \E S \in SUBSET segmentInfos : StartMerge(S)
  BY <1>34, Distinct DEF ShutDown, QueueShut, FlushesShut, FlushesOwn, InFlush, Shut, AtTypes, StartMerge,
     Aborters, stateVars, queueVars, lifeVars
<1>35. CASE \E m \in merges : CommitMerge(m)
  BY <1>35, Distinct DEF ShutDown, QueueShut, FlushesShut, FlushesOwn, InFlush, Shut, AtTypes, CommitMerge,
     Aborters, stateVars, queueVars, lifeVars
<1>36. CASE \E m \in merges : MergeFails(m)
  BY <1>36, Distinct DEF ShutDown, QueueShut, FlushesShut, FlushesOwn, InFlush, Shut, AtTypes, MergeFails,
     Aborters, segVars, stateVars, queueVars
<1>37. CASE UNCHANGED vars
  BY <1>37, Distinct DEF ShutDown, QueueShut, FlushesShut, FlushesOwn, InFlush, Shut, AtTypes, vars, segVars,
     stateVars, queueVars, lifeVars
<1> QED BY NextSteps, <1>1, <1>2, <1>3, <1>4, <1>5, <1>6, <1>7, <1>8, <1>9, <1>10, <1>11, <1>12, <1>13,
           <1>14, <1>15, <1>16, <1>17, <1>18, <1>19, <1>20, <1>21, <1>22, <1>23, <1>24, <1>25, <1>26, <1>27,
           <1>28, <1>29, <1>30, <1>31, <1>32, <1>33, <1>34, <1>35, <1>36, <1>37

LEMMA ShutAdds ==
  ASSUME DocTypes, AtTypes, LifeTypes, FlushesOwn, LocksHeld, ShutDown, NeverAllThree, Next
  PROVE  AddsShut'
<1>1. CASE \E t \in Threads : StartUpdate(t)
  BY <1>1, Distinct DEF ShutDown, AddsShut, ClosingPlaces, WriterFree, AtTypes, StartUpdate, Goto, Aborters,
     segVars, stateVars, queueVars, lifeVars
<1>2. CASE \E t \in Threads : ObtainAndLock(t)
  BY <1>2, Distinct DEF ShutDown, AddsShut, ClosingPlaces, WriterFree, AtTypes, ObtainAndLock, Goto,
     Aborters, segVars, queueVars, lifeVars
<1>3. CASE \E t \in Threads : ReserveOneDoc(t)
  BY <1>3, Distinct DEF ShutDown, AddsShut, ClosingPlaces, WriterFree, AtTypes, ReserveOneDoc, Goto,
     Aborters, segVars, stateVars, queueVars, lifeVars
<1>4. CASE \E t \in Threads : TakeBackOneDoc(t)
  BY <1>4, Distinct DEF ShutDown, AddsShut, ClosingPlaces, WriterFree, AtTypes, TakeBackOneDoc, Goto,
     Aborters, segVars, queueVars, lifeVars
<1>5. CASE \E t \in Threads : \E fails, flush \in BOOLEAN : Index(t, fails, flush)
  BY <1>5, Distinct DEF ShutDown, AddsShut, ClosingPlaces, WriterFree, AtTypes, Index, Goto, Aborters,
     queueVars, lifeVars
<1>6. CASE \E t \in Threads : AbortingException(t)
  BY <1>6, Distinct DEF ShutDown, AddsShut, ClosingPlaces, WriterFree, AtTypes, AbortingException, Goto,
     Aborters, segVars, queueVars
<1>7. CASE \E t \in Threads : AddFlushTicket(t)
  BY <1>7, Distinct DEF ShutDown, AddsShut, ClosingPlaces, WriterFree, AtTypes, AddFlushTicket, Goto,
     Aborters, segVars, stateVars, lifeVars
<1>8. CASE \E t \in Threads : AddSegment(t)
  BY <1>8, Distinct DEF ShutDown, AddsShut, ClosingPlaces, WriterFree, AtTypes, AddSegment, Goto, Aborters,
     segVars, stateVars, lifeVars
<1>9. CASE \E t \in Threads : FlushFails(t)
  BY <1>9, Distinct DEF ShutDown, AddsShut, ClosingPlaces, WriterFree, AtTypes, FlushFails, Goto, Aborters,
     segVars, stateVars
<1>10. CASE \E t \in Threads : DoAfterFlush(t)
  BY <1>10, Distinct DEF ShutDown, AddsShut, ClosingPlaces, WriterFree, AtTypes, DoAfterFlush, Goto,
     Aborters, segVars, stateVars, queueVars, lifeVars
<1>11. CASE \E t \in Threads : TryPurge(t)
  BY <1>11, Distinct DEF ShutDown, AddsShut, ClosingPlaces, WriterFree, AtTypes, TryPurge, Goto, Aborters,
     segVars, stateVars, lifeVars
<1>12. CASE \E t \in Threads : StartAddIndexes(t)
  BY <1>12, Distinct DEF ShutDown, AddsShut, ClosingPlaces, WriterFree, AtTypes, StartAddIndexes, Goto,
     Aborters, segVars, stateVars, queueVars, lifeVars
<1>13. CASE \E t \in Threads : InsertCopied(t)
  BY <1>13, Distinct DEF ShutDown, AddsShut, ClosingPlaces, WriterFree, AtTypes, InsertCopied, Goto,
     Aborters, stateVars, queueVars, lifeVars
<1>14. CASE \E t \in Threads : TakeBackDocs(t)
  BY <1>14, Distinct DEF ShutDown, AddsShut, ClosingPlaces, WriterFree, AtTypes, TakeBackDocs, Goto,
     Aborters, segVars, stateVars, queueVars, lifeVars
<1>15. CASE \E a \in Actors : ForcePurge(a)
  BY <1>15, Distinct DEF ShutDown, AddsShut, ClosingPlaces, WriterFree, AtTypes, ForcePurge, Goto, Aborters,
     segVars, stateVars, lifeVars
<1>16. CASE \E a \in Actors : PublishFlushedSegment(a)
  BY <1>16, Distinct DEF ShutDown, AddsShut, ClosingPlaces, WriterFree, AtTypes, PublishFlushedSegment,
     Aborters, stateVars, lifeVars
<1>17. CASE \E a \in Actors : EndPurge(a)
  BY <1>17, Distinct DEF ShutDown, AddsShut, ClosingPlaces, WriterFree, AtTypes, EndPurge, Goto, Aborters,
     segVars, stateVars, lifeVars
<1>18. CASE \E a \in Actors : ProcessEvents(a)
  BY <1>18, Distinct DEF ShutDown, AddsShut, ClosingPlaces, WriterFree, AtTypes, ProcessEvents, Goto,
     Aborters, segVars, stateVars, lifeVars
<1>19. CASE StartDeleteAll
  BY <1>19, Distinct DEF ShutDown, AddsShut, ClosingPlaces, WriterFree, AtTypes, StartDeleteAll, Goto,
     Aborters, segVars, stateVars, queueVars, lifeVars
<1>20. CASE DropTicket
  BY <1>20, Distinct DEF ShutDown, AddsShut, ClosingPlaces, WriterFree, AtTypes, DropTicket, Aborters,
     segVars, stateVars, lifeVars
<1>21. CASE CountThreadStates
  BY <1>21, Distinct DEF ShutDown, AddsShut, ClosingPlaces, WriterFree, AtTypes, CountThreadStates, Goto,
     Aborters, segVars, stateVars, queueVars, lifeVars
<1>22. CASE SetAbort
  BY <1>22, Distinct DEF ShutDown, AddsShut, ClosingPlaces, WriterFree, AtTypes, SetAbort, Goto, Aborters,
     segVars, queueVars, lifeVars
<1>23. CASE ClearIndex
  BY <1>23, Distinct DEF ShutDown, AddsShut, ClosingPlaces, WriterFree, AtTypes, ClearIndex, Goto, Aborters,
     stateVars, queueVars
<1>24. CASE UnlockAll
  BY <1>24, Distinct DEF ShutDown, AddsShut, ClosingPlaces, WriterFree, AtTypes, UnlockAll, Goto, Aborters,
     segVars, queueVars, lifeVars
<1>25. CASE StartRollback
  BY <1>25, Distinct DEF ShutDown, AddsShut, ClosingPlaces, WriterFree, AtTypes, StartRollback, Goto,
     Aborters, segVars, stateVars, queueVars
<1>26. CASE CloseDocWriter
  BY <1>26, Distinct DEF ShutDown, AddsShut, ClosingPlaces, WriterFree, AtTypes, CloseDocWriter, Goto,
     Aborters, segVars, stateVars, queueVars
<1>27. CASE RollbackSegmentInfos
  BY <1>27, Distinct DEF ShutDown, AddsShut, ClosingPlaces, WriterFree, AtTypes, RollbackSegmentInfos, Goto,
     Aborters, stateVars, queueVars
<1>28. CASE \E a \in Aborters, t \in Threads : AbortThreadState(a, t)
  BY <1>28, Distinct DEF ShutDown, AddsShut, ClosingPlaces, WriterFree, AtTypes, AbortThreadState, Aborters,
     segVars, queueVars, lifeVars
<1>29. CASE \E a \in Aborters : WaitForFlush(a)
  BY <1>29, Distinct DEF ShutDown, AddsShut, ClosingPlaces, WriterFree, AtTypes, WaitForFlush, Goto,
     Aborters, segVars, stateVars, queueVars, lifeVars
<1>30. CASE \E a \in Aborters : AbortMerges(a)
  BY <1>30, Distinct DEF ShutDown, AddsShut, ClosingPlaces, WriterFree, AtTypes, AbortMerges, Goto, Aborters,
     segVars, stateVars, queueVars
<1>31. CASE \E s \in segmentInfos : StartApply(s)
  BY <1>31, Distinct DEF ShutDown, AddsShut, ClosingPlaces, WriterFree, AtTypes, StartApply, Aborters,
     stateVars, queueVars, lifeVars
<1>32. CASE \E s \in segmentInfos : WriteReaderPool(s)
  BY <1>32, Distinct DEF ShutDown, AddsShut, ClosingPlaces, WriterFree, AtTypes, WriteReaderPool,
     dropDeletedSegment, Aborters, stateVars, queueVars, lifeVars
<1>33. CASE \E s \in packets : FinishApply(s)
  BY <1>33, Distinct DEF ShutDown, AddsShut, ClosingPlaces, WriterFree, AtTypes, FinishApply,
     dropDeletedSegment, Aborters, stateVars, queueVars, lifeVars
<1>34. CASE \E S \in SUBSET segmentInfos : StartMerge(S)
  BY <1>34, Distinct DEF ShutDown, AddsShut, ClosingPlaces, WriterFree, AtTypes, StartMerge, Aborters,
     stateVars, queueVars, lifeVars
<1>35. CASE \E m \in merges : CommitMerge(m)
  BY <1>35, Distinct DEF ShutDown, AddsShut, ClosingPlaces, WriterFree, AtTypes, CommitMerge, Aborters,
     stateVars, queueVars, lifeVars
<1>36. CASE \E m \in merges : MergeFails(m)
  BY <1>36, Distinct DEF ShutDown, AddsShut, ClosingPlaces, WriterFree, AtTypes, MergeFails, Aborters,
     segVars, stateVars, queueVars
<1>37. CASE UNCHANGED vars
  BY <1>37, Distinct DEF ShutDown, AddsShut, ClosingPlaces, WriterFree, AtTypes, vars, segVars, stateVars,
     queueVars, lifeVars
<1> QED BY NextSteps, <1>1, <1>2, <1>3, <1>4, <1>5, <1>6, <1>7, <1>8, <1>9, <1>10, <1>11, <1>12, <1>13,
           <1>14, <1>15, <1>16, <1>17, <1>18, <1>19, <1>20, <1>21, <1>22, <1>23, <1>24, <1>25, <1>26, <1>27,
           <1>28, <1>29, <1>30, <1>31, <1>32, <1>33, <1>34, <1>35, <1>36, <1>37

LEMMA ShutMerges ==
  ASSUME DocTypes, AtTypes, LifeTypes, FlushesOwn, LocksHeld, ShutDown, NeverAllThree, Next
  PROVE  MergesShut'
<1>1. CASE \E t \in Threads : StartUpdate(t)
  BY <1>1, Distinct DEF ShutDown, MergesShut, Shut, LifeTypes, Spend, Kinds, AtTypes, StartUpdate, Goto,
     Aborters, segVars, stateVars, queueVars, lifeVars
<1>2. CASE \E t \in Threads : ObtainAndLock(t)
  BY <1>2, Distinct DEF ShutDown, MergesShut, Shut, LifeTypes, Kinds, AtTypes, ObtainAndLock, Goto, Aborters,
     segVars, queueVars, lifeVars
<1>3. CASE \E t \in Threads : ReserveOneDoc(t)
  BY <1>3, Distinct DEF ShutDown, MergesShut, Shut, LifeTypes, Kinds, AtTypes, ReserveOneDoc, Goto, Aborters,
     segVars, stateVars, queueVars, lifeVars
<1>4. CASE \E t \in Threads : TakeBackOneDoc(t)
  BY <1>4, Distinct DEF ShutDown, MergesShut, Shut, LifeTypes, Kinds, AtTypes, TakeBackOneDoc, Goto,
     Aborters, segVars, queueVars, lifeVars
<1>5. CASE \E t \in Threads : \E fails, flush \in BOOLEAN : Index(t, fails, flush)
  BY <1>5, Distinct DEF ShutDown, MergesShut, Shut, LifeTypes, Spend, Kinds, AtTypes, Index, Goto, Aborters,
     queueVars, lifeVars
<1>6. CASE \E t \in Threads : AbortingException(t)
  BY <1>6, Distinct DEF ShutDown, MergesShut, Shut, LifeTypes, Spend, Kinds, AtTypes, AbortingException,
     Goto, Aborters, segVars, queueVars
<1>7. CASE \E t \in Threads : AddFlushTicket(t)
  BY <1>7, Distinct DEF ShutDown, MergesShut, Shut, LifeTypes, Kinds, AtTypes, AddFlushTicket, Goto,
     Aborters, segVars, stateVars, lifeVars
<1>8. CASE \E t \in Threads : AddSegment(t)
  BY <1>8, Distinct DEF ShutDown, MergesShut, Shut, LifeTypes, Kinds, AtTypes, AddSegment, Goto, Aborters,
     segVars, stateVars, lifeVars
<1>9. CASE \E t \in Threads : FlushFails(t)
  BY <1>9, Distinct DEF ShutDown, MergesShut, Shut, LifeTypes, Spend, Kinds, AtTypes, FlushFails, Goto,
     Aborters, segVars, stateVars
<1>10. CASE \E t \in Threads : DoAfterFlush(t)
  BY <1>10, Distinct DEF ShutDown, MergesShut, Shut, LifeTypes, Kinds, AtTypes, DoAfterFlush, Goto, Aborters,
     segVars, stateVars, queueVars, lifeVars
<1>11. CASE \E t \in Threads : TryPurge(t)
  BY <1>11, Distinct DEF ShutDown, MergesShut, Shut, LifeTypes, Kinds, AtTypes, TryPurge, Goto, Aborters,
     segVars, stateVars, lifeVars
<1>12. CASE \E t \in Threads : StartAddIndexes(t)
  BY <1>12, Distinct DEF ShutDown, MergesShut, Shut, LifeTypes, Spend, Kinds, AtTypes, StartAddIndexes, Goto,
     Aborters, segVars, stateVars, queueVars, lifeVars
<1>13. CASE \E t \in Threads : InsertCopied(t)
  BY <1>13, Distinct DEF ShutDown, MergesShut, Shut, LifeTypes, Kinds, AtTypes, InsertCopied, Goto, Aborters,
     stateVars, queueVars, lifeVars
<1>14. CASE \E t \in Threads : TakeBackDocs(t)
  BY <1>14, Distinct DEF ShutDown, MergesShut, Shut, LifeTypes, Kinds, AtTypes, TakeBackDocs, Goto, Aborters,
     segVars, stateVars, queueVars, lifeVars
<1>15. CASE \E a \in Actors : ForcePurge(a)
  BY <1>15, Distinct DEF ShutDown, MergesShut, Shut, LifeTypes, Kinds, AtTypes, ForcePurge, Goto, Aborters,
     segVars, stateVars, lifeVars
<1>16. CASE \E a \in Actors : PublishFlushedSegment(a)
  BY <1>16, Distinct DEF ShutDown, MergesShut, Shut, LifeTypes, Kinds, AtTypes, PublishFlushedSegment,
     Aborters, stateVars, lifeVars
<1>17. CASE \E a \in Actors : EndPurge(a)
  BY <1>17, Distinct DEF ShutDown, MergesShut, Shut, LifeTypes, Kinds, AtTypes, EndPurge, Goto, Aborters,
     segVars, stateVars, lifeVars
<1>18. CASE \E a \in Actors : ProcessEvents(a)
  <2>1. PICK a \in Actors : ProcessEvents(a)
    BY <1>18
  <2>2. a # Closer
    BY <2>1 DEF ProcessEvents, AtTypes, CloserPlaces
  <2>3. at'[Closer] = at[Closer] /\ \A t \in Threads : at'[t] = at[t] \/ at'[t] \in {"forcePurge", "idle"}
    BY <2>1, <2>2, Distinct DEF ProcessEvents, Goto, AtTypes
  <2> QED BY <2>1, <2>3 DEF ShutDown, MergesShut, ProcessEvents, segVars, stateVars, lifeVars
<1>19. CASE StartDeleteAll
  BY <1>19, Distinct DEF ShutDown, MergesShut, Shut, LifeTypes, Spend, Kinds, AtTypes, StartDeleteAll, Goto,
     Aborters, segVars, stateVars, queueVars, lifeVars
<1>20. CASE DropTicket
  BY <1>20, Distinct DEF ShutDown, MergesShut, Shut, LifeTypes, Kinds, AtTypes, DropTicket, Aborters,
     segVars, stateVars, lifeVars
<1>21. CASE CountThreadStates
  BY <1>21, Distinct DEF ShutDown, MergesShut, Shut, LifeTypes, Kinds, AtTypes, CountThreadStates, Goto,
     Aborters, segVars, stateVars, queueVars, lifeVars
<1>22. CASE SetAbort
  BY <1>22, Distinct DEF ShutDown, MergesShut, Shut, LifeTypes, Kinds, AtTypes, SetAbort, Goto, Aborters,
     segVars, queueVars, lifeVars
<1>23. CASE ClearIndex
  BY <1>23, Distinct DEF ShutDown, MergesShut, Shut, LifeTypes, Kinds, AtTypes, ClearIndex, Goto, Aborters,
     stateVars, queueVars, NeverAllThree
<1>24. CASE UnlockAll
  BY <1>24, Distinct DEF ShutDown, MergesShut, Shut, LifeTypes, Kinds, AtTypes, UnlockAll, Goto, Aborters,
     segVars, queueVars, lifeVars
<1>25. CASE StartRollback
  BY <1>25, Distinct DEF ShutDown, MergesShut, Shut, LifeTypes, Kinds, AtTypes, StartRollback, Goto,
     Aborters, segVars, stateVars, queueVars
<1>26. CASE CloseDocWriter
  BY <1>26, Distinct DEF ShutDown, MergesShut, Shut, LifeTypes, Kinds, AtTypes, CloseDocWriter, Goto,
     Aborters, segVars, stateVars, queueVars
<1>27. CASE RollbackSegmentInfos
  BY <1>27, Distinct DEF ShutDown, MergesShut, Shut, LifeTypes, Kinds, AtTypes, RollbackSegmentInfos, Goto,
     Aborters, stateVars, queueVars
<1>28. CASE \E a \in Aborters, t \in Threads : AbortThreadState(a, t)
  BY <1>28, Distinct DEF ShutDown, MergesShut, Shut, LifeTypes, Kinds, AtTypes, AbortThreadState, Aborters,
     segVars, queueVars, lifeVars
<1>29. CASE \E a \in Aborters : WaitForFlush(a)
  BY <1>29, Distinct DEF ShutDown, MergesShut, Shut, LifeTypes, Kinds, AtTypes, WaitForFlush, Goto, Aborters,
     segVars, stateVars, queueVars, lifeVars
<1>30. CASE \E a \in Aborters : AbortMerges(a)
  BY <1>30, Distinct DEF ShutDown, MergesShut, Shut, LifeTypes, Kinds, AtTypes, AbortMerges, Goto, Aborters,
     segVars, stateVars, queueVars
<1>31. CASE \E s \in segmentInfos : StartApply(s)
  BY <1>31, Distinct DEF ShutDown, MergesShut, Shut, LifeTypes, Spend, Kinds, AtTypes, StartApply, Aborters,
     stateVars, queueVars, lifeVars
<1>32. CASE \E s \in segmentInfos : WriteReaderPool(s)
  BY <1>32, Distinct DEF ShutDown, MergesShut, Shut, LifeTypes, Spend, Kinds, AtTypes, WriteReaderPool,
     dropDeletedSegment, Aborters, stateVars, queueVars, lifeVars
<1>33. CASE \E s \in packets : FinishApply(s)
  BY <1>33, Distinct DEF ShutDown, MergesShut, Shut, LifeTypes, Kinds, AtTypes, FinishApply,
     dropDeletedSegment, Aborters, stateVars, queueVars, lifeVars
<1>34. CASE \E S \in SUBSET segmentInfos : StartMerge(S)
  BY <1>34, Distinct DEF ShutDown, MergesShut, Shut, LifeTypes, Spend, Kinds, AtTypes, StartMerge, Aborters,
     stateVars, queueVars, lifeVars
<1>35. CASE \E m \in merges : CommitMerge(m)
  BY <1>35, Distinct DEF ShutDown, MergesShut, Shut, LifeTypes, Kinds, AtTypes, CommitMerge, Aborters,
     stateVars, queueVars, lifeVars
<1>36. CASE \E m \in merges : MergeFails(m)
  BY <1>36, Distinct DEF ShutDown, MergesShut, Shut, LifeTypes, Spend, Kinds, AtTypes, MergeFails, Aborters,
     segVars, stateVars, queueVars
<1>37. CASE UNCHANGED vars
  BY <1>37, Distinct DEF ShutDown, MergesShut, Shut, LifeTypes, AtTypes, vars, segVars, stateVars, queueVars,
     lifeVars
<1> QED BY NextSteps, <1>1, <1>2, <1>3, <1>4, <1>5, <1>6, <1>7, <1>8, <1>9, <1>10, <1>11, <1>12, <1>13,
           <1>14, <1>15, <1>16, <1>17, <1>18, <1>19, <1>20, <1>21, <1>22, <1>23, <1>24, <1>25, <1>26, <1>27,
           <1>28, <1>29, <1>30, <1>31, <1>32, <1>33, <1>34, <1>35, <1>36, <1>37

LEMMA ShutDownStep ==
  ASSUME DocTypes, AtTypes, LifeTypes, FlushesOwn, LocksHeld, ShutDown, NeverAllThree, Next
  PROVE  ShutDown'
BY ShutClosing, ShutWriters, ShutFlushes, ShutQueue, ShutAdds, ShutMerges DEF ShutDown

LEMMA NeverAllThreeStep ==
  ASSUME AtTypes, LifeTypes, NeverAllThree, Next
  PROVE  NeverAllThree'
<1>1. CASE \E t \in Threads : StartUpdate(t)
  BY <1>1, Distinct DEF NeverAllThree, LifeTypes, Spend, Kinds, AtTypes, StartUpdate, Goto, Aborters,
     segVars, stateVars, queueVars, lifeVars
<1>2. CASE \E t \in Threads : ObtainAndLock(t)
  BY <1>2, Distinct DEF NeverAllThree, LifeTypes, Kinds, AtTypes, ObtainAndLock, Goto, Aborters, segVars,
     queueVars, lifeVars
<1>3. CASE \E t \in Threads : ReserveOneDoc(t)
  BY <1>3, Distinct DEF NeverAllThree, LifeTypes, Kinds, AtTypes, ReserveOneDoc, Goto, Aborters, segVars,
     stateVars, queueVars, lifeVars
<1>4. CASE \E t \in Threads : TakeBackOneDoc(t)
  BY <1>4, Distinct DEF NeverAllThree, LifeTypes, Kinds, AtTypes, TakeBackOneDoc, Goto, Aborters, segVars,
     queueVars, lifeVars
<1>5. CASE \E t \in Threads : \E fails, flush \in BOOLEAN : Index(t, fails, flush)
  BY <1>5, Distinct DEF NeverAllThree, LifeTypes, Spend, Kinds, AtTypes, Index, Goto, Aborters, queueVars,
     lifeVars
<1>6. CASE \E t \in Threads : AbortingException(t)
  BY <1>6, Distinct DEF NeverAllThree, LifeTypes, Spend, Kinds, AtTypes, AbortingException, Goto, Aborters,
     segVars, queueVars
<1>7. CASE \E t \in Threads : AddFlushTicket(t)
  BY <1>7, Distinct DEF NeverAllThree, LifeTypes, Kinds, AtTypes, AddFlushTicket, Goto, Aborters, segVars,
     stateVars, lifeVars
<1>8. CASE \E t \in Threads : AddSegment(t)
  BY <1>8, Distinct DEF NeverAllThree, LifeTypes, Kinds, AtTypes, AddSegment, Goto, Aborters, segVars,
     stateVars, lifeVars
<1>9. CASE \E t \in Threads : FlushFails(t)
  BY <1>9, Distinct DEF NeverAllThree, LifeTypes, Spend, Kinds, AtTypes, FlushFails, Goto, Aborters, segVars,
     stateVars
<1>10. CASE \E t \in Threads : DoAfterFlush(t)
  BY <1>10, Distinct DEF NeverAllThree, LifeTypes, Kinds, AtTypes, DoAfterFlush, Goto, Aborters, segVars,
     stateVars, queueVars, lifeVars
<1>11. CASE \E t \in Threads : TryPurge(t)
  BY <1>11, Distinct DEF NeverAllThree, LifeTypes, Kinds, AtTypes, TryPurge, Goto, Aborters, segVars,
     stateVars, lifeVars
<1>12. CASE \E t \in Threads : StartAddIndexes(t)
  BY <1>12, Distinct DEF NeverAllThree, LifeTypes, Spend, Kinds, AtTypes, StartAddIndexes, Goto, Aborters,
     segVars, stateVars, queueVars, lifeVars
<1>13. CASE \E t \in Threads : InsertCopied(t)
  BY <1>13, Distinct DEF NeverAllThree, LifeTypes, Kinds, AtTypes, InsertCopied, Goto, Aborters, stateVars,
     queueVars, lifeVars
<1>14. CASE \E t \in Threads : TakeBackDocs(t)
  BY <1>14, Distinct DEF NeverAllThree, LifeTypes, Kinds, AtTypes, TakeBackDocs, Goto, Aborters, segVars,
     stateVars, queueVars, lifeVars
<1>15. CASE \E a \in Actors : ForcePurge(a)
  BY <1>15, Distinct DEF NeverAllThree, LifeTypes, Kinds, AtTypes, ForcePurge, Goto, Aborters, segVars,
     stateVars, lifeVars
<1>16. CASE \E a \in Actors : PublishFlushedSegment(a)
  BY <1>16, Distinct DEF NeverAllThree, LifeTypes, Kinds, AtTypes, PublishFlushedSegment, Aborters,
     stateVars, lifeVars
<1>17. CASE \E a \in Actors : EndPurge(a)
  BY <1>17, Distinct DEF NeverAllThree, LifeTypes, Kinds, AtTypes, EndPurge, Goto, Aborters, segVars,
     stateVars, lifeVars
<1>18. CASE \E a \in Actors : ProcessEvents(a)
  BY <1>18, Distinct DEF NeverAllThree, LifeTypes, Kinds, AtTypes, ProcessEvents, Goto, Aborters, segVars,
     stateVars, lifeVars
<1>19. CASE StartDeleteAll
  BY <1>19, Distinct DEF NeverAllThree, LifeTypes, Spend, Kinds, AtTypes, StartDeleteAll, Goto, Aborters,
     segVars, stateVars, queueVars, lifeVars
<1>20. CASE DropTicket
  BY <1>20, Distinct DEF NeverAllThree, LifeTypes, Kinds, AtTypes, DropTicket, Aborters, segVars, stateVars,
     lifeVars
<1>21. CASE CountThreadStates
  BY <1>21, Distinct DEF NeverAllThree, LifeTypes, Kinds, AtTypes, CountThreadStates, Goto, Aborters,
     segVars, stateVars, queueVars, lifeVars
<1>22. CASE SetAbort
  BY <1>22, Distinct DEF NeverAllThree, LifeTypes, Kinds, AtTypes, SetAbort, Goto, Aborters, segVars,
     queueVars, lifeVars
<1>23. CASE ClearIndex
  BY <1>23, Distinct DEF NeverAllThree, LifeTypes, Kinds, AtTypes, ClearIndex, Goto, Aborters, stateVars,
     queueVars
<1>24. CASE UnlockAll
  BY <1>24, Distinct DEF NeverAllThree, LifeTypes, Kinds, AtTypes, UnlockAll, Goto, Aborters, segVars,
     queueVars, lifeVars
<1>25. CASE StartRollback
  BY <1>25, Distinct DEF NeverAllThree, LifeTypes, Kinds, AtTypes, StartRollback, Goto, Aborters, segVars,
     stateVars, queueVars
<1>26. CASE CloseDocWriter
  BY <1>26, Distinct DEF NeverAllThree, LifeTypes, Kinds, AtTypes, CloseDocWriter, Goto, Aborters, segVars,
     stateVars, queueVars
<1>27. CASE RollbackSegmentInfos
  BY <1>27, Distinct DEF NeverAllThree, LifeTypes, Kinds, AtTypes, RollbackSegmentInfos, Goto, Aborters,
     stateVars, queueVars
<1>28. CASE \E a \in Aborters, t \in Threads : AbortThreadState(a, t)
  BY <1>28, Distinct DEF NeverAllThree, LifeTypes, Kinds, AtTypes, AbortThreadState, Aborters, segVars,
     queueVars, lifeVars
<1>29. CASE \E a \in Aborters : WaitForFlush(a)
  BY <1>29, Distinct DEF NeverAllThree, LifeTypes, Kinds, AtTypes, WaitForFlush, Goto, Aborters, segVars,
     stateVars, queueVars, lifeVars
<1>30. CASE \E a \in Aborters : AbortMerges(a)
  BY <1>30, Distinct DEF NeverAllThree, LifeTypes, Kinds, AtTypes, AbortMerges, Goto, Aborters, segVars,
     stateVars, queueVars
<1>31. CASE \E s \in segmentInfos : StartApply(s)
  BY <1>31, Distinct DEF NeverAllThree, LifeTypes, Spend, Kinds, AtTypes, StartApply, Aborters, stateVars,
     queueVars, lifeVars
<1>32. CASE \E s \in segmentInfos : WriteReaderPool(s)
  BY <1>32, Distinct DEF NeverAllThree, LifeTypes, Spend, Kinds, AtTypes, WriteReaderPool,
     dropDeletedSegment, Aborters, stateVars, queueVars, lifeVars
<1>33. CASE \E s \in packets : FinishApply(s)
  BY <1>33, Distinct DEF NeverAllThree, LifeTypes, Kinds, AtTypes, FinishApply, dropDeletedSegment, Aborters,
     stateVars, queueVars, lifeVars
<1>34. CASE \E S \in SUBSET segmentInfos : StartMerge(S)
  BY <1>34, Distinct DEF NeverAllThree, LifeTypes, Spend, Kinds, AtTypes, StartMerge, Aborters, stateVars,
     queueVars, lifeVars
<1>35. CASE \E m \in merges : CommitMerge(m)
  BY <1>35, Distinct DEF NeverAllThree, LifeTypes, Kinds, AtTypes, CommitMerge, Aborters, stateVars,
     queueVars, lifeVars
<1>36. CASE \E m \in merges : MergeFails(m)
  BY <1>36, Distinct DEF NeverAllThree, LifeTypes, Spend, Kinds, AtTypes, MergeFails, Aborters, segVars,
     stateVars, queueVars
<1>37. CASE UNCHANGED vars
  BY <1>37, Distinct DEF NeverAllThree, LifeTypes, AtTypes, vars, segVars, stateVars, queueVars, lifeVars
<1> QED BY NextSteps, <1>1, <1>2, <1>3, <1>4, <1>5, <1>6, <1>7, <1>8, <1>9, <1>10, <1>11, <1>12, <1>13,
           <1>14, <1>15, <1>16, <1>17, <1>18, <1>19, <1>20, <1>21, <1>22, <1>23, <1>24, <1>25, <1>26, <1>27,
           <1>28, <1>29, <1>30, <1>31, <1>32, <1>33, <1>34, <1>35, <1>36, <1>37

------------------------------------------------------------------------------
\* What the parts of the sum are, and how a step of one thread changes them

LEMMA DocsFinite ==
  ASSUME NEW n \in Nat, NEW S \in SUBSET (1 .. n)
  PROVE  IsFiniteSet(S) /\ Cardinality(S) \in Nat
<1>1. IsFiniteSet(1 .. n)
  BY FS_Interval
<1>2. IsFiniteSet(S)
  BY <1>1, FS_Subset
<1> QED BY <1>2, FS_CardinalityType

LEMMA FamilyFinite ==
  ASSUME NEW f, NEW n \in Nat, IsFiniteSet(DOMAIN f), \A x \in DOMAIN f : f[x] \subseteq 1 .. n
  PROVE  Finite(f)
<1>1. \A x \in DOMAIN f : IsFiniteSet(f[x])
  <2> TAKE x \in DOMAIN f
  <2>1. f[x] \in SUBSET (1 .. n)
    OBVIOUS
  <2> QED BY <2>1, DocsFinite
<1> QED BY <1>1 DEF Finite

LEMMA FinitesNow ==
  ASSUME DocTypes
  PROVE  (/\ Finite(ram) /\ Finite(FlushingDocs) /\ Finite(FlushedDocs(tickets))
          /\ Finite([s \in segmentInfos |-> s.docs])
          /\ \A s \in segmentInfos : IsFiniteSet(s.docs)
          /\ \A t \in Threads : IsFiniteSet(ram[t]) /\ IsFiniteSet(flushing[t])
          /\ \A i \in DOMAIN tickets : IsFiniteSet(tickets[i].docs))
<1>1. Finite(ram)
  <2>1. (DOMAIN ram) = Threads /\ \A t \in Threads : ram[t] \subseteq 1 .. numbered
    BY DEF DocTypes, Numbers
  <2> QED BY <2>1, ActorsAssumption, FamilyFinite DEF DocTypes
<1>2. Finite(FlushingDocs)
  <2>1. At({"pending", "flush"}) \in SUBSET Threads
    BY DEF At
  <2>2. (DOMAIN FlushingDocs) = At({"pending", "flush"})
        /\ \A t \in At({"pending", "flush"}) : FlushingDocs[t] = flushing[t]
    BY DEF FlushingDocs
  <2>3. \A t \in At({"pending", "flush"}) : FlushingDocs[t] \subseteq 1 .. numbered
    BY <2>1, <2>2 DEF DocTypes, Numbers
  <2>4. IsFiniteSet((DOMAIN FlushingDocs))
    BY <2>1, <2>2, ActorsAssumption, FS_Subset
  <2> QED BY <2>2, <2>3, <2>4, FamilyFinite DEF DocTypes
<1>3. Finite(FlushedDocs(tickets))
  <2>1. PICK D : D = {i \in DOMAIN tickets : tickets[i].phase = "flushed"}
    OBVIOUS
  <2>2. DOMAIN FlushedDocs(tickets) = D /\ \A i \in D : FlushedDocs(tickets)[i] = tickets[i].docs
    BY <2>1 DEF FlushedDocs
  <2>3. D \in SUBSET (1 .. Len(tickets)) /\ Len(tickets) \in Nat
    BY <2>1 DEF DocTypes
  <2>4. IsFiniteSet(D)
    <3>1. IsFiniteSet(1 .. Len(tickets))
      BY <2>3, FS_Interval
    <3> QED BY <2>3, <3>1, FS_Subset
  <2>5. \A i \in D : FlushedDocs(tickets)[i] \subseteq 1 .. numbered
    BY <2>1, <2>2 DEF DocTypes, Numbers
  <2> QED BY <2>2, <2>4, <2>5, FamilyFinite DEF DocTypes
<1>4. \A s \in segmentInfos : IsFiniteSet(s.docs)
  <2> TAKE s \in segmentInfos
  <2>1. s.docs \in SUBSET (1 .. numbered)
    BY DEF DocTypes, IsSegment, Numbers
  <2> QED BY <2>1, DocsFinite DEF DocTypes
<1>5. \A t \in Threads : IsFiniteSet(ram[t]) /\ IsFiniteSet(flushing[t])
  <2> TAKE t \in Threads
  <2>1. ram[t] \in SUBSET (1 .. numbered) /\ flushing[t] \in SUBSET (1 .. numbered)
    BY DEF DocTypes, Numbers
  <2> QED BY <2>1, DocsFinite DEF DocTypes
<1>6. \A i \in DOMAIN tickets : IsFiniteSet(tickets[i].docs)
  <2> TAKE i \in DOMAIN tickets
  <2>1. tickets[i].docs \in SUBSET (1 .. numbered)
    BY DEF DocTypes, Numbers
  <2> QED BY <2>1, DocsFinite DEF DocTypes
<1>7. Finite([s \in segmentInfos |-> s.docs])
  <2>1. IsFiniteSet(segmentInfos)
    BY DEF DocTypes
  <2> QED BY <1>4, <2>1 DEF Finite
<1> QED BY <1>1, <1>2, <1>3, <1>4, <1>5, <1>6, <1>7

LEMMA FinitesNext ==
  ASSUME DocTypes'
  PROVE  (/\ Finite(ram) /\ Finite(FlushingDocs) /\ Finite(FlushedDocs(tickets))
          /\ Finite([s \in segmentInfos |-> s.docs])
          /\ \A s \in segmentInfos : IsFiniteSet(s.docs)
          /\ \A t \in Threads : IsFiniteSet(ram[t]) /\ IsFiniteSet(flushing[t])
          /\ \A i \in DOMAIN tickets : IsFiniteSet(tickets[i].docs))'
BY FinitesNow, PTL

LEMMA NaturalsNow ==
  ASSUME DocTypes
  PROVE  (/\ InSegments \in Nat /\ InQueue \in Nat /\ InRam \in Nat /\ InFlushes \in Nat
          /\ Reserving \in Nat /\ Indexing \in Nat /\ Adding \in Nat
          /\ Indexing <= Reserving)
<1>1. (InSegments \in Nat) /\ (InQueue \in Nat) /\ (InRam \in Nat) /\ (InFlushes \in Nat)
  BY FinitesNow, TotalNat DEF InSegments, NumDocs, InQueue, InRam, InFlushes
<1>2. PICK X \in SUBSET Threads : X = At({"takeBack", "index"})
  BY DEF At
<1>3. PICK Y \in SUBSET X : Y = At({"index"})
  BY <1>2 DEF At
<1>4. PICK Z \in SUBSET Threads : Z = At({"takeBackDocs"})
  BY DEF At
<1>5. IsFiniteSet(X) /\ IsFiniteSet(Y) /\ IsFiniteSet(Z) /\ Cardinality(Y) <= Cardinality(X)
  BY ActorsAssumption, FS_Subset
<1>6. Cardinality(X) \in Nat /\ Cardinality(Y) \in Nat /\ Cardinality(Z) \in Nat
  BY <1>5, FS_CardinalityType
<1> QED BY <1>1, <1>2, <1>3, <1>4, <1>5, <1>6 DEF Reserving, Indexing, Adding

LEMMA NaturalsNext ==
  ASSUME DocTypes'
  PROVE  (/\ InSegments \in Nat /\ InQueue \in Nat /\ InRam \in Nat /\ InFlushes \in Nat
          /\ Reserving \in Nat /\ Indexing \in Nat /\ Adding \in Nat
          /\ Indexing <= Reserving)'
BY NaturalsNow, PTL

\* What the step of one thread changes
LEMMA ThreadCounts ==
  ASSUME DocTypes, DocTypes', NEW t \in Threads,
         \A u \in Threads \ {t} : at'[u] = at[u] /\ ram'[u] = ram[u] /\ flushing'[u] = flushing[u]
  PROVE  /\ Cardinality(ram[t]) \in Nat /\ Cardinality(ram'[t]) \in Nat
         /\ Cardinality(flushing[t]) \in Nat /\ Cardinality(flushing'[t]) \in Nat
         /\ InRam' = InRam - Cardinality(ram[t]) + Cardinality(ram'[t])
         /\ InFlushes' = InFlushes
              - (IF at[t] \in {"pending", "flush"} THEN Cardinality(flushing[t]) ELSE 0)
              + (IF at'[t] \in {"pending", "flush"} THEN Cardinality(flushing'[t]) ELSE 0)
         /\ Reserving' = Reserving - (IF at[t] \in {"takeBack", "index"} THEN 1 ELSE 0)
                           + (IF at'[t] \in {"takeBack", "index"} THEN 1 ELSE 0)
         /\ Indexing' = Indexing - (IF at[t] = "index" THEN 1 ELSE 0)
                          + (IF at'[t] = "index" THEN 1 ELSE 0)
         /\ Adding' = Adding - (IF at[t] = "takeBackDocs" THEN 1 ELSE 0)
                        + (IF at'[t] = "takeBackDocs" THEN 1 ELSE 0)
<1>0. \A u \in Threads \ {t} : at'[u] = at[u]
  OBVIOUS
<1>1. /\ Cardinality(ram[t]) \in Nat /\ Cardinality(ram'[t]) \in Nat
      /\ Cardinality(flushing[t]) \in Nat /\ Cardinality(flushing'[t]) \in Nat
  BY FinitesNow, FinitesNext, FS_CardinalityType
<1>2. InRam' = InRam - Cardinality(ram[t]) + Cardinality(ram'[t])
  <2>1. DOMAIN ram = Threads /\ DOMAIN ram' = Threads
    BY DEF DocTypes
  <2>2. Finite(ram) /\ Finite(ram')
    BY FinitesNow, FinitesNext
  <2>3. Total(ram') = Total(ram) - Size(ram, t) + Size(ram', t)
    BY <2>1, <2>2, TotalStep
  <2> QED BY <2>1, <2>3 DEF InRam, Size
<1>3. InFlushes' = InFlushes
              - (IF at[t] \in {"pending", "flush"} THEN Cardinality(flushing[t]) ELSE 0)
              + (IF at'[t] \in {"pending", "flush"} THEN Cardinality(flushing'[t]) ELSE 0)
  <2>1. PICK f : f = FlushingDocs
    OBVIOUS
  <2>2. PICK g : g = FlushingDocs'
    OBVIOUS
  <2>3. Finite(f) /\ Finite(g)
    BY <2>1, <2>2, FinitesNow, FinitesNext
  <2>4. /\ DOMAIN f = {u \in Threads : at[u] \in {"pending", "flush"}}
        /\ \A u \in DOMAIN f : f[u] = flushing[u]
    BY <2>1 DEF FlushingDocs, At
  <2>5. /\ DOMAIN g = {u \in Threads : at'[u] \in {"pending", "flush"}}
        /\ \A u \in DOMAIN g : g[u] = flushing'[u]
    BY <2>2 DEF FlushingDocs, At
  <2>6. DOMAIN g \ {t} = DOMAIN f \ {t} /\ \A u \in DOMAIN f \ {t} : g[u] = f[u]
    BY <2>4, <2>5
  <2>7. Total(g) = Total(f) - Size(f, t) + Size(g, t)
    BY <2>3, <2>6, TotalStep
  <2>8. Size(f, t) = IF at[t] \in {"pending", "flush"} THEN Cardinality(flushing[t]) ELSE 0
    BY <2>4 DEF Size
  <2>9. Size(g, t) = IF at'[t] \in {"pending", "flush"} THEN Cardinality(flushing'[t]) ELSE 0
    BY <2>5 DEF Size
  <2> QED BY <2>1, <2>2, <2>7, <2>8, <2>9 DEF InFlushes
<1>4. Reserving' = Reserving - (IF at[t] \in {"takeBack", "index"} THEN 1 ELSE 0)
                     + (IF at'[t] \in {"takeBack", "index"} THEN 1 ELSE 0)
  <2>1. PICK F : F = {u \in Threads : at[u] \in {"takeBack", "index"}}
    OBVIOUS
  <2>2. PICK G : G = {u \in Threads : at'[u] \in {"takeBack", "index"}}
    OBVIOUS
  <2>3. Reserving = Cardinality(F) /\ Reserving' = Cardinality(G)
    BY <2>1, <2>2 DEF Reserving, At
  <2>4. F \in SUBSET Threads /\ G \in SUBSET Threads /\ F \ {t} = G \ {t}
    BY <1>0, <2>1, <2>2
  <2>5. (t \in F <=> at[t] \in {"takeBack", "index"}) /\ (t \in G <=> at'[t] \in {"takeBack", "index"})
    BY <2>1, <2>2
  <2> QED BY <2>3, <2>4, <2>5, CountAt
<1>5. Indexing' = Indexing - (IF at[t] \in {"index"} THEN 1 ELSE 0) + (IF at'[t] \in {"index"} THEN 1 ELSE 0)
  <2>1. PICK F : F = {u \in Threads : at[u] \in {"index"}}
    OBVIOUS
  <2>2. PICK G : G = {u \in Threads : at'[u] \in {"index"}}
    OBVIOUS
  <2>3. Indexing = Cardinality(F) /\ Indexing' = Cardinality(G)
    BY <2>1, <2>2 DEF Indexing, At
  <2>4. F \in SUBSET Threads /\ G \in SUBSET Threads /\ F \ {t} = G \ {t}
    BY <1>0, <2>1, <2>2
  <2>5. (t \in F <=> at[t] \in {"index"}) /\ (t \in G <=> at'[t] \in {"index"})
    BY <2>1, <2>2
  <2> QED BY <2>3, <2>4, <2>5, CountAt
<1>6. Adding' = Adding - (IF at[t] \in {"takeBackDocs"} THEN 1 ELSE 0) + (IF at'[t] \in {"takeBackDocs"} THEN 1 ELSE 0)
  <2>1. PICK F : F = {u \in Threads : at[u] \in {"takeBackDocs"}}
    OBVIOUS
  <2>2. PICK G : G = {u \in Threads : at'[u] \in {"takeBackDocs"}}
    OBVIOUS
  <2>3. Adding = Cardinality(F) /\ Adding' = Cardinality(G)
    BY <2>1, <2>2 DEF Adding, At
  <2>4. F \in SUBSET Threads /\ G \in SUBSET Threads /\ F \ {t} = G \ {t}
    BY <1>0, <2>1, <2>2
  <2>5. (t \in F <=> at[t] \in {"takeBackDocs"}) /\ (t \in G <=> at'[t] \in {"takeBackDocs"})
    BY <2>1, <2>2
  <2> QED BY <2>3, <2>4, <2>5, CountAt
<1> QED BY <1>1, <1>2, <1>3, <1>4, <1>5, <1>6

\* A step that moves no document of a thread, and no thread to or from a place that counts
LEMMA ThreadsStay ==
  ASSUME ram' = ram, flushing' = flushing,
         \A t \in Threads : at'[t] = at[t] \/ (at[t] \notin Counted /\ at'[t] \notin Counted)
  PROVE  /\ InRam' = InRam /\ InFlushes' = InFlushes
         /\ Reserving' = Reserving /\ Indexing' = Indexing /\ Adding' = Adding
<1>1. At({"pending", "flush"})' = At({"pending", "flush"})
  BY DEF At, Counted
<1>2. FlushingDocs' = FlushingDocs
  BY <1>1 DEF FlushingDocs
<1>3. At({"takeBack", "index"})' = At({"takeBack", "index"})
  BY DEF At, Counted
<1>4. At({"index"})' = At({"index"})
  BY DEF At, Counted
<1>5. At({"takeBackDocs"})' = At({"takeBackDocs"})
  BY DEF At, Counted
<1> QED BY <1>2, <1>3, <1>4, <1>5 DEF InRam, InFlushes, Reserving, Indexing, Adding

LEMMA SegmentAdded ==
  ASSUME DocTypes, NEW S \in SUBSET segmentInfos, NEW s, s \notin S, IsFiniteSet(s.docs)
  PROVE  /\ NumDocs(S \cup {s}) = NumDocs(S) + Cardinality(s.docs)
         /\ Cardinality(s.docs) \in Nat /\ NumDocs(S) \in Nat
<1>1. PICK T : T = {s}
  OBVIOUS
<1>2. IsFiniteSet(S) /\ IsFiniteSet(T) /\ S \cap T = {}
  <2>1. IsFiniteSet(S)
    BY FS_Subset DEF DocTypes
  <2>2. IsFiniteSet(T)
    BY <1>1, FS_Singleton
  <2> QED BY <1>1, <2>1, <2>2
<1>3. \A r \in S \cup T : IsFiniteSet(r.docs)
  BY <1>1, FinitesNow
<1>4. NumDocs(S \cup T) = NumDocs(S) + NumDocs(T) /\ NumDocs(S) \in Nat
  BY <1>2, <1>3, NumDocsSplit
<1>5. NumDocs(T) = Cardinality(s.docs) /\ Cardinality(s.docs) \in Nat
  BY <1>1, NumDocsOne
<1> QED BY <1>1, <1>4, <1>5

LEMMA SegmentsRemoved ==
  ASSUME DocTypes, NEW S \in SUBSET segmentInfos
  PROVE  /\ NumDocs(segmentInfos \ S) = InSegments - NumDocs(S)
         /\ NumDocs(S) \in Nat /\ NumDocs(segmentInfos \ S) \in Nat
<1>1. IsFiniteSet(segmentInfos) /\ \A r \in segmentInfos : IsFiniteSet(r.docs)
  BY FinitesNow DEF DocTypes
<1>2. PICK T : T = segmentInfos \ S
  OBVIOUS
<1>3. IsFiniteSet(S) /\ IsFiniteSet(T) /\ T \cap S = {}
  BY <1>1, <1>2, FS_Subset
<1>4. T \cup S = segmentInfos
  BY <1>2
<1>5. NumDocs(T \cup S) = NumDocs(T) + NumDocs(S) /\ NumDocs(T) \in Nat /\ NumDocs(S) \in Nat
  BY <1>1, <1>3, <1>4, NumDocsSplit
<1>6. InSegments = NumDocs(T) + NumDocs(S)
  BY <1>4, <1>5 DEF InSegments
<1> QED BY <1>2, <1>5, <1>6

LEMMA CommittedCount ==
  ASSUME NEW gen
  PROVE  NumDocs(CommittedSegments(gen)) = Committed
<1>1. Committed \in Nat
  BY DocsAssumption
<1>2. CASE Committed = 0
  BY <1>2, NumDocsNone DEF CommittedSegments
<1>3. CASE Committed # 0
  <2>1. PICK s : s = Segment(1 .. Committed, gen)
    OBVIOUS
  <2>2. s.docs = 1 .. Committed /\ CommittedSegments(gen) = {s}
    BY <1>3, <2>1, SegmentDocs DEF CommittedSegments
  <2>3. IsFiniteSet(1 .. Committed) /\ Cardinality(1 .. Committed) = Committed
    BY <1>1, <1>3, FS_Interval
  <2> QED BY <2>2, <2>3, NumDocsOne
<1> QED BY <1>2, <1>3

\* The documents of a merge are not more than those of its segments.
LEMMA MergedCount ==
  ASSUME DocTypes, NEW S \in SUBSET segmentInfos, NEW D \in SUBSET (UNION {s.docs : s \in S})
  PROVE  IsFiniteSet(D) /\ Cardinality(D) \in Nat /\ NumDocs(S) \in Nat /\ Cardinality(D) <= NumDocs(S)
<1>1. PICK f : f = [s \in S |-> s.docs]
  OBVIOUS
<1>2. DOMAIN f = S /\ \A s \in S : f[s] = s.docs
  BY <1>1
<1>3. Finite(f)
  BY <1>2, FinitesNow, FS_Subset DEF Finite, DocTypes
<1>4. PICK P : P = Pairs(f)
  OBVIOUS
<1>5. \A p : p \in P <=> \E s \in S : \E d \in s.docs : p = <<s, d>>
  BY <1>2, <1>4, PairsAre
<1>6. PICK U : U = UNION {s.docs : s \in S}
  OBVIOUS
<1>7. PICK g : g = [p \in P |-> p[2]]
  OBVIOUS
<1>8. g \in Surjection(P, U)
  <2>1. \A p \in P : g[p] \in U
    BY <1>5, <1>6, <1>7
  <2>2. \A d \in U : \E p \in P : g[p] = d
    <3> TAKE d \in U
    <3>1. PICK s \in S : d \in s.docs
      BY <1>6
    <3>2. <<s, d>> \in P
      BY <1>5, <3>1
    <3> QED BY <1>7, <3>2
  <2>3. g \in [P -> U]
    BY <1>7, <2>1
  <2> QED BY <2>2, <2>3 DEF Surjection
<1>9. IsFiniteSet(P) /\ Cardinality(P) \in Nat
  BY <1>3, <1>4, PairsFinite, FS_CardinalityType
<1>10. IsFiniteSet(U) /\ Cardinality(U) <= Cardinality(P)
  BY <1>8, <1>9, FS_Surjection
<1>11. IsFiniteSet(D) /\ Cardinality(D) <= Cardinality(U)
  BY <1>6, <1>10, FS_Subset
<1>12. Cardinality(U) \in Nat /\ Cardinality(D) \in Nat
  BY <1>10, <1>11, FS_CardinalityType
<1>13. NumDocs(S) = Cardinality(P)
  BY <1>1, <1>4 DEF NumDocs, Total
<1> QED BY <1>9, <1>10, <1>11, <1>12, <1>13

------------------------------------------------------------------------------
\* The flush queue

LEMMA AppendDocs ==
  ASSUME NEW R, NEW q \in Seq(R), NEW x, x.phase # "flushed"
  PROVE  FlushedDocs(Append(q, x)) = FlushedDocs(q)
<1>1. PICK p : p = Append(q, x)
  OBVIOUS
<1>2. /\ Len(q) \in Nat /\ DOMAIN q = 1 .. Len(q) /\ DOMAIN p = 1 .. (Len(q) + 1)
      /\ \A i \in 1 .. Len(q) : p[i] = q[i]
      /\ p[Len(q) + 1] = x
  BY <1>1
<1>3. {i \in DOMAIN p : p[i].phase = "flushed"} = {i \in DOMAIN q : q[i].phase = "flushed"}
  BY <1>2
<1>4. \A i \in {j \in DOMAIN q : q[j].phase = "flushed"} : p[i].docs = q[i].docs
  BY <1>2
<1> QED BY <1>1, <1>3, <1>4 DEF FlushedDocs

\* A flush that ends has one ticket, and marks no other.
LEMMA MarkedOne ==
  ASSUME DocTypes, Apart, FlushesOwn, NEW t \in Threads, at[t] = "flush", NEW phase
  PROVE  \E i \in DOMAIN tickets :
           /\ tickets[i].docs = flushing[t] /\ tickets[i].phase = "flush"
           /\ DOMAIN Marked(flushing[t], phase) = DOMAIN tickets
           /\ \A j \in DOMAIN tickets : j # i => Marked(flushing[t], phase)[j] = tickets[j]
           /\ Marked(flushing[t], phase)[i].docs = flushing[t]
           /\ Marked(flushing[t], phase)[i].phase = phase
<1>1. PICK i \in DOMAIN tickets : tickets[i].docs = flushing[t] /\ tickets[i].phase = "flush"
  BY DEF FlushesOwn
<1>2. \A j \in DOMAIN tickets : j # i => tickets[j].docs # flushing[t]
  BY <1>1 DEF DocTypes, Apart, TicketsApart
<1>3. DOMAIN Marked(flushing[t], phase) = DOMAIN tickets
  BY DEF Marked
<1>4. \A j \in DOMAIN tickets : j # i => Marked(flushing[t], phase)[j] = tickets[j]
  BY <1>2 DEF Marked
<1>5. Marked(flushing[t], phase)[i] = [tickets[i] EXCEPT !.phase = phase]
  BY <1>1 DEF Marked
<1>6. tickets[i] \in TicketType
  BY DEF DocTypes
<1>7. Marked(flushing[t], phase)[i].docs = flushing[t] /\ Marked(flushing[t], phase)[i].phase = phase
  BY <1>1, <1>5, <1>6 DEF TicketType
<1> QED BY <1>1, <1>3, <1>4, <1>7

LEMMA MarkedFlushed ==
  ASSUME DocTypes, DocTypes', Apart, FlushesOwn, NEW t \in Threads, at[t] = "flush",
         tickets' = Marked(flushing[t], "flushed")
  PROVE  InQueue' = InQueue + Cardinality(flushing[t])
<1>1. PICK i \in DOMAIN tickets :
           /\ tickets[i].docs = flushing[t] /\ tickets[i].phase = "flush"
           /\ DOMAIN tickets' = DOMAIN tickets
           /\ \A j \in DOMAIN tickets : j # i => tickets'[j] = tickets[j]
           /\ tickets'[i].docs = flushing[t]
           /\ tickets'[i].phase = "flushed"
  BY MarkedOne
<1>2. PICK f : f = FlushedDocs(tickets)
  OBVIOUS
<1>3. PICK g : g = FlushedDocs(tickets')
  OBVIOUS
<1>4. /\ DOMAIN f = {j \in DOMAIN tickets : tickets[j].phase = "flushed"}
      /\ \A j \in DOMAIN f : f[j] = tickets[j].docs
  BY <1>2 DEF FlushedDocs
<1>5. /\ DOMAIN g = {j \in DOMAIN tickets' : tickets'[j].phase = "flushed"}
      /\ \A j \in DOMAIN g : g[j] = tickets'[j].docs
  BY <1>3 DEF FlushedDocs
<1>6. DOMAIN g \ {i} = DOMAIN f \ {i} /\ \A j \in DOMAIN f \ {i} : g[j] = f[j]
  BY <1>1, <1>4, <1>5
<1>7. Finite(f) /\ Finite(g)
  BY <1>2, <1>3, FinitesNow, FinitesNext
<1>8. Total(g) = Total(f) - Size(f, i) + Size(g, i)
  BY <1>6, <1>7, TotalStep
<1>9. Size(f, i) = 0
  BY <1>1, <1>4 DEF Size
<1>10. Size(g, i) = Cardinality(flushing[t])
  BY <1>1, <1>5 DEF Size
<1>11. Total(f) \in Nat
  BY <1>7, TotalNat
<1> QED BY <1>2, <1>3, <1>8, <1>9, <1>10, <1>11 DEF InQueue

LEMMA MarkedFailed ==
  ASSUME DocTypes, Apart, FlushesOwn, NEW t \in Threads, at[t] = "flush",
         tickets' = Marked(flushing[t], "failed")
  PROVE  InQueue' = InQueue
<1>1. PICK i \in DOMAIN tickets :
           /\ tickets[i].docs = flushing[t] /\ tickets[i].phase = "flush"
           /\ DOMAIN tickets' = DOMAIN tickets
           /\ \A j \in DOMAIN tickets : j # i => tickets'[j] = tickets[j]
           /\ tickets'[i].docs = flushing[t]
           /\ tickets'[i].phase = "failed"
  BY MarkedOne
<1>2. {j \in DOMAIN tickets' : tickets'[j].phase = "flushed"}
        = {j \in DOMAIN tickets : tickets[j].phase = "flushed"}
  BY <1>1
<1>3. \A j \in {k \in DOMAIN tickets : tickets[k].phase = "flushed"} : tickets'[j].docs = tickets[j].docs
  BY <1>1
<1>4. FlushedDocs(tickets') = FlushedDocs(tickets)
  BY <1>2, <1>3 DEF FlushedDocs
<1> QED BY <1>4 DEF InQueue

LEMMA TailCount ==
  ASSUME DocTypes, tickets # <<>>, tickets' = Tail(tickets)
  PROVE  /\ InQueue' = InQueue - DroppedDocs(Head(tickets))
         /\ DroppedDocs(Head(tickets)) \in Nat
<1>1. Finite(FlushedDocs(tickets)) /\ tickets \in Seq(TicketType)
  BY FinitesNow DEF DocTypes
<1>2. /\ Finite(FlushedDocs(tickets'))
      /\ Total(FlushedDocs(tickets)) = Total(FlushedDocs(tickets')) + DroppedDocs(Head(tickets))
  BY <1>1, TailDocs DEF DroppedDocs
<1>3. DroppedDocs(Head(tickets)) \in Nat
  BY FinitesNow, FS_CardinalityType, TailIs DEF DroppedDocs, DocTypes
<1>4. Total(FlushedDocs(tickets)) \in Nat /\ Total(FlushedDocs(tickets')) \in Nat
  BY <1>1, <1>2, TotalNat
<1> QED BY <1>2, <1>3, <1>4 DEF InQueue

------------------------------------------------------------------------------
\* Each step keeps the sum and the limit.

Counts == CountIsExact /\ LimitKept

LEMMA Sums ==
  ASSUME DocTypes
  PROVE  Counts <=>
           /\ pendingNumDocs = InSegments + InQueue + InRam + InFlushes + Reserving + AddedDocs * Adding
           /\ InSegments + InQueue + InRam + InFlushes + Indexing <= ActualMaxDocs
<1>1. Documents = InSegments + InQueue + InRam + InFlushes
  BY DEF Documents, InSegments, InQueue, InRam, InFlushes
<1>2. Reserved = Reserving + AddedDocs * Adding /\ Cardinality(At({"index"})) = Indexing
  BY DEF Reserved, Reserving, Indexing, Adding
<1>3. AddedDocs * Adding \in Nat
  BY NaturalsNow, DocsAssumption
<1> QED BY <1>1, <1>2, <1>3, NaturalsNow DEF Counts, CountIsExact, LimitKept

LEMMA SumsNext ==
  ASSUME DocTypes'
  PROVE  Counts' <=>
           (/\ pendingNumDocs = InSegments + InQueue + InRam + InFlushes + Reserving + AddedDocs * Adding
            /\ InSegments + InQueue + InRam + InFlushes + Indexing <= ActualMaxDocs)'
BY Sums, PTL

LEMMA AddedNat ==
  ASSUME NEW n \in Nat
  PROVE  /\ AddedDocs \in Nat /\ AddedDocs > 0 /\ AddedDocs * n \in Nat
         /\ AddedDocs * (n + 1) = AddedDocs * n + AddedDocs
         /\ n > 0 => AddedDocs * (n - 1) = AddedDocs * n - AddedDocs
<1>1. AddedDocs \in Nat /\ AddedDocs > 0
  BY DocsAssumption
<1> QED BY <1>1

LEMMA Known ==
  ASSUME Inv
  PROVE  /\ DocTypes /\ AtTypes /\ Counts /\ ActualMaxDocs \in Nat
         /\ InSegments \in Nat /\ InQueue \in Nat /\ InRam \in Nat /\ InFlushes \in Nat
         /\ Reserving \in Nat /\ Indexing \in Nat /\ Adding \in Nat /\ Indexing <= Reserving
         /\ AddedDocs * Adding \in Nat
         /\ pendingNumDocs = InSegments + InQueue + InRam + InFlushes + Reserving + AddedDocs * Adding
         /\ InSegments + InQueue + InRam + InFlushes + Indexing <= ActualMaxDocs
<1>1. DocTypes /\ AtTypes /\ Counts
  BY DEF Inv, Counts
<1> QED BY <1>1, NaturalsNow, Sums, AddedNat, DocsAssumption

LEMMA CountsStay ==
  ASSUME Inv, DocTypes', pendingNumDocs' = pendingNumDocs, segmentInfos' = segmentInfos, InQueue' = InQueue,
         ram' = ram, flushing' = flushing,
         \A t \in Threads : at'[t] = at[t] \/ (at[t] \notin Counted /\ at'[t] \notin Counted)
  PROVE  Counts'
<1>1. InSegments' = InSegments
  BY DEF InSegments
<1> QED BY <1>1, Known, ThreadsStay, SumsNext

LEMMA ReserveCounts ==
  ASSUME Inv, DocTypes', NEW t \in Threads, ReserveOneDoc(t)
  PROVE  Counts'
<1>1. /\ pendingNumDocs' = pendingNumDocs + 1 /\ at[t] = "reserve"
      /\ at'[t] = (IF Exceeds(pendingNumDocs + 1) THEN "takeBack" ELSE "index")
      /\ InSegments' = InSegments /\ InQueue' = InQueue /\ ram' = ram /\ flushing' = flushing
      /\ \A u \in Threads \ {t} : at'[u] = at[u]
  BY DEF ReserveOneDoc, Goto, InSegments, InQueue, segVars, queueVars, Inv, AtTypes, Actors
<1>2. InRam' = InRam /\ InFlushes' = InFlushes /\ Reserving' = Reserving + 1 /\ Adding' = Adding
      /\ Indexing' = IF Exceeds(pendingNumDocs + 1) THEN Indexing ELSE Indexing + 1
  BY <1>1, ThreadCounts, Known
<1> QED BY <1>1, <1>2, Known, SumsNext DEF Exceeds

LEMMA TakeBackCounts ==
  ASSUME Inv, DocTypes', NEW t \in Threads, TakeBackOneDoc(t)
  PROVE  Counts'
<1>1. /\ pendingNumDocs' = pendingNumDocs - 1 /\ at[t] = "takeBack" /\ at'[t] = "idle"
      /\ InSegments' = InSegments /\ InQueue' = InQueue /\ ram' = ram /\ flushing' = flushing
      /\ \A u \in Threads \ {t} : at'[u] = at[u]
  BY DEF TakeBackOneDoc, TakenBack, Goto, InSegments, InQueue, segVars, queueVars, Inv, AtTypes, Actors
<1>2. /\ InRam' = InRam /\ InFlushes' = InFlushes /\ Reserving' = Reserving - 1 /\ Adding' = Adding
      /\ Indexing' = Indexing
  BY <1>1, ThreadCounts, Known
<1> QED BY <1>1, <1>2, Known, SumsNext

\* The next document is in no DWPT.
LEMMA OneMore ==
  ASSUME DocTypes, NEW t \in Threads
  PROVE  /\ Cardinality(ram[t] \cup {numbered + 1}) = Cardinality(ram[t]) + 1
         /\ Cardinality(ram[t]) \in Nat
<1>1. IsFiniteSet(ram[t]) /\ numbered + 1 \notin ram[t]
  BY FinitesNow DEF DocTypes, Numbers
<1> QED BY <1>1, FS_AddElement, FS_CardinalityType

LEMMA IndexCounts ==
  ASSUME Inv, DocTypes', NEW t \in Threads, NEW fails \in BOOLEAN, NEW flush \in BOOLEAN,
         Index(t, fails, flush)
  PROVE  Counts'
<1>1. /\ pendingNumDocs' = pendingNumDocs /\ at[t] = "index"
      /\ InSegments' = InSegments /\ InQueue' = InQueue
      /\ \A u \in Threads \ {t} : at'[u] = at[u] /\ ram'[u] = ram[u] /\ flushing'[u] = flushing[u]
  BY DEF Index, Goto, InSegments, InQueue, queueVars, Inv, AtTypes, DocTypes, Actors
<1>2. \/ ram'[t] = ram[t] \cup {numbered + 1} /\ at'[t] = "idle"
      \/ /\ ram'[t] = {} /\ at'[t] = "pending" /\ flushing'[t] = ram[t] \cup {numbered + 1}
  BY DEF Index, Goto, Inv, AtTypes, DocTypes, Actors
<1>3. /\ InRam' + InFlushes' = InRam + InFlushes + 1 /\ InRam' \in Nat /\ InFlushes' \in Nat
      /\ Reserving' = Reserving - 1 /\ Indexing' = Indexing - 1 /\ Adding' = Adding
  <2>1. InRam \in Nat /\ InFlushes \in Nat /\ InRam' \in Nat /\ InFlushes' \in Nat
    BY Known, NaturalsNext
  <2>2. Reserving' = Reserving - 1 /\ Indexing' = Indexing - 1 /\ Adding' = Adding
    BY <1>1, <1>2, ThreadCounts, Known
  <2>3. /\ InRam' = InRam - Cardinality(ram[t]) + Cardinality(ram'[t])
        /\ InFlushes' = InFlushes + (IF at'[t] = "pending" THEN Cardinality(flushing'[t]) ELSE 0)
    <3>1. at[t] \notin {"pending", "flush"} /\ (at'[t] \in {"pending", "flush"} <=> at'[t] = "pending")
      BY <1>1, <1>2
    <3> QED BY <1>1, <2>1, <3>1, ThreadCounts, Known
  <2>4. CASE ram'[t] = ram[t] \cup {numbered + 1} /\ at'[t] = "idle"
    <3>1. at'[t] # "pending" /\ Cardinality(ram'[t]) = Cardinality(ram[t]) + 1 /\ Cardinality(ram[t]) \in Nat
      BY <2>4, OneMore, Known
    <3> QED BY <2>1, <2>2, <2>3, <3>1
  <2>5. CASE ram'[t] = {} /\ at'[t] = "pending" /\ flushing'[t] = ram[t] \cup {numbered + 1}
    <3>1. /\ Cardinality(flushing'[t]) = Cardinality(ram[t]) + 1 /\ Cardinality(ram[t]) \in Nat
          /\ Cardinality(ram'[t]) = 0
      BY <2>5, OneMore, Known, FS_EmptySet
    <3> QED BY <2>1, <2>2, <2>3, <2>5, <3>1
  <2> QED BY <1>2, <2>4, <2>5
<1> QED BY <1>1, <1>2, <1>3, Known, SumsNext

LEMMA AbortingCounts ==
  ASSUME Inv, DocTypes', NEW t \in Threads, AbortingException(t)
  PROVE  Counts'
<1>1. Cardinality(ram'[t]) = 0
  BY FS_EmptySet DEF AbortingException, Inv, DocTypes
<1>2. /\ pendingNumDocs' = pendingNumDocs - (Cardinality(ram[t]) + 1)
      /\ at[t] = "index" /\ at'[t] = "idle" /\ flushing' = flushing
      /\ InSegments' = InSegments /\ InQueue' = InQueue
      /\ \A u \in Threads \ {t} : at'[u] = at[u] /\ ram'[u] = ram[u]
  BY DEF AbortingException, Goto, InSegments, InQueue, segVars, queueVars, Inv, AtTypes, DocTypes, Actors
<1>3. /\ InRam' = InRam - Cardinality(ram[t]) + Cardinality(ram'[t]) /\ Cardinality(ram[t]) \in Nat
      /\ InFlushes' = InFlushes /\ Reserving' = Reserving - 1 /\ Indexing' = Indexing - 1
      /\ Adding' = Adding
  BY <1>2, ThreadCounts, Known
<1>4. PICK n \in Nat : n = Cardinality(ram[t])
  BY <1>3
<1>5. InRam' = InRam - n
  BY <1>1, <1>3, <1>4, Known
<1>6. pendingNumDocs' = pendingNumDocs - (n + 1)
  BY <1>2, <1>4
<1>7. /\ InSegments' = InSegments /\ InQueue' = InQueue /\ InFlushes' = InFlushes
      /\ Reserving' = Reserving - 1 /\ Indexing' = Indexing - 1 /\ Adding' = Adding
  BY <1>2, <1>3
<1>8. pendingNumDocs' = InSegments' + InQueue' + InRam' + InFlushes' + Reserving' + AddedDocs * Adding'
  <2>1. PICK rest \in Nat : rest = AddedDocs * Adding /\ rest = AddedDocs * Adding'
    BY <1>7, Known
  <2>2. pendingNumDocs = InSegments + InQueue + InRam + InFlushes + Reserving + rest
    BY <2>1, Known
  <2>3. pendingNumDocs' = InSegments + InQueue + (InRam - n) + InFlushes + (Reserving - 1) + rest
    BY <1>4, <1>6, <2>1, <2>2, Known
  <2> QED BY <1>5, <1>7, <2>1, <2>3
<1>9. InSegments' + InQueue' + InRam' + InFlushes' + Indexing' <= ActualMaxDocs
  BY <1>4, <1>5, <1>7, Known
<1> QED BY <1>8, <1>9, SumsNext

LEMMA TicketCounts ==
  ASSUME Inv, DocTypes', NEW t \in Threads, AddFlushTicket(t)
  PROVE  Counts'
<1>1. /\ pendingNumDocs' = pendingNumDocs /\ InSegments' = InSegments
      /\ at[t] = "pending" /\ at'[t] = "flush" /\ ram' = ram /\ flushing' = flushing
      /\ \A u \in Threads \ {t} : at'[u] = at[u]
  BY DEF AddFlushTicket, Goto, InSegments, segVars, Inv, AtTypes, Actors
<1>2. InQueue' = InQueue
  <2>1. PICK x : x = [docs |-> flushing[t], phase |-> "flush"]
    OBVIOUS
  <2>2. x.phase # "flushed" /\ tickets' = Append(tickets, x) /\ tickets \in Seq(TicketType)
    BY <2>1 DEF AddFlushTicket, Inv, DocTypes
  <2> QED BY <2>2, AppendDocs DEF InQueue
<1>3. /\ InRam' = InRam /\ InFlushes' = InFlushes /\ Adding' = Adding
      /\ Reserving' = Reserving /\ Indexing' = Indexing
  BY <1>1, ThreadCounts, Known
<1> QED BY <1>1, <1>2, <1>3, Known, SumsNext

LEMMA AddSegmentCounts ==
  ASSUME Inv, DocTypes', NEW t \in Threads, AddSegment(t)
  PROVE  Counts'
<1>1. /\ pendingNumDocs' = pendingNumDocs /\ InSegments' = InSegments
      /\ at[t] = "flush" /\ at'[t] = "flushed" /\ ram' = ram /\ flushing' = flushing
      /\ \A u \in Threads \ {t} : at'[u] = at[u]
  BY DEF AddSegment, Goto, InSegments, segVars, Inv, AtTypes, Actors
<1>2. InQueue' = InQueue + Cardinality(flushing[t])
  BY <1>1, MarkedFlushed DEF AddSegment, Inv
<1>3. /\ InRam' = InRam /\ InFlushes' = InFlushes - Cardinality(flushing[t]) /\ Adding' = Adding
      /\ Reserving' = Reserving /\ Indexing' = Indexing /\ Cardinality(flushing[t]) \in Nat
  BY <1>1, ThreadCounts, Known
<1> QED BY <1>1, <1>2, <1>3, Known, SumsNext

LEMMA FlushFailsCounts ==
  ASSUME Inv, DocTypes', NEW t \in Threads, FlushFails(t)
  PROVE  Counts'
<1>1. /\ pendingNumDocs' = pendingNumDocs - Cardinality(flushing[t]) /\ InSegments' = InSegments
      /\ at[t] = "flush" /\ at'[t] = "flushFailed" /\ ram' = ram /\ flushing' = flushing
      /\ \A u \in Threads \ {t} : at'[u] = at[u]
  BY DEF FlushFails, Goto, InSegments, segVars, Inv, AtTypes, Actors
<1>2. InQueue' = InQueue
  BY <1>1, MarkedFailed DEF FlushFails, Inv
<1>3. /\ InRam' = InRam /\ InFlushes' = InFlushes - Cardinality(flushing[t]) /\ Adding' = Adding
      /\ Reserving' = Reserving /\ Indexing' = Indexing /\ Cardinality(flushing[t]) \in Nat
  BY <1>1, ThreadCounts, Known
<1> QED BY <1>1, <1>2, <1>3, Known, SumsNext

LEMMA AfterFlushCounts ==
  ASSUME Inv, DocTypes', NEW t \in Threads, DoAfterFlush(t)
  PROVE  Counts'
<1>1. /\ pendingNumDocs' = pendingNumDocs /\ InSegments' = InSegments /\ InQueue' = InQueue
      /\ at[t] \in {"flushed", "flushFailed"} /\ at'[t] \in {"publish", "idle"} /\ ram' = ram
      /\ \A u \in Threads \ {t} : at'[u] = at[u] /\ flushing'[u] = flushing[u]
  BY DEF DoAfterFlush, Goto, InSegments, InQueue, segVars, queueVars, Inv, AtTypes, DocTypes, Actors
<1>2. /\ InRam' = InRam /\ InFlushes' = InFlushes /\ Adding' = Adding
      /\ Reserving' = Reserving /\ Indexing' = Indexing
  BY <1>1, ThreadCounts, Known
<1> QED BY <1>1, <1>2, Known, SumsNext

\* A step of no thread, that takes n documents off the count, and off the segments or the queue
LEMMA CountsLess ==
  ASSUME Inv, DocTypes', NEW n \in Nat, pendingNumDocs' = pendingNumDocs - n,
         InSegments' + InQueue' = InSegments + InQueue - n,
         ram' = ram, flushing' = flushing,
         \A t \in Threads : at'[t] = at[t] \/ (at[t] \notin Counted /\ at'[t] \notin Counted)
  PROVE  Counts'
<1>1. /\ InRam' = InRam /\ InFlushes' = InFlushes
      /\ Reserving' = Reserving /\ Indexing' = Indexing /\ Adding' = Adding
  BY ThreadsStay
<1>2. InSegments' \in Nat /\ InQueue' \in Nat
  BY NaturalsNext
<1>3. pendingNumDocs' = InSegments' + InQueue' + InRam' + InFlushes' + Reserving' + AddedDocs * Adding'
  BY <1>1, <1>2, Known
<1>4. InSegments' + InQueue' + InRam' + InFlushes' + Indexing' <= ActualMaxDocs
  BY <1>1, <1>2, Known
<1> QED BY <1>3, <1>4, SumsNext

LEMMA PublishCounts ==
  ASSUME Inv, DocTypes', NEW a \in Actors, PublishFlushedSegment(a)
  PROVE  Counts'
<1>1. /\ tickets # <<>> /\ tickets' = Tail(tickets) /\ Head(tickets).phase # "flush"
      /\ ram' = ram /\ flushing' = flushing /\ at' = at
  BY DEF PublishFlushedSegment, CanPublish
<1>2. DocTypes /\ Apart
  BY DEF Inv
<1>3. /\ InQueue' = InQueue - DroppedDocs(Head(tickets)) /\ DroppedDocs(Head(tickets)) \in Nat
  BY <1>1, <1>2, TailCount
<1>4. 1 \in DOMAIN tickets /\ Head(tickets) = tickets[1] /\ tickets[1].phase \in {"flush", "flushed", "failed"}
  <2>1. tickets \in Seq(TicketType)
    BY <1>2 DEF DocTypes
  <2>2. 1 \in DOMAIN tickets /\ Head(tickets) = tickets[1] /\ tickets[1] \in TicketType
    BY <1>1, <2>1, TailIs
  <2> QED BY <2>2 DEF TicketType
<1>5. PICK s : s = Segment(tickets[1].docs, 0)
  OBVIOUS
<1>6. s.docs = tickets[1].docs
  BY <1>5, SegmentDocs
<1>7. CASE tickets[1].phase = "failed"
  <2>1. DroppedDocs(Head(tickets)) = 0 /\ pendingNumDocs' = pendingNumDocs /\ segmentInfos' = segmentInfos
    BY <1>4, <1>7 DEF DroppedDocs, PublishFlushedSegment
  <2>2. InSegments' = InSegments
    BY <2>1 DEF InSegments
  <2> QED BY <1>1, <1>3, <2>1, <2>2, Known, CountsStay
<1>8. CASE tickets[1].phase = "flushed" /\ FullyDeleted(s)
  <2>1. DroppedDocs(Head(tickets)) = Cardinality(s.docs)
    BY <1>4, <1>6, <1>8 DEF DroppedDocs
  <2>2. pendingNumDocs' = pendingNumDocs - Cardinality(s.docs) /\ segmentInfos' = segmentInfos
    BY <1>4, <1>5, <1>8 DEF PublishFlushedSegment
  <2>3. InSegments' = InSegments
    BY <2>2 DEF InSegments
  <2>4. InSegments' + InQueue' = InSegments + InQueue - Cardinality(s.docs) /\ Cardinality(s.docs) \in Nat
    BY <1>3, <2>1, <2>3, Known
  <2> QED BY <1>1, <2>2, <2>4, CountsLess
<1>9. CASE tickets[1].phase = "flushed" /\ ~FullyDeleted(s)
  <2>1. DroppedDocs(Head(tickets)) = Cardinality(s.docs)
    BY <1>4, <1>6, <1>9 DEF DroppedDocs
  <2>2. pendingNumDocs' = pendingNumDocs /\ segmentInfos' = segmentInfos \cup {s}
    BY <1>4, <1>5, <1>9 DEF PublishFlushedSegment
  <2>3. s \notin segmentInfos /\ IsFiniteSet(s.docs)
    BY <1>2, <1>4, <1>6, FinitesNow DEF Apart, TicketsApart, DocTypes
  <2>4. InSegments' = InSegments + Cardinality(s.docs) /\ Cardinality(s.docs) \in Nat
    BY <1>2, <2>2, <2>3, SegmentAdded DEF InSegments
  <2>5. InSegments' + InQueue' = InSegments + InQueue - 0 /\ pendingNumDocs' = pendingNumDocs - 0
    BY <1>3, <2>1, <2>2, <2>4, Known
  <2> QED BY <1>1, <2>5, CountsLess
<1> QED BY <1>1, <1>4, <1>7, <1>8, <1>9

LEMMA DroppedSegmentCounts ==
  ASSUME Inv, DocTypes', NEW s, dropDeletedSegment(s), IsFiniteSet(s.docs),
         tickets' = tickets, ram' = ram, flushing' = flushing, at' = at
  PROVE  Counts'
<1>1. InQueue' = InQueue /\ DocTypes /\ pool \subseteq segmentInfos
  BY DEF InQueue, Inv, DocTypes
<1>2. CASE segmentInfos' = segmentInfos /\ pendingNumDocs' = pendingNumDocs
  BY <1>1, <1>2, CountsStay
<1>3. CASE /\ s \in segmentInfos /\ segmentInfos' = segmentInfos \ {s}
           /\ pendingNumDocs' = pendingNumDocs - Cardinality(s.docs)
  <2>1. PICK S : S = {s}
    OBVIOUS
  <2>2. S \in SUBSET segmentInfos /\ segmentInfos' = segmentInfos \ S
    BY <1>3, <2>1
  <2>3. NumDocs(S) = Cardinality(s.docs) /\ Cardinality(s.docs) \in Nat
    BY <2>1, NumDocsOne
  <2>4. InSegments' = InSegments - NumDocs(S)
    BY <1>1, <2>2, SegmentsRemoved DEF InSegments
  <2>5. InSegments' + InQueue' = InSegments + InQueue - Cardinality(s.docs)
    BY <1>1, <2>3, <2>4, Known
  <2> QED BY <1>3, <2>3, <2>5, CountsLess
<1>4. segmentInfos \ {s} = segmentInfos \/ s \in segmentInfos
  OBVIOUS
<1> QED BY <1>1, <1>2, <1>3, <1>4 DEF dropDeletedSegment

LEMMA CommitMergeCounts ==
  ASSUME Inv, DocTypes', NEW m \in merges, CommitMerge(m)
  PROVE  Counts'
<1>1. /\ tickets' = tickets /\ ram' = ram /\ flushing' = flushing /\ at' = at
  BY DEF CommitMerge, queueVars
<1>2. InQueue' = InQueue
  BY <1>1 DEF InQueue
<1>3. CASE m.aborted \/ tragedy
  <2>1. segmentInfos' = segmentInfos /\ pendingNumDocs' = pendingNumDocs
    BY <1>3 DEF CommitMerge
  <2> QED BY <1>1, <1>2, <2>1, CountsStay
<1>4. CASE ~(m.aborted \/ tragedy)
  <2>1. PICK S \in SUBSET segmentInfos : S = m.segments
    BY DEF Inv, MergesOwn
  <2>2. PICK D : D = m.info.docs
    OBVIOUS
  <2>3. D \in SUBSET (UNION {s.docs : s \in S})
    BY <2>1, <2>2 DEF Inv, MergesOwn
  <2>4. IsFiniteSet(D) /\ Cardinality(D) \in Nat /\ NumDocs(S) \in Nat /\ Cardinality(D) <= NumDocs(S)
    BY <2>3, MergedCount, Known
  <2>5. NumDocs(segmentInfos \ S) = InSegments - NumDocs(S)
    BY SegmentsRemoved, Known
  <2>6. CASE DropsMerged(m)
    <3>1. segmentInfos' = segmentInfos \ S /\ pendingNumDocs' = pendingNumDocs - NumDocs(S)
      BY <1>4, <2>1, <2>6 DEF CommitMerge, DelDocCount
    <3>2. InSegments' + InQueue' = InSegments + InQueue - NumDocs(S)
      BY <1>2, <2>4, <2>5, <3>1, Known DEF InSegments
    <3> QED BY <1>1, <2>4, <3>1, <3>2, CountsLess
  <2>7. CASE ~DropsMerged(m)
    <3>1. PICK T \in SUBSET segmentInfos : T = segmentInfos \ S
      OBVIOUS
    <3>2. PICK i : i = m.info
      OBVIOUS
    <3>3. segmentInfos' = T \cup {i} /\ pendingNumDocs' = pendingNumDocs - (NumDocs(S) - Cardinality(D))
      BY <1>4, <2>1, <2>2, <2>7, <3>1, <3>2 DEF CommitMerge, DelDocCount
    <3>4. i \notin T
      <4>1. PICK d : d \in i.docs
        BY <2>7, <3>2 DEF DropsMerged, FullyDeleted
      <4>2. PICK s \in S : d \in s.docs
        BY <2>2, <2>3, <3>2, <4>1
      <4> QED BY <3>1, <4>1, <4>2 DEF Inv, Apart, SegmentsApart
    <3>5. NumDocs(T \cup {i}) = NumDocs(T) + Cardinality(D)
      BY <2>2, <2>4, <3>2, <3>4, SegmentAdded, Known
    <3>6. PICK n \in Nat : n = NumDocs(S) - Cardinality(D)
      BY <2>4
    <3>7. InSegments' + InQueue' = InSegments + InQueue - n
      BY <1>2, <2>4, <2>5, <3>1, <3>3, <3>5, <3>6, Known DEF InSegments
    <3> QED BY <1>1, <3>3, <3>6, <3>7, CountsLess
  <2> QED BY <2>6, <2>7
<1> QED BY <1>3, <1>4

LEMMA DropTicketCounts ==
  ASSUME Inv, DocTypes', DropTicket
  PROVE  Counts'
<1>1. /\ tickets # <<>> /\ tickets' = Tail(tickets)
      /\ pendingNumDocs' = pendingNumDocs - DroppedDocs(Head(tickets))
      /\ segmentInfos' = segmentInfos /\ ram' = ram /\ flushing' = flushing /\ at' = at
  BY DEF DropTicket, CanPublish, segVars
<1>2. InSegments' = InSegments
  BY <1>1 DEF InSegments
<1>3. InQueue' = InQueue - DroppedDocs(Head(tickets)) /\ DroppedDocs(Head(tickets)) \in Nat
  BY <1>1, TailCount, Known
<1>4. InSegments' + InQueue' = InSegments + InQueue - DroppedDocs(Head(tickets))
  BY <1>2, <1>3, Known
<1> QED BY <1>1, <1>3, <1>4, CountsLess

LEMMA ClearIndexCounts ==
  ASSUME Inv, DocTypes', ClearIndex
  PROVE  Counts'
<1>1. /\ pendingNumDocs' = pendingNumDocs - InSegments /\ tickets' = tickets /\ ram' = ram /\ flushing' = flushing
      /\ \A t \in Threads : at'[t] = at[t]
  BY Distinct DEF ClearIndex, Goto, Inv, AtTypes, InSegments, queueVars
<1>2. InSegments' = 0 /\ InQueue' = InQueue
  BY <1>1, NumDocsNone DEF ClearIndex, InSegments, InQueue
<1>3. InSegments' + InQueue' = InSegments + InQueue - InSegments
  BY <1>2, Known
<1> QED BY <1>1, <1>3, CountsLess, Known

LEMMA AbortStateCounts ==
  ASSUME Inv, DocTypes', NEW a \in Aborters, NEW t \in Threads, AbortThreadState(a, t)
  PROVE  Counts'
<1>1. Cardinality(ram'[t]) = 0
  BY FS_EmptySet DEF AbortThreadState, Inv, DocTypes
<1>2. /\ pendingNumDocs' = pendingNumDocs - Cardinality(ram[t])
      /\ flushing' = flushing /\ at' = at
      /\ InSegments' = InSegments /\ InQueue' = InQueue
      /\ \A u \in Threads \ {t} : ram'[u] = ram[u]
  BY DEF AbortThreadState, InSegments, InQueue, segVars, queueVars, Inv, DocTypes
<1>3. /\ InRam' = InRam - Cardinality(ram[t]) + Cardinality(ram'[t]) /\ Cardinality(ram[t]) \in Nat
      /\ InFlushes' = InFlushes /\ Reserving' = Reserving /\ Indexing' = Indexing
      /\ Adding' = Adding
  BY <1>2, ThreadCounts, Known
<1>4. InRam' = InRam - Cardinality(ram[t])
  BY <1>1, <1>3, Known
<1>5. pendingNumDocs' = InSegments' + InQueue' + InRam' + InFlushes' + Reserving' + AddedDocs * Adding'
  BY <1>2, <1>3, <1>4, Known
<1>6. InSegments' + InQueue' + InRam' + InFlushes' + Indexing' <= ActualMaxDocs
  BY <1>2, <1>3, <1>4, Known
<1> QED BY <1>5, <1>6, SumsNext

LEMMA InsertCounts ==
  ASSUME Inv, DocTypes', NEW t \in Threads, InsertCopied(t)
  PROVE  Counts'
<1>1. /\ tickets' = tickets /\ ram' = ram /\ flushing' = flushing
      /\ at[t] = "copied" /\ at'[t] \in {"idle", "takeBackDocs"} /\ \A u \in Threads \ {t} : at'[u] = at[u]
  BY DEF InsertCopied, Goto, queueVars, Inv, AtTypes, Actors
<1>2. InQueue' = InQueue
  BY <1>1 DEF InQueue
<1>3. /\ InRam' = InRam /\ InFlushes' = InFlushes /\ Reserving' = Reserving /\ Indexing' = Indexing
      /\ Adding' = Adding + (IF at'[t] = "takeBackDocs" THEN 1 ELSE 0)
  BY <1>1, ThreadCounts, Known
<1>4. CASE closing \/ closed
  <2>1. pendingNumDocs' = pendingNumDocs /\ segmentInfos' = segmentInfos /\ at'[t] = "idle"
    BY <1>4 DEF InsertCopied, Goto, Inv, AtTypes, Actors
  <2>2. InSegments' = InSegments /\ Adding' = Adding
    BY <1>3, <2>1, Known DEF InSegments
  <2> QED BY <1>2, <1>3, <2>1, <2>2, Known, SumsNext
<1>5. CASE ~(closing \/ closed) /\ Exceeds(pendingNumDocs + AddedDocs)
  <2>1. pendingNumDocs' = pendingNumDocs + AddedDocs /\ segmentInfos' = segmentInfos /\ at'[t] = "takeBackDocs"
    BY <1>5 DEF InsertCopied, Goto, Inv, AtTypes, Actors
  <2>2. InSegments' = InSegments /\ Adding' = Adding + 1
    BY <1>3, <2>1, Known DEF InSegments
  <2>3. AddedDocs * Adding' = AddedDocs * Adding + AddedDocs /\ AddedDocs \in Nat
    BY <2>2, AddedNat, Known
  <2> QED BY <1>2, <1>3, <2>1, <2>2, <2>3, Known, SumsNext
<1>6. CASE ~(closing \/ closed) /\ ~Exceeds(pendingNumDocs + AddedDocs)
  <2>1. PICK s : s = Segment((numbered + 1) .. (numbered + AddedDocs), 0)
    OBVIOUS
  <2>2. pendingNumDocs' = pendingNumDocs + AddedDocs /\ segmentInfos' = segmentInfos \cup {s} /\ at'[t] = "idle"
    BY <1>6, <2>1 DEF InsertCopied, Goto, Inv, AtTypes, Actors
  <2>3. numbered \in Nat /\ AddedDocs \in Nat /\ AddedDocs > 0
    BY DocsAssumption, Known DEF DocTypes
  <2>4. s.docs = (numbered + 1) .. (numbered + AddedDocs)
    BY <2>1, SegmentDocs
  <2>5. IsFiniteSet(s.docs) /\ Cardinality(s.docs) = AddedDocs
    <3>1. PICK x, y : x = numbered + 1 /\ y = numbered + AddedDocs
      OBVIOUS
    <3>2. x \in Int /\ y \in Int /\ ~(x > y) /\ y - x + 1 = AddedDocs
      BY <2>3, <3>1
    <3>3. IsFiniteSet(x .. y) /\ Cardinality(x .. y) = y - x + 1
      BY <3>2, FS_Interval
    <3> QED BY <2>4, <3>1, <3>2, <3>3
  <2>6. s \notin segmentInfos
    <3>1. numbered + 1 \in s.docs /\ numbered + 1 \notin Numbers
      BY <2>3, <2>4 DEF Numbers
    <3> QED BY <3>1, Known DEF DocTypes, IsSegment
  <2>7. InSegments' = InSegments + AddedDocs
    BY <2>2, <2>5, <2>6, SegmentAdded, Known DEF InSegments
  <2>8. Adding' = Adding
    BY <1>3, <2>2, Known
  <2>9. pendingNumDocs + AddedDocs <= ActualMaxDocs
    BY <1>6, <2>3, Known DEF Exceeds
  <2> QED BY <1>2, <1>3, <2>2, <2>3, <2>7, <2>8, <2>9, Known, SumsNext
<1> QED BY <1>4, <1>5, <1>6

LEMMA TakeBackDocsCounts ==
  ASSUME Inv, DocTypes', NEW t \in Threads, TakeBackDocs(t)
  PROVE  Counts'
<1>1. /\ ram' = ram /\ flushing' = flushing /\ pendingNumDocs' = pendingNumDocs - AddedDocs
      /\ InSegments' = InSegments /\ InQueue' = InQueue
      /\ at[t] = "takeBackDocs" /\ at'[t] = "idle" /\ \A u \in Threads \ {t} : at'[u] = at[u]
  BY DEF TakeBackDocs, Goto, segVars, queueVars, Inv, AtTypes, Actors, InSegments, InQueue
<1>2. /\ InRam' = InRam /\ InFlushes' = InFlushes /\ Reserving' = Reserving /\ Indexing' = Indexing
      /\ Adding' = Adding - 1
  BY <1>1, ThreadCounts, Known
<1>3. Adding > 0
  BY <1>2, NaturalsNext, Known
<1>4. AddedDocs * Adding' = AddedDocs * Adding - AddedDocs /\ AddedDocs \in Nat
  BY <1>2, <1>3, AddedNat, Known
<1> QED BY <1>1, <1>2, <1>4, Known, SumsNext

\* When the rollback comes to its last step, only segments have documents.
LEMMA QuietCounts ==
  ASSUME DocTypes, FlushesOwn, ShutDown, at[Closer] \in {"rollback", "done"}, WriterFree
  PROVE  InQueue = 0 /\ InRam = 0 /\ InFlushes = 0 /\ Reserving = 0 /\ Adding = 0
<1>1. /\ tickets = <<>> /\ \A t \in Threads : ram[t] = {} /\ at[t] \notin Locked /\ flushing[t] = {}
  BY DEF ShutDown, QueueShut, WritersShut, FlushesShut, Shut
<1>2. InQueue = 0
  <2>1. \A i \in DOMAIN FlushedDocs(tickets) : FALSE
    BY <1>1 DEF FlushedDocs
  <2> QED BY <2>1, TotalNone DEF InQueue
<1>3. InRam = 0
  BY <1>1, TotalNone DEF InRam, DocTypes
<1>4. InFlushes = 0
  <2>1. \A t \in DOMAIN FlushingDocs : FlushingDocs[t] = {}
    BY <1>1 DEF FlushingDocs, At
  <2> QED BY <2>1, TotalNone DEF InFlushes
<1>5. At({"takeBack", "index"}) = {} /\ At({"takeBackDocs"}) = {}
  BY <1>1 DEF At, Locked, WriterFree
<1>6. Reserving = 0 /\ Adding = 0
  BY <1>5, FS_EmptySet DEF Reserving, Adding
<1> QED BY <1>2, <1>3, <1>4, <1>6

LEMMA RollbackCounts ==
  ASSUME Inv, DocTypes', RollbackSegmentInfos
  PROVE  Counts'
<1>1. /\ pendingNumDocs' = pendingNumDocs - (InSegments - Committed)
      /\ tickets' = tickets /\ ram' = ram /\ flushing' = flushing
      /\ \A t \in Threads : at'[t] = at[t]
  BY Distinct, CommittedCount DEF RollbackSegmentInfos, Goto, Inv, AtTypes, InSegments, queueVars,
     rollbackSegments
<1>2. InQueue = 0 /\ InRam = 0 /\ InFlushes = 0 /\ Reserving = 0 /\ Adding = 0
  BY QuietCounts DEF RollbackSegmentInfos, Inv
<1>3. Indexing = 0
  BY <1>2, Known
<1>4. InSegments' = Committed
  BY CommittedCount DEF RollbackSegmentInfos, InSegments, rollbackSegments
<1>5. InQueue' = InQueue
  BY <1>1 DEF InQueue
<1>6. /\ InRam' = InRam /\ InFlushes' = InFlushes
      /\ Reserving' = Reserving /\ Indexing' = Indexing /\ Adding' = Adding
  BY <1>1, ThreadsStay
<1>7. Committed \in Nat /\ Committed <= ActualMaxDocs
  BY DocsAssumption
<1>8. AddedDocs * Adding = 0 /\ AddedDocs * Adding' = 0
  BY <1>2, <1>6, DocsAssumption
<1>9. pendingNumDocs' = Committed
  BY <1>1, <1>2, <1>7, <1>8, Known
<1> QED BY <1>2, <1>3, <1>4, <1>5, <1>6, <1>7, <1>8, <1>9, Known, SumsNext

LEMMA CountsStep ==
  ASSUME Inv, DocTypes', Next
  PROVE  Counts'
<1>1. CASE \E t \in Threads : StartUpdate(t)
  <2>1. /\ pendingNumDocs' = pendingNumDocs /\ segmentInfos' = segmentInfos /\ tickets' = tickets
        /\ ram' = ram /\ flushing' = flushing
        /\ \A u \in Threads : at'[u] = at[u] \/ (at[u] \notin Counted /\ at'[u] \notin Counted)
    BY <1>1, Known, Distinct DEF AtTypes, StartUpdate, Goto, Aborters, Counted, segVars, stateVars,
       queueVars, lifeVars
  <2> QED BY <2>1, CountsStay DEF InQueue
<1>2. CASE \E t \in Threads : ObtainAndLock(t)
  <2>1. /\ pendingNumDocs' = pendingNumDocs /\ segmentInfos' = segmentInfos /\ tickets' = tickets
        /\ ram' = ram /\ flushing' = flushing
        /\ \A u \in Threads : at'[u] = at[u] \/ (at[u] \notin Counted /\ at'[u] \notin Counted)
    BY <1>2, Known, Distinct DEF AtTypes, ObtainAndLock, Goto, Aborters, Counted, segVars, queueVars, lifeVars
  <2> QED BY <2>1, CountsStay DEF InQueue
<1>3. CASE \E t \in Threads : ReserveOneDoc(t)
  BY <1>3, ReserveCounts
<1>4. CASE \E t \in Threads : TakeBackOneDoc(t)
  BY <1>4, TakeBackCounts
<1>5. CASE \E t \in Threads : \E fails, flush \in BOOLEAN : Index(t, fails, flush)
  BY <1>5, IndexCounts
<1>6. CASE \E t \in Threads : AbortingException(t)
  BY <1>6, AbortingCounts
<1>7. CASE \E t \in Threads : AddFlushTicket(t)
  BY <1>7, TicketCounts
<1>8. CASE \E t \in Threads : AddSegment(t)
  BY <1>8, AddSegmentCounts
<1>9. CASE \E t \in Threads : FlushFails(t)
  BY <1>9, FlushFailsCounts
<1>10. CASE \E t \in Threads : DoAfterFlush(t)
  BY <1>10, AfterFlushCounts
<1>11. CASE \E t \in Threads : TryPurge(t)
  <2>1. /\ pendingNumDocs' = pendingNumDocs /\ segmentInfos' = segmentInfos /\ tickets' = tickets
        /\ ram' = ram /\ flushing' = flushing
        /\ \A u \in Threads : at'[u] = at[u] \/ (at[u] \notin Counted /\ at'[u] \notin Counted)
    BY <1>11, Known, Distinct DEF AtTypes, TryPurge, Goto, Aborters, Counted, segVars, stateVars, lifeVars
  <2> QED BY <2>1, CountsStay DEF InQueue
<1>12. CASE \E t \in Threads : StartAddIndexes(t)
  <2>1. /\ pendingNumDocs' = pendingNumDocs /\ segmentInfos' = segmentInfos /\ tickets' = tickets
        /\ ram' = ram /\ flushing' = flushing
        /\ \A u \in Threads : at'[u] = at[u] \/ (at[u] \notin Counted /\ at'[u] \notin Counted)
    BY <1>12, Known, Distinct DEF AtTypes, StartAddIndexes, Goto, Aborters, Counted, segVars, stateVars,
       queueVars, lifeVars
  <2> QED BY <2>1, CountsStay DEF InQueue
<1>13. CASE \E t \in Threads : InsertCopied(t)
  BY <1>13, InsertCounts
<1>14. CASE \E t \in Threads : TakeBackDocs(t)
  BY <1>14, TakeBackDocsCounts
<1>15. CASE \E a \in Actors : ForcePurge(a)
  <2>1. /\ pendingNumDocs' = pendingNumDocs /\ segmentInfos' = segmentInfos /\ tickets' = tickets
        /\ ram' = ram /\ flushing' = flushing
        /\ \A u \in Threads : at'[u] = at[u] \/ (at[u] \notin Counted /\ at'[u] \notin Counted)
    BY <1>15, Known, Distinct DEF AtTypes, ForcePurge, Goto, Aborters, Counted, segVars, stateVars, lifeVars
  <2> QED BY <2>1, CountsStay DEF InQueue
<1>16. CASE \E a \in Actors : PublishFlushedSegment(a)
  BY <1>16, PublishCounts
<1>17. CASE \E a \in Actors : EndPurge(a)
  <2>1. /\ pendingNumDocs' = pendingNumDocs /\ segmentInfos' = segmentInfos /\ tickets' = tickets
        /\ ram' = ram /\ flushing' = flushing
        /\ \A u \in Threads : at'[u] = at[u] \/ (at[u] \notin Counted /\ at'[u] \notin Counted)
    BY <1>17, Known, Distinct DEF AtTypes, EndPurge, Goto, Aborters, Counted, segVars, stateVars, lifeVars
  <2> QED BY <2>1, CountsStay DEF InQueue
<1>18. CASE \E a \in Actors : ProcessEvents(a)
  <2>1. /\ pendingNumDocs' = pendingNumDocs /\ segmentInfos' = segmentInfos /\ tickets' = tickets
        /\ ram' = ram /\ flushing' = flushing
        /\ \A u \in Threads : at'[u] = at[u] \/ (at[u] \notin Counted /\ at'[u] \notin Counted)
    BY <1>18, Known, Distinct DEF AtTypes, ProcessEvents, Goto, Aborters, Counted, segVars, stateVars,
       lifeVars
  <2> QED BY <2>1, CountsStay DEF InQueue
<1>19. CASE StartDeleteAll
  <2>1. /\ pendingNumDocs' = pendingNumDocs /\ segmentInfos' = segmentInfos /\ tickets' = tickets
        /\ ram' = ram /\ flushing' = flushing
        /\ \A u \in Threads : at'[u] = at[u] \/ (at[u] \notin Counted /\ at'[u] \notin Counted)
    BY <1>19, Known, Distinct DEF AtTypes, StartDeleteAll, Goto, Aborters, Counted, segVars, stateVars,
       queueVars, lifeVars
  <2> QED BY <2>1, CountsStay DEF InQueue
<1>20. CASE DropTicket
  BY <1>20, DropTicketCounts
<1>21. CASE CountThreadStates
  <2>1. /\ pendingNumDocs' = pendingNumDocs /\ segmentInfos' = segmentInfos /\ tickets' = tickets
        /\ ram' = ram /\ flushing' = flushing
        /\ \A u \in Threads : at'[u] = at[u] \/ (at[u] \notin Counted /\ at'[u] \notin Counted)
    BY <1>21, Known, Distinct DEF AtTypes, CountThreadStates, Goto, Aborters, Counted, segVars, stateVars,
       queueVars, lifeVars
  <2> QED BY <2>1, CountsStay DEF InQueue
<1>22. CASE SetAbort
  <2>1. /\ pendingNumDocs' = pendingNumDocs /\ segmentInfos' = segmentInfos /\ tickets' = tickets
        /\ ram' = ram /\ flushing' = flushing
        /\ \A u \in Threads : at'[u] = at[u] \/ (at[u] \notin Counted /\ at'[u] \notin Counted)
    BY <1>22, Known, Distinct DEF AtTypes, SetAbort, Goto, Aborters, Counted, segVars, queueVars, lifeVars
  <2> QED BY <2>1, CountsStay DEF InQueue
<1>23. CASE ClearIndex
  BY <1>23, ClearIndexCounts
<1>24. CASE UnlockAll
  <2>1. /\ pendingNumDocs' = pendingNumDocs /\ segmentInfos' = segmentInfos /\ tickets' = tickets
        /\ ram' = ram /\ flushing' = flushing
        /\ \A u \in Threads : at'[u] = at[u] \/ (at[u] \notin Counted /\ at'[u] \notin Counted)
    BY <1>24, Known, Distinct DEF AtTypes, UnlockAll, Goto, Aborters, Counted, segVars, queueVars, lifeVars
  <2> QED BY <2>1, CountsStay DEF InQueue
<1>25. CASE StartRollback
  <2>1. /\ pendingNumDocs' = pendingNumDocs /\ segmentInfos' = segmentInfos /\ tickets' = tickets
        /\ ram' = ram /\ flushing' = flushing
        /\ \A u \in Threads : at'[u] = at[u] \/ (at[u] \notin Counted /\ at'[u] \notin Counted)
    BY <1>25, Known, Distinct DEF AtTypes, StartRollback, Goto, Aborters, Counted, segVars, stateVars,
       queueVars
  <2> QED BY <2>1, CountsStay DEF InQueue
<1>26. CASE CloseDocWriter
  <2>1. /\ pendingNumDocs' = pendingNumDocs /\ segmentInfos' = segmentInfos /\ tickets' = tickets
        /\ ram' = ram /\ flushing' = flushing
        /\ \A u \in Threads : at'[u] = at[u] \/ (at[u] \notin Counted /\ at'[u] \notin Counted)
    BY <1>26, Known, Distinct DEF AtTypes, CloseDocWriter, Goto, Aborters, Counted, segVars, stateVars,
       queueVars
  <2> QED BY <2>1, CountsStay DEF InQueue
<1>27. CASE RollbackSegmentInfos
  BY <1>27, RollbackCounts
<1>28. CASE \E a \in Aborters, t \in Threads : AbortThreadState(a, t)
  BY <1>28, AbortStateCounts
<1>29. CASE \E a \in Aborters : WaitForFlush(a)
  <2>1. /\ pendingNumDocs' = pendingNumDocs /\ segmentInfos' = segmentInfos /\ tickets' = tickets
        /\ ram' = ram /\ flushing' = flushing
        /\ \A u \in Threads : at'[u] = at[u] \/ (at[u] \notin Counted /\ at'[u] \notin Counted)
    BY <1>29, Known, Distinct DEF AtTypes, WaitForFlush, Goto, Aborters, Counted, segVars, stateVars,
       queueVars, lifeVars
  <2> QED BY <2>1, CountsStay DEF InQueue
<1>30. CASE \E a \in Aborters : AbortMerges(a)
  <2>1. /\ pendingNumDocs' = pendingNumDocs /\ segmentInfos' = segmentInfos /\ tickets' = tickets
        /\ ram' = ram /\ flushing' = flushing
        /\ \A u \in Threads : at'[u] = at[u] \/ (at[u] \notin Counted /\ at'[u] \notin Counted)
    BY <1>30, Known, Distinct DEF AtTypes, AbortMerges, Goto, Aborters, Counted, segVars, stateVars, queueVars
  <2> QED BY <2>1, CountsStay DEF InQueue
<1>31. CASE \E s \in segmentInfos : StartApply(s)
  <2>1. /\ pendingNumDocs' = pendingNumDocs /\ segmentInfos' = segmentInfos /\ tickets' = tickets
        /\ ram' = ram /\ flushing' = flushing
        /\ \A u \in Threads : at'[u] = at[u] \/ (at[u] \notin Counted /\ at'[u] \notin Counted)
    BY <1>31, Known, Distinct DEF AtTypes, StartApply, Aborters, Counted, stateVars, queueVars, lifeVars
  <2> QED BY <2>1, CountsStay DEF InQueue
<1>32. CASE \E s \in segmentInfos : WriteReaderPool(s)
  <2>1. PICK s \in segmentInfos : WriteReaderPool(s)
    BY <1>32
  <2>2. dropDeletedSegment(s) /\ tickets' = tickets /\ ram' = ram /\ flushing' = flushing /\ at' = at
    BY <2>1 DEF WriteReaderPool, queueVars
  <2>3. s.docs \in SUBSET (1 .. numbered) /\ numbered \in Nat
    BY DEF Inv, DocTypes, IsSegment, Numbers
  <2> QED BY <2>2, <2>3, DocsFinite, DroppedSegmentCounts
<1>33. CASE \E s \in packets : FinishApply(s)
  <2>1. PICK s \in packets : FinishApply(s)
    BY <1>33
  <2>2. dropDeletedSegment(s) /\ tickets' = tickets /\ ram' = ram /\ flushing' = flushing /\ at' = at
    BY <2>1 DEF FinishApply, queueVars
  <2>3. s.docs \in SUBSET (1 .. numbered) /\ numbered \in Nat
    BY DEF Inv, DocTypes, IsSegment, Numbers
  <2> QED BY <2>2, <2>3, DocsFinite, DroppedSegmentCounts
<1>34. CASE \E S \in SUBSET segmentInfos : StartMerge(S)
  <2>1. /\ pendingNumDocs' = pendingNumDocs /\ segmentInfos' = segmentInfos /\ tickets' = tickets
        /\ ram' = ram /\ flushing' = flushing
        /\ \A u \in Threads : at'[u] = at[u] \/ (at[u] \notin Counted /\ at'[u] \notin Counted)
    BY <1>34, Known, Distinct DEF AtTypes, StartMerge, Aborters, Counted, stateVars, queueVars, lifeVars
  <2> QED BY <2>1, CountsStay DEF InQueue
<1>35. CASE \E m \in merges : CommitMerge(m)
  BY <1>35, CommitMergeCounts
<1>36. CASE \E m \in merges : MergeFails(m)
  <2>1. /\ pendingNumDocs' = pendingNumDocs /\ segmentInfos' = segmentInfos /\ tickets' = tickets
        /\ ram' = ram /\ flushing' = flushing
        /\ \A u \in Threads : at'[u] = at[u] \/ (at[u] \notin Counted /\ at'[u] \notin Counted)
    BY <1>36, Known, Distinct DEF AtTypes, MergeFails, Aborters, Counted, segVars, stateVars, queueVars
  <2> QED BY <2>1, CountsStay DEF InQueue
<1>37. CASE UNCHANGED vars
  <2>1. /\ pendingNumDocs' = pendingNumDocs /\ segmentInfos' = segmentInfos /\ tickets' = tickets
        /\ ram' = ram /\ flushing' = flushing
        /\ \A u \in Threads : at'[u] = at[u] \/ (at[u] \notin Counted /\ at'[u] \notin Counted)
    BY <1>37, Known, Distinct DEF AtTypes, vars, Counted, segVars, stateVars, queueVars, lifeVars
  <2> QED BY <2>1, CountsStay DEF InQueue
<1> QED BY NextSteps, <1>1, <1>2, <1>3, <1>4, <1>5, <1>6, <1>7, <1>8, <1>9, <1>10, <1>11, <1>12, <1>13,
           <1>14, <1>15, <1>16, <1>17, <1>18, <1>19, <1>20, <1>21, <1>22, <1>23, <1>24, <1>25, <1>26, <1>27,
           <1>28, <1>29, <1>30, <1>31, <1>32, <1>33, <1>34, <1>35, <1>36, <1>37

------------------------------------------------------------------------------
LEMMA InitInv ==
  ASSUME NoWorkloadHasAllThree, Init
  PROVE  Inv
<1>0. \A f, x : f = [t \in Threads |-> {}] => (x \in Threads => f[x] = {})
  OBVIOUS
<1>1. DocTypes
  <2>1. segmentInfos \subseteq SegmentType /\ IsFiniteSet(segmentInfos) /\ \A s \in segmentInfos : IsSegment(s)
    <3>1. PICK n \in Nat : n = numbered /\ Committed <= n
      BY DocsAssumption DEF Init
    <3>2. PICK gen \in Nat \cup {-1} : gen = 0
      OBVIOUS
    <3>3. segmentInfos = CommittedSegments(gen)
      BY <3>2 DEF Init
    <3> QED BY <3>1, <3>2, <3>3, CommittedTypes DEF IsSegment, Numbers
  <2> QED BY <2>1, DocsAssumption DEF Init, DocTypes, Numbers
<1>2. AtTypes
  BY Distinct DEF Init, AtTypes, ThreadPlaces, DeleterPlaces, CloserPlaces
<1>3. LifeTypes
  BY WorkloadsAssumption DEF Init, LifeTypes, Aborters
<1>4. MergesOwn
  BY DEF Init, MergesOwn
<1>5. Apart
  BY DEF Init, Apart, SegmentsApart, TicketsApart, WritersApart, Waiting, CommittedSegments, Actors
<1>6. FlushesOwn
  BY DEF Init, FlushesOwn, InFlush, Actors
<1>7. LocksHeld
  BY DEF Init, LocksHeld, Locked, Actors
<1>8. ShutDown
  BY Distinct DEF Init, ShutDown, ClosingPlaces, WritersShut, FlushesShut, QueueShut, AddsShut, MergesShut,
     Shut
<1>9. NeverAllThree
  BY Distinct DEF Init, NeverAllThree, NoWorkloadHasAllThree
<1>10. Counts
  <2>1. InSegments = Committed /\ pendingNumDocs = Committed
    BY CommittedCount DEF Init, InSegments
  <2>2. InQueue = 0
    <3>1. \A i \in DOMAIN FlushedDocs(tickets) : FALSE
      BY DEF FlushedDocs, Init
    <3> QED BY <3>1, TotalNone DEF InQueue
  <2>3. InRam = 0
    BY TotalNone DEF Init, InRam
  <2>4. InFlushes = 0
    <3>1. \A t \in DOMAIN FlushingDocs : FlushingDocs[t] = {}
      BY DEF FlushingDocs, At, Init
    <3> QED BY <3>1, TotalNone DEF InFlushes
  <2>5. At({"takeBack", "index"}) = {} /\ At({"takeBackDocs"}) = {} /\ At({"index"}) = {}
    BY DEF At, Init, Actors
  <2>6. Reserving = 0 /\ Adding = 0 /\ Indexing = 0
    BY <2>5, FS_EmptySet DEF Reserving, Adding, Indexing
  <2>7. AddedDocs * Adding = 0 /\ Committed \in Nat /\ Committed <= ActualMaxDocs
    BY <2>6, DocsAssumption
  <2> QED BY <1>1, <2>1, <2>2, <2>3, <2>4, <2>6, <2>7, Sums
<1> QED BY <1>1, <1>2, <1>3, <1>4, <1>5, <1>6, <1>7, <1>8, <1>9, <1>10 DEF Inv, Counts

LEMMA NextInv ==
  ASSUME Inv, [Next]_vars
  PROVE  Inv'
<1>1. CASE Next
  <2>1. /\ DocTypes' /\ AtTypes' /\ LifeTypes' /\ MergesOwn' /\ Apart'
        /\ FlushesOwn' /\ LocksHeld' /\ ShutDown' /\ NeverAllThree'
    BY <1>1, DocTypesStep, AtTypesStep, LifeTypesStep, MergesOwnStep, ApartStep, FlushesOwnStep,
       LocksHeldStep,
       ShutDownStep, NeverAllThreeStep DEF Inv
  <2> QED BY <1>1, <2>1, CountsStep DEF Inv, Counts
<1>2. CASE UNCHANGED vars
  <2>1. DocTypes' /\ AtTypes' /\ LifeTypes'
    BY <1>2 DEF Inv, vars, segVars, stateVars, queueVars, lifeVars, DocTypes, IsSegment, Numbers, AtTypes,
       LifeTypes
  <2>2. MergesOwn' /\ Apart' /\ FlushesOwn' /\ LocksHeld'
    BY <1>2 DEF Inv, vars, segVars, stateVars, queueVars, lifeVars, MergesOwn, Apart, SegmentsApart,
       TicketsApart,
       WritersApart, Waiting, FlushesOwn, LocksHeld
  <2>3. ShutDown' /\ NeverAllThree'
    BY <1>2 DEF Inv, vars, segVars, stateVars, queueVars, lifeVars, ShutDown, ClosingPlaces, WritersShut,
       FlushesShut, QueueShut, AddsShut, WriterFree, MergesShut, NeverAllThree
  <2>4. Counts'
    BY <1>2, <2>1, CountsStay DEF vars, segVars, queueVars, InQueue
  <2> QED BY <2>1, <2>2, <2>3, <2>4 DEF Inv, Counts
<1> QED BY <1>1, <1>2

LEMMA InvTypeOK == Inv => TypeOK
<1> SUFFICES ASSUME Inv PROVE TypeOK
  OBVIOUS
<1>1. pendingNumDocs \in Nat
  BY Known
<1>2. \A s \in segmentInfos \cup pool \cup packets :
        s.docs # {} /\ s.docs \subseteq 1 .. numbered /\ s.gen \in Nat \cup {-1}
  BY DEF Inv, DocTypes, IsSegment, Numbers
<1>3. \A m \in merges : Cardinality(m.segments) = 2 /\ m.aborted \in BOOLEAN
  BY DEF Inv, MergesOwn, MergeType
<1>4. \A i \in DOMAIN tickets : tickets[i].phase \in {"flush", "flushed", "failed"}
  <2>1. tickets \in Seq(TicketType)
    BY DEF Inv, DocTypes
  <2>2. \A i \in DOMAIN tickets : tickets[i] \in TicketType
    BY <2>1
  <2> QED BY <2>2 DEF TicketType
<1>5. /\ dead \subseteq 1 .. numbered /\ old \subseteq 1 .. numbered
      /\ \A t \in Threads : ram[t] \cup flushing[t] \subseteq 1 .. numbered
  BY DEF Inv, DocTypes, Numbers
<1>6. DOMAIN at = Actors
  BY DEF Inv, AtTypes
<1>7. /\ created \subseteq Threads
      /\ holder \in [Threads -> Actors \cup {None}] /\ purgeLock \in Actors \cup {None}
      /\ todo \in [Aborters -> SUBSET Threads]
      /\ {poolAborted, backlog, docWriterClosed, closing, closed, stopMerges, tragedy} \subseteq BOOLEAN
  BY DEF Inv, LifeTypes
<1> QED BY <1>1, <1>2, <1>3, <1>4, <1>5, <1>6, <1>7 DEF TypeOK

LEMMA InvDocsCounted == Inv => DocsCounted
<1> SUFFICES ASSUME Inv PROVE DocsCounted
  OBVIOUS
<1>1. ASSUME closed PROVE pendingNumDocs = NumDocs(segmentInfos)
  <2>1. at[Closer] = "done" /\ WriterFree
    BY <1>1 DEF Inv, ShutDown, ClosingPlaces, AddsShut
  <2>2. InQueue = 0 /\ InRam = 0 /\ InFlushes = 0 /\ Reserving = 0 /\ Adding = 0
    BY <2>1, QuietCounts DEF Inv
  <2>3. AddedDocs * Adding = 0
    BY <2>2, DocsAssumption
  <2> QED BY <2>2, <2>3, Known DEF InSegments
<1> QED BY <1>1 DEF Inv, DocsCounted, RollbackIsBalanced

LEMMA InvLimitHolds == Inv => LimitHolds
<1> SUFFICES ASSUME Inv PROVE LimitHolds
  OBVIOUS
<1>1. Documents = InSegments + InQueue + InRam + InFlushes
  BY DEF Documents, InSegments, InQueue, InRam, InFlushes
<1> QED BY <1>1, Known DEF LimitHolds

\* Every reachable state satisfies the inductive invariant, for any threads, limit and
\* workloads of which none has merges, a deleteAll and a rollback together.
THEOREM Invariant ==
  ASSUME NoWorkloadHasAllThree
  PROVE  Spec => []Inv
<1>1. Init => Inv
  BY InitInv
<1>2. Inv /\ [Next]_vars => Inv'
  BY NextInv
<1> QED BY <1>1, <1>2, PTL DEF Spec

\* The count never goes below zero, and segments, tickets and DWPTs hold no document that was
\* not given to the writer (DocumentsWriter.cpp, IndexWriter.cpp: every change of pendingNumDocs).
THEOREM Typing ==
  ASSUME NoWorkloadHasAllThree
  PROVE  Spec => []TypeOK
BY Invariant, InvTypeOK, PTL

\* Whatever fails, is aborted or rolled back, pendingNumDocs is the number of documents that the
\* writer holds or has reserved, and after a rollback that of the commit.
THEOREM Exactness ==
  ASSUME NoWorkloadHasAllThree
  PROVE  Spec => []DocsCounted
BY Invariant, InvDocsCounted, PTL

\* No interleaving of reservations, flushes, merges and addIndexes brings more documents into
\* the index than actualMaxDocs.
THEOREM Limit ==
  ASSUME NoWorkloadHasAllThree
  PROVE  Spec => []LimitHolds
BY Invariant, InvLimitHolds, PTL

=============================================================================
