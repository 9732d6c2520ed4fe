------------------------ MODULE MergeSchedulingProofs ------------------------
EXTENDS MergeScheduling, FiniteSetTheorems, SequenceTheorems,
        WellFoundedInduction, TLAPS

------------------------------------------------------------------------------
\* The invariant, as predicates of the writer w and of the places of the threads

IsMerge(r) ==
  /\ r = [segs |-> r.segs, registered |-> r.registered, aborted |-> r.aborted,
          forced |-> r.forced, gen |-> r.gen, named |-> r.named, size |-> r.size]
  /\ r.registered \in BOOLEAN

IsWriter(w) ==
  w = [infos |-> w.infos, merges |-> w.merges, pending |-> w.pending, running |-> w.running,
       merging |-> w.merging, toMerge |-> w.toMerge, mergeGen |-> w.mergeGen,
       exceptions |-> w.exceptions, stop |-> w.stop, closing |-> w.closing,
       closed |-> w.closed, tragedy |-> w.tragedy]

Shape(w) ==
  /\ IsWriter(w)
  /\ IsFiniteSet(DOMAIN w.infos)
  /\ Len(w.merges) \in Nat /\ w.merges = [m \in 1 .. Len(w.merges) |-> w.merges[m]]
  /\ \A m \in DOMAIN w.merges : IsMerge(w.merges[m])
  /\ w.pending \in Seq(Nat)
  /\ w.stop \in BOOLEAN /\ w.closing \in BOOLEAN /\ w.closed \in BOOLEAN

\* The segments of the registered merges are marked, no two share one, and
\* registered are exactly those that are pending, each once, or running.
Owned(w) ==
  /\ w.merging = UNION {w.merges[m].segs : m \in {n \in DOMAIN w.merges : w.merges[n].registered}}
  /\ \A m, n \in DOMAIN w.merges :
       w.merges[m].registered /\ w.merges[n].registered /\ m # n
         => w.merges[m].segs \cap w.merges[n].segs = {}
  /\ \A m \in DOMAIN w.merges :
       w.merges[m].registered <=> m \in Range(w.pending) \/ m \in w.running
  /\ Range(w.pending) \subseteq DOMAIN w.merges /\ w.running \subseteq DOMAIN w.merges
  /\ Range(w.pending) \cap w.running = {}
  /\ \A i, j \in DOMAIN w.pending : w.pending[i] = w.pending[j] => i = j

------------------------------------------------------------------------------
\* What the operations of the writer do to its merges

Same(w, v) ==
  /\ v.infos = w.infos /\ v.stop = w.stop /\ v.closing = w.closing /\ v.closed = w.closed
  /\ v.tragedy = w.tragedy /\ v.exceptions = w.exceptions /\ v.toMerge = w.toMerge

\* A new merge: one that is not forced has no segment which forceMerge wants.
Begun(w, r) == ~r.aborted /\ (r.forced \/ r.segs \cap w.toMerge = {})

\* v is w with more merges registered.
Grown(w, v) ==
  /\ Shape(v) /\ Owned(v) /\ Same(w, v)
  /\ v.running = w.running
  /\ DOMAIN w.merges \subseteq DOMAIN v.merges
  /\ \A m \in DOMAIN w.merges : v.merges[m] = w.merges[m]
  /\ \A m \in DOMAIN v.merges \ DOMAIN w.merges :
       /\ m \in Range(v.pending) /\ v.merges[m].segs \subseteq DOMAIN v.infos
       /\ Begun(v, v.merges[m])
  /\ Range(v.pending) \subseteq Range(w.pending) \cup (DOMAIN v.merges \ DOMAIN w.merges)

LEMMA ShapeMerges ==
  ASSUME NEW w, Shape(w)
  PROVE  DOMAIN w.merges = 1 .. Len(w.merges) /\ Len(w.merges) \in Nat
BY DEF Shape

LEMMA GrownAtFirst ==
  ASSUME NEW w, Shape(w), Owned(w)
  PROVE  Grown(w, w)
BY DEF Grown, Same

LEMMA GrownTwice ==
  ASSUME NEW u, NEW v, NEW w, Grown(u, v), Grown(v, w)
  PROVE  Grown(u, w)
<1>1. Shape(w) /\ Owned(w) /\ Same(u, w) /\ w.running = u.running
  BY DEF Grown, Same
<1>2. /\ DOMAIN u.merges \subseteq DOMAIN w.merges
      /\ \A m \in DOMAIN u.merges : w.merges[m] = u.merges[m]
  BY DEF Grown
<1>3. ASSUME NEW m \in DOMAIN w.merges \ DOMAIN u.merges
      PROVE  /\ m \in Range(w.pending) /\ w.merges[m].segs \subseteq DOMAIN w.infos
             /\ Begun(w, w.merges[m])
  <2>1. CASE m \in DOMAIN v.merges
    <3>1. /\ m \in Range(v.pending) /\ v.merges[m].segs \subseteq DOMAIN v.infos
          /\ Begun(v, v.merges[m])
      BY <2>1 DEF Grown
    <3>2. v.merges[m].registered
      BY <2>1, <3>1 DEF Grown, Owned
    <3>3. w.merges[m] = v.merges[m] /\ w.infos = v.infos /\ w.toMerge = v.toMerge
      BY <2>1 DEF Grown, Same
    <3>4. m \in Range(w.pending) \/ m \in w.running
      BY <3>2, <3>3 DEF Grown, Owned
    <3>5. m \notin v.running /\ w.running = v.running
      BY <3>1 DEF Grown, Owned
    <3> QED BY <3>1, <3>3, <3>4, <3>5 DEF Begun
  <2>2. CASE m \notin DOMAIN v.merges
    BY <2>2 DEF Grown
  <2> QED BY <2>1, <2>2
<1>4. Range(w.pending) \subseteq Range(u.pending) \cup (DOMAIN w.merges \ DOMAIN u.merges)
  BY DEF Grown
<1> QED BY <1>1, <1>2, <1>3, <1>4 DEF Grown

\* What Register does when it does something
NewMerge(w, segs, forced) ==
  [segs |-> segs, registered |-> TRUE, aborted |-> FALSE,
   forced |-> forced \/ segs \cap w.toMerge # {},
   gen |-> w.mergeGen, named |-> FALSE,
   size |-> MapThenSumSet(LAMBDA s : w.infos[s], segs)]

LEMMA RegisterFields ==
  ASSUME NEW w, IsWriter(w), NEW segs, NEW forced,
         segs \cap w.merging = {}, segs \subseteq DOMAIN w.infos
  PROVE  /\ IsWriter(Register(w, segs, forced))
         /\ Same(w, Register(w, segs, forced))
         /\ Register(w, segs, forced).running = w.running
         /\ Register(w, segs, forced).merges = Append(w.merges, NewMerge(w, segs, forced))
         /\ Register(w, segs, forced).pending = Append(w.pending, Len(w.merges) + 1)
         /\ Register(w, segs, forced).merging = w.merging \cup segs
<1> DEFINE r == NewMerge(w, segs, forced)
<1>1. Register(w, segs, forced)
        = [w EXCEPT !.merges = Append(@, r), !.pending = Append(@, Len(w.merges) + 1),
                    !.merging = @ \cup segs]
  BY DEF Register, NewMerge
<1> HIDE DEF r
<1>2. Register(w, segs, forced) =
        [infos |-> w.infos, merges |-> Append(w.merges, r),
         pending |-> Append(w.pending, Len(w.merges) + 1), running |-> w.running,
         merging |-> w.merging \cup segs, toMerge |-> w.toMerge, mergeGen |-> w.mergeGen,
         exceptions |-> w.exceptions, stop |-> w.stop, closing |-> w.closing,
         closed |-> w.closed, tragedy |-> w.tragedy]
  BY <1>1 DEF IsWriter
<1> QED BY <1>2 DEF r, IsWriter, Same

LEMMA MergesAppended ==
  ASSUME NEW w, Shape(w), NEW r
  PROVE  /\ Len(Append(w.merges, r)) = Len(w.merges) + 1
         /\ DOMAIN Append(w.merges, r) = 1 .. Len(w.merges) + 1
         /\ Append(w.merges, r) = [m \in 1 .. Len(w.merges) + 1 |-> Append(w.merges, r)[m]]
         /\ \A m \in DOMAIN w.merges : Append(w.merges, r)[m] = w.merges[m]
         /\ Append(w.merges, r)[Len(w.merges) + 1] = r
<1> DEFINE S == {w.merges[m] : m \in 1 .. Len(w.merges)} \cup {r}
<1>1. w.merges \in Seq(S)
  BY DEF Shape
<1>2. r \in S
  OBVIOUS
<1> HIDE DEF S
<1>3. /\ Append(w.merges, r) \in Seq(S)
      /\ Len(Append(w.merges, r)) = Len(w.merges) + 1
      /\ \A i \in 1 .. Len(w.merges) : Append(w.merges, r)[i] = w.merges[i]
      /\ Append(w.merges, r)[Len(w.merges) + 1] = r
  BY <1>1, <1>2, AppendProperties
<1> QED BY <1>1, <1>3, ShapeMerges

LEMMA PendingAppended ==
  ASSUME NEW w, Shape(w), NEW n \in Nat
  PROVE  /\ Append(w.pending, n) \in Seq(Nat)
         /\ DOMAIN Append(w.pending, n) = 1 .. Len(w.pending) + 1
         /\ DOMAIN w.pending = 1 .. Len(w.pending) /\ Len(w.pending) \in Nat
         /\ \A i \in DOMAIN w.pending : Append(w.pending, n)[i] = w.pending[i]
         /\ Append(w.pending, n)[Len(w.pending) + 1] = n
         /\ Range(Append(w.pending, n)) = Range(w.pending) \cup {n}
<1>1. w.pending \in Seq(Nat)
  BY DEF Shape
<1>2. /\ Append(w.pending, n) \in Seq(Nat)
      /\ Len(Append(w.pending, n)) = Len(w.pending) + 1
      /\ \A i \in 1 .. Len(w.pending) : Append(w.pending, n)[i] = w.pending[i]
      /\ Append(w.pending, n)[Len(w.pending) + 1] = n
  BY <1>1, AppendProperties
<1>3. /\ DOMAIN w.pending = 1 .. Len(w.pending) /\ Len(w.pending) \in Nat
      /\ DOMAIN Append(w.pending, n) = 1 .. Len(w.pending) + 1
  BY <1>1, <1>2
<1>4. Range(Append(w.pending, n)) = Range(w.pending) \cup {n}
  BY <1>2, <1>3 DEF Range
<1> QED BY <1>2, <1>3, <1>4

LEMMA RegisterGrows ==
  ASSUME NEW w, Shape(w), Owned(w), NEW segs, NEW forced
  PROVE  Grown(w, Register(w, segs, forced))
<1>1. CASE segs \cap w.merging # {} \/ ~(segs \subseteq DOMAIN w.infos)
  <2>1. Register(w, segs, forced) = w
    BY <1>1 DEF Register
  <2> QED BY <2>1, GrownAtFirst
<1>2. CASE segs \cap w.merging = {} /\ segs \subseteq DOMAIN w.infos
  <2> DEFINE v == Register(w, segs, forced)
             r == NewMerge(w, segs, forced)
             k == Len(w.merges) + 1
  <2>1. /\ IsWriter(v) /\ Same(w, v) /\ v.running = w.running
        /\ v.merges = Append(w.merges, r) /\ v.pending = Append(w.pending, k)
        /\ v.merging = w.merging \cup segs
    BY <1>2, RegisterFields DEF Shape
  <2>2. IsMerge(r) /\ r.segs = segs /\ r.registered /\ Begun(w, r)
    BY DEF IsMerge, NewMerge, Begun
  <2>3. SUFFICES Grown(w, v)
    OBVIOUS
  <2> HIDE DEF v, r
  <2>4. k \in Nat /\ DOMAIN w.merges = 1 .. Len(w.merges) /\ Len(w.merges) \in Nat
    BY ShapeMerges
  <2>5. /\ Len(v.merges) = k /\ DOMAIN v.merges = 1 .. k
        /\ v.merges = [m \in 1 .. k |-> v.merges[m]]
        /\ \A m \in DOMAIN w.merges : v.merges[m] = w.merges[m]
        /\ v.merges[k] = r
    BY <2>1, MergesAppended
  <2>6. /\ v.pending \in Seq(Nat)
        /\ DOMAIN v.pending = 1 .. Len(w.pending) + 1
        /\ DOMAIN w.pending = 1 .. Len(w.pending) /\ Len(w.pending) \in Nat
        /\ \A i \in DOMAIN w.pending : v.pending[i] = w.pending[i]
        /\ v.pending[Len(w.pending) + 1] = k
        /\ Range(v.pending) = Range(w.pending) \cup {k}
    <3>1. k \in Nat
      BY <2>4
    <3> HIDE DEF k
    <3>2. /\ Append(w.pending, k) \in Seq(Nat)
          /\ DOMAIN Append(w.pending, k) = 1 .. Len(w.pending) + 1
          /\ DOMAIN w.pending = 1 .. Len(w.pending) /\ Len(w.pending) \in Nat
          /\ \A i \in DOMAIN w.pending : Append(w.pending, k)[i] = w.pending[i]
          /\ Append(w.pending, k)[Len(w.pending) + 1] = k
          /\ Range(Append(w.pending, k)) = Range(w.pending) \cup {k}
      BY <3>1, PendingAppended
    <3>3. v.pending = Append(w.pending, k)
      BY <2>1
    <3> QED BY <3>2, <3>3
  <2> HIDE DEF k
  <2>7. DOMAIN v.merges = DOMAIN w.merges \cup {k} /\ k \notin DOMAIN w.merges
    BY <2>4, <2>5 DEF k
  <2>8. \A m \in DOMAIN v.merges : m # k => m \in DOMAIN w.merges /\ v.merges[m] = w.merges[m]
    BY <2>5, <2>7
  <2>9. Shape(v)
    <3>1. \A m \in DOMAIN v.merges : IsMerge(v.merges[m])
      BY <2>2, <2>5, <2>8 DEF Shape
    <3> QED BY <2>1, <2>4, <2>5, <2>6, <3>1 DEF Shape, Same
  <2>10. \A m \in DOMAIN w.merges : w.merges[m].registered => w.merges[m].segs \subseteq w.merging
    BY DEF Owned
  <2>11. Owned(v)
    <3>1. v.merging =
            UNION {v.merges[m].segs : m \in {n \in DOMAIN v.merges : v.merges[n].registered}}
      <4>1. ASSUME NEW s \in v.merging
            PROVE  \E m \in DOMAIN v.merges : v.merges[m].registered /\ s \in v.merges[m].segs
        <5>1. CASE s \in segs
          BY <5>1, <2>2, <2>5, <2>7
        <5>2. CASE s \in w.merging
          <6>1. PICK m \in DOMAIN w.merges : w.merges[m].registered /\ s \in w.merges[m].segs
            BY <5>2 DEF Owned
          <6> QED BY <6>1, <2>5, <2>7
        <5> QED BY <2>1, <5>1, <5>2
      <4>2. ASSUME NEW m \in DOMAIN v.merges, v.merges[m].registered, NEW s \in v.merges[m].segs
            PROVE  s \in v.merging
        BY <4>2, <2>1, <2>2, <2>5, <2>8, <2>10
      <4> QED BY <4>1, <4>2
    <3>2. \A m, n \in DOMAIN v.merges :
            v.merges[m].registered /\ v.merges[n].registered /\ m # n
              => v.merges[m].segs \cap v.merges[n].segs = {}
      <4>1. ASSUME NEW m \in DOMAIN w.merges, w.merges[m].registered
            PROVE  w.merges[m].segs \cap segs = {}
        BY <1>2, <4>1, <2>10
      <4>2. ASSUME NEW m \in DOMAIN v.merges, NEW n \in DOMAIN v.merges,
                   v.merges[m].registered, v.merges[n].registered, m # n
            PROVE  v.merges[m].segs \cap v.merges[n].segs = {}
        <5>1. CASE m = k
          BY <5>1, <4>1, <4>2, <2>2, <2>5, <2>8
        <5>2. CASE n = k
          BY <5>2, <4>1, <4>2, <2>2, <2>5, <2>8
        <5>3. CASE m # k /\ n # k
          BY <5>3, <4>2, <2>8 DEF Owned
        <5> QED BY <5>1, <5>2, <5>3
      <4> QED BY <4>2
    <3>3. \A m \in DOMAIN v.merges :
            v.merges[m].registered <=> m \in Range(v.pending) \/ m \in v.running
      <4>1. v.merges[k].registered /\ k \in Range(v.pending)
        BY <2>2, <2>5, <2>6
      <4>2. ASSUME NEW m \in DOMAIN v.merges, m # k
            PROVE  v.merges[m].registered <=> m \in Range(v.pending) \/ m \in v.running
        <5>1. m \in DOMAIN w.merges /\ v.merges[m] = w.merges[m]
          BY <4>2, <2>8
        <5>2. w.merges[m].registered <=> m \in Range(w.pending) \/ m \in w.running
          BY <5>1 DEF Owned
        <5> QED BY <4>2, <5>1, <5>2, <2>1, <2>6
      <4> QED BY <4>1, <4>2
    <3>4. /\ Range(v.pending) \subseteq DOMAIN v.merges /\ v.running \subseteq DOMAIN v.merges
          /\ Range(v.pending) \cap v.running = {}
      BY <2>1, <2>6, <2>7 DEF Owned
    <3>5. ASSUME NEW i \in DOMAIN v.pending, NEW j \in DOMAIN v.pending, v.pending[i] = v.pending[j]
          PROVE  i = j
      <4>1. \A l \in DOMAIN w.pending : w.pending[l] # k
        BY <2>7 DEF Owned, Range
      <4>2. \A l \in DOMAIN v.pending : l = Len(w.pending) + 1 \/ l \in DOMAIN w.pending
        BY <2>6
      <4> QED BY <3>5, <4>1, <4>2, <2>6 DEF Owned
    <3> QED BY <3>1, <3>2, <3>3, <3>4, <3>5 DEF Owned
  <2>12. \A m \in DOMAIN v.merges \ DOMAIN w.merges :
           /\ m \in Range(v.pending) /\ v.merges[m].segs \subseteq DOMAIN v.infos
           /\ Begun(v, v.merges[m])
    BY <1>2, <2>1, <2>2, <2>5, <2>6, <2>7 DEF Same, Begun
  <2> QED BY <2>1, <2>5, <2>6, <2>7, <2>9, <2>11, <2>12 DEF Grown
<1> QED BY <1>1, <1>2

------------------------------------------------------------------------------
\* Several merges are registered one after the other.

LEMMA LeastIndex ==
  ASSUME NEW B, B \subseteq Nat, B # {}
  PROVE  \E n \in B : \A m \in B : ~(m < n)
<1>1. \E n \in B : \A m \in B : ~(<<m, n>> \in OpToRel(<, Nat))
  BY NatLessThanWellFounded, WFMin
<1>2. PICK n \in B : \A m \in B : ~(<<m, n>> \in OpToRel(<, Nat))
  BY <1>1
<1>3. \A m \in B : ~(m < n)
  BY <1>2 DEF OpToRel
<1> QED BY <1>3

\* after is the list of the writers up to the n-th merge.
Steps(w, spec, forced, n, after) ==
  after = [i \in 0 .. n |-> IF i = 0 THEN w ELSE Register(after[i - 1], spec[i], forced)]

LEMMA RegisterAllIs ==
  ASSUME NEW w, NEW spec, NEW forced
  PROVE  RegisterAll(w, spec, forced)
           = (CHOOSE after : Steps(w, spec, forced, Len(spec), after))[Len(spec)]
BY DEF RegisterAll, Steps

LEMMA StepsExist ==
  ASSUME NEW w, NEW spec, NEW forced, NEW n \in Nat
  PROVE  \E after : Steps(w, spec, forced, n, after)
<1> DEFINE B == {k \in Nat : ~ \E after : Steps(w, spec, forced, k, after)}
<1>1. SUFFICES ASSUME B # {}
               PROVE  FALSE
  OBVIOUS
<1>2. PICK k \in B : \A m \in B : ~(m < k)
  <2>1. B \subseteq Nat
    OBVIOUS
  <2> HIDE DEF B
  <2> QED BY <1>1, <2>1, LeastIndex
<1>3. CASE k = 0
  <2> DEFINE a == [i \in 0 .. 0 |-> w]
  <2>1. Steps(w, spec, forced, 0, a)
    BY DEF Steps
  <2> QED BY <1>3, <2>1
<1>4. CASE k # 0
  <2>1. k - 1 \in Nat /\ k - 1 < k /\ k \in Nat
    BY <1>4
  <2>2. k - 1 \notin B
    BY <1>2, <2>1
  <2>3. PICK a : Steps(w, spec, forced, k - 1, a)
    BY <2>1, <2>2
  <2> DEFINE b == [i \in 0 .. k |-> IF i = k THEN Register(a[k - 1], spec[k], forced) ELSE a[i]]
  <2>4. ASSUME NEW i \in 0 .. k
        PROVE  b[i] = IF i = 0 THEN w ELSE Register(b[i - 1], spec[i], forced)
    <3>1. CASE i = k
      <4>1. b[i] = Register(a[k - 1], spec[k], forced) /\ b[i - 1] = a[k - 1]
        BY <3>1, <2>1
      <4> QED BY <3>1, <4>1, <1>4
    <3>2. CASE i # k
      <4>1. i \in 0 .. k - 1
        BY <3>2, <2>1
      <4>2. a[i] = IF i = 0 THEN w ELSE Register(a[i - 1], spec[i], forced)
        BY <2>3, <4>1 DEF Steps
      <4>3. b[i] = a[i] /\ (i # 0 => b[i - 1] = a[i - 1])
        BY <3>2, <2>1
      <4> QED BY <4>2, <4>3
    <3> QED BY <3>1, <3>2
  <2>5. b = [i \in 0 .. k |-> b[i]]
    OBVIOUS
  <2> HIDE DEF b
  <2>6. Steps(w, spec, forced, k, b)
    BY <2>4, <2>5 DEF Steps
  <2> QED BY <1>2, <2>6
<1> QED BY <1>3, <1>4

LEMMA StepsGrow ==
  ASSUME NEW w, Shape(w), Owned(w), NEW spec, NEW forced, NEW n \in Nat,
         NEW after, Steps(w, spec, forced, n, after)
  PROVE  Grown(w, after[n])
<1> DEFINE B == {k \in Nat : k <= n /\ ~Grown(w, after[k])}
<1>1. SUFFICES ASSUME B # {}
               PROVE  FALSE
  OBVIOUS
<1>2. PICK k \in B : \A m \in B : ~(m < k)
  <2>1. B \subseteq Nat
    OBVIOUS
  <2> HIDE DEF B
  <2> QED BY <1>1, <2>1, LeastIndex
<1>3. k \in 0 .. n
  OBVIOUS
<1>4. CASE k = 0
  <2>1. after[k] = w
    BY <1>3, <1>4 DEF Steps
  <2> QED BY <2>1, GrownAtFirst
<1>5. CASE k # 0
  <2>1. k - 1 \in Nat /\ k - 1 < k /\ k - 1 <= n
    BY <1>5
  <2>2. Grown(w, after[k - 1])
    BY <1>2, <2>1
  <2>3. Grown(after[k - 1], Register(after[k - 1], spec[k], forced))
    BY <2>2, RegisterGrows DEF Grown
  <2>4. after[k] = Register(after[k - 1], spec[k], forced)
    BY <1>3, <1>5 DEF Steps
  <2> QED BY <2>2, <2>3, <2>4, GrownTwice
<1> QED BY <1>4, <1>5

LEMMA RegisterAllGrows ==
  ASSUME NEW w, Shape(w), Owned(w), NEW spec, Len(spec) \in Nat, NEW forced
  PROVE  Grown(w, RegisterAll(w, spec, forced))
<1> DEFINE after == CHOOSE a : Steps(w, spec, forced, Len(spec), a)
<1>1. Steps(w, spec, forced, Len(spec), after)
  BY StepsExist
<1>2. RegisterAll(w, spec, forced) = after[Len(spec)]
  BY RegisterAllIs
<1> HIDE DEF after
<1> QED BY <1>1, <1>2, StepsGrow

\* What findForcedMerges returns is a list.
LEMMA ForcedMergesLen ==
  ASSUME NEW w, Shape(w)
  PROVE  Len(ForcedMerges(w)) \in Nat
<1> DEFINE n == Cardinality((w.toMerge \cap DOMAIN w.infos) \ w.merging)
           full == (n - MaxSegmentCount + 1) \div AtOnce
<1>1. n \in Nat
  <2>1. IsFiniteSet((w.toMerge \cap DOMAIN w.infos) \ w.merging)
    BY FS_Subset DEF Shape
  <2> QED BY <2>1, FS_CardinalityType
<1>2. full \in Int
  BY <1>1, MergeSchedulingAssumption
<1>3. \/ ForcedMerges(w) = <<>>
      \/ full > 0 /\ DOMAIN ForcedMerges(w) = 1 .. full
           /\ ForcedMerges(w) = [i \in 1 .. full |-> ForcedMerges(w)[i]]
      \/ \E x : ForcedMerges(w) = <<x>>
  BY DEF ForcedMerges
<1> HIDE DEF full
<1>4. CASE full > 0 /\ DOMAIN ForcedMerges(w) = 1 .. full
             /\ ForcedMerges(w) = [i \in 1 .. full |-> ForcedMerges(w)[i]]
  <2> DEFINE f == ForcedMerges(w)
             S == {f[i] : i \in 1 .. full}
  <2>1. f \in [1 .. full -> S]
    BY <1>4
  <2> HIDE DEF f, S
  <2>2. f \in Seq(S)
    BY <1>2, <1>4, <2>1
  <2>3. Len(f) \in Nat
    BY <2>2
  <2> QED BY <2>3 DEF f
<1> QED BY <1>3, <1>4

LEMMA UpdateGrows ==
  ASSUME NEW w, Shape(w), Owned(w), NEW forced, NEW v \in UpdatePendingMerges(w, forced)
  PROVE  /\ Grown(w, v)
         /\ w.stop \/ w.tragedy => v = w
<1>1. CASE w.stop \/ w.tragedy
  BY <1>1, GrownAtFirst DEF UpdatePendingMerges
<1>2. CASE ~(w.stop \/ w.tragedy) /\ forced
  <2>1. v = RegisterAll(w, ForcedMerges(w), TRUE)
    BY <1>2 DEF UpdatePendingMerges
  <2> QED BY <1>2, <2>1, ForcedMergesLen, RegisterAllGrows
<1>3. CASE ~(w.stop \/ w.tragedy) /\ ~forced
  <2>1. PICK spec \in FoundMerges(w) : v = RegisterAll(w, spec, FALSE)
    BY <1>3 DEF UpdatePendingMerges
  <2>2. Len(spec) \in Nat
    BY DEF FoundMerges
  <2> QED BY <1>3, <2>1, <2>2, RegisterAllGrows
<1> QED BY <1>1, <1>2, <1>3

------------------------------------------------------------------------------
\* A merge leaves the queue, or ends.

LEMMA GetNextFields ==
  ASSUME NEW w, IsWriter(w)
  PROVE  /\ IsWriter(GetNextMerge(w))
         /\ Same(w, GetNextMerge(w))
         /\ GetNextMerge(w).merges = w.merges
         /\ GetNextMerge(w).merging = w.merging
         /\ GetNextMerge(w).pending = Tail(w.pending)
         /\ GetNextMerge(w).running = w.running \cup {Head(w.pending)}
<1> DEFINE t == Tail(w.pending)
           rs == w.running \cup {Head(w.pending)}
<1>1. GetNextMerge(w) = [w EXCEPT !.pending = t, !.running = rs]
  BY DEF GetNextMerge
<1> HIDE DEF t, rs
<1>2. GetNextMerge(w) =
        [infos |-> w.infos, merges |-> w.merges, pending |-> t, running |-> rs,
         merging |-> w.merging, toMerge |-> w.toMerge, mergeGen |-> w.mergeGen,
         exceptions |-> w.exceptions, stop |-> w.stop, closing |-> w.closing,
         closed |-> w.closed, tragedy |-> w.tragedy]
  BY <1>1 DEF IsWriter
<1> QED BY <1>2 DEF t, rs, IsWriter, Same

LEMMA PendingTail ==
  ASSUME NEW w, Shape(w), Owned(w), w.pending # <<>>
  PROVE  /\ Tail(w.pending) \in Seq(Nat)
         /\ Head(w.pending) \in Range(w.pending)
         /\ Range(Tail(w.pending)) = Range(w.pending) \ {Head(w.pending)}
         /\ \A i, j \in DOMAIN Tail(w.pending) : Tail(w.pending)[i] = Tail(w.pending)[j] => i = j
<1> DEFINE p == w.pending
           t == Tail(w.pending)
<1>1. p \in Seq(Nat) /\ p # <<>>
  BY DEF Shape
<1>2. /\ DOMAIN p = 1 .. Len(p) /\ Len(p) \in Nat /\ Len(p) >= 1
      /\ Head(p) = p[1]
      /\ t \in Seq(Nat) /\ DOMAIN t = 1 .. Len(p) - 1
      /\ \A i \in 1 .. Len(p) - 1 : t[i] = p[i + 1]
  <2> HIDE DEF p
  <2> SUFFICES /\ DOMAIN p = 1 .. Len(p) /\ Len(p) \in Nat /\ Len(p) >= 1
               /\ Head(p) = p[1]
               /\ Tail(p) \in Seq(Nat) /\ DOMAIN Tail(p) = 1 .. Len(p) - 1
               /\ \A i \in 1 .. Len(p) - 1 : Tail(p)[i] = p[i + 1]
    BY DEF p
  <2>1. DOMAIN p = 1 .. Len(p) /\ Len(p) \in Nat /\ Head(p) = p[1]
    BY <1>1
  <2>2. /\ Tail(p) \in Seq(Nat) /\ Len(Tail(p)) = Len(p) - 1
        /\ \A i \in 1 .. Len(Tail(p)) : Tail(p)[i] = p[i + 1]
    BY <1>1, HeadTailProperties
  <2> QED BY <2>1, <2>2
<1>3. \A i, j \in DOMAIN p : p[i] = p[j] => i = j
  BY DEF Owned
<1> HIDE DEF p, t
<1>4. \A x : x \in Range(p) <=> \E i \in 1 .. Len(p) : x = p[i]
  BY <1>2 DEF Range
<1>5. \A x : x \in Range(t) <=> \E i \in 1 .. Len(p) - 1 : x = t[i]
  BY <1>2 DEF Range
<1>6. ASSUME NEW x \in Range(t)
      PROVE  x \in Range(p) /\ x # Head(p)
  <2>1. PICK i \in 1 .. Len(p) - 1 : x = t[i]
    BY <1>5
  <2>2. i + 1 \in 1 .. Len(p) /\ i + 1 # 1 /\ x = p[i + 1]
    BY <1>2, <2>1
  <2> QED BY <1>2, <1>3, <1>4, <2>2
<1>7. ASSUME NEW x \in Range(p), x # Head(p)
      PROVE  x \in Range(t)
  <2>1. PICK i \in 1 .. Len(p) : x = p[i]
    BY <1>4
  <2>2. i # 1
    BY <1>2, <1>7, <2>1
  <2>3. i - 1 \in 1 .. Len(p) - 1 /\ x = t[i - 1]
    BY <1>2, <2>1, <2>2
  <2> QED BY <1>5, <2>3
<1>8. \A i, j \in DOMAIN t : t[i] = t[j] => i = j
  <2>1. ASSUME NEW i \in 1 .. Len(p) - 1, NEW j \in 1 .. Len(p) - 1, t[i] = t[j]
        PROVE  i = j
    <3>1. p[i + 1] = p[j + 1] /\ i + 1 \in 1 .. Len(p) /\ j + 1 \in 1 .. Len(p)
      BY <1>2, <2>1
    <3>2. i + 1 = j + 1
      BY <1>2, <1>3, <3>1
    <3> QED BY <3>2
  <2> QED BY <1>2, <2>1
<1>9. Head(p) \in Range(p)
  BY <1>2, <1>4
<1>10. Range(t) = Range(p) \ {Head(p)}
  BY <1>6, <1>7
<1> QED BY <1>2, <1>8, <1>9, <1>10 DEF p, t

LEMMA GetNextOwned ==
  ASSUME NEW w, Shape(w), Owned(w), w.pending # <<>>
  PROVE  Shape(GetNextMerge(w)) /\ Owned(GetNextMerge(w))
<1> DEFINE v == GetNextMerge(w)
           h == Head(w.pending)
<1>1. /\ IsWriter(v) /\ Same(w, v) /\ v.merges = w.merges /\ v.merging = w.merging
      /\ v.pending = Tail(w.pending) /\ v.running = w.running \cup {h}
  BY GetNextFields DEF Shape
<1>2. /\ v.pending \in Seq(Nat) /\ h \in Range(w.pending)
      /\ Range(v.pending) = Range(w.pending) \ {h}
      /\ \A i, j \in DOMAIN v.pending : v.pending[i] = v.pending[j] => i = j
  BY <1>1, PendingTail
<1> SUFFICES Shape(v) /\ Owned(v)
  OBVIOUS
<1> HIDE DEF v, h
<1>3. Shape(v)
  BY <1>1, <1>2 DEF Shape, Same
<1>4. Owned(v)
  <2>1. /\ Range(w.pending) \subseteq DOMAIN w.merges /\ w.running \subseteq DOMAIN w.merges
        /\ Range(w.pending) \cap w.running = {}
        /\ \A m \in DOMAIN w.merges :
             w.merges[m].registered <=> m \in Range(w.pending) \/ m \in w.running
    BY DEF Owned
  <2>2. \A m \in DOMAIN v.merges :
          v.merges[m].registered <=> m \in Range(v.pending) \/ m \in v.running
    BY <1>1, <1>2, <2>1
  <2>3. /\ Range(v.pending) \subseteq DOMAIN v.merges /\ v.running \subseteq DOMAIN v.merges
        /\ Range(v.pending) \cap v.running = {}
    BY <1>1, <1>2, <2>1
  <2>4. /\ v.merging = UNION {v.merges[m].segs :
                                m \in {n \in DOMAIN v.merges : v.merges[n].registered}}
        /\ \A m, n \in DOMAIN v.merges :
             v.merges[m].registered /\ v.merges[n].registered /\ m # n
               => v.merges[m].segs \cap v.merges[n].segs = {}
    BY <1>1 DEF Owned
  <2> QED BY <1>2, <2>2, <2>3, <2>4 DEF Owned
<1> QED BY <1>3, <1>4

\* v is w when the merges of a set are given up; what becomes of the queue is
\* left open.
GivenUp(w, v, gone) ==
  /\ IsWriter(v)
  /\ v.infos = w.infos /\ v.closing = w.closing /\ v.closed = w.closed
  /\ v.tragedy = w.tragedy /\ v.exceptions = w.exceptions
  /\ v.running = w.running \ gone
  /\ v.merging = w.merging \ UNION {w.merges[m].segs :
                                      m \in {n \in gone : w.merges[n].registered}}
  /\ Len(v.merges) \in Nat /\ v.merges = [m \in 1 .. Len(v.merges) |-> v.merges[m]]
  /\ DOMAIN v.merges = DOMAIN w.merges
  /\ \A m \in DOMAIN w.merges :
       /\ IsMerge(v.merges[m]) /\ v.merges[m].segs = w.merges[m].segs
       /\ v.merges[m].registered <=> w.merges[m].registered /\ m \notin gone

LEMMA GivenUpOwned ==
  ASSUME NEW w, Shape(w), Owned(w), NEW v, NEW gone, GivenUp(w, v, gone),
         gone \subseteq DOMAIN w.merges,
         v.stop \in BOOLEAN, v.pending \in Seq(Nat),
         Range(v.pending) = Range(w.pending) \ gone,
         \A i, j \in DOMAIN v.pending : v.pending[i] = v.pending[j] => i = j
  PROVE  Shape(v) /\ Owned(v)
<1>1. Shape(v)
  BY DEF Shape, GivenUp
<1>2. Owned(v)
  <2>1. v.merging =
          UNION {v.merges[m].segs : m \in {n \in DOMAIN v.merges : v.merges[n].registered}}
    <3>1. ASSUME NEW s \in v.merging
          PROVE  \E m \in DOMAIN v.merges : v.merges[m].registered /\ s \in v.merges[m].segs
      <4>1. PICK m \in DOMAIN w.merges : w.merges[m].registered /\ s \in w.merges[m].segs
        BY DEF Owned, GivenUp
      <4>2. m \notin gone
        BY <4>1 DEF GivenUp
      <4> QED BY <4>1, <4>2 DEF GivenUp
    <3>2. ASSUME NEW m \in DOMAIN v.merges, v.merges[m].registered, NEW s \in v.merges[m].segs
          PROVE  s \in v.merging
      <4>1. /\ m \in DOMAIN w.merges /\ w.merges[m].registered
            /\ m \notin gone /\ s \in w.merges[m].segs
        BY <3>2 DEF GivenUp
      <4>2. s \in w.merging
        BY <4>1 DEF Owned
      <4>3. \A n \in gone : w.merges[n].registered => s \notin w.merges[n].segs
        BY <4>1 DEF Owned
      <4> QED BY <4>2, <4>3 DEF GivenUp
    <3> QED BY <3>1, <3>2
  <2>2. \A m, n \in DOMAIN v.merges :
          v.merges[m].registered /\ v.merges[n].registered /\ m # n
            => v.merges[m].segs \cap v.merges[n].segs = {}
    BY DEF Owned, GivenUp
  <2>3. \A m \in DOMAIN v.merges :
          v.merges[m].registered <=> m \in Range(v.pending) \/ m \in v.running
    BY DEF Owned, GivenUp
  <2>4. /\ Range(v.pending) \subseteq DOMAIN v.merges /\ v.running \subseteq DOMAIN v.merges
        /\ Range(v.pending) \cap v.running = {}
    BY DEF Owned, GivenUp
  <2> QED BY <2>1, <2>2, <2>3, <2>4 DEF Owned
<1> QED BY <1>1, <1>2

LEMMA FinishFields ==
  ASSUME NEW w, Shape(w), NEW m \in DOMAIN w.merges
  PROVE  /\ GivenUp(w, MergeFinish(w, m), {m})
         /\ Same(w, MergeFinish(w, m))
         /\ MergeFinish(w, m).pending = w.pending
<1> DEFINE v == MergeFinish(w, m)
           ms == [w.merges EXCEPT ![m] = [w.merges[m] EXCEPT !.registered = FALSE]]
           mg == IF w.merges[m].registered THEN w.merging \ w.merges[m].segs ELSE w.merging
<1>1. v = [infos |-> w.infos, merges |-> ms, pending |-> w.pending, running |-> w.running \ {m},
           merging |-> mg, toMerge |-> w.toMerge, mergeGen |-> w.mergeGen,
           exceptions |-> w.exceptions, stop |-> w.stop, closing |-> w.closing,
           closed |-> w.closed, tragedy |-> w.tragedy]
  <2>1. v = [w EXCEPT !.merging = mg, !.merges = ms, !.running = w.running \ {m}]
    <3>1. v = [w EXCEPT !.merging = mg, !.merges[m].registered = FALSE,
                        !.running = w.running \ {m}]
      BY DEF MergeFinish
    <3> HIDE DEF v, mg
    <3> QED BY <3>1
  <2>2. IsWriter(w)
    BY DEF Shape
  <2> HIDE DEF v, mg, ms
  <2> QED BY <2>1, <2>2 DEF IsWriter
<1>2. /\ DOMAIN ms = DOMAIN w.merges
      /\ \A n \in DOMAIN w.merges : n # m => ms[n] = w.merges[n]
      /\ ms[m] = [w.merges[m] EXCEPT !.registered = FALSE]
  BY DEF Shape
<1>3. IsMerge(ms[m]) /\ ms[m].segs = w.merges[m].segs /\ ~ms[m].registered
  <2>1. IsMerge(w.merges[m])
    BY DEF Shape
  <2> DEFINE r == w.merges[m]
  <2>2. ms[m] = [r EXCEPT !.registered = FALSE]
    BY <1>2
  <2>3. r = [segs |-> r.segs, registered |-> r.registered, aborted |-> r.aborted,
             forced |-> r.forced, gen |-> r.gen, named |-> r.named, size |-> r.size]
    BY <2>1 DEF IsMerge
  <2> SUFFICES IsMerge(ms[m]) /\ ms[m].segs = r.segs /\ ~ms[m].registered
    OBVIOUS
  <2> HIDE DEF ms, r
  <2>4. ms[m] = [segs |-> r.segs, registered |-> FALSE, aborted |-> r.aborted,
                 forced |-> r.forced, gen |-> r.gen, named |-> r.named, size |-> r.size]
    BY <2>2, <2>3
  <2> QED BY <2>4 DEF IsMerge
<1>4. ms = [n \in 1 .. Len(w.merges) |-> ms[n]] /\ DOMAIN w.merges = 1 .. Len(w.merges)
        /\ Len(w.merges) \in Nat
  BY <1>2, ShapeMerges
<1>5. Len(ms) = Len(w.merges)
  <2> DEFINE S == {ms[n] : n \in 1 .. Len(w.merges)}
  <2>1. ms \in Seq(S)
    <3> HIDE DEF ms
    <3> QED BY <1>4
  <2> HIDE DEF S, ms
  <2> QED BY <1>4, <2>1
<1>6. mg = w.merging \ UNION {w.merges[n].segs : n \in {k \in {m} : w.merges[k].registered}}
  OBVIOUS
<1>7. /\ IsWriter(v) /\ Same(w, v) /\ v.pending = w.pending /\ v.merges = ms /\ v.merging = mg
      /\ v.running = w.running \ {m}
  BY <1>1 DEF IsWriter, Same
<1>8. \A n \in DOMAIN w.merges : IsMerge(w.merges[n])
  BY DEF Shape
<1> HIDE DEF v, ms, mg
<1>9. \A n \in DOMAIN w.merges :
        /\ IsMerge(ms[n]) /\ ms[n].segs = w.merges[n].segs
        /\ ms[n].registered <=> w.merges[n].registered /\ n \notin {m}
  BY <1>2, <1>3, <1>8
<1>10. GivenUp(w, v, {m})
  BY <1>2, <1>4, <1>5, <1>6, <1>7, <1>9 DEF GivenUp, Same
<1> QED BY <1>7, <1>10 DEF v

LEMMA FinishOwned ==
  ASSUME NEW w, Shape(w), Owned(w), NEW m \in DOMAIN w.merges, m \notin Range(w.pending)
  PROVE  Shape(MergeFinish(w, m)) /\ Owned(MergeFinish(w, m))
<1> DEFINE v == MergeFinish(w, m)
<1>1. GivenUp(w, v, {m}) /\ v.pending = w.pending /\ v.stop = w.stop
  BY FinishFields DEF Same
<1>2. v.pending \in Seq(Nat) /\ v.stop \in BOOLEAN
      /\ \A i, j \in DOMAIN v.pending : v.pending[i] = v.pending[j] => i = j
  BY <1>1 DEF Shape, Owned
<1>3. Range(v.pending) = Range(w.pending) \ {m}
  BY <1>1
<1> HIDE DEF v
<1>4. Shape(v) /\ Owned(v)
  BY <1>1, <1>2, <1>3, GivenUpOwned
<1> QED BY <1>4 DEF v

LEMMA AbortFields ==
  ASSUME NEW w, Shape(w)
  PROVE  /\ GivenUp(w, AbortMerges(w), Range(w.pending))
         /\ AbortMerges(w).stop /\ AbortMerges(w).pending = <<>>
<1> DEFINE v == AbortMerges(w)
           given == Range(w.pending)
           ms == [m \in DOMAIN w.merges |->
                   [w.merges[m] EXCEPT !.registered = w.merges[m].registered /\ m \notin given,
                      !.aborted = w.merges[m].aborted \/ m \in w.running \cup given]]
           mg == w.merging \ UNION {w.merges[m].segs :
                                     m \in {n \in given : w.merges[n].registered}}
<1>1. v = [infos |-> w.infos, merges |-> ms, pending |-> <<>>, running |-> w.running \ given,
           merging |-> mg, toMerge |-> w.toMerge, mergeGen |-> w.mergeGen,
           exceptions |-> w.exceptions, stop |-> TRUE, closing |-> w.closing,
           closed |-> w.closed, tragedy |-> w.tragedy]
  <2>1. v = [w EXCEPT !.stop = TRUE, !.pending = <<>>, !.running = w.running \ given,
                      !.merging = mg, !.merges = ms]
    BY DEF AbortMerges
  <2>2. IsWriter(w)
    BY DEF Shape
  <2> HIDE DEF v, mg, ms, given
  <2> QED BY <2>1, <2>2 DEF IsWriter
<1>2. \A m \in DOMAIN w.merges :
        /\ IsMerge(ms[m]) /\ ms[m].segs = w.merges[m].segs
        /\ ms[m].registered <=> w.merges[m].registered /\ m \notin given
  <2>1. ASSUME NEW m \in DOMAIN w.merges
        PROVE  /\ IsMerge(ms[m]) /\ ms[m].segs = w.merges[m].segs
               /\ ms[m].registered <=> w.merges[m].registered /\ m \notin given
    <3> DEFINE r == w.merges[m]
               b == r.registered /\ m \notin given
               c == r.aborted \/ m \in w.running \cup given
    <3>1. ms[m] = [r EXCEPT !.registered = b, !.aborted = c]
      OBVIOUS
    <3>2. r = [segs |-> r.segs, registered |-> r.registered, aborted |-> r.aborted,
               forced |-> r.forced, gen |-> r.gen, named |-> r.named, size |-> r.size]
      BY DEF IsMerge, Shape
    <3>3. b \in BOOLEAN
      OBVIOUS
    <3> SUFFICES IsMerge(ms[m]) /\ ms[m].segs = r.segs /\ ms[m].registered = b
      OBVIOUS
    <3> HIDE DEF ms, r, b, c
    <3>4. ms[m] = [segs |-> r.segs, registered |-> b, aborted |-> c,
                   forced |-> r.forced, gen |-> r.gen, named |-> r.named, size |-> r.size]
      BY <3>1, <3>2
    <3> QED BY <3>3, <3>4 DEF IsMerge
  <2> QED BY <2>1
<1>3. DOMAIN ms = 1 .. Len(w.merges) /\ DOMAIN w.merges = 1 .. Len(w.merges)
        /\ Len(w.merges) \in Nat /\ ms = [n \in 1 .. Len(w.merges) |-> ms[n]]
  BY ShapeMerges
<1>4. Len(ms) = Len(w.merges)
  <2> DEFINE S == {ms[n] : n \in 1 .. Len(w.merges)}
  <2>1. ms \in Seq(S)
    <3> HIDE DEF ms
    <3> QED BY <1>3
  <2> HIDE DEF S, ms
  <2> QED BY <1>3, <2>1
<1>5. /\ IsWriter(v) /\ v.infos = w.infos /\ v.closing = w.closing /\ v.closed = w.closed
      /\ v.tragedy = w.tragedy /\ v.exceptions = w.exceptions
      /\ v.stop /\ v.pending = <<>> /\ v.merges = ms /\ v.merging = mg
      /\ v.running = w.running \ given
  <2> HIDE DEF v, ms, mg, given
  <2> QED BY <1>1 DEF IsWriter
<1> HIDE DEF v, ms
<1>6. GivenUp(w, v, given)
  BY <1>2, <1>3, <1>4, <1>5 DEF GivenUp
<1> QED BY <1>5, <1>6 DEF v

LEMMA AbortOwned ==
  ASSUME NEW w, Shape(w), Owned(w)
  PROVE  Shape(AbortMerges(w)) /\ Owned(AbortMerges(w))
<1> DEFINE v == AbortMerges(w)
<1>1. GivenUp(w, v, Range(w.pending)) /\ v.stop /\ v.pending = <<>>
  BY AbortFields
<1>2. v.pending \in Seq(Nat) /\ Range(v.pending) = {} /\ DOMAIN v.pending = {}
  BY <1>1 DEF Range
<1>3. v.stop \in BOOLEAN
  BY <1>1 DEF AbortMerges, Shape, IsWriter
<1>4. Range(w.pending) \subseteq DOMAIN w.merges
  BY DEF Owned
<1> HIDE DEF v
<1>5. Shape(v) /\ Owned(v)
  BY <1>1, <1>2, <1>3, <1>4, GivenUpOwned
<1> QED BY <1>5 DEF v

------------------------------------------------------------------------------
\* The threads and the merges

AppAt == {"idle", "flush", "lockCommit", "deleteAll", "shouldClose", "propose", "proposeForced",
          "merge", "mergeForced", "mark", "awaitForced", "drain", "awaitMerges", "lock",
          "awaitRunning", "sync", "setClosed", "awaitAborted", "return", "done"}

MergeAt == {"unborn", "init", "writing", "written", "throws", "stopped", "failed", "aborted",
            "merged", "merge", "tragic", "shouldClose", "lock", "awaitRunning", "sync",
            "setClosed", "exit", "dead"}

\* The places of a running merge, and those where a merge is running for sure
RunningAt == {"init", "writing", "written", "throws", "stopped", "failed", "aborted", "merged"}
Held == {"init", "writing", "written", "merged"}

\* What a thread of the application may be doing at place p
Fits(p, k) ==
  /\ p = "idle" <=> k = "none"
  /\ p \in {"flush", "propose", "merge"} =>
       k \in {"flush", "commit", "forceMerge", "close", "lastCommit"}
  /\ p \in {"mark", "proposeForced", "mergeForced", "awaitForced"} => k = "forceMerge"
  /\ p \in {"drain", "awaitMerges"} => k = "close"
  /\ p = "lockCommit" => k \in {"commit", "lastCommit"}
  /\ p = "shouldClose" => k \in {"rollback", "close"}
  /\ p \in {"deleteAll", "awaitAborted"} => k = "deleteAll"

Agents(w, where) ==
  /\ where = [a \in DOMAIN where |-> where[a]]
  /\ DOMAIN where = Threads \cup (DOMAIN w.merges \cap DOMAIN where)
  /\ \A t \in Threads : where[t] \in AppAt
  /\ \A m \in DOMAIN w.merges \cap DOMAIN where : where[m] \in MergeAt

\* A pending merge has no thread yet, a running one has, and the segments of a
\* registered merge are in the index until it has committed.
Placed(w, where) ==
  /\ Range(w.pending) \cap DOMAIN where = {}
  /\ w.running \subseteq DOMAIN where
  /\ \A m \in w.running : where[m] \in RunningAt
  /\ \A m \in DOMAIN w.merges \cap DOMAIN where : where[m] \in Held => m \in w.running
  /\ \A m \in DOMAIN w.merges :
       w.merges[m].registered => \/ m \in w.running /\ where[m] = "merged"
                                \/ w.merges[m].segs \subseteq DOMAIN w.infos

Calling(where, what) ==
  /\ what \in [Threads -> Calls \cup {"none", "lastCommit"}]
  /\ \A t \in Threads : Fits(where[t], what[t])

\* A single deleteAll waits for the merges to abort, and no merge is added meanwhile.
Deleting(w, where) ==
  /\ \A t \in Threads : where[t] = "awaitAborted" => w.stop /\ w.pending = <<>>
  /\ \A t, u \in Threads : where[t] = "awaitAborted" /\ where[u] = "awaitAborted" => t = u

Fine(w, where, what) ==
  Shape(w) /\ Owned(w) /\ Agents(w, where) /\ Placed(w, where) /\ Calling(where, what)
    /\ Deleting(w, where)

Rest(w, where, threads, slow, holder, lock, rest) ==
  /\ threads \subseteq DOMAIN w.merges \cap DOMAIN where
  /\ slow \subseteq DOMAIN w.merges \cap DOMAIN where
  /\ w.exceptions \subseteq DOMAIN w.merges \cap DOMAIN where
  /\ holder \in DOMAIN where \cup {None} /\ lock \in DOMAIN where \cup {None}
  /\ rest \in [Kinds -> Nat]

MSInv == Fine(iw, at, call) /\ Rest(iw, at, mergeThreads, paused, cms, commitLock, left)

LEMMA MergesAreNumbers ==
  ASSUME NEW w, Shape(w)
  PROVE  DOMAIN w.merges \subseteq Nat \ {0} /\ DOMAIN w.merges \cap Threads = {}
BY ShapeMerges, MergeSchedulingAssumption

\* A thread goes to place p.
MayGo(w, where, what, a, p) ==
  /\ a \in Threads => p \in AppAt /\ Fits(p, what[a])
  /\ a \notin Threads => p \in MergeAt
  /\ p = "awaitAborted" => /\ w.stop /\ w.pending = <<>>
                           /\ \A t \in Threads : where[t] # "awaitAborted"
  /\ a \in w.running => p \in RunningAt /\ (where[a] = "merged" => p = "merged")
  /\ a \notin w.running => p \notin Held

LEMMA Moves ==
  ASSUME NEW w, NEW where, NEW what, Fine(w, where, what),
         NEW a \in DOMAIN where, NEW p, MayGo(w, where, what, a, p)
  PROVE  Fine(w, [where EXCEPT ![a] = p], what)
<1> DEFINE new == [where EXCEPT ![a] = p]
<1>1. where = [b \in DOMAIN where |-> where[b]]
  BY DEF Fine, Agents
<1>2. /\ DOMAIN new = DOMAIN where /\ new = [b \in DOMAIN new |-> new[b]]
      /\ new[a] = p /\ \A b \in DOMAIN where : b # a => new[b] = where[b]
  BY <1>1
<1>3. DOMAIN w.merges \cap Threads = {} /\ Threads \subseteq DOMAIN where
      /\ w.running \subseteq DOMAIN w.merges
  BY MergesAreNumbers DEF Fine, Agents, Owned
<1> HIDE DEF new
<1>4. Agents(w, new)
  BY <1>2, <1>3 DEF Fine, Agents, MayGo
<1>5. Placed(w, new)
  <2>1. Range(w.pending) \cap DOMAIN new = {} /\ w.running \subseteq DOMAIN new
    BY <1>2 DEF Fine, Placed
  <2>2. \A m \in w.running : new[m] \in RunningAt
    BY <1>2 DEF Fine, Placed, MayGo
  <2>3. \A m \in DOMAIN w.merges \cap DOMAIN new : new[m] \in Held => m \in w.running
    BY <1>2 DEF Fine, Placed, MayGo
  <2>4. \A m \in DOMAIN w.merges :
          w.merges[m].registered => \/ m \in w.running /\ new[m] = "merged"
                                   \/ w.merges[m].segs \subseteq DOMAIN w.infos
    BY <1>2 DEF Fine, Placed, MayGo
  <2> QED BY <2>1, <2>2, <2>3, <2>4 DEF Placed
<1>6. Calling(new, what)
  BY <1>2, <1>3 DEF Fine, Calling, MayGo
<1>7. Deleting(w, new)
  BY <1>2, <1>3 DEF Fine, Deleting, MayGo
<1> QED BY <1>4, <1>5, <1>6, <1>7 DEF Fine, new

\* v has the merges and segments of w.
Alike(w, v) ==
  /\ IsWriter(v)
  /\ v.infos = w.infos /\ v.merging = w.merging /\ v.pending = w.pending /\ v.running = w.running
  /\ Len(v.merges) \in Nat /\ v.merges = [m \in 1 .. Len(v.merges) |-> v.merges[m]]
  /\ DOMAIN v.merges = DOMAIN w.merges
  /\ \A m \in DOMAIN w.merges :
       /\ IsMerge(v.merges[m])
       /\ v.merges[m].segs = w.merges[m].segs /\ v.merges[m].registered = w.merges[m].registered
  /\ v.stop = w.stop /\ v.closing \in BOOLEAN /\ v.closed \in BOOLEAN

LEMMA AlikeFine ==
  ASSUME NEW w, NEW where, NEW what, Fine(w, where, what), NEW v, Alike(w, v)
  PROVE  Fine(v, where, what)
<1>1. Shape(w) /\ Owned(w) /\ Agents(w, where) /\ Placed(w, where) /\ Calling(where, what)
      /\ Deleting(w, where)
  BY DEF Fine
<1>2. Shape(v)
  BY <1>1 DEF Shape, Alike
<1>3. Owned(v)
  <2>1. {n \in DOMAIN v.merges : v.merges[n].registered}
          = {n \in DOMAIN w.merges : w.merges[n].registered}
    BY DEF Alike
  <2>2. v.merging =
          UNION {v.merges[m].segs : m \in {n \in DOMAIN v.merges : v.merges[n].registered}}
    <3>1. UNION {v.merges[m].segs : m \in {n \in DOMAIN v.merges : v.merges[n].registered}}
            = UNION {w.merges[m].segs : m \in {n \in DOMAIN w.merges : w.merges[n].registered}}
      BY <2>1 DEF Alike
    <3>2. v.merging = w.merging
      BY DEF Alike
    <3> QED BY <1>1, <3>1, <3>2 DEF Owned
  <2> QED BY <1>1, <2>2 DEF Owned, Alike
<1>4. Agents(v, where) /\ Placed(v, where) /\ Deleting(v, where)
  BY <1>1 DEF Agents, Placed, Deleting, Alike
<1> QED BY <1>1, <1>2, <1>3, <1>4 DEF Fine

\* The flags of the writer and its record of exceptions
LEMMA FlagsAlike ==
  ASSUME NEW w, Shape(w), NEW v, IsWriter(v),
         v.infos = w.infos, v.merging = w.merging, v.pending = w.pending, v.running = w.running,
         v.merges = w.merges, v.stop = w.stop, v.closing \in BOOLEAN, v.closed \in BOOLEAN
  PROVE  Alike(w, v)
BY DEF Shape, Alike

LEMMA GrownFine ==
  ASSUME NEW w, NEW where, NEW what, Fine(w, where, what), NEW v, Grown(w, v),
         w.stop => v = w
  PROVE  Fine(v, where, what)
<1>1. Shape(w) /\ Owned(w) /\ Agents(w, where) /\ Placed(w, where) /\ Calling(where, what)
      /\ Deleting(w, where)
  BY DEF Fine
<1>2. Shape(v) /\ Owned(v)
  BY DEF Grown
<1>3. \A m \in DOMAIN v.merges \ DOMAIN w.merges : m \notin DOMAIN where
  BY <1>1, <1>2, MergesAreNumbers DEF Agents
<1>4. Agents(v, where)
  BY <1>1, <1>3 DEF Agents, Grown
<1>5. Placed(v, where)
  <2>1. Range(v.pending) \cap DOMAIN where = {}
    BY <1>1, <1>3 DEF Placed, Grown
  <2>2. /\ v.running \subseteq DOMAIN where
        /\ \A m \in v.running : where[m] \in RunningAt
        /\ \A m \in DOMAIN v.merges \cap DOMAIN where : where[m] \in Held => m \in v.running
    BY <1>1, <1>3 DEF Placed, Grown
  <2>3. \A m \in DOMAIN v.merges :
          v.merges[m].registered => \/ m \in v.running /\ where[m] = "merged"
                                   \/ v.merges[m].segs \subseteq DOMAIN v.infos
    BY <1>1 DEF Placed, Grown, Same
  <2> QED BY <2>1, <2>2, <2>3 DEF Placed
<1>6. Deleting(v, where)
  BY <1>1 DEF Deleting, Grown, Same
<1> QED BY <1>1, <1>2, <1>4, <1>5, <1>6 DEF Fine

\* A merge ends, and its thread goes on.
LEMMA FinishFine ==
  ASSUME NEW w, NEW where, NEW what, Fine(w, where, what),
         NEW m \in DOMAIN w.merges \cap DOMAIN where, NEW p \in MergeAt \ Held
  PROVE  Fine(MergeFinish(w, m), [where EXCEPT ![m] = p], what)
<1> DEFINE v == MergeFinish(w, m)
           new == [where EXCEPT ![m] = p]
<1>1. Shape(w) /\ Owned(w) /\ Agents(w, where) /\ Placed(w, where) /\ Calling(where, what)
      /\ Deleting(w, where)
  BY DEF Fine
<1>2. m \notin Range(w.pending)
  BY <1>1 DEF Placed
<1>3. Shape(v) /\ Owned(v)
  BY <1>1, <1>2, FinishOwned
<1>4. GivenUp(w, v, {m}) /\ Same(w, v) /\ v.pending = w.pending
  BY <1>1, FinishFields
<1>5. m \notin Threads /\ Threads \subseteq DOMAIN where
  BY <1>1, MergesAreNumbers DEF Agents
<1>6. where = [b \in DOMAIN where |-> where[b]]
  BY <1>1 DEF Agents
<1>7. /\ DOMAIN new = DOMAIN where /\ new = [b \in DOMAIN new |-> new[b]]
      /\ new[m] = p /\ \A b \in DOMAIN where : b # m => new[b] = where[b]
  BY <1>6
<1> HIDE DEF v, new
<1>8. DOMAIN v.merges = DOMAIN w.merges /\ v.running = w.running \ {m} /\ v.infos = w.infos
      /\ \A n \in DOMAIN w.merges :
            /\ v.merges[n].segs = w.merges[n].segs
            /\ v.merges[n].registered <=> w.merges[n].registered /\ n # m
  BY <1>4 DEF GivenUp
<1>9. Agents(v, new)
  BY <1>1, <1>5, <1>7, <1>8 DEF Agents
<1>10. Placed(v, new)
  <2>1. Range(v.pending) \cap DOMAIN new = {} /\ v.running \subseteq DOMAIN new
    BY <1>1, <1>4, <1>7, <1>8 DEF Placed
  <2>2. \A n \in v.running : new[n] \in RunningAt
    BY <1>1, <1>7, <1>8 DEF Placed
  <2>3. \A n \in DOMAIN v.merges \cap DOMAIN new : new[n] \in Held => n \in v.running
    BY <1>1, <1>7, <1>8 DEF Placed
  <2>4. \A n \in DOMAIN v.merges :
          v.merges[n].registered => \/ n \in v.running /\ new[n] = "merged"
                                   \/ v.merges[n].segs \subseteq DOMAIN v.infos
    BY <1>1, <1>7, <1>8 DEF Placed
  <2> QED BY <2>1, <2>2, <2>3, <2>4 DEF Placed
<1>11. Calling(new, what)
  BY <1>1, <1>5, <1>7 DEF Calling
<1>12. Deleting(v, new)
  BY <1>1, <1>4, <1>5, <1>7 DEF Deleting, Same
<1> QED BY <1>3, <1>9, <1>10, <1>11, <1>12 DEF Fine, v, new

\* abortMerges
LEMMA AbortFine ==
  ASSUME NEW w, NEW where, NEW what, Fine(w, where, what)
  PROVE  Fine(AbortMerges(w), where, what)
<1> DEFINE v == AbortMerges(w)
<1>1. Shape(w) /\ Owned(w) /\ Agents(w, where) /\ Placed(w, where) /\ Calling(where, what)
      /\ Deleting(w, where)
  BY DEF Fine
<1>2. Shape(v) /\ Owned(v)
  BY <1>1, AbortOwned
<1>3. GivenUp(w, v, Range(w.pending)) /\ v.stop /\ v.pending = <<>>
  BY <1>1, AbortFields
<1>4. Range(v.pending) = {}
  BY <1>3 DEF Range
<1> HIDE DEF v
<1>5. DOMAIN v.merges = DOMAIN w.merges /\ v.infos = w.infos /\ v.running = w.running
      /\ \A n \in DOMAIN w.merges :
            /\ v.merges[n].segs = w.merges[n].segs
            /\ v.merges[n].registered => w.merges[n].registered
  BY <1>1, <1>3 DEF GivenUp, Owned
<1>6. Agents(v, where) /\ Placed(v, where) /\ Deleting(v, where)
  BY <1>1, <1>3, <1>4, <1>5 DEF Agents, Placed, Deleting
<1> QED BY <1>1, <1>2, <1>6 DEF Fine, v

LEMMA AppGoes ==
  ASSUME NEW w, NEW where, NEW what, Fine(w, where, what), NEW t \in Threads,
         NEW p \in AppAt \ {"awaitAborted"}, Fits(p, what[t])
  PROVE  t \in DOMAIN where /\ MayGo(w, where, what, t, p)
<1>1. t \in DOMAIN where
  BY DEF Fine, Agents
<1>2. t \notin w.running
  BY MergesAreNumbers DEF Fine, Owned
<1>3. p \notin Held
  BY DEF AppAt, Held
<1> QED BY <1>1, <1>2, <1>3 DEF MayGo

LEMMA MergeGoes ==
  ASSUME NEW w, NEW where, NEW what, Fine(w, where, what),
         NEW m \in DOMAIN w.merges \cap DOMAIN where, where[m] \notin RunningAt,
         NEW p \in MergeAt \ Held
  PROVE  MayGo(w, where, what, m, p)
<1>1. m \notin Threads
  BY MergesAreNumbers DEF Fine
<1>2. m \notin w.running
  BY DEF Fine, Placed
<1>3. p # "awaitAborted"
  BY DEF MergeAt
<1> QED BY <1>1, <1>2, <1>3 DEF MayGo

LEMMA IsAgent ==
  ASSUME NEW w, NEW where, NEW what, Fine(w, where, what), NEW a \in DOMAIN where
  PROVE  a \in Threads \/ a \in DOMAIN w.merges \cap DOMAIN where
BY DEF Fine, Agents

\* A thread of the application begins or ends a call.
LEMMA Called ==
  ASSUME NEW w, NEW where, NEW what, Fine(w, where, what), NEW t \in Threads,
         NEW p \in AppAt \ {"awaitAborted"}, NEW k \in Calls \cup {"none", "lastCommit"},
         Fits(p, k)
  PROVE  Fine(w, [where EXCEPT ![t] = p], [what EXCEPT ![t] = k])
<1> DEFINE new == [where EXCEPT ![t] = p]
           does == [what EXCEPT ![t] = k]
<1>1. where = [b \in DOMAIN where |-> where[b]] /\ Threads \subseteq DOMAIN where
        /\ what \in [Threads -> Calls \cup {"none", "lastCommit"}]
  BY DEF Fine, Agents, Calling
<1>2. /\ DOMAIN new = DOMAIN where /\ new = [b \in DOMAIN new |-> new[b]]
      /\ new[t] = p /\ \A b \in DOMAIN where : b # t => new[b] = where[b]
  BY <1>1
<1>3. /\ does \in [Threads -> Calls \cup {"none", "lastCommit"}]
      /\ does[t] = k /\ \A u \in Threads : u # t => does[u] = what[u]
  BY <1>1
<1>4. DOMAIN w.merges \cap Threads = {} /\ w.running \subseteq DOMAIN w.merges
  BY MergesAreNumbers DEF Fine, Owned
<1> HIDE DEF new, does
<1>5. Agents(w, new)
  BY <1>2, <1>4 DEF Fine, Agents
<1>6. Placed(w, new)
  <2>1. Range(w.pending) \cap DOMAIN new = {} /\ w.running \subseteq DOMAIN new
    BY <1>2 DEF Fine, Placed
  <2>2. \A m \in w.running : new[m] \in RunningAt
    BY <1>2, <1>4 DEF Fine, Placed
  <2>3. \A m \in DOMAIN w.merges \cap DOMAIN new : new[m] \in Held => m \in w.running
    BY <1>2, <1>4 DEF Fine, Placed
  <2>4. \A m \in DOMAIN w.merges :
          w.merges[m].registered => \/ m \in w.running /\ new[m] = "merged"
                                   \/ w.merges[m].segs \subseteq DOMAIN w.infos
    BY <1>2, <1>4 DEF Fine, Placed
  <2> QED BY <2>1, <2>2, <2>3, <2>4 DEF Placed
<1>7. Calling(new, does)
  BY <1>1, <1>2, <1>3 DEF Fine, Calling
<1>8. Deleting(w, new)
  BY <1>1, <1>2 DEF Fine, Deleting
<1> QED BY <1>5, <1>6, <1>7, <1>8 DEF Fine, new, does

LEMMA AfterFlushGoes ==
  ASSUME MSInv, NEW t \in Threads,
         call[t] \in {"flush", "commit", "forceMerge", "close", "lastCommit"}
  PROVE  AfterFlush(t) \in AppAt \ {"awaitAborted"} /\ Fits(AfterFlush(t), call[t])
BY DEF AfterFlush, AppAt, Fits

LEMMA ThrowsGoes ==
  ASSUME MSInv, NEW t \in Threads, at[t] # "idle"
  PROVE  Throws(t) \in {"lock", "return"} /\ Fits(Throws(t), call[t])
<1>1. call[t] # "none"
  BY DEF MSInv, Fine, Calling, Fits
<1> QED BY <1>1 DEF Throws, Fits

------------------------------------------------------------------------------
\* The scheduler

LEMMA StallStep ==
  ASSUME MSInv, NEW a \in DOMAIN at, Stall(a)
  PROVE  MSInv'
BY DEF MSInv, Stall, Fine, Rest

LEMMA EndSchedulingStep ==
  ASSUME MSInv, NEW a \in DOMAIN at, EndScheduling(a)
  PROVE  MSInv'
<1> DEFINE p == AfterMerge(a)
<1>1. /\ at' = [at EXCEPT ![a] = p] /\ cms' = None
      /\ UNCHANGED <<iw, call, mergeThreads, paused, commitLock, left>>
      /\ at[a] \in {"merge", "mergeForced", "drain"}
  BY DEF EndScheduling, Scheduling
<1>2. Fine(iw, at, call)
  BY DEF MSInv
<1>3. MayGo(iw, at, call, a, p)
  <2>1. CASE a \in Threads
    <3>1. Fits(at[a], call[a])
      BY <1>2, <2>1 DEF Fine, Calling
    <3>2. p \in AppAt \ {"awaitAborted"} /\ Fits(p, call[a])
      <4>1. CASE at[a] = "merge"
        <5>1. call[a] \in {"flush", "commit", "forceMerge", "close", "lastCommit"}
          BY <3>1, <4>1 DEF Fits
        <5>2. p = AfterFlush(a)
          BY <2>1, <4>1 DEF AfterMerge
        <5> QED BY <2>1, <5>1, <5>2, AfterFlushGoes
      <4>2. CASE at[a] = "mergeForced"
        BY <2>1, <3>1, <4>2 DEF AfterMerge, AppAt, Fits
      <4>3. CASE at[a] = "drain"
        BY <2>1, <3>1, <4>3 DEF AfterMerge, AppAt, Fits
      <4> QED BY <1>1, <4>1, <4>2, <4>3
    <3> HIDE DEF p
    <3> QED BY <1>2, <2>1, <3>2, AppGoes
  <2>2. CASE a \notin Threads
    <3>1. a \in DOMAIN iw.merges \cap DOMAIN at
      BY <1>2, <2>2, IsAgent
    <3>2. p \in MergeAt \ Held /\ at[a] \notin RunningAt
      BY <1>1, <2>2 DEF AfterMerge, MergeAt, Held, RunningAt
    <3> HIDE DEF p
    <3> QED BY <1>2, <3>1, <3>2, MergeGoes
  <2> QED BY <2>1, <2>2
<1> HIDE DEF p
<1>4. Fine(iw, [at EXCEPT ![a] = p], call)
  BY <1>2, <1>3, Moves
<1>5. Fine(iw', at', call')
  BY <1>1, <1>4
<1>6. Rest(iw', at', mergeThreads', paused', cms', commitLock', left')
  BY <1>1 DEF MSInv, Rest
<1> QED BY <1>5, <1>6 DEF MSInv

LEMMA LaunchPrepared ==
  ASSUME MSInv, NEW a \in DOMAIN at, Launch(a)
  PROVE  /\ Fine(iw, at, call) /\ iw.pending # <<>>
         /\ Head(iw.pending) \in Range(iw.pending)
         /\ Head(iw.pending) \in DOMAIN iw.merges /\ Head(iw.pending) \notin DOMAIN at
         /\ Head(iw.pending) \notin Threads /\ Head(iw.pending) \notin iw.running
         /\ Shape(GetNextMerge(iw)) /\ Owned(GetNextMerge(iw))
         /\ Same(iw, GetNextMerge(iw))
         /\ GetNextMerge(iw).merges = iw.merges
         /\ GetNextMerge(iw).running = iw.running \cup {Head(iw.pending)}
         /\ Range(GetNextMerge(iw).pending) = Range(iw.pending) \ {Head(iw.pending)}
         /\ \A t \in Threads : at[t] # "awaitAborted"
<1>1. Fine(iw, at, call) /\ iw.pending # <<>>
  BY DEF MSInv, Launch
<1>2. Shape(iw) /\ Owned(iw) /\ Agents(iw, at) /\ Placed(iw, at) /\ Deleting(iw, at)
  BY <1>1 DEF Fine
<1>3. /\ Head(iw.pending) \in Range(iw.pending)
      /\ Range(Tail(iw.pending)) = Range(iw.pending) \ {Head(iw.pending)}
  BY <1>1, <1>2, PendingTail
<1>4. Shape(GetNextMerge(iw)) /\ Owned(GetNextMerge(iw))
  BY <1>1, <1>2, GetNextOwned
<1>5. /\ Same(iw, GetNextMerge(iw)) /\ GetNextMerge(iw).merges = iw.merges
      /\ GetNextMerge(iw).pending = Tail(iw.pending)
      /\ GetNextMerge(iw).running = iw.running \cup {Head(iw.pending)}
  BY <1>2, GetNextFields DEF Shape
<1>6. /\ Head(iw.pending) \in DOMAIN iw.merges /\ Head(iw.pending) \notin DOMAIN at
      /\ Head(iw.pending) \notin Threads /\ Head(iw.pending) \notin iw.running
  BY <1>2, <1>3, MergesAreNumbers DEF Owned, Placed
<1>7. \A t \in Threads : at[t] # "awaitAborted"
  BY <1>1, <1>2 DEF Deleting
<1> QED BY <1>1, <1>3, <1>4, <1>5, <1>6, <1>7

\* The thread of merge m starts.
LEMMA LaunchedFine ==
  ASSUME MSInv, NEW a \in DOMAIN at, Launch(a), NEW where,
         where = With(at, Head(iw.pending), "init")
  PROVE  Fine(GetNextMerge(iw), where, call)
<1> DEFINE m == Head(iw.pending)
           v == GetNextMerge(iw)
<1>1. /\ Fine(iw, at, call) /\ m \in Range(iw.pending) /\ m \in DOMAIN iw.merges
      /\ m \notin DOMAIN at /\ m \notin Threads /\ m \notin iw.running
      /\ Shape(v) /\ Owned(v) /\ Same(iw, v) /\ v.merges = iw.merges
      /\ v.running = iw.running \cup {m} /\ Range(v.pending) = Range(iw.pending) \ {m}
      /\ \A t \in Threads : at[t] # "awaitAborted"
  BY LaunchPrepared
<1>2. Agents(iw, at) /\ Placed(iw, at) /\ Calling(at, call) /\ Deleting(iw, at)
  BY <1>1 DEF Fine
<1> HIDE DEF m, v
<1>3. /\ DOMAIN where = DOMAIN at \cup {m} /\ where = [b \in DOMAIN where |-> where[b]]
      /\ where[m] = "init" /\ \A b \in DOMAIN at : where[b] = at[b]
  BY <1>1 DEF m, With
<1>4. Threads \subseteq DOMAIN at
  BY <1>2 DEF Agents
<1>5. Agents(v, where)
  BY <1>1, <1>2, <1>3, <1>4 DEF Agents, MergeAt
<1>6. Placed(v, where)
  <2>1. Range(v.pending) \cap DOMAIN where = {} /\ v.running \subseteq DOMAIN where
    BY <1>1, <1>2, <1>3 DEF Placed
  <2>2. \A n \in v.running : where[n] \in RunningAt
    BY <1>1, <1>2, <1>3 DEF Placed, RunningAt
  <2>3. \A n \in DOMAIN v.merges \cap DOMAIN where : where[n] \in Held => n \in v.running
    BY <1>1, <1>2, <1>3 DEF Placed
  <2>4. ASSUME NEW n \in DOMAIN v.merges, v.merges[n].registered
        PROVE  \/ n \in v.running /\ where[n] = "merged"
               \/ v.merges[n].segs \subseteq DOMAIN v.infos
    BY <1>1, <1>2, <1>3, <2>4 DEF Placed, Same
  <2> QED BY <2>1, <2>2, <2>3, <2>4 DEF Placed
<1>7. Calling(where, call)
  BY <1>2, <1>3, <1>4 DEF Calling
<1>8. Deleting(v, where)
  BY <1>1, <1>3, <1>4 DEF Deleting
<1> QED BY <1>1, <1>5, <1>6, <1>7, <1>8 DEF Fine, v

\* The thread of merge m could not be started.
LEMMA UnbornFine ==
  ASSUME MSInv, NEW a \in DOMAIN at, Launch(a), NEW where,
         where = [b \in DOMAIN at \cup {Head(iw.pending)} |->
                    IF b = Head(iw.pending) THEN "unborn" ELSE at[b]]
  PROVE  Fine(MergeFinish(GetNextMerge(iw), Head(iw.pending)), where, call)
<1> DEFINE m == Head(iw.pending)
           v == GetNextMerge(iw)
           u == MergeFinish(v, m)
           started == With(at, m, "init")
<1>1. m \notin DOMAIN at /\ m \in DOMAIN iw.merges /\ v.merges = iw.merges
  BY LaunchPrepared
<1>2. Fine(v, started, call)
  BY LaunchedFine
<1>3. m \in DOMAIN started
  BY DEF With
<1>4. "unborn" \in MergeAt \ Held
  BY DEF MergeAt, Held
<1>5. where = [started EXCEPT ![m] = "unborn"]
  <2> HIDE DEF m
  <2>1. where = [b \in DOMAIN at \cup {m} |-> IF b = m THEN "unborn" ELSE at[b]]
    BY DEF m
  <2>2. DOMAIN started = DOMAIN at \cup {m}
    BY DEF With
  <2>3. \A b \in DOMAIN at : b # m => started[b] = at[b]
    BY DEF With
  <2> HIDE DEF started
  <2> DEFINE changed == [started EXCEPT ![m] = "unborn"]
  <2>4. started = [b \in DOMAIN started |-> started[b]]
    BY DEF started, With
  <2>5. DOMAIN changed = DOMAIN at \cup {m} /\ changed = [b \in DOMAIN changed |-> changed[b]]
    BY <2>2, <2>4
  <2>6. \A b \in DOMAIN at \cup {m} : changed[b] = IF b = m THEN "unborn" ELSE at[b]
    BY <2>2, <2>3, <2>4
  <2> HIDE DEF changed
  <2>7. where = changed
    BY <2>1, <2>5, <2>6
  <2> QED BY <2>7 DEF changed
<1> HIDE DEF v, started, m
<1>6. Fine(MergeFinish(v, m), [started EXCEPT ![m] = "unborn"], call)
  BY <1>1, <1>2, <1>3, <1>4, FinishFine
<1> QED BY <1>5, <1>6 DEF v, m

LEMMA LaunchStep ==
  ASSUME MSInv, NEW a \in DOMAIN at, Launch(a)
  PROVE  MSInv'
<1> DEFINE m == Head(iw.pending)
           w == GetNextMerge(iw)
           u == MergeFinish(w, m)
<1>1. /\ m \in DOMAIN iw.merges /\ m \notin DOMAIN at /\ w.merges = iw.merges
      /\ Same(iw, w) /\ Shape(w) /\ Fine(iw, at, call)
  BY LaunchPrepared
<1>2. Scheduling(a) /\ call' = call /\ commitLock' = commitLock
  BY DEF Launch
<1>3. CASE /\ iw' = w /\ at' = With(at, m, "init")
           /\ mergeThreads' = {n \in mergeThreads : Alive(n)} \cup {m}
           /\ paused' = Paused(w, mergeThreads') /\ cms' = a /\ left' = left
  <2>1. Fine(iw', at', call')
    BY <1>2, <1>3, LaunchedFine
  <2>2. DOMAIN at' = DOMAIN at \cup {m}
    BY <1>3 DEF With
  <2>3. paused' \subseteq mergeThreads'
    BY <1>3 DEF Paused
  <2>4. iw'.merges = iw.merges /\ iw'.exceptions = iw.exceptions
    BY <1>1, <1>3 DEF Same
  <2> HIDE DEF m, w
  <2>5. Rest(iw', at', mergeThreads', paused', cms', commitLock', left')
    BY <1>1, <1>2, <1>3, <2>2, <2>3, <2>4 DEF MSInv, Rest
  <2> QED BY <2>1, <2>5 DEF MSInv
<1>4. CASE /\ Spend("launchFails") /\ iw' = u
           /\ at' = [b \in DOMAIN at \cup {m} |->
                       IF b = a THEN Throws(a) ELSE IF b = m THEN "unborn" ELSE at[b]]
           /\ mergeThreads' = mergeThreads \cup {m}
           /\ cms' = None /\ paused' = paused
  <2> DEFINE half == [b \in DOMAIN at \cup {m} |-> IF b = m THEN "unborn" ELSE at[b]]
  <2>1. Fine(u, half, call)
    BY UnbornFine
  <2>2. at' = [half EXCEPT ![a] = Throws(a)]
    <3> HIDE DEF m
    <3>1. a # m
      BY <1>1
    <3>2. DOMAIN half = DOMAIN at \cup {m} /\ half = [b \in DOMAIN half |-> half[b]]
          /\ \A b \in DOMAIN at \cup {m} : half[b] = IF b = m THEN "unborn" ELSE at[b]
      OBVIOUS
    <3> HIDE DEF half
    <3> DEFINE p == Throws(a)
               changed == [half EXCEPT ![a] = p]
    <3> HIDE DEF p
    <3>3. DOMAIN changed = DOMAIN at \cup {m} /\ changed = [b \in DOMAIN changed |-> changed[b]]
          /\ changed[a] = p /\ \A b \in DOMAIN at \cup {m} : b # a => changed[b] = half[b]
      BY <3>2
    <3> HIDE DEF changed
    <3>4. at' = [b \in DOMAIN at \cup {m} |->
                   IF b = a THEN p ELSE IF b = m THEN "unborn" ELSE at[b]]
      BY <1>4 DEF p
    <3>5. at' = changed
      BY <3>2, <3>3, <3>4
    <3> QED BY <3>5 DEF changed, p
  <2>3. half[a] = at[a] /\ a \in DOMAIN half
    BY <1>1
  <2>4. MayGo(u, half, call, a, Throws(a))
    <3>1. CASE a \in Threads
      <4>1. Throws(a) \in {"lock", "return"} /\ Fits(Throws(a), call[a])
        BY <1>2, <3>1, ThrowsGoes DEF Scheduling
      <4>2. Throws(a) \in AppAt \ {"awaitAborted"}
        BY <4>1 DEF AppAt
      <4> HIDE DEF u, half
      <4> QED BY <2>1, <3>1, <4>1, <4>2, AppGoes
    <3>2. CASE a \notin Threads
      <4>1. a \in DOMAIN u.merges \cap DOMAIN half
        BY <2>1, <2>3, <3>2, IsAgent
      <4>2. Throws(a) = "exit"
        BY <3>2 DEF Throws
      <4>3. Throws(a) \in MergeAt \ Held
        BY <4>2 DEF MergeAt, Held
      <4>4. half[a] \notin RunningAt
        BY <1>2, <2>3 DEF Scheduling, RunningAt
      <4> HIDE DEF u, half
      <4> QED BY <2>1, <4>1, <4>3, <4>4, MergeGoes
    <3> QED BY <3>1, <3>2
  <2>5. Fine(u, [half EXCEPT ![a] = Throws(a)], call)
    <3> HIDE DEF u, half
    <3> QED BY <2>1, <2>3, <2>4, Moves
  <2>6. Fine(iw', at', call')
    BY <1>2, <1>4, <2>2, <2>5
  <2>7. DOMAIN at' = DOMAIN at \cup {m}
    BY <1>4
  <2>8. GivenUp(w, u, {m}) /\ Same(w, u)
    BY <1>1, FinishFields
  <2>9. DOMAIN iw'.merges = DOMAIN iw.merges /\ iw'.exceptions = iw.exceptions
    BY <1>1, <1>4, <2>8 DEF GivenUp, Same
  <2>10. left' \in [Kinds -> Nat]
    BY <1>4 DEF Spend, SpendMany, MSInv, Rest, Kinds
  <2> HIDE DEF m, w, u
  <2>11. Rest(iw', at', mergeThreads', paused', cms', commitLock', left')
    BY <1>1, <1>2, <1>4, <2>7, <2>9, <2>10 DEF MSInv, Rest
  <2> QED BY <2>6, <2>11 DEF MSInv
<1> QED BY <1>3, <1>4 DEF Launch

------------------------------------------------------------------------------
\* Merge threads

LEMMA SpendKinds ==
  ASSUME left \in [Kinds -> Nat], NEW k \in Kinds, Spend(k)
  PROVE  left' \in [Kinds -> Nat]
BY DEF Spend, SpendMany

LEMMA MergeInitStep ==
  ASSUME MSInv, NEW m \in DOMAIN iw.merges \cap DOMAIN at, MergeInit(m)
  PROVE  MSInv'
<1>1. Fine(iw, at, call) /\ left \in [Kinds -> Nat]
  BY DEF MSInv, Rest
<1>2. at[m] = "init" /\ m \in iw.running /\ Shape(iw)
  BY <1>1 DEF MergeInit, Fine, Placed, Held
<1>3. UNCHANGED <<call, mergeThreads, paused, cms, commitLock>>
  BY DEF MergeInit
<1>4. CASE /\ iw' = IF iw.merges[m].aborted THEN iw
                    ELSE [iw EXCEPT !.merges[m].named = TRUE]
           /\ at' = [at EXCEPT ![m] = "writing"] /\ left' = left
  <2>1. Alike(iw, iw') /\ iw'.exceptions = iw.exceptions
    <3>1. CASE iw' = iw
      BY <1>2, <3>1 DEF Alike, Shape
    <3>2. CASE iw' = [iw EXCEPT !.merges[m].named = TRUE]
      <4> DEFINE r == iw.merges[m]
                 ms == [iw.merges EXCEPT ![m] = [r EXCEPT !.named = TRUE]]
      <4>1. iw' = [iw EXCEPT !.merges = ms]
        BY <3>2
      <4>2. r = [segs |-> r.segs, registered |-> r.registered, aborted |-> r.aborted,
                 forced |-> r.forced, gen |-> r.gen, named |-> r.named, size |-> r.size]
            /\ r.registered \in BOOLEAN
        BY <1>2 DEF Shape, IsMerge
      <4>3. /\ DOMAIN ms = DOMAIN iw.merges /\ ms[m] = [r EXCEPT !.named = TRUE]
            /\ \A n \in DOMAIN iw.merges : n # m => ms[n] = iw.merges[n]
        BY <1>2 DEF Shape
      <4>4. IsMerge(ms[m]) /\ ms[m].segs = r.segs /\ ms[m].registered = r.registered
        <5> HIDE DEF ms, r
        <5>1. ms[m] = [segs |-> r.segs, registered |-> r.registered, aborted |-> r.aborted,
                       forced |-> r.forced, gen |-> r.gen, named |-> TRUE, size |-> r.size]
          BY <4>2, <4>3
        <5> QED BY <4>2, <5>1 DEF IsMerge
      <4>5. Len(iw.merges) \in Nat /\ DOMAIN iw.merges = 1 .. Len(iw.merges)
            /\ ms = [n \in 1 .. Len(iw.merges) |-> ms[n]]
        BY <1>2, ShapeMerges
      <4>6. Len(ms) = Len(iw.merges)
        <5> DEFINE S == {ms[n] : n \in 1 .. Len(iw.merges)}
        <5>1. ms \in Seq(S)
          <6> HIDE DEF ms
          <6> QED BY <4>5
        <5> HIDE DEF S, ms
        <5> QED BY <4>5, <5>1
      <4>7. \A n \in DOMAIN iw.merges :
              /\ IsMerge(ms[n]) /\ ms[n].segs = iw.merges[n].segs
              /\ ms[n].registered = iw.merges[n].registered
        BY <1>2, <4>3, <4>4 DEF Shape
      <4> HIDE DEF ms
      <4>8. iw' = [infos |-> iw.infos, merges |-> ms, pending |-> iw.pending,
                   running |-> iw.running, merging |-> iw.merging, toMerge |-> iw.toMerge,
                   mergeGen |-> iw.mergeGen, exceptions |-> iw.exceptions, stop |-> iw.stop,
                   closing |-> iw.closing, closed |-> iw.closed, tragedy |-> iw.tragedy]
        BY <1>2, <4>1 DEF Shape, IsWriter
      <4>9. IsWriter(iw')
        BY <4>8 DEF IsWriter
      <4>10. /\ iw'.infos = iw.infos /\ iw'.merging = iw.merging /\ iw'.pending = iw.pending
             /\ iw'.running = iw.running /\ iw'.merges = ms /\ iw'.stop = iw.stop
             /\ iw'.closing = iw.closing /\ iw'.closed = iw.closed
             /\ iw'.exceptions = iw.exceptions
        BY <4>8
      <4>11. iw.closing \in BOOLEAN /\ iw.closed \in BOOLEAN
        BY <1>2 DEF Shape
      <4> QED BY <4>3, <4>5, <4>6, <4>7, <4>9, <4>10, <4>11 DEF Alike
    <3> QED BY <1>4, <3>1, <3>2
  <2>2. Fine(iw', at, call)
    BY <1>1, <2>1, AlikeFine
  <2>3. MayGo(iw', at, call, m, "writing")
    <3>1. iw'.running = iw.running /\ m \notin Threads
      BY <1>2, <2>1, MergesAreNumbers DEF Alike
    <3> QED BY <1>2, <3>1 DEF MayGo, MergeAt, RunningAt
  <2>4. Fine(iw', [at EXCEPT ![m] = "writing"], call)
    BY <2>2, <2>3, Moves
  <2>5. Fine(iw', at', call')
    BY <1>3, <1>4, <2>4
  <2>6. Rest(iw', at', mergeThreads', paused', cms', commitLock', left')
    BY <1>3, <1>4, <2>1 DEF MSInv, Rest, Alike
  <2> QED BY <2>5, <2>6 DEF MSInv
<1>5. CASE /\ left' = left \/ Spend("mergeFails")
           /\ iw' = MergeFinish(iw, m) /\ at' = [at EXCEPT ![m] = "throws"]
  <2>1. "throws" \in MergeAt \ Held
    BY DEF MergeAt, Held
  <2>2. Fine(iw', at', call')
    BY <1>1, <1>3, <1>5, <2>1, FinishFine
  <2>3. DOMAIN iw'.merges = DOMAIN iw.merges /\ iw'.exceptions = iw.exceptions
    BY <1>2, <1>5, FinishFields DEF GivenUp
  <2>4. left' \in [Kinds -> Nat]
    BY <1>1, <1>5, SpendKinds DEF Kinds
  <2>5. Rest(iw', at', mergeThreads', paused', cms', commitLock', left')
    BY <1>3, <1>5, <2>3, <2>4 DEF MSInv, Rest
  <2> QED BY <2>2, <2>5 DEF MSInv
<1> QED BY <1>4, <1>5 DEF MergeInit

LEMMA MergeMiddleStep ==
  ASSUME MSInv, NEW m \in DOMAIN iw.merges \cap DOMAIN at, MergeMiddle(m)
  PROVE  MSInv'
<1>1. Fine(iw, at, call) /\ left \in [Kinds -> Nat]
  BY DEF MSInv, Rest
<1>2. at[m] = "writing" /\ m \in iw.running /\ m \notin Threads
  BY <1>1, MergesAreNumbers DEF MergeMiddle, Fine, Placed, Held
<1>3. UNCHANGED <<iw, call, mergeThreads, paused, cms, commitLock>>
  BY DEF MergeMiddle
<1>4. PICK p \in {"stopped", "written", "throws"} : at' = [at EXCEPT ![m] = p]
  BY DEF MergeMiddle
<1>5. left' \in [Kinds -> Nat]
  BY <1>1, SpendKinds DEF MergeMiddle, Kinds
<1>6. MayGo(iw, at, call, m, p)
  BY <1>2 DEF MayGo, MergeAt, RunningAt
<1>7. Fine(iw, [at EXCEPT ![m] = p], call)
  BY <1>1, <1>6, Moves
<1>8. Fine(iw', at', call')
  BY <1>3, <1>4, <1>7
<1>9. Rest(iw', at', mergeThreads', paused', cms', commitLock', left')
  BY <1>3, <1>4, <1>5 DEF MSInv, Rest
<1> QED BY <1>8, <1>9 DEF MSInv

\* The index changes: other segments, and a merge may run again.
LEMMA InfosFine ==
  ASSUME NEW w, NEW where, NEW what, Fine(w, where, what), NEW v, IsWriter(v),
         v.merges = w.merges, v.merging = w.merging, v.pending = w.pending,
         v.running = w.running, v.closing = w.closing, v.closed = w.closed,
         v.stop \in BOOLEAN, IsFiniteSet(DOMAIN v.infos), Deleting(v, where),
         \A m \in DOMAIN w.merges :
           w.merges[m].registered => \/ m \in w.running /\ where[m] = "merged"
                                    \/ w.merges[m].segs \subseteq DOMAIN v.infos
  PROVE  Fine(v, where, what)
<1>1. Shape(v)
  BY DEF Fine, Shape
<1>2. Owned(v)
  BY DEF Fine, Owned
<1>3. Agents(v, where) /\ Placed(v, where)
  BY DEF Fine, Agents, Placed
<1> QED BY <1>1, <1>2, <1>3 DEF Fine

LEMMA CommitMergeStep ==
  ASSUME MSInv, NEW m \in DOMAIN iw.merges \cap DOMAIN at, CommitMerge(m)
  PROVE  MSInv'
<1>1. Fine(iw, at, call)
  BY DEF MSInv
<1>2. /\ at[m] = "written" /\ m \in iw.running /\ m \notin Threads
      /\ Shape(iw) /\ Owned(iw) /\ Placed(iw, at) /\ Deleting(iw, at)
  BY <1>1, MergesAreNumbers DEF CommitMerge, Fine, Placed, Held
<1>3. UNCHANGED <<call, mergeThreads, paused, cms, commitLock, left>>
  BY DEF CommitMerge
<1>4. ASSUME NEW p \in {"throws", "merged"}
      PROVE  Fine(iw, [at EXCEPT ![m] = p], call)
  <2>1. MayGo(iw, at, call, m, p)
    BY <1>2 DEF MayGo, MergeAt, RunningAt
  <2> QED BY <1>1, <2>1, Moves
<1>5. CASE iw' = iw /\ (at' = [at EXCEPT ![m] = "throws"] \/ at' = [at EXCEPT ![m] = "merged"])
  <2>1. Fine(iw', at', call')
    BY <1>3, <1>4, <1>5
  <2>2. Rest(iw', at', mergeThreads', paused', cms', commitLock', left')
    BY <1>3, <1>5 DEF MSInv, Rest
  <2> QED BY <2>1, <2>2 DEF MSInv
<1>6. CASE /\ at' = [at EXCEPT ![m] = "merged"]
           /\ iw' = [iw EXCEPT
                       !.infos = With(Restrict(@, DOMAIN @ \ iw.merges[m].segs),
                                      -m, iw.merges[m].size),
                       !.toMerge = Cascade(iw, m, -m)]
  <2> DEFINE merged == With(Restrict(iw.infos, DOMAIN iw.infos \ iw.merges[m].segs),
                            -m, iw.merges[m].size)
             cascade == Cascade(iw, m, -m)
  <2>1. DOMAIN merged = (DOMAIN iw.infos \ iw.merges[m].segs) \cup {-m}
    BY DEF With, Restrict
  <2>2. IsFiniteSet(DOMAIN merged)
    <3>1. IsFiniteSet(DOMAIN iw.infos \ iw.merges[m].segs)
      BY <1>2, FS_Difference DEF Shape
    <3> QED BY <2>1, <3>1, FS_AddElement
  <2>3. iw' = [iw EXCEPT !.infos = merged, !.toMerge = cascade]
    BY <1>6
  <2> HIDE DEF merged, cascade
  <2>4. iw' = [infos |-> merged, merges |-> iw.merges, pending |-> iw.pending,
               running |-> iw.running, merging |-> iw.merging, toMerge |-> cascade,
               mergeGen |-> iw.mergeGen, exceptions |-> iw.exceptions, stop |-> iw.stop,
               closing |-> iw.closing, closed |-> iw.closed, tragedy |-> iw.tragedy]
    BY <1>2, <2>3 DEF Shape, IsWriter
  <2>5. /\ IsWriter(iw') /\ iw'.merges = iw.merges /\ iw'.merging = iw.merging
        /\ iw'.pending = iw.pending /\ iw'.running = iw.running /\ iw'.closing = iw.closing
        /\ iw'.closed = iw.closed /\ iw'.stop = iw.stop /\ iw'.exceptions = iw.exceptions
        /\ iw'.infos = merged
    BY <2>4 DEF IsWriter
  <2>6. Fine(iw, at', call)
    BY <1>4, <1>6
  <2>7. ASSUME NEW n \in DOMAIN iw.merges, iw.merges[n].registered
        PROVE  \/ n \in iw.running /\ at'[n] = "merged"
               \/ iw.merges[n].segs \subseteq DOMAIN merged
    <3>1. CASE n = m
      BY <1>2, <1>6, <2>6, <3>1 DEF Fine, Agents
    <3>2. CASE n # m
      <4>1. iw.merges[m].registered
        BY <1>2 DEF Owned
      <4>2. iw.merges[n].segs \cap iw.merges[m].segs = {}
        BY <1>2, <2>7, <3>2, <4>1 DEF Owned
      <4>3. CASE n \in iw.running /\ at[n] = "merged"
        BY <1>2, <1>6, <3>2, <4>3 DEF Placed
      <4>4. CASE iw.merges[n].segs \subseteq DOMAIN iw.infos
        BY <2>1, <4>2, <4>4
      <4> QED BY <1>2, <2>7, <4>3, <4>4 DEF Placed
    <3> QED BY <3>1, <3>2
  <2>8. Deleting(iw', at') /\ iw'.stop \in BOOLEAN
    BY <1>2, <2>5, <2>6 DEF Fine, Deleting, Shape
  <2>9. Fine(iw', at', call)
    BY <2>2, <2>5, <2>6, <2>7, <2>8, InfosFine
  <2>10. Fine(iw', at', call')
    BY <1>3, <2>9
  <2>11. Rest(iw', at', mergeThreads', paused', cms', commitLock', left')
    BY <1>3, <1>6, <2>5 DEF MSInv, Rest
  <2> QED BY <2>10, <2>11 DEF MSInv
<1> QED BY <1>5, <1>6 DEF CommitMerge

\* A step that leaves the queue of merges alone and moves one thread
LEMMA FlagsStep ==
  ASSUME MSInv, NEW a \in DOMAIN at, NEW p, at' = [at EXCEPT ![a] = p],
         IsWriter(iw'), iw'.infos = iw.infos, iw'.merging = iw.merging,
         iw'.pending = iw.pending, iw'.running = iw.running, iw'.merges = iw.merges,
         iw'.stop = iw.stop, iw'.closing \in BOOLEAN, iw'.closed \in BOOLEAN,
         iw'.exceptions \subseteq iw.exceptions \cup {a},
         a \in DOMAIN iw.merges \/ iw'.exceptions = iw.exceptions,
         MayGo(iw, at, call, a, p),
         UNCHANGED <<call, mergeThreads, paused, cms, left>>,
         commitLock' \in {commitLock, None}
  PROVE  MSInv'
<1>1. Fine(iw, at, call) /\ Shape(iw)
  BY DEF MSInv, Fine
<1>2. Fine(iw, at', call)
  BY <1>1, Moves
<1>3. Alike(iw, iw')
  BY <1>1, FlagsAlike
<1>4. Fine(iw', at', call)
  BY <1>2, <1>3, AlikeFine
<1>5. Fine(iw', at', call')
  BY <1>4
<1>6. Rest(iw', at', mergeThreads', paused', cms', commitLock', left')
  BY DEF MSInv, Rest
<1> QED BY <1>5, <1>6 DEF MSInv

LEMMA HandleMergeExceptionStep ==
  ASSUME MSInv, NEW m \in DOMAIN iw.merges \cap DOMAIN at, HandleMergeException(m)
  PROVE  MSInv'
<1>1. Fine(iw, at, call) /\ IsWriter(iw) /\ iw.closing \in BOOLEAN /\ iw.closed \in BOOLEAN
  BY DEF MSInv, Fine, Shape
<1>2. PICK p \in {"failed", "aborted"} : at' = [at EXCEPT ![m] = p]
  BY DEF HandleMergeException
<1>3. at[m] \in {"throws", "stopped"} /\ m \notin Threads
        /\ UNCHANGED <<call, mergeThreads, paused, cms, commitLock, left>>
  BY <1>1, MergesAreNumbers DEF HandleMergeException, Fine
<1>4. MayGo(iw, at, call, m, p)
  BY <1>3 DEF MayGo, MergeAt, RunningAt, Held
<1>5. /\ IsWriter(iw') /\ iw'.infos = iw.infos /\ iw'.merging = iw.merging
      /\ iw'.pending = iw.pending /\ iw'.running = iw.running /\ iw'.merges = iw.merges
      /\ iw'.stop = iw.stop /\ iw'.closing = iw.closing /\ iw'.closed = iw.closed
      /\ iw'.exceptions \subseteq iw.exceptions \cup {m}
  <2>1. CASE iw' = iw
    BY <1>1, <2>1
  <2>2. CASE iw' = [iw EXCEPT !.exceptions = @ \cup {m}]
    <3>1. iw' = [infos |-> iw.infos, merges |-> iw.merges, pending |-> iw.pending,
                 running |-> iw.running, merging |-> iw.merging, toMerge |-> iw.toMerge,
                 mergeGen |-> iw.mergeGen, exceptions |-> iw.exceptions \cup {m},
                 stop |-> iw.stop, closing |-> iw.closing, closed |-> iw.closed,
                 tragedy |-> iw.tragedy]
      BY <1>1, <2>2 DEF IsWriter
    <3> QED BY <3>1 DEF IsWriter
  <2> QED BY <2>1, <2>2 DEF HandleMergeException, AddException
<1> QED BY <1>1, <1>2, <1>3, <1>4, <1>5, FlagsStep

LEMMA FinishMergeStep ==
  ASSUME MSInv, NEW m \in DOMAIN iw.merges \cap DOMAIN at, FinishMerge(m)
  PROVE  MSInv'
<1> DEFINE w == MergeFinish(iw, m)
<1>1. Fine(iw, at, call) /\ Shape(iw)
  BY DEF MSInv, Fine
<1>2. PICK p \in {"tragic", "merge"} : at' = [at EXCEPT ![m] = p]
  BY DEF FinishMerge
<1>3. UNCHANGED <<call, mergeThreads, paused, cms, commitLock, left>>
  BY DEF FinishMerge
<1>4. p \in MergeAt \ Held
  BY DEF MergeAt, Held
<1>5. Fine(w, at', call)
  BY <1>1, <1>2, <1>4, FinishFine
<1>6. DOMAIN w.merges = DOMAIN iw.merges /\ w.exceptions = iw.exceptions
  BY <1>1, FinishFields DEF GivenUp
<1>7. iw' = w \/ iw' \in UpdatePendingMerges(w, Forced(w, m))
  BY DEF FinishMerge
<1> HIDE DEF w
<1>8. Grown(w, iw') /\ (w.stop => iw' = w)
  <2>1. Shape(w) /\ Owned(w)
    BY <1>5 DEF Fine
  <2> QED BY <1>7, <2>1, UpdateGrows, GrownAtFirst
<1>9. Fine(iw', at', call')
  BY <1>3, <1>5, <1>8, GrownFine
<1>10. DOMAIN iw.merges \subseteq DOMAIN iw'.merges /\ iw'.exceptions = iw.exceptions
  BY <1>6, <1>8 DEF Grown, Same
<1>11. Rest(iw', at', mergeThreads', paused', cms', commitLock', left')
  BY <1>2, <1>3, <1>10 DEF MSInv, Rest
<1> QED BY <1>9, <1>11 DEF MSInv

LEMMA TragicEventStep ==
  ASSUME MSInv, NEW m \in DOMAIN iw.merges \cap DOMAIN at, TragicEvent(m)
  PROVE  MSInv'
<1>1. Fine(iw, at, call) /\ IsWriter(iw) /\ iw.closing \in BOOLEAN /\ iw.closed \in BOOLEAN
  BY DEF MSInv, Fine, Shape
<1>2. /\ at[m] = "tragic" /\ at' = [at EXCEPT ![m] = "shouldClose"]
      /\ UNCHANGED <<call, mergeThreads, paused, cms, commitLock, left>>
      /\ iw' = [iw EXCEPT !.tragedy = TRUE]
  BY DEF TragicEvent
<1>3. "shouldClose" \in MergeAt \ Held /\ "tragic" \notin RunningAt
  BY DEF MergeAt, Held, RunningAt
<1>4. MayGo(iw, at, call, m, "shouldClose")
  BY <1>1, <1>2, <1>3, MergeGoes
<1>5. iw' = [infos |-> iw.infos, merges |-> iw.merges, pending |-> iw.pending,
             running |-> iw.running, merging |-> iw.merging, toMerge |-> iw.toMerge,
             mergeGen |-> iw.mergeGen, exceptions |-> iw.exceptions,
             stop |-> iw.stop, closing |-> iw.closing, closed |-> iw.closed, tragedy |-> TRUE]
  BY <1>1, <1>2 DEF IsWriter
<1>6. /\ IsWriter(iw') /\ iw'.infos = iw.infos /\ iw'.merging = iw.merging
      /\ iw'.pending = iw.pending /\ iw'.running = iw.running /\ iw'.merges = iw.merges
      /\ iw'.stop = iw.stop /\ iw'.closing = iw.closing /\ iw'.closed = iw.closed
      /\ iw'.exceptions = iw.exceptions
  BY <1>5 DEF IsWriter
<1> QED BY <1>1, <1>2, <1>4, <1>6, FlagsStep

\* What shouldClose sets, in whatever thread
LEMMA SetsClosing ==
  ASSUME IsWriter(iw), iw.closing \in BOOLEAN, iw.closed \in BOOLEAN,
         iw' = [iw EXCEPT !.closing = @ \/ ~iw.closed]
  PROVE  /\ IsWriter(iw') /\ iw'.infos = iw.infos /\ iw'.merging = iw.merging
         /\ iw'.pending = iw.pending /\ iw'.running = iw.running /\ iw'.merges = iw.merges
         /\ iw'.stop = iw.stop /\ iw'.closing \in BOOLEAN /\ iw'.closed = iw.closed
         /\ iw'.exceptions = iw.exceptions
         /\ iw'.closing = (iw.closing \/ ~iw.closed)
<1> DEFINE c == iw.closing \/ ~iw.closed
<1>1. iw' = [iw EXCEPT !.closing = c] /\ c \in BOOLEAN
  OBVIOUS
<1>2. c = (iw.closing \/ ~iw.closed)
  OBVIOUS
<1> HIDE DEF c
<1>3. iw' = [infos |-> iw.infos, merges |-> iw.merges, pending |-> iw.pending,
             running |-> iw.running, merging |-> iw.merging, toMerge |-> iw.toMerge,
             mergeGen |-> iw.mergeGen, exceptions |-> iw.exceptions, stop |-> iw.stop,
             closing |-> c, closed |-> iw.closed, tragedy |-> iw.tragedy]
  BY <1>1 DEF IsWriter
<1>4. /\ IsWriter(iw') /\ iw'.infos = iw.infos /\ iw'.merging = iw.merging
      /\ iw'.pending = iw.pending /\ iw'.running = iw.running /\ iw'.merges = iw.merges
      /\ iw'.stop = iw.stop /\ iw'.closing = c /\ iw'.closed = iw.closed
      /\ iw'.exceptions = iw.exceptions
  BY <1>3 DEF IsWriter
<1> QED BY <1>1, <1>2, <1>4

LEMMA ShouldCloseStep ==
  ASSUME MSInv, NEW m \in DOMAIN iw.merges \cap DOMAIN at, ShouldClose(m)
  PROVE  MSInv'
<1>1. Fine(iw, at, call) /\ IsWriter(iw) /\ iw.closing \in BOOLEAN /\ iw.closed \in BOOLEAN
  BY DEF MSInv, Fine, Shape
<1>2. PICK p \in {"exit", "lock"} : at' = [at EXCEPT ![m] = p]
  BY DEF ShouldClose
<1>3. /\ at[m] = "shouldClose"
      /\ UNCHANGED <<call, mergeThreads, paused, cms, commitLock, left>>
      /\ iw' = [iw EXCEPT !.closing = @ \/ ~iw.closed]
  BY DEF ShouldClose
<1>4. p \in MergeAt \ Held /\ "shouldClose" \notin RunningAt
  BY DEF MergeAt, Held, RunningAt
<1>5. MayGo(iw, at, call, m, p)
  BY <1>1, <1>3, <1>4, MergeGoes
<1>6. /\ IsWriter(iw') /\ iw'.infos = iw.infos /\ iw'.merging = iw.merging
      /\ iw'.pending = iw.pending /\ iw'.running = iw.running /\ iw'.merges = iw.merges
      /\ iw'.stop = iw.stop /\ iw'.closing \in BOOLEAN /\ iw'.closed = iw.closed
      /\ iw'.exceptions = iw.exceptions
  BY <1>1, <1>3, SetsClosing
<1> QED BY <1>1, <1>2, <1>3, <1>5, <1>6, FlagsStep

LEMMA ExitStep ==
  ASSUME MSInv, NEW m \in DOMAIN iw.merges \cap DOMAIN at, Exit(m)
  PROVE  MSInv'
<1>1. Fine(iw, at, call)
  BY DEF MSInv
<1>2. /\ at[m] = "exit" /\ at' = [at EXCEPT ![m] = "dead"]
      /\ UNCHANGED <<iw, call, cms, commitLock, left>>
      /\ mergeThreads' \subseteq mergeThreads /\ paused' = Paused(iw, mergeThreads')
  BY DEF Exit
<1>3. "dead" \in MergeAt \ Held /\ "exit" \notin RunningAt
  BY DEF MergeAt, Held, RunningAt
<1>4. MayGo(iw, at, call, m, "dead")
  BY <1>1, <1>2, <1>3, MergeGoes
<1>5. Fine(iw, at', call)
  BY <1>1, <1>2, <1>4, Moves
<1>6. Fine(iw', at', call')
  BY <1>2, <1>5
<1>7. paused' \subseteq mergeThreads'
  BY <1>2 DEF Paused
<1>8. Rest(iw', at', mergeThreads', paused', cms', commitLock', left')
  BY <1>2, <1>7 DEF MSInv, Rest
<1> QED BY <1>6, <1>8 DEF MSInv

------------------------------------------------------------------------------
\* rollbackInternal

LEMMA CloserGoes ==
  ASSUME NEW w, NEW where, NEW what, Fine(w, where, what), NEW a \in DOMAIN where,
         where[a] \in {"lock", "awaitRunning", "sync", "setClosed"},
         NEW p, \/ p \in {"awaitRunning", "sync", "setClosed"}
                \/ p = "return" /\ a \in Threads
                \/ p = "exit" /\ a \notin Threads
  PROVE  MayGo(w, where, what, a, p)
<1>1. CASE a \in Threads
  <2>1. what[a] # "none"
    BY <1>1 DEF Fine, Calling, Fits
  <2>2. p \in AppAt \ {"awaitAborted"} /\ Fits(p, what[a])
    BY <1>1, <2>1 DEF AppAt, Fits
  <2> QED BY <1>1, <2>2, AppGoes
<1>2. CASE a \notin Threads
  <2>1. a \in DOMAIN w.merges \cap DOMAIN where
    BY <1>2, IsAgent
  <2>2. p \in MergeAt \ Held /\ where[a] \notin RunningAt
    BY <1>2 DEF MergeAt, Held, RunningAt
  <2> QED BY <2>1, <2>2, MergeGoes
<1> QED BY <1>1, <1>2

LEMMA LockCommitsStep ==
  ASSUME MSInv, NEW a \in DOMAIN at, LockCommits(a)
  PROVE  MSInv'
<1>1. Fine(iw, at, call) /\ Shape(iw)
  BY DEF MSInv, Fine
<1>2. /\ at[a] = "lock" /\ at' = [at EXCEPT ![a] = "awaitRunning"] /\ commitLock' = a
      /\ iw' = AbortMerges(iw) /\ UNCHANGED <<call, mergeThreads, paused, cms, left>>
  BY DEF LockCommits
<1>3. Fine(iw', at, call)
  BY <1>1, <1>2, AbortFine
<1>4. MayGo(iw', at, call, a, "awaitRunning")
  BY <1>2, <1>3, CloserGoes
<1>5. Fine(iw', [at EXCEPT ![a] = "awaitRunning"], call)
  BY <1>3, <1>4, Moves
<1>6. Fine(iw', at', call')
  BY <1>2, <1>5
<1>7. DOMAIN iw'.merges = DOMAIN iw.merges /\ iw'.exceptions = iw.exceptions
  BY <1>1, <1>2, AbortFields DEF GivenUp
<1>8. Rest(iw', at', mergeThreads', paused', cms', commitLock', left')
  BY <1>2, <1>7 DEF MSInv, Rest
<1> QED BY <1>6, <1>8 DEF MSInv

LEMMA MergesAbortedStep ==
  ASSUME MSInv, NEW a \in DOMAIN at, MergesAborted(a)
  PROVE  MSInv'
<1>1. Fine(iw, at, call) /\ IsWriter(iw) /\ iw.closing \in BOOLEAN /\ iw.closed \in BOOLEAN
  BY DEF MSInv, Fine, Shape
<1>2. /\ at[a] = "awaitRunning" /\ at' = [at EXCEPT ![a] = "sync"]
      /\ UNCHANGED <<iw, call, mergeThreads, paused, cms, commitLock, left>>
  BY DEF MergesAborted
<1>3. MayGo(iw, at, call, a, "sync")
  BY <1>1, <1>2, CloserGoes
<1>4. Fine(iw', at', call')
  BY <1>1, <1>2, <1>3, Moves
<1>5. Rest(iw', at', mergeThreads', paused', cms', commitLock', left')
  BY <1>2 DEF MSInv, Rest
<1> QED BY <1>4, <1>5 DEF MSInv

LEMMA SyncMergeThreadsStep ==
  ASSUME MSInv, NEW a \in DOMAIN at, SyncMergeThreads(a)
  PROVE  MSInv'
<1>1. Fine(iw, at, call)
  BY DEF MSInv
<1>2. /\ at[a] = "sync" /\ at' = [at EXCEPT ![a] = "setClosed"]
      /\ UNCHANGED <<iw, call, mergeThreads, paused, cms, commitLock, left>>
  BY DEF SyncMergeThreads
<1>3. MayGo(iw, at, call, a, "setClosed")
  BY <1>1, <1>2, CloserGoes
<1>4. Fine(iw', at', call')
  BY <1>1, <1>2, <1>3, Moves
<1>5. Rest(iw', at', mergeThreads', paused', cms', commitLock', left')
  BY <1>2 DEF MSInv, Rest
<1> QED BY <1>4, <1>5 DEF MSInv

LEMMA SetClosedFields ==
  ASSUME IsWriter(iw), iw' = [iw EXCEPT !.closed = TRUE, !.closing = FALSE]
  PROVE  /\ IsWriter(iw') /\ iw'.infos = iw.infos /\ iw'.merging = iw.merging
         /\ iw'.pending = iw.pending /\ iw'.running = iw.running /\ iw'.merges = iw.merges
         /\ iw'.stop = iw.stop /\ iw'.closing = FALSE /\ iw'.closed = TRUE
         /\ iw'.exceptions = iw.exceptions
<1>1. iw' = [infos |-> iw.infos, merges |-> iw.merges, pending |-> iw.pending,
             running |-> iw.running, merging |-> iw.merging, toMerge |-> iw.toMerge,
             mergeGen |-> iw.mergeGen, exceptions |-> iw.exceptions, stop |-> iw.stop,
             closing |-> FALSE, closed |-> TRUE, tragedy |-> iw.tragedy]
  BY DEF IsWriter
<1> QED BY <1>1 DEF IsWriter

LEMMA SetClosedStep ==
  ASSUME MSInv, NEW a \in DOMAIN at, SetClosed(a)
  PROVE  MSInv'
<1> DEFINE p == IF a \in Threads THEN "return" ELSE "exit"
<1>1. Fine(iw, at, call) /\ IsWriter(iw)
  BY DEF MSInv, Fine, Shape
<1>2. /\ at[a] = "setClosed" /\ at' = [at EXCEPT ![a] = p] /\ commitLock' = None
      /\ iw' = [iw EXCEPT !.closed = TRUE, !.closing = FALSE]
      /\ UNCHANGED <<call, mergeThreads, paused, cms, left>>
  BY DEF SetClosed
<1>3. (a \in Threads => p = "return") /\ (a \notin Threads => p = "exit")
  BY Zenon
<1> HIDE DEF p
<1>4. MayGo(iw, at, call, a, p)
  BY <1>1, <1>2, <1>3, CloserGoes
<1>5. /\ IsWriter(iw') /\ iw'.infos = iw.infos /\ iw'.merging = iw.merging
      /\ iw'.pending = iw.pending /\ iw'.running = iw.running /\ iw'.merges = iw.merges
      /\ iw'.stop = iw.stop /\ iw'.closing = FALSE /\ iw'.closed = TRUE
      /\ iw'.exceptions = iw.exceptions
  BY <1>1, <1>2, SetClosedFields
<1> QED BY <1>2, <1>4, <1>5, FlagsStep

------------------------------------------------------------------------------
\* The threads of the application

LEMMA BeginStep ==
  ASSUME MSInv, NEW t \in Threads, Begin(t)
  PROVE  MSInv'
<1>1. Fine(iw, at, call) /\ left \in [Kinds -> Nat]
  BY DEF MSInv, Rest
<1>2. PICK k \in Calls :
        /\ Spend(k) /\ call' = [call EXCEPT ![t] = k]
        /\ at' = [at EXCEPT ![t] = CASE k \in {"flush", "forceMerge"} -> "flush"
                                     [] k = "commit" -> "lockCommit"
                                     [] k = "deleteAll" -> "deleteAll"
                                     [] k \in {"rollback", "close"} -> "shouldClose"]
  BY DEF Begin
<1> DEFINE p == CASE k \in {"flush", "forceMerge"} -> "flush"
                  [] k = "commit" -> "lockCommit"
                  [] k = "deleteAll" -> "deleteAll"
                  [] k \in {"rollback", "close"} -> "shouldClose"
<1>3. p \in AppAt \ {"awaitAborted"} /\ Fits(p, k)
  BY DEF Calls, AppAt, Fits
<1>4. at' = [at EXCEPT ![t] = p]
  BY <1>2
<1> HIDE DEF p
<1>5. UNCHANGED <<iw, mergeThreads, paused, cms, commitLock>>
  BY DEF Begin
<1>6. Fine(iw, [at EXCEPT ![t] = p], [call EXCEPT ![t] = k])
  <2>1. k \in Calls \cup {"none", "lastCommit"}
    OBVIOUS
  <2> QED BY <1>1, <1>3, <2>1, Called
<1>7. Fine(iw', at', call')
  BY <1>2, <1>4, <1>5, <1>6
<1>8. left' \in [Kinds -> Nat]
  BY <1>1, <1>2, SpendKinds DEF Kinds
<1>9. Rest(iw', at', mergeThreads', paused', cms', commitLock', left')
  BY <1>4, <1>5, <1>8 DEF MSInv, Rest
<1> QED BY <1>7, <1>9 DEF MSInv

LEMMA WaitToCloseStep ==
  ASSUME MSInv, NEW t \in Threads, WaitToClose(t)
  PROVE  MSInv'
<1>1. Fine(iw, at, call) /\ IsWriter(iw) /\ iw.closing \in BOOLEAN /\ iw.closed \in BOOLEAN
  BY DEF MSInv, Fine, Shape
<1>2. /\ at[t] = "shouldClose" /\ iw' = [iw EXCEPT !.closing = @ \/ ~iw.closed]
      /\ UNCHANGED <<call, mergeThreads, paused, cms, commitLock, left>>
  BY DEF WaitToClose
<1>3. call[t] \in {"rollback", "close"}
  BY <1>1, <1>2 DEF Fine, Calling, Fits
<1>4. PICK p \in {"return", "flush", "lock"} :
        at' = [at EXCEPT ![t] = p] /\ (p = "flush" => call[t] = "close")
  BY DEF WaitToClose
<1>5. p \in AppAt \ {"awaitAborted"} /\ Fits(p, call[t])
  BY <1>3, <1>4 DEF AppAt, Fits
<1>6. t \in DOMAIN at /\ MayGo(iw, at, call, t, p)
  BY <1>1, <1>5, AppGoes
<1>7. /\ IsWriter(iw') /\ iw'.infos = iw.infos /\ iw'.merging = iw.merging
      /\ iw'.pending = iw.pending /\ iw'.running = iw.running /\ iw'.merges = iw.merges
      /\ iw'.stop = iw.stop /\ iw'.closing \in BOOLEAN /\ iw'.closed = iw.closed
      /\ iw'.exceptions = iw.exceptions
  BY <1>1, <1>2, SetsClosing
<1> QED BY <1>1, <1>2, <1>4, <1>6, <1>7, FlagsStep

LEMMA LockCommitStep ==
  ASSUME MSInv, NEW t \in Threads, LockCommit(t)
  PROVE  MSInv'
<1>1. Fine(iw, at, call)
  BY DEF MSInv
<1>2. /\ at[t] = "lockCommit" /\ commitLock' \in {None, t}
      /\ UNCHANGED <<iw, call, mergeThreads, paused, cms, left>>
  BY DEF LockCommit
<1>3. PICK p \in {"return", "flush"} : at' = [at EXCEPT ![t] = p]
  BY DEF LockCommit
<1>4. p \in AppAt \ {"awaitAborted"} /\ Fits(p, call[t])
  BY <1>1, <1>2 DEF Fine, Calling, AppAt, Fits
<1>5. t \in DOMAIN at /\ MayGo(iw, at, call, t, p)
  BY <1>1, <1>4, AppGoes
<1>6. Fine(iw', at', call')
  BY <1>1, <1>2, <1>3, <1>5, Moves
<1>7. Rest(iw', at', mergeThreads', paused', cms', commitLock', left')
  BY <1>2, <1>3, <1>5 DEF MSInv, Rest
<1> QED BY <1>6, <1>7 DEF MSInv

LEMMA ProposeStep ==
  ASSUME MSInv, NEW t \in Threads, Propose(t)
  PROVE  MSInv'
<1>1. Fine(iw, at, call) /\ Shape(iw) /\ Owned(iw)
  BY DEF MSInv, Fine
<1>2. /\ at[t] \in {"propose", "proposeForced"}
      /\ UNCHANGED <<call, mergeThreads, paused, cms, commitLock, left>>
  BY DEF Propose
<1>3. Grown(iw, iw') /\ (iw.stop => iw' = iw)
  BY <1>1, UpdateGrows, GrownAtFirst DEF Propose
<1>4. PICK p : /\ at' = [at EXCEPT ![t] = p]
               /\ \/ p = Throws(t)
                  \/ p = "merge" /\ at[t] = "propose"
                  \/ p = "mergeForced" /\ at[t] = "proposeForced"
  BY DEF Propose
<1>5. p \in AppAt \ {"awaitAborted"} /\ Fits(p, call[t])
  <2>1. Throws(t) \in {"lock", "return"} /\ Fits(Throws(t), call[t])
    BY <1>2, ThrowsGoes
  <2> QED BY <1>1, <1>2, <1>4, <2>1 DEF Fine, Calling, AppAt, Fits
<1>6. t \in DOMAIN at /\ MayGo(iw, at, call, t, p)
  BY <1>1, <1>5, AppGoes
<1>7. Fine(iw, at', call)
  BY <1>1, <1>4, <1>6, Moves
<1>8. Fine(iw', at', call)
  BY <1>3, <1>7, GrownFine
<1>9. Fine(iw', at', call')
  BY <1>2, <1>8
<1>10. DOMAIN iw.merges \subseteq DOMAIN iw'.merges /\ iw'.exceptions = iw.exceptions
  BY <1>3 DEF Grown, Same
<1>11. Rest(iw', at', mergeThreads', paused', cms', commitLock', left')
  BY <1>2, <1>4, <1>10 DEF MSInv, Rest
<1> QED BY <1>9, <1>11 DEF MSInv

LEMMA FlushedIsFinite ==
  ASSUME left \in [Kinds -> Nat], NEW n \in 0 .. left["docs"], SpendMany("docs", n)
  PROVE  /\ left' \in [Kinds -> Nat]
         /\ IsFiniteSet(1001 + left'["docs"] .. 1000 + left["docs"])
<1>1. left' \in [Kinds -> Nat] /\ "docs" \in Kinds
  BY DEF SpendMany, Kinds
<1>2. 1001 + left'["docs"] \in Int /\ 1000 + left["docs"] \in Int
  BY <1>1
<1> QED BY <1>1, <1>2, FS_Interval

LEMMA FlushedFine ==
  ASSUME MSInv, NEW flushed, IsFiniteSet(flushed),
         NEW index, DOMAIN index = DOMAIN iw.infos \cup flushed,
         iw' = [iw EXCEPT !.infos = index]
  PROVE  Fine(iw', at, call) /\ iw'.merges = iw.merges /\ iw'.exceptions = iw.exceptions
<1>1. Fine(iw, at, call)
  BY DEF MSInv
<1>2. Shape(iw) /\ Placed(iw, at) /\ Deleting(iw, at)
  BY <1>1 DEF Fine
<1>3. IsFiniteSet(DOMAIN index) /\ DOMAIN iw.infos \subseteq DOMAIN index
  <2>1. IsFiniteSet(DOMAIN iw.infos)
    BY <1>2 DEF Shape
  <2>2. IsFiniteSet(DOMAIN iw.infos \cup flushed)
    BY <2>1, FS_Union
  <2> QED BY <2>2
<1>4. iw' = [infos |-> index, merges |-> iw.merges, pending |-> iw.pending,
             running |-> iw.running, merging |-> iw.merging, toMerge |-> iw.toMerge,
             mergeGen |-> iw.mergeGen, exceptions |-> iw.exceptions, stop |-> iw.stop,
             closing |-> iw.closing, closed |-> iw.closed, tragedy |-> iw.tragedy]
  BY <1>2 DEF Shape, IsWriter
<1>5. /\ IsWriter(iw') /\ iw'.merges = iw.merges /\ iw'.merging = iw.merging
      /\ iw'.pending = iw.pending /\ iw'.running = iw.running /\ iw'.closing = iw.closing
      /\ iw'.closed = iw.closed /\ iw'.stop = iw.stop /\ iw'.exceptions = iw.exceptions
      /\ iw'.infos = index
  BY <1>4 DEF IsWriter
<1>6. \A m \in DOMAIN iw.merges :
        iw.merges[m].registered => \/ m \in iw.running /\ at[m] = "merged"
                                  \/ iw.merges[m].segs \subseteq DOMAIN iw'.infos
  BY <1>2, <1>3, <1>5 DEF Placed
<1>7. Deleting(iw', at) /\ iw'.stop \in BOOLEAN
  BY <1>2, <1>5 DEF Deleting, Shape
<1>8. Fine(iw', at, call)
  BY <1>1, <1>3, <1>5, <1>6, <1>7, InfosFine
<1> QED BY <1>5, <1>8

LEMMA FlushStep ==
  ASSUME MSInv, NEW t \in Threads, Flush(t)
  PROVE  MSInv'
<1>1. Fine(iw, at, call) /\ left \in [Kinds -> Nat]
  BY DEF MSInv, Rest
<1>2. /\ at[t] = "flush" /\ commitLock' \in {commitLock, None}
      /\ UNCHANGED <<call, mergeThreads, paused, cms>>
  BY DEF Flush, ReleaseCommitLock
<1>3. /\ call[t] \in {"flush", "commit", "forceMerge", "close", "lastCommit"}
      /\ Fits(at[t], call[t])
  BY <1>1, <1>2 DEF Fine, Calling, Fits
<1>4. /\ Fine(iw', at, call) /\ left' \in [Kinds -> Nat]
      /\ iw'.merges = iw.merges /\ iw'.exceptions = iw.exceptions
  <2>1. CASE iw.closed \/ iw.tragedy
    BY <1>1, <2>1 DEF Flush
  <2>2. CASE ~(iw.closed \/ iw.tragedy)
    <3>1. PICK n \in 0 .. left["docs"] :
            /\ SpendMany("docs", n)
            /\ iw' = [iw EXCEPT !.infos =
                 [s \in DOMAIN @ \cup (1001 + left'["docs"] .. 1000 + left["docs"]) |->
                    IF s \in 1001 + left'["docs"] .. 1000 + left["docs"] THEN 1
                    ELSE iw.infos[s]]]
      BY <2>2 DEF Flush
    <3> DEFINE flushed == 1001 + left'["docs"] .. 1000 + left["docs"]
               index == [s \in DOMAIN iw.infos \cup flushed |->
                           IF s \in flushed THEN 1 ELSE iw.infos[s]]
    <3>2. iw' = [iw EXCEPT !.infos = index] /\ SpendMany("docs", n)
      BY <3>1
    <3>3. IsFiniteSet(flushed) /\ left' \in [Kinds -> Nat]
      BY <1>1, <3>2, FlushedIsFinite
    <3>4. DOMAIN index = DOMAIN iw.infos \cup flushed
      OBVIOUS
    <3> HIDE DEF flushed, index
    <3>5. Fine(iw', at, call) /\ iw'.merges = iw.merges /\ iw'.exceptions = iw.exceptions
      BY <3>2, <3>3, <3>4, FlushedFine
    <3> QED BY <3>3, <3>5
  <2> QED BY <2>1, <2>2
<1>5. PICK p : at' = [at EXCEPT ![t] = p] /\ p \in {Throws(t), "propose", AfterFlush(t)}
  BY DEF Flush
<1>6. p \in AppAt \ {"awaitAborted"} /\ Fits(p, call[t])
  <2>1. Throws(t) \in {"lock", "return"} /\ Fits(Throws(t), call[t])
    BY <1>2, ThrowsGoes
  <2>2. AfterFlush(t) \in AppAt \ {"awaitAborted"} /\ Fits(AfterFlush(t), call[t])
    BY <1>3, AfterFlushGoes
  <2>3. "propose" \in AppAt \ {"awaitAborted"} /\ Fits("propose", call[t])
    BY <1>3 DEF AppAt, Fits
  <2>4. Throws(t) \in AppAt \ {"awaitAborted"}
    BY <2>1 DEF AppAt
  <2> QED BY <1>5, <2>1, <2>2, <2>3, <2>4
<1>7. t \in DOMAIN at /\ MayGo(iw', at, call, t, p)
  BY <1>4, <1>6, AppGoes
<1>8. Fine(iw', [at EXCEPT ![t] = p], call)
  BY <1>4, <1>7, Moves
<1>9. Fine(iw', at', call')
  BY <1>2, <1>5, <1>8
<1>10. Rest(iw', at', mergeThreads', paused', cms', commitLock', left')
  BY <1>2, <1>4, <1>5 DEF MSInv, Rest
<1> QED BY <1>9, <1>10 DEF MSInv

LEMMA MarkForcedStep ==
  ASSUME MSInv, NEW t \in Threads, MarkForced(t)
  PROVE  MSInv'
<1> DEFINE marked == iw.running \cup Range(iw.pending)
           ms == [m \in DOMAIN iw.merges |->
                    [iw.merges[m] EXCEPT !.forced = @ \/ m \in marked]]
           segments == DOMAIN iw.infos \cup {-m : m \in {n \in marked : iw.merges[n].named}}
           gen == iw.mergeGen + 1
<1>1. Fine(iw, at, call) /\ Shape(iw)
  BY DEF MSInv, Fine
<1>2. /\ at[t] = "mark" /\ at' = [at EXCEPT ![t] = "proposeForced"]
      /\ UNCHANGED <<call, mergeThreads, paused, cms, commitLock, left>>
  BY DEF MarkForced
<1>3. iw' = [iw EXCEPT !.exceptions = {}, !.mergeGen = gen, !.toMerge = segments,
                       !.merges = ms]
  BY DEF MarkForced
<1>4. /\ DOMAIN ms = DOMAIN iw.merges
      /\ \A m \in DOMAIN iw.merges :
           /\ IsMerge(ms[m]) /\ ms[m].segs = iw.merges[m].segs
           /\ ms[m].registered = iw.merges[m].registered
  <2>1. ASSUME NEW m \in DOMAIN iw.merges
        PROVE  /\ IsMerge(ms[m]) /\ ms[m].segs = iw.merges[m].segs
               /\ ms[m].registered = iw.merges[m].registered
    <3> DEFINE r == iw.merges[m]
               f == r.forced \/ m \in marked
    <3>1. ms[m] = [r EXCEPT !.forced = f]
      OBVIOUS
    <3>2. r = [segs |-> r.segs, registered |-> r.registered, aborted |-> r.aborted,
               forced |-> r.forced, gen |-> r.gen, named |-> r.named, size |-> r.size]
          /\ r.registered \in BOOLEAN
      BY <1>1, <2>1 DEF Shape, IsMerge
    <3> HIDE DEF ms, r, f
    <3>3. ms[m] = [segs |-> r.segs, registered |-> r.registered, aborted |-> r.aborted,
                   forced |-> f, gen |-> r.gen, named |-> r.named, size |-> r.size]
      BY <3>1, <3>2
    <3>4. IsMerge(ms[m]) /\ ms[m].segs = r.segs /\ ms[m].registered = r.registered
      BY <3>2, <3>3 DEF IsMerge
    <3> QED BY <3>4 DEF r
  <2>2. DOMAIN ms = DOMAIN iw.merges
    OBVIOUS
  <2> HIDE DEF ms
  <2> QED BY <2>1, <2>2
<1>5. Len(iw.merges) \in Nat /\ DOMAIN iw.merges = 1 .. Len(iw.merges)
  BY <1>1, ShapeMerges
<1>6. ms = [m \in 1 .. Len(iw.merges) |-> ms[m]]
  BY <1>5
<1> HIDE DEF marked, ms, segments, gen
<1>7. Len(ms) = Len(iw.merges)
  <2> DEFINE S == {ms[n] : n \in 1 .. Len(iw.merges)}
  <2>1. ms \in Seq(S)
    BY <1>5, <1>6
  <2> HIDE DEF S
  <2> QED BY <1>4, <1>5, <2>1
<1>8. iw' = [infos |-> iw.infos, merges |-> ms, pending |-> iw.pending,
             running |-> iw.running, merging |-> iw.merging, toMerge |-> segments,
             mergeGen |-> gen, exceptions |-> {}, stop |-> iw.stop,
             closing |-> iw.closing, closed |-> iw.closed, tragedy |-> iw.tragedy]
  BY <1>1, <1>3 DEF Shape, IsWriter
<1>9. /\ IsWriter(iw') /\ iw'.infos = iw.infos /\ iw'.merging = iw.merging
      /\ iw'.pending = iw.pending /\ iw'.running = iw.running /\ iw'.merges = ms
      /\ iw'.stop = iw.stop /\ iw'.closing = iw.closing /\ iw'.closed = iw.closed
      /\ iw'.exceptions = {}
  BY <1>8 DEF IsWriter
<1>10. Alike(iw, iw')
  BY <1>1, <1>4, <1>5, <1>6, <1>7, <1>9 DEF Alike, Shape
<1>11. Fine(iw', at, call)
  BY <1>1, <1>10, AlikeFine
<1>12. "proposeForced" \in AppAt \ {"awaitAborted"} /\ Fits("proposeForced", call[t])
  BY <1>1, <1>2 DEF Fine, Calling, AppAt, Fits
<1>13. t \in DOMAIN at /\ MayGo(iw', at, call, t, "proposeForced")
  BY <1>11, <1>12, AppGoes
<1>14. Fine(iw', [at EXCEPT ![t] = "proposeForced"], call)
  BY <1>11, <1>13, Moves
<1>15. Fine(iw', at', call')
  BY <1>2, <1>14
<1>16. Rest(iw', at', mergeThreads', paused', cms', commitLock', left')
  BY <1>2, <1>4, <1>9 DEF MSInv, Rest
<1> QED BY <1>15, <1>16 DEF MSInv

LEMMA AwaitForcedStep ==
  ASSUME MSInv, NEW t \in Threads, AwaitForced(t)
  PROVE  MSInv'
<1>1. Fine(iw, at, call)
  BY DEF MSInv
<1>2. /\ at[t] = "awaitForced"
      /\ UNCHANGED <<iw, call, mergeThreads, paused, cms, commitLock, left>>
  BY DEF AwaitForced
<1>3. PICK p \in {"return", "done"} : at' = [at EXCEPT ![t] = p]
  BY DEF AwaitForced
<1>4. p \in AppAt \ {"awaitAborted"} /\ Fits(p, call[t])
  BY <1>1, <1>2 DEF Fine, Calling, AppAt, Fits
<1>5. t \in DOMAIN at /\ MayGo(iw, at, call, t, p)
  BY <1>1, <1>4, AppGoes
<1>6. Fine(iw', at', call')
  BY <1>1, <1>2, <1>3, <1>5, Moves
<1>7. Rest(iw', at', mergeThreads', paused', cms', commitLock', left')
  BY <1>2, <1>3 DEF MSInv, Rest
<1> QED BY <1>6, <1>7 DEF MSInv

LEMMA AwaitMergesStep ==
  ASSUME MSInv, NEW t \in Threads, AwaitMerges(t)
  PROVE  MSInv'
<1>1. Fine(iw, at, call)
  BY DEF MSInv
<1>2. /\ at' = [at EXCEPT ![t] = "lockCommit"] /\ call' = [call EXCEPT ![t] = "lastCommit"]
      /\ UNCHANGED <<iw, mergeThreads, paused, cms, commitLock, left>>
  BY DEF AwaitMerges
<1>3. "lockCommit" \in AppAt \ {"awaitAborted"} /\ Fits("lockCommit", "lastCommit")
  BY DEF AppAt, Fits
<1>4. "lastCommit" \in Calls \cup {"none", "lastCommit"}
  OBVIOUS
<1>5. Fine(iw, [at EXCEPT ![t] = "lockCommit"], [call EXCEPT ![t] = "lastCommit"])
  BY <1>1, <1>3, <1>4, Called
<1>6. Fine(iw', at', call')
  BY <1>2, <1>5
<1>7. Rest(iw', at', mergeThreads', paused', cms', commitLock', left')
  BY <1>2 DEF MSInv, Rest
<1> QED BY <1>6, <1>7 DEF MSInv

LEMMA ReturnStep ==
  ASSUME MSInv, NEW t \in Threads, Return(t)
  PROVE  MSInv'
<1>1. Fine(iw, at, call)
  BY DEF MSInv
<1>2. /\ at' = [at EXCEPT ![t] = "idle"] /\ call' = [call EXCEPT ![t] = "none"]
      /\ commitLock' \in {commitLock, None}
      /\ UNCHANGED <<iw, mergeThreads, paused, cms, left>>
  BY DEF Return
<1>3. "idle" \in AppAt \ {"awaitAborted"} /\ Fits("idle", "none")
  BY DEF AppAt, Fits
<1>4. "none" \in Calls \cup {"none", "lastCommit"}
  OBVIOUS
<1>5. Fine(iw, [at EXCEPT ![t] = "idle"], [call EXCEPT ![t] = "none"])
  BY <1>1, <1>3, <1>4, Called
<1>6. Fine(iw', at', call')
  BY <1>2, <1>5
<1>7. Rest(iw', at', mergeThreads', paused', cms', commitLock', left')
  BY <1>2 DEF MSInv, Rest
<1> QED BY <1>6, <1>7 DEF MSInv

LEMMA DeleteAllStep ==
  ASSUME MSInv, NEW t \in Threads, DeleteAll(t)
  PROVE  MSInv'
<1>1. Fine(iw, at, call) /\ Shape(iw) /\ Calling(at, call)
  BY DEF MSInv, Fine
<1>2. /\ at[t] = "deleteAll" /\ at' = [at EXCEPT ![t] = "awaitAborted"] /\ ~FullFlushLocked(t)
      /\ iw' = AbortMerges(iw)
      /\ UNCHANGED <<call, mergeThreads, paused, cms, commitLock, left>>
  BY DEF DeleteAll
<1>3. Fine(iw', at, call)
  BY <1>1, <1>2, AbortFine
<1>4. /\ DOMAIN iw'.merges = DOMAIN iw.merges /\ iw'.exceptions = iw.exceptions
      /\ iw'.stop /\ iw'.pending = <<>>
  BY <1>1, <1>2, AbortFields DEF GivenUp
<1>5. \A u \in Threads : at[u] # "awaitAborted"
  BY <1>1, <1>2 DEF FullFlushLocked, Calling, Fits
<1>6. Fits("awaitAborted", call[t]) /\ "awaitAborted" \in AppAt \ Held
  BY <1>1, <1>2 DEF Calling, Fits, AppAt, Held
<1>7. t \in DOMAIN at /\ t \notin iw'.running
  BY <1>3, MergesAreNumbers DEF Fine, Agents, Owned
<1>8. MayGo(iw', at, call, t, "awaitAborted")
  BY <1>4, <1>5, <1>6, <1>7 DEF MayGo
<1>9. Fine(iw', [at EXCEPT ![t] = "awaitAborted"], call)
  BY <1>3, <1>7, <1>8, Moves
<1>10. Fine(iw', at', call')
  BY <1>2, <1>9
<1>11. Rest(iw', at', mergeThreads', paused', cms', commitLock', left')
  BY <1>2, <1>4 DEF MSInv, Rest
<1> QED BY <1>10, <1>11 DEF MSInv

LEMMA ClearSegmentsStep ==
  ASSUME MSInv, NEW t \in Threads, ClearSegments(t)
  PROVE  MSInv'
<1>1. Fine(iw, at, call) /\ Shape(iw) /\ Owned(iw) /\ Calling(at, call) /\ Deleting(iw, at)
  BY DEF MSInv, Fine
<1>2. /\ at[t] = "awaitAborted" /\ iw.running = {} /\ at' = [at EXCEPT ![t] = "return"]
      /\ iw' = [iw EXCEPT !.stop = FALSE, !.infos = <<>>]
      /\ UNCHANGED <<call, mergeThreads, paused, cms, commitLock, left>>
  BY DEF ClearSegments
<1>3. "return" \in AppAt \ {"awaitAborted"} /\ Fits("return", call[t])
  BY <1>1, <1>2 DEF Calling, AppAt, Fits
<1>4. t \in DOMAIN at /\ MayGo(iw, at, call, t, "return")
  BY <1>1, <1>3, AppGoes
<1>5. Fine(iw, at', call)
  BY <1>1, <1>2, <1>4, Moves
<1>6. \A m \in DOMAIN iw.merges : ~iw.merges[m].registered
  <2>1. Range(iw.pending) = {}
    BY <1>1, <1>2 DEF Deleting, Range
  <2> QED BY <1>1, <1>2, <2>1 DEF Owned
<1>7. iw' = [infos |-> <<>>, merges |-> iw.merges, pending |-> iw.pending,
             running |-> iw.running, merging |-> iw.merging, toMerge |-> iw.toMerge,
             mergeGen |-> iw.mergeGen, exceptions |-> iw.exceptions, stop |-> FALSE,
             closing |-> iw.closing, closed |-> iw.closed, tragedy |-> iw.tragedy]
  BY <1>1, <1>2 DEF Shape, IsWriter
<1>8. /\ IsWriter(iw') /\ iw'.merges = iw.merges /\ iw'.merging = iw.merging
      /\ iw'.pending = iw.pending /\ iw'.running = iw.running /\ iw'.closing = iw.closing
      /\ iw'.closed = iw.closed /\ iw'.stop = FALSE /\ iw'.exceptions = iw.exceptions
      /\ iw'.infos = <<>>
  BY <1>7 DEF IsWriter
<1>9. IsFiniteSet(DOMAIN iw'.infos)
  <2>1. DOMAIN iw'.infos = {}
    BY <1>8
  <2> QED BY <2>1, FS_EmptySet
<1>10. \A u \in Threads : at'[u] # "awaitAborted"
  <2>1. Threads \subseteq DOMAIN at /\ at = [a \in DOMAIN at |-> at[a]]
    BY <1>1 DEF Fine, Agents
  <2> QED BY <1>1, <1>2, <2>1 DEF Deleting
<1>11. Deleting(iw', at')
  BY <1>10 DEF Deleting
<1>12. Fine(iw', at', call)
  BY <1>5, <1>6, <1>8, <1>9, <1>11, InfosFine
<1>13. Fine(iw', at', call')
  BY <1>2, <1>12
<1>14. Rest(iw', at', mergeThreads', paused', cms', commitLock', left')
  BY <1>2, <1>8 DEF MSInv, Rest
<1> QED BY <1>13, <1>14 DEF MSInv

------------------------------------------------------------------------------
\* The invariant holds in every state.

LEMMA InitFine ==
  ASSUME Init
  PROVE  MSInv
<1>1. PICK w \in Workloads :
        /\ iw = [infos |-> w.sizes, merges |-> <<>>, pending |-> <<>>, running |-> {},
                 merging |-> {}, toMerge |-> {}, mergeGen |-> 0, exceptions |-> {},
                 stop |-> FALSE, closing |-> FALSE, closed |-> FALSE, tragedy |-> FALSE]
        /\ at = [t \in Threads |-> "idle"] /\ call = [t \in Threads |-> "none"]
        /\ mergeThreads = {} /\ paused = {} /\ cms = None /\ commitLock = None
        /\ left = w.left
  BY DEF Init
<1>2. /\ IsWriter(iw) /\ iw.infos = w.sizes /\ iw.merges = <<>> /\ iw.pending = <<>>
      /\ iw.running = {} /\ iw.merging = {} /\ iw.exceptions = {} /\ iw.stop = FALSE
      /\ iw.closing = FALSE /\ iw.closed = FALSE
  BY <1>1 DEF IsWriter
<1>3. w.sizes \in Seq(Nat) /\ left \in [Kinds -> Nat]
  BY <1>1, MergeSchedulingAssumption
<1>4. DOMAIN iw.merges = {} /\ Range(iw.pending) = {}
  BY <1>2 DEF Range
<1>5. Shape(iw)
  <2>1. IsFiniteSet(DOMAIN iw.infos)
    <3>1. DOMAIN iw.infos = 1 .. Len(w.sizes) /\ Len(w.sizes) \in Int
      BY <1>2, <1>3
    <3> QED BY <3>1, FS_Interval
  <2>2. iw.merges = [m \in 1 .. Len(iw.merges) |-> iw.merges[m]] /\ Len(iw.merges) \in Nat
    BY <1>2
  <2>3. iw.pending \in Seq(Nat)
    BY <1>2
  <2> QED BY <1>2, <1>4, <2>1, <2>2, <2>3 DEF Shape
<1>6. Owned(iw)
  BY <1>2, <1>4 DEF Owned
<1>7. Agents(iw, at) /\ Placed(iw, at)
  BY <1>1, <1>2, <1>4 DEF Agents, Placed, AppAt
<1>8. Calling(at, call) /\ Deleting(iw, at)
  BY <1>1 DEF Calling, Deleting, Fits
<1>9. Rest(iw, at, mergeThreads, paused, cms, commitLock, left)
  BY <1>1, <1>2, <1>3 DEF Rest
<1> QED BY <1>5, <1>6, <1>7, <1>8, <1>9 DEF MSInv, Fine

LEMMA ScheduleStep ==
  ASSUME MSInv, NEW a \in DOMAIN at, Schedule(a) \/ CloseWriter(a)
  PROVE  MSInv'
<1>1. CASE Stall(a)
  BY <1>1, StallStep
<1>2. CASE EndScheduling(a)
  BY <1>2, EndSchedulingStep
<1>3. CASE Launch(a)
  BY <1>3, LaunchStep
<1>4. CASE LockCommits(a)
  BY <1>4, LockCommitsStep
<1>5. CASE MergesAborted(a)
  BY <1>5, MergesAbortedStep
<1>6. CASE SyncMergeThreads(a)
  BY <1>6, SyncMergeThreadsStep
<1>7. CASE SetClosed(a)
  BY <1>7, SetClosedStep
<1> QED BY <1>1, <1>2, <1>3, <1>4, <1>5, <1>6, <1>7 DEF Schedule, CloseWriter

LEMMA MergeThreadFine ==
  ASSUME MSInv, NEW m \in DOMAIN iw.merges \cap DOMAIN at, MergeThreadStep(m)
  PROVE  MSInv'
<1>1. CASE MergeInit(m)
  BY <1>1, MergeInitStep
<1>2. CASE MergeMiddle(m)
  BY <1>2, MergeMiddleStep
<1>3. CASE CommitMerge(m)
  BY <1>3, CommitMergeStep
<1>4. CASE HandleMergeException(m)
  BY <1>4, HandleMergeExceptionStep
<1>5. CASE FinishMerge(m)
  BY <1>5, FinishMergeStep
<1>6. CASE TragicEvent(m)
  BY <1>6, TragicEventStep
<1>7. CASE ShouldClose(m)
  BY <1>7, ShouldCloseStep
<1>8. CASE Exit(m)
  BY <1>8, ExitStep
<1>9. CASE Schedule(m) \/ CloseWriter(m)
  BY <1>9, ScheduleStep
<1> QED BY <1>1, <1>2, <1>3, <1>4, <1>5, <1>6, <1>7, <1>8, <1>9 DEF MergeThreadStep

LEMMA CallFine ==
  ASSUME MSInv, NEW t \in Threads, Begin(t) \/ CallStep(t)
  PROVE  MSInv'
<1>1. CASE Begin(t)
  BY <1>1, BeginStep
<1>2. CASE WaitToClose(t)
  BY <1>2, WaitToCloseStep
<1>3. CASE LockCommit(t)
  BY <1>3, LockCommitStep
<1>4. CASE Flush(t)
  BY <1>4, FlushStep
<1>5. CASE Propose(t)
  BY <1>5, ProposeStep
<1>6. CASE MarkForced(t)
  BY <1>6, MarkForcedStep
<1>7. CASE AwaitForced(t)
  BY <1>7, AwaitForcedStep
<1>8. CASE AwaitMerges(t)
  BY <1>8, AwaitMergesStep
<1>9. CASE DeleteAll(t)
  BY <1>9, DeleteAllStep
<1>10. CASE ClearSegments(t)
  BY <1>10, ClearSegmentsStep
<1>11. CASE Return(t)
  BY <1>11, ReturnStep
<1>12. CASE Schedule(t) \/ CloseWriter(t)
  <2>1. t \in DOMAIN at
    BY DEF MSInv, Fine, Agents
  <2> QED BY <1>12, <2>1, ScheduleStep
<1> QED BY <1>1, <1>2, <1>3, <1>4, <1>5, <1>6, <1>7, <1>8, <1>9, <1>10, <1>11, <1>12
        DEF CallStep

LEMMA NextFine ==
  ASSUME MSInv, [Next]_vars
  PROVE  MSInv'
<1>1. CASE Next
  BY <1>1, CallFine, MergeThreadFine DEF Next
<1>2. CASE UNCHANGED vars
  BY <1>2 DEF vars, MSInv, Fine, Rest
<1> QED BY <1>1, <1>2

LEMMA AlwaysFine == Spec => []MSInv
<1>1. Init => MSInv
  BY InitFine
<1>2. MSInv /\ [Next]_vars => MSInv'
  BY NextFine
<1> QED BY <1>1, <1>2, PTL DEF Spec

\* Registered merges own their segments from registerMerge to mergeFinish, and are pending,
\* once, or running all that time, in every interleaving of any number of calls and merge
\* threads, with failures, deleteAll, rollback and close.
THEOREM SegmentsAreOwned == Spec => []SegmentsOwned
<1>1. MSInv => SegmentsOwned
  <2> SUFFICES ASSUME MSInv
               PROVE  SegmentsOwned
    OBVIOUS
  <2>1. Shape(iw) /\ Owned(iw) /\ Placed(iw, at)
    BY DEF MSInv, Fine
  <2>2. \A m \in Registered : m \in DOMAIN iw.merges /\ iw.merges[m].registered
    BY DEF Registered
  <2>3. iw.merging = UNION {iw.merges[m].segs : m \in Registered}
    BY <2>1 DEF Owned, Registered
  <2>4. \A m, n \in Registered : m # n => iw.merges[m].segs \cap iw.merges[n].segs = {}
    BY <2>1, <2>2 DEF Owned
  <2>5. /\ Registered = Range(iw.pending) \cup iw.running
        /\ Range(iw.pending) \cap iw.running = {}
        /\ \A i, j \in DOMAIN iw.pending : iw.pending[i] = iw.pending[j] => i = j
    BY <2>1 DEF Owned, Registered
  <2>6. \A m \in Registered :
          (m \in iw.running /\ at[m] = "merged") \/ iw.merges[m].segs \subseteq DOMAIN iw.infos
    BY <2>1, <2>2 DEF Placed
  <2> QED BY <2>3, <2>4, <2>5, <2>6 DEF SegmentsOwned
<1> QED BY <1>1, AlwaysFine, PTL

\* The states of the writer, of the calls and of the merge threads fit together.
\* How many segments and merges there may be is what a workload bounds.
THEOREM MergeStatesFit == Spec /\ []InBounds => []TypeOK
<1>1. MSInv /\ InBounds => TypeOK
  <2> SUFFICES ASSUME MSInv, InBounds
               PROVE  TypeOK
    OBVIOUS
  <2>1. Owned(iw) /\ Agents(iw, at) /\ Placed(iw, at) /\ Calling(at, call)
    BY DEF MSInv, Fine
  <2>2. DOMAIN at = Threads \cup MergeThreads
    BY <2>1 DEF Agents, MergeThreads
  <2>3. Range(iw.pending) \cap MergeThreads = {} /\ iw.running \subseteq MergeThreads
    BY <2>1 DEF Owned, Placed, MergeThreads
  <2>4. /\ mergeThreads \cup paused \cup iw.exceptions \subseteq MergeThreads
        /\ {cms, commitLock} \subseteq DOMAIN at \cup {None}
    BY DEF MSInv, Rest, MergeThreads
  <2>5. \A t \in Threads : call[t] = "none" <=> at[t] = "idle"
    BY <2>1 DEF Calling, Fits
  <2> QED BY <2>2, <2>3, <2>4, <2>5 DEF TypeOK
<1> QED BY <1>1, AlwaysFine, PTL

------------------------------------------------------------------------------
\* Closing the writer

\* Thread a has been let to close the writer and is not through.
IsClosing(a, where, what) ==
  \/ where[a] \in {"lock", "awaitRunning", "sync", "setClosed"}
  \/ /\ a \in Threads /\ what[a] \in {"close", "lastCommit"}
     /\ where[a] \in {"flush", "propose", "merge", "drain", "awaitMerges", "lockCommit"}

\* Only one does, and the writer knows.
Closer(w, where, what) ==
  /\ \A a \in DOMAIN where : IsClosing(a, where, what) => w.closing /\ ~w.closed
  /\ \A a, b \in DOMAIN where :
       IsClosing(a, where, what) /\ IsClosing(b, where, what) => a = b

Gone == {"unborn", "dead"}
Past == {"awaitRunning", "sync", "setClosed"}

\* From abortMerges on there are no merges, and in the end no merge threads.
Quiet(w, where, threads) ==
  /\ \A a \in DOMAIN where : where[a] \in Past => w.stop /\ w.pending = <<>>
  /\ \A a \in DOMAIN where : where[a] \in {"sync", "setClosed"} => w.running = {}
  /\ \A m \in DOMAIN w.merges \cap DOMAIN where : where[m] \notin Gone => m \in threads
  /\ \A a \in DOMAIN where : where[a] = "setClosed" =>
       \A m \in (DOMAIN w.merges \cap DOMAIN where) \ {a} : where[m] \in Gone
  /\ w.closed => /\ w.pending = <<>> /\ w.running = {}
                 /\ \A m \in DOMAIN w.merges \cap DOMAIN where : where[m] \in Gone \cup {"exit"}

QuietInv == Closer(iw, at, call) /\ Quiet(iw, at, mergeThreads)

\* No deleteAll waits for merges to abort while the writer is closing.
DeletesApart == \A t \in Threads : at[t] = "awaitAborted" => ~iw.closing

LEMMA OneMoves ==
  ASSUME MSInv, NEW a \in DOMAIN at, NEW q, at' = [at EXCEPT ![a] = q]
  PROVE  /\ DOMAIN at' = DOMAIN at /\ at'[a] = q
         /\ \A b \in DOMAIN at : b # a => at'[b] = at[b]
         /\ DOMAIN iw.merges \cap Threads = {} /\ Threads \subseteq DOMAIN at
<1>1. at = [b \in DOMAIN at |-> at[b]] /\ Threads \subseteq DOMAIN at /\ Shape(iw)
  BY DEF MSInv, Fine, Agents
<1>2. /\ DOMAIN at' = DOMAIN at /\ at'[a] = q
      /\ \A b \in DOMAIN at : b # a => at'[b] = at[b]
  BY <1>1
<1> QED BY <1>1, <1>2, MergesAreNumbers

LEMMA CloserStep ==
  ASSUME MSInv, QuietInv, NEW a \in DOMAIN at, NEW q, at' = [at EXCEPT ![a] = q],
         \A t \in Threads \ {a} : call'[t] = call[t],
         iw'.closing = iw.closing, iw'.closed = iw.closed,
         IsClosing(a, at', call') => IsClosing(a, at, call)
  PROVE  Closer(iw', at', call')
<1>1. /\ DOMAIN at' = DOMAIN at
      /\ \A b \in DOMAIN at : b # a => at'[b] = at[b]
  BY OneMoves
<1>2. \A b \in DOMAIN at : b # a /\ IsClosing(b, at', call') => IsClosing(b, at, call)
  BY <1>1 DEF IsClosing
<1>3. \A b \in DOMAIN at : IsClosing(b, at', call') => IsClosing(b, at, call)
  BY <1>2
<1> QED BY <1>1, <1>3 DEF QuietInv, Closer

\* Nobody is closing the writer, and thread a begins to, or nobody.
LEMMA CloserBegins ==
  ASSUME MSInv, QuietInv, NEW a \in DOMAIN at, NEW q, at' = [at EXCEPT ![a] = q],
         call' = call, ~(iw.closing /\ ~iw.closed),
         IsClosing(a, at', call') => iw'.closing /\ ~iw'.closed
  PROVE  Closer(iw', at', call')
<1>1. /\ DOMAIN at' = DOMAIN at
      /\ \A b \in DOMAIN at : b # a => at'[b] = at[b]
  BY OneMoves
<1>2. \A b \in DOMAIN at : ~IsClosing(b, at, call)
  BY DEF QuietInv, Closer
<1>3. \A b \in DOMAIN at : b # a => ~IsClosing(b, at', call')
  BY <1>1, <1>2 DEF IsClosing
<1> QED BY <1>1, <1>3 DEF Closer

LEMMA QuietStep ==
  ASSUME MSInv, QuietInv, NEW a \in DOMAIN at, NEW q, at' = [at EXCEPT ![a] = q],
         at[a] \notin Gone, a \in Threads \/ at[a] # "exit" \/ q = "dead",
         DOMAIN iw'.merges \cap DOMAIN at = DOMAIN iw.merges \cap DOMAIN at,
         iw'.running \subseteq iw.running,
         iw'.pending \in {iw.pending, <<>>} \/ (~iw.stop /\ ~iw.closed),
         iw'.stop \/ ~iw.stop \/ ~iw.closing,
         iw'.closed => iw.closed,
         q \in Past => iw'.stop /\ iw'.pending = <<>>,
         q \in {"sync", "setClosed"} => iw'.running = {},
         q = "setClosed" =>
           \A m \in (DOMAIN iw.merges \cap DOMAIN at) \ {a} : at[m] \in Gone,
         \A m \in mergeThreads : at'[m] \notin Gone => m \in mergeThreads'
  PROVE  Quiet(iw', at', mergeThreads')
<1>1. /\ DOMAIN at' = DOMAIN at /\ at'[a] = q
      /\ \A b \in DOMAIN at : b # a => at'[b] = at[b]
      /\ DOMAIN iw.merges \cap Threads = {}
  BY OneMoves
<1>2. Quiet(iw, at, mergeThreads) /\ Closer(iw, at, call)
  BY DEF QuietInv
<1>3. ASSUME NEW b \in DOMAIN at, at'[b] \in Past
      PROVE  iw'.stop /\ iw'.pending = <<>>
  <2>1. CASE b = a
    BY <1>1, <1>3, <2>1
  <2>2. CASE b # a
    <3>1. at[b] \in Past
      BY <1>1, <1>3, <2>2
    <3>2. iw.stop /\ iw.pending = <<>>
      BY <1>2, <3>1 DEF Quiet
    <3>3. iw.closing
      BY <1>2, <3>1 DEF Closer, IsClosing, Past
    <3> QED BY <3>2, <3>3
  <2> QED BY <2>1, <2>2
<1>4. ASSUME NEW b \in DOMAIN at, at'[b] \in {"sync", "setClosed"}
      PROVE  iw'.running = {}
  <2>1. CASE b = a
    BY <1>1, <1>4, <2>1
  <2>2. CASE b # a
    BY <1>1, <1>2, <1>4, <2>2 DEF Quiet
  <2> QED BY <2>1, <2>2
<1>5. ASSUME NEW m \in DOMAIN iw.merges \cap DOMAIN at, at'[m] \notin Gone
      PROVE  m \in mergeThreads'
  <2>1. at[m] \notin Gone
    BY <1>1, <1>5
  <2> QED BY <1>2, <1>5, <2>1 DEF Quiet
<1>6. ASSUME NEW b \in DOMAIN at, at'[b] = "setClosed",
             NEW m \in (DOMAIN iw.merges \cap DOMAIN at) \ {b}
      PROVE  at'[m] \in Gone
  <2>1. CASE b = a
    BY <1>1, <1>6, <2>1
  <2>2. CASE b # a
    <3>1. at[b] = "setClosed"
      BY <1>1, <1>6, <2>2
    <3>2. at[m] \in Gone
      BY <1>2, <1>6, <3>1 DEF Quiet
    <3> QED BY <1>1, <3>2
  <2> QED BY <2>1, <2>2
<1>7. ASSUME iw'.closed
      PROVE  /\ iw'.pending = <<>> /\ iw'.running = {}
             /\ \A m \in DOMAIN iw.merges \cap DOMAIN at : at'[m] \in Gone \cup {"exit"}
  <2>1. /\ iw.closed /\ iw.pending = <<>> /\ iw.running = {}
        /\ \A m \in DOMAIN iw.merges \cap DOMAIN at : at[m] \in Gone \cup {"exit"}
    BY <1>2, <1>7 DEF Quiet
  <2>2. \A m \in DOMAIN iw.merges \cap DOMAIN at : at'[m] \in Gone \cup {"exit"}
    BY <1>1, <2>1 DEF Gone
  <2> QED BY <2>1, <2>2
<1> QED BY <1>1, <1>3, <1>4, <1>5, <1>6, <1>7 DEF Quiet

\* A merge thread that still works on its merge shows that the writer is open.
LEMMA AtWork ==
  ASSUME QuietInv, NEW m \in DOMAIN iw.merges \cap DOMAIN at,
         at[m] \notin Gone \cup {"exit"}
  PROVE  ~iw.closed
BY DEF QuietInv, Quiet

\* The writer is v instead of w, and nothing was added to its merges.
Lasts(w, v) ==
  /\ DOMAIN v.merges = DOMAIN w.merges /\ v.running \subseteq w.running /\ v.pending = w.pending
  /\ v.stop = w.stop /\ v.closing = w.closing /\ v.closed = w.closed

LEMMA PlainStep ==
  ASSUME MSInv, QuietInv, NEW a \in DOMAIN at, NEW q, at' = [at EXCEPT ![a] = q],
         at[a] \notin Gone, a \in Threads \/ at[a] # "exit" \/ q = "dead", q \notin Past,
         Lasts(iw, iw'), \A t \in Threads \ {a} : call'[t] = call[t],
         IsClosing(a, at', call') => IsClosing(a, at, call),
         \A m \in mergeThreads : at'[m] \notin Gone => m \in mergeThreads'
  PROVE  QuietInv'
<1>1. Closer(iw', at', call')
  BY CloserStep DEF Lasts
<1>2. q \notin {"sync", "setClosed"}
  BY DEF Past
<1>3. Quiet(iw', at', mergeThreads')
  BY <1>2, QuietStep DEF Lasts
<1> QED BY <1>1, <1>3 DEF QuietInv

LEMMA MergeFinishLasts ==
  ASSUME MSInv, NEW m \in DOMAIN iw.merges
  PROVE  Lasts(iw, MergeFinish(iw, m))
<1> DEFINE v == MergeFinish(iw, m)
<1>1. Shape(iw)
  BY DEF MSInv, Fine
<1>2. GivenUp(iw, v, {m}) /\ Same(iw, v) /\ v.pending = iw.pending
  BY <1>1, FinishFields
<1> HIDE DEF v
<1>3. DOMAIN v.merges = DOMAIN iw.merges /\ v.running = iw.running \ {m}
  BY <1>2 DEF GivenUp
<1>4. Lasts(iw, v)
  BY <1>2, <1>3 DEF Same, Lasts
<1> QED BY <1>4 DEF v

LEMMA MergeInitQuiet ==
  ASSUME MSInv, QuietInv, NEW m \in DOMAIN iw.merges \cap DOMAIN at, MergeInit(m)
  PROVE  QuietInv'
<1>1. PICK q \in {"writing", "throws"} : at' = [at EXCEPT ![m] = q]
  BY DEF MergeInit
<1>2. at[m] = "init" /\ UNCHANGED <<call, mergeThreads>>
  BY DEF MergeInit
<1>3. at'[m] = q /\ m \notin Threads
  BY <1>1, OneMoves
<1>4. Lasts(iw, iw')
  <2>1. IsWriter(iw)
    BY DEF MSInv, Fine, Shape
  <2>2. CASE iw' = iw
    BY <2>2 DEF Lasts
  <2>3. CASE iw' = [iw EXCEPT !.merges[m].named = TRUE]
    <3> DEFINE ms == [iw.merges EXCEPT ![m] = [iw.merges[m] EXCEPT !.named = TRUE]]
    <3>1. iw' = [iw EXCEPT !.merges = ms] /\ DOMAIN ms = DOMAIN iw.merges
      BY <2>3
    <3> HIDE DEF ms
    <3>2. iw' = [infos |-> iw.infos, merges |-> ms, pending |-> iw.pending,
                 running |-> iw.running, merging |-> iw.merging, toMerge |-> iw.toMerge,
                 mergeGen |-> iw.mergeGen, exceptions |-> iw.exceptions, stop |-> iw.stop,
                 closing |-> iw.closing, closed |-> iw.closed, tragedy |-> iw.tragedy]
      BY <2>1, <3>1 DEF IsWriter
    <3> QED BY <3>1, <3>2 DEF Lasts
  <2>4. CASE iw' = MergeFinish(iw, m)
    BY <2>4, MergeFinishLasts
  <2> QED BY <2>2, <2>3, <2>4 DEF MergeInit
<1>5. ~IsClosing(m, at', call')
  BY <1>3 DEF IsClosing
<1>6. at[m] \notin Gone /\ at[m] # "exit" /\ q \notin Past
  BY <1>2 DEF Gone, Past
<1> QED BY <1>1, <1>2, <1>4, <1>5, <1>6, PlainStep

LEMMA MergeMiddleQuiet ==
  ASSUME MSInv, QuietInv, NEW m \in DOMAIN iw.merges \cap DOMAIN at, MergeMiddle(m)
  PROVE  QuietInv'
<1>1. PICK q \in {"stopped", "written", "throws"} : at' = [at EXCEPT ![m] = q]
  BY DEF MergeMiddle
<1>2. at[m] = "writing" /\ UNCHANGED <<iw, call, mergeThreads>>
  BY DEF MergeMiddle
<1>3. at'[m] = q /\ m \notin Threads
  BY <1>1, OneMoves
<1>4. Lasts(iw, iw')
  BY <1>2 DEF Lasts
<1>5. ~IsClosing(m, at', call')
  BY <1>3 DEF IsClosing
<1>6. at[m] \notin Gone /\ at[m] # "exit" /\ q \notin Past
  BY <1>2 DEF Gone, Past
<1> QED BY <1>1, <1>2, <1>4, <1>5, <1>6, PlainStep

LEMMA CommitMergeQuiet ==
  ASSUME MSInv, QuietInv, NEW m \in DOMAIN iw.merges \cap DOMAIN at, CommitMerge(m)
  PROVE  QuietInv'
<1>1. PICK q \in {"merged", "throws"} : at' = [at EXCEPT ![m] = q]
  BY DEF CommitMerge
<1>2. at[m] = "written" /\ UNCHANGED <<call, mergeThreads>>
  BY DEF CommitMerge
<1>3. at'[m] = q /\ m \notin Threads
  BY <1>1, OneMoves
<1>4. Lasts(iw, iw')
  <2>1. IsWriter(iw)
    BY DEF MSInv, Fine, Shape
  <2>2. CASE iw' = iw
    BY <2>2 DEF Lasts
  <2>3. CASE iw' = [iw EXCEPT
                      !.infos = With(Restrict(@, DOMAIN @ \ iw.merges[m].segs),
                                     -m, iw.merges[m].size),
                      !.toMerge = Cascade(iw, m, -m)]
    <3> DEFINE index == With(Restrict(iw.infos, DOMAIN iw.infos \ iw.merges[m].segs),
                             -m, iw.merges[m].size)
               cascade == Cascade(iw, m, -m)
    <3>1. iw' = [iw EXCEPT !.infos = index, !.toMerge = cascade]
      BY <2>3
    <3> HIDE DEF index, cascade
    <3>2. iw' = [infos |-> index, merges |-> iw.merges, pending |-> iw.pending,
                 running |-> iw.running, merging |-> iw.merging, toMerge |-> cascade,
                 mergeGen |-> iw.mergeGen, exceptions |-> iw.exceptions, stop |-> iw.stop,
                 closing |-> iw.closing, closed |-> iw.closed, tragedy |-> iw.tragedy]
      BY <2>1, <3>1 DEF IsWriter
    <3> QED BY <3>2 DEF Lasts
  <2> QED BY <2>2, <2>3 DEF CommitMerge
<1>5. ~IsClosing(m, at', call')
  BY <1>3 DEF IsClosing
<1>6. at[m] \notin Gone /\ at[m] # "exit" /\ q \notin Past
  BY <1>2 DEF Gone, Past
<1> QED BY <1>1, <1>2, <1>4, <1>5, <1>6, PlainStep

LEMMA HandleMergeExceptionQuiet ==
  ASSUME MSInv, QuietInv, NEW m \in DOMAIN iw.merges \cap DOMAIN at, HandleMergeException(m)
  PROVE  QuietInv'
<1>1. PICK q \in {"failed", "aborted"} : at' = [at EXCEPT ![m] = q]
  BY DEF HandleMergeException
<1>2. at[m] \in {"throws", "stopped"} /\ UNCHANGED <<call, mergeThreads>>
  BY DEF HandleMergeException
<1>3. at'[m] = q /\ m \notin Threads
  BY <1>1, OneMoves
<1>4. Lasts(iw, iw')
  <2>1. IsWriter(iw)
    BY DEF MSInv, Fine, Shape
  <2>2. CASE iw' = iw
    BY <2>2 DEF Lasts
  <2>3. CASE iw' = [iw EXCEPT !.exceptions = @ \cup {m}]
    <3>1. iw' = [infos |-> iw.infos, merges |-> iw.merges, pending |-> iw.pending,
                 running |-> iw.running, merging |-> iw.merging, toMerge |-> iw.toMerge,
                 mergeGen |-> iw.mergeGen, exceptions |-> iw.exceptions \cup {m},
                 stop |-> iw.stop, closing |-> iw.closing, closed |-> iw.closed,
                 tragedy |-> iw.tragedy]
      BY <2>1, <2>3 DEF IsWriter
    <3> QED BY <3>1 DEF Lasts
  <2> QED BY <2>2, <2>3 DEF HandleMergeException, AddException
<1>5. ~IsClosing(m, at', call')
  BY <1>3 DEF IsClosing
<1>6. at[m] \notin Gone /\ at[m] # "exit" /\ q \notin Past
  BY <1>2 DEF Gone, Past
<1> QED BY <1>1, <1>2, <1>4, <1>5, <1>6, PlainStep

LEMMA FinishMergeQuiet ==
  ASSUME MSInv, QuietInv, NEW m \in DOMAIN iw.merges \cap DOMAIN at, FinishMerge(m)
  PROVE  QuietInv'
<1> DEFINE w == MergeFinish(iw, m)
<1>1. PICK q \in {"tragic", "merge"} : at' = [at EXCEPT ![m] = q]
  BY DEF FinishMerge
<1>2. /\ at[m] \in {"failed", "aborted", "merged"} /\ UNCHANGED <<call, mergeThreads>>
      /\ iw' = w \/ iw' \in UpdatePendingMerges(w, Forced(w, m))
  BY DEF FinishMerge
<1>3. /\ DOMAIN at' = DOMAIN at /\ at'[m] = q /\ m \notin Threads
  BY <1>1, OneMoves
<1>4. Lasts(iw, w)
  BY MergeFinishLasts
<1>5. Shape(w) /\ Owned(w)
  <2>1. Fine(iw, at, call)
    BY DEF MSInv
  <2>2. q \in MergeAt \ Held
    BY DEF MergeAt, Held
  <2>3. Fine(w, [at EXCEPT ![m] = q], call)
    BY <2>1, <2>2, FinishFine
  <2> QED BY <2>3 DEF Fine
<1> HIDE DEF w
<1>6. Grown(w, iw') /\ (w.stop => iw' = w)
  BY <1>2, <1>5, UpdateGrows, GrownAtFirst
<1>7. ~iw.closed
  BY <1>2, AtWork DEF Gone
<1>8. MSInv'
  BY FinishMergeStep
<1>9. DOMAIN iw'.merges \cap DOMAIN at = DOMAIN iw.merges \cap DOMAIN at
  <2>1. Range(iw'.pending) \cap DOMAIN at = {}
    BY <1>3, <1>8 DEF MSInv, Fine, Placed
  <2> QED BY <1>4, <1>6, <2>1 DEF Grown, Lasts
<1>10. /\ iw'.stop = iw.stop /\ iw'.closing = iw.closing /\ iw'.closed = iw.closed
       /\ iw'.running \subseteq iw.running
       /\ iw.stop => iw'.pending = iw.pending
  BY <1>4, <1>6 DEF Grown, Same, Lasts
<1>11. ~IsClosing(m, at', call')
  BY <1>3 DEF IsClosing
<1>12. at[m] \notin Gone /\ at[m] # "exit" /\ q \notin Past /\ q \notin {"sync", "setClosed"}
  BY <1>2 DEF Gone, Past
<1>13. Closer(iw', at', call')
  BY <1>1, <1>2, <1>10, <1>11, CloserStep
<1>14. Quiet(iw', at', mergeThreads')
  <2>1. iw'.pending \in {iw.pending, <<>>} \/ (~iw.stop /\ ~iw.closed)
    BY <1>7, <1>10
  <2>2. iw'.stop \/ ~iw.stop \/ ~iw.closing
    BY <1>10
  <2>3. \A n \in mergeThreads : at'[n] \notin Gone => n \in mergeThreads'
    BY <1>2
  <2> QED BY <1>1, <1>9, <1>10, <1>12, <2>1, <2>2, <2>3, QuietStep
<1> QED BY <1>13, <1>14 DEF QuietInv

LEMMA TragicEventQuiet ==
  ASSUME MSInv, QuietInv, NEW m \in DOMAIN iw.merges \cap DOMAIN at, TragicEvent(m)
  PROVE  QuietInv'
<1>1. /\ at[m] = "tragic" /\ at' = [at EXCEPT ![m] = "shouldClose"]
      /\ iw' = [iw EXCEPT !.tragedy = TRUE] /\ UNCHANGED <<call, mergeThreads>>
  BY DEF TragicEvent
<1>2. at'[m] = "shouldClose" /\ m \notin Threads
  BY <1>1, OneMoves
<1>3. Lasts(iw, iw')
  <2>1. IsWriter(iw)
    BY DEF MSInv, Fine, Shape
  <2>2. iw' = [infos |-> iw.infos, merges |-> iw.merges, pending |-> iw.pending,
               running |-> iw.running, merging |-> iw.merging, toMerge |-> iw.toMerge,
               mergeGen |-> iw.mergeGen, exceptions |-> iw.exceptions, stop |-> iw.stop,
               closing |-> iw.closing, closed |-> iw.closed, tragedy |-> TRUE]
    BY <1>1, <2>1 DEF IsWriter
  <2> QED BY <2>2 DEF Lasts
<1>4. ~IsClosing(m, at', call')
  BY <1>2 DEF IsClosing
<1>5. at[m] \notin Gone /\ at[m] # "exit" /\ "shouldClose" \notin Past
  BY <1>1 DEF Gone, Past
<1> QED BY <1>1, <1>3, <1>4, <1>5, PlainStep

\* A merge thread asks to close the writer after a tragic event.
LEMMA ShouldCloseQuiet ==
  ASSUME MSInv, QuietInv, NEW m \in DOMAIN iw.merges \cap DOMAIN at, ShouldClose(m)
  PROVE  QuietInv'
<1> DEFINE q == IF iw.closing \/ iw.closed THEN "exit" ELSE "lock"
<1>1. /\ at[m] = "shouldClose" /\ at' = [at EXCEPT ![m] = q]
      /\ iw' = [iw EXCEPT !.closing = @ \/ ~iw.closed]
      /\ UNCHANGED <<call, mergeThreads>>
  BY DEF ShouldClose
<1>2. /\ iw.closing \/ iw.closed => q = "exit"
      /\ ~(iw.closing \/ iw.closed) => q = "lock"
  BY Zenon
<1> HIDE DEF q
<1>3. at'[m] = q /\ m \notin Threads
  BY <1>1, OneMoves
<1>4. IsWriter(iw) /\ iw.closing \in BOOLEAN /\ iw.closed \in BOOLEAN
  BY DEF MSInv, Fine, Shape
<1>5. /\ iw'.pending = iw.pending /\ iw'.running = iw.running /\ iw'.merges = iw.merges
      /\ iw'.stop = iw.stop /\ iw'.closed = iw.closed
      /\ iw'.closing = (iw.closing \/ ~iw.closed)
  BY <1>1, <1>4, SetsClosing
<1>6. ~iw.closed
  BY <1>1, AtWork DEF Gone
<1>7. Closer(iw', at', call')
  <2>1. CASE iw.closing
    <3>1. ~IsClosing(m, at', call')
      BY <1>2, <1>3, <2>1 DEF IsClosing
    <3>2. iw'.closing = iw.closing
      BY <1>4, <1>5, <2>1
    <3> QED BY <1>1, <1>5, <3>1, <3>2, CloserStep
  <2>2. CASE ~iw.closing
    <3>1. iw'.closing /\ ~iw'.closed
      BY <1>5, <1>6
    <3> QED BY <1>1, <2>2, <3>1, CloserBegins
  <2> QED BY <2>1, <2>2
<1>8. q \notin Past /\ q \notin {"sync", "setClosed"} /\ at[m] \notin Gone /\ at[m] # "exit"
  BY <1>1, <1>2 DEF Past, Gone
<1>9. Quiet(iw', at', mergeThreads')
  <2>1. /\ DOMAIN iw'.merges \cap DOMAIN at = DOMAIN iw.merges \cap DOMAIN at
        /\ iw'.running \subseteq iw.running /\ iw'.pending \in {iw.pending, <<>>}
        /\ iw'.closed => iw.closed
        /\ iw'.stop \/ ~iw.stop \/ ~iw.closing
        /\ \A n \in mergeThreads : at'[n] \notin Gone => n \in mergeThreads'
    BY <1>1, <1>5
  <2> QED BY <1>1, <1>8, <2>1, QuietStep
<1> QED BY <1>7, <1>9 DEF QuietInv

LEMMA ExitQuiet ==
  ASSUME MSInv, QuietInv, NEW m \in DOMAIN iw.merges \cap DOMAIN at, Exit(m)
  PROVE  QuietInv'
<1>1. /\ at[m] = "exit" /\ at' = [at EXCEPT ![m] = "dead"] /\ UNCHANGED <<iw, call>>
      /\ mergeThreads' = {n \in mergeThreads \ {m} : Alive(n)}
  BY DEF Exit
<1>2. at'[m] = "dead" /\ m \notin Threads /\ \A b \in DOMAIN at : b # m => at'[b] = at[b]
  BY <1>1, OneMoves
<1>3. Lasts(iw, iw')
  BY <1>1 DEF Lasts
<1>4. ~IsClosing(m, at', call')
  BY <1>2 DEF IsClosing
<1>5. at[m] \notin Gone /\ "dead" \notin Past
  BY <1>1 DEF Gone, Past
<1>6. ASSUME NEW n \in mergeThreads, at'[n] \notin Gone
      PROVE  n \in mergeThreads'
  <2>1. n \in DOMAIN at
    BY <1>6 DEF MSInv, Rest
  <2>2. n # m /\ at[n] \notin Gone
    BY <1>2, <1>6, <2>1 DEF Gone
  <2> QED BY <1>1, <1>6, <2>2 DEF Alive, Gone
<1> QED BY <1>1, <1>3, <1>4, <1>5, <1>6, PlainStep

LEMMA LockCommitsQuiet ==
  ASSUME MSInv, QuietInv, NEW a \in DOMAIN at, LockCommits(a)
  PROVE  QuietInv'
<1>1. /\ at[a] = "lock" /\ at' = [at EXCEPT ![a] = "awaitRunning"]
      /\ iw' = AbortMerges(iw) /\ UNCHANGED <<call, mergeThreads>>
  BY DEF LockCommits
<1>2. /\ iw'.closing = iw.closing /\ iw'.closed = iw.closed /\ iw'.running \subseteq iw.running
      /\ DOMAIN iw'.merges = DOMAIN iw.merges /\ iw'.stop /\ iw'.pending = <<>>
  <2> DEFINE v == AbortMerges(iw)
  <2>1. Shape(iw)
    BY DEF MSInv, Fine
  <2>2. GivenUp(iw, v, Range(iw.pending)) /\ v.stop /\ v.pending = <<>>
    BY <2>1, AbortFields
  <2> HIDE DEF v
  <2>3. /\ v.closing = iw.closing /\ v.closed = iw.closed /\ v.running \subseteq iw.running
        /\ DOMAIN v.merges = DOMAIN iw.merges
    BY <2>2 DEF GivenUp
  <2>4. iw' = v
    BY <1>1 DEF v
  <2> QED BY <2>2, <2>3, <2>4
<1>3. IsClosing(a, at, call)
  BY <1>1 DEF IsClosing
<1>4. Closer(iw', at', call')
  BY <1>1, <1>2, <1>3, CloserStep
<1>5. Quiet(iw', at', mergeThreads')
  <2>1. at[a] \notin Gone /\ at[a] # "exit"
    BY <1>1 DEF Gone
  <2>2. \A m \in mergeThreads : at'[m] \notin Gone => m \in mergeThreads'
    BY <1>1
  <2> QED BY <1>1, <1>2, <2>1, <2>2, QuietStep
<1> QED BY <1>4, <1>5 DEF QuietInv

LEMMA MergesAbortedQuiet ==
  ASSUME MSInv, QuietInv, NEW a \in DOMAIN at, MergesAborted(a)
  PROVE  QuietInv'
<1>1. /\ at[a] = "awaitRunning" /\ iw.running = {} /\ at' = [at EXCEPT ![a] = "sync"]
      /\ UNCHANGED <<iw, call, mergeThreads>>
  BY DEF MergesAborted
<1>2. iw.stop /\ iw.pending = <<>>
  BY <1>1 DEF QuietInv, Quiet, Past
<1>3. IsClosing(a, at, call)
  BY <1>1 DEF IsClosing
<1>4. Closer(iw', at', call')
  BY <1>1, <1>3, CloserStep
<1>5. Quiet(iw', at', mergeThreads')
  <2>1. at[a] \notin Gone /\ at[a] # "exit"
    BY <1>1 DEF Gone
  <2>2. /\ iw'.merges = iw.merges /\ iw'.running = {} /\ iw'.pending = <<>> /\ iw'.stop
        /\ iw'.closed = iw.closed
        /\ \A m \in mergeThreads : at'[m] \notin Gone => m \in mergeThreads'
    BY <1>1, <1>2
  <2> QED BY <1>1, <2>1, <2>2, QuietStep
<1> QED BY <1>4, <1>5 DEF QuietInv

\* sync joins the merge threads that are alive.
LEMMA SyncMergeThreadsQuiet ==
  ASSUME MSInv, QuietInv, NEW a \in DOMAIN at, SyncMergeThreads(a)
  PROVE  QuietInv'
<1>1. /\ at[a] = "sync" /\ at' = [at EXCEPT ![a] = "setClosed"]
      /\ \A m \in mergeThreads \ {a} : ~Alive(m)
      /\ UNCHANGED <<iw, call, mergeThreads>>
  BY DEF SyncMergeThreads
<1>2. iw.stop /\ iw.pending = <<>> /\ iw.running = {}
  BY <1>1 DEF QuietInv, Quiet, Past
<1>3. ASSUME NEW m \in (DOMAIN iw.merges \cap DOMAIN at) \ {a}
      PROVE  at[m] \in Gone
  <2>1. CASE m \in mergeThreads
    BY <1>1, <1>3, <2>1 DEF Alive, Gone
  <2>2. CASE m \notin mergeThreads
    BY <1>3, <2>2 DEF QuietInv, Quiet
  <2> QED BY <2>1, <2>2
<1>4. IsClosing(a, at, call)
  BY <1>1 DEF IsClosing
<1>5. Closer(iw', at', call')
  BY <1>1, <1>4, CloserStep
<1>6. Quiet(iw', at', mergeThreads')
  <2>1. at[a] \notin Gone /\ at[a] # "exit"
    BY <1>1 DEF Gone
  <2>2. /\ iw'.merges = iw.merges /\ iw'.running = {} /\ iw'.pending = <<>> /\ iw'.stop
        /\ iw'.closed = iw.closed
        /\ \A m \in mergeThreads : at'[m] \notin Gone => m \in mergeThreads'
    BY <1>1, <1>2
  <2> QED BY <1>1, <1>2, <1>3, <2>1, <2>2, QuietStep
<1> QED BY <1>5, <1>6 DEF QuietInv

LEMMA SetClosedQuiet ==
  ASSUME MSInv, QuietInv, NEW a \in DOMAIN at, SetClosed(a)
  PROVE  QuietInv'
<1> DEFINE q == IF a \in Threads THEN "return" ELSE "exit"
<1>1. /\ at[a] = "setClosed" /\ at' = [at EXCEPT ![a] = q]
      /\ iw' = [iw EXCEPT !.closed = TRUE, !.closing = FALSE]
      /\ UNCHANGED <<call, mergeThreads>>
  BY DEF SetClosed
<1>2. q \in {"return", "exit"} /\ (a \notin Threads => q = "exit")
  BY Zenon
<1> HIDE DEF q
<1>3. /\ DOMAIN at' = DOMAIN at /\ at'[a] = q /\ DOMAIN iw.merges \cap Threads = {}
      /\ \A b \in DOMAIN at : b # a => at'[b] = at[b]
  BY <1>1, OneMoves
<1>4. IsWriter(iw)
  BY DEF MSInv, Fine, Shape
<1>5. /\ iw'.pending = iw.pending /\ iw'.running = iw.running /\ iw'.merges = iw.merges
      /\ iw'.stop = iw.stop /\ iw'.closing = FALSE /\ iw'.closed = TRUE
  BY <1>1, <1>4, SetClosedFields
<1>6. IsClosing(a, at, call)
  BY <1>1 DEF IsClosing
<1>7. \A b \in DOMAIN at : b # a => ~IsClosing(b, at, call)
  BY <1>6 DEF QuietInv, Closer
<1>8. \A b \in DOMAIN at : ~IsClosing(b, at', call')
  <2>1. ~IsClosing(a, at', call')
    BY <1>2, <1>3 DEF IsClosing
  <2>2. \A b \in DOMAIN at : b # a => ~IsClosing(b, at', call')
    BY <1>1, <1>3, <1>7 DEF IsClosing
  <2> QED BY <2>1, <2>2
<1>9. Closer(iw', at', call')
  BY <1>3, <1>8 DEF Closer
<1>10. \A b \in DOMAIN at : at'[b] \notin Past
  BY <1>8 DEF IsClosing, Past
<1>11. /\ iw.pending = <<>> /\ iw.running = {}
       /\ \A m \in (DOMAIN iw.merges \cap DOMAIN at) \ {a} : at[m] \in Gone
  BY <1>1 DEF QuietInv, Quiet, Past
<1>12. \A m \in DOMAIN iw.merges \cap DOMAIN at : at'[m] \in Gone \cup {"exit"}
  BY <1>2, <1>3, <1>11
<1>13. \A m \in DOMAIN iw.merges \cap DOMAIN at : at'[m] \notin Gone => m \in mergeThreads'
  <2>1. at[a] \notin Gone
    BY <1>1 DEF Gone
  <2> QED BY <1>1, <1>3, <2>1 DEF QuietInv, Quiet
<1>14. Quiet(iw', at', mergeThreads')
  BY <1>3, <1>5, <1>10, <1>11, <1>12, <1>13 DEF Quiet, Past
<1> QED BY <1>9, <1>14 DEF QuietInv

------------------------------------------------------------------------------
\* The scheduler while the writer closes

LEMMA EndSchedulingQuiet ==
  ASSUME MSInv, QuietInv, NEW a \in DOMAIN at, EndScheduling(a)
  PROVE  QuietInv'
<1> DEFINE q == AfterMerge(a)
<1>1. /\ at[a] \in {"merge", "mergeForced", "drain"} /\ at' = [at EXCEPT ![a] = q]
      /\ UNCHANGED <<iw, call, mergeThreads>>
  BY DEF EndScheduling, Scheduling
<1>2. Fine(iw, at, call)
  BY DEF MSInv
<1>3. a \in Threads => Fits(at[a], call[a])
  BY <1>2 DEF Fine, Calling
<1>4. CASE a \in Threads
  <2>1. q \in {"awaitForced", "awaitMerges", "return", "mark", "drain", "lock"}
        /\ (IsClosing(a, at, call) \/ q \in {"awaitForced", "return", "mark"})
    BY <1>1, <1>3, <1>4 DEF AfterMerge, AfterFlush, Fits, IsClosing
  <2> HIDE DEF q
  <2>2. at'[a] = q
    BY <1>1, OneMoves
  <2>3. IsClosing(a, at', call') => IsClosing(a, at, call)
    BY <2>1, <2>2 DEF IsClosing
  <2>4. at[a] \notin Gone /\ q \notin Past
    BY <1>1, <2>1 DEF Gone, Past
  <2>5. Lasts(iw, iw')
    BY <1>1 DEF Lasts
  <2> QED BY <1>1, <1>4, <2>3, <2>4, <2>5, PlainStep
<1>5. CASE a \notin Threads
  <2>1. q = "exit"
    BY <1>5 DEF AfterMerge
  <2> HIDE DEF q
  <2>2. at'[a] = "exit"
    BY <1>1, <2>1, OneMoves
  <2>3. ~IsClosing(a, at', call')
    BY <1>5, <2>2 DEF IsClosing
  <2>4. at[a] \notin Gone /\ at[a] # "exit" /\ q \notin Past
    BY <1>1, <2>1 DEF Gone, Past
  <2>5. Lasts(iw, iw')
    BY <1>1 DEF Lasts
  <2> QED BY <1>1, <2>3, <2>4, <2>5, PlainStep
<1> QED BY <1>4, <1>5

LEMMA StallQuiet ==
  ASSUME MSInv, QuietInv, NEW a \in DOMAIN at, Stall(a)
  PROVE  QuietInv'
BY DEF Stall, QuietInv

\* A pending merge shows that the writer is open and nobody is past abortMerges.
LEMMA LaunchQuiet ==
  ASSUME MSInv, QuietInv, NEW a \in DOMAIN at, Launch(a)
  PROVE  QuietInv'
<1> DEFINE m == Head(iw.pending)
           w == GetNextMerge(iw)
           u == MergeFinish(w, m)
<1>1. /\ m \in DOMAIN iw.merges /\ m \notin DOMAIN at /\ w.merges = iw.merges
      /\ Same(iw, w) /\ Shape(w) /\ iw.pending # <<>> /\ m \notin Threads
  BY LaunchPrepared
<1>2. call' = call /\ at[a] \in {"merge", "mergeForced", "drain"}
  BY DEF Launch, Scheduling
<1>3. ~iw.closed /\ \A b \in DOMAIN at : at[b] \notin Past
  BY <1>1 DEF QuietInv, Quiet
<1>4. \A n \in DOMAIN iw.merges \cap DOMAIN at : at[n] \notin Gone => n \in mergeThreads
  BY DEF QuietInv, Quiet
<1>5. CASE iw' = w /\ at' = With(at, m, "init")
           /\ mergeThreads' = {n \in mergeThreads : Alive(n)} \cup {m}
  <2>1. /\ iw'.merges = iw.merges /\ iw'.closing = iw.closing /\ iw'.closed = iw.closed
    BY <1>1, <1>5 DEF Same
  <2> HIDE DEF m, w, u
  <2>2. /\ DOMAIN at' = DOMAIN at \cup {m} /\ at'[m] = "init"
        /\ \A b \in DOMAIN at : at'[b] = at[b]
    BY <1>1, <1>5 DEF With
  <2>3. \A b \in DOMAIN at' : at'[b] \notin Past
    BY <1>3, <2>2 DEF Past
  <2>4. ~IsClosing(m, at', call')
    BY <1>1, <2>2 DEF IsClosing
  <2>5. \A b \in DOMAIN at : IsClosing(b, at', call') => IsClosing(b, at, call)
    BY <1>2, <2>2 DEF IsClosing
  <2>6. Closer(iw', at', call')
    BY <2>1, <2>2, <2>4, <2>5 DEF QuietInv, Closer
  <2>7. \A n \in DOMAIN iw'.merges \cap DOMAIN at' : at'[n] \notin Gone => n \in mergeThreads'
    BY <1>4, <1>5, <2>1, <2>2 DEF Alive, Gone
  <2>8. Quiet(iw', at', mergeThreads')
    BY <1>3, <2>1, <2>3, <2>7 DEF Quiet, Past
  <2> QED BY <2>6, <2>8 DEF QuietInv
<1>6. CASE /\ iw' = u /\ mergeThreads' = mergeThreads \cup {m}
           /\ at' = [b \in DOMAIN at \cup {m} |->
                       IF b = a THEN Throws(a) ELSE IF b = m THEN "unborn" ELSE at[b]]
  <2>1. /\ DOMAIN iw'.merges = DOMAIN iw.merges /\ iw'.closing = iw.closing
        /\ iw'.closed = iw.closed
    <3>1. GivenUp(w, u, {m})
      BY <1>1, FinishFields
    <3> HIDE DEF m, w, u
    <3> QED BY <1>1, <1>6, <3>1 DEF GivenUp, Same
  <2> HIDE DEF m, w, u
  <2>2. /\ DOMAIN at' = DOMAIN at \cup {m} /\ at'[m] = "unborn" /\ at'[a] = Throws(a)
        /\ \A b \in DOMAIN at : b # a => at'[b] = at[b]
    BY <1>1, <1>6
  <2>3. Throws(a) \in {"exit", "lock", "return"} /\ (Throws(a) = "lock" => IsClosing(a, at, call))
    <3>1. CASE a \in Threads /\ call[a] \in {"close", "lastCommit"}
      <4>1. Fits(at[a], call[a])
        BY <3>1 DEF MSInv, Fine, Calling
      <4> QED BY <1>2, <3>1, <4>1 DEF Throws, IsClosing, Fits
    <3>2. CASE ~(a \in Threads /\ call[a] \in {"close", "lastCommit"})
      BY <3>2 DEF Throws
    <3> QED BY <3>1, <3>2
  <2>4. \A b \in DOMAIN at' : at'[b] \notin Past
    BY <1>3, <2>2, <2>3 DEF Past
  <2>5. ~IsClosing(m, at', call')
    BY <1>1, <2>2 DEF IsClosing
  <2>6. \A b \in DOMAIN at : IsClosing(b, at', call') => IsClosing(b, at, call)
    BY <1>2, <2>2, <2>3 DEF IsClosing
  <2>7. Closer(iw', at', call')
    BY <2>1, <2>2, <2>5, <2>6 DEF QuietInv, Closer
  <2>8. at[a] \notin Gone
    BY <1>2 DEF Gone
  <2>9. \A n \in DOMAIN iw'.merges \cap DOMAIN at' : at'[n] \notin Gone => n \in mergeThreads'
    BY <1>4, <1>6, <2>1, <2>2, <2>8 DEF Gone
  <2>10. Quiet(iw', at', mergeThreads')
    BY <1>3, <2>1, <2>4, <2>9 DEF Quiet, Past
  <2> QED BY <2>7, <2>10 DEF QuietInv
<1> QED BY <1>5, <1>6 DEF Launch

------------------------------------------------------------------------------
\* The threads of the application while the writer closes

LEMMA BeginQuiet ==
  ASSUME MSInv, QuietInv, NEW t \in Threads, Begin(t)
  PROVE  QuietInv'
<1>1. PICK k \in Calls :
        /\ call' = [call EXCEPT ![t] = k]
        /\ at' = [at EXCEPT ![t] = CASE k \in {"flush", "forceMerge"} -> "flush"
                                     [] k = "commit" -> "lockCommit"
                                     [] k = "deleteAll" -> "deleteAll"
                                     [] k \in {"rollback", "close"} -> "shouldClose"]
  BY DEF Begin
<1> DEFINE q == CASE k \in {"flush", "forceMerge"} -> "flush"
                  [] k = "commit" -> "lockCommit"
                  [] k = "deleteAll" -> "deleteAll"
                  [] k \in {"rollback", "close"} -> "shouldClose"
<1>2. /\ q \in {"flush", "lockCommit", "deleteAll", "shouldClose"}
      /\ k \in {"close", "lastCommit"} => q = "shouldClose"
  BY DEF Calls
<1>3. at' = [at EXCEPT ![t] = q]
  BY <1>1
<1> HIDE DEF q
<1>4. at[t] = "idle" /\ UNCHANGED <<iw, mergeThreads>> /\ t \in DOMAIN at
        /\ call \in [Threads -> Calls \cup {"none", "lastCommit"}]
  BY DEF Begin, MSInv, Fine, Agents, Calling
<1>5. at'[t] = q /\ call'[t] = k /\ \A u \in Threads \ {t} : call'[u] = call[u]
  BY <1>1, <1>3, <1>4, OneMoves
<1>6. ~IsClosing(t, at', call')
  BY <1>2, <1>5 DEF IsClosing
<1>7. at[t] \notin Gone /\ q \notin Past /\ Lasts(iw, iw')
  BY <1>2, <1>4 DEF Gone, Past, Lasts
<1> QED BY <1>3, <1>4, <1>5, <1>6, <1>7, PlainStep

LEMMA WaitToCloseQuiet ==
  ASSUME MSInv, QuietInv, NEW t \in Threads, WaitToClose(t)
  PROVE  QuietInv'
<1> DEFINE q == IF iw.closed THEN "return" ELSE IF call[t] = "close" THEN "flush" ELSE "lock"
<1>1. /\ at[t] = "shouldClose" /\ at' = [at EXCEPT ![t] = q]
      /\ ~(iw.closing /\ ~iw.closed)
      /\ iw' = [iw EXCEPT !.closing = @ \/ ~iw.closed]
      /\ UNCHANGED <<call, mergeThreads>>
  BY DEF WaitToClose
<1>2. q \in {"return", "flush", "lock"} /\ (iw.closed => q = "return")
  BY Zenon
<1> HIDE DEF q
<1>3. t \in DOMAIN at
  BY DEF MSInv, Fine, Agents
<1>4. at'[t] = q
  BY <1>1, <1>3, OneMoves
<1>5. IsWriter(iw) /\ iw.closing \in BOOLEAN /\ iw.closed \in BOOLEAN
  BY DEF MSInv, Fine, Shape
<1>6. /\ iw'.pending = iw.pending /\ iw'.running = iw.running /\ iw'.merges = iw.merges
      /\ iw'.stop = iw.stop /\ iw'.closed = iw.closed
      /\ iw'.closing = (iw.closing \/ ~iw.closed)
  BY <1>1, <1>5, SetsClosing
<1>7. IsClosing(t, at', call') => iw'.closing /\ ~iw'.closed
  <2>1. CASE iw.closed
    <3>1. ~IsClosing(t, at', call')
      BY <1>2, <1>4, <2>1 DEF IsClosing
    <3> QED BY <3>1
  <2>2. CASE ~iw.closed
    BY <1>6, <2>2
  <2> QED BY <2>1, <2>2
<1>8. Closer(iw', at', call')
  BY <1>1, <1>3, <1>7, CloserBegins
<1>9. q \notin Past /\ q \notin {"sync", "setClosed"} /\ at[t] \notin Gone
  BY <1>1, <1>2 DEF Past, Gone
<1>10. Quiet(iw', at', mergeThreads')
  <2>1. /\ DOMAIN iw'.merges \cap DOMAIN at = DOMAIN iw.merges \cap DOMAIN at
        /\ iw'.running \subseteq iw.running /\ iw'.pending \in {iw.pending, <<>>}
        /\ iw'.closed => iw.closed
        /\ iw'.stop \/ ~iw.stop \/ ~iw.closing
        /\ \A n \in mergeThreads : at'[n] \notin Gone => n \in mergeThreads'
    BY <1>1, <1>6
  <2> QED BY <1>1, <1>3, <1>9, <2>1, QuietStep
<1> QED BY <1>8, <1>10 DEF QuietInv

LEMMA LockCommitQuiet ==
  ASSUME MSInv, QuietInv, NEW t \in Threads, LockCommit(t)
  PROVE  QuietInv'
<1>1. PICK q \in {"return", "flush"} : at' = [at EXCEPT ![t] = q]
  BY DEF LockCommit
<1>2. at[t] = "lockCommit" /\ UNCHANGED <<iw, call, mergeThreads>> /\ t \in DOMAIN at
  BY DEF LockCommit, MSInv, Fine, Agents
<1>3. at'[t] = q
  BY <1>1, <1>2, OneMoves
<1>4. IsClosing(t, at', call') => IsClosing(t, at, call)
  BY <1>2, <1>3 DEF IsClosing
<1>5. at[t] \notin Gone /\ q \notin Past /\ Lasts(iw, iw')
  BY <1>2 DEF Gone, Past, Lasts
<1> QED BY <1>1, <1>2, <1>4, <1>5, PlainStep

LEMMA FlushQuiet ==
  ASSUME MSInv, QuietInv, NEW t \in Threads, Flush(t)
  PROVE  QuietInv'
<1>1. PICK q : at' = [at EXCEPT ![t] = q] /\ q \in {Throws(t), "propose", AfterFlush(t)}
  BY DEF Flush
<1>2. at[t] = "flush" /\ UNCHANGED <<call, mergeThreads>> /\ t \in DOMAIN at
  BY DEF Flush, MSInv, Fine, Agents
<1>3. call[t] \in {"flush", "commit", "forceMerge", "close", "lastCommit"}
  BY <1>2 DEF MSInv, Fine, Calling, Fits
<1>4. at'[t] = q
  BY <1>1, <1>2, OneMoves
<1>5. /\ q \in {"lock", "return", "propose", "mark", "drain"}
      /\ q \in {"lock", "drain"} => call[t] \in {"close", "lastCommit"}
  BY <1>1, <1>3 DEF Throws, AfterFlush
<1>6. IsClosing(t, at', call') => IsClosing(t, at, call)
  BY <1>2, <1>4, <1>5 DEF IsClosing
<1>7. Lasts(iw, iw')
  <2>1. CASE iw' = iw
    BY <2>1 DEF Lasts
  <2>2. CASE iw' # iw
    <3>1. PICK index : iw' = [iw EXCEPT !.infos = index]
      BY <2>2 DEF Flush
    <3>2. IsWriter(iw)
      BY DEF MSInv, Fine, Shape
    <3>3. iw' = [infos |-> index, merges |-> iw.merges, pending |-> iw.pending,
                 running |-> iw.running, merging |-> iw.merging, toMerge |-> iw.toMerge,
                 mergeGen |-> iw.mergeGen, exceptions |-> iw.exceptions, stop |-> iw.stop,
                 closing |-> iw.closing, closed |-> iw.closed, tragedy |-> iw.tragedy]
      BY <3>1, <3>2 DEF IsWriter
    <3> QED BY <3>3 DEF Lasts
  <2> QED BY <2>1, <2>2
<1>8. at[t] \notin Gone /\ q \notin Past
  BY <1>2, <1>5 DEF Gone, Past
<1> QED BY <1>1, <1>2, <1>6, <1>7, <1>8, PlainStep

LEMMA ProposeQuiet ==
  ASSUME MSInv, QuietInv, NEW t \in Threads, Propose(t)
  PROVE  QuietInv'
<1>1. PICK q : /\ at' = [at EXCEPT ![t] = q]
               /\ \/ q = Throws(t)
                  \/ q = "merge" /\ at[t] = "propose"
                  \/ q = "mergeForced"
  BY DEF Propose
<1>2. /\ at[t] \in {"propose", "proposeForced"} /\ UNCHANGED <<call, mergeThreads>>
      /\ t \in DOMAIN at /\ Shape(iw) /\ Owned(iw) /\ Fits(at[t], call[t])
  BY DEF Propose, MSInv, Fine, Agents, Calling
<1>3. DOMAIN at' = DOMAIN at /\ at'[t] = q
  BY <1>1, <1>2, OneMoves
<1>4. /\ q \in {"lock", "return", "merge", "mergeForced"}
      /\ q = "lock" => call[t] \in {"close", "lastCommit"}
      /\ at[t] = "proposeForced" => call[t] = "forceMerge"
  BY <1>1, <1>2 DEF Throws, Fits
<1>5. IsClosing(t, at', call') => IsClosing(t, at, call)
  BY <1>1, <1>2, <1>3, <1>4 DEF IsClosing
<1>6. Grown(iw, iw') /\ (iw.stop \/ iw.closed => iw' = iw)
  BY <1>2, UpdateGrows, GrownAtFirst DEF Propose
<1>7. MSInv'
  BY ProposeStep
<1>8. DOMAIN iw'.merges \cap DOMAIN at = DOMAIN iw.merges \cap DOMAIN at
  <2>1. Range(iw'.pending) \cap DOMAIN at = {}
    BY <1>3, <1>7 DEF MSInv, Fine, Placed
  <2> QED BY <1>6, <2>1 DEF Grown
<1>9. /\ iw'.stop = iw.stop /\ iw'.closing = iw.closing /\ iw'.closed = iw.closed
      /\ iw'.running \subseteq iw.running
  BY <1>6 DEF Grown, Same
<1>10. Closer(iw', at', call')
  BY <1>1, <1>2, <1>5, <1>9, CloserStep
<1>11. at[t] \notin Gone /\ q \notin Past /\ q \notin {"sync", "setClosed"}
  BY <1>2, <1>4 DEF Gone, Past
<1>12. Quiet(iw', at', mergeThreads')
  <2>1. iw'.pending \in {iw.pending, <<>>} \/ (~iw.stop /\ ~iw.closed)
    BY <1>6
  <2>2. iw'.stop \/ ~iw.stop \/ ~iw.closing
    BY <1>9
  <2>3. \A n \in mergeThreads : at'[n] \notin Gone => n \in mergeThreads'
    BY <1>2
  <2> QED BY <1>1, <1>2, <1>8, <1>9, <1>11, <2>1, <2>2, <2>3, QuietStep
<1> QED BY <1>10, <1>12 DEF QuietInv

LEMMA MarkForcedQuiet ==
  ASSUME MSInv, QuietInv, NEW t \in Threads, MarkForced(t)
  PROVE  QuietInv'
<1>1. /\ at[t] = "mark" /\ at' = [at EXCEPT ![t] = "proposeForced"]
      /\ UNCHANGED <<call, mergeThreads>>
  BY DEF MarkForced
<1>2. t \in DOMAIN at /\ IsWriter(iw)
  BY DEF MSInv, Fine, Agents, Shape
<1>3. at'[t] = "proposeForced"
  BY <1>1, <1>2, OneMoves
<1>4. Lasts(iw, iw')
  <2> DEFINE marked == iw.running \cup Range(iw.pending)
             ms == [m \in DOMAIN iw.merges |->
                      [iw.merges[m] EXCEPT !.forced = @ \/ m \in marked]]
             segments == DOMAIN iw.infos \cup {-m : m \in {n \in marked : iw.merges[n].named}}
             gen == iw.mergeGen + 1
  <2>1. iw' = [iw EXCEPT !.exceptions = {}, !.mergeGen = gen, !.toMerge = segments,
                         !.merges = ms]
    BY DEF MarkForced
  <2>2. DOMAIN ms = DOMAIN iw.merges
    OBVIOUS
  <2> HIDE DEF marked, ms, segments, gen
  <2>3. iw' = [infos |-> iw.infos, merges |-> ms, pending |-> iw.pending,
               running |-> iw.running, merging |-> iw.merging, toMerge |-> segments,
               mergeGen |-> gen, exceptions |-> {}, stop |-> iw.stop,
               closing |-> iw.closing, closed |-> iw.closed, tragedy |-> iw.tragedy]
    BY <1>2, <2>1 DEF IsWriter
  <2> QED BY <2>2, <2>3 DEF Lasts
<1>5. ~IsClosing(t, at', call')
  BY <1>3 DEF IsClosing
<1>6. at[t] \notin Gone /\ "proposeForced" \notin Past
  BY <1>1 DEF Gone, Past
<1> QED BY <1>1, <1>2, <1>4, <1>5, <1>6, PlainStep

LEMMA AwaitForcedQuiet ==
  ASSUME MSInv, QuietInv, NEW t \in Threads, AwaitForced(t)
  PROVE  QuietInv'
<1>1. PICK q \in {"return", "done"} : at' = [at EXCEPT ![t] = q]
  BY DEF AwaitForced
<1>2. at[t] = "awaitForced" /\ UNCHANGED <<iw, call, mergeThreads>> /\ t \in DOMAIN at
  BY DEF AwaitForced, MSInv, Fine, Agents
<1>3. at'[t] = q
  BY <1>1, <1>2, OneMoves
<1>4. ~IsClosing(t, at', call')
  BY <1>3 DEF IsClosing
<1>5. at[t] \notin Gone /\ q \notin Past /\ Lasts(iw, iw')
  BY <1>2 DEF Gone, Past, Lasts
<1> QED BY <1>1, <1>2, <1>4, <1>5, PlainStep

LEMMA AwaitMergesQuiet ==
  ASSUME MSInv, QuietInv, NEW t \in Threads, AwaitMerges(t)
  PROVE  QuietInv'
<1>1. /\ at[t] = "awaitMerges" /\ at' = [at EXCEPT ![t] = "lockCommit"]
      /\ call' = [call EXCEPT ![t] = "lastCommit"] /\ UNCHANGED <<iw, mergeThreads>>
  BY DEF AwaitMerges
<1>2. /\ t \in DOMAIN at /\ Fits(at[t], call[t])
      /\ call \in [Threads -> Calls \cup {"none", "lastCommit"}]
  BY DEF MSInv, Fine, Agents, Calling
<1>3. \A u \in Threads \ {t} : call'[u] = call[u]
  BY <1>1, <1>2
<1>4. IsClosing(t, at, call)
  BY <1>1, <1>2 DEF IsClosing, Fits
<1>5. at[t] \notin Gone /\ "lockCommit" \notin Past /\ Lasts(iw, iw')
  BY <1>1 DEF Gone, Past, Lasts
<1> QED BY <1>1, <1>2, <1>3, <1>4, <1>5, PlainStep

LEMMA ReturnQuiet ==
  ASSUME MSInv, QuietInv, NEW t \in Threads, Return(t)
  PROVE  QuietInv'
<1>1. /\ at[t] \in {"return", "done"} /\ at' = [at EXCEPT ![t] = "idle"]
      /\ call' = [call EXCEPT ![t] = "none"] /\ UNCHANGED <<iw, mergeThreads>>
  BY DEF Return
<1>2. t \in DOMAIN at /\ call \in [Threads -> Calls \cup {"none", "lastCommit"}]
  BY DEF MSInv, Fine, Agents, Calling
<1>3. at'[t] = "idle" /\ \A u \in Threads \ {t} : call'[u] = call[u]
  BY <1>1, <1>2, OneMoves
<1>4. ~IsClosing(t, at', call')
  BY <1>3 DEF IsClosing
<1>5. at[t] \notin Gone /\ "idle" \notin Past /\ Lasts(iw, iw')
  BY <1>1 DEF Gone, Past, Lasts
<1> QED BY <1>1, <1>2, <1>3, <1>4, <1>5, PlainStep

LEMMA DeleteAllQuiet ==
  ASSUME MSInv, QuietInv, NEW t \in Threads, DeleteAll(t)
  PROVE  QuietInv'
<1>1. /\ at[t] = "deleteAll" /\ at' = [at EXCEPT ![t] = "awaitAborted"]
      /\ iw' = AbortMerges(iw) /\ UNCHANGED <<call, mergeThreads>>
  BY DEF DeleteAll
<1>2. t \in DOMAIN at /\ Shape(iw)
  BY DEF MSInv, Fine, Agents
<1>3. /\ iw'.closing = iw.closing /\ iw'.closed = iw.closed /\ iw'.running \subseteq iw.running
      /\ DOMAIN iw'.merges = DOMAIN iw.merges /\ iw'.stop /\ iw'.pending = <<>>
  <2> DEFINE v == AbortMerges(iw)
  <2>1. GivenUp(iw, v, Range(iw.pending)) /\ v.stop /\ v.pending = <<>>
    BY <1>2, AbortFields
  <2> HIDE DEF v
  <2>2. /\ v.closing = iw.closing /\ v.closed = iw.closed /\ v.running \subseteq iw.running
        /\ DOMAIN v.merges = DOMAIN iw.merges
    BY <2>1 DEF GivenUp
  <2>3. iw' = v
    BY <1>1 DEF v
  <2> QED BY <2>1, <2>2, <2>3
<1>4. at'[t] = "awaitAborted"
  BY <1>1, <1>2, OneMoves
<1>5. ~IsClosing(t, at', call')
  BY <1>4 DEF IsClosing
<1>6. Closer(iw', at', call')
  BY <1>1, <1>2, <1>3, <1>5, CloserStep
<1>7. Quiet(iw', at', mergeThreads')
  <2>1. at[t] \notin Gone /\ "awaitAborted" \notin Past
    BY <1>1 DEF Gone, Past
  <2>2. \A m \in mergeThreads : at'[m] \notin Gone => m \in mergeThreads'
    BY <1>1
  <2> QED BY <1>1, <1>2, <1>3, <2>1, <2>2, QuietStep
<1> QED BY <1>6, <1>7 DEF QuietInv

\* This is where merges may run again: it must not happen while the writer closes.
LEMMA ClearSegmentsQuiet ==
  ASSUME MSInv, QuietInv, DeletesApart, NEW t \in Threads, ClearSegments(t)
  PROVE  QuietInv'
<1>1. /\ at[t] = "awaitAborted" /\ at' = [at EXCEPT ![t] = "return"]
      /\ iw' = [iw EXCEPT !.stop = FALSE, !.infos = <<>>]
      /\ UNCHANGED <<call, mergeThreads>>
  BY DEF ClearSegments
<1>2. t \in DOMAIN at /\ IsWriter(iw)
  BY DEF MSInv, Fine, Agents, Shape
<1>3. iw' = [infos |-> <<>>, merges |-> iw.merges, pending |-> iw.pending,
             running |-> iw.running, merging |-> iw.merging, toMerge |-> iw.toMerge,
             mergeGen |-> iw.mergeGen, exceptions |-> iw.exceptions, stop |-> FALSE,
             closing |-> iw.closing, closed |-> iw.closed, tragedy |-> iw.tragedy]
  BY <1>1, <1>2 DEF IsWriter
<1>4. /\ iw'.merges = iw.merges /\ iw'.pending = iw.pending /\ iw'.running = iw.running
      /\ iw'.closing = iw.closing /\ iw'.closed = iw.closed
  BY <1>3
<1>5. at'[t] = "return"
  BY <1>1, <1>2, OneMoves
<1>6. ~IsClosing(t, at', call')
  BY <1>5 DEF IsClosing
<1>7. Closer(iw', at', call')
  BY <1>1, <1>2, <1>4, <1>6, CloserStep
<1>8. ~iw.closing
  BY <1>1 DEF DeletesApart
<1>9. Quiet(iw', at', mergeThreads')
  <2>1. at[t] \notin Gone /\ "return" \notin Past
    BY <1>1 DEF Gone, Past
  <2>2. \A m \in mergeThreads : at'[m] \notin Gone => m \in mergeThreads'
    BY <1>1
  <2> QED BY <1>1, <1>2, <1>4, <1>8, <2>1, <2>2, QuietStep
<1> QED BY <1>7, <1>9 DEF QuietInv

LEMMA InitQuiet ==
  ASSUME Init
  PROVE  QuietInv
<1>1. PICK w \in Workloads :
        /\ iw = [infos |-> w.sizes, merges |-> <<>>, pending |-> <<>>, running |-> {},
                 merging |-> {}, toMerge |-> {}, mergeGen |-> 0, exceptions |-> {},
                 stop |-> FALSE, closing |-> FALSE, closed |-> FALSE, tragedy |-> FALSE]
        /\ at = [t \in Threads |-> "idle"]
  BY DEF Init
<1>2. DOMAIN iw.merges = {} /\ iw.closed = FALSE /\ DOMAIN at = Threads
        /\ \A t \in Threads : at[t] = "idle"
  BY <1>1
<1>3. \A t \in Threads : ~IsClosing(t, at, call)
  BY <1>2 DEF IsClosing
<1>4. Closer(iw, at, call) /\ Quiet(iw, at, mergeThreads)
  BY <1>2, <1>3 DEF Closer, Quiet, Past
<1> QED BY <1>4 DEF QuietInv

LEMMA ScheduleQuiet ==
  ASSUME MSInv, QuietInv, NEW a \in DOMAIN at, Schedule(a) \/ CloseWriter(a)
  PROVE  QuietInv'
<1>1. CASE Stall(a)
  BY <1>1, StallQuiet
<1>2. CASE EndScheduling(a)
  BY <1>2, EndSchedulingQuiet
<1>3. CASE Launch(a)
  BY <1>3, LaunchQuiet
<1>4. CASE LockCommits(a)
  BY <1>4, LockCommitsQuiet
<1>5. CASE MergesAborted(a)
  BY <1>5, MergesAbortedQuiet
<1>6. CASE SyncMergeThreads(a)
  BY <1>6, SyncMergeThreadsQuiet
<1>7. CASE SetClosed(a)
  BY <1>7, SetClosedQuiet
<1> QED BY <1>1, <1>2, <1>3, <1>4, <1>5, <1>6, <1>7 DEF Schedule, CloseWriter

LEMMA MergeThreadQuiet ==
  ASSUME MSInv, QuietInv, NEW m \in DOMAIN iw.merges \cap DOMAIN at, MergeThreadStep(m)
  PROVE  QuietInv'
<1>1. CASE MergeInit(m)
  BY <1>1, MergeInitQuiet
<1>2. CASE MergeMiddle(m)
  BY <1>2, MergeMiddleQuiet
<1>3. CASE CommitMerge(m)
  BY <1>3, CommitMergeQuiet
<1>4. CASE HandleMergeException(m)
  BY <1>4, HandleMergeExceptionQuiet
<1>5. CASE FinishMerge(m)
  BY <1>5, FinishMergeQuiet
<1>6. CASE TragicEvent(m)
  BY <1>6, TragicEventQuiet
<1>7. CASE ShouldClose(m)
  BY <1>7, ShouldCloseQuiet
<1>8. CASE Exit(m)
  BY <1>8, ExitQuiet
<1>9. CASE Schedule(m) \/ CloseWriter(m)
  BY <1>9, ScheduleQuiet
<1> QED BY <1>1, <1>2, <1>3, <1>4, <1>5, <1>6, <1>7, <1>8, <1>9 DEF MergeThreadStep

LEMMA CallQuiet ==
  ASSUME MSInv, QuietInv, DeletesApart, NEW t \in Threads, Begin(t) \/ CallStep(t)
  PROVE  QuietInv'
<1>1. CASE Begin(t)
  BY <1>1, BeginQuiet
<1>2. CASE WaitToClose(t)
  BY <1>2, WaitToCloseQuiet
<1>3. CASE LockCommit(t)
  BY <1>3, LockCommitQuiet
<1>4. CASE Flush(t)
  BY <1>4, FlushQuiet
<1>5. CASE Propose(t)
  BY <1>5, ProposeQuiet
<1>6. CASE MarkForced(t)
  BY <1>6, MarkForcedQuiet
<1>7. CASE AwaitForced(t)
  BY <1>7, AwaitForcedQuiet
<1>8. CASE AwaitMerges(t)
  BY <1>8, AwaitMergesQuiet
<1>9. CASE DeleteAll(t)
  BY <1>9, DeleteAllQuiet
<1>10. CASE ClearSegments(t)
  BY <1>10, ClearSegmentsQuiet
<1>11. CASE Return(t)
  BY <1>11, ReturnQuiet
<1>12. CASE Schedule(t) \/ CloseWriter(t)
  <2>1. t \in DOMAIN at
    BY DEF MSInv, Fine, Agents
  <2> QED BY <1>12, <2>1, ScheduleQuiet
<1> QED BY <1>1, <1>2, <1>3, <1>4, <1>5, <1>6, <1>7, <1>8, <1>9, <1>10, <1>11, <1>12
        DEF CallStep

LEMMA NextQuiet ==
  ASSUME MSInv, QuietInv, DeletesApart, [Next]_vars
  PROVE  QuietInv'
<1>1. CASE Next
  BY <1>1, CallQuiet, MergeThreadQuiet DEF Next
<1>2. CASE UNCHANGED vars
  BY <1>2 DEF vars, QuietInv
<1> QED BY <1>1, <1>2

\* While no deleteAll and no close overlap, a closed writer has no merge left, neither
\* pending nor in a thread, and merges own their segments, whichever thread closes the
\* writer and whatever fails.  Without the hypothesis deleteAll lets merges run again
\* behind the back of a rollback (IndexWriter.cpp:1894).
THEOREM ClosedWritersAreQuiet == Spec /\ []DeletesApart => []MergesOwnSegments
<1>1. Init => QuietInv
  BY InitQuiet
<1>2. MSInv /\ QuietInv /\ DeletesApart /\ [Next]_vars => QuietInv'
  BY NextQuiet
<1>3. MSInv /\ QuietInv => ClosedMeansQuiet
  <2> SUFFICES ASSUME MSInv, QuietInv, iw.closed
               PROVE  /\ iw.running = {} /\ iw.pending = <<>> /\ iw.merging = {}
                      /\ \A m \in MergeThreads : at[m] \in {"exit", "dead", "unborn"}
    BY DEF ClosedMeansQuiet
  <2>1. /\ iw.pending = <<>> /\ iw.running = {}
        /\ \A m \in DOMAIN iw.merges \cap DOMAIN at : at[m] \in Gone \cup {"exit"}
    BY DEF QuietInv, Quiet
  <2>2. Owned(iw) /\ Range(iw.pending) = {}
    BY <2>1 DEF MSInv, Fine, Range
  <2>3. \A m \in DOMAIN iw.merges : ~iw.merges[m].registered
    BY <2>1, <2>2 DEF Owned
  <2>4. iw.merging = {}
    BY <2>2, <2>3 DEF Owned
  <2> QED BY <2>1, <2>4 DEF Gone, MergeThreads
<1> QED BY <1>1, <1>2, <1>3, AlwaysFine, SegmentsAreOwned, PTL DEF Spec, MergesOwnSegments

------------------------------------------------------------------------------
\* What forceMerge was called for, and what has become of it

Wanted(w) == w.toMerge \cap DOMAIN w.infos

Names(w) == w.toMerge \cup DOMAIN w.infos \cup UNION {w.merges[m].segs : m \in DOMAIN w.merges}

\* A name is that of a merge, of a segment of the start, or of one that was flushed.
Fresh(w, rest) ==
  /\ rest["docs"] \in Nat
  /\ \A s \in Names(w) : /\ s \in Int /\ (s < 0 => -s \in DOMAIN w.merges)
                         /\ s <= 1000 \/ s > 1000 + rest["docs"]

Early == {"init", "writing", "written"}
Uncommitted(m, where) == m \notin DOMAIN where \/ where[m] \in Early

\* Nobody knows the segment of a merge before it is committed, except forceMerge.
Unwritten(w, where) ==
  \A m \in DOMAIN w.merges : Uncommitted(m, where) =>
    /\ -m \notin DOMAIN w.infos
    /\ \A n \in DOMAIN w.merges : -m \notin w.merges[n].segs
    /\ w.merges[m].forced \/ -m \notin w.toMerge

\* A merge that takes a wanted segment is forced, and a forced one writes a wanted one.
Marked(w) ==
  /\ \A m \in DOMAIN w.merges :
       w.merges[m].registered => w.merges[m].forced \/ w.merges[m].segs \cap w.toMerge = {}
  /\ \A m \in DOMAIN w.merges : w.merges[m].forced /\ -m \in DOMAIN w.infos => -m \in w.toMerge

Halted == {"stopped", "aborted"}

\* A merge is aborted only while merges are stopped.
Aborting(w, where) ==
  /\ \A m \in w.running \cup Range(w.pending) : w.merges[m].aborted => w.stop
  /\ \A m \in DOMAIN w.merges \cap DOMAIN where :
       where[m] \in Halted => m \in w.running /\ w.merges[m].aborted

Tracked(w, where, rest) ==
  Fresh(w, rest) /\ Unwritten(w, where) /\ Marked(w) /\ Aborting(w, where)

Failing == {"unborn", "throws", "failed", "tragic"}

Excused(w, where) ==
  \/ w.stop \/ w.tragedy \/ w.closed
  \/ \E t \in Threads : where[t] = "proposeForced"
  \/ \E m \in DOMAIN w.merges \cap DOMAIN where : where[m] \in Failing

\* Either a forced merge is left, or the wanted segments are few enough.
Pursued(w, where) ==
  Excused(w, where) \/ ForcedMergesLeft(w) \/ Cardinality(Wanted(w)) <= MaxSegmentCount

ForcedInv == Tracked(iw, at, left) /\ Pursued(iw, at)

------------------------------------------------------------------------------
\* What the operations of the writer do to it

\* v is w with merges ended or aborted.
Calm(w, v) ==
  /\ v.infos = w.infos /\ v.toMerge = w.toMerge /\ DOMAIN v.merges = DOMAIN w.merges
  /\ \A m \in DOMAIN w.merges :
       /\ v.merges[m].forced = w.merges[m].forced /\ v.merges[m].segs = w.merges[m].segs
       /\ v.merges[m].registered => w.merges[m].registered
       /\ w.merges[m].aborted => v.merges[m].aborted
       /\ v.stop \/ (v.merges[m].aborted => w.merges[m].aborted)
  /\ v.running \cup Range(v.pending) \subseteq w.running \cup Range(w.pending)
  /\ w.running \cup Range(w.pending) \subseteq DOMAIN w.merges
  /\ (w.stop => v.stop) /\ (w.tragedy => v.tragedy) /\ (w.closed => v.closed)

LEMMA CalmTracked ==
  ASSUME NEW w, NEW where, NEW rest, Tracked(w, where, rest),
         NEW v, NEW there, NEW then, Calm(w, v),
         then["docs"] \in Nat, then["docs"] <= rest["docs"],
         \A m \in DOMAIN w.merges : Uncommitted(m, there) => Uncommitted(m, where),
         \A m \in DOMAIN w.merges \cap DOMAIN there :
           there[m] \in Halted => m \in v.running /\ v.merges[m].aborted
  PROVE  Tracked(v, there, then)
<1>1. Fresh(v, then)
  <2>1. Names(v) = Names(w)
    BY DEF Names, Calm
  <2>2. DOMAIN v.merges = DOMAIN w.merges
    BY DEF Calm
  <2>3. ASSUME NEW s \in Names(w)
        PROVE  /\ s \in Int /\ (s < 0 => -s \in DOMAIN w.merges)
               /\ s <= 1000 \/ s > 1000 + then["docs"]
    <3>1. /\ s \in Int /\ (s < 0 => -s \in DOMAIN w.merges)
          /\ s <= 1000 \/ s > 1000 + rest["docs"]
          /\ rest["docs"] \in Nat
      BY DEF Tracked, Fresh
    <3> QED BY <3>1
  <2> QED BY <2>1, <2>2, <2>3 DEF Fresh
<1>2. Unwritten(v, there)
  BY DEF Tracked, Unwritten, Calm
<1>3. Marked(v)
  BY DEF Tracked, Marked, Calm
<1>4. Aborting(v, there)
  <2>1. ASSUME NEW m \in v.running \cup Range(v.pending), v.merges[m].aborted
        PROVE  v.stop
    BY <2>1 DEF Tracked, Aborting, Calm
  <2>2. DOMAIN v.merges = DOMAIN w.merges
    BY DEF Calm
  <2> QED BY <2>1, <2>2 DEF Aborting
<1> QED BY <1>1, <1>2, <1>3, <1>4 DEF Tracked

LEMMA GrownTracked ==
  ASSUME NEW w, Shape(w), Owned(w), NEW where, NEW rest, Tracked(w, where, rest),
         NEW v, Grown(w, v), \A m \in DOMAIN v.merges \ DOMAIN w.merges : m \notin DOMAIN where
  PROVE  Tracked(v, where, rest)
<1>1. /\ DOMAIN w.merges \subseteq DOMAIN v.merges
      /\ \A m \in DOMAIN w.merges : v.merges[m] = w.merges[m]
      /\ \A m \in DOMAIN v.merges \ DOMAIN w.merges :
           m \in Range(v.pending) /\ v.merges[m].segs \subseteq DOMAIN w.infos
             /\ ~v.merges[m].aborted
             /\ (v.merges[m].forced \/ v.merges[m].segs \cap w.toMerge = {})
      /\ v.running = w.running
      /\ Range(v.pending) \subseteq Range(w.pending) \cup (DOMAIN v.merges \ DOMAIN w.merges)
      /\ v.infos = w.infos /\ v.toMerge = w.toMerge /\ v.stop = w.stop
  BY DEF Grown, Same, Begun
<1>2. Range(w.pending) \subseteq DOMAIN w.merges /\ w.running \subseteq DOMAIN w.merges
  BY DEF Owned
<1>3. DOMAIN v.merges \subseteq Nat \ {0} /\ DOMAIN w.merges \subseteq Nat \ {0}
  BY MergesAreNumbers DEF Grown
<1>4. Names(v) \subseteq Names(w)
  <2>1. ASSUME NEW m \in DOMAIN v.merges
        PROVE  v.merges[m].segs \subseteq Names(w)
    <3>1. CASE m \in DOMAIN w.merges
      BY <1>1, <3>1 DEF Names
    <3>2. CASE m \notin DOMAIN w.merges
      BY <1>1, <3>2 DEF Names
    <3> QED BY <3>1, <3>2
  <2> QED BY <1>1, <2>1 DEF Names
<1>5. Fresh(v, rest)
  BY <1>1, <1>4 DEF Tracked, Fresh
<1>6. ASSUME NEW m \in DOMAIN v.merges \ DOMAIN w.merges
      PROVE  -m \notin Names(w)
  <2>1. -m < 0 /\ -(-m) = m
    BY <1>3
  <2> QED BY <2>1 DEF Tracked, Fresh
<1>7. Unwritten(v, where)
  <2>1. ASSUME NEW m \in DOMAIN v.merges, Uncommitted(m, where)
        PROVE  /\ -m \notin DOMAIN v.infos
               /\ \A n \in DOMAIN v.merges : -m \notin v.merges[n].segs
               /\ v.merges[m].forced \/ -m \notin v.toMerge
    <3>1. CASE m \in DOMAIN w.merges
      <4>1. /\ -m \notin DOMAIN w.infos
            /\ \A n \in DOMAIN w.merges : -m \notin w.merges[n].segs
            /\ w.merges[m].forced \/ -m \notin w.toMerge
        BY <2>1, <3>1 DEF Tracked, Unwritten
      <4>2. ASSUME NEW n \in DOMAIN v.merges
            PROVE  -m \notin v.merges[n].segs
        <5>1. CASE n \in DOMAIN w.merges
          BY <1>1, <4>1, <5>1
        <5>2. CASE n \notin DOMAIN w.merges
          BY <1>1, <4>1, <5>2
        <5> QED BY <5>1, <5>2
      <4> QED BY <1>1, <3>1, <4>1, <4>2
    <3>2. CASE m \notin DOMAIN w.merges
      <4>1. -m \notin Names(w)
        BY <1>6, <3>2
      <4>2. -m \notin Names(v)
        BY <1>4, <4>1
      <4> QED BY <4>2 DEF Names
    <3> QED BY <3>1, <3>2
  <2> QED BY <2>1 DEF Unwritten
<1>8. Marked(v)
  <2>1. ASSUME NEW m \in DOMAIN v.merges
        PROVE  /\ v.merges[m].registered =>
                    v.merges[m].forced \/ v.merges[m].segs \cap v.toMerge = {}
               /\ v.merges[m].forced /\ -m \in DOMAIN v.infos => -m \in v.toMerge
    <3>1. CASE m \in DOMAIN w.merges
      BY <1>1, <3>1 DEF Tracked, Marked
    <3>2. CASE m \notin DOMAIN w.merges
      <4>1. -m \notin DOMAIN w.infos
        BY <1>6, <3>2 DEF Names
      <4> QED BY <1>1, <3>2, <4>1
    <3> QED BY <3>1, <3>2
  <2> QED BY <2>1 DEF Marked
<1>9. Aborting(v, where)
  <2>1. ASSUME NEW m \in v.running \cup Range(v.pending), v.merges[m].aborted
        PROVE  v.stop
    BY <1>1, <1>2, <2>1 DEF Tracked, Aborting
  <2>2. ASSUME NEW m \in DOMAIN v.merges \cap DOMAIN where, where[m] \in Halted
        PROVE  m \in v.running /\ v.merges[m].aborted
    BY <1>1, <2>2 DEF Tracked, Aborting
  <2> QED BY <2>1, <2>2 DEF Aborting
<1> QED BY <1>5, <1>7, <1>8, <1>9 DEF Tracked

LEMMA GrownPursued ==
  ASSUME NEW w, Shape(w), Owned(w), NEW v, Grown(w, v)
  PROVE  /\ Wanted(v) = Wanted(w)
         /\ ForcedMergesLeft(w) => ForcedMergesLeft(v)
<1>1. Wanted(v) = Wanted(w)
  BY DEF Wanted, Grown, Same
<1>2. ASSUME NEW m \in w.running \cup Range(w.pending), Forced(w, m)
      PROVE  ForcedMergesLeft(v)
  <2>1. m \in DOMAIN w.merges /\ w.merges[m].registered
    BY DEF Owned
  <2>2. m \in DOMAIN v.merges /\ v.merges[m] = w.merges[m]
    BY <2>1 DEF Grown
  <2>3. m \in Range(v.pending) \/ m \in v.running
    BY <2>1, <2>2 DEF Grown, Owned
  <2> QED BY <1>2, <2>2, <2>3 DEF ForcedMergesLeft, Forced
<1> QED BY <1>1, <1>2 DEF ForcedMergesLeft

\* What findForcedMerges proposes first can be registered.
LEMMA ForcedMergesFirst ==
  ASSUME NEW w, Shape(w), Cardinality(Wanted(w)) > MaxSegmentCount,
         Wanted(w) \cap w.merging = {}
  PROVE  /\ Len(ForcedMerges(w)) \in Nat /\ Len(ForcedMerges(w)) >= 1
         /\ ForcedMerges(w)[1] \subseteq Wanted(w)
<1> DEFINE eligible == Wanted(w) \ w.merging
           n == Cardinality(eligible)
           full == (n - MaxSegmentCount + 1) \div AtOnce
           Before(s) == {r \in eligible : \/ w.infos[r] < w.infos[s]
                                          \/ (w.infos[r] = w.infos[s] /\ r > s)}
           Smallest(k, skip) ==
             {s \in eligible : Cardinality(Before(s)) \in skip .. skip + k - 1}
<1>1. eligible = Wanted(w)
  OBVIOUS
<1>2. ForcedMerges(w) =
        IF n <= MaxSegmentCount THEN <<>>
        ELSE IF full > 0 THEN [i \in 1 .. full |-> Smallest(AtOnce, (i - 1) * AtOnce)]
        ELSE IF Wanted(w) \cap w.merging = {} THEN <<Smallest(n - MaxSegmentCount + 1, 0)>>
        ELSE <<>>
  BY DEF ForcedMerges, Wanted
<1>3. \A k, skip : Smallest(k, skip) \subseteq Wanted(w)
  OBVIOUS
<1>4. n \in Nat
  <2>1. IsFiniteSet(Wanted(w))
    BY FS_Subset DEF Shape, Wanted
  <2> QED BY <1>1, <2>1, FS_CardinalityType
<1>5. ~(n <= MaxSegmentCount)
  <2>1. MaxSegmentCount \in Nat
    BY MergeSchedulingAssumption
  <2>2. n = Cardinality(Wanted(w))
    BY <1>1
  <2> QED BY <1>4, <2>1, <2>2
<1>6. full \in Int
  BY <1>4, MergeSchedulingAssumption
<1>7. Len(ForcedMerges(w)) \in Nat
  BY ForcedMergesLen
<1> HIDE DEF full, Smallest, n, eligible
<1>8. CASE full > 0
  <2>1. ForcedMerges(w) = [i \in 1 .. full |-> Smallest(AtOnce, (i - 1) * AtOnce)]
    BY <1>2, <1>5, <1>8
  <2> DEFINE f == [i \in 1 .. full |-> Smallest(AtOnce, (i - 1) * AtOnce)]
             S == {f[i] : i \in 1 .. full}
  <2>2. f \in [1 .. full -> S]
    OBVIOUS
  <2>3. f[1] = Smallest(AtOnce, (1 - 1) * AtOnce)
    BY <1>6, <1>8
  <2> HIDE DEF f, S
  <2>4. f \in Seq(S) /\ Len(f) = full
    BY <1>6, <1>8, <2>2
  <2>5. ForcedMerges(w) = f
    BY <2>1 DEF f
  <2> QED BY <1>3, <1>6, <1>7, <1>8, <2>3, <2>4, <2>5
<1>9. CASE ~(full > 0)
  <2> DEFINE s == Smallest(n - MaxSegmentCount + 1, 0)
  <2>1. ForcedMerges(w) = <<s>>
    BY <1>2, <1>5, <1>9
  <2>2. s \subseteq Wanted(w)
    BY <1>3
  <2> HIDE DEF s
  <2> QED BY <2>1, <2>2
<1> QED BY <1>8, <1>9

\* The steps of RegisterAll after the first
LEMMA StepsGrowOn ==
  ASSUME NEW w, Shape(w), Owned(w), NEW spec, NEW forced, NEW n \in Nat, n >= 1,
         NEW after, Steps(w, spec, forced, n, after)
  PROVE  Grown(after[1], after[n])
<1> DEFINE B == {k \in Nat : 1 <= k /\ k <= n /\ ~Grown(after[1], after[k])}
<1>1. SUFFICES ASSUME B # {}
               PROVE  FALSE
  OBVIOUS
<1>2. PICK k \in B : \A m \in B : ~(m < k)
  <2>1. B \subseteq Nat
    OBVIOUS
  <2> HIDE DEF B
  <2> QED BY <1>1, <2>1, LeastIndex
<1>3. k \in 0 .. n /\ 1 \in 0 .. n
  OBVIOUS
<1>4. Shape(after[1]) /\ Owned(after[1])
  <2>1. after[1] = Register(after[1 - 1], spec[1], forced) /\ after[0] = w
    BY <1>3 DEF Steps
  <2>2. Grown(w, after[1])
    BY <2>1, RegisterGrows
  <2> QED BY <2>2 DEF Grown
<1>5. CASE k = 1
  BY <1>4, <1>5, GrownAtFirst
<1>6. CASE k # 1
  <2>1. k - 1 \in Nat /\ k - 1 < k /\ k - 1 <= n /\ 1 <= k - 1
    BY <1>6
  <2>2. Grown(after[1], after[k - 1])
    BY <1>2, <2>1
  <2>3. Grown(after[k - 1], Register(after[k - 1], spec[k], forced))
    BY <2>2, RegisterGrows DEF Grown
  <2>4. after[k] = Register(after[k - 1], spec[k], forced)
    BY <1>3, <1>6 DEF Steps
  <2> QED BY <2>2, <2>3, <2>4, GrownTwice
<1> QED BY <1>5, <1>6

LEMMA RegisterFirst ==
  ASSUME NEW w, Shape(w), NEW segs, segs \subseteq DOMAIN w.infos, segs \cap w.merging = {},
         NEW forced
  PROVE  LET v == Register(w, segs, forced)
         IN  \E k \in Range(v.pending) : v.merges[k] = NewMerge(w, segs, forced)
<1> DEFINE k == Len(w.merges) + 1
           r == NewMerge(w, segs, forced)
           v == Register(w, segs, forced)
<1>1. IsWriter(w)
  BY DEF Shape
<1>2. v.merges = Append(w.merges, r) /\ v.pending = Append(w.pending, k)
  BY <1>1, RegisterFields
<1> HIDE DEF r, v
<1>3. k \in Nat /\ Len(w.merges) \in Nat
  BY ShapeMerges
<1>4. k \in Range(v.pending)
  <2> HIDE DEF k
  <2>1. Range(Append(w.pending, k)) = Range(w.pending) \cup {k}
    BY <1>3, PendingAppended
  <2> QED BY <1>2, <2>1
<1>5. v.merges[k] = r
  <2>1. Append(w.merges, r)[Len(w.merges) + 1] = r
    BY MergesAppended
  <2> QED BY <1>2, <2>1
<1> QED BY <1>4, <1>5 DEF r, v

LEMMA FirstRegistered ==
  ASSUME NEW w, Shape(w), Owned(w), NEW spec, Len(spec) \in Nat, Len(spec) >= 1,
         spec[1] \subseteq DOMAIN w.infos, spec[1] \cap w.merging = {}
  PROVE  ForcedMergesLeft(RegisterAll(w, spec, TRUE))
<1> DEFINE after == CHOOSE a : Steps(w, spec, TRUE, Len(spec), a)
<1>1. Steps(w, spec, TRUE, Len(spec), after)
  BY StepsExist
<1>2. RegisterAll(w, spec, TRUE) = after[Len(spec)]
  BY RegisterAllIs
<1> HIDE DEF after
<1>3. after[1] = Register(w, spec[1], TRUE)
  <2>1. after[1] = Register(after[1 - 1], spec[1], TRUE) /\ after[0] = w
    BY <1>1 DEF Steps
  <2>2. 1 - 1 = 0
    OBVIOUS
  <2> QED BY <2>1, <2>2
<1>4. Grown(w, after[1])
  BY <1>3, RegisterGrows
<1>5. PICK k \in Range(after[1].pending) : after[1].merges[k] = NewMerge(w, spec[1], TRUE)
  BY <1>3, RegisterFirst
<1>6. ForcedMergesLeft(after[1])
  <2>1. NewMerge(w, spec[1], TRUE).forced
    BY DEF NewMerge
  <2> QED BY <1>5, <2>1 DEF ForcedMergesLeft, Forced
<1>7. Grown(after[1], after[Len(spec)])
  BY <1>1, StepsGrowOn
<1>8. Shape(after[1]) /\ Owned(after[1])
  BY <1>4 DEF Grown
<1> QED BY <1>2, <1>6, <1>7, <1>8, GrownPursued

\* After updatePendingMerges for forceMerge a forced merge is left, or all is done.
LEMMA UpdatePursues ==
  ASSUME NEW w, Shape(w), Owned(w), Marked(w), ~w.stop, ~w.tragedy,
         NEW v \in UpdatePendingMerges(w, TRUE)
  PROVE  ForcedMergesLeft(v) \/ Cardinality(Wanted(v)) <= MaxSegmentCount
<1>1. v = RegisterAll(w, ForcedMerges(w), TRUE)
  BY DEF UpdatePendingMerges
<1>2. Grown(w, v)
  BY UpdateGrows
<1>3. CASE Wanted(w) \cap w.merging # {}
  <2>1. PICK s \in Wanted(w) : s \in w.merging
    BY <1>3
  <2>2. PICK m \in DOMAIN w.merges : w.merges[m].registered /\ s \in w.merges[m].segs
    BY <2>1 DEF Owned
  <2>3. w.merges[m].forced
    BY <2>1, <2>2 DEF Marked, Wanted
  <2>4. m \in w.running \cup Range(w.pending)
    BY <2>2 DEF Owned
  <2>5. ForcedMergesLeft(w)
    BY <2>3, <2>4 DEF ForcedMergesLeft, Forced
  <2> QED BY <1>2, <2>5, GrownPursued
<1>4. CASE Wanted(w) \cap w.merging = {} /\ Cardinality(Wanted(w)) > MaxSegmentCount
  <2>1. /\ Len(ForcedMerges(w)) \in Nat /\ Len(ForcedMerges(w)) >= 1
        /\ ForcedMerges(w)[1] \subseteq Wanted(w)
    BY <1>4, ForcedMergesFirst
  <2>2. ForcedMerges(w)[1] \subseteq DOMAIN w.infos /\ ForcedMerges(w)[1] \cap w.merging = {}
    BY <1>4, <2>1 DEF Wanted
  <2> QED BY <1>1, <2>1, <2>2, FirstRegistered
<1>5. CASE ~(Cardinality(Wanted(w)) > MaxSegmentCount)
  <2>1. Cardinality(Wanted(w)) \in Nat
    <3>1. IsFiniteSet(Wanted(w))
      BY FS_Subset DEF Shape, Wanted
    <3> QED BY <3>1, FS_CardinalityType
  <2>2. Cardinality(Wanted(w)) <= MaxSegmentCount
    BY <1>5, <2>1, MergeSchedulingAssumption
  <2> QED BY <1>2, <2>2, GrownPursued
<1> QED BY <1>3, <1>4, <1>5

LEMMA FinishCalm ==
  ASSUME NEW w, Shape(w), Owned(w), NEW m \in DOMAIN w.merges, m \notin Range(w.pending)
  PROVE  /\ Calm(w, MergeFinish(w, m))
         /\ MergeFinish(w, m).running = w.running \ {m}
         /\ MergeFinish(w, m).pending = w.pending
         /\ \A n \in DOMAIN w.merges :
              MergeFinish(w, m).merges[n].aborted = w.merges[n].aborted
<1> DEFINE v == MergeFinish(w, m)
<1>1. GivenUp(w, v, {m}) /\ Same(w, v) /\ v.pending = w.pending
  BY FinishFields
<1>2. v.merges = [w.merges EXCEPT ![m].registered = FALSE]
  BY DEF MergeFinish, Shape, IsWriter
<1>3. w.merges = [n \in 1 .. Len(w.merges) |-> w.merges[n]] /\ DOMAIN w.merges = 1 .. Len(w.merges)
  BY ShapeMerges DEF Shape
<1>4. ASSUME NEW n \in DOMAIN w.merges
      PROVE  /\ v.merges[n].forced = w.merges[n].forced
             /\ v.merges[n].aborted = w.merges[n].aborted
  <2>1. IsMerge(w.merges[n])
    BY DEF Shape
  <2>2. CASE n = m
    <3>1. v.merges[n] = [w.merges[n] EXCEPT !.registered = FALSE]
      BY <1>2, <1>3, <2>2
    <3> HIDE DEF v
    <3> QED BY <2>1, <3>1 DEF IsMerge
  <2>3. CASE n # m
    BY <1>2, <1>3, <2>3
  <2> QED BY <2>2, <2>3
<1> HIDE DEF v
<1>5. v.running = w.running \ {m} /\ v.stop = w.stop /\ v.toMerge = w.toMerge
  BY <1>1 DEF GivenUp, Same
<1>6. Calm(w, v)
  BY <1>1, <1>4, <1>5 DEF GivenUp, Same, Calm, Owned
<1> QED BY <1>1, <1>4, <1>5, <1>6 DEF v

LEMMA AbortCalm ==
  ASSUME NEW w, Shape(w), Owned(w)
  PROVE  /\ Calm(w, AbortMerges(w)) /\ AbortMerges(w).stop
         /\ AbortMerges(w).running = w.running
<1> DEFINE v == AbortMerges(w)
           given == Range(w.pending)
           Aborted(m) == [w.merges[m] EXCEPT !.registered = @ /\ m \notin given,
                                             !.aborted = @ \/ m \in w.running \cup given]
<1>1. GivenUp(w, v, given) /\ v.stop /\ v.pending = <<>>
  BY AbortFields
<1>2. v.merges = [m \in DOMAIN w.merges |-> Aborted(m)] /\ v.toMerge = w.toMerge
  BY DEF AbortMerges, Shape, IsWriter
<1>3. ASSUME NEW m \in DOMAIN w.merges
      PROVE  /\ v.merges[m].forced = w.merges[m].forced
             /\ w.merges[m].aborted => v.merges[m].aborted
  <2>1. v.merges[m] = Aborted(m)
    BY <1>2
  <2>2. IsMerge(w.merges[m])
    BY DEF Shape
  <2> HIDE DEF v
  <2> QED BY <2>1, <2>2 DEF IsMerge
<1> HIDE DEF v
<1>4. v.running = w.running
  BY <1>1 DEF GivenUp, Owned
<1>5. Range(<<>>) = {}
  BY DEF Range
<1>6. Calm(w, v)
  BY <1>1, <1>2, <1>3, <1>4, <1>5 DEF GivenUp, Calm, Owned
<1> QED BY <1>1, <1>4, <1>6 DEF v

------------------------------------------------------------------------------
\* Steps that end or abort merges, and otherwise only move a thread

LEMMA CalmSelf ==
  ASSUME NEW w, Owned(w)
  PROVE  Calm(w, w)
BY DEF Calm, Owned

LEMMA CalmFields ==
  ASSUME NEW w, Owned(w), NEW v, v.infos = w.infos, v.toMerge = w.toMerge,
         v.merges = w.merges, v.pending = w.pending, v.running = w.running,
         v.stop = w.stop, w.tragedy => v.tragedy, w.closed => v.closed
  PROVE  Calm(w, v)
BY DEF Calm, Owned

LEMMA CalmTwice ==
  ASSUME NEW u, NEW v, NEW w, Calm(u, v), Calm(v, w)
  PROVE  Calm(u, w)
<1>1. \A m \in DOMAIN u.merges : w.stop \/ (w.merges[m].aborted => u.merges[m].aborted)
  BY DEF Calm
<1> QED BY <1>1 DEF Calm

LEMMA SameLeft ==
  ASSUME NEW w, NEW v, DOMAIN v.merges = DOMAIN w.merges,
         \A m \in DOMAIN w.merges : v.merges[m].forced = w.merges[m].forced,
         w.running \cup Range(w.pending) \subseteq DOMAIN w.merges,
         w.running \cup Range(w.pending) \subseteq v.running \cup Range(v.pending),
         ForcedMergesLeft(w)
  PROVE  ForcedMergesLeft(v)
BY DEF ForcedMergesLeft, Forced

LEMMA ForcedAt ==
  ASSUME MSInv
  PROVE  /\ Shape(iw) /\ Owned(iw) /\ IsWriter(iw) /\ Threads \subseteq DOMAIN at
         /\ DOMAIN iw.merges \cap Threads = {}
         /\ \A a \in DOMAIN at : a \in Threads \/ a \in DOMAIN iw.merges
         /\ left \in [Kinds -> Nat] /\ left["docs"] \in Nat
         /\ \A t \in Threads : at[t] \notin Early \cup Halted \cup Failing
<1>1. Shape(iw) /\ Owned(iw) /\ IsWriter(iw) /\ Agents(iw, at) /\ left \in [Kinds -> Nat]
  BY DEF MSInv, Fine, Rest, Shape
<1>2. \A t \in Threads : at[t] \notin Early \cup Halted \cup Failing
  BY <1>1 DEF Agents, AppAt, Early, Halted, Failing
<1>3. left["docs"] \in Nat
  BY <1>1 DEF Kinds
<1> QED BY <1>1, <1>2, <1>3, MergesAreNumbers DEF Agents

LEMMA CalmStep ==
  ASSUME MSInv, ForcedInv, NEW a \in DOMAIN at, NEW q, at' = [at EXCEPT ![a] = q],
         Calm(iw, iw'), left'["docs"] = left["docs"], iw.running \ {a} \subseteq iw'.running,
         at[a] # "proposeForced",
         q \in Early => a \in Threads \/ at[a] \in Early,
         q \in Halted => a \in iw'.running /\ iw'.merges[a].aborted,
         at[a] \in Failing => q \in Failing \/ iw'.tragedy,
         ForcedMergesLeft(iw) =>
           ForcedMergesLeft(iw') \/ iw'.stop \/ (a \notin Threads /\ q \in Failing)
  PROVE  ForcedInv'
<1>1. /\ Shape(iw) /\ Owned(iw) /\ Threads \subseteq DOMAIN at
      /\ DOMAIN iw.merges \cap Threads = {} /\ left["docs"] \in Nat
      /\ \A b \in DOMAIN at : b \in Threads \/ b \in DOMAIN iw.merges
      /\ \A t \in Threads : at[t] \notin Failing
  BY ForcedAt
<1>2. /\ DOMAIN at' = DOMAIN at /\ at'[a] = q
      /\ \A b \in DOMAIN at : b # a => at'[b] = at[b]
  BY OneMoves
<1>3. Tracked(iw, at, left) /\ Pursued(iw, at)
  BY DEF ForcedInv
<1>4. \A m \in DOMAIN iw.merges : Uncommitted(m, at') => Uncommitted(m, at)
  BY <1>1, <1>2 DEF Uncommitted
<1>5. ASSUME NEW m \in DOMAIN iw.merges \cap DOMAIN at', at'[m] \in Halted
      PROVE  m \in iw'.running /\ iw'.merges[m].aborted
  <2>1. CASE m = a
    BY <1>2, <1>5, <2>1
  <2>2. CASE m # a
    <3>1. m \in iw.running /\ iw.merges[m].aborted
      BY <1>2, <1>3, <1>5, <2>2 DEF Tracked, Aborting
    <3> QED BY <2>2, <3>1 DEF Calm
  <2> QED BY <2>1, <2>2
<1>6. left'["docs"] \in Nat /\ left'["docs"] <= left["docs"]
  BY <1>1
<1>7. Tracked(iw', at', left')
  <2> HIDE DEF Calm
  <2> QED BY <1>3, <1>4, <1>5, <1>6, CalmTracked
<1>8. Excused(iw, at) => Excused(iw', at')
  <2>1. DOMAIN iw'.merges = DOMAIN iw.merges
    BY DEF Calm
  <2>2. CASE iw.stop \/ iw.tragedy \/ iw.closed
    BY <2>2 DEF Calm, Excused
  <2>3. ASSUME NEW t \in Threads, at[t] = "proposeForced"
        PROVE  Excused(iw', at')
    BY <1>1, <1>2, <2>3 DEF Excused
  <2>4. ASSUME NEW m \in DOMAIN iw.merges \cap DOMAIN at, at[m] \in Failing
        PROVE  Excused(iw', at')
    <3>1. CASE m = a /\ iw'.tragedy
      BY <3>1 DEF Excused
    <3>2. CASE m # a \/ q \in Failing
      BY <1>2, <2>1, <2>4, <3>2 DEF Excused
    <3> QED BY <2>4, <3>1, <3>2
  <2> QED BY <2>2, <2>3, <2>4 DEF Excused
<1>9. ForcedMergesLeft(iw) => ForcedMergesLeft(iw') \/ Excused(iw', at')
  <2>1. ASSUME a \notin Threads, q \in Failing
        PROVE  Excused(iw', at')
    BY <1>1, <1>2, <2>1 DEF Calm, Excused
  <2> QED BY <2>1 DEF Excused
<1>10. Wanted(iw') = Wanted(iw)
  BY DEF Wanted, Calm
<1>11. Pursued(iw', at')
  BY <1>3, <1>8, <1>9, <1>10 DEF Pursued
<1> QED BY <1>7, <1>11 DEF ForcedInv

\* The most common kind of step
LEMMA PlainForced ==
  ASSUME MSInv, ForcedInv, NEW a \in DOMAIN at, NEW q, at' = [at EXCEPT ![a] = q],
         Calm(iw, iw'), left'["docs"] = left["docs"],
         iw'.running = iw.running, iw'.stop \/ iw'.pending = iw.pending,
         at[a] \notin Failing \cup {"proposeForced"}, q \notin Early \cup Halted
  PROVE  ForcedInv'
<1>1. ForcedMergesLeft(iw) => ForcedMergesLeft(iw') \/ iw'.stop
  BY SameLeft DEF Calm
<1> QED BY <1>1, CalmStep

LEMMA SpendDocs ==
  ASSUME MSInv, NEW k \in Kinds \ {"docs"}, Spend(k)
  PROVE  left'["docs"] = left["docs"]
BY ForcedAt DEF Spend, SpendMany, Kinds

LEMMA StallForced ==
  ASSUME ForcedInv, NEW a \in DOMAIN at, Stall(a)
  PROVE  ForcedInv'
BY DEF Stall, ForcedInv

LEMMA EndSchedulingForced ==
  ASSUME MSInv, ForcedInv, NEW a \in DOMAIN at, EndScheduling(a)
  PROVE  ForcedInv'
<1> DEFINE q == AfterMerge(a)
<1>1. /\ at[a] \in {"merge", "mergeForced", "drain"} /\ at' = [at EXCEPT ![a] = q]
      /\ UNCHANGED <<iw, left>>
  BY DEF EndScheduling, Scheduling
<1>2. a \in Threads => Fits(at[a], call[a])
  BY DEF MSInv, Fine, Calling
<1>3. q \notin Early \cup Halted
  BY <1>1, <1>2 DEF AfterMerge, AfterFlush, Fits, Early, Halted
<1> HIDE DEF q
<1>4. Calm(iw, iw')
  BY <1>1, ForcedAt, CalmSelf
<1>5. at[a] \notin Failing \cup {"proposeForced"}
  BY <1>1 DEF Failing
<1> QED BY <1>1, <1>3, <1>4, <1>5, PlainForced

LEMMA NamedCalm ==
  ASSUME NEW w, Shape(w), Owned(w), NEW m \in DOMAIN w.merges,
         NEW v, v = [w EXCEPT !.merges[m].named = TRUE]
  PROVE  Calm(w, v) /\ v.running = w.running /\ v.pending = w.pending
<1> DEFINE ms == [w.merges EXCEPT ![m] = [w.merges[m] EXCEPT !.named = TRUE]]
<1>1. v = [w EXCEPT !.merges = ms]
  OBVIOUS
<1>2. w.merges = [n \in 1 .. Len(w.merges) |-> w.merges[n]]
        /\ DOMAIN w.merges = 1 .. Len(w.merges)
  BY ShapeMerges DEF Shape
<1>3. DOMAIN ms = DOMAIN w.merges
  OBVIOUS
<1>4. ASSUME NEW n \in DOMAIN w.merges
      PROVE  /\ ms[n].forced = w.merges[n].forced /\ ms[n].segs = w.merges[n].segs
             /\ ms[n].registered = w.merges[n].registered
             /\ ms[n].aborted = w.merges[n].aborted
  <2>1. IsMerge(w.merges[n])
    BY DEF Shape
  <2>2. CASE n = m
    <3>1. ms[n] = [w.merges[n] EXCEPT !.named = TRUE]
      BY <1>2, <2>2
    <3> HIDE DEF ms
    <3> QED BY <2>1, <3>1 DEF IsMerge
  <2>3. CASE n # m
    BY <1>2, <2>3
  <2> QED BY <2>2, <2>3
<1> HIDE DEF ms
<1>5. IsWriter(w)
  BY DEF Shape
<1>6. v = [infos |-> w.infos, merges |-> ms, pending |-> w.pending, running |-> w.running,
           merging |-> w.merging, toMerge |-> w.toMerge, mergeGen |-> w.mergeGen,
           exceptions |-> w.exceptions, stop |-> w.stop, closing |-> w.closing,
           closed |-> w.closed, tragedy |-> w.tragedy]
  BY <1>1, <1>5 DEF IsWriter
<1>7. /\ v.infos = w.infos /\ v.merges = ms /\ v.pending = w.pending /\ v.running = w.running
      /\ v.toMerge = w.toMerge /\ v.stop = w.stop /\ v.closed = w.closed
      /\ v.tragedy = w.tragedy
  BY <1>6
<1> QED BY <1>3, <1>4, <1>7 DEF Calm, Owned

LEMMA MergeInitForced ==
  ASSUME MSInv, ForcedInv, NEW m \in DOMAIN iw.merges \cap DOMAIN at, MergeInit(m)
  PROVE  ForcedInv'
<1>1. at[m] = "init" /\ m \notin Threads
  BY ForcedAt DEF MergeInit
<1>2. Shape(iw) /\ Owned(iw) /\ m \notin Range(iw.pending) /\ m \in DOMAIN at
  BY ForcedAt DEF MSInv, Fine, Placed
<1>3. at[m] \notin Failing \cup {"proposeForced"} /\ at[m] \in Early
  BY <1>1 DEF Failing, Early
<1>4. ASSUME Calm(iw, iw'), iw'.running = iw.running, iw'.pending = iw.pending,
             at' = [at EXCEPT ![m] = "writing"], UNCHANGED left
      PROVE  ForcedInv'
  <2>1. ForcedMergesLeft(iw) => ForcedMergesLeft(iw')
    BY <1>4, SameLeft DEF Calm
  <2>2. "writing" \notin Halted
    BY DEF Halted
  <2> QED BY <1>2, <1>3, <1>4, <2>1, <2>2, CalmStep
<1>5. CASE iw' = iw /\ at' = [at EXCEPT ![m] = "writing"] /\ UNCHANGED left
  BY <1>2, <1>4, <1>5, CalmSelf
<1>6. CASE /\ iw' = [iw EXCEPT !.merges[m].named = TRUE]
           /\ at' = [at EXCEPT ![m] = "writing"] /\ UNCHANGED left
  BY <1>2, <1>4, <1>6, NamedCalm
<1>7. CASE /\ iw' = MergeFinish(iw, m) /\ at' = [at EXCEPT ![m] = "throws"]
           /\ left'["docs"] = left["docs"]
  <2>1. Calm(iw, iw') /\ iw'.running = iw.running \ {m}
    BY <1>2, <1>7, FinishCalm
  <2>2. "throws" \notin Early \cup Halted /\ "throws" \in Failing
    BY DEF Early, Halted, Failing
  <2> QED BY <1>1, <1>2, <1>3, <1>7, <2>1, <2>2, CalmStep
<1>8. Spend("mergeFails") => left'["docs"] = left["docs"]
  BY SpendDocs DEF Kinds
<1> QED BY <1>5, <1>6, <1>7, <1>8 DEF MergeInit

LEMMA MergeMiddleForced ==
  ASSUME MSInv, ForcedInv, NEW m \in DOMAIN iw.merges \cap DOMAIN at, MergeMiddle(m)
  PROVE  ForcedInv'
<1>1. at[m] = "writing" /\ UNCHANGED iw
  BY DEF MergeMiddle
<1>2. Owned(iw) /\ m \in DOMAIN at /\ m \notin Threads /\ m \in iw.running
  BY <1>1, ForcedAt DEF MSInv, Fine, Placed, Held
<1>3. at[m] \notin Failing \cup {"proposeForced"} /\ at[m] \in Early
  BY <1>1 DEF Failing, Early
<1>4. Calm(iw, iw') /\ iw'.running = iw.running /\ ForcedMergesLeft(iw) => ForcedMergesLeft(iw')
  BY <1>1, <1>2, CalmSelf
<1>5. Spend("mergeFails") => left'["docs"] = left["docs"]
  BY SpendDocs DEF Kinds
<1>6. PICK q : /\ at' = [at EXCEPT ![m] = q] /\ left'["docs"] = left["docs"]
               /\ q \in {"written", "throws"} \/ (q = "stopped" /\ iw.merges[m].aborted)
  BY <1>5 DEF MergeMiddle
<1>7. q \in Halted => m \in iw'.running /\ iw'.merges[m].aborted
  BY <1>1, <1>2, <1>6 DEF Halted
<1>8. Calm(iw, iw')
  BY <1>1, <1>2, CalmSelf
<1> QED BY <1>1, <1>2, <1>3, <1>6, <1>7, <1>8, CalmStep

LEMMA HandleMergeExceptionForced ==
  ASSUME MSInv, ForcedInv, NEW m \in DOMAIN iw.merges \cap DOMAIN at, HandleMergeException(m)
  PROVE  ForcedInv'
<1>1. /\ at[m] \in {"throws", "stopped"} /\ iw' = AddException(iw, m) /\ UNCHANGED left
      /\ at' = [at EXCEPT ![m] = IF at[m] = "throws" THEN "failed" ELSE "aborted"]
  BY DEF HandleMergeException
<1>2. IsWriter(iw) /\ Owned(iw) /\ m \in DOMAIN at /\ m \notin Threads
  BY ForcedAt
<1>3. /\ iw'.infos = iw.infos /\ iw'.toMerge = iw.toMerge /\ iw'.merges = iw.merges
      /\ iw'.pending = iw.pending /\ iw'.running = iw.running /\ iw'.stop = iw.stop
      /\ iw'.tragedy = iw.tragedy /\ iw'.closed = iw.closed
  <2>1. CASE iw' = iw
    BY <2>1
  <2>2. CASE iw' = [iw EXCEPT !.exceptions = @ \cup {m}]
    <3>1. iw' = [infos |-> iw.infos, merges |-> iw.merges, pending |-> iw.pending,
                 running |-> iw.running, merging |-> iw.merging, toMerge |-> iw.toMerge,
                 mergeGen |-> iw.mergeGen, exceptions |-> iw.exceptions \cup {m},
                 stop |-> iw.stop, closing |-> iw.closing, closed |-> iw.closed,
                 tragedy |-> iw.tragedy]
      BY <1>2, <2>2 DEF IsWriter
    <3> QED BY <3>1
  <2> QED BY <1>1, <2>1, <2>2 DEF AddException
<1>4. Calm(iw, iw')
  BY <1>2, <1>3, CalmFields
<1>5. ForcedMergesLeft(iw) => ForcedMergesLeft(iw')
  BY <1>3, <1>4, SameLeft DEF Calm
<1>6. CASE at[m] = "throws"
  <2>1. at' = [at EXCEPT ![m] = "failed"]
    BY <1>1, <1>6
  <2>2. "failed" \notin Early \cup Halted /\ "failed" \in Failing /\ at[m] # "proposeForced"
    BY <1>6 DEF Early, Halted, Failing
  <2> QED BY <1>1, <1>2, <1>3, <1>4, <1>5, <2>1, <2>2, CalmStep
<1>7. CASE at[m] = "stopped"
  <2>1. at' = [at EXCEPT ![m] = "aborted"]
    BY <1>1, <1>7
  <2>2. "aborted" \notin Early /\ at[m] \notin Failing /\ at[m] # "proposeForced"
    BY <1>7 DEF Early, Failing
  <2>3. m \in iw'.running /\ iw'.merges[m].aborted
    BY <1>3, <1>7 DEF ForcedInv, Tracked, Aborting, Halted
  <2> QED BY <1>1, <1>2, <1>3, <1>4, <1>5, <2>1, <2>2, <2>3, CalmStep
<1> QED BY <1>1, <1>6, <1>7

LEMMA TragicEventForced ==
  ASSUME MSInv, ForcedInv, NEW m \in DOMAIN iw.merges \cap DOMAIN at, TragicEvent(m)
  PROVE  ForcedInv'
<1>1. /\ at[m] = "tragic" /\ at' = [at EXCEPT ![m] = "shouldClose"]
      /\ iw' = [iw EXCEPT !.tragedy = TRUE] /\ UNCHANGED left
  BY DEF TragicEvent
<1>2. IsWriter(iw) /\ Owned(iw) /\ m \in DOMAIN at /\ m \notin Threads
  BY ForcedAt
<1>3. iw' = [infos |-> iw.infos, merges |-> iw.merges, pending |-> iw.pending,
             running |-> iw.running, merging |-> iw.merging, toMerge |-> iw.toMerge,
             mergeGen |-> iw.mergeGen, exceptions |-> iw.exceptions, stop |-> iw.stop,
             closing |-> iw.closing, closed |-> iw.closed, tragedy |-> TRUE]
  BY <1>1, <1>2 DEF IsWriter
<1>4. /\ iw'.infos = iw.infos /\ iw'.toMerge = iw.toMerge /\ iw'.merges = iw.merges
      /\ iw'.pending = iw.pending /\ iw'.running = iw.running /\ iw'.stop = iw.stop
      /\ iw'.tragedy /\ iw'.closed = iw.closed
  BY <1>3
<1>5. Calm(iw, iw')
  BY <1>2, <1>4, CalmFields
<1>6. ForcedMergesLeft(iw) => ForcedMergesLeft(iw')
  BY <1>4, <1>5, SameLeft DEF Calm
<1>7. "shouldClose" \notin Early \cup Halted /\ at[m] # "proposeForced"
  BY <1>1 DEF Early, Halted
<1> QED BY <1>1, <1>2, <1>4, <1>5, <1>6, <1>7, CalmStep

\* shouldClose only sets a flag.
LEMMA ClosingForced ==
  ASSUME MSInv, ForcedInv, NEW a \in DOMAIN at, NEW q, at' = [at EXCEPT ![a] = q],
         iw' = [iw EXCEPT !.closing = @ \/ ~iw.closed], UNCHANGED left,
         at[a] = "shouldClose", q \in {"exit", "lock", "return", "flush"}
  PROVE  ForcedInv'
<1>1. IsWriter(iw) /\ Owned(iw)
  BY ForcedAt
<1> DEFINE c == iw.closing \/ ~iw.closed
<1>2. iw' = [iw EXCEPT !.closing = c]
  OBVIOUS
<1> HIDE DEF c
<1>3. iw' = [infos |-> iw.infos, merges |-> iw.merges, pending |-> iw.pending,
             running |-> iw.running, merging |-> iw.merging, toMerge |-> iw.toMerge,
             mergeGen |-> iw.mergeGen, exceptions |-> iw.exceptions, stop |-> iw.stop,
             closing |-> c, closed |-> iw.closed, tragedy |-> iw.tragedy]
  BY <1>1, <1>2 DEF IsWriter
<1>4. /\ iw'.infos = iw.infos /\ iw'.toMerge = iw.toMerge /\ iw'.merges = iw.merges
      /\ iw'.pending = iw.pending /\ iw'.running = iw.running /\ iw'.stop = iw.stop
      /\ iw'.tragedy = iw.tragedy /\ iw'.closed = iw.closed
  BY <1>3
<1>5. Calm(iw, iw')
  BY <1>1, <1>4, CalmFields
<1>6. q \notin Early \cup Halted /\ at[a] \notin Failing \cup {"proposeForced"}
  BY DEF Early, Halted, Failing
<1> QED BY <1>4, <1>5, <1>6, PlainForced

LEMMA ShouldCloseForced ==
  ASSUME MSInv, ForcedInv, NEW m \in DOMAIN iw.merges \cap DOMAIN at, ShouldClose(m)
  PROVE  ForcedInv'
<1> DEFINE q == IF iw.closing \/ iw.closed THEN "exit" ELSE "lock"
<1>1. /\ at[m] = "shouldClose" /\ at' = [at EXCEPT ![m] = q]
      /\ iw' = [iw EXCEPT !.closing = @ \/ ~iw.closed] /\ UNCHANGED left
  BY DEF ShouldClose
<1>2. q \in {"exit", "lock"}
  BY Zenon
<1> HIDE DEF q
<1> QED BY <1>1, <1>2, ClosingForced

LEMMA WaitToCloseForced ==
  ASSUME MSInv, ForcedInv, NEW t \in Threads, WaitToClose(t)
  PROVE  ForcedInv'
<1> DEFINE q == IF iw.closed THEN "return" ELSE IF call[t] = "close" THEN "flush" ELSE "lock"
<1>1. /\ at[t] = "shouldClose" /\ at' = [at EXCEPT ![t] = q]
      /\ iw' = [iw EXCEPT !.closing = @ \/ ~iw.closed] /\ UNCHANGED left
  BY DEF WaitToClose
<1>2. q \in {"return", "flush", "lock"}
  BY Zenon
<1> HIDE DEF q
<1>3. t \in DOMAIN at
  BY ForcedAt
<1> QED BY <1>1, <1>2, <1>3, ClosingForced

\* Thread a moves, and nothing else.
LEMMA MoveForced ==
  ASSUME MSInv, ForcedInv, NEW a \in DOMAIN at, NEW q, at' = [at EXCEPT ![a] = q],
         iw' = iw, left'["docs"] = left["docs"],
         at[a] \notin Failing \cup {"proposeForced"}, q \notin Early \cup Halted
  PROVE  ForcedInv'
<1>1. Calm(iw, iw')
  BY ForcedAt, CalmSelf
<1> QED BY <1>1, PlainForced

LEMMA ExitForced ==
  ASSUME MSInv, ForcedInv, NEW m \in DOMAIN iw.merges \cap DOMAIN at, Exit(m)
  PROVE  ForcedInv'
BY MoveForced DEF Exit, Early, Halted, Failing

LEMMA MergesAbortedForced ==
  ASSUME MSInv, ForcedInv, NEW a \in DOMAIN at, MergesAborted(a)
  PROVE  ForcedInv'
BY MoveForced DEF MergesAborted, Early, Halted, Failing

LEMMA SyncMergeThreadsForced ==
  ASSUME MSInv, ForcedInv, NEW a \in DOMAIN at, SyncMergeThreads(a)
  PROVE  ForcedInv'
BY MoveForced DEF SyncMergeThreads, Early, Halted, Failing

LEMMA LockCommitForced ==
  ASSUME MSInv, ForcedInv, NEW t \in Threads, LockCommit(t)
  PROVE  ForcedInv'
<1>1. PICK q \in {"return", "flush"} : at' = [at EXCEPT ![t] = q]
  BY DEF LockCommit
<1>2. at[t] = "lockCommit" /\ UNCHANGED <<iw, left>> /\ t \in DOMAIN at
  BY ForcedAt DEF LockCommit
<1> QED BY <1>1, <1>2, MoveForced DEF Early, Halted, Failing

LEMMA AwaitForcedForced ==
  ASSUME MSInv, ForcedInv, NEW t \in Threads, AwaitForced(t)
  PROVE  ForcedInv'
<1>1. PICK q \in {"return", "done"} : at' = [at EXCEPT ![t] = q]
  BY DEF AwaitForced
<1>2. at[t] = "awaitForced" /\ UNCHANGED <<iw, left>> /\ t \in DOMAIN at
  BY ForcedAt DEF AwaitForced
<1> QED BY <1>1, <1>2, MoveForced DEF Early, Halted, Failing

LEMMA AwaitMergesForced ==
  ASSUME MSInv, ForcedInv, NEW t \in Threads, AwaitMerges(t)
  PROVE  ForcedInv'
<1>1. t \in DOMAIN at
  BY ForcedAt
<1> QED BY <1>1, MoveForced DEF AwaitMerges, Early, Halted, Failing

LEMMA ReturnForced ==
  ASSUME MSInv, ForcedInv, NEW t \in Threads, Return(t)
  PROVE  ForcedInv'
<1>1. t \in DOMAIN at
  BY ForcedAt
<1> QED BY <1>1, MoveForced DEF Return, Early, Halted, Failing

LEMMA BeginForced ==
  ASSUME MSInv, ForcedInv, NEW t \in Threads, Begin(t)
  PROVE  ForcedInv'
<1>1. PICK k \in Calls :
        /\ Spend(k)
        /\ at' = [at EXCEPT ![t] = CASE k \in {"flush", "forceMerge"} -> "flush"
                                     [] k = "commit" -> "lockCommit"
                                     [] k = "deleteAll" -> "deleteAll"
                                     [] k \in {"rollback", "close"} -> "shouldClose"]
  BY DEF Begin
<1> DEFINE q == CASE k \in {"flush", "forceMerge"} -> "flush"
                  [] k = "commit" -> "lockCommit"
                  [] k = "deleteAll" -> "deleteAll"
                  [] k \in {"rollback", "close"} -> "shouldClose"
<1>2. q \in {"flush", "lockCommit", "deleteAll", "shouldClose"}
  BY DEF Calls
<1>3. at' = [at EXCEPT ![t] = q]
  BY <1>1
<1> HIDE DEF q
<1>4. at[t] = "idle" /\ UNCHANGED iw /\ t \in DOMAIN at
  BY ForcedAt DEF Begin
<1>5. left'["docs"] = left["docs"]
  <2>1. k \in Kinds \ {"docs"}
    BY DEF Kinds, Calls
  <2> QED BY <1>1, <2>1, SpendDocs
<1> QED BY <1>2, <1>3, <1>4, <1>5, MoveForced DEF Early, Halted, Failing

LEMMA SetClosedForced ==
  ASSUME MSInv, ForcedInv, NEW a \in DOMAIN at, SetClosed(a)
  PROVE  ForcedInv'
<1> DEFINE q == IF a \in Threads THEN "return" ELSE "exit"
<1>1. /\ at[a] = "setClosed" /\ at' = [at EXCEPT ![a] = q]
      /\ iw' = [iw EXCEPT !.closed = TRUE, !.closing = FALSE] /\ UNCHANGED left
  BY DEF SetClosed
<1>2. q \in {"return", "exit"}
  BY Zenon
<1> HIDE DEF q
<1>3. IsWriter(iw) /\ Owned(iw)
  BY ForcedAt
<1>4. iw' = [infos |-> iw.infos, merges |-> iw.merges, pending |-> iw.pending,
             running |-> iw.running, merging |-> iw.merging, toMerge |-> iw.toMerge,
             mergeGen |-> iw.mergeGen, exceptions |-> iw.exceptions, stop |-> iw.stop,
             closing |-> FALSE, closed |-> TRUE, tragedy |-> iw.tragedy]
  BY <1>1, <1>3 DEF IsWriter
<1>5. /\ iw'.infos = iw.infos /\ iw'.toMerge = iw.toMerge /\ iw'.merges = iw.merges
      /\ iw'.pending = iw.pending /\ iw'.running = iw.running /\ iw'.stop = iw.stop
      /\ iw'.tragedy = iw.tragedy /\ iw'.closed
  BY <1>4
<1>6. Calm(iw, iw')
  BY <1>3, <1>5, CalmFields
<1> QED BY <1>1, <1>2, <1>5, <1>6, PlainForced DEF Early, Halted, Failing

LEMMA LockCommitsForced ==
  ASSUME MSInv, ForcedInv, NEW a \in DOMAIN at, LockCommits(a)
  PROVE  ForcedInv'
<1>1. /\ at[a] = "lock" /\ at' = [at EXCEPT ![a] = "awaitRunning"]
      /\ iw' = AbortMerges(iw) /\ UNCHANGED left
  BY DEF LockCommits
<1>2. Calm(iw, iw') /\ iw'.stop /\ iw'.running = iw.running
  BY <1>1, ForcedAt, AbortCalm
<1> QED BY <1>1, <1>2, PlainForced DEF Early, Halted, Failing

LEMMA DeleteAllForced ==
  ASSUME MSInv, ForcedInv, NEW t \in Threads, DeleteAll(t)
  PROVE  ForcedInv'
<1>1. /\ at[t] = "deleteAll" /\ at' = [at EXCEPT ![t] = "awaitAborted"]
      /\ iw' = AbortMerges(iw) /\ UNCHANGED left
  BY DEF DeleteAll
<1>2. Calm(iw, iw') /\ iw'.stop /\ iw'.running = iw.running /\ t \in DOMAIN at
  BY <1>1, ForcedAt, AbortCalm
<1> QED BY <1>1, <1>2, PlainForced DEF Early, Halted, Failing

------------------------------------------------------------------------------
\* Steps after which something else is left of a forced merge

\* What excuses a forced merge still does after a step of a thread that does not.
LEMMA ExcusedKept ==
  ASSUME MSInv, NEW a \in DOMAIN at, NEW q, at' = [at EXCEPT ![a] = q],
         at[a] \notin Failing \cup {"proposeForced"}, DOMAIN iw.merges \subseteq DOMAIN iw'.merges,
         iw.stop => iw'.stop, iw.tragedy => iw'.tragedy, iw.closed => iw'.closed,
         Excused(iw, at)
  PROVE  Excused(iw', at')
<1>1. /\ DOMAIN at' = DOMAIN at /\ \A b \in DOMAIN at : b # a => at'[b] = at[b]
      /\ Threads \subseteq DOMAIN at
  BY OneMoves
<1>2. ASSUME NEW t \in Threads, at[t] = "proposeForced"
      PROVE  Excused(iw', at')
  BY <1>1, <1>2 DEF Excused
<1>3. ASSUME NEW m \in DOMAIN iw.merges \cap DOMAIN at, at[m] \in Failing
      PROVE  Excused(iw', at')
  BY <1>1, <1>3 DEF Excused
<1> QED BY <1>2, <1>3 DEF Excused

LEMMA LaunchForced ==
  ASSUME MSInv, ForcedInv, NEW a \in DOMAIN at, Launch(a)
  PROVE  ForcedInv'
<1> DEFINE m == Head(iw.pending)
           w == GetNextMerge(iw)
           u == MergeFinish(w, m)
<1>1. /\ m \in Range(iw.pending) /\ m \in DOMAIN iw.merges /\ m \notin DOMAIN at
      /\ Shape(w) /\ Owned(w) /\ Same(iw, w) /\ w.merges = iw.merges
      /\ w.running = iw.running \cup {m} /\ Range(w.pending) = Range(iw.pending) \ {m}
  BY LaunchPrepared
<1>2. Owned(iw) /\ Threads \subseteq DOMAIN at /\ left["docs"] \in Nat
  BY ForcedAt
<1>3. Tracked(iw, at, left) /\ Pursued(iw, at)
  BY DEF ForcedInv
<1>4. Calm(iw, w)
  <2> HIDE DEF w, m
  <2>1. iw.running \cup Range(iw.pending) \subseteq DOMAIN iw.merges
    BY <1>2 DEF Owned
  <2> QED BY <1>1, <2>1 DEF Calm, Same
<1>5. CASE iw' = w /\ at' = With(at, m, "init") /\ UNCHANGED left
  <2> HIDE DEF w, m
  <2>1. /\ DOMAIN at' = DOMAIN at \cup {m} /\ at'[m] = "init"
        /\ \A b \in DOMAIN at : at'[b] = at[b]
    BY <1>1, <1>5 DEF With
  <2>2. \A n \in DOMAIN iw.merges : Uncommitted(n, at') => Uncommitted(n, at)
    BY <1>1, <2>1 DEF Uncommitted
  <2>3. \A n \in DOMAIN iw.merges \cap DOMAIN at' :
          at'[n] \in Halted => n \in w.running /\ w.merges[n].aborted
    BY <1>1, <1>3, <2>1 DEF Halted, Tracked, Aborting
  <2>4. left'["docs"] \in Nat /\ left'["docs"] <= left["docs"]
    BY <1>2, <1>5
  <2>5. Tracked(w, at', left')
    BY <1>3, <1>4, <2>2, <2>3, <2>4, CalmTracked
  <2>6. Excused(iw, at) => Excused(w, at')
    BY <1>1, <1>2, <2>1 DEF Excused, Same
  <2>7. ForcedMergesLeft(iw) => ForcedMergesLeft(w)
    <3>1. w.running \cup Range(w.pending) = iw.running \cup Range(iw.pending)
      BY <1>1
    <3> QED BY <1>1, <3>1 DEF ForcedMergesLeft, Forced
  <2>8. Wanted(w) = Wanted(iw)
    BY <1>1 DEF Wanted, Same
  <2> QED BY <1>3, <1>5, <2>5, <2>6, <2>7, <2>8 DEF ForcedInv, Pursued
<1>6. CASE /\ iw' = u /\ Spend("launchFails")
           /\ at' = [b \in DOMAIN at \cup {m} |->
                       IF b = a THEN Throws(a) ELSE IF b = m THEN "unborn" ELSE at[b]]
  <2>1. Calm(w, u) /\ u.running = w.running \ {m}
    <3> HIDE DEF w, m
    <3> QED BY <1>1, FinishCalm
  <2>2. Calm(iw, u)
    <3> HIDE DEF w, m, u
    <3> QED BY <1>4, <2>1, CalmTwice
  <2> HIDE DEF w, m, u
  <2>3. Throws(a) \in {"exit", "lock", "return"}
    BY DEF Throws
  <2>4. /\ DOMAIN at' = DOMAIN at \cup {m} /\ at'[m] = "unborn" /\ at'[a] = Throws(a)
        /\ \A b \in DOMAIN at : b # a => at'[b] = at[b]
    BY <1>1, <1>6
  <2>5. \A n \in DOMAIN iw.merges : Uncommitted(n, at') => Uncommitted(n, at)
    BY <1>1, <2>3, <2>4 DEF Uncommitted, Early
  <2>6. ASSUME NEW n \in DOMAIN iw.merges \cap DOMAIN at', at'[n] \in Halted
        PROVE  n \in u.running /\ u.merges[n].aborted
    <3>1. n # m /\ n # a /\ n \in DOMAIN at /\ at[n] \in Halted
      BY <2>3, <2>4, <2>6 DEF Halted
    <3>2. n \in iw.running /\ iw.merges[n].aborted
      BY <1>3, <2>6, <3>1 DEF Tracked, Aborting
    <3> QED BY <1>1, <2>1, <2>2, <3>1, <3>2 DEF Calm
  <2>7. left'["docs"] \in Nat /\ left'["docs"] <= left["docs"]
    BY <1>2, <1>6, SpendDocs DEF Kinds
  <2>8. Tracked(u, at', left')
    BY <1>3, <2>2, <2>5, <2>6, <2>7, CalmTracked
  <2>9. Excused(u, at')
    <3>1. m \in DOMAIN u.merges
      BY <1>1, <2>2 DEF Calm
    <3> QED BY <2>4, <3>1 DEF Excused, Failing
  <2> QED BY <1>6, <2>8, <2>9 DEF ForcedInv, Pursued
<1> QED BY <1>5, <1>6 DEF Launch

\* A merge is committed: what it wrote is wanted if it is a forced one.
LEMMA CommittedTracked ==
  ASSUME MSInv, ForcedInv, NEW m \in DOMAIN iw.merges \cap DOMAIN at, at[m] = "written",
         at' = [at EXCEPT ![m] = "merged"], NEW w,
         w.merges = iw.merges, w.running = iw.running, w.pending = iw.pending,
         w.stop = iw.stop, DOMAIN w.infos = (DOMAIN iw.infos \ iw.merges[m].segs) \cup {-m},
         w.toMerge = Cascade(iw, m, -m)
  PROVE  Tracked(w, at', left)
<1>1. /\ DOMAIN at' = DOMAIN at /\ at'[m] = "merged"
      /\ \A b \in DOMAIN at : b # m => at'[b] = at[b]
  BY OneMoves
<1>2. Tracked(iw, at, left) /\ left["docs"] \in Nat /\ Owned(iw)
  BY ForcedAt DEF ForcedInv
<1>3. DOMAIN iw.merges \subseteq Nat \ {0}
  BY ForcedAt, MergesAreNumbers
<1>4. /\ -m \notin DOMAIN iw.infos /\ \A n \in DOMAIN iw.merges : -m \notin iw.merges[n].segs
      /\ iw.merges[m].forced \/ -m \notin iw.toMerge
  BY <1>2 DEF Tracked, Unwritten, Uncommitted, Early
<1>5. /\ w.toMerge \subseteq iw.toMerge \cup {-m} /\ iw.toMerge \subseteq w.toMerge
      /\ iw.merges[m].forced => -m \in w.toMerge
      /\ ~iw.merges[m].forced => w.toMerge = iw.toMerge
  BY DEF Cascade, Forced
<1>6. Fresh(w, left)
  <2>1. Names(w) \subseteq Names(iw) \cup {-m}
    BY <1>5 DEF Names
  <2>2. -m \in Int /\ (-m < 0 => -(-m) \in DOMAIN iw.merges) /\ -m <= 1000
    BY <1>3
  <2>3. \A s \in Names(iw) : /\ s \in Int /\ (s < 0 => -s \in DOMAIN iw.merges)
                             /\ s <= 1000 \/ s > 1000 + left["docs"]
    BY <1>2 DEF Tracked, Fresh
  <2>4. \A s \in Names(w) : s = -m \/ s \in Names(iw)
    BY <2>1
  <2> QED BY <1>2, <2>2, <2>3, <2>4 DEF Fresh
<1>7. Unwritten(w, at')
  <2>1. ASSUME NEW n \in DOMAIN iw.merges, Uncommitted(n, at')
        PROVE  /\ -n \notin DOMAIN w.infos
               /\ \A k \in DOMAIN iw.merges : -n \notin iw.merges[k].segs
               /\ iw.merges[n].forced \/ -n \notin w.toMerge
    <3>1. n # m
      BY <1>1, <2>1 DEF Uncommitted, Early
    <3>2. Uncommitted(n, at)
      BY <1>1, <2>1, <3>1 DEF Uncommitted
    <3>3. -n # -m
      BY <1>3, <2>1, <3>1
    <3>4. /\ -n \notin DOMAIN iw.infos
          /\ \A k \in DOMAIN iw.merges : -n \notin iw.merges[k].segs
          /\ iw.merges[n].forced \/ -n \notin iw.toMerge
      BY <1>2, <2>1, <3>2 DEF Tracked, Unwritten
    <3> QED BY <1>5, <3>3, <3>4
  <2> QED BY <2>1 DEF Unwritten
<1>8. Marked(w)
  <2>1. ASSUME NEW n \in DOMAIN iw.merges, iw.merges[n].registered, ~iw.merges[n].forced
        PROVE  iw.merges[n].segs \cap w.toMerge = {}
    <3>1. iw.merges[n].segs \cap iw.toMerge = {}
      BY <1>2, <2>1 DEF Tracked, Marked
    <3> QED BY <1>4, <1>5, <2>1, <3>1
  <2>2. ASSUME NEW n \in DOMAIN iw.merges, iw.merges[n].forced, -n \in DOMAIN w.infos
        PROVE  -n \in w.toMerge
    <3>1. CASE n = m
      BY <1>5, <2>2, <3>1
    <3>2. CASE n # m
      <4>1. -n # -m
        BY <1>3, <2>2, <3>2
      <4>2. -n \in iw.toMerge
        BY <1>2, <2>2, <4>1 DEF Tracked, Marked
      <4> QED BY <1>5, <4>2
    <3> QED BY <3>1, <3>2
  <2> QED BY <2>1, <2>2 DEF Marked
<1>9. Aborting(w, at')
  <2>1. \A n \in w.running \cup Range(w.pending) : w.merges[n].aborted => w.stop
    BY <1>2 DEF Tracked, Aborting
  <2>2. \A n \in DOMAIN w.merges \cap DOMAIN at' :
          at'[n] \in Halted => n \in w.running /\ w.merges[n].aborted
    BY <1>1, <1>2 DEF Tracked, Aborting, Halted
  <2> QED BY <2>1, <2>2 DEF Aborting
<1> QED BY <1>6, <1>7, <1>8, <1>9 DEF Tracked

LEMMA CommitMergeForced ==
  ASSUME MSInv, ForcedInv, NEW m \in DOMAIN iw.merges \cap DOMAIN at, CommitMerge(m)
  PROVE  ForcedInv'
<1>1. at[m] = "written" /\ UNCHANGED left
  BY DEF CommitMerge
<1>2. IsWriter(iw) /\ Owned(iw) /\ m \notin Threads /\ m \in DOMAIN at /\ m \in iw.running
  BY <1>1, ForcedAt DEF MSInv, Fine, Placed, Held
<1>3. at[m] \notin Failing \cup {"proposeForced"}
  BY <1>1 DEF Failing
<1>4. Tracked(iw, at, left) /\ Pursued(iw, at)
  BY DEF ForcedInv
<1>5. CASE iw' = iw /\ (at' = [at EXCEPT ![m] = "throws"] \/ at' = [at EXCEPT ![m] = "merged"])
  <2>1. PICK q \in {"throws", "merged"} : at' = [at EXCEPT ![m] = q]
    BY <1>5
  <2>2. q \notin Early \cup Halted
    BY <2>1 DEF Early, Halted
  <2> QED BY <1>1, <1>3, <1>5, <2>1, <2>2, MoveForced
<1>6. CASE /\ at' = [at EXCEPT ![m] = "merged"]
           /\ iw' = [iw EXCEPT
                       !.infos = With(Restrict(@, DOMAIN @ \ iw.merges[m].segs),
                                      -m, iw.merges[m].size),
                       !.toMerge = Cascade(iw, m, -m)]
  <2> DEFINE merged == With(Restrict(iw.infos, DOMAIN iw.infos \ iw.merges[m].segs),
                            -m, iw.merges[m].size)
             cascade == Cascade(iw, m, -m)
  <2>1. DOMAIN merged = (DOMAIN iw.infos \ iw.merges[m].segs) \cup {-m}
    BY DEF With, Restrict
  <2>2. iw' = [iw EXCEPT !.infos = merged, !.toMerge = cascade]
    BY <1>6
  <2> HIDE DEF merged, cascade
  <2>3. iw' = [infos |-> merged, merges |-> iw.merges, pending |-> iw.pending,
               running |-> iw.running, merging |-> iw.merging, toMerge |-> cascade,
               mergeGen |-> iw.mergeGen, exceptions |-> iw.exceptions, stop |-> iw.stop,
               closing |-> iw.closing, closed |-> iw.closed, tragedy |-> iw.tragedy]
    BY <1>2, <2>2 DEF IsWriter
  <2>4. /\ iw'.merges = iw.merges /\ iw'.pending = iw.pending /\ iw'.running = iw.running
        /\ iw'.stop = iw.stop /\ iw'.tragedy = iw.tragedy /\ iw'.closed = iw.closed
        /\ iw'.infos = merged /\ iw'.toMerge = cascade
    BY <2>3
  <2>5. Tracked(iw', at', left')
    <3>1. /\ DOMAIN iw'.infos = (DOMAIN iw.infos \ iw.merges[m].segs) \cup {-m}
          /\ iw'.toMerge = Cascade(iw, m, -m)
      BY <2>1, <2>4 DEF cascade
    <3>2. Tracked(iw', at', left)
      BY <1>1, <1>6, <2>4, <3>1, CommittedTracked
    <3> QED BY <1>1, <3>2
  <2>6. Excused(iw, at) => Excused(iw', at')
    BY <1>2, <1>3, <1>6, <2>4, ExcusedKept
  <2>7. ForcedMergesLeft(iw) => ForcedMergesLeft(iw')
    BY <2>4 DEF ForcedMergesLeft, Forced
  <2>8. CASE iw.merges[m].forced
    <3>1. ForcedMergesLeft(iw')
      BY <1>2, <2>4, <2>8 DEF ForcedMergesLeft, Forced
    <3> QED BY <2>5, <3>1 DEF ForcedInv, Pursued
  <2>9. CASE ~iw.merges[m].forced
    <3>1. iw'.toMerge = iw.toMerge
      BY <2>4, <2>9 DEF cascade, Cascade, Forced
    <3>2. -m \notin iw.toMerge
      BY <1>1, <1>4, <2>9 DEF Tracked, Unwritten, Uncommitted, Early
    <3>3. iw.merges[m].registered
      BY <1>2 DEF Owned
    <3>4. iw.merges[m].segs \cap iw.toMerge = {}
      BY <1>4, <2>9, <3>3 DEF Tracked, Marked
    <3>5. Wanted(iw') = Wanted(iw)
      BY <2>1, <2>4, <3>1, <3>2, <3>4 DEF Wanted
    <3> QED BY <1>4, <2>5, <2>6, <2>7, <3>5 DEF ForcedInv, Pursued
  <2> QED BY <2>8, <2>9
<1> QED BY <1>5, <1>6 DEF CommitMerge

\* The merge has ended, and more merges may have been proposed in its stead.
LEMMA FinishMergeForced ==
  ASSUME MSInv, ForcedInv, NEW m \in DOMAIN iw.merges \cap DOMAIN at, FinishMerge(m)
  PROVE  ForcedInv'
<1> DEFINE w == MergeFinish(iw, m)
<1>1. /\ at[m] \in {"failed", "aborted", "merged"} /\ UNCHANGED left
      /\ at' = [at EXCEPT ![m] = IF at[m] = "failed" THEN "tragic" ELSE "merge"]
      /\ iw' = w \/ iw' \in UpdatePendingMerges(w, Forced(w, m))
  BY DEF FinishMerge
<1>2. /\ Shape(iw) /\ Owned(iw) /\ m \in DOMAIN at /\ m \notin Threads
      /\ m \notin Range(iw.pending) /\ left["docs"] \in Nat
  BY ForcedAt DEF MSInv, Fine, Placed
<1>3. PICK q : /\ at' = [at EXCEPT ![m] = q] /\ q \in {"tragic", "merge"}
               /\ at[m] = "failed" => q = "tragic"
  BY <1>1
<1>4. /\ DOMAIN at' = DOMAIN at /\ at'[m] = q
      /\ \A b \in DOMAIN at : b # m => at'[b] = at[b]
  BY <1>3, OneMoves
<1>5. /\ Calm(iw, w) /\ w.running = iw.running \ {m} /\ w.pending = iw.pending
      /\ \A n \in DOMAIN iw.merges : w.merges[n].aborted = iw.merges[n].aborted
  BY <1>2, FinishCalm
<1>6. Shape(w) /\ Owned(w)
  <2>1. Fine(iw, at, call) /\ q \in MergeAt \ Held
    BY <1>3 DEF MSInv, MergeAt, Held
  <2>2. Fine(w, [at EXCEPT ![m] = q], call)
    BY <2>1, FinishFine
  <2> QED BY <2>2 DEF Fine
<1>7. \/ iw' = w /\ ~(at[m] = "merged" /\ ~w.merges[m].aborted /\ Forced(w, m))
      \/ iw' \in UpdatePendingMerges(w, Forced(w, m))
  BY DEF FinishMerge
<1> HIDE DEF w
<1>8. Tracked(iw, at, left) /\ Pursued(iw, at)
  BY DEF ForcedInv
<1>9. Tracked(w, at', left)
  <2>1. \A n \in DOMAIN iw.merges : Uncommitted(n, at') => Uncommitted(n, at)
    BY <1>3, <1>4 DEF Uncommitted, Early
  <2>2. ASSUME NEW n \in DOMAIN iw.merges \cap DOMAIN at', at'[n] \in Halted
        PROVE  n \in w.running /\ w.merges[n].aborted
    <3>1. n # m /\ at[n] \in Halted /\ n \in DOMAIN at
      BY <1>3, <1>4, <2>2 DEF Halted
    <3>2. n \in iw.running /\ iw.merges[n].aborted
      BY <1>8, <2>2, <3>1 DEF Tracked, Aborting
    <3> QED BY <1>5, <3>1, <3>2
  <2>3. left["docs"] <= left["docs"]
    BY <1>2
  <2> QED BY <1>2, <1>5, <1>8, <2>1, <2>2, <2>3, CalmTracked
<1>10. Grown(w, iw') /\ (w.stop \/ w.tragedy => iw' = w)
  BY <1>1, <1>6, UpdateGrows, GrownAtFirst
<1>11. MSInv'
  BY FinishMergeStep
<1>12. Tracked(iw', at', left)
  <2>1. Range(iw'.pending) \cap DOMAIN at' = {}
    BY <1>11 DEF MSInv, Fine, Placed
  <2>2. \A n \in DOMAIN iw'.merges \ DOMAIN w.merges : n \notin DOMAIN at'
    BY <1>10, <2>1 DEF Grown
  <2> QED BY <1>6, <1>9, <1>10, <2>2, GrownTracked
<1>13. /\ iw.stop => iw'.stop
       /\ iw.tragedy => iw'.tragedy
       /\ iw.closed => iw'.closed
       /\ w.stop => iw'.stop
       /\ w.tragedy => iw'.tragedy
       /\ DOMAIN iw.merges \subseteq DOMAIN iw'.merges
  BY <1>5, <1>10 DEF Calm, Grown, Same
<1>14. Excused(iw, at) => Excused(iw', at')
  <2>1. CASE at[m] = "failed"
    <3>1. at'[m] \in Failing
      BY <1>3, <1>4, <2>1 DEF Failing
    <3> QED BY <1>4, <1>13, <3>1 DEF Excused
  <2>2. CASE at[m] # "failed"
    <3>1. at[m] \notin Failing \cup {"proposeForced"}
      BY <1>1, <2>2 DEF Failing
    <3> QED BY <1>2, <1>3, <1>13, <3>1, ExcusedKept
  <2> QED BY <2>1, <2>2
<1>15. Wanted(iw') = Wanted(iw)
  <2>1. Wanted(w) = Wanted(iw)
    BY <1>5 DEF Calm, Wanted
  <2> QED BY <1>6, <1>10, <2>1, GrownPursued
<1>16. Pursued(iw', at')
  <2>1. CASE at[m] = "failed"
    <3>1. at'[m] \in Failing
      BY <1>3, <1>4, <2>1 DEF Failing
    <3> QED BY <1>4, <1>13, <3>1 DEF Excused, Pursued
  <2>2. CASE iw.merges[m].aborted /\ m \in iw.running
    <3>1. iw.stop
      BY <1>8, <2>2 DEF Tracked, Aborting
    <3> QED BY <1>13, <3>1 DEF Excused, Pursued
  <2>3. CASE at[m] = "merged" /\ ~iw.merges[m].aborted /\ Forced(iw, m)
    <3>1. ~w.merges[m].aborted /\ Forced(w, m)
      BY <1>5, <2>3 DEF Calm, Forced
    <3>2. iw' \in UpdatePendingMerges(w, Forced(w, m))
      BY <1>7, <2>3, <3>1
    <3>3. CASE w.stop \/ w.tragedy
      BY <1>13, <3>3 DEF Excused, Pursued
    <3>4. CASE ~(w.stop \/ w.tragedy)
      <4>1. iw' \in UpdatePendingMerges(w, TRUE)
        BY <3>1, <3>2, <3>4 DEF UpdatePendingMerges
      <4>2. Marked(w)
        BY <1>9 DEF Tracked
      <4> QED BY <1>6, <3>4, <4>1, <4>2, UpdatePursues DEF Pursued
    <3> QED BY <3>3, <3>4
  <2>4. CASE ~Forced(iw, m)
    <3>1. ForcedMergesLeft(iw) => ForcedMergesLeft(w)
      <4>1. ASSUME NEW n \in iw.running \cup Range(iw.pending), Forced(iw, n)
            PROVE  ForcedMergesLeft(w)
        <5>1. n # m /\ n \in DOMAIN iw.merges
          BY <1>2, <2>4, <4>1 DEF Owned
        <5>2. Forced(w, n)
          BY <1>5, <4>1, <5>1 DEF Calm, Forced
        <5> QED BY <1>5, <4>1, <5>1, <5>2 DEF ForcedMergesLeft
      <4> QED BY <4>1 DEF ForcedMergesLeft
    <3>2. ForcedMergesLeft(w) => ForcedMergesLeft(iw')
      BY <1>6, <1>10, GrownPursued
    <3> QED BY <1>8, <1>14, <1>15, <3>1, <3>2 DEF Pursued
  <2>5. at[m] = "aborted" => iw.merges[m].aborted /\ m \in iw.running
    BY <1>8 DEF Tracked, Aborting, Halted
  <2>6. at[m] = "merged" => m \in iw.running
    BY DEF MSInv, Fine, Placed, Held
  <2> QED BY <1>1, <2>1, <2>2, <2>3, <2>4, <2>5, <2>6
<1> QED BY <1>1, <1>12, <1>16 DEF ForcedInv

LEMMA ProposeForced ==
  ASSUME MSInv, ForcedInv, NEW t \in Threads, Propose(t)
  PROVE  ForcedInv'
<1>1. /\ at[t] \in {"propose", "proposeForced"} /\ UNCHANGED left
      /\ iw.closed => iw' = iw
      /\ ~iw.closed => iw' \in UpdatePendingMerges(iw, at[t] = "proposeForced")
  BY DEF Propose
<1>2. PICK q : at' = [at EXCEPT ![t] = q] /\ q \in {Throws(t), "merge", "mergeForced"}
  BY DEF Propose
<1>3. /\ Shape(iw) /\ Owned(iw) /\ t \in DOMAIN at /\ left["docs"] \in Nat
      /\ DOMAIN iw.merges \cap Threads = {}
  BY ForcedAt
<1>4. /\ DOMAIN at' = DOMAIN at /\ at'[t] = q
      /\ \A b \in DOMAIN at : b # t => at'[b] = at[b]
  BY <1>2, <1>3, OneMoves
<1>5. Grown(iw, iw')
  BY <1>1, <1>3, UpdateGrows, GrownAtFirst
<1>6. Tracked(iw, at, left) /\ Pursued(iw, at)
  BY DEF ForcedInv
<1>7. Tracked(iw, at', left)
  <2>1. \A m \in DOMAIN iw.merges : Uncommitted(m, at') => Uncommitted(m, at)
    BY <1>3, <1>4 DEF Uncommitted
  <2>2. \A m \in DOMAIN iw.merges \cap DOMAIN at' :
          at'[m] \in Halted => m \in iw.running /\ iw.merges[m].aborted
    BY <1>3, <1>4, <1>6 DEF Tracked, Aborting
  <2>3. Calm(iw, iw) /\ left["docs"] <= left["docs"]
    BY <1>3, CalmSelf
  <2> QED BY <1>3, <1>6, <2>1, <2>2, <2>3, CalmTracked
<1>8. Tracked(iw', at', left)
  <2>1. MSInv'
    BY ProposeStep
  <2>2. Range(iw'.pending) \cap DOMAIN at' = {}
    BY <2>1 DEF MSInv, Fine, Placed
  <2>3. \A n \in DOMAIN iw'.merges \ DOMAIN iw.merges : n \notin DOMAIN at'
    BY <1>5, <2>2 DEF Grown
  <2> QED BY <1>3, <1>5, <1>7, <2>3, GrownTracked
<1>9. /\ iw'.stop = iw.stop /\ iw'.tragedy = iw.tragedy /\ iw'.closed = iw.closed
      /\ DOMAIN iw.merges \subseteq DOMAIN iw'.merges
  BY <1>5 DEF Grown, Same
<1>10. Pursued(iw', at')
  <2>1. CASE iw.closed \/ iw.stop \/ iw.tragedy
    BY <1>9, <2>1 DEF Excused, Pursued
  <2>2. CASE at[t] = "proposeForced" /\ ~(iw.closed \/ iw.stop \/ iw.tragedy)
    <3>1. iw' \in UpdatePendingMerges(iw, TRUE)
      BY <1>1, <2>2 DEF UpdatePendingMerges
    <3>2. Marked(iw)
      BY <1>6 DEF Tracked
    <3> QED BY <1>3, <2>2, <3>1, <3>2, UpdatePursues DEF Pursued
  <2>3. CASE at[t] = "propose"
    <3>1. Excused(iw, at) => Excused(iw', at')
      BY <1>2, <1>3, <1>9, <2>3, ExcusedKept DEF Failing
    <3>2. Wanted(iw') = Wanted(iw) /\ (ForcedMergesLeft(iw) => ForcedMergesLeft(iw'))
      BY <1>3, <1>5, GrownPursued
    <3> QED BY <1>6, <3>1, <3>2 DEF Pursued
  <2> QED BY <1>1, <2>1, <2>2, <2>3
<1> QED BY <1>1, <1>8, <1>10 DEF ForcedInv

\* Flushed segments are new, and so not wanted.
LEMMA FlushedTracked ==
  ASSUME MSInv, ForcedInv, NEW t \in Threads, NEW q, at' = [at EXCEPT ![t] = q],
         NEW n \in 0 .. left["docs"], SpendMany("docs", n), NEW w,
         w.merges = iw.merges, w.running = iw.running, w.pending = iw.pending,
         w.stop = iw.stop, w.toMerge = iw.toMerge,
         DOMAIN w.infos = DOMAIN iw.infos \cup (1001 + left'["docs"] .. 1000 + left["docs"])
  PROVE  Tracked(w, at', left') /\ Wanted(w) = Wanted(iw)
<1> DEFINE flushed == 1001 + left'["docs"] .. 1000 + left["docs"]
<1>1. /\ t \in DOMAIN at /\ Shape(iw) /\ Owned(iw) /\ left["docs"] \in Nat
      /\ DOMAIN iw.merges \cap Threads = {} /\ left \in [Kinds -> Nat]
  BY ForcedAt
<1>2. /\ DOMAIN at' = DOMAIN at
      /\ \A b \in DOMAIN at : b # t => at'[b] = at[b]
  BY <1>1, OneMoves
<1>3. DOMAIN iw.merges \subseteq Nat \ {0}
  BY <1>1, MergesAreNumbers
<1>4. left'["docs"] \in Nat /\ left'["docs"] <= left["docs"]
  <2>1. left' = [left EXCEPT !["docs"] = @ - n] /\ left["docs"] >= n
    BY DEF SpendMany
  <2>2. left'["docs"] = left["docs"] - n
    BY <1>1, <2>1 DEF Kinds
  <2> QED BY <1>1, <2>1, <2>2
<1>5. Tracked(iw, at, left)
  BY DEF ForcedInv
<1>6. \A s \in flushed : s \in Int /\ s > 0 /\ s > 1000 + left'["docs"] /\ s <= 1000 + left["docs"]
  BY <1>1, <1>4
<1>7. \A s \in Names(iw) : /\ s \in Int /\ (s < 0 => -s \in DOMAIN iw.merges)
                           /\ s <= 1000 \/ s > 1000 + left["docs"]
  BY <1>5 DEF Tracked, Fresh
<1>8. DOMAIN w.infos = DOMAIN iw.infos \cup flushed
  OBVIOUS
<1>9. \A s \in flushed : s \notin Names(iw)
  <2>1. \A s \in flushed : s > 1000 /\ ~(s > 1000 + left["docs"])
    BY <1>1, <1>4, <1>6
  <2> QED BY <1>1, <1>6, <1>7, <2>1
<1> HIDE DEF flushed
<1>10. Fresh(w, left')
  <2>1. ASSUME NEW s \in Names(w)
        PROVE  /\ s \in Int /\ (s < 0 => -s \in DOMAIN iw.merges)
               /\ s <= 1000 \/ s > 1000 + left'["docs"]
    <3>1. s \in Names(iw) \/ s \in flushed
      BY <1>8 DEF Names
    <3>2. CASE s \in Names(iw)
      BY <1>1, <1>4, <1>7, <3>2
    <3>3. CASE s \in flushed
      BY <1>6, <3>3
    <3> QED BY <3>1, <3>2, <3>3
  <2> QED BY <1>4, <2>1 DEF Fresh
<1>11. \A m \in DOMAIN iw.merges : -m \notin flushed
  <2>1. \A m \in DOMAIN iw.merges : -m < 0
    BY <1>3
  <2>2. \A s \in flushed : ~(s < 0)
    BY <1>6
  <2> QED BY <2>1, <2>2
<1>12. Unwritten(w, at')
  <2>1. \A m \in DOMAIN iw.merges : Uncommitted(m, at') => Uncommitted(m, at)
    BY <1>1, <1>2 DEF Uncommitted
  <2> QED BY <1>5, <1>8, <1>11, <2>1 DEF Tracked, Unwritten
<1>13. Marked(w)
  BY <1>5, <1>8, <1>11 DEF Tracked, Marked
<1>14. Aborting(w, at')
  <2>1. \A m \in w.running \cup Range(w.pending) : w.merges[m].aborted => w.stop
    BY <1>5 DEF Tracked, Aborting
  <2>2. \A m \in DOMAIN w.merges \cap DOMAIN at' :
          at'[m] \in Halted => m \in w.running /\ w.merges[m].aborted
    BY <1>1, <1>2, <1>5 DEF Tracked, Aborting
  <2> QED BY <2>1, <2>2 DEF Aborting
<1>15. Wanted(w) = Wanted(iw)
  BY <1>8, <1>9 DEF Wanted, Names
<1> QED BY <1>10, <1>12, <1>13, <1>14, <1>15 DEF Tracked

LEMMA FlushForced ==
  ASSUME MSInv, ForcedInv, NEW t \in Threads, Flush(t)
  PROVE  ForcedInv'
<1>1. PICK q : at' = [at EXCEPT ![t] = q] /\ q \in {Throws(t), "propose", AfterFlush(t)}
  BY DEF Flush
<1>2. at[t] = "flush" /\ t \in DOMAIN at /\ IsWriter(iw)
  BY ForcedAt DEF Flush
<1>3. q \notin Early \cup Halted
  <2>1. call[t] \in {"flush", "commit", "forceMerge", "close", "lastCommit"}
    BY <1>2 DEF MSInv, Fine, Calling, Fits
  <2> QED BY <1>1, <2>1 DEF Throws, AfterFlush, Early, Halted
<1>4. at[t] \notin Failing \cup {"proposeForced"}
  BY <1>2 DEF Failing
<1>5. CASE iw' = iw /\ UNCHANGED left
  BY <1>1, <1>2, <1>3, <1>4, <1>5, MoveForced
<1>6. CASE ~(iw.closed \/ iw.tragedy)
  <2>1. PICK n \in 0 .. left["docs"] :
          /\ SpendMany("docs", n)
          /\ iw' = [iw EXCEPT !.infos =
               [s \in DOMAIN @ \cup (1001 + left'["docs"] .. 1000 + left["docs"]) |->
                  IF s \in 1001 + left'["docs"] .. 1000 + left["docs"] THEN 1
                  ELSE iw.infos[s]]]
    BY <1>6 DEF Flush
  <2> DEFINE flushed == 1001 + left'["docs"] .. 1000 + left["docs"]
             index == [s \in DOMAIN iw.infos \cup flushed |->
                         IF s \in flushed THEN 1 ELSE iw.infos[s]]
  <2>2. iw' = [iw EXCEPT !.infos = index]
    BY <2>1
  <2>3. DOMAIN index = DOMAIN iw.infos \cup (1001 + left'["docs"] .. 1000 + left["docs"])
    OBVIOUS
  <2> HIDE DEF flushed, index
  <2>4. iw' = [infos |-> index, merges |-> iw.merges, pending |-> iw.pending,
               running |-> iw.running, merging |-> iw.merging, toMerge |-> iw.toMerge,
               mergeGen |-> iw.mergeGen, exceptions |-> iw.exceptions, stop |-> iw.stop,
               closing |-> iw.closing, closed |-> iw.closed, tragedy |-> iw.tragedy]
    BY <1>2, <2>2 DEF IsWriter
  <2>5. /\ iw'.merges = iw.merges /\ iw'.running = iw.running /\ iw'.pending = iw.pending
        /\ iw'.stop = iw.stop /\ iw'.tragedy = iw.tragedy /\ iw'.closed = iw.closed
        /\ iw'.toMerge = iw.toMerge /\ iw'.infos = index
    BY <2>4
  <2>6. Tracked(iw', at', left') /\ Wanted(iw') = Wanted(iw)
    <3>1. DOMAIN iw'.infos = DOMAIN iw.infos \cup (1001 + left'["docs"] .. 1000 + left["docs"])
      BY <2>3, <2>5
    <3>2. SpendMany("docs", n)
      BY <2>1
    <3> QED BY <1>1, <2>5, <3>1, <3>2, FlushedTracked
  <2>7. Excused(iw, at) => Excused(iw', at')
    BY <1>1, <1>2, <1>4, <2>5, ExcusedKept
  <2>8. ForcedMergesLeft(iw) => ForcedMergesLeft(iw')
    BY <2>5 DEF ForcedMergesLeft, Forced
  <2> QED BY <2>6, <2>7, <2>8 DEF ForcedInv, Pursued
<1>7. CASE iw.closed \/ iw.tragedy
  BY <1>5, <1>7 DEF Flush
<1> QED BY <1>6, <1>7

\* forceMerge wants every segment of now, and takes over every merge of now.
LEMMA MarkForcedForced ==
  ASSUME MSInv, ForcedInv, NEW t \in Threads, MarkForced(t)
  PROVE  ForcedInv'
<1> DEFINE marked == iw.running \cup Range(iw.pending)
           ms == [m \in DOMAIN iw.merges |->
                    [iw.merges[m] EXCEPT !.forced = @ \/ m \in marked]]
           segments == DOMAIN iw.infos \cup {-m : m \in {n \in marked : iw.merges[n].named}}
           gen == iw.mergeGen + 1
<1>1. /\ at[t] = "mark" /\ at' = [at EXCEPT ![t] = "proposeForced"] /\ UNCHANGED left
      /\ iw' = [iw EXCEPT !.exceptions = {}, !.mergeGen = gen, !.toMerge = segments,
                          !.merges = ms]
  BY DEF MarkForced
<1>2. /\ Shape(iw) /\ Owned(iw) /\ IsWriter(iw) /\ t \in DOMAIN at /\ left["docs"] \in Nat
      /\ DOMAIN iw.merges \cap Threads = {}
  BY ForcedAt
<1>3. DOMAIN iw.merges \subseteq Nat \ {0} /\ marked \subseteq DOMAIN iw.merges
  BY <1>2, MergesAreNumbers DEF Owned
<1>4. /\ DOMAIN at' = DOMAIN at /\ at'[t] = "proposeForced"
      /\ \A b \in DOMAIN at : b # t => at'[b] = at[b]
  BY <1>1, <1>2, OneMoves
<1>5. Tracked(iw, at, left)
  BY DEF ForcedInv
<1>6. DOMAIN ms = DOMAIN iw.merges
  OBVIOUS
<1>7. ASSUME NEW m \in DOMAIN iw.merges
      PROVE  /\ ms[m].segs = iw.merges[m].segs /\ ms[m].aborted = iw.merges[m].aborted
             /\ ms[m].registered = iw.merges[m].registered
             /\ m \in marked => ms[m].forced
  <2> DEFINE r == iw.merges[m]
             f == r.forced \/ m \in marked
  <2>1. ms[m] = [r EXCEPT !.forced = f]
    OBVIOUS
  <2>2. r = [segs |-> r.segs, registered |-> r.registered, aborted |-> r.aborted,
             forced |-> r.forced, gen |-> r.gen, named |-> r.named, size |-> r.size]
    BY <1>2 DEF Shape, IsMerge
  <2>3. m \in marked => f
    OBVIOUS
  <2> HIDE DEF ms, r, f, marked
  <2>4. ms[m] = [segs |-> r.segs, registered |-> r.registered, aborted |-> r.aborted,
                 forced |-> f, gen |-> r.gen, named |-> r.named, size |-> r.size]
    BY <2>1, <2>2
  <2>5. /\ ms[m].segs = r.segs /\ ms[m].aborted = r.aborted
        /\ ms[m].registered = r.registered /\ ms[m].forced = f
    BY <2>4
  <2> QED BY <2>3, <2>5 DEF r
<1> HIDE DEF ms, gen
<1>8. ASSUME NEW m \in DOMAIN iw.merges, -m \in segments
      PROVE  -m \in DOMAIN iw.infos \/ m \in marked
  <2>1. CASE -m \notin DOMAIN iw.infos
    <3>1. PICK n \in marked : -m = -n
      BY <1>8, <2>1
    <3>2. m = n
      BY <1>3, <3>1
    <3> QED BY <3>1, <3>2
  <2> QED BY <2>1
<1>9. \A s \in segments : s \in DOMAIN iw.infos \/ \E m \in DOMAIN iw.merges : s = -m
  BY <1>3
<1>10. DOMAIN iw.infos \subseteq segments
  OBVIOUS
<1> HIDE DEF segments
<1>11. iw' = [infos |-> iw.infos, merges |-> ms, pending |-> iw.pending,
              running |-> iw.running, merging |-> iw.merging, toMerge |-> segments,
              mergeGen |-> gen, exceptions |-> {}, stop |-> iw.stop,
              closing |-> iw.closing, closed |-> iw.closed, tragedy |-> iw.tragedy]
  BY <1>1, <1>2 DEF IsWriter
<1>12. /\ iw'.infos = iw.infos /\ iw'.merges = ms /\ iw'.toMerge = segments
       /\ iw'.running = iw.running /\ iw'.pending = iw.pending /\ iw'.stop = iw.stop
  BY <1>11
<1>13. Fresh(iw', left)
  <2>1. \A s \in Names(iw) : /\ s \in Int /\ (s < 0 => -s \in DOMAIN iw.merges)
                             /\ s <= 1000 \/ s > 1000 + left["docs"]
    BY <1>5 DEF Tracked, Fresh
  <2>2. \A m \in DOMAIN iw.merges : -m \in Int /\ -(-m) = m /\ -m <= 1000
    BY <1>3
  <2>3. ASSUME NEW s \in Names(iw')
        PROVE  s \in Names(iw) \/ \E m \in DOMAIN iw.merges : s = -m
    <3>1. CASE s \in segments
      BY <1>9, <3>1 DEF Names
    <3>2. CASE s \notin segments
      BY <1>6, <1>7, <1>12, <2>3, <3>2 DEF Names
    <3> QED BY <3>1, <3>2
  <2> QED BY <1>2, <1>6, <1>12, <2>1, <2>2, <2>3 DEF Fresh
<1>14. Unwritten(iw', at')
  <2>1. ASSUME NEW m \in DOMAIN iw.merges, Uncommitted(m, at')
        PROVE  /\ -m \notin DOMAIN iw.infos
               /\ \A n \in DOMAIN iw.merges : -m \notin iw.merges[n].segs
               /\ ms[m].forced \/ -m \notin segments
    <3>1. Uncommitted(m, at)
      BY <1>2, <1>4, <2>1 DEF Uncommitted
    <3> QED BY <1>5, <1>7, <1>8, <2>1, <3>1 DEF Tracked, Unwritten
  <2> QED BY <1>6, <1>7, <1>12, <2>1 DEF Unwritten
<1>15. Marked(iw')
  <2>1. \A m \in DOMAIN iw.merges : iw.merges[m].registered => m \in marked
    BY <1>2 DEF Owned
  <2> QED BY <1>6, <1>7, <1>10, <1>12, <2>1 DEF Marked
<1>16. Aborting(iw', at')
  <2>1. ASSUME NEW m \in iw'.running \cup Range(iw'.pending), iw'.merges[m].aborted
        PROVE  iw'.stop
    BY <1>3, <1>5, <1>7, <1>12, <2>1 DEF Tracked, Aborting
  <2>2. ASSUME NEW m \in DOMAIN iw'.merges \cap DOMAIN at', at'[m] \in Halted
        PROVE  m \in iw'.running /\ iw'.merges[m].aborted
    BY <1>2, <1>4, <1>5, <1>6, <1>7, <1>12, <2>2 DEF Tracked, Aborting
  <2> QED BY <2>1, <2>2 DEF Aborting
<1>17. Excused(iw', at')
  BY <1>4 DEF Excused
<1> QED BY <1>1, <1>13, <1>14, <1>15, <1>16, <1>17 DEF ForcedInv, Tracked, Pursued

LEMMA ClearSegmentsForced ==
  ASSUME MSInv, ForcedInv, NEW t \in Threads, ClearSegments(t)
  PROVE  ForcedInv'
<1>1. /\ at[t] = "awaitAborted" /\ iw.running = {} /\ at' = [at EXCEPT ![t] = "return"]
      /\ iw' = [iw EXCEPT !.stop = FALSE, !.infos = <<>>] /\ UNCHANGED left
  BY DEF ClearSegments
<1>2. /\ IsWriter(iw) /\ t \in DOMAIN at /\ left["docs"] \in Nat
      /\ DOMAIN iw.merges \cap Threads = {} /\ iw.pending = <<>>
  BY <1>1, ForcedAt DEF MSInv, Fine, Deleting
<1>3. /\ DOMAIN at' = DOMAIN at /\ at'[t] = "return"
      /\ \A b \in DOMAIN at : b # t => at'[b] = at[b]
  BY <1>1, <1>2, OneMoves
<1>4. iw' = [infos |-> <<>>, merges |-> iw.merges, pending |-> iw.pending,
             running |-> iw.running, merging |-> iw.merging, toMerge |-> iw.toMerge,
             mergeGen |-> iw.mergeGen, exceptions |-> iw.exceptions, stop |-> FALSE,
             closing |-> iw.closing, closed |-> iw.closed, tragedy |-> iw.tragedy]
  BY <1>1, <1>2 DEF IsWriter
<1>5. /\ DOMAIN iw'.infos = {} /\ iw'.merges = iw.merges /\ iw'.pending = iw.pending
      /\ iw'.running = iw.running /\ iw'.toMerge = iw.toMerge
  BY <1>4
<1>6. Tracked(iw, at, left)
  BY DEF ForcedInv
<1>7. Fresh(iw', left)
  <2>1. Names(iw') \subseteq Names(iw)
    BY <1>5 DEF Names
  <2> QED BY <1>5, <1>6, <2>1 DEF Tracked, Fresh
<1>8. Unwritten(iw', at')
  <2>1. \A m \in DOMAIN iw.merges : Uncommitted(m, at') => Uncommitted(m, at)
    BY <1>2, <1>3 DEF Uncommitted
  <2> QED BY <1>5, <1>6, <2>1 DEF Tracked, Unwritten
<1>9. Marked(iw')
  BY <1>5, <1>6 DEF Tracked, Marked
<1>10. Aborting(iw', at')
  <2>1. iw'.running \cup Range(iw'.pending) = {}
    BY <1>1, <1>2, <1>5 DEF Range
  <2>2. \A m \in DOMAIN iw'.merges \cap DOMAIN at' :
          at'[m] \in Halted => m \in iw'.running /\ iw'.merges[m].aborted
    BY <1>2, <1>3, <1>5, <1>6 DEF Tracked, Aborting
  <2> QED BY <2>1, <2>2 DEF Aborting
<1>11. Cardinality(Wanted(iw')) <= MaxSegmentCount
  <2>1. Wanted(iw') = {}
    BY <1>5 DEF Wanted
  <2> QED BY <2>1, FS_EmptySet, MergeSchedulingAssumption
<1> QED BY <1>1, <1>7, <1>8, <1>9, <1>10, <1>11 DEF ForcedInv, Tracked, Pursued

LEMMA InitForced ==
  ASSUME Init
  PROVE  ForcedInv
<1>1. PICK w \in Workloads :
        /\ iw = [infos |-> w.sizes, merges |-> <<>>, pending |-> <<>>, running |-> {},
                 merging |-> {}, toMerge |-> {}, mergeGen |-> 0, exceptions |-> {},
                 stop |-> FALSE, closing |-> FALSE, closed |-> FALSE, tragedy |-> FALSE]
        /\ left = w.left
  BY DEF Init
<1>2. /\ iw.infos = w.sizes /\ iw.merges = <<>> /\ iw.pending = <<>>
      /\ iw.running = {} /\ iw.toMerge = {}
  BY <1>1
<1>3. /\ w.sizes \in Seq(Nat) /\ Len(w.sizes) <= 1000 /\ left \in [Kinds -> Nat]
  BY <1>1, MergeSchedulingAssumption
<1>4. DOMAIN iw.merges = {} /\ Range(iw.pending) = {}
  BY <1>2 DEF Range
<1>5. left["docs"] \in Nat
  BY <1>3 DEF Kinds
<1>6. Fresh(iw, left)
  <2>1. Names(iw) = 1 .. Len(w.sizes) /\ Len(w.sizes) \in Nat
    BY <1>2, <1>3, <1>4 DEF Names
  <2>2. \A s \in Names(iw) : s \in Int /\ ~(s < 0) /\ s <= 1000
    BY <1>3, <2>1
  <2> QED BY <1>5, <2>2 DEF Fresh
<1>7. Tracked(iw, at, left)
  BY <1>2, <1>4, <1>6 DEF Tracked, Unwritten, Marked, Aborting
<1>8. Cardinality(Wanted(iw)) <= MaxSegmentCount
  <2>1. Wanted(iw) = {}
    BY <1>2 DEF Wanted
  <2> QED BY <2>1, FS_EmptySet, MergeSchedulingAssumption
<1> QED BY <1>7, <1>8 DEF ForcedInv, Pursued

LEMMA ScheduleForced ==
  ASSUME MSInv, ForcedInv, NEW a \in DOMAIN at, Schedule(a) \/ CloseWriter(a)
  PROVE  ForcedInv'
<1>1. CASE Stall(a)
  BY <1>1, StallForced
<1>2. CASE EndScheduling(a)
  BY <1>2, EndSchedulingForced
<1>3. CASE Launch(a)
  BY <1>3, LaunchForced
<1>4. CASE LockCommits(a)
  BY <1>4, LockCommitsForced
<1>5. CASE MergesAborted(a)
  BY <1>5, MergesAbortedForced
<1>6. CASE SyncMergeThreads(a)
  BY <1>6, SyncMergeThreadsForced
<1>7. CASE SetClosed(a)
  BY <1>7, SetClosedForced
<1> QED BY <1>1, <1>2, <1>3, <1>4, <1>5, <1>6, <1>7 DEF Schedule, CloseWriter

LEMMA MergeThreadForced ==
  ASSUME MSInv, ForcedInv, NEW m \in DOMAIN iw.merges \cap DOMAIN at, MergeThreadStep(m)
  PROVE  ForcedInv'
<1>1. CASE MergeInit(m)
  BY <1>1, MergeInitForced
<1>2. CASE MergeMiddle(m)
  BY <1>2, MergeMiddleForced
<1>3. CASE CommitMerge(m)
  BY <1>3, CommitMergeForced
<1>4. CASE HandleMergeException(m)
  BY <1>4, HandleMergeExceptionForced
<1>5. CASE FinishMerge(m)
  BY <1>5, FinishMergeForced
<1>6. CASE TragicEvent(m)
  BY <1>6, TragicEventForced
<1>7. CASE ShouldClose(m)
  BY <1>7, ShouldCloseForced
<1>8. CASE Exit(m)
  BY <1>8, ExitForced
<1>9. CASE Schedule(m) \/ CloseWriter(m)
  BY <1>9, ScheduleForced
<1> QED BY <1>1, <1>2, <1>3, <1>4, <1>5, <1>6, <1>7, <1>8, <1>9 DEF MergeThreadStep

LEMMA CallForced ==
  ASSUME MSInv, ForcedInv, NEW t \in Threads, Begin(t) \/ CallStep(t)
  PROVE  ForcedInv'
<1>1. CASE Begin(t)
  BY <1>1, BeginForced
<1>2. CASE WaitToClose(t)
  BY <1>2, WaitToCloseForced
<1>3. CASE LockCommit(t)
  BY <1>3, LockCommitForced
<1>4. CASE Flush(t)
  BY <1>4, FlushForced
<1>5. CASE Propose(t)
  BY <1>5, ProposeForced
<1>6. CASE MarkForced(t)
  BY <1>6, MarkForcedForced
<1>7. CASE AwaitForced(t)
  BY <1>7, AwaitForcedForced
<1>8. CASE AwaitMerges(t)
  BY <1>8, AwaitMergesForced
<1>9. CASE DeleteAll(t)
  BY <1>9, DeleteAllForced
<1>10. CASE ClearSegments(t)
  BY <1>10, ClearSegmentsForced
<1>11. CASE Return(t)
  BY <1>11, ReturnForced
<1>12. CASE Schedule(t) \/ CloseWriter(t)
  <2>1. t \in DOMAIN at
    BY ForcedAt
  <2> QED BY <1>12, <2>1, ScheduleForced
<1> QED BY <1>1, <1>2, <1>3, <1>4, <1>5, <1>6, <1>7, <1>8, <1>9, <1>10, <1>11, <1>12
        DEF CallStep

LEMMA NextForced ==
  ASSUME MSInv, ForcedInv, [Next]_vars
  PROVE  ForcedInv'
<1>1. CASE Next
  BY <1>1, CallForced, MergeThreadForced DEF Next
<1>2. CASE UNCHANGED vars
  BY <1>2 DEF vars, ForcedInv
<1> QED BY <1>1, <1>2

------------------------------------------------------------------------------
\* Only AwaitForced ends forceMerge.

LEMMA ScheduleStays ==
  ASSUME MSInv, NEW a \in DOMAIN at, Schedule(a) \/ CloseWriter(a),
         NEW t \in Threads, t # a \/ at[t] = "awaitForced"
  PROVE  at'[t] = at[t]
<1>1. t \in DOMAIN at
  BY ForcedAt
<1>2. CASE Stall(a)
  BY <1>2 DEF Stall
<1>3. CASE Launch(a)
  <2>1. Head(iw.pending) # t
    BY <1>3, LaunchPrepared
  <2>2. t # a
    BY <1>3 DEF Launch, Scheduling
  <2> HIDE DEF With
  <2>3. CASE at' = With(at, Head(iw.pending), "init")
    BY <1>1, <2>1, <2>3 DEF With
  <2>4. CASE at' = [b \in DOMAIN at \cup {Head(iw.pending)} |->
                      IF b = a THEN Throws(a)
                      ELSE IF b = Head(iw.pending) THEN "unborn" ELSE at[b]]
    BY <1>1, <2>1, <2>2, <2>4
  <2> QED BY <1>3, <2>3, <2>4 DEF Launch
<1>4. CASE EndScheduling(a)
  BY <1>1, <1>4 DEF EndScheduling, Scheduling
<1>5. CASE CloseWriter(a)
  BY <1>1, <1>5 DEF CloseWriter, LockCommits, MergesAborted, SyncMergeThreads, SetClosed
<1> QED BY <1>2, <1>3, <1>4, <1>5 DEF Schedule

LEMMA OnlyAwaitForced ==
  ASSUME MSInv, [Next]_vars, NEW t \in Threads, at[t] = "awaitForced", at'[t] = "done"
  PROVE  AwaitForced(t)
<1>1. t \in DOMAIN at /\ DOMAIN iw.merges \cap Threads = {} /\ Threads \subseteq DOMAIN at
  BY ForcedAt
<1>2. CASE UNCHANGED vars
  BY <1>2 DEF vars
<1>3. ASSUME NEW u \in Threads, Begin(u) \/ CallStep(u)
      PROVE  AwaitForced(t)
  <2>1. CASE Schedule(u) \/ CloseWriter(u)
    BY <1>1, <2>1, ScheduleStays
  <2>2. CASE AwaitForced(u)
    BY <1>1, <2>2 DEF AwaitForced
  <2>3. CASE Begin(u)
    BY <1>1, <2>3 DEF Begin
  <2>4. CASE WaitToClose(u) \/ LockCommit(u) \/ Flush(u) \/ Propose(u)
    BY <1>1, <2>4 DEF WaitToClose, LockCommit, Flush, Propose
  <2>5. CASE MarkForced(u) \/ AwaitMerges(u) \/ DeleteAll(u) \/ ClearSegments(u) \/ Return(u)
    BY <1>1, <2>5 DEF MarkForced, AwaitMerges, DeleteAll, ClearSegments, Return
  <2> QED BY <1>3, <2>1, <2>2, <2>3, <2>4, <2>5 DEF CallStep
<1>4. ASSUME NEW m \in DOMAIN iw.merges \cap DOMAIN at, MergeThreadStep(m)
      PROVE  AwaitForced(t)
  <2>1. m # t
    BY <1>1
  <2>2. CASE Schedule(m) \/ CloseWriter(m)
    BY <2>1, <2>2, ScheduleStays
  <2>3. CASE MergeInit(m) \/ MergeMiddle(m) \/ CommitMerge(m) \/ HandleMergeException(m)
    BY <1>1, <2>1, <2>3 DEF MergeInit, MergeMiddle, CommitMerge, HandleMergeException
  <2>4. CASE FinishMerge(m) \/ TragicEvent(m) \/ ShouldClose(m) \/ Exit(m)
    BY <1>1, <2>1, <2>4 DEF FinishMerge, TragicEvent, ShouldClose, Exit
  <2> QED BY <1>4, <2>2, <2>3, <2>4 DEF MergeThreadStep
<1> QED BY <1>2, <1>3, <1>4 DEF Next

\* However threads interleave: when forceMerge returns normally, the segments it was
\* called for, and what became of them, are at most maxNumSegments, unless deleteAll is
\* under way, a later forceMerge has just begun, or a merge has failed of which the
\* writer does not know yet (IndexWriter.cpp:1416-1506, 3490-3495).
THEOREM ForceMergeKeepsItsPromise == Spec => ForceMergeIsDone
<1>1. Init => ForcedInv
  BY InitForced
<1>2. MSInv /\ ForcedInv /\ [Next]_vars => ForcedInv'
  BY NextForced
<1>3. ASSUME MSInv, ForcedInv, [Next]_vars, NEW t \in Threads,
             at[t] = "awaitForced", at'[t] = "done",
             ~iw.stop, \A u \in Threads : at[u] # "proposeForced",
             \A m \in MergeThreads : at[m] \notin {"unborn", "throws", "failed", "tragic"}
      PROVE  Cardinality(DOMAIN iw.infos \cap OfForceMerge) <= MaxSegmentCount
  <2>1. AwaitForced(t) /\ t \in DOMAIN at
    BY <1>3, OnlyAwaitForced, ForcedAt
  <2>2. ~iw.tragedy /\ ~iw.closed /\ ~ForcedMergesLeft(iw)
    BY <1>3, <2>1 DEF AwaitForced
  <2>3. ~Excused(iw, at)
    BY <1>3, <2>2 DEF Excused, Failing, MergeThreads
  <2>4. Cardinality(Wanted(iw)) <= MaxSegmentCount
    BY <1>3, <2>2, <2>3 DEF ForcedInv, Pursued
  <2>5. DOMAIN iw.infos \cap OfForceMerge = Wanted(iw)
    BY <1>3 DEF ForcedInv, Tracked, Marked, OfForceMerge, Forced, Wanted
  <2> QED BY <2>4, <2>5
<1>4. MSInv /\ ForcedInv /\ [Next]_vars =>
        [\A t \in Threads :
           /\ at[t] = "awaitForced" /\ at'[t] = "done"
           /\ ~iw.stop /\ \A u \in Threads : at[u] # "proposeForced"
           /\ \A m \in MergeThreads : at[m] \notin {"unborn", "throws", "failed", "tragic"}
           => Cardinality(DOMAIN iw.infos \cap OfForceMerge) <= MaxSegmentCount]_vars
  BY <1>3
<1> QED BY <1>1, <1>2, <1>4, AlwaysFine, PTL DEF Spec, ForceMergeIsDone
==============================================================================
