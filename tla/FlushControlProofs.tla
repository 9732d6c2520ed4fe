-------------------------- MODULE FlushControlProofs --------------------------
EXTENDS FlushControl, FiniteSetTheorems, SequenceTheorems, TLAPS

------------------------------------------------------------------------------
\* Induction over finite sets and over numbers: what fails somewhere fails in a
\* least place.

LEMMA MinimalSet ==
  ASSUME NEW S, IsFiniteSet(S), NEW B, B \subseteq SUBSET S, B # {}
  PROVE  \E t \in B : \A u \in B : u \subseteq t => u = t
<1> DEFINE R == StrictSubsetOrdering(S)
<1>1. IsWellFoundedOn(R, FiniteSubsetsOf(S))
  BY FS_StrictSubsetOrderingWellFounded
<1>2. FiniteSubsetsOf(S) = SUBSET S
  BY FS_FiniteSubsetsOfFinite
<1>3. PICK t \in B : \A u \in B : ~ (<<u, t>> \in R)
  BY <1>1, <1>2, WFMin
<1>4. ASSUME NEW u \in B, u \subseteq t
      PROVE  u = t
  BY <1>3, <1>4 DEF StrictSubsetOrdering
<1> QED BY <1>4

\* The element a sum takes out first
First(s) == CHOOSE x \in s : TRUE

\* it is the table of the sums of f over the subsets of s.
Table(f, s, it) ==
  it = [t \in SUBSET s |-> IF t = {} THEN 0 ELSE f[First(t)] + it[t \ {First(t)}]]

LEMMA SumIs ==
  ASSUME NEW f, NEW s
  PROVE  SumFunctionOnSet(f, s) = (CHOOSE it : Table(f, s, it))[s]
BY DEF Table, First, SumFunctionOnSet, FoldFunctionOnSet, MapThenFoldSet

\* Two tables agree on the sets they have in common.
LEMMA TablesAgree ==
  ASSUME NEW f, NEW s, IsFiniteSet(s), NEW r \in SUBSET s, NEW it, NEW jt,
         Table(f, s, it), Table(f, r, jt)
  PROVE  \A t \in SUBSET r : it[t] = jt[t]
<1> DEFINE B == {t \in SUBSET r : it[t] # jt[t]}
<1>1. SUFFICES ASSUME B # {}
               PROVE  FALSE
  OBVIOUS
<1>2. PICK t \in B : \A u \in B : u \subseteq t => u = t
  <2>1. B \subseteq SUBSET r /\ IsFiniteSet(r)
    BY FS_Subset
  <2> HIDE DEF B
  <2> QED BY <1>1, <2>1, MinimalSet
<1>3. t \in SUBSET s /\ it[t] # jt[t]
  OBVIOUS
<1>4. t # {}
  BY <1>3 DEF Table
<1>5. First(t) \in t
  BY <1>4 DEF First
<1>6. it[t \ {First(t)}] = jt[t \ {First(t)}]
  BY <1>2, <1>5
<1>7. /\ it[t] = f[First(t)] + it[t \ {First(t)}]
      /\ jt[t] = f[First(t)] + jt[t \ {First(t)}]
  BY <1>3, <1>4 DEF Table
<1> QED BY <1>3, <1>6, <1>7

LEMMA TableExists ==
  ASSUME NEW f, NEW S, IsFiniteSet(S)
  PROVE  \E it : Table(f, S, it)
<1> DEFINE B == {s \in SUBSET S : ~\E it : Table(f, s, it)}
<1>1. SUFFICES ASSUME B # {}
               PROVE  FALSE
  OBVIOUS
<1>2. PICK s \in B : \A u \in B : u \subseteq s => u = s
  <2>1. B \subseteq SUBSET S
    OBVIOUS
  <2> HIDE DEF B
  <2> QED BY <1>1, <2>1, MinimalSet
<1>3. \A u \in SUBSET s : u # s => \E it : Table(f, u, it)
  BY <1>2
<1> DEFINE T(u) == CHOOSE it : Table(f, u, it)
           jt == [t \in SUBSET s |-> IF t = {} THEN 0
                    ELSE f[First(t)] + T(t \ {First(t)})[t \ {First(t)}]]
<1>4. \A u \in SUBSET s : u # s => Table(f, u, T(u))
  BY <1>3
<1>5. ASSUME NEW t \in SUBSET s, t # {}
      PROVE  T(t \ {First(t)})[t \ {First(t)}] = jt[t \ {First(t)}]
  <2> DEFINE u == t \ {First(t)}
             v == u \ {First(u)}
  <2>1. First(t) \in t
    BY <1>5 DEF First
  <2>2. u \in SUBSET s /\ u # s
    BY <2>1
  <2>3. Table(f, u, T(u))
    BY <1>4, <2>2
  <2>4. T(u)[u] = IF u = {} THEN 0 ELSE f[First(u)] + T(u)[v]
    BY <2>3 DEF Table
  <2>5. u # {} => T(u)[v] = T(v)[v]
    <3> SUFFICES ASSUME u # {}
                 PROVE  T(u)[v] = T(v)[v]
      OBVIOUS
    <3>1. First(u) \in u
      BY DEF First
    <3>2. v \in SUBSET u /\ v \in SUBSET s /\ v # s
      BY <2>2, <3>1
    <3>3. Table(f, v, T(v))
      BY <1>4, <3>2
    <3>4. IsFiniteSet(u)
      BY <2>2, FS_Subset
    <3>5. v \in SUBSET v
      OBVIOUS
    <3> HIDE DEF T, u, v
    <3> QED BY <2>3, <3>2, <3>3, <3>4, <3>5, TablesAgree
  <2>6. jt[u] = IF u = {} THEN 0 ELSE f[First(u)] + T(v)[v]
    BY <2>2
  <2> QED BY <2>4, <2>5, <2>6
<1>6. Table(f, s, jt)
  <2> HIDE DEF T
  <2> QED BY <1>5 DEF Table
<1> QED BY <1>2, <1>6

\* What a sum over a set is by its first element
LEMMA SumFirst ==
  ASSUME NEW f, NEW s, IsFiniteSet(s)
  PROVE  SumFunctionOnSet(f, s) = IF s = {} THEN 0
            ELSE f[First(s)] + SumFunctionOnSet(f, s \ {First(s)})
<1> DEFINE r == s \ {First(s)}
           it == CHOOSE it : Table(f, s, it)
           jt == CHOOSE jt : Table(f, r, jt)
<1>1. Table(f, s, it)
  BY TableExists
<1>2. IsFiniteSet(r)
  BY FS_Subset
<1>3. Table(f, r, jt)
  BY <1>2, TableExists
<1>4. SumFunctionOnSet(f, s) = it[s] /\ SumFunctionOnSet(f, r) = jt[r]
  BY SumIs
<1>5. it[r] = jt[r]
  <2>1. r \in SUBSET s /\ r \in SUBSET r
    OBVIOUS
  <2> HIDE DEF it, jt, r
  <2> QED BY <1>1, <1>3, <2>1, TablesAgree
<1>6. it[s] = IF s = {} THEN 0 ELSE f[First(s)] + it[r]
  <2> HIDE DEF it
  <2> QED BY <1>1 DEF Table
<1> QED BY <1>4, <1>5, <1>6

LEMMA SumInt ==
  ASSUME NEW f, NEW S, IsFiniteSet(S), \A x \in S : f[x] \in Int
  PROVE  SumFunctionOnSet(f, S) \in Int
<1> DEFINE B == {s \in SUBSET S : SumFunctionOnSet(f, s) \notin Int}
<1>1. SUFFICES ASSUME B # {}
               PROVE  FALSE
  OBVIOUS
<1>2. PICK s \in B : \A u \in B : u \subseteq s => u = s
  <2>1. B \subseteq SUBSET S
    OBVIOUS
  <2> HIDE DEF B
  <2> QED BY <1>1, <2>1, MinimalSet
<1>3. IsFiniteSet(s)
  BY FS_Subset
<1>4. s # {}
  <2>1. SumFunctionOnSet(f, {}) = 0
    BY FS_EmptySet, SumFirst
  <2> QED BY <2>1
<1>5. First(s) \in s
  BY <1>4 DEF First
<1>6. SumFunctionOnSet(f, s \ {First(s)}) \in Int
  BY <1>2, <1>5
<1>7. SumFunctionOnSet(f, s) = f[First(s)] + SumFunctionOnSet(f, s \ {First(s)})
  BY <1>3, <1>4, SumFirst
<1> QED BY <1>5, <1>6, <1>7

LEMMA SumNat ==
  ASSUME NEW f, NEW S, IsFiniteSet(S), \A x \in S : f[x] \in Nat
  PROVE  SumFunctionOnSet(f, S) \in Nat
<1> DEFINE B == {s \in SUBSET S : SumFunctionOnSet(f, s) \notin Nat}
<1>1. SUFFICES ASSUME B # {}
               PROVE  FALSE
  OBVIOUS
<1>2. PICK s \in B : \A u \in B : u \subseteq s => u = s
  <2>1. B \subseteq SUBSET S
    OBVIOUS
  <2> HIDE DEF B
  <2> QED BY <1>1, <2>1, MinimalSet
<1>3. IsFiniteSet(s)
  BY FS_Subset
<1>4. s # {}
  <2>1. SumFunctionOnSet(f, {}) = 0
    BY FS_EmptySet, SumFirst
  <2> QED BY <2>1
<1>5. First(s) \in s
  BY <1>4 DEF First
<1>6. SumFunctionOnSet(f, s \ {First(s)}) \in Nat
  BY <1>2, <1>5
<1>7. SumFunctionOnSet(f, s) = f[First(s)] + SumFunctionOnSet(f, s \ {First(s)})
  BY <1>3, <1>4, SumFirst
<1> QED BY <1>5, <1>6, <1>7

\* Any element may be taken out.
LEMMA SumOut ==
  ASSUME NEW f, NEW S, IsFiniteSet(S), \A x \in S : f[x] \in Int
  PROVE  \A x \in S : SumFunctionOnSet(f, S) = f[x] + SumFunctionOnSet(f, S \ {x})
<1> DEFINE Wrong(s) == \E x \in s : SumFunctionOnSet(f, s) # f[x] + SumFunctionOnSet(f, s \ {x})
           B == {s \in SUBSET S : Wrong(s)}
<1>1. SUFFICES ASSUME B # {}
               PROVE  FALSE
  OBVIOUS
<1>2. PICK s \in B : \A u \in B : u \subseteq s => u = s
  <2>1. B \subseteq SUBSET S
    OBVIOUS
  <2> HIDE DEF B
  <2> QED BY <1>1, <2>1, MinimalSet
<1>3. PICK x \in s : SumFunctionOnSet(f, s) # f[x] + SumFunctionOnSet(f, s \ {x})
  BY <1>2
<1> DEFINE y == First(s)
           r == (s \ {x}) \ {y}
<1>4. s \subseteq S /\ y \in s /\ f[x] \in Int /\ f[y] \in Int /\ (s \ {y}) \ {x} = r
  <2>1. First(s) \in s
    BY <1>3 DEF First
  <2>2. s \subseteq S
    BY <1>2
  <2> QED BY <1>3, <2>1, <2>2
<1>5. IsFiniteSet(s) /\ IsFiniteSet(r) /\ r \subseteq S
  BY <1>4, FS_Subset
<1>6. SumFunctionOnSet(f, s) = f[y] + SumFunctionOnSet(f, s \ {y})
  BY <1>4, <1>5, SumFirst
<1>7. x # y
  BY <1>3, <1>6
<1>8. \A u \in SUBSET S : \A z \in u : u \subseteq s /\ u # s
        => SumFunctionOnSet(f, u) = f[z] + SumFunctionOnSet(f, u \ {z})
  BY <1>2
<1> HIDE DEF B, Wrong
<1>9. SumFunctionOnSet(f, s \ {y}) = f[x] + SumFunctionOnSet(f, r)
  BY <1>4, <1>7, <1>8
<1>10. SumFunctionOnSet(f, s \ {x}) = f[y] + SumFunctionOnSet(f, r)
  BY <1>4, <1>7, <1>8
<1>11. SumFunctionOnSet(f, r) \in Int
  BY <1>5, SumInt
<1> QED BY <1>3, <1>4, <1>6, <1>9, <1>10, <1>11

\* Functions that agree have the same sum.
LEMMA SumSame ==
  ASSUME NEW f, NEW g, NEW S, IsFiniteSet(S), \A x \in S : f[x] = g[x]
  PROVE  SumFunctionOnSet(f, S) = SumFunctionOnSet(g, S)
<1> DEFINE B == {s \in SUBSET S : SumFunctionOnSet(f, s) # SumFunctionOnSet(g, s)}
<1>1. SUFFICES ASSUME B # {}
               PROVE  FALSE
  OBVIOUS
<1>2. PICK s \in B : \A u \in B : u \subseteq s => u = s
  <2>1. B \subseteq SUBSET S
    OBVIOUS
  <2> HIDE DEF B
  <2> QED BY <1>1, <2>1, MinimalSet
<1>3. IsFiniteSet(s) /\ s \subseteq S
  BY FS_Subset
<1>4. SumFunctionOnSet(f, {}) = 0 /\ SumFunctionOnSet(g, {}) = 0
  BY FS_EmptySet, SumFirst
<1>5. s # {}
  BY <1>2, <1>4
<1>6. First(s) \in s
  BY <1>5 DEF First
<1>7. SumFunctionOnSet(f, s \ {First(s)}) = SumFunctionOnSet(g, s \ {First(s)})
  BY <1>2, <1>6
<1>8. /\ SumFunctionOnSet(f, s) = f[First(s)] + SumFunctionOnSet(f, s \ {First(s)})
      /\ SumFunctionOnSet(g, s) = g[First(s)] + SumFunctionOnSet(g, s \ {First(s)})
  BY <1>3, <1>5, SumFirst
<1> QED BY <1>2, <1>3, <1>6, <1>7, <1>8

\* The sum over two disjoint sets
LEMMA SumDisjoint ==
  ASSUME NEW f, NEW S, NEW T, IsFiniteSet(S), IsFiniteSet(T), S \cap T = {},
         \A x \in S \cup T : f[x] \in Int
  PROVE  SumFunctionOnSet(f, S \cup T) = SumFunctionOnSet(f, S) + SumFunctionOnSet(f, T)
<1> DEFINE Wrong(s) ==
             SumFunctionOnSet(f, s \cup T) # SumFunctionOnSet(f, s) + SumFunctionOnSet(f, T)
           B == {s \in SUBSET S : Wrong(s)}
<1>1. SUFFICES ASSUME B # {}
               PROVE  FALSE
  OBVIOUS
<1>2. PICK s \in B : \A u \in B : u \subseteq s => u = s
  <2>1. B \subseteq SUBSET S
    OBVIOUS
  <2> HIDE DEF B
  <2> QED BY <1>1, <2>1, MinimalSet
<1>3. s \subseteq S /\ Wrong(s)
  BY <1>2
<1>4. SumFunctionOnSet(f, T) \in Int
  BY SumInt
<1>5. s # {}
  <2>1. SumFunctionOnSet(f, {}) = 0
    BY FS_EmptySet, SumFirst
  <2>2. SUFFICES ASSUME s = {}
                 PROVE  FALSE
    OBVIOUS
  <2>3. s \cup T = T
    BY <2>2
  <2> QED BY <1>3, <1>4, <2>1, <2>2, <2>3
<1>6. PICK x \in s : TRUE
  BY <1>5
<1> DEFINE r == s \ {x}
<1>7. ~Wrong(r)
  <2>1. r \in SUBSET S /\ r \subseteq s /\ r # s
    BY <1>3, <1>6
  <2> HIDE DEF Wrong
  <2> QED BY <1>2, <2>1
<1>8. /\ IsFiniteSet(s) /\ IsFiniteSet(r) /\ IsFiniteSet(s \cup T)
      /\ (s \cup T) \ {x} = r \cup T /\ x \in s \cup T /\ s \cup T \subseteq S \cup T
      /\ r \subseteq S
  <2>1. IsFiniteSet(s) /\ IsFiniteSet(r)
    BY <1>3, FS_Subset
  <2>2. IsFiniteSet(s \cup T)
    BY <2>1, FS_Union
  <2> QED BY <1>3, <1>6, <2>1, <2>2
<1>9. SumFunctionOnSet(f, s) = f[x] + SumFunctionOnSet(f, r)
  BY <1>3, <1>6, <1>8, SumOut
<1>10. SumFunctionOnSet(f, s \cup T) = f[x] + SumFunctionOnSet(f, r \cup T)
  <2>1. \A y \in s \cup T : f[y] \in Int
    BY <1>3
  <2>2. \A y \in s \cup T : SumFunctionOnSet(f, s \cup T)
          = f[y] + SumFunctionOnSet(f, (s \cup T) \ {y})
    BY <1>8, <2>1, SumOut
  <2> QED BY <1>8, <2>2
<1>11. SumFunctionOnSet(f, r) \in Int /\ f[x] \in Int
  BY <1>3, <1>6, <1>8, SumInt
<1> QED BY <1>3, <1>4, <1>7, <1>9, <1>10, <1>11

\* The same numbers under other names have the same sum.
LEMMA SumRenamed ==
  ASSUME NEW f, NEW g, NEW S, IsFiniteSet(S), NEW b,
         \A x \in S : g[b[x]] = f[x] /\ f[x] \in Int,
         \A x, y \in S : b[x] = b[y] => x = y
  PROVE  SumFunctionOnSet(f, S) = SumFunctionOnSet(g, {b[x] : x \in S})
<1> DEFINE Im(s) == {b[x] : x \in s}
           Wrong(s) == SumFunctionOnSet(f, s) # SumFunctionOnSet(g, Im(s))
           B == {s \in SUBSET S : Wrong(s)}
<1>1. SUFFICES ASSUME B # {}
               PROVE  FALSE
  <2>1. S \in SUBSET S
    OBVIOUS
  <2> QED BY <2>1
<1>2. PICK s \in B : \A u \in B : u \subseteq s => u = s
  <2>1. B \subseteq SUBSET S
    OBVIOUS
  <2> HIDE DEF B
  <2> QED BY <1>1, <2>1, MinimalSet
<1>3. s \subseteq S /\ Wrong(s) /\ IsFiniteSet(s)
  BY <1>2, FS_Subset
<1>4. s # {}
  <2>1. SumFunctionOnSet(f, {}) = 0 /\ SumFunctionOnSet(g, {}) = 0
    BY FS_EmptySet, SumFirst
  <2>2. SUFFICES ASSUME s = {}
                 PROVE  FALSE
    OBVIOUS
  <2>3. Im(s) = {}
    BY <2>2
  <2> QED BY <1>3, <2>1, <2>2, <2>3
<1>5. PICK x \in s : TRUE
  BY <1>4
<1> DEFINE r == s \ {x}
<1>6. ~Wrong(r)
  <2>1. r \in SUBSET S /\ r \subseteq s /\ r # s
    BY <1>3, <1>5
  <2> HIDE DEF Wrong
  <2> QED BY <1>2, <2>1
<1>7. IsFiniteSet(Im(s))
  <2> DEFINE h == [y \in s |-> b[y]]
  <2>1. h \in Surjection(s, Im(s))
    BY DEF Surjection
  <2> QED BY <1>3, <2>1, FS_Surjection
<1>8. Im(s) \ {b[x]} = Im(r) /\ b[x] \in Im(s)
  BY <1>3, <1>5
<1>9. SumFunctionOnSet(f, s) = f[x] + SumFunctionOnSet(f, r)
  BY <1>3, <1>5, SumOut
<1>10. SumFunctionOnSet(g, Im(s)) = g[b[x]] + SumFunctionOnSet(g, Im(r))
  <2>1. \A z \in Im(s) : g[z] \in Int
    BY <1>3
  <2>2. \A z \in Im(s) : SumFunctionOnSet(g, Im(s)) = g[z] + SumFunctionOnSet(g, Im(s) \ {z})
    <3> HIDE DEF Im
    <3> QED BY <1>7, <2>1, SumOut
  <2> QED BY <1>8, <2>2
<1> QED BY <1>3, <1>5, <1>6, <1>9, <1>10

\* One element added, taken away or changed
LEMMA SumStep ==
  ASSUME NEW f, NEW g, NEW x, IsFiniteSet(DOMAIN f), IsFiniteSet(DOMAIN g),
         DOMAIN g \ {x} = DOMAIN f \ {x},
         \A y \in DOMAIN f : f[y] \in Int, \A y \in DOMAIN g : g[y] \in Int,
         \A y \in DOMAIN f \ {x} : g[y] = f[y]
  PROVE  SumFunction(g) = SumFunction(f) - (IF x \in DOMAIN f THEN f[x] ELSE 0)
                            + (IF x \in DOMAIN g THEN g[x] ELSE 0)
<1> DEFINE R == DOMAIN f \ {x}
<1>1. IsFiniteSet(R) /\ R \subseteq DOMAIN f
  BY FS_Subset
<1>2. SumFunctionOnSet(f, R) = SumFunctionOnSet(g, R)
  <2> HIDE DEF R
  <2> QED BY <1>1, SumSame DEF R
<1>3. SumFunctionOnSet(f, R) \in Int
  BY <1>1, SumInt
<1>4. SumFunctionOnSet(f, DOMAIN f) = SumFunctionOnSet(f, R) + (IF x \in DOMAIN f THEN f[x] ELSE 0)
  <2>1. CASE x \in DOMAIN f
    BY <1>3, <2>1, SumOut
  <2>2. CASE x \notin DOMAIN f
    <3>1. R = DOMAIN f
      BY <2>2
    <3> QED BY <1>3, <2>2, <3>1
  <2> QED BY <2>1, <2>2
<1>5. SumFunctionOnSet(g, DOMAIN g) = SumFunctionOnSet(g, R) + (IF x \in DOMAIN g THEN g[x] ELSE 0)
  <2>1. CASE x \in DOMAIN g
    BY <1>2, <1>3, <2>1, SumOut
  <2>2. CASE x \notin DOMAIN g
    <3>1. R = DOMAIN g
      BY <2>2
    <3> QED BY <1>2, <1>3, <2>2, <3>1
  <2> QED BY <2>1, <2>2
<1> QED BY <1>2, <1>3, <1>4, <1>5 DEF SumFunction

LEMMA LeastNumber ==
  ASSUME NEW B, B \subseteq Nat, B # {}
  PROVE  \E n \in B : \A m \in B : n <= m
<1>1. PICK k \in B : TRUE
  OBVIOUS
<1> DEFINE K == 0 .. k
           T == {0 .. m : m \in {n \in B : n <= k}}
<1>2. IsFiniteSet(K)
  BY FS_Interval
<1>3. T \subseteq SUBSET K /\ T # {}
  BY <1>1
<1>4. PICK t \in T : \A u \in T : u \subseteq t => u = t
  <2> HIDE DEF T, K
  <2> QED BY <1>2, <1>3, MinimalSet
<1>5. PICK n \in B : n <= k /\ t = 0 .. n
  BY <1>4
<1>6. ASSUME NEW m \in B, m < n
      PROVE  FALSE
  <2>1. 0 .. m \in T
    BY <1>5, <1>6
  <2>2. 0 .. m \subseteq 0 .. n /\ n \in 0 .. n /\ n \notin 0 .. m
    BY <1>6
  <2> QED BY <1>4, <1>5, <2>1, <2>2
<1> QED BY <1>6

------------------------------------------------------------------------------
\* Chosen: elements of a sequence at some of its positions

\* it is the table of what is chosen among the first n elements.
ChosenTable(seq, P, n, it) ==
  it = [i \in 0 .. n |-> IF i = 0 THEN <<>>
          ELSE IF i \in P THEN Append(it[i - 1], seq[i]) ELSE it[i - 1]]

LEMMA ChosenTableExists ==
  ASSUME NEW seq, NEW P, NEW k \in Nat
  PROVE  \E it : ChosenTable(seq, P, k, it)
<1> DEFINE B == {n \in Nat : ~\E it : ChosenTable(seq, P, n, it)}
<1>1. SUFFICES ASSUME B # {}
               PROVE  FALSE
  OBVIOUS
<1>2. PICK n \in B : \A m \in B : n <= m
  <2>1. B \subseteq Nat
    OBVIOUS
  <2> HIDE DEF B
  <2> QED BY <1>1, <2>1, LeastNumber
<1>3. n \in Nat /\ ~\E it : ChosenTable(seq, P, n, it)
  BY <1>2
<1>4. n # 0
  <2> DEFINE it == [i \in 0 .. 0 |-> <<>>]
  <2>1. ChosenTable(seq, P, 0, it)
    BY DEF ChosenTable
  <2> QED BY <1>3, <2>1
<1>5. PICK it : ChosenTable(seq, P, n - 1, it)
  <2>1. n - 1 \in Nat /\ ~(n <= n - 1)
    BY <1>3, <1>4
  <2>2. n - 1 \notin B
    BY <1>2, <2>1
  <2> QED BY <2>1, <2>2
<1> DEFINE jt == [i \in 0 .. n |-> IF i = n
                    THEN IF i \in P THEN Append(it[i - 1], seq[i]) ELSE it[i - 1]
                    ELSE it[i]]
<1>6. \A i \in 0 .. n - 1 : it[i] = IF i = 0 THEN <<>>
          ELSE IF i \in P THEN Append(it[i - 1], seq[i]) ELSE it[i - 1]
  BY <1>5 DEF ChosenTable
<1>7. \A i \in 0 .. n : jt[i] = IF i = 0 THEN <<>>
          ELSE IF i \in P THEN Append(jt[i - 1], seq[i]) ELSE jt[i - 1]
  BY <1>3, <1>4, <1>6
<1>8. ChosenTable(seq, P, n, jt)
  <2>1. jt = [i \in 0 .. n |-> jt[i]]
    OBVIOUS
  <2> HIDE DEF jt
  <2> QED BY <1>7, <2>1 DEF ChosenTable
<1> QED BY <1>3, <1>8

\* A subsequence has the elements that were chosen; if they are all different
\* in the sequence, so they are there.
LEMMA ChosenElements ==
  ASSUME NEW S, NEW seq \in Seq(S), NEW P
  PROVE  /\ Chosen(seq, P) \in Seq(S)
         /\ Range(Chosen(seq, P)) = {seq[i] : i \in P \cap DOMAIN seq}
         /\ (\A i, j \in DOMAIN seq : seq[i] = seq[j] => i = j)
              => \A i, j \in DOMAIN Chosen(seq, P) :
                    Chosen(seq, P)[i] = Chosen(seq, P)[j] => i = j
<1> DEFINE k == Len(seq)
           it == CHOOSE it : ChosenTable(seq, P, k, it)
           Injective(q) == \A i, j \in DOMAIN q : q[i] = q[j] => i = j
           Right(n) == /\ it[n] \in Seq(S)
                       /\ Range(it[n]) = {seq[i] : i \in P \cap 1 .. n}
                       /\ Injective(seq) => Injective(it[n])
           B == {n \in 0 .. k : ~Right(n)}
<1>1. k \in Nat /\ DOMAIN seq = 1 .. k
  OBVIOUS
<1>2. Chosen(seq, P) = it[k]
  BY DEF Chosen, ChosenTable
<1>3. ChosenTable(seq, P, k, it)
  BY <1>1, ChosenTableExists
<1> SUFFICES Right(k)
  BY <1>1, <1>2
<1>4. SUFFICES ASSUME B # {}
               PROVE  FALSE
  <2>1. k \in 0 .. k
    BY <1>1
  <2> HIDE DEF Right
  <2> QED BY <2>1
<1>5. PICK n \in B : \A m \in B : n <= m
  <2>1. B \subseteq Nat
    OBVIOUS
  <2> HIDE DEF B
  <2> QED BY <1>4, <2>1, LeastNumber
<1>6. n \in 0 .. k /\ ~Right(n)
  BY <1>5
<1> HIDE DEF it
<1>7. \A i \in 0 .. k : it[i] = IF i = 0 THEN <<>>
          ELSE IF i \in P THEN Append(it[i - 1], seq[i]) ELSE it[i - 1]
  BY <1>3 DEF ChosenTable
<1>8. n # 0
  <2>1. it[0] = <<>> /\ 1 .. 0 = {}
    BY <1>1, <1>7
  <2> SUFFICES Right(0)
    BY <1>6
  <2> QED BY <2>1 DEF Range
<1> DEFINE q == it[n - 1]
<1>9. n - 1 \in 0 .. k /\ Right(n - 1)
  <2>1. n - 1 \in 0 .. k /\ ~(n <= n - 1)
    BY <1>1, <1>6, <1>8
  <2> HIDE DEF Right
  <2> QED BY <1>5, <2>1
<1>10. n \in DOMAIN seq /\ seq[n] \in S /\ 1 .. n = (1 .. n - 1) \cup {n} /\ n \notin 1 .. n - 1
  BY <1>1, <1>6, <1>8
<1>11. CASE n \notin P
  <2>1. it[n] = q
    BY <1>6, <1>7, <1>8, <1>11
  <2>2. P \cap 1 .. n = P \cap 1 .. n - 1
    BY <1>10, <1>11
  <2> QED BY <1>6, <1>9, <2>1, <2>2
<1>12. CASE n \in P
  <2>1. it[n] = Append(q, seq[n])
    BY <1>6, <1>7, <1>8, <1>12
  <2>2. q \in Seq(S) /\ Range(q) = {seq[i] : i \in P \cap 1 .. n - 1}
    BY <1>9
  <2> HIDE DEF q
  <2>3. it[n] \in Seq(S)
    BY <1>10, <2>1, <2>2
  <2>4. Range(it[n]) = Range(q) \cup {seq[n]}
    <3>1. /\ Len(it[n]) = Len(q) + 1 /\ Len(q) \in Nat
          /\ \A i \in 1 .. Len(q) : it[n][i] = q[i]
          /\ it[n][Len(q) + 1] = seq[n]
      BY <1>10, <2>1, <2>2
    <3>2. DOMAIN it[n] = 1 .. Len(q) + 1 /\ DOMAIN q = 1 .. Len(q)
      BY <2>2, <2>3, <3>1
    <3> QED BY <3>1, <3>2 DEF Range
  <2>5. Range(it[n]) = {seq[i] : i \in P \cap 1 .. n}
    BY <1>10, <1>12, <2>2, <2>4
  <2>6. ASSUME Injective(seq)
        PROVE  Injective(it[n])
    <3>1. Injective(q)
      BY <1>9, <2>6 DEF q
    <3>2. seq[n] \notin Range(q)
      BY <1>1, <1>10, <2>2, <2>6
    <3> QED BY <1>10, <2>1, <2>2, <3>1, <3>2 DEF Range
  <2> QED BY <1>6, <2>3, <2>5, <2>6
<1> QED BY <1>11, <1>12

------------------------------------------------------------------------------
\* The fields of the flush control, as functions of its record f

\* Everything the monitor guards has its type.
FcRec == [states : Seq(StateRec), activeBytes : Int, flushBytes : Int, numPending : Int,
          flushingWriters : SUBSET Flushing, flushQueue : Seq(Nat), fullFlushBuffer : Seq(Nat),
          blockedFlushes : Seq(Flushing), fullFlush : BOOLEAN]
Typed(f) == f \in FcRec /\ IsFiniteSet(f.flushingWriters)

PendingIn(f) == {s \in DOMAIN f.states : f.states[s].flushPending}
OthersIn(f) == DOMAIN f.states \ PendingIn(f)

\* The DWPTs in ThreadStates, blocked, and flushing
InStates(f) == {d \in {f.states[s].dwpt : s \in DOMAIN f.states} : d # None}
DwptsOf(set) == {w.dwpt : w \in set}
Blocked(f) == DwptsOf(Range(f.blockedFlushes))
Flushed(f) == DwptsOf(f.flushingWriters)

Injective(seq) == \A i, j \in DOMAIN seq : seq[i] = seq[j] => i = j
ByDwpt(set) == \A v, w \in set : v.dwpt = w.dwpt => v = w

\* No DWPT is in two places.
Separate(f) ==
    /\ \A s, r \in DOMAIN f.states :
          f.states[s].dwpt = f.states[r].dwpt /\ f.states[s].dwpt # None => s = r
    /\ ByDwpt(f.flushingWriters) /\ ByDwpt(Range(f.blockedFlushes))
    /\ Injective(f.blockedFlushes)
    /\ InStates(f) \cap Blocked(f) = {}
    /\ InStates(f) \cap Flushed(f) = {}
    /\ Blocked(f) \cap Flushed(f) = {}

\* What waits in a queue is flushing, and waits once.
Queueing(f) ==
    /\ Injective(f.flushQueue) /\ Injective(f.fullFlushBuffer)
    /\ Range(f.flushQueue) \cap Range(f.fullFlushBuffer) = {}
    /\ Range(f.flushQueue) \cup Range(f.fullFlushBuffer) \subseteq Flushed(f)

\* A ThreadState has bytes and is pending only with a DWPT that has documents.
Shaped(f, table) ==
    \A s \in DOMAIN f.states :
        /\ f.states[s].dwpt = None => f.states[s] = Uninitialized
        /\ f.states[s].dwpt # None /\ table[f.states[s].dwpt].docs = 0
              => ~f.states[s].flushPending /\ f.states[s].bytesUsed = 0

StateSum(f, set) == SumFunction([s \in set |-> f.states[s].bytesUsed])
WriterSum(set) == SumFunction([w \in set |-> w.bytes])

\* The counters are the bytes of what they count.
Counted(f) ==
    /\ f.activeBytes = StateSum(f, OthersIn(f))
    /\ f.flushBytes = StateSum(f, PendingIn(f)) + WriterSum(f.flushingWriters)
                      + WriterSum(Range(f.blockedFlushes))

\* numPending, and what it is too large by
Excess(f) == f.numPending - Cardinality(PendingIn(f))

\* What every operation keeps, with table the DWPTs
Good(f, table) == Typed(f) /\ Separate(f) /\ Queueing(f) /\ Shaped(f, table) /\ Counted(f)

------------------------------------------------------------------------------
\* Sums of bytes

LEMMA PartsFinite ==
  ASSUME NEW f, Typed(f)
  PROVE  /\ IsFiniteSet(PendingIn(f)) /\ IsFiniteSet(OthersIn(f))
         /\ IsFiniteSet(f.flushingWriters) /\ IsFiniteSet(Range(f.blockedFlushes))
         /\ IsFiniteSet(DOMAIN f.states) /\ IsFiniteSet(DOMAIN f.blockedFlushes)
         /\ \A s \in DOMAIN f.states : f.states[s] \in StateRec
         /\ \A i \in DOMAIN f.blockedFlushes : f.blockedFlushes[i] \in Flushing
         /\ Range(f.blockedFlushes) \subseteq Flushing /\ f.flushingWriters \subseteq Flushing
<1>1. /\ f.states \in Seq(StateRec) /\ f.blockedFlushes \in Seq(Flushing)
      /\ f.flushingWriters \subseteq Flushing
  BY DEF Typed, FcRec
<1>2. /\ DOMAIN f.states = 1 .. Len(f.states) /\ Len(f.states) \in Nat
      /\ DOMAIN f.blockedFlushes = 1 .. Len(f.blockedFlushes) /\ Len(f.blockedFlushes) \in Nat
  BY <1>1
<1>3. IsFiniteSet(DOMAIN f.states) /\ IsFiniteSet(DOMAIN f.blockedFlushes)
  BY <1>2, FS_Interval
<1>4. PendingIn(f) \subseteq DOMAIN f.states /\ OthersIn(f) \subseteq DOMAIN f.states
  BY DEF PendingIn, OthersIn
<1>5. IsFiniteSet(PendingIn(f)) /\ IsFiniteSet(OthersIn(f))
  BY <1>3, <1>4, FS_Subset
<1>6. IsFiniteSet(Range(f.blockedFlushes))
  <2>1. f.blockedFlushes \in Surjection(DOMAIN f.blockedFlushes, Range(f.blockedFlushes))
    BY <1>1 DEF Surjection, Range
  <2> QED BY <1>3, <2>1, FS_Surjection
<1>7. /\ \A s \in DOMAIN f.states : f.states[s] \in StateRec
      /\ \A i \in DOMAIN f.blockedFlushes : f.blockedFlushes[i] \in Flushing
  BY <1>1
<1>8. Range(f.blockedFlushes) \subseteq Flushing
  BY <1>7 DEF Range
<1> QED BY <1>1, <1>3, <1>5, <1>6, <1>7, <1>8 DEF Typed

LEMMA WriterSums ==
  ASSUME NEW S, NEW T, IsFiniteSet(S), IsFiniteSet(T), S \subseteq Flushing, T \subseteq Flushing
  PROVE  /\ WriterSum(S) \in Nat
         /\ S \cap T = {} => WriterSum(S \cup T) = WriterSum(S) + WriterSum(T)
<1> DEFINE g == [w \in S \cup T |-> w.bytes]
           h(R) == [w \in R |-> w.bytes]
<1>1. \A w \in S \cup T : w.bytes \in Nat
  BY DEF Flushing
<1>2. ASSUME NEW R, IsFiniteSet(R), R \subseteq S \cup T
      PROVE  WriterSum(R) = SumFunctionOnSet(g, R)
  <2>1. WriterSum(R) = SumFunctionOnSet(h(R), R)
    BY DEF WriterSum, SumFunction
  <2>2. \A w \in R : h(R)[w] = g[w]
    BY <1>2
  <2> QED BY <1>2, <2>1, <2>2, SumSame
<1>3. IsFiniteSet(S \cup T)
  BY FS_Union
<1>4. /\ WriterSum(S) = SumFunctionOnSet(g, S) /\ WriterSum(T) = SumFunctionOnSet(g, T)
      /\ WriterSum(S \cup T) = SumFunctionOnSet(g, S \cup T)
  <2> HIDE DEF g
  <2> QED BY <1>2, <1>3
<1>5. \A w \in S \cup T : g[w] \in Nat /\ g[w] \in Int
  BY <1>1
<1> HIDE DEF g
<1>6. SumFunctionOnSet(g, S) \in Nat
  BY <1>5, SumNat
<1>7. S \cap T = {} => SumFunctionOnSet(g, S \cup T)
                         = SumFunctionOnSet(g, S) + SumFunctionOnSet(g, T)
  BY <1>5, SumDisjoint
<1> QED BY <1>4, <1>6, <1>7

LEMMA WriterSumEmpty == WriterSum({}) = 0
<1> DEFINE g == [w \in {} |-> w.bytes]
<1>1. DOMAIN g = {}
  OBVIOUS
<1>2. SumFunctionOnSet(g, {}) = 0
  <2> HIDE DEF g
  <2> QED BY FS_EmptySet, SumFirst
<1> QED BY <1>1, <1>2 DEF WriterSum, SumFunction

LEMMA WriterSumOne ==
  ASSUME NEW S, IsFiniteSet(S), S \subseteq Flushing, NEW w \in Flushing
  PROVE  /\ w \notin S => WriterSum(S \cup {w}) = WriterSum(S) + w.bytes
         /\ w \in S => WriterSum(S \ {w}) = WriterSum(S) - w.bytes
<1> DEFINE a == [v \in S |-> v.bytes]
           b == [v \in S \cup {w} |-> v.bytes]
           c == [v \in S \ {w} |-> v.bytes]
<1>1. \A v \in Flushing : v.bytes \in Int
  BY DEF Flushing
<1>2. IsFiniteSet(S \cup {w}) /\ IsFiniteSet(S \ {w})
  BY FS_AddElement, FS_RemoveElement
<1>3. SumFunction(a) \in Int
  BY WriterSums DEF WriterSum
<1>4. /\ DOMAIN a = S /\ DOMAIN b = S \cup {w} /\ DOMAIN c = S \ {w}
      /\ \A v \in S : a[v] = v.bytes /\ a[v] \in Int
      /\ \A v \in S \cup {w} : b[v] = v.bytes /\ b[v] \in Int
      /\ \A v \in S \ {w} : c[v] = v.bytes /\ c[v] \in Int
  BY <1>1
<1>5. /\ WriterSum(S) = SumFunction(a) /\ WriterSum(S \cup {w}) = SumFunction(b)
      /\ WriterSum(S \ {w}) = SumFunction(c)
  BY DEF WriterSum
<1> HIDE DEF a, b, c
<1>6. ASSUME w \notin S
      PROVE  SumFunction(b) = SumFunction(a) + w.bytes
  <2>1. SumFunction(b) = SumFunction(a) - (IF w \in DOMAIN a THEN a[w] ELSE 0)
                           + (IF w \in DOMAIN b THEN b[w] ELSE 0)
    <3>1. DOMAIN b \ {w} = DOMAIN a \ {w} /\ \A v \in DOMAIN a \ {w} : b[v] = a[v]
      BY <1>4
    <3>2. \A v \in DOMAIN a : a[v] \in Int
      BY <1>4
    <3>3. \A v \in DOMAIN b : b[v] \in Int
      BY <1>4
    <3>4. IsFiniteSet(DOMAIN a) /\ IsFiniteSet(DOMAIN b)
      BY <1>2, <1>4
    <3> QED BY <3>1, <3>2, <3>3, <3>4, SumStep
  <2> QED BY <1>1, <1>3, <1>4, <1>6, <2>1
<1>7. ASSUME w \in S
      PROVE  SumFunction(c) = SumFunction(a) - w.bytes
  <2>1. SumFunction(c) = SumFunction(a) - (IF w \in DOMAIN a THEN a[w] ELSE 0)
                           + (IF w \in DOMAIN c THEN c[w] ELSE 0)
    <3>1. DOMAIN c \ {w} = DOMAIN a \ {w} /\ \A v \in DOMAIN a \ {w} : c[v] = a[v]
      BY <1>4
    <3>2. \A v \in DOMAIN a : a[v] \in Int
      BY <1>4
    <3>3. \A v \in DOMAIN c : c[v] \in Int
      BY <1>4
    <3>4. IsFiniteSet(DOMAIN a) /\ IsFiniteSet(DOMAIN c)
      BY <1>2, <1>4
    <3> QED BY <3>1, <3>2, <3>3, <3>4, SumStep
  <2> QED BY <1>1, <1>3, <1>4, <1>7, <2>1
<1> QED BY <1>5, <1>6, <1>7

\* The sum over the states of a set, when state s changes or the set does at s
BytesAt(f, S, s) == IF s \in S THEN f.states[s].bytesUsed ELSE 0
BytesIn(f, S) == \A r \in S : f.states[r].bytesUsed \in Nat
AlikeBut(S, T, s) == S \ {s} = T \ {s}
BytesBut(f, g, S, s) == \A r \in S \ {s} : g.states[r].bytesUsed = f.states[r].bytesUsed

LEMMA StateSumStep ==
  ASSUME NEW f, NEW g, NEW S, NEW T, NEW s, IsFiniteSet(S), IsFiniteSet(T), AlikeBut(S, T, s),
         BytesIn(f, S), BytesIn(g, T), BytesBut(f, g, S, s)
  PROVE  /\ StateSum(f, S) \in Nat
         /\ StateSum(g, T) = StateSum(f, S) - BytesAt(f, S, s) + BytesAt(g, T, s)
<1> DEFINE a == [r \in S |-> f.states[r].bytesUsed]
           b == [r \in T |-> g.states[r].bytesUsed]
<1>1. /\ DOMAIN a = S /\ DOMAIN b = T
      /\ \A r \in S : a[r] \in Nat /\ a[r] \in Int /\ a[r] = f.states[r].bytesUsed
      /\ \A r \in T : b[r] \in Int /\ b[r] = g.states[r].bytesUsed
      /\ \A r \in S \ {s} : b[r] = a[r]
      /\ T \ {s} = S \ {s}
  BY DEF AlikeBut, BytesIn, BytesBut
<1>2. StateSum(f, S) = SumFunction(a) /\ StateSum(g, T) = SumFunction(b)
  BY DEF StateSum
<1> HIDE DEF a, b
<1>3. SumFunction(b) = SumFunction(a) - (IF s \in S THEN a[s] ELSE 0)
                         + (IF s \in T THEN b[s] ELSE 0)
  BY <1>1, SumStep
<1>4. SumFunctionOnSet(a, S) \in Nat
  BY <1>1, SumNat
<1>5. SumFunction(a) = SumFunctionOnSet(a, S)
  BY <1>1 DEF SumFunction
<1> QED BY <1>1, <1>2, <1>3, <1>4, <1>5 DEF BytesAt

------------------------------------------------------------------------------
\* What a change of one ThreadState does to the sums and to the places

\* The counters of a record that differs from f in the ThreadState s
LEMMA StateChange ==
  ASSUME NEW f, Typed(f), NEW g, NEW s \in DOMAIN f.states, NEW x \in StateRec,
         DOMAIN g.states = DOMAIN f.states, g.states[s] = x,
         \A r \in DOMAIN f.states \ {s} : g.states[r] = f.states[r]
  PROVE  /\ StateSum(f, OthersIn(f)) \in Nat /\ StateSum(f, PendingIn(f)) \in Nat
         /\ Cardinality(PendingIn(f)) \in Nat
         /\ StateSum(g, OthersIn(g)) = StateSum(f, OthersIn(f))
              - (IF f.states[s].flushPending THEN 0 ELSE f.states[s].bytesUsed)
              + (IF x.flushPending THEN 0 ELSE x.bytesUsed)
         /\ StateSum(g, PendingIn(g)) = StateSum(f, PendingIn(f))
              - (IF f.states[s].flushPending THEN f.states[s].bytesUsed ELSE 0)
              + (IF x.flushPending THEN x.bytesUsed ELSE 0)
         /\ Cardinality(PendingIn(g)) = Cardinality(PendingIn(f))
              - (IF f.states[s].flushPending THEN 1 ELSE 0)
              + (IF x.flushPending THEN 1 ELSE 0)
<1>1. /\ IsFiniteSet(PendingIn(f)) /\ IsFiniteSet(OthersIn(f)) /\ IsFiniteSet(DOMAIN f.states)
      /\ \A r \in DOMAIN f.states : f.states[r] \in StateRec
  BY PartsFinite
<1>2. \A r \in DOMAIN g.states : g.states[r] \in StateRec
  BY <1>1
<1>3. /\ OthersIn(g) \ {s} = OthersIn(f) \ {s} /\ PendingIn(g) \ {s} = PendingIn(f) \ {s}
      /\ s \in OthersIn(f) <=> ~f.states[s].flushPending
      /\ s \in PendingIn(f) <=> f.states[s].flushPending
      /\ s \in OthersIn(g) <=> ~x.flushPending
      /\ s \in PendingIn(g) <=> x.flushPending
  BY <1>2 DEF OthersIn, PendingIn
<1>4. /\ OthersIn(f) \subseteq DOMAIN f.states /\ PendingIn(f) \subseteq DOMAIN f.states
      /\ OthersIn(g) \subseteq DOMAIN f.states /\ PendingIn(g) \subseteq DOMAIN f.states
  BY <1>2 DEF OthersIn, PendingIn
<1>5. IsFiniteSet(OthersIn(g)) /\ IsFiniteSet(PendingIn(g))
  BY <1>1, <1>4, FS_Subset
<1>6. /\ \A r \in DOMAIN f.states : f.states[r].bytesUsed \in Nat
      /\ \A r \in DOMAIN f.states : g.states[r].bytesUsed \in Nat
      /\ \A r \in DOMAIN f.states \ {s} : g.states[r].bytesUsed = f.states[r].bytesUsed
      /\ g.states[s].bytesUsed = x.bytesUsed
      /\ f.states[s].flushPending \in BOOLEAN /\ x.flushPending \in BOOLEAN
  BY <1>1, <1>2 DEF StateRec
<1>7. /\ StateSum(f, OthersIn(f)) \in Nat
      /\ StateSum(g, OthersIn(g)) = StateSum(f, OthersIn(f)) - BytesAt(f, OthersIn(f), s)
                                   + BytesAt(g, OthersIn(g), s)
  <2>1. BytesIn(f, OthersIn(f)) /\ BytesIn(g, OthersIn(g)) /\ BytesBut(f, g, OthersIn(f), s)
    BY <1>4, <1>6 DEF BytesIn, BytesBut
  <2>2. /\ IsFiniteSet(OthersIn(f)) /\ IsFiniteSet(OthersIn(g))
        /\ AlikeBut(OthersIn(f), OthersIn(g), s)
    BY <1>1, <1>3, <1>5 DEF AlikeBut
  <2> QED BY <2>1, <2>2, StateSumStep
<1>8. /\ StateSum(f, PendingIn(f)) \in Nat
      /\ StateSum(g, PendingIn(g)) = StateSum(f, PendingIn(f)) - BytesAt(f, PendingIn(f), s)
                                   + BytesAt(g, PendingIn(g), s)
  <2>1. BytesIn(f, PendingIn(f)) /\ BytesIn(g, PendingIn(g)) /\ BytesBut(f, g, PendingIn(f), s)
    BY <1>4, <1>6 DEF BytesIn, BytesBut
  <2>2. /\ IsFiniteSet(PendingIn(f)) /\ IsFiniteSet(PendingIn(g))
        /\ AlikeBut(PendingIn(f), PendingIn(g), s)
    BY <1>1, <1>3, <1>5 DEF AlikeBut
  <2> QED BY <2>1, <2>2, StateSumStep
<1>9. /\ Cardinality(PendingIn(f)) \in Nat
      /\ Cardinality(PendingIn(g)) = Cardinality(PendingIn(f))
           - (IF s \in PendingIn(f) THEN 1 ELSE 0) + (IF s \in PendingIn(g) THEN 1 ELSE 0)
  <2>1. IsFiniteSet(PendingIn(f) \ {s}) /\ Cardinality(PendingIn(f) \ {s}) \in Nat
    BY <1>1, FS_RemoveElement, FS_CardinalityType
  <2>2. Cardinality(PendingIn(f)) = Cardinality(PendingIn(f) \ {s})
                                      + (IF s \in PendingIn(f) THEN 1 ELSE 0)
    <3>1. CASE s \in PendingIn(f)
      <4>1. PendingIn(f) = (PendingIn(f) \ {s}) \cup {s}
        BY <3>1
      <4> QED BY <2>1, <3>1, <4>1, FS_AddElement
    <3>2. CASE s \notin PendingIn(f)
      <4>1. PendingIn(f) \ {s} = PendingIn(f)
        BY <3>2
      <4> QED BY <2>1, <3>2, <4>1
    <3> QED BY <3>1, <3>2
  <2>3. Cardinality(PendingIn(g)) = Cardinality(PendingIn(f) \ {s})
                                      + (IF s \in PendingIn(g) THEN 1 ELSE 0)
    <3>1. CASE s \in PendingIn(g)
      <4>1. PendingIn(g) = (PendingIn(f) \ {s}) \cup {s}
        BY <1>3, <3>1
      <4> QED BY <2>1, <3>1, <4>1, FS_AddElement
    <3>2. CASE s \notin PendingIn(g)
      <4>1. PendingIn(f) \ {s} = PendingIn(g)
        BY <1>3, <3>2
      <4>2. Cardinality(PendingIn(g)) = Cardinality(PendingIn(f) \ {s})
        BY <4>1, Zenon
      <4> QED BY <2>1, <3>2, <4>2
    <3> QED BY <3>1, <3>2
  <2> QED BY <2>1, <2>2, <2>3
<1> QED BY <1>3, <1>6, <1>7, <1>8, <1>9 DEF BytesAt

\* The DWPTs of a record that differs from f in the ThreadState s, which has
\* a DWPT that is nowhere else, or none
LEMMA PlaceChange ==
  ASSUME NEW f, Typed(f), Separate(f), NEW g, NEW s \in DOMAIN f.states, NEW x \in StateRec,
         DOMAIN g.states = DOMAIN f.states, g.states[s] = x,
         \A r \in DOMAIN f.states \ {s} : g.states[r] = f.states[r],
         x.dwpt # None => x.dwpt \notin InStates(f) \ {f.states[s].dwpt}
  PROVE  /\ InStates(g) = (InStates(f) \ {f.states[s].dwpt}) \cup ({x.dwpt} \ {None})
         /\ f.states[s].dwpt # None => f.states[s].dwpt \in InStates(f)
         /\ \A r, p \in DOMAIN g.states :
               g.states[r].dwpt = g.states[p].dwpt /\ g.states[r].dwpt # None => r = p
<1>1. g.states[s] \in StateRec
  OBVIOUS
<1>2. \A r, p \in DOMAIN f.states :
         f.states[r].dwpt = f.states[p].dwpt /\ f.states[r].dwpt # None => r = p
  BY DEF Separate
<1>3. InStates(g) = (InStates(f) \ {f.states[s].dwpt}) \cup ({x.dwpt} \ {None})
  <2>1. ASSUME NEW d \in InStates(g)
        PROVE  d \in (InStates(f) \ {f.states[s].dwpt}) \cup ({x.dwpt} \ {None})
    <3>1. PICK r \in DOMAIN g.states : d = g.states[r].dwpt /\ d # None
      BY <2>1 DEF InStates
    <3>2. CASE r = s
      BY <1>1, <3>1, <3>2
    <3>3. CASE r # s
      <4>1. d = f.states[r].dwpt /\ d \in InStates(f)
        BY <1>1, <3>1, <3>3 DEF InStates
      <4>2. d # f.states[s].dwpt
        BY <1>1, <1>2, <3>1, <3>3, <4>1
      <4> QED BY <4>1, <4>2
    <3> QED BY <3>2, <3>3
  <2>2. ASSUME NEW d \in InStates(f) \ {f.states[s].dwpt}
        PROVE  d \in InStates(g)
    <3>1. PICK r \in DOMAIN f.states : d = f.states[r].dwpt /\ d # None
      BY <2>2 DEF InStates
    <3>2. r # s
      BY <2>2, <3>1
    <3>3. r \in DOMAIN g.states /\ g.states[r].dwpt = d
      BY <1>1, <3>1, <3>2
    <3> QED BY <3>1, <3>3 DEF InStates
  <2>3. x.dwpt # None => x.dwpt \in InStates(g)
    BY <1>1 DEF InStates
  <2> QED BY <2>1, <2>2, <2>3
<1>4. f.states[s].dwpt # None => f.states[s].dwpt \in InStates(f)
  BY DEF InStates
<1>5. ASSUME NEW r \in DOMAIN g.states, NEW p \in DOMAIN g.states,
             g.states[r].dwpt = g.states[p].dwpt, g.states[r].dwpt # None
      PROVE  r = p
  <2>1. ASSUME NEW q \in DOMAIN f.states \ {s}, f.states[q].dwpt # None
        PROVE  f.states[q].dwpt # x.dwpt
    <3>1. f.states[q].dwpt \in InStates(f) /\ f.states[q].dwpt # f.states[s].dwpt
      BY <1>2, <2>1 DEF InStates
    <3> QED BY <2>1, <3>1
  <2>2. CASE r # s /\ p # s
    BY <1>1, <1>2, <1>5, <2>2
  <2>3. CASE r = s /\ p # s
    <3>1. g.states[p].dwpt = f.states[p].dwpt /\ f.states[p].dwpt # None /\ g.states[r] = x
      BY <1>1, <1>5, <2>3
    <3> QED BY <1>1, <1>5, <2>1, <2>3, <3>1
  <2>4. CASE r # s /\ p = s
    <3>1. g.states[r].dwpt = f.states[r].dwpt /\ f.states[r].dwpt # None /\ g.states[p] = x
      BY <1>1, <1>5, <2>4
    <3> QED BY <1>1, <1>5, <2>1, <2>4, <3>1
  <2> QED BY <2>2, <2>3, <2>4
<1> QED BY <1>1, <1>3, <1>4, <1>5
------------------------------------------------------------------------------
\* Sets of flushing DWPTs and sequences of them

LEMMA WriterAdded ==
  ASSUME NEW S, IsFiniteSet(S), S \subseteq Flushing, NEW w \in Flushing, w.dwpt \notin DwptsOf(S)
  PROVE  /\ S \cup {w} \subseteq Flushing /\ IsFiniteSet(S \cup {w})
         /\ DwptsOf(S \cup {w}) = DwptsOf(S) \cup {w.dwpt}
         /\ ByDwpt(S) => ByDwpt(S \cup {w})
         /\ WriterSum(S \cup {w}) = WriterSum(S) + w.bytes
<1>1. w \notin S
  BY DEF DwptsOf
<1>2. ByDwpt(S) => ByDwpt(S \cup {w})
  BY DEF ByDwpt, DwptsOf
<1>3. DwptsOf(S \cup {w}) = DwptsOf(S) \cup {w.dwpt}
  BY DEF DwptsOf
<1>4. IsFiniteSet(S \cup {w})
  BY FS_AddElement
<1> QED BY <1>1, <1>2, <1>3, <1>4, WriterSumOne

LEMMA WriterRemoved ==
  ASSUME NEW S, IsFiniteSet(S), S \subseteq Flushing, NEW w \in S, ByDwpt(S)
  PROVE  /\ S \ {w} \subseteq Flushing /\ IsFiniteSet(S \ {w})
         /\ DwptsOf(S \ {w}) = DwptsOf(S) \ {w.dwpt}
         /\ ByDwpt(S \ {w})
         /\ WriterSum(S \ {w}) = WriterSum(S) - w.bytes
<1>1. ByDwpt(S \ {w})
  BY DEF ByDwpt
<1>2. DwptsOf(S \ {w}) = DwptsOf(S) \ {w.dwpt}
  BY DEF DwptsOf, ByDwpt
<1>3. IsFiniteSet(S \ {w}) /\ w \in Flushing
  BY FS_RemoveElement
<1> QED BY <1>1, <1>2, <1>3, WriterSumOne

LEMMA Appended ==
  ASSUME NEW S, NEW seq \in Seq(S), NEW e \in S
  PROVE  /\ Append(seq, e) \in Seq(S)
         /\ Range(Append(seq, e)) = Range(seq) \cup {e}
         /\ Injective(seq) /\ e \notin Range(seq) => Injective(Append(seq, e))
<1> DEFINE n == Len(seq) + 1
<1>1. /\ Append(seq, e) \in Seq(S) /\ Len(seq) \in Nat
      /\ DOMAIN seq = 1 .. Len(seq) /\ DOMAIN Append(seq, e) = 1 .. n
      /\ Append(seq, e)[n] = e
      /\ \A i \in 1 .. Len(seq) : Append(seq, e)[i] = seq[i]
  OBVIOUS
<1>2. 1 .. n = (1 .. Len(seq)) \cup {n} /\ n \notin 1 .. Len(seq)
  BY <1>1
<1> HIDE DEF n
<1>3. \A i \in DOMAIN seq : seq[i] \in Range(seq)
  BY DEF Range
<1>4. Range(Append(seq, e)) = Range(seq) \cup {e}
  BY <1>1, <1>2 DEF Range
<1>5. Injective(seq) /\ e \notin Range(seq) => Injective(Append(seq, e))
  BY <1>1, <1>2, <1>3 DEF Injective
<1> QED BY <1>1, <1>4, <1>5

LEMMA Polling ==
  ASSUME NEW S, NEW seq \in Seq(S), seq # <<>>, Injective(seq)
  PROVE  /\ Tail(seq) \in Seq(S) /\ Head(seq) \in Range(seq)
         /\ Range(Tail(seq)) = Range(seq) \ {Head(seq)}
         /\ Injective(Tail(seq))
<1>1. /\ Tail(seq) \in Seq(S) /\ Len(seq) \in Nat \ {0}
      /\ DOMAIN seq = 1 .. Len(seq) /\ DOMAIN Tail(seq) = 1 .. (Len(seq) - 1)
      /\ Head(seq) = seq[1]
      /\ \A i \in 1 .. (Len(seq) - 1) : Tail(seq)[i] = seq[i + 1]
  OBVIOUS
<1>2. Injective(Tail(seq))
  <2> SUFFICES ASSUME NEW i \in DOMAIN Tail(seq), NEW j \in DOMAIN Tail(seq),
                      Tail(seq)[i] = Tail(seq)[j]
               PROVE  i = j
    BY DEF Injective
  <2>1. seq[i + 1] = seq[j + 1] /\ i + 1 \in DOMAIN seq /\ j + 1 \in DOMAIN seq
    BY <1>1
  <2> QED BY <1>1, <2>1 DEF Injective
<1>3. Range(Tail(seq)) = Range(seq) \ {Head(seq)}
  <2>1. ASSUME NEW i \in DOMAIN Tail(seq)
        PROVE  Tail(seq)[i] \in Range(seq) \ {Head(seq)}
    <3>1. Tail(seq)[i] = seq[i + 1] /\ i + 1 \in DOMAIN seq /\ 1 \in DOMAIN seq /\ i + 1 # 1
      BY <1>1
    <3> QED BY <1>1, <3>1 DEF Injective, Range
  <2>2. ASSUME NEW i \in DOMAIN seq, seq[i] # Head(seq)
        PROVE  seq[i] \in Range(Tail(seq))
    <3>1. i - 1 \in DOMAIN Tail(seq) /\ Tail(seq)[i - 1] = seq[i]
      BY <1>1, <2>2
    <3> QED BY <3>1 DEF Range
  <2> QED BY <2>1, <2>2 DEF Range
<1>4. Head(seq) \in Range(seq)
  BY <1>1 DEF Range
<1> QED BY <1>1, <1>2, <1>3, <1>4

LEMMA Joined ==
  ASSUME NEW S, NEW a \in Seq(S), NEW b \in Seq(S)
  PROVE  /\ a \o b \in Seq(S)
         /\ Range(a \o b) = Range(a) \cup Range(b)
         /\ Injective(a) /\ Injective(b) /\ Range(a) \cap Range(b) = {} => Injective(a \o b)
<1>1. /\ a \o b \in Seq(S) /\ Len(a) \in Nat /\ Len(b) \in Nat
      /\ DOMAIN a = 1 .. Len(a) /\ DOMAIN b = 1 .. Len(b)
      /\ DOMAIN (a \o b) = 1 .. (Len(a) + Len(b))
      /\ \A i \in 1 .. (Len(a) + Len(b)) :
            (a \o b)[i] = IF i <= Len(a) THEN a[i] ELSE b[i - Len(a)]
  OBVIOUS
<1>2. ASSUME NEW i \in DOMAIN (a \o b)
      PROVE  \/ i \in DOMAIN a /\ (a \o b)[i] = a[i]
             \/ i - Len(a) \in DOMAIN b /\ (a \o b)[i] = b[i - Len(a)]
  BY <1>1
<1>3. \A i \in DOMAIN a : i \in DOMAIN (a \o b) /\ (a \o b)[i] = a[i]
  BY <1>1
<1>4. \A i \in DOMAIN b : i + Len(a) \in DOMAIN (a \o b) /\ (a \o b)[i + Len(a)] = b[i]
  BY <1>1
<1>5. Range(a \o b) = Range(a) \cup Range(b)
  <2>1. \A i \in DOMAIN (a \o b) : (a \o b)[i] \in Range(a) \cup Range(b)
    BY <1>2 DEF Range
  <2>2. \A i \in DOMAIN a : a[i] \in Range(a \o b)
    BY <1>3 DEF Range
  <2>3. \A i \in DOMAIN b : b[i] \in Range(a \o b)
    BY <1>4 DEF Range
  <2> QED BY <2>1, <2>2, <2>3 DEF Range
<1>6. ASSUME Injective(a), Injective(b), Range(a) \cap Range(b) = {}
      PROVE  Injective(a \o b)
  <2> SUFFICES ASSUME NEW i \in DOMAIN (a \o b), NEW j \in DOMAIN (a \o b),
                      (a \o b)[i] = (a \o b)[j]
               PROVE  i = j
    BY DEF Injective
  <2>1. \A n \in DOMAIN a, m \in DOMAIN b : a[n] # b[m]
    BY <1>6 DEF Range
  <2>2. i \in Int /\ j \in Int
    BY <1>1
  <2>3. CASE i \in DOMAIN a /\ (a \o b)[i] = a[i]
    BY <1>2, <1>6, <2>1, <2>3 DEF Injective
  <2>4. CASE i - Len(a) \in DOMAIN b /\ (a \o b)[i] = b[i - Len(a)]
    <3>1. j - Len(a) \in DOMAIN b /\ (a \o b)[j] = b[j - Len(a)]
      BY <1>2, <2>1, <2>4
    <3>2. i - Len(a) = j - Len(a)
      BY <1>6, <2>4, <3>1 DEF Injective
    <3> QED BY <1>1, <2>2, <3>2
  <2> QED BY <1>2, <2>3, <2>4
<1> QED BY <1>1, <1>5, <1>6
------------------------------------------------------------------------------
\* The operations of the flush control keep what is Good.

SameQueues(f, g) ==
    /\ g.flushingWriters = f.flushingWriters /\ g.blockedFlushes = f.blockedFlushes
    /\ g.flushQueue = f.flushQueue /\ g.fullFlushBuffer = f.fullFlushBuffer
    /\ g.fullFlush = f.fullFlush

\* Also the DWPTs stay where they are.
Kept(f, g) ==
    /\ SameQueues(f, g) /\ DOMAIN g.states = DOMAIN f.states
    /\ \A s \in DOMAIN f.states : g.states[s].dwpt = f.states[s].dwpt

\* Record g has x in the ThreadState s, and the other ThreadStates of f.
OnlyAt(f, g, s, x) ==
    /\ DOMAIN g.states = DOMAIN f.states /\ g.states[s] = x
    /\ \A r \in DOMAIN f.states \ {s} : g.states[r] = f.states[r]

ActivePart(x) == IF x.flushPending THEN 0 ELSE x.bytesUsed
PendingPart(x) == IF x.flushPending THEN x.bytesUsed ELSE 0
One(x) == IF x.flushPending THEN 1 ELSE 0
WaitingBytes(f) == WriterSum(f.flushingWriters) + WriterSum(Range(f.blockedFlushes))
WellShaped(x, table) == /\ x.dwpt = None => x = Uninitialized
                        /\ x.dwpt # None /\ table[x.dwpt].docs = 0
                              => ~x.flushPending /\ x.bytesUsed = 0

\* Where a DWPT waits is in order.
WritersSeparate(f) ==
    /\ ByDwpt(f.flushingWriters) /\ ByDwpt(Range(f.blockedFlushes))
    /\ Injective(f.blockedFlushes) /\ Blocked(f) \cap Flushed(f) = {}

LEMMA OneState ==
  ASSUME NEW f, NEW table, Good(f, table), NEW g, Typed(g), NEW s \in DOMAIN f.states,
         NEW x \in StateRec, OnlyAt(f, g, s, x), WellShaped(x, table),
         x.dwpt # None => x.dwpt \notin InStates(f) \ {f.states[s].dwpt},
         ((InStates(f) \ {f.states[s].dwpt}) \cup ({x.dwpt} \ {None}))
            \cap (Blocked(g) \cup Flushed(g)) = {},
         WritersSeparate(g), Queueing(g),
         g.activeBytes = f.activeBytes - ActivePart(f.states[s]) + ActivePart(x),
         g.flushBytes - WaitingBytes(g)
            = f.flushBytes - WaitingBytes(f) - PendingPart(f.states[s]) + PendingPart(x)
  PROVE  /\ Good(g, table)
         /\ InStates(g) = (InStates(f) \ {f.states[s].dwpt}) \cup ({x.dwpt} \ {None})
         /\ Excess(g) = Excess(f) + (g.numPending - f.numPending) + One(f.states[s]) - One(x)
<1>1. Typed(f) /\ Separate(f) /\ Shaped(f, table) /\ Counted(f)
  BY DEF Good
<1>2. /\ DOMAIN g.states = DOMAIN f.states /\ g.states[s] = x
      /\ \A r \in DOMAIN f.states \ {s} : g.states[r] = f.states[r]
  BY DEF OnlyAt
<1>3. /\ InStates(g) = (InStates(f) \ {f.states[s].dwpt}) \cup ({x.dwpt} \ {None})
      /\ \A r, p \in DOMAIN g.states :
            g.states[r].dwpt = g.states[p].dwpt /\ g.states[r].dwpt # None => r = p
  BY <1>1, <1>2, PlaceChange
<1>4. /\ StateSum(f, OthersIn(f)) \in Nat /\ StateSum(f, PendingIn(f)) \in Nat
      /\ Cardinality(PendingIn(f)) \in Nat
      /\ StateSum(g, OthersIn(g)) = StateSum(f, OthersIn(f)) - ActivePart(f.states[s])
                                      + ActivePart(x)
      /\ StateSum(g, PendingIn(g)) = StateSum(f, PendingIn(f)) - PendingPart(f.states[s])
                                       + PendingPart(x)
      /\ Cardinality(PendingIn(g)) = Cardinality(PendingIn(f)) - One(f.states[s]) + One(x)
  BY <1>1, <1>2, StateChange DEF ActivePart, PendingPart, One
<1>5. Separate(g)
  BY <1>3 DEF Separate, WritersSeparate
<1>6. Shaped(g, table)
  BY <1>1, <1>2 DEF Shaped, WellShaped
<1>7. /\ f.states[s] \in StateRec
      /\ WriterSum(f.flushingWriters) \in Nat /\ WriterSum(Range(f.blockedFlushes)) \in Nat
      /\ WriterSum(g.flushingWriters) \in Nat /\ WriterSum(Range(g.blockedFlushes)) \in Nat
      /\ f.activeBytes \in Int /\ f.flushBytes \in Int /\ f.numPending \in Int
      /\ g.activeBytes \in Int /\ g.flushBytes \in Int /\ g.numPending \in Int
  <2>1. f.states[s] \in StateRec
    BY <1>1, PartsFinite
  <2>2. WriterSum(f.flushingWriters) \in Nat /\ WriterSum(Range(f.blockedFlushes)) \in Nat
    BY <1>1, PartsFinite, WriterSums
  <2>3. WriterSum(g.flushingWriters) \in Nat /\ WriterSum(Range(g.blockedFlushes)) \in Nat
    BY PartsFinite, WriterSums
  <2> QED BY <1>1, <2>1, <2>2, <2>3 DEF Typed, FcRec
<1>8. /\ ActivePart(f.states[s]) \in Nat /\ ActivePart(x) \in Nat
      /\ PendingPart(f.states[s]) \in Nat /\ PendingPart(x) \in Nat
      /\ One(f.states[s]) \in Nat /\ One(x) \in Nat
  BY <1>7 DEF StateRec, ActivePart, PendingPart, One
<1>9. Counted(g)
  <2>1. f.activeBytes = StateSum(f, OthersIn(f))
    BY <1>1 DEF Counted
  <2>2. f.flushBytes - WaitingBytes(f) = StateSum(f, PendingIn(f))
    BY <1>1, <1>4, <1>7 DEF Counted, WaitingBytes
  <2>3. g.activeBytes = StateSum(g, OthersIn(g))
    BY <1>4, <2>1
  <2>4. g.flushBytes - WaitingBytes(g) = StateSum(g, PendingIn(g))
    BY <1>4, <2>2
  <2>5. StateSum(g, PendingIn(g)) \in Int
    BY <1>4, <1>8
  <2>6. g.flushBytes = StateSum(g, PendingIn(g)) + WriterSum(g.flushingWriters)
                         + WriterSum(Range(g.blockedFlushes))
    BY <1>7, <2>4, <2>5 DEF WaitingBytes
  <2> QED BY <2>3, <2>6 DEF Counted
<1>10. Excess(g) = Excess(f) + (g.numPending - f.numPending) + One(f.states[s]) - One(x)
  BY <1>4, <1>7, <1>8 DEF Excess
<1> QED BY <1>3, <1>5, <1>6, <1>9, <1>10 DEF Good

LEMMA UninitializedShape ==
  ASSUME NEW table
  PROVE  /\ Uninitialized \in StateRec /\ WellShaped(Uninitialized, table)
         /\ Uninitialized.dwpt = None /\ ActivePart(Uninitialized) = 0
         /\ PendingPart(Uninitialized) = 0 /\ One(Uninitialized) = 0
BY DEF Uninitialized, StateRec, WellShaped, ActivePart, PendingPart, One, None

\* What is known of the fields of a Good record and of one of its ThreadStates
LEMMA GoodFields ==
  ASSUME NEW f, NEW table, Good(f, table)
  PROVE  /\ f \in FcRec /\ Typed(f) /\ Separate(f) /\ Queueing(f) /\ WritersSeparate(f)
         /\ f.states \in Seq(StateRec)
         /\ f.activeBytes \in Int /\ f.flushBytes \in Int /\ f.numPending \in Int
         /\ f.flushingWriters \subseteq Flushing /\ IsFiniteSet(f.flushingWriters)
         /\ f.flushQueue \in Seq(Nat) /\ f.fullFlushBuffer \in Seq(Nat)
         /\ f.blockedFlushes \in Seq(Flushing) /\ IsFiniteSet(Range(f.blockedFlushes))
         /\ Range(f.blockedFlushes) \subseteq Flushing
         /\ WriterSum(f.flushingWriters) \in Nat /\ WriterSum(Range(f.blockedFlushes)) \in Nat
         /\ InStates(f) \cap Blocked(f) = {} /\ InStates(f) \cap Flushed(f) = {}
         /\ Blocked(f) \cap Flushed(f) = {} /\ None \notin InStates(f)
         /\ \A s \in DOMAIN f.states :
               /\ f.states[s] \in StateRec /\ f.states[s].dwpt \in Nat
               /\ f.states[s].bytesUsed \in Nat /\ f.states[s].flushPending \in BOOLEAN
               /\ WellShaped(f.states[s], table)
               /\ f.states[s].dwpt # None => f.states[s].dwpt \in InStates(f)
               /\ f.states[s].flushPending => f.states[s].dwpt # None
<1>1. /\ f \in FcRec /\ Typed(f) /\ Separate(f) /\ Queueing(f) /\ WritersSeparate(f)
      /\ InStates(f) \cap Blocked(f) = {} /\ InStates(f) \cap Flushed(f) = {}
      /\ Blocked(f) \cap Flushed(f) = {}
  BY DEF Good, Typed, Separate, WritersSeparate
<1>2. /\ \A s \in DOMAIN f.states : f.states[s] \in StateRec
      /\ IsFiniteSet(f.flushingWriters) /\ IsFiniteSet(Range(f.blockedFlushes))
      /\ Range(f.blockedFlushes) \subseteq Flushing /\ f.flushingWriters \subseteq Flushing
  BY <1>1, PartsFinite
<1>3. WriterSum(f.flushingWriters) \in Nat /\ WriterSum(Range(f.blockedFlushes)) \in Nat
  BY <1>2, WriterSums
<1>4. \A s \in DOMAIN f.states : WellShaped(f.states[s], table)
  BY DEF Good, Shaped, WellShaped
<1>5. /\ \A s \in DOMAIN f.states : f.states[s].dwpt # None => f.states[s].dwpt \in InStates(f)
      /\ None \notin InStates(f)
  BY DEF InStates
<1>6. /\ f.states \in Seq(StateRec) /\ f.blockedFlushes \in Seq(Flushing)
      /\ f.flushQueue \in Seq(Nat) /\ f.fullFlushBuffer \in Seq(Nat)
      /\ f.activeBytes \in Int /\ f.flushBytes \in Int /\ f.numPending \in Int
  BY <1>1 DEF FcRec
<1>7. \A s \in DOMAIN f.states :
         /\ f.states[s].dwpt \in Nat /\ f.states[s].bytesUsed \in Nat
         /\ f.states[s].flushPending \in BOOLEAN
         /\ f.states[s].flushPending => f.states[s].dwpt # None
  BY <1>2, <1>4 DEF StateRec, WellShaped, Uninitialized
<1> QED BY <1>1, <1>2, <1>3, <1>4, <1>5, <1>6, <1>7

\* setFlushPending
LEMMA Marked ==
  ASSUME NEW f, Good(f, dwpts), NEW s \in DOMAIN f.states, f.states[s].dwpt # None,
         ~f.states[s].flushPending, NEW g, g = SetFlushPending(f, s)
  PROVE  /\ Good(g, dwpts) /\ Kept(f, g) /\ Excess(g) = Excess(f)
         /\ dwpts[f.states[s].dwpt].docs # 0 => g.states[s].flushPending
         /\ g = f \/ OnlyAt(f, g, s, [f.states[s] EXCEPT !.flushPending = TRUE])
<1> DEFINE d == f.states[s].dwpt
           x == [f.states[s] EXCEPT !.flushPending = TRUE]
<1>1. /\ f \in FcRec /\ IsFiniteSet(f.flushingWriters) /\ f.states[s] \in StateRec
      /\ d \in Nat /\ f.states[s].bytesUsed \in Nat /\ d \in InStates(f)
      /\ f.activeBytes \in Int /\ f.flushBytes \in Int /\ f.numPending \in Int
      /\ InStates(f) \cap Blocked(f) = {} /\ InStates(f) \cap Flushed(f) = {}
      /\ None \notin InStates(f) /\ WritersSeparate(f) /\ Queueing(f)
      /\ Excess(f) \in Int /\ WaitingBytes(f) \in Int
  <2>1. Cardinality(PendingIn(f)) \in Nat
    BY GoodFields, PartsFinite, FS_CardinalityType
  <2> QED BY <2>1, GoodFields DEF Excess, WaitingBytes
<1>2. CASE numDocsInRAM(d) = 0
  <2>1. g = f
    BY <1>2 DEF SetFlushPending
  <2> QED BY <1>2, <2>1 DEF Kept, SameQueues, numDocsInRAM
<1>3. CASE numDocsInRAM(d) # 0
  <2>1. g = [f EXCEPT !.states[s].flushPending = TRUE,
                      !.flushBytes = f.flushBytes + f.states[s].bytesUsed,
                      !.activeBytes = f.activeBytes - f.states[s].bytesUsed,
                      !.numPending = f.numPending + 1]
    BY <1>3 DEF SetFlushPending
  <2>2. /\ x \in StateRec /\ x.dwpt = d /\ x.bytesUsed = f.states[s].bytesUsed /\ x.flushPending
    BY <1>1 DEF StateRec
  <2>3. g.states = [f.states EXCEPT ![s] = x]
    BY <1>1, <2>1 DEF FcRec
  <2>4. OnlyAt(f, g, s, x)
    BY <2>3 DEF OnlyAt
  <2>5. /\ SameQueues(f, g) /\ g.activeBytes = f.activeBytes - f.states[s].bytesUsed
        /\ g.flushBytes = f.flushBytes + f.states[s].bytesUsed
        /\ g.numPending = f.numPending + 1
    BY <1>1, <2>1 DEF FcRec, SameQueues
  <2>6. Typed(g)
    <3>1. f.states \in Seq(StateRec)
      BY GoodFields
    <3>2. g.states \in Seq(StateRec)
      BY <2>2, <2>3, <3>1
    <3>3. g = [f EXCEPT !.states = g.states, !.flushBytes = g.flushBytes,
                        !.activeBytes = g.activeBytes, !.numPending = g.numPending]
      BY <1>1, <2>1 DEF FcRec
    <3>4. g.activeBytes \in Int /\ g.flushBytes \in Int /\ g.numPending \in Int
      BY <1>1, <2>5
    <3>5. g \in FcRec
      BY <1>1, <3>2, <3>3, <3>4 DEF FcRec
    <3> QED BY <1>1, <2>5, <3>5 DEF Typed, SameQueues
  <2> HIDE DEF x
  <2>7. /\ WritersSeparate(g) /\ Queueing(g) /\ WaitingBytes(g) = WaitingBytes(f)
        /\ Blocked(g) = Blocked(f) /\ Flushed(g) = Flushed(f)
    BY <1>1, <2>5 DEF SameQueues, WritersSeparate, Queueing, WaitingBytes, Blocked, Flushed
  <2>8. /\ WellShaped(x, dwpts) /\ ActivePart(x) = 0 /\ PendingPart(x) = f.states[s].bytesUsed
        /\ One(x) = 1 /\ ActivePart(f.states[s]) = f.states[s].bytesUsed
        /\ PendingPart(f.states[s]) = 0 /\ One(f.states[s]) = 0
    BY <1>3, <2>2 DEF WellShaped, numDocsInRAM, ActivePart, PendingPart, One
  <2>9. /\ Good(g, dwpts)
        /\ Excess(g) = Excess(f) + (g.numPending - f.numPending) + One(f.states[s]) - One(x)
    <3>1. x.dwpt # None => x.dwpt \notin InStates(f) \ {d}
      BY <2>2
    <3>2. ((InStates(f) \ {d}) \cup ({x.dwpt} \ {None})) \cap (Blocked(g) \cup Flushed(g)) = {}
      BY <1>1, <2>2, <2>7
    <3>3. /\ g.activeBytes = f.activeBytes - ActivePart(f.states[s]) + ActivePart(x)
          /\ g.flushBytes - WaitingBytes(g)
               = f.flushBytes - WaitingBytes(f) - PendingPart(f.states[s]) + PendingPart(x)
      BY <1>1, <2>5, <2>7, <2>8
    <3> QED BY <2>2, <2>4, <2>6, <2>7, <2>8, <3>1, <3>2, <3>3, OneState
  <2>10. Excess(g) = Excess(f)
    BY <1>1, <2>5, <2>8, <2>9
  <2>11. Kept(f, g) /\ g.states[s].flushPending
    BY <2>2, <2>4, <2>5 DEF Kept, OnlyAt
  <2> QED BY <2>4, <2>9, <2>10, <2>11 DEF x
<1> QED BY <1>2, <1>3

\* checkOutForFlush: the pending DWPT of s is flushing.
LEMMA CheckedOut ==
  ASSUME NEW f, NEW table, Good(f, table), NEW s \in DOMAIN f.states, f.states[s].flushPending,
         NEW g, g = CheckOut(f, s)
  PROVE  /\ Good(g, table) /\ Excess(g) = Excess(f) /\ OnlyAt(f, g, s, Uninitialized)
         /\ f.states[s].dwpt \in InStates(f)
         /\ InStates(g) = InStates(f) \ {f.states[s].dwpt}
         /\ Flushed(g) = Flushed(f) \cup {f.states[s].dwpt} /\ Blocked(g) = Blocked(f)
         /\ g.blockedFlushes = f.blockedFlushes /\ g.flushQueue = f.flushQueue
         /\ g.fullFlushBuffer = f.fullFlushBuffer /\ g.fullFlush = f.fullFlush
<1> DEFINE d == f.states[s].dwpt
           w == [dwpt |-> d, bytes |-> f.states[s].bytesUsed]
<1>1. /\ f \in FcRec /\ d \in InStates(f) /\ d # None /\ Queueing(f) /\ WritersSeparate(f)
      /\ f.states \in Seq(StateRec) /\ f.states[s].bytesUsed \in Nat /\ d \in Nat
      /\ f.numPending \in Int /\ f.flushBytes \in Int /\ f.activeBytes \in Int
      /\ f.flushingWriters \subseteq Flushing /\ IsFiniteSet(f.flushingWriters)
      /\ WriterSum(f.flushingWriters) \in Nat /\ WriterSum(Range(f.blockedFlushes)) \in Nat
      /\ InStates(f) \cap Blocked(f) = {} /\ InStates(f) \cap Flushed(f) = {}
      /\ Blocked(f) \cap Flushed(f) = {} /\ None \notin InStates(f)
  BY GoodFields
<1>2. Excess(f) \in Int
  <2>1. Cardinality(PendingIn(f)) \in Nat
    BY GoodFields, PartsFinite, FS_CardinalityType
  <2> QED BY <1>1, <2>1 DEF Excess
<1>3. /\ g.flushingWriters = f.flushingWriters \cup {w}
      /\ g.numPending = f.numPending - 1 /\ g.activeBytes = f.activeBytes
      /\ g.flushBytes = f.flushBytes /\ g.flushQueue = f.flushQueue
      /\ g.fullFlushBuffer = f.fullFlushBuffer /\ g.blockedFlushes = f.blockedFlushes
      /\ g.fullFlush = f.fullFlush
  BY <1>1 DEF CheckOut, FcRec
<1>4. /\ g.states = [f.states EXCEPT ![s] = Uninitialized]
      /\ g = [f EXCEPT !.states = g.states, !.flushingWriters = g.flushingWriters,
                       !.numPending = g.numPending]
  BY <1>1 DEF CheckOut, FcRec
<1>5. OnlyAt(f, g, s, Uninitialized)
  BY <1>4 DEF OnlyAt
<1>6. w \in Flushing /\ w.dwpt = d /\ w.bytes = f.states[s].bytesUsed
  BY <1>1 DEF Flushing
<1> HIDE DEF w
<1>7. w.dwpt \notin DwptsOf(f.flushingWriters)
  BY <1>1, <1>6 DEF Flushed
<1>8. /\ g.flushingWriters \subseteq Flushing /\ IsFiniteSet(g.flushingWriters)
      /\ Flushed(g) = Flushed(f) \cup {d}
      /\ ByDwpt(f.flushingWriters) => ByDwpt(g.flushingWriters)
      /\ WriterSum(g.flushingWriters) = WriterSum(f.flushingWriters) + f.states[s].bytesUsed
  <2>1. /\ f.flushingWriters \cup {w} \subseteq Flushing
        /\ IsFiniteSet(f.flushingWriters \cup {w})
        /\ DwptsOf(f.flushingWriters \cup {w}) = DwptsOf(f.flushingWriters) \cup {w.dwpt}
        /\ ByDwpt(f.flushingWriters) => ByDwpt(f.flushingWriters \cup {w})
        /\ WriterSum(f.flushingWriters \cup {w}) = WriterSum(f.flushingWriters) + w.bytes
    BY <1>1, <1>6, <1>7, WriterAdded
  <2> QED BY <1>3, <1>6, <2>1 DEF Flushed
<1>9. Typed(g)
  <2>1. g.states \in Seq(StateRec)
    <3>1. Uninitialized \in StateRec
      BY UninitializedShape
    <3> QED BY <1>1, <1>4, <3>1
  <2>2. g.numPending \in Int
    BY <1>1, <1>3
  <2>3. g \in FcRec
    BY <1>1, <1>3, <1>8, <1>4, <2>1, <2>2 DEF FcRec
  <2> QED BY <1>8, <2>3 DEF Typed
<1>10. /\ Blocked(g) = Blocked(f) /\ WritersSeparate(g)
  BY <1>1, <1>3, <1>8 DEF Blocked, WritersSeparate
<1>11. Queueing(g)
  BY <1>1, <1>3, <1>8 DEF Queueing
<1>12. /\ ActivePart(f.states[s]) = 0 /\ PendingPart(f.states[s]) = f.states[s].bytesUsed
       /\ One(f.states[s]) = 1
  BY DEF ActivePart, PendingPart, One
<1>13. /\ WaitingBytes(g) = WaitingBytes(f) + f.states[s].bytesUsed /\ WaitingBytes(f) \in Int
  BY <1>1, <1>3, <1>8 DEF WaitingBytes
<1>14. /\ ActivePart(Uninitialized) = 0 /\ PendingPart(Uninitialized) = 0
      /\ One(Uninitialized) = 0 /\ Uninitialized.dwpt = None
  BY UninitializedShape
<1>15. /\ Good(g, table)
       /\ InStates(g) = (InStates(f) \ {d}) \cup ({Uninitialized.dwpt} \ {None})
       /\ Excess(g) = Excess(f) + (g.numPending - f.numPending) + One(f.states[s])
                        - One(Uninitialized)
  <2>1. ((InStates(f) \ {d}) \cup ({Uninitialized.dwpt} \ {None}))
           \cap (Blocked(g) \cup Flushed(g)) = {}
    BY <1>1, <1>8, <1>10, UninitializedShape
  <2>2. g.activeBytes = f.activeBytes - ActivePart(f.states[s]) + ActivePart(Uninitialized)
    BY <1>1, <1>3, <1>12, <1>14
  <2>3. g.flushBytes - WaitingBytes(g)
           = f.flushBytes - WaitingBytes(f) - PendingPart(f.states[s]) + PendingPart(Uninitialized)
    BY <1>1, <1>3, <1>12, <1>13, <1>14
  <2>4. /\ Uninitialized \in StateRec /\ WellShaped(Uninitialized, table)
        /\ Uninitialized.dwpt = None
    BY UninitializedShape
  <2> QED BY <1>5, <1>9, <1>10, <1>11, <2>1, <2>2, <2>3, <2>4, OneState
<1> QED
  <2>1. Excess(g) = Excess(f)
    <3>1. g.numPending - f.numPending = 0 - 1 /\ One(f.states[s]) - One(Uninitialized) = 1
      BY <1>1, <1>3, <1>12, <1>14
    <3>2. One(f.states[s]) = 1 /\ One(Uninitialized) = 0
      BY <1>12, <1>14
    <3> QED BY <1>2, <1>15, <3>1, <3>2
  <2>2. InStates(g) = InStates(f) \ {d}
    BY <1>15, <1>14
  <2> QED BY <1>1, <1>3, <1>5, <1>8, <1>10, <1>15, <2>1, <2>2

\* checkoutAndBlock: the pending DWPT of s is blocked.
LEMMA Blocking ==
  ASSUME NEW f, NEW table, Good(f, table), NEW s \in DOMAIN f.states, f.states[s].flushPending,
         NEW g, g = Block(f, s)
  PROVE  /\ Good(g, table) /\ Excess(g) = Excess(f) /\ OnlyAt(f, g, s, Uninitialized)
         /\ f.states[s].dwpt \in InStates(f)
         /\ InStates(g) = InStates(f) \ {f.states[s].dwpt}
         /\ Blocked(g) = Blocked(f) \cup {f.states[s].dwpt} /\ Flushed(g) = Flushed(f)
         /\ g.flushingWriters = f.flushingWriters /\ g.flushQueue = f.flushQueue
         /\ g.fullFlushBuffer = f.fullFlushBuffer /\ g.fullFlush = f.fullFlush
<1> DEFINE d == f.states[s].dwpt
           w == [dwpt |-> d, bytes |-> f.states[s].bytesUsed]
<1>1. /\ f \in FcRec /\ d \in InStates(f) /\ d # None /\ Queueing(f) /\ WritersSeparate(f)
      /\ f.states \in Seq(StateRec) /\ f.states[s].bytesUsed \in Nat /\ d \in Nat
      /\ f.numPending \in Int /\ f.flushBytes \in Int /\ f.activeBytes \in Int
      /\ f.blockedFlushes \in Seq(Flushing) /\ IsFiniteSet(Range(f.blockedFlushes))
      /\ Range(f.blockedFlushes) \subseteq Flushing /\ IsFiniteSet(f.flushingWriters)
      /\ WriterSum(f.flushingWriters) \in Nat /\ WriterSum(Range(f.blockedFlushes)) \in Nat
      /\ InStates(f) \cap Blocked(f) = {} /\ InStates(f) \cap Flushed(f) = {}
      /\ Blocked(f) \cap Flushed(f) = {} /\ None \notin InStates(f)
  BY GoodFields
<1>2. Excess(f) \in Int
  <2>1. Cardinality(PendingIn(f)) \in Nat
    BY GoodFields, PartsFinite, FS_CardinalityType
  <2> QED BY <1>1, <2>1 DEF Excess
<1>3. /\ g.blockedFlushes = Append(f.blockedFlushes, w)
      /\ g.numPending = f.numPending - 1 /\ g.activeBytes = f.activeBytes
      /\ g.flushBytes = f.flushBytes /\ g.flushQueue = f.flushQueue
      /\ g.fullFlushBuffer = f.fullFlushBuffer /\ g.flushingWriters = f.flushingWriters
      /\ g.fullFlush = f.fullFlush
  BY <1>1 DEF Block, FcRec
<1>4. /\ g.states = [f.states EXCEPT ![s] = Uninitialized]
      /\ g = [f EXCEPT !.states = g.states, !.blockedFlushes = g.blockedFlushes,
                       !.numPending = g.numPending]
  BY <1>1 DEF Block, FcRec
<1>5. OnlyAt(f, g, s, Uninitialized)
  BY <1>4 DEF OnlyAt
<1>6. w \in Flushing /\ w.dwpt = d /\ w.bytes = f.states[s].bytesUsed
  BY <1>1 DEF Flushing
<1> HIDE DEF w
<1>7. w.dwpt \notin DwptsOf(Range(f.blockedFlushes)) /\ w \notin Range(f.blockedFlushes)
  BY <1>1, <1>6 DEF Blocked, DwptsOf
<1>8. /\ g.blockedFlushes \in Seq(Flushing)
      /\ Range(g.blockedFlushes) = Range(f.blockedFlushes) \cup {w}
      /\ Injective(f.blockedFlushes) => Injective(g.blockedFlushes)
  BY <1>1, <1>3, <1>6, <1>7, Appended
<1>9. /\ Blocked(g) = Blocked(f) \cup {d}
      /\ ByDwpt(Range(f.blockedFlushes)) => ByDwpt(Range(g.blockedFlushes))
      /\ WriterSum(Range(g.blockedFlushes))
           = WriterSum(Range(f.blockedFlushes)) + f.states[s].bytesUsed
  <2> DEFINE R == Range(f.blockedFlushes)
  <2>1. /\ IsFiniteSet(R) /\ R \subseteq Flushing /\ w.dwpt \notin DwptsOf(R)
    BY <1>1, <1>7
  <2>2. /\ DwptsOf(R \cup {w}) = DwptsOf(R) \cup {w.dwpt}
        /\ ByDwpt(R) => ByDwpt(R \cup {w})
        /\ WriterSum(R \cup {w}) = WriterSum(R) + w.bytes
    <3> HIDE DEF R
    <3> QED BY <1>6, <2>1, WriterAdded
  <2> QED BY <1>6, <1>8, <2>2 DEF Blocked
<1>10. Typed(g)
  <2>1. g.states \in Seq(StateRec)
    <3>1. Uninitialized \in StateRec
      BY UninitializedShape
    <3> QED BY <1>1, <1>4, <3>1
  <2>2. g.numPending \in Int
    BY <1>1, <1>3
  <2>3. g \in FcRec
    BY <1>1, <1>3, <1>8, <1>4, <2>1, <2>2 DEF FcRec
  <2> QED BY <1>1, <1>3, <2>3 DEF Typed
<1>11. /\ Flushed(g) = Flushed(f) /\ WritersSeparate(g) /\ Queueing(g)
  BY <1>1, <1>3, <1>8, <1>9 DEF Flushed, WritersSeparate, Queueing
<1>12. /\ ActivePart(f.states[s]) = 0 /\ PendingPart(f.states[s]) = f.states[s].bytesUsed
       /\ One(f.states[s]) = 1
  BY DEF ActivePart, PendingPart, One
<1>13. /\ WaitingBytes(g) = WaitingBytes(f) + f.states[s].bytesUsed /\ WaitingBytes(f) \in Int
  <2>1. WriterSum(g.flushingWriters) = WriterSum(f.flushingWriters)
    BY <1>3
  <2>2. WriterSum(Range(g.blockedFlushes))
           = WriterSum(Range(f.blockedFlushes)) + f.states[s].bytesUsed
    BY <1>9
  <2>3. /\ WriterSum(f.flushingWriters) \in Int /\ WriterSum(Range(f.blockedFlushes)) \in Int
        /\ f.states[s].bytesUsed \in Int
    BY <1>1
  <2> QED BY <2>1, <2>2, <2>3 DEF WaitingBytes
<1>14. /\ ActivePart(Uninitialized) = 0 /\ PendingPart(Uninitialized) = 0
      /\ One(Uninitialized) = 0 /\ Uninitialized.dwpt = None
  BY UninitializedShape
<1>15. /\ Good(g, table)
       /\ InStates(g) = (InStates(f) \ {d}) \cup ({Uninitialized.dwpt} \ {None})
       /\ Excess(g) = Excess(f) + (g.numPending - f.numPending) + One(f.states[s])
                        - One(Uninitialized)
  <2>1. ((InStates(f) \ {d}) \cup ({Uninitialized.dwpt} \ {None}))
           \cap (Blocked(g) \cup Flushed(g)) = {}
    BY <1>1, <1>9, <1>11, UninitializedShape
  <2>2. g.activeBytes = f.activeBytes - ActivePart(f.states[s]) + ActivePart(Uninitialized)
    BY <1>1, <1>3, <1>12, <1>14
  <2>3. g.flushBytes - WaitingBytes(g)
           = f.flushBytes - WaitingBytes(f) - PendingPart(f.states[s]) + PendingPart(Uninitialized)
    BY <1>1, <1>3, <1>12, <1>13, <1>14
  <2>4. /\ Uninitialized \in StateRec /\ WellShaped(Uninitialized, table)
        /\ Uninitialized.dwpt = None
    BY UninitializedShape
  <2> QED BY <1>5, <1>10, <1>11, <2>1, <2>2, <2>3, <2>4, OneState
<1> QED
  <2>1. Excess(g) = Excess(f)
    <3>1. g.numPending - f.numPending = 0 - 1 /\ One(f.states[s]) - One(Uninitialized) = 1
      BY <1>1, <1>3, <1>12, <1>14
    <3>2. One(f.states[s]) = 1 /\ One(Uninitialized) = 0
      BY <1>12, <1>14
    <3> QED BY <1>2, <1>15, <3>1, <3>2
  <2>2. InStates(g) = InStates(f) \ {d}
    BY <1>15, <1>14
  <2> QED BY <1>1, <1>3, <1>5, <1>9, <1>11, <1>15, <2>1, <2>2

\* The sums over the ThreadStates are numbers.
LEMMA PendingSum ==
  ASSUME NEW f, Typed(f)
  PROVE  /\ StateSum(f, PendingIn(f)) \in Nat /\ StateSum(f, OthersIn(f)) \in Nat
         /\ Cardinality(PendingIn(f)) \in Nat
<1>1. /\ IsFiniteSet(PendingIn(f)) /\ IsFiniteSet(OthersIn(f))
      /\ \A r \in DOMAIN f.states : f.states[r] \in StateRec
  BY PartsFinite
<1>2. PendingIn(f) \subseteq DOMAIN f.states /\ OthersIn(f) \subseteq DOMAIN f.states
  BY DEF PendingIn, OthersIn
<1>3. BytesIn(f, PendingIn(f)) /\ BytesIn(f, OthersIn(f))
  BY <1>1, <1>2 DEF BytesIn, StateRec
<1>4. /\ AlikeBut(PendingIn(f), PendingIn(f), 0) /\ BytesBut(f, f, PendingIn(f), 0)
      /\ AlikeBut(OthersIn(f), OthersIn(f), 0) /\ BytesBut(f, f, OthersIn(f), 0)
  BY DEF AlikeBut, BytesBut
<1>5. StateSum(f, PendingIn(f)) \in Nat
  BY <1>1, <1>3, <1>4, StateSumStep
<1>6. StateSum(f, OthersIn(f)) \in Nat
  BY <1>1, <1>3, <1>4, StateSumStep
<1> QED BY <1>1, <1>5, <1>6, FS_CardinalityType

\* A record that differs in the queues and the counter numPending at most
LEMMA StatesKept ==
  ASSUME NEW f, NEW table, Good(f, table), NEW g, Typed(g), g.states = f.states,
         WritersSeparate(g), Queueing(g), InStates(f) \cap (Blocked(g) \cup Flushed(g)) = {},
         g.activeBytes = f.activeBytes,
         g.flushBytes - WaitingBytes(g) = f.flushBytes - WaitingBytes(f)
  PROVE  /\ Good(g, table) /\ InStates(g) = InStates(f)
         /\ g.numPending = f.numPending => Excess(g) = Excess(f)
<1>1. Typed(f) /\ Separate(f) /\ Shaped(f, table) /\ Counted(f)
  BY DEF Good
<1>2. /\ InStates(g) = InStates(f) /\ PendingIn(g) = PendingIn(f) /\ OthersIn(g) = OthersIn(f)
      /\ StateSum(g, OthersIn(g)) = StateSum(f, OthersIn(f))
      /\ StateSum(g, PendingIn(g)) = StateSum(f, PendingIn(f))
  BY DEF InStates, PendingIn, OthersIn, StateSum
<1>3. Separate(g)
  BY <1>1, <1>2 DEF Separate, WritersSeparate
<1>4. Shaped(g, table)
  BY <1>1 DEF Shaped
<1>5. /\ WriterSum(f.flushingWriters) \in Nat /\ WriterSum(Range(f.blockedFlushes)) \in Nat
      /\ WriterSum(g.flushingWriters) \in Nat /\ WriterSum(Range(g.blockedFlushes)) \in Nat
      /\ f.flushBytes \in Int /\ g.flushBytes \in Int
  <2>1. WriterSum(f.flushingWriters) \in Nat /\ WriterSum(Range(f.blockedFlushes)) \in Nat
    BY <1>1, PartsFinite, WriterSums
  <2>2. WriterSum(g.flushingWriters) \in Nat /\ WriterSum(Range(g.blockedFlushes)) \in Nat
    BY PartsFinite, WriterSums
  <2> QED BY <1>1, <2>1, <2>2 DEF Typed, FcRec
<1>6. StateSum(f, PendingIn(f)) \in Int
  BY <1>1, <1>5, PendingSum
<1>7. Counted(g)
  BY <1>1, <1>2, <1>5, <1>6 DEF Counted, WaitingBytes
<1> QED BY <1>2, <1>3, <1>4, <1>7 DEF Good, Excess

\* pollFlush: the head of the queue is in somebody's hands.
LEMMA PolledOut ==
  ASSUME NEW f, NEW table, Good(f, table), NEW g, g = PollFlush(f)
  PROVE  /\ Good(g, table) /\ Excess(g) = Excess(f) /\ g.states = f.states
         /\ InStates(g) = InStates(f) /\ Flushed(g) = Flushed(f) /\ Blocked(g) = Blocked(f)
         /\ g.flushingWriters = f.flushingWriters /\ g.blockedFlushes = f.blockedFlushes
         /\ g.fullFlushBuffer = f.fullFlushBuffer /\ g.fullFlush = f.fullFlush
         /\ g.activeBytes = f.activeBytes /\ g.flushBytes = f.flushBytes
         /\ g.numPending = f.numPending
         /\ f.flushQueue = <<>> => g = f /\ Polled(f) = None
         /\ f.flushQueue # <<>> => /\ Polled(f) \in Range(f.flushQueue)
                                   /\ Range(g.flushQueue) = Range(f.flushQueue) \ {Polled(f)}
<1>1. /\ f \in FcRec /\ Queueing(f) /\ WritersSeparate(f) /\ IsFiniteSet(f.flushingWriters)
      /\ f.flushQueue \in Seq(Nat)
      /\ InStates(f) \cap Blocked(f) = {} /\ InStates(f) \cap Flushed(f) = {}
  BY GoodFields
<1>2. CASE f.flushQueue = <<>>
  <2>1. g = f /\ Polled(f) = None
    BY <1>2 DEF PollFlush, Polled
  <2> QED BY <1>2, <2>1
<1>3. CASE f.flushQueue # <<>>
  <2>1. /\ g.flushQueue = Tail(f.flushQueue) /\ g.states = f.states
        /\ g.flushingWriters = f.flushingWriters /\ g.blockedFlushes = f.blockedFlushes
        /\ g.fullFlushBuffer = f.fullFlushBuffer /\ g.fullFlush = f.fullFlush
        /\ g.activeBytes = f.activeBytes /\ g.flushBytes = f.flushBytes
        /\ g.numPending = f.numPending
    BY <1>1, <1>3 DEF PollFlush, FcRec
  <2>2. Polled(f) = Head(f.flushQueue)
    BY <1>3 DEF Polled
  <2>3. Injective(f.flushQueue)
    BY <1>1 DEF Queueing
  <2>4. /\ g.flushQueue \in Seq(Nat) /\ Polled(f) \in Range(f.flushQueue)
        /\ Range(g.flushQueue) = Range(f.flushQueue) \ {Polled(f)} /\ Injective(g.flushQueue)
    BY <1>1, <1>3, <2>1, <2>2, <2>3, Polling
  <2>5. Typed(g)
    <3>1. g = [f EXCEPT !.flushQueue = g.flushQueue]
      BY <1>1, <1>3 DEF PollFlush, FcRec
    <3>2. g \in FcRec
      BY <1>1, <2>4, <3>1 DEF FcRec
    <3> QED BY <1>1, <2>1, <3>2 DEF Typed
  <2>6. Flushed(g) = Flushed(f) /\ Blocked(g) = Blocked(f) /\ WaitingBytes(g) = WaitingBytes(f)
    BY <2>1 DEF Flushed, Blocked, WaitingBytes
  <2>7. WritersSeparate(g)
    BY <1>1, <2>1, <2>6 DEF WritersSeparate
  <2>8. Queueing(g)
    BY <1>1, <2>1, <2>4, <2>6 DEF Queueing
  <2>9. InStates(f) \cap (Blocked(g) \cup Flushed(g)) = {}
    BY <1>1, <2>6
  <2>10. /\ Good(g, table) /\ InStates(g) = InStates(f)
         /\ g.numPending = f.numPending => Excess(g) = Excess(f)
    BY <2>1, <2>5, <2>6, <2>7, <2>8, <2>9, StatesKept
  <2> QED BY <1>3, <2>1, <2>4, <2>6, <2>10
<1> QED BY <1>2, <1>3

\* A change of one ThreadState that leaves the queues alone
StateOnly(f, g, s, x) ==
    /\ g.states = [f.states EXCEPT ![s] = x] /\ SameQueues(f, g) /\ g.numPending \in Int
    /\ g = [f EXCEPT !.states = g.states, !.activeBytes = g.activeBytes,
                     !.flushBytes = g.flushBytes, !.numPending = g.numPending]
    /\ g.activeBytes = f.activeBytes - ActivePart(f.states[s]) + ActivePart(x)
    /\ g.flushBytes = f.flushBytes - PendingPart(f.states[s]) + PendingPart(x)
\* DWPT d, or none, can be put into the ThreadState s.
FitsIn(f, s, d) == \/ d = None
                   \/ d \notin Blocked(f) \cup Flushed(f) \cup (InStates(f) \ {f.states[s].dwpt})

StateResult(f, g, s, x, table) ==
    /\ Good(g, table) /\ Blocked(g) = Blocked(f) /\ Flushed(g) = Flushed(f)
    /\ InStates(g) = (InStates(f) \ {f.states[s].dwpt}) \cup ({x.dwpt} \ {None})
    /\ Excess(g) = Excess(f) + (g.numPending - f.numPending) + One(f.states[s]) - One(x)
    /\ OnlyAt(f, g, s, x)

LEMMA OneStateOnly ==
  ASSUME NEW f, NEW table, Good(f, table), NEW g, NEW s \in DOMAIN f.states,
         NEW x \in StateRec, StateOnly(f, g, s, x), WellShaped(x, table), FitsIn(f, s, x.dwpt)
  PROVE  StateResult(f, g, s, x, table)
<1>1. /\ f \in FcRec /\ Queueing(f) /\ WritersSeparate(f) /\ IsFiniteSet(f.flushingWriters)
      /\ f.states \in Seq(StateRec) /\ f.states[s] \in StateRec
      /\ f.activeBytes \in Int /\ f.flushBytes \in Int
      /\ InStates(f) \cap Blocked(f) = {} /\ InStates(f) \cap Flushed(f) = {}
      /\ WriterSum(f.flushingWriters) \in Nat /\ WriterSum(Range(f.blockedFlushes)) \in Nat
  BY GoodFields
<1>2. /\ ActivePart(f.states[s]) \in Nat /\ ActivePart(x) \in Nat
      /\ PendingPart(f.states[s]) \in Nat /\ PendingPart(x) \in Nat
  BY <1>1 DEF StateRec, ActivePart, PendingPart
<1>3. Typed(g)
  <2>1. g.states \in Seq(StateRec)
    <3>1. g.states = [f.states EXCEPT ![s] = x]
      BY DEF StateOnly
    <3> QED BY <1>1, <3>1
  <2>2. g.activeBytes \in Int /\ g.flushBytes \in Int
    BY <1>1, <1>2 DEF StateOnly
  <2>3. g \in FcRec
    BY <1>1, <2>1, <2>2 DEF FcRec, StateOnly
  <2> QED BY <1>1, <2>3 DEF Typed, SameQueues, StateOnly
<1>4. /\ WritersSeparate(g) /\ Queueing(g) /\ WaitingBytes(g) = WaitingBytes(f)
      /\ Blocked(g) = Blocked(f) /\ Flushed(g) = Flushed(f)
  BY <1>1 DEF StateOnly, SameQueues, WritersSeparate, Queueing, WaitingBytes, Blocked, Flushed
<1>5. x.dwpt # None => x.dwpt \notin InStates(f) \ {f.states[s].dwpt}
  BY DEF FitsIn
<1>6. ((InStates(f) \ {f.states[s].dwpt}) \cup ({x.dwpt} \ {None}))
         \cap (Blocked(g) \cup Flushed(g)) = {}
  BY <1>1, <1>4 DEF FitsIn
<1>7. g.flushBytes - WaitingBytes(g)
        = f.flushBytes - WaitingBytes(f) - PendingPart(f.states[s]) + PendingPart(x)
  <2>1. WaitingBytes(f) \in Int
    BY <1>1 DEF WaitingBytes
  <2> QED BY <1>1, <1>2, <1>4, <2>1 DEF StateOnly
<1>8. /\ Good(g, table)
      /\ InStates(g) = (InStates(f) \ {f.states[s].dwpt}) \cup ({x.dwpt} \ {None})
      /\ Excess(g) = Excess(f) + (g.numPending - f.numPending) + One(f.states[s]) - One(x)
      /\ OnlyAt(f, g, s, x)
  <2>1. OnlyAt(f, g, s, x)
    BY DEF OnlyAt, StateOnly
  <2>2. g.activeBytes = f.activeBytes - ActivePart(f.states[s]) + ActivePart(x)
    BY DEF StateOnly
  <2> QED BY <1>3, <1>4, <1>5, <1>6, <1>7, <2>1, <2>2, OneState
<1> QED BY <1>4, <1>8 DEF StateResult

LEMMA BytesOfDwpt ==
  ASSUME NEW d, dwpts[d].docs \in Nat
  PROVE  bytesUsed(d) \in Nat /\ (dwpts[d].docs = 0 => bytesUsed(d) = 0)
<1> DEFINE n == dwpts[d].docs
           b == IF d % 2 = 0 THEN BigDocBytes ELSE DocBytes
<1>1. n \in Nat /\ b \in Nat
  BY LimitsAssumption
<1>2. bytesUsed(d) = n * b
  BY DEF bytesUsed
<1> HIDE DEF n, b
<1>3. n * b \in Nat /\ (n = 0 => n * b = 0)
  BY <1>1
<1> QED BY <1>2, <1>3 DEF n

\* commitPerThreadBytes
LEMMA Committed ==
  ASSUME NEW f, Good(f, dwpts), NEW s \in DOMAIN f.states, f.states[s].dwpt # None,
         dwpts[f.states[s].dwpt].docs \in Nat, NEW g, g = CommitPerThreadBytes(f, s)
  PROVE  /\ Good(g, dwpts) /\ Kept(f, g) /\ Excess(g) = Excess(f)
         /\ \E b \in Nat : OnlyAt(f, g, s, [f.states[s] EXCEPT !.bytesUsed = b])
<1> DEFINE d == f.states[s].dwpt
           x == [f.states[s] EXCEPT !.bytesUsed = bytesUsed(d)]
           old == f.states[s].bytesUsed
           delta == bytesUsed(d) - old
<1>1. /\ f \in FcRec /\ f.states[s] \in StateRec /\ old \in Nat /\ d \in Nat /\ d \in InStates(f)
      /\ f.activeBytes \in Int /\ f.flushBytes \in Int /\ f.numPending \in Int
      /\ InStates(f) \cap Blocked(f) = {} /\ InStates(f) \cap Flushed(f) = {}
      /\ WellShaped(f.states[s], dwpts)
  BY GoodFields
<1>2. Excess(f) \in Int
  BY <1>1, GoodFields, PendingSum DEF Excess
<1>3. bytesUsed(d) \in Nat /\ (dwpts[d].docs = 0 => bytesUsed(d) = 0)
  BY BytesOfDwpt
<1>4. old + delta = bytesUsed(d)
  BY <1>1, <1>3
<1>5. /\ x \in StateRec /\ x.dwpt = d /\ x.bytesUsed = bytesUsed(d)
      /\ x.flushPending = f.states[s].flushPending
  BY <1>1, <1>3 DEF StateRec
<1>6. [f.states[s] EXCEPT !.bytesUsed = old + delta] = x
  BY <1>1, <1>4 DEF StateRec
<1>7. /\ g.states = [f.states EXCEPT ![s] = x]
      /\ SameQueues(f, g) /\ g.numPending = f.numPending
      /\ g.activeBytes = IF f.states[s].flushPending THEN f.activeBytes
                         ELSE f.activeBytes + delta
      /\ g.flushBytes = IF f.states[s].flushPending THEN f.flushBytes + delta ELSE f.flushBytes
      /\ g = [f EXCEPT !.states = g.states, !.activeBytes = g.activeBytes,
                       !.flushBytes = g.flushBytes, !.numPending = g.numPending]
  <2>1. CASE f.states[s].flushPending
    <3>1. g = [f EXCEPT !.states[s].bytesUsed = old + delta, !.flushBytes = f.flushBytes + delta]
      BY <2>1 DEF CommitPerThreadBytes
    <3>2. g.states = [f.states EXCEPT ![s] = [f.states[s] EXCEPT !.bytesUsed = old + delta]]
      BY <1>1, <3>1 DEF FcRec
    <3>3. /\ SameQueues(f, g) /\ g.numPending = f.numPending /\ g.activeBytes = f.activeBytes
          /\ g.flushBytes = f.flushBytes + delta
          /\ g = [f EXCEPT !.states = g.states, !.activeBytes = g.activeBytes,
                           !.flushBytes = g.flushBytes, !.numPending = g.numPending]
      BY <1>1, <3>1 DEF FcRec, SameQueues
    <3> QED BY <1>6, <2>1, <3>2, <3>3
  <2>2. CASE ~f.states[s].flushPending
    <3>1. g = [f EXCEPT !.states[s].bytesUsed = old + delta, !.activeBytes = f.activeBytes + delta]
      BY <2>2 DEF CommitPerThreadBytes
    <3>2. g.states = [f.states EXCEPT ![s] = [f.states[s] EXCEPT !.bytesUsed = old + delta]]
      BY <1>1, <3>1 DEF FcRec
    <3>3. /\ SameQueues(f, g) /\ g.numPending = f.numPending /\ g.flushBytes = f.flushBytes
          /\ g.activeBytes = f.activeBytes + delta
          /\ g = [f EXCEPT !.states = g.states, !.activeBytes = g.activeBytes,
                           !.flushBytes = g.flushBytes, !.numPending = g.numPending]
      BY <1>1, <3>1 DEF FcRec, SameQueues
    <3> QED BY <1>6, <2>2, <3>2, <3>3
  <2> QED BY <2>1, <2>2
<1>8. OnlyAt(f, g, s, x)
  BY <1>7 DEF OnlyAt
<1>9. WellShaped(x, dwpts)
  <2>1. x.dwpt # None
    BY <1>5
  <2>2. dwpts[d].docs = 0 => ~f.states[s].flushPending
    BY <1>1 DEF WellShaped
  <2> QED BY <1>3, <1>5, <2>1, <2>2 DEF WellShaped
<1>10. /\ g.activeBytes = f.activeBytes - ActivePart(f.states[s]) + ActivePart(x)
       /\ g.flushBytes = f.flushBytes - PendingPart(f.states[s]) + PendingPart(x)
       /\ One(x) = One(f.states[s]) /\ One(x) \in Nat
  <2> DEFINE p == f.states[s].flushPending
             n == bytesUsed(d)
             y == f.states[s]
  <2>1. /\ y.flushPending = p /\ x.flushPending = p /\ x.bytesUsed = n /\ y.bytesUsed = old
        /\ n \in Nat /\ old \in Nat /\ f.activeBytes \in Int /\ f.flushBytes \in Int
        /\ delta = n - old
        /\ g.activeBytes = IF p THEN f.activeBytes ELSE f.activeBytes + delta
        /\ g.flushBytes = IF p THEN f.flushBytes + delta ELSE f.flushBytes
    BY <1>1, <1>3, <1>5, <1>7
  <2> HIDE DEF p, n, x, y, old, delta
  <2>2. CASE p
    BY <2>1, <2>2 DEF ActivePart, PendingPart, One, y
  <2>3. CASE ~p
    BY <2>1, <2>3 DEF ActivePart, PendingPart, One, y
  <2> QED BY <2>2, <2>3
<1>11. FitsIn(f, s, x.dwpt)
  BY <1>1, <1>5 DEF FitsIn
<1>12. StateOnly(f, g, s, x)
  BY <1>1, <1>7, <1>10 DEF StateOnly
<1> HIDE DEF x
<1>13. /\ Good(g, dwpts)
       /\ Excess(g) = Excess(f) + (g.numPending - f.numPending) + One(f.states[s]) - One(x)
  <2>1. x \in StateRec
    BY <1>5
  <2>2. StateResult(f, g, s, x, dwpts)
    BY <1>9, <1>11, <1>12, <2>1, OneStateOnly
  <2> QED BY <2>2 DEF StateResult
<1>14. Excess(g) = Excess(f)
  <2>1. g.numPending - f.numPending = 0
    BY <1>1, <1>7
  <2>2. One(f.states[s]) = One(x) /\ One(x) \in Int
    BY <1>10
  <2> QED BY <1>2, <1>13, <2>1, <2>2
<1>15. Kept(f, g)
  BY <1>5, <1>7, <1>8 DEF Kept, OnlyAt
<1> QED BY <1>3, <1>8, <1>13, <1>14, <1>15 DEF x

\* ThreadState.reset of a state that is not pending: its DWPT is forgotten.
LEMMA Emptied ==
  ASSUME NEW f, NEW table, Good(f, table), NEW s \in DOMAIN f.states,
         ~f.states[s].flushPending, f.states[s].bytesUsed = 0,
         NEW g, g = [f EXCEPT !.states[s] = Uninitialized]
  PROVE  /\ Good(g, table) /\ Excess(g) = Excess(f) /\ OnlyAt(f, g, s, Uninitialized)
         /\ SameQueues(f, g) /\ Blocked(g) = Blocked(f) /\ Flushed(g) = Flushed(f)
         /\ InStates(g) = InStates(f) \ {f.states[s].dwpt}
<1>1. /\ f \in FcRec /\ f.activeBytes \in Int /\ f.flushBytes \in Int /\ f.numPending \in Int
  BY GoodFields
<1>2. Excess(f) \in Int
  BY <1>1, GoodFields, PendingSum DEF Excess
<1>3. /\ g.states = [f.states EXCEPT ![s] = Uninitialized] /\ SameQueues(f, g)
      /\ g.activeBytes = f.activeBytes /\ g.flushBytes = f.flushBytes
      /\ g.numPending = f.numPending
      /\ g = [f EXCEPT !.states = g.states, !.activeBytes = g.activeBytes,
                       !.flushBytes = g.flushBytes, !.numPending = g.numPending]
  BY <1>1 DEF FcRec, SameQueues
<1>4. OnlyAt(f, g, s, Uninitialized)
  BY <1>3 DEF OnlyAt
<1>5. /\ ActivePart(f.states[s]) = 0 /\ PendingPart(f.states[s]) = 0 /\ One(f.states[s]) = 0
  BY DEF ActivePart, PendingPart, One
<1>6. /\ Uninitialized \in StateRec /\ WellShaped(Uninitialized, table)
      /\ Uninitialized.dwpt = None /\ ActivePart(Uninitialized) = 0
      /\ PendingPart(Uninitialized) = 0 /\ One(Uninitialized) = 0
  BY UninitializedShape
<1>7. /\ g.activeBytes = f.activeBytes - ActivePart(f.states[s]) + ActivePart(Uninitialized)
      /\ g.flushBytes = f.flushBytes - PendingPart(f.states[s]) + PendingPart(Uninitialized)
      /\ g.numPending \in Int
  BY <1>1, <1>3, <1>5, <1>6
<1>8. /\ Good(g, table) /\ Blocked(g) = Blocked(f) /\ Flushed(g) = Flushed(f)
      /\ InStates(g) = (InStates(f) \ {f.states[s].dwpt}) \cup ({Uninitialized.dwpt} \ {None})
      /\ Excess(g) = Excess(f) + (g.numPending - f.numPending) + One(f.states[s])
                       - One(Uninitialized)
  <2>1. StateOnly(f, g, s, Uninitialized)
    BY <1>3, <1>7 DEF StateOnly
  <2>2. FitsIn(f, s, Uninitialized.dwpt)
    BY <1>6 DEF FitsIn
  <2>3. Uninitialized \in StateRec /\ WellShaped(Uninitialized, table)
    BY <1>6
  <2>4. StateResult(f, g, s, Uninitialized, table)
    BY <2>1, <2>2, <2>3, OneStateOnly
  <2> QED BY <2>4 DEF StateResult
<1>9. Excess(g) = Excess(f)
  BY <1>1, <1>2, <1>3, <1>5, <1>6, <1>8
<1> QED BY <1>3, <1>4, <1>6, <1>8, <1>9

\* doOnAbort: what the state counted is gone, its place in numPending is not.
LEMMA AbortedState ==
  ASSUME NEW f, NEW table, Good(f, table), NEW s \in DOMAIN f.states, NEW g, g = DoOnAbort(f, s)
  PROVE  /\ Good(g, table) /\ Excess(g) = Excess(f) + One(f.states[s])
         /\ OnlyAt(f, g, s, Uninitialized)
         /\ SameQueues(f, g) /\ Blocked(g) = Blocked(f) /\ Flushed(g) = Flushed(f)
         /\ InStates(g) = InStates(f) \ {f.states[s].dwpt}
<1>1. /\ f \in FcRec /\ f.activeBytes \in Int /\ f.flushBytes \in Int /\ f.numPending \in Int
      /\ f.states[s].bytesUsed \in Nat
  BY GoodFields
<1>2. Excess(f) \in Int
  BY <1>1, GoodFields, PendingSum DEF Excess
<1>3. /\ g.states = [f.states EXCEPT ![s] = Uninitialized] /\ SameQueues(f, g)
      /\ g.activeBytes = f.activeBytes - ActivePart(f.states[s])
      /\ g.flushBytes = f.flushBytes - PendingPart(f.states[s])
      /\ g.numPending = f.numPending
      /\ g = [f EXCEPT !.states = g.states, !.activeBytes = g.activeBytes,
                       !.flushBytes = g.flushBytes, !.numPending = g.numPending]
  <2>1. CASE f.states[s].flushPending
    <3>1. g = [f EXCEPT !.states[s] = Uninitialized,
                        !.flushBytes = f.flushBytes - f.states[s].bytesUsed]
      BY <2>1 DEF DoOnAbort
    <3>2. /\ g.states = [f.states EXCEPT ![s] = Uninitialized] /\ SameQueues(f, g)
          /\ g.activeBytes = f.activeBytes /\ g.numPending = f.numPending
          /\ g.flushBytes = f.flushBytes - f.states[s].bytesUsed
          /\ g = [f EXCEPT !.states = g.states, !.activeBytes = g.activeBytes,
                           !.flushBytes = g.flushBytes, !.numPending = g.numPending]
      BY <1>1, <3>1 DEF FcRec, SameQueues
    <3>3. ActivePart(f.states[s]) = 0 /\ PendingPart(f.states[s]) = f.states[s].bytesUsed
      BY <2>1 DEF ActivePart, PendingPart
    <3>4. f.activeBytes - 0 = f.activeBytes
      BY <1>1
    <3> QED BY <3>2, <3>3, <3>4
  <2>2. CASE ~f.states[s].flushPending
    <3>1. g = [f EXCEPT !.states[s] = Uninitialized,
                        !.activeBytes = f.activeBytes - f.states[s].bytesUsed]
      BY <2>2 DEF DoOnAbort
    <3>2. /\ g.states = [f.states EXCEPT ![s] = Uninitialized] /\ SameQueues(f, g)
          /\ g.flushBytes = f.flushBytes /\ g.numPending = f.numPending
          /\ g.activeBytes = f.activeBytes - f.states[s].bytesUsed
          /\ g = [f EXCEPT !.states = g.states, !.activeBytes = g.activeBytes,
                           !.flushBytes = g.flushBytes, !.numPending = g.numPending]
      BY <1>1, <3>1 DEF FcRec, SameQueues
    <3>3. PendingPart(f.states[s]) = 0 /\ ActivePart(f.states[s]) = f.states[s].bytesUsed
      BY <2>2 DEF ActivePart, PendingPart
    <3>4. f.flushBytes - 0 = f.flushBytes
      BY <1>1
    <3> QED BY <3>2, <3>3, <3>4
  <2> QED BY <2>1, <2>2
<1>4. OnlyAt(f, g, s, Uninitialized)
  BY <1>3 DEF OnlyAt
<1>5. /\ ActivePart(f.states[s]) \in Nat /\ PendingPart(f.states[s]) \in Nat
      /\ One(f.states[s]) \in Nat
  BY <1>1 DEF ActivePart, PendingPart, One
<1>6. /\ Uninitialized \in StateRec /\ WellShaped(Uninitialized, table)
      /\ Uninitialized.dwpt = None /\ ActivePart(Uninitialized) = 0
      /\ PendingPart(Uninitialized) = 0 /\ One(Uninitialized) = 0
  BY UninitializedShape
<1>7. /\ g.activeBytes = f.activeBytes - ActivePart(f.states[s]) + ActivePart(Uninitialized)
      /\ g.flushBytes = f.flushBytes - PendingPart(f.states[s]) + PendingPart(Uninitialized)
      /\ g.numPending \in Int
  BY <1>1, <1>3, <1>5, <1>6
<1>8. /\ Good(g, table) /\ Blocked(g) = Blocked(f) /\ Flushed(g) = Flushed(f)
      /\ InStates(g) = (InStates(f) \ {f.states[s].dwpt}) \cup ({Uninitialized.dwpt} \ {None})
      /\ Excess(g) = Excess(f) + (g.numPending - f.numPending) + One(f.states[s])
                       - One(Uninitialized)
  <2>1. StateOnly(f, g, s, Uninitialized)
    BY <1>3, <1>7 DEF StateOnly
  <2>2. FitsIn(f, s, Uninitialized.dwpt)
    BY <1>6 DEF FitsIn
  <2>3. Uninitialized \in StateRec /\ WellShaped(Uninitialized, table)
    BY <1>6
  <2>4. StateResult(f, g, s, Uninitialized, table)
    BY <2>1, <2>2, <2>3, OneStateOnly
  <2> QED BY <2>4 DEF StateResult
<1>9. Excess(g) = Excess(f) + One(f.states[s])
  BY <1>1, <1>2, <1>3, <1>5, <1>6, <1>8
<1> QED BY <1>3, <1>4, <1>6, <1>8, <1>9

\* ensureInitialized: a new DWPT n, which is nowhere yet and has no documents
LEMMA Initialized ==
  ASSUME NEW f, NEW table, Good(f, table), NEW s \in DOMAIN f.states, f.states[s].dwpt = None,
         NEW n \in Nat \ {None}, n \notin InStates(f) \cup Blocked(f) \cup Flushed(f),
         NEW g, g = [f EXCEPT !.states[s].dwpt = n]
  PROVE  /\ Good(g, table) /\ Excess(g) = Excess(f) /\ SameQueues(f, g)
         /\ OnlyAt(f, g, s, [Uninitialized EXCEPT !.dwpt = n])
         /\ Blocked(g) = Blocked(f) /\ Flushed(g) = Flushed(f)
         /\ InStates(g) = InStates(f) \cup {n}
<1> DEFINE x == [Uninitialized EXCEPT !.dwpt = n]
<1>1. /\ f \in FcRec /\ f.activeBytes \in Int /\ f.flushBytes \in Int /\ f.numPending \in Int
      /\ f.states[s] \in StateRec /\ f.states[s] = Uninitialized /\ None \notin InStates(f)
  BY GoodFields DEF WellShaped
<1>2. Excess(f) \in Int
  BY <1>1, GoodFields, PendingSum DEF Excess
<1>3. /\ x \in StateRec /\ x.dwpt = n /\ x.bytesUsed = 0 /\ x.flushPending = FALSE
  BY <1>1 DEF Uninitialized, StateRec
<1>4. /\ g.states = [f.states EXCEPT ![s] = x]
      /\ SameQueues(f, g) /\ g.numPending = f.numPending
      /\ g.activeBytes = f.activeBytes /\ g.flushBytes = f.flushBytes
      /\ g = [f EXCEPT !.states = g.states, !.activeBytes = g.activeBytes,
                       !.flushBytes = g.flushBytes, !.numPending = g.numPending]
  BY <1>1 DEF FcRec, SameQueues
<1>5. OnlyAt(f, g, s, x)
  BY <1>4 DEF OnlyAt
<1> HIDE DEF x
<1>6. WellShaped(x, table) /\ ActivePart(x) = 0 /\ PendingPart(x) = 0 /\ One(x) = 0
  BY <1>3 DEF WellShaped, ActivePart, PendingPart, One
<1>7. /\ ActivePart(f.states[s]) = 0 /\ PendingPart(f.states[s]) = 0 /\ One(f.states[s]) = 0
  BY <1>1, UninitializedShape
<1>8. /\ g.activeBytes = f.activeBytes - ActivePart(f.states[s]) + ActivePart(x)
      /\ g.flushBytes = f.flushBytes - PendingPart(f.states[s]) + PendingPart(x)
      /\ g.numPending \in Int
  BY <1>1, <1>4, <1>6, <1>7
<1>9. FitsIn(f, s, x.dwpt)
  BY <1>3 DEF FitsIn
<1>10. /\ Good(g, table) /\ Blocked(g) = Blocked(f) /\ Flushed(g) = Flushed(f)
       /\ InStates(g) = (InStates(f) \ {f.states[s].dwpt}) \cup ({x.dwpt} \ {None})
       /\ Excess(g) = Excess(f) + (g.numPending - f.numPending) + One(f.states[s]) - One(x)
  <2>1. StateOnly(f, g, s, x)
    BY <1>4, <1>8 DEF StateOnly
  <2>2. x \in StateRec /\ WellShaped(x, table)
    BY <1>3, <1>6
  <2>3. StateResult(f, g, s, x, table)
    BY <1>9, <2>1, <2>2, OneStateOnly
  <2> QED BY <2>3 DEF StateResult
<1>11. Excess(g) = Excess(f)
  BY <1>1, <1>2, <1>4, <1>6, <1>7, <1>10
<1>12. InStates(g) = InStates(f) \cup {n}
  BY <1>1, <1>3, <1>10
<1> QED BY <1>4, <1>5, <1>10, <1>11, <1>12 DEF x

\* What the policy does to a record: it may mark ThreadStates.
PolicyResult(f, g) == Good(g, dwpts) /\ Kept(f, g) /\ Excess(g) = Excess(f)
\* And it marks at most ThreadState s.
MarksOnly(f, g, s) == \A r \in DOMAIN f.states \ {s} :
                          g.states[r].flushPending = f.states[r].flushPending

LEMMA PolicyMarks ==
  ASSUME NEW f, Good(f, dwpts), NEW s \in DOMAIN f.states, f.states[s].dwpt # None,
         ~f.states[s].flushPending, NEW g, g = SetFlushPending(f, s)
  PROVE  PolicyResult(f, g) /\ MarksOnly(f, g, s)
<1>1. Good(g, dwpts) /\ Kept(f, g) /\ Excess(g) = Excess(f)
  BY Marked
<1>2. g = f \/ OnlyAt(f, g, s, [f.states[s] EXCEPT !.flushPending = TRUE])
  BY Marked
<1> QED BY <1>1, <1>2 DEF PolicyResult, MarksOnly, OnlyAt

LEMMA PolicyStays ==
  ASSUME NEW f, Good(f, dwpts)
  PROVE  PolicyResult(f, f) /\ \A s : MarksOnly(f, f, s)
BY DEF PolicyResult, MarksOnly, Kept, SameQueues

LEMMA PolicyTwice ==
  ASSUME NEW f, NEW g, NEW h, PolicyResult(f, g), PolicyResult(g, h)
  PROVE  /\ PolicyResult(f, h)
         /\ \A s : MarksOnly(f, g, s) /\ MarksOnly(g, h, s) => MarksOnly(f, h, s)
<1>1. PolicyResult(f, h)
  BY DEF PolicyResult, Kept, SameQueues
<1>2. DOMAIN g.states = DOMAIN f.states
  BY DEF PolicyResult, Kept
<1> QED BY <1>1, <1>2 DEF MarksOnly

\* findLargestNonPendingWriter finds a state with documents that is not pending.
LEMMA LargestIs ==
  ASSUME NEW f, NEW table, Good(f, table), LargestNonPending(f) # None
  PROVE  /\ LargestNonPending(f) \in DOMAIN f.states
         /\ ~f.states[LargestNonPending(f)].flushPending
         /\ f.states[LargestNonPending(f)].dwpt # None
<1> DEFINE candidates == {s \in DOMAIN f.states : /\ ~f.states[s].flushPending
                                                  /\ f.states[s].bytesUsed > 0
                                                  /\ numDocsInRAM(f.states[s].dwpt) > 0}
           best == {s \in candidates : \A o \in candidates :
                       \/ f.states[s].bytesUsed > f.states[o].bytesUsed
                       \/ f.states[s].bytesUsed = f.states[o].bytesUsed /\ s <= o}
<1>1. LargestNonPending(f) = IF best = {} THEN None ELSE CHOOSE s \in best : TRUE
  BY DEF LargestNonPending
<1>2. best \subseteq candidates
  OBVIOUS
<1> HIDE DEF best
<1>3. LargestNonPending(f) \in candidates
  BY <1>1, <1>2
<1>4. \A s \in DOMAIN f.states : f.states[s].dwpt = None => f.states[s].bytesUsed = 0
  <2> SUFFICES ASSUME NEW s \in DOMAIN f.states, f.states[s].dwpt = None
               PROVE  f.states[s].bytesUsed = 0
    OBVIOUS
  <2>1. WellShaped(f.states[s], table)
    BY GoodFields
  <2> QED BY <2>1 DEF WellShaped, Uninitialized
<1> QED BY <1>3, <1>4

LEMMA PolicyLargest ==
  ASSUME NEW f, Good(f, dwpts)
  PROVE  PolicyResult(f, MarkLargest(f))
<1>1. CASE LargestNonPending(f) = None
  BY <1>1, PolicyStays DEF MarkLargest
<1>2. CASE LargestNonPending(f) # None
  <2> DEFINE s == LargestNonPending(f)
  <2>1. s \in DOMAIN f.states /\ ~f.states[s].flushPending /\ f.states[s].dwpt # None
    BY <1>2, LargestIs
  <2>2. MarkLargest(f) = SetFlushPending(f, s)
    BY <1>2 DEF MarkLargest
  <2> HIDE DEF s
  <2> QED BY <2>1, <2>2, PolicyMarks
<1> QED BY <1>1, <1>2

\* FlushByRamOrCountsPolicy::onInsert, with a limit in documents only
LEMMA PolicyInserts ==
  ASSUME NEW f, Good(f, dwpts), NEW s \in DOMAIN f.states, f.states[s].dwpt # None,
         ~f.states[s].flushPending
  PROVE  /\ PolicyResult(f, OnInsert(f, s))
         /\ RamLimit = 0 => MarksOnly(f, OnInsert(f, s), s)
<1>1. CASE MaxBufferedDocs > 0 /\ numDocsInRAM(f.states[s].dwpt) >= MaxBufferedDocs
  BY <1>1, PolicyMarks DEF OnInsert
<1>2. CASE /\ ~(MaxBufferedDocs > 0 /\ numDocsInRAM(f.states[s].dwpt) >= MaxBufferedDocs)
           /\ RamLimit > 0 /\ f.activeBytes >= RamLimit
  <2>1. OnInsert(f, s) = MarkLargest(f) /\ RamLimit # 0
    BY <1>2, LimitsAssumption DEF OnInsert
  <2> QED BY <2>1, PolicyLargest
<1>3. CASE /\ ~(MaxBufferedDocs > 0 /\ numDocsInRAM(f.states[s].dwpt) >= MaxBufferedDocs)
           /\ ~(RamLimit > 0 /\ f.activeBytes >= RamLimit)
  <2>1. OnInsert(f, s) = f
    BY <1>3 DEF OnInsert
  <2> QED BY <2>1, PolicyStays
<1> QED BY <1>1, <1>2, <1>3

\* The policy, then the hard limit
LEMMA PolicyApplied ==
  ASSUME NEW f, Good(f, dwpts), NEW s \in DOMAIN f.states, f.states[s].dwpt # None
  PROVE  /\ PolicyResult(f, ApplyPolicy(f, s))
         /\ RamLimit = 0 => MarksOnly(f, ApplyPolicy(f, s), s)
<1> DEFINE g == IF f.states[s].flushPending THEN f ELSE OnInsert(f, s)
           over == /\ ~f.states[s].flushPending /\ ~g.states[s].flushPending
                   /\ g.states[s].bytesUsed > HardMaxBytesPerDWPT
<1>1. ApplyPolicy(f, s) = IF over THEN SetFlushPending(g, s) ELSE g
  BY DEF ApplyPolicy
<1>2. over => ~g.states[s].flushPending
  OBVIOUS
<1>3. PolicyResult(f, g) /\ (RamLimit = 0 => MarksOnly(f, g, s))
  BY PolicyInserts, PolicyStays
<1> HIDE DEF g, over
<1>4. Good(g, dwpts) /\ s \in DOMAIN g.states /\ g.states[s].dwpt # None
  BY <1>3 DEF PolicyResult, Kept
<1>5. CASE over
  <2>1. PolicyResult(g, ApplyPolicy(f, s)) /\ MarksOnly(g, ApplyPolicy(f, s), s)
    BY <1>1, <1>2, <1>4, <1>5, PolicyMarks
  <2> QED BY <1>3, <2>1, PolicyTwice
<1>6. CASE ~over
  BY <1>1, <1>3, <1>6
<1> QED BY <1>5, <1>6

\* addFlushableState: the DWPT of s has left it, into the buffer or for good.
AddFlushableResult(f, g, s, table) ==
    /\ Good(g, table) /\ Excess(g) = Excess(f) /\ OnlyAt(f, g, s, Uninitialized)
    /\ f.states[s].dwpt \in InStates(f)
    /\ InStates(g) = InStates(f) \ {f.states[s].dwpt}
    /\ Blocked(g) = Blocked(f) /\ g.blockedFlushes = f.blockedFlushes
    /\ g.flushQueue = f.flushQueue /\ g.fullFlush = f.fullFlush
    /\ IF numDocsInRAM(f.states[s].dwpt) = 0
         THEN Flushed(g) = Flushed(f) /\ g.fullFlushBuffer = f.fullFlushBuffer
         ELSE /\ Flushed(g) = Flushed(f) \cup {f.states[s].dwpt}
              /\ Range(g.fullFlushBuffer) = Range(f.fullFlushBuffer) \cup {f.states[s].dwpt}

BufferResult(f, g, d, table) ==
    /\ Good(g, table) /\ Excess(g) = Excess(f) /\ g.states = f.states
    /\ InStates(g) = InStates(f) /\ Blocked(g) = Blocked(f) /\ Flushed(g) = Flushed(f)
    /\ g.blockedFlushes = f.blockedFlushes /\ g.flushQueue = f.flushQueue
    /\ g.fullFlush = f.fullFlush
    /\ Range(g.fullFlushBuffer) = Range(f.fullFlushBuffer) \cup {d}

LEMMA AddedToBuffer ==
  ASSUME NEW f, NEW table, Good(f, table), NEW d \in Flushed(f) \cap Nat,
         d \notin Range(f.flushQueue), d \notin Range(f.fullFlushBuffer),
         NEW g, g = [f EXCEPT !.fullFlushBuffer = Append(f.fullFlushBuffer, d)]
  PROVE  BufferResult(f, g, d, table)
<1>1. /\ f \in FcRec /\ Queueing(f) /\ WritersSeparate(f) /\ IsFiniteSet(f.flushingWriters)
      /\ f.fullFlushBuffer \in Seq(Nat)
      /\ InStates(f) \cap Blocked(f) = {} /\ InStates(f) \cap Flushed(f) = {}
  BY GoodFields
<1>2. /\ g.fullFlushBuffer = Append(f.fullFlushBuffer, d)
      /\ g.states = f.states /\ g.flushingWriters = f.flushingWriters
      /\ g.blockedFlushes = f.blockedFlushes /\ g.flushQueue = f.flushQueue
      /\ g.fullFlush = f.fullFlush /\ g.activeBytes = f.activeBytes
      /\ g.flushBytes = f.flushBytes /\ g.numPending = f.numPending
  BY <1>1 DEF FcRec
<1>3. g = [f EXCEPT !.fullFlushBuffer = g.fullFlushBuffer]
  BY <1>1 DEF FcRec
<1>4. /\ g.fullFlushBuffer \in Seq(Nat)
      /\ Range(g.fullFlushBuffer) = Range(f.fullFlushBuffer) \cup {d}
      /\ Injective(f.fullFlushBuffer) => Injective(g.fullFlushBuffer)
  BY <1>1, <1>2, Appended
<1>5. Typed(g)
  <2>1. g \in FcRec
    BY <1>1, <1>3, <1>4 DEF FcRec
  <2> QED BY <1>1, <1>2, <2>1 DEF Typed
<1>6. /\ WritersSeparate(g) /\ WaitingBytes(g) = WaitingBytes(f)
      /\ Blocked(g) = Blocked(f) /\ Flushed(g) = Flushed(f)
  BY <1>1, <1>2 DEF WritersSeparate, WaitingBytes, Blocked, Flushed
<1>7. Queueing(g)
  BY <1>1, <1>2, <1>4, <1>6 DEF Queueing
<1>8. InStates(f) \cap (Blocked(g) \cup Flushed(g)) = {}
  BY <1>1, <1>6
<1>9. Good(g, table)
  BY <1>2, <1>5, <1>6, <1>7, <1>8, StatesKept
<1>10. InStates(g) = InStates(f) /\ Excess(g) = Excess(f)
  BY <1>2 DEF InStates, Excess, PendingIn
<1> QED BY <1>2, <1>4, <1>6, <1>9, <1>10 DEF BufferResult

LEMMA Enrolled ==
  ASSUME NEW f, Good(f, dwpts), NEW s \in DOMAIN f.states, f.states[s].dwpt # None
  PROVE  AddFlushableResult(f, AddFlushable(f, s), s, dwpts)
<1> DEFINE d == f.states[s].dwpt
           m == IF f.states[s].flushPending THEN f ELSE SetFlushPending(f, s)
           c == CheckOut(m, s)
           g == AddFlushable(f, s)
<1>1. /\ WellShaped(f.states[s], dwpts) /\ d \in InStates(f) /\ d \in Nat
      /\ InStates(f) \cap Flushed(f) = {} /\ Queueing(f)
  BY GoodFields
<1>2. CASE numDocsInRAM(d) = 0
  <2>1. ~f.states[s].flushPending /\ f.states[s].bytesUsed = 0
    BY <1>1, <1>2 DEF WellShaped, numDocsInRAM
  <2>2. g = [f EXCEPT !.states[s] = Uninitialized]
    BY <1>2 DEF AddFlushable
  <2> HIDE DEF g
  <2>3. /\ Good(g, dwpts) /\ Excess(g) = Excess(f) /\ OnlyAt(f, g, s, Uninitialized)
        /\ SameQueues(f, g) /\ Blocked(g) = Blocked(f) /\ Flushed(g) = Flushed(f)
        /\ InStates(g) = InStates(f) \ {f.states[s].dwpt}
    BY <2>1, <2>2, Emptied
  <2>4. AddFlushableResult(f, g, s, dwpts)
    BY <1>1, <1>2, <2>3 DEF AddFlushableResult, SameQueues
  <2> QED BY <2>4 DEF g
<1>3. CASE numDocsInRAM(d) # 0
  <2>1. g = [c EXCEPT !.fullFlushBuffer = Append(f.fullFlushBuffer, d)]
    BY <1>3 DEF AddFlushable
  <2>2. /\ Good(m, dwpts) /\ Kept(f, m) /\ Excess(m) = Excess(f) /\ m.states[s].flushPending
        /\ \A r \in DOMAIN f.states \ {s} : m.states[r] = f.states[r]
    <3>1. CASE f.states[s].flushPending
      BY <3>1 DEF Kept, SameQueues
    <3>2. CASE ~f.states[s].flushPending
      <4>1. m = SetFlushPending(f, s)
        BY <3>2
      <4> HIDE DEF m
      <4>2. /\ Good(m, dwpts) /\ Kept(f, m) /\ Excess(m) = Excess(f)
            /\ dwpts[d].docs # 0 => m.states[s].flushPending
        BY <3>2, <4>1, Marked
      <4>3. m = f \/ OnlyAt(f, m, s, [f.states[s] EXCEPT !.flushPending = TRUE])
        BY <3>2, <4>1, Marked
      <4> QED BY <1>3, <4>2, <4>3 DEF numDocsInRAM, OnlyAt
    <3> QED BY <3>1, <3>2
  <2> HIDE DEF m
  <2>3. /\ DOMAIN m.states = DOMAIN f.states /\ m.states[s].dwpt = d /\ SameQueues(f, m)
        /\ InStates(m) = InStates(f) /\ Blocked(m) = Blocked(f) /\ Flushed(m) = Flushed(f)
    BY <2>2 DEF Kept, SameQueues, InStates, Blocked, Flushed
  <2> HIDE DEF c
  <2>4. /\ Good(c, dwpts) /\ Excess(c) = Excess(m) /\ OnlyAt(m, c, s, Uninitialized)
        /\ InStates(c) = InStates(f) \ {d}
        /\ Flushed(c) = Flushed(f) \cup {d} /\ Blocked(c) = Blocked(f)
        /\ c.blockedFlushes = f.blockedFlushes /\ c.flushQueue = f.flushQueue
        /\ c.fullFlushBuffer = f.fullFlushBuffer /\ c.fullFlush = f.fullFlush
    <3>1. c = CheckOut(m, s)
      BY DEF c
    <3>2. /\ Good(c, dwpts) /\ Excess(c) = Excess(m) /\ OnlyAt(m, c, s, Uninitialized)
          /\ InStates(c) = InStates(m) \ {m.states[s].dwpt}
          /\ Flushed(c) = Flushed(m) \cup {m.states[s].dwpt} /\ Blocked(c) = Blocked(m)
          /\ c.blockedFlushes = m.blockedFlushes /\ c.flushQueue = m.flushQueue
          /\ c.fullFlushBuffer = m.fullFlushBuffer /\ c.fullFlush = m.fullFlush
      BY <2>2, <2>3, <3>1, CheckedOut
    <3> QED BY <2>3, <3>2 DEF SameQueues
  <2>5. /\ d \in Flushed(c) \cap Nat
        /\ d \notin Range(c.flushQueue) /\ d \notin Range(c.fullFlushBuffer)
    BY <1>1, <2>4 DEF Queueing
  <2>6. g = [c EXCEPT !.fullFlushBuffer = Append(c.fullFlushBuffer, d)]
    BY <2>1, <2>4
  <2> HIDE DEF g
  <2>7. BufferResult(c, g, d, dwpts)
    BY <2>4, <2>5, <2>6, AddedToBuffer
  <2>8. OnlyAt(f, g, s, Uninitialized)
    BY <2>2, <2>3, <2>4, <2>7 DEF OnlyAt, BufferResult
  <2>9. AddFlushableResult(f, g, s, dwpts)
    BY <1>1, <1>3, <2>2, <2>4, <2>7, <2>8 DEF AddFlushableResult, BufferResult
  <2> QED BY <2>9 DEF g
<1> QED BY <1>2, <1>3

\* What the operations on the queues leave alone
QueueResult(f, g, table) ==
    /\ Good(g, table) /\ Excess(g) = Excess(f) /\ g.states = f.states
    /\ InStates(g) = InStates(f) /\ g.fullFlush = f.fullFlush

LEMMA QueuesOnly ==
  ASSUME NEW f, NEW table, Good(f, table), NEW g, Typed(g), g.states = f.states,
         WritersSeparate(g), Queueing(g), InStates(f) \cap (Blocked(g) \cup Flushed(g)) = {},
         g.activeBytes = f.activeBytes, g.numPending = f.numPending, g.fullFlush = f.fullFlush,
         g.flushBytes - WaitingBytes(g) = f.flushBytes - WaitingBytes(f)
  PROVE  QueueResult(f, g, table)
<1>1. Good(g, table)
  BY StatesKept
<1>2. InStates(g) = InStates(f) /\ Excess(g) = Excess(f)
  BY DEF InStates, Excess, PendingIn
<1> QED BY <1>1, <1>2 DEF QueueResult

\* doAfterFlush of a DWPT that waits in no queue
LEMMA FlushedOne ==
  ASSUME NEW f, NEW table, Good(f, table), NEW d \in Flushed(f),
         d \notin Range(f.flushQueue), d \notin Range(f.fullFlushBuffer),
         NEW g, g = AfterFlush(f, d)
  PROVE  /\ QueueResult(f, g, table) /\ Flushed(g) = Flushed(f) \ {d} /\ Blocked(g) = Blocked(f)
         /\ g.blockedFlushes = f.blockedFlushes /\ g.flushQueue = f.flushQueue
         /\ g.fullFlushBuffer = f.fullFlushBuffer
<1> DEFINE gone == {w \in f.flushingWriters : w.dwpt = d}
<1>1. /\ f \in FcRec /\ Queueing(f) /\ WritersSeparate(f) /\ IsFiniteSet(f.flushingWriters)
      /\ f.flushingWriters \subseteq Flushing /\ f.flushBytes \in Int
      /\ InStates(f) \cap Blocked(f) = {} /\ InStates(f) \cap Flushed(f) = {}
      /\ WriterSum(f.flushingWriters) \in Nat /\ WriterSum(Range(f.blockedFlushes)) \in Nat
  BY GoodFields
<1>2. PICK w \in f.flushingWriters : w.dwpt = d
  BY DEF Flushed, DwptsOf
<1>3. gone = {w}
  BY <1>1, <1>2 DEF WritersSeparate, ByDwpt
<1>4. (CHOOSE v \in gone : TRUE) = w
  BY <1>3
<1>5. g = [f EXCEPT !.flushingWriters = f.flushingWriters \ {w},
                    !.flushBytes = f.flushBytes - w.bytes]
  <2>1. g = [f EXCEPT !.flushingWriters = f.flushingWriters \ gone,
                      !.flushBytes = f.flushBytes - (CHOOSE v \in gone : TRUE).bytes]
    BY DEF AfterFlush
  <2> HIDE DEF gone
  <2> QED BY <1>3, <1>4, <2>1
<1>6. /\ g.flushingWriters = f.flushingWriters \ {w} /\ g.flushBytes = f.flushBytes - w.bytes
      /\ g.states = f.states /\ g.blockedFlushes = f.blockedFlushes
      /\ g.flushQueue = f.flushQueue /\ g.fullFlushBuffer = f.fullFlushBuffer
      /\ g.fullFlush = f.fullFlush /\ g.activeBytes = f.activeBytes
      /\ g.numPending = f.numPending
  BY <1>1, <1>5 DEF FcRec
<1>7. w \in Flushing /\ w.bytes \in Nat
  BY <1>1, <1>2 DEF Flushing
<1>8. /\ g.flushingWriters \subseteq Flushing /\ IsFiniteSet(g.flushingWriters)
      /\ Flushed(g) = Flushed(f) \ {d} /\ ByDwpt(g.flushingWriters)
      /\ WriterSum(g.flushingWriters) = WriterSum(f.flushingWriters) - w.bytes
  <2> DEFINE S == f.flushingWriters
  <2>1. ByDwpt(S)
    BY <1>1 DEF WritersSeparate
  <2>2. /\ S \ {w} \subseteq Flushing /\ IsFiniteSet(S \ {w})
        /\ DwptsOf(S \ {w}) = DwptsOf(S) \ {w.dwpt}
        /\ ByDwpt(S \ {w}) /\ WriterSum(S \ {w}) = WriterSum(S) - w.bytes
    BY <1>1, <1>2, <2>1, WriterRemoved
  <2> QED BY <1>2, <1>6, <2>2 DEF Flushed
<1>9. Typed(g)
  <2>1. g.flushBytes \in Int
    BY <1>1, <1>6, <1>7
  <2>2. g = [f EXCEPT !.flushingWriters = g.flushingWriters, !.flushBytes = g.flushBytes]
    BY <1>5, <1>6
  <2>3. g \in FcRec
    BY <1>1, <1>8, <2>1, <2>2 DEF FcRec
  <2> QED BY <1>8, <2>3 DEF Typed
<1>10. Blocked(g) = Blocked(f)
  BY <1>6 DEF Blocked
<1>11. WritersSeparate(g)
  BY <1>1, <1>6, <1>8, <1>10 DEF WritersSeparate
<1>12. Queueing(g)
  BY <1>1, <1>6, <1>8 DEF Queueing
<1>13. g.flushBytes - WaitingBytes(g) = f.flushBytes - WaitingBytes(f)
  <2>1. WriterSum(Range(g.blockedFlushes)) = WriterSum(Range(f.blockedFlushes))
    BY <1>6
  <2>2. WriterSum(g.flushingWriters) = WriterSum(f.flushingWriters) - w.bytes
    BY <1>8
  <2> QED BY <1>1, <1>6, <1>7, <2>1, <2>2 DEF WaitingBytes
<1>14. InStates(f) \cap (Blocked(g) \cup Flushed(g)) = {}
  BY <1>1, <1>8, <1>10
<1>15. QueueResult(f, g, table)
  BY <1>6, <1>9, <1>11, <1>12, <1>13, <1>14, QueuesOnly
<1> QED BY <1>6, <1>8, <1>10, <1>15

\* pruneBlockedQueue: what was blocked of queue q is flushing, and queued.
PruneResult(f, g, q) ==
    /\ QueueResult(f, g, dwpts) /\ g.fullFlushBuffer = f.fullFlushBuffer
    /\ Blocked(g) = {d \in Blocked(f) : dwpts[d].queue # q}
    /\ Flushed(g) = Flushed(f) \cup {d \in Blocked(f) : dwpts[d].queue = q}
    /\ Range(g.flushQueue) = Range(f.flushQueue) \cup {d \in Blocked(f) : dwpts[d].queue = q}

LEMMA Pruned ==
  ASSUME NEW f, Good(f, dwpts), NEW q
  PROVE  PruneResult(f, Prune(f, q), q)
<1> DEFINE bf == f.blockedFlushes
           ofQueue == {i \in DOMAIN bf : dwpts[bf[i].dwpt].queue = q}
           moved == Chosen(bf, ofQueue)
           others == DOMAIN bf \ ofQueue
           rest == Chosen(bf, others)
           M == [i \in DOMAIN moved |-> moved[i].dwpt]
           ds == {d \in Blocked(f) : dwpts[d].queue = q}
           g == Prune(f, q)
<1>1. /\ f \in FcRec /\ Queueing(f) /\ WritersSeparate(f) /\ IsFiniteSet(f.flushingWriters)
      /\ f.flushingWriters \subseteq Flushing /\ f.flushBytes \in Int
      /\ bf \in Seq(Flushing) /\ f.flushQueue \in Seq(Nat)
      /\ IsFiniteSet(Range(bf)) /\ Range(bf) \subseteq Flushing
      /\ InStates(f) \cap Blocked(f) = {} /\ InStates(f) \cap Flushed(f) = {}
      /\ Blocked(f) \cap Flushed(f) = {}
      /\ WriterSum(f.flushingWriters) \in Nat /\ WriterSum(Range(f.blockedFlushes)) \in Nat
  BY GoodFields
<1>2. Injective(bf) /\ ByDwpt(Range(bf)) /\ ByDwpt(f.flushingWriters)
  BY <1>1 DEF WritersSeparate
<1>3. /\ g = [f EXCEPT !.blockedFlushes = rest,
                       !.flushingWriters = f.flushingWriters \cup Range(moved),
                       !.flushQueue = f.flushQueue \o M]
  BY DEF Prune
<1>4. /\ moved \in Seq(Flushing) /\ Range(moved) = {bf[i] : i \in ofQueue}
      /\ Injective(moved)
  <2>1. /\ moved \in Seq(Flushing) /\ Range(moved) = {bf[i] : i \in ofQueue \cap DOMAIN bf}
        /\ (\A i, j \in DOMAIN bf : bf[i] = bf[j] => i = j)
              => \A i, j \in DOMAIN moved : moved[i] = moved[j] => i = j
    <3> HIDE DEF ofQueue
    <3> QED BY <1>1, ChosenElements
  <2>2. ofQueue \cap DOMAIN bf = ofQueue
    OBVIOUS
  <2> HIDE DEF moved, ofQueue
  <2> QED BY <1>2, <2>1, <2>2 DEF Injective
<1>5. /\ rest \in Seq(Flushing) /\ Range(rest) = {bf[i] : i \in others}
      /\ Injective(rest)
  <2>1. /\ rest \in Seq(Flushing) /\ Range(rest) = {bf[i] : i \in others \cap DOMAIN bf}
        /\ (\A i, j \in DOMAIN bf : bf[i] = bf[j] => i = j)
              => \A i, j \in DOMAIN rest : rest[i] = rest[j] => i = j
    <3> HIDE DEF ofQueue, others
    <3> QED BY <1>1, ChosenElements
  <2>2. others \cap DOMAIN bf = others
    OBVIOUS
  <2> HIDE DEF rest, others
  <2> QED BY <1>2, <2>1, <2>2 DEF Injective
<1>6. /\ Range(moved) = {w \in Range(bf) : dwpts[w.dwpt].queue = q}
      /\ Range(rest) = {w \in Range(bf) : dwpts[w.dwpt].queue # q}
  <2>1. Range(bf) = {bf[i] : i \in DOMAIN bf}
    BY DEF Range
  <2> HIDE DEF moved, rest
  <2>2. Range(moved) = {w \in Range(bf) : dwpts[w.dwpt].queue = q}
    BY <1>4, <2>1
  <2>3. Range(rest) = {w \in Range(bf) : dwpts[w.dwpt].queue # q}
    BY <1>5, <2>1
  <2> QED BY <2>2, <2>3
<1> HIDE DEF moved, rest, ofQueue, others
<1>7. /\ DwptsOf(Range(moved)) = ds /\ DwptsOf(Range(rest)) = Blocked(f) \ ds
  BY <1>6 DEF DwptsOf, Blocked
<1>8. /\ M \in Seq(Nat) /\ Range(M) = ds /\ Injective(M)
  <2>1. /\ DOMAIN moved = 1 .. Len(moved) /\ Len(moved) \in Nat
        /\ \A i \in DOMAIN moved : moved[i].dwpt \in Nat
    <3>1. /\ DOMAIN moved = 1 .. Len(moved) /\ Len(moved) \in Nat
          /\ \A i \in DOMAIN moved : moved[i] \in Flushing
      BY <1>4
    <3>2. \A w \in Flushing : w.dwpt \in Nat
      BY DEF Flushing
    <3> QED BY <3>1, <3>2
  <2>2. M \in Seq(Nat)
    BY <2>1
  <2>3. Range(M) = DwptsOf(Range(moved))
    BY DEF Range, DwptsOf
  <2>4. Injective(M)
    <3> SUFFICES ASSUME NEW i \in DOMAIN moved, NEW j \in DOMAIN moved,
                        moved[i].dwpt = moved[j].dwpt
                 PROVE  i = j
      BY DEF Injective
    <3>1. moved[i] \in Range(bf) /\ moved[j] \in Range(bf)
      BY <1>6 DEF Range
    <3>2. moved[i] = moved[j]
      BY <1>2, <3>1 DEF ByDwpt
    <3> QED BY <1>4, <3>2 DEF Injective
  <2> QED BY <1>7, <2>2, <2>3, <2>4
<1> HIDE DEF M
<1>9. ds \subseteq Blocked(f)
  OBVIOUS
<1>10. /\ f.flushQueue \o M \in Seq(Nat)
       /\ Range(f.flushQueue \o M) = Range(f.flushQueue) \cup ds
       /\ Injective(f.flushQueue \o M)
  <2>1. Range(f.flushQueue) \cap Range(M) = {} /\ Injective(f.flushQueue)
    BY <1>1, <1>8, <1>9 DEF Queueing
  <2> QED BY <1>1, <1>8, <2>1, Joined
<1> HIDE DEF ds
<1>11. /\ Range(moved) \subseteq Flushing /\ IsFiniteSet(Range(moved))
       /\ Range(rest) \subseteq Flushing /\ IsFiniteSet(Range(rest))
       /\ Range(moved) \cup Range(rest) = Range(bf) /\ Range(moved) \cap Range(rest) = {}
  <2>1. Range(moved) \subseteq Range(bf) /\ Range(rest) \subseteq Range(bf)
    BY <1>6
  <2>2. IsFiniteSet(Range(moved)) /\ IsFiniteSet(Range(rest))
    BY <1>1, <2>1, FS_Subset
  <2> QED BY <1>1, <1>6, <2>1, <2>2
<1>12. /\ g.blockedFlushes = rest /\ g.flushingWriters = f.flushingWriters \cup Range(moved)
       /\ g.flushQueue = f.flushQueue \o M /\ g.fullFlushBuffer = f.fullFlushBuffer
       /\ g.states = f.states /\ g.fullFlush = f.fullFlush
       /\ g.activeBytes = f.activeBytes /\ g.flushBytes = f.flushBytes
       /\ g.numPending = f.numPending
  BY <1>1, <1>3 DEF FcRec
<1>13. g = [f EXCEPT !.blockedFlushes = g.blockedFlushes, !.flushingWriters = g.flushingWriters,
                     !.flushQueue = g.flushQueue]
  BY <1>3, <1>12
<1> HIDE DEF g
<1>14. g.flushingWriters \subseteq Flushing /\ IsFiniteSet(g.flushingWriters)
  <2>1. IsFiniteSet(f.flushingWriters \cup Range(moved))
    BY <1>1, <1>11, FS_Union
  <2> QED BY <1>1, <1>11, <1>12, <2>1
<1>15. Typed(g)
  <2>1. g \in FcRec
    BY <1>1, <1>5, <1>10, <1>12, <1>13, <1>14 DEF FcRec
  <2> QED BY <1>14, <2>1 DEF Typed
<1>16. /\ Blocked(g) = Blocked(f) \ ds /\ Flushed(g) = Flushed(f) \cup ds
  BY <1>7, <1>12 DEF Blocked, Flushed, DwptsOf
<1>17. WritersSeparate(g)
  <2>1. ByDwpt(g.flushingWriters)
    <3>1. \A v \in f.flushingWriters, w \in Range(moved) : v.dwpt # w.dwpt
      <4>1. \A v \in f.flushingWriters : v.dwpt \in Flushed(f)
        BY DEF Flushed, DwptsOf
      <4>2. \A w \in Range(moved) : w.dwpt \in DwptsOf(Range(moved))
        BY DEF DwptsOf
      <4> QED BY <1>1, <1>7, <1>9, <4>1, <4>2
    <3>2. ByDwpt(Range(moved))
      BY <1>2, <1>6 DEF ByDwpt
    <3> QED BY <1>2, <1>12, <3>1, <3>2 DEF ByDwpt
  <2>2. ByDwpt(Range(g.blockedFlushes))
    BY <1>2, <1>6, <1>12 DEF ByDwpt
  <2>3. Blocked(g) \cap Flushed(g) = {}
    BY <1>1, <1>16
  <2> QED BY <1>5, <1>12, <2>1, <2>2, <2>3 DEF WritersSeparate
<1>18. Queueing(g)
  BY <1>1, <1>9, <1>10, <1>12, <1>16 DEF Queueing
<1>19. WaitingBytes(g) = WaitingBytes(f)
  <2>1. f.flushingWriters \cap Range(moved) = {}
    <3>1. \A v \in f.flushingWriters : v.dwpt \in Flushed(f)
      BY DEF Flushed, DwptsOf
    <3>2. \A w \in Range(moved) : w.dwpt \in DwptsOf(Range(moved))
      BY DEF DwptsOf
    <3> QED BY <1>1, <1>7, <1>9, <3>1, <3>2
  <2>2. WriterSum(g.flushingWriters) = WriterSum(f.flushingWriters) + WriterSum(Range(moved))
    BY <1>1, <1>11, <1>12, <2>1, WriterSums
  <2>3. WriterSum(Range(bf)) = WriterSum(Range(moved)) + WriterSum(Range(rest))
    BY <1>11, WriterSums
  <2>4. WriterSum(Range(moved)) \in Nat /\ WriterSum(Range(rest)) \in Nat
    BY <1>11, WriterSums
  <2> QED BY <1>1, <1>12, <2>2, <2>3, <2>4 DEF WaitingBytes
<1>20. InStates(f) \cap (Blocked(g) \cup Flushed(g)) = {}
  BY <1>1, <1>9, <1>16
<1>21. QueueResult(f, g, dwpts)
  BY <1>12, <1>15, <1>17, <1>18, <1>19, <1>20, QueuesOnly
<1>22. PruneResult(f, g, q)
  BY <1>10, <1>12, <1>16, <1>21 DEF PruneResult, ds
<1> QED BY <1>22 DEF g

\* moveFlushBuffer: pruneBlockedQueue for the old queue, and the buffer is queued.
MoveResult(f, g, q) ==
    /\ QueueResult(f, g, dwpts) /\ g.fullFlushBuffer = <<>>
    /\ Blocked(g) = {d \in Blocked(f) : dwpts[d].queue # q}
    /\ Flushed(g) = Flushed(f) \cup {d \in Blocked(f) : dwpts[d].queue = q}
    /\ Range(g.flushQueue) = Range(f.flushQueue) \cup Range(f.fullFlushBuffer)
                               \cup {d \in Blocked(f) : dwpts[d].queue = q}

LEMMA Moved ==
  ASSUME NEW f, Good(f, dwpts)
  PROVE  MoveResult(f, MovedToQueue(f), deleteQueue - 1)
<1> DEFINE p == Prune(f, deleteQueue - 1)
           g == MovedToQueue(f)
<1>1. PruneResult(f, p, deleteQueue - 1)
  BY Pruned
<1>2. g = [p EXCEPT !.flushQueue = p.flushQueue \o p.fullFlushBuffer, !.fullFlushBuffer = <<>>]
  BY DEF MovedToQueue
<1> HIDE DEF p, g
<1>3. /\ Good(p, dwpts) /\ p.states = f.states /\ InStates(p) = InStates(f)
      /\ Excess(p) = Excess(f) /\ p.fullFlush = f.fullFlush
  BY <1>1 DEF PruneResult, QueueResult
<1>4. /\ p \in FcRec /\ Queueing(p) /\ WritersSeparate(p) /\ IsFiniteSet(p.flushingWriters)
      /\ p.flushQueue \in Seq(Nat) /\ p.fullFlushBuffer \in Seq(Nat)
      /\ InStates(p) \cap Blocked(p) = {} /\ InStates(p) \cap Flushed(p) = {}
  BY <1>3, GoodFields
<1>5. /\ g.flushQueue = p.flushQueue \o p.fullFlushBuffer /\ g.fullFlushBuffer = <<>>
      /\ g.states = p.states /\ g.flushingWriters = p.flushingWriters
      /\ g.blockedFlushes = p.blockedFlushes /\ g.fullFlush = p.fullFlush
      /\ g.activeBytes = p.activeBytes /\ g.flushBytes = p.flushBytes
      /\ g.numPending = p.numPending
  BY <1>2, <1>4 DEF FcRec
<1>6. /\ g.flushQueue \in Seq(Nat)
      /\ Range(g.flushQueue) = Range(p.flushQueue) \cup Range(p.fullFlushBuffer)
      /\ Injective(g.flushQueue)
  <2>1. /\ Injective(p.flushQueue) /\ Injective(p.fullFlushBuffer)
        /\ Range(p.flushQueue) \cap Range(p.fullFlushBuffer) = {}
    BY <1>4 DEF Queueing
  <2> QED BY <1>4, <1>5, <2>1, Joined
<1>7. Typed(g)
  <2>1. g = [p EXCEPT !.flushQueue = g.flushQueue, !.fullFlushBuffer = g.fullFlushBuffer]
    BY <1>2, <1>5
  <2>2. g.fullFlushBuffer \in Seq(Nat)
    BY <1>5
  <2>3. g \in FcRec
    BY <1>4, <1>6, <2>1, <2>2 DEF FcRec
  <2> QED BY <1>4, <1>5, <2>3 DEF Typed
<1>8. /\ Flushed(g) = Flushed(p) /\ Blocked(g) = Blocked(p) /\ WaitingBytes(g) = WaitingBytes(p)
  BY <1>5 DEF Flushed, Blocked, WaitingBytes
<1>9. WritersSeparate(g)
  BY <1>4, <1>5, <1>8 DEF WritersSeparate
<1>10. Range(g.fullFlushBuffer) = {}
  BY <1>5 DEF Range
<1>11. Injective(g.fullFlushBuffer)
  BY <1>5 DEF Injective
<1>12. Queueing(g)
  BY <1>4, <1>6, <1>8, <1>10, <1>11 DEF Queueing
<1>13. InStates(p) \cap (Blocked(g) \cup Flushed(g)) = {}
  BY <1>4, <1>8
<1>14. g.flushBytes - WaitingBytes(g) = p.flushBytes - WaitingBytes(p)
  BY <1>5, <1>8
<1>15. QueueResult(p, g, dwpts)
  BY <1>3, <1>5, <1>7, <1>9, <1>12, <1>13, <1>14, QueuesOnly
<1>16. MoveResult(f, g, deleteQueue - 1)
  BY <1>1, <1>3, <1>5, <1>6, <1>8, <1>15 DEF MoveResult, PruneResult, QueueResult
<1> QED BY <1>16 DEF g

\* The bytes of the blocked DWPTs, counted by their places or by what they are
LEMMA BlockedBytes ==
  ASSUME NEW bf \in Seq(Flushing), Injective(bf)
  PROVE  SumFunction([i \in DOMAIN bf |-> bf[i].bytes]) = WriterSum(Range(bf))
<1> DEFINE a == [i \in DOMAIN bf |-> bf[i].bytes]
           R == Range(bf)
           c == [w \in R |-> w.bytes]
<1>1. /\ DOMAIN bf = 1 .. Len(bf) /\ Len(bf) \in Nat
      /\ \A i \in DOMAIN bf : bf[i] \in Flushing
  OBVIOUS
<1>2. IsFiniteSet(DOMAIN bf)
  BY <1>1, FS_Interval
<1>3. \A i \in DOMAIN bf : bf[i] \in R /\ bf[i].bytes \in Int
  BY <1>1 DEF Range, Flushing
<1>4. R = {bf[i] : i \in DOMAIN bf}
  BY DEF Range
<1> HIDE DEF R
<1>5. /\ DOMAIN a = DOMAIN bf /\ DOMAIN c = R
      /\ \A i \in DOMAIN bf : c[bf[i]] = a[i] /\ a[i] \in Int
  BY <1>3
<1>6. SumFunction(a) = SumFunctionOnSet(a, DOMAIN bf) /\ SumFunction(c) = SumFunctionOnSet(c, R)
  BY <1>5 DEF SumFunction
<1> HIDE DEF a, c
<1>7. \A i, j \in DOMAIN bf : bf[i] = bf[j] => i = j
  BY DEF Injective
<1>8. SumFunctionOnSet(a, DOMAIN bf) = SumFunctionOnSet(c, {bf[i] : i \in DOMAIN bf})
  BY <1>2, <1>5, <1>7, SumRenamed
<1>9. SumFunction(a) = SumFunction(c)
  BY <1>4, <1>6, <1>8
<1>10. WriterSum(Range(bf)) = SumFunction(c)
  BY DEF c, WriterSum, R
<1> QED BY <1>9, <1>10 DEF a

\* abortPendingFlushes: nothing is queued or blocked any more.
AbortResult(f, g, table) ==
    /\ QueueResult(f, g, table) /\ g.fullFlushBuffer = f.fullFlushBuffer
    /\ g.blockedFlushes = <<>> /\ Blocked(g) = {} /\ g.flushQueue = <<>>
    /\ Flushed(g) = Flushed(f) \ Range(f.flushQueue)

LEMMA AbortedPending ==
  ASSUME NEW f, NEW table, Good(f, table)
  PROVE  AbortResult(f, AbortPending(f), table)
<1> DEFINE queued == {w \in f.flushingWriters : w.dwpt \in Range(f.flushQueue)}
           bf == f.blockedFlushes
           g == AbortPending(f)
           W == f.flushingWriters
<1>1. /\ f \in FcRec /\ Queueing(f) /\ WritersSeparate(f) /\ IsFiniteSet(W)
      /\ W \subseteq Flushing /\ f.flushBytes \in Int
      /\ bf \in Seq(Flushing) /\ WriterSum(Range(bf)) \in Nat /\ WriterSum(W) \in Nat
      /\ InStates(f) \cap Blocked(f) = {} /\ InStates(f) \cap Flushed(f) = {}
  BY GoodFields
<1>2. Injective(bf) /\ ByDwpt(W)
  BY <1>1 DEF WritersSeparate
<1>3. SumFunction([i \in DOMAIN bf |-> bf[i].bytes]) = WriterSum(Range(bf))
  BY <1>1, <1>2, BlockedBytes
<1>4. g = [f EXCEPT !.flushingWriters = W \ queued, !.flushQueue = <<>>,
                    !.blockedFlushes = <<>>,
                    !.flushBytes = f.flushBytes - WriterSum(queued) - WriterSum(Range(bf))]
  <2>1. g = [f EXCEPT !.flushingWriters = W \ queued, !.flushQueue = <<>>,
                      !.blockedFlushes = <<>>,
                      !.flushBytes = f.flushBytes - SumFunction([w \in queued |-> w.bytes])
                                       - SumFunction([i \in DOMAIN bf |-> bf[i].bytes])]
    BY DEF AbortPending
  <2>2. WriterSum(queued) = SumFunction([w \in queued |-> w.bytes])
    BY DEF WriterSum
  <2> HIDE DEF queued, g
  <2> QED BY <1>3, <2>1, <2>2
<1>5. queued \subseteq W
  OBVIOUS
<1>6. DwptsOf(W \ queued) = DwptsOf(W) \ Range(f.flushQueue)
  BY <1>2 DEF DwptsOf, ByDwpt
<1> HIDE DEF queued
<1>7. /\ g.flushingWriters = W \ queued /\ g.flushQueue = <<>> /\ g.blockedFlushes = <<>>
      /\ g.flushBytes = f.flushBytes - WriterSum(queued) - WriterSum(Range(bf))
      /\ g.states = f.states /\ g.fullFlushBuffer = f.fullFlushBuffer
      /\ g.fullFlush = f.fullFlush /\ g.activeBytes = f.activeBytes
      /\ g.numPending = f.numPending
  BY <1>1, <1>4 DEF FcRec
<1>8. g = [f EXCEPT !.flushingWriters = g.flushingWriters, !.flushQueue = g.flushQueue,
                    !.blockedFlushes = g.blockedFlushes, !.flushBytes = g.flushBytes]
  BY <1>4, <1>7
<1> HIDE DEF g
<1>9. /\ IsFiniteSet(queued) /\ queued \subseteq Flushing /\ IsFiniteSet(W \ queued)
      /\ W \ queued \subseteq Flushing
  BY <1>1, <1>5, FS_Subset, FS_Difference
<1>10. /\ WriterSum(queued) \in Nat /\ WriterSum(W \ queued) \in Nat
       /\ WriterSum(W) = WriterSum(queued) + WriterSum(W \ queued)
  <2>1. queued \cap (W \ queued) = {} /\ queued \cup (W \ queued) = W
    BY <1>5
  <2>2. WriterSum(queued) \in Nat /\ WriterSum(W \ queued) \in Nat
    BY <1>9, WriterSums
  <2>3. WriterSum(queued \cup (W \ queued)) = WriterSum(queued) + WriterSum(W \ queued)
    BY <1>9, <2>1, WriterSums
  <2> QED BY <2>1, <2>2, <2>3
<1>11. Typed(g)
  <2>1. g.flushBytes \in Int
    BY <1>1, <1>7, <1>10
  <2>2. g.flushQueue \in Seq(Nat) /\ g.blockedFlushes \in Seq(Flushing)
    BY <1>7
  <2>3. g.flushingWriters \subseteq Flushing
    BY <1>7, <1>9
  <2>4. g \in FcRec
    BY <1>1, <1>8, <2>1, <2>2, <2>3 DEF FcRec
  <2> QED BY <1>7, <1>9, <2>4 DEF Typed
<1>12. /\ Range(g.flushQueue) = {} /\ Range(g.blockedFlushes) = {} /\ Injective(g.flushQueue)
       /\ Injective(g.blockedFlushes)
  BY <1>7 DEF Range, Injective
<1>13. Flushed(g) = Flushed(f) \ Range(f.flushQueue) /\ Blocked(g) = {}
  BY <1>6, <1>7, <1>12 DEF Flushed, Blocked, DwptsOf
<1>14. WritersSeparate(g)
  <2>1. ByDwpt(g.flushingWriters) /\ ByDwpt(Range(g.blockedFlushes))
    BY <1>2, <1>7, <1>12 DEF ByDwpt
  <2> QED BY <1>12, <1>13, <2>1 DEF WritersSeparate
<1>15. Queueing(g)
  BY <1>1, <1>7, <1>12, <1>13 DEF Queueing
<1>16. g.flushBytes - WaitingBytes(g) = f.flushBytes - WaitingBytes(f)
  <2>1. WriterSum(g.flushingWriters) = WriterSum(W \ queued)
    BY <1>7
  <2>2. WriterSum(Range(g.blockedFlushes)) = 0
    BY <1>12, WriterSumEmpty
  <2> QED BY <1>1, <1>7, <1>10, <2>1, <2>2 DEF WaitingBytes
<1>17. InStates(f) \cap (Blocked(g) \cup Flushed(g)) = {}
  BY <1>1, <1>13
<1>18. QueueResult(f, g, table)
  BY <1>7, <1>11, <1>14, <1>15, <1>16, <1>17, QueuesOnly
<1>19. AbortResult(f, g, table)
  BY <1>7, <1>13, <1>18 DEF AbortResult
<1> QED BY <1>19 DEF g

\* newThreadState: a ThreadState without a DWPT
NewStateResult(f, g, table) ==
    /\ Good(g, table) /\ Excess(g) = Excess(f) /\ SameQueues(f, g)
    /\ InStates(g) = InStates(f) /\ Blocked(g) = Blocked(f) /\ Flushed(g) = Flushed(f)
    /\ DOMAIN g.states = (DOMAIN f.states) \cup {Len(f.states) + 1}
    /\ g.states[Len(f.states) + 1] = Uninitialized
    /\ \A s \in DOMAIN f.states : g.states[s] = f.states[s]

LEMMA StateAdded ==
  ASSUME NEW f, NEW table, Good(f, table),
         NEW g, g = [f EXCEPT !.states = Append(f.states, Uninitialized)]
  PROVE  NewStateResult(f, g, table)
<1> DEFINE n == Len(f.states) + 1
<1>1. /\ f \in FcRec /\ Queueing(f) /\ Separate(f) /\ IsFiniteSet(f.flushingWriters)
      /\ f.states \in Seq(StateRec) /\ Typed(f) /\ Shaped(f, table) /\ Counted(f)
      /\ f.activeBytes \in Int /\ f.flushBytes \in Int /\ f.numPending \in Int
      /\ \A s \in DOMAIN f.states : f.states[s] \in StateRec
  BY GoodFields DEF Good
<1>2. /\ g.states = Append(f.states, Uninitialized) /\ SameQueues(f, g)
      /\ g.activeBytes = f.activeBytes /\ g.flushBytes = f.flushBytes
      /\ g.numPending = f.numPending /\ g = [f EXCEPT !.states = g.states]
  BY <1>1 DEF FcRec, SameQueues
<1>3. /\ Uninitialized \in StateRec /\ WellShaped(Uninitialized, table)
      /\ Uninitialized.dwpt = None /\ Uninitialized.flushPending = FALSE
      /\ Uninitialized.bytesUsed = 0
  BY UninitializedShape DEF Uninitialized
<1>4. /\ DOMAIN f.states = 1 .. Len(f.states) /\ Len(f.states) \in Nat
      /\ g.states \in Seq(StateRec) /\ DOMAIN g.states = 1 .. n /\ g.states[n] = Uninitialized
      /\ \A s \in DOMAIN f.states : g.states[s] = f.states[s]
  BY <1>1, <1>2, <1>3
<1>5. DOMAIN g.states = DOMAIN f.states \cup {n} /\ n \notin DOMAIN f.states
  BY <1>4
<1> HIDE DEF n
<1>6. Typed(g)
  <2>1. g \in FcRec
    BY <1>1, <1>2, <1>4 DEF FcRec
  <2> QED BY <1>1, <1>2, <2>1 DEF Typed, SameQueues
<1>7. Blocked(g) = Blocked(f) /\ Flushed(g) = Flushed(f) /\ Queueing(g)
  BY <1>1, <1>2 DEF SameQueues, Blocked, Flushed, Queueing
<1>8. InStates(g) = InStates(f)
  BY <1>3, <1>4, <1>5 DEF InStates
<1>9. Separate(g)
  <2>1. \A s, r \in DOMAIN g.states :
           g.states[s].dwpt = g.states[r].dwpt /\ g.states[s].dwpt # None => s = r
    BY <1>1, <1>3, <1>4, <1>5 DEF Separate
  <2> QED BY <1>1, <1>2, <1>7, <1>8, <2>1 DEF Separate, SameQueues
<1>10. Shaped(g, table)
  BY <1>1, <1>3, <1>4, <1>5 DEF Shaped, WellShaped
<1>11. PendingIn(g) = PendingIn(f) /\ OthersIn(g) \ {n} = OthersIn(f) \ {n}
  BY <1>3, <1>4, <1>5 DEF PendingIn, OthersIn
<1>12. /\ BytesIn(f, PendingIn(f)) /\ BytesIn(g, PendingIn(g))
       /\ BytesIn(f, OthersIn(f)) /\ BytesIn(g, OthersIn(g))
       /\ BytesBut(f, g, PendingIn(f), n) /\ BytesBut(f, g, OthersIn(f), n)
       /\ AlikeBut(PendingIn(f), PendingIn(g), n) /\ AlikeBut(OthersIn(f), OthersIn(g), n)
  <2>1. \A s \in DOMAIN g.states : g.states[s].bytesUsed \in Nat
    BY <1>1, <1>3, <1>4, <1>5 DEF StateRec
  <2>2. \A s \in DOMAIN f.states : f.states[s].bytesUsed \in Nat
    BY <1>1 DEF StateRec
  <2>3. /\ PendingIn(f) \subseteq DOMAIN f.states /\ PendingIn(g) \subseteq DOMAIN g.states
        /\ OthersIn(f) \subseteq DOMAIN f.states /\ OthersIn(g) \subseteq DOMAIN g.states
    BY DEF PendingIn, OthersIn
  <2> QED BY <1>4, <1>11, <2>1, <2>2, <2>3 DEF BytesIn, BytesBut, AlikeBut
<1>13. /\ IsFiniteSet(PendingIn(f)) /\ IsFiniteSet(OthersIn(f))
       /\ IsFiniteSet(PendingIn(g)) /\ IsFiniteSet(OthersIn(g))
  BY <1>1, <1>6, PartsFinite
<1>14. /\ BytesAt(f, PendingIn(f), n) = 0 /\ BytesAt(g, PendingIn(g), n) = 0
       /\ BytesAt(f, OthersIn(f), n) = 0 /\ BytesAt(g, OthersIn(g), n) = 0
  <2>1. n \notin PendingIn(f) /\ n \notin OthersIn(f) /\ g.states[n].bytesUsed = 0
    BY <1>3, <1>4, <1>5 DEF PendingIn, OthersIn
  <2> QED BY <1>11, <2>1 DEF BytesAt
<1>15. /\ StateSum(f, PendingIn(f)) \in Nat
       /\ StateSum(g, PendingIn(g)) = StateSum(f, PendingIn(f)) - 0 + 0
  BY <1>12, <1>13, <1>14, StateSumStep
<1>16. /\ StateSum(f, OthersIn(f)) \in Nat
       /\ StateSum(g, OthersIn(g)) = StateSum(f, OthersIn(f)) - 0 + 0
  BY <1>12, <1>13, <1>14, StateSumStep
<1>17. Counted(g)
  BY <1>1, <1>2, <1>15, <1>16 DEF Counted, SameQueues
<1>18. Excess(g) = Excess(f)
  BY <1>2, <1>11 DEF Excess
<1>19. Good(g, table)
  BY <1>6, <1>7, <1>9, <1>10, <1>17 DEF Good
<1> QED BY <1>2, <1>4, <1>5, <1>7, <1>8, <1>18, <1>19 DEF NewStateResult, n
------------------------------------------------------------------------------
\* The inductive invariant

CallRec == [pc : Pcs, state : Nat, dwpt : Nat, nested : BOOLEAN, left : Nat,
            ctx : {"none", "preUpdate", "postUpdate", "fullFlush", "flushNext",
                   "deleteAll", "failed"}]
DwptRec == [queue : Nat, docs : Nat, status : {"live", "flushed", "aborted", "empty"}]

Scalars ==
    /\ aborted \in BOOLEAN /\ stalled \in BOOLEAN /\ stallWaiters \subseteq Threads
    /\ monitor \in {NoThread, Main}
    /\ deleteQueue \in Nat \ {0} /\ currentFullFlushDelQueue \in Nat
    /\ numbered \in Nat /\ gap \in Nat

Types ==
    /\ Scalars
    /\ holder \in [DOMAIN fc.states -> Callers \cup {NoThread}]
    /\ freeList \in Seq(DOMAIN fc.states)
    /\ dwpts \in Seq(DwptRec)
    /\ call \in [Callers -> CallRec]

\* Where a thread can be in its call, and Main
ThreadPcs == {"idle", "next", "scan", "flush", "stall", "waiting", "obtain", "lock", "index",
              "after", "release", "largest", "lockLargest"}
FullFlushPcs == {"swap", "mark", "setQueue", "next", "scan", "flush", "waitForFlush", "flushed"}
MainPcs == FullFlushPcs \cup {"idle", "setAbort", "abort", "waitAbort", "cleared"}
Working == {"lock", "index", "after", "release"}   \* with a ThreadState of the pool

\* What the call c of caller t holds when there are n ThreadStates
CallOK(t, c, n) ==
    /\ IF t = Main THEN /\ c.pc \in MainPcs
                        /\ c.pc \in {"next", "scan", "flush"} => c.ctx = "fullFlush"
                        /\ c.pc \in {"setAbort", "abort", "waitAbort", "cleared"}
                              => "deleteAll" \in MainCalls
                   ELSE /\ c.pc \in ThreadPcs
                        /\ c.ctx \in {"none", "preUpdate", "postUpdate", "flushNext", "failed"}
    /\ c.dwpt # None => c.pc \in {"flush", "release"}
    /\ c.pc = "flush" => c.dwpt # None
    /\ c.pc = "release" /\ c.ctx = "failed" => c.dwpt = None
    /\ c.pc \in {"lock", "index", "after"} => c.ctx # "failed"
    /\ c.pc \in {"scan", "mark", "setAbort", "abort"} => c.state # 0 /\ c.left <= n
    /\ c.pc \in Working \cup {"lockLargest"} => c.state \in 1 .. n

Control ==
    /\ \A t \in Callers : CallOK(t, call[t], Len(fc.states))
    /\ monitor = Main <=> call[Main].pc = "swap"

\* A ThreadState is free or one thread works on it, which has its lock, except
\* for Main in deleteAll; and while it indexes the DWPT stays.
Owners ==
    /\ \A t, u \in Threads : t # u /\ call[t].pc \in Working /\ call[u].pc \in Working
          => call[t].state # call[u].state
    /\ \A t \in Threads : call[t].pc \in Working => call[t].state \notin Range(freeList)
    /\ Injective(freeList)
    /\ \A t \in Threads : call[t].pc \in Working \ {"lock"} => holder[call[t].state] = t
    /\ \A s \in DOMAIN fc.states : holder[s] \in Threads
          => call[holder[s]].pc \in Working /\ call[holder[s]].state = s
    /\ \A t \in Threads : call[t].pc \in {"index", "after"}
          => fc.states[call[t].state].dwpt # None

\* The DWPTs callers have in hand
Hands(c) == {d \in {c[t].dwpt : t \in Callers} : d # None}
OneHand(c) == \A t, u \in Callers : c[t].dwpt = c[u].dwpt /\ c[t].dwpt # None => t = u
InQueues(f) == Range(f.flushQueue) \cup Range(f.fullFlushBuffer)

\* The DWPTs that are live are those of the flush control, and what is flushing
\* and not queued is in hand.
Held(f, c, live) == /\ live = InStates(f) \cup Blocked(f) \cup Flushed(f)
                    /\ Hands(c) = Flushed(f) \ InQueues(f)
                    /\ OneHand(c)
\* numPending is too large only after deleteAll.
Balanced(f) == Excess(f) \in Nat /\ ("deleteAll" \notin MainCalls => Excess(f) = 0)

Core == Good(fc, dwpts) /\ Held(fc, call, Live) /\ Balanced(fc)
FCInv == Types /\ Control /\ Owners /\ Core

------------------------------------------------------------------------------
\* Frames: what a step of one caller leaves alone

OnlyCall(t) == \A u \in Callers \ {t} : call'[u] = call[u]

LEMMA ControlChange ==
  ASSUME FCInv, NEW t \in Callers, OnlyCall(t), Len(fc'.states) \in Nat,
         Len(fc.states) <= Len(fc'.states), CallOK(t, call'[t], Len(fc'.states)),
         monitor' = Main <=> call'[Main].pc = "swap"
  PROVE  Control'
<1>1. Len(fc.states) \in Nat /\ call \in [Callers -> CallRec]
  BY GoodFields DEF FCInv, Core, Types
<1>2. \A u \in Callers : CallOK(u, call[u], Len(fc.states))
  BY DEF FCInv, Control
<1>3. ASSUME NEW u \in Callers
      PROVE  CallOK(u, call'[u], Len(fc'.states))
  <2>1. CASE u = t
    BY <2>1
  <2>2. CASE u # t
    <3> DEFINE c == call[u]
               n == Len(fc.states)
               m == Len(fc'.states)
    <3>1. call'[u] = c
      BY <2>2 DEF OnlyCall
    <3>2. CallOK(u, c, n) /\ n \in Nat /\ m \in Nat /\ n <= m /\ c.left \in Nat
      BY <1>1, <1>2 DEF CallRec
    <3> HIDE DEF c, n, m
    <3>3. CallOK(u, c, m)
      BY <3>2 DEF CallOK
    <3> QED BY <3>1, <3>3 DEF m
  <2> QED BY <2>1, <2>2
<1> QED BY <1>3 DEF Control

LEMMA ControlStep ==
  ASSUME FCInv, NEW t \in Callers, OnlyCall(t), Len(fc'.states) \in Nat,
         Len(fc.states) <= Len(fc'.states), CallOK(t, call'[t], Len(fc'.states)),
         monitor' = monitor, t = Main => (call'[Main].pc = "swap" <=> call[Main].pc = "swap")
  PROVE  Control'
<1>1. monitor = Main <=> call[Main].pc = "swap"
  BY DEF FCInv, Control
<1>2. t # Main => call'[Main] = call[Main]
  BY DEF OnlyCall, Callers
<1>3. monitor' = Main <=> call'[Main].pc = "swap"
  BY <1>1, <1>2
<1> QED BY <1>3, ControlChange

\* Main may take and give back locks no thread has.
HolderStays == \A s \in DOMAIN fc.states :
                  holder'[s] = holder[s] \/ (holder[s] \notin Threads /\ holder'[s] \notin Threads)

LEMMA OwnersChange ==
  ASSUME FCInv, NEW t \in Callers, OnlyCall(t), HolderStays, freeList' = freeList,
         DOMAIN fc'.states = DOMAIN fc.states,
         t = Main \/ (call[t].pc \notin Working /\ call'[t].pc \notin Working),
         \A u \in Threads : call[u].pc \in {"index", "after"}
              => fc'.states[call[u].state].dwpt = fc.states[call[u].state].dwpt
  PROVE  Owners'
<1>1. Main \notin Threads /\ Threads \subseteq Callers
  BY ThreadsAssumption DEF Callers
<1>2. \A u \in Threads : \/ call'[u] = call[u]
                         \/ call[u].pc \notin Working /\ call'[u].pc \notin Working
  BY <1>1 DEF OnlyCall
<1>3. Owners
  BY DEF FCInv
<1>4. {"index", "after"} \subseteq Working
  BY DEF Working
<1>5. /\ \A v, u \in Threads : v # u /\ call'[v].pc \in Working /\ call'[u].pc \in Working
            => call'[v].state # call'[u].state
      /\ \A u \in Threads : call'[u].pc \in Working => call'[u].state \notin Range(freeList')
      /\ Injective(freeList')
  BY <1>2, <1>3 DEF Owners
<1>6. ASSUME NEW u \in Threads, call'[u].pc \in Working \ {"lock"}
      PROVE  holder'[call'[u].state] = u
  <2>1. call'[u] = call[u] /\ call[u].pc \in Working \ {"lock"}
    BY <1>2, <1>6
  <2>2. holder[call[u].state] = u
    BY <1>3, <2>1 DEF Owners
  <2>3. call[u].state \in DOMAIN fc.states
    <3>1. CallOK(u, call[u], Len(fc.states)) /\ fc.states \in Seq(StateRec)
      BY <1>1, GoodFields DEF FCInv, Control, Core
    <3> QED BY <2>1, <3>1 DEF CallOK
  <2> QED BY <2>1, <2>2, <2>3 DEF HolderStays
<1>7. \A s \in DOMAIN fc'.states : holder'[s] \in Threads
          => call'[holder'[s]].pc \in Working /\ call'[holder'[s]].state = s
  BY <1>2, <1>3 DEF Owners, HolderStays
<1>8. \A u \in Threads : call'[u].pc \in {"index", "after"}
          => fc'.states[call'[u].state].dwpt # None
  BY <1>2, <1>3, <1>4 DEF Owners
<1> QED BY <1>5, <1>6, <1>7, <1>8 DEF Owners

LEMMA OwnersStep ==
  ASSUME FCInv, NEW t \in Callers, OnlyCall(t), holder' = holder, freeList' = freeList,
         DOMAIN fc'.states = DOMAIN fc.states,
         t = Main \/ (call[t].pc \notin Working /\ call'[t].pc \notin Working),
         \A u \in Threads : call[u].pc \in {"index", "after"}
              => fc'.states[call[u].state].dwpt = fc.states[call[u].state].dwpt
  PROVE  Owners'
<1>1. HolderStays
  BY DEF HolderStays
<1> QED BY <1>1, OwnersChange

\* A thread that can lock a state takes it from nobody at work.
LEMMA NobodyWorks ==
  ASSUME FCInv, NEW t \in Callers, NEW s \in DOMAIN fc.states, CanLock(t, s),
         call[t].pc \notin Working \ {"lock"}
  PROVE  \A u \in Threads : call[u].pc \in Working \ {"lock"} => call[u].state # s
<1> SUFFICES ASSUME NEW u \in Threads, call[u].pc \in Working \ {"lock"}, call[u].state = s
             PROVE  FALSE
  OBVIOUS
<1>1. holder[s] = u
  BY DEF FCInv, Owners
<1>2. u = t
  BY <1>1, ThreadsAssumption DEF CanLock
<1> QED BY <1>2

\* What is in hand after a step of caller t
LEMMA HandsStay ==
  ASSUME NEW c, NEW b, NEW t \in Callers, \A u \in Callers \ {t} : b[u] = c[u],
         b[t].dwpt = c[t].dwpt
  PROVE  Hands(b) = Hands(c) /\ (OneHand(c) => OneHand(b))
<1>1. \A u \in Callers : b[u].dwpt = c[u].dwpt
  OBVIOUS
<1> QED BY <1>1 DEF Hands, OneHand

LEMMA HandsTake ==
  ASSUME NEW c, NEW b, NEW t \in Callers, \A u \in Callers \ {t} : b[u] = c[u],
         c[t].dwpt = None, b[t].dwpt # None, b[t].dwpt \notin Hands(c)
  PROVE  Hands(b) = Hands(c) \cup {b[t].dwpt} /\ (OneHand(c) => OneHand(b))
<1>1. \A u \in Callers \ {t} : b[u].dwpt = c[u].dwpt /\ c[u].dwpt # b[t].dwpt
  BY DEF Hands
<1>2. Hands(b) = Hands(c) \cup {b[t].dwpt}
  BY <1>1 DEF Hands
<1>3. OneHand(c) => OneHand(b)
  BY <1>1 DEF OneHand
<1> QED BY <1>2, <1>3

LEMMA HandsDrop ==
  ASSUME NEW c, NEW b, NEW t \in Callers, \A u \in Callers \ {t} : b[u] = c[u],
         OneHand(c), c[t].dwpt # None, b[t].dwpt = None
  PROVE  Hands(b) = Hands(c) \ {c[t].dwpt} /\ OneHand(b) /\ c[t].dwpt \in Hands(c)
<1>1. \A u \in Callers \ {t} : b[u].dwpt = c[u].dwpt /\ (c[u].dwpt # c[t].dwpt)
  BY DEF OneHand
<1>2. Hands(b) = Hands(c) \ {c[t].dwpt} /\ c[t].dwpt \in Hands(c)
  BY <1>1 DEF Hands
<1>3. OneHand(b)
  BY <1>1 DEF OneHand
<1> QED BY <1>2, <1>3

\* Another table of DWPTs will do if the ThreadStates see the same there.
LEMMA GoodTable ==
  ASSUME NEW f, NEW table, NEW other, Good(f, table),
         \A d \in InStates(f) : other[d].docs = 0 => table[d].docs = 0
  PROVE  Good(f, other)
<1>1. \A s \in DOMAIN f.states : f.states[s].dwpt # None => f.states[s].dwpt \in InStates(f)
  BY DEF InStates
<1>2. Shaped(f, other)
  BY <1>1 DEF Good, Shaped
<1> QED BY <1>2 DEF Good

\* The types say that of the fields.
LEMMA Fields ==
  ASSUME FCInv
  PROVE  /\ fc \in FcRec /\ fc.states \in Seq(StateRec) /\ DOMAIN fc.states = 1 .. Len(fc.states)
         /\ Len(fc.states) \in Nat /\ dwpts \in Seq(DwptRec) /\ Main \in Callers
         /\ Threads \subseteq Callers /\ call \in [Callers -> CallRec]
         /\ \A t \in Callers : call[t] \in CallRec /\ CallOK(t, call[t], Len(fc.states))
         /\ Good(fc, dwpts) /\ Held(fc, call, Live) /\ Balanced(fc) /\ Control /\ Owners /\ Types
<1>1. fc \in FcRec /\ fc.states \in Seq(StateRec)
  BY GoodFields DEF FCInv, Core
<1>2. DOMAIN fc.states = 1 .. Len(fc.states) /\ Len(fc.states) \in Nat
  BY <1>1
<1> QED BY <1>1, <1>2 DEF FCInv, Core, Types, Control, Callers

\* Whether indexing is stalled, from the counters after the step
LEMMA StallTypes ==
  ASSUME stallWaiters \subseteq Threads, UpdateStallState
  PROVE  stalled' \in BOOLEAN /\ stallWaiters' \subseteq Threads
BY DEF UpdateStallState, StallState

\* A step of caller t that only moves it to another place in its call, where it
\* works on no ThreadState, before and after, and has the same DWPT in hand.
QuietCall(t) ==
    /\ call' = [call EXCEPT ![t] = call'[t]] /\ call'[t] \in CallRec
    /\ CallOK(t, call'[t], Len(fc.states)) /\ call'[t].dwpt = call[t].dwpt
    /\ t = Main \/ (call[t].pc \notin Working /\ call'[t].pc \notin Working)
    /\ t = Main => (call'[Main].pc = "swap" <=> call[Main].pc = "swap")

LEMMA QuietStep ==
  ASSUME FCInv, NEW t \in Callers, QuietCall(t), Scalars', monitor' = monitor,
         UNCHANGED <<fc, holder, freeList, dwpts>>
  PROVE  FCInv'
<1>1. /\ call \in [Callers -> CallRec] /\ Len(fc.states) \in Nat /\ Types /\ Held(fc, call, Live)
      /\ Good(fc, dwpts) /\ Balanced(fc)
  BY Fields
<1>2. call' \in [Callers -> CallRec] /\ OnlyCall(t)
  BY <1>1 DEF QuietCall, OnlyCall
<1>3. Types'
  BY <1>1, <1>2 DEF Types
<1>4. Control'
  <2>1. /\ CallOK(t, call'[t], Len(fc'.states)) /\ Len(fc'.states) \in Nat
        /\ Len(fc.states) <= Len(fc'.states)
        /\ t = Main => (call'[Main].pc = "swap" <=> call[Main].pc = "swap")
    BY <1>1 DEF QuietCall
  <2> QED BY <1>2, <2>1, ControlStep
<1>5. Owners'
  <2>1. t = Main \/ (call[t].pc \notin Working /\ call'[t].pc \notin Working)
    BY DEF QuietCall
  <2> QED BY <1>2, <2>1, OwnersStep
<1>6. Hands(call') = Hands(call) /\ OneHand(call')
  <2>1. /\ \A u \in Callers \ {t} : call'[u] = call[u]
        /\ call'[t].dwpt = call[t].dwpt /\ OneHand(call)
    BY <1>1, <1>2 DEF QuietCall, OnlyCall, Held
  <2> QED BY <2>1, HandsStay
<1>7. Core'
  BY <1>1, <1>6 DEF Core, Held, Live
<1> QED BY <1>3, <1>4, <1>5, <1>7 DEF FCInv

------------------------------------------------------------------------------
\* Steps that leave the flush control and the pool as they are

\* A call with nothing in hand and no ThreadState
Fresh(t, c) == /\ c \in CallRec /\ c.dwpt = None /\ c.pc \notin Working \cup {"swap"}
               /\ \A n \in Nat : CallOK(t, c, n)
ThreadCtxs == {"none", "preUpdate", "postUpdate", "flushNext", "failed"}

LEMMA FreshThread ==
  ASSUME NEW t \in Threads, NEW pc \in {"next", "stall", "waiting", "obtain", "largest"},
         NEW ctx \in ThreadCtxs, NEW nested \in BOOLEAN
  PROVE  Fresh(t, At(pc, None, None, ctx, nested, 0)) /\ Fresh(t, Idle)
<1> DEFINE c == At(pc, None, None, ctx, nested, 0)
<1>1. t # Main
  BY ThreadsAssumption
<1>2. /\ c.pc = pc /\ c.state = 0 /\ c.dwpt = None /\ c.ctx = ctx /\ c.nested = nested /\ c.left = 0
      /\ c \in CallRec
  BY DEF At, None, CallRec, Pcs, ThreadCtxs
<1>3. /\ Idle.pc = "idle" /\ Idle.dwpt = None /\ Idle.ctx = "none" /\ Idle \in CallRec
  BY DEF Idle, None, CallRec, Pcs
<1> HIDE DEF c
<1>4. Fresh(t, c)
  BY <1>1, <1>2 DEF Fresh, CallOK, ThreadPcs, ThreadCtxs, Working
<1>5. Fresh(t, Idle)
  BY <1>1, <1>3 DEF Fresh, CallOK, ThreadPcs, Working
<1> QED BY <1>4, <1>5 DEF c

LEMMA FreshMain ==
  ASSUME NEW pc \in {"next", "waitForFlush"}, NEW nested \in BOOLEAN
  PROVE  Fresh(Main, At(pc, None, None, "fullFlush", nested, 0)) /\ Fresh(Main, Idle)
<1> DEFINE c == At(pc, None, None, "fullFlush", nested, 0)
<1>1. /\ c.pc = pc /\ c.state = 0 /\ c.dwpt = None /\ c.ctx = "fullFlush" /\ c.left = 0
      /\ c \in CallRec
  BY DEF At, None, CallRec, Pcs
<1>2. /\ Idle.pc = "idle" /\ Idle.dwpt = None /\ Idle.ctx = "none" /\ Idle \in CallRec
  BY DEF Idle, None, CallRec, Pcs
<1> HIDE DEF c
<1>3. Fresh(Main, c)
  BY <1>1 DEF Fresh, CallOK, MainPcs, FullFlushPcs, Working
<1>4. Fresh(Main, Idle)
  BY <1>2 DEF Fresh, CallOK, MainPcs, FullFlushPcs, Working
<1> QED BY <1>3, <1>4 DEF c

LEMMA ContextOK ==
  ASSUME FCInv, NEW t \in Callers, call[t].pc \in {"next", "scan", "flush"}
  PROVE  /\ t # Main => t \in Threads /\ call[t].ctx \in ThreadCtxs
         /\ t = Main => call[t].ctx = "fullFlush"
         /\ call[t].pc \notin Working \cup {"swap"} /\ call[t].pc # "swap"
         /\ call[t].nested \in BOOLEAN
         /\ call[t].pc # "flush" => call[t].dwpt = None
         /\ call[t].pc = "flush" => call[t].dwpt # None
<1>1. CallOK(t, call[t], Len(fc.states)) /\ call[t] \in CallRec
  BY Fields
<1>2. t # Main => t \in Threads
  BY DEF Callers
<1>3. /\ t # Main => call[t].ctx \in ThreadCtxs
      /\ t = Main => call[t].ctx = "fullFlush"
  BY <1>1 DEF CallOK, ThreadCtxs
<1>4. /\ call[t].pc # "flush" => call[t].dwpt = None
      /\ call[t].pc = "flush" => call[t].dwpt # None
  BY <1>1 DEF CallOK
<1>5. call[t].nested \in BOOLEAN
  BY <1>1 DEF CallRec
<1> QED BY <1>2, <1>3, <1>4, <1>5 DEF Working

LEMMA AfterDoFlushFresh ==
  ASSUME FCInv, NEW t \in Callers, call[t].pc \in {"next", "scan", "flush"}
  PROVE  Fresh(t, AfterDoFlush(call[t].ctx))
<1>1. CASE t = Main
  <2>1. AfterDoFlush(call[t].ctx) = At("next", None, None, "fullFlush", FALSE, 0)
    BY <1>1, ContextOK DEF AfterDoFlush
  <2> QED BY <1>1, <2>1, FreshMain
<1>2. CASE t # Main
  <2>1. t \in Threads /\ call[t].ctx \in ThreadCtxs
    BY <1>2, ContextOK
  <2>2. \/ AfterDoFlush(call[t].ctx) = At("next", None, None, call[t].ctx, FALSE, 0)
        \/ AfterDoFlush(call[t].ctx) = Idle
    BY DEF AfterDoFlush
  <2>3. /\ Fresh(t, At("next", None, None, call[t].ctx, FALSE, 0)) /\ Fresh(t, Idle)
    BY <2>1, FreshThread
  <2> QED BY <2>2, <2>3
<1> QED BY <1>1, <1>2

LEMMA NothingPendingFresh ==
  ASSUME FCInv, NEW t \in Callers, call[t].pc \in {"next", "scan"}
  PROVE  Fresh(t, NothingPending(t))
<1>1. CASE call[t].nested
  <2>1. NothingPending(t) = AfterDoFlush(call[t].ctx)
    BY <1>1 DEF NothingPending
  <2> QED BY <2>1, AfterDoFlushFresh
<1>2. CASE ~call[t].nested /\ t = Main
  <2>1. NothingPending(t) = At("waitForFlush", None, None, "fullFlush", FALSE, 0)
    BY <1>2, ContextOK DEF NothingPending
  <2> QED BY <1>2, <2>1, FreshMain
<1>3. CASE ~call[t].nested /\ t # Main
  <2>1. t \in Threads /\ call[t].ctx \in ThreadCtxs
    BY <1>3, ContextOK
  <2>2. \/ NothingPending(t) = At("stall", None, None, call[t].ctx, FALSE, 0)
        \/ NothingPending(t) = At("largest", None, None, call[t].ctx, FALSE, 0)
        \/ NothingPending(t) = Idle
    BY <1>3, <2>1 DEF NothingPending, ThreadCtxs
  <2>3. /\ Fresh(t, At("stall", None, None, call[t].ctx, FALSE, 0))
        /\ Fresh(t, At("largest", None, None, call[t].ctx, FALSE, 0)) /\ Fresh(t, Idle)
    BY <2>1, FreshThread
  <2> QED BY <2>2, <2>3
<1> QED BY <1>1, <1>2, <1>3

\* A caller with nothing in hand goes on with a fresh call.
LEMMA FreshStep ==
  ASSUME FCInv, NEW t \in Callers, NEW c, Fresh(t, c), call' = [call EXCEPT ![t] = c],
         call[t].dwpt = None, call[t].pc \notin Working \cup {"swap"}, Scalars',
         monitor' = monitor, UNCHANGED <<fc, holder, freeList, dwpts>>
  PROVE  FCInv'
<1>1. call'[t] = c /\ Len(fc.states) \in Nat
  BY Fields
<1>2. /\ call'[t] \in CallRec /\ call'[t].dwpt = None /\ call'[t].pc \notin Working \cup {"swap"}
      /\ CallOK(t, call'[t], Len(fc.states))
  BY <1>1 DEF Fresh
<1>3. QuietCall(t)
  BY <1>1, <1>2 DEF QuietCall
<1> QED BY <1>3, QuietStep

\* The scalars stay what they are but for some.
LEMMA ScalarsNow == ASSUME FCInv PROVE Scalars
BY DEF FCInv, Types

LEMMA StartUpdateKeeps ==
  ASSUME FCInv, NEW t \in Threads, StartUpdate(t)
  PROVE  FCInv'
<1> DEFINE c == IF stalled \/ (Len(fc.flushQueue) > 0 /\ CheckPendingFlush)
                  THEN At("next", None, None, "preUpdate", FALSE, 0)
                  ELSE At("obtain", None, None, "none", FALSE, 0)
<1>1. /\ call[t].pc = "idle" /\ call' = [call EXCEPT ![t] = c] /\ monitor' = monitor
      /\ UNCHANGED <<fc, holder, freeList, dwpts>> /\ Scalars'
  BY ScalarsNow DEF StartUpdate, poolVars, stallVars, queueVars, seqVars, Scalars
<1>2. Fresh(t, c)
  BY FreshThread DEF ThreadCtxs
<1>3. call[t].dwpt = None /\ t \in Callers
  BY <1>1, Fields DEF CallOK
<1> QED BY <1>1, <1>2, <1>3, FreshStep DEF Working

LEMMA StallingKeeps ==
  ASSUME FCInv, NEW t \in Threads, WaitIfStalled(t) \/ WakeUp(t)
  PROVE  FCInv'
<1>1. /\ call[t].pc \in {"stall", "waiting"} /\ monitor' = monitor
      /\ UNCHANGED <<fc, holder, freeList, dwpts>> /\ Scalars'
  BY ScalarsNow DEF WaitIfStalled, WakeUp, poolVars, stallVars, queueVars, seqVars, Scalars
<1>2. t \in Callers /\ call[t] \in CallRec /\ CallOK(t, call[t], Len(fc.states))
      /\ call \in [Callers -> CallRec] /\ Len(fc.states) \in Nat
  BY Fields
<1>3. call[t].dwpt = None /\ t # Main
  BY <1>1, <1>2, ThreadsAssumption DEF CallOK
<1>4. CASE call' = [call EXCEPT ![t] = AfterStall(t)]
  <2>1. Fresh(t, AfterStall(t))
    BY FreshThread DEF AfterStall, ThreadCtxs
  <2> QED BY <1>1, <1>2, <1>3, <1>4, <2>1, FreshStep DEF Working
<1>5. CASE Goto(t, "waiting")
  <2> DEFINE c == [call[t] EXCEPT !.pc = "waiting"]
  <2>1. call' = [call EXCEPT ![t] = c]
    BY <1>2, <1>5 DEF Goto
  <2>2. /\ c \in CallRec /\ c.pc = "waiting" /\ c.dwpt = None /\ c.ctx = call[t].ctx
    BY <1>2, <1>3 DEF CallRec, Pcs
  <2>3. Fresh(t, c)
    BY <1>1, <1>2, <1>3, <2>2 DEF Fresh, CallOK, Working, ThreadPcs
  <2> QED BY <1>1, <1>2, <1>3, <2>1, <2>3, FreshStep DEF Working
<1>6. Goto(t, "waiting") \/ call' = [call EXCEPT ![t] = AfterStall(t)]
  BY DEF WaitIfStalled, WakeUp
<1> QED BY <1>4, <1>5, <1>6

LEMMA StartFlushNextKeeps ==
  ASSUME FCInv, NEW t \in Threads, StartFlushNext(t)
  PROVE  FCInv'
<1>1. /\ call[t].pc = "idle" /\ monitor' = monitor
      /\ call' = [call EXCEPT ![t] = At("next", None, None, "flushNext", FALSE, 0)]
      /\ UNCHANGED <<fc, holder, freeList, dwpts>> /\ Scalars'
  BY ScalarsNow DEF StartFlushNext, poolVars, stallVars, queueVars, seqVars, Scalars
<1>2. Fresh(t, At("next", None, None, "flushNext", FALSE, 0))
  BY FreshThread DEF ThreadCtxs
<1>3. call[t].dwpt = None /\ t \in Callers
  BY <1>1, Fields DEF CallOK
<1> QED BY <1>1, <1>2, <1>3, FreshStep DEF Working

LEMMA FindLargestKeeps ==
  ASSUME FCInv, NEW t \in Threads, FindLargest(t)
  PROVE  FCInv'
<1> DEFINE s == LargestNonPending(fc)
           c == At("lockLargest", s, None, "flushNext", FALSE, 0)
<1>1. /\ call[t].pc = "largest" /\ monitor' = monitor
      /\ call' = [call EXCEPT ![t] = IF s = None THEN Idle ELSE c]
      /\ UNCHANGED <<fc, holder, freeList, dwpts>> /\ Scalars'
  BY ScalarsNow DEF FindLargest, poolVars, stallVars, queueVars, seqVars, Scalars
<1>2. call[t].dwpt = None /\ t \in Callers /\ t # Main
  BY <1>1, Fields, ThreadsAssumption DEF CallOK
<1>3. CASE s = None
  <2>1. Fresh(t, Idle)
    BY FreshThread DEF ThreadCtxs
  <2> QED BY <1>1, <1>2, <1>3, <2>1, FreshStep DEF Working
<1>4. CASE s # None
  <2>1. s \in 1 .. Len(fc.states)
    BY <1>4, Fields, LargestIs
  <2> HIDE DEF s
  <2>2. /\ c \in CallRec /\ c.pc = "lockLargest" /\ c.state = s /\ c.dwpt = None
        /\ c.ctx = "flushNext"
    BY <2>1 DEF At, None, CallRec, Pcs
  <2>3. CallOK(t, c, Len(fc.states))
    BY <1>2, <2>1, <2>2 DEF CallOK, ThreadPcs, Working
  <2>4. call'[t] = c
    BY <1>1, <1>2, <1>4, Fields
  <2>5. QuietCall(t)
    BY <1>1, <1>2, <1>4, <2>2, <2>3, <2>4 DEF QuietCall, Working
  <2> QED BY <1>1, <1>2, <2>5, QuietStep
<1> QED BY <1>3, <1>4
------------------------------------------------------------------------------
\* Steps that change the flush control

\* Caller t, which works on no ThreadState before and after, is in another place
\* of its call, and the pool is as it was.
Moves(t) ==
    /\ OnlyCall(t) /\ call' \in [Callers -> CallRec]
    /\ CallOK(t, call'[t], Len(fc.states))
    /\ t = Main \/ (call[t].pc \notin Working /\ call'[t].pc \notin Working)
    /\ t = Main => (call'[Main].pc = "swap" <=> call[Main].pc = "swap")
    /\ monitor' = monitor /\ freeList' = freeList

\* Whoever indexes keeps its DWPT.
DwptsStay == \A u \in Threads : call[u].pc \in {"index", "after"}
                => fc'.states[call[u].state].dwpt = fc.states[call[u].state].dwpt

LEMMA MovesChange ==
  ASSUME FCInv, NEW t \in Callers, Moves(t), HolderStays,
         holder' \in [DOMAIN fc.states -> Callers \cup {NoThread}], Scalars',
         DOMAIN fc'.states = DOMAIN fc.states, DwptsStay, dwpts' \in Seq(DwptRec), Core'
  PROVE  FCInv'
<1>1. /\ Types /\ fc'.states \in Seq(StateRec)
      /\ DOMAIN fc.states = 1 .. Len(fc.states) /\ Len(fc.states) \in Nat
  <2>1. Good(fc, dwpts)'
    BY DEF Core
  <2>2. fc'.states \in Seq(StateRec)
    BY <2>1 DEF Good, Typed, FcRec
  <2> QED BY <2>2, Fields
<1>2. Len(fc'.states) = Len(fc.states)
  BY <1>1
<1>3. Types'
  BY <1>1 DEF Types, Moves
<1>4. Control'
  <2>1. /\ OnlyCall(t) /\ CallOK(t, call'[t], Len(fc'.states)) /\ Len(fc'.states) \in Nat
        /\ Len(fc.states) <= Len(fc'.states) /\ monitor' = monitor
        /\ t = Main => (call'[Main].pc = "swap" <=> call[Main].pc = "swap")
    BY <1>1, <1>2 DEF Moves
  <2> QED BY <2>1, ControlStep
<1>5. Owners'
  <2>1. /\ OnlyCall(t) /\ freeList' = freeList
        /\ t = Main \/ (call[t].pc \notin Working /\ call'[t].pc \notin Working)
    BY DEF Moves
  <2> QED BY <2>1, OwnersChange DEF DwptsStay
<1> QED BY <1>3, <1>4, <1>5 DEF FCInv

LEMMA MovesStep ==
  ASSUME FCInv, NEW t \in Callers, Moves(t), holder' = holder, Scalars',
         DOMAIN fc'.states = DOMAIN fc.states, DwptsStay, dwpts' \in Seq(DwptRec), Core'
  PROVE  FCInv'
<1>1. HolderStays /\ holder' \in [DOMAIN fc.states -> Callers \cup {NoThread}]
  BY Fields DEF HolderStays, Types
<1> QED BY <1>1, MovesChange

\* The states of those who index are not among the ones a step changes.
LEMMA OthersStay ==
  ASSUME FCInv, NEW s, NEW x, OnlyAt(fc, fc', s, x),
         \A u \in Threads : call[u].pc \in Working \ {"lock"} => call[u].state # s
  PROVE  DwptsStay
<1> SUFFICES ASSUME NEW u \in Threads, call[u].pc \in {"index", "after"}
             PROVE  fc'.states[call[u].state].dwpt = fc.states[call[u].state].dwpt
  BY DEF DwptsStay
<1>1. call[u].state # s
  BY DEF Working
<1>2. call[u].state \in 1 .. Len(fc.states)
  <2>1. CallOK(u, call[u], Len(fc.states))
    BY Fields
  <2> QED BY <2>1 DEF CallOK, Working
<1>3. call[u].state \in DOMAIN fc.states
  BY <1>2, Fields
<1> QED BY <1>1, <1>3 DEF OnlyAt

LEMMA StatesStay ==
  ASSUME fc'.states = fc.states
  PROVE  DwptsStay
BY DEF DwptsStay

\* What the flush control and the callers hold are DWPTs.
LEMMA NoneNowhere ==
  ASSUME FCInv
  PROVE  /\ None \notin Flushed(fc) /\ None \notin Blocked(fc) /\ None \notin InStates(fc)
         /\ InQueues(fc) \subseteq Flushed(fc) /\ Live \subseteq DOMAIN dwpts
         /\ Range(fc.flushQueue) \cap Range(fc.fullFlushBuffer) = {}
         /\ \A d \in Live : d \in DOMAIN dwpts /\ d \in Nat /\ d # None
<1>1. Live \subseteq DOMAIN dwpts /\ DOMAIN dwpts = 1 .. Len(dwpts) /\ Len(dwpts) \in Nat
  BY Fields DEF Live
<1>2. InStates(fc) \cup Blocked(fc) \cup Flushed(fc) = Live
  BY Fields DEF Held
<1>3. None \notin Live /\ \A d \in Live : d \in DOMAIN dwpts /\ d \in Nat /\ d # None
  BY <1>1 DEF None
<1>4. /\ InQueues(fc) \subseteq Flushed(fc)
      /\ Range(fc.flushQueue) \cap Range(fc.fullFlushBuffer) = {}
  BY Fields DEF Good, Queueing, InQueues
<1> QED BY <1>1, <1>2, <1>3, <1>4

\* The DWPTs of a table that are live
LiveIn(table) == {d \in DOMAIN table : table[d].status = "live"}

LEMMA LiveIsIn == Live = LiveIn(dwpts) /\ Live' = LiveIn(dwpts')
BY DEF Live, LiveIn

\* A DWPT that is done is live no more.
LEMMA FinishedLive ==
  ASSUME dwpts \in Seq(DwptRec), NEW d \in DOMAIN dwpts,
         NEW status \in {"flushed", "aborted", "empty"}, NEW table, table = Finished(d, status)
  PROVE  /\ table \in Seq(DwptRec) /\ LiveIn(table) = Live \ {d}
         /\ \A e \in DOMAIN dwpts \ {d} : table[e] = dwpts[e]
<1>1. [queue |-> 0, docs |-> 0, status |-> status] \in DwptRec
  BY DEF DwptRec
<1>2. table \in Seq(DwptRec)
  BY <1>1 DEF Finished
<1>3. DOMAIN table = DOMAIN dwpts /\ table[d].status # "live"
      /\ \A e \in DOMAIN dwpts \ {d} : table[e] = dwpts[e]
  BY DEF Finished
<1>4. LiveIn(table) = Live \ {d}
  BY <1>3 DEF Live, LiveIn
<1> QED BY <1>2, <1>3, <1>4

LEMMA BalancedSame ==
  ASSUME NEW f, NEW g, Balanced(f), Excess(g) = Excess(f)
  PROVE  Balanced(g)
BY DEF Balanced

\* Scalars that only the stall control changes
LEMMA ScalarsStall ==
  ASSUME FCInv, UpdateStallState \/ UNCHANGED stallVars,
         UNCHANGED <<aborted, monitor, queueVars, seqVars>>
  PROVE  Scalars'
<1>1. Scalars
  BY ScalarsNow
<1>2. stalled' \in BOOLEAN /\ stallWaiters' \subseteq Threads
  BY <1>1, StallTypes DEF Scalars, stallVars
<1> QED BY <1>1, <1>2 DEF Scalars, queueVars, seqVars
------------------------------------------------------------------------------
\* nextPendingFlush and doFlush

\* The call of t with DWPT d to flush
Takes(t, d) == /\ OnlyCall(t) /\ call' \in [Callers -> CallRec]
               /\ call'[t].pc = "flush" /\ call'[t].dwpt = d
               /\ t = Main => call'[t].ctx = "fullFlush"
               /\ t # Main => call'[t].ctx \in ThreadCtxs

LEMMA TakesMoves ==
  ASSUME FCInv, NEW t \in Callers, NEW d, d # None, Takes(t, d),
         call[t].pc \notin Working \cup {"swap"}, monitor' = monitor, freeList' = freeList
  PROVE  Moves(t)
<1>1. CallOK(t, call'[t], Len(fc.states))
  <2>1. call'[t].pc = "flush" /\ call'[t].dwpt # None
    BY DEF Takes
  <2> QED BY <2>1 DEF Takes, CallOK, MainPcs, FullFlushPcs, ThreadPcs, ThreadCtxs, Working
<1> QED BY <1>1 DEF Takes, Moves, Working

\* DWPT d of the flush control goes into the hands of t.
LEMMA TakesHeld ==
  ASSUME FCInv, NEW t \in Callers, NEW d, d # None, Takes(t, d), call[t].dwpt = None,
         NEW g, d \in Flushed(g) \ InQueues(g), dwpts' = dwpts,
         InStates(g) \cup Blocked(g) \cup Flushed(g) = Live,
         Flushed(g) \ InQueues(g) = (Flushed(fc) \ InQueues(fc)) \cup {d},
         d \notin Flushed(fc) \ InQueues(fc)
  PROVE  Held(g, call', Live')
<1>1. Held(fc, call, Live)
  BY Fields
<1>2. /\ \A u \in Callers \ {t} : call'[u] = call[u]
      /\ call'[t].dwpt = d
  BY DEF Takes, OnlyCall
<1>3. d \notin Hands(call)
  BY <1>1 DEF Held
<1>4. Hands(call') = Hands(call) \cup {d} /\ OneHand(call')
  BY <1>1, <1>2, <1>3, HandsTake DEF Held
<1>5. Live' = Live
  BY DEF Live
<1> QED BY <1>1, <1>4, <1>5 DEF Held

LEMMA NextPendingFlushKeeps ==
  ASSUME FCInv, NEW t \in Callers, NextPendingFlush(t)
  PROVE  FCInv'
<1> DEFINE d == Polled(fc)
<1>1. /\ call[t].pc = "next" /\ fc' = PollFlush(fc) /\ monitor' = monitor
      /\ UNCHANGED <<holder, freeList, dwpts>>
  BY DEF NextPendingFlush, poolVars
<1>2. Scalars'
  BY ScalarsStall DEF NextPendingFlush, poolVars
<1>3. call[t].dwpt = None /\ call[t].pc \notin Working \cup {"swap"} /\ call[t] \in CallRec
  BY <1>1, Fields, ContextOK
<1>4. CASE d # None
  <2> DEFINE g == fc'
             b == [call[t] EXCEPT !.pc = "flush", !.dwpt = d]
  <2>1. fc.flushQueue # <<>>
    BY <1>4 DEF Polled
  <2>2. Good(fc, dwpts)
    BY Fields
  <2>3. /\ Good(g, dwpts) /\ Excess(g) = Excess(fc) /\ g.states = fc.states
        /\ InStates(g) = InStates(fc) /\ Flushed(g) = Flushed(fc) /\ Blocked(g) = Blocked(fc)
        /\ g.fullFlushBuffer = fc.fullFlushBuffer /\ d \in Range(fc.flushQueue)
        /\ Range(g.flushQueue) = Range(fc.flushQueue) \ {d}
    BY <1>1, <2>1, <2>2, PolledOut
  <2>4. call' = [call EXCEPT ![t] = b]
    BY <1>4, Fields DEF NextPendingFlush
  <2>5. d \in Flushed(fc) /\ d \in Nat /\ d \notin Range(fc.fullFlushBuffer)
    <3>1. d \in Flushed(fc) /\ d \notin Range(fc.fullFlushBuffer)
      BY <2>3, NoneNowhere DEF InQueues
    <3>2. d \in Live
      BY <3>1, Fields DEF Held
    <3> QED BY <3>1, <3>2, NoneNowhere
  <2> HIDE DEF d
  <2>6. b \in CallRec /\ b.pc = "flush" /\ b.dwpt = d /\ b.ctx = call[t].ctx
    BY <1>3, <2>5 DEF CallRec, Pcs
  <2> HIDE DEF b, g
  <2>7. Takes(t, d)
    BY <1>1, <2>4, <2>6, Fields, ContextOK DEF Takes, OnlyCall
  <2>8. Flushed(g) \ InQueues(g) = (Flushed(fc) \ InQueues(fc)) \cup {d}
    BY <2>3, <2>5 DEF InQueues
  <2>9. d \notin Flushed(fc) \ InQueues(fc) /\ d \in Flushed(g) \ InQueues(g)
    BY <2>3, <2>8 DEF InQueues
  <2>10. InStates(g) \cup Blocked(g) \cup Flushed(g) = Live
    BY <2>3, Fields DEF Held
  <2>11. Held(g, call', Live')
    BY <1>1, <1>3, <1>4, <2>7, <2>8, <2>9, <2>10, TakesHeld
  <2>12. Core'
    BY <1>1, <2>3, <2>11, Fields, BalancedSame DEF Core, g
  <2>13. Moves(t)
    BY <1>1, <1>3, <1>4, <2>7, TakesMoves
  <2> QED BY <1>1, <1>2, <2>3, <2>12, <2>13, StatesStay, MovesStep, Fields DEF g
<1>5. CASE d = None
  <2>1. fc.flushQueue = <<>>
    <3> SUFFICES ASSUME fc.flushQueue # <<>> PROVE FALSE
      OBVIOUS
    <3>1. Good(fc, dwpts)
      BY Fields
    <3>2. d \in Range(fc.flushQueue)
      BY <3>1, PolledOut
    <3>3. d \in Flushed(fc)
      BY <3>2, NoneNowhere DEF InQueues
    <3> QED BY <1>5, <3>3, NoneNowhere
  <2>2. fc' = fc
    BY <1>1, <2>1 DEF PollFlush
  <2> DEFINE m == [call[t] EXCEPT !.pc = "scan", !.state = 1, !.left = ActiveThreadStateCount]
  <2>3. CASE fc.numPending > 0 /\ ~fc.fullFlush
    <3>1. call' = [call EXCEPT ![t] = m]
      BY <1>5, <2>3 DEF NextPendingFlush
    <3>2. Len(fc.states) \in Nat /\ call \in [Callers -> CallRec]
          /\ CallOK(t, call[t], Len(fc.states))
      BY Fields
    <3>3. /\ m \in CallRec /\ m.pc = "scan" /\ m.state = 1 /\ m.left = Len(fc.states)
          /\ m.ctx = call[t].ctx /\ m.dwpt = None
      BY <1>3, <3>2 DEF CallRec, Pcs, ActiveThreadStateCount
    <3> HIDE DEF m
    <3>4. CallOK(t, m, Len(fc.states))
      BY <1>1, <3>2, <3>3 DEF CallOK, Working, MainPcs, FullFlushPcs, ThreadPcs, None
    <3>5. QuietCall(t)
      BY <1>3, <3>1, <3>2, <3>3, <3>4 DEF QuietCall, Working
    <3> QED BY <1>1, <1>2, <2>2, <3>5, QuietStep
  <2>4. CASE ~(fc.numPending > 0 /\ ~fc.fullFlush)
    <3>1. call' = [call EXCEPT ![t] = NothingPending(t)]
      BY <1>5, <2>4 DEF NextPendingFlush
    <3>2. Fresh(t, NothingPending(t))
      BY <1>1, NothingPendingFresh
    <3> QED BY <1>1, <1>2, <1>3, <2>2, <3>1, <3>2, FreshStep
  <2> QED BY <2>3, <2>4
<1> QED BY <1>4, <1>5

LEMMA ScanPendingKeeps ==
  ASSUME FCInv, NEW t \in Callers, ScanPending(t)
  PROVE  FCInv'
<1> DEFINE s == call[t].state
           n == [call[t] EXCEPT !.state = s + 1]
<1>1. /\ call[t].pc = "scan" /\ monitor' = monitor /\ UNCHANGED <<holder, freeList, dwpts>>
  BY DEF ScanPending, poolVars
<1>2. Scalars'
  BY ScalarsStall DEF ScanPending, poolVars
<1>3. /\ call[t].dwpt = None /\ call[t].pc \notin Working \cup {"swap"} /\ call[t] \in CallRec
      /\ CallOK(t, call[t], Len(fc.states)) /\ Len(fc.states) \in Nat
      /\ call \in [Callers -> CallRec]
  BY <1>1, Fields, ContextOK
<1>4. CASE s > call[t].left
  <2>1. call' = [call EXCEPT ![t] = NothingPending(t)] /\ fc' = fc
    BY <1>4 DEF ScanPending
  <2>2. Fresh(t, NothingPending(t))
    BY <1>1, NothingPendingFresh
  <2> QED BY <1>1, <1>2, <1>3, <2>1, <2>2, FreshStep
<1>5. CASE call' = [call EXCEPT ![t].state = s + 1] /\ fc' = fc
  <2>1. /\ n \in CallRec /\ n.pc = "scan" /\ n.state = s + 1 /\ n.left = call[t].left
        /\ n.ctx = call[t].ctx /\ n.dwpt = None /\ s + 1 # 0
    BY <1>1, <1>3 DEF CallRec
  <2>2. call' = [call EXCEPT ![t] = n]
    BY <1>3, <1>5
  <2> HIDE DEF n, s
  <2>3. CallOK(t, n, Len(fc.states))
    BY <1>1, <1>3, <2>1 DEF CallOK, Working, None
  <2>4. QuietCall(t)
    BY <1>1, <1>3, <2>1, <2>2, <2>3 DEF QuietCall, Working
  <2> QED BY <1>1, <1>2, <1>5, <2>4, QuietStep
<1>6. CASE /\ ~(s > call[t].left) /\ fc.states[s].flushPending /\ CanLock(t, s)
           /\ fc' = CheckOut(fc, s)
           /\ call' = [call EXCEPT ![t] =
                 At("flush", None, fc.states[s].dwpt, call[t].ctx, call[t].nested, 0)]
  <2> DEFINE d == fc.states[s].dwpt
             b == At("flush", None, d, call[t].ctx, call[t].nested, 0)
             g == fc'
  <2>1. s \in DOMAIN fc.states
    <3>1. s # 0 /\ call[t].left <= Len(fc.states) /\ s \in Nat /\ call[t].left \in Nat
      BY <1>1, <1>3 DEF CallOK, CallRec
    <3> QED BY <1>3, <1>6, <3>1, Fields
  <2>2. Good(fc, dwpts)
    BY Fields
  <2>3. d \in Nat /\ d # None
    BY <1>6, <2>1, <2>2, GoodFields
  <2>4. /\ Good(g, dwpts) /\ Excess(g) = Excess(fc) /\ OnlyAt(fc, g, s, Uninitialized)
        /\ d \in InStates(fc) /\ InStates(g) = InStates(fc) \ {d}
        /\ Flushed(g) = Flushed(fc) \cup {d} /\ Blocked(g) = Blocked(fc)
        /\ g.flushQueue = fc.flushQueue /\ g.fullFlushBuffer = fc.fullFlushBuffer
    BY <1>6, <2>1, <2>2, CheckedOut
  <2>5. InStates(fc) \cap Flushed(fc) = {}
    BY <2>2, GoodFields
  <2> HIDE DEF d
  <2>6. b \in CallRec /\ b.pc = "flush" /\ b.dwpt = d /\ b.ctx = call[t].ctx
    BY <1>3, <2>3 DEF At, None, CallRec, Pcs
  <2>7. call' = [call EXCEPT ![t] = b]
    BY <1>6 DEF d
  <2> HIDE DEF b, g
  <2>8. Takes(t, d)
    BY <1>1, <1>3, <2>6, <2>7, ContextOK DEF Takes, OnlyCall
  <2>9. InQueues(g) = InQueues(fc) /\ InQueues(fc) \subseteq Flushed(fc)
    BY <2>4, NoneNowhere DEF InQueues
  <2>10. /\ Flushed(g) \ InQueues(g) = (Flushed(fc) \ InQueues(fc)) \cup {d}
         /\ d \notin Flushed(fc) \ InQueues(fc) /\ d \in Flushed(g) \ InQueues(g)
    BY <2>4, <2>5, <2>9
  <2>11. InStates(g) \cup Blocked(g) \cup Flushed(g) = Live
    BY <2>4, Fields DEF Held
  <2>12. Held(g, call', Live')
    BY <1>1, <1>3, <2>3, <2>8, <2>10, <2>11, TakesHeld
  <2>13. Core'
    BY <1>1, <2>4, <2>12, Fields, BalancedSame DEF Core, g
  <2>14. Moves(t)
    BY <1>1, <1>3, <2>3, <2>8, TakesMoves
  <2>15. DwptsStay
    <3>1. call[t].pc \notin Working \ {"lock"}
      BY <1>3
    <3>2. \A u \in Threads : call[u].pc \in Working \ {"lock"} => call[u].state # s
      BY <1>6, <2>1, <3>1, NobodyWorks
    <3> QED BY <2>4, <3>2, OthersStay DEF g
  <2> QED BY <1>1, <1>2, <2>4, <2>13, <2>14, <2>15, MovesStep, Fields DEF g, OnlyAt
<1> QED BY <1>4, <1>5, <1>6 DEF ScanPending

LEMMA FlushKeeps ==
  ASSUME FCInv, NEW t \in Callers, NEW backlog \in BOOLEAN, Flush(t, backlog)
  PROVE  FCInv'
<1> DEFINE d == call[t].dwpt
           c == IF backlog THEN AfterDoFlush(call[t].ctx)
                           ELSE At("next", None, None, call[t].ctx, TRUE, 0)
           g == fc'
<1>1. /\ call[t].pc = "flush" /\ monitor' = monitor /\ UNCHANGED <<holder, freeList>>
      /\ fc' = AfterFlush(fc, d) /\ dwpts' = Finished(d, "flushed")
      /\ call' = [call EXCEPT ![t] = c]
  BY DEF Flush, poolVars
<1>2. Scalars'
  BY ScalarsStall DEF Flush, poolVars
<1>3. /\ d # None /\ call[t].pc \notin Working \cup {"swap"} /\ call[t].pc # "swap"
      /\ call \in [Callers -> CallRec] /\ Held(fc, call, Live) /\ Good(fc, dwpts)
      /\ Len(fc.states) \in Nat /\ dwpts \in Seq(DwptRec)
  BY <1>1, Fields, ContextOK
<1>4. Fresh(t, c)
  <2>1. Fresh(t, AfterDoFlush(call[t].ctx))
    BY <1>1, AfterDoFlushFresh
  <2>2. Fresh(t, At("next", None, None, call[t].ctx, TRUE, 0))
    BY <1>1, FreshMain, FreshThread, ContextOK
  <2> QED BY <2>1, <2>2
<1>5. /\ d \in Hands(call) /\ d \in Flushed(fc) \ InQueues(fc)
  BY <1>3 DEF Held, Hands
<1>6. d \in Live /\ d \in DOMAIN dwpts
  BY <1>3, <1>5, NoneNowhere DEF Held
<1> HIDE DEF c, g
<1>7. /\ call' \in [Callers -> CallRec] /\ call'[t] = c /\ OnlyCall(t)
  BY <1>1, <1>3, <1>4 DEF Fresh, OnlyCall
<1>8. /\ QueueResult(fc, g, dwpts) /\ Flushed(g) = Flushed(fc) \ {d} /\ Blocked(g) = Blocked(fc)
      /\ g.flushQueue = fc.flushQueue /\ g.fullFlushBuffer = fc.fullFlushBuffer
  <2>1. d \in Flushed(fc) /\ d \notin Range(fc.flushQueue) /\ d \notin Range(fc.fullFlushBuffer)
    BY <1>5 DEF InQueues
  <2> QED BY <1>1, <1>3, <2>1, FlushedOne DEF g
<1>9. /\ dwpts' \in Seq(DwptRec) /\ Live' = Live \ {d}
      /\ \A e \in DOMAIN dwpts \ {d} : dwpts'[e] = dwpts[e]
  <2>1. dwpts \in Seq(DwptRec) /\ d \in DOMAIN dwpts /\ dwpts' = Finished(d, "flushed")
    BY <1>1, <1>3, <1>6
  <2> HIDE DEF d
  <2> QED BY <2>1, FinishedLive, LiveIsIn
<1>10. /\ InStates(fc) \cap Blocked(fc) = {} /\ InStates(fc) \cap Flushed(fc) = {}
       /\ Blocked(fc) \cap Flushed(fc) = {}
  BY <1>3, GoodFields
<1>11. Held(g, call', Live')
  <2>1. Hands(call') = Hands(call) \ {d} /\ OneHand(call')
    <3>1. /\ \A u \in Callers \ {t} : call'[u] = call[u]
          /\ OneHand(call) /\ call[t].dwpt # None /\ call'[t].dwpt = None
      BY <1>3, <1>4, <1>7 DEF OnlyCall, Held, Fresh
    <3> QED BY <3>1, HandsDrop
  <2>2. InQueues(g) = InQueues(fc)
    BY <1>8 DEF InQueues
  <2>3. InStates(g) = InStates(fc)
    BY <1>8 DEF QueueResult
  <2>4. Live' = InStates(g) \cup Blocked(g) \cup Flushed(g)
    BY <1>3, <1>5, <1>8, <1>9, <1>10, <2>3 DEF Held
  <2>5. Hands(call') = Flushed(g) \ InQueues(g)
    BY <1>3, <1>8, <2>1, <2>2 DEF Held
  <2> QED BY <2>1, <2>4, <2>5 DEF Held
<1>12. Good(g, dwpts')
  <2>1. \A e \in InStates(g) : dwpts'[e].docs = 0 => dwpts[e].docs = 0
    <3>1. InStates(g) = InStates(fc) /\ d \notin InStates(fc)
      BY <1>5, <1>8, <1>10 DEF QueueResult
    <3>2. InStates(fc) \subseteq DOMAIN dwpts
      BY <1>3, NoneNowhere DEF Held
    <3>3. \A e \in InStates(g) : e \in DOMAIN dwpts \ {d}
      BY <3>1, <3>2
    <3> QED BY <1>9, <3>3
  <2> QED BY <1>8, <2>1, GoodTable DEF QueueResult
<1>13. Core'
  <2>1. Balanced(g)
    BY <1>8, Fields, BalancedSame DEF QueueResult
  <2> QED BY <1>11, <1>12, <2>1 DEF Core, g
<1>14. Moves(t)
  <2>1. c.pc \notin Working \cup {"swap"} /\ CallOK(t, c, Len(fc.states))
    BY <1>3, <1>4 DEF Fresh
  <2> QED BY <1>1, <1>3, <1>7, <2>1 DEF Moves
<1>15. fc'.states = fc.states
  BY <1>8 DEF QueueResult, g
<1> QED BY <1>1, <1>2, <1>9, <1>13, <1>14, <1>15, StatesStay, MovesStep
------------------------------------------------------------------------------
\* updateDocument with a ThreadState of the pool

\* Thread t goes on with the ThreadState it works on, and has its lock.
Works(t) ==
    /\ OnlyCall(t) /\ call' \in [Callers -> CallRec]
    /\ CallOK(t, call'[t], Len(fc.states))
    /\ call[t].pc \in Working /\ call'[t].pc \in Working
    /\ call'[t].state = call[t].state
    /\ holder' \in [DOMAIN fc.states -> Callers \cup {NoThread}]
    /\ holder'[call[t].state] = t
    /\ \A r \in DOMAIN fc.states \ {call[t].state} : holder'[r] = holder[r]
    /\ monitor' = monitor /\ freeList' = freeList
    /\ DOMAIN fc'.states = DOMAIN fc.states
    /\ call'[t].pc \in {"index", "after"} => fc'.states[call[t].state].dwpt # None

OthersKeep(t) == \A u \in Threads \ {t} : call[u].pc \in {"index", "after"}
                    => fc'.states[call[u].state].dwpt = fc.states[call[u].state].dwpt

LEMMA WorksOwners ==
  ASSUME FCInv, NEW t \in Threads, Works(t), OthersKeep(t)
  PROVE  Owners'
<1> DEFINE s == call[t].state
<1>1. Owners /\ Threads \subseteq Callers
  BY Fields
<1>2. /\ \A u \in Threads \ {t} : call'[u] = call[u]
      /\ call[t].pc \in Working /\ call'[t].pc \in Working /\ call'[t].state = s
  BY <1>1 DEF Works, OnlyCall
<1>3. \A u \in Threads : /\ call'[u].pc \in Working <=> call[u].pc \in Working
                         /\ call'[u].pc \in Working => call'[u].state = call[u].state
  BY <1>2
<1>4. /\ \A v, u \in Threads : v # u /\ call'[v].pc \in Working /\ call'[u].pc \in Working
            => call'[v].state # call'[u].state
      /\ \A u \in Threads : call'[u].pc \in Working => call'[u].state \notin Range(freeList')
      /\ Injective(freeList')
  BY <1>1, <1>3 DEF Owners, Works
<1>5. ASSUME NEW u \in Threads, call'[u].pc \in Working \ {"lock"}
      PROVE  holder'[call'[u].state] = u
  <2>1. CASE u = t
    BY <1>2, <2>1 DEF Works
  <2>2. CASE u # t
    <3>1. call'[u] = call[u] /\ call[u].pc \in Working \ {"lock"} /\ call[u].state # s
      BY <1>1, <1>2, <1>5, <2>2 DEF Owners
    <3>2. CallOK(u, call[u], Len(fc.states)) /\ DOMAIN fc.states = 1 .. Len(fc.states)
      BY <1>1, Fields
    <3>3. call[u].state \in DOMAIN fc.states
      BY <3>1, <3>2 DEF CallOK
    <3>4. holder'[call[u].state] = holder[call[u].state]
      BY <3>1, <3>3 DEF Works
    <3> QED BY <1>1, <3>1, <3>4 DEF Owners
  <2> QED BY <2>1, <2>2
<1>6. ASSUME NEW r \in DOMAIN fc'.states, holder'[r] \in Threads
      PROVE  call'[holder'[r]].pc \in Working /\ call'[holder'[r]].state = r
  <2>1. r \in DOMAIN fc.states
    BY DEF Works
  <2>2. CASE r = s
    <3>1. holder'[r] = t
      BY <2>2 DEF Works
    <3> QED BY <1>2, <2>2, <3>1
  <2>3. CASE r # s
    <3>1. holder'[r] = holder[r]
      BY <2>1, <2>3 DEF Works
    <3>2. call[holder[r]].pc \in Working /\ call[holder[r]].state = r /\ holder[r] \in Threads
      BY <1>1, <1>6, <2>1, <3>1 DEF Owners
    <3> QED BY <1>3, <3>1, <3>2
  <2> QED BY <2>2, <2>3
<1>7. ASSUME NEW u \in Threads, call'[u].pc \in {"index", "after"}
      PROVE  fc'.states[call'[u].state].dwpt # None
  <2>1. CASE u = t
    BY <1>2, <1>7, <2>1 DEF Works
  <2>2. CASE u # t
    BY <1>1, <1>2, <1>7, <2>2 DEF OthersKeep, Owners
  <2> QED BY <2>1, <2>2
<1> QED BY <1>4, <1>5, <1>6, <1>7 DEF Owners

LEMMA WorksStep ==
  ASSUME FCInv, NEW t \in Threads, Works(t), OthersKeep(t), Scalars', dwpts' \in Seq(DwptRec),
         Core'
  PROVE  FCInv'
<1>1. /\ Types /\ fc'.states \in Seq(StateRec) /\ t \in Callers /\ t # Main
      /\ DOMAIN fc.states = 1 .. Len(fc.states) /\ Len(fc.states) \in Nat
  <2>1. Good(fc, dwpts)'
    BY DEF Core
  <2>2. fc'.states \in Seq(StateRec)
    BY <2>1 DEF Good, Typed, FcRec
  <2> QED BY <2>2, Fields, ThreadsAssumption
<1>2. Len(fc'.states) = Len(fc.states)
  BY <1>1 DEF Works
<1>3. Types'
  BY <1>1 DEF Types, Works
<1>4. Control'
  <2>1. /\ OnlyCall(t) /\ CallOK(t, call'[t], Len(fc'.states)) /\ Len(fc'.states) \in Nat
        /\ Len(fc.states) <= Len(fc'.states) /\ monitor' = monitor
    BY <1>1, <1>2 DEF Works
  <2> QED BY <1>1, <2>1, ControlStep
<1>5. Owners'
  BY WorksOwners
<1> QED BY <1>3, <1>4, <1>5 DEF FCInv

\* What is known of a thread at work
LEMMA AtWork ==
  ASSUME FCInv, NEW t \in Threads, call[t].pc \in Working
  PROVE  /\ call[t].state \in DOMAIN fc.states /\ call[t].state \in Nat
         /\ fc.states[call[t].state] \in StateRec
         /\ holder \in [DOMAIN fc.states -> Callers \cup {NoThread}]
         /\ call[t] \in CallRec /\ CallOK(t, call[t], Len(fc.states))
         /\ t \in Callers /\ t # Main
         /\ call[t].pc # "lock" => holder[call[t].state] = t
         /\ call[t].pc # "release" => call[t].dwpt = None
         /\ call[t].pc \in {"index", "after"} => fc.states[call[t].state].dwpt # None
         /\ fc.states[call[t].state].dwpt # None
               => /\ fc.states[call[t].state].dwpt \in Live
                  /\ fc.states[call[t].state].dwpt \in DOMAIN dwpts
                  /\ dwpts[fc.states[call[t].state].dwpt] \in DwptRec
         /\ \A u \in Threads \ {t} : call[u].pc \in Working => call[u].state # call[t].state
<1> DEFINE s == call[t].state
           d == fc.states[s].dwpt
<1>1. /\ CallOK(t, call[t], Len(fc.states)) /\ call[t] \in CallRec /\ t \in Callers /\ t # Main
      /\ DOMAIN fc.states = 1 .. Len(fc.states) /\ fc.states \in Seq(StateRec)
      /\ holder \in [DOMAIN fc.states -> Callers \cup {NoThread}]
  BY Fields, ThreadsAssumption DEF Types
<1>2. s \in DOMAIN fc.states /\ s \in Nat
  BY <1>1 DEF CallOK, CallRec
<1>3. fc.states[s] \in StateRec
  BY <1>1, <1>2
<1>4. call[t].pc # "release" => call[t].dwpt = None
  BY <1>1 DEF CallOK, Working
<1>5. d # None => d \in Live /\ d \in DOMAIN dwpts /\ dwpts[d] \in DwptRec
  <2> SUFFICES ASSUME d # None
               PROVE  d \in Live /\ d \in DOMAIN dwpts /\ dwpts[d] \in DwptRec
    OBVIOUS
  <2>1. d \in InStates(fc)
    BY <1>2 DEF InStates
  <2>2. d \in Live
    BY <2>1, Fields DEF Held
  <2>3. dwpts \in Seq(DwptRec)
    BY Fields
  <2> HIDE DEF d
  <2>4. d \in DOMAIN dwpts
    BY <2>2, NoneNowhere
  <2>5. dwpts[d] \in DwptRec
    BY <2>3, <2>4
  <2> QED BY <2>2, <2>4, <2>5
<1>6. /\ call[t].pc # "lock" => holder[s] = t
      /\ call[t].pc \in {"index", "after"} => fc.states[s].dwpt # None
      /\ \A u \in Threads \ {t} : call[u].pc \in Working => call[u].state # s
  BY Fields DEF Owners
<1> QED BY <1>1, <1>2, <1>3, <1>4, <1>5, <1>6

\* The thread has the lock already, and what others have stays.
LEMMA WorksOn ==
  ASSUME FCInv, NEW t \in Threads, call[t].pc \in Working \ {"lock"}, NEW b \in CallRec,
         call' = [call EXCEPT ![t] = b], b.pc \in Working, b.state = call[t].state,
         CallOK(t, b, Len(fc.states)), UNCHANGED <<holder, freeList, monitor>>,
         DOMAIN fc'.states = DOMAIN fc.states,
         b.pc \in {"index", "after"} => fc'.states[b.state].dwpt # None
  PROVE  Works(t)
<1>1. call' \in [Callers -> CallRec] /\ call'[t] = b /\ OnlyCall(t)
  BY Fields DEF OnlyCall
<1>2. /\ holder \in [DOMAIN fc.states -> Callers \cup {NoThread}] /\ holder[call[t].state] = t
  BY AtWork
<1> QED BY <1>1, <1>2 DEF Works

LEMMA InRAMTable ==
  ASSUME FCInv, NEW d \in DOMAIN dwpts, NEW n \in Nat, InRAM(d, n)
  PROVE  /\ dwpts' \in Seq(DwptRec) /\ Live' = Live
         /\ \A e \in DOMAIN dwpts : dwpts'[e].docs = 0 => dwpts[e].docs = 0
         /\ \A e \in DOMAIN dwpts : dwpts'[e].queue = dwpts[e].queue
<1>1. dwpts \in Seq(DwptRec)
  BY Fields
<1>2. dwpts[d] \in DwptRec
  BY <1>1
<1> DEFINE x == [dwpts[d] EXCEPT !.docs = dwpts[d].docs + n]
<1>3. x \in DwptRec /\ x.status = dwpts[d].status /\ x.queue = dwpts[d].queue
      /\ (x.docs = 0 => dwpts[d].docs = 0)
  BY <1>2 DEF DwptRec
<1>4. dwpts' = [dwpts EXCEPT ![d] = x]
  BY <1>1, <1>2 DEF InRAM
<1> HIDE DEF x
<1>5. dwpts' \in Seq(DwptRec)
  BY <1>1, <1>3, <1>4
<1>6. DOMAIN dwpts' = DOMAIN dwpts /\ \A e \in DOMAIN dwpts : dwpts'[e].status = dwpts[e].status
  BY <1>3, <1>4
<1>7. Live' = Live
  BY <1>6 DEF Live
<1> QED BY <1>3, <1>4, <1>5, <1>7

NewCall(t, b) == call' = [call EXCEPT ![t] = b]

\* A document in RAM changes nothing of the flush control.
LEMMA InRAMKeeps ==
  ASSUME FCInv, NEW t \in Threads, call[t].pc = "index", NEW n \in Nat,
         InRAM(fc.states[call[t].state].dwpt, n), NEW b \in CallRec,
         NewCall(t, b), b.pc \in {"after", "release"},
         b.state = call[t].state, b.dwpt = None, b.ctx \in ThreadCtxs,
         b.pc = "after" => b.ctx # "failed",
         UNCHANGED <<fc, holder, freeList, monitor>>, Scalars'
  PROVE  FCInv'
<1> DEFINE d == fc.states[call[t].state].dwpt
<1>1. call[t].pc \in Working \ {"lock"} /\ b.pc \in Working
  BY DEF Working
<1>2. /\ d \in Live /\ d \in DOMAIN dwpts /\ call[t].dwpt = None /\ t # Main
      /\ call[t].state \in DOMAIN fc.states /\ fc.states[call[t].state].dwpt # None
      /\ t \in Callers
  BY <1>1, AtWork
<1>3. /\ dwpts' \in Seq(DwptRec) /\ Live' = Live
      /\ \A e \in DOMAIN dwpts : dwpts'[e].docs = 0 => dwpts[e].docs = 0
  BY <1>2, InRAMTable
<1>4. CallOK(t, b, Len(fc.states))
  <2>1. DOMAIN fc.states = 1 .. Len(fc.states)
    BY Fields
  <2> QED BY <1>2, <2>1 DEF CallOK, ThreadPcs, ThreadCtxs, Working
<1>5. Works(t)
  BY <1>1, <1>2, <1>4, WorksOn DEF NewCall
<1>6. OthersKeep(t)
  BY DEF OthersKeep
<1>7. Core'
  <2>1. Good(fc, dwpts) /\ Held(fc, call, Live) /\ Balanced(fc)
    BY Fields
  <2>2. InStates(fc) \subseteq DOMAIN dwpts
    BY <2>1, NoneNowhere DEF Held
  <2>3. Good(fc, dwpts')
    <3>1. \A e \in InStates(fc) : dwpts'[e].docs = 0 => dwpts[e].docs = 0
      BY <1>3, <2>2
    <3> QED BY <2>1, <3>1, GoodTable
  <2>4. Hands(call') = Hands(call) /\ OneHand(call')
    <3>1. /\ \A u \in Callers \ {t} : call'[u] = call[u]
          /\ call'[t].dwpt = call[t].dwpt /\ OneHand(call) /\ t \in Callers
      BY <1>2, Fields DEF Held, NewCall
    <3> QED BY <3>1, HandsStay
  <2>5. Held(fc, call', Live')
    BY <1>3, <2>1, <2>4 DEF Held
  <2> QED BY <2>1, <2>3, <2>5 DEF Core
<1> QED BY <1>3, <1>5, <1>6, <1>7, WorksStep

LEMMA IndexKeeps ==
  ASSUME FCInv, NEW t \in Threads, Index(t)
  PROVE  FCInv'
<1> DEFINE b == [call[t] EXCEPT !.pc = "after"]
<1>1. /\ call[t].pc = "index" /\ InRAM(fc.states[call[t].state].dwpt, 1)
      /\ UNCHANGED <<fc, holder, freeList, monitor>>
  BY DEF Index, poolVars
<1>2. Scalars'
  BY ScalarsNow DEF Index, Scalars, poolVars, stallVars, queueVars
<1>3. /\ call[t] \in CallRec /\ CallOK(t, call[t], Len(fc.states)) /\ call[t].dwpt = None
      /\ t # Main /\ t \in Callers
  BY <1>1, AtWork DEF Working
<1>4. call' = [call EXCEPT ![t] = b]
  BY <1>3, Fields DEF Index, Goto
<1>5. /\ b \in CallRec /\ b.pc = "after" /\ b.state = call[t].state /\ b.dwpt = None
      /\ b.ctx \in ThreadCtxs /\ b.ctx # "failed"
  BY <1>1, <1>3 DEF CallRec, Pcs, CallOK, ThreadCtxs
<1>6. NewCall(t, b)
  BY <1>4 DEF NewCall
<1> QED BY <1>1, <1>2, <1>5, <1>6, InRAMKeeps

LEMMA FailDocumentKeeps ==
  ASSUME FCInv, NEW t \in Threads, NEW n \in 0 .. 1, FailDocument(t, n)
  PROVE  FCInv'
<1> DEFINE b == [call[t] EXCEPT !.pc = "release", !.ctx = "failed"]
<1>1. /\ call[t].pc = "index" /\ InRAM(fc.states[call[t].state].dwpt, n) /\ n \in Nat
      /\ UNCHANGED <<fc, holder, freeList, monitor>>
  BY DEF FailDocument, poolVars
<1>2. Scalars'
  BY ScalarsNow DEF FailDocument, Scalars, poolVars, stallVars, queueVars, seqVars
<1>3. /\ call[t] \in CallRec /\ CallOK(t, call[t], Len(fc.states)) /\ call[t].dwpt = None
      /\ t # Main /\ t \in Callers
  BY <1>1, AtWork DEF Working
<1>4. call' = [call EXCEPT ![t] = b]
  BY <1>3, Fields DEF FailDocument
<1>5. /\ b \in CallRec /\ b.pc = "release" /\ b.state = call[t].state /\ b.dwpt = None
      /\ b.ctx \in ThreadCtxs
  BY <1>3 DEF CallRec, Pcs, ThreadCtxs
<1>6. NewCall(t, b)
  BY <1>4 DEF NewCall
<1> QED BY <1>1, <1>2, <1>5, <1>6, InRAMKeeps
LEMMA KeptSets ==
  ASSUME NEW f, NEW g, Kept(f, g)
  PROVE  /\ InStates(g) = InStates(f) /\ Blocked(g) = Blocked(f) /\ Flushed(g) = Flushed(f)
         /\ InQueues(g) = InQueues(f) /\ g.fullFlush = f.fullFlush
         /\ g.flushQueue = f.flushQueue /\ g.fullFlushBuffer = f.fullFlushBuffer
         /\ DOMAIN g.states = DOMAIN f.states
<1>1. /\ DOMAIN g.states = DOMAIN f.states
      /\ \A s \in DOMAIN f.states : g.states[s].dwpt = f.states[s].dwpt
  BY DEF Kept
<1>2. InStates(g) = InStates(f)
  BY <1>1 DEF InStates
<1> QED BY <1>1, <1>2 DEF Kept, SameQueues, Blocked, Flushed, InQueues

\* The callers hold the same DWPTs, or t takes d in hand.
LEMMA HeldSame ==
  ASSUME NEW f, NEW g, NEW c, NEW b, NEW live, NEW new, Held(f, c, live),
         NEW t \in Callers, \A u \in Callers \ {t} : b[u] = c[u], b[t].dwpt = c[t].dwpt,
         new = InStates(g) \cup Blocked(g) \cup Flushed(g),
         Flushed(g) \ InQueues(g) = Flushed(f) \ InQueues(f)
  PROVE  Held(g, b, new)
<1>1. Hands(b) = Hands(c) /\ (OneHand(c) => OneHand(b))
  BY HandsStay
<1> QED BY <1>1 DEF Held

LEMMA HeldTakes ==
  ASSUME NEW f, NEW g, NEW c, NEW b, NEW live, Held(f, c, live), NEW d, d # None,
         NEW t \in Callers, \A u \in Callers \ {t} : b[u] = c[u],
         c[t].dwpt = None, b[t].dwpt = d,
         live = InStates(g) \cup Blocked(g) \cup Flushed(g),
         Flushed(g) \ InQueues(g) = (Flushed(f) \ InQueues(f)) \cup {d},
         d \notin Flushed(f) \ InQueues(f)
  PROVE  Held(g, b, live)
<1>1. b[t].dwpt # None /\ b[t].dwpt \notin Hands(c)
  BY DEF Held
<1>2. Hands(b) = Hands(c) \cup {d} /\ (OneHand(c) => OneHand(b))
  BY <1>1, HandsTake
<1> QED BY <1>2 DEF Held

\* What a step of doAfterDocument comes to: the DWPT of s stays, or is blocked,
\* or flushing, and DWPT d, if any, is in hand.
CheckoutResult(f, g, s, d) ==
    /\ Good(g, dwpts) /\ Excess(g) = Excess(f) /\ DOMAIN g.states = DOMAIN f.states
    /\ \A r \in DOMAIN f.states \ {s} : g.states[r].dwpt = f.states[r].dwpt
    /\ InStates(g) \cup Blocked(g) \cup Flushed(g) = InStates(f) \cup Blocked(f) \cup Flushed(f)
    /\ Flushed(g) \ InQueues(g) = (Flushed(f) \ InQueues(f)) \cup ({d} \ {None})
    /\ d # None => d \notin Flushed(f) \ InQueues(f)
    /\ d \in Nat

LEMMA CheckoutNothing ==
  ASSUME NEW f, NEW g, NEW s, Good(g, dwpts), Kept(f, g), Excess(g) = Excess(f)
  PROVE  CheckoutResult(f, g, s, None)
<1>1. /\ InStates(g) = InStates(f) /\ Blocked(g) = Blocked(f) /\ Flushed(g) = Flushed(f)
      /\ InQueues(g) = InQueues(f) /\ DOMAIN g.states = DOMAIN f.states
  BY KeptSets
<1>2. \A r \in DOMAIN f.states \ {s} : g.states[r].dwpt = f.states[r].dwpt
  BY DEF Kept
<1> QED BY <1>1, <1>2 DEF CheckoutResult, None

\* A result is one of the record before, if that has the same DWPTs.
LEMMA CheckoutKept ==
  ASSUME NEW f, NEW g, NEW h, NEW s, NEW d, Kept(f, g), Excess(g) = Excess(f),
         CheckoutResult(g, h, s, d)
  PROVE  CheckoutResult(f, h, s, d)
<1>1. /\ InStates(g) = InStates(f) /\ Blocked(g) = Blocked(f) /\ Flushed(g) = Flushed(f)
      /\ InQueues(g) = InQueues(f) /\ DOMAIN g.states = DOMAIN f.states
  BY KeptSets
<1>2. \A r \in DOMAIN f.states : g.states[r].dwpt = f.states[r].dwpt
  BY DEF Kept
<1> QED BY <1>1, <1>2 DEF CheckoutResult

LEMMA CheckoutTakes ==
  ASSUME NEW f, Good(f, dwpts), NEW s \in DOMAIN f.states, f.states[s].flushPending
  PROVE  CheckoutResult(f, CheckOut(f, s), s, f.states[s].dwpt)
<1> DEFINE d == f.states[s].dwpt
           g == CheckOut(f, s)
<1>1. /\ Good(g, dwpts) /\ Excess(g) = Excess(f) /\ OnlyAt(f, g, s, Uninitialized)
      /\ d \in InStates(f) /\ InStates(g) = InStates(f) \ {d}
      /\ Flushed(g) = Flushed(f) \cup {d} /\ Blocked(g) = Blocked(f)
      /\ g.flushQueue = f.flushQueue /\ g.fullFlushBuffer = f.fullFlushBuffer
  <2> HIDE DEF d
  <2> QED BY CheckedOut DEF d
<1>2. d \in Nat /\ d # None /\ InStates(f) \cap Flushed(f) = {}
  BY GoodFields
<1> HIDE DEF d, g
<1>3. InQueues(g) = InQueues(f) /\ InQueues(f) \subseteq Flushed(f)
  BY <1>1 DEF InQueues, Good, Queueing
<1>4. \A r \in DOMAIN f.states \ {s} : g.states[r].dwpt = f.states[r].dwpt
  BY <1>1 DEF OnlyAt
<1>5. DOMAIN g.states = DOMAIN f.states
  BY <1>1 DEF OnlyAt
<1>6. InStates(g) \cup Blocked(g) \cup Flushed(g) = InStates(f) \cup Blocked(f) \cup Flushed(f)
  BY <1>1
<1>7. /\ Flushed(g) \ InQueues(g) = (Flushed(f) \ InQueues(f)) \cup ({d} \ {None})
      /\ d \notin Flushed(f) \ InQueues(f)
  BY <1>1, <1>2, <1>3
<1>8. CheckoutResult(f, g, s, d)
  BY <1>1, <1>2, <1>4, <1>5, <1>6, <1>7 DEF CheckoutResult
<1> QED BY <1>8 DEF d, g

\* pollFlush, as a result: ThreadState s does not matter.
LEMMA CheckoutPolls ==
  ASSUME NEW f, Good(f, dwpts), NEW s, None \notin Flushed(f)
  PROVE  CheckoutResult(f, PollFlush(f), s, Polled(f))
<1> DEFINE g == PollFlush(f)
           d == Polled(f)
<1> SUFFICES CheckoutResult(f, g, s, d)
  OBVIOUS
<1>1. /\ Good(g, dwpts) /\ Excess(g) = Excess(f) /\ g.states = f.states
      /\ InStates(g) = InStates(f) /\ Flushed(g) = Flushed(f) /\ Blocked(g) = Blocked(f)
      /\ g.fullFlushBuffer = f.fullFlushBuffer
      /\ f.flushQueue = <<>> => g = f /\ d = None
      /\ f.flushQueue # <<>> => /\ d \in Range(f.flushQueue)
                                /\ Range(g.flushQueue) = Range(f.flushQueue) \ {d}
  BY PolledOut
<1>2. /\ InQueues(f) \subseteq Flushed(f) /\ Flushed(f) \in SUBSET Nat
      /\ Range(f.flushQueue) \cap Range(f.fullFlushBuffer) = {}
  BY GoodFields DEF Good, Queueing, InQueues, Flushed, DwptsOf, Flushing
<1> HIDE DEF d, g
<1>3. CASE f.flushQueue = <<>>
  BY <1>1, <1>3 DEF CheckoutResult, None
<1>4. CASE f.flushQueue # <<>>
  <2>1. d \in Flushed(f) /\ d \notin Range(f.fullFlushBuffer) /\ d # None /\ d \in Nat
    BY <1>1, <1>2, <1>4 DEF InQueues
  <2>2. Flushed(g) \ InQueues(g) = (Flushed(f) \ InQueues(f)) \cup ({d} \ {None})
    BY <1>1, <1>4, <2>1 DEF InQueues
  <2>3. d \notin Flushed(f) \ InQueues(f)
    BY <1>1, <1>4 DEF InQueues
  <2> QED BY <1>1, <2>1, <2>2, <2>3 DEF CheckoutResult
<1> QED BY <1>3, <1>4

LEMMA CheckoutBlocks ==
  ASSUME NEW f, Good(f, dwpts), NEW s \in DOMAIN f.states, f.states[s].flushPending,
         None \notin Flushed(f)
  PROVE  CheckoutResult(f, PollFlush(Block(f, s)), s, Polled(Block(f, s)))
<1> DEFINE d == f.states[s].dwpt
           m == Block(f, s)
           g == PollFlush(m)
           p == Polled(m)
<1>1. /\ Good(m, dwpts) /\ Excess(m) = Excess(f) /\ OnlyAt(f, m, s, Uninitialized)
      /\ d \in InStates(f) /\ InStates(m) = InStates(f) \ {d}
      /\ Flushed(m) = Flushed(f) /\ Blocked(m) = Blocked(f) \cup {d}
      /\ m.flushQueue = f.flushQueue /\ m.fullFlushBuffer = f.fullFlushBuffer
  <2> HIDE DEF d
  <2> QED BY Blocking DEF d
<1> HIDE DEF m
<1>2. CheckoutResult(m, g, s, p)
  BY <1>1, CheckoutPolls
<1> HIDE DEF g, p, d
<1>3. InQueues(m) = InQueues(f)
  BY <1>1 DEF InQueues
<1>4. /\ DOMAIN m.states = DOMAIN f.states
      /\ \A r \in DOMAIN f.states \ {s} : m.states[r].dwpt = f.states[r].dwpt
  BY <1>1 DEF OnlyAt
<1>5. InStates(m) \cup Blocked(m) \cup Flushed(m) = InStates(f) \cup Blocked(f) \cup Flushed(f)
  BY <1>1
<1>6. CheckoutResult(f, g, s, p)
  BY <1>1, <1>2, <1>3, <1>4, <1>5 DEF CheckoutResult
<1> QED BY <1>6 DEF g, p, m
\* The whole of doAfterDocument: bytes, policy, checkout.
LEMMA DocumentCounted ==
  ASSUME FCInv, NEW s \in DOMAIN fc.states, fc.states[s].dwpt # None,
         dwpts[fc.states[s].dwpt].docs \in Nat,
         NEW f, f = ApplyPolicy(CommitPerThreadBytes(fc, s), s)
  PROVE  Good(f, dwpts) /\ Kept(fc, f) /\ Excess(f) = Excess(fc)
<1> DEFINE c == CommitPerThreadBytes(fc, s)
<1>1. Good(fc, dwpts)
  BY Fields
<1>2. Good(c, dwpts) /\ Kept(fc, c) /\ Excess(c) = Excess(fc)
  BY <1>1, Committed
<1>3. f = ApplyPolicy(c, s)
  OBVIOUS
<1> HIDE DEF c
<1>4. s \in DOMAIN c.states /\ c.states[s].dwpt # None
  BY <1>2 DEF Kept
<1>5. PolicyResult(c, f)
  BY <1>2, <1>3, <1>4, PolicyApplied
<1> QED BY <1>2, <1>5 DEF PolicyResult, Kept, SameQueues

LEMMA AfterDocumentKeeps ==
  ASSUME FCInv, NEW t \in Threads, AfterDocument(t)
  PROVE  FCInv'
<1> DEFINE s == call[t].state
<1>1. /\ call[t].pc = "after" /\ UNCHANGED <<holder, freeList, monitor, dwpts>>
  BY DEF AfterDocument, poolVars
<1>2. Scalars'
  BY ScalarsStall DEF AfterDocument, poolVars
<1>3. /\ call[t] \in CallRec /\ CallOK(t, call[t], Len(fc.states)) /\ call[t].dwpt = None
      /\ t # Main /\ t \in Callers /\ s \in DOMAIN fc.states /\ fc.states[s].dwpt # None
      /\ dwpts[fc.states[s].dwpt].docs \in Nat
      /\ \A u \in Threads \ {t} : call[u].pc \in Working => call[u].state # s
  BY <1>1, AtWork DEF Working, DwptRec
<1>4. Held(fc, call, Live) /\ Balanced(fc) /\ dwpts \in Seq(DwptRec) /\ None \notin Flushed(fc)
      /\ DOMAIN fc.states = 1 .. Len(fc.states)
  BY Fields, NoneNowhere
<1> DEFINE Step(f, d) ==
      /\ fc' = IF ~f.states[s].flushPending THEN f
               ELSE IF Blocks(f) THEN PollFlush(Block(f, s)) ELSE CheckOut(f, s)
      /\ d = IF ~f.states[s].flushPending THEN None
             ELSE IF Blocks(f) THEN Polled(Block(f, s)) ELSE f.states[s].dwpt
      /\ call' = [call EXCEPT ![t].pc = "release", ![t].dwpt = d]
<1>5. PICK f, d : f = ApplyPolicy(CommitPerThreadBytes(fc, s), s) /\ Step(f, d)
  BY DEF AfterDocument
<1> HIDE DEF s, Step
<1>6. Good(f, dwpts) /\ Kept(fc, f) /\ Excess(f) = Excess(fc)
  BY <1>3, <1>5, DocumentCounted
<1>7. s \in DOMAIN f.states /\ None \notin Flushed(f)
  BY <1>3, <1>4, <1>6, KeptSets
<1>8. CheckoutResult(f, fc', s, d)
  <2>1. CASE ~f.states[s].flushPending
    <3>1. fc' = f /\ d = None
      BY <1>5, <2>1 DEF Step
    <3>2. Kept(f, f)
      BY DEF Kept, SameQueues
    <3> QED BY <1>6, <3>1, <3>2, CheckoutNothing
  <2>2. CASE f.states[s].flushPending /\ Blocks(f)
    <3>1. fc' = PollFlush(Block(f, s)) /\ d = Polled(Block(f, s))
      BY <1>5, <2>2 DEF Step
    <3> QED BY <1>6, <1>7, <2>2, <3>1, CheckoutBlocks
  <2>3. CASE f.states[s].flushPending /\ ~Blocks(f)
    <3>1. fc' = CheckOut(f, s) /\ d = f.states[s].dwpt
      BY <1>5, <2>3 DEF Step
    <3> QED BY <1>6, <1>7, <2>3, <3>1, CheckoutTakes
  <2> QED BY <2>1, <2>2, <2>3
<1>9. CheckoutResult(fc, fc', s, d)
  BY <1>6, <1>8, CheckoutKept
<1> DEFINE b == [call[t] EXCEPT !.pc = "release", !.dwpt = d]
<1>10. call' = [call EXCEPT ![t] = b]
  BY <1>3, <1>5, Fields DEF Step
<1>11. /\ b \in CallRec /\ b.pc = "release" /\ b.state = s /\ b.dwpt = d
       /\ b.ctx = call[t].ctx /\ b.ctx # "failed" /\ b.ctx \in ThreadCtxs
  <2>1. d \in Nat
    BY <1>9 DEF CheckoutResult
  <2> QED BY <1>1, <1>3, <2>1 DEF CallRec, Pcs, CallOK, ThreadCtxs, s
<1> HIDE DEF b
<1>12. CallOK(t, b, Len(fc.states))
  BY <1>3, <1>4, <1>11 DEF CallOK, ThreadPcs, ThreadCtxs, Working
<1>13. Works(t)
  <2>1. DOMAIN fc'.states = DOMAIN fc.states
    BY <1>9 DEF CheckoutResult
  <2>2. call[t].pc \in Working \ {"lock"} /\ b.pc \in Working
    BY <1>1, <1>11 DEF Working
  <2> QED BY <1>1, <1>10, <1>11, <1>12, <2>1, <2>2, WorksOn DEF s
<1>14. OthersKeep(t)
  <2> SUFFICES ASSUME NEW u \in Threads \ {t}, call[u].pc \in {"index", "after"}
               PROVE  fc'.states[call[u].state].dwpt = fc.states[call[u].state].dwpt
    BY DEF OthersKeep
  <2>1. call[u].pc \in Working
    BY DEF Working
  <2>2. call[u].state # s /\ call[u].state \in DOMAIN fc.states
    BY <1>3, <2>1, AtWork
  <2> QED BY <1>9, <2>2 DEF CheckoutResult
<1>15. Held(fc', call', Live')
  <2>1. Live' = Live
    BY <1>1 DEF Live
  <2>2. /\ \A u \in Callers \ {t} : call'[u] = call[u]
        /\ call'[t].dwpt = d
    BY <1>3, <1>10, <1>11, Fields
  <2>3. /\ Live = InStates(fc') \cup Blocked(fc') \cup Flushed(fc')
        /\ Flushed(fc') \ InQueues(fc') = (Flushed(fc) \ InQueues(fc)) \cup ({d} \ {None})
        /\ d # None => d \notin Flushed(fc) \ InQueues(fc)
    BY <1>4, <1>9 DEF Held, CheckoutResult
  <2>4. CASE d = None
    <3>1. /\ call'[t].dwpt = call[t].dwpt
          /\ Flushed(fc') \ InQueues(fc') = Flushed(fc) \ InQueues(fc)
      BY <1>3, <2>2, <2>3, <2>4
    <3> QED BY <1>3, <1>4, <2>1, <2>2, <2>3, <3>1, HeldSame
  <2>5. CASE d # None
    <3>1. Flushed(fc') \ InQueues(fc') = (Flushed(fc) \ InQueues(fc)) \cup {d}
      BY <2>3, <2>5
    <3> QED BY <1>3, <1>4, <2>1, <2>2, <2>3, <2>5, <3>1, HeldTakes
  <2> QED BY <2>4, <2>5
<1>16. Core'
  BY <1>1, <1>4, <1>9, <1>15, BalancedSame DEF CheckoutResult, Core
<1> QED BY <1>1, <1>2, <1>4, <1>13, <1>14, <1>16, WorksStep

LEMMA ReleaseKeeps ==
  ASSUME FCInv, NEW t \in Threads, Release(t)
  PROVE  FCInv'
<1> DEFINE s == call[t].state
           d == call[t].dwpt
           c == IF call[t].ctx = "failed" THEN Idle
                ELSE IF d # None THEN At("flush", None, d, "postUpdate", FALSE, 0)
                ELSE IF CheckPendingFlush THEN At("next", None, None, "postUpdate", FALSE, 0)
                ELSE Idle
<1>1. /\ call[t].pc = "release" /\ UNCHANGED <<fc, monitor, dwpts>>
      /\ holder' = [holder EXCEPT ![s] = NoThread] /\ freeList' = Append(freeList, s)
      /\ call' = [call EXCEPT ![t] = c]
  BY DEF Release
<1>2. Scalars'
  BY ScalarsNow DEF Release, Scalars, stallVars, queueVars, seqVars
<1>3. /\ call[t] \in CallRec /\ CallOK(t, call[t], Len(fc.states))
      /\ t # Main /\ t \in Callers /\ s \in DOMAIN fc.states /\ holder[s] = t
      /\ holder \in [DOMAIN fc.states -> Callers \cup {NoThread}]
      /\ \A u \in Threads \ {t} : call[u].pc \in Working => call[u].state # s
      /\ call[t].pc \in Working
  BY <1>1, AtWork DEF Working
<1>4. /\ Held(fc, call, Live) /\ Types /\ Core /\ Owners /\ Len(fc.states) \in Nat
      /\ call \in [Callers -> CallRec] /\ freeList \in Seq(DOMAIN fc.states)
  BY Fields DEF Core, Types
<1>5. /\ c \in CallRec /\ c.dwpt = d /\ c.pc \notin Working /\ CallOK(t, c, Len(fc.states))
  <2>1. CASE d = None
    <3>1. Fresh(t, c)
      BY <2>1, FreshThread DEF ThreadCtxs
    <3> QED BY <1>4, <2>1, <3>1 DEF Fresh
  <2>2. CASE d # None
    <3>1. call[t].ctx # "failed"
      BY <1>1, <1>3, <2>2 DEF CallOK
    <3>2. c = At("flush", None, d, "postUpdate", FALSE, 0) /\ d \in Nat
      BY <1>3, <2>2, <3>1 DEF CallRec
    <3> HIDE DEF c, d
    <3>3. /\ c.pc = "flush" /\ c.dwpt = d /\ c.ctx = "postUpdate" /\ c \in CallRec
      BY <3>2 DEF At, None, CallRec, Pcs
    <3> QED BY <1>3, <2>2, <3>3 DEF CallOK, Working, ThreadPcs
  <2> QED BY <2>1, <2>2
<1> HIDE DEF c
<1>6. call' \in [Callers -> CallRec] /\ call'[t] = c /\ OnlyCall(t)
  BY <1>1, <1>3, <1>4, <1>5 DEF OnlyCall
<1>7. /\ freeList' \in Seq(DOMAIN fc.states) /\ Range(freeList') = Range(freeList) \cup {s}
      /\ Injective(freeList')
  <2>1. s \notin Range(freeList) /\ Injective(freeList)
    BY <1>3, <1>4 DEF Owners
  <2> HIDE DEF s
  <2> QED BY <1>1, <1>3, <1>4, <2>1, Appended
<1>8. /\ holder' \in [DOMAIN fc.states -> Callers \cup {NoThread}] /\ holder'[s] = NoThread
      /\ \A r \in DOMAIN fc.states \ {s} : holder'[r] = holder[r]
  BY <1>1, <1>3
<1> HIDE DEF s
<1>9. Types'
  BY <1>1, <1>2, <1>4, <1>6, <1>7, <1>8 DEF Types
<1>10. Control'
  <2>1. /\ CallOK(t, call'[t], Len(fc'.states)) /\ Len(fc'.states) \in Nat
        /\ Len(fc.states) <= Len(fc'.states)
    BY <1>1, <1>4, <1>5, <1>6
  <2> QED BY <1>1, <1>3, <1>6, <2>1, ControlStep
<1>11. Owners'
  <2>1. \A u \in Threads : \/ call'[u] = call[u] /\ u # t
                           \/ u = t /\ call'[u].pc \notin Working
    BY <1>5, <1>6 DEF OnlyCall, Callers
  <2>2. \A u \in Threads : call'[u].pc \in Working => call'[u] = call[u] /\ call[u].state # s
    BY <1>3, <2>1
  <2>3. /\ \A v, u \in Threads : v # u /\ call'[v].pc \in Working /\ call'[u].pc \in Working
              => call'[v].state # call'[u].state
        /\ \A u \in Threads : call'[u].pc \in Working => call'[u].state \notin Range(freeList')
    BY <1>4, <1>7, <2>2 DEF Owners
  <2>4. ASSUME NEW u \in Threads, call'[u].pc \in Working \ {"lock"}
        PROVE  holder'[call'[u].state] = u
    <3>1. call'[u] = call[u] /\ call[u].state # s /\ call[u].pc \in Working
      BY <2>2, <2>4
    <3>2. call[u].state \in DOMAIN fc.states
      BY <3>1, AtWork
    <3> QED BY <1>4, <1>8, <2>4, <3>1, <3>2 DEF Owners
  <2>5. ASSUME NEW r \in DOMAIN fc.states, holder'[r] \in Threads
        PROVE  call'[holder'[r]].pc \in Working /\ call'[holder'[r]].state = r
    <3>1. r # s
      BY <1>8, <2>5, ThreadsAssumption
    <3>2. holder'[r] = holder[r] /\ holder[r] \in Threads
      BY <1>8, <2>5, <3>1
    <3>3. call[holder[r]].pc \in Working /\ call[holder[r]].state = r
      BY <1>4, <2>5, <3>2 DEF Owners
    <3>4. holder[r] # t
      BY <3>1, <3>3 DEF s
    <3> QED BY <2>1, <3>2, <3>3, <3>4
  <2>6. \A u \in Threads : call'[u].pc \in {"index", "after"}
           => fc.states[call'[u].state].dwpt # None
    <3>1. {"index", "after"} \subseteq Working
      BY DEF Working
    <3> QED BY <1>4, <2>2, <3>1 DEF Owners
  <2> QED BY <1>1, <1>7, <2>3, <2>4, <2>5, <2>6 DEF Owners
<1>12. Held(fc, call', Live)
  <2>1. /\ \A u \in Callers \ {t} : call'[u] = call[u]
        /\ call'[t].dwpt = call[t].dwpt
    BY <1>5, <1>6 DEF OnlyCall
  <2>2. Live = InStates(fc) \cup Blocked(fc) \cup Flushed(fc)
    BY <1>4 DEF Held
  <2> QED BY <1>3, <1>4, <2>1, <2>2, HeldSame
<1>13. Core'
  BY <1>1, <1>4, <1>12 DEF Core, Live
<1> QED BY <1>9, <1>10, <1>11, <1>13 DEF FCInv
\* getAndLock
LEMMA ObtainNewKeeps ==
  ASSUME FCInv, NEW t \in Threads, Obtain(t), Len(freeList) = 0
  PROVE  FCInv'
<1> DEFINE n == Len(fc.states)
           b == At("lock", n + 1, None, "none", FALSE, 0)
<1>1. /\ call[t].pc = "obtain" /\ UNCHANGED <<freeList, monitor, dwpts>>
      /\ fc' = [fc EXCEPT !.states = Append(fc.states, Uninitialized)]
      /\ holder' = Append(holder, t)
      /\ call' = [call EXCEPT ![t] = At("lock", Len(holder'), None, "none", FALSE, 0)]
  BY DEF Obtain
<1>2. Scalars'
  BY ScalarsNow DEF Obtain, Scalars, stallVars, queueVars, seqVars
<1>3. /\ Good(fc, dwpts) /\ Held(fc, call, Live) /\ Balanced(fc) /\ Owners /\ Types
      /\ DOMAIN fc.states = 1 .. n /\ n \in Nat /\ t \in Callers /\ t # Main
      /\ call \in [Callers -> CallRec] /\ CallOK(t, call[t], n)
      /\ holder \in [1 .. n -> Callers \cup {NoThread}] /\ freeList \in Seq(1 .. n)
  BY Fields, ThreadsAssumption DEF Types
<1>4. NewStateResult(fc, fc', dwpts)
  BY <1>1, <1>3, StateAdded
<1> HIDE DEF n
<1>5. /\ DOMAIN fc'.states = 1 .. (n + 1) /\ Len(fc'.states) = n + 1
      /\ \A r \in 1 .. n : fc'.states[r] = fc.states[r]
  <2>1. /\ DOMAIN fc'.states = (1 .. n) \cup {n + 1}
        /\ \A r \in 1 .. n : fc'.states[r] = fc.states[r]
    BY <1>3, <1>4 DEF NewStateResult, n
  <2>2. (1 .. n) \cup {n + 1} = 1 .. (n + 1)
    BY <1>3
  <2>3. Len(fc'.states) = n + 1
    <3>1. fc \in FcRec /\ fc.states \in Seq(StateRec) /\ Uninitialized \in StateRec
      BY <1>3, GoodFields, UninitializedShape
    <3>2. fc'.states = Append(fc.states, Uninitialized)
      BY <1>1, <3>1 DEF FcRec
    <3> QED BY <3>1, <3>2 DEF n
  <2> QED BY <1>3, <2>1, <2>2, <2>3
<1>6. /\ holder' \in [1 .. (n + 1) -> Callers \cup {NoThread}] /\ holder'[n + 1] = t
      /\ \A r \in 1 .. n : holder'[r] = holder[r]
      /\ Len(holder') = n + 1
  <2>1. holder \in Seq(Callers \cup {NoThread}) /\ Len(holder) = n
    BY <1>3
  <2>2. t \in Callers \cup {NoThread}
    BY <1>3
  <2>3. /\ holder' \in Seq(Callers \cup {NoThread}) /\ Len(holder') = n + 1
        /\ holder'[n + 1] = t /\ \A r \in 1 .. n : holder'[r] = holder[r]
    BY <1>1, <1>3, <2>1, <2>2
  <2> QED BY <1>3, <2>3
<1>7. /\ b \in CallRec /\ b.pc = "lock" /\ b.state = n + 1 /\ b.dwpt = None /\ b.ctx = "none"
      /\ call' = [call EXCEPT ![t] = b]
  BY <1>1, <1>3, <1>6 DEF At, None, CallRec, Pcs
<1> HIDE DEF b
<1>8. call' \in [Callers -> CallRec] /\ call'[t] = b /\ OnlyCall(t) /\ call[t].dwpt = None
  BY <1>1, <1>3, <1>7 DEF OnlyCall, CallOK
<1>9. freeList' \in Seq(1 .. (n + 1))
  <2>1. 1 .. n \subseteq 1 .. (n + 1)
    BY <1>3
  <2> QED BY <1>1, <1>3, <2>1
<1>10. Types'
  BY <1>1, <1>2, <1>3, <1>5, <1>6, <1>8, <1>9 DEF Types
<1>11. Control'
  <2>1. CallOK(t, b, n + 1)
    BY <1>3, <1>7 DEF CallOK, ThreadPcs, Working
  <2>2. /\ CallOK(t, call'[t], Len(fc'.states)) /\ Len(fc'.states) \in Nat
        /\ Len(fc.states) <= Len(fc'.states)
    BY <1>3, <1>5, <1>8, <2>1 DEF n
  <2> QED BY <1>1, <1>3, <1>8, <2>2, ControlStep
<1>12. Owners'
  <2>1. \A u \in Threads \ {t} : call'[u] = call[u]
    BY <1>8 DEF OnlyCall, Callers
  <2>2. \A u \in Threads \ {t} : call[u].pc \in Working => call[u].state \in 1 .. n
    BY <1>3, AtWork
  <2>3. call'[t].pc = "lock" /\ call'[t].state = n + 1 /\ "lock" \in Working /\ n + 1 \notin 1 .. n
    BY <1>3, <1>7, <1>8 DEF Working
  <2>4. \A v, u \in Threads : v # u /\ call'[v].pc \in Working /\ call'[u].pc \in Working
           => call'[v].state # call'[u].state
    <3>1. \A v, u \in Threads \ {t} : v # u /\ call'[v].pc \in Working /\ call'[u].pc \in Working
             => call'[v].state # call'[u].state
      BY <1>3, <2>1 DEF Owners
    <3>2. \A u \in Threads \ {t} : call'[u].pc \in Working => call'[u].state # n + 1
      BY <2>1, <2>2, <2>3
    <3> QED BY <2>3, <3>1, <3>2
  <2>5. \A u \in Threads : call'[u].pc \in Working => call'[u].state \notin Range(freeList')
    <3>1. Range(freeList') \subseteq 1 .. n
      BY <1>1, <1>3 DEF Range
    <3>2. \A u \in Threads \ {t} : call'[u].pc \in Working => call'[u].state \notin Range(freeList')
      BY <1>1, <1>3, <2>1 DEF Owners
    <3> QED BY <2>3, <3>1, <3>2
  <2>6. Injective(freeList')
    BY <1>1, <1>3 DEF Owners
  <2>7. ASSUME NEW u \in Threads, call'[u].pc \in Working \ {"lock"}
        PROVE  holder'[call'[u].state] = u
    <3>1. u # t
      BY <2>3, <2>7
    <3>2. call'[u] = call[u] /\ call[u].state \in 1 .. n
      BY <2>1, <2>2, <2>7, <3>1
    <3> QED BY <1>3, <1>6, <2>7, <3>2 DEF Owners
  <2>8. ASSUME NEW r \in 1 .. (n + 1), holder'[r] \in Threads
        PROVE  call'[holder'[r]].pc \in Working /\ call'[holder'[r]].state = r
    <3>1. CASE r = n + 1
      BY <1>6, <2>3, <3>1
    <3>2. CASE r # n + 1
      <4>1. r \in 1 .. n
        BY <1>3, <3>2
      <4>2. holder'[r] = holder[r] /\ holder[r] \in Threads
        BY <1>6, <2>8, <4>1
      <4>3. call[holder[r]].pc \in Working /\ call[holder[r]].state = r
        BY <1>3, <4>1, <4>2 DEF Owners
      <4>4. holder[r] # t
        BY <1>1, <4>3 DEF Working
      <4> QED BY <2>1, <4>2, <4>3, <4>4
    <3> QED BY <3>1, <3>2
  <2>9. ASSUME NEW u \in Threads, call'[u].pc \in {"index", "after"}
        PROVE  fc'.states[call'[u].state].dwpt # None
    <3>1. u # t
      BY <2>3, <2>9
    <3>2. call'[u] = call[u] /\ call[u].pc \in Working
      BY <2>1, <2>9, <3>1 DEF Working
    <3>3. call[u].state \in 1 .. n
      BY <2>2, <3>1, <3>2
    <3> QED BY <1>3, <1>5, <2>9, <3>2, <3>3 DEF Owners
  <2> QED BY <1>5, <2>4, <2>5, <2>6, <2>7, <2>8, <2>9 DEF Owners
<1>13. Held(fc', call', Live)
  <2>1. /\ \A u \in Callers \ {t} : call'[u] = call[u]
        /\ call'[t].dwpt = call[t].dwpt
    BY <1>7, <1>8 DEF OnlyCall
  <2>2. /\ InStates(fc') = InStates(fc) /\ Blocked(fc') = Blocked(fc)
        /\ Flushed(fc') = Flushed(fc) /\ InQueues(fc') = InQueues(fc)
    BY <1>4 DEF NewStateResult, SameQueues, InQueues
  <2>3. /\ Live = InStates(fc') \cup Blocked(fc') \cup Flushed(fc')
        /\ Flushed(fc') \ InQueues(fc') = Flushed(fc) \ InQueues(fc)
    BY <1>3, <2>2 DEF Held
  <2> QED BY <1>3, <2>1, <2>3, HeldSame
<1>14. Core'
  BY <1>1, <1>3, <1>4, <1>13, BalancedSame DEF Core, Live, NewStateResult
<1> QED BY <1>10, <1>11, <1>12, <1>14 DEF FCInv

\* What Obtain takes from the free list is one of its elements, and is gone.
TakenFrom(x, fl, S) == /\ fl \in Seq(S) /\ Injective(fl) /\ x \in Range(freeList)
                       /\ Range(fl) \subseteq Range(freeList) \ {x}

LEMMA LastTaken ==
  ASSUME NEW S, freeList \in Seq(S), Injective(freeList), freeList # <<>>
  PROVE  TakenFrom(freeList[Len(freeList)], SubSeq(freeList, 1, Len(freeList) - 1), S)
<1> DEFINE n == Len(freeList)
           fl == SubSeq(freeList, 1, n - 1)
<1>1. n \in Nat \ {0} /\ DOMAIN freeList = 1 .. n
  OBVIOUS
<1>2. fl \in Seq(S) /\ Len(fl) = n - 1 /\ \A i \in 1 .. (n - 1) : fl[i] = freeList[i]
  BY <1>1
<1> HIDE DEF fl, n
<1>3. DOMAIN fl = 1 .. (n - 1)
  BY <1>1, <1>2
<1>4. Injective(fl) /\ Range(fl) \subseteq Range(freeList) \ {freeList[n]}
  BY <1>1, <1>2, <1>3 DEF Injective, Range
<1>5. freeList[n] \in Range(freeList)
  BY <1>1 DEF Range
<1> QED BY <1>2, <1>4, <1>5 DEF TakenFrom, fl, n

LEMMA EarlierTaken ==
  ASSUME NEW S, freeList \in Seq(S), Injective(freeList), freeList # <<>>,
         NEW k \in 1 .. (Len(freeList) - 1)
  PROVE  TakenFrom(freeList[k],
            [SubSeq(freeList, 1, Len(freeList) - 1) EXCEPT ![k] = freeList[Len(freeList)]], S)
<1> DEFINE n == Len(freeList)
           sub == SubSeq(freeList, 1, n - 1)
           fl == [sub EXCEPT ![k] = freeList[n]]
<1>1. n \in Nat \ {0} /\ DOMAIN freeList = 1 .. n /\ freeList[n] \in S
  OBVIOUS
<1>2. sub \in Seq(S) /\ Len(sub) = n - 1 /\ \A i \in 1 .. (n - 1) : sub[i] = freeList[i]
  BY <1>1
<1> HIDE DEF sub, n
<1>3. DOMAIN sub = 1 .. (n - 1) /\ k \in 1 .. (n - 1)
  BY <1>1, <1>2 DEF n
<1>4. /\ fl \in Seq(S) /\ DOMAIN fl = 1 .. (n - 1) /\ fl[k] = freeList[n]
      /\ \A i \in 1 .. (n - 1) : i # k => fl[i] = freeList[i]
  BY <1>1, <1>2, <1>3
<1> HIDE DEF fl
<1>5. Injective(fl)
  BY <1>1, <1>3, <1>4 DEF Injective
<1>6. ASSUME NEW i \in 1 .. (n - 1)
      PROVE  fl[i] \in Range(freeList) /\ fl[i] # freeList[k]
  BY <1>1, <1>3, <1>4 DEF Injective, Range
<1>7. Range(fl) \subseteq Range(freeList) \ {freeList[k]} /\ freeList[k] \in Range(freeList)
  BY <1>1, <1>3, <1>4, <1>6 DEF Range
<1> QED BY <1>4, <1>5, <1>7 DEF TakenFrom, fl, sub, n

LEMMA ObtainFreeKeeps ==
  ASSUME FCInv, NEW t \in Threads, Obtain(t), Len(freeList) # 0
  PROVE  FCInv'
<1> DEFINE n == Len(fc.states)
           S == DOMAIN fc.states
<1>1. /\ call[t].pc = "obtain" /\ UNCHANGED <<fc, holder, monitor, dwpts>>
  BY DEF Obtain
<1>2. Scalars'
  BY ScalarsNow DEF Obtain, Scalars, stallVars, queueVars, seqVars
<1>3. /\ Good(fc, dwpts) /\ Held(fc, call, Live) /\ Balanced(fc) /\ Owners /\ Types /\ Core
      /\ S = 1 .. n /\ n \in Nat /\ t \in Callers /\ t # Main
      /\ call \in [Callers -> CallRec] /\ CallOK(t, call[t], n)
      /\ holder \in [S -> Callers \cup {NoThread}] /\ freeList \in Seq(S)
  BY Fields, ThreadsAssumption DEF Types, Core
<1>4. Injective(freeList) /\ freeList # <<>>
  BY <1>3 DEF Owners
<1>5. PICK x : /\ call' = [call EXCEPT ![t] = At("lock", x, None, "none", FALSE, 0)]
               /\ TakenFrom(x, freeList', S)
  <2> DEFINE m == Len(freeList)
             initialized == {i \in 1..(m - 1) : fc.states[freeList[i]].dwpt # None}
             first == CHOOSE i \in initialized : \A j \in initialized : i <= j
             last == freeList[m]
             swap == fc.states[last].dwpt = None /\ initialized # {}
  <2>1. /\ freeList' = IF swap THEN [SubSeq(freeList, 1, m - 1) EXCEPT ![first] = last]
                       ELSE SubSeq(freeList, 1, m - 1)
        /\ call' = [call EXCEPT ![t] =
                      At("lock", IF swap THEN freeList[first] ELSE last, None, "none", FALSE, 0)]
    BY DEF Obtain
  <2>2. CASE swap
    <3>1. initialized \subseteq Nat /\ initialized # {}
      BY <2>2
    <3> HIDE DEF initialized
    <3>2. \E i \in initialized : \A j \in initialized : i <= j
      BY <3>1, LeastNumber
    <3>3. first \in initialized
      BY <3>2
    <3>4. first \in 1 .. (m - 1)
      BY <3>3 DEF initialized
    <3> HIDE DEF first
    <3>5. TakenFrom(freeList[first], freeList', S)
      BY <1>3, <1>4, <2>1, <2>2, <3>4, EarlierTaken
    <3> QED BY <2>1, <2>2, <3>5
  <2>3. CASE ~swap
    <3>1. freeList' = SubSeq(freeList, 1, m - 1)
          /\ call' = [call EXCEPT ![t] = At("lock", last, None, "none", FALSE, 0)]
      BY <2>1, <2>3
    <3>2. TakenFrom(last, freeList', S)
      BY <1>3, <1>4, <3>1, LastTaken
    <3> QED BY <3>1, <3>2
  <2> QED BY <2>2, <2>3
<1> HIDE DEF n, S
<1>6. x \in S /\ x \in Nat /\ x \in Range(freeList)
  BY <1>3, <1>5 DEF TakenFrom, Range
<1> DEFINE b == At("lock", x, None, "none", FALSE, 0)
<1>7. /\ b \in CallRec /\ b.pc = "lock" /\ b.state = x /\ b.dwpt = None /\ b.ctx = "none"
      /\ call' = [call EXCEPT ![t] = b]
  BY <1>5, <1>6 DEF At, None, CallRec, Pcs
<1> HIDE DEF b
<1>8. call' \in [Callers -> CallRec] /\ call'[t] = b /\ OnlyCall(t) /\ call[t].dwpt = None
  BY <1>1, <1>3, <1>7 DEF OnlyCall, CallOK
<1>9. /\ freeList' \in Seq(S) /\ Injective(freeList')
      /\ Range(freeList') \subseteq Range(freeList) \ {x}
  BY <1>5 DEF TakenFrom
<1>10. Types'
  BY <1>1, <1>2, <1>3, <1>8, <1>9 DEF Types, S
<1>11. Control'
  <2>1. CallOK(t, b, n)
    BY <1>3, <1>6, <1>7 DEF CallOK, ThreadPcs, Working
  <2>2. /\ CallOK(t, call'[t], Len(fc'.states)) /\ Len(fc'.states) \in Nat
        /\ Len(fc.states) <= Len(fc'.states)
    BY <1>1, <1>3, <1>8, <2>1 DEF n
  <2> QED BY <1>1, <1>3, <1>8, <2>2, ControlStep
<1>12. Owners'
  <2>1. \A u \in Threads \ {t} : call'[u] = call[u]
    BY <1>8 DEF OnlyCall, Callers
  <2>2. \A u \in Threads : call[u].pc \in Working => call[u].state # x
    BY <1>3, <1>6 DEF Owners
  <2>3. call'[t].pc = "lock" /\ call'[t].state = x /\ "lock" \in Working
    BY <1>7, <1>8 DEF Working
  <2>4. \A v, u \in Threads : v # u /\ call'[v].pc \in Working /\ call'[u].pc \in Working
           => call'[v].state # call'[u].state
    <3>1. \A v, u \in Threads \ {t} : v # u /\ call'[v].pc \in Working /\ call'[u].pc \in Working
             => call'[v].state # call'[u].state
      BY <1>3, <2>1 DEF Owners
    <3>2. \A u \in Threads \ {t} : call'[u].pc \in Working => call'[u].state # x
      BY <2>1, <2>2
    <3> QED BY <2>3, <3>1, <3>2
  <2>5. \A u \in Threads : call'[u].pc \in Working => call'[u].state \notin Range(freeList')
    <3>1. \A u \in Threads \ {t} : call'[u].pc \in Working => call'[u].state \notin Range(freeList)
      BY <1>3, <2>1 DEF Owners
    <3> QED BY <1>9, <2>3, <3>1
  <2>6. ASSUME NEW u \in Threads, call'[u].pc \in Working \ {"lock"}
        PROVE  holder'[call'[u].state] = u
    <3>1. u # t
      BY <2>3, <2>6
    <3> QED BY <1>1, <1>3, <2>1, <2>6, <3>1 DEF Owners
  <2>7. ASSUME NEW r \in DOMAIN fc'.states, holder'[r] \in Threads
        PROVE  call'[holder'[r]].pc \in Working /\ call'[holder'[r]].state = r
    <3>1. holder[r] \in Threads /\ call[holder[r]].pc \in Working /\ call[holder[r]].state = r
      BY <1>1, <1>3, <2>7 DEF Owners
    <3>2. holder[r] # t
      BY <1>1, <3>1 DEF Working
    <3> QED BY <1>1, <2>1, <3>1, <3>2
  <2>8. ASSUME NEW u \in Threads, call'[u].pc \in {"index", "after"}
        PROVE  fc'.states[call'[u].state].dwpt # None
    <3>1. u # t
      BY <2>3, <2>8
    <3> QED BY <1>1, <1>3, <2>1, <2>8, <3>1 DEF Owners
  <2> QED BY <1>9, <2>4, <2>5, <2>6, <2>7, <2>8 DEF Owners
<1>13. Held(fc, call', Live)
  <2>1. /\ \A u \in Callers \ {t} : call'[u] = call[u]
        /\ call'[t].dwpt = call[t].dwpt
    BY <1>7, <1>8 DEF OnlyCall
  <2>2. Live = InStates(fc) \cup Blocked(fc) \cup Flushed(fc)
    BY <1>3 DEF Held
  <2> QED BY <1>3, <2>1, <2>2, HeldSame
<1>14. Core'
  BY <1>1, <1>3, <1>13 DEF Core, Live
<1> QED BY <1>10, <1>11, <1>12, <1>14 DEF FCInv
\* obtainAndLock and ensureInitialized; between the two, with table for dwpts:
\* what was in ThreadState s is gone or stays.
LockedResult(f, table, s) ==
    /\ Good(f, table) /\ Excess(f) = Excess(fc) /\ DOMAIN f.states = DOMAIN fc.states
    /\ \A r \in DOMAIN fc.states \ {s} : f.states[r].dwpt = fc.states[r].dwpt
    /\ LiveIn(table) = InStates(f) \cup Blocked(f) \cup Flushed(f)
    /\ Flushed(f) \ InQueues(f) = Flushed(fc) \ InQueues(fc)
    /\ table \in Seq(DwptRec)

LEMMA NotStaleLocked ==
  ASSUME FCInv, NEW s
  PROVE  LockedResult(fc, dwpts, s)
<1>1. Good(fc, dwpts) /\ Held(fc, call, Live) /\ dwpts \in Seq(DwptRec)
  BY Fields
<1>2. LiveIn(dwpts) = InStates(fc) \cup Blocked(fc) \cup Flushed(fc)
  BY <1>1 DEF Held, Live, LiveIn
<1> QED BY <1>1, <1>2 DEF LockedResult

LEMMA StaleLocked ==
  ASSUME FCInv, NEW s \in DOMAIN fc.states, fc.states[s].dwpt # None,
         NEW old, old = IF numDocsInRAM(fc.states[s].dwpt) = 0
                          THEN Finished(fc.states[s].dwpt, "empty") ELSE dwpts
  PROVE  LockedResult(AddFlushable(fc, s), old, s)
<1> DEFINE d == fc.states[s].dwpt
           f == AddFlushable(fc, s)
<1>1. Good(fc, dwpts) /\ Held(fc, call, Live) /\ dwpts \in Seq(DwptRec)
  BY Fields
<1>2. AddFlushableResult(fc, f, s, dwpts)
  BY <1>1, Enrolled
<1> HIDE DEF f
<1>3. /\ Good(f, dwpts) /\ Excess(f) = Excess(fc) /\ OnlyAt(fc, f, s, Uninitialized)
      /\ d \in InStates(fc) /\ InStates(f) = InStates(fc) \ {d}
      /\ Blocked(f) = Blocked(fc) /\ f.flushQueue = fc.flushQueue
      /\ numDocsInRAM(d) = 0 => /\ Flushed(f) = Flushed(fc)
                                /\ f.fullFlushBuffer = fc.fullFlushBuffer
      /\ numDocsInRAM(d) # 0 => /\ Flushed(f) = Flushed(fc) \cup {d}
                                /\ Range(f.fullFlushBuffer) = Range(fc.fullFlushBuffer) \cup {d}
  BY <1>2 DEF AddFlushableResult
<1>4. /\ InStates(fc) \cap Blocked(fc) = {} /\ InStates(fc) \cap Flushed(fc) = {}
      /\ Live = InStates(fc) \cup Blocked(fc) \cup Flushed(fc)
  BY <1>1, GoodFields DEF Held
<1>5. d \in Live /\ d \in DOMAIN dwpts /\ Live \subseteq DOMAIN dwpts
  BY <1>3, <1>4, NoneNowhere
<1>6. old = IF numDocsInRAM(d) = 0 THEN Finished(d, "empty") ELSE dwpts
  OBVIOUS
<1> HIDE DEF d
<1>7. \A r \in DOMAIN fc.states \ {s} : f.states[r].dwpt = fc.states[r].dwpt
  BY <1>3 DEF OnlyAt
<1>8. DOMAIN f.states = DOMAIN fc.states
  BY <1>3 DEF OnlyAt
<1>9. CASE numDocsInRAM(d) = 0
  <2>1. old = Finished(d, "empty")
    BY <1>6, <1>9
  <2>2. /\ old \in Seq(DwptRec) /\ LiveIn(old) = Live \ {d}
        /\ \A e \in DOMAIN dwpts \ {d} : old[e] = dwpts[e]
    <3>1. dwpts \in Seq(DwptRec) /\ d \in DOMAIN dwpts
      BY <1>1, <1>5
    <3> QED BY <2>1, <3>1, FinishedLive
  <2>3. Good(f, old)
    <3>1. \A e \in InStates(f) : e \in DOMAIN dwpts \ {d}
      BY <1>3, <1>4, <1>5
    <3>2. \A e \in InStates(f) : old[e].docs = 0 => dwpts[e].docs = 0
      BY <2>2, <3>1
    <3> QED BY <1>3, <3>2, GoodTable
  <2>4. LiveIn(old) = InStates(f) \cup Blocked(f) \cup Flushed(f)
    BY <1>3, <1>4, <1>9, <2>2
  <2>5. Flushed(f) \ InQueues(f) = Flushed(fc) \ InQueues(fc)
    BY <1>3, <1>9 DEF InQueues
  <2>6. LockedResult(f, old, s)
    BY <1>3, <1>7, <1>8, <2>2, <2>3, <2>4, <2>5 DEF LockedResult
  <2> QED BY <2>6 DEF f
<1>10. CASE numDocsInRAM(d) # 0
  <2>1. old = dwpts
    BY <1>6, <1>10
  <2>2. LiveIn(dwpts) = InStates(f) \cup Blocked(f) \cup Flushed(f)
    BY <1>3, <1>4, <1>10 DEF LiveIn, Live
  <2>3. Flushed(f) \ InQueues(f) = Flushed(fc) \ InQueues(fc)
    BY <1>3, <1>4, <1>10 DEF InQueues
  <2>4. LockedResult(f, dwpts, s)
    BY <1>1, <1>3, <1>7, <1>8, <2>2, <2>3 DEF LockedResult
  <2> QED BY <2>1, <2>4 DEF f
<1> QED BY <1>9, <1>10

\* A new DWPT n in the ThreadState s, at the end of the table
LEMMA NewLocked ==
  ASSUME NEW f, NEW table, NEW s \in DOMAIN fc.states, LockedResult(f, table, s),
         f.states[s].dwpt = None, NEW q \in Nat, NEW new,
         new = Append(table, [queue |-> q, docs |-> 0, status |-> "live"]),
         NEW g, g = [f EXCEPT !.states[s].dwpt = Len(new)]
  PROVE  LockedResult(g, new, s) /\ g.states[s].dwpt # None
<1> DEFINE n == Len(table) + 1
           rec == [queue |-> q, docs |-> 0, status |-> "live"]
<1>1. /\ Good(f, table) /\ table \in Seq(DwptRec) /\ s \in DOMAIN f.states
      /\ LiveIn(table) = InStates(f) \cup Blocked(f) \cup Flushed(f)
  BY DEF LockedResult
<1>2. rec \in DwptRec
  BY DEF DwptRec
<1>3. /\ Len(table) \in Nat /\ DOMAIN table = 1 .. Len(table)
      /\ n \in Nat \ {None} /\ n \notin DOMAIN table
  BY <1>1 DEF None
<1>4. /\ new \in Seq(DwptRec) /\ Len(new) = n /\ new[n] = rec
      /\ \A e \in DOMAIN table : new[e] = table[e]
      /\ DOMAIN new = DOMAIN table \cup {n}
  BY <1>1, <1>2
<1>5. rec.status = "live"
  OBVIOUS
<1> HIDE DEF n, rec
<1>6. LiveIn(new) = LiveIn(table) \cup {n}
  BY <1>3, <1>4, <1>5 DEF LiveIn
<1>7. n \notin InStates(f) \cup Blocked(f) \cup Flushed(f)
  BY <1>1, <1>3 DEF LiveIn
<1>8. Good(f, new)
  <2>1. \A e \in InStates(f) : e \in DOMAIN table
    BY <1>1 DEF LiveIn
  <2>2. \A e \in InStates(f) : new[e].docs = 0 => table[e].docs = 0
    BY <1>4, <2>1
  <2> QED BY <1>1, <2>2, GoodTable
<1>9. /\ Good(g, new) /\ Excess(g) = Excess(f) /\ SameQueues(f, g)
      /\ OnlyAt(f, g, s, [Uninitialized EXCEPT !.dwpt = n])
      /\ Blocked(g) = Blocked(f) /\ Flushed(g) = Flushed(f) /\ InStates(g) = InStates(f) \cup {n}
  <2>1. g = [f EXCEPT !.states[s].dwpt = n]
    BY <1>4
  <2> QED BY <1>1, <1>3, <1>7, <1>8, <2>1, Initialized
<1>10. /\ DOMAIN g.states = DOMAIN f.states
       /\ \A r \in DOMAIN f.states \ {s} : g.states[r].dwpt = f.states[r].dwpt
  BY <1>9 DEF OnlyAt
<1>11. InQueues(g) = InQueues(f)
  BY <1>9 DEF SameQueues, InQueues
<1>12. LiveIn(new) = InStates(g) \cup Blocked(g) \cup Flushed(g)
  BY <1>1, <1>6, <1>9
<1>13. g.states[s].dwpt # None
  <2>1. [Uninitialized EXCEPT !.dwpt = n].dwpt = n
    BY DEF Uninitialized
  <2>2. g.states[s] = [Uninitialized EXCEPT !.dwpt = n]
    BY <1>9 DEF OnlyAt
  <2> QED BY <1>3, <2>1, <2>2
<1> QED BY <1>4, <1>9, <1>10, <1>11, <1>12, <1>13 DEF LockedResult

LEMMA LockStateKeeps ==
  ASSUME FCInv, NEW t \in Threads, LockState(t)
  PROVE  FCInv'
<1> DEFINE s == call[t].state
           d == fc.states[s].dwpt
           stale == d # None /\ Stale(d)
           f == IF stale THEN AddFlushable(fc, s) ELSE fc
           old == IF stale /\ numDocsInRAM(d) = 0 THEN Finished(d, "empty") ELSE dwpts
           b == [call[t] EXCEPT !.pc = "index"]
<1>1. /\ call[t].pc = "lock" /\ UNCHANGED <<freeList, monitor>>
      /\ CanLock(t, s) /\ holder' = [holder EXCEPT ![s] = t]
      /\ IF f.states[s].dwpt = None
           THEN /\ dwpts' = Append(old, [queue |-> deleteQueue, docs |-> 0, status |-> "live"])
                /\ fc' = [f EXCEPT !.states[s].dwpt = Len(dwpts')]
           ELSE fc' = f /\ UNCHANGED dwpts
  BY DEF LockState
<1>2. Scalars'
  BY ScalarsStall DEF LockState
<1>3. /\ call[t] \in CallRec /\ CallOK(t, call[t], Len(fc.states)) /\ call[t].dwpt = None
      /\ t # Main /\ t \in Callers /\ s \in DOMAIN fc.states
      /\ holder \in [DOMAIN fc.states -> Callers \cup {NoThread}]
      /\ \A u \in Threads \ {t} : call[u].pc \in Working => call[u].state # s
      /\ call[t].pc \in Working
  BY <1>1, AtWork DEF Working
<1>4. /\ call' = [call EXCEPT ![t] = b] /\ call \in [Callers -> CallRec]
      /\ Held(fc, call, Live) /\ Balanced(fc) /\ deleteQueue \in Nat
  BY Fields, ScalarsNow DEF LockState, Goto, Scalars
<1>5. LockedResult(f, old, s)
  <2>1. CASE stale
    <3>1. f = AddFlushable(fc, s) /\ old = IF numDocsInRAM(fc.states[s].dwpt) = 0
                          THEN Finished(fc.states[s].dwpt, "empty") ELSE dwpts
      BY <2>1
    <3>2. fc.states[s].dwpt # None
      BY <2>1
    <3> HIDE DEF s, f, old
    <3> QED BY <1>3, <3>1, <3>2, StaleLocked
  <2>2. CASE ~stale
    <3>1. f = fc /\ old = dwpts
      BY <2>2
    <3> QED BY <3>1, NotStaleLocked
  <2> QED BY <2>1, <2>2
<1>6. old = dwpts \/ f.states[s].dwpt = None
  <2>1. SUFFICES ASSUME stale
                 PROVE  f.states[s].dwpt = None
    OBVIOUS
  <2>2. f = AddFlushable(fc, s) /\ Good(fc, dwpts)
    BY <2>1, Fields
  <2>3. AddFlushableResult(fc, f, s, dwpts)
    BY <1>3, <2>1, <2>2, Enrolled
  <2> QED BY <2>3, UninitializedShape DEF AddFlushableResult, OnlyAt
<1> HIDE DEF f, old, stale, d
<1>7. LockedResult(fc', dwpts', s) /\ fc'.states[s].dwpt # None
  <2>1. CASE f.states[s].dwpt = None
    <3>1. /\ dwpts' = Append(old, [queue |-> deleteQueue, docs |-> 0, status |-> "live"])
          /\ fc' = [f EXCEPT !.states[s].dwpt = Len(dwpts')]
          /\ s \in DOMAIN fc.states /\ deleteQueue \in Nat
      BY <1>1, <1>3, <1>4, <2>1
    <3> HIDE DEF s
    <3> QED BY <1>5, <2>1, <3>1, NewLocked
  <2>2. CASE f.states[s].dwpt # None
    BY <1>1, <1>5, <1>6, <2>2
  <2> QED BY <2>1, <2>2
<1>8. /\ b \in CallRec /\ b.pc = "index" /\ b.state = s /\ b.dwpt = None /\ b.ctx = call[t].ctx
  BY <1>3 DEF CallRec, Pcs
<1> HIDE DEF b
<1>9. call' \in [Callers -> CallRec] /\ call'[t] = b /\ OnlyCall(t)
  BY <1>3, <1>4, <1>8 DEF OnlyCall
<1>10. CallOK(t, b, Len(fc.states))
  <2>1. DOMAIN fc.states = 1 .. Len(fc.states)
    BY Fields
  <2> QED BY <1>1, <1>3, <1>8, <2>1 DEF CallOK, ThreadPcs, Working
<1>11. /\ holder' \in [DOMAIN fc.states -> Callers \cup {NoThread}] /\ holder'[s] = t
       /\ \A r \in DOMAIN fc.states \ {s} : holder'[r] = holder[r]
  BY <1>1, <1>3
<1>12. DOMAIN fc'.states = DOMAIN fc.states
  BY <1>7 DEF LockedResult
<1>13. Works(t)
  <2>1. b.pc \in Working
    BY <1>8 DEF Working
  <2> QED BY <1>1, <1>3, <1>7, <1>8, <1>9, <1>10, <1>11, <1>12, <2>1 DEF Works
<1>14. OthersKeep(t)
  <2> SUFFICES ASSUME NEW u \in Threads \ {t}, call[u].pc \in {"index", "after"}
               PROVE  fc'.states[call[u].state].dwpt = fc.states[call[u].state].dwpt
    BY DEF OthersKeep
  <2>1. call[u].pc \in Working
    BY DEF Working
  <2>2. call[u].state # s /\ call[u].state \in DOMAIN fc.states
    BY <1>3, <2>1, AtWork
  <2> QED BY <1>7, <2>2 DEF LockedResult
<1>15. Held(fc', call', Live')
  <2>1. /\ Live' = InStates(fc') \cup Blocked(fc') \cup Flushed(fc')
        /\ Flushed(fc') \ InQueues(fc') = Flushed(fc) \ InQueues(fc)
    BY <1>7 DEF LockedResult, LiveIn, Live
  <2>2. /\ \A u \in Callers \ {t} : call'[u] = call[u]
        /\ call'[t].dwpt = call[t].dwpt
    BY <1>3, <1>8, <1>9 DEF OnlyCall
  <2>3. t \in Callers /\ Held(fc, call, Live)
    BY <1>3, <1>4
  <2>4. Held(fc', call', InStates(fc') \cup Blocked(fc') \cup Flushed(fc'))
    BY <2>1, <2>2, <2>3, HeldSame
  <2> QED BY <2>1, <2>4
<1>16. Core'
  BY <1>4, <1>7, <1>15, BalancedSame DEF LockedResult, Core
<1>17. dwpts' \in Seq(DwptRec)
  BY <1>7 DEF LockedResult
<1> QED BY <1>2, <1>13, <1>14, <1>16, <1>17, WorksStep
------------------------------------------------------------------------------
\* checkoutLargestNonPendingWriter

\* Nothing is done, or the DWPT of one state that t can lock is taken.
TakeResult(f, g, t, d) ==
    \E r \in DOMAIN f.states : CanLock(t, r) /\ CheckoutResult(f, g, r, d)

LEMMA NextPendingTakes ==
  ASSUME NEW f, Good(f, dwpts), None \notin Flushed(f), NEW t, NEW s \in DOMAIN f.states,
         CanLock(t, s)
  PROVE  TakeResult(f, NextPending(t, f).f, t, NextPending(t, f).d)
<1> DEFINE pending == {r \in DOMAIN f.states : f.states[r].flushPending /\ CanLock(t, r)}
           first == CHOOSE r \in pending : \A o \in pending : r <= o
<1>1. NextPending(t, f) =
        IF f.flushQueue # <<>> THEN [f |-> PollFlush(f), d |-> Polled(f)]
        ELSE IF ~f.fullFlush /\ pending # {}
          THEN [f |-> CheckOut(f, first), d |-> f.states[first].dwpt]
        ELSE [f |-> f, d |-> None]
  BY DEF NextPending
<1>2. pending # {} => first \in DOMAIN f.states /\ f.states[first].flushPending /\ CanLock(t, first)
  <2>1. SUFFICES ASSUME pending # {}
                 PROVE  \E r \in pending : \A o \in pending : r <= o
    <3> HIDE DEF pending
    <3>1. pending # {} => first \in pending
      BY <2>1
    <3> QED BY <3>1 DEF pending
  <2>2. pending \subseteq Nat
    <3>1. f.states \in Seq(StateRec)
      BY GoodFields
    <3>2. DOMAIN f.states \subseteq Nat
      BY <3>1
    <3> QED BY <3>2
  <2> QED BY <2>1, <2>2, LeastNumber
<1> HIDE DEF pending, first
<1>3. CASE f.flushQueue # <<>>
  <2>1. NextPending(t, f).f = PollFlush(f) /\ NextPending(t, f).d = Polled(f)
    BY <1>1, <1>3
  <2>2. CheckoutResult(f, PollFlush(f), s, Polled(f))
    BY CheckoutPolls
  <2> QED BY <2>1, <2>2 DEF TakeResult
<1>4. CASE f.flushQueue = <<>> /\ ~f.fullFlush /\ pending # {}
  <2>1. NextPending(t, f).f = CheckOut(f, first) /\ NextPending(t, f).d = f.states[first].dwpt
    BY <1>1, <1>4
  <2>2. CheckoutResult(f, CheckOut(f, first), first, f.states[first].dwpt)
    BY <1>2, <1>4, CheckoutTakes
  <2> QED BY <1>2, <1>4, <2>1, <2>2 DEF TakeResult
<1>5. CASE f.flushQueue = <<>> /\ ~(~f.fullFlush /\ pending # {})
  <2>1. NextPending(t, f).f = f /\ NextPending(t, f).d = None
    BY <1>1, <1>5
  <2>2. CheckoutResult(f, f, s, None)
    <3>1. Kept(f, f)
      BY DEF Kept, SameQueues
    <3> QED BY <3>1, CheckoutNothing
  <2> QED BY <2>1, <2>2 DEF TakeResult
<1> QED BY <1>3, <1>4, <1>5

LEMMA CheckOutLargestTakes ==
  ASSUME FCInv, NEW t \in Threads, CheckOutLargest(t)
  PROVE  \E d : /\ TakeResult(fc, fc', t, d)
                /\ call' = [call EXCEPT ![t] = IF d = None THEN Idle
                                  ELSE At("flush", None, d, "flushNext", FALSE, 0)]
<1> DEFINE s == call[t].state
           marked == IF fc.states[s].flushPending THEN fc ELSE SetFlushPending(fc, s)
           result ==
              IF fc.states[s].dwpt = None THEN NextPending(t, fc)
              ELSE IF fc.fullFlush
                THEN IF fc.states[s].flushPending THEN NextPending(t, Block(fc, s))
                     ELSE [f |-> fc, d |-> None]
              ELSE IF marked.states[s].flushPending
                THEN [f |-> CheckOut(marked, s), d |-> fc.states[s].dwpt]
              ELSE [f |-> fc, d |-> None]
<1>1. /\ call[t].pc = "lockLargest" /\ holder[s] = NoThread /\ fc' = result.f
      /\ call' = [call EXCEPT ![t] = IF result.d = None THEN Idle
                                ELSE At("flush", None, result.d, "flushNext", FALSE, 0)]
  BY DEF CheckOutLargest
<1>2. Good(fc, dwpts) /\ None \notin Flushed(fc)
  BY Fields, NoneNowhere
<1>3. s \in DOMAIN fc.states /\ CanLock(t, s)
  <2>1. CallOK(t, call[t], Len(fc.states)) /\ DOMAIN fc.states = 1 .. Len(fc.states)
    BY Fields
  <2> QED BY <1>1, <2>1 DEF CallOK, CanLock
<1> SUFFICES TakeResult(fc, result.f, t, result.d)
  <2> HIDE DEF result
  <2> QED BY <1>1
<1>4. CheckoutResult(fc, fc, s, None)
  <2>1. Kept(fc, fc)
    BY DEF Kept, SameQueues
  <2> QED BY <1>2, <2>1, CheckoutNothing
<1>5. CASE fc.states[s].dwpt = None
  <2>1. TakeResult(fc, NextPending(t, fc).f, t, NextPending(t, fc).d)
    BY <1>2, <1>3, NextPendingTakes
  <2> QED BY <1>5, <2>1
<1>6. CASE fc.states[s].dwpt # None /\ fc.fullFlush /\ fc.states[s].flushPending
  <2> DEFINE m == Block(fc, s)
  <2>1. CheckoutResult(fc, PollFlush(m), s, Polled(m))
    BY <1>2, <1>3, <1>6, CheckoutBlocks
  <2>2. m.fullFlush = TRUE
    <3>1. Block(fc, s).fullFlush = fc.fullFlush /\ fc.fullFlush \in BOOLEAN
      BY <1>2, <1>3, <1>6, Blocking, GoodFields DEF FcRec
    <3> QED BY <1>6, <3>1
  <2>3. result = NextPending(t, m)
    BY <1>6
  <2> HIDE DEF m, result, s, marked
  <2>4. result.f = PollFlush(m) /\ result.d = Polled(m)
    BY <2>2, <2>3 DEF NextPending, PollFlush, Polled
  <2> QED BY <1>3, <2>1, <2>4 DEF TakeResult
<1>7. CASE fc.states[s].dwpt # None /\ ~fc.fullFlush /\ marked.states[s].flushPending
  <2>1. CheckoutResult(fc, CheckOut(marked, s), s, fc.states[s].dwpt)
    <3>1. Good(marked, dwpts) /\ Kept(fc, marked) /\ Excess(marked) = Excess(fc)
      <4>1. CASE fc.states[s].flushPending
        BY <1>2, <4>1 DEF Kept, SameQueues
      <4>2. CASE ~fc.states[s].flushPending
        <5>1. marked = SetFlushPending(fc, s)
          BY <4>2
        <5> HIDE DEF marked, s
        <5> QED BY <1>2, <1>3, <1>7, <4>2, <5>1, Marked
      <4> QED BY <4>1, <4>2
    <3> HIDE DEF marked
    <3>2. s \in DOMAIN marked.states /\ marked.states[s].dwpt = fc.states[s].dwpt
      BY <1>3, <3>1 DEF Kept
    <3>3. CheckoutResult(marked, CheckOut(marked, s), s, marked.states[s].dwpt)
      BY <1>7, <3>1, <3>2, CheckoutTakes
    <3> QED BY <3>1, <3>2, <3>3, CheckoutKept
  <2>2. result.f = CheckOut(marked, s) /\ result.d = fc.states[s].dwpt
    <3> HIDE DEF marked
    <3> QED BY <1>7
  <2> HIDE DEF result, marked
  <2> QED BY <1>3, <2>1, <2>2 DEF TakeResult
<1>8. CASE result = [f |-> fc, d |-> None]
  <2>1. result.f = fc /\ result.d = None
    BY <1>8
  <2> HIDE DEF result
  <2> QED BY <1>3, <1>4, <2>1 DEF TakeResult
<1>9. \/ fc.states[s].dwpt = None
      \/ fc.states[s].dwpt # None /\ fc.fullFlush /\ fc.states[s].flushPending
      \/ fc.states[s].dwpt # None /\ ~fc.fullFlush /\ marked.states[s].flushPending
      \/ result = [f |-> fc, d |-> None]
  <2> HIDE DEF marked
  <2> QED OBVIOUS
<1> QED BY <1>5, <1>6, <1>7, <1>8, <1>9

LEMMA CheckOutLargestKeeps ==
  ASSUME FCInv, NEW t \in Threads, CheckOutLargest(t)
  PROVE  FCInv'
<1>1. /\ call[t].pc = "lockLargest" /\ UNCHANGED <<holder, freeList, monitor, dwpts>>
  BY DEF CheckOutLargest, poolVars
<1>2. Scalars'
  BY ScalarsStall DEF CheckOutLargest, poolVars
<1>3. PICK d : /\ TakeResult(fc, fc', t, d)
               /\ call' = [call EXCEPT ![t] = IF d = None THEN Idle
                                  ELSE At("flush", None, d, "flushNext", FALSE, 0)]
  BY CheckOutLargestTakes
<1>4. PICK r \in DOMAIN fc.states : CanLock(t, r) /\ CheckoutResult(fc, fc', r, d)
  BY <1>3 DEF TakeResult
<1>5. /\ call[t].pc \notin Working \cup {"swap"} /\ t \in Callers /\ t # Main
      /\ CallOK(t, call[t], Len(fc.states)) /\ call[t].dwpt = None
      /\ call \in [Callers -> CallRec] /\ Held(fc, call, Live) /\ Balanced(fc)
      /\ Len(fc.states) \in Nat /\ dwpts \in Seq(DwptRec)
  BY <1>1, Fields, ThreadsAssumption DEF CallOK, Working
<1> DEFINE b == At("flush", None, d, "flushNext", FALSE, 0)
<1>6. b \in CallRec /\ b.pc = "flush" /\ b.dwpt = d /\ b.ctx = "flushNext"
  BY <1>4 DEF At, None, CallRec, Pcs, CheckoutResult
<1> HIDE DEF b
<1>7. Fresh(t, Idle)
  BY FreshThread DEF ThreadCtxs
<1>8. call' \in [Callers -> CallRec] /\ OnlyCall(t) /\ call'[t] = IF d = None THEN Idle ELSE b
  BY <1>3, <1>5, <1>6, <1>7 DEF OnlyCall, Fresh, b
<1>9. Moves(t)
  <2>1. CASE d = None
    <3>1. CallOK(t, call'[t], Len(fc.states)) /\ call'[t].pc \notin Working \cup {"swap"}
      BY <1>5, <1>7, <1>8, <2>1 DEF Fresh
    <3> QED BY <1>1, <1>5, <1>8, <3>1 DEF Moves
  <2>2. CASE d # None
    <3>1. Takes(t, d)
      BY <1>5, <1>6, <1>8, <2>2 DEF Takes, ThreadCtxs
    <3> QED BY <1>1, <1>5, <2>2, <3>1, TakesMoves
  <2> QED BY <2>1, <2>2
<1>10. DwptsStay
  <2> SUFFICES ASSUME NEW u \in Threads, call[u].pc \in {"index", "after"}
               PROVE  fc'.states[call[u].state].dwpt = fc.states[call[u].state].dwpt
    BY DEF DwptsStay
  <2>1. call[u].pc \in Working \ {"lock"} /\ call[t].pc \notin Working \ {"lock"}
    BY <1>5 DEF Working
  <2>2. call[u].state # r
    BY <1>4, <1>5, <2>1, NobodyWorks
  <2>3. call[u].state \in DOMAIN fc.states
    BY <2>1, AtWork
  <2> QED BY <1>4, <2>2, <2>3 DEF CheckoutResult
<1>11. Held(fc', call', Live)
  <2>1. /\ \A u \in Callers \ {t} : call'[u] = call[u]
        /\ call'[t].dwpt = d
    BY <1>6, <1>7, <1>8 DEF OnlyCall, Fresh
  <2>2. /\ Live = InStates(fc') \cup Blocked(fc') \cup Flushed(fc')
        /\ Flushed(fc') \ InQueues(fc') = (Flushed(fc) \ InQueues(fc)) \cup ({d} \ {None})
        /\ d # None => d \notin Flushed(fc) \ InQueues(fc)
    BY <1>4, <1>5 DEF Held, CheckoutResult
  <2>3. CASE d = None
    <3>1. /\ call'[t].dwpt = call[t].dwpt
          /\ Flushed(fc') \ InQueues(fc') = Flushed(fc) \ InQueues(fc)
      BY <1>5, <2>1, <2>2, <2>3
    <3> QED BY <1>5, <2>1, <2>2, <3>1, HeldSame
  <2>4. CASE d # None
    <3>1. Flushed(fc') \ InQueues(fc') = (Flushed(fc) \ InQueues(fc)) \cup {d}
      BY <2>2, <2>4
    <3> QED BY <1>5, <2>1, <2>2, <2>4, <3>1, HeldTakes
  <2> QED BY <2>3, <2>4
<1>12. Core'
  <2>1. Live' = Live
    BY <1>1 DEF Live
  <2> QED BY <1>1, <1>4, <1>5, <1>11, <2>1, BalancedSame DEF CheckoutResult, Core
<1>13. DOMAIN fc'.states = DOMAIN fc.states /\ holder' = holder /\ dwpts' \in Seq(DwptRec)
  BY <1>1, <1>4, <1>5 DEF CheckoutResult
<1> QED BY <1>2, <1>5, <1>9, <1>10, <1>12, <1>13, MovesStep
------------------------------------------------------------------------------
\* Main in a full flush

\* Only the flag fullFlush changes.
LEMMA FlagOnly ==
  ASSUME NEW f, NEW table, Good(f, table), NEW flag \in BOOLEAN,
         NEW g, g = [f EXCEPT !.fullFlush = flag]
  PROVE  /\ Good(g, table) /\ Excess(g) = Excess(f) /\ g.states = f.states
         /\ InStates(g) = InStates(f) /\ Blocked(g) = Blocked(f) /\ Flushed(g) = Flushed(f)
         /\ InQueues(g) = InQueues(f) /\ g.fullFlush = flag
         /\ g.flushQueue = f.flushQueue /\ g.fullFlushBuffer = f.fullFlushBuffer
         /\ g.blockedFlushes = f.blockedFlushes /\ g.flushingWriters = f.flushingWriters
<1>1. f \in FcRec /\ Typed(f) /\ Separate(f) /\ Queueing(f) /\ WritersSeparate(f)
      /\ f.numPending \in Int /\ f.flushBytes \in Int
      /\ WriterSum(f.flushingWriters) \in Nat /\ WriterSum(Range(f.blockedFlushes)) \in Nat
      /\ InStates(f) \cap Blocked(f) = {} /\ InStates(f) \cap Flushed(f) = {}
  BY GoodFields
<1>2. /\ g \in FcRec /\ g.states = f.states /\ g.activeBytes = f.activeBytes
      /\ g.flushBytes = f.flushBytes /\ g.numPending = f.numPending
      /\ g.flushingWriters = f.flushingWriters /\ g.blockedFlushes = f.blockedFlushes
      /\ g.flushQueue = f.flushQueue /\ g.fullFlushBuffer = f.fullFlushBuffer
      /\ g.fullFlush = flag
  BY <1>1 DEF FcRec
<1> HIDE DEF FcRec
<1>3. Typed(g) /\ Blocked(g) = Blocked(f) /\ Flushed(g) = Flushed(f) /\ InQueues(g) = InQueues(f)
  BY <1>1, <1>2 DEF Typed, Blocked, Flushed, InQueues
<1>4. WritersSeparate(g) /\ Queueing(g) /\ WaitingBytes(g) = WaitingBytes(f)
  BY <1>1, <1>2, <1>3 DEF WritersSeparate, Queueing, WaitingBytes
<1>5. InStates(f) \cap (Blocked(g) \cup Flushed(g)) = {}
  BY <1>1, <1>3
<1>6. g.flushBytes - WaitingBytes(g) = f.flushBytes - WaitingBytes(f)
  BY <1>2, <1>4
<1>7. Good(g, table) /\ InStates(g) = InStates(f) /\ Excess(g) = Excess(f)
  BY <1>2, <1>3, <1>4, <1>5, <1>6, StatesKept
<1> QED BY <1>2, <1>3, <1>7

\* A step of Main that takes or leaves the monitor
LEMMA MonitorStep ==
  ASSUME FCInv, OnlyCall(Main), call' \in [Callers -> CallRec],
         CallOK(Main, call'[Main], Len(fc.states)), monitor' = Main <=> call'[Main].pc = "swap",
         fc'.states = fc.states, UNCHANGED <<holder, freeList, dwpts>>, Scalars', Core'
  PROVE  FCInv'
<1>1. Types /\ Len(fc.states) \in Nat /\ Main \in Callers
  BY Fields
<1>2. Types'
  BY <1>1 DEF Types
<1>3. Control'
  BY <1>1, ControlChange
<1>4. Owners'
  BY <1>1, OwnersStep
<1> QED BY <1>2, <1>3, <1>4 DEF FCInv

LEMMA MarkForFullFlushKeeps ==
  ASSUME FCInv, MarkForFullFlush
  PROVE  FCInv'
<1> DEFINE b == [call[Main] EXCEPT !.pc = "swap"]
<1>1. /\ call[Main].pc = "idle" /\ monitor' = Main /\ fc' = [fc EXCEPT !.fullFlush = TRUE]
      /\ call' = [call EXCEPT ![Main].pc = "swap"] /\ UNCHANGED <<holder, freeList, dwpts>>
  BY DEF MarkForFullFlush, Goto, poolVars
<1>2. /\ Good(fc, dwpts) /\ Held(fc, call, Live) /\ Balanced(fc) /\ Main \in Callers
      /\ call \in [Callers -> CallRec] /\ CallOK(Main, call[Main], Len(fc.states))
      /\ call[Main] \in CallRec /\ Len(fc.states) \in Nat
  BY Fields
<1>3. Scalars'
  BY <1>2, ScalarsNow DEF MarkForFullFlush, Scalars, poolVars, stallVars, queueVars, SeqNoGap,
                          ActiveThreadStateCount
<1>4. call' = [call EXCEPT ![Main] = b]
  BY <1>1, <1>2
<1>5. b \in CallRec /\ b.pc = "swap" /\ b.dwpt = call[Main].dwpt /\ call[Main].dwpt = None
  BY <1>1, <1>2 DEF CallRec, Pcs, CallOK
<1> HIDE DEF b
<1>6. /\ call' \in [Callers -> CallRec] /\ OnlyCall(Main) /\ call'[Main] = b
  BY <1>2, <1>4, <1>5 DEF OnlyCall
<1>7. CallOK(Main, call'[Main], Len(fc.states))
  BY <1>5, <1>6 DEF CallOK, MainPcs, FullFlushPcs, Working
<1>8. /\ Good(fc', dwpts) /\ Excess(fc') = Excess(fc) /\ fc'.states = fc.states
      /\ InStates(fc') = InStates(fc) /\ Blocked(fc') = Blocked(fc)
      /\ Flushed(fc') = Flushed(fc) /\ InQueues(fc') = InQueues(fc)
  BY <1>1, <1>2, FlagOnly
<1>9. Held(fc', call', Live)
  <2>1. /\ \A u \in Callers \ {Main} : call'[u] = call[u]
        /\ call'[Main].dwpt = call[Main].dwpt
    BY <1>5, <1>6 DEF OnlyCall
  <2>2. /\ Live = InStates(fc') \cup Blocked(fc') \cup Flushed(fc')
        /\ Flushed(fc') \ InQueues(fc') = Flushed(fc) \ InQueues(fc)
    BY <1>2, <1>8 DEF Held
  <2> QED BY <1>2, <2>1, <2>2, HeldSame
<1>10. Core'
  BY <1>1, <1>2, <1>8, <1>9, BalancedSame DEF Core, Live
<1> QED BY <1>1, <1>3, <1>5, <1>6, <1>7, <1>8, <1>10, MonitorStep

LEMMA SwapQueueKeeps ==
  ASSUME FCInv, SwapQueue
  PROVE  FCInv'
<1> DEFINE b == At("mark", 1, None, "fullFlush", FALSE, ActiveThreadStateCount)
<1>1. /\ call[Main].pc = "swap" /\ monitor' = NoThread /\ call' = [call EXCEPT ![Main] = b]
      /\ UNCHANGED <<fc, holder, freeList, dwpts>>
  BY DEF SwapQueue, poolVars
<1>2. /\ Good(fc, dwpts) /\ Held(fc, call, Live) /\ Balanced(fc) /\ Main \in Callers
      /\ call \in [Callers -> CallRec] /\ CallOK(Main, call[Main], Len(fc.states))
      /\ Len(fc.states) \in Nat /\ Core
  BY Fields DEF Core
<1>3. Scalars'
  BY ScalarsNow DEF SwapQueue, Scalars, poolVars, stallVars, seqVars
<1>4. /\ b \in CallRec /\ b.pc = "mark" /\ b.dwpt = None /\ call[Main].dwpt = None
      /\ b.state = 1 /\ b.left = Len(fc.states)
  BY <1>1, <1>2 DEF At, None, CallRec, Pcs, CallOK, ActiveThreadStateCount
<1> HIDE DEF b
<1>5. call' \in [Callers -> CallRec] /\ OnlyCall(Main) /\ call'[Main] = b
  BY <1>1, <1>2, <1>4 DEF OnlyCall
<1>6. CallOK(Main, call'[Main], Len(fc.states))
  BY <1>2, <1>4, <1>5 DEF CallOK, MainPcs, FullFlushPcs, Working
<1>7. Held(fc, call', Live)
  <2>1. /\ \A u \in Callers \ {Main} : call'[u] = call[u]
        /\ call'[Main].dwpt = call[Main].dwpt
    BY <1>4, <1>5 DEF OnlyCall
  <2>2. Live = InStates(fc) \cup Blocked(fc) \cup Flushed(fc)
    BY <1>2 DEF Held
  <2> QED BY <1>2, <2>1, <2>2, HeldSame
<1>8. Core'
  BY <1>1, <1>2, <1>7 DEF Core, Live
<1>9. monitor' = Main <=> call'[Main].pc = "swap"
  BY <1>1, <1>4, <1>5, ThreadsAssumption
<1> QED BY <1>1, <1>3, <1>5, <1>6, <1>8, <1>9, MonitorStep

\* A step of Main that leaves what it holds, with one pc for another
MainGoes(from, to) ==
    /\ call[Main].pc = from /\ Goto(Main, to)

LEMMA MainGoesQuiet ==
  ASSUME FCInv, NEW from \in MainPcs \ {"swap", "flush", "next", "scan"},
         NEW to \in MainPcs \ {"swap", "flush", "next", "scan", "mark", "setAbort"},
         MainGoes(from, to), to = "abort" => from = "setAbort",
         to \in {"waitAbort", "cleared"} => from \in {"abort", "waitAbort"}
  PROVE  QuietCall(Main) /\ call'[Main].pc = to
<1> DEFINE b == [call[Main] EXCEPT !.pc = to]
<1>1. /\ call \in [Callers -> CallRec] /\ call[Main] \in CallRec /\ Main \in Callers
      /\ CallOK(Main, call[Main], Len(fc.states)) /\ call[Main].pc = from
      /\ call' = [call EXCEPT ![Main].pc = to]
  BY Fields DEF MainGoes, Goto
<1>2. call[Main].dwpt = None
  BY <1>1 DEF CallOK, MainPcs, FullFlushPcs
<1>3. call' = [call EXCEPT ![Main] = b]
  BY <1>1
<1>4. /\ b \in CallRec /\ b.pc = to /\ b.state = call[Main].state /\ b.left = call[Main].left
      /\ b.dwpt = None
  BY <1>1, <1>2 DEF CallRec, Pcs, MainPcs, FullFlushPcs
<1> HIDE DEF b
<1>5. CallOK(Main, b, Len(fc.states))
  BY <1>1, <1>4 DEF CallOK, MainPcs, FullFlushPcs, Working
<1>6. call'[Main] = b
  BY <1>1, <1>3
<1> QED BY <1>1, <1>2, <1>3, <1>4, <1>5, <1>6 DEF QuietCall

LEMMA QuietMoves ==
  ASSUME FCInv, QuietCall(Main), monitor' = monitor, freeList' = freeList
  PROVE  Moves(Main)
<1>1. call \in [Callers -> CallRec] /\ Main \in Callers
  BY Fields
<1> QED BY <1>1 DEF QuietCall, Moves, OnlyCall

\* The new record holds the same DWPTs for the same callers.
LEMMA QuietHeld ==
  ASSUME FCInv, QuietCall(Main), NEW g, NEW new,
         new = InStates(g) \cup Blocked(g) \cup Flushed(g),
         Flushed(g) \ InQueues(g) = Flushed(fc) \ InQueues(fc)
  PROVE  Held(g, call', new)
<1>1. /\ \A u \in Callers \ {Main} : call'[u] = call[u]
      /\ call'[Main].dwpt = call[Main].dwpt /\ Main \in Callers /\ Held(fc, call, Live)
  BY Fields DEF QuietCall
<1> QED BY <1>1, HeldSame
LEMMA NextStateRec ==
  ASSUME NEW c \in CallRec, NEW b, b = [c EXCEPT !.state = c.state + 1]
  PROVE  /\ b \in CallRec /\ b.pc = c.pc /\ b.state # 0 /\ b.left = c.left
         /\ b.dwpt = c.dwpt
BY DEF CallRec

\* The loop over the ThreadStates goes on.
LEMMA NextStateQuiet ==
  ASSUME FCInv, call[Main].pc \in {"mark", "abort"},
         call' = [call EXCEPT ![Main].state = call[Main].state + 1]
  PROVE  QuietCall(Main)
<1> DEFINE c == call[Main]
           b == [c EXCEPT !.state = c.state + 1]
<1>1. /\ call \in [Callers -> CallRec] /\ c \in CallRec /\ Main \in Callers
      /\ CallOK(Main, c, Len(fc.states)) /\ c.pc \in {"mark", "abort"}
  BY Fields
<1>2. call' = [call EXCEPT ![Main] = b]
  BY <1>1
<1> HIDE DEF c
<1>3. /\ b \in CallRec /\ b.pc = c.pc /\ b.state # 0 /\ b.left = c.left /\ b.dwpt = c.dwpt
  BY <1>1, NextStateRec
<1> HIDE DEF b
<1>4. CallOK(Main, b, Len(fc.states))
  BY <1>1, <1>3 DEF CallOK, Working
<1>5. call'[Main] = b
  BY <1>1, <1>2
<1> QED BY <1>1, <1>2, <1>3, <1>4, <1>5 DEF QuietCall, c

\* The ThreadState the loop is at
LEMMA LoopState ==
  ASSUME FCInv, call[Main].pc \in {"mark", "abort"}, call[Main].state <= call[Main].left
  PROVE  call[Main].state \in DOMAIN fc.states
<1>1. /\ call[Main] \in CallRec /\ CallOK(Main, call[Main], Len(fc.states))
      /\ DOMAIN fc.states = 1 .. Len(fc.states) /\ Len(fc.states) \in Nat
  BY Fields
<1> QED BY <1>1 DEF CallOK, CallRec

\* Nobody is at work in a state whose lock is free.
LEMMA FreeState ==
  ASSUME FCInv, NEW s \in DOMAIN fc.states, holder[s] = NoThread,
         \A r \in DOMAIN fc.states \ {s} : fc'.states[r].dwpt = fc.states[r].dwpt
  PROVE  DwptsStay
<1> SUFFICES ASSUME NEW u \in Threads, call[u].pc \in {"index", "after"}
             PROVE  fc'.states[call[u].state].dwpt = fc.states[call[u].state].dwpt
  BY DEF DwptsStay
<1>1. call[u].pc \in Working /\ call[u].pc # "lock"
  BY DEF Working
<1>2. holder[call[u].state] = u /\ call[u].state \in DOMAIN fc.states
  BY <1>1, AtWork
<1>3. call[u].state # s
  BY <1>2, ThreadsAssumption
<1> QED BY <1>2, <1>3

LEMMA MarkStateKeeps ==
  ASSUME FCInv, MarkState
  PROVE  FCInv'
<1> DEFINE s == call[Main].state
           stale == fc.states[s].dwpt # None /\ Stale(fc.states[s].dwpt)
<1>1. /\ call[Main].pc = "mark" /\ s <= call[Main].left /\ holder[s] = NoThread
      /\ UNCHANGED <<holder, freeList, monitor>>
      /\ call' = [call EXCEPT ![Main].state = call[Main].state + 1]
      /\ IF stale THEN /\ fc' = AddFlushable(fc, s)
                       /\ dwpts' = IF numDocsInRAM(fc.states[s].dwpt) = 0
                            THEN Finished(fc.states[s].dwpt, "empty") ELSE dwpts
         ELSE UNCHANGED <<fc, dwpts>>
  BY DEF MarkState, poolVars
<1>2. Scalars'
  BY ScalarsStall DEF MarkState, poolVars
<1>3. QuietCall(Main) /\ s \in DOMAIN fc.states
  BY <1>1, NextStateQuiet, LoopState
<1>4. LockedResult(fc', dwpts', s)
  <2>1. CASE stale
    <3>1. /\ fc' = AddFlushable(fc, s) /\ fc.states[s].dwpt # None
          /\ dwpts' = IF numDocsInRAM(fc.states[s].dwpt) = 0
                        THEN Finished(fc.states[s].dwpt, "empty") ELSE dwpts
      BY <1>1, <2>1
    <3> HIDE DEF s
    <3> QED BY <1>3, <3>1, StaleLocked
  <2>2. CASE ~stale
    <3>1. fc' = fc /\ dwpts' = dwpts
      BY <1>1, <2>2
    <3> QED BY <3>1, NotStaleLocked
  <2> QED BY <2>1, <2>2
<1> HIDE DEF s, stale
<1>5. /\ Good(fc', dwpts') /\ Excess(fc') = Excess(fc) /\ DOMAIN fc'.states = DOMAIN fc.states
      /\ \A r \in DOMAIN fc.states \ {s} : fc'.states[r].dwpt = fc.states[r].dwpt
      /\ Live' = InStates(fc') \cup Blocked(fc') \cup Flushed(fc')
      /\ Flushed(fc') \ InQueues(fc') = Flushed(fc) \ InQueues(fc)
      /\ dwpts' \in Seq(DwptRec)
  BY <1>4, LiveIsIn DEF LockedResult
<1>6. DwptsStay
  BY <1>1, <1>3, <1>5, FreeState
<1>7. Held(fc', call', InStates(fc') \cup Blocked(fc') \cup Flushed(fc'))
  BY <1>3, <1>5, QuietHeld
<1>8. Core'
  BY <1>5, <1>7, Fields, BalancedSame DEF Core
<1>9. Moves(Main) /\ Main \in Callers
  BY <1>1, <1>3, QuietMoves, Fields
<1> QED BY <1>1, <1>2, <1>5, <1>6, <1>8, <1>9, MovesStep

LEMMA EndMarkKeeps ==
  ASSUME FCInv, EndMark
  PROVE  FCInv'
<1>1. /\ MainGoes("mark", "setQueue") /\ fc' = MovedToQueue(fc)
      /\ UNCHANGED <<holder, freeList, monitor, dwpts>>
  BY DEF EndMark, poolVars, MainGoes
<1>2. Scalars'
  BY ScalarsStall DEF EndMark, poolVars
<1>3. QuietCall(Main)
  BY <1>1, MainGoesQuiet DEF MainPcs, FullFlushPcs
<1>4. Good(fc, dwpts) /\ Held(fc, call, Live) /\ Balanced(fc) /\ dwpts \in Seq(DwptRec)
  BY Fields
<1> DEFINE ofQueue == {d \in Blocked(fc) : dwpts[d].queue = deleteQueue - 1}
<1>5. /\ Good(fc', dwpts) /\ Excess(fc') = Excess(fc) /\ fc'.states = fc.states
      /\ InStates(fc') = InStates(fc) /\ fc'.fullFlushBuffer = <<>>
      /\ Blocked(fc') = Blocked(fc) \ ofQueue /\ Flushed(fc') = Flushed(fc) \cup ofQueue
      /\ Range(fc'.flushQueue) = Range(fc.flushQueue) \cup Range(fc.fullFlushBuffer) \cup ofQueue
  BY <1>1, <1>4, Moved DEF MoveResult, QueueResult
<1>6. ofQueue \subseteq Blocked(fc) /\ Blocked(fc) \cap Flushed(fc) = {}
  BY <1>4, GoodFields
<1> HIDE DEF ofQueue
<1>7. InQueues(fc') = InQueues(fc) \cup ofQueue
  <2>1. Range(fc'.fullFlushBuffer) = {}
    BY <1>5 DEF Range
  <2> QED BY <1>5, <2>1 DEF InQueues
<1>8. /\ Live = InStates(fc') \cup Blocked(fc') \cup Flushed(fc')
      /\ Flushed(fc') \ InQueues(fc') = Flushed(fc) \ InQueues(fc)
  BY <1>4, <1>5, <1>6, <1>7 DEF Held
<1>9. Held(fc', call', Live)
  BY <1>3, <1>8, QuietHeld
<1>10. Core'
  BY <1>1, <1>4, <1>5, <1>9, BalancedSame DEF Core, Live
<1>11. Moves(Main) /\ Main \in Callers
  BY <1>1, <1>3, QuietMoves, Fields
<1> QED BY <1>1, <1>2, <1>4, <1>5, <1>10, <1>11, StatesStay, MovesStep

LEMMA SetFlushingDeleteQueueKeeps ==
  ASSUME FCInv, SetFlushingDeleteQueue
  PROVE  FCInv'
<1>1. /\ call[Main].pc = "setQueue" /\ UNCHANGED <<fc, holder, freeList, monitor, dwpts>>
      /\ call' = [call EXCEPT ![Main] = At("next", None, None, "fullFlush", FALSE, 0)]
  BY DEF SetFlushingDeleteQueue, poolVars
<1>2. Scalars'
  BY ScalarsNow DEF SetFlushingDeleteQueue, Scalars, poolVars, stallVars, seqVars
<1>3. Fresh(Main, At("next", None, None, "fullFlush", FALSE, 0))
  BY FreshMain
<1>4. call[Main].dwpt = None /\ call[Main].pc \notin Working \cup {"swap"} /\ Main \in Callers
  BY <1>1, Fields DEF CallOK, Working
<1> QED BY <1>1, <1>2, <1>3, <1>4, FreshStep

LEMMA WaitingKeeps ==
  ASSUME FCInv, WaitForFlush \/ WaitForAbort
  PROVE  FCInv'
<1>1. /\ MainGoes("waitForFlush", "flushed") \/ MainGoes("waitAbort", "cleared")
      /\ UNCHANGED <<fc, holder, freeList, monitor, dwpts>>
  BY DEF WaitForFlush, WaitForAbort, MainGoes, poolVars
<1>2. Scalars'
  BY ScalarsNow DEF WaitForFlush, WaitForAbort, Scalars, poolVars, stallVars, seqVars, queueVars
<1>3. QuietCall(Main) /\ Main \in Callers
  BY <1>1, MainGoesQuiet, Fields DEF MainPcs, FullFlushPcs
<1> QED BY <1>1, <1>2, <1>3, QuietStep

\* DWPTs of a set that are done are live no more.
FinishedTable(P, status) ==
    [d \in DOMAIN dwpts |->
        IF d \in P THEN [queue |-> 0, docs |-> 0, status |-> status] ELSE dwpts[d]]

LEMMA FinishedAll ==
  ASSUME dwpts \in Seq(DwptRec), NEW P, NEW status \in {"flushed", "aborted", "empty"}, NEW table,
         table = FinishedTable(P, status)
  PROVE  /\ table \in Seq(DwptRec) /\ LiveIn(table) = Live \ P
         /\ \A e \in DOMAIN dwpts \ P : table[e] = dwpts[e]
<1>1. /\ DOMAIN dwpts = 1 .. Len(dwpts) /\ Len(dwpts) \in Nat
      /\ \A d \in DOMAIN dwpts : dwpts[d] \in DwptRec
  OBVIOUS
<1>2. [queue |-> 0, docs |-> 0, status |-> status] \in DwptRec
  BY DEF DwptRec
<1>3. /\ DOMAIN table = DOMAIN dwpts
      /\ \A d \in DOMAIN dwpts \ P : table[d] = dwpts[d]
      /\ \A d \in DOMAIN dwpts \cap P : table[d] = [queue |-> 0, docs |-> 0, status |-> status]
      /\ table = [d \in DOMAIN dwpts |-> table[d]]
  BY DEF FinishedTable
<1>4. \A d \in DOMAIN dwpts : table[d] \in DwptRec
  BY <1>1, <1>2, <1>3
<1>5. table \in Seq(DwptRec)
  BY <1>1, <1>3, <1>4
<1>6. \A e \in DOMAIN dwpts : e \in P => table[e].status # "live"
  BY <1>3
<1>7. LiveIn(table) = Live \ P
  BY <1>3, <1>6 DEF Live, LiveIn
<1> QED BY <1>3, <1>5, <1>7

\* What is dropped of the flush control is in no ThreadState and in nobody's hands.
AbortAllResult(f, table) ==
    /\ Good(f, table) /\ Excess(f) = Excess(fc) /\ f.states = fc.states
    /\ LiveIn(table) = InStates(f) \cup Blocked(f) \cup Flushed(f)
    /\ Flushed(f) \ InQueues(f) = Flushed(fc) \ InQueues(fc)
    /\ table \in Seq(DwptRec) /\ f.blockedFlushes = <<>> /\ f.fullFlush = fc.fullFlush
    /\ f.fullFlushBuffer = fc.fullFlushBuffer /\ PendingDwpts(f) = {}
    /\ \A d \in DOMAIN dwpts \ PendingDwpts(fc) : table[d] = dwpts[d]
    /\ LiveIn(table) = Live \ PendingDwpts(fc)

LEMMA AbortedAll ==
  ASSUME FCInv, NEW status \in {"flushed", "aborted", "empty"}, NEW table,
         table = FinishedTable(PendingDwpts(fc), status)
  PROVE  AbortAllResult(AbortPending(fc), table)
<1> DEFINE P == PendingDwpts(fc)
           f == AbortPending(fc)
<1>1. Good(fc, dwpts) /\ Held(fc, call, Live) /\ dwpts \in Seq(DwptRec)
  BY Fields
<1>2. AbortResult(fc, f, dwpts)
  BY <1>1, AbortedPending
<1>3. P = Range(fc.flushQueue) \cup Blocked(fc)
  BY DEF PendingDwpts, Blocked, DwptsOf, Range
<1>4. /\ table \in Seq(DwptRec) /\ LiveIn(table) = Live \ P
      /\ \A e \in DOMAIN dwpts \ P : table[e] = dwpts[e]
  BY <1>1, FinishedAll
<1> HIDE DEF P, f
<1>5. /\ InStates(fc) \cap Blocked(fc) = {} /\ InStates(fc) \cap Flushed(fc) = {}
      /\ Blocked(fc) \cap Flushed(fc) = {} /\ Range(fc.flushQueue) \subseteq Flushed(fc)
      /\ Live = InStates(fc) \cup Blocked(fc) \cup Flushed(fc) /\ Live \subseteq DOMAIN dwpts
      /\ Range(fc.flushQueue) \cap Range(fc.fullFlushBuffer) = {}
  BY <1>1, GoodFields, NoneNowhere DEF Held, InQueues
<1>6. /\ Good(f, dwpts) /\ Excess(f) = Excess(fc) /\ f.states = fc.states
      /\ InStates(f) = InStates(fc) /\ f.fullFlush = fc.fullFlush
      /\ f.fullFlushBuffer = fc.fullFlushBuffer
      /\ f.blockedFlushes = <<>> /\ Blocked(f) = {} /\ f.flushQueue = <<>>
      /\ Flushed(f) = Flushed(fc) \ Range(fc.flushQueue)
  BY <1>2 DEF AbortResult, QueueResult
<1>7. Range(f.flushQueue) = {}
  BY <1>6 DEF Range
<1>8. Flushed(f) \ InQueues(f) = Flushed(fc) \ InQueues(fc)
  BY <1>5, <1>6, <1>7 DEF InQueues
<1>9. LiveIn(table) = InStates(f) \cup Blocked(f) \cup Flushed(f)
  BY <1>3, <1>4, <1>5, <1>6
<1>10. Good(f, table)
  <2>1. \A d \in InStates(f) : d \in DOMAIN dwpts \ P
    BY <1>3, <1>5, <1>6
  <2>2. \A d \in InStates(f) : table[d].docs = 0 => dwpts[d].docs = 0
    BY <1>4, <2>1
  <2> QED BY <1>6, <2>2, GoodTable
<1>11. PendingDwpts(f) = {}
  BY <1>6, <1>7 DEF PendingDwpts
<1>12. AbortAllResult(f, table)
  BY <1>4, <1>6, <1>8, <1>9, <1>10, <1>11 DEF AbortAllResult, P
<1> QED BY <1>12 DEF f
\* The end of the full flush, from a record f that holds the same for the callers
LEMMA EndFullFlushKeeps ==
  ASSUME FCInv, NEW f, NEW status, EndFullFlush(f, status), Good(f, dwpts'),
         Excess(f) = Excess(fc), f.states = fc.states,
         Live' = InStates(f) \cup Blocked(f) \cup Flushed(f),
         Flushed(f) \ InQueues(f) = Flushed(fc) \ InQueues(fc), dwpts' \in Seq(DwptRec)
  PROVE  FCInv'
<1>1. /\ call[Main].pc = "flushed" /\ fc' = [f EXCEPT !.fullFlush = FALSE]
      /\ call' = [call EXCEPT ![Main] = Idle] /\ UNCHANGED <<holder, freeList, monitor>>
  BY DEF EndFullFlush, poolVars
<1>2. Scalars'
  <2>1. stalled' \in BOOLEAN /\ stallWaiters' \subseteq Threads
    BY ScalarsNow, StallTypes DEF EndFullFlush, Scalars
  <2> QED BY <2>1, ScalarsNow DEF EndFullFlush, Scalars, poolVars
<1>3. /\ Good(fc', dwpts') /\ Excess(fc') = Excess(f) /\ fc'.states = f.states
      /\ InStates(fc') = InStates(f) /\ Blocked(fc') = Blocked(f)
      /\ Flushed(fc') = Flushed(f) /\ InQueues(fc') = InQueues(f)
  BY <1>1, FlagOnly
<1>4. /\ call \in [Callers -> CallRec] /\ Main \in Callers /\ Balanced(fc)
      /\ CallOK(Main, call[Main], Len(fc.states)) /\ Len(fc.states) \in Nat
  BY Fields
<1>5. Fresh(Main, Idle)
  BY FreshMain
<1>6. QuietCall(Main)
  <2>1. call'[Main] = Idle
    BY <1>1, <1>4
  <2>2. call[Main].dwpt = None
    BY <1>1, <1>4 DEF CallOK
  <2> QED BY <1>1, <1>4, <1>5, <2>1, <2>2 DEF Fresh, QuietCall
<1>7. Held(fc', call', InStates(fc') \cup Blocked(fc') \cup Flushed(fc'))
  <2>1. Flushed(fc') \ InQueues(fc') = Flushed(fc) \ InQueues(fc)
    BY <1>3
  <2> QED BY <1>6, <2>1, QuietHeld
<1>8. Core'
  <2>1. Held(fc', call', Live')
    BY <1>3, <1>7
  <2>2. Excess(fc') = Excess(fc)
    BY <1>3
  <2> QED BY <1>3, <1>4, <2>1, <2>2, BalancedSame DEF Core
<1>9. Moves(Main) /\ fc'.states = fc.states
  BY <1>1, <1>3, <1>6, QuietMoves
<1> QED BY <1>1, <1>2, <1>4, <1>8, <1>9, StatesStay, MovesStep

LEMMA FinishFullFlushKeeps ==
  ASSUME FCInv, FinishFullFlush
  PROVE  FCInv'
<1> DEFINE f == Prune(fc, deleteQueue)
           ofQueue == {d \in Blocked(fc) : dwpts[d].queue = deleteQueue}
<1>1. Good(fc, dwpts) /\ Held(fc, call, Live) /\ dwpts \in Seq(DwptRec)
  BY Fields
<1>2. EndFullFlush(f, "flushed")
  BY DEF FinishFullFlush
<1>3. PruneResult(fc, f, deleteQueue)
  BY <1>1, Pruned
<1> HIDE DEF f
<1>4. /\ Good(f, dwpts) /\ Excess(f) = Excess(fc) /\ f.states = fc.states
      /\ InStates(f) = InStates(fc) /\ f.fullFlushBuffer = fc.fullFlushBuffer
      /\ Blocked(f) = Blocked(fc) \ ofQueue /\ Flushed(f) = Flushed(fc) \cup ofQueue
      /\ Range(f.flushQueue) = Range(fc.flushQueue) \cup ofQueue
  BY <1>3 DEF PruneResult, QueueResult
<1>5. ofQueue \subseteq Blocked(fc) /\ Blocked(fc) \cap Flushed(fc) = {}
  BY <1>1, GoodFields
<1> HIDE DEF ofQueue
<1>6. Flushed(f) \ InQueues(f) = Flushed(fc) \ InQueues(fc)
  BY <1>4, <1>5 DEF InQueues
<1>7. dwpts' = dwpts
  <2>1. /\ PendingDwpts(fc) = Range(fc.flushQueue) \cup Blocked(fc)
        /\ PendingDwpts(f) = Range(f.flushQueue) \cup Blocked(f)
    BY DEF PendingDwpts, Blocked, DwptsOf, Range
  <2>2. PendingDwpts(fc) \ PendingDwpts(f) = {}
    BY <1>4, <1>5, <2>1
  <2>3. dwpts' = [d \in DOMAIN dwpts |-> dwpts[d]]
    BY <1>2, <2>2 DEF EndFullFlush
  <2> QED BY <1>1, <2>3
<1>8. Live' = InStates(f) \cup Blocked(f) \cup Flushed(f)
  BY <1>1, <1>4, <1>5, <1>7 DEF Held, Live
<1> QED BY <1>1, <1>2, <1>4, <1>6, <1>7, <1>8, EndFullFlushKeeps

LEMMA AbortFullFlushesKeeps ==
  ASSUME FCInv, AbortFullFlushes
  PROVE  FCInv' /\ AbortAllResult(AbortPending(fc), dwpts')
<1> DEFINE f == AbortPending(fc)
<1>1. EndFullFlush(f, "aborted")
  BY DEF AbortFullFlushes
<1>2. PendingDwpts(f) = {}
  <2>1. AbortAllResult(f, FinishedTable(PendingDwpts(fc), "aborted"))
    BY AbortedAll
  <2> QED BY <2>1 DEF AbortAllResult
<1>3. dwpts' = FinishedTable(PendingDwpts(fc), "aborted")
  <2>1. PendingDwpts(fc) \ PendingDwpts(f) = PendingDwpts(fc)
    BY <1>2
  <2> HIDE DEF f
  <2> QED BY <1>1, <2>1 DEF EndFullFlush, FinishedTable
<1>4. AbortAllResult(f, dwpts')
  BY <1>3, AbortedAll
<1> HIDE DEF f
<1>5. /\ Good(f, dwpts') /\ Excess(f) = Excess(fc) /\ f.states = fc.states
      /\ Live' = InStates(f) \cup Blocked(f) \cup Flushed(f)
      /\ Flushed(f) \ InQueues(f) = Flushed(fc) \ InQueues(fc) /\ dwpts' \in Seq(DwptRec)
  BY <1>4, LiveIsIn DEF AbortAllResult
<1>6. FCInv'
  BY <1>1, <1>5, EndFullFlushKeeps
<1> QED BY <1>4, <1>6 DEF f

------------------------------------------------------------------------------
\* Main in deleteAll

LEMMA StartDeleteAllKeeps ==
  ASSUME FCInv, StartDeleteAll
  PROVE  FCInv'
<1> DEFINE b == At("setAbort", 1, None, "deleteAll", FALSE, ActiveThreadStateCount)
<1>1. /\ call[Main].pc = "idle" /\ "deleteAll" \in MainCalls
      /\ call' = [call EXCEPT ![Main] = b] /\ UNCHANGED <<fc, holder, freeList, monitor, dwpts>>
  BY DEF StartDeleteAll, poolVars
<1>2. Scalars'
  BY ScalarsNow DEF StartDeleteAll, Scalars, poolVars, stallVars, seqVars, queueVars
<1>3. /\ call \in [Callers -> CallRec] /\ Main \in Callers
      /\ CallOK(Main, call[Main], Len(fc.states)) /\ Len(fc.states) \in Nat
  BY Fields
<1>4. /\ b \in CallRec /\ b.pc = "setAbort" /\ b.dwpt = None /\ b.state = 1
      /\ b.left = Len(fc.states)
  BY <1>3 DEF At, None, CallRec, Pcs, ActiveThreadStateCount
<1> HIDE DEF b
<1>5. CallOK(Main, b, Len(fc.states))
  BY <1>1, <1>3, <1>4 DEF CallOK, MainPcs, FullFlushPcs, Working
<1>6. QuietCall(Main)
  <2>1. call'[Main] = b
    BY <1>1, <1>3
  <2>2. call[Main].dwpt = None
    BY <1>1, <1>3 DEF CallOK
  <2> QED BY <1>1, <1>4, <1>5, <2>1, <2>2 DEF QuietCall
<1> QED BY <1>1, <1>2, <1>3, <1>6, QuietStep

LEMMA SetAbortKeeps ==
  ASSUME FCInv, SetAbort
  PROVE  FCInv'
<1>1. MainGoes("setAbort", "abort") /\ UNCHANGED <<fc, holder, freeList, monitor, dwpts>>
  BY DEF SetAbort, MainGoes
<1>2. Scalars'
  BY ScalarsNow DEF SetAbort, Scalars, stallVars, seqVars, queueVars
<1>3. QuietCall(Main) /\ Main \in Callers
  BY <1>1, MainGoesQuiet, Fields DEF MainPcs, FullFlushPcs
<1> QED BY <1>1, <1>2, <1>3, QuietStep

LEMMA AbortStateKeeps ==
  ASSUME FCInv, AbortState
  PROVE  FCInv'
<1> DEFINE s == call[Main].state
           d == fc.states[s].dwpt
<1>1. /\ call[Main].pc = "abort" /\ s <= call[Main].left /\ holder[s] = NoThread
      /\ holder' = [holder EXCEPT ![s] = Main] /\ fc' = DoOnAbort(fc, s)
      /\ dwpts' = IF d = None THEN dwpts ELSE Finished(d, "aborted")
      /\ UNCHANGED <<freeList, monitor>>
      /\ call' = [call EXCEPT ![Main].state = call[Main].state + 1]
  BY DEF AbortState
<1>2. Scalars'
  BY ScalarsStall DEF AbortState
<1>3. QuietCall(Main) /\ s \in DOMAIN fc.states
  BY <1>1, NextStateQuiet, LoopState
<1>4. /\ Good(fc, dwpts) /\ Held(fc, call, Live) /\ Balanced(fc) /\ dwpts \in Seq(DwptRec)
      /\ holder \in [DOMAIN fc.states -> Callers \cup {NoThread}] /\ Main \in Callers
      /\ CallOK(Main, call[Main], Len(fc.states))
  BY Fields DEF Types
<1> HIDE DEF s
<1>5. /\ Good(fc', dwpts) /\ Excess(fc') = Excess(fc) + One(fc.states[s])
      /\ OnlyAt(fc, fc', s, Uninitialized) /\ SameQueues(fc, fc')
      /\ Blocked(fc') = Blocked(fc) /\ Flushed(fc') = Flushed(fc)
      /\ InStates(fc') = InStates(fc) \ {d}
  BY <1>1, <1>3, <1>4, AbortedState
<1>6. /\ InStates(fc) \cap Blocked(fc) = {} /\ InStates(fc) \cap Flushed(fc) = {}
      /\ Live = InStates(fc) \cup Blocked(fc) \cup Flushed(fc) /\ Live \subseteq DOMAIN dwpts
      /\ None \notin Live
      /\ d # None => d \in InStates(fc)
  BY <1>3, <1>4, GoodFields, NoneNowhere DEF Held
<1> HIDE DEF d
<1>7. /\ dwpts' \in Seq(DwptRec) /\ Live' = Live \ {d}
      /\ \A e \in DOMAIN dwpts \ {d} : dwpts'[e] = dwpts[e]
  <2>1. CASE d = None
    BY <1>1, <1>4, <1>6, <2>1 DEF Live
  <2>2. CASE d # None
    <3>1. d \in DOMAIN dwpts /\ dwpts' = Finished(d, "aborted")
      BY <1>1, <1>6, <2>2
    <3> QED BY <1>4, <3>1, FinishedLive, LiveIsIn
  <2> QED BY <2>1, <2>2
<1>8. Good(fc', dwpts')
  <2>1. \A e \in InStates(fc') : e \in DOMAIN dwpts \ {d}
    BY <1>5, <1>6
  <2>2. \A e \in InStates(fc') : dwpts'[e].docs = 0 => dwpts[e].docs = 0
    BY <1>7, <2>1
  <2> QED BY <1>5, <2>2, GoodTable
<1>9. Held(fc', call', Live')
  <2>1. InQueues(fc') = InQueues(fc)
    BY <1>5 DEF InQueues, SameQueues
  <2>2. Live' = InStates(fc') \cup Blocked(fc') \cup Flushed(fc')
    <3>1. d \notin Blocked(fc) \cup Flushed(fc)
      BY <1>6
    <3> QED BY <1>5, <1>6, <1>7, <3>1
  <2>3. Flushed(fc') \ InQueues(fc') = Flushed(fc) \ InQueues(fc)
    BY <1>5, <2>1
  <2>4. Held(fc', call', InStates(fc') \cup Blocked(fc') \cup Flushed(fc'))
    BY <1>3, <2>3, QuietHeld
  <2> QED BY <2>2, <2>4
<1>10. Balanced(fc')
  <2>1. "deleteAll" \in MainCalls
    BY <1>1, <1>4 DEF CallOK
  <2>2. Excess(fc) \in Nat /\ One(fc.states[s]) \in Nat
    BY <1>4 DEF Balanced, One
  <2> QED BY <1>5, <2>1, <2>2 DEF Balanced
<1>11. Core'
  BY <1>8, <1>9, <1>10 DEF Core
<1>12. DOMAIN fc'.states = DOMAIN fc.states
  BY <1>5 DEF OnlyAt
<1>13. DwptsStay
  <2>1. \A r \in DOMAIN fc.states \ {s} : fc'.states[r].dwpt = fc.states[r].dwpt
    BY <1>5 DEF OnlyAt
  <2> QED BY <1>1, <1>3, <2>1, FreeState
<1>14. HolderStays /\ holder' \in [DOMAIN fc.states -> Callers \cup {NoThread}]
  BY <1>1, <1>3, <1>4, ThreadsAssumption DEF HolderStays
<1>15. Moves(Main)
  BY <1>1, <1>3, QuietMoves
<1> QED BY <1>2, <1>4, <1>7, <1>11, <1>12, <1>13, <1>14, <1>15, MovesChange

LEMMA AbortPendingFlushesKeeps ==
  ASSUME FCInv, AbortPendingFlushes
  PROVE  FCInv'
<1> DEFINE f == AbortPending(fc)
<1>1. /\ MainGoes("abort", "waitAbort") /\ fc' = f
      /\ dwpts' = FinishedTable(PendingDwpts(fc), "aborted")
      /\ UNCHANGED <<holder, freeList, monitor>>
  BY DEF AbortPendingFlushes, MainGoes, poolVars, FinishedTable
<1>2. Scalars'
  BY ScalarsStall DEF AbortPendingFlushes, poolVars
<1>3. QuietCall(Main) /\ Main \in Callers
  BY <1>1, MainGoesQuiet, Fields DEF MainPcs, FullFlushPcs
<1>4. AbortAllResult(f, dwpts')
  BY <1>1, AbortedAll
<1> HIDE DEF f
<1>5. /\ Good(fc', dwpts') /\ Excess(fc') = Excess(fc) /\ fc'.states = fc.states
      /\ Live' = InStates(fc') \cup Blocked(fc') \cup Flushed(fc')
      /\ Flushed(fc') \ InQueues(fc') = Flushed(fc) \ InQueues(fc) /\ dwpts' \in Seq(DwptRec)
  BY <1>1, <1>4, LiveIsIn DEF AbortAllResult
<1>6. Held(fc', call', InStates(fc') \cup Blocked(fc') \cup Flushed(fc'))
  BY <1>3, <1>5, QuietHeld
<1>7. Core'
  BY <1>5, <1>6, Fields, BalancedSame DEF Core
<1>8. Moves(Main)
  BY <1>1, <1>3, QuietMoves
<1> QED BY <1>1, <1>2, <1>3, <1>5, <1>7, <1>8, StatesStay, MovesStep

LEMMA UnlockAllKeeps ==
  ASSUME FCInv, UnlockAll
  PROVE  FCInv'
<1>1. /\ call[Main].pc = "cleared" /\ call' = [call EXCEPT ![Main] = Idle]
      /\ holder' = [s \in DOMAIN holder |-> IF holder[s] = Main THEN NoThread ELSE holder[s]]
      /\ UNCHANGED <<fc, freeList, monitor, dwpts>>
  BY DEF UnlockAll
<1>2. Scalars'
  BY ScalarsNow DEF UnlockAll, Scalars, stallVars, seqVars, queueVars
<1>3. /\ call \in [Callers -> CallRec] /\ Main \in Callers /\ dwpts \in Seq(DwptRec)
      /\ CallOK(Main, call[Main], Len(fc.states)) /\ Len(fc.states) \in Nat
      /\ holder \in [DOMAIN fc.states -> Callers \cup {NoThread}]
      /\ Good(fc, dwpts) /\ Held(fc, call, Live) /\ Balanced(fc)
  BY Fields DEF Types
<1>4. Fresh(Main, Idle)
  BY FreshMain
<1>5. QuietCall(Main)
  <2>1. call'[Main] = Idle
    BY <1>1, <1>3
  <2>2. call[Main].dwpt = None
    BY <1>1, <1>3 DEF CallOK
  <2> QED BY <1>1, <1>3, <1>4, <2>1, <2>2 DEF Fresh, QuietCall
<1>6. HolderStays /\ holder' \in [DOMAIN fc.states -> Callers \cup {NoThread}]
  BY <1>1, <1>3, ThreadsAssumption DEF HolderStays
<1>7. Held(fc, call', Live)
  <2>1. Live = InStates(fc) \cup Blocked(fc) \cup Flushed(fc)
    BY <1>3 DEF Held
  <2> QED BY <1>5, <2>1, QuietHeld
<1>8. Core'
  BY <1>1, <1>3, <1>7 DEF Core, Live
<1>9. Moves(Main)
  BY <1>1, <1>5, QuietMoves
<1> QED BY <1>1, <1>2, <1>3, <1>6, <1>8, <1>9, StatesStay, MovesChange
------------------------------------------------------------------------------
\* The invariant holds

LEMMA NoStates ==
  ASSUME NEW f, f.states = <<>>
  PROVE  StateSum(f, OthersIn(f)) = 0 /\ StateSum(f, PendingIn(f)) = 0 /\ PendingIn(f) = {}
<1> DEFINE g == [s \in {} |-> f.states[s].bytesUsed]
<1>1. PendingIn(f) = {} /\ OthersIn(f) = {}
  BY DEF PendingIn, OthersIn
<1>2. DOMAIN g = {}
  OBVIOUS
<1>3. SumFunctionOnSet(g, {}) = 0
  <2> HIDE DEF g
  <2> QED BY FS_EmptySet, SumFirst
<1>4. StateSum(f, {}) = 0
  BY <1>2, <1>3 DEF StateSum, SumFunction
<1> QED BY <1>1, <1>4

LEMMA InitGood ==
  ASSUME Init
  PROVE  Good(fc, dwpts)
<1>1. fc = [states |-> <<>>, activeBytes |-> 0, flushBytes |-> 0, numPending |-> 0,
            flushingWriters |-> {}, flushQueue |-> <<>>, fullFlushBuffer |-> <<>>,
            blockedFlushes |-> <<>>, fullFlush |-> FALSE]
  BY DEF Init
<1>2. /\ fc.states = <<>> /\ fc.activeBytes = 0 /\ fc.flushBytes = 0
      /\ fc.flushingWriters = {} /\ fc.flushQueue = <<>> /\ fc.fullFlushBuffer = <<>>
      /\ fc.blockedFlushes = <<>>
  BY <1>1
<1>3. Typed(fc)
  BY <1>1, FS_EmptySet DEF Typed, FcRec
<1>4. Range(<<>>) = {} /\ DOMAIN <<>> = {}
  BY DEF Range
<1>5. InStates(fc) = {} /\ Blocked(fc) = {} /\ Flushed(fc) = {}
  BY <1>2, <1>4 DEF InStates, Blocked, Flushed, DwptsOf
<1>6. Separate(fc)
  BY <1>2, <1>4, <1>5 DEF Separate, ByDwpt, Injective
<1>7. Queueing(fc)
  BY <1>2, <1>4, <1>5 DEF Queueing, Injective
<1>8. Shaped(fc, dwpts)
  BY <1>2, <1>4 DEF Shaped
<1>9. Counted(fc)
  <2>1. StateSum(fc, OthersIn(fc)) = 0 /\ StateSum(fc, PendingIn(fc)) = 0
    BY <1>2, NoStates
  <2>2. WriterSum(fc.flushingWriters) = 0 /\ WriterSum(Range(fc.blockedFlushes)) = 0
    BY <1>2, <1>4, WriterSumEmpty
  <2> QED BY <1>2, <2>1, <2>2 DEF Counted
<1> QED BY <1>3, <1>6, <1>7, <1>8, <1>9 DEF Good

LEMMA InitFCInv ==
  ASSUME Init
  PROVE  FCInv
<1>1. /\ fc.states = <<>> /\ fc.numPending = 0 /\ fc.flushingWriters = {}
      /\ fc.flushQueue = <<>> /\ fc.fullFlushBuffer = <<>> /\ fc.blockedFlushes = <<>>
      /\ holder = <<>> /\ freeList = <<>> /\ dwpts = <<>>
      /\ call = [t \in Callers |-> Idle] /\ monitor = NoThread
  BY DEF Init
<1>2. DOMAIN fc.states = {} /\ Range(<<>>) = {} /\ DOMAIN <<>> = {} /\ Len(fc.states) = 0
  BY <1>1 DEF Range
<1>3. Idle \in CallRec
  BY DEF Idle, CallRec, Pcs, None
<1>4. Types
  <2>1. Scalars
    <3>1. /\ aborted = FALSE /\ stalled = FALSE /\ stallWaiters = {} /\ monitor = NoThread
          /\ deleteQueue = 1 /\ currentFullFlushDelQueue = 0 /\ numbered = 0 /\ gap = 0
      BY DEF Init
    <3>2. aborted \in BOOLEAN /\ stalled \in BOOLEAN
      BY <3>1
    <3>3. stallWaiters \subseteq Threads /\ monitor \in {NoThread, Main}
      BY <3>1
    <3>4. deleteQueue \in Nat \ {0} /\ currentFullFlushDelQueue \in Nat /\ numbered \in Nat
          /\ gap \in Nat
      BY <3>1
    <3> QED BY <3>2, <3>3, <3>4 DEF Scalars
  <2>2. holder \in [DOMAIN fc.states -> Callers \cup {NoThread}]
    BY <1>1
  <2>3. freeList \in Seq(DOMAIN fc.states) /\ dwpts \in Seq(DwptRec)
    BY <1>1
  <2>4. call \in [Callers -> CallRec]
    BY <1>1, <1>3
  <2> QED BY <2>1, <2>2, <2>3, <2>4 DEF Types
<1>5. Main \in Callers /\ Main # NoThread /\ Main \notin Threads
  BY ThreadsAssumption DEF Callers
<1>6. \A t \in Callers : call[t] = Idle
  BY <1>1
<1>7. \A t \in Callers : call[t].pc = "idle" /\ call[t].dwpt = None /\ call[t].ctx = "none"
  BY <1>6 DEF Idle
<1>8. Control
  BY <1>1, <1>5, <1>7 DEF Control, CallOK, MainPcs, FullFlushPcs, ThreadPcs, Working
<1>9. Owners
  BY <1>1, <1>2, <1>7 DEF Owners, Working, Injective, Callers
<1>10. Core
  <2>1. Hands(call) = {} /\ OneHand(call)
    BY <1>7 DEF Hands, OneHand
  <2>2. Live = {}
    BY <1>1, <1>2 DEF Live
  <2>3. InStates(fc) = {} /\ Blocked(fc) = {} /\ Flushed(fc) = {}
    BY <1>1, <1>2 DEF InStates, Blocked, Flushed, DwptsOf
  <2>4. Held(fc, call, Live)
    BY <2>1, <2>2, <2>3 DEF Held
  <2>5. Excess(fc) = 0
    BY <1>1, NoStates, FS_EmptySet DEF Excess
  <2> QED BY <2>4, <2>5, InitGood DEF Core, Balanced
<1> QED BY <1>4, <1>8, <1>9, <1>10 DEF FCInv

LEMMA StutterKeeps ==
  ASSUME FCInv, UNCHANGED vars
  PROVE  FCInv'
<1>1. /\ fc' = fc /\ holder' = holder /\ freeList' = freeList /\ monitor' = monitor
      /\ dwpts' = dwpts /\ call' = call
      /\ UNCHANGED <<aborted, stalled, stallWaiters, deleteQueue, currentFullFlushDelQueue,
                     numbered, gap>>
  BY DEF vars
<1>2. Types'
  BY <1>1 DEF FCInv, Types, Scalars
<1>3. Control'
  BY <1>1 DEF FCInv, Control
<1>4. Owners'
  BY <1>1 DEF FCInv, Owners
<1>5. Core'
  BY <1>1 DEF FCInv, Core, Live
<1> QED BY <1>2, <1>3, <1>4, <1>5 DEF FCInv

LEMMA FlushStepsKeep ==
  ASSUME FCInv, NEW t \in Callers, FlushSteps(t)
  PROVE  FCInv'
BY NextPendingFlushKeeps, ScanPendingKeeps, FlushKeeps DEF FlushSteps

LEMMA ThreadStepsKeep ==
  ASSUME FCInv, NEW t \in Threads, ThreadSteps(t)
  PROVE  FCInv'
<1>1. CASE FlushSteps(t)
  BY <1>1, FlushStepsKeep DEF Callers
<1>2. CASE WaitIfStalled(t) \/ WakeUp(t)
  BY <1>2, StallingKeeps
<1>3. CASE Obtain(t)
  BY <1>3, ObtainNewKeeps, ObtainFreeKeeps
<1>4. CASE LockState(t)
  BY <1>4, LockStateKeeps
<1>5. CASE Index(t)
  BY <1>5, IndexKeeps
<1>6. CASE AfterDocument(t)
  BY <1>6, AfterDocumentKeeps
<1>7. CASE Release(t)
  BY <1>7, ReleaseKeeps
<1>8. CASE FindLargest(t)
  BY <1>8, FindLargestKeeps
<1>9. CASE CheckOutLargest(t)
  BY <1>9, CheckOutLargestKeeps
<1> QED BY <1>1, <1>2, <1>3, <1>4, <1>5, <1>6, <1>7, <1>8, <1>9 DEF ThreadSteps

LEMMA MainStepsKeep ==
  ASSUME FCInv, MainSteps
  PROVE  FCInv'
<1>1. CASE FlushSteps(Main)
  BY <1>1, FlushStepsKeep DEF Callers
<1>2. CASE SwapQueue
  BY <1>2, SwapQueueKeeps
<1>3. CASE MarkState
  BY <1>3, MarkStateKeeps
<1>4. CASE EndMark
  BY <1>4, EndMarkKeeps
<1>5. CASE SetFlushingDeleteQueue
  BY <1>5, SetFlushingDeleteQueueKeeps
<1>6. CASE WaitForFlush \/ WaitForAbort
  BY <1>6, WaitingKeeps
<1>7. CASE FinishFullFlush
  BY <1>7, FinishFullFlushKeeps
<1>8. CASE AbortFullFlushes
  BY <1>8, AbortFullFlushesKeeps
<1>9. CASE SetAbort
  BY <1>9, SetAbortKeeps
<1>10. CASE AbortState
  BY <1>10, AbortStateKeeps
<1>11. CASE AbortPendingFlushes
  BY <1>11, AbortPendingFlushesKeeps
<1>12. CASE UnlockAll
  BY <1>12, UnlockAllKeeps
<1> QED BY <1>1, <1>2, <1>3, <1>4, <1>5, <1>6, <1>7, <1>8, <1>9, <1>10, <1>11, <1>12
        DEF MainSteps

LEMMA NextKeeps ==
  ASSUME FCInv, [Next]_vars
  PROVE  FCInv'
<1>1. ASSUME NEW t \in Threads,
             \/ ThreadSteps(t) \/ StartUpdate(t) \/ StartFlushNext(t)
             \/ \E n \in 0 .. 1 : FailDocument(t, n)
      PROVE  FCInv'
  BY <1>1, ThreadStepsKeep, StartUpdateKeeps, StartFlushNextKeeps, FailDocumentKeeps
<1>2. CASE MainSteps
  BY <1>2, MainStepsKeep
<1>3. CASE MarkForFullFlush \/ StartDeleteAll
  BY <1>3, MarkForFullFlushKeeps, StartDeleteAllKeeps
<1>4. CASE UNCHANGED vars
  BY <1>4, StutterKeeps
<1> QED BY <1>1, <1>2, <1>3, <1>4 DEF Next

\* The invariant holds in every state of the flush control.
LEMMA Invariant == Spec => []FCInv
<1>1. Init => FCInv
  BY InitFCInv
<1>2. FCInv /\ [Next]_vars => FCInv'
  BY NextKeeps
<1> QED BY <1>1, <1>2, PTL DEF Spec
------------------------------------------------------------------------------
\* What a run checks, from the invariant

LEMMA AtMostOne ==
  ASSUME NEW S, \A x, y \in S : x = y
  PROVE  Cardinality(S) = IF S = {} THEN 0 ELSE 1
<1>1. CASE S = {}
  BY <1>1, FS_EmptySet
<1>2. CASE S # {}
  <2>1. PICK x \in S : TRUE
    BY <1>2
  <2>2. S = {x}
    BY <2>1
  <2> QED BY <1>2, <2>2, FS_Singleton
<1> QED BY <1>1, <1>2

LEMMA TypesHold ==
  ASSUME FCInv
  PROVE  TypeOK
<1>1. Good(fc, dwpts) /\ Types /\ Scalars
  BY DEF FCInv, Core, Types
<1>2. /\ fc.states \in Seq(StateRec) /\ fc.flushingWriters \subseteq Flushing
      /\ fc.flushQueue \in Seq(Nat) /\ fc.fullFlushBuffer \in Seq(Nat)
      /\ fc.blockedFlushes \in Seq(Flushing) /\ fc \in FcRec /\ Typed(fc)
      /\ WriterSum(fc.flushingWriters) \in Nat /\ WriterSum(Range(fc.blockedFlushes)) \in Nat
      /\ fc.numPending \in Int
  BY <1>1, GoodFields
<1>3. /\ StateSum(fc, PendingIn(fc)) \in Nat /\ StateSum(fc, OthersIn(fc)) \in Nat
      /\ Cardinality(PendingIn(fc)) \in Nat
  BY <1>2, PendingSum
<1>4. fc.activeBytes \in Nat /\ fc.flushBytes \in Nat
  BY <1>1, <1>2, <1>3 DEF Good, Counted
<1>5. fc.numPending \in Nat
  BY <1>2, <1>3 DEF FCInv, Core, Balanced, Excess
<1>6. fc.fullFlush \in BOOLEAN
  BY <1>2 DEF FcRec
<1>7. /\ holder \in [States -> Callers \cup {NoThread}] /\ freeList \in Seq(States)
      /\ dwpts \in Seq(DwptRec) /\ call \in [Callers -> CallRec]
  BY <1>1 DEF Types, States
<1>8. /\ aborted \in BOOLEAN /\ stalled \in BOOLEAN /\ stallWaiters \subseteq Threads
      /\ monitor \in {NoThread, Main}
      /\ deleteQueue \in Nat /\ currentFullFlushDelQueue \in Nat
      /\ numbered \in Nat /\ gap \in Nat
  BY <1>1 DEF Scalars
<1> QED BY <1>2, <1>4, <1>5, <1>6, <1>7, <1>8 DEF TypeOK, DwptRec, CallRec

\* The fields of the flush control have their types: no counter of bytes or of
\* pending ThreadStates ever becomes negative, whatever the limits, the bytes of
\* the documents, and the order in which threads mark, check out, block, abort
\* and flush (DocumentsWriterFlushControl.cpp:106-123, 282-383).
THEOREM Typing == Spec => []TypeOK
<1>1. FCInv => TypeOK
  BY TypesHold
<1> QED BY <1>1, Invariant, PTL

LEMMA BytesCounted ==
  ASSUME FCInv
  PROVE  BytesAreCounted
<1>1. Good(fc, dwpts)
  BY DEF FCInv, Core
<1>2. /\ fc.activeBytes = StateSum(fc, OthersIn(fc))
      /\ fc.flushBytes = StateSum(fc, PendingIn(fc)) + WriterSum(fc.flushingWriters)
                         + WriterSum(Range(fc.blockedFlushes))
  BY <1>1 DEF Good, Counted
<1>3. PendingStates = PendingIn(fc) /\ States \ PendingStates = OthersIn(fc)
  BY DEF PendingStates, PendingIn, OthersIn, States
<1>4. /\ BytesOf(PendingStates) = StateSum(fc, PendingIn(fc))
      /\ BytesOf(States \ PendingStates) = StateSum(fc, OthersIn(fc))
  BY <1>3 DEF BytesOf, StateSum
<1>5. SumFunction([w \in fc.flushingWriters |-> w.bytes]) = WriterSum(fc.flushingWriters)
  BY DEF WriterSum
<1>6. fc.blockedFlushes \in Seq(Flushing) /\ Injective(fc.blockedFlushes)
  BY <1>1, GoodFields DEF Separate
<1>7. SumFunction([i \in DOMAIN fc.blockedFlushes |-> fc.blockedFlushes[i].bytes])
        = WriterSum(Range(fc.blockedFlushes))
  BY <1>6, BlockedBytes
<1> QED BY <1>2, <1>4, <1>5, <1>7 DEF BytesAreCounted

\* The two counters that decide on stalling are the bytes of what they count,
\* in full flushes, failures and deleteAll too.
THEOREM Bytes == Spec => []BytesAreCounted
<1>1. FCInv => BytesAreCounted
  BY BytesCounted
<1> QED BY <1>1, Invariant, PTL

\* numPending never says that nothing is pending while a ThreadState is.
AllPendingCounted == Cardinality(PendingStates) <= fc.numPending

\* A pending ThreadState is always counted, so that nextPendingFlush scans for
\* it; deleteAll may only leave numPending too large (DocumentsWriterFlushControl.cpp:298-315).
THEOREM PendingNeverMissed == Spec => []AllPendingCounted
<1>1. ASSUME FCInv
      PROVE  AllPendingCounted
  <2>1. Typed(fc) /\ fc.numPending \in Int
    BY <1>1, GoodFields DEF FCInv, Core
  <2>2. Cardinality(PendingIn(fc)) \in Nat
    BY <2>1, PendingSum
  <2>3. fc.numPending - Cardinality(PendingIn(fc)) \in Nat
    BY <1>1 DEF FCInv, Core, Balanced, Excess
  <2>4. PendingStates = PendingIn(fc)
    BY DEF PendingStates, PendingIn, States
  <2> QED BY <2>1, <2>2, <2>3, <2>4 DEF AllPendingCounted
<1> QED BY <1>1, Invariant, PTL
\* How often a DWPT is in each place is how the sets of the invariant have it.
LEMMA PlacesCounted ==
  ASSUME FCInv, NEW d \in Live
  PROVE  /\ d # None
         /\ Cardinality(InState(d)) = IF d \in InStates(fc) THEN 1 ELSE 0
         /\ Cardinality(IsBlocked(d)) = IF d \in Blocked(fc) THEN 1 ELSE 0
         /\ Cardinality(IsFlushing(d)) = IF d \in Flushed(fc) THEN 1 ELSE 0
<1>1. Good(fc, dwpts) /\ dwpts \in Seq(DwptRec)
  BY DEF FCInv, Core, Types
<1>2. Separate(fc) /\ fc.states \in Seq(StateRec) /\ fc.blockedFlushes \in Seq(Flushing)
  BY <1>1, GoodFields
<1>3. d # None
  <2>1. d \in DOMAIN dwpts
    BY DEF Live
  <2> QED BY <1>1, <2>1 DEF None
<1>4. Cardinality(InState(d)) = IF d \in InStates(fc) THEN 1 ELSE 0
  <2>1. \A s, r \in InState(d) : s = r
    BY <1>2, <1>3 DEF InState, Separate, States
  <2>2. InState(d) = {} <=> d \notin InStates(fc)
    BY <1>3 DEF InState, InStates, States
  <2> QED BY <2>1, <2>2, AtMostOne
<1>5. Cardinality(IsBlocked(d)) = IF d \in Blocked(fc) THEN 1 ELSE 0
  <2>1. \A i \in DOMAIN fc.blockedFlushes : fc.blockedFlushes[i] \in Range(fc.blockedFlushes)
    BY DEF Range
  <2>2. \A i, j \in IsBlocked(d) : i = j
    BY <1>2, <2>1 DEF IsBlocked, Separate, ByDwpt, Injective
  <2>3. IsBlocked(d) = {} <=> d \notin Blocked(fc)
    BY DEF IsBlocked, Blocked, DwptsOf, Range
  <2> QED BY <2>2, <2>3, AtMostOne
<1>6. Cardinality(IsFlushing(d)) = IF d \in Flushed(fc) THEN 1 ELSE 0
  <2>1. \A v, w \in IsFlushing(d) : v = w
    BY <1>2 DEF IsFlushing, Separate, ByDwpt
  <2>2. IsFlushing(d) = {} <=> d \notin Flushed(fc)
    BY DEF IsFlushing, Flushed, DwptsOf
  <2> QED BY <2>1, <2>2, AtMostOne
<1> QED BY <1>3, <1>4, <1>5, <1>6

LEMMA WaysCounted ==
  ASSUME FCInv, NEW d \in Live
  PROVE  /\ Cardinality(Queued(d)) = IF d \in Range(fc.flushQueue) THEN 1 ELSE 0
         /\ Cardinality(Buffered(d)) = IF d \in Range(fc.fullFlushBuffer) THEN 1 ELSE 0
         /\ Cardinality(InHand(d)) = IF d \in Hands(call) THEN 1 ELSE 0
<1>1. Queueing(fc)
  BY DEF FCInv, Core, Good
<1>2. OneHand(call) /\ d # None
  BY PlacesCounted DEF FCInv, Core, Held
<1>3. Cardinality(Queued(d)) = IF d \in Range(fc.flushQueue) THEN 1 ELSE 0
  <2>1. \A i, j \in Queued(d) : i = j
    BY <1>1 DEF Queued, Queueing, Injective
  <2>2. Queued(d) = {} <=> d \notin Range(fc.flushQueue)
    BY DEF Queued, Range
  <2> QED BY <2>1, <2>2, AtMostOne
<1>4. Cardinality(Buffered(d)) = IF d \in Range(fc.fullFlushBuffer) THEN 1 ELSE 0
  <2>1. \A i, j \in Buffered(d) : i = j
    BY <1>1 DEF Buffered, Queueing, Injective
  <2>2. Buffered(d) = {} <=> d \notin Range(fc.fullFlushBuffer)
    BY DEF Buffered, Range
  <2> QED BY <2>1, <2>2, AtMostOne
<1>5. Cardinality(InHand(d)) = IF d \in Hands(call) THEN 1 ELSE 0
  <2>1. \A t, u \in InHand(d) : t = u
    BY <1>2 DEF InHand, OneHand
  <2>2. InHand(d) = {} <=> d \notin Hands(call)
    BY <1>2 DEF InHand, Hands
  <2> QED BY <2>1, <2>2, AtMostOne
<1> QED BY <1>3, <1>4, <1>5

LEMMA OnePlaceHolds ==
  ASSUME FCInv
  PROVE  OnePlace
<1>1. Good(fc, dwpts) /\ Held(fc, call, Live)
  BY DEF FCInv, Core
<1>2. /\ InStates(fc) \cap Blocked(fc) = {} /\ InStates(fc) \cap Flushed(fc) = {}
      /\ Blocked(fc) \cap Flushed(fc) = {} /\ Queueing(fc)
  BY <1>1, GoodFields
<1>3. /\ Live = InStates(fc) \cup Blocked(fc) \cup Flushed(fc)
      /\ Hands(call) = Flushed(fc) \ InQueues(fc)
  BY <1>1 DEF Held
<1>4. /\ Range(fc.flushQueue) \cap Range(fc.fullFlushBuffer) = {}
      /\ Range(fc.flushQueue) \cup Range(fc.fullFlushBuffer) \subseteq Flushed(fc)
      /\ InQueues(fc) = Range(fc.flushQueue) \cup Range(fc.fullFlushBuffer)
  BY <1>2 DEF Queueing, InQueues
<1>5. ASSUME NEW d \in Live
      PROVE  Cardinality(InState(d)) + Cardinality(IsBlocked(d)) + Cardinality(IsFlushing(d)) = 1
  <2>1. /\ Cardinality(InState(d)) = IF d \in InStates(fc) THEN 1 ELSE 0
        /\ Cardinality(IsBlocked(d)) = IF d \in Blocked(fc) THEN 1 ELSE 0
        /\ Cardinality(IsFlushing(d)) = IF d \in Flushed(fc) THEN 1 ELSE 0
    BY <1>5, PlacesCounted
  <2>2. /\ d \in InStates(fc) \/ d \in Blocked(fc) \/ d \in Flushed(fc)
        /\ ~(d \in InStates(fc) /\ d \in Blocked(fc)) /\ ~(d \in InStates(fc) /\ d \in Flushed(fc))
        /\ ~(d \in Blocked(fc) /\ d \in Flushed(fc))
    BY <1>2, <1>3, <1>5
  <2> QED BY <2>1, <2>2
<1>6. ASSUME NEW d \in Live
      PROVE  Cardinality(Queued(d)) + Cardinality(Buffered(d)) + Cardinality(InHand(d))
                = Cardinality(IsFlushing(d))
  <2>1. /\ Cardinality(Queued(d)) = IF d \in Range(fc.flushQueue) THEN 1 ELSE 0
        /\ Cardinality(Buffered(d)) = IF d \in Range(fc.fullFlushBuffer) THEN 1 ELSE 0
        /\ Cardinality(InHand(d)) = IF d \in Hands(call) THEN 1 ELSE 0
        /\ Cardinality(IsFlushing(d)) = IF d \in Flushed(fc) THEN 1 ELSE 0
    BY <1>6, WaysCounted, PlacesCounted
  <2>2. /\ d \in Hands(call) <=> d \in Flushed(fc) /\ d \notin Range(fc.flushQueue)
                                 /\ d \notin Range(fc.fullFlushBuffer)
        /\ ~(d \in Range(fc.flushQueue) /\ d \in Range(fc.fullFlushBuffer))
        /\ d \in Range(fc.flushQueue) => d \in Flushed(fc)
        /\ d \in Range(fc.fullFlushBuffer) => d \in Flushed(fc)
    BY <1>3, <1>4
  <2> QED BY <2>1, <2>2
<1>7. \A s \in States : fc.states[s].dwpt \in Live \cup {None}
  BY <1>3 DEF States, InStates
<1>8. \A w \in fc.flushingWriters : w.dwpt \in Live
  BY <1>3 DEF Flushed, DwptsOf
<1> QED BY <1>5, <1>6, <1>7, <1>8 DEF OnePlace

\* No DWPT is ever lost, in two places or taken twice: until it is flushed it is
\* in one ThreadState, or blocked, or flushing and then in one queue or in the
\* hands of one thread, whichever way it was taken.
THEOREM Places == Spec => []OnePlace
<1>1. FCInv => OnePlace
  BY OnePlaceHolds
<1> QED BY <1>1, Invariant, PTL
------------------------------------------------------------------------------
\* The stall state

LEMMA StallUpdated ==
  ASSUME UpdateStallState
  PROVE  StalledIsCurrent'
BY DEF UpdateStallState, StalledIsCurrent, StallState, StallLimit

LEMMA StallStays ==
  ASSUME StalledIsCurrent, stalled' = stalled, fc'.activeBytes = fc.activeBytes,
         fc'.flushBytes = fc.flushBytes
  PROVE  StalledIsCurrent'
BY DEF StalledIsCurrent, StallState, StallLimit

LEMMA StallKept ==
  ASSUME StalledIsCurrent, UNCHANGED stallVars, UNCHANGED fc
  PROVE  StalledIsCurrent'
BY StallStays DEF stallVars

LEMMA StallByFlush ==
  ASSUME FCInv, StalledIsCurrent, NEW t \in Callers, FlushSteps(t)
  PROVE  StalledIsCurrent'
<1>1. CASE NextPendingFlush(t)
  <2>1. CASE Polled(fc) # None
    BY <1>1, <2>1, StallUpdated DEF NextPendingFlush
  <2>2. CASE Polled(fc) = None
    <3>1. UNCHANGED stallVars /\ fc' = PollFlush(fc) /\ fc \in FcRec
      BY <1>1, <2>2, GoodFields DEF NextPendingFlush, FCInv, Core
    <3>2. fc'.activeBytes = fc.activeBytes /\ fc'.flushBytes = fc.flushBytes
      BY <3>1 DEF PollFlush, FcRec
    <3> QED BY <3>1, <3>2, StallStays DEF stallVars
  <2> QED BY <2>1, <2>2
<1>2. CASE ScanPending(t)
  BY <1>2, StallUpdated, StallKept DEF ScanPending
<1>3. CASE \E backlog \in BOOLEAN : Flush(t, backlog)
  BY <1>3, StallUpdated DEF Flush
<1> QED BY <1>1, <1>2, <1>3 DEF FlushSteps

LEMMA StallByThread ==
  ASSUME FCInv, StalledIsCurrent, NEW t \in Threads,
         \/ ThreadSteps(t) \/ StartUpdate(t) \/ StartFlushNext(t)
         \/ \E n \in 0 .. 1 : FailDocument(t, n)
  PROVE  StalledIsCurrent'
<1>1. CASE FlushSteps(t)
  BY <1>1, StallByFlush DEF Callers
<1>2. CASE WaitIfStalled(t) \/ WakeUp(t)
  BY <1>2, StallStays DEF WaitIfStalled, WakeUp
<1>3. CASE Obtain(t)
  <2>1. UNCHANGED stallVars /\ fc \in FcRec
    BY <1>3, GoodFields DEF Obtain, FCInv, Core
  <2>2. fc' = fc \/ fc' = [fc EXCEPT !.states = Append(fc.states, Uninitialized)]
    BY <1>3 DEF Obtain
  <2>3. fc'.activeBytes = fc.activeBytes /\ fc'.flushBytes = fc.flushBytes
    BY <2>1, <2>2 DEF FcRec
  <2> QED BY <2>1, <2>3, StallStays DEF stallVars
<1>4. CASE LockState(t)
  <2> DEFINE s == call[t].state
             stale == fc.states[s].dwpt # None /\ Stale(fc.states[s].dwpt)
  <2>1. CASE stale
    BY <1>4, <2>1, StallUpdated DEF LockState
  <2>2. CASE ~stale
    <3>1. UNCHANGED stallVars /\ fc \in FcRec
      BY <1>4, <2>2, GoodFields DEF LockState, FCInv, Core
    <3>2. fc' = fc \/ fc' = [fc EXCEPT !.states[s].dwpt = Len(dwpts')]
      BY <1>4, <2>2 DEF LockState
    <3>3. fc'.activeBytes = fc.activeBytes /\ fc'.flushBytes = fc.flushBytes
      BY <3>1, <3>2 DEF FcRec
    <3> QED BY <3>1, <3>3, StallStays DEF stallVars
  <2> QED BY <2>1, <2>2
<1>5. CASE AfterDocument(t)
  BY <1>5, StallUpdated DEF AfterDocument
<1>6. CASE CheckOutLargest(t)
  BY <1>6, StallUpdated DEF CheckOutLargest
<1>7. CASE Index(t) \/ Release(t) \/ FindLargest(t) \/ StartUpdate(t) \/ StartFlushNext(t)
           \/ \E n \in 0 .. 1 : FailDocument(t, n)
  <2>1. UNCHANGED stallVars /\ UNCHANGED fc
    BY <1>7 DEF Index, Release, FindLargest, StartUpdate, StartFlushNext, FailDocument
  <2> QED BY <2>1, StallKept
<1> QED BY <1>1, <1>2, <1>3, <1>4, <1>5, <1>6, <1>7 DEF ThreadSteps

LEMMA StallByMain ==
  ASSUME FCInv, StalledIsCurrent, MainSteps \/ MarkForFullFlush \/ StartDeleteAll
  PROVE  StalledIsCurrent'
<1>1. CASE FlushSteps(Main)
  BY <1>1, StallByFlush DEF Callers
<1>2. CASE MarkState
  BY <1>2, StallUpdated, StallKept DEF MarkState
<1>3. CASE EndMark \/ FinishFullFlush \/ AbortFullFlushes \/ AbortState \/ AbortPendingFlushes
  BY <1>3, StallUpdated
     DEF EndMark, FinishFullFlush, AbortFullFlushes, EndFullFlush, AbortState, AbortPendingFlushes
<1>4. CASE MarkForFullFlush
  <2>1. UNCHANGED stallVars /\ fc \in FcRec /\ fc' = [fc EXCEPT !.fullFlush = TRUE]
    BY <1>4, GoodFields DEF MarkForFullFlush, FCInv, Core
  <2>2. fc'.activeBytes = fc.activeBytes /\ fc'.flushBytes = fc.flushBytes
    BY <2>1 DEF FcRec
  <2> QED BY <2>1, <2>2, StallStays DEF stallVars
<1>5. CASE SwapQueue \/ SetFlushingDeleteQueue \/ WaitForFlush \/ SetAbort \/ WaitForAbort
           \/ UnlockAll \/ StartDeleteAll
  <2>1. UNCHANGED stallVars /\ UNCHANGED fc
    BY <1>5 DEF SwapQueue, SetFlushingDeleteQueue, WaitForFlush, SetAbort, WaitForAbort,
                UnlockAll, StartDeleteAll
  <2> QED BY <2>1, StallKept
<1> QED BY <1>1, <1>2, <1>3, <1>4, <1>5 DEF MainSteps

\* The stall flag never lags behind the bytes: every operation that changes them
\* passes the state on before it leaves the monitor, so no thread is held up
\* without a reason that lasts (DocumentsWriterFlushControl.cpp:227-240).
THEOREM StallCurrent == Spec => []StalledIsCurrent
<1>1. Init => StalledIsCurrent
  <2>1. ASSUME Init
        PROVE  StalledIsCurrent
    <3>1. fc.activeBytes = 0 /\ fc.flushBytes = 0 /\ stalled = FALSE /\ RamLimit \in Nat
      BY <2>1, LimitsAssumption DEF Init
    <3>2. ~StallState(fc)
      BY <3>1 DEF StallState, StallLimit
    <3> QED BY <3>1, <3>2 DEF StalledIsCurrent
  <2> QED BY <2>1
<1>2. FCInv /\ StalledIsCurrent /\ [Next]_vars => StalledIsCurrent'
  <2>1. ASSUME FCInv, StalledIsCurrent, UNCHANGED vars
        PROVE  StalledIsCurrent'
    BY <2>1, StallKept DEF vars, stallVars
  <2> QED BY <2>1, StallByThread, StallByMain DEF Next
<1> QED BY <1>1, <1>2, Invariant, PTL DEF Spec
==============================================================================
