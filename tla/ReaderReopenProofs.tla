-------------------------- MODULE ReaderReopenProofs --------------------------
(***************************************************************************)
(* Near-real-time readers for any number of threads: no reader is used     *)
(* after it was closed, a refresh never goes back, and who has waited for  *)
(* a change sees it.                                                       *)
(***************************************************************************)
EXTENDS ReaderReopen, FiniteSetTheorems, SequenceTheorems, TLAPS

\* Who has a reader, and who has one to publish
ReadersPlaced ==
  \A a \in Actors :
    /\ at[a] \in Using => ref[a] # 0
    /\ ref[a] # 0 => at[a] \in Using \cup Acquiring
    /\ fresh[a] # 0 <=> at[a] = "swap"

\* While a thread refreshes, the current reader is the one it started from, or the
\* manager has been closed; what it is about to publish is newer.
RefreshAhead ==
  \A a \in Actors :
    /\ at[a] \in {"refreshAcquire", "refresh", "swap"} /\ ref[a] # 0 => current \in {0, ref[a]}
    /\ at[a] = "swap" => readers[fresh[a]].gen > readers[ref[a]].gen

\* How the generations follow each other from the reopen thread to those who wait,
\* as long as every refresh is its own and succeeds
GensFollow ==
  /\ refreshStartGen <= gen
  /\ \A t \in Threads : at[t] = "join" => finish
  /\ ~spoiled /\ ~finish =>
       /\ current # 0 => readers[current].gen >= searchingGen
       /\ at[Reopener] \in {"release", "refreshed"} =>
            current = 0 \/ readers[current].gen >= refreshStartGen
       /\ at[Reopener] = "swap" => readers[fresh[Reopener]].gen >= refreshStartGen
       /\ at[Reopener] \in {"releaseFailed", "refreshFailed"} => current = 0
       /\ \A t \in Threads :
            /\ at[t] = "acquire" => current = 0 \/ readers[current].gen >= target[t]
            /\ at[t] \in {"acquire", "searching"} /\ ref[t] # 0 => readers[ref[t]].gen >= target[t]

Inv == TypeOK /\ ReadersCounted /\ ReadersPlaced /\ RefreshAhead /\ GensFollow

-----------------------------------------------------------------------------
\* The readers as a sequence.

LEMMA ReadersType ==
  ASSUME readers \in Seq(Reader)
  PROVE  /\ Len(readers) \in Nat /\ DOMAIN readers = 1 .. Len(readers)
         /\ \A r \in 1 .. Len(readers) : /\ readers[r] \in Reader
              /\ readers[r].gen \in 0 .. MaxGen /\ readers[r].count \in Nat /\ readers[r].open \in BOOLEAN
<1>1. \A r \in 1 .. Len(readers) : readers[r] \in Reader
  BY ElementOfSeq
<1> QED BY <1>1, LenProperties DEF Reader

\* One reader is counted anew, the others stay.
LEMMA DecRefProperties ==
  ASSUME NEW rs \in Seq(Reader), NEW r \in 1 .. Len(rs), rs[r].count > 0
  PROVE  /\ DecRef(rs, r) \in Seq(Reader) /\ Len(DecRef(rs, r)) = Len(rs)
         /\ \A q \in 1 .. Len(rs) :
              /\ DecRef(rs, r)[q].gen = rs[q].gen
              /\ DecRef(rs, r)[q].count = IF q = r THEN rs[q].count - 1 ELSE rs[q].count
              /\ DecRef(rs, r)[q].open <=> IF q = r THEN rs[q].count > 1 ELSE rs[q].open
<1> DEFINE new == DecRef(rs, r)
<1>1. rs[r] \in Reader /\ rs \in [1 .. Len(rs) -> Reader] /\ Len(rs) \in Nat
  BY ElementOfSeq, LenProperties
<1>2. new = [q \in 1 .. Len(rs) |->
               IF q = r THEN [gen |-> rs[r].gen, count |-> rs[r].count - 1, open |-> rs[r].count > 1]
               ELSE rs[q]]
  BY <1>1 DEF DecRef
<1>3. [gen |-> rs[r].gen, count |-> rs[r].count - 1, open |-> rs[r].count > 1] \in Reader
  BY <1>1 DEF Reader
<1> HIDE DEF new
<1>4. new \in [1 .. Len(rs) -> Reader]
  BY <1>1, <1>2, <1>3
<1>5. new \in Seq(Reader)
  BY <1>1, <1>4, SeqDef
<1>6. Len(new) = Len(rs)
  BY <1>1, <1>4, <1>5, LenProperties
<1>7. \A q \in 1 .. Len(rs) :
         /\ new[q].gen = rs[q].gen
         /\ new[q].count = IF q = r THEN rs[q].count - 1 ELSE rs[q].count
         /\ new[q].open <=> IF q = r THEN rs[q].count > 1 ELSE rs[q].open
  BY <1>1, <1>2 DEF Reader
<1> QED BY <1>5, <1>6, <1>7 DEF new

Raised(rs, r) == [rs EXCEPT ![r].count = @ + 1]

LEMMA RaisedProperties ==
  ASSUME NEW rs \in Seq(Reader), NEW r \in 1 .. Len(rs)
  PROVE  /\ Raised(rs, r) \in Seq(Reader) /\ Len(Raised(rs, r)) = Len(rs)
         /\ \A q \in 1 .. Len(rs) :
              /\ Raised(rs, r)[q].gen = rs[q].gen
              /\ Raised(rs, r)[q].count = IF q = r THEN rs[q].count + 1 ELSE rs[q].count
              /\ Raised(rs, r)[q].open = rs[q].open
<1> DEFINE new == Raised(rs, r)
<1>0. new = [rs EXCEPT ![r].count = @ + 1]
  BY DEF Raised
<1> HIDE DEF new
<1>1. rs[r] \in Reader /\ rs \in [1 .. Len(rs) -> Reader] /\ Len(rs) \in Nat
  BY ElementOfSeq, LenProperties
<1>2. new \in [1 .. Len(rs) -> Reader]
  BY <1>0, <1>1 DEF Reader
<1>3. new \in Seq(Reader)
  BY <1>1, <1>2, SeqDef
<1>4. Len(new) = Len(rs)
  BY <1>1, <1>2, <1>3, LenProperties
<1>5. \A q \in 1 .. Len(rs) :
         /\ new[q].gen = rs[q].gen
         /\ new[q].count = IF q = r THEN rs[q].count + 1 ELSE rs[q].count
         /\ new[q].open = rs[q].open
  BY <1>0, <1>1 DEF Reader
<1> QED BY <1>3, <1>4, <1>5 DEF new

LEMMA NewReaderProperties ==
  ASSUME TypeOK, NEW new, new = Append(readers, [gen |-> gen, count |-> 1, open |-> TRUE])
  PROVE  /\ new \in Seq(Reader) /\ Len(new) = Len(readers) + 1
         /\ \A q \in 1 .. Len(readers) : new[q] = readers[q]
         /\ new[Len(readers) + 1] = [gen |-> gen, count |-> 1, open |-> TRUE]
<1>1. [gen |-> gen, count |-> 1, open |-> TRUE] \in Reader /\ readers \in Seq(Reader)
  BY DEF TypeOK, Reader
<1> QED BY <1>1, AppendProperties

-----------------------------------------------------------------------------
\* Who counts is counted.

LEMMA ActorsFinite == IsFiniteSet(Actors) /\ Reopener \in Actors /\ Threads \subseteq Actors
                      /\ Reopener \notin Threads /\ None \notin Actors
  BY ThreadsAssumption, ReaderReopenAssumption, FS_AddElement DEF Actors

LEMMA UsersFinite ==
  ASSUME NEW r
  PROVE  /\ IsFiniteSet(Users(r)) /\ IsFiniteSet(Publishers(r))
         /\ Cardinality(Users(r)) \in Nat /\ Cardinality(Publishers(r)) \in Nat
<1>1. Users(r) \in SUBSET Actors /\ Publishers(r) \in SUBSET Actors
  BY DEF Users, Publishers
<1> QED BY <1>1, ActorsFinite, FS_Subset, FS_CardinalityType

\* One element more or less
LEMMA OneMore ==
  ASSUME NEW S, NEW x, IsFiniteSet(S), x \notin S
  PROVE  Cardinality(S \cup {x}) = Cardinality(S) + 1 /\ Cardinality(S) \in Nat
  BY FS_AddElement, FS_CardinalityType

LEMMA OneLess ==
  ASSUME NEW S, NEW x, IsFiniteSet(S), x \in S
  PROVE  Cardinality(S \ {x}) = Cardinality(S) - 1 /\ Cardinality(S) \in Nat /\ Cardinality(S) > 0
<1>1. Cardinality(S) \in Nat /\ Cardinality(S \ {x}) = Cardinality(S) - 1 /\ IsFiniteSet(S \ {x})
  BY FS_RemoveElement, FS_CardinalityType
<1>2. Cardinality(S \ {x}) \in Nat
  BY <1>1, FS_CardinalityType
<1> QED BY <1>1, <1>2

\* A reader that is used, about to be published or current has a count.
LEMMA UsedIsCounted ==
  ASSUME TypeOK, ReadersCounted, NEW r \in 1 .. Len(readers),
         \/ current = r \/ \E a \in Actors : ref[a] = r /\ at[a] \in Using
         \/ \E a \in Actors : fresh[a] = r
  PROVE  readers[r].count > 0
<1>1. readers \in Seq(Reader)
  BY DEF TypeOK
<1>2. DOMAIN readers = 1 .. Len(readers)
  BY <1>1, LenProperties
<1>3. /\ Cardinality(Users(r)) \in Nat /\ Cardinality(Publishers(r)) \in Nat
      /\ readers[r].count = Cardinality(Users(r)) + Cardinality(Publishers(r))
                            + (IF current = r THEN 1 ELSE 0)
  BY <1>2, UsersFinite DEF ReadersCounted
<1>4. CASE current = r
  BY <1>3, <1>4
<1>5. ASSUME NEW a \in Actors, ref[a] = r /\ at[a] \in Using
      PROVE  readers[r].count > 0
  <2>1. a \in Users(r)
    BY <1>5 DEF Users
  <2>2. Cardinality(Users(r)) > 0
    BY <2>1, UsersFinite, OneLess
  <2> QED BY <1>3, <2>2
<1>6. ASSUME NEW a \in Actors, fresh[a] = r
      PROVE  readers[r].count > 0
  <2>1. a \in Publishers(r)
    BY <1>6 DEF Publishers
  <2>2. Cardinality(Publishers(r)) > 0
    BY <2>1, UsersFinite, OneLess
  <2> QED BY <1>3, <2>2
<1> QED BY <1>4, <1>5, <1>6

-----------------------------------------------------------------------------
\* The types and places.

LEMMA InitInv == Init => Inv
<1> SUFFICES ASSUME Init PROVE Inv
  OBVIOUS
<1> USE ActorsFinite, BoundsAssumption, ReaderReopenAssumption
<1>1. readers \in Seq(Reader) /\ Len(readers) = 1 /\ readers[1] = [gen |-> 0, count |-> 1, open |-> TRUE]
  BY DEF Init, Reader
<1>2. TypeOK
  <2>1. at \in [Actors -> Places] /\ \A a \in Actors : at[a] \notin Refreshing
    BY DEF Init, Places, Refreshing
  <2>2. /\ ref \in [Actors -> 0 .. 1] /\ fresh \in [Actors -> 0 .. 1] /\ refreshLock = None
        /\ target \in [Threads -> 0 .. MaxGen] /\ calls \in [Threads -> 0 .. MaxCalls]
    BY DEF Init
  <2>3. /\ gen = 0 /\ current = 1 /\ searchingGen = 0 /\ refreshStartGen = 0 /\ finish = FALSE
        /\ fails = 0 /\ spoiled = FALSE
    BY DEF Init
  <2>4. /\ gen \in 0 .. MaxGen /\ searchingGen \in 0 .. Forever /\ refreshStartGen \in 0 .. MaxGen
        /\ fails \in 0 .. MaxFails
    BY <2>3 DEF Forever
  <2>5. finish \in BOOLEAN /\ spoiled \in BOOLEAN /\ takenBack \in BOOLEAN
    BY <2>3 DEF Init
  <2>6. /\ readers \in Seq(Reader) /\ current \in 0 .. Len(readers)
        /\ ref \in [Actors -> 0 .. Len(readers)] /\ fresh \in [Actors -> 0 .. Len(readers)]
    BY <1>1, <2>2, <2>3
  <2> QED BY <2>1, <2>2, <2>4, <2>5, <2>6 DEF TypeOK
<1>3. ReadersPlaced /\ RefreshAhead /\ GensFollow
  BY <1>1 DEF Init, ReadersPlaced, RefreshAhead, GensFollow, Using, Actors
<1>4. ReadersCounted
  <2>1. DOMAIN readers = {1}
    BY <1>1 DEF Init
  <2>2. Users(1) = {} /\ Publishers(1) = {}
    BY DEF Init, Users, Publishers
  <2>3. Cardinality({}) = 0 /\ current = 1
    BY FS_EmptySet DEF Init
  <2>4. readers[1].count = 1 /\ readers[1].open = TRUE
    BY <1>1
  <2> QED BY <2>1, <2>2, <2>3, <2>4 DEF ReadersCounted
<1> QED BY <1>2, <1>3, <1>4 DEF Inv

\* A step that counts nobody anew
LEMMA CountsStay ==
  ASSUME ReadersCounted, UNCHANGED <<readers, current>>,
         \A r \in DOMAIN readers : Users(r)' = Users(r) /\ Publishers(r)' = Publishers(r)
  PROVE  ReadersCounted'
  BY DEF ReadersCounted

\* The steps that leave the readers and those who use them alone.

\* A thread that has no reader moves to a place without one.
LEMMA Moves ==
  ASSUME Inv, NEW a \in Actors, NEW place \in Places \ Using, at[a] \notin Using \cup Acquiring,
         at' = [at EXCEPT ![a] = place], UNCHANGED <<readers, current, ref, fresh>>
  PROVE  at' \in [Actors -> Places] /\ ReadersCounted' /\ ReadersPlaced' /\ RefreshAhead'
<1>1. /\ at \in [Actors -> Places] /\ ref[a] = 0 /\ place \notin Using /\ at[a] \notin Using
      /\ at[a] # "swap" /\ place # "swap"
  BY DEF Inv, TypeOK, ReadersPlaced, Using
<1>2. at' \in [Actors -> Places]
  BY <1>1
<1>3. at'[a] = place /\ \A b \in Actors \ {a} : at'[b] = at[b]
  BY <1>1
<1>4. ReadersPlaced'
  BY <1>1, <1>3 DEF Inv, ReadersPlaced
<1>5. ReadersCounted'
  <2>1. \A r : Users(r)' = Users(r) /\ Publishers(r)' = Publishers(r)
    BY <1>1, <1>3 DEF Users, Publishers
  <2> QED BY <2>1, CountsStay DEF Inv
<1>6. RefreshAhead'
  BY <1>1, <1>3 DEF Inv, RefreshAhead
<1> QED BY <1>2, <1>4, <1>5, <1>6

LEMMA EnsureOpenAndLockStep == ASSUME Inv, NEW a \in Actors, EnsureOpenAndLock(a) PROVE Inv'
<1> USE ActorsFinite, BoundsAssumption
<1>1. /\ at[a] = "maybeRefresh"
      /\ UNCHANGED <<gen, readers, current, searchingGen, refreshStartGen, finish, ref, fresh, target,
                      calls, fails, spoiled, takenBack>>
  BY DEF EnsureOpenAndLock, reopen, history
<1>2. PICK place \in {"idle", "died", "refreshAcquire"} :
        /\ at' = [at EXCEPT ![a] = place]
        /\ refreshLock' = IF place = "refreshAcquire" THEN a ELSE refreshLock
        /\ place = "refreshAcquire" => refreshLock = None
        /\ place = "died" => a = Reopener
  BY DEF EnsureOpenAndLock, Goto, AfterFailure, RefreshLockFree
<1>3. at' \in [Actors -> Places] /\ ReadersCounted' /\ ReadersPlaced' /\ RefreshAhead'
  BY <1>1, <1>2, Moves DEF Places, Refreshing, Using, Acquiring
<1>4. TypeOK'
  <2>1. \A b \in Actors : at'[b] \in Refreshing <=> refreshLock' = b
    BY <1>1, <1>2 DEF Inv, TypeOK, Refreshing
  <2> QED BY <1>1, <1>2, <1>3, <2>1 DEF Inv, TypeOK
<1>5. GensFollow'
  BY <1>1, <1>2 DEF Inv, TypeOK, GensFollow
<1> QED BY <1>3, <1>4, <1>5 DEF Inv

LEMMA RefreshDoneStep == ASSUME Inv, NEW a \in Actors, RefreshDone(a) PROVE Inv'
<1> USE ActorsFinite, BoundsAssumption
<1>1. /\ at[a] \in {"refreshed", "refreshFailed"}
      /\ UNCHANGED <<gen, readers, current, refreshLock, refreshStartGen, finish, ref, fresh, target,
                      calls, fails>>
      /\ searchingGen' = refreshStartGen /\ spoiled' = (spoiled \/ a \in Threads)
      /\ takenBack' = (takenBack \/ searchingGen = Forever)
  BY DEF RefreshDone, manager
<1>2. PICK place \in {"unlock", "unlockFailed"} :
        at' = [at EXCEPT ![a] = place] /\ (place = "unlock" <=> at[a] = "refreshed")
  BY <1>1 DEF RefreshDone, Goto
<1>3. at' \in [Actors -> Places] /\ ReadersCounted' /\ ReadersPlaced' /\ RefreshAhead'
  BY <1>1, <1>2, Moves DEF Places, Refreshing, Using, Acquiring
<1>4. TypeOK'
  <2>1. \A b \in Actors : at'[b] \in Refreshing <=> refreshLock' = b
    BY <1>1, <1>2 DEF Inv, TypeOK, Refreshing
  <2>2. searchingGen' \in 0 .. Forever /\ spoiled' \in BOOLEAN /\ takenBack' \in BOOLEAN
    BY <1>1 DEF Inv, TypeOK, Forever
  <2> QED BY <1>1, <1>3, <2>1, <2>2 DEF Inv, TypeOK
<1>5. GensFollow'
  <2>1. at \in [Actors -> Places]
    BY DEF Inv, TypeOK
  <2>2. CASE a = Reopener
    BY <1>1, <1>2, <2>1, <2>2 DEF Inv, GensFollow
  <2>3. CASE a \in Threads
    BY <1>1, <1>2, <2>1, <2>3 DEF Inv, GensFollow
  <2> QED BY <2>2, <2>3 DEF Actors
<1> QED BY <1>3, <1>4, <1>5 DEF Inv

LEMMA UnlockStep == ASSUME Inv, NEW a \in Actors, Unlock(a) PROVE Inv'
<1> USE ActorsFinite, BoundsAssumption
<1>1. /\ at[a] \in {"unlock", "unlockFailed"} /\ refreshLock' = None
      /\ UNCHANGED <<gen, readers, current, searchingGen, refreshStartGen, finish, ref, fresh, target,
                      calls, fails, spoiled, takenBack>>
  BY DEF Unlock, reopen, history
<1>2. PICK place \in {"idle", "sleep", "died"} : at' = [at EXCEPT ![a] = place]
  BY DEF Unlock, Goto, AfterRefresh, AfterFailure
<1>3. at' \in [Actors -> Places] /\ ReadersCounted' /\ ReadersPlaced' /\ RefreshAhead'
  BY <1>1, <1>2, Moves DEF Places, Refreshing, Using, Acquiring
<1>4. TypeOK'
  <2>1. \A b \in Actors : at'[b] \notin Refreshing
    BY <1>1, <1>2 DEF Inv, TypeOK, Refreshing
  <2> QED BY <1>1, <1>3, <2>1 DEF Inv, TypeOK
<1>5. GensFollow'
  BY <1>1, <1>2 DEF Inv, TypeOK, GensFollow
<1> QED BY <1>3, <1>4, <1>5 DEF Inv

LEMMA RunStep == ASSUME Inv, Run PROVE Inv'
<1> USE ActorsFinite, BoundsAssumption
<1>1. /\ at[Reopener] = "sleep"
      /\ UNCHANGED <<gen, readers, current, refreshLock, searchingGen, finish, ref, fresh, target, calls,
                      fails, spoiled, takenBack>>
  BY DEF Run, manager, history
<1>2. PICK place \in {"finished", "maybeRefresh"} :
        /\ at' = [at EXCEPT ![Reopener] = place]
        /\ refreshStartGen' = IF place = "finished" THEN refreshStartGen ELSE gen
  BY DEF Run, Goto, MaxCompletedGen
<1>3. at' \in [Actors -> Places] /\ ReadersCounted' /\ ReadersPlaced' /\ RefreshAhead'
  BY <1>1, <1>2, Moves DEF Places, Refreshing, Using, Acquiring
<1>4. TypeOK'
  <2>1. \A b \in Actors : at'[b] \in Refreshing <=> refreshLock' = b
    BY <1>1, <1>2 DEF Inv, TypeOK, Refreshing
  <2> QED BY <1>1, <1>2, <1>3, <2>1 DEF Inv, TypeOK
<1>5. GensFollow'
  BY <1>1, <1>2 DEF Inv, TypeOK, GensFollow
<1> QED BY <1>3, <1>4, <1>5 DEF Inv

\* The steps of an application's thread between its calls
LEMMA CallSteps ==
  ASSUME Inv, NEW t \in Threads,
         \/ Index(t) \/ StartRefresh(t) \/ Finish(t) \/ WaitForGeneration(t) \/ WaitTimesOut(t)
         \/ Joined(t)
  PROVE  Inv'
<1> USE ActorsFinite, BoundsAssumption
<1> DEFINE Kept == /\ UNCHANGED <<readers, current, refreshLock, refreshStartGen, ref, fresh, fails, spoiled>>
                   /\ takenBack' \in BOOLEAN
<1>1. ASSUME NEW place \in Places \ (Using \cup Refreshing), at' = [at EXCEPT ![t] = place], Kept,
             at[t] \in {"idle", "waiting", "join"},
             gen' \in 0 .. MaxGen, searchingGen' \in 0 .. Forever, finish' \in BOOLEAN,
             target' \in [Threads -> 0 .. MaxGen], calls' \in [Threads -> 0 .. MaxCalls], GensFollow'
      PROVE  Inv'
  <2>1. at' \in [Actors -> Places] /\ ReadersCounted' /\ ReadersPlaced' /\ RefreshAhead'
    BY <1>1, Moves DEF Using, Acquiring
  <2>2. \A b \in Actors : at'[b] \in Refreshing <=> refreshLock' = b
    BY <1>1 DEF Inv, TypeOK, Refreshing
  <2>3. TypeOK'
    BY <1>1, <2>1, <2>2 DEF Inv, TypeOK
  <2> QED BY <1>1, <2>1, <2>3 DEF Inv
<1>2. /\ at \in [Actors -> Places] /\ gen \in 0 .. MaxGen /\ searchingGen \in 0 .. Forever
      /\ finish \in BOOLEAN /\ target \in [Threads -> 0 .. MaxGen] /\ calls \in [Threads -> 0 .. MaxCalls]
      /\ refreshStartGen \in 0 .. MaxGen /\ Forever \in Nat
  BY DEF Inv, TypeOK, Forever
<1>3. Call(t) => calls' \in [Threads -> 0 .. MaxCalls]
  BY <1>2 DEF Call
<1>4. {"idle", "waiting", "acquire", "join", "maybeRefresh"} \subseteq Places \ (Using \cup Refreshing)
  BY DEF Places, Using, Refreshing
<1>5. current # 0 => readers[current].gen \in Int
  BY ReadersType DEF Inv, TypeOK
<1>6. at[t] \in {"idle", "waiting", "join"} => ref[t] = 0
  BY DEF Inv, ReadersPlaced, Using, Acquiring
<1>0. takenBack \in BOOLEAN
  BY DEF Inv, TypeOK
<1>7. CASE Index(t)
  <2>1. /\ at[t] = "idle" /\ gen < MaxGen /\ gen' = gen + 1 /\ target' = [target EXCEPT ![t] = gen + 1]
        /\ at' = [at EXCEPT ![t] = "waiting"]
        /\ Kept /\ UNCHANGED <<searchingGen, finish, calls>>
    BY <1>0, <1>7 DEF Index, Goto, manager, reopen, history
  <2>2. GensFollow'
    BY <1>2, <1>6, <2>1 DEF Inv, GensFollow
  <2>3. gen' \in 0 .. MaxGen /\ target' \in [Threads -> 0 .. MaxGen]
    BY <1>2, <2>1
  <2> QED BY <1>1, <1>2, <1>4, <2>1, <2>2, <2>3
<1>8. CASE StartRefresh(t)
  <2>1. /\ at[t] = "idle" /\ at' = [at EXCEPT ![t] = "maybeRefresh"] /\ Call(t)
        /\ Kept /\ UNCHANGED <<gen, target, searchingGen, finish>>
    BY <1>0, <1>8 DEF StartRefresh, Goto, manager, reopen
  <2>2. GensFollow'
    BY <1>2, <2>1 DEF Inv, GensFollow
  <2> QED BY <1>1, <1>2, <1>3, <1>4, <2>1, <2>2
<1>9. CASE Finish(t)
  <2>1. /\ at[t] = "idle" /\ at' = [at EXCEPT ![t] = "join"] /\ Call(t) /\ finish' = TRUE
        /\ Kept /\ UNCHANGED <<gen, target, searchingGen>>
    BY <1>0, <1>9 DEF Finish, Goto, manager
  <2>2. GensFollow'
    BY <1>2, <2>1 DEF Inv, GensFollow
  <2> QED BY <1>1, <1>2, <1>3, <1>4, <2>1, <2>2
<1>10. CASE WaitForGeneration(t)
  <2>1. /\ at[t] = "waiting" /\ at' = [at EXCEPT ![t] = "acquire"] /\ target[t] <= searchingGen
        /\ Kept /\ UNCHANGED <<gen, target, searchingGen, finish, calls>>
    BY <1>0, <1>10 DEF WaitForGeneration, Goto, manager, reopen, history
  <2>2. target[t] \in Int /\ searchingGen \in Int
    BY <1>2
  <2>3. ~spoiled /\ ~finish => current = 0 \/ readers[current].gen >= target[t]
    BY <1>5, <2>1, <2>2 DEF Inv, GensFollow
  <2>4. GensFollow'
    BY <1>2, <1>6, <2>1, <2>3 DEF Inv, GensFollow
  <2> QED BY <1>1, <1>2, <1>4, <2>1, <2>4
<1>11. CASE WaitTimesOut(t)
  <2>1. /\ at[t] = "waiting" /\ at' = [at EXCEPT ![t] = "acquire"] /\ Call(t)
        /\ target' = [target EXCEPT ![t] = 0]
        /\ Kept /\ UNCHANGED <<gen, searchingGen, finish>>
    BY <1>0, <1>11 DEF WaitTimesOut, Goto, manager, reopen
  <2>2. current = 0 \/ readers[current].gen >= 0
    <3>1. current \in 0 .. Len(readers) /\ readers \in Seq(Reader)
      BY DEF Inv, TypeOK
    <3> QED BY <3>1, ReadersType
  <2>3. GensFollow'
    BY <1>2, <1>6, <2>1, <2>2 DEF Inv, GensFollow
  <2>4. target' \in [Threads -> 0 .. MaxGen]
    BY <1>2, <2>1
  <2> QED BY <1>1, <1>2, <1>3, <1>4, <2>1, <2>3, <2>4
<1>12. CASE Joined(t)
  <2>1. /\ at[t] = "join" /\ at' = [at EXCEPT ![t] = "idle"] /\ searchingGen' = Forever
        /\ Kept /\ UNCHANGED <<gen, target, finish, calls>>
    BY <1>0, <1>12 DEF Joined, Goto, manager, history, ReleaseWaiting
  <2>2. finish
    BY <2>1 DEF Inv, GensFollow
  <2>3. GensFollow'
    BY <1>2, <2>1, <2>2 DEF Inv, GensFollow
  <2>4. searchingGen' \in 0 .. Forever
    BY <1>2, <2>1
  <2> QED BY <1>1, <1>2, <1>4, <2>1, <2>3, <2>4
<1> QED BY <1>7, <1>8, <1>9, <1>10, <1>11, <1>12

-----------------------------------------------------------------------------
\* The steps that count.

\* What a reader's count has to be
Counts(r) == Cardinality(Users(r)) + Cardinality(Publishers(r)) + (IF current = r THEN 1 ELSE 0)

\* A count that is given back by the one who had it
LEMMA CountReleased ==
  ASSUME TypeOK, ReadersCounted, NEW r \in 1 .. Len(readers), readers[r].count > 0,
         readers' = DecRef(readers, r),
         \A q \in 1 .. Len(readers) : Counts(q)' = IF q = r THEN Counts(q) - 1 ELSE Counts(q)
  PROVE  /\ readers' \in Seq(Reader) /\ Len(readers') = Len(readers)
         /\ \A q \in 1 .. Len(readers) : readers'[q].gen = readers[q].gen
         /\ ReadersCounted'
<1>1. readers \in Seq(Reader)
  BY DEF TypeOK
<1>2. /\ DecRef(readers, r) \in Seq(Reader) /\ Len(DecRef(readers, r)) = Len(readers)
      /\ \A q \in 1 .. Len(readers) :
           /\ DecRef(readers, r)[q].gen = readers[q].gen
           /\ DecRef(readers, r)[q].count = IF q = r THEN readers[q].count - 1 ELSE readers[q].count
           /\ DecRef(readers, r)[q].open <=> IF q = r THEN readers[q].count > 1 ELSE readers[q].open
  BY <1>1, DecRefProperties
<1>3. DOMAIN readers = 1 .. Len(readers) /\ DOMAIN readers' = 1 .. Len(readers)
  BY <1>1, <1>2, LenProperties
<1>4. ASSUME NEW q \in 1 .. Len(readers)
      PROVE  readers'[q].count = Counts(q)' /\ (readers'[q].open <=> readers'[q].count > 0)
  <2>1. readers[q].count = Counts(q) /\ (readers[q].open <=> readers[q].count > 0)
    BY <1>3 DEF ReadersCounted, Counts
  <2>2. readers[q].count \in Nat /\ readers[r].count \in Nat
    BY <1>1, ReadersType
  <2>3. CASE q = r
    BY <1>2, <2>1, <2>2, <2>3
  <2>4. CASE q # r
    BY <1>2, <2>1, <2>4
  <2> QED BY <2>3, <2>4
<1> QED BY <1>2, <1>3, <1>4 DEF ReadersCounted, Counts

LEMMA ReadCurrentStep == ASSUME Inv, NEW a \in Actors, ReadCurrent(a) PROVE Inv'
<1> USE ActorsFinite, BoundsAssumption, ReaderReopenAssumption
<1>1. /\ UNCHANGED <<gen, readers, current, refreshLock, searchingGen, refreshStartGen, finish, fresh,
                      target, calls, fails, spoiled, takenBack>>
      /\ ref' = [ref EXCEPT ![a] = current] /\ at[a] \in Acquiring /\ ref[a] = 0
  BY DEF ReadCurrent, manager, reopen, history
<1>2. \/ current # 0 /\ at' = at
      \/ current = 0 /\ at[a] = "acquire" /\ at' = [at EXCEPT ![a] = "idle"]
      \/ current = 0 /\ at[a] = "refreshAcquire" /\ at' = [at EXCEPT ![a] = "unlockFailed"]
  BY DEF ReadCurrent, Goto, Acquiring
<1>3. TypeOK'
  BY <1>1, <1>2 DEF Inv, TypeOK, Places, Refreshing, Using
<1>4. at \in [Actors -> Places] /\ ref \in [Actors -> 0 .. Len(readers)]
  BY DEF Inv, TypeOK
<1>5. ReadersPlaced'
  BY <1>1, <1>2, <1>4 DEF Inv, ReadersPlaced, Using, Acquiring
<1>6. ReadersCounted'
  <2>1. \A b \in Actors, r \in DOMAIN readers :
           (ref'[b] = r /\ at'[b] \in Using) <=> (ref[b] = r /\ at[b] \in Using)
    BY <1>1, <1>2, <1>4 DEF Using, Acquiring
  <2>2. \A r \in DOMAIN readers : Users(r)' = Users(r) /\ Publishers(r)' = Publishers(r)
    BY <1>1, <2>1 DEF Users, Publishers
  <2> QED BY <1>1, <2>2, CountsStay DEF Inv
<1>7. RefreshAhead'
  BY <1>1, <1>2, <1>4 DEF Inv, RefreshAhead, Acquiring
<1>8. GensFollow'
  BY <1>1, <1>2, <1>4 DEF Inv, GensFollow, Acquiring
<1> QED BY <1>3, <1>5, <1>6, <1>7, <1>8 DEF Inv

LEMMA TakeReferenceStep == ASSUME Inv, NEW a \in Actors, TakeReference(a) PROVE Inv'
<1> USE ActorsFinite, BoundsAssumption, ReaderReopenAssumption
<1>0. PICK r : r = ref[a]
  OBVIOUS
<1>1. /\ UNCHANGED <<gen, current, refreshLock, searchingGen, refreshStartGen, finish, fresh,
                      target, calls, fails, spoiled, takenBack>>
      /\ at[a] \in Acquiring /\ r # 0
  BY <1>0 DEF TakeReference, reopen, history
<1>2. /\ at \in [Actors -> Places] /\ ref \in [Actors -> 0 .. Len(readers)]
      /\ readers \in Seq(Reader) /\ current \in 0 .. Len(readers) /\ Len(readers) \in Nat
      /\ r \in 1 .. Len(readers) /\ DOMAIN readers = 1 .. Len(readers)
  BY <1>0, <1>1, LenProperties DEF Inv, TypeOK
<1>3. CASE TryIncRef(readers, r)
  <2>1. /\ readers' = Raised(readers, r) /\ ref' = ref
        /\ \/ at[a] = "acquire" /\ at' = [at EXCEPT ![a] = "searching"]
           \/ at[a] = "refreshAcquire" /\ at' = [at EXCEPT ![a] = "refresh"]
    BY <1>0, <1>3 DEF TakeReference, Goto, Acquiring, Raised
  <2>2. /\ readers' \in Seq(Reader) /\ Len(readers') = Len(readers)
        /\ \A q \in 1 .. Len(readers) :
             /\ readers'[q].gen = readers[q].gen
             /\ readers'[q].count = IF q = r THEN readers[q].count + 1 ELSE readers[q].count
             /\ readers'[q].open = readers[q].open
    <3>1. readers \in Seq(Reader) /\ r \in 1 .. Len(readers)
      BY <1>2
    <3>2. /\ Raised(readers, r) \in Seq(Reader) /\ Len(Raised(readers, r)) = Len(readers)
          /\ \A q \in 1 .. Len(readers) :
               /\ Raised(readers, r)[q].gen = readers[q].gen
               /\ Raised(readers, r)[q].count = IF q = r THEN readers[q].count + 1 ELSE readers[q].count
               /\ Raised(readers, r)[q].open = readers[q].open
      BY <3>1, RaisedProperties
    <3> QED BY <2>1, <3>2
  <2>3. TypeOK'
    <3>1. at' \in [Actors -> Places]
      BY <1>2, <2>1 DEF Places, Refreshing, Using
    <3>2. \A b \in Actors : at'[b] \in Refreshing <=> refreshLock = b
      BY <1>2, <2>1 DEF Inv, TypeOK, Refreshing
    <3> QED BY <1>1, <1>2, <2>1, <2>2, <3>1, <3>2 DEF Inv, TypeOK
  <2>4. ReadersPlaced'
    BY <1>0, <1>1, <1>2, <2>1 DEF Inv, ReadersPlaced, Using, Acquiring
  <2>5. ReadersCounted'
    <3>0. /\ at[a] \notin Using /\ at'[a] \in Using /\ ref'[a] = r /\ ref[a] = r
          /\ \A b \in Actors \ {a} : at'[b] = at[b] /\ ref'[b] = ref[b]
      BY <1>0, <1>1, <1>2, <2>1 DEF Using, Acquiring
    <3>1. a \notin Users(r) /\ Users(r)' = Users(r) \cup {a}
      BY <3>0 DEF Users
    <3>2. \A q \in 1 .. Len(readers) : q # r => Users(q)' = Users(q)
      BY <3>0 DEF Users
    <3>3. \A q : Publishers(q)' = Publishers(q)
      BY <1>1 DEF Publishers
    <3>4. DOMAIN readers' = 1 .. Len(readers)
      BY <2>2, LenProperties
    <3>5. Cardinality(Users(r)') = Cardinality(Users(r)) + 1
      BY <3>1, UsersFinite, OneMore
    <3>6. ASSUME NEW q \in 1 .. Len(readers)
          PROVE  /\ readers'[q].count = Counts(q)'
                 /\ readers'[q].open <=> readers'[q].count > 0
      <4>1. readers[q].count = Counts(q) /\ (readers[q].open <=> readers[q].count > 0)
        BY <1>2 DEF Inv, ReadersCounted, Counts
      <4>2. /\ readers[q].count \in Nat /\ Cardinality(Users(q)) \in Nat
            /\ Cardinality(Publishers(q)) \in Nat /\ current' = current
        BY <1>1, <1>2, UsersFinite, ReadersType
      <4>3. CASE q = r
        <5>1. readers'[q].count = readers[q].count + 1 /\ readers'[q].open = readers[q].open
          BY <2>2, <4>3
        <5>2. Counts(q)' = Counts(q) + 1
          BY <3>3, <3>5, <4>2, <4>3 DEF Counts
        <5> QED BY <1>3, <4>1, <4>2, <4>3, <5>1, <5>2 DEF TryIncRef
      <4>4. CASE q # r
        BY <2>2, <3>2, <3>3, <4>1, <4>2, <4>4 DEF Counts
      <4> QED BY <4>3, <4>4
    <3> QED BY <3>4, <3>6 DEF ReadersCounted, Counts
  <2>6. RefreshAhead'
    <3>1. /\ \A b \in Actors \ {a} : at'[b] = at[b] /\ ref'[b] = ref[b]
          /\ ref'[a] = ref[a] /\ at'[a] # "swap" /\ (at'[a] = "refresh" => at[a] = "refreshAcquire")
          /\ at'[a] # "refreshAcquire"
      BY <1>2, <2>1
    <3>2. \A b \in Actors : at[b] = "swap" => ref[b] \in 1 .. Len(readers) /\ fresh[b] \in 1 .. Len(readers)
      BY DEF Inv, TypeOK, ReadersPlaced, Using
    <3> QED BY <1>1, <2>1, <2>2, <3>1, <3>2 DEF Inv, RefreshAhead
  <2>7. GensFollow'
    <3>1. \A b \in Actors : ref[b] \in 0 .. Len(readers) /\ fresh[b] \in 0 .. Len(readers)
      BY DEF Inv, TypeOK
    <3>2. /\ \A b \in Actors \ {a} : at'[b] = at[b]
          /\ \/ at[a] = "acquire" /\ at'[a] = "searching"
             \/ at[a] = "refreshAcquire" /\ at'[a] = "refresh"
      BY <1>2, <2>1
    <3>3. /\ current # 0 => readers'[current].gen = readers[current].gen
          /\ \A b \in Actors : /\ ref[b] # 0 => readers'[ref[b]].gen = readers[ref[b]].gen
                               /\ fresh[b] # 0 => readers'[fresh[b]].gen = readers[fresh[b]].gen
      BY <1>2, <2>2, <3>1
    <3>4. fresh[Reopener] # 0 <=> at[Reopener] = "swap"
      BY DEF Inv, ReadersPlaced
    <3> QED BY <1>1, <2>1, <3>2, <3>3, <3>4 DEF Inv, GensFollow
  <2> QED BY <2>3, <2>4, <2>5, <2>6, <2>7 DEF Inv
<1>4. CASE ~TryIncRef(readers, r)
  <2>1. current # r
    <3>1. current = r => readers[r].count > 0
      BY <1>2, UsedIsCounted DEF Inv
    <3> QED BY <1>4, <3>1 DEF TryIncRef
  <2>2. readers' = readers /\ at' = at /\ ref' = [ref EXCEPT ![a] = 0]
    BY <1>0, <1>4, <2>1 DEF TakeReference
  <2>3. TypeOK' /\ ReadersPlaced'
    BY <1>1, <1>2, <2>2 DEF Inv, TypeOK, ReadersPlaced, Using, Acquiring
  <2>4. ReadersCounted'
    <3>1. \A b \in Actors, q \in DOMAIN readers :
             (ref'[b] = q /\ at'[b] \in Using) <=> (ref[b] = q /\ at[b] \in Using)
      BY <1>1, <1>2, <2>2 DEF Using, Acquiring
    <3>2. \A q \in DOMAIN readers : Users(q)' = Users(q) /\ Publishers(q)' = Publishers(q)
      BY <1>1, <3>1 DEF Users, Publishers
    <3> QED BY <1>1, <2>2, <3>2, CountsStay DEF Inv
  <2>5. RefreshAhead' /\ GensFollow'
    BY <1>1, <1>2, <2>2 DEF Inv, RefreshAhead, GensFollow, Acquiring
  <2> QED BY <2>3, <2>4, <2>5 DEF Inv
<1> QED BY <1>3, <1>4

\* Who used a reader gives it back.
LEMMA GivenBack ==
  ASSUME Inv, NEW a \in Actors, at[a] \in Using \ {"swap"},
         NEW place \in Places \ (Using \cup Acquiring), at' = [at EXCEPT ![a] = place],
         readers' = DecRef(readers, ref[a]), ref' = [ref EXCEPT ![a] = 0],
         UNCHANGED <<current, fresh>>
  PROVE  /\ at' \in [Actors -> Places] /\ ref' \in [Actors -> 0 .. Len(readers')]
         /\ readers' \in Seq(Reader) /\ Len(readers') = Len(readers)
         /\ \A q \in 1 .. Len(readers) : readers'[q].gen = readers[q].gen
         /\ ReadersCounted' /\ ReadersPlaced' /\ RefreshAhead'
<1>1. PICK r : r = ref[a]
  OBVIOUS
<1>2. /\ at \in [Actors -> Places] /\ ref \in [Actors -> 0 .. Len(readers)]
      /\ fresh \in [Actors -> 0 .. Len(readers)]
      /\ readers \in Seq(Reader) /\ Len(readers) \in Nat /\ r \in 1 .. Len(readers)
  BY <1>1, LenProperties DEF Inv, TypeOK, ReadersPlaced
<1>3. readers[r].count > 0
  BY <1>1, <1>2, UsedIsCounted DEF Inv
<1>4. /\ at'[a] = place /\ ref'[a] = 0 /\ place \notin Using /\ place # "swap" /\ at[a] # "swap"
      /\ place \notin Acquiring
      /\ \A b \in Actors \ {a} : at'[b] = at[b] /\ ref'[b] = ref[b]
  BY <1>2 DEF Using
<1>5. at' \in [Actors -> Places] /\ ref' \in [Actors -> 0 .. Len(readers)]
  BY <1>2
<1>6. a \in Users(r) /\ Users(r)' = Users(r) \ {a}
  BY <1>1, <1>2, <1>4 DEF Users
<1>7. \A q \in 1 .. Len(readers) : q # r => Users(q)' = Users(q)
  BY <1>1, <1>2, <1>4 DEF Users
<1>8. \A q : Publishers(q)' = Publishers(q)
  BY DEF Publishers
<1>9. ASSUME NEW q \in 1 .. Len(readers)
      PROVE  Counts(q)' = IF q = r THEN Counts(q) - 1 ELSE Counts(q)
  <2>1. Cardinality(Users(q)) \in Nat /\ Cardinality(Publishers(q)) \in Nat
    BY UsersFinite
  <2>2. q = r => Cardinality(Users(q)') = Cardinality(Users(q)) - 1
    BY <1>6, UsersFinite, OneLess
  <2> QED BY <1>7, <1>8, <2>1, <2>2 DEF Counts
<1>10. /\ readers' \in Seq(Reader) /\ Len(readers') = Len(readers)
       /\ \A q \in 1 .. Len(readers) : readers'[q].gen = readers[q].gen
       /\ ReadersCounted'
  BY <1>1, <1>2, <1>3, <1>9, CountReleased DEF Inv
<1>11. ReadersPlaced'
  BY <1>4 DEF Inv, ReadersPlaced
<1>12. RefreshAhead'
  <2>1. \A b \in Actors : at[b] = "swap" => ref[b] \in 1 .. Len(readers) /\ fresh[b] \in 1 .. Len(readers)
    BY <1>2 DEF Inv, ReadersPlaced, Using
  <2> QED BY <1>4, <1>10, <2>1 DEF Inv, RefreshAhead
<1> QED BY <1>5, <1>10, <1>11, <1>12

\* The generations that GensFollow speaks of stay.
LEMMA GensStay ==
  ASSUME Inv, Len(readers') >= Len(readers),
         \A q \in 1 .. Len(readers) : readers'[q].gen = readers[q].gen
  PROVE  /\ current # 0 => readers'[current].gen = readers[current].gen
         /\ \A b \in Actors : /\ ref[b] # 0 => readers'[ref[b]].gen = readers[ref[b]].gen
                              /\ fresh[b] # 0 => readers'[fresh[b]].gen = readers[fresh[b]].gen
         /\ fresh[Reopener] # 0 <=> at[Reopener] = "swap"
<1>1. /\ current \in 0 .. Len(readers) /\ Len(readers) \in Nat /\ Reopener \in Actors
      /\ \A b \in Actors : ref[b] \in 0 .. Len(readers) /\ fresh[b] \in 0 .. Len(readers)
  BY ActorsFinite, LenProperties DEF Inv, TypeOK
<1> QED BY <1>1 DEF Inv, ReadersPlaced

LEMMA ReleaseOldStep == ASSUME Inv, NEW a \in Actors, ReleaseOld(a) PROVE Inv'
<1> USE ActorsFinite, BoundsAssumption
<1>1. /\ at[a] \in {"release", "releaseFailed"}
      /\ readers' = DecRef(readers, ref[a]) /\ ref' = [ref EXCEPT ![a] = 0]
      /\ UNCHANGED <<gen, current, refreshLock, searchingGen, refreshStartGen, finish, fresh, target,
                      calls, fails, spoiled, takenBack>>
  BY DEF ReleaseOld, reopen, history
<1>2. PICK place \in {"refreshed", "refreshFailed"} :
        at' = [at EXCEPT ![a] = place] /\ (place = "refreshed" <=> at[a] = "release")
  BY <1>1 DEF ReleaseOld, Goto
<1>3. place \in Places \ (Using \cup Acquiring) /\ at[a] \in Using \ {"swap"}
  BY <1>1, <1>2 DEF Places, Refreshing, Using, Acquiring
<1>4. /\ at' \in [Actors -> Places] /\ ref' \in [Actors -> 0 .. Len(readers')]
      /\ readers' \in Seq(Reader) /\ Len(readers') = Len(readers)
      /\ \A q \in 1 .. Len(readers) : readers'[q].gen = readers[q].gen
      /\ ReadersCounted' /\ ReadersPlaced' /\ RefreshAhead'
  BY <1>1, <1>2, <1>3, GivenBack
<1>5. TypeOK'
  <2>1. \A b \in Actors : at'[b] \in Refreshing <=> refreshLock' = b
    BY <1>1, <1>2 DEF Inv, TypeOK, Refreshing
  <2> QED BY <1>1, <1>4, <2>1 DEF Inv, TypeOK
<1>6. GensFollow'
  <2>1. /\ current # 0 => readers'[current].gen = readers[current].gen
        /\ \A b \in Actors : /\ ref[b] # 0 => readers'[ref[b]].gen = readers[ref[b]].gen
                             /\ fresh[b] # 0 => readers'[fresh[b]].gen = readers[fresh[b]].gen
        /\ fresh[Reopener] # 0 <=> at[Reopener] = "swap"
    <3>1. Len(readers') >= Len(readers)
      BY <1>4, LenProperties
    <3> QED BY <1>4, <3>1, GensStay
  <2>2. /\ at'[a] = place /\ ref'[a] = 0
        /\ \A b \in Actors \ {a} : at'[b] = at[b] /\ ref'[b] = ref[b]
    BY <1>1, <1>2 DEF Inv, TypeOK
  <2> QED BY <1>1, <1>2, <2>1, <2>2 DEF Inv, GensFollow
<1> QED BY <1>4, <1>5, <1>6 DEF Inv

LEMMA ReleaseSearchedStep == ASSUME Inv, NEW t \in Threads, ReleaseSearched(t) PROVE Inv'
<1> USE ActorsFinite, BoundsAssumption
<1>1. /\ at[t] = "searching" /\ at' = [at EXCEPT ![t] = "idle"]
      /\ readers' = DecRef(readers, ref[t]) /\ ref' = [ref EXCEPT ![t] = 0]
      /\ target' = [target EXCEPT ![t] = 0]
      /\ UNCHANGED <<gen, current, refreshLock, searchingGen, refreshStartGen, finish, fresh,
                      calls, fails, spoiled, takenBack>>
  BY DEF ReleaseSearched, Goto, reopen, history
<1>2. "idle" \in Places \ (Using \cup Acquiring) /\ at[t] \in Using \ {"swap"} /\ t \in Actors
  BY <1>1 DEF Places, Refreshing, Using, Acquiring
<1>3. /\ at' \in [Actors -> Places] /\ ref' \in [Actors -> 0 .. Len(readers')]
      /\ readers' \in Seq(Reader) /\ Len(readers') = Len(readers)
      /\ \A q \in 1 .. Len(readers) : readers'[q].gen = readers[q].gen
      /\ ReadersCounted' /\ ReadersPlaced' /\ RefreshAhead'
  BY <1>1, <1>2, GivenBack
<1>4. TypeOK'
  <2>1. \A b \in Actors : at'[b] \in Refreshing <=> refreshLock' = b
    BY <1>1 DEF Inv, TypeOK, Refreshing
  <2>2. target' \in [Threads -> 0 .. MaxGen]
    BY <1>1 DEF Inv, TypeOK
  <2> QED BY <1>1, <1>3, <2>1, <2>2 DEF Inv, TypeOK
<1>5. GensFollow'
  <2>1. /\ current # 0 => readers'[current].gen = readers[current].gen
        /\ \A b \in Actors : /\ ref[b] # 0 => readers'[ref[b]].gen = readers[ref[b]].gen
                             /\ fresh[b] # 0 => readers'[fresh[b]].gen = readers[fresh[b]].gen
        /\ fresh[Reopener] # 0 <=> at[Reopener] = "swap"
    <3>1. Len(readers') >= Len(readers)
      BY <1>3, LenProperties
    <3> QED BY <1>3, <3>1, GensStay
  <2>2. /\ at'[t] = "idle" /\ ref'[t] = 0
        /\ \A b \in Actors \ {t} : at'[b] = at[b] /\ ref'[b] = ref[b]
        /\ \A u \in Threads \ {t} : target'[u] = target[u]
    BY <1>1 DEF Inv, TypeOK
  <2> QED BY <1>1, <2>1, <2>2 DEF Inv, GensFollow
<1> QED BY <1>3, <1>4, <1>5 DEF Inv

LEMMA RefreshIfNeededStep == ASSUME Inv, NEW a \in Actors, RefreshIfNeeded(a) PROVE Inv'
<1> USE ActorsFinite, BoundsAssumption
<1>1. /\ at[a] = "refresh"
      /\ UNCHANGED <<gen, current, refreshLock, searchingGen, refreshStartGen, finish, ref, target, calls,
                      takenBack>>
  BY DEF RefreshIfNeeded, reopen
<1>2. /\ at \in [Actors -> Places] /\ gen \in 0 .. MaxGen /\ refreshStartGen \in 0 .. MaxGen
      /\ readers \in Seq(Reader) /\ Len(readers) \in Nat /\ DOMAIN readers = 1 .. Len(readers)
      /\ ref \in [Actors -> 0 .. Len(readers)] /\ fresh \in [Actors -> 0 .. Len(readers)]
      /\ current \in 0 .. Len(readers) /\ ref[a] \in 1 .. Len(readers) /\ fresh[a] = 0
      /\ fails \in 0 .. MaxFails
  BY <1>1, LenProperties DEF Inv, TypeOK, ReadersPlaced, Using
<1>3. /\ current \in {0, ref[a]} /\ refreshStartGen <= gen
      /\ \A b \in Actors : at[b] = "swap" => ref[b] \in 1 .. Len(readers) /\ fresh[b] \in 1 .. Len(readers)
  BY <1>1, <1>2 DEF Inv, RefreshAhead, GensFollow, ReadersPlaced, Using
<1>4. CASE gen > readers[ref[a]].gen /\ readers' = Append(readers, [gen |-> gen, count |-> 1, open |-> TRUE])
           /\ fresh' = [fresh EXCEPT ![a] = Len(readers) + 1] /\ at' = [at EXCEPT ![a] = "swap"]
           /\ UNCHANGED <<fails, spoiled>>
  <2>1. PICK n : n = Len(readers) + 1
    OBVIOUS
  <2>2. /\ readers' \in Seq(Reader) /\ Len(readers') = n /\ n \in Nat /\ n = Len(readers) + 1
        /\ \A q \in 1 .. Len(readers) : readers'[q] = readers[q]
        /\ readers'[n].gen = gen /\ readers'[n].count = 1 /\ readers'[n].open = TRUE
    <3>1. /\ readers' \in Seq(Reader) /\ Len(readers') = Len(readers) + 1
          /\ \A q \in 1 .. Len(readers) : readers'[q] = readers[q]
          /\ readers'[Len(readers) + 1] = [gen |-> gen, count |-> 1, open |-> TRUE]
      BY <1>4, NewReaderProperties DEF Inv
    <3>2. readers'[n] = [gen |-> gen, count |-> 1, open |-> TRUE]
      BY <2>1, <3>1
    <3>3. readers'[n].gen = gen /\ readers'[n].count = 1 /\ readers'[n].open = TRUE
      BY <3>2
    <3> QED BY <1>2, <2>1, <3>1, <3>3
  <2>3. /\ at'[a] = "swap" /\ fresh'[a] = n /\ at[a] # "swap" /\ "swap" \in Using /\ at[a] \in Using
        /\ \A b \in Actors \ {a} : at'[b] = at[b] /\ fresh'[b] = fresh[b]
    BY <1>1, <1>2, <1>4, <2>1 DEF Using
  <2>4. TypeOK'
    <3>1. at' \in [Actors -> Places] /\ fresh' \in [Actors -> 0 .. n]
      BY <1>2, <1>4, <2>2 DEF Places, Refreshing
    <3>2. ref' \in [Actors -> 0 .. n] /\ current' \in 0 .. n
      BY <1>1, <1>2, <2>2
    <3>3. \A b \in Actors : at'[b] \in Refreshing <=> refreshLock' = b
      BY <1>1, <2>3 DEF Inv, TypeOK, Refreshing
    <3> QED BY <1>1, <1>2, <1>4, <2>2, <3>1, <3>2, <3>3 DEF Inv, TypeOK
  <2>5. ReadersPlaced'
    BY <1>1, <1>2, <2>2, <2>3 DEF Inv, ReadersPlaced
  <2>6. ReadersCounted'
    <3>1. DOMAIN readers' = 1 .. n
      BY <2>2, LenProperties
    <3>2. ASSUME NEW q \in 1 .. Len(readers)
          PROVE  readers'[q].count = Counts(q)' /\ (readers'[q].open <=> readers'[q].count > 0)
      <4>1. Users(q)' = Users(q) /\ Publishers(q)' = Publishers(q)
        <5>1. \A b \in Actors : (ref'[b] = q /\ at'[b] \in Using) <=> (ref[b] = q /\ at[b] \in Using)
          BY <1>1, <2>3
        <5>2. \A b \in Actors : fresh'[b] = q <=> fresh[b] = q
          BY <1>2, <2>2, <2>3
        <5> QED BY <5>1, <5>2 DEF Users, Publishers
      <4>2. Counts(q)' = Counts(q)
        BY <1>1, <4>1 DEF Counts
      <4> QED BY <1>2, <2>2, <4>2 DEF Inv, ReadersCounted, Counts
    <3>3. readers'[n].count = Counts(n)'
      <4>1. Users(n)' = {}
        BY <1>1, <1>2, <2>2 DEF Users
      <4>2. Publishers(n)' = {a}
        BY <1>2, <2>2, <2>3 DEF Publishers
      <4>3. Cardinality(Users(n)') = 0 /\ Cardinality(Publishers(n)') = 1 /\ current' # n
        <5>1. Cardinality({}) = 0 /\ Cardinality({a}) = 1
          BY FS_EmptySet, FS_Singleton
        <5>2. current' # n
          BY <1>1, <1>2, <2>2
        <5> QED BY <4>1, <4>2, <5>1, <5>2
      <4> QED BY <2>2, <4>3 DEF Counts
    <3>4. \A q \in 1 .. n : q = n \/ q \in 1 .. Len(readers)
      BY <2>2
    <3>5. readers'[n].open <=> readers'[n].count > 0
      BY <2>2
    <3> QED BY <3>1, <3>2, <3>3, <3>4, <3>5 DEF ReadersCounted, Counts
  <2>7. RefreshAhead'
    BY <1>1, <1>2, <1>3, <1>4, <2>2, <2>3 DEF Inv, RefreshAhead
  <2>8. GensFollow'
    <3>1. /\ current # 0 => readers'[current].gen = readers[current].gen
          /\ \A b \in Actors : /\ ref[b] # 0 => readers'[ref[b]].gen = readers[ref[b]].gen
                               /\ fresh[b] # 0 => readers'[fresh[b]].gen = readers[fresh[b]].gen
          /\ fresh[Reopener] # 0 <=> at[Reopener] = "swap"
      <4>1. Len(readers) \in Nat /\ Len(readers') = Len(readers) + 1
        BY <1>2, <2>2
      <4>2. \A q \in 1 .. Len(readers) : readers'[q].gen = readers[q].gen
        BY <2>2
      <4> QED BY <4>1, <4>2, GensStay
    <3>2. at'[Reopener] = "swap" /\ ~spoiled /\ ~finish => readers'[fresh'[Reopener]].gen >= refreshStartGen
      <4>1. CASE a = Reopener
        BY <1>3, <2>2, <2>3, <4>1
      <4>2. CASE a # Reopener
        BY <2>3, <3>1, <4>2 DEF Inv, GensFollow
      <4> QED BY <4>1, <4>2
    <3> QED BY <1>1, <1>3, <1>4, <2>3, <3>1, <3>2 DEF Inv, GensFollow
  <2> QED BY <2>4, <2>5, <2>6, <2>7, <2>8 DEF Inv
<1>5. CASE UNCHANGED <<readers, fresh>> /\ fails' \in 0 .. MaxFails /\ spoiled' \in BOOLEAN
           /\ \/ gen = readers[ref[a]].gen /\ at' = [at EXCEPT ![a] = "release"] /\ spoiled' = spoiled
              \/ spoiled' = TRUE /\ at' = [at EXCEPT ![a] = "releaseFailed"]
  <2>1. PICK place \in {"release", "releaseFailed"} :
          /\ at' = [at EXCEPT ![a] = place]
          /\ spoiled' \/ (spoiled' = spoiled /\ place = "release" /\ gen = readers[ref[a]].gen)
    BY <1>5
  <2>2. /\ at'[a] = place /\ at[a] \in Using /\ place \in Using /\ place # "swap" /\ at[a] # "swap"
        /\ \A b \in Actors \ {a} : at'[b] = at[b]
    BY <1>1, <1>2, <2>1 DEF Using
  <2>3. TypeOK'
    <3>1. at' \in [Actors -> Places]
      BY <1>2, <2>1 DEF Places, Refreshing
    <3>2. \A b \in Actors : at'[b] \in Refreshing <=> refreshLock' = b
      BY <1>1, <2>2 DEF Inv, TypeOK, Refreshing, Using
    <3> QED BY <1>1, <1>5, <3>1, <3>2 DEF Inv, TypeOK
  <2>4. ReadersPlaced'
    BY <1>1, <1>5, <2>2 DEF Inv, ReadersPlaced
  <2>5. ReadersCounted'
    <3>1. \A q : Users(q)' = Users(q) /\ Publishers(q)' = Publishers(q)
      BY <1>1, <1>5, <2>2 DEF Users, Publishers
    <3> QED BY <1>1, <1>5, <3>1, CountsStay DEF Inv
  <2>6. RefreshAhead'
    BY <1>1, <1>5, <2>1, <2>2 DEF Inv, RefreshAhead
  <2>7. GensFollow'
    BY <1>1, <1>3, <1>5, <2>1, <2>2 DEF Inv, GensFollow
  <2> QED BY <2>3, <2>4, <2>5, <2>6, <2>7 DEF Inv
<1>6. fails < MaxFails => fails + 1 \in 0 .. MaxFails
  BY <1>2
<1>7. spoiled \in BOOLEAN
  BY DEF Inv, TypeOK
<1> QED BY <1>2, <1>4, <1>5, <1>6, <1>7 DEF RefreshIfNeeded, Goto

LEMMA SwapReferenceStep ==
  ASSUME Inv, NEW a \in Actors, SwapReference(a)
  PROVE  Inv' /\ (current # 0 /\ current' # 0 => readers'[current'].gen >= readers[current].gen)
<1> USE ActorsFinite, BoundsAssumption
<1>1. /\ at[a] = "swap" /\ fresh' = [fresh EXCEPT ![a] = 0]
      /\ UNCHANGED <<gen, refreshLock, searchingGen, refreshStartGen, finish, ref, target,
                      calls, fails, spoiled, takenBack>>
  BY DEF SwapReference, reopen, history
<1>2. PICK f, r : f = fresh[a] /\ r = ref[a]
  OBVIOUS
<1>3. /\ at \in [Actors -> Places]
      /\ readers \in Seq(Reader) /\ Len(readers) \in Nat /\ current \in 0 .. Len(readers)
      /\ ref \in [Actors -> 0 .. Len(readers)] /\ fresh \in [Actors -> 0 .. Len(readers)]
      /\ r \in 1 .. Len(readers) /\ f \in 1 .. Len(readers)
  BY <1>1, <1>2, LenProperties DEF Inv, TypeOK, ReadersPlaced, Using
<1>4. /\ readers[f].gen > readers[r].gen /\ current \in {0, r}
      /\ readers[f].gen \in Nat /\ readers[r].gen \in Nat
  BY <1>1, <1>2, <1>3, ReadersType DEF Inv, RefreshAhead
<1>5. \A b \in Actors \ {a} : at[b] \notin Refreshing
  BY <1>1 DEF Inv, TypeOK, Refreshing
<1>6. PICK place \in {"release", "releaseFailed"} :
        /\ at' = [at EXCEPT ![a] = place]
        /\ \/ place = "releaseFailed" /\ current = 0 /\ current' = 0 /\ readers' = DecRef(readers, f)
           \/ place = "release" /\ current = r /\ current' = f /\ readers' = DecRef(readers, r)
  BY <1>2, <1>3, <1>4 DEF SwapReference, Goto, ReleaseNew
<1>7. /\ at'[a] = place /\ fresh'[a] = 0 /\ at[a] \in Using /\ place \in Using /\ place # "swap"
      /\ place \in Refreshing /\ "swap" \in Refreshing
      /\ \A b \in Actors \ {a} : at'[b] = at[b] /\ fresh'[b] = fresh[b]
  BY <1>1, <1>3, <1>6 DEF Using, Refreshing
<1>8. readers[f].count > 0 /\ readers[r].count > 0
  BY <1>1, <1>2, <1>3, <1>7, UsedIsCounted DEF Inv
<1>9. /\ \A q : Users(q)' = Users(q)
      /\ a \in Publishers(f) /\ Publishers(f)' = Publishers(f) \ {a}
      /\ \A q \in 1 .. Len(readers) : q # f => Publishers(q)' = Publishers(q)
  <2>1. \A q : \A b \in Actors : (ref'[b] = q /\ at'[b] \in Using) <=> (ref[b] = q /\ at[b] \in Using)
    BY <1>1, <1>7
  <2>2. fresh[a] = f /\ f # 0 /\ \A b \in Actors \ {a} : fresh'[b] = fresh[b]
    BY <1>2, <1>3, <1>7
  <2>3. fresh'[a] = 0
    BY <1>7
  <2>4. \A q : Users(q)' = Users(q)
    BY <2>1 DEF Users
  <2>5. a \in Publishers(f) /\ Publishers(f)' = Publishers(f) \ {a}
    BY <2>2, <2>3 DEF Publishers
  <2>6. \A q \in 1 .. Len(readers) : q # f => Publishers(q)' = Publishers(q)
    BY <2>2, <2>3 DEF Publishers
  <2> QED BY <2>4, <2>5, <2>6
<1>10. Cardinality(Publishers(f)') = Cardinality(Publishers(f)) - 1
  BY <1>9, UsersFinite, OneLess
<1>11. /\ readers' \in Seq(Reader) /\ Len(readers') = Len(readers)
       /\ \A q \in 1 .. Len(readers) : readers'[q].gen = readers[q].gen
       /\ ReadersCounted'
  <2>1. \A q \in 1 .. Len(readers) : Cardinality(Users(q)) \in Nat /\ Cardinality(Publishers(q)) \in Nat
    BY UsersFinite
  <2>2. f # 0 /\ r # 0 /\ f # r
    BY <1>3, <1>4
  <2>3. CASE current = 0
    <3>1. current' = 0 /\ readers' = DecRef(readers, f)
      BY <1>6, <2>2, <2>3
    <3>2. \A q \in 1 .. Len(readers) : Counts(q)' = IF q = f THEN Counts(q) - 1 ELSE Counts(q)
      <4> SUFFICES ASSUME NEW q \in 1 .. Len(readers)
                   PROVE  Counts(q)' = IF q = f THEN Counts(q) - 1 ELSE Counts(q)
        OBVIOUS
      <4>1. current' # q /\ current # q
        BY <2>3, <3>1
      <4>2. CASE q = f
        <5>1. Cardinality(Publishers(q)') = Cardinality(Publishers(q)) - 1
          BY <1>10, <4>2
        <5>2. Cardinality(Users(q)') = Cardinality(Users(q))
          BY <1>9
        <5>3. Cardinality(Users(q)) \in Nat /\ Cardinality(Publishers(q)) \in Nat
          BY <2>1
        <5> QED BY <5>1, <5>2, <5>3, <4>1, <4>2 DEF Counts
      <4>3. CASE q # f
        BY <1>9, <4>1, <4>3 DEF Counts
      <4> QED BY <4>2, <4>3
    <3> QED BY <1>3, <1>8, <3>1, <3>2, CountReleased DEF Inv
  <2>4. CASE current = r
    <3>1. current' = f /\ readers' = DecRef(readers, r)
      BY <1>6, <2>2, <2>4
    <3>2. \A q \in 1 .. Len(readers) : Counts(q)' = IF q = r THEN Counts(q) - 1 ELSE Counts(q)
      <4> SUFFICES ASSUME NEW q \in 1 .. Len(readers)
                   PROVE  Counts(q)' = IF q = r THEN Counts(q) - 1 ELSE Counts(q)
        OBVIOUS
      <4>1. CASE q = f
        <5>1. Cardinality(Publishers(q)') = Cardinality(Publishers(q)) - 1
          BY <1>10, <4>1
        <5>2. Cardinality(Users(q)') = Cardinality(Users(q))
          BY <1>9
        <5>3. Cardinality(Users(q)) \in Nat /\ Cardinality(Publishers(q)) \in Nat
          BY <2>1
        <5> QED BY <5>1, <5>2, <5>3, <2>2, <2>4, <3>1, <4>1 DEF Counts
      <4>2. CASE q = r
        BY <1>9, <2>1, <2>2, <2>4, <3>1, <4>2 DEF Counts
      <4>3. CASE q # f /\ q # r
        BY <1>9, <2>4, <3>1, <4>3 DEF Counts
      <4> QED BY <4>1, <4>2, <4>3
    <3> QED BY <1>3, <1>8, <3>1, <3>2, CountReleased DEF Inv
  <2> QED BY <1>4, <2>3, <2>4
<1>12. TypeOK'
  <2>1. at' \in [Actors -> Places] /\ fresh' \in [Actors -> 0 .. Len(readers')] /\ current' \in 0 .. Len(readers')
    BY <1>1, <1>3, <1>6, <1>7, <1>11 DEF Places
  <2>2. \A b \in Actors : at'[b] \in Refreshing <=> refreshLock' = b
    BY <1>1, <1>7 DEF Inv, TypeOK
  <2> QED BY <1>1, <1>11, <2>1, <2>2 DEF Inv, TypeOK
<1>13. ReadersPlaced'
  BY <1>1, <1>7 DEF Inv, ReadersPlaced
<1>14. RefreshAhead'
  BY <1>5, <1>6, <1>7 DEF RefreshAhead, Refreshing
<1>15. current # 0 /\ current' # 0 => readers'[current'].gen > readers[current].gen
  BY <1>3, <1>4, <1>6, <1>11
<1>16. GensFollow'
  <2>1. /\ \A b \in Actors : ref[b] # 0 => readers'[ref[b]].gen = readers[ref[b]].gen
        /\ current' # 0 => current # 0 /\ readers[current].gen \in Nat /\ readers'[current'].gen \in Nat
                           /\ current' = f /\ readers'[f].gen = readers[f].gen
    BY <1>3, <1>4, <1>6, <1>11
  <2>2. \A t \in Threads : target[t] \in Nat
    BY DEF Inv, TypeOK
  <2>3. searchingGen \in Int /\ refreshStartGen \in Int
    BY DEF Inv, TypeOK, Forever
  <2>4. ~spoiled /\ ~finish => \A t \in Threads : at'[t] = "acquire" => current' = 0 \/ readers'[current'].gen >= target[t]
    BY <1>6, <1>7, <1>15, <2>1, <2>2 DEF Inv, GensFollow
  <2>5. ~spoiled /\ ~finish => (current' # 0 => readers'[current'].gen >= searchingGen)
    BY <1>15, <2>1, <2>3 DEF Inv, GensFollow
  <2>6. ~spoiled /\ ~finish /\ at'[Reopener] \in {"release", "refreshed"} =>
          current' = 0 \/ readers'[current'].gen >= refreshStartGen
    BY <1>1, <1>2, <1>5, <1>7, <2>1 DEF Inv, GensFollow, Refreshing
  <2> QED BY <1>1, <1>5, <1>6, <1>7, <2>1, <2>4, <2>5, <2>6 DEF Inv, GensFollow, Refreshing
<1> QED BY <1>3, <1>4, <1>11, <1>12, <1>13, <1>14, <1>15, <1>16, <1>6 DEF Inv

LEMMA CloseManagerStep == ASSUME Inv, NEW t \in Threads, CloseManager(t) PROVE Inv'
<1> USE ActorsFinite, BoundsAssumption
<1>1. /\ at[t] = "idle" /\ Call(t) /\ current' = 0
      /\ readers' = IF current = 0 THEN readers ELSE DecRef(readers, current)
      /\ UNCHANGED <<gen, refreshLock, searchingGen, refreshStartGen, finish, at, ref, fresh, target,
                      fails, spoiled, takenBack>>
  BY DEF CloseManager, reopen
<1>2. /\ readers \in Seq(Reader) /\ Len(readers) \in Nat /\ current \in 0 .. Len(readers)
      /\ DOMAIN readers = 1 .. Len(readers)
  BY LenProperties DEF Inv, TypeOK
<1>3. \A q : Users(q)' = Users(q) /\ Publishers(q)' = Publishers(q)
  BY <1>1 DEF Users, Publishers
<1>4. /\ readers' \in Seq(Reader) /\ Len(readers') = Len(readers)
      /\ \A q \in 1 .. Len(readers) : readers'[q].gen = readers[q].gen
      /\ ReadersCounted'
  <2>1. CASE current = 0
    BY <1>1, <1>2, <1>3, <2>1, CountsStay DEF Inv
  <2>2. CASE current # 0
    <3>1. PICK r \in 1 .. Len(readers) : r = current
      BY <1>2, <2>2
    <3>2. readers[r].count > 0 /\ readers' = DecRef(readers, r)
      BY <1>1, <2>2, <3>1, UsedIsCounted DEF Inv
    <3>3. \A q \in 1 .. Len(readers) : Cardinality(Users(q)) \in Nat /\ Cardinality(Publishers(q)) \in Nat
      BY UsersFinite
    <3>4. \A q \in 1 .. Len(readers) : Counts(q)' = IF q = r THEN Counts(q) - 1 ELSE Counts(q)
      BY <1>1, <1>3, <3>1, <3>3 DEF Counts
    <3> QED BY <3>2, <3>4, CountReleased DEF Inv
  <2> QED BY <2>1, <2>2
<1>5. TypeOK'
  <2>1. calls' \in [Threads -> 0 .. MaxCalls]
    BY <1>1 DEF Inv, TypeOK, Call
  <2>2. ref' \in [Actors -> 0 .. Len(readers')] /\ fresh' \in [Actors -> 0 .. Len(readers')]
        /\ current' \in 0 .. Len(readers')
    BY <1>1, <1>2, <1>4 DEF Inv, TypeOK
  <2>3. UNCHANGED <<gen, refreshLock, searchingGen, refreshStartGen, finish, at, target, fails, spoiled,
                  takenBack>>
    BY <1>1
  <2> QED BY <1>4, <2>1, <2>2, <2>3 DEF Inv, TypeOK
<1>6. ReadersPlaced'
  BY <1>1 DEF Inv, ReadersPlaced
<1>7. RefreshAhead'
  <2>1. \A b \in Actors : at[b] = "swap" => ref[b] \in 1 .. Len(readers) /\ fresh[b] \in 1 .. Len(readers)
    BY DEF Inv, TypeOK, ReadersPlaced, Using
  <2> QED BY <1>1, <1>4, <2>1 DEF Inv, RefreshAhead
<1>8. GensFollow'
  <2>1. /\ \A b \in Actors : /\ ref[b] # 0 => readers'[ref[b]].gen = readers[ref[b]].gen
                             /\ fresh[b] # 0 => readers'[fresh[b]].gen = readers[fresh[b]].gen
        /\ fresh[Reopener] # 0 <=> at[Reopener] = "swap"
    BY <1>2, <1>4, GensStay
  <2> QED BY <1>1, <2>1 DEF Inv, GensFollow
<1> QED BY <1>4, <1>5, <1>6, <1>7, <1>8 DEF Inv

-----------------------------------------------------------------------------
\* The theorems.

LEMMA StutteringStep == Inv /\ UNCHANGED vars => Inv'
<1> SUFFICES ASSUME Inv, UNCHANGED vars PROVE Inv'
  OBVIOUS
<1>1. UNCHANGED <<gen, readers, current, refreshLock, searchingGen, refreshStartGen, finish, at, ref,
                  fresh, target, calls, fails, spoiled, takenBack>>
  BY DEF vars, manager, reopen, history
<1>2. \A r : Users(r)' = Users(r) /\ Publishers(r)' = Publishers(r)
  BY <1>1 DEF Users, Publishers
<1>3. ReadersCounted'
  BY <1>1, <1>2, CountsStay DEF Inv
<1>4. TypeOK'
  BY <1>1 DEF Inv, TypeOK
<1>5. ReadersPlaced' /\ RefreshAhead' /\ GensFollow'
  BY <1>1 DEF Inv, ReadersPlaced, RefreshAhead, GensFollow
<1> QED BY <1>3, <1>4, <1>5 DEF Inv

\* Who takes part in a step, and which one it is
LEMMA Steps ==
  ASSUME Next
  PROVE  \/ Run
         \/ \E a \in Actors :
              \/ EnsureOpenAndLock(a) \/ ReadCurrent(a) \/ TakeReference(a) \/ RefreshIfNeeded(a)
              \/ SwapReference(a) \/ ReleaseOld(a) \/ RefreshDone(a) \/ Unlock(a)
         \/ \E t \in Threads :
              \/ Index(t) \/ StartRefresh(t) \/ Finish(t) \/ WaitForGeneration(t) \/ WaitTimesOut(t)
              \/ Joined(t) \/ CloseManager(t) \/ ReleaseSearched(t)
<1>1. CASE Refresh(Reopener)
  BY <1>1, ActorsFinite DEF Refresh
<1>2. ASSUME NEW t \in Threads, Refresh(t)
      PROVE  \E a \in Actors :
              \/ EnsureOpenAndLock(a) \/ ReadCurrent(a) \/ TakeReference(a) \/ RefreshIfNeeded(a)
              \/ SwapReference(a) \/ ReleaseOld(a) \/ RefreshDone(a) \/ Unlock(a)
  BY <1>2, ActorsFinite DEF Refresh
<1> QED BY <1>1, <1>2 DEF Next, Begin, GoOn

LEMMA NextInv == Inv /\ [Next]_vars => Inv'
<1> SUFFICES ASSUME Inv, [Next]_vars PROVE Inv'
  OBVIOUS
<1>1. CASE Next
  BY <1>1, Steps, RunStep, EnsureOpenAndLockStep, ReadCurrentStep, TakeReferenceStep,
     RefreshIfNeededStep, SwapReferenceStep, ReleaseOldStep, RefreshDoneStep, UnlockStep, CallSteps,
     CloseManagerStep, ReleaseSearchedStep
<1>2. CASE UNCHANGED vars
  BY <1>2, StutteringStep
<1> QED BY <1>1, <1>2

\* No step but the swap of a refresh publishes a reader, and it publishes a newer one.
LEMMA NextNeverOlder ==
  Inv /\ [Next]_vars => (current # 0 /\ current' # 0 => readers'[current'].gen >= readers[current].gen)
<1> SUFFICES ASSUME Inv, [Next]_vars, current # 0, current' # 0
             PROVE  readers'[current'].gen >= readers[current].gen
  OBVIOUS
<1>1. /\ readers \in Seq(Reader) /\ current \in 1 .. Len(readers)
      /\ readers[current].gen \in Nat
  BY LenProperties, ReadersType DEF Inv, TypeOK
<1>2. ASSUME UNCHANGED current, \A q \in 1 .. Len(readers) : readers'[q].gen = readers[q].gen
      PROVE  readers'[current'].gen >= readers[current].gen
  BY <1>1, <1>2
<1>3. CASE UNCHANGED <<readers, current>>
  BY <1>2, <1>3
<1>4. ASSUME NEW a \in Actors, SwapReference(a) PROVE readers'[current'].gen >= readers[current].gen
  BY <1>4, SwapReferenceStep
<1>5. ASSUME NEW a \in Actors, TakeReference(a) PROVE readers'[current'].gen >= readers[current].gen
  <2>1. current' = current /\ ref[a] \in 1 .. Len(readers)
    BY <1>1, <1>5, LenProperties DEF TakeReference, Inv, TypeOK
  <2>2. readers' = readers \/ readers' = Raised(readers, ref[a])
    BY <1>5 DEF TakeReference, Raised
  <2>3. \A q \in 1 .. Len(readers) : readers'[q].gen = readers[q].gen
    BY <1>1, <2>1, <2>2, RaisedProperties
  <2> QED BY <1>2, <2>1, <2>3
<1>6. ASSUME NEW a \in Actors, RefreshIfNeeded(a) PROVE readers'[current'].gen >= readers[current].gen
  <2>1. UNCHANGED current /\ \A q \in 1 .. Len(readers) : readers'[q] = readers[q]
    BY <1>6, NewReaderProperties DEF RefreshIfNeeded, Inv
  <2> QED BY <1>2, <2>1
<1>7. ASSUME NEW a \in Actors, at[a] \in Using, UNCHANGED current, readers' = DecRef(readers, ref[a])
      PROVE  readers'[current'].gen >= readers[current].gen
  <2>1. ref[a] \in 1 .. Len(readers)
    BY <1>1, <1>7, LenProperties DEF Inv, TypeOK, ReadersPlaced
  <2>2. readers[ref[a]].count > 0
    BY <1>7, <2>1, UsedIsCounted DEF Inv
  <2>3. \A q \in 1 .. Len(readers) : readers'[q].gen = readers[q].gen
    BY <1>1, <1>7, <2>1, <2>2, DecRefProperties
  <2> QED BY <1>2, <1>7, <2>3
<1>8. ASSUME NEW a \in Actors, ReleaseOld(a) PROVE readers'[current'].gen >= readers[current].gen
  BY <1>7, <1>8 DEF ReleaseOld, Using
<1>9. ASSUME NEW t \in Threads, ReleaseSearched(t) PROVE readers'[current'].gen >= readers[current].gen
  BY <1>7, <1>9, ActorsFinite DEF ReleaseSearched, Using
<1>10. ASSUME NEW a \in Actors, EnsureOpenAndLock(a) \/ ReadCurrent(a) \/ RefreshDone(a) \/ Unlock(a)
       PROVE  UNCHANGED <<readers, current>>
  BY <1>10 DEF EnsureOpenAndLock, ReadCurrent, RefreshDone, Unlock, manager
<1>11. ASSUME NEW t \in Threads, \/ Index(t) \/ StartRefresh(t) \/ Finish(t) \/ WaitForGeneration(t)
                                \/ WaitTimesOut(t) \/ Joined(t)
       PROVE  UNCHANGED <<readers, current>>
  BY <1>11 DEF Index, StartRefresh, Finish, WaitForGeneration, WaitTimesOut, Joined, manager
<1>12. Run => UNCHANGED <<readers, current>>
  BY DEF Run, manager
<1>13. \A t \in Threads : ~CloseManager(t)
  BY DEF CloseManager
<1>14. CASE Next
  BY <1>3, <1>4, <1>5, <1>6, <1>8, <1>9, <1>10, <1>11, <1>12, <1>13, <1>14, Steps
<1>15. CASE UNCHANGED vars
  BY <1>3, <1>15 DEF vars, manager
<1> QED BY <1>14, <1>15

LEMMA InvImpliesVisible == Inv => ChangeIsVisible
<1> SUFFICES ASSUME Inv, NEW t \in Threads, at[t] = "searching", ~spoiled, ~finish
             PROVE  readers[ref[t]].gen >= target[t]
  BY DEF ChangeIsVisible
<1>1. ref[t] # 0
  BY ActorsFinite DEF Inv, ReadersPlaced, Using
<1> QED BY <1>1 DEF Inv, GensFollow

\* The inductive invariant, in every reachable state, whatever the threads do.
THEOREM Invariant == Spec => []Inv
<1> QED BY InitInv, NextInv, PTL DEF Spec

\* The variables keep their types, acquire never throws IllegalStateException, and
\* the refresh lock is held by exactly the thread between lock and unlock
\* (ReferenceManager.h:117-147, 197-317).
THEOREM Typing == Spec => []TypeOK
<1>1. Inv => TypeOK
  BY DEF Inv
<1> QED BY <1>1, Invariant, PTL

\* Every reader's count is that of those who have it, however many threads take,
\* give back, refresh and close; none is used after its last count is gone, and none
\* is left open without one (ReferenceManager.h:76-83, 117-147, 197-242).
THEOREM Counted == Spec => []ReadersCounted
<1>1. Inv => ReadersCounted
  BY DEF Inv
<1> QED BY <1>1, Invariant, PTL

\* A refresh never publishes an older reader in place of the current one
\* (ReferenceManager.h:267-317).
THEOREM NeverBack == Spec => NeverOlder
<1>1. Inv /\ [Next]_vars =>
        [current # 0 /\ current' # 0 => readers'[current'].gen >= readers[current].gen]_vars
  BY NextNeverOlder
<1> QED BY <1>1, Invariant, PTL DEF Spec, NeverOlder

\* Who has waited for a change searches a reader that shows it, as long as every
\* refresh is the reopen thread's and succeeds (ControlledRealTimeReopenThread.h:122-293).
THEOREM Visible == Spec => []ChangeIsVisible
<1> QED BY InvImpliesVisible, Invariant, PTL
=============================================================================
