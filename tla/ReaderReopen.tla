---------------------------- MODULE ReaderReopen ----------------------------
(***************************************************************************)
(* Near-real-time readers as an application uses them: a ReferenceManager  *)
(* hands out the current reader and refreshes it, and the thread of        *)
(* ControlledRealTimeReopenThread does so for those who wait until their   *)
(* change can be searched.  Refreshes of the application, failing ones,    *)
(* and the ends of manager and thread come in between.                     *)
(*                                                                         *)
(* A step ends where another thread may come in: at a read of the volatile *)
(* field current, at an atomic operation on a reference count, at the ends *)
(* of a monitor.  How long the reopen thread sleeps is left open, so that  *)
(* waitingGen, which only shortens the sleep, is left out.  A generation   *)
(* is the number of the last completed change.                             *)
(***************************************************************************)
EXTENDS Integers, Sequences, FiniteSets

CONSTANTS
  Threads,     \* of the application
  Reopener,    \* the thread of ControlledRealTimeReopenThread
  None,
  MaxGen,      \* changes in a behaviour
  MaxCalls,    \* further calls of each thread
  MaxFails     \* refreshes that fail

ASSUME ReaderReopenAssumption == Reopener \notin Threads /\ None \notin Threads \cup {Reopener}
ASSUME ThreadsAssumption == IsFiniteSet(Threads)
ASSUME BoundsAssumption == MaxGen \in Nat /\ MaxCalls \in Nat /\ MaxFails \in Nat

VARIABLES
  gen,          \* the last change that the writer has completed
  readers,      \* each with the generation it shows, its count, and whether it is open
  current,      \* the current reader, 0 after the manager is closed
  refreshLock,
  searchingGen, refreshStartGen, finish,
  at,           \* where each thread is
  ref, fresh,   \* the reader a thread uses, and the one it is about to publish
  target,       \* the generation an application's thread waits for
  calls,        \* left to each thread
  fails,
  spoiled,      \* history: a refresh has failed, or was not the reopen thread's
  takenBack     \* history: a refresh after the end of the reopen thread took back
                \* the generation that the end had set

manager == <<readers, current, refreshLock>>
reopen == <<searchingGen, refreshStartGen, finish, takenBack>>
history == <<calls, fails, spoiled>>
vars == <<gen, manager, reopen, at, ref, fresh, target, history>>

Actors == Threads \cup {Reopener}
Forever == MaxGen + 1   \* Long.MAX_VALUE

Init ==
  /\ gen = 0
  /\ readers = <<[gen |-> 0, count |-> 1, open |-> TRUE]>>
  /\ current = 1
  /\ refreshLock = None
  /\ searchingGen = 0 /\ refreshStartGen = 0 /\ finish = FALSE /\ takenBack = FALSE
  /\ at = [a \in Actors |-> IF a = Reopener THEN "sleep" ELSE "idle"]
  /\ ref = [a \in Actors |-> 0]
  /\ fresh = [a \in Actors |-> 0]
  /\ target = [t \in Threads |-> 0]
  /\ calls = [t \in Threads |-> MaxCalls]
  /\ fails = 0
  /\ spoiled = FALSE

Goto(a, place) == at' = [at EXCEPT ![a] = place]

-----------------------------------------------------------------------------
\* Counts of a reader.

\* decRef: the reader is closed with its last count.
DecRef(rs, r) ==
  [rs EXCEPT ![r] = [gen |-> @.gen, count |-> @.count - 1, open |-> @.count > 1]]

\* Mutant: the count is raised from zero.
IncRef(rs, r) == rs[r].count >= 0

\* tryIncRef: a count of zero is final.
TryIncRef(rs, r) == rs[r].count > 0

-----------------------------------------------------------------------------
\* acquire, by a searching thread or as part of a refresh.

Acquiring == {"acquire", "refreshAcquire"}

\* The current reader is read first ...
ReadCurrent(a) ==
  /\ at[a] \in Acquiring /\ ref[a] = 0
  /\ ref' = [ref EXCEPT ![a] = current]
  /\ IF current # 0 THEN UNCHANGED at
     ELSE Goto(a, IF at[a] = "acquire" THEN "idle" ELSE "unlockFailed")
  /\ UNCHANGED <<gen, manager, reopen, fresh, target, history>>

\* ... then counted, unless it has been closed meanwhile.
TakeReference(a) ==
  /\ at[a] \in Acquiring /\ ref[a] # 0
  /\ IF TryIncRef(readers, ref[a])
     THEN /\ readers' = [readers EXCEPT ![ref[a]].count = @ + 1]
          /\ Goto(a, IF at[a] = "acquire" THEN "searching" ELSE "refresh")
          /\ UNCHANGED ref
     ELSE /\ IF current = ref[a] THEN Goto(a, "illegalState") ELSE UNCHANGED at
          /\ ref' = [ref EXCEPT ![a] = 0]
          /\ UNCHANGED readers
  /\ UNCHANGED <<gen, current, refreshLock, reopen, fresh, target, history>>

-----------------------------------------------------------------------------
\* maybeRefresh, maybeRefreshBlocking

\* Where a refresh ends.  The reopen thread does not survive a failure.
AfterRefresh(a) == IF a = Reopener THEN "sleep" ELSE "idle"
AfterFailure(a) == IF a = Reopener THEN "died" ELSE "idle"

\* Mutant: a thread goes on although another one refreshes.
LockIgnored(a) == TRUE

RefreshLockFree(a) == refreshLock = None

EnsureOpenAndLock(a) ==
  /\ at[a] = "maybeRefresh"
  /\ \/ /\ current = 0
        /\ Goto(a, AfterFailure(a)) /\ UNCHANGED refreshLock
     \/ /\ current # 0 /\ RefreshLockFree(a)
        /\ refreshLock' = a /\ Goto(a, "refreshAcquire")
     \/ /\ current # 0 /\ ~RefreshLockFree(a) /\ a \in Threads   \* maybeRefresh
        /\ Goto(a, "idle") /\ UNCHANGED refreshLock
  /\ UNCHANGED <<gen, readers, current, reopen, ref, fresh, target, history>>

\* refreshIfNeeded: a new reader, if there are changes, or a failure
RefreshIfNeeded(a) ==
  /\ at[a] = "refresh"
  /\ \/ /\ gen > readers[ref[a]].gen
        /\ readers' = Append(readers, [gen |-> gen, count |-> 1, open |-> TRUE])
        /\ fresh' = [fresh EXCEPT ![a] = Len(readers) + 1]
        /\ Goto(a, "swap") /\ UNCHANGED <<fails, spoiled>>
     \/ /\ gen = readers[ref[a]].gen
        /\ Goto(a, "release") /\ UNCHANGED <<readers, fresh, fails, spoiled>>
     \/ /\ fails < MaxFails
        /\ fails' = fails + 1 /\ spoiled' = TRUE
        /\ Goto(a, "releaseFailed") /\ UNCHANGED <<readers, fresh>>
  /\ UNCHANGED <<gen, current, refreshLock, reopen, ref, target, calls>>

\* Mutant: the new reader is forgotten when the manager was closed meanwhile.
DropNothing(rs, r) == rs

\* The last block of the refresh releases a reader that was not published.
ReleaseNew(rs, r) == DecRef(rs, r)

\* swapReference
SwapReference(a) ==
  /\ at[a] = "swap"
  /\ IF current = 0
     THEN /\ readers' = ReleaseNew(readers, fresh[a])
          /\ Goto(a, "releaseFailed") /\ UNCHANGED current
     ELSE /\ current' = fresh[a]
          /\ readers' = DecRef(readers, current)
          /\ Goto(a, "release")
  /\ fresh' = [fresh EXCEPT ![a] = 0]
  /\ UNCHANGED <<gen, refreshLock, reopen, ref, target, history>>

ReleaseOld(a) ==
  /\ at[a] \in {"release", "releaseFailed"}
  /\ readers' = DecRef(readers, ref[a])
  /\ ref' = [ref EXCEPT ![a] = 0]
  /\ Goto(a, IF at[a] = "release" THEN "refreshed" ELSE "refreshFailed")
  /\ UNCHANGED <<gen, current, refreshLock, reopen, fresh, target, history>>

\* afterRefresh of the listener: refreshDone, whoever refreshed and with whatever result
RefreshDone(a) ==
  /\ at[a] \in {"refreshed", "refreshFailed"}
  /\ searchingGen' = refreshStartGen
  /\ spoiled' = (spoiled \/ a \in Threads)
  /\ takenBack' = (takenBack \/ searchingGen = Forever)
  /\ Goto(a, IF at[a] = "refreshed" THEN "unlock" ELSE "unlockFailed")
  /\ UNCHANGED <<gen, manager, refreshStartGen, finish, ref, fresh, target, calls, fails>>

Unlock(a) ==
  /\ at[a] \in {"unlock", "unlockFailed"}
  /\ refreshLock' = None
  /\ Goto(a, IF at[a] = "unlock" THEN AfterRefresh(a) ELSE AfterFailure(a))
  /\ UNCHANGED <<gen, readers, current, reopen, ref, fresh, target, history>>

Refresh(a) ==
  \/ EnsureOpenAndLock(a) \/ ReadCurrent(a) \/ TakeReference(a) \/ RefreshIfNeeded(a)
  \/ SwapReference(a) \/ ReleaseOld(a) \/ RefreshDone(a) \/ Unlock(a)

-----------------------------------------------------------------------------
\* The reopen thread.

\* Mutant: the number that the next change will get.
GenLater == gen + 1

\* The generation that the refresh will show is read before it starts.
MaxCompletedGen == gen

\* run, after a sleep of whatever length
Run ==
  /\ at[Reopener] = "sleep"
  /\ IF finish THEN Goto(Reopener, "finished") /\ UNCHANGED refreshStartGen
     ELSE refreshStartGen' = MaxCompletedGen /\ Goto(Reopener, "maybeRefresh")
  /\ UNCHANGED <<gen, manager, searchingGen, finish, takenBack, ref, fresh, target, history>>

-----------------------------------------------------------------------------
\* The threads of the application.

Call(t) == calls[t] > 0 /\ calls' = [calls EXCEPT ![t] = @ - 1]

\* A change is indexed, and will be waited for.
Index(t) ==
  /\ at[t] = "idle" /\ gen < MaxGen
  /\ gen' = gen + 1
  /\ target' = [target EXCEPT ![t] = gen + 1]
  /\ Goto(t, "waiting")
  /\ UNCHANGED <<manager, reopen, ref, fresh, history>>

\* waitForGeneration ends; with a time limit it may end before.
WaitForGeneration(t) ==
  /\ at[t] = "waiting"
  /\ target[t] <= searchingGen
  /\ Goto(t, "acquire")
  /\ UNCHANGED <<gen, manager, reopen, ref, fresh, target, history>>

WaitTimesOut(t) ==
  /\ at[t] = "waiting"
  /\ target[t] > searchingGen
  /\ Call(t)
  /\ target' = [target EXCEPT ![t] = 0]
  /\ Goto(t, "acquire")
  /\ UNCHANGED <<gen, manager, reopen, ref, fresh, fails, spoiled>>

ReleaseSearched(t) ==
  /\ at[t] = "searching"
  /\ readers' = DecRef(readers, ref[t])
  /\ ref' = [ref EXCEPT ![t] = 0]
  /\ target' = [target EXCEPT ![t] = 0]
  /\ Goto(t, "idle")
  /\ UNCHANGED <<gen, current, refreshLock, reopen, fresh, history>>

StartRefresh(t) ==
  /\ at[t] = "idle" /\ Call(t)
  /\ Goto(t, "maybeRefresh")
  /\ UNCHANGED <<gen, manager, reopen, ref, fresh, target, fails, spoiled>>

\* ReferenceManager.close, which may be repeated
CloseManager(t) ==
  /\ at[t] = "idle" /\ Call(t)
  /\ current' = 0
  /\ readers' = IF current = 0 THEN readers ELSE DecRef(readers, current)
  /\ UNCHANGED <<gen, refreshLock, reopen, at, ref, fresh, target, fails, spoiled>>

\* ControlledRealTimeReopenThread.close: the monitor is free during the join,
\* which waits on the thread itself.
Finish(t) ==
  /\ at[t] = "idle" /\ Call(t)
  /\ finish' = TRUE
  /\ Goto(t, "join")
  /\ UNCHANGED <<gen, manager, searchingGen, refreshStartGen, takenBack, ref, fresh, target,
                 fails, spoiled>>

\* Mutant: those who wait are left waiting.
LeaveWaiting == searchingGen

ReleaseWaiting == Forever

Joined(t) ==
  /\ at[t] = "join" /\ at[Reopener] \in {"finished", "died"}
  /\ searchingGen' = ReleaseWaiting /\ takenBack' = FALSE
  /\ Goto(t, "idle")
  /\ UNCHANGED <<gen, manager, refreshStartGen, finish, ref, fresh, target, history>>

-----------------------------------------------------------------------------
Begin(t) == Index(t) \/ StartRefresh(t) \/ CloseManager(t) \/ Finish(t)

GoOn(t) ==
  Refresh(t) \/ WaitForGeneration(t) \/ ReleaseSearched(t) \/ Joined(t)

Next ==
  \/ Run \/ Refresh(Reopener)
  \/ \E t \in Threads : Begin(t) \/ GoOn(t) \/ WaitTimesOut(t)

Spec == Init /\ [][Next]_vars

\* Threads that can go on do; a wait without a limit does not time out.
FairSpec ==
  Spec /\ WF_vars(Run \/ Refresh(Reopener)) /\ \A t \in Threads : WF_vars(GoOn(t))

-----------------------------------------------------------------------------
\* The places of a thread that has the refresh lock, and of one that has counted
\* the reader it uses.
Refreshing == {"refreshAcquire", "refresh", "swap", "release", "releaseFailed",
               "refreshed", "refreshFailed", "unlock", "unlockFailed"}
Using == {"searching", "refresh", "swap", "release", "releaseFailed"}
Places == Refreshing \cup Using \cup {"idle", "waiting", "acquire", "join", "sleep", "finished",
                                      "died", "maybeRefresh"}

Reader == [gen : 0 .. MaxGen, count : Nat, open : BOOLEAN]

\* The variables have their types, no thread gets to the IllegalStateException of
\* acquire, and the lock belongs to the thread that refreshes.
TypeOK ==
  /\ gen \in 0 .. MaxGen
  /\ readers \in Seq(Reader) /\ current \in 0 .. Len(readers)
  /\ searchingGen \in 0 .. Forever /\ refreshStartGen \in 0 .. MaxGen /\ finish \in BOOLEAN
  /\ at \in [Actors -> Places]
  /\ ref \in [Actors -> 0 .. Len(readers)] /\ fresh \in [Actors -> 0 .. Len(readers)]
  /\ target \in [Threads -> 0 .. MaxGen] /\ calls \in [Threads -> 0 .. MaxCalls]
  /\ fails \in 0 .. MaxFails /\ spoiled \in BOOLEAN /\ takenBack \in BOOLEAN
  /\ refreshLock \in Actors \cup {None}
  /\ \A a \in Actors : at[a] \in Refreshing <=> refreshLock = a

\* The threads that have counted reader r, and those about to publish it
Users(r) == {a \in Actors : ref[a] = r /\ at[a] \in Using}
Publishers(r) == {a \in Actors : fresh[a] = r}

\* Each reader has one count for being current, one for each thread that uses it
\* and one while it waits to be published; it is open exactly as long as it has
\* any, so none is used after it was closed and none is left open
\* (ReferenceManager.h:76-83, 117-147, 197-242, IndexReader.cpp:67-108).
ReadersCounted ==
  \A r \in DOMAIN readers :
    /\ readers[r].count = Cardinality(Users(r)) + Cardinality(Publishers(r))
                          + (IF current = r THEN 1 ELSE 0)
    /\ readers[r].open <=> readers[r].count > 0

\* A refresh never goes back to an older reader (the refresh lock,
\* ReferenceManager.h:267-317).
NeverOlder ==
  [][current # 0 /\ current' # 0 => readers'[current'].gen >= readers[current].gen]_vars

\* A thread that waited for its change and was not sent on by the end of the
\* reopen thread searches a reader that shows it, as long as no refresh has failed
\* and only the reopen thread refreshes (ControlledRealTimeReopenThread.h:122-127,
\* 194-233, 235-293).
ChangeIsVisible ==
  \A t \in Threads :
    at[t] = "searching" /\ ~spoiled /\ ~finish => readers[ref[t]].gen >= target[t]

\* "Returns which generation the current searcher is guaranteed to include"
\* (ControlledRealTimeReopenThread.h:295), as long as no refresh has failed.
SearchingGenIsIncluded ==
  current # 0 /\ fails = 0 /\ ~finish => searchingGen <= readers[current].gen

\* Those who wait for a generation and whom nothing will send on before the next
\* close of the reopen thread: it has died, by a failed refresh or because the
\* manager was closed, or the refreshDone of an application's refresh came after the
\* end of the thread (ControlledRealTimeReopenThread.h:122-127, 155-157).
Abandoned(t) == /\ at[t] = "waiting" /\ target[t] > searchingGen
                /\ at[Reopener] = "died" \/ takenBack

\* Every call ends: refreshes, searches, closes, and a wait for a generation, unless
\* it is abandoned.  No thread waits for ever for the refresh lock or for the end of
\* the reopen thread, whatever refreshes fail and whoever refreshes.
CallsEnd == \A t \in Threads : at[t] # "idle" ~> at[t] = "idle" \/ Abandoned(t)
=============================================================================
