------------------------ MODULE FlushControlFullProofs ------------------------
EXTENDS FlushControlProofs

------------------------------------------------------------------------------
\* The generations of the delete queue in a full flush

\* Main waits for the flushes of the full flush, or it does not full flush.
FlushingPcs == {"next", "scan", "flush", "waitForFlush"}
OtherPcs == {"idle", "setAbort", "abort", "waitAbort", "cleared"}

OldFrom(s) == fc.states[s].dwpt # None /\ Stale(fc.states[s].dwpt)

\* There are at most two generations, and the old one is left behind step by
\* step: after the marking no ThreadState has it, and in the end no live DWPT.
Queues ==
    /\ fc.fullFlush <=> call[Main].pc \in FullFlushPcs
    /\ \A d \in Live : dwpts[d].queue \in {deleteQueue, deleteQueue - 1}
    /\ call[Main].pc \notin FlushingPcs \cup {"mark", "setQueue"} => \A d \in Live : ~Stale(d)
    /\ call[Main].pc # "mark" => /\ \A d \in InStates(fc) \cup Blocked(fc) : ~Stale(d)
                                 /\ fc.fullFlushBuffer = <<>>
    /\ ~fc.fullFlush => fc.blockedFlushes = <<>>
    /\ call[Main].pc = "mark" => \A s \in DOMAIN fc.states :
          OldFrom(s) => call[Main].state <= s /\ s <= call[Main].left
    /\ currentFullFlushDelQueue = IF call[Main].pc \in FlushingPcs \cup {"flushed"}
                                    THEN deleteQueue - 1 ELSE 0

\* A step of a thread: DWPTs that are new are of the current queue, what was
\* blocked in it came from a ThreadState, and only old ones are buffered.
TableKept ==
    \A d \in Live' : \/ d \in Live /\ dwpts'[d].queue = dwpts[d].queue
                     \/ d \notin Live /\ dwpts'[d].queue = deleteQueue
StatesFollow ==
    \A s \in DOMAIN fc'.states : fc'.states[s].dwpt # None =>
        \/ s \in DOMAIN fc.states /\ fc'.states[s].dwpt = fc.states[s].dwpt
        \/ dwpts'[fc'.states[s].dwpt].queue = deleteQueue
BlockedFollow ==
    /\ Blocked(fc') \subseteq Blocked(fc) \cup InStates(fc)
    /\ \/ fc.fullFlush
       \/ fc'.blockedFlushes \in {fc.blockedFlushes, <<>>}
BufferFollows == \/ fc'.fullFlushBuffer = fc.fullFlushBuffer
                 \/ \E s \in DOMAIN fc.states : OldFrom(s)
MainStays == \/ call'[Main] = call[Main]
             \/ call'[Main].pc \in FlushingPcs /\ call[Main].pc \in FlushingPcs
             \/ call'[Main].pc \in OtherPcs /\ call[Main].pc \in OtherPcs
QueuesSame == UNCHANGED queueVars /\ fc'.fullFlush = fc.fullFlush

LEMMA PlacesLive ==
  ASSUME FCInv
  PROVE  /\ InStates(fc) \subseteq Live /\ Blocked(fc) \subseteq Live /\ Flushed(fc) \subseteq Live
         /\ Live = InStates(fc) \cup Blocked(fc) \cup Flushed(fc)
         /\ \A s \in DOMAIN fc.states :
               fc.states[s].dwpt # None => fc.states[s].dwpt \in InStates(fc)
<1>1. Live = InStates(fc) \cup Blocked(fc) \cup Flushed(fc)
  BY DEF FCInv, Core, Held
<1>2. \A s \in DOMAIN fc.states : fc.states[s].dwpt # None => fc.states[s].dwpt \in InStates(fc)
  BY DEF InStates
<1> QED BY <1>1, <1>2

LEMMA QueuesStep ==
  ASSUME FCInv, FCInv', Queues, TableKept, StatesFollow, BlockedFollow, BufferFollows,
         MainStays, QueuesSame
  PROVE  Queues'
<1> DEFINE m == call[Main].pc
           n == call'[Main].pc
<1>1. deleteQueue' = deleteQueue /\ currentFullFlushDelQueue' = currentFullFlushDelQueue
  BY DEF QueuesSame, queueVars
<1>2. /\ m \in FullFlushPcs <=> n \in FullFlushPcs
      /\ m \in FlushingPcs \cup {"mark", "setQueue"} <=> n \in FlushingPcs \cup {"mark", "setQueue"}
      /\ m \in FlushingPcs \cup {"flushed"} <=> n \in FlushingPcs \cup {"flushed"}
      /\ m = "mark" <=> n = "mark"
      /\ n = "mark" => call'[Main].state = call[Main].state /\ call'[Main].left = call[Main].left
  BY DEF MainStays, FlushingPcs, OtherPcs, FullFlushPcs
<1>3. /\ InStates(fc') \subseteq Live' /\ Blocked(fc') \subseteq Live'
      /\ \A s \in DOMAIN fc'.states : fc'.states[s].dwpt # None
            => fc'.states[s].dwpt \in InStates(fc')
  <2>1. Live' = InStates(fc') \cup Blocked(fc') \cup Flushed(fc')
    BY DEF FCInv, Core, Held
  <2>2. \A s \in DOMAIN fc'.states : fc'.states[s].dwpt # None
           => fc'.states[s].dwpt \in InStates(fc')
    BY DEF InStates
  <2> QED BY <2>1, <2>2
<1>4. \A d \in Live' : \/ d \in Live /\ dwpts'[d].queue = dwpts[d].queue
                       \/ dwpts'[d].queue = deleteQueue
  BY DEF TableKept
<1>5. \A d \in Live' : Stale(d)' => d \in Live /\ Stale(d)
  BY <1>1, <1>4 DEF Stale
<1>6. fc'.fullFlush <=> n \in FullFlushPcs
  BY <1>2 DEF Queues, QueuesSame
<1>7. \A d \in Live' : dwpts'[d].queue \in {deleteQueue', deleteQueue' - 1}
  BY <1>1, <1>4 DEF Queues
<1>8. n \notin FlushingPcs \cup {"mark", "setQueue"} => \A d \in Live' : ~Stale(d)'
  BY <1>2, <1>5 DEF Queues
<1>9. ASSUME n # "mark"
      PROVE  /\ \A d \in InStates(fc') \cup Blocked(fc') : ~Stale(d)'
             /\ fc'.fullFlushBuffer = <<>>
  <2>1. /\ \A d \in InStates(fc) \cup Blocked(fc) : ~Stale(d)
        /\ fc.fullFlushBuffer = <<>>
    BY <1>2, <1>9 DEF Queues
  <2>2. \A d \in Blocked(fc') : ~Stale(d)'
    BY <1>3, <1>5, <2>1 DEF BlockedFollow
  <2>3. ASSUME NEW d \in InStates(fc')
        PROVE  ~Stale(d)'
    <3>1. PICK s \in DOMAIN fc'.states : fc'.states[s].dwpt = d /\ d # None
      BY <2>3 DEF InStates
    <3>2. CASE s \in DOMAIN fc.states /\ fc'.states[s].dwpt = fc.states[s].dwpt
      <4>1. d \in InStates(fc)
        BY <3>1, <3>2 DEF InStates
      <4> QED BY <1>3, <1>5, <2>1, <4>1
    <3>3. CASE dwpts'[fc'.states[s].dwpt].queue = deleteQueue
      BY <1>1, <3>1, <3>3 DEF Stale
    <3> QED BY <3>1, <3>2, <3>3 DEF StatesFollow
  <2>4. fc'.fullFlushBuffer = <<>>
    <3>1. ~\E s \in DOMAIN fc.states : OldFrom(s)
      BY <2>1 DEF OldFrom, InStates
    <3> QED BY <2>1, <3>1 DEF BufferFollows
  <2> QED BY <2>2, <2>3, <2>4
<1>10. ~fc'.fullFlush => fc'.blockedFlushes = <<>>
  BY DEF BlockedFollow, QueuesSame, Queues
<1>11. ASSUME n = "mark", NEW s \in DOMAIN fc'.states, fc'.states[s].dwpt # None,
              dwpts'[fc'.states[s].dwpt].queue # deleteQueue
       PROVE  call'[Main].state <= s /\ s <= call'[Main].left
  <2>1. s \in DOMAIN fc.states /\ fc'.states[s].dwpt = fc.states[s].dwpt
    BY <1>11 DEF StatesFollow
  <2>2. fc'.states[s].dwpt \in Live'
    BY <1>3, <1>11
  <2>3. Stale(fc.states[s].dwpt)
    BY <1>4, <1>11, <2>1, <2>2 DEF Stale
  <2>4. OldFrom(s)
    BY <1>11, <2>1, <2>3 DEF OldFrom
  <2> QED BY <1>2, <1>11, <2>1, <2>4 DEF Queues
<1>12. n = "mark" => \A s \in DOMAIN fc'.states :
          OldFrom(s)' => call'[Main].state <= s /\ s <= call'[Main].left
  BY <1>1, <1>11 DEF OldFrom, Stale
<1>13. currentFullFlushDelQueue' = IF n \in FlushingPcs \cup {"flushed"}
                                     THEN deleteQueue' - 1 ELSE 0
  BY <1>1, <1>2 DEF Queues
<1> QED BY <1>6, <1>7, <1>8, <1>9, <1>10, <1>13, <1>12 DEF Queues

------------------------------------------------------------------------------
\* What the operations of a thread do to the places of the DWPTs

\* From f to g DWPTs only leave ThreadStates; they are blocked in a full flush only.
Follows(f, g) ==
    /\ g.fullFlush = f.fullFlush /\ DOMAIN g.states = DOMAIN f.states
    /\ \A s \in DOMAIN f.states : g.states[s].dwpt \in {f.states[s].dwpt, None}
    /\ Blocked(g) \subseteq Blocked(f) \cup InStates(f)
    /\ f.fullFlush \/ g.blockedFlushes = f.blockedFlushes
    /\ g.fullFlushBuffer = f.fullFlushBuffer

LEMMA FollowsInStates ==
  ASSUME NEW f, NEW g, Follows(f, g)
  PROVE  InStates(g) \subseteq InStates(f)
BY DEF Follows, InStates

LEMMA FollowsTwice ==
  ASSUME NEW f, NEW g, NEW h, Follows(f, g), Follows(g, h)
  PROVE  Follows(f, h)
<1>1. InStates(g) \subseteq InStates(f)
  BY FollowsInStates
<1> QED BY <1>1 DEF Follows

LEMMA FollowsItself ==
  ASSUME NEW f
  PROVE  Follows(f, f)
BY DEF Follows

LEMMA KeptFollows ==
  ASSUME NEW f, NEW g, Kept(f, g)
  PROVE  Follows(f, g)
BY DEF Kept, SameQueues, Follows, Blocked, Range

LEMMA PollFollows ==
  ASSUME NEW f \in FcRec
  PROVE  Follows(f, PollFlush(f))
<1>1. PollFlush(f).states = f.states /\ PollFlush(f).fullFlush = f.fullFlush
      /\ PollFlush(f).blockedFlushes = f.blockedFlushes
      /\ PollFlush(f).fullFlushBuffer = f.fullFlushBuffer
  BY DEF PollFlush, FcRec
<1> QED BY <1>1 DEF Follows, Blocked

LEMMA CheckOutFollows ==
  ASSUME NEW f \in FcRec, NEW s \in DOMAIN f.states
  PROVE  Follows(f, CheckOut(f, s))
<1> DEFINE g == CheckOut(f, s)
<1>1. /\ g.states = [f.states EXCEPT ![s] = Uninitialized] /\ g.fullFlush = f.fullFlush
      /\ g.blockedFlushes = f.blockedFlushes /\ g.fullFlushBuffer = f.fullFlushBuffer
  BY DEF CheckOut, FcRec
<1>2. f.states \in Seq(StateRec)
  BY DEF FcRec
<1> HIDE DEF g
<1>3. /\ DOMAIN g.states = DOMAIN f.states /\ g.states[s] = Uninitialized
      /\ \A r \in DOMAIN f.states \ {s} : g.states[r] = f.states[r]
  BY <1>1, <1>2
<1>4. \A r \in DOMAIN f.states : g.states[r].dwpt \in {f.states[r].dwpt, None}
  BY <1>3 DEF Uninitialized
<1> QED BY <1>1, <1>3, <1>4 DEF Follows, Blocked, g

LEMMA BlockFollows ==
  ASSUME NEW f \in FcRec, NEW s \in DOMAIN f.states, f.states[s].dwpt # None, f.fullFlush
  PROVE  Follows(f, Block(f, s))
<1> DEFINE g == Block(f, s)
           w == [dwpt |-> f.states[s].dwpt, bytes |-> f.states[s].bytesUsed]
<1>1. /\ g.states = [f.states EXCEPT ![s] = Uninitialized] /\ g.fullFlush = f.fullFlush
      /\ g.blockedFlushes = Append(f.blockedFlushes, w) /\ g.fullFlushBuffer = f.fullFlushBuffer
  BY DEF Block, FcRec
<1>2. f.states \in Seq(StateRec) /\ f.blockedFlushes \in Seq(Flushing) /\ w \in Flushing
  <2>1. f.states \in Seq(StateRec) /\ f.blockedFlushes \in Seq(Flushing)
    BY DEF FcRec
  <2>2. f.states[s] \in StateRec
    BY <2>1
  <2> QED BY <2>1, <2>2 DEF Flushing, StateRec
<1>3. w.dwpt = f.states[s].dwpt
  OBVIOUS
<1> HIDE DEF g, w
<1>4. /\ DOMAIN g.states = DOMAIN f.states /\ g.states[s] = Uninitialized
      /\ \A r \in DOMAIN f.states \ {s} : g.states[r] = f.states[r]
  BY <1>1, <1>2
<1>5. \A r \in DOMAIN f.states : g.states[r].dwpt \in {f.states[r].dwpt, None}
  BY <1>4 DEF Uninitialized
<1>6. Range(g.blockedFlushes) = Range(f.blockedFlushes) \cup {w}
  BY <1>1, <1>2, Appended
<1>7. f.states[s].dwpt \in InStates(f)
  BY DEF InStates
<1>8. Blocked(g) \subseteq Blocked(f) \cup InStates(f)
  BY <1>3, <1>6, <1>7 DEF Blocked, DwptsOf
<1> QED BY <1>1, <1>4, <1>5, <1>8 DEF Follows, g

\* A step whose new flush control follows the old one
LEMMA FollowsStep ==
  ASSUME FCInv, FCInv', Queues, Follows(fc, fc'), TableKept, MainStays, UNCHANGED queueVars
  PROVE  Queues'
<1>1. /\ DOMAIN fc'.states = DOMAIN fc.states
      /\ \A s \in DOMAIN fc.states : fc'.states[s].dwpt \in {fc.states[s].dwpt, None}
      /\ Blocked(fc') \subseteq Blocked(fc) \cup InStates(fc)
      /\ fc.fullFlush \/ fc'.blockedFlushes = fc.blockedFlushes
      /\ fc'.fullFlushBuffer = fc.fullFlushBuffer /\ fc'.fullFlush = fc.fullFlush
  BY DEF Follows
<1>2. StatesFollow
  BY <1>1 DEF StatesFollow
<1>3. BlockedFollow /\ BufferFollows /\ QueuesSame
  BY <1>1 DEF BlockedFollow, BufferFollows, QueuesSame
<1> QED BY <1>2, <1>3, QueuesStep

LEMMA SameTable ==
  ASSUME UNCHANGED dwpts
  PROVE  TableKept
BY DEF TableKept, Live
------------------------------------------------------------------------------
\* What a thread leaves of the old generation

LEMMA NextPendingFollows ==
  ASSUME NEW f \in FcRec, NEW t
  PROVE  Follows(f, NextPending(t, f).f)
<1> DEFINE pending == {r \in DOMAIN f.states : f.states[r].flushPending /\ CanLock(t, r)}
           first == CHOOSE r \in pending : \A o \in pending : r <= o
<1>1. NextPending(t, f).f = IF f.flushQueue # <<>> THEN PollFlush(f)
                            ELSE IF ~f.fullFlush /\ pending # {} THEN CheckOut(f, first) ELSE f
  BY DEF NextPending
<1>2. pending # {} => first \in DOMAIN f.states
  <2>1. SUFFICES ASSUME pending # {}
                 PROVE  \E r \in pending : \A o \in pending : r <= o
    <3> HIDE DEF pending
    <3>1. pending # {} => first \in pending
      BY <2>1
    <3> QED BY <3>1 DEF pending
  <2>2. pending \subseteq Nat
    <3>1. f.states \in Seq(StateRec)
      BY DEF FcRec
    <3>2. DOMAIN f.states \subseteq Nat
      BY <3>1
    <3> QED BY <3>2
  <2> QED BY <2>1, <2>2, LeastNumber
<1> HIDE DEF pending, first
<1> QED BY <1>1, <1>2, PollFollows, CheckOutFollows, FollowsItself

LEMMA OtherCall ==
  ASSUME FCInv, NEW t \in Threads, NEW c, call' = [call EXCEPT ![t] = c]
  PROVE  MainStays
<1>1. Main \in Callers /\ call \in [Callers -> CallRec] /\ t # Main
  BY Fields, ThreadsAssumption
<1> QED BY <1>1 DEF MainStays

LEMMA PollQueues ==
  ASSUME FCInv, FCInv', Queues, NEW t \in Callers, NextPendingFlush(t)
  PROVE  Queues'
<1>1. /\ call[t].pc = "next" /\ fc' = PollFlush(fc) /\ UNCHANGED dwpts /\ UNCHANGED queueVars
  BY DEF NextPendingFlush
<1>2. fc \in FcRec /\ Main \in Callers /\ call \in [Callers -> CallRec]
      /\ CallOK(Main, call[Main], Len(fc.states))
  BY Fields
<1>3. MainStays
  <2>1. CASE t # Main
    <3>1. call'[Main] = call[Main]
      BY <1>2, <2>1 DEF NextPendingFlush
    <3> QED BY <3>1 DEF MainStays
  <2>2. CASE t = Main
    <3>1. call[Main].pc = "next" /\ call[Main].ctx = "fullFlush" /\ call[Main] \in CallRec
      BY <1>1, <1>2, <2>2 DEF CallOK
    <3>2. NothingPending(Main).pc \in {"next", "waitForFlush"}
      BY <3>1 DEF NothingPending, AfterDoFlush, At
    <3>3. \/ call' = [call EXCEPT ![Main].pc = "flush", ![Main].dwpt = Polled(fc)]
          \/ call' = [call EXCEPT ![Main] = [call[Main] EXCEPT !.pc = "scan", !.state = 1,
                                                              !.left = ActiveThreadStateCount]]
          \/ call' = [call EXCEPT ![Main] = NothingPending(Main)]
      BY <2>2 DEF NextPendingFlush
    <3>4. call'[Main].pc \in FlushingPcs
      <4>1. CASE call' = [call EXCEPT ![Main].pc = "flush", ![Main].dwpt = Polled(fc)]
        <5>1. call'[Main].pc = "flush"
          BY <1>2, <3>1, <4>1 DEF CallRec
        <5> QED BY <5>1 DEF FlushingPcs
      <4>2. CASE call' = [call EXCEPT ![Main] = [call[Main] EXCEPT !.pc = "scan", !.state = 1,
                                                              !.left = ActiveThreadStateCount]]
        <5>1. call'[Main].pc = "scan"
          BY <1>2, <3>1, <4>2 DEF CallRec
        <5> QED BY <5>1 DEF FlushingPcs
      <4>3. CASE call' = [call EXCEPT ![Main] = NothingPending(Main)]
        <5>1. call'[Main] = NothingPending(Main)
          BY <1>2, <4>3
        <5> QED BY <3>2, <5>1 DEF FlushingPcs
      <4> QED BY <3>3, <4>1, <4>2, <4>3
    <3> QED BY <3>1, <3>4 DEF MainStays, FlushingPcs
  <2> QED BY <2>1, <2>2
<1>4. Follows(fc, fc')
  BY <1>1, <1>2, PollFollows
<1> QED BY <1>1, <1>3, <1>4, SameTable, FollowsStep

LEMMA ScanQueues ==
  ASSUME FCInv, FCInv', Queues, NEW t \in Callers, ScanPending(t)
  PROVE  Queues'
<1> DEFINE s == call[t].state
           taken == At("flush", None, fc.states[s].dwpt, call[t].ctx, call[t].nested, 0)
<1>1. /\ call[t].pc = "scan" /\ UNCHANGED dwpts /\ UNCHANGED queueVars
      /\ \/ fc' = fc
         \/ s <= call[t].left /\ fc' = CheckOut(fc, s)
      /\ \/ call' = [call EXCEPT ![t] = NothingPending(t)]
         \/ call' = [call EXCEPT ![t].state = s + 1]
         \/ call' = [call EXCEPT ![t] = taken]
  <2>1. /\ call[t].pc = "scan" /\ UNCHANGED dwpts /\ UNCHANGED queueVars
    BY DEF ScanPending
  <2>2. CallOK(t, call[t], Len(fc.states)) /\ call[t] \in CallRec /\ Len(fc.states) \in Nat
    BY Fields
  <2>3. call[t].state \in Nat /\ call[t].left \in Nat
    BY <2>2 DEF CallRec
  <2>4. \/ s > call[t].left /\ fc' = fc
        \/ s <= call[t].left /\ fc' \in {fc, CheckOut(fc, s)}
    BY <2>3 DEF ScanPending
  <2>5. \/ call' = [call EXCEPT ![t] = NothingPending(t)]
        \/ call' = [call EXCEPT ![t].state = s + 1]
        \/ call' = [call EXCEPT ![t] = taken]
    BY DEF ScanPending
  <2> QED BY <2>1, <2>4, <2>5
<1>2. /\ fc \in FcRec /\ Main \in Callers /\ call \in [Callers -> CallRec] /\ call[t] \in CallRec
      /\ CallOK(t, call[t], Len(fc.states)) /\ DOMAIN fc.states = 1 .. Len(fc.states)
      /\ Len(fc.states) \in Nat
  BY Fields
<1>3. s <= call[t].left => s \in DOMAIN fc.states
  BY <1>1, <1>2 DEF CallOK, CallRec
<1>4. Follows(fc, fc')
  BY <1>1, <1>2, <1>3, FollowsItself, CheckOutFollows
<1>5. MainStays
  <2>1. CASE t # Main
    <3> HIDE DEF taken, s
    <3>1. call'[Main] = call[Main]
      BY <1>1, <1>2, <2>1
    <3> QED BY <3>1 DEF MainStays
  <2>2. CASE t = Main
    <3>1. call[Main].pc = "scan" /\ call[Main].ctx = "fullFlush" /\ call[Main] \in CallRec
      BY <1>1, <1>2, <2>2 DEF CallOK
    <3>2. NothingPending(Main).pc \in {"next", "waitForFlush"} /\ taken.pc = "flush"
      BY <3>1 DEF NothingPending, AfterDoFlush, At
    <3> HIDE DEF taken, s
    <3>3. call'[Main].pc \in {"next", "waitForFlush", "scan", "flush"}
      <4>1. CASE call' = [call EXCEPT ![t] = NothingPending(t)]
        BY <1>2, <2>2, <3>2, <4>1
      <4>2. CASE call' = [call EXCEPT ![t].state = s + 1]
        BY <1>2, <2>2, <3>1, <4>2 DEF CallRec
      <4>3. CASE call' = [call EXCEPT ![t] = taken]
        BY <1>2, <2>2, <3>2, <4>3
      <4> QED BY <1>1, <4>1, <4>2, <4>3
    <3> QED BY <3>1, <3>3 DEF MainStays, FlushingPcs
  <2> QED BY <2>1, <2>2
<1> QED BY <1>1, <1>4, <1>5, SameTable, FollowsStep

\* DWPTs that are done drop out of the table of those that are live.
LEMMA FewerLive ==
  ASSUME Live' \subseteq Live, \A d \in Live' : dwpts'[d] = dwpts[d]
  PROVE  TableKept
BY DEF TableKept

LEMMA FinishedKeeps ==
  ASSUME FCInv, NEW d \in DOMAIN dwpts, NEW status \in {"flushed", "aborted", "empty"},
         dwpts' = Finished(d, status)
  PROVE  TableKept
<1>1. /\ LiveIn(dwpts') = Live \ {d}
      /\ \A e \in DOMAIN dwpts \ {d} : dwpts'[e] = dwpts[e]
  BY Fields, FinishedLive
<1>2. Live' = Live \ {d} /\ Live \subseteq DOMAIN dwpts
  BY <1>1, LiveIsIn, NoneNowhere
<1>3. Live' \subseteq Live /\ \A e \in Live' : dwpts'[e] = dwpts[e]
  BY <1>1, <1>2
<1> QED BY <1>3, FewerLive

LEMMA FlushQueues ==
  ASSUME FCInv, FCInv', Queues, NEW t \in Callers, NEW backlog \in BOOLEAN, Flush(t, backlog)
  PROVE  Queues' /\ TableKept
<1> DEFINE d == call[t].dwpt
           c == IF backlog THEN AfterDoFlush(call[t].ctx)
                           ELSE At("next", None, None, call[t].ctx, TRUE, 0)
<1>1. /\ call[t].pc = "flush" /\ fc' = AfterFlush(fc, d) /\ dwpts' = Finished(d, "flushed")
      /\ UNCHANGED queueVars /\ call' = [call EXCEPT ![t] = c]
  BY DEF Flush
<1>2. /\ fc \in FcRec /\ Main \in Callers /\ call \in [Callers -> CallRec] /\ t \in Callers
      /\ CallOK(t, call[t], Len(fc.states))
  BY Fields
<1>3. Follows(fc, fc')
  <2>1. /\ fc'.states = fc.states /\ fc'.fullFlush = fc.fullFlush
        /\ fc'.blockedFlushes = fc.blockedFlushes /\ fc'.fullFlushBuffer = fc.fullFlushBuffer
    BY <1>1, <1>2 DEF AfterFlush, FcRec
  <2> QED BY <2>1 DEF Follows, Blocked
<1>4. TableKept
  <2>1. d \in Hands(call)
    BY <1>1, <1>2 DEF Hands, CallOK
  <2>2. d \in Flushed(fc)
    BY <2>1, Fields DEF Held
  <2>3. d \in DOMAIN dwpts
    BY <2>2, PlacesLive, NoneNowhere
  <2> HIDE DEF d
  <2> QED BY <1>1, <2>3, FinishedKeeps
<1>5. MainStays
  <2>1. CASE t # Main
    <3> HIDE DEF c
    <3>1. call'[Main] = call[Main]
      BY <1>1, <1>2, <2>1
    <3> QED BY <3>1 DEF MainStays
  <2>2. CASE t = Main
    <3>1. call[Main].pc = "flush" /\ call[Main].ctx = "fullFlush"
      BY <1>1, <1>2, <2>2 DEF CallOK
    <3>2. c.pc = "next"
      BY <2>2, <3>1 DEF AfterDoFlush, At
    <3> HIDE DEF c
    <3>3. call'[Main].pc = "next"
      BY <1>1, <1>2, <2>2, <3>2
    <3> QED BY <3>1, <3>3 DEF MainStays, FlushingPcs
  <2> QED BY <2>1, <2>2
<1> QED BY <1>1, <1>3, <1>4, <1>5, FollowsStep

LEMMA FlushStepsQueues ==
  ASSUME FCInv, FCInv', Queues, NEW t \in Callers, FlushSteps(t)
  PROVE  Queues'
BY PollQueues, ScanQueues, FlushQueues DEF FlushSteps

\* Nothing moves.
LEMMA StillQueues ==
  ASSUME FCInv, FCInv', Queues, fc' = fc, TableKept, MainStays, UNCHANGED queueVars
  PROVE  Queues'
BY FollowsItself, FollowsStep

LEMMA QuietQueues ==
  ASSUME FCInv, FCInv', Queues, NEW t \in Threads,
         \/ StartUpdate(t) \/ StartFlushNext(t) \/ WaitIfStalled(t) \/ WakeUp(t) \/ FindLargest(t)
         \/ Release(t)
  PROVE  Queues'
<1>1. UNCHANGED fc /\ UNCHANGED dwpts /\ UNCHANGED queueVars
  BY DEF StartUpdate, StartFlushNext, WaitIfStalled, WakeUp, FindLargest, Release
<1>2. Main \in Callers /\ call \in [Callers -> CallRec] /\ t # Main
  BY Fields, ThreadsAssumption
<1>3. call'[Main] = call[Main]
  <2>1. CASE StartUpdate(t)
    BY <1>2, <2>1 DEF StartUpdate
  <2>2. CASE StartFlushNext(t)
    BY <1>2, <2>2 DEF StartFlushNext
  <2>3. CASE WaitIfStalled(t)
    BY <1>2, <2>3 DEF WaitIfStalled, Goto
  <2>4. CASE WakeUp(t)
    BY <1>2, <2>4 DEF WakeUp
  <2>5. CASE FindLargest(t)
    BY <1>2, <2>5 DEF FindLargest
  <2>6. CASE Release(t)
    BY <1>2, <2>6 DEF Release
  <2> QED BY <2>1, <2>2, <2>3, <2>4, <2>5, <2>6
<1>4. MainStays
  BY <1>3 DEF MainStays
<1> QED BY <1>1, <1>4, SameTable, StillQueues

LEMMA DocumentQueues ==
  ASSUME FCInv, FCInv', Queues, NEW t \in Threads, NEW n \in 0 .. 1,
         Index(t) \/ FailDocument(t, n)
  PROVE  Queues' /\ TableKept
<1> DEFINE d == fc.states[call[t].state].dwpt
<1>1. UNCHANGED fc /\ UNCHANGED queueVars /\ call[t].pc = "index"
  BY DEF Index, FailDocument
<1>2. /\ Main \in Callers /\ call \in [Callers -> CallRec] /\ t # Main
      /\ dwpts \in Seq(DwptRec)
  BY Fields, ThreadsAssumption
<1>3. call'[Main] = call[Main]
  <2>1. CASE Index(t)
    BY <1>2, <2>1 DEF Index, Goto
  <2>2. CASE FailDocument(t, n)
    BY <1>2, <2>2 DEF FailDocument
  <2> QED BY <2>1, <2>2
<1>4. TableKept
  <2>1. d \in DOMAIN dwpts
    BY <1>1, AtWork DEF Working
  <2>2. \E k \in Nat : dwpts' = [dwpts EXCEPT ![d].docs = dwpts[d].docs + k]
    <3>1. Index(t) => dwpts' = [dwpts EXCEPT ![d].docs = dwpts[d].docs + 1]
      BY DEF Index, InRAM
    <3>2. FailDocument(t, n) => dwpts' = [dwpts EXCEPT ![d].docs = dwpts[d].docs + n]
      BY DEF FailDocument, InRAM
    <3>3. n \in Nat /\ 1 \in Nat
      OBVIOUS
    <3> HIDE DEF d
    <3> QED BY <3>1, <3>2, <3>3
  <2>3. PICK k \in Nat : dwpts' = [dwpts EXCEPT ![d].docs = dwpts[d].docs + k]
    BY <2>2
  <2> HIDE DEF d
  <2>4. \A e \in DOMAIN dwpts : dwpts[e] \in DwptRec
    BY <1>2
  <2>5. /\ DOMAIN dwpts' = DOMAIN dwpts
        /\ \A e \in DOMAIN dwpts : /\ dwpts'[e].queue = dwpts[e].queue
                                   /\ dwpts'[e].status = dwpts[e].status
    BY <2>1, <2>3, <2>4 DEF DwptRec
  <2> QED BY <2>5 DEF TableKept, Live
<1>5. MainStays
  BY <1>3 DEF MainStays
<1> QED BY <1>1, <1>4, <1>5, StillQueues

LEMMA AfterDocumentQueues ==
  ASSUME FCInv, FCInv', Queues, NEW t \in Threads, AfterDocument(t)
  PROVE  Queues'
<1> DEFINE s == call[t].state
           Step(f, d) ==
              /\ fc' = IF ~f.states[s].flushPending THEN f
                       ELSE IF Blocks(f) THEN PollFlush(Block(f, s)) ELSE CheckOut(f, s)
              /\ call' = [call EXCEPT ![t].pc = "release", ![t].dwpt = d]
<1>1. call[t].pc = "after" /\ UNCHANGED dwpts /\ UNCHANGED queueVars
  BY DEF AfterDocument
<1>2. PICK f, d : f = ApplyPolicy(CommitPerThreadBytes(fc, s), s) /\ Step(f, d)
  BY DEF AfterDocument
<1>3. /\ s \in DOMAIN fc.states /\ fc.states[s].dwpt # None
      /\ dwpts[fc.states[s].dwpt].docs \in Nat
  BY <1>1, AtWork DEF Working, DwptRec
<1>4. Main \in Callers /\ call \in [Callers -> CallRec] /\ t # Main
  BY Fields, ThreadsAssumption
<1>5. MainStays
  <2>1. call'[Main] = call[Main]
    BY <1>2, <1>4
  <2> QED BY <2>1 DEF MainStays
<1> HIDE DEF s
<1>6. Good(f, dwpts) /\ Kept(fc, f)
  BY <1>2, <1>3, DocumentCounted
<1>7. /\ f \in FcRec /\ s \in DOMAIN f.states /\ f.states[s].dwpt # None
  BY <1>3, <1>6, GoodFields DEF Kept
<1>8. Follows(fc, f)
  BY <1>6, KeptFollows
<1>9. Follows(f, fc')
  <2>1. CASE ~f.states[s].flushPending
    BY <1>2, <2>1, FollowsItself
  <2>2. CASE f.states[s].flushPending /\ Blocks(f)
    <3>1. Follows(f, Block(f, s))
      BY <1>7, <2>2, BlockFollows DEF Blocks
    <3>2. Block(f, s) \in FcRec
      BY <1>6, <1>7, <2>2, Blocking, GoodFields
    <3>3. Follows(Block(f, s), PollFlush(Block(f, s)))
      BY <3>2, PollFollows
    <3> QED BY <1>2, <2>2, <3>1, <3>3, FollowsTwice
  <2>3. CASE f.states[s].flushPending /\ ~Blocks(f)
    BY <1>2, <1>7, <2>3, CheckOutFollows
  <2> QED BY <2>1, <2>2, <2>3
<1>10. Follows(fc, fc')
  BY <1>8, <1>9, FollowsTwice
<1> QED BY <1>1, <1>5, <1>10, SameTable, FollowsStep

LEMMA CheckOutLargestQueues ==
  ASSUME FCInv, FCInv', Queues, NEW t \in Threads, CheckOutLargest(t)
  PROVE  Queues'
<1> DEFINE s == call[t].state
           marked == IF fc.states[s].flushPending THEN fc ELSE SetFlushPending(fc, s)
           result ==
              IF fc.states[s].dwpt = None THEN NextPending(t, fc)
              ELSE IF fc.fullFlush
                THEN IF fc.states[s].flushPending THEN NextPending(t, Block(fc, s))
                     ELSE [f |-> fc, d |-> None]
              ELSE IF marked.states[s].flushPending
                THEN [f |-> CheckOut(marked, s), d |-> fc.states[s].dwpt]
              ELSE [f |-> fc, d |-> None]
           c == IF result.d = None THEN Idle ELSE At("flush", None, result.d, "flushNext", FALSE, 0)
<1>1. /\ call[t].pc = "lockLargest" /\ UNCHANGED dwpts /\ UNCHANGED queueVars /\ fc' = result.f
      /\ call' = [call EXCEPT ![t] = c]
  BY DEF CheckOutLargest
<1>2. Good(fc, dwpts) /\ fc \in FcRec
  BY Fields
<1>3. s \in DOMAIN fc.states
  <2>1. CallOK(t, call[t], Len(fc.states)) /\ DOMAIN fc.states = 1 .. Len(fc.states)
    BY Fields DEF Callers
  <2> QED BY <1>1, <2>1 DEF CallOK
<1>4. MainStays
  <2> HIDE DEF c
  <2> QED BY <1>1, OtherCall
<1> HIDE DEF c, s
<1>5. Follows(fc, result.f)
  <2>1. CASE fc.states[s].dwpt = None
    <3>1. result = NextPending(t, fc)
      BY <2>1
    <3> QED BY <1>2, <3>1, NextPendingFollows
  <2>2. CASE fc.states[s].dwpt # None /\ fc.fullFlush /\ fc.states[s].flushPending
    <3>1. result = NextPending(t, Block(fc, s))
      BY <2>2
    <3>2. Follows(fc, Block(fc, s))
      BY <1>2, <1>3, <2>2, BlockFollows
    <3>3. Block(fc, s) \in FcRec
      BY <1>2, <1>3, <2>2, Blocking, GoodFields
    <3>4. Follows(Block(fc, s), NextPending(t, Block(fc, s)).f)
      BY <3>3, NextPendingFollows
    <3> HIDE DEF result
    <3> QED BY <3>1, <3>2, <3>4, FollowsTwice
  <2>3. CASE fc.states[s].dwpt # None /\ ~fc.fullFlush /\ marked.states[s].flushPending
    <3>1. Good(marked, dwpts) /\ Kept(fc, marked)
      <4>1. CASE fc.states[s].flushPending
        BY <1>2, <4>1 DEF Kept, SameQueues
      <4>2. CASE ~fc.states[s].flushPending
        <5>1. marked = SetFlushPending(fc, s)
          BY <4>2
        <5> HIDE DEF marked
        <5> QED BY <1>2, <1>3, <2>3, <4>2, <5>1, Marked
      <4> QED BY <4>1, <4>2
    <3>2. result.f = CheckOut(marked, s)
      <4> HIDE DEF marked
      <4> QED BY <2>3
    <3> HIDE DEF result, marked
    <3>3. marked \in FcRec /\ s \in DOMAIN marked.states
      BY <1>3, <3>1, GoodFields DEF Kept
    <3>4. Follows(fc, marked) /\ Follows(marked, CheckOut(marked, s))
      BY <3>1, <3>3, KeptFollows, CheckOutFollows
    <3> QED BY <3>2, <3>4, FollowsTwice
  <2>4. CASE result = [f |-> fc, d |-> None]
    <3>1. result.f = fc
      BY <2>4
    <3> HIDE DEF result
    <3> QED BY <3>1, FollowsItself
  <2>5. \/ fc.states[s].dwpt = None
        \/ fc.states[s].dwpt # None /\ fc.fullFlush /\ fc.states[s].flushPending
        \/ fc.states[s].dwpt # None /\ ~fc.fullFlush /\ marked.states[s].flushPending
        \/ result = [f |-> fc, d |-> None]
    <3> HIDE DEF marked
    <3> QED OBVIOUS
  <2> QED BY <2>1, <2>2, <2>3, <2>4, <2>5
<1> HIDE DEF result
<1> QED BY <1>1, <1>4, <1>5, SameTable, FollowsStep

LEMMA ObtainQueues ==
  ASSUME FCInv, FCInv', Queues, NEW t \in Threads, Obtain(t)
  PROVE  Queues'
<1>1. UNCHANGED dwpts /\ UNCHANGED queueVars
  BY DEF Obtain
<1>2. Main \in Callers /\ call \in [Callers -> CallRec] /\ t # Main /\ fc \in FcRec
  BY Fields, ThreadsAssumption
<1>3. \E c : call' = [call EXCEPT ![t] = c]
  BY DEF Obtain
<1>4. MainStays
  BY <1>3, OtherCall
<1>5. CASE fc' = fc
  BY <1>1, <1>4, <1>5, SameTable, StillQueues
<1>6. CASE fc' = [fc EXCEPT !.states = Append(fc.states, Uninitialized)]
  <2>1. /\ fc'.states = Append(fc.states, Uninitialized) /\ fc'.fullFlush = fc.fullFlush
        /\ fc'.blockedFlushes = fc.blockedFlushes /\ fc'.fullFlushBuffer = fc.fullFlushBuffer
    BY <1>2, <1>6 DEF FcRec
  <2>2. fc.states \in Seq(StateRec)
    BY <1>2 DEF FcRec
  <2>3. /\ DOMAIN fc'.states = DOMAIN fc.states \cup {Len(fc.states) + 1}
        /\ fc'.states[Len(fc.states) + 1] = Uninitialized
        /\ \A s \in DOMAIN fc.states : fc'.states[s] = fc.states[s]
    BY <2>1, <2>2
  <2>4. StatesFollow
    BY <2>3 DEF StatesFollow, Uninitialized
  <2>5. BlockedFollow /\ BufferFollows /\ QueuesSame
    BY <1>1, <2>1 DEF BlockedFollow, BufferFollows, QueuesSame, Blocked
  <2> QED BY <1>1, <1>4, <2>4, <2>5, SameTable, QueuesStep
<1>7. fc' = fc \/ fc' = [fc EXCEPT !.states = Append(fc.states, Uninitialized)]
  BY DEF Obtain
<1> QED BY <1>5, <1>6, <1>7

\* What happens to a ThreadState with an old DWPT
LEMMA EnrolledFollows ==
  ASSUME FCInv, NEW s \in DOMAIN fc.states, OldFrom(s)
  PROVE  LET f == AddFlushable(fc, s) IN
         /\ f \in FcRec /\ DOMAIN f.states = DOMAIN fc.states /\ f.states[s] = Uninitialized
         /\ \A r \in DOMAIN fc.states \ {s} : f.states[r] = fc.states[r]
         /\ f.blockedFlushes = fc.blockedFlushes /\ f.fullFlush = fc.fullFlush
<1> DEFINE f == AddFlushable(fc, s)
<1>1. fc.states[s].dwpt # None /\ Good(fc, dwpts)
  BY Fields DEF OldFrom
<1>2. AddFlushableResult(fc, f, s, dwpts)
  BY <1>1, Enrolled
<1> HIDE DEF f
<1>3. Good(f, dwpts) /\ OnlyAt(fc, f, s, Uninitialized) /\ f.blockedFlushes = fc.blockedFlushes
      /\ f.fullFlush = fc.fullFlush
  BY <1>2 DEF AddFlushableResult
<1>4. f \in FcRec
  BY <1>3, GoodFields
<1> QED BY <1>3, <1>4 DEF OnlyAt, f

\* dwpts without an empty one, perhaps with a new one of the current queue
LEMMA TableAppended ==
  ASSUME FCInv, NEW old, \/ old = dwpts
                         \/ \E d \in DOMAIN dwpts : old = Finished(d, "empty"),
         \/ dwpts' = old
         \/ dwpts' = Append(old, [queue |-> deleteQueue, docs |-> 0, status |-> "live"])
  PROVE  TableKept /\ (dwpts' # old => dwpts'[Len(dwpts')].queue = deleteQueue)
<1> DEFINE new == [queue |-> deleteQueue, docs |-> 0, status |-> "live"]
<1>1. dwpts \in Seq(DwptRec) /\ deleteQueue \in Nat /\ Live \subseteq DOMAIN dwpts
  BY Fields, ScalarsNow, NoneNowhere DEF Scalars
<1>2. /\ old \in Seq(DwptRec) /\ DOMAIN old = DOMAIN dwpts /\ LiveIn(old) \subseteq Live
      /\ \A e \in LiveIn(old) : old[e] = dwpts[e]
  <2>1. CASE old = dwpts
    BY <1>1, <2>1, LiveIsIn
  <2>2. CASE \E d \in DOMAIN dwpts : old = Finished(d, "empty")
    <3>1. PICK d \in DOMAIN dwpts : old = Finished(d, "empty")
      BY <2>2
    <3>2. /\ old \in Seq(DwptRec) /\ LiveIn(old) = Live \ {d}
          /\ \A e \in DOMAIN dwpts \ {d} : old[e] = dwpts[e]
      BY <1>1, <3>1, FinishedLive
    <3>3. DOMAIN old = DOMAIN dwpts
      BY <3>1 DEF Finished
    <3> QED BY <1>1, <3>2, <3>3
  <2> QED BY <2>1, <2>2
<1>3. new \in DwptRec /\ new.queue = deleteQueue
  BY <1>1 DEF DwptRec
<1> HIDE DEF new
<1>4. CASE dwpts' = old
  BY <1>2, <1>4, LiveIsIn, FewerLive
<1>5. CASE dwpts' = Append(old, new)
  <2>1. /\ Len(dwpts') = Len(old) + 1 /\ dwpts'[Len(old) + 1] = new
        /\ DOMAIN dwpts' = DOMAIN old \cup {Len(old) + 1}
        /\ \A e \in DOMAIN old : dwpts'[e] = old[e]
    BY <1>2, <1>3, <1>5
  <2>2. \A e \in Live' : e \in LiveIn(old) \/ e = Len(old) + 1
    BY <2>1, LiveIsIn DEF LiveIn
  <2>3. \A e \in LiveIn(old) : dwpts'[e] = dwpts[e] /\ e \in Live
    BY <1>2, <2>1 DEF LiveIn
  <2>4. Len(old) + 1 \notin Live
    BY <1>1, <1>2
  <2>5. TableKept
    BY <1>3, <2>1, <2>2, <2>3, <2>4 DEF TableKept
  <2> QED BY <1>3, <2>1, <2>5
<1> QED BY <1>4, <1>5 DEF new

LEMMA LockStateQueues ==
  ASSUME FCInv, FCInv', Queues, NEW t \in Threads, LockState(t)
  PROVE  Queues' /\ TableKept
<1> DEFINE s == call[t].state
           d == fc.states[s].dwpt
           f == IF OldFrom(s) THEN AddFlushable(fc, s) ELSE fc
           old == IF OldFrom(s) /\ numDocsInRAM(d) = 0 THEN Finished(d, "empty") ELSE dwpts
           new == [queue |-> deleteQueue, docs |-> 0, status |-> "live"]
<1>1. /\ call[t].pc = "lock" /\ UNCHANGED queueVars
      /\ IF f.states[s].dwpt = None
           THEN dwpts' = Append(old, new) /\ fc' = [f EXCEPT !.states[s].dwpt = Len(dwpts')]
           ELSE fc' = f /\ UNCHANGED dwpts
  BY DEF LockState, OldFrom
<1>2. /\ s \in DOMAIN fc.states /\ call \in [Callers -> CallRec] /\ t # Main /\ Main \in Callers
      /\ fc \in FcRec /\ dwpts \in Seq(DwptRec)
  BY <1>1, AtWork, Fields DEF Working
<1>3. MainStays
  <2>1. call'[Main] = call[Main]
    BY <1>2 DEF LockState, Goto
  <2> QED BY <2>1 DEF MainStays
<1>4. OldFrom(s) => d \in DOMAIN dwpts
  <2>1. call[t].pc \in Working
    BY <1>1 DEF Working
  <2> QED BY <2>1, AtWork DEF OldFrom
<1> HIDE DEF s
<1>5. /\ f \in FcRec /\ DOMAIN f.states = DOMAIN fc.states
      /\ \A r \in DOMAIN fc.states \ {s} : f.states[r] = fc.states[r]
      /\ f.blockedFlushes = fc.blockedFlushes /\ f.fullFlush = fc.fullFlush
      /\ OldFrom(s) => f.states[s] = Uninitialized
      /\ ~OldFrom(s) => f = fc
  BY <1>2, EnrolledFollows
<1>6. OldFrom(s) => f.states[s].dwpt = None
  BY <1>5, UninitializedShape
<1>7. old = dwpts \/ \E e \in DOMAIN dwpts : old = Finished(e, "empty")
  BY <1>4
<1> HIDE DEF f, old, d
<1>8. CASE f.states[s].dwpt = None
  <2>1. dwpts' = Append(old, new) /\ fc' = [f EXCEPT !.states[s].dwpt = Len(dwpts')]
    BY <1>1, <1>8
  <2>2. TableKept /\ (dwpts' # old => dwpts'[Len(dwpts')].queue = deleteQueue)
    BY <1>7, <2>1, TableAppended
  <2>3. old \in Seq(DwptRec)
    BY <1>2, <1>7, FinishedLive
  <2>4. dwpts' # old
    <3>1. Len(Append(old, new)) = Len(old) + 1 /\ Len(old) \in Nat
      BY <2>3
    <3> QED BY <2>1, <3>1
  <2>5. f.states \in Seq(StateRec) /\ f.states[s] \in StateRec
    BY <1>2, <1>5 DEF FcRec
  <2>6. /\ DOMAIN fc'.states = DOMAIN f.states /\ fc'.states[s].dwpt = Len(dwpts')
        /\ \A r \in DOMAIN f.states \ {s} : fc'.states[r] = f.states[r]
        /\ fc'.blockedFlushes = f.blockedFlushes /\ fc'.fullFlush = f.fullFlush
        /\ fc'.fullFlushBuffer = f.fullFlushBuffer
    BY <1>2, <1>5, <2>1, <2>5 DEF FcRec, StateRec
  <2>7. StatesFollow
    BY <1>5, <2>2, <2>4, <2>6 DEF StatesFollow
  <2>8. BlockedFollow /\ QueuesSame
    BY <1>1, <1>5, <2>6 DEF BlockedFollow, QueuesSame, Blocked
  <2>9. BufferFollows
    BY <1>2, <1>5, <2>6 DEF BufferFollows
  <2> QED BY <1>3, <2>2, <2>7, <2>8, <2>9, QueuesStep
<1>9. CASE f.states[s].dwpt # None
  <2>1. fc' = fc /\ UNCHANGED dwpts
    BY <1>1, <1>5, <1>6, <1>9
  <2>2. TableKept
    BY <2>1, SameTable
  <2> QED BY <1>1, <1>3, <2>1, <2>2, StillQueues
<1> QED BY <1>8, <1>9

LEMMA ThreadQueues ==
  ASSUME FCInv, FCInv', Queues, NEW t \in Threads,
         \/ ThreadSteps(t) \/ StartUpdate(t) \/ StartFlushNext(t)
         \/ \E n \in 0 .. 1 : FailDocument(t, n)
  PROVE  Queues'
<1>1. CASE FlushSteps(t)
  BY <1>1, FlushStepsQueues DEF Callers
<1>2. CASE \/ StartUpdate(t) \/ StartFlushNext(t) \/ WaitIfStalled(t) \/ WakeUp(t)
           \/ FindLargest(t) \/ Release(t)
  BY <1>2, QuietQueues
<1>3. CASE Index(t) \/ \E n \in 0 .. 1 : FailDocument(t, n)
  <2>1. 0 \in 0 .. 1
    OBVIOUS
  <2> QED BY <1>3, <2>1, DocumentQueues
<1>4. CASE AfterDocument(t)
  BY <1>4, AfterDocumentQueues
<1>5. CASE CheckOutLargest(t)
  BY <1>5, CheckOutLargestQueues
<1>6. CASE Obtain(t)
  BY <1>6, ObtainQueues
<1>7. CASE LockState(t)
  BY <1>7, LockStateQueues
<1> QED BY <1>1, <1>2, <1>3, <1>4, <1>5, <1>6, <1>7 DEF ThreadSteps
------------------------------------------------------------------------------
\* What Main leaves of the old generation

LEMMA OtherPc ==
  ASSUME FCInv, NEW from \in OtherPcs, NEW to \in OtherPcs, call[Main].pc = from, Goto(Main, to)
  PROVE  MainStays
<1>1. Main \in Callers /\ call \in [Callers -> CallRec] /\ call[Main] \in CallRec
  BY Fields
<1>2. call'[Main].pc = to
  BY <1>1 DEF Goto, CallRec
<1> QED BY <1>2 DEF MainStays

LEMMA MarkForFullFlushQueues ==
  ASSUME FCInv, FCInv', Queues, MarkForFullFlush
  PROVE  Queues'
<1>1. /\ call[Main].pc = "idle" /\ UNCHANGED dwpts /\ UNCHANGED queueVars
      /\ fc' = [fc EXCEPT !.fullFlush = TRUE] /\ Goto(Main, "swap")
  BY DEF MarkForFullFlush
<1>2. /\ Main \in Callers /\ call \in [Callers -> CallRec] /\ call[Main] \in CallRec
      /\ Good(fc, dwpts)
  BY Fields
<1>3. call'[Main].pc = "swap"
  BY <1>1, <1>2 DEF Goto, CallRec
<1>4. /\ fc'.fullFlush = TRUE /\ InStates(fc') = InStates(fc) /\ Blocked(fc') = Blocked(fc)
      /\ fc'.fullFlushBuffer = fc.fullFlushBuffer
  BY <1>1, <1>2, FlagOnly
<1>5. /\ deleteQueue' = deleteQueue /\ currentFullFlushDelQueue' = currentFullFlushDelQueue
      /\ Live' = Live /\ \A d : Stale(d)' <=> Stale(d)
  BY <1>1 DEF queueVars, Live, Stale
<1>6. /\ \A d \in Live : dwpts[d].queue \in {deleteQueue, deleteQueue - 1} /\ ~Stale(d)
      /\ \A d \in InStates(fc) \cup Blocked(fc) : ~Stale(d)
      /\ fc.fullFlushBuffer = <<>> /\ currentFullFlushDelQueue = 0
  BY <1>1 DEF Queues, FlushingPcs
<1> QED BY <1>1, <1>3, <1>4, <1>5, <1>6 DEF Queues, FlushingPcs, FullFlushPcs

LEMMA SwapQueueQueues ==
  ASSUME FCInv, FCInv', Queues, SwapQueue
  PROVE  Queues'
<1> DEFINE b == At("mark", 1, None, "fullFlush", FALSE, ActiveThreadStateCount)
<1>1. /\ call[Main].pc = "swap" /\ UNCHANGED dwpts /\ UNCHANGED fc
      /\ deleteQueue' = deleteQueue + 1 /\ UNCHANGED currentFullFlushDelQueue
      /\ call' = [call EXCEPT ![Main] = b]
  BY DEF SwapQueue
<1>2. /\ Main \in Callers /\ call \in [Callers -> CallRec] /\ deleteQueue \in Nat
      /\ DOMAIN fc.states = 1 .. Len(fc.states)
  BY Fields, ScalarsNow DEF Scalars
<1>3. b.pc = "mark" /\ b.state = 1 /\ b.left = Len(fc.states)
  BY DEF At, ActiveThreadStateCount
<1> HIDE DEF b
<1>4. call'[Main] = b
  BY <1>1, <1>2
<1>5. /\ fc.fullFlush /\ currentFullFlushDelQueue = 0
      /\ \A d \in Live : ~Stale(d)
  BY <1>1 DEF Queues, FlushingPcs, FullFlushPcs
<1>6. Live' = Live /\ \A d \in Live : dwpts'[d].queue = deleteQueue' - 1
  BY <1>1, <1>2, <1>5 DEF Live, Stale
<1>7. \A s \in DOMAIN fc'.states : call'[Main].state <= s /\ s <= call'[Main].left
  BY <1>1, <1>2, <1>3, <1>4
<1> QED BY <1>1, <1>3, <1>4, <1>5, <1>6, <1>7 DEF Queues, FlushingPcs, FullFlushPcs

LEMMA MarkStateQueues ==
  ASSUME FCInv, FCInv', Queues, MarkState
  PROVE  Queues' /\ TableKept
<1> DEFINE s == call[Main].state
           d == fc.states[s].dwpt
<1>1. /\ call[Main].pc = "mark" /\ s <= call[Main].left /\ UNCHANGED queueVars
      /\ call' = [call EXCEPT ![Main].state = s + 1]
      /\ IF OldFrom(s) THEN /\ fc' = AddFlushable(fc, s)
                            /\ dwpts' = IF numDocsInRAM(d) = 0 THEN Finished(d, "empty") ELSE dwpts
                       ELSE UNCHANGED <<fc, dwpts>>
  BY DEF MarkState, OldFrom
<1>2. /\ s \in DOMAIN fc.states /\ call \in [Callers -> CallRec] /\ call[Main] \in CallRec
      /\ Main \in Callers /\ fc.states \in Seq(StateRec) /\ s \in Nat
  BY <1>1, LoopState, Fields DEF CallRec
<1>3. /\ call'[Main].pc = "mark" /\ call'[Main].state = s + 1
      /\ call'[Main].left = call[Main].left
  BY <1>1, <1>2 DEF CallRec
<1>4. OldFrom(s) => d \in DOMAIN dwpts
  BY <1>2, PlacesLive, NoneNowhere DEF OldFrom
<1>5. DOMAIN fc.states \subseteq Nat
  BY <1>2
<1> HIDE DEF s
<1>6. /\ fc'.fullFlush = fc.fullFlush /\ fc'.blockedFlushes = fc.blockedFlushes
      /\ DOMAIN fc'.states = DOMAIN fc.states
      /\ \A r \in DOMAIN fc.states \ {s} : fc'.states[r] = fc.states[r]
      /\ OldFrom(s) => fc'.states[s].dwpt = None
      /\ ~OldFrom(s) => fc' = fc
  BY <1>1, <1>2, EnrolledFollows, UninitializedShape
<1>7. TableKept
  <2>1. CASE dwpts' = dwpts
    BY <2>1, SameTable
  <2>2. CASE OldFrom(s) /\ dwpts' = Finished(d, "empty")
    <3> HIDE DEF d
    <3> QED BY <1>4, <2>2, FinishedKeeps
  <2> QED BY <1>1, <2>1, <2>2
<1>8. deleteQueue' = deleteQueue /\ currentFullFlushDelQueue' = currentFullFlushDelQueue
  BY <1>1 DEF queueVars
<1>9. \A e \in Live' : dwpts'[e].queue \in {deleteQueue', deleteQueue' - 1}
  BY <1>7, <1>8 DEF TableKept, Queues
<1>10. ASSUME NEW r \in DOMAIN fc'.states, fc'.states[r].dwpt # None,
              dwpts'[fc'.states[r].dwpt].queue # deleteQueue
       PROVE  s + 1 <= r /\ r <= call[Main].left
  <2>1. r # s \/ ~OldFrom(s)
    BY <1>6, <1>10
  <2>2. fc'.states[r].dwpt = fc.states[r].dwpt /\ r \in DOMAIN fc.states
    BY <1>6, <1>10, <2>1
  <2>3. fc'.states[r].dwpt \in Live'
    <3>1. Live' = InStates(fc') \cup Blocked(fc') \cup Flushed(fc')
      BY DEF FCInv, Core, Held
    <3> QED BY <1>10, <3>1 DEF InStates
  <2>4. dwpts[fc.states[r].dwpt].queue # deleteQueue
    BY <1>7, <1>10, <2>2, <2>3 DEF TableKept
  <2>5. OldFrom(r)
    BY <1>10, <2>2, <2>4 DEF OldFrom, Stale
  <2>6. s <= r /\ r <= call[Main].left
    BY <1>1, <2>2, <2>5 DEF Queues, s
  <2>7. r # s
    BY <2>1, <2>5
  <2> QED BY <1>2, <1>5, <2>2, <2>6, <2>7
<1>11. \A r \in DOMAIN fc'.states : OldFrom(r)' => s + 1 <= r /\ r <= call[Main].left
  BY <1>8, <1>10 DEF OldFrom, Stale
<1>12. fc.fullFlush /\ currentFullFlushDelQueue = 0
  BY <1>1 DEF Queues, FlushingPcs, FullFlushPcs
<1>13. Queues'
  BY <1>3, <1>6, <1>8, <1>9, <1>11, <1>12 DEF Queues, FlushingPcs, FullFlushPcs
<1> QED BY <1>7, <1>13

LEMMA EndMarkQueues ==
  ASSUME FCInv, FCInv', Queues, EndMark
  PROVE  Queues'
<1>1. /\ call[Main].pc = "mark" /\ call[Main].state > call[Main].left /\ UNCHANGED queueVars
      /\ fc' = MovedToQueue(fc) /\ UNCHANGED dwpts /\ Goto(Main, "setQueue")
  BY DEF EndMark
<1>2. /\ call \in [Callers -> CallRec] /\ call[Main] \in CallRec
      /\ Main \in Callers /\ fc.states \in Seq(StateRec) /\ Good(fc, dwpts) /\ fc \in FcRec
  BY Fields
<1>3. call'[Main].pc = "setQueue"
  BY <1>1, <1>2 DEF Goto, CallRec
<1>4. MoveResult(fc, fc', deleteQueue - 1)
  BY <1>1, <1>2, Moved
<1>5. /\ fc'.fullFlush = fc.fullFlush /\ fc'.fullFlushBuffer = <<>>
      /\ InStates(fc') = InStates(fc)
      /\ Blocked(fc') = {d \in Blocked(fc) : dwpts[d].queue # deleteQueue - 1}
  BY <1>4 DEF MoveResult, QueueResult
<1>6. /\ deleteQueue' = deleteQueue /\ currentFullFlushDelQueue' = currentFullFlushDelQueue
      /\ Live' = Live /\ \A d : Stale(d)' <=> Stale(d)
  BY <1>1 DEF queueVars, Live, Stale
<1>7. /\ fc.fullFlush /\ currentFullFlushDelQueue = 0
      /\ \A d \in Live : dwpts[d].queue \in {deleteQueue, deleteQueue - 1}
      /\ \A s \in DOMAIN fc.states :
            OldFrom(s) => call[Main].state <= s /\ s <= call[Main].left
  BY <1>1 DEF Queues, FlushingPcs, FullFlushPcs
<1>8. \A s \in DOMAIN fc.states : ~OldFrom(s)
  <2>1. call[Main].state \in Nat /\ call[Main].left \in Nat /\ DOMAIN fc.states \subseteq Nat
    BY <1>2 DEF CallRec
  <2> QED BY <1>1, <1>7, <2>1
<1>9. \A d \in InStates(fc) : ~Stale(d)
  BY <1>8 DEF OldFrom, InStates
<1>10. \A d \in Blocked(fc') : ~Stale(d)
  BY <1>5, <1>7, PlacesLive DEF Stale
<1>11. \A d \in Live' : dwpts'[d].queue \in {deleteQueue', deleteQueue' - 1}
  BY <1>1, <1>6, <1>7
<1> QED BY <1>3, <1>5, <1>6, <1>7, <1>9, <1>10, <1>11 DEF Queues, FlushingPcs, FullFlushPcs

LEMMA SetQueueQueues ==
  ASSUME FCInv, FCInv', Queues, SetFlushingDeleteQueue
  PROVE  Queues'
<1> DEFINE b == At("next", None, None, "fullFlush", FALSE, 0)
<1>1. /\ call[Main].pc = "setQueue" /\ UNCHANGED dwpts /\ UNCHANGED fc /\ UNCHANGED deleteQueue
      /\ currentFullFlushDelQueue' = deleteQueue - 1 /\ call' = [call EXCEPT ![Main] = b]
  BY DEF SetFlushingDeleteQueue
<1>2. call'[Main].pc = "next"
  <2>1. b.pc = "next"
    BY DEF At
  <2> HIDE DEF b
  <2> QED BY <1>1, <2>1, Fields
<1>3. Live' = Live /\ \A d : Stale(d)' <=> Stale(d)
  BY <1>1 DEF Live, Stale
<1>4. /\ fc.fullFlush /\ fc.fullFlushBuffer = <<>>
      /\ \A d \in Live : dwpts[d].queue \in {deleteQueue, deleteQueue - 1}
      /\ \A d \in InStates(fc) \cup Blocked(fc) : ~Stale(d)
  BY <1>1 DEF Queues, FlushingPcs, FullFlushPcs
<1>5. /\ InStates(fc') = InStates(fc) /\ Blocked(fc') = Blocked(fc)
      /\ \A d \in Live' : dwpts'[d].queue \in {deleteQueue', deleteQueue' - 1}
  BY <1>1, <1>3, <1>4
<1> QED BY <1>1, <1>2, <1>3, <1>4, <1>5 DEF Queues, FlushingPcs, FullFlushPcs

LEMMA WaitForFlushQueues ==
  ASSUME FCInv, FCInv', Queues, WaitForFlush
  PROVE  Queues'
<1>1. /\ call[Main].pc = "waitForFlush" /\ fc.flushingWriters = {} /\ UNCHANGED dwpts
      /\ UNCHANGED fc /\ UNCHANGED queueVars /\ Goto(Main, "flushed")
  BY DEF WaitForFlush, NothingFlushing
<1>2. call'[Main].pc = "flushed"
  BY <1>1, Fields DEF Goto, CallRec
<1>3. /\ deleteQueue' = deleteQueue /\ currentFullFlushDelQueue' = currentFullFlushDelQueue
      /\ Live' = Live /\ \A d : Stale(d)' <=> Stale(d)
  BY <1>1 DEF queueVars, Live, Stale
<1>4. /\ fc.fullFlush /\ fc.fullFlushBuffer = <<>>
      /\ currentFullFlushDelQueue = deleteQueue - 1
      /\ \A d \in Live : dwpts[d].queue \in {deleteQueue, deleteQueue - 1}
      /\ \A d \in InStates(fc) \cup Blocked(fc) : ~Stale(d)
  BY <1>1 DEF Queues, FlushingPcs, FullFlushPcs
<1>5. Live = InStates(fc) \cup Blocked(fc)
  BY <1>1, PlacesLive DEF Flushed, DwptsOf
<1>6. /\ InStates(fc') = InStates(fc) /\ Blocked(fc') = Blocked(fc)
      /\ \A d \in Live' : dwpts'[d].queue \in {deleteQueue', deleteQueue' - 1}
  BY <1>1, <1>3, <1>4
<1> QED BY <1>1, <1>2, <1>3, <1>4, <1>5, <1>6 DEF Queues, FlushingPcs, FullFlushPcs

\* A full flush ends with f for fc, but for the flag.
LEMMA EndFullFlushQueues ==
  ASSUME FCInv, FCInv', Queues, NEW f, NEW status, NEW table, EndFullFlush(f, status),
         Good(f, table), f.states = fc.states, f.blockedFlushes = <<>>,
         f.fullFlushBuffer = fc.fullFlushBuffer, TableKept
  PROVE  Queues'
<1>1. /\ call[Main].pc = "flushed" /\ fc' = [f EXCEPT !.fullFlush = FALSE]
      /\ call' = [call EXCEPT ![Main] = Idle] /\ deleteQueue' = deleteQueue
      /\ currentFullFlushDelQueue' = 0
  BY DEF EndFullFlush
<1>2. call'[Main].pc = "idle"
  <2>1. call'[Main] = Idle
    BY <1>1, Fields
  <2> QED BY <2>1 DEF Idle
<1>3. /\ fc'.states = fc.states /\ fc'.fullFlush = FALSE /\ fc'.blockedFlushes = <<>>
      /\ fc'.fullFlushBuffer = fc.fullFlushBuffer
  BY <1>1, FlagOnly
<1>4. fc.fullFlushBuffer = <<>> /\ \A d \in Live : ~Stale(d)
  BY <1>1 DEF Queues, FlushingPcs
<1>5. \A d \in Live' : dwpts'[d].queue = deleteQueue /\ ~Stale(d)'
  BY <1>1, <1>4 DEF TableKept, Stale
<1>6. InStates(fc') \cup Blocked(fc') \subseteq Live'
  BY DEF FCInv, Core, Held
<1> QED BY <1>1, <1>2, <1>3, <1>4, <1>5, <1>6 DEF Queues, FlushingPcs, FullFlushPcs

LEMMA FinishFullFlushQueues ==
  ASSUME FCInv, FCInv', Queues, FinishFullFlush
  PROVE  Queues'
<1> DEFINE f == Prune(fc, deleteQueue)
<1>1. Good(fc, dwpts) /\ EndFullFlush(f, "flushed")
  BY Fields DEF FinishFullFlush
<1>2. PruneResult(fc, f, deleteQueue)
  BY <1>1, Pruned
<1> HIDE DEF f
<1>3. /\ Good(f, dwpts) /\ f.states = fc.states /\ f.fullFlushBuffer = fc.fullFlushBuffer
      /\ Blocked(f) = {d \in Blocked(fc) : dwpts[d].queue # deleteQueue}
      /\ Range(f.flushQueue) = Range(fc.flushQueue)
             \cup {d \in Blocked(fc) : dwpts[d].queue = deleteQueue}
  BY <1>2 DEF PruneResult, QueueResult
<1>4. \A d \in Live : ~Stale(d)
  BY <1>1 DEF Queues, FlushingPcs, EndFullFlush
<1>5. Blocked(f) = {} /\ Range(f.flushQueue) = Range(fc.flushQueue) \cup Blocked(fc)
  BY <1>3, <1>4, PlacesLive DEF Stale
<1>6. f.blockedFlushes = <<>>
  <2>1. f.blockedFlushes \in Seq(Flushing)
    BY <1>3, GoodFields
  <2>2. \A i \in DOMAIN f.blockedFlushes : f.blockedFlushes[i].dwpt \in Blocked(f)
    BY DEF Blocked, DwptsOf, Range
  <2>3. /\ Len(f.blockedFlushes) \in Nat
        /\ DOMAIN f.blockedFlushes = 1..Len(f.blockedFlushes)
    BY <2>1
  <2>4. 1 \notin DOMAIN f.blockedFlushes
    BY <1>5, <2>2
  <2>5. Len(f.blockedFlushes) = 0
    BY <2>3, <2>4
  <2> QED BY <2>1, <2>5, EmptySeq
<1>7. TableKept
  <2>1. PendingDwpts(fc) = PendingDwpts(f)
    <3>1. /\ PendingDwpts(fc) = Range(fc.flushQueue) \cup Blocked(fc)
          /\ PendingDwpts(f) = Range(f.flushQueue) \cup Blocked(f)
      BY DEF PendingDwpts, Blocked, DwptsOf, Range
    <3> QED BY <1>5, <3>1
  <2>2. dwpts' = [d \in DOMAIN dwpts |-> dwpts[d]]
    BY <1>1, <2>1 DEF EndFullFlush
  <2>3. dwpts' = dwpts
    BY <2>2, Fields
  <2> QED BY <2>3, SameTable
<1> QED BY <1>1, <1>3, <1>6, <1>7, EndFullFlushQueues

LEMMA AbortFullFlushesQueues ==
  ASSUME FCInv, FCInv', Queues, AbortFullFlushes
  PROVE  Queues'
<1> DEFINE f == AbortPending(fc)
<1>1. EndFullFlush(f, "aborted")
  BY DEF AbortFullFlushes
<1>2. AbortAllResult(f, dwpts')
  BY AbortFullFlushesKeeps
<1> HIDE DEF f
<1>3. /\ Good(f, dwpts') /\ f.states = fc.states /\ f.fullFlushBuffer = fc.fullFlushBuffer
      /\ f.blockedFlushes = <<>> /\ LiveIn(dwpts') = Live \ PendingDwpts(fc)
      /\ \A d \in DOMAIN dwpts \ PendingDwpts(fc) : dwpts'[d] = dwpts[d]
  BY <1>2 DEF AbortAllResult
<1>4. TableKept
  BY <1>3, LiveIsIn, NoneNowhere, FewerLive
<1> QED BY <1>1, <1>3, <1>4, EndFullFlushQueues

LEMMA AbortStateQueues ==
  ASSUME FCInv, FCInv', Queues, AbortState
  PROVE  Queues'
<1> DEFINE s == call[Main].state
           d == fc.states[s].dwpt
<1>1. /\ call[Main].pc = "abort" /\ s <= call[Main].left /\ fc' = DoOnAbort(fc, s)
      /\ dwpts' = IF d = None THEN dwpts ELSE Finished(d, "aborted")
      /\ call' = [call EXCEPT ![Main].state = s + 1] /\ UNCHANGED queueVars
  BY DEF AbortState
<1>2. /\ call \in [Callers -> CallRec] /\ call[Main] \in CallRec /\ Main \in Callers
      /\ s \in DOMAIN fc.states /\ Good(fc, dwpts)
  BY <1>1, LoopState, Fields
<1>3. MainStays
  <2>1. call'[Main].pc = "abort"
    BY <1>1, <1>2 DEF CallRec
  <2> QED BY <1>1, <2>1 DEF MainStays, OtherPcs
<1>4. TableKept
  <2>1. d # None => d \in DOMAIN dwpts
    BY <1>2, PlacesLive, NoneNowhere
  <2> HIDE DEF d
  <2> QED BY <1>1, <2>1, SameTable, FinishedKeeps
<1> HIDE DEF s
<1>5. OnlyAt(fc, fc', s, Uninitialized) /\ SameQueues(fc, fc')
  BY <1>1, <1>2, AbortedState
<1>6. Follows(fc, fc')
  BY <1>2, <1>5, UninitializedShape DEF OnlyAt, SameQueues, Follows, Blocked
<1> QED BY <1>1, <1>3, <1>4, <1>6, FollowsStep

LEMMA AbortPendingFlushesQueues ==
  ASSUME FCInv, FCInv', Queues, AbortPendingFlushes
  PROVE  Queues'
<1>1. /\ call[Main].pc = "abort" /\ fc' = AbortPending(fc) /\ UNCHANGED queueVars
      /\ dwpts' = FinishedTable(PendingDwpts(fc), "aborted") /\ Goto(Main, "waitAbort")
  BY DEF AbortPendingFlushes, FinishedTable
<1>2. MainStays
  BY <1>1, OtherPc DEF OtherPcs
<1>3. AbortAllResult(AbortPending(fc), dwpts')
  BY <1>1, AbortedAll
<1>4. AbortAllResult(fc', dwpts')
  BY <1>1, <1>3
<1>5. /\ fc'.states = fc.states /\ fc'.fullFlushBuffer = fc.fullFlushBuffer
      /\ fc'.fullFlush = fc.fullFlush
      /\ fc'.blockedFlushes = <<>> /\ LiveIn(dwpts') = Live \ PendingDwpts(fc)
      /\ \A d \in DOMAIN dwpts \ PendingDwpts(fc) : dwpts'[d] = dwpts[d]
  BY <1>4 DEF AbortAllResult
<1>6. TableKept
  BY <1>5, LiveIsIn, NoneNowhere, FewerLive
<1>7. StatesFollow /\ BufferFollows /\ QueuesSame
  BY <1>1, <1>5 DEF StatesFollow, BufferFollows, QueuesSame
<1>8. BlockedFollow
  BY <1>5 DEF BlockedFollow, Blocked, DwptsOf, Range
<1> QED BY <1>2, <1>6, <1>7, <1>8, QueuesStep

LEMMA DeleteAllQueues ==
  ASSUME FCInv, FCInv', Queues, StartDeleteAll \/ SetAbort \/ WaitForAbort \/ UnlockAll
  PROVE  Queues'
<1>1. UNCHANGED fc /\ UNCHANGED dwpts /\ UNCHANGED queueVars
  BY DEF StartDeleteAll, SetAbort, WaitForAbort, UnlockAll
<1>2. Main \in Callers /\ call \in [Callers -> CallRec] /\ call[Main] \in CallRec
  BY Fields
<1>3. call[Main].pc \in OtherPcs /\ call'[Main].pc \in OtherPcs
  <2>1. CASE StartDeleteAll
    BY <1>2, <2>1 DEF StartDeleteAll, At, OtherPcs
  <2>2. CASE SetAbort
    BY <1>2, <2>2 DEF SetAbort, Goto, OtherPcs, CallRec
  <2>3. CASE WaitForAbort
    BY <1>2, <2>3 DEF WaitForAbort, Goto, OtherPcs, CallRec
  <2>4. CASE UnlockAll
    BY <1>2, <2>4 DEF UnlockAll, Idle, OtherPcs
  <2> QED BY <2>1, <2>2, <2>3, <2>4
<1>4. MainStays
  BY <1>3 DEF MainStays
<1> QED BY <1>1, <1>4, SameTable, StillQueues

LEMMA MainQueues ==
  ASSUME FCInv, FCInv', Queues, MainSteps \/ MarkForFullFlush \/ StartDeleteAll
  PROVE  Queues'
<1>1. CASE FlushSteps(Main)
  BY <1>1, FlushStepsQueues DEF Callers
<1>2. CASE SwapQueue
  BY <1>2, SwapQueueQueues
<1>3. CASE MarkState
  BY <1>3, MarkStateQueues
<1>4. CASE EndMark
  BY <1>4, EndMarkQueues
<1>5. CASE SetFlushingDeleteQueue
  BY <1>5, SetQueueQueues
<1>6. CASE WaitForFlush
  BY <1>6, WaitForFlushQueues
<1>7. CASE FinishFullFlush
  BY <1>7, FinishFullFlushQueues
<1>8. CASE AbortFullFlushes
  BY <1>8, AbortFullFlushesQueues
<1>9. CASE StartDeleteAll \/ SetAbort \/ WaitForAbort \/ UnlockAll
  BY <1>9, DeleteAllQueues
<1>10. CASE AbortState
  BY <1>10, AbortStateQueues
<1>11. CASE AbortPendingFlushes
  BY <1>11, AbortPendingFlushesQueues
<1>12. CASE MarkForFullFlush
  BY <1>12, MarkForFullFlushQueues
<1> QED BY <1>1, <1>2, <1>3, <1>4, <1>5, <1>6, <1>7, <1>8, <1>9, <1>10, <1>11, <1>12
        DEF MainSteps

LEMMA QueuesHold == Spec => []Queues
<1>1. Init => Queues
  <2>1. ASSUME Init
        PROVE  Queues
    <3>1. /\ fc.states = <<>> /\ fc.fullFlushBuffer = <<>> /\ fc.blockedFlushes = <<>>
          /\ fc.fullFlush = FALSE /\ dwpts = <<>> /\ currentFullFlushDelQueue = 0
          /\ call[Main] = Idle
      BY <2>1 DEF Init, Callers
    <3>2. call[Main].pc = "idle" /\ DOMAIN <<>> = {}
      BY <3>1 DEF Idle
    <3>3. Live = {} /\ InStates(fc) = {} /\ Blocked(fc) = {}
      BY <3>1, <3>2 DEF Live, InStates, Blocked, DwptsOf, Range
    <3> QED BY <3>1, <3>2, <3>3 DEF Queues, FullFlushPcs, FlushingPcs
  <2> QED BY <2>1
<1>2. FCInv /\ FCInv' /\ Queues /\ [Next]_vars => Queues'
  <2>1. ASSUME FCInv, FCInv', Queues, UNCHANGED vars
        PROVE  Queues'
    <3>1. /\ fc' = fc /\ UNCHANGED dwpts /\ UNCHANGED queueVars /\ call' = call
      BY <2>1 DEF vars, queueVars
    <3>2. MainStays
      BY <3>1 DEF MainStays
    <3> QED BY <2>1, <3>1, <3>2, SameTable, StillQueues
  <2> QED BY <2>1, ThreadQueues, MainQueues DEF Next
<1> QED BY <1>1, <1>2, Invariant, PTL DEF Spec
------------------------------------------------------------------------------
\* A full flush without a limit in bytes

\* Then nobody marks the ThreadState of another thread: between two steps
\* nothing is pending, no scan ever begins, and once the queues are swapped only
\* DWPTs of the old one are flushing.
Clear(f) == Excess(f) = 0 /\ PendingIn(f) = {}
NoScans == \A t \in Callers : call[t].pc # "scan"
OldFlushed == fc.fullFlush /\ call[Main].pc # "swap" => \A d \in Flushed(fc) : Stale(d)
Whole == Clear(fc) /\ NoScans /\ OldFlushed

\* What a step during the full flush adds to what is flushing is old.
OldFollows == fc.fullFlush /\ call[Main].pc # "swap" =>
    \A d \in Flushed(fc') : d \in Flushed(fc) \/ dwpts'[d].queue # deleteQueue

\* The step of t does not begin a scan, or the swap of the queues.
Unscanned(t) == /\ OnlyCall(t) /\ call'[t].pc # "scan"
                /\ t = Main => (call[Main].pc = "swap" => call'[Main].pc = "swap")

LEMMA ClearCounts ==
  ASSUME NEW f, NEW table, Good(f, table), Clear(f)
  PROVE  f.numPending = 0
<1>1. Cardinality(PendingIn(f)) = 0 /\ f.numPending \in Int
  BY GoodFields, FS_EmptySet DEF Clear
<1> QED BY <1>1 DEF Clear, Excess

LEMMA ClearStates ==
  ASSUME NEW f, NEW g, Clear(f), g.states = f.states, Excess(g) = Excess(f)
  PROVE  Clear(g)
BY DEF Clear, PendingIn

\* The only pending state is reset.
LEMMA ClearReset ==
  ASSUME NEW f, NEW g, NEW s, NEW x, PendingIn(f) \subseteq {s}, Excess(f) = 0,
         Excess(g) = Excess(f), OnlyAt(f, g, s, x), ~x.flushPending
  PROVE  Clear(g)
BY DEF Clear, PendingIn, OnlyAt

LEMMA UninitializedIdle == ~Uninitialized.flushPending
BY DEF Uninitialized

LEMMA NoScansStep ==
  ASSUME NoScans, NEW t \in Callers, Unscanned(t)
  PROVE  NoScans'
BY DEF NoScans, Unscanned, OnlyCall

LEMMA OldStep ==
  ASSUME FCInv, FCInv', OldFlushed, NEW t \in Callers, Unscanned(t), TableKept, OldFollows,
         UNCHANGED deleteQueue, fc'.fullFlush = fc.fullFlush
  PROVE  OldFlushed'
<1>1. call'[Main].pc # "swap" => call[Main].pc # "swap"
  BY DEF Unscanned, OnlyCall, Callers
<1>2. SUFFICES ASSUME fc.fullFlush, call[Main].pc # "swap", NEW d \in Flushed(fc')
               PROVE  dwpts'[d].queue # deleteQueue
  BY <1>1, <1>2 DEF OldFlushed, Stale
<1>3. d \in Live'
  BY DEF FCInv, Core, Held
<1>4. CASE d \in Flushed(fc)
  <2>1. d \in Live /\ dwpts[d].queue # deleteQueue
    BY <1>2, <1>4, PlacesLive DEF OldFlushed, Stale
  <2>2. dwpts'[d].queue = dwpts[d].queue
    BY <1>3, <2>1 DEF TableKept
  <2> QED BY <2>1, <2>2
<1>5. CASE d \notin Flushed(fc)
  BY <1>2, <1>5 DEF OldFollows
<1> QED BY <1>4, <1>5

LEMMA WholeStep ==
  ASSUME FCInv, FCInv', Whole, NEW t \in Callers, Unscanned(t), TableKept, OldFollows,
         UNCHANGED deleteQueue, fc'.fullFlush = fc.fullFlush, Clear(fc')
  PROVE  Whole'
<1>1. NoScans'
  BY NoScansStep DEF Whole
<1>2. OldFlushed'
  BY OldStep DEF Whole
<1> QED BY <1>1, <1>2 DEF Whole

\* A step that does not touch the flush control, and one that flushes nothing more
LEMMA StillWhole ==
  ASSUME FCInv, FCInv', Whole, NEW t \in Callers, Unscanned(t), TableKept,
         UNCHANGED deleteQueue, fc' = fc
  PROVE  Whole'
<1>1. OldFollows
  BY DEF OldFollows
<1>2. Clear(fc') /\ fc'.fullFlush = fc.fullFlush
  BY DEF Whole
<1> QED BY <1>1, <1>2, WholeStep

LEMMA ThreadMoved ==
  ASSUME FCInv, NEW t \in Threads, OnlyCall(t), call'[t].pc # "scan"
  PROVE  Unscanned(t) /\ t \in Callers
BY ThreadsAssumption DEF Unscanned, Callers

LEMMA QuietWhole ==
  ASSUME FCInv, FCInv', Queues, Whole, NEW t \in Threads,
         \/ StartUpdate(t) \/ StartFlushNext(t) \/ WaitIfStalled(t) \/ WakeUp(t) \/ FindLargest(t)
         \/ Release(t)
  PROVE  Whole'
<1>1. UNCHANGED fc /\ UNCHANGED dwpts /\ UNCHANGED deleteQueue
  BY DEF StartUpdate, StartFlushNext, WaitIfStalled, WakeUp, FindLargest, Release, queueVars
<1>2. call \in [Callers -> CallRec] /\ t \in Callers /\ call[t] \in CallRec
  BY Fields DEF Callers
<1>3. /\ \A pc, s, d, ctx, nested, left : At(pc, s, d, ctx, nested, left).pc = pc
      /\ Idle.pc = "idle"
  BY DEF At, Idle
<1>4. OnlyCall(t) /\ call'[t].pc # "scan"
  <2>1. CASE StartUpdate(t)
    BY <1>2, <1>3, <2>1 DEF StartUpdate, OnlyCall
  <2>2. CASE StartFlushNext(t)
    BY <1>2, <1>3, <2>2 DEF StartFlushNext, OnlyCall
  <2>3. CASE WaitIfStalled(t)
    <3>1. AfterStall(t).pc # "scan"
      BY <1>3 DEF AfterStall
    <3>2. \/ call' = [call EXCEPT ![t].pc = "waiting"]
          \/ call' = [call EXCEPT ![t] = AfterStall(t)]
      BY <2>3 DEF WaitIfStalled, Goto
    <3>3. CASE call' = [call EXCEPT ![t].pc = "waiting"]
      BY <1>2, <3>3 DEF OnlyCall, CallRec
    <3>4. CASE call' = [call EXCEPT ![t] = AfterStall(t)]
      BY <1>2, <3>1, <3>4 DEF OnlyCall
    <3> QED BY <3>2, <3>3, <3>4
  <2>4. CASE WakeUp(t)
    BY <1>2, <1>3, <2>4 DEF WakeUp, OnlyCall, AfterStall
  <2>5. CASE FindLargest(t)
    BY <1>2, <1>3, <2>5 DEF FindLargest, OnlyCall
  <2>6. CASE Release(t)
    <3> DEFINE c == IF call[t].ctx = "failed" THEN Idle
                    ELSE IF call[t].dwpt # None
                      THEN At("flush", None, call[t].dwpt, "postUpdate", FALSE, 0)
                    ELSE IF CheckPendingFlush
                      THEN At("next", None, None, "postUpdate", FALSE, 0) ELSE Idle
    <3>1. call' = [call EXCEPT ![t] = c]
      BY <2>6 DEF Release
    <3>2. c.pc # "scan"
      BY <1>3
    <3> HIDE DEF c
    <3> QED BY <1>2, <3>1, <3>2 DEF OnlyCall
  <2> QED BY <2>1, <2>2, <2>3, <2>4, <2>5, <2>6
<1>5. Unscanned(t) /\ t \in Callers
  BY <1>4, ThreadMoved
<1> QED BY <1>1, <1>5, SameTable, StillWhole

LEMMA DocumentWhole ==
  ASSUME FCInv, FCInv', Queues, Whole, NEW t \in Threads, NEW n \in 0 .. 1,
         Index(t) \/ FailDocument(t, n)
  PROVE  Whole'
<1>1. UNCHANGED fc /\ UNCHANGED deleteQueue
  BY DEF Index, FailDocument, queueVars
<1>2. call \in [Callers -> CallRec] /\ t \in Callers /\ call[t] \in CallRec
  BY Fields DEF Callers
<1>3. OnlyCall(t) /\ call'[t].pc # "scan"
  <2>1. CASE Index(t)
    BY <1>2, <2>1 DEF Index, Goto, OnlyCall, CallRec
  <2>2. CASE FailDocument(t, n)
    BY <1>2, <2>2 DEF FailDocument, OnlyCall, CallRec
  <2> QED BY <2>1, <2>2
<1>4. Unscanned(t) /\ t \in Callers
  BY <1>3, ThreadMoved
<1>5. TableKept
  BY DocumentQueues
<1> QED BY <1>1, <1>4, <1>5, StillWhole

LEMMA PollWhole ==
  ASSUME FCInv, FCInv', Queues, Whole, NEW t \in Callers, NextPendingFlush(t)
  PROVE  Whole'
<1>1. /\ call[t].pc = "next" /\ fc' = PollFlush(fc) /\ UNCHANGED dwpts /\ UNCHANGED deleteQueue
  BY DEF NextPendingFlush, queueVars
<1>2. /\ call \in [Callers -> CallRec] /\ call[t] \in CallRec /\ Good(fc, dwpts)
      /\ fc.numPending = 0
  BY Fields, ClearCounts DEF Whole
<1>3. NothingPending(t).pc # "scan"
  <2>1. AfterDoFlush(call[t].ctx).pc # "scan"
    BY DEF AfterDoFlush, At, Idle
  <2> QED BY <2>1 DEF NothingPending, At, Idle
<1>4. Unscanned(t)
  <2>1. \/ call' = [call EXCEPT ![t].pc = "flush", ![t].dwpt = Polled(fc)]
        \/ call' = [call EXCEPT ![t] = NothingPending(t)]
    BY <1>2 DEF NextPendingFlush
  <2>2. OnlyCall(t) /\ call'[t].pc # "scan"
    <3>1. CASE call' = [call EXCEPT ![t].pc = "flush", ![t].dwpt = Polled(fc)]
      BY <1>2, <3>1 DEF OnlyCall, CallRec
    <3>2. CASE call' = [call EXCEPT ![t] = NothingPending(t)]
      BY <1>2, <1>3, <3>2 DEF OnlyCall
    <3> QED BY <2>1, <3>1, <3>2
  <2> QED BY <1>1, <2>2 DEF Unscanned
<1>5. /\ Excess(fc') = Excess(fc) /\ fc'.states = fc.states /\ Flushed(fc') = Flushed(fc)
      /\ fc'.fullFlush = fc.fullFlush
  BY <1>1, <1>2, PolledOut
<1>6. Clear(fc')
  BY <1>5, ClearStates DEF Whole
<1>7. OldFollows
  BY <1>5 DEF OldFollows
<1> QED BY <1>1, <1>4, <1>5, <1>6, <1>7, SameTable, WholeStep

LEMMA FlushWhole ==
  ASSUME FCInv, FCInv', Queues, Whole, NEW t \in Callers, NEW backlog \in BOOLEAN,
         Flush(t, backlog)
  PROVE  Whole'
<1> DEFINE d == call[t].dwpt
           c == IF backlog THEN AfterDoFlush(call[t].ctx)
                           ELSE At("next", None, None, call[t].ctx, TRUE, 0)
<1>1. /\ call[t].pc = "flush" /\ fc' = AfterFlush(fc, d) /\ UNCHANGED deleteQueue
      /\ call' = [call EXCEPT ![t] = c]
  BY DEF Flush, queueVars
<1>2. /\ call \in [Callers -> CallRec] /\ CallOK(t, call[t], Len(fc.states)) /\ Good(fc, dwpts)
      /\ Held(fc, call, Live)
  BY Fields
<1>3. c.pc # "scan"
  BY DEF AfterDoFlush, At, Idle
<1>4. Unscanned(t)
  <2> HIDE DEF c
  <2>1. OnlyCall(t) /\ call'[t].pc # "scan"
    BY <1>1, <1>2, <1>3 DEF OnlyCall
  <2> QED BY <1>1, <2>1 DEF Unscanned
<1>5. d \in Flushed(fc) \ InQueues(fc)
  <2>1. d \in Hands(call)
    BY <1>1, <1>2 DEF Hands, CallOK
  <2> QED BY <1>2, <2>1 DEF Held
<1> HIDE DEF d, c
<1>6. QueueResult(fc, fc', dwpts) /\ Flushed(fc') = Flushed(fc) \ {d}
  BY <1>1, <1>2, <1>5, FlushedOne DEF InQueues
<1>7. Excess(fc') = Excess(fc) /\ fc'.states = fc.states /\ fc'.fullFlush = fc.fullFlush
  BY <1>6 DEF QueueResult
<1>8. Clear(fc')
  BY <1>7, ClearStates DEF Whole
<1>9. OldFollows
  BY <1>6 DEF OldFollows
<1>10. TableKept
  BY FlushQueues
<1> QED BY <1>1, <1>4, <1>7, <1>8, <1>9, <1>10, WholeStep

LEMMA FlushStepsWhole ==
  ASSUME FCInv, FCInv', Queues, Whole, NEW t \in Callers, FlushSteps(t)
  PROVE  Whole'
<1>1. ~ScanPending(t)
  BY DEF Whole, NoScans, ScanPending
<1> QED BY <1>1, PollWhole, FlushWhole DEF FlushSteps

LEMMA ObtainWhole ==
  ASSUME FCInv, FCInv', Queues, Whole, NEW t \in Threads, Obtain(t)
  PROVE  Whole'
<1>1. UNCHANGED dwpts /\ UNCHANGED deleteQueue
  BY DEF Obtain, queueVars
<1>2. call \in [Callers -> CallRec] /\ t \in Callers /\ call[t] \in CallRec /\ Good(fc, dwpts)
  BY Fields DEF Callers
<1>3. \E s : call' = [call EXCEPT ![t] = At("lock", s, None, "none", FALSE, 0)]
  BY DEF Obtain
<1>4. OnlyCall(t) /\ call'[t].pc # "scan"
  BY <1>2, <1>3 DEF OnlyCall, At
<1>5. Unscanned(t) /\ t \in Callers
  BY <1>4, ThreadMoved
<1>6. CASE fc' = fc
  BY <1>1, <1>5, <1>6, SameTable, StillWhole
<1>7. CASE fc' = [fc EXCEPT !.states = Append(fc.states, Uninitialized)]
  <2>1. NewStateResult(fc, fc', dwpts)
    BY <1>2, <1>7, StateAdded
  <2>2. /\ Excess(fc') = Excess(fc) /\ Flushed(fc') = Flushed(fc) /\ fc'.fullFlush = fc.fullFlush
        /\ DOMAIN fc'.states = (DOMAIN fc.states) \cup {Len(fc.states) + 1}
        /\ fc'.states[Len(fc.states) + 1] = Uninitialized
        /\ \A s \in DOMAIN fc.states : fc'.states[s] = fc.states[s]
    BY <2>1 DEF NewStateResult, SameQueues
  <2>3. PendingIn(fc) = {} /\ Excess(fc) = 0
    BY DEF Whole, Clear
  <2>4. PendingIn(fc') = {}
    BY <2>2, <2>3, UninitializedIdle DEF PendingIn
  <2>5. Clear(fc')
    BY <2>2, <2>3, <2>4 DEF Clear
  <2>6. OldFollows
    BY <2>2 DEF OldFollows
  <2> QED BY <1>1, <1>5, <2>2, <2>5, <2>6, SameTable, WholeStep
<1>8. fc' = fc \/ fc' = [fc EXCEPT !.states = Append(fc.states, Uninitialized)]
  BY DEF Obtain
<1> QED BY <1>6, <1>7, <1>8

\* What the policy has marked of a Clear record, it checks out at once.
LEMMA AfterDocumentWhole ==
  ASSUME RamLimit = 0, FCInv, FCInv', Queues, Whole, NEW t \in Threads, AfterDocument(t)
  PROVE  Whole'
<1> DEFINE s == call[t].state
           Step(f, d) ==
              /\ fc' = IF ~f.states[s].flushPending THEN f
                       ELSE IF Blocks(f) THEN PollFlush(Block(f, s)) ELSE CheckOut(f, s)
              /\ call' = [call EXCEPT ![t].pc = "release", ![t].dwpt = d]
<1>1. call[t].pc = "after" /\ UNCHANGED dwpts /\ UNCHANGED deleteQueue
  BY DEF AfterDocument, queueVars
<1>2. PICK f, d : f = ApplyPolicy(CommitPerThreadBytes(fc, s), s) /\ Step(f, d)
  BY DEF AfterDocument
<1>3. /\ s \in DOMAIN fc.states /\ fc.states[s].dwpt # None
      /\ dwpts[fc.states[s].dwpt].docs \in Nat
  BY <1>1, AtWork DEF Working, DwptRec
<1>4. call \in [Callers -> CallRec] /\ t \in Callers /\ call[t] \in CallRec /\ Good(fc, dwpts)
  BY Fields DEF Callers
<1>5. Unscanned(t)
  <2>1. OnlyCall(t) /\ call'[t].pc # "scan"
    BY <1>2, <1>4 DEF OnlyCall, CallRec
  <2> QED BY <2>1, ThreadMoved
<1> HIDE DEF s
<1>6. /\ Good(f, dwpts) /\ Excess(f) = Excess(fc) /\ f.fullFlush = fc.fullFlush
      /\ Flushed(f) = Flushed(fc)
  BY <1>2, <1>3, DocumentCounted DEF Kept, SameQueues, Flushed
<1>7. s \in DOMAIN f.states /\ PendingIn(f) \subseteq {s}
  <2> DEFINE c == CommitPerThreadBytes(fc, s)
  <2>1. /\ Good(c, dwpts) /\ Kept(fc, c)
        /\ \E b \in Nat : OnlyAt(fc, c, s, [fc.states[s] EXCEPT !.bytesUsed = b])
    BY <1>3, <1>4, Committed
  <2> HIDE DEF c
  <2>2. /\ DOMAIN c.states = DOMAIN fc.states
        /\ \A r \in DOMAIN fc.states \ {s} : c.states[r] = fc.states[r]
    BY <2>1 DEF OnlyAt
  <2>3. c.states[s].dwpt # None /\ s \in DOMAIN c.states
    BY <1>3, <2>1, <2>2 DEF Kept
  <2>4. PolicyResult(c, ApplyPolicy(c, s)) /\ MarksOnly(c, ApplyPolicy(c, s), s)
    BY <2>1, <2>3, PolicyApplied
  <2>5. f = ApplyPolicy(c, s)
    BY <1>2 DEF c
  <2>6. DOMAIN f.states = DOMAIN c.states
    BY <2>4, <2>5 DEF PolicyResult, Kept
  <2>7. \A r \in DOMAIN f.states \ {s} : f.states[r].flushPending = fc.states[r].flushPending
    BY <2>2, <2>4, <2>5, <2>6 DEF MarksOnly
  <2>8. \A r \in DOMAIN fc.states : ~fc.states[r].flushPending
    BY DEF Whole, Clear, PendingIn
  <2> QED BY <1>3, <2>2, <2>6, <2>7, <2>8 DEF PendingIn
<1>8. Excess(f) = 0
  BY <1>6 DEF Whole, Clear
<1>9. CASE ~f.states[s].flushPending
  <2>1. fc' = f
    BY <1>2, <1>9
  <2>2. Clear(fc')
    BY <1>7, <1>8, <1>9, <2>1 DEF Clear, PendingIn
  <2>3. OldFollows
    BY <1>6, <2>1 DEF OldFollows
  <2> QED BY <1>1, <1>4, <1>5, <1>6, <2>1, <2>2, <2>3, SameTable, WholeStep
<1>10. CASE f.states[s].flushPending /\ Blocks(f)
  <2> DEFINE b == Block(f, s)
  <2>1. /\ Good(b, dwpts) /\ Excess(b) = Excess(f) /\ OnlyAt(f, b, s, Uninitialized)
        /\ Flushed(b) = Flushed(f) /\ b.fullFlush = f.fullFlush
    BY <1>6, <1>7, <1>10, Blocking
  <2>2. fc' = PollFlush(b)
    BY <1>2, <1>10
  <2> HIDE DEF b
  <2>3. Clear(b)
    BY <1>7, <1>8, <2>1, UninitializedIdle, ClearReset
  <2>4. /\ Excess(fc') = Excess(b) /\ fc'.states = b.states /\ Flushed(fc') = Flushed(b)
        /\ fc'.fullFlush = b.fullFlush
    BY <2>1, <2>2, PolledOut
  <2>5. Clear(fc')
    BY <2>3, <2>4, ClearStates
  <2>6. OldFollows
    BY <1>6, <2>1, <2>4 DEF OldFollows
  <2>7. fc'.fullFlush = fc.fullFlush
    BY <1>6, <2>1, <2>4
  <2> QED BY <1>1, <1>4, <1>5, <2>5, <2>6, <2>7, SameTable, WholeStep
<1>11. CASE f.states[s].flushPending /\ ~Blocks(f)
  <2>1. fc' = CheckOut(f, s)
    BY <1>2, <1>11
  <2>2. /\ Excess(fc') = Excess(f) /\ OnlyAt(f, fc', s, Uninitialized)
        /\ fc'.fullFlush = f.fullFlush
    BY <1>6, <1>7, <1>11, <2>1, CheckedOut
  <2>3. Clear(fc')
    BY <1>7, <1>8, <2>2, UninitializedIdle, ClearReset
  <2>4. OldFollows
    BY <1>6, <1>11 DEF OldFollows, Blocks
  <2>5. fc'.fullFlush = fc.fullFlush
    BY <1>6, <2>2
  <2> QED BY <1>1, <1>4, <1>5, <2>3, <2>4, <2>5, SameTable, WholeStep
<1> QED BY <1>9, <1>10, <1>11

LEMMA NextPendingClear ==
  ASSUME NEW f, Clear(f), NEW t
  PROVE  NextPending(t, f).f \in {PollFlush(f), f}
<1> DEFINE pending == {r \in DOMAIN f.states : f.states[r].flushPending /\ CanLock(t, r)}
           first == CHOOSE r \in pending : \A o \in pending : r <= o
<1>1. NextPending(t, f).f = IF f.flushQueue # <<>> THEN PollFlush(f)
                            ELSE IF ~f.fullFlush /\ pending # {} THEN CheckOut(f, first) ELSE f
  BY DEF NextPending
<1>2. pending = {}
  BY DEF Clear, PendingIn
<1> HIDE DEF pending, first
<1> QED BY <1>1, <1>2

LEMMA CheckOutLargestWhole ==
  ASSUME FCInv, FCInv', Queues, Whole, NEW t \in Threads, CheckOutLargest(t)
  PROVE  Whole'
<1> DEFINE s == call[t].state
           marked == SetFlushPending(fc, s)
           result ==
              IF fc.states[s].dwpt = None THEN NextPending(t, fc)
              ELSE IF fc.fullFlush THEN [f |-> fc, d |-> None]
              ELSE IF marked.states[s].flushPending
                THEN [f |-> CheckOut(marked, s), d |-> fc.states[s].dwpt]
              ELSE [f |-> fc, d |-> None]
           c == IF result.d = None THEN Idle ELSE At("flush", None, result.d, "flushNext", FALSE, 0)
<1>1. Good(fc, dwpts) /\ call \in [Callers -> CallRec] /\ t \in Callers
  BY Fields DEF Callers
<1>2. s \in DOMAIN fc.states /\ call[t].pc = "lockLargest"
  <2>1. CallOK(t, call[t], Len(fc.states)) /\ DOMAIN fc.states = 1 .. Len(fc.states)
    BY Fields DEF Callers
  <2> QED BY <2>1 DEF CallOK, CheckOutLargest
<1>3. ~fc.states[s].flushPending /\ PendingIn(fc) = {} /\ Excess(fc) = 0
  BY <1>2 DEF Whole, Clear, PendingIn
<1>4. /\ UNCHANGED dwpts /\ UNCHANGED deleteQueue /\ fc' = result.f
      /\ call' = [call EXCEPT ![t] = c]
  BY <1>3 DEF CheckOutLargest, queueVars
<1>5. Unscanned(t)
  <2>1. c.pc # "scan"
    BY DEF At, Idle
  <2> HIDE DEF c
  <2>2. OnlyCall(t) /\ call'[t].pc # "scan"
    BY <1>1, <1>4, <2>1 DEF OnlyCall
  <2> QED BY <2>2, ThreadMoved
<1> HIDE DEF c, s
<1>6. CASE fc' = fc
  BY <1>1, <1>4, <1>5, <1>6, SameTable, StillWhole
<1>7. CASE fc' = PollFlush(fc)
  <2>1. /\ Excess(fc') = Excess(fc) /\ fc'.states = fc.states /\ Flushed(fc') = Flushed(fc)
        /\ fc'.fullFlush = fc.fullFlush
    BY <1>1, <1>7, PolledOut
  <2>2. Clear(fc')
    BY <2>1, ClearStates DEF Whole
  <2>3. OldFollows
    BY <2>1 DEF OldFollows
  <2> QED BY <1>1, <1>4, <1>5, <2>1, <2>2, <2>3, SameTable, WholeStep
<1>8. CASE /\ fc' = CheckOut(marked, s) /\ marked.states[s].flushPending /\ ~fc.fullFlush
           /\ fc.states[s].dwpt # None
  <2>1. /\ Good(marked, dwpts) /\ Kept(fc, marked) /\ Excess(marked) = Excess(fc)
        /\ marked = fc \/ OnlyAt(fc, marked, s, [fc.states[s] EXCEPT !.flushPending = TRUE])
    BY <1>1, <1>2, <1>3, <1>8, Marked
  <2>2. fc' = CheckOut(marked, s) /\ marked.states[s].flushPending
    BY <1>8
  <2> HIDE DEF marked
  <2>3. s \in DOMAIN marked.states /\ marked.fullFlush = fc.fullFlush
    BY <1>2, <2>1 DEF Kept, SameQueues
  <2>4. PendingIn(marked) \subseteq {s}
    BY <1>3, <2>1 DEF PendingIn, OnlyAt
  <2>5. /\ Excess(fc') = Excess(marked) /\ OnlyAt(marked, fc', s, Uninitialized)
        /\ fc'.fullFlush = marked.fullFlush
    BY <2>1, <2>2, <2>3, CheckedOut
  <2>6. Clear(fc')
    BY <1>3, <2>1, <2>4, <2>5, UninitializedIdle, ClearReset
  <2>7. OldFollows
    BY <1>8 DEF OldFollows
  <2>8. fc'.fullFlush = fc.fullFlush
    BY <2>3, <2>5
  <2> QED BY <1>1, <1>4, <1>5, <2>6, <2>7, <2>8, SameTable, WholeStep
<1>9. \/ fc' = fc \/ fc' = PollFlush(fc)
      \/ /\ fc' = CheckOut(marked, s) /\ marked.states[s].flushPending /\ ~fc.fullFlush
         /\ fc.states[s].dwpt # None
  <2>1. NextPending(t, fc).f \in {PollFlush(fc), fc}
    BY NextPendingClear DEF Whole
  <2> HIDE DEF marked
  <2> QED BY <1>4, <2>1
<1> QED BY <1>6, <1>7, <1>8, <1>9

\* An old DWPT leaves its ThreadState.
LEMMA EnrolledClear ==
  ASSUME FCInv, Whole, NEW s \in DOMAIN fc.states, OldFrom(s)
  PROVE  LET f == AddFlushable(fc, s) IN
         /\ Good(f, dwpts) /\ Clear(f) /\ f.fullFlush = fc.fullFlush /\ f.states[s].dwpt = None
         /\ DOMAIN f.states = DOMAIN fc.states
         /\ Flushed(f) \subseteq Flushed(fc) \cup {fc.states[s].dwpt}
         /\ numDocsInRAM(fc.states[s].dwpt) = 0 => Flushed(f) = Flushed(fc)
<1> DEFINE f == AddFlushable(fc, s)
<1>1. Good(fc, dwpts) /\ fc.states[s].dwpt # None
  BY Fields DEF OldFrom
<1>2. AddFlushableResult(fc, f, s, dwpts)
  BY <1>1, Enrolled
<1> HIDE DEF f
<1>3. /\ Good(f, dwpts) /\ Excess(f) = Excess(fc) /\ OnlyAt(fc, f, s, Uninitialized)
      /\ f.fullFlush = fc.fullFlush
      /\ Flushed(f) \subseteq Flushed(fc) \cup {fc.states[s].dwpt}
      /\ numDocsInRAM(fc.states[s].dwpt) = 0 => Flushed(f) = Flushed(fc)
  BY <1>2 DEF AddFlushableResult
<1>4. PendingIn(fc) \subseteq {s} /\ Excess(fc) = 0
  BY DEF Whole, Clear
<1>5. Clear(f)
  BY <1>3, <1>4, UninitializedIdle, ClearReset
<1>6. f.states[s].dwpt = None /\ DOMAIN f.states = DOMAIN fc.states
  BY <1>3, UninitializedShape DEF OnlyAt
<1> QED BY <1>3, <1>5, <1>6 DEF f

LEMMA LockStateWhole ==
  ASSUME FCInv, FCInv', Queues, Whole, NEW t \in Threads, LockState(t)
  PROVE  Whole'
<1> DEFINE s == call[t].state
           d == fc.states[s].dwpt
           f == IF OldFrom(s) THEN AddFlushable(fc, s) ELSE fc
           old == IF OldFrom(s) /\ numDocsInRAM(d) = 0 THEN Finished(d, "empty") ELSE dwpts
           new == [queue |-> deleteQueue, docs |-> 0, status |-> "live"]
<1>1. /\ call[t].pc = "lock" /\ UNCHANGED deleteQueue
      /\ IF f.states[s].dwpt = None
           THEN dwpts' = Append(old, new) /\ fc' = [f EXCEPT !.states[s].dwpt = Len(dwpts')]
           ELSE fc' = f /\ UNCHANGED dwpts
  BY DEF LockState, OldFrom, queueVars
<1>2. /\ s \in DOMAIN fc.states /\ call \in [Callers -> CallRec] /\ t \in Callers
      /\ call[t] \in CallRec /\ Good(fc, dwpts) /\ dwpts \in Seq(DwptRec)
  BY <1>1, AtWork, Fields DEF Working
<1>3. Unscanned(t)
  <2>1. OnlyCall(t) /\ call'[t].pc # "scan"
    BY <1>2 DEF LockState, Goto, OnlyCall, CallRec
  <2> QED BY <2>1, ThreadMoved
<1>4. TableKept
  BY LockStateQueues
<1>5. /\ Good(f, dwpts) /\ Clear(f) /\ f.fullFlush = fc.fullFlush
      /\ DOMAIN f.states = DOMAIN fc.states
      /\ OldFrom(s) => f.states[s].dwpt = None
      /\ Flushed(f) \subseteq Flushed(fc) \cup (IF OldFrom(s) THEN {d} ELSE {})
      /\ OldFrom(s) /\ numDocsInRAM(d) = 0 => Flushed(f) = Flushed(fc)
      /\ ~OldFrom(s) => f = fc
  <2> HIDE DEF s
  <2>1. CASE OldFrom(s)
    BY <1>2, <2>1, EnrolledClear
  <2>2. CASE ~OldFrom(s)
    BY <1>2, <2>2 DEF Whole
  <2> QED BY <2>1, <2>2
<1>6. OldFrom(s) => d \in DOMAIN dwpts /\ dwpts[d].queue # deleteQueue
  <2>1. call[t].pc \in Working
    BY <1>1 DEF Working
  <2> QED BY <2>1, AtWork DEF OldFrom, Stale
<1>7. OldFrom(s) /\ numDocsInRAM(d) # 0 => old = dwpts
  OBVIOUS
<1>8. old \in Seq(DwptRec)
  <2>1. CASE OldFrom(s) /\ numDocsInRAM(d) = 0
    <3>1. old = Finished(d, "empty") /\ d \in DOMAIN dwpts
      BY <1>6, <2>1
    <3> HIDE DEF old, d
    <3> QED BY <1>2, <3>1, FinishedLive
  <2>2. CASE ~(OldFrom(s) /\ numDocsInRAM(d) = 0)
    BY <1>2, <2>2
  <2> QED BY <2>1, <2>2
<1> HIDE DEF s, f, old, d, new
<1>9. CASE f.states[s].dwpt = None
  <2>1. dwpts' = Append(old, new) /\ fc' = [f EXCEPT !.states[s].dwpt = Len(dwpts')]
    BY <1>1, <1>9
  <2>2. f.states \in Seq(StateRec) /\ f \in FcRec
    BY <1>5, GoodFields
  <2>3. /\ fc'.fullFlush = f.fullFlush /\ fc'.flushingWriters = f.flushingWriters
        /\ fc'.numPending = f.numPending
        /\ fc'.states = [f.states EXCEPT ![s].dwpt = Len(dwpts')]
    BY <2>1, <2>2 DEF FcRec
  <2>4. /\ DOMAIN fc'.states = DOMAIN f.states
        /\ \A r \in DOMAIN f.states : fc'.states[r].flushPending = f.states[r].flushPending
    BY <2>2, <2>3 DEF StateRec
  <2>5. PendingIn(fc') = PendingIn(f)
    BY <2>4 DEF PendingIn
  <2>6. Clear(fc')
    BY <1>5, <2>3, <2>5 DEF Clear, Excess
  <2>7. Flushed(fc') = Flushed(f)
    BY <2>3 DEF Flushed
  <2>8. OldFrom(s) /\ numDocsInRAM(d) # 0 => dwpts'[d].queue # deleteQueue
    <3>1. \A e \in DOMAIN old : dwpts'[e] = old[e]
      BY <1>8, <2>1
    <3> QED BY <1>6, <1>7, <3>1
  <2>9. OldFollows
    BY <1>5, <2>7, <2>8 DEF OldFollows
  <2> QED BY <1>1, <1>2, <1>3, <1>4, <1>5, <2>3, <2>6, <2>9, WholeStep
<1>10. CASE f.states[s].dwpt # None
  BY <1>1, <1>2, <1>3, <1>4, <1>5, <1>10, StillWhole
<1> QED BY <1>9, <1>10

LEMMA ThreadWhole ==
  ASSUME RamLimit = 0, FCInv, FCInv', Queues, Whole, NEW t \in Threads,
         \/ ThreadSteps(t) \/ StartUpdate(t) \/ StartFlushNext(t)
         \/ \E n \in 0 .. 1 : FailDocument(t, n)
  PROVE  Whole'
<1>1. CASE FlushSteps(t)
  BY <1>1, FlushStepsWhole DEF Callers
<1>2. CASE \/ StartUpdate(t) \/ StartFlushNext(t) \/ WaitIfStalled(t) \/ WakeUp(t)
           \/ FindLargest(t) \/ Release(t)
  BY <1>2, QuietWhole
<1>3. CASE Index(t) \/ \E n \in 0 .. 1 : FailDocument(t, n)
  <2>1. 0 \in 0 .. 1
    OBVIOUS
  <2> QED BY <1>3, <2>1, DocumentWhole
<1>4. CASE AfterDocument(t)
  BY <1>4, AfterDocumentWhole
<1>5. CASE CheckOutLargest(t)
  BY <1>5, CheckOutLargestWhole
<1>6. CASE Obtain(t)
  BY <1>6, ObtainWhole
<1>7. CASE LockState(t)
  BY <1>7, LockStateWhole
<1> QED BY <1>1, <1>2, <1>3, <1>4, <1>5, <1>6, <1>7 DEF ThreadSteps
------------------------------------------------------------------------------
\* A step of Main that is not of doFlush

\* Main moves on, but not to a scan.
MainMoves == OnlyCall(Main) /\ call'[Main].pc # "scan"

LEMMA MainMoved ==
  ASSUME FCInv, NEW c, call' = [call EXCEPT ![Main] = c], c.pc # "scan"
  PROVE  MainMoves /\ call'[Main] = c
BY Fields DEF MainMoves, OnlyCall

LEMMA MainGoesOn ==
  ASSUME FCInv, NEW pc, Goto(Main, pc), pc # "scan"
  PROVE  MainMoves /\ call'[Main].pc = pc
<1>1. call \in [Callers -> CallRec] /\ Main \in Callers /\ call[Main] \in CallRec
  BY Fields
<1> QED BY <1>1 DEF MainMoves, OnlyCall, Goto, CallRec

LEMMA MainScans ==
  ASSUME NoScans, MainMoves
  PROVE  NoScans'
BY DEF NoScans, MainMoves, OnlyCall

\* Steps outside of a full flush, and that into one or out of it
LEMMA OutsideWhole ==
  ASSUME FCInv, Whole, MainMoves, Clear(fc'), ~fc'.fullFlush \/ call'[Main].pc = "swap"
  PROVE  Whole'
<1>1. NoScans'
  BY MainScans DEF Whole
<1> QED BY <1>1 DEF Whole, OldFlushed

LEMMA MarkForFullFlushWhole ==
  ASSUME FCInv, Whole, MarkForFullFlush
  PROVE  Whole'
<1>1. Goto(Main, "swap") /\ fc' = [fc EXCEPT !.fullFlush = TRUE] /\ Good(fc, dwpts)
  BY Fields DEF MarkForFullFlush
<1>2. fc'.states = fc.states /\ Excess(fc') = Excess(fc)
  BY <1>1, FlagOnly
<1>3. Clear(fc')
  BY <1>2, ClearStates DEF Whole
<1> QED BY <1>1, <1>3, MainGoesOn, OutsideWhole

LEMMA SwapQueueWhole ==
  ASSUME FCInv, FCInv', Queues, Whole, SwapQueue
  PROVE  Whole'
<1> DEFINE b == At("mark", 1, None, "fullFlush", FALSE, ActiveThreadStateCount)
<1>1. /\ call[Main].pc = "swap" /\ UNCHANGED dwpts /\ UNCHANGED fc
      /\ deleteQueue' = deleteQueue + 1 /\ call' = [call EXCEPT ![Main] = b]
  BY DEF SwapQueue
<1>2. b.pc # "scan"
  BY DEF At
<1> HIDE DEF b
<1>3. NoScans'
  BY <1>1, <1>2, MainMoved, MainScans DEF Whole
<1>4. deleteQueue \in Nat /\ \A d \in Live : dwpts[d].queue = deleteQueue
  BY <1>1, ScalarsNow DEF Queues, FlushingPcs, Stale, Scalars
<1>5. \A d \in Flushed(fc) : dwpts[d].queue # deleteQueue + 1
  BY <1>4, PlacesLive
<1> QED BY <1>1, <1>3, <1>5 DEF Whole, OldFlushed, Stale, Clear, Excess, PendingIn, Flushed

LEMMA MarkStateWhole ==
  ASSUME FCInv, FCInv', Queues, Whole, MarkState
  PROVE  Whole'
<1> DEFINE s == call[Main].state
           d == fc.states[s].dwpt
<1>1. /\ call[Main].pc = "mark" /\ s <= call[Main].left /\ UNCHANGED deleteQueue
      /\ call' = [call EXCEPT ![Main].state = s + 1]
      /\ IF OldFrom(s) THEN /\ fc' = AddFlushable(fc, s)
                            /\ dwpts' = IF numDocsInRAM(d) = 0 THEN Finished(d, "empty") ELSE dwpts
                       ELSE UNCHANGED <<fc, dwpts>>
  BY DEF MarkState, OldFrom, queueVars
<1>2. /\ s \in DOMAIN fc.states /\ call \in [Callers -> CallRec] /\ call[Main] \in CallRec
      /\ Main \in Callers
  BY <1>1, LoopState, Fields DEF CallRec
<1>3. Unscanned(Main)
  BY <1>1, <1>2 DEF Unscanned, OnlyCall, CallRec
<1>4. TableKept
  BY MarkStateQueues
<1> HIDE DEF s
<1>5. CASE ~OldFrom(s)
  BY <1>1, <1>2, <1>3, <1>4, <1>5, StillWhole
<1>6. CASE OldFrom(s)
  <2>1. /\ Clear(fc') /\ fc'.fullFlush = fc.fullFlush
        /\ Flushed(fc') \subseteq Flushed(fc) \cup {d}
        /\ numDocsInRAM(d) = 0 => Flushed(fc') = Flushed(fc)
    BY <1>1, <1>2, <1>6, EnrolledClear
  <2>2. numDocsInRAM(d) # 0 => dwpts' = dwpts
    BY <1>1, <1>6
  <2>3. dwpts[d].queue # deleteQueue
    BY <1>6 DEF OldFrom, Stale
  <2> HIDE DEF d
  <2>4. OldFollows
    BY <2>1, <2>2, <2>3 DEF OldFollows
  <2> QED BY <1>1, <1>2, <1>3, <1>4, <2>1, <2>4, WholeStep
<1> QED BY <1>5, <1>6

LEMMA EndMarkWhole ==
  ASSUME FCInv, FCInv', Queues, Whole, EndMark
  PROVE  Whole'
<1>1. /\ call[Main].pc = "mark" /\ UNCHANGED deleteQueue /\ fc' = MovedToQueue(fc)
      /\ UNCHANGED dwpts /\ Goto(Main, "setQueue") /\ Good(fc, dwpts) /\ Main \in Callers
  BY Fields DEF EndMark, queueVars
<1>2. Unscanned(Main)
  BY <1>1, MainGoesOn DEF MainMoves, Unscanned
<1>3. MoveResult(fc, fc', deleteQueue - 1)
  BY <1>1, Moved
<1>4. /\ fc'.states = fc.states /\ Excess(fc') = Excess(fc) /\ fc'.fullFlush = fc.fullFlush
      /\ Flushed(fc') = Flushed(fc) \cup {d \in Blocked(fc) : dwpts[d].queue = deleteQueue - 1}
  BY <1>3 DEF MoveResult, QueueResult
<1>5. Clear(fc')
  BY <1>4, ClearStates DEF Whole
<1>6. deleteQueue - 1 # deleteQueue
  BY ScalarsNow DEF Scalars
<1>7. OldFollows
  BY <1>1, <1>4, <1>6 DEF OldFollows
<1> QED BY <1>1, <1>2, <1>4, <1>5, <1>7, SameTable, WholeStep

LEMMA WaitsWhole ==
  ASSUME FCInv, FCInv', Queues, Whole, SetFlushingDeleteQueue \/ WaitForFlush
  PROVE  Whole'
<1>1. /\ UNCHANGED dwpts /\ UNCHANGED fc /\ UNCHANGED deleteQueue /\ call[Main].pc # "swap"
      /\ Main \in Callers
  BY Fields DEF SetFlushingDeleteQueue, WaitForFlush, queueVars
<1>2. MainMoves
  <2>1. CASE WaitForFlush
    BY <2>1, MainGoesOn DEF WaitForFlush
  <2>2. CASE SetFlushingDeleteQueue
    <3> DEFINE b == At("next", None, None, "fullFlush", FALSE, 0)
    <3>1. call' = [call EXCEPT ![Main] = b] /\ b.pc # "scan"
      BY <2>2 DEF SetFlushingDeleteQueue, At
    <3> HIDE DEF b
    <3> QED BY <3>1, MainMoved
  <2> QED BY <2>1, <2>2
<1>3. Unscanned(Main)
  BY <1>1, <1>2 DEF MainMoves, Unscanned
<1> QED BY <1>1, <1>3, SameTable, StillWhole

LEMMA EndFullFlushWhole ==
  ASSUME FCInv, Whole, NEW f, NEW table, NEW status, EndFullFlush(f, status), Good(f, table),
         f.states = fc.states, Excess(f) = Excess(fc)
  PROVE  Whole'
<1>1. fc' = [f EXCEPT !.fullFlush = FALSE] /\ call' = [call EXCEPT ![Main] = Idle]
  BY DEF EndFullFlush
<1>2. /\ fc'.states = f.states /\ Excess(fc') = Excess(f) /\ fc'.fullFlush = FALSE
  BY <1>1, FlagOnly
<1>3. Clear(fc')
  BY <1>2, ClearStates DEF Whole
<1>4. Idle.pc # "scan"
  BY DEF Idle
<1>5. MainMoves
  BY <1>1, <1>4, MainMoved
<1> QED BY <1>2, <1>3, <1>5, OutsideWhole

LEMMA FinishFullFlushWhole ==
  ASSUME FCInv, Whole, FinishFullFlush
  PROVE  Whole'
<1> DEFINE f == Prune(fc, deleteQueue)
<1>1. Good(fc, dwpts) /\ EndFullFlush(f, "flushed")
  BY Fields DEF FinishFullFlush
<1>2. PruneResult(fc, f, deleteQueue)
  BY <1>1, Pruned
<1> HIDE DEF f
<1>3. Good(f, dwpts) /\ f.states = fc.states /\ Excess(f) = Excess(fc)
  BY <1>2 DEF PruneResult, QueueResult
<1> QED BY <1>1, <1>3, EndFullFlushWhole

LEMMA AbortFullFlushesWhole ==
  ASSUME FCInv, Whole, AbortFullFlushes
  PROVE  Whole'
<1> DEFINE f == AbortPending(fc)
<1>1. Good(fc, dwpts) /\ EndFullFlush(f, "aborted")
  BY Fields DEF AbortFullFlushes
<1>2. AbortResult(fc, f, dwpts)
  BY <1>1, AbortedPending
<1> HIDE DEF f
<1>3. Good(f, dwpts) /\ f.states = fc.states /\ Excess(f) = Excess(fc)
  BY <1>2 DEF AbortResult, QueueResult
<1> QED BY <1>1, <1>3, EndFullFlushWhole

LEMMA DeleteAllWhole ==
  ASSUME FCInv, Queues, Whole,
         \/ StartDeleteAll \/ SetAbort \/ AbortState \/ AbortPendingFlushes \/ WaitForAbort
         \/ UnlockAll
  PROVE  Whole'
<1>1. ~fc.fullFlush /\ Good(fc, dwpts) /\ call \in [Callers -> CallRec] /\ call[Main] \in CallRec
      /\ Main \in Callers
  <2>1. call[Main].pc \in OtherPcs
    BY DEF StartDeleteAll, SetAbort, AbortState, AbortPendingFlushes, WaitForAbort, UnlockAll,
           OtherPcs
  <2> QED BY <2>1, Fields DEF Queues, OtherPcs, FullFlushPcs
<1>2. MainMoves
  <2>1. CASE StartDeleteAll
    <3> DEFINE b == At("setAbort", 1, None, "deleteAll", FALSE, ActiveThreadStateCount)
    <3>1. call' = [call EXCEPT ![Main] = b] /\ b.pc # "scan"
      BY <2>1 DEF StartDeleteAll, At
    <3> HIDE DEF b
    <3> QED BY <3>1, MainMoved
  <2>2. CASE SetAbort \/ AbortPendingFlushes \/ WaitForAbort
    BY <2>2, MainGoesOn DEF SetAbort, AbortPendingFlushes, WaitForAbort
  <2>3. CASE AbortState
    BY <1>1, <2>3 DEF AbortState, MainMoves, OnlyCall, CallRec
  <2>4. CASE UnlockAll
    <3>1. call' = [call EXCEPT ![Main] = Idle] /\ Idle.pc # "scan"
      BY <2>4 DEF UnlockAll, Idle
    <3> QED BY <3>1, MainMoved
  <2> QED BY <2>1, <2>2, <2>3, <2>4
<1>3. Clear(fc') /\ ~fc'.fullFlush
  <2>1. CASE UNCHANGED fc
    BY <1>1, <2>1 DEF Whole
  <2>2. CASE AbortState
    <3> DEFINE s == call[Main].state
    <3>1. fc' = DoOnAbort(fc, s) /\ s \in DOMAIN fc.states
      BY <2>2, LoopState DEF AbortState
    <3> HIDE DEF s
    <3>2. /\ Excess(fc') = Excess(fc) + One(fc.states[s]) /\ OnlyAt(fc, fc', s, Uninitialized)
          /\ SameQueues(fc, fc')
      BY <1>1, <3>1, AbortedState
    <3>3. PendingIn(fc) \subseteq {s} /\ Excess(fc) = 0 /\ One(fc.states[s]) = 0
      BY <3>1 DEF Whole, Clear, PendingIn, One
    <3>4. Clear(fc')
      BY <3>2, <3>3, UninitializedIdle, ClearReset
    <3> QED BY <1>1, <3>2, <3>4 DEF SameQueues
  <2>3. CASE AbortPendingFlushes
    <3>1. AbortResult(fc, fc', dwpts)
      BY <1>1, <2>3, AbortedPending DEF AbortPendingFlushes
    <3>2. fc'.states = fc.states /\ Excess(fc') = Excess(fc) /\ fc'.fullFlush = fc.fullFlush
      BY <3>1 DEF AbortResult, QueueResult
    <3> QED BY <1>1, <3>2, ClearStates DEF Whole
  <2> QED BY <2>1, <2>2, <2>3 DEF StartDeleteAll, SetAbort, WaitForAbort, UnlockAll
<1> QED BY <1>2, <1>3, OutsideWhole

LEMMA NextWhole ==
  ASSUME RamLimit = 0, FCInv, FCInv', Queues, Whole, [Next]_vars
  PROVE  Whole'
<1>1. CASE UNCHANGED vars
  BY <1>1 DEF vars, Whole, Clear, Excess, PendingIn, NoScans, OldFlushed, Stale, Flushed
<1>2. CASE FlushSteps(Main)
  BY <1>2, FlushStepsWhole DEF Callers
<1>3. CASE MainSteps \/ MarkForFullFlush \/ StartDeleteAll
  BY <1>2, <1>3, MarkForFullFlushWhole, SwapQueueWhole, MarkStateWhole, EndMarkWhole, WaitsWhole,
     FinishFullFlushWhole, AbortFullFlushesWhole, DeleteAllWhole DEF MainSteps
<1> QED BY <1>1, <1>3, ThreadWhole DEF Next

LEMMA WholeHolds ==
  ASSUME RamLimit = 0
  PROVE  Spec => []Whole
<1>1. Init => Whole
  <2>1. ASSUME Init
        PROVE  Whole
    <3>1. /\ fc.states = <<>> /\ fc.numPending = 0 /\ fc.fullFlush = FALSE
          /\ \A t \in Callers : call[t] = Idle
      BY <2>1 DEF Init
    <3>2. PendingIn(fc) = {} /\ Idle.pc = "idle"
      BY <3>1 DEF PendingIn, Idle
    <3>3. Clear(fc)
      BY <3>1, <3>2, FS_EmptySet DEF Clear, Excess
    <3> QED BY <3>1, <3>2, <3>3 DEF Whole, NoScans, OldFlushed
  <2> QED BY <2>1
<1>2. FCInv /\ FCInv' /\ Queues /\ Whole /\ [Next]_vars => Whole'
  BY NextWhole
<1> QED BY <1>1, <1>2, Invariant, QueuesHold, PTL DEF Spec

\* What FullFlushIsComplete says of the old generation, with any limits
OldGenerationGone ==
    /\ call[Main].pc = "flushed" => \A d \in Live : ~Stale(d)
    /\ call[Main].pc \notin {"mark", "swap"} =>
          /\ \A s \in States : fc.states[s].dwpt # None => ~Stale(fc.states[s].dwpt)
          /\ fc.fullFlushBuffer = <<>>
    /\ call[Main].pc = "flushed" =>
          \A i \in DOMAIN fc.blockedFlushes : ~Stale(fc.blockedFlushes[i].dwpt)
    /\ ~fc.fullFlush => fc.blockedFlushes = <<>>

LEMMA OldGone ==
  ASSUME FCInv, Queues
  PROVE  OldGenerationGone
<1>1. call[Main].pc = "flushed" => \A d \in Live : ~Stale(d)
  BY DEF Queues, FlushingPcs
<1>2. \A s \in States : fc.states[s].dwpt # None => fc.states[s].dwpt \in InStates(fc)
  BY PlacesLive DEF States
<1>3. \A i \in DOMAIN fc.blockedFlushes : fc.blockedFlushes[i].dwpt \in Blocked(fc)
  BY DEF Blocked, DwptsOf, Range
<1>4. call[Main].pc # "mark" => /\ \A d \in InStates(fc) \cup Blocked(fc) : ~Stale(d)
                                /\ fc.fullFlushBuffer = <<>>
  BY DEF Queues
<1>5. ~fc.fullFlush => fc.blockedFlushes = <<>>
  BY DEF Queues
<1> QED BY <1>1, <1>2, <1>3, <1>4, <1>5 DEF OldGenerationGone

\* With any limits in documents and bytes: when flushAllThreads is through no
\* DWPT of the old queue is left, whoever indexed or flushed meanwhile; the
\* assertions on the ThreadStates after the marking and on the blocked flushes
\* after the full flush never fail (DocumentsWriterFlushControl.cpp:503-706).
THEOREM OldGeneration == Spec => []OldGenerationGone
<1>1. FCInv /\ Queues => OldGenerationGone
  BY OldGone
<1> QED BY <1>1, Invariant, QueuesHold, PTL

\* A full flush without a limit in bytes flushes the DWPTs of its queue, all of
\* them and no others, and each of them once: so also the assertion on the
\* ticket queue in doFlush holds, and those at the end of the full flush.
THEOREM FullFlush ==
  ASSUME RamLimit = 0
  PROVE  Spec => []FullFlushIsComplete
<1>1. ASSUME FCInv, Queues, Whole
      PROVE  FullFlushIsComplete
  <2>1. OnePlace
    BY <1>1, OnePlaceHolds
  <2>2. OldGenerationGone
    BY <1>1, OldGone
  <2>3. /\ Good(fc, dwpts) /\ Held(fc, call, Live)
        /\ \A t \in Callers : CallOK(t, call[t], Len(fc.states))
    BY <1>1, Fields
  <2>4. call[Main].pc = "flushed" => Flushed(fc) = {}
    <3>1. call[Main].pc = "flushed" => fc.fullFlush /\ \A d \in Live : ~Stale(d)
      BY <1>1 DEF Queues, FlushingPcs, FullFlushPcs
    <3>2. call[Main].pc = "flushed" => \A d \in Flushed(fc) : Stale(d) /\ d \in Live
      BY <1>1, <3>1, PlacesLive DEF Whole, OldFlushed
    <3> QED BY <3>1, <3>2
  <2>5. call[Main].pc = "flushed" => fc.flushQueue = <<>> /\ fc.flushingWriters = {}
    <3>1. fc.flushQueue \in Seq(Nat) /\ Range(fc.flushQueue) \subseteq Flushed(fc)
      BY <2>3, GoodFields DEF Queueing
    <3>2. Flushed(fc) = {} => fc.flushingWriters = {}
      BY DEF Flushed, DwptsOf
    <3>3. Flushed(fc) = {} => fc.flushQueue = <<>>
      <4>1. /\ Len(fc.flushQueue) \in Nat /\ DOMAIN fc.flushQueue = 1 .. Len(fc.flushQueue)
        BY <3>1
      <4>2. Flushed(fc) = {} => 1 \notin DOMAIN fc.flushQueue
        BY <3>1 DEF Range
      <4> QED BY <3>1, <4>1, <4>2, EmptySeq
    <3> QED BY <2>4, <3>2, <3>3
  <2>6. OnlyFlushingQueue
    <3>1. SUFFICES ASSUME NEW t \in Callers, call[t].pc = "flush", currentFullFlushDelQueue # 0
                   PROVE  dwpts[call[t].dwpt].queue = currentFullFlushDelQueue
      BY DEF OnlyFlushingQueue
    <3>2. call[t].dwpt \in Flushed(fc)
      <4>1. call[t].dwpt \in Hands(call)
        BY <2>3, <3>1 DEF Hands, CallOK
      <4> QED BY <2>3, <4>1 DEF Held
    <3>3. /\ call[Main].pc \in FlushingPcs \cup {"flushed"} /\ fc.fullFlush
          /\ currentFullFlushDelQueue = deleteQueue - 1
      BY <1>1, <3>1 DEF Queues, FlushingPcs, FullFlushPcs
    <3>4. Stale(call[t].dwpt)
      BY <1>1, <3>2, <3>3 DEF Whole, OldFlushed, FlushingPcs
    <3>5. dwpts[call[t].dwpt].queue \in {deleteQueue, deleteQueue - 1}
      BY <1>1, <3>2, PlacesLive DEF Queues
    <3> QED BY <3>3, <3>4, <3>5 DEF Stale
  <2>7. FullFlushAsserts
    BY <2>2, <2>5 DEF FullFlushAsserts, OldGenerationGone
  <2> QED BY <2>1, <2>2, <2>6, <2>7 DEF FullFlushIsComplete, OldGenerationGone
<1> QED BY <1>1, Invariant, QueuesHold, WholeHolds, PTL

\* All the counters are exact, bytes and the number of pending ThreadStates,
\* without deleteAll, or if nothing is ever pending when it comes.
THEOREM Balance ==
  ASSUME "deleteAll" \notin MainCalls \/ RamLimit = 0
  PROVE  Spec => []CountersBalance
<1>1. ASSUME FCInv, "deleteAll" \notin MainCalls \/ Clear(fc)
      PROVE  CountersBalance
  <2>1. Typed(fc) /\ fc.numPending \in Int
    BY <1>1, GoodFields DEF FCInv, Core
  <2>2. Cardinality(PendingIn(fc)) \in Nat
    BY <2>1, PendingSum
  <2>3. fc.numPending - Cardinality(PendingIn(fc)) = 0
    BY <1>1 DEF FCInv, Core, Balanced, Excess, Clear
  <2>4. PendingStates = PendingIn(fc)
    BY DEF PendingStates, PendingIn, States
  <2>5. PendingIsCounted
    BY <2>1, <2>2, <2>3, <2>4 DEF PendingIsCounted
  <2> QED BY <1>1, <2>5, BytesCounted DEF CountersBalance
<1>2. CASE "deleteAll" \notin MainCalls
  <2>1. FCInv => CountersBalance
    BY <1>1, <1>2
  <2> QED BY <2>1, Invariant, PTL
<1>3. CASE RamLimit = 0
  <2>1. FCInv /\ Whole => CountersBalance
    BY <1>1 DEF Whole
  <2>2. Spec => []Whole
    BY <1>3, WholeHolds
  <2> QED BY <2>1, <2>2, Invariant, PTL
<1> QED BY <1>2, <1>3
==============================================================================
