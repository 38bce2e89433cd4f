---------------------------- MODULE Tickers_proofs ----------------------------
(***************************************************************************)
(* For any symbols, prices and pages: the feed keeps one connection or one *)
(* timer, pages that are gone hold nothing, and the whole system, seen     *)
(* from getTicker, is the abstract source of tickers.                      *)
(***************************************************************************)
EXTENDS Tickers, TLAPS

\* What the counters and flags of the feed are.
FeedTypeOK ==
    /\ connecting \in Nat /\ open \in Nat /\ failing \in Nat /\ timers \in Nat
    /\ shuttingDown \in BOOLEAN

Fields == {"phase", "socket", "retry", "rest", "shown"}

\* A hook that is not there yet has no socket; a timer runs only while there is
\* no socket; one that is gone has neither, but for a close event to come.
HookOK(h) ==
    /\ DOMAIN hook[h] = Fields /\ hook[h].retry \in BOOLEAN
    /\ hook[h].retry => hook[h].socket = "none" /\ hook[h].phase = "mounted"
    /\ hook[h].phase = "disposed" => hook[h].socket \in {"closed", "none"}
    /\ hook[h].phase = "new" => hook[h].socket = "none"

HooksInv == DOMAIN hook = Hooks /\ \A h \in Hooks : HookOK(h)
-----------------------------------------------------------------------------
(* The feed *)

FeedInv == FeedTypeOK /\ OneFeed

\* The steps of the feed, one by one, keep its counters in balance.
LEMMA FeedStep == FeedInv /\ FeedNext => FeedInv'
<1> SUFFICES ASSUME FeedInv, FeedNext PROVE FeedInv'
  OBVIOUS
<1> USE DEF FeedInv, FeedTypeOK, OneFeed
<1>1. CASE Connect
  BY <1>1, SMT DEF Connect
<1>2. CASE Opened
  BY <1>2, SMT DEF Opened
<1>3. CASE Error
  BY <1>3, SMT DEF Error, Broken
<1>4. CASE Close
  BY <1>4, SMT DEF Close
<1>5. CASE Destroy
  BY <1>5, SMT DEF Destroy
<1>6. ASSUME NEW s \in Symbols, GoStale(s)
      PROVE  FeedInv'
  BY <1>6 DEF GoStale
<1>7. ASSUME NEW s \in Symbols, NEW price \in Prices, Message(s, price)
      PROVE  FeedInv'
  BY <1>7 DEF Message
<1> QED
  BY <1>1, <1>2, <1>3, <1>4, <1>5, <1>6, <1>7 DEF FeedNext

\* No step of a page touches the feed.
LEMMA HookStepsLeaveFeed ==
    ASSUME NEW h \in Hooks, HookStep(h)
    PROVE  UNCHANGED feedVars
  BY DEF HookStep, Mount, Unmount, ServeTickers, RestAnswered, HandleConnection,
         BroadcastTickers, OnMessage, Disconnect, OnClose, Reconnect

\* market-data.service.ts 52-56, 101-138: one connection or one timer until
\* the service is destroyed, and no timer afterwards.
THEOREM FeedIsOne == Spec => []OneFeed
<1>1. Init => FeedInv
  <2> SUFFICES ASSUME Init PROVE FeedInv
    OBVIOUS
  <2>1. /\ connecting = 1 /\ open = 0 /\ failing = 0 /\ timers = 0
        /\ shuttingDown = FALSE
    BY DEF Init, FeedInit
  <2>2. connecting + open + failing + timers = 1
    BY <2>1
  <2>3. FeedTypeOK
    BY <2>1 DEF FeedTypeOK
  <2>4. OneFeed
    BY <2>1, <2>2, Zenon DEF OneFeed
  <2> QED
    BY <2>3, <2>4 DEF FeedInv
<1>2. FeedInv /\ [Next]_vars => FeedInv'
  <2> SUFFICES ASSUME FeedInv, [Next]_vars PROVE FeedInv'
    OBVIOUS
  <2>1. CASE FeedNext
    BY <2>1, FeedStep
  <2>2. CASE UNCHANGED feedVars
    BY <2>2 DEF FeedInv, FeedTypeOK, OneFeed, feedVars
  <2> QED
    BY <2>1, <2>2, HookStepsLeaveFeed DEF Next, vars
<1>3. FeedInv => OneFeed
  BY DEF FeedInv
<1> QED
  BY <1>1, <1>2, <1>3, PTL DEF Spec
-----------------------------------------------------------------------------
(* The pages *)

\* Each step of a hook leaves the others alone and itself in order.
LEMMA HookStepInv ==
    ASSUME HooksInv, NEW h \in Hooks, HookStep(h)
    PROVE  HooksInv'
<1>1. CASE Mount(h)
  BY <1>1 DEF Mount, HooksInv, HookOK, Fields
<1>2. CASE Unmount(h)
  BY <1>2 DEF Unmount, HooksInv, HookOK, Fields
<1>3. CASE ServeTickers(h)
  BY <1>3 DEF ServeTickers, Set, HooksInv, HookOK, Fields
<1>4. CASE RestAnswered(h)
  BY <1>4 DEF RestAnswered, HooksInv, HookOK, Fields
<1>5. CASE HandleConnection(h)
  BY <1>5 DEF HandleConnection, Set, HooksInv, HookOK, Fields
<1>6. CASE BroadcastTickers(h)
  BY <1>6 DEF BroadcastTickers, HooksInv, HookOK
<1>7. CASE OnMessage(h)
  BY <1>7 DEF OnMessage, Set, HooksInv, HookOK, Fields
<1>8. CASE Disconnect(h)
  BY <1>8 DEF Disconnect, Set, HooksInv, HookOK, Fields
<1>9. CASE OnClose(h)
  BY <1>9 DEF OnClose, HooksInv, HookOK, Fields
<1>10. CASE Reconnect(h)
  BY <1>10 DEF Reconnect, HooksInv, HookOK, Fields
<1> QED
  BY <1>1, <1>2, <1>3, <1>4, <1>5, <1>6, <1>7, <1>8, <1>9, <1>10 DEF HookStep

\* useTickers.ts 46-50: a page that is gone has neither timer nor connection.
THEOREM GonePagesLeaveNothing == Spec => []UnmountedLeavesNothing
<1>1. Init => HooksInv
  <2> SUFFICES ASSUME Init PROVE HooksInv
    OBVIOUS
  <2>1. hook = [h \in Hooks |-> NewHook]
    BY DEF Init
  <2> QED
    BY <2>1 DEF NewHook, HooksInv, HookOK, Fields
<1>2. HooksInv /\ [Next]_vars => HooksInv'
  <2> SUFFICES ASSUME HooksInv, [Next]_vars PROVE HooksInv'
    OBVIOUS
  <2>1. CASE hook' = hook
    BY <2>1 DEF HooksInv, HookOK
  <2>2. ASSUME NEW h \in Hooks, HookStep(h)
        PROVE  HooksInv'
    BY <2>2, HookStepInv
  <2> QED
    BY <2>1, <2>2 DEF Next, vars
<1>3. HooksInv => UnmountedLeavesNothing
  BY DEF HooksInv, HookOK, UnmountedLeavesNothing
<1> QED
  BY <1>1, <1>2, <1>3, PTL DEF Spec
-----------------------------------------------------------------------------
(* The abstract source *)

\* Connections come and go, and a page does what it likes: to a reader of
\* getTicker there are only updates and prices that go stale.
THEOREM TickersImplementSource == Spec => ImplementsTickerSource
<1>1. Init => Source!Init
  BY DEF Init, FeedInit
<1>2. [Next]_vars => [Source!Next]_ticker
  <2> SUFFICES ASSUME [Next]_vars PROVE [Source!Next]_ticker
    OBVIOUS
  <2>1. CASE FeedNext
    BY <2>1 DEF FeedNext, Connect, Opened, Error, Close, Destroy, GoStale, Message, Source!Next
  <2>2. CASE UNCHANGED feedVars
    BY <2>2 DEF feedVars
  <2> QED
    BY <2>1, <2>2, HookStepsLeaveFeed DEF Next, vars
<1> QED
  BY <1>1, <1>2, PTL DEF Spec, ImplementsTickerSource, Source!Spec
=============================================================================
