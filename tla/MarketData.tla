----------------------------- MODULE MarketData -----------------------------
(***************************************************************************)
(* MarketDataService: one WebSocket to the upstream feed, which reconnects *)
(* after a delay until the service is destroyed.  Sockets and timers are   *)
(* counted, as nothing but the code keeps them from being many.  How long  *)
(* the delay is, from reconnectAttempts, is left out: any delay is one.    *)
(***************************************************************************)
EXTENDS Integers

CONSTANTS Symbols, Prices

ASSUME FeedAssumption == Prices \subseteq Nat \ {0}

VARIABLES
    ticker,         \* tickers, with the staleness that getTickers computes
    connecting,     \* sockets that are opening
    open,           \* sockets that are open
    failing,        \* sockets that emitted an error or were closed, before 'close'
    timers,         \* armed reconnect timers
    shuttingDown

feedVars == <<ticker, connecting, open, failing, timers, shuttingDown>>

Source == INSTANCE TickerSource
-----------------------------------------------------------------------------
FeedInit ==
    /\ Source!Init
    /\ connecting = 1 /\ open = 0 /\ failing = 0
    /\ timers = 0
    /\ shuttingDown = FALSE

\* The reconnect timer fires: connect.
Connect ==
    /\ timers > 0
    /\ timers' = timers - 1
    /\ connecting' = IF shuttingDown THEN connecting ELSE connecting + 1
    /\ UNCHANGED <<ticker, open, failing, shuttingDown>>

Opened ==
    /\ connecting > 0
    /\ connecting' = connecting - 1 /\ open' = open + 1
    /\ UNCHANGED <<ticker, failing, timers, shuttingDown>>

\* A frame that parses; others are ignored.
Message(s, price) ==
    /\ open > 0
    /\ Source!Update(s, price)
    /\ UNCHANGED <<connecting, open, failing, timers, shuttingDown>>

GoStale(s) ==
    /\ ~ticker[s].stale
    /\ Source!GoStale(s)
    /\ UNCHANGED <<connecting, open, failing, timers, shuttingDown>>

\* A socket breaks; its 'close' is still to come.
Broken ==
    /\ \/ connecting > 0 /\ connecting' = connecting - 1 /\ UNCHANGED open
       \/ open > 0 /\ open' = open - 1 /\ UNCHANGED connecting
    /\ failing' = failing + 1

\* Variant: the error handler reconnects as well.
ErrorRetrying ==
    /\ Broken
    /\ timers' = timers + 1
    /\ UNCHANGED <<ticker, shuttingDown>>

\* The error handler only logs.
Error ==
    /\ Broken
    /\ UNCHANGED <<ticker, timers, shuttingDown>>

\* Variant: the prices of a lost connection are dropped.
CloseForgetting ==
    /\ failing > 0 /\ failing' = failing - 1
    /\ ticker' = [s \in Symbols |-> Source!Unknown]
    /\ timers' = IF shuttingDown THEN timers ELSE timers + 1
    /\ UNCHANGED <<connecting, open, shuttingDown>>

Close ==
    /\ failing > 0 /\ failing' = failing - 1
    /\ timers' = IF shuttingDown THEN timers ELSE timers + 1
    /\ UNCHANGED <<ticker, connecting, open, shuttingDown>>

\* onModuleDestroy clears the timer and closes the socket, opening or open.
Destroy ==
    /\ ~shuttingDown /\ shuttingDown' = TRUE
    /\ timers' = 0
    /\ failing' = failing + connecting + open /\ connecting' = 0 /\ open' = 0
    /\ UNCHANGED ticker

FeedNext ==
    \/ Connect \/ Opened \/ Error \/ Close \/ Destroy
    \/ \E s \in Symbols : GoStale(s) \/ \E price \in Prices : Message(s, price)
=============================================================================
