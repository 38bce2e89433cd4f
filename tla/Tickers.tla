------------------------------- MODULE Tickers -------------------------------
(***************************************************************************)
(* Tickers on their way to a page: the upstream feed (MarketData), the     *)
(* gateway that broadcasts snapshots once a second, and the useTickers     *)
(* hook of each page that is opened, with its REST request, its WebSocket  *)
(* and its reconnection.  A hook belongs to one mount of one page.         *)
(***************************************************************************)
EXTENDS MarketData

CONSTANTS
    Hooks,
    None, Sent      \* nothing under way or shown; a request not yet served

VARIABLES
    clients,    \* the gateway's connected sockets, by the hook at the other end
    wire,       \* the snapshot on its way to each hook; bound: one at a time
    hook        \* [phase, socket, retry, rest, shown] of each hook

vars == <<feedVars, clients, wire, hook>>

Snapshot == [Symbols -> Source!Ticker]

NewHook == [phase |-> "new", socket |-> "none", retry |-> FALSE,
            rest |-> None, shown |-> None]

Set(h, field, value) == hook' = [hook EXCEPT ![h] = [@ EXCEPT ![field] = value]]
-----------------------------------------------------------------------------
Mount(h) ==
    /\ hook[h].phase = "new"
    /\ hook' = [hook EXCEPT ![h].phase = "mounted", ![h].rest = Sent,
                            ![h].socket = "connecting"]
    /\ UNCHANGED <<feedVars, clients, wire>>

\* The effect's cleanup: its timer is cleared and its socket closed.
Unmount(h) ==
    /\ hook[h].phase = "mounted"
    /\ hook' = [hook EXCEPT ![h].phase = "disposed", ![h].retry = FALSE,
                            ![h].socket = IF @ = "none" THEN @ ELSE "closed"]
    /\ clients' = clients \ {h}
    /\ wire' = [wire EXCEPT ![h] = None]
    /\ UNCHANGED feedVars

\* The backend reads the tickers for the REST request, or does not answer.
ServeTickers(h) ==
    /\ hook[h].rest = Sent
    /\ \E answer \in {None} \cup (IF shuttingDown THEN {} ELSE {ticker}) : Set(h, "rest", answer)
    /\ UNCHANGED <<feedVars, clients, wire>>

RestAnswered(h) ==
    /\ hook[h].rest \notin {Sent, None}
    /\ hook' = [hook EXCEPT ![h].rest = None,
                            ![h].shown = IF hook[h].phase = "disposed" THEN @ ELSE hook[h].rest]
    /\ UNCHANGED <<feedVars, clients, wire>>

\* handleConnection adds the client and sends it a first snapshot.
HandleConnection(h) ==
    /\ ~shuttingDown /\ hook[h].socket = "connecting"
    /\ clients' = clients \cup {h}
    /\ wire' = [wire EXCEPT ![h] = ticker]
    /\ Set(h, "socket", "open")
    /\ UNCHANGED feedVars

BroadcastTickers(h) ==
    /\ ~shuttingDown /\ h \in clients /\ wire[h] = None
    /\ wire' = [wire EXCEPT ![h] = ticker]
    /\ UNCHANGED <<feedVars, clients, hook>>

OnMessage(h) ==
    /\ hook[h].socket = "open" /\ wire[h] # None
    /\ Set(h, "shown", wire[h])
    /\ wire' = [wire EXCEPT ![h] = None]
    /\ UNCHANGED <<feedVars, clients>>

\* The connection breaks, or is refused; handleDisconnect drops the client.
Disconnect(h) ==
    /\ hook[h].socket \in {"connecting", "open"}
    /\ Set(h, "socket", "closed")
    /\ clients' = clients \ {h}
    /\ wire' = [wire EXCEPT ![h] = None]
    /\ UNCHANGED feedVars

\* Variant: the handler does not ask whether the page is still there.
OnCloseAlways(h) ==
    /\ hook[h].socket = "closed"
    /\ hook' = [hook EXCEPT ![h].socket = "none", ![h].retry = TRUE]
    /\ UNCHANGED <<feedVars, clients, wire>>

\* Variant: a page reconnects only as long as it has shown nothing.
OnCloseOnce(h) ==
    /\ hook[h].socket = "closed"
    /\ hook' = [hook EXCEPT ![h].socket = "none",
                            ![h].retry = hook[h].phase = "mounted" /\ hook[h].shown = None]
    /\ UNCHANGED <<feedVars, clients, wire>>

OnClose(h) ==
    /\ hook[h].socket = "closed"
    /\ hook' = [hook EXCEPT ![h].socket = "none", ![h].retry = hook[h].phase = "mounted"]
    /\ UNCHANGED <<feedVars, clients, wire>>

\* The timer of the hook fires: connect, unless disposed.
Reconnect(h) ==
    /\ hook[h].retry
    /\ hook' = [hook EXCEPT ![h].retry = FALSE,
                            ![h].socket = IF hook[h].phase = "disposed" THEN @ ELSE "connecting"]
    /\ UNCHANGED <<feedVars, clients, wire>>
-----------------------------------------------------------------------------
Init ==
    /\ FeedInit
    /\ clients = {}
    /\ wire = [h \in Hooks |-> None]
    /\ hook = [h \in Hooks |-> NewHook]

HookStep(h) ==
    \/ Mount(h) \/ Unmount(h) \/ ServeTickers(h) \/ RestAnswered(h)
    \/ HandleConnection(h) \/ BroadcastTickers(h) \/ OnMessage(h)
    \/ Disconnect(h) \/ OnClose(h) \/ Reconnect(h)

Next ==
    \/ FeedNext /\ UNCHANGED <<clients, wire, hook>>
    \/ \E h \in Hooks : HookStep(h)

Spec == Init /\ [][Next]_vars

\* Browsers and the backend run their timers and handlers; a connection that is
\* tried again and again is accepted in the end, and so is a message.
Fairness ==
    /\ WF_feedVars(Connect) /\ WF_feedVars(Close) /\ SF_feedVars(Opened)
    /\ \A h \in Hooks : /\ WF_vars(OnClose(h)) /\ WF_vars(Reconnect(h))
                        /\ SF_vars(HandleConnection(h)) /\ SF_vars(OnMessage(h))
                        /\ WF_vars(BroadcastTickers(h))

FairSpec == Spec /\ Fairness
-----------------------------------------------------------------------------
\* market-data.service.ts 52-56, 101-138: until it is destroyed the service has
\* one connection or one timer that will make one, however often an error and
\* the close that follows it happen at whatever stage; after that it has no
\* timer, also when its socket closes only later.
OneFeed == IF shuttingDown THEN timers = 0 ELSE connecting + open + failing + timers = 1

\* useTickers.ts 46-50: a page that is gone holds neither a timer nor a
\* connection, also when its socket closes after the cleanup.
UnmountedLeavesNothing ==
    \A h \in Hooks : hook[h].phase = "disposed" =>
        ~hook[h].retry /\ hook[h].socket \in {"closed", "none"}

\* The abstract source of prices that the market maker relies on.
ImplementsTickerSource == Source!Spec

\* useTickers.ts 5-8: once the tickers rest, the page shows them and keeps
\* showing them, although a late REST answer may replace what a message brought
\* and the socket may drop at any time.
RestingTickersAreShown ==
    <>[][FALSE]_ticker =>
        \A h \in Hooks : <>[](hook[h].phase = "mounted" /\ ~shuttingDown => hook[h].shown = ticker)
=============================================================================
