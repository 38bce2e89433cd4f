-------------------------------- MODULE Pages --------------------------------
(***************************************************************************)
(* The components of the frontend that keep data of the server on screen   *)
(* and submit forms, one at a time, over the session of Client.  What they *)
(* have in common is modelled once: an effect that fetches on mount and    *)
(* when its key changes, a poll, a form that disables itself while it is   *)
(* busy and then fetches again.  The tables below say which has what.      *)
(*                                                                         *)
(* The components of a screen share nothing but the session, so one of     *)
(* them and what it leaves behind stand for all; a Promise.all is one      *)
(* request.  useTickers is module Tickers.                                 *)
(***************************************************************************)
EXTENDS Client

CONSTANT Keys       \* market symbols and candle intervals

ASSUME PagesAssumption == Keys # {}

VARIABLES
    page, key,
    shown,          \* the data on screen and the key it was fetched for
    busy            \* the busy flags that are set

vars == <<clientVars, page, key, shown, busy>>
-----------------------------------------------------------------------------
\* OrderBook and TradeTape, CandleChart, the market of TradePage, its private
\* part, and the pages of the other routes.
Viewless == {"markets", "login", "register"}
Keyed == {"book", "candles", "market", "trade"}
Guarded == {"book", "candles"}      \* by a flag that their cleanup sets
Polled == {"book", "wallet"}
Private == {"trade", "wallet", "orders", "settings"}
Components == Viewless \cup Keyed \cup Private

FormsOf(p) ==
    CASE p = "trade" -> {"order", "cancelOrder"}
      [] p = "wallet" -> {"deposit", "withdraw"}
      [] p = "orders" -> {"cancel"}
      [] p = "settings" -> {"setup", "confirm", "disable"}
      [] p \in {"login", "register"} -> {p}
      [] OTHER -> {}

\* The flag that a form sets: those of SettingsPage share one, and a
\* cancellation has none.
FlagOf(form) ==
    CASE form \in {"setup", "confirm", "disable"} -> {"settings"}
      [] form \in {"cancel", "cancelOrder"} -> {}
      [] OTHER -> {form}

\* A form fetches the data of its page again before it is done.
Refetches(form) == form \notin {"login", "register", "setup"}
-----------------------------------------------------------------------------
ViewOf(p, k) ==
    [NoRequest EXCEPT !.what = "view", !.key = k, !.private = p \in Private, !.live = TRUE]

\* refreshPrivate fetches nothing without a session.
Fetches(p, token) == p \notin Viewless /\ (p = "trade" => token # None)

AnySlot(reqs) == CHOOSE r \in Slots : reqs[r].pc = "idle"

\* The effect of p runs: reqs with its fetch, if there is one.
Effect(reqs, p, k, token) ==
    IF Fetches(p, token) THEN [reqs EXCEPT ![AnySlot(reqs)] = Send(ViewOf(p, k), token)]
    ELSE reqs

Disposed(reqs, S) == [r \in Slots |-> [reqs[r] EXCEPT !.live = @ /\ r \notin S]]

\* p replaces the page: nothing that is under way concerns the new one.
Show(reqs, p, token) ==
    /\ page' = p /\ shown' = None /\ busy' = {}
    /\ req' = Effect(Disposed(reqs, Slots), p, key, token)
    /\ UNCHANGED key

Visit(p) ==
    /\ Spend("visits") /\ \E r \in Slots : Free(r)
    /\ p # page /\ (p \in Private => isLoggedIn)
    /\ Show(req, p, access)
    /\ UNCHANGED <<serverVars, tokenVars>>

\* The button of the Navbar.
Logout ==
    /\ Spend("logouts") /\ isLoggedIn
    /\ clearTokens
    /\ session' = IF RefreshesInFlight = {} THEN None ELSE Unsure
    /\ Show(req, "login", None)
    /\ UNCHANGED serverVars

\* Variant: the cleanup of the effect sets no flag.
ChangeKeyUndisposed(k) ==
    /\ Spend("keys") /\ \E r \in Slots : Free(r)
    /\ page \in Keyed /\ k # key /\ key' = k
    /\ req' = Effect(req, page, k, access)
    /\ UNCHANGED <<serverVars, tokenVars, page, shown, busy>>

\* Another symbol or interval: cleanup, and the effect again.  What is on
\* screen stays until an answer comes.
ChangeKey(k) ==
    /\ Spend("keys") /\ \E r \in Slots : Free(r)
    /\ page \in Keyed /\ k # key /\ key' = k
    /\ req' = Effect(Disposed(req, IF page \in Guarded THEN Slots ELSE {}), page, k, access)
    /\ UNCHANGED <<serverVars, tokenVars, page, shown, busy>>

\* Variant: polls stop when there is something to show.
PollUntilShown ==
    /\ page \in Polled /\ shown = None /\ \E r \in Slots : Free(r)
    /\ req' = Effect(req, page, key, access)
    /\ UNCHANGED <<serverVars, tokenVars, budget, page, key, shown, busy>>

\* setInterval: whether or not the last poll has been answered.
Poll ==
    /\ page \in Polled /\ \E r \in Slots : Free(r)
    /\ req' = Effect(req, page, key, access)
    /\ UNCHANGED <<serverVars, tokenVars, budget, page, key, shown, busy>>

Submit(form) ==
    /\ Spend("submits") /\ \E r \in Slots : Free(r)
    /\ form \in FormsOf(page) /\ FlagOf(form) \cap busy = {}
    /\ busy' = busy \cup FlagOf(form)
    /\ LET w == [ViewOf(page, key) EXCEPT !.what = "submit", !.form = form,
                    !.author = IF access = None \/ session = Unsure THEN Unsure ELSE access.user]
       IN  req' = [req EXCEPT ![AnySlot(req)] = Send(w, access)]
    /\ UNCHANGED <<serverVars, tokenVars, page, key, shown>>
-----------------------------------------------------------------------------
(* The end of a request *)

Released(w) == IF w.live THEN busy \ FlagOf(w.form) ELSE busy

ViewAnswered(r) ==
    LET w == req[r] IN
    /\ w.what = "view" /\ EndsWell(r)
    /\ shown' = IF w.live THEN [key |-> w.key, version |-> w.answer.version] ELSE shown
    /\ busy' = Released(w)
    /\ req' = [req EXCEPT ![r] = NoRequest]
    /\ UNCHANGED <<tokenVars, page, key>>

\* The error of a fetch is shown or dropped; TradePage shows no market then.
ViewFailed(r) ==
    LET w == req[r] IN
    /\ w.what = "view" /\ EndsBadly(r)
    /\ shown' = IF w.live /\ page = "market" THEN None ELSE shown
    /\ busy' = Released(w)
    /\ req' = [req EXCEPT ![r] = NoRequest]
    /\ TokensAfterFailure(r)
    /\ UNCHANGED <<session, page, key>>

\* The form goes on with the fetch of its page, also when that is gone.
SubmitAnswered(r) ==
    LET w == req[r] IN
    /\ w.what = "submit" /\ EndsWell(r) /\ w.form \notin {"login", "register"}
    /\ IF Refetches(w.form) /\ (w.form \in FormsOf("trade") => isLoggedIn)
       THEN /\ req' = [req EXCEPT ![r] = Send([NoRequest EXCEPT !.form = w.form, !.key = w.key,
                                                  !.private = TRUE, !.live = w.live], access)]
            /\ UNCHANGED busy
       ELSE /\ req' = [req EXCEPT ![r] = NoRequest]
            /\ busy' = Released(w)
    /\ UNCHANGED <<tokenVars, page, key, shown>>

SubmitFailed(r) ==
    LET w == req[r] IN
    /\ w.what = "submit" /\ EndsBadly(r)
    /\ busy' = Released(w)
    /\ req' = [req EXCEPT ![r] = NoRequest]
    /\ TokensAfterFailure(r)
    /\ UNCHANGED <<session, page, key, shown>>

\* LoginPage: store the tokens and leave, or ask for a code.  The requests
\* under way are somebody else's from now on.
LoggedIn(r) ==
    LET u == req[r].answer.user
        reqs == [s \in Slots |-> IF s = r THEN NoRequest ELSE [req[s] EXCEPT !.author = Unsure]]
    IN  /\ req[r].form = "login" /\ EndsWell(r) /\ u # None
        /\ setTokens(u, req[r].answer.version)
        /\ session' = IF RefreshesInFlight = {} THEN u ELSE Unsure
        /\ Show(reqs, "markets", access')

CodeAsked(r) ==
    /\ req[r].form = "login" /\ EndsWell(r) /\ req[r].answer.user = None
    /\ busy' = Released(req[r])
    /\ req' = [req EXCEPT ![r] = NoRequest]
    /\ UNCHANGED <<tokenVars, page, key, shown>>

\* RegisterPage.
Registered(r) ==
    /\ req[r].form = "register" /\ EndsWell(r)
    /\ Show([req EXCEPT ![r] = NoRequest], "login", access)
    /\ UNCHANGED tokenVars

End(r) ==
    /\ \/ ViewAnswered(r) \/ ViewFailed(r) \/ SubmitAnswered(r) \/ SubmitFailed(r)
       \/ LoggedIn(r) \/ CodeAsked(r) \/ Registered(r)
    /\ UNCHANGED <<serverVars, budget>>
-----------------------------------------------------------------------------
RequestStep(r) ==
    \/ ClientStep(r) /\ UNCHANGED <<page, key, shown, busy>>
    \/ End(r)

Next ==
    \/ \E r \in Slots : RequestStep(r)
    \/ Poll \/ Logout
    \/ \E p \in Components : Visit(p)
    \/ \E k \in Keys : ChangeKey(k)
    \/ \E form \in FormsOf(page) : Submit(form)
    \/ (Expire \/ OthersChange) /\ UNCHANGED <<page, key, shown, busy>>
    \/ \E u \in Users : SetStatus(u) /\ UNCHANGED <<page, key, shown, busy>>

\* The page is opened: its effect runs.
Init ==
    /\ ClientInit
    /\ busy = {} /\ shown = None /\ key = CHOOSE k \in Keys : TRUE
    /\ page \in IF isLoggedIn THEN Components ELSE Components \ Private
    /\ req = Effect([r \in Slots |-> NoRequest], page, key, access)

Spec == Init /\ [][Next]_vars

\* Browser, network and server bring every request to an end, and intervals
\* tick; nobody need click.
FairSpec == Spec /\ WF_vars(Poll) /\ \A r \in Slots : WF_vars(RequestStep(r))
-----------------------------------------------------------------------------
\* client.ts 31-74: whatever overlaps, the session is that of the user who
\* logged in last, or none after a logout.  Excluded are a refresh that the
\* network or a suspension made fail, and one that was under way while the
\* user logged in or out: its tokens, or their removal, come last.
SessionIsAsChosen ==
    session # Unsure =>
        /\ refresh = session
        /\ IF session = None THEN access = None ELSE isLoggedIn /\ access.user = session

\* client.ts 41-45: only what was refused is sent again, so a form is executed
\* at most once, lost answers included, and for the user who submitted it,
\* unless another logged in meanwhile or the session was in doubt.
SubmittedOnce ==
    \A r \in Slots : req[r].what = "submit" =>
        /\ req[r].ran <= 1
        /\ req[r].ran = 1 /\ req[r].private => req[r].author \in {Unsure, req[r].token.user}

\* usePolling.ts 13-14, CandleChart.tsx 74: an answer for an earlier symbol or
\* interval never replaces what is shown, however late it comes.
LateAnswersAreDropped ==
    [][shown' \notin {shown, None} /\ page \in Guarded => shown'.key = key']_vars

\* usePolling.ts 4-26, WalletPage.tsx 41-46: once data and key rest, a polled
\* component shows just them in the end, although answers overtake each other,
\* fail and are refused; the wallet needs its session for that.
RestingDataIsShown ==
    <>[][FALSE]_<<page, key, data>> =>
        <>[](page \in Polled /\ (page = "wallet" => isLoggedIn)
                => shown = [key |-> key, version |-> data])

\* TradePage.tsx 54-75, WalletPage.tsx 48-85, SettingsPage.tsx 33-77 and the
\* others: a form that is busy is released, whichever of its requests fails.
EverySubmissionEnds ==
    \A flag \in {"order", "deposit", "withdraw", "settings", "login", "register"} :
        flag \in busy ~> flag \notin busy
=============================================================================
