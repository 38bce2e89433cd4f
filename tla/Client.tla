------------------------------- MODULE Client -------------------------------
(***************************************************************************)
(* The session of the browser, api/client.ts: tokens in localStorage, and  *)
(* requests that carry them.  A request that is answered 401 asks for new  *)
(* tokens once and is sent again.  Requests overlap, and so do the         *)
(* refreshes they start; the answers come in any order or not at all.      *)
(*                                                                         *)
(* What a page does with the end of a request is in module Pages.          *)
(***************************************************************************)
EXTENDS Naturals, FiniteSets

CONSTANTS
    Users,
    None,           \* null
    Unsure,         \* the user cannot tell which session to expect
    Slots,          \* bound on the requests in flight at once
    Budgets         \* bounds on how often each kind of event happens

Events == {"failures", "expiries", "suspensions", "changes", "visits", "logouts", "keys", "submits"}

ASSUME ClientAssumption ==
    /\ Users # {} /\ None \notin Users /\ Unsure \notin Users \cup {None}
    /\ None \notin [user : Users, epoch : Nat]
    /\ Budgets \subseteq [Events -> Nat]

VARIABLES
    access,         \* cx.accessToken
    refresh,        \* cx.refreshToken, named by its user
    epoch,          \* access tokens of earlier epochs have expired
    suspended,      \* users that are not ACTIVE
    data,           \* the version of what the server would answer
    req,            \* the calls of request()
    session,        \* history: the user that is meant to be logged in
    budget          \* how often each of the events below may still happen

clientVars == <<access, refresh, epoch, suspended, data, req, session, budget>>
serverVars == <<epoch, suspended, data>>
tokenVars == <<access, refresh, session>>
-----------------------------------------------------------------------------
Spend(what) == budget[what] > 0 /\ budget' = [budget EXCEPT ![what] = @ - 1]

Token(u, e) == [user |-> u, epoch |-> e]
NoAnswer == [status |-> "none", user |-> None, version |-> 0]

\* A request: what it is for, in whose page, and how far it has come.
NoRequest ==
    [pc |-> "idle", what |-> "view", form |-> "none", key |-> None, private |-> FALSE,
     live |-> FALSE, token |-> None, author |-> None, retried |-> FALSE, ran |-> 0,
     answer |-> NoAnswer]

Free(r) == req[r].pc = "idle"
isLoggedIn == access # None

\* request(), and its second attempt, read the token as they are sent.
Send(w, token) == [w EXCEPT !.pc = "sent", !.token = token, !.answer = NoAnswer]

RefreshesInFlight == {r \in Slots : req[r].pc \in {"refreshing", "refreshed"}}
-----------------------------------------------------------------------------
(* The server, as the browser sees it *)

Accepts(w) == w.private => w.token # None /\ w.token.epoch = epoch

\* Forms whose password or code may be wrong, which is answered by 401 too.
Credentials == {"login", "withdraw", "confirm", "disable"}

Answers(r, answer) == req' = [req EXCEPT ![r].pc = "answered", ![r].answer = answer]

Unauthorized(r) ==
    /\ \/ ~Accepts(req[r])
       \/ req[r].form \in Credentials /\ req[r].what = "submit"
    /\ Answers(r, [NoAnswer EXCEPT !.status = "unauthorized"])
    /\ UNCHANGED <<data, budget>>

\* What executes changes what later answers show; whether its answer reaches
\* the browser is another matter.
Executes(r, answer) ==
    /\ Accepts(req[r])
    /\ data' = IF req[r].what = "submit" /\ req[r].private THEN data + 1 ELSE data
    /\ req' = [req EXCEPT ![r].pc = "answered", ![r].answer = answer, ![r].ran = @ + 1]

Succeeds(r) ==
    /\ \E u \in IF req[r].form = "login" THEN Users \cup {None} ELSE {None} :
            Executes(r, [status |-> "ok", user |-> u,
                         version |-> IF req[r].what = "view" THEN data ELSE epoch])
    /\ UNCHANGED budget

\* Another error, or a connection that breaks before or after the execution.
Breaks(r) ==
    /\ Spend("failures")
    /\ LET answer == [NoAnswer EXCEPT !.status = "failed"]
       IN  \/ Executes(r, answer)
           \/ Answers(r, answer) /\ UNCHANGED data

Serve(r) ==
    /\ req[r].pc = "sent"
    /\ Unauthorized(r) \/ Succeeds(r) \/ Breaks(r)
    /\ UNCHANGED <<epoch, suspended, tokenVars>>

\* auth.service.ts refresh: new tokens, unless the user is not ACTIVE.  When it
\* fails the session is not what the user chose.
RefreshAnswer(r, status) ==
    req' = [req EXCEPT ![r].pc = "refreshed", ![r].answer.status = status,
                       ![r].answer.version = epoch]
RefreshSucceeds(r) ==
    /\ req[r].answer.user \notin suspended
    /\ RefreshAnswer(r, "ok") /\ UNCHANGED <<session, budget>>
RefreshFails(r) ==
    /\ \/ req[r].answer.user \in suspended /\ UNCHANGED budget
       \/ Spend("failures")
    /\ RefreshAnswer(r, "failed") /\ session' = Unsure

\* Variant: a refresh token serves once.
ServeRefreshOnce(r) ==
    /\ req[r].pc = "refreshing"
    /\ \/ /\ RefreshesInFlight \subseteq {s \in Slots : req[s].pc = "refreshing"}
          /\ RefreshSucceeds(r) \/ RefreshFails(r)
       \/ /\ \E s \in Slots : req[s].pc = "refreshed"
          /\ RefreshAnswer(r, "failed") /\ UNCHANGED <<session, budget>>
    /\ UNCHANGED <<access, refresh, serverVars>>

ServeRefresh(r) ==
    /\ req[r].pc = "refreshing"
    /\ RefreshSucceeds(r) \/ RefreshFails(r)
    /\ UNCHANGED <<access, refresh, serverVars>>

\* Access tokens outlive nothing but their time; users are suspended by admins
\* and may be reactivated; others change what is shown.
Expire ==
    /\ Spend("expiries") /\ epoch' = epoch + 1
    /\ UNCHANGED <<suspended, data, tokenVars, req>>
SetStatus(u) ==
    /\ Spend("suspensions")
    /\ suspended' = IF u \in suspended THEN suspended \ {u} ELSE suspended \cup {u}
    /\ UNCHANGED <<epoch, data, tokenVars, req>>
OthersChange ==
    /\ Spend("changes") /\ data' = data + 1
    /\ UNCHANGED <<epoch, suspended, tokenVars, req>>
-----------------------------------------------------------------------------
(* The browser *)

setTokens(u, e) == access' = Token(u, e) /\ refresh' = u
clearTokens == access' = None /\ refresh' = None

\* Variant: a request that failed for any reason is sent again.
RefusedAnyhow(r) ==
    /\ req[r].pc = "answered"
    /\ req[r].answer.status # "ok" /\ ~req[r].retried /\ refresh # None

\* request() after fetch: a first 401, with a refresh token at hand.
Refused(r) ==
    /\ req[r].pc = "answered"
    /\ req[r].answer.status = "unauthorized" /\ ~req[r].retried /\ refresh # None

TryRefresh(r) ==
    /\ Refused(r)
    /\ req' = [req EXCEPT ![r].pc = "refreshing", ![r].answer = [NoAnswer EXCEPT !.user = refresh]]
    /\ UNCHANGED <<serverVars, tokenVars, budget>>

\* Variant: the second attempt is an attempt like the first.
ResendUnmarked(r) ==
    LET answer == req[r].answer IN
    /\ req[r].pc = "refreshed" /\ answer.status = "ok"
    /\ setTokens(answer.user, answer.version)
    /\ req' = [req EXCEPT ![r] = Send(@, access')]
    /\ UNCHANGED <<serverVars, session, budget>>

\* tryRefresh stores the tokens; the request is sent again, for the last time.
Resend(r) ==
    LET answer == req[r].answer IN
    /\ req[r].pc = "refreshed" /\ answer.status = "ok"
    /\ setTokens(answer.user, answer.version)
    /\ req' = [req EXCEPT ![r] = [Send(@, access') EXCEPT !.retried = TRUE]]
    /\ UNCHANGED <<serverVars, session, budget>>

\* The ways a call of request() ends, before the page goes on with it.
EndsWell(r) == req[r].pc = "answered" /\ req[r].answer.status = "ok"
EndsBadly(r) ==
    \/ req[r].pc = "answered" /\ req[r].answer.status # "ok" /\ ~Refused(r)
    \/ req[r].pc = "refreshed" /\ req[r].answer.status = "failed"

\* A refresh that failed takes the tokens away, whoever's they are by now.
TokensAfterFailure(r) ==
    IF req[r].pc = "refreshed" THEN clearTokens ELSE UNCHANGED <<access, refresh>>

ClientInit ==
    /\ \E u \in {None, CHOOSE u \in Users : TRUE} :
            /\ session = u /\ refresh = u
            /\ access = IF u = None THEN None ELSE Token(u, 0)
    /\ epoch = 0 /\ suspended = {} /\ data = 0
    /\ budget \in Budgets

ClientStep(r) == Serve(r) \/ ServeRefresh(r) \/ TryRefresh(r) \/ Resend(r)
=============================================================================
