---------------------------- MODULE Pages_proofs ----------------------------
(***************************************************************************)
(* For any users, keys and requests in flight: the session is the one that *)
(* was chosen, a form is executed once and for its author, and an answer   *)
(* for an earlier key is not shown.                                        *)
(***************************************************************************)
EXTENDS Pages, TLAPS

Tokens == [user : Users, epoch : Nat]

Forms == {"none", "order", "cancelOrder", "deposit", "withdraw", "cancel", "setup", "confirm",
          "disable", "login", "register"}

Answer == [status : {"none", "ok", "unauthorized", "failed"}, user : Users \cup {None},
           version : Nat]

Request ==
    [pc : {"idle", "sent", "answered", "refreshing", "refreshed"},
     what : {"view", "submit"}, form : Forms, key : Keys \cup {None}, private : BOOLEAN,
     live : BOOLEAN, token : Tokens \cup {None}, author : Users \cup {None, Unsure},
     retried : BOOLEAN, ran : Nat, answer : Answer]

\* A refresh that is under way is of somebody.
TypeInv ==
    /\ access \in Tokens \cup {None} /\ refresh \in Users \cup {None}
    /\ session \in Users \cup {None, Unsure}
    /\ epoch \in Nat /\ data \in Nat
    /\ page \in Components /\ key \in Keys
    /\ req \in [Slots -> Request]
    /\ \A r \in RefreshesInFlight : req[r].answer.user \in Users

\* While the session is the one that was chosen, every refresh under way is of
\* its user, and has not failed.
SessionInv ==
    SessionIsAsChosen /\ (session # Unsure =>
        \A r \in RefreshesInFlight :
            /\ req[r].answer.user = session
            /\ req[r].pc = "refreshed" => req[r].answer.status = "ok")

\* What was executed is answered, and not refused.
RanOnce(w) ==
    /\ w.ran \in {0, 1}
    /\ w.ran = 1 => w.pc = "answered" /\ w.answer.status \in {"ok", "failed"}

\* As long as a form has a known author, there are tokens of nobody else, and
\* none on their way.
OwnTokens(w) ==
    w.what = "submit" /\ w.author # Unsure =>
        /\ w.author \in Users /\ refresh \in {None, w.author}
        /\ w.pc \in {"sent", "answered"} => w.token \in Tokens /\ w.token.user = w.author
        /\ \A s \in RefreshesInFlight : req[s].answer.user = w.author

\* On a page whose cleanup sets a flag, what is live is a fetch for its key.
Current(w) == page \in Guarded /\ w.live => w.what = "view" /\ w.key = key

RequestInv == \A r \in Slots : RanOnce(req[r]) /\ OwnTokens(req[r]) /\ Current(req[r])

Inv == TypeInv /\ SessionInv /\ RequestInv
-----------------------------------------------------------------------------
(* Fetches *)

\* A fetch that was just sent.
Fetch(w, k) ==
    /\ w \in Request /\ w.pc = "sent" /\ w.what = "view" /\ w.ran = 0 /\ w.key = k

\* What is sent again or anew is the same but for its token and answer.
Resent(w, v, token) ==
    /\ w \in Request /\ w.pc = "sent" /\ w.token = token
    /\ w.what = v.what /\ w.ran = v.ran /\ w.key = v.key /\ w.author = v.author
    /\ w.live = v.live /\ w.retried = v.retried /\ w.form = v.form /\ w.private = v.private

LEMMA SendType ==
    ASSUME NEW v \in Request, NEW token \in Tokens \cup {None}
    PROVE  Resent(Send(v, token), v, token)
<1>1. NoAnswer \in Answer
  BY DEF NoAnswer, Answer
<1> QED
  BY <1>1 DEF Send, Resent, Request

LEMMA ViewType ==
    ASSUME NEW p, NEW k \in Keys
    PROVE  /\ ViewOf(p, k) \in Request /\ ViewOf(p, k).what = "view" /\ ViewOf(p, k).ran = 0
           /\ ViewOf(p, k).key = k /\ ViewOf(p, k).form = "none"
<1>1. PICK b : b = (p \in Private)
  OBVIOUS
<1>2. ViewOf(p, k) = [NoRequest EXCEPT !.what = "view", !.key = k, !.private = b, !.live = TRUE]
  BY <1>1, Zenon DEF ViewOf
<1>3. b \in BOOLEAN
  BY <1>1
<1>4. NoAnswer \in Answer
  BY DEF NoAnswer, Answer
<1>5. ViewOf(p, k) =
        [pc |-> "idle", what |-> "view", form |-> "none", key |-> k, private |-> b,
         live |-> TRUE, token |-> None, author |-> None, retried |-> FALSE, ran |-> 0,
         answer |-> NoAnswer]
  BY <1>2, <1>3 DEF NoRequest
<1> QED
  BY <1>3, <1>4, <1>5 DEF Request, Forms

LEMMA EffectFetches ==
    ASSUME NEW reqs \in [Slots -> Request], NEW p \in Components, NEW k \in Keys,
           NEW token \in Tokens \cup {None}
    PROVE  /\ Effect(reqs, p, k, token) \in [Slots -> Request]
           /\ \A s \in Slots : \/ Effect(reqs, p, k, token)[s] = reqs[s]
                               \/ Fetch(Effect(reqs, p, k, token)[s], k)
<1> DEFINE w == Send(ViewOf(p, k), token)
<1>1. Fetch(w, k)
  <2>1. Resent(w, ViewOf(p, k), token)
    BY ViewType, SendType
  <2> QED
    BY <2>1, ViewType DEF Resent, Fetch
<1> HIDE DEF w
<1>2. CASE ~Fetches(p, token)
  BY <1>2 DEF Effect
<1>3. CASE Fetches(p, token)
  <2>1. Effect(reqs, p, k, token) = [reqs EXCEPT ![AnySlot(reqs)] = w]
    BY <1>3 DEF Effect, w
  <2>2. w \in Request
    BY <1>1 DEF Fetch
  <2> QED
    BY <1>1, <2>1, <2>2
<1> QED
  BY <1>2, <1>3

LEMMA DisposedType ==
    ASSUME NEW reqs \in [Slots -> Request], NEW S
    PROVE  /\ Disposed(reqs, S) \in [Slots -> Request]
           /\ \A s \in Slots : Disposed(reqs, S)[s] = [reqs[s] EXCEPT !.live = @ /\ s \notin S]
<1>1. ASSUME NEW s \in Slots PROVE [reqs[s] EXCEPT !.live = @ /\ s \notin S] \in Request
  BY DEF Request
<1> QED
  BY <1>1 DEF Disposed
-----------------------------------------------------------------------------
(* Steps that start, end or drop requests *)

\* v is idle or a fetch that was just sent.
Starts(v) ==
    /\ v.what = "view" /\ v.ran = 0 /\ v.pc \in {"idle", "sent"}
    /\ v.live /\ page' \in Guarded => v.key = key'

\* v is w, perhaps no longer live.
Stays(v, w) ==
    /\ v.pc = w.pc /\ v.what = w.what /\ v.ran = w.ran /\ v.key = w.key
    /\ v.token = w.token /\ v.author = w.author /\ v.answer = w.answer
    /\ v.live => w.live /\ (page' \notin Guarded \/ (page' = page /\ key' = key))

LEMMA SlotsKeep ==
    ASSUME Inv, TypeInv', refresh' \in {refresh, None},
           \A s \in Slots : Starts(req'[s]) \/ Stays(req'[s], req[s])
    PROVE  /\ RequestInv'
           /\ \A s \in RefreshesInFlight' :
                s \in RefreshesInFlight /\ req'[s].pc = req[s].pc /\ req'[s].answer = req[s].answer
<1>1. \A s \in RefreshesInFlight' :
        s \in RefreshesInFlight /\ req'[s].pc = req[s].pc /\ req'[s].answer = req[s].answer
  BY DEF RefreshesInFlight, Starts, Stays
<1>2. ASSUME NEW s \in Slots PROVE RanOnce(req[s])'
  BY <1>2 DEF Inv, RequestInv, RanOnce, Starts, Stays
<1>3. ASSUME NEW s \in Slots PROVE OwnTokens(req[s])'
  BY <1>1, <1>3 DEF Inv, RequestInv, OwnTokens, Starts, Stays
<1>4. ASSUME NEW s \in Slots PROVE Current(req[s])'
  BY <1>4 DEF Inv, RequestInv, Current, Starts, Stays
<1> QED
  BY <1>1, <1>2, <1>3, <1>4 DEF RequestInv

LEMMA SessionKeeps ==
    ASSUME SessionInv, UNCHANGED tokenVars,
           \A s \in RefreshesInFlight' :
                s \in RefreshesInFlight /\ req'[s].pc = req[s].pc /\ req'[s].answer = req[s].answer
    PROVE  SessionInv'
  BY DEF SessionInv, SessionIsAsChosen, tokenVars, isLoggedIn

LEMMA EmptyRequest ==
    /\ NoRequest \in Request /\ NoRequest.what = "view" /\ NoRequest.ran = 0
    /\ NoRequest.pc = "idle" /\ ~NoRequest.live
<1>1. NoAnswer \in Answer
  BY DEF NoAnswer, Answer
<1> QED
  BY <1>1 DEF NoRequest, Request, Forms

\* A page that is shown, and what its effect fetches.
LEMMA ShowKeeps ==
    ASSUME Inv, NEW reqs \in [Slots -> Request], NEW p \in Components,
           NEW token \in Tokens \cup {None}, Show(reqs, p, token),
           \A s \in Slots : Starts(reqs[s]) \/ reqs[s] = req[s]
    PROVE  /\ page' \in Components /\ key' = key /\ req' \in [Slots -> Request]
           /\ \A s \in Slots : Starts(req'[s]) \/ Stays(req'[s], req[s])
<1> DEFINE d == Disposed(reqs, Slots)
<1>1. /\ d \in [Slots -> Request]
      /\ \A s \in Slots : d[s] = [reqs[s] EXCEPT !.live = @ /\ s \notin Slots]
  BY DisposedType
<1> HIDE DEF d
<1>2. /\ page' = p /\ key' = key /\ req' = Effect(d, p, key, token)
  BY DEF Show, d
<1>3. key \in Keys
  BY DEF Inv, TypeInv
<1>4. /\ req' \in [Slots -> Request]
      /\ \A s \in Slots : req'[s] = d[s] \/ Fetch(req'[s], key)
  BY <1>1, <1>2, <1>3, EffectFetches
<1>5. ASSUME NEW s \in Slots, req'[s] = d[s]
      PROVE  Starts(req'[s]) \/ Stays(req'[s], req[s])
  <2>1. /\ d[s].pc = reqs[s].pc /\ d[s].what = reqs[s].what /\ d[s].ran = reqs[s].ran
        /\ d[s].key = reqs[s].key /\ d[s].token = reqs[s].token
        /\ d[s].author = reqs[s].author /\ d[s].answer = reqs[s].answer /\ ~d[s].live
    BY <1>1, <1>5 DEF Request
  <2> QED
    BY <1>5, <2>1 DEF Starts, Stays
<1>6. ASSUME NEW s \in Slots, Fetch(req'[s], key)
      PROVE  Starts(req'[s])
  BY <1>2, <1>6 DEF Fetch, Starts
<1> QED
  BY <1>2, <1>4, <1>5, <1>6
-----------------------------------------------------------------------------
(* The actions, one by one *)

LEMMA PageKeeps ==
    ASSUME Inv, TypeInv', UNCHANGED tokenVars,
           \A s \in Slots : Starts(req'[s]) \/ Stays(req'[s], req[s])
    PROVE  Inv'
<1>1. refresh' \in {refresh, None}
  BY DEF tokenVars
<1> QED
  BY <1>1, SlotsKeep, SessionKeeps DEF Inv

\* Where no refresh is started, the type of a refresh under way is kept.
LEMMA TypeKeeps ==
    ASSUME Inv, access' \in Tokens \cup {None}, refresh' \in Users \cup {None},
           session' \in Users \cup {None, Unsure}, epoch' \in Nat, data' \in Nat,
           page' \in Components, key' \in Keys, req' \in [Slots -> Request],
           \A s \in Slots : Starts(req'[s]) \/ Stays(req'[s], req[s])
    PROVE  TypeInv'
  BY DEF Inv, TypeInv, RefreshesInFlight, Starts, Stays

LEMMA TokensType ==
    ASSUME Inv, UNCHANGED tokenVars
    PROVE  /\ access' \in Tokens \cup {None} /\ refresh' \in Users \cup {None}
           /\ session' \in Users \cup {None, Unsure}
  BY DEF Inv, TypeInv, tokenVars

LEMMA VisitKeeps ==
    ASSUME Inv, NEW p \in Components, Visit(p)
    PROVE  Inv'
<1>1. /\ UNCHANGED tokenVars /\ epoch' = epoch /\ data' = data
      /\ Show(req, p, access)
  BY DEF Visit, serverVars
<1>2. req \in [Slots -> Request] /\ access \in Tokens \cup {None} /\ key \in Keys
      /\ epoch \in Nat /\ data \in Nat
  BY DEF Inv, TypeInv
<1>3. /\ page' \in Components /\ key' = key /\ req' \in [Slots -> Request]
      /\ \A s \in Slots : Starts(req'[s]) \/ Stays(req'[s], req[s])
  BY <1>1, <1>2, ShowKeeps
<1>4. TypeInv'
  BY <1>1, <1>2, <1>3, TokensType, TypeKeeps
<1> QED
  BY <1>1, <1>3, <1>4, PageKeeps

LEMMA LogoutKeeps ==
    ASSUME Inv, Logout
    PROVE  Inv'
<1>1. /\ access' = None /\ refresh' = None
      /\ session' = IF RefreshesInFlight = {} THEN None ELSE Unsure
      /\ epoch' = epoch /\ data' = data
      /\ Show(req, "login", None)
  BY DEF Logout, clearTokens, serverVars
<1>2. req \in [Slots -> Request] /\ key \in Keys /\ epoch \in Nat /\ data \in Nat
  BY DEF Inv, TypeInv
<1>3. "login" \in Components
  BY DEF Components, Viewless
<1>4. /\ page' \in Components /\ key' = key /\ req' \in [Slots -> Request]
      /\ \A s \in Slots : Starts(req'[s]) \/ Stays(req'[s], req[s])
  BY <1>1, <1>2, <1>3, ShowKeeps
<1>5. TypeInv'
  BY <1>1, <1>2, <1>4, TypeKeeps
<1>6. refresh' \in {refresh, None}
  BY <1>1
<1>7. /\ RequestInv'
      /\ \A s \in RefreshesInFlight' : s \in RefreshesInFlight
  BY <1>4, <1>5, <1>6, SlotsKeep
<1>8. SessionInv'
  BY <1>1, <1>7, ClientAssumption DEF SessionInv, SessionIsAsChosen
<1> QED
  BY <1>5, <1>7, <1>8 DEF Inv

LEMMA ChangeKeyKeeps ==
    ASSUME Inv, NEW k \in Keys, ChangeKey(k)
    PROVE  Inv'
<1> DEFINE S == IF page \in Guarded THEN Slots ELSE {}
           d == Disposed(req, S)
<1>1. /\ UNCHANGED tokenVars /\ epoch' = epoch /\ data' = data
      /\ page' = page /\ key' = k /\ req' = Effect(d, page, k, access)
  BY DEF ChangeKey, serverVars
<1>2. req \in [Slots -> Request] /\ access \in Tokens \cup {None} /\ page \in Components
      /\ epoch \in Nat /\ data \in Nat
  BY DEF Inv, TypeInv
<1>3. /\ d \in [Slots -> Request]
      /\ \A s \in Slots : d[s] = [req[s] EXCEPT !.live = @ /\ s \notin S]
  BY <1>2, DisposedType
<1>4. page \in Guarded => S = Slots
  OBVIOUS
<1> HIDE DEF d, S
<1>5. /\ req' \in [Slots -> Request]
      /\ \A s \in Slots : req'[s] = d[s] \/ Fetch(req'[s], k)
  BY <1>1, <1>2, <1>3, EffectFetches
<1>6. ASSUME NEW s \in Slots, req'[s] = d[s]
      PROVE  Stays(req'[s], req[s])
  <2>1. /\ d[s].pc = req[s].pc /\ d[s].what = req[s].what /\ d[s].ran = req[s].ran
        /\ d[s].key = req[s].key /\ d[s].token = req[s].token
        /\ d[s].author = req[s].author /\ d[s].answer = req[s].answer
        /\ d[s].live => req[s].live /\ s \notin S
    BY <1>2, <1>3 DEF Request
  <2> QED
    BY <1>1, <1>4, <1>6, <2>1 DEF Stays
<1>7. ASSUME NEW s \in Slots, Fetch(req'[s], k)
      PROVE  Starts(req'[s])
  BY <1>1, <1>7 DEF Fetch, Starts
<1>8. \A s \in Slots : Starts(req'[s]) \/ Stays(req'[s], req[s])
  BY <1>5, <1>6, <1>7
<1>9. TypeInv'
  BY <1>1, <1>2, <1>5, <1>8, TokensType, TypeKeeps
<1> QED
  BY <1>1, <1>8, <1>9, PageKeeps

LEMMA PollKeeps ==
    ASSUME Inv, Poll
    PROVE  Inv'
<1>1. /\ UNCHANGED tokenVars /\ epoch' = epoch /\ data' = data
      /\ page' = page /\ key' = key /\ req' = Effect(req, page, key, access)
  BY DEF Poll, serverVars
<1>2. req \in [Slots -> Request] /\ access \in Tokens \cup {None} /\ page \in Components
      /\ key \in Keys /\ epoch \in Nat /\ data \in Nat
  BY DEF Inv, TypeInv
<1>3. /\ req' \in [Slots -> Request]
      /\ \A s \in Slots : req'[s] = req[s] \/ Fetch(req'[s], key)
  BY <1>1, <1>2, EffectFetches
<1>4. \A s \in Slots : Starts(req'[s]) \/ Stays(req'[s], req[s])
  BY <1>1, <1>3 DEF Fetch, Starts, Stays
<1>5. TypeInv'
  BY <1>1, <1>2, <1>3, <1>4, TokensType, TypeKeeps
<1> QED
  BY <1>1, <1>4, <1>5, PageKeeps

\* Tokens expire, users are suspended, others change what is shown.
LEMMA EnvironmentKeeps ==
    ASSUME Inv, \/ (Expire \/ OthersChange) /\ UNCHANGED <<page, key, shown, busy>>
                \/ \E u \in Users : SetStatus(u) /\ UNCHANGED <<page, key, shown, busy>>
                \/ UNCHANGED vars
    PROVE  Inv'
<1>1. /\ UNCHANGED tokenVars /\ epoch' \in {epoch, epoch + 1} /\ data' \in {data, data + 1}
      /\ page' = page /\ key' = key /\ req' = req
  BY DEF Expire, OthersChange, SetStatus, vars, clientVars, serverVars, tokenVars
<1>2. \A s \in Slots : Stays(req'[s], req[s])
  BY <1>1 DEF Stays
<1>3. TypeInv'
  BY <1>1 DEF Inv, TypeInv, tokenVars, RefreshesInFlight
<1> QED
  BY <1>1, <1>2, <1>3, PageKeeps
-----------------------------------------------------------------------------
(* The end of a request *)

\* A request that is over, or goes on as the fetch of its page.
LEMMA EndKeeps ==
    ASSUME Inv, NEW r \in Slots, NEW w \in Request, Starts(w),
           req' = [req EXCEPT ![r] = w],
           page' = page, key' = key, UNCHANGED <<epoch, session>>, data' = data,
           \/ UNCHANGED <<access, refresh>>
           \/ EndsBadly(r) /\ TokensAfterFailure(r)
    PROVE  Inv'
<1>1. req \in [Slots -> Request] /\ page \in Components /\ key \in Keys
      /\ epoch \in Nat /\ data \in Nat /\ session \in Users \cup {None, Unsure}
      /\ access \in Tokens \cup {None} /\ refresh \in Users \cup {None}
  BY DEF Inv, TypeInv
<1>2. /\ req' \in [Slots -> Request]
      /\ \A s \in Slots : Starts(req'[s]) \/ Stays(req'[s], req[s])
  BY <1>1 DEF Stays
<1>3. \/ UNCHANGED <<access, refresh>>
      \/ access' = None /\ refresh' = None /\ req[r].pc = "refreshed" /\ EndsBadly(r)
  BY DEF TokensAfterFailure, clearTokens
<1>4. TypeInv'
  BY <1>1, <1>2, <1>3, TypeKeeps
<1>5. CASE UNCHANGED <<access, refresh>>
  BY <1>2, <1>4, <1>5, PageKeeps DEF tokenVars
<1>6. CASE access' = None /\ refresh' = None /\ req[r].pc = "refreshed" /\ EndsBadly(r)
  <2>1. r \in RefreshesInFlight /\ req[r].answer.status = "failed"
    BY <1>6 DEF RefreshesInFlight, EndsBadly
  <2>2. session = Unsure
    BY <2>1, <1>6 DEF Inv, SessionInv
  <2>3. SessionInv'
    BY <2>2 DEF SessionInv, SessionIsAsChosen
  <2> QED
    BY <1>2, <1>4, <1>6, <2>3, SlotsKeep DEF Inv
<1> QED
  BY <1>3, <1>5, <1>6

LEMMA NoRequestStarts == NoRequest \in Request /\ Starts(NoRequest)
  BY EmptyRequest DEF Starts

LEMMA SubmitAnsweredKeeps ==
    ASSUME Inv, NEW r \in Slots, SubmitAnswered(r), UNCHANGED <<epoch, data>>
    PROVE  Inv'
<1> DEFINE v == [NoRequest EXCEPT !.form = req[r].form, !.key = req[r].key,
                                  !.private = TRUE, !.live = req[r].live]
           w == Send(v, access)
<1>1. UNCHANGED tokenVars /\ page' = page /\ key' = key
      /\ (req' = [req EXCEPT ![r] = w] \/ req' = [req EXCEPT ![r] = NoRequest])
  BY DEF SubmitAnswered
<1>2. req[r].what = "submit" /\ req[r] \in Request /\ access \in Tokens \cup {None}
  BY DEF SubmitAnswered, Inv, TypeInv
<1>3. v \in Request /\ v.what = "view" /\ v.ran = 0 /\ v.live = req[r].live
  <2>1. PICK form \in Forms, k \in Keys \cup {None}, live \in BOOLEAN :
            form = req[r].form /\ k = req[r].key /\ live = req[r].live
    BY <1>2 DEF Request
  <2>2. v = [NoRequest EXCEPT !.form = form, !.key = k, !.private = TRUE, !.live = live]
    BY <2>1, Zenon
  <2> HIDE DEF v
  <2>3. NoAnswer \in Answer
    BY DEF NoAnswer, Answer
  <2>4. v = [pc |-> "idle", what |-> "view", form |-> form, key |-> k, private |-> TRUE,
             live |-> live, token |-> None, author |-> None, retried |-> FALSE, ran |-> 0,
             answer |-> NoAnswer]
    BY <2>2 DEF NoRequest
  <2> QED
    BY <2>1, <2>3, <2>4 DEF Request
<1> HIDE DEF v
<1>4. Resent(w, v, access)
  BY <1>2, <1>3, SendType
<1> HIDE DEF w
<1>5. page \in Guarded => ~req[r].live
  BY <1>2 DEF Inv, RequestInv, Current
<1>6. w \in Request /\ Starts(w)
  BY <1>1, <1>3, <1>4, <1>5 DEF Resent, Starts
<1> QED
  BY <1>1, <1>6, NoRequestStarts, EndKeeps DEF tokenVars

\* Who logs in leaves the requests under way without an author.
LEMMA LoggedInKeeps ==
    ASSUME Inv, NEW r \in Slots, LoggedIn(r), UNCHANGED <<epoch, data>>
    PROVE  Inv'
<1> DEFINE u == req[r].answer.user
           reqs == [s \in Slots |-> IF s = r THEN NoRequest ELSE [req[s] EXCEPT !.author = Unsure]]
           d == Disposed(reqs, Slots)
<1>1. req \in [Slots -> Request] /\ key \in Keys /\ epoch \in Nat /\ data \in Nat
  BY DEF Inv, TypeInv
<1>2. /\ req[r].pc = "answered" /\ u # None
      /\ access' = Token(u, req[r].answer.version) /\ refresh' = u
      /\ session' = IF RefreshesInFlight = {} THEN u ELSE Unsure
      /\ Show(reqs, "markets", access')
  BY DEF LoggedIn, EndsWell, setTokens
<1>3. u \in Users /\ req[r].answer.version \in Nat
  BY <1>1, <1>2 DEF Request, Answer
<1>4. access' \in Tokens /\ access' # None /\ access'.user = u
  BY <1>2, <1>3, ClientAssumption DEF Tokens, Token
<1>5. ASSUME NEW s \in Slots
      PROVE  /\ reqs[s] \in Request /\ (s = r => reqs[s] = NoRequest)
             /\ s # r => /\ reqs[s].pc = req[s].pc /\ reqs[s].what = req[s].what
                         /\ reqs[s].ran = req[s].ran /\ reqs[s].author = Unsure
                         /\ reqs[s].answer = req[s].answer
  BY <1>1, EmptyRequest DEF Request
<1>6. reqs \in [Slots -> Request]
  BY <1>5
<1> HIDE DEF reqs
<1>7. /\ d \in [Slots -> Request]
      /\ \A s \in Slots : d[s] = [reqs[s] EXCEPT !.live = @ /\ s \notin Slots]
  BY <1>6, DisposedType
<1>8. /\ req' = d /\ page' = "markets" /\ key' = key
  <2>1. ~Fetches("markets", access')
    BY DEF Fetches, Viewless
  <2> QED
    BY <1>2, <2>1 DEF Show, Effect
<1> HIDE DEF d
<1>9. ASSUME NEW s \in Slots
      PROVE  /\ req'[s].pc = reqs[s].pc /\ req'[s].what = reqs[s].what
             /\ req'[s].ran = reqs[s].ran /\ req'[s].author = reqs[s].author
             /\ req'[s].answer = reqs[s].answer /\ ~req'[s].live
  BY <1>6, <1>7, <1>8 DEF Request
<1>10. \A s \in RefreshesInFlight' :
            s # r /\ s \in RefreshesInFlight /\ req'[s].answer = req[s].answer
  BY <1>5, <1>9, EmptyRequest DEF RefreshesInFlight
<1>11. TypeInv'
  <2>1. page' \in Components /\ req' \in [Slots -> Request]
    BY <1>7, <1>8 DEF Components, Viewless
  <2> QED
    BY <1>1, <1>2, <1>3, <1>4, <1>8, <1>10, <2>1 DEF Inv, TypeInv
<1>12. SessionInv'
  BY <1>2, <1>3, <1>4, <1>10, ClientAssumption DEF SessionInv, SessionIsAsChosen, isLoggedIn
<1>13. ASSUME NEW s \in Slots PROVE RanOnce(req[s])' /\ OwnTokens(req[s])' /\ Current(req[s])'
  <2>1. RanOnce(req[s])'
    BY <1>5, <1>9, EmptyRequest DEF Inv, RequestInv, RanOnce
  <2>2. OwnTokens(req[s])'
    BY <1>5, <1>9, EmptyRequest DEF OwnTokens
  <2>3. Current(req[s])'
    BY <1>9 DEF Current
  <2> QED
    BY <2>1, <2>2, <2>3
<1> QED
  BY <1>11, <1>12, <1>13 DEF Inv, RequestInv

LEMMA RegisteredKeeps ==
    ASSUME Inv, NEW r \in Slots, Registered(r), UNCHANGED <<epoch, data>>
    PROVE  Inv'
<1> DEFINE reqs == [req EXCEPT ![r] = NoRequest]
<1>1. UNCHANGED tokenVars /\ Show(reqs, "login", access)
  BY DEF Registered
<1>2. req \in [Slots -> Request] /\ access \in Tokens \cup {None} /\ key \in Keys
      /\ epoch \in Nat /\ data \in Nat
  BY DEF Inv, TypeInv
<1>3. /\ reqs \in [Slots -> Request] /\ "login" \in Components
      /\ \A s \in Slots : Starts(reqs[s]) \/ reqs[s] = req[s]
  BY <1>2, NoRequestStarts DEF Components, Viewless
<1> HIDE DEF reqs
<1>4. /\ page' \in Components /\ key' = key /\ req' \in [Slots -> Request]
      /\ \A s \in Slots : Starts(req'[s]) \/ Stays(req'[s], req[s])
  BY <1>1, <1>2, <1>3, ShowKeeps
<1>5. TypeInv'
  BY <1>1, <1>2, <1>4, TokensType, TypeKeeps
<1> QED
  BY <1>1, <1>4, <1>5, PageKeeps

LEMMA EndStepKeeps ==
    ASSUME Inv, NEW r \in Slots, End(r)
    PROVE  Inv'
<1>1. epoch' = epoch /\ data' = data
  BY DEF End, serverVars
<1>2. CASE ViewAnswered(r) \/ CodeAsked(r)
  <2>1. /\ req' = [req EXCEPT ![r] = NoRequest] /\ page' = page /\ key' = key
        /\ UNCHANGED tokenVars
    BY <1>2 DEF ViewAnswered, CodeAsked
  <2> QED
    BY <1>1, <2>1, NoRequestStarts, EndKeeps DEF tokenVars
<1>3. CASE ViewFailed(r) \/ SubmitFailed(r)
  <2>1. /\ req' = [req EXCEPT ![r] = NoRequest] /\ page' = page /\ key' = key
        /\ session' = session /\ EndsBadly(r) /\ TokensAfterFailure(r)
    BY <1>3 DEF ViewFailed, SubmitFailed
  <2> QED
    BY <1>1, <2>1, NoRequestStarts, EndKeeps
<1>4. CASE SubmitAnswered(r)
  BY <1>1, <1>4, SubmitAnsweredKeeps
<1>5. CASE LoggedIn(r)
  BY <1>1, <1>5, LoggedInKeeps
<1>6. CASE Registered(r)
  BY <1>1, <1>6, RegisteredKeeps
<1> QED
  BY <1>2, <1>3, <1>4, <1>5, <1>6 DEF End
-----------------------------------------------------------------------------
(* A request on its way *)

\* A step that changes r, but not what it is for, and leaves tokens alone.
Advances(r) ==
    /\ UNCHANGED <<access, refresh, page, key>> /\ epoch' = epoch
    /\ data' \in {data, data + 1}
    /\ req' \in [Slots -> Request] /\ \A s \in Slots \ {r} : req'[s] = req[s]
    /\ req'[r].what = req[r].what /\ req'[r].key = req[r].key
    /\ req'[r].author = req[r].author /\ req'[r].live = req[r].live
    /\ req'[r].token = req[r].token

\* w with another state and answer.
Answered(v, w, pc, answer, ran) ==
    /\ v \in Request /\ v.pc = pc /\ v.answer = answer /\ v.ran = ran
    /\ v.what = w.what /\ v.key = w.key /\ v.author = w.author /\ v.live = w.live
    /\ v.token = w.token

LEMMA AnsweredType ==
    ASSUME NEW w \in Request, NEW answer \in Answer, NEW n \in Nat,
           NEW pc \in {"answered", "refreshing", "refreshed"}
    PROVE  /\ Answered([w EXCEPT !.pc = pc, !.answer = answer], w, pc, answer, w.ran)
           /\ Answered([w EXCEPT !.pc = pc, !.answer = answer, !.ran = n], w, pc, answer, n)
<1>1. ASSUME NEW v, v = [w EXCEPT !.pc = pc, !.answer = answer]
      PROVE  Answered(v, w, pc, answer, w.ran)
  BY <1>1 DEF Request, Answered
<1>2. ASSUME NEW v, v = [w EXCEPT !.pc = pc, !.answer = answer, !.ran = n]
      PROVE  Answered(v, w, pc, answer, n)
  BY <1>2 DEF Request, Answered
<1> QED
  BY <1>1, <1>2

LEMMA ServeAdvances ==
    ASSUME Inv, NEW r \in Slots, Serve(r), UNCHANGED <<page, key>>
    PROVE  /\ Advances(r) /\ session' = session
           /\ req[r].pc = "sent" /\ req'[r].pc = "answered" /\ RanOnce(req'[r])
<1>1. /\ req \in [Slots -> Request] /\ data \in Nat /\ epoch \in Nat /\ req[r].pc = "sent"
      /\ req[r].ran = 0
  BY DEF Inv, TypeInv, RequestInv, RanOnce, Request, Serve
<1>2. UNCHANGED <<access, refresh, page, key>> /\ epoch' = epoch /\ session' = session
  BY DEF Serve, tokenVars
<1>3. ASSUME NEW answer \in Answer, data' \in {data, data + 1}, NEW v,
             \/ Answered(v, req[r], "answered", answer, 0)
             \/ Answered(v, req[r], "answered", answer, 1) /\ answer.status \in {"ok", "failed"},
             req' = [req EXCEPT ![r] = v]
      PROVE  Advances(r) /\ req'[r].pc = "answered" /\ RanOnce(req'[r])
  <2>1. /\ req' \in [Slots -> Request] /\ req'[r] = v
        /\ \A s \in Slots \ {r} : req'[s] = req[s]
    BY <1>1, <1>3 DEF Answered
  <2> QED
    BY <1>2, <1>3, <2>1 DEF Advances, RanOnce, Answered
<1>4. ASSUME NEW answer \in Answer, Answers(r, answer), data' \in {data, data + 1}
      PROVE  Advances(r) /\ req'[r].pc = "answered" /\ RanOnce(req'[r])
  <2>1. PICK v : v = [req[r] EXCEPT !.pc = "answered", !.answer = answer]
    OBVIOUS
  <2>2. req' = [req EXCEPT ![r] = v]
    BY <1>4, <2>1 DEF Answers
  <2>3. Answered(v, req[r], "answered", answer, 0)
    BY <1>1, <2>1, AnsweredType
  <2> QED
    BY <1>3, <1>4, <2>2, <2>3
<1>5. ASSUME NEW answer \in Answer, Executes(r, answer), answer.status \in {"ok", "failed"}
      PROVE  Advances(r) /\ req'[r].pc = "answered" /\ RanOnce(req'[r])
  <2>1. PICK n : n = req[r].ran + 1
    OBVIOUS
  <2>4. n = 1
    BY <1>1, <2>1
  <2>5. PICK v : v = [req[r] EXCEPT !.pc = "answered", !.answer = answer, !.ran = n]
    OBVIOUS
  <2>2. req' = [req EXCEPT ![r] = v] /\ data' \in {data, data + 1}
    BY <1>1, <1>5, <2>1, <2>5 DEF Executes
  <2>3. Answered(v, req[r], "answered", answer, 1)
    BY <1>1, <2>4, <2>5, AnsweredType
  <2> QED
    BY <1>3, <1>5, <2>2, <2>3
<1>6. CASE Unauthorized(r)
  <2>1. PICK answer : answer = [NoAnswer EXCEPT !.status = "unauthorized"]
    OBVIOUS
  <2>2. answer \in Answer
    BY <2>1 DEF NoAnswer, Answer
  <2>3. Answers(r, answer) /\ data' = data
    BY <1>6, <2>1, Zenon DEF Unauthorized
  <2> QED
    BY <1>1, <1>2, <1>4, <2>2, <2>3
<1>7. CASE Succeeds(r)
  <2>1. PICK u \in Users \cup {None}, version \in Nat :
            Executes(r, [status |-> "ok", user |-> u, version |-> version])
    BY <1>1, <1>7 DEF Succeeds
  <2>2. PICK answer : answer = [status |-> "ok", user |-> u, version |-> version]
    OBVIOUS
  <2>3. answer \in Answer /\ answer.status = "ok"
    BY <2>2 DEF Answer
  <2> QED
    BY <1>1, <1>2, <1>5, <2>1, <2>2, <2>3
<1>8. CASE Breaks(r)
  <2>1. PICK answer : answer = [NoAnswer EXCEPT !.status = "failed"]
    OBVIOUS
  <2>2. answer \in Answer /\ answer.status = "failed"
    BY <2>1 DEF NoAnswer, Answer
  <2>3. Executes(r, answer) \/ (Answers(r, answer) /\ data' = data)
    BY <1>8, <2>1, Zenon DEF Breaks
  <2> QED
    BY <1>1, <1>2, <1>4, <1>5, <2>2, <2>3
<1> QED
  BY <1>1, <1>2, <1>6, <1>7, <1>8 DEF Serve

LEMMA ServeKeeps ==
    ASSUME Inv, NEW r \in Slots, Serve(r), UNCHANGED <<page, key>>
    PROVE  Inv'
<1>1. /\ Advances(r) /\ session' = session
      /\ req[r].pc = "sent" /\ req'[r].pc = "answered" /\ RanOnce(req'[r])
  BY ServeAdvances
<1>2. \A s \in RefreshesInFlight' : s # r /\ s \in RefreshesInFlight /\ req'[s] = req[s]
  BY <1>1 DEF RefreshesInFlight, Advances
<1>3. TypeInv'
  BY <1>1, <1>2 DEF Inv, TypeInv, Advances
<1>4. SessionInv'
  BY <1>1, <1>2 DEF Inv, SessionInv, SessionIsAsChosen, Advances, isLoggedIn
<1>5. ASSUME NEW s \in Slots PROVE RanOnce(req[s])' /\ OwnTokens(req[s])' /\ Current(req[s])'
  <2>1. RanOnce(req[s])'
    BY <1>1 DEF Inv, RequestInv, RanOnce, Advances
  <2>2. OwnTokens(req[s])'
    BY <1>1, <1>2 DEF Inv, RequestInv, OwnTokens, Advances
  <2>3. Current(req[s])'
    BY <1>1 DEF Inv, RequestInv, Current, Advances
  <2> QED
    BY <2>1, <2>2, <2>3
<1> QED
  BY <1>3, <1>4, <1>5 DEF Inv, RequestInv

\* Refreshes: one starts for the token at hand, and is answered.
LEMMA TryRefreshKeeps ==
    ASSUME Inv, NEW r \in Slots, TryRefresh(r), UNCHANGED <<page, key>>
    PROVE  Inv'
<1> DEFINE answer == [NoAnswer EXCEPT !.user = refresh]
<1>1. /\ req \in [Slots -> Request] /\ refresh \in Users /\ epoch \in Nat /\ data \in Nat
      /\ req[r].pc = "answered" /\ req[r].ran = 0
  BY DEF TryRefresh, Refused, Inv, TypeInv, RequestInv, RanOnce
<1>2. answer \in Answer /\ answer.user = refresh
  BY <1>1 DEF NoAnswer, Answer
<1>3. req' = [req EXCEPT ![r].pc = "refreshing", ![r].answer = answer]
  BY DEF TryRefresh
<1>4. UNCHANGED <<access, refresh, session, epoch, data, page, key>>
  BY DEF TryRefresh, tokenVars, serverVars
<1> HIDE DEF answer
<1>5. /\ req'[r] \in Request /\ req'[r].pc = "refreshing" /\ req'[r].answer = answer
      /\ req'[r].ran = 0 /\ req'[r].what = req[r].what /\ req'[r].key = req[r].key
      /\ req'[r].author = req[r].author /\ req'[r].live = req[r].live
      /\ \A s \in Slots \ {r} : req'[s] = req[s]
  BY <1>1, <1>2, <1>3 DEF Request
<1>6. req' \in [Slots -> Request]
  BY <1>1, <1>3, <1>5
<1>7. \A s \in RefreshesInFlight' :
        \/ s = r /\ req'[s].answer.user = refresh /\ req'[s].pc = "refreshing"
        \/ s \in RefreshesInFlight /\ req'[s] = req[s]
  BY <1>2, <1>5 DEF RefreshesInFlight
<1>8. TypeInv'
  BY <1>1, <1>4, <1>6, <1>7 DEF Inv, TypeInv
<1>9. SessionInv'
  BY <1>4, <1>7 DEF Inv, SessionInv, SessionIsAsChosen, isLoggedIn
<1>10. ASSUME NEW s \in Slots PROVE RanOnce(req[s])' /\ OwnTokens(req[s])' /\ Current(req[s])'
  <2>1. RanOnce(req[s])'
    BY <1>5 DEF Inv, RequestInv, RanOnce
  <2>2. OwnTokens(req[s])'
    <3>1. req'[s].what = req[s].what /\ req'[s].author = req[s].author
          /\ (req'[s].pc \in {"sent", "answered"} => req'[s] = req[s])
      BY <1>5
    <3>2. OwnTokens(req[s])
      BY DEF Inv, RequestInv
    <3> QED
      BY <1>1, <1>4, <1>7, <3>1, <3>2, ClientAssumption DEF OwnTokens
  <2>3. Current(req[s])'
    BY <1>4, <1>5 DEF Inv, RequestInv, Current
  <2> QED
    BY <2>1, <2>2, <2>3
<1> QED
  BY <1>8, <1>9, <1>10 DEF Inv, RequestInv

LEMMA ServeRefreshKeeps ==
    ASSUME Inv, NEW r \in Slots, ServeRefresh(r), UNCHANGED <<page, key>>
    PROVE  Inv'
<1>1. /\ req \in [Slots -> Request] /\ epoch \in Nat /\ data \in Nat
      /\ req[r].pc = "refreshing" /\ req[r].ran = 0
  BY DEF ServeRefresh, Inv, TypeInv, RequestInv, RanOnce
<1>2. PICK status \in {"ok", "failed"} :
        /\ RefreshAnswer(r, status)
        /\ \/ status = "ok" /\ session' = session
           \/ session' = Unsure
  BY DEF ServeRefresh, RefreshSucceeds, RefreshFails
<1>3. UNCHANGED <<access, refresh, epoch, data, page, key>>
  BY DEF ServeRefresh, serverVars
<1>4. req' = [req EXCEPT ![r].pc = "refreshed", ![r].answer.status = status,
                         ![r].answer.version = epoch]
  BY <1>2 DEF RefreshAnswer
<1>5. /\ req'[r] \in Request /\ req'[r].pc = "refreshed" /\ req'[r].answer.status = status
      /\ req'[r].answer.user = req[r].answer.user
      /\ req'[r].ran = 0 /\ req'[r].what = req[r].what /\ req'[r].key = req[r].key
      /\ req'[r].author = req[r].author /\ req'[r].live = req[r].live
      /\ \A s \in Slots \ {r} : req'[s] = req[s]
  <2>1. PICK answer : answer = [req[r].answer EXCEPT !.status = status, !.version = epoch]
    OBVIOUS
  <2>2. answer \in Answer /\ answer.status = status /\ answer.user = req[r].answer.user
    <3>1. req[r].answer \in Answer
      BY <1>1 DEF Request
    <3> QED
      BY <1>1, <2>1, <3>1 DEF Answer
  <2>3. PICK v : v = [req[r] EXCEPT !.pc = "refreshed", !.answer = answer]
    OBVIOUS
  <2>4. Answered(v, req[r], "refreshed", answer, 0)
    BY <1>1, <2>2, <2>3, AnsweredType
  <2>5. req'[r] = v /\ \A s \in Slots \ {r} : req'[s] = req[s]
    BY <1>1, <1>4, <2>1, <2>3
  <2> QED
    BY <2>2, <2>4, <2>5 DEF Answered
<1>6. req' \in [Slots -> Request]
  BY <1>1, <1>4, <1>5
<1>7. \A s \in RefreshesInFlight' :
        /\ s \in RefreshesInFlight /\ req'[s].answer.user = req[s].answer.user
        /\ s = r \/ req'[s] = req[s]
  BY <1>1, <1>5 DEF RefreshesInFlight
<1>8. TypeInv'
  BY <1>1, <1>2, <1>3, <1>6, <1>7 DEF Inv, TypeInv
<1>9. SessionInv'
  <2>1. CASE session' = Unsure
    BY <2>1 DEF SessionInv, SessionIsAsChosen
  <2>2. CASE status = "ok" /\ session' = session
    BY <1>3, <1>5, <1>7, <2>2 DEF Inv, SessionInv, SessionIsAsChosen, isLoggedIn
  <2> QED
    BY <1>2, <2>1, <2>2
<1>10. ASSUME NEW s \in Slots PROVE RanOnce(req[s])' /\ OwnTokens(req[s])' /\ Current(req[s])'
  <2>1. RanOnce(req[s])'
    BY <1>5 DEF Inv, RequestInv, RanOnce
  <2>2. OwnTokens(req[s])'
    BY <1>3, <1>5, <1>7 DEF Inv, RequestInv, OwnTokens
  <2>3. Current(req[s])'
    BY <1>3, <1>5 DEF Inv, RequestInv, Current
  <2> QED
    BY <2>1, <2>2, <2>3
<1> QED
  BY <1>8, <1>9, <1>10 DEF Inv, RequestInv

\* The tokens of a refresh are stored, and the request is sent again.
LEMMA ResendKeeps ==
    ASSUME Inv, NEW r \in Slots, Resend(r), UNCHANGED <<page, key>>
    PROVE  Inv'
<1> DEFINE u == req[r].answer.user
           e == req[r].answer.version
<1>1. /\ req \in [Slots -> Request] /\ epoch \in Nat /\ data \in Nat
      /\ req[r].pc = "refreshed" /\ req[r].ran = 0 /\ r \in RefreshesInFlight
  BY DEF Resend, Inv, TypeInv, RequestInv, RanOnce, RefreshesInFlight
<1>2. u \in Users /\ e \in Nat
  <2>1. req[r] \in Request /\ req[r].answer \in Answer
    BY <1>1 DEF Request
  <2> QED
    BY <1>1, <2>1 DEF Inv, TypeInv, Answer
<1>3. access' = Token(u, e) /\ refresh' = u
  BY DEF Resend, setTokens
<1>4. access' \in Tokens /\ access' # None /\ access'.user = u
  BY <1>2, <1>3, ClientAssumption DEF Tokens, Token
<1>5. UNCHANGED <<session, epoch, data, page, key>>
  BY DEF Resend, serverVars
<1> DEFINE w == Send(req[r], access')
<1>6. Resent(w, req[r], access')
  BY <1>1, <1>4, SendType
<1>7. req' = [req EXCEPT ![r] = [w EXCEPT !.retried = TRUE]]
  BY DEF Resend
<1> HIDE DEF w
<1>8. /\ req'[r] \in Request /\ req'[r].pc = "sent" /\ req'[r].token = access'
      /\ req'[r].ran = 0 /\ req'[r].what = req[r].what /\ req'[r].key = req[r].key
      /\ req'[r].author = req[r].author /\ req'[r].live = req[r].live
      /\ \A s \in Slots \ {r} : req'[s] = req[s]
  <2>1. /\ req'[r] = [w EXCEPT !.retried = TRUE]
        /\ \A s \in Slots \ {r} : req'[s] = req[s]
    BY <1>1, <1>7
  <2> QED
    BY <1>1, <1>6, <2>1 DEF Resent, Request
<1>9. req' \in [Slots -> Request]
  BY <1>1, <1>7, <1>8
<1> HIDE DEF u, e
<1>10. \A s \in RefreshesInFlight' : s # r /\ s \in RefreshesInFlight /\ req'[s] = req[s]
  BY <1>8 DEF RefreshesInFlight
<1>11. TypeInv'
  BY <1>1, <1>2, <1>3, <1>4, <1>5, <1>9, <1>10 DEF Inv, TypeInv
<1>12. SessionInv'
  <2>1. session # Unsure => u = session /\ session # None
    BY <1>1, <1>2, ClientAssumption DEF Inv, SessionInv, u
  <2> QED
    BY <1>3, <1>4, <1>5, <1>10, <2>1 DEF Inv, SessionInv, SessionIsAsChosen, isLoggedIn
<1>13. ASSUME NEW s \in Slots PROVE RanOnce(req[s])' /\ OwnTokens(req[s])' /\ Current(req[s])'
  <2>1. RanOnce(req[s])'
    BY <1>8 DEF Inv, RequestInv, RanOnce
  <2>2. OwnTokens(req[s])'
    <3>1. OwnTokens(req[s])
      BY DEF Inv, RequestInv
    <3>2. req[s].what = "submit" /\ req[s].author # Unsure => req[s].author = u
      BY <1>1, <3>1 DEF OwnTokens, u
    <3>3. req'[s].what = req[s].what /\ req'[s].author = req[s].author
      BY <1>8
    <3> QED
      BY <1>3, <1>4, <1>8, <1>10, <3>1, <3>2, <3>3 DEF OwnTokens
  <2>3. Current(req[s])'
    BY <1>5, <1>8 DEF Inv, RequestInv, Current
  <2> QED
    BY <2>1, <2>2, <2>3
<1> QED
  BY <1>11, <1>12, <1>13 DEF Inv, RequestInv

\* A form is submitted by the user of the session, if that is beyond doubt.
LEMMA SubmitKeeps ==
    ASSUME Inv, NEW form \in FormsOf(page), Submit(form)
    PROVE  Inv'
<1> DEFINE slot == AnySlot(req)
<1>1. /\ req \in [Slots -> Request] /\ epoch \in Nat /\ data \in Nat
      /\ key \in Keys /\ page \in Components /\ access \in Tokens \cup {None}
      /\ session \in Users \cup {None, Unsure}
  BY DEF Inv, TypeInv
<1>2. PICK author : author = IF access = None \/ session = Unsure THEN Unsure ELSE access.user
  OBVIOUS
<1>3. UNCHANGED tokenVars /\ UNCHANGED <<epoch, data, page, key>>
  BY DEF Submit, serverVars
<1>4. author # Unsure =>
        /\ access \in Tokens /\ author = access.user /\ session # Unsure
        /\ author \in Users /\ refresh = author /\ session = author
  BY <1>1, <1>2 DEF Tokens, Inv, SessionInv, SessionIsAsChosen
<1>5. author \in Users \cup {None, Unsure}
  BY <1>4
<1>6. form \in Forms /\ page \notin Guarded
  BY DEF FormsOf, Forms, Guarded
<1>7. PICK v : v = [ViewOf(page, key) EXCEPT !.what = "submit", !.form = form, !.author = author]
  OBVIOUS
<1>8. /\ v \in Request /\ v.what = "submit" /\ v.author = author /\ v.ran = 0
  <2>1. PICK view \in Request : view = ViewOf(page, key) /\ view.ran = 0
    BY <1>1, ViewType
  <2>2. v = [view EXCEPT !.what = "submit", !.form = form, !.author = author]
    BY <1>7, <2>1
  <2> QED
    BY <1>5, <1>6, <2>1, <2>2 DEF Request
<1>9. req' = [req EXCEPT ![slot] = Send(v, access)]
  BY <1>2, <1>7, Zenon DEF Submit
<1>10. Resent(Send(v, access), v, access)
  BY <1>1, <1>8, SendType
<1> HIDE DEF slot
<1>11. PICK w : w = Send(v, access)
  OBVIOUS
<1>12. /\ w \in Request /\ w.pc = "sent" /\ w.token = access /\ w.what = "submit"
       /\ w.author = author /\ w.ran = 0
  BY <1>8, <1>10, <1>11 DEF Resent
<1>13. /\ req' \in [Slots -> Request]
       /\ \A s \in Slots : req'[s] = req[s] \/ (req'[s] = w /\ s = slot)
  BY <1>1, <1>9, <1>11, <1>12
<1>14. \A s \in RefreshesInFlight' : s \in RefreshesInFlight /\ req'[s] = req[s]
  BY <1>12, <1>13 DEF RefreshesInFlight
<1>15. TypeInv'
  BY <1>1, <1>3, <1>13, <1>14 DEF Inv, TypeInv, tokenVars
<1>16. SessionInv'
  BY <1>3, <1>14 DEF Inv, SessionInv, SessionIsAsChosen, tokenVars, isLoggedIn
<1>17. ASSUME NEW s \in Slots PROVE RanOnce(req[s])' /\ OwnTokens(req[s])' /\ Current(req[s])'
  <2>1. CASE req'[s] = req[s]
    BY <1>3, <1>14, <2>1 DEF Inv, RequestInv, RanOnce, OwnTokens, Current, tokenVars
  <2>2. CASE req'[s] = w
    <3>1. RanOnce(req[s])' /\ Current(req[s])'
      BY <1>3, <1>6, <1>12, <2>2 DEF RanOnce, Current
    <3>2. \A x \in RefreshesInFlight' : author # Unsure => req'[x].answer.user = author
      BY <1>4, <1>14 DEF Inv, SessionInv
    <3>3. OwnTokens(req[s])'
      BY <1>3, <1>4, <1>12, <2>2, <3>2 DEF OwnTokens, tokenVars
    <3> QED
      BY <3>1, <3>3
  <2> QED
    BY <1>13, <2>1, <2>2
<1> QED
  BY <1>15, <1>16, <1>17 DEF Inv, RequestInv
-----------------------------------------------------------------------------
LEMMA InitInv == Init => Inv
<1> SUFFICES ASSUME Init PROVE Inv
  OBVIOUS
<1> DEFINE reqs == [r \in Slots |-> NoRequest]
<1>1. /\ epoch = 0 /\ data = 0 /\ key \in Keys /\ page \in Components
      /\ req = Effect(reqs, page, key, access)
  BY PagesAssumption DEF Init, ClientInit
<1>2. /\ session = refresh /\ session \in Users \cup {None}
      /\ access = IF session = None THEN None ELSE Token(session, 0)
  BY ClientAssumption DEF Init, ClientInit
<1>3. IF session = None THEN access = None
      ELSE access \in Tokens /\ access # None /\ access.user = session
  BY <1>2, ClientAssumption DEF Tokens, Token
<1>4. /\ reqs \in [Slots -> Request] /\ access \in Tokens \cup {None}
  BY <1>3, EmptyRequest
<1>5. /\ req \in [Slots -> Request]
      /\ \A s \in Slots : req[s] = reqs[s] \/ Fetch(req[s], key)
  BY <1>1, <1>4, EffectFetches
<1>6. \A s \in Slots : /\ req[s].what = "view" /\ req[s].ran = 0 /\ req[s].pc \in {"idle", "sent"}
                       /\ req[s].live => req[s].key = key
  BY <1>5, EmptyRequest DEF Fetch
<1>7. RefreshesInFlight = {}
  BY <1>6 DEF RefreshesInFlight
<1>8. TypeInv
  BY <1>1, <1>2, <1>4, <1>5, <1>7 DEF TypeInv
<1>9. SessionInv
  BY <1>2, <1>3, <1>7 DEF SessionInv, SessionIsAsChosen, isLoggedIn
<1>10. RequestInv
  BY <1>6 DEF RequestInv, RanOnce, OwnTokens, Current
<1> QED
  BY <1>8, <1>9, <1>10 DEF Inv

LEMMA StepInv == Inv /\ [Next]_vars => Inv'
<1> SUFFICES ASSUME Inv, [Next]_vars PROVE Inv'
  OBVIOUS
<1>1. ASSUME NEW r \in Slots, RequestStep(r) PROVE Inv'
  <2>1. CASE ClientStep(r) /\ UNCHANGED <<page, key, shown, busy>>
    BY <1>1, <2>1, ServeKeeps, ServeRefreshKeeps, TryRefreshKeeps, ResendKeeps DEF ClientStep
  <2> QED
    BY <1>1, <2>1, EndStepKeeps DEF RequestStep
<1> QED
  BY <1>1, PollKeeps, LogoutKeeps, VisitKeeps, ChangeKeyKeeps, SubmitKeeps, EnvironmentKeeps
     DEF Next

\* client.ts 31-74, for any users and requests: whatever requests, refreshes,
\* logins and logouts overlap, the tokens are those of the user who logged in
\* last, or none after a logout; only a refresh that failed, or was under way at
\* a login or logout, leaves that in doubt.
THEOREM SessionKept == Spec => []SessionIsAsChosen
<1>1. Inv => SessionIsAsChosen
  BY DEF Inv, SessionInv
<1> QED
  BY <1>1, InitInv, StepInv, PTL DEF Spec

\* client.ts 41-45: however often requests are refused, refreshed, sent again
\* and lost, a form is executed once at most, with tokens of its author.
THEOREM FormsRunOnce == Spec => []SubmittedOnce
<1>1. Inv => SubmittedOnce
  <2>1. ASSUME Inv, NEW r \in Slots, req[r].what = "submit"
        PROVE  /\ req[r].ran <= 1
               /\ req[r].ran = 1 /\ req[r].private => req[r].author \in {Unsure, req[r].token.user}
    <3>1. RanOnce(req[r]) /\ OwnTokens(req[r])
      BY <2>1 DEF Inv, RequestInv
    <3>2. req[r].ran <= 1
      BY <3>1 DEF RanOnce
    <3>3. req[r].ran = 1 => req[r].author \in {Unsure, req[r].token.user}
      BY <2>1, <3>1 DEF RanOnce, OwnTokens
    <3> QED
      BY <3>2, <3>3
  <2> QED
    BY <2>1 DEF SubmittedOnce
<1> QED
  BY <1>1, InitInv, StepInv, PTL DEF Spec

\* usePolling.ts 13-14, CandleChart.tsx 74: an answer for an earlier symbol or
\* interval, of any number that are late, is not shown.
THEOREM EarlierKeysAreDropped == Spec => LateAnswersAreDropped
<1>1. Inv /\ [Next]_vars =>
        [shown' \notin {shown, None} /\ page \in Guarded => shown'.key = key']_vars
  <2> SUFFICES ASSUME Inv, Next, shown' \notin {shown, None}, page \in Guarded
               PROVE  shown'.key = key'
    BY DEF vars
  <2>1. PICK r \in Slots : ViewAnswered(r)
    BY DEF Next, RequestStep, End, Poll, Logout, Visit, ChangeKey, Submit, Show, ViewFailed,
           SubmitAnswered, SubmitFailed, LoggedIn, CodeAsked, Registered
  <2>2. req[r].live /\ shown' = [key |-> req[r].key, version |-> req[r].answer.version]
        /\ key' = key
    BY <2>1 DEF ViewAnswered
  <2>3. req[r].key = key
    BY <2>2 DEF Inv, RequestInv, Current
  <2> QED
    BY <2>2, <2>3
<1> QED
  BY <1>1, InitInv, StepInv, PTL DEF Spec, LateAnswersAreDropped
=============================================================================
