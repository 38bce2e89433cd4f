------------------------------ MODULE Overlaps ------------------------------
(***************************************************************************)
(* Which orders the overlapping calls of Exchange get in each other's way  *)
(* on.  The variables of this module are history: each step of Exchange is *)
(* taken as it is, and remembered.                                         *)
(*                                                                         *)
(* Nothing in the code keeps two calls from working on one order, and then *)
(* its row, its hold and the engine may part (run lost_hold_update, README *)
(* section 3).  The properties are about all the other orders: whatever    *)
(* overlaps beside them, fails or is lost, their rows, their holds, the    *)
(* funds locked for them and their places on the book agree.               *)
(***************************************************************************)
EXTENDS Exchange

VARIABLES
    shared,     \* orders that two calls have worked on at once
    adrift,     \* orders whose call was undone since the book was last built
    overtaken   \* orders that came to the engine after a newer one was created,
                \* since the book was last built

history == <<shared, adrift, overtaken>>
historyVars == <<vars, history>>
-----------------------------------------------------------------------------
\* The orders whose rows, holds or entries a call has to do with: its own and
\* those it fills, or the one it cancels.
WorksOn(p) ==
    IF ~InFlight(p) THEN {}
    ELSE IF p \in Orders THEN {p} \cup {t.maker : t \in Unsettled(p)}
    ELSE {target[p]}

Busy == UNION {WorksOn(p) : p \in Calls}

Contended == {x \in Busy : \E p, q \in Calls : p # q /\ x \in WorksOn(p) \cap WorksOn(q)}

\* The call ended without its commit.
Undone(p) ==
    IF p \in Orders THEN create[p].pc \in {"insufficient", "failed", "lost"}
                    ELSE cancel[p].pc \in {"failed", "lost"}

UndoneNow == UNION {WorksOn(p) : p \in {q \in Calls : ~Undone(q) /\ Undone(q)'}}

\* Another order was created before this one came to the engine.
OvertakenNow ==
    {o \in Orders : /\ create[o].pc = "placed" /\ create'[o].pc # "placed"
                    /\ \E x \in Placed : order[x].created > order[o].created}

Remember ==
    /\ shared' = shared \cup Contended'
    /\ IF restarts' # restarts
       THEN adrift' = {} /\ overtaken' = {}
       ELSE /\ adrift' = adrift \cup UndoneNow
            /\ overtaken' = overtaken \cup OvertakenNow

HistoryInit == Init /\ shared = {} /\ adrift = {} /\ overtaken = {}
HistoryNext == Next /\ Remember
HistorySpec == HistoryInit /\ [][HistoryNext]_historyVars
-----------------------------------------------------------------------------
(* Properties *)

\* ledger-design.md, "System-wide invariants" 4: the locked funds of an account
\* are those of its active holds, as long as no order of that account was worked
\* on by two calls at once.
LockedFollowsHolds ==
    \A a \in UserAccounts :
        (\A x \in Orders : HoldAccount(x) = a => x \notin shared) =>
            account[a].locked = NatSum([o \in Orders |-> hold[o].amount], HeldOn(a))

\* An order that can still trade has exactly the funds it needs reserved; one
\* that cannot has none (orders.service.ts 75-79, matching.service.ts 153-157).
HoldCoversRemaining ==
    \A o \in Orders \ shared :
        IF order[o].status \in OpenStatuses
        THEN hold[o] = [status |-> "ACTIVE",
                        amount |-> reserveAmount(o, order[o].remaining)]
        ELSE hold[o].status # "ACTIVE"

\* What rests on the book, and what the database has open; who stands before whom.
Resting == {[id |-> e.id, remaining |-> e.remaining] : e \in book}
OpenLimitOrders == {o \in Orders : /\ order[o].status \in OpenStatuses
                                  /\ request[o].type = "LIMIT"}
Priority == {<<p[1].id, p[2].id>> : p \in
                {q \in book \X book : q[1].side = q[2].side /\ Before(q[1], q[2])}}

\* No call works on the order, no two have, and none has left it adrift.
InStep == Orders \ (shared \cup adrift \cup Busy)

\* Of such an order the engine offers what the database has left of it, while
\* other orders are matched, settled, cancelled or undone.
BookMirrorsOrders ==
    \A o \in InStep :
        {e.remaining : e \in {e \in book : e.id = o}}
            = IF o \in OpenLimitOrders THEN {order[o].remaining} ELSE {}

CrossingPairs ==
    {<<q[1].id, q[2].id>> : q \in
        {q \in book \X book : /\ q[1].side = "BUY" /\ q[2].side = "SELL"
                              /\ q[1].price >= q[2].price}}

\* No submit and no cancellation lets a bid on the book reach an ask; a restart
\* only with an order that was worked on, had been by two calls, or was adrift.
BookUncrossed ==
    [][\A pair \in CrossingPairs' \ CrossingPairs :
            restarts' # restarts /\ ~({pair[1], pair[2]} \subseteq InStep)]_historyVars

\* matching.service.ts 59-60: rebuilding oldest-first "reproduces the exact
\* resting order the book had before restart", for the orders in step, and their
\* priorities unless one came to the engine after a newer one was created.
RestartReproducesBook ==
    [][restarts' # restarts =>
        /\ {r \in Resting : r.id \in InStep} = {r \in Resting' : r.id \in InStep}
        /\ \A o, x \in InStep \ overtaken :
                <<o, x>> \in Priority <=> <<o, x>> \in Priority']_historyVars
=============================================================================
