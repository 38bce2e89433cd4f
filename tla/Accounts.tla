------------------------------ MODULE Accounts ------------------------------
(***************************************************************************)
(* The accounts of users: their logins and settings (Auth) and their funds *)
(* (Funds) served by one backend, which may crash and start again.  At its *)
(* start it provisions the market maker's user before it accepts calls.    *)
(*                                                                         *)
(* The calls of one user, and the admin's, overlap freely.  What then only *)
(* holds for calls that did not overlap is stated with met, so that each   *)
(* property says exactly which overlap it excludes.                        *)
(***************************************************************************)
EXTENDS Funds

CONSTANTS
    Bot,            \* the market maker's user
    SeedAmount,     \* MARKET_MAKER_SEED_BALANCES of the asset
    Traders,        \* users with orders that reserve funds
    MaxRestarts     \* bound on restarts

\* What the ledger names the n-th start of the backend by: no call.
Boot(n) == <<"boot", n>>

ASSUME AccountsAssumption ==
    /\ Bot \in Users
    /\ SeedAmount \in Nat \ {0}
    /\ Traders \subseteq Users
    /\ MaxRestarts \in Nat
    /\ \A n \in 0 .. MaxRestarts : Boot(n) \notin Calls

VARIABLE restarts

vars == <<authVars, fundVars, restarts>>
-----------------------------------------------------------------------------
Funded(o) == account[o].available + account[o].locked > 0

\* seedBalances goes over the assets that exist.
Seeds == listed /\ ~Funded(Bot)

Seeded ==
    [account EXCEPT ![Bot] = Entered(@, SeedAmount),
                    !["TEST_LIQUIDITY"] = Entered(@, -SeedAmount)]

\* A crash loses the calls, their transactions and the timers; onModuleInit
\* then runs to its end before the server listens.
Restart ==
    /\ restarts < MaxRestarts
    /\ restarts' = restarts + 1
    /\ call' = [c \in Calls |-> IF c \in Running THEN [call[c] EXCEPT !.pc = "lost"] ELSE call[c]]
    /\ tx' = [c \in Calls |-> NoTx]
    /\ user' = IF Exists(Bot) THEN user ELSE [user EXCEPT ![Bot] = NewUser]
    /\ account' = IF Seeds THEN Seeded ELSE [account EXCEPT ![Bot].exists = @ \/ listed]
    /\ ledger' = IF ~Seeds THEN ledger
                 ELSE ledger \cup {[call |-> Boot(restarts), payer |-> "TEST_LIQUIDITY",
                                    payee |-> Bot, amount |-> SeedAmount]}
    /\ UNCHANGED <<backup, logins, trail, input, met, streak, listed, deposit, withdrawal>>

Init == AuthInit /\ FundsInit /\ restarts = 0

CallStep(c) ==
    \/ AuthCall(c) /\ UNCHANGED <<fundVars, restarts>>
    \/ (FundsCall(c) \/ Break(c)) /\ UNCHANGED restarts

Next ==
    \/ \E c \in Calls : CallStep(c)
    \/ \E u \in Users : LockoutEnds(u) /\ UNCHANGED <<fundVars, restarts>>
    \/ \E u \in Traders : (LockFunds(u) \/ ReleaseFunds(u)) /\ UNCHANGED restarts
    \/ SeedAssets /\ UNCHANGED restarts
    \/ Restart

Spec == Init /\ [][Next]_vars

\* Node runs every continuation and every timer, PostgreSQL every statement;
\* clients need not call, and the backend need not crash.
FairSpec == Spec /\ \A c \in Calls : WF_vars(call[c].pc # "new" /\ CallStep(c))
-----------------------------------------------------------------------------
\* A call that a code of i let in, or that asked with it and used it up.
UsedBackup(c, i) ==
    /\ call[c].code = Code("backup", i) /\ i \in call[c].unused
    /\ call[c].pc \notin {"matching", "failed", "broken", "lost"}

\* schema.prisma 127-129 calls backup codes "one-time-use"; auth.service.ts
\* 199-213 reads the unused ones, compares, and then marks by id.  One code
\* serves two calls only if they overlap.
OneTimeCodes ==
    \A c, d \in Calls : \A i \in Issuers :
        c # d /\ UsedBackup(c, i) /\ UsedBackup(d, i) => d \in met[c]

LoginsOf(u) == {c \in Calls : input[c].kind = "login" /\ UserOf(c) = u}

\* auth.service.ts 260-279 counts from the row login read first: as long as
\* the logins of a user do not overlap no failure is missed, and the user is
\* locked by the failure that reaches the maximum.
EveryFailureCounted ==
    \A u \in Users :
        (\A c, d \in LoginsOf(u) : d \notin met[c]) =>
            user[u].attempts = streak[u] /\ streak[u] < MaxAttempts

SettingsOf(u) ==
    {c \in Calls : input[c].kind \in {"setup", "confirm", "disable"} /\ UserOf(c) = u}

ConfirmedSecrets(u) ==
    (Protected \cap {u})
    \cup {call[c].code.of : c \in {c \in SettingsOf(u) : At(c, "confirm", "done")}}

\* auth.service.ts 123-184: as long as a user changes the settings by one call
\* at a time, under any logins and withdrawals, the codes demanded are those of
\* a secret that was confirmed, and backup codes exist only while they are.
TwoFactorConsistent ==
    \A u \in Users : (\A c, d \in SettingsOf(u) : d \notin met[c]) =>
        /\ user[u].enabled => user[u].secret \in ConfirmedSecrets(u)
        /\ \A i \in Issuers : OwnerOf(i) = u /\ backup[i] = "unused" => user[u].enabled
-----------------------------------------------------------------------------
EntriesOf(o) == NatSum([t \in ledger |-> IF t.payee = o THEN t.amount ELSE 0], ledger)
                - NatSum([t \in ledger |-> IF t.payer = o THEN t.amount ELSE 0], ledger)

\* ledger-design.md: user balances never go below zero, whatever withdrawals,
\* adjustments and orders of one user spend the same funds at once.  (What is
\* locked has its own properties, in Exchange.)
NoOverdraft == \A u \in Users : account[u].available >= 0

\* ledger.service.ts 61-104: each balance is what the committed entries add up
\* to, so the accounts of an asset sum to zero, through failures and crashes.
BalancesMatchEntries ==
    \A o \in Owners :
        account[o].available + account[o].locked = Opening(o) + EntriesOf(o)

Posts(c) == Cardinality({t \in ledger : t.call = c})

\* wallets.service.ts 53-74, 91-143: a deposit is confirmed, and a withdrawal
\* exists, exactly when its funds have moved, and they moved once.
RowsMatchLedger ==
    \A c \in Calls :
        /\ Posts(c) <= 1
        /\ input[c].kind = "deposit" => (deposit[c] = "CONFIRMED" <=> Posts(c) = 1)
        /\ input[c].kind = "withdraw" => (withdrawal[c] # "NONE" <=> Posts(c) = 1)

\* wallets.service.ts 47-48, 141-161: what still awaits confirmation, or is on
\* its way out, has a timer or a transaction at work, unless the backend crashed
\* or a statement broke under it; a deposit also if its transaction met another
\* call's on the same accounts, which a withdrawal under way never does.
TimersAccountedFor ==
    \A c \in Calls :
        /\ deposit[c] = "PENDING" =>
                \/ c \in Running \/ call[c].pc \in {"broken", "lost"}
                \/ call[c].pc = "failed" /\ \E d \in Calls \ {c} : input[d].kind \in FundKinds
        /\ withdrawal[c] \in {"PENDING", "APPROVED", "PROCESSING"} =>
                c \in Running \/ call[c].pc \in {"broken", "lost"}

Adjusts(c) == input[c].kind \in {"credit", "debit"}

\* admin.service.ts 130-178: what is in the audit log, and what was answered, was
\* made; an adjustment that moved funds and is not in the log, because the record
\* broke or the backend crashed before it, has not been answered as made.
AdjustmentsAudited ==
    \A c \in Calls : Adjusts(c) =>
        /\ c \in trail \/ call[c].pc = "done" => Posts(c) = 1
        /\ Posts(c) = 1 => c \in trail \/ call[c].pc \in {"record", "broken", "lost"}

\* admin.service.ts 130-134: "with the operator and reason captured in the audit
\* log", of every adjustment that moved funds, once its call is over.
AdjustmentsCaptured ==
    \A c \in Calls : Adjusts(c) /\ Posts(c) = 1 /\ c \notin Running => c \in trail

Registers(c, u) == input[c].kind = "register" /\ UserOf(c) = u

\* auth.service.ts 42-72: of the registrations of one email, overlapping or not,
\* at most one is granted funds; a user that registered has them, or exists by
\* the one registration that found the assets unseeded.
RegisteredIsGranted ==
    \A u \in Users \ (Registered \cup {Bot}) : Exists(u) =>
        \E c \in Calls : /\ Registers(c, u)
                         /\ Posts(c) = 1 \/ (call[c].pc = "done" /\ call[c].outcome = "ungranted")
                         /\ \A d \in Calls \ {c} : Registers(d, u) =>
                                Posts(d) = 0 /\ ~At(d, "register", "done")

\* auth.service.ts 43-44: "a user can never exist without their welcome grant".
GrantedWhenExists ==
    \A u \in Users \ (Registered \cup {Bot}) : Exists(u) =>
        \E c \in Calls : Registers(c, u) /\ Posts(c) = 1

\* wallets.service.ts 47: "the sandbox always succeeds".
EveryDepositConfirmed ==
    \A c \in Calls : deposit[c] = "PENDING" ~> deposit[c] = "CONFIRMED"
=============================================================================
