-------------------------------- MODULE Funds --------------------------------
(***************************************************************************)
(* The ledger accounts of one asset, and the calls that move funds without *)
(* trading: registration, deposits, withdrawals and admin adjustments      *)
(* (LedgerService, WalletsService, AdminService, AuthService.register).    *)
(*                                                                         *)
(* Each runs one transaction over two accounts: find or create both, debit *)
(* one and credit the other, commit.  tx[c] is that transaction: the rows  *)
(* it has written, and so locked, and the accounts it found missing.       *)
(* Nobody else sees what it writes until it commits.                       *)
(***************************************************************************)
EXTENDS Auth, Sums

CONSTANTS
    OpeningBalance,     \* available funds of users at the start: [Registered -> Nat]
    GrantAmount,        \* testLiquidityUsdt
    MayTimeOut,         \* whether a transaction that waits may reach its time limit
    MayFail             \* whether a statement may fail of itself

Systems == {"TEST_LIQUIDITY", "WITHDRAWAL_SUSPENSE", "ADMIN_ADJUSTMENT"}
Owners == Users \cup Systems

ASSUME FundsAssumption ==
    /\ IsFiniteSet(Users) /\ Users \cap Systems = {}
    /\ OpeningBalance \in [Registered -> Nat]
    /\ GrantAmount \in Nat \ {0}
    /\ MayTimeOut \in BOOLEAN /\ MayFail \in BOOLEAN

VARIABLES
    listed,     \* whether the row of the asset exists: the seed has run
    account,    \* Account rows: [exists, available, locked]
    ledger,     \* committed ledger transactions: [call, payer, payee, amount]
    deposit,    \* Deposit rows, by the call that made them: their status
    withdrawal, \* Withdrawal rows, likewise
    tx          \* the open transaction of each call

fundVars == <<listed, account, ledger, deposit, withdrawal, tx>>

DepositStatuses == {"NONE", "PENDING", "CONFIRMED"}
Timeline == <<"PENDING", "APPROVED", "PROCESSING", "COMPLETED">>
NoTx == [rows |-> {}, missing |-> {}]
AccountRow(o) == <<"account", o>>
EmailRow(u) == <<"email", u>>
-----------------------------------------------------------------------------
(* What the transaction of a call does *)

SystemOf(c) == CASE input[c].kind \in {"register", "deposit"} -> "TEST_LIQUIDITY"
                 [] input[c].kind = "withdraw" -> "WITHDRAWAL_SUSPENSE"
                 [] OTHER -> "ADMIN_ADJUSTMENT"
Payer(c) == IF input[c].kind \in {"withdraw", "debit"} THEN UserOf(c) ELSE SystemOf(c)
Payee(c) == IF Payer(c) = UserOf(c) THEN SystemOf(c) ELSE UserOf(c)
Amount(c) == IF input[c].kind = "register" THEN GrantAmount ELSE input[c].amount

\* The order in which it looks for its accounts.
First(c) == IF input[c].kind \in {"register", "deposit"} THEN SystemOf(c) ELSE UserOf(c)
Second(c) == IF First(c) = SystemOf(c) THEN UserOf(c) ELSE SystemOf(c)

\* No other transaction has written the row.
RowFree(c, row) == \A d \in Calls \ {c} : row \notin tx[d].rows
MissingIn(o) == IF account[o].exists THEN {} ELSE {o}
Writes(c, row) == [tx[c] EXCEPT !.rows = @ \cup {row}]

\* What a call does after its transaction has failed: nothing is left of it.
Abort(c, pc) ==
    /\ tx' = [tx EXCEPT ![c] = NoTx]
    /\ Goto(c, pc)
-----------------------------------------------------------------------------
(* Handlers up to their transactions.  As long as the asset is not listed,  *)
(* findBySymbolOrThrow refuses them.                                        *)

\* The email is looked up, then the password hashed.
Register(c) ==
    /\ Begin(c, "register")
    /\ Goto(c, IF Exists(UserOf(c)) THEN "refused" ELSE "hashed")
    /\ UNCHANGED <<user, backup, logins, trail, input, streak, fundVars>>

\* Variant: the user row is committed before the transaction of the grant.
CreateUserFirst(c) ==
    /\ At(c, "register", "hashed")
    /\ IF Exists(UserOf(c)) THEN Abort(c, "failed") /\ UNCHANGED user
       ELSE /\ user' = [user EXCEPT ![UserOf(c)] = NewUser]
            /\ tx' = [tx EXCEPT ![c] = [rows |-> {}, missing |-> MissingIn(First(c))]]
            /\ Goto(c, IF listed THEN "first" ELSE "alone")
    /\ UNCHANGED <<backup, logins, trail, input, met, streak,
                   listed, account, ledger, deposit, withdrawal>>

\* user.create, on the unique email, begins the transaction of a registration;
\* then the asset of the grant is looked up.
CreateUser(c) ==
    LET row == EmailRow(UserOf(c)) IN
    /\ At(c, "register", "hashed") /\ RowFree(c, row)
    /\ IF Exists(UserOf(c)) THEN Abort(c, "failed")
       ELSE /\ tx' = [tx EXCEPT ![c] = [rows |-> {row}, missing |-> MissingIn(First(c))]]
            /\ Goto(c, IF listed THEN "first" ELSE "alone")
    /\ UNCHANGED <<user, backup, logins, trail, input, met, streak,
                   listed, account, ledger, deposit, withdrawal>>

\* "If assets are not seeded yet the user is still created."
CommitWithoutGrant(c) ==
    /\ At(c, "register", "alone")
    /\ user' = [user EXCEPT ![UserOf(c)] = NewUser]
    /\ tx' = [tx EXCEPT ![c] = NoTx]
    /\ call' = [call EXCEPT ![c].pc = "done", ![c].outcome = "ungranted"]
    /\ UNCHANGED <<backup, logins, trail, input, met, streak,
                   listed, account, ledger, deposit, withdrawal>>

CreateDeposit(c) ==
    /\ Begin(c, "deposit") /\ Exists(UserOf(c))
    /\ deposit' = IF listed THEN [deposit EXCEPT ![c] = "PENDING"] ELSE deposit
    /\ Goto(c, IF listed THEN "armed" ELSE "refused")
    /\ UNCHANGED <<user, backup, logins, trail, input, streak,
                   listed, account, ledger, withdrawal, tx>>

\* The timer: confirmDeposit returns unless the deposit is still pending.
ConfirmDeposit(c) ==
    /\ At(c, "deposit", "armed")
    /\ Goto(c, IF deposit[c] = "PENDING" THEN "begin" ELSE "done")
    /\ UNCHANGED <<user, backup, logins, trail, input, met, streak, fundVars>>

CreateWithdrawal(c) ==
    /\ Begin(c, "withdraw") /\ Exists(UserOf(c))
    /\ \E code \in KnownCodes(UserOf(c)) : Keep(c, IF listed THEN "verify" ELSE "refused", code)
    /\ UNCHANGED <<user, backup, logins, trail, input, streak, fundVars>>

\* Variant: the row of the withdrawal is written before the transaction.
WithdrawalVerifiedEarly(c) ==
    /\ input[c].kind = "withdraw" /\ Verified(c)
    /\ withdrawal' = [withdrawal EXCEPT ![c] = "PENDING"]
    /\ Goto(c, "begin")
    /\ UNCHANGED <<user, backup, logins, trail, input, met, streak,
                   listed, account, ledger, deposit, tx>>

WithdrawalVerified(c) ==
    /\ input[c].kind = "withdraw" /\ Verified(c)
    /\ Goto(c, "begin")
    /\ UNCHANGED <<user, backup, logins, trail, input, met, streak, fundVars>>

\* Variant: the adjustment is recorded before it is made.
CreateBalanceAdjustmentRecorded(c) ==
    /\ input[c].kind \in {"credit", "debit"} /\ Begin(c, input[c].kind)
    /\ Exists(UserOf(c))
    /\ trail' = trail \cup {c}
    /\ Goto(c, "begin")
    /\ UNCHANGED <<user, backup, logins, input, streak, fundVars>>

CreateBalanceAdjustment(c) ==
    /\ input[c].kind \in {"credit", "debit"} /\ Begin(c, input[c].kind)
    /\ Exists(UserOf(c))
    /\ Goto(c, IF listed THEN "begin" ELSE "refused")
    /\ UNCHANGED <<user, backup, logins, trail, input, streak, fundVars>>
-----------------------------------------------------------------------------
(* The transaction *)

FindFirst(c) ==
    /\ call[c].pc = "begin"
    /\ tx' = [tx EXCEPT ![c].missing = MissingIn(First(c))]
    /\ Goto(c, "first")
    /\ UNCHANGED <<user, backup, logins, trail, input, met, streak,
                   listed, account, ledger, deposit, withdrawal>>

\* account.create waits for a transaction that is creating the same account,
\* and fails on the unique index when that one has committed.
CreateAccount(c, o) ==
    /\ RowFree(c, AccountRow(o))
    /\ IF account[o].exists THEN Abort(c, "failed")
       ELSE /\ tx' = [tx EXCEPT ![c].rows = @ \cup {AccountRow(o)}, ![c].missing = {}]
            /\ Goto(c, IF call[c].pc = "first" THEN "find" ELSE "debit")

CreateFirst(c) ==
    /\ call[c].pc = "first" /\ tx[c].missing # {}
    /\ CreateAccount(c, First(c))
    /\ UNCHANGED <<user, backup, logins, trail, input, met, streak,
                   listed, account, ledger, deposit, withdrawal>>

FindSecond(c) ==
    /\ \/ call[c].pc = "first" /\ tx[c].missing = {}
       \/ call[c].pc = "find"
    /\ tx' = [tx EXCEPT ![c].missing = MissingIn(Second(c))]
    /\ Goto(c, IF account[Second(c)].exists THEN "debit" ELSE "second")
    /\ UNCHANGED <<user, backup, logins, trail, input, met, streak,
                   listed, account, ledger, deposit, withdrawal>>

CreateSecond(c) ==
    /\ call[c].pc = "second"
    /\ CreateAccount(c, Second(c))
    /\ UNCHANGED <<user, backup, logins, trail, input, met, streak,
                   listed, account, ledger, deposit, withdrawal>>

\* Variant: the balance is not part of the condition.
CoveredAlways(c) == TRUE

\* Only the accounts of users are guarded.
Covered(c) == Payer(c) \in Systems \/ account[Payer(c)].available >= Amount(c)

\* applyToBalance of the debit; InsufficientBalanceError takes everything back.
Debit(c) ==
    /\ call[c].pc = "debit" /\ RowFree(c, AccountRow(Payer(c)))
    /\ IF Covered(c)
       THEN /\ tx' = [tx EXCEPT ![c] = Writes(c, AccountRow(Payer(c)))]
            /\ Goto(c, "credit")
       ELSE Abort(c, "refused")
    /\ UNCHANGED <<user, backup, logins, trail, input, met, streak,
                   listed, account, ledger, deposit, withdrawal>>

\* applyToBalance of a row that exists, or was created for it.
Entered(row, change) == [row EXCEPT !.exists = TRUE, !.available = @ + change]

\* Variant: the new balance of the payee is computed from what was credited.
PostedOverwriting(c) ==
    [account EXCEPT ![Payer(c)] = Entered(@, -Amount(c)),
                    ![Payee(c)] = [@ EXCEPT !.exists = TRUE, !.available = Amount(c)]]

Posted(c) ==
    [account EXCEPT ![Payer(c)] = Entered(@, -Amount(c)), ![Payee(c)] = Entered(@, Amount(c))]

LedgerOf(c) ==
    ledger \cup {[call |-> c, payer |-> Payer(c), payee |-> Payee(c), amount |-> Amount(c)]}

\* The credit, what the handler writes after it, and the commit.
CreditAndCommit(c) ==
    LET kind == input[c].kind IN
    /\ call[c].pc = "credit" /\ RowFree(c, AccountRow(Payee(c)))
    /\ account' = Posted(c)
    /\ ledger' = LedgerOf(c)
    /\ tx' = [tx EXCEPT ![c] = NoTx]
    /\ user' = IF kind = "register" THEN [user EXCEPT ![UserOf(c)] = NewUser] ELSE user
    /\ deposit' = IF kind = "deposit" THEN [deposit EXCEPT ![c] = "CONFIRMED"] ELSE deposit
    /\ withdrawal' = IF kind = "withdraw" THEN [withdrawal EXCEPT ![c] = "PENDING"]
                                          ELSE withdrawal
    /\ Goto(c, CASE kind = "withdraw" -> "PENDING" [] kind \in {"credit", "debit"} -> "record"
                 [] OTHER -> "done")
    /\ UNCHANGED <<backup, logins, trail, input, met, streak, listed>>

\* A row the next statement of the transaction waits for.
WaitsFor(c) ==
    LET pc == call[c].pc IN
    CASE At(c, "register", "hashed") -> {EmailRow(UserOf(c))}
      [] pc = "first" /\ tx[c].missing # {} -> {AccountRow(First(c))}
      [] pc = "second" -> {AccountRow(Second(c))}
      [] pc = "debit" -> {AccountRow(Payer(c))}
      [] pc = "credit" -> {AccountRow(Payee(c))}
      [] OTHER -> {}

Deadlocked(c) ==
    \E S \in SUBSET Calls : c \in S /\ \A d \in S :
        \E e \in S \ {d} : WaitsFor(d) \cap tx[e].rows # {}

\* The deadlock detector, or the time limit of a transaction that waits.
FailTransaction(c) ==
    /\ \/ Deadlocked(c)
       \/ MayTimeOut /\ \E row \in WaitsFor(c) : ~RowFree(c, row)
    /\ Abort(c, "failed")
    /\ UNCHANGED <<user, backup, logins, trail, input, met, streak,
                   listed, account, ledger, deposit, withdrawal>>

\* Any statement may throw.  The handler rejects and an open transaction is
\* taken back; of a timer the error is only logged: an update that fails ends
\* runWithdrawalProgress, and one of the confirmation the confirmation, for good.
Break(c) ==
    /\ MayFail /\ c \in Running
    /\ Abort(c, "broken")
    /\ UNCHANGED <<user, backup, logins, trail, input, met, streak,
                   listed, account, ledger, deposit, withdrawal>>
-----------------------------------------------------------------------------
(* runWithdrawalProgress: the pc is the status last written *)

StepAfter(status) == CASE status = "PENDING" -> "APPROVED"
                       [] status = "APPROVED" -> "PROCESSING"
                       [] OTHER -> "COMPLETED"

\* Variant: the last step is never taken.
AdvanceWithdrawalShort(c) ==
    /\ input[c].kind = "withdraw" /\ call[c].pc \in {"PENDING", "APPROVED"}
    /\ withdrawal' = [withdrawal EXCEPT ![c] = StepAfter(call[c].pc)]
    /\ Goto(c, IF call[c].pc = "APPROVED" THEN "done" ELSE "APPROVED")
    /\ UNCHANGED <<user, backup, logins, trail, input, met, streak,
                   listed, account, ledger, deposit, tx>>

\* The next update; Break is the one that throws.
AdvanceWithdrawal(c) ==
    /\ input[c].kind = "withdraw"
    /\ call[c].pc \in {"PENDING", "APPROVED", "PROCESSING"}
    /\ withdrawal' = [withdrawal EXCEPT ![c] = StepAfter(call[c].pc)]
    /\ Goto(c, IF StepAfter(call[c].pc) = "COMPLETED" THEN "done" ELSE StepAfter(call[c].pc))
    /\ UNCHANGED <<user, backup, logins, trail, input, met, streak,
                   listed, account, ledger, deposit, tx>>
-----------------------------------------------------------------------------
(* Orders reserve funds and give them back, in transactions of their own *)

LockFunds(u) ==
    /\ account[u].available > 0 /\ account[u].locked = 0
    /\ \A c \in Calls : AccountRow(u) \notin tx[c].rows
    /\ account' = [account EXCEPT ![u].available = @ - 1, ![u].locked = @ + 1]
    /\ UNCHANGED <<authVars, listed, ledger, deposit, withdrawal, tx>>

ReleaseFunds(u) ==
    /\ account[u].locked > 0
    /\ \A c \in Calls : AccountRow(u) \notin tx[c].rows
    /\ account' = [account EXCEPT ![u].available = @ + 1, ![u].locked = @ - 1]
    /\ UNCHANGED <<authVars, listed, ledger, deposit, withdrawal, tx>>
-----------------------------------------------------------------------------
\* The seed of the database adds the assets that are not there yet.
SeedAssets ==
    /\ ~listed /\ listed' = TRUE
    /\ UNCHANGED <<authVars, account, ledger, deposit, withdrawal, tx>>

\* What users own at the start was issued by TEST_LIQUIDITY.
Opening(o) ==
    CASE o \in Registered -> OpeningBalance[o]
      [] o = "TEST_LIQUIDITY" -> -NatSum(OpeningBalance, Registered)
      [] OTHER -> 0

\* Nobody owns what is not listed.
FundsInit ==
    /\ listed \in BOOLEAN /\ (listed \/ \A u \in Registered : OpeningBalance[u] = 0)
    /\ account = [o \in Owners |-> [exists |-> Opening(o) # 0,
                                    available |-> Opening(o), locked |-> 0]]
    /\ ledger = {}
    /\ deposit = [c \in Calls |-> "NONE"]
    /\ withdrawal = [c \in Calls |-> "NONE"]
    /\ tx = [c \in Calls |-> NoTx]

FundsCall(c) ==
    \/ Register(c) \/ CreateUser(c) \/ CommitWithoutGrant(c)
    \/ CreateDeposit(c) \/ ConfirmDeposit(c)
    \/ CreateWithdrawal(c) \/ WithdrawalVerified(c) \/ AdvanceWithdrawal(c)
    \/ CreateBalanceAdjustment(c)
    \/ FindFirst(c) \/ CreateFirst(c) \/ FindSecond(c) \/ CreateSecond(c)
    \/ Debit(c) \/ CreditAndCommit(c) \/ FailTransaction(c)
=============================================================================
