---------------------------- MODULE Accounts_proofs ----------------------------
(***************************************************************************)
(* The funds of users, for any users, calls, amounts and restarts.         *)
(*                                                                         *)
(* No withdrawal, adjustment, deposit, grant or order takes a user below   *)
(* zero (Inv): a debit is checked against the balance that is committed    *)
(* then, and the row lock of the transaction keeps it true until the       *)
(* commit.                                                                 *)
(*                                                                         *)
(* Each call posts at most once, and the rows of deposits and withdrawals, *)
(* the audit trail, the grants of registrations and the balances agree     *)
(* with what was posted (Booked).  What relates them while a call is under *)
(* way is where it stands: each kind of call has its own steps (StagesOK), *)
(* and has posted before some of them only (RowsOK).                       *)
(*                                                                         *)
(* With the same stages, what holds of failed logins, two-factor settings  *)
(* and backup codes for calls that did not overlap (AuthBooked).           *)
(***************************************************************************)
EXTENDS Accounts, SumLemmas

Asked == [kind : AuthKinds \cup FundKinds, user : Users,
          password : BOOLEAN, amount : Nat \ {0}]

InputOK == input \in [Calls -> Asked]

AccountOK(u) ==
    /\ DOMAIN account[u] = {"exists", "available", "locked"}
    /\ account[u].available \in Nat /\ account[u].locked \in Nat

AccountsOK == DOMAIN account = Owners /\ \A u \in Users : AccountOK(u)

CallOK ==
    /\ DOMAIN call = Calls
    /\ \A c \in Calls : DOMAIN call[c] = {"pc", "seen", "code", "unused", "outcome"}

TxOK == DOMAIN tx = Calls /\ \A c \in Calls : DOMAIN tx[c] = {"rows", "missing"}

\* A row is written by one transaction at a time.
Exclusive == \A c, d \in Calls : c # d => tx[c].rows \cap tx[d].rows = {}

\* A transaction that has debited its payer has that row, and the payer has
\* the funds.
SecuredBy(c) ==
    /\ AccountRow(Payer(c)) \in tx[c].rows
    /\ Payer(c) \in Users => account[Payer(c)].available >= Amount(c)

Secured == \A c \in Calls : call[c].pc = "credit" => SecuredBy(c)

Inv == InputOK /\ AccountsOK /\ CallOK /\ TxOK /\ Exclusive /\ Secured
-----------------------------------------------------------------------------
(* Who pays whom *)

\* A call moves a positive amount between a user and an account of the system.
LEMMA Parties ==
    ASSUME InputOK, NEW c \in Calls
    PROVE  /\ UserOf(c) \in Users /\ SystemOf(c) \in Systems
           /\ Payer(c) \in Owners /\ Payee(c) \in Owners /\ Payer(c) # Payee(c)
           /\ Amount(c) \in Nat \ {0}
<1>1. input[c].user \in Users /\ input[c].amount \in Nat \ {0}
  BY DEF InputOK, Asked
<1>2. UserOf(c) \in Users /\ SystemOf(c) \in Systems
  BY <1>1 DEF UserOf, SystemOf, Systems
<1>3. UserOf(c) # SystemOf(c)
  BY <1>2, FundsAssumption
<1>4. Amount(c) \in Nat \ {0}
  BY <1>1, FundsAssumption DEF Amount
<1> QED
  BY <1>2, <1>3, <1>4 DEF Payer, Payee, Owners

\* Different owners have different rows.
LEMMA RowsDiffer ==
    ASSUME NEW o, NEW p, AccountRow(o) = AccountRow(p)
    PROVE  o = p
  BY DEF AccountRow

\* What a step that asks nothing new leaves of the parties of a call.
LEMMA SameParties ==
    ASSUME UNCHANGED input, NEW c \in Calls
    PROVE  Payer(c)' = Payer(c) /\ Payee(c)' = Payee(c) /\ Amount(c)' = Amount(c)
  BY DEF Payer, Payee, Amount, SystemOf, UserOf
-----------------------------------------------------------------------------
(* Steps outside the transactions *)

\* Nothing is moved or locked, and no transaction comes to its credit.
Quiet ==
    /\ UNCHANGED <<input, account, tx>>
    /\ CallOK'
    /\ \A d \in Calls : call'[d].pc = "credit" => call[d].pc = "credit"

LEMMA QuietKeeps == Inv /\ Quiet => Inv'
<1> SUFFICES ASSUME Inv, Quiet PROVE Inv'
  OBVIOUS
<1>1. InputOK' /\ AccountsOK' /\ TxOK' /\ Exclusive' /\ CallOK'
  BY DEF Inv, Quiet, InputOK, AccountsOK, AccountOK, TxOK, Exclusive
<1>2. ASSUME NEW c \in Calls, call'[c].pc = "credit"
      PROVE  SecuredBy(c)'
  <2>1. SecuredBy(c)
    BY <1>2 DEF Quiet, Inv, Secured
  <2> QED
    BY <2>1, SameParties DEF SecuredBy, Quiet, AccountRow
<1> QED
  BY <1>1, <1>2 DEF Inv, Secured

\* A handler that only moves on to a pc which is not "credit".
LEMMA MovesOn ==
    ASSUME CallOK, NEW c \in Calls, NEW pc, pc # "credit",
           Goto(c, pc), UNCHANGED <<input, account, tx>>
    PROVE  Quiet
  BY DEF Goto, CallOK, Quiet

\* One that also keeps what it has read.
LEMMA KeepsOn ==
    ASSUME CallOK, NEW c \in Calls, NEW pc, pc # "credit", NEW code,
           Keep(c, pc, code), UNCHANGED <<input, account, tx>>
    PROVE  Quiet
  BY DEF Keep, CallOK, Quiet

\* Logins, settings and the status of users.
LEMMA AuthIsQuiet ==
    ASSUME CallOK, NEW c \in Calls, AuthCall(c), UNCHANGED fundVars
    PROVE  Quiet
<1>1. UNCHANGED <<input, account, tx>>
  BY DEF AuthCall, ReadCodes, UseCode, RefuseCode, Login, FailedAttempt, NeedsCode,
         LoginSucceeds, AuditLogin, Refresh, SetupTwoFactor, WriteSecret, ConfirmTwoFactor,
         EnableTwoFactor, DisableTwoFactor, RemoveTwoFactor, UpdateUserStatus, WriteStatus,
         Record, fundVars
<1>2. CASE ReadCodes(c) \/ UseCode(c) \/ RefuseCode(c)
  BY <1>1, <1>2 DEF ReadCodes, UseCode, RefuseCode, Goto, CallOK, Quiet
<1>3. CASE Login(c)
  BY <1>1, <1>3 DEF Login, Keep, CallOK, Quiet
<1>4. CASE FailedAttempt(c) \/ NeedsCode(c) \/ LoginSucceeds(c) \/ AuditLogin(c)
  BY <1>1, <1>4 DEF FailedAttempt, NeedsCode, LoginSucceeds, AuditLogin, Goto, CallOK, Quiet
<1>5. CASE Refresh(c) \/ SetupTwoFactor(c) \/ WriteSecret(c) \/ EnableTwoFactor(c)
           \/ RemoveTwoFactor(c) \/ WriteStatus(c) \/ Record(c)
  BY <1>1, <1>5 DEF Refresh, SetupTwoFactor, WriteSecret, EnableTwoFactor, RemoveTwoFactor,
                    WriteStatus, Record, Goto, CallOK, Quiet
<1>6. CASE ConfirmTwoFactor(c) \/ DisableTwoFactor(c) \/ UpdateUserStatus(c)
  <2>1. \E pc \in {"hashed", "verify", "refused", "write"} : \E code : Keep(c, pc, code)
    BY <1>6, Zenon DEF ConfirmTwoFactor, DisableTwoFactor, UpdateUserStatus
  <2> QED
    BY <1>1, <2>1, KeepsOn
<1> QED
  BY <1>2, <1>3, <1>4, <1>5, <1>6 DEF AuthCall

\* Handlers before and after their transactions.
HandlerStep(c) ==
    \/ Register(c) \/ CreateDeposit(c) \/ ConfirmDeposit(c) \/ CreateWithdrawal(c)
    \/ WithdrawalVerified(c) \/ AdvanceWithdrawal(c) \/ CreateBalanceAdjustment(c)

LEMMA HandlersAreQuiet ==
    ASSUME CallOK, NEW c \in Calls, HandlerStep(c)
    PROVE  Quiet
<1>1. UNCHANGED <<input, account, tx>>
  BY DEF HandlerStep, Register, CreateDeposit, ConfirmDeposit, CreateWithdrawal,
         WithdrawalVerified, AdvanceWithdrawal, CreateBalanceAdjustment, fundVars
<1>2. CASE CreateWithdrawal(c)
  BY <1>1, <1>2 DEF CreateWithdrawal, Keep, CallOK, Quiet
<1>3. CASE AdvanceWithdrawal(c)
  BY <1>1, <1>3 DEF AdvanceWithdrawal, StepAfter, Goto, CallOK, Quiet
<1>4. CASE Register(c) \/ CreateDeposit(c) \/ ConfirmDeposit(c)
           \/ WithdrawalVerified(c) \/ CreateBalanceAdjustment(c)
  BY <1>1, <1>4 DEF Register, CreateDeposit, ConfirmDeposit, WithdrawalVerified,
                    CreateBalanceAdjustment, Goto, CallOK, Quiet
<1> QED
  BY <1>2, <1>3, <1>4 DEF HandlerStep
-----------------------------------------------------------------------------
(* Steps of a transaction before its commit *)

\* Only the transaction of c changes, by rows that nobody else has, and no
\* call comes to its credit without having secured it.
Locks(c) ==
    /\ UNCHANGED <<input, account>>
    /\ CallOK' /\ TxOK'
    /\ \A d \in Calls \ {c} : tx'[d] = tx[d] /\ call'[d] = call[d]
    /\ \A row \in tx'[c].rows : row \in tx[c].rows \/ RowFree(c, row)
    /\ call'[c].pc = "credit" => SecuredBy(c)'

LEMMA LocksKeeps ==
    ASSUME Inv, NEW c \in Calls, Locks(c)
    PROVE  Inv'
<1>1. InputOK' /\ AccountsOK' /\ TxOK' /\ CallOK'
  BY DEF Inv, Locks, InputOK, AccountsOK, AccountOK
<1>2. Exclusive'
  BY DEF Inv, Locks, Exclusive, RowFree
<1>3. ASSUME NEW d \in Calls, call'[d].pc = "credit"
      PROVE  SecuredBy(d)'
  <2>1. CASE d = c
    BY <1>3, <2>1 DEF Locks
  <2>2. CASE d # c
    <3>1. SecuredBy(d) /\ tx'[d] = tx[d]
      BY <1>3, <2>2 DEF Locks, Inv, Secured
    <3> QED
      BY <3>1, SameParties DEF SecuredBy, Locks, AccountRow
  <2> QED
    BY <2>1, <2>2
<1> QED
  BY <1>1, <1>2, <1>3 DEF Inv, Secured

TransactionStep(c) ==
    \/ CreateUser(c) \/ CommitWithoutGrant(c) \/ FindFirst(c) \/ CreateFirst(c)
    \/ FindSecond(c) \/ CreateSecond(c) \/ Debit(c) \/ FailTransaction(c) \/ Break(c)

LEMMA AbortLocks ==
    ASSUME CallOK, TxOK, NEW c \in Calls, NEW pc, pc # "credit", Abort(c, pc),
           UNCHANGED <<input, account>>
    PROVE  Locks(c)
  BY DEF Abort, NoTx, Goto, CallOK, TxOK, Locks

LEMMA CreateAccountLocks ==
    ASSUME CallOK, TxOK, NEW c \in Calls, NEW o, CreateAccount(c, o),
           UNCHANGED <<input, account>>
    PROVE  Locks(c)
<1>1. CASE account[o].exists
  BY <1>1, AbortLocks DEF CreateAccount
<1>2. CASE ~account[o].exists
  BY <1>2 DEF CreateAccount, Goto, CallOK, TxOK, Locks
<1> QED
  BY <1>1, <1>2

LEMMA TransactionLocks ==
    ASSUME Inv, NEW c \in Calls, TransactionStep(c)
    PROVE  Locks(c)
<1>1. UNCHANGED <<input, account>>
  BY DEF TransactionStep, CreateUser, CommitWithoutGrant, FindFirst, CreateFirst, FindSecond,
         CreateSecond, Debit, FailTransaction, Break
<1>2. CallOK /\ TxOK
  BY DEF Inv
<1>3. CASE CreateUser(c)
  <2>1. CASE Exists(UserOf(c))
    BY <1>1, <1>2, <1>3, <2>1, AbortLocks DEF CreateUser
  <2>2. CASE ~Exists(UserOf(c))
    BY <1>1, <1>2, <1>3, <2>2 DEF CreateUser, Goto, CallOK, TxOK, Locks
  <2> QED
    BY <2>1, <2>2
<1>4. CASE FindFirst(c)
  BY <1>1, <1>2, <1>4 DEF FindFirst, Goto, CallOK, TxOK, Locks
<1>5. CASE FindSecond(c)
  BY <1>1, <1>2, <1>5 DEF FindSecond, Goto, CallOK, TxOK, Locks
<1>6. CASE CreateFirst(c)
  BY <1>1, <1>2, <1>6, CreateAccountLocks DEF CreateFirst
<1>7. CASE CreateSecond(c)
  BY <1>1, <1>2, <1>7, CreateAccountLocks DEF CreateSecond
<1>8. CASE Debit(c)
  <2>1. CASE ~Covered(c)
    BY <1>1, <1>2, <1>8, <2>1, AbortLocks DEF Debit
  <2>2. CASE Covered(c)
    <3> DEFINE row == AccountRow(Payer(c))
    <3>1. /\ RowFree(c, row) /\ Goto(c, "credit")
          /\ tx' = [tx EXCEPT ![c] = [tx[c] EXCEPT !.rows = @ \cup {row}]]
      BY <1>8, <2>2 DEF Debit, Writes
    <3>2. TxOK' /\ tx'[c].rows = tx[c].rows \cup {row} /\ \A d \in Calls \ {c} : tx'[d] = tx[d]
      BY <1>2, <3>1 DEF TxOK
    <3>3. CallOK' /\ \A d \in Calls \ {c} : call'[d] = call[d]
      BY <1>2, <3>1 DEF CallOK, Goto
    <3>4. Payer(c) \in Users => account[Payer(c)].available >= Amount(c)
      BY <2>2, FundsAssumption DEF Covered
    <3>5. SecuredBy(c)'
      BY <1>1, <3>2, <3>4, SameParties DEF SecuredBy, AccountRow
    <3> QED
      BY <1>1, <3>1, <3>2, <3>3, <3>5 DEF Locks
  <2> QED
    BY <2>1, <2>2
<1>9. CASE FailTransaction(c) \/ Break(c)
  BY <1>1, <1>2, <1>9, AbortLocks DEF FailTransaction, Break
<1>10. CASE CommitWithoutGrant(c)
  BY <1>1, <1>2, <1>10 DEF CommitWithoutGrant, NoTx, CallOK, TxOK, Locks
<1> QED
  BY <1>3, <1>4, <1>5, <1>6, <1>7, <1>8, <1>9, <1>10 DEF TransactionStep
-----------------------------------------------------------------------------
(* Steps that move funds *)

\* A step keeps the others' debits covered when it changes only the balances of
\* users whose rows they do not have.
Moves(S) ==
    /\ UNCHANGED input
    /\ DOMAIN account' = Owners
    /\ \A u \in Users : AccountOK(u)'
    /\ \A d \in Calls : call'[d].pc = "credit" =>
            /\ call[d].pc = "credit" /\ tx'[d] = tx[d]
            /\ \A o \in S : AccountRow(o) \notin tx[d].rows
    /\ \A u \in Users \ S : account'[u] = account[u]
    /\ CallOK' /\ TxOK'
    /\ \A d \in Calls : tx'[d] \in {tx[d], NoTx}

LEMMA MovesKeep ==
    ASSUME Inv, NEW S, Moves(S)
    PROVE  Inv'
<1>1. InputOK' /\ AccountsOK' /\ TxOK' /\ CallOK'
  BY DEF Inv, Moves, InputOK, AccountsOK
<1>2. Exclusive'
  <2> SUFFICES ASSUME NEW c \in Calls, NEW d \in Calls, c # d
               PROVE  tx'[c].rows \cap tx'[d].rows = {}
    BY DEF Exclusive
  <2> QED
    BY DEF Inv, Moves, Exclusive, NoTx
<1>3. ASSUME NEW d \in Calls, call'[d].pc = "credit"
      PROVE  SecuredBy(d)'
  <2>1. /\ call[d].pc = "credit" /\ tx'[d] = tx[d]
        /\ \A o \in S : AccountRow(o) \notin tx[d].rows
    BY <1>3 DEF Moves
  <2>2. SecuredBy(d)
    BY <2>1 DEF Inv, Secured
  <2>3. Payer(d) \notin S
    BY <2>1, <2>2 DEF SecuredBy
  <2> QED
    BY <2>1, <2>2, <2>3, SameParties DEF SecuredBy, Moves, AccountRow
<1> QED
  BY <1>1, <1>2, <1>3 DEF Inv, Secured

\* Two arguments of a function get new values.
LEMMA TwoUpdates ==
    ASSUME NEW f, NEW a \in DOMAIN f, NEW b \in DOMAIN f, a # b, NEW v, NEW w
    PROVE  /\ DOMAIN [f EXCEPT ![a] = v, ![b] = w] = DOMAIN f
           /\ [f EXCEPT ![a] = v, ![b] = w][a] = v
           /\ [f EXCEPT ![a] = v, ![b] = w][b] = w
           /\ \A o \in DOMAIN f \ {a, b} : [f EXCEPT ![a] = v, ![b] = w][o] = f[o]
  OBVIOUS

\* A row that stays covered stays in order.
LEMMA EnteredOK ==
    ASSUME NEW row, NEW n \in Int, DOMAIN row = {"exists", "available", "locked"},
           row.available \in Nat, row.locked \in Nat, row.available + n >= 0
    PROVE  /\ DOMAIN Entered(row, n) = {"exists", "available", "locked"}
           /\ Entered(row, n).available \in Nat /\ Entered(row, n).locked \in Nat
  BY DEF Entered

LEMMA CreditMoves ==
    ASSUME Inv, NEW c \in Calls, CreditAndCommit(c)
    PROVE  Moves({Payer(c), Payee(c)})
<1>1. /\ call[c].pc = "credit" /\ RowFree(c, AccountRow(Payee(c)))
      /\ account' = Posted(c) /\ tx' = [tx EXCEPT ![c] = NoTx] /\ input' = input
  BY DEF CreditAndCommit
<1>2. SecuredBy(c) /\ DOMAIN account = Owners /\ \A u \in Users : AccountOK(u)
  BY <1>1 DEF Inv, Secured, AccountsOK
<1>3. /\ Payer(c) \in Owners /\ Payee(c) \in Owners /\ Payer(c) # Payee(c)
      /\ Amount(c) \in Nat
  BY Parties DEF Inv
<1>4. /\ DOMAIN account' = Owners
      /\ account'[Payer(c)] = Entered(account[Payer(c)], -Amount(c))
      /\ account'[Payee(c)] = Entered(account[Payee(c)], Amount(c))
      /\ \A o \in Owners \ {Payer(c), Payee(c)} : account'[o] = account[o]
  <2>1. account' = [account EXCEPT ![Payer(c)] = Entered(account[Payer(c)], -Amount(c)),
                                   ![Payee(c)] = Entered(account[Payee(c)], Amount(c))]
    BY <1>1, <1>3 DEF Posted
  <2> QED
    BY <2>1, <1>2, <1>3, TwoUpdates
<1>5. ASSUME NEW u \in Users PROVE AccountOK(u)'
  <2>1. CASE u = Payer(c)
    <3>1. account[u].available >= Amount(c) /\ account[u].available \in Nat /\ AccountOK(u)
      BY <1>2, <2>1 DEF SecuredBy, AccountOK
    <3>2. account[u].available + (-Amount(c)) >= 0 /\ -Amount(c) \in Int
      BY <1>3, <3>1
    <3>3. account'[u] = Entered(account[u], -Amount(c))
      BY <1>4, <2>1
    <3> QED
      BY <3>1, <3>2, <3>3, EnteredOK DEF AccountOK
  <2>2. CASE u = Payee(c)
    <3>1. account[u].available + Amount(c) >= 0 /\ AccountOK(u) /\ Amount(c) \in Int
      BY <1>2, <1>3 DEF AccountOK
    <3>2. account'[u] = Entered(account[u], Amount(c))
      BY <1>4, <2>2
    <3> QED
      BY <3>1, <3>2, EnteredOK DEF AccountOK
  <2>3. CASE u \notin {Payer(c), Payee(c)}
    BY <1>2, <1>4, <2>3 DEF AccountOK, Owners
  <2> QED
    BY <2>1, <2>2, <2>3
<1>6. CallOK' /\ call'[c].pc # "credit" /\ \A d \in Calls \ {c} : call'[d] = call[d]
  BY DEF CreditAndCommit, Goto, Inv, CallOK
<1>7. /\ TxOK' /\ \A d \in Calls \ {c} : tx'[d] = tx[d]
      /\ \A d \in Calls : tx'[d] \in {tx[d], NoTx}
  BY <1>1 DEF Inv, TxOK, NoTx
<1>8. ASSUME NEW d \in Calls \ {c}
      PROVE  \A o \in {Payer(c), Payee(c)} : AccountRow(o) \notin tx[d].rows
  BY <1>1, <1>2 DEF SecuredBy, RowFree, Inv, Exclusive
<1>9. \A u \in Users \ {Payer(c), Payee(c)} : account'[u] = account[u]
  BY <1>4 DEF Owners
<1>10. ASSUME NEW d \in Calls, call'[d].pc = "credit"
       PROVE  /\ call[d].pc = "credit" /\ tx'[d] = tx[d]
              /\ \A o \in {Payer(c), Payee(c)} : AccountRow(o) \notin tx[d].rows
  BY <1>6, <1>7, <1>8, <1>10
<1> QED
  BY <1>1, <1>4, <1>5, <1>6, <1>7, <1>9, <1>10 DEF Moves

LEMMA OrdersMove ==
    ASSUME Inv, NEW u \in Users, LockFunds(u) \/ ReleaseFunds(u)
    PROVE  Moves({u})
<1>1. /\ UNCHANGED <<input, call, tx>> /\ \A d \in Calls : AccountRow(u) \notin tx[d].rows
  BY DEF LockFunds, ReleaseFunds, authVars
<1>2. DOMAIN account = Owners /\ u \in Owners /\ AccountOK(u) /\ \A v \in Users : AccountOK(v)
  BY DEF Inv, AccountsOK, Owners
<1>3. /\ DOMAIN account' = Owners /\ \A v \in Users \ {u} : account'[v] = account[v]
      /\ AccountOK(u)'
  <2>1. CASE LockFunds(u)
    BY <1>2, <2>1 DEF LockFunds, AccountOK
  <2>2. CASE ReleaseFunds(u)
    BY <1>2, <2>2 DEF ReleaseFunds, AccountOK
  <2> QED
    BY <2>1, <2>2
<1>4. \A v \in Users : AccountOK(v)'
  BY <1>2, <1>3 DEF AccountOK
<1>5. CallOK' /\ TxOK'
  BY <1>1 DEF Inv, CallOK, TxOK
<1> QED
  BY <1>1, <1>3, <1>4, <1>5 DEF Moves

LEMMA RestartMoves ==
    ASSUME Inv, Restart
    PROVE  Moves({Bot})
<1>1. DOMAIN account = Owners /\ Bot \in Owners /\ \A u \in Users : AccountOK(u)
  BY AccountsAssumption DEF Inv, AccountsOK, Owners
<1>2. Bot \in Users /\ SeedAmount \in Nat /\ \A u \in Users : u # "TEST_LIQUIDITY"
  BY AccountsAssumption, FundsAssumption DEF Systems
<1>3. /\ DOMAIN account' = Owners /\ AccountOK(Bot)'
      /\ \A u \in Users \ {Bot} : account'[u] = account[u]
  <2>1. CASE Seeds
    <3>1. "TEST_LIQUIDITY" \in Owners /\ Bot # "TEST_LIQUIDITY"
      BY <1>2 DEF Owners, Systems
    <3>2. account' = [account EXCEPT
                        ![Bot] = Entered(account[Bot], SeedAmount),
                        !["TEST_LIQUIDITY"] = Entered(account["TEST_LIQUIDITY"], -SeedAmount)]
      BY <2>1, <3>1 DEF Restart, Seeded
    <3>3. /\ DOMAIN account' = Owners /\ account'[Bot] = Entered(account[Bot], SeedAmount)
          /\ \A o \in Owners \ {Bot, "TEST_LIQUIDITY"} : account'[o] = account[o]
      BY <3>1, <3>2, <1>1, TwoUpdates
    <3> QED
      BY <1>1, <1>2, <3>3 DEF AccountOK, Entered, Owners
  <2>2. CASE ~Seeds
    BY <1>1, <1>2, <2>2 DEF Restart, AccountOK, Owners
  <2> QED
    BY <2>1, <2>2
<1>4. \A u \in Users : AccountOK(u)'
  BY <1>1, <1>3 DEF AccountOK
<1>5. ASSUME NEW d \in Calls PROVE call'[d].pc # "credit"
  <2>1. call' = [e \in Calls |-> IF e \in Running THEN [call[e] EXCEPT !.pc = "lost"] ELSE call[e]]
    BY DEF Restart
  <2>2. CASE d \in Running
    BY <2>1, <2>2 DEF Inv, CallOK
  <2>3. CASE d \notin Running
    BY <2>1, <2>3 DEF Running, Ends
  <2> QED
    BY <2>2, <2>3
<1>6. CallOK'
  BY DEF Restart, Inv, CallOK
<1>7. TxOK' /\ \A d \in Calls : tx'[d] = NoTx
  BY DEF Restart, TxOK, NoTx
<1> QED
  BY <1>3, <1>4, <1>5, <1>6, <1>7 DEF Moves, Restart
-----------------------------------------------------------------------------
LEMMA InvInit == Init => Inv
<1> SUFFICES ASSUME Init PROVE Inv
  OBVIOUS
<1>1. InputOK
  BY AuthAssumption DEF Init, AuthInit, InputOK, Asked
<1>2. AccountsOK
  <2>1. account = [o \in Owners |-> [exists |-> Opening(o) # 0,
                                     available |-> Opening(o), locked |-> 0]]
    BY DEF Init, FundsInit
  <2>2. ASSUME NEW u \in Users PROVE u \in Owners /\ Opening(u) \in Nat
    <3>1. u \in Owners /\ u # "TEST_LIQUIDITY"
      BY FundsAssumption DEF Owners, Systems
    <3>2. CASE u \in Registered
      BY <3>1, <3>2, FundsAssumption DEF Opening
    <3>3. CASE u \notin Registered
      BY <3>1, <3>3 DEF Opening
    <3> QED
      BY <3>1, <3>2, <3>3
  <2>3. ASSUME NEW u \in Users PROVE AccountOK(u)
    <3>1. account[u] = [exists |-> Opening(u) # 0, available |-> Opening(u), locked |-> 0]
      BY <2>1, <2>2
    <3> QED
      BY <2>2, <3>1 DEF AccountOK
  <2> QED
    BY <2>1, <2>3 DEF AccountsOK
<1>3. CallOK /\ \A c \in Calls : call[c].pc = "new"
  BY DEF Init, AuthInit, CallOK, Handler
<1>4. TxOK /\ Exclusive
  BY DEF Init, FundsInit, TxOK, Exclusive, NoTx
<1> QED
  BY <1>1, <1>2, <1>3, <1>4 DEF Inv, Secured

LEMMA InvStep == Inv /\ [Next]_vars => Inv'
<1> SUFFICES ASSUME Inv, [Next]_vars PROVE Inv'
  OBVIOUS
<1>1. ASSUME NEW c \in Calls, CallStep(c) PROVE Inv'
  <2>1. CASE AuthCall(c) /\ UNCHANGED fundVars
    BY <2>1, AuthIsQuiet, QuietKeeps DEF Inv
  <2>2. CASE HandlerStep(c)
    BY <2>2, HandlersAreQuiet, QuietKeeps DEF Inv
  <2>3. CASE TransactionStep(c)
    BY <2>3, TransactionLocks, LocksKeeps
  <2>4. CASE CreditAndCommit(c)
    BY <2>4, CreditMoves, MovesKeep
  <2> QED
    BY <1>1, <2>1, <2>2, <2>3, <2>4 DEF CallStep, FundsCall, HandlerStep, TransactionStep
<1>2. ASSUME NEW u \in Users, LockoutEnds(u), UNCHANGED fundVars PROVE Inv'
  BY <1>2, QuietKeeps DEF LockoutEnds, fundVars, Quiet, Inv, CallOK
<1>3. ASSUME NEW u \in Traders, LockFunds(u) \/ ReleaseFunds(u) PROVE Inv'
  BY <1>3, AccountsAssumption, OrdersMove, MovesKeep
<1>4. CASE Restart
  BY <1>4, RestartMoves, MovesKeep
<1>5. CASE UNCHANGED vars \/ SeedAssets
  BY <1>5, QuietKeeps DEF vars, authVars, fundVars, SeedAssets, Quiet, Inv, CallOK
<1> QED
  BY <1>1, <1>2, <1>3, <1>4, <1>5 DEF Next

\* ledger-design.md: user balances never go below zero, whatever calls and
\* orders of one user spend the same funds at once, fail or are cut off.
THEOREM NobodyOverdraws == Spec => []NoOverdraft
<1>1. Inv => NoOverdraft
  BY DEF Inv, AccountsOK, AccountOK, NoOverdraft
<1> QED
  BY <1>1, InvInit, InvStep, PTL DEF Spec
-----------------------------------------------------------------------------
(* Where calls are *)

Transacting == {"first", "find", "second", "debit", "credit"}
Progress == {"PENDING", "APPROVED", "PROCESSING"}
Verifying == {"verify", "matching", "verified"}

\* Where the calls of a kind are between their awaits.
StepsOf(kind) ==
    CASE kind = "login" -> Verifying \cup {"audit"}
      [] kind = "setup" -> {"generated"}
      [] kind = "confirm" -> {"hashed"}
      [] kind = "disable" -> Verifying
      [] kind \in {"suspend", "restore"} -> {"write", "record"}
      [] kind = "register" -> {"hashed", "alone"} \cup Transacting
      [] kind = "deposit" -> {"armed", "begin"} \cup Transacting
      [] kind = "withdraw" -> Verifying \cup {"begin"} \cup Transacting \cup Progress
      [] kind \in {"credit", "debit"} -> {"begin", "record"} \cup Transacting
      [] OTHER -> {}

StagesOK == \A c \in Calls : call[c].pc \in {"new"} \cup Ends \cup StepsOf(input[c].kind)

\* A step of a call: it begins, or goes on from where it was.
Begins(c) ==
    /\ call[c].pc = "new"
    /\ met' = [d \in Calls |-> met[d] \cup IF d = c THEN Open
                                           ELSE IF d \in Open THEN {c} ELSE {}]
GoesOn(c) == call[c].pc \notin {"new"} \cup Ends /\ met' = met

Shaped(c) ==
    /\ input' = input /\ CallOK'
    /\ \A d \in Calls \ {c} : call'[d] = call[d]
    /\ Begins(c) \/ GoesOn(c)
    /\ call'[c].pc \in Ends \cup StepsOf(input[c].kind)

\* Which calls can be at a step.
LEMMA KindsAt ==
    ASSUME StagesOK, NEW c \in Calls
    PROVE  LET kind == input[c].kind IN
           /\ call[c].pc \in Verifying => kind \in {"login", "disable", "withdraw"}
           /\ call[c].pc \in Transacting => kind \in FundKinds
           /\ call[c].pc = "begin" => kind \in FundKinds \ {"register"}
           /\ call[c].pc \in Progress => kind = "withdraw"
           /\ call[c].pc = "write" => kind \in {"suspend", "restore"}
           /\ call[c].pc = "record" => kind \in {"suspend", "restore", "credit", "debit"}
           /\ call[c].pc = "audit" => kind = "login"
           /\ call[c].pc = "armed" => kind = "deposit"
           /\ call[c].pc = "generated" => kind = "setup"
           /\ call[c].pc = "hashed" => kind \in {"register", "confirm"}
           /\ call[c].pc = "alone" => kind = "register"
<1>1. call[c].pc \in {"new"} \cup Ends \cup StepsOf(input[c].kind)
  BY DEF StagesOK
<1> QED
  BY <1>1 DEF StepsOf, Ends, Verifying, Transacting, Progress, FundKinds

LEMMA AuthShape ==
    ASSUME CallOK, StagesOK, NEW c \in Calls, AuthCall(c)
    PROVE  Shaped(c)
<1> USE DEF Shaped
<1>1. CASE ReadCodes(c)
  BY <1>1, KindsAt DEF ReadCodes, CallOK, GoesOn, Ends, StepsOf, Verifying
<1>2. CASE UseCode(c)
  BY <1>2, KindsAt DEF UseCode, Goto, CallOK, GoesOn, Ends, StepsOf, Verifying
<1>3. CASE RefuseCode(c)
  BY <1>3 DEF RefuseCode, CodeRefused, Goto, CallOK, GoesOn, Ends
<1>4. CASE Login(c)
  BY <1>4 DEF Login, Keep, Begin, At, CallOK, Begins, Ends, StepsOf, Verifying
<1>5. CASE FailedAttempt(c)
  BY <1>5 DEF FailedAttempt, CodeRefused, At, CallOK, GoesOn, Ends, StepsOf
<1>6. CASE NeedsCode(c)
  BY <1>6 DEF NeedsCode, Goto, At, CallOK, GoesOn, Ends
<1>7. CASE LoginSucceeds(c)
  BY <1>7 DEF LoginSucceeds, Verified, CallOK, GoesOn, Ends, StepsOf
<1>8. CASE AuditLogin(c)
  BY <1>8 DEF AuditLogin, At, Goto, CallOK, GoesOn, Ends
<1>9. CASE Refresh(c)
  BY <1>9 DEF Refresh, Begin, At, Goto, CallOK, Begins, Ends
<1>10. CASE SetupTwoFactor(c)
  BY <1>10 DEF SetupTwoFactor, Begin, At, Goto, CallOK, Begins, Ends, StepsOf
<1>11. CASE WriteSecret(c)
  BY <1>11 DEF WriteSecret, At, Goto, CallOK, GoesOn, Ends
<1>12. CASE ConfirmTwoFactor(c)
  BY <1>12 DEF ConfirmTwoFactor, Keep, Begin, At, CallOK, Begins, Ends, StepsOf
<1>13. CASE EnableTwoFactor(c)
  BY <1>13 DEF EnableTwoFactor, At, Goto, CallOK, GoesOn, Ends
<1>14. CASE DisableTwoFactor(c)
  BY <1>14 DEF DisableTwoFactor, Keep, Begin, At, CallOK, Begins, Ends, StepsOf, Verifying
<1>15. CASE RemoveTwoFactor(c)
  BY <1>15 DEF RemoveTwoFactor, Verified, Goto, CallOK, GoesOn, Ends
<1>16. CASE UpdateUserStatus(c)
  BY <1>16 DEF UpdateUserStatus, Keep, Begin, At, CallOK, Begins, Ends, StepsOf
<1>17. CASE WriteStatus(c)
  BY <1>17, KindsAt DEF WriteStatus, Goto, CallOK, GoesOn, Ends, StepsOf
<1>18. CASE Record(c)
  BY <1>18 DEF Record, Goto, CallOK, GoesOn, Ends
<1> QED
  BY <1>1, <1>2, <1>3, <1>4, <1>5, <1>6, <1>7, <1>8, <1>9, <1>10, <1>11, <1>12, <1>13,
     <1>14, <1>15, <1>16, <1>17, <1>18 DEF AuthCall

LEMMA FundsShape ==
    ASSUME CallOK, StagesOK, NEW c \in Calls, FundsCall(c)
    PROVE  Shaped(c)
<1> USE DEF Shaped
<1>1. CASE Register(c)
  BY <1>1 DEF Register, Begin, At, Goto, CallOK, Begins, Ends, StepsOf
<1>2. CASE CreateUser(c)
  BY <1>2 DEF CreateUser, Abort, At, Goto, CallOK, GoesOn, Ends, StepsOf, Transacting
<1>3. CASE CreateDeposit(c)
  BY <1>3 DEF CreateDeposit, Begin, At, Goto, CallOK, Begins, Ends, StepsOf
<1>4. CASE ConfirmDeposit(c)
  BY <1>4 DEF ConfirmDeposit, At, Goto, CallOK, GoesOn, Ends, StepsOf
<1>5. CASE CreateWithdrawal(c)
  BY <1>5 DEF CreateWithdrawal, Keep, Begin, At, CallOK, Begins, Ends, StepsOf, Verifying
<1>6. CASE WithdrawalVerified(c)
  BY <1>6 DEF WithdrawalVerified, Verified, Goto, CallOK, GoesOn, Ends, StepsOf
<1>7. CASE AdvanceWithdrawal(c)
  BY <1>7 DEF AdvanceWithdrawal, StepAfter, Goto, CallOK, GoesOn, Ends, StepsOf, Progress
<1>8. CASE CreateBalanceAdjustment(c)
  BY <1>8 DEF CreateBalanceAdjustment, Begin, At, Goto, CallOK, Begins, Ends, StepsOf
<1>9. CASE FindFirst(c)
  BY <1>9, KindsAt DEF FindFirst, Goto, CallOK, GoesOn, Ends, StepsOf, Transacting, FundKinds
<1>10. CASE CreateFirst(c) \/ FindSecond(c) \/ CreateSecond(c)
  BY <1>10, KindsAt DEF CreateFirst, FindSecond, CreateSecond, CreateAccount, Abort, Goto,
                        CallOK, GoesOn, Ends, StepsOf, Transacting, FundKinds
<1>11. CASE Debit(c)
  BY <1>11, KindsAt DEF Debit, Abort, Goto, CallOK, GoesOn, Ends, StepsOf, Transacting, FundKinds
<1>12. CASE CreditAndCommit(c)
  BY <1>12, KindsAt DEF CreditAndCommit, Goto, CallOK, GoesOn, Ends, StepsOf, Transacting,
                        Progress, FundKinds
<1>13. CASE FailTransaction(c)
  <2>1. WaitsFor(c) # {}
    BY <1>13 DEF FailTransaction, Deadlocked
  <2>2. call[c].pc \in {"hashed", "first", "second", "debit", "credit"}
    BY <2>1 DEF WaitsFor, At
  <2> QED
    BY <1>13, <2>2 DEF FailTransaction, Abort, Goto, CallOK, GoesOn, Ends
<1>14. CASE CommitWithoutGrant(c)
  BY <1>14 DEF CommitWithoutGrant, At, CallOK, GoesOn, Ends
<1> QED
  BY <1>1, <1>2, <1>3, <1>4, <1>5, <1>6, <1>7, <1>8, <1>9, <1>10, <1>11, <1>12, <1>13, <1>14
     DEF FundsCall

\* A call that breaks leaves everything but its own transaction.
LEMMA BreakShape ==
    ASSUME CallOK, NEW c \in Calls, Break(c)
    PROVE  /\ Shaped(c) /\ call'[c] = [call[c] EXCEPT !.pc = "broken"] /\ call'[c].pc = "broken"
           /\ c \in Running /\ tx' = [tx EXCEPT ![c] = NoTx] /\ GoesOn(c)
           /\ UNCHANGED <<user, backup, logins, trail, input, met, streak, listed, account,
                          ledger, deposit, withdrawal>>
  BY DEF Break, Abort, Goto, Shaped, CallOK, GoesOn, Ends, Running
LEMMA StepShape ==
    ASSUME CallOK, StagesOK, NEW c \in Calls, CallStep(c)
    PROVE  Shaped(c)
  BY AuthShape, FundsShape, BreakShape DEF CallStep

LEMMA StagesKept ==
    ASSUME CallOK, StagesOK, NEW c \in Calls, Shaped(c)
    PROVE  StagesOK'
  BY DEF Shaped, StagesOK

\* What no call of a user does, nor a restart: time, orders and the seed.
Other ==
    \/ \E u \in Users : LockoutEnds(u) /\ UNCHANGED <<fundVars, restarts>>
    \/ \E u \in Traders : (LockFunds(u) \/ ReleaseFunds(u)) /\ UNCHANGED restarts
    \/ SeedAssets /\ UNCHANGED restarts
    \/ UNCHANGED vars

\* A restart leaves calls as they were or lost.
LEMMA RestartCalls ==
    ASSUME CallOK, Restart, NEW c \in Calls
    PROVE  /\ c \in Running => call'[c].pc = "lost"
           /\ c \notin Running => call'[c] = call[c]
           /\ call'[c].pc \in {"new"} \cup Ends
           /\ call'[c].code = call[c].code /\ call'[c].unused = call[c].unused
<1>1. call' = [d \in Calls |-> IF d \in Running THEN [call[d] EXCEPT !.pc = "lost"] ELSE call[d]]
  BY DEF Restart
<1>2. CASE c \in Running
  <2>1. call'[c] = [call[c] EXCEPT !.pc = "lost"]
    BY <1>1, <1>2
  <2> QED
    BY <1>2, <2>1 DEF CallOK, Ends
<1>3. CASE c \notin Running
  <2>1. call'[c] = call[c]
    BY <1>1, <1>3
  <2> QED
    BY <1>3, <2>1 DEF Running
<1> QED
  BY <1>2, <1>3

LEMMA OtherCalls ==
    ASSUME Other
    PROVE  UNCHANGED <<input, call, met, tx, trail, backup, ledger, deposit, withdrawal, restarts>>
  BY DEF Other, LockoutEnds, LockFunds, ReleaseFunds, SeedAssets, vars, authVars, fundVars

LEMMA StagesStep ==
    ASSUME CallOK, StagesOK, [Next]_vars
    PROVE  StagesOK'
<1>1. ASSUME NEW c \in Calls, CallStep(c) PROVE StagesOK'
  BY <1>1, StepShape, StagesKept
<1>2. CASE Restart
  BY <1>2, RestartCalls DEF Restart, StagesOK
<1>3. CASE Other
  BY <1>3, OtherCalls DEF StagesOK
<1> QED
  BY <1>1, <1>2, <1>3 DEF Next, Other
-----------------------------------------------------------------------------
(* The ledger: an entry for every commit, and one for a start that seeds *)

EntryOf(c) == [call |-> c, payer |-> Payer(c), payee |-> Payee(c), amount |-> Amount(c)]
BootEntry(n) == [call |-> Boot(n), payer |-> "TEST_LIQUIDITY", payee |-> Bot,
                 amount |-> SeedAmount]

LedgerOK ==
    /\ IsFiniteSet(ledger) /\ restarts \in 0 .. MaxRestarts
    /\ \A t \in ledger : \/ t.call \in Calls /\ t = EntryOf(t.call)
                         \/ \E n \in 0 .. restarts - 1 : t = BootEntry(n)

Moved(c) == \E t \in ledger : t.call = c

LEMMA BootIsNoCall ==
    ASSUME NEW n \in 0 .. MaxRestarts
    PROVE  BootEntry(n).call \notin Calls
  BY AccountsAssumption DEF BootEntry

\* A call has posted once, or not at all.
LEMMA PostsOfCall ==
    ASSUME LedgerOK, NEW c \in Calls
    PROVE  Posts(c) = IF Moved(c) THEN 1 ELSE 0
<1>1. ASSUME NEW t \in ledger, t.call = c PROVE t = EntryOf(c)
  <2>1. ASSUME NEW n \in 0 .. restarts - 1 PROVE t # BootEntry(n)
    <3>1. n \in 0 .. MaxRestarts
      BY AccountsAssumption DEF LedgerOK
    <3> QED
      BY <1>1, <3>1, BootIsNoCall
  <2> QED
    BY <1>1, <2>1 DEF LedgerOK
<1>2. CASE Moved(c)
  <2>1. {t \in ledger : t.call = c} = {EntryOf(c)}
    BY <1>1, <1>2 DEF Moved
  <2> QED
    BY <1>2, <2>1, FS_Singleton DEF Posts
<1>3. CASE ~Moved(c)
  <2>1. {t \in ledger : t.call = c} = {}
    BY <1>3 DEF Moved
  <2> QED
    BY <1>3, <2>1, FS_EmptySet DEF Posts
<1> QED
  BY <1>2, <1>3

\* Only a commit posts for a call, and only for its own.
LEMMA CommitPosts ==
    ASSUME NEW c \in Calls, CreditAndCommit(c)
    PROVE  /\ ledger' = ledger \cup {EntryOf(c)}
           /\ Moved(c)' /\ \A d \in Calls \ {c} : Moved(d)' <=> Moved(d)
<1>1. ledger' = ledger \cup {EntryOf(c)}
  BY DEF CreditAndCommit, LedgerOf, EntryOf
<1>2. EntryOf(c).call = c
  BY DEF EntryOf
<1>3. ASSUME NEW d \in Calls PROVE Moved(d)' <=> Moved(d) \/ d = c
  BY <1>1, <1>2 DEF Moved
<1> QED
  BY <1>1, <1>3

LEMMA RestartPosts ==
    ASSUME LedgerOK, Restart
    PROVE  /\ ledger' = IF Seeds THEN ledger \cup {BootEntry(restarts)} ELSE ledger
           /\ restarts' = restarts + 1 /\ restarts < MaxRestarts
           /\ \A d \in Calls : Moved(d)' <=> Moved(d)
<1>1. /\ ledger' = IF Seeds THEN ledger \cup {BootEntry(restarts)} ELSE ledger
      /\ restarts' = restarts + 1 /\ restarts < MaxRestarts
  BY DEF Restart, BootEntry
<1>2. BootEntry(restarts).call \notin Calls
  BY <1>1, BootIsNoCall, AccountsAssumption DEF LedgerOK
<1> QED
  BY <1>1, <1>2 DEF Moved

LEMMA LedgerStep ==
    ASSUME CallOK, LedgerOK, input' = input,
           \/ UNCHANGED <<ledger, restarts>>
           \/ \E c \in Calls : CreditAndCommit(c) /\ UNCHANGED restarts
           \/ Restart
    PROVE  LedgerOK'
<1>0. \A c \in Calls : EntryOf(c)' = EntryOf(c)
  BY SameParties DEF EntryOf
<1>1. CASE UNCHANGED <<ledger, restarts>>
  BY <1>0, <1>1 DEF LedgerOK, BootEntry
<1>2. ASSUME NEW c \in Calls, CreditAndCommit(c), UNCHANGED restarts
      PROVE  LedgerOK'
  <2>1. ledger' = ledger \cup {EntryOf(c)} /\ EntryOf(c).call = c
    BY <1>2, CommitPosts DEF EntryOf
  <2>2. IsFiniteSet(ledger')
    BY <2>1, FS_AddElement DEF LedgerOK
  <2> QED
    BY <1>0, <1>2, <2>1, <2>2 DEF LedgerOK, BootEntry
<1>3. CASE Restart
  <2>1. /\ ledger' \subseteq ledger \cup {BootEntry(restarts)} /\ IsFiniteSet(ledger')
        /\ restarts' = restarts + 1 /\ restarts < MaxRestarts
    BY <1>3, RestartPosts, FS_AddElement DEF LedgerOK
  <2>2. restarts' \in 0 .. MaxRestarts /\ restarts \in Nat
    BY <2>1, AccountsAssumption DEF LedgerOK
  <2>3. ASSUME NEW t \in ledger'
        PROVE  \/ t.call \in Calls /\ t = EntryOf(t.call)
               \/ \E n \in 0 .. restarts' - 1 : t = BootEntry(n)
    <3>1. CASE t \in ledger
      <4>1. 0 .. restarts - 1 \subseteq 0 .. restarts' - 1
        BY <2>1, <2>2
      <4> QED
        BY <3>1, <4>1 DEF LedgerOK
    <3>2. CASE t = BootEntry(restarts)
      <4>1. restarts \in 0 .. restarts' - 1
        BY <2>1, <2>2
      <4> QED
        BY <3>2, <4>1
    <3> QED
      BY <2>1, <3>1, <3>2
  <2>4. \A n : BootEntry(n)' = BootEntry(n)
    BY DEF BootEntry
  <2> QED
    BY <1>0, <2>1, <2>2, <2>3, <2>4 DEF LedgerOK
<1> QED
  BY <1>1, <1>2, <1>3
-----------------------------------------------------------------------------
(* What the rows of a call say has been posted *)

\* Up to the commit nothing is posted.
Unposted == {"new", "armed", "hashed", "alone", "begin"} \cup Verifying \cup Transacting

MovedOK(c) ==
    /\ call[c].pc \in Unposted => ~Moved(c)
    /\ call[c].pc \in Progress => Moved(c)
    /\ Adjusts(c) /\ call[c].pc = "record" => Moved(c)

StatusOK(c) ==
    /\ input[c].kind = "deposit" => (deposit[c] = "CONFIRMED" <=> Moved(c))
    /\ input[c].kind = "withdraw" => (withdrawal[c] # "NONE" <=> Moved(c))

TrailOK(c) == Adjusts(c) =>
    /\ c \in trail => Moved(c)
    /\ Moved(c) => c \in trail \/ call[c].pc \in {"record", "broken", "lost"}
    /\ call[c].pc = "done" => Moved(c)

RowsOK ==
    /\ DOMAIN deposit = Calls /\ DOMAIN withdrawal = Calls
    /\ \A c \in Calls : MovedOK(c) /\ StatusOK(c) /\ TrailOK(c)

\* A step of c that posts nothing.
Unposting(c) ==
    /\ Shaped(c) /\ ledger' = ledger
    /\ DOMAIN deposit' = Calls /\ DOMAIN withdrawal' = Calls
    /\ \A d \in Calls \ {c} : /\ deposit'[d] = deposit[d] /\ withdrawal'[d] = withdrawal[d]
                              /\ d \in trail' <=> d \in trail
    /\ call'[c].pc \in Unposted => call[c].pc \in Unposted
    /\ call'[c].pc \in Progress => call[c].pc \in Progress
    /\ Adjusts(c) => /\ call'[c].pc # "record"
                     /\ call'[c].pc = "done" => call[c].pc = "record"
                     /\ call[c].pc = "record" => call'[c].pc \in {"done", "broken"}
    /\ deposit[c] = "CONFIRMED" <=> deposit'[c] = "CONFIRMED"
    /\ withdrawal'[c] # "NONE" <=> withdrawal[c] # "NONE" \/ call[c].pc \in Progress
    /\ c \in trail' <=> c \in trail \/ (call[c].pc = "record" /\ call'[c].pc = "done")

LEMMA UnpostingKeeps ==
    ASSUME RowsOK, NEW c \in Calls, Unposting(c)
    PROVE  RowsOK'
<1>1. /\ \A d \in Calls : Moved(d)' <=> Moved(d)
      /\ \A d \in Calls : Adjusts(d)' <=> Adjusts(d)
      /\ input' = input
  BY DEF Unposting, Shaped, Moved, Adjusts
<1>2. ASSUME NEW d \in Calls \ {c} PROVE MovedOK(d)' /\ StatusOK(d)' /\ TrailOK(d)'
  BY <1>1 DEF RowsOK, Unposting, Shaped, MovedOK, StatusOK, TrailOK
<1>3. MovedOK(c)'
  BY <1>1 DEF RowsOK, Unposting, MovedOK
<1>4. StatusOK(c)'
  BY <1>1 DEF RowsOK, Unposting, StatusOK, MovedOK
<1>5. TrailOK(c)'
  BY <1>1 DEF RowsOK, Unposting, Shaped, TrailOK, MovedOK, Begins, GoesOn, Ends
<1> QED
  BY <1>2, <1>3, <1>4, <1>5 DEF RowsOK, Unposting

LEMMA AuthUnposts ==
    ASSUME CallOK, StagesOK, RowsOK, NEW c \in Calls, AuthCall(c), UNCHANGED fundVars
    PROVE  Unposting(c)
<1> DEFINE Frame == /\ ledger' = ledger /\ deposit' = deposit /\ withdrawal' = withdrawal
                    /\ Shaped(c)
<1>1. Frame
  BY AuthShape DEF fundVars
<1> HIDE DEF Frame
<1> DEFINE Quits ==
        /\ call[c].pc \notin Progress
        /\ call'[c].pc \notin Progress
        /\ call'[c].pc \in Unposted => call[c].pc \in Unposted
        /\ Adjusts(c) => /\ call'[c].pc # "record"
                         /\ call'[c].pc = "done" => call[c].pc = "record"
        /\ IF call[c].pc = "record" THEN trail' = trail \cup {c} /\ call'[c].pc = "done"
                                    ELSE trail' = trail
<1>2. Quits
  <2> USE DEF Quits, Progress, Unposted, Verifying, Transacting, Adjusts
  <2>1. CASE ReadCodes(c) \/ UseCode(c) \/ RefuseCode(c)
    BY <2>1 DEF ReadCodes, UseCode, RefuseCode, CodeRefused, Goto, CallOK
  <2>2. CASE Login(c)
    BY <2>2 DEF Login, Keep, Begin, At, CallOK
  <2>3. CASE FailedAttempt(c) \/ NeedsCode(c) \/ LoginSucceeds(c) \/ AuditLogin(c)
    BY <2>3 DEF FailedAttempt, CodeRefused, NeedsCode, LoginSucceeds, AuditLogin, Verified,
                At, Goto, CallOK
  <2>4. CASE Refresh(c) \/ SetupTwoFactor(c) \/ WriteSecret(c) \/ EnableTwoFactor(c)
             \/ RemoveTwoFactor(c)
    BY <2>4 DEF Refresh, SetupTwoFactor, WriteSecret, EnableTwoFactor, RemoveTwoFactor,
                Verified, Begin, At, Goto, CallOK
  <2>5. CASE ConfirmTwoFactor(c)
    BY <2>5 DEF ConfirmTwoFactor, Keep, Begin, At, CallOK
  <2>6. CASE DisableTwoFactor(c)
    BY <2>6 DEF DisableTwoFactor, Keep, Begin, At, CallOK
  <2>7. CASE UpdateUserStatus(c)
    BY <2>7 DEF UpdateUserStatus, Keep, Begin, At, CallOK
  <2>8. CASE WriteStatus(c)
    BY <2>8, KindsAt DEF WriteStatus, Goto, CallOK
  <2>9. CASE Record(c)
    BY <2>9 DEF Record, Goto, CallOK
  <2> QED
    BY <2>1, <2>2, <2>3, <2>4, <2>5, <2>6, <2>7, <2>8, <2>9 DEF AuthCall
<1> QED
  BY <1>1, <1>2 DEF Frame, Quits, Unposting, RowsOK

LEMMA FundsUnposts ==
    ASSUME CallOK, StagesOK, RowsOK, NEW c \in Calls, FundsCall(c), ~CreditAndCommit(c)
    PROVE  Unposting(c)
<1>1. Shaped(c)
  BY FundsShape
<1> USE DEF Progress, Unposted, Verifying, Transacting, Adjusts
<1>2. CASE CreateDeposit(c)
  BY <1>1, <1>2 DEF CreateDeposit, Begin, At, Goto, CallOK, RowsOK, MovedOK, StatusOK, Unposting
<1>3. CASE AdvanceWithdrawal(c)
  <2>1. call[c].pc \in Progress /\ StepAfter(call[c].pc) \in {"APPROVED", "PROCESSING", "COMPLETED"}
    BY <1>3 DEF AdvanceWithdrawal, StepAfter
  <2> QED
    BY <1>1, <1>3, <2>1 DEF AdvanceWithdrawal, Goto, CallOK, RowsOK, Unposting
<1>4. CASE Register(c) \/ ConfirmDeposit(c) \/ WithdrawalVerified(c)
  BY <1>1, <1>4 DEF Register, ConfirmDeposit, WithdrawalVerified, Verified, fundVars, Begin, At,
                    Goto, CallOK, RowsOK, Unposting
<1>5. CASE CreateWithdrawal(c) \/ CreateBalanceAdjustment(c)
  BY <1>1, <1>5 DEF CreateWithdrawal, CreateBalanceAdjustment, fundVars, Begin, At,
                    Goto, Keep, CallOK, RowsOK, Unposting
<1>6. CASE CreateUser(c) \/ FindFirst(c) \/ FindSecond(c)
  BY <1>1, <1>6 DEF CreateUser, FindFirst, FindSecond, At, Goto, Abort, CallOK, RowsOK, Unposting
<1>7. CASE CreateFirst(c) \/ CreateSecond(c)
  BY <1>1, <1>7 DEF CreateFirst, CreateSecond, CreateAccount, At, Goto, Abort, CallOK, RowsOK,
                    Unposting
<1>8. CASE Debit(c)
  BY <1>1, <1>8 DEF Debit, At, Goto, Abort, CallOK, RowsOK, Unposting
<1>9. CASE FailTransaction(c)
  <2>1. WaitsFor(c) # {}
    BY <1>9 DEF FailTransaction, Deadlocked
  <2>2. call[c].pc \in {"hashed"} \cup Transacting
    BY <2>1 DEF WaitsFor, At
  <2> QED
    BY <1>1, <1>9, <2>2 DEF FailTransaction, Goto, Abort, CallOK, RowsOK, Unposting
<1>10. CASE CommitWithoutGrant(c)
  BY <1>1, <1>10 DEF CommitWithoutGrant, At, CallOK, RowsOK, Unposting
<1> QED
  BY <1>2, <1>3, <1>4, <1>5, <1>6, <1>7, <1>8, <1>9, <1>10 DEF FundsCall

LEMMA BreakUnposts ==
    ASSUME CallOK, StagesOK, RowsOK, NEW c \in Calls, Break(c)
    PROVE  Unposting(c)
<1>1. /\ Shaped(c) /\ call'[c].pc = "broken"
      /\ UNCHANGED <<trail, ledger, deposit, withdrawal>>
  BY BreakShape
<1>2. call[c].pc \in Progress => withdrawal[c] # "NONE"
  BY KindsAt DEF RowsOK, MovedOK, StatusOK
<1> QED
  BY <1>1, <1>2 DEF RowsOK, Unposting, Unposted, Verifying, Transacting, Progress

\* Whatever a call does but commit, posts nothing.
LEMMA CallUnposts ==
    ASSUME CallOK, StagesOK, RowsOK, NEW c \in Calls, CallStep(c), ~CreditAndCommit(c)
    PROVE  Unposting(c)
  BY AuthUnposts, FundsUnposts, BreakUnposts DEF CallStep

LEMMA CommitRows ==
    ASSUME CallOK, StagesOK, RowsOK, NEW c \in Calls, CreditAndCommit(c)
    PROVE  RowsOK'
<1> DEFINE kind == input[c].kind
<1>1. /\ call[c].pc = "credit" /\ kind \in FundKinds /\ trail' = trail /\ input' = input
      /\ Shaped(c)
  BY FundsShape, KindsAt DEF CreditAndCommit, FundsCall, Transacting
<1>2. Moved(c)' /\ \A d \in Calls \ {c} : Moved(d)' <=> Moved(d)
  BY CommitPosts
<1>3. call'[c].pc = CASE kind = "withdraw" -> "PENDING"
                      [] kind \in {"credit", "debit"} -> "record"
                      [] OTHER -> "done"
  BY DEF CreditAndCommit, Goto, CallOK
<1>4. /\ DOMAIN deposit' = Calls /\ DOMAIN withdrawal' = Calls
      /\ \A d \in Calls \ {c} : deposit'[d] = deposit[d] /\ withdrawal'[d] = withdrawal[d]
      /\ kind = "deposit" => deposit'[c] = "CONFIRMED"
      /\ kind = "withdraw" => withdrawal'[c] = "PENDING"
  BY DEF CreditAndCommit, RowsOK
<1>5. ASSUME NEW d \in Calls \ {c} PROVE MovedOK(d)' /\ StatusOK(d)' /\ TrailOK(d)'
  BY <1>1, <1>2, <1>4 DEF RowsOK, Shaped, MovedOK, StatusOK, TrailOK, Adjusts
<1>6. MovedOK(c)' /\ StatusOK(c)' /\ TrailOK(c)'
  <2>1. call'[c].pc \notin Unposted /\ (Adjusts(c) => call'[c].pc = "record")
    BY <1>3 DEF Unposted, Verifying, Transacting, Adjusts
  <2> QED
    BY <1>1, <1>2, <1>4, <2>1 DEF MovedOK, StatusOK, TrailOK, Adjusts
<1> QED
  BY <1>4, <1>5, <1>6 DEF RowsOK

LEMMA RestartRows ==
    ASSUME CallOK, LedgerOK, RowsOK, Restart
    PROVE  RowsOK'
<1>1. /\ UNCHANGED <<input, deposit, withdrawal, trail>>
      /\ \A c \in Calls : Moved(c)' <=> Moved(c)
  BY RestartPosts DEF Restart
<1>2. ASSUME NEW c \in Calls PROVE MovedOK(c)' /\ StatusOK(c)' /\ TrailOK(c)'
  <2>1. CASE c \in Running
    <3>1. call'[c].pc = "lost"
      BY <2>1, RestartCalls
    <3> QED
      BY <1>1, <3>1 DEF RowsOK, MovedOK, StatusOK, TrailOK, Adjusts, Unposted, Verifying,
                        Transacting, Progress
  <2>2. CASE c \notin Running
    <3>1. call'[c] = call[c]
      BY <2>2, RestartCalls
    <3> QED
      BY <1>1, <3>1 DEF RowsOK, MovedOK, StatusOK, TrailOK, Adjusts
  <2> QED
    BY <2>1, <2>2
<1> QED
  BY <1>1, <1>2 DEF RowsOK

LEMMA OtherRows ==
    ASSUME RowsOK, Other
    PROVE  RowsOK'
  BY OtherCalls DEF RowsOK, MovedOK, StatusOK, TrailOK, Adjusts, Moved

LEMMA RowsStep ==
    ASSUME CallOK, StagesOK, LedgerOK, RowsOK, [Next]_vars
    PROVE  RowsOK'
<1>1. ASSUME NEW c \in Calls, CallStep(c) PROVE RowsOK'
  BY <1>1, CallUnposts, UnpostingKeeps, CommitRows
<1> QED
  BY <1>1, RestartRows, OtherRows DEF Next, Other

LEMMA LedgerKept ==
    ASSUME CallOK, StagesOK, LedgerOK, RowsOK, [Next]_vars
    PROVE  LedgerOK'
<1>1. ASSUME NEW c \in Calls, CallStep(c) PROVE LedgerOK'
  <2>1. UNCHANGED restarts /\ input' = input
    BY <1>1, StepShape DEF CallStep, Shaped
  <2>2. CASE CreditAndCommit(c)
    BY <2>1, <2>2, LedgerStep
  <2>3. CASE ~CreditAndCommit(c)
    <3>1. ledger' = ledger
      BY <1>1, <2>3, CallUnposts DEF Unposting
    <3> QED
      BY <2>1, <3>1, LedgerStep
  <2> QED
    BY <2>2, <2>3
<1>2. CASE Restart
  BY <1>2, LedgerStep DEF Restart
<1>3. CASE Other
  BY <1>3, OtherCalls, LedgerStep
<1> QED
  BY <1>1, <1>2, <1>3 DEF Next, Other
-----------------------------------------------------------------------------
(* What is pending has somebody at work on it *)

\* Another call that moves funds.
Another(c) == \E d \in Calls \ {c} : input[d].kind \in FundKinds

\* A row that a transaction found missing and that exists now is the work of
\* another call, and so are the rows that it waits for.
ClashOK(c) ==
    /\ call[c].pc = "first" /\ tx[c].missing # {} /\ account[First(c)].exists => Another(c)
    /\ call[c].pc = "second" /\ account[Second(c)].exists => Another(c)
    /\ tx[c].rows # {} => input[c].kind \in FundKinds

PendingOK(c) ==
    /\ deposit[c] # "NONE" => input[c].kind = "deposit"
    /\ deposit[c] = "PENDING" =>
            \/ call[c].pc \in {"armed", "begin", "broken", "lost"} \cup Transacting
            \/ call[c].pc = "failed" /\ Another(c)
    /\ withdrawal[c] \in Progress => call[c].pc \in {withdrawal[c], "broken", "lost"}

TimersOK == \A c \in Calls : ClashOK(c) /\ PendingOK(c)

LEMMA AnotherKept ==
    ASSUME UNCHANGED input, NEW c \in Calls
    PROVE  /\ Another(c)' <=> Another(c)
           /\ First(c)' = First(c) /\ Second(c)' = Second(c)
  BY DEF Another, First, Second, SystemOf, UserOf

\* Logins, settings and the status of users are none of it.
LEMMA AuthPlaces ==
    ASSUME CallOK, StagesOK, NEW c \in Calls, AuthCall(c)
    PROVE  /\ call[c].pc \notin {"armed", "begin"} \cup Transacting \cup Progress
           /\ call'[c].pc \notin {"armed", "begin"} \cup Transacting \cup Progress
           /\ input[c].kind \notin {"deposit", "register"}
<1> USE DEF Progress, Transacting
<1>1. CASE ReadCodes(c) \/ UseCode(c) \/ RefuseCode(c)
  BY <1>1, KindsAt DEF ReadCodes, UseCode, RefuseCode, CodeRefused, Goto, CallOK, Verifying
<1>2. CASE Login(c)
  BY <1>2 DEF Login, Keep, Begin, At, CallOK
<1>3. CASE FailedAttempt(c) \/ NeedsCode(c) \/ LoginSucceeds(c) \/ AuditLogin(c)
  BY <1>3 DEF FailedAttempt, CodeRefused, NeedsCode, LoginSucceeds, AuditLogin, Verified,
              At, Goto, CallOK
<1>4. CASE Refresh(c) \/ SetupTwoFactor(c) \/ WriteSecret(c) \/ EnableTwoFactor(c)
           \/ RemoveTwoFactor(c)
  BY <1>4 DEF Refresh, SetupTwoFactor, WriteSecret, EnableTwoFactor, RemoveTwoFactor,
              Verified, Begin, At, Goto, CallOK
<1>5. CASE ConfirmTwoFactor(c)
  BY <1>5 DEF ConfirmTwoFactor, Keep, Begin, At, CallOK
<1>6. CASE DisableTwoFactor(c)
  BY <1>6 DEF DisableTwoFactor, Keep, Begin, At, CallOK
<1>7. CASE UpdateUserStatus(c)
  BY <1>7 DEF UpdateUserStatus, Keep, Begin, At, CallOK
<1>8. CASE WriteStatus(c) \/ Record(c)
  BY <1>8, KindsAt DEF WriteStatus, Record, Goto, CallOK
<1> QED
  BY <1>1, <1>2, <1>3, <1>4, <1>5, <1>6, <1>7, <1>8 DEF AuthCall

LEMMA FundsPlaces ==
    ASSUME CallOK, StagesOK, NEW c \in Calls, FundsCall(c)
    PROVE  input[c].kind \in FundKinds
<1>1. CASE FailTransaction(c)
  <2>1. WaitsFor(c) # {}
    BY <1>1 DEF FailTransaction, Deadlocked
  <2>2. input[c].kind = "register" \/ call[c].pc \in Transacting
    BY <2>1 DEF WaitsFor, At, Transacting
  <2> QED
    BY <2>2, KindsAt DEF FundKinds
<1>2. CASE ~FailTransaction(c)
  BY <1>2, KindsAt DEF FundsCall, Register, CreateUser, CommitWithoutGrant, CreateDeposit,
       ConfirmDeposit, CreateWithdrawal, WithdrawalVerified, AdvanceWithdrawal, CreateBalanceAdjustment,
       FindFirst, CreateFirst, FindSecond, CreateSecond, Debit, CreditAndCommit, Begin, At,
       Transacting, FundKinds
<1> QED
  BY <1>1, <1>2

\* Rows that a call waits for, when it fails, are those of another one.
LEMMA FailsForAnother ==
    ASSUME TimersOK, NEW c \in Calls, FailTransaction(c)
    PROVE  Another(c) /\ call[c].pc \in {"hashed"} \cup Transacting
<1>1. \E d \in Calls \ {c} : tx[d].rows # {}
  <2>1. CASE Deadlocked(c)
    BY <2>1 DEF Deadlocked
  <2>2. CASE \E row \in WaitsFor(c) : ~RowFree(c, row)
    BY <2>2 DEF RowFree
  <2> QED
    BY <2>1, <2>2 DEF FailTransaction
<1>2. WaitsFor(c) # {}
  BY DEF FailTransaction, Deadlocked
<1> QED
  BY <1>1, <1>2 DEF TimersOK, ClashOK, Another, WaitsFor, At, Transacting

\* A call leaves the transactions and rows of the others.
LEMMA FundsFrame ==
    ASSUME TxOK, RowsOK, NEW c \in Calls, FundsCall(c)
    PROVE  /\ CreditAndCommit(c) \/ account' = account
           /\ \A d \in Calls \ {c} : tx'[d] = tx[d]
           /\ \A d \in Calls \ {c} : deposit'[d] = deposit[d] /\ withdrawal'[d] = withdrawal[d]
<1> USE DEF TxOK, RowsOK
<1>1. CASE Register(c) \/ ConfirmDeposit(c) \/ CreateWithdrawal(c) \/ WithdrawalVerified(c)
           \/ CreateBalanceAdjustment(c)
  BY <1>1 DEF Register, ConfirmDeposit, CreateWithdrawal, WithdrawalVerified,
              CreateBalanceAdjustment, fundVars
<1>2. CASE CreateUser(c) \/ CommitWithoutGrant(c) \/ Debit(c) \/ FailTransaction(c)
  BY <1>2 DEF CreateUser, CommitWithoutGrant, Debit, FailTransaction, Abort
<1>3. CASE CreateDeposit(c) \/ AdvanceWithdrawal(c)
  BY <1>3 DEF CreateDeposit, AdvanceWithdrawal
<1>4. CASE FindFirst(c) \/ FindSecond(c)
  BY <1>4 DEF FindFirst, FindSecond
<1>5. CASE CreateFirst(c) \/ CreateSecond(c)
  BY <1>5 DEF CreateFirst, CreateSecond, CreateAccount, Abort
<1>6. CASE CreditAndCommit(c)
  BY <1>6 DEF CreditAndCommit
<1> QED
  BY <1>1, <1>2, <1>3, <1>4, <1>5, <1>6 DEF FundsCall

LEMMA ClashOfOthers ==
    ASSUME TxOK, CallOK, StagesOK, RowsOK, TimersOK, NEW c \in Calls, FundsCall(c), NEW d \in Calls \ {c}
    PROVE  ClashOK(d)' /\ PendingOK(d)'
<1>1. Another(d)
  BY FundsPlaces DEF Another
<1>2. call'[d] = call[d] /\ input' = input
  BY FundsShape DEF Shaped
<1>3. tx'[d] = tx[d] /\ deposit'[d] = deposit[d] /\ withdrawal'[d] = withdrawal[d]
  BY FundsFrame
<1> QED
  BY <1>1, <1>2, <1>3, AnotherKept DEF TimersOK, ClashOK, PendingOK

LEMMA ClashOfCall ==
    ASSUME TxOK, CallOK, StagesOK, RowsOK, TimersOK, NEW c \in Calls, FundsCall(c)
    PROVE  ClashOK(c)'
<1>1. input' = input /\ input[c].kind \in FundKinds
  BY FundsShape, FundsPlaces DEF Shaped
<1>2. /\ Another(c)' <=> Another(c)
      /\ First(c)' = First(c) /\ Second(c)' = Second(c)
  BY <1>1, AnotherKept
<1>3. CASE CreateUser(c)
  <2>1. call'[c].pc \in {"failed", "alone"} \/ (call'[c].pc = "first" /\ tx'[c].missing = MissingIn(First(c))
                                   /\ account' = account)
    BY <1>3 DEF CreateUser, Abort, Goto, CallOK, TxOK
  <2> QED
    BY <1>1, <1>2, <2>1 DEF ClashOK, MissingIn
<1>4. CASE FindFirst(c)
  <2>1. call'[c].pc = "first" /\ tx'[c].missing = MissingIn(First(c)) /\ account' = account
    BY <1>4 DEF FindFirst, Goto, CallOK, TxOK
  <2> QED
    BY <1>1, <1>2, <2>1 DEF ClashOK, MissingIn
<1>5. CASE FindSecond(c)
  <2>1. /\ call'[c].pc = IF account[Second(c)].exists THEN "debit" ELSE "second"
        /\ account' = account
    BY <1>5 DEF FindSecond, Goto, CallOK
  <2> QED
    BY <1>1, <1>2, <2>1 DEF ClashOK
<1>6. CASE ~(CreateUser(c) \/ FindFirst(c) \/ FindSecond(c))
  <2>1. call'[c].pc \notin {"first", "second"}
    <3>1. CASE CreateFirst(c) \/ CreateSecond(c)
      BY <3>1 DEF CreateFirst, CreateSecond, CreateAccount, Abort, Goto, CallOK
    <3>2. CASE Register(c) \/ CreateDeposit(c) \/ ConfirmDeposit(c) \/ WithdrawalVerified(c)
               \/ CreateBalanceAdjustment(c)
      BY <3>2 DEF Register, CreateDeposit, ConfirmDeposit, WithdrawalVerified,
                  CreateBalanceAdjustment, Goto, CallOK
    <3>3. CASE CreateWithdrawal(c)
      BY <3>3 DEF CreateWithdrawal, Keep, CallOK
    <3>4. CASE AdvanceWithdrawal(c)
      BY <3>4 DEF AdvanceWithdrawal, StepAfter, Goto, CallOK
    <3>5. CASE Debit(c) \/ CreditAndCommit(c) \/ FailTransaction(c) \/ CommitWithoutGrant(c)
      BY <3>5 DEF Debit, CreditAndCommit, FailTransaction, CommitWithoutGrant, Abort, Goto, CallOK
    <3> QED
      BY <1>6, <3>1, <3>2, <3>3, <3>4, <3>5 DEF FundsCall
  <2> QED
    BY <1>1, <2>1 DEF ClashOK
<1> QED
  BY <1>3, <1>4, <1>5, <1>6

LEMMA PendingOfCall ==
    ASSUME TxOK, CallOK, StagesOK, RowsOK, TimersOK, NEW c \in Calls, FundsCall(c)
    PROVE  PendingOK(c)'
<1>1. input' = input /\ (Another(c)' <=> Another(c))
  BY FundsShape, AnotherKept DEF Shaped
<1>2. PendingOK(c) /\ ClashOK(c)
  BY DEF TimersOK
<1> USE DEF PendingOK, Transacting, Progress
<1>3. CASE Register(c)
  BY <1>1, <1>2, <1>3 DEF Register, Begin, At, Goto, CallOK, fundVars
<1>4. CASE CreateUser(c)
  BY <1>1, <1>2, <1>4 DEF CreateUser, At, Goto, Abort, CallOK
<1>5. CASE CreateDeposit(c)
  BY <1>1, <1>2, <1>5 DEF CreateDeposit, Begin, At, Goto, CallOK, RowsOK
<1>6. CASE ConfirmDeposit(c)
  BY <1>1, <1>2, <1>6 DEF ConfirmDeposit, At, Goto, CallOK, fundVars
<1>7. CASE CreateWithdrawal(c)
  BY <1>1, <1>2, <1>7 DEF CreateWithdrawal, Begin, At, Keep, CallOK, fundVars
<1>8. CASE WithdrawalVerified(c)
  BY <1>1, <1>2, <1>8 DEF WithdrawalVerified, Verified, Goto, CallOK, fundVars
<1>9. CASE AdvanceWithdrawal(c)
  <2>1. /\ input[c].kind = "withdraw" /\ withdrawal'[c] = StepAfter(call[c].pc)
        /\ StepAfter(call[c].pc) \in {"APPROVED", "PROCESSING", "COMPLETED"}
        /\ StepAfter(call[c].pc) # "COMPLETED" => call'[c].pc = StepAfter(call[c].pc)
        /\ deposit' = deposit
    BY <1>9 DEF AdvanceWithdrawal, StepAfter, Goto, CallOK, RowsOK
  <2> QED
    BY <1>1, <1>2, <2>1
<1>10. CASE CreateBalanceAdjustment(c)
  BY <1>1, <1>2, <1>10 DEF CreateBalanceAdjustment, Begin, At, Goto, CallOK, fundVars
<1>11. CASE FindFirst(c) \/ FindSecond(c)
  BY <1>1, <1>2, <1>11 DEF FindFirst, FindSecond, Goto, CallOK
<1>12. CASE CreateFirst(c)
  BY <1>1, <1>2, <1>12 DEF CreateFirst, CreateAccount, Abort, Goto, CallOK, ClashOK
<1>13. CASE CreateSecond(c)
  BY <1>1, <1>2, <1>13 DEF CreateSecond, CreateAccount, Abort, Goto, CallOK, ClashOK
<1>14. CASE Debit(c)
  <2>1. input[c].kind = "deposit" => Covered(c)
    BY DEF Covered, Payer, SystemOf, Systems
  <2>2. /\ deposit' = deposit /\ withdrawal' = withdrawal /\ call[c].pc = "debit"
        /\ call'[c].pc = IF Covered(c) THEN "credit" ELSE "refused"
    BY <1>14 DEF Debit, Abort, Goto, CallOK
  <2> QED
    BY <1>1, <1>2, <2>1, <2>2
<1>15. CASE CreditAndCommit(c)
  <2> DEFINE kind == input[c].kind
  <2>1. /\ call[c].pc = "credit"
        /\ deposit'[c] = IF kind = "deposit" THEN "CONFIRMED" ELSE deposit[c]
        /\ withdrawal'[c] = IF kind = "withdraw" THEN "PENDING" ELSE withdrawal[c]
        /\ kind = "withdraw" => call'[c].pc = "PENDING"
    BY <1>15 DEF CreditAndCommit, Goto, CallOK, RowsOK
  <2> QED
    BY <1>1, <1>2, <2>1
<1>16. CASE FailTransaction(c)
  <2>1. /\ Another(c) /\ deposit' = deposit /\ withdrawal' = withdrawal
        /\ call'[c].pc = "failed" /\ call[c].pc \in {"hashed"} \cup Transacting
    BY <1>16, FailsForAnother DEF FailTransaction, Abort, Goto, CallOK
  <2> QED
    BY <1>1, <1>2, <2>1
<1>17. CASE CommitWithoutGrant(c)
  BY <1>1, <1>2, <1>17 DEF CommitWithoutGrant, At
<1> QED
  BY <1>3, <1>4, <1>5, <1>6, <1>7, <1>8, <1>9, <1>10, <1>11, <1>12, <1>13, <1>14, <1>15,
     <1>16, <1>17 DEF FundsCall

LEMMA TimersStep ==
    ASSUME Inv, StagesOK, RowsOK, TimersOK, [Next]_vars
    PROVE  TimersOK'
<1>0. CallOK /\ TxOK /\ DOMAIN account = Owners
  BY DEF Inv, AccountsOK
<1>1. ASSUME NEW c \in Calls, AuthCall(c), UNCHANGED fundVars PROVE TimersOK'
  <2>1. /\ UNCHANGED <<input, account, tx, deposit, withdrawal>>
        /\ call[c].pc \notin Ends /\ \A d \in Calls \ {c} : call'[d] = call[d]
    BY <1>0, <1>1, AuthShape DEF Shaped, fundVars, Begins, GoesOn, Ends
  <2>2. ASSUME NEW d \in Calls \ {c} PROVE ClashOK(d)' /\ PendingOK(d)'
    BY <2>1, AnotherKept DEF TimersOK, ClashOK, PendingOK
  <2>3. ClashOK(c)'
    BY <1>0, <1>1, <2>1, AuthPlaces DEF TimersOK, ClashOK, Transacting
  <2>4. PendingOK(c)'
    BY <1>0, <1>1, <2>1, AuthPlaces DEF TimersOK, PendingOK, Ends, Progress
  <2> QED
    BY <2>2, <2>3, <2>4 DEF TimersOK
<1>2. ASSUME NEW c \in Calls, FundsCall(c) PROVE TimersOK'
  BY <1>0, <1>2, ClashOfOthers, ClashOfCall, PendingOfCall DEF TimersOK
<1>3. CASE Restart
  <2>1. /\ UNCHANGED <<input, deposit, withdrawal>> /\ tx' = [c \in Calls |-> NoTx]
    BY <1>3 DEF Restart
  <2>2. ASSUME NEW c \in Calls PROVE ClashOK(c)' /\ PendingOK(c)'
    <3>1. call'[c].pc \notin {"first", "second"} /\ tx'[c].rows = {}
      BY <1>0, <1>3, <2>1, RestartCalls DEF Ends, NoTx
    <3>2. call'[c].pc = "lost" \/ call'[c] = call[c]
      BY <1>0, <1>3, RestartCalls
    <3>3. ClashOK(c)'
      BY <3>1 DEF ClashOK
    <3>4. PendingOK(c)'
      BY <2>1, <3>2, AnotherKept DEF TimersOK, PendingOK
    <3> QED
      BY <3>3, <3>4
  <2> QED
    BY <2>2 DEF TimersOK
<1>4. CASE Other
  <2>1. UNCHANGED <<input, call, tx, deposit, withdrawal>>
    BY <1>4, OtherCalls
  <2>2. \A o \in Owners : account'[o].exists = account[o].exists
    <3>1. CASE account' = account
      BY <3>1
    <3>2. ASSUME NEW u \in Traders, LockFunds(u) \/ ReleaseFunds(u)
          PROVE  \A o \in Owners : account'[o].exists = account[o].exists
      <4>1. u \in Users /\ DOMAIN account[u] = {"exists", "available", "locked"}
        BY AccountsAssumption DEF Inv, AccountsOK, AccountOK
      <4>2. account'[u].exists = account[u].exists /\ \A o \in Owners \ {u} : account'[o] = account[o]
        BY <1>0, <3>2, <4>1 DEF LockFunds, ReleaseFunds, Owners
      <4> QED
        BY <4>2
    <3> QED
      BY <1>4, <3>1, <3>2 DEF Other, SeedAssets, fundVars, vars
  <2>3. ASSUME NEW c \in Calls PROVE First(c) \in Owners /\ Second(c) \in Owners
    <3>1. UserOf(c) \in Users /\ SystemOf(c) \in Systems
      BY Parties DEF Inv
    <3> QED
      BY <3>1 DEF First, Second, Owners
  <2> QED
    BY <2>1, <2>2, <2>3, AnotherKept DEF TimersOK, ClashOK, PendingOK
<1>5. ASSUME NEW c \in Calls, Break(c) PROVE TimersOK'
  <2>1. /\ UNCHANGED <<input, account, deposit, withdrawal>>
        /\ \A d \in Calls \ {c} : call'[d] = call[d] /\ tx'[d] = tx[d]
        /\ call'[c].pc = "broken" /\ tx'[c].rows = {} /\ call[c].pc \notin Ends
    <3>1. /\ Shaped(c) /\ call'[c].pc = "broken" /\ tx' = [tx EXCEPT ![c] = NoTx] /\ GoesOn(c)
          /\ UNCHANGED <<input, account, deposit, withdrawal>>
      BY <1>0, <1>5, BreakShape
    <3>2. tx'[c] = NoTx /\ \A d \in Calls \ {c} : tx'[d] = tx[d]
      BY <1>0, <3>1 DEF TxOK
    <3> QED
      BY <3>1, <3>2 DEF Shaped, GoesOn, NoTx
  <2>2. ASSUME NEW d \in Calls \ {c} PROVE ClashOK(d)' /\ PendingOK(d)'
    BY <2>1, AnotherKept DEF TimersOK, ClashOK, PendingOK
  <2>3. ClashOK(c)' /\ PendingOK(c)'
    BY <2>1, AnotherKept DEF TimersOK, ClashOK, PendingOK
  <2> QED
    BY <2>2, <2>3 DEF TimersOK
<1> QED
  BY <1>1, <1>2, <1>3, <1>4, <1>5 DEF Next, CallStep, Other
-----------------------------------------------------------------------------
(* Users exist from their registration on *)

UserShape == {"status", "attempts", "locked", "enabled", "secret"}
UsersOK == DOMAIN user = Users /\ \A u \in Users : DOMAIN user[u] = UserShape

\* All that runs for a user, but a registration and the record of a refused
\* login, has found the row.
KnownUser(c) ==
    c \in Running /\ input[c].kind # "register" /\ call[c].pc # "audit" => Exists(UserOf(c))

\* A registration that has written the row has the email for itself.
EmailHeld(c) ==
    input[c].kind = "register" /\ call[c].pc \in {"alone"} \cup Transacting =>
        ~Exists(UserOf(c)) /\ EmailRow(UserOf(c)) \in tx[c].rows

ExistenceOK == UsersOK /\ \A c \in Calls : KnownUser(c) /\ EmailHeld(c)

LEMMA AuthExists ==
    ASSUME CallOK, StagesOK, InputOK, ExistenceOK, NEW c \in Calls, AuthCall(c)
    PROVE  UsersOK' /\ \A u \in Users : Exists(u)' <=> Exists(u)
<1>1. UserOf(c) \in Users
  BY Parties
<1> USE DEF ExistenceOK, UsersOK, UserShape, Exists
<1>2. CASE user' = user
  BY <1>2
<1>3. CASE FailedAttempt(c)
  BY <1>1, <1>3 DEF FailedAttempt
<1>4. CASE LoginSucceeds(c)
  BY <1>1, <1>4 DEF LoginSucceeds
<1>5. CASE WriteSecret(c) \/ EnableTwoFactor(c) \/ RemoveTwoFactor(c)
  BY <1>1, <1>5 DEF WriteSecret, EnableTwoFactor, RemoveTwoFactor
<1>6. CASE WriteStatus(c)
  <2>1. user[UserOf(c)].status # "NONE" /\ StatusOf(c) # "NONE"
    BY <1>6, KindsAt DEF WriteStatus, KnownUser, Running, Ends, StatusOf
  <2> QED
    BY <1>1, <1>6, <2>1 DEF WriteStatus
<1> QED
  BY <1>2, <1>3, <1>4, <1>5, <1>6 DEF AuthCall, ReadCodes, UseCode, RefuseCode, Login, NeedsCode,
     AuditLogin, Refresh, SetupTwoFactor, ConfirmTwoFactor, DisableTwoFactor, UpdateUserStatus,
     Record

\* A registration commits, with the grant or without.
Creates(c) ==
    \/ CreditAndCommit(c) /\ input[c].kind = "register"
    \/ CommitWithoutGrant(c)

LEMMA FundsUser ==
    ASSUME NEW c \in Calls, FundsCall(c)
    PROVE  user' = IF Creates(c) THEN [user EXCEPT ![UserOf(c)] = NewUser] ELSE user
<1> USE DEF Creates
<1>1. CASE CreditAndCommit(c) \/ CommitWithoutGrant(c)
  <2>1. CASE CreditAndCommit(c)
    <3>1. ~CommitWithoutGrant(c)
      BY <2>1 DEF CreditAndCommit, CommitWithoutGrant, At
    <3> QED
      BY <2>1, <3>1 DEF CreditAndCommit
  <2>2. CASE CommitWithoutGrant(c)
    BY <2>2 DEF CommitWithoutGrant
  <2> QED
    BY <1>1, <2>1, <2>2
<1>2. CASE ~(CreditAndCommit(c) \/ CommitWithoutGrant(c))
  BY <1>2 DEF FundsCall, Register, CreateUser, CreateDeposit, ConfirmDeposit, CreateWithdrawal,
     WithdrawalVerified, AdvanceWithdrawal, CreateBalanceAdjustment, FindFirst, CreateFirst,
     FindSecond, CreateSecond, Debit, FailTransaction
<1> QED
  BY <1>1, <1>2

LEMMA NewUserShape == DOMAIN NewUser = UserShape /\ NewUser.status = "ACTIVE"
  BY DEF NewUser, NoUser, UserShape

LEMMA CommitExists ==
    ASSUME InputOK, UsersOK, NEW c \in Calls, FundsCall(c)
    PROVE  /\ UsersOK'
           /\ \A u \in Users : Exists(u)' <=> Exists(u) \/ (Creates(c) /\ u = UserOf(c))
<1>1. user' = IF Creates(c) THEN [user EXCEPT ![UserOf(c)] = NewUser] ELSE user
  BY FundsUser
<1>2. UserOf(c) \in Users
  BY Parties
<1> QED
  BY <1>1, <1>2, NewUserShape DEF UsersOK, Exists

LEMMA RestartExists ==
    ASSUME UsersOK, Restart
    PROVE  UsersOK' /\ \A u \in Users : Exists(u)' <=> Exists(u) \/ u = Bot
<1>1. user' = IF Exists(Bot) THEN user ELSE [user EXCEPT ![Bot] = NewUser]
  BY DEF Restart
<1> QED
  BY <1>1, AccountsAssumption, NewUserShape DEF UsersOK, Exists

LEMMA OtherExists ==
    ASSUME UsersOK, Other
    PROVE  UsersOK' /\ \A u \in Users : Exists(u)' <=> Exists(u)
<1> USE DEF UsersOK, UserShape, Exists
<1>1. CASE user' = user
  BY <1>1
<1>2. ASSUME NEW u \in Users, LockoutEnds(u)
      PROVE  UsersOK' /\ \A v \in Users : Exists(v)' <=> Exists(v)
  BY <1>2 DEF LockoutEnds
<1> QED
  BY <1>1, <1>2 DEF Other, LockFunds, ReleaseFunds, SeedAssets, vars, authVars

\* A call that begins has found its user, or goes without.
LEMMA BeginsKnown ==
    ASSUME CallOK, NEW c \in Calls, CallStep(c), call[c].pc = "new"
    PROVE  \/ call'[c].pc \in Ends \cup {"audit"} \/ input[c].kind = "register"
           \/ Exists(UserOf(c))
<1>1. CASE AuthCall(c)
  <2>1. CASE Login(c)
    BY <2>1 DEF Login, CallOK, Exists
  <2>2. CASE ~Login(c)
    <3>1. \/ Refresh(c) \/ SetupTwoFactor(c) \/ ConfirmTwoFactor(c) \/ DisableTwoFactor(c)
          \/ UpdateUserStatus(c)
      BY <1>1, <2>2 DEF AuthCall, ReadCodes, UseCode, RefuseCode, CodeRefused, FailedAttempt,
         NeedsCode, LoginSucceeds, Verified, AuditLogin, WriteSecret, EnableTwoFactor,
         RemoveTwoFactor, WriteStatus, Record, At
    <3> QED
      BY <3>1 DEF Refresh, SetupTwoFactor, ConfirmTwoFactor, DisableTwoFactor, UpdateUserStatus
  <2> QED
    BY <2>1, <2>2
<1>2. CASE FundsCall(c)
  <2>1. WaitsFor(c) = {}
    BY DEF WaitsFor, At
  <2>2. ~FailTransaction(c)
    BY <2>1 DEF FailTransaction, Deadlocked
  <2>3. Register(c) \/ CreateDeposit(c) \/ CreateWithdrawal(c) \/ CreateBalanceAdjustment(c)
    BY <1>2, <2>2 DEF FundsCall, CreateUser, CommitWithoutGrant, ConfirmDeposit,
       WithdrawalVerified, Verified,
       AdvanceWithdrawal, FindFirst, CreateFirst, FindSecond, CreateSecond, Debit,
       CreditAndCommit, At
  <2> QED
    BY <2>3 DEF Register, CreateDeposit, CreateWithdrawal, CreateBalanceAdjustment, Begin, At
<1>3. CASE Break(c)
  BY <1>3 DEF Break, Running
<1> QED
  BY <1>1, <1>2, <1>3 DEF CallStep

\* A registration inside its transaction came there by writing the user row,
\* and keeps it.
LEMMA EmailKept ==
    ASSUME CallOK, TxOK, StagesOK, NEW c \in Calls, FundsCall(c), EmailHeld(c),
           input[c].kind = "register", call'[c].pc \in {"alone"} \cup Transacting
    PROVE  ~Exists(UserOf(c)) /\ EmailRow(UserOf(c)) \in tx'[c].rows /\ ~Creates(c)
<1>1. ~CreditAndCommit(c) /\ ~CommitWithoutGrant(c) /\ ~Creates(c)
  BY DEF CreditAndCommit, CommitWithoutGrant, Creates, Goto, CallOK, Transacting
<1>2. CASE CreateUser(c)
  BY <1>1, <1>2 DEF CreateUser, Abort, Goto, CallOK, TxOK, Transacting
<1>3. CASE FindFirst(c)
  BY <1>3, KindsAt DEF FindFirst
<1>4. CASE CreateFirst(c) \/ CreateSecond(c)
  BY <1>1, <1>4 DEF CreateFirst, CreateSecond, CreateAccount, Abort, Goto, CallOK, TxOK,
                    EmailHeld, Transacting
<1>5. CASE FindSecond(c)
  BY <1>1, <1>5 DEF FindSecond, CallOK, TxOK, EmailHeld, Transacting
<1>6. CASE Debit(c)
  BY <1>1, <1>6 DEF Debit, Writes, Abort, Goto, CallOK, TxOK, EmailHeld, Transacting
<1>7. CASE FailTransaction(c)
  BY <1>7 DEF FailTransaction, Abort, Goto, CallOK, Transacting
<1>8. CASE Register(c)
  BY <1>8 DEF Register, Goto, CallOK, Transacting
<1> QED
  BY <1>1, <1>2, <1>3, <1>4, <1>5, <1>6, <1>7, <1>8 DEF FundsCall, CreateDeposit, ConfirmDeposit,
     CreateWithdrawal, WithdrawalVerified, AdvanceWithdrawal, CreateBalanceAdjustment, Begin, At

\* Users do not go, and come only by a registration that commits.
LEMMA CallExists ==
    ASSUME Inv, StagesOK, ExistenceOK, NEW c \in Calls, CallStep(c)
    PROVE  /\ UsersOK' /\ \A u \in Users : Exists(u) => Exists(u)'
           /\ \A u \in Users : Exists(u)' => Exists(u) \/ (Creates(c) /\ u = UserOf(c))
<1>0. CallOK /\ TxOK /\ InputOK /\ UsersOK
  BY DEF Inv, ExistenceOK
<1>1. CASE AuthCall(c)
  BY <1>0, <1>1, AuthExists
<1>2. CASE FundsCall(c)
  BY <1>0, <1>2, CommitExists
<1>3. CASE Break(c)
  BY <1>0, <1>3, BreakShape DEF UsersOK, Exists
<1> QED
  BY <1>1, <1>2, <1>3 DEF CallStep

LEMMA ExistenceStep ==
    ASSUME Inv, StagesOK, RowsOK, ExistenceOK, [Next]_vars
    PROVE  /\ ExistenceOK'
           /\ \A u \in Users : Exists(u) => Exists(u)'
<1>0. CallOK /\ TxOK /\ InputOK /\ UsersOK
  BY DEF Inv, ExistenceOK
<1>1. ASSUME NEW c \in Calls, CallStep(c)
      PROVE  /\ UsersOK' /\ \A u \in Users : Exists(u) => Exists(u)'
             /\ \A u \in Users : Exists(u)' => Exists(u) \/ (Creates(c) /\ u = UserOf(c))
  BY <1>1, CallExists
<1>2. ASSUME NEW c \in Calls, CallStep(c), NEW d \in Calls PROVE KnownUser(d)'
  <2>1. UserOf(d) \in Users /\ UserOf(d)' = UserOf(d) /\ input' = input
    BY <1>0, <1>2, StepShape, Parties DEF Shaped, UserOf
  <2>2. Exists(UserOf(d)) => Exists(UserOf(d))'
    BY <1>1, <1>2, <2>1
  <2>3. CASE d # c
    <3>1. call'[d] = call[d]
      BY <1>0, <1>2, <2>3, StepShape DEF Shaped
    <3> QED
      BY <2>1, <2>2, <3>1 DEF ExistenceOK, KnownUser, Running
  <2>4. CASE d = c /\ call[c].pc = "new"
    BY <1>0, <1>2, <2>1, <2>2, <2>4, BeginsKnown DEF KnownUser, Running
  <2>5. CASE d = c /\ call[c].pc # "new"
    <3>1. c \in Running
      BY <1>0, <1>2, <2>5, StepShape DEF Shaped, Begins, GoesOn, Running
    <3>2. CASE call[c].pc = "audit"
      <4>1. AuditLogin(c) \/ Break(c) \/ call'[c] = call[c]
        <5>1. ~FundsCall(c)
          BY <1>0, <3>2, KindsAt, FundsPlaces DEF FundKinds
        <5> QED
          BY <1>2, <3>2, <5>1 DEF CallStep, AuthCall, ReadCodes, UseCode, RefuseCode, CodeRefused,
             Login, FailedAttempt, NeedsCode, LoginSucceeds, Verified, Refresh, SetupTwoFactor,
             WriteSecret, ConfirmTwoFactor, EnableTwoFactor, DisableTwoFactor, RemoveTwoFactor,
             UpdateUserStatus, WriteStatus, Record, Begin, At
      <4>2. call'[c].pc \in Ends \cup {"audit"}
        BY <1>0, <3>2, <4>1, BreakShape DEF AuditLogin, Goto, CallOK, Ends
      <4> QED
        BY <2>5, <4>2 DEF KnownUser, Running
    <3>3. CASE call[c].pc # "audit"
      BY <2>1, <2>2, <2>5, <3>1, <3>3 DEF ExistenceOK, KnownUser
    <3> QED
      BY <3>2, <3>3
  <2> QED
    BY <2>3, <2>4, <2>5
<1>3. ASSUME NEW c \in Calls, CallStep(c), NEW d \in Calls PROVE EmailHeld(d)'
  <2> SUFFICES ASSUME input[d].kind = "register", call'[d].pc \in {"alone"} \cup Transacting
               PROVE  ~Exists(UserOf(d))' /\ EmailRow(UserOf(d)) \in tx'[d].rows
    <3>1. input' = input
      BY <1>0, <1>3, StepShape DEF Shaped
    <3> QED
      BY <3>1 DEF EmailHeld, EmailRow, UserOf
  <2>1. UserOf(d) \in Users /\ UserOf(d)' = UserOf(d)
    BY <1>0, <1>3, StepShape, Parties DEF Shaped, UserOf
  <2>2. CASE d # c
    <3>1. call'[d] = call[d]
      BY <1>0, <1>3, <2>2, StepShape DEF Shaped
    <3>2. ~Exists(UserOf(d)) /\ EmailRow(UserOf(d)) \in tx[d].rows
      BY <3>1 DEF ExistenceOK, EmailHeld
    <3>3. tx'[d] = tx[d]
      BY <1>0, <1>3, <2>2, FundsFrame, BreakShape DEF CallStep, fundVars, TxOK
    <3>4. ASSUME Creates(c), UserOf(c) = UserOf(d)
          PROVE  FALSE
      <4>1. EmailRow(UserOf(c)) \in tx[c].rows
        BY <3>4 DEF Creates, CreditAndCommit, CommitWithoutGrant, At, ExistenceOK, EmailHeld,
                    Transacting
      <4> QED
        BY <2>2, <3>2, <3>4, <4>1 DEF Inv, Exclusive
    <3> QED
      BY <1>1, <1>3, <2>1, <3>2, <3>3, <3>4
  <2>3. CASE d = c
    <3>1. FundsCall(c)
      BY <1>0, <1>3, <2>3, AuthPlaces, BreakShape DEF CallStep, Transacting
    <3> QED
      BY <1>0, <1>1, <1>3, <2>1, <2>3, <3>1, EmailKept DEF ExistenceOK
  <2> QED
    BY <2>2, <2>3
<1>4. CASE Restart
  <2>1. UsersOK' /\ (\A u \in Users : Exists(u) => Exists(u)') /\ input' = input
    BY <1>0, <1>4, RestartExists DEF Restart
  <2>2. ASSUME NEW d \in Calls PROVE KnownUser(d)' /\ EmailHeld(d)'
    <3>1. call'[d].pc \in {"new"} \cup Ends
      BY <1>0, <1>4, RestartCalls
    <3> QED
      BY <3>1 DEF KnownUser, EmailHeld, Running, Ends, Transacting
  <2> QED
    BY <2>1, <2>2 DEF ExistenceOK
<1>5. CASE Other
  <2>1. UNCHANGED <<input, call, tx>> /\ UsersOK' /\ \A u \in Users : Exists(u)' <=> Exists(u)
    BY <1>0, <1>5, OtherCalls, OtherExists
  <2>2. ASSUME NEW d \in Calls PROVE KnownUser(d)' /\ EmailHeld(d)'
    <3>1. UserOf(d) \in Users /\ UserOf(d)' = UserOf(d)
      BY <1>0, <2>1, Parties DEF UserOf
    <3> QED
      BY <2>1, <3>1 DEF ExistenceOK, KnownUser, EmailHeld, Running, EmailRow
  <2> QED
    BY <2>1, <2>2 DEF ExistenceOK
<1> QED
  BY <1>1, <1>2, <1>3, <1>4, <1>5 DEF Next, Other, ExistenceOK

\* Of the registrations of one email one at most has entered the user, with the
\* grant or, for want of the asset, without; everybody else who exists was
\* there, or is the market maker.
Ungranted(c) == call[c].pc = "done" /\ call[c].outcome = "ungranted"
Enrolled(c) == input[c].kind = "register" /\ (Moved(c) \/ Ungranted(c))

GrantsOK ==
    /\ \A u \in Registered : Exists(u)
    /\ \A c \in Calls : Enrolled(c) => Exists(UserOf(c))
    /\ \A c \in Calls : At(c, "register", "done") => Enrolled(c)
    /\ \A c, d \in Calls : Enrolled(c) /\ Enrolled(d) /\ UserOf(c) = UserOf(d) => c = d
    /\ \A u \in Users \ (Registered \cup {Bot}) : Exists(u) =>
            \E c \in Calls : Enrolled(c) /\ UserOf(c) = u

LEMMA RegisterEnds ==
    ASSUME CallOK, StagesOK, NEW c \in Calls, CallStep(c), input[c].kind = "register",
           call'[c].pc = "done"
    PROVE  Creates(c)
<1>1. FundsCall(c)
  BY AuthPlaces, BreakShape DEF CallStep
<1>2. CASE Register(c) \/ CreateUser(c)
  BY <1>2 DEF Register, CreateUser, Abort, Goto, CallOK
<1>3. CASE CreateFirst(c) \/ FindSecond(c) \/ CreateSecond(c) \/ Debit(c) \/ FailTransaction(c)
  BY <1>3 DEF CreateFirst, FindSecond, CreateSecond, CreateAccount, Debit, FailTransaction,
              Abort, Goto, CallOK
<1>4. ~FindFirst(c)
  BY KindsAt DEF FindFirst
<1> QED
  BY <1>1, <1>2, <1>3, <1>4 DEF Creates, FundsCall, CreateDeposit, ConfirmDeposit, CreateWithdrawal,
     WithdrawalVerified, AdvanceWithdrawal, CreateBalanceAdjustment, Begin, At

\* A registration that commits enrols its user, who was not there.
LEMMA EnrolStep ==
    ASSUME Inv, StagesOK, LedgerOK, RowsOK, ExistenceOK, NEW c \in Calls, CallStep(c), Creates(c)
    PROVE  /\ ~Exists(UserOf(c)) /\ input' = input
           /\ \A u \in Users : Exists(u)' <=> Exists(u) \/ u = UserOf(c)
           /\ \A d \in Calls : Enrolled(d)' <=> Enrolled(d) \/ d = c
           /\ \A d \in Calls \ {c} : call'[d] = call[d]
<1>0. CallOK /\ TxOK /\ InputOK /\ UsersOK
  BY DEF Inv, ExistenceOK
<1>1. input' = input /\ \A d \in Calls \ {c} : call'[d] = call[d]
  BY <1>0, StepShape DEF Shaped
<1>2. input[c].kind = "register" /\ ~Exists(UserOf(c))
  BY DEF Creates, CreditAndCommit, CommitWithoutGrant, At, ExistenceOK, EmailHeld, Transacting
<1>3. FundsCall(c)
  BY DEF Creates, FundsCall
<1>4. \A u \in Users : Exists(u)' <=> Exists(u) \/ u = UserOf(c)
  BY <1>0, <1>3, CommitExists
<1>5. \A d \in Calls \ {c} : Moved(d)' <=> Moved(d)
  <2>1. CASE CreditAndCommit(c)
    BY <2>1, CommitPosts
  <2>2. CASE ~CreditAndCommit(c)
    BY <1>0, <2>2, CallUnposts DEF Unposting, Moved
  <2> QED
    BY <2>1, <2>2
<1>6. Enrolled(c)'
  <2>1. CASE CreditAndCommit(c)
    BY <1>1, <1>2, <2>1, CommitPosts DEF Enrolled
  <2>2. CASE CommitWithoutGrant(c)
    BY <1>0, <1>1, <1>2, <2>2 DEF CommitWithoutGrant, Enrolled, Ungranted, CallOK
  <2> QED
    BY <2>1, <2>2 DEF Creates
<1> QED
  BY <1>1, <1>2, <1>4, <1>5, <1>6 DEF Enrolled, Ungranted

\* No other step of a call does.
LEMMA NoEnrolStep ==
    ASSUME Inv, StagesOK, LedgerOK, RowsOK, ExistenceOK, NEW c \in Calls, CallStep(c), ~Creates(c)
    PROVE  /\ input' = input /\ \A u \in Users : Exists(u)' => Exists(u)
           /\ \A d \in Calls : Enrolled(d)' <=> Enrolled(d)
           /\ \A d \in Calls : At(d, "register", "done")' => At(d, "register", "done")
<1>0. CallOK
  BY DEF Inv
<1>1. /\ input' = input /\ \A d \in Calls \ {c} : call'[d] = call[d]
      /\ call[c].pc # "done"
  BY <1>0, StepShape DEF Shaped, Begins, GoesOn, Ends
<1>2. input[c].kind = "register" => call'[c].pc # "done"
  BY <1>0, RegisterEnds
<1>3. \A d \in Calls : input[d].kind = "register" => (Moved(d)' <=> Moved(d))
  <2>1. CASE CreditAndCommit(c)
    BY <2>1, CommitPosts DEF Creates
  <2>2. CASE ~CreditAndCommit(c)
    BY <1>0, <2>2, CallUnposts DEF Unposting, Moved
  <2> QED
    BY <2>1, <2>2
<1>4. \A u \in Users : Exists(u)' => Exists(u)
  BY CallExists
<1> QED
  BY <1>1, <1>2, <1>3, <1>4 DEF Enrolled, Ungranted, At

LEMMA GrantsStep ==
    ASSUME Inv, StagesOK, LedgerOK, RowsOK, ExistenceOK, GrantsOK, [Next]_vars
    PROVE  GrantsOK'
<1>0. CallOK /\ TxOK /\ InputOK /\ UsersOK /\ Registered \subseteq Users
  BY AuthAssumption DEF Inv, ExistenceOK
<1>1. /\ \A u \in Users : Exists(u) => Exists(u)'
      /\ \A c \in Calls : UserOf(c) \in Users
  BY <1>0, ExistenceStep, Parties
<1>2. ASSUME NEW c \in Calls, CallStep(c), Creates(c)
      PROVE  GrantsOK'
  <2>1. /\ ~Exists(UserOf(c)) /\ input' = input
        /\ \A u \in Users : Exists(u)' <=> Exists(u) \/ u = UserOf(c)
        /\ \A d \in Calls : Enrolled(d)' <=> Enrolled(d) \/ d = c
        /\ \A d \in Calls \ {c} : call'[d] = call[d]
    BY <1>2, EnrolStep
  <2>2. \A d \in Calls : UserOf(d)' = UserOf(d)
    BY <2>1 DEF UserOf
  <2>3. \A d \in Calls : Enrolled(d) => UserOf(d) # UserOf(c)
    BY <2>1 DEF GrantsOK
  <2>4. \A d \in Calls : At(d, "register", "done")' => Enrolled(d)'
    BY <2>1 DEF GrantsOK, At
  <2> QED
    BY <1>0, <1>1, <2>1, <2>2, <2>3, <2>4 DEF GrantsOK
<1>3. ASSUME input' = input, \A d \in Calls : Enrolled(d)' <=> Enrolled(d),
             \A d \in Calls : At(d, "register", "done")' => At(d, "register", "done"),
             \A u \in Users : Exists(u)' => Exists(u) \/ u = Bot
      PROVE  GrantsOK'
  <2>1. \A d \in Calls : UserOf(d)' = UserOf(d)
    BY <1>3 DEF UserOf
  <2> QED
    BY <1>0, <1>1, <1>3, <2>1 DEF GrantsOK
<1>4. ASSUME NEW c \in Calls, CallStep(c), ~Creates(c)
      PROVE  GrantsOK'
  BY <1>3, <1>4, NoEnrolStep
<1>5. CASE Restart
  <2>1. input' = input /\ \A d \in Calls : Moved(d)' <=> Moved(d)
    BY <1>5, RestartPosts DEF Restart
  <2>2. \A d \in Calls : call'[d].pc = "done" \/ call[d].pc = "done" => call'[d] = call[d]
    BY <1>0, <1>5, RestartCalls DEF Running, Ends
  <2>3. \A u \in Users : Exists(u)' => Exists(u) \/ u = Bot
    BY <1>0, <1>5, RestartExists
  <2>4. \A d \in Calls : Enrolled(d)' <=> Enrolled(d)
    BY <2>1, <2>2 DEF Enrolled, Ungranted
  <2>5. \A d \in Calls : At(d, "register", "done")' => At(d, "register", "done")
    BY <2>1, <2>2 DEF At
  <2> QED
    BY <1>3, <2>1, <2>3, <2>4, <2>5
<1>6. CASE Other
  <2>1. UNCHANGED <<input, call, ledger>>
    BY <1>6, OtherCalls
  <2>2. /\ \A d \in Calls : Enrolled(d)' <=> Enrolled(d)
        /\ \A d \in Calls : At(d, "register", "done")' => At(d, "register", "done")
    BY <2>1 DEF Enrolled, Ungranted, Moved, At
  <2>3. \A u \in Users : Exists(u)' => Exists(u)
    BY <1>0, <1>6, OtherExists
  <2> QED
    BY <1>3, <2>1, <2>2, <2>3
<1> QED
  BY <1>2, <1>4, <1>5, <1>6 DEF Next, Other
-----------------------------------------------------------------------------
(* The books: what the entries add up to *)

In(o) == [t \in ledger |-> IF t.payee = o THEN t.amount ELSE 0]
Out(o) == [t \in ledger |-> IF t.payer = o THEN t.amount ELSE 0]

BalanceOK(o) ==
    /\ DOMAIN account[o] = {"exists", "available", "locked"}
    /\ account[o].available \in Int /\ account[o].locked \in Int
    /\ account[o].available + account[o].locked = Opening(o) + EntriesOf(o)

BooksOK == DOMAIN account = Owners /\ \A o \in Owners : BalanceOK(o)

LEMMA OpeningType ==
    ASSUME NEW o
    PROVE  Opening(o) \in Int
<1>1. IsFiniteSet(Registered) /\ OpeningBalance \in [Registered -> Int]
  BY AuthAssumption, FundsAssumption, FS_Subset
<1>2. NatSum(OpeningBalance, Registered) \in Nat
  BY <1>1, NatSumType
<1> QED
  BY <1>1, <1>2 DEF Opening

\* The entries are of positive amounts, between owners.
LEMMA EntryType ==
    ASSUME InputOK, LedgerOK, NEW t \in ledger
    PROVE  t.amount \in Nat /\ t.payer \in Owners /\ t.payee \in Owners /\ t.payer # t.payee
<1>1. CASE t.call \in Calls /\ t = EntryOf(t.call)
  BY <1>1, Parties DEF EntryOf
<1>2. ASSUME NEW n, t = BootEntry(n)
      PROVE  t.amount \in Nat /\ t.payer \in Owners /\ t.payee \in Owners /\ t.payer # t.payee
  BY <1>2, AccountsAssumption, FundsAssumption DEF BootEntry, Owners, Systems
<1> QED
  BY <1>1, <1>2 DEF LedgerOK

LEMMA EntriesType ==
    ASSUME InputOK, LedgerOK, NEW o
    PROVE  EntriesOf(o) \in Int
<1>1. In(o) \in [ledger -> Int] /\ Out(o) \in [ledger -> Int] /\ IsFiniteSet(ledger)
  BY EntryType DEF In, Out, LedgerOK
<1>2. NatSum(In(o), ledger) \in Nat /\ NatSum(Out(o), ledger) \in Nat
  BY <1>1, NatSumType
<1> QED
  BY <1>2 DEF EntriesOf, In, Out

\* One more entry: its amount goes to the payee and comes from the payer.
LEMMA EntryAdds ==
    ASSUME InputOK, LedgerOK, NEW t, t \notin ledger, ledger' = ledger \cup {t},
           t.amount \in Nat, t.payer # t.payee, NEW o
    PROVE  EntriesOf(o)' = EntriesOf(o) + (IF t.payee = o THEN t.amount
                                           ELSE IF t.payer = o THEN -t.amount ELSE 0)
<1>1. /\ In(o) \in [ledger -> Nat] /\ Out(o) \in [ledger -> Nat]
      /\ IsFiniteSet(ledger)
  BY EntryType DEF In, Out, LedgerOK
<1> DEFINE L == ledger \cup {t}
           i == [s \in L |-> IF s.payee = o THEN s.amount ELSE 0]
           p == [s \in L |-> IF s.payer = o THEN s.amount ELSE 0]
<1>2. i \in [L -> Nat] /\ p \in [L -> Nat]
  BY EntryType
<1>3. /\ \A s \in ledger : i[s] = In(o)[s] /\ p[s] = Out(o)[s]
      /\ i[t] = (IF t.payee = o THEN t.amount ELSE 0)
      /\ p[t] = (IF t.payer = o THEN t.amount ELSE 0)
  BY DEF In, Out
<1> HIDE DEF i, p
<1>4. /\ NatSum(i, L) = NatSum(In(o), ledger) + i[t]
      /\ NatSum(p, L) = NatSum(Out(o), ledger) + p[t]
  BY <1>1, <1>2, <1>3, NatSumInsert
<1>5. EntriesOf(o)' = NatSum(i, L) - NatSum(p, L)
  BY DEF EntriesOf, i, p
<1>6. EntriesOf(o) = NatSum(In(o), ledger) - NatSum(Out(o), ledger)
  BY DEF EntriesOf, In, Out
<1>7. NatSum(In(o), ledger) \in Nat /\ NatSum(Out(o), ledger) \in Nat
  BY <1>1, NatSumType
<1> QED
  BY <1>3, <1>4, <1>5, <1>6, <1>7

\* An amount entered for a new entry keeps the balance of its owner.
LEMMA EnteredBalance ==
    ASSUME NEW o, BalanceOK(o), NEW n \in Int, account'[o] = Entered(account[o], n),
           EntriesOf(o) \in Int, EntriesOf(o)' = EntriesOf(o) + n
    PROVE  BalanceOK(o)'
<1>1. /\ DOMAIN account'[o] = {"exists", "available", "locked"}
      /\ account'[o].available = account[o].available + n
      /\ account'[o].locked = account[o].locked
  BY DEF Entered, BalanceOK
<1> QED
  BY <1>1, OpeningType DEF BalanceOK, Opening

\* An entry with its two changes of accounts keeps the books.
LEMMA EntryKeeps ==
    ASSUME InputOK, LedgerOK, BooksOK, NEW t, t \notin ledger, ledger' = ledger \cup {t},
           t.amount \in Nat, t.payer \in Owners, t.payee \in Owners, t.payer # t.payee,
           account' = [account EXCEPT ![t.payer] = Entered(account[t.payer], -t.amount),
                                      ![t.payee] = Entered(account[t.payee], t.amount)]
    PROVE  BooksOK'
<1>1. /\ DOMAIN account' = Owners
      /\ account'[t.payer] = Entered(account[t.payer], -t.amount)
      /\ account'[t.payee] = Entered(account[t.payee], t.amount)
      /\ \A o \in Owners \ {t.payer, t.payee} : account'[o] = account[o]
  BY TwoUpdates DEF BooksOK
<1>2. ASSUME NEW o \in Owners PROVE BalanceOK(o)'
  <2>1. EntriesOf(o) \in Int /\ BalanceOK(o)
    BY EntriesType DEF BooksOK
  <2>2. CASE o = t.payee
    <3>1. EntriesOf(o)' = EntriesOf(o) + t.amount /\ t.amount \in Int
      BY <2>2, EntryAdds
    <3> QED
      BY <1>1, <2>1, <2>2, <3>1, EnteredBalance
  <2>3. CASE o = t.payer
    <3>1. EntriesOf(o)' = EntriesOf(o) + (-t.amount) /\ -t.amount \in Int
      BY <2>3, EntryAdds
    <3> QED
      BY <1>1, <2>1, <2>3, <3>1, EnteredBalance
  <2>4. CASE o \notin {t.payer, t.payee}
    <3>1. EntriesOf(o)' = EntriesOf(o)
      BY <2>1, <2>4, EntryAdds
    <3> QED
      BY <1>1, <2>1, <2>4, <3>1 DEF BalanceOK, Opening
  <2> QED
    BY <2>2, <2>3, <2>4
<1> QED
  BY <1>1, <1>2 DEF BooksOK

\* A step that posts nothing leaves what everybody has.
LEMMA QuietBooks ==
    ASSUME BooksOK, ledger' = ledger, DOMAIN account' = Owners,
           \A o \in Owners :
                /\ DOMAIN account'[o] = {"exists", "available", "locked"}
                /\ account'[o].available \in Int /\ account'[o].locked \in Int
                /\ account'[o].available + account'[o].locked
                        = account[o].available + account[o].locked
    PROVE  BooksOK'
<1>1. ASSUME NEW o PROVE EntriesOf(o)' = EntriesOf(o) /\ Opening(o)' = Opening(o)
  BY DEF EntriesOf, Opening
<1> QED
  BY <1>1 DEF BooksOK, BalanceOK

LEMMA BooksStep ==
    ASSUME Inv, StagesOK, LedgerOK, RowsOK, BooksOK, [Next]_vars
    PROVE  BooksOK'
<1>0. CallOK /\ TxOK /\ InputOK
  BY DEF Inv
<1>1. CASE account' = account /\ ledger' = ledger
  BY <1>1, QuietBooks DEF BooksOK, BalanceOK
<1>2. ASSUME NEW c \in Calls, CreditAndCommit(c) PROVE BooksOK'
  <2> DEFINE t == EntryOf(c)
  <2>1. t.call = c /\ t.payer = Payer(c) /\ t.payee = Payee(c) /\ t.amount = Amount(c)
    BY DEF EntryOf
  <2>2. ~Moved(c)
    BY <1>2 DEF CreditAndCommit, RowsOK, MovedOK, Unposted, Transacting
  <2>3. t \notin ledger /\ ledger' = ledger \cup {t}
    BY <1>2, <2>1, <2>2, CommitPosts DEF Moved
  <2>4. account' = [account EXCEPT ![Payer(c)] = Entered(account[Payer(c)], -Amount(c)),
                                   ![Payee(c)] = Entered(account[Payee(c)], Amount(c))]
    <3>1. account' = Posted(c)
      BY <1>2 DEF CreditAndCommit
    <3> QED
      BY <1>0, <3>1, Parties DEF Posted, BooksOK
  <2> HIDE DEF t
  <2> QED
    BY <1>0, <2>1, <2>3, <2>4, Parties, EntryKeeps
<1>3. ASSUME NEW u \in Traders, LockFunds(u) \/ ReleaseFunds(u) PROVE BooksOK'
  <2>1. ledger' = ledger /\ u \in Owners /\ DOMAIN account = Owners
    BY <1>3, AccountsAssumption DEF LockFunds, ReleaseFunds, Owners, BooksOK
  <2>2. BalanceOK(u) /\ \A o \in Owners : BalanceOK(o)
    BY <2>1 DEF BooksOK
  <2>3. /\ DOMAIN account' = Owners /\ \A o \in Owners \ {u} : account'[o] = account[o]
        /\ DOMAIN account'[u] = {"exists", "available", "locked"}
        /\ account'[u].available \in Int /\ account'[u].locked \in Int
        /\ account'[u].available + account'[u].locked = account[u].available + account[u].locked
    <3>1. CASE LockFunds(u)
      BY <2>1, <2>2, <3>1 DEF LockFunds, BalanceOK
    <3>2. CASE ReleaseFunds(u)
      BY <2>1, <2>2, <3>2 DEF ReleaseFunds, BalanceOK
    <3> QED
      BY <1>3, <3>1, <3>2
  <2> QED
    BY <2>1, <2>2, <2>3, QuietBooks DEF BalanceOK
<1>4. CASE Restart /\ Seeds
  <2> DEFINE t == BootEntry(restarts)
  <2>1. /\ t.call = Boot(restarts) /\ t.payer = "TEST_LIQUIDITY" /\ t.payee = Bot
        /\ t.amount = SeedAmount
    BY DEF BootEntry
  <2>2. /\ t.amount \in Nat /\ t.payer \in Owners /\ t.payee \in Owners /\ t.payer # t.payee
    BY <2>1, AccountsAssumption, FundsAssumption DEF Owners, Systems
  <2>3. ledger' = ledger \cup {t} /\ restarts \in 0 .. MaxRestarts
    BY <1>4, RestartPosts DEF LedgerOK
  <2>4. t \notin ledger
    <3>1. t.call \notin Calls
      BY <2>3, BootIsNoCall
    <3>2. ASSUME NEW n \in 0 .. restarts - 1 PROVE t # BootEntry(n)
      <4>1. n # restarts
        BY <2>3
      <4>2. Boot(n) # Boot(restarts)
        BY <4>1 DEF Boot
      <4> QED
        BY <2>1, <4>2 DEF BootEntry
    <3> QED
      BY <3>1, <3>2 DEF LedgerOK
  <2>5. account' = [account EXCEPT ![t.payer] = Entered(account[t.payer], -t.amount),
                                   ![t.payee] = Entered(account[t.payee], t.amount)]
    <3>1. account' = [account EXCEPT
                        ![Bot] = Entered(account[Bot], SeedAmount),
                        !["TEST_LIQUIDITY"] = Entered(account["TEST_LIQUIDITY"], -SeedAmount)]
      BY <1>4, <2>1, <2>2 DEF Restart, Seeded, BooksOK
    <3> QED
      BY <2>1, <2>2, <3>1
  <2> HIDE DEF t
  <2> QED
    BY <1>0, <2>2, <2>3, <2>4, <2>5, EntryKeeps
<1>5. CASE Restart /\ ~Seeds
  <2>1. /\ ledger' = ledger /\ DOMAIN account' = Owners
        /\ account' = [account EXCEPT ![Bot].exists = @ \/ listed]
    BY <1>5 DEF Restart, BooksOK
  <2>2. \A o \in Owners : BalanceOK(o)
    BY DEF BooksOK
  <2> QED
    BY <2>1, <2>2, QuietBooks DEF BalanceOK, BooksOK
<1>6. ASSUME NEW c \in Calls, CallStep(c), ~CreditAndCommit(c) PROVE BooksOK'
  BY <1>0, <1>1, <1>6, CallUnposts, FundsFrame, BreakShape DEF CallStep, fundVars, Unposting
<1> QED
  BY <1>1, <1>2, <1>3, <1>4, <1>5, <1>6 DEF Next, SeedAssets, fundVars, vars
-----------------------------------------------------------------------------
(* All of it together *)

Booked ==
    /\ Inv /\ StagesOK /\ LedgerOK /\ RowsOK /\ TimersOK
    /\ ExistenceOK /\ GrantsOK /\ BooksOK

LEMMA BookedInit == Init => Booked
<1> SUFFICES ASSUME Init PROVE Booked
  OBVIOUS
<1>1. Inv
  BY InvInit
<1>2. /\ DOMAIN call = Calls /\ \A c \in Calls : call[c].pc = "new"
      /\ ledger = {} /\ trail = {} /\ restarts = 0
      /\ deposit = [c \in Calls |-> "NONE"] /\ withdrawal = [c \in Calls |-> "NONE"]
      /\ tx = [c \in Calls |-> NoTx]
  BY DEF Init, AuthInit, FundsInit, Handler
<1>3. \A c \in Calls : ~Moved(c)
  BY <1>2 DEF Moved
<1>4. StagesOK
  BY <1>2 DEF StagesOK
<1>5. LedgerOK
  BY <1>2, FS_EmptySet, AccountsAssumption DEF LedgerOK
<1>6. RowsOK
  BY <1>2, <1>3 DEF RowsOK, MovedOK, StatusOK, TrailOK, Progress
<1>7. TimersOK
  BY <1>2 DEF TimersOK, ClashOK, PendingOK, NoTx, Progress
<1>8. UsersOK /\ \A u \in Users : Exists(u) <=> u \in Registered
  <2>1. user = [u \in Users |-> IF u \notin Registered THEN NoUser
                               ELSE IF u \notin Protected THEN NewUser
                               ELSE [NewUser EXCEPT !.enabled = TRUE, !.secret = u]]
    BY DEF Init, AuthInit
  <2> QED
    BY <2>1 DEF UsersOK, UserShape, Exists, NewUser, NoUser
<1>9. ExistenceOK
  BY <1>2, <1>8 DEF ExistenceOK, KnownUser, EmailHeld, Running, Transacting
<1>10. GrantsOK
  BY <1>2, <1>3, <1>8, AuthAssumption DEF GrantsOK, Enrolled, Ungranted, At
<1>11. BooksOK
  <2>1. account = [o \in Owners |-> [exists |-> Opening(o) # 0,
                                     available |-> Opening(o), locked |-> 0]]
    BY DEF Init, FundsInit
  <2>2. ASSUME NEW o PROVE EntriesOf(o) = 0
    <3>1. /\ In(o) \in [ledger -> Int] /\ Out(o) \in [ledger -> Int] /\ IsFiniteSet(ledger)
          /\ \A t \in ledger : In(o)[t] = 0 /\ Out(o)[t] = 0
      BY <1>2, FS_EmptySet DEF In, Out
    <3>2. NatSum(In(o), ledger) = 0 /\ NatSum(Out(o), ledger) = 0
      BY <3>1, NatSumZero
    <3> QED
      BY <3>2 DEF EntriesOf, In, Out
  <2> QED
    BY <2>1, <2>2, OpeningType DEF BooksOK, BalanceOK
<1> QED
  BY <1>1, <1>4, <1>5, <1>6, <1>7, <1>9, <1>10, <1>11 DEF Booked

LEMMA BookedStep == Booked /\ [Next]_vars => Booked'
<1> SUFFICES ASSUME Booked, [Next]_vars PROVE Booked'
  OBVIOUS
<1>1. /\ Inv /\ CallOK /\ StagesOK /\ LedgerOK /\ RowsOK /\ TimersOK
      /\ ExistenceOK /\ GrantsOK /\ BooksOK
  BY DEF Booked, Inv
<1> QED
  BY <1>1, InvStep, StagesStep, LedgerKept, RowsStep, TimersStep, ExistenceStep, GrantsStep,
     BooksStep DEF Booked

LEMMA BookedAlways == Spec => []Booked
  BY BookedInit, BookedStep, PTL DEF Spec

\* ledger.service.ts 61-104: each balance is what the committed entries add up
\* to, through failures and restarts, for any number of calls.
THEOREM BalancesAreEntries == Spec => []BalancesMatchEntries
<1>1. Booked => BalancesMatchEntries
  BY DEF Booked, BooksOK, BalanceOK, BalancesMatchEntries
<1> QED
  BY <1>1, BookedAlways, PTL

\* wallets.service.ts 53-74, 91-143: a deposit is confirmed, and a withdrawal
\* exists, exactly when its funds have moved, and they moved once.
THEOREM FundsMoveOnce == Spec => []RowsMatchLedger
<1>1. Booked => RowsMatchLedger
  BY PostsOfCall DEF Booked, RowsOK, StatusOK, RowsMatchLedger
<1> QED
  BY <1>1, BookedAlways, PTL

\* wallets.service.ts 47-48, 141-161: only a crash, a statement that breaks or a
\* clash of two transactions leaves a deposit pending; only one of the first two
\* a withdrawal.
THEOREM NothingIsForgotten == Spec => []TimersAccountedFor
<1>1. Booked => TimersAccountedFor
  <2> SUFFICES ASSUME Booked, NEW c \in Calls
               PROVE  /\ deposit[c] = "PENDING" =>
                            \/ c \in Running \/ call[c].pc \in {"broken", "lost"}
                            \/ call[c].pc = "failed"
                               /\ \E d \in Calls \ {c} : input[d].kind \in FundKinds
                      /\ withdrawal[c] \in {"PENDING", "APPROVED", "PROCESSING"} =>
                            c \in Running \/ call[c].pc \in {"broken", "lost"}
    BY DEF TimersAccountedFor
  <2>1. PendingOK(c)
    BY DEF Booked, TimersOK
  <2> QED
    BY <2>1 DEF PendingOK, Running, Ends, Transacting, Progress, Another
<1> QED
  BY <1>1, BookedAlways, PTL

\* admin.service.ts 130-178: what is in the audit log, or answered, was made; what
\* was made and is not in the log has not been answered.
THEOREM AdjustmentsLeaveTrail == Spec => []AdjustmentsAudited
<1>1. Booked => AdjustmentsAudited
  BY PostsOfCall DEF Booked, RowsOK, TrailOK, Adjusts, AdjustmentsAudited
<1> QED
  BY <1>1, BookedAlways, PTL

\* auth.service.ts 42-72: of the registrations of one email one is granted funds at
\* most, and who registered has them, or entered while the assets were missing.
THEOREM GrantedOnce == Spec => []RegisteredIsGranted
<1>1. Booked => RegisteredIsGranted
  <2> SUFFICES ASSUME Booked, NEW u \in Users \ (Registered \cup {Bot}), Exists(u)
               PROVE  \E c \in Calls :
                        /\ Registers(c, u)
                        /\ Posts(c) = 1 \/ (call[c].pc = "done" /\ call[c].outcome = "ungranted")
                        /\ \A d \in Calls \ {c} : Registers(d, u) =>
                               Posts(d) = 0 /\ ~At(d, "register", "done")
    BY DEF RegisteredIsGranted
  <2>1. PICK c \in Calls : Enrolled(c) /\ UserOf(c) = u
    BY DEF Booked, GrantsOK
  <2>2. \A d \in Calls \ {c} : Registers(d, u) => ~Enrolled(d)
    BY <2>1 DEF Booked, GrantsOK, Registers
  <2>3. \A d \in Calls \ {c} : Registers(d, u) => ~Moved(d) /\ ~At(d, "register", "done")
    BY <2>2 DEF Booked, GrantsOK, Enrolled, Registers
  <2>4. \A d \in Calls : Posts(d) = IF Moved(d) THEN 1 ELSE 0
    BY PostsOfCall DEF Booked
  <2> QED
    BY <2>1, <2>3, <2>4 DEF Enrolled, Ungranted, Registers
<1> QED
  BY <1>1, BookedAlways, PTL
-----------------------------------------------------------------------------
(* Logins, two-factor settings and backup codes: what holds for calls that *)
(* did not overlap, whatever else runs next to them                        *)

\* Calls whose clients wait at the same time have met.
OpenOK == DOMAIN met = Calls /\ \A c, d \in Open : c # d => d \in met[c]

\* No two calls of S have met.
Alone(S) == \A c, d \in S : d \notin met[c]

LEMMA ProgressEnds ==
    ASSUME CallOK, StagesOK, NEW c \in Calls, CallStep(c), call[c].pc \in Progress
    PROVE  call'[c].pc \in Progress \cup {"done", "broken"}
<1>1. (FundsCall(c) \/ Break(c)) /\ input[c].kind = "withdraw"
  BY AuthPlaces, KindsAt DEF CallStep
<1>2. AdvanceWithdrawal(c) \/ Break(c)
  <2>1. WaitsFor(c) = {}
    BY DEF WaitsFor, At, Progress
  <2>2. ~FailTransaction(c)
    BY <2>1 DEF FailTransaction, Deadlocked
  <2> QED
    BY <1>1, <2>2 DEF FundsCall, Register, CreateUser, CommitWithoutGrant, CreateDeposit,
       ConfirmDeposit, CreateWithdrawal, WithdrawalVerified, Verified, CreateBalanceAdjustment,
       FindFirst, CreateFirst, FindSecond, CreateSecond, Debit, CreditAndCommit, Begin, At, Progress
<1>3. CASE AdvanceWithdrawal(c)
  BY <1>3 DEF AdvanceWithdrawal, StepAfter, Goto, CallOK, Progress
<1>4. CASE Break(c)
  BY <1>4, BreakShape
<1> QED
  BY <1>2, <1>3, <1>4

\* A step only adds to what has met.
LEMMA OpenStep ==
    ASSUME CallOK, StagesOK, OpenOK, [Next]_vars
    PROVE  OpenOK' /\ \A c \in Calls : met[c] \subseteq met'[c]
<1>1. ASSUME NEW c \in Calls, CallStep(c)
      PROVE  OpenOK' /\ \A d \in Calls : met[d] \subseteq met'[d]
  <2>1. Shaped(c)
    BY <1>1, StepShape
  <2>2. \A d \in Calls \ {c} : d \in Open' <=> d \in Open
    BY <2>1 DEF Shaped, Open, Running
  <2>3. CASE Begins(c)
    BY <2>2, <2>3 DEF Begins, OpenOK, Open, Running
  <2>4. CASE GoesOn(c)
    <3>1. c \in Open' => c \in Open
      BY <1>1, <2>1, <2>4, ProgressEnds DEF Shaped, GoesOn, Open, Running, Ends, Progress
    <3> QED
      BY <2>2, <2>4, <3>1 DEF GoesOn, OpenOK, Open, Running
  <2> QED
    BY <2>1, <2>3, <2>4 DEF Shaped
<1>2. CASE Restart
  <2>1. met' = met /\ Open' = {}
    BY <1>2, RestartCalls DEF Restart, Open, Running, Ends
  <2> QED
    BY <2>1 DEF OpenOK
<1>3. CASE Other
  <2>1. met' = met /\ Open' = Open
    BY <1>3, OtherCalls DEF Open, Running
  <2> QED
    BY <2>1 DEF OpenOK
<1> QED
  BY <1>1, <1>2, <1>3 DEF Next, Other

\* Two calls of S that are open are one when those of S have not met.
LEMMA AloneIsOne ==
    ASSUME OpenOK, NEW S, Alone(S), NEW c \in S, NEW d \in S, c \in Open, d \in Open
    PROVE  c = d
  BY DEF OpenOK, Alone

LEMMA VerifyingIsOpen ==
    ASSUME StagesOK, NEW c \in Calls, call[c].pc \in Verifying
    PROVE  c \in Open
  BY KindsAt DEF Open, Running, Ends, Verifying
-----------------------------------------------------------------------------
(* Failed logins *)

CountedOK(u) ==
    /\ ~Exists(u) => streak[u] = 0
    /\ Alone(LoginsOf(u)) =>
        /\ user[u].attempts = streak[u]
        /\ streak[u] \in Nat /\ streak[u] < MaxAttempts
        /\ \A c \in LoginsOf(u) : call[c].pc \in Verifying =>
                call[c].seen.attempts = user[u].attempts

LoginsOK == DOMAIN streak = Users /\ \A u \in Users : CountedOK(u)

\* What a call verifies a code against is the row that it read first.
LEMMA SeenKept ==
    ASSUME CallOK, StagesOK, NEW c \in Calls, CallStep(c), call'[c].pc \in Verifying
    PROVE  \/ call[c].pc = "new" /\ call'[c].seen = user[UserOf(c)] /\ user' = user
           \/ call[c].pc \in Verifying /\ call'[c].seen = call[c].seen
<1>1. CASE AuthCall(c)
  <2>1. CASE ReadCodes(c) \/ UseCode(c)
    BY <2>1 DEF ReadCodes, UseCode, Goto, CallOK, Verifying
  <2>2. CASE Login(c)
    BY <2>2 DEF Login, Keep, Begin, At, CallOK, Verifying
  <2>3. CASE DisableTwoFactor(c)
    BY <2>3 DEF DisableTwoFactor, Keep, Begin, At, CallOK, Verifying
  <2>4. CASE ConfirmTwoFactor(c) \/ UpdateUserStatus(c)
    <3>1. CASE ConfirmTwoFactor(c)
      BY <3>1 DEF ConfirmTwoFactor, Keep, CallOK, Verifying
    <3>2. CASE UpdateUserStatus(c)
      BY <3>2 DEF UpdateUserStatus, Keep, CallOK, Verifying
    <3> QED
      BY <2>4, <3>1, <3>2
  <2>5. CASE ~(\/ ReadCodes(c) \/ UseCode(c) \/ Login(c) \/ DisableTwoFactor(c)
               \/ ConfirmTwoFactor(c) \/ UpdateUserStatus(c))
    BY <1>1, <2>5 DEF AuthCall, RefuseCode, FailedAttempt, NeedsCode, LoginSucceeds, AuditLogin,
       Refresh, SetupTwoFactor, WriteSecret, EnableTwoFactor, RemoveTwoFactor, WriteStatus,
       Record, Goto, CallOK, Verifying
  <2> QED
    BY <2>1, <2>2, <2>3, <2>4, <2>5
<1>2. CASE FundsCall(c)
  <2>1. CASE CreateWithdrawal(c)
    BY <2>1 DEF CreateWithdrawal, Keep, Begin, At, CallOK, Verifying
  <2>2. CASE AdvanceWithdrawal(c)
    BY <2>2 DEF AdvanceWithdrawal, StepAfter, Goto, CallOK, Verifying
  <2>3. CASE \/ CreateFirst(c) \/ CreateSecond(c) \/ CreateUser(c) \/ CommitWithoutGrant(c)
             \/ Debit(c) \/ FailTransaction(c)
    BY <2>3 DEF CreateFirst, CreateSecond, CreateAccount, CreateUser, CommitWithoutGrant, Debit,
                FailTransaction, Abort, Goto, CallOK, Verifying
  <2>4. CASE FindFirst(c) \/ FindSecond(c) \/ CreditAndCommit(c)
    BY <2>4 DEF FindFirst, FindSecond, CreditAndCommit, Goto, CallOK, Verifying
  <2>5. CASE Register(c) \/ CreateDeposit(c) \/ ConfirmDeposit(c) \/ WithdrawalVerified(c)
             \/ CreateBalanceAdjustment(c)
    BY <2>5 DEF Register, CreateDeposit, ConfirmDeposit, WithdrawalVerified,
                CreateBalanceAdjustment, Goto, CallOK, Verifying
  <2> QED
    BY <1>2, <2>1, <2>2, <2>3, <2>4, <2>5 DEF FundsCall
<1>3. CASE Break(c)
  BY <1>3, BreakShape DEF Verifying
<1> QED
  BY <1>1, <1>2, <1>3 DEF CallStep

\* Attempts and streaks change by the end of a login, or start with a user.
Counts(c) == FailedAttempt(c) \/ LoginSucceeds(c)

LEMMA CountsKept ==
    ASSUME Inv, StagesOK, ExistenceOK, DOMAIN streak = Users, NEW c \in Calls, CallStep(c),
           ~Counts(c), NEW u \in Users
    PROVE  /\ streak' = streak
           /\ \/ user'[u].attempts = user[u].attempts
              \/ ~Exists(u) /\ user'[u].attempts = 0
<1>0. CallOK /\ InputOK /\ UsersOK /\ UserOf(c) \in Users
  BY Parties DEF Inv, ExistenceOK
<1>1. CASE AuthCall(c)
  <2>1. streak' = streak
    BY <1>1 DEF Counts, AuthCall, ReadCodes, UseCode, RefuseCode, Login, NeedsCode, AuditLogin,
       Refresh, SetupTwoFactor, WriteSecret, ConfirmTwoFactor, EnableTwoFactor,
       DisableTwoFactor, RemoveTwoFactor, UpdateUserStatus, WriteStatus, Record
  <2>2. CASE WriteSecret(c) \/ EnableTwoFactor(c) \/ RemoveTwoFactor(c) \/ WriteStatus(c)
    BY <1>0, <2>1, <2>2 DEF WriteSecret, EnableTwoFactor, RemoveTwoFactor, WriteStatus, UsersOK,
                            UserShape
  <2>3. CASE ~(WriteSecret(c) \/ EnableTwoFactor(c) \/ RemoveTwoFactor(c) \/ WriteStatus(c))
    <3>1. user' = user
      BY <1>1, <2>3 DEF Counts, AuthCall, ReadCodes, UseCode, RefuseCode, Login, NeedsCode,
         AuditLogin, Refresh, SetupTwoFactor, ConfirmTwoFactor, DisableTwoFactor,
         UpdateUserStatus, Record
    <3> QED
      BY <2>1, <3>1
  <2> QED
    BY <2>2, <2>3
<1>2. CASE FundsCall(c)
  <2>1. streak' = streak
    BY <1>2 DEF FundsCall, Register, CreateUser, CommitWithoutGrant, CreateDeposit, ConfirmDeposit,
       CreateWithdrawal, WithdrawalVerified, AdvanceWithdrawal, CreateBalanceAdjustment, FindFirst,
       CreateFirst, FindSecond, CreateSecond, Debit, CreditAndCommit, FailTransaction
  <2>2. CASE Creates(c) /\ UserOf(c) = u
    <3>1. ~Exists(u)
      BY <2>2 DEF ExistenceOK, EmailHeld, Creates, CreditAndCommit, CommitWithoutGrant, At,
                  Transacting
    <3>2. user' = [user EXCEPT ![u] = NewUser]
      BY <1>2, <2>2, FundsUser
    <3> QED
      BY <1>0, <2>1, <3>1, <3>2 DEF UsersOK, NewUser, NoUser
  <2>3. CASE ~(Creates(c) /\ UserOf(c) = u)
    <3>1. user'[u] = user[u]
      BY <1>0, <1>2, <2>3, FundsUser DEF UsersOK
    <3> QED
      BY <2>1, <3>1
  <2> QED
    BY <2>2, <2>3
<1>3. CASE Break(c)
  BY <1>0, <1>3, BreakShape
<1> QED
  BY <1>1, <1>2, <1>3 DEF CallStep

\* A login that counts has its user, and verifies until then.
LEMMA CountsWhere ==
    ASSUME Inv, StagesOK, ExistenceOK, NEW c \in Calls, Counts(c)
    PROVE  /\ input[c].kind = "login" /\ call[c].pc \in Verifying /\ call'[c].pc = "audit"
           /\ Exists(UserOf(c)) /\ UserOf(c) \in Users
<1>0. CallOK /\ InputOK /\ UserOf(c) \in Users
  BY Parties DEF Inv
<1>1. /\ input[c].kind = "login" /\ call[c].pc \in Verifying /\ call'[c].pc = "audit"
  BY <1>0 DEF Counts, FailedAttempt, LoginSucceeds, CodeRefused, Verified, At, CallOK, Verifying
<1>2. Exists(UserOf(c))
  BY <1>1 DEF ExistenceOK, KnownUser, Running, Ends, Verifying
<1> QED
  BY <1>0, <1>1, <1>2

LEMMA CountsStep ==
    ASSUME Inv, StagesOK, ExistenceOK, LoginsOK, NEW c \in Calls, Counts(c),
           CountedOK(UserOf(c))
    PROVE  LET u == UserOf(c) IN
           /\ \A v \in Users \ {u} : user'[v] = user[v] /\ streak'[v] = streak[v]
           /\ DOMAIN streak' = Users
           /\ Alone(LoginsOf(u)) => /\ user'[u].attempts = streak'[u]
                                    /\ streak'[u] \in Nat /\ streak'[u] < MaxAttempts
<1> DEFINE u == UserOf(c)
<1>0. /\ u \in Users /\ CallOK /\ UsersOK /\ DOMAIN streak = Users
      /\ input[c].kind = "login" /\ call[c].pc \in Verifying
  BY CountsWhere DEF Inv, ExistenceOK, LoginsOK
<1>1. c \in LoginsOf(u)
  BY <1>0 DEF LoginsOf
<1> HIDE DEF u
<1>2. CASE LoginSucceeds(c)
  BY <1>0, <1>2, AuthAssumption DEF LoginSucceeds, UsersOK, UserShape, u
<1>3. CASE FailedAttempt(c)
  <2> DEFINE attempts == AttemptsFrom(call[c].seen)
  <2>1. /\ user' = [user EXCEPT ![u].attempts = IF LocksAt(attempts) THEN 0 ELSE attempts,
                                ![u].locked = @ \/ LocksAt(attempts)]
        /\ streak' = [streak EXCEPT ![u] = IF LocksAt(attempts) THEN 0 ELSE @ + 1]
    BY <1>3 DEF FailedAttempt, u
  <2>2. /\ user'[u].attempts = (IF LocksAt(attempts) THEN 0 ELSE attempts)
        /\ streak'[u] = (IF LocksAt(attempts) THEN 0 ELSE streak[u] + 1)
        /\ DOMAIN streak' = Users
        /\ \A v \in Users \ {u} : user'[v] = user[v] /\ streak'[v] = streak[v]
    <3> HIDE DEF attempts
    <3> QED
      BY <1>0, <2>1 DEF UsersOK, UserShape
  <2>3. ASSUME Alone(LoginsOf(u))
        PROVE  attempts = streak[u] + 1 /\ streak[u] \in Nat
    BY <1>0, <1>1, <2>3 DEF CountedOK, AttemptsFrom, u
  <2> QED
    BY <2>2, <2>3, AuthAssumption DEF LocksAt, u
<1> QED
  BY <1>2, <1>3 DEF Counts

LEMMA SameCallsOf ==
    ASSUME input' = input, NEW u
    PROVE  LoginsOf(u)' = LoginsOf(u) /\ SettingsOf(u)' = SettingsOf(u)
  BY DEF LoginsOf, SettingsOf, UserOf

LEMMA AloneBefore ==
    ASSUME input' = input, \A c \in Calls : met[c] \subseteq met'[c], NEW u
    PROVE  /\ Alone(LoginsOf(u))' => Alone(LoginsOf(u))
           /\ Alone(SettingsOf(u))' => Alone(SettingsOf(u))
<1>1. LoginsOf(u)' = LoginsOf(u) /\ SettingsOf(u)' = SettingsOf(u)
  BY SameCallsOf
<1>2. LoginsOf(u) \subseteq Calls /\ SettingsOf(u) \subseteq Calls
  BY DEF LoginsOf, SettingsOf
<1> QED
  BY <1>1, <1>2 DEF Alone

LEMMA LoginsCallStep ==
    ASSUME Inv, StagesOK, RowsOK, ExistenceOK, OpenOK, LoginsOK, NEW c \in Calls, CallStep(c)
    PROVE  LoginsOK'
<1>0. CallOK /\ InputOK /\ DOMAIN streak = Users /\ \A d \in Calls : UserOf(d) \in Users
  BY Parties DEF Inv, LoginsOK
<1>1. /\ input' = input /\ \A d \in Calls \ {c} : call'[d] = call[d]
      /\ \A d \in Calls : met[d] \subseteq met'[d]
  BY <1>0, StepShape, OpenStep DEF Shaped, Next
<1>2. \A u \in Users : Exists(u) => Exists(u)'
  BY CallExists
<1>3. CASE Counts(c)
  <2>0. PICK u \in Users : u = UserOf(c)
    BY <1>0
  <2>1. /\ Exists(u) /\ input[c].kind = "login"
        /\ call[c].pc \in Verifying /\ call'[c].pc = "audit"
    BY <1>3, <2>0, CountsWhere
  <2>2. CountedOK(u)
    BY <2>1 DEF LoginsOK
  <2>3. /\ \A v \in Users \ {u} : user'[v] = user[v] /\ streak'[v] = streak[v]
        /\ DOMAIN streak' = Users
        /\ Alone(LoginsOf(u)) => /\ user'[u].attempts = streak'[u]
                                 /\ streak'[u] \in Nat /\ streak'[u] < MaxAttempts
    BY <1>3, <2>0, <2>2, CountsStep
  <2>4. CountedOK(u)'
    <3>1. Exists(u)'
      BY <1>2, <2>1
    <3>2. ASSUME Alone(LoginsOf(u))'
          PROVE  /\ Alone(LoginsOf(u))
                 /\ \A d \in LoginsOf(u) : call'[d].pc \notin Verifying
      <4>1. Alone(LoginsOf(u))
        BY <1>1, <3>2, AloneBefore
      <4>2. c \in LoginsOf(u) /\ LoginsOf(u) \subseteq Calls
        BY <2>0, <2>1 DEF LoginsOf
      <4>3. ASSUME NEW d \in LoginsOf(u), call'[d].pc \in Verifying PROVE FALSE
        <5>1. d # c /\ call'[d] = call[d] /\ d \in Calls
          BY <1>1, <2>1, <4>2, <4>3 DEF Verifying
        <5>2. d \in Open /\ c \in Open
          BY <2>1, <4>3, <5>1, VerifyingIsOpen
        <5> QED
          BY <4>1, <4>2, <5>1, <5>2, AloneIsOne
      <4> QED
        BY <4>1, <4>3
    <3>3. LoginsOf(u)' = LoginsOf(u)
      BY <1>1, SameCallsOf
    <3> QED
      BY <2>3, <3>1, <3>2, <3>3 DEF CountedOK
  <2>5. ASSUME NEW v \in Users \ {u} PROVE CountedOK(v)'
    <3>1. user'[v] = user[v] /\ streak'[v] = streak[v] /\ CountedOK(v)
      BY <2>3 DEF LoginsOK
    <3>2. \A d \in LoginsOf(v) : d # c
      BY <2>0 DEF LoginsOf
    <3>3. LoginsOf(v)' = LoginsOf(v) /\ LoginsOf(v) \subseteq Calls
      BY <1>1, SameCallsOf DEF LoginsOf
    <3>4. Alone(LoginsOf(v))' => Alone(LoginsOf(v))
      BY <1>1, AloneBefore
    <3> QED
      BY <1>1, <1>2, <3>1, <3>2, <3>3, <3>4 DEF CountedOK
  <2> QED
    BY <2>3, <2>4, <2>5 DEF LoginsOK
<1>4. CASE ~Counts(c)
  <2>1. streak' = streak
    <3>1. Bot \in Users
      BY AccountsAssumption
    <3> QED
      BY <1>0, <1>4, <3>1, CountsKept
  <2>2. ASSUME NEW u \in Users PROVE CountedOK(u)'
    <3>1. /\ CountedOK(u)
          /\ user'[u].attempts = user[u].attempts \/ (~Exists(u) /\ user'[u].attempts = 0)
      BY <1>0, <1>4, CountsKept DEF LoginsOK
    <3>2. LoginsOf(u)' = LoginsOf(u) /\ LoginsOf(u) \subseteq Calls
      BY <1>1, SameCallsOf DEF LoginsOf
    <3>3. Alone(LoginsOf(u))' => Alone(LoginsOf(u))
      BY <1>1, AloneBefore
    <3>4. ASSUME Alone(LoginsOf(u)) PROVE user'[u].attempts = streak'[u]
      BY <2>1, <3>1, <3>4 DEF CountedOK
    <3>5. ASSUME Alone(LoginsOf(u)), NEW d \in LoginsOf(u), call'[d].pc \in Verifying
          PROVE  call'[d].seen.attempts = user'[u].attempts
      <4>1. UserOf(d) = u /\ d \in Calls
        BY <3>5 DEF LoginsOf
      <4>2. CASE d = c /\ call[c].pc = "new" /\ call'[c].seen = user[UserOf(c)] /\ user' = user
        BY <4>1, <4>2
      <4>3. CASE call[d].pc \in Verifying /\ call'[d].seen = call[d].seen
        <5>1. Exists(u)
          BY <4>1, <4>3 DEF ExistenceOK, KnownUser, Running, Ends, Verifying, LoginsOf
        <5> QED
          BY <3>1, <3>5, <4>3, <5>1 DEF CountedOK
      <4> QED
        BY <1>0, <1>1, <3>5, <4>1, <4>2, <4>3, SeenKept
    <3> QED
      BY <1>2, <2>1, <3>1, <3>2, <3>3, <3>4, <3>5 DEF CountedOK
  <2> QED
    BY <1>0, <2>1, <2>2 DEF LoginsOK
<1> QED
  BY <1>3, <1>4

LEMMA LoginsStep ==
    ASSUME Inv, StagesOK, RowsOK, ExistenceOK, OpenOK, LoginsOK, [Next]_vars
    PROVE  LoginsOK'
<1>0. CallOK /\ UsersOK /\ InputOK
  BY DEF Inv, ExistenceOK
<1>1. CASE Restart
  <2>1. streak' = streak /\ input' = input /\ met' = met
    BY <1>1 DEF Restart
  <2>2. ASSUME NEW u \in Users PROVE CountedOK(u)'
    <3>1. CountedOK(u) /\ (Exists(u) => Exists(u)')
      BY <1>0, <1>1, RestartExists DEF LoginsOK
    <3>2. user'[u] = user[u] \/ (~Exists(u) /\ user'[u] = NewUser)
      BY <1>0, <1>1, AccountsAssumption DEF Restart, UsersOK
    <3>3. NewUser.attempts = 0
      BY DEF NewUser, NoUser
    <3>4. \A d \in Calls : call'[d].pc \notin Verifying
      BY <1>0, <1>1, RestartCalls DEF Ends, Verifying
    <3>5. LoginsOf(u)' = LoginsOf(u) /\ LoginsOf(u) \subseteq Calls
      BY <2>1, SameCallsOf DEF LoginsOf
    <3> QED
      BY <2>1, <3>1, <3>2, <3>3, <3>4, <3>5 DEF CountedOK, Alone
  <2> QED
    BY <2>1, <2>2 DEF LoginsOK
<1>2. CASE Other
  <2>1. UNCHANGED <<input, call, met, streak>>
    BY <1>2, OtherCalls DEF Other, LockoutEnds, LockFunds, ReleaseFunds, SeedAssets, vars, authVars
  <2>2. ASSUME NEW u \in Users PROVE user'[u].attempts = user[u].attempts /\ (Exists(u)' <=> Exists(u))
    <3>1. ASSUME NEW v \in Users, LockoutEnds(v) PROVE user'[u].attempts = user[u].attempts
      BY <1>0, <3>1 DEF LockoutEnds, UsersOK, UserShape
    <3> QED
      BY <1>0, <1>2, <3>1, OtherExists DEF Other, LockFunds, ReleaseFunds, SeedAssets, vars, authVars
  <2>3. ASSUME NEW u \in Users PROVE CountedOK(u)'
    <3>1. LoginsOf(u)' = LoginsOf(u) /\ CountedOK(u)
      BY <2>1, SameCallsOf DEF LoginsOK
    <3> QED
      BY <2>1, <2>2, <3>1 DEF CountedOK, Alone
  <2> QED
    BY <2>1, <2>3 DEF LoginsOK
<1> QED
  BY <1>1, <1>2, LoginsCallStep DEF Next, Other
-----------------------------------------------------------------------------
(* Two-factor settings *)

SettingOK(u) ==
    /\ ~Exists(u) => ~user[u].enabled
    /\ Alone(SettingsOf(u)) =>
        /\ user[u].enabled => user[u].secret \in ConfirmedSecrets(u)
        /\ \A i \in Issuers : OwnerOf(i) = u /\ backup[i] = "unused" => user[u].enabled
        /\ \A c \in SettingsOf(u) : At(c, "setup", "generated") => ~user[u].enabled
        /\ \A c \in SettingsOf(u) : At(c, "confirm", "hashed") =>
                ~user[u].enabled /\ user[u].secret = call[c].code.of

SettingsOK == DOMAIN backup = Issuers /\ \A u \in Users : SettingOK(u)

\* Steps that write the settings.
Sets(c) == WriteSecret(c) \/ EnableTwoFactor(c) \/ RemoveTwoFactor(c)

\* Others leave them to a user that exists, and renew no codes.
LEMMA UserSettingsKept ==
    ASSUME Inv, StagesOK, ExistenceOK, NEW c \in Calls, CallStep(c), ~Sets(c), NEW u \in Users
    PROVE  \/ user'[u].enabled = user[u].enabled /\ user'[u].secret = user[u].secret
           \/ ~Exists(u) /\ user'[u] = NewUser
<1>0. CallOK /\ InputOK /\ UsersOK /\ UserOf(c) \in Users
  BY Parties DEF Inv, ExistenceOK
<1>1. CASE AuthCall(c)
  <2>1. CASE FailedAttempt(c)
    BY <1>0, <2>1 DEF FailedAttempt, UsersOK, UserShape
  <2>2. CASE LoginSucceeds(c) \/ WriteStatus(c)
    BY <1>0, <2>2 DEF LoginSucceeds, WriteStatus, UsersOK, UserShape
  <2>3. CASE ~(FailedAttempt(c) \/ LoginSucceeds(c) \/ WriteStatus(c))
    <3>1. user' = user
      BY <1>1, <2>3 DEF Sets, AuthCall, ReadCodes, UseCode, RefuseCode, Login, NeedsCode,
         AuditLogin, Refresh, SetupTwoFactor, ConfirmTwoFactor, DisableTwoFactor,
         UpdateUserStatus, Record
    <3> QED
      BY <3>1
  <2> QED
    BY <2>1, <2>2, <2>3
<1>2. CASE FundsCall(c)
  <2>1. CASE Creates(c) /\ UserOf(c) = u
    <3>1. ~Exists(u)
      BY <2>1 DEF ExistenceOK, EmailHeld, Creates, CreditAndCommit, CommitWithoutGrant, At,
                  Transacting
    <3> QED
      BY <1>0, <1>2, <2>1, <3>1, FundsUser DEF UsersOK
  <2>2. CASE ~(Creates(c) /\ UserOf(c) = u)
    BY <1>0, <1>2, <2>2, FundsUser DEF UsersOK
  <2> QED
    BY <2>1, <2>2
<1>3. CASE Break(c)
  BY <1>0, <1>3, BreakShape
<1> QED
  BY <1>1, <1>2, <1>3 DEF CallStep

LEMMA FundsKeepCodes ==
    ASSUME NEW c \in Calls, FundsCall(c)
    PROVE  backup' = backup
  BY DEF FundsCall, Register, CreateUser, CommitWithoutGrant, CreateDeposit, ConfirmDeposit,
     CreateWithdrawal, WithdrawalVerified, AdvanceWithdrawal, CreateBalanceAdjustment, FindFirst,
     CreateFirst, FindSecond, CreateSecond, Debit, CreditAndCommit, FailTransaction

\* Codes become unused only when two-factor login is enabled; no row vanishes.
LEMMA CodesKept ==
    ASSUME DOMAIN backup = Issuers, NEW c \in Calls, CallStep(c)
    PROVE  /\ DOMAIN backup' = Issuers
           /\ \A i \in Issuers : backup'[i] = "unused" =>
                    backup[i] = "unused" \/ (EnableTwoFactor(c) /\ i = c)
           /\ \A i \in Issuers : backup[i] # "none" => backup'[i] # "none"
           /\ \A i \in Issuers : backup[i] = "none" =>
                    \/ backup'[i] = "none" \/ (EnableTwoFactor(c) /\ i = c)
                    \/ UseCode(c) /\ i = call[c].code.of
<1>1. CASE UseCode(c)
  BY <1>1 DEF UseCode
<1>2. CASE EnableTwoFactor(c)
  BY <1>2 DEF EnableTwoFactor
<1>3. CASE RemoveTwoFactor(c)
  BY <1>3 DEF RemoveTwoFactor, WithoutCodes
<1>4. CASE backup' = backup
  BY <1>4
<1>5. CASE AuthCall(c) /\ ~(UseCode(c) \/ EnableTwoFactor(c) \/ RemoveTwoFactor(c))
  <2>1. backup' = backup
    BY <1>5 DEF AuthCall, ReadCodes, RefuseCode, Login, FailedAttempt, NeedsCode, LoginSucceeds,
       AuditLogin, Refresh, SetupTwoFactor, WriteSecret, ConfirmTwoFactor, DisableTwoFactor,
       UpdateUserStatus, WriteStatus, Record
  <2> QED
    BY <1>4, <2>1
<1> QED
  BY <1>1, <1>2, <1>3, <1>4, <1>5, FundsKeepCodes DEF CallStep, Break

\* How a call comes to where it is about to write the settings.
LEMMA SettingStarts ==
    ASSUME CallOK, StagesOK, NEW c \in Calls, CallStep(c), input' = input
    PROVE  /\ At(c, "setup", "generated")' => user' = user /\ ~user[UserOf(c)].enabled
           /\ At(c, "confirm", "hashed")' =>
                /\ user' = user /\ ~user[UserOf(c)].enabled
                /\ call'[c].code.of = user[UserOf(c)].secret
<1>1. CASE input[c].kind \notin {"setup", "confirm"} \/ Break(c)
  BY <1>1, BreakShape DEF At
<1>2. CASE input[c].kind = "setup" /\ ~Break(c)
  <2>1. SetupTwoFactor(c) \/ WriteSecret(c)
    <3>1. AuthCall(c) /\ call[c].pc \notin Verifying
      BY <1>2, FundsPlaces, KindsAt DEF CallStep, FundKinds
    <3> QED
      BY <1>2, <3>1, KindsAt DEF AuthCall, ReadCodes, UseCode, RefuseCode, Login, FailedAttempt,
         CodeRefused, NeedsCode, LoginSucceeds, AuditLogin, Refresh, ConfirmTwoFactor,
         EnableTwoFactor, DisableTwoFactor, RemoveTwoFactor, UpdateUserStatus, WriteStatus,
         Record, Begin, At, Verifying
  <2>2. call'[c].pc = "generated" => user' = user /\ ~user[UserOf(c)].enabled
    BY <2>1 DEF SetupTwoFactor, WriteSecret, Goto, CallOK
  <2> QED
    BY <1>2, <2>2 DEF At
<1>3. CASE input[c].kind = "confirm" /\ ~Break(c)
  <2>1. ConfirmTwoFactor(c) \/ EnableTwoFactor(c)
    <3>1. AuthCall(c) /\ call[c].pc \notin Verifying
      BY <1>3, FundsPlaces, KindsAt DEF CallStep, FundKinds
    <3> QED
      BY <1>3, <3>1, KindsAt DEF AuthCall, ReadCodes, UseCode, RefuseCode, Login, FailedAttempt,
         CodeRefused, NeedsCode, LoginSucceeds, AuditLogin, Refresh, SetupTwoFactor,
         WriteSecret, DisableTwoFactor, RemoveTwoFactor, UpdateUserStatus, WriteStatus,
         Record, Begin, At, Verifying
  <2>2. call'[c].pc = "hashed" => user' = user /\ ~user[UserOf(c)].enabled
                                  /\ call'[c].code.of = user[UserOf(c)].secret
    <3>1. CASE EnableTwoFactor(c)
      BY <3>1 DEF EnableTwoFactor, Goto, CallOK
    <3>2. CASE ConfirmTwoFactor(c)
      <4>1. PICK code \in KnownCodes(UserOf(c)) :
                Keep(c, IF ~user[UserOf(c)].enabled /\ user[UserOf(c)].secret # "none"
                           /\ code = Code("totp", user[UserOf(c)].secret)
                        THEN "hashed" ELSE "refused", code)
        BY <3>2 DEF ConfirmTwoFactor
      <4>2. user' = user
        BY <3>2 DEF ConfirmTwoFactor
      <4> QED
        BY <4>1, <4>2 DEF Keep, CallOK, Code
    <3> QED
      BY <2>1, <3>1, <3>2
  <2> QED
    BY <1>3, <2>2 DEF At
<1> QED
  BY <1>1, <1>2, <1>3

\* A secret that was confirmed stays so.
LEMMA ConfirmedStay ==
    ASSUME CallOK, StagesOK, [Next]_vars, NEW u
    PROVE  ConfirmedSecrets(u) \subseteq ConfirmedSecrets(u)'
<1>1. ASSUME NEW d \in Calls, call[d].pc = "done" PROVE call'[d] = call[d]
  <2>1. ASSUME NEW c \in Calls, CallStep(c) PROVE call'[d] = call[d]
    BY <1>1, <2>1, StepShape DEF Shaped, Begins, GoesOn, Ends
  <2>2. CASE Restart
    BY <1>1, <2>2, RestartCalls DEF Running, Ends
  <2> QED
    BY <2>1, <2>2, OtherCalls DEF Next, Other
<1>2. input' = input
  BY StepShape, OtherCalls DEF Next, Shaped, Restart, Other
<1>3. SettingsOf(u)' = SettingsOf(u) /\ SettingsOf(u) \subseteq Calls
  BY <1>2, SameCallsOf DEF SettingsOf
<1>4. ASSUME NEW d \in SettingsOf(u), At(d, "confirm", "done")
      PROVE  At(d, "confirm", "done")' /\ call'[d].code.of = call[d].code.of
  BY <1>1, <1>2, <1>3, <1>4 DEF At
<1> QED
  BY <1>3, <1>4 DEF ConfirmedSecrets

LEMMA SettingsWriteStep ==
    ASSUME Inv, StagesOK, RowsOK, ExistenceOK, OpenOK, SettingsOK, NEW c \in Calls, CallStep(c),
           Sets(c)
    PROVE  SettingsOK'
<1>0. /\ CallOK /\ InputOK /\ UsersOK /\ \A d \in Calls : UserOf(d) \in Users
      /\ DOMAIN backup = Issuers
  BY Parties DEF Inv, ExistenceOK, SettingsOK
<1>1. /\ input' = input /\ \A d \in Calls \ {c} : call'[d] = call[d]
      /\ \A d \in Calls : met[d] \subseteq met'[d]
  BY <1>0, StepShape, OpenStep DEF Shaped, Next
<1>2. PICK u \in Users : u = UserOf(c)
  BY <1>0
<1>3. c \in SettingsOf(u) /\ c \in Open /\ Exists(u)
  <2>1. \/ At(c, "setup", "generated") \/ At(c, "confirm", "hashed")
        \/ input[c].kind = "disable" /\ call[c].pc \in Verifying
    BY DEF Sets, WriteSecret, EnableTwoFactor, RemoveTwoFactor, Verified, Verifying
  <2> QED
    BY <1>2, <2>1 DEF SettingsOf, Open, Running, Ends, At, Verifying, ExistenceOK, KnownUser
<1>4. Exists(u)' /\ \A v \in Users : Exists(v) => Exists(v)'
  BY <1>3, CallExists
<1>5. ASSUME NEW v PROVE /\ SettingsOf(v)' = SettingsOf(v) /\ SettingsOf(v) \subseteq Calls
                         /\ Alone(SettingsOf(v))' => Alone(SettingsOf(v))
                         /\ ConfirmedSecrets(v) \subseteq ConfirmedSecrets(v)'
  BY <1>0, <1>1, SameCallsOf, AloneBefore, ConfirmedStay DEF SettingsOf, Next
<1>6. \A i \in Issuers : OwnerOf(i)' = OwnerOf(i)
  BY <1>1 DEF OwnerOf
<1>7. \A d : \A kind, pc : d \in Calls \ {c} => (At(d, kind, pc)' <=> At(d, kind, pc))
  BY <1>1 DEF At
<1>8. ASSUME Alone(SettingsOf(u)), NEW d \in SettingsOf(u) \ {c}
      PROVE  ~At(d, "setup", "generated") /\ ~At(d, "confirm", "hashed")
  <2>1. d \notin Open /\ d \in Calls
    BY <1>3, <1>5, <1>8, AloneIsOne
  <2> QED
    BY <2>1 DEF Open, Running, Ends, At
<1>9. SettingOK(u) /\ DOMAIN backup' = Issuers
  BY <1>0, CodesKept DEF SettingsOK
<1>10. call'[c].pc = "done" /\ call'[c].code = call[c].code
  BY <1>0 DEF Sets, WriteSecret, EnableTwoFactor, RemoveTwoFactor, Goto, CallOK
<1>11. ASSUME NEW v \in Users \ {u} PROVE SettingOK(v)'
  <2>1. user'[v] = user[v] /\ SettingOK(v)
    BY <1>0, <1>2 DEF Sets, WriteSecret, EnableTwoFactor, RemoveTwoFactor, UsersOK, SettingsOK
  <2>2. \A i \in Issuers : OwnerOf(i) = v /\ backup'[i] = "unused" => backup[i] = "unused"
    <3>1. OwnerOf(c) = u
      BY <1>2, AuthAssumption DEF OwnerOf, UserOf
    <3> QED
      BY <1>0, <3>1, CodesKept
  <2>3. c \notin SettingsOf(v)
    BY <1>2 DEF SettingsOf
  <2> QED
    BY <1>1, <1>4, <1>5, <1>6, <1>7, <2>1, <2>2, <2>3 DEF SettingOK
<1>12. ASSUME Alone(SettingsOf(u)), NEW d \in SettingsOf(u)
       PROVE  ~At(d, "setup", "generated")' /\ ~At(d, "confirm", "hashed")'
  <2>1. CASE d = c
    BY <1>10, <2>1 DEF At
  <2>2. CASE d # c
    BY <1>5, <1>7, <1>8, <1>12, <2>2
  <2> QED
    BY <2>1, <2>2
<1>13. CASE WriteSecret(c)
  <2>1. /\ user'[u].enabled = user[u].enabled /\ backup' = backup
        /\ At(c, "setup", "generated")
    BY <1>0, <1>2, <1>13 DEF WriteSecret, UsersOK, UserShape
  <2>2. SettingOK(u)'
    BY <1>3, <1>4, <1>5, <1>6, <1>9, <1>12, <2>1 DEF SettingOK
  <2> QED
    BY <1>9, <1>11, <2>2 DEF SettingsOK
<1>14. CASE EnableTwoFactor(c)
  <2>1. /\ user'[u].enabled = TRUE /\ user'[u].secret = user[u].secret
        /\ At(c, "confirm", "hashed")
    BY <1>0, <1>2, <1>14 DEF EnableTwoFactor, UsersOK, UserShape
  <2>2. ASSUME Alone(SettingsOf(u)) PROVE user'[u].secret \in ConfirmedSecrets(u)'
    <3>1. user'[u].secret = call'[c].code.of
      BY <1>3, <1>9, <1>10, <2>1, <2>2 DEF SettingOK
    <3>2. c \in SettingsOf(u)' /\ At(c, "confirm", "done")'
      BY <1>1, <1>3, <1>5, <1>10, <2>1 DEF At
    <3> QED
      BY <3>1, <3>2 DEF ConfirmedSecrets
  <2>3. SettingOK(u)'
    BY <1>4, <1>5, <1>6, <1>12, <2>1, <2>2 DEF SettingOK
  <2> QED
    BY <1>9, <1>11, <2>3 DEF SettingsOK
<1>15. CASE RemoveTwoFactor(c)
  <2>1. /\ user'[u].enabled = FALSE /\ backup' = WithoutCodes(backup, u)
    BY <1>0, <1>2, <1>15 DEF RemoveTwoFactor, UsersOK, UserShape
  <2>2. \A i \in Issuers : OwnerOf(i) = u => backup'[i] # "unused"
    BY <2>1 DEF WithoutCodes
  <2>3. SettingOK(u)'
    BY <1>4, <1>5, <1>6, <1>12, <2>1, <2>2 DEF SettingOK
  <2> QED
    BY <1>9, <1>11, <2>3 DEF SettingsOK
<1> QED
  BY <1>13, <1>14, <1>15 DEF Sets

LEMMA SettingsReadStep ==
    ASSUME Inv, StagesOK, RowsOK, ExistenceOK, OpenOK, SettingsOK, NEW c \in Calls, CallStep(c),
           ~Sets(c)
    PROVE  SettingsOK'
<1>0. /\ CallOK /\ InputOK /\ UsersOK /\ \A d \in Calls : UserOf(d) \in Users
      /\ DOMAIN backup = Issuers
  BY Parties DEF Inv, ExistenceOK, SettingsOK
<1>1. /\ input' = input /\ \A d \in Calls \ {c} : call'[d] = call[d]
      /\ \A d \in Calls : met[d] \subseteq met'[d]
  BY <1>0, StepShape, OpenStep DEF Shaped, Next
<1>2. \A v \in Users : Exists(v) => Exists(v)'
  BY CallExists
<1>3. ASSUME NEW v PROVE /\ SettingsOf(v)' = SettingsOf(v) /\ SettingsOf(v) \subseteq Calls
                         /\ Alone(SettingsOf(v))' => Alone(SettingsOf(v))
                         /\ ConfirmedSecrets(v) \subseteq ConfirmedSecrets(v)'
  BY <1>0, <1>1, SameCallsOf, AloneBefore, ConfirmedStay DEF SettingsOf, Next
<1>4. \A i \in Issuers : OwnerOf(i)' = OwnerOf(i)
  BY <1>1 DEF OwnerOf
<1>5. /\ DOMAIN backup' = Issuers
      /\ \A i \in Issuers : backup'[i] = "unused" => backup[i] = "unused"
  BY <1>0, CodesKept DEF Sets
<1>6. ASSUME NEW u \in Users PROVE SettingOK(u)'
  <2>1. SettingOK(u)
    BY DEF SettingsOK
  <2>2. \/ user'[u].enabled = user[u].enabled /\ user'[u].secret = user[u].secret
        \/ ~Exists(u) /\ ~user'[u].enabled
    BY UserSettingsKept DEF NewUser, NoUser
  <2>3. ASSUME NEW d \in SettingsOf(u), At(d, "setup", "generated")', Alone(SettingsOf(u))
        PROVE  ~user'[u].enabled
    <3>1. d \in Calls /\ UserOf(d) = u
      BY <2>3 DEF SettingsOf
    <3>2. CASE d = c
      BY <1>0, <1>1, <2>3, <3>1, <3>2, SettingStarts
    <3>3. CASE d # c
      <4>1. At(d, "setup", "generated")
        BY <1>1, <2>3, <3>1, <3>3 DEF At
      <4>2. ~user[u].enabled
        BY <2>1, <2>3, <4>1 DEF SettingOK
      <4> QED
        BY <2>2, <4>2
    <3> QED
      BY <3>2, <3>3
  <2>4. ASSUME NEW d \in SettingsOf(u), At(d, "confirm", "hashed")', Alone(SettingsOf(u))
        PROVE  ~user'[u].enabled /\ user'[u].secret = call'[d].code.of
    <3>1. d \in Calls /\ UserOf(d) = u
      BY <2>4 DEF SettingsOf
    <3>2. CASE d = c
      BY <1>0, <1>1, <2>4, <3>1, <3>2, SettingStarts
    <3>3. CASE d # c
      <4>1. At(d, "confirm", "hashed") /\ call'[d] = call[d]
        BY <1>1, <2>4, <3>1, <3>3 DEF At
      <4>2. ~user[u].enabled /\ user[u].secret = call[d].code.of
        BY <2>1, <2>4, <4>1 DEF SettingOK
      <4>3. Exists(u)
        BY <3>1, <4>1 DEF ExistenceOK, KnownUser, Running, Ends, At
      <4> QED
        BY <2>2, <4>1, <4>2, <4>3
    <3> QED
      BY <3>2, <3>3
  <2>5. ~Exists(u)' => ~user'[u].enabled
    BY <1>2, <2>1, <2>2 DEF SettingOK
  <2>6. ASSUME Alone(SettingsOf(u))
        PROVE  /\ user'[u].enabled => user'[u].secret \in ConfirmedSecrets(u)'
               /\ \A i \in Issuers : OwnerOf(i) = u /\ backup'[i] = "unused" => user'[u].enabled
    BY <1>3, <1>5, <2>1, <2>2, <2>6 DEF SettingOK
  <2> QED
    BY <1>3, <1>4, <2>3, <2>4, <2>5, <2>6 DEF SettingOK
<1> QED
  BY <1>5, <1>6 DEF SettingsOK

LEMMA SettingsStep ==
    ASSUME Inv, StagesOK, RowsOK, ExistenceOK, OpenOK, SettingsOK, [Next]_vars
    PROVE  SettingsOK'
<1>0. CallOK /\ UsersOK /\ InputOK /\ DOMAIN backup = Issuers
  BY DEF Inv, ExistenceOK, SettingsOK
<1>1. ASSUME UNCHANGED <<input, met, backup>>, NEW u \in Users, SettingOK(u),
             Exists(u) => Exists(u)',
             \/ user'[u].enabled = user[u].enabled /\ user'[u].secret = user[u].secret
             \/ ~Exists(u) /\ ~user'[u].enabled,
             \A d \in Calls : call'[d] = call[d] \/ call'[d].pc = "lost"
      PROVE  SettingOK(u)'
  <2>1. /\ SettingsOf(u)' = SettingsOf(u) /\ SettingsOf(u) \subseteq Calls
        /\ Alone(SettingsOf(u))' <=> Alone(SettingsOf(u))
        /\ ConfirmedSecrets(u) \subseteq ConfirmedSecrets(u)'
    BY <1>0, <1>1, SameCallsOf, ConfirmedStay DEF SettingsOf, Alone
  <2>2. \A i \in Issuers : OwnerOf(i)' = OwnerOf(i)
    BY <1>1 DEF OwnerOf
  <2>3. \A d \in Calls : /\ At(d, "setup", "generated")' => At(d, "setup", "generated")
                         /\ At(d, "confirm", "hashed")' =>
                                At(d, "confirm", "hashed") /\ call'[d] = call[d]
    BY <1>1 DEF At
  <2>4. \A d \in SettingsOf(u) : At(d, "confirm", "hashed") => Exists(u)
    BY DEF SettingsOf, ExistenceOK, KnownUser, Running, Ends, At
  <2>5. ~Exists(u)' => ~user'[u].enabled
    BY <1>1 DEF SettingOK
  <2>6. ASSUME Alone(SettingsOf(u))
        PROVE  /\ user'[u].enabled => user'[u].secret \in ConfirmedSecrets(u)'
               /\ \A i \in Issuers : OwnerOf(i) = u /\ backup'[i] = "unused" => user'[u].enabled
               /\ \A d \in SettingsOf(u) : At(d, "setup", "generated")' => ~user'[u].enabled
    BY <1>1, <2>1, <2>3, <2>6 DEF SettingOK
  <2>7. ASSUME Alone(SettingsOf(u)), NEW d \in SettingsOf(u), At(d, "confirm", "hashed")'
        PROVE  ~user'[u].enabled /\ user'[u].secret = call'[d].code.of
    BY <1>1, <2>1, <2>3, <2>4, <2>7 DEF SettingOK
  <2> QED
    BY <2>1, <2>2, <2>5, <2>6, <2>7 DEF SettingOK
<1>2. CASE Restart
  <2>1. UNCHANGED <<input, met, backup>>
    BY <1>2 DEF Restart
  <2>2. ASSUME NEW u \in Users PROVE SettingOK(u)'
    <3>1. SettingOK(u) /\ (Exists(u) => Exists(u)')
      BY <1>0, <1>2, RestartExists DEF SettingsOK
    <3>2. user'[u] = user[u] \/ (~Exists(u) /\ user'[u] = NewUser)
      BY <1>0, <1>2, AccountsAssumption DEF Restart, UsersOK
    <3>3. ~NewUser.enabled
      BY DEF NewUser, NoUser
    <3>4. \A d \in Calls : call'[d] = call[d] \/ call'[d].pc = "lost"
      BY <1>0, <1>2, RestartCalls
    <3> QED
      BY <1>1, <2>1, <3>1, <3>2, <3>3, <3>4
  <2> QED
    BY <1>0, <2>1, <2>2 DEF SettingsOK
<1>3. CASE Other
  <2>1. UNCHANGED <<input, met, backup, call>>
    BY <1>3, OtherCalls
  <2>2. ASSUME NEW u \in Users PROVE SettingOK(u)'
    <3>1. user'[u].enabled = user[u].enabled /\ user'[u].secret = user[u].secret
      <4>1. ASSUME NEW v \in Users, LockoutEnds(v)
            PROVE  user'[u].enabled = user[u].enabled /\ user'[u].secret = user[u].secret
        BY <1>0, <4>1 DEF LockoutEnds, UsersOK, UserShape
      <4> QED
        BY <1>3, <4>1 DEF Other, LockFunds, ReleaseFunds, SeedAssets, vars, authVars
    <3>2. Exists(u)' <=> Exists(u)
      BY <1>0, <1>3, OtherExists
    <3> QED
      BY <1>1, <2>1, <3>1, <3>2 DEF SettingsOK
  <2> QED
    BY <1>0, <2>1, <2>2 DEF SettingsOK
<1> QED
  BY <1>2, <1>3, SettingsWriteStep, SettingsReadStep DEF Next, Other
-----------------------------------------------------------------------------
(* Backup codes *)

\* The call has typed the code of i and found it unused.
Holds(c, i) == call[c].code = Code("backup", i) /\ i \in call[c].unused

\* It is about to use it.
AboutToUse(c, i) == Holds(c, i) /\ call[c].pc = "matching"

CodesOK ==
    /\ DOMAIN backup = Issuers
    /\ \A c \in Calls : call[c].pc \in {"new", "verify"} => call[c].unused = {}
    /\ \A c \in Calls : input[c].kind = "confirm" /\ call[c].pc \in {"new", "hashed"} =>
            backup[c] = "none"
    /\ \A c \in Calls : \A i \in call[c].unused : i \in Issuers /\ backup[i] # "none"
    /\ \A c \in Calls : \A i \in Issuers : UsedBackup(c, i) => backup[i] # "unused"
    /\ \A c, d \in Calls : \A i \in Issuers :
            c # d /\ UsedBackup(c, i) /\ AboutToUse(d, i) => d \in met[c] /\ c \in met[d]
    /\ OneTimeCodes

\* What a call has typed and read, and where it has used it.
LEMMA CodeMoves ==
    ASSUME CallOK, StagesOK, NEW c \in Calls, CallStep(c)
    PROVE  /\ call[c].pc = "new" \/ call'[c].code = call[c].code
           /\ call'[c].unused = call[c].unused
              \/ (ReadCodes(c) /\ call'[c].unused = {i \in Issuers : OwnerOf(i) = UserOf(c)
                                                            /\ backup[i] = "unused"})
           /\ call[c].pc = "matching" => \/ UseCode(c) \/ call'[c].pc = "broken"
                                         \/ ~Matches(c) /\ call'[c].code = call[c].code
           /\ call'[c].pc = "matching" => ReadCodes(c)
           /\ call'[c].pc = "verify" => call[c].pc = "new"
<1>1. CASE AuthCall(c)
  <2>1. CASE ReadCodes(c) \/ UseCode(c) \/ RefuseCode(c)
    BY <2>1 DEF ReadCodes, UseCode, RefuseCode, CodeRefused, Goto, CallOK
  <2>2. CASE Login(c)
    BY <2>2 DEF Login, Keep, Begin, At, CallOK
  <2>3. CASE FailedAttempt(c) \/ NeedsCode(c) \/ LoginSucceeds(c) \/ AuditLogin(c)
    BY <2>3 DEF FailedAttempt, CodeRefused, NeedsCode, LoginSucceeds, AuditLogin, Verified, At,
                Goto, CallOK
  <2>4. CASE Refresh(c) \/ SetupTwoFactor(c) \/ WriteSecret(c) \/ EnableTwoFactor(c)
             \/ RemoveTwoFactor(c) \/ WriteStatus(c) \/ Record(c)
    BY <2>4 DEF Refresh, SetupTwoFactor, WriteSecret, EnableTwoFactor, RemoveTwoFactor,
                WriteStatus, Record, Verified, Begin, At, Goto, CallOK
  <2>5. CASE ConfirmTwoFactor(c)
    BY <2>5 DEF ConfirmTwoFactor, Keep, Begin, At, CallOK
  <2>6. CASE DisableTwoFactor(c)
    BY <2>6 DEF DisableTwoFactor, Keep, Begin, At, CallOK
  <2>7. CASE UpdateUserStatus(c)
    BY <2>7 DEF UpdateUserStatus, Keep, Begin, At, CallOK
  <2> QED
    BY <1>1, <2>1, <2>2, <2>3, <2>4, <2>5, <2>6, <2>7 DEF AuthCall
<1>2. CASE FundsCall(c)
  <2>1. CASE CreateWithdrawal(c)
    BY <2>1 DEF CreateWithdrawal, Keep, Begin, At, CallOK
  <2>2. CASE AdvanceWithdrawal(c)
    BY <2>2 DEF AdvanceWithdrawal, StepAfter, Goto, CallOK
  <2>3. CASE \/ CreateFirst(c) \/ CreateSecond(c) \/ CreateUser(c) \/ CommitWithoutGrant(c)
             \/ Debit(c)
    BY <2>3 DEF CreateFirst, CreateSecond, CreateAccount, CreateUser, CommitWithoutGrant, Debit,
                Abort, At, Goto, CallOK
  <2>4. CASE FindFirst(c) \/ FindSecond(c) \/ CreditAndCommit(c)
    BY <2>4 DEF FindFirst, FindSecond, CreditAndCommit, Goto, CallOK
  <2>5. CASE Register(c) \/ CreateDeposit(c) \/ ConfirmDeposit(c) \/ WithdrawalVerified(c)
             \/ CreateBalanceAdjustment(c)
    BY <2>5 DEF Register, CreateDeposit, ConfirmDeposit, WithdrawalVerified, Verified,
                CreateBalanceAdjustment, Begin, At, Goto, CallOK
  <2>6. CASE FailTransaction(c)
    <3>1. WaitsFor(c) # {}
      BY <2>6 DEF FailTransaction, Deadlocked
    <3>2. call[c].pc # "matching"
      BY <3>1 DEF WaitsFor, At
    <3> QED
      BY <2>6, <3>2 DEF FailTransaction, Abort, Goto, CallOK
  <2> QED
    BY <1>2, <2>1, <2>2, <2>3, <2>4, <2>5, <2>6 DEF FundsCall
<1>3. CASE Break(c)
  <2>1. call'[c] = [call[c] EXCEPT !.pc = "broken"] /\ c \in Running
    BY <1>3, BreakShape
  <2> QED
    BY <2>1 DEF CallOK, Running
<1> QED
  BY <1>1, <1>2, <1>3 DEF CallStep

\* A code is used by UseCode only, which marks it.
LEMMA NewlyUsed ==
    ASSUME CallOK, StagesOK, CodesOK, NEW c \in Calls, CallStep(c), NEW i, UsedBackup(c, i)'
    PROVE  \/ UsedBackup(c, i) /\ call[c].pc \notin {"new", "verify"}
           \/ AboutToUse(c, i) /\ UseCode(c) /\ backup'[i] # "unused"
<1>1. /\ call'[c].code = Code("backup", i) /\ i \in call'[c].unused
      /\ call'[c].pc \notin {"matching", "failed", "broken", "lost"}
  BY DEF UsedBackup
<1>2. call'[c].unused = call[c].unused
  <2>1. ReadCodes(c) => call'[c].pc = "matching"
    BY DEF ReadCodes, CallOK
  <2> QED
    BY <1>1, <2>1, CodeMoves
<1>3. call[c].pc \notin {"new", "verify"} /\ call'[c].code = call[c].code
  BY <1>1, <1>2, CodeMoves DEF CodesOK
<1>4. call[c].pc \notin Ends
  BY StepShape DEF Shaped, Begins, GoesOn, Ends
<1>5. CASE call[c].pc # "matching"
  BY <1>1, <1>2, <1>3, <1>4, <1>5 DEF UsedBackup, Ends
<1>6. CASE call[c].pc = "matching"
  <2>1. Holds(c, i)
    BY <1>1, <1>2, <1>3 DEF Holds
  <2>2. Matches(c) /\ i = call[c].code.of /\ i \in DOMAIN backup
    BY <2>1 DEF Holds, Matches, Code, CodesOK
  <2>3. UseCode(c)
    BY <1>1, <1>6, <2>2, CodeMoves
  <2>4. backup'[i] # "unused"
    BY <2>2, <2>3 DEF UseCode
  <2> QED
    BY <1>6, <2>1, <2>3, <2>4 DEF AboutToUse
<1> QED
  BY <1>5, <1>6

LEMMA CodesCallStep ==
    ASSUME CallOK, StagesOK, OpenOK, CodesOK, NEW c \in Calls, CallStep(c)
    PROVE  CodesOK'
<1>1. /\ input' = input /\ \A d \in Calls \ {c} : call'[d] = call[d]
      /\ \A d \in Calls : met[d] \subseteq met'[d]
      /\ call[c].pc \notin Ends
  BY StepShape, OpenStep DEF Shaped, Next, Begins, GoesOn, Ends
<1>2. /\ DOMAIN backup' = Issuers
      /\ \A i \in Issuers : backup'[i] = "unused" =>
                backup[i] = "unused" \/ (EnableTwoFactor(c) /\ i = c)
      /\ \A i \in Issuers : backup[i] # "none" => backup'[i] # "none"
      /\ \A i \in Issuers : backup[i] = "none" =>
                \/ backup'[i] = "none" \/ (EnableTwoFactor(c) /\ i = c)
                \/ UseCode(c) /\ i = call[c].code.of
  BY CodesKept DEF CodesOK
<1>3. \/ call'[c].unused = call[c].unused
      \/ /\ call[c].pc = "verify" /\ call'[c].pc = "matching"
         /\ \A i \in call'[c].unused : i \in Issuers /\ backup[i] = "unused"
  <2>1. ReadCodes(c) => call[c].pc = "verify" /\ call'[c].pc = "matching"
    BY DEF ReadCodes, CallOK
  <2> QED
    BY <2>1, CodeMoves
<1>4. \A d \in Calls : call'[d].pc \in {"new", "verify"} => call'[d].unused = {}
  <2>1. call'[c].pc # "new"
    BY StepShape DEF Shaped, StepsOf, Ends, Verifying, Transacting, Progress
  <2>2. call'[c].pc = "verify" => call[c].pc = "new"
    BY CodeMoves
  <2> QED
    BY <1>1, <1>3, <2>1, <2>2 DEF CodesOK
<1>5. \A d \in Calls : \A i \in call'[d].unused : i \in Issuers /\ backup'[i] # "none"
  <2>1. \A i \in call'[c].unused : i \in Issuers /\ backup[i] # "none"
    BY <1>3 DEF CodesOK
  <2> QED
    BY <1>1, <1>2, <2>1 DEF CodesOK
<1>6. ASSUME EnableTwoFactor(c)
      PROVE  backup[c] = "none" /\ call'[c].pc = "done"
  BY <1>6 DEF CodesOK, EnableTwoFactor, At, Goto, CallOK
<1>7. ASSUME NEW d \in Calls, input[d].kind = "confirm", call'[d].pc \in {"new", "hashed"}
      PROVE  backup'[d] = "none"
  <2>1. d \in Issuers
    BY DEF Issuers
  <2>2. call[d].pc \in {"new", "hashed"}
    BY <1>1, <1>7 DEF StagesOK, StepsOf
  <2>3. backup[d] = "none"
    BY <1>7, <2>2 DEF CodesOK
  <2>4. ~(EnableTwoFactor(c) /\ d = c)
    BY <1>6, <1>7
  <2>5. ~(UseCode(c) /\ d = call[c].code.of)
    BY <2>3 DEF UseCode, Matches, CodesOK
  <2> QED
    BY <1>2, <2>1, <2>3, <2>4, <2>5
<1>8. ASSUME NEW d \in Calls, NEW i, UsedBackup(d, i)'
      PROVE  \/ UsedBackup(d, i)
             \/ d = c /\ AboutToUse(c, i) /\ UseCode(c) /\ backup'[i] # "unused"
  <2>1. CASE d = c
    BY <1>8, <2>1, NewlyUsed
  <2>2. CASE d # c
    BY <1>1, <1>8, <2>2 DEF UsedBackup
  <2> QED
    BY <2>1, <2>2
<1>9. ASSUME NEW d \in Calls, NEW i \in Issuers, UsedBackup(d, i)'
      PROVE  backup'[i] # "unused"
  <2>1. CASE UsedBackup(d, i)
    <3>1. backup[i] \notin {"none", "unused"}
      BY <2>1 DEF UsedBackup, CodesOK
    <3> QED
      BY <1>2, <1>6, <3>1
  <2> QED
    BY <1>8, <1>9, <2>1
<1>10. ASSUME NEW d \in Calls, NEW i, AboutToUse(d, i)'
       PROVE  \/ AboutToUse(d, i)
              \/ d = c /\ i \in Issuers /\ backup[i] = "unused"
  <2>1. CASE d = c
    <3>1. ReadCodes(c)
      BY <1>10, <2>1, CodeMoves DEF AboutToUse
    <3>2. call[c].pc = "verify"
      BY <3>1 DEF ReadCodes
    <3> QED
      BY <1>3, <1>10, <2>1, <3>2 DEF AboutToUse, Holds, CodesOK
  <2>2. CASE d # c
    BY <1>1, <1>10, <2>2 DEF AboutToUse, Holds
  <2> QED
    BY <2>1, <2>2
<1>11. ASSUME NEW d \in Calls, NEW e \in Calls, d # e, NEW i \in Issuers,
              UsedBackup(d, i)', AboutToUse(e, i)'
       PROVE  e \in met'[d] /\ d \in met'[e]
  <2>1. CASE UsedBackup(d, i)
    <3>1. backup[i] # "unused"
      BY <2>1 DEF CodesOK
    <3>2. AboutToUse(e, i)
      BY <1>10, <1>11, <3>1
    <3> QED
      BY <1>1, <1>11, <2>1, <3>2 DEF CodesOK
  <2>2. CASE d = c /\ AboutToUse(c, i)
    <3>1. AboutToUse(e, i)
      BY <1>1, <1>11, <2>2 DEF AboutToUse, Holds
    <3>2. d \in Open /\ e \in Open
      BY <2>2, <3>1, VerifyingIsOpen DEF AboutToUse, Verifying
    <3> QED
      BY <1>1, <1>11, <3>2 DEF OpenOK
  <2> QED
    BY <1>8, <1>11, <2>1, <2>2
<1>12. ASSUME NEW d \in Calls, NEW e \in Calls, NEW i \in Issuers, d # e,
              UsedBackup(d, i)', UsedBackup(e, i)'
       PROVE  e \in met'[d]
  <2>1. CASE UsedBackup(d, i) /\ UsedBackup(e, i)
    BY <1>1, <1>12, <2>1 DEF CodesOK, OneTimeCodes
  <2>2. CASE UsedBackup(d, i) /\ AboutToUse(e, i)
    BY <1>1, <1>12, <2>2 DEF CodesOK
  <2>3. CASE AboutToUse(d, i) /\ UsedBackup(e, i)
    BY <1>1, <1>12, <2>3 DEF CodesOK
  <2> QED
    BY <1>8, <1>12, <2>1, <2>2, <2>3
<1>13. OneTimeCodes'
  BY <1>12 DEF OneTimeCodes
<1> QED
  BY <1>1, <1>2, <1>4, <1>5, <1>7, <1>9, <1>11, <1>13 DEF CodesOK

LEMMA CodesStep ==
    ASSUME CallOK, StagesOK, OpenOK, CodesOK, [Next]_vars
    PROVE  CodesOK'
<1>1. ASSUME UNCHANGED <<input, met, backup>>,
             \A d \in Calls : /\ call'[d].code = call[d].code /\ call'[d].unused = call[d].unused
                              /\ call'[d].pc \in {call[d].pc, "lost"}
      PROVE  CodesOK'
  <2>1. \A d \in Calls : \A i : /\ UsedBackup(d, i)' => UsedBackup(d, i)
                                /\ AboutToUse(d, i)' => AboutToUse(d, i)
    BY <1>1 DEF UsedBackup, AboutToUse, Holds
  <2>2. OneTimeCodes'
    BY <1>1, <2>1 DEF CodesOK, OneTimeCodes
  <2> QED
    BY <1>1, <2>1, <2>2 DEF CodesOK
<1>2. CASE Restart
  BY <1>1, <1>2, RestartCalls DEF Restart, CallOK
<1>3. CASE Other
  BY <1>1, <1>3, OtherCalls
<1> QED
  BY <1>2, <1>3, CodesCallStep DEF Next, Other
-----------------------------------------------------------------------------
(* All of it together *)

AuthBooked == Booked /\ OpenOK /\ LoginsOK /\ SettingsOK /\ CodesOK

LEMMA AuthBookedInit == Init => AuthBooked
<1> SUFFICES ASSUME Init PROVE AuthBooked
  OBVIOUS
<1>1. /\ user = [u \in Users |-> IF u \notin Registered THEN NoUser
                                 ELSE IF u \notin Protected THEN NewUser
                                 ELSE [NewUser EXCEPT !.enabled = TRUE, !.secret = u]]
      /\ backup = [i \in Issuers |-> IF i \in Protected THEN "unused" ELSE "none"]
      /\ call = [c \in Calls |-> Handler("new")]
      /\ met = [c \in Calls |-> {}]
      /\ streak = [u \in Users |-> 0]
  BY DEF Init, AuthInit
<1>2. \A c \in Calls : call[c].pc = "new" /\ call[c].unused = {}
  BY <1>1 DEF Handler
<1>3. OpenOK
  BY <1>1, <1>2 DEF OpenOK, Open, Running
<1>4. \A u \in Users : /\ user[u].attempts = 0
                       /\ u \notin Protected => ~user[u].enabled
                       /\ u \in Protected => Exists(u) /\ user[u].secret = u /\ user[u].enabled
  BY <1>1, AuthAssumption DEF NewUser, NoUser, Exists
<1>5. LoginsOK
  <2>1. \A u \in Users : \A c \in LoginsOf(u) : call[c].pc \notin Verifying
    BY <1>2 DEF LoginsOf, Verifying
  <2>2. DOMAIN streak = Users /\ \A u \in Users : streak[u] = 0
    BY <1>1
  <2>3. 0 \in Nat /\ 0 < MaxAttempts
    BY AuthAssumption
  <2> QED
    BY <1>4, <2>1, <2>2, <2>3 DEF LoginsOK, CountedOK
<1>6. SettingsOK
  <2>1. ASSUME NEW i \in Issuers, backup[i] = "unused" PROVE i \in Protected /\ OwnerOf(i) = i
    BY <1>1, <2>1, AuthAssumption DEF OwnerOf
  <2>2. \A u \in Users : \A c \in SettingsOf(u) : call[c].pc = "new"
    BY <1>2 DEF SettingsOf
  <2>3. \A u \in Users : user[u].enabled => user[u].secret \in ConfirmedSecrets(u)
    BY <1>4 DEF ConfirmedSecrets
  <2>4. ASSUME NEW u \in Users PROVE SettingOK(u)
    BY <1>4, <2>1, <2>2, <2>3, <2>4 DEF SettingOK, At
  <2> QED
    BY <1>1, <2>4 DEF SettingsOK
<1>7. CodesOK
  <2>1. \A c \in Calls : \A i : ~UsedBackup(c, i)
    BY <1>2 DEF UsedBackup
  <2>2. \A c \in Calls : backup[c] = "none"
    BY <1>1, AuthAssumption DEF Issuers
  <2> QED
    BY <1>1, <1>2, <2>1, <2>2 DEF CodesOK, OneTimeCodes
<1> QED
  BY <1>3, <1>5, <1>6, <1>7, BookedInit DEF AuthBooked

LEMMA AuthBookedStep == AuthBooked /\ [Next]_vars => AuthBooked'
<1> SUFFICES ASSUME AuthBooked, [Next]_vars PROVE AuthBooked'
  OBVIOUS
<1>1. /\ Booked /\ Inv /\ CallOK /\ StagesOK /\ RowsOK /\ ExistenceOK
      /\ OpenOK /\ LoginsOK /\ SettingsOK /\ CodesOK
  BY DEF AuthBooked, Booked, Inv
<1> QED
  BY <1>1, BookedStep, OpenStep, LoginsStep, SettingsStep, CodesStep DEF AuthBooked

LEMMA AuthBookedAlways == Spec => []AuthBooked
  BY AuthBookedInit, AuthBookedStep, PTL DEF Spec

\* auth.service.ts 199-213, schema.prisma 127-129: one backup code serves two
\* calls only if they overlapped, also across restarts and renewed codes.
THEOREM CodesServeOnce == Spec => []OneTimeCodes
<1>1. AuthBooked => OneTimeCodes
  BY DEF AuthBooked, CodesOK
<1> QED
  BY <1>1, AuthBookedAlways, PTL

\* auth.service.ts 260-279: no failed login of a user whose logins do not
\* overlap is missed, and the maximum of them locks the user.
THEOREM FailuresAreCounted == Spec => []EveryFailureCounted
<1>1. AuthBooked => EveryFailureCounted
  BY DEF AuthBooked, LoginsOK, CountedOK, Alone, EveryFailureCounted
<1> QED
  BY <1>1, AuthBookedAlways, PTL

\* auth.service.ts 123-184: the codes that a login demands are those of a secret
\* which was confirmed, and backup codes exist only while two-factor login is
\* on, for a user whose settings are changed by one call at a time.
THEOREM CodesDemandedWereConfirmed == Spec => []TwoFactorConsistent
<1>1. AuthBooked => TwoFactorConsistent
  BY DEF AuthBooked, SettingsOK, SettingOK, Alone, TwoFactorConsistent
<1> QED
  BY <1>1, AuthBookedAlways, PTL
=============================================================================
