----------------------------- MODULE MCAccounts -----------------------------
(***************************************************************************)
(* Small instances of Accounts: calls that get in each other's way.        *)
(***************************************************************************)
EXTENDS Accounts, TLC

CONSTANTS alice, bob, carol, bot, c1, c2, c3

Asks(kind, u, password, amount) ==
    [kind |-> kind, user |-> u, password |-> password, amount |-> amount]
Ask(kind, u) == Asks(kind, u, TRUE, 1)
Work(x, y, z) == c1 :> x @@ c2 :> y @@ c3 :> z

\* alice has two-factor codes, carol has yet to register, and bob and, mostly,
\* everybody own nothing of the asset before they are credited or deposit.
NoBalances == alice :> 0 @@ bob :> 0 @@ bot :> 0
Balances == alice :> 1 @@ bob :> 0 @@ bot :> 1

SettingWorkloads ==
    LET bad == Asks("login", bob, FALSE, 1)
        login == Ask("login", alice)
    IN  {Work(bad, bad, bad), Work(bad, bad, Ask("login", bob)),
         Work(login, Ask("withdraw", alice), Ask("disable", alice)),
         Work(login, login, Ask("suspend", alice)),
         Work(Ask("disable", alice), Ask("setup", alice), Ask("confirm", alice)),
         Work(Ask("setup", bob), Ask("confirm", bob), Ask("setup", bob)),
         Work(Ask("setup", bob), Ask("confirm", bob), Ask("disable", bob)),
         Work(Ask("setup", bob), Ask("confirm", bob), Ask("login", bob)),
         Work(Ask("suspend", bob), Ask("restore", bob), Ask("refresh", bob))}

\* One is credited with what several then want to spend, beside orders of bob.
FundWorkloads ==
    LET topUp == Ask("deposit", bob)
        withdraw == Ask("withdraw", bob)
    IN  {Work(Ask("register", carol), topUp, Ask("debit", bot)), Work(topUp, topUp, withdraw),
         Work(topUp, Ask("debit", bob), withdraw), Work(Ask("credit", bob), withdraw, withdraw),
         Work(Ask("credit", bob), Ask("debit", bob), withdraw)}

\* carol registers, perhaps twice at once, with and without the assets; the
\* others find them missing as well.
RegistrationWorkloads ==
    LET register == Ask("register", carol) IN
    {Work(register, register, Ask("credit", carol)), Work(register, Ask("deposit", bob), Ask("credit", bob)),
     Work(register, register, register), Work(register, Ask("deposit", carol), Ask("withdraw", carol))}

AccountWorkloads == SettingWorkloads \cup FundWorkloads \cup RegistrationWorkloads

\* Only registrations meet a database that is not seeded.
AccountsInit == Init /\ (listed \/ input \in RegistrationWorkloads)
AccountsSpec == AccountsInit /\ [][Next]_vars

\* One adjustment, and a user that waits for nobody.
AdjustmentWorkloads ==
    {Work(Ask("credit", alice), Ask("debit", alice), Ask("refresh", bob))}

\* bob holds nothing yet of the asset that he deposits twice.
DepositWorkloads ==
    {Work(Ask("deposit", bob), Ask("deposit", bob), Ask("refresh", alice))}
=============================================================================
