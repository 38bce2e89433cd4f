-------------------------------- MODULE Auth --------------------------------
(***************************************************************************)
(* AuthService: logins with lockout, two-factor settings and backup codes, *)
(* and the status of users that the admin sets.  A call is cut at each     *)
(* await after which it uses something it read before: the user row read   *)
(* first is in call[c].seen until the end, the unused backup codes in      *)
(* call[c].unused.  Accounts (module Accounts) composes this module with   *)
(* the calls that move funds.                                              *)
(***************************************************************************)
EXTENDS Integers, FiniteSets

CONSTANTS
    Users,          \* one per email address
    Registered,     \* the users that exist at the start
    Protected,      \* those of them that have confirmed two-factor codes
    Calls,          \* HTTP calls, each made at most once
    Workloads,      \* what the calls may ask: [kind, user, password, amount] each
    MaxAttempts     \* lockout.maxAttempts

AuthKinds == {"login", "refresh", "setup", "confirm", "disable", "suspend", "restore"}
FundKinds == {"register", "deposit", "withdraw", "credit", "debit"}

ASSUME AuthAssumption ==
    /\ Protected \subseteq Registered /\ Registered \subseteq Users
    /\ Users \cap Calls = {}
    /\ Workloads \subseteq [Calls -> [kind : AuthKinds \cup FundKinds, user : Users,
                                      password : BOOLEAN, amount : Nat \ {0}]]
    /\ MaxAttempts \in Nat \ {0}

VARIABLES
    user,       \* User rows: the columns that change
    backup,     \* TwoFactorBackupCode rows, by the call that generated them
    logins,     \* LoginAudit rows: [call, success]
    trail,      \* AuditLog rows, by the call that they record
    input,      \* what each call asks
    call,       \* the state of each call
    met,        \* history: the calls that each call has overlapped
    streak      \* history: failed logins since the last success or lockout

authVars == <<user, backup, logins, trail, input, call, met, streak>>
-----------------------------------------------------------------------------
(* Rows and calls *)

\* A secret, and a set of backup codes, is named by the call that generated it,
\* or by its user when it is older than the calls modelled here.
Issuers == Calls \cup Users
OwnerOf(i) == IF i \in Users THEN i ELSE input[i].user

UserRow == [status : {"NONE", "ACTIVE", "SUSPENDED"}, attempts : Nat,
            locked : BOOLEAN, enabled : BOOLEAN, secret : Issuers \cup {"none"}]
NoUser == [status |-> "NONE", attempts |-> 0, locked |-> FALSE,
           enabled |-> FALSE, secret |-> "none"]
NewUser == [NoUser EXCEPT !.status = "ACTIVE"]

\* What a client types: nothing, something wrong, the code an authenticator
\* shows for a secret, or a backup code.
Code(kind, of) == [kind |-> kind, of |-> of]
NoCode == Code("none", "none")
KnownCodes(u) ==
    {NoCode, Code("wrong", "none")}
    \cup {Code("totp", i) : i \in {i \in Issuers : OwnerOf(i) = u
            /\ (i \in Protected \/ (i \in Calls /\ input[i].kind = "setup"
                                    /\ call[i].pc = "done"))}}
    \cup {Code("backup", i) : i \in {i \in Issuers : OwnerOf(i) = u
            /\ (i \in Protected \/ (i \in Calls /\ input[i].kind = "confirm"
                                    /\ call[i].pc = "done"))}}

\* A call ends answered; failed, because of what another call did; broken, by a
\* statement that failed of itself; or lost in a crash.
Ends == {"done", "refused", "needsCode", "failed", "broken", "lost"}
Handler(pc) == [pc |-> pc, seen |-> NoUser, code |-> NoCode, unused |-> {},
                outcome |-> "none"]

At(c, kind, pc) == input[c].kind = kind /\ call[c].pc = pc
Running == {c \in Calls : call[c].pc \notin Ends \cup {"new"}}
\* Those whose client waits: not what a timer goes on with after the answer.
Open == {c \in Running : input[c].kind # "deposit"
                          /\ call[c].pc \notin {"PENDING", "APPROVED", "PROCESSING"}}
UserOf(c) == input[c].user

\* The call begins: it overlaps every call that is open.
Begin(c, kind) ==
    /\ At(c, kind, "new")
    /\ met' = [d \in Calls |-> met[d] \cup IF d = c THEN Open
                                           ELSE IF d \in Open THEN {c} ELSE {}]
Goto(c, pc) == call' = [call EXCEPT ![c].pc = pc]
Keep(c, pc, code) ==
    call' = [call EXCEPT ![c].pc = pc, ![c].seen = user[UserOf(c)], ![c].code = code]

Exists(u) == user[u].status # "NONE"
-----------------------------------------------------------------------------
(* verifyTwoFactorCode, after the row in call[c].seen was read *)

TotpValid(c) ==
    /\ call[c].code.kind = "totp"
    /\ call[c].seen.secret = call[c].code.of

ReadCodes(c) ==
    /\ call[c].pc = "verify"
    /\ input[c].kind \in {"login", "disable"} => input[c].password
    /\ call[c].seen.enabled /\ ~TotpValid(c)
    /\ input[c].kind = "login" => call[c].code # NoCode
    /\ call' = [call EXCEPT ![c].pc = "matching",
                    ![c].unused = {i \in Issuers : OwnerOf(i) = UserOf(c)
                                                   /\ backup[i] = "unused"}]
    /\ UNCHANGED <<user, backup, logins, trail, input, met, streak>>

Matches(c) == call[c].code.kind = "backup" /\ call[c].code.of \in call[c].unused

\* Variant: the code is compared, and not marked.
UseCodeUnmarked(c) ==
    /\ call[c].pc = "matching" /\ Matches(c)
    /\ Goto(c, IF backup[call[c].code.of] = "deleted" THEN "failed" ELSE "verified")
    /\ UNCHANGED <<user, backup, logins, trail, input, met, streak>>

\* The update is by id alone; it throws when the row is gone.
UseCode(c) ==
    LET i == call[c].code.of IN
    /\ call[c].pc = "matching" /\ Matches(c)
    /\ backup' = [backup EXCEPT ![i] = IF @ = "deleted" THEN @ ELSE "used"]
    /\ Goto(c, IF backup[i] = "deleted" THEN "failed" ELSE "verified")
    /\ UNCHANGED <<user, logins, trail, input, met, streak>>

\* A current code, a backup code, or no two-factor set-up at all.
Verified(c) ==
    \/ call[c].pc = "verified"
    \/ call[c].pc = "verify" /\ (TotpValid(c) \/ ~call[c].seen.enabled)
CodeRefused(c) == call[c].pc = "matching" /\ ~Matches(c)
-----------------------------------------------------------------------------
(* login *)

Login(c) ==
    LET row == user[UserOf(c)] IN
    /\ Begin(c, "login")
    /\ IF row.status # "ACTIVE" \/ row.locked
       THEN call' = [call EXCEPT ![c].pc = "audit", ![c].outcome = "refused"]
       ELSE \E code \in KnownCodes(UserOf(c)) : Keep(c, "verify", code)
    /\ UNCHANGED <<user, backup, logins, trail, input, streak>>

\* Variant: the comparison with the maximum is off by one.
LocksAtBeyond(attempts) == attempts > MaxAttempts

LocksAt(attempts) == attempts >= MaxAttempts

AttemptsFrom(seen) == seen.attempts + 1

\* registerFailedAttempt counts from the row read before the checks.
FailedAttempt(c) ==
    LET u == UserOf(c)
        attempts == AttemptsFrom(call[c].seen)
        locks == LocksAt(attempts)
    IN  /\ \/ At(c, "login", "verify") /\ ~input[c].password
           \/ input[c].kind = "login" /\ CodeRefused(c)
        /\ user' = [user EXCEPT ![u].attempts = IF locks THEN 0 ELSE attempts,
                                ![u].locked = @ \/ locks]
        /\ streak' = [streak EXCEPT ![u] = IF locks THEN 0 ELSE @ + 1]
        /\ call' = [call EXCEPT ![c].pc = "audit", ![c].outcome = "counted"]
        /\ UNCHANGED <<backup, logins, trail, input, met>>

\* The password was right and a code is missing: not counted, not audited.
NeedsCode(c) ==
    /\ At(c, "login", "verify") /\ input[c].password
    /\ call[c].seen.enabled /\ call[c].code = NoCode
    /\ Goto(c, "needsCode")
    /\ UNCHANGED <<user, backup, logins, trail, input, met, streak>>

LoginSucceeds(c) ==
    LET u == UserOf(c) IN
    /\ input[c].kind = "login" /\ input[c].password /\ Verified(c)
    /\ user' = [user EXCEPT ![u].attempts = 0, ![u].locked = FALSE]
    /\ streak' = [streak EXCEPT ![u] = 0]
    /\ call' = [call EXCEPT ![c].pc = "audit", ![c].outcome = "tokens"]
    /\ UNCHANGED <<backup, logins, trail, input, met>>

AuditLogin(c) ==
    /\ At(c, "login", "audit")
    /\ logins' = logins \cup {[call |-> c, success |-> call[c].outcome = "tokens"]}
    /\ Goto(c, IF call[c].outcome = "tokens" THEN "done" ELSE "refused")
    /\ UNCHANGED <<user, backup, trail, input, met, streak>>

\* lockedUntil passes.
LockoutEnds(u) ==
    /\ user[u].locked
    /\ user' = [user EXCEPT ![u].locked = FALSE]
    /\ UNCHANGED <<backup, logins, trail, input, call, met, streak>>

\* A refresh token is good as long as its user is active.
Refresh(c) ==
    /\ Begin(c, "refresh") /\ Exists(UserOf(c))
    /\ Goto(c, IF user[UserOf(c)].status = "ACTIVE" THEN "done" ELSE "refused")
    /\ UNCHANGED <<user, backup, logins, trail, input, streak>>
-----------------------------------------------------------------------------
(* Two-factor settings; an access token is not checked against the status *)

SetupTwoFactor(c) ==
    /\ Begin(c, "setup") /\ Exists(UserOf(c))
    /\ Goto(c, IF user[UserOf(c)].enabled THEN "refused" ELSE "generated")
    /\ UNCHANGED <<user, backup, logins, trail, input, streak>>

WriteSecret(c) ==
    /\ At(c, "setup", "generated")
    /\ user' = [user EXCEPT ![UserOf(c)].secret = c]
    /\ Goto(c, "done")
    /\ UNCHANGED <<backup, logins, trail, input, met, streak>>

ConfirmTwoFactor(c) ==
    LET row == user[UserOf(c)] IN
    /\ Begin(c, "confirm") /\ Exists(UserOf(c))
    /\ \E code \in KnownCodes(UserOf(c)) :
            Keep(c, IF ~row.enabled /\ row.secret # "none" /\ code = Code("totp", row.secret)
                    THEN "hashed" ELSE "refused", code)
    /\ UNCHANGED <<user, backup, logins, trail, input, streak>>

EnableTwoFactor(c) ==
    /\ At(c, "confirm", "hashed")
    /\ user' = [user EXCEPT ![UserOf(c)].enabled = TRUE]
    /\ backup' = [backup EXCEPT ![c] = "unused"]
    /\ Goto(c, "done")
    /\ UNCHANGED <<logins, trail, input, met, streak>>

DisableTwoFactor(c) ==
    /\ Begin(c, "disable") /\ Exists(UserOf(c))
    /\ \E code \in KnownCodes(UserOf(c)) \ {NoCode} :
            Keep(c, IF user[UserOf(c)].enabled /\ input[c].password THEN "verify"
                    ELSE "refused", code)
    /\ UNCHANGED <<user, backup, logins, trail, input, streak>>

\* Variant: the codes are left behind.
Forgotten(codes, u) == codes

\* deleteMany: the codes that exist now, not those the call has read.
WithoutCodes(codes, u) ==
    [i \in Issuers |-> IF OwnerOf(i) = u /\ codes[i] # "none" THEN "deleted" ELSE codes[i]]

RemoveTwoFactor(c) ==
    /\ input[c].kind = "disable" /\ Verified(c)
    /\ user' = [user EXCEPT ![UserOf(c)].enabled = FALSE, ![UserOf(c)].secret = "none"]
    /\ backup' = WithoutCodes(backup, UserOf(c))
    /\ Goto(c, "done")
    /\ UNCHANGED <<logins, trail, input, met, streak>>

\* A refused code ends a call that is not a login; verifyCodeForUser is the
\* first step of a withdrawal.
RefuseCode(c) ==
    /\ input[c].kind \in {"disable", "withdraw"} /\ CodeRefused(c)
    /\ Goto(c, "refused")
    /\ UNCHANGED <<user, backup, logins, trail, input, met, streak>>
-----------------------------------------------------------------------------
(* The admin's updateUserStatus: read, write, then record *)

StatusOf(c) == IF input[c].kind = "suspend" THEN "SUSPENDED" ELSE "ACTIVE"

UpdateUserStatus(c) ==
    /\ Begin(c, input[c].kind) /\ input[c].kind \in {"suspend", "restore"}
    /\ Exists(UserOf(c))
    /\ Keep(c, "write", NoCode)
    /\ UNCHANGED <<user, backup, logins, trail, input, streak>>

WriteStatus(c) ==
    /\ call[c].pc = "write"
    /\ user' = [user EXCEPT ![UserOf(c)].status = StatusOf(c)]
    /\ Goto(c, "record")
    /\ UNCHANGED <<backup, logins, trail, input, met, streak>>

\* AuditService.record, after the change it is about has been committed.  It may
\* also throw, like any statement: then the call breaks here (Funds, Break).
Record(c) ==
    /\ call[c].pc = "record"
    /\ trail' = trail \cup {c}
    /\ Goto(c, "done")
    /\ UNCHANGED <<user, backup, logins, input, met, streak>>
-----------------------------------------------------------------------------
AuthInit ==
    /\ user = [u \in Users |-> IF u \notin Registered THEN NoUser
                               ELSE IF u \notin Protected THEN NewUser
                               ELSE [NewUser EXCEPT !.enabled = TRUE, !.secret = u]]
    /\ input \in Workloads
    /\ backup = [i \in Issuers |-> IF i \in Protected THEN "unused" ELSE "none"]
    /\ logins = {} /\ trail = {}
    /\ call = [c \in Calls |-> Handler("new")]
    /\ met = [c \in Calls |-> {}]
    /\ streak = [u \in Users |-> 0]

AuthCall(c) ==
    \/ ReadCodes(c) \/ UseCode(c) \/ RefuseCode(c)
    \/ Login(c) \/ FailedAttempt(c) \/ NeedsCode(c) \/ LoginSucceeds(c) \/ AuditLogin(c)
    \/ Refresh(c)
    \/ SetupTwoFactor(c) \/ WriteSecret(c)
    \/ ConfirmTwoFactor(c) \/ EnableTwoFactor(c)
    \/ DisableTwoFactor(c) \/ RemoveTwoFactor(c)
    \/ UpdateUserStatus(c) \/ WriteStatus(c) \/ Record(c)
=============================================================================
