---------------------------- MODULE AdminSignIn ----------------------------
(* Password sign-in of one administrator: the failed-login counter and the    *)
(* lockout. Several attempts may be in flight: the account is read and the    *)
(* password verified before the transaction that locks the row and decides.   *)
EXTENDS Naturals, FiniteSets

CONSTANTS
    Attempts,         \* sign-in requests in flight at the same time
    MaxFailedLogins,  \* ADMIN_MAX_FAILED_LOGINS
    MaxTries          \* bound: attempts in one behaviour

ASSUME AdminSignInAssumption == MaxFailedLogins \in Nat \ {0} /\ MaxTries \in Nat

VARIABLES
    admin,     \* the admin_users row: status, failed_login_count, locked_until in the future
    attempts,  \* attempts in flight: the count read with the row, the password's verdict
    wrong,     \* wrong passwords refused since the last success or the end of a lockout
    submitted

adminVars == <<admin, attempts, wrong, submitted>>

NoAttempt == [state |-> "none", count |-> 0, ok |-> FALSE]

AdminSignInInit ==
    /\ admin = [status |-> "active", failures |-> 0, locked |-> FALSE]
    /\ attempts = [a \in Attempts |-> NoAttempt]
    /\ wrong = 0
    /\ submitted = 0

\* login() up to the verified password; an unknown or disabled account is refused here.
Verify(a, ok) ==
    /\ attempts[a] = NoAttempt
    /\ submitted < MaxTries
    /\ submitted' = submitted + 1
    /\ admin.status = "active"
    /\ attempts' = [attempts EXCEPT ![a] =
           [state |-> "verified", count |-> admin.failures, ok |-> ok]]
    /\ UNCHANGED <<admin, wrong>>

\* A wrong Failures: the count read before the password was verified.
FailuresStale(a) == attempts[a].count + 1

\* registerFailure() counts from the row as it is under the lock.
Failures(a) == admin.failures + 1

FailedRow(a) ==
    IF Failures(a) >= MaxFailedLogins
    THEN [admin EXCEPT !.failures = 0, !.locked = TRUE]
    ELSE [admin EXCEPT !.failures = Failures(a)]

\* The transaction: disabled meanwhile, locked, a wrong password (committed although the
\* request is refused), or a new session.
Decide(a) ==
    /\ attempts[a] # NoAttempt
    /\ LET refused == admin.status # "active" \/ admin.locked IN
         /\ admin' = CASE refused -> admin
                       [] ~refused /\ ~attempts[a].ok -> FailedRow(a)
                       [] OTHER -> [admin EXCEPT !.failures = 0]
         /\ wrong' = CASE refused -> wrong
                       [] ~refused /\ ~attempts[a].ok -> wrong + 1
                       [] OTHER -> 0
    /\ attempts' = [attempts EXCEPT ![a] = NoAttempt]
    /\ UNCHANGED submitted

\* ADMIN_LOCKOUT_MINUTES pass.
LockoutEnds ==
    /\ admin.locked
    /\ admin' = [admin EXCEPT !.locked = FALSE]
    /\ wrong' = 0
    /\ UNCHANGED <<attempts, submitted>>

SetStatus(status) ==
    /\ admin.status # status
    /\ admin' = [admin EXCEPT !.status = status]
    /\ UNCHANGED <<attempts, wrong, submitted>>

AdminSignInNext ==
    \/ \E a \in Attempts : Decide(a) \/ \E ok \in BOOLEAN : Verify(a, ok)
    \/ LockoutEnds
    \/ \E status \in {"active", "disabled"} : SetStatus(status)

-----------------------------------------------------------------------------
(* Properties *)

\* No wrong password goes uncounted, however many attempts are verified at the same time:
\* the count in the row is the number refused so far, and the account is locked exactly when
\* that number reaches the limit (admin-auth.service.ts: login, registerFailure).
NoFailureLost ==
    /\ wrong <= MaxFailedLogins
    /\ admin.locked <=> wrong = MaxFailedLogins
    /\ ~admin.locked => admin.failures = wrong

=============================================================================
