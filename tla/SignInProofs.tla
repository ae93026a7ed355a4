---------------------------- MODULE SignInProofs ----------------------------
(* Who may act and as whom, for any number of attempts, requests in flight    *)
(* and sanctions: an administrator's lockout, a member's phone code, and the  *)
(* agreement of a member's account with its sanctions.                        *)
EXTENDS AdminSignIn, PhoneSignIn, Accounts, SequenceTheorems, FiniteSetTheorems, TLAPS

-----------------------------------------------------------------------------
(* The administrator's lockout *)

AdminSignInSpec == AdminSignInInit /\ [][AdminSignInNext]_adminVars

\* NoFailureLost is inductive once the row and the count have their types and the write that
\* locks the account is known to reset the counter: after the lockout counting starts at zero.
LockoutInv ==
    /\ admin \in [status: {"active", "disabled"}, failures: Nat, locked: BOOLEAN]
    /\ wrong \in Nat
    /\ admin.locked => admin.failures = 0
    /\ NoFailureLost

\* A wrong password refused by an account that is not locked: the row's next state counts it.
LEMMA FailureCounted ==
    ASSUME LockoutInv, ~admin.locked, NEW a,
           admin' = FailedRow(a), wrong' = wrong + 1
    PROVE  LockoutInv'
<1> USE AdminSignInAssumption DEF LockoutInv, NoFailureLost
<1>1. admin.failures = wrong /\ wrong < MaxFailedLogins
  OBVIOUS
<1>2. CASE Failures(a) >= MaxFailedLogins
  <2>1. admin' = [admin EXCEPT !.failures = 0, !.locked = TRUE]
    BY <1>2 DEF FailedRow
  <2>2. wrong' = MaxFailedLogins
    BY <1>1, <1>2 DEF Failures
  <2>3. /\ admin' \in [status: {"active", "disabled"}, failures: Nat, locked: BOOLEAN]
        /\ admin'.locked /\ admin'.failures = 0
    <3>1. admin' = [status |-> admin.status, failures |-> 0, locked |-> TRUE]
      BY <2>1
    <3> QED
      BY <3>1
  <2> QED
    BY <2>2, <2>3
<1>3. CASE ~(Failures(a) >= MaxFailedLogins)
  <2>1. admin' = [admin EXCEPT !.failures = Failures(a)]
    BY <1>3 DEF FailedRow
  <2>2. Failures(a) = wrong' /\ wrong' < MaxFailedLogins
    BY <1>1, <1>3 DEF Failures
  <2>3. /\ admin' \in [status: {"active", "disabled"}, failures: Nat, locked: BOOLEAN]
        /\ admin'.locked = admin.locked /\ admin'.failures = wrong'
    BY <2>1, <2>2
  <2> QED
    BY <2>2, <2>3
<1> QED
  BY <1>2, <1>3

\* login()'s transaction decides an attempt, whatever was read before the password was verified.
LEMMA DecideKeepsCount ==
    ASSUME LockoutInv, NEW a \in Attempts, Decide(a)
    PROVE  LockoutInv'
<1> DEFINE refused == admin.status # "active" \/ admin.locked
<1>1. CASE refused
  <2>1. admin' = admin /\ wrong' = wrong
    BY <1>1 DEF Decide
  <2> QED
    BY <2>1 DEF LockoutInv, NoFailureLost
<1>2. CASE ~refused /\ ~attempts[a].ok
  <2>1. admin' = FailedRow(a) /\ wrong' = wrong + 1
    BY <1>2 DEF Decide
  <2> QED
    BY <1>2, <2>1, FailureCounted
<1>3. CASE ~refused /\ attempts[a].ok
  <2>1. admin' = [admin EXCEPT !.failures = 0] /\ wrong' = 0
    BY <1>3 DEF Decide
  <2> QED
    BY <1>3, <2>1, AdminSignInAssumption DEF LockoutInv, NoFailureLost
<1> QED
  BY <1>1, <1>2, <1>3

\* No wrong password goes uncounted and the account is locked exactly at the limit, however
\* many attempts of an administrator are verified at the same time (admin-auth.service.ts:
\* login, registerFailure).
THEOREM FailuresAllCounted == AdminSignInSpec => []NoFailureLost
<1>1. AdminSignInInit => LockoutInv
  BY AdminSignInAssumption DEF AdminSignInInit, LockoutInv, NoFailureLost
<1>2. LockoutInv /\ [AdminSignInNext]_adminVars => LockoutInv'
  <2> SUFFICES ASSUME LockoutInv, [AdminSignInNext]_adminVars
               PROVE  LockoutInv'
    OBVIOUS
  <2>1. ASSUME NEW a \in Attempts, Decide(a)
        PROVE  LockoutInv'
    BY <2>1, DecideKeepsCount
  <2>2. ASSUME NEW a \in Attempts, NEW ok \in BOOLEAN, Verify(a, ok)
        PROVE  LockoutInv'
    BY <2>2 DEF Verify, LockoutInv, NoFailureLost
  <2>3. CASE LockoutEnds
    <3>1. admin' = [status |-> admin.status, failures |-> 0, locked |-> FALSE] /\ wrong' = 0
      BY <2>3 DEF LockoutEnds, LockoutInv
    <3>2. /\ admin' \in [status: {"active", "disabled"}, failures: Nat, locked: BOOLEAN]
          /\ ~admin'.locked /\ admin'.failures = 0
      BY <3>1 DEF LockoutInv
    <3> QED
      BY <3>1, <3>2, AdminSignInAssumption DEF LockoutInv, NoFailureLost
  <2>4. ASSUME NEW status \in {"active", "disabled"}, SetStatus(status)
        PROVE  LockoutInv'
    BY <2>4 DEF SetStatus, LockoutInv, NoFailureLost
  <2>5. CASE UNCHANGED adminVars
    BY <2>5 DEF adminVars, LockoutInv, NoFailureLost
  <2> QED
    BY <2>1, <2>2, <2>3, <2>4, <2>5 DEF AdminSignInNext
<1>3. LockoutInv => NoFailureLost
  BY DEF LockoutInv
<1> QED
  BY <1>1, <1>2, <1>3, PTL DEF AdminSignInSpec

-----------------------------------------------------------------------------
(* The phone code *)

Numbers == Phones \cup {NoPhone}

Sending == [phone: Numbers, step: {"none", "create", "send"}, opens: BOOLEAN]
Check == [at: {"none", "asked", "accepted", "token"}, code: Nat, sent: Nat, user: Numbers, mine: BOOLEAN]
Answer == [code: Nat, user: Numbers]

PhoneTyped ==
    /\ codes \in Seq(Numbers)
    /\ pending # 0 => pending \in DOMAIN codes
    /\ sending \in Sending
    /\ checks \in [Checks -> Check]
    /\ confirmed \in Answer

\* What is being checked was sent, and what is kept is the user of the code it is kept for.
CodesKnown ==
    /\ \A i \in Checks : checks[i].at # "none" => checks[i].code \in DOMAIN codes
    /\ confirmed.code # 0 =>
          confirmed.code \in DOMAIN codes /\ confirmed.user = codes[confirmed.code]

PhoneInv == PhoneTyped /\ CodesKnown /\ TokenOfEnteredCode

LEMMA RequestTyped ==
  ASSUME NEW p \in Numbers, NEW opens \in BOOLEAN, sending \in Sending, RequestCode(p, opens)
  PROVE  sending' \in Sending
BY DEF RequestCode, Sending

\* Steps that leave the codes, and what is checked and kept, alone.
LEMMA CodesLeftAlone ==
  ASSUME PhoneInv, UNCHANGED <<codes, checks>>, confirmed' \in {confirmed, NoneKept},
         pending' \in {pending, 0}, sending' \in Sending
  PROVE  PhoneInv'
BY DEF PhoneInv, PhoneTyped, CodesKnown, TokenOfEnteredCode, NoneKept, Answer, Numbers

\* The token that is posted belongs to the number whose code was entered, for any numbers and
\* any submissions in flight, whatever pages are left and whatever answers come late or are lost.
THEOREM TokensOfEnteredCodes == PhoneSpec => []TokenOfEnteredCode
<1>1. PhoneInit => PhoneInv
  BY DEF PhoneInit, PhoneInv, PhoneTyped, CodesKnown, TokenOfEnteredCode, NotSending, NoneKept,
         NoCheck, Sending, Check, Answer, Numbers
<1>2. PhoneInv /\ [PhoneNext]_phoneVars => PhoneInv'
  <2> SUFFICES ASSUME PhoneInv, [PhoneNext]_phoneVars PROVE PhoneInv'
    OBVIOUS
  <2>0. PhoneTyped /\ CodesKnown /\ TokenOfEnteredCode
    BY DEF PhoneInv
  <2>1. ASSUME NEW p \in Phones, Submit(p) PROVE PhoneInv'
    <3>1. sending' \in Sending
      BY <2>0, <2>1, RequestTyped DEF Submit, PhoneTyped, Numbers
    <3> QED BY <2>1, <3>1, CodesLeftAlone DEF Submit
  <2>2. CASE Resend
    <3>1. codes[pending] \in Numbers
      BY <2>0, <2>2 DEF Resend, PhoneTyped
    <3>2. sending' \in Sending
      BY <2>0, <2>2, <3>1, RequestTyped DEF Resend, PhoneTyped
    <3> QED BY <2>2, <3>2, CodesLeftAlone DEF Resend
  <2>3. CASE VerifierReady \/ SendFails \/ VerifierExpires \/ LeaveAndReturn \/ UNCHANGED phoneVars
    <3>1. sending' \in Sending
      <4>1. NotSending \in Sending /\ [sending EXCEPT !.step = "send"] \in Sending
        BY <2>0 DEF PhoneTyped, Sending, NotSending, Numbers
      <4>2. sending' \in {sending, NotSending, [sending EXCEPT !.step = "send"]}
        BY <2>3 DEF VerifierReady, SendFails, VerifierExpires, LeaveAndReturn, phoneVars
      <4> QED BY <2>0, <4>1, <4>2 DEF PhoneTyped
    <3> QED
      BY <2>3, <3>1, CodesLeftAlone
      DEF VerifierReady, SendFails, VerifierExpires, LeaveAndReturn, Reset, phoneVars
  <2>4. CASE CodeSent
    <3>1. /\ codes' \in Seq(Numbers) /\ pending' \in DOMAIN codes' /\ DOMAIN codes \subseteq DOMAIN codes'
          /\ \A c \in DOMAIN codes : codes'[c] = codes[c]
      BY <2>0, <2>4 DEF CodeSent, PhoneTyped, Sending
    <3>2. UNCHANGED checks /\ confirmed' = NoneKept /\ sending' = NotSending
      BY <2>4 DEF CodeSent
    <3> QED
      BY <2>0, <3>1, <3>2
      DEF PhoneInv, PhoneTyped, CodesKnown, TokenOfEnteredCode, NoneKept, NotSending, Sending, Answer, Numbers
  <2>5. CASE BackToLogin
    <3>1. /\ \A i \in Checks : /\ checks'[i] \in Check
                               /\ checks'[i].at = checks[i].at /\ checks'[i].code = checks[i].code
                               /\ checks'[i].user = checks[i].user
          /\ checks' \in [Checks -> Check]
      BY <2>0, <2>5 DEF BackToLogin, PhoneTyped, Check
    <3> QED
      BY <2>0, <2>5, <3>1
      DEF BackToLogin, Reset, PhoneInv, PhoneTyped, CodesKnown, TokenOfEnteredCode, NoneKept, Answer, Numbers
  <2>6. ASSUME NEW i \in Checks, NEW c \in DOMAIN codes, SubmitCode(i, c) PROVE PhoneInv'
    <3>1. c \in Nat /\ c # 0 /\ pending \in Nat
      BY <2>0, <2>6 DEF SubmitCode, PhoneTyped
    <3> DEFINE h == [at |-> IF KeptFor(c) THEN "token" ELSE "asked", code |-> c, sent |-> pending,
                     user |-> IF KeptFor(c) THEN confirmed.user ELSE NoPhone, mine |-> TRUE]
    <3>2. h \in Check /\ h.at # "none" /\ h.code = c /\ (h.at = "token" => h.user = codes[c])
      BY <2>0, <3>1 DEF PhoneTyped, CodesKnown, KeptFor, Check, Answer, Numbers
    <3>3. checks' = [checks EXCEPT ![i] = h] /\ UNCHANGED <<codes, pending, sending, confirmed>>
      BY <2>6 DEF SubmitCode
    <3> HIDE DEF h
    <3> QED BY <2>0, <3>2, <3>3 DEF PhoneInv, PhoneTyped, CodesKnown, TokenOfEnteredCode
  <2>7. ASSUME NEW i \in Checks, FirebaseAccepts(i) PROVE PhoneInv'
    BY <2>0, <2>7
    DEF FirebaseAccepts, PhoneInv, PhoneTyped, CodesKnown, TokenOfEnteredCode, Check
  <2>8. ASSUME NEW i \in Checks, AcceptedArrives(i) PROVE PhoneInv'
    <3>1. checks[i].code \in DOMAIN codes /\ checks[i].code \in Nat /\ codes[checks[i].code] \in Numbers
      BY <2>0, <2>8 DEF AcceptedArrives, PhoneTyped, CodesKnown, Check
    <3> QED
      BY <2>0, <2>8, <3>1
      DEF AcceptedArrives, PhoneInv, PhoneTyped, CodesKnown, TokenOfEnteredCode, Check, Answer
  <2>9. ASSUME NEW i \in Checks, CheckFails(i) PROVE PhoneInv'
    BY <2>0, <2>9
    DEF CheckFails, PhoneInv, PhoneTyped, CodesKnown, TokenOfEnteredCode, NoCheck, Check, Numbers
  <2>10. ASSUME NEW i \in Checks, SessionStarts(i) PROVE PhoneInv'
    <3>1. /\ \A j \in Checks : checks'[j] = NoCheck \/
                 /\ checks'[j] \in Check
                 /\ checks'[j].at = checks[j].at /\ checks'[j].code = checks[j].code
                 /\ checks'[j].user = checks[j].user
          /\ checks' \in [Checks -> Check] /\ NoCheck.at = "none"
      BY <2>0, <2>10 DEF SessionStarts, PhoneTyped, Check, NoCheck, Numbers
    <3> QED
      BY <2>0, <2>10, <3>1
      DEF SessionStarts, Reset, PhoneInv, PhoneTyped, CodesKnown, TokenOfEnteredCode, NoneKept, Answer, Numbers
  <2> QED
    BY <2>1, <2>2, <2>3, <2>4, <2>5, <2>6, <2>7, <2>8, <2>9, <2>10 DEF PhoneNext
<1>3. PhoneInv => TokenOfEnteredCode
  BY DEF PhoneInv
<1> QED
  BY <1>1, <1>2, <1>3, PTL DEF PhoneSpec

-----------------------------------------------------------------------------
(* Sanctions and the account that caches them *)

AccountsTyped ==
    /\ user \in [status: AccountStatus, chatRestricted: BOOLEAN]
    /\ sanctions \in Seq(SanctionRow)
    /\ sessions \in [SessionIds -> SessionState]
    /\ sockets \in [SessionIds -> SocketState]
    /\ work \in [Threads -> Transaction]
    /\ tries \in 0..MaxSanctions

\* The lock on the users row admits one moderator at a time.
OneModerator == \A h, k \in Threads : HoldsUser(work[h]) /\ HoldsUser(work[k]) => h = k

\* Every row was tried, and a sanction being applied was tried and has no row yet.
RowsTried ==
    /\ Len(sanctions) <= tries
    /\ \A h \in Threads : work[h].op = "apply" => Len(sanctions) < tries

\* Only restrictions have an end.
TimedRows == \A i \in DOMAIN sanctions : sanctions[i].ends # "never" => sanctions[i].type \in TimedTypes

\* The rows the job has claimed stay active until it commits: whoever would end one waits.
ClaimedRows ==
    \A h \in Threads :
        /\ work[h].op # "expire" \/ h # Job => work[h].rows = {}
        /\ \A i \in work[h].rows :
              /\ i \in DOMAIN sanctions
              /\ sanctions[i].state = "active" /\ sanctions[i].ends = "due"

\* What the user row says of a type of sanction.
CachedAs(type) ==
    CASE type = "chat_restriction" -> user.chatRestricted
      [] type = "suspension" -> user.status = "suspended"
      [] type = "ban" -> user.status = "banned"

\* What a moderator's transaction has checked under the lock is still so when it commits.
ModeratorKnows ==
    \A h \in Threads :
        /\ work[h].op = "apply" =>
              /\ user.status = "banned" => work[h].type = "ban"
              /\ work[h].type # "warning" => ~InEffect(work[h].type)
              /\ work[h].ends = "later" => work[h].type \in TimedTypes
        /\ work[h].op = "lift" => work[h].type # "warning" /\ CachedAs(work[h].type)

Restrictions == SanctionTypes \ {"warning"}

OneActive == \A type \in Restrictions : \A i, j \in Active(type) : i = j

RowsCached == \A type \in Restrictions : CachedAs(type) <=> Active(type) # {}

AccountInv ==
    /\ AccountsTyped /\ OneModerator /\ RowsTried /\ TimedRows /\ ClaimedRows
    /\ ModeratorKnows /\ OneActive /\ RowsCached

LEMMA SanctionsDomain ==
  ASSUME AccountsTyped
  PROVE  /\ DOMAIN sanctions = 1..Len(sanctions) /\ Len(sanctions) \in Nat
         /\ \A i \in DOMAIN sanctions : sanctions[i] \in SanctionRow
  BY DEF AccountsTyped

LEMMA IdleTyped ==
  Idle \in Transaction /\ Idle.op = "idle" /\ Idle.rows = {} /\ ~Idle.queued
  BY DEF Idle, Transaction, Operation, SanctionTypes

\* Rows that end.
LEMMA RowsEnd ==
  ASSUME AccountsTyped, NEW S, NEW state \in {"revoked", "expired"}, NEW f, f = EndRows(S, state)
  PROVE  /\ f \in Seq(SanctionRow) /\ Len(f) = Len(sanctions) /\ DOMAIN f = DOMAIN sanctions
         /\ \A i \in DOMAIN sanctions :
               /\ f[i].type = sanctions[i].type
               /\ IF i \in S THEN f[i].state = state /\ f[i].ends = "never" ELSE f[i] = sanctions[i]
<1>1. DOMAIN sanctions = 1..Len(sanctions) /\ Len(sanctions) \in Nat
  BY SanctionsDomain
<1>2. ASSUME NEW i \in DOMAIN sanctions
      PROVE  /\ f[i] \in SanctionRow /\ f[i].type = sanctions[i].type
             /\ IF i \in S THEN f[i].state = state /\ f[i].ends = "never" ELSE f[i] = sanctions[i]
  <2>1. sanctions[i] \in SanctionRow
    BY SanctionsDomain
  <2>2. CASE i \notin S
    BY <2>1, <2>2 DEF EndRows
  <2>3. CASE i \in S
    <3>1. f[i] = [sanctions[i] EXCEPT !.state = state, !.ends = "never"]
      BY <2>3 DEF EndRows
    <3> QED
      BY <2>1, <2>3, <3>1 DEF SanctionRow
  <2> QED
    BY <2>2, <2>3
<1>3. DOMAIN f = 1..Len(sanctions)
  BY <1>1 DEF EndRows
<1>4. f \in [1..Len(sanctions) -> SanctionRow]
  BY <1>1, <1>2 DEF EndRows
<1>5. f \in Seq(SanctionRow) /\ Len(f) = Len(sanctions)
  BY <1>1, <1>3, <1>4
<1> QED
  BY <1>1, <1>2, <1>3, <1>5

\* Whoever is neither a moderator nor the expiry job changes nothing the cache depends on.
LEMMA QuietThread ==
  ASSUME AccountInv, NEW h \in Threads, NEW t \in Transaction, work' = [work EXCEPT ![h] = t],
         t.op \notin {"apply", "lift", "expire"}, t.rows = {}, UNCHANGED <<user, sanctions, tries>>,
         sessions' \in [SessionIds -> SessionState], sockets' \in [SessionIds -> SocketState]
  PROVE  AccountInv'
<1>1. /\ work' \in [Threads -> Transaction] /\ work'[h] = t
      /\ \A k \in Threads : k # h => work'[k] = work[k]
  BY DEF AccountInv, AccountsTyped
<1>2. AccountsTyped' /\ TimedRows'
  BY <1>1 DEF AccountInv, AccountsTyped, TimedRows
<1>3. OneModerator' /\ RowsTried' /\ ClaimedRows'
  BY <1>1 DEF AccountInv, OneModerator, HoldsUser, RowsTried, ClaimedRows
<1>4. \A type : (Active(type)' = Active(type)) /\ (CachedAs(type)' <=> CachedAs(type))
                /\ (InEffect(type)' <=> InEffect(type))
  BY DEF Active, CachedAs, InEffect
<1>5. ModeratorKnows'
  BY <1>1, <1>4 DEF AccountInv, ModeratorKnows
<1>6. OneActive' /\ RowsCached'
  BY <1>4 DEF AccountInv, OneActive, RowsCached
<1> QED
  BY <1>2, <1>3, <1>5, <1>6 DEF AccountInv

\* Sessions and sockets change alone.
LEMMA QuietStep ==
  ASSUME AccountInv, UNCHANGED <<user, sanctions, work, tries>>,
         sessions' \in [SessionIds -> SessionState], sockets' \in [SessionIds -> SocketState]
  PROVE  AccountInv'
<1>1. AccountsTyped' /\ TimedRows'
  BY DEF AccountInv, AccountsTyped, TimedRows
<1>2. OneModerator' /\ RowsTried' /\ ClaimedRows'
  BY DEF AccountInv, OneModerator, HoldsUser, RowsTried, ClaimedRows
<1>3. \A type : (Active(type)' = Active(type)) /\ (CachedAs(type)' <=> CachedAs(type))
                /\ (InEffect(type)' <=> InEffect(type))
  BY DEF Active, CachedAs, InEffect
<1>4. ModeratorKnows' /\ OneActive' /\ RowsCached'
  BY <1>3 DEF AccountInv, ModeratorKnows, OneActive, RowsCached
<1> QED
  BY <1>1, <1>2, <1>4 DEF AccountInv

\* A transaction begins under a lock it has found free.
LEMMA BeginKeeps ==
  ASSUME AccountInv, NEW h \in Threads, NEW t \in Transaction, Start(h, t),
         UNCHANGED <<user, sanctions, sessions, sockets>>,
         tries' \in 0..MaxSanctions, tries' >= tries,
         t.op \in {"apply", "lift"} => UserUnlocked,
         t.op = "apply" =>
            /\ Len(sanctions) < tries'
            /\ user.status = "banned" => t.type = "ban"
            /\ t.type # "warning" => ~InEffect(t.type)
            /\ t.ends = "later" => t.type \in TimedTypes,
         t.op = "lift" => t.type # "warning" /\ CachedAs(t.type),
         t.op # "expire" \/ h # Job => t.rows = {},
         t.rows \subseteq DueRows
  PROVE  AccountInv'
<1>1. /\ work' \in [Threads -> Transaction] /\ work'[h] = t /\ work[h] = Idle
      /\ \A k \in Threads : k # h => work'[k] = work[k]
  BY DEF AccountInv, AccountsTyped, Start
<1>2. AccountsTyped' /\ TimedRows'
  BY <1>1 DEF AccountInv, AccountsTyped, TimedRows
<1>3. OneModerator'
  BY <1>1 DEF AccountInv, OneModerator, HoldsUser, UserUnlocked
<1>4. RowsTried'
  <2>1. /\ tries \in Nat /\ tries' \in Nat /\ Len(sanctions) \in Nat /\ Len(sanctions') = Len(sanctions)
        /\ Len(sanctions) <= tries
    BY SanctionsDomain, AccountsAssumption DEF AccountInv, AccountsTyped, RowsTried
  <2>2. ASSUME NEW k \in Threads, work'[k].op = "apply" PROVE Len(sanctions) < tries'
    <3>1. CASE k = h
      BY <1>1, <2>2, <3>1
    <3>2. CASE k # h
      <4>1. Len(sanctions) < tries
        BY <1>1, <2>2, <3>2 DEF AccountInv, RowsTried
      <4> QED
        BY <2>1, <4>1
    <3> QED
      BY <3>1, <3>2
  <2> QED
    BY <2>1, <2>2 DEF RowsTried
<1>5. ClaimedRows'
  BY <1>1 DEF AccountInv, ClaimedRows, DueRows
<1>6. \A type : (Active(type)' = Active(type)) /\ (CachedAs(type)' <=> CachedAs(type))
                /\ (InEffect(type)' <=> InEffect(type))
  BY DEF Active, CachedAs, InEffect
<1>7. ModeratorKnows'
  BY <1>1, <1>6 DEF AccountInv, ModeratorKnows
<1>8. OneActive' /\ RowsCached'
  BY <1>6 DEF AccountInv, OneActive, RowsCached
<1> QED
  BY <1>2, <1>3, <1>4, <1>5, <1>7, <1>8 DEF AccountInv

LEMMA BeginApplyKeeps ==
  ASSUME AccountInv, NEW h \in Slots, NEW type \in SanctionTypes, NEW ends \in {"never", "later"},
         BeginApply(h, type, ends)
  PROVE  AccountInv'
<1> DEFINE t == [Idle EXCEPT !.op = "apply", !.type = type, !.ends = ends]
<1>1. t \in Transaction /\ t.op = "apply" /\ t.type = type /\ t.ends = ends /\ t.rows = {}
  BY DEF Idle, Transaction, Operation
<1>2. /\ Start(h, t) /\ UserUnlocked /\ tries' = tries + 1 /\ tries < MaxSanctions
      /\ UNCHANGED <<user, sanctions, sessions, sockets>>
      /\ user.status = "banned" => type = "ban"
      /\ type # "warning" => ~InEffect(type)
      /\ ends = "later" => type \in TimedTypes
  BY DEF BeginApply
<1> HIDE DEF t
<1>3. tries' \in 0..MaxSanctions /\ tries' >= tries /\ Len(sanctions) < tries'
  BY <1>2, SanctionsDomain, AccountsAssumption DEF AccountInv, AccountsTyped, RowsTried
<1>4. h \in Threads
  BY DEF Threads
<1> QED
  BY <1>1, <1>2, <1>3, <1>4, BeginKeeps

LEMMA BeginLiftKeeps ==
  ASSUME AccountInv, NEW h \in Slots, NEW type \in Restrictions, BeginLift(h, type)
  PROVE  AccountInv'
<1> DEFINE t == [Idle EXCEPT !.op = "lift", !.type = type]
<1>1. t \in Transaction /\ t.op = "lift" /\ t.type = type /\ t.rows = {}
  BY DEF Idle, Transaction, Operation, Restrictions
<1>2. /\ Start(h, t) /\ UserUnlocked /\ CachedAs(type)
      /\ UNCHANGED <<user, sanctions, sessions, sockets, tries>>
  BY DEF BeginLift, CachedAs
<1> HIDE DEF t
<1>3. tries' \in 0..MaxSanctions /\ tries' >= tries /\ h \in Threads /\ type # "warning"
  BY <1>2, AccountsAssumption DEF AccountInv, AccountsTyped, Threads, Restrictions
<1> QED
  BY <1>1, <1>2, <1>3, BeginKeeps

LEMMA BeginExpireKeeps ==
  ASSUME AccountInv, BeginExpire
  PROVE  AccountInv'
<1> DEFINE t == [Idle EXCEPT !.op = "expire", !.rows = Claimed]
<1>1. Claimed \subseteq DueRows /\ Claimed \subseteq 1..MaxSanctions
  <2>1. DOMAIN sanctions = 1..Len(sanctions) /\ Len(sanctions) \in Nat /\ Len(sanctions) <= MaxSanctions
    BY SanctionsDomain, AccountsAssumption DEF AccountInv, AccountsTyped, RowsTried
  <2>2. DOMAIN sanctions \subseteq 1..MaxSanctions
    BY <2>1, AccountsAssumption
  <2> QED
    BY <2>2 DEF Claimed, DueRows
<1>2. t \in Transaction /\ t.op = "expire" /\ t.rows = Claimed
  BY <1>1 DEF Idle, Transaction, Operation, SanctionTypes
<1>3. Start(Job, t) /\ UNCHANGED <<user, sanctions, sessions, sockets, tries>>
  BY DEF BeginExpire
<1> HIDE DEF t
<1>4. tries' \in 0..MaxSanctions /\ tries' >= tries /\ Job \in Threads
  BY <1>3, AccountsAssumption DEF AccountInv, AccountsTyped, Threads
<1> QED
  BY <1>1, <1>2, <1>3, <1>4, BeginKeeps

LEMMA QueueKeeps ==
  ASSUME AccountInv, NEW h \in Slots, Queue(h)
  PROVE  AccountInv'
<1>1. /\ h \in Threads /\ work[h] \in Transaction /\ work' = [work EXCEPT ![h].queued = TRUE]
      /\ UNCHANGED <<user, sanctions, sessions, sockets, tries>>
  BY DEF Queue, AccountInv, AccountsTyped, Threads
<1>2. /\ work' \in [Threads -> Transaction]
      /\ work'[h].op = work[h].op /\ work'[h].type = work[h].type
      /\ work'[h].ends = work[h].ends /\ work'[h].rows = work[h].rows
      /\ \A k \in Threads : k # h => work'[k] = work[k]
  BY <1>1 DEF AccountInv, AccountsTyped, Transaction
<1>3. AccountsTyped' /\ TimedRows'
  BY <1>1, <1>2 DEF AccountInv, AccountsTyped, TimedRows
<1>4. \A k \in Threads : /\ work'[k].op = work[k].op /\ work'[k].type = work[k].type
                         /\ work'[k].ends = work[k].ends /\ work'[k].rows = work[k].rows
  BY <1>2
<1>5. OneModerator' /\ RowsTried' /\ ClaimedRows'
  BY <1>1, <1>4 DEF AccountInv, OneModerator, HoldsUser, RowsTried, ClaimedRows
<1>6. \A type : (Active(type)' = Active(type)) /\ (CachedAs(type)' <=> CachedAs(type))
                /\ (InEffect(type)' <=> InEffect(type))
  BY <1>1 DEF Active, CachedAs, InEffect
<1>7. ModeratorKnows'
  <2> SUFFICES ASSUME NEW k \in Threads
               PROVE  /\ work'[k].op = "apply" =>
                            /\ user'.status = "banned" => work'[k].type = "ban"
                            /\ work'[k].type # "warning" => ~InEffect(work[k].type)'
                            /\ work'[k].ends = "later" => work'[k].type \in TimedTypes
                      /\ work'[k].op = "lift" => work'[k].type # "warning" /\ CachedAs(work[k].type)'
    BY DEF ModeratorKnows
  <2>1. PICK type : type = work[k].type
    OBVIOUS
  <2>2. work'[k].type = type
    BY <1>4, <2>1
  <2>3. (InEffect(type)' <=> InEffect(work[k].type)) /\ (CachedAs(type)' <=> CachedAs(work[k].type))
    BY <1>6, <2>1
  <2> QED
    BY <1>1, <1>4, <2>2, <2>3 DEF AccountInv, ModeratorKnows
<1>8. OneActive' /\ RowsCached'
  BY <1>6 DEF AccountInv, OneActive, RowsCached
<1> QED
  BY <1>3, <1>5, <1>7, <1>8 DEF AccountInv

\* A row changes in what the cache does not depend on.
LEMMA RowTouched ==
  ASSUME AccountInv, NEW i \in DOMAIN sanctions, NEW r \in SanctionRow,
         sanctions' = [sanctions EXCEPT ![i] = r], r.type = sanctions[i].type,
         r.state = sanctions[i].state, r.ends = "never" <=> sanctions[i].ends = "never",
         sanctions[i].ends = "due" => r.ends = "due",
         UNCHANGED <<user, sessions, sockets, work, tries>>
  PROVE  AccountInv'
<1>1. /\ sanctions' \in Seq(SanctionRow) /\ Len(sanctions') = Len(sanctions)
      /\ DOMAIN sanctions' = DOMAIN sanctions /\ sanctions'[i] = r
      /\ \A j \in DOMAIN sanctions : j # i => sanctions'[j] = sanctions[j]
  BY DEF AccountInv, AccountsTyped
<1>2. AccountsTyped' /\ OneModerator' /\ RowsTried'
  BY <1>1 DEF AccountInv, AccountsTyped, OneModerator, HoldsUser, RowsTried
<1>3. TimedRows' /\ ClaimedRows'
  BY <1>1 DEF AccountInv, TimedRows, ClaimedRows
<1>4. ASSUME NEW type PROVE Active(type)' = Active(type)
  BY <1>1 DEF Active
<1>5. \A type : (CachedAs(type)' <=> CachedAs(type)) /\ (InEffect(type)' <=> InEffect(type))
  BY <1>4 DEF CachedAs, InEffect
<1>6. ModeratorKnows' /\ OneActive' /\ RowsCached'
  BY <1>4, <1>5 DEF AccountInv, ModeratorKnows, OneActive, RowsCached
<1> QED
  BY <1>2, <1>3, <1>6 DEF AccountInv

LEMMA RowStepsKeep ==
  ASSUME AccountInv, NEW i \in DOMAIN sanctions, AcknowledgeWarning(i) \/ TimePasses(i)
  PROVE  AccountInv'
<1>1. sanctions[i] \in SanctionRow /\ UNCHANGED <<user, sessions, sockets, work, tries>>
  BY SanctionsDomain DEF AccountInv, AcknowledgeWarning, TimePasses
<1>2. CASE AcknowledgeWarning(i)
  <2> DEFINE r == [sanctions[i] EXCEPT !.acknowledged = TRUE]
  <2>1. /\ r \in SanctionRow /\ r.type = sanctions[i].type
        /\ r.state = sanctions[i].state /\ r.ends = sanctions[i].ends
    BY <1>1 DEF SanctionRow
  <2>2. sanctions' = [sanctions EXCEPT ![i] = r]
    BY <1>2 DEF AcknowledgeWarning
  <2> HIDE DEF r
  <2> QED
    BY <1>1, <2>1, <2>2, RowTouched
<1>3. CASE TimePasses(i)
  <2> DEFINE r == [sanctions[i] EXCEPT !.ends = "due"]
  <2>1. /\ r \in SanctionRow /\ r.type = sanctions[i].type
        /\ r.state = sanctions[i].state /\ r.ends = "due"
    BY <1>1 DEF SanctionRow
  <2>2. sanctions' = [sanctions EXCEPT ![i] = r] /\ sanctions[i].ends = "later"
    BY <1>3 DEF TimePasses
  <2> HIDE DEF r
  <2> QED
    BY <1>1, <2>1, <2>2, RowTouched
<1> QED
  BY <1>2, <1>3

\* A moderator or the job commits, and nobody holds the users row afterwards.
LEMMA CommitKeeps ==
  ASSUME AccountInv, NEW h \in Threads, NEW t \in Transaction, work' = [work EXCEPT ![h] = t],
         t.op \in {"idle", "effects"}, t.rows = {}, tries' = tries,
         \A k \in Threads : k # h => ~HoldsUser(work[k]),
         user' \in [status: AccountStatus, chatRestricted: BOOLEAN],
         sessions' \in [SessionIds -> SessionState], sockets' \in [SessionIds -> SocketState],
         sanctions' \in Seq(SanctionRow), Len(sanctions') <= tries, TimedRows',
         \A k \in Threads \ {h} : \A i \in work[k].rows :
             i \in DOMAIN sanctions' /\ sanctions'[i].state = "active" /\ sanctions'[i].ends = "due",
         OneActive', RowsCached'
  PROVE  AccountInv'
<1>1. /\ work' \in [Threads -> Transaction] /\ work'[h] = t
      /\ \A k \in Threads : k # h => work'[k] = work[k]
  BY DEF AccountInv, AccountsTyped
<1>2. AccountsTyped'
  BY <1>1 DEF AccountInv, AccountsTyped
<1>3. \A k \in Threads : work'[k].op \notin {"apply", "lift"}
  BY <1>1 DEF HoldsUser
<1>4. OneModerator' /\ ModeratorKnows' /\ RowsTried'
  BY <1>3 DEF OneModerator, HoldsUser, ModeratorKnows, RowsTried
<1>5. ClaimedRows'
  BY <1>1 DEF AccountInv, ClaimedRows
<1> QED
  BY <1>2, <1>4, <1>5 DEF AccountInv

\* Whoever holds the users row is alone in it.
LEMMA AloneInUser ==
  ASSUME AccountInv, NEW h \in Threads, HoldsUser(work[h])
  PROVE  \A k \in Threads : k # h => ~HoldsUser(work[k])
  BY DEF AccountInv, OneModerator

\* Rows in S end, the others stay.
LEMMA EndedRows ==
  ASSUME AccountInv, NEW S, NEW state \in {"revoked", "expired"}, sanctions' = EndRows(S, state)
  PROVE  /\ sanctions' \in Seq(SanctionRow) /\ Len(sanctions') <= tries
         /\ TimedRows'
         /\ \A type : Active(type)' = Active(type) \ S
         /\ OneActive'
         /\ \A h \in Threads : work[h].rows \cap S = {} =>
               \A i \in work[h].rows : /\ i \in DOMAIN sanctions'
                                       /\ sanctions'[i].state = "active" /\ sanctions'[i].ends = "due"
<1>1. /\ sanctions' \in Seq(SanctionRow) /\ Len(sanctions') = Len(sanctions)
      /\ DOMAIN sanctions' = DOMAIN sanctions
      /\ \A i \in DOMAIN sanctions :
            /\ sanctions'[i].type = sanctions[i].type
            /\ IF i \in S THEN sanctions'[i].state = state /\ sanctions'[i].ends = "never"
                          ELSE sanctions'[i] = sanctions[i]
  BY RowsEnd DEF AccountInv
<1>2. TimedRows' /\ Len(sanctions') <= tries
  BY <1>1 DEF AccountInv, TimedRows, RowsTried
<1>3. ASSUME NEW type PROVE Active(type)' = Active(type) \ S
  BY <1>1 DEF Active
<1>4. OneActive'
  BY <1>3 DEF AccountInv, OneActive
<1>5. ASSUME NEW h \in Threads, work[h].rows \cap S = {}, NEW i \in work[h].rows
      PROVE  i \in DOMAIN sanctions' /\ sanctions'[i].state = "active" /\ sanctions'[i].ends = "due"
  BY <1>1, <1>5 DEF AccountInv, ClaimedRows
<1> QED
  BY <1>1, <1>2, <1>3, <1>4, <1>5

LEMMA CommitLiftKeeps ==
  ASSUME AccountInv, NEW h \in Slots, CommitLift(h)
  PROVE  AccountInv'
<1>1. PICK type, S : type = work[h].type /\ S = Active(type)
  OBVIOUS
<1>2. /\ h \in Threads /\ work[h] \in Transaction /\ work[h].op = "lift" /\ type \in Restrictions
      /\ CachedAs(type) /\ RowsWritten(work[h]) = S
  BY <1>1 DEF CommitLift, AccountInv, AccountsTyped, Threads, Transaction, ModeratorKnows, Restrictions, RowsWritten
<1>3. /\ user' = IF type = "chat_restriction" THEN [user EXCEPT !.chatRestricted = FALSE]
                 ELSE [user EXCEPT !.status = "active"]
      /\ sanctions' = EndRows(S, "revoked") /\ work' = [work EXCEPT ![h] = Idle]
      /\ UNCHANGED <<sessions, sockets, tries>>
  BY <1>1, <1>2 DEF CommitLift, Finish
<1>4. \A k \in Threads \ {h} : S \cap work[k].rows = {}
  BY <1>2 DEF CommitLift, CanCommit, Waits
<1>5. \A x : Active(x)' = Active(x) \ S
  BY <1>3, EndedRows
<1>6. user' \in [status: AccountStatus, chatRestricted: BOOLEAN]
  BY <1>3 DEF AccountInv, AccountsTyped, AccountStatus
<1>7. RowsCached'
  <2> SUFFICES ASSUME NEW x \in Restrictions PROVE CachedAs(x)' <=> Active(x)' # {}
    BY DEF RowsCached
  <2>1. CachedAs(x) <=> Active(x) # {}
    BY DEF AccountInv, RowsCached
  <2>2. CASE x = type
    <3>1. Active(x)' = {}
      BY <1>1, <1>5, <2>2
    <3>2. ~CachedAs(x)'
      BY <1>2, <1>3, <2>2 DEF CachedAs, Restrictions, SanctionTypes, AccountInv, AccountsTyped
    <3> QED
      BY <3>1, <3>2
  <2>3. CASE x # type
    <3>1. Active(x)' = Active(x)
      BY <1>1, <1>5, <2>3 DEF Active
    <3>2. CachedAs(x)' <=> CachedAs(x)
      BY <1>2, <1>3, <2>3 DEF CachedAs, Restrictions, SanctionTypes, AccountInv, AccountsTyped
    <3> QED
      BY <2>1, <3>1, <3>2
  <2> QED
    BY <2>2, <2>3
<1>8. \A k \in Threads : k # h => ~HoldsUser(work[k])
  BY <1>2, AloneInUser DEF HoldsUser
<1>9. sessions' \in [SessionIds -> SessionState] /\ sockets' \in [SessionIds -> SocketState] /\ tries' = tries
  BY <1>3 DEF AccountInv, AccountsTyped
<1>10. /\ sanctions' \in Seq(SanctionRow) /\ Len(sanctions') <= tries /\ TimedRows' /\ OneActive'
       /\ \A k \in Threads \ {h} : \A i \in work[k].rows :
             i \in DOMAIN sanctions' /\ sanctions'[i].state = "active" /\ sanctions'[i].ends = "due"
  BY <1>3, <1>4, EndedRows
<1> QED
  BY <1>2, <1>3, <1>6, <1>7, <1>8, <1>9, <1>10, IdleTyped, CommitKeeps

\* What the job has claimed restricts the member, so it needs the users row to commit.
LEMMA CommitExpireKeeps ==
  ASSUME AccountInv, CommitExpire
  PROVE  AccountInv'
<1>1. PICK S : S = work[Job].rows
  OBVIOUS
<1>2. /\ Job \in Threads /\ work[Job].op = "expire" /\ CanCommit(Job)
      /\ sanctions' = EndRows(S, "expired") /\ user' = ReleasedUser(work[Job])
      /\ work' = [work EXCEPT ![Job] = Idle] /\ UNCHANGED <<sessions, sockets, tries>>
  BY <1>1 DEF CommitExpire, Finish, Threads
<1>3. \A i \in S : /\ i \in DOMAIN sanctions /\ sanctions[i].state = "active"
                   /\ sanctions[i].type \in TimedTypes /\ i \in Active(sanctions[i].type)
  BY <1>1, <1>2 DEF AccountInv, ClaimedRows, TimedRows, Active
<1>4. sessions' \in [SessionIds -> SessionState] /\ sockets' \in [SessionIds -> SocketState] /\ tries' = tries
  BY <1>2 DEF AccountInv, AccountsTyped
<1>5. \A i \in S : sanctions[i].type = "suspension" => user.status = "suspended"
  BY <1>3 DEF AccountInv, RowsCached, CachedAs, Restrictions, SanctionTypes
<1>6. CASE S = {}
  <2>1. sanctions' = sanctions
    BY <1>2, <1>6, SanctionsDomain DEF EndRows, AccountInv, AccountsTyped
  <2>2. ExpiredTypes(work[Job]) = {}
    BY <1>1, <1>6 DEF ExpiredTypes
  <2>3. user' = user
    BY <1>2, <2>2 DEF ReleasedUser, AccountInv, AccountsTyped
  <2> QED
    BY <1>2, <1>4, <2>1, <2>3, IdleTyped, QuietThread
<1>7. CASE S # {}
  <2>1. WritesUser(work[Job])
    BY <1>1, <1>2, <1>3, <1>5, <1>7 DEF WritesUser, TimedTypes
  <2>2. \A k \in Threads : k # Job => ~HoldsUser(work[k])
    BY <1>2, <2>1 DEF CanCommit, Waits
  <2>3. /\ user' \in [status: AccountStatus, chatRestricted: BOOLEAN]
        /\ user'.status = IF \E i \in S : sanctions[i].type = "suspension" THEN "active" ELSE user.status
        /\ user'.chatRestricted <=> user.chatRestricted /\ \A i \in S : sanctions[i].type # "chat_restriction"
    <3>1. /\ "suspension" \in ExpiredTypes(work[Job]) <=> \E i \in S : sanctions[i].type = "suspension"
          /\ "chat_restriction" \in ExpiredTypes(work[Job]) <=> \E i \in S : sanctions[i].type = "chat_restriction"
      BY <1>1 DEF ExpiredTypes
    <3> QED
      BY <1>2, <1>5, <3>1 DEF ReleasedUser, AccountInv, AccountsTyped, AccountStatus
  <2>4. \A x : Active(x)' = Active(x) \ S
    BY <1>2, EndedRows
  <2>5. RowsCached'
    <3> SUFFICES ASSUME NEW x \in Restrictions PROVE CachedAs(x)' <=> Active(x)' # {}
      BY DEF RowsCached
    <3>1. CachedAs(x) <=> Active(x) # {}
      BY DEF AccountInv, RowsCached
    <3>2. CASE \E i \in S : sanctions[i].type = x
      <4>1. PICK i \in S : sanctions[i].type = x
        BY <3>2
      <4>2. Active(x) = {i}
        BY <1>3, <4>1 DEF AccountInv, OneActive
      <4>3. Active(x)' = {}
        BY <2>4, <4>1, <4>2
      <4>4. ~CachedAs(x)'
        BY <1>3, <2>3, <4>1 DEF CachedAs, TimedTypes
      <4> QED
        BY <4>3, <4>4
    <3>3. CASE \A i \in S : sanctions[i].type # x
      <4>1. Active(x)' = Active(x)
        BY <2>4, <3>3 DEF Active
      <4>2. CachedAs(x)' <=> CachedAs(x)
        <5>1. CASE x = "chat_restriction"
          BY <2>3, <3>3, <5>1 DEF CachedAs
        <5>2. CASE x = "suspension"
          BY <2>3, <3>3, <5>2 DEF CachedAs
        <5>3. CASE x = "ban"
          BY <1>5, <2>3, <5>3 DEF CachedAs
        <5> QED
          BY <5>1, <5>2, <5>3 DEF Restrictions, SanctionTypes
      <4> QED
        BY <3>1, <4>1, <4>2
    <3> QED
      BY <3>2, <3>3
  <2>6. \A k \in Threads \ {Job} : work[k].rows \cap S = {}
    BY DEF AccountInv, ClaimedRows
  <2>7. /\ sanctions' \in Seq(SanctionRow) /\ Len(sanctions') <= tries /\ TimedRows' /\ OneActive'
        /\ \A k \in Threads \ {Job} : \A i \in work[k].rows :
              i \in DOMAIN sanctions' /\ sanctions'[i].state = "active" /\ sanctions'[i].ends = "due"
    BY <1>2, <2>6, EndedRows
  <2> QED
    BY <1>2, <1>4, <2>2, <2>3, <2>5, <2>7, IdleTyped, CommitKeeps
<1> QED
  BY <1>6, <1>7

\* One more row, which is active, beside the rows that stay.
LEMMA RowAdded ==
  ASSUME AccountInv, NEW S, NEW r \in SanctionRow, r.state = "active",
         r.ends # "never" => r.type \in TimedTypes,
         Len(sanctions) < tries, sanctions' = Append(EndRows(S, "revoked"), r)
  PROVE  /\ sanctions' \in Seq(SanctionRow) /\ Len(sanctions') <= tries
         /\ TimedRows'
         /\ \A type : Active(type)' = (Active(type) \ S) \cup (IF type = r.type THEN {Len(sanctions) + 1} ELSE {})
         /\ \A h \in Threads : work[h].rows \cap S = {} =>
               \A i \in work[h].rows : /\ i \in DOMAIN sanctions'
                                       /\ sanctions'[i].state = "active" /\ sanctions'[i].ends = "due"
<1>1. PICK f, n : f = EndRows(S, "revoked") /\ n = Len(sanctions)
  OBVIOUS
<1>2. /\ f \in Seq(SanctionRow) /\ Len(f) = n /\ n \in Nat /\ DOMAIN f = 1..n /\ DOMAIN sanctions = 1..n
      /\ \A i \in 1..n : /\ f[i].type = sanctions[i].type
                         /\ IF i \in S THEN f[i].state = "revoked" /\ f[i].ends = "never"
                                       ELSE f[i] = sanctions[i]
  BY <1>1, RowsEnd, SanctionsDomain DEF AccountInv
<1>3. sanctions' = Append(f, r)
  BY <1>1
<1>4. /\ sanctions' \in Seq(SanctionRow) /\ Len(sanctions') = n + 1
      /\ DOMAIN sanctions' = 1..(n + 1)
      /\ \A i \in 1..n : sanctions'[i] = f[i]
      /\ sanctions'[n + 1] = r
  <2>1. PICK g : g = Append(f, r)
    OBVIOUS
  <2>2. /\ g \in Seq(SanctionRow) /\ Len(g) = n + 1 /\ g[n + 1] = r
        /\ \A i \in 1..n : g[i] = f[i]
    BY <1>2, <2>1, AppendProperties
  <2>3. DOMAIN g = 1..(n + 1)
    BY <2>2
  <2>4. sanctions' = g
    BY <1>3, <2>1
  <2> QED
    BY <2>2, <2>3, <2>4
<1>5. Len(sanctions') <= tries
  BY <1>1, <1>2, <1>4, AccountsAssumption DEF AccountInv, AccountsTyped
<1>6. \A i \in DOMAIN sanctions' : i \in 1..n \/ i = n + 1
  BY <1>2, <1>4
<1>7. TimedRows'
  BY <1>2, <1>4, <1>6 DEF AccountInv, TimedRows
<1>8. ASSUME NEW type PROVE Active(type)' = (Active(type) \ S) \cup (IF type = r.type THEN {n + 1} ELSE {})
  <2>1. n + 1 \in DOMAIN sanctions' /\ n + 1 \notin 1..n /\ 1..n \subseteq DOMAIN sanctions'
    BY <1>2, <1>4
  <2>2. ASSUME NEW i \in 1..n PROVE i \in Active(type)' <=> i \in Active(type) \ S
    BY <1>2, <1>4, <2>1, <2>2 DEF Active
  <2>3. n + 1 \in Active(type)' <=> type = r.type
    BY <1>4, <2>1 DEF Active
  <2>4. Active(type)' \subseteq (1..n) \cup {n + 1} /\ Active(type) \subseteq 1..n
    BY <1>2, <1>6 DEF Active
  <2> QED
    BY <2>1, <2>2, <2>3, <2>4
<1>9. ASSUME NEW h \in Threads, work[h].rows \cap S = {}, NEW i \in work[h].rows
      PROVE  i \in DOMAIN sanctions' /\ sanctions'[i].state = "active" /\ sanctions'[i].ends = "due"
  <2>1. i \in 1..n /\ i \notin S /\ sanctions[i].state = "active" /\ sanctions[i].ends = "due"
    BY <1>2, <1>9 DEF AccountInv, ClaimedRows
  <2>2. i \in DOMAIN sanctions' /\ sanctions'[i] = sanctions[i]
    BY <1>2, <1>4, <2>1
  <2> QED
    BY <2>1, <2>2
<1> QED
  BY <1>1, <1>4, <1>5, <1>7, <1>8, <1>9

LEMMA CommitApplyKeeps ==
  ASSUME AccountInv, NEW h \in Slots, CommitApply(h)
  PROVE  AccountInv'
<1>1. PICK type, ends, S, n : /\ type = work[h].type /\ ends = work[h].ends
                              /\ S = RowsWritten(work[h]) /\ n = Len(sanctions) + 1
  OBVIOUS
<1>2. /\ h \in Threads /\ work[h] \in Transaction /\ work[h].op = "apply" /\ type \in SanctionTypes
      /\ ends \in {"never", "later"} /\ CanCommit(h)
      /\ S = IF type = "ban" THEN Active("suspension") ELSE {}
  BY <1>1 DEF CommitApply, AccountInv, AccountsTyped, Threads, Transaction, RowsWritten
<1>3. /\ user.status = "banned" => type = "ban"
      /\ type # "warning" => ~InEffect(type)
      /\ ends = "later" => type \in TimedTypes
      /\ Len(sanctions) < tries
  BY <1>1, <1>2 DEF AccountInv, ModeratorKnows, RowsTried
<1> DEFINE r == [type |-> type, ends |-> ends, state |-> "active", acknowledged |-> FALSE]
           t == [Idle EXCEPT !.op = "effects", !.type = type]
<1>4. /\ r \in SanctionRow /\ r.state = "active" /\ r.type = type /\ r.ends = ends
      /\ t \in Transaction /\ t.op = "effects" /\ t.rows = {}
  BY <1>2 DEF SanctionRow, Idle, Transaction, Operation
<1>5. /\ sanctions' = Append(EndRows(S, "revoked"), r) /\ user' = SanctionedUser(type)
      /\ sessions' = EndSessions(SessionsWritten(work[h]), "revoked")
      /\ work' = [work EXCEPT ![h] = t] /\ UNCHANGED <<sockets, tries>>
  BY <1>1 DEF CommitApply, Superseded
<1> HIDE DEF r, t
<1>6. r.ends # "never" => r.type \in TimedTypes
  BY <1>2, <1>3, <1>4
<1>7. /\ sanctions' \in Seq(SanctionRow) /\ Len(sanctions') <= tries /\ TimedRows'
      /\ \A x : Active(x)' = (Active(x) \ S) \cup (IF x = type THEN {n} ELSE {})
      /\ \A k \in Threads : work[k].rows \cap S = {} =>
            \A i \in work[k].rows : /\ i \in DOMAIN sanctions'
                                    /\ sanctions'[i].state = "active" /\ sanctions'[i].ends = "due"
  BY <1>1, <1>3, <1>4, <1>5, <1>6, RowAdded
<1>8. \A k \in Threads \ {h} : work[k].rows \cap S = {}
  BY <1>1, <1>2 DEF CanCommit, Waits
<1>9. type # "warning" => Active(type) = {}
  BY <1>3 DEF InEffect
<1>10. OneActive'
  BY <1>7, <1>9 DEF AccountInv, OneActive, Restrictions
<1>11. /\ user' \in [status: AccountStatus, chatRestricted: BOOLEAN]
       /\ user'.status = CASE type = "suspension" -> "suspended"
                           [] type = "ban" -> "banned"
                           [] OTHER -> user.status
       /\ user'.chatRestricted <=> user.chatRestricted \/ type = "chat_restriction"
  BY <1>5 DEF SanctionedUser, AccountInv, AccountsTyped, AccountStatus
<1>12. RowsCached'
  <2> SUFFICES ASSUME NEW x \in Restrictions PROVE CachedAs(x)' <=> Active(x)' # {}
    BY DEF RowsCached
  <2>1. /\ CachedAs(x) <=> Active(x) # {}
        /\ x \in {"chat_restriction", "suspension", "ban"}
    BY DEF AccountInv, RowsCached, Restrictions, SanctionTypes
  <2>2. CASE x = type
    BY <1>7, <1>11, <2>1, <2>2 DEF CachedAs
  <2>3. CASE x # type /\ type = "ban" /\ x = "suspension"
    BY <1>2, <1>7, <1>11, <2>3 DEF CachedAs
  <2>4. CASE x # type /\ ~(type = "ban" /\ x = "suspension")
    <3>1. Active(x)' = Active(x)
      <4>1. Active(x)' = Active(x) \ S
        BY <1>7, <2>4
      <4>2. Active(x) \cap S = {}
        BY <1>2, <2>4 DEF Active
      <4> QED
        BY <4>1, <4>2
    <3>2. CachedAs(x)' <=> CachedAs(x)
      <4>1. CASE x = "chat_restriction"
        BY <1>11, <2>4, <4>1 DEF CachedAs, AccountInv, AccountsTyped
      <4>2. CASE x = "suspension"
        BY <1>2, <1>11, <2>4, <4>2 DEF CachedAs, SanctionTypes
      <4>3. CASE x = "ban"
        BY <1>2, <1>3, <1>11, <2>4, <4>3 DEF CachedAs, SanctionTypes
      <4> QED
        BY <2>1, <4>1, <4>2, <4>3
    <3> QED
      BY <2>1, <3>1, <3>2
  <2> QED
    BY <2>2, <2>3, <2>4
<1>13. \A k \in Threads : k # h => ~HoldsUser(work[k])
  BY <1>2, AloneInUser DEF HoldsUser
<1>14. sessions' \in [SessionIds -> SessionState] /\ sockets' \in [SessionIds -> SocketState] /\ tries' = tries
  BY <1>5 DEF EndSessions, SessionState, AccountInv, AccountsTyped
<1>15. \A k \in Threads \ {h} : \A i \in work[k].rows :
          i \in DOMAIN sanctions' /\ sanctions'[i].state = "active" /\ sanctions'[i].ends = "due"
  BY <1>7, <1>8
<1>16. sanctions' \in Seq(SanctionRow) /\ Len(sanctions') <= tries /\ TimedRows'
  BY <1>7
<1>17. user' \in [status: AccountStatus, chatRestricted: BOOLEAN] /\ work' = [work EXCEPT ![h] = t]
  BY <1>5, <1>11
<1> QED
  BY <1>2, <1>4, <1>10, <1>12, <1>13, <1>14, <1>15, <1>16, <1>17, CommitKeeps

\* Sign-ins, refreshes, effects and victims of a lock cycle leave rows and cache alone.
LEMMA QuietRequestsKeep ==
  ASSUME AccountInv, NEW h \in Threads,
         \/ \E s \in SessionIds : BeginLogin(h, s)
         \/ \E s \in SessionIds, touches \in BOOLEAN : BeginRefresh(h, s, touches)
         \/ CommitLogin(h) \/ CommitRefresh(h) \/ Effects(h) \/ Abort(h)
  PROVE  AccountInv'
<1>1. sessions \in [SessionIds -> SessionState] /\ sockets \in [SessionIds -> SocketState]
  BY DEF AccountInv, AccountsTyped
<1>2. ASSUME NEW s \in SessionIds, BeginLogin(h, s) PROVE AccountInv'
  <2> DEFINE t == [Idle EXCEPT !.op = "login", !.session = s]
  <2>1. t \in Transaction /\ t.op = "login" /\ t.rows = {}
    BY DEF Idle, Transaction, Operation, SanctionTypes
  <2>2. work' = [work EXCEPT ![h] = t] /\ UNCHANGED <<user, sanctions, sessions, sockets, tries>>
    BY <1>2 DEF BeginLogin, Start
  <2> HIDE DEF t
  <2> QED
    BY <1>1, <2>1, <2>2, QuietThread
<1>3. ASSUME NEW s \in SessionIds, NEW touches \in BOOLEAN, BeginRefresh(h, s, touches) PROVE AccountInv'
  <2> DEFINE t == [Idle EXCEPT !.op = "refresh", !.session = s, !.touches = touches]
  <2>1. t \in Transaction /\ t.op = "refresh" /\ t.rows = {}
    BY DEF Idle, Transaction, Operation, SanctionTypes
  <2>2. work' = [work EXCEPT ![h] = t] /\ UNCHANGED <<user, sanctions, sessions, sockets, tries>>
    BY <1>3 DEF BeginRefresh, Start
  <2> HIDE DEF t
  <2> QED
    BY <1>1, <2>1, <2>2, QuietThread
<1>4. ASSUME CommitLogin(h) \/ CommitRefresh(h) \/ Effects(h) \/ Abort(h) PROVE AccountInv'
  <2>1. /\ work' = [work EXCEPT ![h] = Idle] /\ UNCHANGED <<user, sanctions, tries>>
        /\ sessions' \in [SessionIds -> SessionState] /\ sockets' \in [SessionIds -> SocketState]
    <3>1. CASE CommitLogin(h)
      BY <1>1, <3>1 DEF CommitLogin, Finish, SessionState
    <3>2. CASE CommitRefresh(h) \/ Abort(h)
      BY <1>1, <3>2 DEF CommitRefresh, Abort, Finish
    <3>3. CASE Effects(h)
      BY <1>1, <3>3 DEF Effects, Finish, SocketState
    <3> QED
      BY <1>4, <3>1, <3>2, <3>3
  <2> QED
    BY <2>1, IdleTyped, QuietThread
<1> QED
  BY <1>2, <1>3, <1>4

\* So do the steps of sessions and sockets.
LEMMA SessionStepsKeep ==
  ASSUME AccountInv,
         \/ \E s \in SessionIds :
               \/ RefreshBanned(s) \/ Logout({s}) \/ SessionExpires(s)
               \/ Handshake(s) \/ Join(s) \/ SocketRefused(s) \/ TokenExpires(s)
         \/ Logout(Live)
  PROVE  AccountInv'
<1>1. sessions \in [SessionIds -> SessionState] /\ sockets \in [SessionIds -> SocketState]
  BY DEF AccountInv, AccountsTyped
<1>2. /\ UNCHANGED <<user, sanctions, work, tries>>
      /\ sessions' \in [SessionIds -> SessionState] /\ sockets' \in [SessionIds -> SocketState]
  <2>1. CASE \E s \in SessionIds : RefreshBanned(s) \/ SessionExpires(s)
    BY <1>1, <2>1 DEF RefreshBanned, SessionExpires, SessionState
  <2>2. CASE \E S : Logout(S)
    BY <1>1, <2>2 DEF Logout, EndSessions, SessionState
  <2>3. CASE \E s \in SessionIds : Handshake(s) \/ Join(s) \/ SocketRefused(s) \/ TokenExpires(s)
    BY <1>1, <2>3 DEF Handshake, Join, SocketRefused, TokenExpires, SocketState
  <2> QED
    BY <2>1, <2>2, <2>3
<1> QED
  BY <1>2, QuietStep

LEMMA RestartKeeps ==
  ASSUME AccountInv, Restart
  PROVE  AccountInv'
<1>1. /\ work' = [h \in Threads |-> Idle] /\ UNCHANGED <<user, sanctions, sessions, tries>>
      /\ sockets' \in [SessionIds -> SocketState]
  BY DEF Restart, SocketState
<1>2. \A h \in Threads : work'[h] = Idle
  BY <1>1
<1>3. AccountsTyped' /\ TimedRows'
  BY <1>1, IdleTyped DEF AccountInv, AccountsTyped, TimedRows
<1>4. OneModerator' /\ RowsTried' /\ ClaimedRows' /\ ModeratorKnows'
  BY <1>1, <1>2, IdleTyped DEF AccountInv, OneModerator, HoldsUser, RowsTried, ClaimedRows, ModeratorKnows
<1>5. \A type : (Active(type)' = Active(type)) /\ (CachedAs(type)' <=> CachedAs(type))
  BY <1>1 DEF Active, CachedAs
<1>6. OneActive' /\ RowsCached'
  BY <1>5 DEF AccountInv, OneActive, RowsCached
<1> QED
  BY <1>3, <1>4, <1>6 DEF AccountInv

LEMMA AccountInvInit == AccountInit => AccountInv
<1> SUFFICES ASSUME AccountInit PROVE AccountInv
  OBVIOUS
<1>1. /\ user.status = "active" /\ user.chatRestricted = FALSE /\ sanctions = <<>> /\ tries = 0
      /\ user \in [status: AccountStatus, chatRestricted: BOOLEAN]
      /\ DOMAIN sanctions = {} /\ Len(sanctions) = 0
      /\ \A h \in Threads : work[h] = Idle
  BY DEF AccountInit, AccountStatus
<1>2. AccountsTyped
  BY <1>1, IdleTyped, AccountsAssumption DEF AccountInit, AccountsTyped, SessionState, SocketState
<1>3. OneModerator /\ RowsTried /\ TimedRows /\ ClaimedRows /\ ModeratorKnows
  BY <1>1, IdleTyped DEF OneModerator, HoldsUser, RowsTried, TimedRows, ClaimedRows, ModeratorKnows
<1>4. \A type : Active(type) = {}
  BY <1>1 DEF Active
<1>5. OneActive /\ RowsCached
  BY <1>1, <1>4 DEF OneActive, RowsCached, CachedAs, Restrictions, SanctionTypes
<1> QED
  BY <1>2, <1>3, <1>5 DEF AccountInv

LEMMA AccountInvNext == AccountInv /\ [AccountNext]_accountVars => AccountInv'
<1> SUFFICES ASSUME AccountInv, [AccountNext]_accountVars PROVE AccountInv'
  OBVIOUS
<1>1. \A h \in Slots : h \in Threads
  BY DEF Threads
<1>2. ASSUME NEW h \in Slots, \E type \in SanctionTypes, ends \in {"never", "later"} : BeginApply(h, type, ends)
      PROVE  AccountInv'
  BY <1>2, BeginApplyKeeps
<1>3. ASSUME NEW h \in Slots, \E type \in Restrictions : BeginLift(h, type)
      PROVE  AccountInv'
  BY <1>3, BeginLiftKeeps
<1>4. ASSUME NEW h \in Slots,
             (\E s \in SessionIds : BeginLogin(h, s))
             \/ (\E s \in SessionIds, touches \in BOOLEAN : BeginRefresh(h, s, touches))
      PROVE  AccountInv'
  BY <1>1, <1>4, QuietRequestsKeep
<1>5. ASSUME NEW h \in Slots, Queue(h) \/ Commit(h)
      PROVE  AccountInv'
  BY <1>1, <1>5, QueueKeeps, CommitApplyKeeps, CommitLiftKeeps, QuietRequestsKeep DEF Commit
<1>6. ASSUME NEW h \in Threads, Abort(h)
      PROVE  AccountInv'
  BY <1>6, QuietRequestsKeep
<1>7. CASE BeginExpire \/ CommitExpire \/ Restart
  BY <1>7, BeginExpireKeeps, CommitExpireKeeps, RestartKeeps
<1>8. ASSUME NEW i \in DOMAIN sanctions, AcknowledgeWarning(i) \/ TimePasses(i)
      PROVE  AccountInv'
  BY <1>8, RowStepsKeep
<1>9. CASE \/ \E s \in SessionIds :
                 \/ RefreshBanned(s) \/ Logout({s}) \/ SessionExpires(s)
                 \/ Handshake(s) \/ Join(s) \/ SocketRefused(s) \/ TokenExpires(s)
           \/ Logout(Live)
  BY <1>9, SessionStepsKeep
<1>10. CASE UNCHANGED accountVars
  BY <1>10, QuietStep DEF accountVars, AccountInv, AccountsTyped
<1> QED
  BY <1>2, <1>3, <1>4, <1>5, <1>6, <1>7, <1>8, <1>9, <1>10 DEF AccountNext, Restrictions

LEMMA AccountInvHolds == AccountSpec => []AccountInv
<1>1. AccountInit => AccountInv
  BY AccountInvInit
<1>2. AccountInv /\ [AccountNext]_accountVars => AccountInv'
  BY AccountInvNext
<1> QED
  BY <1>1, <1>2, PTL DEF AccountSpec

\* The account row, the sanction rows, sessions, sockets and transactions stay within their
\* types, and no sanction is written that was not tried (sanctions.ts).
THEOREM AccountTypes == AccountSpec => []AccountTypeOK
<1>1. AccountInv => AccountTypeOK
  <2> SUFFICES ASSUME AccountInv PROVE AccountTypeOK
    OBVIOUS
  <2>1. Len(sanctions) <= MaxSanctions
    BY SanctionsDomain, AccountsAssumption DEF AccountInv, AccountsTyped, RowsTried
  <2> QED
    BY <2>1 DEF AccountInv, AccountsTyped, AccountTypeOK
<1> QED
  BY <1>1, AccountInvHolds, PTL

\* users.status and chat_restricted_at say what the active sanction rows say, with at most one
\* active row of each restricting type, for any number of moderators and sanctions, although
\* apply and lift lock the users row first and the expiry job locks it last (sanctions.ts:
\* applySanction, liftSanction, expireSanctions).
THEOREM CachedStatusAgrees == AccountSpec => []CacheAgrees
<1>1. AccountInv => CacheAgrees
  <2> SUFFICES ASSUME AccountInv PROVE CacheAgrees
    OBVIOUS
  <2>1. ASSUME NEW type \in Restrictions PROVE Cardinality(Active(type)) <= 1
    <3>1. CASE Active(type) = {}
      BY <3>1, FS_EmptySet
    <3>2. CASE Active(type) # {}
      <4>1. PICK i : i \in Active(type)
        BY <3>2
      <4>2. Active(type) = {i}
        BY <4>1 DEF AccountInv, OneActive
      <4>3. Cardinality({i}) = 1
        BY FS_Singleton
      <4> QED
        BY <4>2, <4>3
    <3> QED
      BY <3>1, <3>2
  <2>2. /\ user.status = "banned" <=> Active("ban") # {}
        /\ user.status = "suspended" <=> Active("suspension") # {}
        /\ user.chatRestricted <=> Active("chat_restriction") # {}
    BY DEF AccountInv, RowsCached, CachedAs, Restrictions, SanctionTypes
  <2> QED
    BY <2>1, <2>2 DEF CacheAgrees, Restrictions
<1> QED
  BY <1>1, AccountInvHolds, PTL

=============================================================================
