---------------------------- MODULE PhoneSignIn ----------------------------
(* The sign-in flow of the web app: the login page, the code page, and the    *)
(* phone-sign-in object both share, which talks to Firebase (external).       *)
(* Every call to Firebase takes time; the member may go back to the login     *)
(* page, tap twice or close the reCAPTCHA challenge meanwhile.                *)
EXTENDS Naturals, FiniteSets, Sequences

CONSTANTS
    Phones, NoPhone,
    Checks,        \* bound: codes being checked at a time
    MaxVerifiers,  \* bound: reCAPTCHA checks created
    MaxCodes       \* bound: codes sent

ASSUME PhoneSignInAssumption ==
    NoPhone \notin Phones /\ MaxVerifiers \in Nat /\ MaxCodes \in Nat

VARIABLES
    page,       \* "login", "verify" or "home"
    entered,    \* the number the member has submitted on the login page
    verifier,   \* the object's verifier: the number of a created check, 0 for none
    created,    \* checks created so far
    codes,      \* the numbers Firebase has sent a code to; a code is its place here
    pending,    \* the code that waits to be entered, 0 for none
    sending,    \* requestCode() in flight: its number, the step, and whether a login page waits
    confirmed,  \* the code whose accepted answer is kept, and the user it came with
    checks,     \* the submissions of the code page in flight
    spent,      \* Firebase: codes that have been confirmed
    answered    \* history: codes whose accepted answer has reached the page

phoneVars == <<page, entered, verifier, created, codes, pending, sending, confirmed, checks, spent, answered>>

NotSending == [phone |-> NoPhone, step |-> "none", opens |-> FALSE]
NoneKept == [code |-> 0, user |-> NoPhone]

\* at: asked of Firebase, accepted by it, or with its token on the way to the API.  sent: the
\* pending code it was asked about.  mine: the code page it was submitted on is still open.
NoCheck == [at |-> "none", code |-> 0, sent |-> 0, user |-> NoPhone, mine |-> FALSE]

PhoneInit ==
    /\ page = "login"
    /\ entered = NoPhone
    /\ verifier = 0 /\ created = 0
    /\ codes = <<>> /\ pending = 0
    /\ sending = NotSending
    /\ confirmed = NoneKept
    /\ checks = [i \in Checks |-> NoCheck]
    /\ spent = {} /\ answered = {}

\* discardVerifier(): clear() on the object's current check.
Discard == verifier' = 0

\* requestCode(): a call while one is in flight joins it. opens: the login page waits for it.
RequestCode(p, opens) ==
    IF sending = NotSending
    THEN /\ verifier # 0 \/ created < MaxVerifiers
         /\ sending' = [phone |-> p, opens |-> opens,
                        step |-> IF verifier = 0 THEN "create" ELSE "send"]
    ELSE sending' = [sending EXCEPT !.opens = @ \/ opens]

\* The form is disabled while its own request is in flight.
Submit(p) ==
    /\ page = "login"
    /\ entered = NoPhone \/ sending = NotSending
    /\ entered' = p
    /\ RequestCode(p, TRUE)
    /\ UNCHANGED <<page, verifier, created, codes, pending, confirmed, checks, spent, answered>>

\* The code page's buttons are disabled while its own submission is in flight.
Submitting == \E i \in Checks : checks[i].mine

Resend ==
    /\ page = "verify" /\ pending # 0 /\ ~Submitting
    /\ RequestCode(codes[pending], FALSE)
    /\ UNCHANGED <<page, entered, verifier, created, codes, pending, confirmed, checks, spent, answered>>

\* createVerifier() has loaded the reCAPTCHA.
VerifierReady ==
    /\ sending.step = "create"
    /\ created' = created + 1
    /\ verifier' = created'
    /\ sending' = [sending EXCEPT !.step = "send"]
    /\ UNCHANGED <<page, entered, codes, pending, confirmed, checks, spent, answered>>

\* sendCode() succeeds: the code waits; a login page that waited goes on to the code page,
\* even if the member has left it meanwhile. Who is signed in by then stays on the home page.
CodeSent ==
    /\ sending.step = "send" /\ Len(codes) < MaxCodes
    /\ codes' = Append(codes, sending.phone)
    /\ pending' = Len(codes')
    /\ confirmed' = NoneKept
    /\ page' = IF sending.opens /\ page # "home" THEN "verify" ELSE page
    /\ sending' = NotSending
    /\ UNCHANGED <<entered, verifier, created, checks, spent, answered>>

\* Firebase refuses, the challenge is closed, or SEND_TIMEOUT_MS passes.
SendFails ==
    /\ sending.step \in {"create", "send"}
    /\ Discard
    /\ sending' = NotSending
    /\ UNCHANGED <<page, entered, created, codes, pending, confirmed, checks, spent, answered>>

\* A solved check goes stale.
VerifierExpires ==
    /\ verifier # 0
    /\ Discard
    /\ UNCHANGED <<page, entered, created, codes, pending, sending, confirmed, checks, spent, answered>>

\* reset(), when the login page opens and after the session has started.
Reset == pending' = 0 /\ confirmed' = NoneKept /\ Discard

\* "Change number", or the browser's Back, which no submission in flight disables.
BackToLogin ==
    /\ page = "verify"
    /\ page' = "login" /\ entered' = NoPhone
    /\ Reset
    /\ checks' = [i \in Checks |-> [checks[i] EXCEPT !.mine = FALSE]]
    /\ UNCHANGED <<created, codes, sending, spent, answered>>

LeaveAndReturn ==
    /\ page = "login" /\ entered # NoPhone
    /\ entered' = NoPhone
    /\ Reset
    /\ UNCHANGED <<page, created, codes, sending, checks, spent, answered>>

-----------------------------------------------------------------------------
(* The code page: Firebase checks the code, then the API starts the session *)

\* A wrong KeptFor: whatever was accepted is taken for the code that is entered.
KeptForAny(c) == confirmed.code # 0

\* Firebase confirms a code once: its answer is kept and used when the code comes again.
KeptFor(c) == confirmed.code = c

\* The member enters one of the codes that were sent (no two are equal; a code that was never
\* sent is refused and changes nothing).
SubmitCode(i, c) ==
    /\ page = "verify" /\ pending # 0 /\ sending = NotSending /\ ~Submitting
    /\ checks[i] = NoCheck
    /\ checks' = [checks EXCEPT ![i] =
          [at |-> IF KeptFor(c) THEN "token" ELSE "asked", code |-> c, sent |-> pending,
           user |-> IF KeptFor(c) THEN confirmed.user ELSE NoPhone, mine |-> TRUE]]
    /\ UNCHANGED <<page, entered, verifier, created, codes, pending, sending, confirmed, spent, answered>>

\* Firebase (external): the right code of the message that was asked about, for the first time.
FirebaseAccepts(i) ==
    /\ checks[i].at = "asked"
    /\ checks[i].code = checks[i].sent /\ checks[i].code \notin spent
    /\ spent' = spent \cup {checks[i].code}
    /\ checks' = [checks EXCEPT ![i].at = "accepted"]
    /\ UNCHANGED <<page, entered, verifier, created, codes, pending, sending, confirmed, answered>>

\* The answer arrives and is kept, whatever code the page waits for by now.
AcceptedArrives(i) ==
    /\ checks[i].at = "accepted"
    /\ LET c == checks[i].code IN
       /\ confirmed' = [code |-> c, user |-> codes[c]]
       /\ checks' = [checks EXCEPT ![i].at = "token", ![i].user = codes[c]]
       /\ answered' = answered \cup {c}
    /\ UNCHANGED <<page, entered, verifier, created, codes, pending, sending, spent>>

\* Firebase refuses the code, the network loses the question or its answer, or the API is not
\* reached with the token: the page shows the error.
CheckFails(i) ==
    /\ checks[i].at # "none"
    /\ checks' = [checks EXCEPT ![i] = NoCheck]
    /\ UNCHANGED <<page, entered, verifier, created, codes, pending, sending, confirmed, spent, answered>>

\* The API starts the session of the token's user, also when the page it came from was left.
SessionStarts(i) ==
    /\ checks[i].at = "token"
    /\ page' = "home" /\ Reset
    /\ checks' = [j \in Checks |-> IF j = i THEN NoCheck ELSE [checks[j] EXCEPT !.mine = FALSE]]
    /\ UNCHANGED <<entered, created, codes, sending, spent, answered>>

PhoneNext ==
    \/ \E p \in Phones : Submit(p)
    \/ Resend
    \/ VerifierReady \/ CodeSent \/ SendFails \/ VerifierExpires
    \/ BackToLogin \/ LeaveAndReturn
    \/ \E i \in Checks :
          \/ \E c \in DOMAIN codes : SubmitCode(i, c)
          \/ FirebaseAccepts(i) \/ AcceptedArrives(i) \/ CheckFails(i) \/ SessionStarts(i)

PhoneSpec == PhoneInit /\ [][PhoneNext]_phoneVars

-----------------------------------------------------------------------------
(* Properties *)

\* The token that is posted to the API belongs to the number whose code was entered, whatever
\* answers come late, are lost or are kept for an earlier number (phone-sign-in.ts: confirmCode).
TokenOfEnteredCode ==
    \A i \in Checks : checks[i].at = "token" => checks[i].user = codes[checks[i].code]

\* "A code Firebase already accepted: it cannot be confirmed twice, so the result is kept"
\* (phone-sign-in.ts:148): once its answer has arrived, the waiting code can be entered again when
\* the API was not reached. Does not hold: the late answer for an earlier code takes its place.
AcceptedCodeUsable ==
    page = "verify" /\ pending \in answered => KeptFor(pending)

\* The code page belongs to the number the member submitted last: arriving at the login page
\* forgets the earlier one (LoginPage.tsx, "any earlier code is forgotten"). Does not hold: a
\* member who comes back to the page while a code is being sent and submits another number
\* joins the request in flight, and the code page opens for the first number.
CodeForEnteredNumber ==
    page = "verify" /\ entered # NoPhone /\ pending # 0 => codes[pending] = entered

=============================================================================
