------------------------- MODULE VerificationCodes -------------------------
(***************************************************************************)
(* The verification code of one account that has signed up: how it is      *)
(* mailed, guessed, used up, replaced and limited (auth.service.ts signup, *)
(* verifyEmail, resendOtp).  Each route first reads the user document,     *)
(* decides with one `new Date()`, and later updates the document by _id,   *)
(* whatever happened to it in between.                                     *)
(*                                                                         *)
(* Codes are numbered in the order they are generated; 0 is "no code".  A  *)
(* guess is the number of the code presented, 0 for one never generated.   *)
(***************************************************************************)
EXTENDS Naturals, FiniteSets

CONSTANTS
    Requests,       \* slots for requests in flight (bound on concurrency)
    Ttl,            \* AUTH_EMAIL_VERIFICATION_TTL_MS
    MaxAttempts,    \* AUTH_EMAIL_VERIFICATION_MAX_ATTEMPTS
    Cooldown,       \* AUTH_OTP_RESEND_COOLDOWN_MS
    Window,         \* AUTH_OTP_RATE_WINDOW_MS
    MaxSends,       \* AUTH_OTP_MAX_SENDS_PER_WINDOW
    MaxCodes,       \* bound: codes generated
    MaxTime,        \* bound: the last instant looked at
    None            \* no document, or a date that is not set

\* numericConfig floors what is above 0, so that 0.5 gives 0.
ASSUME ConfigAssumption ==
    {Ttl, MaxAttempts, Cooldown, Window, MaxSends, MaxCodes, MaxTime} \subseteq Nat


Channels == {"web", "mobile"}       \* the header `platform` of the request
Date == Nat \cup {None}

\* The fields of the user document.  At most one of emailVerificationToken
\* (web) and otpVerificationCode (mobile) is set: `code`, of `channel`.
User == [isVerified : BOOLEAN, code : Nat, channel : Channels, expires : Date,
         attempts : Nat, lastSentAt : Date, windowStartedAt : Date, sendCount : Nat]

ASSUME AbsenceAssumption == None \notin Nat /\ None \notin User

Pcs == {"idle", "mail", "countGuess", "accept", "store"}

\* `seen`: how many codes there were when the request read the document.
Request == [pc : Pcs, seen : Nat, attempts : Nat, now : Nat,
            windowStartedAt : Date, sendCount : Nat]

Races == {"guess", "late", "send"}

VARIABLES
    user,       \* the user document, or None
    clock,      \* the time
    req,        \* the requests in flight
    issued,     \* how many codes were generated
    known,      \* the codes the mailbox has received
    sentAt,     \* history: the date each code was stored with
    wrong,      \* history: wrong guesses counted for each code
    raced       \* history: which kinds of stale updates have happened

vars == <<user, clock, req, issued, known, sentAt, wrong, raced>>

Idle == [pc |-> "idle", seen |-> 0, attempts |-> 0, now |-> 0,
         windowStartedAt |-> None, sendCount |-> 0]

Codes == 1..MaxCodes

Begin(r, request) == req[r].pc = "idle" /\ req' = [req EXCEPT ![r] = request]
End(r) == req' = [req EXCEPT ![r] = Idle]

Init ==
    /\ user = None
    /\ clock = 0
    /\ req = [r \in Requests |-> Idle]
    /\ issued = 0
    /\ known = {}
    /\ sentAt = [c \in Codes |-> None]
    /\ wrong = [c \in Codes |-> 0]
    /\ raced = {}

\* The window a date falls in goes on, or a new one starts at it.
WindowIsActive(u, now) == u.windowStartedAt # None /\ now < u.windowStartedAt + Window

----------------------------------------------------------------------------
(* Altered forms of the definitions below, each a slip the code could have *)
(* made; put in the place of the original they show which property notices.*)

FreshCodeOldAttempts(u, channel, now) ==
    [u EXCEPT !.code = issued + 1, !.channel = channel, !.expires = now + Ttl,
              !.lastSentAt = now]

FreshCodeUndated(u, channel, now) ==
    [u EXCEPT !.code = issued + 1, !.channel = channel, !.expires = now + Ttl,
              !.attempts = 0]

\* Unsets the code and leaves the number of attempts as it is.
CountGuessUncounted(r) ==
    /\ req[r].pc = "countGuess"
    /\ wrong' = [wrong EXCEPT ![req[r].seen] = @ + 1]
    /\ user' = IF req[r].attempts + 1 >= MaxAttempts
               THEN [user EXCEPT !.code = 0, !.expires = None] ELSE user
    /\ raced' = raced
    /\ End(r)
    /\ UNCHANGED <<clock, issued, known, sentAt>>

----------------------------------------------------------------------------
(* The code fields                                                         *)

\* Both code fields and their expiry unset.
WithoutCode(u) == [u EXCEPT !.code = 0, !.expires = None]

\* verificationTtlMs from `now`.
FreshCode(u, channel, now) ==
    [u EXCEPT !.code = issued + 1, !.channel = channel, !.expires = now + Ttl,
              !.attempts = 0, !.lastSentAt = now]

----------------------------------------------------------------------------
(* POST /auth/signup                                                       *)

Signup(r, channel) ==
    /\ user = None
    /\ user' = [FreshCode([isVerified |-> FALSE, code |-> 0, channel |-> channel,
                           expires |-> None, attempts |-> 0, lastSentAt |-> None,
                           windowStartedAt |-> None, sendCount |-> 0], channel, clock)
                EXCEPT !.windowStartedAt = clock, !.sendCount = 1]
    /\ issued + 1 \in Codes
    /\ issued' = issued + 1
    /\ sentAt' = [sentAt EXCEPT ![issued + 1] = clock]
    /\ Begin(r, [Idle EXCEPT !.pc = "mail", !.seen = issued + 1])
    /\ UNCHANGED <<clock, known, wrong, raced>>

\* sendVerificationEmail, sendOtpEmail: the code reaches the mailbox.
Mail(r) ==
    /\ req[r].pc = "mail"
    /\ known' = known \cup {req[r].seen}
    /\ End(r)
    /\ UNCHANGED <<user, clock, issued, sentAt, wrong, raced>>

----------------------------------------------------------------------------
(* POST /auth/verify-email                                                 *)

Verifiable(channel) ==
    /\ user # None
    /\ ~user.isVerified
    /\ user.code # 0 /\ user.channel = channel
    /\ clock < user.expires
    /\ user.attempts < MaxAttempts

\* A guess that fails a check before the comparison changes nothing.
VerifyRead(r, channel, guess) ==
    /\ Verifiable(channel)
    /\ Begin(r, [Idle EXCEPT !.pc = IF guess = user.code THEN "accept" ELSE "countGuess",
                             !.seen = issued, !.attempts = user.attempts])
    /\ UNCHANGED <<user, clock, issued, known, sentAt, wrong, raced>>

\* `raced`: the code was replaced, or another guess was counted or accepted,
\* since the read.
CountGuess(r) ==
    LET attempts == req[r].attempts + 1
        counted == [user EXCEPT !.attempts = attempts]
    IN  /\ req[r].pc = "countGuess"
        /\ wrong' = [wrong EXCEPT ![req[r].seen] = @ + 1]
        /\ user' = IF attempts >= MaxAttempts THEN WithoutCode(counted) ELSE counted
        /\ raced' = raced
             \cup (IF req[r].seen # issued THEN {"late"} ELSE {})
             \cup (IF req[r].attempts # user.attempts \/ user.isVerified THEN {"guess"} ELSE {})
        /\ End(r)
        /\ UNCHANGED <<clock, issued, known, sentAt>>

Accept(r) ==
    /\ req[r].pc = "accept"
    /\ user' = [WithoutCode(user) EXCEPT
                  !.isVerified = TRUE, !.attempts = 0, !.lastSentAt = None,
                  !.windowStartedAt = None, !.sendCount = 0]
    /\ End(r)
    /\ UNCHANGED <<clock, issued, known, sentAt, wrong, raced>>

----------------------------------------------------------------------------
(* PATCH /auth/resend-otp                                                  *)

Cooled == user.lastSentAt # None => clock >= user.lastSentAt + Cooldown
SendsBefore == IF WindowIsActive(user, clock) THEN user.sendCount ELSE 0

ResendRead(r) ==
    /\ user # None
    /\ ~user.isVerified
    /\ Cooled
    /\ SendsBefore < MaxSends
    /\ Begin(r, [pc |-> "store", seen |-> issued, attempts |-> 0, now |-> clock,
                 windowStartedAt |-> IF WindowIsActive(user, clock)
                                     THEN user.windowStartedAt ELSE clock,
                 sendCount |-> SendsBefore + 1])
    /\ UNCHANGED <<user, clock, issued, known, sentAt, wrong, raced>>

\* `raced`: another code was stored since the read.
ResendStore(r) ==
    /\ req[r].pc = "store"
    /\ issued + 1 \in Codes
    /\ user' = [FreshCode(user, "mobile", req[r].now)
                EXCEPT !.windowStartedAt = req[r].windowStartedAt,
                       !.sendCount = req[r].sendCount]
    /\ issued' = issued + 1
    /\ sentAt' = [sentAt EXCEPT ![issued + 1] = req[r].now]
    /\ raced' = raced \cup (IF req[r].seen # issued THEN {"send"} ELSE {})
    /\ req' = [req EXCEPT ![r] = [Idle EXCEPT !.pc = "mail", !.seen = issued + 1]]
    /\ UNCHANGED <<clock, known, wrong>>

----------------------------------------------------------------------------
(* Signing in with Google, time, and requests that die                     *)

\* createGoogleUser finds the account by its address and links it.
LinkGoogle ==
    /\ user # None
    /\ ~user.isVerified
    /\ user' = [user EXCEPT !.isVerified = TRUE]
    /\ UNCHANGED <<clock, req, issued, known, sentAt, wrong, raced>>

Tick ==
    /\ clock < MaxTime
    /\ clock' = clock + 1
    /\ UNCHANGED <<user, req, issued, known, sentAt, wrong, raced>>

RequestDies(r) ==
    /\ req[r].pc # "idle"
    /\ End(r)
    /\ UNCHANGED <<user, clock, issued, known, sentAt, wrong, raced>>

Next ==
    \/ \E r \in Requests :
          \/ \E channel \in Channels : Signup(r, channel)
          \/ \E channel \in Channels, guess \in known \cup {0} : VerifyRead(r, channel, guess)
          \/ Mail(r) \/ CountGuess(r) \/ Accept(r)
          \/ ResendRead(r) \/ ResendStore(r) \/ RequestDies(r)
    \/ LinkGoogle \/ Tick

Spec == Init /\ [][Next]_vars

----------------------------------------------------------------------------
(* What the verification codes promise                                     *)

\* The user document keeps to users.schema.ts.
TypeOK ==
    /\ user \in User \cup {None}
    /\ {clock, issued} \subseteq Nat
    /\ req \in [Requests -> Request]
    /\ known \subseteq Codes
    /\ sentAt \in [Codes -> Date]
    /\ wrong \in [Codes -> Nat]
    /\ raced \subseteq Races

\* No code is guessed at more than MaxAttempts times, over all requests,
\* unless two guesses at it overlapped or one at its predecessor came late.
GuessesBounded ==
    raced \cap {"guess", "late"} = {} => \A c \in Codes : wrong[c] <= MaxAttempts

\* "Too many verification attempts. Request a new code." (line 265): the new
\* code of an account that is not verified is unset by nothing but its own
\* MaxAttempts wrong guesses, unless a guess at its predecessor came late.
FreshCodeStays ==
    /\ user # None /\ ~user.isVerified /\ user.code # issued
    /\ "late" \notin raced
    => wrong[issued] >= MaxAttempts

\* The codes stored in the window that starts at a date.
SentIn(start) == {c \in 1..issued : start <= sentAt[c] /\ sentAt[c] < start + Window}

\* Unless two sends overlapped, codes are stored a cooldown apart, and no
\* more than MaxSends of them in the window that is running.
SendsLimited ==
    "send" \notin raced =>
        /\ \A c \in 1..issued : c > 1 => sentAt[c] >= sentAt[c - 1] + Cooldown
        /\ user # None /\ user.windowStartedAt # None /\ issued > 1
           => Cardinality(SentIn(user.windowStartedAt)) <= MaxSends

=============================================================================
