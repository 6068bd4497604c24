---------------------- MODULE VerificationCodesProofs ----------------------
(***************************************************************************)
(* Theorems about VerificationCodes, for any number of requests, codes and *)
(* guesses, and any cooldown and window, zero included.                    *)
(***************************************************************************)
EXTENDS VerificationCodes, FiniteSetTheorems, TLAPS

----------------------------------------------------------------------------
(* Types                                                                   *)

\* A request in flight has found the document, and seen only codes there are.
Shaped(q, u, n) ==
    /\ q.seen \in 0..n
    /\ q.pc # "idle" => u # None
    /\ q.pc \in {"mail", "countGuess"} => q.seen \in Codes
    /\ q.pc = "countGuess" => q.attempts < MaxAttempts
    /\ q.pc = "store" => q.windowStartedAt \in Nat

\* The document has the last code that was generated, or none.
Typed ==
    /\ TypeOK
    /\ user # None => issued \in Codes /\ user.code \in {0, issued}
    /\ user = None => issued = 0
    /\ \A r \in Requests : Shaped(req[r], user, issued)

LEMMA Constants ==
    /\ Ttl \in Nat /\ MaxAttempts \in Nat /\ Cooldown \in Nat /\ Window \in Nat
    /\ MaxSends \in Nat /\ MaxCodes \in Nat /\ MaxTime \in Nat
    /\ None \notin Nat /\ None \notin User /\ Codes \subseteq Nat /\ 0 \notin Codes
  BY ConfigAssumption, AbsenceAssumption DEF Codes

LEMMA IdleTyped == Idle \in Request /\ Idle.pc = "idle" /\ Idle.seen = 0
  BY DEF Idle, Request, Pcs, Date

\* The request that mails the code n.
Mailing(n) == [Idle EXCEPT !.pc = "mail", !.seen = n]

LEMMA MailTyped ==
    ASSUME NEW n \in Nat
    PROVE  Mailing(n) \in Request /\ Mailing(n).pc = "mail" /\ Mailing(n).seen = n
<1> DEFINE q == [Idle EXCEPT !.pc = "mail"]
<1>1. q \in Request /\ q.pc = "mail"
  BY DEF Idle, Request, Pcs, Date
<1>2. Mailing(n) = [q EXCEPT !.seen = n]
  BY DEF Mailing
<1> HIDE DEF q
<1> QED
  BY <1>1, <1>2 DEF Request

LEMMA FreshCodeTyped ==
    ASSUME Typed, NEW u \in User, NEW channel \in Channels, NEW now \in Nat
    PROVE  /\ FreshCode(u, channel, now) \in User
           /\ FreshCode(u, channel, now).code = issued + 1
           /\ FreshCode(u, channel, now).isVerified = u.isVerified
           /\ FreshCode(u, channel, now).attempts = 0
           /\ FreshCode(u, channel, now).lastSentAt = now
<1>1. issued + 1 \in Nat /\ now + Ttl \in Date /\ now \in Date
  BY Constants DEF Typed, TypeOK, Date
<1> QED
  BY <1>1 DEF FreshCode, User

\* What a new account is stored as.
NewUser(channel) ==
    [FreshCode([isVerified |-> FALSE, code |-> 0, channel |-> channel,
                expires |-> None, attempts |-> 0, lastSentAt |-> None,
                windowStartedAt |-> None, sendCount |-> 0], channel, clock)
     EXCEPT !.windowStartedAt = clock, !.sendCount = 1]

LEMMA SignupUser ==
    ASSUME Typed, NEW channel \in Channels
    PROVE  /\ NewUser(channel) \in User
           /\ NewUser(channel).code = issued + 1
           /\ NewUser(channel).isVerified = FALSE
           /\ NewUser(channel).attempts = 0
           /\ NewUser(channel).lastSentAt = clock
           /\ NewUser(channel).windowStartedAt = clock
           /\ NewUser(channel).sendCount = 1
<1> DEFINE u == [isVerified |-> FALSE, code |-> 0, channel |-> channel,
                 expires |-> None, attempts |-> 0, lastSentAt |-> None,
                 windowStartedAt |-> None, sendCount |-> 0]
           v == FreshCode(u, channel, clock)
<1>1. u \in User /\ u.isVerified = FALSE
  BY DEF User, Date
<1>2. clock \in Nat
  BY DEF Typed, TypeOK
<1> HIDE DEF u
<1>3. /\ v \in User /\ v.code = issued + 1 /\ v.isVerified = FALSE
      /\ v.attempts = 0 /\ v.lastSentAt = clock
  BY <1>1, <1>2, FreshCodeTyped
<1>4. NewUser(channel) = [v EXCEPT !.windowStartedAt = clock, !.sendCount = 1]
  BY DEF NewUser, u
<1> HIDE DEF v
<1> DEFINE w == [v EXCEPT !.windowStartedAt = clock, !.sendCount = 1]
<1>5. w \in User
  BY <1>2, <1>3 DEF User, Date
<1>6. /\ w.code = issued + 1 /\ w.isVerified = FALSE /\ w.attempts = 0
      /\ w.lastSentAt = clock /\ w.windowStartedAt = clock /\ w.sendCount = 1
  BY <1>3 DEF User
<1> QED
  BY <1>4, <1>5, <1>6

\* What a resend stores, by the request that has checked the limits.
ResentUser(q) ==
    [FreshCode(user, "mobile", q.now)
     EXCEPT !.windowStartedAt = q.windowStartedAt, !.sendCount = q.sendCount]

LEMMA ResendUser ==
    ASSUME Typed, user # None, NEW q \in Request
    PROVE  /\ ResentUser(q) \in User
           /\ ResentUser(q).code = issued + 1
           /\ ResentUser(q).isVerified = user.isVerified
           /\ ResentUser(q).attempts = 0
           /\ ResentUser(q).lastSentAt = q.now
           /\ ResentUser(q).windowStartedAt = q.windowStartedAt
           /\ ResentUser(q).sendCount = q.sendCount
<1>1. user \in User /\ q.now \in Nat /\ "mobile" \in Channels
  BY DEF Typed, TypeOK, Request, Channels
<1> DEFINE u == FreshCode(user, "mobile", q.now)
<1>2. /\ u \in User /\ u.code = issued + 1 /\ u.isVerified = user.isVerified
      /\ u.attempts = 0 /\ u.lastSentAt = q.now
  BY <1>1, FreshCodeTyped
<1>3. ResentUser(q) = [u EXCEPT !.windowStartedAt = q.windowStartedAt, !.sendCount = q.sendCount]
  BY DEF ResentUser
<1> HIDE DEF u
<1> QED
  BY <1>2, <1>3 DEF User, Request, Date

\* What an accepted guess stores.
VerifiedUser ==
    [WithoutCode(user) EXCEPT !.isVerified = TRUE, !.attempts = 0, !.lastSentAt = None,
                              !.windowStartedAt = None, !.sendCount = 0]

LEMMA AcceptUser ==
    ASSUME Typed, user # None
    PROVE  /\ VerifiedUser \in User /\ VerifiedUser.code = 0
           /\ VerifiedUser.isVerified = TRUE /\ VerifiedUser.attempts = 0
           /\ VerifiedUser.windowStartedAt = None
  BY Constants DEF VerifiedUser, WithoutCode, User, Date, Typed, TypeOK

\* What a wrong guess stores, by the request that has read the attempts.
GuessedUser(q) ==
    LET counted == [user EXCEPT !.attempts = q.attempts + 1]
    IN  IF q.attempts + 1 >= MaxAttempts THEN WithoutCode(counted) ELSE counted

LEMMA CountGuessUser ==
    ASSUME Typed, user # None, NEW q \in Request
    PROVE  /\ GuessedUser(q) \in User
           /\ GuessedUser(q).attempts = q.attempts + 1
           /\ GuessedUser(q).isVerified = user.isVerified
           /\ GuessedUser(q).lastSentAt = user.lastSentAt
           /\ GuessedUser(q).windowStartedAt = user.windowStartedAt
           /\ GuessedUser(q).sendCount = user.sendCount
           /\ GuessedUser(q).code = IF q.attempts + 1 >= MaxAttempts THEN 0 ELSE user.code
<1> DEFINE u == [user EXCEPT !.attempts = q.attempts + 1]
<1>1. user \in User /\ q.attempts + 1 \in Nat
  BY DEF Typed, TypeOK, Request
<1>2. /\ u \in User /\ u.attempts = q.attempts + 1
      /\ u.isVerified = user.isVerified /\ u.lastSentAt = user.lastSentAt /\ u.code = user.code
      /\ u.windowStartedAt = user.windowStartedAt /\ u.sendCount = user.sendCount
  BY <1>1 DEF User
<1>3. GuessedUser(q) = IF q.attempts + 1 >= MaxAttempts THEN [u EXCEPT !.code = 0, !.expires = None] ELSE u
  BY DEF GuessedUser, WithoutCode
<1> HIDE DEF u
<1> DEFINE w == [u EXCEPT !.code = 0, !.expires = None]
<1>4. w \in User
  BY <1>2 DEF User, Date
<1>5. /\ w.code = 0 /\ w.attempts = u.attempts
      /\ w.isVerified = u.isVerified /\ w.lastSentAt = u.lastSentAt
      /\ w.windowStartedAt = u.windowStartedAt /\ w.sendCount = u.sendCount
  BY <1>2 DEF User
<1> HIDE DEF w
<1> QED
  BY <1>2, <1>3, <1>4, <1>5 DEF w

\* One request goes from one call to another, while codes are only added.
LEMMA TypedStep ==
    ASSUME Typed, NEW r \in Requests, NEW q \in Request, Shaped(q, user', issued'),
           req' = [req EXCEPT ![r] = q],
           issued' \in Nat, issued' >= issued, user # None => user' # None
    PROVE  req' \in [Requests -> Request] /\ \A p \in Requests : Shaped(req'[p], user', issued')
<1>1. req \in [Requests -> Request] /\ issued \in Nat
  BY DEF Typed, TypeOK
<1>2. \A p \in Requests : req'[p] = q \/ req'[p] = req[p]
  BY <1>1
<1>3. \A p \in Requests : req[p] \in Request /\ Shaped(req[p], user, issued)
  BY <1>1 DEF Typed
<1>4. \A p \in Requests : Shaped(req[p], user', issued')
  BY <1>1, <1>3 DEF Shaped, Request
<1>5. ASSUME NEW p \in Requests, req'[p] = q PROVE Shaped(req'[p], user', issued')
  BY <1>5 DEF Shaped
<1> QED
  BY <1>1, <1>2, <1>4, <1>5

LEMMA TypedInit == Init => Typed
  BY IdleTyped, Constants DEF Init, Typed, TypeOK, Shaped, Date

LEMMA TypedNext == Typed /\ [Next]_vars => Typed'
<1> SUFFICES ASSUME Typed, [Next]_vars PROVE Typed'
  OBVIOUS
<1>0. /\ TypeOK /\ req \in [Requests -> Request] /\ issued \in Nat /\ clock \in Nat
      /\ user # None => user \in User
      /\ \A r \in Requests : Shaped(req[r], user, issued) /\ req[r] \in Request
  BY DEF Typed, TypeOK
<1>1. ASSUME NEW r \in Requests, NEW channel \in Channels, Signup(r, channel) PROVE Typed'
  <2> DEFINE q == Mailing(issued + 1)
  <2>1. /\ user = None /\ issued' = issued + 1 /\ issued' \in Codes
        /\ user' = NewUser(channel) /\ req' = [req EXCEPT ![r] = q]
        /\ sentAt' = [sentAt EXCEPT ![issued + 1] = clock]
        /\ UNCHANGED <<clock, known, wrong, raced>>
    BY <1>1 DEF Signup, Begin, NewUser, Mailing
  <2>2. user' \in User /\ user' # None /\ user'.code = issued'
    BY <2>1, SignupUser, Constants
  <2>3. q \in Request /\ q.pc = "mail" /\ q.seen = issued + 1
    BY <1>0, MailTyped
  <2> HIDE DEF q
  <2>4. Shaped(q, user', issued')
    BY <1>0, <2>1, <2>2, <2>3 DEF Shaped
  <2>5. req' \in [Requests -> Request] /\ \A p \in Requests : Shaped(req'[p], user', issued')
    <3>1. req' = [req EXCEPT ![r] = q] /\ issued' \in Nat /\ issued' >= issued
      BY <1>0, <2>1
    <3> QED
      BY <2>2, <2>3, <2>4, <3>1, TypedStep
  <2>6. sentAt' \in [Codes -> Date]
    BY <1>0, <2>1 DEF TypeOK, Date
  <2> QED
    BY <1>0, <2>1, <2>2, <2>5, <2>6 DEF Typed, TypeOK
<1>2. ASSUME NEW r \in Requests, NEW channel \in Channels, NEW guess \in known \cup {0},
             VerifyRead(r, channel, guess)
      PROVE  Typed'
  <2> DEFINE q == [Idle EXCEPT !.pc = IF guess = user.code THEN "accept" ELSE "countGuess",
                               !.seen = issued, !.attempts = user.attempts]
  <2>1. /\ user # None /\ user.attempts < MaxAttempts /\ req' = [req EXCEPT ![r] = q]
        /\ UNCHANGED <<user, clock, issued, known, sentAt, wrong, raced>>
    BY <1>2 DEF VerifyRead, Verifiable, Begin
  <2>2. /\ q \in Request /\ q.pc \in {"accept", "countGuess"} /\ q.seen = issued
        /\ q.attempts = user.attempts
    BY <1>0, <2>1 DEF Idle, Request, Pcs, User, Date
  <2> HIDE DEF q
  <2>3. Shaped(q, user', issued')
    BY <1>0, <2>1, <2>2 DEF Shaped, Typed
  <2>4. req' \in [Requests -> Request] /\ \A p \in Requests : Shaped(req'[p], user', issued')
    BY <1>0, <2>1, <2>2, <2>3, TypedStep
  <2> QED
    BY <1>0, <2>1, <2>4 DEF Typed, TypeOK
<1>3. ASSUME NEW r \in Requests, Mail(r) \/ RequestDies(r) PROVE Typed'
  <2>1. /\ req' = [req EXCEPT ![r] = Idle]
        /\ UNCHANGED <<user, clock, issued, sentAt, wrong, raced>>
        /\ known' \subseteq Codes
    BY <1>0, <1>3 DEF Mail, RequestDies, End, Shaped, TypeOK
  <2>2. Shaped(Idle, user', issued')
    BY <1>0, <2>1, IdleTyped DEF Shaped
  <2>3. req' \in [Requests -> Request] /\ \A p \in Requests : Shaped(req'[p], user', issued')
    BY <1>0, <2>1, <2>2, IdleTyped, TypedStep
  <2> QED
    BY <1>0, <2>1, <2>3 DEF Typed, TypeOK
<1>4. ASSUME NEW r \in Requests, CountGuess(r) PROVE Typed'
  <2>1. /\ req[r].pc = "countGuess" /\ user' = GuessedUser(req[r])
        /\ req' = [req EXCEPT ![r] = Idle]
        /\ wrong' = [wrong EXCEPT ![req[r].seen] = wrong[req[r].seen] + 1]
        /\ raced' \subseteq raced \cup {"late", "guess"}
        /\ UNCHANGED <<clock, issued, known, sentAt>>
    BY <1>4 DEF CountGuess, GuessedUser, End
  <2>2. user # None /\ req[r].seen \in Codes
    BY <1>0, <2>1 DEF Shaped
  <2>3. user' \in User /\ user' # None /\ user'.code \in {0, user.code}
    BY <1>0, <2>1, <2>2, CountGuessUser, Constants
  <2>4. Shaped(Idle, user', issued')
    BY <1>0, <2>1, IdleTyped DEF Shaped
  <2>5. req' \in [Requests -> Request] /\ \A p \in Requests : Shaped(req'[p], user', issued')
    <3>1. req' = [req EXCEPT ![r] = Idle] /\ issued' \in Nat /\ issued' >= issued
      BY <1>0, <2>1
    <3> QED
      BY <2>3, <2>4, <3>1, IdleTyped, TypedStep
  <2>6. wrong' \in [Codes -> Nat] /\ raced' \subseteq Races
    BY <1>0, <2>1, <2>2 DEF TypeOK, Races
  <2> QED
    BY <1>0, <2>1, <2>2, <2>3, <2>5, <2>6 DEF Typed, TypeOK
<1>5. ASSUME NEW r \in Requests, Accept(r) PROVE Typed'
  <2>1. /\ req[r].pc = "accept" /\ user' = VerifiedUser /\ req' = [req EXCEPT ![r] = Idle]
        /\ UNCHANGED <<clock, issued, known, sentAt, wrong, raced>>
    BY <1>5 DEF Accept, VerifiedUser, End
  <2>2. user # None
    BY <1>0, <2>1 DEF Shaped
  <2>3. user' \in User /\ user' # None /\ user'.code = 0
    BY <2>1, <2>2, AcceptUser, Constants
  <2>4. Shaped(Idle, user', issued')
    BY <1>0, <2>1, IdleTyped DEF Shaped
  <2>5. req' \in [Requests -> Request] /\ \A p \in Requests : Shaped(req'[p], user', issued')
    <3>1. req' = [req EXCEPT ![r] = Idle] /\ issued' \in Nat /\ issued' >= issued
      BY <1>0, <2>1
    <3> QED
      BY <2>3, <2>4, <3>1, IdleTyped, TypedStep
  <2> QED
    BY <1>0, <2>1, <2>2, <2>3, <2>5 DEF Typed, TypeOK
<1>6. ASSUME NEW r \in Requests, ResendRead(r) PROVE Typed'
  <2> DEFINE q == [pc |-> "store", seen |-> issued, attempts |-> 0, now |-> clock,
                   windowStartedAt |-> IF WindowIsActive(user, clock)
                                       THEN user.windowStartedAt ELSE clock,
                   sendCount |-> SendsBefore + 1]
  <2>1. /\ user # None /\ req' = [req EXCEPT ![r] = q]
        /\ UNCHANGED <<user, clock, issued, known, sentAt, wrong, raced>>
    BY <1>6 DEF ResendRead, Begin
  <2>2. q.windowStartedAt \in Nat
    BY <1>0, <2>1 DEF WindowIsActive, User, Date
  <2>3. SendsBefore + 1 \in Nat
    BY <1>0, <2>1 DEF SendsBefore, User
  <2>4. q \in Request
    BY <1>0, <2>2, <2>3 DEF Request, Pcs, Date
  <2>5. q.pc = "store" /\ q.seen = issued
    OBVIOUS
  <2> HIDE DEF q
  <2>6. Shaped(q, user', issued')
    BY <1>0, <2>1, <2>2, <2>5 DEF Shaped
  <2>7. req' \in [Requests -> Request] /\ \A p \in Requests : Shaped(req'[p], user', issued')
    BY <1>0, <2>1, <2>4, <2>6, TypedStep
  <2> QED
    BY <1>0, <2>1, <2>7 DEF Typed, TypeOK
<1>7. ASSUME NEW r \in Requests, ResendStore(r) PROVE Typed'
  <2> DEFINE q == Mailing(issued + 1)
  <2>1. /\ req[r].pc = "store" /\ issued' = issued + 1 /\ issued' \in Codes
        /\ user' = ResentUser(req[r]) /\ req' = [req EXCEPT ![r] = q]
        /\ sentAt' = [sentAt EXCEPT ![issued + 1] = req[r].now]
        /\ raced' \subseteq raced \cup {"send"}
        /\ UNCHANGED <<clock, known, wrong>>
    BY <1>7 DEF ResendStore, ResentUser, Mailing
  <2>2. user # None
    BY <1>0, <2>1 DEF Shaped
  <2>3. user' \in User /\ user' # None /\ user'.code = issued'
    BY <1>0, <2>1, <2>2, ResendUser, Constants
  <2>4. q \in Request /\ q.pc = "mail" /\ q.seen = issued + 1
    BY <1>0, MailTyped
  <2> HIDE DEF q
  <2>5. Shaped(q, user', issued')
    BY <1>0, <2>1, <2>3, <2>4 DEF Shaped
  <2>6. req' \in [Requests -> Request] /\ \A p \in Requests : Shaped(req'[p], user', issued')
    <3>1. req' = [req EXCEPT ![r] = q] /\ issued' \in Nat /\ issued' >= issued
      BY <1>0, <2>1
    <3> QED
      BY <2>3, <2>4, <2>5, <3>1, TypedStep
  <2>7. sentAt' \in [Codes -> Date] /\ raced' \subseteq Races
    BY <1>0, <2>1 DEF TypeOK, Date, Races, Request
  <2> QED
    BY <1>0, <2>1, <2>3, <2>6, <2>7 DEF Typed, TypeOK
<1>8. CASE LinkGoogle
  <2>1. /\ user # None /\ user' = [user EXCEPT !.isVerified = TRUE]
        /\ UNCHANGED <<clock, req, issued, known, sentAt, wrong, raced>>
    BY <1>8 DEF LinkGoogle
  <2>2. user' \in User /\ user'.code = user.code
    BY <1>0, <2>1 DEF User
  <2>3. user' # None
    BY <2>2, Constants
  <2>4. \A p \in Requests : Shaped(req'[p], user', issued')
    BY <1>0, <2>1, <2>3 DEF Shaped
  <2> QED
    BY <1>0, <2>1, <2>2, <2>3, <2>4 DEF Typed, TypeOK
<1>9. CASE Tick
  <2>1. \A p \in Requests : Shaped(req'[p], user', issued')
    BY <1>0, <1>9 DEF Tick, Shaped
  <2> QED
    BY <1>0, <1>9, <2>1 DEF Tick, Typed, TypeOK
<1>10. CASE UNCHANGED vars
  <2>1. \A p \in Requests : Shaped(req'[p], user', issued')
    BY <1>0, <1>10 DEF vars, Shaped
  <2> QED
    BY <1>0, <1>10, <2>1 DEF vars, Typed, TypeOK
<1> QED
  BY <1>1, <1>2, <1>3, <1>4, <1>5, <1>6, <1>7, <1>8, <1>9, <1>10 DEF Next

\* The user document keeps to its schema (users.schema.ts), whatever the
\* requests of signup, verifyEmail and resendOtp that are in flight.
THEOREM TypeCorrect == Spec => []TypeOK
<1>1. Typed => TypeOK
  BY DEF Typed
<1> QED
  BY <1>1, TypedInit, TypedNext, PTL DEF Spec

----------------------------------------------------------------------------
(* Guesses                                                                 *)

\* `wrong` counts over all requests what `attempts` counts from what each
\* request has read: never less, and never more while the guesses at a code
\* follow one another.
Unguessed == \A c \in Codes : c > issued => wrong[c] = 0

NoFewer ==
    "late" \notin raced =>
        /\ user # None => user.attempts <= wrong[issued]
        /\ \A r \in Requests : req[r].pc = "countGuess" => req[r].attempts <= wrong[req[r].seen]

NoMore ==
    /\ raced \cap {"guess", "late"} = {}
    /\ user # None /\ ~user.isVerified
    => wrong[issued] <= user.attempts

Counted == Unguessed /\ NoFewer /\ NoMore /\ GuessesBounded /\ FreshCodeStays

LEMMA CountedInit == Init => Counted
  BY Constants DEF Init, Counted, Unguessed, NoFewer, NoMore, GuessesBounded, FreshCodeStays, Idle

\* A new code, of no guesses.
LEMMA CountedFresh ==
    ASSUME Typed, Typed', Counted, NEW r \in Requests, NEW q,
           user' # None, user'.attempts = 0, user'.code = issued',
           issued' = issued + 1, issued' \in Codes,
           req' = [req EXCEPT ![r] = q], q.pc # "countGuess",
           wrong' = wrong, raced \subseteq raced',
           raced' \subseteq raced \cup {"send"}
    PROVE  Counted'
<1>0. /\ req \in [Requests -> Request] /\ issued \in Nat /\ wrong \in [Codes -> Nat]
      /\ MaxAttempts \in Nat /\ Codes \subseteq Nat
  BY Constants DEF Typed, TypeOK
<1>1. wrong[issued'] = 0 /\ wrong'[issued'] = 0
  BY <1>0 DEF Counted, Unguessed
<1>2. \A p \in Requests : req'[p] = q \/ req'[p] = req[p]
  BY <1>0
<1>3. Unguessed'
  BY <1>0 DEF Counted, Unguessed
<1>4. NoFewer'
  BY <1>0, <1>1, <1>2 DEF Counted, NoFewer
<1>5. NoMore' /\ FreshCodeStays'
  BY <1>0, <1>1 DEF NoMore, FreshCodeStays
<1>6. GuessesBounded'
  BY <1>0 DEF Counted, GuessesBounded
<1> QED
  BY <1>3, <1>4, <1>5, <1>6 DEF Counted

\* No code comes, and no guess is counted.
LEMMA CountedStill ==
    ASSUME Typed, Typed', Counted, user # None => user' # None,
           user # None => \/ user' = user
                          \/ user'.isVerified /\ user'.attempts \in {0, user.attempts},
           user = None => user' = None,
           \A r \in Requests : req'[r].pc = "countGuess" =>
               \/ req'[r] = req[r]
               \/ user # None /\ req'[r].attempts = user.attempts /\ req'[r].seen = issued,
           UNCHANGED <<issued, wrong, raced>>
    PROVE  Counted'
<1>0. wrong \in [Codes -> Nat] /\ MaxAttempts \in Nat /\ (user # None => issued \in Codes)
  BY Constants DEF Typed, TypeOK
<1>1. Unguessed' /\ GuessesBounded'
  BY DEF Counted, Unguessed, GuessesBounded
<1>2. NoFewer'
  BY <1>0 DEF Counted, NoFewer
<1>3. NoMore' /\ FreshCodeStays'
  BY <1>0 DEF Counted, NoMore, FreshCodeStays
<1> QED
  BY <1>1, <1>2, <1>3 DEF Counted

LEMMA CountedNext == Typed /\ Typed' /\ Counted /\ [Next]_vars => Counted'
<1> SUFFICES ASSUME Typed, Typed', Counted, [Next]_vars PROVE Counted'
  OBVIOUS
<1>0. /\ TypeOK /\ req \in [Requests -> Request] /\ issued \in Nat
      /\ wrong \in [Codes -> Nat] /\ MaxAttempts \in Nat /\ Codes \subseteq Nat
      /\ user # None => user \in User /\ issued \in Codes
      /\ \A r \in Requests : Shaped(req[r], user, issued) /\ req[r] \in Request
  BY Constants DEF Typed, TypeOK
<1>1. ASSUME NEW r \in Requests, NEW channel \in Channels, Signup(r, channel) PROVE Counted'
  <2>1. /\ issued' = issued + 1 /\ issued' \in Codes /\ user' = NewUser(channel)
        /\ req' = [req EXCEPT ![r] = Mailing(issued + 1)]
        /\ wrong' = wrong /\ raced' = raced
    BY <1>1 DEF Signup, Begin, NewUser, Mailing
  <2>2. user' # None /\ user'.attempts = 0 /\ user'.code = issued'
    BY <2>1, SignupUser, Constants
  <2> QED
    BY <1>0, <2>1, <2>2, MailTyped, CountedFresh
<1>2. ASSUME NEW r \in Requests, NEW channel \in Channels, NEW guess \in known \cup {0},
             VerifyRead(r, channel, guess)
      PROVE  Counted'
  <2> DEFINE q == [Idle EXCEPT !.pc = IF guess = user.code THEN "accept" ELSE "countGuess",
                               !.seen = issued, !.attempts = user.attempts]
  <2>1. /\ user # None /\ req' = [req EXCEPT ![r] = q]
        /\ UNCHANGED <<user, issued, wrong, raced>>
    BY <1>2 DEF VerifyRead, Verifiable, Begin
  <2>2. q.seen = issued /\ q.attempts = user.attempts
    BY DEF Idle
  <2> HIDE DEF q
  <2>3. \A p \in Requests : req'[p] = req[p] \/ req'[p] = q
    BY <1>0, <2>1
  <2> QED
    BY <2>1, <2>2, <2>3, CountedStill
<1>3. ASSUME NEW r \in Requests, Mail(r) \/ RequestDies(r) \/ Accept(r) PROVE Counted'
  <2>1. req' = [req EXCEPT ![r] = Idle] /\ UNCHANGED <<issued, wrong, raced>>
    BY <1>3 DEF Mail, RequestDies, Accept, End
  <2>2. \A p \in Requests : req'[p] = req[p] \/ req'[p].pc = "idle"
    BY <1>0, <2>1, IdleTyped
  <2>3. CASE Accept(r)
    <3>1. user # None /\ user' = VerifiedUser
      BY <1>0, <2>3 DEF Accept, VerifiedUser, Shaped
    <3>2. user' # None /\ user'.isVerified /\ user'.attempts = 0
      BY <3>1, AcceptUser, Constants
    <3> QED
      BY <2>1, <2>2, <3>1, <3>2, CountedStill
  <2>4. CASE Mail(r) \/ RequestDies(r)
    <3>1. user' = user
      BY <2>4 DEF Mail, RequestDies
    <3> QED
      BY <2>1, <2>2, <3>1, CountedStill
  <2> QED
    BY <1>3, <2>3, <2>4
<1>4. ASSUME NEW r \in Requests, CountGuess(r) PROVE Counted'
  <2> DEFINE q == req[r]
  <2>1. /\ q.pc = "countGuess" /\ user' = GuessedUser(q)
        /\ req' = [req EXCEPT ![r] = Idle]
        /\ wrong' = [wrong EXCEPT ![q.seen] = wrong[q.seen] + 1]
        /\ raced' = raced \cup (IF q.seen # issued THEN {"late"} ELSE {})
             \cup (IF q.attempts # user.attempts \/ user.isVerified THEN {"guess"} ELSE {})
        /\ issued' = issued
    BY <1>4 DEF CountGuess, GuessedUser, End
  <2>2. /\ user # None /\ q.seen \in Codes /\ q.seen <= issued /\ q.attempts < MaxAttempts
        /\ q \in Request /\ q.attempts \in Nat
    BY <1>0, <2>1 DEF Shaped, Request
  <2>3. /\ user' # None /\ user'.attempts = q.attempts + 1
        /\ user'.isVerified = user.isVerified
        /\ user'.code = IF q.attempts + 1 >= MaxAttempts THEN 0 ELSE user.code
    BY <2>1, <2>2, CountGuessUser, Constants
  <2>4. \A p \in Requests : req'[p] = req[p] \/ req'[p].pc = "idle"
    BY <1>0, <2>1, IdleTyped
  <2>5. \A c \in Codes : wrong[c] <= wrong'[c] /\ (c # q.seen => wrong'[c] = wrong[c])
    BY <1>0, <2>1, <2>2
  <2>6. wrong'[q.seen] = wrong[q.seen] + 1 /\ wrong'[q.seen] \in Nat
    <3>1. q.seen \in Codes /\ wrong[q.seen] \in Nat
      BY <1>0, <2>2
    <3>2. wrong' = [wrong EXCEPT ![q.seen] = wrong[q.seen] + 1]
      BY <2>1
    <3> HIDE DEF q
    <3> QED
      BY <1>0, <3>1, <3>2
  <2>7. "late" \notin raced' => "late" \notin raced /\ q.seen = issued
    BY <2>1
  <2>8. raced' \cap {"guess", "late"} = {} =>
            /\ raced \cap {"guess", "late"} = {} /\ q.seen = issued
            /\ q.attempts = user.attempts /\ ~user.isVerified
    BY <2>1
  <2>9. q.pc = "countGuess" /\ "late" \notin raced => q.attempts <= wrong[q.seen]
    BY DEF Counted, NoFewer
  <2> HIDE DEF q
  <2>10. Unguessed'
    <3>0. issued' = issued
      BY <2>1
    <3> SUFFICES ASSUME NEW c \in Codes, c > issued PROVE wrong'[c] = 0
      BY <3>0 DEF Unguessed
    <3>1. c # q.seen
      BY <1>0, <2>2
    <3> QED
      BY <2>5, <3>1 DEF Counted, Unguessed
  <2>11. NoFewer'
    <3> SUFFICES ASSUME "late" \notin raced' PROVE NoFewer'
      BY DEF NoFewer
    <3>1. user'.attempts <= wrong'[issued']
      BY <1>0, <2>1, <2>2, <2>3, <2>6, <2>7, <2>9
    <3>2. ASSUME NEW p \in Requests, req'[p].pc = "countGuess"
          PROVE  req'[p].attempts <= wrong'[req'[p].seen]
      <4>1. req'[p] = req[p] /\ req[p].pc = "countGuess"
        BY <2>4, <3>2
      <4>2. req[p].attempts <= wrong[req[p].seen] /\ req[p].seen \in Codes /\ req[p].attempts \in Nat
        <5>1. req[p].attempts <= wrong[req[p].seen]
          BY <2>7, <4>1 DEF Counted, NoFewer
        <5>2. req[p].seen \in Codes /\ req[p].attempts \in Nat
          BY <1>0, <4>1 DEF Shaped, Request
        <5> QED
          BY <5>1, <5>2
      <4>3. wrong[req[p].seen] \in Nat /\ wrong'[req[p].seen] \in Nat
        BY <4>2 DEF Typed, TypeOK
      <4> QED
        BY <2>5, <4>1, <4>2, <4>3
    <3> QED
      BY <3>1, <3>2 DEF NoFewer
  <2>12. NoMore'
    BY <1>0, <2>1, <2>2, <2>3, <2>6, <2>8 DEF Counted, NoMore, User
  <2>13. GuessesBounded'
    <3> SUFFICES ASSUME raced' \cap {"guess", "late"} = {}, NEW c \in Codes
                 PROVE  wrong'[c] <= MaxAttempts
      BY DEF GuessesBounded
    <3>1. wrong[c] <= MaxAttempts
      BY <2>8 DEF Counted, GuessesBounded
    <3>2. wrong[issued] <= q.attempts
      BY <2>2, <2>8 DEF Counted, NoMore
    <3> QED
      BY <1>0, <2>2, <2>5, <2>6, <2>8, <3>1, <3>2
  <2>14. FreshCodeStays'
    <3> SUFFICES ASSUME ~user.isVerified, user'.code # issued, "late" \notin raced'
                 PROVE  wrong'[issued] >= MaxAttempts
      BY <2>1, <2>3 DEF FreshCodeStays
    <3>1. q.attempts + 1 <= wrong'[issued]
      BY <1>0, <2>1, <2>2, <2>6, <2>7, <2>9
    <3>2. user.code # issued => wrong[issued] >= MaxAttempts
      BY <2>2, <2>7 DEF Counted, FreshCodeStays
    <3> QED
      BY <1>0, <2>2, <2>3, <2>6, <2>7, <3>1, <3>2
  <2> QED
    BY <2>10, <2>11, <2>12, <2>13, <2>14 DEF Counted
<1>5. ASSUME NEW r \in Requests, ResendRead(r) PROVE Counted'
  <2>1. UNCHANGED <<user, issued, wrong, raced>> /\ user # None
    BY <1>5 DEF ResendRead
  <2>2. \A p \in Requests : req'[p] = req[p] \/ req'[p].pc = "store"
    BY <1>0, <1>5 DEF ResendRead, Begin
  <2> QED
    BY <2>1, <2>2, CountedStill
<1>6. ASSUME NEW r \in Requests, ResendStore(r) PROVE Counted'
  <2>1. /\ req[r].pc = "store" /\ issued' = issued + 1 /\ issued' \in Codes
        /\ user' = ResentUser(req[r]) /\ req' = [req EXCEPT ![r] = Mailing(issued + 1)]
        /\ raced \subseteq raced' /\ raced' \subseteq raced \cup {"send"} /\ wrong' = wrong
    BY <1>6 DEF ResendStore, ResentUser, Mailing
  <2>2. user # None
    BY <1>0, <2>1 DEF Shaped
  <2>3. user' # None /\ user'.attempts = 0 /\ user'.code = issued'
    BY <1>0, <2>1, <2>2, ResendUser, Constants
  <2> QED
    BY <1>0, <2>1, <2>3, MailTyped, CountedFresh
<1>7. CASE LinkGoogle
  <2>1. /\ user # None /\ user' = [user EXCEPT !.isVerified = TRUE]
        /\ UNCHANGED <<req, issued, wrong, raced>>
    BY <1>7 DEF LinkGoogle
  <2>2. user' \in User /\ user'.isVerified /\ user'.attempts = user.attempts
    BY <1>0, <2>1 DEF User
  <2> QED
    BY <2>1, <2>2, Constants, CountedStill
<1>8. CASE Tick \/ UNCHANGED vars
  BY <1>8, CountedStill DEF Tick, vars
<1> QED
  BY <1>1, <1>2, <1>3, <1>4, <1>5, <1>6, <1>7, <1>8 DEF Next

LEMMA CountedAlways == Spec => [](Typed /\ Counted)
  BY TypedInit, TypedNext, CountedInit, CountedNext, PTL DEF Spec

\* However many requests guess at once, a code is guessed at no more than
\* MaxAttempts times, unless two guesses overlapped or one came late.
THEOREM GuessLimit == Spec => []GuessesBounded
<1>1. Counted => GuessesBounded
  BY DEF Counted
<1> QED
  BY <1>1, CountedAlways, PTL

\* Nothing but its own wrong guesses unsets the code of an unverified account
\* (verifyEmail, resendOtp), unless a guess at its predecessor came late.
THEOREM FreshCodeUsable == Spec => []FreshCodeStays
<1>1. Counted => FreshCodeStays
  BY DEF Counted
<1> QED
  BY <1>1, CountedAlways, PTL

----------------------------------------------------------------------------
(* Sends                                                                   *)

\* The codes 1..n that the dates `at` put in the window that starts at w.
Within(at, n, w) == {c \in 1..n : w <= at[c] /\ at[c] < w + Window}

\* `now` falls in the window that starts at w, unless windows are empty.
Falls(now, w) == w <= now /\ (Window > 0 => now < w + Window)

\* What a request has decided on, and an unverified account has stored.
Dated ==
    /\ \A c \in 1..issued : sentAt[c] \in Nat /\ sentAt[c] <= clock
    /\ user # None /\ ~user.isVerified =>
           /\ user.lastSentAt = sentAt[issued]
           /\ user.windowStartedAt \in Nat
           /\ Falls(sentAt[issued], user.windowStartedAt)
    /\ \A r \in Requests : req[r].pc = "store" =>
           /\ req[r].now <= clock
           /\ Falls(req[r].now, req[r].windowStartedAt)
           /\ req[r].sendCount <= MaxSends

\* Sends that do not overlap; a request that stores over the code it has read
\* is the next in the count of its window.
Spaced ==
    /\ \A c \in 1..issued : c > 1 => sentAt[c] >= sentAt[c - 1] + Cooldown
    /\ \A c \in 1..issued : sentAt[c] <= sentAt[issued]
    /\ user # None /\ user.windowStartedAt # None =>
           /\ Cardinality(Within(sentAt, issued, user.windowStartedAt)) <= user.sendCount
           /\ issued > 1 => user.sendCount <= MaxSends
    /\ \A r \in Requests : req[r].pc = "store" /\ req[r].seen = issued =>
           /\ req[r].now >= sentAt[issued] + Cooldown
           /\ Cardinality(Within(sentAt, issued, req[r].windowStartedAt)) + 1 <= req[r].sendCount

Sent == Dated /\ ("send" \notin raced => Spaced)

LEMMA SentInit == Init => Sent
  BY Constants DEF Init, Sent, Dated, Spaced, Idle

LEMMA WithinFinite ==
    ASSUME NEW at, NEW n \in Nat, NEW w
    PROVE  IsFiniteSet(Within(at, n, w)) /\ Cardinality(Within(at, n, w)) \in Nat
<1>1. IsFiniteSet(1..n)
  BY FS_Interval
<1>2. Within(at, n, w) \in SUBSET (1..n)
  BY DEF Within
<1> QED
  BY <1>1, <1>2, FS_Subset, FS_CardinalityType

\* One code more in a window is at most one more.
LEMMA WithinAdded ==
    ASSUME NEW at, NEW n \in Nat, NEW w, NEW later,
           \A c \in 1..n : later[c] = at[c]
    PROVE  Cardinality(Within(later, n + 1, w)) <= Cardinality(Within(at, n, w)) + 1
<1> DEFINE S == Within(at, n, w)
           T == Within(later, n + 1, w)
<1>1. IsFiniteSet(S) /\ Cardinality(S) \in Nat
  BY WithinFinite
<1>2. T \in SUBSET (S \cup {n + 1})
  BY DEF Within
<1> HIDE DEF S, T
<1>3. IsFiniteSet(S \cup {n + 1}) /\ Cardinality(S \cup {n + 1}) <= Cardinality(S) + 1
  BY <1>1, FS_AddElement
<1>4. Cardinality(T) <= Cardinality(S \cup {n + 1}) /\ Cardinality(T) \in Nat
      /\ Cardinality(S \cup {n + 1}) \in Nat
  BY <1>2, <1>3, FS_Subset, FS_CardinalityType
<1>5. Cardinality(T) <= Cardinality(S) + 1
  BY <1>1, <1>3, <1>4
<1> QED
  BY <1>5 DEF S, T

\* A window that starts when the last one is over has no code yet.
LEMMA WithinNew ==
    ASSUME NEW n \in Nat, NEW at, NEW now \in Nat, NEW last \in Nat,
           \A c \in 1..n : at[c] \in Nat /\ at[c] <= last,
           Window > 0 => last < now
    PROVE  Cardinality(Within(at, n, now)) = 0
<1>1. ASSUME NEW c \in Within(at, n, now) PROVE FALSE
  <2>1. c \in 1..n /\ now <= at[c] /\ at[c] < now + Window /\ at[c] \in Nat /\ at[c] <= last
    BY <1>1 DEF Within
  <2> QED
    BY <2>1, Constants
<1>2. Within(at, n, now) = {}
  BY <1>1
<1> QED
  BY <1>2, FS_EmptySet

\* No code is stored, and no request has decided to.
LEMMA SentStill ==
    ASSUME Typed, Typed', Sent, clock' >= clock,
           user # None =>
               \/ /\ user'.isVerified = user.isVerified /\ user'.sendCount = user.sendCount
                  /\ user'.lastSentAt = user.lastSentAt
                  /\ user'.windowStartedAt = user.windowStartedAt
               \/ user'.isVerified /\ user'.windowStartedAt = None
               \/ /\ user'.isVerified /\ user'.sendCount = user.sendCount
                  /\ user'.windowStartedAt = user.windowStartedAt,
           user = None => user' = None,
           \A r \in Requests : req'[r].pc = "store" => req'[r] = req[r],
           issued' = issued, sentAt' = sentAt, "send" \in raced' <=> "send" \in raced
    PROVE  Sent'
<1>0. /\ clock \in Nat /\ clock' \in Nat /\ issued \in Nat /\ req \in [Requests -> Request]
  BY DEF Typed, TypeOK
<1>1. ASSUME NEW r \in Requests, req'[r].pc = "store"
      PROVE  /\ req'[r] = req[r] /\ req[r].pc = "store"
             /\ req[r].now <= clock => req[r].now <= clock'
  BY <1>0, <1>1 DEF Request
<1>2. \A c \in 1..issued : sentAt[c] \in Nat /\ sentAt[c] <= clock => sentAt[c] <= clock'
  BY <1>0
<1>3. Dated'
  BY <1>1, <1>2 DEF Sent, Dated
<1>4. Spaced => Spaced'
  BY <1>1 DEF Spaced
<1> QED
  BY <1>3, <1>4 DEF Sent

\* A code is stored, by a request that decided on the window w and the count n.
LEMMA SentFresh ==
    ASSUME Typed, Typed', Sent, NEW now \in Nat, NEW w \in Nat, NEW n \in Nat,
           now <= clock, Falls(now, w), clock' = clock, issued' = issued + 1,
           sentAt' = [sentAt EXCEPT ![issued + 1] = now],
           user' # None, user'.windowStartedAt = w, user'.sendCount = n,
           ~user'.isVerified => user'.lastSentAt = now,
           \A r \in Requests : req'[r].pc = "store" => req'[r] = req[r],
           issued > 0 => n <= MaxSends,
           "send" \notin raced' =>
               /\ "send" \notin raced
               /\ issued > 0 => now >= sentAt[issued] + Cooldown
               /\ Cardinality(Within(sentAt, issued, w)) + 1 <= n
    PROVE  Sent'
<1>0. /\ clock \in Nat /\ issued \in Nat /\ sentAt \in [Codes -> Date] /\ issued + 1 \in Codes
      /\ req \in [Requests -> Request] /\ Cooldown \in Nat /\ Codes \subseteq Nat
      /\ \A r \in Requests : req[r].seen \in 0..issued
  BY Constants DEF Typed, TypeOK, Shaped
<1>1. sentAt'[issued + 1] = now /\ \A c \in 1..issued : sentAt'[c] = sentAt[c]
  BY <1>0 DEF Codes
<1>2. \A c \in 1..(issued + 1) : c = issued + 1 \/ c \in 1..issued
  BY <1>0
<1>3. \A c \in 1..issued : sentAt[c] \in Nat /\ sentAt[c] <= clock
  BY DEF Sent, Dated
<1>4. Dated'
  <2>1. \A c \in 1..issued' : sentAt'[c] \in Nat /\ sentAt'[c] <= clock'
    BY <1>1, <1>2, <1>3
  <2>2. user' # None /\ ~user'.isVerified =>
            /\ user'.lastSentAt = sentAt'[issued']
            /\ user'.windowStartedAt \in Nat
            /\ Falls(sentAt'[issued'], user'.windowStartedAt)
    BY <1>1
  <2>3. \A r \in Requests : req'[r].pc = "store" =>
            /\ req'[r].now <= clock'
            /\ Falls(req'[r].now, req'[r].windowStartedAt)
            /\ req'[r].sendCount <= MaxSends
    BY DEF Sent, Dated
  <2> QED
    BY <2>1, <2>2, <2>3 DEF Dated
<1>5. ASSUME "send" \notin raced' PROVE Spaced'
  <2>1. Spaced
    BY <1>5 DEF Sent
  <2>2. issued > 0 => now >= sentAt[issued] + Cooldown /\ now >= sentAt[issued]
                      /\ sentAt[issued] \in Nat
    BY <1>0, <1>3, <1>5
  <2>3. ASSUME NEW c \in 1..issued', c > 1 PROVE sentAt'[c] >= sentAt'[c - 1] + Cooldown
    <3>1. CASE c = issued + 1
      BY <1>0, <1>1, <2>2, <2>3, <3>1
    <3>2. CASE c \in 1..issued
      <4>1. c - 1 \in 1..issued
        BY <1>0, <2>3, <3>2
      <4> QED
        BY <1>1, <2>1, <2>3, <3>2, <4>1 DEF Spaced
    <3> QED
      BY <1>2, <3>1, <3>2
  <2>4. ASSUME NEW c \in 1..issued' PROVE sentAt'[c] <= sentAt'[issued']
    <3>1. CASE c = issued + 1
      BY <1>1, <3>1
    <3>2. CASE c \in 1..issued
      <4>1. sentAt[c] <= sentAt[issued] /\ issued > 0 /\ sentAt[c] \in Nat
        BY <1>0, <1>3, <2>1, <3>2 DEF Spaced
      <4> QED
        BY <1>1, <2>2, <3>2, <4>1
    <3> QED
      BY <1>2, <3>1, <3>2
  <2>5. Cardinality(Within(sentAt', issued', w)) <= n
    <3>1. Cardinality(Within(sentAt', issued + 1, w)) <= Cardinality(Within(sentAt, issued, w)) + 1
      BY <1>0, <1>1, WithinAdded
    <3>2. Cardinality(Within(sentAt', issued + 1, w)) \in Nat /\ Cardinality(Within(sentAt, issued, w)) \in Nat
      BY <1>0, WithinFinite
    <3> QED
      BY <1>5, <3>1, <3>2
  <2>6. issued' > 1 => n <= MaxSends
    BY <1>0
  <2>7. \A r \in Requests : req'[r].pc = "store" => req'[r].seen # issued'
    BY <1>0
  <2> QED
    BY <2>3, <2>4, <2>5, <2>6, <2>7 DEF Spaced
<1> QED
  BY <1>4, <1>5 DEF Sent

LEMMA SentNext == Typed /\ Typed' /\ Sent /\ [Next]_vars => Sent'
<1> SUFFICES ASSUME Typed, Typed', Sent, [Next]_vars PROVE Sent'
  OBVIOUS
<1>0. /\ TypeOK /\ req \in [Requests -> Request] /\ issued \in Nat /\ clock \in Nat
      /\ user # None => user \in User /\ issued \in Codes
      /\ user = None => issued = 0
      /\ \A r \in Requests : Shaped(req[r], user, issued) /\ req[r] \in Request
      /\ Window \in Nat /\ Cooldown \in Nat /\ MaxSends \in Nat /\ Codes \subseteq Nat
  BY Constants DEF Typed, TypeOK
<1>1. ASSUME NEW r \in Requests, NEW channel \in Channels, Signup(r, channel) PROVE Sent'
  <2>1. /\ user = None /\ issued' = issued + 1 /\ user' = NewUser(channel)
        /\ sentAt' = [sentAt EXCEPT ![issued + 1] = clock]
        /\ req' = [req EXCEPT ![r] = Mailing(issued + 1)]
        /\ clock' = clock /\ raced' = raced
    BY <1>1 DEF Signup, Begin, NewUser, Mailing
  <2>2. /\ user' # None /\ user'.windowStartedAt = clock /\ user'.sendCount = 1
        /\ user'.lastSentAt = clock
    BY <2>1, SignupUser, Constants
  <2>3. \A p \in Requests : req'[p].pc = "store" => req'[p] = req[p]
    BY <1>0, <2>1, MailTyped
  <2>4. Falls(clock, clock)
    BY <1>0 DEF Falls
  <2>5. Cardinality(Within(sentAt, issued, clock)) = 0
    <3>1. Within(sentAt, issued, clock) = {}
      BY <1>0, <2>1 DEF Within
    <3> QED
      BY <3>1, FS_EmptySet
  <2>6. /\ 1 \in Nat /\ clock <= clock /\ issued = 0 /\ issued + 1 \in Nat
        /\ Cardinality(Within(sentAt, issued, clock)) + 1 <= 1
    BY <1>0, <2>1, <2>5
  <2>7. /\ sentAt' = [sentAt EXCEPT ![issued + 1] = clock] /\ clock' = clock /\ issued' = issued + 1
        /\ "send" \notin raced' => "send" \notin raced
    BY <2>1
  <2>8. clock \in Nat /\ ~(issued > 0)
    BY <1>0, <2>6
  <2> QED
    BY <2>2, <2>3, <2>4, <2>6, <2>7, <2>8, SentFresh
<1>2. ASSUME NEW r \in Requests, NEW channel \in Channels, NEW guess \in known \cup {0},
             VerifyRead(r, channel, guess)
      PROVE  Sent'
  <2> DEFINE q == [Idle EXCEPT !.pc = IF guess = user.code THEN "accept" ELSE "countGuess",
                               !.seen = issued, !.attempts = user.attempts]
  <2>1. /\ req' = [req EXCEPT ![r] = q]
        /\ UNCHANGED <<user, clock, issued, sentAt, raced>>
    BY <1>2 DEF VerifyRead, Begin
  <2>2. q.pc # "store"
    BY DEF Idle
  <2> HIDE DEF q
  <2>3. \A p \in Requests : req'[p].pc = "store" => req'[p] = req[p]
    BY <1>0, <2>1, <2>2
  <2> QED
    BY <1>0, <2>1, <2>3, SentStill
<1>3. ASSUME NEW r \in Requests, Mail(r) \/ RequestDies(r) \/ CountGuess(r) \/ Accept(r)
      PROVE  Sent'
  <2>1. /\ req[r].pc # "idle" /\ req' = [req EXCEPT ![r] = Idle]
        /\ clock' = clock /\ issued' = issued /\ sentAt' = sentAt
        /\ "send" \in raced' <=> "send" \in raced
    BY <1>3 DEF Mail, RequestDies, CountGuess, Accept, End
  <2>2. \A p \in Requests : req'[p].pc = "store" => req'[p] = req[p]
    BY <1>0, <2>1, IdleTyped
  <2>3. user # None
    BY <1>0, <2>1 DEF Shaped
  <2>4. CASE Mail(r) \/ RequestDies(r)
    <3>1. user' = user
      BY <2>4 DEF Mail, RequestDies
    <3> QED
      BY <1>0, <2>1, <2>2, <3>1, SentStill
  <2>5. CASE CountGuess(r)
    <3>1. user' = GuessedUser(req[r])
      BY <2>5 DEF CountGuess, GuessedUser
    <3> QED
      BY <1>0, <2>1, <2>2, <2>3, <3>1, CountGuessUser, SentStill
  <2>6. CASE Accept(r)
    <3>1. user' = VerifiedUser
      BY <2>6 DEF Accept, VerifiedUser
    <3>2. user'.isVerified /\ user'.windowStartedAt = None
      BY <2>3, <3>1, AcceptUser
    <3>3. clock' >= clock
      BY <1>0, <2>1
    <3> QED
      BY <2>1, <2>2, <2>3, <3>2, <3>3, SentStill
  <2> QED
    BY <1>3, <2>4, <2>5, <2>6
<1>4. ASSUME NEW r \in Requests, ResendRead(r) PROVE Sent'
  <2> DEFINE w == IF WindowIsActive(user, clock) THEN user.windowStartedAt ELSE clock
             q == [pc |-> "store", seen |-> issued, attempts |-> 0, now |-> clock,
                   windowStartedAt |-> w, sendCount |-> SendsBefore + 1]
  <2>1. /\ user # None /\ ~user.isVerified /\ Cooled /\ SendsBefore < MaxSends
        /\ req' = [req EXCEPT ![r] = q]
        /\ UNCHANGED <<user, clock, issued, sentAt, raced>>
    BY <1>4 DEF ResendRead, Begin
  <2>2. \A p \in Requests : req'[p] = req[p] \/ req'[p] = q
    BY <1>0, <2>1
  <2>3. /\ sentAt[issued] \in Nat /\ sentAt[issued] <= clock
        /\ user.lastSentAt = sentAt[issued] /\ user.windowStartedAt \in Nat
        /\ Falls(sentAt[issued], user.windowStartedAt)
    BY <1>0, <2>1, Constants DEF Sent, Dated, Codes
  <2>4. user.sendCount \in Nat /\ SendsBefore \in Nat
    BY <1>0, <2>1 DEF User, SendsBefore
  <2>5. Falls(clock, w)
    BY <1>0, <2>3, Constants DEF Falls, WindowIsActive
  <2>6. clock >= sentAt[issued] + Cooldown
    BY <2>1, <2>3, Constants DEF Cooled
  <2>7. SendsBefore + 1 <= MaxSends
    BY <1>0, <2>1, <2>4
  <2>8. ASSUME Spaced PROVE Cardinality(Within(sentAt, issued, w)) + 1 <= SendsBefore + 1
    <3>1. CASE WindowIsActive(user, clock)
      <4>1. w = user.windowStartedAt /\ SendsBefore = user.sendCount
        BY <3>1 DEF SendsBefore
      <4>2. Cardinality(Within(sentAt, issued, w)) <= user.sendCount
        BY <2>1, <2>3, <2>8, <4>1, Constants DEF Spaced
      <4>3. Cardinality(Within(sentAt, issued, w)) \in Nat
        BY <1>0, WithinFinite
      <4> QED
        BY <2>4, <4>1, <4>2, <4>3
    <3>2. CASE ~WindowIsActive(user, clock)
      <4>1. w = clock /\ SendsBefore = 0
        BY <3>2 DEF SendsBefore
      <4>2. Window > 0 => sentAt[issued] < clock
        BY <1>0, <2>3, <3>2, Constants DEF WindowIsActive, Falls
      <4>3. \A c \in 1..issued : sentAt[c] \in Nat /\ sentAt[c] <= sentAt[issued]
        BY <2>8 DEF Sent, Dated, Spaced
      <4>4. Cardinality(Within(sentAt, issued, clock)) = 0
        BY <1>0, <2>3, <4>2, <4>3, WithinNew
      <4> QED
        BY <4>1, <4>4
    <3> QED
      BY <3>1, <3>2
  <2>9. /\ q.pc = "store" /\ q.seen = issued /\ q.now = clock
        /\ q.windowStartedAt = w /\ q.sendCount = SendsBefore + 1
    OBVIOUS
  <2> HIDE DEF q, w
  <2>10. Dated'
    <3>1. \A p \in Requests : req'[p].pc = "store" =>
              /\ req'[p].now <= clock
              /\ Falls(req'[p].now, req'[p].windowStartedAt)
              /\ req'[p].sendCount <= MaxSends
      BY <1>0, <2>2, <2>5, <2>7, <2>9 DEF Sent, Dated
    <3> QED
      BY <2>1, <3>1 DEF Sent, Dated
  <2>11. Spaced => Spaced'
    <3> SUFFICES ASSUME Spaced PROVE Spaced'
      OBVIOUS
    <3>1. \A p \in Requests : req'[p].pc = "store" /\ req'[p].seen = issued =>
              /\ req'[p].now >= sentAt[issued] + Cooldown
              /\ Cardinality(Within(sentAt, issued, req'[p].windowStartedAt)) + 1 <= req'[p].sendCount
      BY <2>2, <2>6, <2>8, <2>9 DEF Spaced
    <3> QED
      BY <2>1, <3>1 DEF Spaced
  <2> QED
    BY <2>1, <2>10, <2>11 DEF Sent
<1>5. ASSUME NEW r \in Requests, ResendStore(r) PROVE Sent'
  <2> DEFINE q == req[r]
  <2>1. /\ q.pc = "store" /\ issued' = issued + 1 /\ user' = ResentUser(q)
        /\ sentAt' = [sentAt EXCEPT ![issued + 1] = q.now]
        /\ req' = [req EXCEPT ![r] = Mailing(issued + 1)]
        /\ raced' = raced \cup (IF q.seen # issued THEN {"send"} ELSE {})
        /\ clock' = clock
    BY <1>5 DEF ResendStore, ResentUser, Mailing
  <2>2. /\ user # None /\ q \in Request /\ q.now \in Nat /\ q.windowStartedAt \in Nat
        /\ q.sendCount \in Nat
    BY <1>0, <2>1 DEF Shaped, Request
  <2>3. /\ user' # None /\ user'.windowStartedAt = q.windowStartedAt
        /\ user'.sendCount = q.sendCount /\ user'.lastSentAt = q.now
    BY <2>1, <2>2, ResendUser, Constants
  <2>4. \A p \in Requests : req'[p].pc = "store" => req'[p] = req[p]
    BY <1>0, <2>1, MailTyped
  <2>5. q.now <= clock /\ Falls(q.now, q.windowStartedAt) /\ q.sendCount <= MaxSends
    BY <2>1 DEF Sent, Dated
  <2>6. "send" \notin raced' =>
            /\ "send" \notin raced
            /\ q.now >= sentAt[issued] + Cooldown
            /\ Cardinality(Within(sentAt, issued, q.windowStartedAt)) + 1 <= q.sendCount
    BY <2>1 DEF Sent, Spaced
  <2> HIDE DEF q
  <2> QED
    BY <1>0, <2>1, <2>2, <2>3, <2>4, <2>5, <2>6, SentFresh
<1>6. CASE LinkGoogle
  <2>1. /\ user # None /\ user' = [user EXCEPT !.isVerified = TRUE]
        /\ UNCHANGED <<clock, req, issued, sentAt, raced>>
    BY <1>6 DEF LinkGoogle
  <2>2. /\ user'.isVerified /\ user'.sendCount = user.sendCount
        /\ user'.windowStartedAt = user.windowStartedAt
    BY <1>0, <2>1 DEF User
  <2> QED
    BY <1>0, <2>1, <2>2, SentStill
<1>7. CASE Tick \/ UNCHANGED vars
  BY <1>0, <1>7, SentStill DEF Tick, vars
<1> QED
  BY <1>1, <1>2, <1>3, <1>4, <1>5, <1>6, <1>7 DEF Next

\* Codes are stored a cooldown apart and no more than MaxSends of them in one
\* window (resendOtp), unless two sends overlapped.
THEOREM SendLimit == Spec => []SendsLimited
<1>1. Typed /\ Sent => SendsLimited
  <2> SUFFICES ASSUME Typed, Sent, "send" \notin raced, user # None,
                      user.windowStartedAt # None, issued > 1
               PROVE  Cardinality(SentIn(user.windowStartedAt)) <= MaxSends
    BY DEF Sent, Spaced, SendsLimited
  <2> DEFINE w == user.windowStartedAt
  <2>1. SentIn(w) = Within(sentAt, issued, w)
    BY DEF SentIn, Within
  <2>2. Cardinality(Within(sentAt, issued, w)) <= user.sendCount /\ user.sendCount <= MaxSends
    BY DEF Sent, Spaced
  <2>3. user.sendCount \in Nat /\ Cardinality(Within(sentAt, issued, w)) \in Nat
    BY WithinFinite DEF Typed, TypeOK, User
  <2> QED
    BY <2>1, <2>2, <2>3, Constants
<1> QED
  BY <1>1, TypedInit, TypedNext, SentInit, SentNext, PTL DEF Spec

=============================================================================
