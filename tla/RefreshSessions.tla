-------------------------- MODULE RefreshSessions --------------------------
(***************************************************************************)
(* The refresh sessions of one account (users.refreshSessions) and the     *)
(* requests that open, rotate and drop them.  A sign-in, a refresh or a    *)
(* confirmation first reads the user document and later writes it; each    *)
(* write is one atomic update of that document, conditional or not.        *)
(*                                                                         *)
(* A session keeps the generation of its refresh token (the client holds   *)
(* the raw token, the store its hash), whether expiresAt lies ahead, its   *)
(* place in the array, and - history, not code - the epoch of the          *)
(* account's credentials when they were checked (`proved`) and when the    *)
(* session was stored (`since`).                                           *)
(***************************************************************************)
EXTENDS Naturals, FiniteSets

CONSTANTS
    SessionIds,     \* random session ids (bound: no sign-in beyond)
    MaxSessions,    \* AUTH_MAX_REFRESH_SESSIONS
    Requests,       \* slots for requests in flight (bound on concurrency)
    MaxEpoch,       \* bound: changes of password or email
    MaxTokens,      \* bound: confirmation tokens mailed, of both kinds together
    MaxRotations,   \* bound: rotations of one session
    None            \* an absent session, or an unused field of a request

\* numericConfig floors after it has refused values <= 0: 0.5 gives 0.
ASSUME BoundsAssumption ==
    {MaxSessions, MaxEpoch, MaxTokens, MaxRotations} \subseteq Nat

\* randomBytes(16): there are finitely many ids.
ASSUME FiniteIdsAssumption == IsFiniteSet(SessionIds)

\* resetPasswordToken and pendingEmailToken work alike.
Kinds == {"reset", "email"}

Session == [token : Nat, live : BOOLEAN, place : Nat, proved : Nat, since : Nat]

ASSUME AbsenceAssumption ==
    None \notin Session /\ None \notin SessionIds /\ None \notin Kinds

Pcs == {"idle", "loginPull", "loginPush", "rotate", "logout", "changePassword",
        "consume"}

Request == [pc : Pcs, id : SessionIds \cup {None}, token : Nat,
            kind : Kinds \cup {None}, proved : Nat, late : SUBSET (SessionIds \X Nat)]

VARIABLES
    store,      \* refreshSessions: the session of an id, or None
    pushed,     \* how many sessions were ever appended to the array
    epoch,      \* how often password or email changed
    mailed,     \* confirmation tokens mailed, of each kind; the last one counts
    pending,    \* is that one "unset" again, "live" or "expired"?
    req,        \* the requests in flight
    issued,     \* history: ids ever stored
    rotations,  \* history: successful rotations of each id
    confirmed   \* history: successful confirmations, of each kind

vars == <<store, pushed, epoch, mailed, pending, req, issued, rotations, confirmed>>

Idle == [pc |-> "idle", id |-> None, token |-> 0, kind |-> None, proved |-> 0,
         late |-> {}]

Stored == {i \in SessionIds : store[i] # None}
Active(i) == i \in Stored /\ store[i].live
Expired == {i \in Stored : ~store[i].live}
FreshIds == {i \in SessionIds \ issued : \A r \in Requests : req[r].id # i}

Begin(r, request) == req[r].pc = "idle" /\ req' = [req EXCEPT ![r] = request]
End(r) == req' = [req EXCEPT ![r] = Idle]

\* A filter compares expiresAt with a new Date() of the process, taken at some
\* time since the request saw the entry live and before the update is applied:
\* what has expired by then may still pass.
Passes(live) == IF live THEN {TRUE} ELSE BOOLEAN

NoSessions == [i \in SessionIds |-> None]

Init ==
    /\ store = NoSessions
    /\ pushed = 0
    /\ epoch = 0
    /\ mailed = [k \in Kinds |-> 0]
    /\ pending = [k \in Kinds |-> "unset"]
    /\ req = [r \in Requests |-> Idle]
    /\ issued = {}
    /\ rotations = [i \in SessionIds |-> 0]
    /\ confirmed = [k \in Kinds |-> 0]

----------------------------------------------------------------------------
(* Altered forms of the definitions below, each a slip the code could have *)
(* made; put in the place of the original they show which property notices.*)

Unsliced(s) == s

NewSessionWithoutHash(r) ==
    [token |-> None, live |-> TRUE, place |-> pushed + 1,
     proved |-> req[r].proved, since |-> epoch]

RotatableByIdOnly(r) == req[r].id \in Stored

RefreshUpsert(r) ==
    /\ req[r].pc = "rotate"
    /\ store' = [store EXCEPT ![req[r].id] =
          [token |-> req[r].token + 1, live |-> TRUE, place |-> pushed,
           proved |-> epoch, since |-> epoch]]
    /\ rotations' = [rotations EXCEPT ![req[r].id] = @ + 1]
    /\ End(r)
    /\ UNCHANGED <<pushed, epoch, mailed, pending, issued, confirmed>>

ChangePasswordOnly(r) ==
    /\ req[r].pc = "changePassword"
    /\ epoch' = epoch + 1
    /\ End(r)
    /\ UNCHANGED <<store, pushed, mailed, pending, issued, rotations, confirmed>>

ConsumableOnceRead(r) == req[r].pc = "consume"

----------------------------------------------------------------------------
(* Signing in: verifyUser (or verifyEmail, createGoogleUser), then login   *)

\* $push with $slice -MaxSessions: the last MaxSessions of the array stay.
Pushed(i, session) == [store EXCEPT ![i] = session]
Sliced(s) ==
    [i \in SessionIds |->
        IF s[i] # None /\ Cardinality({j \in SessionIds :
                s[j] # None /\ s[j].place > s[i].place}) >= MaxSessions
        THEN None ELSE s[i]]

LoginRead(r) ==
    /\ \E i \in FreshIds :
          Begin(r, [Idle EXCEPT !.pc = "loginPull", !.id = i, !.proved = epoch,
                                !.late = {<<j, store[j].token>> : j \in Expired}])
    /\ UNCHANGED <<store, pushed, epoch, mailed, pending, issued, rotations, confirmed>>

\* $pull of what expired before a date taken since LoginRead: all that had
\* expired then (`late`), and of the rest any.
LoginPull(r) ==
    /\ req[r].pc = "loginPull"
    /\ \E gone \in SUBSET Expired :
          /\ {j \in Expired : <<j, store[j].token>> \in req[r].late} \subseteq gone
          /\ store' = [i \in SessionIds |-> IF i \in gone THEN None ELSE store[i]]
    /\ req' = [req EXCEPT ![r].pc = "loginPush", ![r].late = {}]
    /\ UNCHANGED <<pushed, epoch, mailed, pending, issued, rotations, confirmed>>

NewSession(r) ==
    [token |-> 0, live |-> TRUE, place |-> pushed + 1,
     proved |-> req[r].proved, since |-> epoch]

LoginPush(r) ==
    /\ req[r].pc = "loginPush"
    /\ store' = Sliced(Pushed(req[r].id, NewSession(r)))
    /\ pushed' = pushed + 1
    /\ issued' = issued \cup {req[r].id}
    /\ End(r)
    /\ UNCHANGED <<epoch, mailed, pending, rotations, confirmed>>

----------------------------------------------------------------------------
(* POST /auth/refresh : verifyUserRefreshToken, then login rotates         *)

RefreshRead(r, i) ==
    /\ Active(i)
    /\ store[i].token < MaxRotations
    /\ Begin(r, [Idle EXCEPT !.pc = "rotate", !.id = i, !.token = store[i].token])
    /\ UNCHANGED <<store, pushed, epoch, mailed, pending, issued, rotations, confirmed>>

\* The $elemMatch of rotateRefreshSession but for expiresAt, which Passes judges.
Rotatable(r) ==
    /\ req[r].id \in Stored
    /\ store[req[r].id].token = req[r].token

RefreshRotate(r) ==
    /\ req[r].pc = "rotate"
    /\ \E inTime \in Passes(Active(req[r].id)) :
          IF inTime /\ Rotatable(r)
          THEN /\ store' = [store EXCEPT ![req[r].id].token = req[r].token + 1,
                                         ![req[r].id].live = TRUE]
               /\ rotations' = [rotations EXCEPT ![req[r].id] = @ + 1]
          ELSE UNCHANGED <<store, rotations>>
    /\ End(r)
    /\ UNCHANGED <<pushed, epoch, mailed, pending, issued, confirmed>>

----------------------------------------------------------------------------
(* POST /auth/logout, PATCH /auth/password : behind JwtStrategy.validate   *)

\* The access token names its session, so `authSessionId` is always set and
\* the branch of logout that clears every session is never taken.
LogoutValidate(r, i) ==
    /\ Active(i)
    /\ Begin(r, [Idle EXCEPT !.pc = "logout", !.id = i])
    /\ UNCHANGED <<store, pushed, epoch, mailed, pending, issued, rotations, confirmed>>

LogoutRemove(r) ==
    /\ req[r].pc = "logout"
    /\ store' = [store EXCEPT ![req[r].id] = None]
    /\ End(r)
    /\ UNCHANGED <<pushed, epoch, mailed, pending, issued, rotations, confirmed>>

\* compare() runs on the password the strategy read.
ChangePasswordValidate(r, i) ==
    /\ Active(i)
    /\ epoch + Cardinality({q \in Requests : req[q].pc = "changePassword"}) < MaxEpoch
    /\ Begin(r, [Idle EXCEPT !.pc = "changePassword", !.id = i, !.proved = epoch])
    /\ UNCHANGED <<store, pushed, epoch, mailed, pending, issued, rotations, confirmed>>

ChangePasswordUpdate(r) ==
    /\ req[r].pc = "changePassword"
    /\ epoch' = epoch + 1
    /\ store' = NoSessions
    /\ End(r)
    /\ UNCHANGED <<pushed, mailed, pending, issued, rotations, confirmed>>

----------------------------------------------------------------------------
(* Password reset and email change: a mailed token, confirmed              *)

\* The token replaces the pending one.
MailToken(k) ==
    /\ mailed["reset"] + mailed["email"] < MaxTokens
    /\ mailed' = [mailed EXCEPT ![k] = @ + 1]
    /\ pending' = [pending EXCEPT ![k] = "live"]
    /\ UNCHANGED <<store, pushed, epoch, req, issued, rotations, confirmed>>

\* Each request checks the account and its limits, and may refuse; when it
\* does not, whatever it read, it stores a token and mails it.
resetPassword(k) == k = "reset" /\ MailToken(k)
requestEmailChange(k) == k = "email" /\ MailToken(k)

\* The token presented is the pending one and has not expired.
ConfirmRead(r, k) ==
    /\ pending[k] = "live"
    /\ Begin(r, [Idle EXCEPT !.pc = "consume", !.kind = k, !.token = mailed[k]])
    /\ UNCHANGED <<store, pushed, epoch, mailed, pending, issued, rotations, confirmed>>

confirmResetPassword(r, k) == k = "reset" /\ ConfirmRead(r, k)
confirmEmailChange(r, k) == k = "email" /\ ConfirmRead(r, k)

\* The filter of consumePasswordReset and consumeEmailChange, but for the date.
Consumable(r) ==
    /\ pending[req[r].kind] # "unset"
    /\ mailed[req[r].kind] = req[r].token

Consume(r) ==
    /\ req[r].pc = "consume"
    /\ \E inTime \in Passes(pending[req[r].kind] = "live") :
          IF inTime /\ Consumable(r)
          THEN /\ epoch' = epoch + 1
               /\ store' = NoSessions
               /\ pending' = [pending EXCEPT ![req[r].kind] = "unset"]
               /\ confirmed' = [confirmed EXCEPT ![req[r].kind] = @ + 1]
          ELSE UNCHANGED <<epoch, store, pending, confirmed>>
    /\ End(r)
    /\ UNCHANGED <<pushed, mailed, issued, rotations>>

\* The new address was taken meanwhile: the unique index refuses the update.
ConsumeConflict(r) ==
    /\ req[r].pc = "consume" /\ req[r].kind = "email"
    /\ Consumable(r)
    /\ End(r)
    /\ UNCHANGED <<store, pushed, epoch, mailed, pending, issued, rotations, confirmed>>

----------------------------------------------------------------------------
(* Time, and requests that die                                             *)

SessionExpires(i) ==
    /\ Active(i)
    /\ store' = [store EXCEPT ![i].live = FALSE]
    /\ UNCHANGED <<pushed, epoch, mailed, pending, req, issued, rotations, confirmed>>

TokenExpires(k) ==
    /\ pending[k] = "live"
    /\ pending' = [pending EXCEPT ![k] = "expired"]
    /\ UNCHANGED <<store, pushed, epoch, mailed, req, issued, rotations, confirmed>>

RequestDies(r) ==
    /\ req[r].pc # "idle"
    /\ End(r)
    /\ UNCHANGED <<store, pushed, epoch, mailed, pending, issued, rotations, confirmed>>

Next ==
    \/ \E r \in Requests :
          \/ LoginRead(r) \/ LoginPull(r) \/ LoginPush(r)
          \/ \E i \in SessionIds :
                RefreshRead(r, i) \/ LogoutValidate(r, i) \/ ChangePasswordValidate(r, i)
          \/ RefreshRotate(r) \/ LogoutRemove(r) \/ ChangePasswordUpdate(r)
          \/ \E k \in Kinds : confirmResetPassword(r, k) \/ confirmEmailChange(r, k)
          \/ Consume(r) \/ ConsumeConflict(r) \/ RequestDies(r)
    \/ \E i \in SessionIds : SessionExpires(i)
    \/ \E k \in Kinds : resetPassword(k) \/ requestEmailChange(k) \/ TokenExpires(k)

Spec == Init /\ [][Next]_vars

----------------------------------------------------------------------------
(* What the account promises                                               *)

\* The user document keeps to users.schema.ts.
TypeOK ==
    /\ store \in [SessionIds -> Session \cup {None}]
    /\ {pushed, epoch} \subseteq Nat
    /\ mailed \in [Kinds -> Nat]
    /\ pending \in [Kinds -> {"unset", "live", "expired"}]
    /\ req \in [Requests -> Request]
    /\ issued \subseteq SessionIds
    /\ rotations \in [SessionIds -> Nat]
    /\ confirmed \in [Kinds -> Nat]

\* However many devices sign in at once, the array never exceeds its limit.
AtMostMaxSessions == Cardinality(Stored) <= MaxSessions

\* A refresh token is exchanged at most once: the generation a session has
\* reached counts its successful rotations, also when refreshes race.
TokensRotatedOnce == \A i \in Stored : store[i].token = rotations[i]

\* A mailed token confirms at most one change: there are never more
\* confirmations than tokens, the pending one not yet among them.
TokensConfirmedOnce ==
    \A k \in Kinds :
        confirmed[k] + (IF pending[k] = "unset" THEN 0 ELSE 1) <= mailed[k]

\* No session that was stored before the password or the email changed is
\* left after the change.
NoSessionOutlivesCredentials == \A i \in Stored : store[i].since = epoch

\* A session that was logged out, evicted or dropped never comes back, even
\* if a refresh of it was in flight.
EndedStaysEnded ==
    [][\A i \in issued : store[i] = None => store'[i] = None]_vars

\* A session has expired for good when no refresh that presented its token
\* while it was live is still under way.
Doomed(i) ==
    /\ i \in Expired
    /\ \A r \in Requests :
          req[r].pc = "rotate" /\ req[r].id = i => req[r].token # store[i].token

\* A refresh may extend a session that expires under it, since its date is
\* older than its update; but a session whose expiry no such refresh has
\* forestalled is never extended, not even by one with an older token.
ExpiredStaysExpired ==
    [][\A i \in SessionIds : Doomed(i) => store'[i] = None \/ Doomed(i)']_vars

----------------------------------------------------------------------------
(* What the code says of itself and does not keep                          *)

\* auth.service.ts:611, after a change of password: "Please sign in again."
\* So every session was opened by credentials checked since the last change.
SessionsProveCredentials == \A i \in Stored : store[i].proved = epoch

=============================================================================
