----------------------- MODULE RefreshSessionsProofs -----------------------
(***************************************************************************)
(* Theorems about RefreshSessions, for any number of sign-ins, requests in *)
(* flight, changes of credentials and rotations.                           *)
(***************************************************************************)
EXTENDS RefreshSessions, FiniteSetTheorems, TLAPS

----------------------------------------------------------------------------
(* Types                                                                   *)

OfSession == {"loginPull", "loginPush", "rotate", "logout"}

Shaped(q) ==
    /\ q \in Request
    /\ q.pc \in OfSession => q.id \in SessionIds
    /\ q.pc = "consume" => q.kind \in Kinds

\* The fields an update reads were set by the read before it.
Typed == TypeOK /\ \A r \in Requests : Shaped(req[r])

DocumentTyped ==
    /\ store \in [SessionIds -> Session \cup {None}]
    /\ pushed \in Nat /\ epoch \in Nat
    /\ mailed \in [Kinds -> Nat]
    /\ pending \in [Kinds -> {"unset", "live", "expired"}]
    /\ issued \subseteq SessionIds
    /\ rotations \in [SessionIds -> Nat]
    /\ confirmed \in [Kinds -> Nat]

LEMMA TypedParts == Typed => DocumentTyped
  BY DEF Typed, TypeOK, DocumentTyped

LEMMA ShapedIdle == Shaped(Idle)
  BY DEF Shaped, Idle, Request, Pcs, OfSession

\* One request takes a step; the document keeps its types.
LEMMA TypedStep ==
    ASSUME Typed, NEW r \in Requests, NEW q, Shaped(q),
           req' = [req EXCEPT ![r] = q], DocumentTyped'
    PROVE  Typed'
<1>1. req \in [Requests -> Request] /\ q \in Request
  BY DEF Typed, TypeOK, Shaped
<1>2. req' \in [Requests -> Request]
  BY <1>1
<1>3. ASSUME NEW p \in Requests PROVE Shaped(req[p])'
  <2>1. req'[p] = q \/ req'[p] = req[p]
    BY <1>1
  <2>2. Shaped(req'[p])
    BY <2>1 DEF Typed
  <2> QED
    BY <2>2 DEF Shaped
<1> QED
  BY <1>2, <1>3 DEF Typed, TypeOK, DocumentTyped

\* A request that ends leaves its slot idle.
LEMMA TypedEnd ==
    ASSUME Typed, NEW r \in Requests, End(r), DocumentTyped'
    PROVE  Typed'
  BY ShapedIdle, TypedStep DEF End

LEMMA TypedInit == Init => Typed
<1> SUFFICES ASSUME Init PROVE Typed
  OBVIOUS
<1>1. \A r \in Requests : Shaped(req[r])
  BY ShapedIdle DEF Init
<1> QED
  BY <1>1 DEF Init, Typed, TypeOK, Shaped, NoSessions

LEMMA StoreTyped ==
    ASSUME Typed, NEW i \in Stored
    PROVE  i \in SessionIds /\ store[i] \in Session
  BY DEF Typed, TypeOK, Stored

LEMMA TypedLogin ==
    ASSUME Typed, NEW r \in Requests, LoginRead(r) \/ LoginPull(r) \/ LoginPush(r)
    PROVE  Typed'
<1>0. DocumentTyped /\ Shaped(req[r])
  BY TypedParts DEF Typed
<1>1. CASE LoginRead(r)
  <2> DEFINE late == {<<j, store[j].token>> : j \in Expired}
  <2>1. PICK i \in FreshIds :
            Begin(r, [Idle EXCEPT !.pc = "loginPull", !.id = i, !.proved = epoch,
                                  !.late = late])
    BY <1>1 DEF LoginRead
  <2> DEFINE q == [Idle EXCEPT !.pc = "loginPull", !.id = i, !.proved = epoch, !.late = late]
  <2>2. Shaped(q)
    <3>1. late \subseteq SessionIds \X Nat
      BY StoreTyped DEF Expired, Session
    <3> HIDE DEF late
    <3> QED
      BY <1>0, <3>1 DEF Shaped, Idle, Request, Pcs, OfSession, FreshIds, DocumentTyped
  <2>3. req' = [req EXCEPT ![r] = q]
    BY <2>1 DEF Begin
  <2>4. DocumentTyped'
    BY <1>0, <1>1 DEF LoginRead, DocumentTyped
  <2> HIDE DEF q
  <2> QED
    BY <2>2, <2>3, <2>4, TypedStep
<1>2. CASE LoginPull(r)
  <2> DEFINE q == [[req[r] EXCEPT !.pc = "loginPush"] EXCEPT !.late = {}]
  <2>1. Shaped(q)
    BY <1>0, <1>2 DEF LoginPull, Shaped, Request, Pcs, OfSession
  <2>2. req' = [req EXCEPT ![r] = q]
    <3>1. req \in [Requests -> Request]
      BY DEF Typed, TypeOK
    <3>2. req' = [req EXCEPT ![r].pc = "loginPush", ![r].late = {}]
      BY <1>2 DEF LoginPull
    <3> QED
      BY <3>1, <3>2
  <2>3. DocumentTyped'
    BY <1>0, <1>2 DEF LoginPull, DocumentTyped
  <2> HIDE DEF q
  <2> QED
    BY <2>1, <2>2, <2>3, TypedStep
<1>3. CASE LoginPush(r)
  <2>1. NewSession(r) \in Session
    BY <1>0 DEF NewSession, Session, Shaped, Request, DocumentTyped
  <2>2. Pushed(req[r].id, NewSession(r)) \in [SessionIds -> Session \cup {None}]
    BY <1>0, <2>1 DEF Pushed, DocumentTyped
  <2>3. Sliced(Pushed(req[r].id, NewSession(r))) \in [SessionIds -> Session \cup {None}]
    BY <2>2 DEF Sliced
  <2>4. req[r].id \in SessionIds
    BY <1>0, <1>3 DEF LoginPush, Shaped, OfSession
  <2>5. DocumentTyped'
    BY <1>0, <1>3, <2>3, <2>4 DEF LoginPush, DocumentTyped
  <2> QED
    BY <1>3, <2>5, TypedEnd DEF LoginPush
<1> QED
  BY <1>1, <1>2, <1>3

\* A rotation is made, if the filter lets it through, or nothing is.
LEMMA RotateCases ==
    ASSUME NEW r \in Requests, RefreshRotate(r)
    PROVE  \/ UNCHANGED <<store, rotations>>
           \/ /\ Rotatable(r)
              /\ store' = [store EXCEPT ![req[r].id].token = req[r].token + 1,
                                        ![req[r].id].live = TRUE]
              /\ rotations' = [rotations EXCEPT ![req[r].id] = @ + 1]
BY DEF RefreshRotate

LEMMA RotatedIsSession ==
    ASSUME NEW x \in Session, NEW t \in Nat
    PROVE  [[x EXCEPT !.token = t] EXCEPT !.live = TRUE] \in Session
<1>1. [x EXCEPT !.token = t] \in Session
  BY DEF Session
<1> QED
  BY <1>1 DEF Session

LEMMA TypedRefresh ==
    ASSUME Typed, NEW r \in Requests,
           RefreshRotate(r) \/ \E i \in SessionIds : RefreshRead(r, i)
    PROVE  Typed'
<1>0. DocumentTyped /\ Shaped(req[r])
  BY TypedParts DEF Typed
<1>1. ASSUME NEW i \in SessionIds, RefreshRead(r, i) PROVE Typed'
  <2> DEFINE q == [Idle EXCEPT !.pc = "rotate", !.id = i, !.token = store[i].token]
  <2>1. store[i].token \in Nat
    BY <1>1, StoreTyped DEF RefreshRead, Active, Session
  <2>2. Shaped(q)
    BY <2>1 DEF Shaped, Idle, Request, Pcs, OfSession
  <2>3. req' = [req EXCEPT ![r] = q]
    BY <1>1 DEF RefreshRead, Begin
  <2>4. DocumentTyped'
    BY <1>0, <1>1 DEF RefreshRead, DocumentTyped
  <2> HIDE DEF q
  <2> QED
    BY <2>2, <2>3, <2>4, TypedStep
<1>2. CASE RefreshRotate(r)
  <2>1. CASE ~UNCHANGED <<store, rotations>>
    <3> DEFINE i == req[r].id
               s == [[store[i] EXCEPT !.token = req[r].token + 1] EXCEPT !.live = TRUE]
    <3>0. /\ i \in Stored
          /\ store' = [store EXCEPT ![i].token = req[r].token + 1, ![i].live = TRUE]
          /\ rotations' = [rotations EXCEPT ![i] = @ + 1]
      BY <1>2, <2>1, RotateCases DEF Rotatable
    <3>1. store[i] \in Session /\ i \in SessionIds /\ req[r].token \in Nat
      BY <1>0, <3>0, StoreTyped DEF Shaped, Request
    <3>2. s \in Session
      <4>1. req[r].token + 1 \in Nat
        BY <3>1
      <4> QED
        BY <3>1, <4>1, RotatedIsSession
    <3>3. store' = [store EXCEPT ![i] = s]
      BY <1>0, <3>0, <3>1 DEF DocumentTyped
    <3>4. rotations' = [rotations EXCEPT ![i] = @ + 1]
      BY <3>0
    <3> HIDE DEF i, s
    <3>5. store' \in [SessionIds -> Session \cup {None}] /\ rotations' \in [SessionIds -> Nat]
      BY <1>0, <3>1, <3>2, <3>3, <3>4 DEF DocumentTyped
    <3>6. DocumentTyped'
      BY <1>0, <1>2, <3>5 DEF RefreshRotate, DocumentTyped
    <3> QED
      BY <1>2, <3>6, TypedEnd DEF RefreshRotate
  <2>2. CASE UNCHANGED <<store, rotations>>
    <3>1. DocumentTyped'
      BY <1>0, <1>2, <2>2 DEF RefreshRotate, DocumentTyped
    <3> QED
      BY <1>2, <3>1, TypedEnd DEF RefreshRotate
  <2> QED
    BY <2>1, <2>2
<1> QED
  BY <1>1, <1>2

LEMMA TypedLogout ==
    ASSUME Typed, NEW r \in Requests,
           \/ LogoutRemove(r) \/ ChangePasswordUpdate(r)
           \/ \E i \in SessionIds : LogoutValidate(r, i) \/ ChangePasswordValidate(r, i)
    PROVE  Typed'
<1>0. DocumentTyped
  BY TypedParts
<1>1. ASSUME NEW i \in SessionIds, LogoutValidate(r, i) PROVE Typed'
  <2> DEFINE q == [Idle EXCEPT !.pc = "logout", !.id = i]
  <2>1. Shaped(q)
    BY DEF Shaped, Idle, Request, Pcs, OfSession
  <2>2. req' = [req EXCEPT ![r] = q]
    BY <1>1 DEF LogoutValidate, Begin
  <2>3. DocumentTyped'
    BY <1>0, <1>1 DEF LogoutValidate, DocumentTyped
  <2> HIDE DEF q
  <2> QED
    BY <2>1, <2>2, <2>3, TypedStep
<1>2. ASSUME NEW i \in SessionIds, ChangePasswordValidate(r, i) PROVE Typed'
  <2> DEFINE q == [Idle EXCEPT !.pc = "changePassword", !.id = i, !.proved = epoch]
  <2>1. Shaped(q)
    BY <1>0 DEF Shaped, Idle, Request, Pcs, OfSession, DocumentTyped
  <2>2. req' = [req EXCEPT ![r] = q]
    BY <1>2 DEF ChangePasswordValidate, Begin
  <2>3. DocumentTyped'
    BY <1>0, <1>2 DEF ChangePasswordValidate, DocumentTyped
  <2> HIDE DEF q
  <2> QED
    BY <2>1, <2>2, <2>3, TypedStep
<1>3. CASE LogoutRemove(r)
  <2>1. DocumentTyped'
    BY <1>0, <1>3 DEF LogoutRemove, DocumentTyped
  <2> QED
    BY <1>3, <2>1, TypedEnd DEF LogoutRemove
<1>4. CASE ChangePasswordUpdate(r)
  <2>1. DocumentTyped'
    BY <1>0, <1>4 DEF ChangePasswordUpdate, NoSessions, DocumentTyped
  <2> QED
    BY <1>4, <2>1, TypedEnd DEF ChangePasswordUpdate
<1> QED
  BY <1>1, <1>2, <1>3, <1>4

LEMMA TypedConfirm ==
    ASSUME Typed, NEW r \in Requests,
           \/ Consume(r) \/ ConsumeConflict(r) \/ RequestDies(r)
           \/ \E k \in Kinds : ConfirmRead(r, k)
    PROVE  Typed'
<1>0. DocumentTyped
  BY TypedParts
<1>1. ASSUME NEW k \in Kinds, ConfirmRead(r, k) PROVE Typed'
  <2> DEFINE q == [Idle EXCEPT !.pc = "consume", !.kind = k, !.token = mailed[k]]
  <2>1. Shaped(q)
    BY <1>0 DEF Shaped, Idle, Request, Pcs, OfSession, DocumentTyped
  <2>2. req' = [req EXCEPT ![r] = q]
    BY <1>1 DEF ConfirmRead, Begin
  <2>3. DocumentTyped'
    BY <1>0, <1>1 DEF ConfirmRead, DocumentTyped
  <2> HIDE DEF q
  <2> QED
    BY <2>1, <2>2, <2>3, TypedStep
<1>2. CASE Consume(r)
  <2>1. DocumentTyped'
    BY <1>0, <1>2 DEF Consume, NoSessions, DocumentTyped
  <2> QED
    BY <1>2, <2>1, TypedEnd DEF Consume
<1>3. CASE ConsumeConflict(r)
  <2>1. DocumentTyped'
    BY <1>0, <1>3 DEF ConsumeConflict, DocumentTyped
  <2> QED
    BY <1>3, <2>1, TypedEnd DEF ConsumeConflict
<1>4. CASE RequestDies(r)
  <2>1. DocumentTyped'
    BY <1>0, <1>4 DEF RequestDies, DocumentTyped
  <2> QED
    BY <1>4, <2>1, TypedEnd DEF RequestDies
<1> QED
  BY <1>1, <1>2, <1>3, <1>4

\* The two kinds of mailed token take the same steps.
LEMMA KindSteps ==
    ASSUME NEW k \in Kinds
    PROVE  /\ resetPassword(k) \/ requestEmailChange(k) => MailToken(k)
           /\ \A r \in Requests : confirmResetPassword(r, k) \/ confirmEmailChange(r, k)
                                 => ConfirmRead(r, k)
BY DEF resetPassword, requestEmailChange, confirmResetPassword, confirmEmailChange

LEMMA TypedNext == Typed /\ [Next]_vars => Typed'
<1> SUFFICES ASSUME Typed, [Next]_vars PROVE Typed'
  OBVIOUS
<1>0. DocumentTyped
  BY TypedParts
<1>1. ASSUME NEW i \in SessionIds, SessionExpires(i) PROVE Typed'
  <2>1. store' \in [SessionIds -> Session \cup {None}]
    BY <1>0, <1>1, StoreTyped DEF SessionExpires, Active, DocumentTyped, Session
  <2> QED
    BY <1>1, <2>1 DEF SessionExpires, Typed, TypeOK, Shaped
<1>2. ASSUME NEW k \in Kinds, MailToken(k) PROVE Typed'
  BY <1>0, <1>2 DEF MailToken, Typed, TypeOK, Shaped, DocumentTyped
<1>3. ASSUME NEW k \in Kinds, TokenExpires(k) PROVE Typed'
  BY <1>0, <1>3 DEF TokenExpires, Typed, TypeOK, Shaped, DocumentTyped
<1>4. CASE UNCHANGED vars
  BY <1>4 DEF vars, Typed, TypeOK, Shaped
<1> QED
  BY <1>1, <1>2, <1>3, <1>4, TypedLogin, TypedRefresh, TypedLogout, TypedConfirm,
     KindSteps DEF Next

\* The user document never leaves its schema.
THEOREM TypeCorrect == Spec => []TypeOK
<1>1. Spec => []Typed
  BY TypedInit, TypedNext, PTL DEF Spec
<1>2. Typed => TypeOK
  BY DEF Typed
<1> QED
  BY <1>1, <1>2, PTL


----------------------------------------------------------------------------
(* The inductive invariant                                                 *)

Signing == {"loginPull", "loginPush"}

\* A session id is stored by one sign-in only: whoever is about to store one
\* owns it, and no session was ever stored under it.
OwnIds ==
    /\ Stored \subseteq issued
    /\ \A i \in SessionIds \ issued : rotations[i] = 0
    /\ \A r \in Requests : req[r].pc \in Signing =>
          /\ req[r].id \notin issued
          /\ \A q \in Requests \ {r} : req[q].pc \in Signing => req[q].id # req[r].id

Safe ==
    /\ Typed
    /\ OwnIds
    /\ TokensRotatedOnce
    /\ NoSessionOutlivesCredentials
    /\ TokensConfirmedOnce

\* What most updates do to the array: they take sessions away, or let them
\* expire, and touch nothing else of those that stay.
Kept ==
    \A i \in Stored' :
        /\ i \in Stored
        /\ store'[i].token = store[i].token
        /\ store'[i].since = store[i].since
        /\ store'[i].place = store[i].place
        /\ store'[i].live => store[i].live

SigningKept ==
    \A r \in Requests : req'[r].pc \in Signing =>
        req[r].pc \in Signing /\ req'[r].id = req[r].id

LEMMA SafeInit == Init => Safe
<1> SUFFICES ASSUME Init PROVE Safe
  OBVIOUS
<1>1. Stored = {}
  BY DEF Init, Stored, NoSessions
<1>2. \A r \in Requests : req[r].pc \notin Signing
  BY DEF Init, Idle, Signing
<1>3. TokensConfirmedOnce
  BY DEF Init, TokensConfirmedOnce
<1> QED
  BY <1>1, <1>2, <1>3, TypedInit
     DEF Init, Safe, OwnIds, TokensRotatedOnce, NoSessionOutlivesCredentials

LEMMA EndKeepsSigning ==
    ASSUME Typed, NEW r \in Requests, End(r)
    PROVE  SigningKept
<1>1. req \in [Requests -> Request]
  BY DEF Typed, TypeOK
<1> QED
  BY <1>1 DEF End, SigningKept, Idle, Signing

LEMMA BeginKeepsSigning ==
    ASSUME Typed, NEW r \in Requests, NEW q, Begin(r, q), q.pc \notin Signing
    PROVE  SigningKept
<1>1. req \in [Requests -> Request]
  BY DEF Typed, TypeOK
<1> QED
  BY <1>1 DEF Begin, SigningKept

LEMMA UnchangedKept == store' = store => Kept
  BY DEF Kept, Stored

\* A step that keeps the sessions and issues nothing keeps the invariant.
LEMMA KeptSafe ==
    ASSUME Safe, Typed', Kept, SigningKept, TokensConfirmedOnce',
           epoch' = epoch \/ Stored' = {},
           UNCHANGED <<issued, rotations>>
    PROVE  Safe'
<1>1. OwnIds'
  BY DEF Safe, OwnIds, Kept, SigningKept
<1>2. TokensRotatedOnce'
  BY DEF Safe, TokensRotatedOnce, Kept
<1>3. NoSessionOutlivesCredentials'
  BY DEF Safe, NoSessionOutlivesCredentials, Kept
<1> QED
  BY <1>1, <1>2, <1>3 DEF Safe

\* The step that stores a session.
LEMMA PushSafe ==
    ASSUME Safe, Typed', NEW r \in Requests, LoginPush(r)
    PROVE  /\ Safe'
           /\ \A i \in SessionIds \ {req[r].id} : store'[i] \in {store[i], None}
<1> DEFINE n == req[r].id
           s == Pushed(n, NewSession(r))
<1>1. n \in SessionIds \ issued /\ r \in Requests /\ req[r].pc = "loginPush"
  BY DEF Safe, OwnIds, LoginPush, Signing, Typed, Shaped, OfSession
<1>2. s = [store EXCEPT ![n] = NewSession(r)]
  BY DEF Pushed
<1>3. store \in [SessionIds -> Session \cup {None}]
  BY DEF Safe, Typed, TypeOK
<1>4. \A i \in SessionIds : store'[i] \in {s[i], None}
  BY DEF LoginPush, Sliced
<1>5. s[n] = NewSession(r) /\ \A i \in SessionIds \ {n} : s[i] = store[i]
  BY <1>1, <1>2, <1>3
<1>6. \A i \in SessionIds \ {n} : store'[i] \in {store[i], None}
  BY <1>4, <1>5
<1>7. store'[n] \in {NewSession(r), None}
  BY <1>1, <1>4, <1>5
<1> HIDE DEF s
<1>8. issued' = issued \cup {n} /\ rotations' = rotations /\ epoch' = epoch
  BY DEF LoginPush
<1>9. SigningKept /\ req'[r].pc \notin Signing
  <2>1. req \in [Requests -> Request]
    BY DEF Safe, Typed, TypeOK
  <2> QED
    BY <2>1, EndKeepsSigning DEF LoginPush, Safe, End, Idle, Signing
<1>10. Stored' \subseteq Stored \cup {n}
  BY <1>6 DEF Stored
<1>11. OwnIds'
  <2>1. Stored' \subseteq issued'
    BY <1>8, <1>10 DEF Safe, OwnIds
  <2>2. \A i \in SessionIds \ issued' : rotations'[i] = 0
    BY <1>8 DEF Safe, OwnIds
  <2>3. ASSUME NEW p \in Requests, req'[p].pc \in Signing
        PROVE  /\ req'[p].id \notin issued'
               /\ \A q \in Requests \ {p} : req'[q].pc \in Signing => req'[q].id # req'[p].id
    <3>1. p # r
      BY <1>9, <2>3
    <3>2. req[p].pc \in Signing /\ req'[p].id = req[p].id
      BY <1>9, <2>3 DEF SigningKept
    <3>3. req[p].id # n
      BY <1>1, <3>1, <3>2 DEF Safe, OwnIds, Signing
    <3> QED
      BY <1>8, <1>9, <3>2, <3>3 DEF Safe, OwnIds, SigningKept
  <2> QED
    BY <2>1, <2>2, <2>3 DEF OwnIds
<1>12. TokensRotatedOnce'
  <2> SUFFICES ASSUME NEW i \in Stored' PROVE store'[i].token = rotations'[i]
    BY DEF TokensRotatedOnce
  <2>1. CASE i = n
    BY <1>1, <1>7, <1>8, <2>1 DEF NewSession, Stored, Safe, OwnIds
  <2>2. CASE i # n
    BY <1>6, <1>8, <2>2 DEF Stored, Safe, TokensRotatedOnce
  <2> QED
    BY <2>1, <2>2
<1>13. NoSessionOutlivesCredentials'
  <2> SUFFICES ASSUME NEW i \in Stored' PROVE store'[i].since = epoch'
    BY DEF NoSessionOutlivesCredentials
  <2>1. CASE i = n
    BY <1>7, <1>8, <2>1 DEF NewSession, Stored
  <2>2. CASE i # n
    BY <1>6, <1>8, <2>2 DEF Stored, Safe, NoSessionOutlivesCredentials
  <2> QED
    BY <2>1, <2>2
<1>14. TokensConfirmedOnce'
  BY DEF LoginPush, Safe, TokensConfirmedOnce
<1> QED
  BY <1>6, <1>11, <1>12, <1>13, <1>14 DEF Safe

\* The step that rotates a token: of the session that the refresh has read,
\* still at the generation it presented.
Extends(r, i) ==
    /\ i \in Stored /\ i = req[r].id
    /\ req[r].pc = "rotate" /\ req[r].token = store[i].token

LEMMA RotateSafe ==
    ASSUME Safe, Typed', NEW r \in Requests, RefreshRotate(r)
    PROVE  /\ Safe'
           /\ \A i \in SessionIds :
                 \/ store'[i] = store[i]
                 \/ Extends(r, i) /\ store'[i].place = store[i].place
<1>1. SigningKept
  BY EndKeepsSigning DEF RefreshRotate, Safe
<1>2. TokensConfirmedOnce'
  BY DEF RefreshRotate, Safe, TokensConfirmedOnce
<1>3. CASE UNCHANGED <<store, rotations>>
  BY <1>1, <1>2, <1>3, UnchangedKept, KeptSafe DEF RefreshRotate
<1>4. CASE ~UNCHANGED <<store, rotations>>
  <2> DEFINE n == req[r].id
  <2>1. n \in Stored /\ store[n].token = req[r].token
    BY <1>4, RotateCases DEF Rotatable
  <2>2. store' = [store EXCEPT ![n].token = req[r].token + 1, ![n].live = TRUE]
    BY <1>4, RotateCases
  <2>3. rotations' = [rotations EXCEPT ![n] = @ + 1]
    BY <1>4, RotateCases
  <2>4. /\ store \in [SessionIds -> Session \cup {None}]
        /\ rotations \in [SessionIds -> Nat]
        /\ store[n] \in Session /\ n \in SessionIds
    BY <2>1, StoreTyped DEF Safe, Typed, TypeOK
  <2>5. issued' = issued /\ epoch' = epoch
    BY DEF RefreshRotate
  <2>12. Extends(r, n)
    BY <2>1 DEF Extends, RefreshRotate
  <2> HIDE DEF n
  <2>6. \A i \in SessionIds \ {n} : store'[i] = store[i] /\ rotations'[i] = rotations[i]
    BY <2>2, <2>3, <2>4
  <2>7. /\ store'[n].token = req[r].token + 1 /\ store'[n].since = store[n].since
        /\ store'[n].place = store[n].place
        /\ rotations'[n] = rotations[n] + 1
    BY <2>2, <2>3, <2>4 DEF Session
  <2>8. Stored' \subseteq Stored
    BY <2>1, <2>6 DEF Stored
  <2>9. OwnIds'
    <3>1. n \in issued
      BY <2>1 DEF Safe, OwnIds
    <3> QED
      BY <1>1, <2>5, <2>6, <2>8, <3>1 DEF Safe, OwnIds, SigningKept
  <2>10. TokensRotatedOnce'
    <3>1. \A i \in Stored' : i = n \/ i \in SessionIds \ {n}
      BY DEF Stored
    <3> QED
      BY <2>1, <2>6, <2>7, <2>8, <3>1 DEF Safe, TokensRotatedOnce
  <2>11. NoSessionOutlivesCredentials'
    <3>1. \A i \in Stored' : i = n \/ i \in SessionIds \ {n}
      BY DEF Stored
    <3> QED
      BY <2>1, <2>5, <2>6, <2>7, <2>8, <3>1 DEF Safe, NoSessionOutlivesCredentials
  <2> QED
    BY <1>2, <2>6, <2>7, <2>9, <2>10, <2>11, <2>12 DEF Safe
<1> QED
  BY <1>3, <1>4

\* Every other step keeps the sessions, or takes them away.
Pushes == \E r \in Requests : LoginPush(r)
Rotates == \E r \in Requests : RefreshRotate(r)

LEMMA SignInSafe ==
    ASSUME Safe, Typed', NEW r \in Requests, LoginRead(r) \/ LoginPull(r)
    PROVE  Safe' /\ Kept
<1>0. req \in [Requests -> Request] /\ store \in [SessionIds -> Session \cup {None}]
  BY DEF Safe, Typed, TypeOK
<1>1. TokensConfirmedOnce'
  BY DEF LoginRead, LoginPull, Safe, TokensConfirmedOnce
<1>2. CASE LoginRead(r)
  <2>1. PICK i \in FreshIds :
            Begin(r, [Idle EXCEPT !.pc = "loginPull", !.id = i, !.proved = epoch,
                                  !.late = {<<j, store[j].token>> : j \in Expired}])
    BY <1>2 DEF LoginRead
  <2>2. req'[r].id = i /\ \A p \in Requests \ {r} : req'[p] = req[p]
    BY <1>0, <2>1 DEF Begin, Idle
  <2>3. i \notin issued /\ \A p \in Requests : req[p].id # i
    BY DEF FreshIds
  <2>4. OwnIds'
    BY <1>2, <2>2, <2>3 DEF LoginRead, Safe, OwnIds, Stored
  <2>5. TokensRotatedOnce' /\ NoSessionOutlivesCredentials'
    BY <1>2 DEF LoginRead, Safe, TokensRotatedOnce, NoSessionOutlivesCredentials, Stored
  <2> QED
    BY <1>1, <1>2, <2>4, <2>5, UnchangedKept DEF LoginRead, Safe
<1>3. CASE LoginPull(r)
  <2>1. Kept
    BY <1>3 DEF LoginPull, Kept, Stored
  <2>2. SigningKept
    BY <1>0, <1>3 DEF LoginPull, SigningKept, Signing
  <2> QED
    BY <1>1, <1>3, <2>1, <2>2, KeptSafe DEF LoginPull
<1> QED
  BY <1>2, <1>3

LEMMA BehindSessionSafe ==
    ASSUME Safe, Typed', NEW r \in Requests,
           \/ LogoutRemove(r) \/ ChangePasswordUpdate(r) \/ RequestDies(r)
           \/ \E i \in SessionIds : \/ RefreshRead(r, i) \/ LogoutValidate(r, i)
                                    \/ ChangePasswordValidate(r, i)
    PROVE  Safe' /\ Kept
<1>0. store \in [SessionIds -> Session \cup {None}]
  BY DEF Safe, Typed, TypeOK
<1>1. TokensConfirmedOnce'
  BY DEF LogoutRemove, ChangePasswordUpdate, RequestDies, RefreshRead, LogoutValidate,
         ChangePasswordValidate, Safe, TokensConfirmedOnce
<1>2. SigningKept
  <2>1. CASE LogoutRemove(r) \/ ChangePasswordUpdate(r) \/ RequestDies(r)
    BY <2>1, EndKeepsSigning DEF LogoutRemove, ChangePasswordUpdate, RequestDies, Safe
  <2>2. ASSUME NEW i \in SessionIds, NEW q, Begin(r, q), q.pc \notin Signing
        PROVE  SigningKept
    BY <2>2, BeginKeepsSigning DEF Safe
  <2> QED
    BY <2>1, <2>2 DEF RefreshRead, LogoutValidate, ChangePasswordValidate, Idle, Signing
<1>3. CASE LogoutRemove(r)
  <2>1. Kept
    BY <1>0, <1>3 DEF LogoutRemove, Kept, Stored
  <2> QED
    BY <1>1, <1>2, <1>3, <2>1, KeptSafe DEF LogoutRemove
<1>4. CASE ChangePasswordUpdate(r)
  <2>1. Stored' = {}
    BY <1>4 DEF ChangePasswordUpdate, Stored, NoSessions
  <2> QED
    BY <1>1, <1>2, <1>4, <2>1, KeptSafe DEF ChangePasswordUpdate, Kept
<1>5. CASE \/ RequestDies(r)
           \/ \E i \in SessionIds : \/ RefreshRead(r, i) \/ LogoutValidate(r, i)
                                    \/ ChangePasswordValidate(r, i)
  <2>1. UNCHANGED <<store, epoch, issued, rotations>>
    BY <1>5 DEF RequestDies, RefreshRead, LogoutValidate, ChangePasswordValidate
  <2> QED
    BY <1>1, <1>2, <2>1, UnchangedKept, KeptSafe
<1> QED
  BY <1>3, <1>4, <1>5

LEMMA ConfirmSafe ==
    ASSUME Safe, Typed', NEW r \in Requests,
           Consume(r) \/ ConsumeConflict(r) \/ \E k \in Kinds : ConfirmRead(r, k)
    PROVE  Safe' /\ Kept
<1>0. /\ mailed \in [Kinds -> Nat] /\ confirmed \in [Kinds -> Nat]
      /\ pending \in [Kinds -> {"unset", "live", "expired"}]
      /\ Shaped(req[r])
  BY DEF Safe, Typed, TypeOK
<1>1. CASE Consume(r)
  <2>1. SigningKept
    BY <1>1, EndKeepsSigning DEF Consume, Safe
  <2> DEFINE confirms == /\ Consumable(r)
                         /\ epoch' = epoch + 1 /\ store' = NoSessions
                         /\ pending' = [pending EXCEPT ![req[r].kind] = "unset"]
                         /\ confirmed' = [confirmed EXCEPT ![req[r].kind] = @ + 1]
  <2>0. confirms \/ UNCHANGED <<epoch, store, pending, confirmed>>
    BY <1>1 DEF Consume
  <2>2. CASE confirms
    <3>1. Stored' = {}
      BY <2>2 DEF Stored, NoSessions
    <3>2. TokensConfirmedOnce'
      <4> SUFFICES ASSUME NEW k \in Kinds
                   PROVE  confirmed'[k] + (IF pending'[k] = "unset" THEN 0 ELSE 1) <= mailed'[k]
        BY DEF TokensConfirmedOnce
      <4> DEFINE c == req[r].kind
      <4>1. c \in Kinds /\ pending[c] # "unset"
        BY <1>0, <1>1, <2>2 DEF Consume, Consumable, Shaped
      <4>2. /\ pending' = [pending EXCEPT ![c] = "unset"]
            /\ confirmed' = [confirmed EXCEPT ![c] = @ + 1]
            /\ mailed' = mailed
        BY <1>1, <2>2 DEF Consume
      <4>3. \A j \in Kinds : confirmed[j] + (IF pending[j] = "unset" THEN 0 ELSE 1) <= mailed[j]
        BY DEF Safe, TokensConfirmedOnce
      <4> HIDE DEF c
      <4>4. CASE k = c
        BY <1>0, <4>1, <4>2, <4>3, <4>4
      <4>5. CASE k # c
        BY <1>0, <4>1, <4>2, <4>3, <4>5
      <4> QED
        BY <4>4, <4>5
    <3> QED
      BY <1>1, <2>1, <3>1, <3>2, KeptSafe DEF Consume, Kept
  <2>3. CASE UNCHANGED <<epoch, store, pending, confirmed>>
    <3>1. UNCHANGED <<store, epoch, issued, rotations, mailed, pending, confirmed>>
      BY <1>1, <2>3 DEF Consume
    <3>2. TokensConfirmedOnce'
      BY <3>1 DEF Safe, TokensConfirmedOnce
    <3> QED
      BY <2>1, <3>1, <3>2, UnchangedKept, KeptSafe
  <2> QED
    BY <2>0, <2>2, <2>3
<1>2. CASE ConsumeConflict(r) \/ \E k \in Kinds : ConfirmRead(r, k)
  <2>1. UNCHANGED <<store, epoch, issued, rotations, mailed, pending, confirmed>>
    BY <1>2 DEF ConsumeConflict, ConfirmRead
  <2>2. TokensConfirmedOnce'
    BY <2>1 DEF Safe, TokensConfirmedOnce
  <2>3. SigningKept
    <3>1. CASE ConsumeConflict(r)
      BY <3>1, EndKeepsSigning DEF ConsumeConflict, Safe
    <3>2. ASSUME NEW k \in Kinds, ConfirmRead(r, k) PROVE SigningKept
      <4> DEFINE q == [Idle EXCEPT !.pc = "consume", !.kind = k, !.token = mailed[k]]
      <4>1. q.pc \notin Signing
        BY DEF Idle, Signing
      <4>2. Begin(r, q)
        BY <3>2 DEF ConfirmRead
      <4> HIDE DEF q
      <4> QED
        BY <4>1, <4>2, BeginKeepsSigning DEF Safe
    <3> QED
      BY <1>2, <3>1, <3>2
  <2> QED
    BY <2>1, <2>2, <2>3, UnchangedKept, KeptSafe
<1> QED
  BY <1>1, <1>2

LEMMA TimeSafe ==
    ASSUME Safe, Typed',
           \/ \E i \in SessionIds : SessionExpires(i)
           \/ \E k \in Kinds : MailToken(k) \/ TokenExpires(k)
    PROVE  Safe' /\ Kept
<1>0. /\ store \in [SessionIds -> Session \cup {None}]
      /\ mailed \in [Kinds -> Nat] /\ confirmed \in [Kinds -> Nat]
      /\ pending \in [Kinds -> {"unset", "live", "expired"}]
  BY DEF Safe, Typed, TypeOK
<1>1. SigningKept
  BY DEF SessionExpires, MailToken, TokenExpires, SigningKept
<1>2. ASSUME NEW i \in SessionIds, SessionExpires(i) PROVE Safe' /\ Kept
  <2>1. store[i] \in Session /\ i \in Stored
    BY <1>2, StoreTyped DEF SessionExpires, Active, Safe
  <2>2. store' = [store EXCEPT ![i].live = FALSE]
    BY <1>2 DEF SessionExpires
  <2>3. \A j \in SessionIds \ {i} : store'[j] = store[j]
    BY <1>0, <2>2
  <2>4. /\ store'[i].token = store[i].token /\ store'[i].since = store[i].since
        /\ store'[i].place = store[i].place /\ ~store'[i].live
    BY <1>0, <2>1, <2>2 DEF Session
  <2>5. Kept
    BY <2>1, <2>3, <2>4 DEF Kept, Stored
  <2>6. TokensConfirmedOnce'
    BY <1>2 DEF SessionExpires, Safe, TokensConfirmedOnce
  <2> QED
    BY <1>1, <1>2, <2>5, <2>6, KeptSafe DEF SessionExpires
<1>3. ASSUME NEW k \in Kinds, MailToken(k) \/ TokenExpires(k) PROVE Safe' /\ Kept
  <2>1. UNCHANGED <<store, epoch, issued, rotations, confirmed>>
    BY <1>3 DEF MailToken, TokenExpires
  <2>2. TokensConfirmedOnce'
    <3> SUFFICES ASSUME NEW j \in Kinds
                 PROVE  confirmed'[j] + (IF pending'[j] = "unset" THEN 0 ELSE 1) <= mailed'[j]
      BY DEF TokensConfirmedOnce
    <3>1. \A i \in Kinds : confirmed[i] + (IF pending[i] = "unset" THEN 0 ELSE 1) <= mailed[i]
      BY DEF Safe, TokensConfirmedOnce
    <3>2. CASE MailToken(k)
      <4>1. /\ mailed' = [mailed EXCEPT ![k] = @ + 1]
            /\ pending' = [pending EXCEPT ![k] = "live"]
        BY <3>2 DEF MailToken
      <4>2. CASE j = k
        BY <1>0, <2>1, <3>1, <4>1, <4>2
      <4>3. CASE j # k
        BY <1>0, <2>1, <3>1, <4>1, <4>3
      <4> QED
        BY <4>2, <4>3
    <3>3. CASE TokenExpires(k)
      <4>1. /\ pending[k] = "live" /\ mailed' = mailed
            /\ pending' = [pending EXCEPT ![k] = "expired"]
        BY <3>3 DEF TokenExpires
      <4>2. CASE j = k
        BY <1>0, <2>1, <3>1, <4>1, <4>2
      <4>3. CASE j # k
        BY <1>0, <2>1, <3>1, <4>1, <4>3
      <4> QED
        BY <4>2, <4>3
    <3> QED
      BY <1>3, <3>2, <3>3
  <2> QED
    BY <1>1, <2>1, <2>2, UnchangedKept, KeptSafe
<1> QED
  BY <1>2, <1>3

\* A step stores one session, rotates one token, or keeps what there is.
LEMMA StepSafe ==
    ASSUME Safe, [Next]_vars
    PROVE  Safe' /\ (Pushes \/ Rotates \/ Kept)
<1>1. Typed'
  BY TypedNext DEF Safe
<1>2. ASSUME NEW r \in Requests, LoginPush(r) PROVE Safe' /\ Pushes
  BY <1>1, <1>2, PushSafe DEF Pushes
<1>3. ASSUME NEW r \in Requests, RefreshRotate(r) PROVE Safe' /\ Rotates
  BY <1>1, <1>3, RotateSafe DEF Rotates
<1>4. CASE UNCHANGED vars
  <2>1. SigningKept /\ TokensConfirmedOnce'
    BY <1>4 DEF vars, SigningKept, Safe, TokensConfirmedOnce
  <2> QED
    BY <1>1, <1>4, <2>1, UnchangedKept, KeptSafe DEF vars
<1> QED
  BY <1>1, <1>2, <1>3, <1>4, SignInSafe, BehindSessionSafe, ConfirmSafe, TimeSafe,
     KindSteps DEF Next

LEMMA AlwaysSafe == Spec => []Safe
<1>1. Safe /\ [Next]_vars => Safe'
  BY StepSafe
<1> QED
  BY <1>1, SafeInit, PTL DEF Spec

----------------------------------------------------------------------------
(* The theorems                                                            *)

\* rotateRefreshSession exchanges a refresh token at most once, however many
\* refreshes race with each other, with logouts and with evictions.
THEOREM RotatedOnce == Spec => []TokensRotatedOnce
  BY AlwaysSafe, PTL DEF Safe

\* consumePasswordReset and consumeEmailChange confirm at most one change
\* for each token that was mailed.
THEOREM ConfirmedOnce == Spec => []TokensConfirmedOnce
  BY AlwaysSafe, PTL DEF Safe

\* A change of password or email leaves no session that was stored before it.
THEOREM NoneOutlives == Spec => []NoSessionOutlivesCredentials
  BY AlwaysSafe, PTL DEF Safe

\* No refresh in flight brings a session back that has ended.
THEOREM EndedForGood == Spec => EndedStaysEnded
<1>1. ASSUME Safe, [Next]_vars
      PROVE  \A i \in issued : store[i] = None => store'[i] = None
  <2> SUFFICES ASSUME NEW i \in issued, store[i] = None PROVE store'[i] = None
    OBVIOUS
  <2>0. i \in SessionIds
    BY <1>1 DEF Safe, Typed, TypeOK
  <2>1. ASSUME NEW r \in Requests, LoginPush(r) PROVE store'[i] = None
    <3>1. i # req[r].id
      BY <1>1, <2>1 DEF LoginPush, Safe, OwnIds, Signing
    <3> QED
      BY <1>1, <2>0, <2>1, <3>1, PushSafe, TypedNext DEF Safe
  <2>2. ASSUME NEW r \in Requests, RefreshRotate(r) PROVE store'[i] = None
    BY <1>1, <2>0, <2>2, RotateSafe, TypedNext DEF Safe, Extends, Stored
  <2>3. CASE Kept
    BY <2>0, <2>3 DEF Kept, Stored
  <2> QED
    BY <1>1, <2>1, <2>2, <2>3, StepSafe DEF Pushes, Rotates
<1> QED
  BY <1>1, AlwaysSafe, PTL DEF Spec, EndedStaysEnded

\* A refresh presents the token it has read, of a session that was live then.
LEMMA RefreshesReadLive ==
    ASSUME Typed, [Next]_vars, NEW p \in Requests, req'[p].pc = "rotate"
    PROVE  req'[p] = req[p] \/ Active(req'[p].id)
<1>0. req \in [Requests -> Request]
  BY DEF Typed, TypeOK
<1>1. ASSUME NEW r \in Requests, NEW q, req' = [req EXCEPT ![r] = q], q.pc # "rotate"
      PROVE  req'[p] = req[p]
  BY <1>0, <1>1
<1>2. ASSUME NEW r \in Requests, LoginRead(r) PROVE req'[p] = req[p]
  <2> DEFINE late == {<<j, store[j].token>> : j \in Expired}
             q(i) == [Idle EXCEPT !.pc = "loginPull", !.id = i, !.proved = epoch, !.late = late]
  <2>1. \A i : q(i).pc = "loginPull"
    BY DEF Idle
  <2>2. \E i : req' = [req EXCEPT ![r] = q(i)]
    BY <1>2 DEF LoginRead, Begin
  <2> HIDE DEF q
  <2> QED
    BY <1>1, <2>1, <2>2
<1>3. ASSUME NEW r \in Requests, LoginPull(r) PROVE req'[p] = req[p]
  <2>1. req' = [req EXCEPT ![r].pc = "loginPush", ![r].late = {}]
    BY <1>3 DEF LoginPull
  <2>2. p # r => req'[p] = req[p]
    BY <1>0, <2>1
  <2>3. p = r => req'[p].pc = "loginPush"
    BY <1>0, <2>1 DEF Request
  <2> QED
    BY <2>2, <2>3
<1>4. ASSUME NEW r \in Requests, NEW i \in SessionIds, RefreshRead(r, i)
      PROVE  req'[p] = req[p] \/ Active(req'[p].id)
  <2> DEFINE q == [Idle EXCEPT !.pc = "rotate", !.id = i, !.token = store[i].token]
  <2>1. req' = [req EXCEPT ![r] = q] /\ Active(i)
    BY <1>4 DEF RefreshRead, Begin
  <2>2. q.id = i
    BY DEF Idle
  <2> HIDE DEF q
  <2> QED
    BY <1>0, <2>1, <2>2
<1>5. ASSUME NEW r \in Requests,
             \/ \E i \in SessionIds : LogoutValidate(r, i) \/ ChangePasswordValidate(r, i)
             \/ \E k \in Kinds : ConfirmRead(r, k)
      PROVE  req'[p] = req[p]
  <2> DEFINE logout(i) == [Idle EXCEPT !.pc = "logout", !.id = i]
             change(i) == [Idle EXCEPT !.pc = "changePassword", !.id = i, !.proved = epoch]
             consume(k) == [Idle EXCEPT !.pc = "consume", !.kind = k, !.token = mailed[k]]
  <2>1. \A x : logout(x).pc # "rotate" /\ change(x).pc # "rotate" /\ consume(x).pc # "rotate"
    BY DEF Idle
  <2>2. \E x : req' \in {[req EXCEPT ![r] = logout(x)], [req EXCEPT ![r] = change(x)],
                        [req EXCEPT ![r] = consume(x)]}
    BY <1>5 DEF LogoutValidate, ChangePasswordValidate, ConfirmRead, Begin
  <2> HIDE DEF logout, change, consume
  <2> QED
    BY <1>1, <2>1, <2>2
<1>6. ASSUME NEW r \in Requests,
             \/ LoginPush(r) \/ RefreshRotate(r) \/ LogoutRemove(r) \/ ChangePasswordUpdate(r)
             \/ Consume(r) \/ ConsumeConflict(r) \/ RequestDies(r)
      PROVE  req'[p] = req[p]
  <2>1. req' = [req EXCEPT ![r] = Idle] /\ Idle.pc # "rotate"
    BY <1>6 DEF LoginPush, RefreshRotate, LogoutRemove, ChangePasswordUpdate, Consume,
                ConsumeConflict, RequestDies, End, Idle
  <2> QED
    BY <1>1, <2>1
<1>7. CASE \/ UNCHANGED vars \/ \E i \in SessionIds : SessionExpires(i)
           \/ \E k \in Kinds : MailToken(k) \/ TokenExpires(k)
  BY <1>7 DEF vars, SessionExpires, MailToken, TokenExpires
<1> QED
  BY <1>2, <1>3, <1>4, <1>5, <1>6, <1>7, KindSteps DEF Next

\* A session that has expired is extended only by a refresh that presented
\* its token while it was live, and is still under way.
THEOREM ExpiredForGood == Spec => ExpiredStaysExpired
<1>1. ASSUME Safe, [Next]_vars
      PROVE  \A i \in SessionIds : Doomed(i) => store'[i] = None \/ Doomed(i)'
  <2> SUFFICES ASSUME NEW i \in SessionIds, Doomed(i), store'[i] # None
               PROVE  Doomed(i)'
    OBVIOUS
  <2>0. i \in Stored /\ ~store[i].live /\ ~Active(i) /\ i \in Stored'
    BY DEF Doomed, Expired, Active, Stored
  <2>1. store'[i].token = store[i].token /\ ~store'[i].live
    <3>1. ASSUME NEW r \in Requests, LoginPush(r) PROVE store'[i] = store[i]
      <4>1. i # req[r].id
        BY <1>1, <2>0, <3>1 DEF LoginPush, Safe, OwnIds, Signing
      <4> QED
        BY <1>1, <3>1, <4>1, PushSafe, TypedNext DEF Safe
    <3>2. ASSUME NEW r \in Requests, RefreshRotate(r) PROVE store'[i] = store[i]
      <4>1. ~Extends(r, i)
        BY DEF Extends, Doomed
      <4> QED
        BY <1>1, <3>2, <4>1, RotateSafe, TypedNext DEF Safe
    <3>3. CASE Kept
      BY <2>0, <3>3 DEF Kept
    <3> QED
      BY <1>1, <2>0, <3>1, <3>2, <3>3, StepSafe DEF Pushes, Rotates
  <2>2. ASSUME NEW p \in Requests, req'[p].pc = "rotate", req'[p].id = i
        PROVE  req'[p].token # store'[i].token
    <3>1. req'[p] = req[p]
      BY <1>1, <2>0, <2>2, RefreshesReadLive DEF Safe
    <3> QED
      BY <2>1, <2>2, <3>1 DEF Doomed
  <2>3. i \in Expired'
    BY <2>0, <2>1 DEF Expired
  <2> QED
    BY <2>2, <2>3 DEF Doomed
<1> QED
  BY <1>1, AlwaysSafe, PTL DEF Spec, ExpiredStaysExpired

----------------------------------------------------------------------------
(* The array of refresh sessions never exceeds AUTH_MAX_REFRESH_SESSIONS,  *)
(* however many devices sign in at once.                                   *)

Held(s) == {i \in SessionIds : s[i] # None}
Later(s, i) == {j \in SessionIds : s[j] # None /\ s[j].place > s[i].place}

\* No two sessions are at one place of the array.
Distinct(s) == \A i, j \in Held(s) : s[i].place = s[j].place => i = j

\* $slice keeps at most MaxSessions: the number of sessions behind one tells
\* those that stay apart, and is below MaxSessions for each of them.
LEMMA SliceBounds ==
    ASSUME NEW s \in [SessionIds -> Session \cup {None}], Distinct(s)
    PROVE  Cardinality(Held(Sliced(s))) <= MaxSessions
<1> DEFINE S == Held(Sliced(s))
           f == [i \in S |-> Cardinality(Later(s, i))]
           T == 0..(MaxSessions - 1)
<1>1. S \subseteq Held(s)
  BY DEF Held, Sliced
<1>2. IsFiniteSet(S)
  BY FiniteIdsAssumption, FS_Subset DEF Held
<1>3. \A i \in SessionIds : IsFiniteSet(Later(s, i)) /\ Cardinality(Later(s, i)) \in Nat
  BY FiniteIdsAssumption, FS_Subset, FS_CardinalityType DEF Later
<1>4. \A i \in S : ~(Cardinality(Later(s, i)) >= MaxSessions)
  BY DEF Held, Sliced, Later
<1>5. f \in [S -> T]
  <2>1. \A i \in S : Cardinality(Later(s, i)) \in T
    BY <1>3, <1>4, BoundsAssumption DEF Held
  <2> QED
    BY <2>1
<1>6. IsFiniteSet(T) /\ Cardinality(T) = MaxSessions
  <2>1. 0 \in Int /\ MaxSessions \in Nat /\ MaxSessions - 1 \in Int
    BY BoundsAssumption
  <2>2. /\ IsFiniteSet(T)
        /\ Cardinality(T) = IF 0 > MaxSessions - 1 THEN 0 ELSE (MaxSessions - 1) - 0 + 1
    BY <2>1, FS_Interval
  <2> HIDE DEF T
  <2> QED
    BY <2>1, <2>2
<1>7. ASSUME NEW x \in S, NEW y \in S, s[x].place < s[y].place PROVE f[x] # f[y]
  <2>1. \A i \in S : s[i] \in Session /\ i \in SessionIds
    BY <1>1 DEF Held
  <2>2. Later(s, y) \subseteq Later(s, x) /\ y \in Later(s, x) /\ y \notin Later(s, y)
    BY <1>1, <1>7, <2>1 DEF Later, Held, Session
  <2>3. Cardinality(Later(s, y)) # Cardinality(Later(s, x))
    BY <1>3, <2>1, <2>2, FS_Subset
  <2> QED
    BY <2>3
<1>8. ASSUME NEW x \in S, NEW y \in S, x # y PROVE f[x] # f[y]
  <2>1. s[x].place \in Nat /\ s[y].place \in Nat /\ s[x].place # s[y].place
    BY <1>1, <1>8 DEF Held, Session, Distinct
  <2> QED
    BY <1>7, <2>1
<1>9. Cardinality(S) \in Nat /\ MaxSessions \in Nat
  BY <1>2, FS_CardinalityType, BoundsAssumption
<1> HIDE DEF S, f, T
<1>10. ~(Cardinality(T) < Cardinality(S))
  BY <1>2, <1>5, <1>6, <1>8, FS_PigeonHole
<1> QED
  BY <1>6, <1>9, <1>10 DEF S

\* The sessions stand in the array in the order in which they were pushed.
Placed ==
    /\ \A i \in Stored : store[i].place <= pushed
    /\ Distinct(store)

Limited == Safe /\ Placed /\ AtMostMaxSessions

LEMMA LimitedInit == Init => Limited
<1> SUFFICES ASSUME Init PROVE Limited
  OBVIOUS
<1>1. Stored = {} /\ Held(store) = {}
  BY DEF Init, Stored, NoSessions, Held
<1> QED
  BY <1>1, SafeInit, FS_EmptySet, BoundsAssumption
     DEF Limited, Placed, Distinct, AtMostMaxSessions

LEMMA FewerLimited ==
    ASSUME Limited, Safe', pushed' = pushed,
           \A i \in Stored' : i \in Stored /\ store'[i].place = store[i].place
    PROVE  Limited'
<1>1. Stored \subseteq SessionIds /\ Stored' \subseteq Stored
  BY DEF Stored
<1>2. IsFiniteSet(Stored) /\ IsFiniteSet(Stored')
  BY <1>1, FiniteIdsAssumption, FS_Subset
<1>3. Cardinality(Stored') <= Cardinality(Stored)
  BY <1>1, <1>2, FS_Subset
<1>4. AtMostMaxSessions'
  BY <1>2, <1>3, FS_CardinalityType, BoundsAssumption DEF Limited, AtMostMaxSessions
<1>5. Placed'
  BY DEF Limited, Placed, Distinct, Held, Stored
<1> QED
  BY <1>4, <1>5 DEF Limited

LEMMA PushLimited ==
    ASSUME Limited, Safe', NEW r \in Requests, LoginPush(r)
    PROVE  Limited'
<1> DEFINE n == req[r].id
           s == Pushed(n, NewSession(r))
<1>1. n \in SessionIds /\ n \notin Stored
  BY DEF Limited, Safe, OwnIds, LoginPush, Signing, Typed, Shaped, OfSession
<1>2. store \in [SessionIds -> Session \cup {None}] /\ pushed \in Nat
  BY DEF Limited, Safe, Typed, TypeOK
<1>3. s = [store EXCEPT ![n] = NewSession(r)]
  BY DEF Pushed
<1>4. s[n] = NewSession(r) /\ \A i \in SessionIds \ {n} : s[i] = store[i]
  BY <1>1, <1>2, <1>3
<1>5. NewSession(r) \in Session /\ NewSession(r).place = pushed + 1
  BY <1>2 DEF NewSession, Session, Limited, Safe, Typed, TypeOK, Request
<1>6. s \in [SessionIds -> Session \cup {None}]
  BY <1>2, <1>3, <1>5
<1>7. store' = Sliced(s) /\ pushed' = pushed + 1
  BY DEF LoginPush
<1> HIDE DEF s
<1>8. \A i \in Held(s) : s[i].place \in Nat /\ s[i].place <= pushed + 1
                          /\ (i # n => s[i].place <= pushed)
  <2> SUFFICES ASSUME NEW i \in Held(s)
               PROVE  s[i].place \in Nat /\ s[i].place <= pushed + 1
                      /\ (i # n => s[i].place <= pushed)
    OBVIOUS
  <2>1. s[i].place \in Nat
    BY <1>6 DEF Held, Session
  <2>2. CASE i = n
    BY <1>2, <1>4, <1>5, <2>1, <2>2
  <2>3. CASE i # n
    BY <1>2, <1>4, <2>1, <2>3 DEF Held, Limited, Placed, Stored
  <2> QED
    BY <2>1, <2>2, <2>3
<1>9. Distinct(s)
  <2> SUFFICES ASSUME NEW i \in Held(s), NEW j \in Held(s), s[i].place = s[j].place
               PROVE  i = j
    BY DEF Distinct
  <2>1. CASE i # n /\ j # n
    BY <1>4, <2>1 DEF Held, Limited, Placed, Distinct
  <2>2. CASE i = n \/ j = n
    BY <1>2, <1>4, <1>5, <1>8, <2>2
  <2> QED
    BY <2>1, <2>2
<1>10. Stored' = Held(Sliced(s))
  BY <1>7 DEF Stored, Held
<1>11. AtMostMaxSessions'
  BY <1>6, <1>9, <1>10, SliceBounds DEF AtMostMaxSessions
<1>12. \A i \in Stored' : i \in Held(s) /\ store'[i] = s[i]
  BY <1>7 DEF Stored, Held, Sliced
<1>13. Placed'
  BY <1>7, <1>8, <1>9, <1>12 DEF Placed, Distinct, Held, Stored
<1> QED
  BY <1>11, <1>13 DEF Limited

LEMMA LimitedNext == Limited /\ [Next]_vars => Limited'
<1> SUFFICES ASSUME Limited, [Next]_vars PROVE Limited'
  OBVIOUS
<1>1. Safe /\ Safe' /\ Typed'
  BY StepSafe DEF Limited, Safe
<1>2. CASE Pushes
  BY <1>1, <1>2, PushLimited DEF Pushes
<1>3. CASE Rotates
  <2>1. PICK r \in Requests : RefreshRotate(r)
    BY <1>3 DEF Rotates
  <2>2. pushed' = pushed
    BY <2>1 DEF RefreshRotate
  <2>3. \A i \in Stored' : i \in Stored /\ store'[i].place = store[i].place
    BY <1>1, <2>1, RotateSafe DEF Stored, Extends
  <2> QED
    BY <1>1, <2>2, <2>3, FewerLimited
<1>4. CASE Kept /\ ~Pushes
  <2>1. pushed' = pushed
    BY <1>4
       DEF Pushes, Next, vars, LoginRead, LoginPull, RefreshRead, RefreshRotate,
           LogoutValidate, LogoutRemove, ChangePasswordValidate, ChangePasswordUpdate,
           MailToken, resetPassword, requestEmailChange, ConfirmRead,
           confirmResetPassword, confirmEmailChange, Consume, ConsumeConflict, SessionExpires,
           TokenExpires, RequestDies
  <2> QED
    BY <1>1, <1>4, <2>1, FewerLimited DEF Kept
<1> QED
  BY <1>1, <1>2, <1>3, <1>4, StepSafe

\* The array never holds more sessions than the limit.
THEOREM SessionLimit == Spec => []AtMostMaxSessions
<1>1. Spec => []Limited
  BY LimitedInit, LimitedNext, PTL DEF Spec
<1>2. Limited => AtMostMaxSessions
  BY DEF Limited
<1> QED
  BY <1>1, <1>2, PTL

=============================================================================
