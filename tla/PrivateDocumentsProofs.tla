----------------------- MODULE PrivateDocumentsProofs -----------------------
(***************************************************************************)
(* Theorems about PrivateDocuments, for any number of students, listings,  *)
(* types, keys and requests in flight.                                     *)
(***************************************************************************)
EXTENDS PrivateDocuments, TLAPS

----------------------------------------------------------------------------
(* Types                                                                   *)

\* The fields a request reads at a call were set by the calls before it.
Shaped(q) ==
    /\ q.pc \in {"push", "found"} => q.student \in Students
    /\ q.pc = "push" => q.type \in Types
    /\ q.pc \in {"push", "holders", "review", "sign"} => q.key \in ObjectKeys
    /\ q.pc = "found" => q.listing \in Listings

Typed == TypeOK /\ \A r \in Requests : Shaped(req[r])

LEMMA IdleTyped == Idle \in Request /\ Shaped(Idle)
  BY DEF Idle, Request, Pcs, Shaped

\* What the life of the applications does to them.
LEMMA GroupsTyped ==
    ASSUME group \in [Applications!Keys -> Group \cup {None}],
           \/ \E g \in Applications!Keys :
                 \/ Applications!Found(g) \/ Applications!Send(g) \/ Applications!Disband(g)
                 \/ \E s \in Students : Applications!Admit(g, s) \/ Applications!Withdraw(g, s)
                 \/ \E v \in Applications!Decisions : Applications!Decide(g, v)
           \/ UNCHANGED group
    PROVE  group' \in [Applications!Keys -> Group \cup {None}]
<1>1. ASSUME NEW g \in Applications!Keys, Applications!Found(g)
      PROVE  group' \in [Applications!Keys -> Group \cup {None}]
  BY <1>1 DEF Applications!Found, Applications!Keys, Group, Applications!Stages
<1>2. ASSUME NEW g \in Applications!Keys, group[g] \in Group, NEW new \in Group \cup {None},
             group' = [group EXCEPT ![g] = new]
      PROVE  group' \in [Applications!Keys -> Group \cup {None}]
  BY <1>2
<1>3. ASSUME NEW g \in Applications!Keys, Applications!Send(g)
      PROVE  group' \in [Applications!Keys -> Group \cup {None}]
  BY <1>2, <1>3 DEF Applications!Send, Group, Applications!Stages
<1>4. ASSUME NEW g \in Applications!Keys, Applications!Disband(g)
      PROVE  group' \in [Applications!Keys -> Group \cup {None}]
  BY <1>2, <1>4 DEF Applications!Disband
<1>5. ASSUME NEW g \in Applications!Keys, NEW s \in Students,
             Applications!Admit(g, s) \/ Applications!Withdraw(g, s)
      PROVE  group' \in [Applications!Keys -> Group \cup {None}]
  BY <1>2, <1>5 DEF Applications!Admit, Applications!Withdraw, Group
<1>6. ASSUME NEW g \in Applications!Keys, NEW v \in Applications!Decisions,
             Applications!Decide(g, v)
      PROVE  group' \in [Applications!Keys -> Group \cup {None}]
  BY <1>2, <1>6 DEF Applications!Decide, Group, Applications!Stages, Applications!Decisions
<1> QED
  BY <1>1, <1>3, <1>4, <1>5, <1>6

LEMMA TypedInit == Init => Typed
<1> SUFFICES ASSUME Init PROVE Typed
  OBVIOUS
<1>1. documents \in [Students -> [Documents -> Nat]]
  <2>1. Nothing \in [Documents -> Nat] /\ \A d \in Documents : [Nothing EXCEPT ![d] = 1] \in [Documents -> Nat]
    BY DEF Nothing
  <2> QED
    BY <2>1 DEF Init
<1> QED
  BY <1>1, IdleTyped DEF Init, Typed, TypeOK, Applications!Init

\* One request goes from one call to another.
LEMMA TypedStep ==
    ASSUME Typed, NEW r \in Requests, NEW q \in Request, Shaped(q),
           req' = [req EXCEPT ![r] = q]
    PROVE  req' \in [Requests -> Request] /\ \A p \in Requests : Shaped(req'[p])
<1>1. req \in [Requests -> Request]
  BY DEF Typed, TypeOK
<1>2. \A p \in Requests : req'[p] = q \/ req'[p] = req[p]
  BY <1>1
<1> QED
  BY <1>1, <1>2 DEF Typed

LEMMA TypedNext == Typed /\ [Next]_vars => Typed'
<1> SUFFICES ASSUME Typed, [Next]_vars PROVE Typed'
  OBVIOUS
<1>0. /\ TypeOK /\ req \in [Requests -> Request]
      /\ documents \in [Students -> [Documents -> Nat]]
  BY DEF Typed, TypeOK
<1>1. ASSUME NEW r \in Requests, NEW s \in Students, NEW t \in Types, NEW k \in ObjectKeys,
             AddDocumentPull(r, s, t, k)
      PROVE  Typed'
  <2> DEFINE q == [Idle EXCEPT !.pc = "push", !.student = s, !.type = t, !.key = k]
  <2>1. q \in Request /\ Shaped(q)
    BY DEF Idle, Request, Pcs, Shaped
  <2>2. req' = [req EXCEPT ![r] = q]
    BY <1>1 DEF AddDocumentPull, Begin
  <2> HIDE DEF q
  <2>3. WithoutType(s, t, k) \in [Documents -> Nat]
    BY <1>0 DEF WithoutType
  <2>4. documents' \in [Students -> [Documents -> Nat]]
    BY <1>0, <1>1, <2>3 DEF AddDocumentPull
  <2>5. raced' \subseteq Students \X Types
    BY <1>0, <1>1 DEF AddDocumentPull, TypeOK
  <2> QED
    BY <1>0, <1>1, <2>1, <2>2, <2>4, <2>5, TypedStep DEF AddDocumentPull, Typed, TypeOK, Shaped
<1>2. ASSUME NEW r \in Requests, AddDocumentPush(r) PROVE Typed'
  <2> DEFINE s == req[r].student
             d == [type |-> req[r].type, key |-> req[r].key]
  <2>1. s \in Students /\ d \in Documents
    BY <1>2 DEF AddDocumentPush, Typed, Shaped, Documents
  <2>2. documents' = [documents EXCEPT ![s] = [documents[s] EXCEPT ![d] = documents[s][d] + 1]]
    BY <1>2 DEF AddDocumentPush
  <2> HIDE DEF s, d
  <2>3. documents' \in [Students -> [Documents -> Nat]]
    <3>1. documents[s] \in [Documents -> Nat]
      BY <1>0, <2>1
    <3>2. [documents[s] EXCEPT ![d] = documents[s][d] + 1] \in [Documents -> Nat]
      BY <2>1, <3>1
    <3> QED
      BY <1>0, <2>1, <2>2, <3>2
  <2>4. req' = [req EXCEPT ![r] = Idle]
    BY <1>2 DEF AddDocumentPush, End
  <2> QED
    BY <1>0, <1>2, <2>3, <2>4, TypedStep, IdleTyped DEF AddDocumentPush, Typed, TypeOK, Shaped
<1>3. ASSUME NEW r \in Requests, NEW l \in Listings, NEW s \in Students, CreateRead(r, l, s)
      PROVE  Typed'
  <2> DEFINE q == [Idle EXCEPT !.pc = "found", !.student = s, !.listing = l]
  <2>1. q \in Request /\ Shaped(q)
    BY DEF Idle, Request, Pcs, Shaped
  <2>2. req' = [req EXCEPT ![r] = q]
    BY <1>3 DEF CreateRead, Begin
  <2> HIDE DEF q
  <2> QED
    BY <1>0, <1>3, <2>1, <2>2, TypedStep DEF CreateRead, Typed, TypeOK, Shaped
<1>4. ASSUME NEW r \in Requests, NEW k \in ObjectKeys, AccessTitle(r, k) PROVE Typed'
  <2> DEFINE q == [Idle EXCEPT !.key = k,
                   !.pc = IF \E l \in Listings : titleKey[l] = k THEN "sign" ELSE "holders"]
  <2>1. q \in Request /\ Shaped(q)
    BY DEF Idle, Request, Pcs, Shaped
  <2>2. req' = [req EXCEPT ![r] = q]
    BY <1>4 DEF AccessTitle, Begin
  <2> HIDE DEF q
  <2> QED
    BY <1>0, <1>4, <2>1, <2>2, TypedStep DEF AccessTitle, Typed, TypeOK, Shaped
<1>5. ASSUME NEW r \in Requests, AccessHolders(r) PROVE Typed'
  <2> DEFINE q == IF Holders(req[r].key) = {} THEN Idle
                  ELSE [req[r] EXCEPT !.pc = "review", !.owners = Holders(req[r].key)]
  <2>1. q \in Request /\ Shaped(q)
    BY <1>0, <1>5, IdleTyped DEF AccessHolders, Typed, Shaped, Request, Pcs, Holders
  <2>2. req' = [req EXCEPT ![r] = q]
    BY <1>5 DEF AccessHolders
  <2> HIDE DEF q
  <2> QED
    BY <1>0, <1>5, <2>1, <2>2, TypedStep DEF AccessHolders, Typed, TypeOK, Shaped
<1>6. ASSUME NEW r \in Requests, AccessReview(r) PROVE Typed'
  <2> DEFINE q == IF canReview(req[r].owners)
                  THEN [Idle EXCEPT !.pc = "sign", !.key = req[r].key] ELSE Idle
  <2>1. q \in Request /\ Shaped(q)
    BY <1>6, IdleTyped DEF AccessReview, Typed, Shaped, Request, Pcs, Idle
  <2>2. req' = [req EXCEPT ![r] = q]
    BY <1>6 DEF AccessReview
  <2> HIDE DEF q
  <2> QED
    BY <1>0, <1>6, <2>1, <2>2, TypedStep DEF AccessReview, Typed, TypeOK, Shaped
<1>7. ASSUME NEW r \in Requests, CreateFound(r) \/ AccessSign(r) \/ RequestDies(r) PROVE Typed'
  <2>1. req' = [req EXCEPT ![r] = Idle]
    BY <1>7 DEF CreateFound, AccessSign, RequestDies, End
  <2>4. group' \in [Applications!Keys -> Group \cup {None}]
    <3>1. CASE CreateFound(r)
      <4>1. <<req[r].listing, req[r].student>> \in Applications!Keys
        BY <3>1 DEF CreateFound, Typed, Shaped, Applications!Keys
      <4> QED
        BY <1>0, <3>1, <4>1, GroupsTyped DEF CreateFound, TypeOK
    <3> QED
      BY <1>0, <1>7, <3>1 DEF AccessSign, RequestDies, TypeOK
  <2>2. UNCHANGED <<documents, titleKey, claimed, raced>>
    BY <1>7 DEF CreateFound, AccessSign, RequestDies
  <2>3. lost' \subseteq Students \X Types
    BY <1>0, <1>7 DEF CreateFound, AccessSign, RequestDies, Typed, TypeOK, Shaped
  <2> QED
    BY <1>0, <2>1, <2>2, <2>3, <2>4, TypedStep, IdleTyped DEF Typed, TypeOK, Shaped
<1>8. ASSUME NEW l \in Listings, SetTitle(l) PROVE Typed'
  BY <1>0, <1>8 DEF SetTitle, Typed, TypeOK, Shaped
<1>9. ASSUME NEW g \in Applications!Keys, ApplicationChanges(g) PROVE Typed'
  BY <1>0, <1>9, GroupsTyped DEF ApplicationChanges, Typed, TypeOK, Shaped
<1>10. CASE UNCHANGED vars
  BY <1>10 DEF vars, Typed, TypeOK, Shaped
<1> QED
  BY <1>1, <1>2, <1>3, <1>4, <1>5, <1>6, <1>7, <1>8, <1>9, <1>10 DEF Next

\* The documents never leave their schemas.
THEOREM TypeCorrect == Spec => []TypeOK
<1>1. Spec => []Typed
  BY TypedInit, TypedNext, PTL DEF Spec
<1>2. Typed => TypeOK
  BY DEF Typed
<1> QED
  BY <1>1, <1>2, PTL

----------------------------------------------------------------------------
(* What a step does to the documents of one student and type               *)

Pushes(p, s, t) == req[p].pc = "push" /\ req[p].student = s /\ req[p].type = t

\* A step that is none of an upload: the uploads in flight stay as they are.
Aside ==
    /\ UNCHANGED <<documents, raced, lost, claimed>>
    /\ \A p \in Requests : /\ req'[p].pc = "push" <=> req[p].pc = "push"
                           /\ req[p].pc = "push" => req'[p] = req[p]

Uploads ==
    \E r \in Requests :
        \/ \E s \in Students, t \in Types, k \in ObjectKeys : AddDocumentPull(r, s, t, k)
        \/ AddDocumentPush(r)
        \/ RequestDies(r) /\ req[r].pc = "push"

LEMMA AsideStep ==
    ASSUME Typed, [Next]_vars
    PROVE  Uploads \/ Aside
<1>0. req \in [Requests -> Request]
  BY DEF Typed, TypeOK
<1>1. ASSUME NEW r \in Requests,
             \/ \E l \in Listings, s \in Students : CreateRead(r, l, s)
             \/ \E k \in ObjectKeys : AccessTitle(r, k)
             \/ CreateFound(r) \/ AccessHolders(r) \/ AccessReview(r) \/ AccessSign(r)
             \/ RequestDies(r) /\ req[r].pc # "push"
      PROVE  Aside
  <2>1. UNCHANGED <<documents, raced, lost, claimed>>
    BY <1>1 DEF CreateRead, AccessTitle, CreateFound, AccessHolders, AccessReview, AccessSign,
                RequestDies
  <2>2. req[r].pc # "push" /\ \A p \in Requests \ {r} : req'[p] = req[p]
    <3>1. req[r].pc # "push"
      BY <1>1 DEF CreateRead, AccessTitle, CreateFound, AccessHolders, AccessReview, AccessSign,
                  RequestDies, Begin
    <3>2. \E q : req' = [req EXCEPT ![r] = q]
      BY <1>1 DEF CreateRead, AccessTitle, CreateFound, AccessHolders, AccessReview, AccessSign,
                  RequestDies, Begin, End
    <3> QED
      BY <1>0, <3>1, <3>2
  <2>3. req'[r].pc # "push"
    <3>1. CASE \E l \in Listings, s \in Students : CreateRead(r, l, s)
      BY <1>0, <3>1 DEF CreateRead, Begin, Idle
    <3>2. CASE \E k \in ObjectKeys : AccessTitle(r, k)
      BY <1>0, <3>2 DEF AccessTitle, Begin, Idle
    <3>3. CASE AccessHolders(r)
      BY <1>0, <3>3 DEF AccessHolders, Idle, Request
    <3>4. CASE AccessReview(r)
      BY <1>0, <3>4 DEF AccessReview, Idle
    <3>5. CASE CreateFound(r) \/ AccessSign(r) \/ RequestDies(r)
      BY <1>0, <3>5 DEF CreateFound, AccessSign, RequestDies, End, Idle
    <3> QED
      BY <1>1, <3>1, <3>2, <3>3, <3>4, <3>5
  <2> QED
    BY <2>1, <2>2, <2>3 DEF Aside
<1>2. ASSUME \/ \E g \in Applications!Keys : ApplicationChanges(g)
             \/ \E l \in Listings : SetTitle(l)
             \/ UNCHANGED vars
      PROVE  Aside
  BY <1>2 DEF ApplicationChanges, SetTitle, vars, Aside
<1> QED
  BY <1>1, <1>2 DEF Next, Uploads

LEMMA PullStep ==
    ASSUME Typed, NEW r \in Requests, NEW s \in Students, NEW t \in Types,
           NEW k \in ObjectKeys, AddDocumentPull(r, s, t, k)
    PROVE  /\ ~HasType(s, t)'
           /\ \A u \in Students, d \in Documents :
                 u # s \/ d.type # t => documents'[u][d] = documents[u][d]
           /\ \A d \in Documents : documents'[s][d] \in {0, documents[s][d]}
           /\ req[r].pc = "idle" /\ Pushes(r, s, t)' /\ req'[r].key = k
           /\ \A p \in Requests \ {r} : req'[p] = req[p]
           /\ UNCHANGED <<lost, claimed>>
<1>1. req \in [Requests -> Request] /\ documents \in [Students -> [Documents -> Nat]]
  BY DEF Typed, TypeOK
<1>2. /\ documents'[s] = WithoutType(s, t, k)
      /\ \A u \in Students \ {s} : documents'[u] = documents[u]
  BY <1>1 DEF AddDocumentPull
<1>3. \A d \in Documents : documents'[s][d] = IF d.type = t THEN 0 ELSE documents[s][d]
  BY <1>2 DEF WithoutType
<1>4. ~HasType(s, t)'
  BY <1>3 DEF HasType, Entries
<1>5. /\ req[r].pc = "idle" /\ UNCHANGED <<lost, claimed>>
      /\ req' = [req EXCEPT ![r] = [Idle EXCEPT !.pc = "push", !.student = s, !.type = t, !.key = k]]
  BY DEF AddDocumentPull, Begin
<1>6. /\ Pushes(r, s, t)' /\ req'[r].key = k
      /\ \A p \in Requests \ {r} : req'[p] = req[p]
  BY <1>1, <1>5 DEF Pushes, Idle
<1> QED
  BY <1>2, <1>3, <1>4, <1>5, <1>6

LEMMA PushStep ==
    ASSUME Typed, NEW r \in Requests, AddDocumentPush(r),
           NEW s, s = req[r].student, NEW t, t = req[r].type
    PROVE  /\ s \in Students /\ t \in Types /\ Pushes(r, s, t)
           /\ [type |-> t, key |-> req[r].key] \in Documents
           /\ documents'[s][[type |-> t, key |-> req[r].key]]
                 = documents[s][[type |-> t, key |-> req[r].key]] + 1
           /\ \A u \in Students, d \in Documents :
                 u # s \/ d # [type |-> t, key |-> req[r].key]
                     => documents'[u][d] = documents[u][d]
           /\ req'[r].pc = "idle"
           /\ \A p \in Requests \ {r} : req'[p] = req[p]
           /\ UNCHANGED <<raced, claimed>> /\ lost' = lost \ {<<s, t>>}
<1> DEFINE d == [type |-> t, key |-> req[r].key]
<1>1. req \in [Requests -> Request] /\ documents \in [Students -> [Documents -> Nat]]
  BY DEF Typed, TypeOK
<1>2. s \in Students /\ t \in Types /\ Pushes(r, s, t) /\ d \in Documents
  BY DEF AddDocumentPush, Typed, Shaped, Documents, Pushes
<1>3. documents' = [documents EXCEPT ![s] = [documents[s] EXCEPT ![d] = documents[s][d] + 1]]
  BY DEF AddDocumentPush
<1>4. /\ req' = [req EXCEPT ![r] = Idle]
      /\ UNCHANGED <<raced, claimed>> /\ lost' = lost \ {<<s, t>>}
  BY DEF AddDocumentPush, End
<1>5. req'[r].pc = "idle" /\ \A p \in Requests \ {r} : req'[p] = req[p]
  BY <1>1, <1>4 DEF Idle
<1>6. d = [type |-> t, key |-> req[r].key]
  OBVIOUS
<1> HIDE DEF d
<1>7. /\ documents'[s][d] = documents[s][d] + 1
      /\ \A u \in Students, e \in Documents :
            u # s \/ e # d => documents'[u][e] = documents[u][e]
  <2>1. documents'[s] = [documents[s] EXCEPT ![d] = documents[s][d] + 1]
    BY <1>1, <1>2, <1>3
  <2>2. \A u \in Students \ {s} : documents'[u] = documents[u]
    BY <1>1, <1>3
  <2>3. documents[s] \in [Documents -> Nat]
    BY <1>1, <1>2
  <2> QED
    BY <1>2, <2>1, <2>2, <2>3
<1> QED
  BY <1>2, <1>4, <1>5, <1>6, <1>7

LEMMA DieStep ==
    ASSUME Typed, NEW r \in Requests, RequestDies(r), req[r].pc = "push"
    PROVE  /\ UNCHANGED <<documents, raced, claimed>>
           /\ lost' = lost \cup {<<req[r].student, req[r].type>>}
           /\ req'[r].pc = "idle"
           /\ \A p \in Requests \ {r} : req'[p] = req[p]
  BY DEF RequestDies, End, Idle, Typed, TypeOK

----------------------------------------------------------------------------
(* One document of each type                                               *)

\* While the uploads of a type do not overlap, one is in flight, and then no
\* document of the type is there.
Quiet ==
    \A s \in Students, t \in Types : <<s, t>> \notin raced =>
        /\ \A p, q \in Requests : Pushes(p, s, t) /\ Pushes(q, s, t) => p = q
        /\ (\E p \in Requests : Pushes(p, s, t)) => ~HasType(s, t)

Single == Quiet /\ OneOfEachType

LEMMA EntriesTyped ==
    ASSUME Typed, NEW s \in Students, NEW d \in Entries(s)
    PROVE  d \in Documents /\ d.type \in Types /\ d.key \in ObjectKeys
  BY DEF Entries, Documents

LEMMA SingleInit == Init => Single
<1> SUFFICES ASSUME Init PROVE Single
  OBVIOUS
<1>1. Quiet
  BY DEF Init, Quiet, Pushes, Idle
<1>2. ASSUME NEW s \in Students, NEW d \in Entries(s), NEW e \in Entries(s)
      PROVE  d = e /\ documents[s][d] = 1
  <2>1. \/ documents[s] = Nothing
        \/ \E f \in Documents : documents[s] = [Nothing EXCEPT ![f] = 1]
    BY DEF Init
  <2>2. documents[s] # Nothing
    BY <1>2 DEF Nothing, Entries
  <2>3. PICK f \in Documents : documents[s] = [Nothing EXCEPT ![f] = 1]
    BY <2>1, <2>2
  <2>4. \A c \in Documents : documents[s][c] = IF c = f THEN 1 ELSE 0
    BY <2>3 DEF Nothing
  <2> QED
    BY <1>2, <2>4 DEF Entries
<1> QED
  BY <1>1, <1>2 DEF Single, OneOfEachType

\* What an upload of another student or type does not change.
LEMMA SingleElsewhere ==
    ASSUME Single, NEW s \in Students, NEW t \in Types,
           <<s, t>> \in raced' <=> <<s, t>> \in raced,
           \A d \in Documents : d.type = t => documents'[s][d] = documents[s][d],
           \A p \in Requests : Pushes(p, s, t)' => Pushes(p, s, t)
    PROVE  <<s, t>> \notin raced' =>
             /\ \A p, q \in Requests : Pushes(p, s, t)' /\ Pushes(q, s, t)' => p = q
             /\ (\E p \in Requests : Pushes(p, s, t)') => ~HasType(s, t)'
             /\ \A d, e \in Entries(s)' : d.type = t /\ e.type = t
                    => d = e /\ documents'[s][d] = 1
<1>1. \A d \in Documents : d.type = t => (d \in Entries(s)' <=> d \in Entries(s))
  BY DEF Entries
<1>2. HasType(s, t)' <=> HasType(s, t)
  <2>1. Entries(s) \subseteq Documents /\ Entries(s)' \subseteq Documents
    BY DEF Entries
  <2> QED
    BY <1>1, <2>1 DEF HasType
<1>3. \A d, e \in Entries(s)' : d.type = t /\ e.type = t =>
          /\ d \in Entries(s) /\ e \in Entries(s)
          /\ documents'[s][d] = documents[s][d]
  BY <1>1 DEF Entries
<1>4. Quiet /\ OneOfEachType
  BY DEF Single
<1>5. <<s, t>> \notin raced' => \A d, e \in Entries(s)' : d.type = t /\ e.type = t
                    => d = e /\ documents'[s][d] = 1
  <2> SUFFICES ASSUME <<s, t>> \notin raced', NEW d \in Entries(s)', NEW e \in Entries(s)',
                      d.type = t, e.type = t
               PROVE  d = e /\ documents'[s][d] = 1
    OBVIOUS
  <2>1. <<s, d.type>> \notin raced /\ d.type = e.type
    OBVIOUS
  <2> QED
    BY <1>3, <1>4, <2>1 DEF OneOfEachType
<1>6. <<s, t>> \notin raced' => \A p, q \in Requests : Pushes(p, s, t)' /\ Pushes(q, s, t)' => p = q
  BY <1>4 DEF Quiet
<1>7. <<s, t>> \notin raced' => ((\E p \in Requests : Pushes(p, s, t)') => ~HasType(s, t)')
  BY <1>2, <1>4 DEF Quiet
<1> QED
  BY <1>5, <1>6, <1>7

LEMMA SingleNext == Typed /\ Single /\ [Next]_vars => Single'
<1> SUFFICES ASSUME Typed, Single, [Next]_vars PROVE Single'
  OBVIOUS
<1> DEFINE Fine(s, t) ==
        <<s, t>> \notin raced' =>
             /\ \A p, q \in Requests : Pushes(p, s, t)' /\ Pushes(q, s, t)' => p = q
             /\ (\E p \in Requests : Pushes(p, s, t)') => ~HasType(s, t)'
             /\ \A d, e \in Entries(s)' : d.type = t /\ e.type = t
                    => d = e /\ documents'[s][d] = 1
<1>0. Quiet /\ OneOfEachType
  BY DEF Single
<1>1. ASSUME NEW s \in Students, NEW t \in Types PROVE Fine(s, t)
  <2>1. CASE Aside
    <3>1. \A p \in Requests : Pushes(p, s, t)' => Pushes(p, s, t)
      BY <2>1 DEF Aside, Pushes
    <3> QED
      BY <2>1, <3>1, SingleElsewhere DEF Aside
  <2>2. ASSUME NEW r \in Requests, NEW u \in Students, NEW v \in Types, NEW k \in ObjectKeys,
               AddDocumentPull(r, u, v, k)
        PROVE  Fine(s, t)
    <3>1. CASE u = s /\ v = t
      <4>1. ~HasType(s, t)'
        BY <2>2, <3>1, PullStep
      <4>2. <<s, t>> \notin raced' => \A p \in Requests : ~Pushes(p, s, t)
        BY <2>2, <3>1 DEF AddDocumentPull, Pushing, Pushes
      <4>3. \A p \in Requests \ {r} : Pushes(p, s, t)' => Pushes(p, s, t)
        BY <2>2, PullStep DEF Pushes
      <4>4. <<s, t>> \notin raced' =>
                \A p, q \in Requests : Pushes(p, s, t)' /\ Pushes(q, s, t)' => p = q
        BY <4>2, <4>3
      <4> QED
        BY <4>1, <4>4 DEF HasType
    <3>2. CASE ~(u = s /\ v = t)
      <4>1. <<s, t>> \in raced' <=> <<s, t>> \in raced
        BY <2>2, <3>2 DEF AddDocumentPull
      <4>2. \A d \in Documents : d.type = t => documents'[s][d] = documents[s][d]
        BY <2>2, <3>2, PullStep
      <4>3. \A p \in Requests : Pushes(p, s, t)' => Pushes(p, s, t)
        BY <2>2, <3>2, PullStep DEF Pushes
      <4> QED
        BY <4>1, <4>2, <4>3, SingleElsewhere
    <3> QED
      BY <3>1, <3>2
  <2>3. ASSUME NEW r \in Requests, AddDocumentPush(r) PROVE Fine(s, t)
    <3> DEFINE u == req[r].student
               v == req[r].type
               c == [type |-> v, key |-> req[r].key]
    <3>0. c.type = v
      OBVIOUS
    <3>1. /\ Pushes(r, u, v) /\ c \in Documents
          /\ documents'[u][c] = documents[u][c] + 1
          /\ \A x \in Students, d \in Documents :
                x # u \/ d # c => documents'[x][d] = documents[x][d]
          /\ req'[r].pc = "idle" /\ \A p \in Requests \ {r} : req'[p] = req[p]
          /\ raced' = raced
      BY <2>3, PushStep
    <3> HIDE DEF u, v, c
    <3>2. \A p \in Requests : Pushes(p, s, t)' => Pushes(p, s, t) /\ p # r
      BY <3>1 DEF Pushes
    <3>3. CASE u = s /\ v = t
      <4> SUFFICES ASSUME <<s, t>> \notin raced'
                   PROVE  /\ \A p \in Requests : ~Pushes(p, s, t)'
                          /\ \A d, e \in Entries(s)' : d.type = t /\ e.type = t
                                => d = e /\ documents'[s][d] = 1
        OBVIOUS
      <4>1. /\ ~HasType(s, t)
            /\ \A p \in Requests : Pushes(p, s, t) => p = r
        BY <1>0, <3>1, <3>3 DEF Quiet
      <4>2. \A d \in Documents : d.type = t => documents[s][d] = 0
        BY <4>1 DEF HasType, Entries, Typed, TypeOK
      <4>3. \A d \in Documents : d.type = t => documents'[s][d] = IF d = c THEN 1 ELSE 0
        BY <3>0, <3>1, <3>3, <4>2
      <4> QED
        BY <3>2, <4>1, <4>3 DEF Entries
    <3>4. CASE ~(u = s /\ v = t)
      BY <3>0, <3>1, <3>2, <3>4, SingleElsewhere
    <3> QED
      BY <3>3, <3>4
  <2>4. ASSUME NEW r \in Requests, RequestDies(r), req[r].pc = "push" PROVE Fine(s, t)
    <3>1. \A p \in Requests : Pushes(p, s, t)' => Pushes(p, s, t)
      BY <2>4, DieStep DEF Pushes
    <3> QED
      BY <2>4, <3>1, DieStep, SingleElsewhere
  <2> QED
    BY <2>1, <2>2, <2>3, <2>4, AsideStep DEF Uploads
<1>2. Quiet'
  BY <1>1 DEF Quiet
<1>3. OneOfEachType'
  <2> SUFFICES ASSUME NEW s \in Students, NEW d \in Entries(s)', NEW e \in Entries(s)',
                      d.type = e.type, <<s, d.type>> \notin raced'
               PROVE  d = e /\ documents'[s][d] = 1
    BY DEF OneOfEachType
  <2>1. d.type \in Types
    BY DEF Entries, Documents
  <2> QED
    BY <1>1, <2>1
<1> QED
  BY <1>2, <1>3 DEF Single

\* Uploads of one type that do not overlap leave one document of it.
THEOREM OneDocument == Spec => []OneOfEachType
<1>1. Spec => [](Typed /\ Single)
  BY TypedInit, TypedNext, SingleInit, SingleNext, PTL DEF Spec
<1>2. Typed /\ Single => OneOfEachType
  BY DEF Single
<1> QED
  BY <1>1, <1>2, PTL

----------------------------------------------------------------------------
(* The required documents stay                                             *)

\* A create that has looked at the documents relies on them from then on.
Founded ==
    \A r \in Requests, t \in Required : req[r].pc = "found" => Kept(req[r].student, t)

Staying == Founded /\ RequiredStay

LEMMA StayingInit == Init => Staying
  BY DEF Init, Staying, Founded, RequiredStay, Applications!Init, Idle

LEMMA KeptStays ==
    ASSUME Typed, [Next]_vars, NEW s \in Students, NEW t \in Types, Kept(s, t)
    PROVE  Kept(s, t)'
<1>1. CASE Aside
  <2>1. HasType(s, t) => HasType(s, t)'
    BY <1>1 DEF Aside, HasType, Entries
  <2>2. Pushing(s, t) # {} => Pushing(s, t)' # {}
    BY <1>1 DEF Aside, Pushing
  <2> QED
    BY <1>1, <2>1, <2>2 DEF Aside, Kept
<1>2. ASSUME NEW r \in Requests, NEW u \in Students, NEW v \in Types, NEW k \in ObjectKeys,
             AddDocumentPull(r, u, v, k)
      PROVE  Kept(s, t)'
  <2>1. CASE u = s /\ v = t
    BY <1>2, <2>1, PullStep DEF Kept, Pushing, Pushes
  <2>2. CASE ~(u = s /\ v = t)
    <3>1. HasType(s, t) => HasType(s, t)'
      BY <1>2, <2>2, PullStep DEF HasType, Entries
    <3>2. Pushing(s, t) \subseteq Pushing(s, t)'
      BY <1>2, PullStep DEF Pushing
    <3> QED
      BY <1>2, <3>1, <3>2, PullStep DEF Kept
  <2> QED
    BY <2>1, <2>2
<1>3. ASSUME NEW r \in Requests, AddDocumentPush(r) PROVE Kept(s, t)'
  <2> DEFINE u == req[r].student
             v == req[r].type
             c == [type |-> v, key |-> req[r].key]
  <2>0. c.type = v
    OBVIOUS
  <2>1. /\ Pushes(r, u, v) /\ c \in Documents /\ u \in Students
        /\ documents'[u][c] = documents[u][c] + 1
        /\ \A x \in Students, d \in Documents :
              x # u \/ d # c => documents'[x][d] = documents[x][d]
        /\ \A p \in Requests \ {r} : req'[p] = req[p]
        /\ lost' = lost \ {<<u, v>>}
    BY <1>3, PushStep
  <2> HIDE DEF u, v, c
  <2>2. documents[u][c] \in Nat
    BY <2>1 DEF Typed, TypeOK
  <2>3. HasType(s, t) => HasType(s, t)'
    BY <2>1, <2>2 DEF HasType, Entries
  <2>4. CASE u = s /\ v = t
    BY <2>0, <2>1, <2>2, <2>4 DEF Kept, HasType, Entries
  <2>5. CASE ~(u = s /\ v = t)
    <3>1. Pushing(s, t) \subseteq Pushing(s, t)'
      BY <2>1, <2>5 DEF Pushing, Pushes
    <3> QED
      BY <2>1, <2>3, <2>5, <3>1 DEF Kept
  <2> QED
    BY <2>4, <2>5
<1>4. ASSUME NEW r \in Requests, RequestDies(r), req[r].pc = "push" PROVE Kept(s, t)'
  <2>1. HasType(s, t) => HasType(s, t)'
    BY <1>4, DieStep DEF HasType, Entries
  <2>2. CASE req[r].student = s /\ req[r].type = t
    BY <1>4, <2>2, DieStep DEF Kept
  <2>3. CASE ~(req[r].student = s /\ req[r].type = t)
    <3>1. Pushing(s, t) \subseteq Pushing(s, t)'
      BY <1>4, <2>3, DieStep DEF Pushing
    <3> QED
      BY <1>4, <2>1, <3>1, DieStep DEF Kept
  <2> QED
    BY <2>2, <2>3
<1> QED
  BY <1>1, <1>2, <1>3, <1>4, AsideStep DEF Uploads

\* A create has found the required documents, or its application is there.
LEMMA NewlyFounded ==
    ASSUME Typed, [Next]_vars
    PROVE  /\ \A r \in Requests : req'[r].pc = "found" =>
                 \/ req[r].pc = "found" /\ req'[r].student = req[r].student
                 \/ req'[r].student \in Students /\ assertRequiredDocuments(req'[r].student)
           /\ \A g \in Applications!Keys : group'[g] # None =>
                 \/ group[g] # None
                 \/ \E r \in Requests : req[r].pc = "found" /\ g[2] = req[r].student
<1>0. /\ req \in [Requests -> Request]
      /\ group \in [Applications!Keys -> Group \cup {None}]
  BY DEF Typed, TypeOK
<1> DEFINE Found == \A r \in Requests : req'[r].pc = "found" =>
                       \/ req[r].pc = "found" /\ req'[r].student = req[r].student
                       \/ req'[r].student \in Students /\ assertRequiredDocuments(req'[r].student)
           Grouped == \A g \in Applications!Keys : group'[g] # None =>
                       \/ group[g] # None
                       \/ \E r \in Requests : req[r].pc = "found" /\ g[2] = req[r].student
<1>1. ASSUME NEW r \in Requests, NEW q, req' = [req EXCEPT ![r] = q], q.pc # "found"
      PROVE  Found
  BY <1>0, <1>1
<1>2. ASSUME NEW r \in Requests, NEW l \in Listings, NEW s \in Students, CreateRead(r, l, s)
      PROVE  Found /\ Grouped
  <2> DEFINE q == [Idle EXCEPT !.pc = "found", !.student = s, !.listing = l]
  <2>1. q.student = s
    BY DEF Idle
  <2>2. req' = [req EXCEPT ![r] = q] /\ assertRequiredDocuments(s) /\ group' = group
    BY <1>2 DEF CreateRead, Begin
  <2> HIDE DEF q
  <2> QED
    BY <1>0, <2>1, <2>2
<1>3. ASSUME NEW r \in Requests, CreateFound(r) PROVE Found /\ Grouped
  <2>1. Found
    BY <1>1, <1>3 DEF CreateFound, End, Idle
  <2>2. Grouped
    <3> DEFINE k == <<req[r].listing, req[r].student>>
    <3>1. k[2] = req[r].student /\ req[r].pc = "found"
      BY <1>3 DEF CreateFound
    <3>2. group' = group \/ \E new : group' = [group EXCEPT ![k] = new]
      BY <1>3 DEF CreateFound, Applications!Found
    <3> HIDE DEF k
    <3> QED
      BY <1>0, <3>1, <3>2
  <2> QED
    BY <2>1, <2>2
<1>4. ASSUME NEW g \in Applications!Keys, ApplicationChanges(g) PROVE Found /\ Grouped
  <2>1. req' = req /\ group[g] # None /\ \E new : group' = [group EXCEPT ![g] = new]
    BY <1>4 DEF ApplicationChanges, Applications!Send, Applications!Disband,
                Applications!Admit, Applications!Withdraw, Applications!Decide
  <2> QED
    BY <1>0, <2>1
<1>5. ASSUME NEW r \in Requests,
             \/ \E s \in Students, t \in Types, k \in ObjectKeys : AddDocumentPull(r, s, t, k)
             \/ \E k \in ObjectKeys : AccessTitle(r, k)
             \/ AddDocumentPush(r) \/ AccessHolders(r) \/ AccessReview(r) \/ AccessSign(r)
             \/ RequestDies(r)
      PROVE  Found /\ Grouped
  <2>1. group' = group
    BY <1>5 DEF AddDocumentPull, AccessTitle, AddDocumentPush, AccessHolders, AccessReview,
                AccessSign, RequestDies
  <2>2. Found
    <3>1. CASE \E s \in Students, t \in Types, k \in ObjectKeys : AddDocumentPull(r, s, t, k)
      BY <1>1, <3>1 DEF AddDocumentPull, Begin, Idle
    <3>2. CASE \E k \in ObjectKeys : AccessTitle(r, k)
      <4>1. PICK k \in ObjectKeys : AccessTitle(r, k)
        BY <3>2
      <4> DEFINE q == [Idle EXCEPT !.key = k,
                       !.pc = IF \E l \in Listings : titleKey[l] = k THEN "sign" ELSE "holders"]
      <4>2. q.pc # "found"
        BY DEF Idle
      <4>3. req' = [req EXCEPT ![r] = q]
        BY <4>1 DEF AccessTitle, Begin
      <4> HIDE DEF q
      <4> QED
        BY <1>1, <4>2, <4>3
    <3>3. CASE AccessHolders(r)
      <4> DEFINE q == IF Holders(req[r].key) = {} THEN Idle
                      ELSE [req[r] EXCEPT !.pc = "review", !.owners = Holders(req[r].key)]
      <4>2. q.pc # "found"
        BY <1>0 DEF Idle, Request
      <4>3. req' = [req EXCEPT ![r] = q]
        BY <3>3 DEF AccessHolders
      <4> HIDE DEF q
      <4> QED
        BY <1>1, <4>2, <4>3
    <3>4. CASE AccessReview(r)
      BY <1>1, <3>4 DEF AccessReview, Idle
    <3>5. CASE AddDocumentPush(r) \/ AccessSign(r) \/ RequestDies(r)
      <4>1. Idle.pc # "found"
        BY DEF Idle
      <4>2. req' = [req EXCEPT ![r] = Idle]
        BY <3>5 DEF AddDocumentPush, AccessSign, RequestDies, End
      <4> QED
        BY <1>1, <4>1, <4>2
    <3> QED
      BY <1>5, <3>1, <3>2, <3>3, <3>4, <3>5
  <2> QED
    BY <2>1, <2>2
<1>6. ASSUME (\E l \in Listings : SetTitle(l)) \/ UNCHANGED vars PROVE Found /\ Grouped
  BY <1>6 DEF SetTitle, vars
<1> QED
  BY <1>2, <1>3, <1>4, <1>5, <1>6 DEF Next

LEMMA StayingNext == Typed /\ Staying /\ [Next]_vars => Staying'
<1> SUFFICES ASSUME Typed, Staying, [Next]_vars PROVE Staying'
  OBVIOUS
<1>1. /\ Founded /\ RequiredStay
      /\ \A s \in Students, t \in Types : Kept(s, t) => Kept(s, t)'
  BY KeptStays DEF Staying
<1>2. ASSUME NEW r \in Requests, NEW t \in Required, req'[r].pc = "found"
      PROVE  Kept(req[r].student, t)'
  <2>1. PICK s \in Students : s = req'[r].student /\ Kept(s, t)
    <3>1. CASE req[r].pc = "found" /\ req'[r].student = req[r].student
      BY <1>1, <3>1 DEF Founded, Typed, Shaped
    <3>2. CASE req'[r].student \in Students /\ assertRequiredDocuments(req'[r].student)
      BY <3>2 DEF assertRequiredDocuments, Kept
    <3> QED
      BY <1>2, <3>1, <3>2, NewlyFounded
  <2>2. Kept(s, t)'
    BY <1>1, <2>1, RequiredAssumption
  <2> QED
    BY <2>1, <2>2 DEF Kept, HasType, Entries, Pushing
<1>3. ASSUME NEW g \in Applications!Keys, NEW t \in Required, group'[g] # None
      PROVE  Kept(g[2], t)'
  <2>1. Kept(g[2], t)
    BY <1>1, <1>3, NewlyFounded DEF RequiredStay, Founded
  <2> QED
    BY <1>1, <2>1, RequiredAssumption DEF Applications!Keys
<1>4. Founded'
  BY <1>2 DEF Founded
<1>5. RequiredStay'
  BY <1>3 DEF RequiredStay
<1> QED
  BY <1>4, <1>5 DEF Staying

\* The documents an application was founded on are there for its landlord.
THEOREM RequiredDocuments == Spec => []RequiredStay
<1>1. Spec => [](Typed /\ Staying)
  BY TypedInit, TypedNext, StayingInit, StayingNext, PTL DEF Spec
<1>2. Typed /\ Staying => RequiredStay
  BY DEF Staying
<1> QED
  BY <1>1, <1>2, PTL

----------------------------------------------------------------------------
(* A download is earned                                                    *)

Rightful(s, k) == isKeyOwnedBy(k, s) \/ (ownerIdFromKey[k] = None /\ <<s, k>> \in claimed)

\* What a student names is theirs, or named before keys were checked.
Named == \A s \in Students : \A d \in Entries(s) : isKeyOwnedBy(d.key, s) \/ <<s, d.key>> \in claimed

Uploading == \A r \in Requests : req[r].pc = "push" => isKeyOwnedBy(req[r].key, req[r].student)

\* The owners a download has found are rightful ones.
Reviewing ==
    \A r \in Requests : req[r].pc = "review" => \A s \in req[r].owners : Rightful(s, req[r].key)

Earning == Named /\ Uploading /\ Reviewing

LEMMA EarningInit == Init => Earning
<1> SUFFICES ASSUME Init PROVE Earning
  OBVIOUS
<1>1. \A s \in Students : \A d \in Entries(s) : <<s, d.key>> \in claimed
  <2> SUFFICES ASSUME NEW s \in Students, NEW d \in Entries(s) PROVE <<s, d.key>> \in claimed
    OBVIOUS
  <2>1. d \in Documents /\ d.key \in ObjectKeys
    BY DEF Entries, Documents
  <2> DEFINE c == <<s, d.key>>
  <2>2. c \in Students \X ObjectKeys /\ c[1] = s /\ c[2] = d.key
    BY <2>1
  <2>3. claimed = {x \in Students \X ObjectKeys : \E e \in Entries(x[1]) : e.key = x[2]}
    BY DEF Init
  <2> QED
    BY <2>2, <2>3
<1> QED
  BY <1>1 DEF Init, Earning, Named, Uploading, Reviewing, Idle

LEMMA NamedNext == Typed /\ Earning /\ [Next]_vars => (Named /\ Uploading)'
<1> SUFFICES ASSUME Typed, Earning, [Next]_vars PROVE (Named /\ Uploading)'
  OBVIOUS
<1>0. Named /\ Uploading
  BY DEF Earning
<1>1. CASE Aside
  BY <1>0, <1>1 DEF Aside, Named, Uploading, Entries
<1>2. ASSUME NEW r \in Requests, NEW s \in Students, NEW t \in Types, NEW k \in ObjectKeys,
             AddDocumentPull(r, s, t, k)
      PROVE  (Named /\ Uploading)'
  <2>1. isKeyOwnedBy(k, s)
    BY <1>2 DEF AddDocumentPull
  <2>2. \A u \in Students, d \in Documents : documents'[u][d] \in {0, documents[u][d]}
    BY <1>2, PullStep
  <2>3. \A u \in Students : Entries(u)' \subseteq Entries(u)
    BY <2>2 DEF Entries
  <2>4. Named'
    BY <1>0, <1>2, <2>3, PullStep DEF Named
  <2>5. Uploading'
    BY <1>0, <1>2, <2>1, PullStep DEF Uploading, Pushes
  <2> QED
    BY <2>4, <2>5
<1>3. ASSUME NEW r \in Requests, AddDocumentPush(r) PROVE (Named /\ Uploading)'
  <2> DEFINE u == req[r].student
             c == [type |-> req[r].type, key |-> req[r].key]
  <2>1. /\ Pushes(r, u, req[r].type) /\ c \in Documents
        /\ \A x \in Students, d \in Documents :
              x # u \/ d # c => documents'[x][d] = documents[x][d]
        /\ req'[r].pc = "idle" /\ \A p \in Requests \ {r} : req'[p] = req[p]
        /\ claimed' = claimed
    BY <1>3, PushStep
  <2>2. isKeyOwnedBy(c.key, u)
    BY <1>0, <2>1 DEF Uploading, Pushes
  <2> HIDE DEF u, c
  <2>3. \A x \in Students : \A d \in Entries(x)' : d \in Entries(x) \/ (x = u /\ d = c)
    BY <2>1 DEF Entries
  <2>4. Named'
    BY <1>0, <2>1, <2>2, <2>3 DEF Named
  <2>5. Uploading'
    BY <1>0, <2>1 DEF Uploading
  <2> QED
    BY <2>4, <2>5
<1>4. ASSUME NEW r \in Requests, RequestDies(r), req[r].pc = "push" PROVE (Named /\ Uploading)'
  BY <1>0, <1>4, DieStep DEF Named, Uploading, Entries
<1> QED
  BY <1>1, <1>2, <1>3, <1>4, AsideStep DEF Uploads

\* A holder of a key, its owner or one whose claim predates owners, is
\* rightful; so is what a step puts into the owners of a download.
LEMMA HoldersRightful ==
    ASSUME Earning, NEW k \in ObjectKeys, NEW s \in Holders(k)
    PROVE  Rightful(s, k)
<1>1. s \in Students /\ ownerIdFromKey[k] \in {s, None}
  BY DEF Holders
<1>2. PICK d \in Entries(s) : d.key = k
  BY DEF Holders
<1> QED
  BY <1>1, <1>2, AbsenceAssumption DEF Earning, Named, isKeyOwnedBy, Rightful

LEMMA ReviewStep ==
    ASSUME Typed, Earning, [Next]_vars, NEW r \in Requests
    PROVE  /\ req'[r].pc = "review" =>
                 \/ req'[r] = req[r]
                 \/ req'[r].key \in ObjectKeys /\ req'[r].owners = Holders(req'[r].key)
           /\ req[r].pc # "sign" /\ req'[r].pc = "sign" =>
                 \/ req[r].pc = "idle" /\ \E l \in Listings : titleKey[l] = req'[r].key
                 \/ /\ req[r].pc = "review" /\ req'[r].key = req[r].key
                    /\ canReview(req[r].owners)
           /\ claimed' = claimed
<1> DEFINE Step == /\ req'[r].pc = "review" =>
                         \/ req'[r] = req[r]
                         \/ /\ req'[r].key \in ObjectKeys
                            /\ req'[r].owners = Holders(req'[r].key)
                   /\ req[r].pc # "sign" /\ req'[r].pc = "sign" =>
                         \/ /\ req[r].pc = "idle"
                            /\ \E l \in Listings : titleKey[l] = req'[r].key
                         \/ /\ req[r].pc = "review" /\ req'[r].key = req[r].key
                            /\ canReview(req[r].owners)
<1>0. req \in [Requests -> Request]
  BY DEF Typed, TypeOK
<1>1. claimed' = claimed
  BY DEF Next, vars, AddDocumentPull, CreateRead, AccessTitle, AddDocumentPush, CreateFound,
         AccessHolders, AccessReview, AccessSign, RequestDies, ApplicationChanges, SetTitle
<1>2. ASSUME NEW p \in Requests, NEW q, req' = [req EXCEPT ![p] = q],
             q.pc \notin {"review", "sign"}
      PROVE  Step
  BY <1>0, <1>2
<1>3. ASSUME NEW p \in Requests, NEW s \in Students, NEW t \in Types, NEW k \in ObjectKeys,
             AddDocumentPull(p, s, t, k)
      PROVE  Step
  BY <1>2, <1>3 DEF AddDocumentPull, Begin, Idle
<1>4. ASSUME NEW p \in Requests, NEW l \in Listings, NEW s \in Students, CreateRead(p, l, s)
      PROVE  Step
  BY <1>2, <1>4 DEF CreateRead, Begin, Idle
<1>5. ASSUME NEW p \in Requests,
             AddDocumentPush(p) \/ CreateFound(p) \/ AccessSign(p) \/ RequestDies(p)
      PROVE  Step
  <2>1. Idle.pc \notin {"review", "sign"}
    BY DEF Idle
  <2>2. req' = [req EXCEPT ![p] = Idle]
    BY <1>5 DEF AddDocumentPush, CreateFound, AccessSign, RequestDies, End
  <2> QED
    BY <1>2, <2>1, <2>2
<1>6. ASSUME NEW p \in Requests, NEW k \in ObjectKeys, AccessTitle(p, k) PROVE Step
  <2> DEFINE q == [Idle EXCEPT !.key = k,
                   !.pc = IF \E l \in Listings : titleKey[l] = k THEN "sign" ELSE "holders"]
  <2>1. q.pc # "review" /\ q.key = k /\ (q.pc = "sign" => \E l \in Listings : titleKey[l] = k)
    BY DEF Idle
  <2>2. req[p].pc = "idle" /\ req' = [req EXCEPT ![p] = q]
    BY <1>6 DEF AccessTitle, Begin
  <2> HIDE DEF q
  <2> QED
    BY <1>0, <2>1, <2>2
<1>7. ASSUME NEW p \in Requests, AccessHolders(p) PROVE Step
  <2> DEFINE q == IF Holders(req[p].key) = {} THEN Idle
                  ELSE [req[p] EXCEPT !.pc = "review", !.owners = Holders(req[p].key)]
  <2>1. req[p] \in Request /\ req[p].key \in ObjectKeys
    BY <1>0, <1>7 DEF AccessHolders, Typed, Shaped
  <2>2. /\ q.pc # "sign"
        /\ q.pc = "review" => q.key = req[p].key /\ q.owners = Holders(req[p].key)
    BY <2>1 DEF Idle, Request
  <2>3. req' = [req EXCEPT ![p] = q]
    BY <1>7 DEF AccessHolders
  <2> HIDE DEF q
  <2> QED
    BY <1>0, <2>1, <2>2, <2>3
<1>8. ASSUME NEW p \in Requests, AccessReview(p) PROVE Step
  <2> DEFINE q == IF canReview(req[p].owners)
                  THEN [Idle EXCEPT !.pc = "sign", !.key = req[p].key] ELSE Idle
  <2>1. /\ q.pc # "review"
        /\ q.pc = "sign" => q.key = req[p].key /\ canReview(req[p].owners)
    BY DEF Idle
  <2>2. req' = [req EXCEPT ![p] = q] /\ req[p].pc = "review"
    BY <1>8 DEF AccessReview
  <2> HIDE DEF q
  <2> QED
    BY <1>0, <2>1, <2>2
<1>9. ASSUME \/ \E g \in Applications!Keys : ApplicationChanges(g)
             \/ \E l \in Listings : SetTitle(l)
             \/ UNCHANGED vars
      PROVE  Step
  BY <1>9 DEF ApplicationChanges, SetTitle, vars
<1>10. Step
  BY <1>3, <1>4, <1>5, <1>6, <1>7, <1>8, <1>9 DEF Next
<1> QED
  BY <1>1, <1>10

LEMMA EarningNext == Typed /\ Earning /\ [Next]_vars => Earning'
<1> SUFFICES ASSUME Typed, Earning, [Next]_vars PROVE Earning'
  OBVIOUS
<1>1. claimed' = claimed
  BY DEF Next, vars, AddDocumentPull, CreateRead, AccessTitle, AddDocumentPush,
         CreateFound, AccessHolders, AccessReview, AccessSign, RequestDies, ApplicationChanges,
         SetTitle
<1>2. ASSUME NEW r \in Requests, req'[r].pc = "review", NEW s \in req'[r].owners
      PROVE  \/ isKeyOwnedBy(req'[r].key, s)
             \/ ownerIdFromKey[req'[r].key] = None /\ <<s, req'[r].key>> \in claimed
  BY <1>2, ReviewStep, HoldersRightful DEF Earning, Reviewing, Rightful
<1>3. Reviewing'
  BY <1>1, <1>2 DEF Reviewing, Rightful, isKeyOwnedBy
<1> QED
  BY <1>3, NamedNext DEF Earning

\* What a review lets the landlord download is a document of a student whose
\* application they were sent: a claim on somebody else's key gives nothing.
THEOREM DownloadsEarned == Spec => GrantEarned
<1>1. ASSUME Typed, Earning, [Next]_vars
      PROVE  \A r \in Requests :
                req[r].pc = "review" /\ req'[r].pc = "sign" => Earned(req'[r].key)
  <2> SUFFICES ASSUME NEW r \in Requests, req[r].pc = "review", req'[r].pc = "sign"
               PROVE  Earned(req'[r].key)
    OBVIOUS
  <2>1. req'[r].key = req[r].key /\ canReview(req[r].owners)
    BY <1>1, ReviewStep
  <2>2. Earned(req[r].key)
    <3>1. PICK g \in Applications!Keys : /\ group[g] # None /\ group[g].stage \in Reviewed
                                         /\ group[g].members \cap req[r].owners # {}
      BY <2>1 DEF canReview
    <3>2. PICK s \in group[g].members : s \in req[r].owners
      BY <3>1
    <3>3. Rightful(s, req[r].key)
      <4>1. Reviewing
        BY <1>1 DEF Earning
      <4> QED
        BY <3>2, <4>1 DEF Reviewing
    <3> QED
      BY <3>1, <3>2, <3>3 DEF Earned, Rightful
  <2> QED
    BY <2>1, <2>2
<1>2. Spec => [](Typed /\ Earning)
  BY TypedInit, TypedNext, EarningInit, EarningNext, PTL DEF Spec
<1> QED
  BY <1>1, <1>2, PTL DEF Spec, GrantEarned

=============================================================================
