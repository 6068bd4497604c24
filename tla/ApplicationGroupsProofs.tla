---------------------- MODULE ApplicationGroupsProofs ----------------------
(***************************************************************************)
(* Theorems about ApplicationGroups, for any number of students, listings, *)
(* documents and requests in flight.                                       *)
(***************************************************************************)
EXTENDS ApplicationGroups, TLAPS

----------------------------------------------------------------------------
(* The shape of a request, by the call it is about to make                 *)

Founding == {"createFind", "createConversation", "createApplication",
             "createDropLoser", "createLookup", "createDiscard"}
OfStudents == Founding \cup Joining \cup Leaving
                  \cup {"sendStage", "sendConversation", "deleteApplication"}
WithConversation == Founding \cup {"joinApplicants", "joinConversation",
                        "leaveApplicants", "leaveConversation", "sendConversation"}
WithListing == Founding \cup {"sendConversation", "decideListing", "decideStage"}

Shaped(q) ==
    /\ q \in Request
    /\ q.pc = "idle" => q = Idle
    /\ q.pc # "idle" => q.app \in AppIds /\ q.user \in Users
    /\ q.pc \in OfStudents => q.user \in Students
    /\ q.pc \in WithConversation => q.conv \in ConvIds
    /\ q.pc \in WithListing => q.listing \in Listings
    /\ q.pc \in {"decideListing", "decideStage"} => q.verdict \in Decisions

\* The fields a handler reads at a call were set by the calls before it.
Typed == TypeOK /\ \A r \in Requests : Shaped(req[r])

LEMMA ShapedIdle == Shaped(Idle)
  BY DEF Shaped, Idle, Request, Pcs, OfStudents, WithConversation, WithListing,
         Founding, Joining, Leaving

LEMMA ExistingIsApplication ==
    ASSUME TypeOK, NEW a \in AppIds, Exists(a)
    PROVE  apps[a] \in Application
  BY DEF TypeOK, Exists

LEMMA OpenIsUsers ==
    ASSUME TypeOK, NEW c \in ConvIds, Open(c)
    PROVE  convs[c] \in SUBSET Users
  BY DEF TypeOK, Open

\* One request takes a step; the documents keep their types.
LEMMA TypedStep ==
    ASSUME Typed, NEW r \in Requests, NEW q, Shaped(q),
           req' = [req EXCEPT ![r] = q],
           listed' \subseteq Listings,
           apps' \in [AppIds -> Application \cup {Unborn, Gone}],
           convs' \in [ConvIds -> (SUBSET Users) \cup {Unborn, Gone}],
           retired' \subseteq ConvIds, crossed' \subseteq Students,
           broken' \subseteq Students
    PROVE  Typed'
<1>1. req \in [Requests -> Request] /\ q \in Request
  BY DEF Typed, TypeOK, Shaped
<1>2. req' \in [Requests -> Request]
  BY <1>1
<1>3. ASSUME NEW p \in Requests PROVE Shaped(req[p])'
  <2>1. req'[p] = q \/ req'[p] = req[p]
    BY <1>1
  <2>2. Shaped(req'[p])
    BY <2>1 DEF Typed
  <2> QED
    BY <2>2 DEF Shaped
<1> QED
  BY <1>2, <1>3 DEF Typed, TypeOK

\* The requests the router starts.
LEMMA TypedBegin ==
    ASSUME Typed, NEW r \in Requests, BeginRequest(r)
    PROVE  Typed'
<1>0. TypeOK
  BY DEF Typed
<1>1. ASSUME NEW s \in Owners, NEW l \in Listings, CreateReadListing(r, s, l)
      PROVE  Typed'
  <2>1. PICK a \in FreshApps, c \in FreshConvs :
            Begin(r, [Idle EXCEPT !.pc = "createFind", !.user = s,
                                  !.app = a, !.conv = c, !.listing = l])
    BY <1>1 DEF CreateReadListing
  <2> DEFINE q == [Idle EXCEPT !.pc = "createFind", !.user = s, !.app = a,
                               !.conv = c, !.listing = l]
  <2>2. Shaped(q)
    BY RolesAssumption
       DEF FreshApps, FreshConvs, Shaped, Idle, Request, Pcs, Users, Founding, OfStudents,
           WithConversation, WithListing, Joining, Leaving
  <2>3. req' = [req EXCEPT ![r] = q]
    BY <2>1 DEF Begin
  <2> HIDE DEF q
  <2> QED
    BY <1>0, <1>1, <2>2, <2>3, TypedStep DEF CreateReadListing, TypeOK
<1>2. ASSUME NEW s \in Students, NEW a \in AppIds, JoinBegin(r, s, a)
      PROVE  Typed'
  <2>1. PICK t \in 1..apps[a].invite :
            Begin(r, [Idle EXCEPT !.pc = "joinRead", !.user = s, !.app = a, !.token = t])
    BY <1>2 DEF JoinBegin
  <2> DEFINE q == [Idle EXCEPT !.pc = "joinRead", !.user = s, !.app = a,
                               !.token = t]
  <2>2. t \in Nat
    BY <1>0, <1>2, ExistingIsApplication DEF JoinBegin, Application
  <2>3. Shaped(q)
    BY <2>2 DEF Shaped, Idle, Request, Pcs, Users, Founding, OfStudents,
           WithConversation, WithListing, Joining, Leaving
  <2>4. req' = [req EXCEPT ![r] = q]
    BY <2>1 DEF Begin
  <2>5. crossed' \subseteq Students
    BY <1>0, <1>2 DEF JoinBegin, TypeOK
  <2> HIDE DEF q
  <2> QED
    BY <1>0, <1>2, <2>3, <2>4, <2>5, TypedStep DEF JoinBegin, TypeOK
<1>3. ASSUME NEW s \in Students, NEW a \in AppIds, LeaveGuard(r, s, a)
      PROVE  Typed'
  <2> DEFINE q == [Idle EXCEPT !.pc = "leaveRead", !.user = s, !.app = a]
  <2>1. Shaped(q)
    BY DEF Shaped, Idle, Request, Pcs, Users, Founding, OfStudents,
           WithConversation, WithListing, Joining, Leaving
  <2>2. req' = [req EXCEPT ![r] = q]
    BY <1>3 DEF LeaveGuard, Begin
  <2>3. crossed' \subseteq Students
    BY <1>0, <1>3 DEF LeaveGuard, TypeOK
  <2> HIDE DEF q
  <2> QED
    BY <1>0, <1>3, <2>1, <2>2, <2>3, TypedStep DEF LeaveGuard, TypeOK
<1>4. ASSUME NEW s \in Students, NEW a \in AppIds, SendGuard(r, s, a)
      PROVE  Typed'
  <2> DEFINE q == [Idle EXCEPT !.pc = "sendStage", !.user = s, !.app = a]
  <2>1. Shaped(q)
    BY DEF Shaped, Idle, Request, Pcs, Users, Founding, OfStudents,
           WithConversation, WithListing, Joining, Leaving
  <2>2. req' = [req EXCEPT ![r] = q]
    BY <1>4 DEF SendGuard, Begin
  <2> HIDE DEF q
  <2> QED
    BY <1>0, <1>4, <2>1, <2>2, TypedStep DEF SendGuard, TypeOK
<1>5. ASSUME NEW s \in Students, NEW a \in AppIds, DeleteGuard(r, s, a)
      PROVE  Typed'
  <2> DEFINE q == [Idle EXCEPT !.pc = "deleteApplication", !.user = s, !.app = a]
  <2>1. Shaped(q)
    BY DEF Shaped, Idle, Request, Pcs, Users, Founding, OfStudents,
           WithConversation, WithListing, Joining, Leaving
  <2>2. req' = [req EXCEPT ![r] = q]
    BY <1>5 DEF DeleteGuard, Begin
  <2> HIDE DEF q
  <2> QED
    BY <1>0, <1>5, <2>1, <2>2, TypedStep DEF DeleteGuard, TypeOK
<1>6. ASSUME NEW w \in Landlords, NEW a \in AppIds, NEW v \in Decisions,
             DecideReadApplication(r, w, a, v)
      PROVE  Typed'
  <2> DEFINE q == [Idle EXCEPT !.pc = "decideListing", !.user = w, !.app = a,
                               !.listing = apps[a].listing, !.verdict = v]
  <2>1. apps[a].listing \in Listings
    BY <1>0, <1>6, ExistingIsApplication DEF DecideReadApplication, Application
  <2>2. Shaped(q)
    BY <2>1 DEF Shaped, Idle, Request, Pcs, Users, Founding, OfStudents,
           WithConversation, WithListing, Joining, Leaving
  <2>3. req' = [req EXCEPT ![r] = q]
    BY <1>6 DEF DecideReadApplication, Begin
  <2> HIDE DEF q
  <2> QED
    BY <1>0, <1>6, <2>2, <2>3, TypedStep DEF DecideReadApplication, TypeOK
<1>7. ASSUME NEW u \in Users, NEW a \in AppIds, InviteGuard(r, u, a)
      PROVE  Typed'
  <2> DEFINE q == [Idle EXCEPT !.pc = "inviteRotate", !.user = u, !.app = a]
  <2>1. Shaped(q)
    BY DEF Shaped, Idle, Request, Pcs, Users, Founding, OfStudents,
           WithConversation, WithListing, Joining, Leaving
  <2>2. req' = [req EXCEPT ![r] = q]
    BY <1>7 DEF InviteGuard, Begin
  <2> HIDE DEF q
  <2> QED
    BY <1>0, <1>7, <2>1, <2>2, TypedStep DEF InviteGuard, TypeOK
<1> QED
  BY <1>1, <1>2, <1>3, <1>4, <1>5, <1>6, <1>7 DEF BeginRequest

\* Moving a request on, or ending it, keeps its shape.
Steps(r) == \E q : Shaped(q) /\ req' = [req EXCEPT ![r] = q]

DocumentsTyped ==
    /\ listed \subseteq Listings
    /\ apps \in [AppIds -> Application \cup {Unborn, Gone}]
    /\ convs \in [ConvIds -> (SUBSET Users) \cup {Unborn, Gone}]
    /\ retired \subseteq ConvIds
    /\ crossed \subseteq Students
    /\ broken \subseteq Students

LEMMA EndSteps ==
    ASSUME NEW r \in Requests, End(r)
    PROVE  Steps(r)
  BY ShapedIdle DEF End, Steps

LEMMA GotoSteps ==
    ASSUME Typed, NEW r \in Requests, NEW pc \in Pcs \ {"idle"}, Goto(r, pc),
           req[r].pc # "idle",
           pc \in OfStudents => req[r].pc \in OfStudents,
           pc \in WithConversation => req[r].pc \in WithConversation,
           pc \in WithListing => req[r].pc \in WithListing,
           pc \in {"decideListing", "decideStage"} =>
               req[r].pc \in {"decideListing", "decideStage"}
    PROVE  Steps(r)
<1> DEFINE q == [req[r] EXCEPT !.pc = pc]
<1>1. req' = [req EXCEPT ![r] = q]
  BY DEF Goto
<1>2. Shaped(req[r])
  BY DEF Typed
<1>3. Shaped(q)
  BY <1>2 DEF Shaped, Request
<1> QED
  BY <1>1, <1>3 DEF Steps

\* joinRead, leaveRead and sendStage take the conversation from the application.
LEMMA ReadSteps ==
    ASSUME Typed, NEW r \in Requests, NEW pc \in Pcs \ (Founding \cup
               {"idle", "sendConversation", "decideListing", "decideStage"}),
           req[r].pc \in OfStudents, Exists(req[r].app),
           req' = [req EXCEPT ![r].pc = pc,
                              ![r].conv = apps[req[r].app].conversation]
    PROVE  Steps(r)
<1> DEFINE q == [req[r] EXCEPT !.pc = pc, !.conv = apps[req[r].app].conversation]
<1>1. req' = [req EXCEPT ![r] = q]
  OBVIOUS
<1>2. Shaped(req[r]) /\ TypeOK
  BY DEF Typed
<1>3. req[r].pc # "idle" /\ req[r].app \in AppIds
  BY <1>2 DEF Shaped, OfStudents, Founding, Joining, Leaving
<1>4. apps[req[r].app].conversation \in ConvIds
  BY <1>2, <1>3, ExistingIsApplication DEF Application
<1>5. Shaped(q)
  BY <1>2, <1>3, <1>4 DEF Shaped, Request, WithListing, OfStudents
<1> QED
  BY <1>1, <1>5 DEF Steps

LEMMA StepsTyped ==
    ASSUME Typed, NEW r \in Requests, Steps(r), DocumentsTyped'
    PROVE  Typed'
  BY TypedStep DEF Steps, DocumentsTyped

\* The calls of a request in flight.
LEMMA TypedContinue ==
    ASSUME Typed, NEW r \in Requests, ContinueRequest(r)
    PROVE  Typed'
<1>0. TypeOK /\ DocumentsTyped /\ Shaped(req[r]) /\ req[r] \in Request
  BY DEF Typed, TypeOK, DocumentsTyped, Shaped
<1> USE DEF Founding, OfStudents, WithConversation, WithListing, Joining, Leaving, Pcs
<1>1. CASE CreateFind(r)
  <2>1. Steps(r)
    BY <1>1, EndSteps, GotoSteps DEF CreateFind
  <2> QED
    BY <1>0, <1>1, <2>1, StepsTyped DEF CreateFind, DocumentsTyped
<1>2. CASE CreateConversation(r)
  <2>1. Steps(r)
    BY <1>2, GotoSteps DEF CreateConversation
  <2>2. convs' \in [ConvIds -> (SUBSET Users) \cup {Unborn, Gone}]
    BY <1>0, <1>2 DEF CreateConversation, DocumentsTyped, Shaped, Users
  <2> QED
    BY <1>0, <1>2, <2>1, <2>2, StepsTyped DEF CreateConversation, DocumentsTyped
<1>3. CASE CreateApplication(r)
  <2>1. Steps(r)
    BY <1>3, EndSteps, GotoSteps DEF CreateApplication
  <2>2. apps' \in [AppIds -> Application \cup {Unborn, Gone}]
    <3> DEFINE new == [listing |-> req[r].listing, owner |-> req[r].user,
                       conversation |-> req[r].conv, applicants |-> {req[r].user},
                       stage |-> "NOT_SENT", invite |-> 0, inviteLive |-> FALSE]
    <3>1. new \in Application
      BY <1>0, <1>3 DEF CreateApplication, Shaped, Application, Stages
    <3>2. apps' = apps \/ apps' = [apps EXCEPT ![req[r].app] = new]
      BY <1>3 DEF CreateApplication
    <3> HIDE DEF new
    <3> QED
      BY <1>0, <3>1, <3>2 DEF DocumentsTyped
  <2> QED
    BY <1>0, <1>3, <2>1, <2>2, StepsTyped DEF CreateApplication, DocumentsTyped
<1>4. CASE CreateFails(r)
  <2>1. Steps(r)
    BY <1>4, GotoSteps DEF CreateFails
  <2> QED
    BY <1>0, <1>4, <2>1, StepsTyped DEF CreateFails, DocumentsTyped
<1>5. CASE CreateDropLoser(r)
  <2>1. Steps(r)
    BY <1>5, GotoSteps DEF CreateDropLoser
  <2>2. convs' \in [ConvIds -> (SUBSET Users) \cup {Unborn, Gone}]
    BY <1>0, <1>5 DEF CreateDropLoser, DocumentsTyped
  <2> QED
    BY <1>0, <1>5, <2>1, <2>2, StepsTyped DEF CreateDropLoser, DocumentsTyped
<1>6. CASE CreateLookup(r)
  <2>1. Steps(r)
    BY <1>6, EndSteps, GotoSteps DEF CreateLookup
  <2> QED
    BY <1>0, <1>6, <2>1, StepsTyped DEF CreateLookup, DocumentsTyped
<1>7. CASE CreateDiscard(r)
  <2>1. convs' \in [ConvIds -> (SUBSET Users) \cup {Unborn, Gone}]
    BY <1>0, <1>7 DEF CreateDiscard, DocumentsTyped
  <2> QED
    BY <1>0, <1>7, <2>1, EndSteps, StepsTyped DEF CreateDiscard, DocumentsTyped
<1>8. CASE JoinRead(r)
  <2>1. Steps(r)
    BY <1>8, EndSteps, ReadSteps DEF JoinRead
  <2> QED
    BY <1>0, <1>8, <2>1, StepsTyped DEF JoinRead, DocumentsTyped
<1>9. CASE JoinApplicants(r)
  <2>1. Steps(r)
    BY <1>9, EndSteps, GotoSteps DEF JoinApplicants
  <2>2. apps' \in [AppIds -> Application \cup {Unborn, Gone}]
    BY <1>0, <1>9, ExistingIsApplication
       DEF JoinApplicants, DocumentsTyped, Shaped, Application
  <2> QED
    BY <1>0, <1>9, <2>1, <2>2, StepsTyped DEF JoinApplicants, DocumentsTyped
<1>10. CASE JoinConversation(r)
  <2>1. convs' \in [ConvIds -> (SUBSET Users) \cup {Unborn, Gone}]
    BY <1>0, <1>10, OpenIsUsers DEF JoinConversation, DocumentsTyped, Shaped, Users
  <2> QED
    BY <1>0, <1>10, <2>1, EndSteps, StepsTyped DEF JoinConversation, DocumentsTyped
<1>11. CASE LeaveRead(r)
  <2>1. Steps(r)
    BY <1>11, EndSteps, ReadSteps DEF LeaveRead
  <2> QED
    BY <1>0, <1>11, <2>1, StepsTyped DEF LeaveRead, DocumentsTyped
<1>12. CASE LeaveApplicants(r)
  <2>1. Steps(r)
    BY <1>12, GotoSteps DEF LeaveApplicants
  <2>2. apps' \in [AppIds -> Application \cup {Unborn, Gone}]
    BY <1>0, <1>12, ExistingIsApplication
       DEF LeaveApplicants, DocumentsTyped, Shaped, Application
  <2> QED
    BY <1>0, <1>12, <2>1, <2>2, StepsTyped DEF LeaveApplicants, DocumentsTyped
<1>13. CASE LeaveConversation(r)
  <2>1. convs' \in [ConvIds -> (SUBSET Users) \cup {Unborn, Gone}]
    BY <1>0, <1>13, OpenIsUsers DEF LeaveConversation, DocumentsTyped, Shaped, Users
  <2> QED
    BY <1>0, <1>13, <2>1, EndSteps, StepsTyped DEF LeaveConversation, DocumentsTyped
<1>14. CASE SendStage(r)
  <2>1. Steps(r)
    <3>1. CASE ~(Exists(req[r].app) /\ apps[req[r].app].stage = "NOT_SENT")
      BY <1>14, <3>1, EndSteps DEF SendStage
    <3>2. CASE Exists(req[r].app) /\ apps[req[r].app].stage = "NOT_SENT"
      <4> DEFINE q == [req[r] EXCEPT !.pc = "sendConversation",
                                     !.conv = apps[req[r].app].conversation,
                                     !.listing = apps[req[r].app].listing]
      <4>1. req' = [req EXCEPT ![r] = q]
        BY <1>14, <3>2 DEF SendStage
      <4>2. apps[req[r].app] \in Application
        BY <1>0, <1>14, <3>2, ExistingIsApplication DEF SendStage, Shaped
      <4>3. Shaped(q)
        BY <1>0, <1>14, <4>2 DEF SendStage, Shaped, Request, Application
      <4> QED
        BY <4>1, <4>3 DEF Steps
    <3> QED
      BY <3>1, <3>2
  <2>2. apps' \in [AppIds -> Application \cup {Unborn, Gone}]
    BY <1>0, <1>14, ExistingIsApplication
       DEF SendStage, DocumentsTyped, Shaped, Application, Stages
  <2> QED
    BY <1>0, <1>14, <2>1, <2>2, StepsTyped DEF SendStage, DocumentsTyped
<1>15. CASE SendConversation(r)
  <2>1. LandlordOf[req[r].listing] \in Users
    BY <1>0, <1>15, RolesAssumption DEF SendConversation, Shaped, Users
  <2>2. convs' \in [ConvIds -> (SUBSET Users) \cup {Unborn, Gone}]
    BY <1>0, <1>15, <2>1, OpenIsUsers DEF SendConversation, DocumentsTyped, Shaped
  <2> QED
    BY <1>0, <1>15, <2>2, EndSteps, StepsTyped DEF SendConversation, DocumentsTyped
<1>16. CASE DecideReadListing(r)
  <2>1. Steps(r)
    BY <1>16, EndSteps, GotoSteps DEF DecideReadListing
  <2> QED
    BY <1>0, <1>16, <2>1, StepsTyped DEF DecideReadListing, DocumentsTyped
<1>17. CASE DecideStage(r)
  <2>1. apps' \in [AppIds -> Application \cup {Unborn, Gone}]
    BY <1>0, <1>17, ExistingIsApplication
       DEF DecideStage, DocumentsTyped, Shaped, Application, Stages, Decisions
  <2> QED
    BY <1>0, <1>17, <2>1, EndSteps, StepsTyped DEF DecideStage, DocumentsTyped
<1>18. CASE InviteRotate(r)
  <2>1. apps' \in [AppIds -> Application \cup {Unborn, Gone}]
    BY <1>0, <1>18, ExistingIsApplication
       DEF InviteRotate, DocumentsTyped, Shaped, Application
  <2> QED
    BY <1>0, <1>18, <2>1, EndSteps, StepsTyped DEF InviteRotate, DocumentsTyped
<1>19. CASE DeleteApplication(r)
  <2>1. apps' \in [AppIds -> Application \cup {Unborn, Gone}]
    BY <1>0, <1>19 DEF DeleteApplication, DocumentsTyped, Shaped
  <2>2. retired' \subseteq ConvIds
    BY <1>0, <1>19, ExistingIsApplication
       DEF DeleteApplication, DocumentsTyped, Shaped, Application
  <2> QED
    BY <1>0, <1>19, <2>1, <2>2, EndSteps, StepsTyped
       DEF DeleteApplication, DocumentsTyped
<1> QED
  BY <1>1, <1>2, <1>3, <1>4, <1>5, <1>6, <1>7, <1>8, <1>9, <1>10, <1>11, <1>12,
     <1>13, <1>14, <1>15, <1>16, <1>17, <1>18, <1>19
     DEF ContinueRequest

LEMMA TypedInit == Init => Typed
  BY ShapedIdle, BoundsAssumption DEF Init, Typed, TypeOK, Shaped

LEMMA TypedNext == Typed /\ [Next]_vars => Typed'
<1> SUFFICES ASSUME Typed, [Next]_vars PROVE Typed'
  OBVIOUS
<1>0. TypeOK /\ DocumentsTyped
  BY DEF Typed, TypeOK, DocumentsTyped
<1>1. ASSUME NEW r \in Requests, BeginRequest(r) PROVE Typed'
  BY <1>1, TypedBegin
<1>2. ASSUME NEW r \in Requests, ContinueRequest(r) PROVE Typed'
  BY <1>2, TypedContinue
<1>3. ASSUME NEW r \in Requests, RequestDies(r) PROVE Typed'
  <2>1. Steps(r)
    BY <1>3, EndSteps DEF RequestDies
  <2> QED
    BY <1>0, <1>3, <2>1, StepsTyped DEF RequestDies, DocumentsTyped
<1>4. ASSUME NEW a \in AppIds, InviteExpires(a) PROVE Typed'
  <2>1. apps' \in [AppIds -> Application \cup {Unborn, Gone}]
    BY <1>0, <1>4, ExistingIsApplication DEF InviteExpires, DocumentsTyped, Application
  <2> QED
    BY <1>0, <1>4, <2>1 DEF InviteExpires, Typed, TypeOK, Shaped
<1>5. ASSUME NEW l \in Listings, DeleteListing(l) PROVE Typed'
  BY <1>5 DEF DeleteListing, Typed, TypeOK, Shaped
<1>6. CASE UNCHANGED vars
  BY <1>6 DEF vars, Typed, TypeOK, Shaped
<1> QED
  BY <1>1, <1>2, <1>3, <1>4, <1>5, <1>6 DEF Next

\* No request and no document ever leaves its schema.
THEOREM TypeCorrect == Spec => []TypeOK
<1>1. Spec => []Typed
  BY TypedInit, TypedNext, PTL DEF Spec
<1>2. Typed => TypeOK
  BY DEF Typed
<1> QED
  BY <1>1, <1>2, PTL

----------------------------------------------------------------------------
(***************************************************************************)
(* Why the racing handlers of ApplicationGroups keep the documents sound.  *)
(*                                                                         *)
(* The inductive invariant adds to the properties what the handlers rely   *)
(* on between two calls: a create alone holds the ids it generated         *)
(* (OwnIds), and its chat is still to be written or holds just its creator *)
(* (OwnChats).                                                             *)
(***************************************************************************)

OwnIds ==
    \A r \in Requests : req[r].pc \in Founding =>
        /\ apps[req[r].app] = Unborn
        /\ \A q \in Requests \ {r} :
              /\ req[q].conv # req[r].conv
              /\ req[q].pc \in Founding => req[q].app # req[r].app
        /\ \A a \in AppIds : Exists(a) => apps[a].conversation # req[r].conv

OwnChats ==
    \A r \in Requests :
        /\ req[r].pc \in {"createFind", "createConversation"} =>
               convs[req[r].conv] = Unborn
        /\ req[r].pc \in {"createApplication", "createDropLoser"} =>
               convs[req[r].conv] = {req[r].user}

Documents == OneApplicationPerKey /\ ConversationsIntact
Owned == Typed /\ OwnIds /\ OwnChats /\ Documents

LEMMA OwnedInit == Init => Owned
  BY TypedInit, AbsenceAssumption
     DEF Init, Owned, OwnIds, OwnChats, Documents, OneApplicationPerKey,
         ConversationsIntact, Exists, Idle, Founding

LEMMA OwnedTypes ==
    ASSUME Owned, NEW r \in Requests
    PROVE  /\ TypeOK /\ Shaped(req[r])
           /\ req \in [Requests -> Request]
           /\ apps \in [AppIds -> Application \cup {Unborn, Gone}]
           /\ convs \in [ConvIds -> (SUBSET Users) \cup {Unborn, Gone}]
  BY DEF Owned, Typed, TypeOK

\* What every step does that is not a call of a create: the conversation a
\* request knows is that of an application, an application keeps its ids or
\* goes, and only the users of a chat some request knows are changed.
Harmless ==
    /\ \A p \in Requests :
          \/ req'[p] = req[p]
          \/ /\ req'[p].pc \notin Founding
             /\ \/ req'[p].conv \in {None, req[p].conv}
                \/ \E a \in AppIds : Exists(a) /\ req'[p].conv = apps[a].conversation
    /\ \A a \in AppIds :
          \/ apps'[a] = apps[a]
          \/ Exists(a) /\ apps'[a] = Gone
          \/ /\ Exists(a) /\ Exists(a)'
             /\ apps'[a].listing = apps[a].listing
             /\ apps'[a].owner = apps[a].owner
             /\ apps'[a].conversation = apps[a].conversation
    /\ \A c \in ConvIds :
          \/ convs'[c] = convs[c]
          \/ /\ \E p \in Requests : req[p].pc \notin Founding /\ req[p].conv = c
             /\ Open(c) /\ Open(c)'

LEMMA HarmlessKeeps ==
    ASSUME Owned, Harmless
    PROVE  (OwnIds /\ OwnChats /\ Documents)'
<1>1. OwnIds /\ OwnChats /\ Documents /\ None \notin ConvIds
  BY AbsenceAssumption DEF Owned
<1>2. \A p \in Requests : req[p].pc \in Founding =>
          /\ req[p].conv \in ConvIds /\ req[p].app \in AppIds
  BY OwnedTypes DEF Shaped, WithConversation, Founding
<1>3. \A a \in AppIds : Exists(a) => apps[a].conversation \in ConvIds
  BY OwnedTypes, ExistingIsApplication DEF Owned, Typed, Application
<1>4. \A a \in AppIds : Exists(a)' =>
          /\ Exists(a)
          /\ apps'[a].listing = apps[a].listing
          /\ apps'[a].owner = apps[a].owner
          /\ apps'[a].conversation = apps[a].conversation
  BY DEF Harmless, Exists
<1>5. \A p \in Requests : req'[p].pc \in Founding => req'[p] = req[p]
  BY DEF Harmless
<1>6. \A c \in ConvIds : Open(c) => Open(c)'
  BY DEF Harmless, Open
<1>7. OneApplicationPerKey'
  BY <1>1, <1>4 DEF Documents, OneApplicationPerKey
<1>8. ConversationsIntact'
  BY <1>1, <1>3, <1>4, <1>6 DEF Documents, ConversationsIntact
<1>9. ASSUME NEW r \in Requests, req'[r].pc \in Founding
      PROVE  apps'[req[r].app] = Unborn
  BY <1>1, <1>2, <1>5, <1>9 DEF OwnIds, Harmless, Exists
<1>10. ASSUME NEW r \in Requests, req'[r].pc \in Founding, NEW q \in Requests \ {r}
       PROVE  /\ req'[q].conv # req'[r].conv
              /\ req'[q].pc \in Founding => req'[q].app # req'[r].app
  BY <1>1, <1>2, <1>5, <1>10 DEF OwnIds, Harmless
<1>11. OwnIds'
  BY <1>1, <1>4, <1>5, <1>9, <1>10 DEF OwnIds
<1>12. OwnChats'
  BY <1>1, <1>2, <1>5 DEF OwnIds, OwnChats, Harmless, Founding
<1> QED
  BY <1>7, <1>8, <1>11, <1>12 DEF Documents

LEMMA HarmlessBegin ==
    ASSUME Owned, NEW r \in Requests, BeginRequest(r),
           ~ \E s \in Owners, l \in Listings : CreateReadListing(r, s, l)
    PROVE  Harmless
<1>1. req \in [Requests -> Request]
  BY OwnedTypes
<1>2. UNCHANGED <<apps, convs>>
  BY DEF BeginRequest, JoinBegin, LeaveGuard, SendGuard, DeleteGuard,
         DecideReadApplication, InviteGuard
<1> DEFINE Unfounding == /\ req'[r].pc \notin Founding /\ req'[r].conv = None
                         /\ \A p \in Requests \ {r} : req'[p] = req[p]
<1>3. ASSUME NEW s \in Students, NEW a \in AppIds, JoinBegin(r, s, a)
      PROVE  Unfounding
  BY <1>1, <1>3 DEF JoinBegin, Begin, Idle, Founding
<1>4. ASSUME NEW s \in Students, NEW a \in AppIds, LeaveGuard(r, s, a)
      PROVE  Unfounding
  BY <1>1, <1>4 DEF LeaveGuard, Begin, Idle, Founding
<1>5. ASSUME NEW s \in Students, NEW a \in AppIds, SendGuard(r, s, a)
      PROVE  Unfounding
  BY <1>1, <1>5 DEF SendGuard, Begin, Idle, Founding
<1>6. ASSUME NEW s \in Students, NEW a \in AppIds, DeleteGuard(r, s, a)
      PROVE  Unfounding
  BY <1>1, <1>6 DEF DeleteGuard, Begin, Idle, Founding
<1>7. ASSUME NEW w \in Landlords, NEW a \in AppIds, NEW v \in Decisions, DecideReadApplication(r, w, a, v)
      PROVE  Unfounding
  BY <1>1, <1>7 DEF DecideReadApplication, Begin, Idle, Founding
<1>8. ASSUME NEW u \in Users, NEW a \in AppIds, InviteGuard(r, u, a)
      PROVE  Unfounding
  BY <1>1, <1>8 DEF InviteGuard, Begin, Idle, Founding
<1>9. Unfounding
  BY <1>3, <1>4, <1>5, <1>6, <1>7, <1>8 DEF BeginRequest
<1> QED
  BY <1>1, <1>2, <1>9 DEF Harmless

LEMMA HarmlessContinue ==
    ASSUME Owned, NEW r \in Requests, ContinueRequest(r), req[r].pc \notin Founding
    PROVE  Harmless
<1>1. /\ req \in [Requests -> Request] /\ TypeOK
      /\ apps \in [AppIds -> Application \cup {Unborn, Gone}]
      /\ convs \in [ConvIds -> (SUBSET Users) \cup {Unborn, Gone}]
  BY OwnedTypes
<1> USE <1>1
<1>2. CASE JoinRead(r) \/ LeaveRead(r) \/ DecideReadListing(r)
  <2>1. UNCHANGED <<apps, convs>> /\ \A p \in Requests \ {r} : req'[p] = req[p]
    BY <1>2 DEF JoinRead, LeaveRead, DecideReadListing, Goto, End
  <2>2. /\ req'[r].pc \notin Founding
        /\ \/ req'[r].conv \in {None, req[r].conv}
           \/ req[r].app \in AppIds /\ Exists(req[r].app)
              /\ req'[r].conv = apps[req[r].app].conversation
    BY <1>2, OwnedTypes
       DEF JoinRead, LeaveRead, DecideReadListing, Goto, End, Idle, Founding, Shaped, Request
  <2> QED
    BY <2>1, <2>2 DEF Harmless
<1>3. CASE JoinApplicants(r) \/ LeaveApplicants(r) \/ DecideStage(r) \/ InviteRotate(r)
             \/ DeleteApplication(r) \/ SendStage(r)
  <2>1. UNCHANGED convs /\ \A p \in Requests \ {r} : req'[p] = req[p]
    BY <1>3 DEF JoinApplicants, LeaveApplicants, DecideStage, InviteRotate,
                DeleteApplication, SendStage, Goto, End
  <2>2. req[r] \in Request /\ req[r].app \in AppIds
    BY <1>3, OwnedTypes DEF JoinApplicants, LeaveApplicants, DecideStage, InviteRotate,
                DeleteApplication, SendStage, Shaped
  <2>3. /\ req'[r].pc \notin Founding
        /\ \/ req'[r].conv \in {None, req[r].conv}
           \/ Exists(req[r].app) /\ req'[r].conv = apps[req[r].app].conversation
    BY <1>3, <2>2 DEF JoinApplicants, LeaveApplicants, DecideStage, InviteRotate,
                DeleteApplication, SendStage, Goto, End, Idle, Founding, Request
  <2>4. \A a \in AppIds \ {req[r].app} : apps'[a] = apps[a]
    BY <1>3 DEF JoinApplicants, LeaveApplicants, DecideStage, InviteRotate,
                DeleteApplication, SendStage
  <2>5. LET a == req[r].app
        IN  \/ apps'[a] = apps[a]
            \/ Exists(a) /\ apps'[a] = Gone
            \/ /\ Exists(a) /\ apps'[a] \in Application
               /\ apps'[a].listing = apps[a].listing
               /\ apps'[a].owner = apps[a].owner
               /\ apps'[a].conversation = apps[a].conversation
    <3>3. CASE DeleteApplication(r)
      BY <2>2, <3>3 DEF DeleteApplication
    <3>4. CASE ~DeleteApplication(r)
      <4>1. CASE ~Exists(req[r].app)
        BY <1>3, <3>4, <4>1 DEF JoinApplicants, LeaveApplicants, DecideStage,
                InviteRotate, SendStage
      <4>2. CASE Exists(req[r].app)
        <5>1. apps[req[r].app] \in Application
          BY <2>2, <4>2, ExistingIsApplication
        <5>2. CASE JoinApplicants(r)
          BY <2>2, <4>2, <5>1, <5>2, OwnedTypes
             DEF JoinApplicants, Shaped, Application, OfStudents, Joining
        <5>3. CASE LeaveApplicants(r)
          BY <2>2, <4>2, <5>1, <5>3 DEF LeaveApplicants, Application
        <5>4. CASE DecideStage(r)
          BY <2>2, <4>2, <5>1, <5>4, OwnedTypes
             DEF DecideStage, Shaped, Application, Stages, Decisions
        <5>5. CASE InviteRotate(r)
          BY <2>2, <4>2, <5>1, <5>5 DEF InviteRotate, Application
        <5>6. CASE SendStage(r)
          BY <2>2, <4>2, <5>1, <5>6 DEF SendStage, Application, Stages
        <5> QED
          BY <1>3, <3>4, <5>2, <5>3, <5>4, <5>5, <5>6
      <4> QED
        BY <4>1, <4>2
    <3> QED
      BY <3>3, <3>4
  <2> QED
    BY <2>1, <2>2, <2>3, <2>4, <2>5, AbsenceAssumption DEF Harmless, Exists
<1>4. CASE JoinConversation(r) \/ LeaveConversation(r) \/ SendConversation(r)
  <2>1. /\ UNCHANGED apps
        /\ \A p \in Requests \ {r} : req'[p] = req[p]
        /\ req'[r] = Idle
    BY <1>4 DEF JoinConversation, LeaveConversation, SendConversation, End
  <2>2. \A c \in ConvIds : convs'[c] = convs[c] \/ (c = req[r].conv /\ Open(c))
    BY <1>4 DEF JoinConversation, LeaveConversation, SendConversation
  <2>3. Typed'
    BY TypedContinue DEF Owned
  <2>4. \A c \in ConvIds : Open(c) => convs'[c] \in SUBSET Users
    <3> SUFFICES ASSUME NEW c \in ConvIds, Open(c) PROVE convs'[c] \in SUBSET Users
      OBVIOUS
    <3>1. convs[c] \in SUBSET Users
      BY OpenIsUsers
    <3>2. req[r].user \in Users /\ (SendConversation(r) => LandlordOf[req[r].listing] \in Users)
      BY <1>4, OwnedTypes, RolesAssumption
         DEF JoinConversation, LeaveConversation, SendConversation, Shaped, Users,
             WithListing
    <3> QED
      BY <1>4, <3>1, <3>2 DEF JoinConversation, LeaveConversation, SendConversation
  <2> QED
    BY <2>1, <2>2, <2>4, AbsenceAssumption DEF Harmless, Open, Idle, Founding
<1> QED
  BY <1>2, <1>3, <1>4 DEF ContinueRequest, Founding, CreateFind, CreateConversation,
     CreateApplication, CreateFails, CreateDropLoser, CreateLookup, CreateDiscard

\* A create takes ids no document and no other request has.
LEMMA CreateBegins ==
    ASSUME Owned, NEW r \in Requests, NEW s \in Owners, NEW l \in Listings,
           CreateReadListing(r, s, l)
    PROVE  (OwnIds /\ OwnChats /\ Documents)'
<1>1. PICK a \in FreshApps, c \in FreshConvs :
          Begin(r, [Idle EXCEPT !.pc = "createFind", !.user = s,
                                !.app = a, !.conv = c, !.listing = l])
  BY DEF CreateReadListing
<1>2. UNCHANGED <<apps, convs>> /\ OwnIds /\ OwnChats /\ Documents
  BY DEF CreateReadListing, Owned
<1>3. /\ \A p \in Requests \ {r} : req'[p] = req[p]
      /\ req'[r].pc = "createFind" /\ req'[r].app = a /\ req'[r].conv = c
  BY <1>1, OwnedTypes DEF Begin, Idle
<1>4. /\ apps[a] = Unborn /\ \A p \in Requests : req[p].app # a
      /\ convs[c] = Unborn /\ \A p \in Requests : req[p].conv # c
  BY DEF FreshApps, FreshConvs
<1>5. Documents'
  BY <1>2 DEF Documents, OneApplicationPerKey, ConversationsIntact, Exists, Open
<1>6. \A b \in AppIds : Exists(b) => apps[b].conversation # c
  BY <1>2, <1>4 DEF Documents, ConversationsIntact, Open
<1>7. OwnIds'
  BY <1>2, <1>3, <1>4, <1>6 DEF OwnIds, Exists
<1>8. OwnChats'
  BY <1>2, <1>3, <1>4 DEF OwnChats
<1> QED
  BY <1>5, <1>7, <1>8

LEMMA CreateContinues ==
    ASSUME Owned, NEW r \in Requests, ContinueRequest(r), req[r].pc \in Founding
    PROVE  (OwnIds /\ OwnChats /\ Documents)'
<1> DEFINE u == req[r].user
           a == req[r].app
           c == req[r].conv
<1>1. OwnIds /\ OwnChats /\ Documents
  BY DEF Owned
<1>2. /\ req \in [Requests -> Request] /\ TypeOK
      /\ apps \in [AppIds -> Application \cup {Unborn, Gone}]
      /\ convs \in [ConvIds -> (SUBSET Users) \cup {Unborn, Gone}]
      /\ a \in AppIds /\ c \in ConvIds /\ u \in Users
  BY OwnedTypes DEF Shaped, WithConversation, Founding
<1>3. /\ apps[a] = Unborn
      /\ \A q \in Requests \ {r} : req[q].conv # c
      /\ \A q \in Requests \ {r} : req[q].pc \in Founding => req[q].app # a
      /\ \A b \in AppIds : Exists(b) => apps[b].conversation # c
  BY <1>1 DEF OwnIds
<1>4. \A p \in Requests : req[p].pc \in Founding => req[p].conv \in ConvIds
  BY OwnedTypes DEF Shaped, WithConversation
<1>5. None \notin ConvIds
  BY AbsenceAssumption
\* The calls that write nothing, or only the chat the request holds.
<1>6. ASSUME \A q \in Requests \ {r} : req'[q] = req[q],
             \/ req'[r] = Idle
             \/ req'[r].pc \in Founding /\ req'[r].app = a /\ req'[r].conv = c
                  /\ req'[r].user = u,
             UNCHANGED apps, \A d \in ConvIds \ {c} : convs'[d] = convs[d],
             req'[r].pc \in {"createFind", "createConversation"} => convs'[c] = Unborn,
             req'[r].pc \in {"createApplication", "createDropLoser"} => convs'[c] = {u}
      PROVE  (OwnIds /\ OwnChats /\ Documents)'
  <2>1. \A b \in AppIds : Exists(b) => apps[b].conversation \in ConvIds \ {c}
    BY <1>2, <1>3, ExistingIsApplication DEF Application
  <2>2. Documents'
    BY <1>1, <1>6, <2>1
       DEF Documents, OneApplicationPerKey, ConversationsIntact, Exists, Open
  <2>3. OwnIds'
    BY <1>1, <1>3, <1>4, <1>5, <1>6 DEF OwnIds, Exists, Idle, Founding
  <2>4. OwnChats'
    BY <1>1, <1>3, <1>4, <1>6 DEF OwnChats, Idle, Founding
  <2> QED
    BY <2>2, <2>3, <2>4
<1>7. CASE CreateFind(r) \/ CreateFails(r) \/ CreateLookup(r)
  BY <1>1, <1>2, <1>6, <1>7
     DEF CreateFind, CreateFails, CreateLookup, Goto, End, OwnChats, Founding, Request, Idle
<1>8. CASE CreateConversation(r)
  BY <1>1, <1>2, <1>6, <1>8
     DEF CreateConversation, Goto, Founding, Request
<1>9. CASE CreateDropLoser(r) \/ CreateDiscard(r)
  BY <1>1, <1>2, <1>6, <1>9
     DEF CreateDropLoser, CreateDiscard, Goto, End, Founding, Request, Idle
<1>10. CASE CreateApplication(r)
  <2>1. CASE Holder(req[r].listing, req[r].user) # {}
    BY <1>1, <1>2, <1>6, <1>10, <2>1
       DEF CreateApplication, Goto, OwnChats, Founding, Request
  <2>2. CASE Holder(req[r].listing, req[r].user) = {}
    <3> DEFINE new == [listing |-> req[r].listing, owner |-> req[r].user,
                       conversation |-> req[r].conv, applicants |-> {req[r].user},
                       stage |-> "NOT_SENT", invite |-> 0, inviteLive |-> FALSE]
    <3>1. /\ apps' = [apps EXCEPT ![a] = new]
          /\ UNCHANGED convs
          /\ req' = [req EXCEPT ![r] = Idle]
      BY <1>10, <2>2 DEF CreateApplication, End
    <3>2. /\ apps'[a] = new /\ \A b \in AppIds \ {a} : apps'[b] = apps[b]
          /\ req'[r] = Idle /\ \A q \in Requests \ {r} : req'[q] = req[q]
      BY <1>2, <3>1
    <3>3. convs[c] = {u} /\ Open(c)
      BY <1>1, <1>2, <1>10, AbsenceAssumption DEF OwnChats, CreateApplication, Open, Users
    <3>4. OneApplicationPerKey'
      BY <1>1, <2>2, <3>2 DEF Documents, OneApplicationPerKey, Exists, Holder
    <3>5. ConversationsIntact'
      BY <1>1, <1>3, <3>1, <3>2, <3>3 DEF Documents, ConversationsIntact, Exists, Open
    <3>6. OwnIds'
      BY <1>1, <1>2, <1>3, <1>4, <1>5, <3>1, <3>2 DEF OwnIds, Exists, Idle, Founding
    <3>7. OwnChats'
      BY <1>1, <3>1, <3>2 DEF OwnChats, Idle
    <3> QED
      BY <3>4, <3>5, <3>6, <3>7 DEF Documents
  <2> QED
    BY <2>1, <2>2
<1> QED
  BY <1>7, <1>8, <1>9, <1>10 DEF ContinueRequest, Founding, JoinRead, JoinApplicants,
     JoinConversation, LeaveRead, LeaveApplicants, LeaveConversation, SendStage,
     SendConversation, DecideReadListing, DecideStage, InviteRotate, DeleteApplication

LEMMA OwnedNext == Owned /\ [Next]_vars => Owned'
<1> SUFFICES ASSUME Owned, [Next]_vars PROVE Owned'
  OBVIOUS
<1>1. Typed'
  BY TypedNext DEF Owned
<1>2. ASSUME NEW r \in Requests, BeginRequest(r)
      PROVE  (OwnIds /\ OwnChats /\ Documents)'
  BY <1>2, CreateBegins, HarmlessBegin, HarmlessKeeps
<1>3. ASSUME NEW r \in Requests, ContinueRequest(r)
      PROVE  (OwnIds /\ OwnChats /\ Documents)'
  BY <1>3, CreateContinues, HarmlessContinue, HarmlessKeeps
<1>4. ASSUME NEW r \in Requests, RequestDies(r)
      PROVE  Harmless
  BY <1>4, OwnedTypes DEF RequestDies, End, Harmless, Idle, Founding
<1>5. ASSUME NEW a \in AppIds, InviteExpires(a)
      PROVE  Harmless
  <2>1. apps[a] \in Application /\ apps \in [AppIds -> Application \cup {Unborn, Gone}]
    BY <1>5, ExistingIsApplication DEF InviteExpires, Owned, Typed, TypeOK
  <2>2. /\ UNCHANGED <<convs, req>> /\ \A b \in AppIds \ {a} : apps'[b] = apps[b]
        /\ apps'[a] = [apps[a] EXCEPT !.inviteLive = FALSE]
    BY <1>5, <2>1 DEF InviteExpires
  <2>3. apps'[a] \in Application
    BY <2>1, <2>2 DEF Application
  <2>4. Exists(a) /\ Exists(a)'
    BY <1>5, <2>3, AbsenceAssumption DEF InviteExpires, Exists
  <2> QED
    BY <2>1, <2>2, <2>4 DEF Harmless, Application
<1>6. ASSUME NEW l \in Listings, DeleteListing(l)
      PROVE  Harmless
  BY <1>6 DEF DeleteListing, Harmless
<1>7. ASSUME UNCHANGED vars PROVE Harmless
  BY <1>7 DEF vars, Harmless
<1>8. Harmless => (OwnIds /\ OwnChats /\ Documents)'
  BY HarmlessKeeps
<1>9. (OwnIds /\ OwnChats /\ Documents)'
  BY <1>2, <1>3, <1>4, <1>5, <1>6, <1>7, <1>8 DEF Next
<1> QED
  BY <1>1, <1>9 DEF Owned

LEMMA AlwaysOwned == Spec => []Owned
  BY OwnedInit, OwnedNext, PTL DEF Spec

\* However many creates race, a student holds one application per listing.
THEOREM UniqueApplications == Spec => []OneApplicationPerKey
<1>1. Owned => OneApplicationPerKey
  BY DEF Owned, Documents
<1> QED
  BY <1>1, AlwaysOwned, PTL

\* Cleaning up after a lost or failed create never costs a group its chat.
THEOREM ChatsIntact == Spec => []ConversationsIntact
<1>1. Owned => ConversationsIntact
  BY DEF Owned, Documents
<1> QED
  BY <1>1, AlwaysOwned, PTL

=============================================================================
