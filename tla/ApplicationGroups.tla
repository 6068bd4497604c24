------------------------- MODULE ApplicationGroups -------------------------
(***************************************************************************)
(* A rental application is a group of students applying for one listing.   *)
(* It lives in two MongoDB collections: the application document (owner,   *)
(* applicants, stage, invite) and the conversation document whose `users`  *)
(* array decides who sees the chat.  Every handler is a chain of awaited   *)
(* database calls, each of them atomic on its own document; what a guard   *)
(* or a findById has read may be stale when the next call runs.            *)
(*                                                                         *)
(* One record of `req` is one HTTP request in flight, its `pc` naming the  *)
(* next database call.  An action is one such call.  A refused request     *)
(* that has changed nothing simply never begins.                           *)
(***************************************************************************)
EXTENDS Naturals, FiniteSets

CONSTANTS
    Students,       \* users with the student role
    Landlords,      \* users with the landlord role
    Listings,       \* listings published and verified when the run starts
    LandlordOf,     \* listing.landlord, never updated by the code
    Owners,         \* the students who file applications of their own
    AppIds,         \* ObjectIds for applications (bound: no request beyond)
    ConvIds,        \* ObjectIds for conversations (bound: no request beyond)
    Requests,       \* slots for requests in flight (bound on concurrency)
    MaxInvites,     \* bound: invites minted for one application
    MayDie,         \* can a request die between two of its writes?
    Unborn, Gone,   \* a document that does not exist yet; that was deleted
    None            \* an unused field of a request

Users == Students \cup Landlords
Stages == {"NOT_SENT", "SENT", "ACCEPTED", "REJECTED"}
Decisions == {"ACCEPTED", "REJECTED"}

Application ==
    [listing : Listings, owner : Students, conversation : ConvIds,
     applicants : SUBSET Students, stage : Stages,
     invite : Nat,              \* how often inviteTokenHash was rotated
     inviteLive : BOOLEAN]      \* inviteTokenExpires lies in the future

Pcs ==
    {"idle", "createFind", "createConversation", "createApplication",
     "createDropLoser", "createLookup", "createDiscard",
     "joinRead", "joinApplicants", "joinConversation",
     "leaveRead", "leaveApplicants", "leaveConversation",
     "sendStage", "sendConversation", "decideListing", "decideStage",
     "inviteRotate", "deleteApplication"}

Request ==
    [pc : Pcs, user : Users \cup {None}, app : AppIds \cup {None},
     conv : ConvIds \cup {None}, listing : Listings \cup {None},
     verdict : Decisions \cup {None}, token : Nat]

ASSUME RolesAssumption ==
    /\ Students \cap Landlords = {}
    /\ Owners \subseteq Students
    /\ LandlordOf \in [Listings -> Landlords]

ASSUME AbsenceAssumption ==
    /\ Unborn # Gone
    /\ Unborn \notin Application /\ Gone \notin Application
    /\ \A users \in SUBSET Users : users # Unborn /\ users # Gone
    /\ None \notin Users \cup AppIds \cup ConvIds \cup Listings
    /\ None \notin [members : SUBSET Students, stage : Stages]

ASSUME BoundsAssumption == MaxInvites \in Nat /\ MayDie \in BOOLEAN

VARIABLES
    listed,    \* the listings that still exist
    apps,      \* the applications collection
    convs,     \* the conversations collection: the `users` of each
    req,       \* the requests in flight
    retired,   \* history: conversations whose application was deleted
    crossed,   \* history: students whose join and leave overlapped
    broken     \* history: students one of whose requests died half-way

vars == <<listed, apps, convs, req, retired, crossed, broken>>

Idle == [pc |-> "idle", user |-> None, app |-> None, conv |-> None,
         listing |-> None, verdict |-> None, token |-> 0]

Exists(a) == apps[a] \notin {Unborn, Gone}
Open(c) == convs[c] \notin {Unborn, Gone}

\* The unique, sparse index on applicationKey = listing:owner.
Holder(l, s) ==
    {a \in AppIds : Exists(a) /\ apps[a].listing = l /\ apps[a].owner = s}

\* ObjectIds are generated by the client, so a request owns its ids before
\* the documents are written.
FreshApps == {a \in AppIds : apps[a] = Unborn /\ \A r \in Requests : req[r].app # a}
FreshConvs == {c \in ConvIds : convs[c] = Unborn /\ \A r \in Requests : req[r].conv # c}

InFlight(u, pcs) == \E r \in Requests : req[r].user = u /\ req[r].pc \in pcs
Joining == {"joinRead", "joinApplicants", "joinConversation"}
Leaving == {"leaveRead", "leaveApplicants", "leaveConversation"}

Init ==
    /\ listed = Listings
    /\ apps = [a \in AppIds |-> Unborn]
    /\ convs = [c \in ConvIds |-> Unborn]
    /\ req = [r \in Requests |-> Idle]
    /\ retired = {}
    /\ crossed = {}
    /\ broken = {}

Begin(r, request) == req[r].pc = "idle" /\ req' = [req EXCEPT ![r] = request]
Goto(r, pc) == req' = [req EXCEPT ![r].pc = pc]
End(r) == req' = [req EXCEPT ![r] = Idle]

----------------------------------------------------------------------------
(* Altered forms of the definitions below, each a slip the code could have *)
(* made; put in the place of the original they show which property notices.*)

CreateConversationWithLandlord(r) ==
    /\ req[r].pc = "createConversation"
    /\ convs' = [convs EXCEPT ![req[r].conv] =
                    {req[r].user, LandlordOf[req[r].listing]}]
    /\ Goto(r, "createApplication")
    /\ UNCHANGED <<listed, apps, retired, crossed, broken>>

CreateApplicationWithoutIndex(r) ==
    /\ req[r].pc = "createApplication"
    /\ apps' = [apps EXCEPT ![req[r].app] =
           [listing |-> req[r].listing, owner |-> req[r].user,
            conversation |-> req[r].conv, applicants |-> {req[r].user},
            stage |-> "NOT_SENT", invite |-> 0, inviteLive |-> FALSE]]
    /\ End(r)
    /\ UNCHANGED <<listed, convs, retired, crossed, broken>>

CreateDropWinner(r) ==
    /\ req[r].pc = "createDropLoser"
    /\ convs' = [c \in ConvIds |->
          IF \E a \in Holder(req[r].listing, req[r].user) : apps[a].conversation = c
          THEN Gone ELSE convs[c]]
    /\ Goto(r, "createLookup")
    /\ UNCHANGED <<listed, apps, retired, crossed, broken>>

CreateKeepLoser(r) ==
    /\ req[r].pc = "createDropLoser"
    /\ Goto(r, "createLookup")
    /\ UNCHANGED <<listed, apps, convs, retired, crossed, broken>>

LeaveReadOfOwner(r) ==
    /\ req[r].pc = "leaveRead"
    /\ IF Exists(req[r].app)
       THEN req' = [req EXCEPT ![r].pc = "leaveApplicants",
                               ![r].conv = apps[req[r].app].conversation]
       ELSE End(r)
    /\ UNCHANGED <<listed, apps, convs, retired, crossed, broken>>

LeaveApplicantsOnly(r) ==
    /\ req[r].pc = "leaveConversation"
    /\ End(r)
    /\ UNCHANGED <<listed, apps, convs, retired, crossed, broken>>

\* ApplicationService.sendApplication, which no route calls, filters on _id.
SendStageUnfiltered(r) ==
    /\ req[r].pc = "sendStage"
    /\ IF Exists(req[r].app)
       THEN /\ apps' = [apps EXCEPT ![req[r].app].stage = "SENT"]
            /\ req' = [req EXCEPT ![r].pc = "sendConversation",
                                  ![r].conv = apps[req[r].app].conversation,
                                  ![r].listing = apps[req[r].app].listing]
       ELSE End(r) /\ UNCHANGED apps
    /\ UNCHANGED <<listed, convs, retired, crossed, broken>>

SendStageAlone(r) ==
    /\ req[r].pc = "sendStage"
    /\ IF Exists(req[r].app) /\ apps[req[r].app].stage = "NOT_SENT"
       THEN apps' = [apps EXCEPT ![req[r].app].stage = "SENT"]
       ELSE UNCHANGED apps
    /\ End(r)
    /\ UNCHANGED <<listed, convs, retired, crossed, broken>>

SendToApplicants(r) ==
    /\ req[r].pc = "sendConversation"
    /\ apps' = [apps EXCEPT ![req[r].app].applicants =
                   @ \cup {LandlordOf[req[r].listing]}]
    /\ End(r)
    /\ UNCHANGED <<listed, convs, retired, crossed, broken>>

----------------------------------------------------------------------------
(* POST /application/create : ApplicationService.create                    *)

CreateReadListing(r, s, l) ==
    /\ l \in listed
    /\ \E a \in FreshApps, c \in FreshConvs :
          Begin(r, [Idle EXCEPT !.pc = "createFind", !.user = s,
                                !.app = a, !.conv = c, !.listing = l])
    /\ UNCHANGED <<listed, apps, convs, retired, crossed, broken>>

\* An application that exists is returned; a student without the documents
\* the listing requires is refused.
CreateFind(r) ==
    /\ req[r].pc = "createFind"
    /\ \/ End(r)
       \/ /\ Holder(req[r].listing, req[r].user) = {}
          /\ Goto(r, "createConversation")
    /\ UNCHANGED <<listed, apps, convs, retired, crossed, broken>>

CreateConversation(r) ==
    /\ req[r].pc = "createConversation"
    /\ convs' = [convs EXCEPT ![req[r].conv] = {req[r].user}]
    /\ Goto(r, "createApplication")
    /\ UNCHANGED <<listed, apps, retired, crossed, broken>>

CreateApplication(r) ==
    /\ req[r].pc = "createApplication"
    /\ IF Holder(req[r].listing, req[r].user) = {}
       THEN /\ apps' = [apps EXCEPT ![req[r].app] =
                 [listing |-> req[r].listing, owner |-> req[r].user,
                  conversation |-> req[r].conv, applicants |-> {req[r].user},
                  stage |-> "NOT_SENT", invite |-> 0, inviteLive |-> FALSE]]
            /\ End(r)
       ELSE Goto(r, "createDropLoser") /\ UNCHANGED apps
    /\ UNCHANGED <<listed, convs, retired, crossed, broken>>

\* The insert fails for another reason than the unique index.
CreateFails(r) ==
    /\ req[r].pc = "createApplication"
    /\ Goto(r, "createDiscard")
    /\ UNCHANGED <<listed, apps, convs, retired, crossed, broken>>

CreateDropLoser(r) ==
    /\ req[r].pc = "createDropLoser"
    /\ convs' = [convs EXCEPT ![req[r].conv] = Gone]
    /\ Goto(r, "createLookup")
    /\ UNCHANGED <<listed, apps, retired, crossed, broken>>

\* The winner is returned, unless it has been deleted meanwhile.
CreateLookup(r) ==
    /\ req[r].pc = "createLookup"
    /\ IF Holder(req[r].listing, req[r].user) # {}
       THEN End(r)
       ELSE Goto(r, "createDiscard")
    /\ UNCHANGED <<listed, apps, convs, retired, crossed, broken>>

CreateDiscard(r) ==
    /\ req[r].pc = "createDiscard"
    /\ convs' = [convs EXCEPT ![req[r].conv] = Gone]
    /\ End(r)
    /\ UNCHANGED <<listed, apps, retired, crossed, broken>>

----------------------------------------------------------------------------
(* PATCH /application/:id/join : ApplicationService.join                   *)

\* The student presents an invite that was minted, the current one or not.
JoinBegin(r, s, a) ==
    /\ Exists(a)
    /\ \E t \in 1..apps[a].invite :
          Begin(r, [Idle EXCEPT !.pc = "joinRead", !.user = s, !.app = a, !.token = t])
    /\ crossed' = IF InFlight(s, Leaving) THEN crossed \cup {s} ELSE crossed
    /\ UNCHANGED <<listed, apps, convs, retired, broken>>

InviteAccepted(a, t) ==
    /\ apps[a].invite # 0
    /\ apps[a].inviteLive
    /\ apps[a].invite = t

JoinRead(r) ==
    /\ req[r].pc = "joinRead"
    /\ IF Exists(req[r].app) /\ InviteAccepted(req[r].app, req[r].token)
       THEN req' = [req EXCEPT ![r].pc = "joinApplicants",
                               ![r].conv = apps[req[r].app].conversation]
       ELSE End(r)
    /\ UNCHANGED <<listed, apps, convs, retired, crossed, broken>>

JoinApplicants(r) ==
    /\ req[r].pc = "joinApplicants"
    /\ IF Exists(req[r].app)
       THEN /\ apps' = [apps EXCEPT ![req[r].app].applicants = @ \cup {req[r].user}]
            /\ Goto(r, "joinConversation")
       ELSE End(r) /\ UNCHANGED apps
    /\ UNCHANGED <<listed, convs, retired, crossed, broken>>

JoinConversation(r) ==
    /\ req[r].pc = "joinConversation"
    /\ convs' = [convs EXCEPT ![req[r].conv] =
                    IF Open(req[r].conv) THEN @ \cup {req[r].user} ELSE @]
    /\ End(r)
    /\ UNCHANGED <<listed, apps, retired, crossed, broken>>

----------------------------------------------------------------------------
(* PATCH /application/:id/leave : ApplicantGuard, ApplicationService.leave *)

LeaveGuard(r, s, a) ==
    /\ Exists(a) /\ s \in apps[a].applicants
    /\ Begin(r, [Idle EXCEPT !.pc = "leaveRead", !.user = s, !.app = a])
    /\ crossed' = IF InFlight(s, Joining) THEN crossed \cup {s} ELSE crossed
    /\ UNCHANGED <<listed, apps, convs, retired, broken>>

\* The creator deletes the application instead.
LeaveRead(r) ==
    /\ req[r].pc = "leaveRead"
    /\ IF Exists(req[r].app) /\ apps[req[r].app].owner # req[r].user
       THEN req' = [req EXCEPT ![r].pc = "leaveApplicants",
                               ![r].conv = apps[req[r].app].conversation]
       ELSE End(r)
    /\ UNCHANGED <<listed, apps, convs, retired, crossed, broken>>

LeaveApplicants(r) ==
    /\ req[r].pc = "leaveApplicants"
    /\ IF Exists(req[r].app)
       THEN apps' = [apps EXCEPT ![req[r].app].applicants = @ \ {req[r].user}]
       ELSE UNCHANGED apps
    /\ Goto(r, "leaveConversation")
    /\ UNCHANGED <<listed, convs, retired, crossed, broken>>

LeaveConversation(r) ==
    /\ req[r].pc = "leaveConversation"
    /\ convs' = [convs EXCEPT ![req[r].conv] =
                    IF Open(req[r].conv) THEN @ \ {req[r].user} ELSE @]
    /\ End(r)
    /\ UNCHANGED <<listed, apps, retired, crossed, broken>>

----------------------------------------------------------------------------
(* PATCH /application/:id/send : ApplicationOwnerGuard, send               *)

SendGuard(r, s, a) ==
    /\ Exists(a) /\ apps[a].owner = s
    /\ Begin(r, [Idle EXCEPT !.pc = "sendStage", !.user = s, !.app = a])
    /\ UNCHANGED <<listed, apps, convs, retired, crossed, broken>>

\* findOneAndUpdate on { _id, stage: NOT_SENT }.
SendStage(r) ==
    /\ req[r].pc = "sendStage"
    /\ IF Exists(req[r].app) /\ apps[req[r].app].stage = "NOT_SENT"
       THEN /\ apps' = [apps EXCEPT ![req[r].app].stage = "SENT"]
            /\ req' = [req EXCEPT ![r].pc = "sendConversation",
                                  ![r].conv = apps[req[r].app].conversation,
                                  ![r].listing = apps[req[r].app].listing]
       ELSE End(r) /\ UNCHANGED apps
    /\ UNCHANGED <<listed, convs, retired, crossed, broken>>

SendConversation(r) ==
    /\ req[r].pc = "sendConversation"
    /\ convs' = [convs EXCEPT ![req[r].conv] =
                    IF Open(req[r].conv) THEN @ \cup {LandlordOf[req[r].listing]}
                                         ELSE @]
    /\ End(r)
    /\ UNCHANGED <<listed, apps, retired, crossed, broken>>

----------------------------------------------------------------------------
(* PATCH /application/:id/approve and /reject : OwnsAppliedListingGuard    *)

DecideReadApplication(r, w, a, v) ==
    /\ Exists(a)
    /\ Begin(r, [Idle EXCEPT !.pc = "decideListing", !.user = w, !.app = a,
                             !.listing = apps[a].listing, !.verdict = v])
    /\ UNCHANGED <<listed, apps, convs, retired, crossed, broken>>

DecideReadListing(r) ==
    /\ req[r].pc = "decideListing"
    /\ IF req[r].listing \in listed /\ LandlordOf[req[r].listing] = req[r].user
       THEN Goto(r, "decideStage")
       ELSE End(r)
    /\ UNCHANGED <<listed, apps, convs, retired, crossed, broken>>

\* updateOne by _id alone: whatever the stage is.
DecideStage(r) ==
    /\ req[r].pc = "decideStage"
    /\ IF Exists(req[r].app)
       THEN apps' = [apps EXCEPT ![req[r].app].stage = req[r].verdict]
       ELSE UNCHANGED apps
    /\ End(r)
    /\ UNCHANGED <<listed, convs, retired, crossed, broken>>

----------------------------------------------------------------------------
(* POST /application/:id/invite : ApplicationAdminGuard, createInvite      *)

IsAdmin(u, a) ==
    \/ apps[a].owner = u
    \/ LandlordOf[apps[a].listing] = u /\ apps[a].stage # "NOT_SENT"

Minting(a) ==
    Cardinality({r \in Requests : req[r].pc = "inviteRotate" /\ req[r].app = a})

InviteGuard(r, u, a) ==
    /\ Exists(a) /\ IsAdmin(u, a)
    /\ apps[a].invite + Minting(a) < MaxInvites
    /\ Begin(r, [Idle EXCEPT !.pc = "inviteRotate", !.user = u, !.app = a])
    /\ UNCHANGED <<listed, apps, convs, retired, crossed, broken>>

InviteRotate(r) ==
    /\ req[r].pc = "inviteRotate"
    /\ IF Exists(req[r].app)
       THEN apps' = [apps EXCEPT ![req[r].app].invite = @ + 1,
                                 ![req[r].app].inviteLive = TRUE]
       ELSE UNCHANGED apps
    /\ End(r)
    /\ UNCHANGED <<listed, convs, retired, crossed, broken>>

----------------------------------------------------------------------------
(* PATCH /application/:id/delete : ApplicationOwnerGuard, delete           *)

DeleteGuard(r, s, a) ==
    /\ Exists(a) /\ apps[a].owner = s
    /\ Begin(r, [Idle EXCEPT !.pc = "deleteApplication", !.user = s, !.app = a])
    /\ UNCHANGED <<listed, apps, convs, retired, crossed, broken>>

\* Only the application document goes; its conversation stays.
DeleteApplication(r) ==
    /\ req[r].pc = "deleteApplication"
    /\ IF Exists(req[r].app)
       THEN /\ apps' = [apps EXCEPT ![req[r].app] = Gone]
            /\ retired' = retired \cup {apps[req[r].app].conversation}
       ELSE UNCHANGED <<apps, retired>>
    /\ End(r)
    /\ UNCHANGED <<listed, convs, crossed, broken>>

----------------------------------------------------------------------------
(* The surroundings: time, the landlord, failing calls                     *)

InviteExpires(a) ==
    /\ Exists(a) /\ apps[a].inviteLive
    /\ apps' = [apps EXCEPT ![a].inviteLive = FALSE]
    /\ UNCHANGED <<listed, convs, req, retired, crossed, broken>>

DeleteListing(l) ==
    /\ l \in listed
    /\ listed' = listed \ {l}
    /\ UNCHANGED <<apps, convs, req, retired, crossed, broken>>

\* The process stops, or a call throws where the handler catches nothing.
RequestDies(r) ==
    /\ MayDie
    /\ req[r].pc # "idle"
    /\ End(r)
    /\ broken' = broken \cup ({req[r].user} \cap Students)
    /\ UNCHANGED <<listed, apps, convs, retired, crossed>>

BeginRequest(r) ==
    \/ \E s \in Owners, l \in Listings : CreateReadListing(r, s, l)
    \/ \E s \in Students, a \in AppIds :
          \/ JoinBegin(r, s, a)
          \/ LeaveGuard(r, s, a)
          \/ SendGuard(r, s, a)
          \/ DeleteGuard(r, s, a)
    \/ \E w \in Landlords, a \in AppIds, v \in Decisions :
          DecideReadApplication(r, w, a, v)
    \/ \E u \in Users, a \in AppIds : InviteGuard(r, u, a)

ContinueRequest(r) ==
    \/ CreateFind(r) \/ CreateConversation(r) \/ CreateApplication(r)
    \/ CreateFails(r) \/ CreateDropLoser(r) \/ CreateLookup(r) \/ CreateDiscard(r)
    \/ JoinRead(r) \/ JoinApplicants(r) \/ JoinConversation(r)
    \/ LeaveRead(r) \/ LeaveApplicants(r) \/ LeaveConversation(r)
    \/ SendStage(r) \/ SendConversation(r)
    \/ DecideReadListing(r) \/ DecideStage(r)
    \/ InviteRotate(r) \/ DeleteApplication(r)

Next ==
    \/ \E r \in Requests : BeginRequest(r) \/ ContinueRequest(r) \/ RequestDies(r)
    \/ \E a \in AppIds : InviteExpires(a)
    \/ \E l \in Listings : DeleteListing(l)

Spec == Init /\ [][Next]_vars

----------------------------------------------------------------------------
(* What the documents promise                                              *)

\* Every variable keeps to the shape of its documents: the database never
\* holds, and a request never carries, anything the schemas do not describe.
TypeOK ==
    /\ listed \subseteq Listings
    /\ apps \in [AppIds -> Application \cup {Unborn, Gone}]
    /\ convs \in [ConvIds -> (SUBSET Users) \cup {Unborn, Gone}]
    /\ req \in [Requests -> Request]
    /\ retired \subseteq ConvIds
    /\ crossed \subseteq Students
    /\ broken \subseteq Students

\* However many create requests of one student for one listing race, at most
\* one application for that pair exists (application.schema.ts, applicationKey).
OneApplicationPerKey ==
    \A a, b \in AppIds :
        (/\ Exists(a) /\ Exists(b)
         /\ apps[a].listing = apps[b].listing
         /\ apps[a].owner = apps[b].owner) => a = b

\* Dropping the chat of a create that lost the race, or that failed, never
\* takes away the chat of an application, and no two applications share one.
ConversationsIntact ==
    \A a \in AppIds : Exists(a) =>
        /\ Open(apps[a].conversation)
        /\ \A b \in AppIds \ {a} :
              Exists(b) => apps[b].conversation # apps[a].conversation

\* A chat without an application is one whose application was deleted, or
\* one that a create in flight is about to use or to drop again; only a
\* create that died half-way leaves a stray chat behind.
NoStrayConversation ==
    \A c \in ConvIds : Open(c) =>
        \/ c \in retired
        \/ \E a \in AppIds : Exists(a) /\ apps[a].conversation = c
        \/ \E r \in Requests :
              /\ req[r].conv = c
              /\ req[r].pc \in {"createApplication", "createDropLoser", "createDiscard"}
        \/ convs[c] \cap broken # {}

\* The creator is an applicant of the group and a user of its chat for as
\* long as the application exists, whatever joins and leaves are in flight.
OwnerStays ==
    \A a \in AppIds : Exists(a) =>
        /\ apps[a].owner \in apps[a].applicants
        /\ apps[a].owner \in convs[apps[a].conversation]

\* ConversationAccessService.assertCanAccess, its two queries answered by
\* one state.
HasAccess(u, c) ==
    \/ Open(c) /\ u \in convs[c]
    \/ \E a \in AppIds :
          /\ Exists(a) /\ apps[a].conversation = c
          /\ \/ u \in apps[a].applicants
             \/ u = apps[a].owner
             \/ u = LandlordOf[apps[a].listing] /\ apps[a].stage # "NOT_SENT"

\* Whoever can read the chat of an application is its creator, a student of
\* a group for which an invite was minted, or the landlord of the listing
\* once the application has left NOT_SENT: through both documents, at every
\* interleaving of join, leave, send and create.
AccessIsEarned ==
    \A a \in AppIds, u \in Users :
        Exists(a) /\ HasAccess(u, apps[a].conversation) =>
            \/ u = apps[a].owner
            \/ u \in Students /\ apps[a].invite > 0
            \/ u = LandlordOf[apps[a].listing] /\ apps[a].stage # "NOT_SENT"

\* The two documents agree on who is in the group, for every student whose
\* join and leave never overlapped and none of whose requests died: only a
\* second write still to come may separate them.
MembershipAgrees ==
    \A a \in AppIds, s \in Students \ (crossed \cup broken) :
        Exists(a) =>
            \/ (s \in apps[a].applicants <=> s \in convs[apps[a].conversation])
            \/ \E r \in Requests :
                  /\ req[r].user = s /\ req[r].app = a
                  /\ req[r].pc \in {"joinConversation", "leaveConversation"}

\* An application in stage SENT has its landlord in the chat, as soon as the
\* second write of the send is done, if no request of its creator died.
SentReachesLandlord ==
    \A a \in AppIds :
        (Exists(a) /\ apps[a].stage = "SENT" /\ apps[a].owner \notin broken) =>
            \/ LandlordOf[apps[a].listing] \in convs[apps[a].conversation]
            \/ \E r \in Requests :
                  req[r].pc = "sendConversation" /\ req[r].app = a

\* A sent application is never unsent, and a decision is never overwritten
\* by a send whose guard ran before it: send is one conditional update.
StageNeverFallsBack ==
    [][\A a \in AppIds :
          (Exists(a) /\ apps'[a] \notin {Unborn, Gone}) =>
              /\ (apps'[a].stage = "NOT_SENT" => apps[a].stage = "NOT_SENT")
              /\ (apps'[a].stage = "SENT" => apps[a].stage \in {"NOT_SENT", "SENT"})]_vars

\* The refinement: the application document of a key is its group.
GroupOf(k) ==
    LET a == CHOOSE b \in Holder(k[1], k[2]) : TRUE
    IN  IF Holder(k[1], k[2]) = {} THEN None
        ELSE [members |-> apps[a].applicants, stage |-> apps[a].stage]

Lifecycle == INSTANCE ApplicationLifecycle
    WITH group <- [k \in Listings \X Students |-> GroupOf(k)], NoGroup <- None

\* Every database call of every request is one step of the abstract life of
\* one group, or none at all.
ImplementsLifecycle == Lifecycle!Spec

----------------------------------------------------------------------------
(* What comments of the code say, and the code does not do                 *)

\* application-admin.guard.ts:13: the landlord is an admin "once the
\* application has been sent to them"; so an application leaves NOT_SENT by
\* being sent, never by a verdict.
NotSentUntilSent ==
    [][\A a \in AppIds :
          (Exists(a) /\ apps[a].stage = "NOT_SENT" /\ apps'[a] \notin {Unborn, Gone})
              => apps'[a].stage \in {"NOT_SENT", "SENT"}]_vars

=============================================================================
