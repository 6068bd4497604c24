--------------------- MODULE ApplicationMembershipProofs --------------------
(***************************************************************************)
(* Why an application and its chat agree on who takes part, and why every  *)
(* handler of ApplicationGroups is a step of ApplicationLifecycle.         *)
(*                                                                         *)
(* What a handler has read is stale when it writes.  AllInformed says what *)
(* of it is true all the same.                                             *)
(***************************************************************************)
EXTENDS ApplicationGroupsProofs

----------------------------------------------------------------------------
(* What a step does to the applications                                    *)

NewApplication(q) ==
    [listing |-> q.listing, owner |-> q.user, conversation |-> q.conv,
     applicants |-> {q.user}, stage |-> "NOT_SENT", invite |-> 0,
     inviteLive |-> FALSE]

Founded(a) ==
    /\ apps[a] = Unborn
    /\ \E r \in Requests :
          /\ req[r].pc = "createApplication" /\ req[r].app = a
          /\ Holder(req[r].listing, req[r].user) = {}
          /\ apps'[a] = NewApplication(req[r])

Removed(a) ==
    /\ Exists(a)
    /\ apps'[a] = Gone
    /\ apps[a].conversation \in retired'

SameGroup(a) ==
    /\ Exists(a) /\ Exists(a)'
    /\ apps'[a] \in Application
    /\ apps'[a].listing = apps[a].listing
    /\ apps'[a].owner = apps[a].owner
    /\ apps'[a].conversation = apps[a].conversation

SameStage(a) == apps'[a].stage = apps[a].stage
SameApplicants(a) == apps'[a].applicants = apps[a].applicants
SameInvite(a) == apps'[a].invite = apps[a].invite

Admitted(a, r) ==
    /\ req[r].pc = "joinApplicants" /\ req[r].app = a
    /\ req'[r] = [req[r] EXCEPT !.pc = "joinConversation"]
    /\ apps'[a].applicants = apps[a].applicants \cup {req[r].user}
    /\ SameStage(a) /\ SameInvite(a)

Withdrawn(a, r) ==
    /\ req[r].pc = "leaveApplicants" /\ req[r].app = a
    /\ req'[r] = [req[r] EXCEPT !.pc = "leaveConversation"]
    /\ apps'[a].applicants = apps[a].applicants \ {req[r].user}
    /\ SameStage(a) /\ SameInvite(a)

Sent(a, r) ==
    /\ req[r].pc = "sendStage" /\ req[r].app = a
    /\ req'[r] = [req[r] EXCEPT !.pc = "sendConversation",
                                !.conv = apps[a].conversation,
                                !.listing = apps[a].listing]
    /\ apps[a].stage = "NOT_SENT" /\ apps'[a].stage = "SENT"
    /\ SameApplicants(a) /\ SameInvite(a)

Decided(a) ==
    /\ apps'[a].stage \in Decisions
    /\ SameApplicants(a) /\ SameInvite(a)

Invited(a) ==
    /\ apps'[a].invite \in {apps[a].invite, apps[a].invite + 1}
    /\ SameStage(a) /\ SameApplicants(a)

\* A step writes one application document at most.
Touches(a) ==
    /\ \A b \in AppIds \ {a} : apps'[b] = apps[b]
    /\ \/ Founded(a) \/ Removed(a)
       \/ /\ SameGroup(a)
          /\ \/ \E r \in Requests : Admitted(a, r) \/ Withdrawn(a, r) \/ Sent(a, r)
             \/ Decided(a) \/ Invited(a)

AppStep == UNCHANGED apps \/ \E a \in AppIds : Touches(a)

\* Writing fields of a document that exists, with values of their types.
LEMMA Rewritten ==
    ASSUME TypeOK, NEW a \in AppIds, Exists(a), NEW new \in Application,
           apps' = [apps EXCEPT ![a] = new],
           new.listing = apps[a].listing, new.owner = apps[a].owner,
           new.conversation = apps[a].conversation
    PROVE  /\ \A b \in AppIds \ {a} : apps'[b] = apps[b]
           /\ apps'[a] = new /\ SameGroup(a)
<1>1. apps'[a] = new /\ \A b \in AppIds \ {a} : apps'[b] = apps[b]
  BY DEF TypeOK
<1>2. Exists(a)'
  BY <1>1, AbsenceAssumption DEF Exists
<1> QED
  BY <1>1, <1>2 DEF SameGroup

LEMMA StepTouches == Owned /\ [Next]_vars => AppStep
<1> SUFFICES ASSUME Owned, [Next]_vars PROVE AppStep
  OBVIOUS
<1>0. /\ TypeOK /\ req \in [Requests -> Request]
      /\ \A r \in Requests : Shaped(req[r])
      /\ \A a \in AppIds : Exists(a) => apps[a] \in Application
  BY OwnedTypes, ExistingIsApplication DEF Owned, Typed, TypeOK
<1>1. ASSUME NEW r \in Requests, JoinApplicants(r) PROVE AppStep
  <2> DEFINE a == req[r].app
             new == [apps[a] EXCEPT !.applicants = @ \cup {req[r].user}]
  <2>1. a \in AppIds /\ req[r].user \in Students
    BY <1>0, <1>1 DEF JoinApplicants, Shaped, OfStudents, Joining
  <2>2. CASE Exists(a)
    <3>1. new \in Application /\ new.applicants = apps[a].applicants \cup {req[r].user}
          /\ new.stage = apps[a].stage /\ new.invite = apps[a].invite
          /\ new.listing = apps[a].listing /\ new.owner = apps[a].owner
          /\ new.conversation = apps[a].conversation
      BY <1>0, <2>1, <2>2 DEF Application
    <3>2. apps' = [apps EXCEPT ![a] = new]
      BY <1>1, <2>2 DEF JoinApplicants
    <3>3. req'[r] = [req[r] EXCEPT !.pc = "joinConversation"]
      BY <1>0, <1>1, <2>2 DEF JoinApplicants, Goto
    <3>4. req[r].pc = "joinApplicants"
      BY <1>1 DEF JoinApplicants
    <3> HIDE DEF new
    <3>5. apps'[a] = new /\ SameGroup(a) /\ \A b \in AppIds \ {a} : apps'[b] = apps[b]
      BY <1>0, <2>1, <2>2, <3>1, <3>2, Rewritten
    <3>6. Admitted(a, r)
      BY <3>1, <3>3, <3>4, <3>5 DEF Admitted, SameStage, SameInvite
    <3> QED
      BY <2>1, <3>5, <3>6 DEF AppStep, Touches
  <2> QED
    BY <1>1, <2>2 DEF JoinApplicants, AppStep
<1>2. ASSUME NEW r \in Requests, LeaveApplicants(r) PROVE AppStep
  <2> DEFINE a == req[r].app
             new == [apps[a] EXCEPT !.applicants = @ \ {req[r].user}]
  <2>1. a \in AppIds
    BY <1>0, <1>2 DEF LeaveApplicants, Shaped
  <2>2. CASE Exists(a)
    <3>1. new \in Application /\ new.applicants = apps[a].applicants \ {req[r].user}
          /\ new.stage = apps[a].stage /\ new.invite = apps[a].invite
          /\ new.listing = apps[a].listing /\ new.owner = apps[a].owner
          /\ new.conversation = apps[a].conversation
      BY <1>0, <2>1, <2>2 DEF Application
    <3>2. apps' = [apps EXCEPT ![a] = new]
      BY <1>2, <2>2 DEF LeaveApplicants
    <3>3. req'[r] = [req[r] EXCEPT !.pc = "leaveConversation"]
      BY <1>0, <1>2, <2>2 DEF LeaveApplicants, Goto
    <3>4. req[r].pc = "leaveApplicants"
      BY <1>2 DEF LeaveApplicants
    <3> HIDE DEF new
    <3>5. apps'[a] = new /\ SameGroup(a) /\ \A b \in AppIds \ {a} : apps'[b] = apps[b]
      BY <1>0, <2>1, <2>2, <3>1, <3>2, Rewritten
    <3>6. Withdrawn(a, r)
      BY <3>1, <3>3, <3>4, <3>5 DEF Withdrawn, SameStage, SameInvite
    <3> QED
      BY <2>1, <3>5, <3>6 DEF AppStep, Touches
  <2> QED
    BY <1>2, <2>2 DEF LeaveApplicants, AppStep
<1>3. ASSUME NEW r \in Requests, SendStage(r) PROVE AppStep
  <2> DEFINE a == req[r].app
             new == [apps[a] EXCEPT !.stage = "SENT"]
  <2>1. a \in AppIds
    BY <1>0, <1>3 DEF SendStage, Shaped
  <2>2. CASE Exists(a) /\ apps[a].stage = "NOT_SENT"
    <3>1. new \in Application /\ new.applicants = apps[a].applicants
          /\ new.stage = "SENT" /\ new.invite = apps[a].invite
          /\ new.listing = apps[a].listing /\ new.owner = apps[a].owner
          /\ new.conversation = apps[a].conversation
      BY <1>0, <2>1, <2>2 DEF Application, Stages
    <3>2. apps' = [apps EXCEPT ![a] = new]
      BY <1>3, <2>2 DEF SendStage
    <3>3. req'[r] = [req[r] EXCEPT !.pc = "sendConversation",
                                   !.conv = apps[a].conversation,
                                   !.listing = apps[a].listing]
      BY <1>0, <1>3, <2>2 DEF SendStage
    <3>4. req[r].pc = "sendStage"
      BY <1>3 DEF SendStage
    <3> HIDE DEF new
    <3>5. apps'[a] = new /\ SameGroup(a) /\ \A b \in AppIds \ {a} : apps'[b] = apps[b]
      BY <1>0, <2>1, <2>2, <3>1, <3>2, Rewritten
    <3>6. Sent(a, r)
      BY <2>2, <3>1, <3>3, <3>4, <3>5 DEF Sent, SameApplicants, SameInvite
    <3> QED
      BY <2>1, <3>5, <3>6 DEF AppStep, Touches
  <2> QED
    BY <1>3, <2>2 DEF SendStage, AppStep
<1>4. ASSUME NEW r \in Requests, DecideStage(r) PROVE AppStep
  <2> DEFINE a == req[r].app
             new == [apps[a] EXCEPT !.stage = req[r].verdict]
  <2>1. a \in AppIds /\ req[r].verdict \in Decisions
    BY <1>0, <1>4 DEF DecideStage, Shaped
  <2>2. CASE Exists(a)
    <3>1. new \in Application /\ new.applicants = apps[a].applicants
          /\ new.stage \in Decisions /\ new.invite = apps[a].invite
          /\ new.listing = apps[a].listing /\ new.owner = apps[a].owner
          /\ new.conversation = apps[a].conversation
      BY <1>0, <2>1, <2>2 DEF Application, Stages, Decisions
    <3>2. apps' = [apps EXCEPT ![a] = new]
      BY <1>4, <2>2 DEF DecideStage
    <3> HIDE DEF new
    <3>5. apps'[a] = new /\ SameGroup(a) /\ \A b \in AppIds \ {a} : apps'[b] = apps[b]
      BY <1>0, <2>1, <2>2, <3>1, <3>2, Rewritten
    <3>6. Decided(a)
      BY <3>1, <3>5 DEF Decided, SameApplicants, SameInvite
    <3> QED
      BY <2>1, <3>5, <3>6 DEF AppStep, Touches
  <2> QED
    BY <1>4, <2>2 DEF DecideStage, AppStep
<1>5. ASSUME NEW r \in Requests, InviteRotate(r) PROVE AppStep
  <2> DEFINE a == req[r].app
             new == [apps[a] EXCEPT !.invite = @ + 1, !.inviteLive = TRUE]
  <2>1. a \in AppIds
    BY <1>0, <1>5 DEF InviteRotate, Shaped
  <2>2. CASE Exists(a)
    <3>1. new \in Application /\ new.applicants = apps[a].applicants
          /\ new.stage = apps[a].stage /\ new.invite = apps[a].invite + 1
          /\ new.listing = apps[a].listing /\ new.owner = apps[a].owner
          /\ new.conversation = apps[a].conversation
      <4>1. apps[a] \in Application /\ apps[a].invite + 1 \in Nat
        BY <1>0, <2>1, <2>2 DEF Application
      <4> QED
        BY <4>1 DEF Application
    <3>2. apps' = [apps EXCEPT ![a] = new]
      BY <1>5, <2>2 DEF InviteRotate
    <3> HIDE DEF new
    <3>5. apps'[a] = new /\ SameGroup(a) /\ \A b \in AppIds \ {a} : apps'[b] = apps[b]
      BY <1>0, <2>1, <2>2, <3>1, <3>2, Rewritten
    <3>6. Invited(a)
      BY <3>1, <3>5 DEF Invited, SameApplicants, SameStage
    <3> QED
      BY <2>1, <3>5, <3>6 DEF AppStep, Touches
  <2> QED
    BY <1>5, <2>2 DEF InviteRotate, AppStep
<1>6. ASSUME NEW a \in AppIds, InviteExpires(a) PROVE AppStep
  <2> DEFINE new == [apps[a] EXCEPT !.inviteLive = FALSE]
  <2>1. Exists(a) /\ apps' = [apps EXCEPT ![a] = new]
    BY <1>6 DEF InviteExpires
  <2>2. new \in Application /\ new.applicants = apps[a].applicants
        /\ new.stage = apps[a].stage /\ new.invite = apps[a].invite
        /\ new.listing = apps[a].listing /\ new.owner = apps[a].owner
        /\ new.conversation = apps[a].conversation
    BY <1>0, <2>1 DEF Application
  <2> HIDE DEF new
  <2>5. apps'[a] = new /\ SameGroup(a) /\ \A b \in AppIds \ {a} : apps'[b] = apps[b]
    BY <1>0, <2>1, <2>2, Rewritten
  <2>6. Invited(a)
    BY <2>2, <2>5 DEF Invited, SameApplicants, SameStage
  <2> QED
    BY <2>5, <2>6 DEF AppStep, Touches
<1>7. ASSUME NEW r \in Requests, DeleteApplication(r) PROVE AppStep
  <2> DEFINE a == req[r].app
  <2>1. a \in AppIds
    BY <1>0, <1>7 DEF DeleteApplication, Shaped
  <2>2. CASE Exists(a)
    <3>1. apps'[a] = Gone /\ \A b \in AppIds \ {a} : apps'[b] = apps[b]
      BY <1>0, <1>7, <2>1, <2>2 DEF DeleteApplication, TypeOK
    <3>2. Removed(a)
      BY <1>7, <2>2, <3>1 DEF DeleteApplication, Removed
    <3> QED
      BY <2>1, <3>1, <3>2 DEF AppStep, Touches
  <2> QED
    BY <1>7, <2>2 DEF DeleteApplication, AppStep
<1>8. ASSUME NEW r \in Requests, CreateApplication(r) PROVE AppStep
  <2> DEFINE a == req[r].app
  <2>1. a \in AppIds /\ apps[a] = Unborn /\ req[r].pc = "createApplication"
    BY <1>0, <1>8 DEF CreateApplication, Shaped, Owned, OwnIds, Founding
  <2>2. CASE Holder(req[r].listing, req[r].user) = {}
    <3>1. apps' = [apps EXCEPT ![a] = NewApplication(req[r])]
      BY <1>8, <2>2 DEF CreateApplication, NewApplication
    <3>2. apps'[a] = NewApplication(req[r]) /\ \A b \in AppIds \ {a} : apps'[b] = apps[b]
      BY <1>0, <2>1, <3>1 DEF TypeOK
    <3>3. Founded(a)
      BY <2>1, <2>2, <3>2 DEF Founded
    <3> QED
      BY <2>1, <3>2, <3>3 DEF AppStep, Touches
  <2> QED
    BY <1>8, <2>2 DEF CreateApplication, AppStep
<1>9. ASSUME NEW r \in Requests, BeginRequest(r) PROVE AppStep
  BY <1>9 DEF BeginRequest, CreateReadListing, JoinBegin, LeaveGuard, SendGuard,
              DeleteGuard, DecideReadApplication, InviteGuard, AppStep
<1>10. ASSUME NEW r \in Requests,
              \/ CreateFind(r) \/ CreateConversation(r) \/ CreateFails(r)
              \/ CreateDropLoser(r) \/ CreateLookup(r) \/ CreateDiscard(r)
              \/ JoinRead(r) \/ JoinConversation(r) \/ LeaveRead(r)
              \/ LeaveConversation(r) \/ SendConversation(r) \/ DecideReadListing(r)
              \/ RequestDies(r)
       PROVE AppStep
  BY <1>10 DEF CreateFind, CreateConversation, CreateFails, CreateDropLoser,
               CreateLookup, CreateDiscard, JoinRead, JoinConversation, LeaveRead,
               LeaveConversation, SendConversation, DecideReadListing, RequestDies, AppStep
<1>11. CASE UNCHANGED vars \/ \E l \in Listings : DeleteListing(l)
  BY <1>11 DEF vars, DeleteListing, AppStep
<1>12. ASSUME NEW r \in Requests, ContinueRequest(r) PROVE AppStep
  BY <1>1, <1>2, <1>3, <1>4, <1>5, <1>7, <1>8, <1>10, <1>12 DEF ContinueRequest
<1> QED
  BY <1>6, <1>9, <1>10, <1>11, <1>12 DEF Next

----------------------------------------------------------------------------
(* What a handler knows of the documents it will write                     *)

Fetched == {"joinApplicants", "joinConversation", "leaveApplicants",
            "leaveConversation", "sendConversation"}

\* A handler took its application from the database, so the id is never given
\* out again; the conversation it read is the application's for as long as
\* there is one, and never another's.  Guards stay true although they are not
\* evaluated again: nobody un-mints an invite, changes an owner or unsends.
Informed(q) ==
    /\ q.pc \notin Founding \cup {"idle"} => apps[q.app] # Unborn
    /\ q.pc \in Fetched =>
          /\ Exists(q.app) \/ q.conv \in retired
          /\ \A a \in AppIds :
                Exists(a) => (a = q.app <=> apps[a].conversation = q.conv)
    /\ (q.pc \in Joining /\ Exists(q.app)) => apps[q.app].invite > 0
    /\ (q.pc \in {"leaveApplicants", "leaveConversation"} /\ Exists(q.app)) =>
          apps[q.app].owner # q.user
    /\ (q.pc \in {"sendStage", "sendConversation"} /\ Exists(q.app)) =>
          apps[q.app].owner = q.user
    /\ (q.pc = "sendConversation" /\ Exists(q.app)) =>
          apps[q.app].listing = q.listing /\ apps[q.app].stage # "NOT_SENT"

AllInformed == \A r \in Requests : Informed(req[r])

LEMMA FoundingInformed ==
    ASSUME NEW q, q.pc \in Founding \cup {"idle"}
    PROVE  Informed(q)
  BY DEF Informed, Founding, Fetched, Joining

\* Whatever the others do, what a handler knows stays true.
LEMMA InformedStays ==
    ASSUME Owned, AppStep, retired \subseteq retired',
           NEW p \in Requests, NEW q, q = req[p], Informed(q)
    PROVE  Informed(q)'
<1> DEFINE b == q.app
<1>1. CASE q.pc \in Founding \cup {"idle"}
  BY <1>1 DEF Informed, Founding, Fetched, Joining
<1>2. CASE q.pc \notin Founding \cup {"idle"}
  <2>1. b \in AppIds /\ apps[b] # Unborn /\ apps[b] \in Application \cup {Gone}
    BY <1>2, OwnedTypes DEF Informed, Shaped
  <2>2. \/ apps'[b] = apps[b]
        \/ apps'[b] = Gone /\ Exists(b) /\ apps[b].conversation \in retired'
        \/ /\ Exists(b) /\ Exists(b)'
           /\ apps'[b].listing = apps[b].listing
           /\ apps'[b].owner = apps[b].owner
           /\ apps'[b].conversation = apps[b].conversation
           /\ apps[b].invite > 0 => apps'[b].invite > 0
           /\ apps[b].stage # "NOT_SENT" => apps'[b].stage # "NOT_SENT"
    <3>1. CASE UNCHANGED apps
      BY <3>1
    <3>2. ASSUME NEW a \in AppIds, Touches(a), a # b PROVE apps'[b] = apps[b]
      BY <2>1, <3>2 DEF Touches
    <3>3. CASE Touches(b)
      <4>1. ~Founded(b)
        BY <2>1 DEF Founded
      <4>2. CASE Removed(b)
        BY <4>2 DEF Removed
      <4>3. CASE SameGroup(b)
        <5>1. apps[b].invite \in Nat
          BY <2>1, <4>3 DEF SameGroup, Exists, Application
        <5>2. apps[b].invite > 0 => apps'[b].invite > 0
          <6>1. apps'[b].invite \in {apps[b].invite, apps[b].invite + 1}
            BY <3>3, <4>1, <4>3
               DEF Touches, Removed, SameGroup, Exists, Admitted, Withdrawn, Sent, Decided,
                   Invited, SameInvite
          <6> QED
            BY <5>1, <6>1
        <5>3. apps[b].stage # "NOT_SENT" => apps'[b].stage # "NOT_SENT"
          BY <3>3, <4>1, <4>3
             DEF Touches, Removed, SameGroup, Exists, Admitted, Withdrawn, Sent, Decided, Invited,
                 SameStage, Decisions
        <5> QED
          BY <4>3, <5>2, <5>3 DEF SameGroup
      <4> QED
        BY <3>3, <4>1, <4>2, <4>3 DEF Touches
    <3> QED
      BY <3>1, <3>2, <3>3 DEF AppStep
  <2>3. apps'[b] # Unborn
    BY <2>1, <2>2, AbsenceAssumption DEF Exists
  <2>4. Exists(b)' => Exists(b)
    BY <2>2, <2>3, AbsenceAssumption DEF Exists
  <2>5. ASSUME q.pc \in Fetched PROVE Exists(b)' \/ q.conv \in retired'
    BY <2>1, <2>2, <2>5 DEF Informed, Exists
  <2>6. ASSUME q.pc \in Fetched, NEW a \in AppIds, Exists(a)'
        PROVE  a = b <=> apps'[a].conversation = q.conv
    <3>1. CASE Exists(a)
      <4>1. apps'[a].conversation = apps[a].conversation
        <5>1. apps[a] # Unborn /\ apps'[a] # Gone
          BY <2>6, <3>1 DEF Exists
        <5> QED
          BY <5>1 DEF AppStep, Touches, Founded, Removed, SameGroup
      <4> QED
        BY <2>6, <3>1, <4>1 DEF Informed
    <3>2. CASE ~Exists(a)
      <4>1. Founded(a)
        BY <2>6, <3>2 DEF AppStep, Touches, Removed, SameGroup, Exists
      <4>2. PICK r \in Requests : /\ req[r].pc = "createApplication" /\ req[r].app = a
                                  /\ apps'[a] = NewApplication(req[r])
        BY <4>1 DEF Founded
      <4>3. r # p /\ req[r].pc \in Founding
        BY <1>2, <4>2 DEF Founding
      <4>4. q.conv # req[r].conv /\ a # b
        BY <2>1, <4>1, <4>3 DEF Owned, OwnIds, Founded
      <4> QED
        BY <4>2, <4>4 DEF NewApplication
    <3> QED
      BY <3>1, <3>2
  <2> QED
    BY <2>1, <2>2, <2>3, <2>4, <2>5, <2>6 DEF Informed, Exists
<1> QED
  BY <1>1, <1>2

LEMMA InformedBegin ==
    ASSUME Owned, NEW r \in Requests, BeginRequest(r)
    PROVE  Informed(req[r])'
<1>1. /\ req \in [Requests -> Request] /\ TypeOK
      /\ UNCHANGED <<apps, retired>>
  BY OwnedTypes DEF BeginRequest, CreateReadListing, JoinBegin, LeaveGuard, SendGuard,
                    DeleteGuard, DecideReadApplication, InviteGuard
<1>2. ASSUME NEW s \in Owners, NEW l \in Listings, CreateReadListing(r, s, l)
      PROVE  Informed(req[r])'
  BY <1>1, <1>2 DEF CreateReadListing, Begin, Idle, Informed, Founding, Fetched, Joining
<1>3. ASSUME NEW s \in Students, NEW a \in AppIds, JoinBegin(r, s, a)
      PROVE  Informed(req[r])'
  <2>1. apps[a].invite > 0 /\ Exists(a)
    BY <1>1, <1>3, ExistingIsApplication DEF JoinBegin, Application
  <2>2. req'[r].pc = "joinRead" /\ req'[r].app = a
    BY <1>1, <1>3 DEF JoinBegin, Begin, Idle
  <2> QED
    BY <1>1, <2>1, <2>2 DEF Informed, Fetched, Exists
<1>4. ASSUME NEW s \in Students, NEW a \in AppIds,
             LeaveGuard(r, s, a) \/ SendGuard(r, s, a) \/ DeleteGuard(r, s, a)
      PROVE  Informed(req[r])'
  <2>1. /\ Exists(a) /\ req'[r].app = a /\ req'[r].user = s
        /\ \/ req'[r].pc \in {"leaveRead", "deleteApplication"}
           \/ req'[r].pc = "sendStage" /\ apps[a].owner = s
    BY <1>1, <1>4 DEF LeaveGuard, SendGuard, DeleteGuard, Begin, Idle
  <2> QED
    BY <1>1, <2>1 DEF Informed, Fetched, Exists, Joining
<1>5. ASSUME NEW w \in Landlords, NEW a \in AppIds, NEW v \in Decisions,
             DecideReadApplication(r, w, a, v)
      PROVE  Informed(req[r])'
  <2>1. Exists(a) /\ req'[r].app = a /\ req'[r].pc = "decideListing"
    BY <1>1, <1>5 DEF DecideReadApplication, Begin, Idle
  <2> QED
    BY <1>1, <2>1 DEF Informed, Fetched, Exists, Joining
<1>6. ASSUME NEW u \in Users, NEW a \in AppIds, InviteGuard(r, u, a)
      PROVE  Informed(req[r])'
  <2>1. Exists(a) /\ req'[r].app = a /\ req'[r].pc = "inviteRotate"
    BY <1>1, <1>6 DEF InviteGuard, Begin, Idle
  <2> QED
    BY <1>1, <2>1 DEF Informed, Fetched, Exists, Joining
<1> QED
  BY <1>2, <1>3, <1>4, <1>5, <1>6 DEF BeginRequest

LEMMA InformedContinue ==
    ASSUME Owned, AppStep, NEW r \in Requests, Informed(req[r]), ContinueRequest(r),
           retired \subseteq retired'
    PROVE  Informed(req[r])'
<1>1. /\ req \in [Requests -> Request] /\ req[r] \in Request /\ Shaped(req[r])
      /\ apps \in [AppIds -> Application \cup {Unborn, Gone}]
  BY OwnedTypes DEF Shaped
<1>2. PICK q : q = req[r]
  OBVIOUS
<1>3. Informed(q)'
  BY <1>2, InformedStays
<1>4. CASE JoinRead(r) \/ LeaveRead(r)
  <2>1. CASE req'[r] = Idle
    BY <2>1 DEF Informed, Idle, Founding, Fetched, Joining
  <2>2. CASE req'[r] # Idle
    <3>1. /\ UNCHANGED <<apps, retired>> /\ q.app \in AppIds /\ Exists(q.app)
          /\ req'[r].app = q.app /\ req'[r].user = q.user
          /\ req'[r].conv = apps[q.app].conversation
          /\ \/ q.pc = "joinRead" /\ req'[r].pc = "joinApplicants"
             \/ /\ q.pc = "leaveRead" /\ req'[r].pc = "leaveApplicants"
                /\ apps[q.app].owner # q.user
      BY <1>1, <1>2, <1>4, <2>2 DEF JoinRead, LeaveRead, End, Request, Shaped
    <3>2. \A a \in AppIds : Exists(a) =>
              (a = q.app <=> apps[a].conversation = apps[q.app].conversation)
      BY <3>1 DEF Owned, Documents, ConversationsIntact
    <3>3. q.pc = "joinRead" => apps[q.app].invite > 0
      BY <1>2, <3>1 DEF Informed, Joining
    <3> QED
      BY <3>1, <3>2, <3>3 DEF Informed, Founding, Fetched, Joining, Exists
  <2> QED
    BY <2>1, <2>2
<1>5. CASE JoinApplicants(r) \/ LeaveApplicants(r) \/ DecideReadListing(r)
  <2>1. CASE req'[r] = Idle
    BY <2>1 DEF Informed, Idle, Founding, Fetched, Joining
  <2>2. CASE req'[r] # Idle
    <3>1. /\ req'[r].app = q.app /\ req'[r].user = q.user /\ req'[r].conv = q.conv
          /\ \/ q.pc = "joinApplicants" /\ req'[r].pc = "joinConversation"
             \/ q.pc = "leaveApplicants" /\ req'[r].pc = "leaveConversation"
             \/ q.pc = "decideListing" /\ req'[r].pc = "decideStage"
      BY <1>1, <1>2, <1>5, <2>2
         DEF JoinApplicants, LeaveApplicants, DecideReadListing, Goto, End, Request
    <3> QED
      BY <1>3, <3>1 DEF Informed, Founding, Fetched, Joining, Exists
  <2> QED
    BY <2>1, <2>2
<1>6. CASE SendStage(r)
  <2>1. CASE req'[r] = Idle
    BY <2>1 DEF Informed, Idle, Founding, Fetched, Joining
  <2>2. CASE req'[r] # Idle
    <3>1. /\ q.pc = "sendStage" /\ q.app \in AppIds /\ Exists(q.app)
          /\ apps' = [apps EXCEPT ![q.app].stage = "SENT"]
          /\ req' = [req EXCEPT ![r].pc = "sendConversation",
                                ![r].conv = apps[q.app].conversation,
                                ![r].listing = apps[q.app].listing]
      BY <1>1, <1>2, <1>6, <2>2 DEF SendStage, End, Shaped
    <3>2. /\ req'[r].pc = "sendConversation" /\ req'[r].app = q.app
          /\ req'[r].user = q.user /\ req'[r].conv = apps[q.app].conversation
          /\ req'[r].listing = apps[q.app].listing
      BY <1>1, <1>2, <3>1 DEF Request
    <3>3. /\ \A a \in AppIds \ {q.app} : apps'[a] = apps[a]
          /\ apps'[q.app] = [apps[q.app] EXCEPT !.stage = "SENT"]
      BY <1>1, <3>1
    <3>4. /\ apps'[q.app] \in Application
          /\ apps'[q.app].stage = "SENT"
          /\ apps'[q.app].conversation = apps[q.app].conversation
          /\ apps'[q.app].listing = apps[q.app].listing
          /\ apps'[q.app].owner = apps[q.app].owner
      <4>1. apps[q.app] \in Application
        BY <1>1, <3>1 DEF Exists
      <4> QED
        BY <3>3, <4>1 DEF Application, Stages
    <3>5. Exists(q.app)'
      BY <3>4, AbsenceAssumption DEF Exists
    <3>6. \A a \in AppIds : Exists(a)' => Exists(a) /\ apps'[a].conversation = apps[a].conversation
      BY <3>1, <3>3, <3>4 DEF Exists
    <3>7. \A a \in AppIds : Exists(a)' =>
              (a = q.app <=> apps'[a].conversation = apps[q.app].conversation)
      BY <3>1, <3>6 DEF Owned, Documents, ConversationsIntact
    <3>8. apps'[q.app].owner = q.user
      BY <1>2, <3>1, <3>4 DEF Informed
    <3> QED
      BY <3>2, <3>4, <3>5, <3>7, <3>8 DEF Informed, Founding, Fetched, Joining, Exists
  <2> QED
    BY <2>1, <2>2
<1>7. CASE \/ CreateFind(r) \/ CreateConversation(r) \/ CreateApplication(r) \/ CreateFails(r)
           \/ CreateDropLoser(r) \/ CreateLookup(r) \/ CreateDiscard(r)
           \/ JoinConversation(r) \/ LeaveConversation(r) \/ SendConversation(r)
           \/ DecideStage(r) \/ InviteRotate(r) \/ DeleteApplication(r)
  <2>1. req'[r].pc \in Founding \cup {"idle"}
    BY <1>1, <1>7
       DEF CreateFind, CreateConversation, CreateApplication, CreateFails, CreateDropLoser,
           CreateLookup, CreateDiscard, JoinConversation, LeaveConversation, SendConversation,
           DecideStage, InviteRotate, DeleteApplication, Goto, End, Idle, Founding, Request
  <2> QED
    BY <2>1 DEF Informed, Founding, Fetched, Joining
<1> QED
  BY <1>4, <1>5, <1>6, <1>7 DEF ContinueRequest

LEMMA HistoryGrows ==
    [Next]_vars => /\ retired \subseteq retired' /\ crossed \subseteq crossed'
                   /\ broken \subseteq broken'
<1> SUFFICES ASSUME [Next]_vars
             PROVE  /\ retired \subseteq retired' /\ crossed \subseteq crossed'
                    /\ broken \subseteq broken'
  OBVIOUS
<1> DEFINE Grows == /\ retired \subseteq retired' /\ crossed \subseteq crossed'
                    /\ broken \subseteq broken'
<1>1. ASSUME NEW r \in Requests, BeginRequest(r) PROVE Grows
  <2>1. ASSUME NEW s \in Students, NEW a \in AppIds, JoinBegin(r, s, a) \/ LeaveGuard(r, s, a)
        PROVE  Grows
    BY <2>1 DEF JoinBegin, LeaveGuard
  <2>2. CASE ~ \E s \in Students, a \in AppIds : JoinBegin(r, s, a) \/ LeaveGuard(r, s, a)
    <3>1. UNCHANGED <<retired, crossed, broken>>
      BY <1>1, <2>2 DEF BeginRequest, CreateReadListing, SendGuard,
                DeleteGuard, DecideReadApplication, InviteGuard
    <3> QED
      BY <3>1
  <2> QED
    BY <2>1, <2>2
<1>2. ASSUME NEW r \in Requests, ContinueRequest(r), ~DeleteApplication(r)
      PROVE  UNCHANGED <<retired, crossed, broken>>
  BY <1>2 DEF ContinueRequest, CreateFind, CreateConversation, CreateApplication,
       CreateFails, CreateDropLoser, CreateLookup, CreateDiscard, JoinRead,
       JoinApplicants, JoinConversation, LeaveRead, LeaveApplicants,
       LeaveConversation, SendStage, SendConversation, DecideReadListing, DecideStage,
       InviteRotate
<1>3. ASSUME NEW r \in Requests, DeleteApplication(r) PROVE Grows
  BY <1>3 DEF DeleteApplication
<1>4. ASSUME NEW r \in Requests, RequestDies(r) PROVE Grows
  BY <1>4 DEF RequestDies
<1>5. ASSUME NEW a \in AppIds, InviteExpires(a) PROVE UNCHANGED <<retired, crossed, broken>>
  BY <1>5 DEF InviteExpires
<1>6. CASE UNCHANGED vars \/ \E l \in Listings : DeleteListing(l)
  BY <1>6 DEF vars, DeleteListing
<1> QED
  BY <1>1, <1>2, <1>3, <1>4, <1>5, <1>6 DEF Next

\* One request moves at a time, and by an action of its own.
LEMMA OneMoves ==
    ASSUME Typed, [Next]_vars, NEW p \in Requests, req'[p] # req[p]
    PROVE  /\ \A q \in Requests \ {p} : req'[q] = req[q]
           /\ BeginRequest(p) \/ ContinueRequest(p) \/ RequestDies(p)
           /\ BeginRequest(p) => req[p].pc = "idle"
<1>1. req \in [Requests -> Request]
  BY DEF Typed, TypeOK
<1>2. ASSUME NEW r \in Requests, BeginRequest(r)
      PROVE  req[r].pc = "idle" /\ \A q \in Requests \ {r} : req'[q] = req[q]
  BY <1>1, <1>2 DEF BeginRequest, CreateReadListing, JoinBegin, LeaveGuard, SendGuard,
       DeleteGuard, DecideReadApplication, InviteGuard, Begin
<1>3. ASSUME NEW r \in Requests, ContinueRequest(r) \/ RequestDies(r)
      PROVE  req[r].pc # "idle" /\ \A q \in Requests \ {r} : req'[q] = req[q]
  BY <1>1, <1>3 DEF ContinueRequest, CreateFind,
       CreateConversation, CreateApplication, CreateFails, CreateDropLoser, CreateLookup,
       CreateDiscard, JoinRead, JoinApplicants, JoinConversation, LeaveRead, LeaveApplicants,
       LeaveConversation, SendStage, SendConversation, DecideReadListing, DecideStage,
       InviteRotate, DeleteApplication, RequestDies, Goto, End
<1>4. ~ UNCHANGED vars /\ ~ (\E a \in AppIds : InviteExpires(a))
        /\ ~ (\E l \in Listings : DeleteListing(l))
  BY DEF vars, InviteExpires, DeleteListing
<1> QED
  BY <1>2, <1>3, <1>4 DEF Next

LEMMA InformedNext == Owned /\ AllInformed /\ [Next]_vars => AllInformed'
<1> SUFFICES ASSUME Owned, AllInformed, [Next]_vars PROVE AllInformed'
  OBVIOUS
<1>1. AppStep /\ req \in [Requests -> Request]
  <2>1. AppStep
    BY StepTouches
  <2> QED
    BY <2>1 DEF Owned, Typed, TypeOK
<1>2. retired \subseteq retired'
  BY HistoryGrows
<1>3. ASSUME NEW p \in Requests, req'[p] = req[p] PROVE Informed(req[p])'
  <2>1. PICK q : q = req[p]
    OBVIOUS
  <2>2. Informed(q)'
    BY <1>1, <1>2, <2>1, InformedStays DEF AllInformed
  <2> QED
    BY <1>3, <2>1, <2>2 DEF Informed
<1>4. ASSUME NEW r \in Requests, req'[r] # req[r] PROVE Informed(req[r])'
  <2>1. CASE BeginRequest(r)
    BY <2>1, InformedBegin
  <2>2. CASE ContinueRequest(r)
    BY <1>1, <1>2, <2>2, InformedContinue DEF AllInformed
  <2>3. CASE RequestDies(r)
    <3>1. req'[r].pc = "idle"
      BY <1>1, <2>3 DEF RequestDies, End, Idle
    <3> QED
      BY <3>1 DEF Informed, Founding, Fetched, Joining
  <2> QED
    BY <1>4, <2>1, <2>2, <2>3, OneMoves DEF Owned
<1> QED
  BY <1>3, <1>4 DEF AllInformed

LEMMA AlwaysInformed == Spec => [](Owned /\ AllInformed)
<1>1. Init => AllInformed
  BY FoundingInformed DEF Init, AllInformed, Idle, Founding, Informed, Fetched, Joining
<1> QED
  BY <1>1, OwnedInit, OwnedNext, InformedNext, PTL DEF Spec

----------------------------------------------------------------------------
(* The stage of an application                                             *)

\* No interleaving of sends and decisions unsends an application, or turns a
\* decision back into a pending one.
THEOREM StageForward == Spec => StageNeverFallsBack
<1>1. Owned /\ [Next]_vars =>
        [\A a \in AppIds :
            (Exists(a) /\ apps'[a] \notin {Unborn, Gone}) =>
              /\ (apps'[a].stage = "NOT_SENT" => apps[a].stage = "NOT_SENT")
              /\ (apps'[a].stage = "SENT" => apps[a].stage \in {"NOT_SENT", "SENT"})]_vars
  <2> SUFFICES ASSUME Owned, [Next]_vars, NEW a \in AppIds,
                      Exists(a), apps'[a] \notin {Unborn, Gone}
               PROVE  /\ apps'[a].stage = "NOT_SENT" => apps[a].stage = "NOT_SENT"
                      /\ apps'[a].stage = "SENT" => apps[a].stage \in {"NOT_SENT", "SENT"}
    OBVIOUS
  <2>1. \/ apps'[a] = apps[a]
        \/ \E r \in Requests : Admitted(a, r) \/ Withdrawn(a, r) \/ Sent(a, r)
        \/ Decided(a) \/ Invited(a)
    BY StepTouches DEF AppStep, Touches, Founded, Removed, Exists
  <2> QED
    BY <2>1 DEF Admitted, Withdrawn, Sent, Decided, Invited, SameStage, Decisions
<1> QED
  BY <1>1, AlwaysOwned, PTL DEF Spec, StageNeverFallsBack

----------------------------------------------------------------------------
(* The abstract life of a group                                            *)

KeyOf(a) == <<apps[a].listing, apps[a].owner>>
Group(a) == [members |-> apps[a].applicants, stage |-> apps[a].stage]

\* One application holds a key, so that the CHOOSE of GroupOf has no choice.
GroupsRead ==
    /\ \A a \in AppIds : Exists(a) => GroupOf(KeyOf(a)) = Group(a)
    /\ \A k \in Listings \X Students :
          (\A a \in AppIds : Exists(a) => KeyOf(a) # k) => GroupOf(k) = None

LEMMA GroupIs == OneApplicationPerKey => GroupsRead
<1> SUFFICES ASSUME OneApplicationPerKey PROVE GroupsRead
  OBVIOUS
<1>1. ASSUME NEW a \in AppIds, Exists(a) PROVE GroupOf(KeyOf(a)) = Group(a)
  <2> DEFINE H == Holder(apps[a].listing, apps[a].owner)
  <2>1. H = {a}
    BY <1>1 DEF OneApplicationPerKey, Holder
  <2>2. (CHOOSE b \in H : TRUE) = a
    BY <2>1
  <2> HIDE DEF H
  <2>3. KeyOf(a)[1] = apps[a].listing /\ KeyOf(a)[2] = apps[a].owner
    BY DEF KeyOf
  <2> QED
    BY <2>1, <2>2, <2>3 DEF GroupOf, Group, H
<1>2. ASSUME NEW k \in Listings \X Students, \A a \in AppIds : Exists(a) => KeyOf(a) # k
      PROVE  GroupOf(k) = None
  <2>1. k = <<k[1], k[2]>>
    OBVIOUS
  <2>2. Holder(k[1], k[2]) = {}
    BY <1>2, <2>1 DEF Holder, KeyOf
  <2> QED
    BY <2>2 DEF GroupOf
<1> QED
  BY <1>1, <1>2 DEF GroupsRead

LEMMA GroupWillBe == OneApplicationPerKey' => GroupsRead'
  BY GroupIs, PTL

\* A step that writes the document of one key leaves the other groups alone.
LEMMA OtherGroups ==
    ASSUME GroupsRead, GroupsRead', NEW a \in AppIds,
           \A b \in AppIds \ {a} : apps'[b] = apps[b],
           NEW k \in Listings \X Students,
           Exists(a) => KeyOf(a) # k, Exists(a)' => KeyOf(a)' # k
    PROVE  GroupOf(k)' = GroupOf(k)
<1>1. CASE \E b \in AppIds : Exists(b) /\ KeyOf(b) = k
  <2>1. PICK b \in AppIds : Exists(b) /\ KeyOf(b) = k
    BY <1>1
  <2>2. b # a /\ apps'[b] = apps[b]
    BY <2>1
  <2>3. Exists(b)' /\ KeyOf(b)' = k /\ Group(b)' = Group(b)
    BY <2>1, <2>2 DEF Exists, KeyOf, Group
  <2>4. GroupOf(k) = Group(b)
    BY <2>1 DEF GroupsRead
  <2>5. GroupOf(KeyOf(b))' = Group(b)'
    BY <2>3 DEF GroupsRead
  <2>6. GroupOf(KeyOf(b))' = GroupOf(k)'
    BY <2>3 DEF GroupOf, Holder, Exists
  <2> QED
    BY <2>3, <2>4, <2>5, <2>6
<1>2. CASE \A b \in AppIds : Exists(b) => KeyOf(b) # k
  <2>1. \A b \in AppIds : Exists(b)' => KeyOf(b)' # k
    BY <1>2 DEF Exists, KeyOf
  <2> QED
    BY <1>2, <2>1 DEF GroupsRead
<1> QED
  BY <1>1, <1>2

groups == [k \in Listings \X Students |-> GroupOf(k)]

\* Writing one document writes one group: the abstract variable changes at
\* the key of the document alone.
LEMMA OneGroup ==
    ASSUME GroupsRead, GroupsRead', NEW a \in AppIds,
           \A b \in AppIds \ {a} : apps'[b] = apps[b],
           NEW k \in Listings \X Students,
           Exists(a) => KeyOf(a) = k, Exists(a)' => KeyOf(a)' = k
    PROVE  groups' = [groups EXCEPT ![k] = GroupOf(k)']
<1>1. \A j \in Listings \X Students : j # k => GroupOf(j)' = GroupOf(j)
  BY OtherGroups
<1> QED
  BY <1>1 DEF groups

LEMMA ChangedGroup ==
    ASSUME Owned, Owned', GroupsRead, GroupsRead', NEW a \in AppIds, SameGroup(a),
           \A b \in AppIds \ {a} : apps'[b] = apps[b]
    PROVE  /\ KeyOf(a) \in Listings \X Students /\ KeyOf(a)[2] = apps[a].owner
           /\ groups[KeyOf(a)] = Group(a) /\ groups[KeyOf(a)] # None
           /\ groups' = [groups EXCEPT ![KeyOf(a)] = Group(a)']
<1>1. apps[a] \in Application /\ Exists(a) /\ Exists(a)' /\ KeyOf(a)' = KeyOf(a)
  BY ExistingIsApplication DEF SameGroup, Owned, Typed, KeyOf
<1>2. KeyOf(a) \in Listings \X Students /\ KeyOf(a)[2] = apps[a].owner
  BY <1>1 DEF KeyOf, Application
<1>3. GroupOf(KeyOf(a)) = Group(a) /\ GroupOf(KeyOf(a))' = Group(a)'
  BY <1>1 DEF GroupsRead
<1>4. Group(a) \in [members : SUBSET Students, stage : Stages]
  BY <1>1 DEF Group, Application
<1>5. PICK k \in Listings \X Students : k = KeyOf(a)
  BY <1>2
<1>6. GroupOf(k)' = GroupOf(KeyOf(a))'
  BY <1>1, <1>5 DEF GroupOf, Holder, Exists
<1>7. groups' = [groups EXCEPT ![k] = GroupOf(k)']
  BY <1>1, <1>5, OneGroup
<1> QED
  BY <1>2, <1>3, <1>4, <1>5, <1>6, <1>7, AbsenceAssumption DEF groups

LEMMA TouchMaps ==
    ASSUME Owned, Owned', AllInformed, NEW a \in AppIds, Touches(a)
    PROVE  [Lifecycle!Next]_groups
<1>1. GroupsRead /\ GroupsRead'
  BY GroupIs, GroupWillBe DEF Owned, Documents
<1>2. \A b \in AppIds \ {a} : apps'[b] = apps[b]
  BY DEF Touches
<1>3. CASE Founded(a)
  <2>1. PICK r \in Requests : /\ req[r].pc = "createApplication"
                              /\ Holder(req[r].listing, req[r].user) = {}
                              /\ apps'[a] = NewApplication(req[r])
    BY <1>3 DEF Founded
  <2>2. PICK k : k = <<req[r].listing, req[r].user>>
    OBVIOUS
  <2>3. req[r].listing \in Listings /\ req[r].user \in Students
    BY <2>1, OwnedTypes DEF Shaped, WithListing, OfStudents, Founding
  <2>4. k \in Listings \X Students
    BY <2>2, <2>3
  <2>5. ~Exists(a) /\ KeyOf(a)' = k /\ Group(a)' = [members |-> {k[2]}, stage |-> "NOT_SENT"]
    BY <1>3, <2>1, <2>2 DEF Founded, Exists, KeyOf, Group, NewApplication
  <2>6. NewApplication(req[r]) \in Application
    BY <2>1, <2>3, OwnedTypes DEF NewApplication, Application, Stages, Shaped,
          WithConversation, Founding
  <2>7. Exists(a)'
    BY <2>1, <2>6, AbsenceAssumption DEF Exists
  <2>8. GroupOf(k) = None
    <3>1. \A b \in AppIds : Exists(b) => KeyOf(b) # k
      BY <2>1, <2>2 DEF Holder, KeyOf
    <3> QED
      BY <1>1, <2>4, <3>1 DEF GroupsRead
  <2>9. GroupOf(k)' = Group(a)'
    <3>1. GroupOf(KeyOf(a))' = Group(a)'
      BY <1>1, <2>7 DEF GroupsRead
    <3>2. GroupOf(KeyOf(a))' = GroupOf(k)'
      BY <2>5 DEF GroupOf, Holder, Exists
    <3> QED
      BY <3>1, <3>2
  <2>10. groups' = [groups EXCEPT ![k] = GroupOf(k)'] /\ groups[k] = None
    BY <1>1, <1>2, <2>4, <2>5, <2>8, OneGroup DEF groups
  <2>11. Lifecycle!Found(k)
    BY <2>5, <2>9, <2>10 DEF Lifecycle!Found, groups
  <2> QED
    BY <2>4, <2>11 DEF Lifecycle!Next, Lifecycle!Keys
<1>4. CASE Removed(a)
  <2>1. PICK k : k = KeyOf(a)
    OBVIOUS
  <2>2. apps[a] \in Application /\ Exists(a) /\ ~Exists(a)'
    BY <1>4, ExistingIsApplication DEF Removed, Owned, Typed, Exists
  <2>3. k \in Listings \X Students
    BY <2>1, <2>2 DEF KeyOf, Application
  <2>4. groups[k] = Group(a)
    BY <1>1, <2>1, <2>2, <2>3 DEF GroupsRead, groups
  <2>5. Group(a) \in [members : SUBSET Students, stage : Stages]
    BY <2>2 DEF Group, Application
  <2>6. \A b \in AppIds : Exists(b)' => KeyOf(b)' # k
    <3> SUFFICES ASSUME NEW b \in AppIds, Exists(b)' PROVE KeyOf(b)' # k
      OBVIOUS
    <3>1. b # a /\ apps'[b] = apps[b] /\ Exists(b)
      BY <1>2, <2>2 DEF Exists
    <3>2. KeyOf(b)' = KeyOf(b)
      BY <3>1 DEF KeyOf
    <3> QED
      BY <2>1, <2>2, <3>1, <3>2 DEF KeyOf, Owned, Documents, OneApplicationPerKey
  <2>7. GroupOf(k)' = None
    BY <1>1, <2>3, <2>6 DEF GroupsRead
  <2>8. groups' = [groups EXCEPT ![k] = GroupOf(k)']
    BY <1>1, <1>2, <2>1, <2>2, <2>3, OneGroup
  <2>9. Lifecycle!Disband(k)
    BY <2>4, <2>5, <2>7, <2>8, AbsenceAssumption DEF Lifecycle!Disband, groups
  <2> QED
    BY <2>3, <2>9 DEF Lifecycle!Next, Lifecycle!Keys
<1>5. CASE SameGroup(a)
  <2>1. PICK k : k = KeyOf(a)
    OBVIOUS
  <2>2. /\ k \in Listings \X Students /\ k[2] = apps[a].owner
        /\ groups[k] = Group(a) /\ groups[k] # None
        /\ groups' = [groups EXCEPT ![k] = Group(a)']
    BY <1>1, <1>2, <1>5, <2>1, ChangedGroup
  <2>3. ASSUME NEW r \in Requests, Admitted(a, r) PROVE Lifecycle!Next
    <3>1. PICK s \in Students : s = req[r].user
      BY <2>3, OwnedTypes DEF Admitted, Shaped, OfStudents, Joining
    <3>2. Group(a)' = [Group(a) EXCEPT !.members = @ \cup {s}]
      BY <2>3, <3>1 DEF Group, Admitted, SameStage
    <3>3. groups' = [groups EXCEPT ![k].members = @ \cup {s}]
      BY <2>2, <3>2
    <3>4. Lifecycle!Admit(k, s)
      BY <2>2, <3>3 DEF Lifecycle!Admit, groups
    <3> QED
      BY <2>2, <3>4 DEF Lifecycle!Next, Lifecycle!Keys
  <2>4. ASSUME NEW r \in Requests, Withdrawn(a, r) PROVE Lifecycle!Next
    <3>1. PICK s \in Students : s = req[r].user
      BY <2>4, OwnedTypes DEF Withdrawn, Shaped, OfStudents, Leaving
    <3>2. s # k[2]
      BY <1>5, <2>2, <2>4, <3>1 DEF AllInformed, Informed, Withdrawn, SameGroup
    <3>3. Group(a)' = [Group(a) EXCEPT !.members = @ \ {s}]
      BY <2>4, <3>1 DEF Group, Withdrawn, SameStage
    <3>4. groups' = [groups EXCEPT ![k].members = @ \ {s}]
      BY <2>2, <3>3
    <3>5. Lifecycle!Withdraw(k, s)
      BY <2>2, <3>2, <3>4 DEF Lifecycle!Withdraw, groups
    <3> QED
      BY <2>2, <3>5 DEF Lifecycle!Next, Lifecycle!Keys
  <2>5. ASSUME NEW r \in Requests, Sent(a, r) PROVE Lifecycle!Next
    <3>1. Group(a)' = [Group(a) EXCEPT !.stage = "SENT"] /\ Group(a).stage = "NOT_SENT"
      BY <2>5 DEF Group, Sent, SameApplicants
    <3>2. groups' = [groups EXCEPT ![k].stage = "SENT"]
      BY <2>2, <3>1
    <3>3. Lifecycle!Send(k)
      BY <2>2, <3>1, <3>2 DEF Lifecycle!Send, groups
    <3> QED
      BY <2>2, <3>3 DEF Lifecycle!Next, Lifecycle!Keys
  <2>6. CASE Decided(a)
    <3>1. PICK v \in Decisions : v = apps'[a].stage
      BY <2>6 DEF Decided
    <3>2. Group(a)' = [Group(a) EXCEPT !.stage = v]
      BY <2>6, <3>1 DEF Group, Decided, SameApplicants
    <3>3. groups' = [groups EXCEPT ![k].stage = v]
      BY <2>2, <3>2
    <3>4. Lifecycle!Decide(k, v)
      BY <2>2, <3>3 DEF Lifecycle!Decide, groups
    <3> QED
      BY <2>2, <3>4 DEF Lifecycle!Next, Lifecycle!Keys, Lifecycle!Decisions, Decisions
  <2>7. CASE Invited(a)
    <3>1. Group(a)' = Group(a)
      BY <2>7 DEF Group, Invited, SameStage, SameApplicants
    <3>2. groups' = groups
      BY <2>2, <3>1 DEF groups
    <3> QED
      BY <3>2
  <2>8. ~Founded(a) /\ ~Removed(a)
    BY <1>5 DEF SameGroup, Founded, Removed, Exists
  <2> QED
    BY <2>3, <2>4, <2>5, <2>6, <2>7, <2>8 DEF Touches
<1> QED
  BY <1>3, <1>4, <1>5 DEF Touches

\* Every database call is a step of the life of one group, or of none: what
\* the interleaved handlers do to the documents is what the abstract
\* specification allows.
THEOREM LifecycleImplemented == Spec => ImplementsLifecycle
<1>1. Init => Lifecycle!Init
  <2> SUFFICES ASSUME Init PROVE Lifecycle!Init
    OBVIOUS
  <2>1. \A a \in AppIds : ~Exists(a)
    BY DEF Init, Exists
  <2>2. OneApplicationPerKey
    BY <2>1 DEF OneApplicationPerKey
  <2>3. \A k \in Listings \X Students : GroupOf(k) = None
    BY <2>1, <2>2, GroupIs DEF GroupsRead
  <2> QED
    BY <2>3 DEF Lifecycle!Init, Lifecycle!Keys
<1>2. Owned /\ Owned' /\ AllInformed /\ [Next]_vars => [Lifecycle!Next]_groups
  <2> SUFFICES ASSUME Owned, Owned', AllInformed, [Next]_vars
               PROVE  [Lifecycle!Next]_groups
    OBVIOUS
  <2>1. CASE UNCHANGED apps
    <3>1. groups' = groups
      BY <2>1 DEF groups, GroupOf, Holder, Exists
    <3> QED
      BY <3>1
  <2>2. CASE \E a \in AppIds : Touches(a)
    BY <2>2, TouchMaps
  <2> QED
    BY <2>1, <2>2, StepTouches DEF AppStep
<1> QED
  BY <1>1, <1>2, AlwaysInformed, PTL DEF Spec, ImplementsLifecycle, Lifecycle!Spec, groups

----------------------------------------------------------------------------
(* What a step does to the chats                                           *)

Moves(r, pc) == req[r].pc = pc /\ req[r].conv \in ConvIds
Grown(c, u) == IF Open(c) THEN convs[c] \cup {u} ELSE convs[c]
Shrunk(c, u) == IF Open(c) THEN convs[c] \ {u} ELSE convs[c]

\* What request r makes of its chat.
Writes(r, users) ==
    \/ Moves(r, "createConversation") /\ users = {req[r].user}
         /\ req'[r] = [req[r] EXCEPT !.pc = "createApplication"]
    \/ Moves(r, "createDropLoser") /\ users = Gone
         /\ req'[r] = [req[r] EXCEPT !.pc = "createLookup"]
    \/ Moves(r, "createDiscard") /\ users = Gone /\ req'[r] = Idle
    \/ Moves(r, "joinConversation") /\ users = Grown(req[r].conv, req[r].user)
         /\ req'[r] = Idle
    \/ Moves(r, "leaveConversation") /\ users = Shrunk(req[r].conv, req[r].user)
         /\ req'[r] = Idle
    \/ Moves(r, "sendConversation")
         /\ users = Grown(req[r].conv, LandlordOf[req[r].listing])
         /\ req'[r] = Idle

\* A step that writes a chat writes that of its request, and nothing else.
ChatStep(r) ==
    /\ Writes(r, convs'[req[r].conv])
    /\ \A d \in ConvIds \ {req[r].conv} : convs'[d] = convs[d]
    /\ \A p \in Requests \ {r} : req'[p] = req[p]
    /\ UNCHANGED <<apps, retired, crossed, broken>>

LEMMA ChatStepOf ==
    ASSUME Owned, NEW r \in Requests,
           \/ CreateConversation(r) \/ CreateDropLoser(r) \/ CreateDiscard(r)
           \/ JoinConversation(r) \/ LeaveConversation(r) \/ SendConversation(r)
    PROVE  ChatStep(r)
<1>1. /\ req \in [Requests -> Request] /\ req[r] \in Request
      /\ convs \in [ConvIds -> (SUBSET Users) \cup {Unborn, Gone}]
      /\ req[r].conv \in ConvIds
  <2>1. req[r].pc \in WithConversation
    BY DEF CreateConversation, CreateDropLoser, CreateDiscard, JoinConversation,
           LeaveConversation, SendConversation, WithConversation, Founding
  <2> QED
    BY <2>1, OwnedTypes DEF Shaped
<1>2. UNCHANGED <<apps, retired, crossed, broken>>
  BY DEF CreateConversation, CreateDropLoser, CreateDiscard, JoinConversation,
         LeaveConversation, SendConversation
<1>3. \A p \in Requests \ {r} : req'[p] = req[p]
  BY <1>1 DEF CreateConversation, CreateDropLoser, CreateDiscard, JoinConversation,
         LeaveConversation, SendConversation, Goto, End
<1>4. \A d \in ConvIds \ {req[r].conv} : convs'[d] = convs[d]
  BY <1>1 DEF CreateConversation, CreateDropLoser, CreateDiscard, JoinConversation,
         LeaveConversation, SendConversation
<1>5. Writes(r, convs'[req[r].conv])
  BY <1>1 DEF CreateConversation, CreateDropLoser, CreateDiscard, JoinConversation,
         LeaveConversation, SendConversation, Goto, End, Writes, Moves, Grown, Shrunk
<1> QED
  BY <1>2, <1>3, <1>4, <1>5 DEF ChatStep

LEMMA StepChats ==
    Owned /\ [Next]_vars => UNCHANGED convs \/ \E r \in Requests : ChatStep(r)
<1> SUFFICES ASSUME Owned, [Next]_vars
             PROVE  UNCHANGED convs \/ \E r \in Requests : ChatStep(r)
  OBVIOUS
<1>1. ASSUME NEW r \in Requests, BeginRequest(r) PROVE UNCHANGED convs
  BY <1>1 DEF BeginRequest, CreateReadListing, JoinBegin, LeaveGuard, SendGuard,
              DeleteGuard, DecideReadApplication, InviteGuard
<1>2. ASSUME NEW r \in Requests, ContinueRequest(r) PROVE UNCHANGED convs \/ ChatStep(r)
  BY <1>2, ChatStepOf
     DEF ContinueRequest, CreateFind, CreateApplication, CreateFails, CreateLookup, JoinRead,
         JoinApplicants, LeaveRead, LeaveApplicants, SendStage, DecideReadListing, DecideStage,
         InviteRotate, DeleteApplication
<1>3. CASE \/ \E r \in Requests : RequestDies(r)
           \/ \E a \in AppIds : InviteExpires(a)
           \/ \E l \in Listings : DeleteListing(l)
           \/ UNCHANGED vars
  BY <1>3 DEF RequestDies, InviteExpires, DeleteListing, vars
<1> QED
  BY <1>1, <1>2, <1>3 DEF Next

\* The chat of an application is written by those who know it, and by no
\* create.
LEMMA WriterKnows ==
    ASSUME Owned, AllInformed, NEW r \in Requests, ChatStep(r), NEW a \in AppIds, Exists(a),
           apps[a].conversation = req[r].conv
    PROVE  req[r].pc \in Fetched /\ req[r].app = a /\ Open(req[r].conv)
<1>1. req[r].pc \notin Founding
  BY DEF Owned, OwnIds
<1>2. req[r].pc \in Fetched
  BY <1>1 DEF ChatStep, Writes, Moves, Founding, Fetched
<1>3. req[r].app = a
  BY <1>2 DEF AllInformed, Informed
<1>4. Open(req[r].conv)
  BY DEF Owned, Documents, ConversationsIntact
<1> QED
  BY <1>2, <1>3, <1>4

----------------------------------------------------------------------------
(* The creator stays                                                       *)

LEMMA OwnerStaysNext ==
    Owned /\ AllInformed /\ OwnerStays /\ [Next]_vars => OwnerStays'
<1> SUFFICES ASSUME Owned, AllInformed, OwnerStays, [Next]_vars, NEW a \in AppIds, Exists(a)'
             PROVE  /\ apps'[a].owner \in apps'[a].applicants
                    /\ apps'[a].owner \in convs'[apps'[a].conversation]
  BY DEF OwnerStays
<1>0. \A b \in AppIds : Exists(b) => apps[b] \in Application
  BY ExistingIsApplication DEF Owned, Typed
<1>1. ASSUME NEW r \in Requests, ChatStep(r)
      PROVE  /\ apps'[a].owner \in apps'[a].applicants
             /\ apps'[a].owner \in convs'[apps'[a].conversation]
  <2>1. Exists(a) /\ apps'[a] = apps[a]
    BY <1>1 DEF ChatStep, Exists
  <2>2. CASE apps[a].conversation # req[r].conv
    BY <1>0, <1>1, <2>1, <2>2 DEF ChatStep, OwnerStays, Application
  <2>3. CASE apps[a].conversation = req[r].conv
    <3>1. req[r].pc \in Fetched /\ req[r].app = a /\ Open(req[r].conv)
      BY <1>1, <2>1, <2>3, WriterKnows
    <3>2. req[r].pc = "leaveConversation" => req[r].user # apps[a].owner
      BY <2>1, <3>1 DEF AllInformed, Informed
    <3>3. apps[a].owner \in convs[req[r].conv]
      BY <2>1, <2>3 DEF OwnerStays
    <3>4. apps[a].owner \in convs'[req[r].conv]
      BY <1>1, <3>1, <3>2, <3>3
         DEF ChatStep, Writes, Moves, Grown, Shrunk, Fetched
    <3> QED
      BY <2>1, <2>3, <3>4 DEF OwnerStays
  <2> QED
    BY <2>2, <2>3
<1>2. ASSUME UNCHANGED convs, NEW b \in AppIds, Touches(b)
      PROVE  /\ apps'[a].owner \in apps'[a].applicants
             /\ apps'[a].owner \in convs'[apps'[a].conversation]
  <2>1. CASE a # b
    BY <1>2, <2>1 DEF Touches, OwnerStays, Exists
  <2>2. CASE a = b /\ Founded(a)
    <3>1. PICK r \in Requests : /\ req[r].pc = "createApplication" /\ req[r].app = a
                                /\ apps'[a] = NewApplication(req[r])
      BY <2>2 DEF Founded
    <3>2. convs[req[r].conv] = {req[r].user}
      BY <3>1 DEF Owned, OwnChats
    <3> QED
      BY <1>2, <3>1, <3>2 DEF NewApplication
  <2>3. CASE a = b /\ SameGroup(a)
    <3>1. apps[a].owner \in apps[a].applicants /\ apps[a].owner \in convs[apps[a].conversation]
      BY <2>3 DEF SameGroup, OwnerStays
    <3>2. \A r \in Requests : Withdrawn(a, r) => req[r].user # apps[a].owner
      BY <2>3 DEF Withdrawn, AllInformed, Informed, SameGroup
    <3>3. apps[a].owner \in apps'[a].applicants
      BY <1>2, <2>3, <3>1, <3>2
         DEF Touches, Founded, Removed, SameGroup, Exists, Admitted, Withdrawn, Sent, Decided,
             Invited, SameApplicants
    <3> QED
      BY <1>2, <2>3, <3>1, <3>3 DEF SameGroup
  <2> QED
    BY <1>2, <2>1, <2>2, <2>3 DEF Touches, Removed, Exists
<1>3. CASE UNCHANGED <<apps, convs>>
  BY <1>3 DEF OwnerStays, Exists
<1> QED
  BY <1>1, <1>2, <1>3, StepTouches, StepChats DEF AppStep

\* No interleaving of joins, leaves, sends and failing creates puts the
\* creator out of the group or of its chat.
THEOREM CreatorStays == Spec => []OwnerStays
<1>1. Init => OwnerStays
  BY DEF Init, OwnerStays, Exists
<1> QED
  BY <1>1, OwnerStaysNext, AlwaysInformed, PTL DEF Spec

----------------------------------------------------------------------------
(* Who reads the chat                                                      *)

\* AccessIsEarned looks at both documents; each keeps its half.
Earned(a) ==
    /\ \A u \in apps[a].applicants : u = apps[a].owner \/ apps[a].invite > 0
    /\ \A u \in convs[apps[a].conversation] :
          \/ u = apps[a].owner
          \/ u \in Students /\ apps[a].invite > 0
          \/ u = LandlordOf[apps[a].listing] /\ apps[a].stage # "NOT_SENT"

AllEarned == \A a \in AppIds : Exists(a) => Earned(a)

LEMMA EarnedAccess == Owned /\ AllEarned => AccessIsEarned
<1> SUFFICES ASSUME Owned, AllEarned, NEW a \in AppIds, NEW u \in Users,
                    Exists(a), HasAccess(u, apps[a].conversation)
             PROVE  \/ u = apps[a].owner
                    \/ u \in Students /\ apps[a].invite > 0
                    \/ u = LandlordOf[apps[a].listing] /\ apps[a].stage # "NOT_SENT"
  BY DEF AccessIsEarned
<1>1. Earned(a) /\ apps[a].applicants \subseteq Students
  BY ExistingIsApplication DEF AllEarned, Owned, Typed, Application
<1>2. CASE u \in convs[apps[a].conversation]
  BY <1>1, <1>2 DEF Earned
<1>3. ASSUME NEW b \in AppIds, Exists(b), apps[b].conversation = apps[a].conversation
      PROVE  b = a
  BY <1>3 DEF Owned, Documents, ConversationsIntact
<1> QED
  BY <1>1, <1>2, <1>3 DEF Earned, HasAccess

LEMMA EarnedNext ==
    Owned /\ Owned' /\ AllInformed /\ AllEarned /\ [Next]_vars => AllEarned'
<1> SUFFICES ASSUME Owned, Owned', AllInformed, AllEarned, [Next]_vars,
                    NEW a \in AppIds, Exists(a)'
             PROVE  Earned(a)'
  BY DEF AllEarned
<1>0. \A b \in AppIds : Exists(b) => apps[b] \in Application
  BY ExistingIsApplication DEF Owned, Typed
<1>1. ASSUME NEW r \in Requests, ChatStep(r) PROVE Earned(a)'
  <2>1. Exists(a) /\ apps'[a] = apps[a] /\ Earned(a)
    BY <1>1 DEF ChatStep, Exists, AllEarned
  <2>2. CASE apps[a].conversation # req[r].conv
    BY <1>0, <1>1, <2>1, <2>2 DEF ChatStep, Earned, Application
  <2>3. CASE apps[a].conversation = req[r].conv
    <3>1. req[r].pc \in Fetched /\ req[r].app = a
      BY <1>1, <2>1, <2>3, WriterKnows
    <3>2. \A u \in convs'[req[r].conv] :
              \/ u \in convs[req[r].conv]
              \/ req[r].pc = "joinConversation" /\ u = req[r].user
              \/ req[r].pc = "sendConversation" /\ u = LandlordOf[req[r].listing]
      BY <1>1, <3>1 DEF ChatStep, Writes, Moves, Grown, Shrunk, Fetched
    <3>3. req[r].pc = "joinConversation" => req[r].user \in Students /\ apps[a].invite > 0
      BY <2>1, <3>1, OwnedTypes DEF AllInformed, Informed, Shaped, OfStudents, Joining
    <3>4. req[r].pc = "sendConversation" =>
              apps[a].listing = req[r].listing /\ apps[a].stage # "NOT_SENT"
      BY <2>1, <3>1 DEF AllInformed, Informed
    <3> QED
      BY <2>1, <2>3, <3>2, <3>3, <3>4 DEF Earned
  <2> QED
    BY <2>2, <2>3
<1>2. ASSUME UNCHANGED convs, NEW b \in AppIds, Touches(b) PROVE Earned(a)'
  <2>1. CASE a # b
    BY <1>2, <2>1 DEF Touches, AllEarned, Earned, Exists
  <2>2. CASE a = b /\ Founded(a)
    <3>1. PICK r \in Requests : /\ req[r].pc = "createApplication" /\ req[r].app = a
                                /\ apps'[a] = NewApplication(req[r])
      BY <2>2 DEF Founded
    <3>2. convs[req[r].conv] = {req[r].user}
      BY <3>1 DEF Owned, OwnChats
    <3> QED
      BY <1>2, <3>1, <3>2 DEF NewApplication, Earned
  <2>3. CASE a = b /\ SameGroup(a)
    <3>0. Earned(a) /\ apps[a] \in Application
      BY <1>0, <2>3 DEF SameGroup, AllEarned
    <3>1. \/ apps'[a].applicants \subseteq apps[a].applicants
          \/ /\ apps[a].invite > 0
             /\ \A u \in apps'[a].applicants : u = apps[a].owner \/ apps[a].invite > 0
      <4>1. ASSUME NEW r \in Requests, Admitted(a, r) PROVE apps[a].invite > 0
        BY <2>3, <4>1 DEF Admitted, AllInformed, Informed, Joining, SameGroup
      <4> QED
        BY <1>2, <2>3, <4>1
           DEF Touches, Founded, Removed, SameGroup, Exists, Admitted, Withdrawn, Sent, Decided,
             Invited, SameApplicants
    <3>2. apps[a].invite > 0 => apps'[a].invite > 0
      <4>1. apps'[a].invite \in {apps[a].invite, apps[a].invite + 1}
        BY <1>2, <2>3
           DEF Touches, Founded, Removed, SameGroup, Exists, Admitted, Withdrawn, Sent, Decided,
             Invited, SameInvite
      <4>2. apps[a].invite \in Nat
        BY <3>0 DEF Application
      <4> QED
        BY <4>1, <4>2
    <3>3. apps[a].stage # "NOT_SENT" => apps'[a].stage # "NOT_SENT"
      BY <1>2, <2>3
         DEF Touches, Founded, Removed, SameGroup, Exists, Admitted, Withdrawn, Sent, Decided,
             Invited, SameStage, Decisions
    <3>4. \A u \in apps'[a].applicants : u = apps'[a].owner \/ apps'[a].invite > 0
      BY <2>3, <3>0, <3>1, <3>2 DEF Earned, SameGroup
    <3> QED
      BY <1>2, <2>3, <3>0, <3>2, <3>3, <3>4 DEF Earned, SameGroup
  <2> QED
    BY <1>2, <2>1, <2>2, <2>3 DEF Touches, Removed, Exists
<1>3. CASE UNCHANGED <<apps, convs>>
  BY <1>3 DEF AllEarned, Earned, Exists
<1> QED
  BY <1>1, <1>2, <1>3, StepTouches, StepChats DEF AppStep

\* The chat of an application is read by its creator, by invited students
\* and, once it was sent, by the landlord; and by nobody else.
THEOREM ReadersEarned == Spec => []AccessIsEarned
<1>1. Init => AllEarned
  BY DEF Init, AllEarned, Exists
<1>2. Spec => []AllEarned
  BY <1>1, EarnedNext, AlwaysInformed, PTL DEF Spec
<1> QED
  BY <1>2, EarnedAccess, AlwaysInformed, PTL

----------------------------------------------------------------------------
(* No chat is left behind                                                  *)

\* What has become of the chat of a create that is being undone.
ChatsHeld ==
    \A r \in Requests :
        /\ req[r].pc = "createLookup" => convs[req[r].conv] = Gone
        /\ req[r].pc = "createDiscard" => convs[req[r].conv] \in {Gone, {req[r].user}}

\* A create moves on by its own calls, or dies.
LEMMA CreateMoves ==
    ASSUME Typed, [Next]_vars, NEW r \in Requests, req[r].pc \in Founding, req'[r] # req[r]
    PROVE  \/ CreateFind(r) \/ CreateConversation(r) \/ CreateApplication(r) \/ CreateFails(r)
           \/ CreateDropLoser(r) \/ CreateLookup(r) \/ CreateDiscard(r)
           \/ RequestDies(r)
<1>1. ContinueRequest(r) \/ RequestDies(r)
  BY OneMoves DEF Founding
<1> QED
  BY <1>1 DEF ContinueRequest, Founding, JoinRead, JoinApplicants, JoinConversation,
     LeaveRead, LeaveApplicants, LeaveConversation, SendStage, SendConversation,
     DecideReadListing, DecideStage, InviteRotate, DeleteApplication

LEMMA Begins ==
    ASSUME Typed, NEW r \in Requests, BeginRequest(r)
    PROVE  req'[r].pc \in {"createFind", "joinRead", "leaveRead", "sendStage",
                           "deleteApplication", "decideListing", "inviteRotate"}
<1> DEFINE First(pc) == req'[r].pc = pc
<1>0. req \in [Requests -> Request]
  BY DEF Typed, TypeOK
<1>1. ASSUME NEW s \in Owners, NEW l \in Listings, CreateReadListing(r, s, l)
      PROVE  First("createFind")
  BY <1>0, <1>1 DEF CreateReadListing, Begin, Idle
<1>2. ASSUME NEW s \in Students, NEW a \in AppIds, JoinBegin(r, s, a)
      PROVE  First("joinRead")
  BY <1>0, <1>2 DEF JoinBegin, Begin, Idle
<1>3. ASSUME NEW s \in Students, NEW a \in AppIds, LeaveGuard(r, s, a)
      PROVE  First("leaveRead")
  BY <1>0, <1>3 DEF LeaveGuard, Begin, Idle
<1>4. ASSUME NEW s \in Students, NEW a \in AppIds, SendGuard(r, s, a)
      PROVE  First("sendStage")
  BY <1>0, <1>4 DEF SendGuard, Begin, Idle
<1>5. ASSUME NEW s \in Students, NEW a \in AppIds, DeleteGuard(r, s, a)
      PROVE  First("deleteApplication")
  BY <1>0, <1>5 DEF DeleteGuard, Begin, Idle
<1>6. ASSUME NEW w \in Landlords, NEW a \in AppIds, NEW v \in Decisions,
             DecideReadApplication(r, w, a, v)
      PROVE  First("decideListing")
  BY <1>0, <1>6 DEF DecideReadApplication, Begin, Idle
<1>7. ASSUME NEW u \in Users, NEW a \in AppIds, InviteGuard(r, u, a)
      PROVE  First("inviteRotate")
  BY <1>0, <1>7 DEF InviteGuard, Begin, Idle
<1> QED
  BY <1>1, <1>2, <1>3, <1>4, <1>5, <1>6, <1>7 DEF BeginRequest

LEMMA ChatsHeldNext == Owned /\ ChatsHeld /\ [Next]_vars => ChatsHeld'
<1> SUFFICES ASSUME Owned, ChatsHeld, [Next]_vars, NEW r \in Requests
             PROVE  /\ req'[r].pc = "createLookup" => convs'[req'[r].conv] = Gone
                    /\ req'[r].pc = "createDiscard" =>
                           convs'[req'[r].conv] \in {Gone, {req'[r].user}}
  BY DEF ChatsHeld
<1>0. req \in [Requests -> Request] /\ req[r] \in Request /\ Typed /\ TypeOK
  BY OwnedTypes DEF Owned, Shaped
<1>1. CASE req'[r] = req[r] /\ req[r].pc \in Founding
  <2>1. req[r].conv \in ConvIds
    BY <1>1, OwnedTypes DEF Shaped, WithConversation
  <2>2. ASSUME NEW p \in Requests \ {r} PROVE req[p].conv # req[r].conv
    BY <1>1 DEF Owned, OwnIds
  <2>3. ~ChatStep(r)
    BY <1>0, <1>1 DEF ChatStep, Writes, Moves, Idle, Founding, Request
  <2>4. convs'[req[r].conv] = convs[req[r].conv]
    BY <2>1, <2>2, <2>3, StepChats DEF ChatStep
  <2> QED
    BY <1>1, <2>4 DEF ChatsHeld
<1>2. CASE req'[r] # req[r] /\ req[r].pc \in Founding
  <2>1. CASE CreateFind(r) \/ CreateConversation(r) \/ CreateApplication(r)
             \/ CreateDiscard(r) \/ RequestDies(r)
    BY <1>0, <2>1 DEF CreateFind, CreateConversation, CreateApplication, CreateDiscard,
          RequestDies, End, Goto, Idle, Request
  <2>2. CASE CreateFails(r)
    BY <1>0, <2>2 DEF CreateFails, Goto, Owned, OwnChats, Request
  <2>3. CASE CreateDropLoser(r)
    BY <1>0, <2>3, OwnedTypes DEF CreateDropLoser, Goto, Request, Shaped, WithConversation,
          Founding
  <2>4. CASE CreateLookup(r)
    BY <1>0, <2>4 DEF CreateLookup, Goto, End, Idle, ChatsHeld, Request
  <2> QED
    BY <1>0, <1>2, <2>1, <2>2, <2>3, <2>4, CreateMoves
<1>3. CASE req[r].pc \notin Founding
  <2>1. CASE req'[r] = req[r]
    BY <1>3, <2>1 DEF Founding
  <2>2. CASE BeginRequest(r)
    BY <2>2, Begins DEF Owned
  <2>3. CASE ContinueRequest(r) \/ RequestDies(r)
    BY <1>0, <1>3, <2>3
       DEF ContinueRequest, RequestDies, CreateFind, CreateConversation, CreateApplication,
         CreateFails, CreateDropLoser, CreateLookup, CreateDiscard, Founding,
         JoinRead, JoinApplicants, JoinConversation, LeaveRead, LeaveApplicants,
         LeaveConversation, SendStage, SendConversation, DecideReadListing, DecideStage,
         InviteRotate, DeleteApplication, Goto, End, Idle, Request
  <2> QED
    BY <1>0, <2>1, <2>2, <2>3, OneMoves
<1> QED
  BY <1>1, <1>2, <1>3

Holding == {"createApplication", "createDropLoser", "createDiscard"}

LEMMA NoStrayNext ==
    Owned /\ AllInformed /\ ChatsHeld /\ NoStrayConversation /\ [Next]_vars
        => NoStrayConversation'
<1> SUFFICES ASSUME Owned, AllInformed, ChatsHeld, NoStrayConversation, [Next]_vars,
                    NEW c \in ConvIds, Open(c)'
             PROVE  \/ c \in retired'
                    \/ \E a \in AppIds : Exists(a)' /\ apps'[a].conversation = c
                    \/ \E r \in Requests : req'[r].conv = c /\ req'[r].pc \in Holding
                    \/ convs'[c] \cap broken' # {}
  BY DEF NoStrayConversation, Holding
<1>0. /\ req \in [Requests -> Request] /\ Typed /\ TypeOK
      /\ retired \subseteq retired' /\ broken \subseteq broken'
  BY HistoryGrows DEF Owned, Typed, TypeOK
<1>1. ASSUME NEW r \in Requests, ChatStep(r)
      PROVE  \/ c \in retired'
             \/ \E a \in AppIds : Exists(a)' /\ apps'[a].conversation = c
             \/ \E q \in Requests : req'[q].conv = c /\ req'[q].pc \in Holding
             \/ convs'[c] \cap broken' # {}
  <2>1. UNCHANGED <<apps, retired, broken>> /\ \A p \in Requests \ {r} : req'[p] = req[p]
    BY <1>1 DEF ChatStep
  <2>2. CASE c # req[r].conv
    <3>1. Open(c) /\ convs'[c] = convs[c]
      BY <1>1, <2>2 DEF ChatStep, Open
    <3>2. ASSUME NEW q \in Requests, req[q].conv = c PROVE req'[q] = req[q]
      BY <2>1, <2>2, <3>2
    <3>3. ASSUME NEW a \in AppIds, Exists(a) PROVE Exists(a)' /\ apps'[a] = apps[a]
      BY <2>1, <3>3 DEF Exists
    <3> QED
      BY <2>1, <3>1, <3>2, <3>3 DEF NoStrayConversation, Holding
  <2>3. CASE c = req[r].conv /\ req[r].pc = "createConversation"
    <3>1. req'[r].conv = c /\ req'[r].pc \in Holding
      BY <1>0, <1>1, <2>3 DEF ChatStep, Writes, Moves, Request, Holding
    <3> QED
      BY <3>1
  <2>4. CASE c = req[r].conv /\ req[r].pc \in {"createDropLoser", "createDiscard"}
    BY <1>1, <2>4 DEF ChatStep, Writes, Moves, Open
  <2>5. CASE c = req[r].conv /\ req[r].pc \in Fetched
    <3>1. Exists(req[r].app) \/ c \in retired
      BY <2>5 DEF AllInformed, Informed
    <3>2. req[r].app \in AppIds
      BY <2>5, OwnedTypes DEF Shaped, Fetched
    <3>3. Exists(req[r].app) => apps[req[r].app].conversation = c
      BY <2>5, <3>2 DEF AllInformed, Informed
    <3> QED
      BY <2>1, <3>1, <3>2, <3>3 DEF Exists
  <2> QED
    BY <1>1, <2>2, <2>3, <2>4, <2>5 DEF ChatStep, Writes, Moves, Fetched
<1>2. CASE UNCHANGED convs
  <2>1. Open(c) /\ convs'[c] = convs[c]
    BY <1>2 DEF Open
  <2>2. CASE c \in retired \/ convs[c] \cap broken # {}
    BY <1>0, <2>1, <2>2
  <2>3. ASSUME NEW a \in AppIds, Exists(a), apps[a].conversation = c
        PROVE  c \in retired' \/ (Exists(a)' /\ apps'[a].conversation = c)
    <3>1. \/ apps'[a] = apps[a] \/ Removed(a) \/ SameGroup(a)
      BY <2>3, StepTouches DEF AppStep, Touches, Founded, Exists
    <3> QED
      BY <2>3, <3>1 DEF Removed, SameGroup, Exists
  <2>4. ASSUME NEW r \in Requests, req[r].conv = c, req[r].pc \in Holding
        PROVE  \/ \E a \in AppIds : Exists(a)' /\ apps'[a].conversation = c
               \/ req'[r].conv = c /\ req'[r].pc \in Holding
               \/ convs'[c] \cap broken' # {}
    <3>1. CASE req'[r] = req[r]
      BY <2>4, <3>1
    <3>2. CASE CreateApplication(r)
      <4>1. CASE Holder(req[r].listing, req[r].user) # {}
        BY <1>0, <2>4, <3>2, <4>1 DEF CreateApplication, Goto, Request, Holding
      <4>2. CASE Holder(req[r].listing, req[r].user) = {}
        <5> DEFINE new == NewApplication(req[r])
        <5>1. req[r].app \in AppIds /\ new \in Application /\ new.conversation = c
          BY <2>4, <3>2, OwnedTypes
             DEF CreateApplication, NewApplication, Application, Stages, Shaped,
                 WithConversation, WithListing, OfStudents, Founding
        <5>2. apps' = [apps EXCEPT ![req[r].app] = new]
          BY <3>2, <4>2 DEF CreateApplication, NewApplication
        <5> HIDE DEF new
        <5>3. PICK a \in AppIds : a = req[r].app
          BY <5>1
        <5>4. apps'[a] = new
          BY <1>0, <5>1, <5>2, <5>3 DEF TypeOK
        <5>5. Exists(a)'
          BY <5>1, <5>4, AbsenceAssumption DEF Exists
        <5> QED
          BY <5>1, <5>4, <5>5
      <4> QED
        BY <4>1, <4>2
    <3>3. CASE CreateFails(r)
      BY <1>0, <2>4, <3>3 DEF CreateFails, Goto, Request, Holding
    <3>4. CASE CreateDropLoser(r) \/ CreateDiscard(r)
      <4>1. convs'[c] = Gone
        BY <1>0, <2>4, <3>4 DEF CreateDropLoser, CreateDiscard, TypeOK
      <4> QED
        BY <4>1 DEF Open
    <3>5. CASE RequestDies(r)
      <4>1. convs[c] = {req[r].user}
        BY <2>1, <2>4 DEF Holding, ChatsHeld, Owned, OwnChats, Open
      <4>2. req[r].user \in Students
        BY <2>4, OwnedTypes DEF Shaped, OfStudents, Founding, Holding
      <4>3. req[r].user \in broken'
        BY <3>5, <4>2 DEF RequestDies
      <4> QED
        BY <2>1, <4>1, <4>3
    <3>6. CASE CreateFind(r) \/ CreateConversation(r) \/ CreateLookup(r)
      BY <2>4, <3>6 DEF CreateFind, CreateConversation, CreateLookup, Holding
    <3> QED
      BY <1>0, <2>4, <3>1, <3>2, <3>3, <3>4, <3>5, <3>6, CreateMoves DEF Holding, Founding
  <2> QED
    BY <2>1, <2>2, <2>3, <2>4 DEF NoStrayConversation, Holding
<1> QED
  BY <1>1, <1>2, StepChats

\* However creates race and fail, the only chats without an application are
\* those of deleted applications and of creates that died half-way.
THEOREM NoChatStrays == Spec => []NoStrayConversation
<1>1. Init => ChatsHeld /\ NoStrayConversation
  BY AbsenceAssumption DEF Init, ChatsHeld, NoStrayConversation, Open, Idle
<1>2. Spec => [](ChatsHeld /\ NoStrayConversation)
  BY <1>1, ChatsHeldNext, NoStrayNext, AlwaysInformed, PTL DEF Spec
<1> QED
  BY <1>2, PTL

----------------------------------------------------------------------------
(* A sent application reaches the landlord                                 *)

LEMMA SentNext ==
    Owned /\ Owned' /\ AllInformed /\ SentReachesLandlord /\ [Next]_vars
        => SentReachesLandlord'
<1> SUFFICES ASSUME Owned, Owned', AllInformed, SentReachesLandlord, [Next]_vars,
                    NEW a \in AppIds, Exists(a)', apps'[a].stage = "SENT",
                    apps'[a].owner \notin broken'
             PROVE  \/ LandlordOf[apps'[a].listing] \in convs'[apps'[a].conversation]
                    \/ \E r \in Requests :
                          req'[r].pc = "sendConversation" /\ req'[r].app = a
  BY DEF SentReachesLandlord
<1>0. /\ req \in [Requests -> Request] /\ Typed /\ TypeOK /\ broken \subseteq broken'
      /\ convs \in [ConvIds -> (SUBSET Users) \cup {Unborn, Gone}]
  BY HistoryGrows DEF Owned, Typed, TypeOK
<1>1. ASSUME NEW r \in Requests, Sent(a, r)
      PROVE  req'[r].pc = "sendConversation" /\ req'[r].app = a
  BY <1>0, <1>1 DEF Sent, Request
<1>2. CASE ~ \E r \in Requests : Sent(a, r)
  <2>0. ~Founded(a) /\ ~Removed(a)
    <3>1. ASSUME Founded(a) PROVE FALSE
      <4>1. PICK r \in Requests : apps'[a] = NewApplication(req[r])
        BY <3>1 DEF Founded
      <4>2. apps'[a].stage = "NOT_SENT"
        BY <4>1 DEF NewApplication
      <4> QED
        BY <4>2
    <3> QED
      BY <3>1 DEF Removed, Exists
  <2>1. /\ \/ apps'[a] = apps[a]
           \/ /\ apps'[a].listing = apps[a].listing /\ apps'[a].owner = apps[a].owner
              /\ apps'[a].conversation = apps[a].conversation /\ apps[a].stage = "SENT"
        /\ Exists(a)
    <3>1. CASE apps'[a] = apps[a]
      BY <3>1 DEF Exists
    <3>2. CASE SameGroup(a) /\ Touches(a)
      <4>1. apps[a].stage = "SENT"
        <5>1. ~Decided(a)
          BY DEF Decided, Decisions
        <5>2. SameStage(a)
          BY <1>2, <2>0, <3>2, <5>1 DEF Touches, Admitted, Withdrawn, Invited
        <5> QED
          BY <5>2 DEF SameStage
      <4> QED
        BY <3>2, <4>1 DEF SameGroup
    <3> QED
      BY <2>0, <3>1, <3>2, StepTouches DEF AppStep, Touches
  <2>2. Exists(a)
    BY <2>1
  <2>3. apps[a].owner \notin broken /\ apps[a].stage = "SENT" /\ apps[a] \in Application
    BY <1>0, <2>1, <2>2, ExistingIsApplication
  <2>4. CASE LandlordOf[apps[a].listing] \in convs[apps[a].conversation]
    <3>1. LandlordOf[apps[a].listing] \in Landlords
      BY <2>3, RolesAssumption DEF Application
    <3>2. ASSUME NEW r \in Requests, ChatStep(r), apps[a].conversation = req[r].conv
          PROVE  LandlordOf[apps[a].listing] \in convs'[apps[a].conversation]
      <4>1. req[r].pc \in Fetched /\ Open(req[r].conv)
        BY <2>2, <3>2, WriterKnows
      <4>2. req[r].pc = "leaveConversation" => req[r].user # LandlordOf[apps[a].listing]
        BY <3>1, <3>2, OwnedTypes, RolesAssumption DEF Shaped, OfStudents, Leaving
      <4> QED
        BY <2>4, <3>2, <4>1, <4>2 DEF ChatStep, Writes, Moves, Fetched, Grown, Shrunk
    <3>3. LandlordOf[apps[a].listing] \in convs'[apps[a].conversation]
      BY <2>3, <2>4, <3>2, StepChats DEF ChatStep, Application
    <3> QED
      BY <2>1, <3>3
  <2>5. ASSUME NEW r \in Requests, req[r].pc = "sendConversation", req[r].app = a
        PROVE  \/ LandlordOf[apps'[a].listing] \in convs'[apps'[a].conversation]
               \/ req'[r].pc = "sendConversation" /\ req'[r].app = a
    <3>1. CASE req'[r] = req[r]
      BY <2>5, <3>1
    <3>2. /\ apps[a].conversation = req[r].conv /\ apps[a].listing = req[r].listing
          /\ apps[a].owner = req[r].user
      BY <2>2, <2>5 DEF AllInformed, Informed, Fetched
    <3>3. CASE SendConversation(r)
      <4>1. Open(req[r].conv) /\ req[r].conv \in ConvIds
        BY <2>2, <2>3, <3>2 DEF Owned, Documents, ConversationsIntact, Application
      <4>2. LandlordOf[req[r].listing] \in convs'[req[r].conv]
        BY <1>0, <3>3, <4>1 DEF SendConversation
      <4> QED
        BY <2>1, <3>2, <4>2
    <3>4. ~RequestDies(r)
      <4>1. req[r].user \in Students
        BY <2>5, OwnedTypes DEF Shaped, OfStudents
      <4> QED
        BY <2>1, <3>2, <4>1 DEF RequestDies
    <3>5. CASE req'[r] # req[r]
      <4>1. ContinueRequest(r)
        BY <1>0, <2>5, <3>4, <3>5, OneMoves
      <4> QED
        BY <2>5, <3>3, <4>1
           DEF ContinueRequest, CreateFind, CreateConversation, CreateApplication,
         CreateFails, CreateDropLoser, CreateLookup, CreateDiscard,
         JoinRead, JoinApplicants, JoinConversation, LeaveRead, LeaveApplicants,
         LeaveConversation, SendStage, DecideReadListing, DecideStage,
         InviteRotate, DeleteApplication
    <3> QED
      BY <3>1, <3>5
  <2> QED
    BY <2>2, <2>3, <2>4, <2>5 DEF SentReachesLandlord
<1> QED
  BY <1>1, <1>2

\* A send is done in two writes; between them, and unless the request dies
\* there, the landlord is on the way into the chat.
THEOREM LandlordReached == Spec => []SentReachesLandlord
<1>1. Init => SentReachesLandlord
  BY DEF Init, SentReachesLandlord, Exists
<1> QED
  BY <1>1, SentNext, AlwaysInformed, PTL DEF Spec

----------------------------------------------------------------------------
(* The two documents agree                                                 *)

\* A student whose join and leave never overlapped has requests of one kind.
Separate ==
    \A s \in Students \ crossed : ~(InFlight(s, Joining) /\ InFlight(s, Leaving))

\* Half-way through, the application already says what the chat will.
HalfWay ==
    \A r \in Requests :
        (/\ req[r].pc \in {"joinConversation", "leaveConversation"}
         /\ req[r].user \notin crossed /\ Exists(req[r].app)) =>
            (req[r].user \in apps[req[r].app].applicants <=> req[r].pc = "joinConversation")

\* How a request comes to be joining, or leaving.
LEMMA JoinsAndLeaves ==
    ASSUME Typed, [Next]_vars, NEW r \in Requests
    PROVE  /\ req'[r].pc \in Joining =>
                 \/ req[r].pc \in Joining /\ req'[r].user = req[r].user
                 \/ InFlight(req'[r].user, Leaving) => req'[r].user \in crossed'
           /\ req'[r].pc \in Leaving =>
                 \/ req[r].pc \in Leaving /\ req'[r].user = req[r].user
                 \/ InFlight(req'[r].user, Joining) => req'[r].user \in crossed'
<1>0. req \in [Requests -> Request]
  BY DEF Typed, TypeOK
<1>1. CASE req'[r] = req[r]
  BY <1>1
<1>2. ASSUME NEW s \in Students, NEW a \in AppIds, JoinBegin(r, s, a)
      PROVE  /\ req'[r].pc = "joinRead" /\ req'[r].user = s
             /\ InFlight(s, Leaving) => s \in crossed'
  <2>1. req'[r].pc = "joinRead" /\ req'[r].user = s
    BY <1>0, <1>2 DEF JoinBegin, Begin, Idle
  <2>2. InFlight(s, Leaving) => s \in crossed'
    BY <1>2 DEF JoinBegin
  <2> QED
    BY <2>1, <2>2
<1>3. ASSUME NEW s \in Students, NEW a \in AppIds, LeaveGuard(r, s, a)
      PROVE  /\ req'[r].pc = "leaveRead" /\ req'[r].user = s
             /\ InFlight(s, Joining) => s \in crossed'
  <2>1. req'[r].pc = "leaveRead" /\ req'[r].user = s
    BY <1>0, <1>3 DEF LeaveGuard, Begin, Idle
  <2>2. InFlight(s, Joining) => s \in crossed'
    BY <1>3 DEF LeaveGuard
  <2> QED
    BY <2>1, <2>2
<1>4. CASE BeginRequest(r)
  <2>1. req'[r].pc \in Joining \cup Leaving =>
            \E s \in Students, a \in AppIds : JoinBegin(r, s, a) \/ LeaveGuard(r, s, a)
    <3>1. ASSUME NEW s \in Owners, NEW l \in Listings, CreateReadListing(r, s, l)
          PROVE  req'[r].pc \notin Joining \cup Leaving
      BY <1>0, <3>1 DEF CreateReadListing, Begin, Idle, Joining, Leaving
    <3>2. ASSUME NEW s \in Students, NEW a \in AppIds, SendGuard(r, s, a) \/ DeleteGuard(r, s, a)
          PROVE  req'[r].pc \notin Joining \cup Leaving
      BY <1>0, <3>2 DEF SendGuard, DeleteGuard, Begin, Idle, Joining, Leaving
    <3>3. ASSUME NEW w \in Landlords, NEW a \in AppIds, NEW v \in Decisions,
                 DecideReadApplication(r, w, a, v)
          PROVE  req'[r].pc \notin Joining \cup Leaving
      BY <1>0, <3>3 DEF DecideReadApplication, Begin, Idle, Joining, Leaving
    <3>4. ASSUME NEW u \in Users, NEW a \in AppIds, InviteGuard(r, u, a)
          PROVE  req'[r].pc \notin Joining \cup Leaving
      BY <1>0, <3>4 DEF InviteGuard, Begin, Idle, Joining, Leaving
    <3> QED
      BY <1>4, <3>1, <3>2, <3>3, <3>4 DEF BeginRequest
  <2> QED
    BY <1>2, <1>3, <2>1 DEF Joining, Leaving
<1>5. CASE ContinueRequest(r) \/ RequestDies(r)
  <2> DEFINE Kept == /\ req'[r].pc \in Joining =>
                            req[r].pc \in Joining /\ req'[r].user = req[r].user
                     /\ req'[r].pc \in Leaving =>
                            req[r].pc \in Leaving /\ req'[r].user = req[r].user
  <2>1. ASSUME RequestDies(r) PROVE Kept
    BY <1>0, <2>1 DEF RequestDies, End, Idle, Joining, Leaving
  <2>2. ASSUME JoinRead(r) \/ JoinApplicants(r) \/ JoinConversation(r) PROVE Kept
    BY <1>0, <2>2 DEF JoinRead, JoinApplicants, JoinConversation, Goto, End, Idle,
                      Joining, Leaving, Request
  <2>3. ASSUME LeaveRead(r) \/ LeaveApplicants(r) \/ LeaveConversation(r) PROVE Kept
    BY <1>0, <2>3 DEF LeaveRead, LeaveApplicants, LeaveConversation, Goto, End, Idle,
                      Joining, Leaving, Request
  <2>4. ASSUME \/ CreateFind(r) \/ CreateConversation(r) \/ CreateApplication(r)
               \/ CreateFails(r) \/ CreateDropLoser(r) \/ CreateLookup(r)
               \/ CreateDiscard(r)
        PROVE  Kept
    <3>1. req'[r].pc \notin Joining \cup Leaving
      BY <1>0, <2>4
         DEF CreateFind, CreateConversation, CreateApplication, CreateFails,
             CreateDropLoser, CreateLookup, CreateDiscard, Goto, End, Idle,
             Joining, Leaving, Request
    <3> QED
      BY <3>1
  <2>5. ASSUME \/ SendStage(r) \/ SendConversation(r) \/ DecideReadListing(r)
               \/ DecideStage(r) \/ InviteRotate(r) \/ DeleteApplication(r)
        PROVE  Kept
    <3>1. req'[r].pc \notin Joining \cup Leaving
      BY <1>0, <2>5
         DEF SendStage, SendConversation, DecideReadListing, DecideStage, InviteRotate,
             DeleteApplication, Goto, End, Idle, Joining, Leaving, Request
    <3> QED
      BY <3>1
  <2>6. Kept
    BY <1>5, <2>1, <2>2, <2>3, <2>4, <2>5 DEF ContinueRequest
  <2> QED
    BY <2>6
<1> QED
  BY <1>1, <1>4, <1>5, OneMoves

LEMMA SeparateNext == Typed /\ Separate /\ [Next]_vars => Separate'
<1> SUFFICES ASSUME Typed, Separate, [Next]_vars,
                    NEW s \in Students, s \notin crossed',
                    NEW p \in Requests, req'[p].user = s, req'[p].pc \in Joining,
                    NEW q \in Requests, req'[q].user = s, req'[q].pc \in Leaving
             PROVE  FALSE
  BY DEF Separate, InFlight
<1>1. p # q /\ s \notin crossed
  BY HistoryGrows DEF Joining, Leaving
<1>2. \/ req'[p] = req[p]
      \/ req'[q] = req[q]
  BY <1>1, OneMoves
<1>3. CASE req'[p] = req[p]
  <2>1. InFlight(s, Joining)
    BY <1>3 DEF InFlight
  <2>2. req[q].pc \in Leaving /\ req[q].user = s
    BY <2>1, JoinsAndLeaves
  <2> QED
    BY <1>1, <2>1, <2>2 DEF Separate, InFlight
<1>4. CASE req'[q] = req[q]
  <2>1. InFlight(s, Leaving)
    BY <1>4 DEF InFlight
  <2>2. req[p].pc \in Joining /\ req[p].user = s
    BY <2>1, JoinsAndLeaves
  <2> QED
    BY <1>1, <2>1, <2>2 DEF Separate, InFlight
<1> QED
  BY <1>2, <1>3, <1>4

\* A request that is about to write the chat has written the applicants.
LEMMA Arrives ==
    ASSUME Typed, [Next]_vars, NEW r \in Requests, req'[r] # req[r],
           req'[r].pc \in {"joinConversation", "leaveConversation"}
    PROVE  \/ JoinApplicants(r) /\ req'[r] = [req[r] EXCEPT !.pc = "joinConversation"]
           \/ LeaveApplicants(r) /\ req'[r] = [req[r] EXCEPT !.pc = "leaveConversation"]
<1>0. req \in [Requests -> Request]
  BY DEF Typed, TypeOK
<1>1. ~BeginRequest(r)
  BY Begins
<1>2. ~RequestDies(r)
  BY <1>0 DEF RequestDies, End, Idle
<1>3. ContinueRequest(r)
  BY <1>1, <1>2, OneMoves
<1>4. ~(\/ CreateFind(r) \/ CreateConversation(r) \/ CreateApplication(r)
        \/ CreateFails(r) \/ CreateDropLoser(r) \/ CreateLookup(r) \/ CreateDiscard(r))
  BY <1>0 DEF CreateFind, CreateConversation, CreateApplication, CreateFails,
              CreateDropLoser, CreateLookup, CreateDiscard, Goto, End, Idle, Request
<1>5. ~(\/ SendStage(r) \/ SendConversation(r) \/ DecideReadListing(r)
        \/ DecideStage(r) \/ InviteRotate(r) \/ DeleteApplication(r))
  BY <1>0 DEF SendStage, SendConversation, DecideReadListing, DecideStage, InviteRotate,
              DeleteApplication, Goto, End, Idle, Request
<1>6. ~(JoinRead(r) \/ JoinConversation(r) \/ LeaveRead(r) \/ LeaveConversation(r))
  BY <1>0 DEF JoinRead, JoinConversation, LeaveRead, LeaveConversation, End, Idle, Request
<1>7. JoinApplicants(r) \/ LeaveApplicants(r)
  BY <1>3, <1>4, <1>5, <1>6 DEF ContinueRequest
<1> QED
  BY <1>0, <1>7 DEF JoinApplicants, LeaveApplicants, Goto, End, Idle, Request

\* An application that somebody took from the database was there before.
LEMMA StillExists ==
    ASSUME Owned, [Next]_vars, NEW a \in AppIds, Exists(a)', apps[a] # Unborn
    PROVE  /\ Exists(a)
           /\ \/ apps'[a] = apps[a]
              \/ SameGroup(a) /\ Touches(a) /\ ~Founded(a) /\ ~Removed(a)
<1>1. ~Founded(a) /\ ~Removed(a)
  BY DEF Founded, Removed, Exists
<1> QED
  BY <1>1, StepTouches DEF AppStep, Touches, SameGroup, Exists

\* A step that changes the applicants of an application changes one of them,
\* whose join or leave goes on to the chat.
LEMMA ApplicantsChange ==
    ASSUME Owned, [Next]_vars, NEW a \in AppIds, Exists(a)', apps[a] # Unborn, NEW s
    PROVE  \/ s \in apps'[a].applicants <=> s \in apps[a].applicants
           \/ /\ s \in apps'[a].applicants
              /\ \E r \in Requests : req[r].user = s /\ Admitted(a, r)
           \/ /\ s \notin apps'[a].applicants
              /\ \E r \in Requests : req[r].user = s /\ Withdrawn(a, r)
<1>1. CASE apps'[a] = apps[a]
  BY <1>1
<1>2. CASE SameGroup(a) /\ Touches(a) /\ ~Founded(a) /\ ~Removed(a)
  <2>1. ASSUME NEW r \in Requests, Admitted(a, r)
        PROVE  \/ s \in apps'[a].applicants <=> s \in apps[a].applicants
               \/ s \in apps'[a].applicants /\ req[r].user = s
    BY <2>1 DEF Admitted
  <2>2. ASSUME NEW r \in Requests, Withdrawn(a, r)
        PROVE  \/ s \in apps'[a].applicants <=> s \in apps[a].applicants
               \/ s \notin apps'[a].applicants /\ req[r].user = s
    BY <2>2 DEF Withdrawn
  <2>3. ASSUME \/ \E r \in Requests : Sent(a, r)
               \/ Decided(a) \/ Invited(a)
        PROVE  SameApplicants(a)
    BY <2>3 DEF Sent, Decided, Invited
  <2> QED
    BY <1>2, <2>1, <2>2, <2>3 DEF Touches, SameApplicants
<1> QED
  BY <1>1, <1>2, StillExists

LEMMA HalfWayNext ==
    Owned /\ AllInformed /\ Separate /\ HalfWay /\ [Next]_vars => HalfWay'
<1> SUFFICES ASSUME Owned, AllInformed, Separate, HalfWay, [Next]_vars,
                    NEW r \in Requests,
                    req'[r].pc \in {"joinConversation", "leaveConversation"},
                    req'[r].user \notin crossed'
             PROVE  apps'[req'[r].app] \notin {Unborn, Gone} =>
                        (req'[r].user \in apps'[req'[r].app].applicants
                             <=> req'[r].pc = "joinConversation")
  BY DEF HalfWay, Exists
<1>0. Typed /\ req \in [Requests -> Request] /\ TypeOK
  BY DEF Owned, Typed, TypeOK
<1>1. CASE req'[r] = req[r]
  <2>1. PICK a \in AppIds : a = req[r].app
    BY <1>1, OwnedTypes DEF Shaped
  <2>2. PICK s \in Students : s = req[r].user
    BY <1>1, OwnedTypes DEF Shaped, OfStudents, Joining, Leaving
  <2> SUFFICES ASSUME Exists(a)'
               PROVE  s \in apps'[a].applicants <=> req[r].pc = "joinConversation"
    BY <1>1, <2>1, <2>2 DEF Exists
  <2>3. apps[a] # Unborn
    BY <1>1, <2>1 DEF AllInformed, Informed, Founding
  <2>4. Exists(a)
    BY <2>3, StillExists
  <2>5. s \notin crossed
    BY <1>1, <2>2, HistoryGrows
  <2>6. s \in apps[a].applicants <=> req[r].pc = "joinConversation"
    BY <1>1, <2>1, <2>2, <2>4, <2>5 DEF HalfWay
  <2>7. ASSUME NEW q \in Requests, req[q].user = s, Admitted(a, q)
        PROVE  req[r].pc = "joinConversation"
    <3>1. InFlight(s, Joining)
      BY <2>7 DEF InFlight, Admitted, Joining
    <3>2. ~InFlight(s, Leaving)
      BY <2>5, <3>1 DEF Separate
    <3> QED
      BY <1>1, <2>2, <3>2 DEF InFlight, Leaving
  <2>8. ASSUME NEW q \in Requests, req[q].user = s, Withdrawn(a, q)
        PROVE  req[r].pc # "joinConversation"
    <3>1. InFlight(s, Leaving)
      BY <2>8 DEF InFlight, Withdrawn, Leaving
    <3>2. ~InFlight(s, Joining)
      BY <2>5, <3>1 DEF Separate
    <3> QED
      BY <2>2, <3>2 DEF InFlight, Joining
  <2> QED
    BY <2>3, <2>6, <2>7, <2>8, ApplicantsChange
<1>2. CASE req'[r] # req[r]
  <2>1. PICK a : a = req[r].app
    OBVIOUS
  <2>2. /\ req'[r].app = a /\ req'[r].user = req[r].user
        /\ \/ JoinApplicants(r) /\ req'[r].pc = "joinConversation"
           \/ LeaveApplicants(r) /\ req'[r].pc = "leaveConversation"
    BY <1>0, <1>2, <2>1, Arrives DEF Request
  <2>3. a \in AppIds
    BY <2>1, <2>2, OwnedTypes DEF Shaped, JoinApplicants, LeaveApplicants
  <2>4. CASE Exists(a)
    <3>1. apps[a] \in Application
      BY <1>0, <2>3, <2>4, ExistingIsApplication
    <3>2. CASE JoinApplicants(r)
      <4>1. apps'[a].applicants = apps[a].applicants \cup {req[r].user}
        BY <1>0, <2>1, <2>3, <2>4, <3>1, <3>2 DEF JoinApplicants, TypeOK, Application
      <4> QED
        BY <2>2, <3>2, <4>1 DEF LeaveApplicants, JoinApplicants
    <3>3. CASE LeaveApplicants(r)
      <4>1. apps'[a].applicants = apps[a].applicants \ {req[r].user}
        BY <1>0, <2>1, <2>3, <2>4, <3>1, <3>3 DEF LeaveApplicants, TypeOK, Application
      <4> QED
        BY <2>2, <3>3, <4>1 DEF LeaveApplicants, JoinApplicants
    <3> QED
      BY <2>2, <3>2, <3>3
  <2>5. CASE ~Exists(a)
    <3>1. apps' = apps
      BY <2>1, <2>2, <2>5 DEF JoinApplicants, LeaveApplicants
    <3> QED
      BY <2>2, <2>5, <3>1 DEF Exists
  <2> QED
    BY <2>4, <2>5
<1> QED
  BY <1>1, <1>2

\* The second write is on its way.
OnTheWay(a, s) ==
    \E r \in Requests :
        /\ req[r].user = s /\ req[r].app = a
        /\ req[r].pc \in {"joinConversation", "leaveConversation"}

Agreed(a, s) == s \in apps[a].applicants <=> s \in convs[apps[a].conversation]

\* The join or the leave of a student, arriving at the chat, makes it agree.
LEMMA SecondWrite ==
    ASSUME Owned, AllInformed, HalfWay, NEW a \in AppIds, Exists(a),
           NEW r \in Requests, ChatStep(r), NEW s, s = req[r].user, s \notin crossed,
           req[r].app = a, req[r].pc \in {"joinConversation", "leaveConversation"}
    PROVE  Agreed(a, s)'
<1>1. apps[a].conversation = req[r].conv /\ Open(req[r].conv) /\ apps' = apps
  BY DEF AllInformed, Informed, Fetched, Owned, Documents, ConversationsIntact, ChatStep
<1>2. PICK c : c = req[r].conv
  OBVIOUS
<1>3. s \in convs'[c] <=> req[r].pc = "joinConversation"
  BY <1>1, <1>2 DEF ChatStep, Writes, Moves, Grown, Shrunk
<1>4. s \in apps[a].applicants <=> req[r].pc = "joinConversation"
  BY <1>2 DEF HalfWay
<1> QED
  BY <1>1, <1>2, <1>3, <1>4 DEF Agreed

LEMMA AgreesNext ==
    Owned /\ AllInformed /\ HalfWay /\ MembershipAgrees /\ [Next]_vars
        => MembershipAgrees'
<1> SUFFICES ASSUME Owned, AllInformed, HalfWay, MembershipAgrees, [Next]_vars,
                    NEW a \in AppIds, NEW s \in Students, s \notin crossed', s \notin broken',
                    Exists(a)'
             PROVE  Agreed(a, s)' \/ OnTheWay(a, s)'
  BY DEF MembershipAgrees, Agreed, OnTheWay, Exists
<1>0. /\ Typed /\ req \in [Requests -> Request] /\ TypeOK
      /\ s \notin crossed /\ s \notin broken
      /\ s \notin Landlords
  BY HistoryGrows, RolesAssumption DEF Owned, Typed, TypeOK
<1>1. CASE apps[a] = Unborn
  <2>1. Founded(a)
    BY <1>1, StepTouches DEF AppStep, Touches, Removed, SameGroup, Exists
  <2>2. PICK r \in Requests : /\ req[r].pc = "createApplication" /\ req[r].app = a
                              /\ apps'[a] = NewApplication(req[r])
    BY <2>1 DEF Founded
  <2>3. convs[req[r].conv] = {req[r].user}
    BY <2>2 DEF Owned, OwnChats
  <2>4. UNCHANGED convs
    BY <1>1, StepChats DEF ChatStep, Exists
  <2>5. apps'[a].applicants = convs'[apps'[a].conversation]
    BY <2>2, <2>3, <2>4 DEF NewApplication
  <2> QED
    BY <2>5 DEF Agreed
<1>2. CASE apps[a] # Unborn
  <2>1. /\ Exists(a) /\ apps[a] \in Application
        /\ apps'[a].conversation = apps[a].conversation
    BY <1>0, <1>2, StillExists, ExistingIsApplication DEF SameGroup
  <2>2. CASE OnTheWay(a, s)
    <3>1. PICK r \in Requests : /\ req[r].user = s /\ req[r].app = a
                                /\ req[r].pc \in {"joinConversation", "leaveConversation"}
      BY <2>2 DEF OnTheWay
    <3>2. CASE req'[r] = req[r]
      BY <3>1, <3>2 DEF OnTheWay
    <3>3. CASE req'[r] # req[r]
      <4>1. ~RequestDies(r)
        BY <1>0, <3>1 DEF RequestDies
      <4>2. ContinueRequest(r)
        BY <1>0, <3>1, <3>3, <4>1, OneMoves
      <4>3. JoinConversation(r) \/ LeaveConversation(r)
        BY <3>1, <4>2
           DEF ContinueRequest, CreateFind, CreateConversation, CreateApplication,
         CreateFails, CreateDropLoser, CreateLookup, CreateDiscard,
         JoinRead, JoinApplicants, LeaveRead, LeaveApplicants, SendStage, SendConversation,
         DecideReadListing, DecideStage, InviteRotate, DeleteApplication
      <4>4. ChatStep(r)
        BY <4>3, ChatStepOf
      <4> QED
        BY <1>0, <2>1, <3>1, <4>4, SecondWrite
    <3> QED
      BY <3>2, <3>3
  <2>3. CASE Agreed(a, s) /\ UNCHANGED convs
    <3>1. ASSUME NEW r \in Requests, req[r].user = s, Admitted(a, r) \/ Withdrawn(a, r)
          PROVE  OnTheWay(a, s)'
      BY <1>0, <3>1 DEF OnTheWay, Admitted, Withdrawn, Request
    <3>2. CASE s \in apps'[a].applicants <=> s \in apps[a].applicants
      BY <2>1, <2>3, <3>2 DEF Agreed
    <3> QED
      BY <1>2, <3>1, <3>2, ApplicantsChange
  <2>4. ASSUME Agreed(a, s), NEW r \in Requests, ChatStep(r)
        PROVE  Agreed(a, s)' \/ OnTheWay(a, s)'
    <3>0. apps' = apps
      BY <2>4 DEF ChatStep
    <3>1. CASE apps[a].conversation # req[r].conv
      BY <2>1, <2>4, <3>0, <3>1 DEF ChatStep, Agreed, Application
    <3>2. CASE apps[a].conversation = req[r].conv
      <4>1. req[r].pc \in Fetched /\ req[r].app = a /\ Open(req[r].conv)
        BY <2>1, <2>4, <3>2, WriterKnows
      <4>2. CASE req[r].user = s /\ req[r].pc \in {"joinConversation", "leaveConversation"}
        BY <2>2, <4>1, <4>2 DEF OnTheWay
      <4>3. CASE ~(req[r].user = s /\ req[r].pc \in {"joinConversation", "leaveConversation"})
        <5>1. req[r].pc = "sendConversation" => LandlordOf[req[r].listing] # s
          BY <1>0, OwnedTypes, RolesAssumption DEF Shaped, WithListing
        <5>2. s \in convs'[req[r].conv] <=> s \in convs[req[r].conv]
          BY <2>4, <4>1, <4>3, <5>1 DEF ChatStep, Writes, Moves, Grown, Shrunk, Fetched
        <5> QED
          BY <2>4, <3>0, <3>2, <5>2 DEF Agreed
      <4> QED
        BY <4>2, <4>3
    <3> QED
      BY <3>1, <3>2
  <2>5. Agreed(a, s) \/ OnTheWay(a, s)
    BY <1>0, <2>1 DEF MembershipAgrees, Agreed, OnTheWay
  <2> QED
    BY <2>2, <2>3, <2>4, <2>5, StepChats
<1> QED
  BY <1>1, <1>2

\* Joining and leaving are each two writes on two documents; whatever else is
\* in flight, the two agree on everybody none of whose requests is between
\* them, died there, or raced another of the same student's.
THEOREM GroupsAgree == Spec => []MembershipAgrees
<1>1. Init => Separate /\ HalfWay /\ MembershipAgrees
  BY DEF Init, Separate, HalfWay, MembershipAgrees, Exists, InFlight, Idle, Joining
<1>2. Owned => Typed
  BY DEF Owned
<1>3. Spec => [](Separate /\ HalfWay /\ MembershipAgrees)
  BY <1>1, <1>2, SeparateNext, HalfWayNext, AgreesNext, AlwaysInformed, PTL DEF Spec
<1> QED
  BY <1>3, PTL

=============================================================================
