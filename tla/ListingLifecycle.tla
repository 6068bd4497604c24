-------------------------- MODULE ListingLifecycle --------------------------
(***************************************************************************)
(* One listing from draft to deletion, and one socket of the `listings`    *)
(* namespace that is told about it (listings.service.ts,                   *)
(* listings.controller.ts, listings.gateway.ts).                           *)
(*                                                                         *)
(* Every write of the listing is one update of its document, followed by   *)
(* an emit to the rooms of its audience once the answer of the database    *)
(* has come back.  Between the two other requests write and emit.  The     *)
(* socket belongs to the listing's landlord or to a superuser; its client  *)
(* loads the listings once it is in its room, and then applies what it     *)
(* hears.                                                                  *)
(***************************************************************************)

CONSTANTS
    Requests,       \* slots for requests in flight (bound on concurrency)
    Students,       \* who may like the listing
    None            \* no document

Roles == {"STUDENT", "LANDLORD_AGENCY", "SUPERUSER"}
isListingsRole(role) == role # "STUDENT"

Listing == [isDraft : BOOLEAN, isVerified : BOOLEAN, located : BOOLEAN,
            likedBy : SUBSET Students]

ASSUME AbsenceAssumption == None \notin Listing

\* What a client can make of the listing.
Status == {"absent", "draft", "unverified", "verified"}

Pcs == {"idle", "update", "geocode", "mail", "publish", "delete", "emit"}
Events == {"listingCreated", "listingUpdated", "listingDeleted"}

\* `doc`: the document an emit is about; `publishing`: publish is not over yet.
Request == [pc : Pcs, event : Events, doc : Listing \cup {None}, publishing : BOOLEAN]

Phases == {"out", "joining", "scheduling", "open"}

VARIABLES
    listing,    \* the document, or None
    created,    \* whether it was ever created (bound: one listing)
    req,        \* the requests in flight
    socket,     \* handleConnection's progress, `connected`, its timers, its role
    account,    \* the socket's user: role now, session stored?, token unexpired?
    view,       \* the listing as the socket's client has it, None before it loads
    ahead,      \* history: of an update not emitted, the requests with an older one
    missed      \* history: whether the client may have missed an update

vars == <<listing, created, req, socket, account, view, ahead, missed>>

Idle == [pc |-> "idle", event |-> "listingUpdated", doc |-> None, publishing |-> FALSE]

StatusOf(doc) ==
    CASE doc = None -> "absent"
      [] doc # None /\ doc.isDraft -> "draft"
      [] doc # None /\ ~doc.isDraft /\ ~doc.isVerified -> "unverified"
      [] OTHER -> "verified"

\* findByLandlord; getAllUnverifiedListings and getAllVerifiedListings.
Sees(role, doc) ==
    IF role = "SUPERUSER" /\ StatusOf(doc) = "draft" THEN "absent" ELSE StatusOf(doc)

\* The client is still to load the listings, or has loaded them.
Watched == socket.phase = "out" \/ socket.connected

\* The requests whose update is not emitted yet.
Unsent == {r \in Requests : req[r].pc = "emit"}

\* An update that is not emitted now is missed by a client that has loaded
\* the listings, or that will yet hear of an older one.
Exposed == Watched /\ (view # None \/ Unsent # {})

InRoom == socket.connected /\ socket.phase \in {"scheduling", "open"}

Begin(r, request) == req[r].pc = "idle" /\ req' = [req EXCEPT ![r] = request]
End(r) == req' = [req EXCEPT ![r] = Idle]

\* The document becomes `doc`; its emit is still to come.
Written(r, event, doc, subject) ==
    /\ listing' = doc
    /\ req' = [req EXCEPT ![r] = [@ EXCEPT !.pc = "emit", !.event = event, !.doc = subject]]
    /\ ahead' = [ahead EXCEPT ![r] = Unsent]

\* The update of request r, if it made one, is not waited for any more.
Passed(r) == ahead' = [q \in Requests |-> IF q = r THEN {} ELSE ahead[q] \ {r}]

Init ==
    /\ listing = None
    /\ created = FALSE
    /\ req = [r \in Requests |-> Idle]
    /\ socket = [phase |-> "out", connected |-> FALSE, timers |-> FALSE,
                 role |-> "STUDENT"]
    /\ account \in [role : {r \in Roles : isListingsRole(r)}, session : {TRUE}, token : {TRUE}]
    /\ view = None
    /\ ahead = [r \in Requests |-> {}]
    /\ missed = FALSE

\* handleDisconnect clears the timers.  What the client of a socket that is
\* gone has, and may have missed, is looked at no more.
Gone(phase) ==
    /\ socket' = [socket EXCEPT !.phase = phase, !.connected = FALSE, !.timers = FALSE]
    /\ view' = None
    /\ missed' = FALSE

----------------------------------------------------------------------------
(* Altered forms of the definitions below, each a slip the code could have *)
(* made; put in the place of the original they show which property notices.*)

\* findOneAndUpdate without { new: true }.
PublishDraftOld(r) ==
    /\ req[r].pc = "publish"
    /\ IF listing = None
       THEN End(r) /\ UNCHANGED <<listing, ahead>>
       ELSE /\ listing' = [listing EXCEPT !.isDraft = FALSE]
            /\ req' = [req EXCEPT ![r] = [Idle EXCEPT !.pc = "emit", !.doc = listing]]
            /\ ahead' = [ahead EXCEPT ![r] = Unsent]
    /\ UNCHANGED <<created, socket, account, view, missed>>

ToEverybody(doc) == {"landlord", "superusers"}

\* An address that cannot be found is left out, and publishing goes on.
GeocodeSkipped(r) ==
    /\ req[r].pc = "geocode"
    /\ req' = [req EXCEPT ![r].pc = "mail"]
    /\ UNCHANGED <<listing, created, socket, account, view, ahead, missed>>

RevalidateUnconnected ==
    /\ socket.timers
    /\ IF account.session /\ account.role = socket.role
       THEN UNCHANGED <<socket, view, missed>>
       ELSE Gone(socket.phase)
    /\ UNCHANGED <<listing, created, req, account, ahead>>

RevalidateSessionOnly ==
    /\ socket.timers
    /\ IF socket.connected /\ account.session
       THEN UNCHANGED <<socket, view, missed>>
       ELSE Gone(socket.phase)
    /\ UNCHANGED <<listing, created, req, account, ahead>>

\* Without the default of isVerified.
CreateDraftUnset(r) ==
    /\ ~created
    /\ created' = TRUE
    /\ listing' = [isDraft |-> TRUE, isVerified |-> None, located |-> FALSE, likedBy |-> {}]
    /\ Begin(r, [Idle EXCEPT !.pc = "emit", !.event = "listingCreated"])
    /\ ahead' = [ahead EXCEPT ![r] = Unsent]
    /\ UNCHANGED <<socket, account, view, missed>>

----------------------------------------------------------------------------
(* POST /listings/draft, PATCH /listings/:id/createStep1..4                *)

CreateDraft(r) ==
    LET draft == [isDraft |-> TRUE, isVerified |-> FALSE, located |-> FALSE, likedBy |-> {}]
    IN  /\ req[r].pc = "idle"
        /\ ~created
        /\ created' = TRUE
        /\ Written(r, "listingCreated", draft, draft)
        /\ UNCHANGED <<socket, account, view, missed>>

\* OwnsListingGuard lets the landlord through: the owner never changes.
OwnsListing == listing # None

\* The whitelisted fields of a step are all optional; none of them is isDraft,
\* isVerified, likedBy or the location.
StepBody(doc) == doc

\* publish asks for the fields of all steps, and adds the location.
PublishBody(doc) == [doc EXCEPT !.located = TRUE]

EditBegin(r) ==
    /\ OwnsListing
    /\ Begin(r, [Idle EXCEPT !.pc = "update"])
    /\ UNCHANGED <<listing, created, socket, account, view, ahead, missed>>

UpdateDraft(r) ==
    /\ req[r].pc = "update"
    /\ IF listing = None
       THEN End(r) /\ UNCHANGED <<listing, ahead>>
       ELSE LET doc == IF req[r].publishing THEN PublishBody(listing) ELSE StepBody(listing)
            IN  Written(r, "listingUpdated", doc, doc)
    /\ UNCHANGED <<created, socket, account, view, missed>>

----------------------------------------------------------------------------
(* POST /listings/:id/publish                                              *)

PublishBegin(r) ==
    /\ OwnsListing
    /\ Begin(r, [Idle EXCEPT !.pc = "geocode", !.publishing = TRUE])
    /\ UNCHANGED <<listing, created, socket, account, view, ahead, missed>>

\* getCoordinates; an address that is not found ends the request.
Geocode(r) ==
    /\ req[r].pc = "geocode"
    /\ req' = [req EXCEPT ![r].pc = "update"]
    /\ UNCHANGED <<listing, created, socket, account, view, ahead, missed>>

Mail(r) ==
    /\ req[r].pc = "mail"
    /\ req' = [req EXCEPT ![r] = [Idle EXCEPT !.pc = "publish"]]
    /\ UNCHANGED <<listing, created, socket, account, view, ahead, missed>>

PublishDraft(r) ==
    /\ req[r].pc = "publish"
    /\ IF listing = None
       THEN End(r) /\ UNCHANGED <<listing, ahead>>
       ELSE LET doc == [listing EXCEPT !.isDraft = FALSE]
            IN  Written(r, "listingUpdated", doc, doc)
    /\ UNCHANGED <<created, socket, account, view, missed>>

----------------------------------------------------------------------------
(* DELETE /listings/:id                                                    *)

DeleteRead(r) ==
    /\ OwnsListing
    /\ Begin(r, [Idle EXCEPT !.pc = "delete", !.doc = listing])
    /\ UNCHANGED <<listing, created, socket, account, view, ahead, missed>>

\* The emit is about the document read before: `missed` when it was a draft
\* then and is published now, for superusers are not told.
DeleteOne(r) ==
    /\ req[r].pc = "delete"
    /\ Written(r, "listingDeleted", None, req[r].doc)
    /\ missed' = (missed \/ /\ listing # None /\ req[r].doc.isDraft # listing.isDraft
                            /\ Exposed)
    /\ UNCHANGED <<created, socket, account, view>>

----------------------------------------------------------------------------
(* Superusers and students                                                 *)

\* A superuser names any listing, a draft as well: only the id is looked at.
VerifyListing(r) ==
    /\ req[r].pc = "idle"
    /\ listing # None
    /\ LET doc == [listing EXCEPT !.isVerified = TRUE]
       IN  Written(r, "listingUpdated", doc, doc)
    /\ UNCHANGED <<created, socket, account, view, missed>>

Published == listing # None /\ listing.isVerified /\ ~listing.isDraft

LikeListing(s) ==
    /\ Published
    /\ listing' = [listing EXCEPT !.likedBy = @ \cup {s}]
    /\ UNCHANGED <<created, req, socket, account, view, ahead, missed>>

UnlikeListing(s) ==
    /\ Published
    /\ listing' = [listing EXCEPT !.likedBy = @ \ {s}]
    /\ UNCHANGED <<created, req, socket, account, view, ahead, missed>>

----------------------------------------------------------------------------
(* The gateway's emits                                                     *)

audienceRooms(doc) == IF doc.isDraft THEN {"landlord"} ELSE {"landlord", "superusers"}

RoomOf(role) == IF role = "SUPERUSER" THEN "superusers" ELSE "landlord"

Emit(r) ==
    LET rooms == audienceRooms(req[r].doc)
        heard == IF req[r].event = "listingDeleted" THEN "absent" ELSE StatusOf(req[r].doc)
    IN  /\ req[r].pc = "emit"
        /\ view' = IF InRoom /\ view # None /\ RoomOf(socket.role) \in rooms
                   THEN heard ELSE view
        /\ req' = [req EXCEPT ![r] =
             IF req[r].publishing THEN [Idle EXCEPT !.pc = "mail", !.publishing = TRUE]
             ELSE Idle]
        /\ missed' = (missed \/ (Watched /\ ahead[r] # {}))
        /\ Passed(r)
        /\ UNCHANGED <<listing, created, socket, account>>

----------------------------------------------------------------------------
(* The socket: afterInit, handleConnection, the two timers                 *)

Handshake ==
    /\ socket.phase = "out"
    /\ account.session /\ account.token /\ isListingsRole(account.role)
    /\ socket' = [socket EXCEPT !.phase = "joining", !.connected = TRUE,
                                !.role = account.role]
    /\ UNCHANGED <<listing, created, req, account, view, ahead, missed>>

Join ==
    /\ socket.phase = "joining"
    /\ socket' = [socket EXCEPT !.phase = "scheduling"]
    /\ UNCHANGED <<listing, created, req, account, view, ahead, missed>>

\* The await of join lies before: the client may be gone by now.
scheduleSessionChecks ==
    /\ socket.phase = "scheduling"
    /\ IF account.token
       THEN /\ socket' = [socket EXCEPT !.phase = "open", !.timers = TRUE]
            /\ UNCHANGED <<view, missed>>
       ELSE Gone("open")
    /\ UNCHANGED <<listing, created, req, account, ahead>>

\* Fires once; disconnect() does nothing to a socket that is gone.
Expiration ==
    /\ socket.timers /\ socket.connected
    /\ ~account.token
    /\ Gone(socket.phase)
    /\ UNCHANGED <<listing, created, req, account, ahead>>

revalidateClient ==
    /\ socket.timers
    /\ IF socket.connected /\ account.session /\ account.role = socket.role
       THEN UNCHANGED <<socket, view, missed>>
       ELSE Gone(socket.phase)
    /\ UNCHANGED <<listing, created, req, account, ahead>>

Disconnect ==
    /\ socket.connected
    /\ Gone(socket.phase)
    /\ UNCHANGED <<listing, created, req, account, ahead>>

----------------------------------------------------------------------------
(* The client, the account, the database, and requests that die            *)

Load ==
    /\ InRoom /\ view = None
    /\ view' = Sees(socket.role, listing)
    /\ UNCHANGED <<listing, created, req, socket, account, ahead, missed>>

\* Bound: only while the socket is connected.
AccountChanges ==
    /\ account' \in {[account EXCEPT !.session = FALSE], [account EXCEPT !.token = FALSE]}
                    \cup {[account EXCEPT !.role = role] : role \in Roles}
    /\ account' # account
    /\ socket.connected
    /\ UNCHANGED <<listing, created, req, socket, view, ahead, missed>>

\* The TTL index on createdAt, partial on isDraft: nothing is emitted.
DraftExpires ==
    /\ listing # None /\ listing.isDraft
    /\ listing' = None
    /\ missed' = (missed \/ Exposed)
    /\ UNCHANGED <<created, req, socket, account, view, ahead>>

\* Also a call that fails: geocoding, the mail, the database.
RequestDies(r) ==
    /\ req[r].pc # "idle"
    /\ missed' = (missed \/ (Exposed /\ req[r].pc = "emit"))
    /\ Passed(r)
    /\ End(r)
    /\ UNCHANGED <<listing, created, socket, account, view>>

Next ==
    \/ \E r \in Requests :
          \/ CreateDraft(r) \/ EditBegin(r) \/ UpdateDraft(r)
          \/ PublishBegin(r) \/ Geocode(r) \/ Mail(r) \/ PublishDraft(r)
          \/ DeleteRead(r) \/ DeleteOne(r) \/ VerifyListing(r)
          \/ Emit(r) \/ RequestDies(r)
    \/ \E s \in Students : LikeListing(s) \/ UnlikeListing(s)
    \/ Load \/ AccountChanges \/ DraftExpires
    \/ Handshake \/ Join \/ scheduleSessionChecks \/ Expiration
    \/ revalidateClient \/ Disconnect

\* handleConnection goes on and its timers fire.
Fairness ==
    /\ WF_vars(Join) /\ WF_vars(scheduleSessionChecks)
    /\ WF_vars(Expiration) /\ WF_vars(revalidateClient)

Spec == Init /\ [][Next]_vars /\ Fairness

----------------------------------------------------------------------------
(* What the listing and the gateway promise                                *)

\* The documents keep to listings.schema.ts.
TypeOK ==
    /\ listing \in Listing \cup {None}
    /\ created \in BOOLEAN
    /\ req \in [Requests -> Request]
    /\ socket \in [phase : Phases, connected : BOOLEAN, timers : BOOLEAN, role : Roles]
    /\ account \in [role : Roles, session : BOOLEAN, token : BOOLEAN]
    /\ view \in Status \cup {None}
    /\ ahead \in [Requests -> SUBSET Requests]
    /\ missed \in BOOLEAN

\* A listing leaves draft with its location: search by distance must find it,
\* whatever edits, deletions and other publications run beside it.
PublishedIsLocated == listing # None /\ ~listing.isDraft => listing.located

\* A superuser is shown finished listings only: what the client has is never
\* a draft, and however old that is, the listing it stands for is published,
\* with its location, or deleted.
ShownIsFinished ==
    socket.role = "SUPERUSER" /\ view \notin {None, "absent"} =>
        /\ view # "draft"
        /\ listing = None \/ (~listing.isDraft /\ listing.located)

\* When all updates are emitted, the client of a socket in its room has the
\* listing as the database does, draft and deletion included, unless emits
\* overtook each other, a request died before its emit, a delete had read
\* a draft (superusers are not told), or the TTL index removed the draft.
ViewAgrees ==
    InRoom /\ view # None /\ Unsent = {} /\ ~missed => view = Sees(socket.role, listing)

\* A socket whose session ended, whose token ran out or whose user changed
\* role is disconnected, also when that happens while it connects.
StaleDropped ==
    (socket.connected /\ ~(account.session /\ account.token /\ account.role = socket.role))
        ~> (~socket.connected \/ (account.session /\ account.token
                                  /\ account.role = socket.role))

\* The timers of a socket that is gone are cleared, also those set after it
\* went, between join and scheduleSessionChecks.
TimersGo == ~socket.connected ~> (~socket.timers \/ socket.connected)

=============================================================================
