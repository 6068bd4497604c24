----------------------- MODULE ListingLifecycleProofs -----------------------
(***************************************************************************)
(* Theorems about ListingLifecycle, for any number of requests in flight   *)
(* and of students.                                                        *)
(***************************************************************************)
EXTENDS ListingLifecycle, TLAPS

----------------------------------------------------------------------------
(* The inductive invariant                                                 *)

\* An emit, and a deletion, are about a document; publish is one request.
Shaped(q) ==
    /\ q.pc \in {"emit", "delete"} => q.doc \in Listing
    /\ q.publishing => q.pc \in {"geocode", "update", "emit", "mail"}

\* The location is there from the first update of publish on, and what is
\* told to superusers is published.
Fits(q, doc) ==
    doc # None =>
        /\ q.pc \in {"mail", "publish"} \/ (q.pc = "emit" /\ q.publishing) => doc.located
        /\ q.pc = "emit" /\ ~q.doc.isDraft => ~doc.isDraft

Sound(doc) == doc # None /\ ~doc.isDraft => doc.located

Inv ==
    /\ listing \in Listing \cup {None}
    /\ req \in [Requests -> Request]
    /\ \A r \in Requests : Shaped(req[r]) /\ Fits(req[r], listing)
    /\ Sound(listing)
    /\ ~created => listing = None /\ \A r \in Requests : req[r].pc = "idle"

\* A listing is never a draft again, and never loses its location.
Keeps(old, new) ==
    new # None => /\ old # None
                  /\ old.located => new.located
                  /\ ~old.isDraft => ~new.isDraft

LEMMA IdleFits == Idle \in Request /\ Idle.pc = "idle" /\ Shaped(Idle) /\ \A doc : Fits(Idle, doc)
  BY DEF Idle, Request, Pcs, Events, Shaped, Fits

LEMMA InvInit == Init => Inv
<1> SUFFICES ASSUME Init PROVE Inv
  OBVIOUS
<1>1. /\ req \in [Requests -> Request]
      /\ \A r \in Requests : req[r].pc = "idle" /\ Shaped(req[r]) /\ Fits(req[r], listing)
  BY IdleFits DEF Init
<1> QED
  BY <1>1 DEF Init, Inv, Sound

\* One request goes from one call to another.
LEMMA InvStep ==
    ASSUME Inv, NEW r \in Requests, NEW q \in Request, Shaped(q), Fits(q, listing'),
           req' = [req EXCEPT ![r] = q], listing' \in Listing \cup {None},
           Keeps(listing, listing'), Sound(listing'), created'
    PROVE  Inv'
<1>1. req \in [Requests -> Request]
  BY DEF Inv
<1>2. \A p \in Requests : req'[p] = q \/ req'[p] = req[p]
  BY <1>1
<1>3. req' \in [Requests -> Request]
  BY <1>1
<1>4. ASSUME NEW p \in Requests, req'[p] = req[p]
      PROVE  Shaped(req'[p]) /\ Fits(req'[p], listing')
  <2>1. Shaped(req[p]) /\ Fits(req[p], listing)
    BY DEF Inv
  <2> QED
    BY <1>4, <2>1 DEF Fits, Keeps
<1> QED
  BY <1>2, <1>3, <1>4 DEF Inv

\* No request is concerned.
LEMMA InvStill ==
    ASSUME Inv, UNCHANGED <<req, created>>, listing' \in Listing \cup {None},
           Keeps(listing, listing'), Sound(listing'),
           ~created => listing' = None
    PROVE  Inv'
<1>1. ASSUME NEW p \in Requests PROVE Shaped(req[p]) /\ Fits(req[p], listing')
  <2>1. Shaped(req[p]) /\ Fits(req[p], listing)
    BY DEF Inv
  <2> QED
    BY <2>1 DEF Fits, Keeps
<1> QED
  BY <1>1 DEF Inv

\* The listing is updated, and the emit about it is still to come.
LEMMA InvWritten ==
    ASSUME Inv, NEW r \in Requests, NEW event \in Events, NEW doc \in Listing \cup {None},
           NEW subject \in Listing, Written(r, event, doc, subject),
           req[r].publishing => req[r].pc = "update" /\ (doc # None => doc.located),
           doc # None /\ ~subject.isDraft => ~doc.isDraft,
           Keeps(listing, doc), Sound(doc), created'
    PROVE  Inv'
<1> DEFINE q == [req[r] EXCEPT !.pc = "emit", !.event = event, !.doc = subject]
<1>1. req[r] \in Request
  BY DEF Inv
<1>2. /\ q \in Request /\ q.pc = "emit" /\ q.doc = subject
      /\ q.publishing = req[r].publishing
  BY <1>1 DEF Request, Pcs
<1>3. req' = [req EXCEPT ![r] = q] /\ listing' = doc
  BY DEF Written
<1> HIDE DEF q
<1>4. Shaped(q) /\ Fits(q, doc)
  BY <1>2 DEF Shaped, Fits
<1> QED
  BY <1>2, <1>3, <1>4, InvStep

LEMMA InvNext == Inv /\ [Next]_vars => Inv'
<1> SUFFICES ASSUME Inv, [Next]_vars PROVE Inv'
  OBVIOUS
<1>0. /\ req \in [Requests -> Request] /\ listing \in Listing \cup {None}
      /\ \A r \in Requests : Shaped(req[r]) /\ Fits(req[r], listing) /\ req[r] \in Request
      /\ Sound(listing)
      /\ ~created => listing = None /\ \A r \in Requests : req[r].pc = "idle"
      /\ None \notin Listing
  BY AbsenceAssumption DEF Inv
<1>1. ASSUME NEW r \in Requests, CreateDraft(r) PROVE Inv'
  <2> DEFINE draft == [isDraft |-> TRUE, isVerified |-> FALSE, located |-> FALSE, likedBy |-> {}]
             q == [req[r] EXCEPT !.pc = "emit", !.event = "listingCreated", !.doc = draft]
  <2>1. /\ req[r].pc = "idle" /\ ~created /\ created' = TRUE
        /\ listing' = draft /\ req' = [req EXCEPT ![r] = q]
    BY <1>1 DEF CreateDraft, Written
  <2>2. draft \in Listing /\ draft.isDraft /\ ~draft.isVerified /\ draft.likedBy = {}
    BY DEF Listing
  <2>3. /\ q \in Request /\ q.pc = "emit" /\ q.doc = draft /\ q.publishing = req[r].publishing
    <3> HIDE DEF draft
    <3> QED
      BY <1>0, <2>2 DEF Request, Pcs, Events
  <2>4. ~req[r].publishing
    BY <1>0, <2>1 DEF Shaped
  <2> HIDE DEF draft, q
  <2>5. \A p \in Requests : req'[p] = q \/ (req'[p].pc = "idle" /\ req'[p] = req[p])
    <3>1. \A p \in Requests : req[p].pc = "idle"
      BY <1>0, <2>1
    <3>2. req' = [req EXCEPT ![r] = q]
      BY <2>1
    <3>3. \A p \in Requests : req'[p] = q \/ req'[p] = req[p]
      BY <1>0, <3>2
    <3> QED
      BY <3>1, <3>3
  <2>6. Shaped(q) /\ Fits(q, draft)
    BY <2>2, <2>3, <2>4 DEF Shaped, Fits
  <2>7. \A p \in Requests : Shaped(req'[p]) /\ Fits(req'[p], draft)
    BY <1>0, <2>5, <2>6 DEF Fits
  <2>8. Sound(draft)
    BY <1>0, <2>1, <2>2 DEF Sound
  <2>9. req' \in [Requests -> Request]
    BY <1>0, <2>1, <2>3
  <2> QED
    BY <1>0, <2>1, <2>2, <2>7, <2>8, <2>9 DEF Inv
<1>2. ASSUME NEW r \in Requests, EditBegin(r) \/ PublishBegin(r) \/ DeleteRead(r) PROVE Inv'
  <2>1. listing # None /\ UNCHANGED <<listing, created>>
    BY <1>2 DEF EditBegin, PublishBegin, DeleteRead, OwnsListing
  <2>2. PICK q : /\ q \in {[Idle EXCEPT !.pc = "update"],
                            [Idle EXCEPT !.pc = "geocode", !.publishing = TRUE],
                            [Idle EXCEPT !.pc = "delete", !.doc = listing]}
                 /\ req' = [req EXCEPT ![r] = q]
    BY <1>2 DEF EditBegin, PublishBegin, DeleteRead, Begin
  <2>3. q \in Request /\ Shaped(q) /\ q.pc \in {"update", "geocode", "delete"}
    BY <1>0, <2>1, <2>2 DEF Idle, Request, Pcs, Events, Shaped
  <2>4. Fits(q, listing) /\ Keeps(listing, listing)
    BY <2>3 DEF Fits, Keeps
  <2> QED
    BY <1>0, <2>1, <2>2, <2>3, <2>4, InvStep
<1>3. ASSUME NEW r \in Requests, UpdateDraft(r) PROVE Inv'
  <2>0. req[r].pc = "update" /\ UNCHANGED <<created>> /\ created
    BY <1>0, <1>3 DEF UpdateDraft
  <2>1. CASE listing = None
    <3>1. req' = [req EXCEPT ![r] = Idle] /\ listing' = listing
      BY <1>3, <2>1 DEF UpdateDraft, End
    <3> QED
      BY <1>0, <2>0, <2>1, <3>1, IdleFits, InvStep DEF Keeps
  <2>2. CASE listing # None
    <3> DEFINE doc == IF req[r].publishing THEN PublishBody(listing) ELSE StepBody(listing)
    <3>1. Written(r, "listingUpdated", doc, doc)
      BY <1>3, <2>2 DEF UpdateDraft
    <3>2. /\ doc \in Listing /\ doc.isDraft = listing.isDraft
          /\ doc.isVerified = listing.isVerified /\ doc.likedBy = listing.likedBy
          /\ listing.located => doc.located
          /\ req[r].publishing => doc.located
      BY <1>0, <2>2 DEF PublishBody, StepBody, Listing
    <3> HIDE DEF doc
    <3>3. Keeps(listing, doc) /\ Sound(doc)
      BY <1>0, <2>2, <3>2 DEF Keeps, Sound
    <3> QED
      BY <1>0, <2>0, <3>1, <3>2, <3>3, InvWritten DEF Events
  <2> QED
    BY <2>1, <2>2
<1>4. ASSUME NEW r \in Requests, Geocode(r) \/ Mail(r) PROVE Inv'
  <2>0. UNCHANGED <<listing, created>> /\ created /\ Keeps(listing, listing)
    BY <1>0, <1>4 DEF Geocode, Mail, Keeps
  <2>1. CASE Geocode(r)
    <3> DEFINE q == [req[r] EXCEPT !.pc = "update"]
    <3>1. req[r].pc = "geocode" /\ req' = [req EXCEPT ![r] = q]
      BY <2>1 DEF Geocode
    <3>2. q \in Request /\ q.pc = "update"
      BY <1>0 DEF Request, Pcs
    <3> HIDE DEF q
    <3>3. Shaped(q) /\ Fits(q, listing)
      BY <3>2 DEF Shaped, Fits
    <3> QED
      BY <1>0, <2>0, <3>1, <3>2, <3>3, InvStep
  <2>2. CASE Mail(r)
    <3> DEFINE q == [Idle EXCEPT !.pc = "publish"]
    <3>1. req[r].pc = "mail" /\ req' = [req EXCEPT ![r] = q]
      BY <2>2 DEF Mail
    <3>2. q \in Request /\ q.pc = "publish" /\ ~q.publishing
      BY DEF Idle, Request, Pcs, Events
    <3> HIDE DEF q
    <3>3. Shaped(q) /\ Fits(q, listing)
      BY <1>0, <3>1, <3>2 DEF Shaped, Fits
    <3> QED
      BY <1>0, <2>0, <3>1, <3>2, <3>3, InvStep
  <2> QED
    BY <1>4, <2>1, <2>2
<1>5. ASSUME NEW r \in Requests, PublishDraft(r) PROVE Inv'
  <2>0. req[r].pc = "publish" /\ UNCHANGED <<created>> /\ created
    BY <1>0, <1>5 DEF PublishDraft
  <2>1. CASE listing = None
    <3>1. req' = [req EXCEPT ![r] = Idle] /\ listing' = listing
      BY <1>5, <2>1 DEF PublishDraft, End
    <3> QED
      BY <1>0, <2>0, <2>1, <3>1, IdleFits, InvStep DEF Keeps
  <2>2. CASE listing # None
    <3> DEFINE doc == [listing EXCEPT !.isDraft = FALSE]
    <3>1. Written(r, "listingUpdated", doc, doc)
      BY <1>5, <2>2 DEF PublishDraft
    <3>2. /\ doc \in Listing /\ ~doc.isDraft /\ doc.located = listing.located
          /\ doc.isVerified = listing.isVerified /\ doc.likedBy = listing.likedBy
      BY <1>0, <2>2 DEF Listing
    <3>3. listing.located /\ ~req[r].publishing
      BY <1>0, <2>0, <2>2 DEF Fits, Shaped
    <3> HIDE DEF doc
    <3>4. Keeps(listing, doc) /\ Sound(doc)
      BY <1>0, <2>2, <3>2, <3>3 DEF Keeps, Sound
    <3> QED
      BY <1>0, <2>0, <3>1, <3>2, <3>3, <3>4, InvWritten DEF Events
  <2> QED
    BY <2>1, <2>2
<1>6. ASSUME NEW r \in Requests, DeleteOne(r) PROVE Inv'
  <2>1. /\ req[r].pc = "delete" /\ UNCHANGED <<created>> /\ created
        /\ Written(r, "listingDeleted", None, req[r].doc)
    BY <1>0, <1>6 DEF DeleteOne
  <2>2. req[r].doc \in Listing /\ ~req[r].publishing
    BY <1>0, <2>1 DEF Shaped
  <2>3. Keeps(listing, None) /\ Sound(None)
    BY DEF Keeps, Sound
  <2> QED
    BY <1>0, <2>1, <2>2, <2>3, InvWritten DEF Events
<1>7. ASSUME NEW r \in Requests, VerifyListing(r) PROVE Inv'
  <2> DEFINE doc == [listing EXCEPT !.isVerified = TRUE]
  <2>1. /\ req[r].pc = "idle" /\ listing # None /\ UNCHANGED <<created>>
        /\ created /\ Written(r, "listingUpdated", doc, doc)
    BY <1>0, <1>7 DEF VerifyListing
  <2>2. /\ doc \in Listing /\ doc.isVerified /\ doc.located = listing.located
        /\ doc.isDraft = listing.isDraft
    BY <1>0, <2>1 DEF Listing
  <2>3. ~req[r].publishing
    BY <1>0, <2>1 DEF Shaped
  <2> HIDE DEF doc
  <2>4. Keeps(listing, doc) /\ Sound(doc)
    BY <1>0, <2>1, <2>2 DEF Keeps, Sound
  <2> QED
    BY <1>0, <2>1, <2>2, <2>3, <2>4, InvWritten DEF Events
<1>8. ASSUME NEW r \in Requests, Emit(r) PROVE Inv'
  <2> DEFINE q == IF req[r].publishing THEN [Idle EXCEPT !.pc = "mail", !.publishing = TRUE]
                  ELSE Idle
  <2>1. /\ req[r].pc = "emit" /\ req' = [req EXCEPT ![r] = q] /\ UNCHANGED <<listing, created>>
    BY <1>8 DEF Emit
  <2>2. created /\ req[r].doc \in Listing
    BY <1>0, <2>1 DEF Shaped
  <2>3. /\ q \in Request /\ Shaped(q)
        /\ q.pc = "idle" \/ (q.pc = "mail" /\ req[r].publishing)
    <3>1. CASE req[r].publishing
      BY <3>1 DEF Idle, Request, Pcs, Events, Shaped
    <3>2. CASE ~req[r].publishing
      BY <3>2, IdleFits
    <3> QED
      BY <3>1, <3>2
  <2> HIDE DEF q
  <2>4. Fits(q, listing) /\ Keeps(listing, listing)
    BY <1>0, <2>1, <2>3 DEF Fits, Keeps
  <2> QED
    BY <1>0, <2>1, <2>2, <2>3, <2>4, InvStep
<1>9. ASSUME NEW r \in Requests, RequestDies(r) PROVE Inv'
  <2>1. /\ req[r].pc # "idle" /\ req' = [req EXCEPT ![r] = Idle]
        /\ UNCHANGED <<listing, created>>
    BY <1>9 DEF RequestDies, End
  <2>2. created
    BY <1>0, <2>1
  <2> QED
    BY <1>0, <2>1, <2>2, IdleFits, InvStep DEF Keeps
<1>10. ASSUME NEW s \in Students, LikeListing(s) \/ UnlikeListing(s) PROVE Inv'
  <2>1. /\ listing # None /\ listing.isVerified /\ ~listing.isDraft
        /\ UNCHANGED <<created, req>>
    BY <1>10 DEF LikeListing, UnlikeListing, Published
  <2>2. \E S \in SUBSET Students : listing' = [listing EXCEPT !.likedBy = S]
    BY <1>0, <1>10, <2>1 DEF LikeListing, UnlikeListing, Listing
  <2>3. /\ listing' \in Listing /\ listing'.isVerified /\ ~listing'.isDraft
        /\ listing'.located = listing.located
    BY <1>0, <2>1, <2>2 DEF Listing
  <2>4. Keeps(listing, listing') /\ Sound(listing')
    BY <1>0, <2>1, <2>3 DEF Keeps, Sound
  <2> QED
    BY <1>0, <2>1, <2>3, <2>4, InvStill
<1>11. CASE Load \/ DraftExpires
  <2>1. /\ UNCHANGED <<created, req>>
        /\ listing' = listing \/ listing' = None
    BY <1>11 DEF Load, DraftExpires
  <2>2. Keeps(listing, listing') /\ Sound(listing')
    BY <1>0, <2>1 DEF Keeps, Sound
  <2> QED
    BY <1>0, <2>1, <2>2, InvStill
<1>12. CASE \/ Handshake \/ Join \/ scheduleSessionChecks \/ Expiration \/ revalidateClient
            \/ Disconnect \/ AccountChanges \/ UNCHANGED vars
  <2>1. UNCHANGED <<listing, created, req>>
    BY <1>12 DEF Handshake, Join, scheduleSessionChecks, Expiration, revalidateClient,
                 Disconnect, AccountChanges, vars
  <2>2. Keeps(listing, listing)
    BY DEF Keeps
  <2> QED
    BY <1>0, <2>1, <2>2, InvStill
<1> QED
  BY <1>1, <1>2, <1>3, <1>4, <1>5, <1>6, <1>7, <1>8, <1>9, <1>10, <1>11, <1>12 DEF Next

----------------------------------------------------------------------------
(* The theorems                                                            *)

\* A listing that is no draft has its location, whatever edits, deletions,
\* verifications and other publications run beside its publication.
THEOREM Located == Spec => []PublishedIsLocated
<1>1. Inv => PublishedIsLocated
  BY DEF Inv, Sound, PublishedIsLocated
<1> QED
  BY <1>1, InvInit, InvNext, PTL DEF Spec

----------------------------------------------------------------------------
(* Types                                                                   *)

Sockets == [phase : Phases, connected : BOOLEAN, timers : BOOLEAN, role : Roles]
Accounts == [role : Roles, session : BOOLEAN, token : BOOLEAN]

\* What Inv does not say of the variables.
RestTyped ==
    /\ created \in BOOLEAN /\ missed \in BOOLEAN
    /\ socket \in Sockets /\ account \in Accounts
    /\ view \in Status \cup {None}
    /\ ahead \in [Requests -> SUBSET Requests]

LEMMA SeenStatus ==
    \A doc, role : StatusOf(doc) \in Status /\ Sees(role, doc) \in Status
  BY DEF StatusOf, Sees, Status

LEMMA RestInit == Init => RestTyped
<1> SUFFICES ASSUME Init PROVE RestTyped
  OBVIOUS
<1>1. account \in Accounts
  BY DEF Init, Accounts
<1>2. socket \in Sockets
  BY DEF Init, Sockets, Phases, Roles
<1> QED
  BY <1>1, <1>2 DEF Init, RestTyped

LEMMA RestGone ==
    ASSUME RestTyped, NEW phase \in Phases, Gone(phase),
           UNCHANGED <<created, account, ahead>>
    PROVE  RestTyped'
  BY DEF RestTyped, Gone, Sockets

LEMMA RestNext == RestTyped /\ [Next]_vars => RestTyped'
<1> SUFFICES ASSUME RestTyped, [Next]_vars PROVE RestTyped'
  OBVIOUS
<1>0. ASSUME UNCHANGED <<socket, account, view>>, created' \in BOOLEAN, missed' \in BOOLEAN,
             ahead' \in [Requests -> SUBSET Requests]
      PROVE  RestTyped'
  BY <1>0 DEF RestTyped
<1>1. ASSUME NEW r \in Requests,
             \/ CreateDraft(r) \/ UpdateDraft(r) \/ PublishDraft(r) \/ DeleteOne(r)
             \/ VerifyListing(r)
      PROVE  RestTyped'
  <2>1. ahead' \in [Requests -> SUBSET Requests]
    BY <1>1 DEF CreateDraft, UpdateDraft, PublishDraft, DeleteOne, VerifyListing, Written,
                Unsent, RestTyped
  <2>2. created' \in BOOLEAN /\ missed' \in BOOLEAN /\ UNCHANGED <<socket, account, view>>
    BY <1>1 DEF CreateDraft, UpdateDraft, PublishDraft, DeleteOne, VerifyListing, RestTyped,
                Exposed, Watched
  <2> QED
    BY <1>0, <2>1, <2>2
<1>2. ASSUME NEW r \in Requests, RequestDies(r) PROVE RestTyped'
  <2>1. ahead' \in [Requests -> SUBSET Requests]
    BY <1>2 DEF RequestDies, Passed, RestTyped
  <2>2. created' \in BOOLEAN /\ missed' \in BOOLEAN /\ UNCHANGED <<socket, account, view>>
    BY <1>2 DEF RequestDies, RestTyped, Exposed, Watched
  <2> QED
    BY <1>0, <2>1, <2>2
<1>3. ASSUME NEW r \in Requests, Emit(r) PROVE RestTyped'
  <2>1. ahead' \in [Requests -> SUBSET Requests]
    BY <1>3 DEF Emit, Passed, RestTyped
  <2>2. view' \in Status \cup {None}
    BY <1>3, SeenStatus DEF Emit, RestTyped, Status
  <2>3. created' \in BOOLEAN /\ missed' \in BOOLEAN /\ UNCHANGED <<socket, account>>
    BY <1>3 DEF Emit, RestTyped, Watched
  <2> QED
    BY <2>1, <2>2, <2>3 DEF RestTyped
<1>4. ASSUME NEW r \in Requests,
             EditBegin(r) \/ PublishBegin(r) \/ Geocode(r) \/ Mail(r) \/ DeleteRead(r)
      PROVE  RestTyped'
  BY <1>4 DEF EditBegin, PublishBegin, Geocode, Mail, DeleteRead, RestTyped
<1>5. ASSUME NEW s \in Students, LikeListing(s) \/ UnlikeListing(s) PROVE RestTyped'
  BY <1>5 DEF LikeListing, UnlikeListing, RestTyped
<1>6. CASE DraftExpires \/ UNCHANGED vars
  BY <1>6 DEF DraftExpires, vars, RestTyped, Exposed, Watched
<1>7. CASE Load
  BY <1>7, SeenStatus DEF Load, RestTyped
<1>8. CASE AccountChanges
  BY <1>8 DEF AccountChanges, RestTyped, Accounts
<1>9. CASE Handshake \/ Join
  BY <1>9 DEF Handshake, Join, RestTyped, Sockets, Accounts, Phases
<1>10. CASE scheduleSessionChecks
  <2>1. CASE Gone("open")
    BY <1>10, <2>1, RestGone DEF scheduleSessionChecks, Phases
  <2>2. CASE ~Gone("open")
    BY <1>10, <2>2 DEF scheduleSessionChecks, RestTyped, Sockets, Phases
  <2> QED
    BY <2>1, <2>2
<1>11. CASE Expiration \/ revalidateClient \/ Disconnect
  <2>1. socket.phase \in Phases
    BY DEF RestTyped, Sockets
  <2>2. CASE Gone(socket.phase)
    BY <1>11, <2>1, <2>2, RestGone DEF Expiration, revalidateClient, Disconnect
  <2>3. CASE ~Gone(socket.phase)
    BY <1>11, <2>3 DEF Expiration, revalidateClient, Disconnect, RestTyped
  <2> QED
    BY <2>2, <2>3
<1> QED
  BY <1>1, <1>2, <1>3, <1>4, <1>5, <1>6, <1>7, <1>8, <1>9, <1>10, <1>11 DEF Next

\* The documents keep to listings.schema.ts: whatever was read before, no
\* write of a request or of a socket gives a field a value it does not have.
THEOREM ListingTyped == Spec => []TypeOK
<1>1. Inv /\ RestTyped => TypeOK
  BY DEF Inv, RestTyped, TypeOK, Sockets, Accounts
<1> QED
  BY <1>1, RestInit, InvInit, InvNext, RestNext, PTL DEF Spec

----------------------------------------------------------------------------
(* What the client will have heard                                         *)

\* What an emit says to those it is for, and whether superusers are.
Heard(q) == IF q.event = "listingDeleted" THEN "absent" ELSE StatusOf(q.doc)
Deletes(q) == q.event = "listingDeleted"
Told(q) == ~q.doc.isDraft

Public == {"unverified", "verified"}
Following == Watched /\ ~missed

\* The updates not emitted are in a row.
Ordered ==
    \A p \in Requests :
        /\ ahead[p] \subseteq Unsent \ {p}
        /\ p \notin Unsent => ahead[p] = {}
        /\ \A q \in Unsent : p \in Unsent /\ p # q => p \in ahead[q] \/ q \in ahead[p]

\* Nothing but another deletion is done to a deleted listing.
DeletedLast ==
    \A p, q \in Unsent : Deletes(req[p]) =>
        /\ StatusOf(listing) = "absent"
        /\ p \in ahead[q] => Deletes(req[q])

\* The last emit will tell what the listing is.
Newest ==
    Following => \A r \in Unsent :
        Unsent \ {r} \subseteq ahead[r] => Heard(req[r]) = StatusOf(listing)

\* Superusers who saw the listing published see it still, or will be told
\* that it is deleted.
Farewell == \E q \in Unsent : Deletes(req[q]) /\ Told(req[q])
Current == StatusOf(listing) \in Public \/ Farewell

Announced ==
    Following => \A r \in Unsent : ~Deletes(req[r]) /\ Told(req[r]) => Current

SuperuserSees ==
    (Following /\ socket.role = "SUPERUSER" /\ view \notin {None, "absent"}) => Current

\* Only a socket in its room has loaded anything; timers come last.
Loaded ==
    /\ view # None => InRoom
    /\ socket.phase = "out" => ~socket.connected /\ ~socket.timers

Agreeing == Ordered /\ DeletedLast /\ Newest /\ Announced /\ SuperuserSees /\ ViewAgrees

----------------------------------------------------------------------------
(* The steps, as the client will come to know them                         *)

\* Nothing the client is told of changes; it may go.
Unheard ==
    /\ Unsent' = Unsent /\ \A r \in Unsent : req'[r] = req[r]
    /\ ahead' = ahead
    /\ StatusOf(listing') = StatusOf(listing)
    /\ Following' => Following
    /\ \/ /\ view' = view /\ missed' = missed
          /\ view # None => socket'.role = socket.role
       \/ view' = None

\* An update, its emit still to come.
Updated(r) ==
    /\ r \in Requests \ Unsent /\ Unsent' = Unsent \cup {r}
    /\ \A q \in Unsent : req'[q] = req[q]
    /\ ahead' = [ahead EXCEPT ![r] = Unsent]
    /\ UNCHANGED <<view, socket>>
    /\ missed => missed'
    /\ Heard(req'[r]) = StatusOf(listing')
    /\ \/ /\ Deletes(req'[r])
          /\ (StatusOf(listing) \in Public /\ ~Told(req'[r]) /\ Exposed) => missed'
       \/ /\ ~Deletes(req'[r])
          /\ StatusOf(listing) # "absent" \/ Unsent = {}
          /\ StatusOf(listing) \in Public => StatusOf(listing') \in Public
          /\ Told(req'[r]) => StatusOf(listing') \in Public

\* The client hears an emit that is its turn.
Hears(r) ==
    /\ ahead[r] = {}
    /\ view' = IF view # None /\ (socket.role = "SUPERUSER" => Told(req[r]))
               THEN Heard(req[r]) ELSE view

\* An emit, or the end of a request before its emit.
Emitted(r) ==
    /\ r \in Unsent /\ Unsent' = Unsent \ {r}
    /\ \A q \in Unsent \ {r} : req'[q] = req[q]
    /\ Passed(r)
    /\ UNCHANGED <<listing, socket>>
    /\ missed => missed'
    /\ missed' \/ ~Watched \/ Hears(r)

\* The client loads the listing; or the draft expires, and it is not told.
Looked ==
    /\ UNCHANGED <<listing, req, ahead, socket, missed>>
    /\ view' = Sees(socket.role, listing)

Expired ==
    /\ StatusOf(listing) = "draft" /\ StatusOf(listing') = "absent"
    /\ UNCHANGED <<req, ahead, socket, view>>
    /\ missed' = (missed \/ Exposed)

LEMMA StatusIs ==
    ASSUME NEW doc \in Listing \cup {None}
    PROVE  /\ StatusOf(doc) = "absent" <=> doc = None
           /\ doc # None => /\ StatusOf(doc) = "draft" <=> doc.isDraft
                            /\ StatusOf(doc) \in Public <=> ~doc.isDraft
  BY DEF StatusOf, Public

LEMMA WrittenUpdates ==
    ASSUME Inv, NEW r \in Requests, req[r].pc # "emit",
           NEW event, NEW doc, NEW subject, Written(r, event, doc, subject)
    PROVE  /\ r \in Requests \ Unsent /\ Unsent' = Unsent \cup {r}
           /\ \A q \in Unsent : req'[q] = req[q]
           /\ ahead' = [ahead EXCEPT ![r] = Unsent]
           /\ req'[r].event = event /\ req'[r].doc = subject /\ listing' = doc
<1>1. /\ req \in [Requests -> Request] /\ req[r] \in Request
      /\ req' = [req EXCEPT ![r] = [req[r] EXCEPT !.pc = "emit", !.event = event,
                                                  !.doc = subject]]
  BY DEF Inv, Written
<1>2. /\ req'[r].pc = "emit" /\ req'[r].event = event /\ req'[r].doc = subject
      /\ \A q \in Requests \ {r} : req'[q] = req[q]
  BY <1>1 DEF Request
<1>3. Unsent' = Unsent \cup {r} /\ r \notin Unsent
  BY <1>2 DEF Unsent
<1> QED
  BY <1>2, <1>3 DEF Written, Unsent

LEMMA UpdateStep ==
    ASSUME Inv, NEW r \in Requests,
           \/ CreateDraft(r) \/ (UpdateDraft(r) /\ listing # None)
           \/ (PublishDraft(r) /\ listing # None) \/ DeleteOne(r) \/ VerifyListing(r)
    PROVE  Updated(r)
<1>0. /\ listing \in Listing \cup {None} /\ None \notin Listing
      /\ ~created => listing = None /\ Unsent = {}
      /\ Shaped(req[r])
  BY AbsenceAssumption DEF Inv, Unsent
<1>1. ASSUME NEW event \in Events, NEW doc \in Listing, Written(r, event, doc, doc),
             event # "listingDeleted", req[r].pc # "emit", UNCHANGED <<view, socket, missed>>,
             listing # None \/ Unsent = {},
             listing # None /\ ~listing.isDraft => ~doc.isDraft
      PROVE  Updated(r)
  <2>1. /\ ~Deletes(req'[r]) /\ Heard(req'[r]) = StatusOf(listing') /\ listing' = doc
        /\ Told(req'[r]) <=> ~doc.isDraft
    BY <1>1, WrittenUpdates DEF Deletes, Heard, Told
  <2>2. /\ StatusOf(listing) # "absent" \/ Unsent = {}
        /\ StatusOf(listing) \in Public => StatusOf(doc) \in Public
        /\ ~doc.isDraft => StatusOf(doc) \in Public
    BY <1>0, <1>1, StatusIs DEF Public
  <2> QED
    BY <1>1, <2>1, <2>2, WrittenUpdates DEF Updated
<1>2. CASE CreateDraft(r)
  <2> DEFINE draft == [isDraft |-> TRUE, isVerified |-> FALSE, located |-> FALSE, likedBy |-> {}]
  <2>1. draft \in Listing /\ draft.isDraft
    BY DEF Listing
  <2>2. /\ Written(r, "listingCreated", draft, draft) /\ ~created /\ req[r].pc # "emit"
        /\ UNCHANGED <<view, socket, missed>>
    BY <1>2 DEF CreateDraft
  <2> HIDE DEF draft
  <2> QED
    BY <1>0, <1>1, <2>1, <2>2 DEF Events
<1>3. CASE listing # None /\ (UpdateDraft(r) \/ PublishDraft(r) \/ VerifyListing(r))
  <2>1. PICK doc \in {PublishBody(listing), listing, [listing EXCEPT !.isDraft = FALSE],
                      [listing EXCEPT !.isVerified = TRUE]} :
            /\ Written(r, "listingUpdated", doc, doc) /\ req[r].pc # "emit"
            /\ UNCHANGED <<view, socket, missed>>
    BY <1>3 DEF UpdateDraft, PublishDraft, VerifyListing, StepBody
  <2>2. doc \in Listing /\ (~listing.isDraft => ~doc.isDraft)
    BY <1>0, <1>3, <2>1 DEF Listing, PublishBody
  <2> QED
    BY <1>1, <1>3, <2>1, <2>2 DEF Events
<1>4. CASE DeleteOne(r)
  <2>1. /\ Written(r, "listingDeleted", None, req[r].doc) /\ req[r].pc = "delete"
        /\ UNCHANGED <<view, socket>>
        /\ missed' = (missed \/ /\ listing # None /\ req[r].doc.isDraft # listing.isDraft
                                /\ Exposed)
    BY <1>4 DEF DeleteOne
  <2>2. /\ Deletes(req'[r]) /\ listing' = None /\ Heard(req'[r]) = "absent"
        /\ req'[r].doc = req[r].doc
    BY <2>1, WrittenUpdates DEF Deletes, Heard
  <2>3. Heard(req'[r]) = StatusOf(listing')
    BY <2>2 DEF StatusOf
  <2>4. (StatusOf(listing) \in Public /\ ~Told(req'[r]) /\ Exposed) => missed'
    <3>1. SUFFICES ASSUME StatusOf(listing) \in Public, req[r].doc.isDraft, Exposed
                   PROVE  missed'
      BY <2>2 DEF Told
    <3>2. listing # None /\ ~listing.isDraft
      BY <1>0, <3>1, StatusIs DEF Public
    <3> QED
      BY <2>1, <3>1, <3>2
  <2> QED
    BY <2>1, <2>2, <2>3, <2>4, WrittenUpdates DEF Updated
<1> QED
  BY <1>2, <1>3, <1>4 DEF VerifyListing

\* A request that is not waiting for its emit moves on, and does not wait then.
LEMMA MovesOn ==
    ASSUME Inv, NEW r \in Requests, NEW q, req[r].pc # "emit", q.pc # "emit",
           req' = [req EXCEPT ![r] = q], UNCHANGED <<listing, ahead, view, socket, missed>>
    PROVE  Unheard
<1>1. \A p \in Requests \ {r} : req'[p] = req[p]
  BY DEF Inv
<1>2. req'[r] = q
  BY DEF Inv
<1>3. Unsent' = Unsent /\ \A p \in Unsent : req'[p] = req[p]
  BY <1>1, <1>2 DEF Unsent
<1> QED
  BY <1>3 DEF Unheard, Following, Watched

LEMMA EmitStep ==
    ASSUME Inv, RestTyped, Loaded, NEW r \in Requests, Emit(r)
    PROVE  Emitted(r)
<1> DEFINE q == IF req[r].publishing THEN [Idle EXCEPT !.pc = "mail", !.publishing = TRUE]
                ELSE Idle
<1>1. q.pc # "emit"
  BY DEF Idle
<1>2. req[r].pc = "emit" /\ req' = [req EXCEPT ![r] = q] /\ UNCHANGED <<listing, socket>>
  BY DEF Emit
<1> HIDE DEF q
<1>3. /\ r \in Unsent /\ Unsent' = Unsent \ {r}
      /\ \A p \in Unsent \ {r} : req'[p] = req[p]
  BY <1>1, <1>2 DEF Unsent, Inv
<1>4. RoomOf(socket.role) \in audienceRooms(req[r].doc)
          <=> (socket.role = "SUPERUSER" => Told(req[r]))
  BY DEF RoomOf, audienceRooms, Told
<1>5. view # None => InRoom
  BY DEF Loaded
<1>6. view' = IF view # None /\ (socket.role = "SUPERUSER" => Told(req[r]))
              THEN Heard(req[r]) ELSE view
  BY <1>4, <1>5 DEF Emit, Heard
<1>7. /\ missed' = (missed \/ (Watched /\ ahead[r] # {})) /\ Passed(r)
  BY DEF Emit
<1> QED
  BY <1>2, <1>3, <1>6, <1>7 DEF Emitted, Hears

LEMMA DiesStep ==
    ASSUME Inv, RestTyped, NEW r \in Requests, RequestDies(r), req[r].pc = "emit"
    PROVE  Emitted(r)
<1>1. req' = [req EXCEPT ![r] = Idle] /\ Idle.pc # "emit"
  BY DEF RequestDies, End, Idle
<1>2. /\ r \in Unsent /\ Unsent' = Unsent \ {r}
      /\ \A p \in Unsent \ {r} : req'[p] = req[p]
  BY <1>1 DEF Unsent, Inv
<1>3. /\ Passed(r) /\ UNCHANGED <<listing, socket>>
  BY DEF RequestDies
<1>4. missed => missed'
  BY DEF RequestDies
<1>5. missed' \/ ~Watched
  BY <1>2 DEF RequestDies, Exposed
<1> QED
  BY <1>2, <1>3, <1>4, <1>5 DEF Emitted

\* The database, seen from the gateway; a socket that leaves is not followed.
LEMMA Steps ==
    ASSUME Inv, RestTyped, Loaded, Ordered, [Next]_vars
    PROVE  \/ Unheard \/ Looked \/ Expired
           \/ \E r \in Requests : Updated(r) \/ Emitted(r)
<1>0. /\ req \in [Requests -> Request] /\ listing \in Listing \cup {None}
      /\ None \notin Listing /\ ahead \in [Requests -> SUBSET Requests]
      /\ missed \in BOOLEAN /\ Unsent \subseteq Requests
  BY AbsenceAssumption DEF Inv, RestTyped, Unsent
<1>1. ASSUME NEW r \in Requests,
             CreateDraft(r) \/ UpdateDraft(r) \/ PublishDraft(r) \/ DeleteOne(r)
             \/ VerifyListing(r)
      PROVE  Unheard \/ Updated(r)
  <2>1. CASE listing = None /\ (UpdateDraft(r) \/ PublishDraft(r))
    <3>1. /\ req' = [req EXCEPT ![r] = Idle] /\ Idle.pc # "emit" /\ req[r].pc # "emit"
          /\ UNCHANGED <<listing, ahead, view, socket, missed>>
      BY <2>1 DEF UpdateDraft, PublishDraft, End, Idle
    <3> QED
      BY <3>1, MovesOn
  <2> QED
    BY <1>1, <2>1, UpdateStep
<1>2. ASSUME NEW r \in Requests,
             EditBegin(r) \/ PublishBegin(r) \/ Geocode(r) \/ Mail(r) \/ DeleteRead(r)
      PROVE  Unheard
  <2>1. req[r].pc # "emit" /\ UNCHANGED <<listing, ahead, view, socket, missed>>
    BY <1>2 DEF EditBegin, PublishBegin, Geocode, Mail, DeleteRead, Begin
  <2>2. PICK q \in {[Idle EXCEPT !.pc = "update"],
                    [Idle EXCEPT !.pc = "geocode", !.publishing = TRUE],
                    [Idle EXCEPT !.pc = "delete", !.doc = listing],
                    [Idle EXCEPT !.pc = "publish"],
                    [req[r] EXCEPT !.pc = "update"]} :
            req' = [req EXCEPT ![r] = q]
    BY <1>2 DEF EditBegin, PublishBegin, Geocode, Mail, DeleteRead, Begin
  <2>3. q.pc # "emit"
    BY <1>0, <2>2 DEF Idle, Request
  <2> QED
    BY <2>1, <2>2, <2>3, MovesOn
<1>3. ASSUME NEW r \in Requests, RequestDies(r), req[r].pc # "emit" PROVE Unheard
  <2>1. /\ req' = [req EXCEPT ![r] = Idle] /\ Idle.pc # "emit" /\ UNCHANGED <<listing, view, socket>>
        /\ missed' = missed
    BY <1>0, <1>3 DEF RequestDies, End, Idle
  <2>2. ahead' = ahead
    <3>1. \A q \in Requests : r \notin ahead[q]
      BY <1>3 DEF Ordered, Unsent
    <3>2. ahead[r] = {}
      BY <1>3 DEF Ordered, Unsent
    <3> QED
      BY <1>0, <1>3, <3>1, <3>2 DEF RequestDies, Passed
  <2> QED
    BY <1>3, <2>1, <2>2, MovesOn
<1>4. ASSUME NEW s \in Students, LikeListing(s) \/ UnlikeListing(s) PROVE Unheard
  <2>1. /\ UNCHANGED <<req, ahead, view, socket, missed>>
        /\ listing \in Listing /\ \E S : listing' = [listing EXCEPT !.likedBy = S]
    BY <1>0, <1>4 DEF LikeListing, UnlikeListing, Published
  <2>2. StatusOf(listing') = StatusOf(listing)
    <3>1. PICK S : listing' = [listing EXCEPT !.likedBy = S]
      BY <2>1
    <3>2. listing # None /\ listing.isVerified /\ ~listing.isDraft
      BY <1>4 DEF LikeListing, UnlikeListing, Published
    <3>3. listing' # None
      BY <1>0, <1>4, <2>1, <3>2, AbsenceAssumption DEF LikeListing, UnlikeListing, Listing
    <3>4. listing'.isVerified = listing.isVerified /\ listing'.isDraft = listing.isDraft
      BY <2>1, <3>1 DEF Listing
    <3> QED
      BY <3>2, <3>3, <3>4 DEF StatusOf
  <2> QED
    BY <2>1, <2>2 DEF Unheard, Unsent, Following, Watched
<1>5. CASE AccountChanges \/ UNCHANGED vars
  BY <1>5 DEF AccountChanges, vars, Unheard, Unsent, Following, Watched
<1>6. CASE Load
  BY <1>6 DEF Load, Looked
<1>7. CASE DraftExpires
  BY <1>0, <1>7, StatusIs DEF DraftExpires, Expired, StatusOf
<1>8. CASE Handshake
  BY <1>8 DEF Handshake, Unheard, Unsent, Following, Watched, Loaded, InRoom
<1>9. CASE Join
  <2>1. view = None
    BY <1>9 DEF Join, Loaded, InRoom
  <2> QED
    BY <1>9, <2>1 DEF Join, Unheard, Unsent, Following, Watched, RestTyped, Sockets
<1>10. ASSUME NEW phase \in Phases \ {"out"}, Gone(phase),
              UNCHANGED <<listing, req, ahead>>
       PROVE  Unheard
  <2>1. view' = None /\ ~Watched'
    BY <1>10 DEF Gone, Watched, RestTyped, Sockets
  <2> QED
    BY <1>10, <2>1 DEF Unheard, Unsent, Following
<1>11. CASE scheduleSessionChecks
  <2>1. CASE Gone("open")
    BY <1>10, <1>11, <2>1 DEF scheduleSessionChecks, Phases
  <2>2. CASE ~Gone("open")
    <3>1. /\ UNCHANGED <<listing, req, ahead, view, missed>>
          /\ socket' = [socket EXCEPT !.phase = "open", !.timers = TRUE]
      BY <1>11, <2>2 DEF scheduleSessionChecks
    <3>2. socket'.connected = socket.connected /\ socket'.role = socket.role
          /\ socket.phase # "out"
      BY <1>11, <3>1 DEF RestTyped, Sockets, scheduleSessionChecks
    <3>3. socket'.phase = "open"
      BY <3>1 DEF RestTyped, Sockets
    <3> QED
      BY <3>1, <3>2, <3>3 DEF Unheard, Unsent, Following, Watched
  <2> QED
    BY <2>1, <2>2
<1>12. CASE Expiration \/ revalidateClient \/ Disconnect
  <2>1. socket.phase \in Phases \ {"out"}
    BY <1>12 DEF RestTyped, Sockets, Loaded, Expiration, revalidateClient, Disconnect
  <2>2. UNCHANGED <<listing, req, ahead>>
    BY <1>12 DEF Expiration, revalidateClient, Disconnect
  <2>3. CASE Gone(socket.phase)
    BY <1>10, <2>1, <2>2, <2>3
  <2>4. CASE ~Gone(socket.phase)
    BY <1>12, <2>2, <2>4
       DEF Expiration, revalidateClient, Disconnect, Unheard, Unsent, Following, Watched
  <2> QED
    BY <2>3, <2>4
<1> QED
  BY <1>1, <1>2, <1>3, <1>4, <1>5, <1>6, <1>7, <1>8, <1>9, <1>11, <1>12, EmitStep, DiesStep
     DEF Next

LEMMA LoadedNext == RestTyped /\ Loaded /\ [Next]_vars => Loaded'
<1> SUFFICES ASSUME RestTyped, Loaded, [Next]_vars PROVE Loaded'
  OBVIOUS
<1>0. socket \in Sockets /\ missed \in BOOLEAN
  BY DEF RestTyped
<1>1. ASSUME NEW r \in Requests,
             \/ CreateDraft(r) \/ EditBegin(r) \/ UpdateDraft(r)
             \/ PublishBegin(r) \/ Geocode(r) \/ Mail(r) \/ PublishDraft(r)
             \/ DeleteRead(r) \/ DeleteOne(r) \/ VerifyListing(r) \/ RequestDies(r)
      PROVE  UNCHANGED <<view, socket>>
  BY <1>1 DEF CreateDraft, EditBegin, UpdateDraft, PublishBegin, Geocode, Mail, PublishDraft,
              DeleteRead, DeleteOne, VerifyListing, RequestDies
<1>2. ASSUME NEW r \in Requests, Emit(r) PROVE Loaded'
  BY <1>2 DEF Emit, Loaded, InRoom
<1>3. ASSUME NEW s \in Students, LikeListing(s) \/ UnlikeListing(s)
      PROVE  UNCHANGED <<view, socket>>
  BY <1>3 DEF LikeListing, UnlikeListing
<1>4. CASE DraftExpires \/ AccountChanges \/ UNCHANGED vars
  BY <1>4 DEF DraftExpires, AccountChanges, vars, Loaded, InRoom
<1>5. CASE Load
  BY <1>5 DEF Load, Loaded, InRoom
<1>6. CASE Handshake \/ Join
  BY <1>0, <1>6 DEF Handshake, Join, Loaded, InRoom, Sockets
<1>7. ASSUME NEW phase \in Phases, Gone(phase) PROVE Loaded'
  BY <1>0, <1>7 DEF Gone, Loaded, Sockets
<1>8. CASE scheduleSessionChecks
  BY <1>0, <1>7, <1>8 DEF scheduleSessionChecks, Loaded, InRoom, Sockets, Phases
<1>9. CASE Expiration \/ revalidateClient \/ Disconnect
  BY <1>0, <1>7, <1>9 DEF Expiration, revalidateClient, Disconnect, Loaded, InRoom, Sockets
<1>10. CASE UNCHANGED <<view, socket>>
  BY <1>10 DEF Loaded, InRoom
<1> QED
  BY <1>1, <1>2, <1>3, <1>4, <1>5, <1>6, <1>8, <1>9, <1>10 DEF Next

\* Each kind of step keeps what the client will have heard in line.
LEMMA UnheardAgrees ==
    ASSUME Inv, RestTyped, Loaded, Agreeing, Unheard
    PROVE  Agreeing'
<1>1. Ordered' /\ DeletedLast'
  BY DEF Agreeing, Ordered, DeletedLast, Unheard
<1>2. /\ Farewell => Farewell'
      /\ Current => Current'
  BY DEF Unheard, Farewell, Current
<1>3. Newest' /\ Announced'
  BY <1>2 DEF Agreeing, Newest, Announced, Unheard
<1>4. SuperuserSees'
  BY <1>2 DEF Agreeing, SuperuserSees, Unheard
<1>5. ViewAgrees'
  <2> SUFFICES ASSUME view' # None, Unsent' = {}, ~missed' PROVE view' = Sees(socket.role, listing)'
    BY DEF ViewAgrees
  <2>1. view' = view /\ missed' = missed /\ socket'.role = socket.role
    BY DEF Unheard
  <2>2. view = Sees(socket.role, listing)
    BY <2>1 DEF Agreeing, ViewAgrees, Loaded, Unheard
  <2> QED
    BY <2>1, <2>2 DEF Unheard, Sees
<1> QED
  BY <1>1, <1>3, <1>4, <1>5 DEF Agreeing

LEMMA LookedAgrees ==
    ASSUME Inv, RestTyped, Agreeing, Looked
    PROVE  Agreeing'
<1>1. Unsent' = Unsent /\ (Following' => Following) /\ (Current => Current')
  BY DEF Looked, Unsent, Following, Watched, Current, Farewell
<1>2. Ordered' /\ DeletedLast' /\ Newest' /\ Announced'
  BY <1>1 DEF Agreeing, Ordered, DeletedLast, Newest, Announced, Looked
<1>3. (socket.role = "SUPERUSER" /\ view' # "absent") => StatusOf(listing) \in Public
  BY SeenStatus DEF Looked, Sees, Status, Public
<1>4. SuperuserSees'
  BY <1>3 DEF SuperuserSees, Looked, Current
<1>5. ViewAgrees'
  BY DEF ViewAgrees, Looked, Sees
<1> QED
  BY <1>2, <1>4, <1>5 DEF Agreeing

LEMMA ExpiredAgrees ==
    ASSUME Inv, RestTyped, Loaded, Agreeing, Expired
    PROVE  Agreeing'
<1>0. Unsent' = Unsent
  BY DEF Expired, Unsent
<1>1. Ordered' /\ DeletedLast'
  BY <1>0 DEF Agreeing, Ordered, DeletedLast, Expired
<1>2. Following' => Following /\ view = None /\ Unsent = {}
  BY DEF Expired, Following, Watched, Exposed
<1>3. Newest' /\ Announced' /\ SuperuserSees'
  BY <1>0, <1>2 DEF Newest, Announced, SuperuserSees, Expired
<1>4. ViewAgrees'
  <2> SUFFICES ASSUME InRoom', view' # None, ~missed' PROVE FALSE
    BY DEF ViewAgrees
  <2>1. Following'
    BY DEF Following, InRoom, Watched
  <2> QED
    BY <1>2, <2>1 DEF Expired
<1> QED
  BY <1>1, <1>3, <1>4 DEF Agreeing

LEMMA UpdatedAgrees ==
    ASSUME Inv, RestTyped, Agreeing, NEW r \in Requests, Updated(r)
    PROVE  Agreeing'
<1>0. /\ ahead \in [Requests -> SUBSET Requests] /\ ahead'[r] = Unsent
      /\ \A q \in Requests \ {r} : ahead'[q] = ahead[q]
      /\ r \notin Unsent /\ Unsent' = Unsent \cup {r} /\ Unsent \subseteq Requests
      /\ \A q \in Unsent : req'[q] = req[q]
      /\ \A q \in Requests : r \notin ahead[q] /\ ahead[q] \subseteq Unsent
  BY DEF RestTyped, Updated, Agreeing, Ordered, Unsent
<1>1. Ordered'
  <2> SUFFICES ASSUME NEW p \in Requests
               PROVE  /\ ahead'[p] \subseteq Unsent' \ {p}
                      /\ p \notin Unsent' => ahead'[p] = {}
                      /\ \A q \in Unsent' :
                            p \in Unsent' /\ p # q => p \in ahead'[q] \/ q \in ahead'[p]
    BY DEF Ordered
  <2> QED
    BY <1>0 DEF Agreeing, Ordered
<1>2. Following' => Following
  BY DEF Updated, Following, Watched
<1>3. Farewell => Farewell'
  BY <1>0 DEF Farewell
<1>4. DeletedLast'
  <2> SUFFICES ASSUME NEW p \in Unsent', NEW q \in Unsent', Deletes(req'[p])
               PROVE  /\ StatusOf(listing') = "absent"
                      /\ p \in ahead'[q] => Deletes(req'[q])
    BY DEF DeletedLast, Deletes
  <2>1. CASE Deletes(req'[r])
    <3>1. StatusOf(listing') = "absent"
      BY <2>1 DEF Updated, Heard, Deletes
    <3> QED
      BY <1>0, <2>1, <3>1 DEF Agreeing, DeletedLast
  <2>2. CASE ~Deletes(req'[r])
    <3>1. p \in Unsent /\ Deletes(req[p])
      BY <1>0, <2>2
    <3>2. StatusOf(listing) = "absent"
      BY <3>1 DEF Agreeing, DeletedLast
    <3> QED
      BY <2>2, <3>1, <3>2 DEF Updated
  <2> QED
    BY <2>1, <2>2
<1>5. Newest'
  <2> SUFFICES ASSUME NEW q \in Unsent', Unsent' \ {q} \subseteq ahead'[q]
               PROVE  Heard(req'[q]) = StatusOf(listing')
    BY DEF Newest, Heard
  <2>1. q = r
    BY <1>0
  <2> QED
    BY <2>1 DEF Updated
<1>6. ASSUME Following', Current, Unsent # {} \/ view # None PROVE Current'
  <2>1. CASE Farewell
    BY <1>3, <2>1 DEF Current
  <2>2. CASE StatusOf(listing) \in Public
    <3>1. CASE Deletes(req'[r])
      <4>1. Exposed
        BY <1>2, <1>6 DEF Following, Exposed
      <4>2. Told(req'[r])
        BY <1>6, <2>2, <3>1, <4>1 DEF Updated, Following
      <4> QED
        BY <1>0, <3>1, <4>2 DEF Current, Farewell, Deletes, Told
    <3>2. CASE ~Deletes(req'[r])
      BY <2>2, <3>2 DEF Updated, Current
    <3> QED
      BY <3>1, <3>2
  <2> QED
    BY <1>6, <2>1, <2>2 DEF Current
<1>7. Announced'
  <2> SUFFICES ASSUME Following', NEW q \in Unsent', ~Deletes(req'[q]), Told(req'[q])
               PROVE  Current'
    BY DEF Announced, Deletes, Told
  <2>1. CASE q = r
    BY <2>1 DEF Updated, Current
  <2>2. CASE q # r
    BY <1>0, <1>2, <1>6, <2>2 DEF Agreeing, Announced
  <2> QED
    BY <2>1, <2>2
<1>8. SuperuserSees'
  BY <1>2, <1>6 DEF Agreeing, SuperuserSees, Updated
<1>9. ViewAgrees'
  BY <1>0 DEF ViewAgrees
<1> QED
  BY <1>1, <1>4, <1>5, <1>7, <1>8, <1>9 DEF Agreeing

LEMMA EmittedAgrees ==
    ASSUME Inv, RestTyped, Loaded, Agreeing, NEW r \in Requests, Emitted(r)
    PROVE  Agreeing'
<1>0. /\ r \in Unsent /\ Unsent' = Unsent \ {r} /\ Unsent \subseteq Requests
      /\ \A q \in Unsent' : req'[q] = req[q]
      /\ \A q \in Requests : ahead'[q] = IF q = r THEN {} ELSE ahead[q] \ {r}
      /\ listing' = listing /\ socket' = socket
  BY DEF Emitted, Passed, Unsent
<1>1. Ordered'
  <2> SUFFICES ASSUME NEW p \in Requests
               PROVE  /\ ahead'[p] \subseteq Unsent' \ {p}
                      /\ p \notin Unsent' => ahead'[p] = {}
                      /\ \A q \in Unsent' :
                            p \in Unsent' /\ p # q => p \in ahead'[q] \/ q \in ahead'[p]
    BY DEF Ordered
  <2>1. ahead'[p] \subseteq Unsent' \ {p}
    <3>1. ahead[p] \subseteq Unsent \ {p}
      BY DEF Agreeing, Ordered
    <3> QED
      BY <1>0, <3>1
  <2>2. p \notin Unsent' => ahead'[p] = {}
    <3>1. p \notin Unsent => ahead[p] = {}
      BY DEF Agreeing, Ordered
    <3> QED
      BY <1>0, <3>1
  <2>3. ASSUME NEW q \in Unsent', p \in Unsent', p # q
        PROVE  p \in ahead'[q] \/ q \in ahead'[p]
    <3>1. p \in ahead[q] \/ q \in ahead[p]
      BY <1>0, <2>3 DEF Agreeing, Ordered
    <3> QED
      BY <1>0, <2>3, <3>1
  <2> QED
    BY <2>1, <2>2, <2>3
<1>2. DeletedLast'
  <2> SUFFICES ASSUME NEW p \in Unsent', NEW q \in Unsent', Deletes(req'[p])
               PROVE  /\ StatusOf(listing') = "absent"
                      /\ p \in ahead'[q] => Deletes(req'[q])
    BY DEF DeletedLast, Deletes
  <2> QED
    BY <1>0 DEF Agreeing, DeletedLast
<1>3. CASE ~Following'
  <2>1. ~(InRoom' /\ ~missed')
    BY <1>3 DEF Following, InRoom, Watched
  <2> QED
    BY <1>1, <1>2, <1>3, <2>1 DEF Agreeing, Newest, Announced, SuperuserSees, ViewAgrees
<1>4. CASE Following'
  <2>1. Following /\ Hears(r)
    BY <1>0, <1>4 DEF Emitted, Following, Watched
  <2>2. ahead[r] = {} /\ \A q \in Unsent \ {r} : r \in ahead[q]
    BY <1>0, <2>1 DEF Hears, Agreeing, Ordered
  <2>3. Newest'
    <3> SUFFICES ASSUME NEW q \in Unsent', Unsent' \ {q} \subseteq ahead'[q]
                 PROVE  Heard(req'[q]) = StatusOf(listing')
      BY DEF Newest, Heard
    <3>1. Unsent \ {q} \subseteq ahead[q]
      BY <1>0, <2>2
    <3> QED
      BY <1>0, <2>1, <3>1 DEF Agreeing, Newest
  <2>4. ASSUME Current, ~(Deletes(req[r]) /\ Told(req[r])) PROVE Current'
    BY <1>0, <2>4 DEF Current, Farewell
  <2>5. ASSUME NEW q \in Unsent', ~Deletes(req'[q]) PROVE ~Deletes(req[r])
    BY <1>0, <2>2, <2>5 DEF Agreeing, DeletedLast
  <2>6. Announced'
    <3> SUFFICES ASSUME NEW q \in Unsent', ~Deletes(req'[q]), Told(req'[q])
                 PROVE  Current'
      BY DEF Announced, Deletes, Told
    <3> QED
      BY <1>0, <2>1, <2>4, <2>5 DEF Agreeing, Announced
  <2>7. SuperuserSees'
    <3> SUFFICES ASSUME socket.role = "SUPERUSER", view' \notin {None, "absent"}
                 PROVE  Current'
      BY <1>0 DEF SuperuserSees
    <3>1. CASE Told(req[r]) /\ view # None
      <4>1. ~Deletes(req[r])
        BY <2>1, <3>1 DEF Hears, Heard, Deletes
      <4> QED
        BY <1>0, <2>1, <2>4, <3>1, <4>1 DEF Agreeing, Announced
    <3>2. CASE ~(Told(req[r]) /\ view # None)
      <4>1. view' = view
        BY <2>1, <3>2 DEF Hears
      <4> QED
        BY <2>1, <2>4, <3>2, <4>1 DEF Agreeing, SuperuserSees
    <3> QED
      BY <3>1, <3>2
  <2>8. ViewAgrees'
    <3> SUFFICES ASSUME view' # None, Unsent' = {}
                 PROVE  view' = Sees(socket.role, listing)
      BY <1>0 DEF ViewAgrees, Sees
    <3>1. Unsent = {r}
      BY <1>0
    <3>2. Heard(req[r]) = StatusOf(listing)
      BY <1>0, <2>1, <3>1 DEF Agreeing, Newest
    <3>3. req[r].doc \in Listing
      BY <1>0 DEF Inv, Shaped, Unsent
    <3>4. /\ StatusOf(req[r].doc) = "draft" <=> ~Told(req[r])
          /\ StatusOf(req[r].doc) # "absent"
      BY <3>3, StatusIs, AbsenceAssumption DEF Told
    <3>5. CASE socket.role # "SUPERUSER"
      BY <2>1, <3>2, <3>5 DEF Hears, Sees
    <3>6. CASE socket.role = "SUPERUSER" /\ Told(req[r])
      <4>1. view # None
        BY <2>1 DEF Hears
      <4>2. view' = StatusOf(listing) /\ StatusOf(listing) # "draft"
        BY <2>1, <3>2, <3>4, <3>6, <4>1 DEF Hears, Heard
      <4> QED
        BY <4>2 DEF Sees
    <3>7. CASE socket.role = "SUPERUSER" /\ ~Told(req[r])
      <4>1. view' = view /\ view # None
        BY <2>1, <3>7 DEF Hears
      <4>2. StatusOf(listing) \in {"absent", "draft"}
        BY <3>2, <3>4, <3>7 DEF Heard
      <4>3. ~Current
        BY <3>1, <3>7, <4>2 DEF Current, Farewell, Public
      <4>4. view = "absent"
        BY <2>1, <3>7, <4>1, <4>3 DEF Agreeing, SuperuserSees
      <4> QED
        BY <3>7, <4>1, <4>2, <4>4 DEF Sees
    <3> QED
      BY <3>5, <3>6, <3>7
  <2> QED
    BY <1>1, <1>2, <2>3, <2>6, <2>7, <2>8 DEF Agreeing
<1> QED
  BY <1>3, <1>4

\* Whatever requests write and emit in whatever order, a client whose emits
\* all came, in order, ends with the listing as the database has it; and a
\* superuser's client with nothing of a draft.
THEOREM ClientAgrees == Spec => []ViewAgrees
<1>1. Init => Loaded /\ Agreeing
  BY DEF Init, Loaded, Agreeing, Ordered, DeletedLast, Newest, Announced, SuperuserSees,
         ViewAgrees, InRoom, Unsent, Idle
<1>2. Inv /\ RestTyped /\ Loaded /\ Agreeing /\ [Next]_vars => Agreeing'
  <2>1. Agreeing => Ordered
    BY DEF Agreeing
  <2> QED
    BY <2>1, Steps, UnheardAgrees, LookedAgrees, ExpiredAgrees, UpdatedAgrees, EmittedAgrees
<1>3. Agreeing => ViewAgrees
  BY DEF Agreeing
<1> QED
  BY <1>1, <1>2, <1>3, RestInit, InvInit, InvNext, RestNext, LoadedNext, PTL DEF Spec

----------------------------------------------------------------------------
(* What superusers are shown                                               *)

ShownPublished ==
    /\ socket.role = "SUPERUSER" /\ view \notin {None, "absent"} =>
          view # "draft" /\ (listing = None \/ ~listing.isDraft)
    /\ ~created => view \in {None, "absent"}

\* Once created, a listing is published for good or deleted for good.
LEMMA KeepsNext ==
    ASSUME Inv, [Next]_vars
    PROVE  \/ Keeps(listing, listing') /\ created' = created
           \/ ~created /\ UNCHANGED <<view, socket>>
<1>0. listing \in Listing \cup {None} /\ None \notin Listing
  BY AbsenceAssumption DEF Inv
<1>1. ASSUME NEW r \in Requests, CreateDraft(r) PROVE ~created /\ UNCHANGED <<view, socket>>
  BY <1>1 DEF CreateDraft
<1>2. ASSUME NEW r \in Requests,
             UpdateDraft(r) \/ PublishDraft(r) \/ VerifyListing(r) \/ DeleteOne(r)
      PROVE  Keeps(listing, listing') /\ created' = created
  <2>1. created' = created
    BY <1>2 DEF UpdateDraft, PublishDraft, VerifyListing, DeleteOne
  <2>2. listing' \in {listing, None} \/
        /\ listing # None
        /\ listing' \in {PublishBody(listing), [listing EXCEPT !.isDraft = FALSE],
                         [listing EXCEPT !.isVerified = TRUE]}
    BY <1>2 DEF UpdateDraft, PublishDraft, VerifyListing, DeleteOne, Written, StepBody
  <2>3. Keeps(listing, listing')
    BY <1>0, <2>2 DEF Keeps, Listing, PublishBody
  <2> QED
    BY <2>1, <2>3
<1>3. ASSUME NEW s \in Students, LikeListing(s) \/ UnlikeListing(s)
      PROVE  Keeps(listing, listing') /\ created' = created
  <2>1. created' = created /\ listing # None /\ \E S : listing' = [listing EXCEPT !.likedBy = S]
    BY <1>3 DEF LikeListing, UnlikeListing, Published
  <2> QED
    BY <1>0, <2>1 DEF Keeps, Listing
<1>4. ASSUME \/ UNCHANGED vars \/ Load \/ AccountChanges \/ DraftExpires
             \/ Handshake \/ Join \/ scheduleSessionChecks \/ Expiration
             \/ revalidateClient \/ Disconnect
             \/ \E r \in Requests : \/ EditBegin(r) \/ PublishBegin(r) \/ Geocode(r)
                                    \/ Mail(r) \/ DeleteRead(r) \/ Emit(r) \/ RequestDies(r)
      PROVE  Keeps(listing, listing') /\ created' = created
  <2>1. listing' \in {listing, None} /\ created' = created
    BY <1>4 DEF vars, Load, AccountChanges, DraftExpires, Handshake, Join,
                scheduleSessionChecks, Expiration, revalidateClient, Disconnect,
                EditBegin, PublishBegin, Geocode, Mail, DeleteRead, Emit, RequestDies
  <2> QED
    BY <2>1 DEF Keeps
<1> QED
  BY <1>1, <1>2, <1>3, <1>4 DEF Next

\* What the client has is as before, gone, loaded now, or heard from an emit.
LEMMA ViewNext ==
    ASSUME Inv, RestTyped, Loaded, [Next]_vars
    PROVE  \/ view' = view /\ (view # None => socket'.role = socket.role)
           \/ view' = None
           \/ Load \/ \E r \in Requests : Emit(r)
<1>1. ASSUME NEW r \in Requests,
             \/ CreateDraft(r) \/ EditBegin(r) \/ UpdateDraft(r)
             \/ PublishBegin(r) \/ Geocode(r) \/ Mail(r) \/ PublishDraft(r)
             \/ DeleteRead(r) \/ DeleteOne(r) \/ VerifyListing(r) \/ RequestDies(r)
      PROVE  UNCHANGED <<view, socket>>
  BY <1>1 DEF CreateDraft, EditBegin, UpdateDraft, PublishBegin, Geocode, Mail, PublishDraft,
              DeleteRead, DeleteOne, VerifyListing, RequestDies
<1>2. ASSUME NEW s \in Students, LikeListing(s) \/ UnlikeListing(s)
      PROVE  UNCHANGED <<view, socket>>
  BY <1>2 DEF LikeListing, UnlikeListing
<1>3. CASE DraftExpires \/ AccountChanges \/ UNCHANGED vars
  BY <1>3 DEF DraftExpires, AccountChanges, vars
<1>4. CASE Handshake \/ Join
  BY <1>4 DEF Handshake, Join, Loaded, InRoom, RestTyped, Sockets
<1>5. CASE scheduleSessionChecks \/ Expiration \/ revalidateClient \/ Disconnect
  BY <1>5 DEF scheduleSessionChecks, Expiration, revalidateClient, Disconnect, Gone,
              RestTyped, Sockets
<1> QED
  BY <1>1, <1>2, <1>3, <1>4, <1>5 DEF Next

LEMMA ShownNext ==
    ASSUME Inv, RestTyped, Loaded, ShownPublished, [Next]_vars
    PROVE  ShownPublished'
<1>0. listing \in Listing \cup {None} /\ None \notin Listing
  BY AbsenceAssumption DEF Inv
<1>1. CASE ~(Keeps(listing, listing') /\ created' = created)
  BY <1>1, KeepsNext DEF ShownPublished
<1>2. CASE Keeps(listing, listing') /\ created' = created
  <2>1. CASE view' = None
    BY <2>1 DEF ShownPublished
  <2>2. CASE view' = view /\ (view # None => socket'.role = socket.role)
    BY <1>2, <2>2 DEF ShownPublished, Keeps
  <2>3. CASE Load
    <3>1. /\ view' = Sees(socket.role, listing) /\ UNCHANGED <<listing, created, socket>>
      BY <2>3 DEF Load
    <3>2. socket.role = "SUPERUSER" /\ view' # "absent" => StatusOf(listing) \in Public
      BY <3>1, SeenStatus DEF Sees, Status, Public
    <3>3. ~created => view' = "absent"
      <4>1. ~created => listing = None
        BY DEF Inv
      <4> QED
        BY <3>1, <4>1 DEF Sees, StatusOf
    <3>4. socket.role = "SUPERUSER" /\ view' # "absent" => view' # "draft"
      BY <3>1 DEF Sees
    <3> QED
      BY <1>0, <3>1, <3>2, <3>3, <3>4, StatusIs DEF ShownPublished
  <2>4. ASSUME NEW r \in Requests, Emit(r) PROVE ShownPublished'
    <3>1. UNCHANGED <<listing, created, socket>> /\ req[r].pc = "emit"
      BY <2>4 DEF Emit
    <3>2. view' = IF InRoom /\ view # None /\ RoomOf(socket.role) \in audienceRooms(req[r].doc)
                  THEN Heard(req[r]) ELSE view
      BY <2>4 DEF Emit, Heard
    <3>3. created /\ req[r].doc \in Listing /\ Fits(req[r], listing)
      <4>1. ~created => req[r].pc = "idle"
        BY DEF Inv
      <4>2. Shaped(req[r]) /\ Fits(req[r], listing)
        BY DEF Inv
      <4> QED
        BY <3>1, <4>1, <4>2 DEF Shaped
    <3>4. CASE view' = view
      BY <3>1, <3>4 DEF ShownPublished
    <3>5. CASE view' # view
      <4>1. RoomOf(socket.role) \in audienceRooms(req[r].doc) /\ view' = Heard(req[r])
        BY <3>2, <3>5
      <4>2. socket.role = "SUPERUSER" => ~req[r].doc.isDraft
        BY <4>1 DEF RoomOf, audienceRooms
      <4>3. ~req[r].doc.isDraft => view' # "draft" /\ (listing = None \/ ~listing.isDraft)
        BY <3>1, <3>3, <4>1, StatusIs DEF Heard, Fits, Public
      <4> QED
        BY <3>1, <3>3, <4>2, <4>3 DEF ShownPublished
    <3> QED
      BY <3>4, <3>5
  <2> QED
    BY <2>1, <2>2, <2>3, <2>4, ViewNext
<1> QED
  BY <1>1, <1>2

\* A superuser's client never has a draft, and what it has stands for a listing
\* that is published with its location, or deleted, however late emits come
\* and whatever is verified, edited or published meanwhile.
THEOREM ShownFinished == Spec => []ShownIsFinished
<1>1. Init => Loaded /\ ShownPublished
  BY DEF Init, Loaded, InRoom, ShownPublished
<1>2. Inv /\ ShownPublished => ShownIsFinished
  BY DEF Inv, Sound, ShownPublished, ShownIsFinished
<1> QED
  BY <1>1, <1>2, RestInit, InvInit, InvNext, RestNext, LoadedNext, ShownNext, PTL DEF Spec

=============================================================================
