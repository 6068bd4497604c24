# A verification development for SeekBackend

SeekBackend is a NestJS service for student housing. Landlords publish
listings; students apply for them in groups, chat with the group and, once the
application is sent, with the landlord. State lives in MongoDB (users,
listings, applications, conversations, messages, flags) and, for presence, in
Redis. Everything runs in one Node.js process: handlers never run in parallel,
but every `await` lets another request, socket event or timer run. There are no
multi-document transactions. So what can go wrong is what happens *between two
awaited calls*, and that is what the modules here model: **one action is one
awaited call**, together with the synchronous code that follows it.

## The modules

| module | models | proofs |
|---|---|---|
| `ApplicationGroups` | `application/`: the application and conversation documents of a group, all routes that write them, their guards | `ApplicationGroupsProofs`, `ApplicationMembershipProofs` |
| `ApplicationLifecycle` | the abstract life of a group: found, admit, withdraw, send, decide, disband | in `ApplicationMembershipProofs` |
| `RefreshSessions` | `auth/`, `users.repository.ts`: the refresh sessions of one account, changes of credentials, mailed tokens | `RefreshSessionsProofs` |
| `Presence` | `presence.service.ts`, `presence.gateway.ts`: one user's counter in Redis | `PresenceProofs` |
| `ConversationRoom` | `conversation/`: sockets, timers, room, messages, receipts, events | `ConversationRoomProofs` |
| `VerificationCodes` | `auth/`: the code of an account that has signed up, its guesses and its mails | `VerificationCodesProofs` |
| `ListingLifecycle` | `listings/`: a listing from draft to deletion, and a socket that is told about it | `ListingLifecycleProofs` |
| `PrivateDocuments` | `users/` documents, `upload/`: documents of students, applications founded on them, the right to download them; instantiates `ApplicationLifecycle` | `PrivateDocumentsProofs` |
| `MC...` | small instances of the modules above for TLC | |

Each module with state has the same layout: constants and their named
assumptions; variables; altered forms of some definitions (the mutants, each a
slip the code could have made); the actions, grouped by route or handler, in
the order of the code; the surroundings (time, crashes, other users); `Next`
and `Spec`; the properties. Where a comment of the code says something the code
does not do, that statement is the last property of the module.

## Inventory of the system

**Rental applications** (`application/`). State: the `applications` and
`conversations` collections. Operations: create, invite, join, leave, send,
approve, reject, delete; each behind guards that read documents first. Hard:
two-document writes without a transaction, guards whose reading is stale when
the write runs, a unique index that decides a race after a conversation was
already created. Correct when there is one application per listing and creator,
its chat is never lost, the two documents agree on who is in the group, access
is earned, and the stage never falls back. *Modelled in full;*
`changeOwner` and `sendApplication` exist in the service but no route calls
them.

**Accounts and sessions** (`auth/`, `users.repository.ts`). State: in the user
document, the array of refresh sessions, the password, the tokens of a password
reset and of an email change, the code and counters of an email verification.
Operations: sign up, verify, resend, sign in (password or Google), refresh, log
out, change password, request and confirm a reset or an email change. Hard:
conditional updates racing each other, sessions that come back, a limit under
concurrent sign-ins, read-then-write counters. *Sessions, changes of
credentials and confirmations are modelled in* `RefreshSessions`, *the
verification code with its limits in* `VerificationCodes`. The cooldown and the
window of resets and email changes, which work like those of codes, are not.

**Presence** (`users/presence.*`). State: a counter with a time to live in
Redis. Operations: connect, disconnect, heartbeat. Hard: INCR/EXPIRE and
DECR/DEL are two commands each; a crash between them; clients that miss
heartbeats; events that come out of order. *Modelled in full,* but for
`lastSeen`, a timestamp that no code reads.

**Conversations** (`conversation/`). State: messages, `lastMessage`, receipts;
and in the process, sockets, their timers and rooms. Operations: send a
message, mark delivered, mark seen, join the room, handshake, revalidate,
disconnect. Hard: recipients checked one by one while sessions end and members
leave; a message that is on its way while a socket joins; timers. *Modelled in
full;* the reading routes change no state.

**Listings** (`listings/`). State: the `listings` collection and the sockets of
the `listings` namespace. Operations: draft, steps, publish, verify, delete,
like, unlike; handshake, join, timers, revalidation. Hard: publishing is four
steps, a verification or a deletion may come between them; events of two
updates can be emitted in either order; a role or session may change while a
socket joins. Correct when a published listing has its location, superusers are
shown finished listings only, a client that keeps its copy by events ends with
the database's, and stale sockets and timers go. *Modelled in full,*
for one listing; the searches change no state.

**User documents and uploads** (`users/`, `upload/`). State: the array of
documents of each user. Operations: presign, record a document, authorise a
download through listings, users and applications. Hard: a replacement is two
updates; an application is founded on documents read before; a grant is three
reads. Correct when a landlord keeps what an application was founded on, and
a review of it opens the files of its students and no others. *Modelled in full;* edits of the profile, single
updates of one field, are not.

**Flags, contact, mail, throttling, DTOs, serialisation, API documentation,
bootstrap, the events scaffold, the script that recreates the database.** No
interacting state; *not modelled*.

How the parts interact: a route's JWT strategy, and every socket event's guard,
asks the user document whether the session is active (`RefreshSessions` owns
it; `ConversationRoom` takes `session[s]` from it, which ends once and for all,
as `RefreshSessions!EndedStaysEnded` says). `assertCanAccess` reads the
conversation and its application (`ApplicationGroups!HasAccess`);
`ConversationRoom` takes the answer as the set `members`, which may change at
any time. An application names a listing, whose landlord and existence the
guards read. A download is granted by the stage and members of an application:
`PrivateDocuments` takes the applications from `ApplicationLifecycle`, the
abstract life that `ApplicationGroups` implements (`ImplementsLifecycle`), and
founds them by a request of its own that reads the documents first. A listing's
events reach sockets that authenticate as those of conversations do.

## ApplicationGroups

`apps` and `convs` are the two collections, `listed` the listings that still
exist. A record of `req` is an HTTP request in flight; its `pc` names the next
database call. A request that is refused before it changes anything never
begins. The mapping of a route to actions:

| route | actions |
|---|---|
| create | `CreateReadListing`, `CreateFind`, `CreateConversation`, `CreateApplication`, and after a failed insert `CreateDropLoser`, `CreateLookup` or `CreateFails`, `CreateDiscard` |
| join | `JoinBegin` (the invite's token), `JoinRead`, `JoinApplicants`, `JoinConversation` |
| leave | `LeaveGuard`, `LeaveRead`, `LeaveApplicants`, `LeaveConversation` |
| send | `SendGuard`, `SendStage` (conditional on NOT_SENT), `SendConversation` |
| approve, reject | `DecideReadApplication`, `DecideReadListing`, `DecideStage` (unconditional) |
| invite | `InviteGuard`, `InviteRotate` |
| delete | `DeleteGuard`, `DeleteApplication` (the conversation stays) |

Around them: `InviteExpires`, `DeleteListing`, and `RequestDies`, which ends a
request between two of its calls. Ids are drawn when a request begins, since
MongoDB's driver draws them on the client; the unique index is `Holder`.

Three history variables state exactly how far a property goes: `retired`
(conversations whose application was deleted), `crossed` (students whose join
and leave overlapped) and `broken` (students one of whose requests died).

- `OneApplicationPerKey`, `ConversationsIntact`, `NoStrayConversation`
  (run `ApplicationCreate`): three concurrent requests of one student for one
  listing with three ids of each kind, so that a create can lose to another,
  that one be deleted, and a third come in; deaths at every call.
- `OwnerStays`, `AccessIsEarned`, `MembershipAgrees`, `SentReachesLandlord`,
  `StageNeverFallsBack`, `ImplementsLifecycle` (run `ApplicationMembership`):
  one application, its creator, a second student and the landlord, two requests
  at a time, two invites (so that an old one can be presented). Each of these
  relates the two documents of one application, and a violation needs two
  requests at most; applications do not share documents (`ConversationsIntact`).
- `ImplementsLifecycle` is refinement: `group` of the abstract specification is
  read off the application that holds a key. It says that every database call
  is one abstract step or none, so nothing half-done of the *application*
  document is ever seen.
- Run `ApplicationUnsent` shows that the landlord can decide on an application
  that was not sent, against the comment of the admin guard.

Invites, requests and ids are interchangeable, so the runs use symmetry; all of
their properties are safety properties. Two bounds limit the runs: the sets of
ids and requests, and `MaxInvites`. Nothing in a request counts.

## RefreshSessions

`store` maps a session id to its record: the generation of its refresh token
(the client's token against the stored hash), whether it has expired, its place
in the array, and two history fields. `epoch` counts changes of credentials.
Sign-in is `LoginRead`, `LoginPull`, `LoginPush`: the `$pull` of expired
sessions and the `$push` with `$slice` are two updates. A refresh is
`RefreshRead`, `RefreshRotate`, where `Rotatable` is the filter of the update.
`resetPassword`, `requestEmailChange`, `confirmResetPassword` and
`confirmEmailChange` are actions of their own; since both kinds of mailed token
work alike they share `MailToken`, `ConfirmRead` and `Consume`.
`ConsumeConflict` is the email's unique index. The limits on mails are left
out: a request for one may come at any time.

A filter on an expiry compares it with a `new Date()` which the process takes
before it awaits the update. So what was live when a request read it and has
expired when the update is applied may pass or not, as the date fell before or
after (`Passes`, in `RefreshRotate` and `Consume`); and `LoginPull` removes all
that had expired when the sign-in read the user (`late`), and of what expired
since, any. A session can therefore be extended after it has expired, by a
refresh that read it live and is still under way. `ExpiredStaysExpired` says
that this is the only way: once an expired session has no such refresh
(`Doomed`), it stays expired until it is gone, whatever requests with older
tokens come.

Run `RefreshSessions`: three sign-ins for an array of two, so that eviction
happens; two requests at a time, so that every pair of handlers races; two
changes of credentials (`MaxEpoch`); two mailed tokens, both kinds together
(`MaxTokens`), so that a newer mail comes between the two steps of a
confirmation, and so that a reset races an email change; one rotation of a
session (`MaxRotations`), which two refreshes compete for. All seven properties
of the run are also proved, for every value of the constants. Run
`SessionAfterChange` shows the one thing that is not so: a sign-in which
compared the old password before the change stores its session after it.

`MaxSessions` may be 0 in the assumptions, as `numericConfig` floors 0.5 to 0.

## Presence

`key` and `expiring` are the Redis key; `opening` and `closing` the progress of
a socket's two handlers, which are independent: a socket may close while its
`handleConnection` still waits. `Punctual` says whether clients send their
heartbeats in time, `MayDie` whether the process may die with all its sockets.

Run `Presence` (three sockets, late clients, crashes): the counter never exceeds
the sockets there are (`NeverOvercounts`), the key goes in the end (`KeyGoes`),
and the last event is an offline one (`LastEventIsOffline`), each with the
exceptions its comment names. It may *under*count: run `PresenceOffline` shows
that a socket which connects between DECR and DEL of another one loses its
count, and that offline is later announced while a socket is open. Three
sockets are needed for that and enough: one to delete, one to lose its count,
one to leave.

Fairness: a handler that waits for Redis goes on, and Redis drops a key whose
time has come. No fairness is assumed of clients, nor of connecting.

## ConversationRoom

A socket goes from `new` over `accepted` (middleware) to `connected` with two
timers, and is `gone` in the end. A message or a receipt is a job; its `pc`
names the awaited call. `authorizedRecipients` is `Fetch`, then for every
listed socket, in any order, `CheckSession` and `CheckAccess`, then `Emit`.
`fetchSockets` gives remote sockets, which have no `connected` field, so a
socket that has gone is checked all the same. Sessions end, tokens expire,
members come and go at any time; a read that fails counts as a refusal, as the
code's `catch` has it.

Run `ConversationRoom` (two sockets, two messages): a socket in the room misses
no message (`NoMessageMissed`); only sockets entitled after the room was listed
hear one (`OnlyEntitledHear`); `lastMessage` is never older than a message
whose sending began later than its own was done (`LastIsRecent`). Run
`ConversationEnds` (one socket, a message, a receipt): receipts are written by
members only, a socket whose session or token ended is disconnected, and a
message's sending ends whatever its sockets do. Its sockets are checked
independently, so one is enough there; two are needed for recipients checked at
different times.

Fairness: the database answers, so jobs go on, and timers fire. Clients may do
nothing forever.

`OnlyEntitledHear` does not say that a socket is entitled *when* it hears: its
session may end, or its user leave, while the other sockets are still checked.

## VerificationCodes

`user` is the document of one account, or none before sign-up. Codes are
numbered in the order they are generated. A request of `req` carries what its
read of the document gave it: verifying is `VerifyRead` and then `CountGuess` or
`Accept`, resending is `ResendRead` and `ResendStore`, and both of the second
steps update by `_id` alone. `Signup` and `ResendStore` are followed by `Mail`;
a request that dies before it leaves an account whose code nobody has, which a
resend mends. `LinkGoogle` is a sign-in with Google of an account that has
signed up: it verifies the account and leaves the code. Guessing is presenting
a code that was mailed, or one that never was.

Three history variables: `sentAt` and `wrong` say when each code was stored and
how often it was guessed at, `raced` which kinds of overlap there have been. The
limits are read and then written, so requests that overlap get past them; the
properties say what holds of those that do not:

- `GuessesBounded`: a code is guessed at `MaxAttempts` times at most, unless two
  guesses overlapped or one was counted after its code was replaced. The counter
  is one field for all codes, so that the bound is per code rests on every way
  to a new code resetting it.
- `FreshCodeStays`: an unverified account's code is unset by nothing but its own
  guesses. Overlapping guesses cannot unset it early; only a late guess at its
  predecessor can, and `raced` names that case alone.
- `SendsLimited`: codes are a cooldown apart, and the window that is running
  holds `MaxSends` of them, whichever windows came before and whatever guesses
  and verifications ran meanwhile.

Run `VerificationCodes`: three codes, of which two come from resending, so that
a window is filled, refused and started anew; two guesses a code; time up to one
window and one more. Two requests are enough for each overlap. All three
properties are also proved, with the type invariant. Assumed: verification is
enabled, codes are distinct, and an account stays (nothing deletes it).

## ListingLifecycle

One listing, two requests that write it, and one socket of its landlord or of a
superuser. Each write is one update and then `Emit`; `Written` is the update, and
the request's `doc` the document its emit is about. A route is:

| route | actions |
|---|---|
| draft | `CreateDraft`, `Emit` |
| createStep1..4 | `EditBegin` (`OwnsListingGuard`), `UpdateDraft`, `Emit` |
| publish | `PublishBegin`, `Geocode`, `UpdateDraft`, `Emit`, `Mail`, `PublishDraft`, `Emit` |
| verify | `VerifyListing`, `Emit` |
| delete | `DeleteRead`, `DeleteOne`, `Emit` |
| like, unlike | `LikeListing`, `UnlikeListing`: one update, nothing emitted |
| connection | `Handshake`, `Join`, `scheduleSessionChecks`; then `Expiration`, `revalidateClient`, `Disconnect` |

`DraftExpires` is the TTL index, which removes drafts only and tells nobody.
`view` is the listing as a client has it that loads all listings once it is in
its room, at one instant, and then applies events; the client is not part of
the repository, and this is what the events are for. `Unsent` are the requests
whose update is not emitted yet, `ahead[r]` those among them that updated before
`r` did, and `missed` says that the client may have missed one: emits overtook each other, a request died
before its emit, a deletion emitted to the audience of the draft it had read
although the listing was published since, or the TTL index removed the draft.

- `PublishedIsLocated`: no interleaving of edits, publications, verifications
  and deletions takes a listing out of draft without its location.
- `ShownIsFinished`: a superuser's client never has a draft, and what it has,
  however late its events came, stands for a listing that is published with its
  location, or deleted. Both are also proved.

  No property says that what is public was reviewed. `verifyListing` updates
  whatever listing the id names and does not look at the draft flag, and
  `VerifyListing` does the same: a draft that a superuser verified is public as
  soon as its landlord publishes it, and edits of a draft keep the mark.
  `ShownIsFinished` says only that superusers are not *shown* drafts to verify.
- `ViewAgrees`: with all emits out, the client's copy is the database's, the
  deletion and the draft flag included, but for the cases of `missed`.
- `StaleDropped`, `TimersGo` (liveness): a socket whose session ended, whose
  token expired or whose user changed role goes, also when that happens during
  the awaited join; and the timers of a socket that went are cleared, also those
  set after it did.

Fairness, on the joining socket's own steps and on its two timers: Node.js runs
timers that are due and the continuation of a `join` that has resolved. No
fairness is assumed of requests, clients or accounts, which may all stop.

Run `ListingLifecycle`: two requests, one student, both kinds of socket. Two
requests are enough for one to come between any two calls of the other and for
emits to overtake; the socket's room depends on its role alone. Bounds: the
listing is created once, and the account changes only while the socket is
connected (the handshake reads it anew).

## PrivateDocuments

`documents[s]` is a bag, since two uploads of one file may push equal entries;
`AddDocumentPull` and `AddDocumentPush` are the two operations of one
`bulkWrite`, between which other requests may run. `CreateRead` and
`CreateFound` are the creation of an application as far as documents matter;
`Found` and all later changes of the application are those of
`ApplicationLifecycle`. A download is `AccessTitle`, `AccessHolders`,
`AccessReview`, `AccessSign`, one read of a collection each. `ownerIdFromKey` is
the parsing of a key: the account it was issued to, or none in the old format.
Since the code once recorded keys without looking at them, documents may exist
at the start under any key.

History variables: `claimed` (who named which key before keys were checked),
`raced` (types whose last uploads overlapped), `lost` (uploads that died between
their two updates).

- `OneOfEachType`: uploads that follow one another leave one document of a type,
  however many failed before.
- `RequiredStay`: the founder of an application has the documents it was founded
  on, unless an upload is between its two updates or died there: replacing is
  pull and then push, and there is no deletion.
- `GrantEarned` (action property): a review of applications lets a landlord
  download only the document of a member of an application that was sent, whom
  the key names or who claimed it when keys named nobody. The reads see
  different states; the property is about the last of them.

  It does not speak of `AccessTitle`, which needs no review: a landlord gets a
  URL for whatever key one of their listings names as its title
  (`upload.service.ts:124-130`). Nothing checks whose key `registerOfTitleKey`
  is, although `object-key.ts:4-6` has an object's owner known without trusting
  what a client sent; the model lets a listing name any key. So it is not a
  property of this code that a landlord is given no file but those of students
  who applied; the hazard is listed without a property.

Run `PrivateDocuments`: two students (one whom a key names, one whom it does
not), one listing, one required type, a key of either format, two requests. All
listings have one landlord and the requirements of a listing do not change. The
three properties are also proved, with the type invariant, for any number of
each, several required types among them.

## What is proved

TLAPS checks the following for every value of the constants that satisfies the
modules' assumptions (disjoint roles, absent values that are no documents,
natural bounds, finitely many ids and sockets).

### Applications

- `ApplicationGroupsProofs!TypeCorrect`. Not trivial to state: a request at a
  given `pc` must carry the fields that its next calls use, so the inductive
  invariant adds, for each `pc`, which fields are set.
- `ApplicationGroupsProofs!UniqueApplications`, `ChatsIntact`. That dropping a
  loser's conversation never hits the chat of an application is not inductive.
  The strengthening (`Owned`) says that the ids a create holds are held by no
  other request and no document; that is what makes the conversation of a loser
  nobody else's.
- `ApplicationMembershipProofs` rests on two lemmas. `StepTouches`: a database
  call writes at most one application document, in one of seven ways (`Founded`,
  `Removed`, `Admitted`, `Withdrawn`, `Sent`, `Decided`, `Invited`); what follows
  argues by these and not action by action. `AlwaysInformed`: everything a
  handler has read is stale when it writes, and `AllInformed` says what of it is
  true all the same. The id it holds is given to no other application, the
  conversation it read is that application's while there is one, and what its
  guards saw stays so, for nobody un-mints an invite, changes an owner or
  unsends.
- `LifecycleImplemented` is the refinement. With one application a key, the
  `CHOOSE` in `groups` has no choice (`GroupIs`). The first six ways are the steps
  of `ApplicationLifecycle` (found, disband, admit, withdraw, send, decide), or
  stutter where an admitted student was in already or a decision was the same;
  an `Invited` application is the same group. `StageForward` follows alike.
- `CreatorStays`, `ReadersEarned` (each document keeps its half, `Earned`),
  `LandlordReached`, `NoChatStrays` (with `ChatsHeld`: what has become of the
  chat of a create that is being undone).
- `GroupsAgree`. Joining and leaving write the application and then the chat.
  `MembershipAgrees` is inductive with two facts: `Separate`, a student who is
  not in `crossed` has requests in flight of one kind only; and `HalfWay`, a
  request between its two writes finds the application to say already what the
  chat will. Without the first, the second write of a join could come after that
  of a leave which began later.

### Sessions and codes

- `RefreshSessionsProofs`: `TypeCorrect`, `RotatedOnce`, `ConfirmedOnce`,
  `NoneOutlives`, `EndedForGood`, `ExpiredForGood`. None of them assumes when
  the date of a filter was taken, but for what `Passes` says. For
  `ExpiredForGood`: a refresh that begins reads a live session
  (`RefreshesReadLive`), so none comes to hold the token of an expired one, and
  a rotation under any other token changes nothing (`RotateCases`). The
  strengthening (`Safe`)
  adds that every stored session has an issued id, that an id never stored has
  no rotation done, and that the id of a sign-in in flight is not issued and
  belongs to that request alone; with these the three invariants are inductive
  as they stand.
- `RefreshSessionsProofs!SessionLimit`. The argument counts: the places of
  stored sessions are distinct, so those that survive the slice are the ones with
  fewer than `MaxSessions` places above them, and a set of naturals all of whose
  members have fewer than `n` members above them has at most `n` members.
- `VerificationCodesProofs`: `TypeCorrect`, `GuessLimit`, `FreshCodeUsable`,
  `SendLimit`. For the guesses, `wrong` (what was counted over all requests) and
  `attempts` (what each request read and wrote back) bound each other: `NoFewer`
  holds whatever overlaps at one code, `NoMore` while guesses follow one another,
  and a code that is not stored yet has none. For the sends, a request that is
  about to store over the code it has read has counted every code in the window
  it will store (`Spaced`), and the dates of codes never decrease; so a window
  that starts anew is empty, also when windows or cooldowns have length zero.

### Conversations and presence

- `ConversationRoomProofs`: `RoomTyped`, `WritersAreMembers`,
  `HearersAreEntitled`, `NobodyMisses`, `LastStaysRecent`. A job uses what an
  earlier call gave it, and `Knows(e)` says what that is worth: a user found to
  be a member was one at some time since the job began, and for recipients since
  the room was listed; and a socket that is valid now,
  or was found to be, was valid then, since a session that ended or a token that
  expired does not come back. For `NobodyMisses`, `Reached` adds that while a
  job checks its sockets, one that is in the room and not among them has joined
  after the message was stored, so it could read it. For `LastStaysRecent`, what
  was done before a message began is done for good (`Recent`), so an older
  message's update of `lastMessage` is over when a younger one's comes.
- `PresenceProofs`: `TypeCorrect`, `CountSound`. A socket that has not opened
  has not closed; so a connection adds one to both the counter and the sockets,
  a disconnection takes one from both, and everything else can only lower the
  counter.

### Listings and documents

- `ListingLifecycleProofs`: `Located`, `ShownFinished`. A request past the first
  update of a publication knows the location to be there, since no edit removes
  it; and an emit to superusers is about a listing that was published when it
  was updated, and is not made a draft again (`Keeps`). `ListingTyped` adds the shape of socket,
  account and `ahead` to that of the requests.
- `ListingLifecycleProofs!ClientAgrees`. `ViewAgrees` speaks of the moments when
  nothing is left to emit; inductive is what the emits that *are* left will say
  (`Agreeing`). They are in a row (`Ordered`), nothing but deletions follows a
  deletion (`DeletedLast`), and for a client that has missed none the last of
  them tells what the listing is (`Newest`). Superusers are not told of drafts,
  so for them a second thread is needed: whatever published listing they saw or
  will hear of is published still, or a deletion they will be told of is on its
  way (`Announced`, `SuperuserSees`). All actions are one of five kinds of step
  (`Unheard`, `Updated`, `Emitted`, `Looked`, `Expired`), and the lemma for each
  kind has one step for each of these conjuncts.
- `PrivateDocumentsProofs`: `TypeCorrect`, `OneDocument`, `RequiredDocuments`,
  `DownloadsEarned`. The first needs that a type with a push on its way and no
  overlap has no document; the second that a creation in flight has seen the
  documents, which are kept from then on; the third that the holders a download
  has read were named by the key or had claimed it, and claims are for good
  (it is about keys let through by a review, as `GrantEarned` is).

### What only TLC checks

Every invariant and action property of a passing run, and the refinement, are
stated by a theorem. Six properties are not: `KeyGoes` and `LastEventIsOffline`
(`Presence`), `InvalidDropped` and `SendEnds` (`ConversationRoom`),
`StaleDropped` and `TimersGo` (`ListingLifecycle`). They are liveness; a proof
needs the fairness of `Spec` and with it `ENABLED`, about which the prover cannot
reason. What the violated runs show are counterexamples, which TLC finds.

## Not modelled

The limits on mails of password resets and email changes; edits of profiles;
flags, whose records are independent; outgoing mail as such; wiring,
configuration, validation, formatting, the events scaffold and the script that
recreates the database. A database call that fails is taken not to have been
applied; an insert that was applied and whose reply was lost, after which
`create` deletes the conversation of a stored application
(`application.service.ts:109-121`), is listed as a hazard without a property.
A student can be an applicant twice for one listing by
creating one application and being invited to another: the list of applications
drops the second (`application.service.ts:167`); it is listed as a hazard
without a property.

## Plan

1. The cooldown and window of resets and email changes, in `RefreshSessions`.
2. A composition of `RefreshSessions` and `ConversationRoom`, the sessions of
   the sockets being those of the account.
3. Proofs: for that composition, that a socket of an ended session of the
   account hears no message whose room was listed after the end.

## Running

`tlc -config X.cfg M` for a run, where `PROJECT.json` names the module of each
configuration; `tlapm M.tla` for a proof module. Runs whose configuration ends
in a violation are those listed under "findings". `CHECK_DEADLOCK FALSE` is set
everywhere because every instance stops once its ids, sockets or bounds are
used up.
