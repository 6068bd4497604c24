-------------------------- MODULE PrivateDocuments --------------------------
(***************************************************************************)
(* The private documents of students: a document replaces the one of its   *)
(* type in two updates, an application is founded on the required ones,    *)
(* and the landlord who was sent it may download them (upload.service.ts,  *)
(* object-key.ts, users.service.ts addDocument, application.service.ts     *)
(* create).                                                                *)
(*                                                                         *)
(* The applications are those of ApplicationLifecycle, which               *)
(* ApplicationGroups implements; here they are founded by a request that   *)
(* has looked at the student's documents before.  All listings belong to   *)
(* one landlord.                                                           *)
(***************************************************************************)
EXTENDS Naturals

CONSTANTS
    Students, Listings,
    Types,          \* DocumentType
    Required,       \* the types the requirements of a listing ask for
    ObjectKeys,     \* private object keys
    ownerIdFromKey, \* whom a key names, None in the old format
    Requests,       \* slots for requests in flight (bound on concurrency)
    None            \* no owner, no group, no key

ASSUME RequiredAssumption == Required \subseteq Types
ASSUME KeyAssumption == ownerIdFromKey \in [ObjectKeys -> Students \cup {None}]
ASSUME AbsenceAssumption == None \notin Students

Documents == [type : Types, key : ObjectKeys]
Pcs == {"idle", "push", "found", "holders", "review", "sign"}

Request == [pc : Pcs, student : Students \cup {None}, type : Types \cup {None},
            key : ObjectKeys \cup {None}, listing : Listings \cup {None},
            owners : SUBSET Students]

VARIABLES
    documents,  \* users.documents: how often each one is in a student's array
    titleKey,   \* registerOfTitleKey of each listing, or None
    group,      \* the applications
    req,        \* the requests in flight
    claimed,    \* history: <<s, k>> when s named k before keys were checked
    raced,      \* history: <<s, t>> when the last uploads of it overlapped
    lost        \* history: <<s, t>> when an upload died between its updates

vars == <<documents, titleKey, group, req, claimed, raced, lost>>

Applications == INSTANCE ApplicationLifecycle WITH NoGroup <- None

Group == [members : SUBSET Students, stage : Applications!Stages]
Reviewed == {"SENT", "ACCEPTED", "REJECTED"}

Idle == [pc |-> "idle", student |-> None, type |-> None, key |-> None,
         listing |-> None, owners |-> {}]

Begin(r, request) == req[r].pc = "idle" /\ req' = [req EXCEPT ![r] = request]
End(r) == req' = [req EXCEPT ![r] = Idle]

Entries(s) == {d \in Documents : documents[s][d] > 0}
HasType(s, t) == \E d \in Entries(s) : d.type = t

Nothing == [d \in Documents |-> 0]

\* A document may have been recorded under a key of any kind, before keys
\* were bound to an account.
Init ==
    /\ documents \in [Students -> {Nothing} \cup {[Nothing EXCEPT ![d] = 1] : d \in Documents}]
    /\ titleKey = [l \in Listings |-> None]
    /\ Applications!Init
    /\ req = [r \in Requests |-> Idle]
    /\ claimed = {c \in Students \X ObjectKeys : \E d \in Entries(c[1]) : d.key = c[2]}
    /\ raced = {}
    /\ lost = {}

----------------------------------------------------------------------------
(* Altered forms of the definitions below, each a slip the code could have *)
(* made; put in the place of the original they show which property notices.*)

\* $pull: { documents: { key } } in the place of { type }.
WithoutKey(s, t, k) == [d \in Documents |-> IF d.key = k THEN 0 ELSE documents[s][d]]

\* The filter of the $push still asks for a document of the type.
PushOverPresent(r) ==
    /\ req[r].pc = "push"
    /\ documents' = [documents EXCEPT ![req[r].student] =
                        [d \in Documents |-> IF /\ HasType(req[r].student, req[r].type)
                                                /\ d = [type |-> req[r].type, key |-> req[r].key]
                                             THEN @[d] + 1 ELSE @[d]]]
    /\ lost' = lost \ {<<req[r].student, req[r].type>>}
    /\ End(r)
    /\ UNCHANGED <<titleKey, group, claimed, raced>>

\* Whoever has recorded the key counts as its owner.
HoldersByClaim(k) == {s \in Students : \E d \in Entries(s) : d.key = k}

----------------------------------------------------------------------------
(* POST /users/addDocument                                                 *)

isKeyOwnedBy(k, s) == ownerIdFromKey[k] = s

\* $pull: { documents: { type } }
WithoutType(s, t, k) == [d \in Documents |-> IF d.type = t THEN 0 ELSE documents[s][d]]

Pushing(s, t) == {r \in Requests : req[r].pc = "push" /\ req[r].student = s /\ req[r].type = t}

\* The two operations of bulkWrite.
AddDocumentPull(r, s, t, k) ==
    /\ isKeyOwnedBy(k, s)
    /\ Begin(r, [Idle EXCEPT !.pc = "push", !.student = s, !.type = t, !.key = k])
    /\ documents' = [documents EXCEPT ![s] = WithoutType(s, t, k)]
    /\ raced' = IF Pushing(s, t) = {} THEN raced \ {<<s, t>>} ELSE raced \cup {<<s, t>>}
    /\ UNCHANGED <<titleKey, group, claimed, lost>>

AddDocumentPush(r) ==
    LET s == req[r].student
        d == [type |-> req[r].type, key |-> req[r].key]
    IN  /\ req[r].pc = "push"
        /\ documents' = [documents EXCEPT ![s][d] = @ + 1]
        /\ lost' = lost \ {<<s, req[r].type>>}
        /\ End(r)
        /\ UNCHANGED <<titleKey, group, claimed, raced>>

----------------------------------------------------------------------------
(* POST /applications and what becomes of it                               *)

assertRequiredDocuments(s) == \A t \in Required : HasType(s, t)

\* The documents are those the strategy read with the user.
CreateRead(r, l, s) ==
    /\ group[<<l, s>>] = None
    /\ assertRequiredDocuments(s)
    /\ Begin(r, [Idle EXCEPT !.pc = "found", !.student = s, !.listing = l])
    /\ UNCHANGED <<documents, titleKey, group, claimed, raced, lost>>

\* The unique index lets the first of two through.
CreateFound(r) ==
    LET g == <<req[r].listing, req[r].student>>
    IN  /\ req[r].pc = "found"
        /\ IF group[g] = None THEN Applications!Found(g) ELSE UNCHANGED group
        /\ End(r)
        /\ UNCHANGED <<documents, titleKey, claimed, raced, lost>>

\* Join, leave, send, approve or reject, and delete.
ApplicationChanges(g) ==
    /\ \/ Applications!Send(g) \/ Applications!Disband(g)
       \/ \E s \in Students : Applications!Admit(g, s) \/ Applications!Withdraw(g, s)
       \/ \E v \in Applications!Decisions : Applications!Decide(g, v)
    /\ UNCHANGED <<documents, titleKey, req, claimed, raced, lost>>

----------------------------------------------------------------------------
(* The title of a listing, and GET /upload/access                          *)

\* A step of the listing names another title, or the listing is deleted.
SetTitle(l) ==
    /\ \E k \in ObjectKeys \cup {None} :
          k # titleKey[l] /\ titleKey' = [titleKey EXCEPT ![l] = k]
    /\ UNCHANGED <<documents, group, req, claimed, raced, lost>>

AccessTitle(r, k) ==
    /\ Begin(r, [Idle EXCEPT !.key = k,
                   !.pc = IF \E l \in Listings : titleKey[l] = k THEN "sign" ELSE "holders"])
    /\ UNCHANGED <<documents, titleKey, group, claimed, raced, lost>>

\* documentOwnerIds: an owner-scoped key resolves only to its owner.
Holders(k) == {s \in Students : /\ \E d \in Entries(s) : d.key = k
                                /\ ownerIdFromKey[k] \in {s, None}}

AccessHolders(r) ==
    LET owners == Holders(req[r].key)
    IN  /\ req[r].pc = "holders"
        /\ req' = [req EXCEPT ![r] = IF owners = {} THEN Idle
                                     ELSE [@ EXCEPT !.pc = "review", !.owners = owners]]
        /\ UNCHANGED <<documents, titleKey, group, claimed, raced, lost>>

canReview(owners) ==
    \E g \in Applications!Keys : /\ group[g] # None
                                 /\ group[g].members \cap owners # {}
                                 /\ group[g].stage \in Reviewed

AccessReview(r) ==
    /\ req[r].pc = "review"
    /\ req' = [req EXCEPT ![r] = IF canReview(req[r].owners)
                                 THEN [Idle EXCEPT !.pc = "sign", !.key = req[r].key]
                                 ELSE Idle]
    /\ UNCHANGED <<documents, titleKey, group, claimed, raced, lost>>

\* getPresignedDownloadUrl: the landlord is given the URL.
AccessSign(r) ==
    /\ req[r].pc = "sign"
    /\ End(r)
    /\ UNCHANGED <<documents, titleKey, group, claimed, raced, lost>>

----------------------------------------------------------------------------
(* Requests that die                                                       *)

RequestDies(r) ==
    /\ req[r].pc # "idle"
    /\ lost' = IF req[r].pc = "push" THEN lost \cup {<<req[r].student, req[r].type>>} ELSE lost
    /\ End(r)
    /\ UNCHANGED <<documents, titleKey, group, claimed, raced>>

Next ==
    \/ \E r \in Requests :
          \/ \E s \in Students, t \in Types, k \in ObjectKeys : AddDocumentPull(r, s, t, k)
          \/ \E l \in Listings, s \in Students : CreateRead(r, l, s)
          \/ \E k \in ObjectKeys : AccessTitle(r, k)
          \/ AddDocumentPush(r) \/ CreateFound(r)
          \/ AccessHolders(r) \/ AccessReview(r) \/ AccessSign(r) \/ RequestDies(r)
    \/ \E g \in Applications!Keys : ApplicationChanges(g)
    \/ \E l \in Listings : SetTitle(l)

Spec == Init /\ [][Next]_vars

----------------------------------------------------------------------------
(* What the documents promise                                              *)

\* The documents keep to users.schema.ts and listings.schema.ts.
TypeOK ==
    /\ documents \in [Students -> [Documents -> Nat]]
    /\ titleKey \in [Listings -> ObjectKeys \cup {None}]
    /\ group \in [Applications!Keys -> Group \cup {None}]
    /\ req \in [Requests -> Request]
    /\ claimed \subseteq Students \X ObjectKeys
    /\ raced \subseteq Students \X Types
    /\ lost \subseteq Students \X Types

\* A document replaces the one of its type: a student has at most one of a
\* type, unless the last uploads of it overlapped (users.service.ts 221-236
\* pulls and pushes in two updates).
OneOfEachType ==
    \A s \in Students : \A d, e \in Entries(s) :
        d.type = e.type /\ <<s, d.type>> \notin raced => d = e /\ documents[s][d] = 1

\* The documents an application was founded on stay: the landlord finds one
\* of each required type of its founder, unless its replacement is on its
\* way or has died between its two updates.
Kept(s, t) == HasType(s, t) \/ <<s, t>> \in lost \/ Pushing(s, t) # {}

RequiredStay ==
    \A g \in Applications!Keys, t \in Required : group[g] # None => Kept(g[2], t)

\* Who may be downloaded from by way of an application: a member of one that
\* the landlord was sent, whom the key names, or who had claimed a key that
\* names nobody.
Earned(k) ==
    \E g \in Applications!Keys :
        /\ group[g] # None /\ group[g].stage \in Reviewed
        /\ \E s \in group[g].members :
              isKeyOwnedBy(k, s) \/ (ownerIdFromKey[k] = None /\ <<s, k>> \in claimed)

\* "A claim recorded before keys were bound to a user cannot widen access to
\* somebody else's document" (upload.service.ts:134-137), whatever uploads and
\* applications do between the two reads.  It is about the key a review lets
\* through; a key that a listing names as its title needs no review.
GrantEarned ==
    [][\A r \in Requests :
          req[r].pc = "review" /\ req'[r].pc = "sign" => Earned(req'[r].key)]_vars

=============================================================================
