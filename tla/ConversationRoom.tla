-------------------------- MODULE ConversationRoom -------------------------
(***************************************************************************)
(* One conversation: the sockets of the `conversation` namespace that have *)
(* joined its room, the messages sent to it, and the receipts.  A message  *)
(* or a receipt is a job of several awaited calls; between them sockets    *)
(* come and go, sessions end, and members join and leave the conversation. *)
(*                                                                         *)
(* The gateway never broadcasts to the room.  It lists the sockets in it,  *)
(* validates the session and the access of each one anew, disconnects      *)
(* those that fail, and emits to the ones that are left.                   *)
(***************************************************************************)
EXTENDS FiniteSets

CONSTANTS
    Users,
    Sockets,        \* sockets that will ever connect (bound); one session each
    UserOf,         \* the user of a socket
    Messages,       \* messages that will ever be sent (bound)
    Marks,          \* receipts that will ever be given (bound)
    Everything,     \* the target of conversation:seen
    None

Jobs == Messages \cup Marks
Phases == {"new", "accepted", "connected", "gone"}
Pcs == {"idle", "create", "last", "access", "mark", "fetch", "checks", "done", "ended"}
Checks == {"out", "session", "access", "ok"}

ASSUME IdsAssumption ==
    /\ UserOf \in [Sockets -> Users]
    /\ Messages \cap Marks = {}
    /\ Everything \notin Messages
    /\ None \notin Messages \cup Users

VARIABLES
    members,    \* the users assertCanAccess lets pass
    session,    \* is the socket's session among the active ones of its user?
    token,      \* is the access token of its handshake still valid?
    phase,      \* of a socket
    timed,      \* socketTimers: has the socket its two timers?
    joining,    \* conversation:join of a socket: the call it awaits
    room,       \* the sockets in the conversation's room
    pc,         \* of a job: the call it awaits
    by,         \* of a job: its user
    target,     \* of a receipt: a message, or Everything
    check,      \* of a job: authorizedRecipients, for each socket
    stored,     \* the messages of the conversation
    last,       \* conversation.lastMessage
    seen,       \* message.seenUsers
    delivered,  \* message.deliveredTo
    heard,      \* history: the sockets a job was emitted to
    known,      \* history: messages stored when a socket entered the room
    fresh,      \* history: members at some time since a job began, or fetched
    lively,     \* history: sockets with session and token when a job fetched
    before,     \* history: messages whose sending was done when this one began
    pinned      \* history: messages that have been lastMessage

sockets == <<session, token, phase, timed, joining, room, known>>
records == <<stored, last, seen, delivered, pinned>>
jobs == <<pc, by, target, check, heard, fresh, lively, before>>
vars == <<members, sockets, records, jobs>>

Valid(s) == session[s] /\ token[s]

Init ==
    /\ members \in SUBSET Users
    /\ session = [s \in Sockets |-> TRUE]
    /\ token = [s \in Sockets |-> TRUE]
    /\ phase = [s \in Sockets |-> "new"]
    /\ timed = [s \in Sockets |-> FALSE]
    /\ joining = [s \in Sockets |-> "no"]
    /\ room = {}
    /\ known = [s \in Sockets |-> {}]
    /\ pc = [e \in Jobs |-> "idle"]
    /\ by = [e \in Jobs |-> None]
    /\ target = [k \in Marks |-> Everything]
    /\ check = [e \in Jobs |-> [s \in Sockets |-> "out"]]
    /\ heard = [e \in Jobs |-> {}]
    /\ fresh = [e \in Jobs |-> {}]
    /\ lively = [e \in Jobs |-> {}]
    /\ before = [m \in Messages |-> {}]
    /\ stored = {}
    /\ last = None
    /\ seen = [m \in Messages |-> {}]
    /\ delivered = [m \in Messages |-> {}]
    /\ pinned = {}

Goto(e, p) == pc' = [pc EXCEPT ![e] = p]

\* A job that is over keeps nothing.
Forget(e, p) ==
    /\ Goto(e, p)
    /\ by' = [by EXCEPT ![e] = None]
    /\ target' = [k \in Marks |-> IF k = e THEN Everything ELSE target[k]]
    /\ check' = [check EXCEPT ![e] = [s \in Sockets |-> "out"]]
    /\ fresh' = [fresh EXCEPT ![e] = {}]
    /\ lively' = [lively EXCEPT ![e] = {}]

\* disconnect(true): handleDisconnect clears the timers, socket.io the rooms.
Drop(s) ==
    /\ phase' = [phase EXCEPT ![s] = "gone"]
    /\ timed' = [timed EXCEPT ![s] = FALSE]
    /\ room' = room \ {s}
    /\ UNCHANGED <<session, token, joining, known>>

----------------------------------------------------------------------------
(* Altered forms of the definitions below, each a slip the code could have *)
(* made; put in the place of the original they show which property notices.*)

ConnectUntimed(s) ==
    /\ phase[s] = "accepted"
    /\ phase' = [phase EXCEPT ![s] = IF token[s] THEN "connected" ELSE "gone"]
    /\ UNCHANGED <<session, token, timed, joining, room, known, members, records, jobs>>

FetchOthers(e) ==
    /\ pc[e] = "fetch"
    /\ check' = [check EXCEPT ![e] =
          [s \in Sockets |-> IF s \in room /\ UserOf[s] # by[e] THEN "session" ELSE "out"]]
    /\ fresh' = [fresh EXCEPT ![e] = members]
    /\ lively' = [lively EXCEPT ![e] = {s \in Sockets : Valid(s)}]
    /\ Goto(e, "checks")
    /\ UNCHANGED <<members, sockets, records, by, target, heard, before>>

EmitToRoom(e) ==
    /\ pc[e] = "checks"
    /\ \A s \in Sockets : check[e][s] \notin {"session", "access"}
    /\ heard' = [heard EXCEPT ![e] = room]
    /\ Forget(e, "done")
    /\ UNCHANGED <<members, sockets, records, before>>

CheckSessionOfConnected(e, s) ==
    /\ check[e][s] = "session"
    /\ phase[s] = "connected"
    /\ \/ /\ Valid(s)
          /\ check' = [check EXCEPT ![e][s] = "access"]
          /\ UNCHANGED sockets
       \/ check' = [check EXCEPT ![e][s] = "out"] /\ Drop(s)
    /\ UNCHANGED <<members, records, pc, by, target, heard, fresh, lively, before>>

SendLastOnce(m) ==
    /\ pc[m] = "last"
    /\ last' = IF last = None THEN m ELSE last
    /\ pinned' = pinned \cup {m}
    /\ Goto(m, "fetch")
    /\ UNCHANGED <<members, sockets, stored, seen, delivered,
                   by, target, check, heard, fresh, lively, before>>

MarkAccessOfMember(k) ==
    /\ pc[k] = "access"
    /\ Goto(k, "mark")
    /\ UNCHANGED <<members, sockets, records, by, target, check, heard, fresh, lively, before>>

MarkWriteSocket(k) ==
    /\ pc[k] = "mark"
    /\ seen' = [m \in Messages |-> seen[m] \cup {k}]
    /\ Goto(k, "done")
    /\ UNCHANGED <<members, sockets, stored, last, delivered, pinned,
                   by, target, check, heard, fresh, lively, before>>

----------------------------------------------------------------------------
(* A socket: the middleware, handleConnection, its timers, its end         *)

\* afterInit: validateToken, then verifiedTokenPayload.
Handshake(s) ==
    /\ phase[s] = "new" /\ Valid(s)
    /\ phase' = [phase EXCEPT ![s] = "accepted"]
    /\ UNCHANGED <<session, token, timed, joining, room, known, members, records, jobs>>

\* scheduleSessionChecks disconnects a socket whose token has run out.
Connect(s) ==
    /\ phase[s] = "accepted"
    /\ phase' = [phase EXCEPT ![s] = IF token[s] THEN "connected" ELSE "gone"]
    /\ timed' = [timed EXCEPT ![s] = token[s]]
    /\ UNCHANGED <<session, token, joining, room, known, members, records, jobs>>

\* The setTimeout for the expiry of the token.
Expiration(s) ==
    /\ timed[s] /\ ~token[s]
    /\ Drop(s)
    /\ UNCHANGED <<members, records, jobs>>

\* The setInterval; it changes nothing while the session is valid.
RevalidateSession(s) ==
    /\ timed[s] /\ ~Valid(s)
    /\ Drop(s)
    /\ UNCHANGED <<members, records, jobs>>

\* The client leaves, or a revalidation could not read the user.
Disconnect(s) ==
    /\ phase[s] = "connected"
    /\ Drop(s)
    /\ UNCHANGED <<members, records, jobs>>

----------------------------------------------------------------------------
(* conversation:join                                                       *)

\* WsJwtGuard.  To join again changes nothing.
JoinGuard(s) ==
    /\ phase[s] = "connected" /\ Valid(s)
    /\ joining[s] = "no" /\ s \notin room
    /\ joining' = [joining EXCEPT ![s] = "access"]
    /\ UNCHANGED <<session, token, phase, timed, room, known, members, records, jobs>>

JoinAccess(s) ==
    /\ joining[s] = "access"
    /\ joining' = [joining EXCEPT ![s] = IF UserOf[s] \in members THEN "join" ELSE "no"]
    /\ UNCHANGED <<session, token, phase, timed, room, known, members, records, jobs>>

\* socket.io lets no socket that is gone enter a room.
JoinRoom(s) ==
    /\ joining[s] = "join"
    /\ joining' = [joining EXCEPT ![s] = "no"]
    /\ IF phase[s] = "connected"
       THEN room' = room \cup {s} /\ known' = [known EXCEPT ![s] = stored]
       ELSE UNCHANGED <<room, known>>
    /\ UNCHANGED <<session, token, phase, timed, members, records, jobs>>

----------------------------------------------------------------------------
(* POST conversation/:id/sendMessage                                       *)

SendAccess(m, u) ==
    /\ pc[m] = "idle"
    /\ u \in members
    /\ by' = [by EXCEPT ![m] = u]
    /\ fresh' = [fresh EXCEPT ![m] = members]
    /\ before' = [before EXCEPT ![m] = {a \in Messages : pc[a] = "done"}]
    /\ Goto(m, "create")
    /\ UNCHANGED <<members, sockets, records, target, check, heard, lively>>

SendCreate(m) ==
    /\ pc[m] = "create"
    /\ stored' = stored \cup {m}
    /\ Goto(m, "last")
    /\ UNCHANGED <<members, sockets, last, seen, delivered, pinned,
                   by, target, check, heard, fresh, lively, before>>

SendLast(m) ==
    /\ pc[m] = "last"
    /\ last' = m
    /\ pinned' = pinned \cup {m}
    /\ Goto(m, "fetch")
    /\ UNCHANGED <<members, sockets, stored, seen, delivered,
                   by, target, check, heard, fresh, lively, before>>

----------------------------------------------------------------------------
(* conversation:seen and message:delivered                                 *)

\* WsJwtGuard; message:delivered also reads the message.
MarkGuard(k, s, t) ==
    /\ pc[k] = "idle"
    /\ phase[s] = "connected" /\ Valid(s)
    /\ t \in stored \cup {Everything}
    /\ by' = [by EXCEPT ![k] = UserOf[s]]
    /\ target' = [target EXCEPT ![k] = t]
    /\ fresh' = [fresh EXCEPT ![k] = members]
    /\ Goto(k, "access")
    /\ UNCHANGED <<members, sockets, records, check, heard, lively, before>>

\* Whoever is no member is refused: JobFails.
MarkAccess(k) ==
    /\ pc[k] = "access"
    /\ by[k] \in members
    /\ Goto(k, "mark")
    /\ UNCHANGED <<members, sockets, records, by, target, check, heard, fresh, lively, before>>

MarkSeen(k) ==
    /\ pc[k] = "mark" /\ target[k] = Everything
    /\ seen' = [m \in Messages |-> IF m \in stored THEN seen[m] \cup {by[k]} ELSE seen[m]]
    /\ Goto(k, "fetch")
    /\ UNCHANGED <<members, sockets, stored, last, delivered, pinned,
                   by, target, check, heard, fresh, lively, before>>

MarkDelivered(k) ==
    /\ pc[k] = "mark" /\ target[k] # Everything
    /\ delivered' = [delivered EXCEPT ![target[k]] = @ \cup {by[k]}]
    /\ Forget(k, "done")
    /\ UNCHANGED <<members, sockets, stored, last, seen, pinned, heard, before>>

----------------------------------------------------------------------------
(* authorizedRecipients, then the emit                                     *)

Fetch(e) ==
    /\ pc[e] = "fetch"
    /\ check' = [check EXCEPT ![e] =
          [s \in Sockets |-> IF s \in room THEN "session" ELSE "out"]]
    /\ fresh' = [fresh EXCEPT ![e] = members]
    /\ lively' = [lively EXCEPT ![e] = {s \in Sockets : Valid(s)}]
    /\ Goto(e, "checks")
    /\ UNCHANGED <<members, sockets, records, by, target, heard, before>>

\* revalidateSession; a read that fails counts as no.
CheckSession(e, s) ==
    /\ check[e][s] = "session"
    /\ \/ /\ Valid(s)
          /\ check' = [check EXCEPT ![e][s] = "access"]
          /\ UNCHANGED sockets
       \/ check' = [check EXCEPT ![e][s] = "out"] /\ Drop(s)
    /\ UNCHANGED <<members, records, pc, by, target, heard, fresh, lively, before>>

\* assertCanAccess; a read that fails counts as no.
CheckAccess(e, s) ==
    /\ check[e][s] = "access"
    /\ \/ /\ UserOf[s] \in members
          /\ check' = [check EXCEPT ![e][s] = "ok"]
          /\ UNCHANGED sockets
       \/ check' = [check EXCEPT ![e][s] = "out"] /\ Drop(s)
    /\ UNCHANGED <<members, records, pc, by, target, heard, fresh, lively, before>>

Emit(e) ==
    /\ pc[e] = "checks"
    /\ \A s \in Sockets : check[e][s] \notin {"session", "access"}
    /\ heard' = [heard EXCEPT ![e] =
          {s \in Sockets : check[e][s] = "ok" /\ phase[s] = "connected"}]
    /\ Forget(e, "done")
    /\ UNCHANGED <<members, sockets, records, before>>

----------------------------------------------------------------------------
(* What happens around the conversation                                    *)

Admit(u) ==
    /\ u \notin members
    /\ members' = members \cup {u}
    /\ fresh' = [e \in Jobs |-> IF pc[e] \in {"idle", "done", "ended"}
                                THEN {} ELSE fresh[e] \cup {u}]
    /\ UNCHANGED <<sockets, records, pc, by, target, check, heard, lively, before>>

Remove(u) ==
    /\ u \in members
    /\ members' = members \ {u}
    /\ UNCHANGED <<sockets, records, jobs>>

\* A session that has ended stays so (RefreshSessions!EndedStaysEnded).
SessionEnds(s) ==
    /\ session[s] /\ phase[s] # "gone"
    /\ session' = [session EXCEPT ![s] = FALSE]
    /\ UNCHANGED <<token, phase, timed, joining, room, known, members, records, jobs>>

TokenExpires(s) ==
    /\ token[s] /\ phase[s] # "gone"
    /\ token' = [token EXCEPT ![s] = FALSE]
    /\ UNCHANGED <<session, phase, timed, joining, room, known, members, records, jobs>>

\* A call that throws ends the job.
JobFails(e) ==
    /\ pc[e] \in {"create", "last", "access", "mark"}
    /\ Forget(e, "ended")
    /\ UNCHANGED <<members, sockets, records, heard, before>>

Continue(e) ==
    \/ e \in Messages /\ (SendCreate(e) \/ SendLast(e))
    \/ e \in Marks /\ (MarkAccess(e) \/ MarkSeen(e) \/ MarkDelivered(e))
    \/ Fetch(e) \/ Emit(e)
    \/ \E s \in Sockets : CheckSession(e, s) \/ CheckAccess(e, s)

Next ==
    \/ \E s \in Sockets :
          \/ Handshake(s) \/ Connect(s) \/ Expiration(s) \/ RevalidateSession(s)
          \/ Disconnect(s) \/ JoinGuard(s) \/ JoinAccess(s) \/ JoinRoom(s)
          \/ SessionEnds(s) \/ TokenExpires(s)
    \/ \E u \in Users : Admit(u) \/ Remove(u)
    \/ \E m \in Messages, u \in Users : SendAccess(m, u)
    \/ \E k \in Marks, s \in Sockets, t \in Messages \cup {Everything} : MarkGuard(k, s, t)
    \/ \E e \in Jobs : Continue(e) \/ JobFails(e)

\* The database answers, so a job that waits goes on; and timers fire.
Fairness ==
    /\ \A e \in Jobs : WF_vars(Continue(e))
    /\ \A s \in Sockets : WF_vars(Expiration(s)) /\ WF_vars(RevalidateSession(s))

Spec == Init /\ [][Next]_vars /\ Fairness

----------------------------------------------------------------------------
(* What the conversation promises                                          *)

\* Every variable keeps to the shape of its documents and of socket.data.
TypeOK ==
    /\ members \subseteq Users
    /\ session \in [Sockets -> BOOLEAN] /\ token \in [Sockets -> BOOLEAN]
    /\ phase \in [Sockets -> Phases] /\ timed \in [Sockets -> BOOLEAN]
    /\ joining \in [Sockets -> {"no", "access", "join"}]
    /\ room \subseteq Sockets
    /\ known \in [Sockets -> SUBSET Messages]
    /\ pc \in [Jobs -> Pcs]
    /\ by \in [Jobs -> Users \cup {None}]
    /\ target \in [Marks -> Messages \cup {Everything}]
    /\ check \in [Jobs -> [Sockets -> Checks]]
    /\ {heard, lively} \subseteq [Jobs -> SUBSET Sockets]
    /\ fresh \in [Jobs -> SUBSET Users]
    /\ before \in [Messages -> SUBSET Messages]
    /\ {stored, pinned} \subseteq SUBSET Messages
    /\ last \in Messages \cup {None}
    /\ {seen, delivered} \subseteq [Messages -> SUBSET Users]

\* An event reaches a socket only if its session was valid, and its user a
\* member, at some time after the gateway had listed the room; whoever lost
\* either before is disconnected instead of being sent the message.
OnlyEntitledHear ==
    [][\A e \in Jobs : heard'[e] # heard[e] =>
          \A s \in heard'[e] : s \in lively[e] /\ UserOf[s] \in fresh[e]]_vars

\* A socket in the room has heard every message whose sending is done, but
\* those it could read from the database once it was in the room.
NoMessageMissed ==
    \A m \in Messages, s \in room :
        pc[m] = "done" => s \in heard[m] \/ m \in known[s]

\* A message or a receipt is written only by a user who was a member at some
\* time since the request or the event was received.
OnlyMembersWrite ==
    [][\A e \in Jobs :
          (pc[e] \in {"create", "mark"} /\ pc'[e] \in {"last", "fetch", "done"})
              => by[e] \in fresh[e]]_vars

\* lastMessage is never older than a message whose sending began after its
\* own was done.
LastIsRecent ==
    \A a, b \in Messages : last = a /\ b \in pinned => a \notin before[b]

\* A socket whose session ended or whose token ran out is disconnected.
InvalidDropped ==
    \A s \in Sockets : (phase[s] = "connected" /\ ~Valid(s)) ~> phase[s] = "gone"

\* No socket that goes in the middle holds up the sending for the others.
SendEnds ==
    \A m \in Messages : (pc[m] # "idle") ~> pc[m] \in {"done", "ended"}

=============================================================================
