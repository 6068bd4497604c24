----------------------- MODULE ConversationRoomProofs -----------------------
(***************************************************************************)
(* Theorems about ConversationRoom, for any number of users, sockets,      *)
(* messages and receipts.  Everything a job knows was read by an earlier   *)
(* call: each invariant says what of it holds at the call that uses it.    *)
(***************************************************************************)
EXTENDS ConversationRoom, TLAPS

----------------------------------------------------------------------------
(* Types                                                                   *)

TypedSockets ==
    /\ session \in [Sockets -> BOOLEAN] /\ token \in [Sockets -> BOOLEAN]
    /\ phase \in [Sockets -> Phases] /\ timed \in [Sockets -> BOOLEAN]
    /\ joining \in [Sockets -> {"no", "access", "join"}]
    /\ room \subseteq Sockets
    /\ known \in [Sockets -> SUBSET Messages]

TypedRecords ==
    /\ stored \subseteq Messages /\ pinned \subseteq Messages
    /\ last \in Messages \cup {None}
    /\ seen \in [Messages -> SUBSET Users] /\ delivered \in [Messages -> SUBSET Users]

TypedJobs ==
    /\ pc \in [Jobs -> Pcs]
    /\ by \in [Jobs -> Users \cup {None}]
    /\ target \in [Marks -> Messages \cup {Everything}]
    /\ check \in [Jobs -> [Sockets -> Checks]]
    /\ heard \in [Jobs -> SUBSET Sockets] /\ lively \in [Jobs -> SUBSET Sockets]
    /\ fresh \in [Jobs -> SUBSET Users]
    /\ before \in [Messages -> SUBSET Messages]

Resting == {"idle", "done", "ended"}

\* A job under way has a user, and everybody who has been a member since is
\* among those it may have found to be one.
Attended ==
    \A e \in Jobs : pc[e] \notin Resting => by[e] \in Users /\ members \subseteq fresh[e]

LEMMA TypedParts ==
    TypeOK <=> members \subseteq Users /\ TypedSockets /\ TypedRecords /\ TypedJobs
  BY DEF TypeOK, TypedSockets, TypedRecords, TypedJobs

LEMMA TypedDrop ==
    ASSUME TypedSockets, NEW s \in Sockets, Drop(s)
    PROVE  TypedSockets'
  BY DEF TypedSockets, Drop, Phases

LEMMA TypedForget ==
    ASSUME TypedJobs, NEW e \in Jobs, NEW p \in Pcs, Forget(e, p),
           heard' \in [Jobs -> SUBSET Sockets], UNCHANGED before
    PROVE  TypedJobs'
<1>1. /\ pc' \in [Jobs -> Pcs] /\ by' \in [Jobs -> Users \cup {None}]
      /\ target' \in [Marks -> Messages \cup {Everything}]
  BY DEF TypedJobs, Forget, Goto
<1>2. /\ check' \in [Jobs -> [Sockets -> Checks]]
      /\ lively' \in [Jobs -> SUBSET Sockets] /\ fresh' \in [Jobs -> SUBSET Users]
  BY DEF TypedJobs, Forget, Checks
<1> QED
  BY <1>1, <1>2 DEF TypedJobs

\* The outcome of one check of a socket.
LEMMA TypedCheck ==
    ASSUME TypedJobs, NEW e \in Jobs, NEW s \in Sockets, NEW c \in Checks,
           check' = [check EXCEPT ![e][s] = c],
           UNCHANGED <<pc, by, target, heard, fresh, lively, before>>
    PROVE  TypedJobs'
<1>1. check' \in [Jobs -> [Sockets -> Checks]]
  BY DEF TypedJobs
<1> QED
  BY <1>1 DEF TypedJobs

LEMMA TypedSocketStep ==
    ASSUME TypeOK, NEW s \in Sockets,
           \/ Handshake(s) \/ Connect(s) \/ Expiration(s) \/ RevalidateSession(s)
           \/ Disconnect(s) \/ JoinGuard(s) \/ JoinAccess(s) \/ JoinRoom(s)
           \/ SessionEnds(s) \/ TokenExpires(s)
    PROVE  TypeOK' /\ UNCHANGED <<members, records, jobs>>
<1>0. /\ members \subseteq Users
      /\ TypedSockets /\ TypedRecords /\ TypedJobs
  BY TypedParts
<1>1. UNCHANGED <<members, records, jobs>>
  BY DEF Handshake, Connect, Expiration, RevalidateSession, Disconnect, JoinGuard,
         JoinAccess, JoinRoom, SessionEnds, TokenExpires
<1>2. members' \subseteq Users /\ TypedRecords' /\ TypedJobs'
  BY <1>0, <1>1 DEF records, jobs, TypedRecords, TypedJobs
<1>3. TypedSockets'
  <2>1. CASE Expiration(s) \/ RevalidateSession(s) \/ Disconnect(s)
    BY <1>0, <2>1, TypedDrop DEF Expiration, RevalidateSession, Disconnect
  <2>2. CASE Handshake(s) \/ Connect(s)
    BY <1>0, <2>2 DEF Handshake, Connect, TypedSockets, Phases
  <2>3. CASE JoinGuard(s) \/ JoinAccess(s)
    BY <1>0, <2>3 DEF JoinGuard, JoinAccess, TypedSockets
  <2>4. CASE JoinRoom(s)
    BY <1>0, <2>4 DEF JoinRoom, TypedSockets, TypedRecords
  <2>5. CASE SessionEnds(s) \/ TokenExpires(s)
    BY <1>0, <2>5 DEF SessionEnds, TokenExpires, TypedSockets
  <2> QED
    BY <2>1, <2>2, <2>3, <2>4, <2>5
<1>4. TypeOK'
  BY <1>2, <1>3 DEF TypeOK, TypedSockets, TypedRecords, TypedJobs
<1> QED
  BY <1>1, <1>4

LEMMA TypedNext == TypeOK /\ Attended /\ [Next]_vars => TypeOK'
<1> SUFFICES ASSUME TypeOK, Attended, [Next]_vars
             PROVE  members' \subseteq Users /\ TypedSockets' /\ TypedRecords' /\ TypedJobs'
  BY DEF TypeOK, TypedSockets, TypedRecords, TypedJobs
<1> DEFINE Typed == members' \subseteq Users /\ TypedSockets' /\ TypedRecords' /\ TypedJobs'
<1>0. members \subseteq Users /\ TypedSockets /\ TypedRecords /\ TypedJobs
  BY TypedParts
<1>1. ASSUME NEW s \in Sockets,
             \/ Handshake(s) \/ Connect(s) \/ Expiration(s) \/ RevalidateSession(s)
             \/ Disconnect(s) \/ JoinGuard(s) \/ JoinAccess(s) \/ JoinRoom(s)
             \/ SessionEnds(s) \/ TokenExpires(s)
      PROVE  Typed
  <2>1. TypeOK'
    BY <1>1, TypedSocketStep
  <2> QED
    BY <2>1 DEF TypeOK, TypedSockets, TypedRecords, TypedJobs
<1>2. ASSUME NEW u \in Users, Admit(u) \/ Remove(u) PROVE Typed
  <2>1. TypedSockets' /\ TypedRecords' /\ members' \subseteq Users
    BY <1>0, <1>2 DEF Admit, Remove, sockets, records, TypedSockets, TypedRecords
  <2>2. fresh' \in [Jobs -> SUBSET Users]
    BY <1>0, <1>2 DEF Admit, Remove, jobs, TypedJobs
  <2> QED
    BY <1>0, <1>2, <2>1, <2>2 DEF Admit, Remove, jobs, TypedJobs
<1>3. ASSUME NEW m \in Messages, NEW u \in Users, SendAccess(m, u) PROVE Typed
  <2>1. TypedSockets' /\ TypedRecords' /\ members' \subseteq Users
    BY <1>0, <1>3 DEF SendAccess, sockets, records, TypedSockets, TypedRecords
  <2>2. TypedJobs'
    BY <1>0, <1>3 DEF SendAccess, Goto, TypedJobs, Pcs, Jobs
  <2> QED
    BY <2>1, <2>2
<1>4. ASSUME NEW k \in Marks, NEW s \in Sockets, NEW t \in Messages \cup {Everything},
             MarkGuard(k, s, t)
      PROVE  Typed
  <2>1. TypedSockets' /\ TypedRecords' /\ members' \subseteq Users
    BY <1>0, <1>4 DEF MarkGuard, sockets, records, TypedSockets, TypedRecords
  <2>2. TypedJobs'
    BY <1>0, <1>4, IdsAssumption DEF MarkGuard, Goto, TypedJobs, Pcs, Jobs
  <2> QED
    BY <2>1, <2>2
<1>5. ASSUME NEW m \in Messages, SendCreate(m) \/ SendLast(m) PROVE Typed
  BY <1>0, <1>5 DEF SendCreate, SendLast, Goto, sockets, TypedSockets, TypedRecords,
                    TypedJobs, Pcs, Jobs
<1>6. ASSUME NEW k \in Marks, MarkAccess(k) PROVE Typed
  BY <1>0, <1>6 DEF MarkAccess, Goto, sockets, records, TypedSockets, TypedRecords,
                    TypedJobs, Pcs, Jobs
<1>7. ASSUME NEW k \in Marks, MarkSeen(k) PROVE Typed
  <2>1. by[k] \in Users
    BY <1>7 DEF MarkSeen, Attended, Resting, Jobs
  <2>2. seen' \in [Messages -> SUBSET Users]
    BY <1>0, <1>7, <2>1 DEF MarkSeen, TypedRecords
  <2> QED
    BY <1>0, <1>7, <2>2 DEF MarkSeen, Goto, sockets, TypedSockets, TypedRecords,
                            TypedJobs, Pcs, Jobs
<1>8. ASSUME NEW k \in Marks, MarkDelivered(k) PROVE Typed
  <2>1. by[k] \in Users
    BY <1>8 DEF MarkDelivered, Attended, Resting, Jobs
  <2>2. delivered' \in [Messages -> SUBSET Users]
    BY <1>0, <1>8, <2>1 DEF MarkDelivered, TypedRecords
  <2>3. TypedJobs'
    BY <1>0, <1>8, TypedForget DEF MarkDelivered, TypedJobs, Pcs, Jobs
  <2> QED
    BY <1>0, <1>8, <2>2, <2>3 DEF MarkDelivered, sockets, TypedSockets, TypedRecords
<1>9. ASSUME NEW e \in Jobs, Fetch(e) PROVE Typed
  <2>1. /\ check' \in [Jobs -> [Sockets -> Checks]] /\ fresh' \in [Jobs -> SUBSET Users]
        /\ lively' \in [Jobs -> SUBSET Sockets] /\ pc' \in [Jobs -> Pcs]
    BY <1>0, <1>9 DEF Fetch, Goto, TypedJobs, Pcs, Checks
  <2> QED
    BY <1>0, <1>9, <2>1
       DEF Fetch, sockets, records, TypedSockets, TypedRecords, TypedJobs
<1>10. ASSUME NEW e \in Jobs, Emit(e) \/ JobFails(e) PROVE Typed
  <2>1. heard' \in [Jobs -> SUBSET Sockets]
    BY <1>0, <1>10 DEF Emit, JobFails, TypedJobs
  <2>2. TypedJobs'
    BY <1>0, <1>10, <2>1, TypedForget DEF Emit, JobFails, Pcs
  <2> QED
    BY <1>0, <1>10, <2>2 DEF Emit, JobFails, sockets, records, TypedSockets, TypedRecords
<1>11. ASSUME NEW e \in Jobs, NEW s \in Sockets, CheckSession(e, s) \/ CheckAccess(e, s)
       PROVE  Typed
  <2>1. TypedSockets'
    BY <1>0, <1>11, TypedDrop DEF CheckSession, CheckAccess, sockets, TypedSockets
  <2>2. TypedJobs'
    <3>1. PICK c \in Checks : check' = [check EXCEPT ![e][s] = c]
      BY <1>11 DEF CheckSession, CheckAccess, Checks
    <3> QED
      BY <1>0, <1>11, <3>1, TypedCheck DEF CheckSession, CheckAccess
  <2> QED
    BY <1>0, <1>11, <2>1, <2>2 DEF CheckSession, CheckAccess, records, TypedRecords
<1>12. CASE UNCHANGED vars
  BY <1>0, <1>12 DEF vars, sockets, records, jobs, TypedSockets, TypedRecords, TypedJobs
<1> QED
  BY <1>1, <1>2, <1>3, <1>4, <1>5, <1>6, <1>7, <1>8, <1>9, <1>10, <1>11, <1>12
     DEF Next, Continue

----------------------------------------------------------------------------
(* What a job knows at the call it awaits                                  *)

\* A user found to be a member was one; a socket found valid was so when the
\* room was listed, for validity never comes back.
Knows(e) ==
    /\ pc[e] \notin Resting => by[e] \in Users /\ members \subseteq fresh[e]
    /\ pc[e] \in {"create", "mark"} => by[e] \in fresh[e]
    /\ \A s \in Sockets :
          /\ check[e][s] # "out" => pc[e] = "checks"
          /\ (pc[e] = "checks" /\ Valid(s)) => s \in lively[e]
          /\ check[e][s] \in {"access", "ok"} => s \in lively[e]
          /\ check[e][s] = "ok" => UserOf[s] \in fresh[e]

AllKnow == \A e \in Jobs : Knows(e)

LEMMA KnowingAttended == AllKnow => Attended
  BY DEF AllKnow, Knows, Attended

\* A call of job e.
Acts(e) ==
    \/ e \in Messages /\ \E u \in Users : SendAccess(e, u)
    \/ e \in Marks /\ \E s \in Sockets, t \in Messages \cup {Everything} : MarkGuard(e, s, t)
    \/ Continue(e) \/ JobFails(e)

\* What others do to the job: they let members in, and the job may find them.
Waits(e) ==
    /\ pc'[e] = pc[e] /\ by'[e] = by[e] /\ check'[e] = check[e]
    /\ lively'[e] = lively[e] /\ heard'[e] = heard[e]
    /\ e \in Messages => before'[e] = before[e]
    /\ \/ members' \subseteq members /\ fresh'[e] = fresh[e]
       \/ \E u \in Users :
             /\ members' = members \cup {u}
             /\ pc[e] \notin Resting => fresh'[e] = fresh[e] \cup {u}

LEMMA SocketEnds == TypeOK /\ [Next]_vars => \A s \in Sockets : Valid(s)' => Valid(s)
<1> SUFFICES ASSUME TypeOK, [Next]_vars, NEW s \in Sockets, Valid(s)' PROVE Valid(s)
  OBVIOUS
<1> DEFINE Ends == Valid(s)' => Valid(s)
<1>1. ASSUME NEW q \in Sockets, SessionEnds(q) \/ TokenExpires(q) PROVE Ends
  BY <1>1 DEF SessionEnds, TokenExpires, Valid, TypeOK
<1>2. ASSUME NEW q \in Sockets,
             \/ Handshake(q) \/ Connect(q) \/ Expiration(q) \/ RevalidateSession(q)
             \/ Disconnect(q) \/ JoinGuard(q) \/ JoinAccess(q) \/ JoinRoom(q)
      PROVE  Ends
  BY <1>2 DEF Handshake, Connect, Expiration, RevalidateSession, Disconnect, Drop,
              JoinGuard, JoinAccess, JoinRoom, Valid
<1>3. ASSUME NEW u \in Users, Admit(u) \/ Remove(u) PROVE Ends
  BY <1>3 DEF Admit, Remove, sockets, Valid
<1>4. ASSUME NEW e \in Jobs, Acts(e) PROVE Ends
  BY <1>4 DEF Acts, SendAccess, MarkGuard, Continue, JobFails, SendCreate, SendLast,
       MarkAccess, MarkSeen, MarkDelivered, Fetch, Emit, CheckSession, CheckAccess,
       Drop, sockets, Valid
<1>5. CASE UNCHANGED vars
  BY <1>5 DEF vars, sockets, Valid
<1> QED
  BY <1>1, <1>2, <1>3, <1>4, <1>5 DEF Next, Acts, Jobs

LEMMA OthersWait ==
    ASSUME TypeOK, [Next]_vars, NEW e \in Jobs, ~Acts(e)
    PROVE  Waits(e)
<1>0. /\ pc \in [Jobs -> Pcs] /\ by \in [Jobs -> Users \cup {None}]
      /\ check \in [Jobs -> [Sockets -> Checks]]
      /\ heard \in [Jobs -> SUBSET Sockets] /\ lively \in [Jobs -> SUBSET Sockets]
      /\ fresh \in [Jobs -> SUBSET Users] /\ before \in [Messages -> SUBSET Messages]
  BY DEF TypeOK
<1>1. ASSUME NEW s \in Sockets,
             \/ Handshake(s) \/ Connect(s) \/ Expiration(s) \/ RevalidateSession(s)
             \/ Disconnect(s) \/ JoinGuard(s) \/ JoinAccess(s) \/ JoinRoom(s)
             \/ SessionEnds(s) \/ TokenExpires(s)
      PROVE  Waits(e)
  BY <1>1, TypedSocketStep DEF jobs, Waits
<1>2. ASSUME NEW u \in Users, Admit(u) PROVE Waits(e)
  BY <1>0, <1>2 DEF Admit, Waits, Resting
<1>3. ASSUME NEW u \in Users, Remove(u) PROVE Waits(e)
  BY <1>3 DEF Remove, Waits, jobs
<1>4. ASSUME NEW f \in Jobs, f # e, Acts(f) PROVE Waits(e)
  <2>1. CASE \/ \E u \in Users : SendAccess(f, u)
             \/ \E s \in Sockets, t \in Messages \cup {Everything} : MarkGuard(f, s, t)
    BY <1>0, <1>4, <2>1 DEF SendAccess, MarkGuard, Goto, Waits
  <2>2. CASE \/ SendCreate(f) \/ SendLast(f) \/ MarkAccess(f) \/ MarkSeen(f) \/ Fetch(f)
    BY <1>0, <1>4, <2>2 DEF SendCreate, SendLast, MarkAccess, MarkSeen, Fetch, Goto, Waits
  <2>3. CASE MarkDelivered(f) \/ Emit(f) \/ JobFails(f)
    BY <1>0, <1>4, <2>3 DEF MarkDelivered, Emit, JobFails, Forget, Goto, Waits
  <2>4. CASE \E s \in Sockets : CheckSession(f, s) \/ CheckAccess(f, s)
    BY <1>0, <1>4, <2>4 DEF CheckSession, CheckAccess, Waits
  <2> QED
    BY <1>4, <2>1, <2>2, <2>3, <2>4 DEF Acts, Continue
<1>5. CASE UNCHANGED vars
  BY <1>5 DEF vars, jobs, Waits
<1> QED
  BY <1>1, <1>2, <1>3, <1>4, <1>5 DEF Next, Acts, Jobs

LEMMA KnowsNext == TypeOK /\ AllKnow /\ [Next]_vars => AllKnow'
<1> SUFFICES ASSUME TypeOK, AllKnow, [Next]_vars, NEW e \in Jobs PROVE Knows(e)'
  BY DEF AllKnow
<1>0. /\ pc \in [Jobs -> Pcs] /\ by \in [Jobs -> Users \cup {None}]
      /\ check \in [Jobs -> [Sockets -> Checks]]
      /\ lively \in [Jobs -> SUBSET Sockets] /\ fresh \in [Jobs -> SUBSET Users]
      /\ members \subseteq Users /\ Knows(e)
  BY DEF TypeOK, AllKnow
<1>1. \A s \in Sockets : Valid(s)' => Valid(s)
  BY SocketEnds
<1>2. CASE ~Acts(e)
  BY <1>0, <1>1, <1>2, OthersWait DEF Waits, Knows, Resting
<1>3. ASSUME e \in Messages, NEW u \in Users, SendAccess(e, u) PROVE Knows(e)'
  BY <1>0, <1>3 DEF SendAccess, Goto, Knows, Resting
<1>4. ASSUME e \in Marks, NEW q \in Sockets, NEW t \in Messages \cup {Everything},
             MarkGuard(e, q, t)
      PROVE  Knows(e)'
  BY <1>0, <1>4, IdsAssumption DEF MarkGuard, Goto, Knows, Resting
<1>5. CASE SendCreate(e) \/ SendLast(e) \/ MarkAccess(e) \/ MarkSeen(e)
  BY <1>0, <1>5 DEF SendCreate, SendLast, MarkAccess, MarkSeen, Goto, Knows, Resting
<1>6. CASE Fetch(e)
  BY <1>0, <1>1, <1>6 DEF Fetch, Goto, Knows, Resting, Valid
<1>7. CASE MarkDelivered(e) \/ Emit(e) \/ JobFails(e)
  BY <1>0, <1>7 DEF MarkDelivered, Emit, JobFails, Forget, Goto, Knows, Resting
<1>8. ASSUME NEW q \in Sockets, CheckSession(e, q) PROVE Knows(e)'
  <2>1. /\ pc[e] = "checks"
        /\ \/ check'[e] = [check[e] EXCEPT ![q] = "out"]
           \/ check'[e] = [check[e] EXCEPT ![q] = "access"] /\ q \in lively[e]
    BY <1>0, <1>8 DEF CheckSession, Knows
  <2>2. UNCHANGED <<pc, by, fresh, lively, members>>
    BY <1>8 DEF CheckSession
  <2> QED
    BY <1>0, <1>1, <2>1, <2>2 DEF Knows
<1>9. ASSUME NEW q \in Sockets, CheckAccess(e, q) PROVE Knows(e)'
  <2>1. /\ pc[e] = "checks" /\ q \in lively[e]
        /\ \/ check'[e] = [check[e] EXCEPT ![q] = "out"]
           \/ check'[e] = [check[e] EXCEPT ![q] = "ok"] /\ UserOf[q] \in fresh[e]
    BY <1>0, <1>9 DEF CheckAccess, Knows, Resting
  <2>2. UNCHANGED <<pc, by, fresh, lively, members>>
    BY <1>9 DEF CheckAccess
  <2> QED
    BY <1>0, <1>1, <2>1, <2>2 DEF Knows
<1> QED
  BY <1>2, <1>3, <1>4, <1>5, <1>6, <1>7, <1>8, <1>9 DEF Acts, Continue

LEMMA AlwaysKnows == Spec => [](TypeOK /\ AllKnow)
<1>1. Init => TypeOK /\ AllKnow
  <2> SUFFICES ASSUME Init PROVE TypeOK /\ AllKnow
    OBVIOUS
  <2>1. AllKnow
    BY DEF Init, AllKnow, Knows, Resting
  <2>2. TypedSockets /\ TypedRecords /\ TypedJobs /\ members \subseteq Users
    BY IdsAssumption
       DEF Init, TypedSockets, TypedRecords, TypedJobs, Phases, Pcs, Checks
  <2> QED
    BY <2>1, <2>2, TypedParts
<1>2. TypeOK /\ AllKnow /\ [Next]_vars => TypeOK' /\ AllKnow'
  BY TypedNext, KnowsNext, KnowingAttended
<1> QED
  BY <1>1, <1>2, PTL DEF Spec

\* Every variable keeps to the shape of its documents: no call writes a user
\* or a message that the calls before it did not set.
THEOREM RoomTyped == Spec => []TypeOK
  BY AlwaysKnows, PTL

\* Whatever joins and leaves happen between the access check of a request and
\* its write, the writer was a member at some time since the request began.
THEOREM WritersAreMembers == Spec => OnlyMembersWrite
<1>1. AllKnow /\ [Next]_vars =>
        [\A e \in Jobs :
          (pc[e] \in {"create", "mark"} /\ pc'[e] \in {"last", "fetch", "done"})
              => by[e] \in fresh[e]]_vars
  BY DEF AllKnow, Knows
<1> QED
  BY <1>1, AlwaysKnows, PTL DEF Spec, OnlyMembersWrite

\* Whatever ends, leaves or joins while the sockets of the room are checked
\* one by one, the event reaches only those whose session and membership held
\* after the room was listed.
THEOREM HearersAreEntitled == Spec => OnlyEntitledHear
<1>1. TypeOK /\ AllKnow /\ [Next]_vars =>
        [\A e \in Jobs : heard'[e] # heard[e] =>
          \A s \in heard'[e] : s \in lively[e] /\ UserOf[s] \in fresh[e]]_vars
  <2> SUFFICES ASSUME TypeOK, AllKnow, [Next]_vars, NEW e \in Jobs, heard'[e] # heard[e],
                      NEW s \in heard'[e]
               PROVE  s \in lively[e] /\ UserOf[s] \in fresh[e]
    OBVIOUS
  <2>1. Acts(e)
    BY OthersWait DEF Waits
  <2>2. Emit(e)
    BY <2>1 DEF Acts, SendAccess, MarkGuard, Continue, JobFails, SendCreate, SendLast,
       MarkAccess, MarkSeen, MarkDelivered, Fetch, CheckSession, CheckAccess
  <2>3. s \in Sockets /\ check[e][s] = "ok"
    BY <2>2 DEF Emit, TypeOK
  <2> QED
    BY <2>3 DEF AllKnow, Knows
<1> QED
  BY <1>1, AlwaysKnows, PTL DEF Spec, OnlyEntitledHear

----------------------------------------------------------------------------
(* No socket in the room misses a message                                  *)

Connected == \A s \in room : phase[s] = "connected"

\* While the sockets are checked, one in the room that is not being checked
\* has come after the message could be read.
Reached ==
    \A m \in Messages :
        /\ pc[m] \in {"last", "fetch", "checks", "done"} => m \in stored
        /\ pc[m] = "checks" => \A s \in room : check[m][s] # "out" \/ m \in known[s]

\* Nobody enters the room but by joining, and then knows what is stored.
LEMMA RoomGrows ==
    ASSUME TypeOK, [Next]_vars
    PROVE  /\ \A s \in room' : \/ s \in room /\ known'[s] = known[s]
                              \/ known'[s] = stored
           /\ stored \subseteq stored'
<1> DEFINE Grows == /\ \A s \in room' : \/ s \in room /\ known'[s] = known[s]
                                      \/ known'[s] = stored
                    /\ stored \subseteq stored'
<1>1. ASSUME NEW q \in Sockets, JoinRoom(q) PROVE Grows
  BY <1>1 DEF JoinRoom, records, TypeOK
<1>2. ASSUME NEW q \in Sockets,
             \/ Handshake(q) \/ Connect(q) \/ Expiration(q) \/ RevalidateSession(q)
             \/ Disconnect(q) \/ JoinGuard(q) \/ JoinAccess(q)
             \/ SessionEnds(q) \/ TokenExpires(q)
      PROVE  Grows
  BY <1>2 DEF Handshake, Connect, Expiration, RevalidateSession, Disconnect, Drop,
              JoinGuard, JoinAccess, SessionEnds, TokenExpires, records
<1>3. ASSUME NEW u \in Users, Admit(u) \/ Remove(u) PROVE Grows
  BY <1>3 DEF Admit, Remove, sockets, records
<1>4. ASSUME NEW e \in Jobs, Acts(e) PROVE Grows
  BY <1>4 DEF Acts, SendAccess, MarkGuard, Continue, JobFails, SendCreate, SendLast,
       MarkAccess, MarkSeen, MarkDelivered, Fetch, Emit, CheckSession, CheckAccess,
       Drop, sockets, records
<1>5. CASE UNCHANGED vars
  BY <1>5 DEF vars, sockets, records
<1> QED
  BY <1>1, <1>2, <1>3, <1>4, <1>5 DEF Next, Acts, Jobs

LEMMA ConnectedNext == TypeOK /\ Connected /\ [Next]_vars => Connected'
<1> SUFFICES ASSUME TypeOK, Connected, [Next]_vars PROVE Connected'
  OBVIOUS
<1>0. phase \in [Sockets -> Phases] /\ room \subseteq Sockets
  BY DEF TypeOK
<1>1. ASSUME NEW q \in Sockets, Drop(q) PROVE Connected'
  BY <1>0, <1>1 DEF Drop, Connected
<1>2. ASSUME NEW q \in Sockets,
             \/ Handshake(q) \/ Connect(q) \/ Expiration(q) \/ RevalidateSession(q)
             \/ Disconnect(q) \/ JoinGuard(q) \/ JoinAccess(q) \/ JoinRoom(q)
             \/ SessionEnds(q) \/ TokenExpires(q)
      PROVE  Connected'
  BY <1>0, <1>1, <1>2
     DEF Handshake, Connect, Expiration, RevalidateSession, Disconnect, JoinGuard,
         JoinAccess, JoinRoom, SessionEnds, TokenExpires, Connected
<1>3. ASSUME NEW u \in Users, Admit(u) \/ Remove(u) PROVE Connected'
  BY <1>3 DEF Admit, Remove, sockets, Connected
<1>4. ASSUME NEW e \in Jobs, Acts(e) PROVE Connected'
  <2>1. UNCHANGED <<phase, room>> \/ \E q \in Sockets : Drop(q)
    BY <1>4 DEF Acts, SendAccess, MarkGuard, Continue, JobFails, SendCreate, SendLast,
       MarkAccess, MarkSeen, MarkDelivered, Fetch, Emit, CheckSession, CheckAccess, sockets
  <2> QED
    BY <1>1, <2>1 DEF Connected
<1>5. CASE UNCHANGED vars
  BY <1>5 DEF vars, sockets, Connected
<1> QED
  BY <1>2, <1>3, <1>4, <1>5 DEF Next, Acts, Jobs

LEMMA ReachedNext == TypeOK /\ Reached /\ [Next]_vars => Reached'
<1> SUFFICES ASSUME TypeOK, Reached, [Next]_vars, NEW m \in Messages
             PROVE  /\ pc'[m] \in {"last", "fetch", "checks", "done"} => m \in stored'
                    /\ pc'[m] = "checks" =>
                          \A s \in room' : check'[m][s] # "out" \/ m \in known'[s]
  BY DEF Reached
<1>0. /\ pc \in [Jobs -> Pcs] /\ check \in [Jobs -> [Sockets -> Checks]]
      /\ m \in Jobs /\ m \notin Marks /\ room \subseteq Sockets
  BY IdsAssumption DEF TypeOK, Jobs
<1>1. CASE ~Acts(m)
  <2>1. pc'[m] = pc[m] /\ check'[m] = check[m]
    BY <1>0, <1>1, OthersWait DEF Waits
  <2> QED
    BY <2>1, RoomGrows DEF Reached
<1>2. CASE \/ \E u \in Users : SendAccess(m, u)
           \/ SendCreate(m) \/ SendLast(m)
  BY <1>0, <1>2 DEF SendAccess, SendCreate, SendLast, Goto, records, Reached
<1>3. CASE Fetch(m)
  <2>1. pc[m] = "fetch" /\ stored' = stored /\ room' = room
    BY <1>3 DEF Fetch, records, sockets
  <2>2. \A s \in room : check'[m][s] = "session"
    BY <1>0, <1>3 DEF Fetch
  <2> QED
    BY <2>1, <2>2 DEF Reached
<1>4. CASE Emit(m) \/ JobFails(m)
  BY <1>0, <1>4 DEF Emit, JobFails, Forget, Goto, records, Reached
<1>5. ASSUME NEW q \in Sockets, CheckSession(m, q) \/ CheckAccess(m, q)
      PROVE  /\ pc'[m] \in {"last", "fetch", "checks", "done"} => m \in stored'
             /\ pc'[m] = "checks" =>
                   \A s \in room' : check'[m][s] # "out" \/ m \in known'[s]
  <2>1. /\ pc'[m] = pc[m] /\ stored' = stored /\ room' \subseteq room /\ known' = known
        /\ \A s \in room' : check'[m][s] # check[m][s] => check'[m][s] # "out"
    BY <1>0, <1>5 DEF CheckSession, CheckAccess, Drop, records, sockets
  <2> QED
    BY <2>1 DEF Reached
<1> QED
  BY <1>0, <1>1, <1>2, <1>3, <1>4, <1>5 DEF Acts, Continue

LEMMA MissedNext ==
    TypeOK /\ AllKnow /\ Connected /\ Reached /\ NoMessageMissed /\ [Next]_vars
        => NoMessageMissed'
<1> SUFFICES ASSUME TypeOK, AllKnow, Connected, Reached, NoMessageMissed, [Next]_vars,
                    NEW m \in Messages, pc'[m] = "done", NEW s \in room'
             PROVE  s \in heard'[m] \/ m \in known'[s]
  BY DEF NoMessageMissed
<1>0. /\ pc \in [Jobs -> Pcs] /\ check \in [Jobs -> [Sockets -> Checks]]
      /\ heard \in [Jobs -> SUBSET Sockets]
      /\ m \in Jobs /\ m \notin Marks /\ room \subseteq Sockets
  BY IdsAssumption DEF TypeOK, Jobs
<1>1. CASE pc[m] = "done"
  <2>1. heard'[m] = heard[m]
    <3>1. CASE ~Acts(m)
      BY <1>0, <3>1, OthersWait DEF Waits
    <3>2. CASE Acts(m)
      BY <1>0, <1>1, <3>2
         DEF Acts, SendAccess, MarkGuard, Continue, JobFails, SendCreate, SendLast,
       MarkAccess, MarkSeen, MarkDelivered, Fetch, Emit, CheckSession, CheckAccess
    <3> QED
      BY <3>1, <3>2
  <2> QED
    BY <1>1, <2>1, RoomGrows DEF NoMessageMissed, Reached
<1>2. CASE pc[m] # "done"
  <2>1. Acts(m)
    BY <1>0, <1>2, OthersWait DEF Waits
  <2>2. Emit(m)
    BY <1>0, <1>2, <2>1
       DEF Acts, SendAccess, MarkGuard, Continue, JobFails, SendCreate, SendLast,
       MarkAccess, MarkSeen, MarkDelivered, Fetch, Emit, CheckSession, CheckAccess,
       Goto, Forget
  <2>3. s \in room /\ known' = known
    BY <2>2 DEF Emit, sockets
  <2>4. check[m][s] # "out" => s \in heard'[m]
    BY <1>0, <2>2, <2>3 DEF Emit, Connected, Checks
  <2> QED
    BY <2>2, <2>3, <2>4 DEF Emit, Reached
<1> QED
  BY <1>1, <1>2

\* However sockets join, drop and fail their checks while messages are sent,
\* one that is in the room has every message, or could read it on entering.
THEOREM NobodyMisses == Spec => []NoMessageMissed
<1>1. Init => Connected /\ Reached /\ NoMessageMissed
  BY IdsAssumption DEF Init, Connected, Reached, NoMessageMissed, Jobs
<1> QED
  BY <1>1, AlwaysKnows, ConnectedNext, ReachedNext, MissedNext, PTL DEF Spec

----------------------------------------------------------------------------
(* The last message                                                        *)

\* A message that others began after is done; one that was last is stored.
Recent ==
    \A b \in Messages :
        /\ \A a \in before[b] : pc[a] = "done"
        /\ b \in pinned => pc[b] \notin {"idle", "create", "last"}

LEMMA DoneStays ==
    ASSUME TypeOK, [Next]_vars, NEW m \in Messages, pc[m] \notin {"idle", "create", "last"}
    PROVE  pc'[m] \notin {"idle", "create", "last"} /\ (pc[m] = "done" => pc'[m] = "done")
<1>0. /\ pc \in [Jobs -> Pcs] /\ m \in Jobs /\ m \notin Marks
  BY IdsAssumption DEF TypeOK, Jobs
<1>1. CASE ~Acts(m)
  BY <1>0, <1>1, OthersWait DEF Waits
<1>2. CASE Acts(m)
  BY <1>0, <1>2
     DEF Acts, SendAccess, MarkGuard, Continue, JobFails, SendCreate, SendLast,
       MarkAccess, MarkSeen, MarkDelivered, Fetch, Emit, CheckSession, CheckAccess,
       Goto, Forget
<1> QED
  BY <1>1, <1>2

\* Only sending a message begins it, and only sending it makes it the last.
LEMMA RecordsKept ==
    ASSUME TypeOK, [Next]_vars, NEW b \in Messages
    PROVE  /\ \/ before'[b] = before[b]
              \/ /\ \E u \in Users : SendAccess(b, u)
                 /\ before'[b] = {a \in Messages : pc[a] = "done"}
           /\ \/ last' = last /\ pinned' = pinned
              \/ \E m \in Messages : SendLast(m)
<1>0. before \in [Messages -> SUBSET Messages] /\ b \in Jobs
  BY DEF TypeOK, Jobs
<1>1. \/ before'[b] = before[b]
      \/ /\ \E u \in Users : SendAccess(b, u)
         /\ before'[b] = {a \in Messages : pc[a] = "done"}
  <2>1. CASE ~Acts(b)
    BY <1>0, <2>1, OthersWait DEF Waits
  <2>2. CASE \E u \in Users : SendAccess(b, u)
    BY <1>0, <2>2 DEF SendAccess
  <2>3. CASE Acts(b) /\ ~ \E u \in Users : SendAccess(b, u)
    BY <1>0, <2>3, IdsAssumption
       DEF Acts, MarkGuard, Continue, JobFails, SendCreate, SendLast,
       MarkAccess, MarkSeen, MarkDelivered, Fetch, Emit, CheckSession, CheckAccess
  <2> QED
    BY <2>1, <2>2, <2>3
<1> DEFINE Same == last' = last /\ pinned' = pinned
<1>2. ASSUME NEW q \in Sockets,
             \/ Handshake(q) \/ Connect(q) \/ Expiration(q) \/ RevalidateSession(q)
             \/ Disconnect(q) \/ JoinGuard(q) \/ JoinAccess(q) \/ JoinRoom(q)
             \/ SessionEnds(q) \/ TokenExpires(q)
      PROVE  Same
  BY <1>2, TypedSocketStep DEF records
<1>3. ASSUME NEW u \in Users, Admit(u) \/ Remove(u) PROVE Same
  BY <1>3 DEF Admit, Remove, records
<1>4. ASSUME NEW e \in Jobs, Acts(e), ~(e \in Messages /\ SendLast(e)) PROVE Same
  BY <1>4 DEF Acts, SendAccess, MarkGuard, Continue, JobFails, SendCreate,
       MarkAccess, MarkSeen, MarkDelivered, Fetch, Emit, CheckSession, CheckAccess, records
<1>5. CASE UNCHANGED vars
  BY <1>5 DEF vars, sockets, records, jobs
<1>6. Same \/ \E m \in Messages : SendLast(m)
  BY <1>2, <1>3, <1>4, <1>5 DEF Next, Acts, Jobs
<1> QED
  BY <1>1, <1>6

LEMMA RecentNext ==
    TypeOK /\ Recent /\ LastIsRecent /\ [Next]_vars => Recent' /\ LastIsRecent'
<1> SUFFICES ASSUME TypeOK, Recent, LastIsRecent, [Next]_vars, NEW b \in Messages
             PROVE  /\ \A a \in before'[b] : pc'[a] = "done"
                    /\ b \in pinned' => pc'[b] \notin {"idle", "create", "last"}
                    /\ b \in pinned' => \A a \in Messages : last' = a => a \notin before'[b]
  BY DEF Recent, LastIsRecent
<1>0. /\ pc \in [Jobs -> Pcs] /\ Messages \subseteq Jobs
      /\ before[b] \subseteq Messages
  BY DEF TypeOK, Jobs
<1>1. \A a \in before'[b] : a \in Messages /\ pc[a] = "done"
  BY <1>0, RecordsKept DEF Recent
<1>2. \A a \in before'[b] : pc'[a] = "done"
  BY <1>1, DoneStays
<1>3. ASSUME NEW m \in Messages, SendLast(m)
      PROVE  /\ b \in pinned' => pc'[b] \notin {"idle", "create", "last"}
             /\ b \in pinned' => \A a \in Messages : last' = a => a \notin before'[b]
  <2>1. pc[m] = "last" /\ pc'[m] = "fetch" /\ last' = m /\ pinned' = pinned \cup {m}
    BY <1>0, <1>3 DEF SendLast, Goto
  <2>2. b \in pinned => pc'[b] \notin {"idle", "create", "last"}
    BY DoneStays DEF Recent
  <2> QED
    BY <1>1, <2>1, <2>2
<1>4. CASE last' = last /\ pinned' = pinned
  <2>1. b \in pinned => pc'[b] \notin {"idle", "create", "last"}
    BY DoneStays DEF Recent
  <2>2. b \in pinned => before'[b] = before[b]
    <3>1. ASSUME b \in pinned, NEW u \in Users, SendAccess(b, u) PROVE FALSE
      BY <3>1 DEF SendAccess, Recent
    <3> QED
      BY <3>1, RecordsKept
  <2> QED
    BY <1>2, <1>4, <2>1, <2>2 DEF LastIsRecent
<1> QED
  BY <1>2, <1>3, <1>4, RecordsKept

\* Sends race for lastMessage, and a slow one may overwrite a quick one; but
\* never one that began when the slow one was already done.
THEOREM LastStaysRecent == Spec => []LastIsRecent
<1>1. Init => Recent /\ LastIsRecent
  BY DEF Init, Recent, LastIsRecent
<1> QED
  BY <1>1, AlwaysKnows, RecentNext, PTL DEF Spec

=============================================================================
