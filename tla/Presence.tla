------------------------------ MODULE Presence -----------------------------
(***************************************************************************)
(* Whether one user is online: a counter in Redis, one key per user, which *)
(* the presence gateway increments for every socket that connects and      *)
(* decrements for every socket that disconnects.  Commands go through one  *)
(* Redis client and run in the order they are issued, but a handler issues *)
(* its next one only when the reply to the last has come.                  *)
(*                                                                         *)
(* The two handlers of a socket are independent: a socket may disconnect   *)
(* while its handleConnection still awaits a reply.                        *)
(***************************************************************************)
EXTENDS Integers, FiniteSets

CONSTANTS
    Sockets,    \* the sockets this user will ever open (bound)
    Punctual,   \* do connected clients send a heartbeat every minute?
    MayDie,     \* can the process die, and its sockets with it?
    Absent      \* the key is not set

ASSUME PresenceAssumption ==
    Absent \notin Int /\ {Punctual, MayDie} \subseteq BOOLEAN

\* Only so many sockets have connected at any time.
ASSUME FiniteSocketsAssumption == IsFiniteSet(Sockets)

VARIABLES
    key,        \* presence:user:<id>
    expiring,   \* has the key a time to live?
    opening,    \* handleConnection of a socket: the call it awaits
    closing,    \* handleDisconnect of a socket: the call it awaits
    cameOnline, \* what userConnected returns for a socket
    shown,      \* the last presenceUpdate emitted
    hasty,      \* history: sockets that closed before their opening was done
    crash       \* history: has the process died: "none", "idle", or "midway"
                \* between the command that sets the key and the next one

vars == <<key, expiring, opening, closing, cameOnline, shown, hasty, crash>>

Connected == {s \in Sockets : opening[s] # "new" /\ closing[s] = "no"}

\* INCR and DECR take an absent key for 0.
Value == IF key = Absent THEN 0 ELSE key

Init ==
    /\ key = Absent
    /\ expiring = FALSE
    /\ opening = [s \in Sockets |-> "new"]
    /\ closing = [s \in Sockets |-> "no"]
    /\ cameOnline = [s \in Sockets |-> FALSE]
    /\ shown = "offline"
    /\ hasty = {}
    /\ crash = "none"

----------------------------------------------------------------------------
(* Altered forms of the definitions below, each a slip the code could have *)
(* made; put in the place of the original they show which property notices.*)

DisconnectInOpening(s) ==
    /\ s \in Connected
    /\ key' = Value - 1
    /\ expiring' = (expiring /\ key # Absent)
    /\ opening' = [opening EXCEPT ![s] = IF key' <= 0 THEN "del" ELSE "done"]
    /\ hasty' = IF opening[s] = "done" THEN hasty ELSE hasty \cup {s}
    /\ UNCHANGED <<closing, cameOnline, shown, crash>>

DisconnectIfOpened(s) ==
    /\ s \in Connected
    /\ key' = IF opening[s] = "done" THEN Value - 1 ELSE key
    /\ expiring' = (expiring /\ key # Absent)
    /\ closing' = [closing EXCEPT ![s] =
                      IF opening[s] = "done" /\ key' <= 0 THEN "del" ELSE "done"]
    /\ hasty' = IF opening[s] = "done" THEN hasty ELSE hasty \cup {s}
    /\ UNCHANGED <<opening, cameOnline, shown, crash>>

ConnectWithoutExpire(s) ==
    /\ opening[s] = "expire"
    /\ opening' = [opening EXCEPT ![s] = IF cameOnline[s] THEN "announce" ELSE "done"]
    /\ UNCHANGED <<key, expiring, closing, cameOnline, shown, hasty, crash>>

DisconnectBelowZero(s) ==
    /\ s \in Connected
    /\ key' = Value - 1
    /\ expiring' = (expiring /\ key # Absent)
    /\ closing' = [closing EXCEPT ![s] = IF key' < 0 THEN "del" ELSE "done"]
    /\ hasty' = IF opening[s] = "done" THEN hasty ELSE hasty \cup {s}
    /\ UNCHANGED <<opening, cameOnline, shown, crash>>

----------------------------------------------------------------------------
(* handleConnection, userConnected                                         *)

Connect(s) ==
    /\ opening[s] = "new"
    /\ key' = Value + 1
    /\ opening' = [opening EXCEPT ![s] = "expire"]
    /\ cameOnline' = [cameOnline EXCEPT ![s] = (key' = 1)]
    /\ UNCHANGED <<expiring, closing, shown, hasty, crash>>

\* EXPIRE does nothing to an absent key.
ConnectExpire(s) ==
    /\ opening[s] = "expire"
    /\ expiring' = (key # Absent)
    /\ opening' = [opening EXCEPT ![s] = IF cameOnline[s] THEN "announce" ELSE "done"]
    /\ UNCHANGED <<key, closing, cameOnline, shown, hasty, crash>>

\* After the user's lastSeen is written.
ConnectAnnounce(s) ==
    /\ opening[s] = "announce"
    /\ shown' = "online"
    /\ opening' = [opening EXCEPT ![s] = "done"]
    /\ UNCHANGED <<key, expiring, closing, cameOnline, hasty, crash>>

----------------------------------------------------------------------------
(* handleDisconnect, userDisconnected                                      *)

\* DECR gives an absent key the value -1 and no time to live.
Disconnect(s) ==
    /\ s \in Connected
    /\ key' = Value - 1
    /\ expiring' = (expiring /\ key # Absent)
    /\ closing' = [closing EXCEPT ![s] = IF key' <= 0 THEN "del" ELSE "done"]
    /\ hasty' = IF opening[s] = "done" THEN hasty ELSE hasty \cup {s}
    /\ UNCHANGED <<opening, cameOnline, shown, crash>>

DisconnectDel(s) ==
    /\ closing[s] = "del"
    /\ key' = Absent
    /\ expiring' = FALSE
    /\ closing' = [closing EXCEPT ![s] = "announce"]
    /\ UNCHANGED <<opening, cameOnline, shown, hasty, crash>>

DisconnectAnnounce(s) ==
    /\ closing[s] = "announce"
    /\ shown' = "offline"
    /\ closing' = [closing EXCEPT ![s] = "done"]
    /\ UNCHANGED <<key, expiring, opening, cameOnline, hasty, crash>>

----------------------------------------------------------------------------
(* Heartbeats, time, and the death of the process                          *)

Heartbeat(s) ==
    /\ s \in Connected
    /\ expiring' = (key # Absent)
    /\ UNCHANGED <<key, opening, closing, cameOnline, shown, hasty, crash>>

KeyExpires ==
    /\ expiring
    /\ Punctual => Connected = {}
    /\ key' = Absent
    /\ expiring' = FALSE
    /\ UNCHANGED <<opening, closing, cameOnline, shown, hasty, crash>>

\* No handler goes on, and whoever watched this process reconnects with no
\* event seen.
ProcessDies ==
    /\ MayDie
    /\ Connected # {} \/ \E s \in Sockets : closing[s] \in {"del", "announce"}
    /\ opening' = [s \in Sockets |-> IF opening[s] = "new" THEN "new" ELSE "done"]
    /\ closing' = [s \in Sockets |-> IF opening[s] = "new" THEN "no" ELSE "done"]
    /\ crash' = IF \/ crash = "midway"
                   \/ \E s \in Sockets : opening[s] = "expire" \/ closing[s] = "del"
                THEN "midway" ELSE "idle"
    /\ shown' = "offline"
    /\ UNCHANGED <<key, expiring, cameOnline, hasty>>

Continue(s) ==
    \/ ConnectExpire(s) \/ ConnectAnnounce(s)
    \/ DisconnectDel(s) \/ DisconnectAnnounce(s)

Next ==
    \/ \E s \in Sockets : Connect(s) \/ Disconnect(s) \/ Heartbeat(s) \/ Continue(s)
    \/ KeyExpires
    \/ ProcessDies

\* Redis answers, so a handler that waits goes on; and Redis drops a key
\* whose time has come.  Nothing makes a client connect, disconnect or beat.
Fairness ==
    /\ \A s \in Sockets : WF_vars(Continue(s))
    /\ WF_vars(KeyExpires)

Spec == Init /\ [][Next]_vars /\ Fairness

----------------------------------------------------------------------------
(* What presence promises                                                  *)

\* Each variable keeps to the calls of its handler.
TypeOK ==
    /\ key \in Int \cup {Absent}
    /\ expiring \in BOOLEAN
    /\ opening \in [Sockets -> {"new", "expire", "announce", "done"}]
    /\ closing \in [Sockets -> {"no", "del", "announce", "done"}]
    /\ cameOnline \in [Sockets -> BOOLEAN]
    /\ shown \in {"online", "offline"}
    /\ hasty \subseteq Sockets
    /\ crash \in {"none", "idle", "midway"}

\* The counter never counts a socket that is gone, whatever expires or is
\* deleted in between, as long as the process lives: so userDisconnected sees
\* the last one go.
NeverOvercounts == crash = "none" => Value <= Cardinality(Connected)

\* When the last socket has gone, the key goes too, with the handlers or,
\* after a crash, with its time to live; unless the crash fell between the
\* command that sets the key and the next one.
KeyGoes ==
    (Connected = {}) ~> (key = Absent \/ Connected # {} \/ crash = "midway")

\* When the last socket has gone, the last event says so, unless a socket
\* closed before its own coming online was announced.
LastEventIsOffline ==
    (Connected = {}) ~> (shown = "offline" \/ Connected # {} \/ hasty # {})

----------------------------------------------------------------------------
(* What a comment of the code says, and the code does not do               *)

\* presence.service.ts:22: a count of zero or less means "user just went
\* offline".  So no socket of the user is left when DECR answers that.
OfflineIsOffline ==
    [][\A s \in Sockets :
          (closing[s] = "no" /\ closing'[s] = "del") => Connected' = {}]_vars

=============================================================================
