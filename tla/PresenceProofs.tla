--------------------------- MODULE PresenceProofs --------------------------
(***************************************************************************)
(* Theorems about Presence, for any number of sockets of the user.         *)
(***************************************************************************)
EXTENDS Presence, FiniteSetTheorems, TLAPS

LEMMA TypeInit == Init => TypeOK
  BY PresenceAssumption DEF Init, TypeOK

LEMMA TypeNext == TypeOK /\ [Next]_vars => TypeOK'
<1> SUFFICES ASSUME TypeOK, [Next]_vars PROVE TypeOK'
  OBVIOUS
<1>0. Value \in Int
  BY DEF TypeOK, Value
<1>1. ASSUME NEW s \in Sockets, Connect(s) PROVE TypeOK'
  BY <1>0, <1>1 DEF Connect, TypeOK
<1>2. ASSUME NEW s \in Sockets, Disconnect(s) PROVE TypeOK'
  BY <1>0, <1>2 DEF Disconnect, TypeOK
<1>3. ASSUME NEW s \in Sockets, Heartbeat(s) PROVE TypeOK'
  BY <1>3 DEF Heartbeat, TypeOK
<1>4. ASSUME NEW s \in Sockets, Continue(s) PROVE TypeOK'
  BY <1>4 DEF Continue, ConnectExpire, ConnectAnnounce, DisconnectDel, DisconnectAnnounce,
              TypeOK
<1>5. CASE KeyExpires
  BY <1>5 DEF KeyExpires, TypeOK
<1>6. CASE ProcessDies
  BY <1>6 DEF ProcessDies, TypeOK
<1>7. CASE UNCHANGED vars
  BY <1>7 DEF vars, TypeOK
<1> QED
  BY <1>1, <1>2, <1>3, <1>4, <1>5, <1>6, <1>7 DEF Next

\* Every variable keeps to the calls of its handler.
THEOREM TypeCorrect == Spec => []TypeOK
  BY TypeInit, TypeNext, PTL DEF Spec

\* A socket that has not opened has not closed.
Fresh == \A s \in Sockets : opening[s] = "new" => closing[s] = "no"

LEMMA FreshNext == TypeOK /\ Fresh /\ [Next]_vars => Fresh'
<1> SUFFICES ASSUME TypeOK, Fresh, [Next]_vars, NEW q \in Sockets, opening'[q] = "new"
             PROVE  closing'[q] = "no"
  BY DEF Fresh
<1>1. ASSUME NEW s \in Sockets, Connect(s) \/ Heartbeat(s) PROVE closing'[q] = "no"
  BY <1>1 DEF Connect, Heartbeat, TypeOK, Fresh
<1>2. ASSUME NEW s \in Sockets, Disconnect(s) PROVE closing'[q] = "no"
  BY <1>2 DEF Disconnect, Connected, TypeOK, Fresh
<1>3. ASSUME NEW s \in Sockets, Continue(s) PROVE closing'[q] = "no"
  BY <1>3 DEF Continue, ConnectExpire, ConnectAnnounce, DisconnectDel, DisconnectAnnounce,
              TypeOK, Fresh
<1>4. CASE KeyExpires \/ UNCHANGED vars
  BY <1>4 DEF KeyExpires, vars, Fresh
<1>5. CASE ProcessDies
  BY <1>5 DEF ProcessDies, TypeOK, Fresh
<1> QED
  BY <1>1, <1>2, <1>3, <1>4, <1>5 DEF Next

LEMMA ConnectedFinite ==
    IsFiniteSet(Connected) /\ Cardinality(Connected) \in Nat
<1>1. Connected \subseteq Sockets
  BY DEF Connected
<1> QED
  BY <1>1, FiniteSocketsAssumption, FS_Subset, FS_CardinalityType

\* Only a command moves the counter, and only a step of a socket's own moves
\* the set of the connected ones: up together, and down together.
LEMMA CountNext ==
    TypeOK /\ Fresh /\ NeverOvercounts /\ [Next]_vars => NeverOvercounts'
<1> SUFFICES ASSUME TypeOK, Fresh, NeverOvercounts, [Next]_vars, crash' = "none"
             PROVE  Value' <= Cardinality(Connected')
  BY DEF NeverOvercounts
<1>0. Value \in Int /\ Cardinality(Connected) \in Nat /\ IsFiniteSet(Connected)
  BY ConnectedFinite DEF TypeOK, Value
<1>1. crash = "none" /\ Value <= Cardinality(Connected)
  BY DEF NeverOvercounts, Next, Connect, Disconnect, Heartbeat, Continue, ConnectExpire,
         ConnectAnnounce, DisconnectDel, DisconnectAnnounce, KeyExpires, ProcessDies, vars
<1>2. ASSUME Connected' = Connected, key' = key \/ key' = Absent
      PROVE  Value' <= Cardinality(Connected')
  BY <1>0, <1>1, <1>2 DEF Value
<1>3. ASSUME NEW s \in Sockets, Connect(s) PROVE Value' <= Cardinality(Connected')
  <2>1. Connected' = Connected \cup {s} /\ s \notin Connected
    BY <1>3 DEF Connect, Connected, TypeOK, Fresh
  <2>2. Cardinality(Connected') = Cardinality(Connected) + 1
    BY <1>0, <2>1, FS_AddElement
  <2>3. key' = Value + 1 /\ key' # Absent
    BY <1>0, <1>3, PresenceAssumption DEF Connect
  <2>4. Value' = Value + 1
    BY <2>3 DEF Value
  <2> QED
    BY <1>0, <1>1, <2>2, <2>4
<1>4. ASSUME NEW s \in Sockets, Disconnect(s) PROVE Value' <= Cardinality(Connected')
  <2>1. Connected' = Connected \ {s} /\ s \in Connected
    BY <1>4 DEF Disconnect, Connected, TypeOK
  <2>2. Cardinality(Connected') = Cardinality(Connected) - 1
    BY <1>0, <2>1, FS_RemoveElement
  <2>3. key' = Value - 1 /\ key' # Absent
    BY <1>0, <1>4, PresenceAssumption DEF Disconnect
  <2>4. Value' = Value - 1
    BY <2>3 DEF Value
  <2> QED
    BY <1>0, <1>1, <2>2, <2>4
<1>5. ASSUME NEW s \in Sockets, Continue(s) PROVE Value' <= Cardinality(Connected')
  <2>1. Connected' = Connected
    BY <1>5 DEF Continue, ConnectExpire, ConnectAnnounce, DisconnectDel, DisconnectAnnounce,
                Connected, TypeOK
  <2> QED
    BY <1>2, <1>5, <2>1
       DEF Continue, ConnectExpire, ConnectAnnounce, DisconnectDel, DisconnectAnnounce
<1>6. CASE KeyExpires \/ UNCHANGED vars \/ \E s \in Sockets : Heartbeat(s)
  BY <1>2, <1>6 DEF KeyExpires, vars, Heartbeat, Connected
<1>7. CASE ProcessDies
  BY <1>7 DEF ProcessDies
<1> QED
  BY <1>3, <1>4, <1>5, <1>6, <1>7 DEF Next

\* As long as the process lives, no expiry and no interleaving of INCR,
\* EXPIRE, DECR and DEL leaves the counter above the sockets there are.
THEOREM CountSound == Spec => []NeverOvercounts
<1>1. Init => NeverOvercounts
  BY ConnectedFinite DEF Init, NeverOvercounts, Value
<1>2. Init => Fresh
  BY DEF Init, Fresh
<1> QED
  BY <1>1, <1>2, TypeInit, TypeNext, FreshNext, CountNext, PTL DEF Spec

=============================================================================
