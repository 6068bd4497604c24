------------------------ MODULE ApplicationLifecycle -----------------------
(***************************************************************************)
(* What the application module promises its users, whatever documents and  *)
(* requests are behind it: for each listing and student there is at most   *)
(* one group; the student who founded it stays in it; others come and go;  *)
(* it is sent at most once, and a landlord's verdict is never undone by a  *)
(* send.  ApplicationGroups implements this specification.                 *)
(***************************************************************************)
CONSTANTS Students, Listings, NoGroup

VARIABLE group    \* [listing, founder] -> the group, or NoGroup

Keys == Listings \X Students
Stages == {"NOT_SENT", "SENT", "ACCEPTED", "REJECTED"}
Decisions == {"ACCEPTED", "REJECTED"}

Init == group = [k \in Keys |-> NoGroup]

Found(k) ==
    /\ group[k] = NoGroup
    /\ group' = [group EXCEPT ![k] = [members |-> {k[2]}, stage |-> "NOT_SENT"]]

Admit(k, s) ==
    /\ group[k] # NoGroup
    /\ group' = [group EXCEPT ![k].members = @ \cup {s}]

Withdraw(k, s) ==
    /\ group[k] # NoGroup
    /\ s # k[2]
    /\ group' = [group EXCEPT ![k].members = @ \ {s}]

Send(k) ==
    /\ group[k] # NoGroup /\ group[k].stage = "NOT_SENT"
    /\ group' = [group EXCEPT ![k].stage = "SENT"]

Decide(k, v) ==
    /\ group[k] # NoGroup
    /\ group' = [group EXCEPT ![k].stage = v]

Disband(k) ==
    /\ group[k] # NoGroup
    /\ group' = [group EXCEPT ![k] = NoGroup]

Next ==
    \E k \in Keys :
        \/ Found(k) \/ Send(k) \/ Disband(k)
        \/ \E s \in Students : Admit(k, s) \/ Withdraw(k, s)
        \/ \E v \in Decisions : Decide(k, v)

Spec == Init /\ [][Next]_group

=============================================================================
