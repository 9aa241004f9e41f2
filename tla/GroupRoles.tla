----------------------------- MODULE GroupRoles -----------------------------
(***************************************************************************)
(* What a group promises about membership: its creator is its only owner,   *)
(* and every change of a role is made by somebody entitled to it at the     *)
(* very moment of the change.                                              *)
(***************************************************************************)
CONSTANTS Users, Nobody

VARIABLES
    creator,  \* who founded the group
    role      \* role[u]: "none", "member", "admin" or "owner"

Founded == creator # Nobody
Staff(u) == role[u] \in {"admin", "owner"}
Owner(u) == role[u] = "owner"
Set(u, r) == role' = [role EXCEPT ![u] = r] /\ UNCHANGED creator

RolesInit ==
    /\ creator = Nobody
    /\ role = [u \in Users |-> "none"]

Found(u) ==
    /\ ~Founded
    /\ creator' = u
    /\ UNCHANGED role

\* The creator enters his group, which is still empty.
Settle(u) ==
    /\ creator = u
    /\ \A v \in Users : role[v] = "none"
    /\ Set(u, "owner")

\* Somebody is let in: by the staff, or with an invite link.
Admit(u) == Founded /\ role[u] = "none" /\ Set(u, "member")

Leave(u) == ~Owner(u) /\ Set(u, "none")

\* The staff removes or bans anyone but an owner.
Expel(a, u) == Staff(a) /\ ~Owner(u) /\ Set(u, "none")

Promote(o, u) == Owner(o) /\ role[u] # "none" /\ Set(u, "admin")
Demote(o, u) == Owner(o) /\ role[u] = "admin" /\ Set(u, "member")

Dissolve(o) ==
    /\ Owner(o)
    /\ role' = [u \in Users |-> "none"]
    /\ UNCHANGED creator

RolesNext ==
    \/ \E u \in Users : Found(u) \/ Settle(u) \/ Admit(u) \/ Leave(u) \/ Dissolve(u)
    \/ \E a, u \in Users : Expel(a, u) \/ Promote(a, u) \/ Demote(a, u)

RolesSpec == RolesInit /\ [][RolesNext]_<<creator, role>>

=============================================================================
