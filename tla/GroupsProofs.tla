---------------------------- MODULE GroupsProofs ----------------------------
(***************************************************************************)
(* Theorems about Groups for every set of workers and users and all bounds. *)
(***************************************************************************)
EXTENDS Groups, FiniteSetTheorems, TLAPS

-----------------------------------------------------------------------------
(* The type invariant.                                                     *)

\* The operation of a task determines its other fields.
LEMMA TaskShape ==
    ASSUME NEW t \in Tasks
    PROVE  /\ t.op \in Targeted => t \in [op: Targeted, by: Users, who: Users]
           /\ t.op \in Single => t \in [op: Single, by: Users]
           /\ t.op = "pin" => t \in [op: {"pin"}, by: Users, msg: MsgIds]
  <1>1. CASE t = Idle
    BY <1>1 DEF Idle, Targeted, Single
  <1>2. CASE t \in [op: Targeted, by: Users, who: Users]
    BY <1>2 DEF Targeted, Single
  <1>3. CASE t \in [op: Single, by: Users]
    BY <1>3 DEF Targeted, Single
  <1>4. CASE t \in [op: {"pin"}, by: Users, msg: MsgIds]
    BY <1>4 DEF Targeted, Single
  <1> QED
    BY <1>1, <1>2, <1>3, <1>4 DEF Tasks

\* What the requests have in common: t is the task they give to worker w.  They
\* touch no table, except that the creation of a group inserts the group's row.
Opens(t) ==
    /\ group = "none" /\ group' = "live" /\ creator' \in Users
    /\ t = [op |-> "create", by |-> creator', who |-> creator']
Asks(t) ==
    /\ UNCHANGED <<group, creator>>
    /\ group = "live" \/ \E u \in Users : Member(u)
    /\ t.op \notin {"create", "banMember", "banAudit", "wipeInvites", "wipeMembers", "wipeGroup"}
    /\ t.op = "pin" => t.msg \in Stored
    /\ t.op = "wipeMessages" => \E u \in Users : Owner(u)
Started(w, t) ==
    /\ task[w] = Idle
    /\ task' = [task EXCEPT ![w] = t]
    /\ UNCHANGED <<role, bans, sender, pins, invites, audit, nextMsg, nextToken, crashes>>
    /\ served' \in 0..MaxRequests
    /\ Opens(t) \/ Asks(t)

\* The tasks the requests give out are tasks.
LEMMA NewTasks ==
    /\ \A op \in Targeted, a, u \in Users : [op |-> op, by |-> a, who |-> u] \in Tasks
    /\ \A op \in Single, a \in Users : [op |-> op, by |-> a] \in Tasks
    /\ \A a \in Users, m \in MsgIds : [op |-> "pin", by |-> a, msg |-> m] \in Tasks
  BY DEF Tasks

\* Every request has that shape.
LEMMA RequestShape ==
    ASSUME TypeOK, NEW w \in Workers, Requests(w)
    PROVE  \E t \in Tasks : Started(w, t)
  <1>1. task[w] = Idle /\ served' \in 0..MaxRequests
    BY BoundAssumption DEF Requests, Ready, TypeOK
  <1>2. ASSUME NEW op \in Targeted, NEW a \in Users, NEW u \in Users,
               Begin(w, Targeting(op, a, u)),
               op \notin {"create", "banMember", "banAudit"},
               group = "live" \/ Admin(a)
        PROVE  \E t \in Tasks : Started(w, t)
    <2> DEFINE t == [op |-> op, by |-> a, who |-> u]
    <2>1. t \in Tasks
      BY NewTasks
    <2>2. group = "live" \/ \E v \in Users : Member(v)
      BY <1>2 DEF Admin, Member
    <2>3. Asks(t)
      BY <1>2, <2>2 DEF Asks, Begin, tables, Targeted
    <2>4. Started(w, t)
      BY <1>1, <1>2, <2>3 DEF Started, Begin, tables, Goto, Targeting
    <2> QED
      BY <2>1, <2>4
  <1>3. ASSUME NEW op \in Single, NEW a \in Users, Begin(w, [op |-> op, by |-> a]),
               op \notin {"wipeInvites", "wipeMembers", "wipeGroup"},
               group = "live" \/ Member(a),
               op = "wipeMessages" => Owner(a)
        PROVE  \E t \in Tasks : Started(w, t)
    <2> DEFINE t == [op |-> op, by |-> a]
    <2>1. t \in Tasks
      BY NewTasks
    <2>2. Asks(t)
      BY <1>3 DEF Asks, Begin, tables, Single
    <2>3. Started(w, t)
      BY <1>1, <1>3, <2>2 DEF Started, Begin, tables, Goto
    <2> QED
      BY <2>1, <2>3
  <1>4. ASSUME NEW u \in Users, Create(w, u) PROVE \E t \in Tasks : Started(w, t)
    <2> DEFINE t == [op |-> "create", by |-> u, who |-> u]
    <2>1. t \in Tasks
      BY NewTasks DEF Targeted
    <2>2. Started(w, t)
      BY <1>1, <1>4 DEF Started, Opens, Create, Goto
    <2> QED
      BY <2>1, <2>2
  <1>5. ASSUME NEW a \in Users, NEW m \in MsgIds, Pin(w, a, m)
        PROVE  \E t \in Tasks : Started(w, t)
    <2> DEFINE t == [op |-> "pin", by |-> a, msg |-> m]
    <2>1. t \in Tasks
      BY NewTasks
    <2>2. Asks(t)
      BY <1>5 DEF Asks, Pin, Begin, tables, Admin, Member
    <2>3. Started(w, t)
      BY <1>1, <1>5, <2>2 DEF Started, Pin, Begin, tables, Goto
    <2> QED
      BY <2>1, <2>3
  <1>6. ASSUME NEW u \in Users,
               Join(w, u) \/ Post(w, u) \/ PostBySocket(w, u) \/ Invite(w, u) \/ Delete(w, u)
        PROVE  \E t \in Tasks : Started(w, t)
    <2>1. {"join", "post", "forget", "inviteDelete", "wipeMessages"} \subseteq Single
      BY DEF Single
    <2> QED
      BY <1>3, <1>6, <2>1 DEF Join, Post, PostBySocket, Invite, Delete
  <1>7. ASSUME NEW a \in Users, NEW u \in Users,
               \/ Add(w, a, u) \/ Remove(w, a, u) \/ Promote(w, a, u)
               \/ Demote(w, a, u) \/ Ban(w, a, u) \/ Unban(w, a, u)
        PROVE  \E t \in Tasks : Started(w, t)
    <2>1. {"add", "remove", "promote", "demote", "banRow", "unban"} \subseteq Targeted
      BY DEF Targeted
    <2>2. Owner(a) => Admin(a)
      BY DEF Owner, Admin
    <2> QED
      BY <1>2, <1>7, <2>1, <2>2 DEF Add, Remove, Promote, Demote, Ban, MayBan, Unban
  <1> QED
    BY <1>4, <1>5, <1>6, <1>7 DEF Requests

\* The operations a handler goes on with have the fields it needs.
LEMMA ThenType ==
    ASSUME TypeOK, NEW w \in Workers, NEW op,
           \/ task[w].op \in Targeted /\ op \in Targeted
           \/ task[w].op \in Single /\ op \in Single,
           Then(w, op)
    PROVE  task' \in [Workers -> Tasks]
  <1>1. task[w] \in Tasks
    BY DEF TypeOK
  <1>2. [task[w] EXCEPT !.op = op] \in Tasks
    BY <1>1, TaskShape DEF Tasks
  <1>3. task' = [task EXCEPT ![w] = [task[w] EXCEPT !.op = op]]
    BY DEF Then, TypeOK
  <1> QED
    BY <1>2, <1>3 DEF TypeOK

\* A worker whose handler is over is idle.
LEMMA FinishType ==
    ASSUME TypeOK, NEW w \in Workers, Finish(w)
    PROVE  task' \in [Workers -> Tasks]
  BY DEF Finish, Goto, Tasks, TypeOK

\* Every action keeps the tables and the tasks well typed.
LEMMA TypeStep == TypeOK /\ [Next]_vars => TypeOK'
  <1> SUFFICES ASSUME TypeOK, [Next]_vars PROVE TypeOK'
    OBVIOUS
  <1> USE DEF tables
  <1>0. MaxMessages \in Nat /\ MaxInvites \in Nat /\ MaxCrashes \in Nat
    BY BoundAssumption
  <1>1. CASE UNCHANGED vars
    BY <1>1 DEF vars, TypeOK
  <1>6. ASSUME NEW w \in Workers, Overtake(w) PROVE overtaken' \in [Workers -> SUBSET Watched]
    BY <1>6 DEF Overtake, Changes, TypeOK
  <1>2. ASSUME NEW w \in Workers, Requests(w), Overtake(w) PROVE TypeOK'
    <2>1. PICK t \in Tasks : Started(w, t)
      BY <1>2, RequestShape
    <2>2. overtaken' \in [Workers -> SUBSET Watched]
      BY <1>2, <1>6
    <2> QED
      BY <2>1, <2>2 DEF Started, Opens, Asks, TypeOK
  <1>3. ASSUME NEW w \in Workers, Steps(w), Overtake(w), UNCHANGED served PROVE TypeOK'
    <2> DEFINE t == task[w]
    <2>0. overtaken' \in [Workers -> SUBSET Watched] /\ served' \in 0..MaxRequests
      BY <1>3, <1>6 DEF TypeOK
    <2>1. /\ t.op \in Targeted => t.by \in Users /\ t.who \in Users
          /\ t.op \in Single => t.by \in Users
          /\ t.op = "pin" => t.msg \in MsgIds
      BY TaskShape DEF TypeOK
    <2>2. ASSUME NEW u \in Users, NEW r \in Roles
          PROVE  WithRole(u, r) \in [Users -> Roles]
      BY DEF WithRole, TypeOK
    <2> USE DEF Targeted, Single, Roles
    <2>3. CASE CreateOwner(w)
      BY <2>0, <2>1, <2>2, <2>3, FinishType DEF CreateOwner, TypeOK
    <2>4. CASE Enter(w)
      BY <2>0, <2>1, <2>2, <2>4, FinishType DEF Enter, TypeOK
    <2>5. CASE SetRole(w)
      BY <2>0, <2>1, <2>2, <2>5, FinishType DEF SetRole, TypeOK
    <2>6. CASE BanRow(w)
      BY <2>0, <2>1, <2>6, FinishType, ThenType DEF BanRow, TypeOK
    <2>7. CASE BanMember(w)
      BY <2>0, <2>1, <2>2, <2>7, ThenType DEF BanMember, TypeOK
    <2>8. CASE UnbanRow(w)
      BY <2>0, <2>1, <2>8, ThenType DEF UnbanRow, TypeOK
    <2>9. CASE Audit(w)
      <3>1. audit' \subseteq {"member.banned", "member.unbanned"} \X Users
        BY <2>1, <2>9 DEF Audit, AuditEntry, TypeOK
      <3> QED
        BY <2>0, <2>9, <3>1, FinishType DEF Audit, TypeOK
    <2>10. CASE ForgetBan(w)
      BY <2>0, <2>1, <2>10, ThenType DEF ForgetBan, TypeOK
    <2>11. CASE PostInsert(w)
      <3>1. nextMsg \in MsgIds /\ nextMsg + 1 \in 1..MaxMessages + 1
        BY <1>0, <2>11 DEF PostInsert, TypeOK, MsgIds
      <3>2. sender' \in [MsgIds -> Users \cup {Nobody}] /\ nextMsg' \in 1..MaxMessages + 1
        BY <2>1, <2>11, <3>1 DEF PostInsert, TypeOK
      <3> QED
        BY <2>0, <2>11, <3>2, FinishType DEF PostInsert, TypeOK
    <2>12. CASE PinInsert(w)
      BY <2>0, <2>1, <2>12, FinishType DEF PinInsert, Stored, TypeOK
    <2>13. CASE InviteDelete(w)
      BY <2>0, <2>1, <2>13, ThenType DEF InviteDelete, Revoked, TypeOK
    <2>14. CASE InviteInsert(w)
      <3>1. nextToken \in Tokens /\ nextToken + 1 \in 1..MaxInvites + 1
        BY <1>0, <2>14 DEF InviteInsert, TypeOK, Tokens
      <3> QED
        BY <2>0, <2>14, <3>1, FinishType DEF InviteInsert, TypeOK
    <2>15. CASE WipeMessages(w)
      BY <2>0, <2>1, <2>15, ThenType DEF WipeMessages, MessagesWiped, TypeOK
    <2>16. CASE WipeInvites(w)
      BY <2>0, <2>1, <2>16, ThenType DEF WipeInvites, TypeOK
    <2>17. CASE WipeMembers(w)
      BY <2>0, <2>1, <2>17, ThenType DEF WipeMembers, TypeOK
    <2>18. CASE WipeGroup(w)
      BY <2>0, <2>1, <2>18, FinishType DEF WipeGroup, BansCascaded, TypeOK
    <2> QED
      BY <1>3, <2>3, <2>4, <2>5, <2>6, <2>7, <2>8, <2>9, <2>10, <2>11, <2>12, <2>13, <2>14,
         <2>15, <2>16, <2>17, <2>18 DEF Steps
  <1>4. ASSUME NEW w \in Workers, Crash(w), Overtake(w), UNCHANGED served PROVE TypeOK'
    <2>1. overtaken' \in [Workers -> SUBSET Watched]
      BY <1>4, <1>6
    <2> QED
      BY <1>0, <1>4, <2>1, FinishType DEF Crash, TypeOK
  <1>5. ASSUME NEW u \in Users, Lapse(u), UNCHANGED <<overtaken, served>> PROVE TypeOK'
    BY <1>5 DEF Lapse, TypeOK
  <1> QED
    BY <1>1, <1>2, <1>3, <1>4, <1>5 DEF Next

\* Init is well typed.
LEMMA TypeInit == Init => TypeOK
  <1>1. {MaxMessages, MaxInvites, MaxRequests, MaxCrashes} \subseteq Nat
    BY BoundAssumption
  <1>2. Idle \in Tasks
    BY DEF Tasks
  <1>3. /\ 1 \in 1..MaxMessages + 1 /\ 1 \in 1..MaxInvites + 1
        /\ 0 \in 0..MaxRequests /\ 0 \in 0..MaxCrashes
        /\ "none" \in Roles
    BY <1>1 DEF Roles
  <1>4. ASSUME Init
        PROVE  /\ role \in [Users -> Roles] /\ task \in [Workers -> Tasks]
               /\ sender \in [MsgIds -> Users \cup {Nobody}]
               /\ bans \in [Users -> {"none", "standing", "lapsed"}]
               /\ overtaken \in [Workers -> SUBSET Watched]
    BY <1>2, <1>3, <1>4 DEF Init
  <1> QED
    BY <1>3, <1>4 DEF Init, TypeOK

\* In every reachable state the tables and the tasks have their types.
THEOREM TypeCorrect == Spec => []TypeOK
  BY TypeInit, TypeStep, PTL DEF Spec

-----------------------------------------------------------------------------
(* One owner, the creator.                                                 *)

\* While a group is being founded it has no owner, so nobody is at deleting it
\* or at founding it a second time.
Wiping == {"wipeMessages", "wipeInvites", "wipeMembers", "wipeGroup"}
Founding(w) ==
    task[w].op = "create" =>
        /\ group = "live"
        /\ task[w].by = creator
        /\ \A u \in Users : ~Owner(u)
        /\ \A x \in Workers \ {w} : task[x].op \notin {"create"} \cup Wiping
Unfounded ==
    group = "none" =>
        (\A w \in Workers : task[w] = Idle) /\ \A u \in Users : role[u] = "none"
OwnerInv ==
    /\ Unfounded
    /\ \A w \in Workers : Founding(w)
    /\ OwnerIsCreator

\* What a statement does to the task of its worker, and to nobody else's.
LEMMA StepTasks ==
    ASSUME TypeOK, NEW w \in Workers, Steps(w)
    PROVE  /\ task[w] # Idle
           /\ \A x \in Workers \ {w} : task'[x] = task[x]
           /\ task'[w].op # "create"
           /\ task'[w].op \in Wiping => task[w].op \in Wiping
           /\ UNCHANGED <<creator, crashes>>
           /\ group' = group \/ (group' = "gone" /\ task[w].op = "wipeGroup")
  <1>1. \/ Finish(w)
        \/ \E op \in {"banMember", "banAudit", "unbanAudit", "post", "inviteInsert"} : Then(w, op)
        \/ task[w].op \in Wiping /\ \E op \in Wiping : Then(w, op)
    BY DEF Steps, CreateOwner, Enter, SetRole, BanRow, BanMember, UnbanRow, Audit, ForgetBan,
       PostInsert, PinInsert, InviteDelete, InviteInsert, WipeMessages, WipeInvites,
       WipeMembers, WipeGroup, Wiping
  <1>2. /\ task[w].op # "idle"
        /\ UNCHANGED <<creator, crashes>>
        /\ group' = group \/ (group' = "gone" /\ task[w].op = "wipeGroup")
    BY DEF Steps, CreateOwner, Enter, SetRole, BanRow, BanMember, UnbanRow, Audit, ForgetBan,
       PostInsert, PinInsert, InviteDelete, InviteInsert, WipeMessages, WipeInvites,
       WipeMembers, WipeGroup
  <1>3. task[w] \in Tasks
    BY DEF TypeOK
  <1>4. CASE Finish(w)
    BY <1>2, <1>4 DEF Finish, Goto, Idle, Wiping, TypeOK
  <1>5. ASSUME NEW op, Then(w, op), op \in {"banMember", "banAudit", "unbanAudit", "post",
                                            "inviteInsert"} \cup Wiping
        PROVE  task'[w].op = op /\ \A x \in Workers \ {w} : task'[x] = task[x]
    <2>1. "op" \in DOMAIN task[w]
      BY <1>3 DEF Tasks, Idle
    <2> QED
      BY <1>5, <2>1 DEF Then, TypeOK
  <1> QED
    BY <1>1, <1>2, <1>4, <1>5 DEF Idle, Wiping

\* Only three kinds of statement touch the members, and only the creation's
\* makes an owner.
LEMMA StepRoles ==
    ASSUME TypeOK, NEW w \in Workers, Steps(w), NEW u \in Users, Owner(u)'
    PROVE  Owner(u) \/ (task[w].op = "create" /\ task[w].by = u)
  <1> USE DEF Owner, WithRole, TypeOK
  <1>1. CASE CreateOwner(w)
    BY <1>1 DEF CreateOwner
  <1>2. CASE Enter(w)
    BY <1>2 DEF Enter
  <1>3. CASE SetRole(w)
    <2>1. role' = role \/ \E v \in Users, r \in {"none", "admin", "member"} : role' = WithRole(v, r)
      <3>1. task[w].who \in Users
        BY <1>3, TaskShape DEF SetRole, Targeted
      <3> QED
        BY <1>3, <3>1 DEF SetRole
    <2> QED
      BY <2>1
  <1>4. CASE BanMember(w)
    BY <1>4 DEF BanMember
  <1>5. CASE WipeMembers(w) \/ WipeGroup(w)
    BY <1>5 DEF WipeMembers, WipeGroup
  <1>6. CASE role' = role
    BY <1>6
  <1> QED
    BY <1>1, <1>2, <1>3, <1>4, <1>5, <1>6
    DEF Steps, BanRow, UnbanRow, Audit, ForgetBan, PostInsert, PinInsert, InviteDelete,
        InviteInsert, WipeMessages, WipeInvites

\* The invariant is inductive.
LEMMA OwnerStep == TypeOK /\ OwnerInv /\ [Next]_vars => OwnerInv'
  <1> SUFFICES ASSUME TypeOK, OwnerInv, [Next]_vars PROVE OwnerInv'
    OBVIOUS
  <1> USE DEF tables
  <1>1. CASE UNCHANGED vars
    BY <1>1 DEF vars, OwnerInv, Unfounded, Founding, OwnerIsCreator, Owner
  <1>2. ASSUME NEW w \in Workers, Requests(w) PROVE OwnerInv'
    <2>1. PICK t \in Tasks : Started(w, t)
      BY <1>2, RequestShape
    <2>2. /\ task'[w] = t /\ task[w] = Idle
          /\ \A x \in Workers \ {w} : task'[x] = task[x]
          /\ role' = role
      BY <2>1 DEF Started, TypeOK
    <2>3. CASE Opens(t)
      BY <2>2, <2>3 DEF Opens, OwnerInv, Unfounded, Founding, OwnerIsCreator, Owner, Idle, Wiping
    <2>4. CASE Asks(t)
      <3>1. group # "none" /\ UNCHANGED <<group, creator>>
        BY <2>4 DEF Asks, OwnerInv, Unfounded, Member
      <3>2. t.op # "create" /\ (t.op \in Wiping => \E u \in Users : Owner(u))
        BY <2>4 DEF Asks, Wiping
      <3> QED
        BY <2>2, <3>1, <3>2 DEF OwnerInv, Unfounded, Founding, OwnerIsCreator, Owner
    <2> QED
      BY <2>1, <2>3, <2>4 DEF Started
  <1>3. ASSUME NEW w \in Workers, Steps(w) PROVE OwnerInv'
    <2>1. /\ group # "none" /\ group' # "none"
      BY <1>3, StepTasks DEF OwnerInv, Unfounded, Wiping
    <2>2. OwnerIsCreator'
      BY <1>3, StepTasks, StepRoles DEF OwnerInv, Founding, OwnerIsCreator
    <2>3. ASSUME NEW x \in Workers, task'[x].op = "create" PROVE Founding(x)'
      <3>1. x # w /\ task[x].op = "create" /\ task'[x] = task[x]
        BY <1>3, <2>3, StepTasks
      <3>2. task[w].op \notin {"create"} \cup Wiping
        BY <3>1 DEF OwnerInv, Founding
      <3>3. \A u \in Users : ~Owner(u)'
        BY <1>3, <3>1, <3>2, StepRoles DEF OwnerInv, Founding
      <3> QED
        BY <1>3, <3>1, <3>2, <3>3, StepTasks DEF OwnerInv, Founding, Wiping
    <2> QED
      BY <2>1, <2>2, <2>3 DEF OwnerInv, Unfounded, Founding
  <1>4. ASSUME NEW w \in Workers, Crash(w) PROVE OwnerInv'
    <2>1. task'[w] = Idle /\ \A x \in Workers \ {w} : task'[x] = task[x]
      BY <1>4 DEF Crash, Finish, Goto, TypeOK
    <2> QED
      BY <1>4, <2>1 DEF Crash, OwnerInv, Unfounded, Founding, OwnerIsCreator, Owner, Idle, Wiping
  <1>5. ASSUME NEW u \in Users, Lapse(u) PROVE OwnerInv'
    BY <1>5 DEF Lapse, OwnerInv, Unfounded, Founding, OwnerIsCreator, Owner
  <1> QED
    BY <1>1, <1>2, <1>3, <1>4, <1>5 DEF Next

\* A group that has not been founded has nobody in it.
LEMMA OwnerInit == Init => OwnerInv
  BY DEF Init, OwnerInv, Unfounded, Founding, OwnerIsCreator, Owner, Idle

\* Only the creator of a group is ever its owner, though the row of the group
\* and that of its owner are inserted one after the other.
THEOREM OwnerCreated == Spec => []OwnerIsCreator
  <1>1. OwnerInv => OwnerIsCreator
    BY DEF OwnerInv
  <1> QED
    BY <1>1, OwnerInit, OwnerStep, TypeInit, TypeStep, PTL DEF Spec

-----------------------------------------------------------------------------
(* No row outlives its group.                                              *)

\* The invariant is inductive next to OwnerInv: a handler that founded or
\* looked up a group that is gone meets its foreign keys.
LEMMA OrphanStep == TypeOK /\ OwnerInv /\ NoOrphans /\ [Next]_vars => NoOrphans'
  <1> SUFFICES ASSUME TypeOK, OwnerInv, NoOrphans, [Next]_vars PROVE NoOrphans'
    OBVIOUS
  <1> USE DEF tables
  <1>1. CASE UNCHANGED vars
    BY <1>1 DEF vars, NoOrphans, Stored, Member
  <1>2. ASSUME NEW w \in Workers, Requests(w) PROVE NoOrphans'
    <2>1. PICK t \in Tasks : Started(w, t)
      BY <1>2, RequestShape
    <2> QED
      BY <2>1 DEF Started, Opens, Asks, NoOrphans, Stored, Member
  <1>3. ASSUME NEW w \in Workers, Steps(w) PROVE NoOrphans'
    <2> USE DEF NoOrphans, Stored, Member, ForeignKeyAllows
    <2>0. /\ task[w].op \in Targeted => task[w].who \in Users
          /\ task[w].op \in Single => task[w].by \in Users
      BY TaskShape DEF TypeOK
    <2>1. CASE CreateOwner(w)
      BY <2>1 DEF CreateOwner, OwnerInv, Founding
    <2>2. CASE Enter(w)
      BY <2>2 DEF Enter
    <2>3. CASE SetRole(w)
      <3>1. task[w].who \in Users
        BY <2>0, <2>3 DEF SetRole, Targeted
      <3> QED
        BY <2>3, <3>1 DEF SetRole
    <2>4. CASE BanRow(w)
      BY <2>4 DEF BanRow
    <2>5. CASE BanMember(w)
      BY <2>5 DEF BanMember, WithRole, TypeOK
    <2>6. CASE UnbanRow(w)
      BY <2>6 DEF UnbanRow, TypeOK
    <2>7. CASE Audit(w)
      BY <2>7 DEF Audit
    <2>8. CASE ForgetBan(w)
      BY <2>8 DEF ForgetBan, TypeOK
    <2>9. CASE PostInsert(w)
      <3>1. task[w].by \in Users
        BY <2>0, <2>9 DEF PostInsert, Single
      <3>2. task[w].by # Nobody
        BY <3>1, NobodyAssumption
      <3> QED
        BY <2>9, <3>2 DEF PostInsert, TypeOK
    <2>10. CASE PinInsert(w)
      BY <2>10 DEF PinInsert
    <2>11. CASE InviteDelete(w)
      BY <2>11 DEF InviteDelete, Revoked
    <2>12. CASE InviteInsert(w)
      BY <2>12 DEF InviteInsert
    <2>13. CASE WipeMessages(w)
      BY <2>13 DEF WipeMessages, MessagesWiped
    <2>14. CASE WipeInvites(w)
      BY <2>14 DEF WipeInvites
    <2>15. CASE WipeMembers(w)
      BY <2>15 DEF WipeMembers
    <2>16. CASE WipeGroup(w)
      BY <2>16 DEF WipeGroup, GroupDeletable, BansCascaded
    <2> QED
      BY <1>3, <2>1, <2>2, <2>3, <2>4, <2>5, <2>6, <2>7, <2>8, <2>9, <2>10, <2>11, <2>12,
         <2>13, <2>14, <2>15, <2>16 DEF Steps
  <1>4. ASSUME NEW w \in Workers, Crash(w) PROVE NoOrphans'
    BY <1>4 DEF Crash, NoOrphans, Stored, Member
  <1>5. ASSUME NEW u \in Users, Lapse(u) PROVE NoOrphans'
    BY <1>5 DEF Lapse, NoOrphans, Stored, Member, TypeOK
  <1> QED
    BY <1>1, <1>2, <1>3, <1>4, <1>5 DEF Next

\* The tables start empty.
LEMMA OrphanInit == Init => NoOrphans
  BY DEF Init, NoOrphans, Stored, Member

\* No row outlives its group and no pin its message, whatever handlers are
\* under way while the group is deleted.
THEOREM NothingOrphaned == Spec => []NoOrphans
  BY OrphanInit, OrphanStep, OwnerInit, OwnerStep, TypeInit, TypeStep, PTL DEF Spec

-----------------------------------------------------------------------------
(* Bans are logged.                                                        *)

\* As long as no worker is killed, every ban is in the audit log or the handler
\* that wrote it is about to add it.
Logging(u) ==
    \E w \in Workers : task[w].op \in {"banMember", "banAudit"} /\ task[w].who = u
AuditInv ==
    crashes = 0 => \A u \in Users :
        bans[u] # "none" => <<"member.banned", u>> \in audit \/ Logging(u)

\* The invariant is inductive: a ban is written by the statement that makes its
\* worker go on to the entry, and only the deletion of the group removes one.
LEMMA AuditStep == TypeOK /\ NoOrphans /\ AuditInv /\ [Next]_vars => AuditInv'
  <1> SUFFICES ASSUME TypeOK, NoOrphans, AuditInv, [Next]_vars, crashes' = 0,
                      NEW u \in Users, bans'[u] # "none"
               PROVE  <<"member.banned", u>> \in audit' \/ Logging(u)'
    BY DEF AuditInv
  <1> USE DEF tables
  <1>1. CASE UNCHANGED vars
    BY <1>1 DEF vars, AuditInv, Logging
  <1>2. ASSUME NEW w \in Workers, Requests(w)
        PROVE  <<"member.banned", u>> \in audit' \/ Logging(u)'
    <2>1. PICK t \in Tasks : Started(w, t)
      BY <1>2, RequestShape
    <2>2. /\ task[w] = Idle
          /\ \A x \in Workers \ {w} : task'[x] = task[x]
          /\ UNCHANGED <<bans, audit, crashes>>
      BY <2>1 DEF Started, TypeOK
    <2>3. Logging(u) => Logging(u)'
      BY <2>2 DEF Logging, Idle
    <2> QED
      BY <2>2, <2>3 DEF AuditInv
  <1>3. ASSUME NEW w \in Workers, Steps(w)
        PROVE  <<"member.banned", u>> \in audit' \/ Logging(u)'
    <2>1. /\ \A x \in Workers \ {w} : task'[x] = task[x]
          /\ crashes' = crashes
      BY <1>3, StepTasks
    <2>2. task[w] \in Tasks
      BY DEF TypeOK
    <2>3. ASSUME NEW op, Then(w, op), task[w].op \in Targeted
          PROVE  task'[w].op = op /\ task'[w].who = task[w].who
      <3>1. task[w] \in [op: Targeted, by: Users, who: Users]
        BY <2>2, <2>3, TaskShape
      <3> QED
        BY <2>3, <3>1 DEF Then, TypeOK
    <2>4. CASE BanRow(w)
      <3>1. CASE ForeignKeyAllows /\ task[w].who = u
        <4>1. Then(w, "banMember") /\ task[w].op \in Targeted
          BY <2>4, <3>1 DEF BanRow, Targeted
        <4> QED
          BY <2>3, <3>1, <4>1 DEF Logging
      <3>2. CASE ~(ForeignKeyAllows /\ task[w].who = u)
        <4>1. bans'[u] = bans[u] /\ audit' = audit /\ task[w].op = "banRow"
          BY <2>4, <3>2 DEF BanRow, TypeOK
        <4> QED
          BY <2>1, <4>1 DEF AuditInv, Logging
      <3> QED
        BY <3>1, <3>2
    <2>5. CASE BanMember(w)
      <3>1. Then(w, "banAudit") /\ task[w].op \in Targeted /\ UNCHANGED <<bans, audit>>
        BY <2>5 DEF BanMember, Targeted
      <3>2. Logging(u) => Logging(u)'
        BY <2>1, <2>3, <3>1 DEF Logging
      <3> QED
        BY <2>1, <3>1, <3>2 DEF AuditInv
    <2>6. CASE Audit(w)
      <3>1. ForeignKeyAllows /\ bans'[u] = bans[u]
        BY <2>6 DEF Audit, NoOrphans, ForeignKeyAllows
      <3>2. audit \subseteq audit' /\ (task[w].op = "banAudit" =>
                                           <<"member.banned", task[w].who>> \in audit')
        BY <2>6, <3>1 DEF Audit, AuditEntry
      <3>3. task[w].op # "banMember"
        BY <2>6 DEF Audit
      <3> QED
        BY <2>1, <3>1, <3>2, <3>3 DEF AuditInv, Logging
    <2>7. CASE UnbanRow(w) \/ ForgetBan(w) \/ WipeGroup(w)
      <3>1. bans'[u] = bans[u] /\ audit' = audit
        BY <2>7 DEF UnbanRow, ForgetBan, WipeGroup, BansCascaded, TypeOK
      <3>2. task[w].op \notin {"banMember", "banAudit"}
        BY <2>7 DEF UnbanRow, ForgetBan, WipeGroup
      <3> QED
        BY <2>1, <3>1, <3>2 DEF AuditInv, Logging
    <2>8. CASE /\ UNCHANGED <<bans, audit>>
               /\ task[w].op \notin {"banMember", "banAudit"}
      BY <2>1, <2>8 DEF AuditInv, Logging
    <2> QED
      BY <1>3, <2>4, <2>5, <2>6, <2>7, <2>8
      DEF Steps, CreateOwner, Enter, SetRole, PostInsert, PinInsert, InviteDelete,
          InviteInsert, WipeMessages, WipeInvites, WipeMembers
  <1>4. ASSUME NEW w \in Workers, Crash(w) PROVE FALSE
    BY <1>4 DEF Crash, TypeOK
  <1>5. ASSUME NEW v \in Users, Lapse(v)
        PROVE  <<"member.banned", u>> \in audit' \/ Logging(u)'
    <2>1. bans[u] # "none"
      BY <1>5 DEF Lapse, TypeOK
    <2> QED
      BY <1>5, <2>1 DEF Lapse, AuditInv, Logging
  <1> QED
    BY <1>1, <1>2, <1>3, <1>4, <1>5 DEF Next

\* Every ban in force is in the audit log once its handler has finished, unless
\* a worker is killed between the three statements.
THEOREM BansLogged == Spec => []BansAreAudited
  <1>1. Init => AuditInv
    BY DEF Init, AuditInv
  <1>2. AuditInv => BansAreAudited
    BY DEF AuditInv, Logging, BansAreAudited, Busy
  <1> QED
    BY <1>1, <1>2, AuditStep, OrphanInit, OrphanStep, OwnerInit, OwnerStep, TypeInit,
       TypeStep, PTL DEF Spec

-----------------------------------------------------------------------------
(* What was looked up still holds when it is acted upon, unless another      *)
(* process has changed the table it was looked up in.                        *)

\* The handler's test of its user's rights still holds of the task in hand, and
\* what the earlier statements of the handler have removed is still gone.
Entitled(t) ==
    /\ t.op = "create" => t.by = creator /\ \A u \in Users : ~Member(u)
    /\ t.op = "remove" => MayRemove(t.by, t.who)
    /\ t.op \in {"promote", "demote"} => Owner(t.by)
    /\ t.op = "demote" => role[t.who] = "admin"
    /\ t.op \in {"banRow", "banMember"} => MayBan(t.by, t.who)
    /\ t.op \in {"wipeMessages", "wipeInvites", "wipeMembers"} => Owner(t.by)
    /\ t.op = "wipeGroup" => \A u \in Users : ~Member(u)
Current(w) ==
    /\ "members" \notin overtaken[w] => Entitled(task[w])
    /\ task[w].op = "forget" =>
          "bans" \in overtaken[w] \/ bans[task[w].by] # "standing"
    /\ task[w].op = "inviteInsert" => "invites" \in overtaken[w] \/ invites = {}
    /\ task[w].op \in {"wipeInvites", "wipeMembers", "wipeGroup"} =>
          "messages" \in overtaken[w] \/ Stored = {}
HasCreator == IF group = "none" THEN creator = Nobody ELSE creator \in Users
HandInv == (\A w \in Workers : Current(w)) /\ HasCreator

\* What a statement of a handler leaves for the next one keeps its user.
LEMMA ThenTask ==
    ASSUME TypeOK, NEW w \in Workers, NEW op, Then(w, op), task[w].op \in Targeted \cup Single
    PROVE  /\ task'[w].op = op
           /\ task'[w].by = task[w].by /\ task[w].by \in Users
           /\ task[w].op \in Targeted =>
                 task'[w].who = task[w].who /\ task[w].who \in Users
  <1>1. \/ task[w] \in [op: Targeted, by: Users, who: Users]
        \/ task[w] \in [op: Single, by: Users] /\ task[w].op \notin Targeted
    BY TaskShape DEF TypeOK, Targeted, Single
  <1>2. task'[w] = [task[w] EXCEPT !.op = op]
    BY <1>1 DEF Then, TypeOK
  <1> QED
    BY <1>1, <1>2

\* A handler starts with the rights it has just looked up.
LEMMA RequestInHand ==
    ASSUME TypeOK, OwnerInv, NEW w \in Workers, Requests(w)
    PROVE  Entitled(task[w])' /\ Current(w)'
  <1> DEFINE Kept == UNCHANGED <<role, bans, sender, invites>>
  <1> USE DEF Entitled, Current
  <1>1. ASSUME NEW u \in Users, Create(w, u)
        PROVE  Entitled(task[w])' /\ Current(w)'
    <2>1. task'[w] = [op |-> "create", by |-> u, who |-> u] /\ creator' = u /\ Kept
      BY <1>1 DEF Create, Goto, TypeOK
    <2>2. \A v \in Users : ~Member(v)'
      BY <1>1, <2>1 DEF Create, OwnerInv, Unfounded, Member
    <2> QED
      BY <2>1, <2>2
  <1>2. ASSUME NEW op \in {"join", "post", "forget", "inviteDelete", "wipeMessages"},
               NEW a \in Users, Begin(w, [op |-> op, by |-> a]),
               op = "forget" => bans[a] # "standing",
               op = "wipeMessages" => Owner(a)
        PROVE  Entitled(task[w])' /\ Current(w)'
    <2>1. task'[w] = [op |-> op, by |-> a] /\ Kept
      BY <1>2 DEF Begin, Goto, TypeOK, tables
    <2> QED
      BY <1>2, <2>1 DEF Owner
  <1>3. ASSUME NEW op \in {"add", "remove", "promote", "demote", "banRow", "unban"},
               NEW a \in Users, NEW u \in Users, Begin(w, Targeting(op, a, u)),
               op = "remove" => MayRemove(a, u),
               op \in {"promote", "demote"} => Owner(a),
               op = "demote" => role[u] = "admin",
               op = "banRow" => MayBan(a, u)
        PROVE  Entitled(task[w])' /\ Current(w)'
    <2>1. task'[w] = [op |-> op, by |-> a, who |-> u] /\ Kept
      BY <1>3 DEF Begin, Goto, Targeting, TypeOK, tables
    <2> QED
      BY <1>3, <2>1 DEF Owner, MayRemove, MayBan, Admin
  <1>4. ASSUME NEW a \in Users, NEW m \in MsgIds, Pin(w, a, m)
        PROVE  Entitled(task[w])' /\ Current(w)'
    <2>1. task'[w] = [op |-> "pin", by |-> a, msg |-> m] /\ Kept
      BY <1>4 DEF Pin, Begin, Goto, TypeOK, tables
    <2> QED
      BY <2>1
  <1>5. ASSUME NEW u \in Users,
               Join(w, u) \/ Post(w, u) \/ PostBySocket(w, u) \/ Invite(w, u) \/ Delete(w, u)
        PROVE  Entitled(task[w])' /\ Current(w)'
    BY <1>2, <1>5 DEF Join, Post, PostBySocket, HasLapsed, Banned, Invite, Delete
  <1>6. ASSUME NEW a \in Users, NEW u \in Users,
               \/ Add(w, a, u) \/ Remove(w, a, u) \/ Promote(w, a, u)
               \/ Demote(w, a, u) \/ Ban(w, a, u) \/ Unban(w, a, u)
        PROVE  Entitled(task[w])' /\ Current(w)'
    BY <1>3, <1>6 DEF Add, Remove, Promote, Demote, Ban, Unban
  <1> QED
    BY <1>1, <1>4, <1>5, <1>6 DEF Requests

\* A statement that leaves its handler unfinished leaves it entitled.
LEMMA StepInHand ==
    ASSUME TypeOK, NEW w \in Workers, Current(w), Steps(w), Overtake(w)
    PROVE  Current(w)'
  <1> USE DEF Current, Entitled, Targeted, Single
  <1>1. CASE Finish(w)
    BY <1>1 DEF Finish, Goto, Idle, TypeOK
  <1>2. ASSUME task'[w] # Idle PROVE overtaken'[w] = overtaken[w]
    BY <1>2 DEF Overtake
  <1>3. CASE BanRow(w) /\ ~Finish(w)
    BY <1>2, <1>3, ThenTask DEF BanRow, MayBan, Admin, Owner, Idle
  <1>4. CASE BanMember(w) \/ UnbanRow(w) \/ ForgetBan(w)
    BY <1>4, ThenTask DEF BanMember, UnbanRow, ForgetBan
  <1>5. CASE InviteDelete(w)
    BY <1>5, ThenTask DEF InviteDelete, Revoked
  <1>6. CASE WipeMessages(w)
    BY <1>2, <1>6, ThenTask DEF WipeMessages, MessagesWiped, Stored, Owner, Idle
  <1>7. CASE WipeInvites(w)
    BY <1>2, <1>7, ThenTask DEF WipeInvites, Stored, Owner, Idle
  <1>8. CASE WipeMembers(w)
    BY <1>2, <1>8, ThenTask DEF WipeMembers, Stored, Member, Idle
  <1> QED
    BY <1>1, <1>3, <1>4, <1>5, <1>6, <1>7, <1>8
    DEF Steps, CreateOwner, Enter, SetRole, Audit, PostInsert, PinInsert, InviteInsert, WipeGroup

\* A step of worker w leaves another's handler what it had looked up, or is
\* noted in that worker's history.
LEMMA OthersInHand ==
    ASSUME TypeOK, NEW w \in Workers, Overtake(w), NEW x \in Workers, x # w, Current(x),
           task'[x] = task[x], task[x] = Idle \/ creator' = creator
    PROVE  Current(x)'
  <1>1. CASE task[x] = Idle
    BY <1>1 DEF Current, Entitled, Idle
  <1>2. CASE task[x] # Idle
    <2>1. overtaken'[x] = overtaken[x] \cup Changes /\ creator' = creator
      BY <1>2 DEF Overtake
    <2>2. /\ "members" \notin overtaken'[x] => role' = role /\ "members" \notin overtaken[x]
          /\ "bans" \notin overtaken'[x] => bans' = bans /\ "bans" \notin overtaken[x]
          /\ "invites" \notin overtaken'[x] => invites' = invites /\ "invites" \notin overtaken[x]
          /\ "messages" \notin overtaken'[x] => sender' = sender /\ "messages" \notin overtaken[x]
      BY <2>1 DEF Changes, Watched
    <2>3. "members" \notin overtaken'[x] => Entitled(task[x])'
      BY <2>1, <2>2 DEF Current, Entitled, Member, Owner, MayRemove, MayBan, Admin
    <2> QED
      BY <2>2, <2>3 DEF Current, Stored
  <1> QED
    BY <1>1, <1>2

\* The invariant is inductive, whatever the interleaving.
LEMMA HandStep == TypeOK /\ OwnerInv /\ HandInv /\ [Next]_vars => HandInv'
  <1> SUFFICES ASSUME TypeOK, OwnerInv, HandInv, [Next]_vars PROVE HandInv'
    OBVIOUS
  <1> USE DEF HandInv
  <1>1. CASE UNCHANGED vars
    BY <1>1 DEF vars, tables, Current, HasCreator, Entitled, Member, Owner,
       MayRemove, MayBan, Admin, Stored
  <1>2. ASSUME NEW w \in Workers, Requests(w), Overtake(w) PROVE HandInv'
    <2>1. PICK t \in Tasks : Started(w, t)
      BY <1>2, RequestShape
    <2>2. ASSUME NEW x \in Workers, x # w PROVE Current(x)'
      <3>1. task'[x] = task[x]
        BY <2>1, <2>2 DEF Started, TypeOK
      <3>2. task[x] = Idle \/ creator' = creator
        BY <2>1 DEF Started, Opens, Asks, OwnerInv, Unfounded
      <3> QED
        BY <1>2, <2>2, <3>1, <3>2, OthersInHand
    <2>3. Current(w)'
      BY <1>2, RequestInHand
    <2>4. HasCreator'
      BY <2>1 DEF Started, Opens, Asks, HasCreator
    <2> QED
      BY <2>2, <2>3, <2>4
  <1>3. ASSUME NEW w \in Workers, Steps(w), Overtake(w) PROVE HandInv'
    <2>1. ASSUME NEW x \in Workers, x # w PROVE Current(x)'
      BY <1>3, <2>1, StepTasks, OthersInHand
    <2>2. Current(w)'
      BY <1>3, StepInHand
    <2>3. group # "none"
      BY <1>3, StepTasks DEF OwnerInv, Unfounded
    <2>4. HasCreator'
      BY <1>3, <2>3, StepTasks DEF HasCreator
    <2> QED
      BY <2>1, <2>2, <2>4
  <1>4. ASSUME NEW w \in Workers, Crash(w), Overtake(w) PROVE HandInv'
    <2>1. task'[w] = Idle /\ \A x \in Workers \ {w} : task'[x] = task[x]
      BY <1>4 DEF Crash, Finish, Goto, TypeOK
    <2>2. creator' = creator /\ group' = group
      BY <1>4 DEF Crash, tables
    <2>3. ASSUME NEW x \in Workers, x # w PROVE Current(x)'
      BY <1>4, <2>1, <2>2, <2>3, OthersInHand
    <2>4. Current(w)'
      BY <2>1 DEF Current, Entitled, Idle
    <2> QED
      BY <2>2, <2>3, <2>4 DEF HasCreator
  <1>5. ASSUME NEW u \in Users, Lapse(u), UNCHANGED <<overtaken, served>> PROVE HandInv'
    <2>1. UNCHANGED <<group, creator, role, sender, invites, task, overtaken>>
      BY <1>5 DEF Lapse
    <2>2. \A v : bans'[v] = "standing" => bans[v] = "standing" \/ v \notin Users
      BY <1>5 DEF Lapse, TypeOK
    <2>3. ASSUME NEW x \in Workers, task[x].op = "forget" PROVE task[x].by \in Users
      BY <2>3, TaskShape DEF TypeOK, Single
    <2> QED
      BY <2>1, <2>2, <2>3 DEF Current, HasCreator, Entitled, Member, Owner,
         MayRemove, MayBan, Admin, Stored
  <1> QED
    BY <1>1, <1>2, <1>3, <1>4, <1>5 DEF Next

\* Before the first request there is no group and no task.
LEMMA HandInit == Init => HandInv
  BY DEF Init, HandInv, Current, HasCreator, Entitled, Idle

\* A handler acts on what is still so, as far as nobody has overtaken it.
LEMMA InHand == Spec => [](TypeOK /\ OwnerInv /\ HandInv)
  BY HandInit, HandStep, OwnerInit, OwnerStep, TypeInit, TypeStep, PTL DEF Spec

\* The one statement that adds a link adds the only one.
LEMMA InviteStep ==
    ASSUME TypeOK, HandInv, [Next]_vars, invites' # invites, Cardinality(invites') > 1
    PROVE  \E w \in Workers :
               /\ task'[w] # task[w]
               /\ task[w].op = "inviteInsert" /\ "invites" \in overtaken[w]
  <1>1. invites' = {} \/ \E w \in Workers : InviteInsert(w)
    <2>1. ASSUME NEW w \in Workers, Requests(w) PROVE invites' = invites
      BY <2>1, RequestShape DEF Started
    <2> QED
      BY <2>1
      DEF Next, Steps, CreateOwner, Enter, SetRole, BanRow, BanMember, UnbanRow, Audit,
          ForgetBan, PostInsert, PinInsert, InviteDelete, Revoked, WipeMessages, WipeInvites,
          WipeMembers, WipeGroup, Crash, Lapse, tables, vars
  <1>2. Cardinality({}) = 0 /\ Cardinality({nextToken}) = 1
    BY FS_EmptySet, FS_Singleton
  <1>3. PICK w \in Workers : InviteInsert(w)
    BY <1>1, <1>2
  <1>4. task[w].op = "inviteInsert" /\ task'[w] = Idle
    BY <1>3 DEF InviteInsert, Finish, Goto, TypeOK
  <1>5. invites' = invites \cup {nextToken}
    BY <1>3 DEF InviteInsert
  <1>6. "invites" \in overtaken[w]
    BY <1>2, <1>4, <1>5 DEF HandInv, Current
  <1> QED
    BY <1>4, <1>6 DEF Idle

\* Regenerating a link deletes the old one and inserts the new one in two
\* statements; a group gets a second link only if the links have changed in
\* another process between the two.
THEOREM LinksReplaced == Spec => OneInvite
  <1>1. TypeOK /\ HandInv /\ [Next]_vars =>
            (Cardinality(invites') > 1 /\ invites' # invites =>
                 \E w \in Workers :
                     /\ task'[w] # task[w]
                     /\ task[w].op = "inviteInsert" /\ "invites" \in overtaken[w])
    BY InviteStep
  <1> QED
    BY <1>1, InHand, PTL DEF Spec, OneInvite

\* Only the last statement of a deletion and a kill end a deletion that has come
\* as far as the group.
LEMMA WipeStep ==
    ASSUME TypeOK, HandInv, [Next]_vars, NEW w \in Workers, task[w].op = "wipeGroup",
           task'[w] # task[w]
    PROVE  group' = "gone" \/ crashes' # crashes \/ "messages" \in overtaken[w]
  <1>1. ASSUME NEW x \in Workers, Requests(x) PROVE FALSE
    BY <1>1, RequestShape DEF Started, Idle, TypeOK
  <1>2. ASSUME NEW x \in Workers, Steps(x) PROVE WipeGroup(w)
    <2>1. x = w
      BY <1>2, StepTasks
    <2> QED
      BY <1>2, <2>1
      DEF Steps, CreateOwner, Enter, SetRole, BanRow, BanMember, UnbanRow, Audit, ForgetBan,
          PostInsert, PinInsert, InviteDelete, InviteInsert, WipeMessages, WipeInvites,
          WipeMembers
  <1>3. ASSUME NEW x \in Workers, Crash(x) PROVE crashes' # crashes
    BY <1>3 DEF Crash, TypeOK
  <1>4. ASSUME WipeGroup(w), "messages" \notin overtaken[w] PROVE group' = "gone"
    BY <1>4 DEF WipeGroup, GroupDeletable, HandInv, Current
  <1> QED
    BY <1>1, <1>2, <1>3, <1>4 DEF Next, Lapse, vars

\* A deletion that comes as far as the group deletes it: the last DELETE fails
\* on a message only if another process has inserted one since the handler
\* began.
THEOREM DeletesWhole == Spec => DeletionIsWhole
  <1>1. TypeOK /\ HandInv /\ [Next]_vars =>
            \A w \in Workers :
                task[w].op = "wipeGroup" /\ task'[w] # task[w] =>
                    \/ group' = "gone"
                    \/ crashes' # crashes
                    \/ "messages" \in overtaken[w]
    BY WipeStep
  <1> QED
    BY <1>1, InHand, PTL DEF Spec, DeletionIsWhole

\* A ban in force ends only by an admin's hand or with its group; the handler
\* that forgets a lapsed ban meets a renewed one only if another process has
\* written it between the handler's SELECT and its DELETE.
THEOREM BansStanding == Spec => BansStand
  <1> DEFINE Ended(u) ==
          \E w \in Workers :
              /\ task'[w] # task[w]
              /\ \/ task[w].op = "unban" /\ task[w].who = u
                 \/ task[w].op = "forget" /\ task[w].by = u /\ "bans" \in overtaken[w]
  <1>1. ASSUME TypeOK, HandInv, [Next]_vars,
               NEW u \in Users, bans[u] = "standing", bans'[u] = "none"
        PROVE  group' = "gone" \/ Ended(u)
    <2>1. \E w \in Workers : BanRow(w) \/ UnbanRow(w) \/ ForgetBan(w) \/ WipeGroup(w)
      <3>1. bans' # bans
        BY <1>1
      <3>2. \A v \in Users : ~Lapse(v)
        BY <1>1 DEF Lapse, TypeOK
      <3>3. \A w \in Workers : ~Requests(w)
        BY <1>1, <3>1, RequestShape DEF Started
      <3> QED
        BY <1>1, <3>1, <3>2, <3>3
        DEF Next, Steps, CreateOwner, Enter, SetRole, BanMember, Audit, PostInsert, PinInsert,
            InviteDelete, InviteInsert, WipeMessages, WipeInvites, WipeMembers, Crash,
            tables, vars
    <2>2. ASSUME NEW w \in Workers, BanRow(w) PROVE FALSE
      BY <1>1, <2>2 DEF BanRow, TypeOK
    <2>3. ASSUME NEW w \in Workers, UnbanRow(w) PROVE Ended(u)
      <3>1. task[w].who = u
        BY <1>1, <2>3 DEF UnbanRow, TypeOK
      <3>2. task'[w].op = "unbanAudit"
        BY <1>1, <2>3, ThenTask DEF UnbanRow, Targeted
      <3> QED
        BY <2>3, <3>1, <3>2 DEF UnbanRow
    <2>4. ASSUME NEW w \in Workers, ForgetBan(w) PROVE Ended(u)
      <3>1. task[w].by = u
        BY <1>1, <2>4 DEF ForgetBan, TypeOK
      <3>2. task'[w].op = "post"
        BY <1>1, <2>4, ThenTask DEF ForgetBan, Single
      <3>3. "bans" \in overtaken[w]
        BY <1>1, <2>4, <3>1 DEF ForgetBan, HandInv, Current
      <3> QED
        BY <2>4, <3>1, <3>2, <3>3 DEF ForgetBan
    <2>5. ASSUME NEW w \in Workers, WipeGroup(w) PROVE group' = "gone"
      BY <1>1, <2>5 DEF WipeGroup
    <2> QED
      BY <2>1, <2>2, <2>3, <2>4, <2>5
  <1>2. TypeOK /\ HandInv /\ [Next]_vars =>
            \A u \in Users : bans[u] = "standing" /\ bans'[u] = "none" =>
                \/ group' = "gone"
                \/ \E w \in Workers :
                      /\ task'[w] # task[w]
                      /\ \/ task[w].op = "unban" /\ task[w].who = u
                         \/ task[w].op = "forget" /\ task[w].by = u /\ "bans" \in overtaken[w]
    BY <1>1
  <1> QED
    BY <1>2, InHand, PTL DEF Spec, BansStand

-----------------------------------------------------------------------------
(* The tables implement GroupRoles.                                        *)

\* A statement that changes a role is an act of somebody entitled to it.
LEMMA StepIsRolesStep ==
    ASSUME TypeOK, HandInv, NEW w \in Workers, "members" \notin overtaken[w], Steps(w),
           role' # role
    PROVE  Authority!RolesNext
  <1> DEFINE t == task[w]
  <1> USE DEF Authority!Owner, Authority!Set, Authority!Founded
  <1>1. Entitled(t)
    BY DEF HandInv, Current
  <1>2. /\ t.op \in Targeted => t.by \in Users /\ t.who \in Users
        /\ t.op \in Single => t.by \in Users
    BY TaskShape DEF TypeOK
  <1>3. CASE CreateOwner(w)
    <2>1. Authority!Settle(t.by)
      BY <1>1, <1>3 DEF CreateOwner, Entitled, Member, WithRole, Authority!Settle
    <2> QED
      BY <1>2, <1>3, <2>1 DEF CreateOwner, Targeted, Authority!RolesNext
  <1>4. CASE Enter(w)
    <2> DEFINE u == IF t.op = "join" THEN t.by ELSE t.who
    <2>1. u \in Users
      BY <1>2, <1>4 DEF Enter, Targeted, Single
    <2>2. creator # Nobody
      BY <1>4, NobodyAssumption DEF Enter, ForeignKeyAllows, HandInv, HasCreator
    <2>3. Authority!Admit(u)
      BY <1>4, <2>2 DEF Enter, Member, WithRole, Authority!Admit
    <2> QED
      BY <2>1, <2>3 DEF Authority!RolesNext
  <1>5. CASE SetRole(w)
    <2>1. t.by \in Users /\ t.who \in Users
      BY <1>2, <1>5 DEF SetRole, Targeted
    <2>2. CASE t.op = "remove"
      <3>1. Authority!Leave(t.who) \/ Authority!Expel(t.by, t.who)
        BY <1>1, <1>5, <2>2 DEF SetRole, Entitled, MayRemove, Owner, Admin, WithRole,
           Authority!Leave, Authority!Expel, Authority!Staff
      <3> QED
        BY <2>1, <3>1 DEF Authority!RolesNext
    <2>3. CASE t.op = "promote"
      <3>1. Authority!Promote(t.by, t.who)
        BY <1>1, <1>5, <2>3 DEF SetRole, Entitled, Owner, Member, WithRole, Authority!Promote
      <3> QED
        BY <2>1, <3>1 DEF Authority!RolesNext
    <2>4. CASE t.op = "demote"
      <3>1. Authority!Demote(t.by, t.who)
        BY <1>1, <1>5, <2>4 DEF SetRole, Entitled, Owner, WithRole, Authority!Demote
      <3> QED
        BY <2>1, <3>1 DEF Authority!RolesNext
    <2> QED
      BY <1>5, <2>2, <2>3, <2>4 DEF SetRole
  <1>6. CASE BanMember(w)
    <2>1. Authority!Expel(t.by, t.who)
      BY <1>1, <1>6 DEF BanMember, Entitled, MayBan, Admin, Owner, WithRole,
         Authority!Expel, Authority!Staff
    <2> QED
      BY <1>2, <1>6, <2>1 DEF BanMember, Targeted, Authority!RolesNext
  <1>7. CASE WipeMembers(w)
    <2>1. Authority!Dissolve(t.by)
      BY <1>1, <1>7 DEF WipeMembers, Entitled, Owner, Authority!Dissolve
    <2> QED
      BY <1>2, <1>7, <2>1 DEF WipeMembers, Single, Authority!RolesNext
  <1>8. CASE WipeGroup(w)
    <2>1. role' = role
      BY <1>1, <1>8 DEF WipeGroup, Entitled, Member, TypeOK
    <2> QED
      BY <2>1
  <1> QED
    BY <1>3, <1>4, <1>5, <1>6, <1>7, <1>8
    DEF Steps, BanRow, UnbanRow, Audit, ForgetBan, PostInsert, PinInsert, InviteDelete,
        InviteInsert, WipeMessages, WipeInvites

\* Every change of the members is made by somebody entitled to it at that
\* moment: a lookup that precedes it has gone stale only if members have come,
\* gone or changed roles through another process in between.
THEOREM ImplementsRoles == Spec => ImplementsGroupRoles
  <1>1. Init => Authority!RolesInit
    BY DEF Init, Authority!RolesInit
  <1>2. ASSUME TypeOK, OwnerInv, HandInv, [Next]_vars,
               NEW w \in Workers, task'[w] # task[w], "members" \notin overtaken[w]
        PROVE  Authority!RolesNext \/ UNCHANGED <<creator, role>>
    <2>1. ASSUME NEW x \in Workers, Requests(x)
          PROVE  Authority!RolesNext \/ UNCHANGED <<creator, role>>
      <3>1. PICK t \in Tasks : Started(x, t)
        BY <1>2, <2>1, RequestShape
      <3>2. CASE Opens(t)
        <4>1. creator' \in Users /\ creator = Nobody /\ role' = role
          BY <1>2, <3>1, <3>2 DEF Opens, Started, HandInv, HasCreator
        <4>2. Authority!Found(creator')
          BY <4>1 DEF Authority!Found, Authority!Founded
        <4> QED
          BY <4>1, <4>2 DEF Authority!RolesNext
      <3> QED
        BY <3>1, <3>2 DEF Started, Asks
    <2>2. ASSUME NEW x \in Workers, Steps(x)
          PROVE  Authority!RolesNext \/ UNCHANGED <<creator, role>>
      <3>1. x = w /\ creator' = creator
        BY <1>2, <2>2, StepTasks
      <3> QED
        BY <1>2, <2>2, <3>1, StepIsRolesStep
    <2>3. ASSUME NEW x \in Workers, Crash(x) PROVE UNCHANGED <<creator, role>>
      BY <2>3 DEF Crash, tables
    <2> QED
      BY <1>2, <2>1, <2>2, <2>3 DEF Next, Lapse, vars
  <1>3. TypeOK /\ OwnerInv /\ HandInv /\ [Next]_vars =>
            \A w \in Workers :
                task'[w] # task[w] /\ "members" \notin overtaken[w] =>
                    Authority!RolesNext \/ UNCHANGED <<creator, role>>
    BY <1>2
  <1> QED
    BY <1>1, <1>3, InHand, PTL DEF Spec, ImplementsGroupRoles

\* With a single API process no handler is ever overtaken, so that the theorems
\* above hold without their exceptions.
THEOREM AloneNotOvertaken ==
    ASSUME \A v, w \in Workers : v = w
    PROVE  Spec => [](\A w \in Workers : overtaken[w] = {})
  <1> DEFINE Alone == \A w \in Workers : overtaken[w] = {}
  <1>1. Init => Alone
    BY DEF Init
  <1>2. Alone /\ [Next]_vars => Alone'
    <2>1. ASSUME Alone, NEW w \in Workers, Overtake(w) PROVE Alone'
      <3>1. \A x \in Workers : x = w
        OBVIOUS
      <3> QED
        BY <2>1, <3>1 DEF Overtake
    <2> QED
      BY <2>1 DEF Next, vars
  <1> QED
    BY <1>1, <1>2, PTL DEF Spec

=============================================================================
