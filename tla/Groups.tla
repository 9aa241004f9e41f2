------------------------------- MODULE Groups -------------------------------
(***************************************************************************)
(* The life of one group: routes/groups.js, group:message:send of           *)
(* sockets/index.js and the isGroup... helpers of utils/permissions.js.     *)
(*                                                                         *)
(* The handlers are synchronous, none uses db.transaction: each is a few    *)
(* SELECTs, taken together as the first action, and then statements that    *)
(* commit one by one, while the other workers of the cluster go on.         *)
(***************************************************************************)
EXTENDS Integers, FiniteSets

CONSTANTS
    Workers,      \* API processes
    Users,
    Nobody,       \* no user
    MaxMessages,  \* bound: rows ever inserted into group_messages
    MaxInvites,   \* bound: rows ever inserted into group_invites
    MaxRequests,  \* bound: requests ever served
    MaxCrashes    \* bound: workers killed

ASSUME NobodyAssumption == Nobody \notin Users
ASSUME BoundAssumption == {MaxMessages, MaxInvites, MaxRequests, MaxCrashes} \subseteq Nat

MsgIds == 1..MaxMessages
Tokens == 1..MaxInvites
Roles == {"none", "member", "admin", "owner"}
Watched == {"members", "bans", "messages", "invites"}

VARIABLES
    group,      \* the row of groups: "none", "live" or "gone"
    creator,    \* groups.owner_id
    role,       \* table group_members; "none" is no row
    bans,       \* table group_bans: "none", "standing", "lapsed"
    sender,     \* table group_messages: sender[m], or Nobody
    pins,       \* table group_pins: message ids
    invites,    \* table group_invites: tokens
    audit,      \* table group_audit_log: <<action, target>>
    nextMsg,    \* AUTOINCREMENT of group_messages
    nextToken,  \* the next random token
    task,       \* task[w]: the handler worker w is in the middle of
    overtaken,  \* history: overtaken[w], the tables that other workers have
                \* changed since worker w took the request it is serving
    served,     \* number of requests served so far
    crashes     \* number of workers killed so far

tables == <<group, creator, role, bans, sender, pins, invites, audit, nextMsg, nextToken>>
vars == <<tables, task, overtaken, served, crashes>>

-----------------------------------------------------------------------------

Idle == [op |-> "idle"]
Targeted == {"create", "add", "remove", "promote", "demote", "banRow", "banMember",
             "banAudit", "unban", "unbanAudit"}
Single == {"join", "forget", "post", "inviteDelete", "inviteInsert",
           "wipeMessages", "wipeInvites", "wipeMembers", "wipeGroup"}

Tasks == {Idle}
    \cup [op: Targeted, by: Users, who: Users]
    \cup [op: Single, by: Users]
    \cup [op: {"pin"}, by: Users, msg: MsgIds]

TypeOK ==
    /\ group \in {"none", "live", "gone"}
    /\ creator \in Users \cup {Nobody}
    /\ role \in [Users -> Roles]
    /\ bans \in [Users -> {"none", "standing", "lapsed"}]
    /\ sender \in [MsgIds -> Users \cup {Nobody}]
    /\ pins \subseteq MsgIds
    /\ invites \subseteq Tokens
    /\ audit \subseteq {"member.banned", "member.unbanned"} \X Users
    /\ nextMsg \in 1..MaxMessages + 1
    /\ nextToken \in 1..MaxInvites + 1
    /\ task \in [Workers -> Tasks]
    /\ overtaken \in [Workers -> SUBSET Watched]
    /\ served \in 0..MaxRequests
    /\ crashes \in 0..MaxCrashes

Init ==
    /\ group = "none"
    /\ creator = Nobody
    /\ role = [u \in Users |-> "none"]
    /\ bans = [u \in Users |-> "none"]
    /\ sender = [m \in MsgIds |-> Nobody]
    /\ pins = {}
    /\ invites = {}
    /\ audit = {}
    /\ nextMsg = 1
    /\ nextToken = 1
    /\ task = [w \in Workers |-> Idle]
    /\ overtaken = [w \in Workers |-> {}]
    /\ served = 0
    /\ crashes = 0

-----------------------------------------------------------------------------

Member(u) == role[u] # "none"
Admin(u) == role[u] \in {"admin", "owner"}
Owner(u) == role[u] = "owner"
Stored == {m \in MsgIds : sender[m] # Nobody}

\* A row that refers to the group is refused once the group is gone.
ForeignKeyAllows == group = "live"

\* The DELETE of the group cascades to every table but group_messages.
GroupDeletable == Stored = {}
BansCascaded == [u \in Users |-> "none"]

\* The tests of the two handlers that put a member out.
MayRemove_OnlyStaff(a, u) == a = u \/ Admin(a)
MayRemove(a, u) ==
    /\ a = u \/ Admin(a)
    /\ ~Owner(u)
    /\ a # u /\ Admin(u) => Owner(a)
MayBan(a, u) == Admin(a) /\ ~Owner(u)

\* isGroupBanned compares banned_until with the clock.
Banned_Never(u) == FALSE
Banned(u) == bans[u] = "standing"
HasLapsed(u) == bans[u] # "none" /\ ~Banned(u)

\* What the UPDATEs, INSERTs and DELETEs of group_members and group_invites do.
WithRole(u, r) == [role EXCEPT ![u] = r]
MessagesWiped_Soft == sender
MessagesWiped == [m \in MsgIds |-> Nobody]
Revoked_Kept == invites
Revoked == {}

Ready(w) == task[w] = Idle
Goto(w, t) == task' = [task EXCEPT ![w] = t]
Then(w, op) == task' = [task EXCEPT ![w].op = op]
Finish(w) == Goto(w, Idle)

\* The SELECTs of a handler: the task is all that changes.
Begin(w, t) ==
    /\ Goto(w, t)
    /\ UNCHANGED <<tables, crashes>>

-----------------------------------------------------------------------------
(* POST /: the row of the group, then the row of its owner.                *)

Create(w, u) ==
    /\ group = "none"
    /\ group' = "live"
    /\ creator' = u
    /\ Goto(w, [op |-> "create", by |-> u, who |-> u])
    /\ UNCHANGED <<role, bans, sender, pins, invites, audit, nextMsg, nextToken, crashes>>

CreateOwner(w) ==
    /\ task[w].op = "create"
    /\ role' = WithRole(task[w].by, "owner")
    /\ Finish(w)
    /\ UNCHANGED <<group, creator, bans, sender, pins, invites, audit, nextMsg, nextToken,
                   crashes>>

-----------------------------------------------------------------------------
(* Members come and go.                                                    *)

Targeting(op, a, u) == [op |-> op, by |-> a, who |-> u]

\* POST /:id/members does not look at group_bans, GET /join/:token neither.
Add(w, a, u) ==
    Admin(a) /\ ~Member(u) /\ group = "live" /\ Begin(w, Targeting("add", a, u))
Join(w, u) ==
    invites # {} /\ group = "live" /\ ~Member(u) /\ Begin(w, [op |-> "join", by |-> u])

\* The INSERT: the primary key refuses who has become a member meanwhile, the
\* foreign key a group that is gone.
Enter(w) ==
    LET u == IF task[w].op = "join" THEN task[w].by ELSE task[w].who IN
    /\ task[w].op \in {"add", "join"}
    /\ role' = IF ForeignKeyAllows /\ ~Member(u) THEN WithRole(u, "member") ELSE role
    /\ Finish(w)
    /\ UNCHANGED <<group, creator, bans, sender, pins, invites, audit, nextMsg, nextToken,
                   crashes>>

Remove(w, a, u) ==
    group = "live" /\ MayRemove(a, u) /\ Begin(w, Targeting("remove", a, u))
Promote(w, o, u) == Owner(o) /\ Member(u) /\ Begin(w, Targeting("promote", o, u))
Demote(w, o, u) == Owner(o) /\ role[u] = "admin" /\ Begin(w, Targeting("demote", o, u))

\* The DELETE or the UPDATE, which finds no row if the member has left.
SetRole(w) ==
    LET u == task[w].who IN
    /\ task[w].op \in {"remove", "promote", "demote"}
    /\ role' = IF ~Member(u) THEN role
               ELSE WithRole(u, CASE task[w].op = "remove" -> "none"
                                  [] task[w].op = "promote" -> "admin"
                                  [] task[w].op = "demote" -> "member")
    /\ Finish(w)
    /\ UNCHANGED <<group, creator, bans, sender, pins, invites, audit, nextMsg, nextToken,
                   crashes>>

-----------------------------------------------------------------------------
(* Bans: a row of group_bans, the membership, a row of the audit log.      *)

Ban(w, a, u) == MayBan(a, u) /\ Begin(w, Targeting("banRow", a, u))

BanRow(w) ==
    LET u == task[w].who IN
    /\ task[w].op = "banRow"
    /\ IF ForeignKeyAllows
         THEN bans' = [bans EXCEPT ![u] = "standing"] /\ Then(w, "banMember")
         ELSE Finish(w) /\ UNCHANGED bans
    /\ UNCHANGED <<group, creator, role, sender, pins, invites, audit, nextMsg, nextToken,
                   crashes>>

BanMember(w) ==
    /\ task[w].op = "banMember"
    /\ role' = WithRole(task[w].who, "none")
    /\ Then(w, "banAudit")
    /\ UNCHANGED <<group, creator, bans, sender, pins, invites, audit, nextMsg, nextToken,
                   crashes>>

Unban(w, a, u) == Admin(a) /\ Begin(w, Targeting("unban", a, u))

UnbanRow(w) ==
    /\ task[w].op = "unban"
    /\ bans' = [bans EXCEPT ![task[w].who] = "none"]
    /\ Then(w, "unbanAudit")
    /\ UNCHANGED <<group, creator, role, sender, pins, invites, audit, nextMsg, nextToken,
                   crashes>>

\* The INSERT into group_audit_log that ends a ban or its removal.
AuditEntry_Unlogged(t) == {}
AuditEntry(t) ==
    {<<IF t.op = "banAudit" THEN "member.banned" ELSE "member.unbanned", t.who>>}
Audit(w) ==
    /\ task[w].op \in {"banAudit", "unbanAudit"}
    /\ audit' = IF ForeignKeyAllows THEN audit \cup AuditEntry(task[w]) ELSE audit
    /\ Finish(w)
    /\ UNCHANGED <<group, creator, role, bans, sender, pins, invites, nextMsg, nextToken,
                   crashes>>

\* The clock passes banned_until.
Lapse(u) ==
    /\ bans[u] = "standing"
    /\ bans' = [bans EXCEPT ![u] = "lapsed"]
    /\ UNCHANGED <<group, creator, role, sender, pins, invites, audit, nextMsg, nextToken,
                   task, crashes>>

-----------------------------------------------------------------------------
(* Messages, pins and invite links.                                        *)

\* POST /:id/messages asks for membership only.
Post(w, u) == Member(u) /\ nextMsg <= MaxMessages /\ Begin(w, [op |-> "post", by |-> u])

\* group:message:send asks for a ban too (nothing ever writes group_mutes, so
\* isGroupMuted is always false).
PostBySocket(w, u) ==
    /\ Member(u)
    /\ nextMsg <= MaxMessages
    /\ ~Banned(u)
    /\ Begin(w, [op |-> IF HasLapsed(u) THEN "forget" ELSE "post", by |-> u])

\* isGroupBanned found a ban whose time is over: DELETE FROM group_bans.
ForgetBan(w) ==
    /\ task[w].op = "forget"
    /\ bans' = [bans EXCEPT ![task[w].by] = "none"]
    /\ Then(w, "post")
    /\ UNCHANGED <<group, creator, role, sender, pins, invites, audit, nextMsg, nextToken,
                   crashes>>

PostInsert(w) ==
    /\ task[w].op = "post"
    /\ nextMsg <= MaxMessages
    /\ IF ForeignKeyAllows
         THEN sender' = [sender EXCEPT ![nextMsg] = task[w].by] /\ nextMsg' = nextMsg + 1
         ELSE UNCHANGED <<sender, nextMsg>>
    /\ Finish(w)
    /\ UNCHANGED <<group, creator, role, bans, pins, invites, audit, nextToken, crashes>>

Pin(w, a, m) ==
    Admin(a) /\ m \in Stored /\ Begin(w, [op |-> "pin", by |-> a, msg |-> m])

PinInsert(w) ==
    /\ task[w].op = "pin"
    /\ pins' = IF task[w].msg \in Stored THEN pins \cup {task[w].msg} ELSE pins
    /\ Finish(w)
    /\ UNCHANGED <<group, creator, role, bans, sender, invites, audit, nextMsg, nextToken,
                   crashes>>

\* POST /:id/invite: DELETE the old link, INSERT a new one.
Invite(w, a) ==
    Admin(a) /\ group = "live" /\ nextToken <= MaxInvites
    /\ Begin(w, [op |-> "inviteDelete", by |-> a])

InviteDelete(w) ==
    /\ task[w].op = "inviteDelete"
    /\ invites' = Revoked
    /\ Then(w, "inviteInsert")
    /\ UNCHANGED <<group, creator, role, bans, sender, pins, audit, nextMsg, nextToken,
                   crashes>>

InviteInsert(w) ==
    /\ task[w].op = "inviteInsert"
    /\ nextToken <= MaxInvites
    /\ IF ForeignKeyAllows
         THEN invites' = invites \cup {nextToken} /\ nextToken' = nextToken + 1
         ELSE UNCHANGED <<invites, nextToken>>
    /\ Finish(w)
    /\ UNCHANGED <<group, creator, role, bans, sender, pins, audit, nextMsg, crashes>>

-----------------------------------------------------------------------------
(* DELETE /:id: messages, invites, members, and then the group itself.     *)

Delete(w, o) ==
    Owner(o) /\ group = "live" /\ Begin(w, [op |-> "wipeMessages", by |-> o])

WipeMessages(w) ==
    /\ task[w].op = "wipeMessages"
    /\ sender' = MessagesWiped
    /\ pins' = {}
    /\ Then(w, "wipeInvites")
    /\ UNCHANGED <<group, creator, role, bans, invites, audit, nextMsg, nextToken, crashes>>

WipeInvites(w) ==
    /\ task[w].op = "wipeInvites"
    /\ invites' = {}
    /\ Then(w, "wipeMembers")
    /\ UNCHANGED <<group, creator, role, bans, sender, pins, audit, nextMsg, nextToken,
                   crashes>>

WipeMembers(w) ==
    /\ task[w].op = "wipeMembers"
    /\ role' = [u \in Users |-> "none"]
    /\ Then(w, "wipeGroup")
    /\ UNCHANGED <<group, creator, bans, sender, pins, invites, audit, nextMsg, nextToken, crashes>>

\* The last DELETE cascades to the other tables; a row of group_messages, whose
\* foreign key does not cascade, makes it fail.
WipeGroup(w) ==
    /\ task[w].op = "wipeGroup"
    /\ IF GroupDeletable
         THEN /\ group' = "gone"
              /\ role' = [u \in Users |-> "none"]
              /\ bans' = BansCascaded
              /\ pins' = {} /\ invites' = {} /\ audit' = {}
         ELSE UNCHANGED <<group, role, bans, pins, invites, audit>>
    /\ Finish(w)
    /\ UNCHANGED <<creator, sender, nextMsg, nextToken, crashes>>

-----------------------------------------------------------------------------

\* A worker is killed in the middle of a handler.
Crash(w) ==
    /\ ~Ready(w)
    /\ crashes < MaxCrashes
    /\ crashes' = crashes + 1
    /\ Finish(w)
    /\ UNCHANGED tables

\* Only a worker that is in no handler takes a request.
Requests(w) ==
    /\ Ready(w)
    /\ served < MaxRequests
    /\ served' = served + 1
    /\ \/ \E u \in Users : \/ Create(w, u) \/ Join(w, u) \/ Post(w, u) \/ PostBySocket(w, u)
                           \/ Invite(w, u) \/ Delete(w, u)
       \/ \E a, u \in Users : \/ Add(w, a, u) \/ Remove(w, a, u) \/ Promote(w, a, u)
                              \/ Demote(w, a, u) \/ Ban(w, a, u) \/ Unban(w, a, u)
       \/ \E a \in Users, m \in MsgIds : Pin(w, a, m)

Steps(w) ==
    \/ CreateOwner(w) \/ Enter(w) \/ SetRole(w)
    \/ BanRow(w) \/ BanMember(w) \/ UnbanRow(w) \/ Audit(w)
    \/ ForgetBan(w) \/ PostInsert(w) \/ PinInsert(w) \/ InviteDelete(w) \/ InviteInsert(w)
    \/ WipeMessages(w) \/ WipeInvites(w) \/ WipeMembers(w) \/ WipeGroup(w)

\* What a step of worker w does to the history: handlers of the others that are
\* under way have looked at tables that are now different.
Changes ==
    {t \in Watched : \/ t = "members" /\ role' # role
                     \/ t = "bans" /\ bans' # bans
                     \/ t = "messages" /\ sender' # sender
                     \/ t = "invites" /\ invites' # invites}
Overtake(w) ==
    overtaken' = [x \in Workers |-> IF task'[x] = Idle THEN {}
                                   ELSE IF x = w THEN overtaken[x]
                                   ELSE overtaken[x] \cup Changes]

Next ==
    \/ \E w \in Workers : Requests(w) /\ Overtake(w)
    \/ \E w \in Workers : (Steps(w) \/ Crash(w)) /\ Overtake(w) /\ UNCHANGED served
    \/ \E u \in Users : Lapse(u) /\ UNCHANGED <<overtaken, served>>

Spec == Init /\ [][Next]_vars

-----------------------------------------------------------------------------
(* Properties.                                                             *)

Busy(ops) == \E w \in Workers : task[w].op \in ops

\* Only the creator of a group is ever its owner.
OwnerIsCreator == \A u \in Users : Owner(u) => u = creator

\* No row outlives its group, and no pin its message, although every handler
\* tests first and writes later.
NoOrphans ==
    /\ group # "live" =>
          /\ Stored = {} /\ pins = {} /\ invites = {} /\ audit = {}
          /\ \A u \in Users : ~Member(u) /\ bans[u] = "none"
    /\ pins \subseteq Stored

\* Every ban in force is in the audit log, once its handler has finished.
BansAreAudited ==
    crashes = 0 => \A u \in Users :
        bans[u] # "none" /\ ~Busy({"banMember", "banAudit"})
            => <<"member.banned", u>> \in audit

\* A ban in force ends only because an admin lifts it or the group is deleted.
\* The handler that forgets a lapsed ban (permissions.js:58) erases one that
\* stands only if another process has written to group_bans between its SELECT
\* and its DELETE, that is, if the ban was renewed in between.
BansStand ==
    [][\A u \in Users : bans[u] = "standing" /\ bans'[u] = "none" =>
           \/ group' = "gone"
           \/ \E w \in Workers :
                 /\ task'[w] # task[w]
                 /\ \/ task[w].op = "unban" /\ task[w].who = u
                    \/ task[w].op = "forget" /\ task[w].by = u /\ "bans" \in overtaken[w]]_vars

\* A regenerated link replaces the old one ("Delete existing invite for this
\* group (regenerate)"): there is never a second one, unless the links have
\* changed in another process since the request to regenerate them was taken
\* (which must have been after its DELETE, since that leaves none).
OneInvite ==
    [][Cardinality(invites') > 1 /\ invites' # invites =>
           \E w \in Workers :
               /\ task'[w] # task[w]
               /\ task[w].op = "inviteInsert" /\ "invites" \in overtaken[w]]_vars

\* Deleting a group deletes "messages, invites, members, then the group itself":
\* if the worker comes as far as the group, the group goes, unless another
\* process has inserted a message since the handler began.
DeletionIsWhole ==
    [][\A w \in Workers :
           task[w].op = "wipeGroup" /\ task'[w] # task[w] =>
               \/ group' = "gone"
               \/ crashes' # crashes
               \/ "messages" \in overtaken[w]]_vars

\* Every change of the members is made by somebody entitled to it at that very
\* moment, although the handler looked up his role in an earlier statement,
\* unless members have come, gone or changed roles through another process in
\* between.
Authority == INSTANCE GroupRoles
ImplementsGroupRoles ==
    /\ Authority!RolesInit
    /\ [][\A w \in Workers :
              task'[w] # task[w] /\ "members" \notin overtaken[w] =>
                  Authority!RolesNext \/ UNCHANGED <<creator, role>>]_vars

=============================================================================
