------------------------------ MODULE Channels ------------------------------
(***************************************************************************)
(* Who belongs to one channel and who may run it: routes/channels.js        *)
(* without its posts, and channelRole, canManageChannel, isChannelBanned of *)
(* utils/permissions.js.                                                    *)
(*                                                                         *)
(* Every handler reads first (the guard of its action) and then runs a      *)
(* fixed list of statements, which commit one by one; the other workers of  *)
(* the cluster run theirs in between.  The audit log is left out: logChannel*)
(* swallows every error and no handler reads it to decide anything.         *)
(***************************************************************************)
EXTENDS Sequences, FiniteSets, Naturals

CONSTANTS
    Workers,      \* API processes
    Users,
    Nobody,       \* no user
    Grants,       \* sets of rights a promotion may ask for
    MaxHandlers,  \* bound: requests ever served
    MaxCrashes    \* bound: workers killed

\* "content" stands for can_post, can_edit and can_delete, "people" for
\* can_manage_subscribers.
Rights == {"content", "people", "admins", "settings"}
NoRow == {"no row"}

ASSUME NobodyAssumption == Nobody \notin Users
ASSUME GrantAssumption == Grants \subseteq SUBSET Rights
ASSUME BoundAssumption == {MaxHandlers, MaxCrashes} \subseteq Nat

VARIABLES
    status,    \* row of channels: "none", its visibility, or "gone" (is_deleted)
    owner,     \* channels.owner_id
    subs,      \* table channel_subscriptions
    admins,    \* table channel_admins
    rights,    \* table channel_admin_rights: a set of rights, or NoRow
    bans,      \* table channel_bans: "none", "standing", "lapsed"
    requests,  \* table channel_join_requests: "none" or the status
    linked,    \* is there a row in channel_invites?
    task,      \* task[w]: the statements worker w still has to run
    granted,   \* history: granted[u], the rights last asked for u
    admitted,  \* history: who was subscribed since he last asked to be
    raced,     \* history: have two handlers ever overlapped?
    served,    \* number of requests served so far
    crashes    \* number of workers killed so far

tables == <<status, owner, subs, admins, rights, bans, requests, linked>>
history == <<granted, admitted, raced, served, crashes>>
vars == <<tables, task, history>>

-----------------------------------------------------------------------------

Statements ==
    {"insertSub", "deleteSub", "insertAdmin", "deleteAdmin", "putRights", "deleteRights",
     "putBan", "deleteBan", "putRequest", "approve", "decline", "insertLink",
     "makePublic", "makePrivate", "markGone"}

Idle == [by |-> Nobody, who |-> Nobody, grant |-> {}, todo |-> <<>>]

TypeOK ==
    /\ status \in {"none", "public", "private", "gone"}
    /\ owner \in Users \cup {Nobody}
    /\ subs \subseteq Users
    /\ admins \subseteq Users
    /\ rights \in [Users -> (SUBSET Rights) \cup {NoRow}]
    /\ bans \in [Users -> {"none", "standing", "lapsed"}]
    /\ requests \in [Users -> {"none", "pending", "approved", "declined"}]
    /\ linked \in BOOLEAN
    /\ task \in [Workers -> [by: Users \cup {Nobody}, who: Users \cup {Nobody},
                             grant: SUBSET Rights, todo: Seq(Statements)]]
    /\ \A w \in Workers : task[w].todo # <<>> => {task[w].by, task[w].who} \subseteq Users
    /\ granted \in [Users -> SUBSET Rights]
    /\ admitted \subseteq Users
    /\ raced \in BOOLEAN
    /\ served \in 0..MaxHandlers
    /\ crashes \in 0..MaxCrashes

Init ==
    /\ status = "none"
    /\ owner = Nobody
    /\ subs = {}
    /\ admins = {}
    /\ rights = [u \in Users |-> NoRow]
    /\ bans = [u \in Users |-> "none"]
    /\ requests = [u \in Users |-> "none"]
    /\ linked = FALSE
    /\ task = [w \in Workers |-> Idle]
    /\ granted = [u \in Users |-> {}]
    /\ admitted = {}
    /\ raced = FALSE
    /\ served = 0
    /\ crashes = 0

-----------------------------------------------------------------------------
(* What the handlers read before they write.                               *)

Ready(w) == task[w] = Idle
Live == status \in {"public", "private"}

\* isChannelAdmin and canManageChannel: channelRole looks at owner_id first, so
\* the role in the owner's own row of channel_admins does not matter.
IsAdmin(u) == Live /\ (u = owner \/ u \in admins)
Held(u) == IF rights[u] = NoRow THEN {"content"} ELSE rights[u]
Can(u, right) == IsAdmin(u) /\ (u = owner \/ right \in Held(u))

\* "Cannot remove / ban / demote the owner", "the owner cannot unsubscribe".
Dismissable_Anyone(u) == TRUE
Dismissable(u) == u # owner

\* isChannelBanned compares banned_until with the clock and deletes the row of
\* a ban that is over, before the handler runs its own statement s.
Banned_Never(u) == FALSE
Banned(u) == bans[u] = "standing"
AfterBan(u, s) == IF bans[u] = "lapsed" THEN <<"deleteBan", s>> ELSE <<s>>

-----------------------------------------------------------------------------
(* The statements of each handler, in their order.                         *)

Founding == <<"insertSub", "insertAdmin", "putRights">>
Leaving == <<"deleteSub", "deleteAdmin">>
Promotion == <<"insertSub", "insertAdmin", "putRights">>
Demotion == <<"deleteAdmin", "deleteRights">>
Removal == <<"deleteSub", "deleteAdmin", "deleteRights">>
Banning == <<"putBan", "deleteSub">>
Approval_StatusOnly == <<"approve">>
Approval == <<"approve", "insertSub">>

\* Worker w takes the request of user a about user u.
Take(w, a, u, grant, statements) ==
    /\ served' = served + 1
    /\ task' = [task EXCEPT ![w] = [by |-> a, who |-> u, grant |-> grant, todo |-> statements]]
    /\ raced' = (raced \/ \E x \in Workers \ {w} : ~Ready(x))
    /\ UNCHANGED <<admitted, crashes>>

Begin(w, a, u, statements) ==
    Take(w, a, u, {}, statements) /\ UNCHANGED <<tables, granted>>

\* POST /: the row of channels is the first of its statements.
Create(w, u, visibility) ==
    /\ status = "none"
    /\ Take(w, u, u, Rights, Founding)
    /\ status' = visibility
    /\ owner' = u
    /\ UNCHANGED <<subs, admins, rights, bans, requests, linked, granted>>

Subscribe(w, u) ==
    /\ Live /\ ~Banned(u)
    /\ Begin(w, u, u, AfterBan(u, IF status = "private" THEN "putRequest" ELSE "insertSub"))

Join(w, u) ==
    /\ Live /\ linked /\ ~Banned(u)
    /\ Begin(w, u, u, AfterBan(u, "insertSub"))

Unsubscribe(w, u) == Live /\ Dismissable(u) /\ Begin(w, u, u, Leaving)

\* POST /:id/admins/:userId takes any user, the owner and the banned included.
Promote(w, a, u, grant) ==
    /\ Can(a, "admins")
    /\ Take(w, a, u, grant, Promotion)
    /\ granted' = [granted EXCEPT ![u] = grant]
    /\ UNCHANGED tables

Demote(w, a, u) == Can(a, "admins") /\ Dismissable(u) /\ Begin(w, a, u, Demotion)
Remove(w, a, u) == Can(a, "people") /\ Dismissable(u) /\ Begin(w, a, u, Removal)
Ban(w, a, u) == Can(a, "people") /\ Dismissable(u) /\ Begin(w, a, u, Banning)
Unban(w, a, u) == Can(a, "people") /\ Begin(w, a, u, <<"deleteBan">>)
Approve(w, a, u) == Can(a, "people") /\ Begin(w, a, u, Approval)
Decline(w, a, u) == Can(a, "people") /\ Begin(w, a, u, <<"decline">>)
Invite(w, a) == IsAdmin(a) /\ Begin(w, a, a, <<"insertLink">>)
SetVisibility(w, a, v) ==
    Can(a, "settings") /\ Begin(w, a, a, IF v = "public" THEN <<"makePublic">>
                                                          ELSE <<"makePrivate">>)
Delete(w, a) == Live /\ a = owner /\ Begin(w, a, a, <<"markGone">>)

-----------------------------------------------------------------------------
(* The statements.                                                         *)

\* Worker w runs the statement s, the next of its handler.
Run(w, s) ==
    LET rest == Tail(task[w].todo) IN
    /\ task[w].todo # <<>>
    /\ Head(task[w].todo) = s
    /\ task' = [task EXCEPT ![w] = IF rest = <<>> THEN Idle
                                   ELSE [task[w] EXCEPT !.todo = rest]]
    /\ UNCHANGED <<granted, raced, served, crashes>>

InsertSub(w) ==
    /\ Run(w, "insertSub")
    /\ subs' = subs \cup {task[w].who}
    /\ admitted' = admitted \cup {task[w].who}
    /\ UNCHANGED <<status, owner, admins, rights, bans, requests, linked>>

DeleteSub(w) ==
    /\ Run(w, "deleteSub")
    /\ subs' = subs \ {task[w].who}
    /\ UNCHANGED <<status, owner, admins, rights, bans, requests, linked, admitted>>

SetAdmin(w) ==
    /\ \/ Run(w, "insertAdmin") /\ admins' = admins \cup {task[w].who}
       \/ Run(w, "deleteAdmin") /\ admins' = admins \ {task[w].who}
    /\ UNCHANGED <<status, owner, subs, rights, bans, requests, linked, admitted>>

\* INSERT OR REPLACE: a row left behind by Leaving does not survive.
RightsPut_OrIgnore(u, grant) ==
    [rights EXCEPT ![u] = IF @ = NoRow THEN grant ELSE @]
RightsPut(u, grant) == [rights EXCEPT ![u] = grant]
SetRights(w) ==
    /\ \/ Run(w, "putRights") /\ rights' = RightsPut(task[w].who, task[w].grant)
       \/ Run(w, "deleteRights") /\ rights' = [rights EXCEPT ![task[w].who] = NoRow]
    /\ UNCHANGED <<status, owner, subs, admins, bans, requests, linked, admitted>>

SetBan(w) ==
    /\ \/ Run(w, "putBan") /\ bans' = [bans EXCEPT ![task[w].who] = "standing"]
       \/ Run(w, "deleteBan") /\ bans' = [bans EXCEPT ![task[w].who] = "none"]
    /\ UNCHANGED <<status, owner, subs, admins, rights, requests, linked, admitted>>

PutRequest(w) ==
    /\ Run(w, "putRequest")
    /\ requests' = [requests EXCEPT ![task[w].who] = "pending"]
    /\ admitted' = admitted \ {task[w].who}
    /\ UNCHANGED <<status, owner, subs, admins, rights, bans, linked>>

\* UPDATE channel_join_requests, which may find no row.
Answered(u, s) == [requests EXCEPT ![u] = IF @ = "none" THEN @ ELSE s]
AnswerRequest(w) ==
    /\ \/ Run(w, "approve") /\ requests' = Answered(task[w].who, "approved")
       \/ Run(w, "decline") /\ requests' = Answered(task[w].who, "declined")
    /\ UNCHANGED <<status, owner, subs, admins, rights, bans, linked, admitted>>

InsertLink(w) ==
    /\ Run(w, "insertLink")
    /\ linked' = TRUE
    /\ UNCHANGED <<status, owner, subs, admins, rights, bans, requests, admitted>>

\* The UPDATE of PATCH sets the visibility also of a channel deleted meanwhile,
\* where nothing looks at it any more.
SetStatus(w) ==
    /\ \/ Run(w, "makePublic") /\ status' = (IF Live THEN "public" ELSE status)
       \/ Run(w, "makePrivate") /\ status' = (IF Live THEN "private" ELSE status)
       \/ Run(w, "markGone") /\ status' = "gone"
    /\ UNCHANGED <<owner, subs, admins, rights, bans, requests, linked, admitted>>

-----------------------------------------------------------------------------

\* The clock passes banned_until.
Lapse(u) ==
    /\ bans[u] = "standing"
    /\ bans' = [bans EXCEPT ![u] = "lapsed"]
    /\ UNCHANGED <<status, owner, subs, admins, rights, requests, linked, task, history>>

\* A worker is killed in the middle of a handler.
Crash(w) ==
    /\ ~Ready(w)
    /\ crashes < MaxCrashes
    /\ crashes' = crashes + 1
    /\ task' = [task EXCEPT ![w] = Idle]
    /\ UNCHANGED <<tables, granted, admitted, raced, served>>

\* Only a worker that is in no handler takes a request.
Requests(w) ==
    /\ Ready(w)
    /\ served < MaxHandlers
    /\ \/ \E u \in Users : \/ Subscribe(w, u) \/ Join(w, u) \/ Unsubscribe(w, u)
                           \/ Invite(w, u) \/ Delete(w, u)
       \/ \E u \in Users, v \in {"public", "private"} : Create(w, u, v) \/ SetVisibility(w, u, v)
       \/ \E a, u \in Users : \/ Demote(w, a, u) \/ Remove(w, a, u) \/ Ban(w, a, u)
                              \/ Unban(w, a, u) \/ Approve(w, a, u) \/ Decline(w, a, u)
       \/ \E a, u \in Users, g \in Grants : Promote(w, a, u, g)

Steps(w) ==
    \/ InsertSub(w) \/ DeleteSub(w) \/ SetAdmin(w) \/ SetRights(w) \/ SetBan(w)
    \/ PutRequest(w) \/ AnswerRequest(w) \/ InsertLink(w) \/ SetStatus(w)

Next ==
    \/ \E w \in Workers : Requests(w) \/ Steps(w) \/ Crash(w)
    \/ \E u \in Users : Lapse(u)

Spec == Init /\ [][Next]_vars

-----------------------------------------------------------------------------
(* Properties.                                                             *)

Pending(w, s) == \E i \in DOMAIN task[w].todo : task[w].todo[i] = s

\* No sequence of requests, of whatever admins through whatever workers, puts
\* the owner out of his channel or bans him ("the owner cannot be removed",
\* "... banned", "... unsubscribe"), once he has been seated.
OwnerKeepsSeat ==
    [][/\ owner \in subs => owner \in subs'
       /\ owner \in admins => owner \in admins'
       /\ owner \in Users => bans'[owner] = "none"]_vars

\* A channel has its owner among its subscribers and administrators, unless
\* the worker is killed between the statements of its creation.
OwnerIsSeated ==
    crashes = 0 /\ owner # Nobody
      /\ (\A w \in Workers : task[w].who = owner => ~Pending(w, "insertAdmin"))
    => owner \in subs \cap admins

\* An approved request has let its author in: at the latest the handler that
\* approved it is about to.
ApprovedIsAdmitted ==
    crashes = 0 => \A u \in Users : requests[u] = "approved" =>
        \/ u \in admitted
        \/ \E w \in Workers : task[w].who = u /\ Pending(w, "insertSub")

\* As long as handlers do not overlap, an administrator has exactly the rights
\* his last promotion asked for; those of an earlier term, whose row stays when
\* he leaves by himself, never come back.
RightsAreAsGranted ==
    crashes = 0 /\ ~raced /\ (\A w \in Workers : Ready(w)) =>
        \A u \in admins \ {owner} : Held(u) = granted[u]

\* As long as handlers do not overlap, nobody enters a deleted channel, and
\* nobody enters by himself while he is banned or while the channel is private
\* and has no invite link; the staff lets in whom it likes.
LawfulEntry ==
    [][~raced => \A u \in subs' \ subs :
           /\ Live
           /\ \/ \E w \in Workers : task[w].who = u /\ Pending(w, "insertSub")
                   /\ \/ task[w].by # u
                      \/ Can(u, "admins") \/ Can(u, "people")
              \/ bans[u] # "standing" /\ (status = "public" \/ linked)]_vars

=============================================================================
