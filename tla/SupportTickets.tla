--------------------------- MODULE SupportTickets ---------------------------
(***************************************************************************)
(* The support desk: routes/support.js, isNyxAdmin of utils/admin.js, and   *)
(* the deletion of an account (routes/users.js), which closes its tickets.  *)
(*                                                                         *)
(* The handlers are synchronous: SELECTs, taken together as the first       *)
(* action, then statements that commit one by one while the other workers   *)
(* of the cluster go on.  The status of a ticket is never changed in place: *)
(* it is read, computed and written back.  So is the priority, with the     *)
(* same statements; it is left out.  requireAuth asks only for a row of     *)
(* users, which a deleted account keeps.                                    *)
(***************************************************************************)
EXTENDS Integers, Sequences

CONSTANTS
    Workers,      \* API processes
    Users,        \* accounts
    NyxDev,       \* the account with the name ADMIN_USERNAME
    MaxTickets,   \* bound: tickets ever opened
    MaxReplies,   \* bound: handlers that read a ticket in order to write
    MaxFailures   \* bound: handlers cut off by a death or a busy database

ASSUME StaffAssumption == NyxDev \in Users
ASSUME DeskBoundAssumption == {MaxTickets, MaxReplies, MaxFailures} \subseteq Nat

VARIABLES
    deleted,   \* users.deleted_at
    owner,     \* support_tickets.user_id of the tickets opened so far, in order
    status,    \* support_tickets.status
    messages,  \* table support_messages: <<ticket, sender>>
    task,      \* task[w]: the handler worker w is in the middle of
    ruled,     \* history: the status last decided by NyxDev or a deletion
    muddled,   \* history: a status read before a change was written back after it
    replies, failures

deskVars == <<deleted, owner, status, messages, task, ruled, muddled, replies, failures>>

Tickets == 1..MaxTickets
Opened == DOMAIN owner
Allowed == {"open", "pending", "closed"}
Statuses == Allowed \cup {"other"}   \* POST /messages takes any text

Idle == [op |-> "idle"]
Tasks == {Idle}
    \cup [op: {"first"}, ticket: Tickets, by: Users]
    \cup [op: {"message", "update"}, ticket: Tickets, by: Users,
          status: Statuses, ruling: BOOLEAN, stale: BOOLEAN]

DeskTypeOK ==
    /\ deleted \subseteq Users
    /\ \E n \in 0..MaxTickets : /\ owner \in [1..n -> Users]
                                /\ {status, ruled} \subseteq [1..n -> Statuses]
    /\ messages \subseteq Tickets \X Users
    /\ task \in [Workers -> Tasks]
    /\ muddled \subseteq Tickets
    /\ replies \in 0..MaxReplies
    /\ failures \in 0..MaxFailures

DeskInit ==
    /\ deleted = {}
    /\ owner = <<>>
    /\ status = <<>>
    /\ messages = {}
    /\ task = [w \in Workers |-> Idle]
    /\ ruled = <<>>
    /\ muddled = {}
    /\ replies = 0
    /\ failures = 0

-----------------------------------------------------------------------------

Ready(w) == task[w] = Idle

\* A deleted account has lost its name, and NyxDev with it the office.
IsNyxAdmin(u) == u = NyxDev /\ u \notin deleted

CanView(u, t) == owner[t] = u \/ IsNyxAdmin(u)

\* isNyxAdmin(req) ? (body.status || ticket.status) : ticket.status.
Decides_Anyone(u, s) == s # "absent"
Decides(u, s) == IsNyxAdmin(u) /\ s # "absent"

\* The handlers that have read a ticket whose status now changes.
Overtaken(tasks, new) ==
    [w \in Workers |->
        IF tasks[w].op \in {"message", "update"} /\ status[tasks[w].ticket] # new[tasks[w].ticket]
          THEN [tasks[w] EXCEPT !.stale = TRUE] ELSE tasks[w]]

\* POST /tickets: the ticket, ...
Open(w, u) ==
    /\ Ready(w)
    /\ Len(owner) < MaxTickets
    /\ owner' = Append(owner, u)
    /\ status' = Append(status, "open")
    /\ ruled' = Append(ruled, "open")
    /\ task' = [task EXCEPT ![w] = [op |-> "first", ticket |-> Len(owner) + 1, by |-> u]]
    /\ UNCHANGED <<deleted, messages, muddled, replies, failures>>

\* ... and its first message.
FirstMessage(w) ==
    /\ task[w].op = "first"
    /\ messages' = messages \cup {<<task[w].ticket, task[w].by>>}
    /\ task' = [task EXCEPT ![w] = Idle]
    /\ UNCHANGED <<deleted, owner, status, ruled, muddled, replies, failures>>

\* The SELECTs of a handler that will write status s, or back what it has read.
Select(w, op, u, t, s) ==
    /\ Ready(w)
    /\ replies < MaxReplies
    /\ replies' = replies + 1
    /\ task' = [task EXCEPT ![w] =
           [op |-> op, ticket |-> t, by |-> u,
            status |-> IF Decides(u, s) THEN s ELSE status[t],
            ruling |-> IsNyxAdmin(u) /\ s # "absent", stale |-> FALSE]]
    /\ UNCHANGED <<deleted, owner, status, messages, ruled, muddled, failures>>

\* POST /tickets/:id/messages, PATCH /tickets/:id.
Reply(w, u, t, s) == CanView(u, t) /\ Select(w, "message", u, t, s)
Patch(w, u, t, s) == IsNyxAdmin(u) /\ s \notin Statuses \ Allowed /\ Select(w, "update", u, t, s)

InsertMessage(w) ==
    /\ task[w].op = "message"
    /\ messages' = messages \cup {<<task[w].ticket, task[w].by>>}
    /\ task' = [task EXCEPT ![w].op = "update"]
    /\ UNCHANGED <<deleted, owner, status, ruled, muddled, replies, failures>>

\* UPDATE support_tickets SET status = ?, of either handler.
Update(w) ==
    LET t == task[w].ticket IN
    /\ task[w].op = "update"
    /\ status' = [status EXCEPT ![t] = task[w].status]
    /\ task' = Overtaken([task EXCEPT ![w] = Idle], status')
    /\ ruled' = IF task[w].ruling THEN [ruled EXCEPT ![t] = task[w].status] ELSE ruled
    /\ muddled' = CASE task[w].ruling -> muddled \ {t}
                    [] ~task[w].ruling /\ task[w].stale -> muddled \cup {t}
                    [] OTHER -> muddled
    /\ UNCHANGED <<deleted, owner, messages, replies, failures>>

ClosedOf(u) == [t \in Opened |-> IF owner[t] = u THEN "closed" ELSE status[t]]

\* POST /users/me/delete: one transaction.  Its test of deleted_at stands outside;
\* a second deletion would change nothing here.
DeleteAccount(w, u) ==
    /\ Ready(w)
    /\ u \notin deleted
    /\ deleted' = deleted \cup {u}
    /\ status' = ClosedOf(u)
    /\ task' = Overtaken(task, status')
    /\ ruled' = [t \in Opened |-> IF owner[t] = u THEN "closed" ELSE ruled[t]]
    /\ muddled' = {t \in muddled : owner[t] # u}
    /\ UNCHANGED <<owner, messages, replies, failures>>

\* The worker dies, or the next statement waits longer than busy_timeout and throws.
Fail(w) ==
    /\ ~Ready(w)
    /\ failures < MaxFailures
    /\ failures' = failures + 1
    /\ task' = [task EXCEPT ![w] = Idle]
    /\ UNCHANGED <<deleted, owner, status, messages, ruled, muddled, replies>>

DeskNext ==
    \E w \in Workers :
        \/ \E u \in Users :
               \/ Open(w, u) \/ DeleteAccount(w, u)
               \/ \E t \in Opened, s \in Statuses \cup {"absent"} :
                      Reply(w, u, t, s) \/ Patch(w, u, t, s)
        \/ FirstMessage(w) \/ InsertMessage(w) \/ Update(w) \/ Fail(w)

DeskSpec == DeskInit /\ [][DeskNext]_deskVars

-----------------------------------------------------------------------------
(* Properties.                                                             *)

\* A ticket has the status that NyxDev, or the deletion of its owner's account,
\* has given it last ("only for NyxDev", support.js:80): no message, whoever
\* writes it, changes it, and a deleted account's tickets stay closed, except
\* where a handler writes back a status read before a change (support.js:75).
RulingsStand == \A t \in Opened \ muddled : status[t] = ruled[t]

=============================================================================
