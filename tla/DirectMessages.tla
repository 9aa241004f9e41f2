--------------------------- MODULE DirectMessages ---------------------------
(***************************************************************************)
(* One-to-one messages: the socket handlers message:*, reaction:* of        *)
(* sockets/index.js, POST /messages/send, GET /messages/with/:username,     *)
(* the REST reactions and conversations.js.                                 *)
(*                                                                         *)
(* A handler is a sequence of autocommitted statements of one worker; other *)
(* workers of the cluster run theirs in between.  Rooms (user:<id>) live in *)
(* the memory of the worker that holds the socket; emits reach the sockets  *)
(* of the other workers only through the Redis adapter.                     *)
(***************************************************************************)
EXTENDS Integers, FiniteSets

CONSTANTS
    Workers,      \* API processes
    Users,        \* users.id, integers because conversations.js compares them
    Talks,        \* who writes to whom: pairs <<sender, recipient>>
    MaxMessages,  \* bound: rows ever inserted into messages
    Reacting,     \* do clients react to messages?
    Adapter,      \* is the Redis adapter of infra/socketScale.js enabled?
    MaxRestarts   \* bound: SIGTERMs and kills of workers

ASSUME UserAssumption == Users \subseteq Nat \ {0} /\ Talks \subseteq Users \X Users
ASSUME SwitchAssumption == Reacting \in BOOLEAN /\ Adapter \in BOOLEAN
ASSUME BoundAssumption == MaxMessages \in Nat /\ MaxRestarts \in Nat

MsgIds == 1..MaxMessages

VARIABLES
    rooms,      \* rooms[w]: users with a socket on worker w
    stopping,   \* workers whose graceful shutdown has begun
    convs,      \* table conversations: pairs <<user_a_id, user_b_id>>
    messages,   \* table messages
    nextId,     \* AUTOINCREMENT of messages
    reactions,  \* table message_reactions: pairs <<message_id, user_id>>
    task,       \* task[w]: the handler worker w is in the middle of
    fetched,    \* fetched[u]: message ids u has read from the history
    heard,      \* heard[u][m]: the last event u's sockets received about m
    acked,      \* history: messages acknowledged to their sender
    burnAsked,  \* history: messages a participant asked to burn
    restarts    \* number of SIGTERMs and kills so far

rows == <<convs, messages, nextId, reactions>>
clients == <<fetched, heard, acked, burnAsked>>
processes == <<rooms, stopping, restarts>>
vars == <<rows, task, clients, processes>>

-----------------------------------------------------------------------------

Idle == [op |-> "idle"]
NoRow == [from |-> 0, to |-> 0, delivered |-> FALSE, read |-> FALSE]
Row == [from: Users, to: Users, delivered: BOOLEAN, read: BOOLEAN]

Tasks == {Idle}
    \cup [op: {"sendOpen", "sendStore", "historyOpen", "historyRead"}, by: Users, to: Users]
    \cup [op: {"sendEmit", "sendMark", "burnDelete", "burnTell", "react",
               "readUpdate", "readTell"}, by: Users, to: Users, msg: MsgIds]

TypeOK ==
    /\ rooms \in [Workers -> SUBSET Users]
    /\ stopping \subseteq Workers
    /\ convs \subseteq Users \X Users
    /\ messages \in [MsgIds -> Row \cup {NoRow}]
    /\ nextId \in 1..MaxMessages + 1
    /\ reactions \subseteq MsgIds \X Users
    /\ task \in [Workers -> Tasks]
    /\ fetched \in [Users -> SUBSET MsgIds]
    /\ heard \in [Users -> [MsgIds -> {"none", "new", "read", "burned"}]]
    /\ acked \subseteq MsgIds
    /\ burnAsked \subseteq MsgIds
    /\ restarts \in 0..MaxRestarts

Init ==
    /\ rooms = [w \in Workers |-> {}]
    /\ stopping = {}
    /\ convs = {}
    /\ messages = [m \in MsgIds |-> NoRow]
    /\ nextId = 1
    /\ reactions = {}
    /\ task = [w \in Workers |-> Idle]
    /\ fetched = [u \in Users |-> {}]
    /\ heard = [u \in Users |-> [m \in MsgIds |-> "none"]]
    /\ acked = {}
    /\ burnAsked = {}
    /\ restarts = 0

-----------------------------------------------------------------------------

Ready(w) == task[w] = Idle
Goto(w, t) == task' = [task EXCEPT ![w] = t]
Finish(w) == Goto(w, Idle)

\* SELECT * FROM messages WHERE id = ? finds a row.
Stored(m) == messages[m] # NoRow
Participants(m) == {messages[m].from, messages[m].to}
Peer(m, u) == IF messages[m].from = u THEN messages[m].to ELSE messages[m].from

\* getOrCreateConversation stores the pair in ascending order of the ids.
Pair(u, v) == IF u < v THEN <<u, v>> ELSE <<v, u>>

\* io.to(roomFor(u)).emit(...) executed by worker w reaches a socket of u.
Reaches(w, u) == IF Adapter THEN \E x \in Workers : u \in rooms[x] ELSE u \in rooms[w]

\* io.sockets.adapter.rooms.get(roomFor(u)) on worker w is not empty.
InLocalRoom_Never(w, u) == FALSE
InLocalRoom(w, u) == u \in rooms[w]

\* Worker w emits the event e about message m to the users of us.
Hear(w, us, m, e) ==
    heard' = [u \in Users |-> IF u \in us /\ Reaches(w, u)
                                THEN [heard[u] EXCEPT ![m] = e] ELSE heard[u]]

\* The ids a client can name: it sent, received or fetched the message.
Knows(u, m) ==
    \/ heard[u][m] # "none"
    \/ m \in fetched[u]
    \/ m \in acked /\ messages[m].from = u

\* Tables conversations and messages after an INSERT, an UPDATE, a DELETE.
WithConversation_Skipped(c) == convs
WithConversation(c) == convs \cup {c}
Inserted_Lost(row) == messages
Inserted(row) == [messages EXCEPT ![nextId] = row]
Delivered(m) == IF Stored(m) THEN [messages EXCEPT ![m].delivered = TRUE] ELSE messages
Deleted_Soft(m) == messages
Deleted(m) == [messages EXCEPT ![m] = NoRow]

-----------------------------------------------------------------------------
(* Sending (message:send and POST /messages/send run the same statements)   *)
(* and fetching the history.                                               *)

\* The SELECT of getOrCreateConversation, for op "send" or "history".
Begin(w, u, v, withRow, withoutRow) ==
    /\ Ready(w)
    /\ Goto(w, [op |-> IF Pair(u, v) \in convs THEN withRow ELSE withoutRow,
                by |-> u, to |-> v])
    /\ UNCHANGED <<rows, clients, processes>>

Send(w, u, v) == nextId <= MaxMessages /\ Begin(w, u, v, "sendStore", "sendOpen")
History(w, u, v) == Begin(w, u, v, "historyRead", "historyOpen")

\* Its INSERT, which UNIQUE(user_a_id, user_b_id) refuses when another worker
\* was faster; the request is then answered with an error.
OpenConversation(w) ==
    LET c == Pair(task[w].by, task[w].to) IN
    /\ task[w].op \in {"sendOpen", "historyOpen"}
    /\ IF c \in convs
         THEN Goto(w, Idle)
         ELSE Goto(w, [task[w] EXCEPT !.op = IF @ = "sendOpen" THEN "sendStore"
                                                               ELSE "historyRead"])
    /\ convs' = WithConversation(c)
    /\ UNCHANGED <<messages, nextId, reactions, clients, processes>>

\* INSERT INTO messages and the SELECT that reads the row back; a burn between
\* the two would only turn the sender's answer into an error.
SendStore(w) ==
    /\ task[w].op = "sendStore"
    /\ nextId <= MaxMessages
    /\ messages' = Inserted([from |-> task[w].by, to |-> task[w].to,
                             delivered |-> FALSE, read |-> FALSE])
    /\ nextId' = nextId + 1
    /\ Goto(w, [op |-> "sendEmit", by |-> task[w].by, to |-> task[w].to, msg |-> nextId])
    /\ UNCHANGED <<convs, reactions, clients, processes>>

\* The emit, and the look at this worker's own rooms: if the recipient is not
\* in one, the sender gets his acknowledgement at once.
SendEmit(w) ==
    LET t == task[w] IN
    /\ t.op = "sendEmit"
    /\ Hear(w, {t.to}, t.msg, "new")
    /\ IF InLocalRoom(w, t.to)
         THEN Goto(w, [t EXCEPT !.op = "sendMark"]) /\ UNCHANGED acked
         ELSE Goto(w, Idle) /\ acked' = acked \cup {t.msg}
    /\ UNCHANGED <<rows, fetched, burnAsked, processes>>

\* UPDATE messages SET delivered_at, then the acknowledgement.
SendMark(w) ==
    LET m == task[w].msg IN
    /\ task[w].op = "sendMark"
    /\ messages' = Delivered(m)
    /\ acked' = acked \cup {m}
    /\ Goto(w, Idle)
    /\ UNCHANGED <<convs, nextId, reactions, fetched, heard, burnAsked, processes>>

\* GET /messages/with/:username: the SELECT of the conversation's messages.
HistoryRead(w) ==
    LET t == task[w] IN
    /\ t.op = "historyRead"
    /\ fetched' = [fetched EXCEPT ![t.by] =
           @ \cup {m \in MsgIds : Stored(m) /\ Participants(m) = {t.by, t.to}}]
    /\ Goto(w, Idle)
    /\ UNCHANGED <<rows, heard, acked, burnAsked, processes>>

-----------------------------------------------------------------------------
(* Reading, burning, reacting: each starts with a SELECT of the message.    *)

Request(w, u, v, m, op) ==
    /\ Ready(w)
    /\ Knows(u, m)
    /\ Stored(m)
    /\ u \in Participants(m)
    /\ Goto(w, [op |-> op, by |-> u, to |-> v, msg |-> m])
    /\ UNCHANGED <<rows, processes>>

\* message:read.  The handler does not ask who reads: the sender may, too, and
\* only participants know the message.  The sender is the one who is told.
Read(w, u, m) ==
    /\ u \in rooms[w]
    /\ Request(w, u, messages[m].from, m, "readUpdate")
    /\ UNCHANGED clients

ReadUpdate(w) ==
    LET t == task[w] IN
    /\ t.op = "readUpdate"
    /\ messages' = IF Stored(t.msg) THEN [messages EXCEPT ![t.msg].read = TRUE] ELSE messages
    /\ Goto(w, [t EXCEPT !.op = "readTell"])
    /\ UNCHANGED <<convs, nextId, reactions, clients, processes>>

ReadTell(w) ==
    LET t == task[w] IN
    /\ t.op = "readTell"
    /\ Hear(w, {t.to}, t.msg, "read")
    /\ Goto(w, Idle)
    /\ UNCHANGED <<rows, fetched, acked, burnAsked, processes>>

\* message:burn by either participant.
Burn(w, u, m) ==
    /\ u \in rooms[w]
    /\ Request(w, u, Peer(m, u), m, "burnDelete")
    /\ burnAsked' = burnAsked \cup {m}
    /\ UNCHANGED <<fetched, heard, acked>>

\* The DELETE.  A row of message_reactions still refers to the message: the
\* foreign key refuses, nobody catches the exception, and the handler of
\* uncaughtException begins the graceful shutdown of the process.
Referenced_Never(m) == FALSE
Referenced(m) == \E u \in Users : <<m, u>> \in reactions
BurnDelete(w) ==
    LET t == task[w] IN
    /\ t.op = "burnDelete"
    /\ IF Referenced(t.msg)
         THEN Goto(w, Idle) /\ stopping' = stopping \cup {w} /\ UNCHANGED messages
         ELSE /\ Goto(w, [t EXCEPT !.op = "burnTell"])
              /\ messages' = Deleted(t.msg)
              /\ UNCHANGED stopping
    /\ UNCHANGED <<convs, nextId, reactions, clients, rooms, restarts>>

BurnTell(w) ==
    LET t == task[w] IN
    /\ t.op = "burnTell"
    /\ Hear(w, {t.by, t.to}, t.msg, "burned")
    /\ Goto(w, Idle)
    /\ UNCHANGED <<rows, fetched, acked, burnAsked, processes>>

\* reaction:add and POST /reactions.
React(w, u, m) ==
    /\ Reacting
    /\ Request(w, u, Peer(m, u), m, "react")
    /\ UNCHANGED clients

\* INSERT OR IGNORE: OR IGNORE does not cover a foreign key, so a message
\* burned in between makes the statement fail.
ForeignKeyAllows(m) == Stored(m)
ReactInsert(w) ==
    LET t == task[w] IN
    /\ t.op = "react"
    /\ reactions' = IF ForeignKeyAllows(t.msg) THEN reactions \cup {<<t.msg, t.by>>}
                                                ELSE reactions
    /\ Goto(w, Idle)
    /\ UNCHANGED <<convs, messages, nextId, clients, processes>>

\* reaction:remove and DELETE /reactions/:messageId.
Unreact(w, u, m) ==
    /\ Ready(w)
    /\ <<m, u>> \in reactions
    /\ reactions' = reactions \ {<<m, u>>}
    /\ UNCHANGED <<convs, messages, nextId, task, clients, processes>>

-----------------------------------------------------------------------------
(* Sockets and processes.                                                  *)

Connect(w, u) ==
    /\ Ready(w)
    /\ w \notin stopping
    /\ u \notin rooms[w]
    /\ rooms' = [rooms EXCEPT ![w] = @ \cup {u}]
    /\ UNCHANGED <<rows, task, clients, stopping, restarts>>

Disconnect(w, u) ==
    /\ Ready(w)
    /\ u \in rooms[w]
    /\ rooms' = [rooms EXCEPT ![w] = @ \ {u}]
    /\ UNCHANGED <<rows, task, clients, stopping, restarts>>

\* SIGTERM: server.close() refuses new connections, the sockets stay open ...
Stop(w) ==
    /\ Ready(w)
    /\ restarts < MaxRestarts
    /\ restarts' = restarts + 1
    /\ stopping' = stopping \cup {w}
    /\ UNCHANGED <<rows, task, clients, rooms>>

\* ... until the timer calls process.exit between two handlers; PM2 starts a
\* new process in the worker's place.
Exit(w) ==
    /\ Ready(w)
    /\ w \in stopping
    /\ rooms' = [rooms EXCEPT ![w] = {}]
    /\ stopping' = stopping \ {w}
    /\ UNCHANGED <<rows, task, clients, restarts>>

\* The process is killed (out of memory), in the middle of a handler perhaps.
Kill(w) ==
    /\ restarts < MaxRestarts
    /\ restarts' = restarts + 1
    /\ rooms' = [rooms EXCEPT ![w] = {}]
    /\ stopping' = stopping \ {w}
    /\ Goto(w, Idle)
    /\ UNCHANGED <<rows, clients>>

Requests(w) ==
    \/ \E p \in Talks : Send(w, p[1], p[2]) \/ History(w, p[1], p[2])
    \/ \E u \in Users, m \in MsgIds :
           Read(w, u, m) \/ Burn(w, u, m) \/ React(w, u, m) \/ Unreact(w, u, m)

Steps(w) ==
    \/ OpenConversation(w) \/ SendStore(w) \/ SendEmit(w) \/ SendMark(w)
    \/ HistoryRead(w)
    \/ ReadUpdate(w) \/ ReadTell(w)
    \/ BurnDelete(w) \/ BurnTell(w)
    \/ ReactInsert(w)

Sockets(w) ==
    \/ \E u \in Users : Connect(w, u) \/ Disconnect(w, u)
    \/ Stop(w) \/ Exit(w) \/ Kill(w)

Next == \E w \in Workers : Requests(w) \/ Steps(w) \/ Sockets(w)

Spec == Init /\ [][Next]_vars

-----------------------------------------------------------------------------
(* Properties.                                                             *)

Burning(m) == \E w \in Workers : task[w].op = "burnDelete" /\ task[w].msg = m

\* One conversation per pair of people, whichever of them writes first and
\* through however many workers at once (conversations.js).
OneConversationPerPair ==
    \A c, d \in convs : {c[1], c[2]} = {d[1], d[2]} => c = d

\* Every message belongs to a conversation of its two participants.
MessagesHaveConversation ==
    \A m \in MsgIds : Stored(m) =>
        \E c \in convs : {c[1], c[2]} = Participants(m)

\* An acknowledged message is in the table until a participant burns it, even
\* if workers die at any moment: "only shows a sent message after server
\* confirmation" (NYX_SERVER_MESSAGE_DELIVERY_FIX_REPORT.md).
AckedIsStored == \A m \in acked : Stored(m) \/ m \in burnAsked

\* A reaction always belongs to a stored message and to one of its
\* participants, although a burn may run between its SELECT and its INSERT.
NoOrphanReactions ==
    \A m \in MsgIds, u \in Users :
        <<m, u>> \in reactions => Stored(m) /\ u \in Participants(m)

\* A message marked as delivered was handed to a socket of its recipient.
DeliveredWasHanded ==
    \A m \in MsgIds : messages[m].delivered => heard[messages[m].to][m] # "none"

\* "If the recipient is online, the message is marked as delivered": once the
\* sender has his acknowledgement, a message the recipient's socket received
\* bears the mark.
HandedIsDelivered ==
    \A m \in acked :
        Stored(m) /\ heard[messages[m].to][m] = "new" => messages[m].delivered

\* After "burned" a client hears nothing more about that message.
BurnedIsLast ==
    [][\A u \in Users, m \in MsgIds :
           heard[u][m] = "burned" => heard'[u][m] = "burned"]_vars

\* A burn is real deletion on the server: once no handler is at it any more,
\* a message somebody asked to burn is gone.
BurnIsReal == \A m \in burnAsked : Stored(m) => Burning(m)

=============================================================================
