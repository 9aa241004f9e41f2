---------------------------- MODULE ChannelPosts ----------------------------
(***************************************************************************)
(* The posts of one channel and what a subscriber sees of them: posting,    *)
(* scheduling, publishing, editing, deleting and pinning of                 *)
(* routes/channels.js and channel:message:send of sockets/index.js.         *)
(*                                                                         *)
(* Every handler reads (the guard of its action), writes in one statement,  *)
(* may read the row back in another and may emit an event; other workers    *)
(* run theirs in between.  An event is on its way until the subscriber      *)
(* receives it, in order from each worker but not across workers.  Views,   *)
(* reactions and comments, which only add rows, the audit log, and answers  *)
(* are left out; the channel is not deleted, and who runs it is the subject *)
(* of Channels.                                                            *)
(***************************************************************************)
EXTENDS Sequences, Naturals, FiniteSets

CONSTANTS
    Workers,      \* API processes
    Users,        \* who posts
    Nobody,       \* no user
    Staff,        \* the owner and the administrators
    Texts,        \* what posts say
    NoText,       \* no text
    MaxPosts,     \* bound: posts ever written
    MaxHandlers,  \* bound: requests ever served
    MaxCrashes    \* bound: workers killed

ASSUME UserAssumption == Nobody \notin Users /\ Staff \subseteq Users
ASSUME TextAssumption == NoText \notin Texts
ASSUME BoundAssumption == {MaxPosts, MaxHandlers, MaxCrashes} \subseteq Nat

Posts == 1..MaxPosts

VARIABLES
    post,      \* table channel_messages
    lastId,    \* the last id AUTOINCREMENT has given
    pins,      \* table channel_pins
    task,      \* task[w]: the handler worker w is in the middle of
    wire,      \* wire[w]: events emitted by w and not yet received
    feed,      \* what the subscriber's screen shows of each post, or NoText
    feedPins,  \* the posts it shows as pinned
    pinTexts,  \* what its list of pins, once loaded, shows of each, or NoText
    stale,     \* lists that have missed events since they were loaded
    worn,      \* history: the texts each post has had, in order
    revived,   \* history: posts published after they had been deleted
    raced,     \* history: have two handlers ever overlapped?
    served,    \* number of requests served so far
    crashes    \* number of workers killed so far

tables == <<post, lastId, pins>>
client == <<feed, feedPins, pinTexts, stale>>
history == <<worn, revived>>
counters == <<served, crashes>>
vars == <<tables, task, wire, client, history, raced, counters>>

-----------------------------------------------------------------------------

Kinds == {"new", "updated", "deleted", "pinned", "unpinned"}

NoPost == 0
NoRow == [by |-> Nobody, text |-> NoText, due |-> FALSE, deleted |-> FALSE, past |-> <<>>]

\* What a handler does after it has read what it needs.
Handler(write, reads, emits) == [write |-> write, reads |-> reads, emits |-> emits]
RoutePosting == Handler("insert", TRUE, "new")
SocketPosting == Handler("insert", FALSE, "new")
Scheduling_Announced == Handler("insert", TRUE, "new")
Scheduling == Handler("insert", FALSE, "nothing")
Editing_Unheard == Handler("update", TRUE, "nothing")
Editing == Handler("update", TRUE, "updated")
Deleting == Handler("delete", FALSE, "deleted")
Publishing == Handler("publish", TRUE, "new")
Pinning == Handler("pin", FALSE, "pinned")
Unpinning == Handler("unpin", FALSE, "unpinned")
Nothing == Handler("nothing", FALSE, "nothing")
Handlers == {RoutePosting, SocketPosting, Scheduling, Editing, Deleting, Publishing,
             Pinning, Unpinning}

Idle == [at |-> "idle", does |-> Nothing, by |-> Nobody, post |-> NoPost, text |-> NoText,
         past |-> <<>>, due |-> FALSE]

\* due: scheduled_at IS NOT NULL; deleted: deleted_at IS NOT NULL; past: the
\* texts of edit_history_json.
Row == [by: Users \cup {Nobody}, text: Texts \cup {NoText}, due: BOOLEAN, deleted: BOOLEAN,
        past: Seq(Texts)]
Task == [at: {"idle", "write", "read", "emit"}, does: Handlers \cup {Nothing},
         by: Users \cup {Nobody}, post: Posts \cup {NoPost}, text: Texts \cup {NoText},
         past: Seq(Texts), due: BOOLEAN]
Event == [kind: Kinds, post: Posts, text: Texts \cup {NoText}]

\* A handler has a row to work on unless it is going to insert it, a text if it
\* is going to store one, and an event if it is going to emit one.
TaskOK(t) ==
    t.at # "idle" =>
        /\ t.does \in Handlers
        /\ IF t.at = "write" /\ t.does.write = "insert" THEN t.by \in Users
                                                       ELSE t.post \in 1..lastId
        /\ t.at = "write" /\ t.does.write \in {"insert", "update"} => t.text \in Texts
        /\ t.at = "emit" => t.does.emits # "nothing"

TypeOK ==
    /\ post \in [Posts -> Row]
    /\ lastId \in Posts \cup {0}
    /\ \A m \in Posts : IF m <= lastId THEN post[m].by \in Users /\ post[m].text \in Texts
                                       ELSE post[m] = NoRow
    /\ pins \subseteq 1..lastId
    /\ task \in [Workers -> Task]
    /\ \A w \in Workers : TaskOK(task[w])
    /\ wire \in [Workers -> Seq(Event)]
    /\ {feed, pinTexts} \subseteq [Posts -> Texts \cup {NoText}]
    /\ feedPins \subseteq Posts
    /\ stale \subseteq {"posts", "pins"}
    /\ worn \in [Posts -> Seq(Texts)]
    /\ revived \subseteq Posts
    /\ raced \in BOOLEAN
    /\ served \in 0..MaxHandlers
    /\ crashes \in 0..MaxCrashes

Init ==
    /\ post = [m \in Posts |-> NoRow]
    /\ lastId = 0
    /\ pins = {}
    /\ task = [w \in Workers |-> Idle]
    /\ wire = [w \in Workers |-> <<>>]
    /\ feed = [m \in Posts |-> NoText]
    /\ feedPins = {}
    /\ pinTexts = [m \in Posts |-> NoText]
    /\ stale = {}
    /\ worn = [m \in Posts |-> <<>>]
    /\ revived = {}
    /\ raced = FALSE
    /\ served = 0
    /\ crashes = 0

-----------------------------------------------------------------------------
(* Requests.                                                               *)

Ready(w) == task[w] = Idle
Settled(w) == Ready(w) /\ wire[w] = <<>>

Existing == 1..lastId

\* "AND deleted_at IS NULL AND scheduled_at IS NULL": what GET /messages lists.
Visible == {m \in Existing : ~post[m].deleted /\ ~post[m].due}

\* The author, or canManageChannel with can_edit or can_delete.
MayChange(u, m) == u = post[m].by \/ u \in Staff

\* Worker w takes a request; from here on it works with what it has read, and
\* who asked matters to an insert only.
Take(w, t) ==
    /\ Ready(w)
    /\ served < MaxHandlers
    /\ served' = served + 1
    /\ task' = [task EXCEPT ![w] = t]
    /\ raced' = (raced \/ \E x \in Workers \ {w} : ~Settled(x))
    /\ UNCHANGED <<tables, wire, client, history, crashes>>

Request(handler, m) ==
    [at |-> "write", does |-> handler, by |-> Nobody, post |-> m, text |-> NoText,
     past |-> <<>>, due |-> FALSE]

\* POST /:id/messages, which reads the row back, and channel:message:send, which
\* emits what it was sent; at once or with scheduledAt.  Subscribers may post
\* unless only_admins_post is set.
Post(w, u, x) ==
    \E due \in BOOLEAN, handler \in {RoutePosting, SocketPosting, Scheduling} :
        /\ due = (handler = Scheduling)
        /\ Take(w, [at |-> "write", does |-> handler, by |-> u, post |-> NoPost, text |-> x,
                    past |-> <<>>, due |-> due])

\* PATCH /:id/messages/:messageId: text and history of the row that was read.
Remembered_Newest(m) == <<post[m].text>> \o post[m].past
Remembered_Last(m) == <<post[m].text>>
Remembered(m) == Append(post[m].past, post[m].text)
Edit(w, u, m, x) ==
    /\ ~post[m].deleted
    /\ MayChange(u, m)
    /\ Take(w, [at |-> "write", does |-> Editing, by |-> Nobody, post |-> m, text |-> x,
                past |-> Remembered(m), due |-> FALSE])

Delete(w, u, m) == MayChange(u, m) /\ Take(w, Request(Deleting, m))

\* POST /:id/scheduled/:messageId/publish looks neither at scheduled_at nor at
\* deleted_at.
Publish(w, u, m) == u \in Staff /\ Take(w, Request(Publishing, m))

Pin(w, u, m) == u \in Staff /\ Take(w, Request(Pinning, m))
Unpin(w, u, m) == u \in Staff /\ Take(w, Request(Unpinning, m))

-----------------------------------------------------------------------------
(* The statements.                                                         *)

\* The next stage of a handler, with nothing to do as its last.
Advance(t) ==
    IF t.at = "write" /\ t.does.reads THEN [t EXCEPT !.at = "read"]
    ELSE IF t.at # "emit" /\ t.does.emits # "nothing" THEN [t EXCEPT !.at = "emit"]
    ELSE Idle

\* Worker w is done with this stage of its handler and goes on with t.
Proceed(w, t) ==
    /\ task' = [task EXCEPT ![w] = Advance(t)]
    /\ UNCHANGED <<client, raced, counters>>

Write(w, statement) ==
    /\ task[w].at = "write"
    /\ task[w].does.write = statement
    /\ UNCHANGED wire

Insert(w) ==
    LET t == task[w]
        m == lastId + 1 IN
    /\ Write(w, "insert")
    /\ m <= MaxPosts
    /\ lastId' = m
    /\ post' = [post EXCEPT ![m] =
                  [by |-> t.by, text |-> t.text, due |-> t.due, deleted |-> FALSE, past |-> <<>>]]
    /\ worn' = [worn EXCEPT ![m] = <<t.text>>]
    /\ Proceed(w, [t EXCEPT !.post = m])
    /\ UNCHANGED <<pins, revived>>

\* UPDATE channel_messages SET text = ?, ..., edit_history_json = ? WHERE id = ?
Update(w) ==
    LET t == task[w] IN
    /\ Write(w, "update")
    /\ post' = [post EXCEPT ![t.post].text = t.text, ![t.post].past = t.past]
    /\ worn' = [worn EXCEPT ![t.post] = Append(@, t.text)]
    /\ Proceed(w, t)
    /\ UNCHANGED <<lastId, pins, revived>>

MarkDeleted(w) ==
    /\ Write(w, "delete")
    /\ post' = [post EXCEPT ![task[w].post].deleted = TRUE]
    /\ Proceed(w, task[w])
    /\ UNCHANGED <<lastId, pins, history>>

MarkPublished(w) ==
    LET m == task[w].post IN
    /\ Write(w, "publish")
    /\ post' = [post EXCEPT ![m].due = FALSE]
    /\ revived' = IF post[m].deleted THEN revived \cup {m} ELSE revived
    /\ Proceed(w, task[w])
    /\ UNCHANGED <<lastId, pins, worn>>

SetPin(w) ==
    /\ \/ Write(w, "pin") /\ pins' = pins \cup {task[w].post}
       \/ Write(w, "unpin") /\ pins' = pins \ {task[w].post}
    /\ Proceed(w, task[w])
    /\ UNCHANGED <<post, lastId, history>>

\* SELECT m.* ... WHERE m.id = ?, for the event and the answer.
ReadBack(w) ==
    LET t == task[w] IN
    /\ t.at = "read"
    /\ Proceed(w, [t EXCEPT !.text = post[t.post].text])
    /\ UNCHANGED <<tables, wire, history>>

\* io.to(`channel:${channelId}`).emit(event, payload)
Emit(w) ==
    LET t == task[w] IN
    /\ t.at = "emit"
    /\ wire' = [wire EXCEPT ![w] =
                  Append(@, [kind |-> t.does.emits, post |-> t.post, text |-> t.text])]
    /\ Proceed(w, t)
    /\ UNCHANGED <<tables, history>>

-----------------------------------------------------------------------------
(* A subscriber whose socket is in the room of the channel, connected to any *)
(* worker or reached through the Redis adapter.  What his client does with   *)
(* events, which is not part of the repository, is assumed.                 *)

\* He adds new posts, replaces and removes those he shows: an event about an
\* edited post has its text, scheduled or not, and one about a pin has not.
Shown(e) ==
    [feed EXCEPT ![e.post] =
        IF e.kind = "new" \/ (e.kind = "updated" /\ @ # NoText) THEN e.text
        ELSE IF e.kind = "deleted" THEN NoText ELSE @]
ShownPins(e) ==
    IF e.kind = "pinned" THEN feedPins \cup {e.post}
    ELSE IF e.kind = "unpinned" THEN feedPins \ {e.post} ELSE feedPins
ShownPinTexts(e) ==
    [pinTexts EXCEPT ![e.post] =
        IF e.kind = "updated" /\ @ # NoText THEN e.text
        ELSE IF e.kind = "unpinned" THEN NoText ELSE @]

Receive(w) ==
    /\ wire[w] # <<>>
    /\ feed' = Shown(Head(wire[w]))
    /\ feedPins' = ShownPins(Head(wire[w]))
    /\ pinTexts' = ShownPinTexts(Head(wire[w]))
    /\ wire' = [wire EXCEPT ![w] = Tail(@)]
    /\ UNCHANGED <<tables, task, stale, history, raced, counters>>

\* Whatever is on its way when a list is loaded may arrive before or after it.
Load(w, list) ==
    /\ Ready(w)
    /\ served < MaxHandlers
    /\ served' = served + 1
    /\ stale' = stale \ {list}
    /\ raced' = (raced \/ \E x \in Workers : ~Settled(x))
    /\ UNCHANGED <<tables, task, wire, history, crashes>>

\* GET /:id/messages
LoadPosts(w) ==
    /\ Load(w, "posts")
    /\ feed' = [m \in Posts |-> IF m \in Visible THEN post[m].text ELSE NoText]
    /\ UNCHANGED <<feedPins, pinTexts>>

\* GET /:id/pins, which returns deleted and scheduled posts too, text and all.
LoadPins(w) ==
    /\ Load(w, "pins")
    /\ feedPins' = pins
    /\ pinTexts' = [m \in Posts |-> IF m \in pins THEN post[m].text ELSE NoText]
    /\ UNCHANGED feed

-----------------------------------------------------------------------------

\* A worker is killed: the handler it was in is over, and the events it has
\* emitted may be lost.
Crash(w) ==
    /\ ~Settled(w)
    /\ crashes < MaxCrashes
    /\ crashes' = crashes + 1
    /\ task' = [task EXCEPT ![w] = Idle]
    /\ \E kept \in {<<>>, wire[w]} : wire' = [wire EXCEPT ![w] = kept]
    /\ stale' = {"posts", "pins"}
    /\ UNCHANGED <<tables, feed, feedPins, pinTexts, history, raced, served>>

Requests(w) ==
    \E u \in Users :
        \/ \E x \in Texts : lastId < MaxPosts /\ Post(w, u, x)
        \/ \E m \in Existing :
              \/ \E x \in Texts : Edit(w, u, m, x)
              \/ Delete(w, u, m) \/ Publish(w, u, m) \/ Pin(w, u, m) \/ Unpin(w, u, m)

Steps(w) ==
    \/ Insert(w) \/ Update(w) \/ MarkDeleted(w) \/ MarkPublished(w) \/ SetPin(w)
    \/ ReadBack(w) \/ Emit(w)

Next ==
    \E w \in Workers :
        Requests(w) \/ Steps(w) \/ Receive(w) \/ LoadPosts(w) \/ LoadPins(w) \/ Crash(w)

Spec == Init /\ [][Next]_vars

-----------------------------------------------------------------------------
(* Properties.                                                             *)

\* A scheduled post appears in no subscriber's list of posts before it is
\* published, whatever is edited or loaded meanwhile on whatever worker.  The
\* list of pins is another matter: it shows a scheduled post, text and all, as
\* soon as staff have pinned it (channels.js:364, channels.js:385), but none that
\* is not pinned when the list is loaded.
ScheduledIsQuiet ==
    [][\A m \in Posts :
           /\ feed[m] = NoText /\ feed'[m] # NoText => m \in Existing /\ ~post[m].due
           /\ pinTexts[m] = NoText /\ pinTexts'[m] # NoText => m \in pins]_vars

\* Nothing is in a post's history that it has not said, and nothing out of
\* order, even if two editors read the same text and one overwrites the other:
\* history and text are a subsequence of what the post has said.
Within(s, t) ==
    \E f \in [DOMAIN s -> DOMAIN t] :
        /\ \A i, j \in DOMAIN s : i < j => f[i] < f[j]
        /\ \A i \in DOMAIN s : s[i] = t[f[i]]
HistoryIsOrdered == \A m \in Existing : Within(Append(post[m].past, post[m].text), worn[m])

\* As long as handlers do not overlap, no edit is missing from the history.
HistoryIsComplete == ~raced => \A m \in Existing : worn[m] = Append(post[m].past, post[m].text)

\* As long as handlers do not overlap, a subscriber who has missed no event since
\* he loaded a list sees what he would get by loading it again: edits, deletions,
\* publications and pins reach him, and in the right order.  (A post published
\* after its deletion is shown to him although GET lists it no more.)
FeedIsCurrent ==
    ~raced /\ (\A w \in Workers : Settled(w)) =>
        /\ "pins" \notin stale => feedPins = pins
        /\ "posts" \notin stale =>
              \A m \in Posts :
                  /\ m \in Visible => feed[m] = post[m].text
                  /\ m \notin Visible => feed[m] = NoText \/ m \in revived

=============================================================================
