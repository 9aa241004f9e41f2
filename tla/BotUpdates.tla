----------------------------- MODULE BotUpdates -----------------------------
(***************************************************************************)
(* The updates of one bot: routes/bots.js and botFatherAdvanced.js write    *)
(* them, infra/queues.js queues them, workers/botUpdateWorker.js hands them *)
(* to the webhook, getUpdates lets the bot poll them.                       *)
(*                                                                         *)
(* API processes and the queue worker are different processes on one        *)
(* SQLite file.  A handler stops at every await (the queue's add, a fetch), *)
(* and between its statements other processes write.  BullMQ, Redis and the *)
(* webhook are external: a job is added or refused, run again after a       *)
(* failure or a stall, and a webhook receives, answers, fails or is silent. *)
(***************************************************************************)
EXTENDS Integers, FiniteSets

CONSTANTS
    Callers,      \* app users and bot programs with a request under way
    Hooks,        \* webhook addresses
    NoHook,       \* no webhook (NULL)
    MaxUpdates,   \* bound: rows ever inserted into bot_updates
    MaxAttempts,  \* QUEUE_ATTEMPTS
    Concurrency,  \* jobs the worker runs at once
    PageSize,     \* LIMIT of getUpdates
    MaxRebinds,   \* bound: changes of the webhook
    MaxCrashes    \* bound: kills of the API or of the worker

ASSUME CallerAssumption == IsFiniteSet(Callers)
ASSUME HookAssumption == NoHook \notin Hooks
ASSUME QueueAssumption == {MaxAttempts, Concurrency, PageSize} \subseteq Nat \ {0}
ASSUME BotBoundAssumption == {MaxUpdates, MaxRebinds, MaxCrashes} \subseteq Nat

Ids == 1..MaxUpdates

VARIABLES
    bot,        \* the row of bots: "live", or "gone" when it has been deleted
    hook,       \* bots.webhook_url
    stored,     \* table bot_updates: ids
    delivered,  \* ... and the ids whose column delivered is 1
    nextId,     \* AUTOINCREMENT of bot_updates
    request,    \* request[c]: what the handler of c's request is doing
    deletion,   \* the handler of DELETE /bots/:id: "no", "commands", "bot"
    job,        \* job[i]: the queue's job for update i
    copies,     \* history: how often a webhook has received update i
    offset,     \* the offset the polling bot will send next
    polled,     \* ids the polling bot has been given
    rebinds, crashes

table == <<bot, hook, stored, delivered, nextId>>
poller == <<offset, polled>>
botVars == <<table, request, deletion, job, copies, poller, rebinds, crashes>>

-----------------------------------------------------------------------------

NoRequest == [at |-> "idle"]
Unanswered == [at |-> "unanswered"]
NoJob == [at |-> "none", failures |-> 0]

Requests == {NoRequest}
    \cup [at: {"read"}, kind: {"incoming", "callback"}, hook: Hooks \cup {NoHook}]
    \cup [at: {"calling"}, id: Ids, hook: Hooks]
    \cup [at: {"queueing"}, id: Ids]
    \cup {Unanswered}

Jobs == [at: {"none", "adding", "waiting", "active", "accepted", "done", "failed"},
         failures: 0..MaxAttempts]

BotTypeOK ==
    /\ bot \in {"live", "gone"}
    /\ hook \in Hooks \cup {NoHook}
    /\ stored \subseteq Ids
    /\ delivered \subseteq stored
    /\ nextId \in 1..MaxUpdates + 1
    /\ request \in [Callers -> Requests]
    /\ deletion \in {"no", "commands", "bot"}
    /\ job \in [Ids -> Jobs]
    /\ copies \in [Ids -> Nat]
    /\ offset \in {0} \cup Ids
    /\ polled \subseteq Ids
    /\ rebinds \in 0..MaxRebinds
    /\ crashes \in 0..MaxCrashes

BotInit ==
    /\ bot = "live"
    /\ hook \in Hooks \cup {NoHook}
    /\ stored = {}
    /\ delivered = {}
    /\ nextId = 1
    /\ request = [c \in Callers |-> NoRequest]
    /\ deletion = "no"
    /\ job = [i \in Ids |-> NoJob]
    /\ copies = [i \in Ids |-> 0]
    /\ offset = 0
    /\ polled = {}
    /\ rebinds = 0
    /\ crashes = 0

-----------------------------------------------------------------------------
(* Writing an update: POST /bots/:id/incoming (which enqueues it and calls  *)
(* the webhook itself), POST /botfather/callback-test (which waits for the  *)
(* queue), POST /bots/api/:token/sendMessage (which waits for nothing).     *)

ForeignKeyAllows_Missing == TRUE
ForeignKeyAllows == bot = "live"

\* The queue calls after which an update has had its last attempt.
Exhausted_OneMore(failures) == failures > MaxAttempts
Exhausted(failures) == failures >= MaxAttempts

\* INSERT INTO bot_updates, and addJob under way.
Enqueue ==
    /\ stored' = stored \cup {nextId}
    /\ nextId' = nextId + 1
    /\ job' = [job EXCEPT ![nextId] = [at |-> "adding", failures |-> 0]]

\* The bound leaves a row for every handler that is about to insert one.
Room == nextId + Cardinality({c \in Callers : request[c].at = "read"}) <= MaxUpdates

\* The SELECT of the bot, whose webhook_url the handler keeps.
Ask(c, kind) ==
    /\ request[c] = NoRequest
    /\ bot = "live"
    /\ Room
    /\ request' = [request EXCEPT ![c] = [at |-> "read", kind |-> kind, hook |-> hook]]
    /\ UNCHANGED <<table, deletion, job, copies, poller, rebinds, crashes>>

\* The INSERT.  If the bot has been deleted it throws: the handler is async,
\* nobody catches, the client gets no answer.  Without a webhook the app is
\* answered at once, from the command menu or not at all.
Insert(c) ==
    LET r == request[c] IN
    /\ r.at = "read"
    /\ IF ForeignKeyAllows
         THEN /\ Enqueue
              /\ request' = [request EXCEPT ![c] =
                     CASE r.kind = "callback" -> [at |-> "queueing", id |-> nextId]
                       [] r.kind = "incoming" /\ r.hook = NoHook -> NoRequest
                       [] OTHER -> [at |-> "calling", id |-> nextId, hook |-> r.hook]]
         ELSE /\ request' = [request EXCEPT ![c] = Unanswered]
              /\ UNCHANGED <<stored, nextId, job>>
    /\ UNCHANGED <<bot, hook, delivered, deletion, copies, poller, rebinds, crashes>>

\* sendMessage with the bot's token: two statements of one process; a bot
\* deleted in between makes the INSERT throw, as if the token were unknown.
SendMessage ==
    /\ bot = "live"
    /\ Room
    /\ Enqueue
    /\ UNCHANGED <<bot, hook, delivered, request, deletion, copies, poller, rebinds, crashes>>

\* The client may give up a request and send another.
GiveUp(c) ==
    /\ request[c] = Unanswered
    /\ request' = [request EXCEPT ![c] = NoRequest]
    /\ UNCHANGED <<table, deletion, job, copies, poller, rebinds, crashes>>

\* callBotWebhookNow ends: the webhook has received the update or not, has
\* answered, failed or let BOT_WEBHOOK_TIMEOUT_MS pass; whatever it said, the
\* client is answered, from the command menu if need be.
AfterCall_WebhookOnly == Unanswered
AfterCall == NoRequest
CallReturns(c) ==
    /\ request[c].at = "calling"
    /\ \E got \in {0, 1} : copies' = [copies EXCEPT ![request[c].id] = @ + got]
    /\ request' = [request EXCEPT ![c] = AfterCall]
    /\ UNCHANGED <<table, deletion, job, poller, rebinds, crashes>>

-----------------------------------------------------------------------------
(* The queue and its worker.                                               *)

\* The promise of queue.add settles; a handler waiting for it goes on.  There
\* is no job if the queue is disabled (addJob resolves) or refuses (it rejects):
\* /incoming ignores that, callback-test then never answers.
AddSettles(i) ==
    /\ job[i].at = "adding"
    /\ \E result \in {"waiting", "disabled", "refused"} :
           /\ job' = [job EXCEPT ![i].at = IF result = "waiting" THEN "waiting" ELSE "none"]
           /\ request' = [c \in Callers |->
                  IF request[c] # [at |-> "queueing", id |-> i] THEN request[c]
                  ELSE IF result = "refused" THEN Unanswered ELSE NoRequest]
    /\ UNCHANGED <<table, deletion, copies, poller, rebinds, crashes>>

\* createWorker runs at most Concurrency jobs at once.
Running == {i \in Ids : job[i].at \in {"active", "accepted"}}
HasRoom_OffByOne == Cardinality(Running) < Concurrency - 1
HasRoom == Cardinality(Running) < Concurrency

\* deliverBotUpdate up to the fetch: no bot, no row or no webhook ends the job
\* for good; a webhook set later will not see this update.
StartJob(i) ==
    /\ job[i].at = "waiting"
    /\ HasRoom
    /\ job' = [job EXCEPT ![i].at =
           IF bot = "live" /\ i \in stored /\ hook # NoHook THEN "active" ELSE "done"]
    /\ UNCHANGED <<table, request, deletion, copies, poller, rebinds, crashes>>

\* The webhook answers 2xx, ...
HookAccepts(i) ==
    /\ job[i].at = "active"
    /\ copies' = [copies EXCEPT ![i] = @ + 1]
    /\ job' = [job EXCEPT ![i].at = "accepted"]
    /\ UNCHANGED <<table, request, deletion, poller, rebinds, crashes>>

\* ... or the fetch fails, or the answer is an error: the job throws and waits
\* for its next attempt, if there is one.
HookRefuses(i) ==
    LET failures == job[i].failures + 1 IN
    /\ job[i].at = "active"
    /\ \E got \in {0, 1} : copies' = [copies EXCEPT ![i] = @ + got]
    /\ job' = [job EXCEPT ![i] = [at |-> IF Exhausted(failures) THEN "failed" ELSE "waiting",
                                  failures |-> failures]]
    /\ UNCHANGED <<table, request, deletion, poller, rebinds, crashes>>

\* UPDATE bot_updates SET delivered = 1 changes the row if it is still there.
Marked_Early(i) == delivered \cup stored
Marked(i) == delivered \cup ({i} \cap stored)
MarkDelivered(i) ==
    /\ job[i].at = "accepted"
    /\ delivered' = Marked(i)
    /\ job' = [job EXCEPT ![i].at = "done"]
    /\ UNCHANGED <<bot, hook, stored, nextId, request, deletion, copies, poller, rebinds, crashes>>

-----------------------------------------------------------------------------
(* The bot's own calls and its owner's.                                    *)

\* getUpdates: WHERE id > offset ORDER BY id ASC LIMIT, and the bot goes on
\* from the last id it was given.
Page_Newest == LET newer == {i \in stored : i > offset} IN
    {i \in newer : Cardinality({j \in newer : j > i}) < PageSize}
Page == LET newer == {i \in stored : i > offset} IN
    {i \in newer : Cardinality({j \in newer : j < i}) < PageSize}
GetUpdates ==
    /\ bot = "live"
    /\ Page # {}
    /\ polled' = polled \cup Page
    /\ offset' = CHOOSE i \in Page : \A j \in Page : j <= i
    /\ UNCHANGED <<table, request, deletion, job, copies, rebinds, crashes>>

\* POST /bots/:id/webhook and /bots/api/:token/setWebhook.
SetWebhook(h) ==
    /\ bot = "live"
    /\ rebinds < MaxRebinds
    /\ rebinds' = rebinds + 1
    /\ hook' = h
    /\ UNCHANGED <<bot, stored, delivered, nextId, request, deletion, job, copies, poller, crashes>>

\* DELETE /bots/:id: the updates, the commands, the bot.
DeleteUpdates ==
    /\ bot = "live"
    /\ deletion = "no"
    /\ deletion' = "commands"
    /\ stored' = {}
    /\ delivered' = {}
    /\ UNCHANGED <<bot, hook, nextId, request, job, copies, poller, rebinds, crashes>>

DeleteCommands ==
    /\ deletion = "commands"
    /\ deletion' = "bot"
    /\ UNCHANGED <<table, request, job, copies, poller, rebinds, crashes>>

\* The last DELETE cascades to the updates that came in meanwhile.
Cascaded_Missing == stored
Cascaded == {}
DeleteBot ==
    /\ deletion = "bot"
    /\ deletion' = "no"
    /\ bot' = "gone"
    /\ hook' = NoHook
    /\ stored' = Cascaded
    /\ delivered' = {}
    /\ UNCHANGED <<nextId, request, job, copies, poller, rebinds, crashes>>

-----------------------------------------------------------------------------
(* Crashes.                                                                *)

\* One of the API processes dies: the requests it served are cut off, the jobs
\* it was adding may never reach Redis, a deletion it was in stops half-way.
ApiCrash ==
    /\ crashes < MaxCrashes
    /\ crashes' = crashes + 1
    /\ \E cut \in SUBSET Callers, lost \in SUBSET {i \in Ids : job[i].at = "adding"} :
           /\ \A c \in Callers \ cut : request[c].at = "queueing" => request[c].id \notin lost
           /\ request' = [c \in Callers |-> IF c \in cut THEN NoRequest ELSE request[c]]
           /\ job' = [i \in Ids |-> IF i \in lost THEN NoJob ELSE job[i]]
    /\ deletion' \in {deletion, "no"}
    /\ UNCHANGED <<table, copies, poller, rebinds>>

\* The queue worker dies: BullMQ finds its jobs stalled and runs them again.
WorkerCrash ==
    /\ crashes < MaxCrashes
    /\ Running # {}
    /\ crashes' = crashes + 1
    /\ job' = [i \in Ids |-> IF i \in Running THEN [job[i] EXCEPT !.at = "waiting"] ELSE job[i]]
    /\ UNCHANGED <<table, request, deletion, copies, poller, rebinds>>

Api ==
    \/ \E c \in Callers :
           \/ \E kind \in {"incoming", "callback"} : Ask(c, kind)
           \/ Insert(c) \/ CallReturns(c) \/ GiveUp(c)
    \/ SendMessage \/ GetUpdates
    \/ \E h \in Hooks \cup {NoHook} : SetWebhook(h)
    \/ DeleteUpdates \/ DeleteCommands \/ DeleteBot

Queue ==
    \E i \in Ids : \/ AddSettles(i) \/ StartJob(i)
                   \/ HookAccepts(i) \/ HookRefuses(i) \/ MarkDelivered(i)

BotNext == Api \/ Queue \/ ApiCrash \/ WorkerCrash

BotSpec == BotInit /\ [][BotNext]_botVars

\* A handler that has begun goes on, a fetch ends (it is aborted or times out),
\* and the queue worker starts a waiting job when it has room.
Fairness ==
    /\ \A c \in Callers : WF_botVars(Insert(c)) /\ WF_botVars(CallReturns(c))
    /\ WF_botVars(DeleteCommands) /\ WF_botVars(DeleteBot)
    /\ \A i \in Ids : /\ WF_botVars(StartJob(i))
                      /\ WF_botVars(HookAccepts(i) \/ HookRefuses(i))
                      /\ WF_botVars(MarkDelivered(i))

BotFairSpec == BotSpec /\ Fairness

-----------------------------------------------------------------------------
(* Properties.                                                             *)

\* A retry never becomes a flood: the app's request hands an update over once,
\* the queue once per attempt, and once more per death of the worker.
BoundedCopies == \A i \in Ids : copies[i] <= 1 + MaxAttempts + crashes

\* A bot that polls page by page misses no update, although others write new
\* ones between its calls and the webhook consumes them at the same time.
PollSkipsNothing == \A i \in stored : i <= offset => i \in polled

\* No update survives its bot, not even one written during the deletion.
UpdatesHaveBot == bot = "gone" => stored = {}

\* Every update behaves as WebhookDelivery says.
StateOf(i) == CASE i \in delivered -> "delivered"
                [] i \in stored \ delivered -> "pending"
                [] i \notin stored /\ i < nextId -> "deleted"
                [] OTHER -> "absent"
Delivery == INSTANCE WebhookDelivery WITH state <- [i \in Ids |-> StateOf(i)]
ImplementsDelivery == Delivery!DeliverySpec

\* Every job in the queue is settled in the end: no update is retried forever
\* and none is forgotten, though the worker dies, the webhook fails and only
\* Concurrency jobs run at once.
JobsSettle ==
    \A i \in Ids : job[i].at \in {"waiting", "active", "accepted"}
                       ~> job[i].at \in {"done", "failed"}

\* The app's message is answered even if the webhook is missing, fails or hangs,
\* and even if the queue refuses the update: nothing but the deletion of the bot
\* leaves it without an answer (when its process dies the connection closes).
AppIsAnswered ==
    \A c \in Callers :
        (request[c].at = "read" /\ request[c].kind = "incoming") \/ request[c].at = "calling"
            ~> request[c] = NoRequest \/ bot = "gone"

=============================================================================
