# Verification of the Nyx messenger server

The server (`src/src`) is an Express and Socket.IO application over one SQLite
file.  PM2 runs it as a cluster (`ecosystem.config.cjs`: `exec_mode: 'cluster'`),
Redis carries Socket.IO events between the processes and BullMQ jobs to worker
processes.  These modules model what is hard to test in it: the interleaving of
the statements of several processes on one database, handlers that wait in the
middle, transactions that are missing or end too early, deaths of processes,
queues that deliver more than once.

How the code runs decides how it is modelled:

* `better-sqlite3` is synchronous.  Inside one process a handler is interrupted
  only at an `await`.  A handler with no `await` is atomic **for its process**.
* Every process of PM2's cluster opens the same file (and so do the workers that
  `npm run workers` starts beside it; `docker-compose.production.yml` instead runs
  one API process, with workers that do not mount its volume).  A statement outside `db.transaction`
  commits by itself, so between two statements of one handler the other
  processes may run theirs.  A statement is one action; a handler is a sequence
  of actions joined by `task[w]`, the handler that worker `w` is in.  The
  SELECTs a handler begins with and the first write are taken together where
  the text says so, and the module says why nothing is lost.
* A `db.transaction` is one action; a throw inside leaves no trace.
* A worker may die between any two actions (`Crash`, `Kill`, `ApiCrash`,
  `WorkerCrash`).  Rows stay, what was in memory goes.
* SQLite enforces the constraints of `db.js`: UNIQUE, PRIMARY KEY, foreign keys
  (`PRAGMA foreign_keys = ON`), with and without `ON DELETE CASCADE`.

A run with one worker therefore answers "is the handler right?", a run with two
"is it right in the cluster the repository deploys?".

## Inventory

| Component (source) | State it keeps | Operations | Hard behaviour | What makes it correct |
| --- | --- | --- | --- | --- |
| Accounts (`routes/auth.js`, `routes/users.js`, `middleware/auth.js`) | `users`, `recovery_challenges`; tokens live with the clients | register, login, rename, delete, recover | register waits for bcrypt between test and INSERT; tokens outlive accounts | logins are unique; one challenge, one recovery |
| Marketplace (`routes/marketplace.js`) | `username_listings` | list, cancel, buy | a transaction that throws after a write; test and INSERT apart | a name is on sale once, a sale is final and paid for |
| Premium, wallet (`routes/premium.js`) | `users.nyx_balance`, `premium_purchases`, `wallet_transactions` | purchase, coins, ad reward | balance read before the transaction; two statements for one credit | nobody overdraws; the books balance |
| Direct messages (`sockets/index.js`, `conversations.js`, `routes/messages.js`, `routes/reactions.js`) | `conversations`, `messages`, `message_reactions`; rooms in each process | send, history, read, burn, react | rooms are local, events are not; kills between INSERT and answer; foreign keys | acknowledged means stored; delivered means handed over; burned means gone |
| Groups (`routes/groups.js`, `utils/permissions.js`) | `groups`, `group_members`, `group_messages`, `group_bans`, `group_pins`, `group_invites`, `group_audit_log` | create, join, roles, ban, post, pin, invite, delete | no transactions; rights read in an earlier statement | one owner, the creator; no orphan rows; bans stand and are logged |
| Channels (`routes/channels.js`) | `channels`, `channel_subscriptions`, `channel_admins`, `channel_admin_rights`, posts, bans, requests | create, join, publish, moderate | five statements to create; rights and roles in two tables | roles and rights agree; scheduled posts stay out of the list of posts, histories are true, screens agree with the table |
| Bots and their queue (`routes/bots.js`, `routes/botFatherAdvanced.js`, `infra/queues.js`, `workers/botUpdateWorker.js`) | `bots`, `bot_updates`; BullMQ jobs | write update, call webhook, job, poll, delete | two deliveries of one update; retries; death between answer and mark | marked means received; copies are bounded; jobs end; polling skips nothing |
| Life cycle (`infra/shutdown.js`, `infra/socketScale.js`, `index.js`) | sockets, rooms, clients of Redis and Postgres | listen, SIGTERM, uncaught exception, draining, forced exit | exit races handlers, sockets and stuck requests | nothing acknowledged is lost; exit code 0 is true; a process asked to end ends |
| Write limiter (`infra/security.js`) | a map of time stamps per process | admit or refuse a write | pruned lists, refused writes kept, addresses shared | exactly the first `ANTISPAM_MAX_WRITES` writes of a window are admitted |
| Support (`routes/support.js`, `utils/admin.js`) | `support_tickets`, `support_messages` | open, answer, patch; the deletion of an account closes | status computed from an older row | the status is the one last decided |
| Media (`routes/filesV2.js`, `storage/s3.js`, `workers/mediaWorker.js`, `routes/privacy.js`) | object store, `media_files`, jobs | upload, preview, replace the metadata | three stores, no transaction; a job's read-modify-write | no row without object, no job without row; metadata survive previews |
| Push (`routes/notifications.js`, `workers/pushWorker.js`) | `push_tokens`, `notification_settings`, jobs | register, mute, ask, send in chunks | a retry begins again, devices and mute change meanwhile | with the SDK installed every device that stays and has an Expo token hears of it; none without bound, none that withdrew |

`PROJECT.json` lists every component, also those that are not modelled with the
reason, and every hazard at its line with the properties that would catch it.

## Modules

| Module | Models | Stands on |
| --- | --- | --- |
| `UsernameMarket` | accounts, marketplace, wallet | `AccountLedger` as abstract specification |
| `AccountLedger` | abstract: accounts opened, credited, charged only if they can pay | |
| `UsernameMarketProofs` | theorems about `UsernameMarket` | |
| `DirectMessages` | one-to-one messages, reactions, rooms, restarts | |
| `DirectMessagesProofs` | theorems about `DirectMessages` | |
| `Groups` | one group | `GroupRoles` as abstract specification |
| `GroupsProofs` | theorems about `Groups` | |
| `GroupRoles` | abstract: every change of roles by somebody entitled at that moment | |
| `Channels` | the people of one channel: subscribers, administrators, rights, bans, requests | |
| `ChannelsProofs` | theorems about `Channels` | |
| `ChannelPosts` | the posts of one channel, their events and a subscriber's screen | |
| `ChannelPostsProofs` | theorems about `ChannelPosts` | |
| `AccountRecovery` | login, recovery by challenge, renames and deletions | |
| `AccountRecoveryProofs` | theorems about `AccountRecovery` | |
| `BotUpdates` | the updates of one bot, requests, queue, webhook, polling | `WebhookDelivery` as abstract specification |
| `WebhookDelivery` | abstract: at-least-once hand-over, marked only when received | |
| `ApiProcess` | one API process: write limiter, connections, draining, exit, restart | |
| `BackgroundJobs` | an upload and its preview, a push and its chunks, the queue between processes | |
| `BackgroundJobsProofs` | theorems about `BackgroundJobs` | |
| `SupportTickets` | tickets, their status, the deletion of accounts | |
| `ServiceProofs` | theorems about `ApiProcess`, `BotUpdates` and `SupportTickets` | |
| `MC...` | the symmetry sets and definitions a `.cfg` cannot write | the module they name |

`<Helper>_<Name>` definitions (`CanPay_OffByOne`, `Deleted_Soft`, ...) are faulty
variants of the helper that follows them.  Nothing uses them; `PROJECT.json`
pairs each with the property that must notice it when it takes the helper's
place, so every property is known to be able to fail.

### UsernameMarket

One variable per column that matters (`account`, `login`, `balance`), the table
`listings` in id order, the sums `spent` and `ledger` of two tables that are
only appended to, `task` and `hashing` for handlers under way.  `hashing` is
apart from `task` because `await bcrypt.hash` lets the worker serve others.
`RegisterCheck`/`RegisterInsert`, `ListCheck`/`ListInsert`,
`PurchaseCheck`/`PurchaseCommit` and `AdRewardCredit`/`AdRewardRecord` are the
two halves of handlers that are not atomic; `Buy` is the transaction,
`BuyRefused` the transaction that throws.  `Rename` and `DeleteAccount` are one
action each because the constraint, or the guard of the UPDATE, repeats the
test that the SELECT made.  `refused` and `overtaken` are history: a worker is in
`overtaken` while it is in the middle of a handler whose user has been charged
through another worker since it began.  `turns` counts how often an idle worker has
taken something up (`MaxTurns`).  Amounts are natural numbers; `premium.js` would take
fractions too, which no property tells apart.

### DirectMessages

`rooms[w]` are the users with a socket on `w`; `Reaches` says whom an emit of `w`
reaches (everybody if the Redis adapter is on), `InLocalRoom` what
`io.sockets.adapter.rooms` knows (this worker only).  A send is
`Send`, `OpenConversation`, `SendStore`, `SendEmit`, `SendMark`; a burn is
`Burn`, `BurnDelete`, `BurnTell`.  `heard`, `acked`, `burnAsked` are what the
clients have been told.  A message or reaction is named by its id; ciphertext,
nonce, type and emoji are left out.  A `read` is only sent about a message
the client has, in a conversation of his; `sockets/index.js:91-93` checks neither.
`BurnDelete` models the exception that the
foreign key raises in a handler without `try`: the process begins to stop.

### Groups

Bans have three states because `isGroupBanned` deletes the row it finds lapsed
(`ForgetBan`); `Lapse` is the clock.  Each of the statements of ban, unban,
invite and delete is an action.  `overtaken[w]` is history: which of the tables
`members`, `bans`, `messages` and `invites` other workers have changed since `w` took
its request.  `served` counts the requests
(`MaxRequests`).  Left out: settings, topics, search and slow mode.

### Channels

One variable per table, restricted to one channel: `status` and `owner` are the
row of `channels`, `rights[u]` the row of `channel_admin_rights` or `NoRow`,
`bans[u]` and `requests[u]` as in the groups.  No handler waits and none uses a
transaction, so a request is its guard (`Subscribe`, `Promote`, `Ban`, ...: what
it reads) and a list of statements (`Promotion`, `Banning`, ...), which `task[w]`
still has to run; each statement is an action.  Can-post, can-edit and can-delete
are one right, `"content"`, since nothing here tells them apart.  `granted`,
`admitted` and `raced` are history.  The audit log is left out: its failures are
swallowed and nothing reads it to decide.

Two things the model shows are allowed by the code and not contradicted by any
document: a ban removes the subscription but not the row of `channel_admins`,
so a banned administrator keeps his rights (and, with the right to manage
subscribers, may lift his own ban); and an
administrator who leaves by himself keeps his row of rights, which is harmless
because a promotion replaces it (`RightsAreAsGranted`).  Left out are the date an
invitation expires (`channels.js:172`; the model lets every invitation in) and the
visibility that the site's administrator may set (`admin.js:61`).

### ChannelPosts

A handler is a constant (`RoutePosting`, `Editing`, `Publishing`, ...): the
statement it writes with, whether it reads the row back, and the event it emits.
The request (`Post`, `Edit`, ...) is what it reads before; then come the
statements (`Insert`, `Update`, ...), `ReadBack` and `Emit`, each an action, with
other workers in between.  `wire[w]` holds what `w` has emitted and a subscriber
has not received: order is kept per worker, not across workers.  The subscriber's
client is not in the repository; it is taken to add a post on
`channel:message:new`, to replace a shown one on `updated` and to remove it on
`deleted`.  `stale` names the lists that may lack an event since they were
loaded.  `feed` is the subscriber's list of posts, `pinTexts` his list of pins, which
`GET /:id/pins` fills with the texts of whatever is pinned.  `worn[m]` (history) is
what post `m` has said.

`Staff` is fixed here because roles are the subject of `Channels`.  Requests name
posts of this channel; the routes that pin and publish do not look and would also pin
or announce a post of another one (`channels.js:364`, `channels.js:401`), which is left
out.  Reactions, comments and views only add rows.

What the model shows the code to allow, without contradicting a document:

* a history is read, extended in memory and written back, so of two overlapping
  edits one is missing from it (`HistoryIsComplete` excepts overlaps;
  `HistoryIsOrdered` needs no exception);
* `POST /scheduled/:messageId/publish` looks at neither `scheduled_at` nor
  `deleted_at`: it announces a deleted post again, which no list shows
  (`revived` excepts it from `FeedIsCurrent`);
* nothing publishes a scheduled post when its time has come;
* a scheduled post may be pinned (`channels.js:364`), and `GET /:id/pins`
  (`channels.js:383-387`) then shows it, text and all, to every subscriber before it
  is published: `ScheduledIsQuiet` promises silence of the list of posts, and of the
  list of pins only that nothing enters it that is not pinned;
* the event of an edited post carries its text to all subscribers even while the post
  is scheduled; the client shows nothing because it has nothing to replace;
* `GET /pins` lists deleted posts.

### AccountRecovery

A user is a person with the account he registered and the key of his seed phrase;
`name[u]` is where that account is found.  Login is `LoginRead` (SELECT) and
`LoginDone` (after `await bcrypt.compare`), kept in `comparing` because the worker
serves others meanwhile.  A challenge is asked for (`AskChallenge`) and put
(`IssueChallenge`, an upsert; its guard bounds it by `MaxNonces`).
Verification is `Verify`, `CheckSignature`, `SpendChallenge`, `StorePassword`.
`Rename` and `Delete` move names between accounts at any moment; `Expire` is the
clock.

`auth.js:10` calls the nonce one-time.  `OneTimeNonce` holds as long as handlers
do not overlap; two verifications on two workers that do are both accepted, and
the DELETE of the second, which names the user and not the nonce, may remove a
challenge issued since.  A new password that is too short is refused after the
challenge has been deleted, so that the person must ask for another.  The name
`deleted_<id>_<time>` that a deletion leaves behind is nobody's in the model: nobody
logs in with it.

### BotUpdates

`request[c]` is the handler of a client's request (`read` after the SELECT of
the bot, `calling` while it waits for the webhook, `queueing` while it waits for
the queue, `unanswered` after an exception nobody catches), `job[i]` the BullMQ
job of update `i`.  BullMQ is external, modelled from its use: `add` is
accepted, skipped or refused, a failed job waits again until `QUEUE_ATTEMPTS`
are used up, a stalled job runs again.

Names that `ApiProcess` has too carry a prefix here and in `SupportTickets`
(`BotInit`, `BotSpec`, `DeskInit`, `DeskSpec`, ...), so that one module can state
the theorems about all three.

### ApiProcess

One process, from start to end and again.  `life` is what it is doing: `closing`
while `server.close` waits, then the client it is letting go.  `conn[c]` is a
client's connection: `busy` while a handler works, `stuck` when its promise was
rejected (`unhandledRejection` is only logged, nobody answers), `socket` for a
WebSocket.  `buckets` is `memoryBuckets`; a time stamp is named by the number of
its arrival, since two may be equal.  `arrivals` and `cut` are history.  The
limiter and the life cycle are one module because the limiter's memory is the
process's: a restart forgets it.

What the code does, and no document denies:

* `antiSpamMiddleware` stands before `requireAuth`, so `req.userId` is never set
  and the key is the address: users behind one address share a window;
* refused writes are kept and counted, so that a client which keeps trying is
  never admitted again until it pauses;
* each process of the cluster has its own map; reads and socket events are not
  counted;
* `server.close` does not close WebSockets or stuck requests, so a server with
  clients usually ends by the forced exit, with code 1;
* a `listen` that fails becomes an uncaught exception, `close` calls back with an
  error, and the process exits with code 0;
* a handler whose client has left is not waited for;
* PM2's own kill timeout may come before `FORCE_SHUTDOWN_MS`; it is `Kill`.

The clock never steps back; `Date.now()` might, by an adjustment.  A signal that comes
before `listen` has called back is taken to keep the server from listening, which
`index.js:108` does not look at.

### BackgroundJobs

`request[i]` is the handler of a request, `job[i]` the job it added; the queue
(`AddSettles`, `Failed`, `Stalled`) is the same for uploads and pushes.  An upload
goes through `PutStores`, `Insert`, `AddSettles`, a preview through `ReadMedia`,
`WriteMedia`, `FinishMedia`; `read[i]` is what the worker has read and not yet
written back.  A push is asked for, started (mute and tokens are read up to the
first `await`) and sent chunk by chunk; `left[i]` is what the run has yet to send:
`Sendable`, the registered devices whose tokens are in `ExpoTokens`, and none if `sdk`
is false, that is, if `expo-server-sdk` is not installed.
Each chunk may fail after it arrived.  `latest`, `raced`, `replaced`, `pushed`,
`withdrawn` and `steady` are history.

What the code does, and no document denies:

* `POST /privacy/encrypted-media-meta` replaces the column `encryption_meta_json`
  whole, with it `storage`: until a preview job writes it again, `signed-url` of a
  file in S3 answers with a local path (`MetadataIsKept` excepts it, `replaced`);
* metadata replaced between the worker's SELECT and UPDATE are lost (`raced`);
* objects are left behind without a row, rows without a preview;
* when the store or the queue rejects, the upload is not answered: Express 4 does
  not catch a rejected handler;
* without `expo-server-sdk` (`pushWorker.js:16`) a push job is done and reaches nobody;
  nor does it reach a device whose token is not Expo's (`pushWorker.js:17`), although
  `POST /push-token` takes any text for a token (`notifications.js:8-15`);
  `DoneReachesSteady` is about the devices that remain;
* Expo's tickets are not looked at; a push that hangs holds its slot.

### SupportTickets

A handler that will write a status is `Select` (its SELECTs, and the status it is
going to write), `InsertMessage`, `Update`.  `ruled[t]` (history) is the status
last decided by the administrator or by the deletion of the account; `muddled` are
the tickets over which an older status has been written back.  `stale` is set in
the handlers that a change of status overtakes (`Overtaken`).  Priority is written
by the same statements in the same way and left out.

The stale write-back is real: a ticket closed by NyxDev or by the deletion of an
account is reopened by the message of another worker that read it before.  Further,
`POST /messages` takes any text for a status from NyxDev, and
`support:ticket:new` is emitted to the room `user:NyxDev`, while sockets join
`user:<id>`, so that nobody hears it.

## What is checked

| Run | Instance | Shows |
| --- | --- | --- |
| `Market` | 2 workers, 2 users, 3 names, 2 listings, 10 turns, 1 crash | `SalesAreFinal`, `BooksBalance`, `UniqueLogins` in the cluster; `NoOverdraft` and the refinement of `AccountLedger` except for purchases overtaken by another worker's charge |
| `MarketStaleListing` | 1 worker | finding: `RefusedListingIsCancelled` fails |
| `Messages` | 1 worker, 2 users and notes to oneself, 1 message, 1 restart | `HandedIsDelivered`, `BurnedIsLast`, which one worker guarantees; `AckedIsStored`, `NoOrphanReactions`, which are proved for any number |
| `MessagesBurn` | 1 worker, reactions | finding: `BurnIsReal` fails |
| `Groups` | 2 workers, 2 users, 2 messages, 2 links, 6 requests, 1 crash | `BansAreAudited` in the cluster; `OneInvite`, `DeletionIsWhole`, `BansStand` and the refinement of `GroupRoles` except where another worker has changed, in the middle of the handler, the table its test was about |
| `Channels` | 2 workers, 2 users, 5 requests, 1 crash | `OwnerKeepsSeat`, `ApprovedIsAdmitted` in the cluster; `RightsAreAsGranted`, `LawfulEntry` while handlers do not overlap |
| `ChannelPosts` | 2 workers, 1 administrator, 2 texts, 2 posts, 4 requests, 2 crashes | `ScheduledIsQuiet`, `HistoryIsOrdered` in the cluster; `HistoryIsComplete`, `FeedIsCurrent` while handlers do not overlap |
| `AccountRecovery` | 2 workers, 2 users, 2 names, 2 challenges, 1 login at a time | `AccountsAreTheirs` in the cluster; `OneTimeNonce` while handlers do not overlap |
| `BotUpdates` | 1 client, 1 webhook, 2 updates, 2 attempts, 1 change of webhook, 1 death | `BoundedCopies`, `PollSkipsNothing`, `UpdatesHaveBot`, refinement of `WebhookDelivery`, and the liveness properties `JobsSettle` and `AppIsAnswered` |
| `ApiProcess` | 2 clients behind 1 address, 2 writes per window of 2, 5 writes, 5 instants, 2 lives | `DecisionsAreExact`, `CleanExit`, and the liveness property `AlwaysEnds` |
| `BackgroundJobs` | 1 upload, 1 push, 3 devices, 2 of them with Expo tokens, in chunks of 1, with and without the SDK, 2 attempts, 2 changes, 1 death | `NothingDangles`, `MetadataIsKept`, `BoundedPushes`, `DoneReachesSteady`, `WithdrawnStaysQuiet`, and the liveness property `PreviewsSettle` |
| `SupportTickets` | 3 workers, 2 accounts, 1 ticket, 3 replies, 1 failure | `RulingsStand`, except for tickets over which a stale status was written |

The type invariants, and invariants that a constraint of the schema or a short
argument makes true (`OneActiveListingPerName`, `OneConversationPerPair`,
`MessagesHaveConversation`, `DeliveredWasHanded`,
`OwnerIsCreator`, `NoOrphans`, `OwnerIsSeated`, `SpentNonceIsGone`, `NoBurst`), are
proved and not repeated by a run.

**Bounds.**  Two workers are enough for every race here: each is between one
handler's two statements and somebody else's one.  Two users are the two
parties of every rule (buyer and seller, sender and recipient, actor and
target); a third name lets a sale, a rename and a registration compete.  Table
bounds (`MaxListings`, `MaxMessages`, `MaxInvites`, `MaxUpdates`) keep ids
finite; two rows let one row's handler run against another's.  Of the passing runs
only `Messages` gives a clustered component a single worker: what it says of the cluster (`AckedIsStored`, `NoOrphanReactions`) rests on the
proofs, which have no bounds.  `MaxSpent` and
`MaxCredited` bound sums; a balance of two pays for one name at two or for two
products at one, so that the third charge, and the second through another worker, meet
the boundary.  Ten turns (`MaxTurns`) are two registrations of two turns each, and six
turns for what the two users and the two workers then do to each other; six requests
(`MaxRequests`) in `Groups` found a group, fill it and let two handlers race, and every
exception the properties make does occur within them.  Five requests
(`MaxHandlers`) in `Channels` are enough to found a channel, make it private,
invite or ban, and let two requests race; four in `ChannelPosts` are a post, a load and two requests about it, all made by an
administrator, who may do whatever anybody may.  Two challenges in
`AccountRecovery` let one replace the other.  In `ApiProcess` five writes at a limit
of two within a window of two are enough for writes to be admitted, refused, kept
though refused, and admitted again when the window has passed; two lives let a
restart forget.  In `BackgroundJobs` two devices in chunks of one make a job fail
after its first chunk; one upload suffices because uploads share nothing but the
queue.  `SupportTickets` needs three workers for a write-back that overtakes two
others.  That the properties proved hold
without the bounds says that nothing hides behind them.
`MaxCrashes`,
`MaxRestarts`, `MaxRebinds`, `MaxChanges` and `MaxFailures` bound events without which the rest is checked as
well.  Symmetry is used in runs without liveness only.  `CHECK_DEADLOCK FALSE`
everywhere: a system whose bounds are used up and whose clients are silent has
nothing to do.

**Fairness** is assumed only of what a process does by itself, never of people or
of other services.  `BotUpdates`: a handler goes on after its await (`Insert`,
`CallReturns`; the fetch is aborted after `BOT_WEBHOOK_TIMEOUT_MS`), the three
DELETEs of one handler follow each other, the queue worker starts a waiting job
when it has room and a fetch of the worker ends one way or the other; nothing is
assumed of the queue's answer to `add`, of the bot's polling, of its owner.
`ApiProcess`: a timer that is due fires (`ForceExit`); that clients leave, handlers
answer or Redis says goodbye is not assumed.  `BackgroundJobs`: the media worker
takes a waiting job and its processor, which awaits nothing, ends; nothing is
assumed of Expo, whose call has no time limit, so no push need ever settle.

## Findings

Two runs end in a counterexample that shows the code doing other than a comment or
its own statement says: `MarketStaleListing`, `MessagesBurn`.  `PROJECT.json`
quotes the lines.

The runs with two workers state their properties with the races that the code leaves
open as exceptions: a handler is excepted only if another worker has changed, since it
began, the table (or, for a purchase, the buyer's balance) that its test was about.  Each exception
does occur; without it the run fails.  The first two contradict what the code sets out
to do:

* `NoOverdraft`, `ImplementsLedger`: two purchases of one user that both read the
  balance (`premium.js:17`) before either transaction leave it negative;
* `DeletionIsWhole`: a message posted through another worker between the statements
  of `groups.js:525` leaves a group without members, which nobody may delete;
* `BansStand`: a ban renewed between the SELECT and the DELETE of `permissions.js:58` is
  erased as lapsed;
* `OneInvite`: two links regenerated at once (`groups.js:338`) both stay;
* `ImplementsGroupRoles`: a removal decided before its target was promoted removes an
  administrator.

A listing may also appear for a name that somebody registered after
`marketplace.js:55` looked; no property excludes it, `SalesAreFinal` and
`UniqueLogins` say that nobody pays for such a name.

In `Messages` two properties hold with one worker and not with two:

* `HandedIsDelivered`: a message handed to a recipient whose socket is on another
  worker is never marked as delivered, although
  `NYX_SERVER_MESSAGE_DELIVERY_FIX_REPORT.md:9` says a recipient who is online has
  his messages marked: `sockets/index.js:80` reads this worker's rooms;
* `BurnedIsLast`: a `read` event may follow `burned`.

In `Channels`, `LawfulEntry` (a subscription overtaken by a ban, by the
channel becoming private or deleted) and `RightsAreAsGranted` (the rights of
somebody dismissed while he is promoted) are stated as long as no two handlers
have overlapped, and so are `HistoryIsComplete`, `FeedIsCurrent` and
`OneTimeNonce`, of which the sections above say what overlaps do.  `MetadataIsKept`
and `RulingsStand` except what a stale write-back has overwritten, and nothing
else.

## What is proved

`UsernameMarketProofs`, checked by TLAPS, for every finite set of workers and users, all
names, all prices and all bounds:

* `TypeCorrect`: `Spec => []TypeOK`.
* `LoginsAreUnique`: `UniqueLogins` is inductive with `TypeOK`; the UNIQUE
  constraint is what `RegisterInsert` and `Rename` rest on, and the test inside
  the transaction what `Buy` rests on.
* `OneListingPerName`, from the partial unique index.
* `SalesFinal`: the action property `SalesAreFinal`, step by step.
* `NobodyOverdraws` and `LedgerImplemented`: `NoOverdraft` and `ImplementsLedger`, for
  **any** number of workers.  `PurchaseCommit` does not test the balance.  The
  strengthening says that the balance still covers the purchase under way of every
  worker that is not in `overtaken` (`PurchaseBacked`: only another worker's charge can
  take it away, and every charge marks whom it overtakes) and that every actor in a
  task has an account (`KnownActors`).  `LedgerStep` lists what a step may do to the
  balances; `StepIsLedgerStep` shows that every step is one, or the commit of an
  overtaken purchase, and both theorems follow.
* `AloneNotOvertaken`: if all workers are equal nobody is ever overtaken, so that with
  one process both hold without exception.
* `BooksAreBalanced`: `Spec => []BooksBalance`, for **any** number of workers.
  `Total` is a fold over the users, so the lemmas begin with what a fold over a
  finite set is: the partial sums exist (`SumsExist`), `Total` is the one over the
  whole domain (`TotalIsSum`), and a change at one point changes it by as much
  (`TotalChanges`).  They are proved by induction over finite sets, stated with a
  set of good subsets (`SubsetsByInduction`) because the provers cannot
  instantiate an induction theorem that takes an operator.  `BooksStep` lists the
  eight ways a step may touch the books, `Surplus` is what they hold above what
  the rows explain, and the invariant `BooksInv` says that it is a natural number,
  and zero while no worker has died.  It adds that somebody without an account has
  no balance (`NothingBefore`) and that actors have accounts.  This is where the
  sets of workers and users must be finite (`FiniteAssumption`).

`ChannelsProofs`, for every set of workers and users, every set of grants and all
bounds; overlapping handlers and killed workers included:

* `TypeCorrect`: `Spec => []TypeOK`, from the shape of the statement lists.
* `OwnerKeeps`: `Spec => OwnerKeepsSeat`.  The guard `Dismissable` is evaluated
  when a request is taken and the statements run later, so the action property
  needs the invariant `OwnerSafe`: no worker has a dismissing statement left
  whose target is the owner.  It is inductive because the owner never changes
  after the creation and a list that dismisses is only started against others.
* `OwnerSeated`: `Spec => []OwnerIsSeated`.  The invariant `Seated` says in
  addition where in the list of the creation the worker is, so that the last
  statement finds the first ones done.
* `ApprovedAdmitted`: `Spec => []ApprovedIsAdmitted`, from `ApprovalInv`: whoever
  is about to mark a request approved has the subscription right behind it.
* `RightsAsGranted` and `EntersLawfully`: `RightsAreAsGranted` and `LawfulEntry`,
  which except overlaps by their own words (`raced`).  `Alone` says that while
  nothing has overlapped one worker at most is under way, `Formed` what its list
  of statements looks like from the middle on (a promotion's INSERT of the
  administrator still has its rights behind it).  `RightsInv` then follows rights
  from the request to the table, through removals and demotions whose second
  DELETE is still to come, and `EntryInv` says that whoever is about to be
  subscribed may still be.

`DirectMessagesProofs`, for every set of workers, users and pairs who write to
each other, with and without the Redis adapter, all bounds, shutdowns and kills
included:

* `TypeCorrect`: `Spec => []TypeOK`.
* `AckedStored`: `Spec => []AckedIsStored`.  Not inductive alone: the
  acknowledgement follows the INSERT by up to two statements of other workers,
  and the INSERT must not hit a row that exists.  `HandlerInv` adds the tables
  (`RowInv`: ids are handed out in order, a row below the next id is there or was
  burned on request) and each handler's memory (`TaskInv`: what it read of a
  message is still true if the message is still there).  The lemma `GrowsStep`
  says once how any step may change the tables; a handler that only waits is then
  covered by `TaskKept`, and only the worker that moves needs a case of its own.
* `ConversationsAreUnique`, `MessagesInConversations`, from `ConvInv`: pairs are
  stored in the order `Pair` gives them.  This is where user ids must be
  positive (`UserAssumption`; they are `AUTOINCREMENT`): a pair is compared, not
  merely named.
* `ReactionsHaveMessage`: the INSERT of a reaction rests on the foreign key, its
  author's right to react on `TaskInv`.
* `DeliveredHanded`: `TaskInv` says of `SendMark` that the emit went out.
* `HandedMarked`: `HandedIsDelivered`, if all workers are one **or** the Redis adapter
  is off: either is enough for an emit to reach just the sockets in whose rooms the
  sender looks (`LocalEmits`).  `HandInv` adds that a message about to be emitted
  is new to everybody and that one handler at most is sending it.
* `BurnedStaysBurned`: `BurnedIsLast`, under `OneWorker`.  `BurnedInv` says that who
  has heard `burned` heard it of a message that is gone, and that a handler which
  is going to emit about a message still finds it stored.

`GroupsProofs`, for every set of workers and users and all bounds, killed workers
included:

* `TypeCorrect`: `Spec => []TypeOK`.
* `OwnerCreated`: `Spec => []OwnerIsCreator`.  The creator's row is written by the
  second statement of the creation.  `OwnerInv` adds that until then the group
  has no owner, so that nobody deletes it (`Founding`), and that an id without a
  row has no members and no handler (`Unfounded`).
* `NothingOrphaned`: `Spec => []NoOrphans`.  The deletion is four statements with
  others in between; what they insert is refused by a foreign key or removed by
  a cascade.  A group without a row has no members, hence no admin, hence no
  request that writes.
* `BansLogged`: `Spec => []BansAreAudited`, from `AuditInv`: a ban without its
  entry has the worker that owes it.
* `LinksReplaced`, `DeletesWhole`, `BansStanding`, `ImplementsRoles`: `OneInvite`,
  `DeletionIsWhole`, `BansStand`, `ImplementsGroupRoles`, for **any** number of workers,
  killed or not.  They share the invariant `HandInv`: for each worker (`Current`), what
  its handler tested is still true (`Entitled`: who removes, promotes or bans may; who
  creates finds no member), and what its earlier statements removed is still gone (no
  link between the DELETE and the INSERT, no message left when the group goes, no
  standing ban under `ForgetBan`), unless `overtaken` names the table in question.
  `StepInHand` follows the worker that moves, `OthersInHand` says of all others that
  what changes under them is noted.  For the refinement, `StepIsRolesStep` maps each
  statement that changes a role to one act of `GroupRoles`; every other step stutters.
* `AloneNotOvertaken`: if all workers are equal `overtaken` stays empty, so that the
  exceptions vanish.

`AccountRecoveryProofs`, for every set of workers, users, names and words, all
bounds, killed workers included:

* `TypeCorrect`: `Spec => []TypeOK`.
* `AccountsKept`: `Spec => []AccountsAreTheirs`.  `OwnerInv` adds that a handler
  past the signature, and a login whose password matched, work for the owner of
  the account they *read*: names may move, the account in hand does not.
* `SpentNoncesGone`: `Spec => []SpentNonceIsGone`, from `NonceInv`: a nonce is in
  the row of the one name it was issued for, and issued once.
* `NoncesOnce`: `Spec => []OneTimeNonce`, from `OneTimeInv`: without overlaps at
  most one worker is busy, and what it verified is still in the table.

`ChannelPostsProofs`, for every set of workers, users, staff and texts, all
bounds, overlapping handlers and killed workers included:

* `TypeCorrect`: `Spec => []TypeOK`.
* `ScheduledQuiet`: `Spec => ScheduledIsQuiet`, about the list of posts; of the list of
  pins it says only that what enters it is pinned.  `QuietInv` follows a post from
  the handler to the screen: a handler past its statement that is going to
  announce a post as new, and every such event on its way, is about a post that
  is out (`IsOut`), and a post that is out stays out.
* `HistoryOrdered`: `Spec => []HistoryIsOrdered`.  `OrderInv` adds that what an
  edit under way is going to store is a subsequence of what its post has said,
  which it remains while the post says more (`WithinLonger`, `WithinBoth`).
* `HistoryComplete`: `Spec => []HistoryIsComplete`, from `CompleteInv`: without
  overlaps an edit finds its post as it read it.
* `FeedCurrent`: `Spec => []FeedIsCurrent`, which looks at the screen when nothing
  is under way.  In between, `FeedInv` says where the screen is going: there is a
  sequence of screens (`Leads`) from the present one through the events on the
  wire, each applied as `After` says, to the one that shows the tables once the
  handler has emitted what it still has to.  A statement appends to that sequence
  what it is going to tell (`StatementShows`), an event received takes its first
  screen away (`Receives`).

`ServiceProofs`, on `ApiProcess`, for every set of clients and addresses, every limit,
window and set of stores, all bounds:

* `TypeCorrect`: `Spec => []TypeOK`.
* `DecisionsExact`: `Spec => []DecisionsAreExact`, with `BucketInv`: no time stamp lies
  in the future, and a write the list of its address lacks has left the window,
  for good since the clock does not step back.  The lists are not the writes of the
  window, the pruned list that is counted is.
* `WindowBounded`: `Spec => []NoBurst`: no window admits more than `MaxWrites`.
* `ExitsClean`: `Spec => []CleanExit`, from `DrainInv`: while the process lets Redis
  and Postgres go, no connection is left, `shuttingDown` is set so that nothing begins
  again, and what comes first in the order is gone.

on `BotUpdates`, for every finite set of callers (`CallerAssumption`), any webhooks,
attempts, concurrency and page size, all bounds, deaths of API and worker included:

* `BotTypeCorrect`: `BotSpec => []BotTypeOK`, with the room left for an id
  (`RoomLeft`) and the attempts a waiting job has left (`AttemptsLeft`).
* `CopiesAreBounded`: `BoundedCopies`.  Not inductive: `CopiesCounted` accounts for
  every copy by the call that is over, a failed attempt, the attempt that
  succeeded or a death, with at most one caller for each update (`OneCaller`).
* `NoUpdateWithoutBot`: `UpdatesHaveBot`, since the last DELETE cascades and an
  INSERT after it is refused by the foreign key.
* `PollingIsComplete`: `PollSkipsNothing`.  A page is the beginning of what is
  stored above the offset, up to its largest id (`LargestExists`, by induction over
  finite sets), and what is inserted later has a larger one (`IdsInOrder`).
* `UpdatesImplementDelivery`: the refinement of `WebhookDelivery`'s initial states and
  steps.  `AcceptedWasReceived` says that a job about to mark has had its answer.

on `SupportTickets`, for every set of workers and users, any number of tickets:

* `DeskTypeCorrect`: `DeskSpec => []DeskTypeOK`.
* `RulingsPersist`: `RulingsStand`, from `ReadIsCurrent`: a handler that is going to
  write a status back writes the one that is there, unless the administrator
  decides or the handler is marked as overtaken, which every change of status does
  (`OvertakenKeeps`).

`BackgroundJobsProofs`, for any number of uploads, pushes and devices, every chunk
size and number of attempts, all deaths included:

* `TypeCorrect`: `Spec => []TypeOK`, with `AttemptsLeft`: a job that waits or runs has
  an attempt left.
* `RowsHaveObjects` and `MetadataKept`: `NothingDangles` and `MetadataIsKept`, from
  `UploadsInv`, which follows the object, the row, the job and the copy in the
  worker's hands.
* `PushesBounded`, `DoneReaches`, `WithdrawnQuiet`: `BoundedPushes`,
  `DoneReachesSteady`, `WithdrawnStaysQuiet`, from `PushesInv`: a device has as many
  copies as there were failures and stalls, plus one if the run has passed it; a
  device of `steady` has its copy or is still in `left`; a device in `left` is
  registered and not muted or has been withdrawn during the run.  `DoneReaches` is about
  devices with Expo tokens where the SDK is installed, which is what `Sendable` leaves.

The assumptions are those of the modules: the sentinel is not a name, prices are
positive, bounds are natural numbers, workers, users and callers are finite sets where
something is counted, Expo tokens are tokens of devices (`TokenAssumption`).  That all
workers are one (`OneWorker` in `DirectMessagesProofs`, the hypothesis of the two
`AloneNotOvertaken`) and `Adapter = FALSE` are hypotheses of single theorems, named
above; each describes a deployment the code runs in (`npm start` without PM2's cluster
and the one API container of `docker-compose.production.yml`; a server without
`REDIS_URL`), and without them the property fails, as "Findings" says.

Every invariant and action property a passing run checks, and every refinement, is
thereby stated by a theorem.  **Only model-checked** is

* liveness: `JobsSettle`, `AppIsAnswered`, `AlwaysEnds`, `PreviewsSettle`, since the
  provers at hand handle neither fairness nor `ENABLED`;
* the two findings, which are counterexamples.

## Not modelled, and why

Contents of messages, profile fields, search, statistics, settings, stories,
stickers, saved items: data no property tells apart, written by one statement of
their owner.  Calls: the server forwards signalling and keeps nothing.  Names
across users, channels, groups and bots: `isUsernameAvailable` is asked for
channels, groups and bots, while registration and renaming look at users only, so
there is no promise to state.  Migrations, nginx: I/O.  helmet, compression,
express-rate-limit: libraries that are configured only.

## Plan

1. `Backups`: `backupWorker.js` copies the file of a database in WAL mode without
   its log; a model of pages, log and checkpoints would say what a copy contains.
2. Group settings, topics and slow mode (`groups.js`), the audit log and reactions of
   channels: the statements of `Groups` and `Channels` that are left out.
3. `BurnedIsLast` and `HandedIsDelivered` in the cluster, with the exceptions that the
   races between workers ask for, as `Groups` and `UsernameMarket` have them.
