--------------------------- MODULE UsernameMarket ---------------------------
(***************************************************************************)
(* Accounts, their NYX balances and the username marketplace:              *)
(* routes/marketplace.js, routes/premium.js and the parts of routes/auth.js *)
(* and routes/users.js that create, rename and delete an account.          *)
(*                                                                         *)
(* Every API process ("worker") of the PM2 cluster opens the same SQLite   *)
(* file.  A statement outside db.transaction commits by itself, and inside  *)
(* one process a handler runs to its end without interruption except at an *)
(* await.  So a handler with several statements is several actions here,   *)
(* linked by the worker's task; a db.transaction is one action; only the   *)
(* await of bcrypt.hash in /register lets one worker serve somebody else.  *)
(***************************************************************************)
EXTENDS Integers, Sequences, FiniteSets, Functions

CONSTANTS
    Workers,        \* API processes that share the database
    Users,          \* people who may hold an account (rows of table users)
    Names,          \* usernames of the permitted shape (USERNAME_RE)
    StartBalance,   \* users.nyx_balance DEFAULT (1000 in db.js)
    ListingPrices,  \* prices a seller may ask, positive
    ProductPrices,  \* price_nyx of the rows of premium_products
    Credits,        \* amounts a coin pack or an advertisement credits
    MaxListings,    \* bound: rows of username_listings
    MaxSpent,       \* bound: NYX one user spends on premium products
    MaxCredited,    \* bound: NYX one user is credited
    MaxTurns,       \* bound: times a worker takes up a request or a
                    \* registration that bcrypt.hash has given back
    MaxCrashes,     \* bound: worker crashes
    NoName          \* no login: no account, or the tombstone of a deleted one

ASSUME NameAssumption == NoName \notin Names
ASSUME AmountAssumption ==
    /\ StartBalance \in Nat
    /\ ListingPrices \subseteq Nat \ {0}
    /\ ProductPrices \subseteq Nat
    /\ Credits \subseteq Nat \ {0}
ASSUME FiniteAssumption == IsFiniteSet(Workers) /\ IsFiniteSet(Users)
ASSUME BoundAssumption ==
    {MaxListings, MaxSpent, MaxCredited, MaxTurns, MaxCrashes} \subseteq Nat

VARIABLES
    account,    \* account[u]: "none", "open" or "deleted" (users.deleted_at)
    login,      \* login[u]: users.username
    balance,    \* balance[u]: users.nyx_balance
    listings,   \* table username_listings, in id order
    spent,      \* spent[u]: sum of u's rows in premium_purchases
    ledger,     \* ledger[u]: sum of u's rows in wallet_transactions
    task,       \* task[w]: the handler worker w is in the middle of
    hashing,    \* hashing[u]: the registration of u waiting for bcrypt.hash
    turns,      \* number of requests and registrations taken up so far
    crashes,    \* number of worker crashes so far
    overtaken,  \* history: workers in a handler for somebody who has been
                \* charged through another worker since that handler began
    refused     \* history: listings whose purchase was answered with 409

users == <<account, login, balance>>
wallet == <<spent, ledger>>
volatile == <<task, hashing>>
vars == <<users, listings, wallet, volatile, turns, crashes, overtaken, refused>>

-----------------------------------------------------------------------------

Idle == [op |-> "idle"]
NotHashing == [op |-> "none"]

Tasks == {Idle}
    \cup [op: {"list"}, user: Users, name: Names, price: ListingPrices]
    \cup [op: {"purchase"}, user: Users, price: ProductPrices]
    \cup [op: {"adReward"}, user: Users, amount: Credits]

Listing == [seller: Users, name: Names, price: ListingPrices,
            status: {"active", "sold", "cancelled"}]

TypeOK ==
    /\ account \in [Users -> {"none", "open", "deleted"}]
    /\ login \in [Users -> Names \cup {NoName}]
    /\ balance \in [Users -> Int]
    /\ listings \in Seq(Listing)
    /\ spent \in [Users -> Nat]
    /\ ledger \in [Users -> Nat]
    /\ task \in [Workers -> Tasks]
    /\ hashing \in [Users -> {NotHashing} \cup [op: {"register"}, worker: Workers, name: Names]]
    /\ turns \in Nat
    /\ crashes \in Nat
    /\ overtaken \subseteq Workers
    /\ refused \subseteq Nat

Init ==
    /\ account = [u \in Users |-> "none"]
    /\ login = [u \in Users |-> NoName]
    /\ balance = [u \in Users |-> 0]
    /\ listings = <<>>
    /\ spent = [u \in Users |-> 0]
    /\ ledger = [u \in Users |-> 0]
    /\ task = [w \in Workers |-> Idle]
    /\ hashing = [u \in Users |-> NotHashing]
    /\ turns = 0
    /\ crashes = 0
    /\ overtaken = {}
    /\ refused = {}

-----------------------------------------------------------------------------
(* What the statements read and what the constraints enforce.              *)

\* SELECT id FROM users WHERE username = ? finds no row.
NameFree(n) == \A u \in Users : login[u] # n

\* users.username is UNIQUE: u may be given n unless another row holds it.
UniqueAllows_Unchecked(u, n) == TRUE
UniqueAllows(u, n) == \A v \in Users \ {u} : login[v] # n

\* idx_active_listing_username: one active listing per name.
ActiveIndexAllows(n) ==
    \A i \in DOMAIN listings : listings[i].name = n => listings[i].status # "active"

\* A token exists for every account ever opened; requireAuth does not look at
\* deleted_at, so the owner of a deleted account may still call.
HasToken(u) == account[u] # "none"

\* What the purchase demands inside its transaction.
ForSale_AnyStatus(i) == TRUE
ForSale(i) == listings[i].status = "active"
CanPay_OffByOne(u, p) == balance[u] >= p - 1
CanPay(u, p) == balance[u] >= p

\* The status an UPDATE leaves behind.
Cancelled_Toggle(s) == IF s = "active" THEN "cancelled" ELSE "active"
Cancelled(s) == "cancelled"

\* The balances after u is credited, after b pays s.
Credited_Lost(u, a) == balance
Credited(u, a) == [balance EXCEPT ![u] = @ + a]
Transferred_SellerFirst(b, s, p) == [balance EXCEPT ![s] = @ + p]
Transferred(b, s, p) == [balance EXCEPT ![b] = @ - p, ![s] = @ + p]

Ready(w) == task[w] = Idle
Begin(w, t) == task' = [task EXCEPT ![w] = t]
Finish(w) == task' = [task EXCEPT ![w] = Idle]

-----------------------------------------------------------------------------
(* Accounts.                                                               *)

\* POST /auth/register up to "await bcrypt.hash".
RegisterCheck(w, u, n) ==
    /\ Ready(w)
    /\ account[u] = "none"
    /\ hashing[u] = NotHashing
    /\ NameFree(n)
    /\ hashing' = [hashing EXCEPT ![u] = [op |-> "register", worker |-> w, name |-> n]]
    /\ UNCHANGED <<users, listings, wallet, task, crashes, refused>>

\* ... and from the await on: the INSERT, which the UNIQUE constraint may
\* refuse (the rejection of the async handler then goes unanswered).
RegisterInsert(w, u) ==
    LET n == hashing[u].name IN
    /\ Ready(w)
    /\ hashing[u] # NotHashing
    /\ hashing[u].worker = w
    /\ hashing' = [hashing EXCEPT ![u] = NotHashing]
    /\ IF UniqueAllows(u, n)
         THEN /\ account' = [account EXCEPT ![u] = "open"]
              /\ login' = [login EXCEPT ![u] = n]
              /\ balance' = [balance EXCEPT ![u] = StartBalance]
         ELSE UNCHANGED users
    /\ UNCHANGED <<listings, wallet, task, crashes, refused>>

\* PATCH /users/me/username.  One action: the UNIQUE constraint repeats at the
\* UPDATE the test that the SELECT made, and a refused UPDATE changes nothing.
Rename(w, u, n) ==
    /\ Ready(w)
    /\ HasToken(u)
    /\ UniqueAllows(u, n)
    /\ login' = [login EXCEPT ![u] = n]
    /\ UNCHANGED <<account, balance, listings, wallet, volatile, crashes, refused>>

\* POST /users/me/delete: the row stays under a tombstone name.  The SELECT
\* and the transaction are one action: between them only a second deletion of
\* the same account could matter, and it writes the same tombstone.
DeleteAccount(w, u) ==
    /\ Ready(w)
    /\ account[u] = "open"
    /\ account' = [account EXCEPT ![u] = "deleted"]
    /\ login' = [login EXCEPT ![u] = NoName]
    /\ UNCHANGED <<balance, listings, wallet, volatile, crashes, refused>>

-----------------------------------------------------------------------------
(* The marketplace.                                                        *)

\* POST /marketplace/listings: the name must not be somebody's login.
ListCheck(w, u, n, p) ==
    /\ Ready(w)
    /\ HasToken(u)
    /\ Len(listings) < MaxListings
    /\ NameFree(n)
    /\ Begin(w, [op |-> "list", user |-> u, name |-> n, price |-> p])
    /\ UNCHANGED <<users, listings, wallet, hashing, crashes, refused>>

\* ... then the INSERT, refused by the partial unique index.
ListInsert(w) ==
    /\ task[w].op = "list"
    /\ listings' = IF ActiveIndexAllows(task[w].name)
                     THEN Append(listings, [seller |-> task[w].user, name |-> task[w].name,
                                            price |-> task[w].price, status |-> "active"])
                     ELSE listings
    /\ Finish(w)
    /\ UNCHANGED <<users, wallet, hashing, crashes, refused>>

\* DELETE /marketplace/listings/:id checks the seller, never the status: a
\* sold listing can be cancelled too.  One action: seller_id never changes.
Cancel(w, u, i) ==
    /\ Ready(w)
    /\ HasToken(u)
    /\ listings[i].seller = u
    /\ listings' = [listings EXCEPT ![i].status = Cancelled(@)]
    /\ UNCHANGED <<users, wallet, volatile, crashes, refused>>

\* POST /marketplace/listings/:id/buy when every check passes: the three
\* UPDATEs of the transaction.
Buy(w, u, i) ==
    LET l == listings[i] IN
    /\ Ready(w)
    /\ HasToken(u)
    /\ ForSale(i)
    /\ l.seller # u
    /\ CanPay(u, l.price)
    /\ NameFree(l.name)
    /\ login' = [login EXCEPT ![u] = l.name]
    /\ balance' = Transferred(u, l.seller, l.price)
    /\ listings' = [listings EXCEPT ![i].status = "sold"]
    /\ UNCHANGED <<account, wallet, volatile, crashes, refused>>

\* ... and when the name has become a login: the UPDATE to 'cancelled' is in
\* the transaction that the throw rolls back, so only the answer remains.
BuyRefused(w, u, i) ==
    LET l == listings[i] IN
    /\ Ready(w)
    /\ HasToken(u)
    /\ ForSale(i)
    /\ l.seller # u
    /\ CanPay(u, l.price)
    /\ ~NameFree(l.name)
    /\ refused' = refused \cup {i}
    /\ UNCHANGED <<users, listings, wallet, volatile, crashes>>

-----------------------------------------------------------------------------
(* Premium products and the wallet.                                        *)

\* POST /premium/purchase/:productId: the balance is read before the
\* transaction begins.
PurchaseCheck(w, u, p) ==
    /\ Ready(w)
    /\ HasToken(u)
    /\ spent[u] + p <= MaxSpent
    /\ CanPay(u, p)
    /\ Begin(w, [op |-> "purchase", user |-> u, price |-> p])
    /\ UNCHANGED <<users, listings, wallet, hashing, crashes, refused>>

\* ... then the transaction: UPDATE of the balance, INSERT of the purchase.
PurchaseCommit(w) ==
    /\ task[w].op = "purchase"
    /\ balance' = [balance EXCEPT ![task[w].user] = @ - task[w].price]
    /\ spent' = [spent EXCEPT ![task[w].user] = @ + task[w].price]
    /\ Finish(w)
    /\ UNCHANGED <<account, login, listings, ledger, hashing, crashes, refused>>

\* POST /premium/coins/purchase: one transaction.
CoinsPurchase(w, u, a) ==
    /\ Ready(w)
    /\ HasToken(u)
    /\ ledger[u] + a <= MaxCredited
    /\ balance' = Credited(u, a)
    /\ ledger' = [ledger EXCEPT ![u] = @ + a]
    /\ UNCHANGED <<account, login, listings, spent, volatile, crashes, refused>>

\* POST /premium/coins/ad-reward: the UPDATE commits by itself ...
AdRewardCredit(w, u, a) ==
    /\ Ready(w)
    /\ HasToken(u)
    /\ ledger[u] + a <= MaxCredited
    /\ balance' = Credited(u, a)
    /\ Begin(w, [op |-> "adReward", user |-> u, amount |-> a])
    /\ UNCHANGED <<account, login, listings, wallet, hashing, crashes, refused>>

\* ... and then the INSERT into wallet_transactions.
AdRewardRecord(w) ==
    /\ task[w].op = "adReward"
    /\ ledger' = [ledger EXCEPT ![task[w].user] = @ + task[w].amount]
    /\ Finish(w)
    /\ UNCHANGED <<users, listings, spent, hashing, crashes, refused>>

-----------------------------------------------------------------------------

\* A worker dies (OOM kill, uncaught exception, deploy): what it was doing is
\* forgotten, what it committed stays.
Crash(w) ==
    /\ crashes < MaxCrashes
    /\ crashes' = crashes + 1
    /\ Finish(w)
    /\ hashing' = [u \in Users |-> IF hashing[u] # NotHashing /\ hashing[u].worker = w
                                     THEN NotHashing ELSE hashing[u]]
    /\ UNCHANGED <<users, listings, wallet, refused>>

AccountStep(w) ==
    \/ \E u \in Users, n \in Names : RegisterCheck(w, u, n) \/ Rename(w, u, n)
    \/ \E u \in Users : RegisterInsert(w, u) \/ DeleteAccount(w, u)

MarketStep(w) ==
    \/ \E u \in Users, n \in Names, p \in ListingPrices : ListCheck(w, u, n, p)
    \/ ListInsert(w)
    \/ \E u \in Users, i \in DOMAIN listings :
           Cancel(w, u, i) \/ Buy(w, u, i) \/ BuyRefused(w, u, i)

WalletStep(w) ==
    \/ \E u \in Users, p \in ProductPrices : PurchaseCheck(w, u, p)
    \/ PurchaseCommit(w)
    \/ \E u \in Users, a \in Credits : CoinsPurchase(w, u, a) \/ AdRewardCredit(w, u, a)
    \/ AdRewardRecord(w)

\* What a step of worker w does to the history.
Charged(u) == balance'[u] < balance[u]
Overtake(w) ==
    overtaken' = {x \in Workers :
                     /\ task'[x] # Idle
                     /\ x \in overtaken \/ (x # w /\ Charged(task'[x].user))}

\* Only a worker that is in no handler takes anything up.
Turn(w) ==
    IF Ready(w) THEN turns < MaxTurns /\ turns' = turns + 1 ELSE UNCHANGED turns

Next ==
    \E w \in Workers :
        /\ \/ (AccountStep(w) \/ MarketStep(w) \/ WalletStep(w)) /\ Turn(w)
           \/ Crash(w) /\ UNCHANGED turns
        /\ Overtake(w)

Spec == Init /\ [][Next]_vars

-----------------------------------------------------------------------------
(* Properties.                                                             *)

Total(f) == FoldFunction(LAMBDA a, b : a + b, 0, f)
Opened == {u \in Users : account[u] # "none"}
UnrecordedRewards ==
    Total([w \in Workers |-> IF task[w].op = "adReward" THEN task[w].amount ELSE 0])

\* Two people never have the same login, although /register tests the name
\* before an await and inserts after it, and renames, purchases and other
\* processes go on in between.
UniqueLogins ==
    \A u, v \in Users : u # v /\ login[u] = login[v] => login[u] = NoName

\* A name is on sale at most once, whoever lists it and in whichever process.
OneActiveListingPerName ==
    \A i, j \in DOMAIN listings :
        /\ listings[i].status = "active"
        /\ listings[j].status = "active"
        /\ listings[i].name = listings[j].name
        => i = j

\* Nobody spends what he does not have: a purchase takes a balance below zero
\* only if its buyer has been charged through another process between the SELECT
\* that found the balance sufficient (premium.js:17) and the transaction.
Stale(w) == w \in overtaken /\ task[w].op = "purchase" /\ task'[w] # task[w]
NoOverdraft ==
    [][\A u \in Users : balance'[u] < 0 /\ Charged(u) =>
           \E w \in Workers : Stale(w) /\ task[w].user = u]_vars

\* No NYX appears or vanishes.  Whatever crashes, the wallet's rows never claim
\* a credit no balance got; and as long as no worker has crashed, the balances
\* add up to what the accounts started with, plus what the wallet's rows say
\* was credited (and what a handler is about to record), less the purchases.
BooksBalance ==
    LET Opening == StartBalance * Cardinality(Opened)
        Held == Total(balance) + Total(spent)
    IN  /\ Held >= Opening + Total(ledger)
        /\ crashes = 0 => Held = Opening + Total(ledger) + UnrecordedRewards

\* A sale is final for the buyer: a listing becomes sold only from active, its
\* name was nobody's login and is then the login of exactly one account, which
\* paid the price in the same step; no listing ever becomes active again.
SaleStep ==
    \A i \in DOMAIN listings :
        /\ listings[i].status # "active" => listings'[i].status # "active"
        /\ listings[i].status # "sold" /\ listings'[i].status = "sold" =>
              LET l == listings[i] IN
              /\ l.status = "active"
              /\ NameFree(l.name)
              /\ \E u \in Users \ {l.seller} :
                    /\ login'[u] = l.name
                    /\ balance'[u] = balance[u] - l.price
                    /\ balance'[l.seller] = balance[l.seller] + l.price
SalesAreFinal == [][SaleStep]_vars

\* A purchase refused because the name has become a login leaves the listing
\* cancelled, as the UPDATE in the buy transaction means to.
RefusedListingIsCancelled == \A i \in refused : listings[i].status = "cancelled"

\* The balances behave like the atomic ledger, whatever the processes do in
\* between: every step opens an account, credits it, charges one that can pay, or
\* leaves the balances alone, but for a purchase whose buyer has been charged
\* through another process since his balance was read.
Ledger == INSTANCE AccountLedger WITH
    opened <- Opened, Prices <- ListingPrices \cup ProductPrices
ImplementsLedger ==
    /\ Ledger!LedgerInit
    /\ [][\/ Ledger!LedgerNext
          \/ UNCHANGED <<Opened, balance>>
          \/ \E w \in Workers : Stale(w)]_vars

=============================================================================
