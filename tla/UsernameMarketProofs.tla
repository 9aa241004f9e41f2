------------------------ MODULE UsernameMarketProofs ------------------------
(***************************************************************************)
(* Theorems about UsernameMarket for every set of workers, users, names    *)
(* and prices.  What needs a single API process says so in its statement.  *)
(***************************************************************************)
EXTENDS UsernameMarket, FiniteSetTheorems, WellFoundedInduction, TLAPS

-----------------------------------------------------------------------------
(* The type invariant.                                                     *)

\* Changing the status of one row leaves a well-typed table of the same length.
LEMMA StatusUpdate ==
    ASSUME NEW t \in Seq(Listing), NEW i \in DOMAIN t,
           NEW s \in {"active", "sold", "cancelled"}
    PROVE  /\ [t EXCEPT ![i].status = s] \in Seq(Listing)
           /\ DOMAIN [t EXCEPT ![i].status = s] = DOMAIN t
  <1>1. t[i] \in Listing
    OBVIOUS
  <1>2. [t[i] EXCEPT !.status = s] \in Listing
    BY <1>1 DEF Listing
  <1>3. [t EXCEPT ![i].status = s] = [t EXCEPT ![i] = [t[i] EXCEPT !.status = s]]
    OBVIOUS
  <1> QED
    BY <1>2, <1>3

\* The fields a handler reads back from its worker's task or from the pending
\* registration have the types they were stored with.
LEMMA TaskShape ==
    ASSUME TypeOK, NEW w \in Workers
    PROVE  /\ task[w].op = "list" =>
                 task[w].user \in Users /\ task[w].name \in Names /\ task[w].price \in ListingPrices
           /\ task[w].op = "purchase" => task[w].user \in Users /\ task[w].price \in ProductPrices
           /\ task[w].op = "adReward" => task[w].user \in Users /\ task[w].amount \in Credits
           /\ \A u \in Users : hashing[u] # NotHashing => hashing[u].name \in Names
  <1>1. task[w] \in Tasks
    BY DEF TypeOK
  <1>2. CASE task[w] = Idle
    BY <1>2 DEF Idle, TypeOK
  <1>3. CASE task[w] \in [op: {"list"}, user: Users, name: Names, price: ListingPrices]
    BY <1>3 DEF TypeOK
  <1>4. CASE task[w] \in [op: {"purchase"}, user: Users, price: ProductPrices]
    BY <1>4 DEF TypeOK
  <1>5. CASE task[w] \in [op: {"adReward"}, user: Users, amount: Credits]
    BY <1>5 DEF TypeOK
  <1> QED
    BY <1>1, <1>2, <1>3, <1>4, <1>5 DEF Tasks

\* What a step may write to a worker's task keeps it a task.
LEMMA TaskWrite ==
    ASSUME TypeOK, NEW w \in Workers
    PROVE  /\ Finish(w) => task' \in [Workers -> Tasks]
           /\ \A t \in Tasks : Begin(w, t) => task' \in [Workers -> Tasks]
  BY DEF TypeOK, Tasks, Finish, Begin

\* Every variable keeps the shape its table or its worker gives it.
LEMMA TypeStep == TypeOK /\ [Next]_vars => TypeOK'
  <1> SUFFICES ASSUME TypeOK, [Next]_vars PROVE TypeOK'
    OBVIOUS
  <1> DEFINE Typed == /\ account \in [Users -> {"none", "open", "deleted"}]
                      /\ login \in [Users -> Names \cup {NoName}]
                      /\ balance \in [Users -> Int]
                      /\ listings \in Seq(Listing)
                      /\ spent \in [Users -> Nat] /\ ledger \in [Users -> Nat]
                      /\ task \in [Workers -> Tasks]
                      /\ hashing \in [Users -> {NotHashing}
                             \cup [op: {"register"}, worker: Workers, name: Names]]
                      /\ crashes \in Nat /\ refused \subseteq Nat
  <1> USE DEF users, wallet, volatile
  <1>1. CASE UNCHANGED vars
    BY <1>1 DEF vars, TypeOK
  <1>2. ASSUME NEW w \in Workers, AccountStep(w) PROVE Typed'
    <2>1. ASSUME NEW u \in Users, NEW n \in Names, RegisterCheck(w, u, n) PROVE Typed'
      BY <2>1 DEF RegisterCheck, TypeOK
    <2>2. ASSUME NEW u \in Users, NEW n \in Names, Rename(w, u, n) PROVE Typed'
      BY <2>2 DEF Rename, TypeOK
    <2>3. ASSUME NEW u \in Users, RegisterInsert(w, u) PROVE Typed'
      <3>1. hashing[u].name \in Names
        BY <2>3, TaskShape DEF RegisterInsert
      <3>2. hashing' = [hashing EXCEPT ![u] = NotHashing]
        BY <2>3 DEF RegisterInsert
      <3>3. /\ account' \in [Users -> {"none", "open", "deleted"}]
            /\ login' \in [Users -> Names \cup {NoName}]
            /\ balance' \in [Users -> Int]
        <4>1. CASE UniqueAllows(u, hashing[u].name)
          <5>1. /\ account' = [account EXCEPT ![u] = "open"]
                /\ login' = [login EXCEPT ![u] = hashing[u].name]
                /\ balance' = [balance EXCEPT ![u] = StartBalance]
            BY <2>3, <4>1 DEF RegisterInsert
          <5> QED
            BY <5>1, <3>1, AmountAssumption DEF TypeOK
        <4>2. CASE ~UniqueAllows(u, hashing[u].name)
          BY <2>3, <4>2 DEF RegisterInsert, TypeOK
        <4> QED
          BY <4>1, <4>2
      <3> QED
        BY <2>3, <3>2, <3>3 DEF RegisterInsert, TypeOK
    <2>4. ASSUME NEW u \in Users, DeleteAccount(w, u) PROVE Typed'
      BY <2>4 DEF DeleteAccount, TypeOK
    <2> QED
      BY <1>2, <2>1, <2>2, <2>3, <2>4 DEF AccountStep
  <1>3. ASSUME NEW w \in Workers, MarketStep(w) PROVE Typed'
    <2>1. ASSUME NEW u \in Users, NEW n \in Names, NEW p \in ListingPrices,
                 ListCheck(w, u, n, p)
          PROVE  Typed'
      <3>1. [op |-> "list", user |-> u, name |-> n, price |-> p] \in Tasks
        BY DEF Tasks
      <3>2. task' \in [Workers -> Tasks]
        BY <2>1, <3>1, TaskWrite DEF ListCheck
      <3> QED
        BY <2>1, <3>2 DEF ListCheck, TypeOK
    <2>2. CASE ListInsert(w)
      <3>1. [seller |-> task[w].user, name |-> task[w].name,
             price |-> task[w].price, status |-> "active"] \in Listing
        BY <2>2, TaskShape DEF ListInsert, Listing
      <3>2. listings' \in Seq(Listing)
        BY <2>2, <3>1 DEF ListInsert, TypeOK
      <3>3. task' \in [Workers -> Tasks]
        BY <2>2, TaskWrite DEF ListInsert
      <3> QED
        BY <2>2, <3>2, <3>3 DEF ListInsert, TypeOK
    <2>3. ASSUME NEW u \in Users, NEW i \in DOMAIN listings, Cancel(w, u, i) PROVE Typed'
      BY <2>3, StatusUpdate DEF Cancel, Cancelled, TypeOK
    <2>4. ASSUME NEW u \in Users, NEW i \in DOMAIN listings, Buy(w, u, i) PROVE Typed'
      <3>1. listings[i] \in Listing
        BY DEF TypeOK
      <3>2. listings' \in Seq(Listing)
        BY <2>4, StatusUpdate DEF Buy, TypeOK
      <3>3. balance' \in [Users -> Int]
        <4>1. listings[i].price \in Nat /\ listings[i].seller \in Users
          BY <3>1, AmountAssumption DEF Listing
        <4>2. balance' = [balance EXCEPT ![u] = @ - listings[i].price,
                                         ![listings[i].seller] = @ + listings[i].price]
          BY <2>4 DEF Buy, Transferred
        <4> QED
          BY <4>1, <4>2 DEF TypeOK
      <3>4. login' \in [Users -> Names \cup {NoName}]
        <4>1. listings[i].name \in Names
          BY <3>1 DEF Listing
        <4>2. login' = [login EXCEPT ![u] = listings[i].name]
          BY <2>4 DEF Buy
        <4> QED
          BY <4>1, <4>2 DEF TypeOK
      <3> QED
        BY <2>4, <3>2, <3>3, <3>4 DEF Buy, TypeOK
    <2>5. ASSUME NEW u \in Users, NEW i \in DOMAIN listings, BuyRefused(w, u, i) PROVE Typed'
      <3>1. i \in Nat
        BY DEF TypeOK
      <3> QED
        BY <2>5, <3>1 DEF BuyRefused, TypeOK
    <2> QED
      BY <1>3, <2>1, <2>2, <2>3, <2>4, <2>5 DEF MarketStep
  <1>4. ASSUME NEW w \in Workers, WalletStep(w) PROVE Typed'
    <2>1. ASSUME NEW u \in Users, NEW p \in ProductPrices, PurchaseCheck(w, u, p) PROVE Typed'
      <3>1. [op |-> "purchase", user |-> u, price |-> p] \in Tasks
        BY DEF Tasks
      <3>2. task' \in [Workers -> Tasks]
        BY <2>1, <3>1, TaskWrite DEF PurchaseCheck
      <3> QED
        BY <2>1, <3>2 DEF PurchaseCheck, TypeOK
    <2>2. CASE PurchaseCommit(w)
      <3>1. task[w].user \in Users /\ task[w].price \in Nat
        BY <2>2, TaskShape, AmountAssumption DEF PurchaseCommit
      <3>2. task' \in [Workers -> Tasks]
        BY <2>2, TaskWrite DEF PurchaseCommit
      <3> QED
        BY <2>2, <3>1, <3>2 DEF PurchaseCommit, TypeOK
    <2>3. ASSUME NEW u \in Users, NEW a \in Credits, CoinsPurchase(w, u, a) PROVE Typed'
      BY <2>3, AmountAssumption DEF CoinsPurchase, Credited, TypeOK
    <2>4. ASSUME NEW u \in Users, NEW a \in Credits, AdRewardCredit(w, u, a) PROVE Typed'
      <3>1. [op |-> "adReward", user |-> u, amount |-> a] \in Tasks
        BY DEF Tasks
      <3>2. task' \in [Workers -> Tasks]
        BY <2>4, <3>1, TaskWrite DEF AdRewardCredit
      <3> QED
        BY <2>4, <3>2, AmountAssumption DEF AdRewardCredit, Credited, TypeOK
    <2>5. CASE AdRewardRecord(w)
      <3>1. task[w].user \in Users /\ task[w].amount \in Nat
        BY <2>5, TaskShape, AmountAssumption DEF AdRewardRecord
      <3>2. task' \in [Workers -> Tasks]
        BY <2>5, TaskWrite DEF AdRewardRecord
      <3> QED
        BY <2>5, <3>1, <3>2 DEF AdRewardRecord, TypeOK
    <2> QED
      BY <1>4, <2>1, <2>2, <2>3, <2>4, <2>5 DEF WalletStep
  <1>5. ASSUME NEW w \in Workers, Crash(w) PROVE Typed'
    <2>1. task' \in [Workers -> Tasks]
      BY <1>5, TaskWrite DEF Crash
    <2> QED
      BY <1>5, <2>1 DEF Crash, TypeOK
  <1>6. ASSUME NEW w \in Workers, Overtake(w), Turn(w) \/ UNCHANGED turns
        PROVE  overtaken' \subseteq Workers /\ turns' \in Nat
    BY <1>6 DEF Overtake, Turn, TypeOK
  <1>7. CASE Next
    <2>1. Typed'
      <3> HIDE DEF Typed
      <3> QED
        BY <1>2, <1>3, <1>4, <1>5, <1>7 DEF Next
    <2>2. overtaken' \subseteq Workers /\ turns' \in Nat
      BY <1>6, <1>7 DEF Next
    <2> QED
      BY <2>1, <2>2 DEF TypeOK
  <1> QED
    BY <1>1, <1>7

\* The tables and the workers' tasks are well typed in every reachable state.
THEOREM TypeCorrect == Spec => []TypeOK
  <1>1. Init => TypeOK
    BY DEF Init, TypeOK, Tasks
  <1> QED
    BY <1>1, TypeStep, PTL DEF Spec

-----------------------------------------------------------------------------
(* Logins and listings, with any number of processes.                      *)

\* The steps that write users.username, each under its UNIQUE test.
LEMMA LoginStep == TypeOK /\ UniqueLogins /\ [Next]_vars => UniqueLogins'
  <1> SUFFICES ASSUME TypeOK, UniqueLogins, [Next]_vars PROVE UniqueLogins'
    OBVIOUS
  <1>1. CASE login' = login
    BY <1>1 DEF UniqueLogins
  <1>2. ASSUME NEW u \in Users, NEW n \in Names, UniqueAllows(u, n),
               login' = [login EXCEPT ![u] = n]
        PROVE  UniqueLogins'
    BY <1>2 DEF UniqueLogins, UniqueAllows, TypeOK
  <1>3. ASSUME NEW w \in Workers, AccountStep(w) PROVE UniqueLogins'
    <2>1. ASSUME NEW u \in Users, NEW n \in Names, RegisterCheck(w, u, n) PROVE UniqueLogins'
      BY <2>1, <1>1 DEF RegisterCheck, users
    <2>2. ASSUME NEW u \in Users, NEW n \in Names, Rename(w, u, n) PROVE UniqueLogins'
      BY <2>2, <1>2 DEF Rename
    <2>3. ASSUME NEW u \in Users, RegisterInsert(w, u) PROVE UniqueLogins'
      <3>1. hashing[u].name \in Names
        BY <2>3, TaskShape DEF RegisterInsert
      <3>2. CASE UniqueAllows(u, hashing[u].name)
        BY <2>3, <3>1, <3>2, <1>2 DEF RegisterInsert
      <3>3. CASE ~UniqueAllows(u, hashing[u].name)
        BY <2>3, <3>3, <1>1 DEF RegisterInsert, users
      <3> QED
        BY <3>2, <3>3
    <2>4. ASSUME NEW u \in Users, DeleteAccount(w, u) PROVE UniqueLogins'
      BY <2>4 DEF DeleteAccount, UniqueLogins, TypeOK
    <2> QED
      BY <1>3, <2>1, <2>2, <2>3, <2>4 DEF AccountStep
  <1>4. ASSUME NEW w \in Workers, MarketStep(w) PROVE UniqueLogins'
    <2>1. ASSUME NEW u \in Users, NEW i \in DOMAIN listings, Buy(w, u, i) PROVE UniqueLogins'
      <3>1. listings[i].name \in Names
        <4>1. listings[i] \in Listing
          BY DEF TypeOK
        <4> QED
          BY <4>1 DEF Listing
      <3>2. UniqueAllows(u, listings[i].name)
        BY <2>1 DEF Buy, NameFree, UniqueAllows
      <3> QED
        BY <2>1, <3>1, <3>2, <1>2 DEF Buy
    <2>2. CASE login' = login
      BY <2>2, <1>1
    <2> QED
      BY <1>4, <2>1, <2>2 DEF MarketStep, ListCheck, ListInsert, Cancel, BuyRefused, users
  <1>5. ASSUME NEW w \in Workers, WalletStep(w) \/ Crash(w) PROVE UniqueLogins'
    BY <1>5, <1>1 DEF WalletStep, Crash, PurchaseCheck, PurchaseCommit, CoinsPurchase,
                      AdRewardCredit, AdRewardRecord, users
  <1>6. CASE UNCHANGED vars
    BY <1>6, <1>1 DEF vars, users
  <1> QED
    BY <1>3, <1>4, <1>5, <1>6 DEF Next

\* No two accounts ever share a login, however registrations that wait for
\* bcrypt interleave with renames and purchases, in any number of processes.
THEOREM LoginsAreUnique == Spec => []UniqueLogins
  <1>1. Init => UniqueLogins
    BY DEF Init, UniqueLogins
  <1> QED
    BY <1>1, LoginStep, TypeCorrect, PTL DEF Spec

\* Inserting under the partial unique index, and closing a listing, keep at
\* most one active listing per name.
LEMMA ActiveStep ==
    TypeOK /\ OneActiveListingPerName /\ [Next]_vars => OneActiveListingPerName'
  <1> SUFFICES ASSUME TypeOK, OneActiveListingPerName, [Next]_vars
               PROVE  OneActiveListingPerName'
    OBVIOUS
  <1>1. CASE listings' = listings
    BY <1>1 DEF OneActiveListingPerName
  <1>2. ASSUME NEW i \in DOMAIN listings, NEW s \in {"sold", "cancelled"},
               listings' = [listings EXCEPT ![i].status = s]
        PROVE  OneActiveListingPerName'
    <2>1. DOMAIN listings' = DOMAIN listings
      BY <1>2, StatusUpdate DEF TypeOK
    <2>2. \A k \in DOMAIN listings :
             /\ listings'[k].name = listings[k].name
             /\ listings'[k].status = "active" => listings[k].status = "active"
      <3> TAKE k \in DOMAIN listings
      <3>1. listings[k] \in Listing
        BY DEF TypeOK
      <3>2. CASE k = i
        BY <1>2, <3>1, <3>2 DEF TypeOK, Listing
      <3>3. CASE k # i
        BY <1>2, <3>3 DEF TypeOK
      <3> QED
        BY <3>2, <3>3
    <2> QED
      BY <2>1, <2>2 DEF OneActiveListingPerName
  <1>3. ASSUME NEW w \in Workers, ListInsert(w) PROVE OneActiveListingPerName'
    <2>1. CASE ~ActiveIndexAllows(task[w].name)
      BY <1>3, <2>1, <1>1 DEF ListInsert
    <2>2. CASE ActiveIndexAllows(task[w].name)
      <3> DEFINE row == [seller |-> task[w].user, name |-> task[w].name,
                         price |-> task[w].price, status |-> "active"]
      <3>1. row \in Listing
        BY <1>3, TaskShape DEF ListInsert, Listing
      <3>2. listings' = Append(listings, row)
        BY <1>3, <2>2 DEF ListInsert
      <3>3. /\ DOMAIN listings' = DOMAIN listings \cup {Len(listings) + 1}
            /\ \A k \in DOMAIN listings : listings'[k] = listings[k]
            /\ listings'[Len(listings) + 1] = row
        <4>1. listings \in Seq(Listing)
          BY DEF TypeOK
        <4> HIDE DEF row
        <4> QED
          BY <3>1, <3>2, <4>1
      <3>4. \A k \in DOMAIN listings :
               listings[k].name = row.name => listings[k].status # "active"
        BY <2>2 DEF ActiveIndexAllows
      <3> HIDE DEF row
      <3> QED
        BY <3>3, <3>4 DEF OneActiveListingPerName
    <2> QED
      BY <2>1, <2>2
  <1>4. ASSUME NEW w \in Workers, MarketStep(w) PROVE OneActiveListingPerName'
    <2>1. ASSUME NEW u \in Users, NEW i \in DOMAIN listings, Cancel(w, u, i)
          PROVE  OneActiveListingPerName'
      BY <2>1, <1>2 DEF Cancel, Cancelled
    <2>2. ASSUME NEW u \in Users, NEW i \in DOMAIN listings, Buy(w, u, i)
          PROVE  OneActiveListingPerName'
      BY <2>2, <1>2 DEF Buy
    <2>3. CASE listings' = listings
      BY <2>3, <1>1
    <2> QED
      BY <1>3, <1>4, <2>1, <2>2, <2>3 DEF MarketStep, ListCheck, BuyRefused
  <1>5. ASSUME NEW w \in Workers, AccountStep(w) \/ WalletStep(w) \/ Crash(w)
        PROVE  OneActiveListingPerName'
    BY <1>5, <1>1 DEF AccountStep, RegisterCheck, Rename, RegisterInsert, DeleteAccount,
         WalletStep, PurchaseCheck, PurchaseCommit, CoinsPurchase, AdRewardCredit,
         AdRewardRecord, Crash
  <1>6. CASE UNCHANGED vars
    BY <1>6, <1>1 DEF vars
  <1> QED
    BY <1>4, <1>5, <1>6 DEF Next

\* One name is never on sale twice at the same time.
THEOREM OneListingPerName == Spec => []OneActiveListingPerName
  <1>1. Init => OneActiveListingPerName
    BY DEF Init, OneActiveListingPerName
  <1> QED
    BY <1>1, ActiveStep, TypeCorrect, PTL DEF Spec

-----------------------------------------------------------------------------
(* Sales.                                                                  *)

\* SalesAreFinal follows from the guards inside the buy transaction.
LEMMA SaleStepHolds == TypeOK /\ [Next]_vars => [SaleStep]_vars
  <1> SUFFICES ASSUME TypeOK, Next, NEW i \in DOMAIN listings
      PROVE  /\ listings[i].status # "active" => listings'[i].status # "active"
             /\ listings[i].status # "sold" /\ listings'[i].status = "sold" =>
                  /\ listings[i].status = "active"
                  /\ NameFree(listings[i].name)
                  /\ \E u \in Users \ {listings[i].seller} :
                        /\ login'[u] = listings[i].name
                        /\ balance'[u] = balance[u] - listings[i].price
                        /\ balance'[listings[i].seller]
                             = balance[listings[i].seller] + listings[i].price
    BY DEF SaleStep
  <1>1. listings[i] \in Listing
    BY DEF TypeOK
  <1>2. CASE listings'[i].status = listings[i].status
    BY <1>2
  <1>3. CASE listings' = listings
    BY <1>3, <1>2
  <1>4. ASSUME NEW w \in Workers, MarketStep(w),
               listings'[i].status # listings[i].status
        PROVE  /\ listings'[i].status # "active"
               /\ listings'[i].status = "sold" =>
                    /\ listings[i].status = "active"
                    /\ NameFree(listings[i].name)
                    /\ \E u \in Users \ {listings[i].seller} :
                          /\ login'[u] = listings[i].name
                          /\ balance'[u] = balance[u] - listings[i].price
                          /\ balance'[listings[i].seller]
                               = balance[listings[i].seller] + listings[i].price
    <2>1. ASSUME ListInsert(w) PROVE FALSE
      <3>1. [seller |-> task[w].user, name |-> task[w].name,
             price |-> task[w].price, status |-> "active"] \in Listing
        BY <2>1, TaskShape DEF ListInsert, Listing
      <3>2. listings'[i] = listings[i]
        BY <2>1, <3>1 DEF ListInsert, TypeOK
      <3> QED
        BY <3>2, <1>4
    <2>2. ASSUME NEW u \in Users, NEW k \in DOMAIN listings, Cancel(w, u, k)
          PROVE  listings'[i].status = "cancelled"
      <3>1. listings' = [listings EXCEPT ![k].status = "cancelled"]
        BY <2>2 DEF Cancel, Cancelled
      <3>2. i = k
        BY <3>1, <1>4 DEF TypeOK
      <3> QED
        BY <3>1, <3>2, <1>1 DEF TypeOK, Listing
    <2>3. ASSUME NEW u \in Users, NEW k \in DOMAIN listings, Buy(w, u, k)
          PROVE  /\ listings'[i].status = "sold"
                 /\ listings[i].status = "active"
                 /\ NameFree(listings[i].name)
                 /\ u # listings[i].seller
                 /\ login'[u] = listings[i].name
                 /\ balance'[u] = balance[u] - listings[i].price
                 /\ balance'[listings[i].seller]
                      = balance[listings[i].seller] + listings[i].price
      <3>1. /\ listings' = [listings EXCEPT ![k].status = "sold"]
            /\ listings[k].status = "active"
            /\ NameFree(listings[k].name)
            /\ u # listings[k].seller
            /\ login' = [login EXCEPT ![u] = listings[k].name]
            /\ balance' = [balance EXCEPT ![u] = @ - listings[k].price,
                                          ![listings[k].seller] = @ + listings[k].price]
        BY <2>3 DEF Buy, ForSale, Transferred
      <3>2. i = k
        BY <3>1, <1>4 DEF TypeOK
      <3>3. listings[i].seller \in Users
        BY <1>1 DEF Listing
      <3>4. listings'[i].status = "sold"
        BY <3>1, <3>2, <1>1 DEF TypeOK, Listing
      <3> QED
        BY <3>1, <3>2, <3>3, <3>4 DEF TypeOK
    <2>4. ASSUME listings' = listings PROVE FALSE
      BY <2>4, <1>4
    <2>5. \/ listings' = listings
          \/ ListInsert(w)
          \/ \E u \in Users, k \in DOMAIN listings : Cancel(w, u, k) \/ Buy(w, u, k)
      BY <1>4 DEF MarketStep, ListCheck, BuyRefused
    <2>6. CASE \E u \in Users, k \in DOMAIN listings : Cancel(w, u, k)
      BY <2>2, <2>6
    <2>7. CASE \E u \in Users, k \in DOMAIN listings : Buy(w, u, k)
      <3>1. PICK u \in Users, k \in DOMAIN listings : Buy(w, u, k)
        BY <2>7
      <3> QED
        BY <2>3, <3>1
    <2> QED
      BY <2>1, <2>4, <2>5, <2>6, <2>7
  <1>5. ASSUME NEW w \in Workers, AccountStep(w) \/ WalletStep(w) \/ Crash(w)
        PROVE  listings' = listings
    BY <1>5 DEF AccountStep, RegisterCheck, Rename, RegisterInsert, DeleteAccount,
         WalletStep, PurchaseCheck, PurchaseCommit, CoinsPurchase, AdRewardCredit,
         AdRewardRecord, Crash
  <1>6. \E w \in Workers : \/ MarketStep(w)
                           \/ AccountStep(w) \/ WalletStep(w) \/ Crash(w)
    BY DEF Next
  <1> QED
    BY <1>2, <1>3, <1>4, <1>5, <1>6

\* A listing is sold at most once, from active, to one account that takes over
\* a name free at that moment and pays its price; it never becomes active again.
THEOREM SalesFinal == Spec => SalesAreFinal
  <1> QED
    BY TypeCorrect, SaleStepHolds, PTL DEF Spec, SalesAreFinal

-----------------------------------------------------------------------------
(* Balances.                                                               *)

\* Whoever appears in a task or as a seller has an account; whoever is being
\* registered has none yet.
KnownActors ==
    /\ \A w \in Workers : task[w].op # "idle" => HasToken(task[w].user)
    /\ \A i \in DOMAIN listings : HasToken(listings[i].seller)
    /\ \A u \in Users : hashing[u] # NotHashing => account[u] = "none"

\* A purchase past its check can still be paid, unless another worker has charged
\* the buyer.
PurchaseBacked ==
    \A w \in Workers \ overtaken :
        task[w].op = "purchase" => CanPay(task[w].user, task[w].price)

\* How a step changes accounts and balances: the steps of AccountLedger, stated
\* without its substitution.
LedgerStep ==
    \/ \E u \in Users :
          /\ account[u] = "none"
          /\ account' = [account EXCEPT ![u] = "open"]
          /\ balance' = [balance EXCEPT ![u] = StartBalance]
    \/ \E u \in Users, a \in Credits :
          /\ HasToken(u)
          /\ balance' = [balance EXCEPT ![u] = @ + a]
          /\ account' = account
    \/ \E u \in Users, p \in ProductPrices :
          /\ HasToken(u) /\ CanPay(u, p)
          /\ balance' = [balance EXCEPT ![u] = @ - p]
          /\ account' = account
    \/ \E u, v \in Users, p \in ListingPrices :
          /\ HasToken(u) /\ HasToken(v) /\ u # v /\ CanPay(u, p)
          /\ balance' = [balance EXCEPT ![u] = @ - p, ![v] = @ + p]
          /\ account' = account
    \/ \E u \in Users :
          /\ account[u] = "open"
          /\ account' = [account EXCEPT ![u] = "deleted"]
          /\ balance' = balance
    \/ account' = account /\ balance' = balance

\* Every step is a ledger step, but for a purchase that has been overtaken.
LEMMA StepIsLedgerStep ==
    ASSUME TypeOK, KnownActors, PurchaseBacked, [Next]_vars
    PROVE  LedgerStep \/ \E w \in overtaken : PurchaseCommit(w)
  <1>1. ASSUME account' = account, balance' = balance PROVE LedgerStep
    BY <1>1 DEF LedgerStep
  <1>2. ASSUME NEW w \in Workers, AccountStep(w) PROVE LedgerStep
    <2>1. ASSUME NEW u \in Users, RegisterInsert(w, u) PROVE LedgerStep
      <3>1. account[u] = "none"
        BY <2>1 DEF RegisterInsert, KnownActors
      <3>2. CASE UniqueAllows(u, hashing[u].name)
        BY <2>1, <3>1, <3>2 DEF RegisterInsert, LedgerStep
      <3>3. CASE ~UniqueAllows(u, hashing[u].name)
        BY <2>1, <3>3, <1>1 DEF RegisterInsert, users
      <3> QED
        BY <3>2, <3>3
    <2>2. ASSUME NEW u \in Users, DeleteAccount(w, u) PROVE LedgerStep
      BY <2>2 DEF DeleteAccount, LedgerStep
    <2> QED
      BY <1>1, <1>2, <2>1, <2>2 DEF AccountStep, RegisterCheck, Rename, users
  <1>3. ASSUME NEW w \in Workers, MarketStep(w) PROVE LedgerStep
    <2>1. ASSUME NEW u \in Users, NEW i \in DOMAIN listings, Buy(w, u, i) PROVE LedgerStep
      <3>1. listings[i] \in Listing
        BY DEF TypeOK
      <3>2. listings[i].price \in ListingPrices /\ listings[i].seller \in Users
        BY <3>1 DEF Listing
      <3>3. HasToken(listings[i].seller)
        BY DEF KnownActors
      <3>4. /\ HasToken(u)
            /\ u # listings[i].seller
            /\ CanPay(u, listings[i].price)
            /\ balance' = [balance EXCEPT ![u] = @ - listings[i].price,
                                          ![listings[i].seller] = @ + listings[i].price]
            /\ account' = account
        BY <2>1 DEF Buy, Transferred
      <3> QED
        BY <3>2, <3>3, <3>4 DEF LedgerStep
    <2> QED
      BY <1>1, <1>3, <2>1 DEF MarketStep, ListCheck, ListInsert, Cancel, BuyRefused, users
  <1>4. ASSUME NEW w \in Workers, WalletStep(w)
        PROVE  LedgerStep \/ (w \in overtaken /\ PurchaseCommit(w))
    <2>1. CASE PurchaseCommit(w) /\ w \notin overtaken
      <3>1. /\ task[w].user \in Users
            /\ task[w].price \in ProductPrices
            /\ HasToken(task[w].user)
            /\ CanPay(task[w].user, task[w].price)
        BY <2>1, TaskShape DEF PurchaseCommit, KnownActors, PurchaseBacked
      <3> QED
        BY <2>1, <3>1 DEF PurchaseCommit, LedgerStep
    <2>2. ASSUME NEW u \in Users, NEW a \in Credits,
                 CoinsPurchase(w, u, a) \/ AdRewardCredit(w, u, a)
          PROVE  LedgerStep
      BY <2>2 DEF CoinsPurchase, AdRewardCredit, Credited, LedgerStep
    <2> QED
      BY <1>1, <1>4, <2>1, <2>2 DEF WalletStep, PurchaseCheck, AdRewardRecord, users
  <1>5. ASSUME NEW w \in Workers, Crash(w) PROVE LedgerStep
    BY <1>1, <1>5 DEF Crash, users
  <1>6. ASSUME UNCHANGED vars PROVE LedgerStep
    BY <1>1, <1>6 DEF vars, users
  <1> QED
    BY <1>2, <1>3, <1>4, <1>5, <1>6 DEF Next

\* Accounts are never forgotten.
LEMMA TokensKept ==
    ASSUME TypeOK, [Next]_vars, NEW u \in Users, HasToken(u)
    PROVE  account'[u] # "none"
  <1> USE DEF TypeOK, HasToken
  <1>1. CASE account' = account
    BY <1>1
  <1>2. ASSUME NEW v \in Users, NEW w \in Workers, RegisterInsert(w, v)
        PROVE  account'[u] # "none"
    BY <1>1, <1>2 DEF RegisterInsert, users
  <1>3. ASSUME NEW v \in Users, NEW w \in Workers, DeleteAccount(w, v)
        PROVE  account'[u] # "none"
    BY <1>3 DEF DeleteAccount
  <1>4. ASSUME NEW w \in Workers, AccountStep(w) PROVE account'[u] # "none"
    BY <1>1, <1>2, <1>3, <1>4 DEF AccountStep, RegisterCheck, Rename, users
  <1>5. ASSUME NEW w \in Workers, MarketStep(w) \/ WalletStep(w) \/ Crash(w)
        PROVE  account' = account
    BY <1>5 DEF MarketStep, ListCheck, ListInsert, Cancel, Buy, BuyRefused, WalletStep,
         PurchaseCheck, PurchaseCommit, CoinsPurchase, AdRewardCredit, AdRewardRecord,
         Crash, users
  <1>6. CASE UNCHANGED vars
    BY <1>1, <1>6 DEF vars, users
  <1> QED
    BY <1>1, <1>4, <1>5, <1>6 DEF Next

\* No handler works for somebody without an account.
LEMMA KnownActorsStep ==
    TypeOK /\ KnownActors /\ [Next]_vars => KnownActors'
  <1> SUFFICES ASSUME TypeOK, KnownActors, [Next]_vars PROVE KnownActors'
    OBVIOUS
  <1>1. ASSUME NEW u \in Users, HasToken(u) PROVE HasToken(u)'
    BY <1>1, TokensKept DEF HasToken
  <1>2. TypeOK'
    BY TypeStep
  <1>3. \A v \in Workers : task'[v].op # "idle" => HasToken(task[v].user)'
    <2> SUFFICES ASSUME NEW v \in Workers, task'[v].op # "idle"
                 PROVE  HasToken(task[v].user)'
      OBVIOUS
    <2>1. CASE task'[v] = task[v]
      <3>1. task'[v].user \in Users /\ HasToken(task[v].user)
        BY <2>1, TaskShape DEF TypeOK, Tasks, Idle, KnownActors
      <3> QED
        BY <2>1, <3>1, <1>1 DEF HasToken
    <2>2. ASSUME NEW w \in Workers, NEW u \in Users, NEW t, t.user = u,
                 HasToken(u), Ready(w), Begin(w, t)
          PROVE  HasToken(task[v].user)'
      <3>1. CASE v = w
        BY <2>2, <3>1, <1>1 DEF Begin, TypeOK, HasToken
      <3>2. CASE v # w
        BY <2>2, <3>2, <2>1 DEF Begin, TypeOK
      <3> QED
        BY <3>1, <3>2
    <2>3. ASSUME NEW w \in Workers, Finish(w) PROVE HasToken(task[v].user)'
      <3>1. CASE v = w
        BY <2>3, <3>1 DEF Finish, Idle, TypeOK
      <3>2. CASE v # w
        BY <2>3, <3>2, <2>1 DEF Finish, TypeOK
      <3> QED
        BY <3>1, <3>2
    <2>4. CASE task' = task
      BY <2>1, <2>4
    <2>5. ASSUME NEW w \in Workers, AccountStep(w) PROVE HasToken(task[v].user)'
      BY <2>4, <2>5 DEF AccountStep, RegisterCheck, Rename, RegisterInsert, DeleteAccount,
                        volatile
    <2>6. ASSUME NEW w \in Workers, MarketStep(w) PROVE HasToken(task[v].user)'
      <3>1. ASSUME NEW u \in Users, NEW n \in Names, NEW p \in ListingPrices,
                   ListCheck(w, u, n, p)
            PROVE  HasToken(task[v].user)'
        BY <3>1, <2>2 DEF ListCheck
      <3>2. CASE ListInsert(w)
        BY <3>2, <2>3 DEF ListInsert
      <3> QED
        BY <2>4, <2>6, <3>1, <3>2 DEF MarketStep, Cancel, Buy, BuyRefused, volatile
    <2>7. ASSUME NEW w \in Workers, WalletStep(w) PROVE HasToken(task[v].user)'
      <3>1. ASSUME NEW u \in Users, NEW p \in ProductPrices, PurchaseCheck(w, u, p)
            PROVE  HasToken(task[v].user)'
        BY <3>1, <2>2 DEF PurchaseCheck
      <3>2. ASSUME NEW u \in Users, NEW a \in Credits, AdRewardCredit(w, u, a)
            PROVE  HasToken(task[v].user)'
        BY <3>2, <2>2 DEF AdRewardCredit
      <3>3. CASE PurchaseCommit(w) \/ AdRewardRecord(w)
        BY <3>3, <2>3 DEF PurchaseCommit, AdRewardRecord
      <3> QED
        BY <2>4, <2>7, <3>1, <3>2, <3>3 DEF WalletStep, CoinsPurchase, volatile
    <2>8. ASSUME NEW w \in Workers, Crash(w) PROVE HasToken(task[v].user)'
      BY <2>8, <2>3 DEF Crash
    <2>9. CASE UNCHANGED vars
      BY <2>4, <2>9 DEF vars, volatile
    <2> QED
      BY <2>5, <2>6, <2>7, <2>8, <2>9 DEF Next
  <1>4. \A i \in DOMAIN listings' : HasToken(listings[i].seller)'
    <2> SUFFICES ASSUME NEW i \in DOMAIN listings' PROVE HasToken(listings[i].seller)'
      OBVIOUS
    <2>1. ASSUME i \in DOMAIN listings, listings'[i].seller = listings[i].seller
          PROVE  HasToken(listings[i].seller)'
      <3>1. listings[i] \in Listing
        BY <2>1 DEF TypeOK
      <3>2. listings[i].seller \in Users /\ HasToken(listings[i].seller)
        BY <2>1, <3>1 DEF Listing, KnownActors
      <3> QED
        BY <2>1, <3>2, <1>1 DEF HasToken
    <2>2. ASSUME NEW w \in Workers, ListInsert(w) PROVE HasToken(listings[i].seller)'
      <3> DEFINE row == [seller |-> task[w].user, name |-> task[w].name,
                         price |-> task[w].price, status |-> "active"]
      <3>1. row \in Listing /\ row.seller \in Users /\ HasToken(row.seller)
        BY <2>2, TaskShape DEF ListInsert, Listing, KnownActors
      <3>2. listings' = listings \/ listings' = Append(listings, row)
        BY <2>2 DEF ListInsert
      <3>3. listings \in Seq(Listing)
        BY DEF TypeOK
      <3> HIDE DEF row
      <3>4. CASE i \in DOMAIN listings
        BY <3>1, <3>2, <3>3, <3>4, <2>1
      <3>5. CASE i \notin DOMAIN listings
        <4>1. listings'[i] = row
          BY <3>1, <3>2, <3>3, <3>5
        <4> QED
          BY <3>1, <4>1, <1>1 DEF HasToken
      <3> QED
        BY <3>4, <3>5
    <2>3. ASSUME NEW k \in DOMAIN listings, NEW s \in {"sold", "cancelled"},
                 listings' = [listings EXCEPT ![k].status = s]
          PROVE  HasToken(listings[i].seller)'
      <3>1. i \in DOMAIN listings
        BY <2>3, StatusUpdate DEF TypeOK
      <3>2. listings[i] \in Listing
        BY <3>1 DEF TypeOK
      <3>3. listings'[i].seller = listings[i].seller
        BY <2>3, <3>1, <3>2 DEF TypeOK, Listing
      <3> QED
        BY <3>1, <3>3, <2>1
    <2>4. CASE listings' = listings
      BY <2>4, <2>1
    <2>5. ASSUME NEW w \in Workers, MarketStep(w) PROVE HasToken(listings[i].seller)'
      <3>1. ASSUME NEW u \in Users, NEW k \in DOMAIN listings, Cancel(w, u, k) \/ Buy(w, u, k)
            PROVE  HasToken(listings[i].seller)'
        BY <3>1, <2>3 DEF Cancel, Buy, Cancelled
      <3> QED
        BY <2>2, <2>4, <2>5, <3>1 DEF MarketStep, ListCheck, BuyRefused
    <2>6. ASSUME NEW w \in Workers, AccountStep(w) \/ WalletStep(w) \/ Crash(w)
          PROVE  listings' = listings
      BY <2>6 DEF AccountStep, RegisterCheck, Rename, RegisterInsert, DeleteAccount,
           WalletStep, PurchaseCheck, PurchaseCommit, CoinsPurchase, AdRewardCredit,
           AdRewardRecord, Crash
    <2>7. CASE UNCHANGED vars
      BY <2>4, <2>7 DEF vars
    <2> QED
      BY <2>4, <2>5, <2>6, <2>7 DEF Next
  <1>5. \A u \in Users : hashing'[u] # NotHashing => account'[u] = "none"
    <2> SUFFICES ASSUME NEW u \in Users, hashing'[u] # NotHashing PROVE account'[u] = "none"
      OBVIOUS
    <2>1. ASSUME hashing'[u] = hashing[u], account'[u] = account[u]
          PROVE  account'[u] = "none"
      BY <2>1 DEF KnownActors
    <2>2. ASSUME NEW w \in Workers, AccountStep(w) PROVE account'[u] = "none"
      <3>1. ASSUME NEW v \in Users, NEW n \in Names, RegisterCheck(w, v, n)
            PROVE  account'[u] = "none"
        BY <3>1 DEF RegisterCheck, KnownActors, TypeOK, users
      <3>2. ASSUME NEW v \in Users, RegisterInsert(w, v) PROVE account'[u] = "none"
        <4>1. u # v /\ hashing[u] # NotHashing
          BY <3>2 DEF RegisterInsert, TypeOK
        <4>2. account'[u] = account[u]
          BY <3>2, <4>1 DEF RegisterInsert, TypeOK, users
        <4> QED
          BY <4>1, <4>2 DEF KnownActors
      <3>3. ASSUME NEW v \in Users, DeleteAccount(w, v) PROVE account'[u] = "none"
        BY <3>3 DEF DeleteAccount, KnownActors, TypeOK, volatile
      <3>4. ASSUME NEW v \in Users, NEW n \in Names, Rename(w, v, n) PROVE account'[u] = "none"
        BY <3>4, <2>1 DEF Rename, volatile
      <3> QED
        BY <2>2, <3>1, <3>2, <3>3, <3>4 DEF AccountStep
    <2>3. ASSUME NEW w \in Workers, MarketStep(w) \/ WalletStep(w) PROVE account'[u] = "none"
      BY <2>3, <2>1 DEF MarketStep, ListCheck, ListInsert, Cancel, Buy, BuyRefused,
           WalletStep, PurchaseCheck, PurchaseCommit, CoinsPurchase, AdRewardCredit,
           AdRewardRecord, users, volatile
    <2>4. ASSUME NEW w \in Workers, Crash(w) PROVE account'[u] = "none"
      BY <2>4 DEF Crash, KnownActors, TypeOK, users
    <2>5. CASE UNCHANGED vars
      BY <2>5, <2>1 DEF vars, users, volatile
    <2> QED
      BY <2>2, <2>3, <2>4, <2>5 DEF Next
  <1> QED
    BY <1>3, <1>4, <1>5 DEF KnownActors

\* Whatever comes between a purchase's check and its commit either does not
\* charge the buyer or is noted.
LEMMA PurchaseBackedStep ==
    TypeOK /\ PurchaseBacked /\ [Next]_vars => PurchaseBacked'
  <1> SUFFICES ASSUME TypeOK, PurchaseBacked, [Next]_vars, NEW v \in Workers \ overtaken',
                      task'[v].op = "purchase"
               PROVE  CanPay(task[v].user, task[v].price)'
    BY DEF PurchaseBacked, TypeOK
  <1>1. CASE UNCHANGED vars
    BY <1>1 DEF vars, users, volatile, PurchaseBacked, CanPay
  <1>2. CASE Next
    <2>1. PICK w \in Workers : /\ AccountStep(w) \/ MarketStep(w) \/ WalletStep(w) \/ Crash(w)
                               /\ Overtake(w)
      BY <1>2 DEF Next
    <2>2. CASE v # w /\ task'[v] = task[v]
      <3>1. task'[v].user \in Users /\ task'[v].price \in ProductPrices /\ task'[v] # Idle
        BY <2>2, TaskShape DEF TypeOK, Idle
      <3>2. v \notin overtaken /\ ~Charged(task[v].user)
        BY <2>1, <2>2, <3>1 DEF Overtake
      <3>3. balance[task[v].user] \in Int /\ balance'[task[v].user] \in Int
        BY <2>2, <3>1, TypeStep DEF TypeOK
      <3>4. task[v].price \in Int
        BY <2>2, <3>1, AmountAssumption
      <3> QED
        BY <2>2, <3>2, <3>3, <3>4 DEF PurchaseBacked, Charged, CanPay
    <2>3. CASE v # w /\ task'[v] # task[v]
      BY <2>1, <2>3 DEF AccountStep, RegisterCheck, Rename, RegisterInsert, DeleteAccount,
         MarketStep, ListCheck, ListInsert, Cancel, Buy, BuyRefused, WalletStep,
         PurchaseCheck, PurchaseCommit, CoinsPurchase, AdRewardCredit, AdRewardRecord,
         Crash, Begin, Finish, volatile, TypeOK
    <2>4. CASE v = w
      <3>1. ~(task[v] = Idle /\ task' = task) /\ ~Finish(v)
        BY DEF Idle, Finish, TypeOK
      <3>2. ~AccountStep(v)
        BY <3>1 DEF AccountStep, RegisterCheck, Rename, RegisterInsert, DeleteAccount, Ready,
           volatile
      <3>3. ~MarketStep(v)
        BY <3>1 DEF MarketStep, ListCheck, ListInsert, Cancel, Buy, BuyRefused, Ready,
           Begin, TypeOK, volatile
      <3>4. ASSUME WalletStep(v) PROVE CanPay(task[v].user, task[v].price)'
        <4>1. ASSUME NEW u \in Users, NEW p \in ProductPrices, PurchaseCheck(v, u, p)
              PROVE  CanPay(task[v].user, task[v].price)'
          BY <4>1 DEF PurchaseCheck, Begin, CanPay, TypeOK, users
        <4>2. ASSUME NEW u \in Users, NEW a \in Credits,
                     CoinsPurchase(v, u, a) \/ AdRewardCredit(v, u, a)
              PROVE  FALSE
          BY <4>2, <3>1 DEF CoinsPurchase, AdRewardCredit, Ready, Begin, TypeOK, volatile
        <4> QED
          BY <3>4, <3>1, <4>1, <4>2 DEF WalletStep, PurchaseCommit, AdRewardRecord
      <3> QED
        BY <2>1, <2>4, <3>1, <3>2, <3>3, <3>4 DEF Crash
    <2> QED
      BY <2>2, <2>3, <2>4
  <1> QED
    BY <1>1, <1>2

\* A ledger step takes from nobody more than he has.
LEMMA LedgerStepPays ==
    ASSUME TypeOK, LedgerStep, NEW x \in Users
    PROVE  balance'[x] >= 0 \/ balance'[x] >= balance[x]
  <1> USE AmountAssumption DEF TypeOK, CanPay
  <1>1. CASE balance' = balance
    BY <1>1
  <1>2. ASSUME NEW u \in Users, balance' = [balance EXCEPT ![u] = StartBalance]
        PROVE  balance'[x] >= 0 \/ balance'[x] >= balance[x]
    BY <1>2
  <1>3. ASSUME NEW u \in Users, NEW a \in Credits, balance' = [balance EXCEPT ![u] = @ + a]
        PROVE  balance'[x] >= balance[x]
    <2>1. a \in Nat
      OBVIOUS
    <2> QED
      BY <1>3, <2>1
  <1>4. ASSUME NEW u \in Users, NEW p \in ProductPrices, CanPay(u, p),
               balance' = [balance EXCEPT ![u] = @ - p]
        PROVE  balance'[x] >= 0 \/ balance'[x] >= balance[x]
    <2>1. p \in Nat
      OBVIOUS
    <2> QED
      BY <1>4, <2>1
  <1>5. ASSUME NEW u \in Users, NEW v \in Users, NEW p \in ListingPrices, u # v, CanPay(u, p),
               balance' = [balance EXCEPT ![u] = @ - p, ![v] = @ + p]
        PROVE  balance'[x] >= 0 \/ balance'[x] >= balance[x]
    <2>1. p \in Nat
      OBVIOUS
    <2>2. CASE x = u
      BY <1>5, <2>1, <2>2
    <2>3. CASE x = v
      BY <1>5, <2>1, <2>3
    <2>4. CASE x \notin {u, v}
      BY <1>5, <2>4
    <2> QED
      BY <2>2, <2>3, <2>4
  <1> QED
    BY <1>1, <1>2, <1>3, <1>4, <1>5 DEF LedgerStep

\* What the balances rest on holds in every reachable state.
LEMMA BalanceInvariant == Spec => [](TypeOK /\ KnownActors /\ PurchaseBacked)
  <1>1. Init => KnownActors /\ PurchaseBacked
    BY DEF Init, KnownActors, PurchaseBacked, Idle
  <1> QED
    BY <1>1, KnownActorsStep, PurchaseBackedStep, TypeCorrect, PTL DEF Spec

\* The transaction of an overtaken purchase is the one step the exceptions of
\* NoOverdraft and ImplementsLedger name.
LEMMA OvertakenCommit ==
    ASSUME TypeOK, NEW w \in overtaken, PurchaseCommit(w)
    PROVE  /\ w \in Workers /\ Stale(w)
           /\ \A u \in Users : Charged(u) => task[w].user = u
  <1>1. w \in Workers
    BY DEF TypeOK
  <1>2. task'[w] # task[w]
    BY <1>1 DEF PurchaseCommit, Finish, Idle, TypeOK
  <1>3. ASSUME NEW u \in Users, Charged(u) PROVE task[w].user = u
    BY <1>3 DEF Charged, PurchaseCommit, TypeOK
  <1> QED
    BY <1>1, <1>2, <1>3 DEF Stale, PurchaseCommit

\* A purchase takes a balance below zero only if its buyer has been charged
\* through another process since premium.js read the balance.
THEOREM NobodyOverdraws == Spec => NoOverdraft
  <1>1. TypeOK /\ KnownActors /\ PurchaseBacked /\ [Next]_vars =>
            \A u \in Users : balance'[u] < 0 /\ Charged(u) =>
                \E w \in Workers : Stale(w) /\ task[w].user = u
    <2> SUFFICES ASSUME TypeOK, KnownActors, PurchaseBacked, [Next]_vars,
                        NEW u \in Users, balance'[u] < 0, Charged(u)
                 PROVE  \E w \in Workers : Stale(w) /\ task[w].user = u
      OBVIOUS
    <2>1. balance[u] \in Int /\ balance'[u] \in Int
      BY TypeStep DEF TypeOK
    <2>2. ~LedgerStep
      BY <2>1, LedgerStepPays DEF Charged
    <2> QED
      BY <2>2, StepIsLedgerStep, OvertakenCommit
  <1> QED
    BY <1>1, BalanceInvariant, PTL DEF Spec, NoOverdraft

\* The tables implement the atomic ledger, but for a purchase whose buyer has
\* been charged through another process since his balance was read.
THEOREM LedgerImplemented == Spec => ImplementsLedger
  <1>1. Init => Ledger!LedgerInit
    BY DEF Init, Ledger!LedgerInit, Opened
  <1>2. TypeOK /\ LedgerStep => [Ledger!LedgerNext]_(Ledger!lvars)
    <2> SUFFICES ASSUME TypeOK, LedgerStep PROVE [Ledger!LedgerNext]_(Ledger!lvars)
      OBVIOUS
    <2> USE DEF Opened, HasToken, CanPay, TypeOK
    <2>1. ASSUME NEW u \in Users, account[u] = "none",
                 account' = [account EXCEPT ![u] = "open"],
                 balance' = [balance EXCEPT ![u] = StartBalance]
          PROVE  Ledger!Open(u)
      BY <2>1 DEF Ledger!Open
    <2>2. ASSUME account' = account PROVE Opened' = Opened
      BY <2>2
    <2>3. ASSUME NEW u \in Users, NEW a \in Credits, HasToken(u), account' = account,
                 balance' = [balance EXCEPT ![u] = @ + a]
          PROVE  Ledger!Credit(u, a)
      BY <2>2, <2>3 DEF Ledger!Credit
    <2>4. ASSUME NEW u \in Users, NEW p \in ProductPrices, HasToken(u), CanPay(u, p),
                 account' = account, balance' = [balance EXCEPT ![u] = @ - p]
          PROVE  Ledger!Charge(u, p)
      BY <2>2, <2>4 DEF Ledger!Charge
    <2>5. ASSUME NEW u \in Users, NEW v \in Users, NEW p \in ListingPrices, HasToken(u),
                 HasToken(v), u # v, CanPay(u, p), account' = account,
                 balance' = [balance EXCEPT ![u] = @ - p, ![v] = @ + p]
          PROVE  Ledger!Pay(u, v, p)
      BY <2>2, <2>5 DEF Ledger!Pay
    <2>6. ASSUME NEW u \in Users, account[u] = "open",
                 account' = [account EXCEPT ![u] = "deleted"], balance' = balance
          PROVE  UNCHANGED Ledger!lvars
      BY <2>6 DEF Ledger!lvars
    <2>7. ASSUME account' = account, balance' = balance PROVE UNCHANGED Ledger!lvars
      BY <2>2, <2>7 DEF Ledger!lvars
    <2> HIDE DEF Opened, HasToken, CanPay, TypeOK
    <2> QED
      BY <2>1, <2>3, <2>4, <2>5, <2>6, <2>7 DEF LedgerStep, Ledger!LedgerNext
  <1>3. TypeOK /\ KnownActors /\ PurchaseBacked /\ [Next]_vars =>
            \/ Ledger!LedgerNext
            \/ UNCHANGED <<Opened, balance>>
            \/ \E w \in Workers : Stale(w)
    BY <1>2, StepIsLedgerStep, OvertakenCommit DEF Ledger!lvars
  <1> QED
    BY <1>1, <1>3, BalanceInvariant, PTL DEF Spec, ImplementsLedger

\* With a single API process no handler is ever overtaken, so that the two
\* theorems above hold without their exception.
THEOREM AloneNotOvertaken ==
    ASSUME \A v, w \in Workers : v = w PROVE Spec => [](overtaken = {})
  <1>1. Init => overtaken = {}
    BY DEF Init
  <1>2. overtaken = {} /\ [Next]_vars => (overtaken = {})'
    <2>1. ASSUME overtaken = {}, NEW w \in Workers, Overtake(w) PROVE overtaken' = {}
      <3>1. \A x \in Workers : x = w
        OBVIOUS
      <3> QED
        BY <2>1, <3>1 DEF Overtake
    <2> QED
      BY <2>1 DEF Next, vars
  <1> QED
    BY <1>1, <1>2, PTL DEF Spec

-----------------------------------------------------------------------------
(* Sums over finite sets.  Total folds a function by a recursive function   *)
(* on the subsets of its domain.                                           *)

\* The equation that defines the sums g of f over the sets of D.
SumsOn(D, f, g) ==
    \A s \in D : g[s] = IF s = {} THEN 0
                        ELSE LET x == CHOOSE x \in s : TRUE IN f[x] + g[s \ {x}]

\* Induction over the subsets of a finite set.
LEMMA SubsetsByInduction ==
    ASSUME NEW S, IsFiniteSet(S), NEW Good \in SUBSET SUBSET S, {} \in Good,
           \A s \in SUBSET S : s # {} /\ (\A x \in s : s \ {x} \in Good) => s \in Good
    PROVE  Good = SUBSET S
  <1> DEFINE Bad == (SUBSET S) \ Good
             R == StrictSubsetOrdering(S)
  <1> SUFFICES ASSUME Bad # {} PROVE FALSE
    OBVIOUS
  <1>1. IsWellFoundedOn(R, SUBSET S)
    <2>1. FiniteSubsetsOf(S) = SUBSET S
      BY FS_FiniteSubsetsOfFinite
    <2>2. IsWellFoundedOn(R, FiniteSubsetsOf(S))
      BY FS_StrictSubsetOrderingWellFounded
    <2> QED
      BY <2>1, <2>2
  <1>2. PICK s \in Bad : \A t \in Bad : ~(<<t, s>> \in R)
    <2>1. Bad \subseteq SUBSET S
      OBVIOUS
    <2> HIDE DEF Bad, R
    <2> QED
      BY <1>1, <2>1, WFMin
  <1>3. ASSUME NEW x \in s PROVE s \ {x} \in Good
    <2>1. <<s \ {x}, s>> \in R
      BY <1>3 DEF StrictSubsetOrdering
    <2> QED
      BY <1>2, <2>1
  <1> QED
    BY <1>2, <1>3

\* The sums exist, and Total is the one over the whole domain.
LEMMA SumsExist ==
    ASSUME NEW S, IsFiniteSet(S), NEW f \in [S -> Int]
    PROVE  \E g \in [SUBSET S -> Int] : SumsOn(SUBSET S, f, g)
  <1> DEFINE Upto(n) == {s \in SUBSET S : Cardinality(s) <= n}
             Good == {T \in SUBSET S : \E g \in [Upto(Cardinality(T)) -> Int] :
                                            SumsOn(Upto(Cardinality(T)), f, g)}
  <1>1. \A s \in SUBSET S : IsFiniteSet(s) /\ Cardinality(s) \in Nat
    BY FS_Subset, FS_CardinalityType
  <1>2. \A s \in SUBSET S : s # {} =>
            LET x == CHOOSE x \in s : TRUE IN
            x \in S /\ s \ {x} \in SUBSET S /\ Cardinality(s \ {x}) = Cardinality(s) - 1
    BY <1>1, FS_RemoveElement
  <1>3. {} \in Good
    <2>1. \A s \in Upto(0) : s = {}
      BY <1>1, FS_EmptySet
    <2> DEFINE g == [s \in Upto(0) |-> 0]
    <2>2. SumsOn(Upto(0), f, g) /\ g \in [Upto(0) -> Int]
      BY <2>1 DEF SumsOn
    <2> QED
      BY <2>2, FS_EmptySet
  <1>4. ASSUME NEW T \in SUBSET S, T # {}, \A x \in T : T \ {x} \in Good PROVE T \in Good
    <2>0. PICK U \in Good, n \in Nat : Cardinality(U) = n /\ Cardinality(T) = n + 1
      <3>1. PICK x \in T : TRUE
        BY <1>4
      <3>2. T \ {x} \in Good /\ Cardinality(T \ {x}) = Cardinality(T) - 1
        BY <1>1, <1>4, FS_RemoveElement
      <3>3. Cardinality(T) - 1 \in Nat /\ Cardinality(T) = (Cardinality(T) - 1) + 1
        BY <1>1, <3>2
      <3> HIDE DEF Good
      <3> QED
        BY <3>2, <3>3
    <2>1. PICK g \in [Upto(n) -> Int] : SumsOn(Upto(n), f, g)
      BY <2>0
    <2> DEFINE h == [s \in Upto(n + 1) |->
                       IF s \in Upto(n) THEN g[s]
                       ELSE LET x == CHOOSE x \in s : TRUE IN f[x] + g[s \ {x}]]
    <2>2. ASSUME NEW s \in Upto(n + 1), s # {}
          PROVE  LET x == CHOOSE x \in s : TRUE IN
                 x \in S /\ s \ {x} \in Upto(n) /\ (s \in Upto(n) => s \ {x} \in Upto(n))
      BY <1>1, <1>2, <2>2
    <2>3. {} \in Upto(n)
      BY FS_EmptySet
    <2>4. h \in [Upto(n + 1) -> Int]
      <3> SUFFICES ASSUME NEW s \in Upto(n + 1), s \notin Upto(n)
                   PROVE  (LET x == CHOOSE x \in s : TRUE IN f[x] + g[s \ {x}]) \in Int
        OBVIOUS
      <3> DEFINE x == CHOOSE x \in s : TRUE
      <3>1. x \in S /\ s \ {x} \in Upto(n)
        BY <2>2, <2>3
      <3> HIDE DEF x, Upto
      <3>2. f[x] \in Int /\ g[s \ {x}] \in Int
        BY <3>1
      <3> QED
        BY <3>2 DEF x
    <2>5. SumsOn(Upto(n + 1), f, h)
      <3> SUFFICES ASSUME NEW s \in Upto(n + 1)
                   PROVE  h[s] = IF s = {} THEN 0
                                 ELSE LET x == CHOOSE x \in s : TRUE IN f[x] + h[s \ {x}]
        BY DEF SumsOn
      <3> HIDE DEF Upto
      <3>1. CASE s = {}
        BY <2>1, <2>3, <3>1 DEF SumsOn
      <3>2. CASE s # {}
        <4> DEFINE x == CHOOSE x \in s : TRUE
        <4>1. s \ {x} \in Upto(n)
          BY <2>2, <3>2
        <4>2. s \ {x} \in Upto(n + 1)
          BY <4>1, <1>1 DEF Upto
        <4>3. h[s \ {x}] = g[s \ {x}]
          BY <4>1, <4>2
        <4>4. h[s] = f[x] + g[s \ {x}]
          BY <2>1, <3>2 DEF SumsOn
        <4> QED
          BY <3>2, <4>3, <4>4
      <3> QED
        BY <3>1, <3>2
    <2> HIDE DEF h, Upto
    <2> QED
      BY <2>0, <2>4, <2>5
  <1>5. Good \in SUBSET SUBSET S
    OBVIOUS
  <1>6. S \in Good
    <2> HIDE DEF Good
    <2>1. Good = SUBSET S
      BY <1>3, <1>4, <1>5, SubsetsByInduction
    <2> QED
      BY <2>1
  <1>7. Upto(Cardinality(S)) = SUBSET S
    BY FS_Subset
  <1> HIDE DEF Upto
  <1> QED
    BY <1>6, <1>7

\* Total(f) is the sum over the whole domain.
LEMMA TotalIsSum ==
    ASSUME NEW S, IsFiniteSet(S), NEW f \in [S -> Int]
    PROVE  \E g \in [SUBSET S -> Int] : SumsOn(SUBSET S, f, g) /\ Total(f) = g[S]
  <1> DEFINE Folds(g) == g = [s \in SUBSET S |-> IF s = {} THEN 0
                                ELSE LET x == CHOOSE x \in s : TRUE IN f[x] + g[s \ {x}]]
             g0 == CHOOSE g : Folds(g)
  <1>1. Total(f) = g0[S]
    BY DEF Total, FoldFunction, FoldFunctionOnSet, MapThenFoldSet
  <1>2. Folds(g0)
    <2>1. PICK g \in [SUBSET S -> Int] : SumsOn(SUBSET S, f, g)
      BY SumsExist
    <2>2. Folds(g)
      BY <2>1 DEF SumsOn
    <2> HIDE DEF Folds
    <2> QED
      BY <2>2
  <1>3. PICK g : /\ g = [s \in SUBSET S |-> g[s]]
                /\ SumsOn(SUBSET S, f, g) /\ Total(f) = g[S]
    <2> HIDE DEF g0
    <2> QED
      BY <1>1, <1>2 DEF SumsOn
  <1> DEFINE Good == {s \in SUBSET S : g[s] \in Int}
  <1>4. {} \in Good
    <2>1. g[{}] = 0
      BY <1>3 DEF SumsOn
    <2>2. g[{}] \in Int
      BY <2>1
    <2> QED
      BY <2>2
  <1>5. ASSUME NEW s \in SUBSET S, s # {}, \A x \in s : s \ {x} \in Good PROVE s \in Good
    <2> DEFINE x == CHOOSE x \in s : TRUE
    <2>1. x \in s /\ g[s] = f[x] + g[s \ {x}]
      BY <1>3, <1>5 DEF SumsOn
    <2> HIDE DEF x
    <2>2. f[x] \in Int /\ g[s \ {x}] \in Int
      BY <1>5, <2>1
    <2>3. f[x] + g[s \ {x}] \in Int
      BY <2>2
    <2>4. g[s] \in Int
      BY <2>1, <2>3
    <2> QED
      BY <2>4
  <1>6. Good = SUBSET S
    <2>1. Good \in SUBSET SUBSET S
      OBVIOUS
    <2> HIDE DEF Good
    <2> QED
      BY <1>4, <1>5, <2>1, SubsetsByInduction
  <1>7. g \in [SUBSET S -> Int]
    BY <1>3, <1>6
  <1> QED
    BY <1>3, <1>7

\* What holds of 0 and, with it, after adding one value, holds of the total.
LEMMA TotalType ==
    ASSUME NEW S, IsFiniteSet(S), NEW f \in [S -> Int], NEW V \in SUBSET Int, 0 \in V,
           \A x \in S : \A v \in V : f[x] + v \in V
    PROVE  Total(f) \in V
  <1>1. PICK g \in [SUBSET S -> Int] : SumsOn(SUBSET S, f, g) /\ Total(f) = g[S]
    BY TotalIsSum
  <1> DEFINE Good == {s \in SUBSET S : g[s] \in V}
  <1>2. {} \in Good
    BY <1>1 DEF SumsOn
  <1>3. ASSUME NEW s \in SUBSET S, s # {}, \A x \in s : s \ {x} \in Good PROVE s \in Good
    <2> DEFINE x == CHOOSE x \in s : TRUE
    <2>1. x \in s /\ g[s] = f[x] + g[s \ {x}]
      BY <1>1, <1>3 DEF SumsOn
    <2> HIDE DEF x
    <2> QED
      BY <1>3, <2>1
  <1>4. Good = SUBSET S
    <2>1. Good \in SUBSET SUBSET S
      OBVIOUS
    <2> HIDE DEF Good
    <2> QED
      BY <1>2, <1>3, <2>1, SubsetsByInduction
  <1> QED
    BY <1>1, <1>4

\* Where one value changes, the total changes by as much.
LEMMA TotalChanges ==
    ASSUME NEW S, IsFiniteSet(S), NEW f \in [S -> Int], NEW h \in [S -> Int], NEW x \in S,
           \A y \in S \ {x} : h[y] = f[y]
    PROVE  Total(h) = Total(f) + (h[x] - f[x])
  <1>1. PICK g \in [SUBSET S -> Int] : SumsOn(SUBSET S, f, g) /\ Total(f) = g[S]
    BY TotalIsSum
  <1>2. PICK k \in [SUBSET S -> Int] : SumsOn(SUBSET S, h, k) /\ Total(h) = k[S]
    BY TotalIsSum
  <1> DEFINE Good == {s \in SUBSET S : k[s] = g[s] + (IF x \in s THEN h[x] - f[x] ELSE 0)}
  <1>3. {} \in Good
    BY <1>1, <1>2 DEF SumsOn
  <1>4. ASSUME NEW s \in SUBSET S, s # {}, \A y \in s : s \ {y} \in Good PROVE s \in Good
    <2> DEFINE y == CHOOSE y \in s : TRUE
    <2>1. y \in s
      BY <1>4
    <2>2. g[s] = f[y] + g[s \ {y}] /\ k[s] = h[y] + k[s \ {y}]
      BY <1>1, <1>2, <1>4 DEF SumsOn
    <2> HIDE DEF y
    <2>3. /\ g[s \ {y}] \in Int /\ k[s \ {y}] \in Int /\ g[s] \in Int /\ k[s] \in Int
          /\ f[x] \in Int /\ h[x] \in Int /\ f[y] \in Int /\ h[y] \in Int
      BY <2>1
    <2>4. k[s \ {y}] = g[s \ {y}] + (IF x \in s \ {y} THEN h[x] - f[x] ELSE 0)
      BY <1>4, <2>1
    <2>5. CASE y = x
      BY <2>1, <2>2, <2>3, <2>4, <2>5
    <2>6. CASE y # x
      <3>1. h[y] = f[y]
        BY <2>1, <2>6
      <3>2. x \in s \ {y} <=> x \in s
        BY <2>6
      <3> QED
        BY <2>1, <2>2, <2>3, <2>4, <3>1, <3>2
    <2> QED
      BY <2>5, <2>6
  <1>5. Good = SUBSET S
    <2>1. Good \in SUBSET SUBSET S
      OBVIOUS
    <2> HIDE DEF Good
    <2>2. \A s \in SUBSET S : s # {} /\ (\A y \in s : s \ {y} \in Good) => s \in Good
      BY <1>4
    <2> QED
      BY <1>3, <2>1, <2>2, SubsetsByInduction
  <1>6. k[S] = g[S] + (h[x] - f[x])
    BY <1>5
  <1> QED
    BY <1>1, <1>2, <1>6

-----------------------------------------------------------------------------
(* The books, for any number of processes.                                 *)

\* What the worker w has credited and is about to record.
Reward(w) == IF task[w].op = "adReward" THEN task[w].amount ELSE 0
Rewards == [w \in Workers |-> Reward(w)]

\* A balance begins with the account.
NothingBefore == \A u \in Users : account[u] = "none" => balance[u] = 0

\* NYX held and spent beyond what the accounts started with and the wallet's
\* rows, or a handler about to write one, account for.
Surplus == Total(balance) + Total(spent)
              - (StartBalance * Cardinality(Opened) + Total(ledger) + Total(Rewards))

BooksInv ==
    /\ KnownActors
    /\ NothingBefore
    /\ Surplus \in Nat
    /\ crashes = 0 => Surplus = 0

\* How a step changes what the books are made of.
BooksStep ==
    \/ /\ UNCHANGED <<balance, spent, ledger, Rewards, Opened>>
       /\ crashes' \in {crashes, crashes + 1}
    \/ \E u \in Users :
          /\ u \notin Opened /\ Opened' = Opened \cup {u}
          /\ balance[u] = 0 /\ balance' = [balance EXCEPT ![u] = StartBalance]
          /\ UNCHANGED <<spent, ledger, Rewards, crashes>>
    \/ \E u, v \in Users, p \in Nat :
          /\ u # v /\ balance' = [balance EXCEPT ![u] = @ - p, ![v] = @ + p]
          /\ UNCHANGED <<spent, ledger, Rewards, Opened, crashes>>
    \/ \E u \in Users, p \in Nat :
          /\ balance' = [balance EXCEPT ![u] = @ - p]
          /\ spent' = [spent EXCEPT ![u] = @ + p]
          /\ UNCHANGED <<ledger, Rewards, Opened, crashes>>
    \/ \E u \in Users, a \in Nat :
          /\ balance' = [balance EXCEPT ![u] = @ + a]
          /\ ledger' = [ledger EXCEPT ![u] = @ + a]
          /\ UNCHANGED <<spent, Rewards, Opened, crashes>>
    \/ \E u \in Users, a \in Nat, w \in Workers :
          /\ balance' = [balance EXCEPT ![u] = @ + a]
          /\ Rewards[w] = 0 /\ Rewards' = [Rewards EXCEPT ![w] = a]
          /\ UNCHANGED <<spent, ledger, Opened, crashes>>
    \/ \E u \in Users, w \in Workers :
          /\ ledger' = [ledger EXCEPT ![u] = @ + Rewards[w]]
          /\ Rewards' = [Rewards EXCEPT ![w] = 0]
          /\ UNCHANGED <<balance, spent, Opened, crashes>>
    \/ \E w \in Workers :
          /\ Rewards' = [Rewards EXCEPT ![w] = 0]
          /\ crashes' = crashes + 1
          /\ UNCHANGED <<balance, spent, ledger, Opened>>

LEMMA RewardsType ==
    ASSUME TypeOK
    PROVE  Rewards \in [Workers -> Nat]
  <1> SUFFICES ASSUME NEW w \in Workers PROVE Reward(w) \in Nat
    BY DEF Rewards
  <1> QED
    BY TaskShape, AmountAssumption DEF Reward

\* A handler that begins or ends something else leaves the rewards alone.
LEMMA RewardsBegin ==
    ASSUME TypeOK, NEW w \in Workers, NEW t, Begin(w, t)
    PROVE  /\ Rewards' = [Rewards EXCEPT ![w] = IF t.op = "adReward" THEN t.amount ELSE 0]
           /\ task[w].op # "adReward" /\ t.op # "adReward" => Rewards' = Rewards
  BY DEF Rewards, Reward, TypeOK, Begin

LEMMA RewardsFinish ==
    ASSUME TypeOK, NEW w \in Workers, Finish(w)
    PROVE  /\ Rewards' = [Rewards EXCEPT ![w] = 0]
           /\ task[w].op # "adReward" => Rewards' = Rewards
  BY DEF Rewards, Reward, TypeOK, Finish, Idle

\* Nobody without an account has a balance.
LEMMA NothingBeforeStep ==
    ASSUME TypeOK, KnownActors, NothingBefore, [Next]_vars
    PROVE  NothingBefore'
  <1> SUFFICES ASSUME NEW u \in Users, account'[u] = "none" PROVE balance'[u] = 0
    BY DEF NothingBefore
  <1>1. account[u] = "none" /\ ~HasToken(u) /\ balance[u] = 0
    BY TokensKept DEF HasToken, NothingBefore
  <1> SUFFICES balance'[u] = balance[u]
    BY <1>1
  <1>2. CASE balance' = balance
    BY <1>2
  <1>3. ASSUME NEW w \in Workers, AccountStep(w) PROVE balance'[u] = balance[u]
    <2>1. ASSUME NEW v \in Users, RegisterInsert(w, v) PROVE balance'[u] = balance[u]
      BY <1>2, <2>1 DEF RegisterInsert, TypeOK, users
    <2> QED
      BY <1>2, <1>3, <2>1 DEF AccountStep, RegisterCheck, Rename, DeleteAccount, users
  <1>4. ASSUME NEW w \in Workers, MarketStep(w) PROVE balance'[u] = balance[u]
    <2>1. ASSUME NEW v \in Users, NEW i \in DOMAIN listings, Buy(w, v, i)
          PROVE  balance'[u] = balance[u]
      <3>1. u # v /\ u # listings[i].seller
        BY <1>1, <2>1 DEF Buy, KnownActors
      <3> QED
        BY <2>1, <3>1 DEF Buy, Transferred, TypeOK
    <2> QED
      BY <1>2, <1>4, <2>1 DEF MarketStep, ListCheck, ListInsert, Cancel, BuyRefused, users
  <1>5. ASSUME NEW w \in Workers, WalletStep(w) PROVE balance'[u] = balance[u]
    <2>1. CASE PurchaseCommit(w)
      <3>1. u # task[w].user
        BY <1>1, <2>1 DEF PurchaseCommit, KnownActors
      <3> QED
        BY <2>1, <3>1 DEF PurchaseCommit, TypeOK
    <2>2. ASSUME NEW v \in Users, NEW a \in Credits,
                 CoinsPurchase(w, v, a) \/ AdRewardCredit(w, v, a)
          PROVE  balance'[u] = balance[u]
      BY <1>1, <2>2 DEF CoinsPurchase, AdRewardCredit, Credited, TypeOK
    <2> QED
      BY <1>2, <1>5, <2>1, <2>2 DEF WalletStep, PurchaseCheck, AdRewardRecord, users
  <1>6. ASSUME NEW w \in Workers, Crash(w) PROVE balance' = balance
    BY <1>6 DEF Crash, users
  <1>7. CASE UNCHANGED vars
    BY <1>2, <1>7 DEF vars, users
  <1> QED
    BY <1>2, <1>3, <1>4, <1>5, <1>6, <1>7 DEF Next

LEMMA StepIsBooksStep ==
    ASSUME TypeOK, KnownActors, NothingBefore, [Next]_vars PROVE BooksStep
  <1> USE AmountAssumption
  <1>1. ASSUME UNCHANGED <<balance, spent, ledger, Rewards, Opened>>,
               crashes' \in {crashes, crashes + 1}
        PROVE  BooksStep
    BY <1>1 DEF BooksStep
  <1>2. ASSUME account' = account PROVE Opened' = Opened
    BY <1>2 DEF Opened
  <1>3. ASSUME task' = task PROVE Rewards' = Rewards
    BY <1>3 DEF Rewards, Reward
  <1>4. ASSUME NEW w \in Workers, Finish(w)
        PROVE  /\ Rewards' = [Rewards EXCEPT ![w] = 0]
               /\ task[w].op # "adReward" => Rewards' = Rewards
    BY <1>4, RewardsFinish
  <1>5. ASSUME NEW w \in Workers, AccountStep(w) PROVE BooksStep
    <2>1. UNCHANGED <<spent, ledger, Rewards, crashes>>
      BY <1>3, <1>5 DEF AccountStep, RegisterCheck, Rename, RegisterInsert, DeleteAccount,
           wallet, volatile
    <2>2. ASSUME NEW u \in Users, RegisterInsert(w, u) PROVE BooksStep
      <3>1. CASE account' = account /\ balance' = balance
        BY <1>1, <1>2, <2>1, <3>1
      <3>2. CASE /\ account' = [account EXCEPT ![u] = "open"]
                 /\ balance' = [balance EXCEPT ![u] = StartBalance]
        <4>1. account[u] = "none"
          BY <2>2 DEF RegisterInsert, KnownActors
        <4>2. u \notin Opened /\ Opened' = Opened \cup {u} /\ balance[u] = 0
          BY <3>2, <4>1 DEF Opened, NothingBefore, TypeOK
        <4> QED
          BY <2>1, <3>2, <4>2 DEF BooksStep
      <3> QED
        BY <2>2, <3>1, <3>2 DEF RegisterInsert, users
    <2>3. ASSUME NEW u \in Users, DeleteAccount(w, u) PROVE BooksStep
      <3>1. Opened' = Opened /\ balance' = balance
        BY <2>3 DEF DeleteAccount, Opened, TypeOK
      <3> QED
        BY <1>1, <2>1, <3>1
    <2>4. ASSUME account' = account /\ balance' = balance PROVE BooksStep
      BY <1>1, <1>2, <2>1, <2>4
    <2> QED
      BY <1>5, <2>2, <2>3, <2>4 DEF AccountStep, RegisterCheck, Rename, users
  <1>6. ASSUME NEW w \in Workers, MarketStep(w) PROVE BooksStep
    <2>1. /\ UNCHANGED <<spent, ledger, Opened, crashes>>
          /\ balance' = balance => Rewards' = Rewards
      <3>1. ASSUME NEW u \in Users, NEW n \in Names, NEW p \in ListingPrices,
                   ListCheck(w, u, n, p)
            PROVE  UNCHANGED <<spent, ledger, Opened, crashes, Rewards>>
        <4>1. PICK t : t.op # "adReward" /\ Begin(w, t)
          BY <3>1 DEF ListCheck
        <4>2. task[w].op # "adReward"
          BY <3>1 DEF ListCheck, Ready, Idle
        <4>3. Rewards' = Rewards
          BY <4>1, <4>2, RewardsBegin
        <4> QED
          BY <1>2, <3>1, <4>3 DEF ListCheck, users, wallet
      <3>2. ASSUME ListInsert(w)
            PROVE  UNCHANGED <<spent, ledger, Opened, crashes, Rewards>>
        BY <1>2, <1>4, <3>2 DEF ListInsert, users, wallet
      <3> QED
        BY <1>2, <1>3, <1>6, <3>1, <3>2 DEF MarketStep, Cancel, Buy, BuyRefused, users, wallet,
             volatile
    <2>2. ASSUME balance' = balance PROVE BooksStep
      BY <1>1, <2>1, <2>2
    <2>3. ASSUME NEW u \in Users, NEW i \in DOMAIN listings, Buy(w, u, i) PROVE BooksStep
      <3>1. listings[i] \in Listing
        BY DEF TypeOK
      <3>2. PICK s \in Users, p \in Nat : s = listings[i].seller /\ p = listings[i].price
        BY <3>1 DEF Listing
      <3>3. u # s /\ balance' = [balance EXCEPT ![u] = @ - p, ![s] = @ + p] /\ task' = task
        BY <2>3, <3>2 DEF Buy, Transferred, volatile
      <3> QED
        BY <1>3, <2>1, <3>3 DEF BooksStep
    <2> QED
      BY <1>6, <2>2, <2>3 DEF MarketStep, ListCheck, ListInsert, Cancel, BuyRefused, users
  <1>7. ASSUME NEW w \in Workers, WalletStep(w) PROVE BooksStep
    <2>1. Opened' = Opened /\ crashes' = crashes
      BY <1>2, <1>7 DEF WalletStep, PurchaseCheck, PurchaseCommit, CoinsPurchase,
           AdRewardCredit, AdRewardRecord, users
    <2>2. ASSUME NEW u \in Users, NEW p \in ProductPrices, PurchaseCheck(w, u, p)
          PROVE  BooksStep
      <3>1. UNCHANGED <<balance, spent, ledger, Rewards>>
        <4>1. PICK t : t.op # "adReward" /\ Begin(w, t)
          BY <2>2 DEF PurchaseCheck
        <4>2. task[w].op # "adReward"
          BY <2>2 DEF PurchaseCheck, Ready, Idle
        <4>3. Rewards' = Rewards
          BY <4>1, <4>2, RewardsBegin
        <4> QED
          BY <2>2, <4>3 DEF PurchaseCheck, users, wallet
      <3> QED
        BY <1>1, <2>1, <3>1
    <2>3. CASE PurchaseCommit(w)
      <3>1. PICK u \in Users, p \in Nat : u = task[w].user /\ p = task[w].price
        BY <2>3, TaskShape DEF PurchaseCommit
      <3>2. /\ balance' = [balance EXCEPT ![u] = @ - p] /\ spent' = [spent EXCEPT ![u] = @ + p]
            /\ UNCHANGED <<ledger, Rewards>>
        BY <1>4, <2>3, <3>1 DEF PurchaseCommit
      <3> QED
        BY <2>1, <3>2 DEF BooksStep
    <2>4. ASSUME NEW u \in Users, NEW a \in Credits, CoinsPurchase(w, u, a) PROVE BooksStep
      <3>1. /\ a \in Nat /\ balance' = [balance EXCEPT ![u] = @ + a]
            /\ ledger' = [ledger EXCEPT ![u] = @ + a] /\ UNCHANGED <<spent, Rewards>>
        BY <1>3, <2>4 DEF CoinsPurchase, Credited, volatile
      <3> QED
        BY <2>1, <3>1 DEF BooksStep
    <2>5. ASSUME NEW u \in Users, NEW a \in Credits, AdRewardCredit(w, u, a) PROVE BooksStep
      <3>1. a \in Nat /\ balance' = [balance EXCEPT ![u] = @ + a] /\ UNCHANGED <<spent, ledger>>
        BY <2>5 DEF AdRewardCredit, Credited, wallet
      <3>2. Rewards[w] = 0
        BY <2>5 DEF AdRewardCredit, Ready, Idle, Rewards, Reward
      <3>3. Rewards' = [Rewards EXCEPT ![w] = a]
        <4>1. PICK t : t.op = "adReward" /\ t.amount = a /\ Begin(w, t)
          BY <2>5 DEF AdRewardCredit
        <4> QED
          BY <4>1, RewardsBegin
      <3> QED
        BY <2>1, <3>1, <3>2, <3>3 DEF BooksStep
    <2>6. CASE AdRewardRecord(w)
      <3>1. PICK u \in Users : u = task[w].user
        BY <2>6, TaskShape DEF AdRewardRecord
      <3>2. Rewards[w] = task[w].amount
        BY <2>6 DEF AdRewardRecord, Rewards, Reward
      <3>3. /\ ledger' = [ledger EXCEPT ![u] = @ + Rewards[w]]
            /\ Rewards' = [Rewards EXCEPT ![w] = 0] /\ UNCHANGED <<balance, spent>>
        BY <1>4, <2>6, <3>1, <3>2 DEF AdRewardRecord, users
      <3> QED
        BY <2>1, <3>3 DEF BooksStep
    <2> QED
      BY <1>7, <2>2, <2>3, <2>4, <2>5, <2>6 DEF WalletStep
  <1>8. ASSUME NEW w \in Workers, Crash(w) PROVE BooksStep
    <2>1. /\ Rewards' = [Rewards EXCEPT ![w] = 0] /\ crashes' = crashes + 1
          /\ UNCHANGED <<balance, spent, ledger, Opened>>
      BY <1>2, <1>4, <1>8 DEF Crash, users, wallet
    <2> QED
      BY <2>1 DEF BooksStep
  <1>9. CASE UNCHANGED vars
    BY <1>1, <1>2, <1>3, <1>9 DEF vars, users, wallet, volatile
  <1> QED
    BY <1>5, <1>6, <1>7, <1>8, <1>9 DEF Next

LEMMA TotalInt ==
    ASSUME NEW S, IsFiniteSet(S), NEW f \in [S -> Int]
    PROVE  Total(f) \in Int
  <1>1. \A x \in S : \A v \in Int : f[x] + v \in Int
    OBVIOUS
  <1>2. Int \in SUBSET Int /\ 0 \in Int
    OBVIOUS
  <1> QED
    BY <1>1, <1>2, TotalType

\* The four sums, before and after a step.
LEMMA Sums ==
    ASSUME TypeOK
    PROVE  /\ balance \in [Users -> Int] /\ spent \in [Users -> Int]
           /\ ledger \in [Users -> Int] /\ Rewards \in [Workers -> Int]
           /\ Total(balance) \in Int /\ Total(spent) \in Int
           /\ Total(ledger) \in Int /\ Total(Rewards) \in Nat
           /\ Cardinality(Opened) \in Nat /\ IsFiniteSet(Opened)
  <1>1. /\ balance \in [Users -> Int] /\ spent \in [Users -> Int]
        /\ ledger \in [Users -> Int]
    BY DEF TypeOK
  <1>2. Rewards \in [Workers -> Int] /\ \A w \in Workers : Rewards[w] \in Nat
    BY RewardsType
  <1>3. ASSUME NEW f \in [Users -> Int] PROVE Total(f) \in Int
    BY FiniteAssumption, TotalInt
  <1>4. Total(Rewards) \in Nat
    <2>1. PICK r \in [Workers -> Int] : r = Rewards
      BY <1>2
    <2>2. \A x \in Workers : \A v \in Nat : r[x] + v \in Nat
      BY <1>2, <2>1
    <2>3. Nat \in SUBSET Int /\ 0 \in Nat
      OBVIOUS
    <2> QED
      BY <2>1, <2>2, <2>3, FiniteAssumption, TotalType
  <1>5. Cardinality(Opened) \in Nat /\ IsFiniteSet(Opened)
    BY FiniteAssumption, FS_Subset, FS_CardinalityType DEF Opened
  <1> QED
    BY <1>1, <1>2, <1>3, <1>4, <1>5

\* A step keeps the surplus; only a crash may add to it.
LEMMA SurplusStep ==
    ASSUME TypeOK, TypeOK', BooksStep, Surplus \in Nat
    PROVE  /\ Surplus' \in Nat
           /\ crashes' = 0 => Surplus' = Surplus /\ crashes = 0
  <1>1. PICK b \in [Users -> Int], s \in [Users -> Int], l \in [Users -> Int],
             r \in [Workers -> Int], C \in Nat :
             b = balance /\ s = spent /\ l = ledger /\ r = Rewards /\ C = Cardinality(Opened)
    BY Sums
  <1>2. PICK b2 \in [Users -> Int], s2 \in [Users -> Int], l2 \in [Users -> Int] :
             b2 = balance' /\ s2 = spent' /\ l2 = ledger'
    BY DEF TypeOK
  <1>0. PICK r2, C2 : r2 = Rewards' /\ C2 = Cardinality(Opened')
    OBVIOUS
  <1> DEFINE Before == Total(b) + Total(s) - (StartBalance * C + Total(l) + Total(r))
             After == Total(b2) + Total(s2) - (StartBalance * C2 + Total(l2) + Total(r2))
  <1>3. Surplus = Before
    BY <1>1 DEF Surplus
  <1>4. Surplus' = After
    BY <1>0, <1>2 DEF Surplus, Total, FoldFunction, FoldFunctionOnSet, MapThenFoldSet
  <1>5. /\ Total(b) \in Int /\ Total(s) \in Int /\ Total(l) \in Int /\ Total(r) \in Int
        /\ \A w \in Workers : r[w] \in Nat
        /\ StartBalance \in Nat /\ crashes \in Nat
        /\ StartBalance * C \in Int
    <2>1. StartBalance * C \in Int
      BY AmountAssumption
    <2> QED
      BY <1>1, <2>1, Sums, RewardsType, AmountAssumption DEF TypeOK
  <1>6. ASSUME NEW f \in [Users -> Int], NEW h \in [Users -> Int], NEW x \in Users,
               \A y \in Users \ {x} : h[y] = f[y]
        PROVE  Total(h) = Total(f) + (h[x] - f[x])
    BY <1>6, FiniteAssumption, TotalChanges
  <1>7. ASSUME NEW w \in Workers, r2 \in [Workers -> Int], \A y \in Workers \ {w} : r2[y] = r[y]
        PROVE  Total(r2) = Total(r) + (r2[w] - r[w])
    BY <1>7, FiniteAssumption, TotalChanges
  <1> DEFINE Goal == After \in Nat /\ (crashes' = 0 => After = Before /\ crashes = 0)
  <1>8. Before \in Nat
    BY <1>3
  <1>9. ASSUME After = Before, crashes' \in {crashes, crashes + 1} PROVE Goal
    <2>1. crashes + 1 # 0
      BY <1>5
    <2> HIDE DEF After, Before
    <2> QED
      BY <1>8, <1>9, <2>1
  <1> HIDE DEF Goal
  <1>10. ASSUME UNCHANGED <<balance, spent, ledger, Rewards, Opened>>,
                crashes' \in {crashes, crashes + 1}
         PROVE  Goal
    <2>1. b2 = b /\ s2 = s /\ l2 = l /\ r2 = r /\ C2 = C
      BY <1>0, <1>1, <1>2, <1>10
    <2>2. After = Before
      BY <2>1
    <2> QED
      BY <1>9, <1>10, <2>2
  <1>11. ASSUME NEW u \in Users, u \notin Opened, Opened' = Opened \cup {u}, balance[u] = 0,
                balance' = [balance EXCEPT ![u] = StartBalance],
                UNCHANGED <<spent, ledger, Rewards, crashes>>
         PROVE  Goal
    <2>1. C2 = C + 1
      BY <1>0, <1>1, <1>2, <1>11, Sums, FS_AddElement
    <2>2. b[u] = 0 /\ b2 = [b EXCEPT ![u] = StartBalance] /\ s2 = s /\ l2 = l /\ r2 = r
      BY <1>0, <1>1, <1>2, <1>11
    <2>3. Total(b2) = Total(b) + StartBalance
      <3>1. \A y \in Users \ {u} : b2[y] = b[y]
        BY <1>5, <2>2
      <3>2. Total(b2) = Total(b) + (b2[u] - b[u])
        BY <1>6, <3>1
      <3>3. b2[u] - b[u] = StartBalance
        BY <1>5, <2>2
      <3> QED
        BY <3>2, <3>3
    <2>4. StartBalance * C2 = StartBalance * C + StartBalance
      BY <1>5, <2>1
    <2>9. After = Before
      BY <1>5, <2>2, <2>3, <2>4
    <2> QED
      BY <1>9, <1>11, <2>9
  <1>12. ASSUME NEW u \in Users, NEW v \in Users, NEW p \in Nat, u # v,
                balance' = [balance EXCEPT ![u] = @ - p, ![v] = @ + p],
                UNCHANGED <<spent, ledger, Rewards, Opened, crashes>>
         PROVE  Goal
    <2>1. PICK m \in [Users -> Int] : m = [b EXCEPT ![u] = b[u] - p]
      <3>1. b[u] - p \in Int
        OBVIOUS
      <3>2. [b EXCEPT ![u] = b[u] - p] \in [Users -> Int]
        BY <3>1
      <3> QED
        BY <3>2
    <2>2. Total(m) = Total(b) + (0 - p)
      <3>1. \A y \in Users \ {u} : m[y] = b[y]
        BY <2>1
      <3>2. Total(m) = Total(b) + (m[u] - b[u])
        BY <1>6, <3>1
      <3>3. m[u] - b[u] = 0 - p
        BY <2>1
      <3> QED
        BY <3>2, <3>3
    <2>3. b2 = [m EXCEPT ![v] = m[v] + p] /\ s2 = s /\ l2 = l /\ r2 = r /\ C2 = C
      BY <1>0, <1>1, <1>2, <1>12, <2>1
    <2>4. Total(b2) = Total(m) + p
      <3>1. \A y \in Users \ {v} : b2[y] = m[y]
        BY <2>3
      <3>2. Total(b2) = Total(m) + (b2[v] - m[v])
        BY <1>6, <3>1
      <3>3. b2[v] - m[v] = p
        BY <2>3
      <3> QED
        BY <3>2, <3>3
    <2>9. After = Before
      BY <1>5, <2>2, <2>3, <2>4
    <2> QED
      BY <1>9, <1>12, <2>9
  <1>13. ASSUME NEW u \in Users, NEW p \in Nat,
                balance' = [balance EXCEPT ![u] = @ - p], spent' = [spent EXCEPT ![u] = @ + p],
                UNCHANGED <<ledger, Rewards, Opened, crashes>>
         PROVE  Goal
    <2>1. /\ b2 = [b EXCEPT ![u] = b[u] - p] /\ s2 = [s EXCEPT ![u] = s[u] + p]
          /\ l2 = l /\ r2 = r /\ C2 = C
      BY <1>0, <1>1, <1>2, <1>13
    <2>2. Total(b2) = Total(b) + (0 - p)
      <3>1. \A y \in Users \ {u} : b2[y] = b[y]
        BY <2>1
      <3>2. Total(b2) = Total(b) + (b2[u] - b[u])
        BY <1>6, <3>1
      <3>3. b2[u] - b[u] = 0 - p
        BY <2>1
      <3> QED
        BY <3>2, <3>3
    <2>3. Total(s2) = Total(s) + p
      <3>1. \A y \in Users \ {u} : s2[y] = s[y]
        BY <2>1
      <3>2. Total(s2) = Total(s) + (s2[u] - s[u])
        BY <1>6, <3>1
      <3>3. s2[u] - s[u] = p
        BY <2>1
      <3> QED
        BY <3>2, <3>3
    <2>9. After = Before
      BY <1>5, <2>1, <2>2, <2>3
    <2> QED
      BY <1>9, <1>13, <2>9
  <1>14. ASSUME NEW u \in Users, NEW a \in Nat,
                balance' = [balance EXCEPT ![u] = @ + a], ledger' = [ledger EXCEPT ![u] = @ + a],
                UNCHANGED <<spent, Rewards, Opened, crashes>>
         PROVE  Goal
    <2>1. /\ b2 = [b EXCEPT ![u] = b[u] + a] /\ l2 = [l EXCEPT ![u] = l[u] + a]
          /\ s2 = s /\ r2 = r /\ C2 = C
      BY <1>0, <1>1, <1>2, <1>14
    <2>2. Total(b2) = Total(b) + a
      <3>1. \A y \in Users \ {u} : b2[y] = b[y]
        BY <2>1
      <3>2. Total(b2) = Total(b) + (b2[u] - b[u])
        BY <1>6, <3>1
      <3>3. b2[u] - b[u] = a
        BY <2>1
      <3> QED
        BY <3>2, <3>3
    <2>3. Total(l2) = Total(l) + a
      <3>1. \A y \in Users \ {u} : l2[y] = l[y]
        BY <2>1
      <3>2. Total(l2) = Total(l) + (l2[u] - l[u])
        BY <1>6, <3>1
      <3>3. l2[u] - l[u] = a
        BY <2>1
      <3> QED
        BY <3>2, <3>3
    <2>9. After = Before
      BY <1>5, <2>1, <2>2, <2>3
    <2> QED
      BY <1>9, <1>14, <2>9
  <1>15. ASSUME NEW u \in Users, NEW a \in Nat, NEW w \in Workers,
                balance' = [balance EXCEPT ![u] = @ + a], Rewards[w] = 0,
                Rewards' = [Rewards EXCEPT ![w] = a],
                UNCHANGED <<spent, ledger, Opened, crashes>>
         PROVE  Goal
    <2>1. /\ b2 = [b EXCEPT ![u] = b[u] + a] /\ r2 = [r EXCEPT ![w] = a] /\ r[w] = 0
          /\ s2 = s /\ l2 = l /\ C2 = C
      BY <1>0, <1>1, <1>2, <1>15
    <2>2. Total(b2) = Total(b) + a
      <3>1. \A y \in Users \ {u} : b2[y] = b[y]
        BY <2>1
      <3>2. Total(b2) = Total(b) + (b2[u] - b[u])
        BY <1>6, <3>1
      <3>3. b2[u] - b[u] = a
        BY <2>1
      <3> QED
        BY <3>2, <3>3
    <2>3. Total(r2) = Total(r) + a
      <3>1. r2 \in [Workers -> Int] /\ \A y \in Workers \ {w} : r2[y] = r[y]
        BY <1>5, <2>1
      <3>2. Total(r2) = Total(r) + (r2[w] - r[w])
        BY <1>7, <3>1
      <3>3. r2[w] - r[w] = a
        BY <1>5, <2>1
      <3> QED
        BY <3>2, <3>3
    <2>9. After = Before
      BY <1>5, <2>1, <2>2, <2>3
    <2> QED
      BY <1>9, <1>15, <2>9
  <1>16. ASSUME NEW u \in Users, NEW w \in Workers,
                ledger' = [ledger EXCEPT ![u] = @ + Rewards[w]],
                Rewards' = [Rewards EXCEPT ![w] = 0],
                UNCHANGED <<balance, spent, Opened, crashes>>
         PROVE  Goal
    <2>1. /\ l2 = [l EXCEPT ![u] = l[u] + r[w]] /\ r2 = [r EXCEPT ![w] = 0]
          /\ b2 = b /\ s2 = s /\ C2 = C
      BY <1>0, <1>1, <1>2, <1>16
    <2>2. Total(l2) = Total(l) + r[w]
      <3>1. \A y \in Users \ {u} : l2[y] = l[y]
        BY <1>5, <2>1
      <3>2. Total(l2) = Total(l) + (l2[u] - l[u])
        BY <1>6, <3>1
      <3>3. l2[u] - l[u] = r[w]
        BY <1>5, <2>1
      <3> QED
        BY <3>2, <3>3
    <2>3. Total(r2) = Total(r) + (0 - r[w])
      <3>1. r2 \in [Workers -> Int] /\ \A y \in Workers \ {w} : r2[y] = r[y]
        BY <1>5, <2>1
      <3>2. Total(r2) = Total(r) + (r2[w] - r[w])
        BY <1>7, <3>1
      <3>3. r2[w] - r[w] = 0 - r[w]
        BY <1>5, <2>1
      <3> QED
        BY <3>2, <3>3
    <2>9. After = Before
      BY <1>5, <2>1, <2>2, <2>3
    <2> QED
      BY <1>9, <1>16, <2>9
  <1>17. ASSUME NEW w \in Workers, Rewards' = [Rewards EXCEPT ![w] = 0], crashes' = crashes + 1,
                UNCHANGED <<balance, spent, ledger, Opened>>
         PROVE  Goal
    <2>1. r2 = [r EXCEPT ![w] = 0] /\ b2 = b /\ s2 = s /\ l2 = l /\ C2 = C
      BY <1>0, <1>1, <1>2, <1>17
    <2>2. Total(r2) = Total(r) + (0 - r[w])
      <3>1. r2 \in [Workers -> Int] /\ \A y \in Workers \ {w} : r2[y] = r[y]
        BY <1>5, <2>1
      <3>2. Total(r2) = Total(r) + (r2[w] - r[w])
        BY <1>7, <3>1
      <3>3. r2[w] - r[w] = 0 - r[w]
        BY <1>5, <2>1
      <3> QED
        BY <3>2, <3>3
    <2>3. After = Before + r[w]
      BY <1>5, <2>1, <2>2
    <2>4. After \in Nat
      BY <1>5, <1>8, <2>3
    <2>5. crashes' # 0
      BY <1>5, <1>17
    <2> HIDE DEF After, Before
    <2> QED
      BY <2>4, <2>5 DEF Goal
  <1>18. Goal
    BY <1>10, <1>11, <1>12, <1>13, <1>14, <1>15, <1>16, <1>17 DEF BooksStep
  <1> QED
    BY <1>3, <1>4, <1>18 DEF Goal

\* For every number of processes no NYX appears or vanishes: the balances and
\* what was spent cover at least what the accounts started with and what the
\* wallet says was credited, and exactly that, with the rewards about to be
\* recorded, unless a process has died (premium.js, marketplace.js).
THEOREM BooksAreBalanced == Spec => []BooksBalance
  <1>1. Init => BooksInv
    <2> SUFFICES ASSUME Init PROVE BooksInv
      OBVIOUS
    <2>1. KnownActors /\ NothingBefore
      BY DEF Init, KnownActors, NothingBefore, Idle
    <2>2. Opened = {} /\ Rewards = [w \in Workers |-> 0]
      BY DEF Init, Opened, Rewards, Reward, Idle
    <2>3. ASSUME NEW S, IsFiniteSet(S), NEW f \in [S -> Int], \A x \in S : f[x] = 0
          PROVE  Total(f) = 0
      <3>2. \A x \in S : \A v \in {0} : f[x] + v \in {0}
        BY <2>3
      <3>3. {0} \in SUBSET Int
        OBVIOUS
      <3>4. Total(f) \in {0}
        BY <2>3, <3>2, <3>3, TotalType
      <3> QED
        BY <3>4
    <2>4. Total(balance) = 0 /\ Total(spent) = 0 /\ Total(ledger) = 0 /\ Total(Rewards) = 0
      <3>1. \A f \in [Users -> Int] : (\A u \in Users : f[u] = 0) => Total(f) = 0
        BY <2>3, FiniteAssumption
      <3>2. \A f \in [Workers -> Int] : (\A w \in Workers : f[w] = 0) => Total(f) = 0
        BY <2>3, FiniteAssumption
      <3>3. /\ balance \in [Users -> Int] /\ \A u \in Users : balance[u] = 0
            /\ spent = balance /\ ledger = balance
        BY DEF Init
      <3>4. Rewards \in [Workers -> Int] /\ \A w \in Workers : Rewards[w] = 0
        BY <2>2
      <3> QED
        BY <3>1, <3>2, <3>3, <3>4
    <2>5. StartBalance * Cardinality(Opened) = 0
      BY <2>2, FS_EmptySet, AmountAssumption
    <2>6. Surplus = 0
      BY <2>4, <2>5 DEF Surplus
    <2> QED
      BY <2>1, <2>6 DEF BooksInv
  <1>2. TypeOK /\ BooksInv /\ [Next]_vars => BooksInv'
    <2> SUFFICES ASSUME TypeOK, BooksInv, [Next]_vars PROVE BooksInv'
      OBVIOUS
    <2>1. TypeOK' /\ KnownActors'
      BY TypeStep, KnownActorsStep DEF BooksInv
    <2>2. NothingBefore' /\ BooksStep
      BY NothingBeforeStep, StepIsBooksStep DEF BooksInv
    <2>3. Surplus \in Nat /\ (crashes = 0 => Surplus = 0) /\ crashes \in Nat
      BY DEF BooksInv, TypeOK
    <2>4. /\ Surplus' \in Nat
          /\ crashes' = 0 => Surplus' = Surplus /\ crashes = 0
      BY <2>1, <2>2, <2>3, SurplusStep
    <2> QED
      BY <2>1, <2>2, <2>3, <2>4 DEF BooksInv
  <1>3. TypeOK /\ BooksInv => BooksBalance
    <2> SUFFICES ASSUME TypeOK, BooksInv PROVE BooksBalance
      OBVIOUS
    <2>1. UnrecordedRewards = Total(Rewards)
      BY DEF UnrecordedRewards, Rewards, Reward
    <2>2. /\ Total(balance) \in Int /\ Total(spent) \in Int /\ Total(ledger) \in Int
          /\ Total(Rewards) \in Nat /\ StartBalance * Cardinality(Opened) \in Int
      BY Sums, AmountAssumption
    <2>3. /\ Total(balance) + Total(spent)
                 - (StartBalance * Cardinality(Opened) + Total(ledger) + Total(Rewards)) \in Nat
          /\ crashes = 0 => Total(balance) + Total(spent)
                 - (StartBalance * Cardinality(Opened) + Total(ledger) + Total(Rewards)) = 0
      BY DEF BooksInv, Surplus
    <2> QED
      BY <2>1, <2>2, <2>3 DEF BooksBalance
  <1> QED
    BY <1>1, <1>2, <1>3, TypeCorrect, PTL DEF Spec

=============================================================================
