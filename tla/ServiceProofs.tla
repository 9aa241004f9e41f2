---------------------------- MODULE ServiceProofs ----------------------------
(***************************************************************************)
(* Proofs about three components that share no state: the API process       *)
(* (ApiProcess), the updates of a bot (BotUpdates; its names begin with     *)
(* Bot) and the support desk (SupportTickets; Desk).  Each theorem is about *)
(* the specification of one of them, for every value of its constants.      *)
(***************************************************************************)
EXTENDS ApiProcess, BotUpdates, SupportTickets, FiniteSetTheorems,
        WellFoundedInduction, TLAPS

-----------------------------------------------------------------------------
(* I. The API process.                                                     *)

Arrival == [at: Nat, ok: BOOLEAN]
Log == Seq(Arrival)

-----------------------------------------------------------------------------
(* Types.                                                                  *)

LEMMA ArrivalTimes ==
    ASSUME NEW s \in Log, NEW n \in 1..Len(s)
    PROVE  s[n].at \in Nat
<1>1. s[n] \in Arrival
  BY DEF Log
<1> QED BY <1>1 DEF Arrival

LEMMA FreshType ==
    ASSUME TypeOK, NEW a \in Addresses
    PROVE  Fresh(a) \in SUBSET Nat
BY DEF TypeOK, Fresh

LEMMA CountType ==
    ASSUME TypeOK, NEW a \in Addresses, Count(a)
    PROVE  /\ buckets' \in [Addresses -> SUBSET Nat]
           /\ arrivals' \in [Addresses -> Log]
<1>1. Fresh(a) \in SUBSET Nat
  BY FreshType
<1>2. buckets' \in [Addresses -> SUBSET Nat]
  BY <1>1 DEF TypeOK, Count, Kept
<1>3. [at |-> clock, ok |-> Verdict(a)] \in Arrival
  <2>1. Verdict(a) \in BOOLEAN
    BY DEF Verdict, Admits
  <2> QED BY <2>1 DEF TypeOK, Arrival
<1>4. Append(arrivals[a], [at |-> clock, ok |-> Verdict(a)]) \in Log
  BY <1>3 DEF TypeOK, Log, Arrival
<1>5. arrivals' \in [Addresses -> Log]
  BY <1>4 DEF TypeOK, Count, Log, Arrival
<1> QED BY <1>2, <1>5

\* Every variable keeps its type.
THEOREM TypeCorrect == Spec => []TypeOK
<1>1. Init => TypeOK
  <2> SUFFICES ASSUME Init PROVE TypeOK
    OBVIOUS
  <2>1. arrivals \in [Addresses -> Seq([at: Nat, ok: BOOLEAN])]
    BY DEF Init, NoArrivals
  <2>2. buckets \in [Addresses -> SUBSET Nat]
    BY DEF Init, EmptyBuckets
  <2>3. conn \in [Clients -> {"none", "idle", "busy", "stuck", "socket"}]
    BY DEF Init, Nobody
  <2>4. /\ clock \in Nat /\ starts \in Nat
        /\ life = "starting" /\ exitCode = "none" /\ shuttingDown \in BOOLEAN
        /\ held \subseteq Stores /\ cut \subseteq Clients
    BY DEF Init
  <2> QED BY <2>1, <2>2, <2>3, <2>4 DEF TypeOK
<1>2. TypeOK /\ [Next]_vars => TypeOK'
  <2> SUFFICES ASSUME TypeOK, [Next]_vars PROVE TypeOK'
    OBVIOUS
  <2>1. ASSUME NEW c \in Clients, NEW as \in {"idle", "socket"}, Connect(c, as) PROVE TypeOK'
    BY <2>1 DEF Connect, TypeOK, limiter
  <2>2. ASSUME NEW c \in Clients, Write(c) PROVE TypeOK'
    <3>1. AddressOf[c] \in Addresses
      BY AddressAssumption
    <3>2. /\ buckets' \in [Addresses -> SUBSET Nat]
          /\ arrivals' \in [Addresses -> Log]
      BY <2>2, <3>1, CountType DEF Write
    <3> QED BY <2>2, <3>2 DEF Write, TypeOK, Log, Arrival
  <2>3. ASSUME NEW c \in Clients, Read(c) \/ Answer(c) \/ Reject(c) \/ Leave(c) PROVE TypeOK'
    BY <2>3 DEF Read, Answer, Reject, Leave, TypeOK, limiter
  <2>4. CASE Listening \/ Shutdown \/ Closed
    BY <2>4 DEF Listening, Shutdown, Close, Closed, TypeOK, limiter
  <2>5. CASE QuitRedis \/ QuitSubscriber \/ EndPool
    BY <2>5 DEF QuitRedis, QuitSubscriber, EndPool, TypeOK, limiter
  <2>6. CASE Exit \/ ForceExit \/ Kill
    BY <2>6 DEF Exit, ForceExit, Kill, Ends, Nobody, TypeOK, limiter
  <2>7. CASE Restart
    BY <2>7, StoreAssumption DEF Restart, EmptyBuckets, NoArrivals, TypeOK
  <2>8. CASE Tick
    BY <2>8 DEF Tick, TypeOK, limiter
  <2>9. CASE UNCHANGED vars
    BY <2>9 DEF vars, limiter, TypeOK
  <2> QED BY <2>1, <2>2, <2>3, <2>4, <2>5, <2>6, <2>7, <2>8, <2>9 DEF Next, Traffic, Process
<1> QED BY <1>1, <1>2, PTL DEF Spec

-----------------------------------------------------------------------------
(* The limiter.                                                            *)

\* The arrivals the reference definition counts for the n-th.
Recent(a, n) == {m \in 1..n : arrivals[a][n].at - arrivals[a][m].at < Window}

\* What a bucket lacks has left the window for good, since the clock does not
\* step back.
BucketInv ==
    \A a \in Addresses :
        /\ \A n \in 1..Len(arrivals[a]) :
               /\ arrivals[a][n].at <= clock
               /\ clock - arrivals[a][n].at < Window => n \in buckets[a]
        /\ buckets[a] \subseteq 1..Len(arrivals[a])

LimiterInv == TypeOK /\ BucketInv /\ DecisionsAreExact

\* The list the middleware counts is what the reference definition counts.
LEMMA FreshIsRecent ==
    ASSUME LimiterInv, NEW c \in Clients, Write(c), NEW a \in Addresses, a = AddressOf[c]
    PROVE  LET n == Len(arrivals[a]) + 1 IN
           /\ Len(arrivals'[a]) = n
           /\ \A m \in 1..Len(arrivals[a]) : arrivals'[a][m] = arrivals[a][m]
           /\ arrivals'[a][n] = [at |-> clock, ok |-> Verdict(a)]
           /\ Fresh(a) = {m \in 1..n : arrivals'[a][n].at - arrivals'[a][m].at < Window}
<1> DEFINE n == Len(arrivals[a]) + 1
           e == [at |-> clock, ok |-> Verdict(a)]
<1>1. arrivals[a] \in Log /\ Len(arrivals[a]) \in Nat
  BY DEF LimiterInv, TypeOK, Log, Arrival
<1>2. arrivals'[a] = Append(arrivals[a], e)
  BY DEF LimiterInv, TypeOK, Write, Count
<1>3. Len(arrivals'[a]) = n
  BY <1>1, <1>2 DEF Log
<1>4. \A m \in 1..Len(arrivals[a]) : arrivals'[a][m] = arrivals[a][m]
  BY <1>1, <1>2 DEF Log
<1>5. arrivals'[a][n] = e
  BY <1>1, <1>2 DEF Log
<1>6. \A m \in 1..Len(arrivals[a]) : arrivals[a][m].at \in Nat
  BY <1>1, ArrivalTimes
<1>7. \A m \in 1..Len(arrivals[a]) : m \in Fresh(a) <=> clock - arrivals[a][m].at < Window
  BY <1>1, <1>6 DEF LimiterInv, BucketInv, Fresh, InWindow
<1>8. n \in Fresh(a) /\ Fresh(a) \subseteq 1..n
  BY <1>1 DEF LimiterInv, BucketInv, Fresh
<1>9. clock - clock < Window
  BY LimitAssumption DEF LimiterInv, TypeOK
<1>10. ASSUME NEW m \in 1..n
       PROVE  m \in Fresh(a) <=> arrivals'[a][n].at - arrivals'[a][m].at < Window
  <2>1. CASE m = n
    BY <2>1, <1>5, <1>8, <1>9
  <2>2. CASE m # n
    <3>1. m \in 1..Len(arrivals[a])
      BY <2>2, <1>1
    <3> QED BY <3>1, <1>4, <1>5, <1>7
  <2> QED BY <2>1, <2>2
<1>11. Fresh(a) = {m \in 1..n : arrivals'[a][n].at - arrivals'[a][m].at < Window}
  BY <1>8, <1>10
<1> QED BY <1>3, <1>4, <1>5, <1>11

LEMMA WriteKeepsBuckets ==
    ASSUME LimiterInv, NEW c \in Clients, Write(c)
    PROVE  BucketInv' /\ DecisionsAreExact'
<1> DEFINE a == AddressOf[c]
           n == Len(arrivals[a]) + 1
<1>1. a \in Addresses
  BY AddressAssumption
<1> HIDE DEF a
<1>2. /\ Len(arrivals'[a]) = n
      /\ \A m \in 1..Len(arrivals[a]) : arrivals'[a][m] = arrivals[a][m]
      /\ arrivals'[a][n] = [at |-> clock, ok |-> Verdict(a)]
      /\ Fresh(a) = {m \in 1..n : arrivals'[a][n].at - arrivals'[a][m].at < Window}
  BY <1>1, FreshIsRecent DEF a
<1>3. Len(arrivals[a]) \in Nat
  BY <1>1 DEF LimiterInv, TypeOK
<1>4. buckets'[a] = Fresh(a)
  BY <1>1 DEF LimiterInv, TypeOK, Write, Count, Kept, a
<1>5. \A b \in Addresses \ {a} : buckets'[b] = buckets[b] /\ arrivals'[b] = arrivals[b]
  BY <1>1 DEF LimiterInv, TypeOK, Write, Count, a
<1>6. clock' = clock /\ clock \in Nat
  BY DEF LimiterInv, TypeOK, Write
<1>7. \A m \in 1..n : m \in 1..Len(arrivals[a]) \/ m = n
  BY <1>3
<1>8. BucketInv'
  <2> SUFFICES ASSUME NEW b \in Addresses
               PROVE  /\ \A m \in 1..Len(arrivals'[b]) :
                             /\ arrivals'[b][m].at <= clock'
                             /\ clock' - arrivals'[b][m].at < Window => m \in buckets'[b]
                      /\ buckets'[b] \subseteq 1..Len(arrivals'[b])
    BY DEF BucketInv
  <2>1. CASE b # a
    BY <2>1, <1>5, <1>6 DEF LimiterInv, BucketInv
  <2>2. CASE b = a
    <3>1. ASSUME NEW m \in 1..n PROVE arrivals'[a][m].at <= clock
      BY <1>1, <1>2, <1>6, <1>7 DEF LimiterInv, BucketInv
    <3>2. arrivals'[a][n].at = clock
      BY <1>2
    <3> QED BY <2>2, <3>1, <3>2, <1>2, <1>4, <1>6
  <2> QED BY <2>1, <2>2
<1>9. DecisionsAreExact'
  <2> SUFFICES ASSUME NEW b \in Addresses, NEW k \in 1..Len(arrivals'[b])
               PROVE  arrivals'[b][k].ok <=>
                        Cardinality({m \in 1..k : arrivals'[b][k].at - arrivals'[b][m].at < Window})
                            <= MaxWrites
    BY DEF DecisionsAreExact
  <2>1. CASE b # a
    BY <2>1, <1>5 DEF LimiterInv, DecisionsAreExact
  <2>2. CASE b = a /\ k = n
    <3>1. arrivals'[b][k].ok = Verdict(a)
      BY <2>2, <1>2
    <3> QED BY <2>2, <3>1, <1>2 DEF Verdict, Admits
  <2>3. CASE b = a /\ k # n
    <3>1. k \in 1..Len(arrivals[a])
      BY <2>3, <1>2, <1>7
    <3>2. \A m \in 1..k : m \in 1..Len(arrivals[a])
      BY <3>1, <1>3
    <3>3. {m \in 1..k : arrivals'[a][k].at - arrivals'[a][m].at < Window}
            = {m \in 1..k : arrivals[a][k].at - arrivals[a][m].at < Window}
      BY <3>1, <3>2, <1>2
    <3>4. arrivals'[a][k].ok = arrivals[a][k].ok
      BY <3>1, <1>2
    <3> QED BY <2>3, <3>1, <3>3, <3>4, <1>1 DEF LimiterInv, DecisionsAreExact
  <2> QED BY <2>1, <2>2, <2>3
<1> QED BY <1>8, <1>9

LEMMA LimiterInvariant == Spec => []LimiterInv
<1>1. Init => BucketInv /\ DecisionsAreExact
  BY DEF Init, NoArrivals, EmptyBuckets, BucketInv, DecisionsAreExact
<1>2. LimiterInv /\ [Next]_vars => BucketInv' /\ DecisionsAreExact'
  <2> SUFFICES ASSUME LimiterInv, [Next]_vars PROVE BucketInv' /\ DecisionsAreExact'
    OBVIOUS
  <2>1. ASSUME NEW c \in Clients, Write(c) PROVE BucketInv' /\ DecisionsAreExact'
    BY <2>1, WriteKeepsBuckets
  <2>2. ASSUME UNCHANGED <<limiter, clock>> PROVE BucketInv' /\ DecisionsAreExact'
    BY <2>2 DEF limiter, LimiterInv, BucketInv, DecisionsAreExact
  <2>3. CASE Restart
    BY <2>3 DEF Restart, NoArrivals, EmptyBuckets, BucketInv, DecisionsAreExact
  <2>4. CASE Tick
    <3>1. DecisionsAreExact'
      BY <2>4 DEF Tick, limiter, LimiterInv, DecisionsAreExact
    <3>2. ASSUME NEW a \in Addresses, NEW m \in 1..Len(arrivals[a])
          PROVE  /\ arrivals[a][m].at <= clock'
                 /\ clock' - arrivals[a][m].at < Window => m \in buckets[a]
      <4>1. arrivals[a][m].at \in Nat /\ clock \in Nat /\ Window \in Nat
        BY LimitAssumption, ArrivalTimes DEF LimiterInv, TypeOK, Log, Arrival
      <4>2. arrivals[a][m].at <= clock /\ (clock - arrivals[a][m].at < Window => m \in buckets[a])
        BY DEF LimiterInv, BucketInv
      <4> QED BY <4>1, <4>2, <2>4 DEF Tick
    <3>3. BucketInv'
      BY <3>2, <2>4 DEF Tick, limiter, LimiterInv, BucketInv
    <3> QED BY <3>1, <3>3
  <2>5. ASSUME NEW c \in Clients, NEW as \in {"idle", "socket"}, Connect(c, as)
        PROVE  UNCHANGED <<limiter, clock>>
    BY <2>5 DEF Connect
  <2>6. ASSUME NEW c \in Clients, Read(c) \/ Answer(c) \/ Reject(c) \/ Leave(c)
        PROVE  UNCHANGED <<limiter, clock>>
    BY <2>6 DEF Read, Answer, Reject, Leave
  <2>7. ASSUME \/ Listening \/ Shutdown \/ Closed \/ QuitRedis \/ QuitSubscriber \/ EndPool
               \/ Exit \/ ForceExit \/ Kill
        PROVE  UNCHANGED <<limiter, clock>>
    BY <2>7 DEF Listening, Shutdown, Closed, QuitRedis, QuitSubscriber, EndPool,
                Exit, ForceExit, Kill, Ends
  <2>8. CASE UNCHANGED vars
    BY <2>8, <2>2 DEF vars
  <2> QED BY <2>1, <2>2, <2>3, <2>4, <2>5, <2>6, <2>7, <2>8 DEF Next, Traffic, Process
<1> QED BY <1>1, <1>2, TypeCorrect, PTL DEF Spec, LimiterInv

\* The limiter decides as if it remembered every write of the process's life,
\* whatever it has pruned.
THEOREM DecisionsExact == Spec => []DecisionsAreExact
BY LimiterInvariant, PTL DEF LimiterInv

\* No window of Window that ends with an admitted write holds more than
\* MaxWrites admitted ones from its address: what ANTISPAM_MAX_WRITES promises.
NoBurst ==
    \A a \in Addresses : \A n \in 1..Len(arrivals[a]) :
        arrivals[a][n].ok =>
            Cardinality({m \in Recent(a, n) : arrivals[a][m].ok}) <= MaxWrites

\* The promise follows from exact decisions: the admitted are among the counted.
THEOREM WindowBounded == Spec => []NoBurst
<1>1. DecisionsAreExact /\ TypeOK => NoBurst
  <2> SUFFICES ASSUME DecisionsAreExact, TypeOK, NEW a \in Addresses,
                      NEW n \in 1..Len(arrivals[a]), arrivals[a][n].ok
               PROVE  Cardinality({m \in Recent(a, n) : arrivals[a][m].ok}) <= MaxWrites
    BY DEF NoBurst
  <2> DEFINE admitted == {m \in Recent(a, n) : arrivals[a][m].ok}
  <2>1. n \in Nat /\ Len(arrivals[a]) \in Nat
    BY DEF TypeOK
  <2>2. IsFiniteSet(1..n)
    BY <2>1, FS_Interval
  <2>3. IsFiniteSet(Recent(a, n))
    BY <2>2, FS_Subset DEF Recent
  <2>4. /\ IsFiniteSet(admitted)
        /\ Cardinality(admitted) <= Cardinality(Recent(a, n))
    BY <2>3, FS_Subset
  <2>5. Cardinality(Recent(a, n)) <= MaxWrites
    BY DEF DecisionsAreExact, Recent
  <2>6. Cardinality(admitted) \in Nat /\ Cardinality(Recent(a, n)) \in Nat
    BY <2>3, <2>4, FS_CardinalityType
  <2> QED BY <2>4, <2>5, <2>6, LimitAssumption
<1> QED BY <1>1, DecisionsExact, TypeCorrect, PTL

-----------------------------------------------------------------------------
(* The end of the process.                                                 *)

\* The clean-up only runs without connections, and in its order.
DrainInv ==
    /\ life \in {"down", "starting", "redis", "subscriber", "pool"} => conn = Nobody
    /\ life \in {"closing", "redis", "subscriber", "pool"} => shuttingDown
    /\ life \in {"subscriber", "pool"} => "redis" \notin held
    /\ life = "pool" => "subscriber" \notin held
    /\ exitCode # "none" => life = "down"

EndInv == TypeOK /\ DrainInv /\ CleanExit

\* Exit code 0 means that nobody was cut off and Redis was let go.
THEOREM ExitsClean == Spec => []CleanExit
<1>1. Init => DrainInv /\ CleanExit
  BY DEF Init, DrainInv, CleanExit
<1>2. EndInv /\ [Next]_vars => DrainInv' /\ CleanExit'
  <2> SUFFICES ASSUME EndInv, [Next]_vars PROVE DrainInv' /\ CleanExit'
    OBVIOUS
  <2> USE DEF EndInv, DrainInv, CleanExit, TypeOK
  <2>1. ASSUME NEW c \in Clients, NEW as \in {"idle", "socket"}, Connect(c, as)
        PROVE  DrainInv' /\ CleanExit'
    BY <2>1 DEF Connect
  <2>2. ASSUME NEW c \in Clients, Write(c) \/ Read(c) \/ Answer(c) \/ Reject(c) \/ Leave(c)
        PROVE  DrainInv' /\ CleanExit'
    <3>1. conn # Nobody
      BY <2>2 DEF Nobody, Write, Read, Answer, Reject, Leave
    <3> QED BY <2>2, <3>1 DEF Write, Read, Answer, Reject, Leave, Alive
  <2>3. CASE Listening
    BY <2>3 DEF Listening
  <2>4. CASE Shutdown
    BY <2>4 DEF Shutdown, MayShutDown, Close, Alive
  <2>5. CASE Closed
    <3>1. conn = Nobody
      BY <2>5 DEF Closed, Drained, Nobody
    <3> QED BY <2>5, <3>1 DEF Closed
  <2>6. CASE QuitRedis \/ QuitSubscriber \/ EndPool
    BY <2>6 DEF QuitRedis, QuitSubscriber, EndPool
  <2>7. CASE Exit
    <3>1. cut' = {}
      BY <2>7 DEF Exit, Ends, Nobody
    <3>2. held \subseteq {"pool"}
      BY <2>7, StoreAssumption DEF Exit
    <3> QED BY <2>7, <3>1, <3>2 DEF Exit, Ends, Nobody
  <2>8. CASE ForceExit \/ Kill
    BY <2>8 DEF ForceExit, Kill, Ends, Nobody, Alive
  <2>9. CASE Restart
    BY <2>9 DEF Restart
  <2>10. CASE Tick
    BY <2>10 DEF Tick
  <2>11. CASE UNCHANGED vars
    BY <2>11 DEF vars
  <2> QED BY <2>1, <2>2, <2>3, <2>4, <2>5, <2>6, <2>7, <2>8, <2>9, <2>10, <2>11
          DEF Next, Traffic, Process
<1> QED BY <1>1, <1>2, TypeCorrect, PTL DEF Spec, EndInv

-----------------------------------------------------------------------------
(* II. The updates of a bot.                                               *)

(* Induction over a finite set, with the sets that are good given as a set. *)

LEMMA FiniteInduction ==
    ASSUME NEW S, IsFiniteSet(S), NEW Good \in SUBSET SUBSET S, {} \in Good,
           \A T \in Good : \A x \in S \ T : T \cup {x} \in Good
    PROVE  S \in Good
<1> DEFINE Bad == (SUBSET S) \ Good
           R == StrictSubsetOrdering(S)
<1>1. SUFFICES ASSUME Bad # {} PROVE FALSE
  OBVIOUS
<1>2. IsWellFoundedOn(R, SUBSET S)
  BY FS_StrictSubsetOrderingWellFounded, FS_FiniteSubsetsOfFinite
<1>3. Bad \subseteq SUBSET S
  OBVIOUS
<1>4. PICK T \in Bad : \A U \in Bad : ~(<<U, T>> \in R)
  <2> HIDE DEF Bad, R
  <2> QED BY <1>1, <1>2, <1>3, WFMin
<1>5. PICK x \in T : TRUE
  OBVIOUS
<1>6. T \ {x} \in Good
  <2>1. <<T \ {x}, T>> \in R
    BY <1>4 DEF StrictSubsetOrdering
  <2> QED BY <1>4, <2>1
<1>7. (T \ {x}) \cup {x} \in Good
  BY <1>4, <1>6
<1>8. (T \ {x}) \cup {x} = T
  OBVIOUS
<1> QED BY <1>4, <1>7, <1>8

\* A finite set of numbers that is not empty has a largest.
LEMMA LargestExists ==
    ASSUME NEW S \in SUBSET Int, IsFiniteSet(S), S # {}
    PROVE  \E m \in S : \A k \in S : k <= m
<1> DEFINE Good == {T \in SUBSET S : T # {} => \E m \in T : \A k \in T : k <= m}
<1>1. {} \in Good
  OBVIOUS
<1>2. ASSUME NEW T \in Good, NEW x \in S \ T PROVE T \cup {x} \in Good
  <2>1. CASE T = {}
    <3>1. x \in Int /\ \A k \in T \cup {x} : k <= x
      BY <2>1
    <3> QED BY <3>1
  <2>2. CASE T # {}
    <3>1. PICK m \in T : \A k \in T : k <= m
      BY <2>2
    <3>2. m \in Int /\ x \in Int
      OBVIOUS
    <3>3. CASE x <= m
      BY <3>1, <3>3
    <3>4. CASE ~(x <= m)
      <4>1. \A k \in T \cup {x} : k <= x
        BY <3>1, <3>2, <3>4
      <4> QED BY <4>1
    <3> QED BY <3>3, <3>4
  <2> QED BY <2>1, <2>2
<1>3. S \in Good
  <2> HIDE DEF Good
  <2>1. Good \in SUBSET SUBSET S
    BY DEF Good
  <2> QED BY <1>1, <1>2, <2>1, FiniteInduction
<1> QED BY <1>3

-----------------------------------------------------------------------------
(* The rows, requests and jobs of a bot.                                   *)

\* Handlers that have read the bot and have yet to insert their row.
Reading == {c \in Callers : request[c].at = "read"}

\* Every such handler will find room for its row: a bound of the model only.
RoomLeft == nextId + Cardinality(Reading) <= MaxUpdates + 1

\* What names an update names one that has been inserted.
IdsInOrder ==
    /\ \A i \in stored : i < nextId
    /\ offset < nextId
    /\ \A i \in Ids : i >= nextId => job[i] = NoJob /\ copies[i] = 0
    /\ \A c \in Callers : request[c].at \in {"calling", "queueing"} => request[c].id < nextId

\* A job that has not failed for good has attempts left.
AttemptsLeft ==
    \A i \in Ids : /\ job[i].at # "failed" => job[i].failures < MaxAttempts
                   /\ job[i].at \in {"none", "adding"} => job[i].failures = 0

LEMMA RequestShape ==
    ASSUME BotTypeOK, NEW c \in Callers
    PROVE  /\ request[c] \in Requests
           /\ request[c].at \in {"idle", "read", "calling", "queueing", "unanswered"}
           /\ request[c].at = "read" => /\ request[c].kind \in {"incoming", "callback"}
                                        /\ request[c].hook \in Hooks \cup {NoHook}
           /\ request[c].at = "calling" => request[c].id \in Ids /\ request[c].hook \in Hooks
           /\ request[c].at = "queueing" => request[c].id \in Ids
<1>1. request[c] \in Requests
  BY DEF BotTypeOK
<1> QED BY <1>1 DEF Requests, NoRequest, Unanswered

LEMMA JobShape ==
    ASSUME BotTypeOK, NEW i \in Ids
    PROVE  /\ job[i].at \in {"none", "adding", "waiting", "active", "accepted", "done", "failed"}
           /\ job[i].failures \in 0..MaxAttempts
           /\ copies[i] \in Nat
           /\ i \in Nat \ {0}
BY DEF BotTypeOK, Jobs, Ids

LEMMA BoundsAreNumbers ==
    /\ MaxUpdates \in Nat /\ MaxRebinds \in Nat /\ MaxCrashes \in Nat
    /\ MaxAttempts \in Nat \ {0} /\ PageSize \in Nat \ {0}
BY QueueAssumption, BotBoundAssumption

LEMMA ReadingIsFinite ==
    IsFiniteSet(Reading) /\ Cardinality(Reading) \in Nat
<1>1. Reading \in SUBSET Callers
  BY DEF Reading
<1> QED BY <1>1, CallerAssumption, FS_Subset, FS_CardinalityType

\* What the INSERT of an update does, at the id it is given.
LEMMA Enqueued ==
    ASSUME BotTypeOK, nextId \in Ids, Enqueue
    PROVE  /\ stored' = stored \cup {nextId} /\ nextId' = nextId + 1
           /\ stored' \subseteq Ids /\ nextId' \in 1..MaxUpdates + 1
           /\ job' \in [Ids -> Jobs]
           /\ \A i \in Ids : i # nextId => job'[i] = job[i]
           /\ job'[nextId] = [at |-> "adding", failures |-> 0]
<1>1. [at |-> "adding", failures |-> 0] \in Jobs
  BY BoundsAreNumbers DEF Jobs
<1> QED BY <1>1, BoundsAreNumbers DEF BotTypeOK, Enqueue, Ids

\* A handler that inserts its row leaves the others as they are.
LEMMA InsertCases ==
    ASSUME BotTypeOK, NEW c \in Callers, Insert(c), nextId \in Ids
    PROVE  \E q \in Requests :
              /\ request' = [request EXCEPT ![c] = q]
              /\ q.at \in {"idle", "calling", "queueing", "unanswered"}
              /\ \/ /\ bot = "live" /\ Enqueue
                    /\ q.at \in {"calling", "queueing"} => q.id = nextId
                 \/ /\ bot = "gone" /\ q = Unanswered
                    /\ UNCHANGED <<stored, nextId, job>>
<1>1. /\ request[c].at = "read" /\ request[c].kind \in {"incoming", "callback"}
      /\ request[c].hook \in Hooks \cup {NoHook}
  BY RequestShape DEF Insert
<1>2. bot \in {"live", "gone"}
  BY DEF BotTypeOK
<1>3. CASE bot = "gone"
  BY <1>3 DEF Insert, ForeignKeyAllows, Requests, Unanswered
<1>4. CASE bot = "live"
  <2> DEFINE q == CASE request[c].kind = "callback" -> [at |-> "queueing", id |-> nextId]
                    [] request[c].kind = "incoming" /\ request[c].hook = NoHook -> NoRequest
                    [] OTHER -> [at |-> "calling", id |-> nextId, hook |-> request[c].hook]
  <2>1. request' = [request EXCEPT ![c] = q] /\ Enqueue
    BY <1>4 DEF Insert, ForeignKeyAllows
  <2>2. q \in Requests /\ q.at \in {"idle", "calling", "queueing"}
        /\ (q.at \in {"calling", "queueing"} => q.id = nextId)
    <3>1. CASE request[c].kind = "callback"
      BY <1>1, <3>1 DEF Requests
    <3>2. CASE request[c].kind = "incoming" /\ request[c].hook = NoHook
      <4>1. q = NoRequest
        BY <3>2
      <4> QED BY <4>1 DEF Requests, NoRequest
    <3>3. CASE request[c].kind = "incoming" /\ request[c].hook # NoHook
      <4>1. q = [at |-> "calling", id |-> nextId, hook |-> request[c].hook]
        BY <3>3
      <4> QED BY <1>1, <3>3, <4>1 DEF Requests
    <3> QED BY <1>1, <3>1, <3>2, <3>3
  <2> HIDE DEF q
  <2> QED BY <1>4, <2>1, <2>2
<1> QED BY <1>2, <1>3, <1>4

\* There is room for the next row wherever one is inserted.
LEMMA RoomForRow ==
    ASSUME BotTypeOK, RoomLeft
    PROVE  /\ \A c \in Callers : Insert(c) => nextId \in Ids
           /\ Room => nextId \in Ids
<1>1. /\ IsFiniteSet(Reading) /\ Cardinality(Reading) \in Nat
      /\ nextId \in Nat \ {0} /\ MaxUpdates \in Nat
  BY ReadingIsFinite, BoundsAreNumbers DEF BotTypeOK
<1>2. ASSUME NEW c \in Callers, Insert(c) PROVE nextId \in Ids
  <2>1. c \in Reading
    BY <1>2 DEF Insert, Reading
  <2>2. Cardinality(Reading) # 0
    BY <1>1, <2>1, FS_EmptySet
  <2> QED BY <1>1, <2>2 DEF RoomLeft, Ids
<1>3. Room => nextId \in Ids
  <2> SUFFICES ASSUME Room PROVE nextId \in Ids
    OBVIOUS
  <2>1. nextId + Cardinality(Reading) <= MaxUpdates
    BY DEF Room, Reading
  <2> QED BY <1>1, <2>1 DEF Ids
<1> QED BY <1>2, <1>3

\* A page is a set of stored updates, the last of which is the new offset.
LEMMA PageShape ==
    ASSUME BotTypeOK, GetUpdates
    PROVE  /\ Page \subseteq stored
           /\ offset' \in Page
           /\ \A j \in Page : j <= offset'
<1>1. Page \subseteq stored /\ Page # {} /\ Page \subseteq Ids
  BY DEF GetUpdates, Page, BotTypeOK
<1>2. IsFiniteSet(Page) /\ Page \in SUBSET Int
  <2>1. IsFiniteSet(Ids)
    BY FS_Interval, BoundsAreNumbers DEF Ids
  <2>2. Page \in SUBSET Int
    BY <1>1 DEF Ids
  <2> QED BY <1>1, <2>1, <2>2, FS_Subset
<1>3. \E i \in Page : \A j \in Page : j <= i
  BY <1>1, <1>2, LargestExists
<1> QED BY <1>1, <1>3 DEF GetUpdates

\* An attempt that fails is counted, and there was one left.
LEMMA RefusedJob ==
    ASSUME BotTypeOK, AttemptsLeft, NEW i \in Ids, HookRefuses(i)
    PROVE  /\ job[i].failures + 1 \in 0..MaxAttempts
           /\ \E j \in Jobs : /\ job' = [job EXCEPT ![i] = j]
                              /\ j.failures = job[i].failures + 1
                              /\ j.at \in {"waiting", "failed"}
                              /\ j.at # "failed" => j.failures < MaxAttempts
           /\ \E got \in {0, 1} : copies' = [copies EXCEPT ![i] = @ + got]
<1>1. /\ job[i].failures \in Nat /\ MaxAttempts \in Nat
      /\ job[i].failures < MaxAttempts
  BY JobShape, BoundsAreNumbers DEF HookRefuses, AttemptsLeft
<1> DEFINE k == job[i].failures + 1
           j == [at |-> IF Exhausted(k) THEN "failed" ELSE "waiting", failures |-> k]
<1>2. k \in 0..MaxAttempts
  BY <1>1
<1>3. j \in Jobs /\ j.failures = k /\ j.at \in {"waiting", "failed"}
      /\ (j.at # "failed" => k < MaxAttempts)
  BY <1>1, <1>2 DEF Jobs, Exhausted
<1>4. job' = [job EXCEPT ![i] = j]
  BY DEF HookRefuses
<1> HIDE DEF j
<1> QED BY <1>2, <1>3, <1>4 DEF HookRefuses

\* Every variable keeps its type.
LEMMA BotTypeStep ==
    ASSUME BotTypeOK, RoomLeft, AttemptsLeft, [BotNext]_botVars
    PROVE  BotTypeOK'
<1> USE DEF table, poller
<1>1. ASSUME NEW c \in Callers, NEW kind \in {"incoming", "callback"}, Ask(c, kind)
      PROVE  BotTypeOK'
  <2>1. [at |-> "read", kind |-> kind, hook |-> hook] \in Requests
    BY DEF BotTypeOK, Requests
  <2> QED BY <1>1, <2>1 DEF Ask, BotTypeOK
<1>2. ASSUME NEW c \in Callers, Insert(c) PROVE BotTypeOK'
  <2>1. nextId \in Ids
    BY <1>2, RoomForRow
  <2>2. PICK q \in Requests :
              /\ request' = [request EXCEPT ![c] = q]
              /\ \/ /\ bot = "live" /\ Enqueue
                 \/ UNCHANGED <<stored, nextId, job>>
    BY <1>2, <2>1, InsertCases
  <2>3. /\ stored \subseteq stored' /\ stored' \subseteq Ids /\ nextId' \in 1..MaxUpdates + 1
        /\ job' \in [Ids -> Jobs]
    <3>1. CASE Enqueue
      BY <2>1, <3>1, Enqueued
    <3>2. CASE UNCHANGED <<stored, nextId, job>>
      BY <3>2 DEF BotTypeOK
    <3> QED BY <2>2, <3>1, <3>2
  <2> QED BY <1>2, <2>2, <2>3 DEF Insert, BotTypeOK
<1>3. ASSUME NEW c \in Callers, CallReturns(c) PROVE BotTypeOK'
  <2>1. request[c].id \in Ids
    BY <1>3, RequestShape DEF CallReturns
  <2>2. copies' \in [Ids -> Nat]
    BY <1>3, <2>1 DEF CallReturns, BotTypeOK
  <2>3. NoRequest \in Requests
    BY DEF Requests
  <2> QED BY <1>3, <2>2, <2>3 DEF CallReturns, AfterCall, BotTypeOK
<1>4. ASSUME NEW c \in Callers, GiveUp(c) PROVE BotTypeOK'
  BY <1>4 DEF GiveUp, Requests, BotTypeOK
<1>5. CASE SendMessage
  <2>1. nextId \in Ids
    BY <1>5, RoomForRow DEF SendMessage
  <2>2. /\ stored \subseteq stored' /\ stored' \subseteq Ids /\ nextId' \in 1..MaxUpdates + 1
        /\ job' \in [Ids -> Jobs]
    BY <1>5, <2>1, Enqueued DEF SendMessage
  <2> QED BY <1>5, <2>2 DEF SendMessage, BotTypeOK
<1>6. CASE GetUpdates
  BY <1>6, PageShape DEF GetUpdates, BotTypeOK
<1>7. ASSUME NEW h \in Hooks \cup {NoHook}, SetWebhook(h) PROVE BotTypeOK'
  BY <1>7, BoundsAreNumbers DEF SetWebhook, BotTypeOK
<1>8. CASE DeleteUpdates \/ DeleteCommands \/ DeleteBot
  BY <1>8 DEF DeleteUpdates, DeleteCommands, DeleteBot, Cascaded, BotTypeOK
<1>9. ASSUME NEW i \in Ids, AddSettles(i) PROVE BotTypeOK'
  <2>1. PICK result \in {"waiting", "disabled", "refused"} :
           /\ job' = [job EXCEPT ![i].at = IF result = "waiting" THEN "waiting" ELSE "none"]
           /\ request' = [c \in Callers |->
                  IF request[c] # [at |-> "queueing", id |-> i] THEN request[c]
                  ELSE IF result = "refused" THEN Unanswered ELSE NoRequest]
    BY <1>9 DEF AddSettles
  <2>2. job' \in [Ids -> Jobs]
    BY <2>1 DEF BotTypeOK, Jobs
  <2>3. request' \in [Callers -> Requests]
    BY <2>1 DEF BotTypeOK, Requests
  <2> QED BY <1>9, <2>2, <2>3 DEF AddSettles, BotTypeOK
<1>10. ASSUME NEW i \in Ids, StartJob(i) PROVE BotTypeOK'
  <2>1. job' \in [Ids -> Jobs]
    BY <1>10 DEF StartJob, BotTypeOK, Jobs
  <2> QED BY <1>10, <2>1 DEF StartJob, BotTypeOK
<1>11. ASSUME NEW i \in Ids, HookAccepts(i) PROVE BotTypeOK'
  <2>1. job' \in [Ids -> Jobs] /\ copies' \in [Ids -> Nat]
    BY <1>11 DEF HookAccepts, BotTypeOK, Jobs
  <2> QED BY <1>11, <2>1 DEF HookAccepts, BotTypeOK
<1>12. ASSUME NEW i \in Ids, HookRefuses(i) PROVE BotTypeOK'
  <2>1. job' \in [Ids -> Jobs] /\ copies' \in [Ids -> Nat]
    BY <1>12, RefusedJob DEF BotTypeOK
  <2> QED BY <1>12, <2>1 DEF HookRefuses, BotTypeOK
<1>13. ASSUME NEW i \in Ids, MarkDelivered(i) PROVE BotTypeOK'
  <2>1. job' \in [Ids -> Jobs]
    BY <1>13 DEF MarkDelivered, BotTypeOK, Jobs
  <2> QED BY <1>13, <2>1 DEF MarkDelivered, Marked, BotTypeOK
<1>14. CASE ApiCrash
  <2>1. request' \in [Callers -> Requests] /\ job' \in [Ids -> Jobs]
    <3>1. NoRequest \in Requests /\ NoJob \in Jobs
      BY BoundsAreNumbers DEF Requests, NoJob, Jobs
    <3> QED BY <1>14, <3>1 DEF ApiCrash, BotTypeOK
  <2> QED BY <1>14, <2>1, BoundsAreNumbers DEF ApiCrash, BotTypeOK
<1>15. CASE WorkerCrash
  <2>1. job' \in [Ids -> Jobs]
    BY <1>15 DEF WorkerCrash, BotTypeOK, Jobs
  <2> QED BY <1>15, <2>1, BoundsAreNumbers DEF WorkerCrash, BotTypeOK
<1>16. CASE UNCHANGED botVars
  BY <1>16 DEF botVars, BotTypeOK
<1> QED
  BY <1>1, <1>2, <1>3, <1>4, <1>5, <1>6, <1>7, <1>8, <1>9, <1>10, <1>11, <1>12, <1>13, <1>14,
     <1>15, <1>16 DEF BotNext, Api, Queue

\* Handlers about to insert leave this state one by one, each with its row.
LEMMA RoomStep ==
    ASSUME BotTypeOK, RoomLeft, [BotNext]_botVars
    PROVE  RoomLeft'
<1> USE DEF table, poller
<1>1. /\ IsFiniteSet(Reading) /\ Cardinality(Reading) \in Nat
      /\ nextId \in Nat \ {0} /\ MaxUpdates \in Nat
  BY ReadingIsFinite, BoundsAreNumbers DEF BotTypeOK
<1>2. ASSUME Reading' \subseteq Reading, nextId' = nextId PROVE RoomLeft'
  <2>1. Cardinality(Reading') \in Nat /\ Cardinality(Reading') <= Cardinality(Reading)
    BY <1>1, <1>2, FS_Subset, FS_CardinalityType
  <2> QED BY <1>1, <1>2, <2>1 DEF RoomLeft
<1>3. ASSUME NEW c \in Callers, NEW kind, Ask(c, kind) PROVE RoomLeft'
  <2>1. Reading' = Reading \cup {c}
    BY <1>3 DEF Ask, Reading, BotTypeOK
  <2>2. Cardinality(Reading') \in Nat /\ Cardinality(Reading') <= Cardinality(Reading) + 1
    BY <1>1, <2>1, FS_AddElement
  <2>3. nextId' = nextId /\ nextId + Cardinality(Reading) <= MaxUpdates
    BY <1>3 DEF Ask, Room, Reading
  <2> QED BY <1>1, <2>2, <2>3 DEF RoomLeft
<1>4. ASSUME NEW c \in Callers, Insert(c) PROVE RoomLeft'
  <2>1. nextId \in Ids
    BY <1>4, RoomForRow
  <2>2. PICK q \in Requests :
              /\ request' = [request EXCEPT ![c] = q]
              /\ q.at \in {"idle", "calling", "queueing", "unanswered"}
              /\ Enqueue \/ UNCHANGED <<stored, nextId, job>>
    BY <1>4, <2>1, InsertCases
  <2>3. Reading' = Reading \ {c} /\ c \in Reading
    BY <1>4, <2>2 DEF Insert, Reading, BotTypeOK
  <2>4. Cardinality(Reading') = Cardinality(Reading) - 1
    BY <1>1, <2>3, FS_RemoveElement
  <2>5. nextId' \in {nextId, nextId + 1}
    BY <2>2 DEF Enqueue
  <2> QED BY <1>1, <2>4, <2>5 DEF RoomLeft
<1>5. CASE SendMessage
  <2>1. Reading' = Reading /\ nextId' = nextId + 1
    BY <1>5 DEF SendMessage, Enqueue, Reading
  <2>2. nextId + Cardinality(Reading) <= MaxUpdates
    BY <1>5 DEF SendMessage, Room, Reading
  <2> QED BY <1>1, <2>1, <2>2 DEF RoomLeft
<1>6. ASSUME NEW c \in Callers, CallReturns(c) \/ GiveUp(c) PROVE RoomLeft'
  <2>1. Reading' \subseteq Reading /\ nextId' = nextId
    BY <1>6 DEF CallReturns, GiveUp, AfterCall, NoRequest, Reading, BotTypeOK
  <2> QED BY <1>2, <2>1
<1>7. ASSUME NEW i \in Ids, AddSettles(i) PROVE RoomLeft'
  <2>1. Reading' \subseteq Reading /\ nextId' = nextId
    BY <1>7 DEF AddSettles, Unanswered, NoRequest, Reading
  <2> QED BY <1>2, <2>1
<1>8. CASE ApiCrash
  <2>1. Reading' \subseteq Reading /\ nextId' = nextId
    BY <1>8 DEF ApiCrash, NoRequest, Reading
  <2> QED BY <1>2, <2>1
<1>9. ASSUME UNCHANGED <<request, nextId>> PROVE RoomLeft'
  BY <1>2, <1>9 DEF Reading
<1>10. ASSUME NEW h, GetUpdates \/ SetWebhook(h) \/ DeleteUpdates \/ DeleteCommands \/ DeleteBot
       PROVE  RoomLeft'
  BY <1>9, <1>10 DEF GetUpdates, SetWebhook, DeleteUpdates, DeleteCommands, DeleteBot
<1>11. ASSUME NEW i \in Ids, StartJob(i) \/ HookAccepts(i) \/ HookRefuses(i) \/ MarkDelivered(i)
       PROVE  RoomLeft'
  BY <1>9, <1>11 DEF StartJob, HookAccepts, HookRefuses, MarkDelivered
<1>12. CASE WorkerCrash \/ UNCHANGED botVars
  BY <1>9, <1>12 DEF WorkerCrash, botVars
<1> QED
  BY <1>3, <1>4, <1>5, <1>6, <1>7, <1>8, <1>10, <1>11, <1>12 DEF BotNext, Api, Queue

\* Every failure but the last leaves the job waiting for another attempt.
LEMMA AttemptsStep ==
    ASSUME BotTypeOK, RoomLeft, AttemptsLeft, [BotNext]_botVars
    PROVE  AttemptsLeft'
<1> USE DEF table, poller
<1> SUFFICES ASSUME NEW k \in Ids
             PROVE  /\ job'[k].at # "failed" => job'[k].failures < MaxAttempts
                    /\ job'[k].at \in {"none", "adding"} => job'[k].failures = 0
  BY DEF AttemptsLeft
<1> DEFINE Goal == /\ job'[k].at # "failed" => job'[k].failures < MaxAttempts
                   /\ job'[k].at \in {"none", "adding"} => job'[k].failures = 0
<1>1. CASE job'[k] = job[k]
  BY <1>1 DEF AttemptsLeft
<1>2. ASSUME nextId \in Ids, Enqueue PROVE Goal
  BY <1>1, <1>2, Enqueued, BoundsAreNumbers
<1>3. ASSUME NEW c \in Callers, Insert(c) PROVE Goal
  <2>1. nextId \in Ids
    BY <1>3, RoomForRow
  <2>2. Enqueue \/ job' = job
    BY <1>3, <2>1, InsertCases
  <2> QED BY <1>1, <1>2, <2>1, <2>2
<1>4. CASE SendMessage
  BY <1>2, <1>4, RoomForRow DEF SendMessage
<1>5. ASSUME NEW i \in Ids, AddSettles(i) PROVE Goal
  <2>1. job[i].failures = 0
    BY <1>5 DEF AddSettles, AttemptsLeft
  <2>2. CASE k = i
    <3>1. job'[k].failures = 0
      BY <1>5, <2>1, <2>2, JobShape DEF AddSettles, BotTypeOK, Jobs
    <3> QED BY <3>1, BoundsAreNumbers
  <2>3. CASE k # i
    BY <1>1, <1>5, <2>3 DEF AddSettles, BotTypeOK
  <2> QED BY <2>2, <2>3
<1>6. ASSUME NEW i \in Ids, NEW at \in {"active", "accepted", "done"}, job[i].at # "failed",
             job' = [job EXCEPT ![i].at = at]
      PROVE  Goal
  <2>1. CASE k = i
    BY <1>6, <2>1 DEF AttemptsLeft, BotTypeOK, Jobs
  <2>2. CASE k # i
    BY <1>1, <1>6, <2>2 DEF BotTypeOK
  <2> QED BY <2>1, <2>2
<1>7. ASSUME NEW i \in Ids, StartJob(i) \/ HookAccepts(i) \/ MarkDelivered(i) PROVE Goal
  BY <1>6, <1>7 DEF StartJob, HookAccepts, MarkDelivered
<1>8. ASSUME NEW i \in Ids, HookRefuses(i) PROVE Goal
  <2>1. PICK j \in Jobs : /\ job' = [job EXCEPT ![i] = j]
                          /\ j.at \in {"waiting", "failed"}
                          /\ j.at # "failed" => j.failures < MaxAttempts
    BY <1>8, RefusedJob
  <2>2. CASE k = i
    BY <2>1, <2>2 DEF BotTypeOK
  <2>3. CASE k # i
    BY <1>1, <2>1, <2>3 DEF BotTypeOK
  <2> QED BY <2>2, <2>3
<1>9. CASE ApiCrash
  <2>1. job'[k] \in {job[k], NoJob}
    BY <1>9 DEF ApiCrash
  <2> QED BY <1>1, <2>1, BoundsAreNumbers DEF NoJob
<1>10. CASE WorkerCrash
  <2>1. CASE k \in Running
    <3>1. job'[k] = [job[k] EXCEPT !.at = "waiting"] /\ job[k].at # "failed"
      BY <1>10, <2>1 DEF WorkerCrash, Running
    <3>2. job'[k].at = "waiting" /\ job'[k].failures = job[k].failures
      BY <3>1 DEF BotTypeOK, Jobs
    <3> QED BY <3>1, <3>2 DEF AttemptsLeft
  <2>2. CASE k \notin Running
    BY <1>1, <1>10, <2>2 DEF WorkerCrash
  <2> QED BY <2>1, <2>2
<1>11. ASSUME NEW c \in Callers, NEW h,
              \/ \E kind \in {"incoming", "callback"} : Ask(c, kind)
              \/ CallReturns(c) \/ GiveUp(c) \/ SetWebhook(h)
       PROVE  Goal
  BY <1>1, <1>11 DEF Ask, CallReturns, GiveUp, SetWebhook
<1>12. CASE GetUpdates \/ (\E h \in Hooks \cup {NoHook} : SetWebhook(h))
            \/ DeleteUpdates \/ DeleteCommands \/ DeleteBot \/ UNCHANGED botVars
  BY <1>1, <1>12 DEF GetUpdates, SetWebhook, DeleteUpdates, DeleteCommands, DeleteBot, botVars
<1> QED
  BY <1>3, <1>4, <1>5, <1>7, <1>8, <1>9, <1>10, <1>11, <1>12 DEF BotNext, Api, Queue

-----------------------------------------------------------------------------
(* What is known of an update: its number, its call, its job, its copies.   *)

\* The handlers of POST /incoming that wait for the webhook's answer to i.
Calling(i) == {c \in Callers : request[c].at = "calling" /\ request[c].id = i}

\* The app's request hands an update over once, ...
OneCaller == \A i \in Ids : \A c, d \in Calling(i) : c = d

\* ... and every copy is that one, of a failed attempt, of the attempt that
\* succeeds, or of one that a death of the worker has made be repeated.
CallToCome(i) == IF Calling(i) = {} THEN 1 ELSE 0
Succeeded(i) == IF job[i].at \in {"accepted", "done"} THEN 1 ELSE 0
CopiesCounted ==
    \A i \in Ids : copies[i] <= CallToCome(i) + job[i].failures + Succeeded(i) + crashes

\* A job is about to mark only what the webhook has received.
AcceptedWasReceived == \A i \in Ids : job[i].at = "accepted" => copies[i] > 0

BotInv ==
    /\ BotTypeOK /\ RoomLeft /\ AttemptsLeft
    /\ IdsInOrder /\ OneCaller /\ CopiesCounted /\ AcceptedWasReceived

\* What a step does with the requests, as far as update k is concerned.
LEMMA RequestEffect ==
    ASSUME BotTypeOK, RoomLeft, [BotNext]_botVars, NEW c \in Callers
    PROVE  \/ request'[c] = request[c]
           \/ request'[c].at \notin {"calling", "queueing"}
           \/ /\ request'[c].at \in {"calling", "queueing"}
              /\ request'[c].id = nextId /\ nextId' = nextId + 1
              /\ nextId \in Ids
              /\ \A d \in Callers \ {c} : request'[d] = request[d]
<1> USE DEF table, poller
<1> DEFINE Goal == \/ request'[c] = request[c]
                   \/ request'[c].at \notin {"calling", "queueing"}
                   \/ /\ request'[c].at \in {"calling", "queueing"}
                      /\ request'[c].id = nextId /\ nextId' = nextId + 1
                      /\ nextId \in Ids
                      /\ \A d \in Callers \ {c} : request'[d] = request[d]
<1>1. ASSUME NEW d \in Callers, NEW kind, Ask(d, kind) PROVE Goal
  <2>1. request' = [request EXCEPT ![d] = [at |-> "read", kind |-> kind, hook |-> hook]]
    BY <1>1 DEF Ask
  <2>2. CASE c = d
    BY <2>1, <2>2 DEF BotTypeOK
  <2>3. CASE c # d
    BY <2>1, <2>3 DEF BotTypeOK
  <2> QED BY <2>2, <2>3
<1>2. ASSUME NEW d \in Callers, Insert(d) PROVE Goal
  <2>1. nextId \in Ids
    BY <1>2, RoomForRow
  <2>2. PICK q \in Requests :
              /\ request' = [request EXCEPT ![d] = q]
              /\ \/ Enqueue /\ (q.at \in {"calling", "queueing"} => q.id = nextId)
                 \/ q = Unanswered
    BY <1>2, <2>1, InsertCases
  <2>3. CASE c = d
    BY <2>1, <2>2, <2>3 DEF BotTypeOK, Unanswered, Enqueue
  <2>4. CASE c # d
    BY <2>2, <2>4 DEF BotTypeOK
  <2> QED BY <2>3, <2>4
<1>3. ASSUME NEW d \in Callers, CallReturns(d) \/ GiveUp(d) PROVE Goal
  BY <1>3 DEF CallReturns, GiveUp, AfterCall, NoRequest, BotTypeOK
<1>4. ASSUME NEW i \in Ids, AddSettles(i) PROVE Goal
  BY <1>4 DEF AddSettles, Unanswered, NoRequest
<1>5. ASSUME ApiCrash PROVE Goal
  BY <1>5 DEF ApiCrash, NoRequest
<1>6. ASSUME request' = request PROVE Goal
  BY <1>6
<1>7. ASSUME \/ SendMessage \/ GetUpdates \/ (\E h \in Hooks \cup {NoHook} : SetWebhook(h))
             \/ DeleteUpdates \/ DeleteCommands \/ DeleteBot \/ WorkerCrash \/ UNCHANGED botVars
      PROVE  Goal
  BY <1>6, <1>7 DEF SendMessage, GetUpdates, SetWebhook, DeleteUpdates, DeleteCommands, DeleteBot,
                    WorkerCrash, botVars
<1>8. ASSUME NEW i \in Ids, StartJob(i) \/ HookAccepts(i) \/ HookRefuses(i) \/ MarkDelivered(i)
      PROVE  Goal
  BY <1>6, <1>8 DEF StartJob, HookAccepts, HookRefuses, MarkDelivered
<1> HIDE DEF Goal
<1>9. Goal
  BY <1>1, <1>2, <1>3, <1>4, <1>5, <1>7, <1>8 DEF BotNext, Api, Queue
<1> QED BY <1>9 DEF Goal


\* What a step may do with the job of update k, its copies and the deaths so far:
\* add the job of a new update, ...
Added(k) ==
    /\ k = nextId /\ nextId' = nextId + 1
    /\ job'[k] = [at |-> "adding", failures |-> 0]
    /\ UNCHANGED <<copies, crashes>>

\* ... nothing that ends an attempt, ...
Quiet(k) ==
    /\ job'[k].failures = job[k].failures
    /\ job'[k].at \in {"accepted", "done"} <=> job[k].at \in {"accepted", "done"}
    /\ job'[k].at = "accepted" => job[k].at = "accepted"
    /\ job[k] = NoJob => job'[k] = NoJob
    /\ copies'[k] = copies[k] /\ crashes' >= crashes

\* ... end an attempt that finds no bot, row or webhook, ...
Skipped(k) ==
    /\ job[k].at = "waiting" /\ job'[k].at = "done"
    /\ job'[k].failures = job[k].failures
    /\ UNCHANGED <<copies, crashes>>

\* ... hand a copy to the webhook, which accepts ...
Took(k) ==
    /\ job[k].at = "active" /\ job'[k].at = "accepted"
    /\ job'[k].failures = job[k].failures
    /\ copies'[k] = copies[k] + 1 /\ UNCHANGED crashes

\* ... or refuses it, received or not, ...
Refused(k) ==
    /\ job[k].at = "active" /\ job'[k].at \in {"waiting", "failed"}
    /\ job'[k].failures = job[k].failures + 1
    /\ copies'[k] \in {copies[k], copies[k] + 1} /\ UNCHANGED crashes

\* ... kill the worker that runs it, ...
Died(k) ==
    /\ job[k].at \in {"active", "accepted"} /\ job'[k].at = "waiting"
    /\ job'[k].failures = job[k].failures
    /\ copies'[k] = copies[k] /\ crashes' = crashes + 1

\* ... or end the app's own call.
CallEnds(k) ==
    /\ \E c \in Calling(k) : c \notin Calling(k)'
    /\ UNCHANGED <<job, crashes>>
    /\ copies'[k] \in {copies[k], copies[k] + 1}

JobStep(k) ==
    Added(k) \/ Quiet(k) \/ Skipped(k) \/ Took(k) \/ Refused(k) \/ Died(k) \/ CallEnds(k)

LEMMA JobEffect ==
    ASSUME BotTypeOK, RoomLeft, AttemptsLeft, [BotNext]_botVars, NEW k \in Ids
    PROVE  JobStep(k)
<1> USE DEF table, poller
<1>1. ASSUME job'[k] = job[k], UNCHANGED <<copies, crashes>> PROVE JobStep(k)
  BY <1>1, JobShape DEF JobStep, Quiet, BotTypeOK
<1>2. ASSUME nextId \in Ids, Enqueue, UNCHANGED <<copies, crashes>> PROVE JobStep(k)
  <2>1. CASE k = nextId
    BY <1>2, <2>1, Enqueued DEF JobStep, Added
  <2>2. CASE k # nextId
    BY <1>1, <1>2, <2>2, Enqueued
  <2> QED BY <2>1, <2>2
<1>3. ASSUME NEW c \in Callers, Insert(c) PROVE JobStep(k)
  <2>1. nextId \in Ids
    BY <1>3, RoomForRow
  <2>2. Enqueue \/ job' = job
    BY <1>3, <2>1, InsertCases
  <2>3. UNCHANGED <<copies, crashes>>
    BY <1>3 DEF Insert
  <2> QED BY <1>1, <1>2, <2>1, <2>2, <2>3
<1>4. CASE SendMessage
  BY <1>2, <1>4, RoomForRow DEF SendMessage
<1>5. ASSUME NEW c \in Callers, CallReturns(c) PROVE JobStep(k)
  <2>1. PICK got \in {0, 1} : copies' = [copies EXCEPT ![request[c].id] = @ + got]
    BY <1>5 DEF CallReturns
  <2>2. UNCHANGED <<job, crashes>>
    BY <1>5 DEF CallReturns
  <2>3. CASE request[c].id = k
    <3>1. c \in Calling(k) /\ c \notin Calling(k)'
      BY <1>5, <2>3 DEF CallReturns, AfterCall, NoRequest, Calling, BotTypeOK
    <3>2. copies'[k] \in {copies[k], copies[k] + 1}
      BY <2>1, <2>3, JobShape DEF BotTypeOK
    <3> QED BY <2>2, <3>1, <3>2 DEF JobStep, CallEnds
  <2>4. CASE request[c].id # k
    <3>1. copies'[k] = copies[k]
      BY <2>1, <2>4 DEF BotTypeOK
    <3> QED BY <2>2, <3>1, JobShape DEF JobStep, Quiet, BotTypeOK
  <2> QED BY <2>3, <2>4
<1>6. ASSUME NEW i \in Ids, i # k, NEW j, job' = [job EXCEPT ![i] = j],
             \/ UNCHANGED copies
             \/ \E got \in {0, 1} : copies' = [copies EXCEPT ![i] = @ + got],
             UNCHANGED crashes
      PROVE  JobStep(k)
  <2>1. job'[k] = job[k] /\ copies'[k] = copies[k]
    BY <1>6 DEF BotTypeOK
  <2> QED BY <1>6, <2>1, JobShape DEF JobStep, Quiet, BotTypeOK
<1>7. ASSUME NEW i \in Ids, AddSettles(i) PROVE JobStep(k)
  <2>1. PICK at \in {"waiting", "none"} : job' = [job EXCEPT ![i] = [job[i] EXCEPT !.at = at]]
    BY <1>7 DEF AddSettles
  <2>2. job[i].at = "adding" /\ UNCHANGED <<copies, crashes>>
    BY <1>7 DEF AddSettles
  <2>3. CASE i = k
    <3>1. job'[k].at = at /\ job'[k].failures = job[k].failures
      BY <2>1, <2>3 DEF BotTypeOK, Jobs
    <3> QED BY <2>2, <2>3, <3>1 DEF JobStep, Quiet, NoJob, BotTypeOK
  <2>4. CASE i # k
    BY <1>6, <2>1, <2>2, <2>4
  <2> QED BY <2>3, <2>4
<1>8. ASSUME NEW i \in Ids, StartJob(i) PROVE JobStep(k)
  <2>1. PICK at \in {"active", "done"} : job' = [job EXCEPT ![i] = [job[i] EXCEPT !.at = at]]
    BY <1>8 DEF StartJob
  <2>2. job[i].at = "waiting" /\ UNCHANGED <<copies, crashes>>
    BY <1>8 DEF StartJob
  <2>3. CASE i = k
    <3>1. job'[k].at = at /\ job'[k].failures = job[k].failures
      BY <2>1, <2>3 DEF BotTypeOK, Jobs
    <3> QED BY <2>2, <2>3, <3>1 DEF JobStep, Quiet, Skipped, NoJob, BotTypeOK
  <2>4. CASE i # k
    BY <1>6, <2>1, <2>2, <2>4
  <2> QED BY <2>3, <2>4
<1>9. ASSUME NEW i \in Ids, HookAccepts(i) PROVE JobStep(k)
  <2>1. job' = [job EXCEPT ![i] = [job[i] EXCEPT !.at = "accepted"]]
    BY <1>9 DEF HookAccepts
  <2>2. /\ job[i].at = "active" /\ UNCHANGED crashes
        /\ copies' = [copies EXCEPT ![i] = @ + 1]
    BY <1>9 DEF HookAccepts
  <2>3. CASE i = k
    <3>1. job'[k].at = "accepted" /\ job'[k].failures = job[k].failures
      BY <2>1, <2>3 DEF BotTypeOK, Jobs
    <3>2. copies'[k] = copies[k] + 1
      BY <2>2, <2>3 DEF BotTypeOK
    <3> QED BY <2>2, <2>3, <3>1, <3>2 DEF JobStep, Took
  <2>4. CASE i # k
    BY <1>6, <2>1, <2>2, <2>4
  <2> QED BY <2>3, <2>4
<1>10. ASSUME NEW i \in Ids, HookRefuses(i) PROVE JobStep(k)
  <2>1. PICK j \in Jobs : /\ job' = [job EXCEPT ![i] = j]
                          /\ j.failures = job[i].failures + 1
                          /\ j.at \in {"waiting", "failed"}
    BY <1>10, RefusedJob
  <2>2. PICK got \in {0, 1} : copies' = [copies EXCEPT ![i] = @ + got]
    BY <1>10, RefusedJob
  <2>3. job[i].at = "active" /\ UNCHANGED crashes
    BY <1>10 DEF HookRefuses
  <2>4. CASE i = k
    <3>1. copies'[k] \in {copies[k], copies[k] + 1}
      BY <2>2, <2>4, JobShape DEF BotTypeOK
    <3>2. job'[k] = j
      BY <2>1, <2>4 DEF BotTypeOK
    <3> QED BY <2>1, <2>3, <2>4, <3>1, <3>2 DEF JobStep, Refused
  <2>5. CASE i # k
    BY <1>6, <2>1, <2>2, <2>3, <2>5
  <2> QED BY <2>4, <2>5
<1>11. ASSUME NEW i \in Ids, MarkDelivered(i) PROVE JobStep(k)
  <2>1. job' = [job EXCEPT ![i] = [job[i] EXCEPT !.at = "done"]]
    BY <1>11 DEF MarkDelivered
  <2>2. job[i].at = "accepted" /\ UNCHANGED <<copies, crashes>>
    BY <1>11 DEF MarkDelivered
  <2>3. CASE i = k
    <3>1. job'[k].at = "done" /\ job'[k].failures = job[k].failures
      BY <2>1, <2>3 DEF BotTypeOK, Jobs
    <3> QED BY <2>2, <2>3, <3>1 DEF JobStep, Quiet, NoJob, BotTypeOK
  <2>4. CASE i # k
    BY <1>6, <2>1, <2>2, <2>4
  <2> QED BY <2>3, <2>4
<1>12. CASE ApiCrash
  <2>1. /\ job'[k] = job[k] \/ (job[k].at = "adding" /\ job'[k] = NoJob)
        /\ copies' = copies /\ crashes' = crashes + 1 /\ crashes \in Nat
    BY <1>12 DEF ApiCrash, BotTypeOK
  <2> QED BY <2>1 DEF JobStep, Quiet, NoJob, AttemptsLeft
<1>13. CASE WorkerCrash
  <2>1. copies' = copies /\ crashes' = crashes + 1 /\ crashes \in Nat
    BY <1>13 DEF WorkerCrash, BotTypeOK
  <2>2. CASE k \in Running
    <3>1. job'[k] = [job[k] EXCEPT !.at = "waiting"] /\ job[k].at \in {"active", "accepted"}
      BY <1>13, <2>2 DEF WorkerCrash, Running
    <3>2. job'[k].at = "waiting" /\ job'[k].failures = job[k].failures
      BY <3>1 DEF BotTypeOK, Jobs
    <3> QED BY <2>1, <3>1, <3>2 DEF JobStep, Died
  <2>3. CASE k \notin Running
    <3>1. job'[k] = job[k]
      BY <1>13, <2>3 DEF WorkerCrash
    <3> QED BY <2>1, <3>1 DEF JobStep, Quiet
  <2> QED BY <2>2, <2>3
<1>14. ASSUME NEW c \in Callers,
              (\E kind \in {"incoming", "callback"} : Ask(c, kind)) \/ GiveUp(c)
       PROVE  JobStep(k)
  BY <1>1, <1>14 DEF Ask, GiveUp
<1>15. CASE GetUpdates \/ (\E h \in Hooks \cup {NoHook} : SetWebhook(h))
            \/ DeleteUpdates \/ DeleteCommands \/ DeleteBot \/ UNCHANGED botVars
  BY <1>1, <1>15 DEF GetUpdates, SetWebhook, DeleteUpdates, DeleteCommands, DeleteBot, botVars
<1> QED
  BY <1>3, <1>4, <1>5, <1>7, <1>8, <1>9, <1>10, <1>11, <1>12, <1>13, <1>14, <1>15
     DEF BotNext, Api, Queue

\* What a step may do with the rows, the polling bot and the copies: ...
KeptUpdates == UNCHANGED <<bot, stored, delivered, nextId>>

\* ... insert a row of a bot that is there, ...
RowComes ==
    /\ bot = "live" /\ nextId \in Ids
    /\ stored' = stored \cup {nextId} /\ nextId' = nextId + 1
    /\ UNCHANGED <<bot, delivered, poller, copies>>

\* ... hand one copy of an update to the webhook, ...
CopyGoes ==
    /\ \E i \in Ids : /\ i < nextId
                      /\ copies' = [copies EXCEPT ![i] = @ + 1]
    /\ KeptUpdates /\ UNCHANGED poller

\* ... mark what the webhook has accepted, ...
RowMarked ==
    /\ \E i \in Ids : /\ job[i].at = "accepted"
                      /\ delivered' = delivered \cup ({i} \cap stored)
    /\ UNCHANGED <<bot, stored, nextId, poller, copies>>

\* ... delete all rows, ...
RowsGo ==
    /\ stored' = {} /\ delivered' = {}
    /\ UNCHANGED <<nextId, poller, copies>>

\* ... give the bot a page, or none of it.
TableStep ==
    \/ RowComes \/ CopyGoes \/ RowMarked \/ RowsGo
    \/ GetUpdates /\ KeptUpdates /\ UNCHANGED copies
    \/ KeptUpdates /\ UNCHANGED <<poller, copies>>

LEMMA TableEffect ==
    ASSUME BotTypeOK, RoomLeft, AttemptsLeft, IdsInOrder, [BotNext]_botVars
    PROVE  TableStep
<1> USE DEF table, poller
<1>1. ASSUME NEW c \in Callers, Insert(c) PROVE TableStep
  <2>1. nextId \in Ids
    BY <1>1, RoomForRow
  <2>2. (bot = "live" /\ Enqueue) \/ UNCHANGED <<stored, nextId>>
    BY <1>1, <2>1, InsertCases
  <2>3. UNCHANGED <<bot, delivered, offset, polled, copies>>
    BY <1>1 DEF Insert
  <2>4. CASE bot = "live" /\ Enqueue
    BY <2>1, <2>3, <2>4 DEF Enqueue, TableStep, RowComes
  <2>5. CASE UNCHANGED <<stored, nextId>>
    BY <2>3, <2>5 DEF TableStep, KeptUpdates
  <2> QED BY <2>2, <2>4, <2>5
<1>2. CASE SendMessage
  BY <1>2, RoomForRow DEF SendMessage, Enqueue, TableStep, RowComes
<1>3. ASSUME NEW i \in Ids, i < nextId, KeptUpdates, UNCHANGED poller,
             \E got \in {0, 1} : copies' = [copies EXCEPT ![i] = @ + got]
      PROVE  TableStep
  <2>1. PICK got \in {0, 1} : copies' = [copies EXCEPT ![i] = @ + got]
    BY <1>3
  <2>2. CASE got = 0
    <3>1. copies' = copies
      BY <2>1, <2>2, JobShape DEF BotTypeOK
    <3> QED BY <1>3, <3>1 DEF TableStep
  <2>3. CASE got = 1
    BY <1>3, <2>1, <2>3 DEF TableStep, CopyGoes
  <2> QED BY <2>2, <2>3
<1>4. ASSUME NEW c \in Callers, CallReturns(c) PROVE TableStep
  <2>1. request[c].id \in Ids /\ request[c].id < nextId
    BY <1>4, RequestShape DEF CallReturns, IdsInOrder
  <2> QED BY <1>3, <1>4, <2>1 DEF CallReturns, KeptUpdates
<1>5. ASSUME NEW i \in Ids, job[i].at \in {"active", "accepted"} PROVE i < nextId
  <2>1. i \in Int /\ nextId \in Int
    BY JobShape DEF BotTypeOK
  <2> QED BY <1>5, <2>1 DEF IdsInOrder, NoJob
<1>6. ASSUME NEW i \in Ids, HookAccepts(i) PROVE TableStep
  <2>1. \E got \in {0, 1} : copies' = [copies EXCEPT ![i] = @ + got]
    BY <1>6 DEF HookAccepts
  <2> QED BY <1>3, <1>5, <1>6, <2>1 DEF HookAccepts, KeptUpdates
<1>7. ASSUME NEW i \in Ids, HookRefuses(i) PROVE TableStep
  <2>1. \E got \in {0, 1} : copies' = [copies EXCEPT ![i] = @ + got]
    BY <1>7 DEF HookRefuses
  <2> QED BY <1>3, <1>5, <1>7, <2>1 DEF HookRefuses, KeptUpdates
<1>8. ASSUME NEW i \in Ids, MarkDelivered(i) PROVE TableStep
  BY <1>8 DEF MarkDelivered, Marked, TableStep, RowMarked
<1>9. CASE DeleteUpdates \/ DeleteBot
  BY <1>9 DEF DeleteUpdates, DeleteBot, Cascaded, TableStep, RowsGo
<1>10. CASE GetUpdates
  BY <1>10 DEF GetUpdates, TableStep, KeptUpdates
<1>11. ASSUME NEW c \in Callers,
              (\E kind \in {"incoming", "callback"} : Ask(c, kind)) \/ GiveUp(c)
       PROVE  TableStep
  BY <1>11 DEF Ask, GiveUp, TableStep, KeptUpdates
<1>12. ASSUME NEW i \in Ids, AddSettles(i) \/ StartJob(i) PROVE TableStep
  BY <1>12 DEF AddSettles, StartJob, TableStep, KeptUpdates
<1>13. CASE (\E h \in Hooks \cup {NoHook} : SetWebhook(h)) \/ DeleteCommands
            \/ ApiCrash \/ WorkerCrash \/ UNCHANGED botVars
  BY <1>13 DEF SetWebhook, DeleteCommands, ApiCrash, WorkerCrash, botVars, TableStep, KeptUpdates
<1> QED
  BY <1>1, <1>2, <1>4, <1>6, <1>7, <1>8, <1>9, <1>10, <1>11, <1>12, <1>13
     DEF BotNext, Api, Queue

\* The counter of the rows goes one way, and rows and the offset follow it.
LEMMA TableMoves ==
    ASSUME BotTypeOK, TableStep
    PROVE  /\ nextId' \in {nextId, nextId + 1} /\ nextId \in Nat
           /\ stored' \subseteq stored \/ (stored' = stored \cup {nextId} /\ nextId' = nextId + 1)
           /\ offset' \in {offset} \cup stored
<1>1. CASE GetUpdates /\ KeptUpdates
  <2>1. offset' \in stored
    BY <1>1, PageShape
  <2> QED BY <1>1, <2>1 DEF KeptUpdates, BotTypeOK
<1>2. CASE ~GetUpdates
  BY <1>2 DEF TableStep, RowComes, CopyGoes, RowMarked, RowsGo, KeptUpdates, poller, BotTypeOK
<1>3. CASE ~KeptUpdates
  BY <1>3 DEF TableStep, RowComes, CopyGoes, RowMarked, RowsGo, KeptUpdates, poller, BotTypeOK
<1> QED BY <1>1, <1>2, <1>3

\* Updates are named after their insertion only.
LEMMA OrderStep ==
    ASSUME BotTypeOK, RoomLeft, AttemptsLeft, IdsInOrder, [BotNext]_botVars
    PROVE  IdsInOrder'
<1>1. /\ nextId' \in {nextId, nextId + 1} /\ nextId \in Nat
      /\ stored' \subseteq stored \/ (stored' = stored \cup {nextId} /\ nextId' = nextId + 1)
      /\ offset' \in {offset} \cup stored
  BY TableEffect, TableMoves
<1>2. stored \in SUBSET Nat /\ offset \in Nat /\ BotTypeOK'
  BY BotTypeStep DEF BotTypeOK, Ids
<1>3. ASSUME NEW i \in stored' PROVE i < nextId'
  <2>1. CASE i \in stored
    <3>1. i \in Nat /\ i < nextId
      BY <1>2, <2>1 DEF IdsInOrder
    <3> QED BY <1>1, <3>1
  <2>2. CASE i \notin stored
    <3>1. i = nextId /\ nextId' = nextId + 1
      BY <1>1, <2>2
    <3> QED BY <1>1, <3>1
  <2> QED BY <2>1, <2>2
<1>4. offset' < nextId'
  BY <1>1, <1>2 DEF IdsInOrder
<1>5. ASSUME NEW k \in Ids, k >= nextId' PROVE job'[k] = NoJob /\ copies'[k] = 0
  <2>1. k >= nextId /\ k \in Nat
    BY <1>1, <1>5, JobShape
  <2>2. job[k] = NoJob /\ copies[k] = 0
    BY <2>1 DEF IdsInOrder
  <2>3. ~Added(k)
    BY <1>1, <1>5, <2>1 DEF Added
  <2>4. ~CallEnds(k)
    BY <1>1, <2>1, RequestShape DEF CallEnds, Calling, IdsInOrder
  <2> QED BY <2>2, <2>3, <2>4, JobEffect
             DEF JobStep, Quiet, Skipped, Took, Refused, Died, NoJob
<1>6. ASSUME NEW c \in Callers, request'[c].at \in {"calling", "queueing"}
      PROVE  request'[c].id < nextId'
  <2>1. CASE request'[c] = request[c]
    BY <1>1, <1>6, <2>1, RequestShape DEF IdsInOrder, Ids
  <2>2. CASE request'[c].id = nextId /\ nextId' = nextId + 1
    BY <1>1, <2>2
  <2> QED BY <1>6, <2>1, <2>2, RequestEffect
<1> QED BY <1>3, <1>4, <1>5, <1>6 DEF IdsInOrder

\* No second handler calls the webhook with the same update.
LEMMA CallerStep ==
    ASSUME BotTypeOK, RoomLeft, IdsInOrder, OneCaller, [BotNext]_botVars
    PROVE  /\ OneCaller'
           /\ \A i \in Ids : i < nextId => Calling(i)' \subseteq Calling(i)
<1>1. nextId \in Nat
  BY DEF BotTypeOK
<1>2. ASSUME NEW i \in Ids, NEW c \in Calling(i)', c \notin Calling(i)
      PROVE  /\ i = nextId
             /\ \A d \in Callers \ {c} : request'[d] = request[d]
  BY <1>2, RequestEffect DEF Calling
<1>3. ASSUME NEW i \in Ids, NEW c \in Calling(i)', NEW d \in Calling(i)' PROVE c = d
  <2>1. CASE c \in Calling(i) /\ d \in Calling(i)
    BY <2>1 DEF OneCaller
  <2>2. \A e \in Callers : request[e].at = "calling" => request[e].id # nextId
    BY <1>1, RequestShape DEF IdsInOrder, Ids
  <2>3. CASE c \notin Calling(i) /\ c # d
    BY <1>2, <2>2, <2>3 DEF Calling
  <2>4. CASE d \notin Calling(i) /\ c # d
    BY <1>2, <2>2, <2>4 DEF Calling
  <2> QED BY <2>1, <2>3, <2>4
<1>4. ASSUME NEW i \in Ids, i < nextId PROVE Calling(i)' \subseteq Calling(i)
  BY <1>1, <1>2, <1>4
<1> QED BY <1>3, <1>4 DEF OneCaller

\* Every copy is accounted for, and what is about to be marked was received.
LEMMA CopiesStep ==
    ASSUME BotInv, [BotNext]_botVars
    PROVE  CopiesCounted' /\ AcceptedWasReceived'
<1> SUFFICES ASSUME NEW k \in Ids
             PROVE  /\ copies'[k] <= CallToCome(k)' + job'[k].failures + Succeeded(k)' + crashes'
                    /\ job'[k].at = "accepted" => copies'[k] > 0
  BY DEF CopiesCounted, AcceptedWasReceived
<1> DEFINE Goal == /\ copies'[k] <= CallToCome(k)' + job'[k].failures + Succeeded(k)' + crashes'
                   /\ job'[k].at = "accepted" => copies'[k] > 0
<1>1. BotTypeOK' /\ JobStep(k) /\ IdsInOrder'
  BY BotTypeStep, JobEffect, OrderStep DEF BotInv
<1>2. /\ copies[k] \in Nat /\ job[k].failures \in Nat /\ crashes \in Nat
      /\ copies'[k] \in Nat /\ job'[k].failures \in Nat /\ crashes' \in Nat
      /\ k \in Nat /\ nextId \in Nat
  BY <1>1 DEF BotInv, BotTypeOK, Jobs, Ids
<1>3. /\ copies[k] <= CallToCome(k) + job[k].failures + Succeeded(k) + crashes
      /\ job[k].at = "accepted" => copies[k] > 0
  BY DEF BotInv, CopiesCounted, AcceptedWasReceived
<1>4. /\ CallToCome(k) \in {0, 1} /\ CallToCome(k)' \in {0, 1}
      /\ Succeeded(k) \in {0, 1} /\ Succeeded(k)' \in {0, 1}
  BY DEF CallToCome, Succeeded
<1>5. CASE k >= nextId
  <2>1. copies[k] = 0 /\ job[k] = NoJob
    BY <1>5 DEF BotInv, IdsInOrder
  <2>2. Added(k) \/ Quiet(k)
    <3>1. ~CallEnds(k)
      BY <1>2, <1>5, RequestShape DEF CallEnds, Calling, BotInv, IdsInOrder
    <3> QED BY <1>1, <2>1, <3>1 DEF JobStep, Skipped, Took, Refused, Died, NoJob
  <2>3. copies'[k] = 0 /\ job'[k].at # "accepted"
    BY <2>1, <2>2 DEF Added, Quiet, NoJob
  <2> QED BY <1>2, <1>4, <2>3
<1>6. CASE k < nextId
  <2>1. CallToCome(k) <= CallToCome(k)'
    <3>1. Calling(k)' \subseteq Calling(k)
      BY <1>6, CallerStep DEF BotInv
    <3> QED BY <3>1 DEF CallToCome
  <2>2. ~Added(k)
    BY <1>2, <1>6 DEF Added
  <2>3. CASE Quiet(k)
    <3>1. Succeeded(k)' = Succeeded(k)
      BY <2>3 DEF Quiet, Succeeded
    <3> QED BY <1>2, <1>3, <1>4, <2>1, <2>3, <3>1 DEF Quiet
  <2>4. CASE Skipped(k)
    <3>1. Succeeded(k) = 0 /\ Succeeded(k)' = 1
      BY <2>4 DEF Skipped, Succeeded
    <3> QED BY <1>2, <1>3, <1>4, <2>1, <2>4, <3>1 DEF Skipped
  <2>5. CASE Took(k)
    <3>1. Succeeded(k) = 0 /\ Succeeded(k)' = 1
      BY <2>5 DEF Took, Succeeded
    <3> QED BY <1>2, <1>3, <1>4, <2>1, <2>5, <3>1 DEF Took
  <2>6. CASE Refused(k)
    <3>1. Succeeded(k) = 0 /\ Succeeded(k)' = 0
      BY <2>6 DEF Refused, Succeeded
    <3> QED BY <1>2, <1>3, <1>4, <2>1, <2>6, <3>1 DEF Refused
  <2>7. CASE Died(k)
    <3>1. Succeeded(k)' = 0
      BY <2>7 DEF Died, Succeeded
    <3> QED BY <1>2, <1>3, <1>4, <2>1, <2>7, <3>1 DEF Died
  <2>8. CASE CallEnds(k)
    <3>1. CallToCome(k) = 0 /\ CallToCome(k)' = 1
      <4>1. PICK c \in Calling(k) : c \notin Calling(k)'
        BY <2>8 DEF CallEnds
      <4>2. Calling(k)' = {}
        BY <1>6, <4>1, CallerStep DEF BotInv, OneCaller
      <4> QED BY <4>1, <4>2 DEF CallToCome
    <3>2. Succeeded(k)' = Succeeded(k) /\ job'[k] = job[k] /\ crashes' = crashes
      BY <2>8 DEF CallEnds, Succeeded
    <3> QED BY <1>2, <1>3, <1>4, <2>8, <3>1, <3>2 DEF CallEnds
  <2> QED BY <1>1, <2>2, <2>3, <2>4, <2>5, <2>6, <2>7, <2>8 DEF JobStep
<1> QED BY <1>2, <1>5, <1>6

LEMMA BotInvInit == BotInit => BotInv
<1> SUFFICES ASSUME BotInit PROVE BotInv
  OBVIOUS
<1>1. BotTypeOK
  <2>1. NoRequest \in Requests /\ NoJob \in Jobs
    BY BoundsAreNumbers DEF Requests, NoJob, Jobs
  <2> QED BY <2>1, BoundsAreNumbers DEF BotInit, BotTypeOK
<1>2. RoomLeft
  <2>1. Reading = {}
    BY DEF BotInit, Reading, NoRequest
  <2> QED BY <2>1, FS_EmptySet, BoundsAreNumbers DEF BotInit, RoomLeft
<1>3. AttemptsLeft /\ CopiesCounted /\ AcceptedWasReceived
  <2> SUFFICES ASSUME NEW i \in Ids
               PROVE  /\ job[i].failures = 0 /\ job[i].failures < MaxAttempts
                      /\ copies[i] <= CallToCome(i) + job[i].failures + Succeeded(i) + crashes
                      /\ job[i].at # "accepted"
    BY DEF AttemptsLeft, CopiesCounted, AcceptedWasReceived
  <2>1. job[i] = NoJob /\ copies[i] = 0 /\ crashes = 0
    BY DEF BotInit
  <2>2. CallToCome(i) \in {0, 1} /\ Succeeded(i) \in {0, 1}
    BY DEF CallToCome, Succeeded
  <2> QED BY <2>1, <2>2, BoundsAreNumbers DEF NoJob
<1>4. IdsInOrder /\ OneCaller
  BY DEF BotInit, IdsInOrder, OneCaller, Calling, NoRequest
<1> QED BY <1>1, <1>2, <1>3, <1>4 DEF BotInv

\* The rows, requests and jobs of a bot stay in order, and its copies counted.
LEMMA BotInvariant == BotSpec => []BotInv
<1>1. BotInv /\ [BotNext]_botVars => BotInv'
  <2> SUFFICES ASSUME BotInv, [BotNext]_botVars PROVE BotInv'
    OBVIOUS
  <2>1. BotTypeOK' /\ RoomLeft' /\ AttemptsLeft' /\ IdsInOrder' /\ OneCaller'
    BY BotTypeStep, RoomStep, AttemptsStep, OrderStep, CallerStep DEF BotInv
  <2> QED BY <2>1, CopiesStep DEF BotInv
<1> QED BY <1>1, BotInvInit, PTL DEF BotSpec

\* Every variable of the bots' updates keeps its type.
THEOREM BotTypeCorrect == BotSpec => []BotTypeOK
<1>1. BotInv => BotTypeOK
  BY DEF BotInv
<1> QED BY <1>1, BotInvariant, PTL

\* An update is never handed over more often than once by the app's request,
\* once per attempt of the queue and once per death, for every number of
\* callers, attempts, parallel jobs and crashes (botUpdateWorker.js:13).
THEOREM CopiesAreBounded == BotSpec => []BoundedCopies
<1>1. BotInv => BoundedCopies
  <2> SUFFICES ASSUME BotInv, NEW i \in Ids PROVE copies[i] <= 1 + MaxAttempts + crashes
    BY DEF BoundedCopies
  <2>1. copies[i] <= CallToCome(i) + job[i].failures + Succeeded(i) + crashes
    BY DEF BotInv, CopiesCounted
  <2>2. /\ CallToCome(i) \in {0, 1} /\ Succeeded(i) \in {0, 1}
        /\ Succeeded(i) = 1 => job[i].at # "failed"
    BY DEF CallToCome, Succeeded
  <2>3. job[i].failures + Succeeded(i) <= MaxAttempts
    BY <2>2, JobShape, BoundsAreNumbers DEF BotInv, AttemptsLeft
  <2>4. /\ copies[i] \in Nat /\ job[i].failures \in Nat /\ crashes \in Nat /\ MaxAttempts \in Nat
    BY BoundsAreNumbers DEF BotInv, BotTypeOK, Jobs
  <2> QED BY <2>1, <2>2, <2>3, <2>4
<1> QED BY <1>1, BotInvariant, PTL

\* No update outlives its bot, not even one inserted while the bot is being
\* deleted in three statements (bots.js:148).
THEOREM NoUpdateWithoutBot == BotSpec => []UpdatesHaveBot
<1>1. BotInit => UpdatesHaveBot
  BY DEF BotInit, UpdatesHaveBot
<1>2. BotInv /\ UpdatesHaveBot /\ [BotNext]_botVars => UpdatesHaveBot'
  <2> SUFFICES ASSUME BotInv, UpdatesHaveBot, [BotNext]_botVars PROVE UpdatesHaveBot'
    OBVIOUS
  <2>1. TableStep
    BY TableEffect DEF BotInv
  <2> QED BY <2>1 DEF TableStep, RowComes, CopyGoes, RowMarked, RowsGo, KeptUpdates, UpdatesHaveBot
<1> QED BY <1>1, <1>2, BotInvariant, PTL DEF BotSpec

\* A page has no gap: whatever lies between the old offset and the new is on it.
LEMMA PageIsClosed ==
    ASSUME BotTypeOK, GetUpdates, NEW i \in stored, i > offset, i <= offset'
    PROVE  i \in Page
<1> DEFINE newer == {j \in stored : j > offset}
           Below(k) == {j \in newer : j < k}
<1>1. offset' \in Page /\ Page \subseteq stored
  BY PageShape
<1>2. i \in Nat /\ offset' \in Nat /\ stored \subseteq Nat
  BY <1>1 DEF BotTypeOK, Ids
<1>3. Below(i) \subseteq Below(offset')
  <2> SUFFICES ASSUME NEW j \in Below(i) PROVE j < offset'
    OBVIOUS
  <2>1. j \in Nat /\ j < i
    BY <1>2
  <2> QED BY <1>2, <2>1
<1>4. IsFiniteSet(Below(offset'))
  <2>1. IsFiniteSet(Ids)
    BY FS_Interval, BoundsAreNumbers DEF Ids
  <2>2. Below(offset') \in SUBSET Ids
    BY DEF BotTypeOK
  <2> QED BY <2>1, <2>2, FS_Subset
<1>5. Cardinality(Below(offset')) < PageSize
  BY <1>1 DEF Page
<1>6. /\ Cardinality(Below(i)) <= Cardinality(Below(offset'))
      /\ Cardinality(Below(i)) \in Nat /\ Cardinality(Below(offset')) \in Nat
  <2> HIDE DEF Below
  <2> QED BY <1>3, <1>4, FS_Subset, FS_CardinalityType
<1>7. Cardinality(Below(i)) < PageSize
  BY <1>5, <1>6, BoundsAreNumbers
<1> QED BY <1>7 DEF Page

\* A bot that polls page by page misses no update, for every page size and
\* however inserts, deletions and the webhook go on between its calls
\* (bots.js:239).
THEOREM PollingIsComplete == BotSpec => []PollSkipsNothing
<1>1. BotInit => PollSkipsNothing
  BY DEF BotInit, PollSkipsNothing
<1>2. BotInv /\ PollSkipsNothing /\ [BotNext]_botVars => PollSkipsNothing'
  <2> SUFFICES ASSUME BotInv, PollSkipsNothing, [BotNext]_botVars,
                      NEW i \in stored', i <= offset'
               PROVE  i \in polled'
    BY DEF PollSkipsNothing
  <2>1. TableStep /\ BotTypeOK
    BY TableEffect DEF BotInv
  <2>2. CASE GetUpdates /\ KeptUpdates
    <3>1. i \in stored /\ polled' = polled \cup Page
      BY <2>2 DEF GetUpdates, KeptUpdates
    <3>2. CASE i <= offset
      BY <3>1, <3>2 DEF PollSkipsNothing
    <3>3. CASE ~(i <= offset)
      <4>1. i > offset
        BY <3>1, <3>3, <2>1 DEF BotTypeOK, Ids
      <4> QED BY <2>1, <2>2, <3>1, <4>1, PageIsClosed
    <3> QED BY <3>2, <3>3
  <2>3. CASE RowComes
    <3>1. i # nextId
      BY <2>1, <2>3 DEF RowComes, poller, BotInv, IdsInOrder, BotTypeOK, Ids
    <3> QED BY <2>3, <3>1 DEF RowComes, poller, PollSkipsNothing
  <2>4. CASE stored' \subseteq stored /\ UNCHANGED poller
    BY <2>4 DEF poller, PollSkipsNothing
  <2> QED BY <2>1, <2>2, <2>3, <2>4 DEF TableStep, CopyGoes, RowMarked, RowsGo, KeptUpdates
<1> QED BY <1>1, <1>2, BotInvariant, PTL DEF BotSpec

-----------------------------------------------------------------------------
(* The updates implement the abstract delivery.                            *)

States == [i \in Ids |-> StateOf(i)]

LEMMA StateCases ==
    ASSUME BotInv, NEW i \in Ids
    PROVE  /\ States[i] = StateOf(i)
           /\ StateOf(i) = "absent" <=> i >= nextId
           /\ StateOf(i) = "delivered" <=> i \in delivered
           /\ StateOf(i) = "pending" <=> i \in stored \ delivered
           /\ StateOf(i) = "deleted" <=> i \notin stored /\ i < nextId
<1>1. i \in Nat /\ nextId \in Nat /\ (i \in stored => i < nextId) /\ delivered \subseteq stored
  BY DEF BotInv, BotTypeOK, IdsInOrder, Ids
<1> QED BY <1>1 DEF States, StateOf

\* Every step of the code is a step of WebhookDelivery or changes nothing there.
LEMMA DeliveryStep ==
    ASSUME BotInv, BotInv', TableStep
    PROVE  [Delivery!DeliveryNext]_<<States, copies>>
<1> USE DEF States
<1>1. \A i \in Ids : i \in Nat /\ nextId \in Nat
  BY DEF BotInv, BotTypeOK, Ids
<1>2. CASE RowComes
  <2>1. \A i \in Ids : States'[i] = IF i = nextId THEN "pending" ELSE States[i]
    <3> SUFFICES ASSUME NEW i \in Ids
                 PROVE  StateOf(i)' = IF i = nextId THEN "pending" ELSE StateOf(i)
      OBVIOUS
    <3>1. nextId \notin stored /\ delivered \subseteq stored /\ nextId \in Nat /\ i \in Nat
      BY <1>1, <1>2 DEF BotInv, BotTypeOK, IdsInOrder
    <3>2. CASE i = nextId
      BY <1>2, <3>1, <3>2 DEF RowComes, StateOf
    <3>3. CASE i # nextId
      BY <1>2, <3>1, <3>3 DEF RowComes, StateOf
    <3> QED BY <3>2, <3>3
  <2>2. nextId \in Ids /\ States[nextId] = "absent" /\ UNCHANGED copies
    BY <1>1, <1>2, StateCases DEF RowComes
  <2>3. States' = [States EXCEPT ![nextId] = "pending"]
    BY <2>1, <2>2
  <2>4. Delivery!Submit(nextId)
    BY <2>2, <2>3 DEF Delivery!Submit
  <2> QED BY <2>2, <2>4 DEF Delivery!DeliveryNext
<1>3. ASSUME KeptUpdates PROVE States' = States
  BY <1>3 DEF KeptUpdates, StateOf
<1>4. CASE CopyGoes
  <2>1. PICK i \in Ids : i < nextId /\ copies' = [copies EXCEPT ![i] = @ + 1]
    BY <1>4 DEF CopyGoes
  <2>2. States[i] # "absent"
    BY <1>1, <2>1, StateCases
  <2>3. States' = States
    BY <1>3, <1>4 DEF CopyGoes
  <2> QED BY <2>1, <2>2, <2>3 DEF Delivery!DeliveryNext, Delivery!Receive
<1>5. CASE RowMarked
  <2>1. PICK i \in Ids : job[i].at = "accepted" /\ delivered' = delivered \cup ({i} \cap stored)
    BY <1>5 DEF RowMarked
  <2>2. stored' = stored /\ nextId' = nextId /\ copies' = copies /\ copies[i] > 0
    BY <1>5, <2>1 DEF RowMarked, BotInv, AcceptedWasReceived
  <2>3. CASE i \in stored \ delivered
    <3>1. States[i] = "pending"
      BY <2>3, StateCases
    <3>2. \A k \in Ids : States'[k] = IF k = i THEN "delivered" ELSE States[k]
      BY <2>1, <2>2, <2>3 DEF StateOf
    <3>3. States' = [States EXCEPT ![i] = "delivered"]
      BY <3>2
    <3> QED BY <2>2, <3>1, <3>3 DEF Delivery!DeliveryNext, Delivery!Confirm
  <2>4. CASE i \notin stored \ delivered
    <3>1. delivered' = delivered
      BY <2>1, <2>4
    <3> QED BY <2>2, <3>1 DEF StateOf
  <2> QED BY <2>3, <2>4
<1>6. CASE RowsGo
  <2>1. \A i \in Ids : States'[i] = IF States[i] = "absent" THEN "absent" ELSE "deleted"
    <3> SUFFICES ASSUME NEW i \in Ids
                 PROVE  StateOf(i)' = IF StateOf(i) = "absent" THEN "absent" ELSE "deleted"
      OBVIOUS
    <3>1. CASE i < nextId
      BY <1>1, <1>6, <3>1, StateCases DEF RowsGo, StateOf
    <3>2. CASE ~(i < nextId)
      BY <1>1, <1>6, <3>2, StateCases DEF RowsGo, StateOf
    <3> QED BY <3>1, <3>2
  <2>2. States' = [i \in Ids |-> IF States[i] = "absent" THEN "absent" ELSE "deleted"]
    BY <2>1
  <2> QED BY <1>6, <2>2 DEF RowsGo, Delivery!DeliveryNext, Delivery!Forget
<1>7. CASE KeptUpdates /\ UNCHANGED copies
  BY <1>3, <1>7
<1> QED BY <1>2, <1>4, <1>5, <1>6, <1>7 DEF TableStep

\* The rows, jobs and calls of a bot implement WebhookDelivery: an update is
\* marked only after the webhook has received it and never unmarked but by
\* being deleted, for good, whatever is retried and whoever crashes meanwhile.
THEOREM UpdatesImplementDelivery == BotSpec => ImplementsDelivery
<1>1. BotInit => Delivery!DeliveryInit
  <2> SUFFICES ASSUME BotInit PROVE Delivery!DeliveryInit
    OBVIOUS
  <2>1. ASSUME NEW i \in Ids PROVE StateOf(i) = "absent"
    <3>1. stored = {} /\ delivered = {} /\ nextId = 1 /\ i \in Nat \ {0}
      BY DEF BotInit, Ids
    <3> QED BY <3>1 DEF StateOf
  <2> QED BY <2>1 DEF BotInit, Delivery!DeliveryInit
<1>2. BotInv /\ BotInv' /\ [BotNext]_botVars => [Delivery!DeliveryNext]_<<States, copies>>
  <2> SUFFICES ASSUME BotInv, BotInv', [BotNext]_botVars
               PROVE  [Delivery!DeliveryNext]_<<States, copies>>
    OBVIOUS
  <2>1. TableStep
    BY TableEffect DEF BotInv
  <2> QED BY <2>1, DeliveryStep
<1> QED BY <1>1, <1>2, BotInvariant, PTL DEF BotSpec, ImplementsDelivery, Delivery!DeliverySpec, States

-----------------------------------------------------------------------------
(* III. The support desk.                                                  *)

\* Handlers that have read a ticket in order to write its status back.
Handling(w) == task[w].op \in {"message", "update"}

\* The tables of n tickets.
DeskTables(n) ==
    /\ owner \in [1..n -> Users]
    /\ status \in [1..n -> Statuses]
    /\ ruled \in [1..n -> Statuses]

\* A handler works on a ticket that has been opened, and unless the ticket has
\* changed since, or the administrator decides, writes back what is there.
ReadIsCurrent ==
    \A w \in Workers : Handling(w) =>
        /\ task[w].ticket \in Opened
        /\ ~task[w].stale /\ ~task[w].ruling => task[w].status = status[task[w].ticket]

DeskInv == DeskTypeOK /\ ReadIsCurrent /\ RulingsStand

LEMMA DeskTaskShape ==
    ASSUME DeskTypeOK, NEW w \in Workers
    PROVE  /\ task[w] \in Tasks
           /\ task[w].op \in {"idle", "first", "message", "update"}
           /\ task[w].op # "idle" => task[w].ticket \in Tickets /\ task[w].by \in Users
           /\ Handling(w) => /\ task[w].status \in Statuses
                             /\ task[w].ruling \in BOOLEAN /\ task[w].stale \in BOOLEAN
<1>1. task[w] \in Tasks
  BY DEF DeskTypeOK
<1>2. CASE task[w] = Idle
  BY <1>1, <1>2 DEF Idle, Handling
<1>3. CASE task[w] \in [op: {"first"}, ticket: Tickets, by: Users]
  BY <1>1, <1>3 DEF Handling
<1>4. CASE task[w] \in [op: {"message", "update"}, ticket: Tickets, by: Users,
                        status: Statuses, ruling: BOOLEAN, stale: BOOLEAN]
  BY <1>1, <1>4 DEF Handling
<1> QED BY <1>1, <1>2, <1>3, <1>4 DEF Tasks

\* A handler overtaken by a change knows nothing but that it is out of date.
LEMMA OvertakenShape ==
    ASSUME NEW tasks \in [Workers -> Tasks], NEW new, NEW w \in Workers
    PROVE  /\ Overtaken(tasks, new) \in [Workers -> Tasks]
           /\ \/ Overtaken(tasks, new)[w] = tasks[w]
              \/ /\ tasks[w].op \in {"message", "update"}
                 /\ Overtaken(tasks, new)[w] = [tasks[w] EXCEPT !.stale = TRUE]
<1> DEFINE Full == [op: {"message", "update"}, ticket: Tickets, by: Users,
                    status: Statuses, ruling: BOOLEAN, stale: BOOLEAN]
<1>1. ASSUME NEW v \in Workers, tasks[v].op \in {"message", "update"}
      PROVE  /\ tasks[v] \in Full
             /\ [tasks[v] EXCEPT !.stale = TRUE] \in Full
  <2>1. tasks[v] \in Full
    BY <1>1 DEF Tasks, Idle
  <2> QED BY <2>1
<1>2. Full \subseteq Tasks
  BY DEF Tasks
<1>3. Overtaken(tasks, new) \in [Workers -> Tasks]
  <2> SUFFICES ASSUME NEW v \in Workers PROVE Overtaken(tasks, new)[v] \in Tasks
    BY DEF Overtaken
  <2> HIDE DEF Full
  <2> QED BY <1>1, <1>2 DEF Overtaken
<1>4. CASE tasks[w].op \in {"message", "update"} /\ status[tasks[w].ticket] # new[tasks[w].ticket]
  <2>1. Overtaken(tasks, new)[w] = [tasks[w] EXCEPT !.stale = TRUE]
    BY <1>4 DEF Overtaken
  <2> QED BY <1>1, <1>3, <1>4, <2>1
<1>5. CASE ~(tasks[w].op \in {"message", "update"} /\ status[tasks[w].ticket] # new[tasks[w].ticket])
  <2>1. Overtaken(tasks, new)[w] = tasks[w]
    BY <1>5 DEF Overtaken
  <2> QED BY <1>3, <1>5, <2>1
<1> QED BY <1>4, <1>5

\* ... and keeps what it has read.
LEMMA OvertakenKeeps ==
    ASSUME NEW tasks \in [Workers -> Tasks], NEW new, NEW w \in Workers,
           tasks[w].op \in {"message", "update"}
    PROVE  /\ Overtaken(tasks, new)[w].ticket = tasks[w].ticket
           /\ Overtaken(tasks, new)[w].status = tasks[w].status
           /\ Overtaken(tasks, new)[w].ruling = tasks[w].ruling
           /\ ~Overtaken(tasks, new)[w].stale =>
                 ~tasks[w].stale /\ status[tasks[w].ticket] = new[tasks[w].ticket]
<1>1. tasks[w] \in [op: {"message", "update"}, ticket: Tickets, by: Users,
                    status: Statuses, ruling: BOOLEAN, stale: BOOLEAN]
  BY DEF Tasks, Idle
<1>2. CASE status[tasks[w].ticket] # new[tasks[w].ticket]
  <2>1. Overtaken(tasks, new)[w] = [tasks[w] EXCEPT !.stale = TRUE]
    BY <1>2 DEF Overtaken
  <2> QED BY <1>1, <2>1
<1>3. CASE status[tasks[w].ticket] = new[tasks[w].ticket]
  <2>1. Overtaken(tasks, new)[w] = tasks[w]
    BY <1>3 DEF Overtaken
  <2> QED BY <1>3, <2>1
<1> QED BY <1>2, <1>3

LEMMA DeskTablesShape ==
    ASSUME DeskTypeOK
    PROVE  \E n \in 0..MaxTickets : DeskTables(n) /\ Opened = 1..n /\ Len(owner) = n
<1>1. PICK n \in 0..MaxTickets : DeskTables(n)
  BY DEF DeskTypeOK, DeskTables
<1>2. Opened = 1..n /\ n \in Nat
  BY <1>1, DeskBoundAssumption DEF DeskTables, Opened
<1>3. owner \in Seq(Users) /\ Len(owner) = n
  BY <1>1, <1>2 DEF DeskTables
<1> QED BY <1>1, <1>2, <1>3

LEMMA AppendedRow ==
    ASSUME NEW n \in Nat, NEW S, NEW f \in [1..n -> S], NEW e \in S
    PROVE  /\ Append(f, e) \in [1..n + 1 -> S]
           /\ \A k \in 1..n : Append(f, e)[k] = f[k]
           /\ Append(f, e)[n + 1] = e
<1>1. f \in Seq(S) /\ Len(f) = n
  OBVIOUS
<1>2. Append(f, e) \in Seq(S) /\ Len(Append(f, e)) = n + 1
  BY <1>1
<1>3. Append(f, e) \in [1..n + 1 -> S]
  <2>1. PICK g \in Seq(S) : g = Append(f, e) /\ Len(g) = n + 1
    BY <1>2
  <2>2. g \in [1..Len(g) -> S]
    OBVIOUS
  <2> QED BY <2>1, <2>2
<1>4. \A k \in 1..n : Append(f, e)[k] = f[k]
  BY <1>1
<1>5. Append(f, e)[n + 1] = e
  BY <1>1
<1> QED BY <1>3, <1>4, <1>5

\* A handler begins: its worker was ready, the tables stay as they are.
LEMMA DeskBegins ==
    ASSUME DeskInv, NEW w \in Workers, NEW new \in Tasks, task' = [task EXCEPT ![w] = new],
           UNCHANGED <<owner, status, ruled, muddled>>,
           new.op \in {"message", "update"} =>
              /\ new.ticket \in Opened
              /\ ~new.stale /\ ~new.ruling => new.status = status[new.ticket]
    PROVE  task' \in [Workers -> Tasks] /\ ReadIsCurrent' /\ RulingsStand'
<1>1. task' \in [Workers -> Tasks]
  BY DEF DeskInv, DeskTypeOK
<1>2. RulingsStand'
  BY DEF DeskInv, RulingsStand, Opened
<1>3. ReadIsCurrent'
  <2> SUFFICES ASSUME NEW v \in Workers, Handling(v)'
               PROVE  /\ task'[v].ticket \in Opened
                      /\ ~task'[v].stale /\ ~task'[v].ruling => task'[v].status = status[task'[v].ticket]
    BY DEF ReadIsCurrent, Opened
  <2>1. CASE v = w
    BY <2>1 DEF Handling, DeskInv, DeskTypeOK
  <2>2. CASE v # w
    <3>1. task'[v] = task[v]
      BY <2>2 DEF DeskInv, DeskTypeOK
    <3> QED BY <3>1 DEF Handling, DeskInv, ReadIsCurrent
  <2> QED BY <2>1, <2>2
<1> QED BY <1>1, <1>2, <1>3

\* The status of tickets changes while handlers have read them.
LEMMA DeskOvertakes ==
    ASSUME DeskInv, NEW w \in Workers, NEW t \in [Workers -> Tasks],
           \A v \in Workers \ {w} : t[v] = task[v], t[w] \in {task[w], Idle},
           NEW new \in [Opened -> Statuses], status' = new, task' = Overtaken(t, new),
           UNCHANGED owner
    PROVE  task' \in [Workers -> Tasks] /\ ReadIsCurrent'
<1>1. task' \in [Workers -> Tasks]
  BY OvertakenShape
<1>2. ReadIsCurrent'
  <2> SUFFICES ASSUME NEW v \in Workers, Handling(v)'
               PROVE  /\ task'[v].ticket \in Opened
                      /\ ~task'[v].stale /\ ~task'[v].ruling => task'[v].status = new[task'[v].ticket]
    BY DEF ReadIsCurrent, Opened
  <2>1. t[v].op \in {"message", "update"}
    BY OvertakenShape DEF Handling
  <2>2. t[v] = task[v]
    BY <2>1 DEF Idle
  <2>3. /\ task'[v].ticket = task[v].ticket /\ task'[v].status = task[v].status
        /\ task'[v].ruling = task[v].ruling
        /\ ~task'[v].stale => ~task[v].stale /\ status[task[v].ticket] = new[task[v].ticket]
    <3>1. PICK o \in [Workers -> Tasks] : o = Overtaken(t, new)
      BY OvertakenShape
    <3>2. /\ o[v].ticket = t[v].ticket /\ o[v].status = t[v].status /\ o[v].ruling = t[v].ruling
          /\ ~o[v].stale => ~t[v].stale /\ status[t[v].ticket] = new[t[v].ticket]
      BY <2>1, <3>1, OvertakenKeeps
    <3> QED BY <2>2, <3>1, <3>2
  <2> QED BY <2>1, <2>2, <2>3 DEF DeskInv, ReadIsCurrent, Handling
<1> QED BY <1>1, <1>2

\* Each handler's statements keep the invariant.
LEMMA DeskStep ==
    ASSUME DeskInv, [DeskNext]_deskVars
    PROVE  DeskInv'
<1>1. PICK n \in 0..MaxTickets : DeskTables(n) /\ Opened = 1..n /\ Len(owner) = n
  BY DeskTablesShape DEF DeskInv
<1>2. n \in Nat /\ MaxTickets \in Nat /\ MaxReplies \in Nat /\ MaxFailures \in Nat
  BY DeskBoundAssumption
<1>3. Idle \in Tasks
  BY DEF Tasks
<1>4. ASSUME NEW w \in Workers, NEW u \in Users, Open(w, u) PROVE DeskInv'
  <2> DEFINE new == [op |-> "first", ticket |-> n + 1, by |-> u]
  <2>1. n < MaxTickets /\ n + 1 \in Tickets /\ n + 1 \in 0..MaxTickets
    BY <1>1, <1>2, <1>4 DEF Open, Tickets
  <2>2. new \in Tasks /\ new.op = "first"
    BY <2>1 DEF Tasks
  <2>3. /\ owner' = Append(owner, u) /\ status' = Append(status, "open")
        /\ ruled' = Append(ruled, "open") /\ task' = [task EXCEPT ![w] = new]
    BY <1>1, <1>4 DEF Open
  <2>4. /\ owner' \in [1..n + 1 -> Users]
        /\ status' \in [1..n + 1 -> Statuses] /\ ruled' \in [1..n + 1 -> Statuses]
        /\ \A t \in 1..n : status'[t] = status[t] /\ ruled'[t] = ruled[t]
        /\ status'[n + 1] = "open" /\ ruled'[n + 1] = "open"
    <3>1. PICK os \in [1..n -> Users], st \in [1..n -> Statuses], ru \in [1..n -> Statuses] :
              os = owner /\ st = status /\ ru = ruled
      BY <1>1 DEF DeskTables
    <3>2. "open" \in Statuses
      BY DEF Statuses, Allowed
    <3>3. owner' \in [1..n + 1 -> Users]
      BY <1>2, <2>3, <3>1, AppendedRow
    <3>4. /\ status' \in [1..n + 1 -> Statuses] /\ status'[n + 1] = "open"
          /\ \A t \in 1..n : status'[t] = status[t]
      BY <1>2, <2>3, <3>1, <3>2, AppendedRow
    <3>5. /\ ruled' \in [1..n + 1 -> Statuses] /\ ruled'[n + 1] = "open"
          /\ \A t \in 1..n : ruled'[t] = ruled[t]
      BY <1>2, <2>3, <3>1, <3>2, AppendedRow
    <3> QED BY <3>3, <3>4, <3>5
  <2>5. Opened' = 1..n + 1
    BY <2>4 DEF Opened
  <2> HIDE DEF new
  <2>6. task' \in [Workers -> Tasks]
    BY <2>2, <2>3 DEF DeskInv, DeskTypeOK
  <2>7. DeskTypeOK'
    BY <1>4, <2>1, <2>4, <2>6 DEF Open, DeskInv, DeskTypeOK
  <2>8. RulingsStand'
    BY <1>1, <1>2, <1>4, <2>4, <2>5 DEF Open, DeskInv, RulingsStand
  <2>9. ReadIsCurrent'
    <3> SUFFICES ASSUME NEW v \in Workers, Handling(v)'
                 PROVE  /\ task'[v].ticket \in Opened'
                        /\ ~task'[v].stale /\ ~task'[v].ruling => task'[v].status = status'[task'[v].ticket]
      BY DEF ReadIsCurrent
    <3>1. task'[v] = task[v]
      BY <2>2, <2>3 DEF Handling, DeskInv, DeskTypeOK
    <3>2. task[v].ticket \in 1..n
      BY <1>1, <3>1 DEF Handling, DeskInv, ReadIsCurrent
    <3> QED BY <1>2, <2>4, <2>5, <3>1, <3>2 DEF Handling, DeskInv, ReadIsCurrent
  <2> QED BY <2>7, <2>8, <2>9 DEF DeskInv
<1>5. ASSUME NEW w \in Workers, FirstMessage(w) \/ Fail(w) PROVE DeskInv'
  <2>1. /\ task' = [task EXCEPT ![w] = Idle] /\ UNCHANGED <<deleted, owner, status, ruled, muddled, replies>>
        /\ messages' \subseteq Tickets \X Users /\ failures' \in 0..MaxFailures
    <3>1. CASE FirstMessage(w)
      <4>1. task[w].ticket \in Tickets /\ task[w].by \in Users
        BY <3>1, DeskTaskShape DEF FirstMessage, DeskInv
      <4> QED BY <3>1, <4>1 DEF FirstMessage, DeskInv, DeskTypeOK
    <3>2. CASE Fail(w)
      BY <1>2, <3>2 DEF Fail, DeskInv, DeskTypeOK
    <3> QED BY <1>5, <3>1, <3>2
  <2>2. task' \in [Workers -> Tasks] /\ ReadIsCurrent' /\ RulingsStand'
    BY <1>3, <2>1, DeskBegins DEF Idle
  <2> QED BY <2>1, <2>2 DEF DeskInv, DeskTypeOK
<1>6. ASSUME NEW w \in Workers, NEW op \in {"message", "update"}, NEW u \in Users,
             NEW t \in Opened, NEW s \in Statuses \cup {"absent"}, Select(w, op, u, t, s)
      PROVE  DeskInv'
  <2> DEFINE new == [op |-> op, ticket |-> t, by |-> u,
                     status |-> IF Decides(u, s) THEN s ELSE status[t],
                     ruling |-> IsNyxAdmin(u) /\ s # "absent", stale |-> FALSE]
  <2>1. new.status \in Statuses /\ (~new.ruling => new.status = status[t]) /\ new.ruling \in BOOLEAN
    BY <1>1 DEF Decides, DeskTables, IsNyxAdmin
  <2>2. t \in Tickets
    BY <1>1, <1>2 DEF Tickets
  <2>3. new \in Tasks
    BY <2>1, <2>2 DEF Tasks
  <2>4. /\ task' = [task EXCEPT ![w] = new] /\ replies' \in 0..MaxReplies
        /\ UNCHANGED <<deleted, owner, status, messages, ruled, muddled, failures>>
    BY <1>2, <1>6 DEF Select, DeskInv, DeskTypeOK
  <2>5. new.ticket = t
    OBVIOUS
  <2> HIDE DEF new
  <2>6. task' \in [Workers -> Tasks] /\ ReadIsCurrent' /\ RulingsStand'
    BY <2>1, <2>3, <2>4, <2>5, DeskBegins
  <2> QED BY <2>4, <2>6 DEF DeskInv, DeskTypeOK
<1>7. ASSUME NEW w \in Workers, InsertMessage(w) PROVE DeskInv'
  <2>1. PICK old \in Tasks : old = task[w]
    BY DEF DeskInv, DeskTypeOK
  <2> DEFINE new == [old EXCEPT !.op = "update"]
  <2>2. Handling(w) /\ old.op = "message"
    BY <1>7, <2>1 DEF InsertMessage, Handling
  <2>3. /\ new \in Tasks /\ new.ticket = old.ticket /\ new.status = old.status
        /\ new.ruling = old.ruling /\ new.stale = old.stale
    BY <2>2 DEF Tasks, Idle
  <2>4. task' = [task EXCEPT ![w] = new] /\ UNCHANGED <<deleted, owner, status, ruled, muddled, replies, failures>>
    BY <1>7, <2>1 DEF InsertMessage
  <2>5. messages' \subseteq Tickets \X Users
    <3>1. old.ticket \in Tickets /\ old.by \in Users
      BY <2>1, <2>2, DeskTaskShape DEF DeskInv
    <3> QED BY <1>7, <2>1, <3>1 DEF InsertMessage, DeskInv, DeskTypeOK
  <2> HIDE DEF new
  <2>6. task' \in [Workers -> Tasks] /\ ReadIsCurrent' /\ RulingsStand'
    BY <2>1, <2>2, <2>3, <2>4, DeskBegins DEF DeskInv, ReadIsCurrent
  <2> QED BY <2>4, <2>5, <2>6 DEF DeskInv, DeskTypeOK
<1>8. ASSUME NEW w \in Workers, Update(w) PROVE DeskInv'
  <2>1. PICK old \in Tasks : old = task[w]
    BY DEF DeskInv, DeskTypeOK
  <2>2. PICK idle \in [Workers -> Tasks] : idle = [task EXCEPT ![w] = Idle]
    BY <1>3 DEF DeskInv, DeskTypeOK
  <2>3. /\ old.ticket \in Opened /\ old.status \in Statuses /\ old.ruling \in BOOLEAN
        /\ ~old.stale /\ ~old.ruling => old.status = status[old.ticket]
        /\ old.ticket \in Tickets
    BY <1>8, <2>1, DeskTaskShape DEF Update, Handling, DeskInv, ReadIsCurrent
  <2>4. PICK new \in [Opened -> Statuses] : new = [status EXCEPT ![old.ticket] = old.status]
    BY <1>1, <2>3 DEF DeskTables
  <2>5. status' = new /\ task' = Overtaken(idle, new)
    BY <1>8, <2>1, <2>2, <2>4 DEF Update
  <2>6. /\ ruled' = IF old.ruling THEN [ruled EXCEPT ![old.ticket] = old.status] ELSE ruled
        /\ muddled' = IF old.ruling THEN muddled \ {old.ticket}
                      ELSE IF old.stale THEN muddled \cup {old.ticket} ELSE muddled
        /\ UNCHANGED <<deleted, owner, messages, replies, failures>>
    BY <1>8, <2>1, <2>3 DEF Update
  <2>7. task' \in [Workers -> Tasks] /\ ReadIsCurrent'
    <3>1. /\ \A v \in Workers \ {w} : idle[v] = task[v]
          /\ idle[w] = Idle
      BY <2>2 DEF DeskInv, DeskTypeOK
    <3> QED BY <2>5, <2>6, <3>1, DeskOvertakes
  <2>8. DeskTypeOK'
    <3>1. /\ ruled' \in [1..n -> Statuses] /\ status' \in [1..n -> Statuses]
          /\ owner' \in [1..n -> Users]
      BY <1>1, <2>3, <2>5, <2>6 DEF DeskTables
    <3>2. muddled' \subseteq Tickets
      BY <2>3, <2>6 DEF DeskInv, DeskTypeOK
    <3> QED BY <2>6, <2>7, <3>1, <3>2 DEF DeskInv, DeskTypeOK
  <2>9. RulingsStand'
    <3> SUFFICES ASSUME NEW t \in Opened, t \notin muddled' PROVE new[t] = ruled'[t]
      BY <2>5, <2>6 DEF RulingsStand, Opened
    <3>1. t \notin muddled => status[t] = ruled[t]
      BY DEF DeskInv, RulingsStand
    <3>2. CASE t = old.ticket
      BY <1>1, <2>3, <2>4, <2>6, <3>1, <3>2 DEF DeskTables
    <3>3. CASE t # old.ticket
      BY <1>1, <2>3, <2>4, <2>6, <3>1, <3>3 DEF DeskTables
    <3> QED BY <3>2, <3>3
  <2> QED BY <2>7, <2>8, <2>9 DEF DeskInv
<1>9. ASSUME NEW w \in Workers, NEW u \in Users, DeleteAccount(w, u) PROVE DeskInv'
  <2>1. PICK new \in [Opened -> Statuses] : new = ClosedOf(u)
    BY <1>1 DEF ClosedOf, DeskTables, Statuses, Allowed
  <2>2. PICK t \in [Workers -> Tasks] : t = task
    BY DEF DeskInv, DeskTypeOK
  <2>3. /\ status' = new /\ task' = Overtaken(t, new)
        /\ ruled' = [k \in Opened |-> IF owner[k] = u THEN "closed" ELSE ruled[k]]
        /\ muddled' = {k \in muddled : owner[k] # u} /\ deleted' = deleted \cup {u}
        /\ UNCHANGED <<owner, messages, replies, failures>>
    BY <1>9, <2>1, <2>2 DEF DeleteAccount
  <2>4. task' \in [Workers -> Tasks] /\ ReadIsCurrent'
    BY <2>2, <2>3, DeskOvertakes
  <2>5. DeskTypeOK'
    <3>1. /\ ruled' \in [1..n -> Statuses] /\ status' \in [1..n -> Statuses]
          /\ owner' \in [1..n -> Users]
      BY <1>1, <2>3 DEF DeskTables, Statuses, Allowed
    <3> QED BY <2>3, <2>4, <3>1 DEF DeskInv, DeskTypeOK
  <2>6. RulingsStand'
    <3> SUFFICES ASSUME NEW k \in Opened, k \notin muddled' PROVE new[k] = ruled'[k]
      BY <2>3 DEF RulingsStand, Opened
    <3>1. k \notin muddled => status[k] = ruled[k]
      BY DEF DeskInv, RulingsStand
    <3> QED BY <2>1, <2>3, <3>1 DEF ClosedOf
  <2> QED BY <2>4, <2>5, <2>6 DEF DeskInv
<1>10. CASE UNCHANGED deskVars
  BY <1>10 DEF deskVars, DeskInv, DeskTypeOK, ReadIsCurrent, RulingsStand, Handling, Opened
<1>11. ASSUME NEW w \in Workers, NEW u \in Users, NEW t \in Opened,
              NEW s \in Statuses \cup {"absent"}, Reply(w, u, t, s) \/ Patch(w, u, t, s)
       PROVE  DeskInv'
  BY <1>6, <1>11 DEF Reply, Patch
<1> QED
  BY <1>4, <1>5, <1>7, <1>8, <1>9, <1>10, <1>11 DEF DeskNext

LEMMA DeskInvariant == DeskSpec => []DeskInv
<1>1. DeskInit => DeskInv
  <2> SUFFICES ASSUME DeskInit PROVE DeskInv
    OBVIOUS
  <2>1. DeskTypeOK
    <3>1. /\ 0 \in 0..MaxTickets /\ owner \in [1..0 -> Users]
          /\ status \in [1..0 -> Statuses] /\ ruled \in [1..0 -> Statuses]
      BY DeskBoundAssumption DEF DeskInit
    <3> QED BY <3>1, DeskBoundAssumption DEF DeskInit, DeskTypeOK, Tasks
  <2> QED BY <2>1 DEF DeskInit, DeskInv, ReadIsCurrent, RulingsStand, Handling, Idle, Opened
<1> QED BY <1>1, DeskStep, PTL DEF DeskSpec

\* Every variable of the support desk keeps its type.
THEOREM DeskTypeCorrect == DeskSpec => []DeskTypeOK
<1>1. DeskInv => DeskTypeOK
  BY DEF DeskInv
<1> QED BY <1>1, DeskInvariant, PTL

\* For every number of workers, users and tickets, a status decided by the
\* administrator or by the deletion of the account is changed by no message,
\* except where a handler writes back what it read before (support.js:75).
THEOREM RulingsPersist == DeskSpec => []RulingsStand
<1>1. DeskInv => RulingsStand
  BY DEF DeskInv
<1> QED BY <1>1, DeskInvariant, PTL

=============================================================================
