----------------------------- MODULE ApiProcess -----------------------------
(***************************************************************************)
(* The life of one API process (index.js): it binds its port, serves        *)
(* connections behind the write limiter (infra/security.js), and ends by    *)
(* draining them (infra/shutdown.js), by the forced exit, or killed; PM2    *)
(* starts it again.                                                         *)
(*                                                                         *)
(* Handlers are the subject of the other modules; here a request is busy    *)
(* until it is answered, or stuck when its promise was rejected and nobody  *)
(* will answer.  Node's http server is external (version 20, Dockerfile):   *)
(* close() refuses new connections, closes the idle ones, lets the others   *)
(* and all WebSockets live, and calls back when there are none.             *)
(***************************************************************************)
EXTENDS Integers, Sequences, FiniteSets

CONSTANTS
    Clients,      \* programs that hold at most one connection to this process
    Addresses,    \* their IP addresses
    AddressOf,    \* AddressOf[c]: clients may share one
    MaxWrites,    \* ANTISPAM_MAX_WRITES
    Window,       \* ANTISPAM_WINDOW_MS
    Stores,       \* which of "redis", "subscriber", "pool" are configured
    MaxClock,     \* bound: the clock
    MaxArrivals,  \* bound: writes per address and life of the process
    MaxStarts     \* bound: starts of the process

ASSUME AddressAssumption == AddressOf \in [Clients -> Addresses]
ASSUME LimitAssumption == MaxWrites \in Nat /\ Window \in Nat \ {0}
ASSUME StoreAssumption == Stores \subseteq {"redis", "subscriber", "pool"}
ASSUME BoundAssumption == {MaxClock, MaxArrivals, MaxStarts} \subseteq Nat

VARIABLES
    clock,         \* Date.now(), taken never to step back
    buckets,       \* memoryBuckets: the arrivals whose time stamps are kept
    arrivals,      \* history: the writes of this life by address, and the verdicts
    life,          \* what the process is doing
    shuttingDown,
    conn,          \* conn[c]: the connection of client c
    held,          \* clients of Redis and Postgres not yet let go
    exitCode,      \* of the last life
    cut,           \* history: the clients whom the last exit cut off
    starts

limiter == <<buckets, arrivals>>
vars == <<clock, limiter, life, shuttingDown, conn, held, exitCode, cut, starts>>

Alive == life # "down"

TypeOK ==
    /\ clock \in Nat
    /\ buckets \in [Addresses -> SUBSET Nat]
    /\ arrivals \in [Addresses -> Seq([at: Nat, ok: BOOLEAN])]
    /\ life \in {"down", "starting", "serving", "closing", "redis", "subscriber", "pool"}
    /\ shuttingDown \in BOOLEAN
    /\ conn \in [Clients -> {"none", "idle", "busy", "stuck", "socket"}]
    /\ held \subseteq Stores
    /\ exitCode \in {"none", "clean", "forced", "killed"}
    /\ cut \subseteq Clients
    /\ starts \in Nat

Nobody == [c \in Clients |-> "none"]
NoArrivals == [a \in Addresses |-> <<>>]
EmptyBuckets == [a \in Addresses |-> {}]

Init ==
    /\ clock = 0
    /\ buckets = EmptyBuckets
    /\ arrivals = NoArrivals
    /\ life = "starting"
    /\ shuttingDown = FALSE
    /\ conn = Nobody
    /\ held = Stores
    /\ exitCode = "none"
    /\ cut = {}
    /\ starts = 1

-----------------------------------------------------------------------------
(* The write limiter.  It stands before requireAuth, so req.userId is never  *)
(* set and the key is the address.  A kept time stamp is named by its        *)
(* arrival, since two may be equal.                                          *)

InWindow(at, now) == now - at < Window

Fresh(a) == {n \in buckets[a] : InWindow(arrivals[a][n].at, clock)} \cup {Len(arrivals[a]) + 1}

Admits(kept) == Cardinality(kept) <= MaxWrites

\* memoryBuckets.set: refused writes are kept as well.
Kept_AdmittedOnly(kept) ==
    IF Cardinality(kept) <= MaxWrites THEN kept ELSE {n \in kept : \E m \in kept : n < m}
Kept(kept) == kept

Verdict(a) == Admits(Fresh(a))

Count(a) ==
    /\ buckets' = [buckets EXCEPT ![a] = Kept(Fresh(a))]
    /\ arrivals' = [arrivals EXCEPT ![a] = Append(@, [at |-> clock, ok |-> Verdict(a)])]

-----------------------------------------------------------------------------
(* Connections and requests.                                                *)

\* A TCP connection, or one upgraded to a WebSocket, on which events follow
\* that no limiter counts.
Connect(c, as) ==
    /\ life = "serving"
    /\ conn[c] = "none"
    /\ conn' = [conn EXCEPT ![c] = as]
    /\ UNCHANGED <<clock, limiter, life, shuttingDown, held, exitCode, cut, starts>>

\* POST, PUT, PATCH, DELETE: admitted to a handler, or answered 429 at once.
Write(c) ==
    LET a == AddressOf[c] IN
    /\ Alive
    /\ conn[c] = "idle"
    /\ Len(arrivals[a]) < MaxArrivals
    /\ Count(a)
    /\ conn' = [conn EXCEPT ![c] = IF Verdict(a) THEN "busy" ELSE "idle"]
    /\ UNCHANGED <<clock, life, shuttingDown, held, exitCode, cut, starts>>

\* GET and the like pass the limiter.
Read(c) ==
    /\ Alive
    /\ conn[c] = "idle"
    /\ conn' = [conn EXCEPT ![c] = "busy"]
    /\ UNCHANGED <<clock, limiter, life, shuttingDown, held, exitCode, cut, starts>>

\* The handler answers (errorHandler does for one that throws); the connection
\* is kept alive or not.
Answer(c) ==
    /\ Alive
    /\ conn[c] = "busy"
    /\ \E next \in {"idle", "none"} : conn' = [conn EXCEPT ![c] = next]
    /\ UNCHANGED <<clock, limiter, life, shuttingDown, held, exitCode, cut, starts>>

\* unhandledRejection is logged: the process lives, the client waits.
Reject(c) ==
    /\ Alive
    /\ conn[c] = "busy"
    /\ conn' = [conn EXCEPT ![c] = "stuck"]
    /\ UNCHANGED <<clock, limiter, life, shuttingDown, held, exitCode, cut, starts>>

\* The client closes the connection, or keepAliveTimeout an idle one.  A handler
\* it leaves behind goes on alone; nobody waits for it.
Leave(c) ==
    /\ conn[c] # "none"
    /\ conn' = [conn EXCEPT ![c] = "none"]
    /\ UNCHANGED <<clock, limiter, life, shuttingDown, held, exitCode, cut, starts>>

-----------------------------------------------------------------------------
(* The process.                                                             *)

Listening ==
    /\ life = "starting"
    /\ ~shuttingDown
    /\ life' = "serving"
    /\ UNCHANGED <<clock, limiter, shuttingDown, conn, held, exitCode, cut, starts>>

\* server.close: a server that does not listen calls back at once.
Close ==
    IF life = "serving"
      THEN /\ life' = "closing"
           /\ conn' = [c \in Clients |-> IF conn[c] = "idle" THEN "none" ELSE conn[c]]
      ELSE /\ life' = "redis"
           /\ UNCHANGED conn

\* if (shuttingDown) return
MayShutDown_Always == life \in {"starting", "serving", "closing"}
MayShutDown == ~shuttingDown

\* SIGTERM, SIGINT, or an uncaught exception: of a socket event, of a callback,
\* of listen() when the port is taken.
Shutdown ==
    /\ Alive
    /\ MayShutDown
    /\ shuttingDown' = TRUE
    /\ Close
    /\ UNCHANGED <<clock, limiter, held, exitCode, cut, starts>>

\* server.close calls back.
Drained == \A c \in Clients : conn[c] = "none"
Closed ==
    /\ life = "closing"
    /\ Drained
    /\ life' = "redis"
    /\ UNCHANGED <<clock, limiter, shuttingDown, conn, held, exitCode, cut, starts>>

\* The process is gone and what was in its memory with it.
Ends(code) ==
    /\ life' = "down"
    /\ exitCode' = code
    /\ cut' = {c \in Clients : conn[c] # "none"}
    /\ conn' = Nobody
    /\ shuttingDown' = FALSE
    /\ UNCHANGED <<clock, limiter, held, starts>>

\* await redis.quit(), which disconnects when it is rejected; it never settles
\* while Redis is away.
QuitRedis ==
    /\ life = "redis"
    /\ life' = "subscriber"
    /\ held' = held \ {"redis"}
    /\ UNCHANGED <<clock, limiter, shuttingDown, conn, exitCode, cut, starts>>

QuitSubscriber ==
    /\ life = "subscriber"
    /\ life' = "pool"
    /\ held' = held \ {"subscriber"}
    /\ UNCHANGED <<clock, limiter, shuttingDown, conn, exitCode, cut, starts>>

\* await pool.end(): its failure is logged, and process.exit(0) follows anyway.
EndPool ==
    /\ life = "pool"
    /\ "pool" \in held
    /\ held' = held \ {"pool"}
    /\ UNCHANGED <<clock, limiter, life, shuttingDown, conn, exitCode, cut, starts>>

Exit ==
    /\ life = "pool"
    /\ Ends("clean")

\* The timer of FORCE_SHUTDOWN_MS.  It is not compared with the limiter's
\* window: the clock may stand anywhere when it fires.
TimerArmed_WhenClosed == shuttingDown /\ life # "closing"
TimerArmed == shuttingDown
ForceExit ==
    /\ Alive
    /\ TimerArmed
    /\ Ends("forced")

\* SIGKILL, out of memory.
Kill ==
    /\ Alive
    /\ Ends("killed")

\* PM2 starts the process again, with an empty memory.
Restart ==
    /\ life = "down"
    /\ starts < MaxStarts
    /\ starts' = starts + 1
    /\ life' = "starting"
    /\ buckets' = EmptyBuckets
    /\ arrivals' = NoArrivals
    /\ held' = Stores
    /\ exitCode' = "none"
    /\ cut' = {}
    /\ UNCHANGED <<clock, shuttingDown, conn>>

Tick ==
    /\ clock < MaxClock
    /\ clock' = clock + 1
    /\ UNCHANGED <<limiter, life, shuttingDown, conn, held, exitCode, cut, starts>>

Traffic ==
    \E c \in Clients :
        \/ \E as \in {"idle", "socket"} : Connect(c, as)
        \/ Write(c) \/ Read(c) \/ Answer(c) \/ Reject(c) \/ Leave(c)

Process ==
    \/ Listening \/ Shutdown \/ Closed
    \/ QuitRedis \/ QuitSubscriber \/ EndPool \/ Exit
    \/ ForceExit \/ Kill \/ Restart

Next == Traffic \/ Process \/ Tick

Spec == Init /\ [][Next]_vars

\* Node runs a timer that is due and the code after an await that has settled.
\* That an await settles, that clients leave or handlers answer is not assumed.
FairSpec == Spec /\ WF_vars(ForceExit)

-----------------------------------------------------------------------------
(* Properties.                                                             *)

\* The limiter, which keeps no more than a pruned list per address, decides
\* as if it remembered every write of its life: one is admitted exactly if it is
\* among the first MaxWrites within the Window that ends with it, refused
\* writes counted (security.js:37).
DecisionsAreExact ==
    \A a \in Addresses : \A n \in 1..Len(arrivals[a]) :
        arrivals[a][n].ok <=>
            Cardinality({m \in 1..n : arrivals[a][n].at - arrivals[a][m].at < Window})
                <= MaxWrites

\* Exit code 0 means what "Graceful shutdown finished" says: nobody was cut off,
\* and Redis was let go (shutdown.js:22).  Signals come twice, exceptions during
\* the draining, and requests on connections that live on.
CleanExit ==
    exitCode = "clean" => cut = {} /\ held \subseteq {"pool"}

\* A process asked to end does end, although sockets stay, requests are stuck
\* and Redis is away (shutdown.js:26).
AlwaysEnds == shuttingDown ~> ~Alive

=============================================================================
