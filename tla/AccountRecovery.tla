-------------------------- MODULE AccountRecovery --------------------------
(***************************************************************************)
(* Signing in and getting an account back: login, recover/challenge and     *)
(* recover/verify of routes/auth.js, among the renames and deletions of     *)
(* routes/users.js, which let names change hands at any time.              *)
(*                                                                         *)
(* A user stands for a person, the account he registered and the key pair   *)
(* of his seed phrase: he can sign with that key only, and he picks the     *)
(* passwords.  Registration itself is in UsernameMarket.                   *)
(***************************************************************************)
EXTENDS Naturals, FiniteSets

CONSTANTS
    Workers,     \* API processes
    Users,       \* users.id
    Nobody,      \* no user
    Names,       \* usernames
    NoName,      \* the replaced username of a deleted account
    Words,       \* what passwords are made of
    Absent,      \* a request without newPassword ...
    TooShort,    \* ... or with one of less than 8 characters
    MaxNonces,   \* bound: challenges ever issued
    MaxLogins    \* bound: logins waiting for bcrypt at once

ASSUME NobodyAssumption == Nobody \notin Users
ASSUME NameAssumption == NoName \notin Names
ASSUME WordAssumption == Absent \notin Words /\ TooShort \notin Words
ASSUME BoundAssumption == {MaxNonces, MaxLogins} \subseteq Nat

Nonces == 1..MaxNonces
NoNonce == 0

VARIABLES
    name,       \* users.username
    password,   \* users.password_hash: whose password, made of which word
    challenge,  \* table recovery_challenges: the nonce of a name, or NoNonce
    expired,    \* nonces whose expires_at has passed
    task,       \* task[w]: the handler worker w is in the middle of
    comparing,  \* logins that wait for bcrypt.compare
    tokens,     \* tokens issued: who holds it, and whose account it is for
    issued,     \* issued[k]: who was handed nonce k, and for which name
    nextNonce,  \* number of the next random nonce
    spent,      \* history: nonces whose signature was accepted
    raced       \* history: have two handlers ever overlapped?

rows == <<name, password, challenge>>
history == <<spent, raced>>
vars == <<rows, expired, task, comparing, tokens, issued, nextNonce, history>>

-----------------------------------------------------------------------------

Ops == {"idle", "issue", "check", "spend", "store"}
Idle == [op |-> "idle", by |-> Nobody, acct |-> Nobody, name |-> NoName,
         nonce |-> NoNonce, new |-> Absent]
NotIssued == [by |-> Nobody, name |-> NoName]

\* A handler that asks for a challenge looks at no account; one that verifies
\* has read one.
Task == [op: Ops, by: Users \cup {Nobody}, acct: Users \cup {Nobody},
         name: Names \cup {NoName}, nonce: Nonces \cup {NoNonce},
         new: Words \cup {Absent, TooShort}]

TypeOK ==
    /\ name \in [Users -> Names \cup {NoName}]
    /\ password \in [Users -> [by: Users, word: Words]]
    /\ challenge \in [Names -> Nonces \cup {NoNonce}]
    /\ expired \subseteq Nonces
    /\ task \in [Workers -> Task]
    /\ \A w \in Workers :
          /\ task[w].op # "idle" => task[w].by \in Users /\ task[w].name \in Names
          /\ task[w].op \in {"check", "spend", "store"} =>
                task[w].acct \in Users /\ task[w].nonce \in Nonces
          /\ task[w].op = "store" => task[w].new \in Words
    /\ comparing \subseteq [at: Workers, by: Users, acct: Users, matches: BOOLEAN]
    /\ tokens \subseteq [holder: Users, of: Users]
    /\ issued \in [Nonces -> [by: Users, name: Names] \cup {NotIssued}]
    /\ nextNonce \in 1..MaxNonces + 1
    /\ spent \subseteq Nonces
    /\ raced \in BOOLEAN

\* Everybody has registered, with a password and a name of his own.
Init ==
    /\ name \in [Users -> Names]
    /\ \A u, v \in Users : name[u] = name[v] => u = v
    /\ password \in {[u \in Users |-> [by |-> u, word |-> x]] : x \in Words}
    /\ challenge = [n \in Names |-> NoNonce]
    /\ expired = {}
    /\ task = [w \in Workers |-> Idle]
    /\ comparing = {}
    /\ tokens = {[holder |-> u, of |-> u] : u \in Users}
    /\ issued = [k \in Nonces |-> NotIssued]
    /\ nextNonce = 1
    /\ spent = {}
    /\ raced = FALSE

-----------------------------------------------------------------------------

Ready(w) == task[w] = Idle

\* SELECT * FROM users WHERE username = ? finds u.
Bears(u, n) == name[u] = n

\* Worker w has read what it needs for a request and goes on with task t.
Begin(w, t) ==
    /\ Ready(w)
    /\ task' = [task EXCEPT ![w] = t]
    /\ raced' = (raced \/ \E x \in Workers \ {w} : ~Ready(x))
    /\ UNCHANGED <<rows, expired, comparing, tokens, issued, nextNonce, spent>>

Goto(w, op) == task' = [task EXCEPT ![w].op = op]
Finish(w) == task' = [task EXCEPT ![w] = Idle]

Token(p, u) == [holder |-> p, of |-> u]

-----------------------------------------------------------------------------
(* POST /login: the account is read, bcrypt.compare waits while the worker  *)
(* serves others, and the token is made from the account read before.      *)

LoginRead(w, p, n, word) ==
    /\ Ready(w)
    /\ Cardinality(comparing) < MaxLogins
    /\ \E u \in Users :
          /\ Bears(u, n)
          /\ comparing' = comparing \cup
                {[at |-> w, by |-> p, acct |-> u,
                  matches |-> password[u] = [by |-> p, word |-> word]]}
    /\ UNCHANGED <<rows, expired, task, tokens, issued, nextNonce, history>>

LoginDone(l) ==
    /\ Ready(l.at)
    /\ comparing' = comparing \ {l}
    /\ tokens' = IF l.matches THEN tokens \cup {Token(l.by, l.acct)} ELSE tokens
    /\ UNCHANGED <<rows, expired, task, issued, nextNonce, history>>

-----------------------------------------------------------------------------
(* POST /recover/challenge: anybody may ask, for any name that exists.      *)

AskChallenge(w, p, n) ==
    /\ \E u \in Users : Bears(u, n)
    /\ nextNonce <= MaxNonces
    /\ Begin(w, [op |-> "issue", by |-> p, acct |-> Nobody, name |-> n, nonce |-> NoNonce,
                 new |-> Absent])

\* INSERT ... ON CONFLICT(username) DO UPDATE: the last nonce replaces others.
IssueChallenge(w) ==
    /\ task[w].op = "issue"
    /\ nextNonce <= MaxNonces
    /\ challenge' = [challenge EXCEPT ![task[w].name] = nextNonce]
    /\ issued' = [issued EXCEPT ![nextNonce] = [by |-> task[w].by, name |-> task[w].name]]
    /\ nextNonce' = nextNonce + 1
    /\ Finish(w)
    /\ UNCHANGED <<name, password, expired, comparing, tokens, history>>

-----------------------------------------------------------------------------
(* POST /recover/verify.                                                   *)

\* A client signs a nonce it was handed and sends it with a name, perhaps not
\* the one it asked for and perhaps twice; the handler reads the account.
Verify(w, p, n, k, new) ==
    /\ issued[k].by = p
    /\ \E u \in Users :
          /\ Bears(u, n)
          /\ Begin(w, [op |-> "check", by |-> p, acct |-> u, name |-> n, nonce |-> k,
                       new |-> new])

\* nacl.sign.detached.verify: the stored nonce, signed by the account's key.
Proves_AsSent(t) == t.by = t.acct
Proves(t) == t.by = t.acct /\ challenge[t.name] = t.nonce

\* It reads the challenge and verifies the signature.
CheckSignature(w) ==
    LET t == task[w] IN
    /\ t.op = "check"
    /\ IF challenge[t.name] # NoNonce /\ challenge[t.name] \notin expired /\ Proves(t)
         THEN Goto(w, "spend")
         ELSE Finish(w)
    /\ UNCHANGED <<rows, expired, comparing, tokens, issued, nextNonce, history>>

\* DELETE FROM recovery_challenges WHERE username = ?.  Only then the handler
\* looks at the new password: one that is too short costs the challenge.
Spent(n) == [challenge EXCEPT ![n] = NoNonce]
SpendChallenge(w) ==
    LET t == task[w] IN
    /\ t.op = "spend"
    /\ challenge' = Spent(t.name)
    /\ spent' = spent \cup {t.nonce}
    /\ IF t.new \in Words THEN Goto(w, "store") ELSE Finish(w)
    /\ tokens' = IF t.new = Absent THEN tokens \cup {Token(t.by, t.acct)} ELSE tokens
    /\ UNCHANGED <<name, password, expired, comparing, issued, nextNonce, raced>>

\* UPDATE users SET password_hash = ? WHERE id = ?, whatever the account is
\* called by now.
Rewritten_ByName(t) ==
    [u \in Users |-> IF Bears(u, t.name) THEN [by |-> t.by, word |-> t.new] ELSE password[u]]
Rewritten(t) == [password EXCEPT ![t.acct] = [by |-> t.by, word |-> t.new]]
StorePassword(w) ==
    LET t == task[w] IN
    /\ t.op = "store"
    /\ password' = Rewritten(t)
    /\ tokens' = tokens \cup {Token(t.by, t.acct)}
    /\ Finish(w)
    /\ UNCHANGED <<name, challenge, expired, comparing, issued, nextNonce, history>>

-----------------------------------------------------------------------------
(* Names change hands, time passes, workers die.                           *)

Authorised(p, u) == Token(p, u) \in tokens

\* PATCH /me/username; UNIQUE repeats the test of its SELECT.  Challenges
\* stay where they are.
Rename(w, p, u, n) ==
    /\ Ready(w)
    /\ Authorised(p, u)
    /\ \A v \in Users : ~Bears(v, n)
    /\ name' = [name EXCEPT ![u] = n]
    /\ UNCHANGED <<password, challenge, expired, task, comparing, tokens, issued,
                   nextNonce, history>>

\* POST /me/delete, a transaction; nobody asks for the name it leaves behind.
Delete(w, p, u) ==
    /\ Ready(w)
    /\ Authorised(p, u)
    /\ name[u] # NoName
    /\ name' = [name EXCEPT ![u] = NoName]
    /\ UNCHANGED <<password, challenge, expired, task, comparing, tokens, issued,
                   nextNonce, history>>

Expire(k) ==
    /\ k < nextNonce
    /\ k \notin expired
    /\ expired' = expired \cup {k}
    /\ UNCHANGED <<rows, task, comparing, tokens, issued, nextNonce, history>>

\* A worker is killed; what it was doing is lost.
Crash(w) ==
    /\ Finish(w)
    /\ comparing' = {l \in comparing : l.at # w}
    /\ UNCHANGED <<rows, expired, tokens, issued, nextNonce, history>>

Requests(w) ==
    \/ \E p \in Users, n \in Names :
          \/ AskChallenge(w, p, n)
          \/ \E x \in Words : LoginRead(w, p, n, x)
          \/ \E k \in Nonces, x \in Words \cup {Absent, TooShort} : Verify(w, p, n, k, x)
    \/ \E p, u \in Users : Delete(w, p, u) \/ \E n \in Names : Rename(w, p, u, n)

Steps(w) ==
    IssueChallenge(w) \/ CheckSignature(w) \/ SpendChallenge(w) \/ StorePassword(w)

Next ==
    \/ \E w \in Workers : Requests(w) \/ Steps(w) \/ Crash(w)
    \/ \E l \in comparing : LoginDone(l)
    \/ \E k \in Nonces : Expire(k)

Spec == Init /\ [][Next]_vars

-----------------------------------------------------------------------------
(* Properties.                                                             *)

\* Nobody but its owner gets into an account: its password is always one he
\* chose, and only he holds tokens for it, although its name, which login and
\* recovery start from, may belong to somebody else by the time they finish.
AccountsAreTheirs ==
    /\ \A u \in Users : password[u].by = u
    /\ \A t \in tokens : t.holder = t.of

\* A nonce whose signature was accepted is never in the table again, so that a
\* request that comes later, or a second time, is refused.
SpentNonceIsGone == \A n \in Names : challenge[n] \notin spent

\* "One-time nonce" (auth.js): as long as handlers do not overlap, what a handler
\* accepts is the last nonce issued for that name, and for the first time.
OneTimeNonce ==
    ~raced => \A w \in Workers : task[w].op = "spend" =>
        /\ task[w].nonce \notin spent
        /\ challenge[task[w].name] = task[w].nonce

=============================================================================
