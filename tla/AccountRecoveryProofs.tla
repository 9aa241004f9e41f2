----------------------- MODULE AccountRecoveryProofs -----------------------
(***************************************************************************)
(* Theorems about AccountRecovery for every set of workers, users, names    *)
(* and words and all bounds.                                               *)
(***************************************************************************)
EXTENDS AccountRecovery, TLAPS

-----------------------------------------------------------------------------
(* The type invariant.                                                     *)

LEMMA IdleType == Idle \in Task /\ Idle.op = "idle" /\ Idle.new = Absent
  BY DEF Idle, Task, Ops

\* What a request may make its worker's task: a challenge is asked for, or an
\* account has been read.
Asked(t) ==
    \E p \in Users, n \in Names :
        t = [op |-> "issue", by |-> p, acct |-> Nobody, name |-> n, nonce |-> NoNonce,
             new |-> Absent]
Received(t) ==
    \E p, u \in Users, n \in Names, k \in Nonces, x \in Words \cup {Absent, TooShort} :
        t = [op |-> "check", by |-> p, acct |-> u, name |-> n, nonce |-> k, new |-> x]

LEMMA NewTasks ==
    ASSUME NEW t, Asked(t) \/ Received(t)
    PROVE  /\ t \in Task
           /\ t.op \in {"issue", "check"}
           /\ t.by \in Users /\ t.name \in Names
           /\ t.op = "check" => t.acct \in Users /\ t.nonce \in Nonces
  <1>1. ASSUME NEW p \in Users, NEW n \in Names,
               t = [op |-> "issue", by |-> p, acct |-> Nobody, name |-> n, nonce |-> NoNonce,
                    new |-> Absent]
        PROVE  /\ t \in Task
               /\ t.op = "issue" /\ t.by \in Users /\ t.name \in Names
    BY <1>1 DEF Task, Ops
  <1>2. ASSUME NEW p \in Users, NEW u \in Users, NEW n \in Names, NEW k \in Nonces,
               NEW x \in Words \cup {Absent, TooShort},
               t = [op |-> "check", by |-> p, acct |-> u, name |-> n, nonce |-> k, new |-> x]
        PROVE  /\ t \in Task
               /\ t.op = "check" /\ t.by \in Users /\ t.name \in Names
               /\ t.acct \in Users /\ t.nonce \in Nonces
    BY <1>2 DEF Task, Ops
  <1> QED
    BY <1>1, <1>2 DEF Asked, Received

\* A handler goes on to its next statement, or ends; the others stay where
\* they are.
LEMMA Moves ==
    ASSUME TypeOK, NEW w \in Workers, NEW op \in Ops, Goto(w, op)
    PROVE  /\ task' \in [Workers -> Task]
           /\ \A x \in Workers \ {w} : task'[x] = task[x]
           /\ task'[w].op = op
           /\ task'[w].by = task[w].by /\ task'[w].acct = task[w].acct
           /\ task'[w].name = task[w].name /\ task'[w].nonce = task[w].nonce
           /\ task'[w].new = task[w].new
  <1>1. task[w] \in Task
    BY DEF TypeOK
  <1>2. [task[w] EXCEPT !.op = op] \in Task
    BY <1>1 DEF Task
  <1>3. task' = [task EXCEPT ![w] = [task[w] EXCEPT !.op = op]]
    BY DEF Goto
  <1> QED
    BY <1>1, <1>2, <1>3 DEF TypeOK, Task

LEMMA Ends ==
    ASSUME TypeOK, NEW w \in Workers, Finish(w)
    PROVE  /\ task' \in [Workers -> Task]
           /\ \A x \in Workers \ {w} : task'[x] = task[x]
           /\ task'[w] = Idle
  BY IdleType DEF TypeOK, Finish

\* The requests of a worker are of three kinds.
Renames == \E u \in Users, n \in Names \cup {NoName} : name' = [name EXCEPT ![u] = n]
Compares(w, p, u, b) ==
    /\ b => password[u].by = p
    /\ comparing' = comparing \cup {[at |-> w, by |-> p, acct |-> u, matches |-> b]}
LEMMA RequestShape ==
    ASSUME TypeOK, NEW w \in Workers, Requests(w)
    PROVE  /\ Ready(w)
           /\ UNCHANGED <<password, challenge, expired, tokens, issued, nextNonce, spent>>
           /\ \/ /\ \E t : (Asked(t) \/ Received(t)) /\ Begin(w, t)
                 /\ UNCHANGED <<name, comparing>>
              \/ /\ \E p, u \in Users, b \in BOOLEAN : Compares(w, p, u, b)
                 /\ UNCHANGED <<name, task, raced>>
              \/ Renames /\ UNCHANGED <<comparing, task, raced>>
  <1>1. ASSUME NEW p \in Users, NEW n \in Names, AskChallenge(w, p, n)
        PROVE  /\ \E t : (Asked(t) \/ Received(t)) /\ Begin(w, t)
               /\ Ready(w)
               /\ UNCHANGED <<name, password, challenge, expired, comparing, tokens, issued,
                              nextNonce, spent>>
    BY <1>1 DEF AskChallenge, Asked, Begin, rows
  <1>2. ASSUME NEW p \in Users, NEW n \in Names, NEW k \in Nonces,
               NEW x \in Words \cup {Absent, TooShort}, Verify(w, p, n, k, x)
        PROVE  /\ \E t : (Asked(t) \/ Received(t)) /\ Begin(w, t)
               /\ Ready(w)
               /\ UNCHANGED <<name, password, challenge, expired, comparing, tokens, issued,
                              nextNonce, spent>>
    <2>1. PICK u \in Users :
              Begin(w, [op |-> "check", by |-> p, acct |-> u, name |-> n, nonce |-> k,
                        new |-> x])
      BY <1>2 DEF Verify
    <2>2. Received([op |-> "check", by |-> p, acct |-> u, name |-> n, nonce |-> k, new |-> x])
      BY DEF Received
    <2> QED
      BY <2>1, <2>2 DEF Begin, rows
  <1>3. ASSUME NEW p \in Users, NEW n \in Names, NEW x \in Words, LoginRead(w, p, n, x)
        PROVE  /\ Ready(w)
               /\ \E u \in Users, b \in BOOLEAN : Compares(w, p, u, b)
               /\ UNCHANGED <<name, password, challenge, expired, task, tokens, issued,
                              nextNonce, spent, raced>>
    <2>1. PICK u \in Users :
              comparing' = comparing \cup
                  {[at |-> w, by |-> p, acct |-> u,
                    matches |-> password[u] = [by |-> p, word |-> x]]}
      BY <1>3 DEF LoginRead
    <2>2. PICK b \in BOOLEAN : b = (password[u] = [by |-> p, word |-> x])
      OBVIOUS
    <2>3. b => password[u].by = p
      <3>1. CASE b
        <4>1. password[u] = [by |-> p, word |-> x]
          BY <2>2, <3>1, Zenon
        <4> QED
          BY <4>1
      <3> QED
        BY <3>1
    <2>4. comparing' = comparing \cup {[at |-> w, by |-> p, acct |-> u, matches |-> b]}
      BY <2>1, <2>2, Zenon
    <2>5. Compares(w, p, u, b)
      BY <2>3, <2>4 DEF Compares
    <2> QED
      BY <1>3, <2>5 DEF LoginRead, rows, history
  <1>4. ASSUME NEW p \in Users, NEW u \in Users,
               Delete(w, p, u) \/ \E n \in Names : Rename(w, p, u, n)
        PROVE  /\ Ready(w)
               /\ Renames
               /\ UNCHANGED <<password, challenge, expired, comparing, task, tokens, issued,
                              nextNonce, spent, raced>>
    BY <1>4 DEF Delete, Rename, Renames, history
  <1> QED
    <2>1. CASE \E p \in Users, n \in Names :
                  \/ AskChallenge(w, p, n)
                  \/ \E k \in Nonces, x \in Words \cup {Absent, TooShort} : Verify(w, p, n, k, x)
      BY <1>1, <1>2, <2>1
    <2>2. CASE \E p \in Users, n \in Names, x \in Words : LoginRead(w, p, n, x)
      BY <1>3, <2>2
    <2>3. CASE \E p, u \in Users : Delete(w, p, u) \/ \E n \in Names : Rename(w, p, u, n)
      BY <1>4, <2>3
    <2> QED
      BY <2>1, <2>2, <2>3 DEF Requests

\* Every action keeps rows, tasks and clients well typed.
LEMMA TypeStep == TypeOK /\ [Next]_vars => TypeOK'
  <1> SUFFICES ASSUME TypeOK, [Next]_vars PROVE TypeOK'
    OBVIOUS
  <1> USE DEF rows, history
  <1>1. CASE UNCHANGED vars
    BY <1>1 DEF vars, TypeOK
  <1>2. ASSUME NEW w \in Workers, Requests(w) PROVE TypeOK'
    <2>1. ASSUME NEW t, Asked(t) \/ Received(t), Begin(w, t), UNCHANGED <<name, comparing>>
          PROVE  TypeOK'
      <3>1. t \in Task /\ t.op # "store" /\ t.by \in Users /\ t.name \in Names
            /\ (t.op \in {"check", "spend", "store"} => t.acct \in Users /\ t.nonce \in Nonces)
        BY <2>1, NewTasks
      <3> QED
        BY <2>1, <3>1 DEF Begin, TypeOK
    <2>2. ASSUME NEW p \in Users, NEW u \in Users, NEW b \in BOOLEAN, Compares(w, p, u, b)
          PROVE  comparing' \subseteq [at: Workers, by: Users, acct: Users, matches: BOOLEAN]
      BY <2>2 DEF Compares, TypeOK
    <2>3. Renames => name' \in [Users -> Names \cup {NoName}]
      BY DEF Renames, TypeOK
    <2>4. CASE \E t : (Asked(t) \/ Received(t)) /\ Begin(w, t) /\ UNCHANGED <<name, comparing>>
      BY <2>1, <2>4
    <2>5. CASE /\ UNCHANGED <<password, challenge, expired, tokens, issued, nextNonce, spent>>
               /\ \E p, u \in Users, b \in BOOLEAN : Compares(w, p, u, b)
               /\ UNCHANGED <<name, task, raced>>
      BY <2>2, <2>5 DEF TypeOK
    <2>6. CASE /\ UNCHANGED <<password, challenge, expired, tokens, issued, nextNonce, spent>>
               /\ Renames /\ UNCHANGED <<comparing, task, raced>>
      BY <2>3, <2>6 DEF TypeOK
    <2> QED
      BY <1>2, <2>4, <2>5, <2>6, RequestShape
  <1>3. ASSUME NEW w \in Workers, Steps(w) PROVE TypeOK'
    <2>1. CASE IssueChallenge(w)
      <3>1. nextNonce \in Nonces /\ nextNonce + 1 \in 1..MaxNonces + 1
        BY <2>1, BoundAssumption DEF IssueChallenge, TypeOK, Nonces
      <3>2. task[w].by \in Users /\ task[w].name \in Names
        BY <2>1 DEF IssueChallenge, TypeOK
      <3> QED
        BY <2>1, <3>1, <3>2, IdleType DEF IssueChallenge, Finish, TypeOK
    <2>2. CASE CheckSignature(w)
      <3>1. CASE Goto(w, "spend")
        BY <2>2, <3>1, Moves DEF CheckSignature, TypeOK, Ops
      <3>2. CASE Finish(w)
        BY <2>2, <3>2, Ends, IdleType DEF CheckSignature, TypeOK
      <3> QED
        BY <2>2, <3>1, <3>2 DEF CheckSignature
    <2>3. CASE SpendChallenge(w)
      <3>2. /\ task[w].by \in Users /\ task[w].acct \in Users
            /\ task[w].nonce \in Nonces /\ task[w].name \in Names
        BY <2>3 DEF SpendChallenge, TypeOK
      <3>4. /\ challenge' \in [Names -> Nonces \cup {NoNonce}]
            /\ spent' \subseteq Nonces
            /\ tokens' \subseteq [holder: Users, of: Users]
        BY <2>3, <3>2 DEF SpendChallenge, Spent, Token, TypeOK
      <3>5. CASE task[w].new \in Words /\ Goto(w, "store")
        BY <2>3, <3>2, <3>4, <3>5, Moves DEF SpendChallenge, TypeOK, Ops
      <3>6. CASE Finish(w)
        BY <2>3, <3>2, <3>4, <3>6, Ends, IdleType DEF SpendChallenge, TypeOK
      <3> QED
        BY <2>3, <3>5, <3>6 DEF SpendChallenge
    <2>4. CASE StorePassword(w)
      <3>1. /\ task[w].by \in Users /\ task[w].acct \in Users /\ task[w].new \in Words
        BY <2>4 DEF StorePassword, TypeOK
      <3> QED
        BY <2>4, <3>1, IdleType DEF StorePassword, Rewritten, Token, Finish, TypeOK
    <2> QED
      BY <1>3, <2>1, <2>2, <2>3, <2>4 DEF Steps
  <1>4. ASSUME NEW w \in Workers, Crash(w) PROVE TypeOK'
    BY <1>4, IdleType DEF Crash, Finish, TypeOK
  <1>5. ASSUME NEW l \in comparing, LoginDone(l) PROVE TypeOK'
    BY <1>5 DEF LoginDone, Token, TypeOK
  <1>6. ASSUME NEW k \in Nonces, Expire(k) PROVE TypeOK'
    BY <1>6 DEF Expire, TypeOK
  <1> QED
    BY <1>1, <1>2, <1>3, <1>4, <1>5, <1>6 DEF Next

LEMMA TypeInit == Init => TypeOK
  <1> SUFFICES ASSUME Init PROVE TypeOK
    OBVIOUS
  <1>1. PICK x \in Words : password = [u \in Users |-> [by |-> u, word |-> x]]
    BY DEF Init
  <1>2. /\ name \in [Users -> Names \cup {NoName}]
        /\ challenge \in [Names -> Nonces \cup {NoNonce}]
        /\ issued \in [Nonces -> [by: Users, name: Names] \cup {NotIssued}]
    BY DEF Init
  <1>3. task \in [Workers -> Task] /\ \A w \in Workers : task[w].op = "idle"
    BY IdleType DEF Init
  <1>4. nextNonce \in 1..MaxNonces + 1
    BY BoundAssumption DEF Init
  <1>5. password \in [Users -> [by: Users, word: Words]]
    BY <1>1
  <1>6. /\ expired \subseteq Nonces
        /\ comparing \subseteq [at: Workers, by: Users, acct: Users, matches: BOOLEAN]
        /\ spent \subseteq Nonces
        /\ raced \in BOOLEAN
    BY DEF Init
  <1>7. tokens \subseteq [holder: Users, of: Users]
    BY DEF Init
  <1> QED
    BY <1>2, <1>3, <1>4, <1>5, <1>6, <1>7 DEF TypeOK

\* Tables, handlers, tokens and nonces are well typed in every reachable state.
THEOREM TypeCorrect == Spec => []TypeOK
  BY TypeInit, TypeStep, PTL DEF Spec

-----------------------------------------------------------------------------
(* Accounts stay their owners'.                                            *)

\* A handler past the signature, and a login whose password matched, work for
\* the owner of the account they read.
OwnerInv ==
    /\ AccountsAreTheirs
    /\ \A w \in Workers : task[w].op \in {"spend", "store"} => task[w].by = task[w].acct
    /\ \A l \in comparing : l.matches => l.by = l.acct

\* The invariant is inductive: the signature, or the password, is compared with
\* the account that was read, and what follows is done to that account.
LEMMA OwnerStep == TypeOK /\ OwnerInv /\ [Next]_vars => OwnerInv'
  <1> SUFFICES ASSUME TypeOK, OwnerInv, [Next]_vars PROVE OwnerInv'
    OBVIOUS
  <1> USE DEF rows, history, AccountsAreTheirs
  <1>1. CASE UNCHANGED vars
    BY <1>1 DEF vars, OwnerInv
  <1>2. ASSUME NEW w \in Workers, Requests(w) PROVE OwnerInv'
    <2>1. ASSUME NEW t, Asked(t) \/ Received(t), Begin(w, t), UNCHANGED <<password, comparing>>
          PROVE  OwnerInv'
      <3>1. t.op \notin {"spend", "store"}
        BY <2>1, NewTasks
      <3> QED
        BY <2>1, <3>1 DEF Begin, OwnerInv, TypeOK
    <2>2. ASSUME NEW p \in Users, NEW u \in Users, NEW b \in BOOLEAN, Compares(w, p, u, b),
                 UNCHANGED <<password, tokens, task>>
          PROVE  OwnerInv'
      <3>1. b => p = u
        BY <2>2 DEF Compares, OwnerInv
      <3>2. \A l \in comparing' : l.matches => l.by = l.acct
        BY <2>2, <3>1 DEF Compares, OwnerInv
      <3> QED
        BY <2>2, <3>2 DEF OwnerInv
    <2>3. CASE UNCHANGED <<password, tokens, comparing, task>>
      BY <2>3 DEF OwnerInv
    <2> QED
      BY <1>2, <2>1, <2>2, <2>3, RequestShape
  <1>3. ASSUME NEW w \in Workers, Steps(w) PROVE OwnerInv'
    <2>1. CASE IssueChallenge(w)
      BY <2>1, IdleType DEF IssueChallenge, Finish, OwnerInv, TypeOK
    <2>2. CASE CheckSignature(w)
      <3>1. CASE Goto(w, "spend") /\ Proves(task[w])
        BY <2>2, <3>1, Moves DEF CheckSignature, Proves, OwnerInv, Ops
      <3>2. CASE Finish(w)
        BY <2>2, <3>2, Ends, IdleType DEF CheckSignature, OwnerInv
      <3> QED
        BY <2>2, <3>1, <3>2 DEF CheckSignature
    <2>3. CASE SpendChallenge(w)
      <3>1. task[w].by = task[w].acct
        BY <2>3 DEF SpendChallenge, OwnerInv
      <3>2. \A t \in tokens' : t.holder = t.of
        BY <2>3, <3>1 DEF SpendChallenge, Token, OwnerInv
      <3>3. CASE Goto(w, "store")
        BY <2>3, <3>1, <3>2, <3>3, Moves DEF SpendChallenge, OwnerInv, Ops
      <3>4. CASE Finish(w)
        BY <2>3, <3>2, <3>4, Ends, IdleType DEF SpendChallenge, OwnerInv
      <3> QED
        BY <2>3, <3>3, <3>4 DEF SpendChallenge
    <2>4. CASE StorePassword(w)
      <3>1. task[w].by = task[w].acct
        BY <2>4 DEF StorePassword, OwnerInv
      <3> QED
        BY <2>4, <3>1, IdleType DEF StorePassword, Rewritten, Token, Finish, OwnerInv, TypeOK
    <2> QED
      BY <1>3, <2>1, <2>2, <2>3, <2>4 DEF Steps
  <1>4. ASSUME NEW w \in Workers, Crash(w) PROVE OwnerInv'
    BY <1>4, IdleType DEF Crash, Finish, OwnerInv, TypeOK
  <1>5. ASSUME NEW l \in comparing, LoginDone(l) PROVE OwnerInv'
    BY <1>5 DEF LoginDone, Token, OwnerInv
  <1>6. ASSUME NEW k \in Nonces, Expire(k) PROVE OwnerInv'
    BY <1>6 DEF Expire, OwnerInv
  <1> QED
    BY <1>1, <1>2, <1>3, <1>4, <1>5, <1>6 DEF Next

LEMMA OwnerInit == Init => OwnerInv
  BY IdleType DEF Init, OwnerInv, AccountsAreTheirs, Token

\* Password and tokens of an account are always its owner's, although names
\* change hands between any two statements.
THEOREM AccountsKept == Spec => []AccountsAreTheirs
  <1>1. OwnerInv => AccountsAreTheirs
    BY DEF OwnerInv
  <1> QED
    BY <1>1, TypeInit, TypeStep, OwnerInit, OwnerStep, PTL DEF Spec

-----------------------------------------------------------------------------
(* Nonces are spent once.                                                  *)

\* Nonces are issued in order and each for one name, in whose row alone it may
\* be; a handler that is about to spend one found it there.
NonceInv ==
    /\ \A n \in Names : challenge[n] # NoNonce =>
          challenge[n] < nextNonce /\ issued[challenge[n]].name = n
    /\ \A k \in spent : k < nextNonce
    /\ \A w \in Workers : task[w].op = "spend" =>
          task[w].nonce < nextNonce /\ issued[task[w].nonce].name = task[w].name
    /\ SpentNonceIsGone

\* The invariant is inductive: the row from which a nonce was accepted is
\* deleted with it, and no other row ever held it.
LEMMA NonceStep == TypeOK /\ NonceInv /\ [Next]_vars => NonceInv'
  <1> SUFFICES ASSUME TypeOK, NonceInv, [Next]_vars PROVE NonceInv'
    OBVIOUS
  <1> USE DEF rows, history, SpentNonceIsGone
  <1>1. CASE UNCHANGED vars
    BY <1>1 DEF vars, NonceInv
  <1>2. ASSUME NEW w \in Workers, Requests(w) PROVE NonceInv'
    <2>1. ASSUME NEW t, Asked(t) \/ Received(t), Begin(w, t)
          PROVE  \A x \in Workers : task'[x].op = "spend" => task'[x] = task[x]
      <3>1. t.op # "spend"
        BY <2>1, NewTasks
      <3> QED
        BY <2>1, <3>1 DEF Begin, TypeOK
    <2> QED
      BY <1>2, <2>1, RequestShape DEF NonceInv
  <1>3. ASSUME NEW w \in Workers, Steps(w) PROVE NonceInv'
    <2>1. CASE IssueChallenge(w)
      <3> DEFINE n == task[w].name
      <3>1. n \in Names /\ nextNonce \in Nonces /\ nextNonce # NoNonce
        BY <2>1 DEF IssueChallenge, TypeOK, Nonces, NoNonce
      <3>2. /\ challenge' = [challenge EXCEPT ![n] = nextNonce]
            /\ issued' = [issued EXCEPT ![nextNonce] = [by |-> task[w].by, name |-> n]]
            /\ nextNonce' = nextNonce + 1
            /\ spent' = spent
        BY <2>1 DEF IssueChallenge
      <3>3. /\ issued'[nextNonce].name = n
            /\ \A k \in Nonces : k < nextNonce => k # nextNonce /\ k < nextNonce' /\ issued'[k] = issued[k]
        BY <3>1, <3>2 DEF TypeOK, Nonces
      <3>4. \A m \in Names : challenge'[m] # NoNonce =>
                challenge'[m] < nextNonce' /\ issued'[challenge'[m]].name = m
        <4> SUFFICES ASSUME NEW m \in Names, challenge'[m] # NoNonce
                     PROVE  challenge'[m] < nextNonce' /\ issued'[challenge'[m]].name = m
          OBVIOUS
        <4>1. CASE m = n
          BY <3>1, <3>2, <3>3, <4>1 DEF TypeOK, Nonces
        <4>2. CASE m # n
          <5>1. challenge'[m] = challenge[m] /\ challenge[m] \in Nonces
            BY <3>2, <4>2 DEF TypeOK
          <5> QED
            BY <3>3, <5>1 DEF NonceInv
        <4> QED
          BY <4>1, <4>2
      <3>5. \A k \in spent' : k < nextNonce'
        BY <3>2, <3>3 DEF NonceInv, TypeOK
      <3>6. \A x \in Workers : task'[x].op = "spend" => task'[x] = task[x]
        BY <2>1, IdleType DEF IssueChallenge, Finish, TypeOK
      <3>7. \A x \in Workers : task'[x].op = "spend" =>
                task'[x].nonce < nextNonce' /\ issued'[task'[x].nonce].name = task'[x].name
        <4> SUFFICES ASSUME NEW x \in Workers, task'[x].op = "spend"
                     PROVE  task'[x].nonce < nextNonce' /\ issued'[task'[x].nonce].name = task'[x].name
          OBVIOUS
        <4>1. task'[x] = task[x] /\ task[x].nonce \in Nonces
          BY <3>6 DEF TypeOK
        <4> QED
          BY <3>3, <4>1 DEF NonceInv
      <3>8. nextNonce \notin spent
        BY <3>1 DEF NonceInv, Nonces
      <3> QED
        BY <3>1, <3>2, <3>4, <3>5, <3>7, <3>8 DEF NonceInv, TypeOK
    <2>2. CASE CheckSignature(w)
      <3>1. ASSUME NEW x \in Workers, task'[x].op = "spend"
            PROVE  \/ task'[x] = task[x]
                   \/ /\ task'[x].nonce = challenge[task'[x].name]
                      /\ task'[x].name \in Names /\ task'[x].nonce # NoNonce
        BY <2>2, <3>1, IdleType DEF CheckSignature, Proves, Goto, Finish, TypeOK, Task
      <3> QED
        BY <2>2, <3>1 DEF CheckSignature, NonceInv
    <2>3. CASE SpendChallenge(w)
      <3> DEFINE t == task[w]
      <3>1. /\ t.name \in Names
            /\ t.nonce \in Nonces
            /\ t.nonce < nextNonce
            /\ issued[t.nonce].name = t.name
        BY <2>3 DEF SpendChallenge, NonceInv, TypeOK
      <3>2. /\ \A n \in Names : challenge'[n] = IF n = t.name THEN NoNonce ELSE challenge[n]
            /\ spent' = spent \cup {t.nonce}
            /\ UNCHANGED <<issued, nextNonce>>
        BY <2>3 DEF SpendChallenge, Spent, TypeOK
      <3>3. \A x \in Workers : task'[x].op = "spend" => task'[x] = task[x]
        BY <2>3, Moves, Ends, IdleType DEF SpendChallenge, Ops
      <3>4. NoNonce \notin spent'
        BY <3>1, <3>2 DEF TypeOK, Nonces, NoNonce
      <3> QED
        BY <3>1, <3>2, <3>3, <3>4 DEF NonceInv
    <2>4. CASE StorePassword(w)
      <3>1. \A x \in Workers : task'[x].op = "spend" => task'[x] = task[x]
        BY <2>4, IdleType DEF StorePassword, Finish, TypeOK
      <3> QED
        BY <2>4, <3>1 DEF StorePassword, NonceInv
    <2> QED
      BY <1>3, <2>1, <2>2, <2>3, <2>4 DEF Steps
  <1>4. ASSUME NEW w \in Workers, Crash(w) PROVE NonceInv'
    <2>1. \A x \in Workers : task'[x].op = "spend" => task'[x] = task[x]
      BY <1>4, IdleType DEF Crash, Finish, TypeOK
    <2> QED
      BY <1>4, <2>1 DEF Crash, NonceInv
  <1>5. ASSUME NEW l \in comparing, LoginDone(l) PROVE NonceInv'
    BY <1>5 DEF LoginDone, NonceInv
  <1>6. ASSUME NEW k \in Nonces, Expire(k) PROVE NonceInv'
    BY <1>6 DEF Expire, NonceInv
  <1> QED
    BY <1>1, <1>2, <1>3, <1>4, <1>5, <1>6 DEF Next

LEMMA NonceInit == Init => NonceInv
  BY IdleType DEF Init, NonceInv, SpentNonceIsGone

\* Once a nonce has been accepted, no request finds it again.
THEOREM SpentNoncesGone == Spec => []SpentNonceIsGone
  <1>1. NonceInv => SpentNonceIsGone
    BY DEF NonceInv
  <1> QED
    BY <1>1, TypeInit, TypeStep, NonceInit, NonceStep, PTL DEF Spec

-----------------------------------------------------------------------------
(* One-time nonces.                                                        *)

\* As long as handlers do not overlap, one worker at most is in a handler, and
\* the challenge it has verified is still in the table.
OneTimeInv ==
    ~raced =>
        /\ \A w, x \in Workers : w # x => Ready(w) \/ Ready(x)
        /\ \A w \in Workers : task[w].op = "spend" => challenge[task[w].name] = task[w].nonce

\* The invariant is inductive: only the statements of a handler write the
\* table, and there is only the one handler.
LEMMA OneTimeStep == TypeOK /\ OneTimeInv /\ [Next]_vars => OneTimeInv'
  <1> SUFFICES ASSUME TypeOK, OneTimeInv, [Next]_vars, ~raced' PROVE OneTimeInv'
    BY DEF OneTimeInv
  <1> USE DEF rows, history, Ready
  <1>1. CASE UNCHANGED vars
    BY <1>1 DEF vars, OneTimeInv
  <1>2. ASSUME NEW w \in Workers, Requests(w) PROVE OneTimeInv'
    <2>1. ASSUME NEW t, Asked(t) \/ Received(t), Begin(w, t), UNCHANGED challenge
          PROVE  OneTimeInv'
      <3>1. t.op # "spend"
        BY <2>1, NewTasks
      <3>2. ~raced /\ \A x \in Workers \ {w} : task[x] = Idle
        BY <2>1 DEF Begin
      <3> QED
        BY <2>1, <3>1, <3>2, IdleType DEF Begin, OneTimeInv, TypeOK
    <2> QED
      BY <1>2, <2>1, RequestShape DEF OneTimeInv
  <1>3. ASSUME NEW w \in Workers, Steps(w) PROVE OneTimeInv'
    <2>1. task[w] # Idle /\ raced' = raced
      BY <1>3, IdleType DEF Steps, IssueChallenge, CheckSignature, SpendChallenge, StorePassword
    <2>2. \A x \in Workers \ {w} : task[x] = Idle
      BY <2>1 DEF OneTimeInv
    <2>3. \A x \in Workers \ {w} : task'[x] = Idle
      BY <1>3, <2>2 DEF Steps, IssueChallenge, CheckSignature, SpendChallenge, StorePassword,
                        Goto, Finish, TypeOK
    <2>4. task'[w].op = "spend" => challenge'[task'[w].name] = task'[w].nonce
      BY <1>3, IdleType DEF Steps, IssueChallenge, CheckSignature, SpendChallenge, StorePassword,
                            Proves, Goto, Finish, TypeOK, Task
    <2> QED
      BY <2>3, <2>4, IdleType DEF OneTimeInv
  <1>4. ASSUME NEW w \in Workers, Crash(w) PROVE OneTimeInv'
    BY <1>4, IdleType DEF Crash, Finish, OneTimeInv, TypeOK
  <1>5. ASSUME NEW l \in comparing, LoginDone(l) PROVE OneTimeInv'
    BY <1>5 DEF LoginDone, OneTimeInv
  <1>6. ASSUME NEW k \in Nonces, Expire(k) PROVE OneTimeInv'
    BY <1>6 DEF Expire, OneTimeInv
  <1> QED
    BY <1>1, <1>2, <1>3, <1>4, <1>5, <1>6 DEF Next

LEMMA OneTimeInit == Init => OneTimeInv
  BY IdleType DEF Init, OneTimeInv, Ready

\* As long as handlers do not overlap, a nonce is accepted once, and only the
\* last one issued for its name.
THEOREM NoncesOnce == Spec => []OneTimeNonce
  <1>1. TypeOK /\ NonceInv /\ OneTimeInv => OneTimeNonce
    BY DEF NonceInv, OneTimeInv, OneTimeNonce, SpentNonceIsGone, TypeOK
  <1> QED
    BY <1>1, TypeInit, TypeStep, NonceInit, NonceStep, OneTimeInit, OneTimeStep, PTL DEF Spec

=============================================================================
