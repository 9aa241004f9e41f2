------------------------ MODULE DirectMessagesProofs ------------------------
(***************************************************************************)
(* Theorems about DirectMessages for every set of workers, users and pairs  *)
(* who write to each other, with and without the Redis adapter, and all     *)
(* bounds.                                                                 *)
(***************************************************************************)
EXTENDS DirectMessages, TLAPS

-----------------------------------------------------------------------------
(* The type invariant.                                                     *)

PairOps == {"sendOpen", "sendStore", "historyOpen", "historyRead"}
MessageOps == {"sendEmit", "sendMark", "burnDelete", "burnTell", "react", "readUpdate", "readTell"}

\* The operation of a task determines its other fields.
LEMMA TaskShape ==
    ASSUME NEW t \in Tasks
    PROVE  /\ t.op \in PairOps => t \in [op: PairOps, by: Users, to: Users]
           /\ t.op \in MessageOps => t \in [op: MessageOps, by: Users, to: Users, msg: MsgIds]
  <1>1. CASE t = Idle
    BY <1>1 DEF Idle, PairOps, MessageOps
  <1>2. CASE t \in [op: PairOps, by: Users, to: Users]
    BY <1>2 DEF PairOps, MessageOps
  <1>3. CASE t \in [op: MessageOps, by: Users, to: Users, msg: MsgIds]
    BY <1>3 DEF PairOps, MessageOps
  <1> QED
    BY <1>1, <1>2, <1>3 DEF Tasks, PairOps, MessageOps

\* The tasks the handlers go on with are tasks.
LEMMA NewTasks ==
    /\ Idle \in Tasks
    /\ \A op \in PairOps, u, v \in Users : [op |-> op, by |-> u, to |-> v] \in Tasks
    /\ \A op \in MessageOps, u, v \in Users, m \in MsgIds :
          [op |-> op, by |-> u, to |-> v, msg |-> m] \in Tasks
    /\ \A t \in Tasks, op \in PairOps :
          t.op \in PairOps => [t EXCEPT !.op = op] \in Tasks
    /\ \A t \in Tasks, op \in MessageOps :
          t.op \in MessageOps => [t EXCEPT !.op = op] \in Tasks
  <1>1. ASSUME NEW t \in Tasks, NEW op \in PairOps, t.op \in PairOps
        PROVE  [t EXCEPT !.op = op] \in Tasks
    <2>1. t \in [op: PairOps, by: Users, to: Users]
      BY <1>1, TaskShape
    <2> QED
      BY <2>1 DEF Tasks, PairOps
  <1>2. ASSUME NEW t \in Tasks, NEW op \in MessageOps, t.op \in MessageOps
        PROVE  [t EXCEPT !.op = op] \in Tasks
    <2>1. t \in [op: MessageOps, by: Users, to: Users, msg: MsgIds]
      BY <1>2, TaskShape
    <2> QED
      BY <2>1 DEF Tasks, MessageOps
  <1> QED
    BY <1>1, <1>2 DEF Tasks, PairOps, MessageOps

\* An emit changes what the sockets have heard, to one of the three events.
LEMMA HearType ==
    ASSUME TypeOK, NEW w \in Workers, NEW us, NEW m \in MsgIds,
           NEW e \in {"new", "read", "burned"}, Hear(w, us, m, e)
    PROVE  /\ heard' \in [Users -> [MsgIds -> {"none", "new", "read", "burned"}]]
           /\ \A u \in Users, n \in MsgIds : heard[u][n] # "none" => heard'[u][n] # "none"
           /\ \A u \in Users : u \in us /\ Reaches(w, u) => heard'[u][m] = e
  BY DEF Hear, TypeOK

\* Every action keeps tables, tasks and clients well typed.
LEMMA TypeStep == TypeOK /\ [Next]_vars => TypeOK'
  <1> SUFFICES ASSUME TypeOK, [Next]_vars PROVE TypeOK'
    OBVIOUS
  <1> USE DEF rows, clients, processes
  <1>1. CASE UNCHANGED vars
    BY <1>1 DEF vars, TypeOK
  <1>2. ASSUME NEW w \in Workers, Requests(w) PROVE TypeOK'
    <2>1. ASSUME NEW u \in Users, NEW v \in Users, NEW a \in PairOps, NEW b \in PairOps,
                 Begin(w, u, v, a, b)
          PROVE  TypeOK'
      BY <2>1, NewTasks DEF Begin, Goto, TypeOK
    <2>2. ASSUME NEW p \in Talks, Send(w, p[1], p[2]) \/ History(w, p[1], p[2])
          PROVE  TypeOK'
      <3>1. p[1] \in Users /\ p[2] \in Users
        BY UserAssumption
      <3> QED
        BY <2>1, <2>2, <3>1 DEF Send, History, PairOps
    <2>3. ASSUME NEW u \in Users, NEW v \in Users, NEW m \in MsgIds, NEW op \in MessageOps,
                 Request(w, u, v, m, op)
          PROVE  /\ task' \in [Workers -> Tasks]
                 /\ UNCHANGED <<convs, messages, nextId, reactions, rooms, stopping, restarts>>
      BY <2>3, NewTasks DEF Request, Goto, TypeOK
    <2>4. ASSUME NEW u \in Users, NEW m \in MsgIds, Stored(m)
          PROVE  messages[m].from \in Users /\ Peer(m, u) \in Users
      BY <2>4 DEF Stored, Peer, TypeOK, Row
    <2>5. ASSUME NEW u \in Users, NEW m \in MsgIds, Read(w, u, m) PROVE TypeOK'
      <3>1. messages[m].from \in Users
        BY <2>4, <2>5 DEF Read, Request
      <3> QED
        BY <2>3, <2>5, <3>1 DEF Read, TypeOK, MessageOps
    <2>6. ASSUME NEW u \in Users, NEW m \in MsgIds, Burn(w, u, m) PROVE TypeOK'
      <3>1. Peer(m, u) \in Users
        BY <2>4, <2>6 DEF Burn, Request
      <3> QED
        BY <2>3, <2>6, <3>1 DEF Burn, TypeOK, MessageOps
    <2>7. ASSUME NEW u \in Users, NEW m \in MsgIds, React(w, u, m) PROVE TypeOK'
      <3>1. Peer(m, u) \in Users
        BY <2>4, <2>7 DEF React, Request
      <3> QED
        BY <2>3, <2>7, <3>1 DEF React, TypeOK, MessageOps
    <2>8. ASSUME NEW u \in Users, NEW m \in MsgIds, Unreact(w, u, m) PROVE TypeOK'
      BY <2>8 DEF Unreact, TypeOK
    <2> QED
      BY <1>2, <2>2, <2>5, <2>6, <2>7, <2>8 DEF Requests
  <1>3. ASSUME NEW w \in Workers, Steps(w) PROVE TypeOK'
    <2> DEFINE t == task[w]
    <2>1. t \in Tasks
      BY DEF TypeOK
    <2>2. /\ t.op \in PairOps => t.by \in Users /\ t.to \in Users
          /\ t.op \in MessageOps => t.by \in Users /\ t.to \in Users /\ t.msg \in MsgIds
      BY <2>1, TaskShape
    <2>3. ASSUME NEW s \in Tasks, Goto(w, s) PROVE task' \in [Workers -> Tasks]
      BY <2>3 DEF Goto, TypeOK
    <2>4. CASE OpenConversation(w)
      <3>1. t.op \in PairOps /\ convs' \subseteq Users \X Users
        BY <2>2, <2>4 DEF OpenConversation, WithConversation, Pair, TypeOK, PairOps
      <3>2. \E s \in Tasks : Goto(w, s)
        BY <2>1, <2>4, <3>1, NewTasks DEF OpenConversation, PairOps
      <3> QED
        BY <2>3, <2>4, <3>1, <3>2 DEF OpenConversation, TypeOK
    <2>5. CASE SendStore(w)
      <3>1. t.op \in PairOps /\ nextId \in MsgIds /\ nextId + 1 \in 1..MaxMessages + 1
        BY <2>5, BoundAssumption DEF SendStore, TypeOK, PairOps, MsgIds
      <3>2. [from |-> t.by, to |-> t.to, delivered |-> FALSE, read |-> FALSE] \in Row
        BY <2>2, <3>1 DEF Row
      <3>3. messages' \in [MsgIds -> Row \cup {NoRow}]
        BY <2>5, <3>2 DEF SendStore, Inserted, TypeOK
      <3>4. [op |-> "sendEmit", by |-> t.by, to |-> t.to, msg |-> nextId] \in Tasks
        BY <2>2, <3>1, NewTasks DEF MessageOps
      <3> QED
        BY <2>3, <2>5, <3>1, <3>3, <3>4 DEF SendStore, TypeOK
    <2>6. CASE SendEmit(w)
      <3>1. t.op \in MessageOps
        BY <2>6 DEF SendEmit, MessageOps
      <3>2. heard' \in [Users -> [MsgIds -> {"none", "new", "read", "burned"}]]
        BY <2>2, <2>6, <3>1, HearType DEF SendEmit
      <3>3. [t EXCEPT !.op = "sendMark"] \in Tasks /\ Idle \in Tasks
        BY <2>1, <3>1, NewTasks DEF MessageOps
      <3>4. task' \in [Workers -> Tasks] /\ acked' \subseteq MsgIds
        BY <2>2, <2>3, <2>6, <3>1, <3>3 DEF SendEmit, TypeOK
      <3> QED
        BY <2>6, <3>2, <3>4 DEF SendEmit, TypeOK
    <2>7. CASE SendMark(w)
      <3>1. t.msg \in MsgIds
        BY <2>2, <2>7 DEF SendMark, MessageOps
      <3>2. messages' \in [MsgIds -> Row \cup {NoRow}]
        BY <2>7, <3>1 DEF SendMark, Delivered, Stored, TypeOK, Row
      <3> QED
        BY <2>3, <2>7, <3>1, <3>2, NewTasks DEF SendMark, TypeOK
    <2>8. CASE HistoryRead(w)
      <3>1. fetched' \in [Users -> SUBSET MsgIds]
        BY <2>8 DEF HistoryRead, TypeOK
      <3> QED
        BY <2>3, <2>8, <3>1, NewTasks DEF HistoryRead, TypeOK
    <2>9. CASE ReadUpdate(w)
      <3>1. t.op \in MessageOps
        BY <2>9 DEF ReadUpdate, MessageOps
      <3>2. messages' \in [MsgIds -> Row \cup {NoRow}]
        BY <2>2, <2>9, <3>1 DEF ReadUpdate, Stored, TypeOK, Row
      <3>3. [t EXCEPT !.op = "readTell"] \in Tasks
        BY <2>1, <3>1, NewTasks DEF MessageOps
      <3> QED
        BY <2>3, <2>9, <3>2, <3>3 DEF ReadUpdate, TypeOK
    <2>10. CASE ReadTell(w)
      <3>1. heard' \in [Users -> [MsgIds -> {"none", "new", "read", "burned"}]]
        BY <2>2, <2>10, HearType DEF ReadTell, MessageOps
      <3> QED
        BY <2>3, <2>10, <3>1, NewTasks DEF ReadTell, TypeOK
    <2>11. CASE BurnDelete(w)
      <3>1. t.op \in MessageOps
        BY <2>11 DEF BurnDelete, MessageOps
      <3>2. messages' \in [MsgIds -> Row \cup {NoRow}]
        BY <2>11 DEF BurnDelete, Deleted, TypeOK
      <3>3. [t EXCEPT !.op = "burnTell"] \in Tasks /\ Idle \in Tasks
        BY <2>1, <3>1, NewTasks DEF MessageOps
      <3>4. task' \in [Workers -> Tasks] /\ stopping' \subseteq Workers
        BY <2>3, <2>11, <3>3 DEF BurnDelete, TypeOK
      <3> QED
        BY <2>11, <3>2, <3>4 DEF BurnDelete, TypeOK
    <2>12. CASE BurnTell(w)
      <3>1. heard' \in [Users -> [MsgIds -> {"none", "new", "read", "burned"}]]
        BY <2>2, <2>12, HearType DEF BurnTell, MessageOps
      <3> QED
        BY <2>3, <2>12, <3>1, NewTasks DEF BurnTell, TypeOK
    <2>13. CASE ReactInsert(w)
      <3>1. reactions' \subseteq MsgIds \X Users
        BY <2>2, <2>13 DEF ReactInsert, TypeOK, MessageOps
      <3> QED
        BY <2>3, <2>13, <3>1, NewTasks DEF ReactInsert, TypeOK
    <2> QED
      BY <1>3, <2>4, <2>5, <2>6, <2>7, <2>8, <2>9, <2>10, <2>11, <2>12, <2>13 DEF Steps
  <1>4. ASSUME NEW w \in Workers, Sockets(w) PROVE TypeOK'
    <2>1. MaxRestarts \in Nat
      BY BoundAssumption
    <2>2. CASE \E u \in Users : Connect(w, u) \/ Disconnect(w, u)
      BY <2>2 DEF Connect, Disconnect, TypeOK
    <2>3. CASE Stop(w)
      BY <2>1, <2>3 DEF Stop, TypeOK
    <2>4. CASE Exit(w)
      BY <2>4 DEF Exit, TypeOK
    <2>5. CASE Kill(w)
      BY <2>1, <2>5, NewTasks DEF Kill, Goto, TypeOK
    <2> QED
      BY <1>4, <2>2, <2>3, <2>4, <2>5 DEF Sockets
  <1> QED
    BY <1>1, <1>2, <1>3, <1>4 DEF Next

\* Init is well typed.
LEMMA TypeInit == Init => TypeOK
  <1>1. 1 \in 1..MaxMessages + 1 /\ 0 \in 0..MaxRestarts
    BY BoundAssumption
  <1>2. ASSUME Init
        PROVE  /\ rooms \in [Workers -> SUBSET Users]
               /\ messages \in [MsgIds -> Row \cup {NoRow}]
               /\ task \in [Workers -> Tasks]
               /\ fetched \in [Users -> SUBSET MsgIds]
               /\ heard \in [Users -> [MsgIds -> {"none", "new", "read", "burned"}]]
    BY <1>2, NewTasks DEF Init
  <1> QED
    BY <1>1, <1>2 DEF Init, TypeOK

\* In every reachable state tables, tasks and clients have their types.
THEOREM TypeCorrect == Spec => []TypeOK
  BY TypeInit, TypeStep, PTL DEF Spec

-----------------------------------------------------------------------------
(* What the tables and the handlers under way have in common.              *)

\* Ids are given out in order, and a message leaves the table only if somebody
\* asked to burn it.
RowInv ==
    /\ \A m \in MsgIds : m >= nextId => ~Stored(m)
    /\ \A m \in MsgIds : m < nextId => Stored(m) \/ m \in burnAsked
    /\ \A m \in acked : m < nextId

\* What the handler of a task knows, although other workers have run statements
\* since: about a message that is still there, what it read is still true.
TaskInv(w) ==
    LET t == task[w] IN
    /\ t.op = "sendStore" => Pair(t.by, t.to) \in convs
    /\ t.op \in MessageOps => t.msg < nextId
    /\ t.op = "burnDelete" => t.msg \in burnAsked
    /\ t.op \in {"sendEmit", "sendMark"} /\ Stored(t.msg) => messages[t.msg].to = t.to
    /\ t.op = "sendMark" => heard[t.to][t.msg] # "none"
    /\ t.op = "react" /\ Stored(t.msg) => t.by \in Participants(t.msg)

HandlerInv == RowInv /\ \A w \in Workers : TaskInv(w)

\* How the tables may change: they grow, a stored message keeps its two
\* participants and its id is never used again.
Grows ==
    /\ nextId' >= nextId
    /\ convs \subseteq convs'
    /\ burnAsked \subseteq burnAsked'
    /\ \A u \in Users, m \in MsgIds : heard[u][m] # "none" => heard'[u][m] # "none"
    /\ \A m \in MsgIds : m < nextId /\ Stored(m)' =>
          Stored(m) /\ messages'[m].from = messages[m].from /\ messages'[m].to = messages[m].to

\* The type of a task's fields, as the steps need them.
LEMMA StepFields ==
    ASSUME TypeOK, NEW w \in Workers
    PROVE  /\ task[w].op \in PairOps => task[w].by \in Users /\ task[w].to \in Users
           /\ task[w].op \in MessageOps =>
                 task[w].by \in Users /\ task[w].to \in Users /\ task[w].msg \in MsgIds
  BY TaskShape DEF TypeOK

\* Each statement changes the task of its worker only.
LEMMA OthersTasks ==
    ASSUME TypeOK, NEW w \in Workers, Requests(w) \/ Steps(w) \/ Sockets(w),
           NEW x \in Workers, x # w
    PROVE  task'[x] = task[x]
  <1> USE DEF TypeOK
  <1>1. task' = task \/ \E t : task' = [task EXCEPT ![w] = t]
    BY DEF Requests, Send, History, Begin, Request, Read, Burn, React, Unreact, Steps,
       OpenConversation, SendStore, SendEmit, SendMark, HistoryRead, ReadUpdate, ReadTell,
       BurnDelete, BurnTell, ReactInsert, Sockets, Connect, Disconnect, Stop, Exit, Kill,
       Goto, rows, clients, processes
  <1> QED
    BY <1>1

\* The statements that write the tables.
LEMMA Writers ==
    ASSUME [Next]_vars
    PROVE  /\ convs' = convs \/ \E w \in Workers : OpenConversation(w)
           /\ reactions' \subseteq reactions \/ \E w \in Workers : ReactInsert(w)
           /\ \/ messages' = messages
              \/ \E w \in Workers : SendStore(w) \/ SendMark(w) \/ ReadUpdate(w) \/ BurnDelete(w)
  <1> USE DEF rows, clients, processes
  <1>1. CASE UNCHANGED vars
    BY <1>1 DEF vars
  <1>2. ASSUME NEW w \in Workers, Requests(w)
        PROVE  UNCHANGED <<convs, messages>> /\ reactions' \subseteq reactions
    BY <1>2 DEF Requests, Send, History, Begin, Request, Read, Burn, React, Unreact
  <1>3. ASSUME NEW w \in Workers, Sockets(w) PROVE UNCHANGED <<convs, messages, reactions>>
    BY <1>3 DEF Sockets, Connect, Disconnect, Stop, Exit, Kill
  <1>4. ASSUME NEW w \in Workers, Steps(w)
        PROVE  /\ convs' = convs \/ OpenConversation(w)
               /\ reactions' = reactions \/ ReactInsert(w)
               /\ messages' = messages \/ SendStore(w) \/ SendMark(w) \/ ReadUpdate(w)
                    \/ BurnDelete(w)
    BY <1>4 DEF Steps, OpenConversation, SendStore, SendEmit, SendMark, HistoryRead, ReadUpdate,
       ReadTell, BurnDelete, BurnTell, ReactInsert
  <1> QED
    BY <1>1, <1>2, <1>3, <1>4 DEF Next

\* Every step is such a change.
LEMMA GrowsStep == TypeOK /\ [Next]_vars => Grows
  <1> SUFFICES ASSUME TypeOK, [Next]_vars PROVE Grows
    OBVIOUS
  <1> USE DEF rows, clients, processes, Stored
  <1>0. nextId \in Nat
    BY DEF TypeOK
  <1>1. CASE UNCHANGED <<convs, messages, nextId, burnAsked, heard>>
    BY <1>0, <1>1 DEF Grows
  <1>2. CASE UNCHANGED vars
    BY <1>1, <1>2 DEF vars
  <1>3. ASSUME NEW w \in Workers, Requests(w) PROVE Grows
    <2>1. /\ UNCHANGED <<convs, messages, nextId, heard>>
          /\ burnAsked \subseteq burnAsked'
      BY <1>3 DEF Requests, Send, History, Begin, Request, Read, Burn, React, Unreact
    <2> QED
      BY <1>0, <2>1 DEF Grows
  <1>4. ASSUME NEW w \in Workers, Sockets(w) PROVE Grows
    BY <1>1, <1>4 DEF Sockets, Connect, Disconnect, Stop, Exit, Kill
  <1>5. ASSUME NEW w \in Workers, Steps(w) PROVE Grows
    <2>1. CASE OpenConversation(w)
      BY <1>0, <2>1 DEF OpenConversation, WithConversation, Grows
    <2>2. CASE SendStore(w)
      BY <1>0, <2>2 DEF SendStore, Inserted, Grows, TypeOK
    <2>3. CASE SendEmit(w)
      <3>1. task[w].msg \in MsgIds
        BY <2>3, StepFields DEF SendEmit, MessageOps
      <3> QED
        BY <1>0, <2>3, <3>1, HearType DEF SendEmit, Grows
    <2>4. CASE SendMark(w)
      <3>1. ASSUME NEW m \in MsgIds, messages'[m] # NoRow
            PROVE  messages[m] # NoRow /\ messages'[m].from = messages[m].from
                     /\ messages'[m].to = messages[m].to
        BY <2>4, <3>1 DEF SendMark, Delivered, TypeOK, Row
      <3> QED
        BY <1>0, <2>4, <3>1 DEF SendMark, Grows
    <2>5. CASE HistoryRead(w) \/ ReactInsert(w)
      BY <1>1, <2>5 DEF HistoryRead, ReactInsert
    <2>6. CASE ReadUpdate(w)
      <3>1. ASSUME NEW m \in MsgIds, messages'[m] # NoRow
            PROVE  messages[m] # NoRow /\ messages'[m].from = messages[m].from
                     /\ messages'[m].to = messages[m].to
        BY <2>6, <3>1 DEF ReadUpdate, TypeOK, Row
      <3> QED
        BY <1>0, <2>6, <3>1 DEF ReadUpdate, Grows
    <2>7. CASE ReadTell(w)
      <3>1. task[w].msg \in MsgIds
        BY <2>7, StepFields DEF ReadTell, MessageOps
      <3> QED
        BY <1>0, <2>7, <3>1, HearType DEF ReadTell, Grows
    <2>8. CASE BurnDelete(w)
      <3>1. ASSUME NEW m \in MsgIds, messages'[m] # NoRow
            PROVE  messages'[m] = messages[m]
        BY <2>8, <3>1 DEF BurnDelete, Deleted, TypeOK
      <3> QED
        BY <1>0, <2>8, <3>1 DEF BurnDelete, Grows
    <2>9. CASE BurnTell(w)
      <3>1. task[w].msg \in MsgIds
        BY <2>9, StepFields DEF BurnTell, MessageOps
      <3> QED
        BY <1>0, <2>9, <3>1, HearType DEF BurnTell, Grows
    <2> QED
      BY <1>5, <2>1, <2>2, <2>3, <2>4, <2>5, <2>6, <2>7, <2>8, <2>9 DEF Steps
  <1> QED
    BY <1>2, <1>3, <1>4, <1>5 DEF Next

\* What a handler knows it goes on knowing while it waits for its next turn.
LEMMA TaskKept ==
    ASSUME TypeOK, Grows, NEW x \in Workers, TaskInv(x), task'[x] = task[x], nextId' \in Nat
    PROVE  TaskInv(x)'
  <1>1. nextId \in Nat
    BY DEF TypeOK
  <1>2. /\ task[x].op \in PairOps => task[x].by \in Users /\ task[x].to \in Users
        /\ task[x].op \in MessageOps =>
              task[x].by \in Users /\ task[x].to \in Users /\ task[x].msg \in MsgIds
    BY StepFields
  <1> QED
    BY <1>1, <1>2 DEF TaskInv, Grows, MsgIds, MessageOps, Participants

\* The invariant is inductive: a handler begins with what its SELECT read, and
\* goes on with what its own statement has just written.
LEMMA HandlerStep == TypeOK /\ HandlerInv /\ [Next]_vars => HandlerInv'
  <1> SUFFICES ASSUME TypeOK, HandlerInv, [Next]_vars PROVE HandlerInv'
    OBVIOUS
  <1> USE DEF rows, clients, processes
  <1>0. Grows /\ TypeOK' /\ nextId \in Nat /\ nextId' \in Nat
    BY GrowsStep, TypeStep DEF TypeOK
  <1>1. CASE UNCHANGED vars
    BY <1>1 DEF vars, HandlerInv, RowInv, TaskInv, Stored, Participants
  <1>2. ASSUME NEW w \in Workers, RowInv', TaskInv(w)', Requests(w) \/ Steps(w) \/ Sockets(w)
        PROVE  HandlerInv'
    BY <1>0, <1>2, OthersTasks, TaskKept DEF HandlerInv
  <1>3. ASSUME NEW w \in Workers, task'[w] = Idle PROVE TaskInv(w)'
    BY <1>3 DEF TaskInv, Idle, MessageOps
  <1>4. ASSUME UNCHANGED <<messages, nextId, burnAsked, acked>> PROVE RowInv'
    BY <1>4 DEF HandlerInv, RowInv, Stored
  <1>5. ASSUME NEW w \in Workers, NEW s, Goto(w, s) PROVE task'[w] = s
    BY <1>5 DEF Goto, TypeOK
  <1>6. ASSUME NEW w \in Workers, Requests(w) PROVE HandlerInv'
    <2>1. RowInv'
      <3>1. UNCHANGED <<messages, nextId, acked>> /\ burnAsked \subseteq burnAsked'
        BY <1>0, <1>6 DEF Grows, Requests, Send, History, Begin, Request, Read, Burn, React, Unreact
      <3> QED
        BY <3>1 DEF HandlerInv, RowInv, Stored
    <2>2. CASE \E p \in Talks : Send(w, p[1], p[2]) \/ History(w, p[1], p[2])
      <3>1. PICK p \in Talks : Send(w, p[1], p[2]) \/ History(w, p[1], p[2])
        BY <2>2
      <3>2. /\ task'[w].op \in PairOps /\ task'[w].by = p[1] /\ task'[w].to = p[2]
            /\ task'[w].op = "sendStore" => Pair(p[1], p[2]) \in convs
            /\ convs' = convs
        BY <1>5, <3>1 DEF Send, History, Begin, PairOps
      <3>3. TaskInv(w)'
        BY <3>2 DEF TaskInv, PairOps, MessageOps, Pair
      <3> QED
        BY <1>2, <1>6, <2>1, <3>3
    <2>3. ASSUME NEW u \in Users, NEW m \in MsgIds, Read(w, u, m) \/ Burn(w, u, m) \/ React(w, u, m)
          PROVE  HandlerInv'
      <3>1. /\ Stored(m) /\ u \in Participants(m) /\ UNCHANGED <<messages, nextId>>
            /\ task'[w].op \in {"readUpdate", "burnDelete", "react"}
            /\ task'[w].by = u /\ task'[w].msg = m
            /\ task'[w].op = "burnDelete" => m \in burnAsked'
        BY <1>5, <2>3 DEF Read, Burn, React, Request
      <3>2. m < nextId
        BY <1>0, <3>1 DEF HandlerInv, RowInv, MsgIds
      <3>3. TaskInv(w)'
        BY <3>1, <3>2 DEF TaskInv, Participants, Stored
      <3> QED
        BY <1>2, <1>6, <2>1, <3>3
    <2>4. CASE \E u \in Users, m \in MsgIds : Unreact(w, u, m)
      <3>1. task'[w] = Idle
        BY <2>4 DEF Unreact, Ready
      <3> QED
        BY <1>2, <1>3, <1>6, <2>1, <3>1
    <2> QED
      BY <1>6, <2>2, <2>3, <2>4 DEF Requests
  <1>7. ASSUME NEW w \in Workers, Steps(w) PROVE HandlerInv'
    <2> DEFINE t == task[w]
    <2>0. /\ t.op \in PairOps => t \in [op: PairOps, by: Users, to: Users]
          /\ t.op \in MessageOps => t \in [op: MessageOps, by: Users, to: Users, msg: MsgIds]
      BY TaskShape DEF TypeOK
    <2>1. CASE OpenConversation(w)
      <3>1. t.op \in {"sendOpen", "historyOpen"} /\ t \in [op: PairOps, by: Users, to: Users]
        BY <2>0, <2>1 DEF OpenConversation, PairOps
      <3>2. /\ RowInv'
            /\ Pair(t.by, t.to) \in convs'
            /\ \/ task'[w] = Idle
               \/ /\ task'[w].op \in {"sendStore", "historyRead"}
                  /\ task'[w].by = t.by /\ task'[w].to = t.to
        BY <1>4, <1>5, <2>1, <3>1 DEF OpenConversation, WithConversation
      <3>3. TaskInv(w)'
        BY <1>3, <3>2 DEF TaskInv, MessageOps, Pair
      <3> QED
        BY <1>2, <1>7, <3>2, <3>3
    <2>2. CASE SendStore(w)
      <3>1. nextId \in MsgIds /\ t.by \in Users /\ t.to \in Users
        BY <1>0, <2>0, <2>2 DEF SendStore, TypeOK, MsgIds, PairOps
      <3>2. messages'[nextId] = [from |-> t.by, to |-> t.to, delivered |-> FALSE, read |-> FALSE]
        BY <2>2, <3>1 DEF SendStore, Inserted, TypeOK
      <3>3. messages'[nextId] # NoRow /\ \A m \in MsgIds \ {nextId} : messages'[m] = messages[m]
        <4>1. messages'[nextId].from # 0 /\ NoRow.from = 0
          BY <3>1, <3>2, UserAssumption DEF NoRow
        <4> QED
          BY <2>2, <3>1, <4>1 DEF SendStore, Inserted, TypeOK
      <3>4. RowInv'
        <4>1. nextId' = nextId + 1 /\ UNCHANGED <<acked, burnAsked>>
          BY <2>2 DEF SendStore
        <4>2. \A m \in MsgIds : m \in Nat /\ (m # nextId => (Stored(m)' <=> Stored(m)))
          BY <3>3 DEF Stored, MsgIds
        <4>3. \A m \in MsgIds : m >= nextId' => m >= nextId /\ m # nextId
          BY <1>0, <4>1, <4>2
        <4>4. \A m \in MsgIds : m < nextId' => m < nextId \/ m = nextId
          BY <1>0, <4>1, <4>2
        <4>5. acked \subseteq MsgIds
          BY DEF TypeOK
        <4>6. \A m \in acked' : m < nextId'
          BY <1>0, <4>1, <4>2, <4>5 DEF HandlerInv, RowInv
        <4> QED
          BY <3>3, <4>1, <4>2, <4>3, <4>4, <4>6 DEF HandlerInv, RowInv, Stored
      <3>5. /\ task'[w].op = "sendEmit" /\ task'[w].msg = nextId /\ task'[w].to = t.to
        BY <1>5, <2>2 DEF SendStore
      <3>6. TaskInv(w)'
        BY <1>0, <2>2, <3>2, <3>5 DEF SendStore, TaskInv, MsgIds
      <3> QED
        BY <1>2, <1>7, <3>4, <3>6
    <2>3. CASE SendEmit(w)
      <3>1. t.op = "sendEmit" /\ t \in [op: MessageOps, by: Users, to: Users, msg: MsgIds]
        BY <2>0, <2>3 DEF SendEmit, MessageOps
      <3>2. RowInv'
        BY <1>0, <2>3, <3>1 DEF SendEmit, HandlerInv, RowInv, TaskInv, Stored, MessageOps
      <3>3. CASE InLocalRoom(w, t.to)
        <4>1. Reaches(w, t.to)
          BY <3>3 DEF InLocalRoom, Reaches
        <4>2. heard'[t.to][t.msg] = "new"
          BY <2>3, <3>1, <4>1, HearType DEF SendEmit
        <4>3. /\ task'[w].op = "sendMark" /\ task'[w].to = t.to /\ task'[w].msg = t.msg
          BY <1>5, <2>3, <3>1, <3>3 DEF SendEmit
        <4>4. TaskInv(w)'
          BY <2>3, <3>1, <4>2, <4>3 DEF SendEmit, HandlerInv, TaskInv, Stored, MessageOps
        <4> QED
          BY <1>2, <1>7, <3>2, <4>4
      <3>4. CASE ~InLocalRoom(w, t.to)
        BY <1>2, <1>3, <1>5, <1>7, <2>3, <3>2, <3>4 DEF SendEmit
      <3> QED
        BY <3>3, <3>4
    <2>4. CASE SendMark(w)
      <3>1. t.op = "sendMark" /\ t \in [op: MessageOps, by: Users, to: Users, msg: MsgIds]
        BY <2>0, <2>4 DEF SendMark, MessageOps
      <3>2. \A m \in MsgIds : Stored(m)' <=> Stored(m)
        BY <2>4, <3>1 DEF SendMark, Delivered, Stored, TypeOK, Row, NoRow
      <3>3. RowInv'
        BY <1>0, <2>4, <3>1, <3>2 DEF SendMark, HandlerInv, RowInv, TaskInv, MessageOps
      <3> QED
        BY <1>2, <1>3, <1>5, <1>7, <2>4, <3>3 DEF SendMark
    <2>5. CASE HistoryRead(w) \/ ReadTell(w) \/ BurnTell(w) \/ ReactInsert(w)
      <3>1. RowInv'
        BY <1>4, <2>5 DEF HistoryRead, ReadTell, BurnTell, ReactInsert
      <3>2. task'[w] = Idle
        BY <1>5, <2>5 DEF HistoryRead, ReadTell, BurnTell, ReactInsert
      <3> QED
        BY <1>2, <1>3, <1>7, <3>1, <3>2
    <2>6. CASE ReadUpdate(w)
      <3>1. t.op = "readUpdate" /\ t \in [op: MessageOps, by: Users, to: Users, msg: MsgIds]
        BY <2>0, <2>6 DEF ReadUpdate, MessageOps
      <3>2. \A m \in MsgIds : Stored(m)' <=> Stored(m)
        BY <2>6, <3>1 DEF ReadUpdate, Stored, TypeOK, Row, NoRow
      <3>3. RowInv'
        BY <1>0, <2>6, <3>2 DEF ReadUpdate, HandlerInv, RowInv
      <3>4. task'[w].op = "readTell" /\ task'[w].msg = t.msg
        BY <1>5, <2>6, <3>1 DEF ReadUpdate
      <3>5. TaskInv(w)'
        BY <2>6, <3>1, <3>4 DEF ReadUpdate, HandlerInv, TaskInv, MessageOps
      <3> QED
        BY <1>2, <1>7, <3>3, <3>5
    <2>7. CASE BurnDelete(w)
      <3>1. t.op = "burnDelete" /\ t \in [op: MessageOps, by: Users, to: Users, msg: MsgIds]
        BY <2>0, <2>7 DEF BurnDelete, MessageOps
      <3>2. /\ \A m \in MsgIds \ {t.msg} : messages'[m] = messages[m]
            /\ messages'[t.msg] \in {messages[t.msg], NoRow}
            /\ t.msg \in burnAsked /\ burnAsked' = burnAsked /\ nextId' = nextId /\ acked' = acked
        BY <2>7, <3>1 DEF BurnDelete, Deleted, HandlerInv, TaskInv, TypeOK
      <3>3. RowInv'
        BY <1>0, <3>1, <3>2 DEF HandlerInv, RowInv, Stored
      <3>4. task'[w] = Idle \/ (task'[w].op = "burnTell" /\ task'[w].msg = t.msg)
        BY <1>5, <2>7, <3>1 DEF BurnDelete
      <3>5. TaskInv(w)'
        BY <1>3, <3>1, <3>2, <3>4 DEF HandlerInv, TaskInv, MessageOps
      <3> QED
        BY <1>2, <1>7, <3>3, <3>5
    <2> QED
      BY <1>7, <2>1, <2>2, <2>3, <2>4, <2>5, <2>6, <2>7 DEF Steps
  <1>8. ASSUME NEW w \in Workers, Sockets(w) PROVE HandlerInv'
    <2>1. RowInv'
      BY <1>4, <1>8 DEF Sockets, Connect, Disconnect, Stop, Exit, Kill
    <2>2. task'[w] = Idle
      BY <1>5, <1>8 DEF Sockets, Connect, Disconnect, Stop, Exit, Kill, Ready
    <2> QED
      BY <1>2, <1>3, <1>8, <2>1, <2>2
  <1> QED
    BY <1>1, <1>6, <1>7, <1>8 DEF Next

\* The tables start empty.
LEMMA HandlerInit == Init => HandlerInv
  BY BoundAssumption DEF Init, HandlerInv, RowInv, TaskInv, Stored, Idle, MessageOps, MsgIds

\* An acknowledged message is in the table until somebody burns it, whichever
\* workers stop or are killed and whenever.
THEOREM AckedStored == Spec => []AckedIsStored
  <1>1. TypeOK /\ HandlerInv => AckedIsStored
    BY DEF HandlerInv, RowInv, AckedIsStored, TypeOK
  <1> QED
    BY <1>1, TypeInit, TypeStep, HandlerInit, HandlerStep, PTL DEF Spec

-----------------------------------------------------------------------------
(* Conversations.                                                          *)

\* The pairs are stored in ascending order, and every message has its pair.
ConvInv ==
    /\ \A c \in convs : c = Pair(c[1], c[2])
    /\ MessagesHaveConversation

\* A pair does not depend on who names it.
LEMMA PairSymmetric ==
    ASSUME NEW u \in Users, NEW v \in Users
    PROVE  /\ Pair(u, v) = Pair(v, u)
           /\ Pair(u, v)[1] \in {u, v} /\ Pair(u, v)[2] \in {u, v}
           /\ {Pair(u, v)[1], Pair(u, v)[2]} = {u, v}
           /\ Pair(Pair(u, v)[1], Pair(u, v)[2]) = Pair(u, v)
  <1>1. u \in Nat /\ v \in Nat
    BY UserAssumption
  <1>2. CASE u < v
    BY <1>1, <1>2 DEF Pair
  <1>3. CASE ~(u < v)
    BY <1>1, <1>3 DEF Pair
  <1> QED
    BY <1>2, <1>3

\* The invariant is inductive next to HandlerInv, which knows the pair of the
\* message about to be stored.
LEMMA ConvStep == TypeOK /\ HandlerInv /\ ConvInv /\ [Next]_vars => ConvInv'
  <1> SUFFICES ASSUME TypeOK, HandlerInv, ConvInv, [Next]_vars PROVE ConvInv'
    OBVIOUS
  <1>1. Grows /\ TypeOK' /\ nextId \in Nat
    BY GrowsStep, TypeStep DEF TypeOK
  <1>2. \A c \in convs' : c = Pair(c[1], c[2])
    <2>1. ASSUME NEW w \in Workers, OpenConversation(w)
          PROVE  \A c \in convs' : c = Pair(c[1], c[2])
      <3>1. task[w].by \in Users /\ task[w].to \in Users
        BY <2>1, StepFields DEF OpenConversation, PairOps
      <3> QED
        BY <2>1, <3>1, PairSymmetric DEF OpenConversation, WithConversation, ConvInv
    <2>2. convs' = convs \/ \E w \in Workers : OpenConversation(w)
      BY Writers
    <2> QED
      BY <2>1, <2>2 DEF ConvInv
  <1>3. ASSUME NEW m \in MsgIds, Stored(m)'
        PROVE  \E c \in convs' : {c[1], c[2]} = Participants(m)'
    <2>1. CASE m < nextId
      <3>1. Stored(m) /\ Participants(m)' = Participants(m)
        BY <1>1, <1>3, <2>1 DEF Grows, Participants
      <3> QED
        BY <1>1, <3>1 DEF Grows, ConvInv, MessagesHaveConversation
    <2>2. CASE ~(m < nextId)
      <3>1. ~Stored(m) /\ messages' # messages
        BY <1>1, <1>3, <2>2 DEF HandlerInv, RowInv, MsgIds, Stored
      <3>2. PICK w \in Workers : SendStore(w) \/ SendMark(w) \/ ReadUpdate(w) \/ BurnDelete(w)
        BY <3>1, Writers
      <3>3. SendStore(w)
        <4>1. ~SendMark(w) /\ ~ReadUpdate(w) /\ ~BurnDelete(w)
          BY <1>3, <3>1 DEF SendMark, Delivered, ReadUpdate, BurnDelete, Deleted, Stored, TypeOK
        <4> QED
          BY <3>2, <4>1
      <3>4. task[w].op = "sendStore" /\ task[w].by \in Users /\ task[w].to \in Users
        BY <3>3, StepFields DEF SendStore, PairOps
      <3>5. Participants(m)' = {task[w].by, task[w].to}
        BY <1>3, <3>1, <3>3 DEF SendStore, Inserted, Stored, Participants, TypeOK
      <3>6. Pair(task[w].by, task[w].to) \in convs'
        BY <1>1, <3>4 DEF HandlerInv, TaskInv, Grows
      <3> QED
        BY <3>4, <3>5, <3>6, PairSymmetric
    <2> QED
      BY <2>1, <2>2
  <1> QED
    BY <1>2, <1>3 DEF ConvInv, MessagesHaveConversation

\* The tables start empty.
LEMMA ConvInit == Init => ConvInv
  BY DEF Init, ConvInv, MessagesHaveConversation, Stored

\* One conversation per pair of people, however many workers open it at once.
THEOREM ConversationsAreUnique == Spec => []OneConversationPerPair
  <1>1. ASSUME TypeOK, ConvInv PROVE OneConversationPerPair
    <2> SUFFICES ASSUME NEW c \in convs, NEW d \in convs, {c[1], c[2]} = {d[1], d[2]}
                 PROVE  c = d
      BY DEF OneConversationPerPair
    <2>1. /\ c[1] \in Users /\ c[2] \in Users
          /\ (d[1] = c[1] /\ d[2] = c[2]) \/ (d[1] = c[2] /\ d[2] = c[1])
      BY <1>1 DEF TypeOK
    <2>2. c = Pair(c[1], c[2]) /\ d = Pair(d[1], d[2])
      BY <1>1 DEF ConvInv
    <2>3. Pair(c[1], c[2]) = Pair(c[2], c[1])
      BY <2>1, PairSymmetric
    <2> QED
      BY <2>1, <2>2, <2>3
  <1> QED
    BY <1>1, TypeInit, TypeStep, HandlerInit, HandlerStep, ConvInit, ConvStep, PTL DEF Spec

\* Every message belongs to the conversation of its two participants.
THEOREM MessagesInConversations == Spec => []MessagesHaveConversation
  <1>1. ConvInv => MessagesHaveConversation
    BY DEF ConvInv
  <1> QED
    BY <1>1, TypeInit, TypeStep, HandlerInit, HandlerStep, ConvInit, ConvStep, PTL DEF Spec

-----------------------------------------------------------------------------
(* Reactions and delivery marks.                                           *)

\* The invariant is inductive next to HandlerInv: the foreign key refuses what
\* a burn has overtaken, and what is still there has not changed hands.
LEMMA ReactionStep == TypeOK /\ HandlerInv /\ NoOrphanReactions /\ [Next]_vars => NoOrphanReactions'
  <1> SUFFICES ASSUME TypeOK, HandlerInv, NoOrphanReactions, [Next]_vars,
                      NEW m \in MsgIds, NEW u \in Users, <<m, u>> \in reactions'
               PROVE  Stored(m)' /\ u \in Participants(m)'
    BY DEF NoOrphanReactions
  <1> USE DEF rows, clients, processes
  <1>1. Grows /\ nextId \in Nat
    BY GrowsStep DEF TypeOK
  <1>2. Stored(m) => m < nextId
    BY <1>1 DEF HandlerInv, RowInv, MsgIds
  <1>3. CASE \E w \in Workers : ReactInsert(w) /\ <<m, u>> \notin reactions
    <2>1. PICK w \in Workers : ReactInsert(w) /\ <<m, u>> \notin reactions
      BY <1>3
    <2>2. task[w].op = "react" /\ task[w].msg = m /\ task[w].by = u /\ Stored(m)
      BY <2>1 DEF ReactInsert, ForeignKeyAllows
    <2>3. u \in Participants(m) /\ messages' = messages
      BY <2>1, <2>2 DEF HandlerInv, TaskInv, ReactInsert
    <2> QED
      BY <2>2, <2>3 DEF Stored, Participants
  <1>4. CASE <<m, u>> \in reactions
    <2>1. Stored(m) /\ u \in Participants(m)
      BY <1>4 DEF NoOrphanReactions
    <2>2. CASE messages' = messages
      BY <2>1, <2>2 DEF Stored, Participants
    <2>3. ASSUME NEW w \in Workers, BurnDelete(w) PROVE messages'[m] = messages[m]
      <3>1. Referenced(m)
        BY <1>4 DEF Referenced
      <3> QED
        BY <2>3, <3>1 DEF BurnDelete, Deleted, TypeOK
    <2>4. ASSUME NEW w \in Workers, SendStore(w) PROVE messages'[m] = messages[m]
      BY <1>1, <1>2, <2>1, <2>4 DEF SendStore, Inserted, TypeOK
    <2>5. ASSUME NEW w \in Workers, SendMark(w) \/ ReadUpdate(w)
          PROVE  Stored(m)'
      <3>1. messages[m] \in Row
        BY <2>1 DEF Stored, TypeOK
      <3>2. messages'[m] = messages[m] \/ messages'[m].from = messages[m].from
        BY <2>5, <3>1 DEF SendMark, Delivered, ReadUpdate, TypeOK, Row
      <3>3. messages[m].from # 0 /\ NoRow.from = 0
        BY <3>1, UserAssumption DEF Row, NoRow
      <3> QED
        BY <2>1, <3>2, <3>3 DEF Stored
    <2>6. \/ messages' = messages
          \/ \E w \in Workers : SendStore(w) \/ SendMark(w) \/ ReadUpdate(w) \/ BurnDelete(w)
      BY Writers
    <2>7. Stored(m)'
      BY <2>1, <2>2, <2>3, <2>4, <2>5, <2>6 DEF Stored
    <2> QED
      BY <1>1, <1>2, <2>1, <2>7 DEF Grows, Participants
  <1>5. <<m, u>> \in reactions \/ \E w \in Workers : ReactInsert(w) /\ <<m, u>> \notin reactions
    BY Writers
  <1> QED
    BY <1>3, <1>4, <1>5

\* A reaction always belongs to a stored message and to one of its people.
THEOREM ReactionsHaveMessage == Spec => []NoOrphanReactions
  <1>1. Init => NoOrphanReactions
    BY DEF Init, NoOrphanReactions
  <1> QED
    BY <1>1, ReactionStep, TypeInit, TypeStep, HandlerInit, HandlerStep, PTL DEF Spec

\* The invariant is inductive next to HandlerInv: the UPDATE that marks comes
\* after the emit that handed the message over.
LEMMA DeliveryStep == TypeOK /\ HandlerInv /\ DeliveredWasHanded /\ [Next]_vars => DeliveredWasHanded'
  <1> SUFFICES ASSUME TypeOK, HandlerInv, DeliveredWasHanded, [Next]_vars,
                      NEW m \in MsgIds, messages'[m].delivered
               PROVE  heard'[messages'[m].to][m] # "none"
    BY DEF DeliveredWasHanded
  <1> USE DEF rows, clients, processes
  <1>1. Grows
    BY GrowsStep
  <1>2. CASE /\ messages[m].delivered /\ messages'[m].to = messages[m].to
             /\ messages[m] # NoRow
    <2>1. messages[m].to \in Users
      BY <1>2 DEF TypeOK, Row
    <2> QED
      BY <1>1, <1>2, <2>1 DEF DeliveredWasHanded, Grows
  <1>3. ASSUME NEW w \in Workers, SendMark(w), task[w].msg = m, Stored(m),
               messages'[m].to = messages[m].to
        PROVE  heard'[messages'[m].to][m] # "none"
    <2>1. messages[m].to = task[w].to /\ heard[task[w].to][m] # "none" /\ heard' = heard
      BY <1>3 DEF SendMark, HandlerInv, TaskInv
    <2> QED
      BY <1>3, <2>1
  <1>4. messages[m].delivered => messages[m] # NoRow
    BY DEF NoRow
  <1>5. CASE messages' = messages
    BY <1>2, <1>4, <1>5
  <1>6. ASSUME NEW w \in Workers, SendStore(w) \/ BurnDelete(w)
        PROVE  heard'[messages'[m].to][m] # "none"
    <2>1. messages'[m] = messages[m] \/ messages'[m].delivered = FALSE
      BY <1>6 DEF SendStore, Inserted, BurnDelete, Deleted, TypeOK, NoRow
    <2> QED
      BY <1>2, <1>4, <2>1
  <1>7. ASSUME NEW w \in Workers, ReadUpdate(w)
        PROVE  heard'[messages'[m].to][m] # "none"
    <2>1. messages'[m].delivered = messages[m].delivered /\ messages'[m].to = messages[m].to
      BY <1>7 DEF ReadUpdate, TypeOK, Row, Stored, NoRow
    <2> QED
      BY <1>2, <1>4, <2>1
  <1>8. ASSUME NEW w \in Workers, SendMark(w)
        PROVE  heard'[messages'[m].to][m] # "none"
    <2>1. \/ messages'[m] = messages[m]
          \/ task[w].msg = m /\ Stored(m) /\ messages'[m].to = messages[m].to
      BY <1>8 DEF SendMark, Delivered, TypeOK, Row, Stored
    <2> QED
      BY <1>2, <1>3, <1>4, <1>8, <2>1
  <1>9. \/ messages' = messages
        \/ \E w \in Workers : SendStore(w) \/ SendMark(w) \/ ReadUpdate(w) \/ BurnDelete(w)
    BY Writers
  <1> QED
    BY <1>5, <1>6, <1>7, <1>8, <1>9

\* A message marked as delivered was handed to a socket of its recipient.
THEOREM DeliveredHanded == Spec => []DeliveredWasHanded
  <1>1. Init => DeliveredWasHanded
    BY DEF Init, DeliveredWasHanded, NoRow
  <1> QED
    BY <1>1, DeliveryStep, TypeInit, TypeStep, HandlerInit, HandlerStep, PTL DEF Spec

-----------------------------------------------------------------------------
(* Acknowledgements and burns, where the handlers share one process.        *)
(* With the Redis adapter and two workers both properties fail: the emit    *)
(* reaches a socket of another worker, while the look at the rooms sees     *)
(* only this worker's, and another worker's burn comes between two          *)
(* statements.                                                             *)

\* pm2 runs a single instance.
OneWorker == \A v, w \in Workers : v = w

SendOps == {"sendEmit", "sendMark"}

\* A message about to be emitted is new to everybody and not yet acknowledged,
\* and one handler at most is sending it.
HandInv ==
    /\ HandedIsDelivered
    /\ \A u \in Users, m \in MsgIds : m >= nextId => heard[u][m] # "new"
    /\ \A w \in Workers : task[w].op = "sendEmit" =>
          task[w].msg \notin acked /\ \A u \in Users : heard[u][task[w].msg] # "new"
    /\ \A w, x \in Workers :
          task[w].op \in SendOps /\ task[x].op \in SendOps /\ task[w].msg = task[x].msg => w = x

\* An emit that stays in its worker reaches exactly the rooms the worker looks at.
LEMMA LocalEmits ==
    ASSUME OneWorker \/ Adapter = FALSE, NEW w \in Workers, NEW u \in Users
    PROVE  Reaches(w, u) <=> InLocalRoom(w, u)
  BY SwitchAssumption DEF OneWorker, Reaches, InLocalRoom

\* The sockets a statement reaches hear its event, and only about its message.
LEMMA HeardAbout ==
    ASSUME TypeOK, NEW w \in Workers, NEW us, NEW n \in MsgIds,
           NEW e \in {"new", "read", "burned"}, Hear(w, us, n, e),
           NEW u \in Users, NEW m \in MsgIds
    PROVE  heard'[u][m] = IF m = n /\ u \in us /\ Reaches(w, u) THEN e ELSE heard[u][m]
  BY DEF Hear, TypeOK

\* A mark set on a stored message stays as long as the message.
LEMMA MarksStay ==
    ASSUME TypeOK, HandlerInv, [Next]_vars, NEW m \in MsgIds, Stored(m), Stored(m)',
           messages[m].delivered
    PROVE  messages'[m].delivered
  <1>1. m < nextId /\ nextId \in Nat
    BY DEF HandlerInv, RowInv, MsgIds, TypeOK
  <1>2. ASSUME NEW w \in Workers, SendStore(w) PROVE messages'[m] = messages[m]
    BY <1>1, <1>2 DEF SendStore, Inserted, TypeOK
  <1>3. ASSUME NEW w \in Workers, SendMark(w) \/ ReadUpdate(w)
        PROVE  messages'[m].delivered
    <2>1. messages[m] \in [from: Users, to: Users, delivered: BOOLEAN, read: BOOLEAN]
      BY DEF Stored, TypeOK, Row
    <2>2. messages'[m] \in {messages[m], [messages[m] EXCEPT !.delivered = TRUE],
                           [messages[m] EXCEPT !.read = TRUE]}
      BY <1>3 DEF SendMark, Delivered, ReadUpdate, TypeOK
    <2>3. [messages[m] EXCEPT !.delivered = TRUE].delivered
      BY <2>1
    <2>4. [messages[m] EXCEPT !.read = TRUE].delivered = messages[m].delivered
      BY <2>1
    <2> QED
      BY <2>2, <2>3, <2>4
  <1>4. ASSUME NEW w \in Workers, BurnDelete(w) PROVE messages'[m] = messages[m]
    BY <1>4 DEF BurnDelete, Deleted, Stored, TypeOK
  <1>5. \/ messages' = messages
        \/ \E w \in Workers : SendStore(w) \/ SendMark(w) \/ ReadUpdate(w) \/ BurnDelete(w)
    BY Writers
  <1> QED
    BY <1>2, <1>3, <1>4, <1>5

\* The invariant is inductive: the recipient hears of a message in the very
\* statement after which the handler goes on to mark it.
LEMMA HandStep ==
    ASSUME OneWorker \/ Adapter = FALSE, TypeOK, HandlerInv, HandInv, [Next]_vars
    PROVE  HandInv'
  <1> USE DEF rows, clients, processes
  <1>1. Grows /\ TypeOK' /\ nextId \in Nat /\ nextId' \in Nat /\ acked \subseteq MsgIds
    BY GrowsStep, TypeStep DEF TypeOK
  <1>2. CASE UNCHANGED vars
    BY <1>2 DEF vars, HandInv, HandedIsDelivered, Stored
  <1>3. ASSUME NEW m \in acked, Stored(m)', heard[messages'[m].to][m] = "new"
        PROVE  messages'[m].delivered
    <2>1. m \in MsgIds /\ m < nextId
      BY <1>1, <1>3 DEF HandlerInv, RowInv
    <2>2. Stored(m) /\ messages'[m].to = messages[m].to
      BY <1>1, <1>3, <2>1 DEF Grows
    <2>3. messages[m].delivered
      BY <1>3, <2>2 DEF HandInv, HandedIsDelivered
    <2> QED
      BY <1>3, <2>1, <2>2, <2>3, MarksStay
  <1>4. ASSUME NEW m \in MsgIds, Stored(m)' PROVE messages'[m].to \in Users
    BY <1>1, <1>4 DEF TypeOK, Stored, Row
  <1>5. ASSUME NEW w \in Workers, Requests(w) \/ Steps(w) \/ Sockets(w)
        PROVE  \A x \in Workers \ {w} : task'[x] = task[x] /\ task[x] \in Tasks
    BY <1>5, OthersTasks DEF TypeOK
  <1>6. ASSUME NEW w \in Workers, Requests(w) \/ Steps(w) \/ Sockets(w),
               acked' = acked, task'[w].op \notin SendOps,
               \A u \in Users, m \in MsgIds : heard'[u][m] = "new" => heard[u][m] = "new"
        PROVE  HandInv'
    <2>1. HandedIsDelivered'
      BY <1>1, <1>3, <1>4, <1>6 DEF HandedIsDelivered
    <2>2. \A u \in Users, m \in MsgIds : m >= nextId' => heard'[u][m] # "new"
      BY <1>1, <1>6 DEF HandInv, Grows, MsgIds
    <2>3. ASSUME NEW x \in Workers, task'[x].op = "sendEmit"
          PROVE  /\ task'[x].msg \notin acked'
                 /\ \A u \in Users : heard'[u][task'[x].msg] # "new"
      <3>1. x # w /\ task'[x] = task[x]
        BY <1>5, <1>6, <2>3 DEF SendOps
      <3>2. task[x].msg \in MsgIds
        BY <2>3, <3>1, StepFields DEF MessageOps
      <3> QED
        BY <1>6, <2>3, <3>1, <3>2 DEF HandInv
    <2>4. ASSUME NEW x \in Workers, NEW y \in Workers, task'[x].op \in SendOps,
                 task'[y].op \in SendOps, task'[x].msg = task'[y].msg
          PROVE  x = y
      BY <1>5, <1>6, <2>4 DEF HandInv
    <2> QED
      BY <2>1, <2>2, <2>3, <2>4 DEF HandInv
  <1>7. ASSUME NEW w \in Workers, NEW s, Goto(w, s) PROVE task'[w] = s
    BY <1>7 DEF Goto, TypeOK
  <1>8. ASSUME NEW w \in Workers, Requests(w) PROVE HandInv'
    <2>1. acked' = acked /\ heard' = heard
      BY <1>8 DEF Requests, Send, History, Begin, Request, Read, Burn, React, Unreact
    <2>2. task'[w].op \notin SendOps
      <3>1. CASE \E u \in Users, m \in MsgIds : Unreact(w, u, m)
        BY <3>1 DEF Unreact, Ready, Idle, SendOps
      <3>2. CASE \E p \in Talks : Send(w, p[1], p[2]) \/ History(w, p[1], p[2])
        BY <1>7, <3>2 DEF Send, History, Begin, SendOps
      <3>3. CASE \E u \in Users, m \in MsgIds : Read(w, u, m) \/ Burn(w, u, m) \/ React(w, u, m)
        BY <1>7, <3>3 DEF Read, Burn, React, Request, SendOps
      <3> QED
        BY <1>8, <3>1, <3>2, <3>3 DEF Requests
    <2> QED
      BY <1>6, <1>8, <2>1, <2>2
  <1>9. ASSUME NEW w \in Workers, Sockets(w) PROVE HandInv'
    <2>1. acked' = acked /\ heard' = heard
      BY <1>9 DEF Sockets, Connect, Disconnect, Stop, Exit, Kill
    <2>2. task'[w].op \notin SendOps
      BY <1>7, <1>9 DEF Sockets, Connect, Disconnect, Stop, Exit, Kill, Ready, Idle, SendOps
    <2> QED
      BY <1>6, <1>9, <2>1, <2>2
  <1>10. ASSUME NEW w \in Workers, Steps(w) PROVE HandInv'
    <2> DEFINE t == task[w]
    <2>0. t.op \in MessageOps => t \in [op: MessageOps, by: Users, to: Users, msg: MsgIds]
      BY TaskShape DEF TypeOK
    \* While w sends a message nobody else does.
    <2>1. ASSUME t.op \in SendOps, NEW x \in Workers \ {w}, task'[x].op \in SendOps
          PROVE  task[x].msg # t.msg /\ task'[x] = task[x] /\ task[x].msg \in MsgIds
      BY <1>5, <1>10, <2>1, StepFields DEF HandInv, SendOps, MessageOps
    <2>2. CASE SendStore(w)
      <3>1. /\ nextId \in MsgIds /\ nextId' = nextId + 1 /\ UNCHANGED <<acked, heard>>
            /\ task'[w].op = "sendEmit" /\ task'[w].msg = nextId
        BY <1>1, <1>7, <2>2 DEF SendStore, TypeOK, MsgIds
      <3>2. HandedIsDelivered'
        BY <1>3, <3>1 DEF HandedIsDelivered
      <3>3. nextId \notin acked /\ \A u \in Users : heard[u][nextId] # "new"
        BY <1>1, <3>1 DEF HandlerInv, RowInv, HandInv
      <3>4. \A u \in Users, m \in MsgIds : m >= nextId' => heard'[u][m] # "new"
        BY <1>1, <3>1 DEF HandInv, MsgIds
      <3>5. ASSUME NEW x \in Workers \ {w}, task'[x].op \in SendOps
            PROVE  task'[x] = task[x] /\ task[x].msg \in MsgIds /\ task[x].msg < nextId
        <4>1. task'[x] = task[x] /\ task[x].msg \in MsgIds
          BY <1>5, <1>10, <3>5, StepFields DEF SendOps, MessageOps
        <4> QED
          BY <3>5, <4>1 DEF HandlerInv, TaskInv, SendOps, MessageOps
      <3>6. ASSUME NEW x \in Workers, task'[x].op = "sendEmit"
            PROVE  /\ task'[x].msg \notin acked'
                   /\ \A u \in Users : heard'[u][task'[x].msg] # "new"
        BY <3>1, <3>3, <3>5, <3>6 DEF HandInv, SendOps
      <3>7. ASSUME NEW x \in Workers, NEW y \in Workers, task'[x].op \in SendOps,
                   task'[y].op \in SendOps, task'[x].msg = task'[y].msg
            PROVE  x = y
        BY <1>1, <3>1, <3>5, <3>7 DEF HandInv, MsgIds
      <3> QED
        BY <3>2, <3>4, <3>6, <3>7 DEF HandInv
    <2>3. CASE SendEmit(w)
      <3>1. /\ t.op = "sendEmit" /\ t.to \in Users /\ t.msg \in MsgIds /\ t.msg < nextId
            /\ UNCHANGED rows /\ t.msg \notin acked
            /\ \A u \in Users : heard[u][t.msg] # "new"
        BY <2>0, <2>3 DEF SendEmit, MessageOps, HandlerInv, TaskInv, HandInv
      <3>2. \A u \in Users, m \in MsgIds :
               heard'[u][m] = IF m = t.msg /\ u \in {t.to} /\ Reaches(w, u) THEN "new"
                                                                           ELSE heard[u][m]
        BY <2>3, <3>1, HeardAbout DEF SendEmit
      <3>3. task'[w] \in {Idle, [t EXCEPT !.op = "sendMark"]}
        BY <1>7, <2>3 DEF SendEmit
      <3>4. task'[w].op # "sendEmit" /\ (task'[w].op \in SendOps => task'[w].msg = t.msg)
        BY <2>0, <3>1, <3>3 DEF Idle, SendOps, MessageOps
      <3>5. ASSUME NEW m \in acked', Stored(m)', heard'[messages'[m].to][m] = "new"
            PROVE  messages'[m].delivered
        <4>1. messages'[m] = messages[m] /\ m \in MsgIds /\ messages[m].to \in Users
          BY <1>1, <1>4, <3>1, <3>5 DEF TypeOK
        <4>2. m # t.msg
          <5>1. CASE InLocalRoom(w, t.to)
            BY <2>3, <3>1, <3>5, <5>1 DEF SendEmit
          <5>2. CASE ~InLocalRoom(w, t.to)
            BY <3>1, <3>2, <3>5, <4>1, <5>2, LocalEmits
          <5> QED
            BY <5>1, <5>2
        <4>3. m \in acked
          BY <2>3, <3>5, <4>2 DEF SendEmit
        <4> QED
          BY <1>3, <3>2, <3>5, <4>1, <4>2, <4>3
      <3>6. \A u \in Users, m \in MsgIds : m >= nextId' => heard'[u][m] # "new"
        BY <1>1, <3>1, <3>2 DEF HandInv, MsgIds
      <3>7. ASSUME NEW x \in Workers, task'[x].op = "sendEmit"
            PROVE  /\ task'[x].msg \notin acked'
                   /\ \A u \in Users : heard'[u][task'[x].msg] # "new"
        <4>1. x # w
          BY <3>4, <3>7
        <4>2. task[x].msg # t.msg /\ task'[x] = task[x] /\ task[x].msg \in MsgIds
          BY <2>1, <3>1, <3>7, <4>1 DEF SendOps
        <4>3. acked' \subseteq acked \cup {t.msg}
          BY <2>3 DEF SendEmit
        <4> QED
          BY <3>2, <3>7, <4>2, <4>3 DEF HandInv
      <3>8. ASSUME NEW x \in Workers, NEW y \in Workers, task'[x].op \in SendOps,
                   task'[y].op \in SendOps, task'[x].msg = task'[y].msg
            PROVE  x = y
        BY <2>1, <3>1, <3>4, <3>8 DEF HandInv, SendOps
      <3> QED
        BY <3>5, <3>6, <3>7, <3>8 DEF HandInv, HandedIsDelivered
    <2>4. CASE SendMark(w)
      <3>1. /\ t.op = "sendMark" /\ t.msg \in MsgIds /\ task'[w] = Idle
            /\ acked' = acked \cup {t.msg} /\ UNCHANGED <<heard, nextId>>
        BY <1>7, <2>0, <2>4 DEF SendMark, MessageOps
      <3>2. messages'[t.msg] # NoRow => messages'[t.msg].delivered
        <4>1. CASE Stored(t.msg)
          <5>1. messages[t.msg] \in [from: Users, to: Users, delivered: BOOLEAN, read: BOOLEAN]
            BY <3>1, <4>1 DEF Stored, TypeOK, Row
          <5>2. messages'[t.msg] = [messages[t.msg] EXCEPT !.delivered = TRUE]
            BY <2>4, <3>1, <4>1 DEF SendMark, Delivered, TypeOK
          <5>3. [messages[t.msg] EXCEPT !.delivered = TRUE].delivered
            BY <5>1
          <5> QED
            BY <5>2, <5>3
        <4>2. CASE ~Stored(t.msg)
          BY <2>4, <3>1, <4>2 DEF SendMark, Delivered, Stored
        <4> QED
          BY <4>1, <4>2
      <3>3. HandedIsDelivered'
        <4>1. ASSUME NEW m \in acked', Stored(m)', heard'[messages'[m].to][m] = "new"
              PROVE  messages'[m].delivered
          <5>1. CASE m = t.msg
            BY <3>2, <4>1, <5>1 DEF Stored
          <5>2. CASE m # t.msg
            BY <1>3, <3>1, <4>1, <5>2
          <5> QED
            BY <5>1, <5>2
        <4> QED
          BY <4>1 DEF HandedIsDelivered
      <3>4. ASSUME NEW x \in Workers, task'[x].op \in SendOps
            PROVE  x # w /\ task[x].msg # t.msg /\ task'[x] = task[x]
        BY <2>1, <3>1, <3>4 DEF SendOps, Idle
      <3>5. ASSUME NEW x \in Workers, task'[x].op = "sendEmit"
            PROVE  /\ task'[x].msg \notin acked'
                   /\ \A u \in Users : heard'[u][task'[x].msg] # "new"
        BY <3>1, <3>4, <3>5 DEF HandInv, SendOps
      <3>6. ASSUME NEW x \in Workers, NEW y \in Workers, task'[x].op \in SendOps,
                   task'[y].op \in SendOps, task'[x].msg = task'[y].msg
            PROVE  x = y
        BY <3>4, <3>6 DEF HandInv
      <3> QED
        BY <3>1, <3>3, <3>5, <3>6 DEF HandInv
    <2>5. CASE OpenConversation(w) \/ HistoryRead(w) \/ ReactInsert(w) \/ ReadUpdate(w)
                 \/ BurnDelete(w)
      <3>1. acked' = acked /\ heard' = heard
        BY <2>5 DEF OpenConversation, HistoryRead, ReactInsert, ReadUpdate, BurnDelete
      <3>2. CASE OpenConversation(w)
        <4>1. t \in [op: PairOps, by: Users, to: Users]
          BY <3>2, TaskShape DEF OpenConversation, PairOps, TypeOK
        <4>2. task'[w].op \notin SendOps
          BY <1>7, <3>2, <4>1 DEF OpenConversation, SendOps, Idle
        <4> QED
          BY <1>6, <1>10, <3>1, <4>2
      <3>3. CASE HistoryRead(w) \/ ReactInsert(w)
        BY <1>6, <1>7, <1>10, <3>1, <3>3 DEF HistoryRead, ReactInsert, SendOps, Idle
      <3>4. CASE ReadUpdate(w) \/ BurnDelete(w)
        <4>1. task'[w].op \notin SendOps
          BY <1>7, <2>0, <3>4 DEF ReadUpdate, BurnDelete, SendOps, Idle, MessageOps
        <4> QED
          BY <1>6, <1>10, <3>1, <4>1
      <3> QED
        BY <2>5, <3>2, <3>3, <3>4
    <2>6. CASE ReadTell(w) \/ BurnTell(w)
      <3>1. t.op \in {"readTell", "burnTell"} /\ t.msg \in MsgIds
        BY <2>0, <2>6 DEF ReadTell, BurnTell, MessageOps
      <3>2. \A u \in Users, m \in MsgIds : heard'[u][m] = "new" => heard[u][m] = "new"
        BY <2>6, <3>1, HeardAbout DEF ReadTell, BurnTell
      <3>3. acked' = acked /\ task'[w].op \notin SendOps
        BY <1>7, <2>6 DEF ReadTell, BurnTell, SendOps, Idle
      <3> QED
        BY <1>6, <1>10, <3>2, <3>3
    <2> QED
      BY <1>10, <2>2, <2>3, <2>4, <2>5, <2>6 DEF Steps
  <1> QED
    BY <1>2, <1>8, <1>9, <1>10 DEF Next

\* Nothing has been sent at the start.
LEMMA HandInit == Init => HandInv
  BY DEF Init, HandInv, HandedIsDelivered, Idle, SendOps

\* Where emits stay in their worker -- a single instance, or no Redis adapter --
\* an acknowledged message that a socket of its recipient received bears the
\* mark of delivery as long as it exists, whichever workers are killed.
THEOREM HandedMarked == (OneWorker \/ Adapter = FALSE) => (Spec => []HandedIsDelivered)
  <1> SUFFICES ASSUME OneWorker \/ Adapter = FALSE PROVE Spec => []HandedIsDelivered
    OBVIOUS
  <1>1. HandInv => HandedIsDelivered
    BY DEF HandInv
  <1>2. TypeOK /\ HandlerInv /\ HandInv /\ [Next]_vars => HandInv'
    BY HandStep
  <1> QED
    BY <1>1, <1>2, HandInit, TypeInit, TypeStep, HandlerInit, HandlerStep, PTL DEF Spec

\* With one process no statement of another handler comes between a handler's
\* test that the message exists and its emit, and who heard "burned" heard it
\* of a message that is gone.
BurnedInv ==
    /\ \A u \in Users, m \in MsgIds : heard[u][m] = "burned" => ~Stored(m) /\ m < nextId
    /\ \A w \in Workers :
          /\ task[w].op \in {"sendEmit", "readUpdate", "readTell"} => Stored(task[w].msg)
          /\ task[w].op = "burnTell" => ~Stored(task[w].msg)

\* A deleted message does not come back, for ids are not used again.
LEMMA GoneForGood ==
    ASSUME TypeOK, HandlerInv, HandlerInv', BurnedInv, [Next]_vars, heard' = heard
    PROVE  \A u \in Users, m \in MsgIds : heard'[u][m] = "burned" => ~Stored(m)' /\ m < nextId'
  <1>1. Grows /\ nextId \in Nat /\ nextId' \in Nat /\ TypeOK'
    BY GrowsStep, TypeStep DEF TypeOK
  <1> QED
    BY <1>1 DEF BurnedInv, Grows, MsgIds

\* The invariant is inductive when there is one worker.
LEMMA BurnedStep ==
    ASSUME OneWorker, TypeOK, HandlerInv, HandlerInv', BurnedInv, [Next]_vars
    PROVE  /\ BurnedInv'
           /\ \A u \in Users, m \in MsgIds : heard[u][m] = "burned" => heard'[u][m] = "burned"
  <1> USE DEF rows, clients, processes
  <1>1. Grows /\ TypeOK' /\ nextId \in Nat /\ nextId' \in Nat
    BY GrowsStep, TypeStep DEF TypeOK
  <1>2. CASE UNCHANGED vars
    BY <1>2 DEF vars, BurnedInv, Stored
  <1>3. ASSUME NEW w \in Workers, heard' = heard,
               task'[w].op \in {"sendEmit", "readUpdate", "readTell"} => Stored(task[w].msg)',
               task'[w].op = "burnTell" => ~Stored(task[w].msg)'
        PROVE  /\ BurnedInv'
               /\ \A u \in Users, m \in MsgIds : heard[u][m] = "burned" => heard'[u][m] = "burned"
    <2>1. \A x \in Workers : x = w
      BY DEF OneWorker
    <2> QED
      BY <1>3, <2>1, GoneForGood DEF BurnedInv
  <1>4. ASSUME NEW w \in Workers, task'[w].op \notin {"sendEmit", "readUpdate", "readTell", "burnTell"},
               heard' = heard
        PROVE  /\ BurnedInv'
               /\ \A u \in Users, m \in MsgIds : heard[u][m] = "burned" => heard'[u][m] = "burned"
    BY <1>3, <1>4
  <1>5. ASSUME NEW w \in Workers, NEW s, Goto(w, s) PROVE task'[w] = s
    BY <1>5 DEF Goto, TypeOK
  <1>6. ASSUME NEW w \in Workers, Requests(w)
        PROVE  /\ BurnedInv'
               /\ \A u \in Users, m \in MsgIds : heard[u][m] = "burned" => heard'[u][m] = "burned"
    <2>1. heard' = heard
      BY <1>6 DEF Requests, Send, History, Begin, Request, Read, Burn, React, Unreact
    <2>2. CASE \E u \in Users, m \in MsgIds : Unreact(w, u, m)
      <3>1. task'[w] = Idle
        BY <2>2 DEF Unreact, Ready
      <3> QED
        BY <1>4, <2>1, <3>1 DEF Idle
    <2>3. CASE \E p \in Talks : Send(w, p[1], p[2]) \/ History(w, p[1], p[2])
      <3>1. task'[w].op \in PairOps
        BY <1>5, <2>3 DEF Send, History, Begin, PairOps
      <3> QED
        BY <1>4, <2>1, <3>1 DEF PairOps
    <2>4. ASSUME NEW u \in Users, NEW m \in MsgIds, Read(w, u, m) \/ Burn(w, u, m) \/ React(w, u, m)
          PROVE  task'[w].op \in {"readUpdate", "burnDelete", "react"} /\ Stored(m)'
                   /\ task'[w].msg = m
      BY <1>5, <2>4 DEF Read, Burn, React, Request, Stored
    <2>5. CASE \E u \in Users, m \in MsgIds : Read(w, u, m) \/ Burn(w, u, m) \/ React(w, u, m)
      <3>1. PICK u \in Users, m \in MsgIds : Read(w, u, m) \/ Burn(w, u, m) \/ React(w, u, m)
        BY <2>5
      <3>2. task'[w].op \in {"readUpdate", "burnDelete", "react"} /\ Stored(task[w].msg)'
        BY <2>4, <3>1 DEF Stored
      <3> QED
        BY <1>3, <2>1, <3>2
    <2> QED
      BY <1>6, <2>2, <2>3, <2>5 DEF Requests
  <1>7. ASSUME NEW w \in Workers, Sockets(w)
        PROVE  /\ BurnedInv'
               /\ \A u \in Users, m \in MsgIds : heard[u][m] = "burned" => heard'[u][m] = "burned"
    <2>1. task'[w] = Idle /\ heard' = heard
      BY <1>5, <1>7 DEF Sockets, Connect, Disconnect, Stop, Exit, Kill, Ready
    <2> QED
      BY <1>4, <2>1 DEF Idle
  <1>8. ASSUME NEW w \in Workers, Steps(w)
        PROVE  /\ BurnedInv'
               /\ \A u \in Users, m \in MsgIds : heard[u][m] = "burned" => heard'[u][m] = "burned"
    <2> DEFINE t == task[w]
    <2>0. /\ t.op \in PairOps => t \in [op: PairOps, by: Users, to: Users]
          /\ t.op \in MessageOps => t \in [op: MessageOps, by: Users, to: Users, msg: MsgIds]
      BY TaskShape DEF TypeOK
    <2>1. CASE OpenConversation(w)
      <3>1. t \in [op: PairOps, by: Users, to: Users]
        BY <2>0, <2>1 DEF OpenConversation, PairOps
      <3>2. task'[w].op \in {"idle", "sendStore", "historyRead"} /\ heard' = heard
        BY <1>5, <2>1, <3>1 DEF OpenConversation, Idle
      <3> QED
        BY <1>4, <3>2
    <2>2. CASE SendStore(w)
      <3>1. nextId \in MsgIds /\ t.by \in Users
        BY <1>1, <2>0, <2>2 DEF SendStore, TypeOK, MsgIds, PairOps
      <3>2. messages'[nextId].from # 0 /\ NoRow.from = 0
        BY <2>2, <3>1, UserAssumption DEF SendStore, Inserted, TypeOK, NoRow
      <3>3. task'[w].op = "sendEmit" /\ task'[w].msg = nextId /\ heard' = heard
        BY <1>5, <2>2 DEF SendStore
      <3> QED
        BY <1>3, <3>2, <3>3 DEF Stored
    <2>3. CASE ReadUpdate(w)
      <3>1. t.op = "readUpdate" /\ t \in [op: MessageOps, by: Users, to: Users, msg: MsgIds]
        BY <2>0, <2>3 DEF ReadUpdate, MessageOps
      <3>2. messages[t.msg] \in Row /\ messages[t.msg] # NoRow
        BY <3>1 DEF BurnedInv, Stored, TypeOK
      <3>3. messages'[t.msg].from = messages[t.msg].from
        BY <2>3, <3>1, <3>2 DEF ReadUpdate, TypeOK, Row
      <3>4. messages'[t.msg] # NoRow
        BY <3>2, <3>3, UserAssumption DEF Row, NoRow
      <3>5. task'[w].op = "readTell" /\ task'[w].msg = t.msg /\ heard' = heard
        BY <1>5, <2>3, <3>1 DEF ReadUpdate
      <3> QED
        BY <1>3, <3>4, <3>5 DEF Stored
    <2>4. CASE BurnDelete(w)
      <3>1. t.op = "burnDelete" /\ t \in [op: MessageOps, by: Users, to: Users, msg: MsgIds]
        BY <2>0, <2>4 DEF BurnDelete, MessageOps
      <3>2. CASE Referenced(t.msg)
        BY <1>4, <1>5, <2>4, <3>2 DEF BurnDelete, Idle
      <3>3. CASE ~Referenced(t.msg)
        <4>1. task'[w].op = "burnTell" /\ task'[w].msg = t.msg /\ heard' = heard
          BY <1>5, <2>4, <3>1, <3>3 DEF BurnDelete
        <4>2. messages'[t.msg] = NoRow
          BY <2>4, <3>1, <3>3 DEF BurnDelete, Deleted, TypeOK
        <4> QED
          BY <1>3, <4>1, <4>2 DEF Stored
      <3> QED
        BY <3>2, <3>3
    <2>5. CASE HistoryRead(w) \/ SendMark(w) \/ ReactInsert(w)
      <3>1. task'[w] = Idle /\ heard' = heard
        BY <1>5, <2>5 DEF HistoryRead, SendMark, ReactInsert
      <3> QED
        BY <1>4, <3>1 DEF Idle
    <2>6. CASE SendEmit(w) \/ ReadTell(w) \/ BurnTell(w)
      <3>1. /\ t.op \in {"sendEmit", "readTell", "burnTell"}
            /\ t \in [op: MessageOps, by: Users, to: Users, msg: MsgIds]
            /\ messages' = messages /\ nextId' = nextId /\ t.msg < nextId
        BY <2>0, <2>6 DEF SendEmit, ReadTell, BurnTell, MessageOps, HandlerInv, TaskInv
      <3>2. task'[w].op \in {"idle", "sendMark"}
        BY <1>5, <2>6, <3>1 DEF SendEmit, ReadTell, BurnTell, Idle
      <3>3. CASE BurnTell(w)
        <4>1. /\ ~Stored(t.msg) /\ t.msg \in MsgIds
              /\ \A u \in Users, m \in MsgIds : heard'[u][m] = heard[u][m]
                    \/ (m = t.msg /\ heard'[u][m] = "burned")
          BY <3>1, <3>3, HeardAbout DEF BurnTell, BurnedInv
        <4>2. \A x \in Workers : x = w
          BY DEF OneWorker
        <4> QED
          BY <3>1, <3>2, <4>1, <4>2 DEF BurnedInv, Stored
      <3>4. CASE SendEmit(w) \/ ReadTell(w)
        <4>1. PICK e \in {"new", "read"} : Hear(w, {t.to}, t.msg, e)
          BY <3>4 DEF SendEmit, ReadTell
        <4>2. /\ Stored(t.msg)
              /\ \A u \in Users, m \in MsgIds : heard'[u][m] = heard[u][m]
                    \/ (m = t.msg /\ heard'[u][m] # "burned")
          BY <3>1, <3>4, <4>1, HeardAbout DEF SendEmit, ReadTell, BurnedInv
        <4>3. \A x \in Workers : x = w
          BY DEF OneWorker
        <4> QED
          BY <3>1, <3>2, <4>2, <4>3 DEF BurnedInv, Stored
      <3> QED
        BY <2>6, <3>3, <3>4
    <2> QED
      BY <1>8, <2>1, <2>2, <2>3, <2>4, <2>5, <2>6 DEF Steps
  <1> QED
    BY <1>2, <1>6, <1>7, <1>8 DEF Next

\* With a single instance a client hears nothing more about a message after
\* "burned": a late read receipt or a late emit of the sender cannot bring it
\* back to the screen.
THEOREM BurnedStaysBurned == OneWorker => (Spec => BurnedIsLast)
  <1> SUFFICES ASSUME OneWorker PROVE Spec => BurnedIsLast
    OBVIOUS
  <1>1. Init => BurnedInv
    BY DEF Init, BurnedInv, Idle
  <1>2. TypeOK /\ HandlerInv /\ HandlerInv' /\ BurnedInv /\ [Next]_vars => BurnedInv'
    BY BurnedStep
  <1>3. TypeOK /\ HandlerInv /\ HandlerInv' /\ BurnedInv /\ [Next]_vars
          => [\A u \in Users, m \in MsgIds :
                 heard[u][m] = "burned" => heard'[u][m] = "burned"]_vars
    BY BurnedStep
  <1> QED
    BY <1>1, <1>2, <1>3, TypeInit, TypeStep, HandlerInit, HandlerStep, PTL DEF Spec, BurnedIsLast

=============================================================================
