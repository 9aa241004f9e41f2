------------------------- MODULE ChannelPostsProofs -------------------------
(***************************************************************************)
(* Theorems about ChannelPosts for every set of workers, users, staff and   *)
(* texts and all bounds.                                                   *)
(***************************************************************************)
EXTENDS ChannelPosts, TLAPS

-----------------------------------------------------------------------------
(* Handlers and requests.                                                  *)

LEMMA HandlerTable ==
    /\ RoutePosting.write = "insert" /\ RoutePosting.reads = TRUE /\ RoutePosting.emits = "new"
    /\ SocketPosting.write = "insert" /\ SocketPosting.reads = FALSE /\ SocketPosting.emits = "new"
    /\ Scheduling.write = "insert" /\ Scheduling.reads = FALSE /\ Scheduling.emits = "nothing"
    /\ Editing.write = "update" /\ Editing.reads = TRUE /\ Editing.emits = "updated"
    /\ Deleting.write = "delete" /\ Deleting.reads = FALSE /\ Deleting.emits = "deleted"
    /\ Publishing.write = "publish" /\ Publishing.reads = TRUE /\ Publishing.emits = "new"
    /\ Pinning.write = "pin" /\ Pinning.reads = FALSE /\ Pinning.emits = "pinned"
    /\ Unpinning.write = "unpin" /\ Unpinning.reads = FALSE /\ Unpinning.emits = "unpinned"
  <1>1. RoutePosting.write = "insert" /\ RoutePosting.reads = TRUE /\ RoutePosting.emits = "new"
    BY DEF RoutePosting, Handler
  <1>2. SocketPosting.write = "insert" /\ SocketPosting.reads = FALSE /\ SocketPosting.emits = "new"
    BY DEF SocketPosting, Handler
  <1>3. Scheduling.write = "insert" /\ Scheduling.reads = FALSE /\ Scheduling.emits = "nothing"
    BY DEF Scheduling, Handler
  <1>4. Editing.write = "update" /\ Editing.reads = TRUE /\ Editing.emits = "updated"
    BY DEF Editing, Handler
  <1>5. Deleting.write = "delete" /\ Deleting.reads = FALSE /\ Deleting.emits = "deleted"
    BY DEF Deleting, Handler
  <1>6. Publishing.write = "publish" /\ Publishing.reads = TRUE /\ Publishing.emits = "new"
    BY DEF Publishing, Handler
  <1>7. Pinning.write = "pin" /\ Pinning.reads = FALSE /\ Pinning.emits = "pinned"
    BY DEF Pinning, Handler
  <1>8. Unpinning.write = "unpin" /\ Unpinning.reads = FALSE /\ Unpinning.emits = "unpinned"
    BY DEF Unpinning, Handler
  <1> QED
    BY <1>1, <1>2, <1>3, <1>4, <1>5, <1>6, <1>7, <1>8

LEMMA HandlerTypes ==
    /\ \A h \in Handlers : h.reads \in BOOLEAN /\ h.emits \in Kinds \cup {"nothing"}
    /\ Scheduling.emits = "nothing"
    /\ \A h \in Handlers : h.emits = "new" => h.write \in {"insert", "publish"}
    /\ \A h \in Handlers : h.write = "update" => h = Editing
    /\ Editing.write = "update"
  BY HandlerTable DEF Handlers, Kinds

LEMMA IdleType == Idle \in Task /\ Idle.at = "idle" /\ TaskOK(Idle)
  BY DEF Idle, Task, TaskOK, NoPost

LEMMA ExistingPosts == TypeOK => 1..lastId \subseteq Posts /\ lastId \in Nat
  BY BoundAssumption DEF TypeOK, Posts

\* What a request may make its worker's task.
Opened(t) ==
    /\ t \in Task
    /\ t.at = "write"
    /\ TaskOK(t)
    /\ t.does.write = "insert" => t.due = (t.does = Scheduling)
    /\ t.does = Editing => t.past = Remembered(t.post)

LEMMA RequestShape ==
    ASSUME TypeOK, NEW w \in Workers, Requests(w)
    PROVE  \E t : Opened(t) /\ Take(w, t)
  <1>1. PICK u \in Users :
            \/ \E x \in Texts : Post(w, u, x)
            \/ \E m \in Existing :
                  \/ \E x \in Texts : Edit(w, u, m, x)
                  \/ Delete(w, u, m) \/ Publish(w, u, m) \/ Pin(w, u, m) \/ Unpin(w, u, m)
    BY DEF Requests
  <1>2. ASSUME NEW x \in Texts, Post(w, u, x)
        PROVE  \E t : Opened(t) /\ Take(w, t)
    <2>1. PICK due \in BOOLEAN, h \in {RoutePosting, SocketPosting, Scheduling} :
              /\ due = (h = Scheduling)
              /\ Take(w, [at |-> "write", does |-> h, by |-> u, post |-> NoPost, text |-> x,
                          past |-> <<>>, due |-> due])
      BY <1>2 DEF Post
    <2> DEFINE t == [at |-> "write", does |-> h, by |-> u, post |-> NoPost, text |-> x,
                     past |-> <<>>, due |-> due]
    <2>2. h \in Handlers /\ h.write = "insert" /\ h # Editing
      BY DEF Handlers, Handler, RoutePosting, SocketPosting, Scheduling, Editing
    <2>3. t \in Task
      BY <2>2 DEF Task
    <2>4. TaskOK(t)
      BY <2>2 DEF TaskOK
    <2>5. t.at = "write" /\ t.does # Editing /\ (t.due = (t.does = Scheduling))
      BY <2>1, <2>2
    <2>6. Take(w, t)
      BY <2>1
    <2> HIDE DEF t
    <2> QED
      BY <2>3, <2>4, <2>5, <2>6 DEF Opened
  <1>3. ASSUME NEW m \in Existing, NEW x \in Texts, Edit(w, u, m, x)
        PROVE  \E t : Opened(t) /\ Take(w, t)
    <2> DEFINE t == [at |-> "write", does |-> Editing, by |-> Nobody, post |-> m, text |-> x,
                     past |-> Remembered(m), due |-> FALSE]
    <2>1. m \in Posts /\ m \in 1..lastId
      BY ExistingPosts DEF Existing
    <2>2. Remembered(m) \in Seq(Texts)
      BY <2>1 DEF Remembered, TypeOK, Row, Posts
    <2>3. t \in Task
      BY <2>1, <2>2 DEF Task, Handlers
    <2>4. TaskOK(t)
      BY <2>1, HandlerTypes DEF TaskOK, Handlers
    <2>5. t.at = "write" /\ t.does = Editing /\ t.past = Remembered(t.post)
      OBVIOUS
    <2>6. Take(w, t)
      BY <1>3 DEF Edit
    <2> HIDE DEF t
    <2> QED
      BY <2>3, <2>4, <2>5, <2>6, HandlerTypes DEF Opened
  <1>4. ASSUME NEW m \in Existing, NEW h \in {Deleting, Publishing, Pinning, Unpinning},
               Take(w, Request(h, m))
        PROVE  \E t : Opened(t) /\ Take(w, t)
    <2> DEFINE t == Request(h, m)
    <2>1. m \in Posts /\ m \in 1..lastId
      BY ExistingPosts DEF Existing
    <2>2. h \in Handlers /\ h.write \notin {"insert", "update"} /\ h # Editing
      BY DEF Handlers, Handler, Deleting, Publishing, Pinning, Unpinning, Editing
    <2>3. t \in Task
      BY <2>1, <2>2 DEF Request, Task
    <2>4. TaskOK(t)
      BY <2>1, <2>2 DEF TaskOK, Request
    <2> QED
      BY <1>4, <2>2, <2>3, <2>4 DEF Opened, Request
  <1> QED
    BY <1>1, <1>2, <1>3, <1>4 DEF Delete, Publish, Pin, Unpin

\* The statements a handler may run, and what it goes on with.
Ran(w, t) ==
    \/ Insert(w) /\ t = [task[w] EXCEPT !.post = lastId + 1]
    \/ (Update(w) \/ MarkDeleted(w) \/ MarkPublished(w) \/ SetPin(w) \/ Emit(w)) /\ t = task[w]
    \/ ReadBack(w) /\ t = [task[w] EXCEPT !.text = post[task[w].post].text]

LEMMA StepShape ==
    ASSUME NEW w \in Workers, Steps(w)
    PROVE  \E t : Ran(w, t) /\ Proceed(w, t)
  BY DEF Steps, Ran, Insert, Update, MarkDeleted, MarkPublished, SetPin, ReadBack, Emit

\* Going on changes nothing but the stage.
LEMMA Advances ==
    ASSUME NEW t \in Task
    PROVE  /\ Advance(t) \in Task
           /\ \/ Advance(t) = Idle
              \/ /\ Advance(t).at = "read" /\ t.at = "write"
                 /\ Advance(t) = [t EXCEPT !.at = "read"]
              \/ /\ Advance(t).at = "emit" /\ t.does.emits # "nothing"
                 /\ Advance(t) = [t EXCEPT !.at = "emit"]
  BY IdleType DEF Advance, Task

-----------------------------------------------------------------------------
(* The type invariant.                                                     *)

\* TaskOK when n posts have been written.
Fits(t, n) ==
    t.at # "idle" =>
        /\ t.does \in Handlers
        /\ IF t.at = "write" /\ t.does.write = "insert" THEN t.by \in Users
                                                       ELSE t.post \in 1..n
        /\ t.at = "write" /\ t.does.write \in {"insert", "update"} => t.text \in Texts
        /\ t.at = "emit" => t.does.emits # "nothing"

LEMMA FitsKept ==
    ASSUME NEW t, NEW n \in Nat, NEW k \in Nat, n <= k, Fits(t, n)
    PROVE  Fits(t, k)
  BY DEF Fits

LEMMA AdvanceFits ==
    ASSUME NEW t \in Task, NEW n \in Nat, t.does \in Handlers, t.post \in 1..n
    PROVE  Fits(Advance(t), n)
  <1>1. CASE Advance(t) = Idle
    BY <1>1, IdleType DEF Fits
  <1>2. CASE /\ Advance(t).at \in {"read", "emit"}
             /\ Advance(t).does = t.does /\ Advance(t).post = t.post
             /\ Advance(t).at = "emit" => t.does.emits # "nothing"
    BY <1>2 DEF Fits
  <1> QED
    BY <1>1, <1>2, Advances DEF Task

\* The tables stay well typed, and no post disappears.
TablesOK ==
    /\ post \in [Posts -> Row]
    /\ lastId \in Posts \cup {0}
    /\ \A m \in Posts : IF m <= lastId THEN post[m].by \in Users /\ post[m].text \in Texts
                                       ELSE post[m] = NoRow
    /\ pins \subseteq 1..lastId
    /\ worn \in [Posts -> Seq(Texts)]
    /\ revived \subseteq Posts

LEMMA StepTypes ==
    ASSUME TypeOK, NEW w \in Workers, NEW t, Ran(w, t)
    PROVE  /\ TablesOK' /\ lastId <= lastId'
           /\ wire' \in [Workers -> Seq(Event)]
           /\ t \in Task /\ t.does \in Handlers /\ t.post \in 1..lastId'
  <1> DEFINE k == task[w]
  <1>1. k \in Task /\ TaskOK(k) /\ lastId \in Nat /\ 1..lastId \subseteq Posts
    BY ExistingPosts DEF TypeOK
  <1>2. CASE Insert(w) /\ t = [task[w] EXCEPT !.post = lastId + 1]
    <2>1. /\ k.at = "write" /\ k.does.write = "insert"
          /\ lastId' = lastId + 1 /\ lastId' \in Posts
          /\ UNCHANGED <<pins, revived, wire>>
          /\ worn' = [worn EXCEPT ![lastId'] = <<k.text>>]
          /\ post' = [post EXCEPT ![lastId'] =
                        [by |-> k.by, text |-> k.text, due |-> k.due, deleted |-> FALSE,
                         past |-> <<>>]]
      BY <1>1, <1>2, BoundAssumption DEF Insert, Write, Posts
    <2>2. k.does \in Handlers /\ k.by \in Users /\ k.text \in Texts /\ k.due \in BOOLEAN
      BY <1>1, <2>1 DEF TaskOK, Task
    <2>3. [by |-> k.by, text |-> k.text, due |-> k.due, deleted |-> FALSE, past |-> <<>>] \in Row
      BY <2>2 DEF Row
    <2>4. post' \in [Posts -> Row] /\ worn' \in [Posts -> Seq(Texts)]
      BY <2>1, <2>2, <2>3 DEF TypeOK
    <2>5. \A m \in Posts : IF m <= lastId' THEN post'[m].by \in Users /\ post'[m].text \in Texts
                                           ELSE post'[m] = NoRow
      <3> SUFFICES ASSUME NEW m \in Posts
                   PROVE  IF m <= lastId' THEN post'[m].by \in Users /\ post'[m].text \in Texts
                                          ELSE post'[m] = NoRow
        OBVIOUS
      <3>1. CASE m = lastId'
        BY <2>1, <2>2, <3>1 DEF TypeOK
      <3>2. CASE m # lastId'
        <4>1. post'[m] = post[m] /\ (m <= lastId' <=> m <= lastId)
          BY <1>1, <2>1, <3>2 DEF TypeOK, Posts
        <4> QED
          BY <4>1 DEF TypeOK
      <3> QED
        BY <3>1, <3>2
    <2>6. t \in Task /\ t.does = k.does /\ t.post = lastId'
      BY <1>1, <1>2, <2>1 DEF Task
    <2>7. pins' \subseteq 1..lastId' /\ lastId' \in 1..lastId' /\ lastId <= lastId'
      BY <1>1, <2>1 DEF TypeOK
    <2> QED
      BY <2>1, <2>2, <2>4, <2>5, <2>6, <2>7 DEF TablesOK, TypeOK
  <1>3. CASE Update(w) /\ t = task[w]
    <2>1. k.does \in Handlers /\ k.post \in 1..lastId /\ k.text \in Texts /\ k.past \in Seq(Texts)
      BY <1>1, <1>3 DEF Update, Write, TaskOK, Task
    <2> DEFINE r == [post[k.post] EXCEPT !.text = k.text, !.past = k.past]
    <2>2. /\ post' = [post EXCEPT ![k.post] = r]
          /\ worn' = [worn EXCEPT ![k.post] = Append(worn[k.post], k.text)]
          /\ UNCHANGED <<lastId, pins, revived, wire>>
      BY <1>3 DEF Update, Write
    <2>3. post[k.post] \in Row /\ post[k.post].by \in Users /\ k.post \in Posts
      BY <1>1, <2>1 DEF TypeOK
    <2>4. r \in Row /\ r.by \in Users /\ r.text \in Texts
      BY <2>1, <2>3 DEF Row
    <2>5. Append(worn[k.post], k.text) \in Seq(Texts)
      BY <2>1, <2>3 DEF TypeOK
    <2> HIDE DEF r
    <2> QED
      BY <1>1, <1>3, <2>1, <2>2, <2>3, <2>4, <2>5 DEF TablesOK, TypeOK, Posts
  <1>4. CASE (MarkDeleted(w) \/ MarkPublished(w)) /\ t = task[w]
    <2>1. k.does \in Handlers /\ k.post \in 1..lastId
      BY <1>1, <1>4 DEF MarkDeleted, MarkPublished, Write, TaskOK
    <2>2. post[k.post] \in Row /\ post[k.post].by \in Users /\ post[k.post].text \in Texts
          /\ k.post \in Posts
      BY <1>1, <2>1 DEF TypeOK, Posts
    <2>3. PICK r \in Row :
              /\ r.by \in Users /\ r.text \in Texts
              /\ post' = [post EXCEPT ![k.post] = r]
              /\ UNCHANGED <<lastId, pins, worn, wire>>
              /\ revived' \in {revived, revived \cup {k.post}}
      <3>1. /\ [post[k.post] EXCEPT !.deleted = TRUE] \in Row
            /\ [post[k.post] EXCEPT !.due = FALSE] \in Row
        BY <2>2 DEF Row
      <3> QED
        BY <1>4, <2>2, <3>1 DEF MarkDeleted, MarkPublished, Write, history, Row
    <2> QED
      BY <1>1, <1>4, <2>1, <2>2, <2>3 DEF TablesOK, TypeOK, Posts
  <1>5. CASE SetPin(w) /\ t = task[w]
    <2>1. k.does \in Handlers /\ k.post \in 1..lastId
      BY <1>1, <1>5 DEF SetPin, Write, TaskOK
    <2>2. UNCHANGED <<post, lastId, worn, revived, wire>>
      BY <1>5 DEF SetPin, Write, history
    <2>3. pins' \subseteq 1..lastId
      BY <1>5, <2>1 DEF SetPin, TypeOK
    <2> QED
      BY <1>1, <1>5, <2>1, <2>2, <2>3 DEF TablesOK, TypeOK
  <1>6. CASE ReadBack(w) /\ t = [task[w] EXCEPT !.text = post[task[w].post].text]
    <2>1. k.does \in Handlers /\ k.post \in 1..lastId
      BY <1>1, <1>6 DEF ReadBack, TaskOK
    <2>2. post[k.post].text \in Texts
      BY <1>1, <2>1 DEF TypeOK, Posts
    <2>3. t \in Task /\ t.does = k.does /\ t.post = k.post
      BY <1>1, <1>6, <2>2 DEF Task
    <2>4. UNCHANGED <<post, lastId, pins, worn, revived, wire>>
      BY <1>6 DEF ReadBack, tables, history
    <2> QED
      BY <1>1, <2>1, <2>3, <2>4 DEF TablesOK, TypeOK
  <1>7. CASE Emit(w) /\ t = task[w]
    <2>1. k.does \in Handlers /\ k.post \in 1..lastId
      BY <1>1, <1>7 DEF Emit, TaskOK
    <2>2. k.does.emits \in Kinds
      BY <1>1, <1>7, <2>1, HandlerTypes DEF Emit, TaskOK
    <2>3. [kind |-> k.does.emits, post |-> k.post, text |-> k.text] \in Event
      BY <1>1, <2>1, <2>2 DEF Event, Task
    <2>4. wire' \in [Workers -> Seq(Event)]
      BY <1>7, <2>3 DEF Emit, TypeOK
    <2>5. UNCHANGED <<post, lastId, pins, worn, revived>>
      BY <1>7 DEF Emit, tables, history
    <2> QED
      BY <1>1, <1>7, <2>1, <2>4, <2>5 DEF TablesOK, TypeOK
  <1> QED
    BY <1>2, <1>3, <1>4, <1>5, <1>6, <1>7 DEF Ran

\* Every action keeps tables, handlers, events and screen well typed.
LEMMA TypeStep == TypeOK /\ [Next]_vars => TypeOK'
  <1> SUFFICES ASSUME TypeOK, [Next]_vars PROVE TypeOK'
    OBVIOUS
  <1> USE DEF tables, client, history, counters
  <1>0. lastId \in Nat /\ 1..lastId \subseteq Posts
    BY ExistingPosts
  <1>1. CASE UNCHANGED vars
    BY <1>1 DEF vars, TypeOK, TaskOK
  <1>2. ASSUME NEW w \in Workers, Requests(w) PROVE TypeOK'
    <2>1. PICK t : Opened(t) /\ Take(w, t)
      BY <1>2, RequestShape
    <2>2. task' \in [Workers -> Task] /\ \A x \in Workers : TaskOK(task[x])'
      BY <2>1 DEF Take, Opened, TypeOK, TaskOK
    <2>3. served' \in 0..MaxHandlers
      BY <2>1, BoundAssumption DEF Take, TypeOK
    <2> QED
      BY <2>1, <2>2, <2>3 DEF Take, TypeOK
  <1>3. ASSUME NEW w \in Workers, Steps(w) PROVE TypeOK'
    <2>1. PICK t : Ran(w, t) /\ Proceed(w, t)
      BY <1>3, StepShape
    <2>2. /\ TablesOK' /\ lastId <= lastId' /\ lastId' \in Nat
          /\ wire' \in [Workers -> Seq(Event)]
          /\ t \in Task /\ t.does \in Handlers /\ t.post \in 1..lastId'
      BY <2>1, StepTypes, BoundAssumption DEF TablesOK, Posts
    <2>3. Advance(t) \in Task /\ Fits(Advance(t), lastId')
      BY <2>2, Advances, AdvanceFits
    <2>4. task' \in [Workers -> Task]
      BY <2>1, <2>3 DEF Proceed, TypeOK
    <2>5. \A x \in Workers : TaskOK(task[x])'
      <3> SUFFICES ASSUME NEW x \in Workers PROVE Fits(task'[x], lastId')
        BY DEF Fits, TaskOK
      <3>1. CASE x = w
        BY <2>1, <2>3, <3>1 DEF Proceed, TypeOK
      <3>2. CASE x # w
        <4>1. task'[x] = task[x] /\ Fits(task[x], lastId)
          BY <2>1, <3>2 DEF Proceed, TypeOK, Fits, TaskOK
        <4> QED
          BY <1>0, <2>2, <4>1, FitsKept
      <3> QED
        BY <3>1, <3>2
    <2> QED
      BY <2>1, <2>2, <2>4, <2>5 DEF Proceed, TablesOK, TypeOK
  <1>4. ASSUME NEW w \in Workers, Receive(w) PROVE TypeOK'
    <2>1. Head(wire[w]) \in Event /\ Tail(wire[w]) \in Seq(Event)
      BY <1>4 DEF Receive, TypeOK
    <2>2. {feed', pinTexts'} \subseteq [Posts -> Texts \cup {NoText}]
      <3>1. feed' \in [Posts -> Texts \cup {NoText}]
        BY <1>4, <2>1 DEF Receive, Shown, Event, TypeOK
      <3>2. pinTexts' \in [Posts -> Texts \cup {NoText}]
        BY <1>4, <2>1 DEF Receive, ShownPinTexts, Event, TypeOK
      <3> QED
        BY <3>1, <3>2
    <2>3. feedPins' \subseteq Posts
      BY <1>4, <2>1 DEF Receive, ShownPins, Event, TypeOK
    <2>4. wire' \in [Workers -> Seq(Event)]
      BY <1>4, <2>1 DEF Receive, TypeOK
    <2>5. UNCHANGED <<post, lastId, pins, task, stale, worn, revived, raced, served, crashes>>
      BY <1>4 DEF Receive
    <2>6. \A x \in Workers : TaskOK(task[x])'
      BY <2>5 DEF TypeOK, TaskOK
    <2>7. TablesOK'
      BY <2>5 DEF TypeOK, TablesOK
    <2> QED
      BY <2>2, <2>3, <2>4, <2>5, <2>6, <2>7 DEF TablesOK, TypeOK
  <1>5. ASSUME NEW w \in Workers, LoadPosts(w) \/ LoadPins(w) PROVE TypeOK'
    <2>1. {feed', pinTexts'} \subseteq [Posts -> Texts \cup {NoText}]
      <3>1. \A m \in Posts : post[m].text \in Texts \cup {NoText}
        BY DEF TypeOK, Row
      <3>2. CASE LoadPosts(w)
        <4>1. feed' \in [Posts -> Texts \cup {NoText}]
          BY <3>1, <3>2 DEF LoadPosts
        <4> QED
          BY <3>2, <4>1 DEF LoadPosts, TypeOK
      <3>3. CASE LoadPins(w)
        <4>1. pinTexts' \in [Posts -> Texts \cup {NoText}]
          BY <3>1, <3>3 DEF LoadPins
        <4> QED
          BY <3>3, <4>1 DEF LoadPins, TypeOK
      <3> QED
        BY <1>5, <3>2, <3>3
    <2>2. feedPins' \subseteq Posts
      <3>1. CASE LoadPosts(w)
        BY <3>1 DEF LoadPosts, TypeOK
      <3>2. CASE LoadPins(w)
        BY <1>0, <3>2 DEF LoadPins, TypeOK
      <3> QED
        BY <1>5, <3>1, <3>2
    <2>3. /\ stale' \subseteq {"posts", "pins"} /\ raced' \in BOOLEAN /\ served' \in 0..MaxHandlers
          /\ UNCHANGED <<tables, task, wire, history, crashes>>
      <3>1. PICK list : Load(w, list)
        BY <1>5 DEF LoadPosts, LoadPins
      <3>2. stale' \subseteq {"posts", "pins"}
        BY <3>1 DEF Load, TypeOK
      <3>3. raced' \in BOOLEAN
        BY <3>1 DEF Load, TypeOK
      <3>4. served' \in 0..MaxHandlers
        BY <3>1, BoundAssumption DEF Load, TypeOK
      <3> QED
        BY <3>1, <3>2, <3>3, <3>4 DEF Load
    <2>4. \A x \in Workers : TaskOK(task[x])'
      BY <2>3 DEF TypeOK, TaskOK
    <2>5. TablesOK' /\ wire' \in [Workers -> Seq(Event)]
      BY <2>3 DEF TypeOK, TablesOK
    <2>6. task' \in [Workers -> Task] /\ crashes' \in 0..MaxCrashes
      BY <2>3 DEF TypeOK
    <2> QED
      BY <2>1, <2>2, <2>3, <2>4, <2>5, <2>6 DEF TablesOK, TypeOK
  <1>6. ASSUME NEW w \in Workers, Crash(w) PROVE TypeOK'
    <2>1. task' \in [Workers -> Task] /\ \A x \in Workers : TaskOK(task[x])'
      BY <1>6, IdleType DEF Crash, TypeOK, TaskOK
    <2>2. wire' \in [Workers -> Seq(Event)]
      <3>1. PICK kept \in {<<>>, wire[w]} : wire' = [wire EXCEPT ![w] = kept]
        BY <1>6 DEF Crash
      <3>2. kept \in Seq(Event)
        <4>1. <<>> \in Seq(Event) /\ wire[w] \in Seq(Event)
          BY DEF TypeOK
        <4> QED
          BY <3>1, <4>1
      <3> QED
        BY <3>1, <3>2 DEF TypeOK
    <2>3. crashes' \in 0..MaxCrashes
      BY <1>6, BoundAssumption DEF Crash, TypeOK
    <2>4. stale' = {"posts", "pins"}
          /\ UNCHANGED <<post, lastId, pins, feed, feedPins, pinTexts, worn, revived, raced, served>>
      BY <1>6 DEF Crash
    <2>5. TablesOK' /\ {feed', pinTexts'} \subseteq [Posts -> Texts \cup {NoText}]
      BY <2>4 DEF TypeOK, TablesOK
    <2> QED
      BY <2>1, <2>2, <2>3, <2>4, <2>5 DEF TablesOK, TypeOK
  <1> QED
    BY <1>1, <1>2, <1>3, <1>4, <1>5, <1>6 DEF Next

LEMMA TypeInit == Init => TypeOK
  <1> SUFFICES ASSUME Init PROVE TypeOK
    OBVIOUS
  <1>1. NoRow \in Row
    BY DEF NoRow, Row
  <1>2. post \in [Posts -> Row] /\ \A m \in Posts : ~(m <= lastId) /\ post[m] = NoRow
    BY <1>1 DEF Init, Posts
  <1>3. task \in [Workers -> Task] /\ \A w \in Workers : TaskOK(task[w])
    BY IdleType DEF Init
  <1>4. served \in 0..MaxHandlers /\ crashes \in 0..MaxCrashes
    BY BoundAssumption DEF Init
  <1>5. /\ wire \in [Workers -> Seq(Event)]
        /\ worn \in [Posts -> Seq(Texts)]
        /\ {feed, pinTexts} \subseteq [Posts -> Texts \cup {NoText}]
    BY DEF Init
  <1> QED
    BY <1>2, <1>3, <1>4, <1>5 DEF Init, TypeOK

\* Tables, handlers, events on their way and screens are well typed in every
\* reachable state.
THEOREM TypeCorrect == Spec => []TypeOK
  BY TypeInit, TypeStep, PTL DEF Spec

-----------------------------------------------------------------------------
(* Scheduled posts.                                                        *)

\* The row of a written post: it does not become due again.
LEMMA DueFalls ==
    ASSUME TypeOK, [Next]_vars
    PROVE  /\ lastId' \in Nat /\ lastId <= lastId'
           /\ \A m \in 1..lastId : ~post[m].due => ~post'[m].due
  <1> USE DEF tables, client, history, counters
  <1>0. lastId \in Nat /\ 1..lastId \subseteq Posts
    BY ExistingPosts
  <1>1. CASE UNCHANGED <<post, lastId>>
    BY <1>0, <1>1
  <1>2. ASSUME NEW w \in Workers, NEW t, Ran(w, t), Steps(w)
        PROVE  /\ lastId' \in Nat /\ lastId <= lastId'
               /\ \A m \in 1..lastId : ~post[m].due => ~post'[m].due
    <2>1. lastId' \in Nat /\ lastId <= lastId'
      BY <1>2, StepTypes, BoundAssumption DEF TablesOK, Posts
    <2>2. CASE Insert(w)
      BY <1>0, <2>1, <2>2 DEF Insert, TypeOK
    <2>3. CASE Update(w) \/ MarkDeleted(w) \/ MarkPublished(w)
      <3> SUFFICES ASSUME NEW m \in 1..lastId, ~post[m].due PROVE ~post'[m].due
        BY <2>1
      <3>1. m \in Posts /\ post[m] \in Row
        BY <1>0 DEF TypeOK
      <3>2. CASE Update(w)
        BY <3>1, <3>2 DEF Update, TypeOK, Row
      <3>3. CASE MarkDeleted(w)
        BY <3>1, <3>3 DEF MarkDeleted, TypeOK, Row
      <3>4. CASE MarkPublished(w)
        BY <3>1, <3>4 DEF MarkPublished, TypeOK, Row
      <3> QED
        BY <2>3, <3>2, <3>3, <3>4
    <2>4. CASE SetPin(w) \/ ReadBack(w) \/ Emit(w)
      BY <2>1, <2>4 DEF SetPin, ReadBack, Emit
    <2> QED
      BY <1>2, <2>1, <2>2, <2>3, <2>4 DEF Steps
  <1>3. ASSUME NEW w \in Workers,
               Requests(w) \/ Receive(w) \/ LoadPosts(w) \/ LoadPins(w) \/ Crash(w)
        PROVE  UNCHANGED <<post, lastId>>
    <2>1. CASE Requests(w)
      <3>1. PICK t : Take(w, t)
        BY <2>1, RequestShape
      <3> QED
        BY <3>1 DEF Take
    <2> QED
      BY <1>3, <2>1 DEF Receive, LoadPosts, LoadPins, Load, Crash
  <1>4. CASE UNCHANGED vars
    BY <1>0, <1>4 DEF vars
  <1>5. ASSUME NEW w \in Workers, Steps(w)
        PROVE  /\ lastId' \in Nat /\ lastId <= lastId'
               /\ \A m \in 1..lastId : ~post[m].due => ~post'[m].due
    BY <1>2, <1>5, StepShape
  <1> QED
    BY <1>1, <1>3, <1>4, <1>5 DEF Next

\* News is only of posts that are written and not due.
IsOut(m) == m \in 1..lastId /\ ~post[m].due
QuietInv ==
    /\ \A w \in Workers :
          /\ task[w].at = "write" /\ task[w].does.write = "insert" =>
                task[w].due = (task[w].does = Scheduling)
          /\ task[w].at \in {"read", "emit"} /\ task[w].does.emits = "new" => IsOut(task[w].post)
    /\ \A w \in Workers : \A i \in DOMAIN wire[w] :
          wire[w][i].kind = "new" => IsOut(wire[w][i].post)

\* The invariant is inductive: a handler that emits "new" has inserted a post
\* without scheduled_at or removed it, and no statement writes it again.
LEMMA QuietStep == TypeOK /\ QuietInv /\ [Next]_vars => QuietInv'
  <1> SUFFICES ASSUME TypeOK, QuietInv, [Next]_vars PROVE QuietInv'
    OBVIOUS
  <1> USE DEF tables, client, history, counters
  <1>1. /\ lastId \in Nat /\ lastId' \in Nat /\ lastId <= lastId'
        /\ \A m : IsOut(m) => m \in 1..lastId' /\ ~post'[m].due
    BY ExistingPosts, DueFalls DEF IsOut
  <1> DEFINE TaskQuiet(k) ==
                /\ k.at = "write" /\ k.does.write = "insert" => k.due = (k.does = Scheduling)
                /\ k.at \in {"read", "emit"} /\ k.does.emits = "new" =>
                      k.post \in 1..lastId' /\ ~post'[k.post].due
             EventQuiet(e) == e.kind = "new" => e.post \in 1..lastId' /\ ~post'[e.post].due
  <1>2. /\ \A x \in Workers : TaskQuiet(task[x])
        /\ \A x \in Workers : \A i \in DOMAIN wire[x] : EventQuiet(wire[x][i])
    BY <1>1 DEF QuietInv
  <1>3. SUFFICES /\ \A x \in Workers : TaskQuiet(task'[x])
                 /\ \A x \in Workers : \A i \in DOMAIN wire'[x] : EventQuiet(wire'[x][i])
    BY DEF QuietInv, IsOut
  <1>4. TaskQuiet(Idle)
    BY DEF Idle
  <1> HIDE DEF TaskQuiet, EventQuiet
  <1>5. CASE UNCHANGED vars
    BY <1>2, <1>5 DEF vars
  <1>6. ASSUME NEW w \in Workers, Requests(w)
        PROVE  /\ \A x \in Workers : TaskQuiet(task'[x])
               /\ \A x \in Workers : \A i \in DOMAIN wire'[x] : EventQuiet(wire'[x][i])
    <2>1. PICK t : Opened(t) /\ Take(w, t)
      BY <1>6, RequestShape
    <2>2. TaskQuiet(t)
      BY <2>1 DEF Opened, TaskQuiet
    <2> QED
      BY <1>2, <2>1, <2>2 DEF Take, TypeOK
  <1>7. ASSUME NEW w \in Workers, Steps(w)
        PROVE  /\ \A x \in Workers : TaskQuiet(task'[x])
               /\ \A x \in Workers : \A i \in DOMAIN wire'[x] : EventQuiet(wire'[x][i])
    <2>1. PICK t : Ran(w, t) /\ Proceed(w, t)
      BY <1>7, StepShape
    <2>2. t \in Task /\ t.does \in Handlers /\ t.post \in 1..lastId'
      BY <2>1, StepTypes
    <2>3. task[w] \in Task /\ task[w].does = t.does /\ TaskOK(task[w])
      BY <2>1 DEF Ran, TypeOK, Task
    <2>4. t.does.emits = "new" => ~post'[t.post].due
      <3> SUFFICES ASSUME t.does.emits = "new" PROVE ~post'[t.post].due
        OBVIOUS
      <3>1. CASE Insert(w) /\ t = [task[w] EXCEPT !.post = lastId + 1]
        <4>1. /\ task[w].at = "write" /\ task[w].does.write = "insert"
              /\ t.post = lastId + 1
              /\ post' = [post EXCEPT ![lastId + 1] =
                            [by |-> task[w].by, text |-> task[w].text, due |-> task[w].due,
                             deleted |-> FALSE, past |-> <<>>]]
          BY <2>3, <3>1 DEF Insert, Write, Task
        <4>2. task[w].due = (task[w].does = Scheduling)
          BY <4>1 DEF QuietInv
        <4>3. ~task[w].due
          BY <2>3, <4>2, HandlerTypes
        <4>4. lastId + 1 \in Posts
          BY <1>1, <3>1, BoundAssumption DEF Insert, Posts
        <4> QED
          BY <4>1, <4>3, <4>4 DEF TypeOK
      <3>2. CASE MarkPublished(w) /\ t = task[w]
        <4>1. t.post \in Posts /\ post[t.post] \in Row
          BY <3>2, <2>2, ExistingPosts DEF MarkPublished, TypeOK
        <4> QED
          BY <3>2, <4>1 DEF MarkPublished, TypeOK, Row
      <3>3. CASE (Update(w) \/ MarkDeleted(w) \/ SetPin(w)) /\ t = task[w]
        BY <2>2, <3>3, HandlerTypes DEF Update, MarkDeleted, SetPin, Write
      <3>4. CASE (ReadBack(w) \/ Emit(w)) /\ task[w].post = t.post
        BY <1>2, <2>3, <3>4 DEF ReadBack, Emit, TaskQuiet
      <3> QED
        BY <2>1, <2>3, <3>1, <3>2, <3>3, <3>4 DEF Ran, Task
    <2>5. TaskQuiet(Advance(t))
      <3>1. CASE Advance(t) = Idle
        BY <1>4, <3>1
      <3>2. CASE /\ Advance(t).at \in {"read", "emit"}
                 /\ Advance(t).does = t.does /\ Advance(t).post = t.post
        BY <2>2, <2>4, <3>2 DEF TaskQuiet
      <3> QED
        BY <2>2, <3>1, <3>2, Advances DEF Task
    <2>6. \A x \in Workers : TaskQuiet(task'[x])
      BY <1>2, <2>1, <2>5 DEF Proceed, TypeOK
    <2>7. CASE UNCHANGED wire
      BY <1>2, <2>6, <2>7
    <2>8. CASE Emit(w)
      <3> DEFINE e == [kind |-> task[w].does.emits, post |-> task[w].post, text |-> task[w].text]
      <3>1. task[w].at = "emit" /\ wire' = [wire EXCEPT ![w] = Append(wire[w], e)]
        BY <2>8 DEF Emit
      <3>2. EventQuiet(e)
        BY <1>2, <3>1 DEF EventQuiet, TaskQuiet
      <3> HIDE DEF e
      <3>3. wire[w] \in Seq(Event)
        BY DEF TypeOK
      <3>4. \A i \in DOMAIN Append(wire[w], e) : EventQuiet(Append(wire[w], e)[i])
        BY <1>2, <3>2, <3>3
      <3> QED
        BY <1>2, <2>6, <3>1, <3>4 DEF TypeOK
    <2> QED
      BY <2>1, <2>7, <2>8 DEF Ran, Insert, Update, MarkDeleted, MarkPublished, SetPin, ReadBack,
                              Write
  <1>8. ASSUME NEW w \in Workers, Receive(w)
        PROVE  /\ \A x \in Workers : TaskQuiet(task'[x])
               /\ \A x \in Workers : \A i \in DOMAIN wire'[x] : EventQuiet(wire'[x][i])
    <2>1. wire[w] \in Seq(Event) /\ wire[w] # <<>>
      BY <1>8 DEF Receive, TypeOK
    <2>2. \A i \in DOMAIN Tail(wire[w]) : EventQuiet(Tail(wire[w])[i])
      <3> SUFFICES ASSUME NEW i \in DOMAIN Tail(wire[w]) PROVE EventQuiet(Tail(wire[w])[i])
        OBVIOUS
      <3>1. i + 1 \in DOMAIN wire[w] /\ Tail(wire[w])[i] = wire[w][i + 1]
        BY <2>1
      <3> QED
        BY <1>2, <3>1
    <2> QED
      BY <1>2, <1>8, <2>2 DEF Receive, TypeOK
  <1>9. ASSUME NEW w \in Workers, LoadPosts(w) \/ LoadPins(w)
        PROVE  /\ \A x \in Workers : TaskQuiet(task'[x])
               /\ \A x \in Workers : \A i \in DOMAIN wire'[x] : EventQuiet(wire'[x][i])
    BY <1>2, <1>9 DEF LoadPosts, LoadPins, Load
  <1>10. ASSUME NEW w \in Workers, Crash(w)
         PROVE  /\ \A x \in Workers : TaskQuiet(task'[x])
                /\ \A x \in Workers : \A i \in DOMAIN wire'[x] : EventQuiet(wire'[x][i])
    <2>1. PICK kept \in {<<>>, wire[w]} : wire' = [wire EXCEPT ![w] = kept]
      BY <1>10 DEF Crash
    <2>2. \A i \in DOMAIN kept : EventQuiet(kept[i])
      BY <1>2, <2>1
    <2> QED
      BY <1>2, <1>4, <1>10, <2>1, <2>2 DEF Crash, TypeOK
  <1> QED
    BY <1>5, <1>6, <1>7, <1>8, <1>9, <1>10 DEF Next

LEMMA QuietInit == Init => QuietInv
  BY IdleType DEF Init, QuietInv

\* No list of posts shows a scheduled post before it is published: what is
\* received as new is out, and the list GET returns leaves scheduled posts out.
\* A list of pins shows no post that is not pinned.
THEOREM ScheduledQuiet == Spec => ScheduledIsQuiet
  <1> DEFINE Pinned(m) == pinTexts[m] = NoText /\ pinTexts'[m] # NoText => m \in pins
             A == \A m \in Posts :
                      /\ feed[m] = NoText /\ feed'[m] # NoText => m \in Existing /\ ~post[m].due
                      /\ Pinned(m)
  <1>1. TypeOK /\ QuietInv /\ [Next]_vars => [A]_vars
    <2> SUFFICES ASSUME TypeOK, QuietInv, [Next]_vars, NEW m \in Posts
                 PROVE  /\ feed[m] = NoText /\ feed'[m] # NoText => m \in Existing /\ ~post[m].due
                        /\ Pinned(m)
      OBVIOUS
    <2> USE DEF tables, client, history, counters
    <2>7. Pinned(m)
      <3>1. ASSUME NEW w \in Workers, Receive(w) PROVE Pinned(m)
        BY <3>1 DEF Receive, ShownPinTexts, TypeOK
      <3>2. ASSUME NEW w \in Workers, LoadPosts(w) \/ LoadPins(w) \/ Crash(w) PROVE Pinned(m)
        BY <3>2 DEF LoadPosts, LoadPins, Crash
      <3>3. ASSUME NEW w \in Workers, Requests(w) PROVE UNCHANGED pinTexts
        <4>1. PICK t : Take(w, t)
          BY <3>3, RequestShape
        <4> QED
          BY <4>1 DEF Take
      <3>4. ASSUME NEW w \in Workers, Steps(w) PROVE UNCHANGED pinTexts
        BY <3>4, StepShape DEF Proceed
      <3>5. UNCHANGED vars => UNCHANGED pinTexts
        BY DEF vars
      <3> QED
        BY <3>1, <3>2, <3>3, <3>4, <3>5 DEF Next
    <2> SUFFICES ASSUME feed[m] = NoText, feed'[m] # NoText
                 PROVE  m \in Existing /\ ~post[m].due
      BY <2>7
    <2>1. ASSUME NEW w \in Workers, Receive(w) PROVE m \in Existing /\ ~post[m].due
      <3> DEFINE e == Head(wire[w])
      <3>1. wire[w] \in Seq(Event) /\ wire[w] # <<>> /\ feed' = Shown(e)
        BY <2>1 DEF Receive, TypeOK
      <3>2. e = wire[w][1] /\ 1 \in DOMAIN wire[w]
        BY <3>1
      <3>3. e.post = m /\ e.kind = "new"
        BY <3>1 DEF Shown, TypeOK
      <3> QED
        BY <3>2, <3>3 DEF QuietInv, IsOut, Existing
    <2>2. ASSUME NEW w \in Workers, LoadPosts(w) PROVE m \in Existing /\ ~post[m].due
      BY <2>2 DEF LoadPosts, Visible
    <2>3. ASSUME NEW w \in Workers, Requests(w) PROVE UNCHANGED feed
      <3>1. PICK t : Take(w, t)
        BY <2>3, RequestShape
      <3> QED
        BY <3>1 DEF Take
    <2>4. ASSUME NEW w \in Workers, Steps(w) PROVE UNCHANGED feed
      BY <2>4, StepShape DEF Proceed
    <2>5. ASSUME NEW w \in Workers, LoadPins(w) \/ Crash(w) PROVE UNCHANGED feed
      BY <2>5 DEF LoadPins, Crash
    <2>6. CASE UNCHANGED vars
      BY <2>6 DEF vars
    <2> QED
      BY <2>1, <2>2, <2>3, <2>4, <2>5, <2>6 DEF Next
  <1> QED
    BY <1>1, TypeInit, TypeStep, QuietInit, QuietStep, PTL DEF Spec, ScheduledIsQuiet

-----------------------------------------------------------------------------
(* Histories.                                                              *)

LEMMA NothingWithin == Within(<<>>, <<>>)
  <1>1. DOMAIN <<>> = {}
    OBVIOUS
  <1> DEFINE f == [i \in {} |-> i]
  <1>2. f \in [DOMAIN <<>> -> DOMAIN <<>>]
    BY <1>1
  <1>3. /\ \A i, j \in DOMAIN <<>> : i < j => f[i] < f[j]
        /\ \A i \in DOMAIN <<>> : <<>>[i] = <<>>[f[i]]
    BY <1>1
  <1> HIDE DEF f
  <1> QED
    BY <1>2, <1>3 DEF Within

LEMMA WithinLonger ==
    ASSUME NEW s \in Seq(Texts), NEW t \in Seq(Texts), NEW x \in Texts, Within(s, t)
    PROVE  Within(s, Append(t, x))
  <1>1. PICK f \in [DOMAIN s -> DOMAIN t] :
            /\ \A i, j \in DOMAIN s : i < j => f[i] < f[j]
            /\ \A i \in DOMAIN s : s[i] = t[f[i]]
    BY DEF Within
  <1>2. \A k \in DOMAIN t : k \in DOMAIN Append(t, x) /\ Append(t, x)[k] = t[k]
    OBVIOUS
  <1>3. f \in [DOMAIN s -> DOMAIN Append(t, x)]
    BY <1>2
  <1>4. \A i \in DOMAIN s : s[i] = Append(t, x)[f[i]]
    BY <1>1, <1>2
  <1> QED
    BY <1>1, <1>3, <1>4 DEF Within

LEMMA WithinBoth ==
    ASSUME NEW s \in Seq(Texts), NEW t \in Seq(Texts), NEW x \in Texts, Within(s, t)
    PROVE  Within(Append(s, x), Append(t, x))
  <1>1. PICK f \in [DOMAIN s -> DOMAIN t] :
            /\ \A i, j \in DOMAIN s : i < j => f[i] < f[j]
            /\ \A i \in DOMAIN s : s[i] = t[f[i]]
    BY DEF Within
  <1> DEFINE a == Append(s, x)
             b == Append(t, x)
             g == [i \in DOMAIN a |-> IF i \in DOMAIN s THEN f[i] ELSE Len(t) + 1]
  <1>2. /\ DOMAIN s = 1..Len(s) /\ DOMAIN a = 1..(Len(s) + 1) /\ Len(s) \in Nat
        /\ DOMAIN t = 1..Len(t) /\ DOMAIN b = 1..(Len(t) + 1) /\ Len(t) \in Nat
    OBVIOUS
  <1>3. /\ \A i \in DOMAIN s : a[i] = s[i]
        /\ \A i \in DOMAIN t : b[i] = t[i]
        /\ a[Len(s) + 1] = x /\ b[Len(t) + 1] = x
    OBVIOUS
  <1> HIDE DEF a, b
  <1>4. g \in [DOMAIN a -> DOMAIN b]
    BY <1>2
  <1>5. \A i, j \in DOMAIN a : i < j => g[i] < g[j]
    <2> SUFFICES ASSUME NEW i \in DOMAIN a, NEW j \in DOMAIN a, i < j PROVE g[i] < g[j]
      OBVIOUS
    <2>1. i \in DOMAIN s /\ g[i] = f[i] /\ f[i] \in 1..Len(t)
      BY <1>2
    <2>2. CASE j \in DOMAIN s
      BY <1>1, <2>1, <2>2
    <2>3. CASE j \notin DOMAIN s
      BY <1>2, <2>1, <2>3
    <2> QED
      BY <2>2, <2>3
  <1>6. \A i \in DOMAIN a : a[i] = b[g[i]]
    <2> SUFFICES ASSUME NEW i \in DOMAIN a PROVE a[i] = b[g[i]]
      OBVIOUS
    <2>1. CASE i \in DOMAIN s
      BY <1>1, <1>3, <2>1
    <2>2. CASE i \notin DOMAIN s
      BY <1>2, <1>3, <2>2
    <2> QED
      BY <2>1, <2>2
  <1>7. Within(a, b)
    BY <1>4, <1>5, <1>6 DEF Within
  <1> QED
    BY <1>7 DEF a, b

\* What an edit that has read its post is about to store as history.
Edits(w) == task[w].at = "write" /\ task[w].does = Editing
OrderInv ==
    /\ HistoryIsOrdered
    /\ \A w \in Workers : Edits(w) => Within(task[w].past, worn[task[w].post])

\* As long as handlers do not overlap, there is one handler at most, and what it
\* has read is still there.
CompleteInv ==
    ~raced =>
        /\ \A w, x \in Workers : w # x => Ready(w) \/ Ready(x)
        /\ HistoryIsComplete
        /\ \A w \in Workers : Edits(w) => task[w].past = worn[task[w].post]

\* A handler that still writes has been one since it took its request.
LEMMA EditsStay ==
    ASSUME TypeOK, [Next]_vars, NEW w \in Workers, Edits(w)'
    PROVE  \/ Edits(w) /\ task'[w] = task[w]
           \/ /\ \E t : Opened(t) /\ Take(w, t)
              /\ UNCHANGED <<post, lastId, worn>>
              /\ task'[w].post \in 1..lastId
              /\ task'[w].past = Append(post[task'[w].post].past, post[task'[w].post].text)
  <1> USE DEF tables, client, history, counters
  <1>1. CASE task'[w] = task[w]
    BY <1>1 DEF Edits
  <1>2. ASSUME NEW x \in Workers, Requests(x), task'[w] # task[w]
        PROVE  /\ \E t : Opened(t) /\ Take(w, t)
               /\ UNCHANGED <<post, lastId, worn>>
               /\ task'[w].post \in 1..lastId
               /\ task'[w].past = Append(post[task'[w].post].past, post[task'[w].post].text)
    <2>1. PICK t : Opened(t) /\ Take(x, t)
      BY <1>2, RequestShape
    <2>2. x = w /\ task'[w] = t
      BY <1>2, <2>1 DEF Take, TypeOK
    <2>3. t.does = Editing /\ t.at = "write"
      BY <2>2 DEF Edits
    <2> QED
      BY <2>1, <2>2, <2>3, HandlerTypes DEF Take, Opened, Remembered, TaskOK
  <1>3. ASSUME NEW x \in Workers, Steps(x) PROVE task'[w] = task[w]
    <2>1. PICK t : Ran(x, t) /\ Proceed(x, t)
      BY <1>3, StepShape
    <2>2. t \in Task
      BY <2>1, StepTypes
    <2>3. Advance(t).at # "write"
      BY <2>2, Advances, IdleType
    <2> QED
      BY <2>1, <2>3 DEF Proceed, TypeOK, Edits
  <1>4. ASSUME NEW x \in Workers, Receive(x) \/ LoadPosts(x) \/ LoadPins(x)
        PROVE  task'[w] = task[w]
    BY <1>4 DEF Receive, LoadPosts, LoadPins, Load
  <1>5. ASSUME NEW x \in Workers, Crash(x) PROVE task'[w] = task[w]
    BY <1>5, IdleType DEF Crash, TypeOK, Edits
  <1>6. UNCHANGED vars => task'[w] = task[w]
    BY DEF vars
  <1> QED
    BY <1>1, <1>2, <1>3, <1>4, <1>5, <1>6 DEF Next

\* What an action does to texts and histories.
LEMMA Wears ==
    ASSUME TypeOK, [Next]_vars
    PROVE  \/ /\ lastId' = lastId /\ worn' = worn
              /\ \A m \in 1..lastId : post'[m].past = post[m].past /\ post'[m].text = post[m].text
           \/ \E w \in Workers : Insert(w)
           \/ \E w \in Workers : Update(w)
  <1> USE DEF tables, client, history, counters
  <1>1. ASSUME NEW w \in Workers, Steps(w), ~Insert(w), ~Update(w)
        PROVE  /\ lastId' = lastId /\ worn' = worn
               /\ \A m \in 1..lastId : post'[m].past = post[m].past /\ post'[m].text = post[m].text
    <2>1. CASE MarkDeleted(w) \/ MarkPublished(w)
      <3> SUFFICES ASSUME NEW m \in 1..lastId
                   PROVE  post'[m].past = post[m].past /\ post'[m].text = post[m].text
        BY <2>1 DEF MarkDeleted, MarkPublished
      <3>1. m \in Posts /\ post[m] \in Row
        BY ExistingPosts DEF TypeOK
      <3>2. CASE MarkDeleted(w)
        BY <3>1, <3>2 DEF MarkDeleted, TypeOK, Row
      <3>3. CASE MarkPublished(w)
        BY <3>1, <3>3 DEF MarkPublished, TypeOK, Row
      <3> QED
        BY <2>1, <3>2, <3>3
    <2>2. CASE SetPin(w) \/ ReadBack(w) \/ Emit(w)
      BY <2>2 DEF SetPin, ReadBack, Emit
    <2> QED
      BY <1>1, <2>1, <2>2 DEF Steps
  <1>2. ASSUME NEW w \in Workers, Requests(w) PROVE UNCHANGED <<post, lastId, worn>>
    <2>1. PICK t : Take(w, t)
      BY <1>2, RequestShape
    <2> QED
      BY <2>1 DEF Take
  <1>3. ASSUME NEW w \in Workers, Receive(w) \/ LoadPosts(w) \/ LoadPins(w) \/ Crash(w)
        PROVE  UNCHANGED <<post, lastId, worn>>
    BY <1>3 DEF Receive, LoadPosts, LoadPins, Load, Crash
  <1>4. CASE UNCHANGED vars
    BY <1>4 DEF vars
  <1> QED
    BY <1>1, <1>2, <1>3, <1>4 DEF Next

LEMMA Inserts ==
    ASSUME TypeOK, NEW w \in Workers, Insert(w)
    PROVE  /\ lastId' = lastId + 1 /\ lastId' \in Posts /\ task[w].text \in Texts
           /\ post'[lastId'].past = <<>> /\ post'[lastId'].text = task[w].text
           /\ worn'[lastId'] = <<task[w].text>>
           /\ \A m \in 1..lastId : post'[m] = post[m] /\ worn'[m] = worn[m]
  <1>1. task[w].text \in Texts
    BY DEF Insert, Write, TypeOK, TaskOK
  <1>2. lastId' = lastId + 1 /\ lastId' \in Posts /\ lastId \in Nat /\ 1..lastId \subseteq Posts
    BY ExistingPosts, BoundAssumption DEF Insert, Posts
  <1>3. \A m \in 1..lastId : m \in Posts /\ m # lastId'
    BY <1>2
  <1> QED
    BY <1>1, <1>2, <1>3 DEF Insert, TypeOK

LEMMA Updates ==
    ASSUME TypeOK, NEW w \in Workers, Update(w)
    PROVE  /\ Edits(w) /\ lastId' = lastId
           /\ task[w].post \in 1..lastId /\ task[w].text \in Texts /\ task[w].past \in Seq(Texts)
           /\ post'[task[w].post].past = task[w].past
           /\ post'[task[w].post].text = task[w].text
           /\ worn'[task[w].post] = Append(worn[task[w].post], task[w].text)
           /\ \A m \in 1..lastId \ {task[w].post} : post'[m] = post[m] /\ worn'[m] = worn[m]
  <1> DEFINE k == task[w]
  <1>1. /\ k \in Task /\ k.at = "write" /\ k.does.write = "update" /\ TaskOK(k)
        /\ 1..lastId \subseteq Posts
    BY ExistingPosts DEF Update, Write, TypeOK
  <1>2. /\ k.does = Editing /\ k.post \in 1..lastId /\ k.text \in Texts /\ k.past \in Seq(Texts)
        /\ k.post \in Posts
    BY <1>1, HandlerTypes DEF TaskOK, Task
  <1>3. /\ post' = [post EXCEPT ![k.post].text = k.text, ![k.post].past = k.past]
        /\ worn' = [worn EXCEPT ![k.post] = Append(worn[k.post], k.text)]
        /\ lastId' = lastId
    BY DEF Update
  <1>4. post[k.post] \in Row
    BY <1>2 DEF TypeOK
  <1> QED
    BY <1>1, <1>2, <1>3, <1>4 DEF Edits, TypeOK, Row

\* What is known of an edit on its way.
LEMMA EditTypes ==
    ASSUME TypeOK, NEW w \in Workers, Edits(w)
    PROVE  task[w].post \in 1..lastId /\ task[w].past \in Seq(Texts)
           /\ worn[task[w].post] \in Seq(Texts)
  <1>1. task[w].post \in 1..lastId /\ task[w].past \in Seq(Texts)
    BY HandlerTypes DEF Edits, TypeOK, TaskOK, Task
  <1> QED
    BY <1>1, ExistingPosts DEF TypeOK

\* The invariant is inductive: an edit appends to what it has read, which was
\* a subsequence of what the post had said then, and the post has only said more.
LEMMA OrderStep == TypeOK /\ OrderInv /\ [Next]_vars => OrderInv'
  <1> SUFFICES ASSUME TypeOK, OrderInv, [Next]_vars PROVE OrderInv'
    OBVIOUS
  <1>0. lastId \in Nat /\ 1..lastId \subseteq Posts
    BY ExistingPosts
  <1>1. CASE /\ lastId' = lastId /\ worn' = worn
             /\ \A m \in 1..lastId : post'[m].past = post[m].past /\ post'[m].text = post[m].text
    <2>1. HistoryIsOrdered'
      BY <1>1 DEF OrderInv, HistoryIsOrdered, Existing
    <2>2. ASSUME NEW x \in Workers, Edits(x)' PROVE Within(task'[x].past, worn'[task'[x].post])
      BY <1>1, <2>2, EditsStay DEF OrderInv, HistoryIsOrdered, Existing
    <2> QED
      BY <2>1, <2>2 DEF OrderInv
  <1>2. ASSUME NEW w \in Workers, Insert(w) PROVE OrderInv'
    <2> DEFINE x == task[w].text
    <2>1. /\ x \in Texts /\ lastId' = lastId + 1
          /\ post'[lastId'].past = <<>> /\ post'[lastId'].text = x
          /\ worn'[lastId'] = <<x>>
          /\ \A m \in 1..lastId : post'[m] = post[m] /\ worn'[m] = worn[m]
      BY <1>2, Inserts
    <2> HIDE DEF x
    <2>2. <<>> \in Seq(Texts) /\ Append(<<>>, x) = <<x>>
      BY <2>1
    <2>3. Within(Append(<<>>, x), <<x>>)
      BY <2>1, <2>2, NothingWithin, WithinBoth
    <2>4. HistoryIsOrdered'
      <3> SUFFICES ASSUME NEW m \in 1..lastId'
                   PROVE  Within(Append(post'[m].past, post'[m].text), worn'[m])
        BY DEF HistoryIsOrdered, Existing
      <3>1. CASE m = lastId'
        BY <2>1, <2>3, <3>1
      <3>2. CASE m # lastId'
        <4>1. m \in 1..lastId
          BY <1>0, <2>1, <3>2
        <4> QED
          BY <2>1, <4>1 DEF OrderInv, HistoryIsOrdered, Existing
      <3> QED
        BY <3>1, <3>2
    <2>5. ASSUME NEW y \in Workers, Edits(y)' PROVE Within(task'[y].past, worn'[task'[y].post])
      <3>1. Edits(y) /\ task'[y] = task[y]
        BY <1>0, <2>1, <2>5, EditsStay
      <3> QED
        BY <2>1, <3>1, EditTypes DEF OrderInv
    <2> QED
      BY <2>4, <2>5 DEF OrderInv
  <1>3. ASSUME NEW w \in Workers, Update(w) PROVE OrderInv'
    <2> DEFINE k == task[w]
    <2>1. /\ Edits(w) /\ lastId' = lastId
          /\ k.post \in 1..lastId /\ k.text \in Texts /\ k.past \in Seq(Texts)
          /\ post'[k.post].past = k.past /\ post'[k.post].text = k.text
          /\ worn'[k.post] = Append(worn[k.post], k.text)
          /\ \A m \in 1..lastId \ {k.post} : post'[m] = post[m] /\ worn'[m] = worn[m]
      BY <1>3, Updates
    <2>2. worn[k.post] \in Seq(Texts) /\ Within(k.past, worn[k.post])
      BY <2>1, EditTypes DEF OrderInv
    <2> HIDE DEF k
    <2>3. Within(Append(k.past, k.text), worn'[k.post])
      BY <2>1, <2>2, WithinBoth
    <2>4. HistoryIsOrdered'
      <3> SUFFICES ASSUME NEW m \in 1..lastId
                   PROVE  Within(Append(post'[m].past, post'[m].text), worn'[m])
        BY <2>1 DEF HistoryIsOrdered, Existing
      <3>1. CASE m = k.post
        BY <2>1, <2>3, <3>1
      <3>2. CASE m # k.post
        BY <2>1, <3>2 DEF OrderInv, HistoryIsOrdered, Existing
      <3> QED
        BY <3>1, <3>2
    <2>5. ASSUME NEW y \in Workers, Edits(y)' PROVE Within(task'[y].past, worn'[task'[y].post])
      <3>1. CASE Edits(y) /\ task'[y] = task[y]
        <4>1. /\ task[y].post \in 1..lastId /\ task[y].past \in Seq(Texts)
              /\ worn[task[y].post] \in Seq(Texts)
              /\ Within(task[y].past, worn[task[y].post])
          BY <3>1, EditTypes DEF OrderInv
        <4>2. CASE task[y].post = k.post
          BY <2>1, <3>1, <4>1, <4>2, WithinLonger
        <4>3. CASE task[y].post # k.post
          BY <2>1, <3>1, <4>1, <4>3
        <4> QED
          BY <4>2, <4>3
      <3>2. CASE UNCHANGED worn
        <4>1. Append(worn[k.post], k.text) # worn[k.post]
          BY <2>1, <2>2
        <4> QED
          BY <2>1, <3>2, <4>1
      <3> QED
        BY <2>5, <3>1, <3>2, EditsStay
    <2> QED
      BY <2>4, <2>5 DEF OrderInv
  <1> QED
    BY <1>1, <1>2, <1>3, Wears

LEMMA OrderInit == Init => OrderInv
  BY IdleType DEF Init, OrderInv, Edits, HistoryIsOrdered, Existing

\* Whatever edits overlap, history and text of a post are a subsequence of what
\* it has said.
THEOREM HistoryOrdered == Spec => []HistoryIsOrdered
  <1>1. OrderInv => HistoryIsOrdered
    BY DEF OrderInv
  <1> QED
    BY <1>1, TypeInit, TypeStep, OrderInit, OrderStep, PTL DEF Spec

\* A worker that is busy has been busy or has just taken a request, and handlers
\* that have overlapped have overlapped.
LEMMA Busy ==
    ASSUME TypeOK, [Next]_vars
    PROVE  /\ raced => raced'
           /\ \A w \in Workers : ~Ready(w)' => ~Ready(w) \/ \E t : Take(w, t)
  <1> USE DEF tables, client, history, counters
  <1>1. ASSUME NEW x \in Workers, NEW t, Take(x, t)
        PROVE  /\ raced => raced'
               /\ \A w \in Workers : ~Ready(w)' => ~Ready(w) \/ Take(w, t)
    BY <1>1 DEF Take, TypeOK, Ready
  <1>2. ASSUME NEW x \in Workers, Steps(x)
        PROVE  raced' = raced /\ \A w \in Workers : ~Ready(w)' => ~Ready(w)
    <2>1. PICK t : Ran(x, t) /\ Proceed(x, t)
      BY <1>2, StepShape
    <2>2. task[x].at # "idle"
      BY <1>2 DEF Steps, Insert, Update, MarkDeleted, MarkPublished, SetPin, ReadBack, Emit, Write
    <2>3. ~Ready(x)
      BY <2>2, IdleType DEF Ready
    <2> QED
      BY <2>1, <2>3 DEF Proceed, TypeOK, Ready
  <1>3. ASSUME NEW x \in Workers, Receive(x) \/ LoadPosts(x) \/ LoadPins(x) \/ Crash(x)
        PROVE  /\ raced => raced'
               /\ \A w \in Workers : ~Ready(w)' => ~Ready(w)
    BY <1>3 DEF Receive, LoadPosts, LoadPins, Load, Crash, TypeOK, Ready
  <1>4. CASE UNCHANGED vars
    BY <1>4 DEF vars, Ready
  <1> QED
    BY <1>1, <1>2, <1>3, <1>4, RequestShape DEF Next

\* The invariant is inductive: an edit that nothing overlaps finds its post as it
\* has read it.
LEMMA CompleteStep == TypeOK /\ CompleteInv /\ [Next]_vars => CompleteInv'
  <1> SUFFICES ASSUME TypeOK, CompleteInv, [Next]_vars, ~raced' PROVE CompleteInv'
    BY DEF CompleteInv
  <1>1. /\ \A w, x \in Workers : w # x => Ready(w) \/ Ready(x)
        /\ \A m \in 1..lastId : worn[m] = Append(post[m].past, post[m].text)
        /\ \A w \in Workers : Edits(w) => task[w].past = worn[task[w].post]
    BY Busy DEF CompleteInv, HistoryIsComplete, Existing
  <1>2. ASSUME NEW w \in Workers, NEW x \in Workers, w # x, ~Ready(w)', ~Ready(x)'
        PROVE  FALSE
    <2>1. ASSUME NEW y \in Workers, NEW z \in Workers, y # z, NEW t, Take(y, t)
          PROVE  Ready(z)'
      BY <1>2, <2>1 DEF Take, Settled, Ready, TypeOK
    <2> QED
      BY <1>1, <1>2, <2>1, Busy
  <1>3. ASSUME NEW m \in 1..lastId'
        PROVE  worn'[m] = Append(post'[m].past, post'[m].text)
    <2>1. CASE /\ lastId' = lastId /\ worn' = worn
               /\ \A n \in 1..lastId : post'[n].past = post[n].past /\ post'[n].text = post[n].text
      BY <1>1, <1>3, <2>1
    <2>2. ASSUME NEW w \in Workers, Insert(w)
          PROVE  worn'[m] = Append(post'[m].past, post'[m].text)
      <3> DEFINE a == task[w].text
      <3>1. /\ lastId' = lastId + 1 /\ a \in Texts
            /\ post'[lastId'].past = <<>> /\ post'[lastId'].text = a /\ worn'[lastId'] = <<a>>
            /\ \A n \in 1..lastId : post'[n] = post[n] /\ worn'[n] = worn[n]
        BY <2>2, Inserts
      <3> HIDE DEF a
      <3>2. CASE m = lastId'
        <4>1. Append(<<>>, a) = <<a>>
          BY <3>1
        <4> QED
          BY <3>1, <3>2, <4>1, Zenon
      <3>3. CASE m # lastId'
        <4>1. m \in 1..lastId
          BY <3>1, <3>3, ExistingPosts
        <4> QED
          BY <1>1, <3>1, <4>1
      <3> QED
        BY <3>2, <3>3
    <2>3. ASSUME NEW w \in Workers, Update(w)
          PROVE  worn'[m] = Append(post'[m].past, post'[m].text)
      <3>1. /\ Edits(w) /\ lastId' = lastId /\ task[w].past = worn[task[w].post]
            /\ post'[task[w].post].past = task[w].past
            /\ post'[task[w].post].text = task[w].text
            /\ worn'[task[w].post] = Append(worn[task[w].post], task[w].text)
            /\ \A n \in 1..lastId \ {task[w].post} : post'[n] = post[n] /\ worn'[n] = worn[n]
        BY <1>1, <2>3, Updates
      <3>2. CASE m = task[w].post
        BY <3>1, <3>2, Zenon
      <3>3. CASE m # task[w].post
        BY <1>1, <3>1, <3>3
      <3> QED
        BY <3>2, <3>3
    <2> QED
      BY <2>1, <2>2, <2>3, Wears
  <1>4. ASSUME NEW w \in Workers, Edits(w)'
        PROVE  task'[w].past = worn'[task'[w].post]
    <2>1. CASE UNCHANGED <<post, lastId, worn>> /\ task'[w].post \in 1..lastId
               /\ task'[w].past = Append(post[task'[w].post].past, post[task'[w].post].text)
      BY <1>1, <2>1
    <2>2. CASE Edits(w) /\ task'[w] = task[w]
      <3>1. task[w].post \in 1..lastId /\ task[w].past = worn[task[w].post]
        BY <1>1, <2>2, EditTypes
      <3>2. ASSUME NEW x \in Workers, Insert(x) PROVE worn'[task[w].post] = worn[task[w].post]
        BY <3>1, <3>2, Inserts
      <3>3. ASSUME NEW x \in Workers, Update(x) PROVE FALSE
        <4>1. Edits(x) /\ task[x] \in Task
          BY <3>3, Updates DEF TypeOK
        <4>2. ~Ready(x) /\ ~Ready(w)
          BY <2>2, <4>1, IdleType DEF Edits, Ready
        <4>3. x = w
          BY <1>1, <4>2
        <4>4. task'[w] = Advance(task[w])
          BY <3>3, <4>3 DEF Update, Proceed, TypeOK
        <4> QED
          BY <1>4, <4>1, <4>3, <4>4, Advances, IdleType DEF Edits
      <3> QED
        BY <2>2, <3>1, <3>2, <3>3, Wears
    <2> QED
      BY <1>4, <2>1, <2>2, EditsStay
  <1> QED
    BY <1>2, <1>3, <1>4 DEF CompleteInv, HistoryIsComplete, Existing

LEMMA CompleteInit == Init => CompleteInv
  BY IdleType DEF Init, CompleteInv, Edits, Ready, HistoryIsComplete, Existing

\* As long as no two handlers overlap, no edit is missing from a history.
THEOREM HistoryComplete == Spec => []HistoryIsComplete
  <1>1. CompleteInv => HistoryIsComplete
    BY DEF CompleteInv, HistoryIsComplete
  <1> QED
    BY <1>1, TypeInit, TypeStep, CompleteInit, CompleteStep, PTL DEF Spec

-----------------------------------------------------------------------------
(* What a subscriber sees.                                                 *)

Screen == [posts: [Posts -> Texts \cup {NoText}], pins: SUBSET Posts]
Current == [posts |-> feed, pins |-> feedPins]

\* The screen s after the event e.
After(s, e) ==
    [posts |-> [s.posts EXCEPT ![e.post] =
                   IF e.kind = "new" \/ (e.kind = "updated" /\ @ # NoText) THEN e.text
                   ELSE IF e.kind = "deleted" THEN NoText ELSE @],
     pins |-> IF e.kind = "pinned" THEN s.pins \cup {e.post}
              ELSE IF e.kind = "unpinned" THEN s.pins \ {e.post} ELSE s.pins]

\* The screen s shows the tables, apart from lists that have missed events.
Showing(s) ==
    /\ "pins" \notin stale => s.pins = pins
    /\ "posts" \notin stale =>
          \A m \in Posts :
              /\ m \in Visible => s.posts[m] = post[m].text
              /\ m \notin Visible => s.posts[m] = NoText \/ m \in revived

\* The screen s after the event that handler t has yet to emit about what it
\* has written into the table p.
Told(p, t) == [kind |-> t.does.emits, post |-> t.post,
               text |-> IF t.at = "read" THEN p[t.post].text ELSE t.text]
Final(p, s, t) == IF t.at \in {"read", "emit"} THEN After(s, Told(p, t)) ELSE s

\* f: the screens the events of worker w lead through, from the one of now to
\* one that shows the tables as soon as w is done with its handler.
Leads(w, f) ==
    LET n == Len(wire[w]) IN
    /\ f \in [0..n -> Screen]
    /\ f[0] = Current
    /\ \A i \in 1..n : f[i] = After(f[i - 1], wire[w][i])
    /\ Showing(Final(post, f[n], task[w]))

\* One worker at most has something to do or to deliver, and what it has leads
\* the screen to the tables.
FeedInv ==
    ~raced =>
        /\ \A w, x \in Workers : w # x => Settled(w) \/ Settled(x)
        /\ (\A w \in Workers : Settled(w)) => Showing(Current)
        /\ \A w \in Workers : ~Settled(w) => \E f : Leads(w, f)

\* The event of each handler is the one its statement calls for.
LEMMA HandlerEvents ==
    ASSUME NEW h \in Handlers
    PROVE  /\ h.write = "insert" => h.emits = IF h = Scheduling THEN "nothing" ELSE "new"
           /\ h.write = "update" => h.emits = "updated" /\ h.reads
           /\ h.write = "delete" => h.emits = "deleted"
           /\ h.write = "publish" => h.emits = "new" /\ h.reads
           /\ h.write = "pin" => h.emits = "pinned"
           /\ h.write = "unpin" => h.emits = "unpinned"
           /\ h.emits = "nothing" => ~h.reads
           /\ h.reads \in BOOLEAN
  BY HandlerTable DEF Handlers

LEMMA AfterType ==
    ASSUME NEW s \in Screen, NEW e \in Event
    PROVE  After(s, e) \in Screen
  <1>1. [s.posts EXCEPT ![e.post] =
            IF e.kind = "new" \/ (e.kind = "updated" /\ @ # NoText) THEN e.text
            ELSE IF e.kind = "deleted" THEN NoText ELSE @] \in [Posts -> Texts \cup {NoText}]
    BY DEF Screen, Event
  <1>2. (IF e.kind = "pinned" THEN s.pins \cup {e.post}
         ELSE IF e.kind = "unpinned" THEN s.pins \ {e.post} ELSE s.pins) \in SUBSET Posts
    BY DEF Screen, Event
  <1> QED
    BY <1>1, <1>2 DEF After, Screen

\* After its statement a handler has its event to emit, about the row as it is
\* now, or nothing more to do.
LEMMA Follows ==
    ASSUME TypeOK, NEW w \in Workers, NEW s, NEW t \in Task, t.at = "write", t.does \in Handlers,
           Proceed(w, t),
           t.does.emits \in {"new", "updated"} => t.does.reads \/ post'[t.post].text = t.text
    PROVE  /\ t.does.emits = "nothing" => Final(post', s, task'[w]) = s
           /\ t.does.emits # "nothing" =>
                 \E e : /\ Final(post', s, task'[w]) = After(s, e)
                        /\ e.kind = t.does.emits /\ e.post = t.post
                        /\ e.kind \in {"new", "updated"} => e.text = post'[t.post].text
  <1>1. task'[w] = Advance(t)
    BY DEF Proceed, TypeOK
  <1>2. CASE t.does.reads
    <2>1. t.does.emits # "nothing"
      BY <1>2, HandlerEvents
    <2>2. /\ task'[w].at = "read" /\ task'[w].does = t.does /\ task'[w].post = t.post
      BY <1>1, <1>2 DEF Advance, Task
    <2>3. Final(post', s, task'[w]) = After(s, Told(post', task'[w]))
      BY <2>2 DEF Final
    <2>4. /\ Told(post', task'[w]).kind = t.does.emits /\ Told(post', task'[w]).post = t.post
          /\ Told(post', task'[w]).text = post'[t.post].text
      BY <2>2 DEF Told
    <2> QED
      BY <2>1, <2>3, <2>4
  <1>3. CASE ~t.does.reads /\ t.does.emits # "nothing"
    <2>1. /\ task'[w].at = "emit" /\ task'[w].does = t.does /\ task'[w].post = t.post
          /\ task'[w].text = t.text
      BY <1>1, <1>3 DEF Advance, Task
    <2>2. Final(post', s, task'[w]) = After(s, Told(post', task'[w]))
      BY <2>1 DEF Final
    <2>3. /\ Told(post', task'[w]).kind = t.does.emits /\ Told(post', task'[w]).post = t.post
          /\ Told(post', task'[w]).text = t.text
      BY <2>1 DEF Told
    <2> QED
      BY <1>3, <2>2, <2>3
  <1>4. CASE ~t.does.reads /\ t.does.emits = "nothing"
    <2>1. task'[w].at = "idle"
      BY <1>1, <1>4, IdleType DEF Advance
    <2> QED
      BY <1>4, <2>1 DEF Final
  <1> QED
    BY <1>2, <1>3, <1>4

\* A statement that leaves the screen where the tables are, or will be once its
\* event has arrived.
LEMMA StatementShows ==
    ASSUME TypeOK, TypeOK', QuietInv, NEW w \in Workers, NEW s \in Screen,
           Steps(w), ~Emit(w), Showing(Final(post, s, task[w])),
           NEW r, r = Final(post', s, task'[w])
    PROVE  Showing(r)'
  <1> USE DEF tables, client, history, counters
  <1>0. PICK k : k = task[w]
    OBVIOUS
  <1>1. k \in Task /\ TaskOK(k) /\ lastId \in Nat /\ 1..lastId \subseteq Posts /\ stale' = stale
    BY <1>0, ExistingPosts DEF TypeOK, Steps, Insert, Update, MarkDeleted, MarkPublished, SetPin,
       ReadBack, Emit, Proceed
  <1>2. \A m \in 1..lastId : post[m].text \in Texts /\ post[m].text # NoText /\ post[m] \in Row
    BY <1>0, <1>1, TextAssumption DEF TypeOK
  <1>3. ASSUME k.at = "write" PROVE Showing(s)
    BY <1>0, <1>3 DEF Final
  <1>4. CASE Insert(w)
    <2> DEFINE t == [k EXCEPT !.post = lastId + 1]
    <2>1. /\ k.at = "write" /\ k.does \in Handlers /\ k.does.write = "insert"
          /\ k.due = (k.does = Scheduling) /\ k.text \in Texts
          /\ lastId' = lastId + 1 /\ lastId' \in Posts
          /\ UNCHANGED <<pins, revived>> /\ Proceed(w, t)
          /\ post' = [post EXCEPT ![lastId'] =
                        [by |-> k.by, text |-> k.text, due |-> k.due, deleted |-> FALSE,
                         past |-> <<>>]]
      BY <1>0, <1>1, <1>4, BoundAssumption DEF Insert, Write, TaskOK, QuietInv, Posts
    <2>2. /\ t \in Task /\ t.at = "write" /\ t.does = k.does /\ t.post = lastId'
          /\ t.text = k.text
      BY <1>0, <1>1, <2>1 DEF Task
    <2>3. /\ post'[lastId'].text = k.text /\ post'[lastId'].due = k.due
          /\ ~post'[lastId'].deleted
          /\ \A m \in Posts \ {lastId'} : post'[m] = post[m]
      BY <1>0, <2>1 DEF TypeOK
    <2> HIDE DEF t
    <2>4. Visible' = Visible \cup (IF k.due THEN {} ELSE {lastId'})
      <3>1. 1..lastId' = 1..lastId \cup {lastId'} /\ lastId' \notin 1..lastId
        BY <1>0, <1>1, <2>1
      <3>2. \A m \in 1..lastId : m \in Posts /\ m # lastId'
        BY <1>0, <1>1, <3>1
      <3> QED
        BY <1>0, <2>3, <3>1, <3>2 DEF Visible, Existing
    <2>5. lastId' \notin Visible /\ Visible \subseteq Posts
      BY <1>0, <1>1, <2>1 DEF Visible, Existing
    <2>6. CASE k.does = Scheduling
      <3>1. r = s
        <4>1. t.does.emits = "nothing"
          BY <2>1, <2>2, <2>6, HandlerEvents
        <4> QED
          BY <2>1, <2>2, <4>1, Follows
      <3>2. Visible' = Visible
        BY <1>0, <2>1, <2>4, <2>6
      <3> QED
        BY <1>0, <1>1, <1>3, <2>1, <2>3, <2>5, <3>1, <3>2 DEF Showing
    <2>7. CASE k.does # Scheduling
      <3>1. t.does.emits = "new" /\ post'[t.post].text = t.text
        BY <2>1, <2>2, <2>3, <2>7, HandlerEvents
      <3>2. PICK e : /\ Final(post', s, task'[w]) = After(s, e)
                     /\ e.kind = t.does.emits /\ e.post = t.post
                     /\ e.kind \in {"new", "updated"} => e.text = post'[t.post].text
        <4>1. t \in Task /\ t.at = "write" /\ t.does \in Handlers /\ Proceed(w, t)
          BY <2>1, <2>2
        <4> QED
          BY <3>1, <4>1, Follows
      <3>3. /\ r.pins = s.pins
            /\ \A m \in Posts : r.posts[m] = IF m = lastId' THEN k.text ELSE s.posts[m]
        <4>1. r = After(s, e) /\ e.kind = "new" /\ e.post = lastId' /\ e.text = k.text
          BY <2>2, <3>1, <3>2
        <4>2. e.post \in Posts
          BY <2>1, <4>1
        <4>3. /\ r.pins = s.pins
              /\ \A m \in Posts : r.posts[m] = IF m = e.post THEN e.text ELSE s.posts[m]
          BY <4>1, <4>2 DEF After, Screen
        <4> QED
          BY <4>1, <4>3
      <3>4. Visible' = Visible \cup {lastId'}
        BY <2>1, <2>4, <2>7
      <3> QED
        BY <1>1, <1>3, <2>1, <2>3, <2>5, <3>3, <3>4 DEF Showing
    <2> QED
      BY <2>6, <2>7
  \* A statement on the row of a written post m.
  <1>5. ASSUME Update(w) \/ MarkDeleted(w) \/ MarkPublished(w) \/ SetPin(w)
        PROVE  /\ k.at = "write" /\ k.does \in Handlers /\ k.post \in 1..lastId
               /\ k.post \in Posts /\ Proceed(w, k) /\ lastId' = lastId
               /\ \A m \in Posts \ {k.post} : post'[m] = post[m]
               /\ post[k.post] \in Row
    BY <1>0, <1>1, <1>2, <1>5 DEF Update, MarkDeleted, MarkPublished, SetPin, Write, TaskOK, TypeOK
  <1>6. CASE Update(w)
    <2>0. /\ k.at = "write" /\ k.does \in Handlers /\ k.post \in 1..lastId
          /\ k.post \in Posts /\ Proceed(w, k) /\ lastId' = lastId
          /\ \A m \in Posts \ {k.post} : post'[m] = post[m]
          /\ post[k.post] \in Row
      BY <1>5, <1>6
    <2>1. /\ k.does.emits = "updated" /\ k.does.reads
          /\ UNCHANGED <<pins, revived>>
          /\ post'[k.post].due = post[k.post].due /\ post'[k.post].deleted = post[k.post].deleted
      BY <1>0, <1>6, <2>0, HandlerEvents DEF Update, Write, TypeOK, Row
    <2>2. Visible' = Visible
      BY <1>0, <1>1, <2>0, <2>1 DEF Visible, Existing
    <2>3. PICK e : /\ Final(post', s, task'[w]) = After(s, e)
                   /\ e.kind = k.does.emits /\ e.post = k.post
                   /\ e.kind \in {"new", "updated"} => e.text = post'[k.post].text
      BY <1>1, <2>0, <2>1, Follows
    <2>4. /\ r.pins = s.pins
          /\ \A m \in Posts : r.posts[m] = IF m = k.post /\ s.posts[m] # NoText
                                              THEN post'[m].text ELSE s.posts[m]
      BY <2>0, <2>1, <2>3 DEF After, Screen
    <2>5. \A m \in Visible : s.posts[m] # NoText \/ "posts" \in stale
      BY <1>1, <1>2, <1>3, <2>0 DEF Showing, Visible, Existing
    <2> QED
      BY <1>1, <1>3, <2>0, <2>1, <2>2, <2>4, <2>5 DEF Showing
  <1>7. CASE MarkDeleted(w)
    <2>0. /\ k.at = "write" /\ k.does \in Handlers /\ k.post \in 1..lastId
          /\ k.post \in Posts /\ Proceed(w, k) /\ lastId' = lastId
          /\ \A m \in Posts \ {k.post} : post'[m] = post[m]
          /\ post[k.post] \in Row
      BY <1>5, <1>7
    <2>1. /\ k.does.emits = "deleted" /\ UNCHANGED <<pins, revived>>
          /\ post'[k.post].deleted
      BY <1>0, <1>7, <2>0, HandlerEvents DEF MarkDeleted, Write, TypeOK, Row
    <2>2. Visible' = Visible \ {k.post}
      BY <1>0, <1>1, <2>0, <2>1 DEF Visible, Existing
    <2>3. PICK e : /\ Final(post', s, task'[w]) = After(s, e)
                   /\ e.kind = k.does.emits /\ e.post = k.post
                   /\ e.kind \in {"new", "updated"} => e.text = post'[k.post].text
      BY <1>1, <2>0, <2>1, Follows
    <2>4. /\ r.pins = s.pins
          /\ \A m \in Posts : r.posts[m] = IF m = k.post THEN NoText ELSE s.posts[m]
      BY <2>0, <2>1, <2>3 DEF After, Screen
    <2> QED
      BY <1>1, <1>3, <2>0, <2>1, <2>2, <2>4 DEF Showing
  <1>8. CASE MarkPublished(w)
    <2>0. /\ k.at = "write" /\ k.does \in Handlers /\ k.post \in 1..lastId
          /\ k.post \in Posts /\ Proceed(w, k) /\ lastId' = lastId
          /\ \A m \in Posts \ {k.post} : post'[m] = post[m]
          /\ post[k.post] \in Row
      BY <1>5, <1>8
    <2>1. /\ k.does.emits = "new" /\ k.does.reads /\ UNCHANGED pins
          /\ ~post'[k.post].due /\ post'[k.post].deleted = post[k.post].deleted
          /\ revived' = IF post[k.post].deleted THEN revived \cup {k.post} ELSE revived
      BY <1>0, <1>8, <2>0, HandlerEvents DEF MarkPublished, Write, TypeOK, Row
    <2>2. Visible' = Visible \cup (IF post[k.post].deleted THEN {} ELSE {k.post})
      BY <1>0, <1>1, <2>0, <2>1 DEF Visible, Existing
    <2>3. PICK e : /\ Final(post', s, task'[w]) = After(s, e)
                   /\ e.kind = k.does.emits /\ e.post = k.post
                   /\ e.kind \in {"new", "updated"} => e.text = post'[k.post].text
      BY <1>1, <2>0, <2>1, Follows
    <2>4. post[k.post].deleted => k.post \notin Visible
      BY DEF Visible
    <2>5. /\ r.pins = s.pins
          /\ \A m \in Posts : r.posts[m] = IF m = k.post THEN post'[m].text ELSE s.posts[m]
      BY <2>0, <2>1, <2>3 DEF After, Screen
    <2> QED
      BY <1>1, <1>3, <2>0, <2>1, <2>2, <2>4, <2>5 DEF Showing
  <1>9. CASE SetPin(w)
    <2>0. /\ k.at = "write" /\ k.does \in Handlers /\ k.post \in 1..lastId
          /\ k.post \in Posts /\ Proceed(w, k) /\ lastId' = lastId
          /\ \A m \in Posts \ {k.post} : post'[m] = post[m]
          /\ post[k.post] \in Row
      BY <1>5, <1>9
    <2>1. /\ UNCHANGED <<post, revived>>
          /\ \/ k.does.emits = "pinned" /\ pins' = pins \cup {k.post}
             \/ k.does.emits = "unpinned" /\ pins' = pins \ {k.post}
      BY <1>0, <1>9, <2>0, HandlerEvents DEF SetPin, Write
    <2>2. Visible' = Visible
      BY <1>0, <2>0, <2>1 DEF Visible, Existing
    <2>3. PICK e : /\ Final(post', s, task'[w]) = After(s, e)
                   /\ e.kind = k.does.emits /\ e.post = k.post
                   /\ e.kind \in {"new", "updated"} => e.text = post'[k.post].text
      BY <1>1, <2>0, <2>1, Follows
    <2>4. /\ r.pins = IF k.does.emits = "pinned" THEN s.pins \cup {k.post} ELSE s.pins \ {k.post}
          /\ \A m \in Posts : r.posts[m] = s.posts[m]
      BY <2>0, <2>1, <2>3 DEF After, Screen
    <2> QED
      BY <1>1, <1>3, <2>0, <2>1, <2>2, <2>4 DEF Showing
  <1>10. CASE ReadBack(w)
    <2> DEFINE t == [k EXCEPT !.text = post[k.post].text]
    <2>1. /\ k.at = "read" /\ UNCHANGED <<post, lastId, pins, revived>>
          /\ t \in Task /\ t.at = "read" /\ t.does = k.does /\ t.post = k.post
          /\ t.text = post[k.post].text
          /\ task'[w] = Advance(t)
      <3>1. k.at = "read" /\ k.post \in 1..lastId
        BY <1>0, <1>1, <1>10 DEF ReadBack, TaskOK
      <3>2. post[k.post].text \in Texts
        BY <1>0, <1>2, <3>1
      <3> QED
        BY <1>0, <1>1, <1>10, <3>1, <3>2 DEF ReadBack, Proceed, Task, TypeOK
    <2> HIDE DEF t
    <2>2. Visible' = Visible
      BY <1>0, <2>1 DEF Visible, Existing
    <2>3. Final(post, s, k) = After(s, [kind |-> k.does.emits, post |-> k.post,
                                  text |-> post[k.post].text])
      BY <1>0, <2>1 DEF Final, Told
    <2>4. CASE t.does.emits # "nothing"
      <3>1. /\ task'[w].at = "emit" /\ task'[w].does = t.does /\ task'[w].post = t.post
            /\ task'[w].text = t.text
        BY <1>0, <2>1, <2>4 DEF Advance, Task
      <3>2. r = Final(post, s, k)
        BY <1>0, <2>1, <2>3, <3>1 DEF Final, Told, After
      <3> QED
        BY <1>0, <1>1, <2>1, <2>2, <3>2 DEF Showing
    <2>5. CASE t.does.emits = "nothing"
      <3>1. task'[w].at = "idle" /\ r = s
        BY <1>0, <2>1, <2>5, IdleType DEF Advance, Final
      <3>2. Final(post, s, k) = [posts |-> [s.posts EXCEPT ![k.post] = s.posts[k.post]], pins |-> s.pins]
        BY <1>0, <2>1, <2>3, <2>5 DEF After
      <3>3. [s.posts EXCEPT ![k.post] = s.posts[k.post]] = s.posts
        BY DEF Screen
      <3> QED
        BY <1>0, <1>1, <2>1, <2>2, <3>1, <3>2, <3>3 DEF Showing
    <2> QED
      BY <1>0, <2>4, <2>5
  <1> QED
    BY <1>0, <1>4, <1>6, <1>7, <1>8, <1>9, <1>10 DEF Steps

\* The subscriber's screen after an event is the one the event calls for.
LEMMA Receives ==
    ASSUME TypeOK, NEW w \in Workers, Receive(w)
    PROVE  [posts |-> feed', pins |-> feedPins'] = After(Current, wire[w][1])
  <1>1. Head(wire[w]) = wire[w][1]
    BY DEF Receive, TypeOK
  <1> QED
    BY <1>1 DEF Receive, Shown, ShownPins, After, Current

\* The screen of now belongs to one of these paths, if nothing is on its way.
LEMMA Resting ==
    ASSUME TypeOK, FeedInv, ~raced, NEW w \in Workers, \A x \in Workers \ {w} : Settled(x)
    PROVE  \E f : Leads(w, f)
  <1>1. CASE ~Settled(w)
    BY <1>1 DEF FeedInv
  <1>2. CASE Settled(w)
    <2>1. Showing(Current) /\ wire[w] = <<>> /\ task[w] = Idle
      BY <1>2 DEF FeedInv, Settled, Ready
    <2>2. Current \in Screen
      BY DEF TypeOK, Current, Screen
    <2>3. Final(post, Current, task[w]) = Current
      BY <2>1, IdleType DEF Final
    <2> DEFINE f == [i \in 0..0 |-> Current]
    <2>4. Len(wire[w]) = 0 /\ f \in [0..0 -> Screen] /\ f[0] = Current
      BY <2>1, <2>2
    <2> HIDE DEF f
    <2>5. Leads(w, f)
      BY <2>1, <2>3, <2>4 DEF Leads
    <2> QED
      BY <2>5
  <1> QED
    BY <1>1, <1>2

\* Only one worker moves while nothing overlaps: the others have nothing to do.
LEMMA OthersSettled ==
    ASSUME TypeOK, FeedInv, [Next]_vars, ~raced'
    PROVE  /\ ~raced
           /\ \A w \in Workers :
                 Requests(w) \/ Steps(w) \/ Receive(w) \/ LoadPosts(w) \/ LoadPins(w) \/ Crash(w)
                     => \A x \in Workers \ {w} : Settled(x) /\ task'[x] = task[x] /\ wire'[x] = wire[x]
  <1> USE DEF tables, client, history, counters
  <1>1. ~raced
    BY Busy
  <1>2. ASSUME NEW w \in Workers, NEW t, Take(w, t), NEW x \in Workers \ {w}
        PROVE  Settled(x) /\ task'[x] = task[x] /\ wire'[x] = wire[x]
    BY <1>2 DEF Take, TypeOK
  <1>3. ASSUME NEW w \in Workers, Steps(w), NEW x \in Workers \ {w}
        PROVE  Settled(x) /\ task'[x] = task[x] /\ wire'[x] = wire[x]
    <2>1. PICK t : Ran(w, t) /\ Proceed(w, t)
      BY <1>3, StepShape
    <2>2. task'[x] = task[x]
      BY <2>1 DEF Proceed, TypeOK
    <2>3. wire'[x] = wire[x]
      BY <1>3 DEF Steps, Insert, Update, MarkDeleted, MarkPublished, SetPin, ReadBack, Emit, Write,
         TypeOK
    <2>4. task[w].at # "idle"
      BY <1>3 DEF Steps, Insert, Update, MarkDeleted, MarkPublished, SetPin, ReadBack, Emit, Write
    <2>5. ~Settled(w)
      BY <2>4, IdleType DEF Settled, Ready
    <2> QED
      BY <1>1, <2>2, <2>3, <2>5 DEF FeedInv
  <1>4. ASSUME NEW w \in Workers, Receive(w) \/ Crash(w), NEW x \in Workers \ {w}
        PROVE  Settled(x) /\ task'[x] = task[x] /\ wire'[x] = wire[x]
    <2>1. ~Settled(w)
      BY <1>4 DEF Receive, Crash, Settled
    <2>2. task'[x] = task[x] /\ wire'[x] = wire[x]
      BY <1>4 DEF Receive, Crash, TypeOK
    <2> QED
      BY <1>1, <2>1, <2>2 DEF FeedInv
  <1>5. ASSUME NEW w \in Workers, LoadPosts(w) \/ LoadPins(w), NEW x \in Workers \ {w}
        PROVE  Settled(x) /\ task'[x] = task[x] /\ wire'[x] = wire[x]
    BY <1>5 DEF LoadPosts, LoadPins, Load
  <1> QED
    BY <1>1, <1>2, <1>3, <1>4, <1>5, RequestShape

\* The invariant is inductive: a handler that nothing overlaps announces what it
\* has written before another writes, and the events of one worker arrive in
\* the order of its writes.
LEMMA FeedStep == TypeOK /\ QuietInv /\ FeedInv /\ [Next]_vars => FeedInv'
  <1> SUFFICES ASSUME TypeOK, QuietInv, FeedInv, [Next]_vars, ~raced' PROVE FeedInv'
    BY DEF FeedInv
  <1> USE DEF tables, client, history, counters
  <1>0. TypeOK' /\ ~raced
    BY TypeStep, Busy
  <1>1. CASE UNCHANGED vars
    BY <1>0, <1>1 DEF vars, FeedInv, Settled, Ready, Showing, Current, Visible, Existing, Leads
  \* It is enough to find the path of the worker that has moved.
  <1>2. ASSUME NEW w \in Workers,
               Requests(w) \/ Steps(w) \/ Receive(w) \/ LoadPosts(w) \/ LoadPins(w) \/ Crash(w),
               NEW f, Leads(w, f)'
        PROVE  FeedInv'
    <2>1. \A x \in Workers \ {w} : Settled(x)'
      BY <1>2, OthersSettled DEF Settled, Ready
    <2>2. ASSUME Settled(w)' PROVE Showing(Current)'
      <3>1. wire'[w] = <<>> /\ task'[w].at = "idle"
        BY <2>2, IdleType DEF Settled, Ready
      <3>2. f[0] = Current'
        BY <1>2 DEF Leads
      <3>3. Final(post', f[0], task'[w]) = f[0]
        BY <3>1 DEF Final
      <3>4. ASSUME NEW r, r = Final(post', f[0], task'[w]) PROVE Showing(r)'
        BY <1>2, <3>1, <3>4 DEF Leads, Showing
      <3>5. Showing(f[0])'
        BY <3>3, <3>4
      <3> QED
        BY <3>2, <3>5 DEF Showing, Current
    <2> QED
      BY <1>2, <2>1, <2>2 DEF FeedInv
  <1>3. ASSUME NEW w \in Workers, Requests(w) PROVE FeedInv'
    <2>1. PICK t : Opened(t) /\ Take(w, t)
      BY <1>3, RequestShape
    <2>2. PICK f : Leads(w, f)
      BY <1>0, <1>3, OthersSettled, Resting
    <2>3. task[w].at = "idle" /\ task'[w].at = "write"
      BY <2>1, IdleType DEF Take, Ready, Opened, TypeOK
    <2>4. UNCHANGED <<tables, wire, client, history>>
      BY <2>1 DEF Take
    <2>5. Leads(w, f)'
      BY <2>2, <2>3, <2>4 DEF Leads, Final, Showing, Current, Visible, Existing
    <2> QED
      BY <1>2, <1>3, <2>5
  <1>4. ASSUME NEW w \in Workers, LoadPosts(w) \/ LoadPins(w) PROVE FeedInv'
    <2>1. /\ \A x \in Workers : Settled(x)
          /\ UNCHANGED <<post, lastId, pins, task, wire, revived>>
      BY <1>4 DEF LoadPosts, LoadPins, Load
    <2>2. Showing(Current)
      BY <1>0, <2>1 DEF FeedInv
    <2>3. Showing(Current)'
      <3>1. CASE LoadPosts(w)
        BY <2>1, <2>2, <3>1 DEF LoadPosts, Load, Showing, Current, Visible, Existing
      <3>2. CASE LoadPins(w)
        BY <2>1, <2>2, <3>2 DEF LoadPins, Load, Showing, Current, Visible, Existing
      <3> QED
        BY <1>4, <3>1, <3>2
    <2> QED
      BY <2>1, <2>3 DEF FeedInv, Settled, Ready
  <1>5. ASSUME NEW w \in Workers, Crash(w) PROVE FeedInv'
    <2>1. /\ task'[w] = Idle /\ stale' = {"posts", "pins"} /\ UNCHANGED <<feed, feedPins>>
          /\ wire'[w] = <<>> \/ wire'[w] = wire[w]
      BY <1>5 DEF Crash, TypeOK
    <2>2. \A r : Showing(r)'
      BY <2>1 DEF Showing
    <2>3. \A x \in Workers \ {w} : Settled(x)'
      BY <1>5, OthersSettled DEF Settled, Ready
    <2>4. CASE wire'[w] = <<>>
      <3>1. \A x \in Workers : Settled(x)'
        BY <2>1, <2>3, <2>4 DEF Settled, Ready
      <3> QED
        BY <2>1, <3>1 DEF FeedInv, Showing
    <2>5. CASE wire'[w] = wire[w]
      <3>1. PICK f : Leads(w, f)
        BY <1>0, <1>5, OthersSettled, Resting
      <3>2. Leads(w, f)'
        BY <2>1, <2>5, <3>1 DEF Leads, Showing, Current
      <3> QED
        BY <1>2, <1>5, <3>2
    <2> QED
      BY <2>1, <2>4, <2>5
  <1>6. ASSUME NEW w \in Workers, Receive(w) PROVE FeedInv'
    <2>1. PICK f : Leads(w, f)
      BY <1>0, <1>6, OthersSettled, Resting
    <2>n. PICK n : n = Len(wire[w])
      OBVIOUS
    <2>g. PICK g : g = [i \in 0..n - 1 |-> f[i + 1]]
      OBVIOUS
    <2>2. /\ n \in Nat \ {0} /\ Len(wire'[w]) = n - 1
          /\ \A i \in 1..n - 1 : wire'[w][i] = wire[w][i + 1]
      BY <1>6, <2>n DEF Receive, TypeOK
    <2>3. /\ f \in [0..n -> Screen] /\ f[0] = Current
          /\ \A i \in 1..n : f[i] = After(f[i - 1], wire[w][i])
          /\ Showing(Final(post, f[n], task[w]))
      BY <2>1, <2>n DEF Leads
    <2>4. g \in [0..n - 1 -> Screen] /\ g[n - 1] = f[n]
      BY <2>2, <2>3, <2>g
    <2>5. g[0] = Current'
      BY <1>6, <2>2, <2>3, <2>g, Receives DEF Current
    <2>6. ASSUME NEW i \in 1..n - 1 PROVE g[i] = After(g[i - 1], wire'[w][i])
      <3>1. g[i] = f[i + 1] /\ g[i - 1] = f[i] /\ i + 1 \in 1..n /\ (i + 1) - 1 = i
        BY <2>2, <2>6, <2>g
      <3> QED
        BY <2>2, <2>3, <2>6, <3>1
    <2>7. UNCHANGED <<tables, task, stale, history>>
      BY <1>6 DEF Receive
    <2>8. Leads(w, g)'
      BY <2>2, <2>3, <2>4, <2>5, <2>6, <2>7 DEF Leads, Showing, Visible, Existing, Final
    <2> QED
      BY <1>2, <1>6, <2>8
  <1>7. ASSUME NEW w \in Workers, Emit(w) PROVE FeedInv'
    <2>1. PICK f : Leads(w, f)
      BY <1>0, <1>7, OthersSettled, Resting DEF Steps
    <2>n. PICK n : n = Len(wire[w])
      OBVIOUS
    <2>e. PICK e : e = [kind |-> task[w].does.emits, post |-> task[w].post, text |-> task[w].text]
      OBVIOUS
    <2>g. PICK g : g = [i \in 0..n + 1 |-> IF i = n + 1 THEN After(f[n], e) ELSE f[i]]
      OBVIOUS
    <2>2. /\ n \in Nat /\ wire[w] \in Seq(Event) /\ task[w].at = "emit"
          /\ wire'[w] = Append(wire[w], e) /\ task'[w].at = "idle"
      BY <1>7, <2>n, <2>e, IdleType DEF Emit, Proceed, Advance, TypeOK
    <2>3. e \in Event
      <3>1. task[w] \in Task /\ task[w].does \in Handlers /\ task[w].post \in 1..lastId
            /\ task[w].does.emits # "nothing"
        BY <2>2 DEF TypeOK, TaskOK
      <3>2. task[w].does.emits \in Kinds /\ task[w].post \in Posts
        BY <3>1, HandlerTypes, ExistingPosts
      <3> QED
        BY <2>e, <3>1, <3>2 DEF Event, Task
    <2>4. e = Told(post, task[w])
      BY <2>2, <2>e DEF Told
    <2>5. /\ Len(wire'[w]) = n + 1 /\ wire'[w][n + 1] = e
          /\ \A i \in 1..n : wire'[w][i] = wire[w][i]
      BY <2>2, <2>3, <2>n
    <2>6. /\ f \in [0..n -> Screen] /\ f[0] = Current
          /\ \A i \in 1..n : f[i] = After(f[i - 1], wire[w][i])
          /\ Showing(Final(post, f[n], task[w]))
      BY <2>1, <2>n DEF Leads
    <2>7. /\ g \in [0..n + 1 -> Screen] /\ g[0] = f[0]
          /\ g[n + 1] = After(f[n], e)
      BY <2>2, <2>3, <2>6, <2>g, AfterType
    <2>8. ASSUME NEW i \in 1..n + 1 PROVE g[i] = After(g[i - 1], wire'[w][i])
      <3>1. CASE i = n + 1
        <4>1. g[n] = f[n] /\ i - 1 = n
          BY <2>2, <2>g, <3>1
        <4> QED
          BY <2>5, <2>7, <3>1, <4>1
      <3>2. CASE i # n + 1
        <4>1. i \in 1..n /\ g[i] = f[i] /\ g[i - 1] = f[i - 1]
          BY <2>2, <2>8, <2>g, <3>2
        <4> QED
          BY <2>5, <2>6, <4>1
      <3> QED
        BY <3>1, <3>2
    <2>9. Final(post, f[n], task[w]) = g[n + 1] /\ Final(post', g[n + 1], task'[w]) = g[n + 1]
      BY <2>2, <2>4, <2>7 DEF Final
    <2>10. UNCHANGED <<tables, client, history>>
      BY <1>7 DEF Emit, Proceed
    <2>11. Leads(w, g)'
      <3>1. Showing(g[n + 1])'
        BY <2>6, <2>9, <2>10 DEF Showing, Visible, Existing
      <3>2. \A r : r = Final(post', g[n + 1], task'[w]) => Showing(r)'
        BY <2>9, <3>1
      <3>3. g[0] = Current'
        BY <2>6, <2>7, <2>10 DEF Current
      <3> QED
        BY <2>5, <2>7, <2>8, <2>9, <3>1, <3>3 DEF Leads, Showing, Final
    <2> QED
      BY <1>2, <1>7, <2>11 DEF Steps
  <1>8. ASSUME NEW w \in Workers, Steps(w), ~Emit(w) PROVE FeedInv'
    <2>1. PICK f : Leads(w, f)
      BY <1>0, <1>8, OthersSettled, Resting
    <2>s. PICK s : s = f[Len(wire[w])]
      OBVIOUS
    <2>2. UNCHANGED <<wire, feed, feedPins>>
      BY <1>8 DEF Steps, Insert, Update, MarkDeleted, MarkPublished, SetPin, ReadBack, Write, Proceed
    <2>3. s \in Screen /\ Showing(Final(post, s, task[w]))
      <3>1. wire[w] \in Seq(Event)
        BY DEF TypeOK
      <3>2. Len(wire[w]) \in Nat
        BY <3>1
      <3>3. f \in [0..Len(wire[w]) -> Screen] /\ Showing(Final(post, f[Len(wire[w])], task[w]))
        BY <2>1 DEF Leads
      <3> QED
        BY <2>s, <3>2, <3>3
    <2>4. ASSUME NEW r, r = Final(post', s, task'[w]) PROVE Showing(r)'
      BY <1>0, <1>8, <2>3, <2>4, StatementShows
    <2>5. Leads(w, f)'
      <3>1. PICK r : r = Final(post', s, task'[w])
        OBVIOUS
      <3>2. Showing(r)'
        BY <2>4, <3>1
      <3>3. r = Final(post', f[Len(wire'[w])], task'[w])
        BY <2>2, <2>s, <3>1
      <3>4. Showing(Final(post, f[Len(wire[w])], task[w]))'
        BY <3>2, <3>3 DEF Showing
      <3>5. Current' = Current /\ wire' = wire
        BY <2>2 DEF Current
      <3> QED
        BY <2>1, <3>4, <3>5 DEF Leads
    <2> QED
      BY <1>2, <1>8, <2>5
  <1> QED
    BY <1>1, <1>3, <1>4, <1>5, <1>6, <1>7, <1>8 DEF Next

\* At the start there is nothing to show.
LEMMA FeedInit == Init => FeedInv
  BY DEF Init, FeedInv, Settled, Ready, Showing, Current, Visible, Existing

\* As long as handlers do not overlap, a subscriber who has missed no event since
\* he loaded his lists sees what he would get by loading them again.
THEOREM FeedCurrent == Spec => []FeedIsCurrent
  <1>1. FeedInv => FeedIsCurrent
    BY DEF FeedInv, FeedIsCurrent, Showing, Current
  <1> QED
    BY <1>1, TypeInit, TypeStep, QuietInit, QuietStep, FeedInit, FeedStep, PTL DEF Spec

=============================================================================
