--------------------------- MODULE ChannelsProofs ---------------------------
(***************************************************************************)
(* Theorems about Channels for every set of workers and users, every set of *)
(* rights promotions may ask for, and all bounds.                           *)
(***************************************************************************)
EXTENDS Channels, TLAPS

-----------------------------------------------------------------------------
(* The type invariant.                                                     *)

\* The lists of statements the handlers run, none of them empty.
Singles == {"putRequest", "insertSub", "deleteBan", "decline", "insertLink",
            "makePublic", "makePrivate", "markGone"}
Lists ==
    {Founding, Leaving, Promotion, Demotion, Removal, Banning, Approval}
    \cup {<<s>> : s \in Singles}
    \cup {<<"deleteBan", s>> : s \in Singles}

\* The statements that may take something from a member, and the lists without.
Dismissals == {"deleteSub", "deleteAdmin", "putBan"}
Harmless(l) == \A i \in DOMAIN l : l[i] \notin Dismissals

\* What the requests have in common, apart from taking the worker.
Opening(u, l) == status = "none" /\ l = Founding /\ status' \in {"public", "private"} /\ owner' = u
Routine(u, l) == Live /\ UNCHANGED <<status, owner>> /\ (Harmless(l) \/ u # owner)

\* Every list of a handler is a non-empty sequence of statements.
LEMMA ListsAreSequences == \A l \in Lists : l \in Seq(Statements) /\ l # <<>>
  <1>1. \A s \in Statements : <<s>> \in Seq(Statements) /\ <<s>> # <<>>
    OBVIOUS
  <1>2. \A s, t \in Statements : <<s, t>> \in Seq(Statements) /\ <<s, t>> # <<>>
    OBVIOUS
  <1>3. \A s, t, u \in Statements : <<s, t, u>> \in Seq(Statements) /\ <<s, t, u>> # <<>>
    OBVIOUS
  <1>4. /\ {"insertSub", "deleteSub", "insertAdmin", "deleteAdmin", "putRights",
            "deleteRights", "putBan", "deleteBan", "approve"} \subseteq Statements
        /\ Singles \subseteq Statements
    BY DEF Statements, Singles
  <1>5. /\ Founding \in Seq(Statements) /\ Founding # <<>>
        /\ Promotion \in Seq(Statements) /\ Promotion # <<>>
    BY <1>3, <1>4 DEF Founding, Promotion
  <1>6. Removal \in Seq(Statements) /\ Removal # <<>>
    BY <1>3, <1>4 DEF Removal
  <1>7. /\ Leaving \in Seq(Statements) /\ Leaving # <<>>
        /\ Demotion \in Seq(Statements) /\ Demotion # <<>>
    BY <1>2, <1>4 DEF Leaving, Demotion
  <1>8. /\ Banning \in Seq(Statements) /\ Banning # <<>>
        /\ Approval \in Seq(Statements) /\ Approval # <<>>
    BY <1>2, <1>4 DEF Banning, Approval
  <1> QED
    BY <1>1, <1>2, <1>4, <1>5, <1>6, <1>7, <1>8 DEF Lists

\* The lists that dismiss nobody.
LEMMA HarmlessLists ==
    /\ Harmless(Founding) /\ Harmless(Promotion) /\ Harmless(Approval)
    /\ \A s \in Singles : Harmless(<<s>>) /\ Harmless(<<"deleteBan", s>>)
  <1>1. \A s \in Singles : s \notin Dismissals
    BY DEF Singles, Dismissals
  <1>2. \A s \in {"insertSub", "insertAdmin", "putRights", "approve", "deleteBan"} :
            s \notin Dismissals
    BY DEF Dismissals
  <1>3. \A s : s \notin Dismissals => Harmless(<<s>>)
    BY DEF Harmless
  <1>4. \A s, t : s \notin Dismissals /\ t \notin Dismissals => Harmless(<<s, t>>)
    BY DEF Harmless
  <1>5. \A s, t, u : s \notin Dismissals /\ t \notin Dismissals /\ u \notin Dismissals
                       => Harmless(<<s, t, u>>)
    BY DEF Harmless
  <1>6. Harmless(Founding) /\ Harmless(Promotion)
    BY <1>2, <1>5 DEF Founding, Promotion
  <1>7. Harmless(Approval)
    BY <1>2, <1>4 DEF Approval
  <1> QED
    BY <1>1, <1>2, <1>3, <1>4, <1>6, <1>7

\* Every request takes a free worker for one of the lists; the tables it leaves
\* alone but for the row of the channel a creation inserts, and it dismisses
\* anyone but the owner.
LEMMA RequestShape ==
    ASSUME NEW w \in Workers, Requests(w)
    PROVE  \E a, u \in Users, g \in SUBSET Rights, l \in Lists :
               /\ Ready(w) /\ served < MaxHandlers
               /\ Take(w, a, u, g, l)
               /\ UNCHANGED <<subs, admins, rights, bans, requests, linked>>
               /\ granted' \in {granted, [granted EXCEPT ![u] = g]}
               /\ Opening(u, l) \/ Routine(u, l)
  <1> DEFINE Shape(a, u, g, l) ==
               /\ Ready(w) /\ served < MaxHandlers
               /\ Take(w, a, u, g, l)
               /\ UNCHANGED <<subs, admins, rights, bans, requests, linked>>
               /\ granted' \in {granted, [granted EXCEPT ![u] = g]}
               /\ Opening(u, l) \/ Routine(u, l)
  <1> SUFFICES \E a, u \in Users, g \in SUBSET Rights, l \in Lists : Shape(a, u, g, l)
    OBVIOUS
  <1>1. Ready(w) /\ served < MaxHandlers
    BY DEF Requests
  <1>2. ASSUME NEW a \in Users, NEW u \in Users, NEW l \in Lists,
               Begin(w, a, u, l), Live, Harmless(l) \/ u # owner
        PROVE  Shape(a, u, {}, l)
    BY <1>1, <1>2 DEF Begin, tables, Routine
  <1>3. \A s \in Singles : <<s>> \in Lists /\ <<"deleteBan", s>> \in Lists
    BY DEF Lists
  <1>4. ASSUME NEW u \in Users, NEW s \in Singles, Live, Begin(w, u, u, AfterBan(u, s))
        PROVE  \E l \in Lists : Shape(u, u, {}, l)
    BY <1>2, <1>3, <1>4, HarmlessLists DEF AfterBan
  <1>5. {"putRequest", "insertSub", "deleteBan", "decline", "insertLink",
         "makePublic", "makePrivate", "markGone"} \subseteq Singles
    BY DEF Singles
  <1>6. ASSUME NEW a \in Users, NEW u \in Users, NEW s \in Singles, Live, Begin(w, a, u, <<s>>)
        PROVE  \E l \in Lists : Shape(a, u, {}, l)
    BY <1>2, <1>3, <1>6, HarmlessLists
  <1>7. \A a \in Users : \A r : Can(a, r) => Live
    BY DEF Can, IsAdmin
  <1>8. {Founding, Promotion, Leaving, Demotion, Removal, Banning, Approval} \subseteq Lists
    BY DEF Lists
  <1>9. ASSUME NEW u \in Users, \/ Subscribe(w, u) \/ Join(w, u)
        PROVE  \E l \in Lists : Shape(u, u, {}, l)
    BY <1>4, <1>5, <1>9 DEF Subscribe, Join
  <1>10. ASSUME NEW u \in Users, Unsubscribe(w, u)
         PROVE  Shape(u, u, {}, Leaving)
    BY <1>2, <1>8, <1>10 DEF Unsubscribe, Dismissable
  <1>11. ASSUME NEW u \in Users, \/ Invite(w, u) \/ Delete(w, u)
         PROVE  \E l \in Lists : Shape(u, u, {}, l)
    BY <1>5, <1>6, <1>11 DEF Invite, Delete, IsAdmin
  <1>12. ASSUME NEW u \in Users, NEW v \in {"public", "private"}, Create(w, u, v)
         PROVE  Shape(u, u, Rights, Founding)
    BY <1>1, <1>12 DEF Create, Opening
  <1>13. ASSUME NEW a \in Users, NEW v \in {"public", "private"}, SetVisibility(w, a, v)
         PROVE  \E l \in Lists : Shape(a, a, {}, l)
    BY <1>5, <1>6, <1>7, <1>13 DEF SetVisibility
  <1>14. ASSUME NEW a \in Users, NEW u \in Users,
                \/ Demote(w, a, u) \/ Remove(w, a, u) \/ Ban(w, a, u)
         PROVE  \E l \in Lists : Shape(a, u, {}, l)
    BY <1>2, <1>7, <1>8, <1>14 DEF Demote, Remove, Ban, Dismissable
  <1>15. ASSUME NEW a \in Users, NEW u \in Users,
                \/ Unban(w, a, u) \/ Decline(w, a, u)
         PROVE  \E l \in Lists : Shape(a, u, {}, l)
    BY <1>5, <1>6, <1>7, <1>15 DEF Unban, Decline
  <1>16. ASSUME NEW a \in Users, NEW u \in Users, Approve(w, a, u)
         PROVE  Shape(a, u, {}, Approval)
    BY <1>2, <1>7, <1>8, <1>16, HarmlessLists DEF Approve
  <1>17. ASSUME NEW a \in Users, NEW u \in Users, NEW g \in Grants, Promote(w, a, u, g)
         PROVE  Shape(a, u, g, Promotion)
    BY <1>1, <1>7, <1>8, <1>17, HarmlessLists DEF Promote, tables, Routine
  <1>18. {} \in SUBSET Rights /\ Rights \in SUBSET Rights /\ Grants \subseteq SUBSET Rights
    BY GrantAssumption
  <1> HIDE DEF Shape
  <1> QED
    BY <1>8, <1>9, <1>10, <1>11, <1>12, <1>13, <1>14, <1>15, <1>16, <1>17, <1>18 DEF Requests

\* A request gives its worker a well-typed task and leaves the others alone.
LEMMA TakeType ==
    ASSUME TypeOK, NEW w \in Workers, NEW a \in Users, NEW u \in Users,
           NEW g \in SUBSET Rights, NEW l \in Lists,
           served < MaxHandlers, Take(w, a, u, g, l)
    PROVE  /\ task' \in [Workers -> [by: Users \cup {Nobody}, who: Users \cup {Nobody},
                                     grant: SUBSET Rights, todo: Seq(Statements)]]
           /\ \A x \in Workers : task'[x].todo # <<>> => {task'[x].by, task'[x].who} \subseteq Users
           /\ raced' \in BOOLEAN
           /\ served' \in 0..MaxHandlers
           /\ UNCHANGED <<admitted, crashes>>
  <1>1. l \in Seq(Statements)
    BY ListsAreSequences
  <1>2. served' \in 0..MaxHandlers
    BY BoundAssumption DEF Take, TypeOK
  <1> QED
    BY <1>1, <1>2 DEF Take, TypeOK

\* Running one statement leaves the rest of the list, and the same target.
LEMMA RunType ==
    ASSUME TypeOK, NEW w \in Workers, NEW s, Run(w, s)
    PROVE  /\ task' \in [Workers -> [by: Users \cup {Nobody}, who: Users \cup {Nobody},
                                     grant: SUBSET Rights, todo: Seq(Statements)]]
           /\ \A x \in Workers : task'[x].todo # <<>> => {task'[x].by, task'[x].who} \subseteq Users
           /\ task[w].who \in Users
           /\ task[w].grant \in SUBSET Rights
           /\ UNCHANGED <<granted, raced, served, crashes>>
  <1>1. task[w] \in [by: Users \cup {Nobody}, who: Users \cup {Nobody},
                     grant: SUBSET Rights, todo: Seq(Statements)]
    BY DEF TypeOK
  <1>2. task[w].todo # <<>> /\ {task[w].by, task[w].who} \subseteq Users
    BY DEF TypeOK, Run
  <1>3. Tail(task[w].todo) \in Seq(Statements)
    BY <1>1, <1>2
  <1>4. Idle \in [by: Users \cup {Nobody}, who: Users \cup {Nobody},
                  grant: SUBSET Rights, todo: Seq(Statements)]
    BY DEF Idle
  <1>5. [task[w] EXCEPT !.todo = Tail(task[w].todo)] \in
            [by: Users \cup {Nobody}, who: Users \cup {Nobody},
             grant: SUBSET Rights, todo: Seq(Statements)]
    BY <1>1, <1>3
  <1>6. task' = [task EXCEPT ![w] = IF Tail(task[w].todo) = <<>> THEN Idle
                                     ELSE [task[w] EXCEPT !.todo = Tail(task[w].todo)]]
    BY DEF Run
  <1>7. Idle.todo = <<>>
    BY DEF Idle
  <1>8. [task[w] EXCEPT !.todo = Tail(task[w].todo)].by = task[w].by /\
        [task[w] EXCEPT !.todo = Tail(task[w].todo)].who = task[w].who
    BY <1>1
  <1>9. task' \in [Workers -> [by: Users \cup {Nobody}, who: Users \cup {Nobody},
                               grant: SUBSET Rights, todo: Seq(Statements)]]
    BY <1>4, <1>5, <1>6 DEF TypeOK
  <1>10. ASSUME NEW x \in Workers, task'[x].todo # <<>>
         PROVE  {task'[x].by, task'[x].who} \subseteq Users
    <2>1. CASE x # w
      BY <1>6, <1>10, <2>1 DEF TypeOK
    <2>2. CASE x = w
      BY <1>2, <1>6, <1>7, <1>8, <1>10, <2>2 DEF TypeOK
    <2> QED
      BY <2>1, <2>2
  <1> QED
    BY <1>1, <1>2, <1>9, <1>10 DEF Run

\* Every action keeps the tables, the tasks and the histories well typed.
LEMMA TypeStep == TypeOK /\ [Next]_vars => TypeOK'
  <1> SUFFICES ASSUME TypeOK, [Next]_vars PROVE TypeOK'
    OBVIOUS
  <1> USE DEF tables, history
  <1>1. CASE UNCHANGED vars
    BY <1>1 DEF vars, TypeOK
  <1>2. ASSUME NEW w \in Workers, Requests(w) PROVE TypeOK'
    <2>1. PICK a \in Users, u \in Users, g \in SUBSET Rights, l \in Lists :
              /\ Ready(w) /\ served < MaxHandlers
              /\ Take(w, a, u, g, l)
              /\ UNCHANGED <<subs, admins, rights, bans, requests, linked>>
              /\ granted' \in {granted, [granted EXCEPT ![u] = g]}
              /\ Opening(u, l) \/ Routine(u, l)
      BY <1>2, RequestShape
    <2>2. /\ status' \in {"none", "public", "private", "gone"}
          /\ owner' \in Users \cup {Nobody}
      BY <2>1 DEF Opening, Routine, TypeOK
    <2>3. granted' \in [Users -> SUBSET Rights]
      BY <2>1 DEF TypeOK
    <2> QED
      BY <2>1, <2>2, <2>3, TakeType DEF TypeOK
  <1>3. ASSUME NEW w \in Workers, Steps(w) PROVE TypeOK'
    <2>1. PICK s : Run(w, s)
      BY <1>3 DEF Steps, InsertSub, DeleteSub, SetAdmin, SetRights, SetBan, PutRequest,
                  AnswerRequest, InsertLink, SetStatus
    <2> DEFINE t == task[w]
    <2>2. /\ task' \in [Workers -> [by: Users \cup {Nobody}, who: Users \cup {Nobody},
                                    grant: SUBSET Rights, todo: Seq(Statements)]]
          /\ \A x \in Workers : task'[x].todo # <<>> => {task'[x].by, task'[x].who} \subseteq Users
          /\ t.who \in Users
          /\ t.grant \in SUBSET Rights
          /\ UNCHANGED <<granted, raced, served, crashes>>
      BY <2>1, RunType
    <2> HIDE DEF t
    <2>3. CASE InsertSub(w)
      BY <2>2, <2>3 DEF TypeOK, InsertSub, t
    <2>4. CASE DeleteSub(w)
      BY <2>2, <2>4 DEF TypeOK, DeleteSub, t
    <2>5. CASE SetAdmin(w)
      BY <2>2, <2>5 DEF TypeOK, SetAdmin, t
    <2>6. CASE SetRights(w)
      <3>1. rights' = [rights EXCEPT ![t.who] = t.grant] \/ rights' = [rights EXCEPT ![t.who] = NoRow]
        BY <2>6 DEF SetRights, RightsPut, t
      <3>2. rights' \in [Users -> (SUBSET Rights) \cup {NoRow}]
        BY <2>2, <3>1 DEF TypeOK
      <3> QED
        BY <2>2, <2>6, <3>2 DEF TypeOK, SetRights
    <2>7. CASE SetBan(w)
      BY <2>2, <2>7 DEF TypeOK, SetBan, t
    <2>8. CASE PutRequest(w)
      BY <2>2, <2>8 DEF TypeOK, PutRequest, t
    <2>9. CASE AnswerRequest(w)
      BY <2>2, <2>9 DEF TypeOK, AnswerRequest, Answered, t
    <2>10. CASE InsertLink(w)
      BY <2>2, <2>10 DEF TypeOK, InsertLink
    <2>11. CASE SetStatus(w)
      BY <2>2, <2>11 DEF TypeOK, SetStatus
    <2> QED
      BY <1>3, <2>3, <2>4, <2>5, <2>6, <2>7, <2>8, <2>9, <2>10, <2>11 DEF Steps
  <1>4. ASSUME NEW w \in Workers, Crash(w) PROVE TypeOK'
    <2>1. crashes' \in 0..MaxCrashes
      BY <1>4, BoundAssumption DEF Crash, TypeOK
    <2>2. Idle \in [by: Users \cup {Nobody}, who: Users \cup {Nobody},
                    grant: SUBSET Rights, todo: Seq(Statements)] /\ Idle.todo = <<>>
      BY DEF Idle
    <2> QED
      BY <1>4, <2>1, <2>2 DEF Crash, TypeOK
  <1>5. ASSUME NEW u \in Users, Lapse(u) PROVE TypeOK'
    BY <1>5 DEF Lapse, TypeOK
  <1> QED
    BY <1>1, <1>2, <1>3, <1>4, <1>5 DEF Next

\* Init is well typed.
LEMMA TypeInit == Init => TypeOK
  <1>1. Idle \in [by: Users \cup {Nobody}, who: Users \cup {Nobody},
                  grant: SUBSET Rights, todo: Seq(Statements)] /\ Idle.todo = <<>>
    BY DEF Idle
  <1>2. 0 \in 0..MaxHandlers /\ 0 \in 0..MaxCrashes
    BY BoundAssumption
  <1>3. ASSUME Init PROVE task \in [Workers -> [by: Users \cup {Nobody}, who: Users \cup {Nobody},
                                               grant: SUBSET Rights, todo: Seq(Statements)]]
                         /\ \A w \in Workers : task[w].todo = <<>>
    BY <1>1, <1>3 DEF Init
  <1>4. ASSUME Init PROVE rights \in [Users -> (SUBSET Rights) \cup {NoRow}]
                         /\ granted \in [Users -> SUBSET Rights]
    BY <1>4 DEF Init
  <1> QED
    BY <1>2, <1>3, <1>4 DEF Init, TypeOK

\* In every reachable state the tables and the workers' tasks have their types.
THEOREM TypeCorrect == Spec => []TypeOK
  <1> QED
    BY TypeInit, TypeStep, PTL DEF Spec

-----------------------------------------------------------------------------
(* The owner keeps his seat.                                               *)

\* Running the statement s takes it, and nothing else, off the worker's list.
LEMMA RunPending ==
    ASSUME TypeOK, NEW w \in Workers, NEW s, Run(w, s)
    PROVE  /\ Pending(w, s)
           /\ \A x \in Workers \ {w} : task'[x] = task[x]
           /\ \A t : Pending(w, t)' => Pending(w, t)
           /\ \A t : t # s /\ Pending(w, t) => Pending(w, t)'
           /\ task'[w].todo = Tail(task[w].todo)
           /\ task'[w].todo # <<>> => task'[w].who = task[w].who
  <1> DEFINE l == task[w].todo
  <1>1. task[w] \in [by: Users \cup {Nobody}, who: Users \cup {Nobody},
                     grant: SUBSET Rights, todo: Seq(Statements)]
    BY DEF TypeOK
  <1>2. l \in Seq(Statements) /\ l # <<>> /\ Head(l) = s
    BY <1>1 DEF Run
  <1>3. 1 \in DOMAIN l /\ l[1] = s
    BY <1>2
  <1>4. task' = [task EXCEPT ![w] = IF Tail(l) = <<>> THEN Idle
                                     ELSE [task[w] EXCEPT !.todo = Tail(l)]]
    BY DEF Run
  <1>5. task'[w].todo = Tail(l)
    BY <1>1, <1>4 DEF Idle, TypeOK
  <1>6. Tail(l) # <<>> => task'[w].who = task[w].who
    BY <1>1, <1>4 DEF TypeOK
  <1>7. \A x \in Workers \ {w} : task'[x] = task[x]
    BY <1>4 DEF TypeOK
  <1>8. ASSUME NEW i \in DOMAIN Tail(l) PROVE i + 1 \in DOMAIN l /\ Tail(l)[i] = l[i + 1]
    BY <1>2, <1>8
  <1>9. ASSUME NEW i \in DOMAIN l, i # 1 PROVE i - 1 \in DOMAIN Tail(l) /\ Tail(l)[i - 1] = l[i]
    <2>1. Len(l) \in Nat /\ i \in 1..Len(l) /\ i # 1 /\ Len(Tail(l)) = Len(l) - 1
      BY <1>2, <1>9
    <2>2. i - 1 \in 1..Len(Tail(l)) /\ (i - 1) + 1 = i
      BY <2>1
    <2> QED
      BY <1>2, <2>2
  <1>10. Pending(w, s)
    BY <1>3 DEF Pending
  <1>11. ASSUME NEW t, Pending(w, t)' PROVE Pending(w, t)
    BY <1>5, <1>8, <1>11 DEF Pending
  <1>12. ASSUME NEW t, t # s, Pending(w, t) PROVE Pending(w, t)'
    BY <1>3, <1>5, <1>9, <1>12 DEF Pending
  <1> QED
    BY <1>5, <1>6, <1>7, <1>10, <1>11, <1>12

\* What the tasks and the tables never hold against the owner.
OwnerSafe ==
    /\ status = "none" =>
          owner = Nobody /\ \A w \in Workers : task[w].todo = <<>>
    /\ status # "none" => owner \in Users
    /\ \A u \in Users : bans[u] # "none" => owner \in Users /\ u # owner
    /\ \A w \in Workers, s \in Dismissals : Pending(w, s) => task[w].who # owner

\* The invariant is inductive: a list that dismisses somebody is begun for
\* others than the owner, who never changes.
LEMMA OwnerSafeStep == TypeOK /\ OwnerSafe /\ [Next]_vars => OwnerSafe'
  <1> SUFFICES ASSUME TypeOK, OwnerSafe, [Next]_vars PROVE OwnerSafe'
    OBVIOUS
  <1>1. CASE UNCHANGED vars
    BY <1>1 DEF vars, tables, history, OwnerSafe, Pending
  <1>2. ASSUME NEW w \in Workers, Requests(w) PROVE OwnerSafe'
    <2>1. PICK a \in Users, u \in Users, g \in SUBSET Rights, l \in Lists :
              /\ Ready(w) /\ served < MaxHandlers
              /\ Take(w, a, u, g, l)
              /\ UNCHANGED <<subs, admins, rights, bans, requests, linked>>
              /\ granted' \in {granted, [granted EXCEPT ![u] = g]}
              /\ Opening(u, l) \/ Routine(u, l)
      BY <1>2, RequestShape
    <2>2. /\ task'[w].who = u /\ task'[w].todo = l
          /\ \A x \in Workers \ {w} : task'[x] = task[x]
      BY <2>1 DEF Take, TypeOK
    <2>3. CASE Opening(u, l)
      <3>1. Harmless(l) /\ \A x \in Workers \ {w} : task'[x].todo = <<>>
        BY <2>2, <2>3, HarmlessLists DEF Opening, OwnerSafe
      <3>2. \A x \in Workers, s \in Dismissals : ~Pending(x, s)'
        BY <2>2, <3>1 DEF Harmless, Pending
      <3>3. \A v \in Users : bans'[v] = "none"
        BY <2>1, <2>3, NobodyAssumption DEF Opening, OwnerSafe
      <3> QED
        BY <2>3, <3>2, <3>3 DEF Opening, OwnerSafe
    <2>4. CASE Routine(u, l)
      <3>1. status' # "none" /\ status # "none" /\ owner' = owner /\ bans' = bans
        BY <2>1, <2>4 DEF Routine, Live
      <3>2. ASSUME NEW x \in Workers, NEW s \in Dismissals, Pending(x, s)'
            PROVE  task'[x].who # owner
        BY <2>2, <2>4, <3>2 DEF Routine, Harmless, Pending, OwnerSafe
      <3> QED
        BY <3>1, <3>2 DEF OwnerSafe
    <2> QED
      BY <2>1, <2>3, <2>4
  <1>3. ASSUME NEW w \in Workers, Steps(w) PROVE OwnerSafe'
    <2>1. PICK s : Run(w, s)
      BY <1>3 DEF Steps, InsertSub, DeleteSub, SetAdmin, SetRights, SetBan, PutRequest,
                  AnswerRequest, InsertLink, SetStatus
    <2>2. task[w].todo # <<>> /\ task[w].who \in Users
      BY <2>1, RunType DEF Run
    <2>3. status # "none" /\ owner \in Users
      BY <2>2 DEF OwnerSafe
    <2>4. owner' = owner /\ status' # "none"
      BY <1>3, <2>3 DEF Steps, InsertSub, DeleteSub, SetAdmin, SetRights, SetBan, PutRequest,
                        AnswerRequest, InsertLink, SetStatus
    <2>5. ASSUME NEW x \in Workers, NEW t \in Dismissals, Pending(x, t)'
          PROVE  task'[x].who # owner
      <3>1. CASE x = w
        <4>1. Pending(w, t) /\ task'[w].todo # <<>>
          BY <2>1, <2>5, <3>1, RunPending DEF Pending
        <4> QED
          BY <2>1, <3>1, <4>1, RunPending DEF OwnerSafe
      <3>2. CASE x # w
        BY <2>1, <2>5, <3>2, RunPending DEF Pending, OwnerSafe
      <3> QED
        BY <3>1, <3>2
    <2>6. ASSUME NEW u \in Users, bans'[u] # "none" PROVE u # owner
      <3>1. CASE bans' = bans
        BY <2>6, <3>1 DEF OwnerSafe
      <3>2. CASE Run(w, "putBan") /\ bans' = [bans EXCEPT ![task[w].who] = "standing"]
        <4>1. task[w].who # owner
          BY <3>2, RunPending DEF OwnerSafe, Dismissals
        <4> QED
          BY <2>6, <3>2, <4>1 DEF OwnerSafe, TypeOK
      <3>3. CASE bans' = [bans EXCEPT ![task[w].who] = "none"]
        BY <2>2, <2>6, <3>3 DEF OwnerSafe, TypeOK
      <3> QED
        BY <1>3, <3>1, <3>2, <3>3 DEF Steps, InsertSub, DeleteSub, SetAdmin, SetRights, SetBan,
                                      PutRequest, AnswerRequest, InsertLink, SetStatus
    <2> QED
      BY <2>3, <2>4, <2>5, <2>6 DEF OwnerSafe
  <1>4. ASSUME NEW w \in Workers, Crash(w) PROVE OwnerSafe'
    <2>1. /\ task'[w].todo = <<>>
          /\ \A x \in Workers \ {w} : task'[x] = task[x]
          /\ UNCHANGED <<status, owner, bans>>
      BY <1>4 DEF Crash, Idle, tables, TypeOK
    <2> QED
      BY <2>1 DEF OwnerSafe, Pending
  <1>5. ASSUME NEW u \in Users, Lapse(u) PROVE OwnerSafe'
    BY <1>5 DEF Lapse, OwnerSafe, Pending, TypeOK, history
  <1> QED
    BY <1>1, <1>2, <1>3, <1>4, <1>5 DEF Next

\* No step takes the owner's subscription or his office, or bans him.
LEMMA OwnerKeepsStep ==
    TypeOK /\ OwnerSafe /\ OwnerSafe' /\ [Next]_vars =>
        [/\ owner \in subs => owner \in subs'
         /\ owner \in admins => owner \in admins'
         /\ owner \in Users => bans'[owner] = "none"]_vars
  <1> SUFFICES ASSUME TypeOK, OwnerSafe, OwnerSafe', [Next]_vars, ~UNCHANGED vars
               PROVE  /\ owner \in subs => owner \in subs'
                      /\ owner \in admins => owner \in admins'
                      /\ owner \in Users => bans'[owner] = "none"
    OBVIOUS
  <1>1. ASSUME owner \in Users PROVE owner' = owner
    <2>1. status # "none"
      BY <1>1, NobodyAssumption DEF OwnerSafe
    <2>2. ASSUME NEW w \in Workers, Requests(w) PROVE owner' = owner
      BY <2>1, <2>2, RequestShape DEF Opening, Routine
    <2> QED
      BY <2>2 DEF Next, Steps, InsertSub, DeleteSub, SetAdmin, SetRights, SetBan, PutRequest,
                  AnswerRequest, InsertLink, SetStatus, Crash, Lapse, tables
  <1>2. owner \in Users => bans'[owner] = "none"
    BY <1>1 DEF OwnerSafe
  <1>3. ASSUME NEW w \in Workers, Requests(w) PROVE UNCHANGED <<subs, admins>>
    BY <1>3, RequestShape
  <1>4. ASSUME NEW w \in Workers, Steps(w)
        PROVE  /\ owner \in subs => owner \in subs'
               /\ owner \in admins => owner \in admins'
    <2>1. Run(w, "deleteSub") \/ Run(w, "deleteAdmin") => task[w].who # owner
      BY RunPending DEF OwnerSafe, Dismissals
    <2> QED
      BY <1>4, <2>1 DEF Steps, InsertSub, DeleteSub, SetAdmin, SetRights, SetBan, PutRequest,
                        AnswerRequest, InsertLink, SetStatus
  <1> QED
    BY <1>2, <1>3, <1>4 DEF Next, Crash, Lapse, tables

\* OwnerSafe holds in the beginning, when there is no channel and no task.
LEMMA OwnerSafeInit == Init => OwnerSafe
  BY DEF Init, OwnerSafe, Pending, Idle

\* The owner is never put out of his channel and never banned, by no
\* interleaving of requests and deaths of workers.
THEOREM OwnerKeeps == Spec => OwnerKeepsSeat
  <1>1. Spec => [](TypeOK /\ OwnerSafe)
    BY TypeInit, TypeStep, OwnerSafeInit, OwnerSafeStep, PTL DEF Spec
  <1> QED
    BY <1>1, OwnerKeepsStep, PTL DEF Spec, OwnerKeepsSeat

-----------------------------------------------------------------------------
(* The owner takes his seat.                                               *)

\* While no worker has been killed the owner sits in his channel, or the
\* handler that creates it is about to seat him.
Seating(w) ==
    /\ task[w].who = owner
    /\ \/ task[w].todo = Founding
       \/ owner \in subs /\ task[w].todo = <<"insertAdmin", "putRights">>
Seated ==
    crashes = 0 /\ owner # Nobody =>
        owner \in subs \cap admins \/ \E w \in Workers : Seating(w)

\* The invariant is inductive: only the two INSERTs end the disjunct Seating.
LEMMA SeatedStep == TypeOK /\ OwnerSafe /\ OwnerSafe' /\ Seated /\ [Next]_vars => Seated'
  <1> SUFFICES ASSUME TypeOK, OwnerSafe, OwnerSafe', Seated, [Next]_vars PROVE Seated'
    OBVIOUS
  <1>0. \/ UNCHANGED vars
        \/ /\ owner \in subs => owner \in subs'
           /\ owner \in admins => owner \in admins'
    BY OwnerKeepsStep
  <1>1. CASE UNCHANGED vars
    BY <1>1 DEF vars, tables, history, Seated, Seating
  <1>2. ASSUME NEW w \in Workers, Requests(w) PROVE Seated'
    <2>1. PICK a \in Users, u \in Users, g \in SUBSET Rights, l \in Lists :
              /\ Ready(w) /\ served < MaxHandlers
              /\ Take(w, a, u, g, l)
              /\ UNCHANGED <<subs, admins, rights, bans, requests, linked>>
              /\ granted' \in {granted, [granted EXCEPT ![u] = g]}
              /\ Opening(u, l) \/ Routine(u, l)
      BY <1>2, RequestShape
    <2>2. /\ task'[w].who = u /\ task'[w].todo = l /\ task[w].todo = <<>>
          /\ \A x \in Workers \ {w} : task'[x] = task[x]
          /\ crashes' = crashes
      BY <2>1 DEF Take, TypeOK, Ready, Idle
    <2>3. CASE Opening(u, l)
      BY <2>2, <2>3 DEF Opening, Seated, Seating
    <2>4. CASE Routine(u, l)
      <3>1. ASSUME NEW x \in Workers, Seating(x) PROVE x # w
        BY <2>2, <3>1 DEF Seating, Founding
      <3> QED
        BY <2>1, <2>2, <2>4, <3>1 DEF Routine, Seated, Seating
    <2> QED
      BY <2>1, <2>3, <2>4
  <1>3. ASSUME NEW w \in Workers, Steps(w) PROVE Seated'
    <2>1. PICK s : Run(w, s)
      BY <1>3 DEF Steps, InsertSub, DeleteSub, SetAdmin, SetRights, SetBan, PutRequest,
                  AnswerRequest, InsertLink, SetStatus
    <2>2. crashes' = crashes /\ owner' = owner
      BY <1>3, <2>1 DEF Run, Steps, InsertSub, DeleteSub, SetAdmin, SetRights, SetBan, PutRequest,
                        AnswerRequest, InsertLink, SetStatus
    <2>3. /\ \A x \in Workers \ {w} : task'[x] = task[x]
          /\ task'[w].todo = Tail(task[w].todo)
          /\ task'[w].todo # <<>> => task'[w].who = task[w].who
      BY <2>1, RunPending
    <2>4. ASSUME crashes = 0, owner # Nobody, ~(owner \in subs \cap admins)
          PROVE  owner' \in subs' \cap admins' \/ \E x \in Workers : Seating(x)'
      <3>1. PICK x \in Workers : Seating(x)
        BY <2>4 DEF Seated
      <3>2. CASE x # w
        <4>1. task'[x] = task[x] /\ (owner \in subs => owner \in subs')
          BY <1>0, <2>3, <3>2 DEF vars, tables
        <4> QED
          BY <2>2, <3>1, <4>1 DEF Seating
      <3>3. CASE x = w /\ task[w].todo = Founding
        <4>1. Head(task[w].todo) = "insertSub"
              /\ Tail(task[w].todo) = <<"insertAdmin", "putRights">>
          BY <3>3 DEF Founding
        <4>2. InsertSub(w)
          BY <1>3, <4>1 DEF Steps, Run, InsertSub, DeleteSub, SetAdmin, SetRights, SetBan,
                            PutRequest, AnswerRequest, InsertLink, SetStatus
        <4>3. task[w].who = owner
          BY <3>1, <3>3 DEF Seating
        <4>4. owner \in subs'
          BY <4>2, <4>3 DEF InsertSub
        <4>5. task'[w].who = owner /\ task'[w].todo = <<"insertAdmin", "putRights">>
          BY <2>3, <4>1, <4>3
        <4> QED
          BY <2>2, <4>4, <4>5 DEF Seating
      <3>4. CASE x = w /\ owner \in subs /\ task[w].todo = <<"insertAdmin", "putRights">>
        <4>1. Head(task[w].todo) = "insertAdmin"
          BY <3>4
        <4>2. SetAdmin(w) /\ Run(w, "insertAdmin")
          BY <1>3, <4>1 DEF Steps, Run, InsertSub, DeleteSub, SetAdmin, SetRights, SetBan,
                            PutRequest, AnswerRequest, InsertLink, SetStatus
        <4>3. admins' = admins \cup {task[w].who} /\ subs' = subs
          BY <4>1, <4>2 DEF SetAdmin, Run
        <4>4. task[w].who = owner
          BY <3>1, <3>4 DEF Seating
        <4> QED
          BY <2>2, <3>4, <4>3, <4>4
      <3> QED
        BY <3>1, <3>2, <3>3, <3>4 DEF Seating
    <2> QED
      BY <1>0, <2>2, <2>4 DEF Seated, vars, tables
  <1>4. ASSUME NEW w \in Workers, Crash(w) PROVE Seated'
    BY <1>4 DEF Crash, Seated, TypeOK
  <1>5. ASSUME NEW u \in Users, Lapse(u) PROVE Seated'
    BY <1>5 DEF Lapse, Seated, Seating, history
  <1> QED
    BY <1>1, <1>2, <1>3, <1>4, <1>5 DEF Next

\* A channel whose creation has run to its end has its owner among its
\* subscribers and administrators.
THEOREM OwnerSeated == Spec => []OwnerIsSeated
  <1>1. Init => Seated
    BY DEF Init, Seated
  <1>2. Seated => OwnerIsSeated
    <2>1. ASSUME NEW w \in Workers, Seating(w) PROVE Pending(w, "insertAdmin")
      <3>1. CASE task[w].todo = Founding
        BY <3>1 DEF Founding, Pending
      <3>2. CASE task[w].todo = <<"insertAdmin", "putRights">>
        BY <3>2 DEF Pending
      <3> QED
        BY <2>1, <3>1, <3>2 DEF Seating
    <2> QED
      BY <2>1 DEF Seated, OwnerIsSeated, Seating
  <1>3. Spec => [](TypeOK /\ OwnerSafe /\ Seated)
    BY <1>1, TypeInit, TypeStep, OwnerSafeInit, OwnerSafeStep, SeatedStep, PTL DEF Spec
  <1> QED
    BY <1>2, <1>3, PTL

-----------------------------------------------------------------------------
(* Approved requests.                                                      *)

\* Only the approval of a request runs the statement "approve".
LEMMA ApproveList == \A l \in Lists : (\E i \in DOMAIN l : l[i] = "approve") => l = Approval
  <1>1. \A s : s # "approve" => ~\E i \in DOMAIN <<s>> : <<s>>[i] = "approve"
    OBVIOUS
  <1>2. \A s, t : s # "approve" /\ t # "approve" =>
            ~\E i \in DOMAIN <<s, t>> : <<s, t>>[i] = "approve"
    OBVIOUS
  <1>3. \A s, t, u : s # "approve" /\ t # "approve" /\ u # "approve" =>
            ~\E i \in DOMAIN <<s, t, u>> : <<s, t, u>>[i] = "approve"
    OBVIOUS
  <1>4. \A s \in Singles : s # "approve"
    BY DEF Singles
  <1>5. \A l \in {Founding, Promotion, Removal} : ~\E i \in DOMAIN l : l[i] = "approve"
    BY <1>3 DEF Founding, Promotion, Removal
  <1>6. \A l \in {Leaving, Demotion, Banning} : ~\E i \in DOMAIN l : l[i] = "approve"
    BY <1>2 DEF Leaving, Demotion, Banning
  <1> QED
    BY <1>1, <1>2, <1>4, <1>5, <1>6 DEF Lists

\* ApprovedIsAdmitted, and that the subscription follows the approval.
ApprovalInv ==
    /\ \A w \in Workers : Pending(w, "approve") => task[w].todo = Approval
    /\ ApprovedIsAdmitted

\* The invariant is inductive: the statement that marks a request leaves the
\* subscription pending, and only that statement takes it off the list.
LEMMA ApprovalStep == TypeOK /\ ApprovalInv /\ [Next]_vars => ApprovalInv'
  <1> SUFFICES ASSUME TypeOK, ApprovalInv, [Next]_vars PROVE ApprovalInv'
    OBVIOUS
  <1>1. CASE UNCHANGED vars
    BY <1>1 DEF vars, tables, history, ApprovalInv, ApprovedIsAdmitted, Pending
  <1>2. ASSUME NEW w \in Workers, Requests(w) PROVE ApprovalInv'
    <2>1. PICK a \in Users, u \in Users, g \in SUBSET Rights, l \in Lists :
              /\ Ready(w) /\ served < MaxHandlers
              /\ Take(w, a, u, g, l)
              /\ UNCHANGED <<subs, admins, rights, bans, requests, linked>>
              /\ granted' \in {granted, [granted EXCEPT ![u] = g]}
              /\ Opening(u, l) \/ Routine(u, l)
      BY <1>2, RequestShape
    <2>2. /\ task'[w].todo = l /\ task[w].todo = <<>>
          /\ \A x \in Workers \ {w} : task'[x] = task[x]
          /\ UNCHANGED <<requests, admitted, crashes>>
      BY <2>1 DEF Take, TypeOK, Ready, Idle
    <2>3. \A t : ~Pending(w, t)
      BY <2>2 DEF Pending
    <2>4. \A x \in Workers : Pending(x, "approve")' => task'[x].todo = Approval
      BY <2>2, ApproveList DEF ApprovalInv, Pending
    <2>5. ASSUME NEW x \in Workers, Pending(x, "insertSub")
          PROVE  Pending(x, "insertSub")' /\ task'[x].who = task[x].who
      BY <2>2, <2>3, <2>5 DEF Pending
    <2> QED
      BY <2>2, <2>4, <2>5 DEF ApprovalInv, ApprovedIsAdmitted
  <1>3. ASSUME NEW w \in Workers, Steps(w) PROVE ApprovalInv'
    <2>1. PICK s : Run(w, s)
      BY <1>3 DEF Steps, InsertSub, DeleteSub, SetAdmin, SetRights, SetBan, PutRequest,
                  AnswerRequest, InsertLink, SetStatus
    <2>2. /\ \A x \in Workers \ {w} : task'[x] = task[x]
          /\ task'[w].todo = Tail(task[w].todo)
          /\ task'[w].todo # <<>> => task'[w].who = task[w].who
          /\ \A t : Pending(w, t)' => Pending(w, t)
          /\ \A t : t # s /\ Pending(w, t) => Pending(w, t)'
      BY <2>1, RunPending
    <2>3. task[w].who \in Users /\ crashes' = crashes
      BY <2>1, RunType
    <2>4. ASSUME NEW x \in Workers, Pending(x, "approve")' PROVE task'[x].todo = Approval
      <3>1. CASE x = w
        <4>1. task[w].todo = Approval
          BY <2>2, <2>4, <3>1 DEF ApprovalInv
        <4>2. task'[w].todo = <<"insertSub">>
          BY <2>2, <4>1 DEF Approval
        <4> QED
          BY <2>4, <3>1, <4>2 DEF Pending
      <3>2. CASE x # w
        BY <2>2, <2>4, <3>2 DEF Pending, ApprovalInv
      <3> QED
        BY <3>1, <3>2
    <2>5. ASSUME NEW x \in Workers, Pending(x, "insertSub"), x # w \/ s # "insertSub"
          PROVE  Pending(x, "insertSub")' /\ task'[x].who = task[x].who
      <3>1. CASE x # w
        BY <2>2, <2>5, <3>1 DEF Pending
      <3>2. CASE x = w
        <4>1. Pending(w, "insertSub")'
          BY <2>2, <2>5, <3>2
        <4>2. task'[w].todo # <<>>
          <5>1. PICK i \in DOMAIN (task'[w].todo) : task'[w].todo[i] = "insertSub"
            BY <4>1 DEF Pending
          <5>2. DOMAIN << >> = {}
            OBVIOUS
          <5> QED
            BY <5>1, <5>2
        <4> QED
          BY <2>2, <3>2, <4>1, <4>2
      <3> QED
        BY <3>1, <3>2
    <2>6. ASSUME crashes = 0, NEW u \in Users, requests'[u] = "approved"
          PROVE  \/ u \in admitted'
                 \/ \E x \in Workers : task'[x].who = u /\ Pending(x, "insertSub")'
      <3>1. CASE Run(w, "approve") /\ task[w].who = u
        <4>1. task[w].todo = Approval
          BY <3>1, RunPending DEF ApprovalInv
        <4>2. task'[w].todo = <<"insertSub">>
          BY <2>2, <4>1 DEF Approval
        <4>3. Pending(w, "insertSub")'
          BY <4>2 DEF Pending
        <4>4. task'[w].who = u
          <5>1. <<"insertSub">> # <<>>
            OBVIOUS
          <5> QED
            BY <2>2, <3>1, <4>2, <5>1
        <4> QED
          BY <4>3, <4>4
      <3>2. CASE ~(Run(w, "approve") /\ task[w].who = u)
        <4>1. requests[u] = "approved"
          BY <1>3, <2>3, <2>6, <3>2 DEF TypeOK, Answered, Steps, InsertSub, DeleteSub, SetAdmin,
             SetRights, SetBan, PutRequest, AnswerRequest, InsertLink, SetStatus
        <4>2. CASE InsertSub(w)
          <5>1. s = "insertSub" /\ admitted' = admitted \cup {task[w].who}
            BY <2>1, <4>2 DEF InsertSub, Run
          <5> QED
            BY <2>5, <2>6, <4>1, <5>1 DEF ApprovalInv, ApprovedIsAdmitted
        <4>3. CASE PutRequest(w)
          <5>1. s # "insertSub" /\ task[w].who # u /\ admitted' = admitted \ {task[w].who}
            BY <2>1, <2>3, <2>6, <4>3 DEF PutRequest, Run, TypeOK
          <5> QED
            BY <2>5, <2>6, <4>1, <5>1 DEF ApprovalInv, ApprovedIsAdmitted
        <4>4. CASE ~InsertSub(w) /\ ~PutRequest(w)
          <5>1. s # "insertSub" /\ admitted' = admitted
            BY <1>3, <2>1, <4>4 DEF Run, Steps, DeleteSub, SetAdmin,
               SetRights, SetBan, AnswerRequest, InsertLink, SetStatus
          <5> QED
            BY <2>5, <2>6, <4>1, <5>1 DEF ApprovalInv, ApprovedIsAdmitted
        <4> QED
          BY <4>2, <4>3, <4>4
      <3> QED
        BY <3>1, <3>2
    <2> QED
      BY <2>3, <2>4, <2>6 DEF ApprovalInv, ApprovedIsAdmitted
  <1>4. ASSUME NEW w \in Workers, Crash(w) PROVE ApprovalInv'
    <2>1. /\ task'[w].todo = <<>>
          /\ \A x \in Workers \ {w} : task'[x] = task[x]
          /\ crashes' # 0
      BY <1>4 DEF Crash, Idle, TypeOK
    <2> QED
      BY <2>1 DEF ApprovalInv, ApprovedIsAdmitted, Pending
  <1>5. ASSUME NEW u \in Users, Lapse(u) PROVE ApprovalInv'
    BY <1>5 DEF Lapse, ApprovalInv, ApprovedIsAdmitted, Pending, history
  <1> QED
    BY <1>1, <1>2, <1>3, <1>4, <1>5 DEF Next

\* Whoever's request is marked approved has been subscribed, or is about to be,
\* unless a worker is killed between the two statements.
THEOREM ApprovedAdmitted == Spec => []ApprovedIsAdmitted
  <1>1. Init => ApprovalInv
    BY DEF Init, ApprovalInv, ApprovedIsAdmitted, Pending, Idle
  <1>2. ApprovalInv => ApprovedIsAdmitted
    BY DEF ApprovalInv
  <1>3. Spec => [](TypeOK /\ ApprovalInv)
    BY <1>1, TypeInit, TypeStep, ApprovalStep, PTL DEF Spec
  <1> QED
    BY <1>2, <1>3, PTL

-----------------------------------------------------------------------------
(* Handlers that do not overlap: what they run, and for whom.              *)

Has(l, s) == \E i \in DOMAIN l : l[i] = s

\* What a short list contains.
LEMMA HasShort ==
    /\ \A s : ~Has(<<>>, s)
    /\ \A a, s : Has(<<a>>, s) <=> s = a
    /\ \A a, b, s : Has(<<a, b>>, s) <=> s \in {a, b}
    /\ \A a, b, c, s : Has(<<a, b, c>>, s) <=> s \in {a, b, c}
  <1>1. \A s : ~Has(<<>>, s)
    BY DEF Has
  <1>2. \A a, s : Has(<<a>>, s) <=> s = a
    BY DEF Has
  <1>3. ASSUME NEW a, NEW b, NEW s PROVE Has(<<a, b>>, s) <=> s \in {a, b}
    <2>1. DOMAIN <<a, b>> = {1, 2} /\ <<a, b>>[1] = a /\ <<a, b>>[2] = b
      OBVIOUS
    <2> QED
      BY <2>1 DEF Has
  <1>4. ASSUME NEW a, NEW b, NEW c, NEW s PROVE Has(<<a, b, c>>, s) <=> s \in {a, b, c}
    <2>1. /\ DOMAIN <<a, b, c>> = {1, 2, 3}
          /\ <<a, b, c>>[1] = a /\ <<a, b, c>>[2] = b /\ <<a, b, c>>[3] = c
      OBVIOUS
    <2> QED
      BY <2>1 DEF Has
  <1> QED
    BY <1>1, <1>2, <1>3, <1>4

\* Which lists contain the statements about administrators and subscriptions.
LEMMA ListContents ==
    ASSUME NEW l \in Lists
    PROVE  /\ Has(l, "insertAdmin") => l = Promotion
           /\ Has(l, "putRights") => l = Promotion
           /\ Has(l, "deleteRights") => l \in {Removal, Demotion}
           /\ Has(l, "insertSub") =>
                  l \in {Promotion, Approval, <<"insertSub">>, <<"deleteBan", "insertSub">>}
  <1>1. CASE l \in {Founding, Leaving, Promotion, Demotion, Removal, Banning, Approval}
    BY <1>1, HasShort DEF Founding, Leaving, Promotion, Demotion, Removal, Banning, Approval
  <1>2. ASSUME NEW s \in Singles, l = <<s>> \/ l = <<"deleteBan", s>>
        PROVE  /\ ~Has(l, "insertAdmin") /\ ~Has(l, "putRights") /\ ~Has(l, "deleteRights")
               /\ Has(l, "insertSub") => s = "insertSub"
    BY <1>2, HasShort DEF Singles
  <1> QED
    BY <1>1, <1>2 DEF Lists

\* A promotion is none of the other lists.
LEMMA NoPromotion ==
    /\ Promotion \notin {Leaving, Demotion, Removal, Banning, Approval}
    /\ \A s \in Singles : Promotion # <<s>> /\ Promotion # <<"deleteBan", s>>
  <1>1. Has(Promotion, "putRights")
    BY HasShort DEF Promotion
  <1>2. \A l \in {Leaving, Demotion, Removal, Banning, Approval} : ~Has(l, "putRights")
    BY HasShort DEF Leaving, Demotion, Removal, Banning, Approval
  <1>3. \A s \in Singles : ~Has(<<s>>, "putRights") /\ ~Has(<<"deleteBan", s>>, "putRights")
    BY HasShort DEF Singles
  <1> QED
    BY <1>1, <1>2, <1>3

\* What the list of a handler looks like, once it contains such a statement.
ListForms(w) ==
    LET l == task[w].todo IN
    /\ Pending(w, "insertAdmin") => Pending(w, "putRights")
    /\ Pending(w, "putRights") =>
           l \in {Promotion, <<"insertAdmin", "putRights">>, <<"putRights">>}
    /\ Pending(w, "deleteRights") => l \in {Removal, Demotion, <<"deleteRights">>}
    /\ Pending(w, "insertSub") =>
           l \in {Promotion, Approval, <<"insertSub">>, <<"deleteBan", "insertSub">>}

Formed == \A w \in Workers : ListForms(w)

\* While no two handlers have overlapped at most one is under way.
Alone == ~raced => \A v, w \in Workers : v = w \/ Ready(v) \/ Ready(w)

\* The rights of an administrator are those last granted or about to be
\* written; a promotion under way carries those last granted.
RightsInv ==
    ~raced =>
       /\ \A w \in Workers : Pending(w, "putRights") /\ task[w].who # owner =>
             task[w].grant = granted[task[w].who]
       /\ \A w \in Workers : task[w].todo = <<"deleteRights">> => task[w].who \notin admins
       /\ crashes = 0 => \A u \in admins \ {owner} :
             Held(u) = granted[u] \/ \E w \in Workers : task[w].who = u /\ Pending(w, "putRights")

\* Whoever is about to be subscribed may be.
Lawful(w) ==
    /\ Live
    /\ \/ task[w].by # task[w].who
       \/ Can(task[w].by, "admins") \/ Can(task[w].by, "people")
       \/ bans[task[w].who] # "standing" /\ (status = "public" \/ linked)
EntryInv == ~raced => \A w \in Workers : Pending(w, "insertSub") => Lawful(w)

\* A request that promotes records the rights it asks for; one that subscribes
\* has just found it lawful.
Checked(w, u, g, l) ==
    /\ l = Promotion => owner' = u \/ granted' = [granted EXCEPT ![u] = g]
    /\ l # Promotion => granted' = granted
    /\ granted' \in {granted, [granted EXCEPT ![u] = g]}
    /\ Has(l, "insertSub") => Lawful(w)'
LEMMA RequestRights ==
    ASSUME TypeOK, NEW w \in Workers, Requests(w)
    PROVE  \E a, u \in Users, g \in SUBSET Rights, l \in Lists :
               /\ Ready(w)
               /\ Take(w, a, u, g, l)
               /\ UNCHANGED <<subs, admins, rights, bans, requests, linked>>
               /\ Opening(u, l) \/ Routine(u, l)
               /\ Checked(w, u, g, l)
  <1> DEFINE Shape(a, u, g, l) ==
               /\ Ready(w)
               /\ Take(w, a, u, g, l)
               /\ UNCHANGED <<subs, admins, rights, bans, requests, linked>>
               /\ Opening(u, l) \/ Routine(u, l)
               /\ Checked(w, u, g, l)
  <1> SUFFICES \E a, u \in Users, g \in SUBSET Rights, l \in Lists : Shape(a, u, g, l)
    OBVIOUS
  <1>1. Ready(w)
    BY DEF Requests
  <1>2. {} \in SUBSET Rights /\ Rights \in SUBSET Rights /\ Grants \subseteq SUBSET Rights
    BY GrantAssumption
  <1>3. ASSUME NEW a, NEW u, NEW g, NEW l, Take(w, a, u, g, l)
        PROVE  task'[w].by = a /\ task'[w].who = u
    BY <1>3 DEF Take, TypeOK
  <1>4. {Founding, Promotion, Leaving, Demotion, Removal, Banning, Approval} \subseteq Lists
        /\ \A s \in Singles : <<s>> \in Lists /\ <<"deleteBan", s>> \in Lists
    BY DEF Lists
  <1>5. \A a \in Users : \A r : Can(a, r) => Live
    BY DEF Can, IsAdmin
  <1>6. ASSUME NEW a \in Users, NEW u \in Users, NEW l \in Lists, l # Promotion,
               Begin(w, a, u, l), Live, Harmless(l) \/ u # owner,
               Has(l, "insertSub") =>
                   \/ a # u
                   \/ bans[u] # "standing" /\ (status = "public" \/ linked)
        PROVE  Shape(a, u, {}, l)
    <2>1. Has(l, "insertSub") => Lawful(w)'
      BY <1>3, <1>6 DEF Begin, tables, Lawful, Live
    <2> QED
      BY <1>1, <1>6, <2>1 DEF Begin, tables, Routine, Checked
  <1>7. {"putRequest", "insertSub", "deleteBan", "decline", "insertLink",
         "makePublic", "makePrivate", "markGone"} \subseteq Singles
    BY DEF Singles
  <1>8. ASSUME NEW a \in Users, NEW u \in Users, NEW s \in Singles, Live,
               \/ Begin(w, a, u, <<s>>)
               \/ Begin(w, a, u, AfterBan(u, s)),
               s = "insertSub" => bans[u] # "standing" /\ (status = "public" \/ linked)
        PROVE  \E l \in Lists : Shape(a, u, {}, l)
    <2>1. PICK l \in {<<s>>, <<"deleteBan", s>>} : Begin(w, a, u, l)
      BY <1>8 DEF AfterBan
    <2>2. l \in Lists /\ l # Promotion /\ Harmless(l)
      BY <1>4, NoPromotion, HarmlessLists
    <2>3. Has(l, "insertSub") => s = "insertSub"
      BY HasShort
    <2> QED
      BY <1>6, <1>8, <2>1, <2>2, <2>3
  <1>9. ASSUME NEW u \in Users, \/ Subscribe(w, u) \/ Join(w, u)
        PROVE  \E l \in Lists : Shape(u, u, {}, l)
    BY <1>7, <1>8, <1>9 DEF Subscribe, Join, Banned, Live
  <1>10. ASSUME NEW a \in Users, NEW u \in Users, NEW l \in {Leaving, Demotion, Removal, Banning},
                Begin(w, a, u, l), Live, u # owner
         PROVE  Shape(a, u, {}, l)
    <2>1. ~Has(l, "insertSub")
      BY HasShort DEF Leaving, Demotion, Removal, Banning
    <2> QED
      BY <1>4, <1>6, <1>10, <2>1, NoPromotion
  <1>11. ASSUME NEW u \in Users, \/ Invite(w, u) \/ Delete(w, u)
         PROVE  \E l \in Lists : Shape(u, u, {}, l)
    BY <1>7, <1>8, <1>11 DEF Invite, Delete, IsAdmin
  <1>12. ASSUME NEW u \in Users, NEW v \in {"public", "private"}, Create(w, u, v)
         PROVE  Shape(u, u, Rights, Founding)
    <2>1. Take(w, u, u, Rights, Founding) /\ owner' = u /\ status' = v /\ granted' = granted
      BY <1>12 DEF Create
    <2>2. Can(u, "admins")'
      BY <2>1 DEF Can, IsAdmin, Live
    <2>3. Lawful(w)'
      BY <1>3, <2>1, <2>2 DEF Lawful, Live
    <2> QED
      BY <1>1, <1>12, <2>1, <2>3 DEF Create, Opening, Checked
  <1>13. ASSUME NEW a \in Users, NEW v \in {"public", "private"}, SetVisibility(w, a, v)
         PROVE  \E l \in Lists : Shape(a, a, {}, l)
    BY <1>5, <1>7, <1>8, <1>13 DEF SetVisibility
  <1>14. ASSUME NEW a \in Users, NEW u \in Users,
                \/ Unsubscribe(w, u) /\ a = u
                \/ Demote(w, a, u) \/ Remove(w, a, u) \/ Ban(w, a, u)
         PROVE  \E l \in {Leaving, Demotion, Removal, Banning} : Shape(a, u, {}, l)
    BY <1>5, <1>10, <1>14 DEF Unsubscribe, Demote, Remove, Ban, Dismissable
  <1>15. ASSUME NEW a \in Users, NEW u \in Users,
                \/ Unban(w, a, u) \/ Decline(w, a, u)
         PROVE  \E l \in Lists : Shape(a, u, {}, l)
    BY <1>5, <1>7, <1>8, <1>15 DEF Unban, Decline
  <1>16. ASSUME NEW a \in Users, NEW u \in Users, Approve(w, a, u)
         PROVE  Shape(a, u, {}, Approval)
    <2>1. Take(w, a, u, {}, Approval) /\ UNCHANGED <<tables, granted>> /\ Can(a, "people") /\ Live
      BY <1>5, <1>16 DEF Approve, Begin
    <2>2. Lawful(w)'
      BY <1>3, <2>1 DEF tables, Lawful, Live, Can, IsAdmin, Held
    <2> QED
      BY <1>1, <2>1, <2>2, NoPromotion, HarmlessLists DEF tables, Routine, Checked
  <1>17. ASSUME NEW a \in Users, NEW u \in Users, NEW g \in Grants, Promote(w, a, u, g)
         PROVE  Shape(a, u, g, Promotion)
    <2>1. Take(w, a, u, g, Promotion) /\ UNCHANGED tables /\ Can(a, "admins") /\ Live
      BY <1>5, <1>17 DEF Promote
    <2>2. Lawful(w)'
      BY <1>3, <2>1 DEF tables, Lawful, Live, Can, IsAdmin, Held
    <2> QED
      BY <1>1, <1>17, <2>1, <2>2, HarmlessLists DEF Promote, tables, Routine, Checked
  <1> HIDE DEF Shape
  <1> QED
    BY <1>2, <1>4, <1>9, <1>11, <1>12, <1>13, <1>14, <1>15, <1>16, <1>17 DEF Requests

\* What one statement leaves of its worker's task.
LEMMA RunLeaves ==
    ASSUME TypeOK, NEW w \in Workers, NEW s, Run(w, s)
    PROVE  /\ ~Ready(w)
           /\ task'[w] = IF Tail(task[w].todo) = <<>> THEN Idle
                         ELSE [task[w] EXCEPT !.todo = Tail(task[w].todo)]
           /\ \A t : Pending(w, t)' =>
                 /\ Pending(w, t)
                 /\ task'[w].by = task[w].by /\ task'[w].who = task[w].who
                 /\ task'[w].grant = task[w].grant
  <1>1. ~Ready(w)
    BY DEF Run, Ready, Idle
  <1>2. task'[w] = IF Tail(task[w].todo) = <<>> THEN Idle
                   ELSE [task[w] EXCEPT !.todo = Tail(task[w].todo)]
    BY DEF Run, TypeOK
  <1>3. task[w] \in [by: Users \cup {Nobody}, who: Users \cup {Nobody},
                     grant: SUBSET Rights, todo: Seq(Statements)]
    BY DEF TypeOK
  <1>4. ASSUME NEW t, Pending(w, t)' PROVE Tail(task[w].todo) # <<>>
    <2>1. task'[w].todo = Tail(task[w].todo)
      BY RunPending
    <2> QED
      BY <1>4, <2>1, HasShort DEF Pending, Has
  <1> QED
    BY <1>1, <1>2, <1>3, <1>4, RunPending

\* An idle worker has nothing pending.
LEMMA ReadyPending ==
    ASSUME NEW w \in Workers, Ready(w) PROVE \A s : ~Pending(w, s)
  BY HasShort DEF Ready, Idle, Pending, Has

\* The tails of the lists.
LEMMA Tails ==
    /\ Head(Promotion) = "insertSub" /\ Tail(Promotion) = <<"insertAdmin", "putRights">>
    /\ Tail(<<"insertAdmin", "putRights">>) = <<"putRights">>
    /\ Head(Removal) = "deleteSub" /\ Tail(Removal) = Demotion
    /\ Head(Demotion) = "deleteAdmin" /\ Tail(Demotion) = <<"deleteRights">>
    /\ Head(Approval) = "approve" /\ Tail(Approval) = <<"insertSub">>
    /\ Head(<<"deleteBan", "insertSub">>) = "deleteBan"
    /\ Tail(<<"deleteBan", "insertSub">>) = <<"insertSub">>
    /\ \A s : Tail(<<s>>) = <<>>
  BY DEF Promotion, Removal, Demotion, Approval

\* Lists keep their forms while they are run.
LEMMA FormsStep ==
    TypeOK /\ Formed /\ [Next]_vars => Formed'
  <1> SUFFICES ASSUME TypeOK, \A w \in Workers : ListForms(w), [Next]_vars, NEW x \in Workers
               PROVE  ListForms(x)'
    BY DEF Formed
  <1>1. CASE task'[x] = task[x]
    BY <1>1 DEF ListForms, Pending
  <1>2. ASSUME Requests(x) PROVE ListForms(x)'
    <2>1. PICK a \in Users, u \in Users, g \in SUBSET Rights, l \in Lists : Take(x, a, u, g, l)
      BY <1>2, RequestShape
    <2>2. task'[x].todo = l
      BY <2>1 DEF Take, TypeOK
    <2>3. Has(Promotion, "putRights")
      BY HasShort DEF Promotion
    <2> QED
      BY <2>2, <2>3, ListContents DEF ListForms, Pending, Has
  <1>3. ASSUME NEW s, Run(x, s) PROVE ListForms(x)'
    <2> DEFINE l == task[x].todo
    <2>1. /\ task'[x].todo = Tail(l)
          /\ \A t : Pending(x, t)' => Pending(x, t)
      BY <1>3, RunPending
    <2>2. \A t : Pending(x, t)' <=> Has(Tail(l), t)
      BY <2>1 DEF Pending, Has
    <2>3. \A t : ~Has(Tail(<<"putRights">>), t)
      BY Tails, HasShort
    <2>4. \A t : ~Has(Tail(<<"insertSub">>), t) /\ ~Has(Tail(<<"deleteRights">>), t)
      BY Tails, HasShort
    <2>5. ASSUME Pending(x, "putRights")'
          PROVE  Tail(l) \in {<<"insertAdmin", "putRights">>, <<"putRights">>}
      BY <2>1, <2>2, <2>3, <2>5, Tails DEF ListForms
    <2>6. ASSUME Pending(x, "insertAdmin")' PROVE Pending(x, "putRights")'
      <3>1. l \in {Promotion, <<"insertAdmin", "putRights">>, <<"putRights">>}
        BY <2>1, <2>6 DEF ListForms
      <3>2. Tail(l) \in {<<"insertAdmin", "putRights">>, <<"putRights">>}
        BY <2>2, <2>3, <2>6, <3>1, Tails
      <3>3. Has(<<"insertAdmin", "putRights">>, "putRights") /\ Has(<<"putRights">>, "putRights")
        BY HasShort
      <3> QED
        BY <2>2, <3>2, <3>3
    <2>7. ASSUME Pending(x, "deleteRights")' PROVE Tail(l) \in {Demotion, <<"deleteRights">>}
      BY <2>1, <2>2, <2>4, <2>7, Tails DEF ListForms
    <2>8. ASSUME Pending(x, "insertSub")' PROVE Tail(l) = <<"insertSub">>
      <3>1. ~Has(<<"insertAdmin", "putRights">>, "insertSub")
        BY HasShort
      <3> QED
        BY <2>1, <2>2, <2>4, <2>8, <3>1, Tails DEF ListForms
    <2> QED
      BY <2>1, <2>5, <2>6, <2>7, <2>8 DEF ListForms
  <1>4. ASSUME Crash(x) PROVE ListForms(x)'
    <2>1. task'[x].todo = <<>>
      BY <1>4 DEF Crash, Idle, TypeOK
    <2> QED
      BY <2>1, HasShort DEF ListForms, Pending, Has
  <1>5. ASSUME NEW w \in Workers, w # x, Requests(w) \/ (\E s : Run(w, s)) \/ Crash(w)
        PROVE  task'[x] = task[x]
    <2>1. ASSUME Requests(w) PROVE task'[x] = task[x]
      <3>1. PICK a \in Users, u \in Users, g \in SUBSET Rights, l \in Lists : Take(w, a, u, g, l)
        BY <2>1, RequestShape
      <3> QED
        BY <1>5, <3>1 DEF Take, TypeOK
    <2> QED
      BY <1>5, <2>1, RunPending DEF Crash, TypeOK
  <1>6. ASSUME NEW w \in Workers, Steps(w) PROVE \E s : Run(w, s)
    BY <1>6 DEF Steps, InsertSub, DeleteSub, SetAdmin, SetRights, SetBan, PutRequest,
                AnswerRequest, InsertLink, SetStatus
  <1>7. ASSUME UNCHANGED vars \/ \E u \in Users : Lapse(u) PROVE task'[x] = task[x]
    BY <1>7 DEF vars, Lapse
  <1> QED
    BY <1>1, <1>2, <1>3, <1>4, <1>5, <1>6, <1>7 DEF Next

\* A second handler beside the first is what "raced" records.
LEMMA AloneStep == TypeOK /\ Alone /\ [Next]_vars => Alone'
  <1> SUFFICES ASSUME TypeOK, Alone, [Next]_vars, ~raced' PROVE Alone'
    BY DEF Alone
  <1>1. ASSUME NEW w \in Workers, Requests(w) PROVE Alone'
    <2>1. PICK a \in Users, u \in Users, g \in SUBSET Rights, l \in Lists : Take(w, a, u, g, l)
      BY <1>1, RequestShape
    <2>2. \A x \in Workers \ {w} : Ready(x)'
      BY <2>1 DEF Take, Ready, TypeOK
    <2> QED
      BY <2>2 DEF Alone
  <1>2. ASSUME NEW w \in Workers, NEW s, Run(w, s) PROVE Alone'
    <2>1. ~raced /\ ~Ready(w)
      BY <1>2, RunLeaves DEF Run
    <2>2. \A x \in Workers \ {w} : Ready(x)'
      BY <1>2, <2>1, RunPending DEF Alone, Ready
    <2> QED
      BY <2>2 DEF Alone
  <1>3. ASSUME NEW w \in Workers, Steps(w) PROVE \E s : Run(w, s)
    BY <1>3 DEF Steps, InsertSub, DeleteSub, SetAdmin, SetRights, SetBan, PutRequest,
                AnswerRequest, InsertLink, SetStatus
  <1>4. ASSUME NEW w \in Workers, Crash(w) PROVE Alone'
    BY <1>4 DEF Crash, Alone, Ready, TypeOK
  <1>5. CASE UNCHANGED vars \/ \E u \in Users : Lapse(u)
    BY <1>5 DEF vars, Lapse, history, Alone, Ready
  <1> QED
    BY <1>1, <1>2, <1>3, <1>4, <1>5 DEF Next

\* Running a statement alone keeps the rights as they were granted.
LEMMA RightsRun ==
    ASSUME TypeOK, Alone, RightsInv, \A w \in Workers : ListForms(w), ~raced,
           NEW w \in Workers, NEW s, Run(w, s), Steps(w)
    PROVE  RightsInv'
  <1> DEFINE u == task[w].who
  <1> DEFINE l == task[w].todo
  <1>1. /\ u \in Users /\ owner' = owner
        /\ UNCHANGED <<granted, raced, crashes>>
    BY RunType DEF Steps, InsertSub, DeleteSub, SetAdmin, SetRights, SetBan, PutRequest,
       AnswerRequest, InsertLink, SetStatus
  <1>2. \A x \in Workers \ {w} : Ready(x) /\ task'[x] = task[x]
    BY RunLeaves, RunPending DEF Alone
  <1>3. \A x \in Workers \ {w} : task'[x].todo = <<>> /\ \A t : ~Pending(x, t) /\ ~Pending(x, t)'
    <2>1. \A x \in Workers \ {w} : \A t : ~Pending(x, t)
      BY <1>2, ReadyPending
    <2> QED
      BY <1>2, <2>1 DEF Pending, Ready, Idle
  <1>4. ASSUME NEW x \in Workers, Pending(x, "putRights")', task'[x].who # owner
        PROVE  task'[x].grant = granted[task'[x].who]
    <2>1. x = w
      BY <1>3, <1>4
    <2>2. /\ Pending(w, "putRights")
          /\ task'[w].who = u /\ task'[w].grant = task[w].grant
      BY <1>4, <2>1, RunLeaves
    <2> QED
      BY <1>4, <2>1, <2>2 DEF RightsInv
  <1>5. ASSUME NEW x \in Workers, task'[x].todo = <<"deleteRights">>
        PROVE  task'[x].who \notin admins'
    <2>1. x = w
      <3>1. <<"deleteRights">> # <<>>
        OBVIOUS
      <3> QED
        BY <1>3, <1>5, <3>1
    <2>2. Pending(w, "deleteRights")'
      BY <1>5, <2>1, HasShort DEF Pending, Has
    <2>3. task'[w].who = u /\ l \in {Removal, Demotion, <<"deleteRights">>}
      BY <2>2, RunLeaves DEF ListForms
    <2>4. Demotion # <<"deleteRights">> /\ <<>> # <<"deleteRights">>
      BY DEF Demotion
    <2>5. l = Demotion
      BY <1>5, <2>1, <2>3, <2>4, RunPending, Tails
    <2>6. s = "deleteAdmin"
      BY <2>5, Tails DEF Run
    <2>7. admins' = admins \ {u}
      BY <2>6 DEF Run, Steps, InsertSub, DeleteSub, SetAdmin, SetRights, SetBan, PutRequest,
                  AnswerRequest, InsertLink, SetStatus
    <2> QED
      BY <2>1, <2>3, <2>7
  <1>6. ASSUME crashes = 0, NEW v \in admins' \ {owner}
        PROVE  Held(v)' = granted[v] \/ (task'[w].who = v /\ Pending(w, "putRights")')
    <2>1. v \in Users
      BY <1>1, <1>6 DEF TypeOK, Steps, InsertSub, DeleteSub, SetAdmin, SetRights, SetBan, PutRequest,
                  AnswerRequest, InsertLink, SetStatus
    <2>2. ASSUME s # "putRights", Pending(w, "putRights")
          PROVE  Pending(w, "putRights")' /\ task'[w].who = u
      BY <2>2, RunPending, RunLeaves
    <2>3. ASSUME v \in admins, rights'[v] = rights[v], s # "putRights" \/ u # v
          PROVE  Held(v)' = granted[v] \/ (task'[w].who = v /\ Pending(w, "putRights")')
      <3>1. Held(v)' = Held(v)
        BY <2>3 DEF Held
      <3>2. Held(v) = granted[v] \/ (u = v /\ Pending(w, "putRights"))
        BY <1>3, <1>6, <2>3 DEF RightsInv
      <3> QED
        BY <2>2, <2>3, <3>1, <3>2
    <2>4. CASE s = "putRights" /\ u = v
      <3>1. Pending(w, "putRights")
        BY <2>4, RunPending
      <3>2. task[w].grant = granted[v]
        BY <1>6, <2>4, <3>1 DEF RightsInv
      <3>3. rights'[v] = granted[v]
        BY <1>1, <2>4, <3>2 DEF RightsPut, TypeOK, Run, Steps, InsertSub, DeleteSub, SetAdmin,
           SetRights, SetBan, PutRequest, AnswerRequest, InsertLink, SetStatus
      <3>4. granted[v] # NoRow
        BY <2>1 DEF NoRow, Rights, TypeOK
      <3> QED
        BY <3>3, <3>4 DEF Held
    <2>5. CASE s = "deleteRights"
      <3>1. l = <<"deleteRights">>
        <4>1. Pending(w, "deleteRights")
          BY <2>5, RunPending
        <4> QED
          BY <2>5, <4>1, Tails DEF ListForms, Run
      <3>2. u \notin admins
        BY <3>1 DEF RightsInv
      <3>3. admins' = admins /\ rights' = [rights EXCEPT ![u] = NoRow]
        BY <2>5 DEF Run, Steps, InsertSub, DeleteSub, SetAdmin, SetRights, SetBan, PutRequest,
                    AnswerRequest, InsertLink, SetStatus
      <3> QED
        BY <1>1, <1>6, <2>1, <2>3, <2>5, <3>2, <3>3 DEF TypeOK
    <2>6. CASE s = "insertAdmin"
      <3>1. Pending(w, "putRights")' /\ task'[w].who = u
        BY <2>2, <2>6, RunPending DEF ListForms
      <3>2. admins' = admins \cup {u} /\ rights' = rights
        BY <2>6 DEF Run, Steps, InsertSub, DeleteSub, SetAdmin, SetRights, SetBan, PutRequest,
                    AnswerRequest, InsertLink, SetStatus
      <3> QED
        BY <1>6, <2>3, <2>6, <3>1, <3>2
    <2>7. CASE s \notin {"putRights", "deleteRights", "insertAdmin"} \/ (s = "putRights" /\ u # v)
      <3>1. admins' \subseteq admins /\ rights'[v] = rights[v]
        BY <1>1, <2>1, <2>7 DEF RightsPut, TypeOK, Run, Steps, InsertSub, DeleteSub, SetAdmin,
           SetRights, SetBan, PutRequest, AnswerRequest, InsertLink, SetStatus
      <3> QED
        BY <1>6, <2>3, <2>7, <3>1
    <2> QED
      BY <2>4, <2>5, <2>6, <2>7
  <1> QED
    BY <1>1, <1>4, <1>5, <1>6 DEF RightsInv

\* A request, a crash and the clock keep the rights as they were granted.
LEMMA RightsStep ==
    TypeOK /\ OwnerSafe /\ Alone /\ RightsInv /\ Formed /\ [Next]_vars => RightsInv'
  <1> SUFFICES ASSUME TypeOK, OwnerSafe, Alone, RightsInv, \A w \in Workers : ListForms(w),
                      [Next]_vars, ~raced'
               PROVE  RightsInv'
    BY DEF RightsInv, Formed
  <1>1. ASSUME NEW w \in Workers, Requests(w) PROVE RightsInv'
    <2>1. PICK a \in Users, u \in Users, g \in SUBSET Rights, l \in Lists :
              /\ Ready(w)
              /\ Take(w, a, u, g, l)
              /\ UNCHANGED <<subs, admins, rights, bans, requests, linked>>
              /\ Opening(u, l) \/ Routine(u, l)
              /\ Checked(w, u, g, l)
      BY <1>1, RequestRights
    <2>2. /\ ~raced /\ crashes' = crashes
          /\ task'[w].who = u /\ task'[w].todo = l /\ task'[w].grant = g
          /\ \A x \in Workers \ {w} : Ready(x) /\ task'[x] = task[x]
      BY <2>1 DEF Take, TypeOK
    <2>3. \A x \in Workers : \A t : ~Pending(x, t)
      BY <2>1, <2>2, ReadyPending
    <2>4. /\ \A x \in Workers \ {w} : task'[x].todo = <<>> /\ \A t : ~Pending(x, t)'
          /\ \A t : Pending(w, t)' <=> Has(l, t)
      BY <2>2, <2>3 DEF Pending, Has, Ready, Idle
    <2>5. l = Promotion => granted' = [granted EXCEPT ![u] = g] \/ owner' = u
      BY <2>1 DEF Checked
    <2>6. ASSUME NEW x \in Workers, Pending(x, "putRights")', task'[x].who # owner'
          PROVE  task'[x].grant = granted'[task'[x].who]
      BY <2>2, <2>4, <2>5, <2>6, ListContents DEF TypeOK
    <2>7. ASSUME NEW x \in Workers PROVE task'[x].todo # <<"deleteRights">>
      <3>1. Has(<<"deleteRights">>, "deleteRights")
        BY HasShort
      <3>2. <<"deleteRights">> \notin {Removal, Demotion} /\ <<"deleteRights">> # <<>>
        BY DEF Removal, Demotion
      <3> QED
        BY <2>2, <2>4, <3>1, <3>2, ListContents
    <2>8. ASSUME crashes' = 0, NEW v \in admins' \ {owner'}
          PROVE  Held(v)' = granted'[v] \/ (u = v /\ Pending(w, "putRights")')
      <3>1. v \in admins \ {owner} /\ v \in Users
        BY <2>1, <2>8, NobodyAssumption DEF Opening, Routine, OwnerSafe, TypeOK
      <3>2. Held(v) = granted[v] /\ Held(v)' = Held(v)
        BY <2>1, <2>2, <2>3, <2>8, <3>1 DEF RightsInv, Held
      <3>3. CASE granted' = granted
        BY <3>2, <3>3
      <3>4. CASE l = Promotion /\ granted' = [granted EXCEPT ![u] = g]
        <4>1. Pending(w, "putRights")'
          BY <2>4, <3>4, HasShort DEF Promotion
        <4> QED
          BY <3>1, <3>2, <3>4, <4>1 DEF TypeOK
      <3>5. CASE l = Promotion /\ owner' = u
        BY <2>1, <2>8, <3>1, <3>2, <3>5 DEF Checked, TypeOK
      <3> QED
        BY <2>1, <3>3, <3>4, <3>5 DEF Checked
    <2> QED
      BY <2>2, <2>6, <2>7, <2>8 DEF RightsInv
  <1>2. ASSUME NEW w \in Workers, Steps(w) PROVE RightsInv'
    <2>1. PICK s : Run(w, s)
      BY <1>2 DEF Steps, InsertSub, DeleteSub, SetAdmin, SetRights, SetBan, PutRequest,
                  AnswerRequest, InsertLink, SetStatus
    <2> QED
      BY <1>2, <2>1, RightsRun DEF Run
  <1>3. ASSUME NEW w \in Workers, Crash(w) PROVE RightsInv'
    <2>1. /\ task'[w] = Idle /\ crashes' # 0
          /\ \A x \in Workers \ {w} : task'[x] = task[x]
          /\ UNCHANGED <<tables, granted, raced>>
      BY <1>3 DEF Crash, TypeOK
    <2>2. Idle.todo # <<"deleteRights">> /\ \A t : ~Pending(w, t)'
      BY <2>1, HasShort DEF Idle, Pending, Has
    <2> QED
      BY <2>1, <2>2 DEF RightsInv, Pending, tables
  <1>4. CASE UNCHANGED vars \/ \E u \in Users : Lapse(u)
    BY <1>4 DEF vars, Lapse, tables, history, RightsInv, Pending, Held
  <1> QED
    BY <1>1, <1>2, <1>3, <1>4 DEF Next

\* What was lawful when the handler looked stays so until it subscribes.
LEMMA EntryStep ==
    TypeOK /\ Alone /\ EntryInv /\ Formed /\ [Next]_vars => EntryInv'
  <1> SUFFICES ASSUME TypeOK, Alone, EntryInv, \A w \in Workers : ListForms(w), [Next]_vars,
                      ~raced', NEW x \in Workers, Pending(x, "insertSub")'
               PROVE  Lawful(x)'
    BY DEF EntryInv, Formed
  <1>0. ASSUME ~raced, Pending(x, "insertSub"), task'[x].by = task[x].by,
               task'[x].who = task[x].who,
               UNCHANGED <<status, owner, admins, rights, linked>>,
               bans[task[x].who] # "standing" => bans'[task[x].who] # "standing"
        PROVE  Lawful(x)'
    BY <1>0 DEF EntryInv, Lawful, Live, Can, IsAdmin, Held
  <1>1. ASSUME NEW w \in Workers, Requests(w) PROVE Lawful(x)'
    <2>1. PICK a \in Users, u \in Users, g \in SUBSET Rights, l \in Lists :
              Take(w, a, u, g, l) /\ Checked(w, u, g, l)
      BY <1>1, RequestRights
    <2>2. \A v \in Workers \ {w} : Ready(v) /\ task'[v] = task[v]
      BY <2>1 DEF Take, TypeOK
    <2>3. x = w
      BY <2>2, ReadyPending DEF Pending
    <2>4. Has(l, "insertSub")
      BY <2>1, <2>3 DEF Take, Pending, Has, TypeOK
    <2> QED
      BY <2>1, <2>3, <2>4 DEF Checked
  <1>2. ASSUME NEW w \in Workers, NEW s, Run(w, s), Steps(w) PROVE Lawful(x)'
    <2>1. ~raced /\ \A v \in Workers \ {w} : Ready(v) /\ task'[v] = task[v]
      <3>1. ~raced
        BY <1>2 DEF Run
      <3>2. ~Ready(w)
        BY <1>2, RunLeaves
      <3>3. \A v \in Workers \ {w} : Ready(v)
        BY <3>1, <3>2 DEF Alone
      <3>4. \A v \in Workers \ {w} : task'[v] = task[v]
        BY <1>2, RunPending
      <3> QED
        BY <3>1, <3>3, <3>4
    <2>2. x = w
      BY <2>1, ReadyPending DEF Pending
    <2>3. Pending(w, "insertSub") /\ task'[w].by = task[w].by /\ task'[w].who = task[w].who
      BY <1>2, <2>2, RunLeaves
    <2>4. task[w].todo \in {Approval, <<"deleteBan", "insertSub">>}
      <3>1. Has(Tail(task[w].todo), "insertSub")
        BY <1>2, <2>2, RunPending DEF Pending, Has
      <3>2. ~Has(<<"insertAdmin", "putRights">>, "insertSub") /\ ~Has(<<>>, "insertSub")
        BY HasShort
      <3>3. /\ Tail(Promotion) = <<"insertAdmin", "putRights">>
            /\ Tail(<<"insertSub">>) = <<>>
        BY Tails
      <3> QED
        BY <2>3, <3>1, <3>2, <3>3 DEF ListForms
    <2>5. s \in {"approve", "deleteBan"}
      BY <1>2, <2>4, Tails DEF Run
    <2>6. task[w].who \in Users
      BY <1>2, RunType
    <2>7. UNCHANGED <<status, owner, admins, rights, linked>>
      BY <1>2, <2>5 DEF Run, Steps, InsertSub, DeleteSub, SetAdmin, SetRights, SetBan, PutRequest,
                        AnswerRequest, InsertLink, SetStatus
    <2>8. bans' = bans \/ bans'[task[w].who] = "none"
      BY <1>2, <2>5, <2>6 DEF TypeOK, Run, Steps, InsertSub, DeleteSub, SetAdmin, SetRights, SetBan,
                        PutRequest, AnswerRequest, InsertLink, SetStatus
    <2> QED
      BY <1>0, <2>1, <2>2, <2>3, <2>7, <2>8
  <1>3. ASSUME NEW w \in Workers, Steps(w) PROVE \E s : Run(w, s)
    BY <1>3 DEF Steps, InsertSub, DeleteSub, SetAdmin, SetRights, SetBan, PutRequest,
                AnswerRequest, InsertLink, SetStatus
  <1>4. ASSUME NEW w \in Workers, Crash(w) PROVE Lawful(x)'
    <2>1. /\ task'[w] = Idle
          /\ \A v \in Workers \ {w} : task'[v] = task[v]
          /\ UNCHANGED <<tables, raced>>
      BY <1>4 DEF Crash, TypeOK
    <2>2. x # w
      BY <2>1, HasShort DEF Idle, Pending, Has
    <2> QED
      BY <1>0, <2>1, <2>2 DEF tables, Pending
  <1>5. ASSUME NEW u \in Users, Lapse(u) PROVE Lawful(x)'
    BY <1>0, <1>5 DEF Lapse, history, Pending, TypeOK
  <1>6. CASE UNCHANGED vars
    BY <1>0, <1>6 DEF vars, tables, history, Pending
  <1> QED
    BY <1>1, <1>2, <1>3, <1>4, <1>5, <1>6 DEF Next

\* Nothing is pending before the first request.
LEMMA AloneInit ==
    Init => Alone /\ RightsInv /\ EntryInv /\ Formed
  <1> SUFFICES ASSUME Init PROVE Alone /\ RightsInv /\ EntryInv /\ Formed
    OBVIOUS
  <1>1. \A w \in Workers : task[w].todo = <<>> /\ \A s : ~Pending(w, s)
    BY HasShort DEF Init, Idle, Pending, Has
  <1>2. <<>> # <<"deleteRights">>
    OBVIOUS
  <1> QED
    BY <1>1, <1>2 DEF Init, Alone, Ready, RightsInv, EntryInv, Formed, ListForms

\* The parts are inductive together.
LEMMA AloneInvariant ==
    Spec => [](TypeOK /\ Alone /\ RightsInv /\ EntryInv)
  BY AloneInit, AloneStep, FormsStep, RightsStep, EntryStep, TypeInit, TypeStep,
     OwnerSafeInit, OwnerSafeStep, PTL DEF Spec

\* As long as no two handlers overlap and none is cut short, an administrator
\* has exactly the rights his last promotion asked for, although leaving by
\* oneself does not delete the row that holds them.
THEOREM RightsAsGranted == Spec => []RightsAreAsGranted
  <1>1. RightsInv => RightsAreAsGranted
    <2> SUFFICES ASSUME RightsInv, crashes = 0, ~raced, \A w \in Workers : Ready(w),
                        NEW u \in admins \ {owner}
                 PROVE  Held(u) = granted[u]
      BY DEF RightsAreAsGranted
    <2>1. \A w \in Workers : ~Pending(w, "putRights")
      BY ReadyPending
    <2> QED
      BY <2>1 DEF RightsInv
  <1> QED
    BY <1>1, AloneInvariant, PTL

\* As long as no two handlers overlap nobody enters a channel that is deleted,
\* and nobody by himself one that is closed to him, though a handler that
\* deletes a lapsed ban does so between its tests and the subscription.
THEOREM EntersLawfully == Spec => LawfulEntry
  <1>1. ASSUME TypeOK, EntryInv, [Next]_vars, ~raced, NEW u \in subs' \ subs
        PROVE  /\ Live
               /\ \/ \E w \in Workers : task[w].who = u /\ Pending(w, "insertSub")
                       /\ \/ task[w].by # u
                          \/ Can(u, "admins") \/ Can(u, "people")
                  \/ bans[u] # "standing" /\ (status = "public" \/ linked)
    <2>1. subs' # subs /\ \A w \in Workers : ~Requests(w)
      BY <1>1, RequestShape
    <2>2. PICK w \in Workers : InsertSub(w)
      BY <1>1, <2>1 DEF Next, Steps, DeleteSub, SetAdmin, SetRights, SetBan, PutRequest,
         AnswerRequest, InsertLink, SetStatus, Crash, Lapse, vars, tables
    <2>3. task[w].who = u
      BY <1>1, <2>2 DEF InsertSub
    <2>4. Pending(w, "insertSub")
      BY <1>1, <2>2, RunPending DEF InsertSub
    <2>5. Lawful(w)
      BY <1>1, <2>4 DEF EntryInv
    <2> QED
      BY <2>3, <2>4, <2>5 DEF Lawful
  <1>2. TypeOK /\ EntryInv /\ [Next]_vars =>
            (~raced => \A u \in subs' \ subs :
                /\ Live
                /\ \/ \E w \in Workers : task[w].who = u /\ Pending(w, "insertSub")
                        /\ \/ task[w].by # u
                           \/ Can(u, "admins") \/ Can(u, "people")
                   \/ bans[u] # "standing" /\ (status = "public" \/ linked))
    BY <1>1
  <1> QED
    BY <1>2, AloneInvariant, PTL DEF Spec, LawfulEntry

=============================================================================
