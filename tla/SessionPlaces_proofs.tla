------------------------ MODULE SessionPlaces_proofs ------------------------
(***************************************************************************)
(* Where the messages of a session are, and what that means for an ACTIVE  *)
(* session: theorems about SessionTurns with all of its actors, for every  *)
(* set of messages and every bound.                                        *)
(***************************************************************************)
EXTENDS SessionTurns_proofs
-----------------------------------------------------------------------------
(* Where an accepted message is                                            *)

\* A message in a sequence of queue entries, and in one of them only.
In(q, m)   == \E i \in DOMAIN q : m \in q[i]
Once(q, m) == \A i, j \in DOMAIN q : m \in q[i] /\ m \in q[j] => i = j

\* The same for a sequence of messages.
Has(q, m)     == \E i \in DOMAIN q : q[i] = m
HasOnce(q, m) == \A i, j \in DOMAIN q : q[i] = m /\ q[j] = m => i = j

\* Combining the entries keeps the messages.
LEMMA MergedIn ==
  ASSUME NEW q, NEW m
  PROVE  m \in Merged(q) <=> In(q, m)
BY DEF Merged, In

\* An entry put at the end of a queue.
LEMMA AppendIn ==
  ASSUME NEW q \in Seq(SUBSET Msg), NEW x \in SUBSET Msg, NEW m
  PROVE  /\ In(Append(q, x), m) <=> In(q, m) \/ m \in x
         /\ Once(q, m) /\ ~(In(q, m) /\ m \in x) => Once(Append(q, x), m)
<1>1. /\ DOMAIN Append(q, x) = DOMAIN q \cup {Len(q) + 1}
      /\ Len(q) + 1 \notin DOMAIN q
      /\ Append(q, x)[Len(q) + 1] = x
      /\ \A i \in DOMAIN q : Append(q, x)[i] = q[i]
  OBVIOUS
<1> DEFINE r == Append(q, x)
<1> HIDE DEF r
<1>2. In(r, m) <=> In(q, m) \/ m \in x
  BY <1>1 DEF In, r
<1>3. Once(q, m) /\ ~(In(q, m) /\ m \in x) => Once(r, m)
  BY <1>1 DEF In, Once, r
<1> QED
  BY <1>2, <1>3 DEF r

\* Entries put in front of a queue.
LEMMA ConcatIn ==
  ASSUME NEW q \in Seq(SUBSET Msg), NEW r \in Seq(SUBSET Msg), NEW m
  PROVE  /\ In(q \o r, m) <=> In(q, m) \/ In(r, m)
         /\ Once(q, m) /\ Once(r, m) /\ ~(In(q, m) /\ In(r, m)) => Once(q \o r, m)
<1> DEFINE s == q \o r
<1>1. /\ DOMAIN s = 1..(Len(q) + Len(r)) /\ DOMAIN q = 1..Len(q) /\ DOMAIN r = 1..Len(r)
      /\ Len(q) \in Nat /\ Len(r) \in Nat
      /\ \A i \in DOMAIN q : s[i] = q[i]
      /\ \A i \in DOMAIN s \ DOMAIN q : i - Len(q) \in DOMAIN r /\ s[i] = r[i - Len(q)]
      /\ \A i \in DOMAIN r : i + Len(q) \in DOMAIN s /\ s[i + Len(q)] = r[i]
  OBVIOUS
<1> HIDE DEF s
<1>2. In(s, m) => In(q, m) \/ In(r, m)
  BY <1>1 DEF In
<1>3. In(q, m) => In(s, m)
  BY <1>1 DEF In
<1>4. In(r, m) => In(s, m)
  BY <1>1 DEF In
<1>5. Once(q, m) /\ Once(r, m) /\ ~(In(q, m) /\ In(r, m)) => Once(s, m)
  <2> SUFFICES ASSUME Once(q, m), Once(r, m), ~(In(q, m) /\ In(r, m)),
                      NEW i \in DOMAIN s, NEW j \in DOMAIN s, m \in s[i], m \in s[j]
               PROVE  i = j
    BY DEF Once
  <2>1. CASE i \in DOMAIN q /\ j \in DOMAIN q
    BY <1>1, <2>1 DEF Once
  <2>2. CASE i \notin DOMAIN q /\ j \notin DOMAIN q
    <3>1. i - Len(q) = j - Len(q)
      BY <1>1, <2>2 DEF Once
    <3> QED
      BY <1>1, <3>1
  <2>3. CASE (i \in DOMAIN q) # (j \in DOMAIN q)
    BY <1>1, <2>3 DEF In
  <2> QED
    BY <2>1, <2>2, <2>3
<1> QED
  BY <1>2, <1>3, <1>4, <1>5 DEF s

\* An id pushed to the inbox, and one taken from its front.
LEMMA AppendHas ==
  ASSUME NEW q \in Seq(Msg), NEW x \in Msg, NEW m
  PROVE  /\ Has(Append(q, x), m) <=> Has(q, m) \/ m = x
         /\ HasOnce(q, m) /\ ~(Has(q, m) /\ m = x) => HasOnce(Append(q, x), m)
<1>1. /\ DOMAIN Append(q, x) = DOMAIN q \cup {Len(q) + 1}
      /\ Len(q) + 1 \notin DOMAIN q
      /\ Append(q, x)[Len(q) + 1] = x
      /\ \A i \in DOMAIN q : Append(q, x)[i] = q[i]
  OBVIOUS
<1> DEFINE r == Append(q, x)
<1> HIDE DEF r
<1>2. Has(r, m) <=> Has(q, m) \/ m = x
  BY <1>1 DEF Has, r
<1>3. HasOnce(q, m) /\ ~(Has(q, m) /\ m = x) => HasOnce(r, m)
  BY <1>1 DEF Has, HasOnce, r
<1> QED
  BY <1>2, <1>3 DEF r

LEMMA TailHas ==
  ASSUME NEW q \in Seq(Msg), q # <<>>, NEW m
  PROVE  /\ Head(q) \in Msg
         /\ Has(q, m) <=> Has(Tail(q), m) \/ m = Head(q)
         /\ HasOnce(q, m) => HasOnce(Tail(q), m) /\ ~(Has(Tail(q), m) /\ m = Head(q))
<1> DEFINE r == Tail(q)
<1>1. /\ 1 \in DOMAIN q /\ q[1] = Head(q) /\ Head(q) \in Msg
      /\ \A i \in DOMAIN r : i \in Nat /\ i + 1 \in DOMAIN q /\ i + 1 # 1 /\ r[i] = q[i + 1]
      /\ \A i \in DOMAIN q \ {1} : i - 1 \in DOMAIN r /\ r[i - 1] = q[i]
  OBVIOUS
<1> HIDE DEF r
<1>2. Has(q, m) <=> Has(r, m) \/ m = Head(q)
  <2>1. Has(q, m) => Has(r, m) \/ m = Head(q)
    BY <1>1 DEF Has
  <2>2. Has(r, m) => Has(q, m)
    BY <1>1 DEF Has
  <2>3. m = Head(q) => Has(q, m)
    BY <1>1 DEF Has
  <2> QED
    BY <2>1, <2>2, <2>3
<1>3. ASSUME HasOnce(q, m) PROVE HasOnce(r, m)
  <2> SUFFICES ASSUME NEW i \in DOMAIN r, NEW j \in DOMAIN r, r[i] = m, r[j] = m
               PROVE  i = j
    BY DEF HasOnce
  <2>1. i + 1 = j + 1
    BY <1>1, <1>3 DEF HasOnce
  <2> QED
    BY <1>1, <2>1
<1>4. ASSUME HasOnce(q, m) PROVE ~(Has(r, m) /\ m = Head(q))
  BY <1>1, <1>4 DEF Has, HasOnce
<1> QED
  BY <1>1, <1>2, <1>3, <1>4 DEF r

-----------------------------------------------------------------------------
\* The four kinds of places of a message: the pending queue, the inbox, the
\* locals of the drain of task t, inbound row t.
Queued(m)     == In(pending, m)
Boxed(m)      == Has(inbox, m)
Handing(t)    == pc[t] \in {"popped", "read", "claimed"}
Handed(m, t)  == Handing(t) /\ In(carry[t], m)
Written(m, t) == m \in body[t]

Nowhere(m) ==
  /\ ~Queued(m) /\ ~Boxed(m)
  /\ \A t \in Turn : ~Handed(m, t) /\ ~Written(m, t)

\* In one place at most.
Single(m) ==
  /\ Once(pending, m) /\ HasOnce(inbox, m)
  /\ \A t \in Turn : Handing(t) => Once(carry[t], m)
  /\ \A t, u \in Turn : Handed(m, t) /\ Handed(m, u) => t = u
  /\ \A t, u \in Turn : Written(m, t) /\ Written(m, u) => t = u
  /\ \A t, u \in Turn : ~(Handed(m, t) /\ Written(m, u))
  /\ \A t \in Turn : Handed(m, t) \/ Written(m, t) => ~Queued(m) /\ ~Boxed(m)
  /\ ~(Queued(m) /\ Boxed(m))

\* No drain has ever had it, those that wait for their turn included.
Untouched(m) == \A t \in Turn : ~In(carry[t], m)

\* What has not been accepted is nowhere, what has been accepted is somewhere;
\* as long as no write has failed it is in one place, and what its sender was
\* told is refused, or a stop or a death has taken, is nowhere.
OnItsWay(m) == sent[m] \in Status \cup {"idle", "inject"}
Over(m)     == sent[m] \in {"refused", "dropped", "discarded", "lost"}

Placed ==
  \A m \in Msg :
    /\ OnItsWay(m) => Nowhere(m) /\ Untouched(m)
    /\ sent[m] = "accepted" => ~Nowhere(m)
    /\ sent[m] = "accepted" /\ budget.fault = MaxFaults => Single(m)
    /\ Over(m) /\ budget.fault = MaxFaults => Nowhere(m)

\* There is nothing of a turn before its row; a drain whose row has no task yet
\* waits for it, and for no other; the inbox drain has claimed one message.
Blank == \A t \in Turn : t > rows => body[t] = {} /\ pc[t] = "none"

Awaited ==
  \A t \in Turn : pc[t] = "prep" /\ starter[t] # 0 =>
    /\ pc[starter[t]] \in {"sending", "injecting"}
    /\ \A u \in Turn : pc[u] = "prep" /\ starter[u] = starter[t] => u = t

Claims == \A t \in Turn : pc[t] = "claimed" => \E m \in Msg : carry[t] = <<{m}>>

Spent == budget.fault <= MaxFaults

PlaceInv == Placed /\ Blank /\ Awaited /\ Claims /\ Spent

\* A message that is on its way to a row; a step that does not lose one.
Away(m) == Queued(m) \/ Boxed(m) \/ \E t \in Turn : Handed(m, t)

AwayStays == \A m \in Msg : Away(m) => Away(m)'

\* The parts of the state that say where messages are, and how the tasks that
\* hold some may change when none is handed over.
Hands == {"popped", "read", "claimed"}

SameTasks ==
  \A t \in Turn :
    /\ pc[t] \in Hands <=> pc'[t] \in Hands
    /\ pc'[t] \in {"prep", "claimed"} => pc[t] = pc'[t]
    /\ pc[t] \in {"none", "sending", "injecting"} => pc'[t] = pc[t]

SameSent ==
  \A m \in Msg : sent'[m] # sent[m] => OnItsWay(m) /\ sent'[m] # "accepted"

\* A step that moves no message.
Calm ==
  /\ UNCHANGED <<pending, inbox, carry, body, rows, starter>>
  /\ SameTasks
  /\ SameSent
  /\ budget'.fault <= budget.fault

\* No step but those of the messages themselves moves one.
LEMMA StillStep ==
  ASSUME TypeOK, TypeOK', PlaceInv,
         Calm
  PROVE  PlaceInv' /\ AwayStays
<1> USE DEF Calm
<1>1. budget.fault \in Int /\ budget'.fault \in Int /\ MaxFaults \in Int
      /\ (budget'.fault = MaxFaults => budget.fault = MaxFaults)
      /\ budget'.fault <= MaxFaults
  BY BoundsAssumption DEF PlaceInv, Spent, TypeOK, BudgetType
<1>2. \A m : /\ Queued(m)' <=> Queued(m)
             /\ Boxed(m)' <=> Boxed(m)
  BY DEF Queued, Boxed
<1>3. \A t \in Turn : /\ Handing(t)' <=> Handing(t)
                      /\ \A m : Handed(m, t)' <=> Handed(m, t)
                      /\ \A m : Written(m, t)' <=> Written(m, t)
  BY DEF SameTasks, Hands, Handing, Handed, Written
<1>4. ASSUME NEW m \in Msg
      PROVE  /\ Nowhere(m)' <=> Nowhere(m)
             /\ Single(m) => Single(m)'
  BY <1>2, <1>3 DEF Nowhere, Single
<1>5. ASSUME NEW m \in Msg
      PROVE  /\ OnItsWay(m)' => Nowhere(m)' /\ Untouched(m)'
             /\ sent'[m] = "accepted" => ~Nowhere(m)'
             /\ sent'[m] = "accepted" /\ budget'.fault = MaxFaults => Single(m)'
             /\ Over(m)' /\ budget'.fault = MaxFaults => Nowhere(m)'
  BY <1>1, <1>4 DEF SameSent, PlaceInv, Placed, OnItsWay, Over, Status, SentType, Untouched
<1>6. Placed' BY <1>5 DEF Placed
<1>7. Blank' BY DEF PlaceInv, Blank, SameTasks
<1>8. Awaited'
  BY BoundsAssumption DEF PlaceInv, Awaited, SameTasks, TypeOK, TaskType, Turn
<1>9. Claims' BY DEF PlaceInv, Claims, SameTasks
<1>a. AwayStays BY <1>2, <1>3 DEF AwayStays, Away
<1> QED BY <1>a, <1>1, <1>6, <1>7, <1>8, <1>9 DEF PlaceInv, Spent

\* These are the steps that hand no message over.
LEMMA CalmActions ==
  ASSUME TypeOK,
         \/ \E m \in Clients : ClientRead(m) \/ ClientRefused(m)
         \/ \E m \in Results : ResultSeesIdle(m)
         \/ \E t \in Turn :
              \/ TaskStart(t) \/ Guard(t) \/ EagerPersist(t) \/ RunnerReturns(t)
              \/ TurnFails(t) \/ TurnFailsUnrecorded(t) \/ PersistSkipped(t)
              \/ PersistCheck(t) \/ Persist(t) \/ PersistFails(t) \/ Notify(t)
              \/ Unmark(t) \/ DrainRead(t) \/ InboxEmpty(t)
         \/ StopCheck \/ StopWrite \/ Restart \/ ResumeClaim \/ Sweep
         \/ UNCHANGED vars
  PROVE  Calm
<1> USE DEF TypeOK, TaskType, SentType, BudgetType, db, redis, memory, SameTasks,
            SameSent, OnItsWay, Hands, Status, Goto
<1>1. ASSUME NEW m \in Clients, ClientRead(m) PROVE Calm
  BY <1>1 DEF Calm, ClientRead, Msg, DbType
<1>2. ASSUME NEW m \in Clients, ClientRefused(m) PROVE Calm
  BY <1>2 DEF Calm, ClientRefused, Msg
<1>3. ASSUME NEW m \in Results, ResultSeesIdle(m) PROVE Calm
  BY <1>3 DEF Calm, ResultSeesIdle, Msg
<1>4. ASSUME NEW t \in Turn, TaskStart(t) PROVE Calm
  BY <1>4 DEF Calm, TaskStart
<1>5. ASSUME NEW t \in Turn, Guard(t) PROVE Calm
  BY <1>5 DEF Calm, Guard
<1>6. ASSUME NEW t \in Turn, EagerPersist(t) PROVE Calm
  BY <1>6 DEF Calm, EagerPersist
<1>7. ASSUME NEW t \in Turn, RunnerReturns(t) PROVE Calm
  BY <1>7 DEF Calm, RunnerReturns
<1>8. ASSUME NEW t \in Turn, TurnFails(t) PROVE Calm
  BY <1>8 DEF Calm, TurnFails
<1>9. ASSUME NEW t \in Turn, TurnFailsUnrecorded(t) PROVE Calm
  BY <1>9 DEF Calm, TurnFailsUnrecorded
<1>10. ASSUME NEW t \in Turn, PersistSkipped(t) PROVE Calm
  BY <1>10 DEF Calm, PersistSkipped
<1>11. ASSUME NEW t \in Turn, PersistCheck(t) PROVE Calm
  BY <1>11 DEF Calm, PersistCheck
<1>12. ASSUME NEW t \in Turn, Persist(t) PROVE Calm
  BY <1>12 DEF Calm, Persist
<1>13. ASSUME NEW t \in Turn, PersistFails(t) PROVE Calm
  BY <1>13 DEF Calm, PersistFails
<1>14. ASSUME NEW t \in Turn, Notify(t) PROVE Calm
  BY <1>14 DEF Calm, Notify
<1>15. ASSUME NEW t \in Turn, Unmark(t) PROVE Calm
  BY <1>15 DEF Calm, Unmark
<1>16. ASSUME NEW t \in Turn, DrainRead(t) PROVE Calm
  BY <1>16 DEF Calm, DrainRead
<1>17. ASSUME NEW t \in Turn, InboxEmpty(t) PROVE Calm
  BY <1>17 DEF Calm, InboxEmpty
<1>18. ASSUME StopCheck PROVE Calm
  BY <1>18 DEF Calm, StopCheck
<1>19. ASSUME StopWrite PROVE Calm
  BY <1>19 DEF Calm, StopWrite
<1>20. ASSUME Promote PROVE Calm
  BY <1>20 DEF Calm, Promote
<1>21. ASSUME Recover PROVE Calm
  BY <1>21 DEF Calm, Recover
<1>22. ASSUME ResumeClaim PROVE Calm
  BY <1>22 DEF Calm, ResumeClaim
<1>23. ASSUME Sweep PROVE Calm
  BY <1>23 DEF Calm, Sweep
<1>24. ASSUME UNCHANGED vars PROVE Calm
  BY <1>24 DEF Calm, vars
<1> QED
  BY <1>1, <1>2, <1>3, <1>4, <1>5, <1>6, <1>7, <1>8, <1>9, <1>10, <1>11, <1>12,
     <1>13, <1>14, <1>15, <1>16, <1>17, <1>18, <1>19, <1>20, <1>21, <1>22, <1>23,
     <1>24
     DEF Restart

\* A committed inbound row holds its messages, and is the first to hold them.
LEMMA RowAdded ==
  ASSUME TypeOK, Blank,
         NEW who, NEW by, NEW messages, NEW known,
         AddTurn(who, by, messages, known)
  PROVE  /\ rows + 1 \in Turn /\ rows' = rows + 1
         /\ rows \in Nat
         /\ pc[rows + 1] = "none"
         /\ \A m : ~Written(m, rows + 1)
         /\ \A t \in Turn : \A m \in Msg :
              Written(m, t)' <=> Written(m, t) \/ (t = rows + 1 /\ m \in messages)
         /\ \A t \in Turn :
              starter'[t] = IF t = rows + 1 THEN by ELSE starter[t]
<1>1. rows + 1 \in Turn /\ rows' = rows + 1 /\ rows \in Nat
  BY BoundsAssumption DEF AddTurn, TypeOK, DbType, Turn
<1>2. pc[rows + 1] = "none" /\ body[rows + 1] = {}
  BY <1>1 DEF Blank
<1>3. body' = [body EXCEPT ![rows + 1] = messages] BY DEF AddTurn
<1>4. starter' = [starter EXCEPT ![rows + 1] = by] BY DEF AddTurn
<1>5. body \in [Turn -> SUBSET Msg] /\ starter \in [Turn -> 0..MaxTurns]
  BY DEF TypeOK, DbType, TaskType
<1>6. ASSUME NEW t \in Turn, NEW m
      PROVE  Written(m, t)' <=> Written(m, t) \/ (t = rows + 1 /\ m \in messages)
  BY <1>1, <1>2, <1>3, <1>5 DEF Written
<1>7. ASSUME NEW t \in Turn
      PROVE  starter'[t] = IF t = rows + 1 THEN by ELSE starter[t]
  BY <1>4, <1>5
<1> QED BY <1>1, <1>2, <1>6, <1>7 DEF Written

\* A row that a drain has written names the turn of that drain.
LEMMA StartersAreTurns ==
  ASSUME TypeOK
  PROVE  \A t \in Turn : starter[t] # 0 => starter[t] \in Turn
BY BoundsAssumption DEF TypeOK, TaskType, Turn

\* A row written for nobody's drain: for a client, a result, the resumption.
LEMMA RowStep ==
  ASSUME TypeOK, TypeOK', PlaceInv, NEW who, NEW messages, NEW known,
         AddTurn(who, 0, messages, known), Goto(rows + 1, "prep"),
         \A m \in Msg : m \in messages => OnItsWay(m),
         \A m \in Msg : sent'[m] = IF m \in messages THEN "accepted" ELSE sent[m],
         UNCHANGED <<pending, inbox, carry, budget>>
  PROVE  PlaceInv'
<1> DEFINE n == rows + 1
<1>1. /\ n \in Turn /\ rows' = n /\ pc[n] = "none" /\ rows \in Nat
      /\ \A m : ~Written(m, n)
      /\ \A t \in Turn : \A m \in Msg :
           Written(m, t)' <=> Written(m, t) \/ (t = n /\ m \in messages)
      /\ \A t \in Turn : starter'[t] = IF t = n THEN 0 ELSE starter[t]
  BY RowAdded DEF PlaceInv
<1>2. \A t \in Turn : pc'[t] = IF t = n THEN "prep" ELSE pc[t]
  BY <1>1 DEF Goto, TypeOK, TaskType
<1> HIDE DEF n
<1>3. \A m : Queued(m)' = Queued(m) /\ Boxed(m)' = Boxed(m)
  BY DEF Queued, Boxed
<1>4. \A t \in Turn : Handing(t)' = Handing(t) /\ \A m : Handed(m, t)' = Handed(m, t)
  BY <1>1, <1>2 DEF Handing, Handed
<1>5. ASSUME NEW m \in Msg, m \notin messages
      PROVE  /\ Nowhere(m)' <=> Nowhere(m)
             /\ Single(m) => Single(m)'
  BY <1>1, <1>3, <1>4, <1>5 DEF Nowhere, Single
<1>6. ASSUME NEW m \in Msg, m \in messages PROVE Single(m)' /\ ~Nowhere(m)'
  <2>1. Nowhere(m) BY <1>6 DEF PlaceInv, Placed
  <2>2. ~Nowhere(m)' BY <1>1, <1>6 DEF Nowhere
  <2>3. Once(pending, m) /\ HasOnce(inbox, m)
    BY <2>1 DEF Nowhere, Queued, Boxed, In, Has, Once, HasOnce
  <2>4. Once(pending, m)' /\ HasOnce(inbox, m)' BY <2>3
  <2>5. \A t \in Turn : ~Handed(m, t)' /\ (Written(m, t)' => t = n)
    BY <1>1, <1>4, <2>1 DEF Nowhere
  <2>6. \A t \in Turn : Handing(t)' => Once(carry[t], m)'
    BY <2>5 DEF Handed, In, Once
  <2> QED BY <1>3, <2>1, <2>2, <2>4, <2>5, <2>6 DEF Single, Nowhere
<1>7. ASSUME NEW m \in Msg
      PROVE  /\ OnItsWay(m)' => Nowhere(m)' /\ Untouched(m)'
             /\ sent'[m] = "accepted" => ~Nowhere(m)'
             /\ sent'[m] = "accepted" /\ budget'.fault = MaxFaults => Single(m)'
             /\ Over(m)' /\ budget'.fault = MaxFaults => Nowhere(m)'
  BY <1>5, <1>6 DEF PlaceInv, Placed, OnItsWay, Over, Status, Untouched
<1>8. Placed' BY <1>7 DEF Placed
<1>9. Blank'
  <2> SUFFICES ASSUME NEW t \in Turn, t > n PROVE body'[t] = {} /\ pc'[t] = "none"
    BY <1>1 DEF Blank
  <2>1. t > rows /\ t # n BY <1>1 DEF n, Turn
  <2>2. body[t] = {} /\ pc[t] = "none" BY <2>1 DEF PlaceInv, Blank
  <2>3. body'[t] = body[t]
    BY <1>1, <2>1 DEF AddTurn, n, TypeOK, DbType
  <2> QED BY <1>2, <2>1, <2>2, <2>3
<1>10. Awaited'
  <2>1. \A t \in Turn : pc'[t] = "prep" /\ starter'[t] # 0 =>
          /\ t # n /\ pc[t] = "prep" /\ starter'[t] = starter[t]
          /\ pc[starter[t]] \in {"sending", "injecting"}
          /\ starter[t] \in Turn
    BY <1>1, <1>2, StartersAreTurns DEF PlaceInv, Awaited
  <2>2. \A t \in Turn : pc[t] \in {"sending", "injecting"} => pc'[t] = pc[t]
    BY <1>1, <1>2
  <2> QED BY <2>1, <2>2 DEF PlaceInv, Awaited
<1>11. Claims' BY <1>1, <1>2 DEF PlaceInv, Claims
<1> QED BY <1>8, <1>9, <1>10, <1>11 DEF PlaceInv, Spent

\* A drain writes what it holds into a row, and waits for its task.
LEMMA HandOverStep ==
  ASSUME TypeOK, TypeOK', PlaceInv, NEW t \in Turn, NEW who, NEW known,
         NEW label \in {"sending", "injecting"},
         Handing(t), AddTurn(who, t, Merged(carry[t]), known),
         pc' = [pc EXCEPT ![t] = label, ![rows + 1] = "prep"],
         UNCHANGED <<pending, inbox, carry, sent, budget>>
  PROVE  PlaceInv'
<1> DEFINE n == rows + 1
<1>1. /\ n \in Turn /\ rows' = n /\ pc[n] = "none" /\ rows \in Nat
      /\ \A m : ~Written(m, n)
      /\ \A u \in Turn : \A m \in Msg :
           Written(m, u)' <=> Written(m, u) \/ (u = n /\ In(carry[t], m))
      /\ \A u \in Turn : starter'[u] = IF u = n THEN t ELSE starter[u]
  BY RowAdded, MergedIn DEF PlaceInv
<1>2. /\ n # t
      /\ \A u \in Turn : pc'[u] = IF u = n THEN "prep"
                                  ELSE IF u = t THEN label ELSE pc[u]
  BY <1>1 DEF Handing, TypeOK, TaskType
<1>a. body' = [body EXCEPT ![n] = Merged(carry[t])] BY DEF AddTurn
<1> HIDE DEF n
<1>3. \A m : Queued(m)' = Queued(m) /\ Boxed(m)' = Boxed(m)
  BY DEF Queued, Boxed
<1>4. \A u \in Turn : /\ Handing(u)' <=> Handing(u) /\ u # t
                      /\ \A m : Handed(m, u)' <=> Handed(m, u) /\ u # t
  <2>1. ASSUME NEW u \in Turn PROVE Handing(u)' <=> Handing(u) /\ u # t
    <3>1. pc[n] = "none" BY <1>1
    <3>2. pc'[u] = IF u = n THEN "prep" ELSE IF u = t THEN label ELSE pc[u]
      BY <1>2
    <3>3. CASE u = n BY <3>1, <3>2, <3>3 DEF Handing
    <3>4. CASE u = t BY <1>2, <3>2, <3>4 DEF Handing
    <3>5. CASE u # n /\ u # t BY <3>2, <3>5 DEF Handing
    <3> QED BY <3>3, <3>4, <3>5
  <2> QED BY <2>1 DEF Handed
<1>5. \A m : In(carry[t], m) <=> Handed(m, t) BY DEF Handed
<1>6. ASSUME NEW m \in Msg
      PROVE  /\ Nowhere(m)' <=> Nowhere(m)
             /\ Single(m) => Single(m)'
  <2>1. Nowhere(m)' <=> Nowhere(m)
    BY <1>1, <1>3, <1>4, <1>5 DEF Nowhere
  <2>2. Single(m) => Single(m)'
    BY <1>1, <1>3, <1>4, <1>5 DEF Single
  <2> QED BY <2>1, <2>2
<1>7. Placed' BY <1>6 DEF PlaceInv, Placed, OnItsWay, Over, Untouched
<1>8. Blank'
  <2> SUFFICES ASSUME NEW u \in Turn, u > n PROVE body'[u] = {} /\ pc'[u] = "none"
    BY <1>1 DEF Blank
  <2>1. u > rows /\ u # n BY <1>1 DEF n, Turn
  <2>2. body[u] = {} /\ pc[u] = "none" BY <2>1 DEF PlaceInv, Blank
  <2>3. body'[u] = body[u] BY <1>1, <1>a, <2>1 DEF TypeOK, DbType
  <2>4. u # t BY <2>2 DEF Handing
  <2> QED BY <1>2, <2>1, <2>2, <2>3, <2>4
<1>9. Awaited'
  <2> SUFFICES ASSUME NEW u \in Turn, pc'[u] = "prep", starter'[u] # 0
               PROVE  /\ pc'[starter'[u]] \in {"sending", "injecting"}
                      /\ \A w \in Turn : pc'[w] = "prep" /\ starter'[w] = starter'[u]
                           => w = u
    BY DEF Awaited
  <2>1. \A w \in Turn : pc'[w] = "prep" /\ w # n /\ starter'[w] # 0 =>
          /\ pc[w] = "prep" /\ starter'[w] = starter[w]
          /\ starter[w] \in Turn /\ pc[starter[w]] \in {"sending", "injecting"}
          /\ starter[w] # t /\ starter[w] # n
    <3> SUFFICES ASSUME NEW w \in Turn, pc'[w] = "prep", w # n, starter'[w] # 0
                 PROVE  /\ pc[w] = "prep" /\ starter'[w] = starter[w]
                        /\ starter[w] \in Turn
                        /\ pc[starter[w]] \in {"sending", "injecting"}
                        /\ starter[w] # t /\ starter[w] # n
      OBVIOUS
    <3>1. pc[w] = "prep" /\ starter'[w] = starter[w] BY <1>1, <1>2
    <3>2. starter[w] \in Turn /\ pc[starter[w]] \in {"sending", "injecting"}
      BY <3>1, StartersAreTurns DEF PlaceInv, Awaited
    <3>3. pc[n] = "none" BY <1>1
    <3> QED BY <3>1, <3>2, <3>3 DEF Handing
  <2>2. CASE u = n
    BY <1>1, <1>2, <2>1, <2>2
  <2>3. CASE u # n
    <3>1. /\ pc[u] = "prep" /\ starter'[u] = starter[u] /\ starter[u] # 0
          /\ starter[u] \in Turn /\ pc[starter[u]] \in {"sending", "injecting"}
          /\ starter[u] # t /\ starter[u] # n
      BY <2>1, <2>3
    <3>2. pc'[starter'[u]] = pc[starter[u]] BY <1>2, <3>1
    <3>3. ASSUME NEW w \in Turn, pc'[w] = "prep", starter'[w] = starter'[u]
          PROVE  w = u
      <4>1. w # n BY <1>1, <3>1, <3>3
      <4>2. pc[w] = "prep" /\ starter[w] = starter[u] BY <2>1, <3>1, <3>3, <4>1
      <4> QED BY <3>1, <4>2 DEF PlaceInv, Awaited
    <3> QED BY <3>1, <3>2, <3>3
  <2> QED BY <2>2, <2>3
<1>10. Claims' BY <1>1, <1>2 DEF PlaceInv, Claims
<1> QED BY <1>7, <1>8, <1>9, <1>10 DEF PlaceInv, Spent

\* As long as no row is written: nobody starts to wait, and a drain that is
\* waited for stays where it is.
LEMMA WaitStep ==
  ASSUME TypeOK, Blank, Awaited, UNCHANGED <<rows, body, starter>>,
         \A t \in Turn : pc'[t] = "prep" => pc[t] = "prep",
         \A t \in Turn : pc[t] = "none" => pc'[t] = "none",
         \A t \in Turn : pc'[t] = "prep" /\ starter[t] # 0 =>
                           pc'[starter[t]] = pc[starter[t]]
  PROVE  Blank' /\ Awaited'
<1>1. Blank' BY DEF Blank
<1>2. Awaited' BY DEF Awaited
<1> QED BY <1>1, <1>2

\* A task that nobody waits for goes on.
LEMMA TaskMoves ==
  ASSUME TypeOK, Blank, Awaited, UNCHANGED <<rows, body, starter>>,
         NEW t \in Turn, pc[t] \notin {"none", "sending", "injecting"},
         NEW label \in PC \ {"prep"},
         \A u \in Turn : pc'[u] = IF u = t THEN label ELSE pc[u]
  PROVE  Blank' /\ Awaited'
<1>1. \A u \in Turn : pc'[u] = "prep" => pc[u] = "prep" OBVIOUS
<1>2. \A u \in Turn : pc[u] = "none" => pc'[u] = "none" OBVIOUS
<1>3. ASSUME NEW u \in Turn, pc'[u] = "prep", starter[u] # 0
      PROVE  pc'[starter[u]] = pc[starter[u]]
  <2>1. starter[u] \in Turn /\ pc[starter[u]] \in {"sending", "injecting"}
    BY <1>1, <1>3, StartersAreTurns DEF Awaited
  <2> QED BY <2>1
<1> QED BY <1>1, <1>2, <1>3, WaitStep

\* A new message joins the pending queue, or the inbox.
LEMMA JoinStep ==
  ASSUME TypeOK, TypeOK', PlaceInv, NEW m \in Msg, OnItsWay(m),
         \/ pending' = Append(pending, {m}) /\ inbox' = inbox
         \/ inbox' = Append(inbox, m) /\ pending' = pending,
         sent' = [sent EXCEPT ![m] = "accepted"],
         UNCHANGED <<carry, body, rows, starter, pc, budget>>
  PROVE  PlaceInv' /\ AwayStays
<1>1. pending \in Seq(SUBSET Msg) /\ inbox \in Seq(Msg) /\ {m} \in SUBSET Msg
  BY DEF TypeOK, QueueType
<1>2. Nowhere(m) /\ Untouched(m) BY DEF PlaceInv, Placed
<1>3. ASSUME NEW x \in Msg
      PROVE  /\ Queued(x)' \/ Boxed(x)' <=> Queued(x) \/ Boxed(x) \/ x = m
             /\ Queued(x) => Queued(x)'
             /\ Boxed(x) => Boxed(x)'
             /\ Queued(x)' /\ Boxed(x)' => Queued(x) /\ Boxed(x)
             /\ Once(pending, x) => Once(pending, x)'
             /\ HasOnce(inbox, x) => HasOnce(inbox, x)'
  <2>1. CASE pending' = Append(pending, {m}) /\ inbox' = inbox
    <3>1. /\ In(Append(pending, {m}), x) <=> In(pending, x) \/ x \in {m}
          /\ Once(pending, x) /\ ~(In(pending, x) /\ x \in {m}) =>
               Once(Append(pending, {m}), x)
      BY <1>1, AppendIn
    <3>2. In(pending', x) <=> In(pending, x) \/ x \in {m} BY <2>1, <3>1
    <3>3. Once(pending, x) => Once(pending', x)
      BY <2>1, <3>1, <1>2 DEF Nowhere, Queued
    <3> QED BY <2>1, <3>2, <3>3, <1>2 DEF Queued, Boxed, Nowhere
  <2>2. CASE inbox' = Append(inbox, m) /\ pending' = pending
    <3>1. /\ Has(Append(inbox, m), x) <=> Has(inbox, x) \/ x = m
          /\ HasOnce(inbox, x) /\ ~(Has(inbox, x) /\ x = m) =>
               HasOnce(Append(inbox, m), x)
      BY <1>1, AppendHas
    <3>2. Has(inbox', x) <=> Has(inbox, x) \/ x = m BY <2>2, <3>1
    <3>3. HasOnce(inbox, x) => HasOnce(inbox', x)
      BY <2>2, <3>1, <1>2 DEF Nowhere, Boxed
    <3> QED BY <2>2, <3>2, <3>3, <1>2 DEF Queued, Boxed, Nowhere
  <2> QED BY <2>1, <2>2
<1>4. \A t \in Turn : \A x \in Msg :
        /\ Handing(t)' <=> Handing(t)
        /\ Handed(x, t)' <=> Handed(x, t)
        /\ Written(x, t)' <=> Written(x, t)
  BY DEF Handing, Handed, Written
<1>5. ASSUME NEW x \in Msg, x # m
      PROVE  /\ Nowhere(x)' <=> Nowhere(x)
             /\ Single(x) => Single(x)'
  BY <1>3, <1>4, <1>5 DEF Nowhere, Single
<1>6. ~Nowhere(m)' BY <1>3 DEF Nowhere
<1>7. Single(m)'
  <2>1. Once(pending, m) /\ HasOnce(inbox, m)
    BY <1>2 DEF Nowhere, Queued, Boxed, In, Has, Once, HasOnce
  <2>2. \A t \in Turn : Once(carry[t], m)
    BY <1>2 DEF Untouched, In, Once
  <2>3. \A t \in Turn : ~Handed(m, t)' /\ ~Written(m, t)'
    BY <1>2, <1>4 DEF Nowhere
  <2>4. ~(Queued(m)' /\ Boxed(m)') BY <1>2, <1>3 DEF Nowhere
  <2>5. Once(pending, m)' /\ HasOnce(inbox, m)' BY <1>3, <2>1
  <2> QED BY <2>2, <2>3, <2>4, <2>5 DEF Single
<1>8. Placed'
  <2>1. \A x \in Msg : sent'[x] = IF x = m THEN "accepted" ELSE sent[x]
    BY DEF TypeOK, SentType
  <2> QED
    BY <1>5, <1>6, <1>7, <2>1
       DEF PlaceInv, Placed, OnItsWay, Over, Untouched, Status
<1>9. Blank' /\ Awaited' BY DEF PlaceInv, Blank, Awaited
<1>10. Claims' BY DEF PlaceInv, Claims
<1>a. AwayStays BY <1>3, <1>4 DEF AwayStays, Away
<1> QED BY <1>a, <1>8, <1>9, <1>10 DEF PlaceInv, Spent

\* The task is registered; a drain that waited for it forgets what it wrote.
LEMMA DispatchStep ==
  ASSUME TypeOK, TypeOK', PlaceInv, NEW t \in Turn, Dispatch(t)
  PROVE  PlaceInv' /\ AwayStays
<1> DEFINE by == starter[t]
<1>1. /\ pc[t] = "prep"
      /\ \A u \in Turn : pc'[u] = CASE u = t -> "created"
                                   [] u = by /\ pc[u] = "sending" -> "inbox"
                                   [] u = by /\ pc[u] = "injecting" -> "done"
                                   [] OTHER -> pc[u]
      /\ \A u \in Turn : carry'[u] = IF u = by THEN <<>> ELSE carry[u]
      /\ UNCHANGED <<pending, inbox, body, rows, starter, sent, budget>>
  BY DEF Dispatch, db
<1>2. by \in Turn => pc[by] \in {"sending", "injecting"}
  BY <1>1 DEF PlaceInv, Awaited, Turn
<1> HIDE DEF by
<1>3. \A u \in Turn : /\ Handing(u)' <=> Handing(u)
                      /\ Handing(u) => carry'[u] = carry[u]
  BY <1>1, <1>2 DEF Handing
<1>4. \A m : Queued(m)' = Queued(m) /\ Boxed(m)' = Boxed(m)
  BY <1>1 DEF Queued, Boxed
<1>5. \A u \in Turn : \A m \in Msg : /\ Handed(m, u)' <=> Handed(m, u)
                                     /\ Written(m, u)' <=> Written(m, u)
  BY <1>1, <1>3 DEF Handed, Written
<1>6. ASSUME NEW m \in Msg
      PROVE  /\ Nowhere(m)' <=> Nowhere(m)
             /\ Single(m) => Single(m)'
             /\ Untouched(m) => Untouched(m)'
  <2>1. Nowhere(m)' <=> Nowhere(m) BY <1>4, <1>5 DEF Nowhere
  <2>2. Single(m) => Single(m)' BY <1>1, <1>3, <1>4, <1>5 DEF Single
  <2>3. Untouched(m) => Untouched(m)' BY <1>1 DEF Untouched, In
  <2> QED BY <2>1, <2>2, <2>3
<1>7. Placed' BY <1>1, <1>6 DEF PlaceInv, Placed, OnItsWay, Over
<1>8. Blank' /\ Awaited'
  <2>1. \A u \in Turn : pc'[u] = "prep" => pc[u] = "prep" /\ u # t
    BY <1>1
  <2>2. \A u \in Turn : pc[u] = "none" => pc'[u] = "none"
    BY <1>1
  <2>3. ASSUME NEW u \in Turn, pc'[u] = "prep", starter[u] # 0
        PROVE  pc'[starter[u]] = pc[starter[u]]
    <3>1. pc[u] = "prep" /\ u # t BY <2>1, <2>3
    <3>2. starter[u] \in Turn /\ pc[starter[u]] \in {"sending", "injecting"}
      BY <2>3, <3>1, StartersAreTurns DEF PlaceInv, Awaited
    <3>3. starter[u] # by BY <1>1, <2>3, <3>1 DEF PlaceInv, Awaited, by
    <3>4. starter[u] # t BY <1>1, <3>2
    <3> QED BY <1>1, <3>2, <3>3, <3>4
  <2> QED BY <1>1, <2>1, <2>2, <2>3, WaitStep DEF PlaceInv
<1>9. Claims' BY <1>1, <1>3 DEF PlaceInv, Claims, Handing
<1>a. AwayStays BY <1>4, <1>5 DEF AwayStays, Away
<1> QED BY <1>a, <1>1, <1>7, <1>8, <1>9 DEF PlaceInv, Spent

\* A write fails: what was held goes back, and no accepted message vanishes.
LEMMA FaultStep ==
  ASSUME TypeOK, TypeOK', PlaceInv,
         UNCHANGED <<body, rows, starter, sent>>,
         budget.fault > 0, budget'.fault = budget.fault - 1,
         Blank', Awaited',
         \A t \in Turn : pc'[t] = "claimed" =>
                           pc[t] = "claimed" /\ carry'[t] = carry[t],
         \A t \in Turn : Handing(t)' => Handing(t),
         \A t \in Turn : carry'[t] = carry[t] \/ carry'[t] = <<>>,
         \A t \in Turn : Handing(t) /\ ~(Handing(t)' /\ carry'[t] = carry[t]) =>
           \A m \in Msg : In(carry[t], m) => Queued(m)' \/ Boxed(m)',
         \A m \in Msg : Queued(m)' \/ Boxed(m)' =>
           Queued(m) \/ Boxed(m) \/ \E t \in Turn : In(carry[t], m),
         \A m \in Msg : Queued(m) \/ Boxed(m) => Queued(m)' \/ Boxed(m)'
  PROVE  PlaceInv'
<1>1. Spent' /\ budget'.fault # MaxFaults
  BY BoundsAssumption DEF PlaceInv, Spent, TypeOK, BudgetType
<1>2. ASSUME NEW m \in Msg, OnItsWay(m) PROVE Nowhere(m)' /\ Untouched(m)'
  <2>1. Nowhere(m) /\ Untouched(m) BY <1>2 DEF PlaceInv, Placed
  <2>2. Untouched(m)' BY <2>1 DEF Untouched, In
  <2>3. ~Queued(m)' /\ ~Boxed(m)' BY <2>1 DEF Nowhere, Untouched
  <2>4. \A t \in Turn : ~Handed(m, t)' /\ ~Written(m, t)'
    BY <2>1, <2>2 DEF Nowhere, Untouched, Handed, Written
  <2> QED BY <2>2, <2>3, <2>4 DEF Nowhere
<1>3. ASSUME NEW m \in Msg, ~Nowhere(m) PROVE ~Nowhere(m)'
  <2>1. CASE Queued(m) \/ Boxed(m) BY <2>1 DEF Nowhere
  <2>2. ASSUME NEW t \in Turn, Written(m, t) PROVE ~Nowhere(m)'
    BY <2>2 DEF Nowhere, Written
  <2>3. ASSUME NEW t \in Turn, Handed(m, t) PROVE ~Nowhere(m)'
    <3>1. CASE Handing(t)' /\ carry'[t] = carry[t]
      BY <2>3, <3>1 DEF Handed, Nowhere
    <3>2. CASE ~(Handing(t)' /\ carry'[t] = carry[t])
      BY <2>3, <3>2 DEF Handed, Nowhere
    <3> QED BY <3>1, <3>2
  <2> QED BY <1>3, <2>1, <2>2, <2>3 DEF Nowhere
<1>4. Placed' BY <1>1, <1>2, <1>3 DEF PlaceInv, Placed, OnItsWay, Over
<1>5. Claims' BY DEF PlaceInv, Claims
<1> QED BY <1>1, <1>4, <1>5 DEF PlaceInv

\* There is nothing in an empty queue.
LEMMA NoneIn ==
  ASSUME NEW m
  PROVE  ~In(<<>>, m) /\ Once(<<>>, m)
BY DEF In, Once

\* Three of the writes that fail: the preparation of a turn, the transaction of
\* a drain, the turn for a peer's message.
LEMMA PrepareFailsStep ==
  ASSUME TypeOK, TypeOK', PlaceInv, NEW t \in Turn, PrepareFails(t)
  PROVE  PlaceInv'
<1> DEFINE by == starter[t]
<1>1. /\ pc[t] = "prep"
      /\ \A u \in Turn : pc'[u] = CASE u = t -> "lost"
                                   [] u = by /\ pc[u] = "sending" -> "inbox"
                                   [] OTHER -> pc[u]
      /\ \A u \in Turn : carry'[u] = IF u = by THEN <<>> ELSE carry[u]
      /\ pending' = IF by = 0 THEN pending ELSE carry[by] \o pending
      /\ UNCHANGED <<inbox, body, rows, starter, sent>>
      /\ budget.fault > 0 /\ budget'.fault = budget.fault - 1
  BY DEF PrepareFails, db, redis, TypeOK, BudgetType
<1>2. by # 0 => by \in Turn /\ pc[by] \in {"sending", "injecting"}
  BY <1>1, StartersAreTurns DEF PlaceInv, Awaited
<1>x. 0 \notin Turn BY DEF Turn
<1> HIDE DEF by
<1>3. \A m : Boxed(m)' <=> Boxed(m) BY <1>1 DEF Boxed
<1>4. ASSUME NEW m \in Msg
      PROVE  /\ Queued(m) => Queued(m)'
             /\ Queued(m)' => Queued(m) \/ \E u \in Turn : In(carry[u], m)
  <2>1. CASE by = 0 BY <1>1, <2>1 DEF Queued
  <2>2. CASE by # 0
    <3>1. carry[by] \in Seq(SUBSET Msg) /\ pending \in Seq(SUBSET Msg)
      BY <1>2, <2>2 DEF TypeOK, QueueType
    <3>2. In(carry[by] \o pending, m) <=> In(carry[by], m) \/ In(pending, m)
      BY <3>1, ConcatIn
    <3> QED BY <1>1, <1>2, <2>2, <3>2 DEF Queued
  <2> QED BY <2>1, <2>2
<1>5. \A u \in Turn : Handing(u) => Handing(u)' /\ carry'[u] = carry[u]
  BY <1>1, <1>2, <1>x DEF Handing
<1>6. \A u \in Turn : Handing(u)' => Handing(u) /\ pc'[u] = pc[u]
  BY <1>1 DEF Handing
<1>7. Blank' /\ Awaited'
  <2>1. \A u \in Turn : pc'[u] = "prep" => pc[u] = "prep" /\ u # t
    BY <1>1
  <2>2. \A u \in Turn : pc[u] = "none" => pc'[u] = "none"
    BY <1>1
  <2>3. ASSUME NEW u \in Turn, pc'[u] = "prep", starter[u] # 0
        PROVE  pc'[starter[u]] = pc[starter[u]]
    <3>1. pc[u] = "prep" /\ u # t BY <2>1, <2>3
    <3>2. starter[u] \in Turn /\ pc[starter[u]] \in {"sending", "injecting"}
      BY <2>3, <3>1, StartersAreTurns DEF PlaceInv, Awaited
    <3>3. starter[u] # by BY <1>1, <2>3, <3>1 DEF PlaceInv, Awaited, by
    <3>4. starter[u] # t BY <1>1, <3>2
    <3> QED BY <1>1, <3>2, <3>3, <3>4
  <2> QED BY <1>1, <2>1, <2>2, <2>3, WaitStep DEF PlaceInv
<1>8. \A u \in Turn : pc'[u] = "claimed" => pc[u] = "claimed" /\ carry'[u] = carry[u]
  BY <1>5, <1>6 DEF Handing
<1>9. \A u \in Turn : carry'[u] = carry[u] \/ carry'[u] = <<>> BY <1>1
<1> QED BY <1>1, <1>3, <1>4, <1>5, <1>6, <1>7, <1>8, <1>9, FaultStep

LEMMA DrainFailsStep ==
  ASSUME TypeOK, TypeOK', PlaceInv, NEW t \in Turn, DrainFails(t)
  PROVE  PlaceInv'
<1>1. /\ pc[t] = "read"
      /\ \A u \in Turn : pc'[u] = IF u = t THEN "inbox" ELSE pc[u]
      /\ \A u \in Turn : carry'[u] = IF u = t THEN <<>> ELSE carry[u]
      /\ pending' = carry[t] \o pending
      /\ UNCHANGED <<inbox, body, rows, starter, sent>>
      /\ budget.fault > 0 /\ budget'.fault = budget.fault - 1
  BY DEF DrainFails, db, redis, TypeOK, BudgetType, Goto, QueueType, TaskType
<1>2. \A m : Boxed(m)' <=> Boxed(m) BY <1>1 DEF Boxed
<1>3. ASSUME NEW m \in Msg
      PROVE  Queued(m)' <=> Queued(m) \/ In(carry[t], m)
  <2>1. carry[t] \in Seq(SUBSET Msg) /\ pending \in Seq(SUBSET Msg)
    BY DEF TypeOK, QueueType
  <2>2. In(carry[t] \o pending, m) <=> In(carry[t], m) \/ In(pending, m)
    BY <2>1, ConcatIn
  <2> QED BY <1>1, <2>2 DEF Queued
<1>4. \A u \in Turn : Handing(u)' <=> Handing(u) /\ u # t
  BY <1>1 DEF Handing
<1>5. \A u \in Turn : pc'[u] = "claimed" => pc[u] = "claimed" /\ carry'[u] = carry[u]
  BY <1>1
<1>6. Blank' /\ Awaited' BY <1>1, TaskMoves DEF PlaceInv, PC
<1>7. \A u \in Turn : carry'[u] = carry[u] \/ carry'[u] = <<>> BY <1>1
<1> QED BY <1>1, <1>2, <1>3, <1>4, <1>5, <1>6, <1>7, FaultStep

LEMMA InboxFailsStep ==
  ASSUME TypeOK, TypeOK', PlaceInv, NEW t \in Turn, InboxFails(t)
  PROVE  PlaceInv'
<1>1. /\ pc[t] = "claimed"
      /\ \A u \in Turn : pc'[u] = IF u = t THEN "inbox" ELSE pc[u]
      /\ \A u \in Turn : carry'[u] = IF u = t THEN <<>> ELSE carry[u]
      /\ UNCHANGED <<pending, body, rows, starter, sent>>
      /\ budget.fault > 0 /\ budget'.fault = budget.fault - 1
  BY DEF InboxFails, db, redis, TypeOK, BudgetType, Goto, QueueType, TaskType
<1>2. PICK x \in Merged(carry[t]) : inbox' = Append(inbox, x) BY DEF InboxFails
<1>3. PICK y \in Msg : carry[t] = <<{y}>> BY <1>1 DEF PlaceInv, Claims
<1>4. \A m : In(carry[t], m) <=> m = x
  <2>1. \A m : In(carry[t], m) <=> m = y BY <1>3 DEF In
  <2> QED BY <1>2, <2>1, MergedIn
<1>5. \A m : Queued(m)' <=> Queued(m) BY <1>1 DEF Queued
<1>6. ASSUME NEW m \in Msg
      PROVE  Boxed(m)' <=> Boxed(m) \/ In(carry[t], m)
  <2>1. inbox \in Seq(Msg) /\ x \in Msg
    <3>1. carry[t] \in Seq(SUBSET Msg) /\ inbox \in Seq(Msg)
      BY DEF TypeOK, QueueType
    <3> QED BY <1>2, <3>1, MergedType
  <2>2. Has(Append(inbox, x), m) <=> Has(inbox, m) \/ m = x
    BY <2>1, AppendHas
  <2> QED BY <1>2, <1>4, <2>2 DEF Boxed
<1>7. \A u \in Turn : Handing(u)' <=> Handing(u) /\ u # t
  BY <1>1 DEF Handing
<1>8. \A u \in Turn : pc'[u] = "claimed" => pc[u] = "claimed" /\ carry'[u] = carry[u]
  BY <1>1
<1>9. Blank' /\ Awaited' BY <1>1, TaskMoves DEF PlaceInv, PC
<1>10. \A u \in Turn : carry'[u] = carry[u] \/ carry'[u] = <<>> BY <1>1
<1> QED BY <1>1, <1>5, <1>6, <1>7, <1>8, <1>9, <1>10, FaultStep

\* The drain takes the whole queue.
LEMMA DrainPopStep ==
  ASSUME TypeOK, TypeOK', PlaceInv, NEW t \in Turn, DrainPop(t)
  PROVE  PlaceInv' /\ AwayStays
<1> DEFINE label == IF pending = <<>> THEN "inbox" ELSE "popped"
<1>1. /\ pc[t] = "drain" /\ label \in {"inbox", "popped"}
      /\ \A u \in Turn : pc'[u] = IF u = t THEN label ELSE pc[u]
      /\ \A u \in Turn : carry'[u] = IF u = t THEN pending ELSE carry[u]
      /\ pending' = <<>>
      /\ UNCHANGED <<inbox, body, rows, starter, sent, budget>>
  BY DEF DrainPop, db, redis, TypeOK, Goto, QueueType, TaskType
<1>2. pending = <<>> \/ label = "popped" OBVIOUS
<1> HIDE DEF label
<1>3. \A m : Boxed(m)' <=> Boxed(m) BY <1>1 DEF Boxed
<1>4. \A m : ~Queued(m)' /\ Once(pending', m) BY <1>1, NoneIn DEF Queued
<1>5. \A u \in Turn : u # t => /\ Handing(u)' <=> Handing(u)
                               /\ carry'[u] = carry[u]
  BY <1>1 DEF Handing
<1>6. \A u \in Turn : \A m \in Msg : /\ Written(m, u)' <=> Written(m, u)
                                     /\ u # t => (Handed(m, u)' <=> Handed(m, u))
  BY <1>1, <1>5 DEF Written, Handed
<1>7. ~Handing(t) BY <1>1 DEF Handing
<1>8. \A m : Handed(m, t)' <=> Queued(m)
  <2>1. \A m : In(carry'[t], m) <=> Queued(m) BY <1>1 DEF Queued
  <2>2. CASE pending = <<>> BY <2>1, <2>2, NoneIn DEF Handed, Queued
  <2>3. CASE label = "popped" BY <1>1, <2>1, <2>3 DEF Handed, Handing
  <2> QED BY <1>2, <2>2, <2>3
<1>9. ASSUME NEW m \in Msg PROVE Nowhere(m)' <=> Nowhere(m)
  BY <1>3, <1>4, <1>6, <1>7, <1>8 DEF Nowhere, Handed
<1>10. ASSUME NEW m \in Msg, Single(m) PROVE Single(m)'
  <2>1. Once(carry'[t], m) BY <1>1, <1>10 DEF Single
  <2>2. \A u \in Turn : Handing(u)' => Once(carry'[u], m)
    BY <1>5, <1>10, <2>1 DEF Single
  <2>3. HasOnce(inbox', m) BY <1>1, <1>10 DEF Single
  <2>4. ~Handed(m, t) BY <1>7 DEF Handed
  <2> QED BY <1>3, <1>4, <1>6, <1>8, <1>10, <2>2, <2>3, <2>4 DEF Single
<1>11. ASSUME NEW m \in Msg, Nowhere(m), Untouched(m) PROVE Untouched(m)'
  BY <1>1, <1>11 DEF Untouched, Nowhere, Queued
<1>12. Placed' BY <1>1, <1>9, <1>10, <1>11 DEF PlaceInv, Placed, OnItsWay, Over
<1>13. Blank' /\ Awaited'
  <2>1. label \in PC \ {"prep"} BY <1>1 DEF PC
  <2> QED BY <1>1, <2>1, TaskMoves DEF PlaceInv
<1>14. Claims' BY <1>1 DEF PlaceInv, Claims
<1>a. AwayStays BY <1>3, <1>6, <1>7, <1>8 DEF AwayStays, Away, Handed
<1> QED BY <1>a, <1>1, <1>12, <1>13, <1>14 DEF PlaceInv, Spent

\* What was popped is queued again, as one entry or as it was.
LEMMA DrainQueuedStep ==
  ASSUME TypeOK, TypeOK', PlaceInv, NEW t \in Turn, DrainQueued(t)
  PROVE  PlaceInv' /\ AwayStays
<1>1. /\ pc[t] = "read"
      /\ \A u \in Turn : pc'[u] = IF u = t THEN "inbox" ELSE pc[u]
      /\ \A u \in Turn : carry'[u] = IF u = t THEN <<>> ELSE carry[u]
      /\ \/ pending' = Append(pending, Merged(carry[t]))
         \/ pending' = carry[t] \o pending
      /\ UNCHANGED <<inbox, body, rows, starter, sent, budget>>
  BY DEF DrainQueued, db, redis, TypeOK, Goto, QueueType, TaskType
<1>2. /\ pending \in Seq(SUBSET Msg) /\ carry[t] \in Seq(SUBSET Msg)
      /\ Merged(carry[t]) \in SUBSET Msg
  BY MergedType DEF TypeOK, QueueType
<1>3. \A m : Boxed(m)' <=> Boxed(m) BY <1>1 DEF Boxed
<1>4. \A m : Handed(m, t) <=> In(carry[t], m) BY <1>1 DEF Handed, Handing
<1>5. ASSUME NEW m
      PROVE  /\ Queued(m)' <=> Queued(m) \/ Handed(m, t)
             /\ Once(pending, m) /\ Once(carry[t], m) /\ ~(Queued(m) /\ Handed(m, t))
                  => Once(pending', m)
  <2>1. CASE pending' = Append(pending, Merged(carry[t]))
    <3>1. /\ In(Append(pending, Merged(carry[t])), m)
               <=> In(pending, m) \/ m \in Merged(carry[t])
          /\ Once(pending, m) /\ ~(In(pending, m) /\ m \in Merged(carry[t]))
               => Once(Append(pending, Merged(carry[t])), m)
      BY <1>2, AppendIn
    <3>2. m \in Merged(carry[t]) <=> In(carry[t], m) BY MergedIn
    <3> QED BY <1>4, <2>1, <3>1, <3>2 DEF Queued
  <2>2. CASE pending' = carry[t] \o pending
    <3>1. /\ In(carry[t] \o pending, m) <=> In(carry[t], m) \/ In(pending, m)
          /\ Once(carry[t], m) /\ Once(pending, m)
                /\ ~(In(carry[t], m) /\ In(pending, m))
               => Once(carry[t] \o pending, m)
      BY <1>2, ConcatIn
    <3> QED BY <1>4, <2>2, <3>1 DEF Queued
  <2> QED BY <1>1, <2>1, <2>2
<1>6. \A u \in Turn : /\ Handing(u)' <=> Handing(u) /\ u # t
                      /\ u # t => carry'[u] = carry[u]
  BY <1>1 DEF Handing
<1>7. \A u \in Turn : \A m \in Msg : /\ Written(m, u)' <=> Written(m, u)
                                     /\ Handed(m, u)' <=> Handed(m, u) /\ u # t
  BY <1>1, <1>6 DEF Written, Handed
<1>8. ASSUME NEW m \in Msg PROVE Nowhere(m)' <=> Nowhere(m)
  BY <1>3, <1>5, <1>7, <1>8 DEF Nowhere
<1>9. ASSUME NEW m \in Msg, Single(m) PROVE Single(m)'
  <2>1. /\ Once(carry[t], m) /\ ~(Queued(m) /\ Handed(m, t)) /\ Once(pending, m)
    BY <1>1, <1>9 DEF Single, Handing
  <2>2. Once(pending', m) BY <1>5, <2>1
  <2>3. HasOnce(inbox', m) BY <1>1, <1>9 DEF Single
  <2>4. \A u \in Turn : Handing(u)' => Once(carry'[u], m)
    BY <1>6, <1>9 DEF Single
  <2> QED BY <1>3, <1>5, <1>7, <1>9, <2>2, <2>3, <2>4 DEF Single
<1>10. ASSUME NEW m \in Msg, Untouched(m) PROVE Untouched(m)'
  BY <1>1, <1>10, NoneIn DEF Untouched
<1>11. Placed' BY <1>1, <1>8, <1>9, <1>10 DEF PlaceInv, Placed, OnItsWay, Over
<1>12. Blank' /\ Awaited' BY <1>1, TaskMoves DEF PlaceInv, PC
<1>13. Claims' BY <1>1 DEF PlaceInv, Claims
<1>a. AwayStays BY <1>3, <1>5, <1>7 DEF AwayStays, Away
<1> QED BY <1>a, <1>1, <1>11, <1>12, <1>13 DEF PlaceInv, Spent

\* The head of the inbox goes to the pending queue, or to the drain's locals.
LEMMA InboxStep ==
  ASSUME TypeOK, TypeOK', PlaceInv, NEW t \in Turn,
         InboxQueued(t) \/ InboxClaim(t)
  PROVE  PlaceInv' /\ AwayStays
<1> DEFINE h == Head(inbox)
<1>1. /\ pc[t] = "inbox" /\ inbox # <<>> /\ inbox' = Tail(inbox)
      /\ UNCHANGED <<body, rows, starter, sent, budget>>
  BY DEF InboxQueued, InboxClaim, db
<1>2. inbox \in Seq(Msg) /\ pending \in Seq(SUBSET Msg)
  BY DEF TypeOK, QueueType
<1>3. h \in Msg BY <1>1, <1>2, TailHas
<1>4. ASSUME NEW m \in Msg
      PROVE  /\ Boxed(m) <=> Boxed(m)' \/ m = h
             /\ HasOnce(inbox, m) => HasOnce(inbox', m) /\ ~(Boxed(m)' /\ m = h)
  BY <1>1, <1>2, TailHas DEF Boxed
<1>5. CASE InboxQueued(t)
  <2>1. pending' = Append(pending, {h}) /\ UNCHANGED <<carry, pc>>
    BY <1>5 DEF InboxQueued
  <2>2. {h} \in SUBSET Msg BY <1>3
  <2> HIDE DEF h
  <2>3. ASSUME NEW m \in Msg
        PROVE  /\ Queued(m)' <=> Queued(m) \/ m = h
               /\ Once(pending, m) /\ ~(Queued(m) /\ m = h) => Once(pending', m)
    <3>1. /\ In(Append(pending, {h}), m) <=> In(pending, m) \/ m \in {h}
          /\ Once(pending, m) /\ ~(In(pending, m) /\ m \in {h})
               => Once(Append(pending, {h}), m)
      BY <1>2, <2>2, AppendIn
    <3> QED BY <2>1, <3>1 DEF Queued
  <2>4. \A u \in Turn : /\ Handing(u)' <=> Handing(u)
                        /\ \A m \in Msg : Handed(m, u)' <=> Handed(m, u)
                        /\ \A m \in Msg : Written(m, u)' <=> Written(m, u)
    BY <1>1, <2>1 DEF Handing, Handed, Written
  <2>5. ASSUME NEW m \in Msg PROVE Nowhere(m)' <=> Nowhere(m)
    BY <1>4, <2>3, <2>4 DEF Nowhere
  <2>6. ASSUME NEW m \in Msg, Single(m) PROVE Single(m)'
    <3>1. Once(pending, m) /\ HasOnce(inbox, m) /\ ~(Queued(m) /\ Boxed(m))
      BY <2>6 DEF Single
    <3>2. Once(pending', m) /\ HasOnce(inbox', m) /\ ~(Queued(m)' /\ Boxed(m)')
      BY <1>4, <2>3, <3>1
    <3>3. \A u \in Turn : Handing(u)' => Once(carry'[u], m)
      BY <2>1, <2>4, <2>6 DEF Single
    <3> QED BY <1>4, <2>3, <2>4, <2>6, <3>2, <3>3 DEF Single
  <2>7. Placed'
    BY <1>1, <2>1, <2>5, <2>6 DEF PlaceInv, Placed, OnItsWay, Over, Untouched
  <2>8. Blank' /\ Awaited' BY <1>1, <2>1 DEF PlaceInv, Blank, Awaited
  <2>9. Claims' BY <2>1 DEF PlaceInv, Claims
  <2>a. AwayStays BY <1>4, <2>3, <2>4 DEF AwayStays, Away
  <2> QED BY <1>1, <2>a, <2>7, <2>8, <2>9 DEF PlaceInv, Spent
<1>6. CASE InboxClaim(t)
  <2>1. /\ pending' = pending
        /\ \A u \in Turn : pc'[u] = IF u = t THEN "claimed" ELSE pc[u]
        /\ \A u \in Turn : carry'[u] = IF u = t THEN <<{h}>> ELSE carry[u]
    BY <1>6 DEF InboxClaim, Goto, TypeOK, TaskType, QueueType
  <2> HIDE DEF h
  <2>2. \A m : In(<<{h}>>, m) <=> m = h BY DEF In
  <2>3. \A m : Once(<<{h}>>, m) BY DEF Once
  <2>4. \A m : Queued(m)' <=> Queued(m) BY <2>1 DEF Queued
  <2>5. \A u \in Turn : /\ Handing(u)' <=> Handing(u) \/ u = t
                        /\ u # t => carry'[u] = carry[u]
    BY <2>1 DEF Handing
  <2>6. ~Handing(t) BY <1>1 DEF Handing
  <2>7. \A u \in Turn : \A m \in Msg : Written(m, u)' <=> Written(m, u)
    BY <1>1 DEF Written
  <2>8. \A u \in Turn : \A m \in Msg :
          /\ u # t => (Handed(m, u)' <=> Handed(m, u))
          /\ Handed(m, t)' <=> m = h
          /\ ~Handed(m, t)
    BY <2>1, <2>2, <2>5, <2>6 DEF Handed
  <2>9. ASSUME NEW m \in Msg PROVE Nowhere(m)' <=> Nowhere(m)
    BY <1>4, <2>4, <2>7, <2>8 DEF Nowhere
  <2>10. ASSUME NEW m \in Msg, Single(m) PROVE Single(m)'
    <3>1. Once(pending, m) /\ HasOnce(inbox, m) BY <2>10 DEF Single
    <3>2. Once(pending', m) /\ HasOnce(inbox', m) BY <1>4, <2>1, <3>1
    <3>3. \A u \in Turn : Handing(u)' => Once(carry'[u], m)
      BY <2>1, <2>3, <2>5, <2>10 DEF Single
    <3>4. ~(Boxed(m)' /\ m = h) /\ (Boxed(m)' => Boxed(m)) /\ (m = h => Boxed(m))
      BY <1>4, <3>1
    <3> QED BY <2>4, <2>7, <2>8, <2>10, <3>2, <3>3, <3>4 DEF Single
  <2>11. ASSUME NEW m \in Msg, Nowhere(m), Untouched(m) PROVE Untouched(m)'
    BY <1>4, <2>1, <2>2, <2>11 DEF Untouched, Nowhere
  <2>12. Placed' BY <1>1, <2>9, <2>10, <2>11 DEF PlaceInv, Placed, OnItsWay, Over
  <2>13. Blank' /\ Awaited' BY <1>1, <2>1, TaskMoves DEF PlaceInv, PC
  <2>14. Claims' BY <1>3, <2>1 DEF PlaceInv, Claims
  <2>a. AwayStays BY <1>4, <2>4, <2>8 DEF AwayStays, Away
  <2> QED BY <1>1, <2>a, <2>12, <2>13, <2>14 DEF PlaceInv, Spent
<1> QED BY <1>5, <1>6

\* stop_session and the death of the process drop messages, and say so: what
\* is still "accepted" is where it was.
LEMMA DropStep ==
  ASSUME TypeOK, TypeOK', PlaceInv, UNCHANGED <<inbox, body, rows, starter>>,
         budget'.fault = budget.fault, Blank', Awaited',
         pending' = pending \/ pending' = <<>>,
         \A t \in Turn : pc'[t] = "claimed" =>
                           pc[t] = "claimed" /\ carry'[t] = carry[t],
         \A t \in Turn : Handing(t)' => Handing(t),
         \A t \in Turn : carry'[t] = carry[t] \/ carry'[t] = <<>>,
         \A m \in Msg : sent'[m] = sent[m] \/ sent'[m] \notin
                          Status \cup {"idle", "inject", "accepted"},
         \A m \in Msg : sent'[m] = "accepted" /\ Queued(m) => pending' = pending,
         \A m \in Msg, t \in Turn :
           sent'[m] = "accepted" /\ Handed(m, t) =>
             Handing(t)' /\ carry'[t] = carry[t],
         \A m \in Msg : sent'[m] # sent[m] =>
           \/ OnItsWay(m)
           \/ Queued(m) /\ ~Queued(m)'
           \/ \E t \in Turn : Handed(m, t) /\ ~Handing(t)'
  PROVE  PlaceInv'
<1>1. \A m : Boxed(m)' <=> Boxed(m) BY DEF Boxed
<1>2. \A m : (Queued(m)' => Queued(m)) /\ (Once(pending, m) => Once(pending', m))
  BY NoneIn DEF Queued
<1>3. ASSUME NEW t \in Turn, NEW m \in Msg
      PROVE  /\ In(carry'[t], m) => In(carry[t], m)
             /\ Once(carry[t], m) => Once(carry'[t], m)
             /\ Handed(m, t)' => Handed(m, t)
             /\ Written(m, t)' <=> Written(m, t)
  <2>1. /\ In(carry'[t], m) => In(carry[t], m)
        /\ Once(carry[t], m) => Once(carry'[t], m)
    <3>1. CASE carry'[t] = carry[t] BY <3>1
    <3>2. CASE carry'[t] = <<>> BY <3>2, NoneIn
    <3> QED BY <3>1, <3>2
  <2> QED BY <2>1 DEF Handed, Written
<1>4. ASSUME NEW m \in Msg
      PROVE  /\ Nowhere(m) => Nowhere(m)'
             /\ Untouched(m) => Untouched(m)'
             /\ Single(m) => Single(m)'
  <2>1. Nowhere(m) => Nowhere(m)' BY <1>1, <1>2, <1>3 DEF Nowhere
  <2>2. Untouched(m) => Untouched(m)' BY <1>3 DEF Untouched
  <2>3. ASSUME Single(m) PROVE Single(m)'
    <3>1. Once(pending', m) /\ HasOnce(inbox', m) BY <1>2, <2>3 DEF Single
    <3>2. \A t \in Turn : Handing(t)' => Once(carry'[t], m)
      BY <1>3, <2>3 DEF Single
    <3> QED BY <1>1, <1>2, <1>3, <2>3, <3>1, <3>2 DEF Single
  <2> QED BY <2>1, <2>2, <2>3
<1>5. ASSUME NEW m \in Msg, sent'[m] = "accepted", ~Nowhere(m)
      PROVE  ~Nowhere(m)'
  <2>1. CASE Queued(m)
    <3>1. Queued(m)' BY <1>5, <2>1 DEF Queued
    <3> QED BY <3>1 DEF Nowhere
  <2>2. CASE Boxed(m) BY <1>1, <2>2 DEF Nowhere
  <2>3. ASSUME NEW t \in Turn, Handed(m, t) PROVE ~Nowhere(m)'
    BY <1>5, <2>3 DEF Nowhere, Handed
  <2>4. ASSUME NEW t \in Turn, Written(m, t) PROVE ~Nowhere(m)'
    BY <1>3, <2>4 DEF Nowhere
  <2> QED BY <1>5, <2>1, <2>2, <2>3, <2>4 DEF Nowhere
<1>9. ASSUME NEW m \in Msg, sent'[m] # sent[m], budget.fault = MaxFaults
      PROVE  Nowhere(m)'
  <2>1. CASE OnItsWay(m) BY <1>4, <2>1 DEF PlaceInv, Placed
  <2>2. CASE ~OnItsWay(m)
    <3>1. ~Nowhere(m) BY <1>9, <2>2 DEF Nowhere
    <3>2. sent[m] = "accepted"
      BY <1>9, <2>2, <3>1
         DEF PlaceInv, Placed, OnItsWay, Over, TypeOK, SentType
    <3>3. Single(m) BY <1>9, <3>2 DEF PlaceInv, Placed
    <3>4. CASE Queued(m) /\ ~Queued(m)'
      BY <1>1, <1>3, <3>3, <3>4 DEF Single, Nowhere
    <3>5. ASSUME NEW t \in Turn, Handed(m, t), ~Handing(t)'
          PROVE  Nowhere(m)'
      <4>1. ~Handed(m, t)' BY <3>5 DEF Handed
      <4> QED BY <1>1, <1>2, <1>3, <3>3, <3>5, <4>1 DEF Single, Nowhere
    <3> QED BY <1>9, <2>2, <3>4, <3>5
  <2> QED BY <2>1, <2>2
<1>6. ASSUME NEW m \in Msg
      PROVE  /\ OnItsWay(m)' => Nowhere(m)' /\ Untouched(m)'
             /\ sent'[m] = "accepted" => ~Nowhere(m)'
             /\ sent'[m] = "accepted" /\ budget'.fault = MaxFaults => Single(m)'
             /\ Over(m)' /\ budget'.fault = MaxFaults => Nowhere(m)'
  BY <1>4, <1>5, <1>9 DEF PlaceInv, Placed, OnItsWay, Over
<1>7. Placed' BY <1>6 DEF Placed
<1>8. Claims' BY DEF PlaceInv, Claims
<1> QED BY <1>7, <1>8 DEF PlaceInv, Spent

\* stop_session clears the queue; it cancels a task with what it holds; the
\* process dies.
LEMMA StopBeginStep ==
  ASSUME TypeOK, TypeOK', PlaceInv, StopBegin
  PROVE  PlaceInv'
<1>1. /\ UNCHANGED <<inbox, body, rows, starter, pc, carry>>
      /\ pending' = <<>> /\ budget'.fault = budget.fault
      /\ \A m \in Msg : sent'[m] = IF In(pending, m) THEN "discarded" ELSE sent[m]
  BY MergedIn DEF StopBegin, Settle, db, redis, TypeOK, BudgetType
<1>2. Blank' /\ Awaited' BY <1>1 DEF PlaceInv, Blank, Awaited
<1>3. \A m \in Msg : sent'[m] = sent[m] \/ sent'[m] \notin
                       Status \cup {"idle", "inject", "accepted"}
  BY <1>1 DEF Status
<1>4. \A m \in Msg : sent'[m] = "accepted" => ~Queued(m) BY <1>1 DEF Queued
<1>5. \A t \in Turn : Handing(t)' <=> Handing(t) BY <1>1 DEF Handing
<1>6. \A m \in Msg, t \in Turn : Handed(m, t) => Handing(t) BY DEF Handed
<1>7. \A m \in Msg : sent'[m] # sent[m] => Queued(m) /\ ~Queued(m)'
  BY <1>1, NoneIn DEF Queued
<1> QED BY <1>1, <1>2, <1>3, <1>4, <1>5, <1>6, <1>7, DropStep

LEMMA StopCancelStep ==
  ASSUME TypeOK, TypeOK', PlaceInv, StopCancel
  PROVE  PlaceInv'
<1> DEFINE k == stop.task
<1>1. /\ UNCHANGED <<inbox, body, rows, starter, pending, budget>>
      /\ \A u \in Turn : carry'[u] = IF u = k THEN <<>> ELSE carry[u]
      /\ \A u \in Turn : pc'[u] =
           CASE u = k -> AfterCancel(pc[u])
             [] k # 0 /\ starter[u] = k /\ pc[u] = "prep" -> "lost"
             [] OTHER -> pc[u]
      /\ \A m \in Msg : sent'[m] = IF m \in UNION {Held(u) : u \in {k} \ {0}}
                                     THEN "lost" ELSE sent[m]
  BY DEF StopCancel, Settle, redis
<1>2. k = 0 \/ k \in Turn
  BY BoundsAssumption DEF TypeOK, HandlerType, Turn
<1>3. 0 \notin Turn BY DEF Turn
<1> HIDE DEF k
<1>4. \A u \in Turn : AfterCancel(pc[u]) \notin {"popped", "read", "claimed"}
  BY DEF AfterCancel
<1>5. \A u \in Turn : /\ AfterCancel(pc[u]) = "prep" <=> pc[u] = "prep"
                      /\ pc[u] = "none" => AfterCancel(pc[u]) = "none"
  BY DEF AfterCancel
<1>6. \A u \in Turn : Handing(u)' => Handing(u) /\ u # k /\ pc'[u] = pc[u]
  BY <1>1, <1>4 DEF Handing
<1>7. \A u \in Turn : Handing(u) /\ u # k => Handing(u)' /\ carry'[u] = carry[u]
  BY <1>1 DEF Handing
<1>8. ASSUME NEW m \in Msg, NEW t \in Turn, sent'[m] = "accepted", Handed(m, t)
      PROVE  t # k
  <2> SUFFICES ASSUME t = k PROVE FALSE OBVIOUS
  <2>1. m \in Held(k) BY <1>8, MergedIn DEF Handed, Handing, Held
  <2>2. sent'[m] = "lost" BY <1>1, <1>3, <2>1
  <2> QED BY <1>8, <2>2
<1>9. Blank' /\ Awaited'
  <2>1. \A u \in Turn : pc'[u] = "prep" =>
          pc[u] = "prep" /\ (u = k \/ k = 0 \/ starter[u] # k)
    BY <1>1, <1>5
  <2>2. \A u \in Turn : pc[u] = "none" => pc'[u] = "none"
    BY <1>1, <1>5
  <2>3. ASSUME NEW u \in Turn, pc'[u] = "prep", starter[u] # 0
        PROVE  pc'[starter[u]] = pc[starter[u]]
    <3>1. pc[u] = "prep" BY <2>1, <2>3
    <3>2. starter[u] \in Turn /\ pc[starter[u]] \in {"sending", "injecting"}
      BY <2>3, <3>1, StartersAreTurns DEF PlaceInv, Awaited
    <3>3. starter[u] # k BY <1>2, <2>1, <2>3, <3>1, <3>2
    <3> QED BY <1>1, <3>2, <3>3
  <2> QED BY <1>1, <2>1, <2>2, <2>3, WaitStep DEF PlaceInv
<1>10. \A m \in Msg : sent'[m] = sent[m] \/ sent'[m] \notin
                       Status \cup {"idle", "inject", "accepted"}
  BY <1>1 DEF Status
<1>11. \A u \in Turn : pc'[u] = "claimed" => pc[u] = "claimed" /\ carry'[u] = carry[u]
  BY <1>6, <1>7 DEF Handing
<1>12. \A m \in Msg, t \in Turn : sent'[m] = "accepted" /\ Handed(m, t) =>
         Handing(t)' /\ carry'[t] = carry[t]
  BY <1>7, <1>8 DEF Handed
<1>13. \A u \in Turn : carry'[u] = carry[u] \/ carry'[u] = <<>> BY <1>1
<1>14. ASSUME NEW m \in Msg, sent'[m] # sent[m]
       PROVE  \E t \in Turn : Handed(m, t) /\ ~Handing(t)'
  <2>1. k \in Turn /\ m \in Held(k) BY <1>1, <1>2, <1>3, <1>14
  <2>2. Handed(m, k) BY <2>1, MergedIn DEF Held, Handed, Handing
  <2> QED BY <1>6, <2>1, <2>2
<1> QED BY <1>1, <1>6, <1>9, <1>10, <1>11, <1>12, <1>13, <1>14, DropStep

LEMMA CrashStep ==
  ASSUME TypeOK, TypeOK', PlaceInv, Crash
  PROVE  PlaceInv'
<1>1. /\ UNCHANGED <<inbox, body, rows, starter>>
      /\ pending' = <<>> /\ budget'.fault = budget.fault
      /\ \A t \in Turn : carry'[t] = <<>>
      /\ \A t \in Turn : pc'[t] = IF pc[t] \in {"none", "done", "dead"}
                                    THEN pc[t] ELSE "lost"
      /\ \A m \in Msg : sent'[m] =
           CASE sent[m] \in Status -> "refused"
             [] m \in Merged(pending) \cup UNION {Held(t) : t \in Turn}
                  \/ sent[m] = "inject" -> "lost"
             [] m \in Results /\ sent[m] = "idle" /\ Spawned -> "lost"
             [] OTHER -> sent[m]
  BY DEF Crash, db, redis, TypeOK, BudgetType
<1>2. \A m \in Msg : sent'[m] = sent[m] \/ sent'[m] \notin
                       Status \cup {"idle", "inject", "accepted"}
  BY <1>1 DEF Status
<1>3. ASSUME NEW m \in Msg, sent'[m] = "accepted"
      PROVE  ~Queued(m) /\ \A t \in Turn : ~Handed(m, t)
  <2>1. m \notin Merged(pending) /\ \A t \in Turn : m \notin Held(t)
    BY <1>1, <1>3
  <2>2. ~Queued(m) BY <2>1, MergedIn DEF Queued
  <2>3. \A t \in Turn : ~Handed(m, t)
    BY <2>1, MergedIn DEF Handed, Handing, Held
  <2> QED BY <2>2, <2>3
<1>4. \A t \in Turn : ~Handing(t)' /\ pc'[t] # "claimed" /\ pc'[t] # "prep"
  BY <1>1 DEF Handing
<1>5. Blank' /\ Awaited' BY <1>1, <1>4 DEF PlaceInv, Blank, Awaited
<1>6. ASSUME NEW m \in Msg, sent'[m] # sent[m], ~OnItsWay(m)
      PROVE  \/ Queued(m) /\ ~Queued(m)'
             \/ \E t \in Turn : Handed(m, t) /\ ~Handing(t)'
  <2>1. m \in Merged(pending) \/ \E t \in Turn : m \in Held(t)
    BY <1>1, <1>6 DEF OnItsWay
  <2>2. ~Queued(m)' BY <1>1, NoneIn DEF Queued
  <2>3. \A t \in Turn : m \in Held(t) => Handed(m, t)
    BY MergedIn DEF Held, Handed, Handing
  <2> QED BY <1>4, <2>1, <2>2, <2>3, MergedIn DEF Queued
<1> QED BY <1>1, <1>2, <1>3, <1>4, <1>5, <1>6, DropStep

\* Every step, and the beginning.
LEMMA PlaceStep == TypeOK /\ PlaceInv /\ [Next]_vars => PlaceInv'
<1> SUFFICES ASSUME TypeOK, PlaceInv, [Next]_vars PROVE PlaceInv' OBVIOUS
<1>1. TypeOK' BY TypeStep
<1>2. ASSUME Calm PROVE PlaceInv' BY <1>1, <1>2, StillStep
<1>3. ASSUME NEW m \in Clients, ClientQueued(m) PROVE PlaceInv'
  <2>1. m \in Msg /\ OnItsWay(m) BY <1>3 DEF Msg, ClientQueued, OnItsWay
  <2>2. /\ pending' = Append(pending, {m}) /\ inbox' = inbox
        /\ sent' = [sent EXCEPT ![m] = "accepted"]
        /\ UNCHANGED <<carry, body, rows, starter, pc, budget>>
    BY <1>3 DEF ClientQueued, db, redis
  <2> QED BY <1>1, <2>1, <2>2, JoinStep
<1>4. ASSUME NEW m \in Clients, ClientStarts(m) PROVE PlaceInv'
  <2>1. m \in Msg /\ OnItsWay(m) BY <1>4 DEF Msg, ClientStarts, OnItsWay
  <2>2. /\ AddTurn("message", 0, {m}, sent[m]) /\ Goto(rows + 1, "prep")
        /\ UNCHANGED <<pending, inbox, carry, budget>>
        /\ \A x \in Msg : sent'[x] = IF x \in {m} THEN "accepted" ELSE sent[x]
    BY <1>4, <2>1 DEF ClientStarts, redis, TypeOK, SentType
  <2>3. \A x \in Msg : x \in {m} => OnItsWay(x) BY <2>1
  <2> QED BY <1>1, <2>2, <2>3, RowStep
<1>5. ASSUME NEW m \in Results, ResultQueued(m) PROVE PlaceInv'
  <2>1. m \in Msg /\ OnItsWay(m) BY <1>5 DEF Msg, ResultQueued, OnItsWay
  <2>2. CASE Len(pending) < MaxPending
    <3>1. /\ pending' = Append(pending, {m}) /\ inbox' = inbox
          /\ sent' = [sent EXCEPT ![m] = "accepted"]
          /\ UNCHANGED <<carry, body, rows, starter, pc, budget>>
      BY <1>5, <2>2 DEF ResultQueued, db, redis
    <3> QED BY <1>1, <2>1, <3>1, JoinStep
  <2>3. CASE ~(Len(pending) < MaxPending)
    <3>1. Calm
      BY <1>5, <2>1, <2>3
         DEF ResultQueued, Calm, SameTasks, SameSent, db, redis, TypeOK, SentType,
             BudgetType
    <3> QED BY <1>2, <3>1
  <2> QED BY <2>2, <2>3
<1>6. ASSUME NEW m \in Results, ResultStarts(m) PROVE PlaceInv'
  <2>1. m \in Msg /\ OnItsWay(m) BY <1>6 DEF Msg, ResultStarts, OnItsWay
  <2>2. /\ AddTurn("result", 0, {m}, status) /\ Goto(rows + 1, "prep")
        /\ UNCHANGED <<pending, inbox, carry, budget>>
        /\ \A x \in Msg : sent'[x] = IF x \in {m} THEN "accepted" ELSE sent[x]
    BY <1>6, <2>1 DEF ResultStarts, redis, TypeOK, SentType
  <2>3. \A x \in Msg : x \in {m} => OnItsWay(x) BY <2>1
  <2> QED BY <1>1, <2>2, <2>3, RowStep
<1>7. ASSUME NEW m \in Peers, PeerSends(m) PROVE PlaceInv'
  <2>1. m \in Msg /\ OnItsWay(m) BY <1>7 DEF Msg, PeerSends, OnItsWay
  <2>2. /\ inbox' = Append(inbox, m) /\ pending' = pending
        /\ sent' = [sent EXCEPT ![m] = "accepted"]
        /\ UNCHANGED <<carry, body, rows, starter, pc, budget>>
    BY <1>7 DEF PeerSends
  <2> QED BY <1>1, <2>1, <2>2, JoinStep
<1>8. ASSUME NEW t \in Turn, Dispatch(t) PROVE PlaceInv'
  BY <1>1, <1>8, DispatchStep
<1>9. ASSUME NEW t \in Turn, DrainPop(t) PROVE PlaceInv'
  BY <1>1, <1>9, DrainPopStep
<1>10. ASSUME NEW t \in Turn, DrainQueued(t) PROVE PlaceInv'
  BY <1>1, <1>10, DrainQueuedStep
<1>11. ASSUME NEW t \in Turn, DrainStarts(t) PROVE PlaceInv'
  <2>1. /\ Handing(t) /\ AddTurn("message", t, Merged(carry[t]), seen[t])
        /\ pc' = [pc EXCEPT ![t] = "sending", ![rows + 1] = "prep"]
        /\ UNCHANGED <<pending, inbox, carry, sent, budget>>
    BY <1>11 DEF DrainStarts, Handing, redis
  <2> QED BY <1>1, <2>1, HandOverStep
<1>12. ASSUME NEW t \in Turn, InboxQueued(t) \/ InboxClaim(t) PROVE PlaceInv'
  BY <1>1, <1>12, InboxStep
<1>13. ASSUME NEW t \in Turn, InboxStarts(t) PROVE PlaceInv'
  <2>1. /\ Handing(t) /\ AddTurn("fellow", t, Merged(carry[t]), seen[t])
        /\ pc' = [pc EXCEPT ![t] = "injecting", ![rows + 1] = "prep"]
        /\ UNCHANGED <<pending, inbox, carry, sent, budget>>
    BY <1>13 DEF InboxStarts, Handing, redis
  <2> QED BY <1>1, <2>1, HandOverStep
<1>14. ASSUME NEW t \in Turn, PrepareFails(t) \/ DrainFails(t) \/ InboxFails(t)
       PROVE  PlaceInv'
  BY <1>1, <1>14, PrepareFailsStep, DrainFailsStep, InboxFailsStep
<1>15. CASE StopBegin BY <1>1, <1>15, StopBeginStep
<1>16. CASE StopCancel BY <1>1, <1>16, StopCancelStep
<1>17. CASE Crash BY <1>1, <1>17, CrashStep
<1>18. CASE ResumeStarts
  <2>1. /\ AddTurn("resume", 0, {}, status) /\ Goto(rows + 1, "prep")
        /\ UNCHANGED <<pending, inbox, carry, budget>>
        /\ \A x \in Msg : sent'[x] = IF x \in {} THEN "accepted" ELSE sent[x]
    BY <1>18 DEF ResumeStarts, redis
  <2> QED BY <1>1, <2>1, RowStep
<1> QED
  BY <1>2, <1>3, <1>4, <1>5, <1>6, <1>7, <1>8, <1>9, <1>10, <1>11, <1>12, <1>13,
     <1>14, <1>15, <1>16, <1>17, <1>18, CalmActions
     DEF Next, ClientSend, RunTask, DrainPending, DrainInbox, Fault, Stopping,
         Resume

LEMMA PlaceInit == Init => PlaceInv
<1> SUFFICES ASSUME Init PROVE PlaceInv OBVIOUS
<1>1. /\ pending = <<>> /\ inbox = <<>> /\ rows = 0
      /\ \A t \in Turn : /\ body[t] = {} /\ pc[t] = "none" /\ carry[t] = <<>>
      /\ \A m \in Msg : sent[m] = "idle"
      /\ budget.fault = MaxFaults
  BY DEF Init
<1>2. \A m \in Msg : Nowhere(m) /\ Untouched(m)
  BY <1>1, NoneIn DEF Nowhere, Untouched, Queued, Boxed, Has, Handed, Handing, Written
<1> QED
  BY <1>1, <1>2, BoundsAssumption
     DEF PlaceInv, Placed, Blank, Awaited, Claims, Spent

\* The places of a message are those the invariant speaks of.
LEMMA PlacesAre ==
  ASSUME NEW m, NEW p
  PROVE  p \in Places(m) <=>
           \/ \E i \in DOMAIN pending : m \in pending[i] /\ p = <<"queue", i>>
           \/ \E i \in DOMAIN inbox : inbox[i] = m /\ p = <<"inbox", i>>
           \/ \E t \in Turn : Handed(m, t) /\ p = <<"drain", t>>
           \/ \E t \in Turn : Written(m, t) /\ p = <<"row", t>>
<1>1. \A t \in Turn : m \in Held(t) <=> Handed(m, t)
  BY MergedIn DEF Held, Handed, Handing
<1>3. p \in {"queue"} \X {i \in DOMAIN pending : m \in pending[i]} <=>
        \E i \in DOMAIN pending : m \in pending[i] /\ p = <<"queue", i>>
  OBVIOUS
<1>4. p \in {"inbox"} \X {i \in DOMAIN inbox : inbox[i] = m} <=>
        \E i \in DOMAIN inbox : inbox[i] = m /\ p = <<"inbox", i>>
  OBVIOUS
<1>5. p \in {"drain"} \X {t \in Turn : m \in Held(t)} <=>
        \E t \in Turn : Handed(m, t) /\ p = <<"drain", t>>
  BY <1>1
<1>6. p \in {"row"} \X {t \in Turn : m \in body[t]} <=>
        \E t \in Turn : Written(m, t) /\ p = <<"row", t>>
  BY DEF Written
<1> QED BY <1>3, <1>4, <1>5, <1>6 DEF Places

\* Every accepted message is in exactly one place, whatever stops, crashes and
\* sweeps come between: send_message, the deliveries, both drains and
\* stop_session hand messages over without losing or doubling one, and after a
\* failed write no accepted message is in no place at all.
THEOREM AcceptedIsInOnePlace == Spec => []ExactlyOnePlace
<1> DEFINE Inv == TypeOK /\ PlaceInv
<1>1. Init => Inv BY TypeInit, PlaceInit
<1>2. Inv /\ [Next]_vars => Inv' BY TypeStep, PlaceStep
<1>3. Inv => ExactlyOnePlace
  <2> SUFFICES ASSUME Inv, NEW m \in Msg, sent[m] = "accepted"
               PROVE  \E p \in Places(m) :
                        budget.fault = MaxFaults => Places(m) = {p}
    BY DEF ExactlyOnePlace
  <2>1. ~Nowhere(m) /\ (budget.fault = MaxFaults => Single(m))
    BY DEF PlaceInv, Placed
  <2>2. PICK p : p \in Places(m)
    BY <2>1, PlacesAre DEF Nowhere, Queued, Boxed, In, Has
  <2>3. ASSUME Single(m), NEW q \in Places(m) PROVE q = p
    BY <2>2, <2>3, PlacesAre
       DEF Single, Queued, Boxed, In, Has, Once, HasOnce, Handed
  <2> QED BY <2>1, <2>2, <2>3
<1> QED BY <1>1, <1>2, <1>3, PTL DEF Spec

-----------------------------------------------------------------------------
(* An ACTIVE session has a turn                                            *)

NoStops == budget.stop = 0 /\ stop = NoStop

\* There is no outcome before the row.
Unanswered == \A t \in Turn : t > rows => resp[t] = {}

\* The newest turn itself is being worked on, and has no outcome.
NewestWorks == rows \in Turn /\ pc[rows] \in Working /\ resp[rows] = {}

ActiveInv ==
  phase = "up" /\ status = "ACTIVE" /\ rows > 0 /\ budget.fault = MaxFaults =>
    (\E m \in Peers : Away(m)) \/ NewestWorks

\* Without a call of stop_session there is no stop.
LEMMA NoStopsStep == TypeOK /\ NoStops /\ [Next]_vars => NoStops'
<1> SUFFICES ASSUME TypeOK, NoStops, [Next]_vars PROVE NoStops' OBVIOUS
<1> USE DEF TypeOK, BudgetType, NoStops
<1>1. ASSUME NEW m \in Msg,
             ClientRead(m) \/ ClientSend(m) \/ ResultQueued(m)
               \/ ResultSeesIdle(m) \/ ResultStarts(m) \/ PeerSends(m)
      PROVE  NoStops'
  BY <1>1 DEF ClientRead, ClientSend, ClientQueued, ClientRefused,
     ClientStarts, ResultQueued, ResultSeesIdle, ResultStarts, PeerSends
<1>2. ASSUME NEW t \in Turn,
             Dispatch(t) \/ RunTask(t) \/ EagerPersist(t) \/ DrainPending(t)
      PROVE  NoStops'
  BY <1>2 DEF Dispatch, RunTask, EagerPersist, DrainPending, TaskStart,
     Guard, RunnerReturns, TurnFails, PersistSkipped, PersistCheck, Persist,
     Notify, Unmark, DrainPop, DrainRead, DrainQueued, DrainStarts, memory
<1>3. ASSUME NEW t \in Turn, DrainInbox(t) \/ Fault(t) PROVE NoStops'
  BY <1>3 DEF DrainInbox, Fault, InboxEmpty, InboxQueued, InboxClaim,
     InboxStarts, PrepareFails, TurnFailsUnrecorded, PersistFails,
     DrainFails, InboxFails
<1>4. ASSUME StopBegin \/ Stopping PROVE FALSE
  BY <1>4 DEF StopBegin, Stopping, StopCancel, StopCheck, StopWrite, NoStop
<1>5. ASSUME Crash \/ Restart \/ Resume \/ Sweep PROVE NoStops'
  BY <1>5 DEF Crash, Restart, Promote, Recover, Resume, ResumeClaim,
     ResumeStarts, Sweep, memory
<1>6. ASSUME UNCHANGED vars PROVE NoStops' BY <1>6 DEF vars, memory
<1> QED BY <1>1, <1>2, <1>3, <1>4, <1>5, <1>6 DEF Next, Msg

\* A step that neither writes a row nor loses a message, and that takes the
\* newest turn out of work only when it takes the session out of ACTIVE.
LEMMA ActiveKept ==
  ASSUME ActiveInv, Unanswered, AwayStays, UNCHANGED rows,
         budget'.fault = MaxFaults => budget.fault = MaxFaults,
         phase' = "up" /\ status' = "ACTIVE" => phase = "up" /\ status = "ACTIVE",
         phase' = "up" /\ status' = "ACTIVE" /\ budget'.fault = MaxFaults
           /\ NewestWorks => NewestWorks',
         \A t \in Turn : t > rows => resp'[t] = resp[t]
  PROVE  ActiveInv' /\ Unanswered'
<1>1. ActiveInv' BY DEF ActiveInv, AwayStays, Msg
<1>2. Unanswered' BY DEF Unanswered
<1> QED BY <1>1, <1>2

\* A step that writes a row.
LEMMA ActiveAdded ==
  ASSUME TypeOK, Blank, Unanswered,
         NEW who, NEW by, NEW messages, NEW known,
         AddTurn(who, by, messages, known), pc'[rows + 1] = "prep"
  PROVE  ActiveInv' /\ Unanswered'
<1>1. /\ rows + 1 \in Turn /\ rows' = rows + 1 /\ rows \in Nat
      /\ resp' = resp
  BY RowAdded DEF AddTurn
<1>2. resp[rows + 1] = {} BY <1>1 DEF Unanswered
<1>3. NewestWorks' BY <1>1, <1>2 DEF NewestWorks, Working
<1>4. Unanswered' BY <1>1 DEF Unanswered, Turn
<1> QED BY <1>3, <1>4 DEF ActiveInv

\* The steps of the tasks and handlers that hand no message over.
LEMMA ActiveCalm ==
  ASSUME TypeOK, PlaceInv, NoStops, ActiveInv, Unanswered, AwayStays,
         \/ \E m \in Clients : ClientRead(m) \/ ClientRefused(m)
         \/ \E m \in Results : ResultSeesIdle(m)
         \/ \E t \in Turn :
              \/ TaskStart(t) \/ Guard(t) \/ EagerPersist(t) \/ RunnerReturns(t)
              \/ TurnFails(t) \/ TurnFailsUnrecorded(t) \/ PersistSkipped(t)
              \/ PersistCheck(t) \/ Persist(t) \/ PersistFails(t) \/ Notify(t)
              \/ Unmark(t) \/ DrainRead(t) \/ InboxEmpty(t)
         \/ Restart \/ ResumeClaim \/ Sweep \/ UNCHANGED vars
  PROVE  ActiveInv' /\ Unanswered'
<1> DEFINE Kept ==
  /\ UNCHANGED rows
  /\ budget'.fault = MaxFaults => budget.fault = MaxFaults
  /\ phase' = "up" /\ status' = "ACTIVE" => phase = "up" /\ status = "ACTIVE"
  /\ phase' = "up" /\ status' = "ACTIVE" /\ budget'.fault = MaxFaults
       /\ NewestWorks => NewestWorks'
  /\ \A t \in Turn : t > rows => resp'[t] = resp[t]
<1> USE DEF TypeOK, DbType, TaskType, BudgetType, NewestWorks, Working, db, redis,
            memory, Goto
<1>1. ASSUME NEW m \in Clients, ClientRead(m) PROVE Kept
  BY <1>1 DEF ClientRead
<1>2. ASSUME NEW m \in Clients, ClientRefused(m) PROVE Kept
  BY <1>2 DEF ClientRefused
<1>3. ASSUME NEW m \in Results, ResultSeesIdle(m) PROVE Kept
  BY <1>3 DEF ResultSeesIdle
<1>4. ASSUME NEW t \in Turn, TaskStart(t) PROVE Kept
  BY <1>4 DEF TaskStart
<1>5. ASSUME NEW t \in Turn, Guard(t) PROVE Kept
  BY <1>5 DEF Guard
<1>6. ASSUME NEW t \in Turn, EagerPersist(t) PROVE Kept
  BY <1>6 DEF EagerPersist
<1>7. ASSUME NEW t \in Turn, RunnerReturns(t) PROVE Kept
  BY <1>7 DEF RunnerReturns
<1>8. ASSUME NEW t \in Turn, TurnFails(t) PROVE Kept
  BY <1>8 DEF TurnFails, Record, PlaceInv, Blank
<1>9. ASSUME NEW t \in Turn, PersistSkipped(t) PROVE Kept
  BY <1>9 DEF PersistSkipped
<1>10. ASSUME NEW t \in Turn, PersistCheck(t) PROVE Kept
  BY <1>10 DEF PersistCheck
<1>11. ASSUME NEW t \in Turn, Persist(t) PROVE Kept
  BY <1>11 DEF Persist, Record, PlaceInv, Blank
<1>12. ASSUME NEW t \in Turn, Notify(t) PROVE Kept
  BY <1>12 DEF Notify
<1>13. ASSUME NEW t \in Turn, Unmark(t) PROVE Kept
  BY <1>13 DEF Unmark
<1>14. ASSUME NEW t \in Turn, DrainRead(t) PROVE Kept
  BY <1>14 DEF DrainRead
<1>15. ASSUME NEW t \in Turn, InboxEmpty(t) PROVE Kept
  BY <1>15 DEF InboxEmpty
<1>16. ASSUME NEW t \in Turn, TurnFailsUnrecorded(t) \/ PersistFails(t) PROVE Kept
  BY <1>16, BoundsAssumption DEF TurnFailsUnrecorded, PersistFails, PlaceInv, Spent
<1>17. ASSUME Restart PROVE Kept
  BY <1>17 DEF Restart, Promote, Recover
<1>18. ASSUME ResumeClaim \/ Sweep PROVE Kept
  BY <1>18 DEF ResumeClaim, Sweep
<1>19. ASSUME UNCHANGED vars PROVE Kept
  BY <1>19 DEF vars
<1>20. Kept
  BY <1>1, <1>2, <1>3, <1>4, <1>5, <1>6, <1>7, <1>8, <1>9, <1>10,
     <1>11, <1>12, <1>13, <1>14, <1>15, <1>16, <1>17, <1>18, <1>19
<1> QED BY <1>20, ActiveKept

\* Every step keeps an ACTIVE session in work.
LEMMA ActiveStep ==
  ASSUME TypeOK, PlaceInv, NoStops, ActiveInv, Unanswered, [Next]_vars
  PROVE  ActiveInv' /\ Unanswered'
<1>1. TypeOK' BY TypeStep
<1>2. ASSUME Calm PROVE AwayStays BY <1>1, <1>2, StillStep
<1> USE DEF db, redis
<1>3. ASSUME NEW m \in Msg, OnItsWay(m),
             \/ pending' = Append(pending, {m}) /\ inbox' = inbox
             \/ inbox' = Append(inbox, m) /\ pending' = pending,
             sent' = [sent EXCEPT ![m] = "accepted"],
             UNCHANGED <<carry, body, rows, starter, pc, budget, phase, resp>>,
             UNCHANGED status \/ m \in Peers
      PROVE  ActiveInv' /\ Unanswered'
  <2>1. AwayStays BY <1>1, <1>3, JoinStep
  <2>2. CASE UNCHANGED status
    BY <1>3, <2>1, <2>2, ActiveKept DEF NewestWorks
  <2>3. CASE m \in Peers
    <3>1. Away(m)'
      <4>1. pending \in Seq(SUBSET Msg) /\ inbox \in Seq(Msg) /\ {m} \in SUBSET Msg
        BY DEF TypeOK, QueueType
      <4>2. CASE pending' = Append(pending, {m})
        <5>1. In(Append(pending, {m}), m) BY <4>1, AppendIn
        <5> QED BY <4>2, <5>1 DEF Away, Queued
      <4>3. CASE inbox' = Append(inbox, m)
        <5>1. Has(Append(inbox, m), m) BY <4>1, AppendHas
        <5> QED BY <4>3, <5>1 DEF Away, Boxed
      <4> QED BY <1>3, <4>2, <4>3
    <3>2. ActiveInv' BY <2>3, <3>1 DEF ActiveInv
    <3>3. Unanswered' BY <1>3 DEF Unanswered
    <3> QED BY <3>2, <3>3
  <2> QED BY <1>3, <2>2, <2>3
<1>4. ASSUME NEW m \in Clients, ClientQueued(m) PROVE ActiveInv' /\ Unanswered'
  <2>1. m \in Msg /\ OnItsWay(m) BY <1>4 DEF Msg, ClientQueued, OnItsWay
  <2> QED BY <1>3, <1>4, <2>1 DEF ClientQueued
<1>5. ASSUME NEW m \in Results, ResultQueued(m) PROVE ActiveInv' /\ Unanswered'
  <2>1. m \in Msg /\ OnItsWay(m) BY <1>5 DEF Msg, ResultQueued, OnItsWay
  <2>2. CASE Len(pending) < MaxPending
    BY <1>3, <1>5, <2>1, <2>2 DEF ResultQueued
  <2>3. CASE ~(Len(pending) < MaxPending)
    <3>1. Calm
      BY <1>5, <2>1, <2>3
         DEF ResultQueued, Calm, SameTasks, SameSent, TypeOK, SentType, BudgetType
    <3> QED BY <1>2, <1>5, <3>1, ActiveKept DEF ResultQueued, NewestWorks
  <2> QED BY <2>2, <2>3
<1>6. ASSUME NEW m \in Peers, PeerSends(m) PROVE ActiveInv' /\ Unanswered'
  <2>1. m \in Msg /\ OnItsWay(m) BY <1>6 DEF Msg, PeerSends, OnItsWay
  <2> QED BY <1>3, <1>6, <2>1 DEF PeerSends
<1>7. ASSUME NEW who, NEW by, NEW messages, NEW known,
             AddTurn(who, by, messages, known), pc'[rows + 1] = "prep"
      PROVE  ActiveInv' /\ Unanswered'
  BY <1>7, ActiveAdded DEF PlaceInv
<1>8. rows < MaxTurns => rows + 1 \in Turn
  BY BoundsAssumption DEF TypeOK, DbType, Turn
<1>9. ASSUME NEW m, ClientStarts(m) \/ ResultStarts(m)
      PROVE  ActiveInv' /\ Unanswered'
  <2>1. pc'[rows + 1] = "prep"
    BY <1>8, <1>9 DEF ClientStarts, ResultStarts, AddTurn, Goto, TypeOK, TaskType
  <2> QED BY <1>7, <1>9, <2>1 DEF ClientStarts, ResultStarts
<1>10. ASSUME NEW t \in Turn, DrainStarts(t) \/ InboxStarts(t)
       PROVE  ActiveInv' /\ Unanswered'
  <2>1. pc'[rows + 1] = "prep"
    BY <1>8, <1>10 DEF DrainStarts, InboxStarts, AddTurn, TypeOK, TaskType
  <2> QED BY <1>7, <1>10, <2>1 DEF DrainStarts, InboxStarts
<1>11. ASSUME ResumeStarts PROVE ActiveInv' /\ Unanswered'
  <2>1. pc'[rows + 1] = "prep"
    BY <1>8, <1>11 DEF ResumeStarts, AddTurn, Goto, TypeOK, TaskType
  <2> QED BY <1>7, <1>11, <2>1 DEF ResumeStarts
<1>12. ASSUME NEW t \in Turn, Dispatch(t) PROVE ActiveInv' /\ Unanswered'
  <2>1. AwayStays BY <1>1, <1>12, DispatchStep
  <2>2. NewestWorks => NewestWorks'
    BY <1>12 DEF NewestWorks, Dispatch, Working
  <2> QED BY <1>12, <2>1, <2>2, ActiveKept DEF Dispatch
<1>13. ASSUME NEW t \in Turn, DrainPop(t) \/ DrainQueued(t) \/ InboxQueued(t)
                                \/ InboxClaim(t)
       PROVE  ActiveInv' /\ Unanswered'
  <2>1. AwayStays BY <1>1, <1>13, DrainPopStep, DrainQueuedStep, InboxStep
  <2>2. NewestWorks => NewestWorks'
    BY <1>13 DEF NewestWorks, Working, DrainPop, DrainQueued, InboxQueued,
       InboxClaim, Goto, TypeOK, TaskType
  <2>3. UNCHANGED <<rows, resp, status, phase, budget>>
    BY <1>13 DEF DrainPop, DrainQueued, InboxQueued, InboxClaim
  <2> QED BY <2>1, <2>2, <2>3, ActiveKept
<1>14. ASSUME NEW t \in Turn, PrepareFails(t) \/ DrainFails(t) \/ InboxFails(t)
       PROVE  ActiveInv' /\ Unanswered'
  <2>1. UNCHANGED <<rows, resp>> /\ budget'.fault # MaxFaults
    BY <1>14, BoundsAssumption
       DEF PrepareFails, DrainFails, InboxFails, PlaceInv, Spent, TypeOK,
           BudgetType
  <2> QED BY <2>1 DEF ActiveInv, Unanswered
<1>15. ASSUME Crash PROVE ActiveInv' /\ Unanswered'
  BY <1>15 DEF Crash, ActiveInv, Unanswered
<1>16. ~(StopBegin \/ Stopping)
  BY DEF NoStops, NoStop, StopBegin, Stopping, StopCancel, StopCheck, StopWrite,
     TypeOK, BudgetType
<1>17. ASSUME \/ \E m \in Clients : ClientRead(m) \/ ClientRefused(m)
              \/ \E m \in Results : ResultSeesIdle(m)
              \/ \E t \in Turn :
                   \/ TaskStart(t) \/ Guard(t) \/ EagerPersist(t)
                   \/ RunnerReturns(t) \/ TurnFails(t) \/ TurnFailsUnrecorded(t)
                   \/ PersistSkipped(t) \/ PersistCheck(t) \/ Persist(t)
                   \/ PersistFails(t) \/ Notify(t) \/ Unmark(t) \/ DrainRead(t)
                   \/ InboxEmpty(t)
              \/ Restart \/ ResumeClaim \/ Sweep \/ UNCHANGED vars
       PROVE  ActiveInv' /\ Unanswered'
  <2>1. AwayStays BY <1>2, <1>17, CalmActions
  <2> QED BY <1>17, <2>1, ActiveCalm
<1> QED
  BY <1>4, <1>5, <1>6, <1>9, <1>10, <1>11, <1>12, <1>13, <1>14, <1>15, <1>16,
     <1>17
     DEF Next, ClientSend, RunTask, DrainPending, DrainInbox, Fault, Resume

\* An ACTIVE session has a turn that is being worked on, or a message of a peer
\* on its way to one: send_message, the drains, the deliveries, the recovery of
\* a restarted process and the sweep leave no session open with nobody at work.
\* Without stop_session: one that clears the queue takes the peer's message
\* away and leaves the session that it had reopened ACTIVE.
THEOREM ActiveSessionHasTurn == MaxStops = 0 => (Spec => []ActiveHasTurn)
<1> SUFFICES ASSUME MaxStops = 0 PROVE Spec => []ActiveHasTurn OBVIOUS
<1> DEFINE Inv == TypeOK /\ PlaceInv /\ NoStops /\ ActiveInv /\ Unanswered
<1>1. Init => Inv
  <2> SUFFICES ASSUME Init PROVE Inv OBVIOUS
  <2>1. NoStops /\ ActiveInv /\ Unanswered
    BY DEF Init, NoStops, ActiveInv, Unanswered
  <2> QED BY <2>1, TypeInit, PlaceInit
<1>2. Inv /\ [Next]_vars => Inv'
  BY TypeStep, PlaceStep, NoStopsStep, ActiveStep
<1>3. Inv => ActiveHasTurn
  <2> SUFFICES ASSUME Inv, phase = "up", status = "ACTIVE", rows > 0,
                      budget.fault = MaxFaults
               PROVE  PeerWaits \/ \E t \in Turn : pc[t] \in Working
    BY DEF ActiveHasTurn
  <2>1. CASE NewestWorks BY <2>1 DEF NewestWorks
  <2>2. ASSUME NEW m \in Peers, Away(m) PROVE PeerWaits
    <3>1. \E p \in Places(m) : p[1] # "row"
      <4>1. CASE Queued(m)
        <5>1. PICK i \in DOMAIN pending : m \in pending[i]
          BY <4>1 DEF Queued, In
        <5>2. <<"queue", i>> \in Places(m) BY <5>1, PlacesAre
        <5> QED BY <5>2
      <4>2. CASE Boxed(m)
        <5>1. PICK i \in DOMAIN inbox : inbox[i] = m BY <4>2 DEF Boxed, Has
        <5>2. <<"inbox", i>> \in Places(m) BY <5>1, PlacesAre
        <5> QED BY <5>2
      <4>3. ASSUME NEW t \in Turn, Handed(m, t)
            PROVE  \E p \in Places(m) : p[1] # "row"
        <5>1. <<"drain", t>> \in Places(m) BY <4>3, PlacesAre
        <5> QED BY <5>1
      <4> QED BY <2>2, <4>1, <4>2, <4>3 DEF Away
    <3> QED BY <3>1 DEF PeerWaits
  <2> QED BY <2>1, <2>2 DEF ActiveInv
<1> QED BY <1>1, <1>2, <1>3, PTL DEF Spec

-----------------------------------------------------------------------------
(* SessionTurns implements SessionLog                                      *)

\* stop_session has captured a turn that there is.
Named == stop.pc # "idle" => stop.turn \in 1..rows

LogInv == TypeOK /\ PlaceInv /\ Named

\* What a message's column says in the terms of the log.
LEMMA FateIs ==
  ASSUME TypeOK, NEW m \in Msg
  PROVE  /\ Fate(m) = "open" <=> OnItsWay(m)
         /\ Fate(m) = "accepted" <=> sent[m] = "accepted"
         /\ ~Over(m) <=> Fate(m) \in {"open", "accepted"}
BY DEF TypeOK, SentType, Status, Fate, OnItsWay, Over

\* A message that waits somewhere is in no turn, and its sender has not been
\* told otherwise, as long as no write has failed.
LEMMA WaitingIsUntold ==
  ASSUME TypeOK, PlaceInv, budget.fault = MaxFaults, NEW m \in Msg,
         OnItsWay(m) \/ Queued(m) \/ \E t \in Turn : Handed(m, t)
  PROVE  ~Over(m) /\ \A t \in Turn : m \notin body[t]
<1>1. CASE OnItsWay(m)
  BY <1>1 DEF PlaceInv, Placed, OnItsWay, Over, Nowhere, Written, Status
<1>2. CASE ~OnItsWay(m)
  <2>1. ~Nowhere(m) BY <1>2 DEF Nowhere
  <2>2. sent[m] = "accepted" /\ ~Over(m)
    BY <1>2, <2>1 DEF PlaceInv, Placed, OnItsWay, Over, TypeOK, SentType
  <2>3. Single(m) BY <2>2 DEF PlaceInv, Placed
  <2> QED BY <1>2, <2>2, <2>3 DEF Single, Written
<1> QED BY <1>1, <1>2

\* Steps that the log does not show.
LEMMA LogStill ==
  ASSUME UNCHANGED <<rows, body, resp>>, budget'.fault = budget.fault,
         \A m \in Msg : Fate(m)' = Fate(m)
  PROVE  UNCHANGED Log!vars
BY DEF Log!vars

\* A write fails.
LEMMA LogSpoilt ==
  ASSUME TypeOK, PlaceInv, UNCHANGED <<rows, body, resp, sent>>,
         budget' = [budget EXCEPT !.fault = @ - 1]
  PROVE  Log!Next
<1>1. budget'.fault < MaxFaults
  BY BoundsAssumption DEF TypeOK, BudgetType, PlaceInv, Spent
<1>2. [m \in Msg |-> Fate(m)]' = [m \in Msg |-> Fate(m)] BY DEF Fate
<1>3. Log!Spoil BY <1>1, <1>2 DEF Log!Spoil
<1> QED BY <1>3 DEF Log!Next

\* A new message is accepted.
LEMMA LogAccepted ==
  ASSUME TypeOK, NEW m \in Msg, OnItsWay(m),
         sent' = [sent EXCEPT ![m] = "accepted"],
         UNCHANGED <<rows, body, resp, budget>>
  PROVE  Log!Next
<1>1. Fate(m) = "open" BY FateIs
<1>2. \A x \in Msg : Fate(x)' = IF x = m THEN "accepted" ELSE Fate(x)
  BY DEF TypeOK, SentType, Fate
<1>3. Log!Accept(m) BY <1>1, <1>2 DEF Log!Accept
<1> QED BY <1>3 DEF Log!Next

\* A row is written.
LEMMA LogBegun ==
  ASSUME TypeOK, NEW who, NEW by, NEW messages \in SUBSET Msg, NEW known,
         AddTurn(who, by, messages, known), UNCHANGED budget,
         budget.fault = MaxFaults =>
           \A m \in messages : ~Over(m) /\ \A t \in Turn : m \notin body[t],
         budget.fault <= MaxFaults,
         \A m \in Msg : sent'[m] = IF m \in messages /\ OnItsWay(m) THEN "accepted"
                                                                  ELSE sent[m]
  PROVE  Log!Next
<1>1. \A m \in Msg : Fate(m)' = IF m \in messages /\ Fate(m) = "open" THEN "accepted"
                                                                     ELSE Fate(m)
  <2> SUFFICES ASSUME NEW m \in Msg
               PROVE  Fate(m)' = IF m \in messages /\ Fate(m) = "open" THEN "accepted"
                                                                      ELSE Fate(m)
    OBVIOUS
  <2>1. Fate(m) = "open" <=> OnItsWay(m) BY FateIs
  <2> QED BY <2>1 DEF Fate
<1>2. ~(budget.fault < MaxFaults) =>
        \A m \in messages : Fate(m) \in {"open", "accepted"} /\ Log!Untold(m)
  <2>1. budget.fault \in Int /\ MaxFaults \in Int
    BY BoundsAssumption DEF TypeOK, BudgetType
  <2> QED BY <2>1, FateIs DEF Log!Untold, Log!Turn, Turn
<1>3. /\ rows < MaxTurns /\ rows' = rows + 1
      /\ body' = [body EXCEPT ![rows + 1] = messages]
      /\ UNCHANGED <<resp, budget>>
  BY DEF AddTurn
<1>4. Log!Begin(messages) BY <1>1, <1>2, <1>3 DEF Log!Begin
<1> QED BY <1>4 DEF Log!Next

\* An outcome is recorded.
LEMMA LogClosed ==
  ASSUME NEW t \in Turn, t <= rows, NEW row \in {"AGENT", "SYSTEM"},
         Record(t, row), UNCHANGED <<rows, body, sent, budget>>
  PROVE  Log!Next
<1>1. [m \in Msg |-> Fate(m)]' = [m \in Msg |-> Fate(m)] BY DEF Fate
<1>2. Log!Close(t, row) BY <1>1 DEF Log!Close, Record
<1>3. t \in Log!Turn BY DEF Turn, Log!Turn
<1> QED BY <1>2, <1>3 DEF Log!Next

\* Messages are refused, discarded or lost.
LEMMA LogDropped ==
  ASSUME TypeOK, TypeOK', PlaceInv, UNCHANGED <<rows, body, resp>>,
         budget'.fault = budget.fault,
         \A m \in Msg : sent'[m] # sent[m] =>
           \/ sent'[m] \in {"refused", "dropped"} /\ OnItsWay(m)
           \/ /\ sent'[m] \in {"discarded", "lost"}
              /\ OnItsWay(m) \/ Queued(m) \/ \E t \in Turn : Handed(m, t)
  PROVE  Log!Next
<1> DEFINE changed == {m \in Msg : sent'[m] # sent[m]}
           refused == {m \in changed : sent'[m] \in {"refused", "dropped"}}
           gone    == changed \ refused
<1>1. refused \in SUBSET Msg /\ gone \in SUBSET Msg OBVIOUS
<1>2. \A m \in Msg : m \notin refused /\ m \notin gone => sent'[m] = sent[m]
  OBVIOUS
<1>3. \A m \in gone : /\ sent'[m] \in {"discarded", "lost"}
                      /\ OnItsWay(m) \/ Queued(m) \/ \E t \in Turn : Handed(m, t)
  OBVIOUS
<1>4. \A m \in refused : sent'[m] \in {"refused", "dropped"} /\ OnItsWay(m)
  OBVIOUS
<1> HIDE DEF refused, gone
<1>5. \A m \in Msg : Fate(m)' = IF m \in refused THEN "refused"
                                ELSE IF m \in gone THEN "gone" ELSE Fate(m)
  BY <1>1, <1>2, <1>3, <1>4 DEF Fate
<1>6. \A m \in refused : Fate(m) = "open" BY <1>1, <1>4, FateIs
<1>7. ~(budget.fault < MaxFaults) =>
        \A m \in gone : Fate(m) \in {"open", "accepted"} /\ Log!Untold(m)
  <2> SUFFICES ASSUME ~(budget.fault < MaxFaults), NEW m \in gone
               PROVE  Fate(m) \in {"open", "accepted"} /\ Log!Untold(m)
    OBVIOUS
  <2>1. budget.fault = MaxFaults
    BY BoundsAssumption DEF TypeOK, BudgetType, PlaceInv, Spent
  <2>2. m \in Msg BY <1>1
  <2>3. ~Over(m) /\ \A t \in Turn : m \notin body[t]
    BY <1>3, <2>1, <2>2, WaitingIsUntold
  <2> QED BY <2>2, <2>3, FateIs DEF Log!Untold, Log!Turn, Turn
<1>8. Log!Drop(refused, gone) BY <1>1, <1>5, <1>6, <1>7 DEF Log!Drop
<1> QED BY <1>1, <1>8 DEF Log!Next

\* The steps of stop_session keep to the turn it has captured.
LEMMA NamedStep == LogInv /\ [Next]_vars => Named'
<1> SUFFICES ASSUME LogInv, [Next]_vars PROVE Named' OBVIOUS
<1> USE DEF LogInv, Named
<1>1. rows \in Nat /\ (rows' = rows \/ rows' = rows + 1)
  <2>1. rows \in Nat BY DEF TypeOK, DbType
  <2>2. ASSUME NEW who, NEW by, NEW messages, NEW known,
               AddTurn(who, by, messages, known)
        PROVE  rows' = rows + 1
    BY <2>2 DEF AddTurn
  <2>3. \/ rows' = rows
        \/ \E who, by, messages, known : AddTurn(who, by, messages, known)
    BY DEF Next, vars, db, redis, memory, ClientRead, ClientSend, ClientQueued,
           ClientRefused, ClientStarts, ResultQueued, ResultSeesIdle, ResultStarts,
           PeerSends, Dispatch, RunTask, TaskStart, Guard, RunnerReturns, TurnFails,
           PersistSkipped, PersistCheck, Persist, Notify, Unmark, EagerPersist,
           DrainPending, DrainPop, DrainRead, DrainQueued, DrainStarts, DrainInbox,
           InboxEmpty, InboxQueued, InboxClaim, InboxStarts, Fault, PrepareFails,
           TurnFailsUnrecorded, PersistFails, DrainFails, InboxFails, StopBegin,
           Stopping, StopCancel, StopCheck, StopWrite, Crash, Restart, Promote,
           Recover, Resume, ResumeClaim, ResumeStarts, Sweep
  <2> QED BY <2>1, <2>2, <2>3
<1>2. CASE StopBegin
  BY <1>1, <1>2 DEF StopBegin, Inflight, TypeOK, HandlerType, db
<1>3. CASE Stopping
  <2>1. stop.pc # "idle" /\ (stop' = NoStop \/ stop'.turn = stop.turn)
    BY <1>3 DEF Stopping, StopCancel, StopCheck, StopWrite, TypeOK, HandlerType
  <2> QED BY <1>1, <2>1 DEF NoStop
<1>4. CASE Crash BY <1>4 DEF Crash, NoStop
<1>5. CASE UNCHANGED stop BY <1>1, <1>5
<1>6. UNCHANGED stop \/ StopBegin \/ Stopping \/ Crash
  BY DEF Next, vars, db, redis, memory, ClientRead, ClientSend, ClientQueued,
         ClientRefused, ClientStarts, ResultQueued, ResultSeesIdle, ResultStarts,
         PeerSends, Dispatch, RunTask, TaskStart, Guard, RunnerReturns, TurnFails,
         PersistSkipped, PersistCheck, Persist, Notify, Unmark, EagerPersist,
         DrainPending, DrainPop, DrainRead, DrainQueued, DrainStarts, DrainInbox,
         InboxEmpty, InboxQueued, InboxClaim, InboxStarts, Fault, PrepareFails,
         TurnFailsUnrecorded, PersistFails, DrainFails, InboxFails, Restart,
         Promote, Recover, Resume, ResumeClaim, ResumeStarts, Sweep
<1> QED BY <1>2, <1>3, <1>4, <1>5, <1>6

\* Steps that hand messages over, or that only move a task, do not show.
LEMMA LogHidden ==
  ASSUME TypeOK,
         \/ \E m \in Clients : ClientRead(m)
         \/ \E m \in Results : ResultSeesIdle(m)
         \/ \E t \in Turn :
              \/ TaskStart(t) \/ Guard(t) \/ EagerPersist(t) \/ RunnerReturns(t)
              \/ PersistSkipped(t) \/ PersistCheck(t) \/ Notify(t) \/ Unmark(t)
              \/ Dispatch(t) \/ DrainPop(t) \/ DrainRead(t) \/ DrainQueued(t)
              \/ InboxEmpty(t) \/ InboxQueued(t) \/ InboxClaim(t)
         \/ StopCheck \/ Restart \/ ResumeClaim \/ Sweep \/ UNCHANGED vars
  PROVE  UNCHANGED Log!vars
<1>1. ASSUME NEW m \in Clients, ClientRead(m) PROVE UNCHANGED Log!vars
  <2>1. \A x \in Msg : Fate(x)' = Fate(x)
    BY <1>1 DEF ClientRead, Fate, TypeOK, SentType, DbType, Status, Msg
  <2> QED BY <1>1, <2>1, LogStill DEF ClientRead, db
<1>2. ASSUME NEW m \in Results, ResultSeesIdle(m) PROVE UNCHANGED Log!vars
  <2>1. \A x \in Msg : Fate(x)' = Fate(x)
    BY <1>2 DEF ResultSeesIdle, Fate, TypeOK, SentType, Msg
  <2> QED BY <1>2, <2>1, LogStill DEF ResultSeesIdle, db
<1>3. ASSUME UNCHANGED <<rows, body, resp, sent, budget>>
      PROVE  UNCHANGED Log!vars
  BY <1>3, LogStill DEF Fate
<1>4. ASSUME NEW t \in Turn,
             \/ TaskStart(t) \/ Guard(t) \/ EagerPersist(t) \/ RunnerReturns(t)
             \/ PersistSkipped(t) \/ PersistCheck(t) \/ Notify(t) \/ Unmark(t)
      PROVE  UNCHANGED Log!vars
  BY <1>3, <1>4 DEF TaskStart, Guard, EagerPersist, RunnerReturns, PersistSkipped,
     PersistCheck, Notify, Unmark, db, memory
<1>5. ASSUME NEW t \in Turn,
             \/ Dispatch(t) \/ DrainPop(t) \/ DrainRead(t) \/ DrainQueued(t)
             \/ InboxEmpty(t) \/ InboxQueued(t) \/ InboxClaim(t)
      PROVE  UNCHANGED Log!vars
  BY <1>3, <1>5 DEF Dispatch, DrainPop, DrainRead, DrainQueued, InboxEmpty,
     InboxQueued, InboxClaim, db
<1>6. CASE StopCheck \/ Restart \/ ResumeClaim \/ UNCHANGED vars
  BY <1>3, <1>6 DEF StopCheck, Restart, Promote, Recover, ResumeClaim, vars, db,
     memory
<1>7. CASE Sweep
  <2>1. /\ UNCHANGED <<rows, body, resp, sent>>
        /\ budget' = [budget EXCEPT !.sweep = budget.sweep - 1]
    BY <1>7 DEF Sweep, memory
  <2>2. budget'.fault = budget.fault BY <2>1 DEF TypeOK, BudgetType
  <2> QED BY <2>1, <2>2, LogStill DEF Fate
<1> QED BY <1>1, <1>2, <1>4, <1>5, <1>6, <1>7

\* Every step of the session is a step of the log or does not show in it.
LEMMA LogStep == LogInv /\ [Next]_vars => [Log!Next]_Log!vars
<1> SUFFICES ASSUME LogInv, [Next]_vars PROVE [Log!Next]_Log!vars OBVIOUS
<1> USE DEF LogInv
<1>1. TypeOK' BY TypeStep
<1>2. budget.fault <= MaxFaults BY DEF PlaceInv, Spent
<1>3. ASSUME NEW m \in Clients, ClientQueued(m) PROVE Log!Next
  <2>1. m \in Msg /\ OnItsWay(m) BY <1>3 DEF Msg, ClientQueued, OnItsWay
  <2> QED BY <1>3, <2>1, LogAccepted DEF ClientQueued, db
<1>4. ASSUME NEW m \in Peers, PeerSends(m) PROVE Log!Next
  <2>1. m \in Msg /\ OnItsWay(m) BY <1>4 DEF Msg, PeerSends, OnItsWay
  <2> QED BY <1>4, <2>1, LogAccepted DEF PeerSends
<1>5. ASSUME NEW m \in Results, ResultQueued(m) PROVE Log!Next
  <2>1. m \in Msg /\ OnItsWay(m) BY <1>5 DEF Msg, ResultQueued, OnItsWay
  <2>2. CASE Len(pending) < MaxPending
    BY <1>5, <2>1, <2>2, LogAccepted DEF ResultQueued, db
  <2>3. CASE ~(Len(pending) < MaxPending)
    <3>1. \A x \in Msg : sent'[x] # sent[x] => x = m /\ sent'[x] = "dropped"
      BY <1>5, <2>3 DEF ResultQueued, TypeOK, SentType
    <3>2. UNCHANGED <<rows, body, resp, budget>> BY <1>5 DEF ResultQueued, db
    <3> QED BY <1>1, <2>1, <3>1, <3>2, LogDropped
  <2> QED BY <2>2, <2>3
<1>6. ASSUME NEW m \in Clients, ClientRefused(m) PROVE Log!Next
  <2>1. m \in Msg /\ OnItsWay(m) BY <1>6 DEF Msg, ClientRefused, OnItsWay
  <2>2. \A x \in Msg : sent'[x] # sent[x] => x = m /\ sent'[x] = "refused"
    BY <1>6 DEF ClientRefused, TypeOK, SentType
  <2>3. UNCHANGED <<rows, body, resp, budget>> BY <1>6 DEF ClientRefused, db
  <2> QED BY <1>1, <2>1, <2>2, <2>3, LogDropped
<1>7. ASSUME NEW m \in Msg, OnItsWay(m), NEW who, NEW known,
             AddTurn(who, 0, {m}, known), sent' = [sent EXCEPT ![m] = "accepted"],
             UNCHANGED budget
      PROVE  Log!Next
  <2>1. \A x \in Msg : sent'[x] = IF x \in {m} /\ OnItsWay(x) THEN "accepted"
                                                              ELSE sent[x]
    BY <1>7 DEF TypeOK, SentType
  <2>2. budget.fault = MaxFaults =>
          \A x \in {m} : ~Over(x) /\ \A t \in Turn : x \notin body[t]
    BY <1>7, WaitingIsUntold
  <2>3. {m} \in SUBSET Msg BY <1>7
  <2> QED BY <1>2, <1>7, <2>1, <2>2, <2>3, LogBegun
<1>8. ASSUME NEW m \in Clients, ClientStarts(m) PROVE Log!Next
  <2>1. m \in Msg /\ OnItsWay(m) BY <1>8 DEF Msg, ClientStarts, OnItsWay
  <2> QED BY <1>7, <1>8, <2>1 DEF ClientStarts
<1>9. ASSUME NEW m \in Results, ResultStarts(m) PROVE Log!Next
  <2>1. m \in Msg /\ OnItsWay(m) BY <1>9 DEF Msg, ResultStarts, OnItsWay
  <2> QED BY <1>7, <1>9, <2>1 DEF ResultStarts
<1>10. ASSUME NEW t \in Turn, Handing(t), NEW who, NEW known,
              AddTurn(who, t, Merged(carry[t]), known), UNCHANGED <<sent, budget>>
       PROVE  Log!Next
  <2>1. Merged(carry[t]) \in SUBSET Msg
    BY MergedType DEF TypeOK, QueueType
  <2>2. \A m \in Merged(carry[t]) : Handed(m, t)
    BY <1>10, MergedIn DEF Handed
  <2>3. \A m \in Msg : m \in Merged(carry[t]) => ~OnItsWay(m)
    BY <2>2 DEF PlaceInv, Placed, Nowhere
  <2>4. budget.fault = MaxFaults =>
          \A m \in Merged(carry[t]) : ~Over(m) /\ \A u \in Turn : m \notin body[u]
    BY <2>1, <2>2, WaitingIsUntold
  <2>5. \A m \in Msg : sent'[m] = IF m \in Merged(carry[t]) /\ OnItsWay(m)
                                    THEN "accepted" ELSE sent[m]
    BY <1>10, <2>3
  <2> QED BY <1>2, <1>10, <2>1, <2>4, <2>5, LogBegun
<1>11. ASSUME NEW t \in Turn, DrainStarts(t) \/ InboxStarts(t) PROVE Log!Next
  BY <1>10, <1>11 DEF DrainStarts, InboxStarts, Handing
<1>12. CASE ResumeStarts
  <2>1. AddTurn("resume", 0, {}, status) /\ UNCHANGED <<sent, budget>>
    BY <1>12 DEF ResumeStarts
  <2> QED BY <1>2, <2>1, LogBegun
<1>13. ASSUME NEW t \in Turn, TurnFails(t) \/ Persist(t) PROVE Log!Next
  <2>1. t <= rows
    BY <1>13 DEF TurnFails, Persist, PlaceInv, Blank, TypeOK, DbType, Turn
  <2>2. /\ Record(t, "SYSTEM") \/ Record(t, "AGENT")
        /\ UNCHANGED <<rows, body, sent, budget>>
    BY <1>13 DEF TurnFails, Persist
  <2> QED BY <2>1, <2>2, LogClosed
<1>14. CASE StopWrite
  <2>1. /\ stop.turn \in 1..rows /\ Record(stop.turn, "SYSTEM")
        /\ UNCHANGED <<rows, body, sent, budget>>
    BY <1>14 DEF StopWrite, Named
  <2>2. stop.turn \in Turn /\ stop.turn <= rows
    BY <2>1, BoundsAssumption DEF TypeOK, DbType, Turn
  <2> QED BY <2>1, <2>2, LogClosed
<1>15. ASSUME NEW t \in Turn, Fault(t) PROVE Log!Next
  <2>1. /\ UNCHANGED <<rows, body, resp, sent>>
        /\ budget' = [budget EXCEPT !.fault = @ - 1]
    BY <1>15 DEF Fault, PrepareFails, TurnFailsUnrecorded, PersistFails, DrainFails,
       InboxFails, db
  <2> QED BY <2>1, LogSpoilt
<1>16. CASE StopBegin
  <2>1. /\ UNCHANGED <<rows, body, resp>> /\ budget'.fault = budget.fault
        /\ \A m \in Msg : sent'[m] = IF In(pending, m) THEN "discarded" ELSE sent[m]
    BY <1>16, MergedIn DEF StopBegin, Settle, db, TypeOK, BudgetType
  <2> QED BY <1>1, <2>1, LogDropped DEF Queued
<1>17. CASE StopCancel
  <2>1. /\ UNCHANGED <<rows, body, resp, budget>>
        /\ \A m \in Msg : sent'[m] = IF m \in UNION {Held(u) : u \in {stop.task} \ {0}}
                                       THEN "lost" ELSE sent[m]
    BY <1>17 DEF StopCancel, Settle
  <2>2. \A u \in {stop.task} \ {0} : u \in Turn
    BY BoundsAssumption DEF TypeOK, HandlerType, Turn
  <2>3. \A m \in Msg : sent'[m] # sent[m] =>
          sent'[m] = "lost" /\ \E t \in Turn : Handed(m, t)
    BY <2>1, <2>2, MergedIn DEF Held, Handed, Handing
  <2> QED BY <1>1, <2>1, <2>3, LogDropped
<1>18. CASE Crash
  <2>1. /\ UNCHANGED <<rows, body, resp>> /\ budget'.fault = budget.fault
        /\ \A m \in Msg : sent'[m] =
             CASE sent[m] \in Status -> "refused"
               [] m \in Merged(pending) \cup UNION {Held(t) : t \in Turn}
                    \/ sent[m] = "inject" -> "lost"
               [] m \in Results /\ sent[m] = "idle" /\ Spawned -> "lost"
               [] OTHER -> sent[m]
    BY <1>18 DEF Crash, db, TypeOK, BudgetType
  <2>2. ASSUME NEW m \in Msg, sent'[m] # sent[m]
        PROVE  \/ sent'[m] = "refused" /\ OnItsWay(m)
               \/ /\ sent'[m] = "lost"
                  /\ OnItsWay(m) \/ Queued(m) \/ \E t \in Turn : Handed(m, t)
    <3>1. m \in Merged(pending) => Queued(m) BY MergedIn DEF Queued
    <3>2. \A t \in Turn : m \in Held(t) => Handed(m, t)
      BY MergedIn DEF Held, Handed, Handing
    <3>3. CASE sent[m] \in Status BY <2>1, <3>3 DEF OnItsWay
    <3>4. CASE sent[m] \notin Status
               /\ (m \in Merged(pending) \cup UNION {Held(t) : t \in Turn}
                     \/ sent[m] = "inject")
      <4>1. sent'[m] = "lost" BY <2>1, <3>4
      <4> QED BY <3>1, <3>2, <3>4, <4>1 DEF OnItsWay
    <3>5. CASE sent[m] \notin Status
               /\ ~(m \in Merged(pending) \cup UNION {Held(t) : t \in Turn}
                      \/ sent[m] = "inject")
      BY <2>1, <2>2, <3>5 DEF OnItsWay
    <3> QED BY <3>3, <3>4, <3>5
  <2> QED BY <1>1, <2>1, <2>2, LogDropped
<1> QED
  BY <1>3, <1>4, <1>5, <1>6, <1>8, <1>9, <1>11, <1>12, <1>13, <1>14, <1>15,
     <1>16, <1>17, <1>18, LogHidden
     DEF Next, ClientSend, RunTask, DrainPending, DrainInbox, Stopping, Resume

\* The session with all its queues, drains, stops and restarts does to its
\* messages and turns only what SessionLog allows.
THEOREM LogImplemented == Spec => LogKept
<1>1. Init => LogInv
  BY TypeInit, PlaceInit DEF LogInv, Named, Init, NoStop
<1>2. LogInv /\ [Next]_vars => LogInv'
  BY TypeStep, PlaceStep, NamedStep DEF LogInv
<1>3. Init => Log!Init
  <2> SUFFICES ASSUME Init PROVE Log!Init OBVIOUS
  <2>1. \A m \in Msg : Fate(m) = "open" BY DEF Init, Fate
  <2>2. ~(budget.fault < MaxFaults) BY BoundsAssumption DEF Init
  <2> QED BY <2>1, <2>2 DEF Init, Log!Init, Log!Turn, Turn
<1>4. LogInv /\ [Next]_vars => [Log!Next]_Log!vars BY LogStep
<1> QED BY <1>1, <1>2, <1>3, <1>4, PTL DEF Spec, LogKept, Log!Spec
=============================================================================
