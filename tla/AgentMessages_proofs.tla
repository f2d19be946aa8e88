----------------------- MODULE AgentMessages_proofs -----------------------
(***************************************************************************)
(* Theorems about AgentMessages, for all messages and every bound.         *)
(***************************************************************************)
EXTENDS AgentMessages, FiniteSetTheorems, SequenceTheorems, TLAPS

-----------------------------------------------------------------------------
(* The inductive invariant                                                 *)

\* A task and the drain have a message when they work on one, and the process
\* has no tasks before its startup is over.
Attached ==
  /\ \A k \in Task : tasks[k].pc # "free" => tasks[k].msg \in NewSession
  /\ drain.pc \in {"popped", "claimed"} => drain.msg \in Inject
  /\ phase # "up" => \A k \in Task : tasks[k].pc = "free"

\* No two tasks hold the same message.
Exclusive ==
  \A j, k \in Task :
    /\ tasks[j].pc \in Holding
    /\ tasks[k].pc \in Holding
    /\ tasks[j].msg = tasks[k].msg
    => j = k

\* What the columns of a row say together: a row that can be claimed has an
\* attempt left and no session, a lease is that of the last attempt, and a
\* recorded session exists.
RowInv(m) ==
  /\ status[m] = "none" => attempts[m] = 0 /\ ~resolved[m]
  /\ status[m] = "QUEUED" => attempts[m] < MaxAttempts /\ ~resolved[m]
  /\ status[m] = "DELIVERING" => lease[m] = attempts[m]
  /\ status[m] = "DELIVERED" => resolved[m]
  /\ status[m] = "FAILED" => attempts[m] = MaxAttempts /\ ~resolved[m]
  /\ resolved[m] => made[m] > 0
  /\ made[m] <= attempts[m]

\* How far a worker is, against the row it holds.
TaskInv(k) ==
  LET m == tasks[k].msg IN
  /\ tasks[k].pc \in {"claimed", "created", "failed"} => ~resolved[m]
  /\ tasks[k].pc = "claimed" => made[m] < attempts[m]
  /\ tasks[k].pc = "created" => made[m] > 0
  /\ tasks[k].pc = "recorded" => resolved[m]

DrainInv ==
  drain.pc = "claimed" =>
    ~resolved[drain.msg] /\ made[drain.msg] < attempts[drain.msg]

HeldInv  == LeaseHeld /\ Exclusive
RowsInv  == \A m \in Msg : RowInv(m)
TasksInv == \A k \in Task : TaskInv(k)
StageInv == DrainInv /\ TasksInv

Inv == TypeOK /\ Attached /\ HeldInv /\ RowsInv /\ StageInv /\ QueuedIsReachable

-----------------------------------------------------------------------------
(* Lemmas on the helpers                                                   *)

\* A claim keeps the types of the rows; the attempt it makes is a legal one.
LEMMA ClaimRowType ==
  ASSUME RowsType, NEW m \in Msg, ClaimRow(m)
  PROVE  RowsType' /\ attempts[m] + 1 \in 0..MaxAttempts
<1> USE BoundsAssumption
<1>1. attempts[m] + 1 \in 0..MaxAttempts
  BY DEF RowsType, ClaimRow, Claimable
<1>2. status' \in [Msg -> MessageStatus]
  BY DEF RowsType, ClaimRow, MessageStatus
<1>3. attempts' \in [Msg -> 0..MaxAttempts]
  BY <1>1 DEF RowsType, ClaimRow
<1>4. lease' \in [Msg -> 0..MaxAttempts]
  BY <1>1 DEF RowsType, ClaimRow
<1> QED BY <1>1, <1>2, <1>3, <1>4 DEF RowsType, ClaimRow

\* A released message goes to a status of the table.
LEMMA RetryType == ASSUME NEW m \in Msg PROVE Retry(m) \in MessageStatus
BY DEF Retry, MessageStatus

\* A push keeps each message in the list of its kind.
LEMMA PushType ==
  ASSUME ListsType, NEW m \in Msg, Push(m)
  PROVE  ListsType'
<1>1. m \in NewSession \/ m \in Inject BY DEF Msg
<1>2. dispatch' \in Seq(NewSession)
  <2>1. CASE m \in NewSession BY <2>1 DEF ListsType, Push
  <2>2. CASE m \notin NewSession BY <2>2 DEF ListsType, Push
  <2> QED BY <2>1, <2>2
<1>3. inbox' \in Seq(Inject)
  <2>1. CASE m \in Inject BY <2>1 DEF ListsType, Push
  <2>2. CASE m \notin Inject BY <2>2 DEF ListsType, Push
  <2> QED BY <2>1, <2>2
<1> QED BY <1>2, <1>3 DEF ListsType

\* Counting a session or an injection keeps the count a number.
LEMMA MadeType ==
  ASSUME NEW f \in [Msg -> Nat], NEW n \in Nat, NEW m \in Msg
  PROVE  [f EXCEPT ![m] = @ + n] \in [Msg -> Nat]
OBVIOUS

\* The sequence of a set of messages has these messages and no other.
LEMMA SetToSeqType ==
  ASSUME NEW S, IsFiniteSet(S)
  PROVE  /\ SetToSeq(S) \in Seq(S)
         /\ ToSet(SetToSeq(S)) = S
<1> DEFINE n == Cardinality(S)
           f == SetToSeq(S)
<1>1. n \in Nat /\ ExistsBijection(1..n, S) BY FS_CardinalityType
<1>2. \E g \in [1..n -> S] : IsInjective(g)
  BY <1>1 DEF ExistsBijection, Bijection, Injection, IsInjective
<1>3. f \in [1..n -> S] /\ IsInjective(f)
  BY <1>2 DEF SetToSeq
<1>4. f \in Seq(S) /\ DOMAIN f = 1..n BY <1>1, <1>3
<1>5. IsFiniteSet(1..n) /\ Cardinality(1..n) = n
  BY <1>1, FS_Interval, SMT
<1>6. f \in Surjection(1..n, S)
  BY <1>3, <1>5, FS_Injection DEF Injection
<1>7. ToSet(f) = S
  BY <1>3, <1>4, <1>6 DEF ToSet, Surjection
<1> QED BY <1>4, <1>7

\* What a list holds after a push, a pop and a batch of pushes.
LEMMA ToSetFacts ==
  ASSUME NEW S, NEW q \in Seq(S), NEW r \in Seq(S), NEW x \in S
  PROVE  /\ ToSet(Append(q, x)) = ToSet(q) \cup {x}
         /\ ToSet(q \o r) = ToSet(q) \cup ToSet(r)
         /\ q # <<>> => ToSet(q) = {Head(q)} \cup ToSet(Tail(q))
<1>1. ToSet(Append(q, x)) = ToSet(q) \cup {x}
  <2>1. Len(Append(q, x)) = Len(q) + 1 /\ Append(q, x)[Len(q) + 1] = x
    OBVIOUS
  <2>2. \A i \in 1..Len(q) : Append(q, x)[i] = q[i]
    OBVIOUS
  <2> QED BY <2>1, <2>2 DEF ToSet
<1>2. ToSet(q \o r) = ToSet(q) \cup ToSet(r)
  <2>1. Len(q \o r) = Len(q) + Len(r)
    OBVIOUS
  <2>2. \A i \in 1..Len(q) : (q \o r)[i] = q[i]
    OBVIOUS
  <2>3. \A i \in 1..Len(r) : (q \o r)[Len(q) + i] = r[i]
    OBVIOUS
  <2>4. ToSet(q \o r) \subseteq ToSet(q) \cup ToSet(r)
    <3> SUFFICES ASSUME NEW i \in 1..Len(q \o r)
                 PROVE  (q \o r)[i] \in ToSet(q) \cup ToSet(r)
      BY DEF ToSet
    <3>1. CASE i <= Len(q) BY <3>1, <2>2 DEF ToSet
    <3>2. CASE i > Len(q)
      <4>1. i - Len(q) \in 1..Len(r) BY <3>2, <2>1
      <4>2. (q \o r)[i] = r[i - Len(q)] BY <3>2, <4>1, <2>3
      <4> QED BY <4>1, <4>2 DEF ToSet
    <3> QED BY <3>1, <3>2
  <2>5. ToSet(q) \subseteq ToSet(q \o r)
    BY <2>1, <2>2 DEF ToSet
  <2>6. ToSet(r) \subseteq ToSet(q \o r)
    <3> SUFFICES ASSUME NEW i \in 1..Len(r)
                 PROVE  r[i] \in ToSet(q \o r)
      BY DEF ToSet
    <3>1. Len(q) + i \in DOMAIN (q \o r) BY <2>1
    <3>2. (q \o r)[Len(q) + i] = r[i] BY <2>3
    <3> QED BY <3>1, <3>2 DEF ToSet
  <2> QED BY <2>4, <2>5, <2>6
<1>3. q # <<>> => ToSet(q) = {Head(q)} \cup ToSet(Tail(q))
  <2> SUFFICES ASSUME q # <<>>
               PROVE  ToSet(q) = {Head(q)} \cup ToSet(Tail(q))
    OBVIOUS
  <2>1. Len(q) \in Nat \ {0} /\ Head(q) = q[1] /\ Len(Tail(q)) = Len(q) - 1
    OBVIOUS
  <2>2. \A i \in 1..(Len(q) - 1) : Tail(q)[i] = q[i + 1]
    OBVIOUS
  <2>3. ToSet(q) \subseteq {Head(q)} \cup ToSet(Tail(q))
    <3> SUFFICES ASSUME NEW i \in 1..Len(q)
                 PROVE  q[i] \in {Head(q)} \cup ToSet(Tail(q))
      BY DEF ToSet
    <3>1. CASE i = 1 BY <3>1, <2>1
    <3>2. CASE i > 1
      <4>1. i - 1 \in 1..(Len(q) - 1) BY <3>2
      <4>2. q[i] = Tail(q)[i - 1] BY <4>1, <2>2
      <4>3. DOMAIN Tail(q) = 1..(Len(q) - 1) BY <2>1
      <4> QED BY <4>1, <4>2, <4>3 DEF ToSet
    <3> QED BY <3>1, <3>2
  <2>4. {Head(q)} \cup ToSet(Tail(q)) \subseteq ToSet(q)
    <3>1. Head(q) \in ToSet(q) BY <2>1 DEF ToSet
    <3>2. ASSUME NEW i \in 1..(Len(q) - 1) PROVE Tail(q)[i] \in ToSet(q)
      BY <2>1, <2>2, <3>2 DEF ToSet
    <3>3. DOMAIN Tail(q) = 1..(Len(q) - 1) BY <2>1
    <3> QED BY <3>1, <3>2, <3>3 DEF ToSet
  <2> QED BY <2>3, <2>4
<1> QED BY <1>1, <1>2, <1>3

\* Every step keeps the types, and what task and drain are attached to.
LEMMA TypeStep == TypeOK /\ Attached /\ [Next]_vars => TypeOK' /\ Attached'
<1> SUFFICES ASSUME TypeOK, Attached, [Next]_vars
             PROVE  TypeOK' /\ Attached'
  OBVIOUS
<1> USE BoundsAssumption, KindsAssumption DEF TypeOK, Msg, Task, rows, lists
<1>task. ASSUME NEW k \in Task, tasks[k].pc # "free"
         PROVE  tasks[k].msg \in NewSession /\ tasks[k].msg \in Msg
  BY <1>task DEF Attached
<1>drain. drain.pc \in {"popped", "claimed"} =>
            drain.msg \in Inject /\ drain.msg \in Msg
  BY DEF Attached
<1>1. ASSUME NEW m \in Msg, SendRow(m)
      PROVE  /\ RowsType' /\ ListsType' /\ WorkersType'
             /\ HistoryType' /\ Attached'
  <2>1. RowsType'
    BY <1>1 DEF RowsType, MessageStatus, SendRow
  <2>2. WorkersType'
    BY <1>1 DEF WorkersType, TaskPC, DrainPC, Holding, SendRow
  <2>3. ListsType' /\ HistoryType' /\ Attached'
    BY <1>1 DEF ListsType, HistoryType, Attached, SendRow
  <2> QED BY <2>1, <2>2, <2>3
<1>2. ASSUME NEW m \in Msg, SendPush(m)
      PROVE  /\ RowsType' /\ ListsType' /\ WorkersType'
             /\ HistoryType' /\ Attached'
  <2>1. ListsType'
    BY <1>2 DEF ListsType, SendPush, Push
  <2>2. WorkersType'
    BY <1>2 DEF WorkersType, TaskPC, DrainPC, Holding, SendPush, Push
  <2>3. RowsType' /\ HistoryType' /\ Attached'
    BY <1>2 DEF RowsType, MessageStatus, HistoryType, Attached, SendPush, Push
  <2> QED BY <2>1, <2>2, <2>3
<1>3. ASSUME NEW m \in Msg, SendPushFails(m)
      PROVE  /\ RowsType' /\ ListsType' /\ WorkersType'
             /\ HistoryType' /\ Attached'
  <2>1. WorkersType'
    BY <1>3 DEF WorkersType, TaskPC, DrainPC, Holding, SendPushFails, Fault
  <2>2. HistoryType'
    BY <1>3 DEF HistoryType, SendPushFails, Fault
  <2>3. RowsType' /\ ListsType' /\ Attached'
    BY <1>3 DEF RowsType, MessageStatus, ListsType, Attached, SendPushFails,
       Fault
  <2> QED BY <2>1, <2>2, <2>3
<1>4. ASSUME NEW k \in Task, Listen(k)
      PROVE  /\ RowsType' /\ ListsType' /\ WorkersType'
             /\ HistoryType' /\ Attached'
  <2>1. ListsType'
    BY <1>4 DEF ListsType, Listen, Free, NoMsg
  <2>2. WorkersType'
    <3>1. Head(dispatch) \in NewSession
      BY <1>4 DEF Listen, ListsType
    <3> QED BY <1>4, <3>1 DEF WorkersType, TaskPC, DrainPC, Holding, Listen
  <2>3. Attached'
    <3>1. Head(dispatch) \in NewSession
      BY <1>4 DEF Listen, ListsType
    <3> QED BY <1>4, <3>1 DEF Attached, WorkersType, Listen, Free
  <2>4. RowsType' /\ HistoryType'
    BY <1>4 DEF RowsType, MessageStatus, HistoryType, Listen, Free, NoMsg
  <2> QED BY <2>1, <2>2, <2>3, <2>4
<1>5. ASSUME NEW k \in Task, Claim(k)
      PROVE  /\ RowsType' /\ ListsType' /\ WorkersType'
             /\ HistoryType' /\ Attached'
  <2>1. RowsType'
    BY <1>5, <1>task, ClaimRowType DEF Claim
  <2>2. WorkersType'
    <3>1. attempts[tasks[k].msg] + 1 \in 0..MaxAttempts
      BY <1>5, <1>task, ClaimRowType DEF Claim
    <3> QED BY <1>5, <3>1 DEF WorkersType, TaskPC, DrainPC, Holding, Claim
  <2>3. Attached'
    BY <1>5, <1>task DEF Attached, WorkersType, Claim
  <2>4. ListsType' /\ HistoryType'
    BY <1>5 DEF ListsType, HistoryType, Claim, ClaimRow, Claimable
  <2> QED BY <2>1, <2>2, <2>3, <2>4
<1>6. ASSUME NEW k \in Task, ClaimNothing(k)
      PROVE  /\ RowsType' /\ ListsType' /\ WorkersType'
             /\ HistoryType' /\ Attached'
  <2>1. WorkersType'
    BY <1>6 DEF WorkersType, TaskPC, DrainPC, Holding, ClaimNothing,
       Claimable, Finish, Free, NoMsg
  <2>2. Attached'
    BY <1>6 DEF Attached, ClaimNothing, Claimable, Finish, Free, NoMsg
  <2>3. RowsType' /\ ListsType' /\ HistoryType'
    BY <1>6 DEF RowsType, MessageStatus, ListsType, HistoryType, ClaimNothing,
       Claimable, Finish, Free, NoMsg
  <2> QED BY <2>1, <2>2, <2>3
<1>7. ASSUME NEW k \in Task, CreateSession(k)
      PROVE  /\ RowsType' /\ ListsType' /\ WorkersType'
             /\ HistoryType' /\ Attached'
  <2>1. WorkersType'
    BY <1>7 DEF WorkersType, TaskPC, DrainPC, Holding, CreateSession, Advance
  <2>2. HistoryType'
    BY <1>7, <1>task, MadeType DEF HistoryType, CreateSession
  <2>3. Attached'
    BY <1>7 DEF Attached, CreateSession, Advance
  <2>4. RowsType' /\ ListsType'
    BY <1>7 DEF RowsType, MessageStatus, ListsType, CreateSession, Advance
  <2> QED BY <2>1, <2>2, <2>3, <2>4
<1>8. ASSUME NEW k \in Task, RecordSession(k)
      PROVE  /\ RowsType' /\ ListsType' /\ WorkersType'
             /\ HistoryType' /\ Attached'
  <2>1. RowsType'
    BY <1>8 DEF RowsType, MessageStatus, RecordSession, Owns, Advance
  <2>2. WorkersType'
    BY <1>8 DEF WorkersType, TaskPC, DrainPC, Holding, RecordSession, Owns,
       Advance
  <2>3. Attached'
    BY <1>8 DEF Attached, RecordSession, Owns, Advance
  <2>4. ListsType' /\ HistoryType'
    BY <1>8 DEF ListsType, HistoryType, RecordSession, Owns, Advance
  <2> QED BY <2>1, <2>2, <2>3, <2>4
<1>9. ASSUME NEW k \in Task, MarkDelivered(k)
      PROVE  /\ RowsType' /\ ListsType' /\ WorkersType'
             /\ HistoryType' /\ Attached'
  <2>1. RowsType'
    BY <1>9 DEF RowsType, MessageStatus, MarkDelivered, Owns, Finish, Free,
       NoMsg
  <2>2. WorkersType'
    BY <1>9 DEF WorkersType, TaskPC, DrainPC, Holding, MarkDelivered, Owns,
       Finish, Free, NoMsg
  <2>3. Attached'
    BY <1>9 DEF Attached, MarkDelivered, Owns, Finish, Free, NoMsg
  <2>4. ListsType' /\ HistoryType'
    BY <1>9 DEF ListsType, HistoryType, MarkDelivered, Owns, Finish, Free,
       NoMsg
  <2> QED BY <2>1, <2>2, <2>3, <2>4
<1>10. ASSUME NEW k \in Task, Release(k)
       PROVE  /\ RowsType' /\ ListsType' /\ WorkersType'
              /\ HistoryType' /\ Attached'
  <2>1. RowsType'
    BY <1>10, <1>task, RetryType DEF RowsType, Release
  <2>2. WorkersType'
    <3>1. /\ \/ tasks' = [tasks EXCEPT ![k].pc = "released"]
             \/ tasks' = [tasks EXCEPT ![k] = Free]
          /\ UNCHANGED <<sending, drain, phase>>
      BY <1>10 DEF Release, Advance, Finish
    <3> QED BY <3>1, SMTT(40) DEF WorkersType, TaskPC, DrainPC, Holding, Free,
       NoMsg
  <2>3. Attached'
    <3>1. \/ tasks' = [tasks EXCEPT ![k].pc = "released"]
          \/ tasks' = [tasks EXCEPT ![k] = Free]
      BY <1>10 DEF Release, Advance, Finish
    <3>2. UNCHANGED <<drain, phase>> /\ tasks[k].pc # "free"
      BY <1>10 DEF Release
    <3>3. CASE tasks' = [tasks EXCEPT ![k].pc = "released"]
      BY <3>2, <3>3, <1>task DEF Attached, WorkersType
    <3>4. CASE tasks' = [tasks EXCEPT ![k] = Free]
      BY <3>2, <3>4 DEF Attached, WorkersType, Free
    <3> QED BY <3>1, <3>3, <3>4
  <2>4. ListsType' /\ HistoryType'
    BY <1>10 DEF ListsType, HistoryType, Release, Owns, Retry, Advance,
       Finish, Free, NoMsg
  <2> QED BY <2>1, <2>2, <2>3, <2>4
<1>11. ASSUME NEW k \in Task, Requeue(k)
       PROVE  /\ RowsType' /\ ListsType' /\ WorkersType'
              /\ HistoryType' /\ Attached'
  <2>1. ListsType'
    BY <1>11 DEF ListsType, Requeue, Push, Finish, Free, NoMsg
  <2>2. WorkersType'
    BY <1>11 DEF WorkersType, TaskPC, DrainPC, Holding, Requeue, Push, Finish,
       Free, NoMsg
  <2>3. Attached'
    BY <1>11 DEF Attached, Requeue, Push, Finish, Free, NoMsg
  <2>4. RowsType' /\ HistoryType'
    BY <1>11 DEF RowsType, MessageStatus, HistoryType, Requeue, Push, Finish,
       Free, NoMsg
  <2> QED BY <2>1, <2>2, <2>3, <2>4
<1>12. ASSUME NEW k \in Task, ClaimFails(k)
       PROVE  /\ RowsType' /\ ListsType' /\ WorkersType'
              /\ HistoryType' /\ Attached'
  <2>1. WorkersType'
    BY <1>12 DEF WorkersType, TaskPC, DrainPC, Holding, ClaimFails, Fault,
       Finish, Free, NoMsg
  <2>2. HistoryType'
    BY <1>12, <1>task DEF HistoryType, ClaimFails, Fault
  <2>3. Attached'
    BY <1>12 DEF Attached, ClaimFails, Fault, Finish, Free, NoMsg
  <2>4. RowsType' /\ ListsType'
    BY <1>12 DEF RowsType, MessageStatus, ListsType, ClaimFails, Fault,
       Finish, Free, NoMsg
  <2> QED BY <2>1, <2>2, <2>3, <2>4
<1>13. ASSUME NEW k \in Task, CreateSessionFails(k)
       PROVE  /\ RowsType' /\ ListsType' /\ WorkersType'
              /\ HistoryType' /\ Attached'
  <2>1. WorkersType'
    BY <1>13 DEF WorkersType, TaskPC, DrainPC, Holding, CreateSessionFails,
       Advance
  <2>2. HistoryType'
    BY <1>13, <1>task, MadeType DEF HistoryType, CreateSessionFails
  <2>3. Attached'
    BY <1>13 DEF Attached, CreateSessionFails, Advance
  <2>4. RowsType' /\ ListsType'
    BY <1>13 DEF RowsType, MessageStatus, ListsType, CreateSessionFails,
       Advance
  <2> QED BY <2>1, <2>2, <2>3, <2>4
<1>14. ASSUME NEW k \in Task, LeftDelivering(k)
       PROVE  /\ RowsType' /\ ListsType' /\ WorkersType'
              /\ HistoryType' /\ Attached'
  <2>1. WorkersType'
    BY <1>14 DEF WorkersType, TaskPC, DrainPC, Holding, LeftDelivering, Fault,
       Finish, Free, NoMsg
  <2>2. HistoryType'
    BY <1>14 DEF HistoryType, LeftDelivering, Fault, Finish, Free, NoMsg
  <2>3. Attached'
    BY <1>14 DEF Attached, LeftDelivering, Fault, Finish, Free, NoMsg
  <2>4. RowsType' /\ ListsType'
    BY <1>14 DEF RowsType, MessageStatus, ListsType, LeftDelivering, Fault,
       Finish, Free, NoMsg
  <2> QED BY <2>1, <2>2, <2>3, <2>4
<1>15. ASSUME NEW k \in Task, ReleaseFails(k)
       PROVE  /\ RowsType' /\ ListsType' /\ WorkersType'
              /\ HistoryType' /\ Attached'
  <2>1. WorkersType'
    BY <1>15 DEF WorkersType, TaskPC, DrainPC, Holding, ReleaseFails, Fault,
       Finish, Free, NoMsg
  <2>2. HistoryType'
    BY <1>15 DEF HistoryType, ReleaseFails, Fault, Finish, Free, NoMsg
  <2>3. Attached'
    BY <1>15 DEF Attached, ReleaseFails, Fault, Finish, Free, NoMsg
  <2>4. RowsType' /\ ListsType'
    BY <1>15 DEF RowsType, MessageStatus, ListsType, ReleaseFails, Fault,
       Finish, Free, NoMsg
  <2> QED BY <2>1, <2>2, <2>3, <2>4
<1>16. ASSUME NEW k \in Task, RequeueFails(k)
       PROVE  /\ RowsType' /\ ListsType' /\ WorkersType'
              /\ HistoryType' /\ Attached'
  <2>1. WorkersType'
    BY <1>16 DEF WorkersType, TaskPC, DrainPC, Holding, RequeueFails, Fault,
       Finish, Free, NoMsg
  <2>2. HistoryType'
    BY <1>16, <1>task DEF HistoryType, RequeueFails, Fault
  <2>3. Attached'
    BY <1>16 DEF Attached, RequeueFails, Fault, Finish, Free, NoMsg
  <2>4. RowsType' /\ ListsType'
    BY <1>16 DEF RowsType, MessageStatus, ListsType, RequeueFails, Fault,
       Finish, Free, NoMsg
  <2> QED BY <2>1, <2>2, <2>3, <2>4
<1>17. ASSUME DrainStart
       PROVE  /\ RowsType' /\ ListsType' /\ WorkersType'
              /\ HistoryType' /\ Attached'
  <2>1. WorkersType'
    BY <1>17 DEF WorkersType, TaskPC, DrainPC, Holding, DrainStart, Off, NoMsg
  <2>2. Attached'
    BY <1>17 DEF Attached, DrainStart, Off, NoMsg
  <2>3. RowsType' /\ ListsType' /\ HistoryType'
    BY <1>17 DEF RowsType, MessageStatus, ListsType, HistoryType, DrainStart,
       Off, NoMsg
  <2> QED BY <2>1, <2>2, <2>3
<1>18. ASSUME DrainPop
       PROVE  /\ RowsType' /\ ListsType' /\ WorkersType'
              /\ HistoryType' /\ Attached'
  <2>1. ListsType'
    BY <1>18 DEF ListsType, DrainPop
  <2>2. WorkersType'
    <3>1. Head(inbox) \in Inject
      BY <1>18 DEF DrainPop, ListsType
    <3> QED BY <1>18, <3>1 DEF WorkersType, TaskPC, DrainPC, Holding, DrainPop
  <2>3. Attached'
    <3>1. Head(inbox) \in Inject
      BY <1>18 DEF DrainPop, ListsType
    <3> QED BY <1>18, <3>1 DEF Attached, DrainPop
  <2>4. RowsType' /\ HistoryType'
    BY <1>18 DEF RowsType, MessageStatus, HistoryType, DrainPop
  <2> QED BY <2>1, <2>2, <2>3, <2>4
<1>19. ASSUME DrainEmpty
       PROVE  /\ RowsType' /\ ListsType' /\ WorkersType'
              /\ HistoryType' /\ Attached'
  <2>1. WorkersType'
    BY <1>19 DEF WorkersType, TaskPC, DrainPC, Holding, DrainEmpty, Off, NoMsg
  <2>2. Attached'
    BY <1>19 DEF Attached, DrainEmpty, Off, NoMsg
  <2>3. RowsType' /\ ListsType' /\ HistoryType'
    BY <1>19 DEF RowsType, MessageStatus, ListsType, HistoryType, DrainEmpty,
       Off, NoMsg
  <2> QED BY <2>1, <2>2, <2>3
<1>20. ASSUME DrainClaim
       PROVE  /\ RowsType' /\ ListsType' /\ WorkersType'
              /\ HistoryType' /\ Attached'
  <2>1. RowsType'
    BY <1>20, <1>drain, ClaimRowType DEF DrainClaim
  <2>2. WorkersType'
    <3>1. attempts[drain.msg] + 1 \in 0..MaxAttempts
      BY <1>20, <1>drain, ClaimRowType DEF DrainClaim
    <3> QED BY <1>20, <3>1 DEF WorkersType, TaskPC, DrainPC, Holding,
       DrainClaim
  <2>3. Attached'
    BY <1>20 DEF Attached, DrainClaim, ClaimRow, Claimable
  <2>4. ListsType' /\ HistoryType'
    BY <1>20 DEF ListsType, HistoryType, DrainClaim, ClaimRow, Claimable
  <2> QED BY <2>1, <2>2, <2>3, <2>4
<1>21. ASSUME DrainClaimNothing
       PROVE  /\ RowsType' /\ ListsType' /\ WorkersType'
              /\ HistoryType' /\ Attached'
  <2>1. WorkersType'
    BY <1>21 DEF WorkersType, TaskPC, DrainPC, Holding, DrainClaimNothing,
       Claimable, Off, NoMsg
  <2>2. Attached'
    BY <1>21 DEF Attached, DrainClaimNothing, Claimable, Off, NoMsg
  <2>3. RowsType' /\ ListsType' /\ HistoryType'
    BY <1>21 DEF RowsType, MessageStatus, ListsType, HistoryType,
       DrainClaimNothing, Claimable, Off, NoMsg
  <2> QED BY <2>1, <2>2, <2>3
<1>22. ASSUME DrainDelivers
       PROVE  /\ RowsType' /\ ListsType' /\ WorkersType'
              /\ HistoryType' /\ Attached'
  <2>1. RowsType'
    BY <1>22 DEF RowsType, MessageStatus, DrainDelivers, Off, NoMsg
  <2>2. WorkersType'
    BY <1>22 DEF WorkersType, TaskPC, DrainPC, Holding, DrainDelivers, Off,
       NoMsg
  <2>3. HistoryType'
    BY <1>22, <1>drain, MadeType DEF HistoryType, DrainDelivers
  <2>4. Attached'
    BY <1>22 DEF Attached, DrainDelivers, Off, NoMsg
  <2>5. ListsType'
    BY <1>22 DEF ListsType, DrainDelivers, Off, NoMsg
  <2> QED BY <2>1, <2>2, <2>3, <2>4, <2>5
<1>23. ASSUME DrainClaimFails
       PROVE  /\ RowsType' /\ ListsType' /\ WorkersType'
              /\ HistoryType' /\ Attached'
  <2>1. ListsType'
    BY <1>23, <1>drain, PushType DEF ListsType, DrainClaimFails
  <2>2. WorkersType'
    BY <1>23 DEF WorkersType, TaskPC, DrainPC, Holding, DrainClaimFails,
       Fault, Push, Off, NoMsg
  <2>3. HistoryType'
    BY <1>23, <1>drain DEF HistoryType, DrainClaimFails, Fault
  <2>4. Attached'
    BY <1>23 DEF Attached, DrainClaimFails, Fault, Push, Off, NoMsg
  <2>5. RowsType'
    BY <1>23 DEF RowsType, MessageStatus, DrainClaimFails, Fault, Push, Off,
       NoMsg
  <2> QED BY <2>1, <2>2, <2>3, <2>4, <2>5
<1>24. ASSUME DrainFails
       PROVE  /\ RowsType' /\ ListsType' /\ WorkersType'
              /\ HistoryType' /\ Attached'
  <2>1. RowsType'
    BY <1>24, <1>drain, RetryType DEF RowsType, DrainFails, DrainReset
  <2>2. ListsType'
    BY <1>24, <1>drain, PushType DEF ListsType, DrainFails, DrainReset
  <2>3. WorkersType'
    BY <1>24 DEF WorkersType, TaskPC, DrainPC, Holding, DrainFails,
       DrainReset, Retry, Off, NoMsg, Push
  <2>4. HistoryType'
    BY <1>24, <1>drain, MadeType DEF HistoryType, DrainFails, DrainReset
  <2>5. Attached'
    BY <1>24 DEF Attached, DrainFails, DrainReset, Retry, Off, NoMsg, Push
  <2> QED BY <2>1, <2>2, <2>3, <2>4, <2>5
<1>25. ASSUME DrainPushFails
       PROVE  /\ RowsType' /\ ListsType' /\ WorkersType'
              /\ HistoryType' /\ Attached'
  <2>1. RowsType'
    BY <1>25, <1>drain, RetryType DEF RowsType, DrainPushFails, DrainReset
  <2>2. WorkersType'
    <3>1. UNCHANGED <<sending, tasks, phase>> /\ drain' = [Off EXCEPT !.pc = "popping"]
      BY <1>25 DEF DrainPushFails, DrainReset
    <3> QED BY <3>1 DEF WorkersType, TaskPC, DrainPC, Holding, Off, NoMsg
  <2>3. HistoryType'
    <3>1. made' \in [Msg -> Nat]
      BY <1>25, <1>drain, MadeType DEF HistoryType, DrainPushFails, DrainReset
    <3> QED BY <1>25, <1>drain, <3>1 DEF HistoryType, DrainPushFails,
       DrainReset, Fault
  <2>4. Attached'
    BY <1>25 DEF Attached, DrainPushFails, DrainReset, Retry, Off, NoMsg,
       Fault
  <2>5. ListsType'
    BY <1>25 DEF ListsType, DrainPushFails, DrainReset, Retry, Off, NoMsg,
       Fault
  <2> QED BY <2>1, <2>2, <2>3, <2>4, <2>5
<1>26. ASSUME DrainResetFails
       PROVE  /\ RowsType' /\ ListsType' /\ WorkersType'
              /\ HistoryType' /\ Attached'
  <2>1. WorkersType'
    BY <1>26 DEF WorkersType, TaskPC, DrainPC, Holding, DrainResetFails,
       Fault, Off, NoMsg
  <2>2. HistoryType'
    <3>1. made' \in [Msg -> Nat]
      BY <1>26, <1>drain, MadeType DEF HistoryType, DrainResetFails
    <3> QED BY <1>26, <3>1 DEF HistoryType, DrainResetFails, Fault
  <2>3. Attached'
    BY <1>26 DEF Attached, DrainResetFails, Fault, Off, NoMsg
  <2>4. RowsType' /\ ListsType'
    BY <1>26 DEF RowsType, MessageStatus, ListsType, DrainResetFails, Fault,
       Off, NoMsg
  <2> QED BY <2>1, <2>2, <2>3, <2>4
<1>27. ASSUME Crash
       PROVE  /\ RowsType' /\ ListsType' /\ WorkersType'
              /\ HistoryType' /\ Attached'
  <2>1. ListsType'
    <3>1. <<>> \in Seq(NewSession) /\ <<>> \in Seq(Inject) OBVIOUS
    <3> QED BY <1>27, <3>1 DEF ListsType, Crash
  <2>2. WorkersType'
    <3>1. /\ tasks' = [k \in Task |-> Free] /\ drain' = Off
          /\ sending' = {} /\ phase' = "down"
      BY <1>27 DEF Crash
    <3> QED BY <3>1, SMTT(40) DEF WorkersType, TaskPC, DrainPC, Holding, Free, NoMsg,
       Off
  <2>3. HistoryType'
    BY <1>27 DEF HistoryType, Crash, Free, NoMsg, Off
  <2>4. Attached'
    BY <1>27 DEF Attached, Crash, Free, NoMsg, Off
  <2>5. RowsType'
    BY <1>27 DEF RowsType, MessageStatus, Crash, Free, NoMsg, Off
  <2> QED BY <2>1, <2>2, <2>3, <2>4, <2>5
<1>28. ASSUME Start
       PROVE  /\ RowsType' /\ ListsType' /\ WorkersType'
              /\ HistoryType' /\ Attached'
  <2>1. WorkersType'
    BY <1>28 DEF WorkersType, TaskPC, DrainPC, Holding, Start
  <2>2. Attached'
    BY <1>28 DEF Attached, Start
  <2>3. RowsType' /\ ListsType' /\ HistoryType'
    BY <1>28 DEF RowsType, MessageStatus, ListsType, HistoryType, Start
  <2> QED BY <2>1, <2>2, <2>3
<1>29. ASSUME Finalize
       PROVE  /\ RowsType' /\ ListsType' /\ WorkersType'
              /\ HistoryType' /\ Attached'
  <2>1. RowsType'
    BY <1>29 DEF RowsType, MessageStatus, Finalize
  <2>2. WorkersType'
    BY <1>29 DEF WorkersType, TaskPC, DrainPC, Holding, Finalize
  <2>3. Attached'
    BY <1>29 DEF Attached, Finalize
  <2>4. ListsType' /\ HistoryType'
    BY <1>29 DEF ListsType, HistoryType, Finalize
  <2> QED BY <2>1, <2>2, <2>3, <2>4
<1>30. ASSUME ResetStale
       PROVE  /\ RowsType' /\ ListsType' /\ WorkersType'
              /\ HistoryType' /\ Attached'
  <2>1. RowsType'
    BY <1>30 DEF RowsType, MessageStatus, ResetStale, Retry
  <2>2. WorkersType'
    BY <1>30 DEF WorkersType, TaskPC, DrainPC, Holding, ResetStale, Retry
  <2>3. Attached'
    BY <1>30 DEF Attached, ResetStale, Retry
  <2>4. ListsType' /\ HistoryType'
    BY <1>30 DEF ListsType, HistoryType, ResetStale, Retry
  <2> QED BY <2>1, <2>2, <2>3, <2>4
<1>31. ASSUME RequeueAll
       PROVE  /\ RowsType' /\ ListsType' /\ WorkersType'
              /\ HistoryType' /\ Attached'
  <2>1. ListsType'
    <3> DEFINE queued == {m \in Msg : status[m] = "QUEUED"}
    <3>1. IsFiniteSet(queued \cap NewSession) /\ IsFiniteSet(queued \cap Inject)
      BY FS_Subset
    <3>2. /\ SetToSeq(queued \cap NewSession) \in Seq(NewSession)
          /\ SetToSeq(queued \cap Inject) \in Seq(Inject)
      BY <3>1, SetToSeqType
    <3>3. /\ dispatch' = dispatch \o SetToSeq(queued \cap NewSession)
          /\ inbox' = inbox \o SetToSeq(queued \cap Inject)
      BY <1>31 DEF RequeueAll
    <3> HIDE DEF queued
    <3> QED BY <3>2, <3>3 DEF ListsType
  <2>2. WorkersType'
    BY <1>31 DEF WorkersType, TaskPC, DrainPC, Holding, RequeueAll
  <2>3. HistoryType'
    BY <1>31 DEF HistoryType, RequeueAll
  <2>4. Attached'
    BY <1>31 DEF Attached, RequeueAll
  <2>5. RowsType'
    BY <1>31 DEF RowsType, MessageStatus, RequeueAll
  <2> QED BY <2>1, <2>2, <2>3, <2>4, <2>5
<1>32. ASSUME RecoveryFails
       PROVE  /\ RowsType' /\ ListsType' /\ WorkersType'
              /\ HistoryType' /\ Attached'
  <2>1. WorkersType'
    BY <1>32 DEF WorkersType, TaskPC, DrainPC, Holding, RecoveryFails, Fault
  <2>2. HistoryType'
    BY <1>32 DEF HistoryType, RecoveryFails, Fault
  <2>3. Attached'
    BY <1>32 DEF Attached, RecoveryFails, Fault
  <2>4. RowsType' /\ ListsType'
    BY <1>32 DEF RowsType, MessageStatus, ListsType, RecoveryFails, Fault
  <2> QED BY <2>1, <2>2, <2>3, <2>4
<1>33. ASSUME UNCHANGED vars
       PROVE  /\ RowsType' /\ ListsType' /\ WorkersType'
              /\ HistoryType' /\ Attached'
  BY <1>33 DEF RowsType, MessageStatus, ListsType, WorkersType, TaskPC,
     DrainPC, Holding, HistoryType, Attached, vars
<1>34. ASSUME DrainPopStopped
       PROVE  /\ RowsType' /\ ListsType' /\ WorkersType'
              /\ HistoryType' /\ Attached'
  <2>1. inbox # <<>> => Head(inbox) \in Inject /\ Tail(inbox) \in Seq(Inject)
    BY DEF ListsType
  <2>2. ListsType'
    BY <1>34, <2>1 DEF ListsType, DrainPopStopped
  <2>6. HistoryType'
    <3>1. dropped' \subseteq Msg
      BY <1>34, <2>1 DEF HistoryType, DrainPopStopped
    <3>2. budget' \in [crash: 0..MaxCrashes, stop: 0..MaxStops,
                       fault: 0..MaxFaults]
      BY <1>34 DEF HistoryType, DrainPopStopped, DrainEnds
    <3> QED BY <1>34, <3>1, <3>2 DEF HistoryType, DrainPopStopped
  <2>3. WorkersType'
    BY <1>34 DEF WorkersType, TaskPC, DrainPC, Holding, DrainPopStopped,
       DrainEnds, Off, NoMsg
  <2>4. Attached'
    BY <1>34 DEF Attached, DrainPopStopped, DrainEnds, Off, NoMsg
  <2>5. RowsType'
    BY <1>34 DEF RowsType, MessageStatus, DrainPopStopped
  <2> QED BY <2>2, <2>3, <2>4, <2>5, <2>6
<1>35. ASSUME DrainClaimStopped
       PROVE  /\ RowsType' /\ ListsType' /\ WorkersType'
              /\ HistoryType' /\ Attached'
  <2>1. RowsType'
    <3>1. CASE ClaimRow(drain.msg)
      BY <1>35, <1>drain, <3>1, ClaimRowType DEF DrainClaimStopped
    <3>2. CASE UNCHANGED rows
      BY <3>2 DEF RowsType, MessageStatus
    <3> QED BY <1>35, <3>1, <3>2 DEF DrainClaimStopped
  <2>2. WorkersType'
    BY <1>35 DEF WorkersType, TaskPC, DrainPC, Holding, DrainClaimStopped,
       DrainEnds, Off, NoMsg
  <2>3. Attached'
    BY <1>35 DEF Attached, DrainClaimStopped, DrainEnds, Off, NoMsg
  <2>4. ListsType' /\ HistoryType'
    <3>1. dropped' \subseteq Msg
      BY <1>35, <1>drain DEF HistoryType, DrainClaimStopped
    <3>2. budget' \in [crash: 0..MaxCrashes, stop: 0..MaxStops,
                       fault: 0..MaxFaults]
      BY <1>35 DEF HistoryType, DrainClaimStopped, DrainEnds
    <3> QED BY <1>35, <3>1, <3>2 DEF ListsType, HistoryType, DrainClaimStopped
  <2> QED BY <2>1, <2>2, <2>3, <2>4
<1>36. ASSUME DrainDeliveryStopped
       PROVE  /\ RowsType' /\ ListsType' /\ WorkersType'
              /\ HistoryType' /\ Attached'
  <2>1. RowsType'
    <3>1. CASE DrainReset
      BY <1>36, <1>drain, <3>1, RetryType DEF RowsType, DrainReset
    <3>2. CASE UNCHANGED rows
      BY <3>2 DEF RowsType, MessageStatus
    <3> QED BY <1>36, <3>1, <3>2 DEF DrainDeliveryStopped
  <2>2. UNCHANGED <<sending, tasks, phase, lists>> /\ drain' = Off
    BY <1>36 DEF DrainDeliveryStopped, DrainEnds, DrainReset
  <2>3. WorkersType'
    BY <2>2 DEF WorkersType, TaskPC, DrainPC, Holding, Off, NoMsg
  <2>4. HistoryType'
    <3>1. drain.pc = "claimed"
      BY <1>36 DEF DrainDeliveryStopped
    <3>2. PICK n \in {0, 1} : made' = [made EXCEPT ![drain.msg] = @ + n]
      BY <1>36 DEF DrainDeliveryStopped, DrainReset
    <3>3. made' \in [Msg -> Nat]
      BY <1>drain, <3>1, <3>2 DEF HistoryType
    <3>4. dropped' \subseteq Msg
      BY <1>36, <1>drain, <3>1 DEF HistoryType, DrainDeliveryStopped
    <3> QED BY <1>36, <3>3, <3>4 DEF HistoryType, DrainDeliveryStopped,
       DrainEnds
  <2>5. Attached' /\ ListsType'
    BY <2>2 DEF Attached, ListsType, Off, NoMsg
  <2> QED BY <2>1, <2>3, <2>4, <2>5
<1> QED BY <1>1, <1>2, <1>3, <1>4, <1>5, <1>6, <1>7, <1>8, <1>9, <1>10, <1>11,
   <1>12, <1>13, <1>14, <1>15, <1>16, <1>17, <1>18, <1>19, <1>20, <1>21,
   <1>22, <1>23, <1>24, <1>25, <1>26, <1>27, <1>28, <1>29, <1>30, <1>31,
   <1>32, <1>33, <1>34, <1>35, <1>36 DEF Next, TaskStep, TaskFails, DrainStep, Startup

\* No step takes a lease away from its holder, or gives it to a second one.
LEMMA HeldStep == Inv /\ [Next]_vars => HeldInv'
<1> SUFFICES ASSUME Inv, [Next]_vars PROVE LeaseHeld' /\ Exclusive'
  BY DEF HeldInv
<1> USE BoundsAssumption, KindsAssumption DEF Inv, HeldInv, TypeOK, RowsType,
   WorkersType, HistoryType, Msg, rows, lists
<1>task. ASSUME NEW k \in Task, tasks[k].pc # "free"
         PROVE  tasks[k].msg \in NewSession /\ tasks[k].msg \in Msg
  BY <1>task DEF Attached
<1>drain. drain.pc \in {"popped", "claimed"} =>
            drain.msg \in Inject /\ drain.msg \in Msg
  BY DEF Attached
<1>1. ASSUME NEW m \in Msg, SendRow(m) PROVE LeaseHeld' /\ Exclusive'
  <2>1. LeaseHeld'
    BY <1>1 DEF LeaseHeld, Holding, Owns, SendRow
  <2>2. Exclusive'
    BY <1>1 DEF Exclusive, LeaseHeld, Holding, Owns, SendRow
  <2> QED BY <2>1, <2>2
<1>2. ASSUME NEW m \in Msg, SendPush(m) PROVE LeaseHeld' /\ Exclusive'
  BY <1>2 DEF LeaseHeld, Holding, Owns, Exclusive, SendPush, Push
<1>3. ASSUME NEW m \in Msg, SendPushFails(m) PROVE LeaseHeld' /\ Exclusive'
  BY <1>3 DEF LeaseHeld, Holding, Owns, Exclusive, SendPushFails, Fault
<1>4. ASSUME NEW k \in Task, Listen(k) PROVE LeaseHeld' /\ Exclusive'
  <2>1. LeaseHeld'
    BY <1>4, <1>task DEF LeaseHeld, Holding, Owns, Listen, Free, NoMsg
  <2>2. Exclusive'
    BY <1>4, <1>task DEF Exclusive, LeaseHeld, Holding, Owns, Listen, Free,
       NoMsg
  <2> QED BY <2>1, <2>2
<1>5. ASSUME NEW k \in Task, Claim(k) PROVE LeaseHeld' /\ Exclusive'
  <2>1. LeaseHeld'
    BY <1>5, <1>task DEF LeaseHeld, Holding, Owns, Claim, ClaimRow, Claimable
  <2>2. Exclusive'
    BY <1>5, <1>task DEF Exclusive, LeaseHeld, Holding, Owns, Claim, ClaimRow,
       Claimable
  <2> QED BY <2>1, <2>2
<1>6. ASSUME NEW k \in Task, ClaimNothing(k) PROVE LeaseHeld' /\ Exclusive'
  <2>1. LeaseHeld'
    BY <1>6, <1>task DEF LeaseHeld, Holding, Owns, ClaimNothing, Claimable,
       Finish, Free, NoMsg
  <2>2. Exclusive'
    BY <1>6, <1>task DEF Exclusive, LeaseHeld, Holding, Owns, ClaimNothing,
       Claimable, Finish, Free, NoMsg
  <2> QED BY <2>1, <2>2
<1>7. ASSUME NEW k \in Task, CreateSession(k) PROVE LeaseHeld' /\ Exclusive'
  <2>1. LeaseHeld'
    BY <1>7, <1>task DEF LeaseHeld, Holding, Owns, CreateSession, Advance
  <2>2. Exclusive'
    BY <1>7, <1>task DEF Exclusive, LeaseHeld, Holding, Owns, CreateSession,
       Advance
  <2> QED BY <2>1, <2>2
<1>8. ASSUME NEW k \in Task, RecordSession(k) PROVE LeaseHeld' /\ Exclusive'
  <2>1. LeaseHeld'
    BY <1>8, <1>task DEF LeaseHeld, Holding, Owns, RecordSession, Advance
  <2>2. Exclusive'
    BY <1>8, <1>task DEF Exclusive, LeaseHeld, Holding, Owns, RecordSession,
       Advance
  <2> QED BY <2>1, <2>2
<1>9. ASSUME NEW k \in Task, MarkDelivered(k) PROVE LeaseHeld' /\ Exclusive'
  <2>1. LeaseHeld'
    <3>1. tasks[k].pc = "recorded" /\ drain' = drain
      BY <1>9 DEF MarkDelivered
    <3>2. ASSUME NEW j \in Task, tasks'[j].pc \in Holding
          PROVE  /\ tasks[j].pc \in Holding
                 /\ tasks'[j].msg = tasks[j].msg
                 /\ tasks'[j].attempt = tasks[j].attempt
                 /\ tasks[j].msg # tasks[k].msg
      BY <1>9, <3>1, <3>2 DEF MarkDelivered, Advance, Finish, Free, Holding,
         Exclusive
    <3>3. ASSUME NEW m \in Msg, m # tasks[k].msg
          PROVE  status'[m] = status[m] /\ lease'[m] = lease[m]
      BY <1>9, <3>3 DEF MarkDelivered
    <3>4. ASSUME NEW j \in Task, tasks'[j].pc \in Holding
          PROVE  tasks[j].msg \in Msg
      BY <3>2, <3>4, <1>task DEF Holding
    <3>5. drain.pc = "claimed" => drain.msg # tasks[k].msg /\ drain.msg \in Msg
      BY <3>1, <1>task, <1>drain
    <3> QED BY <3>1, <3>2, <3>3, <3>4, <3>5 DEF LeaseHeld, Owns
  <2>2. Exclusive'
    BY <1>9, <1>task DEF Exclusive, LeaseHeld, Holding, Owns, MarkDelivered,
       Finish, Free, NoMsg
  <2> QED BY <2>1, <2>2
<1>10. ASSUME NEW k \in Task, Release(k) PROVE LeaseHeld' /\ Exclusive'
  <2>1. LeaseHeld'
    <3>1. tasks[k].pc = "failed" /\ drain' = drain
      BY <1>10 DEF Release
    <3>2. ASSUME NEW j \in Task, tasks'[j].pc \in Holding
          PROVE  /\ tasks[j].pc \in Holding
                 /\ tasks'[j].msg = tasks[j].msg
                 /\ tasks'[j].attempt = tasks[j].attempt
                 /\ tasks[j].msg # tasks[k].msg
      BY <1>10, <3>1, <3>2 DEF Release, Advance, Finish, Free, Holding,
         Exclusive
    <3>3. ASSUME NEW m \in Msg, m # tasks[k].msg
          PROVE  status'[m] = status[m] /\ lease'[m] = lease[m]
      BY <1>10, <3>3 DEF Release
    <3>4. ASSUME NEW j \in Task, tasks'[j].pc \in Holding
          PROVE  tasks[j].msg \in Msg
      BY <3>2, <3>4, <1>task DEF Holding
    <3>5. drain.pc = "claimed" => drain.msg # tasks[k].msg /\ drain.msg \in Msg
      BY <3>1, <1>task, <1>drain
    <3> QED BY <3>1, <3>2, <3>3, <3>4, <3>5 DEF LeaseHeld, Owns
  <2>2. Exclusive'
    BY <1>10, <1>task DEF Exclusive, LeaseHeld, Holding, Owns, Release, Retry,
       Advance, Finish, Free, NoMsg
  <2> QED BY <2>1, <2>2
<1>11. ASSUME NEW k \in Task, Requeue(k) PROVE LeaseHeld' /\ Exclusive'
  <2>1. LeaseHeld'
    BY <1>11, <1>task DEF LeaseHeld, Holding, Owns, Requeue, Push, Finish,
       Free, NoMsg
  <2>2. Exclusive'
    BY <1>11, <1>task DEF Exclusive, LeaseHeld, Holding, Owns, Requeue, Push,
       Finish, Free, NoMsg
  <2> QED BY <2>1, <2>2
<1>12. ASSUME NEW k \in Task, ClaimFails(k) PROVE LeaseHeld' /\ Exclusive'
  <2>1. LeaseHeld'
    BY <1>12, <1>task DEF LeaseHeld, Holding, Owns, ClaimFails, Fault, Finish,
       Free, NoMsg
  <2>2. Exclusive'
    BY <1>12, <1>task DEF Exclusive, LeaseHeld, Holding, Owns, ClaimFails,
       Fault, Finish, Free, NoMsg
  <2> QED BY <2>1, <2>2
<1>13. ASSUME NEW k \in Task, CreateSessionFails(k)
       PROVE  LeaseHeld' /\ Exclusive'
  <2>1. LeaseHeld'
    BY <1>13, <1>task DEF LeaseHeld, Holding, Owns, CreateSessionFails,
       Advance
  <2>2. Exclusive'
    BY <1>13, <1>task DEF Exclusive, LeaseHeld, Holding, Owns,
       CreateSessionFails, Advance
  <2> QED BY <2>1, <2>2
<1>14. ASSUME NEW k \in Task, LeftDelivering(k) PROVE LeaseHeld' /\ Exclusive'
  <2>1. LeaseHeld'
    BY <1>14, <1>task DEF LeaseHeld, Holding, Owns, LeftDelivering, Fault,
       Finish, Free, NoMsg
  <2>2. Exclusive'
    BY <1>14, <1>task DEF Exclusive, LeaseHeld, Holding, Owns, LeftDelivering,
       Fault, Finish, Free, NoMsg
  <2> QED BY <2>1, <2>2
<1>15. ASSUME NEW k \in Task, ReleaseFails(k) PROVE LeaseHeld' /\ Exclusive'
  <2>1. LeaseHeld'
    BY <1>15, <1>task DEF LeaseHeld, Holding, Owns, ReleaseFails, Fault,
       Finish, Free, NoMsg
  <2>2. Exclusive'
    BY <1>15, <1>task DEF Exclusive, LeaseHeld, Holding, Owns, ReleaseFails,
       Fault, Finish, Free, NoMsg
  <2> QED BY <2>1, <2>2
<1>16. ASSUME NEW k \in Task, RequeueFails(k) PROVE LeaseHeld' /\ Exclusive'
  <2>1. LeaseHeld'
    BY <1>16, <1>task DEF LeaseHeld, Holding, Owns, RequeueFails, Fault,
       Finish, Free, NoMsg
  <2>2. Exclusive'
    BY <1>16, <1>task DEF Exclusive, LeaseHeld, Holding, Owns, RequeueFails,
       Fault, Finish, Free, NoMsg
  <2> QED BY <2>1, <2>2
<1>17. ASSUME DrainStart PROVE LeaseHeld' /\ Exclusive'
  <2>1. LeaseHeld'
    BY <1>17, <1>drain, <1>task DEF LeaseHeld, Holding, Owns, DrainStart, Off,
       NoMsg
  <2>2. Exclusive'
    BY <1>17, <1>drain, <1>task DEF Exclusive, LeaseHeld, Holding, Owns,
       DrainStart, Off, NoMsg
  <2> QED BY <2>1, <2>2
<1>18. ASSUME DrainPop PROVE LeaseHeld' /\ Exclusive'
  <2>1. LeaseHeld'
    BY <1>18, <1>drain, <1>task DEF LeaseHeld, Holding, Owns, DrainPop
  <2>2. Exclusive'
    BY <1>18, <1>drain, <1>task DEF Exclusive, LeaseHeld, Holding, Owns,
       DrainPop
  <2> QED BY <2>1, <2>2
<1>19. ASSUME DrainEmpty PROVE LeaseHeld' /\ Exclusive'
  <2>1. LeaseHeld'
    BY <1>19, <1>drain, <1>task DEF LeaseHeld, Holding, Owns, DrainEmpty, Off,
       NoMsg
  <2>2. Exclusive'
    BY <1>19, <1>drain, <1>task DEF Exclusive, LeaseHeld, Holding, Owns,
       DrainEmpty, Off, NoMsg
  <2> QED BY <2>1, <2>2
<1>20. ASSUME DrainClaim PROVE LeaseHeld' /\ Exclusive'
  <2>1. LeaseHeld'
    BY <1>20, <1>drain, <1>task DEF LeaseHeld, Holding, Owns, DrainClaim,
       ClaimRow, Claimable
  <2>2. Exclusive'
    BY <1>20, <1>drain, <1>task DEF Exclusive, LeaseHeld, Holding, Owns,
       DrainClaim, ClaimRow, Claimable
  <2> QED BY <2>1, <2>2
<1>21. ASSUME DrainClaimNothing PROVE LeaseHeld' /\ Exclusive'
  <2>1. LeaseHeld'
    BY <1>21, <1>drain, <1>task DEF LeaseHeld, Holding, Owns,
       DrainClaimNothing, Claimable, Off, NoMsg
  <2>2. Exclusive'
    BY <1>21, <1>drain, <1>task DEF Exclusive, LeaseHeld, Holding, Owns,
       DrainClaimNothing, Claimable, Off, NoMsg
  <2> QED BY <2>1, <2>2
<1>22. ASSUME DrainDelivers PROVE LeaseHeld' /\ Exclusive'
  <2>1. LeaseHeld'
    BY <1>22, <1>drain, <1>task DEF LeaseHeld, Holding, Owns, DrainDelivers,
       Off, NoMsg
  <2>2. Exclusive'
    BY <1>22, <1>drain, <1>task DEF Exclusive, LeaseHeld, Holding, Owns,
       DrainDelivers, Off, NoMsg
  <2> QED BY <2>1, <2>2
<1>23. ASSUME DrainClaimFails PROVE LeaseHeld' /\ Exclusive'
  <2>1. LeaseHeld'
    BY <1>23, <1>drain, <1>task DEF LeaseHeld, Holding, Owns, DrainClaimFails,
       Fault, Push, Off, NoMsg
  <2>2. Exclusive'
    BY <1>23, <1>drain, <1>task DEF Exclusive, LeaseHeld, Holding, Owns,
       DrainClaimFails, Fault, Push, Off, NoMsg
  <2> QED BY <2>1, <2>2
<1>24. ASSUME DrainFails PROVE LeaseHeld' /\ Exclusive'
  <2>1. LeaseHeld'
    BY <1>24, <1>drain, <1>task DEF LeaseHeld, Holding, Owns, DrainFails,
       DrainReset, Retry, Off, NoMsg, Push
  <2>2. Exclusive'
    BY <1>24, <1>drain, <1>task DEF Exclusive, LeaseHeld, Holding, Owns,
       DrainFails, DrainReset, Retry, Off, NoMsg, Push
  <2> QED BY <2>1, <2>2
<1>25. ASSUME DrainPushFails PROVE LeaseHeld' /\ Exclusive'
  <2>1. LeaseHeld'
    BY <1>25, <1>drain, <1>task DEF LeaseHeld, Holding, Owns, DrainPushFails,
       DrainReset, Retry, Off, NoMsg, Fault
  <2>2. Exclusive'
    BY <1>25, <1>drain, <1>task DEF Exclusive, LeaseHeld, Holding, Owns,
       DrainPushFails, DrainReset, Retry, Off, NoMsg, Fault
  <2> QED BY <2>1, <2>2
<1>26. ASSUME DrainResetFails PROVE LeaseHeld' /\ Exclusive'
  <2>1. LeaseHeld'
    BY <1>26, <1>drain, <1>task DEF LeaseHeld, Holding, Owns, DrainResetFails,
       Fault, Off, NoMsg
  <2>2. Exclusive'
    BY <1>26, <1>drain, <1>task DEF Exclusive, LeaseHeld, Holding, Owns,
       DrainResetFails, Fault, Off, NoMsg
  <2> QED BY <2>1, <2>2
<1>27. ASSUME Crash PROVE LeaseHeld' /\ Exclusive'
  <2>1. LeaseHeld'
    BY <1>27 DEF LeaseHeld, Holding, Owns, Crash, Free, NoMsg, Off
  <2>2. Exclusive'
    BY <1>27 DEF Exclusive, LeaseHeld, Holding, Owns, Crash, Free, NoMsg, Off
  <2> QED BY <2>1, <2>2
<1>28. ASSUME Start PROVE LeaseHeld' /\ Exclusive'
  BY <1>28 DEF LeaseHeld, Holding, Owns, Exclusive, Start
<1>29. ASSUME Finalize PROVE LeaseHeld' /\ Exclusive'
  <2>1. LeaseHeld'
    <3>1. \A k \in Task : tasks'[k].pc \notin Holding
      BY <1>29 DEF Finalize, Attached, Holding
    <3>2. drain.pc = "claimed" => drain.msg \in Msg /\ ~resolved[drain.msg]
      BY <1>drain DEF StageInv, DrainInv
    <3> QED BY <1>29, <3>1, <3>2 DEF Finalize, LeaseHeld, Owns
  <2>2. Exclusive'
    BY <1>29 DEF Exclusive, LeaseHeld, Holding, Owns, Finalize
  <2> QED BY <2>1, <2>2
<1>30. ASSUME ResetStale PROVE LeaseHeld' /\ Exclusive'
  <2>1. LeaseHeld'
    <3>1. \A k \in Task : tasks'[k].pc \notin Holding
      BY <1>30 DEF ResetStale, Attached, Holding
    <3> QED BY <1>30, <3>1, <1>drain DEF ResetStale, LeaseHeld, Owns
  <2>2. Exclusive'
    BY <1>30 DEF Exclusive, LeaseHeld, Holding, Owns, ResetStale, Retry
  <2> QED BY <2>1, <2>2
<1>31. ASSUME RequeueAll PROVE LeaseHeld' /\ Exclusive'
  BY <1>31 DEF LeaseHeld, Holding, Owns, Exclusive, RequeueAll
<1>32. ASSUME RecoveryFails PROVE LeaseHeld' /\ Exclusive'
  BY <1>32 DEF LeaseHeld, Holding, Owns, Exclusive, RecoveryFails, Fault
<1>33. ASSUME UNCHANGED vars PROVE LeaseHeld' /\ Exclusive'
  BY <1>33 DEF LeaseHeld, Holding, Owns, Exclusive, vars
<1>34. ASSUME DrainPopStopped PROVE LeaseHeld' /\ Exclusive'
  BY <1>34 DEF LeaseHeld, Holding, Owns, Exclusive, DrainPopStopped,
     DrainEnds, Off
<1>35. ASSUME DrainClaimStopped PROVE LeaseHeld' /\ Exclusive'
  <2>1. /\ UNCHANGED tasks /\ drain'.pc = "off" /\ drain.msg \in Inject
        /\ drain.msg \in Msg
    BY <1>35, <1>drain DEF DrainClaimStopped, DrainEnds, Off
  <2>2. \A m \in Msg \ {drain.msg} : status'[m] = status[m] /\ lease'[m] = lease[m]
    BY <1>35 DEF DrainClaimStopped, ClaimRow
  <2>3. LeaseHeld'
    BY <2>1, <2>2, <1>task DEF LeaseHeld, Holding, Owns
  <2>4. Exclusive'
    BY <2>1 DEF Exclusive
  <2> QED BY <2>3, <2>4
<1>36. ASSUME DrainDeliveryStopped PROVE LeaseHeld' /\ Exclusive'
  <2>1. /\ UNCHANGED tasks /\ drain'.pc = "off" /\ drain.msg \in Inject
        /\ drain.msg \in Msg
    BY <1>36, <1>drain DEF DrainDeliveryStopped, DrainEnds, DrainReset, Off
  <2>2. \A m \in Msg \ {drain.msg} : status'[m] = status[m] /\ lease'[m] = lease[m]
    BY <1>36 DEF DrainDeliveryStopped, DrainReset
  <2>3. LeaseHeld'
    BY <2>1, <2>2, <1>task DEF LeaseHeld, Holding, Owns
  <2>4. Exclusive'
    BY <2>1 DEF Exclusive
  <2> QED BY <2>3, <2>4
<1> QED BY <1>1, <1>2, <1>3, <1>4, <1>5, <1>6, <1>7, <1>8, <1>9, <1>10, <1>11,
   <1>12, <1>13, <1>14, <1>15, <1>16, <1>17, <1>18, <1>19, <1>20, <1>21,
   <1>22, <1>23, <1>24, <1>25, <1>26, <1>27, <1>28, <1>29, <1>30, <1>31,
   <1>32, <1>33, <1>34, <1>35, <1>36 DEF Next, TaskStep, TaskFails, DrainStep, Startup

\* The columns of a row keep saying the same thing.
LEMMA RowsStep == Inv /\ [Next]_vars => RowsInv'
<1> SUFFICES ASSUME Inv, [Next]_vars PROVE RowsInv' OBVIOUS
<1> USE BoundsAssumption, KindsAssumption DEF Inv, TypeOK, RowsType,
   WorkersType, HistoryType, Msg, rows, lists
<1>task. ASSUME NEW k \in Task, tasks[k].pc # "free"
         PROVE  tasks[k].msg \in NewSession /\ tasks[k].msg \in Msg
  BY <1>task DEF Attached
<1>drain. drain.pc \in {"popped", "claimed"} =>
            drain.msg \in Inject /\ drain.msg \in Msg
  BY DEF Attached
<1>held. ASSUME NEW k \in Task, tasks[k].pc \in Holding
         PROVE  /\ TaskInv(k)
                /\ status[tasks[k].msg] = "DELIVERING"
                /\ lease[tasks[k].msg] = tasks[k].attempt
  BY <1>held DEF StageInv, TasksInv, HeldInv, LeaseHeld, Owns
<1>heldByDrain. drain.pc = "claimed" => /\ DrainInv
                                        /\ status[drain.msg] = "DELIVERING"
                                        /\ lease[drain.msg] = drain.attempt
  BY DEF StageInv, HeldInv, LeaseHeld, Owns
<1>1. ASSUME NEW m \in Msg, SendRow(m) PROVE RowsInv'
  BY <1>1 DEF RowsInv, RowInv, MessageStatus, SendRow
<1>2. ASSUME NEW m \in Msg, SendPush(m) PROVE RowsInv'
  BY <1>2 DEF RowsInv, RowInv, MessageStatus, SendPush, Push
<1>3. ASSUME NEW m \in Msg, SendPushFails(m) PROVE RowsInv'
  BY <1>3 DEF RowsInv, RowInv, MessageStatus, SendPushFails, Fault
<1>4. ASSUME NEW k \in Task, Listen(k) PROVE RowsInv'
  BY <1>4, <1>task DEF RowsInv, RowInv, MessageStatus, Listen, Free, NoMsg
<1>5. ASSUME NEW k \in Task, Claim(k) PROVE RowsInv'
  BY <1>5, <1>task DEF RowsInv, RowInv, MessageStatus, Claim, ClaimRow,
     Claimable
<1>6. ASSUME NEW k \in Task, ClaimNothing(k) PROVE RowsInv'
  BY <1>6, <1>task DEF RowsInv, RowInv, MessageStatus, ClaimNothing,
     Claimable, Finish, Free, NoMsg
<1>7. ASSUME NEW k \in Task, CreateSession(k) PROVE RowsInv'
  BY <1>7, <1>task, <1>held DEF RowsInv, RowInv, TaskInv, MessageStatus,
     Holding, CreateSession, Advance
<1>8. ASSUME NEW k \in Task, RecordSession(k) PROVE RowsInv'
  BY <1>8, <1>task, <1>held DEF RowsInv, RowInv, TaskInv, MessageStatus,
     Holding, RecordSession, Owns, Advance
<1>9. ASSUME NEW k \in Task, MarkDelivered(k) PROVE RowsInv'
  BY <1>9, <1>task, <1>held DEF RowsInv, RowInv, TaskInv, MessageStatus,
     Holding, MarkDelivered, Owns, Finish, Free, NoMsg
<1>10. ASSUME NEW k \in Task, Release(k) PROVE RowsInv'
  BY <1>10, <1>task, <1>held, SMTT(40) DEF RowsInv, RowInv, TaskInv, MessageStatus,
     Holding, Release, Owns, Retry, Advance, Finish, Free, NoMsg
<1>11. ASSUME NEW k \in Task, Requeue(k) PROVE RowsInv'
  BY <1>11, <1>task DEF RowsInv, RowInv, MessageStatus, Requeue, Push, Finish,
     Free, NoMsg
<1>12. ASSUME NEW k \in Task, ClaimFails(k) PROVE RowsInv'
  BY <1>12, <1>task DEF RowsInv, RowInv, MessageStatus, ClaimFails, Fault,
     Finish, Free, NoMsg
<1>13. ASSUME NEW k \in Task, CreateSessionFails(k) PROVE RowsInv'
  BY <1>13, <1>task, <1>held DEF RowsInv, RowInv, TaskInv, MessageStatus,
     Holding, CreateSessionFails, Advance
<1>14. ASSUME NEW k \in Task, LeftDelivering(k) PROVE RowsInv'
  BY <1>14, <1>task DEF RowsInv, RowInv, MessageStatus, LeftDelivering, Fault,
     Finish, Free, NoMsg
<1>15. ASSUME NEW k \in Task, ReleaseFails(k) PROVE RowsInv'
  BY <1>15, <1>task DEF RowsInv, RowInv, MessageStatus, ReleaseFails, Fault,
     Finish, Free, NoMsg
<1>16. ASSUME NEW k \in Task, RequeueFails(k) PROVE RowsInv'
  BY <1>16, <1>task DEF RowsInv, RowInv, MessageStatus, RequeueFails, Fault,
     Finish, Free, NoMsg
<1>17. ASSUME DrainStart PROVE RowsInv'
  BY <1>17, <1>drain, <1>task DEF RowsInv, RowInv, MessageStatus, DrainStart,
     Off, NoMsg
<1>18. ASSUME DrainPop PROVE RowsInv'
  BY <1>18, <1>drain, <1>task DEF RowsInv, RowInv, MessageStatus, DrainPop
<1>19. ASSUME DrainEmpty PROVE RowsInv'
  BY <1>19, <1>drain, <1>task DEF RowsInv, RowInv, MessageStatus, DrainEmpty,
     Off, NoMsg
<1>20. ASSUME DrainClaim PROVE RowsInv'
  BY <1>20, <1>drain, <1>task DEF RowsInv, RowInv, MessageStatus, DrainClaim,
     ClaimRow, Claimable
<1>21. ASSUME DrainClaimNothing PROVE RowsInv'
  BY <1>21, <1>drain, <1>task DEF RowsInv, RowInv, MessageStatus,
     DrainClaimNothing, Claimable, Off, NoMsg
<1>22. ASSUME DrainDelivers PROVE RowsInv'
  BY <1>22, <1>drain, <1>heldByDrain DEF RowsInv, RowInv, DrainInv,
     MessageStatus, Holding, DrainDelivers, Off, NoMsg
<1>23. ASSUME DrainClaimFails PROVE RowsInv'
  BY <1>23, <1>drain, <1>task DEF RowsInv, RowInv, MessageStatus,
     DrainClaimFails, Fault, Push, Off, NoMsg
<1>24. ASSUME DrainFails PROVE RowsInv'
  BY <1>24, <1>drain, <1>heldByDrain DEF RowsInv, RowInv, DrainInv,
     MessageStatus, Holding, DrainFails, DrainReset, Retry, Off, NoMsg, Push
<1>25. ASSUME DrainPushFails PROVE RowsInv'
  BY <1>25, <1>drain, <1>heldByDrain DEF RowsInv, RowInv, DrainInv,
     MessageStatus, Holding, DrainPushFails, DrainReset, Retry, Off, NoMsg,
     Fault
<1>26. ASSUME DrainResetFails PROVE RowsInv'
  BY <1>26, <1>drain, <1>heldByDrain DEF RowsInv, RowInv, DrainInv,
     MessageStatus, Holding, DrainResetFails, Fault, Off, NoMsg
<1>27. ASSUME Crash PROVE RowsInv'
  BY <1>27 DEF RowsInv, RowInv, MessageStatus, Crash, Free, NoMsg, Off
<1>28. ASSUME Start PROVE RowsInv'
  BY <1>28 DEF RowsInv, RowInv, MessageStatus, Start
<1>29. ASSUME Finalize PROVE RowsInv'
  BY <1>29 DEF RowsInv, RowInv, MessageStatus, Finalize
<1>30. ASSUME ResetStale PROVE RowsInv'
  <2>1. PICK stale \in SUBSET {m \in Msg :
                                status[m] = "DELIVERING" /\ ~resolved[m]} :
          /\ status' = [m \in Msg |->
                          IF m \in stale THEN Retry(m) ELSE status[m]]
          /\ lease' = [m \in Msg |-> IF m \in stale THEN 0 ELSE lease[m]]
    BY <1>30, ZenonT(60) DEF ResetStale
  <2>2. UNCHANGED <<attempts, resolved, made>> BY <1>30 DEF ResetStale
  <2>3. ASSUME NEW m \in Msg, m \in stale PROVE RowInv(m)'
    <3>1. ~resolved[m] /\ status[m] = "DELIVERING" BY <2>1, <2>3
    <3>2. status'[m] = Retry(m) BY <2>1, <2>3
    <3> QED BY <2>2, <3>1, <3>2 DEF RowsInv, RowInv, Retry
  <2>4. ASSUME NEW m \in Msg, m \notin stale PROVE RowInv(m)'
    BY <2>1, <2>2, <2>4 DEF RowsInv, RowInv
  <2> QED BY <2>3, <2>4 DEF RowsInv
<1>31. ASSUME RequeueAll PROVE RowsInv'
  BY <1>31 DEF RowsInv, RowInv, MessageStatus, RequeueAll
<1>32. ASSUME RecoveryFails PROVE RowsInv'
  BY <1>32 DEF RowsInv, RowInv, MessageStatus, RecoveryFails, Fault
<1>33. ASSUME UNCHANGED vars PROVE RowsInv'
  BY <1>33 DEF RowsInv, RowInv, MessageStatus, vars
<1>34. ASSUME DrainPopStopped PROVE RowsInv'
  BY <1>34 DEF RowsInv, RowInv, DrainPopStopped
<1>35. ASSUME DrainClaimStopped PROVE RowsInv'
  <2>1. CASE UNCHANGED rows
    BY <1>35, <2>1 DEF RowsInv, RowInv, DrainClaimStopped
  <2>2. CASE ClaimRow(drain.msg)
    <3>1. drain.msg \in Msg /\ made' = made
      BY <1>35, <1>drain DEF DrainClaimStopped
    <3> QED BY <2>2, <3>1 DEF RowsInv, RowInv, ClaimRow, Claimable
  <2> QED BY <1>35, <2>1, <2>2 DEF DrainClaimStopped
<1>36. ASSUME DrainDeliveryStopped PROVE RowsInv'
  <2>1. drain.pc = "claimed"
    BY <1>36 DEF DrainDeliveryStopped
  <2>2. /\ drain.msg \in Msg /\ status[drain.msg] = "DELIVERING"
        /\ ~resolved[drain.msg] /\ made[drain.msg] < attempts[drain.msg]
    BY <1>drain, <1>heldByDrain, <2>1 DEF DrainInv
  <2>3. PICK n \in {0, 1} : made' = [made EXCEPT ![drain.msg] = @ + n]
    BY <1>36 DEF DrainDeliveryStopped, DrainReset
  <2>4. CASE UNCHANGED rows
    BY <2>2, <2>3, <2>4 DEF RowsInv, RowInv
  <2>5. CASE DrainReset
    <3>1. /\ status' = [status EXCEPT ![drain.msg] = Retry(drain.msg)]
          /\ lease' = [lease EXCEPT ![drain.msg] = 0]
          /\ UNCHANGED <<attempts, resolved>>
      BY <2>5 DEF DrainReset
    <3>2. ASSUME NEW m \in Msg, m = drain.msg PROVE RowInv(m)'
      <4>1. /\ status'[m] = Retry(m) /\ lease'[m] = 0
            /\ attempts'[m] = attempts[m] /\ ~resolved'[m]
        BY <2>2, <3>1, <3>2
      <4>2. made'[m] <= attempts[m] /\ attempts[m] \in 0..MaxAttempts
        BY <2>2, <2>3, <3>2
      <4> QED BY <4>1, <4>2 DEF RowInv, Retry
    <3>3. ASSUME NEW m \in Msg, m # drain.msg PROVE RowInv(m)'
      BY <2>3, <3>1, <3>3 DEF RowsInv, RowInv
    <3> QED BY <3>2, <3>3 DEF RowsInv
  <2> QED BY <1>36, <2>4, <2>5 DEF DrainDeliveryStopped
<1> QED BY <1>1, <1>2, <1>3, <1>4, <1>5, <1>6, <1>7, <1>8, <1>9, <1>10, <1>11,
   <1>12, <1>13, <1>14, <1>15, <1>16, <1>17, <1>18, <1>19, <1>20, <1>21,
   <1>22, <1>23, <1>24, <1>25, <1>26, <1>27, <1>28, <1>29, <1>30, <1>31,
   <1>32, <1>33, <1>34, <1>35, <1>36 DEF Next, TaskStep, TaskFails, DrainStep, Startup

\* No worker is further than its row says.
LEMMA StageStep == Inv /\ [Next]_vars => StageInv'
<1> SUFFICES ASSUME Inv, [Next]_vars PROVE StageInv' OBVIOUS
<1> USE BoundsAssumption, KindsAssumption DEF Inv, StageInv, HeldInv, TypeOK,
   RowsType, WorkersType, HistoryType, Msg, rows, lists
<1>task. ASSUME NEW k \in Task, tasks[k].pc # "free"
         PROVE  tasks[k].msg \in NewSession /\ tasks[k].msg \in Msg
  BY <1>task DEF Attached
<1>drain. drain.pc \in {"popped", "claimed"} =>
            drain.msg \in Inject /\ drain.msg \in Msg
  BY DEF Attached
<1>held. ASSUME NEW k \in Task, tasks[k].pc \in Holding
         PROVE  /\ TaskInv(k)
                /\ status[tasks[k].msg] = "DELIVERING"
                /\ lease[tasks[k].msg] = tasks[k].attempt
  BY <1>held DEF StageInv, TasksInv, HeldInv, LeaseHeld, Owns
<1>heldByDrain. drain.pc = "claimed" => /\ DrainInv
                                        /\ status[drain.msg] = "DELIVERING"
                                        /\ lease[drain.msg] = drain.attempt
  BY DEF StageInv, HeldInv, LeaseHeld, Owns
<1>1. ASSUME NEW m \in Msg, SendRow(m) PROVE DrainInv' /\ TasksInv'
  BY <1>1 DEF DrainInv, TasksInv, TaskInv, SendRow
<1>2. ASSUME NEW m \in Msg, SendPush(m) PROVE DrainInv' /\ TasksInv'
  BY <1>2 DEF DrainInv, TasksInv, TaskInv, SendPush, Push
<1>3. ASSUME NEW m \in Msg, SendPushFails(m) PROVE DrainInv' /\ TasksInv'
  BY <1>3 DEF DrainInv, TasksInv, TaskInv, SendPushFails, Fault
<1>4. ASSUME NEW k \in Task, Listen(k) PROVE DrainInv' /\ TasksInv'
  <2>1. TasksInv'
    BY <1>4, <1>task DEF TasksInv, TaskInv, Listen, Free, NoMsg
  <2>2. DrainInv'
    BY <1>4, <1>task DEF DrainInv, Listen, Free, NoMsg
  <2> QED BY <2>1, <2>2
<1>5. ASSUME NEW k \in Task, Claim(k) PROVE DrainInv' /\ TasksInv'
  <2>1. DrainInv'
    BY <1>5, <1>task, <1>held, <1>drain, <1>heldByDrain DEF DrainInv, Claim,
       ClaimRow, Claimable
  <2>2. TasksInv'
    BY <1>5, <1>task, <1>held DEF TasksInv, TaskInv, Exclusive, Holding,
       RowsInv, RowInv, Claim, ClaimRow, Claimable
  <2> QED BY <2>1, <2>2
<1>6. ASSUME NEW k \in Task, ClaimNothing(k) PROVE DrainInv' /\ TasksInv'
  <2>1. TasksInv'
    BY <1>6, <1>task DEF TasksInv, TaskInv, ClaimNothing, Claimable, Finish,
       Free, NoMsg
  <2>2. DrainInv'
    BY <1>6, <1>task DEF DrainInv, ClaimNothing, Claimable, Finish, Free,
       NoMsg
  <2> QED BY <2>1, <2>2
<1>7. ASSUME NEW k \in Task, CreateSession(k) PROVE DrainInv' /\ TasksInv'
  <2>1. DrainInv'
    BY <1>7, <1>task, <1>held, <1>drain, <1>heldByDrain DEF DrainInv,
       CreateSession, Advance
  <2>2. TasksInv'
    BY <1>7, <1>task, <1>held DEF TasksInv, TaskInv, Exclusive, Holding,
       RowsInv, RowInv, CreateSession, Advance
  <2> QED BY <2>1, <2>2
<1>8. ASSUME NEW k \in Task, RecordSession(k) PROVE DrainInv' /\ TasksInv'
  <2>1. DrainInv'
    BY <1>8, <1>task, <1>held, <1>drain, <1>heldByDrain DEF DrainInv,
       RecordSession, Owns, Advance
  <2>2. TasksInv'
    <3>1. tasks[k].pc = "created" /\ tasks[k].msg \in Msg
      BY <1>8, <1>task DEF RecordSession
    <3>2. resolved' = [resolved EXCEPT ![tasks[k].msg] = TRUE]
      BY <1>8, <3>1, <1>held DEF RecordSession, Owns, Holding
    <3>3. TaskInv(k)'
      BY <1>8, <3>1, <3>2 DEF TaskInv, RecordSession, Advance
    <3>4. ASSUME NEW j \in Task, j # k PROVE TaskInv(j)'
      <4>1. tasks'[j] = tasks[j] /\ UNCHANGED <<made, attempts>>
        BY <1>8, <3>4 DEF RecordSession, Advance
      <4>2. tasks[j].pc \in Holding =>
              tasks[j].msg # tasks[k].msg /\ tasks[j].msg \in Msg
        BY <3>1, <3>4, <1>task DEF Exclusive, Holding
      <4>3. CASE tasks[j].pc \in Holding
        <5>1. resolved'[tasks[j].msg] = resolved[tasks[j].msg]
          BY <3>2, <4>2, <4>3
        <5> QED BY <4>1, <5>1 DEF TasksInv, TaskInv
      <4>4. CASE tasks[j].pc \notin Holding
        BY <4>1, <4>4 DEF TaskInv, Holding
      <4> QED BY <4>3, <4>4
    <3> QED BY <3>3, <3>4 DEF TasksInv
  <2> QED BY <2>1, <2>2
<1>9. ASSUME NEW k \in Task, MarkDelivered(k) PROVE DrainInv' /\ TasksInv'
  <2>1. TasksInv'
    BY <1>9, <1>task DEF TasksInv, TaskInv, MarkDelivered, Owns, Finish, Free,
       NoMsg
  <2>2. DrainInv'
    BY <1>9, <1>task DEF DrainInv, MarkDelivered, Owns, Finish, Free, NoMsg
  <2> QED BY <2>1, <2>2
<1>10. ASSUME NEW k \in Task, Release(k) PROVE DrainInv' /\ TasksInv'
  <2>1. TasksInv'
    BY <1>10, <1>task, <1>held DEF TasksInv, TaskInv, Exclusive, Holding,
       RowsInv, RowInv, Release, Owns, Retry, Advance, Finish, Free, NoMsg
  <2>2. DrainInv'
    BY <1>10, <1>task, <1>held, <1>drain, <1>heldByDrain DEF DrainInv,
       Release, Owns, Retry, Advance, Finish, Free, NoMsg
  <2> QED BY <2>1, <2>2
<1>11. ASSUME NEW k \in Task, Requeue(k) PROVE DrainInv' /\ TasksInv'
  <2>1. TasksInv'
    BY <1>11, <1>task DEF TasksInv, TaskInv, Requeue, Push, Finish, Free,
       NoMsg
  <2>2. DrainInv'
    BY <1>11, <1>task DEF DrainInv, Requeue, Push, Finish, Free, NoMsg
  <2> QED BY <2>1, <2>2
<1>12. ASSUME NEW k \in Task, ClaimFails(k) PROVE DrainInv' /\ TasksInv'
  <2>1. TasksInv'
    BY <1>12, <1>task DEF TasksInv, TaskInv, ClaimFails, Fault, Finish, Free,
       NoMsg
  <2>2. DrainInv'
    BY <1>12, <1>task DEF DrainInv, ClaimFails, Fault, Finish, Free, NoMsg
  <2> QED BY <2>1, <2>2
<1>13. ASSUME NEW k \in Task, CreateSessionFails(k)
       PROVE  DrainInv' /\ TasksInv'
  <2>1. DrainInv'
    BY <1>13, <1>task, <1>held, <1>drain, <1>heldByDrain DEF DrainInv,
       CreateSessionFails, Advance
  <2>2. TasksInv'
    BY <1>13, <1>task, <1>held DEF TasksInv, TaskInv, Exclusive, Holding,
       RowsInv, RowInv, CreateSessionFails, Advance
  <2> QED BY <2>1, <2>2
<1>14. ASSUME NEW k \in Task, LeftDelivering(k) PROVE DrainInv' /\ TasksInv'
  <2>1. TasksInv'
    BY <1>14, <1>task DEF TasksInv, TaskInv, LeftDelivering, Fault, Finish,
       Free, NoMsg
  <2>2. DrainInv'
    BY <1>14, <1>task DEF DrainInv, LeftDelivering, Fault, Finish, Free, NoMsg
  <2> QED BY <2>1, <2>2
<1>15. ASSUME NEW k \in Task, ReleaseFails(k) PROVE DrainInv' /\ TasksInv'
  <2>1. TasksInv'
    BY <1>15, <1>task DEF TasksInv, TaskInv, ReleaseFails, Fault, Finish,
       Free, NoMsg
  <2>2. DrainInv'
    BY <1>15, <1>task DEF DrainInv, ReleaseFails, Fault, Finish, Free, NoMsg
  <2> QED BY <2>1, <2>2
<1>16. ASSUME NEW k \in Task, RequeueFails(k) PROVE DrainInv' /\ TasksInv'
  <2>1. TasksInv'
    BY <1>16, <1>task DEF TasksInv, TaskInv, RequeueFails, Fault, Finish,
       Free, NoMsg
  <2>2. DrainInv'
    BY <1>16, <1>task DEF DrainInv, RequeueFails, Fault, Finish, Free, NoMsg
  <2> QED BY <2>1, <2>2
<1>17. ASSUME DrainStart PROVE DrainInv' /\ TasksInv'
  <2>1. DrainInv'
    BY <1>17, <1>drain, <1>task DEF DrainInv, DrainStart, Off, NoMsg
  <2>2. TasksInv'
    BY <1>17, <1>drain, <1>task DEF TasksInv, TaskInv, DrainStart, Off, NoMsg
  <2> QED BY <2>1, <2>2
<1>18. ASSUME DrainPop PROVE DrainInv' /\ TasksInv'
  <2>1. DrainInv'
    BY <1>18, <1>drain, <1>task DEF DrainInv, DrainPop
  <2>2. TasksInv'
    BY <1>18, <1>drain, <1>task DEF TasksInv, TaskInv, DrainPop
  <2> QED BY <2>1, <2>2
<1>19. ASSUME DrainEmpty PROVE DrainInv' /\ TasksInv'
  <2>1. DrainInv'
    BY <1>19, <1>drain, <1>task DEF DrainInv, DrainEmpty, Off, NoMsg
  <2>2. TasksInv'
    BY <1>19, <1>drain, <1>task DEF TasksInv, TaskInv, DrainEmpty, Off, NoMsg
  <2> QED BY <2>1, <2>2
<1>20. ASSUME DrainClaim PROVE DrainInv' /\ TasksInv'
  <2>1. DrainInv'
    BY <1>20, <1>drain DEF DrainInv, RowsInv, RowInv, DrainClaim, ClaimRow,
       Claimable
  <2>2. TasksInv'
    BY <1>20, <1>task, <1>held, <1>drain DEF TasksInv, TaskInv, Exclusive,
       Holding, RowsInv, RowInv, DrainClaim, ClaimRow, Claimable
  <2> QED BY <2>1, <2>2
<1>21. ASSUME DrainClaimNothing PROVE DrainInv' /\ TasksInv'
  <2>1. DrainInv'
    BY <1>21, <1>drain, <1>task DEF DrainInv, DrainClaimNothing, Claimable,
       Off, NoMsg
  <2>2. TasksInv'
    BY <1>21, <1>drain, <1>task DEF TasksInv, TaskInv, DrainClaimNothing,
       Claimable, Off, NoMsg
  <2> QED BY <2>1, <2>2
<1>22. ASSUME DrainDelivers PROVE DrainInv' /\ TasksInv'
  <2>1. DrainInv'
    BY <1>22, <1>task, <1>held, <1>drain, <1>heldByDrain DEF DrainInv,
       DrainDelivers, Off, NoMsg
  <2>2. TasksInv'
    BY <1>22, <1>task, <1>held, <1>drain DEF TasksInv, TaskInv, Exclusive,
       Holding, RowsInv, RowInv, DrainDelivers, Off, NoMsg
  <2> QED BY <2>1, <2>2
<1>23. ASSUME DrainClaimFails PROVE DrainInv' /\ TasksInv'
  <2>1. DrainInv'
    BY <1>23, <1>drain, <1>task DEF DrainInv, DrainClaimFails, Fault, Push,
       Off, NoMsg
  <2>2. TasksInv'
    BY <1>23, <1>drain, <1>task DEF TasksInv, TaskInv, DrainClaimFails, Fault,
       Push, Off, NoMsg
  <2> QED BY <2>1, <2>2
<1>24. ASSUME DrainFails PROVE DrainInv' /\ TasksInv'
  <2>1. DrainInv'
    BY <1>24, <1>task, <1>held, <1>drain, <1>heldByDrain DEF DrainInv,
       DrainFails, DrainReset, Retry, Off, NoMsg, Push
  <2>2. TasksInv'
    BY <1>24, <1>task, <1>held, <1>drain DEF TasksInv, TaskInv, Exclusive,
       Holding, RowsInv, RowInv, DrainFails, DrainReset, Retry, Off, NoMsg,
       Push
  <2> QED BY <2>1, <2>2
<1>25. ASSUME DrainPushFails PROVE DrainInv' /\ TasksInv'
  <2>1. DrainInv'
    BY <1>25, <1>task, <1>held, <1>drain, <1>heldByDrain DEF DrainInv,
       DrainPushFails, DrainReset, Retry, Off, NoMsg, Fault
  <2>2. TasksInv'
    BY <1>25, <1>task, <1>held, <1>drain DEF TasksInv, TaskInv, Exclusive,
       Holding, RowsInv, RowInv, DrainPushFails, DrainReset, Retry, Off,
       NoMsg, Fault
  <2> QED BY <2>1, <2>2
<1>26. ASSUME DrainResetFails PROVE DrainInv' /\ TasksInv'
  <2>1. DrainInv'
    BY <1>26, <1>task, <1>held, <1>drain, <1>heldByDrain DEF DrainInv,
       DrainResetFails, Fault, Off, NoMsg
  <2>2. TasksInv'
    BY <1>26, <1>task, <1>held, <1>drain DEF TasksInv, TaskInv, Exclusive,
       Holding, RowsInv, RowInv, DrainResetFails, Fault, Off, NoMsg
  <2> QED BY <2>1, <2>2
<1>27. ASSUME Crash PROVE DrainInv' /\ TasksInv'
  <2>1. DrainInv'
    BY <1>27 DEF DrainInv, Crash, Free, NoMsg, Off
  <2>2. TasksInv'
    BY <1>27 DEF TasksInv, TaskInv, Crash, Free, NoMsg, Off
  <2> QED BY <2>1, <2>2
<1>28. ASSUME Start PROVE DrainInv' /\ TasksInv'
  BY <1>28 DEF DrainInv, TasksInv, TaskInv, Start
<1>29. ASSUME Finalize PROVE DrainInv' /\ TasksInv'
  BY <1>29 DEF DrainInv, TasksInv, TaskInv, Finalize
<1>30. ASSUME ResetStale PROVE DrainInv' /\ TasksInv'
  BY <1>30 DEF DrainInv, TasksInv, TaskInv, ResetStale, Retry
<1>31. ASSUME RequeueAll PROVE DrainInv' /\ TasksInv'
  BY <1>31 DEF DrainInv, TasksInv, TaskInv, RequeueAll
<1>32. ASSUME RecoveryFails PROVE DrainInv' /\ TasksInv'
  BY <1>32 DEF DrainInv, TasksInv, TaskInv, RecoveryFails, Fault
<1>33. ASSUME UNCHANGED vars PROVE DrainInv' /\ TasksInv'
  BY <1>33 DEF DrainInv, TasksInv, TaskInv, vars
<1>34. ASSUME DrainPopStopped PROVE DrainInv' /\ TasksInv'
  BY <1>34 DEF DrainInv, TasksInv, TaskInv, DrainPopStopped, DrainEnds, Off
<1>35. ASSUME DrainClaimStopped PROVE DrainInv' /\ TasksInv'
  <2>1. DrainInv'
    BY <1>35 DEF DrainInv, DrainClaimStopped, DrainEnds, Off
  <2>2. /\ UNCHANGED <<tasks, resolved, made>> /\ drain.msg \in Inject
        /\ \A m \in Msg \ {drain.msg} : attempts'[m] = attempts[m]
    BY <1>35, <1>drain DEF DrainClaimStopped, ClaimRow
  <2>3. TasksInv'
    BY <2>2, <1>task DEF TasksInv, TaskInv
  <2> QED BY <2>1, <2>3
<1>36. ASSUME DrainDeliveryStopped PROVE DrainInv' /\ TasksInv'
  <2>1. DrainInv'
    BY <1>36 DEF DrainInv, DrainDeliveryStopped, DrainEnds, Off
  <2>2. /\ UNCHANGED <<tasks, resolved, attempts>> /\ drain.msg \in Inject
        /\ \A m \in Msg \ {drain.msg} : made'[m] = made[m]
    BY <1>36, <1>drain DEF DrainDeliveryStopped, DrainReset
  <2>3. TasksInv'
    BY <2>2, <1>task DEF TasksInv, TaskInv
  <2> QED BY <2>1, <2>3
<1> QED BY <1>1, <1>2, <1>3, <1>4, <1>5, <1>6, <1>7, <1>8, <1>9, <1>10, <1>11,
   <1>12, <1>13, <1>14, <1>15, <1>16, <1>17, <1>18, <1>19, <1>20, <1>21,
   <1>22, <1>23, <1>24, <1>25, <1>26, <1>27, <1>28, <1>29, <1>30, <1>31,
   <1>32, <1>33, <1>34, <1>35, <1>36 DEF Next, TaskStep, TaskFails, DrainStep, Startup

-----------------------------------------------------------------------------
(* Where a QUEUED message is                                               *)

InLists == ToSet(dispatch) \cup ToSet(inbox)

\* QueuedIsReachable, message by message.
OnTheWay(m) ==
  \/ m \in InLists \cup sending \cup dropped
  \/ \E k \in Task : tasks[k].pc \in {"waiting", "released"} /\ tasks[k].msg = m
  \/ drain.pc = "popped" /\ drain.msg = m

Reachable == phase = "up" => \A m \in Msg : status[m] = "QUEUED" => OnTheWay(m)

\* The two ways to say it agree.
LEMMA ReachableSame == QueuedIsReachable <=> Reachable
<1>1. ASSUME NEW m \in Msg
      PROVE  m \in OnItsWay \cup dropped <=> OnTheWay(m)
  BY DEF OnItsWay, OnTheWay, InLists
<1> QED BY <1>1 DEF QueuedIsReachable, Reachable

\* A push adds one message to the lists, and takes none away.
LEMMA PushReaches ==
  ASSUME ListsType, NEW m \in Msg, Push(m)
  PROVE  InLists' = InLists \cup {m}
<1>1. dispatch \in Seq(NewSession) /\ inbox \in Seq(Inject) BY DEF ListsType
<1>2. ToSet(dispatch') =
        ToSet(dispatch) \cup (IF m \in NewSession THEN {m} ELSE {})
  BY <1>1, ToSetFacts DEF Push
<1>3. ToSet(inbox') =
        ToSet(inbox) \cup (IF m \in Inject THEN {m} ELSE {})
  BY <1>1, ToSetFacts DEF Push
<1> QED BY <1>2, <1>3 DEF InLists, Msg

\* No QUEUED message is mislaid by a step.
LEMMA ReachStep == Inv /\ [Next]_vars => Reachable'
<1> SUFFICES ASSUME Inv, [Next]_vars PROVE Reachable' OBVIOUS
<1> USE BoundsAssumption, KindsAssumption DEF Inv, StageInv, HeldInv, TypeOK,
   RowsType, WorkersType, HistoryType, Msg, rows, lists
<1>task. ASSUME NEW k \in Task, tasks[k].pc # "free"
         PROVE  tasks[k].msg \in NewSession /\ tasks[k].msg \in Msg
  BY <1>task DEF Attached
<1>drain. drain.pc \in {"popped", "claimed"} =>
            drain.msg \in Inject /\ drain.msg \in Msg
  BY DEF Attached
<1>reach. Reachable BY ReachableSame
<1>held. ASSUME NEW k \in Task, tasks[k].pc \in Holding
         PROVE  /\ TaskInv(k)
                /\ status[tasks[k].msg] = "DELIVERING"
                /\ lease[tasks[k].msg] = tasks[k].attempt
  BY <1>held DEF StageInv, TasksInv, HeldInv, LeaseHeld, Owns
<1>heldByDrain. drain.pc = "claimed" => /\ DrainInv
                                        /\ status[drain.msg] = "DELIVERING"
                                        /\ lease[drain.msg] = drain.attempt
  BY DEF StageInv, HeldInv, LeaseHeld, Owns
<1>1. ASSUME NEW m \in Msg, SendRow(m) PROVE Reachable'
  <2> SUFFICES ASSUME phase' = "up", NEW w \in Msg, status'[w] = "QUEUED"
               PROVE  OnTheWay(w)'
    BY DEF Reachable
  <2>1. w = m \/ OnTheWay(w)
    BY <1>1, <1>reach DEF Reachable, SendRow
  <2> QED BY <1>1, <2>1 DEF OnTheWay, InLists, SendRow
<1>2. ASSUME NEW m \in Msg, SendPush(m) PROVE Reachable'
  <2> SUFFICES ASSUME phase' = "up", NEW w \in Msg, status'[w] = "QUEUED"
               PROVE  OnTheWay(w)'
    BY DEF Reachable
  <2>1. OnTheWay(w)
    BY <1>2, <1>reach DEF Reachable, SendPush
  <2>2. InLists' = InLists \cup {m}
    BY <1>2, PushReaches DEF SendPush, ListsType
  <2> QED BY <1>2, <2>1, <2>2 DEF OnTheWay, SendPush
<1>3. ASSUME NEW m \in Msg, SendPushFails(m) PROVE Reachable'
  <2> SUFFICES ASSUME phase' = "up", NEW w \in Msg, status'[w] = "QUEUED"
               PROVE  OnTheWay(w)'
    BY DEF Reachable
  <2>1. OnTheWay(w)
    BY <1>3, <1>reach DEF Reachable, SendPushFails
  <2> QED BY <1>3, <2>1 DEF OnTheWay, InLists, SendPushFails
<1>4. ASSUME NEW k \in Task, Listen(k) PROVE Reachable'
  <2> SUFFICES ASSUME phase' = "up", NEW w \in Msg, status'[w] = "QUEUED"
               PROVE  OnTheWay(w)'
    BY DEF Reachable
  <2>1. OnTheWay(w)
    BY <1>4, <1>reach DEF Reachable, Listen
  <2>2. dispatch # <<>> /\ InLists = InLists' \cup {Head(dispatch)}
    <3>1. dispatch # <<>> /\ dispatch' = Tail(dispatch) /\ inbox' = inbox
      BY <1>4 DEF Listen
    <3>2. dispatch \in Seq(NewSession) /\ Head(dispatch) \in NewSession
      BY <3>1 DEF ListsType
    <3>3. ToSet(dispatch) = {Head(dispatch)} \cup ToSet(Tail(dispatch))
      BY <3>1, <3>2, ToSetFacts
    <3> QED BY <3>1, <3>3 DEF InLists
  <2> QED BY <1>4, <2>1, <2>2 DEF OnTheWay, Listen, Free, NoMsg
<1>5. ASSUME NEW k \in Task, Claim(k) PROVE Reachable'
  <2> SUFFICES ASSUME phase' = "up", NEW w \in Msg, status'[w] = "QUEUED"
               PROVE  OnTheWay(w)'
    BY DEF Reachable
  <2>1. OnTheWay(w) /\ w # tasks[k].msg
    BY <1>5, <1>reach, <1>task DEF Reachable, Claim, ClaimRow
  <2> QED BY <1>5, <2>1 DEF OnTheWay, InLists, Claim
<1>6. ASSUME NEW k \in Task, ClaimNothing(k) PROVE Reachable'
  <2> SUFFICES ASSUME phase' = "up", NEW w \in Msg, status'[w] = "QUEUED"
               PROVE  OnTheWay(w)'
    BY DEF Reachable
  <2>1. OnTheWay(w) /\ w # tasks[k].msg
    BY <1>6, <1>reach, <1>task DEF Reachable, ClaimNothing, Claimable,
       RowsInv, RowInv
  <2> QED BY <1>6, <2>1 DEF OnTheWay, InLists, ClaimNothing, Finish, Free,
     NoMsg
<1>7. ASSUME NEW k \in Task, CreateSession(k) PROVE Reachable'
  <2> SUFFICES ASSUME phase' = "up", NEW w \in Msg, status'[w] = "QUEUED"
               PROVE  OnTheWay(w)'
    BY DEF Reachable
  <2>1. OnTheWay(w)
    BY <1>7, <1>reach DEF Reachable, CreateSession
  <2> QED BY <1>7, <2>1 DEF OnTheWay, InLists, CreateSession, Advance
<1>8. ASSUME NEW k \in Task, RecordSession(k) PROVE Reachable'
  <2> SUFFICES ASSUME phase' = "up", NEW w \in Msg, status'[w] = "QUEUED"
               PROVE  OnTheWay(w)'
    BY DEF Reachable
  <2>1. OnTheWay(w)
    BY <1>8, <1>reach DEF Reachable, RecordSession
  <2> QED BY <1>8, <2>1 DEF OnTheWay, InLists, RecordSession, Advance
<1>9. ASSUME NEW k \in Task, MarkDelivered(k) PROVE Reachable'
  <2> SUFFICES ASSUME phase' = "up", NEW w \in Msg, status'[w] = "QUEUED"
               PROVE  OnTheWay(w)'
    BY DEF Reachable
  <2>1. OnTheWay(w)
    BY <1>9, <1>reach, <1>task DEF Reachable, MarkDelivered, Owns
  <2> QED BY <1>9, <2>1 DEF OnTheWay, InLists, MarkDelivered, Finish, Free,
     NoMsg
<1>10. ASSUME NEW k \in Task, Release(k) PROVE Reachable'
  <2> SUFFICES ASSUME phase' = "up", NEW w \in Msg, status'[w] = "QUEUED"
               PROVE  OnTheWay(w)'
    BY DEF Reachable
  <2>1. OnTheWay(w) \/ (w = tasks[k].msg /\ tasks[k].attempt < MaxAttempts)
    <3>1. tasks[k].msg \in Msg /\ phase = "up" /\ tasks[k].pc = "failed"
      BY <1>10, <1>task DEF Release
    <3>2. CASE w = tasks[k].msg
      <4>1. lease[w] = attempts[w] /\ lease[w] = tasks[k].attempt
        BY <1>held, <3>1, <3>2 DEF Holding, RowsInv, RowInv
      <4>2. Retry(w) = "QUEUED"
        BY <1>10, <1>held, <3>1, <3>2 DEF Release, Owns, Holding
      <4> QED BY <3>2, <4>1, <4>2 DEF Retry
    <3>3. CASE w # tasks[k].msg
      <4>1. status'[w] = status[w]
        BY <1>10, <3>1, <3>3 DEF Release
      <4> QED BY <1>reach, <3>1, <4>1 DEF Reachable
    <3> QED BY <3>2, <3>3
  <2> QED BY <1>10, <2>1 DEF OnTheWay, InLists, Release, Advance, Finish,
     Free, NoMsg
<1>11. ASSUME NEW k \in Task, Requeue(k) PROVE Reachable'
  <2> SUFFICES ASSUME phase' = "up", NEW w \in Msg, status'[w] = "QUEUED"
               PROVE  OnTheWay(w)'
    BY DEF Reachable
  <2>1. OnTheWay(w)
    BY <1>11, <1>reach DEF Reachable, Requeue
  <2>2. InLists' = InLists \cup {tasks[k].msg}
    BY <1>11, PushReaches, <1>task DEF Requeue, ListsType
  <2> QED BY <1>11, <2>1, <2>2 DEF OnTheWay, Requeue, Finish, Free, NoMsg
<1>12. ASSUME NEW k \in Task, ClaimFails(k) PROVE Reachable'
  <2> SUFFICES ASSUME phase' = "up", NEW w \in Msg, status'[w] = "QUEUED"
               PROVE  OnTheWay(w)'
    BY DEF Reachable
  <2>1. OnTheWay(w)
    BY <1>12, <1>reach DEF Reachable, ClaimFails
  <2> QED BY <1>12, <2>1 DEF OnTheWay, InLists, ClaimFails, Finish, Free,
     NoMsg
<1>13. ASSUME NEW k \in Task, CreateSessionFails(k) PROVE Reachable'
  <2> SUFFICES ASSUME phase' = "up", NEW w \in Msg, status'[w] = "QUEUED"
               PROVE  OnTheWay(w)'
    BY DEF Reachable
  <2>1. OnTheWay(w)
    BY <1>13, <1>reach DEF Reachable, CreateSessionFails
  <2> QED BY <1>13, <2>1 DEF OnTheWay, InLists, CreateSessionFails, Advance
<1>14. ASSUME NEW k \in Task, LeftDelivering(k) PROVE Reachable'
  <2> SUFFICES ASSUME phase' = "up", NEW w \in Msg, status'[w] = "QUEUED"
               PROVE  OnTheWay(w)'
    BY DEF Reachable
  <2>1. OnTheWay(w)
    BY <1>14, <1>reach DEF Reachable, LeftDelivering
  <2> QED BY <1>14, <2>1 DEF OnTheWay, InLists, LeftDelivering, Finish, Free,
     NoMsg
<1>15. ASSUME NEW k \in Task, ReleaseFails(k) PROVE Reachable'
  <2> SUFFICES ASSUME phase' = "up", NEW w \in Msg, status'[w] = "QUEUED"
               PROVE  OnTheWay(w)'
    BY DEF Reachable
  <2>1. OnTheWay(w)
    BY <1>15, <1>reach DEF Reachable, ReleaseFails
  <2> QED BY <1>15, <2>1 DEF OnTheWay, InLists, ReleaseFails, Finish, Free,
     NoMsg
<1>16. ASSUME NEW k \in Task, RequeueFails(k) PROVE Reachable'
  <2> SUFFICES ASSUME phase' = "up", NEW w \in Msg, status'[w] = "QUEUED"
               PROVE  OnTheWay(w)'
    BY DEF Reachable
  <2>1. OnTheWay(w)
    BY <1>16, <1>reach DEF Reachable, RequeueFails
  <2> QED BY <1>16, <2>1 DEF OnTheWay, InLists, RequeueFails, Finish, Free,
     NoMsg
<1>17. ASSUME DrainStart PROVE Reachable'
  <2> SUFFICES ASSUME phase' = "up", NEW w \in Msg, status'[w] = "QUEUED"
               PROVE  OnTheWay(w)'
    BY DEF Reachable
  <2>1. OnTheWay(w)
    BY <1>17, <1>reach DEF Reachable, DrainStart
  <2> QED BY <1>17, <2>1 DEF OnTheWay, InLists, DrainStart, Off, NoMsg
<1>18. ASSUME DrainPop PROVE Reachable'
  <2> SUFFICES ASSUME phase' = "up", NEW w \in Msg, status'[w] = "QUEUED"
               PROVE  OnTheWay(w)'
    BY DEF Reachable
  <2>1. OnTheWay(w)
    BY <1>18, <1>reach DEF Reachable, DrainPop
  <2>2. inbox # <<>> /\ InLists = InLists' \cup {Head(inbox)}
    <3>1. inbox # <<>> /\ inbox' = Tail(inbox) /\ dispatch' = dispatch
      BY <1>18 DEF DrainPop
    <3>2. inbox \in Seq(Inject) /\ Head(inbox) \in Inject
      BY <3>1 DEF ListsType
    <3>3. ToSet(inbox) = {Head(inbox)} \cup ToSet(Tail(inbox))
      BY <3>1, <3>2, ToSetFacts
    <3> QED BY <3>1, <3>3 DEF InLists
  <2> QED BY <1>18, <2>1, <2>2 DEF OnTheWay, DrainPop
<1>19. ASSUME DrainEmpty PROVE Reachable'
  <2> SUFFICES ASSUME phase' = "up", NEW w \in Msg, status'[w] = "QUEUED"
               PROVE  OnTheWay(w)'
    BY DEF Reachable
  <2>1. OnTheWay(w)
    BY <1>19, <1>reach DEF Reachable, DrainEmpty
  <2> QED BY <1>19, <2>1 DEF OnTheWay, InLists, DrainEmpty, Off, NoMsg
<1>20. ASSUME DrainClaim PROVE Reachable'
  <2> SUFFICES ASSUME phase' = "up", NEW w \in Msg, status'[w] = "QUEUED"
               PROVE  OnTheWay(w)'
    BY DEF Reachable
  <2>1. OnTheWay(w) /\ w # drain.msg
    BY <1>20, <1>reach, <1>drain DEF Reachable, DrainClaim, ClaimRow
  <2> QED BY <1>20, <2>1 DEF OnTheWay, InLists, DrainClaim
<1>21. ASSUME DrainClaimNothing PROVE Reachable'
  <2> SUFFICES ASSUME phase' = "up", NEW w \in Msg, status'[w] = "QUEUED"
               PROVE  OnTheWay(w)'
    BY DEF Reachable
  <2>1. OnTheWay(w) /\ w # drain.msg
    BY <1>21, <1>reach, <1>drain DEF Reachable, DrainClaimNothing, Claimable,
       RowsInv, RowInv
  <2> QED BY <1>21, <2>1 DEF OnTheWay, InLists, DrainClaimNothing, Off, NoMsg
<1>22. ASSUME DrainDelivers PROVE Reachable'
  <2> SUFFICES ASSUME phase' = "up", NEW w \in Msg, status'[w] = "QUEUED"
               PROVE  OnTheWay(w)'
    BY DEF Reachable
  <2>1. OnTheWay(w)
    BY <1>22, <1>reach, <1>drain DEF Reachable, DrainDelivers
  <2> QED BY <1>22, <2>1 DEF OnTheWay, InLists, DrainDelivers, Off, NoMsg
<1>23. ASSUME DrainClaimFails PROVE Reachable'
  <2> SUFFICES ASSUME phase' = "up", NEW w \in Msg, status'[w] = "QUEUED"
               PROVE  OnTheWay(w)'
    BY DEF Reachable
  <2>1. OnTheWay(w)
    BY <1>23, <1>reach DEF Reachable, DrainClaimFails
  <2>2. drain.msg \in InLists' \cup dropped' /\ InLists \subseteq InLists'
        /\ dropped \subseteq dropped'
    <3>1. CASE Push(drain.msg) /\ UNCHANGED dropped
      BY <1>23, <1>drain, <3>1, PushReaches DEF DrainClaimFails
    <3>2. CASE dropped' = dropped \cup {drain.msg} /\ UNCHANGED lists
      BY <3>2 DEF lists, InLists
    <3> QED BY <1>23, <3>1, <3>2 DEF DrainClaimFails
  <2> QED BY <1>23, <2>1, <2>2 DEF OnTheWay, DrainClaimFails, Off
<1>24. ASSUME DrainFails PROVE Reachable'
  <2> SUFFICES ASSUME phase' = "up", NEW w \in Msg, status'[w] = "QUEUED"
               PROVE  OnTheWay(w)'
    BY DEF Reachable
  <2>1. OnTheWay(w) \/ (w = drain.msg /\ drain.attempt < MaxAttempts)
    <3>1. phase = "up" /\ drain.pc = "claimed" /\ drain.msg \in Msg
      BY <1>24, <1>drain DEF DrainFails, DrainReset
    <3>2. CASE w = drain.msg
      <4>1. lease[w] = attempts[w] /\ lease[w] = drain.attempt
        BY <1>heldByDrain, <3>1, <3>2 DEF RowsInv, RowInv
      <4>2. Retry(w) = "QUEUED"
        BY <1>24, <3>1, <3>2 DEF DrainFails, DrainReset
      <4> QED BY <3>2, <4>1, <4>2 DEF Retry
    <3>3. CASE w # drain.msg
      <4>1. status'[w] = status[w]
        BY <1>24, <3>1, <3>3 DEF DrainFails, DrainReset
      <4> QED BY <1>reach, <3>1, <4>1 DEF Reachable
    <3> QED BY <3>2, <3>3
  <2>2. InLists \subseteq InLists'
        /\ (drain.attempt < MaxAttempts => drain.msg \in InLists')
    <3>1. CASE drain.attempt < MaxAttempts
      BY <1>24, <1>drain, <3>1, PushReaches DEF DrainFails, DrainReset
    <3>2. CASE ~(drain.attempt < MaxAttempts)
      BY <1>24, <3>2 DEF DrainFails, InLists
    <3> QED BY <3>1, <3>2
  <2> QED BY <1>24, <2>1, <2>2 DEF OnTheWay, DrainFails, DrainReset, Off
<1>25. ASSUME DrainPushFails PROVE Reachable'
  <2> SUFFICES ASSUME phase' = "up", NEW w \in Msg, status'[w] = "QUEUED"
               PROVE  OnTheWay(w)'
    BY DEF Reachable
  <2>1. OnTheWay(w) \/ w = drain.msg
    BY <1>25, <1>reach, <1>drain DEF Reachable, DrainPushFails, DrainReset
  <2> QED BY <1>25, <2>1 DEF OnTheWay, InLists, DrainPushFails, DrainReset,
     Off, NoMsg
<1>26. ASSUME DrainResetFails PROVE Reachable'
  <2> SUFFICES ASSUME phase' = "up", NEW w \in Msg, status'[w] = "QUEUED"
               PROVE  OnTheWay(w)'
    BY DEF Reachable
  <2>1. OnTheWay(w)
    BY <1>26, <1>reach DEF Reachable, DrainResetFails
  <2> QED BY <1>26, <2>1 DEF OnTheWay, InLists, DrainResetFails, Off, NoMsg
<1>27. ASSUME Crash PROVE Reachable'
  BY <1>27 DEF Reachable, Crash
<1>28. ASSUME Start PROVE Reachable'
  BY <1>28 DEF Reachable, Start
<1>29. ASSUME Finalize PROVE Reachable'
  BY <1>29 DEF Reachable, Finalize
<1>30. ASSUME ResetStale PROVE Reachable'
  BY <1>30 DEF Reachable, ResetStale
<1>31. ASSUME RequeueAll PROVE Reachable'
  <2> DEFINE queued == {m \in Msg : status[m] = "QUEUED"}
  <2>1. IsFiniteSet(queued \cap NewSession) /\ IsFiniteSet(queued \cap Inject)
    BY KindsAssumption, FS_Subset DEF Msg
  <2>2. queued \cap NewSession \subseteq ToSet(dispatch')
    <3> DEFINE S == queued \cap NewSession
    <3>1. SetToSeq(S) \in Seq(S) /\ ToSet(SetToSeq(S)) = S
      BY <2>1, SetToSeqType
    <3>2. SetToSeq(S) \in Seq(NewSession)
      BY <3>1, SeqMonotonic
    <3>3. dispatch' = dispatch \o SetToSeq(S) /\ dispatch \in Seq(NewSession)
      BY <1>31 DEF RequeueAll, ListsType
    <3> HIDE DEF S
    <3>4. CASE NewSession = {}
      BY <3>4 DEF S
    <3>5. CASE NewSession # {}
      <4>1. ToSet(dispatch \o SetToSeq(S)) =
              ToSet(dispatch) \cup ToSet(SetToSeq(S))
        BY <3>2, <3>3, <3>5, ToSetFacts
      <4> QED BY <3>1, <3>3, <4>1 DEF S
    <3> QED BY <3>4, <3>5
  <2>3. queued \cap Inject \subseteq ToSet(inbox')
    <3> DEFINE S == queued \cap Inject
    <3>1. SetToSeq(S) \in Seq(S) /\ ToSet(SetToSeq(S)) = S
      BY <2>1, SetToSeqType
    <3>2. SetToSeq(S) \in Seq(Inject)
      BY <3>1, SeqMonotonic
    <3>3. inbox' = inbox \o SetToSeq(S) /\ inbox \in Seq(Inject)
      BY <1>31 DEF RequeueAll, ListsType
    <3> HIDE DEF S
    <3>4. CASE Inject = {}
      BY <3>4 DEF S
    <3>5. CASE Inject # {}
      <4>1. ToSet(inbox \o SetToSeq(S)) = ToSet(inbox) \cup ToSet(SetToSeq(S))
        BY <3>2, <3>3, <3>5, ToSetFacts
      <4> QED BY <3>1, <3>3, <4>1 DEF S
    <3> QED BY <3>4, <3>5
  <2> QED BY <1>31, <2>2, <2>3 DEF RequeueAll, Reachable, OnTheWay, InLists,
     Msg
<1>32. ASSUME RecoveryFails PROVE Reachable'
  BY <1>32 DEF RecoveryFails, Reachable, OnTheWay
<1>33. ASSUME UNCHANGED vars PROVE Reachable'
  <2>1. UNCHANGED <<phase, status, dispatch, inbox, sending, tasks, drain,
                    dropped>>
    BY <1>33 DEF vars, rows, lists
  <2>2. InLists' = InLists BY <2>1 DEF InLists
  <2>3. \A m \in Msg : OnTheWay(m) => OnTheWay(m)'
    BY <2>1, <2>2 DEF OnTheWay
  <2> QED BY <1>reach, <2>1, <2>3 DEF Reachable
<1>34. ASSUME DrainPopStopped PROVE Reachable'
  <2> SUFFICES ASSUME phase' = "up", NEW w \in Msg, status'[w] = "QUEUED"
               PROVE  OnTheWay(w)'
    BY DEF Reachable
  <2>1. OnTheWay(w)
    BY <1>34, <1>reach DEF Reachable, DrainPopStopped
  <2>2. InLists \cup dropped \subseteq InLists' \cup dropped'
    <3>1. CASE UNCHANGED <<inbox, dropped>>
      BY <1>34, <3>1 DEF InLists, DrainPopStopped
    <3>2. CASE inbox # <<>> /\ inbox' = Tail(inbox)
                 /\ dropped' = dropped \cup {Head(inbox)}
      <4>1. inbox \in Seq(Inject) /\ Head(inbox) \in Inject
        BY <3>2 DEF ListsType
      <4>2. ToSet(inbox) = {Head(inbox)} \cup ToSet(Tail(inbox))
        BY <3>2, <4>1, ToSetFacts
      <4> QED BY <1>34, <3>2, <4>2 DEF InLists, DrainPopStopped
    <3> QED BY <1>34, <3>1, <3>2 DEF DrainPopStopped
  <2> QED BY <1>34, <2>1, <2>2 DEF OnTheWay, DrainPopStopped
<1>35. ASSUME DrainClaimStopped PROVE Reachable'
  <2> SUFFICES ASSUME phase' = "up", NEW w \in Msg, status'[w] = "QUEUED"
               PROVE  OnTheWay(w)'
    BY DEF Reachable
  <2>1. OnTheWay(w) /\ (w # drain.msg \/ w \in dropped')
    BY <1>35, <1>reach, <1>drain DEF Reachable, DrainClaimStopped, ClaimRow
  <2> QED BY <1>35, <2>1 DEF OnTheWay, InLists, DrainClaimStopped
<1>36. ASSUME DrainDeliveryStopped PROVE Reachable'
  <2> SUFFICES ASSUME phase' = "up", NEW w \in Msg, status'[w] = "QUEUED"
               PROVE  OnTheWay(w)'
    BY DEF Reachable
  <2>1. drain.pc = "claimed" /\ drain.msg \in Msg /\ phase = "up"
    BY <1>36, <1>drain DEF DrainDeliveryStopped, DrainReset
  <2>2. OnTheWay(w) \/ w \in dropped'
    BY <1>36, <1>reach, <2>1 DEF Reachable, DrainDeliveryStopped, DrainReset
  <2> QED BY <1>36, <2>1, <2>2 DEF OnTheWay, InLists, DrainDeliveryStopped,
     DrainReset
<1> QED BY <1>1, <1>2, <1>3, <1>4, <1>5, <1>6, <1>7, <1>8, <1>9, <1>10, <1>11,
   <1>12, <1>13, <1>14, <1>15, <1>16, <1>17, <1>18, <1>19, <1>20, <1>21,
   <1>22, <1>23, <1>24, <1>25, <1>26, <1>27, <1>28, <1>29, <1>30, <1>31,
   <1>32, <1>33, <1>34, <1>35, <1>36 DEF Next, TaskStep, TaskFails, DrainStep, Startup

-----------------------------------------------------------------------------
(* The theorems                                                            *)

\* Sessions are created and injections made only by a holder before its
\* session is recorded.
LEMMA OnlyUnresolvedMade ==
  Inv /\ [Next]_vars => \A m \in Msg : resolved[m] => made'[m] = made[m]
<1> SUFFICES ASSUME Inv, [Next]_vars, NEW w \in Msg, resolved[w]
             PROVE  made'[w] = made[w]
  OBVIOUS
<1> USE DEF Inv, StageInv, TypeOK, HistoryType
<1>1. ASSUME NEW k \in Task, CreateSession(k) PROVE made'[w] = made[w]
  <2>1. tasks[k].msg # w BY <1>1 DEF CreateSession, TasksInv, TaskInv
  <2> QED BY <1>1, <2>1 DEF CreateSession
<1>2. ASSUME NEW k \in Task, CreateSessionFails(k) PROVE made'[w] = made[w]
  <2>1. tasks[k].msg # w BY <1>2 DEF CreateSessionFails, TasksInv, TaskInv
  <2> QED BY <1>2, <2>1 DEF CreateSessionFails
<1>3. ASSUME DrainDelivers PROVE made'[w] = made[w]
  <2>1. drain.msg # w BY <1>3 DEF DrainDelivers, DrainInv
  <2> QED BY <1>3, <2>1 DEF DrainDelivers
<1>4. ASSUME DrainFails PROVE made'[w] = made[w]
  <2>1. drain.msg # w BY <1>4 DEF DrainFails, DrainReset, DrainInv
  <2> QED BY <1>4, <2>1 DEF DrainFails, DrainReset
<1>5. ASSUME DrainPushFails PROVE made'[w] = made[w]
  <2>1. drain.msg # w BY <1>5 DEF DrainPushFails, DrainReset, DrainInv
  <2> QED BY <1>5, <2>1 DEF DrainPushFails, DrainReset
<1>6. ASSUME DrainResetFails PROVE made'[w] = made[w]
  <2>1. drain.msg # w BY <1>6 DEF DrainResetFails, DrainInv
  <2> QED BY <1>6, <2>1 DEF DrainResetFails
<1>7. ASSUME NEW m \in Msg, 
            SendRow(m) \/ SendPush(m) \/ SendPushFails(m)
      PROVE  made'[w] = made[w]
  BY <1>7 DEF SendRow, SendPush, SendPushFails
<1>8. ASSUME NEW k \in Task, 
            Listen(k) \/ Claim(k) \/ ClaimNothing(k) \/ RecordSession(k) \/
            MarkDelivered(k) \/ Release(k) \/ Requeue(k) \/ ClaimFails(k)
            \/ LeftDelivering(k) \/ ReleaseFails(k) \/ RequeueFails(k)
      PROVE  made'[w] = made[w]
  BY <1>8 DEF Listen, Claim, ClaimNothing, RecordSession, MarkDelivered,
     Release, Requeue, ClaimFails, LeftDelivering, ReleaseFails, RequeueFails
<1>9. ASSUME 
            DrainStart \/ DrainPop \/ DrainEmpty \/ DrainClaim \/
            DrainClaimNothing \/ DrainClaimFails \/ Crash \/ Start \/
            Finalize \/ ResetStale \/ RequeueAll \/ RecoveryFails
      PROVE  made'[w] = made[w]
  BY <1>9 DEF DrainStart, DrainPop, DrainEmpty, DrainClaim, DrainClaimNothing,
     DrainClaimFails, Crash, Start, Finalize, ResetStale, RequeueAll,
     RecoveryFails
<1>10. ASSUME UNCHANGED vars PROVE made'[w] = made[w]
  BY <1>10 DEF vars
<1>11. ASSUME DrainPopStopped \/ DrainClaimStopped PROVE made'[w] = made[w]
  BY <1>11 DEF DrainPopStopped, DrainClaimStopped
<1>12. ASSUME DrainDeliveryStopped PROVE made'[w] = made[w]
  <2>1. drain.msg # w BY <1>12 DEF DrainDeliveryStopped, DrainInv
  <2> QED BY <1>12, <2>1 DEF DrainDeliveryStopped, DrainReset
<1> QED BY <1>1, <1>2, <1>3, <1>4, <1>5, <1>6, <1>7, <1>8, <1>9, <1>10, <1>11,
   <1>12 DEF Next, TaskStep, TaskFails, DrainStep, Startup

\* Before the first message, the invariant holds.
LEMMA InitInv == Init => Inv
<1> SUFFICES ASSUME Init PROVE Inv OBVIOUS
<1> USE BoundsAssumption, KindsAssumption
<1>1. TypeOK
  <2>1. RowsType /\ ListsType BY DEF Init, RowsType, ListsType, MessageStatus
  <2>2. WorkersType
    BY DEF Init, WorkersType, Free, Off, TaskPC, DrainPC, Holding
  <2>3. HistoryType BY DEF Init, HistoryType
  <2> QED BY <2>1, <2>2, <2>3 DEF TypeOK
<1>2. Attached BY DEF Init, Attached, Free, Off
<1>3. HeldInv
  BY DEF Init, HeldInv, LeaseHeld, Exclusive, Holding, Free, Off
<1>4. RowsInv BY DEF Init, RowsInv, RowInv
<1>5. StageInv
  BY DEF Init, StageInv, DrainInv, TasksInv, TaskInv, Free, Off
<1>6. QueuedIsReachable BY DEF Init, QueuedIsReachable
<1> QED BY <1>1, <1>2, <1>3, <1>4, <1>5, <1>6 DEF Inv

\* The invariant is inductive.
LEMMA InvStep == Inv /\ [Next]_vars => Inv'
<1> SUFFICES ASSUME Inv, [Next]_vars PROVE Inv' OBVIOUS
<1>1. TypeOK' /\ Attached' BY TypeStep DEF Inv
<1>2. HeldInv' BY HeldStep
<1>3. RowsInv' BY RowsStep
<1>4. StageInv' BY StageStep
<1>5. Reachable' BY ReachStep
<1>6. QueuedIsReachable' BY <1>5, ReachableSame, PTL
<1> QED BY <1>1, <1>2, <1>3, <1>4, <1>6 DEF Inv

\* The invariant holds throughout, whatever the constants are.
LEMMA Invariance == Spec => []Inv
<1>1. Init => Inv BY InitInv
<1>2. Inv /\ [Next]_vars => Inv' BY InvStep
<1> QED BY <1>1, <1>2, PTL DEF Spec

\* Every variable keeps its type: in particular an attempt_count never passes
\* max_attempts, and each Redis list holds only ids of its own kind.
THEOREM TypeCorrect == Spec => []TypeOK
<1>1. Inv => TypeOK BY DEF Inv
<1> QED BY <1>1, Invariance, PTL

\* The guarded UPDATEs of the delivery tasks, and the unguarded ones of the
\* drain, only ever change a row that their worker still holds: no claim,
\* release, drain or recovery step takes a row away from its worker.
THEOREM LeasesAreHeld == Spec => []LeaseHeld
<1>1. Inv => LeaseHeld BY DEF Inv, HeldInv
<1> QED BY <1>1, Invariance, PTL

\* Delivery creates at most max_attempts sessions or injections of a message,
\* one per claim, through every failure, retry, crash and recovery.
THEOREM AtMostOncePerAttempt == Spec => []OncePerAttempt
<1>1. Inv => OncePerAttempt
  BY BoundsAssumption
     DEF Inv, TypeOK, RowsType, HistoryType, RowsInv, RowInv, OncePerAttempt
<1> QED BY <1>1, Invariance, PTL

\* DELIVERED and FAILED tell the truth about the message.
THEOREM VerdictsAreTrue == Spec => []VerdictIsTrue
<1>1. Inv => VerdictIsTrue BY DEF Inv, RowsInv, RowInv, VerdictIsTrue
<1> QED BY <1>1, Invariance, PTL

\* While the server runs, the id of a QUEUED message is in a list or in
\* somebody's hands, unless since the last recovery a push of it failed or a
\* stop cancelled the drain that had it.
THEOREM QueuedStaysReachable == Spec => []QueuedIsReachable
<1>1. Inv => QueuedIsReachable BY DEF Inv
<1> QED BY <1>1, Invariance, PTL

\* Once phase A has recorded a session for a message, no retry, drain or
\* recovery creates another one.
THEOREM RecordedIsFinal == Spec => NoSecondSession
<1>1. Inv /\ [Next]_vars =>
        [\A m \in Msg : resolved[m] => made'[m] = made[m]]_vars
  BY OnlyUnresolvedMade
<1> QED BY <1>1, Invariance, PTL DEF Spec, NoSecondSession

-----------------------------------------------------------------------------
(* AgentMessages implements MessageFate                                    *)

FateVars == <<status, attempts, made, resolved>>

\* A claim, by a delivery task or by the drain, begins a try.
LEMMA ClaimIsTry ==
  ASSUME TypeOK, NEW m \in Msg, ClaimRow(m), UNCHANGED made
  PROVE  Fate!Try(m)
BY BoundsAssumption DEF TypeOK, RowsType, ClaimRow, Claimable, Fate!Try

\* A step of whoever holds the row of m that makes no session.
LEMMA NothingMade ==
  ASSUME TypeOK, NEW m \in Msg, status[m] = "DELIVERING",
         NEW known \in BOOLEAN, resolved[m] => known, known => made[m] > 0,
         NEW s \in {"DELIVERING", Fate!Verdict(m, known)},
         resolved' = [resolved EXCEPT ![m] = known],
         status' = [status EXCEPT ![m] = s],
         UNCHANGED <<made, attempts>>
  PROVE  Fate!Work(m)
<1> DEFINE new == 0
<1>1. /\ new \in {0, 1} /\ new # 1
      /\ made' = [made EXCEPT ![m] = @ + new]
      /\ known => made[m] + new > 0
  BY DEF TypeOK, HistoryType
<1> HIDE DEF new
<1> QED BY <1>1 DEF Fate!Work

\* A step of a delivery task on its row.
LEMMA TaskFate ==
  ASSUME Inv, NEW k \in Task, TaskStep(k) \/ TaskFails(k)
  PROVE  [Fate!Next]_FateVars
<1> DEFINE m == tasks[k].msg
<1> USE DEF Inv, TypeOK, HistoryType, FateVars
<1>1. ASSUME tasks[k].pc \in Holding
      PROVE  /\ m \in Msg /\ Owns(m, tasks[k].attempt) /\ RowInv(m) /\ TaskInv(k)
             /\ status[m] = "DELIVERING"
  <2>1. m \in Msg BY <1>1 DEF Attached, Holding, Msg
  <2>2. Owns(m, tasks[k].attempt) BY <1>1 DEF HeldInv, LeaseHeld
  <2> QED BY <2>1, <2>2 DEF RowsInv, StageInv, TasksInv, Owns
<1>2. CASE Claim(k)
  <2>1. m \in Msg BY <1>2 DEF Claim, Attached, Msg
  <2>2. Fate!Try(m) BY <1>2, <2>1, ClaimIsTry DEF Claim
  <2> QED BY <2>1, <2>2 DEF Fate!Next
<1>3. CASE CreateSession(k)
  <2>1. m \in Msg /\ status[m] = "DELIVERING" /\ ~resolved[m] /\ made[m] < attempts[m]
    BY <1>1, <1>3 DEF CreateSession, Holding, TaskInv
  <2>2. /\ made' = [made EXCEPT ![m] = @ + 1]
        /\ resolved' = [resolved EXCEPT ![m] = FALSE]
        /\ status' = [status EXCEPT ![m] = "DELIVERING"]
        /\ UNCHANGED attempts
    BY <1>3, <2>1 DEF CreateSession, rows, RowsType
  <2>3. Fate!Work(m) BY <2>1, <2>2 DEF Fate!Work
  <2> QED BY <2>1, <2>3 DEF Fate!Next
<1>4. CASE CreateSessionFails(k)
  <2>1. m \in Msg /\ status[m] = "DELIVERING" /\ ~resolved[m] /\ made[m] < attempts[m]
    BY <1>1, <1>4 DEF CreateSessionFails, Holding, TaskInv
  <2>2. PICK new \in {0, 1} : made' = [made EXCEPT ![m] = @ + new]
    BY <1>4 DEF CreateSessionFails
  <2>3. /\ resolved' = [resolved EXCEPT ![m] = FALSE]
        /\ status' = [status EXCEPT ![m] = "DELIVERING"]
        /\ UNCHANGED attempts
    BY <1>4, <2>1 DEF CreateSessionFails, rows, RowsType
  <2>4. Fate!Work(m) BY <2>1, <2>2, <2>3 DEF Fate!Work
  <2> QED BY <2>1, <2>4 DEF Fate!Next
<1>5. CASE RecordSession(k)
  <2>1. /\ m \in Msg /\ status[m] = "DELIVERING" /\ made[m] > 0
        /\ Owns(m, tasks[k].attempt)
    BY <1>1, <1>5 DEF RecordSession, Holding, TaskInv
  <2>2. resolved' = [resolved EXCEPT ![m] = TRUE]
    BY <1>5, <2>1, Zenon DEF RecordSession
  <2>3. /\ status' = [status EXCEPT ![m] = "DELIVERING"]
        /\ UNCHANGED <<made, attempts>>
    BY <1>5, <2>1 DEF RecordSession, RowsType
  <2>4. Fate!Work(m) BY <2>1, <2>2, <2>3, NothingMade
  <2> QED BY <2>1, <2>4 DEF Fate!Next
<1>6. CASE MarkDelivered(k)
  <2>1. /\ m \in Msg /\ status[m] = "DELIVERING" /\ resolved[m] /\ made[m] > 0
        /\ Owns(m, tasks[k].attempt)
    BY <1>1, <1>6 DEF MarkDelivered, Holding, TaskInv, RowInv
  <2>2. /\ resolved' = [resolved EXCEPT ![m] = TRUE]
        /\ status' = [status EXCEPT ![m] = Fate!Verdict(m, TRUE)]
        /\ UNCHANGED <<made, attempts>>
    BY <1>6, <2>1 DEF MarkDelivered, RowsType, Fate!Verdict
  <2>3. Fate!Work(m) BY <2>1, <2>2, NothingMade
  <2> QED BY <2>1, <2>3 DEF Fate!Next
<1>7. CASE Release(k)
  <2>1. /\ m \in Msg /\ status[m] = "DELIVERING" /\ ~resolved[m]
        /\ Owns(m, tasks[k].attempt)
    BY <1>1, <1>7 DEF Release, Holding, TaskInv
  <2>2. Retry(m) = Fate!Verdict(m, FALSE)
    BY <2>1, BoundsAssumption DEF Retry, Fate!Verdict, RowsType
  <2>3. /\ resolved' = [resolved EXCEPT ![m] = FALSE]
        /\ status' = [status EXCEPT ![m] = Fate!Verdict(m, FALSE)]
        /\ UNCHANGED <<made, attempts>>
    BY <1>7, <2>1, <2>2 DEF Release, RowsType
  <2>4. Fate!Work(m) BY <2>1, <2>3, NothingMade
  <2> QED BY <2>1, <2>4 DEF Fate!Next
<1>8. CASE ClaimNothing(k) \/ Requeue(k) \/ TaskFails(k)
  <2>1. CASE CreateSessionFails(k) BY <1>4, <2>1
  <2>2. CASE ClaimNothing(k) \/ Requeue(k) \/ ClaimFails(k) \/ LeftDelivering(k)
               \/ ReleaseFails(k) \/ RequeueFails(k)
    BY <2>2 DEF ClaimNothing, Requeue, ClaimFails, LeftDelivering, ReleaseFails,
       RequeueFails, rows
  <2> QED BY <1>8, <2>1, <2>2 DEF TaskFails
<1> QED BY <1>2, <1>3, <1>4, <1>5, <1>6, <1>7, <1>8 DEF TaskStep

\* A step of the drain on the row it has claimed.
LEMMA DrainFate ==
  ASSUME Inv,
         \/ DrainStep \/ DrainFails \/ DrainPushFails \/ DrainResetFails
         \/ DrainPopStopped \/ DrainClaimStopped \/ DrainDeliveryStopped
  PROVE  [Fate!Next]_FateVars
<1> DEFINE m == drain.msg
<1> USE DEF Inv, TypeOK, HistoryType, FateVars
<1>1. ASSUME drain.pc = "claimed"
      PROVE  /\ m \in Msg /\ status[m] = "DELIVERING" /\ ~resolved[m]
             /\ made[m] < attempts[m]
  BY <1>1 DEF Attached, Msg, HeldInv, LeaseHeld, Owns, StageInv, DrainInv
<1>2. CASE DrainClaim
  <2>1. m \in Msg BY <1>2 DEF DrainClaim, Attached, Msg
  <2>2. Fate!Try(m) BY <1>2, <2>1, ClaimIsTry DEF DrainClaim
  <2> QED BY <2>1, <2>2 DEF Fate!Next
<1>3. CASE DrainDelivers
  <2>1. drain.pc = "claimed" BY <1>3 DEF DrainDelivers
  <2>2. /\ made' = [made EXCEPT ![m] = @ + 1]
        /\ resolved' = [resolved EXCEPT ![m] = TRUE]
        /\ status' = [status EXCEPT ![m] = Fate!Verdict(m, TRUE)]
        /\ UNCHANGED attempts
    BY <1>3 DEF DrainDelivers, Fate!Verdict
  <2>3. made[m] + 1 > 0 BY <1>1, <2>1
  <2>4. Fate!Work(m) BY <1>1, <2>1, <2>2, <2>3 DEF Fate!Work
  <2> QED BY <1>1, <2>1, <2>4 DEF Fate!Next
<1>4. ASSUME DrainReset PROVE Fate!Next
  <2>1. drain.pc = "claimed" BY <1>4 DEF DrainReset
  <2>2. PICK new \in {0, 1} : made' = [made EXCEPT ![m] = @ + new]
    BY <1>4 DEF DrainReset
  <2>3. Retry(m) = Fate!Verdict(m, FALSE)
    BY <1>1, <2>1, BoundsAssumption DEF Retry, Fate!Verdict, RowsType
  <2>4. /\ resolved' = [resolved EXCEPT ![m] = FALSE]
        /\ status' = [status EXCEPT ![m] = Fate!Verdict(m, FALSE)]
        /\ UNCHANGED attempts
    BY <1>1, <1>4, <2>1, <2>3 DEF DrainReset, RowsType
  <2>5. Fate!Work(m) BY <1>1, <2>1, <2>2, <2>4 DEF Fate!Work
  <2> QED BY <1>1, <2>1, <2>5 DEF Fate!Next
<1>5. CASE DrainResetFails \/ (DrainDeliveryStopped /\ UNCHANGED rows)
  <2>1. drain.pc = "claimed" BY <1>5 DEF DrainResetFails, DrainDeliveryStopped
  <2>2. PICK new \in {0, 1} : made' = [made EXCEPT ![m] = @ + new]
    BY <1>5 DEF DrainResetFails, DrainDeliveryStopped, DrainReset
  <2>3. /\ resolved' = [resolved EXCEPT ![m] = FALSE]
        /\ status' = [status EXCEPT ![m] = "DELIVERING"]
        /\ UNCHANGED attempts
    BY <1>1, <1>5, <2>1 DEF DrainResetFails, rows, RowsType
  <2>4. Fate!Work(m) BY <1>1, <2>1, <2>2, <2>3 DEF Fate!Work
  <2> QED BY <1>1, <2>1, <2>4 DEF Fate!Next
<1>6. CASE DrainFails \/ DrainPushFails
  BY <1>4, <1>6 DEF DrainFails, DrainPushFails
<1>7. CASE DrainPop \/ DrainEmpty \/ DrainClaimNothing \/ DrainPopStopped
  BY <1>7 DEF DrainPop, DrainEmpty, DrainClaimNothing, DrainPopStopped, rows
<1>8. CASE DrainClaimStopped
  <2>1. CASE UNCHANGED rows
    BY <1>8, <2>1 DEF DrainClaimStopped, rows
  <2>2. CASE ClaimRow(m)
    <3>1. m \in Msg BY <1>8 DEF DrainClaimStopped, Attached, Msg
    <3>2. Fate!Try(m) BY <1>8, <2>2, <3>1, ClaimIsTry DEF DrainClaimStopped
    <3> QED BY <3>1, <3>2 DEF Fate!Next
  <2> QED BY <1>8, <2>1, <2>2 DEF DrainClaimStopped
<1>9. CASE DrainDeliveryStopped
  BY <1>4, <1>5, <1>9 DEF DrainDeliveryStopped
<1> QED BY <1>2, <1>3, <1>5, <1>6, <1>7, <1>8, <1>9 DEF DrainStep

\* The two steps of recovery that change rows end the tries of the messages
\* that the last process left DELIVERING.
LEMMA RecoveryFate ==
  ASSUME Inv, Finalize \/ ResetStale
  PROVE  Fate!Next
<1> USE DEF Inv, TypeOK, RowsType
<1>1. CASE Finalize
  <2> DEFINE done == {m \in Msg : status[m] = "DELIVERING" /\ resolved[m]}
  <2>1. status' = [m \in Msg |-> IF m \in done THEN Fate!Verdict(m, resolved[m])
                                               ELSE status[m]]
    BY <1>1 DEF Finalize, Fate!Verdict
  <2>2. Fate!Recover(done) BY <1>1, <2>1 DEF Finalize, Fate!Recover
  <2>3. done \in SUBSET {m \in Msg : status[m] = "DELIVERING"} OBVIOUS
  <2> QED BY <2>2, <2>3 DEF Fate!Next
<1>2. CASE ResetStale
  <2>1. PICK stale \in SUBSET {m \in Msg : /\ status[m] = "DELIVERING"
                                            /\ ~resolved[m]
                                            /\ ~(drain.pc = "claimed" /\ drain.msg = m)} :
          status' = [m \in Msg |-> IF m \in stale THEN Retry(m) ELSE status[m]]
    BY <1>2 DEF ResetStale
  <2>2. ASSUME NEW m \in Msg, m \in stale
        PROVE  Retry(m) = Fate!Verdict(m, resolved[m])
    BY <2>2, BoundsAssumption DEF Retry, Fate!Verdict
  <2>3. status' = [m \in Msg |-> IF m \in stale THEN Fate!Verdict(m, resolved[m])
                                                ELSE status[m]]
    BY <2>1, <2>2
  <2>4. Fate!Recover(stale) BY <1>2, <2>3 DEF ResetStale, Fate!Recover
  <2>5. stale \in SUBSET {m \in Msg : status[m] = "DELIVERING"} OBVIOUS
  <2> QED BY <2>4, <2>5 DEF Fate!Next
<1> QED BY <1>1, <1>2

\* Every step of the detailed specification is one of MessageFate or a stutter.
LEMMA FateStep == Inv /\ [Next]_vars => [Fate!Next]_FateVars
<1> SUFFICES ASSUME Inv, [Next]_vars PROVE [Fate!Next]_FateVars
  OBVIOUS
<1>1. ASSUME NEW m \in Msg, SendRow(m) PROVE Fate!Next
  <2>1. Fate!Send(m) BY <1>1 DEF SendRow, Fate!Send
  <2> QED BY <2>1 DEF Fate!Next
<1>2. ASSUME NEW m \in Msg, SendPush(m) \/ SendPushFails(m) PROVE UNCHANGED FateVars
  BY <1>2 DEF SendPush, SendPushFails, rows, FateVars
<1>3. ASSUME NEW k \in Task, Listen(k) PROVE UNCHANGED FateVars
  BY <1>3 DEF Listen, rows, FateVars
<1>4. CASE DrainStart \/ DrainClaimFails \/ Crash \/ Start \/ RequeueAll \/ RecoveryFails
  BY <1>4 DEF DrainStart, DrainClaimFails, Crash, Start, RequeueAll,
     RecoveryFails, rows, FateVars
<1>5. CASE UNCHANGED vars BY <1>5 DEF vars, rows, FateVars
<1> QED BY <1>1, <1>2, <1>3, <1>4, <1>5, TaskFate, DrainFate, RecoveryFate
     DEF Next, Startup

\* Claims, deliveries, releases, drains, crashes and recovery together do to a
\* message only what MessageFate allows: no verdict is ever taken back, no try
\* makes a second session, and a try is one of max_attempts.
THEOREM FateImplemented == Spec => FateKept
<1>1. Init => Fate!Init BY DEF Init, Fate!Init
<1>2. Inv /\ [Next]_vars => [Fate!Next]_Fate!vars
  BY FateStep DEF FateVars, Fate!vars
<1> QED BY <1>1, <1>2, Invariance, PTL DEF Spec, FateKept, Fate!Spec
=============================================================================
