------------------------ MODULE SessionTurns_proofs ------------------------
(***************************************************************************)
(* Theorems about SessionTurns, for every set of messages and every bound. *)
(***************************************************************************)
EXTENDS SessionTurns, SequenceTheorems, TLAPS

-----------------------------------------------------------------------------
(* Lemmas on the queue entries and the helpers                             *)

\* Combining queue entries gives a set of messages of the session.
LEMMA MergedType ==
  ASSUME NEW entries \in Seq(SUBSET Msg)
  PROVE  Merged(entries) \subseteq Msg
BY DEF Merged

\* One entry more, and two queues one after the other, are queues.
LEMMA SeqType ==
  ASSUME NEW S, NEW q \in Seq(S), NEW r \in Seq(S), NEW x \in S
  PROVE  /\ Append(q, x) \in Seq(S)
         /\ q \o r \in Seq(S)
         /\ <<x>> \in Seq(S)
         /\ q # <<>> => Head(q) \in S /\ Tail(q) \in Seq(S)
<1>1. Append(q, x) \in Seq(S) OBVIOUS
<1>2. q \o r \in Seq(S) OBVIOUS
<1>3. <<x>> \in Seq(S) OBVIOUS
<1>4. q # <<>> => Head(q) \in S /\ Tail(q) \in Seq(S) OBVIOUS
<1> QED BY <1>1, <1>2, <1>3, <1>4

\* A committed inbound row keeps the types of the rows and names its turn.
LEMMA AddTurnType ==
  ASSUME DbType, TaskType,
         NEW who \in {"message", "result", "resume", "fellow"},
         NEW by \in 0..MaxTurns, NEW messages \in SUBSET Msg,
         NEW known \in Status, AddTurn(who, by, messages, known)
  PROVE  /\ DbType'
         /\ rows + 1 \in Turn
         /\ starter' \in [Turn -> 0..MaxTurns]
<1> USE BoundsAssumption
<1>1. rows + 1 \in Turn BY DEF AddTurn, DbType, Turn
<1>2. status' \in Status BY DEF AddTurn, DbType, Reactivated, Status
<1>3. rows' \in 0..MaxTurns BY <1>1 DEF AddTurn, DbType, Turn
<1>4. origin' \in [Turn -> {"none", "message", "result", "resume", "fellow"}]
  BY <1>1 DEF AddTurn, DbType
<1>5. body' \in [Turn -> SUBSET Msg] BY <1>1 DEF AddTurn, DbType
<1>6. starter' \in [Turn -> 0..MaxTurns] BY <1>1 DEF AddTurn, TaskType
<1>7. UNCHANGED <<resp, draft>> BY DEF AddTurn
<1> QED BY <1>1, <1>2, <1>3, <1>4, <1>5, <1>6, <1>7 DEF DbType

\* Every step keeps the types: one step of the proof per action, under it the
\* types of the parts of the state that the action changes.
LEMMA TypeStep == TypeOK /\ [Next]_vars => TypeOK'
<1> SUFFICES ASSUME TypeOK, [Next]_vars PROVE TypeOK' OBVIOUS
<1> USE BoundsAssumption DEF TypeOK, Turn, db, redis, memory
<1>1. ASSUME NEW m \in Clients, ClientRead(m) PROVE TypeOK'
  <2>1. SentType'
    BY <1>1 DEF SentType, ClientRead, DbType, Status, Msg
  <2>2. DbType' /\ QueueType' /\ TaskType' /\ HandlerType' /\ BudgetType'
    BY <1>1 DEF DbType, QueueType, TaskType, HandlerType, BudgetType, ClientRead
  <2> QED BY <2>1, <2>2
<1>2. ASSUME NEW m \in Clients, ClientQueued(m) PROVE TypeOK'
  <2>1. QueueType'
    BY <1>2 DEF QueueType, ClientQueued, Msg
  <2>2. SentType'
    BY <1>2 DEF SentType, ClientQueued, Status, Msg
  <2>3. DbType' /\ TaskType' /\ HandlerType' /\ BudgetType'
    BY <1>2 DEF DbType, TaskType, HandlerType, BudgetType, ClientQueued
  <2> QED BY <2>1, <2>2, <2>3
<1>3. ASSUME NEW m \in Clients, ClientRefused(m) PROVE TypeOK'
  <2>1. SentType'
    BY <1>3 DEF SentType, ClientRefused, Status, Msg
  <2>2. DbType' /\ QueueType' /\ TaskType' /\ HandlerType' /\ BudgetType'
    BY <1>3 DEF DbType, QueueType, TaskType, HandlerType, BudgetType,
       ClientRefused
  <2> QED BY <2>1, <2>2
<1>4. ASSUME NEW m \in Clients, ClientStarts(m) PROVE TypeOK'
  <2>1. DbType' /\ rows + 1 \in Turn /\ starter' \in [Turn -> 0..MaxTurns]
    <3>1. /\ {m} \in SUBSET Msg /\ 0 \in 0..MaxTurns
          /\ sent[m] \in Status
      BY <1>4 DEF Msg, ClientStarts, DbType
    <3>2. AddTurn("message", 0, {m}, sent[m]) BY <1>4 DEF ClientStarts
    <3> QED BY <3>1, <3>2, AddTurnType
  <2>2. TaskType'
    BY <1>4, <2>1 DEF TaskType, ClientStarts, Goto, PC
  <2>3. SentType'
    BY <1>4 DEF SentType, ClientStarts, AddTurn, Reactivated, Status, Msg
  <2>4. QueueType' /\ HandlerType' /\ BudgetType'
    BY <1>4 DEF QueueType, HandlerType, BudgetType, ClientStarts, AddTurn,
       Reactivated, Goto
  <2> QED BY <2>1, <2>2, <2>3, <2>4
<1>5. ASSUME NEW m \in Results, ResultQueued(m) PROVE TypeOK'
  <2>1. QueueType'
    <3>1. {m} \in SUBSET Msg BY DEF Msg
    <3>2. pending' = Append(pending, {m}) \/ pending' = pending
      BY <1>5 DEF ResultQueued
    <3>3. UNCHANGED <<inbox, carry>> BY <1>5 DEF ResultQueued
    <3>4. Append(pending, {m}) \in Seq(SUBSET Msg)
      BY <3>1 DEF QueueType
    <3>5. pending' \in Seq(SUBSET Msg) BY <3>2, <3>4 DEF QueueType
    <3> QED BY <3>3, <3>5 DEF QueueType
  <2>2. SentType'
    BY <1>5 DEF SentType, ResultQueued, Status, Msg
  <2>3. DbType' /\ TaskType' /\ HandlerType' /\ BudgetType'
    BY <1>5 DEF DbType, TaskType, HandlerType, BudgetType, ResultQueued
  <2> QED BY <2>1, <2>2, <2>3
<1>6. ASSUME NEW m \in Results, ResultSeesIdle(m) PROVE TypeOK'
  <2>1. SentType'
    BY <1>6 DEF SentType, ResultSeesIdle, Status, Msg
  <2>2. DbType' /\ QueueType' /\ TaskType' /\ HandlerType' /\ BudgetType'
    BY <1>6 DEF DbType, QueueType, TaskType, HandlerType, BudgetType,
       ResultSeesIdle
  <2> QED BY <2>1, <2>2
<1>7. ASSUME NEW m \in Results, ResultStarts(m) PROVE TypeOK'
  <2>1. DbType' /\ rows + 1 \in Turn /\ starter' \in [Turn -> 0..MaxTurns]
    <3>1. /\ {m} \in SUBSET Msg /\ 0 \in 0..MaxTurns
          /\ status \in Status
      BY <1>7 DEF Msg, ResultStarts, DbType
    <3>2. AddTurn("result", 0, {m}, status) BY <1>7 DEF ResultStarts
    <3> QED BY <3>1, <3>2, AddTurnType
  <2>2. TaskType'
    BY <1>7, <2>1 DEF TaskType, ResultStarts, Goto, PC
  <2>3. SentType'
    BY <1>7 DEF SentType, ResultStarts, AddTurn, Reactivated, Status, Msg
  <2>4. QueueType' /\ HandlerType' /\ BudgetType'
    BY <1>7 DEF QueueType, HandlerType, BudgetType, ResultStarts, AddTurn,
       Reactivated, Goto
  <2> QED BY <2>1, <2>2, <2>3, <2>4
<1>8. ASSUME NEW m \in Peers, PeerSends(m) PROVE TypeOK'
  <2>1. QueueType'
    BY <1>8 DEF QueueType, PeerSends, Msg
  <2>2. SentType'
    BY <1>8 DEF SentType, PeerSends, Status, Msg
  <2>3. DbType' /\ TaskType' /\ HandlerType' /\ BudgetType'
    BY <1>8 DEF DbType, TaskType, HandlerType, BudgetType, PeerSends, Status,
       Reactivated
  <2> QED BY <2>1, <2>2, <2>3
<1>9. ASSUME NEW t \in Turn, Dispatch(t) PROVE TypeOK'
  <2>1. QueueType'
    BY <1>9 DEF QueueType, Dispatch, Msg
  <2>2. TaskType'
    BY <1>9 DEF TaskType, Dispatch, PC, Status
  <2>3. HandlerType'
    BY <1>9 DEF HandlerType, Dispatch
  <2>4. DbType' /\ SentType' /\ BudgetType'
    BY <1>9 DEF DbType, SentType, BudgetType, Dispatch
  <2> QED BY <2>1, <2>2, <2>3, <2>4
<1>10. ASSUME NEW t \in Turn, TaskStart(t) PROVE TypeOK'
  <2>1. TaskType'
    BY <1>10 DEF TaskType, TaskStart, Goto, PC, Status
  <2>2. DbType' /\ QueueType' /\ SentType' /\ HandlerType' /\ BudgetType'
    BY <1>10 DEF DbType, QueueType, SentType, HandlerType, BudgetType,
       TaskStart, Goto
  <2> QED BY <2>1, <2>2
<1>11. ASSUME NEW t \in Turn, Guard(t) PROVE TypeOK'
  <2>1. TaskType'
    BY <1>11 DEF TaskType, Guard, Goto, PC, Status
  <2>2. DbType' /\ QueueType' /\ SentType' /\ HandlerType' /\ BudgetType'
    BY <1>11 DEF DbType, QueueType, SentType, HandlerType, BudgetType, Guard,
       Goto
  <2> QED BY <2>1, <2>2
<1>12. ASSUME NEW t \in Turn, RunnerReturns(t) PROVE TypeOK'
  <2>1. TaskType'
    BY <1>12 DEF TaskType, RunnerReturns, Goto, PC, Status
  <2>2. DbType' /\ QueueType' /\ SentType' /\ HandlerType' /\ BudgetType'
    BY <1>12 DEF DbType, QueueType, SentType, HandlerType, BudgetType,
       RunnerReturns, Goto
  <2> QED BY <2>1, <2>2
<1>13. ASSUME NEW t \in Turn, TurnFails(t) PROVE TypeOK'
  <2>1. DbType'
    BY <1>13 DEF DbType, TurnFails, Record, Status, Msg
  <2>2. TaskType'
    BY <1>13 DEF TaskType, TurnFails, Goto, PC, Status
  <2>3. QueueType' /\ SentType' /\ HandlerType' /\ BudgetType'
    BY <1>13 DEF QueueType, SentType, HandlerType, BudgetType, TurnFails, Goto,
       Record
  <2> QED BY <2>1, <2>2, <2>3
<1>14. ASSUME NEW t \in Turn, PersistSkipped(t) PROVE TypeOK'
  <2>1. DbType'
    BY <1>14 DEF DbType, PersistSkipped, Status, Msg
  <2>2. TaskType'
    BY <1>14 DEF TaskType, PersistSkipped, Goto, PC, Status
  <2>3. QueueType' /\ SentType' /\ HandlerType' /\ BudgetType'
    BY <1>14 DEF QueueType, SentType, HandlerType, BudgetType, PersistSkipped,
       Goto
  <2> QED BY <2>1, <2>2, <2>3
<1>15. ASSUME NEW t \in Turn, PersistCheck(t) PROVE TypeOK'
  <2>1. TaskType'
    BY <1>15 DEF TaskType, PersistCheck, Goto, PC, Status
  <2>2. DbType' /\ QueueType' /\ SentType' /\ HandlerType' /\ BudgetType'
    BY <1>15 DEF DbType, QueueType, SentType, HandlerType, BudgetType,
       PersistCheck, Goto
  <2> QED BY <2>1, <2>2
<1>16. ASSUME NEW t \in Turn, Persist(t) PROVE TypeOK'
  <2>1. DbType'
    BY <1>16 DEF DbType, Persist, Record, Status, Msg
  <2>2. TaskType'
    BY <1>16 DEF TaskType, Persist, Goto, PC, Status
  <2>3. QueueType' /\ SentType' /\ HandlerType' /\ BudgetType'
    BY <1>16 DEF QueueType, SentType, HandlerType, BudgetType, Persist, Goto,
       Record
  <2> QED BY <2>1, <2>2, <2>3
<1>17. ASSUME NEW t \in Turn, Notify(t) PROVE TypeOK'
  <2>1. TaskType'
    BY <1>17 DEF TaskType, Notify, Goto, PC, Status
  <2>2. DbType' /\ QueueType' /\ SentType' /\ HandlerType' /\ BudgetType'
    BY <1>17 DEF DbType, QueueType, SentType, HandlerType, BudgetType, Notify,
       Goto
  <2> QED BY <2>1, <2>2
<1>18. ASSUME NEW t \in Turn, Unmark(t) PROVE TypeOK'
  <2>1. TaskType'
    BY <1>18 DEF TaskType, Unmark, Goto, Deregister, PC, Status
  <2>2. DbType' /\ QueueType' /\ SentType' /\ HandlerType' /\ BudgetType'
    BY <1>18 DEF DbType, QueueType, SentType, HandlerType, BudgetType, Unmark,
       Goto, Deregister
  <2> QED BY <2>1, <2>2
<1>19. ASSUME NEW t \in Turn, EagerPersist(t) PROVE TypeOK'
  <2>1. DbType'
    BY <1>19 DEF DbType, EagerPersist, Status, Msg
  <2>2. QueueType' /\ TaskType' /\ SentType' /\ HandlerType' /\ BudgetType'
    BY <1>19 DEF QueueType, TaskType, SentType, HandlerType, BudgetType,
       EagerPersist
  <2> QED BY <2>1, <2>2
<1>20. ASSUME NEW t \in Turn, DrainPop(t) PROVE TypeOK'
  <2>1. QueueType'
    BY <1>20 DEF QueueType, DrainPop, Msg
  <2>2. TaskType'
    BY <1>20 DEF TaskType, DrainPop, Goto, PC, Status
  <2>3. DbType' /\ SentType' /\ HandlerType' /\ BudgetType'
    BY <1>20 DEF DbType, SentType, HandlerType, BudgetType, DrainPop, Goto
  <2> QED BY <2>1, <2>2, <2>3
<1>21. ASSUME NEW t \in Turn, DrainRead(t) PROVE TypeOK'
  <2>1. TaskType'
    BY <1>21 DEF TaskType, DrainRead, DbType, Goto, PC
  <2>2. DbType' /\ QueueType' /\ SentType' /\ HandlerType' /\ BudgetType'
    BY <1>21 DEF DbType, QueueType, SentType, HandlerType, BudgetType,
       DrainRead, Goto
  <2> QED BY <2>1, <2>2
<1>22. ASSUME NEW t \in Turn, DrainQueued(t) PROVE TypeOK'
  <2>1. QueueType'
    <3>1. Merged(carry[t]) \in SUBSET Msg BY MergedType DEF QueueType
    <3>2. carry[t] \o pending \in Seq(SUBSET Msg)
      BY SeqType DEF QueueType
    <3>3. pending' \in Seq(SUBSET Msg)
      BY <1>22, <3>1, <3>2 DEF QueueType, DrainQueued
    <3>4. carry' \in [Turn -> Seq(SUBSET Msg)]
      BY <1>22 DEF DrainQueued, QueueType
    <3>5. UNCHANGED inbox BY <1>22 DEF DrainQueued
    <3> QED BY <3>3, <3>4, <3>5 DEF QueueType
  <2>2. TaskType'
    BY <1>22 DEF TaskType, DrainQueued, Goto, PC, Status
  <2>3. DbType' /\ SentType' /\ HandlerType' /\ BudgetType'
    BY <1>22 DEF DbType, SentType, HandlerType, BudgetType, DrainQueued, Goto
  <2> QED BY <2>1, <2>2, <2>3
<1>23. ASSUME NEW t \in Turn, DrainStarts(t) PROVE TypeOK'
  <2>1. DbType' /\ rows + 1 \in Turn /\ starter' \in [Turn -> 0..MaxTurns]
    <3>1. Merged(carry[t]) \in SUBSET Msg BY MergedType DEF QueueType
    <3>2. t \in 0..MaxTurns /\ seen[t] \in Status BY DEF TaskType
    <3>3. AddTurn("message", t, Merged(carry[t]), seen[t])
      BY <1>23 DEF DrainStarts
    <3> QED BY <3>1, <3>2, <3>3, AddTurnType
  <2>2. TaskType'
    BY <1>23, <2>1 DEF TaskType, DrainStarts, PC
  <2>3. QueueType' /\ SentType' /\ HandlerType' /\ BudgetType'
    BY <1>23 DEF QueueType, SentType, HandlerType, BudgetType, DrainStarts,
       AddTurn, Reactivated
  <2> QED BY <2>1, <2>2, <2>3
<1>24. ASSUME NEW t \in Turn, InboxEmpty(t) PROVE TypeOK'
  <2>1. TaskType'
    BY <1>24 DEF TaskType, InboxEmpty, Goto, Deregister, PC, Status
  <2>2. DbType' /\ QueueType' /\ SentType' /\ HandlerType' /\ BudgetType'
    BY <1>24 DEF DbType, QueueType, SentType, HandlerType, BudgetType,
       InboxEmpty, Goto, Deregister
  <2> QED BY <2>1, <2>2
<1>25. ASSUME NEW t \in Turn, InboxQueued(t) PROVE TypeOK'
  <2>1. QueueType'
    BY <1>25 DEF QueueType, InboxQueued, Msg
  <2>2. DbType' /\ TaskType' /\ SentType' /\ HandlerType' /\ BudgetType'
    BY <1>25 DEF DbType, TaskType, SentType, HandlerType, BudgetType,
       InboxQueued
  <2> QED BY <2>1, <2>2
<1>26. ASSUME NEW t \in Turn, InboxClaim(t) PROVE TypeOK'
  <2>1. QueueType'
    BY <1>26 DEF QueueType, InboxClaim, Msg
  <2>2. TaskType'
    BY <1>26 DEF TaskType, InboxClaim, DbType, Goto, PC
  <2>3. DbType' /\ SentType' /\ HandlerType' /\ BudgetType'
    BY <1>26 DEF DbType, SentType, HandlerType, BudgetType, InboxClaim, Goto
  <2> QED BY <2>1, <2>2, <2>3
<1>27. ASSUME NEW t \in Turn, InboxStarts(t) PROVE TypeOK'
  <2>1. DbType' /\ rows + 1 \in Turn /\ starter' \in [Turn -> 0..MaxTurns]
    <3>1. Merged(carry[t]) \in SUBSET Msg BY MergedType DEF QueueType
    <3>2. t \in 0..MaxTurns /\ seen[t] \in Status BY DEF TaskType
    <3>3. AddTurn("fellow", t, Merged(carry[t]), seen[t])
      BY <1>27 DEF InboxStarts
    <3> QED BY <3>1, <3>2, <3>3, AddTurnType
  <2>2. TaskType'
    BY <1>27, <2>1 DEF TaskType, InboxStarts, PC
  <2>3. QueueType' /\ SentType' /\ HandlerType' /\ BudgetType'
    BY <1>27 DEF QueueType, SentType, HandlerType, BudgetType, InboxStarts,
       AddTurn, Reactivated
  <2> QED BY <2>1, <2>2, <2>3
<1>28. ASSUME NEW t \in Turn, PrepareFails(t) PROVE TypeOK'
  <2>1. QueueType'
    <3>1. CASE starter[t] = 0
      BY <1>28, <3>1 DEF QueueType, PrepareFails
    <3>2. CASE starter[t] # 0
      <4>1. starter[t] \in Turn BY <3>2 DEF TaskType
      <4>2. carry[starter[t]] \o pending \in Seq(SUBSET Msg)
        BY <4>1, SeqType DEF QueueType
      <4>3. pending' = carry[starter[t]] \o pending
        BY <1>28, <3>2 DEF PrepareFails
      <4>4. carry' \in [Turn -> Seq(SUBSET Msg)] /\ UNCHANGED inbox
        BY <1>28 DEF PrepareFails, QueueType
      <4> QED BY <4>2, <4>3, <4>4 DEF QueueType
    <3> QED BY <3>1, <3>2
  <2>2. TaskType'
    BY <1>28 DEF TaskType, PrepareFails, PC, Status
  <2>3. BudgetType'
    <3>1. budget.fault - 1 \in Nat BY <1>28 DEF PrepareFails, BudgetType
    <3>2. budget' = [budget EXCEPT !.fault = budget.fault - 1]
      BY <1>28 DEF PrepareFails
    <3> QED BY <3>1, <3>2 DEF BudgetType
  <2>4. DbType' /\ SentType' /\ HandlerType'
    BY <1>28 DEF DbType, SentType, HandlerType, PrepareFails
  <2> QED BY <2>1, <2>2, <2>3, <2>4
<1>29. ASSUME NEW t \in Turn, TurnFailsUnrecorded(t) PROVE TypeOK'
  <2>1. TaskType'
    BY <1>29 DEF TaskType, TurnFailsUnrecorded, Goto, PC, Status
  <2>2. BudgetType'
    <3>1. budget.fault - 1 \in Nat BY <1>29 DEF TurnFailsUnrecorded, BudgetType
    <3>2. budget' = [budget EXCEPT !.fault = budget.fault - 1]
      BY <1>29 DEF TurnFailsUnrecorded
    <3> QED BY <3>1, <3>2 DEF BudgetType
  <2>3. DbType' /\ QueueType' /\ SentType' /\ HandlerType'
    BY <1>29 DEF DbType, QueueType, SentType, HandlerType, TurnFailsUnrecorded,
       Goto
  <2> QED BY <2>1, <2>2, <2>3
<1>30. ASSUME NEW t \in Turn, PersistFails(t) PROVE TypeOK'
  <2>1. TaskType'
    BY <1>30 DEF TaskType, PersistFails, Goto, PC, Status
  <2>2. BudgetType'
    <3>1. budget.fault - 1 \in Nat BY <1>30 DEF PersistFails, BudgetType
    <3>2. budget' = [budget EXCEPT !.fault = budget.fault - 1]
      BY <1>30 DEF PersistFails
    <3> QED BY <3>1, <3>2 DEF BudgetType
  <2>3. DbType' /\ QueueType' /\ SentType' /\ HandlerType'
    BY <1>30 DEF DbType, QueueType, SentType, HandlerType, PersistFails, Goto
  <2> QED BY <2>1, <2>2, <2>3
<1>31. ASSUME NEW t \in Turn, DrainFails(t) PROVE TypeOK'
  <2>1. QueueType'
    <3>1. carry[t] \o pending \in Seq(SUBSET Msg) BY SeqType DEF QueueType
    <3>2. pending' \in Seq(SUBSET Msg) BY <1>31, <3>1 DEF DrainFails
    <3>3. carry' \in [Turn -> Seq(SUBSET Msg)] /\ UNCHANGED inbox
      BY <1>31 DEF DrainFails, QueueType
    <3> QED BY <3>2, <3>3 DEF QueueType
  <2>2. TaskType'
    BY <1>31 DEF TaskType, DrainFails, Goto, PC, Status
  <2>3. BudgetType'
    <3>1. budget.fault - 1 \in Nat BY <1>31 DEF DrainFails, BudgetType
    <3>2. budget' = [budget EXCEPT !.fault = budget.fault - 1]
      BY <1>31 DEF DrainFails
    <3> QED BY <3>1, <3>2 DEF BudgetType
  <2>4. DbType' /\ SentType' /\ HandlerType'
    BY <1>31 DEF DbType, SentType, HandlerType, DrainFails, Goto
  <2> QED BY <2>1, <2>2, <2>3, <2>4
<1>32. ASSUME NEW t \in Turn, InboxFails(t) PROVE TypeOK'
  <2>1. QueueType'
    <3>1. Merged(carry[t]) \in SUBSET Msg BY MergedType DEF QueueType
    <3>2. PICK m \in Merged(carry[t]) : inbox' = Append(inbox, m)
      BY <1>32 DEF InboxFails
    <3>3. inbox' \in Seq(Msg) BY <3>1, <3>2 DEF QueueType
    <3>4. carry' \in [Turn -> Seq(SUBSET Msg)] /\ UNCHANGED pending
      BY <1>32 DEF InboxFails, QueueType
    <3> QED BY <3>3, <3>4 DEF QueueType
  <2>2. TaskType'
    BY <1>32 DEF TaskType, InboxFails, Goto, PC, Status
  <2>3. BudgetType'
    <3>1. budget.fault - 1 \in Nat BY <1>32 DEF InboxFails, BudgetType
    <3>2. budget' = [budget EXCEPT !.fault = budget.fault - 1]
      BY <1>32 DEF InboxFails
    <3> QED BY <3>1, <3>2 DEF BudgetType
  <2>4. DbType' /\ SentType' /\ HandlerType'
    BY <1>32 DEF DbType, SentType, HandlerType, InboxFails, Goto
  <2> QED BY <2>1, <2>2, <2>3, <2>4
<1>33. CASE StopBegin
  <2>1. QueueType'
    BY <1>33 DEF QueueType, StopBegin, Msg
  <2>2. SentType'
    BY <1>33 DEF SentType, StopBegin, Settle, Status, Msg
  <2>3. HandlerType'
    <3>1. \/ stop' = [pc |-> "cancel", turn |-> rows, task |-> active]
          \/ stop' = stop
      BY <1>33 DEF StopBegin
    <3>2. UNCHANGED <<flag, resume>> BY <1>33 DEF StopBegin
    <3> QED BY <3>1, <3>2 DEF HandlerType, DbType, TaskType
  <2>4. BudgetType'
    BY <1>33 DEF BudgetType, StopBegin
  <2>5. DbType' /\ TaskType'
    BY <1>33 DEF DbType, TaskType, StopBegin, Settle
  <2> QED BY <2>1, <2>2, <2>3, <2>4, <2>5
<1>34. CASE StopCancel
  <2>1. DbType'
    BY <1>34 DEF DbType, StopCancel, Status, Msg
  <2>2. QueueType'
    BY <1>34 DEF QueueType, StopCancel, Msg
  <2>3. TaskType'
    <3>1. ASSUME NEW label \in PC PROVE AfterCancel(label) \in PC
      BY DEF AfterCancel, PC
    <3>2. pc' \in [Turn -> PC]
      <4>1. "lost" \in PC BY DEF PC
      <4>2. \A u \in Turn : AfterCancel(pc[u]) \in PC /\ pc[u] \in PC
        BY <3>1 DEF TaskType
      <4> QED BY <1>34, <4>1, <4>2 DEF StopCancel
    <3>3. UNCHANGED <<phase, marker, active, starter, seen>>
      BY <1>34 DEF StopCancel
    <3> QED BY <3>2, <3>3 DEF TaskType
  <2>4. SentType'
    BY <1>34 DEF SentType, StopCancel, Settle, Status, Msg
  <2>5. HandlerType'
    BY <1>34 DEF HandlerType, StopCancel
  <2>6. BudgetType'
    BY <1>34 DEF BudgetType, StopCancel, Settle
  <2> QED BY <2>1, <2>2, <2>3, <2>4, <2>5, <2>6
<1>35. CASE StopCheck
  <2>1. HandlerType'
    <3>1. stop' = NoStop \/ stop' = [stop EXCEPT !.pc = "write"]
      BY <1>35 DEF StopCheck
    <3>2. UNCHANGED <<flag, resume>> BY <1>35 DEF StopCheck
    <3> QED BY <3>1, <3>2 DEF HandlerType, NoStop
  <2>2. DbType' /\ QueueType' /\ TaskType' /\ SentType' /\ BudgetType'
    BY <1>35 DEF DbType, QueueType, TaskType, SentType, BudgetType, StopCheck
  <2> QED BY <2>1, <2>2
<1>36. CASE StopWrite
  <2>1. DbType'
    BY <1>36 DEF DbType, StopWrite, Record, Status, Msg
  <2>2. HandlerType'
    <3>1. stop' = NoStop
      BY <1>36 DEF StopWrite
    <3>2. UNCHANGED <<flag, resume>> BY <1>36 DEF StopWrite
    <3> QED BY <3>1, <3>2 DEF HandlerType, NoStop
  <2>3. QueueType' /\ TaskType' /\ SentType' /\ BudgetType'
    BY <1>36 DEF QueueType, TaskType, SentType, BudgetType, StopWrite, Record
  <2> QED BY <2>1, <2>2, <2>3
<1>37. CASE Crash
  <2>1. QueueType'
    BY <1>37 DEF QueueType, Crash, Msg
  <2>2. TaskType'
    BY <1>37 DEF TaskType, Crash, PC, Status
  <2>3. SentType'
    BY <1>37 DEF SentType, Crash, Status, Msg
  <2>4. HandlerType'
    <3>1. stop' = NoStop /\ resume' = "none"
      BY <1>37 DEF Crash
    <3>2. UNCHANGED <<flag>> BY <1>37 DEF Crash
    <3> QED BY <3>1, <3>2 DEF HandlerType, NoStop
  <2>5. BudgetType'
    <3>1. budget.crash - 1 \in Nat BY <1>37 DEF Crash, BudgetType
    <3>2. budget' = [budget EXCEPT !.crash = budget.crash - 1]
      BY <1>37 DEF Crash
    <3> QED BY <3>1, <3>2 DEF BudgetType
  <2>6. DbType'
    BY <1>37 DEF DbType, Crash
  <2> QED BY <2>1, <2>2, <2>3, <2>4, <2>5, <2>6
<1>38. CASE Promote
  <2>1. TaskType'
    BY <1>38 DEF TaskType, Promote, PC, Status
  <2>2. HandlerType'
    BY <1>38 DEF HandlerType, TaskType, Promote
  <2>3. DbType' /\ QueueType' /\ SentType' /\ BudgetType'
    BY <1>38 DEF DbType, QueueType, SentType, BudgetType, Promote
  <2> QED BY <2>1, <2>2, <2>3
<1>39. CASE Recover
  <2>1. DbType'
    BY <1>39 DEF DbType, Recover, Status, Msg
  <2>2. TaskType'
    BY <1>39 DEF TaskType, Recover, PC, Status
  <2>3. HandlerType'
    BY <1>39 DEF HandlerType, Recover
  <2>4. QueueType' /\ SentType' /\ BudgetType'
    BY <1>39 DEF QueueType, SentType, BudgetType, Recover
  <2> QED BY <2>1, <2>2, <2>3, <2>4
<1>40. CASE ResumeClaim
  <2>1. HandlerType'
    <3>1. /\ flag' = FALSE \/ flag' = flag
          /\ resume' \in {"claimed", "none"}
          /\ stop' = stop
      BY <1>40 DEF ResumeClaim
    <3> QED BY <3>1 DEF HandlerType
  <2>2. DbType' /\ QueueType' /\ TaskType' /\ SentType' /\ BudgetType'
    BY <1>40 DEF DbType, QueueType, TaskType, SentType, BudgetType, ResumeClaim
  <2> QED BY <2>1, <2>2
<1>41. CASE ResumeStarts
  <2>1. DbType' /\ rows + 1 \in Turn /\ starter' \in [Turn -> 0..MaxTurns]
    <3>1. /\ {} \in SUBSET Msg /\ 0 \in 0..MaxTurns
          /\ status \in Status
      BY <1>41 DEF Msg, ResumeStarts, DbType
    <3>2. AddTurn("resume", 0, {}, status) BY <1>41 DEF ResumeStarts
    <3> QED BY <3>1, <3>2, AddTurnType
  <2>2. TaskType'
    BY <1>41, <2>1 DEF TaskType, ResumeStarts, Goto, PC
  <2>3. HandlerType'
    BY <1>41 DEF HandlerType, ResumeStarts, AddTurn, Reactivated
  <2>4. QueueType' /\ SentType' /\ BudgetType'
    BY <1>41 DEF QueueType, SentType, BudgetType, ResumeStarts, AddTurn,
       Reactivated, Goto
  <2> QED BY <2>1, <2>2, <2>3, <2>4
<1>42. CASE Sweep
  <2>1. DbType'
    BY <1>42 DEF DbType, Sweep, Status, Msg
  <2>2. BudgetType'
    BY <1>42 DEF BudgetType, Sweep
  <2>3. QueueType' /\ TaskType' /\ SentType' /\ HandlerType'
    BY <1>42 DEF QueueType, TaskType, SentType, HandlerType, Sweep
  <2> QED BY <2>1, <2>2, <2>3
<1>43. CASE UNCHANGED vars
  BY <1>43 DEF DbType, QueueType, TaskType, SentType, HandlerType, BudgetType,
     vars
<1> QED
  BY <1>1, <1>2, <1>3, <1>4, <1>5, <1>6, <1>7, <1>8, <1>9, <1>10, <1>11, <1>12,
     <1>13, <1>14, <1>15, <1>16, <1>17, <1>18, <1>19, <1>20, <1>21, <1>22,
     <1>23, <1>24, <1>25, <1>26, <1>27, <1>28, <1>29, <1>30, <1>31, <1>32,
     <1>33, <1>34, <1>35, <1>36, <1>37, <1>38, <1>39, <1>40, <1>41, <1>42,
     <1>43 DEF Next, ClientSend, RunTask,
     DrainPending, DrainInbox, Fault, Stopping, Restart, Resume

\* The initial state has the types.
LEMMA TypeInit == Init => TypeOK
<1> SUFFICES ASSUME Init PROVE TypeOK OBVIOUS
<1> USE BoundsAssumption DEF Init, Turn
<1>1. DbType BY DEF DbType, Status
<1>2. QueueType BY DEF QueueType
<1>3. TaskType
  <2>1. pc \in [Turn -> PC] BY DEF PC
  <2>2. starter \in [Turn -> 0..MaxTurns] OBVIOUS
  <2>3. seen \in [Turn -> Status] BY DEF Status
  <2> QED BY <2>1, <2>2, <2>3, SMTT(40) DEF TaskType
<1>4. SentType
  BY DEF SentType
<1>5. HandlerType
  <2>1. 0 \in 0..MaxTurns OBVIOUS
  <2>2. NoStop \in [pc : {"idle", "cancel", "check", "write"},
                   turn : 0..MaxTurns, task : 0..MaxTurns]
    BY <2>1 DEF NoStop
  <2> QED BY <2>2 DEF HandlerType
<1>6. BudgetType BY DEF BudgetType
<1> QED BY <1>1, <1>2, <1>3, <1>4, <1>5, <1>6 DEF TypeOK

\* Whatever the messages and the bounds, every reachable state of session,
\* queues, tasks and handlers has its type: no turn beyond the rows, no
\* registered task that is not a turn, no queue entry that is not a message.
THEOREM TypesHold == Spec => []TypeOK
<1>1. Init => TypeOK BY TypeInit
<1>2. TypeOK /\ [Next]_vars => TypeOK' BY TypeStep
<1> QED BY <1>1, <1>2, PTL DEF Spec

-----------------------------------------------------------------------------
(* Users only: no subagent result, peer message, crash, stop or sweep.     *)
(* Faults are allowed.                                                     *)

UsersOnly ==
  /\ Results = {}
  /\ Peers = {}
  /\ MaxCrashes = 0
  /\ MaxStops = 0
  /\ MaxSweeps = 0

\* What the absent actors have not touched.
Undisturbed ==
  /\ phase = "up" /\ resume = "none" /\ stop.pc = "idle" /\ inbox = <<>>
  /\ budget.crash = 0 /\ budget.stop = 0 /\ budget.sweep = 0
  /\ status # "STALE"
  /\ \A t \in Turn : seen[t] # "STALE" /\ pc[t] # "claimed"
  /\ \A m \in Msg : sent[m] \notin {"STALE", "inject"}

\* Every turn but the newest has an outcome, and what is not there is empty.
OlderTurnsOver ==
  \A t \in Turn : /\ t < rows => resp[t] # {}
                  /\ t > rows => resp[t] = {} /\ pc[t] = "none"

\* A turn that is being worked on has no outcome yet, so it is the newest one;
\* from the moment it has a task, that task is the registered one.
WorkIsNewest ==
  \A t \in Turn : pc[t] \in Working =>
    /\ resp[t] = {}
    /\ pc[t] # "prep" => active = t

UsersInv == TypeOK /\ Undisturbed /\ OlderTurnsOver /\ WorkIsNewest

\* Without faults a turn in flight is being worked on.
AttendedInv ==
  budget.fault = 0 /\ (Inflight => pc[rows] \in Working)


\* The initial state of a session that only users write to.
LEMMA UsersInit == UsersOnly /\ Init => UsersInv
<1> SUFFICES ASSUME UsersOnly, Init PROVE UsersInv OBVIOUS
<1>1. TypeOK BY TypeInit
<1>2. Undisturbed BY DEF Undisturbed, UsersOnly, Init, NoStop
<1>3. OlderTurnsOver BY DEF OlderTurnsOver, Init, Turn
<1>4. WorkIsNewest BY DEF WorkIsNewest, Working, Init
<1> QED BY <1>1, <1>2, <1>3, <1>4 DEF UsersInv

\* Each action of users, tasks and drains keeps UsersInv; the actions of the
\* absent actors are not enabled.
LEMMA UsersStep == UsersOnly /\ UsersInv /\ [Next]_vars => UsersInv'
<1> SUFFICES ASSUME UsersOnly, UsersInv, [Next]_vars PROVE UsersInv' OBVIOUS
<1>1. TypeOK' BY TypeStep DEF UsersInv
<1> DEFINE Rest == Undisturbed' /\ OlderTurnsOver' /\ WorkIsNewest'
<1> USE DEF UsersInv
<1>2. ASSUME NEW m \in Clients, ClientRead(m) PROVE Rest
  <2>1. Undisturbed'
    BY <1>2 DEF Undisturbed, ClientRead, db, redis, memory, Status, Msg,
       TypeOK, DbType
  <2>2. OlderTurnsOver'
    BY <1>2 DEF OlderTurnsOver, Undisturbed, TypeOK, DbType, TaskType, Turn,
       ClientRead, db, redis, memory
  <2>3. WorkIsNewest'
    BY <1>2 DEF WorkIsNewest, OlderTurnsOver, Undisturbed, TypeOK, DbType,
       TaskType, Turn, Working, ClientRead, db, redis, memory
  <2> QED BY <2>1, <2>2, <2>3
<1>3. ASSUME NEW m \in Clients, ClientQueued(m) PROVE Rest
  <2>1. Undisturbed'
    BY <1>3 DEF Undisturbed, ClientQueued, db, redis, memory
  <2>2. OlderTurnsOver'
    BY <1>3 DEF OlderTurnsOver, Undisturbed, TypeOK, DbType, TaskType, Turn,
       ClientQueued, db, redis, memory
  <2>3. WorkIsNewest'
    BY <1>3 DEF WorkIsNewest, OlderTurnsOver, Undisturbed, TypeOK, DbType,
       TaskType, Turn, Working, ClientQueued, db, redis, memory
  <2> QED BY <2>1, <2>2, <2>3
<1>4. ASSUME NEW m \in Clients, ClientRefused(m) PROVE Rest
  <2>1. Undisturbed'
    BY <1>4 DEF Undisturbed, ClientRefused, db, redis, memory
  <2>2. OlderTurnsOver'
    BY <1>4 DEF OlderTurnsOver, Undisturbed, TypeOK, DbType, TaskType, Turn,
       ClientRefused, db, redis, memory
  <2>3. WorkIsNewest'
    BY <1>4 DEF WorkIsNewest, OlderTurnsOver, Undisturbed, TypeOK, DbType,
       TaskType, Turn, Working, ClientRefused, db, redis, memory
  <2> QED BY <2>1, <2>2, <2>3
<1>5. ASSUME NEW m \in Clients, ClientStarts(m) PROVE Rest
  <2>1. Undisturbed'
    BY <1>5 DEF Undisturbed, ClientStarts, db, redis, memory, AddTurn,
       Reactivated, Goto, Status
  <2>2. OlderTurnsOver'
    BY <1>5 DEF OlderTurnsOver, Undisturbed, TypeOK, DbType, TaskType, Turn,
       ClientStarts, db, redis, memory, AddTurn, Reactivated, Goto, Inflight,
       Msg
  <2>3. WorkIsNewest'
    BY <1>5 DEF WorkIsNewest, OlderTurnsOver, Undisturbed, TypeOK, DbType,
       TaskType, Turn, Working, ClientStarts, db, redis, memory, AddTurn,
       Reactivated, Goto, Inflight, Msg
  <2> QED BY <2>1, <2>2, <2>3
<1>6. ASSUME NEW t \in Turn, Dispatch(t) PROVE Rest
  <2>1. Undisturbed'
    BY <1>6 DEF Undisturbed, Dispatch, db, redis, memory
  <2>2. OlderTurnsOver'
    BY <1>6 DEF OlderTurnsOver, Undisturbed, TypeOK, DbType, TaskType, Turn,
       Dispatch, db, redis, memory
  <2>3. WorkIsNewest'
    BY <1>6 DEF WorkIsNewest, OlderTurnsOver, Undisturbed, TypeOK, DbType,
       TaskType, Turn, Working, Dispatch, db, redis, memory
  <2> QED BY <2>1, <2>2, <2>3
<1>7. ASSUME NEW t \in Turn, TaskStart(t) PROVE Rest
  <2>1. Undisturbed'
    BY <1>7 DEF Undisturbed, TaskStart, db, redis, memory, Goto
  <2>2. OlderTurnsOver'
    BY <1>7 DEF OlderTurnsOver, Undisturbed, TypeOK, DbType, TaskType, Turn,
       TaskStart, db, redis, memory, Goto
  <2>3. WorkIsNewest'
    BY <1>7 DEF WorkIsNewest, OlderTurnsOver, Undisturbed, TypeOK, DbType,
       TaskType, Turn, Working, TaskStart, db, redis, memory, Goto
  <2> QED BY <2>1, <2>2, <2>3
<1>8. ASSUME NEW t \in Turn, Guard(t) PROVE Rest
  <2>1. Undisturbed'
    BY <1>8 DEF Undisturbed, Guard, db, redis, memory, Goto
  <2>2. OlderTurnsOver'
    BY <1>8 DEF OlderTurnsOver, Undisturbed, TypeOK, DbType, TaskType, Turn,
       Guard, db, redis, memory, Goto
  <2>3. WorkIsNewest'
    BY <1>8 DEF WorkIsNewest, OlderTurnsOver, Undisturbed, TypeOK, DbType,
       TaskType, Turn, Working, Guard, db, redis, memory, Goto
  <2> QED BY <2>1, <2>2, <2>3
<1>9. ASSUME NEW t \in Turn, RunnerReturns(t) PROVE Rest
  <2>1. Undisturbed'
    BY <1>9 DEF Undisturbed, RunnerReturns, db, redis, memory, Goto
  <2>2. OlderTurnsOver'
    BY <1>9 DEF OlderTurnsOver, Undisturbed, TypeOK, DbType, TaskType, Turn,
       RunnerReturns, db, redis, memory, Goto
  <2>3. WorkIsNewest'
    BY <1>9 DEF WorkIsNewest, OlderTurnsOver, Undisturbed, TypeOK, DbType,
       TaskType, Turn, Working, RunnerReturns, db, redis, memory, Goto
  <2> QED BY <2>1, <2>2, <2>3
<1>10. ASSUME NEW t \in Turn, TurnFails(t) PROVE Rest
  <2>1. Undisturbed'
    BY <1>10 DEF Undisturbed, TurnFails, db, redis, memory, Goto, Record
  <2>2. OlderTurnsOver'
    BY <1>10 DEF OlderTurnsOver, Undisturbed, TypeOK, DbType, TaskType, Turn,
       TurnFails, db, redis, memory, Goto, Record
  <2>3. WorkIsNewest'
    BY <1>10 DEF WorkIsNewest, OlderTurnsOver, Undisturbed, TypeOK, DbType,
       TaskType, Turn, Working, TurnFails, db, redis, memory, Goto, Record
  <2> QED BY <2>1, <2>2, <2>3
<1>11. ASSUME NEW t \in Turn, PersistSkipped(t) PROVE Rest
  <2>1. Undisturbed'
    BY <1>11 DEF Undisturbed, PersistSkipped, db, redis, memory, Goto
  <2>2. OlderTurnsOver'
    BY <1>11 DEF OlderTurnsOver, Undisturbed, TypeOK, DbType, TaskType, Turn,
       PersistSkipped, db, redis, memory, Goto
  <2>3. WorkIsNewest'
    BY <1>11 DEF WorkIsNewest, OlderTurnsOver, Undisturbed, TypeOK, DbType,
       TaskType, Turn, Working, PersistSkipped, db, redis, memory, Goto
  <2> QED BY <2>1, <2>2, <2>3
<1>12. ASSUME NEW t \in Turn, PersistCheck(t) PROVE Rest
  <2>1. Undisturbed'
    BY <1>12 DEF Undisturbed, PersistCheck, db, redis, memory, Goto
  <2>2. OlderTurnsOver'
    BY <1>12 DEF OlderTurnsOver, Undisturbed, TypeOK, DbType, TaskType, Turn,
       PersistCheck, db, redis, memory, Goto
  <2>3. WorkIsNewest'
    BY <1>12 DEF WorkIsNewest, OlderTurnsOver, Undisturbed, TypeOK, DbType,
       TaskType, Turn, Working, PersistCheck, db, redis, memory, Goto
  <2> QED BY <2>1, <2>2, <2>3
<1>13. ASSUME NEW t \in Turn, Persist(t) PROVE Rest
  <2>1. Undisturbed'
    BY <1>13 DEF Undisturbed, Persist, db, redis, memory, Goto, Record
  <2>2. OlderTurnsOver'
    BY <1>13 DEF OlderTurnsOver, Undisturbed, TypeOK, DbType, TaskType, Turn,
       Persist, db, redis, memory, Goto, Record
  <2>3. WorkIsNewest'
    BY <1>13 DEF WorkIsNewest, OlderTurnsOver, Undisturbed, TypeOK, DbType,
       TaskType, Turn, Working, Persist, db, redis, memory, Goto, Record
  <2> QED BY <2>1, <2>2, <2>3
<1>14. ASSUME NEW t \in Turn, Notify(t) PROVE Rest
  <2>1. Undisturbed'
    BY <1>14 DEF Undisturbed, Notify, db, redis, memory, Goto
  <2>2. OlderTurnsOver'
    BY <1>14 DEF OlderTurnsOver, Undisturbed, TypeOK, DbType, TaskType, Turn,
       Notify, db, redis, memory, Goto
  <2>3. WorkIsNewest'
    BY <1>14 DEF WorkIsNewest, OlderTurnsOver, Undisturbed, TypeOK, DbType,
       TaskType, Turn, Working, Notify, db, redis, memory, Goto
  <2> QED BY <2>1, <2>2, <2>3
<1>15. ASSUME NEW t \in Turn, Unmark(t) PROVE Rest
  <2>1. Undisturbed'
    BY <1>15 DEF Undisturbed, Unmark, db, redis, memory, Goto, Deregister,
       TypeOK, TaskType
  <2>2. OlderTurnsOver'
    BY <1>15 DEF OlderTurnsOver, Undisturbed, TypeOK, DbType, TaskType, Turn,
       Unmark, db, redis, memory, Goto, Deregister
  <2>3. ASSUME NEW u \in Turn, pc'[u] \in Working
        PROVE  resp'[u] = {} /\ (pc'[u] # "prep" => active' = u)
    <3>1. u # t /\ pc[u] \in Working
      BY <1>15, <2>3 DEF Unmark, Goto, Working, TypeOK, TaskType
    <3>2. resp[u] = {} /\ (pc[u] # "prep" => active = u)
      BY <3>1 DEF WorkIsNewest
    <3>3. resp' = resp /\ pc'[u] = pc[u]
      BY <1>15, <3>1 DEF Unmark, Goto, db, TypeOK, TaskType
    <3>4. active = u => active' = u
      BY <1>15, <3>1 DEF Unmark, Deregister
    <3> QED BY <3>2, <3>3, <3>4
  <2> QED BY <2>1, <2>2, <2>3 DEF WorkIsNewest
<1>16. ASSUME NEW t \in Turn, EagerPersist(t) PROVE Rest
  <2>1. Undisturbed'
    BY <1>16 DEF Undisturbed, EagerPersist, db, redis, memory
  <2>2. OlderTurnsOver'
    BY <1>16 DEF OlderTurnsOver, Undisturbed, TypeOK, DbType, TaskType, Turn,
       EagerPersist, db, redis, memory
  <2>3. WorkIsNewest'
    BY <1>16 DEF WorkIsNewest, OlderTurnsOver, Undisturbed, TypeOK, DbType,
       TaskType, Turn, Working, EagerPersist, db, redis, memory
  <2> QED BY <2>1, <2>2, <2>3
<1>17. ASSUME NEW t \in Turn, DrainPop(t) PROVE Rest
  <2>1. Undisturbed'
    BY <1>17 DEF Undisturbed, DrainPop, db, redis, memory, Goto
  <2>2. OlderTurnsOver'
    BY <1>17 DEF OlderTurnsOver, Undisturbed, TypeOK, DbType, TaskType, Turn,
       DrainPop, db, redis, memory, Goto
  <2>3. WorkIsNewest'
    BY <1>17 DEF WorkIsNewest, OlderTurnsOver, Undisturbed, TypeOK, DbType,
       TaskType, Turn, Working, DrainPop, db, redis, memory, Goto
  <2> QED BY <2>1, <2>2, <2>3
<1>18. ASSUME NEW t \in Turn, DrainRead(t) PROVE Rest
  <2>1. Undisturbed'
    BY <1>18 DEF Undisturbed, DrainRead, db, redis, memory, Goto
  <2>2. OlderTurnsOver'
    BY <1>18 DEF OlderTurnsOver, Undisturbed, TypeOK, DbType, TaskType, Turn,
       DrainRead, db, redis, memory, Goto
  <2>3. WorkIsNewest'
    BY <1>18 DEF WorkIsNewest, OlderTurnsOver, Undisturbed, TypeOK, DbType,
       TaskType, Turn, Working, DrainRead, db, redis, memory, Goto
  <2> QED BY <2>1, <2>2, <2>3
<1>19. ASSUME NEW t \in Turn, DrainQueued(t) PROVE Rest
  <2>1. Undisturbed'
    BY <1>19 DEF Undisturbed, DrainQueued, db, redis, memory, Goto
  <2>2. OlderTurnsOver'
    BY <1>19 DEF OlderTurnsOver, Undisturbed, TypeOK, DbType, TaskType, Turn,
       DrainQueued, db, redis, memory, Goto
  <2>3. WorkIsNewest'
    BY <1>19 DEF WorkIsNewest, OlderTurnsOver, Undisturbed, TypeOK, DbType,
       TaskType, Turn, Working, DrainQueued, db, redis, memory, Goto
  <2> QED BY <2>1, <2>2, <2>3
<1>20. ASSUME NEW t \in Turn, DrainStarts(t) PROVE Rest
  <2>1. Undisturbed'
    BY <1>20 DEF Undisturbed, DrainStarts, db, redis, memory, AddTurn,
       Reactivated, TypeOK, TaskType, Status
  <2>2. OlderTurnsOver'
    BY <1>20 DEF OlderTurnsOver, Undisturbed, TypeOK, DbType, TaskType, Turn,
       DrainStarts, db, redis, memory, AddTurn, Reactivated, Inflight
  <2>3. WorkIsNewest'
    BY <1>20 DEF WorkIsNewest, OlderTurnsOver, Undisturbed, TypeOK, DbType,
       TaskType, Turn, Working, DrainStarts, db, redis, memory, AddTurn,
       Reactivated, Inflight
  <2> QED BY <2>1, <2>2, <2>3
<1>21. ASSUME NEW t \in Turn, InboxEmpty(t) PROVE Rest
  <2>1. Undisturbed'
    BY <1>21 DEF Undisturbed, InboxEmpty, db, redis, memory, Goto, Deregister
  <2>2. OlderTurnsOver'
    BY <1>21 DEF OlderTurnsOver, Undisturbed, TypeOK, DbType, TaskType, Turn,
       InboxEmpty, db, redis, memory, Goto, Deregister
  <2>3. WorkIsNewest'
    BY <1>21 DEF WorkIsNewest, OlderTurnsOver, Undisturbed, TypeOK, DbType,
       TaskType, Turn, Working, InboxEmpty, db, redis, memory, Goto, Deregister
  <2> QED BY <2>1, <2>2, <2>3
<1>22. ASSUME NEW t \in Turn, PrepareFails(t) PROVE Rest
  <2>1. Undisturbed'
    BY <1>22 DEF Undisturbed, PrepareFails, db, redis, memory
  <2>2. OlderTurnsOver'
    BY <1>22 DEF OlderTurnsOver, Undisturbed, TypeOK, DbType, TaskType, Turn,
       PrepareFails, db, redis, memory
  <2>3. WorkIsNewest'
    BY <1>22 DEF WorkIsNewest, OlderTurnsOver, Undisturbed, TypeOK, DbType,
       TaskType, Turn, Working, PrepareFails, db, redis, memory
  <2> QED BY <2>1, <2>2, <2>3
<1>23. ASSUME NEW t \in Turn, TurnFailsUnrecorded(t) PROVE Rest
  <2>1. Undisturbed'
    BY <1>23 DEF Undisturbed, TurnFailsUnrecorded, db, redis, memory, Goto
  <2>2. OlderTurnsOver'
    BY <1>23 DEF OlderTurnsOver, Undisturbed, TypeOK, DbType, TaskType, Turn,
       TurnFailsUnrecorded, db, redis, memory, Goto
  <2>3. WorkIsNewest'
    BY <1>23 DEF WorkIsNewest, OlderTurnsOver, Undisturbed, TypeOK, DbType,
       TaskType, Turn, Working, TurnFailsUnrecorded, db, redis, memory, Goto
  <2> QED BY <2>1, <2>2, <2>3
<1>24. ASSUME NEW t \in Turn, PersistFails(t) PROVE Rest
  <2>1. Undisturbed'
    BY <1>24 DEF Undisturbed, PersistFails, db, redis, memory, Goto
  <2>2. OlderTurnsOver'
    BY <1>24 DEF OlderTurnsOver, Undisturbed, TypeOK, DbType, TaskType, Turn,
       PersistFails, db, redis, memory, Goto
  <2>3. WorkIsNewest'
    BY <1>24 DEF WorkIsNewest, OlderTurnsOver, Undisturbed, TypeOK, DbType,
       TaskType, Turn, Working, PersistFails, db, redis, memory, Goto
  <2> QED BY <2>1, <2>2, <2>3
<1>25. ASSUME NEW t \in Turn, DrainFails(t) PROVE Rest
  <2>1. Undisturbed'
    BY <1>25 DEF Undisturbed, DrainFails, db, redis, memory, Goto
  <2>2. OlderTurnsOver'
    BY <1>25 DEF OlderTurnsOver, Undisturbed, TypeOK, DbType, TaskType, Turn,
       DrainFails, db, redis, memory, Goto
  <2>3. WorkIsNewest'
    BY <1>25 DEF WorkIsNewest, OlderTurnsOver, Undisturbed, TypeOK, DbType,
       TaskType, Turn, Working, DrainFails, db, redis, memory, Goto
  <2> QED BY <2>1, <2>2, <2>3
<1>26. ASSUME NEW t \in Turn,
            InboxQueued(t) \/ InboxClaim(t) \/ InboxStarts(t) \/ InboxFails(t)
     PROVE FALSE
  BY <1>26 DEF Undisturbed, InboxQueued, InboxClaim, InboxStarts, InboxFails
<1>27. CASE StopBegin \/ Stopping \/ Crash \/ Restart \/ Resume \/ Sweep
  BY <1>27 DEF UsersOnly, Undisturbed, TypeOK, BudgetType, StopBegin,
     Stopping, StopCancel, StopCheck, StopWrite, Crash, Restart, Promote,
     Recover, Resume, ResumeClaim, ResumeStarts, Sweep
<1>28. ASSUME UNCHANGED vars PROVE Rest
  <2>1. Undisturbed' BY <1>28 DEF Undisturbed, vars, redis, memory, db
  <2>2. OlderTurnsOver' BY <1>28 DEF OlderTurnsOver, vars, memory, db
  <2>3. UNCHANGED <<pc, resp, active>> BY <1>28 DEF vars, memory, db
  <2>4. WorkIsNewest' BY <2>3 DEF WorkIsNewest, Working
  <2> QED BY <2>1, <2>2, <2>4
<1>29. Rest
  BY <1>2, <1>3, <1>4, <1>5, <1>6, <1>7, <1>8, <1>9, <1>10, <1>11, <1>12,
     <1>13, <1>14, <1>15, <1>16, <1>17, <1>18, <1>19, <1>20, <1>21, <1>22,
     <1>23, <1>24, <1>25, <1>26, <1>27, <1>28
     DEF Next, UsersOnly, ClientSend, RunTask, DrainPending, DrainInbox, Fault
<1> QED BY <1>1, <1>29

\* A step of a session that only users write to keeps its newest turn
\* attended, when no write fails.
LEMMA AttendedStep ==
  UsersOnly /\ UsersInv /\ AttendedInv /\ [Next]_vars => AttendedInv'
<1> SUFFICES ASSUME UsersOnly, UsersInv, AttendedInv, [Next]_vars
             PROVE  AttendedInv'
  OBVIOUS
<1> USE DEF UsersInv
<1>1. ASSUME NEW m \in Clients, ClientRead(m) PROVE AttendedInv'
  BY <1>1 DEF AttendedInv, Inflight, Working, WorkIsNewest, OlderTurnsOver,
     TypeOK, DbType, TaskType, Turn, ClientRead, db, redis, memory
<1>2. ASSUME NEW m \in Clients, ClientQueued(m) PROVE AttendedInv'
  BY <1>2 DEF AttendedInv, Inflight, Working, WorkIsNewest, OlderTurnsOver,
     TypeOK, DbType, TaskType, Turn, ClientQueued, db, redis, memory
<1>3. ASSUME NEW m \in Clients, ClientRefused(m) PROVE AttendedInv'
  BY <1>3 DEF AttendedInv, Inflight, Working, WorkIsNewest, OlderTurnsOver,
     TypeOK, DbType, TaskType, Turn, ClientRefused, db, redis, memory
<1>4. ASSUME NEW m \in Clients, ClientStarts(m) PROVE AttendedInv'
  <2>1. rows + 1 \in Turn /\ rows' = rows + 1 /\ budget' = budget
    BY <1>4, BoundsAssumption DEF ClientStarts, AddTurn, TypeOK, DbType, Turn
  <2>2. pc'[rows + 1] = "prep"
    BY <1>4, <2>1 DEF ClientStarts, Goto, TypeOK, TaskType
  <2> QED BY <2>1, <2>2 DEF AttendedInv, Working
<1>5. ASSUME NEW t \in Turn, Dispatch(t) PROVE AttendedInv'
  BY <1>5 DEF AttendedInv, Inflight, Working, WorkIsNewest, OlderTurnsOver,
     TypeOK, DbType, TaskType, Turn, Dispatch, db, redis, memory
<1>6. ASSUME NEW t \in Turn, TaskStart(t) PROVE AttendedInv'
  BY <1>6 DEF AttendedInv, Inflight, Working, WorkIsNewest, OlderTurnsOver,
     TypeOK, DbType, TaskType, Turn, TaskStart, db, redis, memory, Goto
<1>7. ASSUME NEW t \in Turn, Guard(t) PROVE AttendedInv'
  BY <1>7 DEF AttendedInv, Inflight, Working, WorkIsNewest, OlderTurnsOver,
     TypeOK, DbType, TaskType, Turn, Guard, db, redis, memory, Goto
<1>8. ASSUME NEW t \in Turn, RunnerReturns(t) PROVE AttendedInv'
  BY <1>8 DEF AttendedInv, Inflight, Working, WorkIsNewest, OlderTurnsOver,
     TypeOK, DbType, TaskType, Turn, RunnerReturns, db, redis, memory, Goto
<1>9. ASSUME NEW t \in Turn, TurnFails(t) PROVE AttendedInv'
  <2>1. t = rows
    BY <1>9 DEF TurnFails, WorkIsNewest, OlderTurnsOver, Working, TypeOK,
       DbType,
       Turn
  <2>2. rows' = rows /\ resp'[t] # {} /\ budget' = budget
    BY <1>9 DEF TurnFails, Record, TypeOK, DbType
  <2> QED BY <2>1, <2>2 DEF AttendedInv, Inflight
<1>10. ASSUME NEW t \in Turn, PersistSkipped(t) PROVE AttendedInv'
  BY <1>10 DEF AttendedInv, Inflight, Working, WorkIsNewest, OlderTurnsOver,
     TypeOK, DbType, TaskType, Turn, PersistSkipped, db, redis, memory, Goto
<1>11. ASSUME NEW t \in Turn, PersistCheck(t) PROVE AttendedInv'
  BY <1>11 DEF AttendedInv, Inflight, Working, WorkIsNewest, OlderTurnsOver,
     TypeOK, DbType, TaskType, Turn, PersistCheck, db, redis, memory, Goto
<1>12. ASSUME NEW t \in Turn, Persist(t) PROVE AttendedInv'
  <2>1. t = rows
    BY <1>12 DEF Persist, WorkIsNewest, OlderTurnsOver, Working, TypeOK, DbType,
       Turn
  <2>2. rows' = rows /\ resp'[t] # {} /\ budget' = budget
    BY <1>12 DEF Persist, Record, TypeOK, DbType
  <2> QED BY <2>1, <2>2 DEF AttendedInv, Inflight
<1>13. ASSUME NEW t \in Turn, Notify(t) PROVE AttendedInv'
  BY <1>13 DEF AttendedInv, Inflight, Working, WorkIsNewest, OlderTurnsOver,
     TypeOK, DbType, TaskType, Turn, Notify, db, redis, memory, Goto
<1>14. ASSUME NEW t \in Turn, Unmark(t) PROVE AttendedInv'
  <2>1. rows' = rows /\ resp' = resp /\ budget' = budget
    BY <1>14 DEF Unmark, db
  <2>2. ASSUME Inflight PROVE pc'[rows] \in Working
    <3>1. rows \in Turn /\ pc[rows] \in Working
      BY <2>2 DEF AttendedInv, Inflight, TypeOK, DbType, Turn
    <3>2. rows # t BY <1>14, <3>1 DEF Unmark, Working
    <3>3. pc'[rows] = pc[rows]
      BY <1>14, <3>1, <3>2 DEF Unmark, Goto, TypeOK, TaskType
    <3> QED BY <3>1, <3>3
  <2> QED BY <2>1, <2>2 DEF AttendedInv, Inflight, Working
<1>15. ASSUME NEW t \in Turn, EagerPersist(t) PROVE AttendedInv'
  BY <1>15 DEF AttendedInv, Inflight, Working, WorkIsNewest, OlderTurnsOver,
     TypeOK, DbType, TaskType, Turn, EagerPersist, db, redis, memory
<1>16. ASSUME NEW t \in Turn, DrainPop(t) PROVE AttendedInv'
  BY <1>16 DEF AttendedInv, Inflight, Working, WorkIsNewest, OlderTurnsOver,
     TypeOK, DbType, TaskType, Turn, DrainPop, db, redis, memory, Goto
<1>17. ASSUME NEW t \in Turn, DrainRead(t) PROVE AttendedInv'
  BY <1>17 DEF AttendedInv, Inflight, Working, WorkIsNewest, OlderTurnsOver,
     TypeOK, DbType, TaskType, Turn, DrainRead, db, redis, memory, Goto
<1>18. ASSUME NEW t \in Turn, DrainQueued(t) PROVE AttendedInv'
  BY <1>18 DEF AttendedInv, Inflight, Working, WorkIsNewest, OlderTurnsOver,
     TypeOK, DbType, TaskType, Turn, DrainQueued, db, redis, memory, Goto
<1>19. ASSUME NEW t \in Turn, DrainStarts(t) PROVE AttendedInv'
  <2>1. rows + 1 \in Turn /\ rows' = rows + 1 /\ budget' = budget
    BY <1>19, BoundsAssumption DEF DrainStarts, AddTurn, TypeOK, DbType, Turn
  <2>2. pc'[rows + 1] = "prep"
    BY <1>19, <2>1 DEF DrainStarts, Goto, TypeOK, TaskType
  <2> QED BY <2>1, <2>2 DEF AttendedInv, Working
<1>20. ASSUME NEW t \in Turn, InboxEmpty(t) PROVE AttendedInv'
  BY <1>20 DEF AttendedInv, Inflight, Working, WorkIsNewest, OlderTurnsOver,
     TypeOK, DbType, TaskType, Turn, InboxEmpty, db, redis, memory, Goto,
     Deregister
<1>21. ASSUME NEW t \in Turn, Fault(t) PROVE FALSE
  BY <1>21 DEF Fault, AttendedInv, Undisturbed, PrepareFails,
     TurnFailsUnrecorded, PersistFails, DrainFails, InboxFails
<1>22. ASSUME NEW t \in Turn, InboxQueued(t) \/ InboxClaim(t) \/ InboxStarts(t)
      PROVE  FALSE
  BY <1>22 DEF Undisturbed, InboxQueued, InboxClaim, InboxStarts
<1>23. ASSUME StopBegin \/ Stopping \/ Crash \/ Restart \/ Resume \/ Sweep
      PROVE  FALSE
  BY <1>23 DEF UsersOnly, Undisturbed, TypeOK, BudgetType, StopBegin,
     Stopping, StopCancel, StopCheck, StopWrite, Crash, Restart, Promote,
     Recover, Resume, ResumeClaim, ResumeStarts, Sweep
<1>24. ASSUME UNCHANGED vars PROVE AttendedInv'
  BY <1>24 DEF AttendedInv, Inflight, Working, vars, db, memory
<1> QED
  BY <1>1, <1>2, <1>3, <1>4, <1>5, <1>6, <1>7, <1>8, <1>9, <1>10, <1>11, <1>12,
     <1>13, <1>14, <1>15, <1>16, <1>17, <1>18, <1>19, <1>20, <1>21, <1>22,
     <1>23, <1>24
     DEF Next, UsersOnly, ClientSend, RunTask, DrainPending, DrainInbox

\* ARCHITECTURE.md, key invariant 1, for a session that only users write to:
\* whatever the number of messages and turns, and whatever writes fail, no two
\* turns of the session are in their runner loops at once.  The row lock and
\* the look at the turn in flight suffice; what breaks the invariant in the
\* other runs is results, peers, restarts, stops and the sweep.
THEOREM UsersOneActiveTurn == UsersOnly => (Spec => []OneActiveTurn)
<1> SUFFICES ASSUME UsersOnly PROVE Spec => []OneActiveTurn OBVIOUS
<1>1. Init => UsersInv BY UsersInit
<1>2. UsersInv /\ [Next]_vars => UsersInv' BY UsersStep
<1>3. UsersInv => OneActiveTurn
  BY DEF UsersInv, WorkIsNewest, OneActiveTurn, Working
<1> QED BY <1>1, <1>2, <1>3, PTL DEF Spec

\* Under the same assumption a running turn is the task that stop_session
\* would cancel and that subagent results look for.
THEOREM UsersRunningIsRegistered == UsersOnly => (Spec => []RunningIsRegistered)
<1> SUFFICES ASSUME UsersOnly PROVE Spec => []RunningIsRegistered OBVIOUS
<1>1. Init => UsersInv BY UsersInit
<1>2. UsersInv /\ [Next]_vars => UsersInv' BY UsersStep
<1>3. UsersInv => RunningIsRegistered
  BY DEF UsersInv, WorkIsNewest, RunningIsRegistered, Working
<1> QED BY <1>1, <1>2, <1>3, PTL DEF Spec

\* Under the same assumption, and when no write fails, a turn in flight always
\* has a task that works on it: no message is queued behind a turn that nobody
\* will finish.
THEOREM UsersInflightIsAttended ==
  UsersOnly /\ MaxFaults = 0 => (Spec => []InflightIsAttended)
<1> SUFFICES ASSUME UsersOnly, MaxFaults = 0
             PROVE  Spec => []InflightIsAttended
  OBVIOUS
<1> DEFINE Inv == UsersInv /\ AttendedInv
<1>1. Init => Inv
  BY UsersInit DEF AttendedInv, Init, Inflight
<1>2. Inv /\ [Next]_vars => Inv' BY UsersStep, AttendedStep
<1>3. Inv => InflightIsAttended
  BY DEF UsersInv, TypeOK, DbType, AttendedInv, Inflight, InflightIsAttended,
     Turn
<1> QED BY <1>1, <1>2, <1>3, PTL DEF Spec

=============================================================================
