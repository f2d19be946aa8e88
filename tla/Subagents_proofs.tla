-------------------------- MODULE Subagents_proofs --------------------------
(***************************************************************************)
(* Theorems about Subagents, for every finite set of subagents and all     *)
(* bounds.                                                                 *)
(***************************************************************************)
EXTENDS Subagents, FiniteSetTheorems, TLAPS

\* Who has a slot can be counted.
LEMMA FiniteHeld ==
  ASSUME NEW S \in SUBSET Sub
  PROVE  IsFiniteSet(S) /\ Cardinality(S) \in Nat
BY RootAssumption, FS_Subset, FS_CardinalityType

\* A free slot is taken.
LEMMA SlotTaken ==
  ASSUME TypeOK, NothingLeaks, NEW s \in Sub, s \notin held,
         permits > 0, permits' = permits - 1, held' = held \cup {s}
  PROVE  /\ permits' \in 0..Permits /\ held' \subseteq Sub
         /\ permits' + Cardinality(held') = Permits
<1>1. held \in SUBSET Sub /\ permits \in 0..Permits /\ Permits \in Nat
  BY BoundsAssumption DEF TypeOK
<1>2. IsFiniteSet(held) /\ Cardinality(held) \in Nat
  BY <1>1, FiniteHeld
<1>3. Cardinality(held') = Cardinality(held) + 1
  BY <1>2, FS_AddElement
<1> QED
  BY <1>1, <1>2, <1>3 DEF NothingLeaks

\* The finally block frees the slot of its subagent, if it has one.
LEMMA SlotFreed ==
  ASSUME TypeOK, NothingLeaks, NEW s \in Sub, Finally(s)
  PROVE  /\ permits' \in 0..Permits /\ held' \subseteq Sub /\ tracked' \subseteq Sub
         /\ permits' + Cardinality(held') = Permits
<1>1. held \in SUBSET Sub /\ permits \in 0..Permits /\ Permits \in Nat
  BY BoundsAssumption DEF TypeOK
<1>2. IsFiniteSet(held) /\ Cardinality(held) \in Nat
  BY <1>1, FiniteHeld
<1>3. CASE s \in held
  <2>1. held' = held \ {s} /\ permits' = permits + 1
    BY <1>3 DEF Finally
  <2>2. Cardinality(held') = Cardinality(held) - 1
    BY <1>2, <1>3, <2>1, FS_RemoveElement
  <2>3. Cardinality(held') \in Nat
    BY <2>1, <1>1, FiniteHeld
  <2> QED
    BY <1>1, <1>2, <2>1, <2>2, <2>3 DEF NothingLeaks, Finally, TypeOK
<1>4. CASE s \notin held
  <2>1. held' = held /\ permits' = permits
    BY <1>4 DEF Finally
  <2> QED
    BY <1>1, <2>1 DEF NothingLeaks, Finally, TypeOK
<1> QED
  BY <1>3, <1>4

\* The type of what the bounds leave.
LEMMA SpendType ==
  ASSUME TypeOK, NEW what \in {"stop", "mishap"}, Spend(what)
  PROVE  budget' \in [stop: 0..MaxStops, mishap: 0..MaxMishaps]
<1>1. budget \in [stop: 0..MaxStops, mishap: 0..MaxMishaps]
  BY DEF TypeOK
<1>2. budget[what] > 0 /\ budget' = [budget EXCEPT ![what] = @ - 1]
  BY DEF Spend
<1> QED
  BY BoundsAssumption, <1>1, <1>2

\* The types of what a report changes.
LEMMA ReportType ==
  ASSUME TypeOK, NEW s \in Sub,
         NEW status \in {"none", "completed", "error", "timeout", "cancelled"},
         Report(s, status)
  PROVE  /\ pc' \in [Sub -> PC]
         /\ how' \in [Sub -> {"none", "completed", "error", "timeout", "cancelled"}]
         /\ mail' \in [Session -> Seq(Sub)]
<1>1. parent[s] \in Session /\ mail[parent[s]] \in Seq(Sub)
  BY DEF TypeOK
<1>2. Append(mail[parent[s]], s) \in Seq(Sub)
  BY <1>1
<1> QED
  BY <1>1, <1>2 DEF TypeOK, Report, Goto, Put, PC

\* The types of what writing a status changes.
LEMMA RowsType ==
  ASSUME TypeOK, NEW s \in Session, NEW status \in Status
  PROVE  RowsWith(s, status) \in [Sub -> Status \cup {"none"}]
BY DEF TypeOK, RowsWith

LEMMA LeavesType ==
  ASSUME TypeOK, NEW s \in Session, Leaves(s)
  PROVE  stop' \in [on: BOOLEAN, visit: SUBSET Session, found: SUBSET Sub,
                    aim: SUBSET Sub, left: SUBSET Sub]
BY DEF TypeOK, Leaves

\* Every step keeps the types.
LEMMA TypeStep ==
  ASSUME TypeOK, NothingLeaks, [Next]_vars
  PROVE  TypeOK'
<1> USE BoundsAssumption, RootAssumption
<1>1. ASSUME NEW by \in Session, NEW s \in Sub, NewTask(by, s) PROVE TypeOK'
  <2>1. /\ pc' \in [Sub -> PC]
        /\ parent' \in [Sub -> Session]
        /\ depth' \in [Sub -> Nat]
    BY <1>1 DEF NewTask, TypeOK, Goto, PC, DepthOf, Session
  <2> QED
    BY <1>1, <2>1 DEF NewTask, TypeOK
<1>2. ASSUME NEW s \in Sub, Reject(s) PROVE TypeOK'
  <2>1. /\ pc' \in [Sub -> PC]
        /\ how' \in [Sub -> {"none", "completed", "error", "timeout", "cancelled"}]
        /\ mail' \in [Session -> Seq(Sub)]
    BY <1>2, ReportType DEF Reject
  <2> QED
    BY <1>2, <2>1 DEF Reject, TypeOK
<1>3. ASSUME NEW s \in Sub, Link(s) PROVE TypeOK'
  <2>1. pc' \in [Sub -> PC]
    BY <1>3 DEF Link, TypeOK, Goto, PC
  <2>2. row' \in [Sub -> Status \cup {"none"}]
    BY <1>3 DEF Link, TypeOK, Status
  <2>3. budget' \in [stop: 0..MaxStops, mishap: 0..MaxMishaps]
    BY <1>3, SpendType DEF Link, TypeOK
  <2> QED
    BY <1>3, <2>1, <2>2, <2>3 DEF Link, TypeOK
<1>4. ASSUME NEW s \in Sub, Launch(s) PROVE TypeOK'
  <2>1. /\ pc' \in [Sub -> PC]
        /\ exec' \in [Sub -> Exec]
    BY <1>4 DEF Launch, TypeOK, Execute, Goto, Ends, PC, Exec
  <2>2. tracked' \in SUBSET Sub
    BY <1>4 DEF Launch, TypeOK, Execute
  <2>3. /\ permits' \in 0..Permits
        /\ held' \in SUBSET Sub
    BY <1>4, SlotTaken DEF Launch, TypeOK, NothingLeaks, UnderWay
  <2> QED
    BY <1>4, <2>1, <2>2, <2>3 DEF Launch, TypeOK
<1>5. ASSUME NEW s \in Sub, Enqueue(s) PROVE TypeOK'
  <2>1. pc' \in [Sub -> PC]
    BY <1>5 DEF Enqueue, TypeOK, Goto, PC
  <2>2. queue' \in Seq(Sub)
    BY <1>5 DEF Enqueue, TypeOK
  <2> QED
    BY <1>5, <2>1, <2>2 DEF Enqueue, TypeOK
<1>6. ASSUME NEW s \in Sub, Acquire(s) PROVE TypeOK'
  <2>1. /\ pc' \in [Sub -> PC]
        /\ exec' \in [Sub -> Exec]
    BY <1>6 DEF Acquire, TypeOK, Execute, Goto, Ends, PC, Exec
  <2>2. tracked' \in SUBSET Sub
    BY <1>6 DEF Acquire, TypeOK, Execute
  <2>3. queue' \in Seq(Sub)
    BY <1>6 DEF Acquire, TypeOK
  <2>4. /\ permits' \in 0..Permits
        /\ held' \in SUBSET Sub
    BY <1>6, SlotTaken DEF Acquire, TypeOK, NothingLeaks, UnderWay
  <2> QED
    BY <1>6, <2>1, <2>2, <2>3, <2>4 DEF Acquire, TypeOK
<1>7. ASSUME NEW s \in Sub, Answer(s) PROVE TypeOK'
  <2>1. exec' \in [Sub -> Exec]
    BY <1>7, ZenonT(60) DEF Answer, TypeOK, Ends, Exec
  <2> QED
    BY <1>7, <2>1 DEF Answer, TypeOK
<1>8. ASSUME NEW s \in Sub, Persist(s) PROVE TypeOK'
  <2>1. exec' \in [Sub -> Exec]
    BY <1>8 DEF Persist, TypeOK, Ends, Exec
  <2> QED
    BY <1>8, <2>1 DEF Persist, TypeOK
<1>9. ASSUME NEW s \in Sub, Interrupt(s) PROVE TypeOK'
  <2>1. exec' \in [Sub -> Exec]
    BY <1>9 DEF Interrupt, TypeOK, Ends, Exec
  <2> QED
    BY <1>9, <2>1 DEF Interrupt, TypeOK
<1>10. ASSUME NEW s \in Sub, TimeOut(s) PROVE TypeOK'
  <2>1. /\ pc' \in [Sub -> PC]
        /\ told' \in SUBSET Sub
    BY <1>10 DEF TimeOut, TypeOK, Goto, PC
  <2> QED
    BY <1>10, <2>1 DEF TimeOut, TypeOK
<1>11. ASSUME NEW s \in Sub, Outcome(s) PROVE TypeOK'
  <2>1. /\ pc' \in [Sub -> PC]
        /\ how' \in [Sub -> {"none", "completed", "error", "timeout", "cancelled"}]
    BY <1>11 DEF Outcome, TypeOK, Goto, PC
  <2>2. /\ permits' \in 0..Permits
        /\ held' \in SUBSET Sub
        /\ tracked' \in SUBSET Sub
    BY <1>11, SlotFreed DEF Outcome, TypeOK
  <2> QED
    BY <1>11, <2>1, <2>2 DEF Outcome, TypeOK
<1>12. ASSUME NEW s \in Sub, Settle(s) PROVE TypeOK'
  <2>1. /\ pc' \in [Sub -> PC]
        /\ excused' \in SUBSET Sub
    BY <1>12 DEF Settle, TypeOK, Goto, PC
  <2>2. budget' \in [stop: 0..MaxStops, mishap: 0..MaxMishaps]
    BY <1>12, SpendType DEF Settle, TypeOK
  <2>3. row' \in [Sub -> Status \cup {"none"}]
    BY <1>12 DEF Settle, TypeOK, Status, RowsWith
  <2>4. stop' \in [on: BOOLEAN, visit: SUBSET Session, found: SUBSET Sub,
                    aim: SUBSET Sub, left: SUBSET Sub]
    BY <1>12, LeavesType DEF Settle, TypeOK, Session
  <2> QED
    BY <1>12, <2>1, <2>2, <2>3, <2>4 DEF Settle, TypeOK
<1>13. ASSUME NEW s \in Sub, Return(s) PROVE TypeOK'
  <2>1. /\ pc' \in [Sub -> PC]
        /\ how' \in [Sub -> {"none", "completed", "error", "timeout", "cancelled"}]
        /\ mail' \in [Session -> Seq(Sub)]
    <3>1. how[s] \in {"none", "completed", "error", "timeout", "cancelled"}
      BY <1>13 DEF Return, TypeOK
    <3> QED
      BY <1>13, <3>1, ReportType DEF Return
  <2>2. /\ permits' \in 0..Permits
        /\ held' \in SUBSET Sub
        /\ tracked' \in SUBSET Sub
    BY <1>13, SlotFreed DEF Return, TypeOK
  <2> QED
    BY <1>13, <2>1, <2>2 DEF Return, TypeOK
<1>14. ASSUME NEW p \in Session, Deliver(p) PROVE TypeOK'
  <2>1. /\ mail' \in [Session -> Seq(Sub)]
        /\ got' \in [Sub -> Nat]
    <3>1. mail[p] \in Seq(Sub) /\ mail[p] # <<>>
      BY <1>14 DEF Deliver, TypeOK
    <3>2. Head(mail[p]) \in Sub /\ Tail(mail[p]) \in Seq(Sub)
      BY <3>1
    <3> QED
      BY <1>14, <3>2, SMTT(40) DEF Deliver, TypeOK
  <2>2. row' \in [Sub -> Status \cup {"none"}]
    BY <1>14, RowsType, SMTT(40) DEF Deliver, TypeOK, Status
  <2>3. turn' \in SUBSET Session
    BY <1>14 DEF Deliver, TypeOK
  <2>4. budget' \in [stop: 0..MaxStops, mishap: 0..MaxMishaps]
    BY <1>14, SpendType DEF Deliver, TypeOK
  <2> QED
    BY <1>14, <2>1, <2>2, <2>3, <2>4 DEF Deliver, TypeOK
<1>15. ASSUME NEW p \in Session, EndTurn(p) PROVE TypeOK'
  <2>1. turn' \in SUBSET Session
    BY <1>15 DEF EndTurn, TypeOK
  <2>2. row' \in [Sub -> Status \cup {"none"}]
    BY <1>15, RowsType DEF EndTurn, TypeOK, Status
  <2>3. stop' \in [on: BOOLEAN, visit: SUBSET Session, found: SUBSET Sub,
                    aim: SUBSET Sub, left: SUBSET Sub]
    BY <1>15, LeavesType DEF EndTurn, TypeOK
  <2> QED
    BY <1>15, <2>1, <2>2, <2>3 DEF EndTurn, TypeOK
<1>16. ASSUME Ask PROVE TypeOK'
  <2>1. turn' \in SUBSET Session
    BY <1>16 DEF Ask, TypeOK, Session
  <2> QED
    BY <1>16, <2>1 DEF Ask, TypeOK
<1>17. ASSUME StopBegins PROVE TypeOK'
  <2>1. budget' \in [stop: 0..MaxStops, mishap: 0..MaxMishaps]
    BY <1>17, SpendType DEF StopBegins
  <2>2. stop' \in [on: BOOLEAN, visit: SUBSET Session, found: SUBSET Sub,
                    aim: SUBSET Sub, left: SUBSET Sub]
    BY <1>17 DEF StopBegins, TypeOK, Session
  <2> QED
    BY <1>17, <2>1, <2>2 DEF StopBegins, TypeOK
<1>18. ASSUME StopVisits PROVE TypeOK'
  <2>1. stop' \in [on: BOOLEAN, visit: SUBSET Session, found: SUBSET Sub,
                    aim: SUBSET Sub, left: SUBSET Sub]
    <3>1. PICK p \in stop.visit :
            stop' = [stop EXCEPT !.visit = (@ \ {p}) \cup Children(p),
                                 !.found = @ \cup Children(p)]
      BY <1>18 DEF StopVisits
    <3>2. Children(p) \subseteq Sub /\ Children(p) \subseteq Session
      BY DEF Children, Session
    <3> QED
      BY <3>1, <3>2 DEF TypeOK
  <2> QED
    BY <1>18, <2>1 DEF StopVisits, TypeOK
<1>19. ASSUME StopFails PROVE TypeOK'
  <2>1. budget' \in [stop: 0..MaxStops, mishap: 0..MaxMishaps]
    BY <1>19, SpendType DEF StopFails
  <2>2. stop' \in [on: BOOLEAN, visit: SUBSET Session, found: SUBSET Sub,
                    aim: SUBSET Sub, left: SUBSET Sub]
    BY <1>19 DEF StopFails, NoStop
  <2> QED
    BY <1>19, <2>1, <2>2 DEF StopFails, TypeOK
<1>20. ASSUME StopCancels PROVE TypeOK'
  <2>1. /\ tracked' \in SUBSET Sub
        /\ told' \in SUBSET Sub
    BY <1>20 DEF StopCancels, TypeOK
  <2>2. stop' \in [on: BOOLEAN, visit: SUBSET Session, found: SUBSET Sub,
                    aim: SUBSET Sub, left: SUBSET Sub]
    BY <1>20 DEF StopCancels, NoStop
  <2> QED
    BY <1>20, <2>1, <2>2 DEF StopCancels, TypeOK
<1>21. ASSUME Crash PROVE TypeOK'
  <2>1. /\ pc' \in [Sub -> PC]
        /\ exec' \in [Sub -> Exec]
        /\ told' \in SUBSET Sub
    BY <1>21 DEF Crash, TypeOK, PC, Exec
  <2>2. /\ permits' \in 0..Permits
        /\ queue' \in Seq(Sub)
        /\ held' \in SUBSET Sub
        /\ tracked' \in SUBSET Sub
    BY <1>21 DEF Crash, TypeOK
  <2>3. /\ mail' \in [Session -> Seq(Sub)]
        /\ turn' \in SUBSET Session
    BY <1>21 DEF Crash, TypeOK
  <2>4. stop' \in [on: BOOLEAN, visit: SUBSET Session, found: SUBSET Sub,
                    aim: SUBSET Sub, left: SUBSET Sub]
    BY <1>21 DEF Crash, NoStop
  <2>5. excused' \in SUBSET Sub
    BY <1>21 DEF Crash, TypeOK
  <2>6. budget' \in [stop: 0..MaxStops, mishap: 0..MaxMishaps]
    BY <1>21, SpendType DEF Crash
  <2> QED
    BY <1>21, <2>1, <2>2, <2>3, <2>4, <2>5, <2>6 DEF Crash, TypeOK
<1>22. CASE UNCHANGED vars
  BY <1>22 DEF TypeOK, vars
<1>23. ASSUME NEW s \in Sub, Misname(s) PROVE TypeOK'
  <2>1. pc' \in [Sub -> PC]
    BY <1>23 DEF Misname, TypeOK, Goto, PC
  <2> QED
    BY <1>23, <2>1 DEF Misname, TypeOK
<1>24. ASSUME NEW p \in Session, EndTurnUnrecorded(p) PROVE TypeOK'
  <2>1. turn' \in SUBSET Session /\ excused' \in SUBSET Sub
    BY <1>24 DEF EndTurnUnrecorded, TypeOK
  <2>2. row' \in [Sub -> Status \cup {"none"}]
    BY <1>24, RowsType DEF EndTurnUnrecorded, TypeOK, Status
  <2>3. budget' \in [stop: 0..MaxStops, mishap: 0..MaxMishaps]
    BY <1>24, SpendType DEF EndTurnUnrecorded
  <2> QED
    BY <1>24, <2>1, <2>2, <2>3 DEF EndTurnUnrecorded, TypeOK
<1> QED
  BY <1>1, <1>2, <1>3, <1>4, <1>5, <1>6, <1>7, <1>8, <1>9, <1>10, <1>11, <1>12,
     <1>13, <1>14, <1>15, <1>16, <1>17, <1>18, <1>19, <1>20, <1>21, <1>22,
     <1>23, <1>24 DEF Next, Runs

\* Who has left the try block by success is out of it: neither tracked nor with
\* a slot, while its row is written.
Freed ==
  \A s \in Sub : pc[s] \in {"outcome", "written"} /\ how[s] = "completed"
                 => s \notin held \cup tracked

SlotInv == TypeOK /\ NothingLeaks /\ Freed

Slots == permits + Cardinality(held) = Permits
Users == \A s \in held \cup tracked : pc[s] \in UnderWay

\* Every step keeps the slots.
LEMMA SlotStep ==
  ASSUME SlotInv, [Next]_vars
  PROVE  NothingLeaks' /\ Freed'
<1> SUFFICES Slots' /\ Users' /\ Freed'
  BY DEF NothingLeaks, Slots, Users
<1> USE DEF SlotInv
<1>1. ASSUME NEW by \in Session, NEW s \in Sub, NewTask(by, s) PROVE Slots' /\ Users' /\ Freed'
  <2>1. Slots'
    BY <1>1 DEF NewTask, NothingLeaks, Slots
  <2>2. Users'
    BY <1>1 DEF NewTask, Goto, Users, NothingLeaks, Freed, UnderWay, TypeOK
  <2>3. Freed'
    BY <1>1 DEF NewTask, Goto, Freed, NothingLeaks, UnderWay, TypeOK
  <2> QED
    BY <2>1, <2>2, <2>3
<1>2. ASSUME NEW s \in Sub, Reject(s) PROVE Slots' /\ Users' /\ Freed'
  <2>1. Slots'
    BY <1>2 DEF Reject, Report, NothingLeaks, Slots
  <2>2. Users'
    BY <1>2 DEF Reject, Report, Goto, Users, NothingLeaks, Freed, UnderWay, TypeOK
  <2>3. Freed'
    BY <1>2 DEF Reject, Report, Goto, Freed, NothingLeaks, UnderWay, TypeOK
  <2> QED
    BY <2>1, <2>2, <2>3
<1>3. ASSUME NEW s \in Sub, Link(s) PROVE Slots' /\ Users' /\ Freed'
  <2>1. Slots'
    BY <1>3 DEF Link, NothingLeaks, Slots
  <2>2. Users'
    BY <1>3 DEF Link, Goto, Users, NothingLeaks, Freed, UnderWay, TypeOK
  <2>3. Freed'
    BY <1>3 DEF Link, Goto, Freed, NothingLeaks, UnderWay, TypeOK
  <2> QED
    BY <2>1, <2>2, <2>3
<1>4. ASSUME NEW s \in Sub, Launch(s) PROVE Slots' /\ Users' /\ Freed'
  <2>1. Slots'
    BY <1>4, SlotTaken DEF Launch, NothingLeaks, Slots, UnderWay, TypeOK
  <2>2. Users'
    BY <1>4 DEF Launch, Execute, Goto, Users, NothingLeaks, Freed, UnderWay, TypeOK
  <2>3. Freed'
    BY <1>4 DEF Launch, Execute, Goto, Freed, NothingLeaks, UnderWay, TypeOK
  <2> QED
    BY <2>1, <2>2, <2>3
<1>5. ASSUME NEW s \in Sub, Enqueue(s) PROVE Slots' /\ Users' /\ Freed'
  <2>1. Slots'
    BY <1>5 DEF Enqueue, NothingLeaks, Slots
  <2>2. Users'
    BY <1>5 DEF Enqueue, Goto, Users, NothingLeaks, Freed, UnderWay, TypeOK
  <2>3. Freed'
    BY <1>5 DEF Enqueue, Goto, Freed, NothingLeaks, UnderWay, TypeOK
  <2> QED
    BY <2>1, <2>2, <2>3
<1>6. ASSUME NEW s \in Sub, Acquire(s) PROVE Slots' /\ Users' /\ Freed'
  <2>1. Slots'
    BY <1>6, SlotTaken DEF Acquire, NothingLeaks, Slots, UnderWay, TypeOK
  <2>2. Users'
    BY <1>6 DEF Acquire, Execute, Goto, Users, NothingLeaks, Freed, UnderWay, TypeOK
  <2>3. Freed'
    BY <1>6 DEF Acquire, Execute, Goto, Freed, NothingLeaks, UnderWay, TypeOK
  <2> QED
    BY <2>1, <2>2, <2>3
<1>7. ASSUME NEW s \in Sub, TimeOut(s) PROVE Slots' /\ Users' /\ Freed'
  <2>1. Slots'
    BY <1>7 DEF TimeOut, NothingLeaks, Slots
  <2>2. Users'
    BY <1>7 DEF TimeOut, Goto, Users, NothingLeaks, Freed, UnderWay, TypeOK
  <2>3. Freed'
    BY <1>7 DEF TimeOut, Goto, Freed, NothingLeaks, UnderWay, TypeOK
  <2> QED
    BY <2>1, <2>2, <2>3
<1>8. ASSUME NEW s \in Sub, Outcome(s) PROVE Slots' /\ Users' /\ Freed'
  <2>1. Slots'
    BY <1>8, SlotFreed DEF Outcome, NothingLeaks, Slots
  <2>2. Users'
    BY <1>8 DEF Outcome, Goto, Finally, Ended, Users, NothingLeaks, Freed, UnderWay, TypeOK
  <2>3. Freed'
    BY <1>8 DEF Outcome, Goto, Finally, Ended, Freed, NothingLeaks, UnderWay, TypeOK
  <2> QED
    BY <2>1, <2>2, <2>3
<1>9. ASSUME NEW s \in Sub, Settle(s) PROVE Slots' /\ Users' /\ Freed'
  <2>1. Slots'
    BY <1>9 DEF Settle, NothingLeaks, Slots
  <2>2. Users'
    BY <1>9 DEF Settle, Goto, Users, NothingLeaks, Freed, UnderWay, TypeOK
  <2>3. Freed'
    BY <1>9 DEF Settle, Goto, Freed, NothingLeaks, UnderWay, TypeOK
  <2> QED
    BY <2>1, <2>2, <2>3
<1>10. ASSUME NEW s \in Sub, Return(s) PROVE Slots' /\ Users' /\ Freed'
  <2>1. Slots'
    BY <1>10, SlotFreed DEF Return, NothingLeaks, Slots
  <2>2. Users'
    BY <1>10 DEF Return, Report, Goto, Finally, Users, NothingLeaks, Freed, UnderWay, TypeOK
  <2>3. Freed'
    BY <1>10 DEF Return, Report, Goto, Finally, Freed, NothingLeaks, UnderWay, TypeOK
  <2> QED
    BY <2>1, <2>2, <2>3
<1>11. ASSUME StopCancels PROVE Slots' /\ Users' /\ Freed'
  <2>1. Slots'
    BY <1>11 DEF StopCancels, NothingLeaks, Slots
  <2>2. Users'
    BY <1>11 DEF StopCancels, Users, NothingLeaks, Freed, UnderWay, TypeOK
  <2>3. Freed'
    BY <1>11 DEF StopCancels, Freed, NothingLeaks, UnderWay, TypeOK
  <2> QED
    BY <2>1, <2>2, <2>3
<1>12. ASSUME Crash PROVE Slots' /\ Users' /\ Freed'
  <2>1. Slots'
    BY <1>12, BoundsAssumption, FS_EmptySet DEF Crash, Slots
  <2>2. Users'
    BY <1>12 DEF Crash, Users, NothingLeaks, Freed, UnderWay, TypeOK
  <2>3. Freed'
    BY <1>12 DEF Crash, Freed, NothingLeaks, UnderWay, TypeOK
  <2> QED
    BY <2>1, <2>2, <2>3
<1>13. CASE UNCHANGED <<permits, held, tracked, pc, how>>
  BY <1>13 DEF Slots, Users, Freed, NothingLeaks, UnderWay
<1>14. ASSUME NEW s \in Sub, Misname(s) PROVE Slots' /\ Users' /\ Freed'
  <2>1. Slots'
    BY <1>14 DEF Misname, NothingLeaks, Slots
  <2>2. Users'
    BY <1>14 DEF Misname, Goto, Users, NothingLeaks, Freed, UnderWay, TypeOK
  <2>3. Freed'
    BY <1>14 DEF Misname, Goto, Freed, NothingLeaks, UnderWay, TypeOK
  <2> QED
    BY <2>1, <2>2, <2>3
<1> QED
  BY <1>1, <1>2, <1>3, <1>4, <1>5, <1>6, <1>7, <1>8, <1>9, <1>10, <1>11, <1>12,
     <1>13, <1>14
  DEF Next, Runs, vars, Answer, Persist, Interrupt, Deliver, EndTurn,
      EndTurnUnrecorded, Ask, StopBegins, StopVisits, StopFails

\* The invariant behind the types and the slots.
LEMMA SlotsCorrect == Spec => []SlotInv
<1>1. Init => SlotInv
  <2> SUFFICES ASSUME Init PROVE SlotInv
    OBVIOUS
  <2>1. TypeOK
    BY RootAssumption, BoundsAssumption
    DEF Init, TypeOK, Session, PC, Exec, Status, NoStop
  <2>2. NothingLeaks
    BY FS_EmptySet, BoundsAssumption DEF Init, NothingLeaks
  <2>3. Freed
    BY DEF Init, Freed
  <2> QED
    BY <2>1, <2>2, <2>3 DEF SlotInv
<1>2. SlotInv /\ [Next]_vars => SlotInv'
  BY TypeStep, SlotStep DEF SlotInv
<1> QED
  BY <1>1, <1>2, PTL DEF Spec

\* The rows, tasks, semaphore, queues and stops keep their types.
THEOREM TypeCorrect == Spec => []TypeOK
<1>1. SlotInv => TypeOK
  BY DEF SlotInv
<1> QED
  BY <1>1, SlotsCorrect, PTL

\* However a subagent ends, with timeouts, stops, failures and deaths in any
\* order, run_subagent gives back the slot it took, once, and leaves no entry in
\* _active_subagent_tasks.
THEOREM SlotsKept == Spec => []NothingLeaks
<1>1. SlotInv => NothingLeaks
  BY DEF SlotInv
<1> QED
  BY <1>1, SlotsCorrect, PTL

\* A subagent is settled before it reports.
SettledEarly ==
  \A s \in Sub \ excused :
    pc[s] \in {"written", "over"} => row[s] # "ACTIVE" \/ s \in turn

\* There is no row before run_subagent writes it, and no turn without one.
NoRow == \A s \in Sub : pc[s] \in {"none", "spawned"} => row[s] = "none"
NoTurn == \A s \in turn \cap Sub : row[s] # "none"

SettleInv == SettledEarly /\ NoRow /\ NoTurn

\* Every step keeps that: only a turn makes a settled session ACTIVE.
LEMMA SettleStep ==
  ASSUME TypeOK, SettleInv, [Next]_vars
  PROVE  SettleInv'
<1>0. Sub \subseteq Session
  BY DEF Session
<1> USE RootAssumption, <1>0 DEF SettleInv
<1>1. ASSUME NEW by \in Session, NEW s \in Sub, NewTask(by, s) PROVE SettleInv'
  <2>1. SettledEarly'
    BY <1>1 DEF NewTask, Goto, SettledEarly, NoRow, TypeOK
  <2>2. NoRow'
    BY <1>1 DEF NewTask, Goto, NoRow, NoTurn, TypeOK
  <2>3. NoTurn'
    BY <1>1 DEF NewTask, Goto, NoTurn, TypeOK
  <2> QED
    BY <2>1, <2>2, <2>3 DEF SettleInv
<1>2. ASSUME NEW s \in Sub, Reject(s) PROVE SettleInv'
  <2>1. SettledEarly'
    BY <1>2 DEF Reject, Report, Goto, SettledEarly, NoRow, TypeOK
  <2>2. NoRow'
    BY <1>2 DEF Reject, Report, Goto, NoRow, NoTurn, TypeOK
  <2>3. NoTurn'
    BY <1>2 DEF Reject, Report, Goto, NoTurn, TypeOK
  <2> QED
    BY <2>1, <2>2, <2>3 DEF SettleInv
<1>3. ASSUME NEW s \in Sub, Link(s) PROVE SettleInv'
  <2>0. /\ row \in [Sub -> Status \cup {"none"}]
        /\ pc[s] = "spawned" /\ pc' = [pc EXCEPT ![s] = "linked"]
        /\ row' = row \/ row' = [row EXCEPT ![s] = "ACTIVE"]
        /\ UNCHANGED <<turn, excused>>
    BY <1>3 DEF Link, Goto, TypeOK, Session
  <2>1. SettledEarly'
    BY <2>0 DEF SettledEarly, NoRow, TypeOK
  <2>2. NoRow'
    BY <2>0 DEF NoRow, NoTurn, TypeOK
  <2>3. NoTurn'
    BY <2>0 DEF NoTurn, TypeOK
  <2> QED
    BY <2>1, <2>2, <2>3 DEF SettleInv
<1>4. ASSUME NEW s \in Sub, Launch(s) PROVE SettleInv'
  <2>1. SettledEarly'
    BY <1>4 DEF Launch, Execute, Goto, SettledEarly, NoRow, TypeOK
  <2>2. NoRow'
    BY <1>4 DEF Launch, Execute, Goto, NoRow, NoTurn, TypeOK
  <2>3. NoTurn'
    BY <1>4 DEF Launch, Execute, Goto, NoTurn, TypeOK
  <2> QED
    BY <2>1, <2>2, <2>3 DEF SettleInv
<1>5. ASSUME NEW s \in Sub, Enqueue(s) PROVE SettleInv'
  <2>1. SettledEarly'
    BY <1>5 DEF Enqueue, Goto, SettledEarly, NoRow, TypeOK
  <2>2. NoRow'
    BY <1>5 DEF Enqueue, Goto, NoRow, NoTurn, TypeOK
  <2>3. NoTurn'
    BY <1>5 DEF Enqueue, Goto, NoTurn, TypeOK
  <2> QED
    BY <2>1, <2>2, <2>3 DEF SettleInv
<1>6. ASSUME NEW s \in Sub, Acquire(s) PROVE SettleInv'
  <2>1. SettledEarly'
    BY <1>6 DEF Acquire, Execute, Goto, SettledEarly, NoRow, TypeOK
  <2>2. NoRow'
    BY <1>6 DEF Acquire, Execute, Goto, NoRow, NoTurn, TypeOK
  <2>3. NoTurn'
    BY <1>6 DEF Acquire, Execute, Goto, NoTurn, TypeOK
  <2> QED
    BY <2>1, <2>2, <2>3 DEF SettleInv
<1>7. ASSUME NEW s \in Sub, TimeOut(s) PROVE SettleInv'
  <2>1. SettledEarly'
    BY <1>7 DEF TimeOut, Goto, SettledEarly, NoRow, TypeOK
  <2>2. NoRow'
    BY <1>7 DEF TimeOut, Goto, NoRow, NoTurn, TypeOK
  <2>3. NoTurn'
    BY <1>7 DEF TimeOut, Goto, NoTurn, TypeOK
  <2> QED
    BY <2>1, <2>2, <2>3 DEF SettleInv
<1>8. ASSUME NEW s \in Sub, Outcome(s) PROVE SettleInv'
  <2>1. SettledEarly'
    BY <1>8 DEF Outcome, Goto, SettledEarly, NoRow, TypeOK
  <2>2. NoRow'
    BY <1>8 DEF Outcome, Goto, NoRow, NoTurn, TypeOK
  <2>3. NoTurn'
    BY <1>8 DEF Outcome, Goto, NoTurn, TypeOK
  <2> QED
    BY <2>1, <2>2, <2>3 DEF SettleInv
<1>9. ASSUME NEW s \in Sub, Settle(s) PROVE SettleInv'
  <2>0. /\ row \in [Sub -> Status \cup {"none"}]
        /\ pc[s] = "outcome" /\ pc' = [pc EXCEPT ![s] = "written"]
        /\ \/ row' = row
           \/ row' = RowsWith(s, "COMPLETED")
           \/ row' = RowsWith(s, "STALE")
        /\ UNCHANGED turn
    BY <1>9 DEF Settle, Goto, RowsWith, TypeOK, Session
  <2>1. SettledEarly'
    BY <1>9 DEF Settle, Goto, RowsWith, SettledEarly, NoRow, TypeOK
  <2>2. NoRow'
    BY <2>0 DEF RowsWith, NoRow, NoTurn, TypeOK
  <2>3. NoTurn'
    BY <2>0 DEF RowsWith, NoTurn, TypeOK
  <2> QED
    BY <2>1, <2>2, <2>3 DEF SettleInv
<1>10. ASSUME NEW s \in Sub, Return(s) PROVE SettleInv'
  <2>1. SettledEarly'
    BY <1>10 DEF Return, Report, Goto, SettledEarly, NoRow, TypeOK
  <2>2. NoRow'
    BY <1>10 DEF Return, Report, Goto, NoRow, NoTurn, TypeOK
  <2>3. NoTurn'
    BY <1>10 DEF Return, Report, Goto, NoTurn, TypeOK
  <2> QED
    BY <2>1, <2>2, <2>3 DEF SettleInv
<1>11. ASSUME NEW p \in Session, Deliver(p) PROVE SettleInv'
  <2>1. SettledEarly'
    BY <1>11 DEF Deliver, RowsWith, HasRow, SettledEarly, NoRow, TypeOK, Session
  <2>2. NoRow'
    BY <1>11 DEF Deliver, RowsWith, HasRow, NoRow, NoTurn, TypeOK, Session
  <2>3. NoTurn'
    BY <1>11, SMTT(40) DEF Deliver, RowsWith, HasRow, NoTurn, TypeOK, Session
  <2> QED
    BY <2>1, <2>2, <2>3 DEF SettleInv
<1>12. ASSUME NEW p \in Session, EndTurn(p) PROVE SettleInv'
  <2>1. SettledEarly'
    BY <1>12 DEF EndTurn, RowsWith, SettledEarly, NoRow, TypeOK, Session
  <2>2. NoRow'
    BY <1>12 DEF EndTurn, RowsWith, NoRow, NoTurn, TypeOK, Session
  <2>3. NoTurn'
    BY <1>12 DEF EndTurn, RowsWith, NoTurn, TypeOK, Session
  <2> QED
    BY <2>1, <2>2, <2>3 DEF SettleInv
<1>13. ASSUME Ask PROVE SettleInv'
  <2>1. SettledEarly'
    BY <1>13 DEF Ask, SettledEarly, NoRow, TypeOK, Session
  <2>2. NoRow'
    BY <1>13 DEF Ask, NoRow, NoTurn, TypeOK, Session
  <2>3. NoTurn'
    BY <1>13 DEF Ask, NoTurn, TypeOK, Session
  <2> QED
    BY <2>1, <2>2, <2>3 DEF SettleInv
<1>14. ASSUME Crash PROVE SettleInv'
  <2>1. SettledEarly'
    BY <1>14 DEF Crash, SettledEarly, NoRow, TypeOK, Session
  <2>2. NoRow'
    BY <1>14 DEF Crash, NoRow, NoTurn, TypeOK, Session
  <2>3. NoTurn'
    BY <1>14 DEF Crash, NoTurn, TypeOK, Session
  <2> QED
    BY <2>1, <2>2, <2>3 DEF SettleInv
<1>15. CASE UNCHANGED <<pc, row, turn, excused>>
  BY <1>15 DEF SettledEarly, NoRow, NoTurn
<1>16. ASSUME NEW s \in Sub, Misname(s) PROVE SettleInv'
  <2>1. SettledEarly'
    BY <1>16 DEF Misname, Goto, SettledEarly, NoRow, TypeOK
  <2>2. NoRow'
    BY <1>16 DEF Misname, Goto, NoRow, NoTurn, TypeOK
  <2>3. NoTurn'
    BY <1>16 DEF Misname, Goto, NoTurn, TypeOK
  <2> QED
    BY <2>1, <2>2, <2>3 DEF SettleInv
<1>17. ASSUME NEW p \in Session, EndTurnUnrecorded(p) PROVE SettleInv'
  <2>1. SettledEarly'
    BY <1>17 DEF EndTurnUnrecorded, RowsWith, SettledEarly, NoRow, TypeOK, Session
  <2>2. NoRow'
    BY <1>17 DEF EndTurnUnrecorded, RowsWith, NoRow, NoTurn, TypeOK, Session
  <2>3. NoTurn'
    BY <1>17 DEF EndTurnUnrecorded, RowsWith, NoTurn, TypeOK, Session
  <2> QED
    BY <2>1, <2>2, <2>3 DEF SettleInv
<1> QED
  BY <1>1, <1>2, <1>3, <1>4, <1>5, <1>6, <1>7, <1>8, <1>9, <1>10, <1>11, <1>12,
     <1>13, <1>14, <1>15, <1>16, <1>17
  DEF Next, Runs, vars, Answer, Persist, Interrupt, StopBegins, StopVisits,
      StopFails, StopCancels

\* Whatever turns, timeouts and stops write in between, a subagent that has
\* reported is no longer ACTIVE, unless a turn of its session runs, or the last
\* write of run_subagent or of such a turn has failed, or the process died.
THEOREM Settled == Spec => []ReportedIsSettled
<1>1. Init => SettleInv
  BY RootAssumption DEF Init, SettleInv, SettledEarly, NoRow, NoTurn, Session
<1>2. TypeOK /\ SettleInv /\ [Next]_vars => SettleInv'
  BY SettleStep
<1>3. SettleInv => ReportedIsSettled
  BY DEF SettleInv, SettledEarly, ReportedIsSettled
<1> QED
  BY <1>1, <1>2, <1>3, TypeCorrect, PTL DEF Spec

\* The report of a subagent waits in the queue of its parent.
Waits(s) == \E i \in DOMAIN mail[parent[s]] : mail[parent[s]][i] = s

\* A report is with the parent or was handed over, and before and after there is
\* none; queues hold the reports of the subagents of their session, each once.
Once ==
  \A s \in Sub :
    /\ pc[s] = "over" => got[s] = IF Waits(s) THEN 0 ELSE 1
    /\ pc[s] # "over" => ~Waits(s)
    /\ pc[s] \notin {"over", "lost"} => got[s] = 0
Addressed ==
  \A p \in Session : \A i \in DOMAIN mail[p] : parent[mail[p][i]] = p
Distinct ==
  \A p \in Session : \A i, j \in DOMAIN mail[p] : mail[p][i] = mail[p][j] => i = j

MailInv == Once /\ Addressed /\ Distinct

\* A step of run_subagent before the report changes nothing about reports.
LEMMA Unreported ==
  ASSUME TypeOK, MailInv, NEW s \in Sub, pc[s] \notin {"over", "lost"},
         NEW label \in PC \ {"over", "lost"}, Goto(s, label),
         UNCHANGED <<mail, got, parent>>
  PROVE  MailInv'
<1>1. Once'
  BY DEF MailInv, Once, Waits, Goto, TypeOK
<1>2. Addressed' /\ Distinct'
  BY DEF MailInv, Addressed, Distinct
<1> QED
  BY <1>1, <1>2 DEF MailInv

\* A report goes to the end of one queue, where it was not yet.
LEMMA ReportOnce ==
  ASSUME TypeOK, MailInv, NEW s \in Sub, pc[s] \notin {"over", "lost"},
         NEW status, Report(s, status), UNCHANGED <<got, parent>>
  PROVE  MailInv'
<1> DEFINE p == parent[s]
           q == mail[p]
<1>1. p \in Session /\ q \in Seq(Sub) /\ mail \in [Session -> Seq(Sub)]
  BY DEF TypeOK
<1>2. mail' = [mail EXCEPT ![p] = Append(q, s)]
  BY DEF Report, Put
<1>3. /\ mail'[p] = Append(q, s)
      /\ \A r \in Session \ {p} : mail'[r] = mail[r]
  BY <1>1, <1>2
<1>4. /\ DOMAIN mail'[p] = DOMAIN q \cup {Len(q) + 1}
      /\ Len(q) + 1 \notin DOMAIN q
      /\ mail'[p][Len(q) + 1] = s
      /\ \A i \in DOMAIN q : mail'[p][i] = q[i]
  BY <1>1, <1>3
<1>5. \A i \in DOMAIN q : q[i] # s
  BY DEF MailInv, Once, Waits
<1> HIDE DEF p, q
<1>6. Addressed'
  <2> SUFFICES ASSUME NEW r \in Session, NEW i \in DOMAIN mail'[r]
               PROVE  parent[mail'[r][i]] = r
    BY DEF Addressed
  <2>1. CASE r = p /\ i = Len(q) + 1
    BY <1>4, <2>1 DEF p
  <2>2. CASE r = p /\ i # Len(q) + 1
    BY <1>4, <2>2 DEF MailInv, Addressed, q
  <2>3. CASE r # p
    BY <1>3, <2>3 DEF MailInv, Addressed
  <2> QED
    BY <2>1, <2>2, <2>3
<1>7. Distinct'
  <2> SUFFICES ASSUME NEW r \in Session, NEW i \in DOMAIN mail'[r],
                      NEW j \in DOMAIN mail'[r], mail'[r][i] = mail'[r][j]
               PROVE  i = j
    BY DEF Distinct
  <2>1. CASE r = p
    BY <1>1, <1>4, <1>5, <2>1 DEF MailInv, Distinct, q
  <2>2. CASE r # p
    BY <1>3, <2>2 DEF MailInv, Distinct
  <2> QED
    BY <2>1, <2>2
<1>8. ASSUME NEW t \in Sub, t # s PROVE Waits(t)' <=> Waits(t)
  <2>1. parent[t] \in Session /\ parent' = parent
    BY DEF TypeOK
  <2>2. CASE parent[t] = p
    BY <1>4, <1>8, <2>1, <2>2 DEF Waits, q
  <2>3. CASE parent[t] # p
    BY <1>3, <2>1, <2>3 DEF Waits
  <2> QED
    BY <2>2, <2>3
<1>9. Waits(s)'
  BY <1>4 DEF Waits, p
<1>10. Once'
  <2>1. pc' = [pc EXCEPT ![s] = "over"] /\ pc \in [Sub -> PC] /\ got' = got
    BY DEF Report, Goto, TypeOK
  <2>2. got[s] = 0
    BY DEF MailInv, Once
  <2>3. ASSUME NEW t \in Sub, t # s
        PROVE  /\ pc'[t] = "over" => got'[t] = IF Waits(t)' THEN 0 ELSE 1
               /\ pc'[t] # "over" => ~Waits(t)'
               /\ pc'[t] \notin {"over", "lost"} => got'[t] = 0
    BY <1>8, <2>1, <2>3 DEF MailInv, Once
  <2>4. /\ pc'[s] = "over"
        /\ got'[s] = IF Waits(s)' THEN 0 ELSE 1
    BY <1>9, <2>1, <2>2
  <2> QED
    BY <2>3, <2>4 DEF Once
<1> QED
  BY <1>6, <1>7, <1>10 DEF MailInv

\* A subagent that is spawned was not known to any queue, under any parent.
LEMMA SpawnOnce ==
  ASSUME TypeOK, MailInv, NEW by \in Session, NEW s \in Sub, NewTask(by, s)
  PROVE  MailInv'
<1>1. ASSUME NEW p \in Session, NEW i \in DOMAIN mail[p] PROVE mail[p][i] # s
  <2>1. pc[s] # "over"
    BY DEF NewTask
  <2>2. ~Waits(s)
    BY <2>1 DEF MailInv, Once
  <2> QED
    BY <1>1, <2>2 DEF Waits, MailInv, Addressed
<1>2. /\ mail' = mail /\ got' = got
      /\ parent' = [parent EXCEPT ![s] = by] /\ parent \in [Sub -> Session]
      /\ pc[s] = "none" /\ pc' = [pc EXCEPT ![s] = "spawned"] /\ pc \in [Sub -> PC]
  BY DEF NewTask, Goto, TypeOK
<1>3. Addressed'
  <2> SUFFICES ASSUME NEW p \in Session, NEW i \in DOMAIN mail[p]
               PROVE  parent'[mail[p][i]] = p
    BY <1>2 DEF Addressed
  <2>1. mail[p][i] \in Sub
    BY DEF TypeOK
  <2> QED
    BY <1>1, <1>2, <2>1 DEF MailInv, Addressed
<1>4. Distinct'
  BY <1>2 DEF MailInv, Distinct
<1>5. Once'
  BY <1>1, <1>2 DEF MailInv, Once, Waits
<1> QED
  BY <1>3, <1>4, <1>5 DEF MailInv

\* A delivery takes the first report off its queue, and it was there once.
LEMMA DeliverOnce ==
  ASSUME TypeOK, MailInv, NEW p \in Session, Deliver(p)
  PROVE  MailInv'
<1> DEFINE q == mail[p]
<1>1. q \in Seq(Sub) /\ q # <<>> /\ mail \in [Session -> Seq(Sub)]
  BY DEF Deliver, TypeOK
<1>2. PICK h \in Sub : h = Head(q) /\ h = q[1] /\ 1 \in DOMAIN q
  BY <1>1
<1>3. /\ mail' = [mail EXCEPT ![p] = Tail(q)]
      /\ got' = [got EXCEPT ![h] = got[h] + 1] /\ got \in [Sub -> Nat]
      /\ UNCHANGED <<parent, pc>>
  BY <1>2 DEF Deliver, TypeOK
<1>4. /\ mail'[p] = Tail(q)
      /\ \A r \in Session \ {p} : mail'[r] = mail[r]
  BY <1>1, <1>3
<1>5. /\ \A i \in DOMAIN mail'[p] : i \in Nat /\ i + 1 \in DOMAIN q
                                   /\ i + 1 # 1 /\ mail'[p][i] = q[i + 1]
      /\ \A i \in DOMAIN q \ {1} : i \in Int /\ i - 1 \in DOMAIN mail'[p]
                                  /\ mail'[p][i - 1] = q[i]
  BY <1>1, <1>4
<1>6. parent[h] = p
  BY <1>2 DEF MailInv, Addressed
<1>7. Waits(h) /\ pc[h] = "over" /\ got[h] = 0
  <2>1. Waits(h)
    BY <1>2, <1>6 DEF Waits
  <2>2. pc[h] = "over"
    BY <1>2, <2>1 DEF MailInv, Once
  <2> QED
    BY <1>2, <2>1, <2>2 DEF MailInv, Once
<1> HIDE DEF q
<1>8. Addressed'
  <2> SUFFICES ASSUME NEW r \in Session, NEW i \in DOMAIN mail'[r]
               PROVE  parent[mail'[r][i]] = r
    BY <1>3 DEF Addressed
  <2>1. CASE r = p
    BY <1>5, <2>1 DEF MailInv, Addressed, q
  <2>2. CASE r # p
    BY <1>4, <2>2 DEF MailInv, Addressed
  <2> QED
    BY <2>1, <2>2
<1>9. Distinct'
  <2> SUFFICES ASSUME NEW r \in Session, NEW i \in DOMAIN mail'[r],
                      NEW j \in DOMAIN mail'[r], mail'[r][i] = mail'[r][j]
               PROVE  i = j
    BY DEF Distinct
  <2>1. CASE r = p
    <3>1. i + 1 = j + 1
      BY <1>5, <2>1 DEF MailInv, Distinct, q
    <3> QED
      BY <1>5, <2>1, <3>1
  <2>2. CASE r # p
    BY <1>4, <2>2 DEF MailInv, Distinct
  <2> QED
    BY <2>1, <2>2
<1>10. ASSUME NEW t \in Sub, t # h PROVE Waits(t)' <=> Waits(t)
  <2>1. parent[t] \in Session /\ parent' = parent
    BY <1>3 DEF TypeOK
  <2>2. CASE parent[t] = p
    <3>1. Waits(t)' => Waits(t)
      BY <1>5, <2>1, <2>2 DEF Waits, q
    <3>2. Waits(t) => Waits(t)'
      <4> SUFFICES ASSUME NEW i \in DOMAIN q, q[i] = t PROVE Waits(t)'
        BY <2>2 DEF Waits, q
      <4>1. i # 1
        BY <1>2, <1>10
      <4> QED
        BY <1>5, <2>1, <2>2, <4>1 DEF Waits
    <3> QED
      BY <3>1, <3>2
  <2>3. CASE parent[t] # p
    BY <1>4, <2>1, <2>3 DEF Waits
  <2> QED
    BY <2>2, <2>3
<1>11. ~Waits(h)'
  <2>0. parent'[h] = p
    BY <1>3, <1>6
  <2> SUFFICES ASSUME NEW i \in DOMAIN mail'[p], mail'[p][i] = h PROVE FALSE
    BY <2>0 DEF Waits
  <2>1. i + 1 \in DOMAIN q /\ q[i + 1] = q[1] /\ i + 1 # 1
    BY <1>2, <1>5
  <2> QED
    BY <1>2, <2>1 DEF MailInv, Distinct, q
<1>12. Once'
  <2>1. pc' = pc /\ got'[h] = 1 /\ \A t \in Sub : t # h => got'[t] = got[t]
    BY <1>2, <1>3, <1>7
  <2>2. ASSUME NEW t \in Sub, t # h
        PROVE  /\ pc'[t] = "over" => got'[t] = IF Waits(t)' THEN 0 ELSE 1
               /\ pc'[t] # "over" => ~Waits(t)'
               /\ pc'[t] \notin {"over", "lost"} => got'[t] = 0
    BY <1>10, <2>1, <2>2 DEF MailInv, Once
  <2>3. pc'[h] = "over" /\ got'[h] = IF Waits(h)' THEN 0 ELSE 1
    BY <1>7, <1>11, <2>1
  <2> QED
    BY <2>2, <2>3 DEF Once
<1> QED
  BY <1>8, <1>9, <1>12 DEF MailInv

\* With the process, the reports that nobody has read yet are lost.
LEMMA CrashOnce ==
  ASSUME TypeOK, MailInv, Crash
  PROVE  MailInv'
<1>1. \A p \in Session : mail'[p] = <<>>
  BY DEF Crash
<1>2. \A s \in Sub : parent'[s] \in Session /\ got'[s] = got[s]
  BY DEF Crash, TypeOK
<1>3. \A s \in Sub : ~Waits(s)'
  BY <1>1, <1>2 DEF Waits
<1>4. \A s \in Sub : pc'[s] = IF pc[s] \notin {"none", "over", "unheard"} \/ Waits(s)
                              THEN "lost" ELSE pc[s]
  BY DEF Crash, Waits
<1>5. Once'
  BY <1>2, <1>3, <1>4 DEF MailInv, Once
<1>6. Addressed' /\ Distinct'
  BY <1>1 DEF Addressed, Distinct
<1> QED
  BY <1>5, <1>6 DEF MailInv

\* Every step keeps the reports.
LEMMA MailStep ==
  ASSUME TypeOK, MailInv, [Next]_vars
  PROVE  MailInv'
<1>1. ASSUME NEW by \in Session, NEW s \in Sub, NewTask(by, s) PROVE MailInv'
  BY <1>1, SpawnOnce
<1>2. ASSUME NEW s \in Sub, Reject(s) \/ Return(s) PROVE MailInv'
  <2>1. /\ pc[s] \notin {"over", "lost"} /\ UNCHANGED <<got, parent>>
        /\ \E status : Report(s, status)
    BY <1>2 DEF Reject, Return
  <2> QED
    BY <2>1, ReportOnce
<1>3. ASSUME NEW s \in Sub,
             \/ Misname(s) \/ Link(s) \/ Launch(s) \/ Enqueue(s) \/ Acquire(s)
             \/ TimeOut(s) \/ Outcome(s) \/ Settle(s)
      PROVE  MailInv'
  <2>1. /\ pc[s] \notin {"over", "lost"} /\ UNCHANGED <<mail, got, parent>>
        /\ \E label \in PC \ {"over", "lost"} : Goto(s, label)
    BY <1>3 DEF Misname, Link, Launch, Enqueue, Acquire, TimeOut, Outcome, Settle, Execute, PC
  <2> QED
    BY <2>1, Unreported
<1>4. ASSUME NEW p \in Session, Deliver(p) PROVE MailInv'
  BY <1>4, DeliverOnce
<1>5. CASE Crash
  BY <1>5, CrashOnce
<1>6. CASE UNCHANGED <<pc, mail, got, parent>>
  BY <1>6 DEF MailInv, Once, Waits, Addressed, Distinct
<1> QED
  BY <1>1, <1>2, <1>3, <1>4, <1>5, <1>6
  DEF Next, Runs, vars, Answer, Persist, Interrupt, EndTurn, EndTurnUnrecorded,
      Ask, StopBegins, StopVisits, StopFails, StopCancels

\* A queue that holds every report once holds that of a subagent once or not.
LEMMA UnreadCount ==
  ASSUME TypeOK, Distinct, NEW s \in Sub
  PROVE  Unread(s) = IF Waits(s) THEN 1 ELSE 0
<1> DEFINE q == mail[parent[s]]
           at == {i \in DOMAIN q : q[i] = s}
<1>1. parent[s] \in Session
  BY DEF TypeOK
<1>2. CASE Waits(s)
  <2>1. PICK i \in DOMAIN q : q[i] = s
    BY <1>2 DEF Waits
  <2>2. at = {i}
    BY <1>1, <2>1 DEF Distinct
  <2> QED
    BY <1>2, <2>2, FS_Singleton DEF Unread
<1>3. CASE ~Waits(s)
  <2>1. at = {}
    BY <1>3 DEF Waits
  <2> QED
    BY <1>3, <2>1, FS_EmptySet DEF Unread
<1> QED
  BY <1>2, <1>3

\* Of a subagent that was rejected or executed, however it ended, exactly one
\* report reaches its parent or waits for it, and none before its end; a death
\* of the process loses one, and one for which run_subagent raises before its
\* try block has none.
THEOREM ReportedOnce == Spec => []OneReport
<1>1. Init => MailInv
  <2> SUFFICES ASSUME Init PROVE MailInv
    OBVIOUS
  <2>1. \A p \in Session : mail[p] = <<>>
    BY DEF Init
  <2>2. \A s \in Sub : parent[s] \in Session /\ pc[s] = "none" /\ got[s] = 0
    BY DEF Init, Session
  <2> QED
    BY <2>1, <2>2 DEF MailInv, Once, Waits, Addressed, Distinct
<1>2. TypeOK /\ MailInv /\ [Next]_vars => MailInv'
  BY MailStep
<1>3. TypeOK /\ MailInv => OneReport
  <2> SUFFICES ASSUME TypeOK, MailInv PROVE OneReport
    OBVIOUS
  <2>1. \A s \in Sub : Unread(s) = IF Waits(s) THEN 1 ELSE 0
    BY UnreadCount DEF MailInv
  <2>2. \A s \in Sub : got[s] \in Nat
    BY DEF TypeOK
  <2> QED
    BY <2>1, <2>2 DEF MailInv, Once, OneReport
<1> QED
  BY <1>1, <1>2, <1>3, TypeCorrect, PTL DEF Spec

-----------------------------------------------------------------------------
(* What a stop reaches                                                     *)

\* Every subagent descends from the session of the person: a set of sessions
\* that is closed under parents, and not empty, has that session in it.
Tree ==
  \A C \in SUBSET Session : C # {} /\ ParentClosed(C) => Root \in C

\* Parents have been spawned themselves.
Begun == \A s \in Sub : parent[s] \in Sub => pc[parent[s]] # "none"

\* Who is executed is awaited, and tracked under the id of the row, if there is
\* one, until it is cancelled.
Executed == \A s \in Sub : AtWork(s) => pc[s] \in {"awaiting", "expired"}

Tracked ==
  \A s \in Sub : AtWork(s) /\ s \notin told /\ row[s] # "none" => s \in tracked

\* During a stop: who has not left is ACTIVE, and a child of a session that has
\* been visited has been found.
Linked == stop.on => \A s \in Sub \ stop.left : row[s] = "ACTIVE"

Walked ==
  stop.on => \A s \in Sub \ stop.left :
    parent[s] \in (stop.found \cup {Root}) \ stop.visit => s \in stop.found

ReachInv == Tree /\ Begun /\ Executed /\ Tracked /\ Linked /\ Walked

\* A new subagent hangs below one that is at work, and is the parent of nobody.
LEMMA SpawnReach ==
  ASSUME TypeOK, SettleInv, ReachInv, NEW by \in Session, NEW s \in Sub,
         NewTask(by, s)
  PROVE  ReachInv'
<1> USE RootAssumption DEF ReachInv
<1>1. /\ pc[s] = "none" /\ row[s] = "none"
      /\ \A u \in Sub : pc'[u] = IF u = s THEN "spawned" ELSE pc[u]
      /\ \A u \in Sub : parent'[u] = IF u = s THEN by ELSE parent[u]
      /\ UNCHANGED <<exec, told, row, tracked, turn, stop>>
  BY DEF NewTask, Goto, TypeOK, SettleInv, NoRow
<1>2. by # s
  BY <1>1 DEF NewTask, SettleInv, NoTurn, Executed, AtWork
<1>3. \A u \in Sub : parent[u] # s
  BY <1>1 DEF Begun
<1>4. Tree'
  <2> SUFFICES ASSUME NEW C \in SUBSET Session, C # {}, ParentClosed(C)'
               PROVE  Root \in C
    BY DEF Tree, Session
  <2>1. CASE s \notin C
    <3>1. ParentClosed(C) BY <1>1, <2>1 DEF ParentClosed
    <3> QED BY <3>1 DEF Tree
  <2>2. CASE s \in C
    <3>1. by \in C BY <1>1, <2>2 DEF ParentClosed
    <3>2. ParentClosed(C \ {s}) BY <1>1, <1>3 DEF ParentClosed
    <3>3. C \ {s} \in SUBSET Session /\ C \ {s} # {} BY <1>2, <3>1
    <3> QED BY <3>2, <3>3 DEF Tree
  <2> QED BY <2>1, <2>2
<1>5. Begun'
  <2>1. by \in Sub => pc[by] # "none"
    BY DEF NewTask, SettleInv, NoRow, NoTurn, Executed, AtWork
  <2> QED BY <1>1, <2>1 DEF Begun
<1>6. Executed' BY <1>1 DEF Executed, AtWork
<1>7. Tracked' BY <1>1 DEF Tracked, AtWork
<1>8. Linked' BY <1>1 DEF Linked
<1>9. Walked'
  <2>1. stop.on => s \in stop.left BY <1>1 DEF Linked
  <2> QED BY <1>1, <2>1 DEF Walked
<1> QED BY <1>4, <1>5, <1>6, <1>7, <1>8, <1>9

\* No other step makes a parent.
LEMMA TreeKept ==
  ASSUME ReachInv, UNCHANGED parent,
         \A s \in Sub : pc'[s] = "none" => pc[s] = "none"
  PROVE  Tree' /\ Begun'
<1>1. Tree' BY DEF ReachInv, Tree, ParentClosed, Session
<1>2. Begun' BY DEF ReachInv, Begun
<1> QED BY <1>1, <1>2

\* Nor does one but those of the stop itself change what the stop has seen.
LEMMA StopKept ==
  ASSUME ReachInv, UNCHANGED parent,
         stop'.on => /\ stop.on
                     /\ stop'.visit = stop.visit /\ stop'.found = stop.found
                     /\ stop.left \subseteq stop'.left
                     /\ \A s \in Sub \ stop'.left :
                          row[s] = "ACTIVE" => row'[s] = "ACTIVE"
  PROVE  Linked' /\ Walked'
<1>1. Linked' BY DEF ReachInv, Linked
<1>2. Walked' BY DEF ReachInv, Walked
<1> QED BY <1>1, <1>2

LEMMA ReachStep ==
  ASSUME TypeOK, SettleInv, ReachInv, [Next]_vars
  PROVE  ReachInv'
<1> USE RootAssumption DEF TypeOK, Goto, Ends, AtWork
<1> DEFINE Quiet == UNCHANGED <<row, stop, parent>>
<1>1. ASSUME NEW by \in Session, NEW s \in Sub, NewTask(by, s) PROVE ReachInv'
  BY <1>1, SpawnReach
<1>2. Quiet => Linked' /\ Walked'
  BY StopKept
<1>3. UNCHANGED parent /\ (\A s \in Sub : pc'[s] = "none" => pc[s] = "none")
        => Tree' /\ Begun'
  BY TreeKept
<1>4. ASSUME NEW s \in Sub, Reject(s) PROVE ReachInv'
  <2>1. Tree' /\ Begun' /\ Linked' /\ Walked'
    BY <1>2, <1>3, <1>4 DEF Reject, Report
  <2>2. Executed'
    BY <1>4 DEF Reject, Report, ReachInv, Executed
  <2>3. Tracked'
    BY <1>4 DEF Reject, Report, ReachInv, Tracked, Executed
  <2> QED BY <2>1, <2>2, <2>3 DEF ReachInv
<1>5. ASSUME NEW s \in Sub, Launch(s) PROVE ReachInv'
  <2>1. Tree' /\ Begun' /\ Linked' /\ Walked'
    BY <1>2, <1>3, <1>5 DEF Launch, Execute
  <2>2. Executed'
    BY <1>5 DEF Launch, Execute, ReachInv, Executed
  <2>3. Tracked'
    BY <1>5 DEF Launch, Execute, ReachInv, Tracked, Executed
  <2> QED BY <2>1, <2>2, <2>3 DEF ReachInv
<1>6. ASSUME NEW s \in Sub, Enqueue(s) PROVE ReachInv'
  <2>1. Tree' /\ Begun' /\ Linked' /\ Walked'
    BY <1>2, <1>3, <1>6 DEF Enqueue
  <2>2. Executed'
    BY <1>6 DEF Enqueue, ReachInv, Executed
  <2>3. Tracked'
    BY <1>6 DEF Enqueue, ReachInv, Tracked, Executed
  <2> QED BY <2>1, <2>2, <2>3 DEF ReachInv
<1>7. ASSUME NEW s \in Sub, Acquire(s) PROVE ReachInv'
  <2>1. Tree' /\ Begun' /\ Linked' /\ Walked'
    BY <1>2, <1>3, <1>7 DEF Acquire, Execute
  <2>2. Executed'
    BY <1>7 DEF Acquire, Execute, ReachInv, Executed
  <2>3. Tracked'
    BY <1>7 DEF Acquire, Execute, ReachInv, Tracked, Executed
  <2> QED BY <2>1, <2>2, <2>3 DEF ReachInv
<1>8. ASSUME NEW s \in Sub, Answer(s) PROVE ReachInv'
  <2>1. Tree' /\ Begun' /\ Linked' /\ Walked'
    BY <1>2, <1>3, <1>8 DEF Answer
  <2>2. Executed'
    BY <1>8 DEF Answer, ReachInv, Executed
  <2>3. Tracked'
    BY <1>8 DEF Answer, ReachInv, Tracked, Executed
  <2> QED BY <2>1, <2>2, <2>3 DEF ReachInv
<1>9. ASSUME NEW s \in Sub, Persist(s) PROVE ReachInv'
  <2>1. Tree' /\ Begun' /\ Linked' /\ Walked'
    BY <1>2, <1>3, <1>9 DEF Persist
  <2>2. Executed'
    BY <1>9 DEF Persist, ReachInv, Executed
  <2>3. Tracked'
    BY <1>9 DEF Persist, ReachInv, Tracked, Executed
  <2> QED BY <2>1, <2>2, <2>3 DEF ReachInv
<1>10. ASSUME NEW s \in Sub, Interrupt(s) PROVE ReachInv'
  <2>1. Tree' /\ Begun' /\ Linked' /\ Walked'
    BY <1>2, <1>3, <1>10 DEF Interrupt
  <2>2. Executed'
    BY <1>10 DEF Interrupt, ReachInv, Executed
  <2>3. Tracked'
    BY <1>10 DEF Interrupt, ReachInv, Tracked, Executed
  <2> QED BY <2>1, <2>2, <2>3 DEF ReachInv
<1>11. ASSUME NEW s \in Sub, TimeOut(s) PROVE ReachInv'
  <2>1. Tree' /\ Begun' /\ Linked' /\ Walked'
    BY <1>2, <1>3, <1>11 DEF TimeOut
  <2>2. Executed'
    BY <1>11 DEF TimeOut, ReachInv, Executed
  <2>3. Tracked'
    BY <1>11 DEF TimeOut, ReachInv, Tracked, Executed
  <2> QED BY <2>1, <2>2, <2>3 DEF ReachInv
<1>12. ASSUME NEW s \in Sub, Outcome(s) PROVE ReachInv'
  <2>1. Tree' /\ Begun' /\ Linked' /\ Walked'
    BY <1>2, <1>3, <1>12 DEF Outcome, Ended, Finally
  <2>2. Executed'
    BY <1>12 DEF Outcome, Ended, Finally, ReachInv, Executed
  <2>3. Tracked'
    BY <1>12 DEF Outcome, Ended, Finally, ReachInv, Tracked, Executed
  <2> QED BY <2>1, <2>2, <2>3 DEF ReachInv
<1>13. ASSUME NEW s \in Sub, Return(s) PROVE ReachInv'
  <2>1. Tree' /\ Begun' /\ Linked' /\ Walked'
    BY <1>2, <1>3, <1>13 DEF Return, Report, Finally
  <2>2. Executed'
    BY <1>13 DEF Return, Report, Finally, ReachInv, Executed
  <2>3. Tracked'
    BY <1>13 DEF Return, Report, Finally, ReachInv, Tracked, Executed
  <2> QED BY <2>1, <2>2, <2>3 DEF ReachInv
<1>14. ASSUME NEW s \in Sub, Link(s) PROVE ReachInv'
  <2>1. Tree' /\ Begun'
    BY <1>3, <1>14 DEF Link
  <2>2. Linked' /\ Walked'
    BY <1>14, StopKept DEF Link
  <2>3. Executed'
    BY <1>14 DEF Link, ReachInv, Executed
  <2>4. Tracked'
    BY <1>14 DEF Link, ReachInv, Tracked, Executed
  <2> QED BY <2>1, <2>2, <2>3, <2>4 DEF ReachInv
<1>15. ASSUME NEW s \in Sub, Settle(s) PROVE ReachInv'
  <2>1. Tree' /\ Begun'
    BY <1>3, <1>15 DEF Settle, RowsWith, Leaves
  <2>2. Linked' /\ Walked'
    BY <1>15, StopKept DEF Settle, RowsWith, Leaves
  <2>3. Executed'
    BY <1>15 DEF Settle, RowsWith, Leaves, ReachInv, Executed
  <2>4. Tracked'
    BY <1>15 DEF Settle, RowsWith, Leaves, ReachInv, Tracked, Executed
  <2> QED BY <2>1, <2>2, <2>3, <2>4 DEF ReachInv
<1>16. ASSUME NEW p \in Session, Deliver(p) PROVE ReachInv'
  <2>1. Tree' /\ Begun'
    BY <1>3, <1>16 DEF Deliver, RowsWith, HasRow
  <2>2. Linked' /\ Walked'
    BY <1>16, StopKept DEF Deliver, RowsWith, HasRow, Session
  <2>3. Executed'
    BY <1>16 DEF Deliver, RowsWith, HasRow, ReachInv, Executed
  <2>4. Tracked'
    BY <1>16 DEF Deliver, RowsWith, HasRow, ReachInv, Tracked, Executed, Session
  <2> QED BY <2>1, <2>2, <2>3, <2>4 DEF ReachInv
<1>17. ASSUME NEW p \in Session, EndTurn(p) PROVE ReachInv'
  <2>1. Tree' /\ Begun'
    BY <1>3, <1>17 DEF EndTurn, RowsWith, Leaves
  <2>2. Linked' /\ Walked'
    BY <1>17, StopKept DEF EndTurn, RowsWith, Leaves, SettleInv, NoTurn, Session
  <2>3. Executed'
    BY <1>17 DEF EndTurn, RowsWith, Leaves, ReachInv, Executed
  <2>4. Tracked'
    BY <1>17 DEF EndTurn, RowsWith, Leaves, ReachInv, Tracked, Executed, SettleInv, NoTurn, Session
  <2> QED BY <2>1, <2>2, <2>3, <2>4 DEF ReachInv
<1>18. ASSUME StopBegins PROVE ReachInv'
  <2>1. Tree' /\ Begun' /\ Executed' /\ Tracked'
    BY <1>3, <1>18 DEF StopBegins, ReachInv, Executed, Tracked
  <2>2. Linked' BY <1>18 DEF StopBegins, Linked
  <2>3. Walked' BY <1>18 DEF StopBegins, Walked
  <2> QED BY <2>1, <2>2, <2>3 DEF ReachInv
<1>19. ASSUME StopVisits PROVE ReachInv'
  <2>1. Tree' /\ Begun' /\ Executed' /\ Tracked'
    BY <1>3, <1>19 DEF StopVisits, ReachInv, Executed, Tracked
  <2>2. PICK p \in stop.visit :
          stop' = [stop EXCEPT !.visit = (@ \ {p}) \cup Children(p),
                               !.found = @ \cup Children(p)]
    BY <1>19 DEF StopVisits
  <2>3. /\ stop.on /\ stop'.left = stop.left
        /\ stop'.visit = (stop.visit \ {p}) \cup Children(p)
        /\ stop'.found = stop.found \cup Children(p)
        /\ UNCHANGED <<parent, row>>
    BY <1>19, <2>2 DEF StopVisits
  <2>4. Linked' BY <2>3 DEF ReachInv, Linked
  <2>5. Walked'
    <3> SUFFICES ASSUME NEW s \in Sub \ stop.left,
                        parent[s] \in (stop'.found \cup {Root}) \ stop'.visit
                 PROVE  s \in stop'.found
      BY <2>3 DEF Walked
    <3>1. CASE parent[s] = p
      <4>1. row[s] = "ACTIVE" BY <2>3 DEF ReachInv, Linked
      <4> QED BY <2>3, <3>1, <4>1 DEF Children
    <3>2. CASE parent[s] # p
      BY <2>3, <3>2 DEF ReachInv, Walked
    <3> QED BY <3>1, <3>2
  <2> QED BY <2>1, <2>4, <2>5 DEF ReachInv
<1>20. ASSUME StopFails PROVE ReachInv'
  <2>1. Tree' /\ Begun' /\ Executed' /\ Tracked'
    BY <1>3, <1>20 DEF StopFails, ReachInv, Executed, Tracked
  <2>2. Linked' /\ Walked' BY <1>20 DEF StopFails, NoStop, Linked, Walked
  <2> QED BY <2>1, <2>2 DEF ReachInv
<1>21. ASSUME StopCancels PROVE ReachInv'
  <2>1. Tree' /\ Begun' /\ Executed' /\ Tracked'
    BY <1>3, <1>21 DEF StopCancels, ReachInv, Executed, Tracked
  <2>2. Linked' /\ Walked' BY <1>21 DEF StopCancels, NoStop, Linked, Walked
  <2> QED BY <2>1, <2>2 DEF ReachInv
<1>22. ASSUME Crash PROVE ReachInv'
  <2>1. Tree' /\ Begun' /\ Executed' /\ Tracked'
    BY <1>3, <1>22 DEF Crash, ReachInv, Executed, Tracked
  <2>2. Linked' /\ Walked' BY <1>22 DEF Crash, NoStop, Linked, Walked
  <2> QED BY <2>1, <2>2 DEF ReachInv
<1>23. ASSUME Ask \/ UNCHANGED vars PROVE ReachInv'
  BY <1>2, <1>3, <1>23 DEF Ask, vars, ReachInv, Executed, Tracked
<1>24. ASSUME NEW s \in Sub, Misname(s) PROVE ReachInv'
  <2>1. Tree' /\ Begun' /\ Linked' /\ Walked'
    BY <1>2, <1>3, <1>24 DEF Misname
  <2>2. Executed'
    BY <1>24 DEF Misname, ReachInv, Executed
  <2>3. Tracked'
    BY <1>24 DEF Misname, ReachInv, Tracked, Executed
  <2> QED BY <2>1, <2>2, <2>3 DEF ReachInv
<1>25. ASSUME NEW p \in Session, EndTurnUnrecorded(p) PROVE ReachInv'
  <2>1. Tree' /\ Begun'
    BY <1>3, <1>25 DEF EndTurnUnrecorded, RowsWith
  <2>2. Linked' /\ Walked'
    BY <1>25, StopKept DEF EndTurnUnrecorded, RowsWith
  <2>3. Executed'
    BY <1>25 DEF EndTurnUnrecorded, RowsWith, ReachInv, Executed
  <2>4. Tracked'
    BY <1>25 DEF EndTurnUnrecorded, RowsWith, ReachInv, Tracked, Executed, SettleInv, NoTurn, Session
  <2> QED BY <2>1, <2>2, <2>3, <2>4 DEF ReachInv
<1> QED
  BY <1>1, <1>4, <1>5, <1>6, <1>7, <1>8, <1>9, <1>10, <1>11, <1>12,
     <1>13, <1>14, <1>15, <1>16, <1>17, <1>18, <1>19, <1>20, <1>21, <1>22, <1>23,
     <1>24, <1>25 DEF Next, Runs

\* The line of a session has it, and with a subagent its parent.
LEMMA LineClosed ==
  ASSUME TypeOK, NEW s \in Sub
  PROVE  s \in Line(s) /\ ParentClosed(Line(s))
<1>1. s \in Line(s) BY DEF Line, Session
<1>2. ASSUME NEW t \in Line(s) \cap Sub PROVE parent[t] \in Line(s)
  <2>1. parent[t] \in Session BY DEF TypeOK
  <2>2. \A C \in SUBSET Session : s \in C /\ ParentClosed(C) => parent[t] \in C
    BY DEF Line, ParentClosed
  <2> QED BY <2>1, <2>2 DEF Line
<1> QED BY <1>1, <1>2 DEF ParentClosed

\* When there is nobody left to visit, whom ACTIVE rows have linked to the
\* session all the time has been found: else the ancestors that were not found
\* would be closed under parents, and the person's session not among them.
LEMMA LinkedAreFound ==
  ASSUME TypeOK, ReachInv, stop.on, stop.visit = {}, NEW s \in Sub,
         Line(s) \cap stop.left = {}
  PROVE  s \in stop.found
<1> DEFINE D == {t \in Line(s) \cap Sub : t \notin stop.found}
<1>1. D \in SUBSET Session /\ Root \notin D
  BY RootAssumption DEF Session
<1>2. ParentClosed(D)
  <2> SUFFICES ASSUME NEW t \in D PROVE parent[t] \in D
    BY DEF ParentClosed
  <2>1. t \in Sub \ stop.left /\ t \notin stop.found OBVIOUS
  <2>2. parent[t] \notin stop.found \cup {Root}
    BY <2>1 DEF ReachInv, Walked
  <2>3. parent[t] \in Line(s) BY LineClosed DEF ParentClosed
  <2>4. parent[t] \in Session BY <2>1 DEF TypeOK
  <2> QED BY <2>2, <2>3, <2>4 DEF Session
<1>3. D = {} BY <1>1, <1>2 DEF ReachInv, Tree
<1> QED BY <1>3, LineClosed

\* A stop reaches every execution that ran when it began and that ACTIVE rows
\* linked to the session until its end, however deep it is and whatever turns,
\* spawns and failures come between the queries of cancel_subagent_tasks.
THEOREM StopReachesAll == Spec => StopReaches
<1> DEFINE Inv == TypeOK /\ SettleInv /\ ReachInv
<1>1. Init => ReachInv
  <2> SUFFICES ASSUME Init PROVE ReachInv OBVIOUS
  <2>1. \A s \in Sub : parent[s] = Root /\ pc[s] = "none" /\ exec[s] = "none"
    BY DEF Init
  <2>2. Tree
    <3> SUFFICES ASSUME NEW C \in SUBSET Session, C # {}, ParentClosed(C)
                 PROVE  Root \in C
      BY DEF Tree
    <3> QED BY <2>1 DEF ParentClosed, Session
  <2>3. Begun BY <2>1, RootAssumption DEF Begun
  <2>4. Executed /\ Tracked BY <2>1 DEF Executed, Tracked, AtWork
  <2>5. Linked /\ Walked BY DEF Init, NoStop, Linked, Walked
  <2> QED BY <2>2, <2>3, <2>4, <2>5 DEF ReachInv
<1>2. Init => SettleInv
  BY RootAssumption DEF Init, SettleInv, SettledEarly, NoRow, NoTurn, Session
<1>3. TypeOK /\ SettleInv /\ ReachInv /\ [Next]_vars => SettleInv' /\ ReachInv'
  BY SettleStep, ReachStep
<1> DEFINE Reaches ==
  stop.on /\ stop.visit = {} /\ ~stop'.on =>
    \A s \in stop.aim :
      Line(s) \cap stop.left = {} => s \in told' \/ ~AtWork(s)'
<1>4. TypeOK /\ SettleInv /\ ReachInv /\ [Next]_vars => [Reaches]_vars
  <2> SUFFICES ASSUME TypeOK, ReachInv, [Next]_vars,
                      stop.on, stop.visit = {}, ~stop'.on,
                      NEW s \in stop.aim, Line(s) \cap stop.left = {},
                      AtWork(s)'
               PROVE  s \in told'
    OBVIOUS
  <2>1. s \in Sub BY DEF TypeOK
  <2>2. s \in stop.found BY <2>1, LinkedAreFound
  <2>3. row[s] # "none"
    <3>1. s \notin stop.left BY <2>1, LineClosed
    <3> QED BY <2>1, <3>1 DEF ReachInv, Linked
  <2>4. StopCancels
    <3>1. ASSUME NEW u \in Sub, Runs(u) \/ \E by \in Session : NewTask(by, u)
          PROVE  stop'.on
      <4>1. CASE Settle(u)
        <5>1. stop' = stop \/ stop' = [stop EXCEPT !.left = @ \cup ({u} \cap Sub)]
          BY <4>1 DEF Settle, Leaves
        <5> QED BY <5>1 DEF TypeOK
      <4>2. CASE ~Settle(u)
        <5>1. stop' = stop
          BY <3>1, <4>2 DEF Runs, Reject, Misname, Link, Launch, Enqueue, Acquire, Answer,
             Persist, Interrupt, TimeOut, Outcome, Return, NewTask
        <5> QED BY <5>1
      <4> QED BY <4>1, <4>2
    <3>2. ASSUME NEW p \in Session, Deliver(p) \/ EndTurn(p) \/ EndTurnUnrecorded(p)
          PROVE  stop'.on
      BY <3>2 DEF TypeOK, Deliver, EndTurn, EndTurnUnrecorded, Leaves
    <3>3. ~Crash BY <2>1 DEF Crash, AtWork
    <3>4. ~(Ask \/ StopBegins \/ StopVisits \/ StopFails \/ UNCHANGED vars)
      BY DEF Ask, StopBegins, StopVisits, StopFails, vars
    <3> QED BY <3>1, <3>2, <3>3, <3>4 DEF Next
  <2>5. AtWork(s) BY <2>4 DEF StopCancels, AtWork
  <2> QED BY <2>1, <2>2, <2>3, <2>4, <2>5 DEF StopCancels, ReachInv, Tracked
<1> QED BY <1>1, <1>2, <1>3, <1>4, TypeCorrect, PTL DEF Spec, StopReaches
=============================================================================
