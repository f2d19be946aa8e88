------------------------ MODULE ProjectTasks_proofs ------------------------
(***************************************************************************)
(* Proofs about ProjectTasks, for every project (whatever its tasks and    *)
(* their dependencies) and every value of the bounds.                      *)
(***************************************************************************)
EXTENDS ProjectTasks, FiniteSetTheorems, TLAPS

-----------------------------------------------------------------------------
(* The inductive invariant                                                 *)

\* The parts of TypeOK.
ColumnsOK ==
  /\ status \in [Task -> Status]
  /\ deps \in [Task -> SUBSET Task]
  /\ assigned \in [Task -> Claims]
  /\ resumable \in [Task -> BOOLEAN]
  /\ resume \in [Task -> BOOLEAN]
  /\ forced \in [Task -> BOOLEAN]
  /\ active \in BOOLEAN

PollOK ==
  poll \in [pc: {"idle", "resolved", "uncounted", "dispatching"},
            ready: SUBSET Task, count: 0..NumTasks, dispatched: 0..BatchSize]

WorkersOK ==
  workers \in [Worker -> [pc: WorkerPC, task: 0..NumTasks, claim: Claims,
                          session: Claims, resumes: BOOLEAN]]

TurnsOK ==
  turns \subseteq [task: Task, session: Claims, claim: Claims,
                   pc: {"running", "resolving"}]

\* A task is claimed MaxClaims times by workers, and once by each call of a
\* person at most.
HistoryOK ==
  /\ claims \in [Task -> Claims]
  /\ settledBy \in [Task -> Claims]
  /\ budget \in [human: 0..MaxHuman, overtake: 0..MaxOvertakes,
                 delay: 0..MaxDelays, fault: 0..MaxFaults]
  /\ \A t \in Task : claims[t] <= MaxClaims + (MaxHuman - budget.human)

\* A worker that is not free has a task; a poll that counts or dispatches has
\* tasks left.
Subjects ==
  /\ \A w \in Worker : workers[w].pc # "free" => workers[w].task \in Task
  /\ poll.pc \in {"uncounted", "dispatching"} => poll.ready # {}

Inv == ColumnsOK /\ PollOK /\ WorkersOK /\ TurnsOK /\ HistoryOK /\ Subjects

-----------------------------------------------------------------------------
(* Spending and helpers                                                    *)

\* Nothing that is spent is ever given back, and a call of a person counts as
\* one.
LEMMA Spending ==
  ASSUME HistoryOK, NEW what \in {"human", "overtake", "delay", "fault"}, Spend(what)
  PROVE  /\ budget' \in [human: 0..MaxHuman, overtake: 0..MaxOvertakes,
                         delay: 0..MaxDelays, fault: 0..MaxFaults]
         /\ what = "human" => budget'.human = budget.human - 1
         /\ what # "human" => budget'.human = budget.human
BY BoundsAssumption DEF HistoryOK, Spend

\* A fault leaves the history as it is.
LEMMA Faulty ==
  ASSUME HistoryOK, Fault, UNCHANGED <<claims, settledBy>>
  PROVE  HistoryOK'
BY Spending, BoundsAssumption DEF HistoryOK, Fault

\* So does a call of a person that claims at most one task.
LEMMA HumanHistory ==
  ASSUME HistoryOK, Human,
         \/ UNCHANGED claims
         \/ \E t \in Task : claims' = [claims EXCEPT ![t] = @ + 1],
         settledBy' \in [Task -> Claims]
  PROVE  HistoryOK'
<1>1. /\ budget' \in [human: 0..MaxHuman, overtake: 0..MaxOvertakes,
                      delay: 0..MaxDelays, fault: 0..MaxFaults]
      /\ budget'.human = budget.human - 1
  BY Spending DEF Human
<1>2. claims' \in [Task -> Claims]
  <2>1. \A t \in Task : claims[t] + 1 \in Claims
    BY <1>1, BoundsAssumption DEF HistoryOK, Claims
  <2> QED  BY <2>1 DEF HistoryOK
<1>3. \A d \in Task : claims'[d] <= MaxClaims + (MaxHuman - budget'.human)
  BY <1>1, BoundsAssumption DEF HistoryOK, Claims
<1> QED  BY <1>1, <1>2, <1>3 DEF HistoryOK

\* resolve_task_dependencies keeps the statuses what they are.
LEMMA ResolvedType ==
  ASSUME ColumnsOK
  PROVE  Resolved \in [Task -> Status]
BY DEF ColumnsOK, Resolved, Status, Terminal

\* update_task_completion keeps the types of what it writes.
LEMMA CompleteType ==
  ASSUME ColumnsOK, HistoryOK, NEW t \in Task, NEW claim \in Claims,
         NEW outcome, Complete(t, claim, outcome)
  PROVE  /\ status' \in [Task -> Status]
         /\ resumable' \in [Task -> BOOLEAN]
         /\ settledBy' \in [Task -> Claims]
<1>1. CASE status[t] = "IN_PROGRESS"
  <2>1. status' \in [Task -> Status]
    BY <1>1 DEF ColumnsOK, Complete, Status, Terminal
  <2>2. resumable' \in [Task -> BOOLEAN]
    BY <1>1, Zenon DEF ColumnsOK, Complete
  <2>3. settledBy' \in [Task -> Claims]
    BY <1>1 DEF HistoryOK, Complete
  <2> QED  BY <2>1, <2>2, <2>3
<1>2. CASE status[t] # "IN_PROGRESS"
  BY <1>2 DEF ColumnsOK, HistoryOK, Complete
<1> QED  BY <1>1, <1>2

\* The claims and sessions that are zero have their type.
LEMMA ZeroIsClaim == 0 \in Claims
BY BoundsAssumption DEF Claims

\* An idle poll, and one that goes on after a task, have their types.
LEMMA IdleType ==
  Idle \in [pc: {"idle", "resolved", "uncounted", "dispatching"},
            ready: SUBSET Task, count: 0..NumTasks, dispatched: 0..BatchSize]
BY BoundsAssumption, TasksAssumption DEF Idle

LEMMA ContinueType ==
  ASSUME PollOK, NEW t \in Task, NEW n \in {0, 1}, Continue(t, n)
  PROVE  PollOK'
<1>1. CASE poll.ready \ {t} = {} \/ poll.dispatched + n >= BatchSize
  BY <1>1, IdleType DEF Continue, PollOK
<1>2. CASE ~(poll.ready \ {t} = {} \/ poll.dispatched + n >= BatchSize)
  <2>1. poll' = [poll EXCEPT !.ready = @ \ {t}, !.dispatched = @ + n]
    BY <1>2 DEF Continue, PollOK
  <2>2. poll.dispatched + n \in 0..BatchSize /\ poll.ready \ {t} \in SUBSET
     Task
    BY <1>2, BoundsAssumption DEF PollOK
  <2> QED  BY <2>1, <2>2 DEF PollOK
<1> QED  BY <1>1, <1>2

\* A count of tasks is one of 0..NumTasks.
LEMMA CountType == Cardinality(With("IN_PROGRESS")) \in 0..NumTasks
<1>1. IsFiniteSet(Task) /\ Cardinality(Task) = NumTasks
  BY TasksAssumption, FS_Interval DEF Task
<1>2. With("IN_PROGRESS") \in SUBSET Task
  BY DEF With
<1> QED  BY <1>1, <1>2, FS_Subset, FS_CardinalityType

\* A worker is started with a task.
LEMMA DispatchedWorker ==
  ASSUME Inv, NEW w \in Worker, NEW t \in Task, PollDispatch(w, t)
  PROVE  WorkersOK'
<1>1. t \in 0..NumTasks
  BY TasksAssumption DEF Task
<1>2. [Free EXCEPT !.pc = "dispatched", !.task = t] \in
        [pc: WorkerPC, task: 0..NumTasks, claim: Claims, session: Claims,
         resumes: BOOLEAN]
  BY <1>1, ZeroIsClaim DEF Free, WorkerPC
<1> QED  BY <1>2 DEF Inv, WorkersOK, PollDispatch

\* A status set by hand may claim the task.
LEMMA StatusHistory ==
  ASSUME Inv, NEW t \in Task, NEW s \in Status, SetTaskStatus(t, s)
  PROVE  HistoryOK'
<1>1. settledBy' \in [Task -> Claims]
  BY ZeroIsClaim DEF Inv, HistoryOK, SetTaskStatus
<1>2. CASE s = "IN_PROGRESS"
  BY <1>1, <1>2, HumanHistory DEF Inv, SetTaskStatus
<1>3. CASE s # "IN_PROGRESS"
  <2>1. claims' = [claims EXCEPT ![t] = @ + 0]
    BY <1>3 DEF SetTaskStatus
  <2>2. claims[t] + 0 = claims[t]
    BY BoundsAssumption DEF Inv, HistoryOK, Claims
  <2>3. claims' = claims
    BY <2>1, <2>2 DEF Inv, HistoryOK
  <2> QED  BY <1>1, <2>3, HumanHistory DEF Inv, SetTaskStatus
<1> QED  BY <1>2, <1>3

\* A worker that ends is free.
LEMMA FreeWorker ==
  ASSUME WorkersOK, NEW w \in Worker, workers' = [workers EXCEPT ![w] = Free]
  PROVE  WorkersOK'
BY ZeroIsClaim, TasksAssumption DEF WorkersOK, WorkerPC, Free

\* What a worker keeps of the row it has claimed has the types it should.
LEMMA ClaimedWorker ==
  ASSUME Inv, NEW w \in Worker, Claim(w)
  PROVE  WorkersOK'
<1> DEFINE t == workers[w].task
<1>1. t \in Task
  BY DEF Inv, Subjects, Claim
<1>2. claims[t] + 1 \in Claims
  BY <1>1, BoundsAssumption DEF Inv, HistoryOK, Claims, Claim
<1>3. /\ resume[t] \in BOOLEAN /\ assigned[t] \in Claims /\ t \in 0..NumTasks
      /\ (IF resume[t] THEN assigned[t] ELSE 0) \in Claims
  BY <1>1, ZeroIsClaim, TasksAssumption DEF Inv, ColumnsOK, Task
<1> QED  BY <1>2, <1>3 DEF Inv, WorkersOK, WorkerPC, Claim

-----------------------------------------------------------------------------
(* Type correctness                                                        *)

\* Every step preserves the invariant.
LEMMA InvStep ==
  ASSUME Inv, [Next]_vars
  PROVE  Inv'
<1>1. ASSUME UNCHANGED vars PROVE Inv'
  BY <1>1 DEF Inv, vars, columns, ColumnsOK, PollOK, WorkersOK, TurnsOK,
     HistoryOK, Subjects
<1>2. ASSUME PollResolve PROVE Inv'
  <2>1. ColumnsOK'
    BY <1>2, ResolvedType DEF Inv, PollResolve, ColumnsOK, columns, others,
       Fixed
  <2>2. PollOK'
    BY <1>2, BoundsAssumption, TasksAssumption DEF Inv, PollResolve, PollOK,
       Idle, columns, others, Fixed
  <2>3. HistoryOK'
    BY <1>2, Spending, BoundsAssumption DEF Inv, PollResolve, HistoryOK,
       columns, others, Fixed
  <2>4. Subjects'
    BY <1>2 DEF Inv, PollResolve, Subjects, Idle, PollOK, columns, others,
       Fixed
  <2>5. WorkersOK' /\ TurnsOK'
    BY <1>2 DEF Inv, PollResolve, WorkersOK, TurnsOK, columns, others, Fixed,
       Complete
  <2> QED  BY <2>1, <2>2, <2>3, <2>4, <2>5 DEF Inv
<1>3. ASSUME PollReady PROVE Inv'
  <2>1. PollOK'
    BY <1>3, IdleType DEF Inv, PollReady, PollOK, Idle, columns, others, Fixed
  <2>2. Subjects'
    BY <1>3 DEF Inv, PollReady, Subjects, Idle, PollOK, columns, others, Fixed
  <2>3. ColumnsOK' /\ WorkersOK' /\ TurnsOK' /\ HistoryOK'
    BY <1>3 DEF Inv, PollReady, ColumnsOK, WorkersOK, TurnsOK, HistoryOK,
       columns, others, Fixed, Complete
  <2> QED  BY <2>1, <2>2, <2>3 DEF Inv
<1>4. ASSUME PollCount PROVE Inv'
  <2>1. PollOK'
    BY <1>4, CountType DEF Inv, PollCount, PollOK, columns, others, Fixed
  <2>2. Subjects'
    BY <1>4 DEF Inv, PollCount, Subjects, PollOK, columns, others, Fixed
  <2>3. ColumnsOK' /\ WorkersOK' /\ TurnsOK' /\ HistoryOK'
    BY <1>4 DEF Inv, PollCount, ColumnsOK, WorkersOK, TurnsOK, HistoryOK,
       columns, others, Fixed, Complete
  <2> QED  BY <2>1, <2>2, <2>3 DEF Inv
<1>5. ASSUME NEW t \in Task, PollDefer(t) PROVE Inv'
  <2>1. PollOK'
    BY <1>5, ContinueType DEF Inv, PollDefer, PollOK, columns, others, Fixed
  <2>2. Subjects'
    BY <1>5 DEF Inv, PollDefer, Subjects, Idle, Continue, PollOK, columns,
       others, Fixed
  <2>3. ColumnsOK' /\ WorkersOK' /\ TurnsOK' /\ HistoryOK'
    BY <1>5 DEF Inv, PollDefer, ColumnsOK, WorkersOK, TurnsOK, HistoryOK,
       columns, others, Fixed, Complete
  <2> QED  BY <2>1, <2>2, <2>3 DEF Inv
<1>6. ASSUME NEW w \in Worker, NEW t \in Task, PollDispatch(w, t) PROVE Inv'
  <2>1. PollOK'
    BY <1>6, ContinueType DEF Inv, PollDispatch, PollOK, columns, others, Fixed
  <2>2. WorkersOK'
    BY <1>6, DispatchedWorker DEF Inv, PollDispatch, WorkersOK, columns,
       others, Fixed
  <2>3. Subjects'
    BY <1>6 DEF Inv, PollDispatch, Subjects, Idle, Continue, PollOK, WorkersOK,
       Free, columns, others, Fixed
  <2>4. ColumnsOK' /\ TurnsOK' /\ HistoryOK'
    BY <1>6 DEF Inv, PollDispatch, ColumnsOK, TurnsOK, HistoryOK, columns,
       others, Fixed, Complete
  <2> QED  BY <2>1, <2>2, <2>3, <2>4 DEF Inv
<1>7. ASSUME PollEnds PROVE Inv'
  <2>1. PollOK'
    BY <1>7, BoundsAssumption, TasksAssumption DEF Inv, PollEnds, PollOK, Idle,
       columns, others, Fixed
  <2>2. HistoryOK'
    BY <1>7, Faulty DEF Inv, PollEnds, HistoryOK, columns, others, Fixed
  <2>3. Subjects'
    BY <1>7 DEF Inv, PollEnds, Subjects, Idle, columns, others, Fixed
  <2>4. ColumnsOK' /\ WorkersOK' /\ TurnsOK'
    BY <1>7 DEF Inv, PollEnds, ColumnsOK, WorkersOK, TurnsOK, columns, others,
       Fixed, Complete
  <2> QED  BY <2>1, <2>2, <2>3, <2>4 DEF Inv
<1>8. ASSUME NEW w \in Worker, Claim(w) PROVE Inv'
  <2>1. ColumnsOK'
    BY <1>8 DEF Inv, Claim, ColumnsOK, Status, Claimable, columns, others,
       Fixed
  <2>2. WorkersOK'
    BY <1>8, ClaimedWorker DEF Inv, Claim, WorkersOK, columns, others, Fixed
  <2>3. HistoryOK'
    BY <1>8, BoundsAssumption DEF Inv, Claim, HistoryOK, Claims, Subjects,
       columns, others, Fixed
  <2>4. Subjects'
    BY <1>8 DEF Inv, Claim, Subjects, WorkersOK, columns, others, Fixed
  <2>5. PollOK' /\ TurnsOK'
    BY <1>8 DEF Inv, Claim, PollOK, TurnsOK, columns, others, Fixed, Complete
  <2> QED  BY <2>1, <2>2, <2>3, <2>4, <2>5 DEF Inv
<1>9. ASSUME NEW w \in Worker, ClaimNothing(w) PROVE Inv'
  <2>1. WorkersOK'
    BY <1>9, FreeWorker DEF Inv, ClaimNothing, WorkersOK, Finish, columns,
       others, Fixed
  <2>2. Subjects'
    BY <1>9 DEF Inv, ClaimNothing, Subjects, WorkersOK, Finish, Free, columns,
       others, Fixed
  <2>3. ColumnsOK' /\ PollOK' /\ TurnsOK' /\ HistoryOK'
    BY <1>9 DEF Inv, ClaimNothing, ColumnsOK, PollOK, TurnsOK, HistoryOK,
       columns, others, Fixed, Complete
  <2> QED  BY <2>1, <2>2, <2>3 DEF Inv
<1>10. ASSUME NEW w \in Worker, ClaimFails(w) PROVE Inv'
  <2>1. WorkersOK'
    BY <1>10, FreeWorker DEF Inv, ClaimFails, WorkersOK, Finish, columns,
       others, Fixed
  <2>2. HistoryOK'
    BY <1>10, Faulty DEF Inv, ClaimFails, HistoryOK, columns, others, Fixed
  <2>3. Subjects'
    BY <1>10 DEF Inv, ClaimFails, Subjects, WorkersOK, Finish, Free, columns,
       others, Fixed
  <2>4. ColumnsOK' /\ PollOK' /\ TurnsOK'
    BY <1>10 DEF Inv, ClaimFails, ColumnsOK, PollOK, TurnsOK, columns, others,
       Fixed, Complete
  <2> QED  BY <2>1, <2>2, <2>3, <2>4 DEF Inv
<1>11. ASSUME NEW w \in Worker, CreateSession(w) PROVE Inv'
  <2>1. WorkersOK'
    BY <1>11 DEF Inv, CreateSession, WorkersOK, Goto, WorkerPC, columns,
       others, Fixed
  <2>2. TurnsOK'
    BY <1>11 DEF Inv, CreateSession, TurnsOK, WorkersOK, Subjects, columns,
       others, Fixed
  <2>3. Subjects'
    BY <1>11 DEF Inv, CreateSession, Subjects, WorkersOK, Goto, columns,
       others, Fixed
  <2>4. ColumnsOK' /\ PollOK' /\ HistoryOK'
    BY <1>11 DEF Inv, CreateSession, ColumnsOK, PollOK, HistoryOK, columns,
       others, Fixed, Complete
  <2> QED  BY <2>1, <2>2, <2>3, <2>4 DEF Inv
<1>12. ASSUME NEW w \in Worker, RecordSession(w) PROVE Inv'
  <2>1. ColumnsOK'
    BY <1>12 DEF Inv, RecordSession, ColumnsOK, WorkersOK, columns, others,
       Fixed
  <2>2. WorkersOK'
    BY <1>12 DEF Inv, RecordSession, WorkersOK, Goto, WorkerPC, columns,
       others, Fixed
  <2>3. Subjects'
    BY <1>12 DEF Inv, RecordSession, Subjects, WorkersOK, Goto, columns,
       others, Fixed
  <2>4. PollOK' /\ TurnsOK' /\ HistoryOK'
    BY <1>12 DEF Inv, RecordSession, PollOK, TurnsOK, HistoryOK, columns,
       others, Fixed, Complete
  <2> QED  BY <2>1, <2>2, <2>3, <2>4 DEF Inv
<1>13. ASSUME NEW w \in Worker, ClearFlags(w) PROVE Inv'
  <2>1. ColumnsOK'
    BY <1>13 DEF Inv, ClearFlags, ColumnsOK, columns, others, Fixed
  <2>2. WorkersOK'
    BY <1>13, FreeWorker DEF Inv, ClearFlags, WorkersOK, Finish, columns,
       others, Fixed
  <2>3. Subjects'
    BY <1>13 DEF Inv, ClearFlags, Subjects, WorkersOK, Finish, Free, columns,
       others, Fixed
  <2>4. PollOK' /\ TurnsOK' /\ HistoryOK'
    BY <1>13 DEF Inv, ClearFlags, PollOK, TurnsOK, HistoryOK, columns, others,
       Fixed, Complete
  <2> QED  BY <2>1, <2>2, <2>3, <2>4 DEF Inv
<1>14. ASSUME NEW w \in Worker, ExecuteFails(w) PROVE Inv'
  <2>1. WorkersOK'
    BY <1>14 DEF Inv, ExecuteFails, WorkersOK, Goto, WorkerPC, columns, others,
       Fixed
  <2>2. HistoryOK'
    BY <1>14, Faulty DEF Inv, ExecuteFails, HistoryOK, columns, others, Fixed
  <2>3. Subjects'
    BY <1>14 DEF Inv, ExecuteFails, Subjects, WorkersOK, Goto, columns, others,
       Fixed
  <2>4. ColumnsOK' /\ PollOK' /\ TurnsOK'
    BY <1>14 DEF Inv, ExecuteFails, ColumnsOK, PollOK, TurnsOK, columns,
       others, Fixed, Complete
  <2> QED  BY <2>1, <2>2, <2>3, <2>4 DEF Inv
<1>15. ASSUME NEW w \in Worker, FailTask(w) PROVE Inv'
  <2>1. ColumnsOK'
    BY <1>15, CompleteType DEF Inv, FailTask, ColumnsOK, WorkersOK, Subjects,
       columns, others, Fixed
  <2>2. WorkersOK'
    BY <1>15, FreeWorker DEF Inv, FailTask, WorkersOK, Finish, columns, others,
       Fixed
  <2>3. HistoryOK'
    BY <1>15, CompleteType DEF Inv, FailTask, HistoryOK, WorkersOK, Subjects,
       columns, others, Fixed
  <2>4. Subjects'
    BY <1>15 DEF Inv, FailTask, Subjects, WorkersOK, Finish, Free, columns,
       others, Fixed
  <2>5. PollOK' /\ TurnsOK'
    BY <1>15 DEF Inv, FailTask, PollOK, TurnsOK, columns, others, Fixed,
       Complete
  <2> QED  BY <2>1, <2>2, <2>3, <2>4, <2>5 DEF Inv
<1>16. ASSUME NEW w \in Worker, FailTaskFails(w) PROVE Inv'
  <2>1. WorkersOK'
    BY <1>16, FreeWorker DEF Inv, FailTaskFails, WorkersOK, Finish, columns,
       others, Fixed
  <2>2. Subjects'
    BY <1>16 DEF Inv, FailTaskFails, Subjects, WorkersOK, Finish, Free,
       columns, others, Fixed
  <2>3. ColumnsOK' /\ PollOK' /\ TurnsOK' /\ HistoryOK'
    BY <1>16 DEF Inv, FailTaskFails, ColumnsOK, PollOK, TurnsOK, HistoryOK,
       columns, others, Fixed, Complete
  <2> QED  BY <2>1, <2>2, <2>3 DEF Inv
<1>17. ASSUME NEW turn \in turns, NEW outcome \in Outcome, TurnEnds(turn,
   outcome) PROVE Inv'
  <2>1. ColumnsOK'
    BY <1>17, CompleteType DEF Inv, TurnEnds, ColumnsOK, TurnsOK, columns,
       others, Fixed
  <2>2. TurnsOK'
    BY <1>17 DEF Inv, TurnEnds, TurnsOK, columns, others, Fixed
  <2>3. HistoryOK'
    BY <1>17, CompleteType DEF Inv, TurnEnds, HistoryOK, TurnsOK, columns,
       others, Fixed
  <2>4. PollOK' /\ WorkersOK' /\ Subjects'
    BY <1>17 DEF Inv, TurnEnds, PollOK, WorkersOK, Subjects, columns, others,
       Fixed, Complete
  <2> QED  BY <2>1, <2>2, <2>3, <2>4 DEF Inv
<1>18. ASSUME NEW turn \in turns, TurnResolves(turn) PROVE Inv'
  <2>1. ColumnsOK'
    BY <1>18, ResolvedType DEF Inv, TurnResolves, ColumnsOK, columns, others,
       Fixed
  <2>2. TurnsOK'
    BY <1>18 DEF Inv, TurnResolves, TurnsOK, columns, others, Fixed
  <2>3. PollOK' /\ WorkersOK' /\ HistoryOK' /\ Subjects'
    BY <1>18 DEF Inv, TurnResolves, PollOK, WorkersOK, HistoryOK, Subjects,
       columns, others, Fixed, Complete
  <2> QED  BY <2>1, <2>2, <2>3 DEF Inv
<1>19. ASSUME NEW turn \in turns, TurnLost(turn) PROVE Inv'
  <2>1. TurnsOK'
    BY <1>19 DEF Inv, TurnLost, TurnsOK, columns, others, Fixed
  <2>2. HistoryOK'
    BY <1>19, Faulty DEF Inv, TurnLost, HistoryOK, columns, others, Fixed
  <2>3. ColumnsOK' /\ PollOK' /\ WorkersOK' /\ Subjects'
    BY <1>19 DEF Inv, TurnLost, ColumnsOK, PollOK, WorkersOK, Subjects,
       columns, others, Fixed, Complete
  <2> QED  BY <2>1, <2>2, <2>3 DEF Inv
<1>20. ASSUME NEW stale \in SUBSET Task, RecoverStale(stale) PROVE Inv'
  <2>1. ColumnsOK'
    BY <1>20 DEF Inv, RecoverStale, ColumnsOK, Status, columns, others, Fixed
  <2>2. HistoryOK'
    BY <1>20, Spending, BoundsAssumption DEF Inv, RecoverStale, HistoryOK,
       columns, others, Fixed
  <2>3. PollOK' /\ WorkersOK' /\ TurnsOK' /\ Subjects'
    BY <1>20 DEF Inv, RecoverStale, PollOK, WorkersOK, TurnsOK, Subjects,
       columns, others, Fixed, Complete
  <2> QED  BY <2>1, <2>2, <2>3 DEF Inv
<1>21. ASSUME Crash PROVE Inv'
  <2>1. PollOK'
    BY <1>21, BoundsAssumption, TasksAssumption DEF Inv, Crash, PollOK, Idle,
       columns, others, Fixed
  <2>2. WorkersOK'
    BY <1>21, ZeroIsClaim, TasksAssumption DEF Inv, Crash, WorkersOK, Free,
       WorkerPC, columns, others, Fixed
  <2>3. TurnsOK'
    BY <1>21 DEF Inv, Crash, TurnsOK, columns, others, Fixed
  <2>4. HistoryOK'
    BY <1>21, Faulty DEF Inv, Crash, HistoryOK, columns, others, Fixed
  <2>5. Subjects'
    BY <1>21 DEF Inv, Crash, Subjects, Free, Idle, columns, others, Fixed
  <2>6. ColumnsOK'
    BY <1>21 DEF Inv, Crash, ColumnsOK, columns, others, Fixed, Complete
  <2> QED  BY <2>1, <2>2, <2>3, <2>4, <2>5, <2>6 DEF Inv
<1>22. ASSUME NEW t \in Task, ManualClaim(t) PROVE Inv'
  <2>1. ColumnsOK'
    BY <1>22 DEF Inv, ManualClaim, ColumnsOK, Status, columns, others, Fixed
  <2>2. HistoryOK'
    BY <1>22, HumanHistory DEF Inv, ManualClaim, HistoryOK, columns, others,
       Fixed
  <2>3. PollOK' /\ WorkersOK' /\ TurnsOK' /\ Subjects'
    BY <1>22 DEF Inv, ManualClaim, PollOK, WorkersOK, TurnsOK, Subjects,
       columns, others, Fixed, Complete
  <2> QED  BY <2>1, <2>2, <2>3 DEF Inv
<1>23. ASSUME NEW t \in Task, RestartTask(t) PROVE Inv'
  <2>1. ColumnsOK'
    BY <1>23, ZeroIsClaim DEF Inv, RestartTask, ColumnsOK, Status, columns,
       others, Fixed
  <2>2. HistoryOK'
    BY <1>23, HumanHistory, ZeroIsClaim DEF Inv, RestartTask, HistoryOK,
       columns, others, Fixed
  <2>3. PollOK' /\ WorkersOK' /\ TurnsOK' /\ Subjects'
    BY <1>23 DEF Inv, RestartTask, PollOK, WorkersOK, TurnsOK, Subjects,
       columns, others, Fixed, Complete
  <2> QED  BY <2>1, <2>2, <2>3 DEF Inv
<1>24. ASSUME NEW t \in Task, ConsoleRestart(t) PROVE Inv'
  <2>1. ColumnsOK'
    BY <1>24, ZeroIsClaim DEF Inv, ConsoleRestart, ColumnsOK, Status, columns,
       others, Fixed
  <2>2. HistoryOK'
    BY <1>24, HumanHistory, ZeroIsClaim DEF Inv, ConsoleRestart, HistoryOK,
       columns, others, Fixed
  <2>3. PollOK' /\ WorkersOK' /\ TurnsOK' /\ Subjects'
    BY <1>24 DEF Inv, ConsoleRestart, PollOK, WorkersOK, TurnsOK, Subjects,
       columns, others, Fixed, Complete
  <2> QED  BY <2>1, <2>2, <2>3 DEF Inv
<1>25. ASSUME NEW t \in Task, ResumeTask(t) PROVE Inv'
  <2>1. ColumnsOK'
    BY <1>25 DEF Inv, ResumeTask, ColumnsOK, Status, columns, others, Fixed
  <2>2. HistoryOK'
    BY <1>25, HumanHistory, ZeroIsClaim DEF Inv, ResumeTask, HistoryOK,
       columns, others, Fixed
  <2>3. PollOK' /\ WorkersOK' /\ TurnsOK' /\ Subjects'
    BY <1>25 DEF Inv, ResumeTask, PollOK, WorkersOK, TurnsOK, Subjects,
       columns, others, Fixed, Complete
  <2> QED  BY <2>1, <2>2, <2>3 DEF Inv
<1>26. ASSUME NEW t \in Task, SetForcedPickup(t) PROVE Inv'
  <2>1. ColumnsOK'
    BY <1>26 DEF Inv, SetForcedPickup, ColumnsOK, columns, others, Fixed
  <2>2. HistoryOK'
    BY <1>26, HumanHistory DEF Inv, SetForcedPickup, HistoryOK, columns,
       others, Fixed
  <2>3. PollOK' /\ WorkersOK' /\ TurnsOK' /\ Subjects'
    BY <1>26 DEF Inv, SetForcedPickup, PollOK, WorkersOK, TurnsOK, Subjects,
       columns, others, Fixed, Complete
  <2> QED  BY <2>1, <2>2, <2>3 DEF Inv
<1>27. ASSUME NEW t \in Task, NEW s \in Status, SetTaskStatus(t, s) PROVE Inv'
  <2>1. ColumnsOK'
    BY <1>27 DEF Inv, SetTaskStatus, ColumnsOK, Status, columns, others, Fixed
  <2>2. HistoryOK'
    BY <1>27, StatusHistory DEF Inv, SetTaskStatus, HistoryOK, columns, others,
       Fixed
  <2>3. PollOK' /\ WorkersOK' /\ TurnsOK' /\ Subjects'
    BY <1>27 DEF Inv, SetTaskStatus, PollOK, WorkersOK, TurnsOK, Subjects,
       columns, others, Fixed, Complete
  <2> QED  BY <2>1, <2>2, <2>3 DEF Inv
<1>28. ASSUME NEW t \in Task, NEW D \in SUBSET (Task \ {t}),
   SetTaskDependencies(t, D) PROVE Inv'
  <2>1. ColumnsOK'
    BY <1>28 DEF Inv, SetTaskDependencies, ColumnsOK, Status, columns, others,
       Fixed
  <2>2. HistoryOK'
    BY <1>28, HumanHistory DEF Inv, SetTaskDependencies, HistoryOK, columns,
       others, Fixed
  <2>3. PollOK' /\ WorkersOK' /\ TurnsOK' /\ Subjects'
    BY <1>28 DEF Inv, SetTaskDependencies, PollOK, WorkersOK, TurnsOK,
       Subjects, columns, others, Fixed, Complete
  <2> QED  BY <2>1, <2>2, <2>3 DEF Inv
<1>29. ASSUME SetProjectStatus PROVE Inv'
  <2>1. ColumnsOK'
    BY <1>29 DEF Inv, SetProjectStatus, ColumnsOK, columns, others, Fixed
  <2>2. HistoryOK'
    BY <1>29, HumanHistory DEF Inv, SetProjectStatus, HistoryOK, columns,
       others, Fixed
  <2>3. PollOK' /\ WorkersOK' /\ TurnsOK' /\ Subjects'
    BY <1>29 DEF Inv, SetProjectStatus, PollOK, WorkersOK, TurnsOK, Subjects,
       columns, others, Fixed, Complete
  <2> QED  BY <2>1, <2>2, <2>3 DEF Inv
<1> QED
  BY <1>1, <1>2, <1>3, <1>4, <1>5, <1>6, <1>7, <1>8, <1>9, <1>10, <1>11, <1>12,
     <1>13, <1>14, <1>15, <1>16, <1>17, <1>18, <1>19, <1>20, <1>21, <1>22,
     <1>23, <1>24, <1>25, <1>26, <1>27, <1>28, <1>29
  DEF Next, Poll, Execute, ExecuteError, Turn, Person

\* The initial state satisfies it.
LEMMA InvInit == Init => Inv
<1> SUFFICES ASSUME Init PROVE Inv
  OBVIOUS
<1>1. ColumnsOK
  BY ZeroIsClaim, TasksAssumption DEF Init, ColumnsOK, Status
<1>2. PollOK
  BY IdleType DEF Init, PollOK
<1>3. WorkersOK
  BY ZeroIsClaim, TasksAssumption DEF Init, WorkersOK, Free, WorkerPC
<1>4. TurnsOK
  BY DEF Init, TurnsOK
<1>5. HistoryOK
  BY ZeroIsClaim, BoundsAssumption DEF Init, HistoryOK
<1>6. Subjects
  BY DEF Init, Subjects, Idle, Free
<1> QED  BY <1>1, <1>2, <1>3, <1>4, <1>5, <1>6 DEF Inv

LEMMA InvHolds == Spec => []Inv
BY InvInit, InvStep, PTL DEF Spec

\* The columns, the poll, the workers, the turns and the history keep their
\* types through everything that task_executor.py and the services do.
THEOREM TypesAreCorrect == Spec => []TypeOK
<1>1. Inv => TypeOK
  BY DEF Inv, ColumnsOK, PollOK, WorkersOK, TurnsOK, HistoryOK, TypeOK
<1> QED  BY <1>1, InvHolds, PTL

-----------------------------------------------------------------------------
(* What happens without people                                             *)

\* What a step that nobody asked for may do: dependencies stay as they are; a
\* task that waits becomes READY once they are completed, a READY one is
\* claimed, and one IN_PROGRESS is settled or made READY again.
Automatic ==
  /\ deps' = deps
  /\ \A t \in Task :
       \/ status'[t] = status[t]
       \/ /\ status[t] \in {"PENDING", "BLOCKED"} /\ status'[t] = "READY"
          /\ \A d \in deps[t] : status[d] = "COMPLETED"
       \/ status[t] = "READY" /\ status'[t] = "IN_PROGRESS"
       \/ /\ status[t] = "IN_PROGRESS"
          /\ status'[t] \in {"READY", "COMPLETED", "FAILED"}

\* resolve_task_dependencies promotes only tasks that wait.
LEMMA Resolving ==
  ASSUME Inv, status' = Resolved, deps' = deps
  PROVE  Automatic
BY DEF Resolved, DependenciesMet, Automatic

\* update_task_completion settles only a task IN_PROGRESS.
LEMMA Completing ==
  ASSUME Inv, NEW t \in Task, NEW claim, NEW outcome,
         Complete(t, claim, outcome), deps' = deps
  PROVE  Automatic
BY DEF Inv, ColumnsOK, Complete, Automatic

\* Every step is automatic, or a call of a person or an agent.
LEMMA AutomaticOrHuman ==
  ASSUME Inv, [Next]_vars
  PROVE  Automatic \/ Human
<1>1. ASSUME UNCHANGED <<status, deps>> PROVE Automatic
  BY <1>1 DEF Automatic
<1>2. CASE UNCHANGED vars
  BY <1>1, <1>2 DEF vars, columns
<1>3. CASE PollResolve
  BY <1>3, Resolving DEF PollResolve, others
<1>4. CASE PollReady \/ PollCount \/ PollEnds
  BY <1>1, <1>4 DEF PollReady, PollCount, PollEnds, columns
<1>5. ASSUME NEW t \in Task,
             PollDefer(t) \/ \E w \in Worker : PollDispatch(w, t)
      PROVE  Automatic
  BY <1>1, <1>5 DEF PollDefer, PollDispatch, columns
<1>6. ASSUME NEW w \in Worker, Claim(w) PROVE Automatic
  BY <1>6 DEF Claim, Claimable, Automatic, Inv, ColumnsOK
<1>7. ASSUME NEW w \in Worker,
             \/ ClaimNothing(w) \/ ClaimFails(w) \/ CreateSession(w)
             \/ RecordSession(w) \/ ClearFlags(w) \/ ExecuteFails(w)
             \/ FailTaskFails(w)
      PROVE  Automatic
  BY <1>1, <1>7 DEF ClaimNothing, ClaimFails, CreateSession, RecordSession,
     ClearFlags, ExecuteFails, FailTaskFails, columns
<1>8. ASSUME NEW w \in Worker, FailTask(w) PROVE Automatic
  BY <1>8, Completing DEF FailTask, Inv, Subjects
<1>9. ASSUME NEW turn \in turns, NEW outcome \in Outcome,
             TurnEnds(turn, outcome)
      PROVE  Automatic
  BY <1>9, Completing DEF TurnEnds, Inv, TurnsOK
<1>10. ASSUME NEW turn \in turns, TurnResolves(turn) PROVE Automatic
  BY <1>10, Resolving DEF TurnResolves, others
<1>11. ASSUME NEW turn \in turns, TurnLost(turn) PROVE Automatic
  BY <1>1, <1>11 DEF TurnLost, columns
<1>12. ASSUME NEW stale \in SUBSET Task, RecoverStale(stale) PROVE Automatic
  BY <1>12 DEF RecoverStale, With, Automatic, others
<1>13. CASE Crash
  BY <1>1, <1>13 DEF Crash, columns
<1>14. ASSUME SetProjectStatus \/ \E t \in Task : Person(t) PROVE Human
  BY <1>14 DEF Person, SetProjectStatus, ManualClaim, RestartTask,
     ConsoleRestart, ResumeTask, SetForcedPickup, SetTaskStatus,
     SetTaskDependencies
<1> QED
  BY <1>2, <1>3, <1>4, <1>5, <1>6, <1>7, <1>8, <1>9, <1>10, <1>11, <1>12,
     <1>13, <1>14
  DEF Next, Poll, Execute, ExecuteError, Turn

\* A call of a person or an agent leaves one call less.
LEMMA HumanCounts ==
  ASSUME Inv, Human
  PROVE  budget'.human # budget.human /\ budget'.human # MaxHuman
<1>1. budget'.human = budget.human - 1 /\ budget.human \in 0..MaxHuman
  BY Spending DEF Inv, HistoryOK, Human
<1> QED  BY <1>1, BoundsAssumption

\* A settled task is changed by people and agents only, whatever stale
\* recoveries, late reports, crashes and failures do.
THEOREM SettledTasksStay == Spec => SettledStays
<1>1. ASSUME Inv, [Next]_vars, budget'.human = budget.human,
             NEW t \in Task, status[t] \in Terminal
      PROVE  status'[t] = status[t]
  BY <1>1, AutomaticOrHuman, HumanCounts DEF Automatic, Terminal
<1>2. Inv /\ [Next]_vars =>
        [budget'.human = budget.human =>
           \A t \in Task : status[t] \in Terminal => status'[t] = status[t]]_vars
  BY <1>1
<1> QED  BY <1>2, InvHolds, PTL DEF Spec, SettledStays

-----------------------------------------------------------------------------
(* Dependencies come first                                                 *)

\* Every step spends one thing at most.
LEMMA StepSpends ==
  ASSUME [Next]_vars
  PROVE  \/ UNCHANGED budget \/ Fault \/ Spend("overtake") \/ Spend("delay")
         \/ Human
BY DEF Next, Poll, Execute, ExecuteError, Turn, Person, vars, PollResolve,
   PollReady, PollCount, PollDefer, PollDispatch, PollEnds, Claim,
   ClaimNothing, ClaimFails, CreateSession, RecordSession, ClearFlags,
   ExecuteFails, FailTask, FailTaskFails, TurnEnds, TurnResolves, TurnLost,
   RecoverStale, Crash, SetProjectStatus, ManualClaim, RestartTask,
   ConsoleRestart, ResumeTask, SetForcedPickup, SetTaskStatus,
   SetTaskDependencies

\* As long as people have all their calls, they had them before, and every
\* step is automatic.
LEMMA UntouchedBefore ==
  ASSUME Inv, [Next]_vars, budget'.human = MaxHuman
  PROVE  Automatic /\ budget.human = MaxHuman
<1>1. Automatic
  BY AutomaticOrHuman, HumanCounts
<1>2. ~Human
  BY HumanCounts
<1>3. budget'.human = budget.human
  BY <1>2, StepSpends, Spending DEF Inv, Fault
<1> QED  BY <1>1, <1>3

\* A task is ready, worked on or settled by its work only when everything it
\* depends on is completed: the promotion after a completion, the poll and the
\* stale recovery together never start one early.
THEOREM DependenciesComeFirst == Spec => []DependenciesFirst
<1>1. Init => DependenciesFirst
  BY DEF Init, DependenciesFirst
<1>2. ASSUME Inv, DependenciesFirst, [Next]_vars PROVE DependenciesFirst'
  <2> SUFFICES ASSUME budget'.human = MaxHuman, NEW t \in Task,
                      status'[t] \in
                        {"READY", "IN_PROGRESS", "COMPLETED", "FAILED"},
                      NEW d \in deps'[t]
               PROVE  status'[d] = "COMPLETED"
    BY DEF DependenciesFirst
  <2>1. Automatic /\ budget.human = MaxHuman
    BY <1>2, UntouchedBefore
  <2>2. d \in deps[t] /\ d \in Task
    BY <1>2, <2>1 DEF Automatic, Inv, ColumnsOK
  <2>3. status[d] = "COMPLETED"
    BY <1>2, <2>1, <2>2 DEF Automatic, DependenciesFirst
  <2> QED  BY <2>1, <2>2, <2>3 DEF Automatic
<1> QED  BY <1>1, <1>2, InvHolds, PTL DEF Spec

-----------------------------------------------------------------------------
(* One execution at a time                                                 *)

Busy == {"IN_PROGRESS"} \cup Terminal

\* What works on a task works for the last claim of it, and the task has not
\* been given back.
Single ==
  /\ \A w \in Worker : workers[w].pc \notin {"free", "dispatched"} =>
       /\ workers[w].claim = claims[workers[w].task]
       /\ status[workers[w].task] \in Busy
  /\ \A turn \in turns : turn.pc = "running" =>
       /\ turn.claim = claims[turn.task]
       /\ status[turn.task] \in Busy

SingleInv == Undisturbed => Single

\* As long as the bounds of people and delays are untouched, they were so
\* before.
LEMMA UndisturbedBefore ==
  ASSUME Inv, [Next]_vars, Undisturbed'
  PROVE  /\ Automatic /\ Undisturbed
         /\ ~Human /\ ~Spend("delay")
<1>1. Automatic /\ budget.human = MaxHuman
  BY UntouchedBefore DEF Undisturbed
<1>2. ~Human
  BY HumanCounts DEF Undisturbed
<1>3. ~Spend("delay")
  BY BoundsAssumption DEF Inv, HistoryOK, Undisturbed, Spend
<1>4. budget'.delay = budget.delay
  BY <1>2, <1>3, StepSpends DEF Inv, HistoryOK, Fault, Spend
<1> QED  BY <1>1, <1>2, <1>3, <1>4 DEF Undisturbed

\* Automatic steps give a busy task back only by the recovery of stale tasks.
LEMMA BusyStays ==
  ASSUME Automatic, NEW t \in Task, status[t] \in Busy, status'[t] # "READY"
  PROVE  status'[t] \in Busy
BY DEF Automatic, Busy, Terminal

\* Nothing changes for Single when busy tasks stay busy and all that works
\* after a step has worked before it, or was started by what had.
LEMMA SingleKept ==
  ASSUME Inv, Single, claims' = claims,
         \A t \in Task : status[t] \in Busy => status'[t] \in Busy,
         \A w \in Worker : workers'[w].pc \notin {"free", "dispatched"} =>
           /\ workers[w].pc \notin {"free", "dispatched"}
           /\ workers'[w].claim = workers[w].claim
           /\ workers'[w].task = workers[w].task,
         \A turn \in turns' : turn.pc = "running" =>
           \/ turn \in turns
           \/ \E w \in Worker : /\ workers[w].pc \notin {"free", "dispatched"}
                                /\ turn.task = workers[w].task
                                /\ turn.claim = workers[w].claim
  PROVE  Single'
<1>1. ASSUME NEW w \in Worker, workers'[w].pc \notin {"free", "dispatched"}
      PROVE  /\ workers'[w].claim = claims'[workers'[w].task]
             /\ status'[workers'[w].task] \in Busy
  BY <1>1 DEF Single, Inv, Subjects
<1>2. ASSUME NEW turn \in turns', turn.pc = "running"
      PROVE  turn.claim = claims'[turn.task] /\ status'[turn.task] \in Busy
  BY <1>2 DEF Single, Inv, Subjects, TurnsOK
<1> QED  BY <1>1, <1>2 DEF Single

\* Every step keeps it.
LEMMA SingleStep ==
  ASSUME Inv, SingleInv, [Next]_vars
  PROVE  SingleInv'
<1> SUFFICES ASSUME Undisturbed' PROVE Single'
  BY DEF SingleInv
<1>1. Automatic /\ Undisturbed /\ ~Human /\ ~Spend("delay")
  BY UndisturbedBefore
<1>2. Single
  BY <1>1 DEF SingleInv
<1>3. ASSUME \A t \in Task : status[t] = "IN_PROGRESS" => status'[t] # "READY"
      PROVE  \A t \in Task : status[t] \in Busy => status'[t] \in Busy
  BY <1>1, <1>3 DEF Automatic, Busy, Terminal
<1>4. ASSUME UNCHANGED <<workers, turns, claims>>,
             \A t \in Task : status[t] = "IN_PROGRESS" => status'[t] # "READY"
      PROVE  Single'
  BY <1>2, <1>3, <1>4, SingleKept
<1>5. CASE UNCHANGED vars
  BY <1>4, <1>5 DEF vars, columns
<1>6. CASE PollResolve
  BY <1>4, <1>6 DEF PollResolve, Resolved
<1>7. CASE PollReady \/ PollCount \/ PollEnds \/ \E t \in Task : PollDefer(t)
  BY <1>4, <1>7 DEF PollReady, PollCount, PollEnds, PollDefer, columns
<1>8. ASSUME NEW t \in Task, NEW w \in Worker, PollDispatch(w, t)
      PROVE  Single'
  <2>1. /\ workers' = [workers EXCEPT ![w] =
                         [Free EXCEPT !.pc = "dispatched", !.task = t]]
        /\ UNCHANGED <<status, turns, claims>>
    BY <1>8 DEF PollDispatch, columns
  <2>2. workers'[w].pc = "dispatched" /\ \A v \in Worker \ {w} : workers'[v] =
     workers[v]
    BY <2>1 DEF Inv, WorkersOK, Free
  <2> QED  BY <1>2, <2>1, <2>2, SingleKept
<1>9. ASSUME NEW w \in Worker, Claim(w) PROVE Single'
  <2> DEFINE t == workers[w].task
  <2>1. /\ t \in Task /\ status[t] = "READY" /\ turns' = turns
        /\ status' = [status EXCEPT ![t] = "IN_PROGRESS"]
        /\ claims' = [claims EXCEPT ![t] = @ + 1]
    BY <1>9 DEF Claim, Claimable, Inv, Subjects
  <2>2. /\ workers'[w].task = t /\ workers'[w].claim = claims[t] + 1
        /\ \A v \in Worker \ {w} : workers'[v] = workers[v]
    BY <1>9 DEF Claim, Inv, WorkersOK
  <2>3. ASSUME NEW v \in Worker, workers'[v].pc \notin {"free", "dispatched"}
        PROVE  /\ workers'[v].claim = claims'[workers'[v].task]
               /\ status'[workers'[v].task] \in Busy
    <3>1. CASE v = w
      BY <2>1, <2>2, <3>1 DEF Inv, HistoryOK, ColumnsOK, Busy
    <3>2. CASE v # w
      <4>1. /\ workers[v].claim = claims[workers[v].task]
            /\ status[workers[v].task] \in Busy
            /\ workers[v].task \in Task
        BY <1>2, <2>2, <2>3, <3>2 DEF Single, Inv, Subjects
      <4>2. workers[v].task # t
        BY <2>1, <4>1 DEF Busy, Terminal
      <4> QED  BY <2>1, <2>2, <3>2, <4>1, <4>2 DEF Inv, HistoryOK, ColumnsOK
    <3> QED  BY <3>1, <3>2
  <2>4. ASSUME NEW turn \in turns', turn.pc = "running"
        PROVE  turn.claim = claims'[turn.task] /\ status'[turn.task] \in Busy
    <3>1. /\ turn.claim = claims[turn.task] /\ status[turn.task] \in Busy
          /\ turn.task \in Task
      BY <1>2, <2>1, <2>4 DEF Single, Inv, TurnsOK
    <3>2. turn.task # t
      BY <2>1, <3>1 DEF Busy, Terminal
    <3> QED  BY <2>1, <3>1, <3>2 DEF Inv, HistoryOK, ColumnsOK
  <2> QED  BY <2>3, <2>4 DEF Single
<1>10. ASSUME NEW w \in Worker,
              ClaimNothing(w) \/ ClaimFails(w) \/ FailTaskFails(w)
       PROVE  Single'
  <2>1. /\ workers' = [workers EXCEPT ![w] = Free]
        /\ UNCHANGED <<status, turns, claims>>
    BY <1>10 DEF ClaimNothing, ClaimFails, FailTaskFails, Finish, columns
  <2>2. workers'[w].pc = "free" /\ \A v \in Worker \ {w} : workers'[v] =
     workers[v]
    BY <2>1 DEF Inv, WorkersOK, Free
  <2> QED  BY <1>2, <2>1, <2>2, SingleKept
<1>11. ASSUME NEW w \in Worker, FailTask(w) \/ ClearFlags(w) PROVE Single'
  <2>1. /\ workers' = [workers EXCEPT ![w] = Free]
        /\ UNCHANGED <<turns, claims>>
        /\ \A t \in Task : status[t] = "IN_PROGRESS" => status'[t] # "READY"
    BY <1>11 DEF FailTask, ClearFlags, Finish, Complete, Inv, Subjects,
       ColumnsOK
  <2>2. workers'[w].pc = "free" /\ \A v \in Worker \ {w} : workers'[v] =
     workers[v]
    BY <2>1 DEF Inv, WorkersOK, Free
  <2> QED  BY <1>2, <1>3, <2>1, <2>2, SingleKept
<1>12. ASSUME NEW w \in Worker,
              CreateSession(w) \/ RecordSession(w) \/ ExecuteFails(w)
       PROVE  Single'
  <2>1. /\ workers[w].pc \notin {"free", "dispatched"}
        /\ \E pc \in WorkerPC : workers' = [workers EXCEPT ![w].pc = pc]
        /\ UNCHANGED <<status, claims>>
    BY <1>12 DEF CreateSession, RecordSession, ExecuteFails, Goto, WorkerPC,
       columns
  <2>2. \A v \in Worker : /\ workers'[v].claim = workers[v].claim
                          /\ workers'[v].task = workers[v].task
                          /\ v # w => workers'[v] = workers[v]
    BY <2>1 DEF Inv, WorkersOK
  <2>3. ASSUME NEW turn \in turns', turn \notin turns
        PROVE  turn.task = workers[w].task /\ turn.claim = workers[w].claim
    BY <1>12, <2>3 DEF CreateSession, RecordSession, ExecuteFails
  <2>4. \A v \in Worker : workers'[v].pc \notin {"free", "dispatched"} =>
                            workers[v].pc \notin {"free", "dispatched"}
    BY <2>1, <2>2
  <2> QED  BY <1>2, <2>1, <2>2, <2>3, <2>4, SingleKept
<1>13. ASSUME NEW turn \in turns, NEW outcome \in Outcome,
              TurnEnds(turn, outcome)
       PROVE  Single'
  <2>1. /\ UNCHANGED <<workers, claims>>
        /\ \A t \in Task : status[t] = "IN_PROGRESS" => status'[t] # "READY"
    BY <1>13 DEF TurnEnds, Complete, Inv, ColumnsOK, TurnsOK
  <2>2. \A r \in turns' : r.pc = "running" => r \in turns
    BY <1>13 DEF TurnEnds, Inv, TurnsOK
  <2> QED  BY <1>2, <1>3, <2>1, <2>2, SingleKept
<1>14. ASSUME NEW turn \in turns, TurnResolves(turn) \/ TurnLost(turn)
       PROVE  Single'
  <2>1. /\ UNCHANGED <<workers, claims>> /\ turns' \subseteq turns
        /\ \A t \in Task : status[t] = "IN_PROGRESS" => status'[t] # "READY"
    BY <1>14 DEF TurnResolves, TurnLost, Resolved, columns
  <2> QED  BY <1>2, <1>3, <2>1, SingleKept
<1>15. ASSUME NEW stale \in SUBSET Task, RecoverStale(stale) PROVE Single'
  <2>1. /\ UNCHANGED <<workers, turns, claims>>
        /\ \A t \in stale : ~Attended(t)
        /\ \A t \in Task \ stale : status'[t] = status[t]
    BY <1>1, <1>15 DEF RecoverStale, others
  <2>2. ASSUME NEW w \in Worker, workers[w].pc \notin {"free", "dispatched"}
        PROVE  /\ workers[w].claim = claims[workers[w].task]
               /\ status'[workers[w].task] \in Busy
    BY <1>2, <2>1, <2>2 DEF Single, Attended, Inv, Subjects
  <2>3. ASSUME NEW turn \in turns, turn.pc = "running"
        PROVE  turn.claim = claims[turn.task] /\ status'[turn.task] \in Busy
    BY <1>2, <2>1, <2>3 DEF Single, Attended, Inv, TurnsOK
  <2> QED  BY <2>1, <2>2, <2>3 DEF Single
<1>16. CASE Crash
  <2>1. /\ UNCHANGED <<status, claims>> /\ turns' \subseteq turns
        /\ \A w \in Worker : workers'[w].pc = "free"
    BY <1>16 DEF Crash, Free, columns
  <2> QED  BY <1>2, <2>1, SingleKept
<1>17. ASSUME SetProjectStatus \/ \E t \in Task : Person(t) PROVE Human
  BY <1>17 DEF Person, SetProjectStatus, ManualClaim, RestartTask,
     ConsoleRestart, ResumeTask, SetForcedPickup, SetTaskStatus,
     SetTaskDependencies
<1> QED
  BY <1>1, <1>5, <1>6, <1>7, <1>8, <1>9, <1>10, <1>11, <1>12, <1>13, <1>14,
     <1>15, <1>16, <1>17
  DEF Next, Poll, Execute, ExecuteError, Turn

\* As long as nobody interferes and no task is taken for stale while it is
\* worked on, no task has two executions at once: the claim, the recovery of
\* what a crash or a lost turn has left, and failures of execute_task after its
\* session has started do not lead to a second one.
THEOREM OneExecutionAtATime == Spec => []OneExecution
<1>1. Init => SingleInv
  BY DEF Init, SingleInv, Single, Free
<1>2. Inv /\ SingleInv => OneExecution
  <2> SUFFICES ASSUME Single, NEW t \in Task
               PROVE  Cardinality(Executions(t)) <= 1
    BY DEF SingleInv, OneExecution
  <2>1. Executions(t) \subseteq {claims[t]}
    BY DEF Executions, Single
  <2>2. IsFiniteSet({claims[t]}) /\ Cardinality({claims[t]}) = 1
    BY FS_Singleton
  <2>3. Cardinality(Executions(t)) <= Cardinality({claims[t]})
    BY <2>1, <2>2, FS_Subset
  <2> QED  BY <2>2, <2>3
<1> QED  BY <1>1, <1>2, SingleStep, InvHolds, PTL DEF Spec

\* What LateCompletion shows needs a person, or a recovery or a poll that comes
\* too early: without them a task is settled by the work of the claim that holds
\* it, whatever crashes, is lost, fails or is late, and no later claim takes it.
THEOREM OwnClaimSettles == Spec => [](Undisturbed => SettledByItsClaim)
<1> DEFINE Settled == Undisturbed => SettledByItsClaim
<1>1. Init => SingleInv /\ Settled
  BY DEF Init, SingleInv, Single, Free, SettledByItsClaim
<1>2. ASSUME Inv, SingleInv, Settled, [Next]_vars PROVE Settled'
  <2> SUFFICES ASSUME Undisturbed', NEW t \in Task,
                      status'[t] \in {"COMPLETED", "FAILED"}
               PROVE  settledBy'[t] \in {0, claims'[t]}
    BY DEF SettledByItsClaim
  <2>1. /\ Automatic /\ Undisturbed /\ ~Human
        /\ Single /\ SettledByItsClaim
    BY <1>2, UndisturbedBefore DEF SingleInv
  <2>2. ASSUME NEW u \in Task, NEW outcome, Complete(u, claims[u], outcome),
               claims' = claims
        PROVE  settledBy'[t] \in {0, claims'[t]}
    <3>1. \/ settledBy' = settledBy /\ status' = status
          \/ settledBy' = [settledBy EXCEPT ![u] = claims[u]]
             /\ status' = [status EXCEPT ![u] = IF outcome = "success"
                                                THEN "COMPLETED" ELSE "FAILED"]
      BY <2>2 DEF Complete
    <3>2. CASE t = u
      BY <1>2, <2>1, <2>2, <3>1, <3>2 DEF Inv, HistoryOK, ColumnsOK, SettledByItsClaim
    <3>3. CASE t # u
      BY <1>2, <2>1, <2>2, <3>1, <3>3 DEF Inv, HistoryOK, ColumnsOK, SettledByItsClaim
    <3> QED  BY <3>2, <3>3
  <2>3. ASSUME UNCHANGED <<claims, settledBy>>,
               status'[t] = status[t] \/ status'[t] = "READY"
        PROVE  settledBy'[t] \in {0, claims'[t]}
    BY <2>1, <2>3 DEF SettledByItsClaim
  <2>4. CASE UNCHANGED vars
    BY <2>3, <2>4 DEF vars, columns
  <2>5. CASE \/ PollResolve \/ PollReady \/ PollCount \/ PollEnds \/ Crash
             \/ \E u \in Task : \/ PollDefer(u)
                                \/ \E w \in Worker : PollDispatch(w, u)
    BY <2>3, <2>5 DEF PollResolve, PollReady, PollCount, PollEnds, PollDefer,
       PollDispatch, Crash, Resolved, columns
  <2>6. ASSUME NEW w \in Worker, Claim(w) PROVE settledBy'[t] \in {0, claims'[t]}
    <3> DEFINE u == workers[w].task
    <3>1. /\ u \in Task /\ settledBy' = settledBy
          /\ status' = [status EXCEPT ![u] = "IN_PROGRESS"]
          /\ claims' = [claims EXCEPT ![u] = @ + 1]
      BY <1>2, <2>6 DEF Claim, Claimable, Inv, Subjects
    <3>2. t # u BY <1>2, <3>1 DEF Inv, ColumnsOK
    <3> QED  BY <1>2, <2>1, <3>1, <3>2 DEF Inv, ColumnsOK, HistoryOK, SettledByItsClaim
  <2>7. ASSUME NEW w \in Worker,
               \/ ClaimNothing(w) \/ ClaimFails(w) \/ CreateSession(w)
               \/ RecordSession(w) \/ ClearFlags(w) \/ ExecuteFails(w)
               \/ FailTaskFails(w)
        PROVE  settledBy'[t] \in {0, claims'[t]}
    BY <2>3, <2>7 DEF ClaimNothing, ClaimFails, CreateSession, RecordSession,
       ClearFlags, ExecuteFails, FailTaskFails, columns
  <2>8. ASSUME NEW w \in Worker, FailTask(w) PROVE settledBy'[t] \in {0, claims'[t]}
    <3>1. workers[w].task \in Task /\ workers[w].claim = claims[workers[w].task]
      BY <1>2, <2>1, <2>8 DEF FailTask, Single, Inv, Subjects
    <3>2. Complete(workers[w].task, claims[workers[w].task], "failed") /\ claims' = claims
      BY <2>8, <3>1 DEF FailTask
    <3> QED  BY <2>2, <3>1, <3>2
  <2>9. ASSUME NEW turn \in turns, NEW outcome \in Outcome, TurnEnds(turn, outcome)
         PROVE  settledBy'[t] \in {0, claims'[t]}
    <3>1. turn.task \in Task /\ turn.claim = claims[turn.task]
      BY <1>2, <2>1, <2>9 DEF TurnEnds, Single, Inv, TurnsOK
    <3>2. Complete(turn.task, claims[turn.task], outcome) /\ claims' = claims
      BY <2>9, <3>1 DEF TurnEnds
    <3> QED  BY <2>2, <3>1, <3>2
  <2>10. ASSUME NEW turn \in turns, TurnResolves(turn) \/ TurnLost(turn)
         PROVE  settledBy'[t] \in {0, claims'[t]}
    BY <2>3, <2>10 DEF TurnResolves, TurnLost, Resolved, columns
  <2>11. ASSUME NEW stale \in SUBSET Task, RecoverStale(stale)
         PROVE  settledBy'[t] \in {0, claims'[t]}
    BY <2>3, <2>11 DEF RecoverStale
  <2>12. ASSUME SetProjectStatus \/ \E u \in Task : Person(u) PROVE FALSE
    BY <2>1, <2>12 DEF Person, SetProjectStatus, ManualClaim, RestartTask,
       ConsoleRestart, ResumeTask, SetForcedPickup, SetTaskStatus,
       SetTaskDependencies
  <2> QED
    BY <1>2, <2>4, <2>5, <2>6, <2>7, <2>8, <2>9, <2>10, <2>11, <2>12
    DEF Next, Poll, Execute, ExecuteError, Turn
<1>3. Inv /\ SingleInv /\ [Next]_vars => SingleInv'
  BY SingleStep
<1> QED  BY <1>1, <1>2, <1>3, InvHolds, PTL DEF Spec

-----------------------------------------------------------------------------
(* The capacity of the project                                             *)

\* The workers that have not tried their claim yet, and what is or may become
\* IN_PROGRESS without a further look at the capacity.
Dispatched == {w \in Worker : workers[w].pc = "dispatched"}
Held == With("IN_PROGRESS") \cup {workers[w].task : w \in Dispatched}

\* The poll counts when nothing is dispatched, and keeps count of what it
\* dispatches.
Room ==
  /\ Cardinality(Held) <= MaxConcurrent
  /\ poll.pc \in {"resolved", "uncounted"} => Dispatched = {}
  /\ poll.pc = "dispatching" => Cardinality(Held) <= poll.count + poll.dispatched

RoomInv == Undisturbed /\ budget.overtake = MaxOvertakes => Room

\* What is held are tasks, of which there are finitely many.
LEMMA HeldFinite ==
  ASSUME Inv
  PROVE  IsFiniteSet(Held) /\ Cardinality(Held) \in Nat
<1>1. IsFiniteSet(Task)
  BY TasksAssumption, FS_Interval DEF Task
<1>2. Held \in SUBSET Task
  BY DEF Held, With, Dispatched, Inv, Subjects
<1> QED  BY <1>1, <1>2, FS_Subset, FS_CardinalityType

\* Steps that hold no more than before, of which the poll knows nothing or that
\* end it.
LEMMA HoldsNoMore ==
  ASSUME Inv, Inv', Room, Dispatched' \subseteq Dispatched,
         \A t \in Task : status'[t] = "IN_PROGRESS" => t \in Held,
         \A w \in Dispatched' : workers'[w].task = workers[w].task,
         poll' = poll \/ poll'.pc = "idle"
  PROVE  Room'
<1>1. Held' \in SUBSET Held
  <2>1. With("IN_PROGRESS")' \subseteq Held
    BY DEF With
  <2>2. {workers[w].task : w \in Dispatched}' \subseteq Held
    BY DEF Held
  <2> QED  BY <2>1, <2>2 DEF Held
<1>2. Cardinality(Held') <= Cardinality(Held)
  BY <1>1, HeldFinite, FS_Subset
<1>3. Cardinality(Held) \in Nat /\ Cardinality(Held') \in Nat
  <2>1. IsFiniteSet(Held')
    BY <1>1, HeldFinite, FS_Subset
  <2> QED  BY <2>1, HeldFinite, FS_CardinalityType
<1>4. Cardinality(Held') <= MaxConcurrent
  BY <1>2, <1>3, BoundsAssumption DEF Room
<1>5. CASE poll' = poll
  <2>1. poll.pc \in {"resolved", "uncounted"} => Dispatched' = {}
    BY DEF Room
  <2>2. poll.count \in Nat /\ poll.dispatched \in Nat
    BY TasksAssumption, BoundsAssumption DEF Inv, PollOK
  <2>3. poll.pc = "dispatching" =>
          Cardinality(Held') <= poll.count + poll.dispatched
    BY <1>2, <1>3, <2>2 DEF Room
  <2> QED  BY <1>4, <1>5, <2>1, <2>3 DEF Room
<1>6. CASE poll'.pc = "idle"
  BY <1>4, <1>6 DEF Room
<1> QED  BY <1>5, <1>6

\* A dispatch holds one task more, for which there was room.
LEMMA DispatchHasRoom ==
  ASSUME Inv, Inv', Room, NEW t \in Task, NEW w \in Worker, PollDispatch(w, t)
  PROVE  Room'
<1>1. /\ poll.pc = "dispatching" /\ workers[w].pc = "free"
      /\ poll.count + poll.dispatched < MaxConcurrent
      /\ workers' = [workers EXCEPT ![w] =
                       [Free EXCEPT !.pc = "dispatched", !.task = t]]
      /\ status' = status
  BY DEF PollDispatch, HasCapacity, Free, columns
<1>2. /\ workers'[w].task = t
      /\ \A v \in Worker \ {w} : workers'[v] = workers[v]
  BY <1>1 DEF Inv, WorkersOK, Free
<1>3. Held' \in SUBSET (Held \cup {t})
  <2>1. With("IN_PROGRESS")' = With("IN_PROGRESS")
    BY <1>1 DEF With
  <2>2. {workers[v].task : v \in Dispatched}' \subseteq Held \cup {t}
    BY <1>2 DEF Held, Dispatched
  <2> QED  BY <2>1, <2>2 DEF Held
<1>4. /\ IsFiniteSet(Held \cup {t})
      /\ Cardinality(Held \cup {t}) <= Cardinality(Held) + 1
  <2>1. IsFiniteSet(Held) /\ Cardinality(Held) \in Nat
    BY HeldFinite
  <2>2. /\ IsFiniteSet(Held \cup {t})
        /\ Cardinality(Held \cup {t}) =
             IF t \in Held THEN Cardinality(Held) ELSE Cardinality(Held) + 1
    BY <2>1, FS_AddElement
  <2> QED  BY <2>1, <2>2
<1>5. /\ IsFiniteSet(Held') /\ Cardinality(Held') <= Cardinality(Held \cup {t})
  BY <1>3, <1>4, FS_Subset
<1>6. /\ Cardinality(Held) \in Nat /\ Cardinality(Held') \in Nat
      /\ Cardinality(Held \cup {t}) \in Nat
  BY <1>4, <1>5, HeldFinite, FS_CardinalityType
<1>7. poll.count \in Nat /\ poll.dispatched \in Nat
  BY TasksAssumption, BoundsAssumption DEF Inv, PollOK
<1>8. Cardinality(Held') <= poll.count + poll.dispatched + 1
  BY <1>1, <1>4, <1>5, <1>6, <1>7 DEF Room
<1>9. Cardinality(Held') <= MaxConcurrent
  BY <1>1, <1>6, <1>7, <1>8, BoundsAssumption
<1>10. \/ poll'.pc = "idle"
       \/ /\ poll'.pc = "dispatching" /\ poll'.count = poll.count
          /\ poll'.dispatched = poll.dispatched + 1
  BY <1>1 DEF PollDispatch, Continue, Idle, Inv, PollOK
<1> QED  BY <1>6, <1>7, <1>8, <1>9, <1>10 DEF Room

\* Every step keeps it.
LEMMA RoomStep ==
  ASSUME Inv, RoomInv, [Next]_vars
  PROVE  RoomInv'
<1> SUFFICES ASSUME Undisturbed', budget'.overtake = MaxOvertakes PROVE Room'
  BY DEF RoomInv
<1>1. /\ Automatic /\ Undisturbed /\ ~Human /\ ~Spend("delay")
      /\ ~Spend("overtake")
  <2>1. ~Spend("overtake")
    BY BoundsAssumption DEF Inv, HistoryOK, Spend
  <2> QED  BY <2>1, UndisturbedBefore
<1>2. Room
  <2>1. budget'.overtake = budget.overtake
    BY <1>1, StepSpends DEF Inv, HistoryOK, Fault, Spend
  <2> QED  BY <1>1, <2>1 DEF RoomInv
<1>3. Inv'
  BY InvStep
<1>4. ASSUME workers' = workers, poll' = poll \/ poll'.pc = "idle",
             \A t \in Task : status'[t] = "IN_PROGRESS" =>
                               status[t] = "IN_PROGRESS"
      PROVE  Room'
  BY <1>2, <1>3, <1>4, HoldsNoMore DEF Held, With, Dispatched
<1>5. ASSUME poll' = poll, NEW w \in Worker,
             \A v \in Worker \ {w} : workers'[v] = workers[v],
             workers'[w].pc # "dispatched",
             \A t \in Task : status'[t] = "IN_PROGRESS" =>
               \/ status[t] = "IN_PROGRESS"
               \/ workers[w].pc = "dispatched" /\ t = workers[w].task
      PROVE  Room'
  <2>1. Dispatched' \subseteq Dispatched \ {w}
    BY <1>5 DEF Dispatched
  <2>2. \A v \in Dispatched' : workers'[v].task = workers[v].task
    BY <1>5, <2>1 DEF Dispatched
  <2>3. \A t \in Task : status'[t] = "IN_PROGRESS" => t \in Held
    BY <1>5 DEF Held, With, Dispatched
  <2> QED  BY <1>2, <1>3, <1>5, <2>1, <2>2, <2>3, HoldsNoMore
<1>6. CASE UNCHANGED vars
  BY <1>4, <1>6 DEF vars, columns
<1>7. CASE PollResolve
  <2>1. Dispatched = {} /\ workers' = workers /\ poll'.pc = "resolved"
    BY <1>1, <1>7 DEF PollResolve, Dispatched, Idle
  <2>2. Held' = Held
    <3>1. With("IN_PROGRESS")' = With("IN_PROGRESS")
      BY <1>7 DEF PollResolve, Resolved, With
    <3> QED  BY <2>1, <3>1 DEF Held, Dispatched
  <2>3. Dispatched' = {}
    BY <2>1 DEF Dispatched
  <2> QED  BY <1>2, <2>1, <2>2, <2>3 DEF Room
<1>8. CASE PollReady
  <2>1. /\ poll.pc = "resolved" /\ UNCHANGED <<workers, status>>
        /\ poll'.pc \in {"uncounted", "idle"}
    BY <1>8 DEF PollReady, Idle, columns
  <2>2. Held' = Held /\ Dispatched' = Dispatched
    BY <2>1 DEF Held, With, Dispatched
  <2> QED  BY <1>2, <2>1, <2>2 DEF Room
<1>9. CASE PollCount
  <2>1. /\ poll.pc = "uncounted" /\ UNCHANGED <<workers, status>>
        /\ poll'.pc = "dispatching" /\ poll'.dispatched = poll.dispatched
        /\ poll'.count = Cardinality(With("IN_PROGRESS"))
    BY <1>9 DEF PollCount, columns, Inv, PollOK
  <2>2. Held' = Held /\ Held = With("IN_PROGRESS")
    BY <1>2, <2>1 DEF Held, With, Dispatched, Room
  <2>3. poll.dispatched \in Nat /\ Cardinality(Held) \in Nat
    BY HeldFinite, BoundsAssumption DEF Inv, PollOK
  <2> QED  BY <1>2, <2>1, <2>2, <2>3 DEF Room
<1>10. ASSUME NEW t \in Task, PollDefer(t) PROVE Room'
  <2>1. /\ UNCHANGED <<workers, status>> /\ poll.pc = "dispatching"
        /\ \/ poll'.pc = "idle"
           \/ /\ poll'.pc = "dispatching" /\ poll'.count = poll.count
              /\ poll'.dispatched = poll.dispatched + 0
    BY <1>10 DEF PollDefer, Continue, Idle, columns, Inv, PollOK
  <2>2. Held' = Held
    BY <2>1 DEF Held, With, Dispatched
  <2>3. poll.dispatched + 0 = poll.dispatched
    BY BoundsAssumption DEF Inv, PollOK
  <2> QED  BY <1>2, <2>1, <2>2, <2>3 DEF Room
<1>11. ASSUME NEW t \in Task, NEW w \in Worker, PollDispatch(w, t)
       PROVE  Room'
  BY <1>2, <1>3, <1>11, DispatchHasRoom
<1>12. CASE PollEnds
  BY <1>4, <1>12 DEF PollEnds, Idle, columns
<1>13. ASSUME NEW w \in Worker, Claim(w) PROVE Room'
  <2>1. /\ workers[w].pc = "dispatched" /\ poll' = poll
        /\ status' = [status EXCEPT ![workers[w].task] = "IN_PROGRESS"]
        /\ workers'[w].pc = "claimed"
        /\ \A v \in Worker \ {w} : workers'[v] = workers[v]
    BY <1>13 DEF Claim, Inv, WorkersOK
  <2>2. \A t \in Task : status'[t] = "IN_PROGRESS" =>
          status[t] = "IN_PROGRESS" \/ t = workers[w].task
    BY <2>1 DEF Inv, ColumnsOK
  <2> QED  BY <1>5, <2>1, <2>2
<1>14. ASSUME NEW w \in Worker,
              \/ ClaimNothing(w) \/ ClaimFails(w) \/ FailTaskFails(w)
              \/ FailTask(w) \/ ClearFlags(w)
       PROVE  Room'
  <2>1. /\ workers' = [workers EXCEPT ![w] = Free] /\ poll' = poll
        /\ \A t \in Task : status'[t] = "IN_PROGRESS" =>
                             status[t] = "IN_PROGRESS"
    BY <1>14 DEF ClaimNothing, ClaimFails, FailTaskFails, FailTask, ClearFlags,
       Finish, Complete, columns, Inv, ColumnsOK, Subjects
  <2>2. /\ workers'[w].pc = "free"
        /\ \A v \in Worker \ {w} : workers'[v] = workers[v]
    BY <2>1 DEF Inv, WorkersOK, Free
  <2> QED  BY <1>5, <2>1, <2>2
<1>15. ASSUME NEW w \in Worker,
              CreateSession(w) \/ RecordSession(w) \/ ExecuteFails(w)
       PROVE  Room'
  <2>1. /\ \E pc \in WorkerPC \ {"dispatched"} :
             workers' = [workers EXCEPT ![w].pc = pc]
        /\ UNCHANGED <<status, poll>>
    BY <1>15 DEF CreateSession, RecordSession, ExecuteFails, Goto, WorkerPC,
       columns
  <2>2. /\ workers'[w].pc # "dispatched"
        /\ \A v \in Worker \ {w} : workers'[v] = workers[v]
    BY <2>1 DEF Inv, WorkersOK
  <2> QED  BY <1>5, <2>1, <2>2
<1>16. ASSUME NEW turn \in turns, NEW outcome \in Outcome,
              TurnEnds(turn, outcome)
       PROVE  Room'
  BY <1>4, <1>16 DEF TurnEnds, Complete, Inv, ColumnsOK, TurnsOK
<1>17. ASSUME NEW turn \in turns, TurnResolves(turn) \/ TurnLost(turn)
       PROVE  Room'
  BY <1>4, <1>17 DEF TurnResolves, TurnLost, Resolved, columns
<1>18. ASSUME NEW stale \in SUBSET Task, RecoverStale(stale) PROVE Room'
  BY <1>4, <1>18 DEF RecoverStale
<1>19. CASE Crash
  <2>1. /\ status' = status /\ poll'.pc = "idle"
        /\ \A w \in Worker : workers'[w].pc = "free"
    BY <1>19 DEF Crash, Free, Idle, columns
  <2>2. Dispatched' = {}
    BY <2>1 DEF Dispatched
  <2>3. \A t \in Task : status'[t] = "IN_PROGRESS" => t \in Held
    BY <2>1 DEF Held, With
  <2> QED  BY <1>2, <1>3, <2>1, <2>2, <2>3, HoldsNoMore
<1>20. ASSUME SetProjectStatus \/ \E t \in Task : Person(t) PROVE Human
  BY <1>20 DEF Person, SetProjectStatus, ManualClaim, RestartTask,
     ConsoleRestart, ResumeTask, SetForcedPickup, SetTaskStatus,
     SetTaskDependencies
<1> QED
  BY <1>1, <1>6, <1>7, <1>8, <1>9, <1>10, <1>11, <1>12, <1>13, <1>14, <1>15,
     <1>16, <1>17, <1>18, <1>19, <1>20
  DEF Next, Poll, Execute, ExecuteError, Turn

\* The project keeps to its limit although the poll counts what is IN_PROGRESS
\* once, before its own dispatches are claimed: as long as no second poll
\* overtakes them and nobody interferes.
THEOREM CapacityIsKept == Spec => []CapacityKept
<1>1. Init => RoomInv
  <2> SUFFICES ASSUME Init PROVE Room
    BY DEF RoomInv
  <2>1. Held = {}
    BY DEF Init, Held, With, Dispatched, Free
  <2>2. Cardinality(Held) = 0 /\ poll.pc = "idle"
    BY <2>1, FS_EmptySet DEF Init, Idle
  <2> QED  BY <2>2, BoundsAssumption DEF Room
<1>2. Inv /\ RoomInv => CapacityKept
  <2> SUFFICES ASSUME Inv, Room
               PROVE  Cardinality(With("IN_PROGRESS")) <= MaxConcurrent
    BY DEF RoomInv, CapacityKept
  <2>1. With("IN_PROGRESS") \in SUBSET Held
    BY DEF Held
  <2>2. /\ IsFiniteSet(With("IN_PROGRESS"))
        /\ Cardinality(With("IN_PROGRESS")) <= Cardinality(Held)
    BY <2>1, HeldFinite, FS_Subset
  <2>3. Cardinality(With("IN_PROGRESS")) \in Nat /\ Cardinality(Held) \in Nat
    BY <2>2, HeldFinite, FS_CardinalityType
  <2> QED  BY <2>2, <2>3, BoundsAssumption DEF Room
<1> QED  BY <1>1, <1>2, RoomStep, InvHolds, PTL DEF Spec
=============================================================================
