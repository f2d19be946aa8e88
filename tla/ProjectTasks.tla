---------------------------- MODULE ProjectTasks ----------------------------
(***************************************************************************)
(* The tasks of one project: the poll that promotes and dispatches them,   *)
(* execute_task, the completion a turn of the task's session reports, the  *)
(* recovery of stale tasks, and what people and agents do to tasks.        *)
(*                                                                         *)
(* A step is one transaction.  Tasks are numbered in the order the poll    *)
(* takes them: by priority, then by age.  Time is abstracted: any task IN  *)
(* PROGRESS may have been for longer than the stale timeout.               *)
(***************************************************************************)
EXTENDS Integers, FiniteSets

CONSTANTS
  NumTasks,      \* tasks of the project
  DependsOn,     \* depends_on of each when it is created
  MaxConcurrent, \* MAX_CONCURRENT_TASKS_PER_PROJECT
  BatchSize,     \* TASK_EXECUTOR_BATCH_SIZE
  MaxWorkers,    \* bound: execute_task coroutines alive at once
  MaxClaims,     \* bound: claims of a task
  MaxHuman,      \* bound: calls by people and agents
  MaxOvertakes,  \* bound: polls that overtake the claim of a dispatched task
  MaxDelays,     \* bound: recoveries of tasks that somebody still works on
  MaxFaults,     \* bound: failing calls, denied polls, lost turns, crashes
  MaxSpent       \* bound: the last four together

Task   == 1..NumTasks
Worker == 1..MaxWorkers

ASSUME TasksAssumption ==
  /\ NumTasks \in Nat
  /\ DependsOn \in [Task -> SUBSET Task]

ASSUME BoundsAssumption ==
  /\ MaxConcurrent \in Nat \ {0} /\ BatchSize \in Nat \ {0}
  /\ MaxWorkers \in Nat /\ MaxClaims \in Nat
  /\ MaxHuman \in Nat /\ MaxOvertakes \in Nat /\ MaxDelays \in Nat
  /\ MaxFaults \in Nat /\ MaxSpent \in Nat

Terminal == {"COMPLETED", "FAILED", "CANCELLED"}
Status   == {"PENDING", "BLOCKED", "READY", "IN_PROGRESS", "IN_REVIEW"}
              \cup Terminal

\* VALID_TASK_TRANSITIONS.
Allowed ==
  [PENDING     |-> {"BLOCKED", "READY", "CANCELLED"},
   BLOCKED     |-> {"READY", "PENDING", "CANCELLED"},
   READY       |-> {"IN_PROGRESS", "CANCELLED", "BLOCKED", "PENDING"},
   IN_PROGRESS |-> Terminal \cup {"READY", "PENDING", "IN_REVIEW"},
   IN_REVIEW   |-> Terminal \cup {"PENDING"},
   COMPLETED   |-> {"PENDING", "FAILED"},
   FAILED      |-> {"PENDING", "READY"},
   CANCELLED   |-> {"PENDING"}]

VARIABLES
  status, deps,  \* columns status and depends_on
  assigned,      \* the last of assigned_session_ids, 0 if there is none
  resumable,     \* task_data["error_subtype"] is error_max_turns
  resume,        \* task_data["resume_session"]
  forced,        \* task_data["forced_pickup"]
  active,        \* the project is ACTIVE, not PAUSED
  poll,          \* poll_and_execute_ready_tasks
  workers,       \* execute_task coroutines
  turns,         \* turns of task sessions
  \* history
  claims,        \* how often a task has been claimed
  settledBy,     \* the claim whose worker or turn settled it, 0 for a person
  budget

columns == <<status, deps, assigned, resumable, resume, forced>>
others  == <<deps, assigned, resumable, resume, forced>>
vars    == <<columns, active, poll, workers, turns, claims, settledBy, budget>>

Idle == [pc |-> "idle", ready |-> {}, count |-> 0, dispatched |-> 0]
Free == [pc |-> "free", task |-> 0, claim |-> 0, session |-> 0, resumes |-> FALSE]

Init ==
  /\ deps = DependsOn
  /\ status = [t \in Task |-> IF deps[t] = {} THEN "READY" ELSE "BLOCKED"]
  /\ assigned = [t \in Task |-> 0]
  /\ resumable = [t \in Task |-> FALSE]
  /\ resume = [t \in Task |-> FALSE]
  /\ forced = [t \in Task |-> FALSE]
  /\ active \in BOOLEAN
  /\ poll = Idle
  /\ workers = [w \in Worker |-> Free]
  /\ turns = {}
  /\ claims = [t \in Task |-> 0]
  /\ settledBy = [t \in Task |-> 0]
  /\ budget = [human |-> MaxHuman, overtake |-> MaxOvertakes,
               delay |-> MaxDelays, fault |-> MaxFaults]

-----------------------------------------------------------------------------
(* Helpers                                                                 *)

Spent == (MaxHuman + MaxOvertakes + MaxDelays + MaxFaults)
           - (budget.human + budget.overtake + budget.delay + budget.fault)

Spend(what) ==
  /\ budget[what] > 0 /\ Spent < MaxSpent
  /\ budget' = [budget EXCEPT ![what] = @ - 1]
Fault == Spend("fault")
Human == Spend("human")

With(s) == {t \in Task : status[t] = s}

\* A mutant: a dependency that failed or was cancelled counts as done.
DependenciesOver(t) == \A d \in deps[t] : status[d] \in Terminal

\* are_dependencies_completed.
DependenciesMet(t) == \A d \in deps[t] : status[d] = "COMPLETED"

\* _task_pickup_project_condition.
Pickup(t) == active \/ forced[t]

\* get_ready_tasks, and the condition of claim_task.
Claimable(t) == status[t] = "READY" /\ Pickup(t)

\* resolve_task_dependencies.
Resolved ==
  [t \in Task |->
     IF status[t] \in {"PENDING", "BLOCKED"} /\ DependenciesMet(t)
     THEN "READY" ELSE status[t]]

\* Mutants of Complete: the report of a turn that is late counts as well; the
\* kind of the error is stored as the status.
CompleteAlways(t, claim, outcome) ==
  /\ status' = [status EXCEPT ![t] =
                  IF outcome = "success" THEN "COMPLETED" ELSE "FAILED"]
  /\ resumable' = [resumable EXCEPT ![t] = outcome = "max_turns"]
  /\ settledBy' = [settledBy EXCEPT ![t] = claim]

CompleteAs(t, claim, outcome) ==
  IF status[t] = "IN_PROGRESS"
  THEN /\ status' = [status EXCEPT ![t] = outcome]
       /\ UNCHANGED resumable
       /\ settledBy' = [settledBy EXCEPT ![t] = claim]
  ELSE UNCHANGED <<status, resumable, settledBy>>

\* update_task_completion: only while the task is IN_PROGRESS, whoever has
\* claimed it.  The second argument is the claim that the caller works for.
Complete(t, claim, outcome) ==
  IF status[t] = "IN_PROGRESS"
  THEN /\ status' = [status EXCEPT ![t] =
                       IF outcome = "success" THEN "COMPLETED" ELSE "FAILED"]
       /\ resumable' = [resumable EXCEPT ![t] = outcome = "max_turns"]
       /\ settledBy' = [settledBy EXCEPT ![t] = claim]
  ELSE UNCHANGED <<status, resumable, settledBy>>

Goto(w, pc) == workers' = [workers EXCEPT ![w].pc = pc]
Finish(w)   == workers' = [workers EXCEPT ![w] = Free]

-----------------------------------------------------------------------------
(* poll_and_execute_ready_tasks                                            *)

\* The scheduler polls; dependencies are resolved first.
PollResolve ==
  /\ poll.pc = "idle"
  /\ poll' = [Idle EXCEPT !.pc = "resolved"]
  /\ status' = Resolved
  /\ IF \E w \in Worker : workers[w].pc = "dispatched"
     THEN Spend("overtake") ELSE UNCHANGED budget
  /\ UNCHANGED <<others, active, workers, turns, claims, settledBy>>

\* get_ready_tasks, then the first count of the cycle.
PollReady ==
  /\ poll.pc = "resolved"
  /\ poll' = IF \E t \in Task : Claimable(t)
             THEN [Idle EXCEPT !.pc = "uncounted",
                               !.ready = {t \in Task : Claimable(t)}]
             ELSE Idle
  /\ UNCHANGED <<columns, active, workers, turns, claims, settledBy, budget>>

PollCount ==
  /\ poll.pc = "uncounted"
  /\ poll' = [poll EXCEPT !.pc = "dispatching",
                          !.count = Cardinality(With("IN_PROGRESS"))]
  /\ UNCHANGED <<columns, active, workers, turns, claims, settledBy, budget>>

\* A mutant: what this cycle has dispatched is not counted.
CountedCapacity == poll.count < MaxConcurrent

\* has_project_capacity, on the cached count.
HasCapacity == poll.count + poll.dispatched < MaxConcurrent

\* The task the cycle is at.
First(t) == t \in poll.ready /\ \A d \in poll.ready : t <= d

\* The rest of the cycle, after task t, for which n workers were started.
Continue(t, n) ==
  LET rest == poll.ready \ {t}
  IN  poll' = IF rest = {} \/ poll.dispatched + n >= BatchSize
              THEN Idle
              ELSE [poll EXCEPT !.ready = rest, !.dispatched = @ + n]

PollDispatch(w, t) ==
  /\ poll.pc = "dispatching"
  /\ First(t)
  /\ HasCapacity
  /\ workers[w] = Free
  /\ \A v \in 1..(w - 1) : workers[v] # Free
  /\ workers' = [workers EXCEPT ![w] =
                   [Free EXCEPT !.pc = "dispatched", !.task = t]]
  /\ Continue(t, 1)
  /\ UNCHANGED <<columns, active, turns, claims, settledBy, budget>>

PollDefer(t) ==
  /\ poll.pc = "dispatching"
  /\ First(t)
  /\ ~HasCapacity
  /\ Continue(t, 0)
  /\ UNCHANGED <<columns, active, workers, turns, claims, settledBy, budget>>

\* The rate limiter denies the project, all turns of the service are taken, or
\* a query fails: no more is dispatched in this cycle.
PollEnds ==
  /\ poll.pc # "idle"
  /\ Fault
  /\ poll' = Idle
  /\ UNCHANGED <<columns, active, workers, turns, claims, settledBy>>

-----------------------------------------------------------------------------
(* execute_task                                                            *)

\* A mutant: the row is not read again under the lock.
ClaimUnchecked(w) ==
  LET t == workers[w].task IN
  /\ workers[w].pc = "dispatched"
  /\ Pickup(t)
  /\ claims[t] < MaxClaims
  /\ status' = [status EXCEPT ![t] = "IN_PROGRESS"]
  /\ forced' = [forced EXCEPT ![t] = FALSE]
  /\ claims' = [claims EXCEPT ![t] = @ + 1]
  /\ workers' = [workers EXCEPT ![w] =
       [Free EXCEPT !.pc = "claimed", !.task = t, !.claim = claims[t] + 1]]
  /\ UNCHANGED <<deps, assigned, resumable, resume, active, poll, turns,
                 settledBy, budget>>

\* claim_task, with what execute_task keeps of the row it returns.
Claim(w) ==
  LET t == workers[w].task IN
  /\ workers[w].pc = "dispatched"
  /\ Claimable(t)
  /\ claims[t] < MaxClaims
  /\ status' = [status EXCEPT ![t] = "IN_PROGRESS"]
  /\ forced' = [forced EXCEPT ![t] = FALSE]
  /\ claims' = [claims EXCEPT ![t] = @ + 1]
  /\ workers' = [workers EXCEPT ![w] =
       [pc |-> "claimed", task |-> t, claim |-> claims[t] + 1,
        session |-> IF resume[t] THEN assigned[t] ELSE 0,
        resumes |-> resume[t]]]
  /\ UNCHANGED <<deps, assigned, resumable, resume, active, poll, turns,
                 settledBy, budget>>

\* Claimed by another, no longer READY, or the project was paused.
ClaimNothing(w) ==
  /\ workers[w].pc = "dispatched"
  /\ ~Claimable(workers[w].task)
  /\ Finish(w)
  /\ UNCHANGED <<columns, active, poll, turns, claims, settledBy, budget>>

\* The claim raises: nothing catches it.
ClaimFails(w) ==
  /\ workers[w].pc = "dispatched"
  /\ Fault
  /\ Finish(w)
  /\ UNCHANGED <<columns, active, poll, turns, claims, settledBy>>

\* create_session starts a turn of a new session (named by the claim), or of
\* the one that is resumed.
CreateSession(w) ==
  LET me == workers[w]
      s  == IF me.session = 0 THEN me.claim ELSE me.session
  IN
  /\ me.pc = "claimed"
  /\ turns' = turns \cup {[task |-> me.task, session |-> s,
                           claim |-> me.claim, pc |-> "running"]}
  /\ IF me.session = 0
     THEN Goto(w, "created")
     ELSE Goto(w, "recorded")
  /\ UNCHANGED <<columns, active, poll, claims, settledBy, budget>>

\* add_session_to_task.
RecordSession(w) ==
  /\ workers[w].pc = "created"
  /\ assigned' = [assigned EXCEPT ![workers[w].task] = workers[w].claim]
  /\ Goto(w, "recorded")
  /\ UNCHANGED <<status, deps, resumable, resume, forced, active, poll, turns,
                 claims, settledBy, budget>>

\* The resume flags are cleared after the session has started.
ClearFlags(w) ==
  LET t == workers[w].task IN
  /\ workers[w].pc = "recorded"
  /\ IF workers[w].resumes
     THEN /\ resume' = [resume EXCEPT ![t] = FALSE]
          /\ resumable' = [resumable EXCEPT ![t] = FALSE]
     ELSE UNCHANGED <<resume, resumable>>
  /\ Finish(w)
  /\ UNCHANGED <<status, deps, assigned, forced, active, poll, turns, claims,
                 settledBy, budget>>

\* Anything after the claim raises, even with the session under way.
ExecuteFails(w) ==
  /\ workers[w].pc \in {"claimed", "created", "recorded"}
  /\ workers[w].pc = "recorded" => workers[w].resumes
  /\ Fault
  /\ Goto(w, "failing")
  /\ UNCHANGED <<columns, active, poll, turns, claims, settledBy>>

FailTask(w) ==
  /\ workers[w].pc = "failing"
  /\ Complete(workers[w].task, workers[w].claim, "failed")
  /\ Finish(w)
  /\ UNCHANGED <<deps, assigned, resume, forced, active, poll, turns, claims,
                 budget>>

\* Whatever made execute_task fail makes the update fail as well.
FailTaskFails(w) ==
  /\ workers[w].pc = "failing"
  /\ Finish(w)
  /\ UNCHANGED <<columns, active, poll, turns, claims, settledBy, budget>>

-----------------------------------------------------------------------------
(* The turns of task sessions                                              *)

\* The end of a turn reports; a success also resolves dependencies.
TurnEnds(turn, outcome) ==
  /\ turn.pc = "running"
  /\ Complete(turn.task, turn.claim, outcome)
  /\ turns' = (turns \ {turn}) \cup
       (IF outcome = "success" /\ status[turn.task] = "IN_PROGRESS"
        THEN {[turn EXCEPT !.pc = "resolving"]} ELSE {})
  /\ UNCHANGED <<deps, assigned, resume, forced, active, poll, workers, claims,
                 budget>>

TurnResolves(turn) ==
  /\ turn.pc = "resolving"
  /\ status' = Resolved
  /\ turns' = turns \ {turn}
  /\ UNCHANGED <<others, active, poll, workers, claims, settledBy, budget>>

\* Stopped, or the update fails: nothing is reported (or resolved).
TurnLost(turn) ==
  /\ Fault
  /\ turns' = turns \ {turn}
  /\ UNCHANGED <<columns, active, poll, workers, claims, settledBy>>

-----------------------------------------------------------------------------
(* Recovery                                                                *)

\* Somebody still works on the task.
Attended(t) ==
  \/ \E w \in Worker :
       workers[w].task = t /\ workers[w].pc \notin {"free", "dispatched"}
  \/ \E turn \in turns : turn.task = t /\ turn.pc = "running"

\* recover_stale_in_progress_tasks: by the age of the row alone, between polls.
RecoverStale(stale) ==
  /\ poll.pc = "idle"
  /\ stale # {} /\ stale \subseteq With("IN_PROGRESS")
  /\ IF \E t \in stale : Attended(t) THEN Spend("delay") ELSE UNCHANGED budget
  /\ status' = [t \in Task |-> IF t \in stale THEN "READY" ELSE status[t]]
  /\ UNCHANGED <<others, active, poll, workers, turns, claims, settledBy>>

\* The process dies and starts again; interrupted turns may be resumed.
Crash ==
  /\ Fault
  /\ poll' = Idle
  /\ workers' = [w \in Worker |-> Free]
  /\ \E kept \in SUBSET {turn \in turns : turn.pc = "running"} : turns' = kept
  /\ UNCHANGED <<columns, active, claims, settledBy>>

-----------------------------------------------------------------------------
(* What people and agents do, one call at a time                           *)

Fixed == <<active, poll, workers, turns>>

\* set_task_status: validated against the table and the dependencies; a
\* completion promotes the tasks that depend on it, in the same transaction.
SetTaskStatus(t, s) ==
  /\ Human
  /\ s \in Allowed[status[t]]
  /\ s = "READY" => DependenciesMet(t)
  /\ s = "BLOCKED" => deps[t] # {}
  /\ LET changed == [status EXCEPT ![t] = s]
         promoted(d) == /\ s = "COMPLETED" /\ t \in deps[d]
                        /\ changed[d] \in {"PENDING", "BLOCKED"}
                        /\ \A e \in deps[d] : changed[e] = "COMPLETED"
     IN  status' = [d \in Task |-> IF promoted(d) THEN "READY" ELSE changed[d]]
  /\ settledBy' = [settledBy EXCEPT ![t] = 0]
  /\ claims' = [claims EXCEPT ![t] = @ + IF s = "IN_PROGRESS" THEN 1 ELSE 0]
  /\ UNCHANGED <<others, Fixed>>

\* The claim_task tool: the project may be paused.
ManualClaim(t) ==
  /\ Human
  /\ status[t] = "READY"
  /\ status' = [status EXCEPT ![t] = "IN_PROGRESS"]
  /\ claims' = [claims EXCEPT ![t] = @ + 1]
  /\ UNCHANGED <<others, Fixed, settledBy>>

\* restart_task of the REST service and of the tools, from any status.
RestartTask(t) ==
  /\ Human
  /\ status' = [status EXCEPT ![t] =
                  IF DependenciesMet(t) THEN "READY" ELSE "PENDING"]
  /\ assigned' = [assigned EXCEPT ![t] = 0]
  /\ settledBy' = [settledBy EXCEPT ![t] = 0]
  /\ UNCHANGED <<deps, resumable, resume, forced, Fixed, claims>>

\* restart_task of task_utils, for the console.
ConsoleRestart(t) ==
  /\ Human
  /\ "PENDING" \in Allowed[status[t]] /\ status[t] # "IN_PROGRESS"
  /\ status' = [status EXCEPT ![t] = "PENDING"]
  /\ assigned' = [assigned EXCEPT ![t] = 0]
  /\ settledBy' = [settledBy EXCEPT ![t] = 0]
  /\ UNCHANGED <<deps, resumable, resume, forced, Fixed, claims>>

\* resume_task.
ResumeTask(t) ==
  /\ Human
  /\ status[t] = "FAILED" /\ resumable[t] /\ assigned[t] # 0
  /\ status' = [status EXCEPT ![t] = "READY"]
  /\ resume' = [resume EXCEPT ![t] = TRUE]
  /\ settledBy' = [settledBy EXCEPT ![t] = 0]
  /\ UNCHANGED <<deps, assigned, resumable, forced, Fixed, claims>>

\* What a task reaches along graph.
Reaches(graph, t) ==
  LET Grow(S) == S \cup UNION {graph[d] : d \in S}
      reach[n \in 0..NumTasks] ==
        IF n = 0 THEN graph[t] ELSE Grow(reach[n - 1])
  IN  reach[NumTasks]

\* A mutant: no check for cycles.
SetAnyDependencies(t, D) ==
  /\ Human
  /\ deps' = [deps EXCEPT ![t] = D]
  /\ status' = [status EXCEPT ![t] =
       IF @ \in Terminal \cup {"IN_PROGRESS", "IN_REVIEW"} THEN @
       ELSE IF \A d \in D : status[d] = "COMPLETED" THEN "READY" ELSE "BLOCKED"]
  /\ UNCHANGED <<assigned, resumable, resume, forced, Fixed, claims, settledBy>>

\* set_task_dependencies.
SetTaskDependencies(t, D) ==
  LET graph == [deps EXCEPT ![t] = D] IN
  /\ Human
  /\ t \notin Reaches(graph, t)
  /\ deps' = graph
  /\ status' = [status EXCEPT ![t] =
       IF @ \in Terminal \cup {"IN_PROGRESS", "IN_REVIEW"} THEN @
       ELSE IF \A d \in D : status[d] = "COMPLETED" THEN "READY" ELSE "BLOCKED"]
  /\ UNCHANGED <<assigned, resumable, resume, forced, Fixed, claims, settledBy>>

\* set_project_status, between ACTIVE and PAUSED.
SetProjectStatus ==
  /\ Human
  /\ active' = ~active
  /\ UNCHANGED <<columns, poll, workers, turns, claims, settledBy>>

\* set_task_forced_pickup.
SetForcedPickup(t) ==
  /\ Human
  /\ ~active /\ status[t] = "READY"
  /\ forced' = [forced EXCEPT ![t] = TRUE]
  /\ UNCHANGED <<status, deps, assigned, resumable, resume, Fixed, claims,
                 settledBy>>

-----------------------------------------------------------------------------
Outcome == {"success", "failed", "max_turns"}

Poll ==
  \/ PollResolve \/ PollReady \/ PollCount
  \/ \E t \in Task : PollDefer(t) \/ \E w \in Worker : PollDispatch(w, t)

Execute(w) ==
  \/ Claim(w) \/ ClaimNothing(w) \/ CreateSession(w) \/ RecordSession(w)
  \/ ClearFlags(w) \/ FailTask(w)

ExecuteError(w) == ClaimFails(w) \/ ExecuteFails(w) \/ FailTaskFails(w)

Turn ==
  \E turn \in turns :
    TurnResolves(turn) \/ \E outcome \in Outcome : TurnEnds(turn, outcome)

Person(t) ==
  \/ ManualClaim(t) \/ RestartTask(t) \/ ConsoleRestart(t) \/ ResumeTask(t)
  \/ SetForcedPickup(t)
  \/ \E s \in Status : SetTaskStatus(t, s)
  \/ \E D \in SUBSET (Task \ {t}) : SetTaskDependencies(t, D)

Next ==
  \/ Poll \/ PollEnds
  \/ \E w \in Worker : Execute(w) \/ ExecuteError(w)
  \/ Turn \/ \E turn \in turns : TurnLost(turn)
  \/ \E stale \in SUBSET Task : RecoverStale(stale)
  \/ Crash
  \/ \E t \in Task : Person(t)
  \/ SetProjectStatus

Spec == Init /\ [][Next]_vars

\* run_scheduler keeps polling and, between polls, keeps looking for stale
\* tasks, of which a task that nobody works on becomes one (strong: recovery
\* waits for a poll to be over); coroutines run; every turn ends.
RecoverOrphans ==
  \E stale \in SUBSET {t \in Task : ~Attended(t)} : RecoverStale(stale)

Fairness ==
  /\ WF_vars(Poll) /\ WF_vars(Turn) /\ SF_vars(RecoverOrphans)
  /\ \A w \in Worker : WF_vars(Execute(w))

FairSpec == Spec /\ Fairness

-----------------------------------------------------------------------------
(* Properties                                                              *)

WorkerPC == {"free", "dispatched", "claimed", "created", "recorded", "failing"}
Claims   == 0..(MaxClaims + MaxHuman)

\* Types of the columns, the poll, the workers, the turns and the history.
TypeOK ==
  /\ status \in [Task -> Status]
  /\ deps \in [Task -> SUBSET Task]
  /\ assigned \in [Task -> Claims]
  /\ resumable \in [Task -> BOOLEAN]
  /\ resume \in [Task -> BOOLEAN]
  /\ forced \in [Task -> BOOLEAN]
  /\ active \in BOOLEAN
  /\ poll \in [pc: {"idle", "resolved", "uncounted", "dispatching"},
               ready: SUBSET Task, count: 0..NumTasks, dispatched: 0..BatchSize]
  /\ workers \in [Worker -> [pc: WorkerPC, task: 0..NumTasks, claim: Claims,
                              session: Claims, resumes: BOOLEAN]]
  /\ turns \subseteq [task: Task, session: Claims, claim: Claims,
                      pc: {"running", "resolving"}]
  /\ claims \in [Task -> Claims]
  /\ settledBy \in [Task -> Claims]
  /\ budget \in [human: 0..MaxHuman, overtake: 0..MaxOvertakes,
                 delay: 0..MaxDelays, fault: 0..MaxFaults]

\* Nobody has interfered, and no task was taken for stale while it was worked on.
Undisturbed == budget.human = MaxHuman /\ budget.delay = MaxDelays

\* An undisturbed task has one execution at a time, however often it is
\* dispatched before it is claimed.
Executions(t) ==
  {workers[w].claim : w \in {v \in Worker :
     workers[v].task = t /\ workers[v].pc \notin {"free", "dispatched"}}}
  \cup {turn.claim : turn \in {r \in turns : r.task = t /\ r.pc = "running"}}

OneExecution ==
  Undisturbed => \A t \in Task : Cardinality(Executions(t)) <= 1

\* The project keeps to MAX_CONCURRENT_TASKS_PER_PROJECT, although the poll
\* counts before what it has dispatched is claimed, as long as no poll overtakes
\* such a claim.
CapacityKept ==
  Undisturbed /\ budget.overtake = MaxOvertakes =>
    Cardinality(With("IN_PROGRESS")) <= MaxConcurrent

\* A task that is worked on, or settled by its work, had its dependencies
\* completed, as long as nobody interferes.
DependenciesFirst ==
  budget.human = MaxHuman =>
    \A t \in Task :
      status[t] \in {"READY", "IN_PROGRESS", "COMPLETED", "FAILED"} =>
        \A d \in deps[t] : status[d] = "COMPLETED"

\* Only people change a settled task: neither a late report of a turn nor a
\* recovery, a resolution or a worker that is behind does.
SettledStays ==
  [][budget'.human = budget.human =>
       \A t \in Task : status[t] \in Terminal => status'[t] = status[t]]_vars

\* The report that settles a task is that of the claim that holds it.
SettledByItsClaim ==
  \A t \in Task : status[t] \in {"COMPLETED", "FAILED"} =>
    settledBy[t] \in {0, claims[t]}

\* Nothing is left to do by itself: the task is settled or with a reviewer, or
\* waits for one that has not been completed.
WaitsForPeople(t) ==
  \/ status[t] \in Terminal \cup {"IN_REVIEW"}
  \/ \E d \in Reaches(deps, t) : status[d] \in {"FAILED", "CANCELLED", "IN_REVIEW"}

\* In the end every task that may be picked up is settled or waits for people:
\* none stays READY, BLOCKED or IN_PROGRESS, whatever people, agents, crashes
\* and failures have done before.
EventuallySettled == <>[](\A t \in Task : Pickup(t) => WaitsForPeople(t))
=============================================================================
