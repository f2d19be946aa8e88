----------------------------- MODULE Subagents -----------------------------
(***************************************************************************)
(* The subagents below one session of a person: new_task spawns them,      *)
(* run_subagent queues them for a CLI slot, executes them and reports to   *)
(* the parent, cancel_subagent_tasks cancels them when the session is      *)
(* stopped.                                                                *)
(*                                                                         *)
(* A subagent has two asyncio tasks: run_subagent (pc) and, inside it, the *)
(* execution (exec), which is the one that is cancelled.  Its session, a   *)
(* row linked to the parent, may get turns of its own, when one of its own *)
(* subagents reports.  What the delivery of a report does to a session in  *)
(* detail, and what stop_session does beside the cancelling, SessionTurns  *)
(* specifies; here both are one step, and it is left open what waits       *)
(* behind a turn.                                                          *)
(***************************************************************************)
EXTENDS Integers, Sequences, FiniteSets

CONSTANTS
  Root,        \* the session of the person
  Sub,         \* subagents that can be spawned below it
  MaxDepth,    \* MAX_SUBAGENT_DEPTH
  Permits,     \* MAX_CONCURRENT_CLAUDE_CODE
  MaxStops,    \* bound: calls of stop_session
  MaxMishaps   \* bound: database calls that fail, and deaths of the process

ASSUME RootAssumption == Root \notin Sub /\ IsFiniteSet(Sub)

ASSUME BoundsAssumption ==
  /\ MaxDepth \in Nat /\ Permits \in Nat
  /\ MaxStops \in Nat /\ MaxMishaps \in Nat

Session == Sub \cup {Root}

\* run_subagent: spawned; its row written; waiting for a slot, or for the
\* execution; timed out; the outcome known; the status written; reported;
\* ended by an exception that nobody hears of; lost in a crash.
PC == {"none", "spawned", "linked", "queued", "awaiting", "expired", "outcome",
       "written", "over", "unheard", "lost"}

\* The execution: the runner; the messages of the turn being persisted; its end.
Exec == {"none", "running", "answered", "returned", "raised", "interrupted"}

VARIABLES
  parent,   \* parent_session_id, as new_task passes it
  depth,    \* subagent_depth in the context of the subagent
  pc, exec,
  told,     \* executions that task.cancel() was called on
  how,      \* status of the report
  row,      \* agent_sessions.status of a subagent; "none": there is no row
  permits, queue, held, \* the semaphore: free slots, waiters, who has a slot
  tracked,  \* _active_subagent_tasks
  mail,     \* subagent_queue: the reports to a session
  got,      \* how often the report of a subagent was handed over
  turn,     \* sessions with an entry in _active_tasks
  stop,     \* cancel_subagent_tasks: to_visit, descendant_ids; history: what
            \* was executed when it began, sessions not ACTIVE at any time since
  excused,  \* history: sessions whose status a fault or a crash left behind
  budget    \* what the bounds leave

vars == <<parent, depth, pc, exec, told, how, row, permits, queue, held,
          tracked, mail, got, turn, stop, excused, budget>>

NoStop == [on |-> FALSE, visit |-> {}, found |-> {}, aim |-> {}, left |-> {}]

\* A turn of the person's session has begun.
Init ==
  /\ parent = [s \in Sub |-> Root]
  /\ depth = [s \in Sub |-> 0]
  /\ pc = [s \in Sub |-> "none"]
  /\ exec = [s \in Sub |-> "none"]
  /\ told = {}
  /\ how = [s \in Sub |-> "none"]
  /\ row = [s \in Sub |-> "none"]
  /\ permits = Permits /\ queue = <<>> /\ held = {}
  /\ tracked = {}
  /\ mail = [s \in Session |-> <<>>]
  /\ got = [s \in Sub |-> 0]
  /\ turn = {Root}
  /\ stop = NoStop
  /\ excused = {}
  /\ budget = [stop |-> MaxStops, mishap |-> MaxMishaps]

-----------------------------------------------------------------------------
(* Helpers                                                                 *)

Spend(what) == budget[what] > 0 /\ budget' = [budget EXCEPT ![what] = @ - 1]

Goto(s, label) == pc' = [pc EXCEPT ![s] = label]
Ends(s, as)    == exec' = [exec EXCEPT ![s] = as]

AtWork(s) == exec[s] \in {"running", "answered"}
Ended(s)  == exec[s] \in {"returned", "raised", "interrupted"}

\* A session and those it descends from: what every set of sessions holds that
\* has the session in it, and the parent of each of its subagents.
ParentClosed(C) == \A t \in C \cap Sub : parent[t] \in C

Line(s) ==
  {t \in Session : \A C \in SUBSET Session : s \in C /\ ParentClosed(C) => t \in C}

HasRow(s) == s \in Sub => row[s] # "none"

\* The rows when the status of a session is written.  That of the person's
\* session is in SessionTurns.
RowsWith(s, status) == [t \in Sub |-> IF t = s THEN status ELSE row[t]]

\* A stop that is going on may miss a session that is not ACTIVE, and what is
\* below it.
Leaves(s) == stop' = IF stop.on THEN [stop EXCEPT !.left = @ \cup ({s} \cap Sub)]
                     ELSE stop

\* put_result.
Put(s) == mail' = [mail EXCEPT ![parent[s]] = Append(@, s)]

\* Mutants of the finally block: the slot is not freed, and a slot is freed
\* whether or not one was taken.
FinallyUntracks(s) == tracked' = tracked \ {s} /\ UNCHANGED <<held, permits>>
FinallyFrees(s) ==
  /\ tracked' = tracked \ {s}
  /\ held' = held \ {s}
  /\ permits' = permits + 1

\* The finally block: out of _active_subagent_tasks, the slot is free.
Finally(s) ==
  /\ tracked' = tracked \ {s}
  /\ held' = held \ {s}
  /\ permits' = IF s \in held THEN permits + 1 ELSE permits

\* create_task and the entry under the row's id, if there is a row.
Execute(s) ==
  /\ Goto(s, "awaiting")
  /\ Ends(s, "running")
  /\ tracked' = IF row[s] # "none" THEN tracked \cup {s} ELSE tracked

-----------------------------------------------------------------------------
(* new_task and run_subagent                                               *)

\* The depth of the caller is that in its row; without a row it is zero.
DepthOf(s) == IF s \in Sub /\ HasRow(s) THEN depth[s] ELSE 0

\* An agent at work, in a turn of its session or as a subagent, calls new_task.
NewTask(by, s) ==
  /\ by \in turn \/ (by \in Sub /\ exec[by] = "running")
  /\ pc[s] = "none"
  /\ Goto(s, "spawned")
  /\ parent' = [parent EXCEPT ![s] = by]
  /\ depth' = [depth EXCEPT ![s] = DepthOf(by) + 1]
  /\ UNCHANGED <<exec, told, how, row, permits, queue, held, tracked, mail,
                 got, turn, stop, excused, budget>>

Report(s, status) ==
  /\ Goto(s, "over")
  /\ how' = [how EXCEPT ![s] = status]
  /\ Put(s)

\* A mutant reports to nobody.
RejectSilently(s) ==
  /\ pc[s] = "spawned"
  /\ Goto(s, "over")
  /\ how' = [how EXCEPT ![s] = "error"]
  /\ UNCHANGED <<parent, depth, exec, told, row, permits, queue, held,
                 tracked, mail, got, turn, stop, excused, budget>>

\* Too deep (then nothing else is possible), of an unknown type, or no model.
Reject(s) ==
  /\ pc[s] = "spawned"
  /\ Report(s, "error")
  /\ UNCHANGED <<parent, depth, exec, told, row, permits, queue, held,
                 tracked, got, turn, stop, excused, budget>>

\* The name can be that of no agent, and load_agent_config raises: outside the
\* try block of run_subagent, so that only the callback of new_task, which logs
\* the exception, hears of it.
Misname(s) ==
  /\ pc[s] = "spawned"
  /\ depth[s] <= MaxDepth
  /\ Goto(s, "unheard")
  /\ UNCHANGED <<parent, depth, exec, told, how, row, permits, queue, held,
                 tracked, mail, got, turn, stop, excused, budget>>

\* _create_db_session: the row needs that of the parent, which it refers to; a
\* failure is only logged.
Link(s) ==
  /\ pc[s] = "spawned"
  /\ depth[s] <= MaxDepth
  /\ Goto(s, "linked")
  /\ IF ~HasRow(parent[s]) THEN UNCHANGED <<row, budget>>
     ELSE \/ row' = [row EXCEPT ![s] = "ACTIVE"] /\ UNCHANGED budget
          \/ Spend("mishap") /\ UNCHANGED row
  /\ UNCHANGED <<parent, depth, exec, told, how, permits, queue, held,
                 tracked, mail, got, turn, stop, excused>>

\* A raw executor needs no slot, and a CLI takes one that is free if nobody
\* waits for it.
Launch(s) ==
  /\ pc[s] = "linked"
  /\ Execute(s)
  /\ \/ UNCHANGED <<permits, held>>
     \/ /\ permits > 0 /\ queue = <<>>
        /\ permits' = permits - 1 /\ held' = held \cup {s}
  /\ UNCHANGED <<parent, depth, told, how, row, queue, mail, got, turn,
                 stop, excused, budget>>

Enqueue(s) ==
  /\ pc[s] = "linked"
  /\ permits = 0 \/ queue # <<>>
  /\ Goto(s, "queued")
  /\ queue' = Append(queue, s)
  /\ UNCHANGED <<parent, depth, exec, told, how, row, permits, held,
                 tracked, mail, got, turn, stop, excused, budget>>

\* Waiters are served in turn.
Acquire(s) ==
  /\ pc[s] = "queued"
  /\ permits > 0 /\ queue # <<>> /\ Head(queue) = s
  /\ permits' = permits - 1 /\ held' = held \cup {s}
  /\ queue' = Tail(queue)
  /\ Execute(s)
  /\ UNCHANGED <<parent, depth, told, how, row, mail, got, turn,
                 stop, excused, budget>>

-----------------------------------------------------------------------------
(* _execute_subagent                                                       *)

\* The runner returns, or raises.
Answer(s) ==
  /\ exec[s] = "running" /\ s \notin told
  /\ Ends(s, "answered") \/ Ends(s, "raised")
  /\ UNCHANGED <<parent, depth, pc, told, how, row, permits, queue, held,
                 tracked, mail, got, turn, stop, excused, budget>>

\* _persist_subagent_messages: rows that nothing here reads; a failure is only
\* logged.
Persist(s) ==
  /\ exec[s] = "answered" /\ s \notin told
  /\ Ends(s, "returned")
  /\ UNCHANGED <<parent, depth, pc, told, how, row, permits, queue, held,
                 tracked, mail, got, turn, stop, excused, budget>>

\* The cancellation arrives.
Interrupt(s) ==
  /\ AtWork(s) /\ s \in told
  /\ Ends(s, "interrupted")
  /\ UNCHANGED <<parent, depth, pc, told, how, row, permits, queue, held, tracked,
                 mail, got, turn, stop, excused, budget>>

-----------------------------------------------------------------------------
(* run_subagent: the end                                                   *)

\* timeout_s has passed since the execution began.
TimeOut(s) ==
  /\ pc[s] = "awaiting" /\ AtWork(s)
  /\ Goto(s, "expired")
  /\ told' = told \cup {s}
  /\ UNCHANGED <<parent, depth, exec, how, row, permits, queue, held,
                 tracked, mail, got, turn, stop, excused, budget>>

\* wait_for returns or raises; only success leaves the try block at once.
Outcome(s) ==
  /\ pc[s] \in {"awaiting", "expired"} /\ Ended(s)
  /\ Goto(s, "outcome")
  /\ how' = [how EXCEPT ![s] = IF pc[s] = "expired" THEN "timeout"
                               ELSE IF exec[s] = "returned" THEN "completed"
                               ELSE IF exec[s] = "raised" THEN "error"
                               ELSE "cancelled"]
  /\ IF how'[s] = "completed" THEN Finally(s) ELSE UNCHANGED <<permits, held, tracked>>
  /\ UNCHANGED <<parent, depth, exec, told, row, queue, mail, got, turn,
                 stop, excused, budget>>

\* A mutant leaves the row to somebody else.
SettleNothing(s) ==
  /\ pc[s] = "outcome"
  /\ Goto(s, "written")
  /\ UNCHANGED <<parent, depth, exec, told, how, row, permits, queue, held,
                 tracked, mail, got, turn, stop, excused, budget>>

\* _update_db_session_status; a failure is only logged.
Settle(s) ==
  /\ pc[s] = "outcome"
  /\ Goto(s, "written")
  /\ IF row[s] = "none" THEN UNCHANGED <<row, stop, excused, budget>>
     ELSE \/ /\ row' = RowsWith(s, IF how[s] = "completed" THEN "COMPLETED" ELSE "STALE")
             /\ Leaves(s)
             /\ UNCHANGED <<excused, budget>>
          \/ /\ Spend("mishap")
             /\ excused' = excused \cup {s}
             /\ UNCHANGED <<row, stop>>
  /\ UNCHANGED <<parent, depth, exec, told, how, permits, queue, held,
                 tracked, mail, got, turn>>

\* The report, and after a failure the finally block.
Return(s) ==
  /\ pc[s] = "written"
  /\ Report(s, how[s])
  /\ IF how[s] = "completed" THEN UNCHANGED <<permits, held, tracked>> ELSE Finally(s)
  /\ UNCHANGED <<parent, depth, exec, told, row, queue, got, turn,
                 stop, excused, budget>>

-----------------------------------------------------------------------------
(* Reports and turns                                                       *)

\* _drain and deliver_subagent_result_to_parent: dropped without a row, queued
\* behind the turn of the session, or the message of a new one.  A failure is
\* only logged.
Deliver(p) ==
  /\ mail[p] # <<>>
  /\ mail' = [mail EXCEPT ![p] = Tail(@)]
  /\ got' = [got EXCEPT ![Head(mail[p])] = @ + 1]
  /\ \/ /\ ~HasRow(p) \/ p \in turn
        /\ UNCHANGED <<row, turn, budget>>
     \/ /\ HasRow(p) /\ p \notin turn
        /\ turn' = turn \cup {p}
        /\ row' = RowsWith(p, "ACTIVE")
        /\ UNCHANGED budget
     \/ HasRow(p) /\ Spend("mishap") /\ UNCHANGED <<row, turn>>
  /\ UNCHANGED <<parent, depth, pc, exec, told, how, permits, queue, held,
                 tracked, stop, excused>>

\* The end of _run_agent_task.  What is queued behind the turn, if anything, is
\* the next one.
EndTurn(p) ==
  /\ p \in turn
  /\ Leaves(p)
  /\ \/ row' = RowsWith(p, "COMPLETED") /\ turn' = turn \ {p}
     \/ row' = RowsWith(p, "ACTIVE") /\ UNCHANGED turn
  /\ UNCHANGED <<parent, depth, pc, exec, told, how, permits, queue, held,
                 tracked, mail, got, excused, budget>>

\* Its last write fails, which is only logged: the entry in _active_tasks is
\* removed all the same.
EndTurnUnrecorded(p) ==
  /\ p \in turn
  /\ Spend("mishap")
  /\ excused' = excused \cup ({p} \cap Sub)
  /\ \/ turn' = turn \ {p} /\ UNCHANGED row
     \/ row' = RowsWith(p, "ACTIVE") /\ UNCHANGED turn
  /\ UNCHANGED <<parent, depth, pc, exec, told, how, permits, queue, held,
                 tracked, mail, got, stop>>

\* The person writes.
Ask ==
  /\ Root \notin turn
  /\ turn' = turn \cup {Root}
  /\ UNCHANGED <<parent, depth, pc, exec, told, how, row, permits, queue, held,
                 tracked, mail, got, stop, excused, budget>>

-----------------------------------------------------------------------------
(* stop_session and cancel_subagent_tasks                                  *)

StopBegins ==
  /\ ~stop.on /\ Root \in turn
  /\ Spend("stop")
  /\ stop' = [on |-> TRUE, visit |-> {Root}, found |-> {},
              aim |-> {s \in Sub : AtWork(s) /\ s \notin told},
              left |-> {s \in Sub : row[s] # "ACTIVE"}]
  /\ UNCHANGED <<parent, depth, pc, exec, told, how, row, permits, queue,
                 held, tracked, mail, got, turn, excused>>

Children(p) == {s \in Sub : row[s] = "ACTIVE" /\ parent[s] = p}

\* A mutant does not look below the children.
StopVisitsOnce ==
  /\ stop.on
  /\ \E p \in stop.visit :
       stop' = [stop EXCEPT !.visit = @ \ {p}, !.found = @ \cup Children(p)]
  /\ UNCHANGED <<parent, depth, pc, exec, told, how, row, permits, queue,
                 held, tracked, mail, got, turn, excused, budget>>

\* One query for the active children of one descendant.
StopVisits ==
  /\ stop.on
  /\ \E p \in stop.visit :
       stop' = [stop EXCEPT !.visit = (@ \ {p}) \cup Children(p),
                            !.found = @ \cup Children(p)]
  /\ UNCHANGED <<parent, depth, pc, exec, told, how, row, permits, queue,
                 held, tracked, mail, got, turn, excused, budget>>

\* A query fails: the session is stopped without its subagents.
StopFails ==
  /\ stop.on /\ stop.visit # {}
  /\ Spend("mishap")
  /\ stop' = NoStop
  /\ UNCHANGED <<parent, depth, pc, exec, told, how, row, permits, queue,
                 held, tracked, mail, got, turn, excused>>

\* Every tracked task among the descendants is cancelled.
StopCancels ==
  /\ stop.on /\ stop.visit = {}
  /\ tracked' = tracked \ stop.found
  /\ told' = told \cup {s \in stop.found \cap tracked : AtWork(s)}
  /\ stop' = NoStop
  /\ UNCHANGED <<parent, depth, pc, exec, how, row, permits, queue, held,
                 mail, got, turn, excused, budget>>

-----------------------------------------------------------------------------
(* Death and restart of the process: rows survive, and the recovery at     *)
(* startup leaves out the sessions of subagents                            *)

Crash ==
  LET unread == {s \in Sub : \E i \in DOMAIN mail[parent[s]] : mail[parent[s]][i] = s}
      alive  == {s \in Sub : pc[s] \notin {"none", "over", "unheard"}}
  IN
  /\ Spend("mishap")
  /\ pc' = [s \in Sub |-> IF s \in alive \cup unread THEN "lost" ELSE pc[s]]
  /\ exec' = [s \in Sub |-> "none"]
  /\ told' = {}
  /\ permits' = Permits /\ queue' = <<>> /\ held' = {}
  /\ tracked' = {}
  /\ mail' = [s \in Session |-> <<>>]
  /\ turn' = {}
  /\ stop' = NoStop
  /\ excused' = excused \cup alive \cup (turn \cap Sub)
  /\ UNCHANGED <<parent, depth, how, row, got>>

-----------------------------------------------------------------------------

\* What run_subagent and the execution do by themselves.
Runs(s) ==
  \/ Reject(s) \/ Misname(s) \/ Link(s) \/ Launch(s) \/ Enqueue(s) \/ Acquire(s)
  \/ Answer(s) \/ Persist(s) \/ Interrupt(s) \/ TimeOut(s)
  \/ Outcome(s) \/ Settle(s) \/ Return(s)

Next ==
  \/ \E s \in Sub : Runs(s) \/ \E by \in Session : NewTask(by, s)
  \/ \E p \in Session : Deliver(p) \/ EndTurn(p) \/ EndTurnUnrecorded(p)
  \/ Ask
  \/ StopBegins \/ StopVisits \/ StopFails \/ StopCancels
  \/ Crash

Spec == Init /\ [][Next]_vars

\* Tasks of the event loop run on, an execution ends or times out, and the
\* semaphore serves its waiters in turn.  Nothing is assumed of agents, people
\* and turns.
Fairness ==
  /\ \A s \in Sub : WF_vars(Runs(s))
  /\ \A p \in Session : WF_vars(Deliver(p))

FairSpec == Spec /\ Fairness

-----------------------------------------------------------------------------
(* Properties                                                              *)

Status == {"ACTIVE", "COMPLETED", "STALE"}

\* Types of the rows, the tasks, the semaphore, the queues and the stop.
TypeOK ==
  /\ parent \in [Sub -> Session] /\ depth \in [Sub -> Nat]
  /\ pc \in [Sub -> PC] /\ exec \in [Sub -> Exec] /\ told \subseteq Sub
  /\ how \in [Sub -> {"none", "completed", "error", "timeout", "cancelled"}]
  /\ row \in [Sub -> Status \cup {"none"}]
  /\ permits \in 0..Permits /\ queue \in Seq(Sub) /\ held \subseteq Sub
  /\ tracked \subseteq Sub
  /\ mail \in [Session -> Seq(Sub)] /\ got \in [Sub -> Nat]
  /\ turn \subseteq Session
  /\ stop \in [on: BOOLEAN, visit: SUBSET Session, found: SUBSET Sub,
               aim: SUBSET Sub, left: SUBSET Sub]
  /\ excused \subseteq Sub
  /\ budget \in [stop: 0..MaxStops, mishap: 0..MaxMishaps]

UnderWay == {"awaiting", "expired", "outcome", "written"}

\* On no way out of run_subagent a slot is lost or freed twice, and who is not
\* executed has none and is not tracked.
NothingLeaks ==
  /\ permits + Cardinality(held) = Permits
  /\ \A s \in held \cup tracked : pc[s] \in UnderWay

Unread(s) == Cardinality({i \in DOMAIN mail[parent[s]] : mail[parent[s]][i] = s})

\* However a subagent ends that run_subagent has found an agent for, or rejects,
\* its parent gets one report: not two, and never before the end.  Of one with
\* an impossible name, for which run_subagent raises, it gets none.
OneReport ==
  \A s \in Sub : got[s] + Unread(s) = IF pc[s] = "over" THEN 1 ELSE
                                      IF pc[s] = "lost" THEN got[s] ELSE 0

\* Who has reported is no longer ACTIVE, unless its session works on reports
\* itself, whatever such turns, timeouts and stops have written in between; a
\* last write that has failed, of run_subagent or of such a turn, is excused.
ReportedIsSettled ==
  \A s \in Sub \ excused : pc[s] = "over" => row[s] # "ACTIVE" \/ s \in turn

\* A stop reaches every execution that ran when it began and was linked to the
\* session by ACTIVE rows until the end of the stop.
StopReaches ==
  [][stop.on /\ stop.visit = {} /\ ~stop'.on =>
       \A s \in stop.aim :
         Line(s) \cap stop.left = {} => s \in told' \/ ~AtWork(s)']_vars

\* Nobody waits for ever for a slot, for an execution, or for the report of a
\* subagent that did not die with the process, unless run_subagent has raised
\* before its try block: then the parent waits in vain.
EventuallyReported ==
  \A s \in Sub : (pc[s] = "spawned") ~> (pc[s] \in {"unheard", "lost"} \/ got[s] = 1)
=============================================================================
