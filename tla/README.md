# Yupp agent: TLA+ specifications

This directory specifies the core of the repository beside it: how the Agent
Harness Service (AHS, `ypl/agent_harness_service`) runs the turns of an agent
session, how agents send messages to one another, how schedules and the tasks of a
project are picked up and completed, and how the Slack Agent Gateway brings the
replies of a session into a thread. Modules are checked with TLC on small instances; the
theorems are checked with TLAPS for every value of the constants.

## 1. The system

| Component | State | Operations | Interacts with |
|---|---|---|---|
| Session turns (`service/session_lifecycle.py`, `run_task.py`, `resolvers.py`, `state.py`) | PostgreSQL: `agent_sessions.status`, `agent_session_messages`. Memory: `_active_tasks`, `_pending_messages`. Redis: `ahs:executor_running`, `ahs:resume_pending`, `session_inbox` | `create_session`, `send_message`, `_run_agent_task`, the two drains, `stop_session`, `_inject_internal_message`, `dispatch_resume_turn` | users and the gateway call it; the runner works for it |
| Startup and sweeps (`lifespan.py`) | the same tables and keys | `promote_executor_running_to_resume_pending`, `_recover_stale_sessions`, `_run_auto_stale_check` | session turns |
| Subagent results (`core/subagent_queue.py`) | one asyncio queue per parent | `put_result`, `_drain` | delivers to session turns |
| Agent-to-agent messages (`tools/agent_messaging.py`, `service/agent_message_delivery.py`, `agent_message_recovery.py`) | `agent_messages` (QUEUED, DELIVERING, DELIVERED, FAILED), Redis lists | send, claim, deliver, release, recover | creates sessions, feeds `session_inbox` |
| Agent schedules (`scheduler.py`, `mcp_common/scheduled_agent_call_helpers.py`, `pages/agent_schedule.py`) | `agent_schedules`, `agent_schedule_runs` | due, claim, execute, complete, recover; trigger, cancel, edit; the console's cancel, pause and resume | creates sessions |
| Task executor (`task_executor.py`) | project tasks, dependencies, capacity | pick up, claim, execute, complete, resume, recover | creates sessions; completed by the end of a turn |
| Orchestration (`orchestration.py`, `tools/subagents.py`) | rows of subagent sessions with their parents, `_active_subagent_tasks`, a semaphore per CLI | `new_task`, `run_subagent`, `cancel_subagent_tasks` | agents spawn, `stop_session` cancels, reports go to session turns |
| Slack Agent Gateway (`ypl/slack_agent_gateway`) | Redis: session record, reply buffer and its type, flush schedule, rate-limit gate, event queue, tool clusters | `append_to_reply`, `add_reply`, `flush_buffer`, `discard_buffer`, the flush manager; events, status messages | calls `send_message`, `stop_session`; is called by the turns |
| Executors, command handler, MCP server, Couch, viewers, mono server | processes, HTTP | | environment of the above |

What is hard here: the service is one asyncio process in which every `await` is
a point where another coroutine runs; the evidence that a session is busy is
kept in three places (rows, `_active_tasks`, the Redis marker) that change at
different awaits; a turn may be cancelled at any await; the process may die at
any await and must find, from rows and keys alone, what it interrupted.

What makes a component correct:

* Session turns: one turn at a time; each turn has one outcome; an accepted
  message is never lost, doubled or stranded; a stopped turn is closed; a
  restart leaves no session busy without a turn.
* Agent-to-agent messages: one worker at a time has a message; once a session is
  recorded for it no other is created; it is tried at most `max_attempts` times;
  DELIVERED and FAILED are true when they are said; a queued one is in reach.
* Agent schedules: one run at a time; a cron time is executed once; `run_count` is
  exact and `max_runs` kept; what is over stays over; nothing stays IN_PROGRESS.
* Task executor: dependencies first; capacity kept; a completion belongs to
  the claim it completes.
* Orchestration: every subagent that gets as far as its `try` block reports once and is
  settled when it does; no slot is lost; a stop reaches what runs below the session.
* Gateway: a piece of a reply that was accepted is shown, in its place, and stays
  shown, whatever is deferred, split or posted again.

## 2. Modules

| Module | What it is |
|---|---|
| `SessionLog` | what a session promises of the messages it is given and of its turns: abstract |
| `SessionTurns` | the turns of one Slack session: every operation of the first three rows above on it; it implements `SessionLog` |
| `MCSessionTurns` | the instance TLC runs (symmetry of messages) |
| `SessionTurns_proofs` | the theorems about its types and about sessions of users alone |
| `SessionPlaces_proofs` | the theorems about it with all actors: where messages are, ACTIVE sessions, `SessionLog` |
| `MessageFate` | what messaging promises of every message: abstract |
| `AgentMessages` | the rows of `agent_messages`, the lists that carry their ids, the workers and the recovery; it implements `MessageFate` |
| `MCAgentMessages` | the instance TLC runs |
| `AgentMessages_proofs` | its theorems |
| `ProjectTasks` | the tasks of one project: poll, `execute_task`, completion, recovery, and the calls of people and agents |
| `MCProjectTasks` | the instances TLC runs: two shapes of dependencies, `Joined` (the third task waits for two) and `Chain` |
| `ProjectTasks_proofs` | its theorems |
| `Schedules` | one agent schedule and its runs |
| `MCSchedules` | the instance TLC runs (three values of `max_runs`) |
| `Schedules_proofs` | its theorems |
| `ReplyStream` | what the gateway promises of the replies of a session: abstract |
| `ReplyBuffer` | how it keeps that: buffer, flushes, posts; it implements `ReplyStream` |
| `MCReplyBuffer` | the instance TLC runs |
| `ReplyBuffer_proofs` | its theorems about what is kept and shown |
| `ReplyOrder_proofs` | its theorem about the order in a message |
| `Subagents` | the subagents below one session of a person |
| `MCSubagents` | the instance TLC runs |
| `Subagents_proofs` | its theorems |

`SessionTurns` and `AgentMessages` share `_drain_session_inbox`. `SessionTurns` has its effect on the turns
(which turn starts, which message is queued) and takes an inbox id for the
message; `AgentMessages` has its claims, resets and failures and takes the turn
it starts for done. `PeerSends` of the former is `SendRow` and `SendPush` of the
latter. `ProjectTasks` sees of a session only its turns: that one is started,
that it ends with a result or without, and that it may be lost; why it may be
lost is in `SessionTurns`. `Schedules` sees a session only as a call that succeeds or
fails, and `ReplyBuffer` sees a turn as a client that says pieces and ends. `Subagents`
takes for one step what `SessionTurns` does with a report (`Deliver` there is
`ResultQueued`, or `ResultSeesIdle` and `ResultStarts`), with a turn's end (`EndTurn`) and
with the rest of `stop_session`; what is `Spawned` in `SessionTurns` is specified here.

### SessionTurns and the code

State: `status`, `rows`, `origin`, `body`, `resp`, `draft` are the session row
and its message rows (an inbound row of turn `t`; its terminal AGENT and SYSTEM
rows in `resp[t]`; its IN_PROGRESS row in `draft[t]`). `marker`, `flag`, `inbox`
are the Redis keys. `pending` and `active` are `_pending_messages` and
`_active_tasks`. `pc[t]` is where the task of turn `t` stands, `carry[t]` and
`seen[t]` are the locals of its drain, `stop` and `resume` the calls of
`stop_session` and `dispatch_resume_turn` in progress, `sent[m]` how far the
handler of message `m` has come.

A step is what runs between two awaits at which others interleave. A
transaction that holds the row of the session (`SELECT ... FOR UPDATE`, or the
UPDATE of its status that is flushed with the rows) is one step, because the
row lock orders it with the others. What is read before the lock is a step of
its own: `ClientRead` is `_resolve_session`, whose status the later `FOR UPDATE`
does not refresh (the row is already in the identity map of the SQLAlchemy
session and the query does not ask for `populate_existing`).

| Code | Actions |
|---|---|
| `send_message` | `ClientRead`, then `ClientQueued`, `ClientRefused` or `ClientStarts`; `Dispatch` or `PrepareFails` |
| `_run_agent_task` | `TaskStart`, `Guard`, `EagerPersist`, `RunnerReturns`, `TurnFails`, `TurnFailsUnrecorded`, `PersistSkipped`, `PersistCheck`, `Persist`, `PersistFails`, `Notify`, `Unmark` |
| `_drain_pending_messages` | `DrainPop`, `DrainRead`, `DrainQueued`, `DrainStarts`, `DrainFails` |
| `_drain_session_inbox` | `InboxEmpty`, `InboxQueued`, `InboxClaim`, `InboxStarts`, `InboxFails` |
| `send_agent_message` | `PeerSends` |
| `deliver_subagent_result_to_parent`, `_inject_internal_message` | `ResultQueued`, `ResultSeesIdle`, `ResultStarts` |
| `stop_session` | `StopBegin`, `StopCancel`, `StopCheck`, `StopWrite` |
| process death, startup, `dispatch_resume_turn`, sweep | `Crash`, `Promote`, `Recover`, `ResumeClaim`, `ResumeStarts`, `Sweep` |

A drain calls `send_message` itself, so `starter[t]` remembers which task waits
for the dispatch of turn `t`; a cancellation of that task leaves row `t` without
a task (`lost`).

Abstractions: texts, permissions, attachments and gateway calls are left out,
except that a preparation may fail (`PrepareFails`) and that gateway calls are
awaits (`Notify`). A cancellation takes effect at once (`StopCancel`). The
fallback to another model after a rate limit happens only before anything is
visible and changes no state here. The 30-minute expiry of the marker is left
out. A write that takes no row lock and
reads the highest turn number is one step, so two rows with the same turn number
do not arise, although no constraint of the table excludes them.

Bounds (constants): `MaxTurns` inbound rows, `MaxPending` (50 in the code; 1 or
2 here so that a full queue happens), and one each of crash, stop, sweep and
fault where a run has them. Two turns that overlap need three messages at most,
and every kind of race above needs one interfering call; runs with two clients,
one result and one peer message already reach every action and branch.
`CHECK_DEADLOCK FALSE`: an idle session stops until someone writes to it.
`PeerSends` is one step although the code commits and then pushes; a push that
comes late or never is in `AgentMessages`.

Fairness (`FairSpec`): the event loop runs every coroutine that is ready, so a
handler, task, drain, startup or stop in progress continues (WF of each); a
runner ends because turns and time are limited. Nothing is assumed of clients,
results, peers, stops, crashes, faults or `EagerPersist`.

`SessionLog` has five variables: the fate of each message (open, accepted, refused or
gone), the turns begun, the messages each turn is for, its outcomes, and whether the log
is spoilt. A turn is begun only for messages that wait, in no other turn; a message that
the sender was told is refused, that a stop discarded or that died with the process is
in no turn, then or later; the messages of a turn and its outcomes stay. `LogKept`
substitutes `rows`, `body` and `resp`, the fate from `sent`, and: a write has failed, for
then its caller cannot tell what was written and may hand a message over twice. Queue, inbox,
drains, `_active_tasks`, drafts, the Redis keys and the process itself are hidden: a step that
only moves a message between them is a stutter. That one step may begin a turn for messages that
were never seen to wait is the sender that is answered and starts a turn in one transaction.

### AgentMessages and the code

State: `status`, `attempts`, `lease` and `resolved` are the columns `status`,
`attempt_count`, `claimed_at` and `resolved_session_id`; the lease is the number
of the attempt that took it, because the code compares `claimed_at` for equality
only, and no two claims of a row have the same count. `dispatch` and `inbox` are
the Redis lists. `tasks` are the tasks that `listen_new_session_messages` has
started, `drain` the drain of the target session, `sending` the senders between
their commit and their push, `phase` how far `recover_agent_messages` is.
`made` and `dropped` are history: what was created or injected for a message, and
the ids that a failing push (or claim), or a drain that was stopped, has left to the next
startup.

A step is one transaction or one Redis call. Every UPDATE has its condition in
its WHERE clause, so it is a read and a write in one step; a worker whose row has
been taken away writes nothing and goes on.

| Code | Actions |
|---|---|
| `send_agent_message` | `SendRow`, `SendPush`, `SendPushFails` |
| `listen_new_session_messages` | `Listen` |
| `_do_deliver` | `Claim`, `ClaimNothing`, `ClaimFails`, `CreateSession`, `CreateSessionFails`, `RecordSession`, `MarkDelivered`, `LeftDelivering`, `Release`, `ReleaseFails`, `Requeue`, `RequeueFails` |
| `_drain_session_inbox` | `DrainStart`, `DrainPop`, `DrainEmpty`, `DrainClaim`, `DrainClaimNothing`, `DrainClaimFails`, `DrainDelivers`, `DrainFails`, `DrainPushFails`, `DrainResetFails` |
| `stop_session` cancels the turn that drains | `DrainPopStopped`, `DrainClaimStopped`, `DrainDeliveryStopped` |
| process death, startup, `recover_agent_messages` | `Crash`, `Start`, `Finalize`, `ResetStale`, `RequeueAll`, `RecoveryFails` |

Abstractions: `create_session` either makes the session or raises, in which case
the session may be there all the same (`CreateSessionFails`). Time is left out:
which leases are older than five minutes at startup is open (`ResetStale`),
except that one taken since the startup is not. Redis may or may not lose its
lists with the process. The permits of `_delivery_semaphore` are given in any
order. `RequeueAll` reads and pushes in one step; a row that changes between the
two costs an id too many, which the model has anyway. One drain runs at a time.
Left out: authorization, names, and an inbox that holds the id of another
session's message (the code resets such a row). A stop comes at one of the drain's
awaits, LPOP, the claim or the delivery, and the call in progress may have taken effect or
not; CancelledError passes `except Exception`, so nothing is pushed again or reset.

Bounds: `MaxAttempts` (3 in the code and in the run), `MaxConcurrent` (10 in the
code, 1 in the run, so that tasks wait), `MaxTasks` tasks at once, two crashes,
one stop of the drain and one fault. One message of each kind is enough: messages of a kind meet only
in the order of a list and at the semaphore, and the blind push of a recovery
gives a message a second id, and so a second worker. `CHECK_DEADLOCK FALSE`:
when all messages are settled nothing more happens.

Fairness (`FairSpec`): the sender pushes, the listener and its tasks go on, the
process is started again and its startup ends. No end of a turn of the target
session is assumed, so nothing is claimed about when an injected message leaves
its inbox.

`MessageFate` has the status of each message, how often it was tried, how many sessions
were made of it and whether one is recorded. One step moves one message, except for the
end of interrupted tries at a startup; a try makes a session or none, and none once one
is recorded; a message ends DELIVERED when a session has it that is recorded, FAILED
when its tries are used up, and either is for good. `FateKept` substitutes `status`,
`attempts`, `made` and `resolved`. Hidden are the lists, the leases, the permits, the
workers and the phases of the startup: whoever writes a row, under whatever guard,
makes one of these steps.

### ProjectTasks and the code

State: `status`, `deps` and `assigned` are columns of `agent_tasks` (of
`assigned_session_ids` the last element, which is the session to resume);
`resumable`, `resume` and `forced` are the keys `error_subtype` (is it
`error_max_turns`), `resume_session` and `forced_pickup` of `task_data`. `active`
is the status of the project. `poll` holds the locals of
`poll_and_execute_ready_tasks` (the ready tasks left, the cached count, the
number dispatched), `workers` the coroutines of `execute_task`, `turns` the turns
of task sessions that will report. `claims` and `settledBy` are history: how often
a task was claimed, and for which claim the caller worked that settled it. The
code has neither, which is what `LateCompletion` shows.

A step is one transaction. Tasks are numbered in the order in which
`get_ready_tasks` returns them.

| Code | Actions |
|---|---|
| `poll_and_execute_ready_tasks` | `PollResolve` (`resolve_task_dependencies`), `PollReady` (`get_ready_tasks`), `PollCount`, `PollDispatch`, `PollDefer`, `PollEnds` |
| `execute_task` | `Claim`, `ClaimNothing`, `ClaimFails`, `CreateSession`, `RecordSession`, `ClearFlags`, `ExecuteFails`, `FailTask`, `FailTaskFails` |
| `_maybe_update_task_completion`, `update_task_completion` | `TurnEnds`, `TurnResolves`, `TurnLost`; the shared part is `Complete` |
| `recover_stale_in_progress_tasks` | `RecoverStale` |
| process death | `Crash` |
| `set_task_status_service`, `set_task_dependencies_service`, `restart_task_service`, `set_project_status_service` | `SetTaskStatus`, `SetTaskDependencies`, `RestartTask`, `SetProjectStatus` |
| `claim_task` of the tools, `restart_task` of `task_utils`, `resume_task`, `set_task_forced_pickup` | `ManualClaim`, `ConsoleRestart`, `ResumeTask`, `SetForcedPickup` |

Abstractions: time is left out, so any task IN_PROGRESS may have become stale;
a recovery of a task that somebody works on (`Attended`) is the untimely one, and
is counted by `MaxDelays`; a poll that starts before the workers of the
previous one have tried their claims, and may dispatch their tasks again, is counted
by `MaxOvertakes`. A second process that polls is left out. The
limit on the rows `get_ready_tasks` reads (three times the batch) is not reached by
a project this small. Everything after the claim that may raise is `ExecuteFails`,
at each of the three points where it leaves different columns behind. A turn that
reports is the first of the claim's session; later turns of the same session,
which the code lets report too, are left out (they come when the task is settled
or claimed again, as a late report does). Each call of a person
is one transaction that sees the others whole. Left out: creation and deletion, other project
statuses, the console's editor that sets any status without validation, the
backoff after a rate limit, several projects in one poll, notices, spending.

Bounds: `MaxHuman`, `MaxOvertakes`, `MaxDelays` and `MaxFaults` calls by people,
overtaking polls, untimely recoveries, and failures or crashes, `MaxSpent` of them together;
`MaxClaims` claims of a task; `MaxWorkers` coroutines. With a limit of one task in
progress (6 in the code) two ready tasks meet it, and a third waits for both; a
batch of two lets one cycle try to exceed it. Two tasks are the fewest that can
depend on each other. A late report needs one recovery and one more claim.

Fairness (`FairSpec`): `run_scheduler` polls in a loop (WF of `Poll`), coroutines
run (WF of `Execute`), a turn ends (WF of `Turn`; its limit of turns and of time),
and the same loop looks for stale tasks between polls, of which a task that
nobody works on becomes one: strong fairness of `RecoverOrphans`, because in the
model it is enabled only between polls and the loop reaches that point again and
again.

### Schedules and the code

State: `row` holds the columns `status`, `next_run_at`, `run_count` and `max_runs`,
`runs` the status of the rows of `agent_schedule_runs`, `workers` the calls of
`execute_agent_schedule` and `trigger_agent_schedule_now` with what they have read,
`consoles` the calls of the console between reading and writing. `now` counts cron
times. `period` (the cron time for which a run was claimed) and `upset` are history.

A step is one transaction, but a completion reads the schedule without a lock and
writes it at its commit, and so does the console: there the reading is a step of its
own, and `Flush` writes the columns that differ from what was read, as the ORM does.

| Code | Actions |
|---|---|
| `poll_and_execute_due_schedules` | `Poll` (and the list that it leaves to each worker) |
| `claim_agent_schedule` | `Claim`, `ClaimNothing`, `ClaimFails` |
| `execute_agent_schedule`, `_update_run_completion` | `ReadRow`, `Report`, `ReportFails`; `Reported` is what they compute |
| `recover_stale_in_progress_schedules` | `RecoverStale` |
| death or shutdown (`wait_for_in_flight_tasks`) | `Crash` of any of the workers |
| `trigger_agent_schedule_now`, `cancel_agent_schedule_by_id`, `edit_agent_schedule_fields` | `Trigger`, `Cancel`, `EditTime`, `EditLimit` |
| `cancel_schedule`, `update_schedule_status` of the console | `ConsoleRead`, `ConsoleWrite` |

Abstractions: time is counted in cron times, so `next_run_at` is the number of the
next one, and an IN_PROGRESS schedule may always have become stale; a recovery under
a worker (`Attended`) is counted by `MaxDelays`. Left out: creation and deletion,
edits of the prompt, the session that a run creates, permissions, several schedules
in one batch (a claim is of one row).

Bounds: `MaxTime` two cron times (the second one is missed, or comes while the first
is executed), `MaxRuns` 6, which no behaviour within the other bounds uses up,
`MaxWorkers` two (two processes, or a poll and a trigger, or a late completion and a
new run), one call of a person, one untimely recovery, one failure or crash;
`Limits` 0 (none), 1 and 2. `CHECK_DEADLOCK FALSE`: a schedule that is over stops.

Fairness (`FairSpec`): `run_scheduler` polls (WF of `Poll`), looks for stale schedules,
of which one that nobody works on becomes one (WF of `~Attended /\ RecoverStale`), and
executions go on (WF of `Execute`). Nothing is assumed of people or of time.

### ReplyBuffer and the code

State: `session` is what the session record says of the last reply, `buffer`,
`bufferType` and `scheduled` are the Redis keys of the buffer and its entry in the
flush schedule, `gate` is the rate limit of `chat_update`, `slack` the thread. `procs`
are the calls in the gateway with their locals, process 0 is the flush manager.
`client` is what `_run_agent_task` knows: whether the next piece starts a message, and
the call it waits for. `types` is the type of each piece said so far, `refused` the
pieces whose call failed, `upset` the history of what has gone wrong.

| Code | Actions |
|---|---|
| `_run_agent_task` (relay of a text, `turn_end`), the client's timeout | `SayNew` (`send_reply`), `SayMore` (`append_reply`), `SayInVain`, `EndTurn`, `TimeOut` |
| `append_to_reply` | `SayMore` (its decision), `AppendToBuffer`, `Schedule`; on another type the flush, then `Discard` and a rescue if it failed, then a post |
| `process_due_flushes` | `ManagerFlushes` |
| `flush_buffer` | `FlushReads`, `FlushLooks`, `FlushTakes`, `FlushUpdates`, `FlushDeferred`, `FlushFails`, `FlushRecords`, `FlushChecks`, `Unschedule` |
| a Redis command that raises before there is a text to put back | `CallFails` |
| `add_reply` | `Posts`, `PostFails`, `PostRecorded`, for a piece, a rescued text or an overflow |
| `discard_buffer`, also by `reset_turn_state` | `Discard`, `Unschedule` |
| death of the gateway, expiry of the gate | `Crash`, `GateOpens` |

A step is one command on the buffer, one call of Slack or one record of its answer.
Taken together are: the three reads by which `append_to_reply` decides; size and type
of the buffer in `flush_buffer` (a flush that finds it empty later does the same); the
type and the schedule entry after an append; the two deletions in `Unschedule`; the
GET and SET of the session record. A text is a sequence of pieces, one for each call;
`Cap` pieces fit into a message, so an overflow is cut between pieces. `"text"` stands
for a reply type that is not set. `took` is what a flush has taken from the buffer: an
exception puts all of it back, also what has been shown since. A gate that another session
holds, a 429, and a failing Redis are mishaps. A post or an update that fails may have been
made or not: Slack's answer may have no ts, or never arrive. A Redis command that fails has
had no effect, but for the removal of the schedule entry; an exception at
the check or the removal at the end of a flush, where one command of Redis fails and the next
one puts the text back, counts as two mishaps (`Blip`). That the command in an exception handler fails too is left out. A text
that is too long for a post is cut by Slack. Sessions do not
expire, the buffer's TTL does not run out, and placeholders are left out.

Bounds: three pieces (said, appended, and one more that overflows, switches the type or
races the flush), two of them in a message, two calls beside the manager, two mishaps
of any kind. `CHECK_DEADLOCK FALSE`: when everything is said nothing more happens.

Fairness (`FairSpec`): the flush manager loops (WF of `ManagerFlushes`), a call in
progress goes on (WF of `Work` of each process), the gate is a key that expires (WF of
`GateOpens`). Nothing is assumed of the client, of failures, or of crashes.

`ReplyStream` has four variables: the pieces said, shown and refused, and whether the
stream is spoilt. Only what was said is shown or refused, shown pieces stay shown, and in
the end each piece is shown or refused, unless the stream is spoilt. A refused piece may be
shown all the same, because the call is answered as failed when Slack's answer is lost. `StreamKept` substitutes
the pieces of `types`, those on Slack, `refused`, and: something in `upset` is never
repaired. That is a buffer dropped by the end of a turn, a rescued text that could not
be posted, a crash with text in hand, a message written from a stale record (`stale`),
or text left without a flush (`bare`); an update that Slack has made and the session
does not know (`unrecorded`) is repaired, but may take a shown piece away for a moment.
The excuses are narrow: a deferral, an overflow, a failed overflow that is still
scheduled, a type switch in the middle of a flush, a post that was not answered, a text
that is shown twice are not among them.

### Subagents and the code

State: `parent`, `depth` and `row` are the row of a subagent's session (`"none"`: it was
not inserted; the row of the person's session is in `SessionTurns`), `pc` is where its
`run_subagent` is, `exec` the task inside it that is cancelled, `told` that it was.
`permits`, `queue` and `held` are the semaphore, `tracked` is `_active_subagent_tasks`,
`mail` the queues of `subagent_queue`, `turn` the sessions with an entry in
`_active_tasks`, `stop` the progress of `cancel_subagent_tasks`. History: `got`, what was
executed when a stop began and what was not ACTIVE since (`stop.aim`, `stop.left`), and
the sessions whose status a failing call or a crash left behind (`excused`). The messages
of a subagent are rows that nothing here reads, so `Persist` is only a step on the way;
what is queued behind a turn is not kept either, so `EndTurn` leaves open whether another
turn follows.

| Code | Actions |
|---|---|
| `new_task` | `NewTask` |
| `run_subagent` up to the execution, `_create_db_session` | `Reject`, `Misname` (it raises before its `try` block), `Link`, `Launch`, `Enqueue`, `Acquire` |
| `_execute_subagent`, `_persist_subagent_messages` | `Answer`, `Persist`, `Interrupt` |
| `run_subagent` from `wait_for` on, `_update_db_session_status` | `TimeOut`, `Outcome`, `Settle`, `Return` |
| `_drain`, `deliver_subagent_result_to_parent` | `Deliver` |
| the end of a turn, a message of the person | `EndTurn`, `EndTurnUnrecorded` (its last write fails), `Ask` |
| `stop_session`, `cancel_subagent_tasks` | `StopBegins`, `StopVisits`, `StopFails`, `StopCancels` |
| death and restart of the process, the recovery | `Crash` |

A step is a database call, an await on a task or the semaphore, or what happens between
two of them. The `finally` block (`Finally`) comes before the final status when the
execution has succeeded, and after the report when it has not, as in the code. A raw
executor takes no slot; the two semaphores are alike and independent, so there is one. An
agent whose execution has been cancelled may go on until the cancellation arrives
(`Interrupt`), and only the session of the person is stopped. What the parent's policy
`allowed_subagents` refuses is never spawned.

Bounds: two subagents, which can be siblings or parent and child, so that one waits for
the slot of the other and a stop has two levels to descend; one stop (`MaxStops`), and one
failing database call or death of the process (`MaxMishaps`), at any point. The depth
limit is three levels, and two subagents stay within it; a refusal for it is that of
`Reject`, which has other reasons as well and is taken at every depth. `CHECK_DEADLOCK
FALSE`: when all is reported and nobody asks, nothing happens. Fairness (`FairSpec`):
tasks of the event loop go on, an execution ends or times out, a drain delivers (WF of
`Runs` for each subagent and of `Deliver` for each session). Nothing is assumed of
agents, people, turns, stops and mishaps.

## 3. Runs

Passing:

| Run | Properties | Shows |
|---|---|---|
| `TurnsUsers` | `TypeOK`, `OneActiveTurn`, `RunningIsRegistered`, `InflightIsAttended`, `EventuallyAnswered` | Three users, a queue of one: the row lock and the look at the turn in flight keep one turn at a time, and the drains answer every accepted message |
| `TurnsFailures` | `ExactlyOnePlace`, `ActiveHasTurn` | Users, a result and a peer, one failing write, one crash, recovery and auto-resume: a message accepted is in one place (after a failing write: in one at least); no session is left ACTIVE without a turn, a stop or a peer's message under way |
| `TurnsStop` | `LogKept`, `StopCloses` | A user, a result and a peer, one stop, crash and sweep: a stopped turn is closed, whatever it races with; `SessionLog` is implemented, so what a stop discards is in no turn |
| `MessagesDelivery` | `TypeOK`, `LeaseHeld`, `OncePerAttempt`, `VerdictIsTrue`, `QueuedIsReachable`, `FateKept`, `SettledUnlessFailure` | Both kinds of messages with crashes and failing calls: see section 1; `MessageFate` is implemented; and a message for a new session settles as long as nothing fails; with a stop of the drain |
| `TasksWork` | `TypeOK`, `OneExecution`, `CapacityKept`, `DependenciesFirst` | Three tasks and nobody who interferes, with two of: a failure or crash, an untimely recovery, a poll that overtakes a claim. One execution of a task at a time, though it may be dispatched twice; the limit of the project; dependencies first |
| `TasksPeople` | `SettledStays`, `EventuallySettled` | Two calls of people or agents, or one and a failure, at any point of the work on two tasks: nothing but their calls changes a settled task, a late report included, and in the end every task that may be picked up is settled or waits for people, whatever was cancelled, restarted, resumed, paused or re-linked |
| `SchedulesKept` | `TypeOK`, `OneRun`, `CountExact`, `LimitKept`, `OncePerPeriod`, `OverStays`, `EventuallyServed`, `EventuallyClosed` | One schedule, one-time or recurring, over two cron times, with a failure or crash, a recovery under a worker and a call of a person at any point: see section 1 |
| `RepliesShown` | `TypeOK`, `TextKept`, `InOrder`, `StreamKept` | Three pieces of either type and two mishaps: no piece is lost between buffer, flushes and posts, answered or not; a message tells its pieces in order; the gateway implements `ReplyStream`, liveness included |
| `SubagentsKept` | `TypeOK`, `NothingLeaks`, `OneReport`, `ReportedIsSettled`, `StopReaches`, `EventuallyReported` | Two subagents and one slot, with a stop and a failing call or crash anywhere: slots and entries are given back, every subagent for which an agent is found, or which is rejected, reports, once, and is settled before it does, and a stop reaches each execution that ACTIVE rows link to the session |

In `SchedulesKept`, `OneRun`, `CountExact`, `LimitKept`, `OncePerPeriod` and `OverStays`
make an exception for a recovery under a worker and for a status that the console has
overwritten (`Undisturbed`): the code has no guard against either
(see the further behaviours below). `EventuallyServed` makes none.

`TasksPeople` is under `FairSpec`; `OneExecution`, `CapacityKept` and
`DependenciesFirst` are conditional on nobody having interfered (`Undisturbed`,
or all of `MaxHuman` left), because the code promises nothing else: a restart of
a task IN_PROGRESS gives it a second execution at once. `OneExecution` covers the polls
that dispatch a task again before it is claimed, which is what the condition on READY under
the row lock of the claim is for; `CapacityKept` excludes them, since a
cycle counts the tasks IN_PROGRESS and not those dispatched. In `SubagentsKept`, `OneReport`
says of a subagent with an impossible name that it has no report, `EventuallyReported`
excuses it, and `ReportedIsSettled` excuses a last write that failed, of the subagent or of
a turn of its session.

Runs that TLC finds violated, each because the code does something else than
its documentation says (quotations in `PROJECT.json`, `findings`):

| Run | Property | Behaviour |
|---|---|---|
| `ResultOverlap` | `OneActiveTurn` | two results find the parent idle and each start a turn |
| `LateCompletion` | `SettledByItsClaim` | a task recovered as stale is claimed again, and the late report of the first session settles it while the second works |
| `TextUnscheduled` | `BufferedIsScheduled` | a piece is appended between a flush's look at the empty buffer and its removal from the schedule, and is left there |

Further behaviours that these models have, contradict no document, and are worth
knowing (those of the first group do contradict one, but are not kept as runs):
recovery counts a peer's inbound row as its own answer while `_has_inflight_turn`
counts it as open, so later messages are queued and never drained; `stop_session` and
the end of a turn may each write an outcome; a message queued behind a turn that is
being stopped is not drained, because a cancelled turn skips its drains; when the
process is back within five minutes of a crash during a delivery, the message stays
DELIVERING; the console cancels a schedule that has just been claimed, and the completion
of that run makes it PENDING again, after "Schedule cancelled successfully"
(`agent_schedule.py:323`); a crash leaves the row of a subagent ACTIVE for good, because
recovery and sweep leave out sessions with a parent, whose final status "the orchestrator
already writes" (`lifespan.py:250`); a stop, which is to kill "any subagent processes"
(`session_lifecycle.py:2554`), descends through ACTIVE rows only and misses what runs below
a COMPLETED one, or under a row that a turn has completed meanwhile; a nested subagent's
report is injected "if the parent is idle" (`session_lifecycle.py:1460`) and starts a turn
in a session whose subagent is at work, which is not in `_active_tasks`; a row that could
not be inserted makes the depth count from zero below it, past the "max 3 levels" of
`orchestration.py:287`; `new_task` answers that the result "will arrive as a follow-up message
in this session" also for a name like `Code_Reviewer`, for which `run_subagent` raises before
its `try` block (`orchestration.py:341`, `common/config.py:122`): only the callback of the
task logs it (`tools/subagents.py:234`), and the parent waits in vain. And: the inbox drain does not see a user turn that is committed but not yet
registered, and starts another; of two senders that have both read STALE before
the lock, both start a turn; a sender that has read ACTIVE does not re-activate
the session completed since; the end of a turn deletes the executor marker of
the turn its own drain has started; a drain that is cancelled loses the messages
in its locals, and a peer's message whose id it has popped is not delivered before the next
startup; a message that arrives before the drain starts ahead of the
queued ones; a turn can be interrupted before it has a task, and run
nevertheless; a result queued after the last drain waits for the next message;
a message to a session that is over makes it ACTIVE, and waits for a turn that
someone else must start; a message marked DELIVERED by the fallback of the inbox
drain is in memory only; a resumed task whose set-up fails loses its
`error_subtype` and cannot be resumed again; a resumed session that reaches its
limit before the flags are cleared loses it as well; `forced_pickup` survives a
manual claim and overrides a later pause; `restart_task_service` accepts a task
IN_PROGRESS, whose session still reports; a recovered or resumed task is READY
even when a dependency has been restarted meanwhile; a manual trigger moves
`next_run_at` past a cron time that came while it ran and counts against `max_runs`,
although its docstring speaks of "as if the manual trigger never happened"; recovery
counts the runs it closes, although a comment in `claim_agent_schedule` says it does
not, and an untimely one is counted again by the late completion; what the console
writes without a lock overwrites a claim or a completion; the last write of a turn may
fail, and leaves a subagent's session ACTIVE without a turn; the end of a turn discards
what the turn appended in its last 1.2 seconds; a
failing update may put its text back when the entry of its flush is gone; a Redis command that
fails between the append and the schedule leaves the text in the buffer without a flush, and
the call answered as failed; one that fails after the update of a flush has the text put
back and shown twice; a post that Slack has made and not answered is reported as failed,
and an overflow among such posts is posted again; a flush that reads
the session before another one records writes the message without the other's text; a
text that a deferral puts back while newer text arrives is shown after it; a subagent
that waits for a slot is not in `_active_subagent_tasks`, and begins after the stop.

Every property of a passing run has a mutant (an operator such as
`ClientStartsUnchecked` defined before the action it would replace): with it TLC
finds the property violated.

## 4. Proofs

`SessionTurns_proofs` proves, for all sets of messages and all bounds
(assumptions `MessagesAssumption`, `BoundsAssumption`):

* `TypesHold`: `Spec => []TypeOK`. `TypeOK` is inductive; `TypeStep` has one
  step per action, with the types of the parts of the state it changes under it.
* `UsersOneActiveTurn`, `UsersRunningIsRegistered`: when only users write to the
  session (`UsersOnly`: no results, peers, crashes, stops, sweeps), no two turns
  run at once and a running turn is registered, whatever writes fail. The
  violated runs and the list above show what results, peers, stops and restarts
  do to the first.
  `OneActiveTurn` is not inductive. `UsersInv` adds what makes it so: every turn
  but the newest has an outcome (`OlderTurnsOver`), and a turn being worked on
  has none and is registered from the moment it has a task (`WorkIsNewest`); so
  a turn being worked on is the newest one.
* `UsersInflightIsAttended`: if moreover no write fails, a turn in flight is
  being worked on (`AttendedInv`).

`SessionPlaces_proofs` proves of the same module with every actor (results, peers,
stops, crashes, sweeps and failing writes included), from the same assumptions:

* `AcceptedIsInOnePlace`: `Spec => []ExactlyOnePlace`. The property is not inductive: a
  message that is being accepted could be somewhere already. `PlaceInv` says that it is
  not (it is nowhere, and no turn has touched it), that an accepted message is
  somewhere, that it is in one place as long as no write has failed, and that what is
  refused, discarded or lost is then nowhere (`Placed`); and
  what the locals of tasks may hold: nothing in tasks that do not carry (`Blank`), a
  starter only for rows that exist (`Awaited`), what a claim has marked (`Claims`), and
  nothing left of what was consumed (`Spent`). Most actions move no message
  (`StillStep`, `CalmActions`); `RowStep`, `HandOverStep`, `JoinStep`, `DropStep` and
  `FaultStep` are the few ways in which one moves, and the actions are cases of them.
* `ActiveSessionHasTurn`: `MaxStops = 0 => (Spec => []ActiveHasTurn)`. `ActiveInv` names
  the turn: an ACTIVE session with rows, while the service is up and no write has
  failed, has a peer's message on its way to a row, or its newest turn is being worked
  on and has no outcome (`NewestWorks`). It needs `PlaceInv`, as a session that a
  peer's message reopens is ACTIVE before the message has its row. The hypothesis is
  that of the run, and it is needed: a stop that races with a hand-over closes the
  rows it finds and throws away the peer's message for which the session had been
  reopened, and so leaves it ACTIVE without a turn.
* `LogImplemented`: `Spec => LogKept`. Initial states map to initial states, and each
  action is a stutter (`LogStill`, with `LogHidden` for the many that leave rows and fates
  alone) or one step: a handler that accepts (`LogAccepted`), a row (`LogBegun`), an
  outcome (`LogClosed`), messages refused, discarded or lost (`LogDropped`), a failing
  write (`LogSpoilt`). That the messages of a new turn are in no other one is the part
  of `PlaceInv` that counts places (`WaitingIsUntold`: who is in queue, inbox or drain is in
  no body), and that none of them is gone is its part about what is over. `LogInv` adds
  `Named`: the turn that a stop has captured, and may close, has been begun.

`AgentMessages_proofs` proves, for all finite sets of messages and all bounds
(assumptions `KindsAssumption`, `BoundsAssumption`), that `AgentMessages` keeps

* `TypeCorrect`, `LeasesAreHeld`, `AtMostOncePerAttempt`, `VerdictsAreTrue`,
  `QueuedStaysReachable`: the invariants that `MessagesDelivery` checks;
* `RecordedIsFinal`: the action property `NoSecondSession`, which no run states because
  `MessageFate` says more (`Work`);
* `FateImplemented`: every step is a step of `MessageFate` or a stutter. A claim, of a
  task or of the drain, is `Try` (`ClaimIsTry`: a claimable row has an attempt left and is
  QUEUED); the steps of a task (`TaskFate`) and of the drain (`DrainFate`) are `Work` on its
  message, for which the row is DELIVERING and nothing was made in this try before
  (`TaskInv`, `DrainInv`); the steps of the startup are `Recover` (`RecoveryFate`, where a
  lease that is reset has no session because `Finalize` came before).

All follow from one inductive invariant, `Inv`. To what the properties say it adds
`Exclusive` (two tasks never hold one message), `RowInv` (what the columns of a
row say together: a row that can be claimed has an attempt left and no session; a
lease is that of the last attempt; no more was made than tried), `TaskInv` and
`DrainInv` (how far a worker can be, given its row) and `Attached` (there are no
delivery tasks before the recovery has ended). The last one is why recovery can
reset a row without taking it from a task: only a drain can be at work then, and
its lease is younger than five minutes. `DrainReset`, which has no ownership guard
in the code, needs exactly this to be safe. `Inv` is preserved part by part
(`TypeStep`, `HeldStep`, `RowsStep`, `StageStep`, `ReachStep`), each with one step
per action.

`ProjectTasks_proofs` proves, for every project (any number of tasks, any
dependencies, cycles included) and all bounds (assumptions `TasksAssumption`,
`BoundsAssumption`):

* `TypesAreCorrect`: `Spec => []TypeOK`. `TypeOK` alone is not inductive: a claim
  could leave the range of `claims`, and a worker could have no task. `Inv` adds
  the bound of claims by workers and people (`HistoryOK`) and that whoever works
  has a task (`Subjects`).
* `SettledTasksStay`: the action property `SettledStays`. `AutomaticOrHuman` shows
  that a step is either a call of a person, which `HumanCounts` says is counted, or
  changes statuses only along four edges (`Automatic`), none of which leaves a
  settled status.
* `DependenciesComeFirst`: from the same edges, as only tasks with completed
  dependencies are promoted and COMPLETED has no automatic edge.
* `OneExecutionAtATime`: `OneExecution` is not inductive. `Single` adds that
  whatever works on a task works for its last claim, and that the task has not been
  given back since (IN_PROGRESS or settled); so a claim, which needs READY, is never
  the second one, however often the task has been dispatched.
* `CapacityIsKept`: `CapacityKept` is not inductive either, as the dispatched
  tasks are not yet IN_PROGRESS. `Room` bounds the tasks IN_PROGRESS and dispatched
  together (`Held`) by the limit, and by what the poll has counted plus what it has
  dispatched; it needs that nothing is dispatched when the poll counts.
* `OwnClaimSettles`: `Spec => [](Undisturbed => SettledByItsClaim)`. `LateCompletion` needs
  a recovery of a task that is worked on: without that, and without people, whoever
  settles a task works for its last claim (`Single`), and a settled task is not claimed
  again (`Automatic`).

`Schedules_proofs` proves, for all bounds and all values of `max_runs` (assumptions
`LimitsAssumption`, `BoundsAssumption`), the safety properties that `SchedulesKept`
checks:

* `TypeCorrect`: `Spec => []TypeOK`, with what the ORM writes (`FlushType`) and what a
  completion computes (`ReportedType`) as lemmas.
* `OneRunAtATime`: `OneRun` is not inductive, because a worker at work and a run that is
  open are different things. `Alone` says that an undisturbed schedule that is not
  IN_PROGRESS has neither, and one that is has at most one of each, which belong
  together; `Exclusive` adds that what a console has read could be edited.
* `CountIsExact` (`Counted`), `LimitIsKept` (`Within`: what has ended and what is open,
  together, within the limit), `OverIsOver` (a terminal status leaves no worker whose
  report could change it), `OncePerCronTime` (`Dated`: `next_run_at` is ahead of every
  period with a completed run), each from the one before it.

`ReplyBuffer_proofs` proves, for any number of pieces, calls and mishaps and any size
of a message (assumption `BoundsAssumption`):

* `TypeCorrect`: `Spec => []TypeOK`; what a process may hold at each of its steps
  (`WellFormed`) is part of the invariant.
* `NothingLost`: `Spec => []TextKept`. That no piece is lost is not inductive: an update
  replaces the message it appends to, so a piece that is shown need not stay so.
  `Everywhere` says that each piece is refused, carried by a process, buffered or *firm*:
  in a message other than the current one, or in what the session remembers of that one.
  It rests on three facts about the copies of one text (`Remembered`, `Updated`,
  `Exact`): what the session remembers is in the message, what a flush is about to
  record is what it has written, and once all is recorded the two are equal. Beneath
  them, `Linked` (a message that was posted and not recorded is known to its poster
  alone) and `Silent` (nothing is buffered before a message is recorded). That a flush which
puts back all that it took loses none of an overflow is `Spilled`, from `RestOfSecond`: what
does not fit beside a content that fits is of the new text.
* `StreamImplemented`: every step of `ReplyBuffer` is a step of `ReplyStream` or a
  stutter, the refinement but for liveness. It needs `Owned`: what is in texts or in Slack was said,
  and a piece that a call still brings (`Loose`) is with that process alone and in no text;
  `Keeping` says what a step may do to the piece of a process, to what
  it took and to the content it read. A refusal is a
  step of the stream of its own, whether the piece is shown or not. That an update shows at least what it replaces is `Exact`,
  with the lemma `Grows` about the text that fits.
* `OnlyBareIsUnscheduled`: what `TextUnscheduled` finds is, with a text that goes back when
  its entry is already gone and a crash or a failing Redis command between the append and
  its entry, the only way to leave a text in the buffer without a flush. `Promised`, which is inductive, counts the
  appending call that is about to schedule.

`ReplyOrder_proofs` proves of the same module `PiecesInOrder` (`InOrder`): as long as no
text went back behind a newer one (`late`) or after it was shown (`doubled`), and no reply
was posted past one under way (`overtaken`), each message is in order, also when a flush writes over another's text or
the gateway dies. The order of what is in Slack says nothing of what is written next;
`Order` speaks of everything that a message may still become (`Around`). The client has
one call at work (`Solo`), and what it brings is the newest piece (`Brought`, `Bounded`). What a
process has taken is older than what is buffered and than what was taken later
(`InTurn`). The content that a flush starts from is behind the buffer, and behind the
newest text, which alone may go back to the buffer (`Settled`, `Bases`). A piece that is
posted because its type is another one finds the buffer empty (`Emptied`), and no text
needs to be rescued (`Direct`). The actions are cases of a few lemmas: a process moves
texts and sees to the order (`MovesOrder`), a text goes back (`RequeueMoves`), a content is
recorded (`RecordSettles`), the agent says a piece (`SaysOrder`).

`Subagents_proofs` proves, for every finite set of subagents and all bounds (assumptions
`RootAssumption`, `BoundsAssumption`):

* `TypeCorrect` and `SlotsKept` (`NothingLeaks`) from one invariant, `SlotInv`: that there
  are never more free slots than slots needs that each is held by one subagent, and that
  it is not given back twice needs `Freed`: who has left by success is already out of
  the semaphore and the table while its status is written.
* `Settled` (`ReportedIsSettled`): `SettleInv` adds that there is no row before it is
  inserted (`NoRow`), and no turn without one (`NoTurn`), so that the only step that makes
  a settled session ACTIVE is a delivery that starts a turn.
* `ReportedOnce` (`OneReport`): `MailInv` says that a queue holds reports to its own
  session (`Addressed`), each once (`Distinct`), and only of subagents that have ended and
  were not handed over (`Once`). It is about membership; `UnreadCount` turns it into the
  number that the property speaks of.
* `StopReachesAll` (`StopReaches`): a stop walks down from the session while subagents
  come and go, and each look finds only children whose rows are ACTIVE. `ReachInv` says
  that the children of whoever has been visited have been found (`Walked`), that who is
  executed is tracked under the id the walk finds (`Executed`, `Tracked`) and that all
  descend from the session of the person (`Tree`). A line of ancestors is the least set
  closed under parents, so `LineClosed` gets it from the closure of what has been found,
  without induction over the depth.

Left to TLC: liveness (`EventuallyAnswered`, `StopCloses`, `SettledUnlessFailure`,
`EventuallySettled`, `EventuallyServed`, `EventuallyClosed`, the liveness of
`StreamKept`, `EventuallyReported`), which needs fairness and ENABLED. Every invariant,
action property and refinement (its safety part) of a passing run is a theorem.

## 5. Not modelled, and the plan

In this order:

1. `SetTaskDependencies` split into its check and its commit, with acyclicity of
   the graph (two edits lock different rows), and a run for the resumability that
   a failing set-up loses.
2. The gateway's event queue and its tool clusters,
   composed with `SessionTurns`.
3. Subagents: stops of a subagent's own session, the policy of `allowed_subagents`, and
   the composition with `SessionTurns`; `create_session` and the non-interactive triggers in `SessionTurns`.
4. An abstract specification of a task (waiting, ready, held, settled), as
   `SessionLog` is of a session and `MessageFate` of a message, and the proof that
   `ProjectTasks` implements it.

Executors, the command handler, the other MCP tools, the web and admin applications
and the viewers are I/O around this core and stay environment.
