---------------------------- MODULE SessionTurns ----------------------------
(***************************************************************************)
(* The turns of ONE agent session of the Agent Harness Service:            *)
(* send_message, _run_agent_task, the drains at the end of a turn,         *)
(* stop_session, the delivery of subagent results and peer messages, and   *)
(* the restart of the process.  The session is a Slack one (interactive,   *)
(* resumable).                                                             *)
(*                                                                         *)
(* One step is what runs between two awaits that other coroutines, or the  *)
(* database, can interleave with.  A transaction that takes the session    *)
(* row (SELECT ... FOR UPDATE, or the UPDATE of agent_sessions.status that *)
(* is flushed with the rows it writes) is one step: the row lock orders it *)
(* with the others.  What is read BEFORE the lock is a step of its own.    *)
(*                                                                         *)
(* Turn numbers are the indices of the inbound rows; an inbound row has    *)
(* one task, so the task of turn t is named t.                             *)
(***************************************************************************)
EXTENDS Integers, Sequences

CONSTANTS
  Clients,      \* messages that users send with send_message
  Results,      \* results of background subagents, delivered to this parent
  Peers,        \* agent-to-agent messages addressed to this session
  MaxTurns,     \* bound: inbound rows the model has room for
  MaxPending,   \* _MAX_PENDING_MESSAGES
  MaxCrashes,   \* bound: how often the process dies
  MaxStops,     \* bound: calls of stop_session
  MaxSweeps,    \* bound: how often the auto-stale sweep hits the session
  MaxFaults     \* bound: failing writes and failing preparations

ASSUME MessagesAssumption ==
  /\ Clients \cap Results = {}
  /\ Clients \cap Peers = {}
  /\ Results \cap Peers = {}

ASSUME BoundsAssumption ==
  /\ MaxTurns \in Nat \ {0}
  /\ MaxPending \in Nat \ {0}
  /\ MaxCrashes \in Nat
  /\ MaxStops \in Nat
  /\ MaxSweeps \in Nat
  /\ MaxFaults \in Nat

Msg  == Clients \cup Results \cup Peers
Turn == 1..MaxTurns

Status == {"ACTIVE", "COMPLETED", "STALE"}

\* Where the task of a turn stands.
\*   prep      inbound row committed, task not created yet
\*   created   task created, its body has not run
\*   marked    Redis marker set, interrupted-check ahead
\*   running   in the runner loop
\*   answered  runner returned, final transaction ahead
\*   persist   final transaction saw no SYSTEM row, commit ahead
\*   post      outcome recorded; gateway and feedback calls
\*   finally, stopping    in the finally block (stopping: was_cancelled)
\*   drain .. injecting   the two drains of the finally block
\*   done      task over;  dead: killed by a cancellation outside the runner
\*   loop;  lost: the row has no task (process died, preparation failed)
PC == {"none", "prep", "created", "marked", "running", "answered", "persist",
       "post", "finally", "stopping", "drain", "popped", "read", "sending",
       "inbox", "claimed", "injecting", "done", "dead", "lost"}

VARIABLES
  \* PostgreSQL
  status,    \* agent_sessions.status
  rows,      \* number of inbound rows = the highest turn number
  origin,    \* origin[t]: who wrote inbound row t ("fellow": role FELLOW_AGENT)
  body,      \* body[t]: the messages inbound row t carries
  resp,      \* resp[t]: terminal rows of turn t, a subset of {"AGENT","SYSTEM"}
  draft,     \* draft[t]: the IN_PROGRESS row ("late": younger than a SYSTEM row)
  \* Redis
  marker,    \* ahs:executor_running:{session}: turn number, 0 when absent
  flag,      \* ahs:resume_pending:{session}
  inbox,     \* session_inbox:{session}
  \* the process
  phase,     \* "down", "promoted" (startup half done) or "up"
  pending,   \* _pending_messages[session]: entries, each a set of messages
  active,    \* _active_tasks[session]: turn whose task it is, 0 when absent
  pc,
  starter,   \* starter[t]: turn whose drain wrote row t, 0 for the others
  carry,     \* carry[t]: entries the drain of task t holds in its locals
  seen,      \* seen[t]: session status the drain of task t has read
  sent,      \* sent[m]: how far message m has come
  stop,      \* the stop_session call in progress
  resume,    \* dispatch_resume_turn: "none", "ready" or "claimed"
  budget     \* what the bounds leave

db     == <<status, rows, origin, body, resp, draft>>
redis  == <<marker, flag, inbox>>
memory == <<phase, pending, active, pc, starter, carry, seen, sent, stop,
            resume>>
vars   == <<db, redis, memory, budget>>

NoStop == [pc |-> "idle", turn |-> 0, task |-> 0]

Init ==
  /\ status = "ACTIVE"
  /\ rows = 0
  /\ origin = [t \in Turn |-> "none"]
  /\ body = [t \in Turn |-> {}]
  /\ resp = [t \in Turn |-> {}]
  /\ draft = [t \in Turn |-> "none"]
  /\ marker = 0
  /\ flag = FALSE
  /\ inbox = <<>>
  /\ phase = "up"
  /\ pending = <<>>
  /\ active = 0
  /\ pc = [t \in Turn |-> "none"]
  /\ starter = [t \in Turn |-> 0]
  /\ carry = [t \in Turn |-> <<>>]
  /\ seen = [t \in Turn |-> "ACTIVE"]
  /\ sent = [m \in Msg |-> "idle"]
  /\ stop = NoStop
  /\ resume = "none"
  /\ budget = [crash |-> MaxCrashes, stop |-> MaxStops,
               sweep |-> MaxSweeps, fault |-> MaxFaults]

-----------------------------------------------------------------------------
(* Helpers                                                                 *)

\* The newest inbound row has no terminal row (drafts do not count).
Inflight == rows > 0 /\ resp[rows] = {}

\* A completed or stale session becomes ACTIVE; "known" is the status the
\* handler has in hand, which may be older than the row it then writes.
Reactivated(known) ==
  IF known \in {"COMPLETED", "STALE"} THEN "ACTIVE" ELSE status

\* The messages of a sequence of queue entries, combined into one.
Merged(entries) == UNION {entries[i] : i \in DOMAIN entries}

\* The messages that exist only in the locals of the drain of task t.
Held(t) ==
  IF pc[t] \in {"popped", "read", "claimed"} THEN Merged(carry[t]) ELSE {}

\* Commit inbound row rows + 1.
AddTurn(who, by, messages, known) ==
  /\ rows < MaxTurns
  /\ rows' = rows + 1
  /\ origin' = [origin EXCEPT ![rows + 1] = who]
  /\ body' = [body EXCEPT ![rows + 1] = messages]
  /\ starter' = [starter EXCEPT ![rows + 1] = by]
  /\ status' = Reactivated(known)
  /\ UNCHANGED <<resp, draft>>

\* Record the outcome of turn t: a terminal row, and the session COMPLETED.
Record(t, row) ==
  /\ resp' = [resp EXCEPT ![t] = @ \cup {row}]
  /\ status' = "COMPLETED"

Goto(t, label) == pc' = [pc EXCEPT ![t] = label]

\* Mutant of Deregister: the entry is popped whoever it belongs to.
DeregisterAny(t) == active' = 0

\* _active_tasks is cleared only by the task it still points to.
Deregister(t) == active' = IF active = t THEN 0 ELSE active

Settle(messages, outcome) ==
  sent' = [m \in Msg |-> IF m \in messages THEN outcome ELSE sent[m]]

-----------------------------------------------------------------------------
(* send_message, called by a client                                        *)

\* _resolve_session loads the row; the later FOR UPDATE does not refresh it.
ClientRead(m) ==
  /\ phase = "up"
  /\ sent[m] = "idle"
  /\ sent' = [sent EXCEPT ![m] = status]
  /\ UNCHANGED <<db, redis, phase, pending, active, pc, starter, carry, seen,
                 stop, resume, budget>>

\* A turn is in flight and the session was not STALE when it was read.
ClientQueued(m) ==
  /\ sent[m] \in Status \ {"STALE"}
  /\ Inflight
  /\ Len(pending) < MaxPending
  /\ pending' = Append(pending, {m})
  /\ sent' = [sent EXCEPT ![m] = "accepted"]
  /\ UNCHANGED <<db, redis, phase, active, pc, starter, carry, seen, stop,
                 resume, budget>>

ClientRefused(m) ==
  /\ sent[m] \in Status \ {"STALE"}
  /\ Inflight
  /\ Len(pending) >= MaxPending
  /\ sent' = [sent EXCEPT ![m] = "refused"]
  /\ UNCHANGED <<db, redis, phase, pending, active, pc, starter, carry, seen,
                 stop, resume, budget>>

\* Mutant of ClientStarts: no look at the turn in flight.
ClientStartsUnchecked(m) ==
  /\ sent[m] \in Status
  /\ AddTurn("message", 0, {m}, sent[m])
  /\ Goto(rows + 1, "prep")
  /\ sent' = [sent EXCEPT ![m] = "accepted"]
  /\ UNCHANGED <<redis, phase, pending, active, carry, seen, stop, resume,
                 budget>>

ClientStarts(m) ==
  /\ sent[m] \in Status
  /\ sent[m] = "STALE" \/ ~Inflight
  /\ AddTurn("message", 0, {m}, sent[m])
  /\ Goto(rows + 1, "prep")
  /\ sent' = [sent EXCEPT ![m] = "accepted"]
  /\ UNCHANGED <<redis, phase, pending, active, carry, seen, stop, resume,
                 budget>>

\* The end of send_message and of its three siblings: permissions, context
\* and attachments are prepared, a user turn takes the resume flag (GETDEL),
\* the task is created and registered.  A drain that was waiting for this
\* call goes on: the pending drain to the inbox, the inbox drain to its end.
Dispatch(t) ==
  LET by == starter[t] IN
  /\ pc[t] = "prep"
  /\ flag' = IF origin[t] = "message" THEN FALSE ELSE flag
  /\ active' = t
  /\ pc' = [u \in Turn |->
              CASE u = t -> "created"
                [] u = by /\ pc[u] = "sending" -> "inbox"
                [] u = by /\ pc[u] = "injecting" -> "done"
                [] OTHER -> pc[u]]
  /\ carry' = [u \in Turn |-> IF u = by THEN <<>> ELSE carry[u]]
  /\ UNCHANGED <<db, marker, inbox, phase, pending, starter, seen, sent, stop,
                 resume, budget>>

\* The preparation raises (the attachment directory cannot be created): the
\* row stays, no task is created, and a drain re-queues what it had popped.
PrepareFails(t) ==
  LET by == starter[t] IN
  /\ pc[t] = "prep"
  /\ origin[t] = "message"
  /\ budget.fault > 0
  /\ budget' = [budget EXCEPT !.fault = @ - 1]
  /\ pc' = [u \in Turn |-> CASE u = t -> "lost"
                             [] u = by /\ pc[u] = "sending" -> "inbox"
                             [] OTHER -> pc[u]]
  /\ pending' = IF by = 0 THEN pending ELSE carry[by] \o pending
  /\ carry' = [u \in Turn |-> IF u = by THEN <<>> ELSE carry[u]]
  /\ UNCHANGED <<db, redis, phase, active, starter, seen, sent, stop, resume>>

-----------------------------------------------------------------------------
(* _run_agent_task                                                         *)

\* Mutant of TaskStart: the marker names the next turn.
TaskStartOffByOne(t) ==
  /\ pc[t] = "created"
  /\ marker' = t + 1
  /\ Goto(t, "marked")
  /\ UNCHANGED <<db, flag, inbox, phase, pending, active, starter, carry, seen,
                 sent, stop, resume, budget>>

TaskStart(t) ==
  /\ pc[t] = "created"
  /\ marker' = t
  /\ Goto(t, "marked")
  /\ UNCHANGED <<db, flag, inbox, phase, pending, active, starter, carry, seen,
                 sent, stop, resume, budget>>

\* A turn that stop_session has already interrupted does not run.
Guard(t) ==
  /\ pc[t] = "marked"
  /\ Goto(t, IF "SYSTEM" \in resp[t] THEN "finally" ELSE "running")
  /\ UNCHANGED <<db, redis, phase, pending, active, starter, carry, seen, sent,
                 stop, resume, budget>>

EagerPersist(t) ==
  /\ pc[t] = "running"
  /\ draft[t] = "none"
  /\ draft' = [draft EXCEPT ![t] = IF resp[t] = {} THEN "early" ELSE "late"]
  /\ UNCHANGED <<status, rows, origin, body, resp, redis, memory, budget>>

RunnerReturns(t) ==
  /\ pc[t] = "running"
  /\ Goto(t, "answered")
  /\ UNCHANGED <<db, redis, phase, pending, active, starter, carry, seen, sent,
                 stop, resume, budget>>

\* Mutant of TurnFails: the failure is logged, no SYSTEM row is written.
TurnFailsSilently(t) ==
  /\ pc[t] = "running"
  /\ Goto(t, "post")
  /\ UNCHANGED <<db, redis, phase, pending, active, starter, carry, seen, sent,
                 stop, resume, budget>>

\* Runner crash, error event or missing agent config: a SYSTEM row (the draft
\* turned into it, when there is one) closes the turn.
TurnFails(t) ==
  /\ pc[t] = "running"
  /\ Record(t, "SYSTEM")
  /\ draft' = [draft EXCEPT ![t] = "none"]
  /\ Goto(t, "post")
  /\ UNCHANGED <<rows, origin, body, redis, phase, pending, active, starter,
                 carry, seen, sent, stop, resume, budget>>

\* The same, but writing the record fails and the failure is only logged.
TurnFailsUnrecorded(t) ==
  /\ pc[t] = "running"
  /\ budget.fault > 0
  /\ budget' = [budget EXCEPT !.fault = @ - 1]
  /\ Goto(t, "post")
  /\ UNCHANGED <<db, redis, phase, pending, active, starter, carry, seen, sent,
                 stop, resume>>

\* The final transaction reads whether the turn was interrupted ...
PersistSkipped(t) ==
  /\ pc[t] = "answered"
  /\ "SYSTEM" \in resp[t]
  /\ draft' = [draft EXCEPT ![t] = "none"]
  /\ status' = "COMPLETED"
  /\ Goto(t, "finally")
  /\ UNCHANGED <<rows, origin, body, resp, redis, phase, pending, active,
                 starter, carry, seen, sent, stop, resume, budget>>

PersistCheck(t) ==
  /\ pc[t] = "answered"
  /\ "SYSTEM" \notin resp[t]
  /\ Goto(t, "persist")
  /\ UNCHANGED <<db, redis, phase, pending, active, starter, carry, seen, sent,
                 stop, resume, budget>>

\* ... and commits the answer with the session status.
Persist(t) ==
  /\ pc[t] = "persist"
  /\ Record(t, "AGENT")
  /\ draft' = [draft EXCEPT ![t] = "none"]
  /\ Goto(t, "post")
  /\ UNCHANGED <<rows, origin, body, redis, phase, pending, active, starter,
                 carry, seen, sent, stop, resume, budget>>

PersistFails(t) ==
  /\ pc[t] = "persist"
  /\ budget.fault > 0
  /\ budget' = [budget EXCEPT !.fault = @ - 1]
  /\ Goto(t, "finally")
  /\ UNCHANGED <<db, redis, phase, pending, active, starter, carry, seen, sent,
                 stop, resume>>

Notify(t) ==
  /\ pc[t] = "post"
  /\ Goto(t, "finally")
  /\ UNCHANGED <<db, redis, phase, pending, active, starter, carry, seen, sent,
                 stop, resume, budget>>

\* Mutant of Unmark: every turn is over without draining the queues.
UnmarkWithoutDrain(t) ==
  /\ pc[t] \in {"finally", "stopping"}
  /\ marker' = 0
  /\ Goto(t, "done")
  /\ Deregister(t)
  /\ UNCHANGED <<db, flag, inbox, phase, pending, starter, carry, seen, sent,
                 stop, resume, budget>>

\* mark_executor_finished deletes the key, whichever turn has set it.  A
\* turn cancelled in its runner loop skips both drains and is over.
Unmark(t) ==
  /\ pc[t] \in {"finally", "stopping"}
  /\ marker' = 0
  /\ IF pc[t] = "finally"
       THEN /\ Goto(t, "drain")
            /\ UNCHANGED active
       ELSE /\ Goto(t, "done")
            /\ Deregister(t)
  /\ UNCHANGED <<db, flag, inbox, phase, pending, starter, carry, seen, sent,
                 stop, resume, budget>>

-----------------------------------------------------------------------------
(* _drain_pending_messages: the queue is popped and sent as one message    *)

\* Mutant of DrainPop: the queue is read, not popped.
DrainPeek(t) ==
  /\ pc[t] = "drain"
  /\ carry' = [carry EXCEPT ![t] = pending]
  /\ Goto(t, IF pending = <<>> THEN "inbox" ELSE "popped")
  /\ UNCHANGED <<db, redis, phase, pending, active, starter, seen, sent, stop,
                 resume, budget>>

DrainPop(t) ==
  /\ pc[t] = "drain"
  /\ pending' = <<>>
  /\ carry' = [carry EXCEPT ![t] = pending]
  /\ Goto(t, IF pending = <<>> THEN "inbox" ELSE "popped")
  /\ UNCHANGED <<db, redis, phase, active, starter, seen, sent, stop, resume,
                 budget>>

DrainRead(t) ==
  /\ pc[t] = "popped"
  /\ seen' = [seen EXCEPT ![t] = status]
  /\ Goto(t, "read")
  /\ UNCHANGED <<db, redis, phase, pending, active, starter, carry, sent, stop,
                 resume, budget>>

\* Another turn is in flight: queued again, as one entry; or, the queue being
\* full, put back in front of what has been queued meanwhile.
DrainQueued(t) ==
  /\ pc[t] = "read"
  /\ seen[t] # "STALE"
  /\ Inflight
  /\ pending' = IF Len(pending) < MaxPending
                  THEN Append(pending, Merged(carry[t]))
                  ELSE carry[t] \o pending
  /\ carry' = [carry EXCEPT ![t] = <<>>]
  /\ Goto(t, "inbox")
  /\ UNCHANGED <<db, redis, phase, active, starter, seen, sent, stop, resume,
                 budget>>

DrainStarts(t) ==
  /\ pc[t] = "read"
  /\ seen[t] = "STALE" \/ ~Inflight
  /\ AddTurn("message", t, Merged(carry[t]), seen[t])
  /\ pc' = [pc EXCEPT ![t] = "sending", ![rows + 1] = "prep"]
  /\ UNCHANGED <<redis, phase, pending, active, carry, seen, sent, stop, resume,
                 budget>>

\* The transaction fails: everything popped goes back to the front.
DrainFails(t) ==
  /\ pc[t] = "read"
  /\ budget.fault > 0
  /\ budget' = [budget EXCEPT !.fault = @ - 1]
  /\ pending' = carry[t] \o pending
  /\ carry' = [carry EXCEPT ![t] = <<>>]
  /\ Goto(t, "inbox")
  /\ UNCHANGED <<db, redis, phase, active, starter, seen, sent, stop, resume>>

-----------------------------------------------------------------------------
(* _drain_session_inbox (the claims are the subject of AgentMessages)      *)

InboxEmpty(t) ==
  /\ pc[t] = "inbox"
  /\ inbox = <<>>
  /\ Goto(t, "done")
  /\ Deregister(t)
  /\ UNCHANGED <<db, redis, phase, pending, starter, carry, seen, sent, stop,
                 resume, budget>>

\* Another task is registered: fall back to the pending queue (no size check).
InboxQueued(t) ==
  /\ pc[t] = "inbox"
  /\ inbox # <<>>
  /\ active # t
  /\ pending' = Append(pending, {Head(inbox)})
  /\ inbox' = Tail(inbox)
  /\ UNCHANGED <<db, marker, flag, phase, active, pc, starter, carry, seen,
                 sent, stop, resume, budget>>

\* This task is still the registered one: start a turn for the message.
InboxClaim(t) ==
  /\ pc[t] = "inbox"
  /\ inbox # <<>>
  /\ active = t
  /\ carry' = [carry EXCEPT ![t] = <<{Head(inbox)}>>]
  /\ inbox' = Tail(inbox)
  /\ seen' = [seen EXCEPT ![t] = status]
  /\ Goto(t, "claimed")
  /\ UNCHANGED <<db, marker, flag, phase, pending, active, starter, sent, stop,
                 resume, budget>>

InboxStarts(t) ==
  /\ pc[t] = "claimed"
  /\ AddTurn("fellow", t, Merged(carry[t]), seen[t])
  /\ pc' = [pc EXCEPT ![t] = "injecting", ![rows + 1] = "prep"]
  /\ UNCHANGED <<redis, phase, pending, active, carry, seen, sent, stop, resume,
                 budget>>

InboxFails(t) ==
  /\ pc[t] = "claimed"
  /\ budget.fault > 0
  /\ budget' = [budget EXCEPT !.fault = @ - 1]
  /\ \E m \in Merged(carry[t]) : inbox' = Append(inbox, m)
  /\ carry' = [carry EXCEPT ![t] = <<>>]
  /\ Goto(t, "inbox")
  /\ UNCHANGED <<db, marker, flag, phase, pending, active, starter, seen, sent,
                 stop, resume>>

\* send_agent_message: a session that is over is reopened, although no turn is
\* started, and the id is pushed to its inbox (AgentMessages has what can
\* happen between the two).
PeerSends(m) ==
  /\ phase = "up"
  /\ sent[m] = "idle"
  /\ status' = Reactivated(status)
  /\ inbox' = Append(inbox, m)
  /\ sent' = [sent EXCEPT ![m] = "accepted"]
  /\ UNCHANGED <<rows, origin, body, resp, draft, marker, flag, phase, pending,
                 active, pc, starter, carry, seen, stop, resume, budget>>

-----------------------------------------------------------------------------
(* deliver_subagent_result_to_parent                                       *)

\* Some turn has come far enough to have spawned a background subagent.
Spawned ==
  \E t \in Turn : pc[t] \notin {"none", "prep", "created", "marked", "lost"}

ResultQueued(m) ==
  /\ phase = "up"
  /\ sent[m] = "idle"
  /\ Spawned
  /\ active # 0
  /\ IF Len(pending) < MaxPending
       THEN /\ pending' = Append(pending, {m})
            /\ sent' = [sent EXCEPT ![m] = "accepted"]
       ELSE /\ sent' = [sent EXCEPT ![m] = "dropped"]
            /\ UNCHANGED pending
  /\ UNCHANGED <<db, redis, phase, active, pc, starter, carry, seen, stop,
                 resume, budget>>

\* No task registered: _inject_internal_message, which takes no lock and does
\* not look for a turn in flight.
ResultSeesIdle(m) ==
  /\ phase = "up"
  /\ sent[m] = "idle"
  /\ Spawned
  /\ active = 0
  /\ sent' = [sent EXCEPT ![m] = "inject"]
  /\ UNCHANGED <<db, redis, phase, pending, active, pc, starter, carry, seen,
                 stop, resume, budget>>

ResultStarts(m) ==
  /\ sent[m] = "inject"
  /\ AddTurn("result", 0, {m}, status)
  /\ Goto(rows + 1, "prep")
  /\ sent' = [sent EXCEPT ![m] = "accepted"]
  /\ UNCHANGED <<redis, phase, pending, active, carry, seen, stop, resume,
                 budget>>

-----------------------------------------------------------------------------
(* stop_session                                                            *)

\* Mutant of StopBegin: the queue is not cleared.
StopBeginKeepsQueue ==
  /\ phase = "up"
  /\ stop.pc = "idle"
  /\ budget.stop > 0
  /\ budget' = [budget EXCEPT !.stop = @ - 1]
  /\ Settle(Merged(pending), "discarded")
  /\ stop' = IF Inflight
               THEN [pc |-> "cancel", turn |-> rows, task |-> active]
               ELSE stop
  /\ UNCHANGED <<db, redis, phase, pending, active, pc, starter, carry, seen,
                 resume>>

\* Phase 1, under the row lock: clear the queue, capture turn and task.
StopBegin ==
  /\ phase = "up"
  /\ stop.pc = "idle"
  /\ budget.stop > 0
  /\ budget' = [budget EXCEPT !.stop = @ - 1]
  /\ pending' = <<>>
  /\ Settle(Merged(pending), "discarded")
  /\ stop' = IF Inflight
               THEN [pc |-> "cancel", turn |-> rows, task |-> active]
               ELSE stop
  /\ UNCHANGED <<db, redis, phase, active, pc, starter, carry, seen, resume>>

\* What a cancellation does to a task, by the await it finds it at.
AfterCancel(label) ==
  CASE label = "created" -> "dead"
    [] label \in {"marked", "answered", "persist", "post"} -> "finally"
    [] label = "running" -> "stopping"
    [] label \in {"finally", "stopping", "drain", "popped", "read", "sending",
                  "inbox", "claimed", "injecting"} -> "dead"
    [] OTHER -> label

\* Phase 2: cancel the captured task.  In its runner loop it deletes its
\* draft; in its finally block it dies where it stands, with what its locals
\* hold, and a row it has just committed is left without a task.
StopCancel ==
  LET k == stop.task IN
  /\ stop.pc = "cancel"
  /\ stop' = [stop EXCEPT !.pc = "check"]
  /\ pc' = [u \in Turn |->
              CASE u = k -> AfterCancel(pc[u])
                [] k # 0 /\ starter[u] = k /\ pc[u] = "prep" -> "lost"
                [] OTHER -> pc[u]]
  /\ draft' = [u \in Turn |-> IF u = k /\ pc[u] = "running" THEN "none"
                                                           ELSE draft[u]]
  /\ carry' = [u \in Turn |-> IF u = k THEN <<>> ELSE carry[u]]
  /\ Settle(UNION {Held(u) : u \in {k} \ {0}}, "lost")
  /\ UNCHANGED <<status, rows, origin, body, resp, redis, phase, pending,
                 active, starter, seen, resume, budget>>

\* Mutant of StopCheck: a draft counts as a response of the turn.
StopCheckDrafts ==
  /\ stop.pc = "check"
  /\ stop' = IF resp[stop.turn] # {} \/ draft[stop.turn] # "none"
               THEN NoStop ELSE [stop EXCEPT !.pc = "write"]
  /\ UNCHANGED <<db, redis, phase, pending, active, pc, starter, carry, seen,
                 sent, resume, budget>>

\* Phase 3, without a lock: look for a response, then write [INTERRUPTED].
StopCheck ==
  /\ stop.pc = "check"
  /\ stop' = IF resp[stop.turn] # {} THEN NoStop ELSE [stop EXCEPT !.pc = "write"]
  /\ UNCHANGED <<db, redis, phase, pending, active, pc, starter, carry, seen,
                 sent, resume, budget>>

StopWrite ==
  /\ stop.pc = "write"
  /\ Record(stop.turn, "SYSTEM")
  /\ stop' = NoStop
  /\ UNCHANGED <<rows, origin, body, draft, redis, phase, pending, active, pc,
                 starter, carry, seen, sent, resume, budget>>

-----------------------------------------------------------------------------
(* The process dies and starts again; the auto-stale sweep                 *)

Crash ==
  /\ phase # "down"
  /\ budget.crash > 0
  /\ budget' = [budget EXCEPT !.crash = @ - 1]
  /\ phase' = "down"
  /\ pending' = <<>>
  /\ active' = 0
  /\ pc' = [t \in Turn |-> IF pc[t] \in {"none", "done", "dead"}
                             THEN pc[t] ELSE "lost"]
  /\ carry' = [t \in Turn |-> <<>>]
  /\ LET inMemory == Merged(pending) \cup UNION {Held(t) : t \in Turn} IN
     sent' = [m \in Msg |->
                CASE sent[m] \in Status -> "refused"
                  [] m \in inMemory \/ sent[m] = "inject" -> "lost"
                  [] m \in Results /\ sent[m] = "idle" /\ Spawned -> "lost"
                  [] OTHER -> sent[m]]
  /\ stop' = NoStop
  /\ resume' = "none"
  /\ UNCHANGED <<db, redis, starter, seen>>

\* promote_executor_running_to_resume_pending, first thing at startup.
Promote ==
  /\ phase = "down"
  /\ phase' = "promoted"
  /\ flag' = (flag \/ marker # 0)
  /\ marker' = 0
  /\ UNCHANGED <<db, inbox, pending, active, pc, starter, carry, seen, sent,
                 stop, resume, budget>>

\* The newest message that has not role USER, and what it says of its turn.
Closed(t) == origin[t] = "fellow" \/ draft[t] # "none" \/ resp[t] # {}
LastIsDraft(t) == draft[t] = "late" \/ (draft[t] = "early" /\ resp[t] = {})

\* _recover_stale_sessions looks at an ACTIVE session only.
Interrupted ==
  LET closed == {t \in 1..rows : Closed(t)}
      users  == {t \in 1..rows : origin[t] # "fellow"}
  IN \/ closed = {}
     \/ \E u \in users : \A t \in closed : t < u
     \/ \E t \in closed : (\A u \in closed : u <= t) /\ LastIsDraft(t)

\* Mutant of Recover: sessions whose last turn is over are left alone.
RecoverInterruptedOnly ==
  /\ phase = "promoted"
  /\ phase' = "up"
  /\ IF status = "ACTIVE" /\ Interrupted
       THEN /\ status' = "STALE"
            /\ resume' = IF flag THEN "ready" ELSE "none"
       ELSE UNCHANGED <<status, resume>>
  /\ UNCHANGED <<rows, origin, body, resp, draft, redis, pending, active, pc,
                 starter, carry, seen, sent, stop, budget>>

Recover ==
  /\ phase = "promoted"
  /\ phase' = "up"
  /\ IF status = "ACTIVE"
       THEN /\ status' = IF Interrupted THEN "STALE" ELSE "COMPLETED"
            /\ resume' = IF flag THEN "ready" ELSE "none"
       ELSE UNCHANGED <<status, resume>>
  /\ UNCHANGED <<rows, origin, body, resp, draft, redis, pending, active, pc,
                 starter, carry, seen, sent, stop, budget>>

\* dispatch_resume_turn: take the flag, or leave when there is nothing to say
\* or another turn has taken it ...
ResumeClaim ==
  /\ resume = "ready"
  /\ \/ /\ flag
        /\ flag' = FALSE
        /\ resume' = "claimed"
     \/ /\ resume' = "none"
        /\ UNCHANGED flag
  /\ UNCHANGED <<db, marker, inbox, phase, pending, active, pc, starter, carry,
                 seen, sent, stop, budget>>

\* ... and write the synthetic user row under the row lock.
ResumeStarts ==
  /\ resume = "claimed"
  /\ AddTurn("resume", 0, {}, status)
  /\ Goto(rows + 1, "prep")
  /\ resume' = "none"
  /\ UNCHANGED <<redis, phase, pending, active, carry, seen, sent, stop,
                 budget>>

\* Six hours without a change of the session row; a long turn changes none.
Sweep ==
  /\ phase = "up"
  /\ status = "ACTIVE"
  /\ budget.sweep > 0
  /\ budget' = [budget EXCEPT !.sweep = @ - 1]
  /\ status' = "STALE"
  /\ UNCHANGED <<rows, origin, body, resp, draft, redis, memory>>

-----------------------------------------------------------------------------

ClientSend(m) == ClientQueued(m) \/ ClientRefused(m) \/ ClientStarts(m)

RunTask(t) ==
  \/ TaskStart(t) \/ Guard(t) \/ RunnerReturns(t) \/ TurnFails(t)
  \/ PersistSkipped(t) \/ PersistCheck(t) \/ Persist(t) \/ Notify(t)
  \/ Unmark(t)

DrainPending(t) ==
  DrainPop(t) \/ DrainRead(t) \/ DrainQueued(t) \/ DrainStarts(t)

DrainInbox(t) ==
  InboxEmpty(t) \/ InboxQueued(t) \/ InboxClaim(t) \/ InboxStarts(t)

Fault(t) ==
  PrepareFails(t) \/ TurnFailsUnrecorded(t) \/ PersistFails(t) \/ DrainFails(t)
    \/ InboxFails(t)

Stopping == StopCancel \/ StopCheck \/ StopWrite

Restart == Promote \/ Recover

Resume == ResumeClaim \/ ResumeStarts

Next ==
  \/ \E m \in Clients : ClientRead(m) \/ ClientSend(m)
  \/ \E m \in Results : ResultQueued(m) \/ ResultSeesIdle(m) \/ ResultStarts(m)
  \/ \E m \in Peers : PeerSends(m)
  \/ \E t \in Turn : \/ Dispatch(t) \/ RunTask(t) \/ EagerPersist(t)
                      \/ DrainPending(t) \/ DrainInbox(t) \/ Fault(t)
  \/ StopBegin \/ Stopping
  \/ Crash \/ Restart \/ Resume \/ Sweep

Spec == Init /\ [][Next]_vars

\* The event loop runs every coroutine that is ready, and a runner ends (turn
\* and time limits).  Nothing is assumed of clients, stops, crashes or faults.
Fairness ==
  /\ \A m \in Clients : WF_vars(ClientSend(m))
  /\ \A m \in Results : WF_vars(ResultStarts(m))
  /\ \A t \in Turn : /\ WF_vars(Dispatch(t))
                     /\ WF_vars(RunTask(t))
                     /\ WF_vars(DrainPending(t))
                     /\ WF_vars(DrainInbox(t))
  /\ WF_vars(Stopping)
  /\ WF_vars(Restart)
  /\ WF_vars(Resume)

FairSpec == Spec /\ Fairness

-----------------------------------------------------------------------------
(* Properties                                                              *)

\* Types of the state of session, queues, tasks and handlers.
DbType ==
  /\ status \in Status
  /\ rows \in 0..MaxTurns
  /\ origin \in [Turn -> {"none", "message", "result", "resume", "fellow"}]
  /\ body \in [Turn -> SUBSET Msg]
  /\ resp \in [Turn -> SUBSET {"AGENT", "SYSTEM"}]
  /\ draft \in [Turn -> {"none", "early", "late"}]

QueueType ==
  /\ inbox \in Seq(Msg)
  /\ pending \in Seq(SUBSET Msg)
  /\ carry \in [Turn -> Seq(SUBSET Msg)]

TaskType ==
  /\ phase \in {"down", "promoted", "up"}
  /\ marker \in 0..MaxTurns
  /\ active \in 0..MaxTurns
  /\ pc \in [Turn -> PC]
  /\ starter \in [Turn -> 0..MaxTurns]
  /\ seen \in [Turn -> Status]

SentType ==
  sent \in [Msg -> Status \cup {"idle", "inject", "accepted", "refused",
                                "dropped", "discarded", "lost"}]

HandlerType ==
  /\ flag \in BOOLEAN
  /\ resume \in {"none", "ready", "claimed"}
  /\ stop \in [pc : {"idle", "cancel", "check", "write"},
               turn : 0..MaxTurns, task : 0..MaxTurns]

BudgetType == budget \in [crash : Nat, stop : Nat, sweep : Nat, fault : Nat]

TypeOK ==
  DbType /\ QueueType /\ TaskType /\ SentType /\ HandlerType /\ BudgetType

\* ARCHITECTURE.md, key invariant 1: one active turn per session.  No two
\* turns of the session are in their runner loops at once.
OneActiveTurn ==
  \A t, u \in Turn : pc[t] = "running" /\ pc[u] = "running" => t = u

\* Where an accepted message can be: an entry of the pending queue, the inbox,
\* the locals of a drain, an inbound row.
Places(m) ==
  ({"queue"} \X {i \in DOMAIN pending : m \in pending[i]})
    \cup ({"inbox"} \X {i \in DOMAIN inbox : inbox[i] = m})
    \cup ({"drain"} \X {t \in Turn : m \in Held(t)})
    \cup ({"row"} \X {t \in Turn : m \in body[t]})

\* Every accepted message is in exactly one place: the hand-overs between
\* handler, queue, drain and row neither lose nor duplicate one.  Once a write
\* has failed, a drain may have put back what is in a row already (it can not
\* tell), and what is left is that nothing accepted disappears.
ExactlyOnePlace ==
  \A m \in Msg : sent[m] = "accepted" =>
    \E place \in Places(m) : budget.fault = MaxFaults => Places(m) = {place}

\* A running turn is the registered task, so stop_session can cancel it and
\* subagent results see the session busy.
RunningIsRegistered == \A t \in Turn : pc[t] = "running" => active = t

\* As long as no write has failed, the status is not left ACTIVE when no turn
\* is being worked on, no stop_session is about to close one and no message of
\* a peer that has reopened the session is on its way to one.
Working == {"prep", "created", "marked", "running", "answered", "persist"}

PeerWaits ==
  \E m \in Peers : \E place \in Places(m) : place[1] # "row"

ActiveHasTurn ==
  phase = "up" /\ status = "ACTIVE" /\ rows > 0 /\ budget.fault = MaxFaults =>
    stop.pc # "idle" \/ PeerWaits \/ \E t \in Turn : pc[t] \in Working

\* A turn in flight has a task, or a stop_session that will close it, or the
\* session is STALE and the next message starts afresh.  Otherwise every
\* later message is queued behind a turn that nobody will finish.
InflightIsAttended ==
  phase = "up" /\ Inflight =>
    \/ status = "STALE"
    \/ \E t \in Turn : pc[t] \in Working
    \/ stop.pc # "idle"

\* Whatever was accepted is eventually part of a turn that has an outcome.
EventuallyAnswered ==
  \A m \in Msg :
    sent[m] = "accepted" ~>
      \/ sent[m] # "accepted"
      \/ \E t \in Turn : m \in body[t] /\ resp[t] # {}

\* Handlers, queues, drains, stops and restarts together keep the promise of
\* SessionLog: a message is told to one turn, and to none once its sender hears
\* that it is refused or a stop discards it; no outcome is taken back.
Fate(m) ==
  CASE sent[m] = "accepted"                -> "accepted"
    [] sent[m] \in {"refused", "dropped"}  -> "refused"
    [] sent[m] \in {"discarded", "lost"}   -> "gone"
    [] OTHER                               -> "open"

Log == INSTANCE SessionLog WITH
  fate <- [m \in Msg |-> Fate(m)], turns <- rows, told <- body, outcome <- resp,
  spoilt <- budget.fault < MaxFaults

LogKept == Log!Spec

\* The turn that stop_session captured is eventually closed.
StopCloses ==
  \A t \in Turn :
    (stop.pc # "idle" /\ stop.turn = t) ~> (resp[t] # {} \/ phase = "down")

=============================================================================
