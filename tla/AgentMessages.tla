--------------------------- MODULE AgentMessages ---------------------------
(***************************************************************************)
(* Agent-to-agent messages: the rows of agent_messages, the two Redis      *)
(* lists that carry their ids, the listener that creates a session for a   *)
(* message (scenario A), the drain that injects a message into an existing *)
(* session at the end of its turn (scenario B), and the recovery at        *)
(* startup.  One target session is enough for scenario B: inboxes are kept *)
(* per session and share nothing.                                          *)
(*                                                                         *)
(* A step is one transaction or one Redis call.  Every write that leaves   *)
(* DELIVERING is an UPDATE with a WHERE clause, so reading and writing the *)
(* row are one step.  claimed_at is the number of the attempt that set it: *)
(* two claims of a message never have the same attempt_count.              *)
(***************************************************************************)
EXTENDS Integers, Sequences, FiniteSets, SequencesExt

CONSTANTS
  NewSession,    \* messages without to_session_id (scenario A)
  Inject,        \* messages to one existing session (scenario B)
  MaxAttempts,   \* agent_messages.max_attempts
  MaxConcurrent, \* _MAX_CONCURRENT_DELIVERIES
  MaxTasks,      \* bound: delivery tasks alive at once
  MaxCrashes,    \* bound: how often the process dies
  MaxStops,      \* bound: how often stop_session cancels a turn that drains
  MaxFaults      \* bound: failing transactions and Redis calls

ASSUME KindsAssumption ==
  NewSession \cap Inject = {} /\ IsFiniteSet(NewSession \cup Inject)

ASSUME BoundsAssumption ==
  /\ MaxAttempts \in Nat \ {0}
  /\ MaxConcurrent \in Nat \ {0}
  /\ MaxTasks \in Nat \ {0}
  /\ MaxCrashes \in Nat
  /\ MaxStops \in Nat
  /\ MaxFaults \in Nat

Msg  == NewSession \cup Inject
Task == 1..MaxTasks

MessageStatus == {"none", "QUEUED", "DELIVERING", "DELIVERED", "FAILED"}

\* A delivery task: waiting for the semaphore, then inside _do_deliver.
Holding == {"claimed", "created", "recorded", "failed"}
TaskPC  == {"free", "waiting", "released"} \cup Holding

\* _drain_session_inbox: between turns, before LPOP, before and after a claim.
DrainPC == {"off", "popping", "popped", "claimed"}

VARIABLES
  status,    \* agent_messages.status; "none" before the row is committed
  attempts,  \* attempt_count
  lease,     \* claimed_at: the attempt that holds the row, 0 for NULL
  resolved,  \* resolved_session_id IS NOT NULL
  dispatch,  \* a2a_dispatch
  inbox,     \* session_inbox of the one target session
  sending,   \* messages whose sender is between commit and RPUSH
  tasks,     \* the delivery tasks of the listener
  drain,     \* the drain in progress
  phase,     \* "down", "started", "finalized", "reset", "up"
  \* history
  made,      \* sessions created, or injections made, for a message
  dropped,   \* ids the process gave up to push, or lost in a drain that was
             \* stopped: left to the next startup
  budget

rows  == <<status, attempts, lease, resolved>>
lists == <<dispatch, inbox>>
vars  == <<rows, lists, sending, tasks, drain, phase, made, dropped, budget>>

NoMsg == "none"
Free  == [pc |-> "free", msg |-> NoMsg, attempt |-> 0]
Off   == [pc |-> "off", msg |-> NoMsg, attempt |-> 0]

Init ==
  /\ status = [m \in Msg |-> "none"]
  /\ attempts = [m \in Msg |-> 0]
  /\ lease = [m \in Msg |-> 0]
  /\ resolved = [m \in Msg |-> FALSE]
  /\ dispatch = <<>>
  /\ inbox = <<>>
  /\ sending = {}
  /\ tasks = [k \in Task |-> Free]
  /\ drain = Off
  /\ phase = "up"
  /\ made = [m \in Msg |-> 0]
  /\ dropped = {}
  /\ budget = [crash |-> MaxCrashes, stop |-> MaxStops, fault |-> MaxFaults]

-----------------------------------------------------------------------------
(* Helpers                                                                 *)

Fault == budget.fault > 0 /\ budget' = [budget EXCEPT !.fault = @ - 1]

\* Mutant of Push: the key does not depend on the target.
PushToInbox(m) == inbox' = Append(inbox, m) /\ UNCHANGED dispatch

\* RPUSH of one id to the list its message belongs to.
Push(m) ==
  /\ dispatch' = IF m \in NewSession THEN Append(dispatch, m) ELSE dispatch
  /\ inbox' = IF m \in Inject THEN Append(inbox, m) ELSE inbox

\* Mutant of Claimable: the last attempt is never claimed.
ClaimableOneLess(m) == status[m] = "QUEUED" /\ attempts[m] + 1 < MaxAttempts

Claimable(m) == status[m] = "QUEUED" /\ attempts[m] < MaxAttempts

\* Mutant of ClaimRow: the WHERE clause does not ask for QUEUED.
ClaimRowAny(m) ==
  /\ status[m] # "none" /\ attempts[m] < MaxAttempts
  /\ status' = [status EXCEPT ![m] = "DELIVERING"]
  /\ attempts' = [attempts EXCEPT ![m] = @ + 1]
  /\ lease' = [lease EXCEPT ![m] = attempts[m] + 1]
  /\ UNCHANGED resolved

\* Mutant of ClaimRow: the attempt is not counted.
ClaimRowUncounted(m) ==
  /\ Claimable(m)
  /\ status' = [status EXCEPT ![m] = "DELIVERING"]
  /\ lease' = [lease EXCEPT ![m] = attempts[m] + 1]
  /\ UNCHANGED <<attempts, resolved>>

\* The claim: UPDATE ... WHERE status = 'QUEUED' AND attempt_count < max.
ClaimRow(m) ==
  /\ Claimable(m)
  /\ status' = [status EXCEPT ![m] = "DELIVERING"]
  /\ attempts' = [attempts EXCEPT ![m] = @ + 1]
  /\ lease' = [lease EXCEPT ![m] = attempts[m] + 1]
  /\ UNCHANGED resolved

\* The ownership guard of every later write: AND claimed_at = :claimed_at.
Owns(m, attempt) == status[m] = "DELIVERING" /\ lease[m] = attempt

\* Status of a message that goes back for another attempt, if one is left.
Retry(m) == IF attempts[m] >= MaxAttempts THEN "FAILED" ELSE "QUEUED"

Advance(k, pc) == tasks' = [tasks EXCEPT ![k].pc = pc]
Finish(k)      == tasks' = [tasks EXCEPT ![k] = Free]

-----------------------------------------------------------------------------
(* send_agent_message, also by a turn resumed before the recovery is done  *)

SendRow(m) ==
  /\ phase # "down"
  /\ status[m] = "none"
  /\ status' = [status EXCEPT ![m] = "QUEUED"]
  /\ sending' = sending \cup {m}
  /\ UNCHANGED <<attempts, lease, resolved, lists, tasks, drain, phase, made,
                 dropped, budget>>

SendPush(m) ==
  /\ m \in sending
  /\ Push(m)
  /\ sending' = sending \ {m}
  /\ UNCHANGED <<rows, tasks, drain, phase, made, dropped, budget>>

\* The push is best effort; the row stays QUEUED.
SendPushFails(m) ==
  /\ m \in sending
  /\ Fault
  /\ sending' = sending \ {m}
  /\ dropped' = dropped \cup {m}
  /\ UNCHANGED <<rows, lists, tasks, drain, phase, made>>

-----------------------------------------------------------------------------
(* listen_new_session_messages and _do_deliver                             *)

\* BLPOP, and a task for the id.
Listen(k) ==
  /\ phase = "up"
  /\ dispatch # <<>>
  /\ tasks[k] = Free
  /\ \A j \in 1..(k - 1) : tasks[j] # Free
  /\ tasks' = [tasks EXCEPT ![k] =
                 [pc |-> "waiting", msg |-> Head(dispatch), attempt |-> 0]]
  /\ dispatch' = Tail(dispatch)
  /\ UNCHANGED <<rows, inbox, sending, drain, phase, made, dropped, budget>>

\* _delivery_semaphore has a permit.  A task keeps it until it ends.
Permit ==
  Cardinality({k \in Task : tasks[k].pc \in Holding \cup {"released"}})
    < MaxConcurrent

Claim(k) ==
  /\ tasks[k].pc = "waiting"
  /\ Permit
  /\ ClaimRow(tasks[k].msg)
  /\ tasks' = [tasks EXCEPT ![k].pc = "claimed",
                            ![k].attempt = attempts[tasks[k].msg] + 1]
  /\ UNCHANGED <<lists, sending, drain, phase, made, dropped, budget>>

\* Claimed by another task, settled, or out of attempts.
ClaimNothing(k) ==
  /\ tasks[k].pc = "waiting"
  /\ Permit
  /\ ~Claimable(tasks[k].msg)
  /\ Finish(k)
  /\ UNCHANGED <<rows, lists, sending, drain, phase, made, dropped, budget>>

\* The claim raises: nothing catches it, the task dies with the id.
ClaimFails(k) ==
  /\ tasks[k].pc = "waiting"
  /\ Permit
  /\ Fault
  /\ Finish(k)
  /\ dropped' = dropped \cup {tasks[k].msg}
  /\ UNCHANGED <<rows, lists, sending, drain, phase, made>>

CreateSession(k) ==
  /\ tasks[k].pc = "claimed"
  /\ made' = [made EXCEPT ![tasks[k].msg] = @ + 1]
  /\ Advance(k, "created")
  /\ UNCHANGED <<rows, lists, sending, drain, phase, dropped, budget>>

\* No such agent, or create_session raises, perhaps after it has committed
\* the session.
CreateSessionFails(k) ==
  /\ tasks[k].pc = "claimed"
  /\ \E n \in {0, 1} : made' = [made EXCEPT ![tasks[k].msg] = @ + n]
  /\ Advance(k, "failed")
  /\ UNCHANGED <<rows, lists, sending, drain, phase, dropped, budget>>

\* Mutant of RecordSession: phase A is skipped.
RecordSessionSkipped(k) ==
  /\ tasks[k].pc = "created"
  /\ Advance(k, "recorded")
  /\ UNCHANGED <<rows, lists, sending, drain, phase, made, dropped, budget>>

\* Phase A.
RecordSession(k) ==
  /\ tasks[k].pc = "created"
  /\ resolved' = [resolved EXCEPT ![tasks[k].msg] =
                    @ \/ Owns(tasks[k].msg, tasks[k].attempt)]
  /\ Advance(k, "recorded")
  /\ UNCHANGED <<status, attempts, lease, lists, sending, drain, phase, made,
                 dropped, budget>>

\* Phase B.
MarkDelivered(k) ==
  /\ tasks[k].pc = "recorded"
  /\ LET m == tasks[k].msg
     IN  status' = [status EXCEPT ![m] =
                      IF Owns(m, tasks[k].attempt) THEN "DELIVERED" ELSE @]
  /\ Finish(k)
  /\ UNCHANGED <<attempts, lease, resolved, lists, sending, drain, phase, made,
                 dropped, budget>>

\* Mutant of LeftDelivering: a failing phase B takes the failure path.
LeftDeliveringReleased(k) ==
  /\ tasks[k].pc \in {"created", "recorded"}
  /\ Fault
  /\ Advance(k, "failed")
  /\ UNCHANGED <<rows, lists, sending, drain, phase, made, dropped>>

\* Phase A or phase B fails: the row is left DELIVERING for the next startup.
LeftDelivering(k) ==
  /\ tasks[k].pc \in {"created", "recorded"}
  /\ Fault
  /\ Finish(k)
  /\ UNCHANGED <<rows, lists, sending, drain, phase, made, dropped>>

\* The failure path: release the claim; the local counts decide on the push.
Release(k) ==
  /\ tasks[k].pc = "failed"
  /\ LET m    == tasks[k].msg
         mine == Owns(m, tasks[k].attempt)
     IN  /\ status' = [status EXCEPT ![m] = IF mine THEN Retry(m) ELSE @]
         /\ lease' = [lease EXCEPT ![m] = IF mine THEN 0 ELSE @]
  /\ IF tasks[k].attempt < MaxAttempts THEN Advance(k, "released")
                                       ELSE Finish(k)
  /\ UNCHANGED <<attempts, resolved, lists, sending, drain, phase, made,
                 dropped, budget>>

ReleaseFails(k) ==
  /\ tasks[k].pc = "failed"
  /\ Fault
  /\ Finish(k)
  /\ UNCHANGED <<rows, lists, sending, drain, phase, made, dropped>>

\* Mutant of Requeue: the id is not pushed again.
RequeueForgotten(k) ==
  /\ tasks[k].pc = "released"
  /\ Finish(k)
  /\ UNCHANGED <<rows, lists, sending, drain, phase, made, dropped, budget>>

Requeue(k) ==
  /\ tasks[k].pc = "released"
  /\ Push(tasks[k].msg)
  /\ Finish(k)
  /\ UNCHANGED <<rows, sending, drain, phase, made, dropped, budget>>

RequeueFails(k) ==
  /\ tasks[k].pc = "released"
  /\ Fault
  /\ Finish(k)
  /\ dropped' = dropped \cup {tasks[k].msg}
  /\ UNCHANGED <<rows, lists, sending, drain, phase, made>>

-----------------------------------------------------------------------------
(* _drain_session_inbox, at the end of a turn of the target session        *)

DrainStart ==
  /\ phase # "down"
  /\ drain = Off
  /\ drain' = [Off EXCEPT !.pc = "popping"]
  /\ UNCHANGED <<rows, lists, sending, tasks, phase, made, dropped, budget>>

DrainPop ==
  /\ drain.pc = "popping"
  /\ inbox # <<>>
  /\ drain' = [pc |-> "popped", msg |-> Head(inbox), attempt |-> 0]
  /\ inbox' = Tail(inbox)
  /\ UNCHANGED <<rows, dispatch, sending, tasks, phase, made, dropped, budget>>

DrainEmpty ==
  /\ drain.pc = "popping"
  /\ inbox = <<>>
  /\ drain' = Off
  /\ UNCHANGED <<rows, lists, sending, tasks, phase, made, dropped, budget>>

DrainClaim ==
  /\ drain.pc = "popped"
  /\ ClaimRow(drain.msg)
  /\ drain' = [drain EXCEPT !.pc = "claimed",
                            !.attempt = attempts[drain.msg] + 1]
  /\ UNCHANGED <<lists, sending, tasks, phase, made, dropped, budget>>

DrainClaimNothing ==
  /\ drain.pc = "popped"
  /\ ~Claimable(drain.msg)
  /\ drain' = [Off EXCEPT !.pc = "popping"]
  /\ UNCHANGED <<rows, lists, sending, tasks, phase, made, dropped, budget>>

\* The claim raises: the id goes back to the inbox, or is lost with Redis.
DrainClaimFails ==
  /\ drain.pc = "popped"
  /\ Fault
  /\ \/ Push(drain.msg) /\ UNCHANGED dropped
     \/ dropped' = dropped \cup {drain.msg} /\ UNCHANGED lists
  /\ drain' = [Off EXCEPT !.pc = "popping"]
  /\ UNCHANGED <<rows, sending, tasks, phase, made>>

\* Row FELLOW_AGENT and DELIVERED in one commit; then the drain ends with the
\* turn it has started, or goes on when another turn was running.
DrainDelivers ==
  /\ drain.pc = "claimed"
  /\ status' = [status EXCEPT ![drain.msg] = "DELIVERED"]
  /\ resolved' = [resolved EXCEPT ![drain.msg] = TRUE]
  /\ made' = [made EXCEPT ![drain.msg] = @ + 1]
  /\ drain' \in {Off, [Off EXCEPT !.pc = "popping"]}
  /\ UNCHANGED <<attempts, lease, lists, sending, tasks, phase, dropped, budget>>

\* The delivery raises; with a turn running, the message is in
\* _pending_messages by then.  The row is reset without the ownership guard.
DrainReset ==
  /\ drain.pc = "claimed"
  /\ \E n \in {0, 1} : made' = [made EXCEPT ![drain.msg] = @ + n]
  /\ status' = [status EXCEPT ![drain.msg] = Retry(drain.msg)]
  /\ lease' = [lease EXCEPT ![drain.msg] = 0]
  /\ UNCHANGED <<attempts, resolved, sending, tasks, phase>>

DrainFails ==
  /\ DrainReset
  /\ drain' = [Off EXCEPT !.pc = "popping"]
  /\ IF drain.attempt < MaxAttempts THEN Push(drain.msg) ELSE UNCHANGED lists
  /\ UNCHANGED <<dropped, budget>>

\* The reset is committed, the push is not.
DrainPushFails ==
  /\ DrainReset
  /\ drain' = [Off EXCEPT !.pc = "popping"]
  /\ Fault
  /\ drain.attempt < MaxAttempts
  /\ dropped' = dropped \cup {drain.msg}
  /\ UNCHANGED lists

\* The reset itself fails: the row stays DELIVERING.
DrainResetFails ==
  /\ drain.pc = "claimed"
  /\ Fault
  /\ \E n \in {0, 1} : made' = [made EXCEPT ![drain.msg] = @ + n]
  /\ drain' = [Off EXCEPT !.pc = "popping"]
  /\ UNCHANGED <<rows, lists, sending, tasks, phase, dropped>>

\* stop_session cancels the turn that drains.  CancelledError is no Exception:
\* what the drain has in hand is neither pushed again nor reset, and the call
\* it waits for may have taken effect.
DrainEnds ==
  /\ budget.stop > 0
  /\ budget' = [budget EXCEPT !.stop = @ - 1]
  /\ drain' = Off

\* At LPOP.
DrainPopStopped ==
  /\ drain.pc = "popping"
  /\ DrainEnds
  /\ \/ UNCHANGED <<inbox, dropped>>
     \/ /\ inbox # <<>>
        /\ inbox' = Tail(inbox)
        /\ dropped' = dropped \cup {Head(inbox)}
  /\ UNCHANGED <<rows, dispatch, sending, tasks, phase, made>>

\* At the claim: the id is lost, or the row is left DELIVERING.
DrainClaimStopped ==
  /\ drain.pc = "popped"
  /\ DrainEnds
  /\ \/ dropped' = dropped \cup {drain.msg} /\ UNCHANGED rows
     \/ ClaimRow(drain.msg) /\ UNCHANGED dropped
  /\ UNCHANGED <<lists, sending, tasks, phase, made>>

\* At the delivery, which leaves the row DELIVERING, or, when that has raised,
\* between the reset and the push.
DrainDeliveryStopped ==
  /\ drain.pc = "claimed"
  /\ DrainEnds
  /\ \/ /\ \E n \in {0, 1} : made' = [made EXCEPT ![drain.msg] = @ + n]
        /\ UNCHANGED <<rows, sending, tasks, phase, dropped>>
     \/ DrainReset /\ dropped' = dropped \cup {drain.msg}
  /\ UNCHANGED lists

-----------------------------------------------------------------------------
(* Death of the process, and recover_agent_messages at its next startup    *)

\* Redis may lose its lists with the process, or keep them.
Crash ==
  /\ budget.crash > 0
  /\ budget' = [budget EXCEPT !.crash = @ - 1]
  /\ phase' = "down"
  /\ tasks' = [k \in Task |-> Free]
  /\ drain' = Off
  /\ sending' = {}
  /\ \/ UNCHANGED lists
     \/ dispatch' = <<>> /\ inbox' = <<>>
  /\ UNCHANGED <<rows, made, dropped>>

\* From here on turns resumed earlier in startup may drain the inbox.
Start ==
  /\ phase = "down"
  /\ phase' = "started"
  /\ UNCHANGED <<rows, lists, sending, tasks, drain, made, dropped, budget>>

\* Step 1a: the session was recorded, only phase B is missing.
Finalize ==
  /\ phase = "started"
  /\ phase' = "finalized"
  /\ LET done == {m \in Msg : status[m] = "DELIVERING" /\ resolved[m]}
     IN  /\ status' = [m \in Msg |->
                         IF m \in done THEN "DELIVERED" ELSE status[m]]
         /\ lease' = [m \in Msg |-> IF m \in done THEN 0 ELSE lease[m]]
  /\ UNCHANGED <<attempts, resolved, lists, sending, tasks, drain, made,
                 dropped, budget>>

\* Step 1b: leases older than five minutes.  Which are that old is open, but
\* one taken since this startup is not.
ResetStale ==
  /\ phase = "finalized"
  /\ phase' = "reset"
  /\ \E stale \in SUBSET {m \in Msg : /\ status[m] = "DELIVERING"
                                      /\ ~resolved[m]
                                      /\ ~(drain.pc = "claimed" /\ drain.msg = m)} :
       /\ status' = [m \in Msg |-> IF m \in stale THEN Retry(m) ELSE status[m]]
       /\ lease' = [m \in Msg |-> IF m \in stale THEN 0 ELSE lease[m]]
  /\ UNCHANGED <<attempts, resolved, lists, sending, tasks, drain, made,
                 dropped, budget>>

\* Step 2: push every QUEUED id, whether a list still has it or not.
RequeueAll ==
  /\ phase = "reset"
  /\ phase' = "up"
  /\ LET queued == {m \in Msg : status[m] = "QUEUED"}
     IN  /\ dispatch' = dispatch \o SetToSeq(queued \cap NewSession)
         /\ inbox' = inbox \o SetToSeq(queued \cap Inject)
  /\ dropped' = {}
  /\ UNCHANGED <<rows, sending, tasks, drain, made, budget>>

\* Any exception ends the recovery, and startup goes on.
RecoveryFails ==
  /\ phase \in {"started", "finalized", "reset"}
  /\ Fault
  /\ phase' = "up"
  /\ dropped' = {m \in Msg : status[m] = "QUEUED"}
  /\ UNCHANGED <<rows, lists, sending, tasks, drain, made>>

-----------------------------------------------------------------------------
TaskStep(k) ==
  \/ Claim(k) \/ ClaimNothing(k) \/ CreateSession(k) \/ RecordSession(k)
  \/ MarkDelivered(k) \/ Release(k) \/ Requeue(k)

TaskFails(k) ==
  \/ ClaimFails(k) \/ CreateSessionFails(k) \/ LeftDelivering(k)
  \/ ReleaseFails(k) \/ RequeueFails(k)

DrainStep == DrainPop \/ DrainEmpty \/ DrainClaim \/ DrainClaimNothing
               \/ DrainDelivers

Startup == Start \/ Finalize \/ ResetStale \/ RequeueAll

Next ==
  \/ \E m \in Msg : SendRow(m) \/ SendPush(m) \/ SendPushFails(m)
  \/ \E k \in Task : Listen(k) \/ TaskStep(k) \/ TaskFails(k)
  \/ DrainStart \/ DrainStep
  \/ DrainClaimFails \/ DrainFails \/ DrainPushFails \/ DrainResetFails
  \/ DrainPopStopped \/ DrainClaimStopped \/ DrainDeliveryStopped
  \/ Crash \/ Startup \/ RecoveryFails

Spec == Init /\ [][Next]_vars

\* The event loop runs the sender's push, the listener, every delivery task
\* and the startup; no turn of the target session is assumed to end.
Fairness ==
  /\ \A m \in Msg : WF_vars(SendPush(m))
  /\ \A k \in Task : WF_vars(Listen(k)) /\ WF_vars(TaskStep(k))
  /\ WF_vars(Startup)

FairSpec == Spec /\ Fairness

-----------------------------------------------------------------------------
(* Properties                                                              *)

\* Types of the rows, the lists, the workers and the history.
RowsType ==
  /\ status \in [Msg -> MessageStatus]
  /\ attempts \in [Msg -> 0..MaxAttempts]
  /\ lease \in [Msg -> 0..MaxAttempts]
  /\ resolved \in [Msg -> BOOLEAN]

ListsType == dispatch \in Seq(NewSession) /\ inbox \in Seq(Inject)

WorkersType ==
  /\ sending \subseteq Msg
  /\ tasks \in [Task -> [pc: TaskPC, msg: NewSession \cup {NoMsg},
                         attempt: 0..MaxAttempts]]
  /\ drain \in [pc: DrainPC, msg: Inject \cup {NoMsg}, attempt: 0..MaxAttempts]
  /\ phase \in {"down", "started", "finalized", "reset", "up"}

HistoryType ==
  /\ made \in [Msg -> Nat]
  /\ dropped \subseteq Msg
  /\ budget \in [crash: 0..MaxCrashes, stop: 0..MaxStops, fault: 0..MaxFaults]

TypeOK == RowsType /\ ListsType /\ WorkersType /\ HistoryType

\* Whoever works on a message holds its lease, so no two of them work on the
\* same one: the claim and the resets never give a held row away.
LeaseHeld ==
  /\ \A k \in Task :
       tasks[k].pc \in Holding => Owns(tasks[k].msg, tasks[k].attempt)
  /\ drain.pc = "claimed" => Owns(drain.msg, drain.attempt)

\* At most one session (or injection) per attempt, whatever fails or dies.
OncePerAttempt ==
  \A m \in Msg : made[m] <= attempts[m] /\ attempts[m] <= MaxAttempts

\* A message is reported DELIVERED only when a session has it, and FAILED only
\* when its attempts are used up and no session is recorded for it.
VerdictIsTrue ==
  \A m \in Msg :
    /\ status[m] = "DELIVERED" => resolved[m] /\ made[m] > 0
    /\ status[m] = "FAILED" => attempts[m] = MaxAttempts /\ ~resolved[m]

\* A QUEUED message is on its way: its id is in a list or in the hands of a
\* sender, a task or the drain, unless a push of it failed or a stop cancelled
\* the drain that had it, which is what the next startup repairs.
OnItsWay ==
  ToSet(dispatch) \cup ToSet(inbox) \cup sending
    \cup {tasks[k].msg : k \in {j \in Task :
                                  tasks[j].pc \in {"waiting", "released"}}}
    \cup (IF drain.pc = "popped" THEN {drain.msg} ELSE {})

QueuedIsReachable ==
  phase = "up" =>
    \A m \in Msg : status[m] = "QUEUED" => m \in OnItsWay \cup dropped

\* Once a session is recorded for a message, no other is created: recovery
\* finalizes such a message and never delivers it again.
NoSecondSession == [][\A m \in Msg : resolved[m] => made'[m] = made[m]]_vars

\* A message for a new session is delivered or given up, as long as nothing
\* fails and the process lives.
Settled(m) == status[m] \in {"DELIVERED", "FAILED"}

Failure == budget.crash < MaxCrashes \/ budget.fault < MaxFaults

SettledUnlessFailure ==
  \A m \in NewSession : status[m] = "QUEUED" ~> Settled(m) \/ Failure

\* Claims, deliveries, releases, drains and recovery together keep the promise
\* of MessageFate: in particular no verdict is taken back, although the drain
\* resets and marks its row without looking at it.
Fate == INSTANCE MessageFate WITH tries <- attempts, recorded <- resolved

FateKept == Fate!Spec
=============================================================================
