------------------------------ MODULE Schedules ------------------------------
(***************************************************************************)
(* One agent schedule: the poll that lists it when it is due, the claim    *)
(* that creates a run, the completion of the run, the recovery of a        *)
(* schedule that is stale, and what people do to it.                       *)
(*                                                                         *)
(* A step is one transaction, except where the code reads a row without a  *)
(* lock and writes it later: the completion of a run and the console.  The *)
(* unit of time is the distance of two cron times; any schedule that is    *)
(* IN PROGRESS may have been for longer than the stale timeout.            *)
(***************************************************************************)
EXTENDS Integers, FiniteSets

CONSTANTS
  Limits,       \* values of max_runs, 0 for none
  MaxTime,      \* bound: cron times that pass
  MaxRuns,      \* bound: runs of the schedule
  MaxWorkers,   \* bound: executions alive at once
  MaxConsoles,  \* bound: console calls alive at once
  MaxHuman,     \* bound: calls by people
  MaxDelays,    \* bound: recoveries while somebody works on the run
  MaxFaults     \* bound: failing calls, crashes

ASSUME LimitsAssumption == Limits \subseteq Nat

ASSUME BoundsAssumption ==
  /\ MaxTime \in Nat /\ MaxRuns \in Nat /\ MaxWorkers \in Nat
  /\ MaxConsoles \in Nat
  /\ MaxHuman \in Nat /\ MaxDelays \in Nat /\ MaxFaults \in Nat

Run     == 1..MaxRuns
Worker  == 1..MaxWorkers
Console == 1..MaxConsoles
Time    == 0..MaxTime

Over   == {"COMPLETED", "FAILED", "CANCELLED"}
Status == {"PENDING", "IN_PROGRESS", "PAUSED"} \cup Over

VARIABLES
  kind,      \* schedule_type
  row,       \* columns status, next_run_at, run_count and max_runs
  runs,      \* status of each run, NONE before it is created
  now,       \* cron times that have passed
  workers,   \* calls of execute_agent_schedule and trigger_agent_schedule_now
  consoles,  \* calls of cancel_schedule and update_schedule_status
  \* history
  period,    \* when a run was claimed, 0 if it was triggered
  upset,     \* late: recovered under a worker; console: a status overwritten;
             \* limit: max_runs lowered to what has run; early: claimed undue
  budget

vars == <<kind, row, runs, now, workers, consoles, period, upset, budget>>

NoRow == [status |-> "PENDING", next |-> 0, count |-> 0, limit |-> 0]
Free  == [pc |-> "free", run |-> 0, ok |-> FALSE, seen |-> NoRow]
Away  == [pc |-> "away", want |-> "PENDING", seen |-> NoRow]

\* create_agent_schedule has stored the schedule; its first time is ahead.
Init ==
  /\ kind \in {"SCHEDULED", "RECURRING"}
  /\ row \in [status: {"PENDING"}, next: {1}, count: {0}, limit: Limits \cup {0}]
  /\ kind = "SCHEDULED" => row.limit = 0
  /\ runs = [r \in Run |-> "NONE"]
  /\ now = 0
  /\ workers = [w \in Worker |-> Free]
  /\ consoles = [c \in Console |-> Away]
  /\ period = [r \in Run |-> 0]
  /\ upset = {}
  /\ budget = [human |-> MaxHuman, delay |-> MaxDelays, fault |-> MaxFaults]

-----------------------------------------------------------------------------
(* Helpers                                                                 *)

Spend(what) ==
  /\ budget[what] > 0
  /\ budget' = [budget EXCEPT ![what] = @ - 1]
Fault == Spend("fault")
Human == Spend("human")

Upset(what, happens) == upset' = upset \cup IF happens THEN {what} ELSE {}

\* The ORM writes the columns that differ from what was read, and only those.
Flush(seen, new) ==
  LET Column(old, mine, theirs) == IF mine = old THEN theirs ELSE mine
  IN  row' = [status |-> Column(seen.status, new.status, row.status),
              next   |-> Column(seen.next, new.next, row.next),
              count  |-> Column(seen.count, new.count, row.count),
              limit  |-> Column(seen.limit, new.limit, row.limit)]

\* get_due_agent_schedules.
Due == row.status = "PENDING" /\ row.next <= now

Limited(limit, count) == limit # 0 /\ count >= limit

Working  == {w \in Worker : workers[w].pc \in {"work", "retry", "read"}}
Running  == {r \in Run : runs[r] = "IN_PROGRESS"}
Finished == {r \in Run : runs[r] \in {"COMPLETED", "FAILED"}}
Begun    == Running \cup Finished

FirstFree(w) ==
  workers[w].pc = "free" /\ \A v \in 1..(w - 1) : workers[v].pc # "free"

Become(w, worker) == workers' = [workers EXCEPT ![w] = worker]

\* The next number: MAX(run_number) + 1.
NextNumber(r) == runs[r] = "NONE" /\ \A q \in 1..(r - 1) : runs[q] # "NONE"

\* What a claim and a trigger do: run r is created, the schedule is IN_PROGRESS.
Begin(w, r) ==
  /\ NextNumber(r)
  /\ runs' = [runs EXCEPT ![r] = "IN_PROGRESS"]
  /\ row' = [row EXCEPT !.status = "IN_PROGRESS"]
  /\ Become(w, [Free EXCEPT !.pc = "work", !.run = r])

-----------------------------------------------------------------------------
(* poll_and_execute_due_schedules, execute_agent_schedule                  *)

Poll(w) ==
  /\ Due /\ FirstFree(w)
  /\ Become(w, [Free EXCEPT !.pc = "listed"])
  /\ UNCHANGED <<kind, row, runs, now, consoles, period, upset, budget>>

\* A mutant: whoever is listed gets a run.
ClaimListed(w) ==
  /\ workers[w].pc = "listed"
  /\ \E r \in Run :
       Begin(w, r) /\ period' = [period EXCEPT ![r] = now]
  /\ Upset("early", row.next > now)
  /\ UNCHANGED <<kind, now, consoles, budget>>

\* claim_agent_schedule: the status is looked at again, next_run_at is not.
Claim(w) ==
  /\ workers[w].pc = "listed"
  /\ row.status = "PENDING"
  /\ \E r \in Run :
       Begin(w, r) /\ period' = [period EXCEPT ![r] = now]
  /\ Upset("early", row.next > now)
  /\ UNCHANGED <<kind, now, consoles, budget>>

ClaimNothing(w) ==
  /\ workers[w].pc = "listed"
  /\ row.status # "PENDING"
  /\ Become(w, Free)
  /\ UNCHANGED <<kind, row, runs, now, consoles, period, upset, budget>>

\* The claim raises, or another transaction has locked the row.
ClaimFails(w) ==
  /\ workers[w].pc = "listed"
  /\ Fault
  /\ Become(w, Free)
  /\ UNCHANGED <<kind, row, runs, now, consoles, period, upset>>

\* A mutant: only a schedule that runs already is refused.
TriggerAnyTime(w) ==
  /\ Human
  /\ kind = "RECURRING" /\ row.status # "IN_PROGRESS"
  /\ FirstFree(w)
  /\ \E r \in Run : Begin(w, r)
  /\ UNCHANGED <<kind, now, consoles, period, upset>>

\* trigger_agent_schedule_now.
Trigger(w) ==
  /\ Human
  /\ kind = "RECURRING" /\ row.status = "PENDING"
  /\ FirstFree(w)
  /\ \E r \in Run : Begin(w, r)
  /\ UNCHANGED <<kind, now, consoles, period, upset>>

\* create_session returns or raises, or it is known already that it must be
\* reported as a failure; the completion reads the schedule, without a lock.
ReadRow(w, ok) ==
  /\ workers[w].pc \in {"work", "retry"}
  /\ workers[w].pc = "retry" => ~ok
  /\ Become(w, [workers[w] EXCEPT !.pc = "read", !.ok = ok, !.seen = row])
  /\ UNCHANGED <<kind, row, runs, now, consoles, period, upset, budget>>

Verdict(ok) == IF ok THEN "COMPLETED" ELSE "FAILED"

\* Mutants: run_count counts what is left; one run too many; the next time is
\* counted from the last one.
ReportedDown(seen, ok) ==
  LET count == seen.count - 1
      last  == kind = "SCHEDULED" \/ count = 0
  IN  [seen EXCEPT !.count  = count,
                   !.status = IF last THEN Verdict(ok) ELSE "PENDING",
                   !.next   = IF last THEN @ ELSE now + 1]

ReportedLate(seen, ok) ==
  LET count == seen.count + 1
      last  == kind = "SCHEDULED" \/ (seen.limit # 0 /\ count > seen.limit)
  IN  [seen EXCEPT !.count  = count,
                   !.status = IF last THEN Verdict(ok) ELSE "PENDING",
                   !.next   = IF last THEN @ ELSE now + 1]

ReportedFromLast(seen, ok) ==
  LET count == seen.count + 1
      last  == kind = "SCHEDULED" \/ Limited(seen.limit, count)
  IN  [seen EXCEPT !.count  = count,
                   !.status = IF last THEN Verdict(ok) ELSE "PENDING",
                   !.next   = IF last THEN @ ELSE @ + 1]

\* The schedule after a run, computed from what was read.
Reported(seen, ok) ==
  LET count == seen.count + 1
      last  == kind = "SCHEDULED" \/ Limited(seen.limit, count)
  IN  [seen EXCEPT !.count  = count,
                   !.status = IF last THEN Verdict(ok) ELSE "PENDING",
                   !.next   = IF last THEN @ ELSE now + 1]

\* _update_run_completion, whatever has become of the schedule and the run.
Report(w) ==
  LET me == workers[w] IN
  /\ me.pc = "read"
  /\ runs' = [runs EXCEPT ![me.run] = Verdict(me.ok)]
  /\ Flush(me.seen, Reported(me.seen, me.ok))
  /\ Become(w, Free)
  /\ UNCHANGED <<kind, now, consoles, period, upset, budget>>

\* A success that cannot be stored is reported as a failure; a failure that
\* cannot be stored is left to the recovery.
ReportFails(w) ==
  /\ workers[w].pc = "read"
  /\ Fault
  /\ Become(w, IF workers[w].ok THEN [workers[w] EXCEPT !.pc = "retry"] ELSE Free)
  /\ UNCHANGED <<kind, row, runs, now, consoles, period, upset>>

-----------------------------------------------------------------------------
(* Recovery, crash, time                                                   *)

Attended == \E w \in Working : workers[w].run \in Running

\* Mutants: the orphaned runs are not counted; they are not closed; the
\* schedule is not given back.
RecoverUncounted ==
  /\ row.status = "IN_PROGRESS"
  /\ IF Attended THEN Spend("delay") ELSE UNCHANGED budget
  /\ Upset("late", Attended)
  /\ runs' = [r \in Run |-> IF r \in Running THEN "FAILED" ELSE runs[r]]
  /\ row' = [row EXCEPT !.status =
               IF Limited(row.limit, row.count) THEN "FAILED" ELSE "PENDING"]
  /\ UNCHANGED <<kind, now, workers, consoles, period>>

RecoverScheduleOnly ==
  LET count == row.count + Cardinality(Running) IN
  /\ row.status = "IN_PROGRESS"
  /\ IF Attended THEN Spend("delay") ELSE UNCHANGED budget
  /\ Upset("late", Attended)
  /\ row' = [row EXCEPT !.count = count,
               !.status = IF Limited(row.limit, count) THEN "FAILED" ELSE "PENDING"]
  /\ UNCHANGED <<kind, runs, now, workers, consoles, period>>

RecoverRunsOnly ==
  /\ row.status = "IN_PROGRESS" /\ Running # {}
  /\ IF Attended THEN Spend("delay") ELSE UNCHANGED budget
  /\ Upset("late", Attended)
  /\ runs' = [r \in Run |-> IF r \in Running THEN "FAILED" ELSE runs[r]]
  /\ row' = [row EXCEPT !.count = @ + Cardinality(Running)]
  /\ UNCHANGED <<kind, now, workers, consoles, period>>

\* recover_stale_in_progress_schedules: by the age of the row alone.
RecoverStale ==
  LET count == row.count + Cardinality(Running) IN
  /\ row.status = "IN_PROGRESS"
  /\ IF Attended THEN Spend("delay") ELSE UNCHANGED budget
  /\ Upset("late", Attended)
  /\ runs' = [r \in Run |-> IF r \in Running THEN "FAILED" ELSE runs[r]]
  /\ row' = [row EXCEPT !.count = count,
               !.status = IF Limited(row.limit, count) THEN "FAILED" ELSE "PENDING"]
  /\ UNCHANGED <<kind, now, workers, consoles, period>>

\* A process dies, or is shut down and cancels what runs after its timeout
\* (a cancellation is not an Exception: nothing is reported).
Crash(dead) ==
  /\ dead # {}
  /\ Fault
  /\ workers' = [w \in Worker |-> IF w \in dead THEN Free ELSE workers[w]]
  /\ UNCHANGED <<kind, row, runs, now, consoles, period, upset>>

Tick ==
  /\ now < MaxTime
  /\ now' = now + 1
  /\ UNCHANGED <<kind, row, runs, workers, consoles, period, upset, budget>>

-----------------------------------------------------------------------------
(* People                                                                  *)

Editable == row.status \in {"PENDING", "PAUSED"}

\* cancel_agent_schedule_by_id: one UPDATE with its condition.
Cancel ==
  /\ Human
  /\ Editable
  /\ row' = [row EXCEPT !.status = "CANCELLED"]
  /\ UNCHANGED <<kind, runs, now, workers, consoles, period, upset>>

\* edit_agent_schedule_fields, with the row locked: another cron expression or
\* execution time, another max_runs.
EditTime ==
  /\ Human
  /\ Editable
  /\ row' = [row EXCEPT !.next = now + 1]
  /\ UNCHANGED <<kind, runs, now, workers, consoles, period, upset>>

EditLimit(limit) ==
  /\ Human
  /\ Editable
  /\ kind = "RECURRING" /\ limit > 0
  /\ row' = [row EXCEPT !.limit = limit]
  /\ Upset("limit", row.count >= limit)
  /\ UNCHANGED <<kind, runs, now, workers, consoles, period>>

\* cancel_schedule and update_schedule_status of the console check the status
\* they have read, without a lock,
ConsoleRead(c, want) ==
  /\ Human
  /\ consoles[c].pc = "away"
  /\ Editable
  /\ want \in {"CANCELLED", "PAUSED", "PENDING"} \ {row.status}
  /\ consoles' = [consoles EXCEPT ![c] = [pc |-> "read", want |-> want, seen |-> row]]
  /\ UNCHANGED <<kind, row, runs, now, workers, period, upset>>

\* and write the new one over what is there by now.
ConsoleWrite(c) ==
  LET me == consoles[c] IN
  /\ me.pc = "read"
  /\ Flush(me.seen, [me.seen EXCEPT !.status = me.want])
  /\ Upset("console", row.status # me.seen.status)
  /\ consoles' = [consoles EXCEPT ![c] = Away]
  /\ UNCHANGED <<kind, runs, now, workers, period, budget>>

-----------------------------------------------------------------------------
Execute(w) ==
  \/ Claim(w) \/ ClaimNothing(w) \/ Report(w)
  \/ \E ok \in BOOLEAN : ReadRow(w, ok)

Person ==
  \/ Cancel \/ EditTime
  \/ \E limit \in Limits : EditLimit(limit)
  \/ \E w \in Worker : Trigger(w)
  \/ \E c \in Console, want \in Status : ConsoleRead(c, want)

Next ==
  \/ \E w \in Worker : Poll(w) \/ Execute(w) \/ ClaimFails(w) \/ ReportFails(w)
  \/ RecoverStale \/ Tick \/ Person
  \/ \E dead \in SUBSET Worker : Crash(dead)
  \/ \E c \in Console : ConsoleWrite(c)

Spec == Init /\ [][Next]_vars

\* run_scheduler polls and looks for stale schedules in a loop, of which one
\* that nobody works on becomes one; executions run.  Nothing is assumed of
\* people, of the console, or of the time until the next cron time.
Fairness ==
  /\ WF_vars(\E w \in Worker : Poll(w))
  /\ WF_vars(~Attended /\ RecoverStale)
  /\ \A w \in Worker : WF_vars(Execute(w))

FairSpec == Spec /\ Fairness

-----------------------------------------------------------------------------
(* Properties                                                              *)

Row == [status: Status, next: 0..(MaxTime + 1), count: Nat, limit: Nat]

\* Types of the columns, the runs, the calls and the history.
TypeOK ==
  /\ kind \in {"SCHEDULED", "RECURRING"}
  /\ row \in Row
  /\ runs \in [Run -> {"NONE", "IN_PROGRESS", "COMPLETED", "FAILED"}]
  /\ now \in Time
  /\ workers \in [Worker -> [pc: {"free", "listed", "work", "retry", "read"},
                             run: 0..MaxRuns, ok: BOOLEAN, seen: Row]]
  /\ consoles \in [Console -> [pc: {"away", "read"},
                               want: {"PENDING", "PAUSED", "CANCELLED"}, seen: Row]]
  /\ period \in [Run -> Time]
  /\ upset \subseteq {"late", "console", "limit", "early"}
  /\ budget \in [human: 0..MaxHuman, delay: 0..MaxDelays, fault: 0..MaxFaults]

Undisturbed == upset \cap {"late", "console"} = {}

\* However many processes poll, trigger, crash and recover: one execution at a
\* time, one run IN_PROGRESS at a time, and only while the schedule says so.
OneRun ==
  Undisturbed =>
    /\ Cardinality(Working) <= 1
    /\ Cardinality(Running) <= 1
    /\ Running # {} => row.status = "IN_PROGRESS"

\* run_count, which decides when the schedule is over, is the number of runs
\* that have ended, reported or not.
CountExact == Undisturbed => row.count = Cardinality(Finished)

\* max_runs bounds the runs, whether polled, triggered or retried, unless it
\* was lowered to what has already been run.
LimitKept ==
  Undisturbed /\ "limit" \notin upset =>
    (row.limit # 0 => Cardinality(Begun) <= row.limit)

\* A cron time is executed once: what was missed is not made up for, and only
\* a run that has not ended well is repeated.
OncePerPeriod ==
  Undisturbed /\ "early" \notin upset =>
    \A r, s \in Run :
      /\ runs[r] = "COMPLETED" /\ runs[s] = "COMPLETED"
      /\ period[r] = period[s] /\ period[r] # 0
      => r = s

\* A schedule that is over, or was cancelled, stays so: no claim, trigger,
\* report or recovery that is under way revives it.
OverStays ==
  [][Undisturbed' /\ row.status \in Over => row'.status = row.status]_vars

\* Nothing that is due is left waiting, whatever failed and whoever interfered;
\* in particular the schedule does not stay IN_PROGRESS after a crash.
EventuallyServed ==
  <>[](\/ row.status \in Over \cup {"PAUSED"}
       \/ row.status = "PENDING" /\ row.next > now)

\* No run stays IN_PROGRESS, although its worker may have died.
EventuallyClosed == <>[](Undisturbed => Running = {})
=============================================================================
