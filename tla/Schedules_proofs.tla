-------------------------- MODULE Schedules_proofs --------------------------
(***************************************************************************)
(* Theorems about Schedules, for all bounds and all values of max_runs.    *)
(***************************************************************************)
EXTENDS Schedules, FiniteSetTheorems, TLAPS

\* The runs are finitely many, so that they can be counted.
LEMMA FiniteRuns ==
  ASSUME NEW S \in SUBSET Run
  PROVE  IsFiniteSet(S) /\ Cardinality(S) \in Nat
<1>1. IsFiniteSet(Run)
  BY BoundsAssumption, FS_Interval DEF Run
<1> QED
  BY <1>1, FS_Subset, FS_CardinalityType

\* What the ORM writes has the type of a row if what was read, and what the
\* caller made of it, have.
LEMMA FlushType ==
  ASSUME row \in Row, NEW seen \in Row, NEW new \in Row, Flush(seen, new)
  PROVE  row' \in Row
BY DEF Flush, Row

\* The schedule that a completion stores has the type of a row.
LEMMA ReportedType ==
  ASSUME NEW seen \in Row, NEW ok \in BOOLEAN, now \in Time
  PROVE  Reported(seen, ok) \in Row
<1> DEFINE count == seen.count + 1
           last  == kind = "SCHEDULED" \/ Limited(seen.limit, count)
<1>1. now + 1 \in 0..(MaxTime + 1) /\ count \in Nat
  BY BoundsAssumption DEF Row, Time
<1>2. Verdict(ok) \in Status
  BY DEF Verdict, Status, Over
<1>3. CASE last
  BY <1>1, <1>2, <1>3 DEF Reported, Row
<1>4. CASE ~last
  BY <1>1, <1>4 DEF Reported, Row, Status
<1> QED
  BY <1>3, <1>4

\* Calls, and what they remember of the row when there is nothing to remember.
WorkerType == [pc: {"free", "listed", "work", "retry", "read"},
               run: 0..MaxRuns, ok: BOOLEAN, seen: Row]

LEMMA FreeType ==
  /\ NoRow \in Row /\ Free \in WorkerType
  /\ [Free EXCEPT !.pc = "listed"] \in WorkerType
  /\ \A r \in Run : [Free EXCEPT !.pc = "work", !.run = r] \in WorkerType
<1>1. NoRow \in Row
  BY BoundsAssumption DEF NoRow, Row, Status
<1>2. 0 \in 0..MaxRuns /\ Run \subseteq 0..MaxRuns
  BY BoundsAssumption DEF Run
<1> HIDE DEF NoRow, Row
<1> QED
  BY <1>1, <1>2 DEF Free, WorkerType

LEMMA SpendType ==
  ASSUME TypeOK, NEW what \in {"human", "delay", "fault"}, Spend(what)
  PROVE  budget' \in [human: 0..MaxHuman, delay: 0..MaxDelays, fault: 0..MaxFaults]
BY BoundsAssumption DEF TypeOK, Spend

\* TypeOK is preserved by every step.
LEMMA TypeStep == TypeOK /\ [Next]_vars => TypeOK'
<1> SUFFICES ASSUME TypeOK, [Next]_vars PROVE TypeOK'
  OBVIOUS
<1> USE DEF TypeOK
<1> HIDE DEF WorkerType
<1>a. workers \in [Worker -> WorkerType]
  BY DEF WorkerType
<1>0. CASE UNCHANGED vars
  BY <1>0 DEF vars
<1>1. ASSUME NEW w \in Worker, Poll(w) PROVE TypeOK'
  BY <1>1, <1>a, FreeType DEF Poll, Become, WorkerType
<1>2. ASSUME NEW w \in Worker, Claim(w) PROVE TypeOK'
  <2>1. PICK r \in Run : Begin(w, r) /\ period' = [period EXCEPT ![r] = now]
    BY <1>2 DEF Claim
  <2>2. workers' \in [Worker -> WorkerType]
    BY <1>a, <2>1, FreeType DEF Begin, Become
  <2>3. row' \in Row /\ runs' \in [Run -> {"NONE", "IN_PROGRESS", "COMPLETED", "FAILED"}]
    BY <2>1 DEF Begin, Row, Status
  <2>4. period' \in [Run -> Time]
    BY <2>1
  <2> QED
    BY <1>2, <2>2, <2>3, <2>4 DEF Claim, Upset, WorkerType
<1>3. ASSUME NEW w \in Worker, ClaimNothing(w) PROVE TypeOK'
  BY <1>3, <1>a, FreeType DEF ClaimNothing, Become, WorkerType
<1>4. ASSUME NEW w \in Worker, ClaimFails(w) PROVE TypeOK'
  BY <1>4, <1>a, FreeType, SpendType DEF ClaimFails, Fault, Become, WorkerType
<1>5. ASSUME NEW w \in Worker, NEW ok \in BOOLEAN, ReadRow(w, ok) PROVE TypeOK'
  BY <1>5, ZenonT(60) DEF ReadRow, Become
<1>6. ASSUME NEW w \in Worker, Report(w) PROVE TypeOK'
  <2>1. workers[w].seen \in Row /\ workers[w].ok \in BOOLEAN
    OBVIOUS
  <2>2. row' \in Row
    BY <1>6, <2>1, FlushType, ReportedType DEF Report
  <2>3. runs' \in [Run -> {"NONE", "IN_PROGRESS", "COMPLETED", "FAILED"}]
    BY <1>6 DEF Report, Verdict
  <2> QED
    BY <1>6, <1>a, <2>2, <2>3, FreeType DEF Report, Become, WorkerType
<1>7. ASSUME NEW w \in Worker, ReportFails(w) PROVE TypeOK'
  BY <1>7, <1>a, FreeType, SpendType DEF ReportFails, Fault, Become, WorkerType
<1>8. ASSUME NEW w \in Worker, Trigger(w) PROVE TypeOK'
  <2>1. PICK r \in Run : Begin(w, r)
    BY <1>8 DEF Trigger
  <2>2. workers' \in [Worker -> WorkerType]
    BY <1>a, <2>1, FreeType DEF Begin, Become
  <2>3. row' \in Row /\ runs' \in [Run -> {"NONE", "IN_PROGRESS", "COMPLETED", "FAILED"}]
    BY <2>1 DEF Begin, Row, Status
  <2> QED
    BY <1>8, <2>2, <2>3, SpendType DEF Trigger, Human, WorkerType
<1>9. ASSUME RecoverStale PROVE TypeOK'
  <2>1. Cardinality(Running) \in Nat
    BY FiniteRuns DEF Running
  <2> DEFINE count == row.count + Cardinality(Running)
             status == IF Limited(row.limit, count) THEN "FAILED" ELSE "PENDING"
  <2>5. row' = [row EXCEPT !.count = count, !.status = status]
    BY <1>9 DEF RecoverStale
  <2>6. count \in Nat /\ status \in Status
    BY <2>1 DEF Row, Status, Over
  <2>2. row' \in Row
    BY <2>5, <2>6 DEF Row
  <2>3. runs' \in [Run -> {"NONE", "IN_PROGRESS", "COMPLETED", "FAILED"}]
    BY <1>9 DEF RecoverStale
  <2>4. budget' \in [human: 0..MaxHuman, delay: 0..MaxDelays, fault: 0..MaxFaults]
    BY <1>9, SpendType DEF RecoverStale
  <2> QED
    BY <1>9, <2>2, <2>3, <2>4 DEF RecoverStale, Upset
<1>10. ASSUME NEW dead \in SUBSET Worker, Crash(dead) PROVE TypeOK'
  BY <1>10, <1>a, FreeType, SpendType DEF Crash, Fault, WorkerType
<1>11. CASE Tick
  BY <1>11, BoundsAssumption DEF Tick, Time
<1>12. CASE Cancel
  BY <1>12, SpendType DEF Cancel, Human, Row, Status, Over
<1>13. CASE EditTime
  BY <1>13, SpendType, BoundsAssumption DEF EditTime, Human, Row, Time
<1>14. ASSUME NEW limit \in Limits, EditLimit(limit) PROVE TypeOK'
  <2>1. row' \in Row
    BY <1>14, LimitsAssumption DEF EditLimit, Row
  <2> QED
    BY <1>14, <2>1, SpendType DEF EditLimit, Human, Upset
<1>15. ASSUME NEW c \in Console, NEW want \in Status, ConsoleRead(c, want)
       PROVE  TypeOK'
  BY <1>15, SpendType DEF ConsoleRead, Human
<1>16. ASSUME NEW c \in Console, ConsoleWrite(c) PROVE TypeOK'
  <2>1. consoles[c].seen \in Row /\ consoles[c].want \in Status
    BY DEF Status, Over
  <2>2. row' \in Row
    BY <1>16, <2>1, FlushType DEF ConsoleWrite, Row
  <2> QED
    BY <1>16, <2>2, FreeType DEF ConsoleWrite, Upset, Away
<1> QED
  BY <1>0, <1>1, <1>2, <1>3, <1>4, <1>5, <1>6, <1>7, <1>8, <1>9, <1>10, <1>11,
     <1>12, <1>13, <1>14, <1>15, <1>16 DEF Next, Execute, Person

LEMMA InitType == Init => TypeOK
<1> SUFFICES ASSUME Init PROVE TypeOK
  OBVIOUS
<1>1. row \in Row
  <2>1. 1 \in 0..(MaxTime + 1) /\ 0 \in Nat /\ Limits \cup {0} \subseteq Nat
    BY LimitsAssumption, BoundsAssumption
  <2> QED
    BY <2>1 DEF Init, Row, Status
<1>2. workers \in [Worker -> WorkerType]
  BY FreeType DEF Init
<1>3. consoles \in [Console -> [pc: {"away", "read"},
                               want: {"PENDING", "PAUSED", "CANCELLED"}, seen: Row]]
  BY FreeType DEF Init, Away
<1>4. now \in Time /\ period \in [Run -> Time]
  BY BoundsAssumption DEF Init, Time
<1>5. budget \in [human: 0..MaxHuman, delay: 0..MaxDelays, fault: 0..MaxFaults]
  BY BoundsAssumption DEF Init
<1> QED
  BY <1>1, <1>2, <1>3, <1>4, <1>5 DEF Init, TypeOK, WorkerType

\* The columns of the schedule, its runs and the calls on it have their types
\* in every reachable state, whatever completions and consoles write over.
THEOREM TypeCorrect == Spec => []TypeOK
<1> QED
  BY InitType, TypeStep, PTL DEF Spec

-----------------------------------------------------------------------------
(* One execution at a time                                                 *)

\* A step never takes back what upset remembers.
LEMMA UpsetGrows == [Next]_vars => upset \subseteq upset'
BY DEF Next, Execute, Person, vars, Poll, Claim, ClaimNothing, ClaimFails,
       Trigger, ReadRow, Report, ReportFails, RecoverStale, Crash, Tick, Cancel,
       EditTime, EditLimit, ConsoleRead, ConsoleWrite, Upset

LEMMA WasUndisturbed == [Next]_vars /\ Undisturbed' => Undisturbed
BY UpsetGrows DEF Undisturbed

\* A console writes only where it has read a status that it may change.
ConsoleSane ==
  \A c \in Console : consoles[c].pc = "read" =>
    consoles[c].seen.status \in {"PENDING", "PAUSED"}

WorkPC == {"work", "retry", "read"}

\* What makes OneRun inductive: whoever works has a run that is IN_PROGRESS, so
\* that its schedule is, and a completion under way has read the row as it is.
Alone ==
  /\ \A w \in Worker : workers[w].pc \in WorkPC =>
       workers[w].run \in Run /\ runs[workers[w].run] = "IN_PROGRESS"
  /\ \A v, w \in Worker :
       workers[v].pc \in WorkPC /\ workers[w].pc \in WorkPC => v = w
  /\ \A r, s \in Run :
       runs[r] = "IN_PROGRESS" /\ runs[s] = "IN_PROGRESS" => r = s
  /\ \A r \in Run : runs[r] = "IN_PROGRESS" => row.status = "IN_PROGRESS"
  /\ \A w \in Worker : workers[w].pc = "read" => workers[w].seen = row

LEMMA ConsoleStep == TypeOK /\ ConsoleSane /\ [Next]_vars => ConsoleSane'
<1> SUFFICES ASSUME TypeOK, ConsoleSane, [Next]_vars PROVE ConsoleSane'
  OBVIOUS
<1>1. ASSUME NEW c \in Console, NEW want \in Status, ConsoleRead(c, want)
      PROVE  ConsoleSane'
  BY <1>1 DEF ConsoleRead, ConsoleSane, Editable, TypeOK
<1>2. ASSUME NEW c \in Console, ConsoleWrite(c) PROVE ConsoleSane'
  BY <1>2 DEF ConsoleWrite, ConsoleSane, TypeOK, Away
<1>3. CASE UNCHANGED consoles
  BY <1>3 DEF ConsoleSane
<1> QED
  BY <1>1, <1>2, <1>3
     DEF Next, Execute, Person, vars, Poll, Claim, ClaimNothing, ClaimFails,
         Trigger, ReadRow, Report, ReportFails, RecoverStale, Crash, Tick,
         Cancel, EditTime, EditLimit

\* A write of a row that is still what was read writes what it is meant to.
LEMMA FlushFresh ==
  ASSUME row \in Row, NEW new \in Row, Flush(row, new)
  PROVE  row' = new
BY DEF Flush, Row

\* When no execution is under way, nobody works and no row is about to be
\* written by a completion.
LEMMA NobodyWorks ==
  ASSUME Alone, row.status # "IN_PROGRESS"
  PROVE  /\ \A w \in Worker : workers[w].pc \notin WorkPC
         /\ \A r \in Run : runs[r] # "IN_PROGRESS"
BY DEF Alone

LEMMA AloneStep ==
  ASSUME TypeOK, ConsoleSane, Alone, Undisturbed', [Next]_vars
  PROVE  Alone'
<1>0. CASE UNCHANGED vars
  BY <1>0 DEF vars, Alone
<1>1. ASSUME NEW w \in Worker, Poll(w) PROVE Alone'
  BY <1>1 DEF Poll, FirstFree, Become, Free, Alone, WorkPC, TypeOK
<1>2. ASSUME NEW w \in Worker, NEW r \in Run, row.status = "PENDING", Begin(w, r)
      PROVE  Alone'
  BY <1>2, NobodyWorks DEF Begin, Become, Free, Alone, WorkPC, TypeOK, Row
<1>3. ASSUME NEW w \in Worker, ClaimNothing(w) PROVE Alone'
  BY <1>3 DEF ClaimNothing, Become, Free, Alone, WorkPC, TypeOK
<1>4. ASSUME NEW w \in Worker, ClaimFails(w) PROVE Alone'
  BY <1>4 DEF ClaimFails, Become, Free, Alone, WorkPC, TypeOK
<1>5. ASSUME NEW w \in Worker, NEW ok \in BOOLEAN, ReadRow(w, ok) PROVE Alone'
  BY <1>5 DEF ReadRow, Become, Alone, WorkPC, TypeOK
<1>6. ASSUME NEW w \in Worker, Report(w) PROVE Alone'
  <2>1. \A v \in Worker : workers'[v].pc \notin WorkPC
    BY <1>6 DEF Report, Become, Free, Alone, WorkPC, TypeOK
  <2>2. \A r \in Run : runs'[r] # "IN_PROGRESS"
    BY <1>6 DEF Report, Verdict, Alone, WorkPC, TypeOK
  <2> QED
    BY <2>1, <2>2 DEF Alone, WorkPC
<1>7. ASSUME NEW w \in Worker, ReportFails(w) PROVE Alone'
  BY <1>7 DEF ReportFails, Become, Free, Alone, WorkPC, TypeOK
<1>8. CASE RecoverStale
  <2>1. ~Attended
    BY <1>8 DEF RecoverStale, Upset, Undisturbed
  <2>2. \A w \in Worker : workers'[w].pc \notin WorkPC
    BY <1>8, <2>1 DEF RecoverStale, Attended, Working, Running, Alone, WorkPC
  <2>3. \A r \in Run : runs'[r] # "IN_PROGRESS"
    BY <1>8 DEF RecoverStale, Running, TypeOK
  <2> QED
    BY <2>2, <2>3 DEF Alone, WorkPC
<1>9. ASSUME NEW dead \in SUBSET Worker, Crash(dead) PROVE Alone'
  BY <1>9 DEF Crash, Free, Alone, WorkPC, TypeOK
<1>10. CASE Tick
  BY <1>10 DEF Tick, Alone
<1>11. ASSUME Editable, row'.status # "IN_PROGRESS", UNCHANGED <<runs, workers>>
       PROVE  Alone'
  BY <1>11, NobodyWorks DEF Editable, Alone, WorkPC
<1>12. CASE Cancel \/ EditTime
  BY <1>11, <1>12 DEF Cancel, EditTime, Editable, TypeOK, Row
<1>13. ASSUME NEW limit \in Limits, EditLimit(limit) PROVE Alone'
  BY <1>11, <1>13 DEF EditLimit, Editable, TypeOK, Row
<1>14. ASSUME NEW c \in Console, NEW want \in Status, ConsoleRead(c, want)
       PROVE  Alone'
  BY <1>14 DEF ConsoleRead, Alone
<1>15. ASSUME NEW c \in Console, ConsoleWrite(c) PROVE Alone'
  <2>1. Editable
    BY <1>15 DEF ConsoleWrite, Upset, Undisturbed, ConsoleSane, Editable
  <2>2. row'.status # "IN_PROGRESS"
    BY <1>15, <2>1 DEF ConsoleWrite, Flush, Editable, TypeOK, Row
  <2> QED
    BY <1>11, <1>15, <2>1, <2>2 DEF ConsoleWrite
<1> QED
  BY <1>0, <1>1, <1>2, <1>3, <1>4, <1>5, <1>6, <1>7, <1>8, <1>9, <1>10, <1>12,
     <1>13, <1>14, <1>15 DEF Next, Execute, Person, Claim, Trigger

Exclusive == ConsoleSane /\ (Undisturbed => Alone)

LEMMA ExclusiveHolds == Spec => [](TypeOK /\ Exclusive)
<1>1. Init => TypeOK /\ Exclusive
  BY InitType DEF Init, Exclusive, ConsoleSane, Alone, WorkPC, Away, Free
<1>2. TypeOK /\ Exclusive /\ [Next]_vars => (TypeOK /\ Exclusive)'
  BY TypeStep, ConsoleStep, AloneStep, WasUndisturbed DEF Exclusive
<1> QED
  BY <1>1, <1>2, PTL DEF Spec

LEMMA AtMostOne ==
  ASSUME NEW S, IsFiniteSet(S), \A x, y \in S : x = y
  PROVE  Cardinality(S) = IF S = {} THEN 0 ELSE 1
<1>1. CASE S = {}
  BY <1>1, FS_EmptySet
<1>2. CASE S # {}
  <2>1. PICK x \in S : TRUE
    BY <1>2
  <2>2. S = {x}
    BY <2>1
  <2> QED
    BY <2>2, FS_Singleton, <1>2
<1> QED
  BY <1>1, <1>2

\* As long as nothing is recovered while it is being worked on and no console
\* overwrites a status, at most one execution and one run are under way, and
\* only while the schedule is IN_PROGRESS, whatever else fails or crashes.
THEOREM OneRunAtATime == Spec => []OneRun
<1>1. TypeOK /\ Exclusive => OneRun
  <2> SUFFICES ASSUME TypeOK, Exclusive, Undisturbed
               PROVE  /\ Cardinality(Working) <= 1
                      /\ Cardinality(Running) <= 1
                      /\ Running # {} => row.status = "IN_PROGRESS"
    BY DEF OneRun
  <2>1. Alone
    BY DEF Exclusive
  <2>2. IsFiniteSet(Worker)
    BY BoundsAssumption, FS_Interval DEF Worker
  <2>3. IsFiniteSet(Working) /\ \A v, w \in Working : v = w
    BY <2>1, <2>2, FS_Subset DEF Working, Alone, WorkPC
  <2>4. IsFiniteSet(Running) /\ \A r, s \in Running : r = s
    BY <2>1, FiniteRuns DEF Running, Alone
  <2>5. Cardinality(Working) <= 1 /\ Cardinality(Running) <= 1
    BY <2>3, <2>4, AtMostOne
  <2> QED
    BY <2>1, <2>5 DEF Running, Alone
<1> QED
  BY <1>1, ExclusiveHolds, PTL

-----------------------------------------------------------------------------
(* The counter of runs and their limit                                     *)

\* A completion that is not disturbed writes what it computed.
LEMMA ReportWrites ==
  ASSUME TypeOK, Alone, NEW w \in Worker, Report(w)
  PROVE  /\ workers[w].run \in Run
         /\ \A r \in Run : runs[r] = "IN_PROGRESS" <=> r = workers[w].run
         /\ runs' = [runs EXCEPT ![workers[w].run] = Verdict(workers[w].ok)]
         /\ row.status = "IN_PROGRESS"
         /\ row' = Reported(row, workers[w].ok)
<1>1. workers[w].pc = "read" /\ workers[w].ok \in BOOLEAN
  BY DEF Report, TypeOK
<1>2. workers[w].seen = row
  BY <1>1 DEF Alone
<1>3. row' = Reported(row, workers[w].ok)
  BY <1>1, <1>2, ReportedType, FlushFresh DEF Report, TypeOK
<1> QED
  BY <1>1, <1>3 DEF Report, Alone, WorkPC

LEMMA DisjointCount ==
  ASSUME NEW S \in SUBSET Run, NEW T \in SUBSET Run, S \cap T = {}
  PROVE  Cardinality(S \cup T) = Cardinality(S) + Cardinality(T)
<1>1. IsFiniteSet(S) /\ IsFiniteSet(T)
  BY FiniteRuns
<1>2. Cardinality(S) \in Nat /\ Cardinality(T) \in Nat
  BY FiniteRuns
<1>3. Cardinality(S \cup T) = Cardinality(S) + Cardinality(T) - Cardinality(S \cap T)
  BY <1>1, FS_Union
<1>4. Cardinality(S \cap T) = 0
  BY FS_EmptySet
<1> QED
  BY <1>2, <1>3, <1>4

Counted == row.count = Cardinality(Finished)

LEMMA CountedStep ==
  ASSUME TypeOK, ConsoleSane, Alone, Counted, Undisturbed', [Next]_vars
  PROVE  Counted'
<1> USE DEF Counted
<1>0. ASSUME row'.count = row.count, Finished' = Finished PROVE Counted'
  BY <1>0
<1>1. CASE UNCHANGED <<row, runs>>
  BY <1>0, <1>1 DEF Finished
<1>2. ASSUME NEW w \in Worker, NEW r \in Run, Begin(w, r) PROVE Counted'
  <2>1. Finished' = Finished
    BY <1>2 DEF Begin, NextNumber, Finished, TypeOK
  <2> QED
    BY <1>0, <1>2, <2>1 DEF Begin, TypeOK, Row
<1>3. ASSUME NEW w \in Worker, Report(w) PROVE Counted'
  <2> DEFINE r == workers[w].run
  <2>1. r \in Run /\ runs[r] = "IN_PROGRESS"
    BY <1>3, ReportWrites
  <2>2. Finished' = Finished \cup {r} /\ r \notin Finished
    BY <1>3, <2>1, ReportWrites DEF Finished, Verdict, TypeOK
  <2>3. Cardinality(Finished') = Cardinality(Finished) + 1
    BY <2>2, FiniteRuns, FS_AddElement DEF Finished
  <2>4. row'.count = row.count + 1
    BY <1>3, ReportWrites DEF Reported, TypeOK, Row
  <2> QED
    BY <2>3, <2>4
<1>4. CASE RecoverStale
  <2>1. Finished' = Finished \cup Running /\ Finished \cap Running = {}
    BY <1>4 DEF RecoverStale, Finished, Running, TypeOK
  <2>2. Cardinality(Finished') = Cardinality(Finished) + Cardinality(Running)
    BY <2>1, DisjointCount DEF Finished, Running
  <2>3. row'.count = row.count + Cardinality(Running)
    BY <1>4 DEF RecoverStale, TypeOK, Row
  <2> QED
    BY <2>2, <2>3
<1>5. CASE Cancel \/ EditTime \/ \E limit \in Limits : EditLimit(limit)
  BY <1>0, <1>5 DEF Cancel, EditTime, EditLimit, Finished, TypeOK, Row
<1>6. ASSUME NEW c \in Console, ConsoleWrite(c) PROVE Counted'
  BY <1>0, <1>6 DEF ConsoleWrite, Flush, Finished, TypeOK, Row
<1> QED
  BY <1>1, <1>2, <1>3, <1>4, <1>5, <1>6
     DEF Next, Execute, Person, vars, Poll, Claim, ClaimNothing, ClaimFails,
         Trigger, ReadRow, ReportFails, Crash, Tick, ConsoleRead

\* run_count is the number of runs that have ended, as long as no run is
\* recovered under its worker and no console overwrites a status: a crash, a
\* report that fails and its retry count each run once.
THEOREM CountIsExact == Spec => []CountExact
<1> DEFINE I == TypeOK /\ Exclusive
<1>1. Init => CountExact
  <2> SUFFICES ASSUME Init PROVE Cardinality(Finished) = 0 /\ row.count = 0
    BY DEF CountExact
  <2>1. Finished = {}
    BY DEF Init, Finished
  <2> QED
    BY <2>1, FS_EmptySet DEF Init
<1>2. I /\ CountExact /\ [Next]_vars => CountExact'
  BY CountedStep, WasUndisturbed DEF CountExact, Counted, Exclusive
<1> QED
  BY <1>1, <1>2, ExclusiveHolds, PTL DEF Spec

\* A schedule that may still run has not used up its runs.
Within ==
  row.limit # 0 =>
    /\ row.count <= row.limit
    /\ row.status \in {"PENDING", "PAUSED", "IN_PROGRESS"} => row.count < row.limit

LEMMA WithinStep ==
  ASSUME TypeOK, ConsoleSane, Alone, Within, Undisturbed',
         "limit" \notin upset', [Next]_vars
  PROVE  Within'
<1> USE DEF Within
<1>1. CASE UNCHANGED row
  BY <1>1
<1>2. ASSUME NEW w \in Worker, NEW r \in Run, row.status = "PENDING", Begin(w, r)
      PROVE  Within'
  BY <1>2 DEF Begin, TypeOK, Row
<1>3. ASSUME NEW w \in Worker, Report(w) PROVE Within'
  <2>1. row' = Reported(row, workers[w].ok) /\ row.status = "IN_PROGRESS"
    BY <1>3, ReportWrites
  <2>2. row'.limit = row.limit /\ row'.count = row.count + 1
    BY <2>1 DEF Reported, TypeOK, Row
  <2>3. row.limit # 0 /\ row'.count = row.limit =>
          row'.status \in {"COMPLETED", "FAILED"}
    BY <2>1, <2>2 DEF Reported, Limited, Verdict, TypeOK, Row
  <2>4. row.count \in Nat /\ row.limit \in Nat
    BY DEF TypeOK, Row
  <2>5. ASSUME row.limit # 0
        PROVE  row'.count <= row.limit /\ (row'.count # row.limit => row'.count < row.limit)
    BY <2>1, <2>2, <2>4, <2>5
  <2> QED
    BY <2>2, <2>3, <2>5
<1>4. CASE RecoverStale
  <2> DEFINE count == row.count + Cardinality(Running)
  <2>1. Cardinality(Running) \in {0, 1}
    BY FiniteRuns, AtMostOne DEF Running, Alone
  <2>2. row.status = "IN_PROGRESS" /\ row'.limit = row.limit /\ row'.count = count
    BY <1>4 DEF RecoverStale, TypeOK, Row
  <2>3. row'.status = IF Limited(row.limit, count) THEN "FAILED" ELSE "PENDING"
    BY <1>4 DEF RecoverStale, TypeOK, Row
  <2>4. row.count \in Nat /\ row.limit \in Nat
    BY DEF TypeOK, Row
  <2>5. ASSUME row.limit # 0
        PROVE  count <= row.limit /\ (~Limited(row.limit, count) => count < row.limit)
    BY <2>1, <2>2, <2>4, <2>5 DEF Limited
  <2>6. row'.status \in {"PENDING", "PAUSED", "IN_PROGRESS"} =>
          ~Limited(row.limit, count)
    BY <2>3
  <2> HIDE DEF count
  <2> QED
    BY <2>2, <2>5, <2>6
<1>5. CASE Cancel \/ EditTime
  BY <1>5 DEF Cancel, EditTime, Editable, TypeOK, Row
<1>6. ASSUME NEW limit \in Limits, EditLimit(limit) PROVE Within'
  BY <1>6, LimitsAssumption DEF EditLimit, Upset, TypeOK, Row
<1>7. ASSUME NEW c \in Console, ConsoleWrite(c) PROVE Within'
  <2>1. row.status \in {"PENDING", "PAUSED"}
    BY <1>7 DEF ConsoleWrite, Upset, Undisturbed, ConsoleSane
  <2>2. row'.count = row.count /\ row'.limit = row.limit
    BY <1>7 DEF ConsoleWrite, Flush, TypeOK, Row
  <2> QED
    BY <2>1, <2>2
<1> QED
  BY <1>1, <1>2, <1>3, <1>4, <1>5, <1>6, <1>7
     DEF Next, Execute, Person, vars, Poll, Claim, ClaimNothing, ClaimFails,
         Trigger, ReadRow, ReportFails, Crash, Tick, ConsoleRead

\* No more runs than max_runs are begun, under the same conditions and unless
\* max_runs was lowered to what had been run; triggers count like the others.
THEOREM LimitIsKept == Spec => []LimitKept
<1> DEFINE J == Undisturbed /\ "limit" \notin upset => Within
<1>1. Init => J
  <2> SUFFICES ASSUME Init, row.limit # 0
               PROVE  row.count <= row.limit /\ row.count < row.limit
    BY DEF Within
  <2>1. row.count = 0 /\ row.limit \in Nat
    BY LimitsAssumption DEF Init
  <2> QED
    BY <2>1
<1>2. TypeOK /\ Exclusive /\ J /\ [Next]_vars => J'
  BY WithinStep, WasUndisturbed, UpsetGrows DEF Exclusive
<1>3. TypeOK /\ Exclusive /\ CountExact /\ J => LimitKept
  <2> SUFFICES ASSUME TypeOK, Alone, Counted, Within, row.limit # 0
               PROVE  Cardinality(Begun) <= row.limit
    BY DEF LimitKept, Exclusive, CountExact, Counted
  <2>1. Cardinality(Running) = IF Running = {} THEN 0 ELSE 1
    BY FiniteRuns, AtMostOne DEF Running, Alone
  <2>2. Running \cap Finished = {}
    BY DEF Running, Finished
  <2>3. Cardinality(Begun) = Cardinality(Running) + Cardinality(Finished)
    BY <2>2, DisjointCount DEF Begun, Running, Finished
  <2>4. Running # {} => row.status = "IN_PROGRESS"
    BY DEF Running, Alone
  <2> QED
    BY <2>1, <2>3, <2>4 DEF Counted, Within, TypeOK, Row
<1> HIDE DEF J
<1> QED
  BY <1>1, <1>2, <1>3, ExclusiveHolds, CountIsExact, PTL DEF Spec

-----------------------------------------------------------------------------
(* What is over stays over; a cron time is executed once                   *)

LEMMA OverStep ==
  ASSUME TypeOK, ConsoleSane, Alone, Undisturbed', [Next]_vars,
         row.status \in Over
  PROVE  row'.status = row.status
<1>1. ASSUME NEW w \in Worker, Report(w) PROVE FALSE
  BY <1>1, ReportWrites DEF Over
<1>2. ASSUME NEW c \in Console, ConsoleWrite(c) PROVE FALSE
  BY <1>2 DEF ConsoleWrite, Upset, Undisturbed, ConsoleSane, Over
<1> QED
  BY <1>1, <1>2
     DEF Next, Execute, Person, vars, Poll, Claim, ClaimNothing, ClaimFails,
         Trigger, ReadRow, ReportFails, RecoverStale, Crash, Tick, Cancel,
         EditTime, EditLimit, Editable, ConsoleRead, Over

\* A completed, failed or cancelled schedule is never executed again: claims,
\* triggers, reports, recoveries and edits that race with its end change
\* nothing, unless a run was recovered under its worker or a console wrote over
\* a status it had not seen.
THEOREM OverIsOver == Spec => OverStays
<1>1. TypeOK /\ Exclusive /\ [Next]_vars =>
        [Undisturbed' /\ row.status \in Over => row'.status = row.status]_vars
  BY OverStep, WasUndisturbed DEF Exclusive
<1> QED
  BY <1>1, ExclusiveHolds, PTL DEF Spec, OverStays

\* What makes OncePerPeriod inductive: the next time of a schedule that goes on
\* is later than any that has been executed, and so is that of a run under way.
Dated ==
  /\ \A r \in Run : runs[r] = "NONE" => period[r] = 0
  /\ \A r \in Run : period[r] <= now
  /\ \A r \in Run : runs[r] = "COMPLETED" /\ period[r] # 0 =>
       row.status \in Over \/ period[r] < row.next
  /\ \A r, s \in Run :
       /\ runs[r] \in {"COMPLETED", "IN_PROGRESS"} /\ runs[s] = "COMPLETED"
       /\ period[r] = period[s] /\ period[r] # 0
       => r = s

LEMMA DatedStep ==
  ASSUME TypeOK, ConsoleSane, Alone, Dated, Undisturbed',
         "early" \notin upset', [Next]_vars
  PROVE  Dated'
<1>a. now \in Nat /\ row.next \in Nat /\ \A r \in Run : period[r] \in Nat
  BY BoundsAssumption DEF TypeOK, Time, Row
<1>1. CASE UNCHANGED <<row, runs, now, period>>
  BY <1>1 DEF Dated
<1>2. ASSUME NEW w \in Worker, NEW r \in Run, row.status = "PENDING", Begin(w, r),
             UNCHANGED now,
             \/ period' = period
             \/ period' = [period EXCEPT ![r] = now] /\ row.next <= now
      PROVE  Dated'
  <2>1. /\ runs[r] = "NONE" /\ runs' = [runs EXCEPT ![r] = "IN_PROGRESS"]
        /\ row'.next = row.next /\ row.status \notin Over
    BY <1>2 DEF Begin, NextNumber, TypeOK, Row, Over
  <2>2. period[r] = 0 /\ period' \in [Run -> Time] /\ period'[r] \in {0, now}
        /\ \A s \in Run : s # r => period'[s] = period[s]
    BY <1>2, <2>1 DEF Dated, TypeOK
  <2>3. \A s \in Run : runs'[s] = "COMPLETED" => runs[s] = "COMPLETED" /\ s # r
    BY <2>1 DEF TypeOK
  <2>4. \A s \in Run : runs[s] = "COMPLETED" /\ period[s] # 0 => period[s] < row.next
    BY <2>1 DEF Dated
  <2>5. period'[r] # 0 => row.next <= now
    BY <1>2, <2>2
  <2>6. \A s \in Run : runs[s] = "COMPLETED" /\ period[s] # 0 /\ period'[r] # 0 =>
          period[s] # period'[r]
    BY <1>a, <2>2, <2>4, <2>5
  <2>7. \A q \in Run : period'[q] <= now'
    BY <1>a, <1>2, <2>2 DEF Dated
  <2> QED
    BY <2>1, <2>2, <2>3, <2>4, <2>6, <2>7 DEF Dated, TypeOK
<1>3. ASSUME NEW w \in Worker, Report(w) PROVE Dated'
  <2> DEFINE r == workers[w].run
  <2>1. /\ r \in Run /\ runs[r] = "IN_PROGRESS"
        /\ runs' = [runs EXCEPT ![r] = Verdict(workers[w].ok)]
        /\ row' = Reported(row, workers[w].ok)
        /\ UNCHANGED <<now, period>>
    BY <1>3, ReportWrites DEF Report
  <2>2. row'.status \in Over \/ row'.next = now + 1
    BY <2>1 DEF Reported, Verdict, Over, TypeOK, Row
  <2>3. \A s \in Run : period'[s] < now + 1
    BY <1>a, <2>1 DEF Dated
  <2>4. \A s \in Run : runs'[s] \in {"COMPLETED", "IN_PROGRESS"} =>
          runs[s] = runs'[s] \/ s = r
    BY <2>1 DEF TypeOK
  <2>5. \A s \in Run : runs'[s] = "COMPLETED" => runs[s] = "COMPLETED" \/ s = r
    BY <2>1 DEF TypeOK
  <2>6. \A s \in Run : runs'[s] = "NONE" => runs[s] = "NONE"
    BY <2>1 DEF TypeOK, Verdict
  <2>7. \A s \in Run : period[s] < now + 1 => row'.status \in Over \/ period[s] < row'.next
    BY <2>2
  <2>8. \A p, q \in Run :
          /\ runs'[p] \in {"COMPLETED", "IN_PROGRESS"} /\ runs'[q] = "COMPLETED"
          /\ period[p] = period[q] /\ period[p] # 0
          => p = q
    <3>1. \A p \in Run : runs'[p] # "IN_PROGRESS"
      BY <1>3, ReportWrites DEF Verdict, TypeOK
    <3> QED
      BY <2>1, <2>4, <2>5, <3>1 DEF Dated
  <2> QED
    BY <2>1, <2>3, <2>6, <2>7, <2>8 DEF Dated
<1>4. CASE RecoverStale
  <2>1. /\ row.status = "IN_PROGRESS" /\ row'.next = row.next
        /\ UNCHANGED <<now, period>>
        /\ runs' = [q \in Run |-> IF q \in Running THEN "FAILED" ELSE runs[q]]
    BY <1>4 DEF RecoverStale, TypeOK, Row
  <2>2. \A s \in Run : runs'[s] \in {"COMPLETED", "IN_PROGRESS", "NONE"} =>
          runs[s] = runs'[s]
    BY <2>1
  <2> QED
    BY <2>1, <2>2 DEF Dated, Over
<1>5. CASE Tick
  BY <1>a, <1>5 DEF Tick, Dated
<1>6. CASE Cancel
  BY <1>6 DEF Cancel, Dated, Over, TypeOK, Row
<1>7. CASE EditTime
  <2>1. row'.next = now + 1 /\ UNCHANGED <<runs, now, period>>
    BY <1>7 DEF EditTime, TypeOK, Row
  <2>2. \A s \in Run : period[s] < now + 1
    BY <1>a DEF Dated
  <2> QED
    BY <2>1, <2>2 DEF Dated
<1>8. ASSUME NEW limit \in Limits, EditLimit(limit) PROVE Dated'
  BY <1>8 DEF EditLimit, Dated, TypeOK, Row
<1>9. ASSUME NEW c \in Console, ConsoleWrite(c) PROVE Dated'
  <2>1. row.status \notin Over
    BY <1>9 DEF ConsoleWrite, Upset, Undisturbed, ConsoleSane, Over
  <2>2. row'.next = row.next /\ UNCHANGED <<runs, now, period>>
    BY <1>9 DEF ConsoleWrite, Flush, TypeOK, Row
  <2> QED
    BY <2>1, <2>2 DEF Dated
<1>10. ASSUME NEW w \in Worker, Claim(w) PROVE Dated'
  <2>1. PICK r \in Run : Begin(w, r) /\ period' = [period EXCEPT ![r] = now]
    BY <1>10 DEF Claim
  <2>2. ~(row.next > now)
    BY <1>10 DEF Claim, Upset
  <2>3. row.next <= now
    BY <1>a, <2>2
  <2> QED
    BY <1>2, <1>10, <2>1, <2>3 DEF Claim
<1>11. ASSUME NEW w \in Worker, Trigger(w) PROVE Dated'
  <2>1. PICK r \in Run : Begin(w, r)
    BY <1>11 DEF Trigger
  <2> QED
    BY <1>2, <1>11, <2>1 DEF Trigger
<1> QED
  BY <1>1, <1>3, <1>4, <1>5, <1>6, <1>7, <1>8, <1>9, <1>10, <1>11
     DEF Next, Execute, Person, vars, Poll, ClaimNothing, ClaimFails,
         ReadRow, ReportFails, Crash, ConsoleRead

\* A cron time has at most one completed run: missed times are not made up for
\* one by one, and triggers, edits, crashes and retries do not repeat one that
\* was executed, as long as no claim works on a list that is out of date.
THEOREM OncePerCronTime == Spec => []OncePerPeriod
<1> DEFINE J == Undisturbed /\ "early" \notin upset => Dated
<1>1. Init => J
  BY DEF Init, Dated
<1>2. TypeOK /\ Exclusive /\ J /\ [Next]_vars => J'
  BY DatedStep, WasUndisturbed, UpsetGrows DEF Exclusive
<1>3. J => OncePerPeriod
  BY DEF OncePerPeriod, Dated
<1> HIDE DEF J
<1> QED
  BY <1>1, <1>2, <1>3, ExclusiveHolds, PTL DEF Spec
=============================================================================
