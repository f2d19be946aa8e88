----------------------------- MODULE MessageFate -----------------------------
(***************************************************************************)
(* What messaging promises of every message, whatever dies or fails on the *)
(* way and whoever carries it: it is queued once, tried MaxAttempts times  *)
(* at most, each try makes one session of it or none, and none is made     *)
(* when one is recorded; its verdict is true and is never taken back.      *)
(***************************************************************************)
EXTENDS Naturals

CONSTANTS Msg, MaxAttempts

VARIABLES
  status,   \* "none", "QUEUED", "DELIVERING", "DELIVERED" or "FAILED"
  tries,    \* tries begun
  made,     \* sessions made of the message
  recorded  \* one of them is recorded

vars == <<status, tries, made, recorded>>

Init ==
  /\ status = [m \in Msg |-> "none"]
  /\ tries = [m \in Msg |-> 0]
  /\ made = [m \in Msg |-> 0]
  /\ recorded = [m \in Msg |-> FALSE]

Send(m) ==
  /\ status[m] = "none"
  /\ status' = [status EXCEPT ![m] = "QUEUED"]
  /\ UNCHANGED <<tries, made, recorded>>

Try(m) ==
  /\ status[m] = "QUEUED" /\ tries[m] < MaxAttempts
  /\ status' = [status EXCEPT ![m] = "DELIVERING"]
  /\ tries' = [tries EXCEPT ![m] = @ + 1]
  /\ UNCHANGED <<made, recorded>>

\* A try makes a session, records it, ends, or several of these in one step.
Verdict(m, known) ==
  IF known THEN "DELIVERED"
  ELSE IF tries[m] < MaxAttempts THEN "QUEUED" ELSE "FAILED"

Work(m) ==
  /\ status[m] = "DELIVERING"
  /\ \E new \in {0, 1}, known \in BOOLEAN :
       /\ new = 1 => ~recorded[m] /\ made[m] < tries[m]
       /\ recorded[m] => known
       /\ known => made[m] + new > 0
       /\ made' = [made EXCEPT ![m] = @ + new]
       /\ recorded' = [recorded EXCEPT ![m] = known]
       /\ \E s \in {"DELIVERING", Verdict(m, known)} :
            status' = [status EXCEPT ![m] = s]
  /\ UNCHANGED tries

\* After a death of the process, the tries of several messages are ended.
Recover(interrupted) ==
  /\ status' = [m \in Msg |-> IF m \in interrupted THEN Verdict(m, recorded[m])
                                                   ELSE status[m]]
  /\ UNCHANGED <<tries, made, recorded>>

Next ==
  \/ \E m \in Msg : Send(m) \/ Try(m) \/ Work(m)
  \/ \E interrupted \in SUBSET {m \in Msg : status[m] = "DELIVERING"} :
       Recover(interrupted)

Spec == Init /\ [][Next]_vars
=============================================================================
