------------------------------ MODULE SessionLog ------------------------------
(***************************************************************************)
(* What a session promises of the messages it is given and of its turns,   *)
(* however it queues, drains, stops and restarts: a turn is for messages   *)
(* that no other turn has and that nobody was told are refused or gone;    *)
(* what a turn is for never changes; an outcome of a turn stays.  Once the *)
(* log is spoilt, a message may be told twice, or be gone though told.     *)
(***************************************************************************)
EXTENDS Naturals

CONSTANTS Msg, MaxTurns

VARIABLES
  fate,     \* "open", "accepted", "refused" or "gone"
  turns,    \* turns begun
  told,     \* the messages each turn is for
  outcome,  \* the outcomes recorded for each turn
  spoilt

vars == <<fate, turns, told, outcome, spoilt>>

Turn == 1..MaxTurns

Init ==
  /\ fate = [m \in Msg |-> "open"]
  /\ turns = 0
  /\ told = [t \in Turn |-> {}]
  /\ outcome = [t \in Turn |-> {}]
  /\ spoilt = FALSE

Untold(m) == \A t \in Turn : m \notin told[t]

Accept(m) ==
  /\ fate[m] = "open"
  /\ fate' = [fate EXCEPT ![m] = "accepted"]
  /\ UNCHANGED <<turns, told, outcome, spoilt>>

\* A turn for messages that wait, or that it is the first to accept.
Begin(messages) ==
  /\ turns < MaxTurns
  /\ ~spoilt => \A m \in messages : fate[m] \in {"open", "accepted"} /\ Untold(m)
  /\ turns' = turns + 1
  /\ told' = [told EXCEPT ![turns + 1] = messages]
  /\ fate' = [m \in Msg |-> IF m \in messages /\ fate[m] = "open" THEN "accepted"
                                                                 ELSE fate[m]]
  /\ UNCHANGED <<outcome, spoilt>>

Close(t, row) ==
  /\ t <= turns
  /\ outcome' = [outcome EXCEPT ![t] = @ \cup {row}]
  /\ UNCHANGED <<fate, turns, told, spoilt>>

\* Messages are refused, discarded by a stop, or lost with the process.
Drop(refused, gone) ==
  /\ \A m \in refused : fate[m] = "open"
  /\ ~spoilt => \A m \in gone : fate[m] \in {"open", "accepted"} /\ Untold(m)
  /\ fate' = [m \in Msg |-> IF m \in refused THEN "refused"
                            ELSE IF m \in gone THEN "gone" ELSE fate[m]]
  /\ UNCHANGED <<turns, told, outcome, spoilt>>

\* A write fails: whoever made it can not tell what has been written.
Spoil == spoilt' = TRUE /\ UNCHANGED <<fate, turns, told, outcome>>

Next ==
  \/ \E m \in Msg : Accept(m)
  \/ \E messages \in SUBSET Msg : Begin(messages)
  \/ \E t \in Turn, row \in {"AGENT", "SYSTEM"} : Close(t, row)
  \/ \E refused, gone \in SUBSET Msg : Drop(refused, gone)
  \/ Spoil

Spec == Init /\ [][Next]_vars
=============================================================================
