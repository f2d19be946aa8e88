----------------------------- MODULE ReplyStream -----------------------------
(***************************************************************************)
(* What the gateway promises of the replies of a session, whatever it does *)
(* to buffer, merge, split and resend them: a piece that was said is shown *)
(* or refused, and what is shown was said and stays shown.  A refusal only *)
(* says that nothing is promised: Slack may have the piece, or get it yet. *)
(* The promise ends when the stream is spoilt.                             *)
(***************************************************************************)
EXTENDS Naturals

CONSTANT Piece

VARIABLES said, shown, refused, \* sets of pieces
          spoilt                \* something has gone wrong that is never repaired

vars == <<said, shown, refused, spoilt>>

Init == said = {} /\ shown = {} /\ refused = {} /\ spoilt = FALSE

Say(n) ==
  /\ n \notin said
  /\ said' = said \cup {n}
  /\ UNCHANGED <<shown, refused, spoilt>>

\* The call of the piece is answered with a failure.
Refuse(n) ==
  /\ said' = said \cup {n} /\ refused' = refused \cup {n}
  /\ spoilt' \in {spoilt, TRUE}
  /\ UNCHANGED shown

Show ==
  /\ shown \subseteq shown' /\ shown' \subseteq said
  /\ UNCHANGED <<said, refused, spoilt>>

\* What was shown may be written over, now or later.
Spoil ==
  /\ spoilt' = TRUE /\ shown' \subseteq said
  /\ UNCHANGED <<said, refused>>

Next == Show \/ Spoil \/ \E n \in Piece : Say(n) \/ Refuse(n)

\* The pieces are finitely many: in the end nothing is left over.
Settles == <>[](spoilt \/ said \subseteq shown \cup refused)

Spec == Init /\ [][Next]_vars /\ Settles
=============================================================================
