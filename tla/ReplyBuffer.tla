----------------------------- MODULE ReplyBuffer -----------------------------
(***************************************************************************)
(* The replies of one agent session on their way to a Slack thread: what   *)
(* the turns say, the buffer in Redis, its flushes, the messages in Slack. *)
(*                                                                         *)
(* A step ends at an await that matters: a command on the buffer, a call   *)
(* of Slack, or the record of its answer in the session.  One client call, *)
(* or two after a timeout, run beside the flush manager.  A text is a      *)
(* sequence of the pieces that were said; Cap pieces fit into a message.   *)
(***************************************************************************)
EXTENDS Integers, Sequences, SequencesExt

CONSTANTS
  NumPieces,  \* bound: pieces said
  Cap,        \* pieces that fit into a message of Slack
  MaxCalls,   \* bound: client calls alive at once
  MaxMishaps  \* bound: ends of turns, timeouts of the client, updates longer
              \* than the gate, failing calls and crashes, together

ASSUME BoundsAssumption ==
  /\ NumPieces \in Nat /\ Cap \in Nat \ {0} /\ MaxCalls \in Nat
  /\ MaxMishaps \in Nat

Piece == 1..NumPieces
Type  == {"thinking", "text"}
Text  == Seq(Piece)

Manager == 0
Call    == 1..MaxCalls
Proc    == {Manager} \cup Call

VARIABLES
  types,      \* reply_type of each piece that was said
  client,     \* _run_agent_task: whether the next piece must start a message,
              \* the call it waits for
  session,    \* last_reply_ts, last_reply_content, last_reply_type
  buffer, bufferType, scheduled,  \* Redis: text, its type, the flush schedule
  gate,       \* the rate limit of chat.update
  slack,      \* messages of the thread
  procs,      \* calls of append_to_reply, add_reply, reset_turn_state; the manager
  refused,    \* pieces whose call was answered with a failure, shown or not
  upset,      \* history: what has gone wrong, see Properties
  budget      \* mishaps left

vars == <<types, client, session, buffer, bufferType, scheduled, gate, slack,
          procs, refused, upset, budget>>

\* A type that is not set is that of plain text; in a mutant it is another one.
UntypedNone == "none"

Untyped == "text"

NoReply == [ts |-> 0, content |-> <<>>, type |-> "text"]
Idle == [pc |-> "idle", piece |-> 0, text |-> <<>>, took |-> <<>>, type |-> "text",
         was |-> "text", seen |-> NoReply, ts |-> 0, ok |-> TRUE]

\* A session that start_session has just made.
Init ==
  /\ types = <<>>
  /\ client = [fresh |-> TRUE, waits |-> 0]
  /\ session = NoReply
  /\ buffer = <<>> /\ bufferType = "text" /\ scheduled = FALSE
  /\ gate = FALSE
  /\ slack = <<>>
  /\ procs = [p \in Proc |-> Idle]
  /\ refused = {}
  /\ upset = {}
  /\ budget = MaxMishaps

-----------------------------------------------------------------------------
(* Helpers                                                                 *)

Mishap == budget > 0 /\ budget' = budget - 1

\* Redis fails and is back for the next command: it counts as two.
Blip == budget > 1 /\ budget' = budget - 2

Upset(what, happens) == upset' = upset \cup IF happens THEN {what} ELSE {}

Become(p, proc) == procs' = [procs EXCEPT ![p] = proc]
Goto(p, pc)     == Become(p, [procs[p] EXCEPT !.pc = pc])

\* Of a call, only what it brings outlives its flush; what a flush took from the
\* buffer, only the flush.
Done(p, pc) == [Idle EXCEPT !.pc = pc, !.piece = procs[p].piece, !.took = procs[p].took,
                            !.was = procs[p].was, !.ok = procs[p].ok]

At(p, pc) == procs[p].pc = pc

First(text) == IF Len(text) <= Cap THEN text ELSE SubSeq(text, 1, Cap)
Rest(text)  == SubSeq(text, Cap + 1, Len(text))

\* The call is answered; the client, if it still listens, knows whether the
\* piece got through.
Answer(p, ok) ==
  /\ Become(p, Idle)
  /\ client' = IF client.waits # p \/ p = Manager THEN client
               ELSE [client EXCEPT !.waits = 0,
                                   !.fresh = @ /\ ~(ok /\ procs[p].piece # 0)]

\* Where a flush goes back to: an append of another type posts what it brings,
\* if the flush has failed after it has rescued what is buffered.
Return(p, ok) ==
  IF procs[p].piece = 0 THEN Answer(p, ok)
  ELSE /\ Become(p, [Done(p, IF ok THEN "post" ELSE "discard")
                       EXCEPT !.took = <<>>, !.ok = TRUE])
       /\ UNCHANGED client

\* A text goes back, behind what has arrived meanwhile; a mutant drops it.
RequeueNothing(text) == buffer' = buffer

Requeue(text) == buffer' = buffer \o text

\* What is wrong with a text that goes back: newer text is on its way, before
\* it in the buffer or past it; no flush is scheduled; Slack shows it already,
\* and the session does not know or knows too well.
Requeued(p, text, flush) ==
  upset' = upset \cup (IF Last(text) < Len(types) THEN {"late"} ELSE {})
                 \cup (IF ~flush THEN {"bare"} ELSE {})
                 \cup (IF At(p, "record") THEN {"unrecorded"} ELSE {})
                 \cup (IF text # procs[p].text THEN {"doubled"} ELSE {})

-----------------------------------------------------------------------------
(* _run_agent_task: the client                                             *)

CanCall(c) ==
  /\ client.waits = 0
  /\ procs[c] = Idle /\ \A b \in 1..(c - 1) : procs[b] # Idle

\* The agent says a piece.
Say ==
  /\ Len(types) < NumPieces
  /\ \E type \in Type : types' = Append(types, type)

Pending == buffer # <<>> \/ \E p \in Proc : procs[p].text # <<>>

\* send_reply: the first piece of a turn, or one long after the last, when what
\* was appended has been shown unless something took long.
SayNew(c) ==
  /\ CanCall(c) /\ Say
  /\ IF Pending /\ ~client.fresh THEN Mishap ELSE UNCHANGED budget
  /\ Upset("overtaken", Pending)
  /\ client' = [client EXCEPT !.waits = c]
  /\ Become(c, [Idle EXCEPT !.pc = "post", !.piece = Len(types')])
  /\ UNCHANGED <<session, buffer, bufferType, scheduled, gate, slack,
                 refused>>

\* append_reply, up to the decision of append_to_reply: buffer a piece of the
\* type that is current, or flush first.
SayMore(c) ==
  LET current == IF buffer # <<>> THEN bufferType ELSE session.type IN
  /\ CanCall(c) /\ Say
  /\ ~client.fresh /\ session.ts # 0
  /\ client' = [client EXCEPT !.waits = c]
  /\ Become(c, [Idle EXCEPT !.pc = IF current = Last(types') THEN "append" ELSE "read",
                            !.piece = Len(types'), !.was = current])
  /\ UNCHANGED <<session, buffer, bufferType, scheduled, gate, slack, refused,
                 upset, budget>>

\* The reply to append to was never recorded.
SayInVain ==
  /\ client.waits = 0 /\ Say
  /\ ~client.fresh /\ session.ts = 0
  /\ refused' = refused \cup {Len(types')}
  /\ UNCHANGED <<client, session, buffer, bufferType, scheduled, gate, slack,
                 procs, upset, budget>>

\* turn_end, when the last call has been answered or has timed out.
EndTurn(c) ==
  /\ CanCall(c) /\ ~client.fresh
  /\ Mishap
  /\ client' = [client EXCEPT !.fresh = TRUE, !.waits = c]
  /\ Become(c, [Idle EXCEPT !.pc = "discard"])
  /\ UNCHANGED <<types, session, buffer, bufferType, scheduled, gate, slack,
                 refused, upset>>

\* The client stops waiting, the gateway does not stop working.
TimeOut ==
  /\ client.waits # 0
  /\ Mishap
  /\ client' = [client EXCEPT !.waits = 0]
  /\ Upset("overtaken", TRUE)
  /\ UNCHANGED <<types, session, buffer, bufferType, scheduled, gate, slack,
                 procs, refused>>

-----------------------------------------------------------------------------
(* append_to_reply, the buffered path                                      *)

AppendToBuffer(p) ==
  /\ At(p, "append")
  /\ buffer' = Append(buffer, procs[p].piece)
  /\ Goto(p, "schedule")
  /\ UNCHANGED <<types, client, session, bufferType, scheduled, gate, slack,
                 refused, upset, budget>>

\* set_buffer_type and schedule_flush; a long buffer is flushed at once.
Schedule(p) ==
  /\ At(p, "schedule")
  /\ bufferType' = types[procs[p].piece]
  /\ scheduled' = TRUE
  /\ \/ Answer(p, TRUE)
     \/ Become(p, [Idle EXCEPT !.pc = "read"]) /\ UNCHANGED client
  /\ UNCHANGED <<types, session, buffer, gate, slack, refused, upset, budget>>

-----------------------------------------------------------------------------
(* flush_buffer                                                            *)

\* process_due_flushes: the entry stays in the schedule.
ManagerFlushes ==
  /\ scheduled /\ At(Manager, "idle")
  /\ Become(Manager, [Idle EXCEPT !.pc = "read"])
  /\ UNCHANGED <<types, client, session, buffer, bufferType, scheduled, gate,
                 slack, refused, upset, budget>>

FlushReads(p) ==
  /\ At(p, "read")
  /\ Become(p, [procs[p] EXCEPT !.pc = "look", !.seen = session])
  /\ UNCHANGED <<types, client, session, buffer, bufferType, scheduled, gate,
                 slack, refused, upset, budget>>

\* get_buffer_size and get_buffer_type.
FlushLooks(p) ==
  /\ At(p, "look")
  /\ IF buffer = <<>> THEN Become(p, Done(p, "unschedule"))
     ELSE Become(p, [procs[p] EXCEPT !.pc = "take", !.type = bufferType])
  /\ UNCHANGED <<types, client, session, buffer, bufferType, scheduled, gate,
                 slack, refused, upset, budget>>

\* clear_buffer.
FlushTakes(p) ==
  /\ At(p, "take")
  /\ IF buffer = <<>> THEN Become(p, Done(p, "unschedule"))
     ELSE Become(p, [procs[p] EXCEPT !.pc = "update", !.text = buffer, !.took = buffer])
  /\ buffer' = <<>>
  /\ UNCHANGED <<types, client, session, bufferType, scheduled, gate, slack,
                 refused, upset, budget>>

\* What the message is to become, from the content read at the beginning; a
\* mutant puts the new text first.
ContentReversed(p) == procs[p].text \o procs[p].seen.content

Content(p) == procs[p].seen.content \o procs[p].text

\* Another update of the message is under way, or the session has moved on.
Stale(p) ==
  \/ procs[p].seen # session
  \/ \E q \in Proc \ {p} : At(q, "record") /\ procs[q].seen.ts = procs[p].seen.ts

\* chat_update, when the gate lets it pass.
FlushUpdates(p) ==
  /\ At(p, "update")
  /\ ~gate /\ gate' = TRUE
  /\ slack' = [slack EXCEPT ![procs[p].seen.ts] =
                 [type |-> procs[p].type, text |-> First(Content(p))]]
  /\ Upset("stale", Stale(p))
  /\ Goto(p, "record")
  /\ UNCHANGED <<types, client, session, buffer, bufferType, scheduled, refused,
                 budget>>

\* A mutant: the flush relies on the schedule it came from.
FlushDeferredOnce(p) ==
  /\ At(p, "update")
  /\ \/ gate /\ UNCHANGED budget
     \/ Mishap
  /\ Requeue(procs[p].took)
  /\ Requeued(p, procs[p].took, TRUE)
  /\ Return(p, FALSE)
  /\ UNCHANGED <<types, session, bufferType, scheduled, gate, slack, refused>>

\* RateLimitDeferred: by the gate, which other sessions hold too, or by a 429.
FlushDeferred(p) ==
  /\ At(p, "update")
  /\ \/ gate /\ UNCHANGED budget
     \/ Mishap
  /\ Requeue(procs[p].took)
  /\ scheduled' = TRUE
  /\ Requeued(p, procs[p].took, TRUE)
  /\ Return(p, FALSE)
  /\ UNCHANGED <<types, session, bufferType, gate, slack, refused>>

\* Any other exception, from the update to the removal from the schedule, before
\* or after Slack or Redis has done what was asked: all that was taken goes back.
FlushFails(p) ==
  /\ procs[p].took # <<>>
  /\ IF procs[p].pc \in {"check", "unschedule"} THEN Blip ELSE Mishap
  /\ Requeue(procs[p].took)
  /\ scheduled' \in IF At(p, "unschedule") THEN {scheduled, FALSE} ELSE {scheduled}
  /\ Requeued(p, procs[p].took, scheduled')
  /\ Return(p, FALSE)
  /\ UNCHANGED <<types, session, bufferType, gate, slack, refused>>

\* record_reply.
FlushRecords(p) ==
  LET rest == Rest(Content(p)) IN
  /\ At(p, "record")
  /\ session' = [ts |-> procs[p].seen.ts, content |-> First(Content(p)),
                 type |-> procs[p].type]
  /\ Become(p, IF rest = <<>> THEN Done(p, "check")
               ELSE [Done(p, "spill") EXCEPT !.text = rest, !.type = procs[p].type])
  /\ UNCHANGED <<types, client, buffer, bufferType, scheduled, gate, slack,
                 refused, upset, budget>>

\* Only when no new text has arrived the flush leaves the schedule.
FlushChecks(p) ==
  /\ At(p, "check")
  /\ IF buffer = <<>> THEN Goto(p, "unschedule") /\ UNCHANGED client
     ELSE Return(p, procs[p].ok)
  /\ UNCHANGED <<types, session, buffer, bufferType, scheduled, gate, slack,
                 refused, upset, budget>>

\* remove_from_flush_schedule and clear_buffer_type: the end of a flush that
\* has nothing to show, and of discard_buffer.
Unschedule(p) ==
  /\ At(p, "unschedule")
  /\ scheduled' = FALSE
  /\ bufferType' = Untyped
  /\ Upset("bare", buffer # <<>> /\ ~\E q \in Call : At(q, "schedule"))
  /\ IF procs[p].text # <<>> THEN Goto(p, "rescue") /\ UNCHANGED client
     ELSE Return(p, procs[p].ok)
  /\ UNCHANGED <<types, session, buffer, gate, slack, refused, budget>>

-----------------------------------------------------------------------------
(* add_reply: the piece of a call, a rescued text, the overflow of a flush *)

Posting == {"post", "rescue", "spill"}

\* What is posted, and as what.
Chunk(p) == IF At(p, "post") THEN <<procs[p].piece>>
            ELSE IF At(p, "spill") THEN First(procs[p].text)
            ELSE procs[p].text
PostedAs(p) == IF At(p, "post") THEN types[procs[p].piece]
               ELSE IF At(p, "spill") THEN procs[p].type
               ELSE procs[p].was

\* chat_postMessage, which cuts a text that is too long: only a rescued one is.
Posts(p) ==
  /\ procs[p].pc \in Posting /\ procs[p].ts = 0
  /\ slack' = Append(slack, [type |-> PostedAs(p), text |-> First(Chunk(p))])
  /\ Upset("rescue", Len(Chunk(p)) > Cap)
  /\ Become(p, [procs[p] EXCEPT !.ts = Len(slack) + 1])
  /\ UNCHANGED <<types, client, session, buffer, bufferType, scheduled, gate,
                 refused, budget>>

\* add_reply fails, before or after Slack has made the message, which may come
\* back without a ts or not at all.  The piece of a call is refused; a rescued
\* text is given up, and the piece after it too unless add_reply has answered;
\* an overflow goes back and is found by the check that follows, if it has.
PostFails(p) ==
  /\ Mishap
  /\ \/ /\ At(p, "post") \/ At(p, "rescue")
        /\ refused' = refused \cup {procs[p].piece}
        /\ Answer(p, FALSE)
        /\ Upset("rescue", At(p, "rescue") /\ procs[p].ts = 0)
        /\ UNCHANGED buffer
     \/ /\ At(p, "rescue")
        /\ Become(p, Done(p, "post"))
        /\ Upset("rescue", procs[p].ts = 0)
        /\ UNCHANGED <<client, buffer, refused>>
     \/ /\ At(p, "spill")
        /\ Requeue(procs[p].text)
        /\ Requeued(p, procs[p].text, scheduled)
        /\ Become(p, [Done(p, "check") EXCEPT !.ok = FALSE])
        /\ UNCHANGED <<client, refused>>
  /\ UNCHANGED <<types, session, bufferType, scheduled, gate, slack>>

\* record_reply, whose failure is only logged.
PostRecorded(p) ==
  LET rest == Rest(procs[p].text) IN
  /\ procs[p].ts # 0
  /\ \/ /\ session' = [ts |-> procs[p].ts, content |-> Chunk(p), type |-> PostedAs(p)]
        /\ UNCHANGED budget
     \/ Mishap /\ UNCHANGED session
  /\ \/ At(p, "post") /\ Answer(p, TRUE)
     \/ /\ At(p, "rescue")
        /\ Become(p, Done(p, "post"))
        /\ UNCHANGED client
     \/ /\ At(p, "spill")
        /\ Become(p, IF rest = <<>> THEN Done(p, "check")
                     ELSE [procs[p] EXCEPT !.text = rest, !.ts = 0])
        /\ UNCHANGED client
  /\ UNCHANGED <<types, buffer, bufferType, scheduled, gate, slack, refused, upset>>

-----------------------------------------------------------------------------
(* discard_buffer, crash, gate                                             *)

\* A type switch keeps the text, to rescue it; the end of a turn drops it.
Discard(p) ==
  LET keeps == procs[p].piece # 0 IN
  /\ At(p, "discard")
  /\ Become(p, [procs[p] EXCEPT !.pc = "unschedule",
                                !.text = IF keeps THEN buffer ELSE <<>>])
  /\ buffer' = <<>>
  /\ Upset("turn", ~keeps /\ buffer # <<>>)
  /\ UNCHANGED <<types, client, session, bufferType, scheduled, gate, slack,
                 refused, budget>>

\* A command on the buffer fails before there is anything to put back: the call
\* is answered with a failure, though its piece may be in the buffer.
CallFails(p) ==
  /\ procs[p].pc \notin {"idle"} \cup Posting /\ procs[p].took = <<>>
  /\ Mishap
  /\ refused' = refused \cup ({procs[p].piece} \ {0})
  /\ bufferType' \in IF At(p, "schedule") THEN {bufferType, types[procs[p].piece]}
                    ELSE {bufferType}
  /\ upset' = upset \cup (IF At(p, "schedule") /\ ~scheduled THEN {"bare"} ELSE {})
                    \cup (IF procs[p].text # <<>> THEN {"rescue"} ELSE {})
  /\ Answer(p, FALSE)
  /\ UNCHANGED <<types, session, buffer, scheduled, gate, slack>>

\* The gateway dies; Redis and Slack do not.
Crash ==
  /\ \E p \in Proc : procs[p] # Idle
  /\ Mishap
  /\ procs' = [p \in Proc |-> Idle]
  /\ client' = [client EXCEPT !.waits = 0]
  /\ Upset("crash", TRUE)
  /\ UNCHANGED <<types, session, buffer, bufferType, scheduled, gate, slack,
                 refused>>

\* An update takes longer than the gate is held only by a delay.
GateOpens ==
  /\ gate /\ gate' = FALSE
  /\ IF \E p \in Proc : At(p, "record") THEN Mishap ELSE UNCHANGED budget
  /\ UNCHANGED <<types, client, session, buffer, bufferType, scheduled, slack,
                 procs, refused, upset>>

-----------------------------------------------------------------------------

Flush(p) ==
  \/ FlushReads(p) \/ FlushLooks(p) \/ FlushTakes(p)
  \/ FlushUpdates(p) \/ FlushDeferred(p) \/ FlushRecords(p) \/ FlushChecks(p)
  \/ Unschedule(p)

Reply(p) == Posts(p) \/ PostRecorded(p)

Work(p) == Flush(p) \/ Reply(p) \/ AppendToBuffer(p) \/ Schedule(p) \/ Discard(p)

Next ==
  \/ \E c \in Call : SayNew(c) \/ SayMore(c) \/ EndTurn(c)
  \/ ManagerFlushes
  \/ \E p \in Proc : Work(p) \/ FlushFails(p) \/ PostFails(p) \/ CallFails(p)
  \/ SayInVain \/ TimeOut \/ Crash \/ GateOpens

Spec == Init /\ [][Next]_vars

\* run_flush_manager loops, calls run on, the gate is a key that expires.
\* Nothing is assumed of the client.
Fairness ==
  /\ WF_vars(ManagerFlushes)
  /\ \A p \in Proc : WF_vars(Work(p))
  /\ WF_vars(GateOpens)

FairSpec == Spec /\ Fairness

-----------------------------------------------------------------------------
(* Properties                                                              *)

Message == [type: Type, text: Text]
Reply_  == [ts: Nat, content: Text, type: Type]

\* Types of the session, the keys in Redis, the thread and the processes.
TypeOK ==
  /\ types \in Seq(Type) /\ Len(types) <= NumPieces
  /\ client \in [fresh: BOOLEAN, waits: 0..MaxCalls]
  /\ session \in Reply_
  /\ buffer \in Text /\ bufferType \in Type
  /\ scheduled \in BOOLEAN /\ gate \in BOOLEAN
  /\ slack \in Seq(Message)
  /\ procs \in [Proc -> [pc: {"idle", "append", "schedule", "read", "look",
                              "take", "update", "record", "check", "unschedule",
                              "discard", "post", "rescue", "spill"},
                         piece: 0..NumPieces, text: Text, took: Text, type: Type,
                         was: Type, seen: Reply_, ts: Nat, ok: BOOLEAN]]
  /\ refused \subseteq Piece
  /\ upset \subseteq {"late", "overtaken", "bare", "unrecorded", "doubled", "stale",
                     "rescue", "turn", "crash"}
  /\ budget \in 0..MaxMishaps

Said  == DOMAIN types
Shown == UNION {ToSet(slack[m].text) : m \in DOMAIN slack}
Held  == ToSet(buffer) \cup {procs[p].piece : p \in Proc}
                       \cup UNION {ToSet(procs[p].text) : p \in Proc}

\* turn: the end of a turn dropped text; rescue: what was rescued was not posted,
\* or not all of it; stale: a flush wrote a message that another one had changed.
Lossy == {"turn", "rescue", "crash", "stale"}

\* Through every flush, refusal, type switch and overflow a piece is in Slack,
\* in the buffer or in the hands of somebody.
TextKept ==
  upset \cap Lossy = {} => Said \subseteq Shown \cup Held \cup refused

\* A message tells its pieces in the order they were said, unless a text went
\* back behind a newer one or after it was shown, or a reply was posted while an
\* older one was under way.
InOrder ==
  upset \cap {"late", "overtaken", "doubled"} = {} =>
    \A m \in DOMAIN slack :
      \A i, j \in DOMAIN slack[m].text : i < j => slack[m].text[i] < slack[m].text[j]

\* "This prevents a race where new content is buffered but its scheduled flush
\* is removed."
BufferedIsScheduled ==
  buffer # <<>> /\ (\A p \in Proc : procs[p] = Idle) => scheduled

\* Append, flush, deferral, type switch and overflow together implement the
\* stream of replies: every accepted piece reaches the thread and stays there,
\* as long as no text was lost, written over or left without a flush.
Stream == INSTANCE ReplyStream WITH
  said <- Said, shown <- Shown, spoilt <- upset \cap (Lossy \cup {"bare", "unrecorded"}) # {}

StreamKept == Stream!Spec
=============================================================================
