------------------------- MODULE ReplyBuffer_proofs -------------------------
(***************************************************************************)
(* Theorems about ReplyBuffer, for all bounds and any size of a message.   *)
(***************************************************************************)
EXTENDS ReplyBuffer, SequenceTheorems, TLAPS

-----------------------------------------------------------------------------
(* Texts                                                                   *)

\* What a text is cut into fits, and is all of the text.
LEMMA Cut ==
  ASSUME NEW S, NEW text \in Seq(S)
  PROVE  /\ First(text) \in Seq(S) /\ Rest(text) \in Seq(S)
         /\ Len(First(text)) <= Cap
         /\ ToSet(text) = ToSet(First(text)) \cup ToSet(Rest(text))
         /\ Len(text) <= Cap => First(text) = text /\ Rest(text) = <<>>
<1> DEFINE n == Len(text)
<1>0. Cap \in Nat \ {0} /\ n \in Nat
  BY BoundsAssumption
<1>1. CASE n <= Cap
  <2>1. Rest(text) = <<>>
    BY <1>0, <1>1 DEF Rest
  <2>2. ToSet(<<>>) = {}
    BY DEF ToSet
  <2> QED
    BY <1>0, <1>1, <2>1, <2>2 DEF First
<1>2. CASE ~(n <= Cap)
  <2>1. First(text) = SubSeq(text, 1, Cap)
    BY <1>2 DEF First
  <2>2. /\ First(text) \in Seq(S) /\ Len(First(text)) = Cap
        /\ \A i \in 1..Cap : First(text)[i] = text[i]
    BY <1>0, <1>2, <2>1
  <2>3. /\ Rest(text) \in Seq(S) /\ Len(Rest(text)) = n - Cap
        /\ \A i \in 1..(n - Cap) : Rest(text)[i] = text[Cap + i]
    BY <1>0, <1>2 DEF Rest
  <2>4. ToSet(text) \subseteq ToSet(First(text)) \cup ToSet(Rest(text))
    <3> SUFFICES ASSUME NEW i \in 1..n
                 PROVE  text[i] \in ToSet(First(text)) \cup ToSet(Rest(text))
      BY DEF ToSet
    <3>1. CASE i <= Cap
      BY <1>0, <2>2, <3>1 DEF ToSet
    <3>2. CASE ~(i <= Cap)
      <4>1. i - Cap \in 1..(n - Cap) /\ Cap + (i - Cap) = i
        BY <1>0, <3>2
      <4>2. text[i] = Rest(text)[i - Cap]
        BY <2>3, <4>1
      <4>3. i - Cap \in DOMAIN Rest(text)
        BY <2>3, <4>1
      <4> QED
        BY <4>2, <4>3 DEF ToSet
    <3> QED
      BY <3>1, <3>2
  <2>5. ToSet(First(text)) \subseteq ToSet(text)
    BY <1>0, <1>2, <2>2 DEF ToSet
  <2>6. ToSet(Rest(text)) \subseteq ToSet(text)
    <3>1. \A i \in 1..(n - Cap) : Cap + i \in 1..n
      BY <1>0, <1>2
    <3> QED
      BY <2>3, <3>1 DEF ToSet
  <2> QED
    BY <1>2, <2>2, <2>3, <2>4, <2>5, <2>6
<1> QED
  BY <1>1, <1>2

LEMMA Joined ==
  ASSUME NEW S, NEW s \in Seq(S), NEW t \in Seq(S)
  PROVE  /\ s \o t \in Seq(S)
         /\ ToSet(s \o t) = ToSet(s) \cup ToSet(t)
<1>1. /\ s \o t \in Seq(S) /\ Len(s \o t) = Len(s) + Len(t)
      /\ \A i \in 1..Len(s) : (s \o t)[i] = s[i]
      /\ \A i \in 1..Len(t) : (s \o t)[Len(s) + i] = t[i]
  BY ConcatProperties
<1>2. ToSet(s \o t) \subseteq ToSet(s) \cup ToSet(t)
  <2> SUFFICES ASSUME NEW i \in 1..(Len(s) + Len(t))
               PROVE  (s \o t)[i] \in ToSet(s) \cup ToSet(t)
    BY <1>1 DEF ToSet
  <2>1. CASE i <= Len(s)
    BY <1>1, <2>1 DEF ToSet
  <2>2. CASE ~(i <= Len(s))
    <3>1. i - Len(s) \in 1..Len(t) /\ Len(s) + (i - Len(s)) = i
      BY <2>2
    <3>2. (s \o t)[i] = t[i - Len(s)]
      BY <1>1, <3>1
    <3> QED
      BY <3>1, <3>2 DEF ToSet
  <2> QED
    BY <2>1, <2>2
<1>3. ToSet(s) \subseteq ToSet(s \o t)
  BY <1>1 DEF ToSet
<1>4. ToSet(t) \subseteq ToSet(s \o t)
  <2> SUFFICES ASSUME NEW i \in 1..Len(t)
               PROVE  t[i] \in ToSet(s \o t)
    BY SMTT(40) DEF ToSet
  <2>1. (s \o t)[Len(s) + i] = t[i]
    BY <1>1
  <2>2. Len(s) + i \in DOMAIN (s \o t)
    BY <1>1
  <2> HIDE DEF ToSet
  <2> QED
    BY <2>1, <2>2 DEF ToSet
<1> QED
  BY <1>1, <1>2, <1>3, <1>4

\* A message that fits keeps its pieces when a text is added to it.
LEMMA Grows ==
  ASSUME NEW S, NEW s \in Seq(S), NEW t \in Seq(S), Len(s) <= Cap
  PROVE  ToSet(s) \subseteq ToSet(First(s \o t))
<1>0. Cap \in Nat \ {0}
  BY BoundsAssumption
<1>1. /\ s \o t \in Seq(S) /\ Len(s \o t) = Len(s) + Len(t)
      /\ \A i \in 1..Len(s) : (s \o t)[i] = s[i]
  BY ConcatProperties
<1>2. CASE Len(s \o t) <= Cap
  BY <1>1, <1>2 DEF First, ToSet
<1>3. CASE ~(Len(s \o t) <= Cap)
  <2>1. First(s \o t) = SubSeq(s \o t, 1, Cap)
    BY <1>3 DEF First
  <2>2. /\ Len(First(s \o t)) = Cap
        /\ \A i \in 1..Cap : First(s \o t)[i] = (s \o t)[i]
    BY <1>0, <1>1, <1>3, <2>1
  <2> QED
    BY <1>0, <1>1, <2>2 DEF ToSet
<1> QED
  BY <1>2, <1>3
\* What does not fit beside a text that fits is of the other.
LEMMA RestOfSecond ==
  ASSUME NEW S, NEW s \in Seq(S), NEW t \in Seq(S), Len(s) <= Cap
  PROVE  ToSet(Rest(s \o t)) \subseteq ToSet(t)
<1> DEFINE r == s \o t
           b == Rest(r)
<1>0. Cap \in Nat \ {0} /\ Len(s) \in Nat /\ Len(t) \in Nat
  BY BoundsAssumption
<1>1. /\ r \in Seq(S) /\ Len(r) = Len(s) + Len(t)
      /\ \A i \in (Len(s) + 1)..Len(r) : i - Len(s) \in DOMAIN t /\ r[i] = t[i - Len(s)]
  OBVIOUS
<1> HIDE DEF r
<1>2. CASE Len(r) <= Cap
  <2>1. b = <<>>
    BY <1>1, <1>2, Cut
  <2> HIDE DEF b
  <2>2. ToSet(b) = {}
    BY <2>1 DEF ToSet
  <2> QED
    BY <2>2 DEF b, r
<1>3. CASE ~(Len(r) <= Cap)
  <2>1. /\ DOMAIN b = 1..(Len(r) - Cap)
        /\ \A i \in DOMAIN b : b[i] = r[Cap + i]
    BY <1>0, <1>1, <1>3, SMTT(40) DEF Rest
  <2> HIDE DEF b
  <2>2. \A i \in DOMAIN b : Cap + i \in (Len(s) + 1)..Len(r)
    BY <1>0, <1>1, <2>1, SMTT(40)
  <2>3. \A i \in DOMAIN b : b[i] \in ToSet(t)
    BY <1>1, <2>1, <2>2 DEF ToSet
  <2> QED
    BY <2>3 DEF ToSet, b, r
<1> QED
  BY <1>2, <1>3

-----------------------------------------------------------------------------
(* Types                                                                   *)

PC == {"idle", "append", "schedule", "read", "look", "take", "update", "record",
       "check", "unschedule", "discard", "post", "rescue", "spill"}

ProcType == [pc: PC, piece: 0..NumPieces, text: Text, took: Text, type: Type,
             was: Type, seen: Reply_, ts: Nat, ok: BOOLEAN]

\* What a process holds at each of its steps, when n pieces have been said.
WellFormed(v, n) ==
  /\ v.piece <= n
  /\ v.pc = "idle" => v.piece = 0
  /\ v.pc \in {"append", "schedule", "post", "rescue"} => v.piece # 0
  /\ v.pc = "unschedule" /\ v.text # <<>> => v.piece # 0
  /\ v.text # <<>> => v.pc \in {"update", "record", "unschedule", "rescue", "spill"}
  /\ v.ts # 0 => v.pc \in Posting
  /\ v.took # <<>> => v.pc \in {"update", "record", "spill", "check", "unschedule"}
  /\ v.pc \in {"update", "record"} => v.took = v.text /\ v.took # <<>>
  /\ v.pc = "unschedule" /\ v.text # <<>> => v.took = <<>>

Shape == \A p \in Proc : WellFormed(procs[p], Len(types))

LEMMA ConstantTypes ==
  /\ NumPieces \in Nat /\ Cap \in Nat \ {0} /\ MaxCalls \in Nat /\ MaxMishaps \in Nat
  /\ NoReply \in Reply_ /\ Idle \in ProcType /\ <<>> \in Text
BY BoundsAssumption DEF NoReply, Reply_, Idle, ProcType, PC, Text, Type

LEMMA ProcTyped == ASSUME TypeOK, NEW p \in Proc PROVE procs[p] \in ProcType
BY DEF TypeOK, ProcType, PC

\* A message written over.
LEMMA WriteType ==
  ASSUME NEW S, NEW s \in Seq(S), NEW i, NEW e \in S
  PROVE  [s EXCEPT ![i] = e] \in Seq(S)
<1>1. CASE i \in 1..Len(s)
  BY <1>1, ExceptSeq
<1>2. CASE i \notin 1..Len(s)
  <2>1. [s EXCEPT ![i] = e] = s
    BY <1>2
  <2> QED
    BY <2>1
<1> QED
  BY <1>1, <1>2

\* A process that goes on to another step, with what it has read.
LEMMA MovedType ==
  ASSUME NEW v \in ProcType, NEW pc \in PC
  PROVE  /\ [v EXCEPT !.pc = pc] \in ProcType
         /\ \A reply \in Reply_ : [v EXCEPT !.pc = pc, !.seen = reply] \in ProcType
         /\ \A type \in Type : [v EXCEPT !.pc = pc, !.type = type] \in ProcType
         /\ \A text \in Text : [v EXCEPT !.pc = pc, !.text = text] \in ProcType
         /\ \A text \in Text :
              [v EXCEPT !.pc = pc, !.text = text, !.took = text] \in ProcType
BY DEF ProcType

\* A call that brings piece n.
LEMMA CallerType ==
  ASSUME NEW n \in 1..NumPieces, NEW pc \in PC \ {"idle", "update", "record"},
         NEW was \in Type
  PROVE  /\ [Idle EXCEPT !.pc = "post", !.piece = n] \in ProcType
         /\ WellFormed([Idle EXCEPT !.pc = "post", !.piece = n], n)
         /\ [Idle EXCEPT !.pc = pc, !.piece = n, !.was = was] \in ProcType
         /\ WellFormed([Idle EXCEPT !.pc = pc, !.piece = n, !.was = was], n)
<1>1. n \in 0..NumPieces /\ "post" \in PC /\ Idle \in ProcType
  BY ConstantTypes DEF PC
<1>2. /\ [Idle EXCEPT !.pc = "post", !.piece = n] \in ProcType
      /\ [Idle EXCEPT !.pc = pc, !.piece = n, !.was = was] \in ProcType
  BY <1>1 DEF ProcType
<1>3. /\ WellFormed([Idle EXCEPT !.pc = "post", !.piece = n], n)
      /\ WellFormed([Idle EXCEPT !.pc = pc, !.piece = n, !.was = was], n)
  BY DEF WellFormed, Idle
<1> QED
  BY <1>2, <1>3

\* The answer of a call and the return of a flush.
LEMMA AnswerType ==
  ASSUME TypeOK, NEW p \in Proc, NEW ok \in BOOLEAN, Answer(p, ok)
  PROVE  /\ procs' = [procs EXCEPT ![p] = Idle]
         /\ client' \in [fresh: BOOLEAN, waits: 0..MaxCalls]
<1> DEFINE fresh == client.fresh /\ ~(ok /\ procs[p].piece # 0)
           answered == [client EXCEPT !.waits = 0, !.fresh = fresh]
<1>1. client \in [fresh: BOOLEAN, waits: 0..MaxCalls] /\ 0 \in 0..MaxCalls
  BY ConstantTypes DEF TypeOK
<1>2. fresh \in BOOLEAN
  OBVIOUS
<1>3. \A b \in BOOLEAN : [client EXCEPT !.waits = 0, !.fresh = b]
                           \in [fresh: BOOLEAN, waits: 0..MaxCalls]
  BY <1>1
<1>4. answered \in [fresh: BOOLEAN, waits: 0..MaxCalls]
  BY <1>2, <1>3
<1>5. client' = client \/ client' = answered
  BY DEF Answer
<1> QED
  BY <1>1, <1>4, <1>5 DEF Answer, Become

LEMMA DoneType ==
  ASSUME TypeOK, Shape, NEW p \in Proc, NEW pc \in PC \ {"idle", "update", "record"},
         pc \in {"append", "schedule", "post", "rescue"} => procs[p].piece # 0,
         pc \in {"spill", "check", "unschedule"} \/ procs[p].took = <<>>
  PROVE  /\ Done(p, pc) \in ProcType
         /\ WellFormed(Done(p, pc), Len(types))
<1>1. procs[p] \in ProcType
  BY ProcTyped
<1>2. Done(p, pc) \in ProcType
  BY <1>1, ConstantTypes DEF Done, ProcType
<1>3. procs[p].piece <= Len(types)
  BY DEF Shape, WellFormed
<1> QED
  BY <1>2, <1>3 DEF Done, WellFormed, Idle

LEMMA IdleShape == ASSUME TypeOK PROVE WellFormed(Idle, Len(types))
BY DEF WellFormed, Idle, TypeOK

LEMMA ReturnType ==
  ASSUME TypeOK, Shape, NEW p \in Proc, NEW ok \in BOOLEAN, Return(p, ok)
  PROVE  /\ client' \in [fresh: BOOLEAN, waits: 0..MaxCalls]
         /\ \E v \in ProcType : /\ WellFormed(v, Len(types))
                                /\ procs' = [procs EXCEPT ![p] = v]
<1>1. CASE procs[p].piece = 0
  BY <1>1, AnswerType, IdleShape, ConstantTypes DEF Return
<1>2. CASE procs[p].piece # 0
  <2> DEFINE pc == IF ok THEN "post" ELSE "discard"
             v == [Done(p, pc) EXCEPT !.took = <<>>, !.ok = TRUE]
  <2>1. procs[p] \in ProcType /\ procs[p].piece <= Len(types)
    BY ProcTyped DEF Shape, WellFormed
  <2>2. v \in ProcType /\ WellFormed(v, Len(types))
    <3>1. v \in ProcType
      BY <2>1, ConstantTypes DEF Done, ProcType, PC
    <3>2. /\ v.pc \in {"post", "discard"} /\ v.piece = procs[p].piece
          /\ v.text = <<>> /\ v.took = <<>> /\ v.ts = 0
      BY DEF Done, Idle
    <3> HIDE DEF v
    <3> QED
      BY <1>2, <2>1, <3>1, <3>2 DEF WellFormed
  <2>3. procs' = [procs EXCEPT ![p] = v] /\ client' = client
    BY <1>2 DEF Return, Become
  <2> QED
    BY <2>2, <2>3 DEF TypeOK
<1> QED
  BY <1>1, <1>2

\* The processes after a step of one of them.
LEMMA StepType ==
  ASSUME TypeOK, Shape, NEW p \in Proc, NEW v \in ProcType,
         procs' = [procs EXCEPT ![p] = v],
         Len(types) <= Len(types'), Len(types') \in Nat,
         WellFormed(v, Len(types'))
  PROVE  procs' \in [Proc -> ProcType] /\ Shape'
<1>1. procs \in [Proc -> ProcType] /\ Len(types) \in Nat
  BY DEF TypeOK, ProcType, PC
<1>2. \A q \in Proc : WellFormed(procs[q], Len(types'))
  BY <1>1 DEF Shape, WellFormed, ProcType
<1>3. \A q \in Proc : WellFormed(procs'[q], Len(types'))
  BY <1>1, <1>2
<1> QED
  BY <1>1, <1>3 DEF Shape

LEMMA UpsetType ==
  ASSUME upset \subseteq {"late", "overtaken", "bare", "unrecorded", "doubled", "stale",
                         "rescue", "turn", "crash"},
         NEW what \in {"late", "overtaken", "bare", "unrecorded", "doubled", "stale",
                      "rescue", "turn", "crash"},
         NEW happens, Upset(what, happens)
  PROVE  upset' \subseteq {"late", "overtaken", "bare", "unrecorded", "doubled", "stale",
                          "rescue", "turn", "crash"}
BY DEF Upset

LEMMA RequeueType ==
  ASSUME TypeOK, NEW p \in Proc, NEW text \in Text, NEW flush,
         Requeue(text), Requeued(p, text, flush)
  PROVE  /\ buffer' \in Text
         /\ upset' \subseteq {"late", "overtaken", "bare", "unrecorded", "doubled", "stale",
                             "rescue", "turn", "crash"}
<1>1. text \in Seq(Piece) /\ buffer \in Seq(Piece)
  BY DEF TypeOK, Text
<1>2. buffer' \in Text
  BY <1>1, Joined DEF Requeue, Text
<1> QED
  BY <1>2 DEF Requeued, TypeOK

LEMMA MishapType == ASSUME TypeOK, Mishap PROVE budget' \in 0..MaxMishaps
BY ConstantTypes DEF TypeOK, Mishap

LEMMA BlipType == ASSUME TypeOK, Blip PROVE budget' \in 0..MaxMishaps
BY ConstantTypes DEF TypeOK, Blip

LEMMA SayType ==
  ASSUME TypeOK, Say
  PROVE  /\ types' \in Seq(Type) /\ Len(types') = Len(types) + 1
         /\ Len(types') \in 1..NumPieces /\ Len(types') \in Piece
         /\ types'[Len(types')] \in Type /\ Last(types') \in Type
         /\ \A i \in 1..Len(types) : types'[i] = types[i]
<1>1. PICK type \in Type : types' = Append(types, type)
  BY DEF Say
<1>2. types \in Seq(Type) /\ Len(types) \in Nat /\ Len(types) < NumPieces
  BY DEF TypeOK, Say
<1>3. /\ types' \in Seq(Type) /\ Len(types') = Len(types) + 1
      /\ types'[Len(types')] = type
      /\ \A i \in 1..Len(types) : types'[i] = types[i]
  BY <1>1, <1>2
<1>4. Len(types') \in 1..NumPieces
  BY <1>2, <1>3, ConstantTypes
<1> QED
  BY <1>3, <1>4 DEF Piece, Last

\* What is posted, and what a message is made of.
LEMMA ChunkType ==
  ASSUME TypeOK, Shape, NEW p \in Proc
  PROVE  /\ Content(p) \in Text /\ First(Content(p)) \in Text
         /\ Rest(Content(p)) \in Text
         /\ First(procs[p].text) \in Text /\ Rest(procs[p].text) \in Text
         /\ procs[p].pc \in Posting => Chunk(p) \in Text /\ First(Chunk(p)) \in Text
         /\ procs[p].pc \in Posting => PostedAs(p) \in Type
<1>1. procs[p] \in ProcType /\ WellFormed(procs[p], Len(types))
  BY ProcTyped DEF Shape
<1>2. procs[p].text \in Seq(Piece) /\ procs[p].seen.content \in Seq(Piece)
  BY <1>1 DEF ProcType, Reply_, Text
<1>3. Content(p) \in Seq(Piece)
  BY <1>2, Joined DEF Content
<1>4. /\ First(Content(p)) \in Text /\ Rest(Content(p)) \in Text
      /\ First(procs[p].text) \in Text /\ Rest(procs[p].text) \in Text
  BY <1>2, <1>3, Cut DEF Text
<1>5. At(p, "post") => /\ procs[p].piece \in Piece
                       /\ procs[p].piece \in 1..Len(types) /\ types \in Seq(Type)
  BY <1>1 DEF At, ProcType, WellFormed, Piece, TypeOK
<1>6. At(p, "post") => <<procs[p].piece>> \in Seq(Piece)
  BY <1>5
<1>7. Chunk(p) \in Seq(Piece)
  BY <1>2, <1>4, <1>6 DEF Chunk, Text
<1>8. PostedAs(p) \in Type
  <2>1. At(p, "post") => types[procs[p].piece] \in Type
    BY <1>5
  <2> QED
    BY <1>1, <2>1 DEF PostedAs, ProcType
<1> QED
  BY <1>3, <1>4, <1>7, <1>8, Cut DEF Text

Typed == TypeOK /\ Shape

LEMMA TypedInit == Init => Typed
<1> SUFFICES ASSUME Init PROVE Typed
  OBVIOUS
<1>1. procs \in [Proc -> ProcType] /\ \A p \in Proc : procs[p] = Idle
  BY ConstantTypes DEF Init
<1>2. types = <<>> /\ Len(types) = 0
  BY DEF Init
<1>3. WellFormed(Idle, 0)
  BY DEF WellFormed, Idle
<1>4. /\ client \in [fresh: BOOLEAN, waits: 0..MaxCalls] /\ session \in Reply_
      /\ buffer \in Text /\ bufferType \in Type /\ types \in Seq(Type)
      /\ slack \in Seq(Message) /\ budget \in 0..MaxMishaps
      /\ Len(types) <= NumPieces
  BY ConstantTypes DEF Init, Type
<1>5. TypeOK
  BY <1>1, <1>4 DEF Init, TypeOK, ProcType, PC
<1> QED
  BY <1>1, <1>2, <1>3, <1>5 DEF Typed, Shape

LEMMA TypedStep == Typed /\ [Next]_vars => Typed'
<1> SUFFICES ASSUME TypeOK, Shape, [Next]_vars PROVE TypeOK' /\ Shape'
  BY DEF Typed
<1>a. procs \in [Proc -> ProcType] /\ Idle \in ProcType /\ WellFormed(Idle, Len(types))
  BY ConstantTypes, IdleShape DEF TypeOK, ProcType, PC
<1>b. \A p \in Proc : procs[p] \in ProcType /\ WellFormed(procs[p], Len(types))
  BY <1>a DEF Shape
<1>c. Len(types) \in Nat /\ Call \subseteq Proc /\ Manager \in Proc
  BY DEF TypeOK, Proc
<1>r. session \in Reply_ /\ buffer \in Text /\ bufferType \in Type /\ <<>> \in Text
  BY ConstantTypes DEF TypeOK
\* A step of one process that says nothing.
<1>d. ASSUME NEW p \in Proc, NEW v \in ProcType, WellFormed(v, Len(types)),
             procs' = [procs EXCEPT ![p] = v], types' = types
      PROVE  procs' \in [Proc -> ProcType] /\ Shape'
  <2>1. Len(types) <= Len(types') /\ Len(types') \in Nat /\ WellFormed(v, Len(types'))
    BY <1>c, <1>d
  <2> QED
    BY <1>d, <2>1, StepType
\* A call that says a piece.
<1>e. ASSUME NEW c \in Call, Say, NEW v \in ProcType, WellFormed(v, Len(types')),
             procs' = [procs EXCEPT ![c] = v]
      PROVE  procs' \in [Proc -> ProcType] /\ Shape'
  <2>1. Len(types) <= Len(types') /\ Len(types') \in Nat
    BY <1>c, <1>e, SayType, ConstantTypes
  <2> QED
    BY <1>c, <1>e, <2>1, StepType
<1>f. client \in [fresh: BOOLEAN, waits: 0..MaxCalls] /\ 0 \in 0..MaxCalls
      /\ \A c \in Call : c \in 0..MaxCalls
  BY ConstantTypes DEF TypeOK, Call
<1> USE DEF ProcType
<1>0. CASE UNCHANGED vars
  BY <1>0 DEF vars, TypeOK, Shape
<1>1. ASSUME NEW c \in Call, SayNew(c) PROVE TypeOK' /\ Shape'
  <2> DEFINE v == [Idle EXCEPT !.pc = "post", !.piece = Len(types')]
  <2>1. Say /\ procs' = [procs EXCEPT ![c] = v]
    BY <1>1 DEF SayNew, Become
  <2>2. v \in ProcType /\ WellFormed(v, Len(types'))
    <3>1. Len(types') \in 1..NumPieces
      BY <2>1, SayType
    <3>2. PICK n \in 1..NumPieces : n = Len(types')
      BY <3>1
    <3>3. "post" \in PC \ {"idle", "update", "record"} /\ "text" \in Type
      BY DEF PC, Type
    <3>4. LET w == [Idle EXCEPT !.pc = "post", !.piece = n]
          IN  w \in ProcType /\ WellFormed(w, n)
      BY <3>3, CallerType
    <3> QED
      BY <3>2, <3>4, Zenon
  <2>3. procs' \in [Proc -> ProcType] /\ Shape'
    BY <1>e, <2>1, <2>2
  <2>4. client' \in [fresh: BOOLEAN, waits: 0..MaxCalls]
    BY <1>1, <1>f DEF SayNew
  <2>5. budget' \in 0..MaxMishaps
    BY <1>1, MishapType DEF SayNew, TypeOK
  <2>6. types' \in Seq(Type) /\ Len(types') <= NumPieces
    BY <2>1, SayType, ConstantTypes
  <2> QED
    BY <1>1, <2>3, <2>4, <2>5, <2>6, UpsetType DEF SayNew, TypeOK, PC
<1>2. ASSUME NEW c \in Call, SayMore(c) PROVE TypeOK' /\ Shape'
  <2> DEFINE current == IF buffer # <<>> THEN bufferType ELSE session.type
             v == [Idle EXCEPT !.pc = IF current = Last(types') THEN "append" ELSE "read",
                               !.piece = Len(types'), !.was = current]
  <2>1. Say /\ procs' = [procs EXCEPT ![c] = v]
    BY <1>2 DEF SayMore, Become
  <2>0. current \in Type
    BY DEF TypeOK, Reply_
  <2>2. v \in ProcType /\ WellFormed(v, Len(types'))
    <3> HIDE DEF current
    <3> DEFINE pc == IF current = Last(types') THEN "append" ELSE "read"
    <3>1. pc \in PC \ {"idle", "update", "record"}
      BY DEF PC
    <3> HIDE DEF pc
    <3>2. Len(types') \in 1..NumPieces
      BY <2>1, SayType
    <3>3. \A n \in 1..NumPieces :
            LET w == [Idle EXCEPT !.pc = pc, !.piece = n, !.was = current]
            IN  w \in ProcType /\ WellFormed(w, n)
      BY <2>0, <3>1, CallerType
    <3> QED
      BY <3>2, <3>3 DEF pc
  <2>3. procs' \in [Proc -> ProcType] /\ Shape'
    BY <1>e, <2>1, <2>2
  <2>4. client' \in [fresh: BOOLEAN, waits: 0..MaxCalls]
    BY <1>2, <1>f DEF SayMore
  <2>6. types' \in Seq(Type) /\ Len(types') <= NumPieces
    BY <2>1, SayType, ConstantTypes
  <2> QED
    BY <1>2, <2>3, <2>4, <2>6 DEF SayMore, TypeOK, PC
<1>3. ASSUME NEW c \in Call, EndTurn(c) PROVE TypeOK' /\ Shape'
  <2> DEFINE v == [Idle EXCEPT !.pc = "discard"]
  <2>1. procs' = [procs EXCEPT ![c] = v] /\ types' = types
    BY <1>3 DEF EndTurn, Become
  <2>2. v \in ProcType /\ WellFormed(v, Len(types))
    BY <1>a DEF PC, WellFormed, Idle, Posting
  <2>3. procs' \in [Proc -> ProcType] /\ Shape'
    BY <1>c, <1>d, <2>1, <2>2
  <2>4. client' \in [fresh: BOOLEAN, waits: 0..MaxCalls]
    BY <1>3, <1>f DEF EndTurn
  <2> QED
    BY <1>3, <2>3, <2>4, MishapType DEF EndTurn, TypeOK, PC
<1>4. CASE ManagerFlushes
  <2> DEFINE v == [Idle EXCEPT !.pc = "read"]
  <2>1. procs' = [procs EXCEPT ![Manager] = v] /\ types' = types
    BY <1>4 DEF ManagerFlushes, Become
  <2>2. v \in ProcType /\ WellFormed(v, Len(types))
    BY <1>a DEF PC, WellFormed, Idle, Posting
  <2>3. procs' \in [Proc -> ProcType] /\ Shape'
    BY <1>c, <1>d, <2>1, <2>2
  <2> QED
    BY <1>4, <2>3 DEF ManagerFlushes, TypeOK, PC
<1>5. ASSUME NEW p \in Proc, FlushReads(p) PROVE TypeOK' /\ Shape'
  <2> DEFINE v == [procs[p] EXCEPT !.pc = "look", !.seen = session]
  <2>1. procs' = [procs EXCEPT ![p] = v] /\ types' = types
    BY <1>5 DEF FlushReads, Become
  <2>2. v \in ProcType /\ WellFormed(v, Len(types))
    <3>1. v \in ProcType
      <4>1. procs[p] \in ProcType /\ "look" \in PC
        BY <1>b DEF PC
      <4> QED
        BY <1>r, <4>1, MovedType
    <3>2. /\ v.pc = "look" /\ v.piece = procs[p].piece
          /\ v.text = procs[p].text /\ v.took = procs[p].took /\ v.ts = procs[p].ts
      BY <1>b DEF ProcType
    <3>3. procs[p].pc = "read"
      BY <1>5 DEF FlushReads, At
    <3> HIDE DEF v
    <3>4. WellFormed(v, Len(types))
      BY <1>b, <3>2, <3>3 DEF WellFormed, Posting
    <3> QED
      BY <3>1, <3>4
  <2>3. procs' \in [Proc -> ProcType] /\ Shape'
    BY <1>d, <2>1, <2>2
  <2> QED
    BY <1>5, <2>3 DEF FlushReads, TypeOK, PC
<1>6. ASSUME NEW p \in Proc, FlushLooks(p) PROVE TypeOK' /\ Shape'
  <2>1. CASE buffer = <<>>
    <3>1. procs' = [procs EXCEPT ![p] = Done(p, "unschedule")] /\ types' = types
      BY <1>6, <2>1 DEF FlushLooks, Become
    <3>2. procs' \in [Proc -> ProcType] /\ Shape'
      BY <1>d, <3>1, DoneType DEF PC
    <3> QED
      BY <1>6, <3>2 DEF FlushLooks, TypeOK, PC
  <2>2. CASE buffer # <<>>
    <3> DEFINE v == [procs[p] EXCEPT !.pc = "take", !.type = bufferType]
    <3>1. procs' = [procs EXCEPT ![p] = v] /\ types' = types
      BY <1>6, <2>2 DEF FlushLooks, Become
    <3>2. v \in ProcType /\ WellFormed(v, Len(types))
      <4>1. v \in ProcType
        <5>1. procs[p] \in ProcType /\ "take" \in PC
          BY <1>b DEF PC
        <5> QED
          BY <1>r, <5>1, MovedType
      <4>2. /\ v.pc = "take" /\ v.piece = procs[p].piece
            /\ v.text = procs[p].text /\ v.took = procs[p].took /\ v.ts = procs[p].ts
        BY <1>b DEF ProcType
      <4>3. procs[p].pc = "look"
        BY <1>6 DEF FlushLooks, At
      <4> HIDE DEF v
      <4>4. WellFormed(v, Len(types))
        BY <1>b, <4>2, <4>3 DEF WellFormed, Posting
      <4> QED
        BY <4>1, <4>4
    <3>3. procs' \in [Proc -> ProcType] /\ Shape'
      BY <1>d, <3>1, <3>2
    <3> QED
      BY <1>6, <3>3 DEF FlushLooks, TypeOK, PC
  <2> QED
    BY <2>1, <2>2
<1>7. ASSUME NEW p \in Proc, FlushTakes(p) PROVE TypeOK' /\ Shape'
  <2>0. <<>> \in Text
    BY ConstantTypes
  <2>1. CASE buffer = <<>>
    <3>1. procs' = [procs EXCEPT ![p] = Done(p, "unschedule")] /\ types' = types
      BY <1>7, <2>1 DEF FlushTakes, Become
    <3>2. procs' \in [Proc -> ProcType] /\ Shape'
      BY <1>d, <3>1, DoneType DEF PC
    <3> QED
      BY <1>7, <2>0, <3>2 DEF FlushTakes, TypeOK, PC
  <2>2. CASE buffer # <<>>
    <3> DEFINE v == [procs[p] EXCEPT !.pc = "update", !.text = buffer, !.took = buffer]
    <3>1. procs' = [procs EXCEPT ![p] = v] /\ types' = types
      BY <1>7, <2>2 DEF FlushTakes, Become
    <3>2. v \in ProcType /\ WellFormed(v, Len(types))
      <4>1. v \in ProcType
        <5>1. procs[p] \in ProcType /\ "update" \in PC
          BY <1>b DEF PC
        <5> QED
          BY <1>r, <5>1, MovedType
      <4>2. /\ v.pc = "update" /\ v.piece = procs[p].piece
            /\ v.text = buffer /\ v.took = buffer /\ v.ts = procs[p].ts
        BY <1>b DEF ProcType
      <4>3. procs[p].pc = "take"
        BY <1>7 DEF FlushTakes, At
      <4> HIDE DEF v
      <4>4. WellFormed(v, Len(types))
        <5>1. WellFormed(procs[p], Len(types))
          BY <1>b
        <5>2. v.piece <= Len(types) /\ v.ts = 0
          BY <4>2, <4>3, <5>1 DEF WellFormed, Posting
        <5> QED
          BY <2>2, <4>2, <5>2 DEF WellFormed
      <4> QED
        BY <4>1, <4>4
    <3>3. procs' \in [Proc -> ProcType] /\ Shape'
      BY <1>d, <3>1, <3>2
    <3> QED
      BY <1>7, <2>0, <3>3 DEF FlushTakes, TypeOK, PC
  <2> QED
    BY <2>1, <2>2
<1>8. ASSUME NEW p \in Proc, FlushUpdates(p) PROVE TypeOK' /\ Shape'
  <2> DEFINE v == [procs[p] EXCEPT !.pc = "record"]
             m == [type |-> procs[p].type, text |-> First(Content(p))]
  <2>1. procs' = [procs EXCEPT ![p] = v] /\ types' = types
    BY <1>8 DEF FlushUpdates, Goto, Become
  <2>2. v \in ProcType /\ WellFormed(v, Len(types))
    <3>1. v \in ProcType
      <4>1. procs[p] \in ProcType /\ "record" \in PC
        BY <1>b DEF PC
      <4> QED
        BY <1>r, <4>1, MovedType
    <3>2. /\ v.pc = "record" /\ v.piece = procs[p].piece
          /\ v.text = procs[p].text /\ v.took = procs[p].took /\ v.ts = procs[p].ts
      BY <1>b DEF ProcType
    <3>3. procs[p].pc = "update"
      BY <1>8 DEF FlushUpdates, At
    <3> HIDE DEF v
    <3>4. WellFormed(v, Len(types))
      BY <1>b, <3>2, <3>3 DEF WellFormed, Posting
    <3> QED
      BY <3>1, <3>4
  <2>3. procs' \in [Proc -> ProcType] /\ Shape'
    BY <1>d, <2>1, <2>2
  <2>4. m \in Message
    BY <1>b, ChunkType DEF Message
  <2>6. \A s \in Seq(Message), i \in Nat : [s EXCEPT ![i] = m] \in Seq(Message)
    <3> HIDE DEF m
    <3> QED
      BY <2>4, WriteType
  <2>7. slack \in Seq(Message) /\ procs[p].seen.ts \in Nat
    BY <1>b DEF TypeOK, Reply_
  <2>5. slack' \in Seq(Message)
    <3> HIDE DEF m
    <3> QED
      BY <1>8, <2>6, <2>7 DEF FlushUpdates, m
  <2> QED
    BY <1>8, <2>3, <2>5, UpsetType DEF FlushUpdates, TypeOK, PC
<1>9. ASSUME NEW p \in Proc, FlushDeferred(p) PROVE TypeOK' /\ Shape'
  <2>1. PICK v \in ProcType : /\ WellFormed(v, Len(types))
                              /\ procs' = [procs EXCEPT ![p] = v]
    BY <1>9, ReturnType DEF FlushDeferred
  <2>2. procs' \in [Proc -> ProcType] /\ Shape'
    BY <1>9, <1>d, <2>1 DEF FlushDeferred
  <2>3. client' \in [fresh: BOOLEAN, waits: 0..MaxCalls]
    BY <1>9, ReturnType DEF FlushDeferred
  <2>4. budget' \in 0..MaxMishaps
    BY <1>9, MishapType DEF FlushDeferred, TypeOK
  <2>5. procs[p].took \in Text
    BY <1>b
  <2> QED
    BY <1>9, <2>2, <2>3, <2>4, <2>5, RequeueType DEF FlushDeferred, TypeOK, PC
<1>10. ASSUME NEW p \in Proc, FlushFails(p) PROVE TypeOK' /\ Shape'
  <2>1. PICK v \in ProcType : /\ WellFormed(v, Len(types))
                              /\ procs' = [procs EXCEPT ![p] = v]
    BY <1>10, ReturnType DEF FlushFails
  <2>2. procs' \in [Proc -> ProcType] /\ Shape'
    BY <1>10, <1>d, <2>1 DEF FlushFails
  <2>3. client' \in [fresh: BOOLEAN, waits: 0..MaxCalls]
    BY <1>10, ReturnType DEF FlushFails
  <2>4. budget' \in 0..MaxMishaps
    BY <1>10, MishapType, BlipType DEF FlushFails
  <2>5. procs[p].took \in Text /\ scheduled' \in BOOLEAN
    BY <1>10, <1>b DEF FlushFails, TypeOK
  <2> QED
    BY <1>10, <2>2, <2>3, <2>4, <2>5, RequeueType DEF FlushFails, TypeOK, PC
<1>11. ASSUME NEW p \in Proc, FlushRecords(p) PROVE TypeOK' /\ Shape'
  <2> DEFINE rest == Rest(Content(p))
             d == Done(p, IF rest = <<>> THEN "check" ELSE "spill")
             v == IF rest = <<>> THEN d
                  ELSE [d EXCEPT !.text = rest, !.type = procs[p].type]
  <2>1. procs' = [procs EXCEPT ![p] = v] /\ types' = types
    BY <1>11 DEF FlushRecords, Become
  <2>2. rest \in Text /\ First(Content(p)) \in Text
    BY ChunkType
  <2>3. d \in ProcType /\ WellFormed(d, Len(types)) /\ d.ts = 0 /\ d.text = <<>>
        /\ d.pc = IF rest = <<>> THEN "check" ELSE "spill"
    <3> HIDE DEF rest
    <3> DEFINE pc == IF rest = <<>> THEN "check" ELSE "spill"
    <3>1. pc \in PC \ {"idle", "update", "record"} /\ pc \in {"spill", "check"}
      BY DEF PC
    <3>2. Done(p, pc) \in ProcType /\ WellFormed(Done(p, pc), Len(types))
      BY <3>1, DoneType
    <3> QED
      BY <3>2 DEF Done, Idle
  <2>4. v \in ProcType /\ WellFormed(v, Len(types))
    <3> HIDE DEF rest, d
    <3> QED
      BY <1>b, <2>2, <2>3 DEF WellFormed
  <2>5. procs' \in [Proc -> ProcType] /\ Shape'
    <3> HIDE DEF v
    <3> QED
      BY <1>d, <2>1, <2>4
  <2>6. session' \in Reply_
    BY <1>11, <1>b, <2>2 DEF FlushRecords, Reply_
  <2> QED
    BY <1>11, <2>5, <2>6 DEF FlushRecords, TypeOK, PC
<1>12. ASSUME NEW p \in Proc, FlushChecks(p) PROVE TypeOK' /\ Shape'
  <2>1. CASE buffer = <<>>
    <3> DEFINE v == [procs[p] EXCEPT !.pc = "unschedule"]
    <3>1. procs' = [procs EXCEPT ![p] = v] /\ types' = types /\ client' = client
      BY <1>12, <2>1 DEF FlushChecks, Goto, Become
    <3>2. v \in ProcType /\ WellFormed(v, Len(types))
      <4>1. v \in ProcType
        <5>1. procs[p] \in ProcType /\ "unschedule" \in PC
          BY <1>b DEF PC
        <5> QED
          BY <1>r, <5>1, MovedType
      <4>2. /\ v.pc = "unschedule" /\ v.piece = procs[p].piece
            /\ v.text = procs[p].text /\ v.took = procs[p].took /\ v.ts = procs[p].ts
        BY <1>b DEF ProcType
      <4>3. procs[p].pc = "check"
        BY <1>12 DEF FlushChecks, At
      <4> HIDE DEF v
      <4>4. WellFormed(v, Len(types))
        BY <1>b, <4>2, <4>3 DEF WellFormed, Posting
      <4> QED
        BY <4>1, <4>4
    <3>3. procs' \in [Proc -> ProcType] /\ Shape'
      BY <1>d, <3>1, <3>2
    <3> QED
      BY <1>12, <3>1, <3>3 DEF FlushChecks, TypeOK, PC
  <2>2. CASE buffer # <<>>
    <3>0. procs[p].ok \in BOOLEAN /\ Return(p, procs[p].ok)
      BY <1>12, <1>b, <2>2 DEF FlushChecks
    <3>1. PICK v \in ProcType : /\ WellFormed(v, Len(types))
                                /\ procs' = [procs EXCEPT ![p] = v]
      BY <3>0, ReturnType
    <3>2. procs' \in [Proc -> ProcType] /\ Shape'
      BY <1>12, <1>d, <3>1 DEF FlushChecks
    <3>3. client' \in [fresh: BOOLEAN, waits: 0..MaxCalls]
      BY <3>0, ReturnType
    <3> QED
      BY <1>12, <3>2, <3>3 DEF FlushChecks, TypeOK, PC
  <2> QED
    BY <2>1, <2>2
<1>13. ASSUME NEW p \in Proc, Unschedule(p) PROVE TypeOK' /\ Shape'
  <2>0. bufferType' \in Type
    BY <1>13 DEF Unschedule, Untyped, Type
  <2>a. upset' \subseteq {"late", "overtaken", "bare", "unrecorded", "doubled", "stale",
                         "rescue", "turn", "crash"}
    BY <1>13, UpsetType DEF Unschedule, TypeOK
  <2>1. CASE procs[p].text # <<>>
    <3> DEFINE v == [procs[p] EXCEPT !.pc = "rescue"]
    <3>1. procs' = [procs EXCEPT ![p] = v] /\ types' = types /\ client' = client
      BY <1>13, <2>1 DEF Unschedule, Goto, Become
    <3>2. v \in ProcType /\ WellFormed(v, Len(types))
      <4>1. v \in ProcType
        <5>1. procs[p] \in ProcType /\ "rescue" \in PC
          BY <1>b DEF PC
        <5> QED
          BY <1>r, <5>1, MovedType
      <4>2. /\ v.pc = "rescue" /\ v.piece = procs[p].piece
            /\ v.text = procs[p].text /\ v.took = procs[p].took /\ v.ts = procs[p].ts
        BY <1>b DEF ProcType
      <4>3. procs[p].pc = "unschedule"
        BY <1>13 DEF Unschedule, At
      <4> HIDE DEF v
      <4>4. WellFormed(v, Len(types))
        BY <1>b, <4>2, <4>3, <2>1 DEF WellFormed, Posting
      <4> QED
        BY <4>1, <4>4
    <3>3. procs' \in [Proc -> ProcType] /\ Shape'
      BY <1>d, <3>1, <3>2
    <3> QED
      BY <1>13, <2>0, <2>a, <3>1, <3>3 DEF Unschedule, TypeOK, PC
  <2>2. CASE procs[p].text = <<>>
    <3>0. procs[p].ok \in BOOLEAN /\ Return(p, procs[p].ok)
      BY <1>13, <1>b, <2>2 DEF Unschedule
    <3>1. PICK v \in ProcType : /\ WellFormed(v, Len(types))
                                /\ procs' = [procs EXCEPT ![p] = v]
      BY <3>0, ReturnType
    <3>2. procs' \in [Proc -> ProcType] /\ Shape'
      BY <1>13, <1>d, <3>1 DEF Unschedule
    <3>3. client' \in [fresh: BOOLEAN, waits: 0..MaxCalls]
      BY <3>0, ReturnType
    <3> QED
      BY <1>13, <2>0, <2>a, <3>2, <3>3 DEF Unschedule, TypeOK, PC
  <2> QED
    BY <2>1, <2>2
<1>14. ASSUME NEW p \in Proc, Posts(p) PROVE TypeOK' /\ Shape'
  <2> DEFINE v == [procs[p] EXCEPT !.ts = Len(slack) + 1]
             m == [type |-> PostedAs(p), text |-> First(Chunk(p))]
  <2>1. procs' = [procs EXCEPT ![p] = v] /\ types' = types
    BY <1>14 DEF Posts, Become
  <2>2. v \in ProcType /\ WellFormed(v, Len(types))
    <3>1. Len(slack) + 1 \in Nat
      BY DEF TypeOK
    <3> QED
      BY <1>14, <1>b, <3>1 DEF Posts, WellFormed
  <2>3. procs' \in [Proc -> ProcType] /\ Shape'
    BY <1>d, <2>1, <2>2
  <2>4. m \in Message
    BY <1>14, ChunkType DEF Message, Posts
  <2>5. slack' \in Seq(Message)
    <3> HIDE DEF m
    <3> QED
      BY <1>14, <2>4 DEF Posts, TypeOK, m
  <2> QED
    BY <1>14, <2>3, <2>5, UpsetType DEF Posts, TypeOK, PC
<1>15. ASSUME NEW p \in Proc, PostFails(p) PROVE TypeOK' /\ Shape'
  <2>0. budget' \in 0..MaxMishaps /\ types' = types
    BY <1>15, MishapType DEF PostFails
  <2>1. CASE /\ At(p, "post") \/ At(p, "rescue")
             /\ refused' = refused \cup {procs[p].piece}
             /\ Answer(p, FALSE)
             /\ Upset("rescue", At(p, "rescue") /\ procs[p].ts = 0)
             /\ UNCHANGED buffer
    <3>2. procs[p].piece \in Piece
      BY <1>b, <2>1, <1>c DEF At, WellFormed, Piece, TypeOK
    <3>3. procs' \in [Proc -> ProcType] /\ Shape'
      BY <1>a, <1>d, <2>0, <2>1, AnswerType
    <3>4. client' \in [fresh: BOOLEAN, waits: 0..MaxCalls]
      BY <2>1, AnswerType
    <3>5. upset' \subseteq {"late", "overtaken", "bare", "unrecorded", "doubled", "stale",
                           "rescue", "turn", "crash"}
      BY <2>1 DEF Upset, TypeOK
    <3> QED
      BY <1>15, <2>0, <2>1, <3>2, <3>3, <3>4, <3>5 DEF PostFails, TypeOK, PC
  <2>2. CASE /\ At(p, "rescue")
             /\ Become(p, Done(p, "post"))
             /\ Upset("rescue", procs[p].ts = 0)
             /\ UNCHANGED <<client, buffer, refused>>
    <3>1. procs' = [procs EXCEPT ![p] = Done(p, "post")]
      BY <2>2 DEF Become
    <3>2. procs[p].piece # 0 /\ procs[p].took = <<>>
      BY <1>b, <2>2 DEF At, WellFormed
    <3>3. procs' \in [Proc -> ProcType] /\ Shape'
      BY <1>d, <2>0, <3>1, <3>2, DoneType DEF PC
    <3>5. upset' \subseteq {"late", "overtaken", "bare", "unrecorded", "doubled", "stale",
                           "rescue", "turn", "crash"}
      BY <2>2 DEF Upset, TypeOK
    <3> QED
      BY <1>15, <2>0, <2>2, <3>3, <3>5 DEF PostFails, TypeOK, PC
  <2>3. CASE /\ At(p, "spill")
             /\ Requeue(procs[p].text)
             /\ Requeued(p, procs[p].text, scheduled)
             /\ Become(p, [Done(p, "check") EXCEPT !.ok = FALSE])
             /\ UNCHANGED <<client, refused>>
    <3> DEFINE v == [Done(p, "check") EXCEPT !.ok = FALSE]
    <3>1. procs' = [procs EXCEPT ![p] = v]
      BY <2>3 DEF Become
    <3>2. Done(p, "check") \in ProcType /\ WellFormed(Done(p, "check"), Len(types))
      BY DoneType DEF PC
    <3>3. v \in ProcType /\ WellFormed(v, Len(types))
      BY <3>2 DEF WellFormed
    <3>4. procs' \in [Proc -> ProcType] /\ Shape'
      BY <1>d, <2>0, <3>1, <3>3
    <3>5. procs[p].text \in Text
      BY <1>b
    <3> QED
      BY <1>15, <2>0, <2>3, <3>4, <3>5, RequeueType DEF PostFails, TypeOK, PC
  <2> QED
    BY <1>15, <2>1, <2>2, <2>3 DEF PostFails
<1>16. ASSUME NEW p \in Proc, PostRecorded(p) PROVE TypeOK' /\ Shape'
  <2>0. procs[p].pc \in Posting
    BY <1>16, <1>b DEF PostRecorded, WellFormed
  <2>1. session' \in Reply_ /\ budget' \in 0..MaxMishaps
    BY <1>16, <1>b, <2>0, ChunkType, MishapType DEF PostRecorded, Reply_, TypeOK
  <2>2. types' = types
    BY <1>16 DEF PostRecorded
  <2>3. /\ client' \in [fresh: BOOLEAN, waits: 0..MaxCalls]
        /\ procs' \in [Proc -> ProcType] /\ Shape'
    <3>1. CASE At(p, "post")
      <4>1. Answer(p, TRUE)
        BY <1>16, <3>1 DEF PostRecorded, At
      <4> QED
        BY <1>a, <1>d, <2>2, <4>1, AnswerType
    <3>2. CASE At(p, "rescue")
      <4>1. procs' = [procs EXCEPT ![p] = Done(p, "post")] /\ client' = client
        BY <1>16, <3>2 DEF PostRecorded, At, Become
      <4>2. procs[p].piece # 0 /\ procs[p].took = <<>>
        BY <1>b, <3>2 DEF At, WellFormed
      <4>3. Done(p, "post") \in ProcType /\ WellFormed(Done(p, "post"), Len(types))
        BY <4>2, DoneType DEF PC
      <4> QED
        BY <1>d, <2>2, <4>1, <4>3 DEF TypeOK
    <3>3. CASE At(p, "spill")
      <4> DEFINE rest == Rest(procs[p].text)
                 v == IF rest = <<>> THEN Done(p, "check")
                      ELSE [procs[p] EXCEPT !.text = rest, !.ts = 0]
      <4>1. procs' = [procs EXCEPT ![p] = v] /\ client' = client
        BY <1>16, <3>3 DEF PostRecorded, At, Become
      <4>2. rest \in Text
        BY ChunkType
      <4>3. Done(p, "check") \in ProcType /\ WellFormed(Done(p, "check"), Len(types))
        BY DoneType DEF PC
      <4>4. v \in ProcType /\ WellFormed(v, Len(types))
        <5> HIDE DEF rest
        <5> QED
          BY <1>b, <3>3, <4>2, <4>3 DEF At, WellFormed
      <4> HIDE DEF v
      <4> QED
        BY <1>d, <2>2, <4>1, <4>4 DEF TypeOK
    <3> QED
      BY <1>16, <3>1, <3>2, <3>3 DEF PostRecorded
  <2> QED
    BY <1>16, <2>1, <2>3 DEF PostRecorded, TypeOK, PC
<1>17. ASSUME NEW p \in Proc, AppendToBuffer(p) PROVE TypeOK' /\ Shape'
  <2> DEFINE v == [procs[p] EXCEPT !.pc = "schedule"]
  <2>1. procs' = [procs EXCEPT ![p] = v] /\ types' = types
    BY <1>17 DEF AppendToBuffer, Goto, Become
  <2>2. v \in ProcType /\ WellFormed(v, Len(types))
    BY <1>17, <1>b DEF AppendToBuffer, At, PC, WellFormed, Posting
  <2>3. procs' \in [Proc -> ProcType] /\ Shape'
    BY <1>d, <2>1, <2>2
  <2>4. buffer' \in Text
    <3>1. procs[p].piece \in Piece
      BY <1>b, <1>c, <1>17 DEF AppendToBuffer, At, WellFormed, Piece, TypeOK
    <3> QED
      BY <1>17, <3>1 DEF AppendToBuffer, TypeOK, Text
  <2> QED
    BY <1>17, <2>3, <2>4 DEF AppendToBuffer, TypeOK, PC
<1>18. ASSUME NEW p \in Proc, Schedule(p) PROVE TypeOK' /\ Shape'
  <2>0. types' = types
    BY <1>18 DEF Schedule
  <2>1. bufferType' \in Type
    <3>1. procs[p].piece \in 1..Len(types)
      BY <1>b, <1>c, <1>18 DEF Schedule, At, WellFormed, TypeOK
    <3> QED
      BY <1>18, <3>1 DEF Schedule, TypeOK
  <2>2. /\ client' \in [fresh: BOOLEAN, waits: 0..MaxCalls]
        /\ procs' \in [Proc -> ProcType] /\ Shape'
    <3>1. CASE Answer(p, TRUE)
      BY <1>a, <1>d, <2>0, <3>1, AnswerType
    <3>2. CASE Become(p, [Idle EXCEPT !.pc = "read"]) /\ UNCHANGED client
      <4> DEFINE v == [Idle EXCEPT !.pc = "read"]
      <4>1. v \in ProcType /\ WellFormed(v, Len(types))
        BY <1>a DEF PC, WellFormed, Idle, Posting
      <4> QED
        BY <1>d, <2>0, <3>2, <4>1 DEF Become, TypeOK
    <3> QED
      BY <1>18, <3>1, <3>2 DEF Schedule
  <2> QED
    BY <1>18, <2>1, <2>2 DEF Schedule, TypeOK, PC
<1>19. ASSUME NEW p \in Proc, Discard(p) PROVE TypeOK' /\ Shape'
  <2> DEFINE v == [procs[p] EXCEPT !.pc = "unschedule",
                                   !.text = IF procs[p].piece # 0 THEN buffer ELSE <<>>]
  <2>1. procs' = [procs EXCEPT ![p] = v] /\ types' = types
    BY <1>19 DEF Discard, Become
  <2>2. v \in ProcType /\ WellFormed(v, Len(types))
    <3>1. v \in ProcType
      <4>1. procs[p] \in ProcType /\ "unschedule" \in PC
        BY <1>b DEF PC
      <4> QED
        BY <1>r, <4>1, MovedType
    <3>2. /\ v.pc = "unschedule" /\ v.piece = procs[p].piece
          /\ v.text = (IF procs[p].piece # 0 THEN buffer ELSE <<>>)
          /\ v.took = procs[p].took /\ v.ts = procs[p].ts
      BY <1>b DEF ProcType
    <3>3. procs[p].pc = "discard"
      BY <1>19 DEF Discard, At
    <3> HIDE DEF v
    <3>4. WellFormed(v, Len(types))
      BY <1>b, <3>2, <3>3 DEF WellFormed, Posting
    <3> QED
      BY <3>1, <3>4
  <2>3. procs' \in [Proc -> ProcType] /\ Shape'
    BY <1>d, <2>1, <2>2
  <2> QED
    BY <1>19, <2>3, ConstantTypes, UpsetType DEF Discard, TypeOK, PC
<1>20. CASE SayInVain
  <2>1. procs' \in [Proc -> ProcType] /\ Shape'
    BY <1>20, <1>a, <1>b, <1>c, SayType, ConstantTypes
       DEF SayInVain, Shape, WellFormed
  <2> QED
    BY <1>20, <2>1, SayType, ConstantTypes DEF SayInVain, TypeOK, PC
<1>21. CASE TimeOut
  <2>1. client' \in [fresh: BOOLEAN, waits: 0..MaxCalls]
    BY <1>21, <1>f DEF TimeOut
  <2> QED
    BY <1>21, <2>1, MishapType, UpsetType DEF TimeOut, TypeOK, Shape, PC
<1>22. CASE Crash
  <2>1. client' \in [fresh: BOOLEAN, waits: 0..MaxCalls]
    BY <1>22, <1>f DEF Crash
  <2>2. procs' \in [Proc -> ProcType] /\ Shape'
    BY <1>22, <1>a DEF Crash, Shape
  <2> QED
    BY <1>22, <2>1, <2>2, MishapType, UpsetType DEF Crash, TypeOK, PC
<1>23. CASE GateOpens
  BY <1>23, MishapType DEF GateOpens, TypeOK, Shape
<1>24. ASSUME NEW p \in Proc, CallFails(p) PROVE TypeOK' /\ Shape'
  <2>1. types' = types /\ Answer(p, FALSE) /\ budget' \in 0..MaxMishaps
    BY <1>24, MishapType DEF CallFails
  <2>2. procs' \in [Proc -> ProcType] /\ Shape'
    BY <1>a, <1>d, <2>1, AnswerType
  <2>3. client' \in [fresh: BOOLEAN, waits: 0..MaxCalls]
    BY <2>1, AnswerType
  <2>4. bufferType' \in Type
    <3>1. At(p, "schedule") => procs[p].piece \in 1..Len(types)
      BY <1>b, <1>c DEF At, WellFormed
    <3> QED
      BY <1>24, <3>1 DEF CallFails, TypeOK
  <2>5. refused' \subseteq Piece
    <3>1. procs[p].piece \in 0..NumPieces
      BY <1>b
    <3>2. {procs[p].piece} \ {0} \subseteq Piece
      BY <3>1, ConstantTypes DEF Piece
    <3> QED
      BY <1>24, <3>2 DEF CallFails, TypeOK
  <2>6. upset' \subseteq {"late", "overtaken", "bare", "unrecorded", "doubled", "stale",
                         "rescue", "turn", "crash"}
    BY <1>24 DEF CallFails, TypeOK
  <2> QED
    BY <1>24, <2>1, <2>2, <2>3, <2>4, <2>5, <2>6 DEF CallFails, TypeOK, PC
<1> QED
  BY <1>0, <1>1, <1>2, <1>3, <1>4, <1>5, <1>6, <1>7, <1>8, <1>9, <1>10, <1>11,
     <1>12, <1>13, <1>14, <1>15, <1>16, <1>17, <1>18, <1>19, <1>20, <1>21,
     <1>22, <1>23, <1>24
     DEF Next, Work, Flush, Reply

\* The session, the keys in Redis, the thread and every process keep their
\* types, for any number of pieces, calls and mishaps and any size of a message.
THEOREM TypeCorrect == Spec => []TypeOK
<1>1. Init => Typed
  BY TypedInit
<1>2. Typed /\ [Next]_vars => Typed'
  BY TypedStep
<1>3. Typed => TypeOK
  BY DEF Typed
<1> QED
  BY <1>1, <1>2, <1>3, PTL DEF Spec
-----------------------------------------------------------------------------
(* Who refers to which message                                             *)

\* A message that was posted and not yet recorded is known to its poster only.
Linked ==
  /\ session.ts <= Len(slack)
  /\ \A p \in Proc : procs[p].ts <= Len(slack) /\ procs[p].seen.ts <= Len(slack)
  /\ \A p \in Proc : procs[p].ts # 0 =>
       /\ procs[p].ts # session.ts
       /\ \A q \in Proc : /\ procs[q].seen.ts # procs[p].ts
                          /\ q # p => procs[q].ts # procs[p].ts

\* Nothing is buffered or flushed before a message is recorded.
Silent ==
  /\ session.ts = 0 =>
       /\ buffer = <<>> /\ ~scheduled /\ session.content = <<>>
       /\ \A p \in Proc :
            /\ procs[p].text = <<>> /\ procs[p].took = <<>>
            /\ procs[p].pc \in {"idle", "post", "discard", "unschedule"}
            /\ procs[p].pc \in {"discard", "unschedule"} => procs[p].piece = 0
  /\ \A p \in Proc :
       procs[p].pc \in {"look", "take", "update", "record"} => procs[p].seen.ts # 0

\* What the return of a flush leaves of the process.
LEMMA ReturnLeaves ==
  ASSUME TypeOK, NEW p \in Proc, NEW ok \in BOOLEAN, Return(p, ok)
  PROVE  \E v \in ProcType :
           /\ procs' = [procs EXCEPT ![p] = v]
           /\ v.text = <<>> /\ v.took = <<>> /\ v.ts = 0 /\ v.seen = NoReply
           /\ v.piece = procs[p].piece /\ v.pc \in {"idle", "post", "discard"}
           /\ v.pc # "idle" => v.piece # 0
<1>0. Idle \in ProcType /\ procs[p] \in ProcType
  BY ConstantTypes, ProcTyped
<1>1. CASE procs[p].piece = 0
  <2>1. procs' = [procs EXCEPT ![p] = Idle]
    BY <1>1 DEF Return, Answer, Become
  <2> QED
    BY <1>0, <1>1, <2>1 DEF Idle
<1>2. CASE procs[p].piece # 0
  <2> DEFINE v == [Done(p, IF ok THEN "post" ELSE "discard")
                     EXCEPT !.took = <<>>, !.ok = TRUE]
  <2>1. procs' = [procs EXCEPT ![p] = v]
    BY <1>2 DEF Return, Become
  <2>2. v \in ProcType
    BY <1>0, ConstantTypes DEF Done, ProcType, PC
  <2>3. /\ v.text = <<>> /\ v.took = <<>> /\ v.ts = 0 /\ v.seen = NoReply /\ v.piece = procs[p].piece
        /\ v.pc \in {"post", "discard"}
    BY DEF Done, Idle
  <2> QED
    BY <1>2, <2>1, <2>2, <2>3
<1> QED
  BY <1>1, <1>2

LEMMA DoneLeaves ==
  ASSUME TypeOK, NEW p \in Proc, NEW pc \in PC
  PROVE  LET v == Done(p, pc)
         IN  /\ v \in ProcType
             /\ v.text = <<>> /\ v.took = procs[p].took
             /\ v.ts = 0 /\ v.seen = NoReply
             /\ v.piece = procs[p].piece /\ v.pc = pc
<1>0. Idle \in ProcType /\ procs[p] \in ProcType
  BY ConstantTypes, ProcTyped
<1>1. Done(p, pc) \in ProcType
  BY <1>0 DEF Done, ProcType, PC
<1> QED
  BY <1>1 DEF Done, Idle

LEMMA IdleLeaves ==
  /\ Idle.text = <<>> /\ Idle.took = <<>> /\ Idle.ts = 0 /\ Idle.seen = NoReply
  /\ Idle.piece = 0 /\ Idle.pc = "idle"
  /\ NoReply.ts = 0 /\ NoReply.content = <<>>
BY DEF Idle, NoReply

LEMMA Apart ==
  ASSUME Linked, NEW a \in Proc, NEW b \in Proc, procs[a].ts # 0
  PROVE  /\ procs[a].ts # session.ts /\ procs[b].seen.ts # procs[a].ts
         /\ b # a => procs[b].ts # procs[a].ts
<1>1. /\ procs[a].ts # session.ts
      /\ \A q \in Proc : /\ procs[q].seen.ts # procs[a].ts
                         /\ q # a => procs[q].ts # procs[a].ts
  BY DEF Linked
<1>2. procs[b].seen.ts # procs[a].ts
  BY <1>1
<1>3. ASSUME b # a PROVE procs[b].ts # procs[a].ts
  BY <1>1, <1>3
<1> QED
  BY <1>1, <1>2, <1>3

\* A step that refers to no new message.
LEMMA LinkedOf ==
  ASSUME TypeOK, Linked, NEW p \in Proc, NEW v,
         procs' = [procs EXCEPT ![p] = v],
         session' = session, Len(slack') = Len(slack),
         v.ts \in {0, procs[p].ts}, v.seen \in {NoReply, session, procs[p].seen}
  PROVE  Linked'
<1>1. procs \in [Proc -> ProcType]
  BY DEF TypeOK, ProcType, PC
<1>2. procs'[p] = v /\ \A q \in Proc \ {p} : procs'[q] = procs[q]
  BY <1>1
<1>3. v.ts <= Len(slack) /\ v.seen.ts <= Len(slack)
  BY IdleLeaves DEF Linked, TypeOK
<1>4. \A q \in Proc : procs'[q].ts <= Len(slack') /\ procs'[q].seen.ts <= Len(slack')
  BY <1>2, <1>3 DEF Linked
<1>5. \A q \in Proc : procs'[q].ts \in {0, procs[q].ts}
  BY <1>2
<1>6. \A q \in Proc : procs'[q].seen \in {NoReply, session, procs[q].seen}
  BY <1>2
<1>7. ASSUME NEW q \in Proc, procs'[q].ts # 0
      PROVE  /\ procs'[q].ts # session'.ts
             /\ \A r \in Proc : /\ procs'[r].seen.ts # procs'[q].ts
                                /\ r # q => procs'[r].ts # procs'[q].ts
  <2>1. procs'[q].ts = procs[q].ts /\ procs[q].ts # 0
    BY <1>5, <1>7
  <2>2. procs[q].ts # session.ts
    BY <2>1 DEF Linked
  <2>3. ASSUME NEW r \in Proc
        PROVE  procs'[r].seen.ts # procs[q].ts /\ (r # q => procs'[r].ts # procs[q].ts)
    <3>1. procs[r].seen.ts # procs[q].ts /\ (r # q => procs[r].ts # procs[q].ts)
      BY <2>1, Apart
    <3>2. procs'[r].seen.ts \in {0, session.ts, procs[r].seen.ts}
      <4>1. procs'[r].seen \in {NoReply, session, procs[r].seen}
        BY <1>6
      <4> QED
        BY <4>1, IdleLeaves
    <3>3. procs'[r].ts \in {0, procs[r].ts}
      BY <1>5
    <3> QED
      BY <2>1, <2>2, <3>1, <3>2, <3>3
  <2> QED
    BY <2>1, <2>2, <2>3
<1> QED
  BY <1>4, <1>7 DEF Linked

\* A step of a process that records nothing.
LEMMA SilentOf ==
  ASSUME TypeOK, Silent, NEW p \in Proc, NEW v,
         procs' = [procs EXCEPT ![p] = v], session' = session,
         session.ts = 0 =>
           /\ buffer' = <<>> /\ ~scheduled' /\ v.text = <<>> /\ v.took = <<>>
           /\ v.pc \in {"idle", "post", "discard", "unschedule"}
           /\ v.pc \in {"discard", "unschedule"} => v.piece = 0,
         v.pc \in {"look", "take", "update", "record"} => v.seen.ts # 0
  PROVE  Silent'
<1>1. procs \in [Proc -> ProcType]
  BY DEF TypeOK, ProcType, PC
<1>2. procs'[p] = v /\ \A q \in Proc \ {p} : procs'[q] = procs[q]
  BY <1>1
<1>3. session'.ts = 0 =>
       /\ buffer' = <<>> /\ ~scheduled' /\ session'.content = <<>>
       /\ \A q \in Proc :
            /\ procs'[q].text = <<>> /\ procs'[q].took = <<>>
            /\ procs'[q].pc \in {"idle", "post", "discard", "unschedule"}
            /\ procs'[q].pc \in {"discard", "unschedule"} => procs'[q].piece = 0
  BY <1>2 DEF Silent
<1>4. \A q \in Proc :
       procs'[q].pc \in {"look", "take", "update", "record"} => procs'[q].seen.ts # 0
  BY <1>2 DEF Silent
<1> QED
  BY <1>3, <1>4 DEF Silent

\* A step that moves the session on to a message that is not posted anew.
LEMMA LinkedMoves ==
  ASSUME TypeOK, Linked, Silent, NEW p \in Proc, NEW v,
         procs' = [procs EXCEPT ![p] = v], slack' = slack,
         v.ts = 0, v.seen = NoReply \/ v.seen = procs[p].seen,
         v.pc \notin {"look", "take", "update", "record"},
         session'.ts \in {procs[p].ts, procs[p].seen.ts}, session'.ts # 0
  PROVE  Linked' /\ Silent'
<1>1. procs \in [Proc -> ProcType]
  BY DEF TypeOK, ProcType, PC
<1>2. procs'[p] = v /\ \A q \in Proc \ {p} : procs'[q] = procs[q]
  BY <1>1
<1>3. Silent'
  BY <1>2 DEF Silent
<1>4. session'.ts <= Len(slack')
  BY DEF Linked
<1>5. \A q \in Proc : procs'[q].ts <= Len(slack') /\ procs'[q].seen.ts <= Len(slack')
  BY <1>2, IdleLeaves DEF Linked, TypeOK
<1>6. ASSUME NEW q \in Proc, procs'[q].ts # 0
      PROVE  /\ procs'[q].ts # session'.ts
             /\ \A r \in Proc : /\ procs'[r].seen.ts # procs'[q].ts
                                /\ r # q => procs'[r].ts # procs'[q].ts
  <2>1. q # p /\ procs'[q].ts = procs[q].ts
    BY <1>2, <1>6
  <2>2. procs[q].ts # session'.ts
    <3>1. session'.ts = procs[p].ts \/ session'.ts = procs[p].seen.ts
      OBVIOUS
    <3> QED
      BY <1>6, <2>1, <3>1, Apart
  <2>3. ASSUME NEW r \in Proc
        PROVE  procs'[r].seen.ts # procs[q].ts /\ (r # q => procs'[r].ts # procs[q].ts)
    <3>1. procs[r].seen.ts # procs[q].ts /\ (r # q => procs[r].ts # procs[q].ts)
      BY <1>6, <2>1, Apart
    <3>2. CASE r = p
      BY <1>2, <1>6, <2>1, <3>1, <3>2, IdleLeaves
    <3>3. CASE r # p
      BY <1>2, <3>1, <3>3
    <3> QED
      BY <3>2, <3>3
  <2> QED
    BY <2>1, <2>2, <2>3
<1> QED
  BY <1>3, <1>4, <1>5, <1>6 DEF Linked

LEMMA LinkedInit == Init => Linked /\ Silent
<1> SUFFICES ASSUME Init PROVE Linked /\ Silent
  OBVIOUS
<1>1. \A p \in Proc : procs[p] = Idle
  BY DEF Init
<1>2. session.ts = 0 /\ session.content = <<>> /\ Len(slack) = 0
  BY IdleLeaves DEF Init
<1> QED
  BY <1>1, <1>2, IdleLeaves DEF Linked, Silent, Init

LEMMA LinkedStep == Typed /\ Linked /\ Silent /\ [Next]_vars => Linked' /\ Silent'
<1> SUFFICES ASSUME TypeOK, Shape, Linked, Silent, [Next]_vars PROVE Linked' /\ Silent'
  BY DEF Typed
<1>a. procs \in [Proc -> ProcType] /\ Idle \in ProcType
  BY ConstantTypes DEF TypeOK, ProcType, PC
<1>b. \A p \in Proc : procs[p] \in ProcType /\ WellFormed(procs[p], Len(types))
  BY <1>a DEF Shape
<1>c. Call \subseteq Proc /\ Manager \in Proc
  BY DEF Proc
<1>0. CASE UNCHANGED vars
  BY <1>0 DEF vars, Linked, Silent
<1>1. ASSUME NEW c \in Call, SayNew(c) PROVE Linked' /\ Silent'
  <2>1. PICK v : /\ procs' = [procs EXCEPT ![c] = v]
                 /\ v = [Idle EXCEPT !.pc = "post", !.piece = Len(types')]
    BY <1>1 DEF SayNew, Become
  <2>2. v.ts = 0 /\ v.seen = NoReply /\ v.pc = "post" /\ v.text = <<>> /\ v.took = <<>>
    BY <2>1 DEF Idle
  <2>3. session' = session /\ slack' = slack /\ buffer' = buffer /\ scheduled' = scheduled
    BY <1>1 DEF SayNew
  <2>4. Linked'
    BY <1>c, <2>1, <2>2, <2>3, LinkedOf
  <2> QED
    BY <1>a, <1>c, <2>1, <2>2, <2>3, <2>4, SilentOf DEF Silent
<1>2. ASSUME NEW c \in Call, SayMore(c) PROVE Linked' /\ Silent'
  <2>1. PICK v : /\ procs' = [procs EXCEPT ![c] = v]
                 /\ v.ts = 0 /\ v.seen = NoReply /\ v.pc \in {"append", "read"}
    <3> DEFINE current == IF buffer # <<>> THEN bufferType ELSE session.type
               v == [Idle EXCEPT !.pc = IF current = Last(types') THEN "append" ELSE "read",
                                 !.piece = Len(types'), !.was = current]
    <3>1. procs' = [procs EXCEPT ![c] = v]
      BY <1>2 DEF SayMore, Become
    <3>2. v.ts = 0 /\ v.seen = NoReply /\ v.pc \in {"append", "read"}
      BY DEF Idle
    <3> QED
      BY <3>1, <3>2
  <2>2. session.ts # 0 /\ session' = session /\ slack' = slack
    BY <1>2 DEF SayMore
  <2> QED
    BY <1>c, <2>1, <2>2, LinkedOf, SilentOf
<1>3. ASSUME NEW c \in Call, EndTurn(c) PROVE Linked' /\ Silent'
  <2>1. PICK v : /\ procs' = [procs EXCEPT ![c] = v]
                 /\ v.ts = 0 /\ v.seen = NoReply /\ v.pc = "discard"
                 /\ v.text = <<>> /\ v.took = <<>> /\ v.piece = 0
    <3> DEFINE v == [Idle EXCEPT !.pc = "discard"]
    <3>1. procs' = [procs EXCEPT ![c] = v]
      BY <1>3 DEF EndTurn, Become
    <3>2. /\ v.ts = 0 /\ v.seen = NoReply /\ v.pc = "discard"
          /\ v.text = <<>> /\ v.took = <<>> /\ v.piece = 0
      BY DEF Idle
    <3> QED
      BY <3>1, <3>2
  <2>2. session' = session /\ slack' = slack /\ buffer' = buffer /\ scheduled' = scheduled
    BY <1>3 DEF EndTurn
  <2>3. Linked'
    BY <1>c, <2>1, <2>2, LinkedOf
  <2> QED
    BY <1>c, <2>1, <2>2, <2>3, SilentOf DEF Silent
<1>4. CASE ManagerFlushes
  <2>1. PICK v : /\ procs' = [procs EXCEPT ![Manager] = v]
                 /\ v.ts = 0 /\ v.seen = NoReply /\ v.pc = "read"
    <3> DEFINE v == [Idle EXCEPT !.pc = "read"]
    <3>1. procs' = [procs EXCEPT ![Manager] = v]
      BY <1>4 DEF ManagerFlushes, Become
    <3>2. v.ts = 0 /\ v.seen = NoReply /\ v.pc = "read"
      BY DEF Idle
    <3> QED
      BY <3>1, <3>2
  <2>2. session.ts # 0 /\ session' = session /\ slack' = slack
    BY <1>4 DEF ManagerFlushes, Silent
  <2> QED
    BY <1>c, <2>1, <2>2, LinkedOf, SilentOf
<1>5. ASSUME NEW p \in Proc, FlushReads(p) PROVE Linked' /\ Silent'
  <2>1. PICK v : /\ procs' = [procs EXCEPT ![p] = v]
                 /\ v.ts = procs[p].ts /\ v.seen = session
    <3> DEFINE v == [procs[p] EXCEPT !.pc = "look", !.seen = session]
    <3>1. procs' = [procs EXCEPT ![p] = v]
      BY <1>5 DEF FlushReads, Become
    <3>2. v.ts = procs[p].ts /\ v.seen = session
      BY <1>b DEF ProcType
    <3> QED
      BY <3>1, <3>2
  <2>2. session.ts # 0 /\ session' = session /\ slack' = slack
    BY <1>5 DEF FlushReads, At, Silent
  <2> QED
    BY <2>1, <2>2, LinkedOf, SilentOf
<1>6. ASSUME NEW p \in Proc, FlushLooks(p) PROVE Linked' /\ Silent'
  <2>0. procs[p].seen.ts # 0
    BY <1>6 DEF FlushLooks, At, Silent
  <2>1. PICK v : /\ procs' = [procs EXCEPT ![p] = v]
                 /\ v.ts \in {0, procs[p].ts} /\ v.seen \in {NoReply, procs[p].seen}
                 /\ v.pc = "take" => v.seen = procs[p].seen
                 /\ v.pc \in {"take", "unschedule"}
    <3>1. CASE buffer = <<>>
      BY <1>6, <3>1, DoneLeaves DEF FlushLooks, Become, PC
    <3>2. CASE buffer # <<>>
      <4> DEFINE v == [procs[p] EXCEPT !.pc = "take", !.type = bufferType]
      <4>1. procs' = [procs EXCEPT ![p] = v]
        BY <1>6, <3>2 DEF FlushLooks, Become
      <4>2. v.ts = procs[p].ts /\ v.seen = procs[p].seen /\ v.pc = "take"
        BY <1>b DEF ProcType
      <4> QED
        BY <4>1, <4>2
    <3> QED
      BY <3>1, <3>2
  <2>2. session.ts # 0 /\ session' = session /\ slack' = slack
    BY <1>6 DEF FlushLooks, At, Silent
  <2> QED
    BY <2>0, <2>1, <2>2, LinkedOf, SilentOf
<1>7. ASSUME NEW p \in Proc, FlushTakes(p) PROVE Linked' /\ Silent'
  <2>0. procs[p].seen.ts # 0
    BY <1>7 DEF FlushTakes, At, Silent
  <2>1. PICK v : /\ procs' = [procs EXCEPT ![p] = v]
                 /\ v.ts \in {0, procs[p].ts} /\ v.seen \in {NoReply, procs[p].seen}
                 /\ v.pc = "update" => v.seen = procs[p].seen
                 /\ v.pc \in {"update", "unschedule"}
    <3>1. CASE buffer = <<>>
      BY <1>7, <3>1, DoneLeaves DEF FlushTakes, Become, PC
    <3>2. CASE buffer # <<>>
      <4> DEFINE v == [procs[p] EXCEPT !.pc = "update", !.text = buffer, !.took = buffer]
      <4>1. procs' = [procs EXCEPT ![p] = v]
        BY <1>7, <3>2 DEF FlushTakes, Become
      <4>2. v.ts = procs[p].ts /\ v.seen = procs[p].seen /\ v.pc = "update"
        BY <1>b DEF ProcType
      <4> QED
        BY <4>1, <4>2
    <3> QED
      BY <3>1, <3>2
  <2>2. session.ts # 0 /\ session' = session /\ slack' = slack
    BY <1>7 DEF FlushTakes, At, Silent
  <2> QED
    BY <2>0, <2>1, <2>2, LinkedOf, SilentOf
<1>8. ASSUME NEW p \in Proc, FlushUpdates(p) PROVE Linked' /\ Silent'
  <2>0. procs[p].seen.ts # 0
    BY <1>8 DEF FlushUpdates, At, Silent
  <2>1. PICK v : /\ procs' = [procs EXCEPT ![p] = v]
                 /\ v.ts = procs[p].ts /\ v.seen = procs[p].seen
    <3> DEFINE v == [procs[p] EXCEPT !.pc = "record"]
    <3>1. procs' = [procs EXCEPT ![p] = v]
      BY <1>8 DEF FlushUpdates, Goto, Become
    <3>2. v.ts = procs[p].ts /\ v.seen = procs[p].seen
      BY <1>b DEF ProcType
    <3> QED
      BY <3>1, <3>2
  <2>2. session' = session /\ Len(slack') = Len(slack)
    BY <1>8 DEF FlushUpdates, TypeOK
  <2>3. session.ts # 0
    BY <1>8 DEF FlushUpdates, At, Silent
  <2> QED
    BY <2>0, <2>1, <2>2, <2>3, LinkedOf, SilentOf
<1>9. ASSUME NEW p \in Proc, FlushDeferred(p) \/ FlushFails(p) PROVE Linked' /\ Silent'
  <2>1. PICK v \in ProcType : /\ procs' = [procs EXCEPT ![p] = v]
                              /\ v.ts = 0 /\ v.seen = NoReply
                              /\ v.pc \in {"idle", "post", "discard"}
    BY <1>9, ReturnLeaves DEF FlushDeferred, FlushFails
  <2>2. session' = session /\ slack' = slack
    BY <1>9 DEF FlushDeferred, FlushFails
  <2>3. session.ts # 0
    <3>1. FlushDeferred(p) => procs[p].pc = "update"
      BY DEF FlushDeferred, At
    <3>2. FlushFails(p) => procs[p].took # <<>>
      BY DEF FlushFails
    <3> QED
      BY <1>9, <3>1, <3>2 DEF Silent
  <2> QED
    BY <2>1, <2>2, <2>3, LinkedOf, SilentOf
<1>10. ASSUME NEW p \in Proc, FlushRecords(p) PROVE Linked' /\ Silent'
  <2>1. PICK v : /\ procs' = [procs EXCEPT ![p] = v]
                 /\ v.ts = 0 /\ v.seen = NoReply /\ v.pc \in {"check", "spill"}
    <3> DEFINE rest == Rest(Content(p))
    <3>1. CASE rest = <<>>
      BY <1>10, <3>1, DoneLeaves DEF FlushRecords, Become, PC
    <3>2. CASE rest # <<>>
      <4> DEFINE d == Done(p, "spill")
                 v == [d EXCEPT !.text = rest, !.type = procs[p].type]
      <4>1. procs' = [procs EXCEPT ![p] = v]
        BY <1>10, <3>2 DEF FlushRecords, Become
      <4>2. d \in ProcType /\ d.ts = 0 /\ d.seen = NoReply /\ d.pc = "spill"
        BY DoneLeaves DEF PC
      <4>3. v.ts = 0 /\ v.seen = NoReply /\ v.pc = "spill"
        <5> HIDE DEF d, rest
        <5> QED
          BY <4>2 DEF ProcType
      <4> QED
        BY <4>1, <4>3
    <3> QED
      BY <3>1, <3>2
  <2>2. session'.ts = procs[p].seen.ts /\ procs[p].seen.ts # 0 /\ slack' = slack
    BY <1>10 DEF FlushRecords, At, Silent
  <2> QED
    BY <2>1, <2>2, LinkedMoves
<1>11. ASSUME NEW p \in Proc, FlushChecks(p) PROVE Linked' /\ Silent'
  <2>1. PICK v : /\ procs' = [procs EXCEPT ![p] = v]
                 /\ v.ts \in {0, procs[p].ts} /\ v.seen \in {NoReply, procs[p].seen}
                 /\ v.pc \in {"idle", "post", "discard", "unschedule"}
    <3>1. CASE buffer = <<>>
      <4> DEFINE v == [procs[p] EXCEPT !.pc = "unschedule"]
      <4>1. procs' = [procs EXCEPT ![p] = v]
        BY <1>11, <3>1 DEF FlushChecks, Goto, Become
      <4>2. v.ts = procs[p].ts /\ v.seen = procs[p].seen /\ v.pc = "unschedule"
        BY <1>b DEF ProcType
      <4> QED
        BY <4>1, <4>2
    <3>2. CASE buffer # <<>>
      <4>1. Return(p, procs[p].ok) /\ procs[p].ok \in BOOLEAN
        BY <1>11, <3>2, <1>b DEF FlushChecks, ProcType
      <4> QED
        BY <4>1, ReturnLeaves
    <3> QED
      BY <3>1, <3>2
  <2>2. session.ts # 0 /\ session' = session /\ slack' = slack
    BY <1>11 DEF FlushChecks, At, Silent
  <2> QED
    BY <2>1, <2>2, LinkedOf, SilentOf
<1>12. ASSUME NEW p \in Proc, Unschedule(p) PROVE Linked' /\ Silent'
  <2>0. /\ session' = session /\ slack' = slack /\ buffer' = buffer /\ ~scheduled'
        /\ procs[p].pc = "unschedule"
    BY <1>12 DEF Unschedule, At
  <2>1. CASE procs[p].text # <<>>
    <3>1. PICK v : /\ procs' = [procs EXCEPT ![p] = v]
                   /\ v.ts = procs[p].ts /\ v.seen = procs[p].seen /\ v.pc = "rescue"
      <4> DEFINE v == [procs[p] EXCEPT !.pc = "rescue"]
      <4>1. procs' = [procs EXCEPT ![p] = v]
        BY <1>12, <2>1 DEF Unschedule, Goto, Become
      <4>2. v.ts = procs[p].ts /\ v.seen = procs[p].seen /\ v.pc = "rescue"
        BY <1>b DEF ProcType
      <4> QED
        BY <4>1, <4>2
    <3>2. session.ts # 0
      BY <2>1 DEF Silent
    <3> QED
      BY <2>0, <3>1, <3>2, LinkedOf, SilentOf
  <2>2. CASE procs[p].text = <<>>
    <3>1. Return(p, procs[p].ok) /\ procs[p].ok \in BOOLEAN
      BY <1>12, <2>2, <1>b DEF Unschedule, ProcType
    <3>2. PICK v \in ProcType :
            /\ procs' = [procs EXCEPT ![p] = v]
            /\ v.text = <<>> /\ v.took = <<>> /\ v.ts = 0 /\ v.seen = NoReply
            /\ v.piece = procs[p].piece /\ v.pc \in {"idle", "post", "discard"}
            /\ v.pc # "idle" => v.piece # 0
      BY <3>1, ReturnLeaves
    <3>3. session.ts = 0 => buffer = <<>> /\ procs[p].piece = 0
      BY <2>0 DEF Silent
    <3>4. Linked'
      BY <2>0, <3>2, LinkedOf
    <3> QED
      BY <2>0, <3>2, <3>3, <3>4, SilentOf
  <2> QED
    BY <2>1, <2>2
<1>13. ASSUME NEW p \in Proc, Posts(p) PROVE Linked' /\ Silent'
  <2> DEFINE v == [procs[p] EXCEPT !.ts = Len(slack) + 1]
  <2>1. procs' = [procs EXCEPT ![p] = v] /\ v.ts = Len(slack) + 1
        /\ v.seen = procs[p].seen /\ v.pc = procs[p].pc /\ v.pc \in Posting
        /\ v.text = procs[p].text /\ v.took = procs[p].took /\ v.piece = procs[p].piece
    BY <1>13, <1>b DEF Posts, Become, ProcType
  <2>2. /\ session' = session /\ Len(slack') = Len(slack) + 1 /\ buffer' = buffer
        /\ scheduled' = scheduled /\ Len(slack) \in Nat
    BY <1>13 DEF Posts, TypeOK
  <2>a. procs'[p] = v /\ \A q \in Proc \ {p} : procs'[q] = procs[q]
    BY <1>a, <2>1
  <2>3. Silent'
    <3> HIDE DEF v
    <3> QED
      BY <2>1, <2>2, SilentOf DEF Silent, Posting
  <2>b. /\ session.ts \in Nat
        /\ \A q \in Proc : procs[q].ts \in Nat /\ procs[q].seen.ts \in Nat
    BY <1>b DEF TypeOK, ProcType, Reply_
  <2> HIDE DEF v
  <2>4. \A q \in Proc : procs'[q].seen.ts = procs[q].seen.ts
    BY <2>1, <2>a
  <2>5. session'.ts <= Len(slack') /\ session'.ts # v.ts
    BY <2>1, <2>2, <2>b DEF Linked
  <2>6. ASSUME NEW q \in Proc
        PROVE  procs'[q].ts <= Len(slack') /\ procs'[q].seen.ts <= Len(slack')
               /\ procs'[q].seen.ts # v.ts /\ (q # p => procs'[q].ts # v.ts)
    <3>1. procs[q].ts <= Len(slack) /\ procs[q].seen.ts <= Len(slack)
      BY DEF Linked
    <3>2. procs'[q].ts = IF q = p THEN v.ts ELSE procs[q].ts
      BY <2>a
    <3> QED
      BY <2>1, <2>2, <2>b, <2>4, <3>1, <3>2
  <2>7. ASSUME NEW q \in Proc, procs'[q].ts # 0
        PROVE  /\ procs'[q].ts # session'.ts
               /\ \A r \in Proc : /\ procs'[r].seen.ts # procs'[q].ts
                                  /\ r # q => procs'[r].ts # procs'[q].ts
    <3>1. CASE q = p
      BY <2>5, <2>6, <2>a, <3>1
    <3>2. CASE q # p
      <4>1. procs'[q].ts = procs[q].ts /\ procs[q].ts # 0
        BY <2>7, <2>a, <3>2
      <4>2. procs[q].ts # session.ts
        BY <4>1 DEF Linked
      <4>3. ASSUME NEW r \in Proc
            PROVE  procs'[r].seen.ts # procs[q].ts /\ (r # q => procs'[r].ts # procs[q].ts)
        <5>1. procs[r].seen.ts # procs[q].ts /\ (r # q => procs[r].ts # procs[q].ts)
          BY <4>1, Apart
        <5>2. procs[q].ts # v.ts
          BY <2>6, <3>2, <4>1
        <5>3. procs'[r].ts = IF r = p THEN v.ts ELSE procs[r].ts
          BY <2>a
        <5> QED
          BY <2>4, <5>1, <5>2, <5>3
      <4> QED
        BY <2>2, <4>1, <4>2, <4>3
    <3> QED
      BY <3>1, <3>2
  <2> QED
    BY <2>3, <2>5, <2>6, <2>7 DEF Linked
<1>14. ASSUME NEW p \in Proc, PostFails(p) PROVE Linked' /\ Silent'
  <2>0. /\ session' = session /\ slack' = slack /\ scheduled' = scheduled
    BY <1>14 DEF PostFails
  <2>1. CASE Answer(p, FALSE) /\ buffer' = buffer
    <3>1. procs' = [procs EXCEPT ![p] = Idle]
      BY <2>1 DEF Answer, Become
    <3>2. Linked'
      BY <2>0, <3>1, LinkedOf, IdleLeaves
    <3> QED
      BY <2>0, <2>1, <3>1, <3>2, SilentOf, IdleLeaves DEF Silent
  <2>2. CASE At(p, "rescue") /\ Become(p, Done(p, "post"))
    <3>1. PICK v : /\ procs' = [procs EXCEPT ![p] = v]
                   /\ v.ts = 0 /\ v.seen = NoReply /\ v.pc = "post"
      BY <2>2, DoneLeaves DEF Become, PC
    <3>2. session.ts # 0
      BY <2>2 DEF At, Silent
    <3> QED
      BY <2>0, <3>1, <3>2, LinkedOf, SilentOf
  <2>3. CASE At(p, "spill") /\ Become(p, [Done(p, "check") EXCEPT !.ok = FALSE])
    <3> DEFINE d == Done(p, "check")
               v == [d EXCEPT !.ok = FALSE]
    <3>1. procs' = [procs EXCEPT ![p] = v]
      BY <2>3 DEF Become
    <3>2. d \in ProcType /\ d.ts = 0 /\ d.seen = NoReply /\ d.pc = "check"
      BY DoneLeaves DEF PC
    <3>3. v.ts = 0 /\ v.seen = NoReply /\ v.pc = "check"
      <4> HIDE DEF d
      <4> QED
        BY <3>2 DEF ProcType
    <3>4. session.ts # 0
      BY <2>3 DEF At, Silent
    <3> HIDE DEF v
    <3> QED
      BY <2>0, <3>1, <3>3, <3>4, LinkedOf, SilentOf
  <2> QED
    BY <1>14, <2>1, <2>2, <2>3 DEF PostFails
<1>15. ASSUME NEW p \in Proc, PostRecorded(p) PROVE Linked' /\ Silent'
  <2>1. PICK v : /\ procs' = [procs EXCEPT ![p] = v]
                 /\ v.ts = 0 /\ (v.seen = NoReply \/ v.seen = procs[p].seen)
                 /\ v.pc \in {"idle", "post", "check", "spill"}
                 /\ At(p, "post") => v = Idle
    <3>1. CASE At(p, "post")
      BY <1>15, <3>1, IdleLeaves DEF PostRecorded, At, Answer, Become
    <3>2. CASE At(p, "rescue")
      BY <1>15, <3>2, DoneLeaves DEF PostRecorded, At, Become, PC
    <3>3. CASE At(p, "spill")
      <4> DEFINE rest == Rest(procs[p].text)
      <4>1. CASE rest = <<>>
        BY <1>15, <3>3, <4>1, DoneLeaves DEF PostRecorded, At, Become, PC
      <4>2. CASE rest # <<>>
        <5> DEFINE v == [procs[p] EXCEPT !.text = rest, !.ts = 0]
        <5>1. procs' = [procs EXCEPT ![p] = v]
          BY <1>15, <3>3, <4>2 DEF PostRecorded, At, Become
        <5>2. v.ts = 0 /\ v.seen = procs[p].seen /\ v.pc = procs[p].pc
          <6> HIDE DEF rest
          <6> QED
            BY <1>b DEF ProcType
        <5> QED
          BY <3>3, <5>1, <5>2 DEF At
      <4> QED
        BY <4>1, <4>2
    <3> QED
      BY <1>15, <3>1, <3>2, <3>3 DEF PostRecorded
  <2>2. procs[p].ts # 0 /\ slack' = slack /\ buffer' = buffer /\ scheduled' = scheduled
    BY <1>15 DEF PostRecorded
  <2>3. CASE session' = session
    <3>1. Linked'
      BY <2>1, <2>2, <2>3, LinkedOf, Zenon
    <3>2. session.ts = 0 => At(p, "post")
      BY <1>b, <2>2 DEF At, Silent, WellFormed, Posting
    <3>3. session.ts = 0 => v = Idle
      BY <2>1, <3>2
    <3> QED
      BY <2>1, <2>2, <2>3, <3>1, <3>3, SilentOf, IdleLeaves DEF Silent
  <2>4. CASE session'.ts = procs[p].ts
    BY <2>1, <2>2, <2>4, LinkedMoves
  <2> QED
    BY <1>15, <2>3, <2>4 DEF PostRecorded
<1>16. ASSUME NEW p \in Proc, AppendToBuffer(p) PROVE Linked' /\ Silent'
  <2>1. PICK v : /\ procs' = [procs EXCEPT ![p] = v]
                 /\ v.ts = procs[p].ts /\ v.seen = procs[p].seen /\ v.pc = "schedule"
    <3> DEFINE v == [procs[p] EXCEPT !.pc = "schedule"]
    <3>1. procs' = [procs EXCEPT ![p] = v]
      BY <1>16 DEF AppendToBuffer, Goto, Become
    <3>2. v.ts = procs[p].ts /\ v.seen = procs[p].seen /\ v.pc = "schedule"
      BY <1>b DEF ProcType
    <3> QED
      BY <3>1, <3>2
  <2>2. session.ts # 0 /\ session' = session /\ slack' = slack
    BY <1>16 DEF AppendToBuffer, At, Silent
  <2> QED
    BY <2>1, <2>2, LinkedOf, SilentOf
<1>17. ASSUME NEW p \in Proc, Schedule(p) PROVE Linked' /\ Silent'
  <2>1. PICK v : /\ procs' = [procs EXCEPT ![p] = v]
                 /\ v.ts = 0 /\ v.seen = NoReply /\ v.pc \in {"idle", "read"}
    <3>1. CASE Answer(p, TRUE)
      BY <3>1, IdleLeaves DEF Answer, Become
    <3>2. CASE Become(p, [Idle EXCEPT !.pc = "read"])
      <4> DEFINE v == [Idle EXCEPT !.pc = "read"]
      <4>1. procs' = [procs EXCEPT ![p] = v]
        BY <3>2 DEF Become
      <4>2. v.ts = 0 /\ v.seen = NoReply /\ v.pc = "read"
        BY DEF Idle
      <4> QED
        BY <4>1, <4>2
    <3> QED
      BY <1>17, <3>1, <3>2 DEF Schedule
  <2>2. session.ts # 0 /\ session' = session /\ slack' = slack
    BY <1>17 DEF Schedule, At, Silent
  <2> QED
    BY <2>1, <2>2, LinkedOf, SilentOf
<1>18. ASSUME NEW p \in Proc, Discard(p) PROVE Linked' /\ Silent'
  <2> DEFINE text == IF procs[p].piece # 0 THEN buffer ELSE <<>>
  <2>1. PICK v : /\ procs' = [procs EXCEPT ![p] = v]
                 /\ v.ts = procs[p].ts /\ v.seen = procs[p].seen /\ v.pc = "unschedule"
                 /\ v.piece = procs[p].piece /\ v.text = text /\ v.took = procs[p].took
    <3> DEFINE v == [procs[p] EXCEPT !.pc = "unschedule", !.text = text]
    <3>1. procs' = [procs EXCEPT ![p] = v]
      BY <1>18 DEF Discard, Become
    <3>2. /\ v.ts = procs[p].ts /\ v.seen = procs[p].seen /\ v.pc = "unschedule"
          /\ v.piece = procs[p].piece /\ v.text = text /\ v.took = procs[p].took
      <4> HIDE DEF text
      <4> QED
        BY <1>b DEF ProcType
    <3> QED
      BY <3>1, <3>2
  <2>2. /\ session' = session /\ slack' = slack /\ buffer' = <<>> /\ scheduled' = scheduled
        /\ procs[p].pc = "discard"
    BY <1>18 DEF Discard, At
  <2>3. session.ts = 0 => procs[p].piece = 0 /\ ~scheduled /\ procs[p].took = <<>>
    BY <2>2 DEF Silent
  <2>4. Linked'
    BY <2>1, <2>2, LinkedOf
  <2> QED
    BY <2>1, <2>2, <2>3, <2>4, SilentOf
<1>19. CASE SayInVain \/ TimeOut \/ GateOpens
  <2>1. UNCHANGED <<session, slack, procs, buffer, scheduled>>
    BY <1>19 DEF SayInVain, TimeOut, GateOpens
  <2> QED
    BY <2>1 DEF Linked, Silent
<1>20. CASE Crash
  <2>1. \A q \in Proc : procs'[q] = Idle
    BY <1>20 DEF Crash
  <2>2. session' = session /\ slack' = slack /\ buffer' = buffer /\ scheduled' = scheduled
        /\ Len(slack) \in Nat
    BY <1>20 DEF Crash, TypeOK
  <2> QED
    BY <2>1, <2>2, IdleLeaves DEF Linked, Silent
<1>21. ASSUME NEW p \in Proc, CallFails(p) PROVE Linked' /\ Silent'
  <2>1. /\ session' = session /\ slack' = slack /\ scheduled' = scheduled
        /\ buffer' = buffer /\ procs' = [procs EXCEPT ![p] = Idle]
    BY <1>21 DEF CallFails, Answer, Become
  <2>2. Linked'
    BY <2>1, LinkedOf, IdleLeaves
  <2> QED
    BY <2>1, <2>2, SilentOf, IdleLeaves DEF Silent
<1> QED
  BY <1>0, <1>1, <1>2, <1>3, <1>4, <1>5, <1>6, <1>7, <1>8, <1>9, <1>10, <1>11,
     <1>12, <1>13, <1>14, <1>15, <1>16, <1>17, <1>18, <1>19, <1>20, <1>21
     DEF Next, Work, Flush, Reply
-----------------------------------------------------------------------------
(* Where a piece is                                                        *)

\* A process that holds a piece which is not yet part of any text.
Loose(v) == v.piece # 0 /\ v.pc # "schedule" /\ ~(v.pc = "post" /\ v.ts # 0)

\* Pieces that are part of some text.
Taken == UNION {ToSet(procs[p].text) \cup ToSet(procs[p].took) : p \in Proc}
Read  == UNION {ToSet(procs[p].seen.content) : p \in Proc}
Entered ==
  Shown \cup ToSet(buffer) \cup ToSet(session.content) \cup Taken \cup Read

\* A piece is with one process; until it is in a text, it is not refused.
Owned ==
  /\ refused \subseteq Said /\ Entered \subseteq Said
  /\ \A p \in Proc : Loose(procs[p]) => procs[p].piece \notin Entered \cup refused
  /\ \A p, q \in Proc :
       p # q => procs[p].piece = 0 \/ procs[p].piece # procs[q].piece

\* What is posted stays as it was posted until it is recorded.
Posted ==
  \A p \in Proc : procs[p].ts # 0 => slack[procs[p].ts].text = First(Chunk(p))

LEMMA EmptyText == ToSet(<<>>) = {}
BY DEF ToSet

LEMMA TextTypes ==
  ASSUME TypeOK, NEW p \in Proc
  PROVE  /\ procs[p].text \in Seq(Piece) /\ procs[p].seen.content \in Seq(Piece)
         /\ buffer \in Seq(Piece) /\ session.content \in Seq(Piece)
         /\ Content(p) \in Seq(Piece)
         /\ ToSet(Content(p)) = ToSet(procs[p].seen.content) \cup ToSet(procs[p].text)
<1>1. procs[p] \in ProcType
  BY ProcTyped
<1>2. /\ procs[p].text \in Seq(Piece) /\ procs[p].seen.content \in Seq(Piece)
      /\ buffer \in Seq(Piece) /\ session.content \in Seq(Piece)
  BY <1>1 DEF ProcType, Reply_, Text, TypeOK
<1> QED
  BY <1>2, Joined DEF Content

\* What the thread shows after a message is posted or written over.
LEMMA ShownPosted ==
  ASSUME slack \in Seq(Message), NEW m \in Message, slack' = Append(slack, m)
  PROVE  Shown' = Shown \cup ToSet(m.text)
<1>1. /\ DOMAIN slack' = DOMAIN slack \cup {Len(slack) + 1}
      /\ slack'[Len(slack) + 1] = m
      /\ \A i \in DOMAIN slack : slack'[i] = slack[i]
  OBVIOUS
<1>2. Shown' = UNION {ToSet(slack'[i].text) : i \in DOMAIN slack'}
  BY DEF Shown, ToSet
<1>3. Shown = UNION {ToSet(slack[i].text) : i \in DOMAIN slack}
  BY DEF Shown
<1> QED
  BY <1>1, <1>2, <1>3

LEMMA ShownWritten ==
  ASSUME slack \in Seq(Message), NEW i, NEW m \in Message,
         slack' = [slack EXCEPT ![i] = m]
  PROVE  /\ Shown' \subseteq Shown \cup ToSet(m.text)
         /\ \A j \in DOMAIN slack : j # i => slack'[j] = slack[j]
         /\ i \in DOMAIN slack => slack'[i] = m
         /\ DOMAIN slack' = DOMAIN slack
<1>1. DOMAIN slack' = DOMAIN slack
      /\ \A j \in DOMAIN slack : slack'[j] = IF j = i THEN m ELSE slack[j]
  OBVIOUS
<1>2. Shown' = UNION {ToSet(slack'[j].text) : j \in DOMAIN slack'}
  BY DEF Shown, ToSet
<1>3. Shown = UNION {ToSet(slack[j].text) : j \in DOMAIN slack}
  BY DEF Shown
<1>4. Shown' \subseteq Shown \cup ToSet(m.text)
  BY <1>1, <1>2, <1>3
<1> QED
  BY <1>1, <1>4

\* Nothing that has gone wrong is forgotten.
LEMMA UpsetStays == ASSUME [Next]_vars PROVE upset \subseteq upset'
<1>1. CASE SayInVain \/ TimeOut \/ Crash \/ GateOpens \/ ManagerFlushes \/ UNCHANGED vars
  BY <1>1 DEF SayInVain, TimeOut, Crash, GateOpens, ManagerFlushes, vars, Upset
<1>2. ASSUME NEW c \in Call, SayNew(c) \/ SayMore(c) \/ EndTurn(c)
      PROVE  upset \subseteq upset'
  BY <1>2 DEF SayNew, SayMore, EndTurn, Upset
<1>3. ASSUME NEW p \in Proc, Flush(p) \/ FlushFails(p) PROVE upset \subseteq upset'
  BY <1>3 DEF Flush, FlushReads, FlushLooks, FlushTakes, FlushUpdates, FlushDeferred,
     FlushRecords, FlushChecks, Unschedule, FlushFails, Upset, Requeued
<1>4. ASSUME NEW p \in Proc,
             Reply(p) \/ AppendToBuffer(p) \/ Schedule(p) \/ Discard(p) \/ PostFails(p) \/ CallFails(p)
      PROVE  upset \subseteq upset'
  BY <1>4 DEF Reply, Posts, PostRecorded, AppendToBuffer, Schedule, Discard, PostFails,
     CallFails, Upset, Requeued
<1> QED BY <1>1, <1>2, <1>3, <1>4 DEF Next, Work

\* A process on the way to the overflow of a message.
Spilling(p, v) ==
  /\ v.took = procs[p].took
  /\ \/ procs[p].pc = "spill" /\ (v.text = procs[p].text \/ v.text = Rest(procs[p].text))
     \/ procs[p].pc = "record" /\ v.text = Rest(Content(p))

\* A flush keeps what it has taken from the buffer, or forgets it.
Keeping(p) ==
  /\ ToSet(procs'[p].took) \subseteq ToSet(procs[p].took) \cup ToSet(buffer)
  /\ types' = types => procs'[p].piece \in {0, procs[p].piece}
  /\ \/ procs'[p].seen = procs[p].seen \/ procs'[p].seen = session
     \/ procs'[p].seen = NoReply
  /\ procs'[p].pc = "spill" => Spilling(p, procs'[p])

LEMMA Keeps ==
  ASSUME TypeOK, [Next]_vars, NEW p \in Proc
  PROVE  Keeping(p)
<1>0. procs \in [Proc -> ProcType] /\ Call \subseteq Proc /\ Manager \in Proc
  BY DEF TypeOK, ProcType, PC, Proc
\* A step of one process.
<1>a. ASSUME NEW q \in Proc, NEW v, procs' = [procs EXCEPT ![q] = v],
             v.took = procs[q].took \/ v.took = buffer \/ v.took = <<>>,
             types' = types => v.piece \in {0, procs[q].piece},
             v.seen = procs[q].seen \/ v.seen = session \/ v.seen = NoReply,
             v.pc = "spill" => Spilling(q, v)
      PROVE  Keeping(p)
  <2>1. CASE q = p
    <3>1. procs'[p] = v
      BY <1>0, <1>a, <2>1
    <3> QED
      BY <1>a, <2>1, <3>1, EmptyText DEF Keeping
  <2>2. CASE q # p
    BY <1>0, <1>a, <2>2 DEF Keeping, Spilling
  <2> QED
    BY <2>1, <2>2
<1>b. ASSUME NEW q \in Proc, procs' = [procs EXCEPT ![q] = Idle]
      PROVE  Keeping(p)
  BY <1>a, <1>b, IdleLeaves
<1>c. ASSUME NEW q \in Proc, NEW pc \in PC \ {"spill"}, procs' = [procs EXCEPT ![q] = Done(q, pc)]
      PROVE  Keeping(p)
  BY <1>a, <1>c, DoneLeaves
<1>d. ASSUME NEW q \in Proc, NEW ok \in BOOLEAN, Return(q, ok)
      PROVE  Keeping(p)
  BY <1>a, <1>d, ReturnLeaves
<1>e. ASSUME NEW q \in Proc, NEW pc \in PC \ {"spill"}, Goto(q, pc)
      PROVE  Keeping(p)
  <2> DEFINE v == [procs[q] EXCEPT !.pc = pc]
  <2>1. /\ v.took = procs[q].took /\ v.piece = procs[q].piece /\ v.seen = procs[q].seen
        /\ v.pc # "spill" /\ procs' = [procs EXCEPT ![q] = v]
    BY <1>0, <1>e DEF Goto, Become, ProcType
  <2> QED
    BY <1>a, <2>1
<1>1. CASE \/ UNCHANGED vars \/ SayInVain \/ TimeOut \/ GateOpens
  BY <1>1 DEF Keeping, Spilling, vars, SayInVain, TimeOut, GateOpens
<1>2. CASE Crash
  BY <1>2, IdleLeaves, EmptyText DEF Keeping, Crash
<1>3. ASSUME NEW c \in Call, SayNew(c) \/ SayMore(c) \/ EndTurn(c)
      PROVE  Keeping(p)
  <2>1. PICK v : /\ procs' = [procs EXCEPT ![c] = v] /\ v.took = <<>>
                 /\ v.seen = NoReply /\ v.pc # "spill"
                 /\ Say \/ v.piece = 0
    <3>1. CASE SayNew(c)
      <4> DEFINE v == [Idle EXCEPT !.pc = "post", !.piece = Len(types')]
      <4>1. procs' = [procs EXCEPT ![c] = v] /\ Say
        BY <3>1 DEF SayNew, Become
      <4>2. v.took = <<>> /\ v.seen = NoReply /\ v.pc # "spill"
        BY DEF Idle
      <4> QED
        BY <4>1, <4>2
    <3>2. CASE SayMore(c)
      <4> DEFINE current == IF buffer # <<>> THEN bufferType ELSE session.type
                 v == [Idle EXCEPT !.pc = IF current = Last(types') THEN "append" ELSE "read",
                                   !.piece = Len(types'), !.was = current]
      <4>1. procs' = [procs EXCEPT ![c] = v] /\ Say
        BY <3>2 DEF SayMore, Become
      <4>2. v.took = <<>> /\ v.seen = NoReply /\ v.pc # "spill"
        BY DEF Idle
      <4> QED
        BY <4>1, <4>2
    <3>3. CASE EndTurn(c)
      <4> DEFINE v == [Idle EXCEPT !.pc = "discard"]
      <4>1. procs' = [procs EXCEPT ![c] = v]
        BY <3>3 DEF EndTurn, Become
      <4>2. v.took = <<>> /\ v.piece = 0 /\ v.seen = NoReply /\ v.pc # "spill"
        BY DEF Idle
      <4> QED
        BY <4>1, <4>2
    <3> QED
      BY <1>3, <3>1, <3>2, <3>3
  <2>2. Say => types' # types
    BY SayType DEF TypeOK
  <2> QED
    BY <1>0, <1>a, <2>1, <2>2
<1>4. CASE ManagerFlushes
  <2> DEFINE v == [Idle EXCEPT !.pc = "read"]
  <2>1. procs' = [procs EXCEPT ![Manager] = v] /\ v.took = <<>> /\ v.piece = 0 /\ v.seen = NoReply
          /\ v.pc # "spill"
    BY <1>4 DEF ManagerFlushes, Become, Idle
  <2> QED
    BY <1>0, <1>a, <2>1
<1>5. ASSUME NEW q \in Proc, FlushReads(q)
      PROVE  Keeping(p)
  <2> DEFINE v == [procs[q] EXCEPT !.pc = "look", !.seen = session]
  <2>1. /\ procs' = [procs EXCEPT ![q] = v] /\ v.took = procs[q].took
        /\ v.piece = procs[q].piece /\ v.seen = session /\ v.pc # "spill"
    BY <1>0, <1>5 DEF FlushReads, Become, ProcType
  <2> QED
    BY <1>a, <2>1
<1>6. ASSUME NEW q \in Proc, FlushLooks(q) \/ FlushTakes(q)
      PROVE  Keeping(p)
  <2>1. CASE buffer = <<>>
    BY <1>6, <1>c, <2>1 DEF FlushLooks, FlushTakes, Become, PC
  <2>2. CASE FlushLooks(q) /\ buffer # <<>>
    <3> DEFINE v == [procs[q] EXCEPT !.pc = "take", !.type = bufferType]
    <3>1. /\ procs' = [procs EXCEPT ![q] = v] /\ v.took = procs[q].took
          /\ v.piece = procs[q].piece /\ v.seen = procs[q].seen /\ v.pc # "spill"
      BY <1>0, <2>2 DEF FlushLooks, Become, ProcType
    <3> QED
      BY <1>a, <3>1
  <2>3. CASE FlushTakes(q) /\ buffer # <<>>
    <3> DEFINE v == [procs[q] EXCEPT !.pc = "update", !.text = buffer, !.took = buffer]
    <3>1. /\ procs' = [procs EXCEPT ![q] = v] /\ v.took = buffer
          /\ v.piece = procs[q].piece /\ v.seen = procs[q].seen /\ v.pc # "spill"
      BY <1>0, <2>3 DEF FlushTakes, Become, ProcType
    <3> QED
      BY <1>a, <3>1
  <2> QED
    BY <1>6, <2>1, <2>2, <2>3
<1>7. ASSUME NEW q \in Proc, FlushUpdates(q) \/ AppendToBuffer(q)
      PROVE  Keeping(p)
  BY <1>7, <1>e DEF FlushUpdates, AppendToBuffer, PC
<1>8. ASSUME NEW q \in Proc, FlushDeferred(q) \/ FlushFails(q)
      PROVE  Keeping(p)
  BY <1>8, <1>d DEF FlushDeferred, FlushFails
<1>9. ASSUME NEW q \in Proc, FlushRecords(q)
      PROVE  Keeping(p)
  <2> DEFINE rest == Rest(Content(q))
             d == Done(q, "spill")
             v == [d EXCEPT !.text = rest, !.type = procs[q].type]
  <2>1. CASE rest = <<>>
    BY <1>9, <1>c, <2>1 DEF FlushRecords, Become, PC
  <2>2. CASE rest # <<>>
    <3>1. procs' = [procs EXCEPT ![q] = v] /\ procs[q].pc = "record"
      BY <1>9, <2>2 DEF FlushRecords, Become, At
    <3>2. /\ d \in ProcType /\ d.took = procs[q].took /\ d.piece = procs[q].piece
          /\ d.seen = NoReply
      BY DoneLeaves DEF PC
    <3> HIDE DEF d, rest
    <3>3. /\ v.took = procs[q].took /\ v.piece = procs[q].piece /\ v.seen = NoReply
          /\ v.text = rest
      BY <3>2 DEF ProcType
    <3>4. Spilling(q, v)
      BY <3>1, <3>3 DEF Spilling, rest
    <3> QED
      BY <1>a, <3>1, <3>3, <3>4
  <2> QED
    BY <2>1, <2>2
<1>10. ASSUME NEW q \in Proc, FlushChecks(q) \/ Unschedule(q)
       PROVE  Keeping(p)
  <2>1. procs[q].ok \in BOOLEAN
    BY <1>0 DEF ProcType
  <2> QED
    BY <1>10, <1>d, <1>e, <2>1 DEF FlushChecks, Unschedule, PC
<1>11. ASSUME NEW q \in Proc, Posts(q)
       PROVE  Keeping(p)
  <2> DEFINE v == [procs[q] EXCEPT !.ts = Len(slack) + 1]
  <2>1. /\ procs' = [procs EXCEPT ![q] = v] /\ v.took = procs[q].took
        /\ v.piece = procs[q].piece /\ v.seen = procs[q].seen
        /\ v.pc = procs[q].pc /\ v.text = procs[q].text
    BY <1>0, <1>11 DEF Posts, Become, ProcType
  <2>2. v.pc = "spill" => Spilling(q, v)
    BY <2>1 DEF Spilling
  <2> HIDE DEF v
  <2> QED
    BY <1>a, <2>1, <2>2
<1>12. ASSUME NEW q \in Proc, PostFails(q)
       PROVE  Keeping(p)
  <2>1. CASE Answer(q, FALSE)
    BY <1>b, <2>1 DEF Answer, Become
  <2>2. CASE Become(q, Done(q, "post"))
    BY <1>c, <2>2 DEF Become, PC
  <2>3. CASE Become(q, [Done(q, "check") EXCEPT !.ok = FALSE])
    <3> DEFINE d == Done(q, "check")
               v == [d EXCEPT !.ok = FALSE]
    <3>1. procs' = [procs EXCEPT ![q] = v]
      BY <2>3 DEF Become
    <3>2. /\ d \in ProcType /\ d.took = procs[q].took /\ d.piece = procs[q].piece
          /\ d.seen = NoReply /\ d.pc = "check"
      BY DoneLeaves DEF PC
    <3> HIDE DEF d
    <3>3. /\ v.took = procs[q].took /\ v.piece = procs[q].piece /\ v.seen = NoReply
          /\ v.pc = "check"
      BY <3>2 DEF ProcType
    <3> QED
      BY <1>a, <3>1, <3>3
  <2> QED
    BY <1>12, <2>1, <2>2, <2>3 DEF PostFails
<1>13. ASSUME NEW q \in Proc, PostRecorded(q)
       PROVE  Keeping(p)
  <2> DEFINE rest == Rest(procs[q].text)
             v == [procs[q] EXCEPT !.text = rest, !.ts = 0]
  <2>1. CASE Answer(q, TRUE)
    BY <1>b, <2>1 DEF Answer, Become
  <2>2. CASE Become(q, Done(q, "post")) \/ Become(q, Done(q, "check"))
    BY <1>c, <2>2 DEF Become, PC
  <2>3. CASE At(q, "spill") /\ Become(q, v)
    <3>1. procs' = [procs EXCEPT ![q] = v] /\ procs[q].pc = "spill"
      BY <2>3 DEF Become, At
    <3> HIDE DEF rest
    <3>2. /\ v.took = procs[q].took /\ v.piece = procs[q].piece
          /\ v.seen = procs[q].seen /\ v.text = rest
      BY <1>0 DEF ProcType
    <3>3. Spilling(q, v)
      BY <3>1, <3>2 DEF Spilling, rest
    <3> HIDE DEF v
    <3> QED
      BY <1>a, <3>1, <3>2, <3>3
  <2> QED
    BY <1>13, <2>1, <2>2, <2>3 DEF PostRecorded
<1>14. ASSUME NEW q \in Proc, Schedule(q)
       PROVE  Keeping(p)
  <2>1. CASE Answer(q, TRUE)
    BY <1>b, <2>1 DEF Answer, Become
  <2>2. CASE Become(q, [Idle EXCEPT !.pc = "read"])
    <3> DEFINE v == [Idle EXCEPT !.pc = "read"]
    <3>1. procs' = [procs EXCEPT ![q] = v] /\ v.took = <<>> /\ v.piece = 0 /\ v.seen = NoReply
          /\ v.pc # "spill"
      BY <2>2 DEF Become, Idle
    <3> QED
      BY <1>a, <3>1
  <2> QED
    BY <1>14, <2>1, <2>2 DEF Schedule
<1>15. ASSUME NEW q \in Proc, Discard(q)
       PROVE  Keeping(p)
  <2> DEFINE text == IF procs[q].piece # 0 THEN buffer ELSE <<>>
             v == [procs[q] EXCEPT !.pc = "unschedule", !.text = text]
  <2>1. procs' = [procs EXCEPT ![q] = v]
    BY <1>15 DEF Discard, Become
  <2> HIDE DEF text
  <2>2. /\ v.took = procs[q].took /\ v.piece = procs[q].piece /\ v.seen = procs[q].seen
        /\ v.pc # "spill"
    BY <1>0 DEF ProcType
  <2> QED
    BY <1>a, <2>1, <2>2
<1>16. ASSUME NEW q \in Proc, CallFails(q)
       PROVE  Keeping(p)
  <2>1. procs' = [procs EXCEPT ![q] = Idle]
    BY <1>16 DEF CallFails, Answer, Become
  <2> QED
    BY <1>b, <2>1
<1> QED
  BY <1>1, <1>2, <1>3, <1>4, <1>5, <1>6, <1>7, <1>8, <1>9, <1>10, <1>11, <1>12,
     <1>13, <1>14, <1>15, <1>16
     DEF Next, Work, Flush, Reply

\* What is in texts after a step of one process.
LEMMA EnteredOf ==
  ASSUME TypeOK, [Next]_vars, NEW p \in Proc, NEW v, procs' = [procs EXCEPT ![p] = v],
         NEW E, Entered \subseteq E, Shown' \subseteq E, ToSet(buffer') \subseteq E,
         ToSet(session'.content) \subseteq E, ToSet(v.text) \subseteq E,
         ToSet(v.seen.content) \subseteq E
  PROVE  Entered' \subseteq E
<1>1. procs'[p] = v /\ \A q \in Proc \ {p} : procs'[q] = procs[q]
  BY DEF TypeOK
<1>2. \A q \in Proc : ToSet(procs[q].text) \subseteq E /\ ToSet(procs[q].seen.content) \subseteq E
  <2>1. Taken \subseteq E /\ Read \subseteq E
    BY DEF Entered
  <2>2. \A q \in Proc : ToSet(procs[q].text) \subseteq Taken
    BY DEF Taken
  <2>3. \A q \in Proc : ToSet(procs[q].seen.content) \subseteq Read
    BY DEF Read
  <2> QED
    BY <2>1, <2>2, <2>3
<1>3. \A q \in Proc : ToSet(procs'[q].text) \subseteq E /\ ToSet(procs'[q].seen.content) \subseteq E
  BY <1>1, <1>2
<1>4. Taken' \subseteq E
  <2>1. Taken' = UNION {ToSet(procs'[q].text) \cup ToSet(procs'[q].took) : q \in Proc}
    BY DEF Taken, ToSet
  <2>2. ASSUME NEW q \in Proc PROVE ToSet(procs'[q].took) \subseteq E
    <3>1. ToSet(procs[q].took) \subseteq E /\ ToSet(buffer) \subseteq E
      BY DEF Entered, Taken
    <3> QED
      BY <3>1, Keeps DEF Keeping
  <2> QED
    BY <1>3, <2>1, <2>2
<1>5. Read' \subseteq E
  <2>1. Read' = UNION {ToSet(procs'[q].seen.content) : q \in Proc}
    BY DEF Read, ToSet
  <2> QED
    BY <1>3, <2>1
<1>6. ToSet(buffer)' \subseteq E /\ ToSet(session.content)' \subseteq E
  BY DEF ToSet
<1> QED
  BY <1>4, <1>5, <1>6 DEF Entered

\* A step of one process that says, refuses and posts nothing of its own.
LEMMA OwnedOf ==
  ASSUME TypeOK, Owned, [Next]_vars, NEW p \in Proc, NEW v, procs' = [procs EXCEPT ![p] = v],
         types' = types, refused' = refused, Entered' \subseteq Entered,
         Loose(v) => Loose(procs[p]) /\ v.piece = procs[p].piece
  PROVE  Owned'
<1>1. procs'[p] = v /\ \A q \in Proc \ {p} : procs'[q] = procs[q]
  BY DEF TypeOK
<1>2. \A q \in Proc : Loose(procs'[q]) => Loose(procs[q]) /\ procs'[q].piece = procs[q].piece
  BY <1>1
<1>3. Said' = Said
  BY DEF Said
<1>4. refused' \subseteq Said' /\ Entered' \subseteq Said'
  BY <1>3 DEF Owned
<1>5. \A q \in Proc : Loose(procs'[q]) => procs'[q].piece \notin Entered' \cup refused'
  BY <1>2 DEF Owned
<1>6. \A q, r \in Proc :
       q # r => procs'[q].piece = 0 \/ procs'[q].piece # procs'[r].piece
  BY Keeps DEF Keeping, Owned
<1> QED
  BY <1>4, <1>5, <1>6 DEF Owned, Loose

\* The piece of a process becomes part of a text.
LEMMA OwnedEnters ==
  ASSUME TypeOK, Shape, Owned, [Next]_vars, NEW p \in Proc, NEW v, procs' = [procs EXCEPT ![p] = v],
         types' = types, refused' = refused, Loose(procs[p]), ~Loose(v),
         Entered' \subseteq Entered \cup {procs[p].piece}
  PROVE  Owned'
<1>1. procs'[p] = v /\ \A q \in Proc \ {p} : procs'[q] = procs[q]
  BY DEF TypeOK
<1>2. \A q \in Proc : Loose(procs'[q]) => /\ q # p /\ Loose(procs[q])
                                          /\ procs'[q].piece = procs[q].piece
  BY <1>1
<1>3. Said' = Said
  BY DEF Said
<1>4. procs[p].piece \in Said
  <2>1. procs[p] \in ProcType /\ WellFormed(procs[p], Len(types))
    BY ProcTyped DEF Shape
  <2>2. procs[p].piece \in 1..Len(types)
    BY <2>1 DEF Loose, WellFormed, ProcType
  <2> QED
    BY <2>2 DEF Said, TypeOK, Owned
<1>5. refused' \subseteq Said' /\ Entered' \subseteq Said'
  BY <1>3, <1>4 DEF Owned
<1>6. \A q \in Proc : Loose(procs'[q]) => procs'[q].piece \notin Entered' \cup refused'
  <2>1. procs[p].piece # 0
    BY DEF Loose
  <2> QED
    BY <1>2, <2>1 DEF Owned
<1>7. \A q, r \in Proc :
       q # r => procs'[q].piece = 0 \/ procs'[q].piece # procs'[r].piece
  BY Keeps DEF Keeping, Owned
<1> QED
  BY <1>5, <1>6, <1>7 DEF Owned, Loose

\* A new piece is known to nobody.
LEMMA OwnedSays ==
  ASSUME TypeOK, Shape, Owned, Say, NEW p \in Proc, NEW v,
         procs' = [procs EXCEPT ![p] = v], refused' = refused,
         Entered' \subseteq Entered, v.piece = Len(types')
  PROVE  Owned'
<1>1. procs'[p] = v /\ \A q \in Proc \ {p} : procs'[q] = procs[q]
  BY DEF TypeOK
<1>2. Said' = Said \cup {Len(types')} /\ Len(types') \notin Said
  <2>1. types \in Seq(Type) /\ types' \in Seq(Type) /\ Len(types') = Len(types) + 1
    BY SayType DEF TypeOK
  <2>2. Said = 1..Len(types) /\ Said' = 1..Len(types') /\ Len(types) \in Nat
    BY <2>1 DEF Said
  <2> QED
    BY <2>1, <2>2
<1>3. refused' \subseteq Said' /\ Entered' \subseteq Said'
  BY <1>2 DEF Owned
<1>4. \A q \in Proc : procs[q].piece # Len(types')
  <2> SUFFICES ASSUME NEW q \in Proc PROVE procs[q].piece # Len(types')
    OBVIOUS
  <2>1. procs[q] \in ProcType /\ WellFormed(procs[q], Len(types))
    BY ProcTyped DEF Shape
  <2>2. procs[q].piece \in Nat /\ procs[q].piece <= Len(types)
    BY <2>1 DEF WellFormed, ProcType
  <2> QED
    BY <2>2, SayType DEF TypeOK
<1>5. \A q \in Proc : Loose(procs'[q]) => procs'[q].piece \notin Entered' \cup refused'
  BY <1>1, <1>2 DEF Owned
<1>6. \A q, r \in Proc :
       q # r => procs'[q].piece = 0 \/ procs'[q].piece # procs'[r].piece
  <2> SUFFICES ASSUME NEW q \in Proc, NEW r \in Proc, q # r
               PROVE  procs'[q].piece = 0 \/ procs'[q].piece # procs'[r].piece
    OBVIOUS
  <2>1. CASE q = p
    BY <1>1, <1>4, <2>1
  <2>2. CASE r = p
    BY <1>1, <1>4, <2>2
  <2>3. CASE q # p /\ r # p
    BY <1>1, <2>3 DEF Owned
  <2> QED
    BY <2>1, <2>2, <2>3
<1> QED
  BY <1>3, <1>5, <1>6 DEF Owned, Loose

\* A step of one process that leaves the posted messages alone.
LEMMA PostedOf ==
  ASSUME TypeOK, Posted, NEW p \in Proc, NEW v, procs' = [procs EXCEPT ![p] = v],
         types' = types, v.ts = 0,
         \A q \in Proc : procs[q].ts # 0 => slack'[procs[q].ts] = slack[procs[q].ts]
  PROVE  Posted'
<1>1. procs'[p] = v /\ \A q \in Proc \ {p} : procs'[q] = procs[q]
  BY DEF TypeOK
<1> SUFFICES ASSUME NEW q \in Proc, procs'[q].ts # 0
             PROVE  slack'[procs'[q].ts].text = First(Chunk(q)')
  BY DEF Posted, First
<1>2. q # p /\ procs'[q] = procs[q]
  BY <1>1
<1>3. Chunk(q)' = Chunk(q)
  BY <1>2 DEF Chunk, At, First
<1> QED
  BY <1>2, <1>3 DEF Posted

LEMMA OwnedInit == Init => Owned /\ Posted
<1> SUFFICES ASSUME Init PROVE Owned /\ Posted
  OBVIOUS
<1>1. \A p \in Proc : procs[p] = Idle
  BY DEF Init
<1>2. Shown = {} /\ ToSet(buffer) = {} /\ ToSet(session.content) = {} /\ Said = {}
  BY EmptyText, IdleLeaves DEF Init, Shown, Said
<1>3. Taken = {} /\ Read = {}
  BY <1>1, EmptyText, IdleLeaves DEF Taken, Read
<1>4. Entered = {}
  BY <1>2, <1>3 DEF Entered
<1>5. \A p \in Proc : /\ ~Loose(procs[p]) /\ procs[p].ts = 0
                      /\ procs[p].piece = 0
  BY <1>1, IdleLeaves DEF Loose
<1> QED
  BY <1>2, <1>4, <1>5 DEF Init, Owned, Posted

LEMMA OwnedStep ==
  Typed /\ Linked /\ Owned /\ Posted /\ [Next]_vars => Owned' /\ Posted'
<1> SUFFICES ASSUME TypeOK, Shape, Linked, Owned, Posted, [Next]_vars
             PROVE  Owned' /\ Posted'
  BY DEF Typed
<1>a. procs \in [Proc -> ProcType] /\ Idle \in ProcType
  BY ConstantTypes DEF TypeOK, ProcType, PC
<1>b. \A p \in Proc : procs[p] \in ProcType /\ WellFormed(procs[p], Len(types))
  BY <1>a DEF Shape
<1>c. Call \subseteq Proc /\ Manager \in Proc
  BY DEF Proc
<1>d. \A p \in Proc : procs[p].pc \notin Posting => procs[p].ts = 0
  BY <1>b DEF WellFormed
<1>e. /\ Shown \subseteq Entered /\ ToSet(buffer) \subseteq Entered
      /\ ToSet(session.content) \subseteq Entered
  BY DEF Entered
<1>f. ASSUME NEW p \in Proc
      PROVE  /\ ToSet(procs[p].text) \subseteq Entered /\ ToSet(procs[p].took) \subseteq Entered
             /\ ToSet(procs[p].seen.content) \subseteq Entered
  BY DEF Entered, Taken, Read
\* What a step does that leaves buffer, session and thread alone.
<1>g. ASSUME slack' = slack PROVE Shown' = Shown
  BY <1>g DEF Shown, ToSet
<1>h. ASSUME NEW p \in Proc, NEW v, procs' = [procs EXCEPT ![p] = v],
             slack' = slack, types' = types, refused' = refused,
             ToSet(buffer') \subseteq Entered, ToSet(session'.content) \subseteq Entered,
             ToSet(v.text) \subseteq Entered, ToSet(v.seen.content) \subseteq Entered,
             Loose(v) => Loose(procs[p]) /\ v.piece = procs[p].piece, v.ts = 0
      PROVE  Owned' /\ Posted'
  <2>1. Entered' \subseteq Entered
    BY <1>e, <1>g, <1>h, EnteredOf
  <2>2. Owned'
    BY <1>h, <2>1, OwnedOf
  <2>3. Posted'
    BY <1>h, PostedOf
  <2> QED
    BY <2>2, <2>3
<1>0. CASE UNCHANGED vars
  <2>1. Entered' = Entered /\ Said' = Said
    BY <1>0 DEF vars, Entered, Shown, Taken, Read, Said, ToSet
  <2>2. \A p \in Proc : Chunk(p)' = Chunk(p)
    BY <1>0 DEF vars, Chunk, At, First
  <2>3. Owned'
    BY <1>0, <2>1 DEF vars, Owned, Loose
  <2>4. Posted'
    BY <1>0, <2>2 DEF vars, Posted, First
  <2> QED
    BY <2>3, <2>4
<1>1. ASSUME NEW c \in Call, SayNew(c) \/ SayMore(c) PROVE Owned' /\ Posted'
  <2>1. PICK v : /\ procs' = [procs EXCEPT ![c] = v]
                 /\ v.piece = Len(types') /\ v.text = <<>> /\ v.seen = NoReply /\ v.ts = 0
    <3>1. CASE SayNew(c)
      <4> DEFINE v == [Idle EXCEPT !.pc = "post", !.piece = Len(types')]
      <4>1. procs' = [procs EXCEPT ![c] = v]
        BY <3>1 DEF SayNew, Become
      <4>2. v.piece = Len(types') /\ v.text = <<>> /\ v.seen = NoReply /\ v.ts = 0
        BY DEF Idle
      <4> QED
        BY <4>1, <4>2
    <3>2. CASE SayMore(c)
      <4> DEFINE current == IF buffer # <<>> THEN bufferType ELSE session.type
                 v == [Idle EXCEPT !.pc = IF current = Last(types') THEN "append" ELSE "read",
                                   !.piece = Len(types'), !.was = current]
      <4>1. procs' = [procs EXCEPT ![c] = v]
        BY <3>2 DEF SayMore, Become
      <4>2. v.piece = Len(types') /\ v.text = <<>> /\ v.seen = NoReply /\ v.ts = 0
        BY DEF Idle
      <4> QED
        BY <4>1, <4>2
    <3> QED
      BY <1>1, <3>1, <3>2
  <2>2. /\ Say /\ refused' = refused /\ slack' = slack /\ buffer' = buffer
        /\ session' = session
    BY <1>1 DEF SayNew, SayMore
  <2>3. Entered' \subseteq Entered
    BY <1>c, <1>e, <1>g, <2>1, <2>2, EnteredOf, EmptyText, IdleLeaves
  <2>4. Owned'
    BY <1>c, <2>1, <2>2, <2>3, OwnedSays
  <2>5. ASSUME NEW q \in Proc, procs'[q].ts # 0
        PROVE  slack'[procs'[q].ts].text = First(Chunk(q)')
    <3>1. q # c /\ procs'[q] = procs[q]
      BY <1>a, <1>c, <2>1, <2>5
    <3>2. Chunk(q)' = Chunk(q)
      BY <3>1 DEF Chunk, At, First
    <3> QED
      BY <2>2, <2>5, <3>1, <3>2 DEF Posted
  <2> QED
    BY <2>4, <2>5 DEF Posted, First
<1>2. ASSUME NEW c \in Call, EndTurn(c) PROVE Owned' /\ Posted'
  <2> DEFINE v == [Idle EXCEPT !.pc = "discard"]
  <2>1. procs' = [procs EXCEPT ![c] = v]
    BY <1>2 DEF EndTurn, Become
  <2>2. v.piece = 0 /\ v.text = <<>> /\ v.seen = NoReply /\ v.ts = 0
    BY DEF Idle
  <2>3. /\ slack' = slack /\ types' = types /\ refused' = refused
        /\ buffer' = buffer /\ session' = session
    BY <1>2 DEF EndTurn
  <2> HIDE DEF v
  <2> QED
    BY <1>c, <1>e, <1>h, <2>1, <2>2, <2>3, EmptyText, IdleLeaves DEF Loose
<1>3. CASE ManagerFlushes
  <2> DEFINE v == [Idle EXCEPT !.pc = "read"]
  <2>1. procs' = [procs EXCEPT ![Manager] = v]
    BY <1>3 DEF ManagerFlushes, Become
  <2>2. v.piece = 0 /\ v.text = <<>> /\ v.seen = NoReply /\ v.ts = 0
    BY DEF Idle
  <2>3. /\ slack' = slack /\ types' = types /\ refused' = refused
        /\ buffer' = buffer /\ session' = session
    BY <1>3 DEF ManagerFlushes
  <2> HIDE DEF v
  <2> QED
    BY <1>c, <1>e, <1>h, <2>1, <2>2, <2>3, EmptyText, IdleLeaves DEF Loose
<1>4. ASSUME NEW p \in Proc, FlushReads(p) PROVE Owned' /\ Posted'
  <2> DEFINE v == [procs[p] EXCEPT !.pc = "look", !.seen = session]
  <2>1. procs' = [procs EXCEPT ![p] = v] /\ procs[p].pc = "read"
    BY <1>4 DEF FlushReads, Become, At
  <2>2. v.piece = procs[p].piece /\ v.text = procs[p].text /\ v.seen = session
        /\ v.ts = procs[p].ts
    BY <1>b DEF ProcType
  <2>3. /\ slack' = slack /\ types' = types /\ refused' = refused
        /\ buffer' = buffer /\ session' = session
    BY <1>4 DEF FlushReads
  <2>4. v.ts = 0 /\ (Loose(v) => Loose(procs[p]))
    BY <1>d, <2>1, <2>2 DEF Loose, Posting
  <2> HIDE DEF v
  <2> QED
    BY <1>e, <1>f, <1>h, <2>1, <2>2, <2>3, <2>4
<1>5. ASSUME NEW p \in Proc, FlushLooks(p) PROVE Owned' /\ Posted'
  <2>1. PICK v : /\ procs' = [procs EXCEPT ![p] = v]
                 /\ v.piece = procs[p].piece /\ v.ts \in {0, procs[p].ts}
                 /\ v.text \in {<<>>, procs[p].text} /\ v.seen \in {NoReply, procs[p].seen}
    <3>1. CASE buffer = <<>>
      BY <1>5, <3>1, DoneLeaves DEF FlushLooks, Become, PC
    <3>2. CASE buffer # <<>>
      <4> DEFINE v == [procs[p] EXCEPT !.pc = "take", !.type = bufferType]
      <4>1. procs' = [procs EXCEPT ![p] = v]
        BY <1>5, <3>2 DEF FlushLooks, Become
      <4>2. v.piece = procs[p].piece /\ v.ts = procs[p].ts /\ v.text = procs[p].text
            /\ v.seen = procs[p].seen
        BY <1>b DEF ProcType
      <4> QED
        BY <4>1, <4>2
    <3> QED
      BY <3>1, <3>2
  <2>2. /\ slack' = slack /\ types' = types /\ refused' = refused
        /\ buffer' = buffer /\ session' = session /\ procs[p].pc = "look"
    BY <1>5 DEF FlushLooks, At
  <2>3. v.ts = 0 /\ (Loose(v) => Loose(procs[p]))
    BY <1>d, <2>1, <2>2 DEF Loose, Posting
  <2>4. ToSet(v.text) \subseteq Entered /\ ToSet(v.seen.content) \subseteq Entered
    BY <1>f, <2>1, EmptyText, IdleLeaves
  <2> QED
    BY <1>e, <1>h, <2>1, <2>2, <2>3, <2>4
<1>6. ASSUME NEW p \in Proc, FlushTakes(p) PROVE Owned' /\ Posted'
  <2>1. PICK v : /\ procs' = [procs EXCEPT ![p] = v]
                 /\ v.piece = procs[p].piece /\ v.ts \in {0, procs[p].ts}
                 /\ v.text \in {<<>>, buffer} /\ v.seen \in {NoReply, procs[p].seen}
    <3>1. CASE buffer = <<>>
      BY <1>6, <3>1, DoneLeaves DEF FlushTakes, Become, PC
    <3>2. CASE buffer # <<>>
      <4> DEFINE v == [procs[p] EXCEPT !.pc = "update", !.text = buffer, !.took = buffer]
      <4>1. procs' = [procs EXCEPT ![p] = v]
        BY <1>6, <3>2 DEF FlushTakes, Become
      <4>2. v.piece = procs[p].piece /\ v.ts = procs[p].ts /\ v.text = buffer
            /\ v.seen = procs[p].seen
        BY <1>b DEF ProcType
      <4> QED
        BY <4>1, <4>2
    <3> QED
      BY <3>1, <3>2
  <2>2. /\ slack' = slack /\ types' = types /\ refused' = refused
        /\ buffer' = <<>> /\ session' = session /\ procs[p].pc = "take"
    BY <1>6 DEF FlushTakes, At
  <2>3. v.ts = 0 /\ (Loose(v) => Loose(procs[p]))
    BY <1>d, <2>1, <2>2 DEF Loose, Posting
  <2>4. ToSet(v.text) \subseteq Entered /\ ToSet(v.seen.content) \subseteq Entered
    BY <1>e, <1>f, <2>1, EmptyText, IdleLeaves
  <2> QED
    BY <1>e, <1>h, <2>1, <2>2, <2>3, <2>4, EmptyText
<1>7. ASSUME NEW p \in Proc, FlushUpdates(p) PROVE Owned' /\ Posted'
  <2> DEFINE v == [procs[p] EXCEPT !.pc = "record"]
             m == [type |-> procs[p].type, text |-> First(Content(p))]
  <2>1. procs' = [procs EXCEPT ![p] = v] /\ procs[p].pc = "update"
    BY <1>7 DEF FlushUpdates, Goto, Become, At
  <2>2. v.piece = procs[p].piece /\ v.text = procs[p].text /\ v.seen = procs[p].seen
        /\ v.ts = procs[p].ts
    BY <1>b DEF ProcType
  <2>3. /\ slack' = [slack EXCEPT ![procs[p].seen.ts] = m] /\ types' = types
        /\ refused' = refused /\ buffer' = buffer /\ session' = session
    BY <1>7 DEF FlushUpdates
  <2>4. v.ts = 0 /\ (Loose(v) => Loose(procs[p]))
    BY <1>d, <2>1, <2>2 DEF Loose, Posting
  <2>5. m \in Message /\ slack \in Seq(Message) /\ m.text = First(Content(p))
    BY <1>b, ChunkType DEF Message, TypeOK, ProcType
  <2>6. ToSet(First(Content(p))) \subseteq Entered
    <3>1. ToSet(First(Content(p))) \subseteq ToSet(Content(p))
      BY TextTypes, Cut
    <3> QED
      BY <1>f, <3>1, TextTypes
  <2> HIDE DEF v, m
  <2>7. /\ Shown' \subseteq Shown \cup ToSet(m.text) /\ DOMAIN slack' = DOMAIN slack
        /\ \A j \in DOMAIN slack : j # procs[p].seen.ts => slack'[j] = slack[j]
    BY <2>3, <2>5, ShownWritten
  <2>8. Entered' \subseteq Entered
    <3>1. Shown' \subseteq Entered
      BY <1>e, <2>5, <2>6, <2>7
    <3>2. ToSet(buffer') \subseteq Entered /\ ToSet(session'.content) \subseteq Entered
      BY <1>e, <2>3
    <3>3. ToSet(v.text) \subseteq Entered /\ ToSet(v.seen.content) \subseteq Entered
      BY <1>f, <2>2
    <3> QED
      BY <2>1, <3>1, <3>2, <3>3, EnteredOf
  <2>9. Owned'
    BY <2>1, <2>2, <2>3, <2>4, <2>8, OwnedOf
  <2>10. ASSUME NEW q \in Proc, procs[q].ts # 0
         PROVE  slack'[procs[q].ts] = slack[procs[q].ts]
    <3>1. procs[q].ts # procs[p].seen.ts
      BY <2>10, Apart
    <3>2. procs[q].ts \in DOMAIN slack
      <4>1. procs[q].ts \in Nat /\ procs[q].ts <= Len(slack)
        BY <1>b DEF ProcType, Linked
      <4> QED
        BY <2>5, <2>10, <4>1
    <3> QED
      BY <2>7, <3>1, <3>2
  <2>11. Posted'
    BY <2>1, <2>3, <2>4, <2>10, PostedOf
  <2> QED
    BY <2>9, <2>11
<1>8. ASSUME NEW p \in Proc, FlushDeferred(p) \/ FlushFails(p) PROVE Owned' /\ Posted'
  <2>1. PICK v \in ProcType : /\ procs' = [procs EXCEPT ![p] = v]
                              /\ v.text = <<>> /\ v.ts = 0 /\ v.seen = NoReply
                              /\ v.piece = procs[p].piece
    BY <1>8, ReturnLeaves DEF FlushDeferred, FlushFails
  <2>2. /\ slack' = slack /\ types' = types /\ refused' = refused
        /\ session' = session /\ buffer' = buffer \o procs[p].took
    BY <1>8 DEF FlushDeferred, FlushFails, Requeue
  <2>3. procs[p].pc \in {"update", "record", "spill", "check", "unschedule"}
    <3>1. FlushDeferred(p) => procs[p].pc = "update"
      BY DEF FlushDeferred, At
    <3>2. FlushFails(p) => procs[p].took # <<>>
      BY DEF FlushFails
    <3> QED
      BY <1>8, <1>b, <3>1, <3>2 DEF WellFormed
  <2>4. Loose(v) => Loose(procs[p])
    BY <2>1, <2>3 DEF Loose
  <2>5. ToSet(buffer') \subseteq Entered
    <3>1. procs[p].took \in Seq(Piece) /\ buffer \in Seq(Piece)
      BY <1>b, TextTypes DEF ProcType, Text
    <3> QED
      BY <1>e, <1>f, <2>2, <3>1, Joined
  <2> QED
    BY <1>e, <1>h, <2>1, <2>2, <2>4, <2>5, EmptyText, IdleLeaves
<1>9. ASSUME NEW p \in Proc, FlushRecords(p) PROVE Owned' /\ Posted'
  <2> DEFINE rest == Rest(Content(p))
  <2>0. ToSet(First(Content(p))) \subseteq Entered /\ ToSet(rest) \subseteq Entered
    <3>1. /\ ToSet(First(Content(p))) \subseteq ToSet(Content(p))
          /\ ToSet(Rest(Content(p))) \subseteq ToSet(Content(p))
      BY TextTypes, Cut
    <3> QED
      BY <1>f, <3>1, TextTypes
  <2>1. PICK v : /\ procs' = [procs EXCEPT ![p] = v]
                 /\ v.ts = 0 /\ v.seen = NoReply /\ v.piece = procs[p].piece
                 /\ v.text \in {<<>>, rest}
    <3>1. CASE rest = <<>>
      BY <1>9, <3>1, DoneLeaves DEF FlushRecords, Become, PC
    <3>2. CASE rest # <<>>
      <4> DEFINE d == Done(p, "spill")
                 v == [d EXCEPT !.text = rest, !.type = procs[p].type]
      <4>1. procs' = [procs EXCEPT ![p] = v]
        BY <1>9, <3>2 DEF FlushRecords, Become
      <4>2. d \in ProcType /\ d.ts = 0 /\ d.seen = NoReply /\ d.piece = procs[p].piece
        BY DoneLeaves DEF PC
      <4>3. v.ts = 0 /\ v.seen = NoReply /\ v.piece = procs[p].piece /\ v.text = rest
        <5> HIDE DEF d, rest
        <5> QED
          BY <4>2 DEF ProcType
      <4> QED
        BY <4>1, <4>3
    <3> QED
      BY <3>1, <3>2
  <2>2. /\ slack' = slack /\ types' = types /\ refused' = refused /\ buffer' = buffer
        /\ session'.content = First(Content(p)) /\ procs[p].pc = "record"
    BY <1>9 DEF FlushRecords, At
  <2>3. Loose(v) => Loose(procs[p])
    BY <2>1, <2>2 DEF Loose
  <2> HIDE DEF rest
  <2>4. ToSet(v.text) \subseteq Entered
    BY <2>0, <2>1, EmptyText
  <2> QED
    BY <1>e, <1>h, <2>0, <2>1, <2>2, <2>3, <2>4, EmptyText, IdleLeaves
<1>10. ASSUME NEW p \in Proc, FlushChecks(p) PROVE Owned' /\ Posted'
  <2>1. PICK v : /\ procs' = [procs EXCEPT ![p] = v]
                 /\ v.ts \in {0, procs[p].ts} /\ v.seen \in {NoReply, procs[p].seen}
                 /\ v.piece = procs[p].piece /\ v.text \in {<<>>, procs[p].text}
    <3>1. CASE buffer = <<>>
      <4> DEFINE v == [procs[p] EXCEPT !.pc = "unschedule"]
      <4>1. procs' = [procs EXCEPT ![p] = v]
        BY <1>10, <3>1 DEF FlushChecks, Goto, Become
      <4>2. v.piece = procs[p].piece /\ v.ts = procs[p].ts /\ v.text = procs[p].text
            /\ v.seen = procs[p].seen
        BY <1>b DEF ProcType
      <4> QED
        BY <4>1, <4>2
    <3>2. CASE buffer # <<>>
      <4>1. Return(p, procs[p].ok) /\ procs[p].ok \in BOOLEAN
        BY <1>10, <3>2, <1>b DEF FlushChecks, ProcType
      <4> QED
        BY <4>1, ReturnLeaves
    <3> QED
      BY <3>1, <3>2
  <2>2. /\ slack' = slack /\ types' = types /\ refused' = refused /\ buffer' = buffer
        /\ session' = session /\ procs[p].pc = "check"
    BY <1>10 DEF FlushChecks, At
  <2>3. v.ts = 0 /\ (Loose(v) => Loose(procs[p]))
    BY <1>d, <2>1, <2>2 DEF Loose, Posting
  <2>4. ToSet(v.text) \subseteq Entered /\ ToSet(v.seen.content) \subseteq Entered
    BY <1>f, <2>1, EmptyText, IdleLeaves
  <2> QED
    BY <1>e, <1>h, <2>1, <2>2, <2>3, <2>4
<1>11. ASSUME NEW p \in Proc, Unschedule(p) PROVE Owned' /\ Posted'
  <2>1. PICK v : /\ procs' = [procs EXCEPT ![p] = v]
                 /\ v.ts \in {0, procs[p].ts} /\ v.seen \in {NoReply, procs[p].seen}
                 /\ v.piece = procs[p].piece /\ v.text \in {<<>>, procs[p].text}
    <3>1. CASE procs[p].text # <<>>
      <4> DEFINE v == [procs[p] EXCEPT !.pc = "rescue"]
      <4>1. procs' = [procs EXCEPT ![p] = v]
        BY <1>11, <3>1 DEF Unschedule, Goto, Become
      <4>2. v.piece = procs[p].piece /\ v.ts = procs[p].ts /\ v.text = procs[p].text
            /\ v.seen = procs[p].seen
        BY <1>b DEF ProcType
      <4> QED
        BY <4>1, <4>2
    <3>2. CASE procs[p].text = <<>>
      <4>1. Return(p, procs[p].ok) /\ procs[p].ok \in BOOLEAN
        BY <1>11, <3>2, <1>b DEF Unschedule, ProcType
      <4> QED
        BY <4>1, ReturnLeaves
    <3> QED
      BY <3>1, <3>2
  <2>2. /\ slack' = slack /\ types' = types /\ refused' = refused /\ buffer' = buffer
        /\ session' = session /\ procs[p].pc = "unschedule"
    BY <1>11 DEF Unschedule, At
  <2>3. v.ts = 0 /\ (Loose(v) => Loose(procs[p]))
    BY <1>d, <2>1, <2>2 DEF Loose, Posting
  <2>4. ToSet(v.text) \subseteq Entered /\ ToSet(v.seen.content) \subseteq Entered
    BY <1>f, <2>1, EmptyText, IdleLeaves
  <2> QED
    BY <1>e, <1>h, <2>1, <2>2, <2>3, <2>4
<1>12. ASSUME NEW p \in Proc, Posts(p) PROVE Owned' /\ Posted'
  <2> DEFINE v == [procs[p] EXCEPT !.ts = Len(slack) + 1]
             m == [type |-> PostedAs(p), text |-> First(Chunk(p))]
  <2>1. procs' = [procs EXCEPT ![p] = v] /\ procs[p].pc \in Posting /\ procs[p].ts = 0
    BY <1>12 DEF Posts, Become
  <2>2. v.piece = procs[p].piece /\ v.text = procs[p].text /\ v.seen = procs[p].seen
        /\ v.ts = Len(slack) + 1 /\ v.pc = procs[p].pc
    BY <1>b DEF ProcType
  <2>3. /\ slack' = Append(slack, m) /\ types' = types /\ refused' = refused
        /\ buffer' = buffer /\ session' = session
    BY <1>12 DEF Posts
  <2>4. m \in Message /\ slack \in Seq(Message) /\ m.text = First(Chunk(p))
    BY <2>1, ChunkType DEF Message, TypeOK
  <2> HIDE DEF v, m
  <2>5. Shown' = Shown \cup ToSet(m.text)
    BY <2>3, <2>4, ShownPosted
  <2>6. ToSet(First(Chunk(p))) \subseteq ToSet(Chunk(p))
    <3>1. Chunk(p) \in Seq(Piece)
      BY <2>1, ChunkType DEF Text
    <3> QED
      BY <3>1, Cut
  <2>7. Owned'
    <3>1. CASE procs[p].pc = "post"
      <4>1. Chunk(p) = <<procs[p].piece>>
        BY <3>1 DEF Chunk, At
      <4>2. ToSet(Chunk(p)) = {procs[p].piece}
        BY <4>1 DEF ToSet
      <4>3. Loose(procs[p]) /\ ~Loose(v)
        <5>1. procs[p].piece # 0 /\ Len(slack) + 1 # 0
          BY <1>b, <2>4, <3>1 DEF WellFormed
        <5> QED
          BY <2>1, <2>2, <3>1, <5>1 DEF Loose
      <4>4. Entered' \subseteq Entered \cup {procs[p].piece}
        <5> DEFINE E == Entered \cup {procs[p].piece}
        <5>1. Entered \subseteq E /\ Shown' \subseteq E
          BY <1>e, <2>4, <2>5, <2>6, <4>2
        <5>2. ToSet(buffer') \subseteq E /\ ToSet(session'.content) \subseteq E
          BY <1>e, <2>3
        <5>3. ToSet(v.text) \subseteq E /\ ToSet(v.seen.content) \subseteq E
          BY <1>f, <2>2
        <5> HIDE DEF E
        <5>4. Entered' \subseteq E
          BY <2>1, <5>1, <5>2, <5>3, EnteredOf
        <5> QED
          BY <5>4 DEF E
      <4> QED
        BY <2>1, <2>3, <4>3, <4>4, OwnedEnters
    <3>2. CASE procs[p].pc # "post"
      <4>1. ToSet(Chunk(p)) \subseteq ToSet(procs[p].text)
        BY <2>1, <3>2, TextTypes, Cut DEF Chunk, At
      <4>2. Entered' \subseteq Entered
        BY <1>e, <1>f, <2>1, <2>2, <2>3, <2>4, <2>5, <2>6, <4>1, EnteredOf
      <4>3. Loose(v) => Loose(procs[p])
        BY <2>2, <3>2 DEF Loose
      <4> QED
        BY <2>1, <2>2, <2>3, <4>2, <4>3, OwnedOf
    <3> QED
      BY <3>1, <3>2
  <2>8. ASSUME NEW q \in Proc, procs'[q].ts # 0
        PROVE  slack'[procs'[q].ts].text = First(Chunk(q)')
    <3>1. CASE q = p
      <4>1. procs'[q] = v
        BY <1>a, <2>1, <3>1
      <4>2. Chunk(q)' = Chunk(p)
        BY <2>2, <3>1, <4>1 DEF Chunk, At, First
      <4>3. slack'[Len(slack) + 1] = m
        BY <2>3, <2>4
      <4> QED
        BY <2>2, <2>4, <4>1, <4>2, <4>3
    <3>2. CASE q # p
      <4>1. procs'[q] = procs[q]
        BY <1>a, <2>1, <3>2
      <4>2. Chunk(q)' = Chunk(q)
        BY <4>1 DEF Chunk, At, First
      <4>3. procs[q].ts \in 1..Len(slack)
        <5>1. procs[q].ts \in Nat /\ procs[q].ts <= Len(slack)
          BY <1>b DEF ProcType, Linked
        <5> QED
          BY <2>4, <2>8, <4>1, <5>1
      <4>4. slack'[procs[q].ts] = slack[procs[q].ts]
        BY <2>3, <2>4, <4>3
      <4> QED
        BY <2>8, <4>1, <4>2, <4>4 DEF Posted
    <3> QED
      BY <3>1, <3>2
  <2> QED
    BY <2>7, <2>8 DEF Posted, First
<1>i. ASSUME NEW p \in Proc, procs' = [procs EXCEPT ![p] = Idle], slack' = slack,
             types' = types, session' = session, buffer' = buffer,
             refused' = refused \cup ({procs[p].piece} \ {0})
      PROVE  Owned' /\ Posted'
  <2>1. Entered' \subseteq Entered
    BY <1>e, <1>g, <1>i, EnteredOf, EmptyText, IdleLeaves
  <2>2. {procs[p].piece} \ {0} \subseteq Said
    <3>1. procs[p].piece # 0 => procs[p].piece \in 1..Len(types)
      BY <1>b DEF WellFormed, ProcType, TypeOK
    <3> QED
      BY <3>1 DEF Said, TypeOK
  <2>3. refused' \subseteq Said' /\ Entered' \subseteq Said'
    BY <1>i, <2>1, <2>2 DEF Owned, Said
  <2>4. \A q \in Proc : Loose(procs'[q]) => /\ q # p /\ Loose(procs[q])
                                            /\ procs'[q] = procs[q]
    BY <1>a, <1>i, IdleLeaves DEF Loose
  <2>5. \A q \in Proc \ {p} : Loose(procs[q]) => procs[q].piece # procs[p].piece
    BY DEF Owned, Loose
  <2>6. \A q \in Proc : Loose(procs'[q]) => procs'[q].piece \notin Entered' \cup refused'
    <3> SUFFICES ASSUME NEW q \in Proc, Loose(procs'[q])
                 PROVE  procs'[q].piece \notin Entered' \cup refused'
      OBVIOUS
    <3>1. q \in Proc \ {p} /\ Loose(procs[q]) /\ procs'[q].piece = procs[q].piece
      BY <2>4
    <3>2. procs[q].piece \notin Entered \cup refused
      BY <3>1 DEF Owned
    <3>3. procs[q].piece # procs[p].piece
      BY <2>5, <3>1
    <3>4. refused' \subseteq refused \cup {procs[p].piece}
      BY <1>i
    <3> QED
      BY <2>1, <3>1, <3>2, <3>3, <3>4
  <2>7. \A q, r \in Proc :
       q # r => procs'[q].piece = 0 \/ procs'[q].piece # procs'[r].piece
    BY <1>i, Keeps DEF Keeping, Owned
  <2>8. Owned'
    BY <2>3, <2>6, <2>7 DEF Owned, Loose
  <2>9. Posted'
    BY <1>i, PostedOf, IdleLeaves
  <2> QED
    BY <2>8, <2>9
<1>13. ASSUME NEW p \in Proc, PostFails(p) PROVE Owned' /\ Posted'
  <2>0. slack' = slack /\ types' = types /\ session' = session
    BY <1>13 DEF PostFails
  <2>1. CASE /\ At(p, "post") \/ At(p, "rescue")
             /\ refused' = refused \cup {procs[p].piece}
             /\ Answer(p, FALSE) /\ UNCHANGED buffer
    <3>1. procs[p].piece # 0
      BY <1>b, <2>1 DEF At, WellFormed
    <3> QED
      BY <1>i, <2>0, <2>1, <3>1 DEF Answer, Become
  <2>2. CASE /\ At(p, "rescue") /\ Become(p, Done(p, "post"))
             /\ UNCHANGED <<client, buffer, refused>>
    <3> DEFINE v == Done(p, "post")
    <3>1. procs' = [procs EXCEPT ![p] = v]
      BY <2>2 DEF Become
    <3>2. v.text = <<>> /\ v.ts = 0 /\ v.seen = NoReply /\ v.piece = procs[p].piece
      BY DoneLeaves DEF PC
    <3>3. Loose(v) => Loose(procs[p])
      BY <2>2, <3>2 DEF Loose, At
    <3> HIDE DEF v
    <3> QED
      BY <1>e, <1>h, <2>0, <2>2, <3>1, <3>2, <3>3, EmptyText, IdleLeaves
  <2>3. CASE /\ At(p, "spill") /\ Requeue(procs[p].text)
             /\ Become(p, [Done(p, "check") EXCEPT !.ok = FALSE])
             /\ UNCHANGED <<client, refused>>
    <3> DEFINE d == Done(p, "check")
               v == [d EXCEPT !.ok = FALSE]
    <3>1. procs' = [procs EXCEPT ![p] = v] /\ refused' = refused
          /\ buffer' = buffer \o procs[p].text
      BY <2>3 DEF Become, Requeue
    <3>2. d \in ProcType /\ d.ts = 0 /\ d.seen = NoReply /\ d.text = <<>>
          /\ d.piece = procs[p].piece
      BY DoneLeaves DEF PC
    <3>3. v.ts = 0 /\ v.seen = NoReply /\ v.text = <<>> /\ v.piece = procs[p].piece
      <4> HIDE DEF d
      <4> QED
        BY <3>2 DEF ProcType
    <3> HIDE DEF v, d
    <3>4. Loose(v) => Loose(procs[p])
      BY <2>3, <3>3 DEF Loose, At
    <3>5. ToSet(buffer') \subseteq Entered
      BY <1>e, <1>f, <3>1, TextTypes, Joined
    <3> QED
      BY <1>e, <1>h, <2>0, <3>1, <3>3, <3>4, <3>5, EmptyText, IdleLeaves
  <2> QED
    BY <1>13, <2>1, <2>2, <2>3 DEF PostFails
<1>14. ASSUME NEW p \in Proc, PostRecorded(p) PROVE Owned' /\ Posted'
  <2>0. /\ procs[p].ts # 0 /\ slack' = slack /\ types' = types /\ refused' = refused
        /\ buffer' = buffer
    BY <1>14 DEF PostRecorded
  <2>1. procs[p].pc \in Posting
    BY <1>b, <2>0 DEF WellFormed
  <2>2. ToSet(Chunk(p)) \subseteq Entered
    <3>1. CASE procs[p].pc = "post"
      <4>1. Chunk(p) = <<procs[p].piece>>
        BY <3>1 DEF Chunk, At
      <4>2. Chunk(p) \in Seq(Piece) /\ Len(Chunk(p)) = 1
        BY <2>1, <4>1, ChunkType DEF Text
      <4>3. First(Chunk(p)) = Chunk(p)
        BY <4>2, ConstantTypes DEF First
      <4>4. procs[p].ts \in DOMAIN slack
        <5>1. procs[p].ts \in Nat /\ procs[p].ts <= Len(slack)
          BY <1>b DEF ProcType, Linked
        <5> QED
          BY <2>0, <5>1 DEF TypeOK
      <4>5. ToSet(Chunk(p)) \subseteq Shown
        BY <2>0, <4>3, <4>4 DEF Posted, Shown
      <4> QED
        BY <1>e, <4>5
    <3>2. CASE procs[p].pc # "post"
      <4>1. ToSet(Chunk(p)) \subseteq ToSet(procs[p].text)
        BY <2>1, <3>2, TextTypes, Cut DEF Chunk, At
      <4> QED
        BY <1>f, <4>1
    <3> QED
      BY <3>1, <3>2
  <2>3. ToSet(session'.content) \subseteq Entered
    <3>1. CASE session' = session
      BY <1>e, <3>1
    <3>2. CASE session'.content = Chunk(p)
      BY <2>2, <3>2
    <3> QED
      BY <1>14, <3>1, <3>2 DEF PostRecorded
  <2>4. PICK v : /\ procs' = [procs EXCEPT ![p] = v]
                 /\ v.ts = 0 /\ (v.seen = NoReply \/ v.seen = procs[p].seen)
                 /\ ToSet(v.text) \subseteq Entered
                 /\ Loose(v) => Loose(procs[p]) /\ v.piece = procs[p].piece
    <3>1. CASE At(p, "post")
      <4>1. procs' = [procs EXCEPT ![p] = Idle]
        BY <1>14, <3>1 DEF PostRecorded, At, Answer, Become
      <4> QED
        BY <4>1, IdleLeaves, EmptyText DEF Loose
    <3>2. CASE At(p, "rescue")
      <4> DEFINE v == Done(p, "post")
      <4>1. procs' = [procs EXCEPT ![p] = v]
        BY <1>14, <3>2 DEF PostRecorded, At, Become
      <4>2. v.text = <<>> /\ v.ts = 0 /\ v.seen = NoReply /\ v.piece = procs[p].piece
        BY DoneLeaves DEF PC
      <4>3. Loose(v) => Loose(procs[p])
        BY <3>2, <4>2 DEF Loose, At
      <4> QED
        BY <4>1, <4>2, <4>3, EmptyText
    <3>3. CASE At(p, "spill")
      <4> DEFINE rest == Rest(procs[p].text)
      <4>1. CASE rest = <<>>
        <5> DEFINE v == Done(p, "check")
        <5>1. procs' = [procs EXCEPT ![p] = v]
          BY <1>14, <3>3, <4>1 DEF PostRecorded, At, Become
        <5>2. v.text = <<>> /\ v.ts = 0 /\ v.seen = NoReply /\ v.piece = procs[p].piece
          BY DoneLeaves DEF PC
        <5>3. Loose(v) => Loose(procs[p])
          BY <3>3, <5>2 DEF Loose, At
        <5> QED
          BY <5>1, <5>2, <5>3, EmptyText
      <4>2. CASE rest # <<>>
        <5> DEFINE v == [procs[p] EXCEPT !.text = rest, !.ts = 0]
        <5>1. procs' = [procs EXCEPT ![p] = v]
          BY <1>14, <3>3, <4>2 DEF PostRecorded, At, Become
        <5>2. /\ v.ts = 0 /\ v.seen = procs[p].seen /\ v.pc = procs[p].pc
              /\ v.text = rest /\ v.piece = procs[p].piece
          <6> HIDE DEF rest
          <6> QED
            BY <1>b DEF ProcType
        <5>3. Loose(v) => Loose(procs[p])
          BY <3>3, <5>2 DEF Loose, At
        <5>4. ToSet(rest) \subseteq Entered
          <6>1. ToSet(Rest(procs[p].text)) \subseteq ToSet(procs[p].text)
            BY TextTypes, Cut
          <6>2. ToSet(procs[p].text) \subseteq Entered
            BY <1>f
          <6> QED
            BY <6>1, <6>2
        <5> QED
          BY <5>1, <5>2, <5>3, <5>4
      <4> QED
        BY <4>1, <4>2
    <3> QED
      BY <1>14, <3>1, <3>2, <3>3 DEF PostRecorded
  <2>5. ToSet(v.seen.content) \subseteq Entered
    BY <1>f, <2>4, EmptyText, IdleLeaves
  <2> QED
    BY <1>e, <1>h, <2>0, <2>3, <2>4, <2>5
<1>15. ASSUME NEW p \in Proc, AppendToBuffer(p) PROVE Owned' /\ Posted'
  <2> DEFINE v == [procs[p] EXCEPT !.pc = "schedule"]
  <2>1. procs' = [procs EXCEPT ![p] = v] /\ procs[p].pc = "append"
    BY <1>15 DEF AppendToBuffer, Goto, Become, At
  <2>2. v.piece = procs[p].piece /\ v.text = procs[p].text /\ v.seen = procs[p].seen
        /\ v.ts = procs[p].ts /\ v.pc = "schedule"
    BY <1>b DEF ProcType
  <2>3. /\ slack' = slack /\ types' = types /\ refused' = refused
        /\ buffer' = Append(buffer, procs[p].piece) /\ session' = session
    BY <1>15 DEF AppendToBuffer
  <2>4. v.ts = 0 /\ Loose(procs[p]) /\ ~Loose(v)
    BY <1>b, <1>d, <2>1, <2>2 DEF Loose, Posting, WellFormed
  <2>5. ToSet(buffer') \subseteq Entered \cup {procs[p].piece}
    <3>1. buffer \in Seq(Piece)
      BY TextTypes
    <3>2. ToSet(buffer') \subseteq ToSet(buffer) \cup {procs[p].piece}
      BY <2>3, <3>1 DEF ToSet
    <3> QED
      BY <1>e, <3>2
  <2> HIDE DEF v
  <2>6. Entered' \subseteq Entered \cup {procs[p].piece}
    BY <1>e, <1>f, <1>g, <2>1, <2>2, <2>3, <2>5, EnteredOf, ZenonT(60)
  <2>7. Owned'
    BY <2>1, <2>3, <2>4, <2>6, OwnedEnters
  <2>8. Posted'
    BY <2>1, <2>3, <2>4, PostedOf
  <2> QED
    BY <2>7, <2>8
<1>16. ASSUME NEW p \in Proc, Schedule(p) PROVE Owned' /\ Posted'
  <2>1. PICK v : /\ procs' = [procs EXCEPT ![p] = v]
                 /\ v.ts = 0 /\ v.seen = NoReply /\ v.text = <<>> /\ v.piece = 0
    <3>1. CASE Answer(p, TRUE)
      BY <3>1, IdleLeaves DEF Answer, Become
    <3>2. CASE Become(p, [Idle EXCEPT !.pc = "read"])
      <4> DEFINE v == [Idle EXCEPT !.pc = "read"]
      <4>1. v.ts = 0 /\ v.seen = NoReply /\ v.text = <<>> /\ v.piece = 0
        BY DEF Idle
      <4> QED
        BY <3>2, <4>1 DEF Become
    <3> QED
      BY <1>16, <3>1, <3>2 DEF Schedule
  <2>2. /\ slack' = slack /\ types' = types /\ refused' = refused
        /\ buffer' = buffer /\ session' = session
    BY <1>16 DEF Schedule
  <2>3. ~Loose(v)
    BY <2>1 DEF Loose
  <2> QED
    BY <1>e, <1>h, <2>1, <2>2, <2>3, EmptyText, IdleLeaves
<1>17. ASSUME NEW p \in Proc, Discard(p) PROVE Owned' /\ Posted'
  <2> DEFINE text == IF procs[p].piece # 0 THEN buffer ELSE <<>>
             v == [procs[p] EXCEPT !.pc = "unschedule", !.text = text]
  <2>1. procs' = [procs EXCEPT ![p] = v] /\ procs[p].pc = "discard"
    BY <1>17 DEF Discard, Become, At
  <2>2. v.piece = procs[p].piece /\ v.text = text /\ v.seen = procs[p].seen
        /\ v.ts = procs[p].ts
    <3> HIDE DEF text
    <3> QED
      BY <1>b DEF ProcType
  <2>3. /\ slack' = slack /\ types' = types /\ refused' = refused
        /\ buffer' = <<>> /\ session' = session
    BY <1>17 DEF Discard
  <2>4. v.ts = 0 /\ (Loose(v) => Loose(procs[p]))
    BY <1>d, <2>1, <2>2 DEF Loose, Posting
  <2>5. ToSet(text) \subseteq Entered
    BY <1>e, EmptyText
  <2> HIDE DEF v, text
  <2> QED
    BY <1>e, <1>f, <1>h, <2>1, <2>2, <2>3, <2>4, <2>5, EmptyText
<1>18. CASE SayInVain
  <2>1. Say /\ refused' = refused \cup {Len(types')}
        /\ UNCHANGED <<session, buffer, slack, procs>>
    BY <1>18 DEF SayInVain
  <2>2. Entered' = Entered
    BY <2>1 DEF Entered, Shown, Taken, Read, ToSet
  <2>3. Said' = Said \cup {Len(types')} /\ Len(types') \notin Said
    <3>1. types \in Seq(Type) /\ types' \in Seq(Type) /\ Len(types') = Len(types) + 1
      BY <2>1, SayType DEF TypeOK
    <3>2. Said = 1..Len(types) /\ Said' = 1..Len(types') /\ Len(types) \in Nat
      BY <3>1 DEF Said
    <3> QED
      BY <3>1, <3>2
  <2>4. refused' \subseteq Said' /\ Entered' \subseteq Said'
    BY <2>1, <2>2, <2>3 DEF Owned
  <2>5. ASSUME NEW q \in Proc, Loose(procs[q])
        PROVE  procs[q].piece \notin Entered' \cup refused'
    <3>1. procs[q].piece \in Said
      <4>1. procs[q].piece \in 1..Len(types)
        BY <1>b, <2>5 DEF Loose, WellFormed, ProcType, TypeOK
      <4> QED
        BY <4>1 DEF Said, TypeOK
    <3> QED
      BY <2>1, <2>2, <2>3, <2>5, <3>1 DEF Owned
  <2>6. Owned'
    BY <2>1, <2>4, <2>5 DEF Owned, Loose
  <2>7. \A p \in Proc : Chunk(p)' = Chunk(p)
    BY <2>1 DEF Chunk, At, First
  <2>8. Posted'
    BY <2>1, <2>7 DEF Posted, First
  <2> QED
    BY <2>6, <2>8
<1>19. CASE TimeOut \/ GateOpens
  <2>1. UNCHANGED <<session, buffer, slack, procs, types, refused>>
    BY <1>19 DEF TimeOut, GateOpens
  <2>2. Entered' = Entered /\ Said' = Said
    BY <2>1 DEF Entered, Shown, Taken, Read, Said, ToSet
  <2>3. \A p \in Proc : Chunk(p)' = Chunk(p)
    BY <2>1 DEF Chunk, At, First
  <2>4. Owned'
    BY <2>1, <2>2 DEF Owned, Loose
  <2>5. Posted'
    BY <2>1, <2>3 DEF Posted, First
  <2> QED
    BY <2>4, <2>5
<1>20. CASE Crash
  <2>1. \A q \in Proc : procs'[q] = Idle
    BY <1>20 DEF Crash
  <2>2. UNCHANGED <<session, buffer, slack, types, refused>>
    BY <1>20 DEF Crash
  <2>3. Taken' = {} /\ Read' = {}
    BY <2>1, EmptyText, IdleLeaves DEF Taken, Read, ToSet
  <2>4. Shown' = Shown /\ ToSet(buffer)' = ToSet(buffer) /\ Said' = Said
        /\ ToSet(session.content)' = ToSet(session.content)
    BY <2>2 DEF Shown, ToSet, Said
  <2>5. Entered' \subseteq Entered
    BY <2>3, <2>4 DEF Entered
  <2>6. \A q \in Proc : ~Loose(procs'[q]) /\ procs'[q].ts = 0 /\ procs'[q].piece = 0
    BY <2>1, IdleLeaves DEF Loose
  <2>7. Owned'
    BY <2>2, <2>4, <2>5, <2>6 DEF Owned, Loose
  <2>8. Posted'
    BY <2>6 DEF Posted
  <2> QED
    BY <2>7, <2>8
<1>21. ASSUME NEW p \in Proc, CallFails(p) PROVE Owned' /\ Posted'
  BY <1>i, <1>21 DEF CallFails, Answer, Become
<1> QED
  BY <1>0, <1>1, <1>2, <1>3, <1>4, <1>5, <1>6, <1>7, <1>8, <1>9, <1>10, <1>11,
     <1>12, <1>13, <1>14, <1>15, <1>16, <1>17, <1>18, <1>19, <1>20, <1>21
     DEF Next, Work, Flush, Reply
-----------------------------------------------------------------------------
(* No piece is lost                                                        *)

Calm == upset \cap Lossy = {}

\* Pieces that no flush can take from the thread: those the session remembers
\* of its message, and those of the other messages.
Firm == ToSet(session.content)
          \cup UNION {ToSet(slack[m].text) : m \in DOMAIN slack \ {session.ts}}

Carries(v) == ToSet(v.text) \cup (IF Loose(v) THEN {v.piece} ELSE {})
Carried    == UNION {Carries(procs[p]) : p \in Proc}

Everywhere == Said \subseteq refused \cup Firm \cup ToSet(buffer) \cup Carried

\* What the session remembers of its message is in the message.
Remembered ==
  /\ Len(session.content) <= Cap
  /\ session.ts # 0 => ToSet(session.content) \subseteq ToSet(slack[session.ts].text)

\* What a flush is about to record, or a call, is what it has written.
Updated ==
  \A p \in Proc :
    /\ procs[p].pc = "record" => slack[procs[p].seen.ts].text = First(Content(p))
    /\ procs[p].ts # 0 => Len(Chunk(p)) <= Cap

\* When all that was written is recorded, the message is what is remembered.
Exact ==
  /\ session.ts # 0 /\ "unrecorded" \notin upset
  /\ \A p \in Proc : ~(procs[p].pc = "record" /\ procs[p].seen.ts = session.ts)
  => slack[session.ts].text = session.content

Sound == Remembered /\ Updated /\ Exact

\* What overflows is part of what was taken from the buffer.
Spilled ==
  \A p \in Proc :
    /\ Len(procs[p].seen.content) <= Cap
    /\ procs[p].pc = "spill" => ToSet(procs[p].text) \subseteq ToSet(procs[p].took)

Kept == Calm => Everywhere /\ Sound /\ Spilled

LEMMA SpilledStep ==
  ASSUME TypeOK, Shape, Remembered, Spilled, [Next]_vars
  PROVE  Spilled'
<1> SUFFICES ASSUME NEW p \in Proc
             PROVE  /\ Len(procs'[p].seen.content) <= Cap
                    /\ procs'[p].pc = "spill" =>
                         ToSet(procs'[p].text) \subseteq ToSet(procs'[p].took)
  BY DEF Spilled, ToSet
<1>0. /\ procs[p] \in ProcType /\ WellFormed(procs[p], Len(types)) /\ Keeping(p)
      /\ Len(procs[p].seen.content) <= Cap
      /\ procs[p].pc = "spill" => ToSet(procs[p].text) \subseteq ToSet(procs[p].took)
  BY ProcTyped, Keeps DEF Shape, Spilled
<1>1. Len(procs'[p].seen.content) <= Cap
  <2>1. Len(session.content) <= Cap /\ Len(NoReply.content) <= Cap
    BY IdleLeaves, ConstantTypes DEF Remembered
  <2> QED
    BY <1>0, <2>1 DEF Keeping
<1>2. ASSUME procs'[p].pc = "spill"
      PROVE  ToSet(procs'[p].text) \subseteq ToSet(procs'[p].took)
  <2>1. procs'[p].took = procs[p].took
    BY <1>0, <1>2 DEF Keeping, Spilling
  <2>2. CASE procs[p].pc = "spill" /\ procs'[p].text = procs[p].text
    BY <1>0, <2>1, <2>2
  <2>3. CASE procs[p].pc = "spill" /\ procs'[p].text = Rest(procs[p].text)
    <3>1. ToSet(Rest(procs[p].text)) \subseteq ToSet(procs[p].text)
      BY TextTypes, Cut
    <3> QED
      BY <1>0, <2>1, <2>3, <3>1
  <2>4. CASE procs[p].pc = "record" /\ procs'[p].text = Rest(Content(p))
    <3>1. procs[p].took = procs[p].text
      BY <1>0, <2>4 DEF WellFormed
    <3>2. /\ procs[p].text \in Seq(Piece) /\ procs[p].seen.content \in Seq(Piece)
      BY TextTypes
    <3>3. ToSet(Rest(Content(p))) \subseteq ToSet(procs[p].text)
      BY <1>0, <3>2, RestOfSecond DEF Content
    <3> QED
      BY <2>1, <2>4, <3>1, <3>3
  <2> QED
    BY <1>0, <1>2, <2>2, <2>3, <2>4 DEF Keeping, Spilling
<1> QED
  BY <1>1, <1>2

LEMMA CarriedOf ==
  ASSUME TypeOK, Everywhere, NEW p \in Proc, NEW v, procs' = [procs EXCEPT ![p] = v],
         types' = types, refused \subseteq refused',
         Firm \cup ToSet(buffer) \cup Carries(procs[p])
           \subseteq refused' \cup Firm' \cup ToSet(buffer') \cup Carries(v)
  PROVE  Everywhere'
<1>1. procs'[p] = v /\ \A q \in Proc \ {p} : procs'[q] = procs[q]
  BY DEF TypeOK
<1>2. Carried' = UNION {Carries(procs'[q]) : q \in Proc}
  BY DEF Carried, Carries, Loose, ToSet
<1>3. Carries(v) \subseteq Carried'
  BY <1>1, <1>2
<1>4. \A q \in Proc \ {p} : Carries(procs[q]) \subseteq Carried'
  BY <1>1, <1>2
<1>5. ToSet(buffer)' = ToSet(buffer') /\ Said' = Said
  BY DEF ToSet, Said
<1> DEFINE G == refused' \cup Firm' \cup ToSet(buffer') \cup Carried'
<1>6. Carries(procs[p]) \subseteq G /\ Firm \cup ToSet(buffer) \cup refused \subseteq G
  BY <1>3
<1>7. \A q \in Proc : Carries(procs[q]) \subseteq G
  BY <1>4, <1>6
<1>8. Carried \subseteq G
  BY <1>7 DEF Carried
<1>9. Said \subseteq G
  BY <1>6, <1>8 DEF Everywhere
<1> QED
  BY <1>5, <1>9 DEF Everywhere

LEMMA FirmSame ==
  ASSUME slack' = slack, session' = session
  PROVE  Firm' = Firm
BY DEF Firm, ToSet

\* A step of one process that neither posts nor records.
LEMMA SoundOf ==
  ASSUME TypeOK, Sound, NEW p \in Proc, NEW v, procs' = [procs EXCEPT ![p] = v],
         slack' = slack, session' = session, types' = types,
         upset \subseteq upset', v.pc # "record", v.ts = 0,
         procs[p].pc = "record" => "unrecorded" \in upset'
  PROVE  Sound'
<1>1. procs'[p] = v /\ \A q \in Proc \ {p} : procs'[q] = procs[q]
  BY DEF TypeOK
<1>2. Remembered'
  BY DEF Sound, Remembered, ToSet
<1>3. ASSUME NEW q \in Proc, procs'[q].pc = "record" \/ procs'[q].ts # 0
      PROVE  procs'[q] = procs[q] /\ Chunk(q)' = Chunk(q) /\ Content(q)' = Content(q)
  <2>1. procs'[q] = procs[q]
    BY <1>1, <1>3
  <2>2. Content(q)' = Content(q)
    BY <2>1 DEF Content
  <2>3. Chunk(q)' = Chunk(q)
    BY <2>1 DEF Chunk, At, First
  <2> QED
    BY <2>1, <2>2, <2>3
<1>4. Updated'
  <2> SUFFICES ASSUME NEW q \in Proc
               PROVE  /\ procs'[q].pc = "record" =>
                           slack'[procs'[q].seen.ts].text = First(Content(q)')
                      /\ procs'[q].ts # 0 => Len(Chunk(q)') <= Cap
    BY DEF Updated, First
  <2> QED
    BY <1>3 DEF Sound, Updated
<1>5. Exact'
  <2> SUFFICES ASSUME session.ts # 0, "unrecorded" \notin upset',
                      \A q \in Proc : ~(procs'[q].pc = "record"
                                        /\ procs'[q].seen.ts = session.ts)
               PROVE  slack[session.ts].text = session.content
    BY DEF Exact
  <2>1. "unrecorded" \notin upset /\ procs[p].pc # "record"
    OBVIOUS
  <2>2. \A q \in Proc : ~(procs[q].pc = "record" /\ procs[q].seen.ts = session.ts)
    BY <1>1, <2>1
  <2> QED
    BY <2>1, <2>2 DEF Sound, Exact
<1> QED
  BY <1>2, <1>4, <1>5 DEF Sound

LEMMA SoundSame ==
  ASSUME Sound, UNCHANGED <<procs, session, slack>>, upset \subseteq upset'
  PROVE  Sound'
<1>1. \A q \in Proc : Content(q)' = Content(q)
  BY DEF Content
<1>2. \A q \in Proc : Chunk(q)' = Chunk(q)
  BY DEF Chunk, At, First
<1>3. Remembered'
  BY DEF Sound, Remembered, ToSet
<1>4. Updated'
  <2> SUFFICES ASSUME NEW q \in Proc
               PROVE  /\ procs'[q].pc = "record" =>
                           slack'[procs'[q].seen.ts].text = First(Content(q)')
                      /\ procs'[q].ts # 0 => Len(Chunk(q)') <= Cap
    BY DEF Updated, First
  <2> QED
    BY <1>1, <1>2 DEF Sound, Updated
<1>5. Exact'
  BY DEF Sound, Exact
<1> QED
  BY <1>3, <1>4, <1>5 DEF Sound

\* The session moves on, and nothing becomes less firm.
LEMMA FirmMoves ==
  ASSUME TypeOK, Linked, Silent, Remembered, slack' = slack, NEW i \in DOMAIN slack,
         session'.ts = i, session'.content = slack[i].text
  PROVE  Firm \subseteq Firm'
<1>1. session.ts = 0 => ToSet(session.content) = {}
  BY EmptyText DEF Silent
<1>2. session.ts # 0 => session.ts \in DOMAIN slack
  BY DEF TypeOK, Reply_, Linked
<1>3. Firm' = ToSet(slack[i].text) \cup UNION {ToSet(slack[m].text) : m \in DOMAIN slack \ {i}}
  BY DEF Firm, ToSet
<1>4. \A m \in DOMAIN slack : ToSet(slack[m].text) \subseteq Firm'
  BY <1>3
<1>5. ToSet(session.content) \subseteq Firm'
  BY <1>1, <1>2, <1>4 DEF Remembered
<1> QED
  BY <1>4, <1>5 DEF Firm

LEMMA KeptInit == Init => Kept
<1> SUFFICES ASSUME Init PROVE Everywhere /\ Sound /\ Spilled
  BY DEF Kept
<1>1. \A p \in Proc : procs[p] = Idle
  BY DEF Init
<1>2. Said = {} /\ session.ts = 0 /\ Len(session.content) = 0
  BY IdleLeaves DEF Init, Said
<1>3. Everywhere
  BY <1>2 DEF Everywhere
<1>4. Remembered /\ Exact
  BY <1>2, ConstantTypes DEF Remembered, Exact
<1>5. Updated
  BY <1>1, IdleLeaves DEF Updated
<1>6. Spilled
  BY <1>1, IdleLeaves, ConstantTypes DEF Spilled
<1> QED
  BY <1>3, <1>4, <1>5, <1>6 DEF Sound

LEMMA SoundStep ==
  ASSUME TypeOK, Shape, Linked, Silent, Owned, Posted, Kept, [Next]_vars, Calm'
  PROVE  Everywhere' /\ Sound'
<1>a. procs \in [Proc -> ProcType] /\ Idle \in ProcType
  BY ConstantTypes DEF TypeOK, ProcType, PC
<1>b. \A p \in Proc : procs[p] \in ProcType /\ WellFormed(procs[p], Len(types))
  BY <1>a DEF Shape
<1>c. Call \subseteq Proc /\ Manager \in Proc
  BY DEF Proc
<1>d. \A p \in Proc : procs[p].pc \notin Posting => procs[p].ts = 0
  BY <1>b DEF WellFormed
<1>e. ~Loose(Idle) /\ Carries(Idle) = {}
  BY IdleLeaves, EmptyText DEF Loose, Carries
<1>f. upset \subseteq upset' => Calm /\ Everywhere /\ Sound /\ Spilled
  BY DEF Calm, Kept
<1>g. \A what, happens : Upset(what, happens) =>
        upset \subseteq upset' /\ (happens => what \in upset')
  BY DEF Upset
\* A step of one process that neither posts nor records.
<1>h. ASSUME NEW p \in Proc, NEW v, procs' = [procs EXCEPT ![p] = v],
             slack' = slack, session' = session, types' = types,
             refused \subseteq refused', upset \subseteq upset',
             v.pc # "record", v.ts = 0,
             procs[p].pc = "record" => "unrecorded" \in upset',
             ToSet(buffer) \cup Carries(procs[p])
               \subseteq refused' \cup Firm \cup ToSet(buffer') \cup Carries(v)
      PROVE  Everywhere' /\ Sound'
  <2>1. Everywhere /\ Sound /\ Firm' = Firm
    BY <1>f, <1>h, FirmSame
  <2>2. Everywhere'
    BY <1>h, <2>1, CarriedOf
  <2>3. Sound'
    BY <1>h, <2>1, SoundOf
  <2> QED
    BY <2>2, <2>3
<1>0. CASE UNCHANGED vars
  <2>1. Everywhere /\ Sound
    BY <1>0, <1>f DEF vars
  <2>2. Everywhere'
    BY <1>0, <2>1 DEF vars, Everywhere, Said, Firm, Carried, Carries, Loose, ToSet
  <2>3. Sound'
    BY <1>0, <2>1, SoundSame DEF vars
  <2> QED
    BY <2>2, <2>3
<1>1. ASSUME NEW c \in Call, SayNew(c) \/ SayMore(c) PROVE Everywhere' /\ Sound'
  <2>1. PICK v : /\ procs' = [procs EXCEPT ![c] = v]
                 /\ v.piece = Len(types') /\ v.ts = 0 /\ v.pc \in {"post", "append", "read"}
    <3>1. CASE SayNew(c)
      <4> DEFINE v == [Idle EXCEPT !.pc = "post", !.piece = Len(types')]
      <4>1. procs' = [procs EXCEPT ![c] = v]
        BY <3>1 DEF SayNew, Become
      <4>2. v.piece = Len(types') /\ v.ts = 0 /\ v.pc = "post"
        BY DEF Idle
      <4> QED
        BY <4>1, <4>2
    <3>2. CASE SayMore(c)
      <4> DEFINE current == IF buffer # <<>> THEN bufferType ELSE session.type
                 v == [Idle EXCEPT !.pc = IF current = Last(types') THEN "append" ELSE "read",
                                   !.piece = Len(types'), !.was = current]
      <4>1. procs' = [procs EXCEPT ![c] = v]
        BY <3>2 DEF SayMore, Become
      <4>2. v.piece = Len(types') /\ v.ts = 0 /\ v.pc \in {"append", "read"}
        BY DEF Idle
      <4> QED
        BY <4>1, <4>2
    <3> QED
      BY <1>1, <3>1, <3>2
  <2>2. /\ Say /\ refused' = refused /\ slack' = slack /\ buffer' = buffer
        /\ session' = session /\ upset \subseteq upset' /\ procs[c] = Idle
    BY <1>1, <1>g DEF SayNew, SayMore, CanCall
  <2>3. Everywhere /\ Sound /\ Firm' = Firm
    BY <1>f, <2>2, FirmSame
  <2>4. procs'[c] = v /\ \A q \in Proc \ {c} : procs'[q] = procs[q]
    BY <1>a, <1>c, <2>1
  <2>5. Said' = Said \cup {Len(types')} /\ Len(types') # 0
    <3>1. /\ types \in Seq(Type) /\ types' \in Seq(Type) /\ Len(types') = Len(types) + 1
          /\ Len(types') \in 1..NumPieces
      BY <2>2, SayType DEF TypeOK
    <3>2. Said = 1..Len(types) /\ Said' = 1..Len(types') /\ Len(types) \in Nat
      BY <3>1 DEF Said
    <3> QED
      BY <3>1, <3>2, ConstantTypes
  <2>6. Everywhere'
    <3>1. Carried' = UNION {Carries(procs'[q]) : q \in Proc}
      BY DEF Carried, Carries, Loose, ToSet
    <3>2. Len(types') \in Carries(v)
      BY <2>1, <2>5 DEF Carries, Loose
    <3>3. Carries(v) \subseteq Carried'
      BY <1>c, <2>4, <3>1
    <3>4. \A q \in Proc : Carries(procs[q]) \subseteq Carried'
      <4> SUFFICES ASSUME NEW q \in Proc PROVE Carries(procs[q]) \subseteq Carried'
        OBVIOUS
      <4>1. CASE q = c
        BY <1>e, <2>2, <4>1
      <4>2. CASE q # c
        BY <2>4, <3>1, <4>2
      <4> QED
        BY <4>1, <4>2
    <3>5. Carried \subseteq Carried'
      BY <3>4 DEF Carried
    <3>6. ToSet(buffer)' = ToSet(buffer)
      BY <2>2 DEF ToSet
    <3> QED
      BY <2>2, <2>3, <2>5, <3>2, <3>3, <3>5, <3>6 DEF Everywhere
  <2>7. ASSUME NEW q \in Proc, procs'[q].pc = "record" \/ procs'[q].ts # 0
        PROVE  procs'[q] = procs[q] /\ Chunk(q)' = Chunk(q) /\ Content(q)' = Content(q)
    <3>1. q # c /\ procs'[q] = procs[q]
      BY <2>1, <2>4, <2>7
    <3>2. At(q, "post") => types'[procs[q].piece] = types[procs[q].piece]
      <4>1. procs[q].piece \in 0..NumPieces /\ procs[q].piece <= Len(types)
        BY <1>b DEF ProcType, WellFormed
      <4> QED
        BY <1>b, <2>2, <4>1, SayType DEF At, WellFormed
    <3> QED
      BY <3>1 DEF Chunk, At, First, Content
  <2>8. Remembered'
    BY <2>2, <2>3 DEF Sound, Remembered, ToSet
  <2>9. Updated'
    <3> SUFFICES ASSUME NEW q \in Proc
                 PROVE  /\ procs'[q].pc = "record" =>
                             slack'[procs'[q].seen.ts].text = First(Content(q)')
                        /\ procs'[q].ts # 0 => Len(Chunk(q)') <= Cap
      BY DEF Updated, First
    <3> QED
      BY <2>2, <2>3, <2>7 DEF Sound, Updated
  <2>10. Exact'
    <3> SUFFICES ASSUME session.ts # 0, "unrecorded" \notin upset',
                        \A q \in Proc : ~(procs'[q].pc = "record"
                                          /\ procs'[q].seen.ts = session.ts)
                 PROVE  slack[session.ts].text = session.content
      BY <2>2 DEF Exact
    <3>1. \A q \in Proc : ~(procs[q].pc = "record" /\ procs[q].seen.ts = session.ts)
      <4> SUFFICES ASSUME NEW q \in Proc, procs[q].pc = "record"
                   PROVE  procs[q].seen.ts # session.ts
        OBVIOUS
      <4>1. q # c
        BY <2>2, IdleLeaves
      <4> QED
        BY <2>4, <4>1
    <3> QED
      BY <2>2, <2>3, <3>1 DEF Sound, Exact
  <2> QED
    BY <2>6, <2>8, <2>9, <2>10 DEF Sound
<1>2. ASSUME NEW c \in Call, EndTurn(c) PROVE Everywhere' /\ Sound'
  <2> DEFINE v == [Idle EXCEPT !.pc = "discard"]
  <2>1. procs' = [procs EXCEPT ![c] = v] /\ procs[c] = Idle
    BY <1>2 DEF EndTurn, Become, CanCall
  <2>2. v.ts = 0 /\ v.pc = "discard"
    BY DEF Idle
  <2>3. /\ slack' = slack /\ types' = types /\ refused' = refused /\ upset' = upset
        /\ buffer' = buffer /\ session' = session
    BY <1>2 DEF EndTurn
  <2>4. Carries(procs[c]) = {} /\ procs[c].pc # "record"
    BY <1>e, <2>1, IdleLeaves
  <2> HIDE DEF v
  <2> QED
    BY <1>c, <1>h, <2>1, <2>2, <2>3, <2>4
<1>3. CASE ManagerFlushes
  <2> DEFINE v == [Idle EXCEPT !.pc = "read"]
  <2>1. procs' = [procs EXCEPT ![Manager] = v] /\ procs[Manager].pc = "idle"
    BY <1>3 DEF ManagerFlushes, Become, At
  <2>2. v.ts = 0 /\ v.pc = "read"
    BY DEF Idle
  <2>3. /\ slack' = slack /\ types' = types /\ refused' = refused /\ upset' = upset
        /\ buffer' = buffer /\ session' = session
    BY <1>3 DEF ManagerFlushes
  <2>4. Carries(procs[Manager]) = {}
    <3>1. procs[Manager].piece = 0 /\ procs[Manager].text = <<>>
      BY <1>b, <1>c, <2>1 DEF WellFormed
    <3> QED
      BY <3>1, EmptyText DEF Carries, Loose
  <2> HIDE DEF v
  <2> QED
    BY <1>c, <1>h, <2>1, <2>2, <2>3, <2>4
<1>4. ASSUME NEW p \in Proc, FlushReads(p) PROVE Everywhere' /\ Sound'
  <2> DEFINE v == [procs[p] EXCEPT !.pc = "look", !.seen = session]
  <2>1. procs' = [procs EXCEPT ![p] = v] /\ procs[p].pc = "read"
    BY <1>4 DEF FlushReads, Become, At
  <2>2. v.piece = procs[p].piece /\ v.text = procs[p].text /\ v.ts = procs[p].ts
        /\ v.pc = "look"
    BY <1>b DEF ProcType
  <2>3. /\ slack' = slack /\ types' = types /\ refused' = refused /\ upset' = upset
        /\ buffer' = buffer /\ session' = session
    BY <1>4 DEF FlushReads
  <2>4. v.ts = 0 /\ Carries(procs[p]) = Carries(v)
    BY <1>d, <2>1, <2>2 DEF Loose, Posting, Carries
  <2> HIDE DEF v
  <2> QED
    BY <1>h, <2>1, <2>2, <2>3, <2>4
<1>5. ASSUME NEW p \in Proc, FlushLooks(p) PROVE Everywhere' /\ Sound'
  <2>1. PICK v : /\ procs' = [procs EXCEPT ![p] = v]
                 /\ v.piece = procs[p].piece /\ v.ts \in {0, procs[p].ts}
                 /\ v.pc \in {"take", "unschedule"}
    <3>1. CASE buffer = <<>>
      BY <1>5, <3>1, DoneLeaves DEF FlushLooks, Become, PC
    <3>2. CASE buffer # <<>>
      <4> DEFINE v == [procs[p] EXCEPT !.pc = "take", !.type = bufferType]
      <4>1. procs' = [procs EXCEPT ![p] = v]
        BY <1>5, <3>2 DEF FlushLooks, Become
      <4>2. v.piece = procs[p].piece /\ v.ts = procs[p].ts /\ v.pc = "take"
        BY <1>b DEF ProcType
      <4> QED
        BY <4>1, <4>2
    <3> QED
      BY <3>1, <3>2
  <2>2. /\ slack' = slack /\ types' = types /\ refused' = refused /\ upset' = upset
        /\ buffer' = buffer /\ session' = session /\ procs[p].pc = "look"
    BY <1>5 DEF FlushLooks, At
  <2>3. v.ts = 0 /\ procs[p].text = <<>>
    BY <1>b, <1>d, <2>1, <2>2 DEF Posting, WellFormed
  <2>4. Carries(procs[p]) \subseteq Carries(v)
    BY <2>1, <2>2, <2>3, EmptyText DEF Carries, Loose
  <2> QED
    BY <1>h, <2>1, <2>2, <2>3, <2>4
<1>6. ASSUME NEW p \in Proc, FlushTakes(p) PROVE Everywhere' /\ Sound'
  <2>1. PICK v : /\ procs' = [procs EXCEPT ![p] = v]
                 /\ v.piece = procs[p].piece /\ v.ts \in {0, procs[p].ts}
                 /\ v.pc \in {"update", "unschedule"} /\ v.text = buffer
    <3>1. CASE buffer = <<>>
      BY <1>6, <3>1, DoneLeaves DEF FlushTakes, Become, PC
    <3>2. CASE buffer # <<>>
      <4> DEFINE v == [procs[p] EXCEPT !.pc = "update", !.text = buffer, !.took = buffer]
      <4>1. procs' = [procs EXCEPT ![p] = v]
        BY <1>6, <3>2 DEF FlushTakes, Become
      <4>2. v.piece = procs[p].piece /\ v.ts = procs[p].ts /\ v.pc = "update"
            /\ v.text = buffer
        BY <1>b DEF ProcType
      <4> QED
        BY <4>1, <4>2
    <3> QED
      BY <3>1, <3>2
  <2>2. /\ slack' = slack /\ types' = types /\ refused' = refused /\ upset' = upset
        /\ session' = session /\ procs[p].pc = "take"
    BY <1>6 DEF FlushTakes, At
  <2>3. v.ts = 0 /\ procs[p].text = <<>>
    BY <1>b, <1>d, <2>1, <2>2 DEF Posting, WellFormed
  <2>4. ToSet(buffer) \cup Carries(procs[p]) \subseteq Carries(v)
    BY <2>1, <2>2, <2>3, EmptyText DEF Carries, Loose
  <2> QED
    BY <1>h, <2>1, <2>2, <2>3, <2>4
<1>7. ASSUME NEW p \in Proc, FlushUpdates(p) PROVE Everywhere' /\ Sound'
  <2> DEFINE v == [procs[p] EXCEPT !.pc = "record"]
             m == [type |-> procs[p].type, text |-> First(Content(p))]
             i == session.ts
  <2>1. procs' = [procs EXCEPT ![p] = v] /\ procs[p].pc = "update"
    BY <1>7 DEF FlushUpdates, Goto, Become, At
  <2>2. v.piece = procs[p].piece /\ v.text = procs[p].text /\ v.seen = procs[p].seen
        /\ v.ts = procs[p].ts /\ v.pc = "record"
    BY <1>b DEF ProcType
  <2>3. /\ types' = types /\ refused' = refused /\ buffer' = buffer /\ session' = session
        /\ Upset("stale", Stale(p))
    BY <1>7 DEF FlushUpdates
  <2>4. ~Stale(p) /\ upset \subseteq upset'
    BY <1>g, <2>3 DEF Calm, Lossy
  <2>5. procs[p].seen = session
        /\ \A q \in Proc \ {p} : ~(procs[q].pc = "record" /\ procs[q].seen.ts = i)
    BY <2>4 DEF Stale, At
  <2>6. i # 0 /\ i \in DOMAIN slack
    <3>1. i # 0
      BY <2>1, <2>5 DEF Silent
    <3>2. i \in Nat /\ i <= Len(slack) /\ slack \in Seq(Message)
      BY DEF TypeOK, Reply_, Linked
    <3> QED
      BY <3>1, <3>2
  <2>7. m \in Message /\ slack \in Seq(Message) /\ m.text = First(Content(p))
    BY <1>b, ChunkType DEF Message, TypeOK, ProcType
  <2>8. slack' = [slack EXCEPT ![i] = m]
    BY <1>7, <2>5 DEF FlushUpdates
  <2> HIDE DEF v, m
  <2>9. /\ DOMAIN slack' = DOMAIN slack /\ slack'[i] = m
        /\ \A j \in DOMAIN slack : j # i => slack'[j] = slack[j]
    BY <2>6, <2>7, <2>8, ShownWritten
  <2>10. Everywhere /\ Sound
    BY <1>f, <2>4
  <2>11. procs'[p] = v /\ \A q \in Proc \ {p} : procs'[q] = procs[q]
    BY <1>a, <2>1
  <2>12. ToSet(session.content) \subseteq ToSet(First(Content(p)))
    <3>1. Content(p) = session.content \o procs[p].text
      BY <2>5 DEF Content
    <3>2. Len(session.content) <= Cap
      BY <2>10 DEF Sound, Remembered
    <3> QED
      BY <3>1, <3>2, TextTypes, Grows
  <2>13. Everywhere'
    <3>1. Firm' = ToSet(session.content) \cup UNION {ToSet(slack'[j].text) : j \in DOMAIN slack' \ {i}}
      BY <2>3 DEF Firm, ToSet
    <3>2. Firm = ToSet(session.content) \cup UNION {ToSet(slack[j].text) : j \in DOMAIN slack \ {i}}
      BY DEF Firm
    <3>3. Firm \subseteq Firm'
      BY <2>9, <3>1, <3>2
    <3>4. Carries(procs[p]) = Carries(v)
      BY <1>d, <2>1, <2>2 DEF Carries, Loose, Posting
    <3> QED
      BY <2>1, <2>3, <2>10, <3>3, <3>4, CarriedOf
  <2>14. Remembered'
    <3>1. ToSet(session.content)' = ToSet(session.content)
          /\ ToSet(slack[session.ts].text)' = ToSet(First(Content(p)))
      BY <2>3, <2>7, <2>9 DEF ToSet
    <3> QED
      BY <2>3, <2>10, <2>12, <3>1 DEF Sound, Remembered
  <2>15. ASSUME NEW q \in Proc
         PROVE  /\ procs'[q].pc = "record" =>
                     slack'[procs'[q].seen.ts].text = First(Content(q)')
                /\ procs'[q].ts # 0 => Len(Chunk(q)') <= Cap
    <3>1. CASE q = p
      <4>1. Content(q)' = Content(p)
        BY <2>2, <2>11, <3>1 DEF Content
      <4>2. procs'[q].seen.ts = i /\ procs'[q].ts = 0
        BY <1>d, <2>1, <2>2, <2>5, <2>11, <3>1 DEF Posting
      <4> QED
        BY <2>7, <2>9, <4>1, <4>2
    <3>2. CASE q # p
      <4>1. procs'[q] = procs[q]
        BY <2>11, <3>2
      <4>2. Content(q)' = Content(q) /\ Chunk(q)' = Chunk(q)
        BY <4>1 DEF Content, Chunk, At, First
      <4>3. ASSUME procs[q].pc = "record"
            PROVE  slack'[procs[q].seen.ts] = slack[procs[q].seen.ts]
        <5>1. procs[q].seen.ts \in Nat /\ procs[q].seen.ts <= Len(slack)
          BY <1>b DEF ProcType, Reply_, Linked
        <5>2. procs[q].seen.ts # 0
          BY <4>3 DEF Silent
        <5>3. procs[q].seen.ts \in DOMAIN slack
          BY <2>7, <5>1, <5>2
        <5> QED
          BY <2>5, <2>9, <3>2, <4>3, <5>3
      <4> QED
        BY <2>10, <4>1, <4>2, <4>3 DEF Sound, Updated
    <3> QED
      BY <3>1, <3>2
  <2>16. Updated'
    BY <2>15 DEF Updated, First
  <2>17. Exact'
    BY <2>2, <2>3, <2>5, <2>11 DEF Exact
  <2> QED
    BY <2>13, <2>14, <2>16, <2>17 DEF Sound
<1>8. ASSUME NEW p \in Proc, FlushDeferred(p) \/ FlushFails(p)
      PROVE  Everywhere' /\ Sound'
  <2>1. PICK v \in ProcType : /\ procs' = [procs EXCEPT ![p] = v]
                              /\ v.ts = 0 /\ v.piece = procs[p].piece
                              /\ v.pc \in {"idle", "post", "discard"}
    BY <1>8, ReturnLeaves DEF FlushDeferred, FlushFails
  <2>2. /\ slack' = slack /\ types' = types /\ refused' = refused
        /\ session' = session /\ buffer' = buffer \o procs[p].took
        /\ upset \subseteq upset'
        /\ procs[p].pc = "record" => "unrecorded" \in upset'
    BY <1>8 DEF FlushDeferred, FlushFails, At, Requeue, Requeued
  <2>3. ToSet(buffer) \cup ToSet(procs[p].took) \subseteq ToSet(buffer')
    <3>1. procs[p].took \in Seq(Piece) /\ buffer \in Seq(Piece)
      BY <1>b, TextTypes DEF ProcType, Text
    <3> QED
      BY <2>2, <3>1, Joined
  <2>4. ToSet(procs[p].text) \subseteq ToSet(procs[p].took)
    <3>1. procs[p].pc \in {"update", "record", "spill", "check", "unschedule"}
          /\ (procs[p].pc = "unschedule" => procs[p].took # <<>>)
      <4>1. FlushDeferred(p) => procs[p].pc = "update"
        BY DEF FlushDeferred, At
      <4>2. FlushFails(p) => procs[p].took # <<>>
        BY DEF FlushFails
      <4> QED
        BY <1>8, <1>b, <4>1, <4>2 DEF WellFormed
    <3>2. CASE procs[p].pc = "spill"
      BY <1>f, <2>2, <3>2 DEF Spilled
    <3>3. CASE procs[p].pc \in {"update", "record"}
      BY <1>b, <3>3 DEF WellFormed
    <3>4. CASE procs[p].pc \in {"check", "unschedule"}
      <4>1. procs[p].text = <<>>
        BY <1>b, <3>1, <3>4 DEF WellFormed
      <4> QED
        BY <4>1, EmptyText
    <3> QED
      BY <3>1, <3>2, <3>3, <3>4
  <2>5. Carries(procs[p]) \subseteq ToSet(procs[p].text) \cup Carries(v)
    BY <2>1 DEF Carries, Loose
  <2> QED
    BY <1>h, <2>1, <2>2, <2>3, <2>4, <2>5
<1>9. ASSUME NEW p \in Proc, FlushRecords(p) PROVE Everywhere' /\ Sound'
  <2> DEFINE rest == Rest(Content(p))
             i == procs[p].seen.ts
  <2>1. PICK v : /\ procs' = [procs EXCEPT ![p] = v]
                 /\ v.ts = 0 /\ v.piece = procs[p].piece /\ v.text = rest
                 /\ v.pc \in {"check", "spill"}
    <3>1. CASE rest = <<>>
      <4> DEFINE v == Done(p, "check")
      <4>1. procs' = [procs EXCEPT ![p] = v]
        BY <1>9, <3>1 DEF FlushRecords, Become
      <4>2. v.ts = 0 /\ v.pc = "check" /\ v.piece = procs[p].piece /\ v.text = rest
        BY <3>1, DoneLeaves DEF PC
      <4> HIDE DEF v, rest
      <4> QED
        BY <4>1, <4>2
    <3>2. CASE rest # <<>>
      <4> DEFINE d == Done(p, "spill")
                 v == [d EXCEPT !.text = rest, !.type = procs[p].type]
      <4>1. procs' = [procs EXCEPT ![p] = v]
        BY <1>9, <3>2 DEF FlushRecords, Become
      <4>2. d \in ProcType /\ d.ts = 0 /\ d.pc = "spill" /\ d.piece = procs[p].piece
        BY DoneLeaves DEF PC
      <4>3. v.ts = 0 /\ v.pc = "spill" /\ v.piece = procs[p].piece /\ v.text = rest
        <5> HIDE DEF d, rest
        <5> QED
          BY <4>2 DEF ProcType
      <4> QED
        BY <4>1, <4>3
    <3> QED
      BY <3>1, <3>2
  <2>2. /\ slack' = slack /\ types' = types /\ refused' = refused /\ buffer' = buffer
        /\ session'.content = First(Content(p)) /\ session'.ts = i
        /\ procs[p].pc = "record" /\ upset' = upset
    BY <1>9 DEF FlushRecords, At
  <2> HIDE DEF rest
  <2>3. Everywhere /\ Sound
    BY <1>f, <2>2
  <2>4. i \in DOMAIN slack /\ slack[i].text = First(Content(p))
    <3>1. i \in Nat /\ i <= Len(slack) /\ i # 0 /\ slack \in Seq(Message)
      BY <1>b, <2>2 DEF ProcType, Reply_, Linked, Silent, TypeOK
    <3> QED
      BY <2>2, <2>3, <3>1 DEF Sound, Updated
  <2>5. Firm \subseteq Firm'
    BY <2>2, <2>3, <2>4, FirmMoves DEF Sound
  <2>6. ToSet(procs[p].text) \subseteq Firm' \cup ToSet(rest)
    <3>1. ToSet(procs[p].text) \subseteq ToSet(First(Content(p))) \cup ToSet(rest)
      BY TextTypes, Cut DEF rest
    <3>2. ToSet(First(Content(p))) \subseteq Firm'
      BY <2>2 DEF Firm, ToSet
    <3> QED
      BY <3>1, <3>2
  <2>7. Everywhere'
    <3>1. Carries(procs[p]) \subseteq Firm' \cup Carries(v)
      BY <2>1, <2>6 DEF Carries, Loose
    <3> QED
      BY <2>1, <2>2, <2>3, <2>5, <3>1, CarriedOf
  <2>8. procs'[p] = v /\ \A q \in Proc \ {p} : procs'[q] = procs[q]
    BY <1>a, <2>1
  <2>9. Remembered' /\ Exact'
    <3>1. Len(First(Content(p))) <= Cap
      BY TextTypes, Cut
    <3>2. slack'[session'.ts].text = session'.content
      BY <2>2, <2>4
    <3> QED
      BY <2>2, <3>1, <3>2 DEF Remembered, Exact, ToSet
  <2>10. ASSUME NEW q \in Proc
         PROVE  /\ procs'[q].pc = "record" =>
                     slack'[procs'[q].seen.ts].text = First(Content(q)')
                /\ procs'[q].ts # 0 => Len(Chunk(q)') <= Cap
    <3>1. CASE q = p
      BY <2>1, <2>8, <3>1
    <3>2. CASE q # p
      <4>1. procs'[q] = procs[q]
        BY <2>8, <3>2
      <4>2. Content(q)' = Content(q) /\ Chunk(q)' = Chunk(q)
        BY <4>1 DEF Content, Chunk, At, First
      <4> QED
        BY <2>2, <2>3, <4>1, <4>2 DEF Sound, Updated
    <3> QED
      BY <3>1, <3>2
  <2>11. Updated'
    BY <2>10 DEF Updated, First
  <2> QED
    BY <2>7, <2>9, <2>11 DEF Sound
<1>10. ASSUME NEW p \in Proc, FlushChecks(p) PROVE Everywhere' /\ Sound'
  <2>1. PICK v : /\ procs' = [procs EXCEPT ![p] = v]
                 /\ v.ts \in {0, procs[p].ts} /\ v.piece = procs[p].piece
                 /\ v.pc \in {"idle", "post", "discard", "unschedule"}
    <3>1. CASE buffer = <<>>
      <4> DEFINE v == [procs[p] EXCEPT !.pc = "unschedule"]
      <4>1. procs' = [procs EXCEPT ![p] = v]
        BY <1>10, <3>1 DEF FlushChecks, Goto, Become
      <4>2. v.piece = procs[p].piece /\ v.ts = procs[p].ts /\ v.pc = "unschedule"
        BY <1>b DEF ProcType
      <4> QED
        BY <4>1, <4>2
    <3>2. CASE buffer # <<>>
      <4>1. Return(p, procs[p].ok) /\ procs[p].ok \in BOOLEAN
        BY <1>10, <3>2, <1>b DEF FlushChecks, ProcType
      <4> QED
        BY <4>1, ReturnLeaves
    <3> QED
      BY <3>1, <3>2
  <2>2. /\ slack' = slack /\ types' = types /\ refused' = refused /\ buffer' = buffer
        /\ session' = session /\ procs[p].pc = "check" /\ upset' = upset
    BY <1>10 DEF FlushChecks, At
  <2>3. v.ts = 0 /\ procs[p].text = <<>>
    BY <1>b, <1>d, <2>1, <2>2 DEF Posting, WellFormed
  <2>4. Carries(procs[p]) \subseteq Carries(v)
    BY <2>1, <2>2, <2>3, EmptyText DEF Carries, Loose
  <2> QED
    BY <1>h, <2>1, <2>2, <2>3, <2>4
<1>11. ASSUME NEW p \in Proc, Unschedule(p) PROVE Everywhere' /\ Sound'
  <2>1. PICK v : /\ procs' = [procs EXCEPT ![p] = v]
                 /\ v.ts \in {0, procs[p].ts} /\ v.piece = procs[p].piece
                 /\ v.text = procs[p].text
                 /\ v.pc \in {"idle", "post", "discard", "rescue"}
    <3>1. CASE procs[p].text # <<>>
      <4> DEFINE v == [procs[p] EXCEPT !.pc = "rescue"]
      <4>1. procs' = [procs EXCEPT ![p] = v]
        BY <1>11, <3>1 DEF Unschedule, Goto, Become
      <4>2. v.piece = procs[p].piece /\ v.ts = procs[p].ts /\ v.text = procs[p].text
            /\ v.pc = "rescue"
        BY <1>b DEF ProcType
      <4> QED
        BY <4>1, <4>2
    <3>2. CASE procs[p].text = <<>>
      <4>1. Return(p, procs[p].ok) /\ procs[p].ok \in BOOLEAN
        BY <1>11, <3>2, <1>b DEF Unschedule, ProcType
      <4> QED
        BY <3>2, <4>1, ReturnLeaves
    <3> QED
      BY <3>1, <3>2
  <2>2. /\ slack' = slack /\ types' = types /\ refused' = refused /\ buffer' = buffer
        /\ session' = session /\ procs[p].pc = "unschedule" /\ upset \subseteq upset'
    BY <1>11, <1>g DEF Unschedule, At
  <2>3. v.ts = 0
    BY <1>d, <2>1, <2>2 DEF Posting
  <2>4. Carries(procs[p]) \subseteq Carries(v)
    BY <2>1, <2>2, <2>3 DEF Carries, Loose
  <2> QED
    BY <1>h, <2>1, <2>2, <2>3, <2>4
<1>12. ASSUME NEW p \in Proc, Posts(p) PROVE Everywhere' /\ Sound'
  <2> DEFINE v == [procs[p] EXCEPT !.ts = Len(slack) + 1]
             m == [type |-> PostedAs(p), text |-> First(Chunk(p))]
  <2>1. procs' = [procs EXCEPT ![p] = v] /\ procs[p].pc \in Posting /\ procs[p].ts = 0
    BY <1>12 DEF Posts, Become
  <2>2. v.piece = procs[p].piece /\ v.text = procs[p].text /\ v.seen = procs[p].seen
        /\ v.ts = Len(slack) + 1 /\ v.pc = procs[p].pc
    BY <1>b DEF ProcType
  <2>3. /\ slack' = Append(slack, m) /\ types' = types /\ refused' = refused
        /\ buffer' = buffer /\ session' = session /\ Upset("rescue", Len(Chunk(p)) > Cap)
    BY <1>12 DEF Posts
  <2>4. m \in Message /\ slack \in Seq(Message) /\ m.text = First(Chunk(p))
    BY <2>1, ChunkType DEF Message, TypeOK
  <2>5. Chunk(p) \in Seq(Piece) /\ Len(Chunk(p)) <= Cap /\ upset \subseteq upset'
    <3>1. Chunk(p) \in Seq(Piece)
      BY <2>1, ChunkType DEF Text
    <3>2. ~(Len(Chunk(p)) > Cap) /\ upset \subseteq upset'
      BY <1>g, <2>3 DEF Calm, Lossy
    <3> QED
      BY <3>1, <3>2, ConstantTypes
  <2> HIDE DEF v, m
  <2>6. Everywhere /\ Sound
    BY <1>f, <2>5
  <2>7. procs'[p] = v /\ \A q \in Proc \ {p} : procs'[q] = procs[q]
    BY <1>a, <2>1
  <2>8. /\ DOMAIN slack' = DOMAIN slack \cup {Len(slack) + 1}
        /\ slack'[Len(slack) + 1] = m
        /\ \A j \in DOMAIN slack : slack'[j] = slack[j]
    BY <2>3, <2>4
  <2>9. session.ts # Len(slack) + 1 /\ (session.ts # 0 => session.ts \in DOMAIN slack)
    <3>1. session.ts \in Nat /\ session.ts <= Len(slack)
      BY DEF TypeOK, Reply_, Linked
    <3> QED
      BY <2>4, <3>1
  <2>10. Everywhere'
    <3>1. Firm' = ToSet(session.content)
                    \cup UNION {ToSet(slack'[j].text) : j \in DOMAIN slack' \ {session.ts}}
      BY <2>3 DEF Firm, ToSet
    <3>2. Firm = ToSet(session.content)
                   \cup UNION {ToSet(slack[j].text) : j \in DOMAIN slack \ {session.ts}}
      BY DEF Firm
    <3>3. Firm \subseteq Firm'
      BY <2>8, <3>1, <3>2
    <3>4. ToSet(m.text) \subseteq Firm'
      BY <2>8, <2>9, <3>1
    <3>5. Carries(procs[p]) \subseteq Firm' \cup Carries(v)
      <4>1. CASE procs[p].pc = "post"
        <5>1. Chunk(p) = <<procs[p].piece>> /\ procs[p].text = <<>>
          BY <1>b, <4>1 DEF Chunk, At, WellFormed
        <5>2. m.text = <<procs[p].piece>>
          BY <2>4, <2>5, <5>1, Cut
        <5>3. procs[p].piece \in Firm'
          BY <3>4, <5>2 DEF ToSet
        <5> QED
          BY <5>1, <5>3, EmptyText DEF Carries
      <4>2. CASE procs[p].pc # "post"
        BY <2>2, <4>2 DEF Carries, Loose
      <4> QED
        BY <4>1, <4>2
    <3> QED
      BY <2>1, <2>3, <2>6, <3>3, <3>5, CarriedOf
  <2>11. Remembered'
    <3>1. CASE session.ts = 0
      BY <2>3, <2>6, <3>1 DEF Sound, Remembered
    <3>2. CASE session.ts # 0
      <4>1. slack'[session'.ts] = slack[session.ts]
        BY <2>3, <2>8, <2>9, <3>2
      <4>2. /\ Len(session.content) <= Cap
            /\ ToSet(session.content) \subseteq ToSet(slack[session.ts].text)
        BY <2>6, <3>2 DEF Sound, Remembered
      <4>3. session' = session
        BY <2>3
      <4>4. /\ ToSet(session.content)' = ToSet(session.content)
            /\ ToSet(slack[session.ts].text)' = ToSet(slack[session.ts].text)
        BY <4>1, <4>3 DEF ToSet
      <4> QED
        BY <4>2, <4>3, <4>4 DEF Remembered
    <3> QED
      BY <3>1, <3>2
  <2>12. Exact'
    <3> SUFFICES ASSUME session.ts # 0, "unrecorded" \notin upset',
                        \A q \in Proc : ~(procs'[q].pc = "record"
                                          /\ procs'[q].seen.ts = session.ts)
                 PROVE  slack'[session.ts].text = session.content
      BY <2>3 DEF Exact
    <3>1. \A q \in Proc : ~(procs[q].pc = "record" /\ procs[q].seen.ts = session.ts)
      BY <2>2, <2>7
    <3> QED
      BY <2>5, <2>6, <2>8, <2>9, <3>1 DEF Sound, Exact
  <2>13. ASSUME NEW q \in Proc
         PROVE  /\ procs'[q].pc = "record" =>
                     slack'[procs'[q].seen.ts].text = First(Content(q)')
                /\ procs'[q].ts # 0 => Len(Chunk(q)') <= Cap
    <3>1. CASE q = p
      <4>1. Chunk(q)' = Chunk(p)
        BY <2>2, <2>7, <3>1 DEF Chunk, At, First
      <4>2. procs'[q].pc # "record"
        BY <2>1, <2>2, <2>7, <3>1 DEF Posting
      <4> QED
        BY <2>5, <4>1, <4>2
    <3>2. CASE q # p
      <4>1. procs'[q] = procs[q]
        BY <2>7, <3>2
      <4>2. Content(q)' = Content(q) /\ Chunk(q)' = Chunk(q)
        BY <4>1 DEF Content, Chunk, At, First
      <4>3. ASSUME procs[q].pc = "record"
            PROVE  slack'[procs[q].seen.ts] = slack[procs[q].seen.ts]
        <5>1. procs[q].seen.ts \in Nat /\ procs[q].seen.ts <= Len(slack)
          BY <1>b DEF ProcType, Reply_, Linked
        <5>2. procs[q].seen.ts # 0
          BY <4>3 DEF Silent
        <5> QED
          BY <2>4, <2>8, <5>1, <5>2
      <4> QED
        BY <2>6, <4>1, <4>2, <4>3 DEF Sound, Updated
    <3> QED
      BY <3>1, <3>2
  <2>14. Updated'
    BY <2>13 DEF Updated, First
  <2> QED
    BY <2>10, <2>11, <2>12, <2>14 DEF Sound
<1>13. ASSUME NEW p \in Proc, PostFails(p) PROVE Everywhere' /\ Sound'
  <2>0. /\ slack' = slack /\ types' = types /\ session' = session /\ refused \subseteq refused'
        /\ upset \subseteq upset' /\ procs[p].pc \in {"post", "rescue", "spill"}
    BY <1>13, UpsetStays DEF PostFails, At
\* A text to rescue has been posted, or the rescue has failed.
  <2>1. ASSUME procs[p].pc = "rescue", Upset("rescue", procs[p].ts = 0)
        PROVE  ToSet(procs[p].text) \subseteq Firm
    <3>1. procs[p].ts # 0
      BY <1>g, <2>1 DEF Calm, Lossy
    <3>2. Chunk(p) = procs[p].text /\ Len(Chunk(p)) <= Cap
      BY <1>f, <2>0, <2>1, <3>1 DEF Chunk, At, Sound, Updated
    <3>3. slack[procs[p].ts].text = procs[p].text
      <4>1. First(Chunk(p)) = Chunk(p)
        BY <3>2, TextTypes, Cut
      <4> QED
        BY <3>1, <3>2, <4>1 DEF Posted
    <3>4. procs[p].ts \in DOMAIN slack /\ procs[p].ts # session.ts
      <4>1. procs[p].ts \in Nat /\ procs[p].ts <= Len(slack) /\ slack \in Seq(Message)
        BY <1>b DEF ProcType, Linked, TypeOK
      <4> QED
        BY <3>1, <4>1, Apart
    <3> QED
      BY <3>3, <3>4 DEF Firm
  <2>2. CASE /\ At(p, "post") \/ At(p, "rescue")
             /\ refused' = refused \cup {procs[p].piece}
             /\ Answer(p, FALSE)
             /\ Upset("rescue", At(p, "rescue") /\ procs[p].ts = 0)
             /\ UNCHANGED buffer
    <3>1. procs' = [procs EXCEPT ![p] = Idle]
      BY <2>2 DEF Answer, Become
    <3>2. ToSet(procs[p].text) \subseteq Firm
      <4>1. CASE procs[p].pc = "post"
        <5>1. procs[p].text = <<>>
          BY <1>b, <4>1 DEF WellFormed
        <5> QED
          BY <5>1, EmptyText
      <4>2. CASE procs[p].pc = "rescue"
        BY <2>1, <2>2, <4>2 DEF At
      <4> QED
        BY <2>2, <4>1, <4>2 DEF At
    <3>3. Carries(procs[p]) \subseteq refused' \cup Firm
      BY <2>2, <3>2 DEF Carries
    <3>4. procs[p].pc # "record"
      BY <2>0
    <3> QED
      BY <1>h, <2>0, <2>2, <3>1, <3>3, <3>4, IdleLeaves
  <2>3. CASE /\ At(p, "rescue") /\ Become(p, Done(p, "post"))
             /\ Upset("rescue", procs[p].ts = 0)
             /\ UNCHANGED <<client, buffer, refused>>
    <3> DEFINE v == Done(p, "post")
    <3>1. procs' = [procs EXCEPT ![p] = v] /\ procs[p].pc = "rescue"
      BY <2>3 DEF Become, At
    <3>2. v.ts = 0 /\ v.piece = procs[p].piece /\ v.pc = "post"
      BY DoneLeaves DEF PC
    <3> HIDE DEF v
    <3>3. Carries(procs[p]) \subseteq Firm \cup Carries(v)
      BY <2>1, <2>3, <3>1, <3>2 DEF Carries, Loose
    <3> QED
      BY <1>h, <2>0, <2>3, <3>1, <3>2, <3>3
  <2>4. CASE At(p, "spill") /\ Requeue(procs[p].text)
             /\ Become(p, [Done(p, "check") EXCEPT !.ok = FALSE])
    <3> DEFINE d == Done(p, "check")
               v == [d EXCEPT !.ok = FALSE]
    <3>1. procs' = [procs EXCEPT ![p] = v] /\ buffer' = buffer \o procs[p].text
          /\ procs[p].pc = "spill"
      BY <2>4 DEF At, Become, Requeue
    <3>2. d \in ProcType /\ d.ts = 0 /\ d.piece = procs[p].piece /\ d.pc = "check"
      BY DoneLeaves DEF PC
    <3>3. v.ts = 0 /\ v.piece = procs[p].piece /\ v.pc = "check"
      <4> HIDE DEF d
      <4> QED
        BY <3>2 DEF ProcType
    <3> HIDE DEF v, d
    <3>4. Carries(procs[p]) \subseteq ToSet(procs[p].text) \cup Carries(v)
      BY <3>1, <3>3 DEF Carries, Loose
    <3>5. ToSet(buffer) \cup ToSet(procs[p].text) \subseteq ToSet(buffer')
      BY <3>1, TextTypes, Joined
    <3> QED
      BY <1>h, <2>0, <3>1, <3>3, <3>4, <3>5
  <2> QED
    BY <1>13, <2>2, <2>3, <2>4 DEF PostFails
<1>14. ASSUME NEW p \in Proc, PostRecorded(p) PROVE Everywhere' /\ Sound'
  <2> DEFINE t == procs[p].ts
  <2>0. /\ t # 0 /\ slack' = slack /\ types' = types /\ refused' = refused
        /\ buffer' = buffer /\ upset' = upset
    BY <1>14 DEF PostRecorded
  <2>1. procs[p].pc \in Posting
    BY <1>b, <2>0 DEF WellFormed
  <2>2. Everywhere /\ Sound
    BY <1>f, <2>0
  <2>3. t \in DOMAIN slack /\ t # session.ts
    <3>1. t \in Nat /\ t <= Len(slack) /\ slack \in Seq(Message)
      BY <1>b DEF ProcType, Linked, TypeOK
    <3> QED
      BY <2>0, <3>1, Apart
  <2>4. slack[t].text = Chunk(p) /\ Len(Chunk(p)) <= Cap
    <3>1. Chunk(p) \in Seq(Piece) /\ Len(Chunk(p)) <= Cap
      BY <2>0, <2>1, <2>2, ChunkType DEF Text, Sound, Updated
    <3>2. First(Chunk(p)) = Chunk(p)
      BY <3>1, Cut
    <3> QED
      BY <2>0, <3>1, <3>2 DEF Posted
  <2>5. \/ session' = session
        \/ session'.ts = t /\ session'.content = Chunk(p)
    BY <1>14 DEF PostRecorded
  <2>6. Firm \cup ToSet(Chunk(p)) \subseteq Firm'
    <3>1. CASE session' = session
      <4>1. Firm' = Firm
        BY <2>0, <3>1, FirmSame
      <4>2. ToSet(slack[t].text) \subseteq Firm
        BY <2>3 DEF Firm
      <4> QED
        BY <2>4, <4>1, <4>2
    <3>2. CASE session'.ts = t /\ session'.content = Chunk(p)
      <4>1. Firm \subseteq Firm'
        BY <2>0, <2>2, <2>3, <2>4, <3>2, FirmMoves DEF Sound
      <4>2. ToSet(Chunk(p)) \subseteq Firm'
        BY <3>2 DEF Firm, ToSet
      <4> QED
        BY <4>1, <4>2
    <3> QED
      BY <2>5, <3>1, <3>2
  <2>7. PICK v : /\ procs' = [procs EXCEPT ![p] = v]
                 /\ v.ts = 0 /\ v.pc # "record"
                 /\ Carries(procs[p]) \subseteq ToSet(Chunk(p)) \cup Carries(v)
    <3>1. CASE At(p, "post")
      <4>1. procs' = [procs EXCEPT ![p] = Idle]
        BY <1>14, <3>1 DEF PostRecorded, At, Answer, Become
      <4>2. procs[p].text = <<>> /\ ~Loose(procs[p])
        BY <1>b, <2>0, <3>1 DEF At, WellFormed, Loose
      <4>3. Carries(procs[p]) = {}
        BY <4>2, EmptyText DEF Carries
      <4> QED
        BY <4>1, <4>3, IdleLeaves
    <3>2. CASE At(p, "rescue")
      <4> DEFINE v == Done(p, "post")
      <4>1. procs' = [procs EXCEPT ![p] = v]
        BY <1>14, <3>2 DEF PostRecorded, At, Become
      <4>2. v.ts = 0 /\ v.pc = "post" /\ v.piece = procs[p].piece
        BY DoneLeaves DEF PC
      <4>3. Chunk(p) = procs[p].text
        BY <3>2 DEF Chunk, At
      <4> HIDE DEF v
      <4>4. Carries(procs[p]) \subseteq ToSet(Chunk(p)) \cup Carries(v)
        BY <3>2, <4>2, <4>3 DEF Carries, Loose, At
      <4> QED
        BY <4>1, <4>2, <4>4
    <3>3. CASE At(p, "spill")
      <4> DEFINE rest == Rest(procs[p].text)
      <4>0. ToSet(procs[p].text) = ToSet(Chunk(p)) \cup ToSet(rest)
        BY <3>3, TextTypes, Cut DEF Chunk, At
      <4>1. CASE rest = <<>>
        <5> DEFINE v == Done(p, "check")
        <5>1. procs' = [procs EXCEPT ![p] = v]
          BY <1>14, <3>3, <4>1 DEF PostRecorded, At, Become
        <5>2. v.ts = 0 /\ v.pc = "check" /\ v.piece = procs[p].piece
          BY DoneLeaves DEF PC
        <5> HIDE DEF v, rest
        <5>3. Carries(procs[p]) \subseteq ToSet(Chunk(p)) \cup Carries(v)
          BY <3>3, <4>0, <4>1, <5>2, EmptyText DEF Carries, Loose, At
        <5> QED
          BY <5>1, <5>2, <5>3
      <4>2. CASE rest # <<>>
        <5> DEFINE v == [procs[p] EXCEPT !.text = rest, !.ts = 0]
        <5>1. procs' = [procs EXCEPT ![p] = v]
          BY <1>14, <3>3, <4>2 DEF PostRecorded, At, Become
        <5>2. /\ v.ts = 0 /\ v.pc = procs[p].pc
              /\ v.text = rest /\ v.piece = procs[p].piece
          <6> HIDE DEF rest
          <6> QED
            BY <1>b DEF ProcType
        <5> HIDE DEF v, rest
        <5>3. Carries(procs[p]) \subseteq ToSet(Chunk(p)) \cup Carries(v)
          BY <3>3, <4>0, <5>2 DEF Carries, Loose, At
        <5>4. v.pc # "record"
          BY <3>3, <5>2 DEF At
        <5> QED
          BY <5>1, <5>2, <5>3, <5>4
      <4> QED
        BY <4>1, <4>2
    <3> QED
      BY <1>14, <3>1, <3>2, <3>3 DEF PostRecorded
  <2>8. Everywhere'
    BY <2>0, <2>2, <2>6, <2>7, CarriedOf
  <2>9. Sound'
    <3>1. CASE session' = session
      BY <2>0, <2>1, <2>2, <2>7, <3>1, SoundOf DEF Posting
    <3>2. CASE session'.ts = t /\ session'.content = Chunk(p)
      <4>1. Remembered' /\ Exact'
        <5>1. slack'[session'.ts].text = session'.content
          BY <2>0, <2>4, <3>2
        <5> QED
          BY <2>4, <3>2, <5>1 DEF Remembered, Exact, ToSet
      <4>2. procs'[p] = v /\ \A q \in Proc \ {p} : procs'[q] = procs[q]
        BY <1>a, <2>7
      <4>3. ASSUME NEW q \in Proc
            PROVE  /\ procs'[q].pc = "record" =>
                        slack'[procs'[q].seen.ts].text = First(Content(q)')
                   /\ procs'[q].ts # 0 => Len(Chunk(q)') <= Cap
        <5>1. CASE q = p
          BY <2>7, <4>2, <5>1
        <5>2. CASE q # p
          <6>1. procs'[q] = procs[q]
            BY <4>2, <5>2
          <6>2. Content(q)' = Content(q) /\ Chunk(q)' = Chunk(q)
            BY <6>1 DEF Content, Chunk, At, First
          <6> QED
            BY <2>0, <2>2, <6>1, <6>2 DEF Sound, Updated
        <5> QED
          BY <5>1, <5>2
      <4>4. Updated'
        BY <4>3 DEF Updated, First
      <4> QED
        BY <4>1, <4>4 DEF Sound
    <3> QED
      BY <2>5, <3>1, <3>2
  <2> QED
    BY <2>8, <2>9
<1>15. ASSUME NEW p \in Proc, AppendToBuffer(p) PROVE Everywhere' /\ Sound'
  <2> DEFINE v == [procs[p] EXCEPT !.pc = "schedule"]
  <2>1. procs' = [procs EXCEPT ![p] = v] /\ procs[p].pc = "append"
    BY <1>15 DEF AppendToBuffer, Goto, Become, At
  <2>2. v.ts = procs[p].ts /\ v.pc = "schedule"
    BY <1>b DEF ProcType
  <2>3. /\ slack' = slack /\ types' = types /\ refused' = refused /\ upset' = upset
        /\ buffer' = Append(buffer, procs[p].piece) /\ session' = session
    BY <1>15 DEF AppendToBuffer
  <2>4. v.ts = 0 /\ procs[p].text = <<>>
    BY <1>b, <1>d, <2>1, <2>2 DEF Posting, WellFormed
  <2>5. ToSet(buffer) \cup Carries(procs[p]) \subseteq ToSet(buffer')
    <3>1. buffer \in Seq(Piece)
      BY TextTypes
    <3>2. /\ DOMAIN buffer' = DOMAIN buffer \cup {Len(buffer) + 1}
          /\ buffer'[Len(buffer) + 1] = procs[p].piece
          /\ \A j \in DOMAIN buffer : buffer'[j] = buffer[j]
      BY <2>3, <3>1
    <3>3. ToSet(buffer) \cup {procs[p].piece} \subseteq ToSet(buffer')
      BY <3>2 DEF ToSet
    <3> QED
      BY <2>4, <3>3, EmptyText DEF Carries
  <2> HIDE DEF v
  <2> QED
    BY <1>h, <2>1, <2>2, <2>3, <2>4, <2>5
<1>16. ASSUME NEW p \in Proc, Schedule(p) PROVE Everywhere' /\ Sound'
  <2>1. PICK v : /\ procs' = [procs EXCEPT ![p] = v]
                 /\ v.ts = 0 /\ v.pc \in {"idle", "read"}
    <3>1. CASE Answer(p, TRUE)
      BY <3>1, IdleLeaves DEF Answer, Become
    <3>2. CASE Become(p, [Idle EXCEPT !.pc = "read"])
      <4> DEFINE v == [Idle EXCEPT !.pc = "read"]
      <4>1. v.ts = 0 /\ v.pc = "read"
        BY DEF Idle
      <4> QED
        BY <3>2, <4>1 DEF Become
    <3> QED
      BY <1>16, <3>1, <3>2 DEF Schedule
  <2>2. /\ slack' = slack /\ types' = types /\ refused' = refused /\ upset' = upset
        /\ buffer' = buffer /\ session' = session /\ procs[p].pc = "schedule"
    BY <1>16 DEF Schedule, At
  <2>3. Carries(procs[p]) = {}
    <3>1. procs[p].text = <<>>
      BY <1>b, <2>2 DEF WellFormed
    <3> QED
      BY <2>2, <3>1, EmptyText DEF Carries, Loose
  <2> QED
    BY <1>h, <2>1, <2>2, <2>3
<1>17. ASSUME NEW p \in Proc, Discard(p) PROVE Everywhere' /\ Sound'
  <2> DEFINE text == IF procs[p].piece # 0 THEN buffer ELSE <<>>
             v == [procs[p] EXCEPT !.pc = "unschedule", !.text = text]
  <2>1. procs' = [procs EXCEPT ![p] = v] /\ procs[p].pc = "discard"
    BY <1>17 DEF Discard, Become, At
  <2>2. v.piece = procs[p].piece /\ v.text = text /\ v.ts = procs[p].ts
        /\ v.pc = "unschedule"
    <3> HIDE DEF text
    <3> QED
      BY <1>b DEF ProcType
  <2>3. /\ slack' = slack /\ types' = types /\ refused' = refused
        /\ buffer' = <<>> /\ session' = session
        /\ Upset("turn", ~(procs[p].piece # 0) /\ buffer # <<>>)
    BY <1>17 DEF Discard
  <2>4. v.ts = 0 /\ procs[p].text = <<>> /\ upset \subseteq upset'
    BY <1>b, <1>d, <1>g, <2>1, <2>2, <2>3 DEF Posting, WellFormed
  <2>5. text = buffer
    <3>1. ~(~(procs[p].piece # 0) /\ buffer # <<>>)
      BY <1>g, <2>3 DEF Calm, Lossy
    <3> QED
      BY <3>1
  <2> HIDE DEF v, text
  <2>6. ToSet(buffer) \cup Carries(procs[p]) \subseteq Carries(v)
    BY <2>1, <2>2, <2>4, <2>5, EmptyText DEF Carries, Loose
  <2> QED
    BY <1>h, <2>1, <2>2, <2>3, <2>4, <2>6
<1>18. CASE SayInVain
  <2>1. Say /\ refused' = refused \cup {Len(types')} /\ upset' = upset
        /\ UNCHANGED <<session, buffer, slack, procs>>
    BY <1>18 DEF SayInVain
  <2>2. Everywhere /\ Sound
    BY <1>f, <2>1
  <2>3. Said' = Said \cup {Len(types')}
    <3>1. types \in Seq(Type) /\ types' \in Seq(Type) /\ Len(types') = Len(types) + 1
      BY <2>1, SayType DEF TypeOK
    <3>2. Said = 1..Len(types) /\ Said' = 1..Len(types') /\ Len(types) \in Nat
      BY <3>1 DEF Said
    <3> QED
      BY <3>1, <3>2
  <2>4. Firm' = Firm /\ Carried' = Carried /\ ToSet(buffer)' = ToSet(buffer)
    BY <2>1 DEF Firm, Carried, Carries, Loose, ToSet
  <2>5. Everywhere'
    BY <2>1, <2>2, <2>3, <2>4 DEF Everywhere
  <2>6. Sound'
    BY <2>1, <2>2, SoundSame
  <2> QED
    BY <2>5, <2>6
<1>19. CASE TimeOut \/ GateOpens
  <2>1. UNCHANGED <<session, buffer, slack, procs, types, refused>>
        /\ upset \subseteq upset'
    BY <1>19, <1>g DEF TimeOut, GateOpens
  <2>2. Everywhere /\ Sound
    BY <1>f, <2>1
  <2>3. Everywhere'
    BY <2>1, <2>2 DEF Everywhere, Said, Firm, Carried, Carries, Loose, ToSet
  <2>4. Sound'
    BY <2>1, <2>2, SoundSame
  <2> QED
    BY <2>3, <2>4
<1>20. CASE Crash
  <2>1. Upset("crash", TRUE)
    BY <1>20 DEF Crash
  <2>2. "crash" \in upset'
    BY <1>g, <2>1
  <2> QED
    BY <2>2 DEF Calm, Lossy
<1>21. ASSUME NEW p \in Proc, CallFails(p) PROVE Everywhere' /\ Sound'
  <2>1. /\ slack' = slack /\ types' = types /\ session' = session /\ buffer' = buffer
        /\ procs' = [procs EXCEPT ![p] = Idle] /\ upset \subseteq upset'
        /\ refused' = refused \cup ({procs[p].piece} \ {0})
    BY <1>21, UpsetStays DEF CallFails, Answer, Become
  <2>2. procs[p].text = <<>>
    <3>1. procs[p].text # <<>> => "rescue" \in upset'
      BY <1>21 DEF CallFails
    <3> QED
      BY <3>1 DEF Calm, Lossy
  <2>3. Carries(procs[p]) \subseteq refused'
    BY <2>1, <2>2, EmptyText DEF Carries, Loose
  <2>4. procs[p].pc # "record"
    <3>1. procs[p].took = <<>>
      BY <1>21 DEF CallFails
    <3> QED
      BY <1>b, <3>1 DEF WellFormed
  <2> QED
    BY <1>h, <2>1, <2>3, <2>4, IdleLeaves
<1> QED
  BY <1>0, <1>1, <1>2, <1>3, <1>4, <1>5, <1>6, <1>7, <1>8, <1>9, <1>10, <1>11,
     <1>12, <1>13, <1>14, <1>15, <1>16, <1>17, <1>18, <1>19, <1>20, <1>21
     DEF Next, Work, Flush, Reply

LEMMA KeptStep ==
  Typed /\ Linked /\ Silent /\ Owned /\ Posted /\ Kept /\ [Next]_vars => Kept'
<1> SUFFICES ASSUME TypeOK, Shape, Linked, Silent, Owned, Posted, Kept, [Next]_vars, Calm'
             PROVE  Everywhere' /\ Sound' /\ Spilled'
  BY DEF Typed, Kept
<1>1. Everywhere' /\ Sound'
  BY SoundStep
<1>2. Remembered /\ Spilled
  BY UpsetStays DEF Calm, Kept, Sound
<1> QED
  BY <1>1, <1>2, SpilledStep

-----------------------------------------------------------------------------
(* The theorems                                                            *)

IInv == Typed /\ Linked /\ Silent /\ Owned /\ Posted /\ Kept

LEMMA Inductive == Init /\ [][Next]_vars => []IInv
<1>1. Init => IInv
  BY TypedInit, LinkedInit, OwnedInit, KeptInit DEF IInv
<1>2. IInv /\ [Next]_vars => IInv'
  BY TypedStep, LinkedStep, OwnedStep, KeptStep DEF IInv
<1> QED
  BY <1>1, <1>2, PTL

\* While no end of a turn drops text, no rescue fails, no flush writes over the
\* work of another and the gateway does not crash, every piece that the agent
\* said is in the thread, in the buffer, in the hands of a call or a flush, or
\* was refused: deferrals, failed updates, type switches and overflows keep it.
THEOREM NothingLost == Spec => []TextKept
<1>1. IInv => TextKept
  <2> SUFFICES ASSUME IInv, Calm PROVE Said \subseteq Shown \cup Held \cup refused
    BY DEF TextKept, Calm
  <2>0. TypeOK /\ Shape /\ Linked /\ Silent /\ Everywhere /\ Remembered
    BY DEF IInv, Typed, Kept, Sound
  <2>1. Firm \subseteq Shown
    <3>1. CASE session.ts = 0
      <4>1. ToSet(session.content) = {}
        BY <2>0, <3>1, EmptyText DEF Silent
      <4> QED
        BY <4>1 DEF Firm, Shown
    <3>2. CASE session.ts # 0
      <4>1. session.ts \in DOMAIN slack
        BY <2>0, <3>2 DEF TypeOK, Reply_, Linked
      <4>2. ToSet(session.content) \subseteq Shown
        BY <2>0, <3>2, <4>1 DEF Remembered, Shown
      <4> QED
        BY <4>2 DEF Firm, Shown
    <3> QED
      BY <3>1, <3>2
  <2>2. Carried \subseteq Held
    <3>1. ASSUME NEW p \in Proc PROVE Carries(procs[p]) \subseteq Held
      <4>1. ToSet(procs[p].text) \subseteq Held
        BY DEF Held
      <4>2. procs[p].piece \in Held
        BY DEF Held
      <4> QED
        BY <4>1, <4>2 DEF Carries
    <3> QED
      BY <3>1 DEF Carried
  <2>3. ToSet(buffer) \subseteq Held
    BY DEF Held
  <2> QED
    BY <2>0, <2>1, <2>2, <2>3 DEF Everywhere
<1> QED
  BY <1>1, Inductive, PTL DEF Spec

Spoilt == upset \cap (Lossy \cup {"bare", "unrecorded"}) # {}

LEMMA StreamMoves ==
  ASSUME Owned', Said' = Said, refused' = refused, upset \subseteq upset',
         ~Spoilt' => Shown \subseteq Shown'
  PROVE  Stream!Next
<1>1. Shown' \subseteq Said
  BY DEF Owned, Entered
<1>2. CASE Spoilt'
  BY <1>1, <1>2 DEF Stream!Next, Stream!Spoil, Spoilt
<1>3. CASE ~Spoilt'
  <2>1. ~Spoilt
    BY <1>3 DEF Spoilt
  <2> QED
    BY <1>1, <1>3, <2>1 DEF Stream!Next, Stream!Show, Spoilt
<1> QED
  BY <1>2, <1>3

\* A step that leaves the thread alone.
LEMMA StreamRests ==
  ASSUME Owned', UNCHANGED <<types, slack, refused>>, upset \subseteq upset'
  PROVE  Stream!Next
<1>1. Said' = Said /\ Shown' = Shown
  BY DEF Said, Shown, ToSet
<1> QED
  BY <1>1, StreamMoves

\* The call of a piece is answered with a failure.
LEMMA StreamRefuses ==
  ASSUME TypeOK, Shape, NEW p \in Proc, UNCHANGED <<types, slack>>, upset \subseteq upset',
         procs[p].piece # 0, refused' = refused \cup {procs[p].piece}
  PROVE  Stream!Next
<1> DEFINE n == procs[p].piece
<1>1. n \in Piece /\ n \in Said
  <2>1. procs[p] \in ProcType /\ n <= Len(types)
    BY ProcTyped DEF Shape, WellFormed
  <2> QED
    BY <2>1, ConstantTypes DEF ProcType, Piece, Said, TypeOK
<1>2. Said' = Said /\ Shown' = Shown /\ Said \cup {n} = Said
  BY <1>1 DEF Said, Shown, ToSet
<1>3. Spoilt' \in {Spoilt, TRUE}
  BY DEF Spoilt
<1>4. Stream!Refuse(n)
  BY <1>2, <1>3 DEF Stream!Refuse, Spoilt
<1> QED
  BY <1>1, <1>4 DEF Stream!Next

\* A piece is said.
LEMMA StreamSays ==
  ASSUME TypeOK, Say
  PROVE  LET n == Len(types')
         IN  n \in Piece /\ n \notin Said /\ Said' = Said \cup {n}
<1>1. /\ types \in Seq(Type) /\ types' \in Seq(Type) /\ Len(types') = Len(types) + 1
      /\ Len(types') \in Piece
  BY SayType DEF TypeOK
<1>2. Said = 1..Len(types) /\ Said' = 1..Len(types') /\ Len(types) \in Nat
  BY <1>1 DEF Said
<1> QED
  BY <1>1, <1>2

LEMMA StreamStep == IInv /\ Owned' /\ [Next]_vars => [Stream!Next]_(Stream!vars)
<1> SUFFICES ASSUME IInv, Owned', [Next]_vars
             PROVE  Stream!Next \/ UNCHANGED Stream!vars
  OBVIOUS
<1>a. TypeOK /\ Shape /\ Linked /\ Silent /\ Owned /\ Posted /\ Kept
  BY DEF IInv, Typed
<1>b. \A p \in Proc : procs[p] \in ProcType /\ WellFormed(procs[p], Len(types))
  BY <1>a, ProcTyped DEF Shape
<1>g. \A what, happens : Upset(what, happens) =>
        upset \subseteq upset' /\ (happens => what \in upset')
  BY DEF Upset
<1>0. CASE UNCHANGED vars
  <2>1. Said' = Said /\ Shown' = Shown /\ UNCHANGED <<refused, upset>>
    BY <1>0 DEF vars, Said, Shown, ToSet
  <2> QED
    BY <2>1 DEF Stream!vars
<1>1. ASSUME NEW c \in Call, SayNew(c) \/ SayMore(c)
      PROVE  Stream!Next
  <2>1. Say /\ slack' = slack /\ refused' = refused
    BY <1>1 DEF SayNew, SayMore
  <2>2. Spoilt' = Spoilt
    BY <1>1 DEF SayNew, SayMore, Upset, Spoilt, Lossy
  <2>3. Shown' = Shown
    BY <2>1 DEF Shown, ToSet
  <2>4. Len(types') \in Piece /\ Stream!Say(Len(types'))
    BY <1>a, <2>1, <2>2, <2>3, StreamSays DEF Stream!Say, Spoilt
  <2> QED
    BY <2>4 DEF Stream!Next
<1>2. ASSUME NEW c \in Call, EndTurn(c)
      PROVE  Stream!Next
  BY <1>2, StreamRests DEF EndTurn
<1>3. ASSUME ManagerFlushes \/ TimeOut \/ Crash \/ GateOpens
      PROVE  Stream!Next
  BY <1>3, <1>g, StreamRests DEF ManagerFlushes, TimeOut, Crash, GateOpens
<1>4. ASSUME NEW p \in Proc,
             \/ FlushReads(p) \/ FlushLooks(p) \/ FlushTakes(p) \/ FlushRecords(p)
             \/ FlushChecks(p) \/ Unschedule(p)
      PROVE  Stream!Next
  BY <1>4, <1>g, StreamRests
     DEF FlushReads, FlushLooks, FlushTakes, FlushRecords, FlushChecks, Unschedule
<1>5. ASSUME NEW p \in Proc, FlushDeferred(p) \/ FlushFails(p)
      PROVE  Stream!Next
  BY <1>5, StreamRests DEF FlushDeferred, FlushFails, Requeued
<1>6. ASSUME NEW p \in Proc,
             PostRecorded(p) \/ AppendToBuffer(p) \/ Schedule(p) \/ Discard(p)
      PROVE  Stream!Next
  BY <1>6, <1>g, StreamRests DEF PostRecorded, AppendToBuffer, Schedule, Discard
\* With everything recorded, the message keeps its pieces and gains new ones.
<1>7. ASSUME NEW p \in Proc, FlushUpdates(p)
      PROVE  Stream!Next
  <2> DEFINE i == procs[p].seen.ts
             text == First(Content(p))
             e == [type |-> procs[p].type, text |-> text]
  <2>1. /\ procs[p].pc = "update" /\ slack' = [slack EXCEPT ![i] = e]
        /\ UNCHANGED <<types, refused>> /\ Upset("stale", Stale(p))
    BY <1>7 DEF FlushUpdates, At
  <2>2. upset \subseteq upset' /\ (Stale(p) => "stale" \in upset')
    BY <1>g, <2>1
  <2>3. slack \in Seq(Message) /\ i \in DOMAIN slack
    BY <1>a, <1>b, <2>1 DEF TypeOK, ProcType, Reply_, Linked, Silent
  <2>4. e.text = text
    OBVIOUS
  <2> HIDE DEF e
  <2>5. DOMAIN slack' = DOMAIN slack /\ slack'[i] = e
        /\ \A j \in DOMAIN slack \ {i} : slack'[j] = slack[j]
    BY <2>1, <2>3
  <2>6. ASSUME ~Spoilt' PROVE Shown \subseteq Shown'
    <3>1. ~Stale(p) /\ Calm /\ "unrecorded" \notin upset
      BY <2>2, <2>6 DEF Spoilt, Calm, Lossy
    <3>2. procs[p].seen = session
      BY <3>1 DEF Stale
    <3>3. \A q \in Proc : ~(procs[q].pc = "record" /\ procs[q].seen.ts = session.ts)
      BY <2>1, <3>1, <3>2 DEF Stale, At
    <3>4. session.ts # 0
      BY <1>a, <2>1, <3>2 DEF Silent
    <3>5. slack[i].text = session.content /\ Len(session.content) <= Cap
      BY <1>a, <3>1, <3>2, <3>3, <3>4 DEF Kept, Sound, Exact, Remembered
    <3>6. ToSet(slack[i].text) \subseteq ToSet(text)
      <4>1. session.content \in Seq(Piece) /\ procs[p].text \in Seq(Piece)
        BY <1>a, TextTypes
      <4>2. Content(p) = session.content \o procs[p].text
        BY <3>2 DEF Content
      <4> QED
        BY <3>5, <4>1, <4>2, Grows
    <3>7. \A j \in DOMAIN slack : ToSet(slack[j].text) \subseteq ToSet(slack'[j].text)
      <4> SUFFICES ASSUME NEW j \in DOMAIN slack
                   PROVE  ToSet(slack[j].text) \subseteq ToSet(slack'[j].text)
        OBVIOUS
      <4>1. CASE j = i
        BY <2>4, <2>5, <3>6, <4>1
      <4>2. CASE j # i
        <5>1. slack'[j] = slack[j]
          BY <2>5, <4>2
        <5> QED
          BY <5>1
      <4> QED
        BY <4>1, <4>2
    <3>8. Shown' = UNION {ToSet(slack'[j].text) : j \in DOMAIN slack'}
      BY DEF Shown, ToSet
    <3> QED
      BY <2>5, <3>7, <3>8 DEF Shown
  <2>7. Said' = Said
    BY <2>1 DEF Said
  <2> QED
    BY <2>1, <2>2, <2>6, <2>7, StreamMoves
<1>8. ASSUME NEW p \in Proc, Posts(p)
      PROVE  Stream!Next
  <2> DEFINE m == [type |-> PostedAs(p), text |-> First(Chunk(p))]
  <2>1. slack' = Append(slack, m) /\ UNCHANGED <<types, refused>> /\ upset \subseteq upset'
    BY <1>8, <1>g DEF Posts
  <2>2. slack \in Seq(Message) /\ m \in Message
    BY <1>8, <1>a, ChunkType DEF Posts, Message, TypeOK
  <2> HIDE DEF m
  <2>3. Shown \subseteq Shown' /\ Said' = Said
    BY <2>1, <2>2, ShownPosted DEF Said
  <2> QED
    BY <2>1, <2>3, StreamMoves
<1>9. ASSUME NEW p \in Proc, PostFails(p) \/ CallFails(p)
      PROVE  Stream!Next
  <2>0. UNCHANGED <<types, slack>> /\ upset \subseteq upset'
    BY <1>9, UpsetStays DEF PostFails, CallFails
  <2>1. CASE refused' = refused
    BY <2>0, <2>1, StreamRests
  <2>2. CASE procs[p].piece # 0 /\ refused' = refused \cup {procs[p].piece}
    BY <1>a, <2>0, <2>2, StreamRefuses
  <2>3. \/ refused' = refused
        \/ procs[p].piece # 0 /\ refused' = refused \cup {procs[p].piece}
    <3>1. At(p, "post") \/ At(p, "rescue") => procs[p].piece # 0
      BY <1>b DEF At, WellFormed
    <3>2. CASE PostFails(p)
      <4>1. \/ /\ At(p, "post") \/ At(p, "rescue")
               /\ refused' = refused \cup {procs[p].piece}
            \/ refused' = refused
        BY <3>2 DEF PostFails
      <4> QED
        BY <3>1, <4>1
    <3>3. CASE CallFails(p)
      <4>1. refused' = refused \cup ({procs[p].piece} \ {0})
        BY <3>3 DEF CallFails
      <4>2. /\ procs[p].piece = 0 => {procs[p].piece} \ {0} = {}
            /\ procs[p].piece # 0 => {procs[p].piece} \ {0} = {procs[p].piece}
        OBVIOUS
      <4>3. refused \cup {} = refused
        OBVIOUS
      <4> QED
        BY <4>1, <4>2, <4>3
    <3> QED
      BY <1>9, <3>2, <3>3
  <2> QED
    BY <2>1, <2>2, <2>3
<1>10. CASE SayInVain
  <2>1. Say /\ refused' = refused \cup {Len(types')} /\ UNCHANGED <<slack, upset>>
    BY <1>10 DEF SayInVain
  <2>2. Shown' = Shown
    BY <2>1 DEF Shown, ToSet
  <2>3. Len(types') \in Piece /\ Stream!Refuse(Len(types'))
    BY <1>a, <2>1, <2>2, StreamSays DEF Stream!Refuse
  <2> QED
    BY <2>3 DEF Stream!Next
<1> QED
  BY <1>0, <1>1, <1>2, <1>3, <1>4, <1>5, <1>6, <1>7, <1>8, <1>9, <1>10
     DEF Next, Work, Flush, Reply

\* The gateway with its buffer, flushes and retries implements the stream of
\* replies, but for what must eventually happen: nothing is shown that was not
\* said, and what is shown stays shown, whatever fails or is answered in vain,
\* unless a text was lost, written over, shown without a record or left without
\* a flush.
THEOREM StreamImplemented == Spec => Stream!Init /\ [][Stream!Next]_(Stream!vars)
<1>1. Init => Stream!Init
  BY DEF Init, Stream!Init, Said, Shown
<1>2. IInv => Owned
  BY DEF IInv
<1> QED
  BY <1>1, <1>2, Inductive, StreamStep, PTL DEF Spec

-----------------------------------------------------------------------------
(* What is buffered is scheduled                                           *)

\* A buffered text has an entry in the schedule, or one is on its way: whoever
\* appended last is about to schedule its flush.
Promised ==
  upset \cap {"bare", "crash"} = {} /\ buffer # <<>> =>
    scheduled \/ \E p \in Proc : At(p, "schedule")

\* What one process does leaves the others at their steps.
LEMMA OthersStay ==
  ASSUME TypeOK, NEW p \in Proc, ~At(p, "schedule"),
         NEW v, procs' = [procs EXCEPT ![p] = v],
         \E q \in Proc : At(q, "schedule")
  PROVE  \E q \in Proc : At(q, "schedule")'
<1>1. PICK q \in Proc : At(q, "schedule") OBVIOUS
<1>2. q # p /\ procs'[q] = procs[q] BY <1>1 DEF TypeOK, At
<1> QED BY <1>1, <1>2 DEF At

\* Where an answer or the return of a flush leaves the process.
LEMMA Returned ==
  ASSUME NEW p \in Proc, NEW ok, Answer(p, ok) \/ Return(p, ok)
  PROVE  \E v : procs' = [procs EXCEPT ![p] = v]
BY DEF Answer, Return, Become

\* The steps that append nothing and leave the schedule alone.
LEMMA Unscheduling ==
  ASSUME TypeOK, Promised, NEW p \in Proc, ~At(p, "schedule"), UNCHANGED scheduled,
         buffer' # <<>> => buffer # <<>>, upset \subseteq upset',
         \E v : procs' = [procs EXCEPT ![p] = v]
  PROVE  Promised'
<1> SUFFICES ASSUME upset \cap {"bare", "crash"} = {}, buffer # <<>>, ~scheduled
             PROVE  \E q \in Proc : At(q, "schedule")'
  BY DEF Promised
<1> QED BY OthersStay DEF Promised

LEMMA PromisedStep == TypeOK /\ Promised /\ [Next]_vars => Promised'
<1> SUFFICES ASSUME TypeOK, Promised, [Next]_vars PROVE Promised' OBVIOUS
<1>1. upset \subseteq upset' BY UpsetStays
<1>2. CASE SayInVain \/ TimeOut \/ GateOpens \/ UNCHANGED vars
  BY <1>1, <1>2 DEF SayInVain, TimeOut, GateOpens, vars, Promised, At
<1>3. CASE Crash BY <1>3 DEF Crash, Upset, Promised
<1>4. ASSUME NEW c \in Call, SayNew(c) \/ SayMore(c) \/ EndTurn(c) PROVE Promised'
  <2>1. c \in Proc /\ ~At(c, "schedule") /\ UNCHANGED <<buffer, scheduled>>
    BY <1>4 DEF SayNew, SayMore, EndTurn, CanCall, Idle, At, Proc
  <2>2. \E v : procs' = [procs EXCEPT ![c] = v]
    BY <1>4 DEF SayNew, SayMore, EndTurn, Become
  <2> QED BY <1>1, <2>1, <2>2, Unscheduling
<1>5. CASE ManagerFlushes
  BY <1>1, <1>5, Unscheduling DEF ManagerFlushes, Become, At, Proc
<1>6. ASSUME NEW p \in Proc,
             \/ FlushReads(p) \/ FlushLooks(p) \/ FlushTakes(p) \/ FlushUpdates(p)
             \/ FlushRecords(p) \/ Posts(p) \/ Discard(p)
      PROVE  Promised'
  <2>1. /\ ~At(p, "schedule") /\ UNCHANGED scheduled
        /\ buffer' # <<>> => buffer # <<>>
        /\ \E v : procs' = [procs EXCEPT ![p] = v]
    BY <1>6 DEF FlushReads, FlushLooks, FlushTakes, FlushUpdates, FlushRecords, Posts,
       Posting, Discard, Become, Goto, At
  <2> QED BY <1>1, <2>1, Unscheduling
<1>7. ASSUME NEW p \in Proc, FlushChecks(p) PROVE Promised'
  <2>1. ~At(p, "schedule") /\ UNCHANGED <<buffer, scheduled>>
    BY <1>7 DEF FlushChecks, At
  <2>2. \E v : procs' = [procs EXCEPT ![p] = v]
    BY <1>7, Returned DEF FlushChecks, Goto, Become
  <2> QED BY <1>1, <2>1, <2>2, Unscheduling
<1>8. ASSUME NEW p \in Proc, PostRecorded(p) PROVE Promised'
  <2>1. ~At(p, "schedule") /\ UNCHANGED <<buffer, scheduled>>
    BY <1>8 DEF PostRecorded, At
  <2>2. \E v : procs' = [procs EXCEPT ![p] = v]
    BY <1>8, Returned DEF PostRecorded, Become
  <2> QED BY <1>1, <2>1, <2>2, Unscheduling
<1>9. ASSUME NEW p \in Proc, AppendToBuffer(p) PROVE Promised'
  BY <1>9 DEF AppendToBuffer, Goto, Become, At, Promised, TypeOK
<1>10. ASSUME NEW p \in Proc, Schedule(p) \/ FlushDeferred(p) PROVE Promised'
  BY <1>10 DEF Schedule, FlushDeferred, Promised
<1>11. ASSUME NEW p \in Proc, FlushFails(p) PROVE Promised'
  BY <1>11 DEF FlushFails, Requeued, Promised
<1>12. ASSUME NEW p \in Proc, PostFails(p) PROVE Promised'
  <2>1. CASE At(p, "spill") /\ Requeued(p, procs[p].text, scheduled)
    BY <1>12, <2>1 DEF PostFails, Requeued, Promised
  <2>2. CASE buffer' = buffer
    <3>1. ~At(p, "schedule") /\ UNCHANGED <<buffer, scheduled>>
      BY <1>12, <2>2 DEF PostFails, At
    <3>2. \E v : procs' = [procs EXCEPT ![p] = v]
      BY <1>12, Returned DEF PostFails, Become
    <3> QED BY <1>1, <3>1, <3>2, Unscheduling
  <2> QED BY <1>12, <2>1, <2>2 DEF PostFails
<1>13. ASSUME NEW p \in Proc, Unschedule(p) PROVE Promised'
  <2> SUFFICES ASSUME upset' \cap {"bare", "crash"} = {}, buffer' # <<>>
               PROVE  \E q \in Proc : At(q, "schedule")'
    BY DEF Promised
  <2>1. ~At(p, "schedule") /\ \E q \in Proc : At(q, "schedule")
    BY <1>13 DEF Unschedule, Upset, At, Proc
  <2>2. \E v : procs' = [procs EXCEPT ![p] = v]
    BY <1>13, Returned DEF Unschedule, Goto, Become
  <2> QED BY <2>1, <2>2, OthersStay
<1>14. ASSUME NEW p \in Proc, CallFails(p) PROVE Promised'
  <2>1. UNCHANGED <<buffer, scheduled>> /\ \E v : procs' = [procs EXCEPT ![p] = v]
    BY <1>14, Returned DEF CallFails
  <2>2. CASE At(p, "schedule")
    BY <1>14, <2>1, <2>2 DEF CallFails, Promised
  <2>3. CASE ~At(p, "schedule")
    BY <1>1, <2>1, <2>3, Unscheduling
  <2> QED BY <2>2, <2>3
<1> QED BY <1>2, <1>3, <1>4, <1>5, <1>6, <1>7, <1>8, <1>9, <1>10, <1>11, <1>12, <1>13,
           <1>14
        DEF Next, Work, Flush, Reply

\* A text is left in the buffer without a flush in four ways only: an append
\* between a flush's look at the empty buffer and its removal from the schedule,
\* which TextUnscheduled finds; a text that goes back after such a removal, or
\* because of an error in it; an error of Redis between an append and its entry
\* in the schedule, of which the agent is told; and the death of the gateway
\* there.
THEOREM OnlyBareIsUnscheduled ==
  Spec => [](upset \cap {"bare", "crash"} = {} => BufferedIsScheduled)
<1>1. Init => Promised BY DEF Init, Promised
<1>2. Promised => (upset \cap {"bare", "crash"} = {} => BufferedIsScheduled)
  BY DEF Promised, BufferedIsScheduled, At, Idle
<1> QED BY <1>1, <1>2, PromisedStep, TypeCorrect, PTL DEF Spec
=============================================================================
