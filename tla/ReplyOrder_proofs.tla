------------------------- MODULE ReplyOrder_proofs -------------------------
(***************************************************************************)
(* The order of the pieces in the messages of ReplyBuffer, for all bounds  *)
(* and any size of a message.                                              *)
(***************************************************************************)
EXTENDS ReplyBuffer_proofs

-----------------------------------------------------------------------------
(* Order of texts                                                          *)

Rising(s)    == \A i, j \in DOMAIN s : i < j => s[i] < s[j]
Behind(s, t) == \A x \in ToSet(s), y \in ToSet(t) : x < y

LEMMA EmptyRises ==
  /\ Rising(<<>>)
  /\ \A t : Behind(<<>>, t) /\ Behind(t, <<>>)
<1>1. Rising(<<>>)
  BY DEF Rising
<1> QED
  BY <1>1, EmptyText DEF Behind

LEMMA SingleRises ==
  ASSUME NEW x \in Int
  PROVE  /\ Rising(<<x>>) /\ ToSet(<<x>>) = {x}
<1>1. DOMAIN <<x>> = {1} /\ <<x>>[1] = x
  OBVIOUS
<1> QED
  BY <1>1 DEF Rising, ToSet

\* A text put behind another.
LEMMA JoinedRises ==
  ASSUME NEW s \in Seq(Int), NEW t \in Seq(Int),
         Rising(s), Rising(t), Behind(s, t)
  PROVE  Rising(s \o t)
<1> DEFINE r == s \o t
<1>1. /\ DOMAIN r = 1..(Len(s) + Len(t)) /\ Len(s) \in Nat /\ Len(t) \in Nat
      /\ DOMAIN s = 1..Len(s) /\ DOMAIN t = 1..Len(t)
      /\ \A i \in DOMAIN s : r[i] = s[i]
      /\ \A i \in DOMAIN r \ DOMAIN s : i - Len(s) \in DOMAIN t /\ r[i] = t[i - Len(s)]
  OBVIOUS
<1> HIDE DEF r
<1> SUFFICES ASSUME NEW i \in DOMAIN r, NEW j \in DOMAIN r, i < j PROVE r[i] < r[j]
  BY DEF r, Rising
<1>2. CASE i \in DOMAIN s /\ j \in DOMAIN s
  BY <1>1, <1>2 DEF Rising
<1>3. CASE i \notin DOMAIN s /\ j \notin DOMAIN s
  <2>1. i - Len(s) < j - Len(s)
    BY <1>1
  <2> QED
    BY <1>1, <1>3, <2>1 DEF Rising
<1>4. CASE i \in DOMAIN s /\ j \notin DOMAIN s
  <2>1. s[i] \in ToSet(s) /\ t[j - Len(s)] \in ToSet(t)
    BY <1>1, <1>4 DEF ToSet
  <2> QED
    BY <1>1, <1>4, <2>1 DEF Behind
<1>5. CASE i \notin DOMAIN s /\ j \in DOMAIN s
  BY <1>1, <1>5
<1> QED
  BY <1>2, <1>3, <1>4, <1>5

\* The parts of a text that is too long.
LEMMA CutRises ==
  ASSUME NEW s \in Seq(Int), Rising(s)
  PROVE  /\ Rising(First(s)) /\ Rising(Rest(s)) /\ Behind(First(s), Rest(s))
<1>0. Cap \in Nat \ {0} /\ Len(s) \in Nat /\ DOMAIN s = 1..Len(s)
  BY BoundsAssumption
<1>1. CASE Len(s) <= Cap
  BY <1>1, Cut, EmptyRises
<1>2. CASE ~(Len(s) <= Cap)
  <2> DEFINE a == First(s)
             b == Rest(s)
  <2>1. /\ DOMAIN a = 1..Cap
        /\ \A i \in DOMAIN a : a[i] = s[i]
    BY <1>0, <1>2 DEF First
  <2>2. /\ DOMAIN b = 1..(Len(s) - Cap)
        /\ \A i \in DOMAIN b : b[i] = s[Cap + i]
    BY <1>0, <1>2 DEF Rest
  <2> HIDE DEF a, b
  <2>3. /\ \A i \in DOMAIN a : i \in DOMAIN s /\ i \in Int /\ i < Cap + 1
        /\ \A i \in DOMAIN b : Cap + i \in DOMAIN s /\ i \in Int /\ Cap < Cap + i
    BY <1>0, <1>2, <2>1, <2>2
  <2>4. Rising(a)
    BY <2>1, <2>3 DEF Rising
  <2>5. Rising(b)
    <3> SUFFICES ASSUME NEW i \in DOMAIN b, NEW j \in DOMAIN b, i < j PROVE b[i] < b[j]
      BY DEF Rising
    <3>1. Cap + i < Cap + j
      BY <1>0, <2>3
    <3> QED
      BY <2>2, <2>3, <3>1 DEF Rising
  <2>6. ASSUME NEW i \in DOMAIN a, NEW j \in DOMAIN b PROVE a[i] < b[j]
    <3>1. i < Cap + j
      BY <1>0, <2>3
    <3> QED
      BY <2>1, <2>2, <2>3, <3>1 DEF Rising
  <2>7. Behind(a, b)
    <3> SUFFICES ASSUME NEW x \in ToSet(a), NEW y \in ToSet(b) PROVE x < y
      BY DEF Behind
    <3>1. /\ \E i \in DOMAIN a : x = a[i]
          /\ \E j \in DOMAIN b : y = b[j]
      BY DEF ToSet
    <3> QED
      BY <2>6, <3>1
  <2> QED
    BY <2>4, <2>5, <2>7 DEF a, b
<1> QED
  BY <1>1, <1>2

\* A piece put at the end.
LEMMA AppendRises ==
  ASSUME NEW s \in Seq(Int), Rising(s), NEW x \in Int,
         \A y \in ToSet(s) : y < x
  PROVE  /\ Rising(Append(s, x)) /\ ToSet(Append(s, x)) = ToSet(s) \cup {x}
<1>1. Append(s, x) = s \o <<x>> /\ <<x>> \in Seq(Int)
  OBVIOUS
<1>2. Rising(<<x>>) /\ ToSet(<<x>>) = {x}
  BY SingleRises
<1>3. Behind(s, <<x>>)
  BY <1>2 DEF Behind
<1>4. Rising(s \o <<x>>)
  BY <1>1, <1>2, <1>3, JoinedRises
<1>5. ToSet(s \o <<x>>) = ToSet(s) \cup ToSet(<<x>>)
  BY <1>1, Joined
<1> QED
  BY <1>1, <1>2, <1>4, <1>5

LEMMA LastIn ==
  ASSUME NEW S, NEW s \in Seq(S), s # <<>>
  PROVE  Last(s) \in ToSet(s)
<1>1. Len(s) \in DOMAIN s
  OBVIOUS
<1> QED
  BY <1>1 DEF Last, ToSet

-----------------------------------------------------------------------------
(* The invariant                                                           *)

Newest == Len(types)

\* The flush of p has the newest piece; p brings one that is in no text yet.
Fresh(p) == Newest \in ToSet(procs[p].text)
Open(p)  == procs[p].piece # 0 /\ procs[p].pc # "schedule"

\* What a message may still become: the session, the buffer, the processes.
Around ==
  ToSet(session.content) \cup ToSet(buffer)
    \cup UNION {ToSet(procs[p].text) \cup ToSet(procs[p].seen.content) : p \in Proc}

\* Only the call that the client waits for is alive, and it brings the newest
\* piece; nothing else is newer, and until it is buffered or posted, as new.
Solo == \A c \in Call : procs[c] # Idle => client.waits = c

Brought ==
  \A p \in Proc : procs[p].piece # 0 => p \in Call /\ procs[p].piece = Newest

Bounded ==
  \A x \in Around : /\ x <= Newest
                   /\ \A p \in Proc : Open(p) => x < Newest

\* A piece of another type is posted when all before it has left the buffer.
Emptying == {"update", "record", "spill", "check", "unschedule", "rescue", "post"}

Emptied ==
  \A p \in Proc : procs[p].piece # 0 /\ procs[p].pc \in Emptying => buffer = <<>>

Sorted ==
  /\ Rising(session.content) /\ Rising(buffer)
  /\ \A p \in Proc : Rising(procs[p].text) /\ Rising(procs[p].seen.content)
  /\ \A m \in DOMAIN slack : Rising(slack[m].text)

\* What has been taken is older than what is buffered, and than what another
\* process has taken later.
InTurn ==
  \A p \in Proc :
    /\ Behind(procs[p].text, buffer)
    /\ \A q \in Proc \ {p} : \/ Behind(procs[p].text, procs[q].text)
                              \/ Behind(procs[q].text, procs[p].text)

\* A content that the buffer may be appended to, also after a flush has put the
\* newest text back into it.
Settled(b) ==
  /\ Behind(b, buffer)
  /\ \A q \in Proc : Fresh(q) => Behind(b, procs[q].text)

Flushing == {"look", "take", "update", "record"}

Bases ==
  /\ Settled(session.content)
  /\ \A p \in Proc :
       /\ procs[p].pc \in Flushing => Settled(procs[p].seen.content)
       /\ procs[p].pc \in {"update", "record"} =>
            Behind(procs[p].seen.content, procs[p].text)

\* A flush that is under way has a text. No text need be rescued: a flush that
\* fails for a call would put its text back behind the piece of the call.
Plain(v) ==
  /\ v.pc \in {"update", "record", "spill"} => v.text # <<>>
  /\ v.pc = "unschedule" => v.text = <<>>
  /\ v.pc # "rescue"
  /\ v.piece # 0 => v.pc # "discard" /\ v.ok
  /\ Len(v.seen.content) <= Cap

Direct == Len(session.content) <= Cap /\ \A p \in Proc : Plain(procs[p])

Order == Solo /\ Brought /\ Bounded /\ Emptied /\ Sorted /\ InTurn /\ Bases

\* Nobody has gone past a text that is on its way, or has put back what Slack
\* shows.
Orderly == upset \cap {"late", "overtaken", "doubled"} = {}

LEMMA AroundInt ==
  ASSUME TypeOK
  PROVE  /\ Newest \in Nat
         /\ session.content \in Seq(Int) /\ buffer \in Seq(Int)
         /\ \A p \in Proc : procs[p].text \in Seq(Int) /\ procs[p].seen.content \in Seq(Int)
         /\ ToSet(session.content) \subseteq Around /\ ToSet(buffer) \subseteq Around
         /\ \A p \in Proc : /\ ToSet(procs[p].text) \subseteq Around
                           /\ ToSet(procs[p].seen.content) \subseteq Around
         /\ Around \subseteq Int
<1>1. Newest \in Nat
  BY DEF TypeOK, Newest
<1>2. ASSUME NEW s \in Seq(Piece) PROVE s \in Seq(Int) /\ ToSet(s) \subseteq Int
  <2>1. Piece \subseteq Int
    BY ConstantTypes DEF Piece
  <2>2. s \in Seq(Int)
    BY <2>1, SeqMonotonic
  <2> QED
    BY <2>2 DEF ToSet
<1>3. session.content \in Seq(Piece) /\ buffer \in Seq(Piece)
  BY DEF TypeOK, Reply_, Text
<1>4. \A p \in Proc : procs[p].text \in Seq(Piece) /\ procs[p].seen.content \in Seq(Piece)
  BY TextTypes
<1> QED
  BY <1>1, <1>2, <1>3, <1>4 DEF Around

LEMMA NoPieces == ASSUME NEW S, NEW s \in Seq(S), ToSet(s) = {} PROVE s = <<>>
<1>1. s # <<>> => 1 \in DOMAIN s
  OBVIOUS
<1> QED
  BY <1>1 DEF ToSet

LEMMA Lone ==
  ASSUME Solo, Brought, NEW p \in Proc, NEW q \in Proc,
         procs[p].piece # 0, procs[q].piece # 0
  PROVE  p = q
<1>1. procs[p] # Idle /\ procs[q] # Idle
  BY IdleLeaves
<1> QED
  BY <1>1 DEF Solo, Brought

-----------------------------------------------------------------------------
(* A step of one process                                                   *)

\* A piece that p has buffered or posted in this step.
New(p) == IF Open(p) /\ ~Open(p)' THEN {Newest} ELSE {}

\* Texts go from the buffer to a process and, if they are the newest, back.
Takes(p) ==
  \/ ToSet(procs'[p].text) \subseteq ToSet(procs[p].text)
  \/ buffer' = <<>> /\ ToSet(procs'[p].text) \subseteq ToSet(buffer)

Gives(p) ==
  \/ ToSet(buffer') \subseteq ToSet(buffer) \cup New(p)
  \/ /\ Fresh(p) /\ procs'[p].text = <<>>
     /\ ToSet(buffer') \subseteq ToSet(buffer) \cup ToSet(procs[p].text)

Moves(p) ==
  /\ types' = types
  /\ \A q \in Proc \ {p} : procs'[q] = procs[q]
  /\ procs'[p].piece \in {0, procs[p].piece}
  /\ procs'[p].piece # 0 => procs[p].pc # "schedule"
  /\ Takes(p) /\ Gives(p)

\* Settled, of the next state.
WillSettle(b) ==
  /\ Behind(b, buffer')
  /\ \A q \in Proc : Newest \in ToSet(procs'[q].text) => Behind(b, procs'[q].text)

LEMMA MovesBounded ==
  ASSUME TypeOK, Solo, Brought, Bounded, NEW p \in Proc, Moves(p),
         ToSet(session'.content) \subseteq Around \cup New(p),
         ToSet(procs'[p].seen.content) \subseteq Around
  PROVE  Brought' /\ Bounded'
<1> USE DEF Moves
<1>1. Brought'
  BY DEF Brought, Newest
<1>2. /\ ToSet(procs'[p].text) \subseteq Around
      /\ ToSet(buffer') \subseteq Around \cup New(p)
  BY AroundInt DEF Takes, Gives
<1>3. \A q \in Proc \ {p} : /\ ToSet(procs'[q].text) \subseteq Around
                            /\ ToSet(procs'[q].seen.content) \subseteq Around
  BY AroundInt
<1>4. Around' \subseteq Around \cup New(p)
  <2>1. \A q \in Proc : /\ ToSet(procs'[q].text) \subseteq Around
                        /\ ToSet(procs'[q].seen.content) \subseteq Around
    BY <1>2, <1>3
  <2>2. Around' = ToSet(session'.content) \cup ToSet(buffer')
          \cup UNION {ToSet(procs'[q].text) \cup ToSet(procs'[q].seen.content) : q \in Proc}
    BY DEF Around, ToSet
  <2>3. ASSUME NEW x \in UNION {ToSet(procs'[q].text) \cup ToSet(procs'[q].seen.content) :
                                   q \in Proc}
        PROVE  x \in Around
    BY <2>1, <2>3
  <2> QED
    BY <1>2, <2>2, <2>3
<1>5. \A q \in Proc : Open(q)' => Open(q)
  BY DEF Open
<1>6. ASSUME NEW q \in Proc, Open(q)', New(p) # {} PROVE FALSE
  BY <1>5, <1>6, Lone DEF New, Open
<1>7. Newest' = Newest /\ Newest \in Nat /\ New(p) \subseteq {Newest}
  BY AroundInt DEF Newest, New
<1>8. Bounded'
  BY <1>4, <1>5, <1>6, <1>7 DEF Bounded
<1> QED
  BY <1>1, <1>8

LEMMA MovesInTurn ==
  ASSUME TypeOK, Bounded, InTurn, NEW p \in Proc, Moves(p)
  PROVE  InTurn'
<1> USE DEF Moves
<1>1. \A q \in Proc : /\ ToSet(procs[q].text) \subseteq Around
                      /\ \A x \in ToSet(procs[q].text) :
                           /\ x \in Int /\ x <= Newest
                           /\ Open(p) => x < Newest
  BY AroundInt DEF Bounded
<1>2. Newest \in Int
  BY AroundInt
<1>3. ASSUME Fresh(p), NEW q \in Proc \ {p}
      PROVE  Behind(procs[q].text, procs[p].text)
  BY <1>1, <1>2, <1>3 DEF InTurn, Behind, Fresh
<1>4. ASSUME NEW q \in Proc \ {p} PROVE Behind(procs[q].text, buffer')
  BY <1>1, <1>3, <1>4 DEF Gives, New, InTurn, Behind
<1>5. Behind(procs'[p].text, buffer')
  <2>1. CASE buffer' = <<>> \/ procs'[p].text = <<>>
    BY <2>1, EmptyRises
  <2>2. CASE buffer' # <<>> /\ procs'[p].text # <<>>
    BY <1>1, <2>2 DEF Gives, Takes, New, InTurn, Behind
  <2> QED
    BY <2>1, <2>2
<1>6. ASSUME NEW q \in Proc \ {p}
      PROVE  Behind(procs'[p].text, procs[q].text) \/ Behind(procs[q].text, procs'[p].text)
  BY <1>6 DEF Takes, InTurn, Behind
<1>7. \A q \in Proc : \/ q = p
                      \/ q \in Proc \ {p} /\ procs'[q] = procs[q]
  OBVIOUS
<1>8. ASSUME NEW a \in Proc, NEW b \in Proc \ {a}
      PROVE  Behind(procs'[a].text, procs'[b].text) \/ Behind(procs'[b].text, procs'[a].text)
  <2>1. CASE a = p
    BY <1>6, <1>7, <2>1
  <2>2. CASE b = p
    BY <1>6, <1>7, <2>2
  <2>3. CASE a # p /\ b # p
    <3>1. procs'[a] = procs[a] /\ procs'[b] = procs[b]
      BY <2>3
    <3> QED
      BY <3>1 DEF InTurn
  <2> QED
    BY <2>1, <2>2, <2>3
<1>9. ASSUME NEW a \in Proc PROVE Behind(procs'[a].text, buffer')
  BY <1>4, <1>5, <1>7
<1> QED
  BY <1>8, <1>9 DEF InTurn, Behind

LEMMA MovesSettled ==
  ASSUME TypeOK, Bounded, InTurn, NEW p \in Proc, Moves(p),
         NEW b, Settled(b), ToSet(b) \subseteq Around
  PROVE  WillSettle(b)
<1> USE DEF Moves
<1>1. \A x \in ToSet(b) : x \in Int /\ (Open(p) => x < Newest)
  BY AroundInt DEF Bounded
<1>2. Behind(b, buffer')
  BY <1>1 DEF Gives, New, Settled, Behind
<1>3. ASSUME NEW q \in Proc, Newest \in ToSet(procs'[q].text)
      PROVE  Behind(b, procs'[q].text)
  <2>1. CASE q = p
    BY <1>3, <2>1 DEF Takes, Settled, Fresh, Behind
  <2>2. CASE q # p
    BY <1>3, <2>2 DEF Settled, Fresh
  <2> QED
    BY <2>1, <2>2
<1> QED
  BY <1>2, <1>3 DEF WillSettle

\* What a step of p must see to for the order to be kept.
Cares(p) ==
  /\ \/ session' = session
     \/ /\ WillSettle(session'.content) /\ Rising(session'.content)
        /\ ToSet(session'.content) \subseteq Around \cup New(p)
  /\ procs'[p].piece # 0 /\ procs'[p].pc \in Emptying =>
       buffer' = <<>> \/ procs[p].pc \in Emptying
  /\ procs'[p].seen \in {procs[p].seen, session, NoReply}
  /\ procs'[p].pc \in Flushing =>
       \/ procs'[p].seen = session
       \/ procs[p].pc \in Flushing /\ procs'[p].seen = procs[p].seen
  /\ procs'[p].pc \in {"update", "record"} =>
       Behind(procs'[p].seen.content, procs'[p].text)
  /\ Rising(procs'[p].text) /\ Rising(buffer')
  /\ \A m \in DOMAIN slack' : Rising(slack'[m].text)

LEMMA MovesEmptied ==
  ASSUME TypeOK, TypeOK', Order, NEW p \in Proc, Moves(p), Cares(p)
  PROVE  Emptied'
<1> SUFFICES ASSUME NEW q \in Proc, procs'[q].piece # 0, procs'[q].pc \in Emptying
             PROVE  buffer' = <<>>
  BY DEF Emptied
<1>0. buffer' \in Seq(Piece)
  BY DEF TypeOK, Text
<1>1. Open(q)' /\ ~(Fresh(p) /\ Open(q))
  <2>1. Open(q)'
    BY DEF Open, Emptying
  <2>2. Fresh(p) => Newest \in Around /\ Newest \in Int
    BY AroundInt DEF Fresh
  <2>3. Fresh(p) /\ Open(q) => Newest < Newest
    BY <2>2 DEF Order, Bounded
  <2> QED
    BY <2>1, <2>2, <2>3
<1>2. CASE q = p
  <2>1. New(p) = {} /\ Open(p)
    BY <1>1, <1>2 DEF New, Open, Moves
  <2>2. CASE procs[p].pc \in Emptying
    <3>1. buffer = <<>>
      BY <2>1, <2>2 DEF Order, Emptied, Open
    <3>2. ToSet(buffer') = {}
      BY <1>1, <1>2, <2>1, <3>1, EmptyText DEF Moves, Gives
    <3> QED
      BY <1>0, <3>2, NoPieces
  <2> QED
    BY <1>2, <2>2 DEF Cares
<1>3. CASE q # p
  <2>1. procs'[q] = procs[q] /\ procs[q].piece # 0 /\ Open(q)
    BY <1>1, <1>3 DEF Moves, Open
  <2>2. buffer = <<>>
    BY <2>1 DEF Order, Emptied
  <2>3. procs[p].piece = 0
    BY <1>3, <2>1, Lone DEF Order
  <2>4. New(p) = {}
    BY <2>3 DEF New, Open
  <2>5. ToSet(buffer') = {}
    BY <1>1, <2>1, <2>2, <2>4, EmptyText DEF Moves, Gives
  <2> QED
    BY <1>0, <2>5, NoPieces
<1> QED
  BY <1>2, <1>3

LEMMA MovesOrder ==
  ASSUME TypeOK, TypeOK', Order, NEW p \in Proc, Moves(p), Cares(p), Solo'
  PROVE  Order'
<1>0. Solo /\ Brought /\ Bounded /\ Sorted /\ InTurn /\ Bases
  BY DEF Order
<1>1. ToSet(session'.content) \subseteq Around \cup New(p)
  BY AroundInt DEF Cares
<1>2. /\ ToSet(procs'[p].seen.content) \subseteq Around
      /\ Rising(procs'[p].seen.content)
  BY <1>0, AroundInt, EmptyText, EmptyRises, IdleLeaves DEF Cares, Sorted
<1>3. Brought' /\ Bounded'
  BY <1>0, <1>1, <1>2, MovesBounded
<1>4. InTurn'
  BY <1>0, MovesInTurn
<1>5. Emptied'
  BY MovesEmptied
<1>6. \A q \in Proc : q = p \/ procs'[q] = procs[q]
  BY DEF Moves
<1>7. Sorted'
  <2>1. Rising(session'.content)
    BY <1>0 DEF Cares, Sorted
  <2>2. \A q \in Proc : Rising(procs'[q].text) /\ Rising(procs'[q].seen.content)
    BY <1>0, <1>2, <1>6 DEF Cares, Sorted
  <2> QED
    BY <2>1, <2>2 DEF Sorted, Cares, Rising
<1>8. Bases'
  <2>1. WillSettle(session.content)
    BY <1>0, AroundInt, MovesSettled DEF Bases
  <2>2. WillSettle(session'.content)
    BY <2>1 DEF Cares
  <2>3. ASSUME NEW q \in Proc, procs'[q].pc \in Flushing
        PROVE  WillSettle(procs'[q].seen.content)
    <3>1. CASE procs[q].pc \in Flushing /\ procs'[q].seen = procs[q].seen
      BY <1>0, <3>1, AroundInt, MovesSettled DEF Bases
    <3>2. CASE procs'[q].seen = session
      BY <2>1, <3>2
    <3> QED
      BY <1>6, <2>3, <3>1, <3>2 DEF Cares
  <2>4. ASSUME NEW q \in Proc, procs'[q].pc \in {"update", "record"}
        PROVE  Behind(procs'[q].seen.content, procs'[q].text)
    BY <1>0, <1>6, <2>4 DEF Cares, Bases
  <2>5. Newest' = Newest
    BY DEF Moves, Newest
  <2>6. \A q \in Proc : Fresh(q)' <=> Newest \in ToSet(procs'[q].text)
    BY <2>5 DEF Fresh, ToSet
  <2>7. Settled(session.content)'
    BY <2>2, <2>6 DEF WillSettle, Settled, Behind, ToSet
  <2>8. ASSUME NEW q \in Proc, procs'[q].pc \in Flushing
        PROVE  Settled(procs[q].seen.content)'
    <3>1. WillSettle(procs'[q].seen.content)
      BY <2>3, <2>8
    <3> QED
      BY <2>6, <3>1 DEF WillSettle, Settled, Behind, ToSet
  <2>9. ASSUME NEW q \in Proc, procs'[q].pc \in {"update", "record"}
        PROVE  Behind(procs[q].seen.content, procs[q].text)'
    BY <2>4, <2>9 DEF Behind, ToSet
  <2> QED
    BY <2>7, <2>8, <2>9 DEF Bases
<1> QED
  BY <1>3, <1>4, <1>5, <1>7, <1>8 DEF Order

-----------------------------------------------------------------------------
(* The steps                                                               *)

\* The call that the client waits for after a step.
LEMMA SoloSame ==
  ASSUME Solo, NEW p \in Proc, client' = client,
         \A q \in Proc \ {p} : procs'[q] = procs[q],
         p \in Call => procs[p] # Idle
  PROVE  Solo'
BY DEF Solo, Proc

LEMMA SoloAnswer ==
  ASSUME TypeOK, Solo, NEW p \in Proc, NEW ok \in BOOLEAN, Answer(p, ok),
         p \in Call => procs[p] # Idle
  PROVE  Solo'
<1>1. procs' = [procs EXCEPT ![p] = Idle] /\ procs \in [Proc -> ProcType]
  BY DEF Answer, Become, TypeOK, ProcType, PC
<1>2. CASE client' = client
  BY <1>1, <1>2, SoloSame
<1>3. CASE client' # client
  <2>1. client.waits = p /\ p # Manager
    BY <1>3 DEF Answer
  <2>2. \A q \in Call : procs[q] # Idle => q = p
    BY <2>1 DEF Solo
  <2> QED
    BY <1>1, <2>2 DEF Solo, Proc
<1> QED
  BY <1>2, <1>3

LEMMA SoloReturn ==
  ASSUME TypeOK, Solo, NEW p \in Proc, NEW ok \in BOOLEAN, Return(p, ok),
         p \in Call => procs[p] # Idle
  PROVE  Solo'
<1>1. CASE procs[p].piece = 0
  BY <1>1, SoloAnswer DEF Return
<1>2. CASE procs[p].piece # 0
  <2>1. client' = client /\ \A q \in Proc \ {p} : procs'[q] = procs[q]
    BY <1>2 DEF Return, Become, TypeOK
  <2> QED
    BY <2>1, SoloSame
<1> QED
  BY <1>1, <1>2

\* What is said is newer than everything.
LEMMA SaysOrder ==
  ASSUME TypeOK, TypeOK', Order, Say, client.waits = 0, Solo',
         UNCHANGED <<session, buffer, slack>>,
         \A p \in Proc :
           \/ procs'[p] = procs[p]
           \/ /\ p \in Call
              /\ procs'[p].text = <<>> /\ procs'[p].seen = NoReply
              /\ procs'[p].piece = Newest'
              /\ \/ procs'[p].pc \in {"append", "read"}
                 \/ procs'[p].pc = "post" /\ buffer = <<>>
  PROVE  Order'
<1>0. Solo /\ Brought /\ Bounded /\ Sorted /\ InTurn /\ Bases
  BY DEF Order
<1>1. Newest' = Newest + 1 /\ Newest \in Nat
  BY SayType, AroundInt DEF Newest
<1>2. \A p \in Proc : procs[p].piece = 0
  <2>1. \A c \in Call : procs[c] = Idle
    BY <1>0 DEF Solo, Call
  <2> QED
    BY <1>0, <2>1, IdleLeaves DEF Brought
<1>3. Brought'
  BY <1>2 DEF Brought
<1>4. /\ session'.content = session.content /\ buffer' = buffer
      /\ ToSet(<<>>) = {} /\ NoReply.content = <<>>
  BY EmptyText, IdleLeaves
<1>5. \A p \in Proc : /\ ToSet(procs'[p].text) \subseteq ToSet(procs[p].text)
                      /\ ToSet(procs'[p].seen.content) \subseteq ToSet(procs[p].seen.content)
  BY <1>4
<1>6. Around' \subseteq Around
  <2>1. Around' = ToSet(session'.content) \cup ToSet(buffer')
          \cup UNION {ToSet(procs'[q].text) \cup ToSet(procs'[q].seen.content) : q \in Proc}
    BY DEF Around, ToSet
  <2>2. ASSUME NEW x \in UNION {ToSet(procs'[q].text) \cup ToSet(procs'[q].seen.content) :
                                   q \in Proc}
        PROVE  x \in Around
    BY <1>5, <2>2, AroundInt
  <2> QED
    BY <1>4, <2>1, <2>2, AroundInt
<1>7. \A x \in Around : x \in Int /\ x < Newest'
  BY <1>0, <1>1, AroundInt DEF Bounded
<1>8. Bounded'
  <2>1. \A x \in Around' : x \in Int /\ x < Newest'
    BY <1>6, <1>7
  <2>2. \A x \in Around' : x <= Newest'
    BY <1>1, <2>1
  <2> QED
    BY <2>1, <2>2 DEF Bounded
<1>9. Emptied'
  BY <1>2 DEF Emptied, Emptying
<1>10. Sorted'
  <2>1. \A p \in Proc : Rising(procs'[p].text) /\ Rising(procs'[p].seen.content)
    BY <1>0, <1>4, EmptyRises DEF Sorted
  <2> QED
    BY <1>0, <1>4, <2>1 DEF Sorted, Rising
<1>11. InTurn'
  <2>1. ASSUME NEW p \in Proc
        PROVE  /\ Behind(procs'[p].text, buffer')
               /\ \A q \in Proc \ {p} : \/ Behind(procs'[p].text, procs'[q].text)
                                         \/ Behind(procs'[q].text, procs'[p].text)
    <3>1. Behind(procs[p].text, buffer)
      BY <1>0 DEF InTurn
    <3>2. ASSUME NEW q \in Proc \ {p}
          PROVE  \/ Behind(procs'[p].text, procs'[q].text)
                 \/ Behind(procs'[q].text, procs'[p].text)
      <4>1. \/ Behind(procs[p].text, procs[q].text)
            \/ Behind(procs[q].text, procs[p].text)
        BY <1>0 DEF InTurn
      <4> QED
        BY <1>5, <4>1 DEF Behind
    <3> QED
      BY <1>4, <1>5, <3>1, <3>2 DEF Behind
  <2> QED
    BY <2>1 DEF InTurn, Behind, ToSet
<1>12. Bases'
  <2>1. \A p \in Proc : ~Fresh(p)'
    <3>1. ASSUME NEW p \in Proc, Newest' \in ToSet(procs'[p].text) PROVE FALSE
      <4>1. Newest' \in Around
        BY <1>5, <3>1, AroundInt
      <4>2. Newest' < Newest'
        BY <1>7, <4>1
      <4> QED
        BY <1>1, <4>2
    <3> QED
      BY <3>1 DEF Fresh, ToSet
  <2>2. Settled(session.content)'
    BY <1>0, <1>4, <2>1 DEF Bases, Settled, Behind, ToSet
  <2>3. ASSUME NEW p \in Proc, procs'[p].pc \in Flushing
        PROVE  Settled(procs[p].seen.content)'
    <3>1. procs'[p] = procs[p]
      BY <2>3 DEF Flushing
    <3> QED
      BY <1>0, <1>4, <2>1, <2>3, <3>1 DEF Bases, Settled, Behind, ToSet
  <2>4. ASSUME NEW p \in Proc, procs'[p].pc \in {"update", "record"}
        PROVE  Behind(procs[p].seen.content, procs[p].text)'
    <3>1. procs'[p] = procs[p]
      BY <2>4
    <3> QED
      BY <1>0, <2>4, <3>1 DEF Bases, Behind, ToSet
  <2> QED
    BY <2>2, <2>3, <2>4 DEF Bases
<1> QED
  BY <1>3, <1>8, <1>9, <1>10, <1>11, <1>12 DEF Order

\* A text that goes back while the order is kept is the newest one, and is
\* alone in the buffer.
LEMMA RequeueMoves ==
  ASSUME TypeOK, Order, NEW p \in Proc, NEW flush,
         Requeue(procs[p].text), Requeued(p, procs[p].text, flush), Orderly',
         procs'[p].text = <<>>, types' = types,
         \A q \in Proc \ {p} : procs'[q] = procs[q],
         procs'[p].piece \in {0, procs[p].piece},
         procs'[p].piece # 0 => procs[p].pc # "schedule"
  PROVE  Moves(p) /\ Rising(buffer') /\ Orderly
<1> DEFINE text == procs[p].text
<1>0. /\ text \in Seq(Int) /\ buffer \in Seq(Int) /\ Newest \in Nat
      /\ Rising(text) /\ Rising(buffer)
  BY AroundInt DEF Order, Sorted
<1>1. buffer' = buffer \o text
  BY DEF Requeue
<1>2. ToSet(buffer') = ToSet(buffer) \cup ToSet(text)
  BY <1>0, <1>1, Joined
<1>3. upset \subseteq upset' /\ ~(Last(text) < Newest)
  BY DEF Requeued, Orderly, Newest
<1>4. Orderly
  BY <1>3 DEF Orderly
<1>5. Takes(p)
  BY EmptyText DEF Takes
<1>6. CASE text = <<>>
  <2>1. buffer' = buffer
    BY <1>0, <1>1, <1>6
  <2>2. Gives(p)
    BY <2>1 DEF Gives
  <2> QED
    BY <1>0, <1>4, <1>5, <2>1, <2>2 DEF Moves
<1>7. CASE text # <<>>
  <2>1. Last(text) \in ToSet(text)
    BY <1>0, <1>7, LastIn
  <2>2. Last(text) \in Around
    BY <2>1, AroundInt
  <2>3. Last(text) \in Int /\ Last(text) <= Newest
    BY <2>2, AroundInt DEF Order, Bounded
  <2>4. Fresh(p)
    BY <1>0, <1>3, <2>1, <2>3 DEF Fresh
  <2>5. Gives(p)
    BY <1>2, <2>4 DEF Gives
  <2>6. Rising(buffer')
    <3>1. \A y \in ToSet(buffer) : y \in Int /\ y <= Newest /\ Newest < y
      BY <2>4, AroundInt DEF Order, Bounded, InTurn, Behind, Fresh
    <3>2. ToSet(buffer) = {}
      BY <1>0, <3>1
    <3>3. buffer = <<>>
      BY <1>0, <3>2, NoPieces
    <3>4. buffer' = text
      BY <1>0, <1>1, <3>3
    <3> QED
      BY <1>0, <3>4
  <2> QED
    BY <1>4, <1>5, <2>5, <2>6 DEF Moves
<1> QED
  BY <1>6, <1>7

\* As long as nothing is doubled, what goes back is what the process still has
\* to show.
LEMMA Intact ==
  ASSUME Shape, NEW p \in Proc, NEW flush, Requeued(p, procs[p].took, flush), Orderly',
         procs[p].took # <<>>
  PROVE  procs[p].took = procs[p].text /\ procs[p].pc \in {"update", "record", "spill"}
<1>1. procs[p].took = procs[p].text
  BY DEF Requeued, Orderly
<1> QED
  BY <1>1 DEF Shape, WellFormed

\* What is recorded of a flush, or of a text that was posted, can be continued.
LEMMA RecordSettles ==
  ASSUME TypeOK, Bounded, InTurn, NEW p \in Proc, NEW base, NEW b,
         Settled(base) \/ base = <<>>,
         ToSet(b) \subseteq ToSet(base) \cup ToSet(procs[p].text),
         Behind(b, procs'[p].text), buffer' = buffer,
         \A q \in Proc \ {p} : procs'[q] = procs[q]
  PROVE  WillSettle(b)
<1>1. Settled(base)
  BY EmptyRises DEF Settled
<1>2. Behind(b, buffer')
  BY <1>1 DEF InTurn, Settled, Behind
<1>3. ASSUME NEW q \in Proc \ {p}, Newest \in ToSet(procs'[q].text)
      PROVE  Behind(b, procs'[q].text)
  <2>1. Fresh(q) /\ procs'[q] = procs[q] /\ Behind(base, procs[q].text)
    BY <1>1, <1>3 DEF Fresh, Settled
  <2>2. \A x \in ToSet(procs[p].text) : x \in Int /\ x <= Newest /\ Newest \in Int
    BY AroundInt DEF Bounded
  <2>3. Behind(procs[p].text, procs[q].text)
    BY <2>1, <2>2 DEF InTurn, Behind, Fresh
  <2> QED
    BY <2>1, <2>3 DEF Behind
<1> QED
  BY <1>2, <1>3 DEF WillSettle

\* A step of one process that says nothing.
LEMMA ProcStep ==
  ASSUME TypeOK, NEW p \in Proc, NEW v, procs' = [procs EXCEPT ![p] = v]
  PROVE  procs'[p] = v /\ \A q \in Proc \ {p} : procs'[q] = procs[q]
BY DEF TypeOK

\* A call that is at work, and what it has when it does not flush or rescue.
LEMMA Working ==
  ASSUME Shape, NEW p \in Proc, procs[p].pc # "idle"
  PROVE  /\ procs[p] # Idle
         /\ procs[p].pc \in {"append", "schedule", "read", "look", "take",
                            "check", "discard", "post"} => procs[p].text = <<>>
BY IdleLeaves DEF Shape, WellFormed

\* The steps that leave the buffer and the session alone and bring no text.
LEMMA StillOrder ==
  ASSUME TypeOK, TypeOK', Order, NEW p \in Proc, NEW v,
         procs' = [procs EXCEPT ![p] = v],
         UNCHANGED <<types, buffer, session>>,
         v.text \in {<<>>, procs[p].text},
         v.piece \in {0, procs[p].piece},
         v.piece # 0 => procs[p].pc # "schedule",
         v.piece # 0 /\ v.pc \in Emptying => buffer = <<>> \/ procs[p].pc \in Emptying,
         v.seen \in {procs[p].seen, session, NoReply},
         v.pc \in Flushing => (\/ v.seen = session
                               \/ procs[p].pc \in Flushing /\ v.seen = procs[p].seen),
         v.pc \in {"update", "record"} => /\ procs[p].pc \in {"update", "record"}
                                         /\ v.seen = procs[p].seen,
         \A m \in DOMAIN slack' : Rising(slack'[m].text),
         Solo'
  PROVE  Order'
<1>1. procs'[p] = v /\ \A q \in Proc \ {p} : procs'[q] = procs[q]
  BY ProcStep
<1>2. ToSet(v.text) \subseteq ToSet(procs[p].text) /\ Rising(v.text)
  BY EmptyText, EmptyRises DEF Order, Sorted
<1>3. Moves(p)
  BY <1>1, <1>2 DEF Moves, Takes, Gives
<1>4. v.pc \in {"update", "record"} => Behind(v.seen.content, v.text)
  BY EmptyRises DEF Order, Bases
<1>5. Cares(p)
  BY <1>1, <1>2, <1>4 DEF Cares, Order, Sorted
<1> QED
  BY <1>3, <1>5, MovesOrder

LEMMA OrderStep ==
  ASSUME Typed, Typed', Orderly => Order /\ Direct, [Next]_vars, Orderly'
  PROVE  Order'
<1>a. TypeOK /\ Shape /\ TypeOK'
  BY DEF Typed
<1>b. /\ Idle.text = <<>> /\ Idle.piece = 0 /\ Idle.pc = "idle" /\ Idle.seen = NoReply
      /\ "idle" \notin Flushing \cup Emptying /\ procs \in [Proc -> ProcType]
      /\ Call \subseteq Proc /\ Manager \in Proc /\ Manager \notin Call /\ 0 \notin Call
  BY <1>a, IdleLeaves DEF Flushing, Emptying, TypeOK, ProcType, PC, Proc, Call, Manager
\* The order has been kept so far if it is still to be kept.
<1>c. ASSUME upset \subseteq upset' PROVE Order /\ Direct
  BY <1>c DEF Orderly
<1>d. ASSUME NEW what, NEW happens, Upset(what, happens)
      PROVE  /\ Order /\ Direct
             /\ what \in {"late", "overtaken"} => ~happens
  BY <1>c, <1>d DEF Upset, Orderly
\* The messages when none is written.
<1>e. ASSUME Order, slack' = slack PROVE \A m \in DOMAIN slack' : Rising(slack'[m].text)
  BY <1>e DEF Order, Sorted
\* The client still waits for who was at work.
<1>f. ASSUME Order, NEW p \in Proc, procs[p].pc # "idle", client' = client,
             NEW v, procs' = [procs EXCEPT ![p] = v]
      PROVE  Solo'
  BY <1>a, <1>f, SoloSame, Working, ProcStep DEF Order
\* The ends of a flush: all went well, or its text goes back.
<1>g. ASSUME Order, NEW p \in Proc, procs[p].pc \in Emptying, NEW ok \in BOOLEAN,
             Return(p, ok), UNCHANGED <<types, buffer, session, slack>>
      PROVE  Order'
  <2>1. PICK v \in ProcType :
          /\ procs' = [procs EXCEPT ![p] = v]
          /\ v.text = <<>> /\ v.ts = 0 /\ v.seen = NoReply
          /\ v.piece = procs[p].piece /\ v.pc \in {"idle", "post", "discard"}
          /\ v.pc # "idle" => v.piece # 0
    BY <1>a, <1>g, ReturnLeaves
  <2>2. v.pc \notin Flushing /\ v.pc \notin {"update", "record"}
        /\ procs[p].pc # "schedule" /\ procs[p].pc # "idle"
    BY <1>g, <2>1 DEF Flushing, Emptying
  <2>3. Solo'
    BY <1>a, <1>g, <2>2, SoloReturn, Working DEF Order
  <2> QED
    BY <1>a, <1>e, <1>g, <2>1, <2>2, <2>3, StillOrder
<1>h. ASSUME NEW p \in Proc, procs[p].pc \in Emptying, NEW flush,
             Requeue(procs[p].text), Requeued(p, procs[p].text, flush),
             NEW v, procs' = [procs EXCEPT ![p] = v], v.text = <<>>, v.seen = NoReply,
             v.piece \in {0, procs[p].piece}, v.pc \notin Flushing,
             Solo', UNCHANGED <<types, session, slack>>
      PROVE  Order'
  <2>1. Order
    BY <1>c, <1>h DEF Requeued
  <2>2. procs'[p] = v /\ \A q \in Proc \ {p} : procs'[q] = procs[q]
    BY <1>a, <1>h, ProcStep
  <2>3. procs[p].pc # "schedule" /\ v.pc \notin {"update", "record"}
    BY <1>h DEF Emptying, Flushing
  <2>4. Moves(p) /\ Rising(buffer')
    BY <1>a, <1>h, <2>1, <2>2, <2>3, RequeueMoves
  <2>5. Cares(p)
    BY <1>e, <1>h, <2>1, <2>2, <2>3, <2>4, EmptyRises DEF Cares
  <2> QED
    BY <1>a, <1>h, <2>1, <2>4, <2>5, MovesOrder
<1>i. ASSUME NEW p \in Proc, procs[p].took # <<>>, NEW flush,
             Requeue(procs[p].took), Requeued(p, procs[p].took, flush), Return(p, FALSE),
             UNCHANGED <<types, session, slack>>
      PROVE  Order'
  <2>1. /\ Order /\ procs[p].took = procs[p].text
        /\ procs[p].pc \in {"update", "record", "spill"}
    BY <1>a, <1>c, <1>i, Intact DEF Requeued
  <2>2. PICK v \in ProcType :
          /\ procs' = [procs EXCEPT ![p] = v]
          /\ v.text = <<>> /\ v.ts = 0 /\ v.seen = NoReply
          /\ v.piece = procs[p].piece /\ v.pc \in {"idle", "post", "discard"}
          /\ v.pc # "idle" => v.piece # 0
    BY <1>a, <1>i, ReturnLeaves
  <2>3. v.pc \notin Flushing /\ procs[p].pc \in Emptying /\ procs[p].pc # "idle"
    BY <2>1, <2>2 DEF Flushing, Emptying
  <2>4. Solo'
    BY <1>a, <1>i, <2>1, <2>3, SoloReturn, Working DEF Order
  <2> QED
    BY <1>h, <1>i, <2>1, <2>2, <2>3, <2>4
<1>0. CASE UNCHANGED vars
  <2>1. Order
    BY <1>0, <1>c DEF vars
  <2> QED
    BY <1>0, <2>1 DEF vars, Order, Solo, Brought, Bounded, Emptied, Sorted, InTurn, Bases,
       Around, Settled, Fresh, Open, Newest, Behind, Rising, ToSet
<1>1. ASSUME NEW c \in Call, SayNew(c) PROVE Order'
  <2>1. Order /\ ~Pending
    BY <1>1, <1>d DEF SayNew
  <2>2. procs'[c] = [Idle EXCEPT !.pc = "post", !.piece = Len(types')]
        /\ \A q \in Proc \ {c} : procs'[q] = procs[q]
    BY <1>1, <1>a, <1>b, ProcStep DEF SayNew, Become
  <2>3. /\ procs'[c].text = <<>> /\ procs'[c].seen = NoReply
        /\ procs'[c].piece = Newest' /\ procs'[c].pc = "post"
    BY <2>2, <1>b DEF Idle, Newest
  <2>4. client.waits = 0 /\ client'.waits = c
    BY <1>1, <1>a DEF SayNew, CanCall, TypeOK
  <2>5. Solo'
    BY <1>b, <2>1, <2>2, <2>4 DEF Order, Solo, Call
  <2>6. buffer = <<>>
    BY <2>1 DEF Pending
  <2> QED
    BY <1>1, <1>a, <2>1, <2>2, <2>3, <2>4, <2>5, <2>6, SaysOrder DEF SayNew
<1>2. ASSUME NEW c \in Call, SayMore(c) PROVE Order'
  <2>1. Order
    BY <1>2, <1>c DEF SayMore
  <2>2. PICK pc \in {"append", "read"}, was \in Type :
          procs' = [procs EXCEPT ![c] = [Idle EXCEPT !.pc = pc, !.piece = Len(types'),
                                                     !.was = was]]
    BY <1>2, <1>a DEF SayMore, Become, TypeOK, Reply_
  <2>3. procs'[c] = [Idle EXCEPT !.pc = pc, !.piece = Len(types'), !.was = was]
        /\ \A q \in Proc \ {c} : procs'[q] = procs[q]
    BY <2>2, <1>a, <1>b, ProcStep
  <2>4. /\ procs'[c].text = <<>> /\ procs'[c].seen = NoReply
        /\ procs'[c].piece = Newest' /\ procs'[c].pc \in {"append", "read"}
    BY <2>3, <1>b DEF Idle, Newest
  <2>5. client.waits = 0 /\ client'.waits = c
    BY <1>2, <1>a DEF SayMore, CanCall, TypeOK
  <2>6. Solo'
    BY <1>b, <2>1, <2>3, <2>5 DEF Order, Solo, Call
  <2> QED
    BY <1>2, <1>a, <2>1, <2>3, <2>4, <2>5, <2>6, SaysOrder DEF SayMore
<1>3. ASSUME NEW c \in Call, EndTurn(c) PROVE Order'
  <2> DEFINE v == [Idle EXCEPT !.pc = "discard"]
  <2>1. Order
    BY <1>3, <1>c DEF EndTurn
  <2>2. procs' = [procs EXCEPT ![c] = v]
        /\ \A q \in Proc \ {c} : procs'[q] = procs[q]
    BY <1>3, <1>a, <1>b, ProcStep DEF EndTurn, Become
  <2>3. v.text = <<>> /\ v.seen = NoReply /\ v.piece = 0 /\ v.pc = "discard"
        /\ "discard" \notin Flushing \cup Emptying
    BY DEF Idle, Flushing, Emptying
  <2>4. client.waits = 0 /\ client'.waits = c
    BY <1>3, <1>a DEF EndTurn, CanCall, TypeOK
  <2>5. Solo'
    BY <1>b, <2>1, <2>2, <2>4 DEF Order, Solo, Call
  <2> HIDE DEF v
  <2> QED
    BY <1>3, <1>a, <1>b, <1>e, <2>1, <2>2, <2>3, <2>5, StillOrder DEF EndTurn, Flushing
<1>4. CASE ManagerFlushes
  <2> DEFINE v == [Idle EXCEPT !.pc = "read"]
  <2>1. Order
    BY <1>4, <1>c DEF ManagerFlushes
  <2>2. procs' = [procs EXCEPT ![Manager] = v]
        /\ \A q \in Proc \ {Manager} : procs'[q] = procs[q]
    BY <1>4, <1>a, <1>b, ProcStep DEF ManagerFlushes, Become
  <2>3. v.text = <<>> /\ v.seen = NoReply /\ v.piece = 0 /\ v.pc = "read"
        /\ "read" \notin Flushing \cup Emptying
    BY DEF Idle, Flushing, Emptying
  <2>5. Solo'
    BY <1>4, <1>b, <2>1, <2>2, SoloSame DEF Order, ManagerFlushes
  <2> HIDE DEF v
  <2> QED
    BY <1>4, <1>a, <1>b, <1>e, <2>1, <2>2, <2>3, <2>5, StillOrder DEF ManagerFlushes, Flushing
<1>5. ASSUME NEW p \in Proc, FlushReads(p) PROVE Order'
  <2> DEFINE v == [procs[p] EXCEPT !.pc = "look", !.seen = session]
  <2>1. Order
    BY <1>5, <1>c DEF FlushReads
  <2>2. procs' = [procs EXCEPT ![p] = v]
        /\ \A q \in Proc \ {p} : procs'[q] = procs[q]
    BY <1>5, <1>a, ProcStep DEF FlushReads, Become
  <2>3. procs[p] \in ProcType /\ procs[p].pc = "read"
    BY <1>5, <1>b DEF FlushReads, At
  <2>4. v.text = procs[p].text /\ v.seen = session /\ v.piece = procs[p].piece /\ v.pc = "look"
    BY <2>3 DEF ProcType
  <2>5. Solo'
    BY <1>5, <1>a, <2>1, <2>2, <2>3, SoloSame, Working DEF Order, FlushReads
  <2> HIDE DEF v
  <2>6. "look" \notin Emptying /\ UNCHANGED <<types, buffer, session, slack>>
    BY <1>5 DEF FlushReads, Emptying
  <2> QED
    BY <1>a, <1>e, <2>1, <2>2, <2>3, <2>4, <2>5, <2>6, StillOrder
<1>6. ASSUME NEW p \in Proc, FlushLooks(p) PROVE Order'
  <2>1. Order /\ procs[p] \in ProcType /\ procs[p].pc = "look"
    BY <1>6, <1>b, <1>c DEF FlushLooks, At
  <2>2. UNCHANGED <<types, buffer, session, slack, client>>
    BY <1>6 DEF FlushLooks
  <2>3. CASE buffer = <<>>
    <3> DEFINE v == Done(p, "unschedule")
    <3>1. procs' = [procs EXCEPT ![p] = v]
      BY <1>6, <2>3 DEF FlushLooks, Become
    <3>2. v.text = <<>> /\ v.seen = NoReply /\ v.piece = procs[p].piece /\ v.pc = "unschedule"
      BY <1>a, DoneLeaves DEF PC
    <3> HIDE DEF v
    <3>3. "unschedule" \notin Flushing
      BY DEF Flushing
    <3> QED
      BY <1>a, <1>e, <1>f, <2>1, <2>2, <2>3, <3>1, <3>2, <3>3, StillOrder
  <2>4. CASE buffer # <<>>
    <3> DEFINE v == [procs[p] EXCEPT !.pc = "take", !.type = bufferType]
    <3>1. procs' = [procs EXCEPT ![p] = v]
      BY <1>6, <2>4 DEF FlushLooks, Become
    <3>2. v.text = procs[p].text /\ v.seen = procs[p].seen /\ v.piece = procs[p].piece
          /\ v.pc = "take"
      BY <2>1 DEF ProcType
    <3> HIDE DEF v
    <3>3. "look" \in Flushing /\ "take" \notin Emptying
      BY DEF Flushing, Emptying
    <3> QED
      BY <1>a, <1>e, <1>f, <2>1, <2>2, <3>1, <3>2, <3>3, StillOrder
  <2> QED
    BY <2>3, <2>4
<1>7. ASSUME NEW p \in Proc, FlushTakes(p) PROVE Order'
  <2>1. Order /\ procs[p] \in ProcType /\ procs[p].pc = "take"
    BY <1>7, <1>b, <1>c DEF FlushTakes, At
  <2>2. UNCHANGED <<types, session, slack, client>> /\ buffer' = <<>>
    BY <1>7 DEF FlushTakes
  <2>3. CASE buffer = <<>>
    <3> DEFINE v == Done(p, "unschedule")
    <3>1. procs' = [procs EXCEPT ![p] = v]
      BY <1>7, <2>3 DEF FlushTakes, Become
    <3>2. v.text = <<>> /\ v.seen = NoReply /\ v.piece = procs[p].piece /\ v.pc = "unschedule"
      BY <1>a, DoneLeaves DEF PC
    <3> HIDE DEF v
    <3>3. "unschedule" \notin Flushing
      BY DEF Flushing
    <3> QED
      BY <1>a, <1>e, <1>f, <2>1, <2>2, <2>3, <3>1, <3>2, <3>3, StillOrder
  <2>4. CASE buffer # <<>>
    <3> DEFINE v == [procs[p] EXCEPT !.pc = "update", !.text = buffer, !.took = buffer]
    <3>1. procs' = [procs EXCEPT ![p] = v]
      BY <1>7, <2>4 DEF FlushTakes, Become
    <3>2. v.text = buffer /\ v.seen = procs[p].seen /\ v.piece = procs[p].piece
          /\ v.pc = "update"
      BY <2>1 DEF ProcType
    <3> HIDE DEF v
    <3>3. "take" \in Flushing
      BY DEF Flushing
    <3>4. procs'[p] = v /\ \A q \in Proc \ {p} : procs'[q] = procs[q]
      BY <1>a, <3>1, ProcStep
    <3>5. Moves(p)
      BY <2>1, <2>2, <3>2, <3>4, EmptyText DEF Moves, Takes, Gives
    <3>6. Behind(procs[p].seen.content, buffer) /\ Rising(buffer)
      BY <2>1, <3>3 DEF Order, Bases, Settled, Sorted
    <3>7. Cares(p)
      BY <1>e, <2>1, <2>2, <3>2, <3>3, <3>4, <3>6, EmptyRises DEF Cares
    <3> QED
      BY <1>a, <1>f, <2>1, <2>2, <3>1, <3>5, <3>7, MovesOrder
  <2> QED
    BY <2>3, <2>4
<1>8. ASSUME NEW p \in Proc, FlushUpdates(p) PROVE Order'
  <2> DEFINE v == [procs[p] EXCEPT !.pc = "record"]
             text == First(Content(p))
             m == [type |-> procs[p].type, text |-> text]
  <2>1. Order /\ procs[p] \in ProcType /\ procs[p].pc = "update"
    BY <1>8, <1>b, <1>d DEF FlushUpdates, At
  <2>2. UNCHANGED <<types, buffer, session, client>>
        /\ slack' = [slack EXCEPT ![procs[p].seen.ts] = m]
        /\ procs' = [procs EXCEPT ![p] = v]
    BY <1>8 DEF FlushUpdates, Goto, Become
  <2>3. v.text = procs[p].text /\ v.seen = procs[p].seen /\ v.piece = procs[p].piece
        /\ v.pc = "record"
    BY <2>1 DEF ProcType
  <2>4. Rising(text)
    <3>1. /\ Behind(procs[p].seen.content, procs[p].text)
          /\ Rising(procs[p].seen.content) /\ Rising(procs[p].text)
          /\ procs[p].seen.content \in Seq(Int) /\ procs[p].text \in Seq(Int)
      BY <1>a, <2>1, AroundInt DEF Order, Bases, Sorted
    <3>2. Rising(Content(p)) /\ Content(p) \in Seq(Int)
      BY <3>1, JoinedRises DEF Content
    <3> QED
      BY <3>2, CutRises
  <2> HIDE DEF text
  <2>5. ASSUME NEW i \in DOMAIN slack' PROVE Rising(slack'[i].text)
    <3>1. i \in DOMAIN slack /\ slack'[i] \in {slack[i], m}
      BY <1>a, <2>2, <2>5 DEF TypeOK
    <3>2. m.text = text
      OBVIOUS
    <3> QED
      BY <2>1, <2>4, <3>1, <3>2 DEF Order, Sorted
  <2> HIDE DEF v
  <2>6. {"update", "record"} \subseteq Flushing /\ "update" \in Emptying
    BY DEF Flushing, Emptying
  <2> QED
    BY <1>a, <1>f, <2>1, <2>2, <2>3, <2>5, <2>6, StillOrder
<1>9. ASSUME NEW p \in Proc, FlushDeferred(p) PROVE Order'
  <2>1. procs[p].took # <<>>
    BY <1>9, <1>a DEF FlushDeferred, At, Shape, WellFormed
  <2> QED
    BY <1>9, <1>i, <2>1 DEF FlushDeferred
<1>10. ASSUME NEW p \in Proc, FlushFails(p) PROVE Order'
  BY <1>10, <1>i DEF FlushFails
<1>11. ASSUME NEW p \in Proc, FlushRecords(p) PROVE Order'
  <2> DEFINE rest == Rest(Content(p))
             content == First(Content(p))
             v == IF rest = <<>> THEN Done(p, "check")
                  ELSE [Done(p, "spill") EXCEPT !.text = rest, !.type = procs[p].type]
  <2>1. Order /\ procs[p] \in ProcType /\ procs[p].pc = "record"
    BY <1>11, <1>b, <1>c DEF FlushRecords, At
  <2>2. UNCHANGED <<types, buffer, slack, client>> /\ session'.content = content
        /\ procs' = [procs EXCEPT ![p] = v]
    BY <1>11 DEF FlushRecords, Become
  <2>3. /\ procs'[p] = v /\ \A q \in Proc \ {p} : procs'[q] = procs[q]
    BY <1>a, <2>2, ProcStep
  <2>4. /\ v.text = rest /\ v.seen = NoReply /\ v.piece = procs[p].piece
        /\ v.pc \in {"check", "spill"}
    BY <1>a DEF Done, Idle
  <2>5. /\ Settled(procs[p].seen.content)
        /\ Behind(procs[p].seen.content, procs[p].text)
        /\ Rising(procs[p].seen.content) /\ Rising(procs[p].text)
        /\ procs[p].seen.content \in Seq(Int) /\ procs[p].text \in Seq(Int)
    BY <1>a, <2>1, AroundInt DEF Order, Bases, Sorted, Flushing
  <2>6. /\ Rising(Content(p)) /\ Content(p) \in Seq(Int)
        /\ ToSet(Content(p)) = ToSet(procs[p].seen.content) \cup ToSet(procs[p].text)
    BY <2>5, JoinedRises, Joined DEF Content
  <2>7. /\ Rising(content) /\ Rising(rest) /\ Behind(content, rest)
        /\ ToSet(content) \subseteq ToSet(procs[p].seen.content) \cup ToSet(procs[p].text)
    BY <2>6, CutRises, Cut
  <2>8. ToSet(rest) \subseteq ToSet(procs[p].text)
    <3>1. Len(procs[p].seen.content) <= Cap
      BY <1>11, <1>c DEF FlushRecords, Direct, Plain
    <3> QED
      BY <2>5, <3>1, RestOfSecond DEF Content
  <2> HIDE DEF v, rest, content
  <2>9. "check" \notin Flushing /\ "spill" \notin Flushing /\ "record" \in Emptying
    BY DEF Flushing, Emptying
  <2>10. WillSettle(session'.content)
    BY <1>a, <2>1, <2>2, <2>3, <2>4, <2>5, <2>7, RecordSettles DEF Order
  <2>11. Moves(p)
    BY <2>1, <2>2, <2>3, <2>4, <2>8 DEF Moves, Takes, Gives
  <2>12. Cares(p)
    <3>1. ToSet(session'.content) \subseteq Around
      BY <1>a, <2>2, <2>7, AroundInt
    <3> QED
      BY <1>e, <2>1, <2>2, <2>3, <2>4, <2>7, <2>9, <2>10, <3>1 DEF Cares, Order, Sorted
  <2> QED
    BY <1>a, <1>f, <2>1, <2>2, <2>11, <2>12, MovesOrder
<1>12. ASSUME NEW p \in Proc, FlushChecks(p) PROVE Order'
  <2>1. /\ Order /\ procs[p] \in ProcType /\ procs[p].pc = "check"
        /\ UNCHANGED <<types, buffer, session, slack>>
    BY <1>12, <1>b, <1>c DEF FlushChecks, At
  <2>2. "check" \in Emptying /\ "unschedule" \notin Flushing
        /\ procs[p].ok \in BOOLEAN
    BY <2>1 DEF Emptying, Flushing, ProcType
  <2>3. CASE buffer = <<>>
    <3> DEFINE v == [procs[p] EXCEPT !.pc = "unschedule"]
    <3>1. procs' = [procs EXCEPT ![p] = v] /\ client' = client
      BY <1>12, <2>3 DEF FlushChecks, Goto, Become
    <3>2. v.text = procs[p].text /\ v.seen = procs[p].seen /\ v.piece = procs[p].piece
          /\ v.pc = "unschedule"
      BY <2>1 DEF ProcType
    <3> HIDE DEF v
    <3> QED
      BY <1>a, <1>e, <1>f, <2>1, <2>2, <3>1, <3>2, StillOrder
  <2>4. CASE buffer # <<>>
    BY <1>12, <1>g, <2>1, <2>2, <2>4 DEF FlushChecks
  <2> QED
    BY <2>3, <2>4
<1>13. ASSUME NEW p \in Proc, Unschedule(p) PROVE Order'
  <2>1. /\ Order /\ Direct /\ procs[p] \in ProcType /\ procs[p].pc = "unschedule"
        /\ UNCHANGED <<types, buffer, session, slack>>
    BY <1>13, <1>b, <1>d DEF Unschedule, At
  <2>2. "unschedule" \in Emptying /\ procs[p].ok \in BOOLEAN /\ procs[p].text = <<>>
    BY <2>1 DEF Emptying, ProcType, Direct, Plain
  <2> QED
    BY <1>13, <1>g, <2>1, <2>2 DEF Unschedule
<1>14. ASSUME NEW p \in Proc, Posts(p) PROVE Order'
  <2> DEFINE v == [procs[p] EXCEPT !.ts = Len(slack) + 1]
             text == First(Chunk(p))
             m == [type |-> PostedAs(p), text |-> text]
  <2>1. Order /\ procs[p] \in ProcType /\ procs[p].pc \in Posting
    BY <1>14, <1>b, <1>d DEF Posts
  <2>2. UNCHANGED <<types, buffer, session, client>> /\ slack' = Append(slack, m)
        /\ procs' = [procs EXCEPT ![p] = v]
    BY <1>14 DEF Posts, Become
  <2>3. v.text = procs[p].text /\ v.seen = procs[p].seen /\ v.piece = procs[p].piece
        /\ v.pc = procs[p].pc
    BY <2>1 DEF ProcType
  <2>4. Rising(text)
    <3>1. procs[p].text \in Seq(Int) /\ Rising(procs[p].text) /\ procs[p].piece \in Int
      BY <1>a, <2>1, AroundInt, ConstantTypes DEF Order, Sorted, ProcType
    <3>2. /\ Rising(First(procs[p].text)) /\ First(procs[p].text) \in Seq(Int)
          /\ Rising(<<procs[p].piece>>) /\ <<procs[p].piece>> \in Seq(Int)
      BY <3>1, CutRises, Cut, SingleRises
    <3>3. Rising(Chunk(p)) /\ Chunk(p) \in Seq(Int)
      BY <3>1, <3>2 DEF Chunk
    <3> QED
      BY <3>3, CutRises
  <2> HIDE DEF text
  <2>5. ASSUME NEW i \in DOMAIN slack' PROVE Rising(slack'[i].text)
    <3>1. (i \in DOMAIN slack /\ slack'[i] = slack[i]) \/ slack'[i] = m
      BY <1>a, <2>2, <2>5 DEF TypeOK
    <3>2. m.text = text
      OBVIOUS
    <3> QED
      BY <2>1, <2>4, <3>1, <3>2 DEF Order, Sorted
  <2> HIDE DEF v
  <2>6. Posting \cap Flushing = {} /\ {"update", "record"} \subseteq Flushing
        /\ Posting \subseteq Emptying
        /\ procs[p].pc # "schedule" /\ procs[p].pc # "idle"
    BY <2>1 DEF Flushing, Emptying, Posting
  <2> QED
    BY <1>a, <1>f, <2>1, <2>2, <2>3, <2>5, <2>6, StillOrder
<1>15. ASSUME NEW p \in Proc, PostFails(p) PROVE Order'
  <2>1. UNCHANGED <<types, session, slack>>
    BY <1>15 DEF PostFails
  <2>2. CASE At(p, "post")
    <3>1. /\ Answer(p, FALSE) /\ buffer' = buffer /\ upset \subseteq upset'
          /\ procs[p].pc = "post" /\ procs' = [procs EXCEPT ![p] = Idle]
      BY <1>15, <2>2 DEF PostFails, At, Answer, Become, Upset
    <3>2. Order
      BY <1>c, <3>1
    <3>3. Solo'
      BY <1>a, <3>1, <3>2, SoloAnswer, Working DEF Order
    <3> QED
      BY <1>a, <1>b, <1>e, <2>1, <3>1, <3>2, <3>3, StillOrder DEF Flushing
  <2>3. CASE At(p, "rescue")
    <3>1. upset \subseteq upset' /\ procs[p].pc = "rescue"
      BY <1>15, <2>3 DEF PostFails, At, Upset
    <3> QED
      BY <1>c, <3>1 DEF Direct, Plain
  <2>4. CASE At(p, "spill")
    <3> DEFINE v == [Done(p, "check") EXCEPT !.ok = FALSE]
    <3>1. /\ Requeue(procs[p].text) /\ Requeued(p, procs[p].text, scheduled)
          /\ client' = client
          /\ procs[p].pc = "spill" /\ procs' = [procs EXCEPT ![p] = v]
      BY <1>15, <2>4 DEF PostFails, At, Become
    <3>2. v.text = <<>> /\ v.seen = NoReply /\ v.piece = procs[p].piece /\ v.pc = "check"
      BY <1>a DEF Done, Idle
    <3> HIDE DEF v
    <3>3. "spill" \in Emptying /\ "check" \notin Flushing /\ upset \subseteq upset'
      BY <3>1 DEF Emptying, Flushing, Requeued
    <3>4. Solo'
      BY <1>c, <1>f, <3>1, <3>3
    <3> QED
      BY <1>h, <2>1, <3>1, <3>2, <3>3, <3>4
  <2> QED
    BY <1>15, <2>2, <2>3, <2>4 DEF PostFails
<1>16. ASSUME NEW p \in Proc, PostRecorded(p) PROVE Order'
  <2> DEFINE text == procs[p].text
  <2>1. /\ Order /\ Direct /\ procs[p] \in ProcType
        /\ UNCHANGED <<types, buffer, slack>>
        /\ session' = session \/ session'.content = Chunk(p)
    BY <1>16, <1>b, <1>c DEF PostRecorded
  <2>2. procs[p].pc \in {"post", "spill"}
    BY <1>16, <2>1 DEF PostRecorded, At, Direct, Plain
  <2>3. /\ text \in Seq(Int) /\ Rising(text) /\ procs[p].piece \in Int
        /\ Rising(First(text)) /\ Rising(Rest(text)) /\ Behind(First(text), Rest(text))
        /\ ToSet(text) = ToSet(First(text)) \cup ToSet(Rest(text))
    <3>1. text \in Seq(Int) /\ Rising(text)
      BY <1>a, <2>1, AroundInt DEF Order, Sorted
    <3>2. procs[p].piece \in Int
      BY <2>1, ConstantTypes DEF ProcType
    <3> HIDE DEF text
    <3> QED
      BY <3>1, <3>2, CutRises, Cut
  <2>4. procs[p].pc \in Emptying /\ procs[p].pc \notin {"schedule", "idle"}
        /\ {"update", "record"} \subseteq Flushing
        /\ {"check", "spill"} \cap Flushing = {}
    BY <2>2 DEF Emptying, Flushing
  \* A piece of a call, which is newer than all that is known.
  <2>5. CASE procs[p].pc = "post"
    <3>1. Answer(p, TRUE) /\ procs' = [procs EXCEPT ![p] = Idle]
      BY <1>16, <2>5 DEF PostRecorded, At, Answer, Become
    <3>2. procs'[p] = Idle /\ \A q \in Proc \ {p} : procs'[q] = procs[q]
      BY <1>a, <3>1, ProcStep
    <3>3. Solo'
      BY <1>a, <2>1, <2>4, <3>1, SoloAnswer, Working DEF Order
    <3>4. Moves(p)
      BY <1>b, <2>1, <2>4, <3>2, EmptyText DEF Moves, Takes, Gives
    <3>5. procs[p].piece # 0 /\ procs[p].piece = Newest /\ Open(p) /\ New(p) = {Newest}
      BY <1>a, <1>b, <2>1, <2>5, <3>2 DEF Shape, WellFormed, Order, Brought, Open, New
    <3>6. buffer = <<>>
      BY <2>1, <2>4, <3>5 DEF Order, Emptied
    <3>7. \A q \in Proc : Newest \notin ToSet(procs'[q].text)
      <4>1. \A q \in Proc : ToSet(procs'[q].text) \subseteq Around
        BY <1>a, <1>b, <3>2, AroundInt, EmptyText
      <4>2. Newest \notin Around
        BY <1>a, <2>1, <3>5, AroundInt DEF Order, Bounded
      <4> QED
        BY <4>1, <4>2
    <3>8. /\ ToSet(Chunk(p)) = {Newest} /\ Rising(Chunk(p))
      BY <2>3, <2>5, <3>5, SingleRises DEF Chunk, At
    <3>9. WillSettle(Chunk(p))
      BY <2>1, <3>6, <3>7, EmptyRises DEF WillSettle
    <3>10. Cares(p)
      BY <1>b, <1>e, <2>1, <2>4, <3>2, <3>5, <3>8, <3>9, EmptyRises
         DEF Cares, Order, Sorted, Flushing
    <3> QED
      BY <1>a, <2>1, <3>3, <3>4, <3>10, MovesOrder
  \* A part of what a flush had.
  <2>6. CASE procs[p].pc = "spill"
    <3> DEFINE rest == Rest(text)
               v == IF rest = <<>> THEN Done(p, "check")
                    ELSE [procs[p] EXCEPT !.text = rest, !.ts = 0]
    <3>1. procs' = [procs EXCEPT ![p] = v] /\ client' = client
      BY <1>16, <2>6 DEF PostRecorded, At, Become
    <3>2. procs'[p] = v /\ \A q \in Proc \ {p} : procs'[q] = procs[q]
      BY <1>a, <3>1, ProcStep
    <3>3. /\ v.text = rest /\ v.piece = procs[p].piece /\ v.seen \in {NoReply, procs[p].seen}
          /\ v.pc \in {"check", "spill"}
      <4>1. CASE rest = <<>>
        BY <1>a, <4>1, DoneLeaves DEF PC
      <4>2. CASE rest # <<>>
        BY <2>1, <2>6, <4>2 DEF ProcType
      <4> QED
        BY <4>1, <4>2
    <3> HIDE DEF v
    <3>4. Chunk(p) = First(text)
      BY <2>6 DEF Chunk, At
    <3> HIDE DEF rest
    <3>5. ToSet(rest) \subseteq ToSet(text) /\ Rising(rest) /\ Behind(Chunk(p), rest)
          /\ Rising(Chunk(p)) /\ ToSet(Chunk(p)) \subseteq ToSet(text)
      BY <2>3, <3>4 DEF rest
    <3>6. Moves(p)
      BY <2>1, <2>4, <3>2, <3>3, <3>5 DEF Moves, Takes, Gives
    <3>7. WillSettle(Chunk(p))
      <4>1. ToSet(Chunk(p)) \subseteq ToSet(<<>>) \cup ToSet(procs[p].text)
        BY <3>5
      <4> QED
        BY <1>a, <2>1, <3>2, <3>3, <3>5, <4>1, RecordSettles DEF Order
    <3>8. ToSet(Chunk(p)) \subseteq Around
      BY <1>a, <3>5, AroundInt
    <3>9. Cares(p)
      BY <1>e, <2>1, <2>4, <3>2, <3>3, <3>5, <3>7, <3>8 DEF Cares, Order, Sorted
    <3> QED
      BY <1>a, <1>f, <2>1, <2>4, <3>1, <3>6, <3>9, MovesOrder
  <2> QED
    BY <2>2, <2>5, <2>6
<1>17. ASSUME NEW p \in Proc, AppendToBuffer(p) PROVE Order'
  <2> DEFINE v == [procs[p] EXCEPT !.pc = "schedule"]
             piece == procs[p].piece
  <2>1. Order /\ procs[p] \in ProcType /\ procs[p].pc = "append"
        /\ UNCHANGED <<types, session, slack, client>>
        /\ procs' = [procs EXCEPT ![p] = v] /\ buffer' = Append(buffer, piece)
    BY <1>17, <1>b, <1>c DEF AppendToBuffer, At, Goto, Become
  <2>2. v.text = procs[p].text /\ v.seen = procs[p].seen /\ v.piece = piece
        /\ v.pc = "schedule"
    BY <2>1 DEF ProcType
  <2> HIDE DEF v
  <2>3. piece # 0 /\ piece = Newest /\ Newest \in Nat
    BY <1>a, <2>1, AroundInt DEF Shape, WellFormed, Order, Brought
  <2>4. procs'[p] = v /\ \A q \in Proc \ {p} : procs'[q] = procs[q]
    BY <1>a, <2>1, ProcStep
  <2>5. Open(p) /\ New(p) = {Newest}
    BY <2>1, <2>2, <2>3, <2>4 DEF Open, New
  <2>6. \A y \in ToSet(buffer) : y < piece
    BY <1>a, <2>1, <2>3, <2>5, AroundInt DEF Order, Bounded
  <2>7. Rising(buffer') /\ ToSet(buffer') = ToSet(buffer) \cup {Newest}
    <3>1. buffer \in Seq(Int) /\ Rising(buffer) /\ piece \in Int
      BY <1>a, <2>1, <2>3, AroundInt DEF Order, Sorted
    <3> HIDE DEF piece
    <3> QED
      BY <2>1, <2>3, <2>6, <3>1, AppendRises
  <2>8. Moves(p)
    BY <2>1, <2>2, <2>4, <2>5, <2>7 DEF Moves, Takes, Gives
  <2>9. "schedule" \notin Emptying \cup Flushing \cup {"idle"}
        /\ {"update", "record"} \subseteq Flushing /\ procs[p].pc # "idle"
    BY <2>1 DEF Emptying, Flushing
  <2>10. Cares(p)
    BY <1>e, <2>1, <2>2, <2>4, <2>7, <2>9 DEF Cares, Order, Sorted
  <2> QED
    BY <1>a, <1>f, <2>1, <2>8, <2>9, <2>10, MovesOrder
<1>18. ASSUME NEW p \in Proc, Schedule(p) PROVE Order'
  <2>1. Order /\ procs[p].pc = "schedule" /\ UNCHANGED <<types, buffer, session, slack>>
    BY <1>18, <1>c DEF Schedule, At
  <2>2. CASE Answer(p, TRUE)
    <3>1. procs' = [procs EXCEPT ![p] = Idle]
      BY <2>2 DEF Answer, Become
    <3>2. Solo'
      BY <1>a, <2>1, <2>2, SoloAnswer, Working DEF Order
    <3> QED
      BY <1>a, <1>b, <1>e, <2>1, <3>1, <3>2, StillOrder DEF Flushing
  <2>3. CASE Become(p, [Idle EXCEPT !.pc = "read"]) /\ UNCHANGED client
    <3> DEFINE v == [Idle EXCEPT !.pc = "read"]
    <3>1. procs' = [procs EXCEPT ![p] = v] /\ client' = client
      BY <2>3 DEF Become
    <3>2. v.text = <<>> /\ v.seen = NoReply /\ v.piece = 0 /\ v.pc = "read"
          /\ "read" \notin Flushing
      BY DEF Idle, Flushing
    <3> HIDE DEF v
    <3> QED
      BY <1>a, <1>e, <1>f, <2>1, <3>1, <3>2, StillOrder
  <2> QED
    BY <1>18, <2>2, <2>3 DEF Schedule
<1>19. ASSUME NEW p \in Proc, Discard(p) PROVE Order'
  <2> DEFINE text == IF procs[p].piece # 0 THEN buffer ELSE <<>>
             v == [procs[p] EXCEPT !.pc = "unschedule", !.text = text]
  <2>1. Order /\ procs[p] \in ProcType /\ procs[p].pc = "discard"
        /\ UNCHANGED <<types, session, slack, client>>
        /\ procs' = [procs EXCEPT ![p] = v] /\ buffer' = <<>>
    BY <1>19, <1>b, <1>d DEF Discard, At, Become
  <2>2. v.text = text /\ v.seen = procs[p].seen /\ v.piece = procs[p].piece
        /\ v.pc = "unschedule"
    BY <2>1 DEF ProcType
  <2>3. Rising(text) /\ ToSet(text) \subseteq ToSet(buffer)
    BY <2>1, EmptyRises, EmptyText DEF Order, Sorted
  <2> HIDE DEF v, text
  <2>4. procs'[p] = v /\ \A q \in Proc \ {p} : procs'[q] = procs[q]
    BY <1>a, <2>1, ProcStep
  <2>5. Moves(p)
    BY <2>1, <2>2, <2>3, <2>4, EmptyText DEF Moves, Takes, Gives
  <2>6. "unschedule" \notin Flushing /\ {"update", "record"} \subseteq Flushing
    BY DEF Flushing
  <2>7. Cares(p)
    BY <1>e, <2>1, <2>2, <2>3, <2>4, <2>6, EmptyRises DEF Cares
  <2> QED
    BY <1>a, <1>f, <2>1, <2>5, <2>7, MovesOrder
<1>20. CASE SayInVain
  <2>1. Order
    BY <1>20, <1>c DEF SayInVain
  <2>2. Solo'
    BY <1>20, <2>1 DEF SayInVain, Order, Solo
  <2> QED
    BY <1>20, <1>a, <2>1, <2>2, SaysOrder DEF SayInVain
<1>21. CASE TimeOut
  BY <1>21, <1>d DEF TimeOut
<1>22. CASE Crash
  <2>1. /\ Order /\ UNCHANGED <<types, buffer, session, slack>>
        /\ procs' = [q \in Proc |-> Idle]
    BY <1>22, <1>d DEF Crash
  <2>2. \A q \in Proc : procs'[q] = Idle /\ Idle.seen.content = <<>>
    BY <1>b, <2>1, IdleLeaves
  <2>3. Newest' = Newest /\ session'.content = session.content
    BY <2>1 DEF Newest
  <2>4. Around' \subseteq Around
    <3>1. Around' = ToSet(session'.content) \cup ToSet(buffer')
            \cup UNION {ToSet(procs'[q].text) \cup ToSet(procs'[q].seen.content) : q \in Proc}
      BY DEF Around, ToSet
    <3>2. UNION {ToSet(procs'[q].text) \cup ToSet(procs'[q].seen.content) : q \in Proc} = {}
      BY <1>b, <2>2, EmptyText
    <3> QED
      BY <1>a, <2>1, <2>3, <3>1, <3>2, AroundInt
  <2>5. Solo' /\ Brought' /\ Emptied'
    BY <1>b, <2>2 DEF Solo, Brought, Emptied
  <2>6. Bounded'
    BY <1>b, <2>1, <2>2, <2>3, <2>4 DEF Order, Bounded, Open
  <2>7. Sorted'
    <3>1. \A q \in Proc : Rising(procs'[q].text) /\ Rising(procs'[q].seen.content)
      BY <1>b, <2>2, EmptyRises
    <3> QED
      BY <2>1, <3>1 DEF Order, Sorted, Rising
  <2>8. InTurn'
    <3>1. \A q \in Proc : procs'[q].text = <<>> /\ ToSet(procs'[q].text) = {}
      BY <1>b, <2>2, EmptyText
    <3> QED
      BY <3>1 DEF InTurn, Behind, ToSet
  <2>9. Bases'
    <3>1. \A q \in Proc : Newest \notin ToSet(procs'[q].text)
      BY <1>b, <2>2, EmptyText
    <3>2. \A q \in Proc : ~Fresh(q)'
      BY <2>3, <3>1 DEF Fresh, ToSet
    <3>3. Settled(session.content)'
      BY <2>1, <3>2 DEF Order, Bases, Settled, Behind, ToSet
    <3>4. \A q \in Proc : procs'[q].pc \notin Flushing \cup {"update", "record"}
      BY <1>b, <2>2 DEF Flushing
    <3> QED
      BY <3>3, <3>4 DEF Bases
  <2> QED
    BY <2>5, <2>6, <2>7, <2>8, <2>9 DEF Order
<1>23. CASE GateOpens
  <2>1. Order
    BY <1>23, <1>c DEF GateOpens
  <2> QED
    BY <1>23, <2>1 DEF GateOpens, Order, Solo, Brought, Bounded, Emptied, Sorted, InTurn, Bases,
       Around, Settled, Fresh, Open, Newest, Behind, Rising, ToSet
<1>24. ASSUME NEW p \in Proc, CallFails(p) PROVE Order'
  <2>1. /\ Order /\ Answer(p, FALSE) /\ procs' = [procs EXCEPT ![p] = Idle]
        /\ UNCHANGED <<types, buffer, session, slack>> /\ procs[p].pc # "idle"
    BY <1>24, <1>c DEF CallFails, Answer, Become
  <2>2. Solo'
    BY <1>a, <2>1, SoloAnswer, Working DEF Order
  <2> QED
    BY <1>a, <1>b, <1>e, <2>1, <2>2, StillOrder DEF Flushing
<1> QED
  BY <1>0, <1>1, <1>2, <1>3, <1>4, <1>5, <1>6, <1>7, <1>8, <1>9, <1>10, <1>11,
     <1>12, <1>13, <1>14, <1>15, <1>16, <1>17, <1>18, <1>19, <1>20, <1>21, <1>22,
     <1>23, <1>24 DEF Next, Work, Flush, Reply

LEMMA DirectStep ==
  ASSUME Typed, Typed', Orderly => Order /\ Direct, [Next]_vars, Orderly'
  PROVE  Direct'
<1>a. TypeOK /\ Shape /\ TypeOK' /\ procs \in [Proc -> ProcType]
      /\ Call \subseteq Proc /\ Manager \in Proc /\ 0 <= Cap
  BY ConstantTypes, SMTT(40) DEF Typed, TypeOK, ProcType, PC, Proc
<1>b. Plain(Idle)
  BY <1>a, IdleLeaves DEF Plain
<1>c. ASSUME upset \subseteq upset' PROVE Order /\ Direct
  BY <1>c DEF Orderly
<1>d. ASSUME NEW what, NEW happens, Upset(what, happens)
      PROVE  /\ Order /\ Direct
             /\ what \in {"late", "overtaken"} => ~happens
  BY <1>c, <1>d DEF Upset, Orderly
<1>e. ASSUME Direct, NEW p \in Proc, NEW v, procs' = [procs EXCEPT ![p] = v],
             Plain(v), Len(session'.content) <= Cap
      PROVE  Direct'
  <2>1. \A q \in Proc : Plain(procs'[q])
    BY <1>a, <1>e, ProcStep DEF Direct
  <2> QED
    BY <1>e, <2>1 DEF Direct, Plain
<1>f. Direct /\ session' = session => Len(session'.content) <= Cap
  BY DEF Direct
\* A step that leaves session and text, and goes neither to a flush nor back.
<1>g. ASSUME Direct, NEW p \in Proc, NEW v, procs' = [procs EXCEPT ![p] = v],
             session' = session,
             v.text \in {<<>>, procs[p].text},
             v.piece \in {0, procs[p].piece}, v.ok \in {TRUE, procs[p].ok},
             v.seen \in {NoReply, procs[p].seen, session},
             v.pc \notin {"update", "record", "spill", "unschedule", "rescue", "discard"}
      PROVE  Direct'
  <2>1. Plain(procs[p]) /\ Len(session.content) <= Cap /\ Len(NoReply.content) <= Cap
    BY <1>a, <1>g, IdleLeaves DEF Direct
  <2>2. Plain(v)
    BY <1>g, <2>1 DEF Plain
  <2> QED
    BY <1>e, <1>f, <1>g, <2>2
\* The end of a flush, and its failure, which is not that of a call.
<1>h. ASSUME Direct, NEW p \in Proc, NEW ok \in BOOLEAN, Return(p, ok), session' = session,
             procs[p].piece # 0 => ok
      PROVE  Direct'
  <2>1. CASE procs[p].piece = 0
    <3>1. procs' = [procs EXCEPT ![p] = Idle]
      BY <1>h, <2>1 DEF Return, Answer, Become
    <3> QED
      BY <1>b, <1>e, <1>f, <1>h, <3>1
  <2>2. CASE procs[p].piece # 0
    <3> DEFINE v == [Done(p, "post") EXCEPT !.took = <<>>, !.ok = TRUE]
    <3>1. procs' = [procs EXCEPT ![p] = v]
      BY <1>h, <2>2 DEF Return, Become
    <3>2. /\ v.text = <<>> /\ v.seen = NoReply /\ v.piece = procs[p].piece
          /\ v.pc = "post" /\ v.ok = TRUE
      BY <1>a DEF Done, Idle
    <3> HIDE DEF v
    <3> QED
      BY <1>g, <1>h, <3>1, <3>2
  <2> QED
    BY <2>1, <2>2
<1>i. ASSUME NEW p \in Proc, procs[p].pc \in {"update", "record", "spill"}, NEW flush,
             Requeued(p, procs[p].text, flush)
      PROVE  Order /\ Direct /\ procs[p].piece = 0
  <2> DEFINE text == procs[p].text
  <2>1. Order /\ Direct /\ ~(Last(text) < Newest)
    BY <1>c, <1>i DEF Requeued, Orderly, Newest
  <2>2. text # <<>> /\ text \in Seq(Int)
    BY <1>a, <1>i, <2>1, AroundInt DEF Direct, Plain
  <2>3. Last(text) \in Around /\ Last(text) \in Int /\ Newest \in Nat
    <3>1. Last(text) \in ToSet(text)
      BY <2>2, LastIn
    <3> QED
      BY <1>a, <3>1, AroundInt
  <2>4. ~Open(p)
    BY <2>1, <2>3 DEF Order, Bounded
  <2> QED
    BY <1>i, <2>1, <2>4 DEF Open
<1>0. CASE UNCHANGED vars
  BY <1>0, <1>c DEF vars, Direct, Plain
<1>1. ASSUME NEW c \in Call, SayNew(c) PROVE Direct'
  <2> DEFINE v == [Idle EXCEPT !.pc = "post", !.piece = Len(types')]
  <2>1. Direct /\ procs' = [procs EXCEPT ![c] = v] /\ session' = session
    BY <1>1, <1>d DEF SayNew, Become
  <2>2. Plain(v)
    BY <1>b DEF Plain, Idle
  <2> QED
    BY <1>a, <1>e, <1>f, <2>1, <2>2
<1>2. ASSUME NEW c \in Call, SayMore(c) PROVE Direct'
  <2>1. PICK pc \in {"append", "read"}, was \in Type :
          procs' = [procs EXCEPT ![c] = [Idle EXCEPT !.pc = pc, !.piece = Len(types'),
                                                     !.was = was]]
    BY <1>2, <1>a DEF SayMore, Become, TypeOK, Reply_
  <2>2. Plain([Idle EXCEPT !.pc = pc, !.piece = Len(types'), !.was = was])
    BY <1>b DEF Plain, Idle
  <2> QED
    BY <1>2, <1>a, <1>c, <1>e, <1>f, <2>1, <2>2 DEF SayMore
<1>3. ASSUME NEW c \in Call, EndTurn(c) PROVE Direct'
  <2>1. Plain([Idle EXCEPT !.pc = "discard"])
    BY <1>b DEF Plain, Idle
  <2> QED
    BY <1>3, <1>a, <1>c, <1>e, <1>f, <2>1 DEF EndTurn, Become
<1>4. CASE ManagerFlushes
  <2>1. Plain([Idle EXCEPT !.pc = "read"])
    BY <1>b DEF Plain, Idle
  <2> QED
    BY <1>4, <1>a, <1>c, <1>e, <1>f, <2>1 DEF ManagerFlushes, Become
<1>5. ASSUME NEW p \in Proc, FlushReads(p) PROVE Direct'
  <2> DEFINE v == [procs[p] EXCEPT !.pc = "look", !.seen = session]
  <2>1. Direct /\ procs' = [procs EXCEPT ![p] = v] /\ session' = session
    BY <1>5, <1>c DEF FlushReads, Become
  <2>2. v.text = procs[p].text /\ v.seen = session /\ v.piece = procs[p].piece /\ v.pc = "look"
        /\ v.ok = procs[p].ok
    BY <1>a DEF ProcType
  <2> HIDE DEF v
  <2> QED
    BY <1>g, <2>1, <2>2
\* What outlives a flush.
<1>j. ASSUME Direct, NEW p \in Proc, NEW pc \in {"unschedule", "check", "post"}
      PROVE  Plain(Done(p, pc))
  <2> DEFINE v == Done(p, pc)
  <2>1. /\ v.text = <<>> /\ v.seen = NoReply /\ v.piece = procs[p].piece /\ v.pc = pc
        /\ v.ok = procs[p].ok
    BY DEF Done, Idle
  <2> HIDE DEF v
  <2>2. Plain(procs[p])
    BY <1>j DEF Direct
  <2>3. Len(v.seen.content) <= Cap
    BY <1>a, <2>1, IdleLeaves
  <2>4. Plain(v)
    BY <1>j, <2>1, <2>2, <2>3 DEF Plain
  <2> QED
    BY <2>4 DEF v
<1>6. ASSUME NEW p \in Proc, FlushLooks(p) PROVE Direct'
  <2>1. Direct /\ session' = session
    BY <1>6, <1>c DEF FlushLooks
  <2>2. CASE buffer = <<>>
    BY <1>6, <1>e, <1>f, <1>j, <2>1, <2>2 DEF FlushLooks, Become
  <2>3. CASE buffer # <<>>
    <3> DEFINE v == [procs[p] EXCEPT !.pc = "take", !.type = bufferType]
    <3>1. procs' = [procs EXCEPT ![p] = v]
      BY <1>6, <2>3 DEF FlushLooks, Become
    <3>2. v.text = procs[p].text /\ v.seen = procs[p].seen /\ v.piece = procs[p].piece
          /\ v.pc = "take" /\ v.ok = procs[p].ok
      BY <1>a DEF ProcType
    <3> HIDE DEF v
    <3> QED
      BY <1>g, <2>1, <3>1, <3>2
  <2> QED
    BY <2>2, <2>3
<1>7. ASSUME NEW p \in Proc, FlushTakes(p) PROVE Direct'
  <2>1. Direct /\ session' = session /\ procs[p].pc = "take" /\ procs[p] \in ProcType
    BY <1>7, <1>a, <1>c DEF FlushTakes, At
  <2>2. CASE buffer = <<>>
    BY <1>7, <1>e, <1>f, <1>j, <2>1, <2>2 DEF FlushTakes, Become
  <2>3. CASE buffer # <<>>
    <3> DEFINE v == [procs[p] EXCEPT !.pc = "update", !.text = buffer, !.took = buffer]
    <3>1. procs' = [procs EXCEPT ![p] = v]
      BY <1>7, <2>3 DEF FlushTakes, Become
    <3>2. v.text = buffer /\ v.seen = procs[p].seen /\ v.piece = procs[p].piece
          /\ v.pc = "update" /\ v.ok = procs[p].ok
      BY <2>1 DEF ProcType
    <3> HIDE DEF v
    <3>3. Plain(v)
      BY <2>1, <2>3, <3>2 DEF Direct, Plain
    <3> QED
      BY <1>e, <1>f, <2>1, <3>1, <3>3
  <2> QED
    BY <2>2, <2>3
<1>8. ASSUME NEW p \in Proc, FlushUpdates(p) PROVE Direct'
  <2> DEFINE v == [procs[p] EXCEPT !.pc = "record"]
  <2>1. Direct /\ session' = session /\ procs[p].pc = "update" /\ procs[p] \in ProcType
        /\ procs' = [procs EXCEPT ![p] = v]
    BY <1>8, <1>a, <1>d DEF FlushUpdates, At, Goto, Become
  <2>2. v.text = procs[p].text /\ v.seen = procs[p].seen /\ v.piece = procs[p].piece
        /\ v.pc = "record" /\ v.ok = procs[p].ok
    BY <2>1 DEF ProcType
  <2> HIDE DEF v
  <2>3. Plain(v)
    BY <2>1, <2>2 DEF Direct, Plain
  <2> QED
    BY <1>e, <1>f, <2>1, <2>3
<1>9. ASSUME NEW p \in Proc, FlushDeferred(p) PROVE Direct'
  <2>1. procs[p].pc \in {"update", "record", "spill"}
    BY <1>9 DEF FlushDeferred, At
  <2>2. procs[p].took = procs[p].text
    BY <1>a, <2>1, <1>9 DEF FlushDeferred, At, Shape, WellFormed
  <2> QED
    BY <1>9, <1>h, <1>i, <2>1, <2>2 DEF FlushDeferred
<1>10. ASSUME NEW p \in Proc, FlushFails(p) PROVE Direct'
  <2>1. procs[p].took = procs[p].text /\ procs[p].pc \in {"update", "record", "spill"}
    BY <1>10, <1>a, Intact DEF FlushFails
  <2> QED
    BY <1>10, <1>h, <1>i, <2>1 DEF FlushFails
<1>11. ASSUME NEW p \in Proc, FlushRecords(p) PROVE Direct'
  <2> DEFINE rest == Rest(Content(p))
             w == [Done(p, "spill") EXCEPT !.text = rest, !.type = procs[p].type]
  <2>1. Direct /\ session'.content = First(Content(p))
        /\ procs' = [procs EXCEPT ![p] = IF rest = <<>> THEN Done(p, "check") ELSE w]
    BY <1>11, <1>c DEF FlushRecords, Become
  <2>2. Content(p) \in Seq(Piece)
    BY <1>a, TextTypes
  <2>3. Len(session'.content) <= Cap
    BY <2>1, <2>2, Cut
  <2>4. rest # <<>> => Plain(w)
    <3>1. /\ w.text = rest /\ w.seen = NoReply /\ w.piece = procs[p].piece
          /\ w.pc = "spill" /\ w.ok = procs[p].ok
      BY DEF Done, Idle
    <3>2. Plain(procs[p]) /\ Len(w.seen.content) <= Cap
      BY <1>a, <2>1, <3>1, IdleLeaves DEF Direct
    <3> HIDE DEF w, rest
    <3> QED
      BY <3>1, <3>2 DEF Plain
  <2> HIDE DEF w, rest
  <2> QED
    BY <1>e, <1>j, <2>1, <2>3, <2>4
<1>12. ASSUME NEW p \in Proc, FlushChecks(p) PROVE Direct'
  <2>1. Direct /\ session' = session /\ procs[p].pc = "check" /\ procs[p] \in ProcType
        /\ procs[p].text = <<>> /\ (procs[p].piece # 0 => procs[p].ok)
    BY <1>12, <1>a, <1>c, Working DEF FlushChecks, At, Direct, Plain
  <2>2. CASE buffer = <<>>
    <3> DEFINE v == [procs[p] EXCEPT !.pc = "unschedule"]
    <3>1. procs' = [procs EXCEPT ![p] = v]
      BY <1>12, <2>2 DEF FlushChecks, Goto, Become
    <3>2. v.text = procs[p].text /\ v.seen = procs[p].seen /\ v.piece = procs[p].piece
          /\ v.pc = "unschedule" /\ v.ok = procs[p].ok
      BY <2>1 DEF ProcType
    <3> HIDE DEF v
    <3>3. Plain(v)
      BY <2>1, <3>2 DEF Direct, Plain
    <3> QED
      BY <1>e, <1>f, <2>1, <3>1, <3>3
  <2>3. CASE buffer # <<>>
    BY <1>12, <1>h, <2>1, <2>3 DEF FlushChecks, ProcType
  <2> QED
    BY <2>2, <2>3
<1>13. ASSUME NEW p \in Proc, Unschedule(p) PROVE Direct'
  <2>1. Direct /\ session' = session /\ procs[p].pc = "unschedule" /\ procs[p] \in ProcType
        /\ procs[p].text = <<>> /\ (procs[p].piece # 0 => procs[p].ok)
    BY <1>13, <1>a, <1>d DEF Unschedule, At, Direct, Plain
  <2> QED
    BY <1>13, <1>h, <2>1 DEF Unschedule, ProcType
<1>14. ASSUME NEW p \in Proc, Posts(p) PROVE Direct'
  <2> DEFINE v == [procs[p] EXCEPT !.ts = Len(slack) + 1]
  <2>1. Direct /\ session' = session /\ procs[p] \in ProcType
        /\ procs' = [procs EXCEPT ![p] = v]
    BY <1>14, <1>a, <1>d DEF Posts, Become
  <2>2. v.text = procs[p].text /\ v.seen = procs[p].seen /\ v.piece = procs[p].piece
        /\ v.pc = procs[p].pc /\ v.ok = procs[p].ok
    BY <2>1 DEF ProcType
  <2> HIDE DEF v
  <2>3. Plain(v)
    BY <2>1, <2>2 DEF Direct, Plain
  <2> QED
    BY <1>e, <1>f, <2>1, <2>3
<1>15. ASSUME NEW p \in Proc, PostFails(p) PROVE Direct'
  <2>1. session' = session
    BY <1>15 DEF PostFails
  <2>2. CASE At(p, "post")
    <3>1. upset \subseteq upset' /\ procs' = [procs EXCEPT ![p] = Idle]
      BY <1>15, <2>2 DEF PostFails, At, Answer, Become, Upset
    <3> QED
      BY <1>b, <1>c, <1>e, <1>f, <2>1, <3>1
  <2>3. CASE At(p, "rescue")
    <3>1. upset \subseteq upset' /\ procs[p].pc = "rescue"
      BY <1>15, <2>3 DEF PostFails, At, Upset
    <3> QED
      BY <1>c, <3>1 DEF Direct, Plain
  <2>4. CASE At(p, "spill")
    <3> DEFINE v == [Done(p, "check") EXCEPT !.ok = FALSE]
    <3>1. /\ Requeued(p, procs[p].text, scheduled) /\ procs[p].pc = "spill"
          /\ procs' = [procs EXCEPT ![p] = v]
      BY <1>15, <2>4 DEF PostFails, At, Become
    <3>2. Direct /\ procs[p].piece = 0
      BY <1>i, <3>1
    <3>3. v.text = <<>> /\ v.seen = NoReply /\ v.piece = procs[p].piece /\ v.pc = "check"
      BY DEF Done, Idle
    <3> HIDE DEF v
    <3>4. Plain(v)
      BY <1>a, <3>2, <3>3, IdleLeaves DEF Plain
    <3> QED
      BY <1>e, <1>f, <2>1, <3>1, <3>2, <3>4
  <2> QED
    BY <1>15, <2>2, <2>3, <2>4 DEF PostFails
<1>16. ASSUME NEW p \in Proc, PostRecorded(p) PROVE Direct'
  <2> DEFINE text == procs[p].text
  <2>1. /\ Direct /\ procs[p] \in ProcType
        /\ session' = session \/ session'.content = Chunk(p)
    BY <1>16, <1>a, <1>c DEF PostRecorded
  <2>2. procs[p].pc \in {"post", "spill"}
    BY <1>16, <2>1 DEF PostRecorded, At, Direct, Plain
  <2>3. Len(session'.content) <= Cap
    <3>1. text \in Seq(Int) /\ Len(<<procs[p].piece>>) = 1 /\ Cap \in Nat \ {0}
      BY <1>a, AroundInt, ConstantTypes
    <3>2. Len(First(text)) <= Cap
      BY <3>1, Cut
    <3>3. Len(Chunk(p)) <= Cap
      BY <2>2, <3>1, <3>2 DEF Chunk, At
    <3> QED
      BY <1>f, <2>1, <3>3
  <2>4. CASE procs[p].pc = "post"
    <3>1. procs' = [procs EXCEPT ![p] = Idle]
      BY <1>16, <2>4 DEF PostRecorded, At, Answer, Become
    <3> QED
      BY <1>b, <1>e, <2>1, <2>3, <3>1
  <2>5. CASE procs[p].pc = "spill"
    <3> DEFINE rest == Rest(text)
               w == [procs[p] EXCEPT !.text = rest, !.ts = 0]
    <3>1. procs' = [procs EXCEPT ![p] = IF rest = <<>> THEN Done(p, "check") ELSE w]
      BY <1>16, <2>5 DEF PostRecorded, At, Become
    <3>2. /\ w.text = rest /\ w.seen = procs[p].seen /\ w.piece = procs[p].piece
          /\ w.pc = "spill" /\ w.ok = procs[p].ok
      BY <2>1, <2>5 DEF ProcType
    <3> HIDE DEF w, rest
    <3>3. rest # <<>> => Plain(w)
      BY <2>1, <3>2 DEF Direct, Plain
    <3> QED
      BY <1>e, <1>j, <2>1, <2>3, <3>1, <3>3
  <2> QED
    BY <2>2, <2>4, <2>5
<1>17. ASSUME NEW p \in Proc, AppendToBuffer(p) PROVE Direct'
  <2> DEFINE v == [procs[p] EXCEPT !.pc = "schedule"]
  <2>1. Direct /\ session' = session /\ procs[p] \in ProcType
        /\ procs' = [procs EXCEPT ![p] = v]
    BY <1>17, <1>a, <1>c DEF AppendToBuffer, Goto, Become
  <2>2. v.text = procs[p].text /\ v.seen = procs[p].seen /\ v.piece = procs[p].piece
        /\ v.pc = "schedule" /\ v.ok = procs[p].ok
    BY <2>1 DEF ProcType
  <2> HIDE DEF v
  <2> QED
    BY <1>g, <2>1, <2>2
<1>18. ASSUME NEW p \in Proc, Schedule(p) PROVE Direct'
  <2>1. Direct /\ session' = session
    BY <1>18, <1>c DEF Schedule
  <2>2. Plain([Idle EXCEPT !.pc = "read"])
    BY <1>b DEF Plain, Idle
  <2> QED
    BY <1>18, <1>b, <1>e, <1>f, <2>1, <2>2 DEF Schedule, Answer, Become
<1>19. ASSUME NEW p \in Proc, Discard(p) PROVE Direct'
  <2> DEFINE text == IF procs[p].piece # 0 THEN buffer ELSE <<>>
             v == [procs[p] EXCEPT !.pc = "unschedule", !.text = text]
  <2>1. Direct /\ session' = session /\ procs[p] \in ProcType
        /\ procs[p].pc = "discard" /\ procs' = [procs EXCEPT ![p] = v]
    BY <1>19, <1>a, <1>d DEF Discard, At, Become
  <2>2. procs[p].piece = 0
    BY <2>1 DEF Direct, Plain
  <2>3. v.text = <<>> /\ v.seen = procs[p].seen /\ v.piece = 0 /\ v.pc = "unschedule"
    BY <2>1, <2>2 DEF ProcType
  <2> HIDE DEF v
  <2>4. Plain(v)
    BY <2>1, <2>3 DEF Direct, Plain
  <2> QED
    BY <1>e, <1>f, <2>1, <2>4
<1>20. CASE SayInVain
  BY <1>20, <1>c DEF SayInVain, Direct, Plain
<1>21. CASE TimeOut
  BY <1>21, <1>d DEF TimeOut
<1>22. CASE Crash
  <2>1. Direct /\ session' = session /\ procs' = [q \in Proc |-> Idle]
    BY <1>22, <1>d DEF Crash
  <2>2. \A q \in Proc : Plain(procs'[q])
    BY <1>b, <2>1
  <2> QED
    BY <1>f, <2>1, <2>2 DEF Direct, Plain
<1>23. CASE GateOpens
  BY <1>23, <1>c DEF GateOpens, Direct, Plain
<1>24. ASSUME NEW p \in Proc, CallFails(p) PROVE Direct'
  <2>1. Direct /\ session' = session /\ procs' = [procs EXCEPT ![p] = Idle]
    BY <1>24, <1>c DEF CallFails, Answer, Become
  <2> QED
    BY <1>b, <1>e, <1>f, <2>1
<1> QED
  BY <1>0, <1>1, <1>2, <1>3, <1>4, <1>5, <1>6, <1>7, <1>8, <1>9, <1>10, <1>11,
     <1>12, <1>13, <1>14, <1>15, <1>16, <1>17, <1>18, <1>19, <1>20, <1>21, <1>22,
     <1>23, <1>24 DEF Next, Work, Flush, Reply

-----------------------------------------------------------------------------
(* The theorem                                                             *)

OrderInv == Typed /\ (Orderly => Order /\ Direct)

LEMMA OrderInit == Init => Order /\ Direct
<1> SUFFICES ASSUME Init PROVE Order /\ Direct
  OBVIOUS
<1>1. /\ session = NoReply /\ session.content = <<>> /\ buffer = <<>> /\ slack = <<>>
      /\ Idle.text = <<>> /\ Idle.piece = 0 /\ Idle.pc = "idle" /\ Idle.seen.content = <<>>
      /\ \A p \in Proc : procs[p] = Idle
      /\ Call \subseteq Proc /\ ToSet(<<>>) = {} /\ 0 <= Cap
  BY IdleLeaves, EmptyText, ConstantTypes DEF Init, Proc
<1>2. Around = {}
  BY <1>1 DEF Around
<1>3. Solo /\ Brought /\ Bounded /\ Emptied
  BY <1>1, <1>2 DEF Solo, Brought, Bounded, Emptied
<1>4. Sorted /\ InTurn /\ Bases
  BY <1>1, EmptyRises DEF Sorted, InTurn, Bases, Settled, Fresh, Flushing
<1>5. Direct
  BY <1>1 DEF Direct, Plain
<1> QED
  BY <1>3, <1>4, <1>5 DEF Order

\* A message tells its pieces in the order the agent said them, whatever fails,
\* is deferred, split or posted again, as long as no text went back behind a
\* newer one, or after Slack had shown it, and no reply was posted while an older
\* one was under way.
THEOREM PiecesInOrder == Spec => []InOrder
<1>1. Init => OrderInv
  BY TypedInit, OrderInit DEF OrderInv
<1>2. OrderInv /\ [Next]_vars => OrderInv'
  BY TypedStep, OrderStep, DirectStep DEF OrderInv
<1>3. OrderInv => InOrder
  BY DEF OrderInv, Orderly, Order, Sorted, Rising, InOrder
<1> QED
  BY <1>1, <1>2, <1>3, PTL DEF Spec
=============================================================================
