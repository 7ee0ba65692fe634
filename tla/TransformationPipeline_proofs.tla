-------------------- MODULE TransformationPipeline_proofs --------------------
(***************************************************************************)
(* Proofs, for any number of steps, records and interrupts, of             *)
(*   TypeCorrect          Spec => []TypeOK                                 *)
(*   RecordsArriveInOrder Spec => []StoredInOrder                          *)
(*   PipelineIsPipe       Spec => RecordsComeThrough                       *)
(*                                                                         *)
(* The queues and the hands of the threads are taken as one line of        *)
(* places.  Whatever a step does to it is one of three moves: a message    *)
(* goes on to the end of the next place, the first message of a place      *)
(* leaves the line, or a message joins it at the source.  A lemma about    *)
(* each shows that the line stays in order; the rest of the invariant is   *)
(* about which messages are on the line at all.                            *)
(***************************************************************************)
EXTENDS TransformationPipeline, SequenceTheorems, TLAPS

-----------------------------------------------------------------------------
(* Messages and places *)

\* A message is the stop or a record with a number.
LEMMA MessageType ==
  /\ Stop \in Message
  /\ \A m \in Message : m.rec \in Nat /\ (m # Stop => m.op = "add" /\ m.rec \in Rec)
  /\ \A m \in Message : m # Stop => m = Record(m.rec)
  /\ \A r \in Rec : /\ Record(r) \in Message /\ Record(r).rec = r /\ Record(r).op = "add"
                    /\ Record(r) # Stop
<1>1. Stop \in Message /\ Stop.rec = 0 /\ Stop.op = "stop"
  BY DEF Message, Stop
<1>2. ASSUME NEW r \in Rec
      PROVE  /\ Record(r) \in Message /\ Record(r).rec = r /\ Record(r).op = "add"
             /\ r \in Nat
  BY PipelineAssumption DEF Message, Record, Rec
<1>3. ASSUME NEW m \in Message, m # Stop
      PROVE  \E r \in Rec : m = Record(r)
  BY <1>3 DEF Message
<1>4. \A r \in Rec : Record(r) # Stop
  BY <1>1, <1>2
<1>5. QED
  BY <1>1, <1>2, <1>3, <1>4

\* The places of the queues and of the hands.
LEMMA PlacesOf ==
  /\ 0 \in Places /\ 2 * Steps \in Places
  /\ \A s \in Step : /\ 2 * s \in Places /\ 2 * s - 1 \in Places /\ 2 * s - 2 \in Places
                     /\ s \in 0..Steps /\ s - 1 \in 0..Steps
  /\ \A s \in 0..Steps : 2 * s \in Places
  /\ \A p \in Places : p \in Nat
BY PipelineAssumption DEF Places, Step

Lines == [Places -> Seq(Message)]

\* Each number is even or odd.
LEMMA Parity ==
  /\ \A s \in Nat : (2 * s) % 2 = 0 /\ (2 * s) \div 2 = s
  /\ \A s \in Nat \ {0} : (2 * s - 1) % 2 = 1 /\ ((2 * s - 1) + 1) \div 2 = s
  /\ \A p \in Places :
       \/ p % 2 = 0 /\ p \div 2 \in 0..Steps /\ p = 2 * (p \div 2)
       \/ p % 2 # 0 /\ (p + 1) \div 2 \in Step /\ p = 2 * ((p + 1) \div 2) - 1
<1>1. \A s \in Nat : (2 * s) % 2 = 0 /\ (2 * s) \div 2 = s
  OBVIOUS
<1>2. \A s \in Nat \ {0} : (2 * s - 1) % 2 = 1 /\ ((2 * s - 1) + 1) \div 2 = s
  OBVIOUS
<1>3. ASSUME NEW p \in Places
      PROVE  \/ p % 2 = 0 /\ p \div 2 \in 0..Steps /\ p = 2 * (p \div 2)
             \/ p % 2 # 0 /\ (p + 1) \div 2 \in Step /\ p = 2 * ((p + 1) \div 2) - 1
  <2>1. p \in Nat /\ p =< 2 * Steps /\ Steps \in Nat
    BY PipelineAssumption DEF Places
  <2>2. PICK k \in Nat : p = 2 * k \/ p = 2 * k + 1
    <3>1. \A n \in Nat : \E k \in Nat : n = 2 * k \/ n = 2 * k + 1
      <4>1. ASSUME NEW n \in Nat
            PROVE  n \div 2 \in Nat /\ (n = 2 * (n \div 2) \/ n = 2 * (n \div 2) + 1)
        OBVIOUS
      <4>2. QED
        BY <4>1
    <3>2. QED
      BY <2>1, <3>1
  <2>3. CASE p = 2 * k
    BY <2>1, <2>3, <1>1
  <2>4. CASE p = 2 * k + 1
    <3>1. k + 1 \in Nat \ {0} /\ p = 2 * (k + 1) - 1 /\ k + 1 =< Steps
      BY <2>1, <2>4
    <3>2. p % 2 = 1 /\ (p + 1) \div 2 = k + 1
      BY <3>1, <1>2
    <3>3. QED
      BY <2>1, <3>1, <3>2 DEF Step
  <2>5. QED
    BY <2>2, <2>3, <2>4
<1>4. QED
  BY <1>1, <1>2, <1>3

Queues == [0..Steps -> Seq(Message)]
Hands  == [Step -> {<<>>} \union {<<m>> : m \in Message}]

\* What a place holds.
LEMMA LineAt ==
  ASSUME NEW q \in Queues, NEW h \in Hands
  PROVE  /\ LineOf(q, h) \in Lines
         /\ \A s \in 0..Steps : LineOf(q, h)[2 * s] = q[s]
         /\ \A s \in Step : LineOf(q, h)[2 * s - 1] = h[s]
<1>1. \A s \in Step : h[s] \in Seq(Message)
  <2>1. \A m \in Message : <<m>> \in Seq(Message)
    OBVIOUS
  <2>2. <<>> \in Seq(Message)
    OBVIOUS
  <2>3. QED
    BY <2>1, <2>2 DEF Hands
<1>2. ASSUME NEW p \in Places
      PROVE  (IF p % 2 = 0 THEN q[p \div 2] ELSE h[(p + 1) \div 2]) \in Seq(Message)
  BY <1>1, Parity DEF Queues
<1>3. LineOf(q, h) \in Lines
  BY <1>2 DEF LineOf, Lines
<1>4. ASSUME NEW s \in 0..Steps
      PROVE  LineOf(q, h)[2 * s] = q[s]
  <2>1. s \in Nat
    OBVIOUS
  <2>2. QED
    BY <2>1, Parity, PlacesOf DEF LineOf
<1>5. ASSUME NEW s \in Step
      PROVE  LineOf(q, h)[2 * s - 1] = h[s]
  <2>1. s \in Nat \ {0}
    BY DEF Step
  <2>2. (2 * s - 1) % 2 = 1 /\ ((2 * s - 1) + 1) \div 2 = s /\ 2 * s - 1 \in Places
    BY <2>1, Parity, PlacesOf
  <2>3. QED
    BY <2>2 DEF LineOf
<1>6. QED
  BY <1>3, <1>4, <1>5

Changed(f, k, x) == [f EXCEPT ![k] = x]

\* Another queue is another place of the line.
LEMMA QueueChanges ==
  ASSUME NEW q \in Queues, NEW h \in Hands, NEW s \in 0..Steps, NEW x
  PROVE  LineOf(Changed(q, s, x), h) = Changed(LineOf(q, h), 2 * s, x)
<1> DEFINE r == Changed(q, s, x)
<1>1. s \in Nat /\ 2 * s \in Places /\ (2 * s) \div 2 = s
  BY Parity, PlacesOf
<1>2. ASSUME NEW p \in Places
      PROVE  (IF p % 2 = 0 THEN r[p \div 2] ELSE h[(p + 1) \div 2])
               = Changed(LineOf(q, h), 2 * s, x)[p]
  <2>1. CASE p = 2 * s
    BY <1>1, <2>1, Parity DEF LineOf, Changed, Queues
  <2>2. CASE p # 2 * s
    BY <1>1, <2>2, Parity DEF LineOf, Changed, Queues
  <2>3. QED
    BY <2>1, <2>2
<1>3. QED
  BY <1>2 DEF LineOf, Changed

\* So is another hand.
LEMMA HandChanges ==
  ASSUME NEW q \in Queues, NEW h \in Hands, NEW s \in Step, NEW x
  PROVE  LineOf(q, Changed(h, s, x)) = Changed(LineOf(q, h), 2 * s - 1, x)
<1> DEFINE r == Changed(h, s, x)
<1>1. s \in Nat \ {0}
  BY DEF Step
<1>2. /\ 2 * s - 1 \in Places
      /\ (2 * s - 1) % 2 = 1 /\ ((2 * s - 1) + 1) \div 2 = s
  BY <1>1, Parity, PlacesOf
<1>3. ASSUME NEW p \in Places
      PROVE  (IF p % 2 = 0 THEN q[p \div 2] ELSE r[(p + 1) \div 2])
               = Changed(LineOf(q, h), 2 * s - 1, x)[p]
  <2>1. CASE p = 2 * s - 1
    BY <1>2, <2>1, Parity DEF LineOf, Changed, Hands
  <2>2. CASE p # 2 * s - 1
    BY <1>2, <2>2, Parity DEF LineOf, Changed, Hands
  <2>3. QED
    BY <2>1, <2>2
<1>4. QED
  BY <1>3 DEF LineOf, Changed

-----------------------------------------------------------------------------
(* The moves *)

\* Without the first message of a place, and with another message at its end.
Without(c, p) == [c EXCEPT ![p] = Tail(c[p])]
With(c, p, m) == [c EXCEPT ![p] = Append(c[p], m)]

\* The first message of a place is ahead of the others there.
LEMMA HeadOfPlace ==
  ASSUME NEW c \in Lines, NEW p \in Places, c[p] # <<>>
  PROVE  /\ Head(c[p]) \in Message /\ Tail(c[p]) \in Seq(Message)
         /\ 1 \in DOMAIN c[p] /\ c[p][1] = Head(c[p])
         /\ \A i \in DOMAIN Tail(c[p]) :
              /\ i \in Nat \ {0} /\ i + 1 \in DOMAIN c[p] /\ Tail(c[p])[i] = c[p][i + 1]
         /\ \A i \in DOMAIN c[p] : /\ i \in Nat \ {0} /\ c[p][i] \in Message
                                   /\ i # 1 => /\ i - 1 \in DOMAIN Tail(c[p])
                                               /\ Tail(c[p])[i - 1] = c[p][i]
<1>1. c[p] \in Seq(Message) /\ Len(c[p]) \in Nat /\ DOMAIN c[p] = 1..Len(c[p]) /\ Len(c[p]) # 0
  BY LenProperties, EmptySeq DEF Lines
<1>2. /\ Head(c[p]) \in Message /\ Tail(c[p]) \in Seq(Message)
      /\ Len(Tail(c[p])) = Len(c[p]) - 1
      /\ \A i \in 1..Len(Tail(c[p])) : Tail(c[p])[i] = c[p][i + 1]
  BY <1>1, HeadTailProperties
<1>3. DOMAIN Tail(c[p]) = 1..Len(Tail(c[p]))
  BY <1>2, LenProperties
<1>4. Head(c[p]) = c[p][1]
  BY <1>1
<1>5. \A i \in DOMAIN c[p] : c[p][i] \in Message
  BY <1>1, ElementOfSeq
<1>6. QED
  BY <1>1, <1>2, <1>3, <1>4, <1>5

\* Every message on the line is one.
LEMMA OnLine ==
  ASSUME NEW c \in Lines
  PROVE  /\ \A p \in Places : \A i \in DOMAIN c[p] : i \in Nat \ {0} /\ c[p][i] \in Message
         /\ \A m : On(c, m) => m \in Message
<1>1. ASSUME NEW p \in Places
      PROVE  \A i \in DOMAIN c[p] : i \in Nat \ {0} /\ c[p][i] \in Message
  <2>1. c[p] \in Seq(Message) /\ Len(c[p]) \in Nat /\ DOMAIN c[p] = 1..Len(c[p])
    BY LenProperties DEF Lines
  <2>2. QED
    BY <2>1, ElementOfSeq
<1>2. QED
  BY <1>1 DEF On

\* The first message of a place leaves the line.
LEMMA HeadLeaves ==
  ASSUME NEW c \in Lines, InOrder(c), NEW p \in Places, c[p] # <<>>,
         NEW d, d = Without(c, p)
  PROVE  /\ d \in Lines /\ InOrder(d)
         /\ \A m : On(c, m) <=> On(d, m) \/ m = Head(c[p])
         /\ Head(c[p]) # Stop => ~On(d, Head(c[p]))
         /\ p = 2 * Steps => \A m : On(d, m) => Earlier(Head(c[p]), m)
         /\ \A q \in Places : \A i \in DOMAIN d[q] :
              IF q > p THEN Earlier(d[q][i], Head(c[p])) ELSE Earlier(Head(c[p]), d[q][i])
<1> DEFINE h == Head(c[p])
           t == Tail(c[p])
<1>1. /\ h \in Message /\ t \in Seq(Message) /\ 1 \in DOMAIN c[p] /\ c[p][1] = h
      /\ \A i \in DOMAIN t : i \in Nat \ {0} /\ i + 1 \in DOMAIN c[p] /\ t[i] = c[p][i + 1]
      /\ \A i \in DOMAIN c[p] : /\ i \in Nat \ {0} /\ c[p][i] \in Message
                                /\ i # 1 => i - 1 \in DOMAIN t /\ t[i - 1] = c[p][i]
  BY HeadOfPlace
<1> HIDE DEF h, t
<1>2. d \in Lines /\ d[p] = t /\ \A q \in Places : q # p => d[q] = c[q]
  BY <1>1 DEF Lines, Without, t
<1>3. ASSUME NEW i \in DOMAIN t
      PROVE  Earlier(h, t[i])
  <2>1. 1 < i + 1 /\ i + 1 \in DOMAIN c[p] /\ t[i] = c[p][i + 1]
    BY <1>1
  <2>2. QED
    BY <1>1, <2>1 DEF InOrder
<1>4. \A q \in Places : \A i \in DOMAIN d[q] :
        /\ q = p => Earlier(h, d[q][i])
        /\ q < p => Earlier(h, d[q][i])
        /\ q > p => Earlier(d[q][i], h)
  BY <1>1, <1>2, <1>3, PlacesOf DEF InOrder
<1>5. InOrder(d)
  <2>1. ASSUME NEW q \in Places, NEW i \in DOMAIN d[q], NEW j \in DOMAIN d[q], i < j
        PROVE  Earlier(d[q][i], d[q][j])
    <3>1. CASE q = p
      <4>1. i + 1 < j + 1 /\ i + 1 \in DOMAIN c[p] /\ j + 1 \in DOMAIN c[p]
        <5>1. i \in DOMAIN t /\ j \in DOMAIN t
          BY <1>2, <3>1
        <5>2. i \in Nat /\ j \in Nat /\ i + 1 \in DOMAIN c[p] /\ j + 1 \in DOMAIN c[p]
          BY <1>1, <5>1
        <5>3. QED
          BY <2>1, <5>2
      <4>2. d[q][i] = c[p][i + 1] /\ d[q][j] = c[p][j + 1]
        BY <1>1, <1>2, <3>1
      <4>3. QED
        BY <4>1, <4>2 DEF InOrder
    <3>2. CASE q # p
      BY <1>2, <2>1, <3>2 DEF InOrder
    <3>3. QED
      BY <3>1, <3>2
  <2>2. \A q \in Places : \A i \in DOMAIN d[q] : \E k \in DOMAIN c[q] : d[q][i] = c[q][k]
    BY <1>1, <1>2
  <2>3. ASSUME NEW q \in Places, NEW r \in Places, q < r, NEW i \in DOMAIN d[q], NEW j \in DOMAIN d[r]
        PROVE  Earlier(d[r][j], d[q][i])
    <3>1. PICK k \in DOMAIN c[q], l \in DOMAIN c[r] : d[q][i] = c[q][k] /\ d[r][j] = c[r][l]
      BY <2>2
    <3>2. QED
      BY <2>3, <3>1 DEF InOrder
  <2>4. QED
    BY <2>1, <2>3 DEF InOrder
<1>6. ASSUME NEW m
      PROVE  On(c, m) <=> On(d, m) \/ m = h
  <2>1. ASSUME On(c, m), m # h
        PROVE  On(d, m)
    <3>1. PICK q \in Places : \E i \in DOMAIN c[q] : c[q][i] = m
      BY <2>1 DEF On
    <3>2. PICK i \in DOMAIN c[q] : c[q][i] = m
      BY <3>1
    <3>3. CASE q = p
      <4>1. i # 1 /\ i - 1 \in DOMAIN d[p] /\ d[p][i - 1] = m
        BY <1>1, <1>2, <2>1, <3>2, <3>3
      <4>2. QED
        BY <4>1 DEF On
    <3>4. CASE q # p
      BY <1>2, <3>2, <3>4 DEF On
    <3>5. QED
      BY <3>3, <3>4
  <2>2. On(d, m) => On(c, m)
    <3>1. \A q \in Places : \A i \in DOMAIN d[q] : \E k \in DOMAIN c[q] : d[q][i] = c[q][k]
      BY <1>1, <1>2
    <3>2. QED
      BY <3>1 DEF On
  <2>3. On(c, h)
    BY <1>1 DEF On
  <2>4. QED
    BY <2>1, <2>2, <2>3
<1>7. h # Stop => ~On(d, h)
  <2> SUFFICES ASSUME h # Stop, NEW q \in Places, NEW i \in DOMAIN d[q], d[q][i] = h PROVE FALSE
    BY DEF On
  <2>1. q = p \/ q < p \/ q > p
    BY PlacesOf
  <2>2. Earlier(h, h)
    BY <1>4, <2>1
  <2>3. QED
    BY <1>1, <2>2, MessageType DEF Earlier
<1>8. p = 2 * Steps => \A m : On(d, m) => Earlier(h, m)
  <2> SUFFICES ASSUME p = 2 * Steps, NEW q \in Places, NEW i \in DOMAIN d[q]
               PROVE  Earlier(h, d[q][i])
    BY DEF On
  <2>1. q = p \/ q < p
    BY PipelineAssumption DEF Places
  <2>2. QED
    BY <1>4, <2>1
<1>9. \A q \in Places : \A i \in DOMAIN d[q] :
        IF q > p THEN Earlier(d[q][i], h) ELSE Earlier(h, d[q][i])
  BY <1>4, PlacesOf
<1>10. QED
  BY <1>2, <1>5, <1>6, <1>7, <1>8, <1>9 DEF h

\* A message that none may be ahead of joins the line at the end of a place, if the
\* places before it are empty or the message goes to the source.
LEMMA Joins ==
  ASSUME NEW c \in Lines, InOrder(c), NEW p \in Places, NEW m \in Message,
         \A q \in Places : q >= p => \A i \in DOMAIN c[q] : Earlier(c[q][i], m),
         \A q \in Places : q < p => \A i \in DOMAIN c[q] : Earlier(m, c[q][i]),
         NEW d, d = With(c, p, m)
  PROVE  /\ d \in Lines /\ InOrder(d)
         /\ \A x : On(d, x) <=> On(c, x) \/ x = m
<1>1. c[p] \in Seq(Message) /\ Len(c[p]) \in Nat /\ DOMAIN c[p] = 1..Len(c[p])
  BY LenProperties DEF Lines
<1> DEFINE e == Append(c[p], m)
           n == Len(c[p]) + 1
<1>2. /\ e \in Seq(Message) /\ DOMAIN e = 1..n /\ e[n] = m
      /\ \A i \in DOMAIN c[p] : i \in DOMAIN e /\ e[i] = c[p][i] /\ i < n
      /\ \A i \in DOMAIN e : i = n \/ i \in DOMAIN c[p]
      /\ n \in DOMAIN e
  BY <1>1, AppendProperties
<1>3. d \in Lines /\ d[p] = e /\ \A q \in Places : q # p => d[q] = c[q]
  BY <1>2 DEF Lines, With
<1> HIDE DEF e
<1>4. \A q \in Places : \A i \in DOMAIN d[q] :
        \/ q = p /\ i = n /\ d[q][i] = m
        \/ i \in DOMAIN c[q] /\ d[q][i] = c[q][i]
  BY <1>2, <1>3
<1>5. InOrder(d)
  <2>1. ASSUME NEW q \in Places, NEW i \in DOMAIN d[q], NEW j \in DOMAIN d[q], i < j
        PROVE  Earlier(d[q][i], d[q][j])
    <3>1. CASE q # p
      BY <1>3, <2>1, <3>1 DEF InOrder
    <3>2. CASE q = p
      <4>1. i \in DOMAIN c[p] /\ d[p][i] = c[p][i]
        BY <1>1, <1>2, <1>3, <2>1, <3>2
      <4>2. CASE j = n
        <5>1. Earlier(c[p][i], m)
          BY <4>1, PlacesOf
        <5>2. QED
          BY <1>2, <1>3, <3>2, <4>1, <4>2, <5>1
      <4>3. CASE j # n
        BY <1>2, <1>3, <2>1, <3>2, <4>1, <4>3 DEF InOrder
      <4>4. QED
        BY <4>2, <4>3
    <3>3. QED
      BY <3>1, <3>2
  <2>2. ASSUME NEW q \in Places, NEW r \in Places, q < r, NEW i \in DOMAIN d[q], NEW j \in DOMAIN d[r]
        PROVE  Earlier(d[r][j], d[q][i])
    <3>0. q \in Nat /\ r \in Nat /\ p \in Nat
      BY PlacesOf
    <3>1. CASE q = p /\ i = n /\ d[q][i] = m
      <4>1. r # p /\ r >= p
        BY <2>2, <3>0, <3>1
      <4>2. QED
        BY <1>3, <3>1, <4>1
    <3>2. CASE r = p /\ j = n /\ d[r][j] = m
      <4>1. q # p /\ q < p
        BY <2>2, <3>0, <3>2
      <4>2. QED
        BY <1>3, <3>2, <4>1
    <3>3. CASE /\ i \in DOMAIN c[q] /\ d[q][i] = c[q][i]
               /\ j \in DOMAIN c[r] /\ d[r][j] = c[r][j]
      BY <2>2, <3>3 DEF InOrder
    <3>4. QED
      BY <1>4, <3>1, <3>2, <3>3
  <2>3. QED
    BY <2>1, <2>2 DEF InOrder
<1>6. ASSUME NEW x
      PROVE  On(d, x) <=> On(c, x) \/ x = m
  <2>1. On(c, x) => On(d, x)
    BY <1>2, <1>3 DEF On
  <2>2. On(d, m)
    BY <1>2, <1>3 DEF On
  <2>3. On(d, x) => On(c, x) \/ x = m
    BY <1>4 DEF On
  <2>4. QED
    BY <2>1, <2>2, <2>3
<1>7. QED
  BY <1>3, <1>5, <1>6

\* The first message of a place goes on to the end of the next.
LEMMA MovesOn ==
  ASSUME NEW c \in Lines, InOrder(c), NEW p \in Places, p + 1 \in Places, c[p] # <<>>,
         NEW d, d = With(Without(c, p), p + 1, Head(c[p]))
  PROVE  /\ d \in Lines /\ InOrder(d)
         /\ \A m : On(d, m) <=> On(c, m)
<1> DEFINE h == Head(c[p])
           b == Without(c, p)
<1>1. /\ b \in Lines /\ InOrder(b)
      /\ \A m : On(c, m) <=> On(b, m) \/ m = h
      /\ \A q \in Places : \A i \in DOMAIN b[q] :
           IF q > p THEN Earlier(b[q][i], h) ELSE Earlier(h, b[q][i])
  BY HeadLeaves
<1>2. h \in Message
  BY HeadOfPlace
<1>3. d = With(b, p + 1, h)
  OBVIOUS
<1> HIDE DEF b, h
<1>4. ASSUME NEW q \in Places
      PROVE  (q >= p + 1 => q > p) /\ (q < p + 1 => ~(q > p))
  BY PlacesOf
<1>5. /\ \A q \in Places : q >= p + 1 => \A i \in DOMAIN b[q] : Earlier(b[q][i], h)
      /\ \A q \in Places : q < p + 1 => \A i \in DOMAIN b[q] : Earlier(h, b[q][i])
  BY <1>1, <1>4
<1>6. /\ d \in Lines /\ InOrder(d)
      /\ \A x : On(d, x) <=> On(b, x) \/ x = h
  BY <1>1, <1>2, <1>3, <1>5, Joins
<1>7. QED
  BY <1>1, <1>6

-----------------------------------------------------------------------------
(* What the moves of a step keep *)

Concluded == pc \in {"commitTarget", "committed"}

\* What has been stored is numbered.
LEMMA StoredType ==
  ASSUME IInv
  PROVE  /\ Len(stored) \in Nat /\ DOMAIN stored = 1..Len(stored)
         /\ \A i \in DOMAIN stored : stored[i].rec \in Nat
<1>1. stored \in Seq([op : {"add", "delete"}, rec : Rec])
  BY DEF IInv, TypeOK
<1>2. Len(stored) \in Nat /\ DOMAIN stored = 1..Len(stored)
  BY <1>1, LenProperties
<1>3. \A i \in 1..Len(stored) : stored[i] \in [op : {"add", "delete"}, rec : Rec]
  BY <1>1, ElementOfSeq
<1>4. Rec \subseteq Nat
  BY PipelineAssumption DEF Rec
<1>5. QED
  BY <1>2, <1>3, <1>4

\* A step that stores, rejects and harvests nothing.
LEMMA Carried ==
  ASSUME IInv, TypeOK', InOrder(Line'), NotInterruptedYet',
         UNCHANGED <<stored, rejected, count, next, limit>>,
         \A m : On(Line', m) => On(Line, m),
         ~ShutDownBegun' => \A m : On(Line, m) => On(Line', m),
         ShutDownBegun => ShutDownBegun', Harvesting' => Harvesting, Concluded' => Concluded
  PROVE  IInv'
<1>1. BehindTheStored' /\ WasHarvested'
  BY DEF IInv, BehindTheStored, WasHarvested, Added
<1>2. NoStopYet'
  BY DEF IInv, NoStopYet
<1>3. NoneLost'
  BY DEF IInv, NoneLost, IsStored
<1>4. LastHasArrived'
  BY DEF IInv, LastHasArrived, Concluded
<1>5. StoredInOrder'
  BY DEF IInv, StoredInOrder, Added, IsStored, Concluded
<1>6. QED
  BY <1>1, <1>2, <1>3, <1>4, <1>5 DEF IInv

\* A step at which a record leaves the line and is rejected.
LEMMA Rejects ==
  ASSUME IInv, TypeOK', InOrder(Line'), NotInterruptedYet',
         NEW h \in Message, h # Stop, On(Line, h), ~On(Line', h),
         \A m : On(Line, m) <=> On(Line', m) \/ m = h,
         UNCHANGED <<stored, count, next, limit>>, rejected' = rejected \union {h.rec},
         ShutDownBegun => ShutDownBegun', Harvesting' => Harvesting, Concluded' => Concluded
  PROVE  IInv'
<1>1. h.rec \in Nat /\ h.rec < next /\ \A i \in DOMAIN stored : Added(i) => stored[i].rec < h.rec
  BY MessageType DEF IInv, BehindTheStored, Earlier
<1>2. BehindTheStored'
  <2>1. ASSUME NEW m \in Message, On(Line', m), m # Stop
        PROVE  m.rec # h.rec
    BY <2>1, MessageType
  <2>2. QED
    BY <2>1 DEF IInv, BehindTheStored, Added
<1>3. WasHarvested'
  BY <1>1 DEF IInv, WasHarvested
<1>4. NoStopYet'
  BY DEF IInv, NoStopYet
<1>5. NoneLost'
  <2> SUFFICES ASSUME ~ShutDownBegun', NEW r \in 1..(next - 1)
               PROVE  IsStored(r)' \/ r \in rejected' \/ On(Line', Record(r))
    BY DEF NoneLost
  <2>1. r \in Rec
    BY PipelineAssumption DEF IInv, TypeOK, Rec
  <2>2. Record(r).rec = r
    BY <2>1, MessageType
  <2>3. QED
    BY <2>2 DEF IInv, NoneLost, IsStored
<1>6. LastHasArrived'
  BY DEF IInv, LastHasArrived, Concluded
<1>7. StoredInOrder'
  <2>1. ASSUME NEW i \in DOMAIN stored, Added(i)
        PROVE  stored[i].rec # h.rec
    <3>1. stored[i].rec \in Nat
      BY StoredType
    <3>2. QED
      BY <1>1, <2>1, <3>1
  <2>2. QED
    BY <2>1 DEF IInv, StoredInOrder, Added, IsStored, Concluded
<1>8. QED
  BY <1>2, <1>3, <1>4, <1>5, <1>6, <1>7 DEF IInv

\* A step at which the first record of the last queue is stored.
LEMMA Stores ==
  ASSUME IInv, TypeOK', InOrder(Line'), NotInterruptedYet',
         NEW h \in Message, h # Stop, On(Line, h), stored' = Append(stored, h),
         \A m : On(Line, m) <=> On(Line', m) \/ m = h,
         \A m : On(Line', m) => Earlier(h, m),
         UNCHANGED <<next, limit, rejected>>, count' \in count..(count + 1),
         ShutDownBegun => ShutDownBegun', ~Concluded',
         Harvesting' => Harvesting /\ (limit > 0 => count' < limit)
  PROVE  IInv'
<1> DEFINE n == Len(stored) + 1
<1>1. /\ n \in Nat /\ DOMAIN stored = 1..(n - 1) /\ DOMAIN stored' = 1..n
      /\ stored'[n] = h /\ \A i \in DOMAIN stored : stored'[i] = stored[i]
      /\ \A i \in DOMAIN stored : stored[i].rec \in Nat
  <2>1. stored \in Seq([op : {"add", "delete"}, rec : Rec])
    BY DEF IInv, TypeOK
  <2>2. h \in [op : {"add", "delete"}, rec : Rec]
    BY MessageType DEF Record
  <2>3. /\ DOMAIN Append(stored, h) = 1..n
        /\ \A i \in 1..Len(stored) : Append(stored, h)[i] = stored[i]
        /\ Append(stored, h)[n] = h
    BY <2>1, <2>2, AppendProperties, LenProperties, StoredType
  <2>4. QED
    BY <2>3, StoredType
<1> HIDE DEF n
<1>2. /\ h.rec \in Nat /\ count < h.rec /\ h.rec < next /\ h.rec \notin rejected /\ h.op = "add"
      /\ \A i \in DOMAIN stored : Added(i) => stored[i].rec < h.rec
  BY MessageType DEF IInv, BehindTheStored, Earlier
<1>3. count \in Nat /\ next \in Nat /\ limit \in Nat
  BY PipelineAssumption DEF IInv, TypeOK
<1>4. \A i \in DOMAIN stored' : i = n \/ (i \in DOMAIN stored /\ (Added(i)' <=> Added(i)))
  BY <1>1 DEF Added
<1>5. BehindTheStored'
  <2> SUFFICES ASSUME NEW m \in Message, On(Line', m)
               PROVE  /\ \A i \in DOMAIN stored' : Added(i)' => Earlier(stored'[i], m)
                      /\ m # Stop => count' < m.rec /\ m.rec < next' /\ m.rec \notin rejected'
    BY DEF BehindTheStored
  <2>1. ASSUME NEW i \in DOMAIN stored', Added(i)'
        PROVE  Earlier(stored'[i], m)
    BY <1>1, <1>4, <2>1 DEF IInv, BehindTheStored
  <2>2. ASSUME m # Stop
        PROVE  count' < m.rec /\ m.rec < next' /\ m.rec \notin rejected'
    <3>1. h.rec < m.rec /\ m.rec \in Nat
      BY <2>2, MessageType DEF Earlier
    <3>2. m.rec < next /\ m.rec \notin rejected
      BY <2>2 DEF IInv, BehindTheStored
    <3>3. QED
      BY <1>2, <1>3, <3>1, <3>2
  <2>3. QED
    BY <2>1, <2>2
<1>6. WasHarvested'
  BY <1>1, <1>2, <1>3, <1>4 DEF IInv, WasHarvested
<1>7. NoStopYet'
  BY DEF IInv, NoStopYet
<1>8. \A r : IsStored(r) \/ r = h.rec => IsStored(r)'
  <2>1. n \in DOMAIN stored'
    BY <1>1
  <2>2. QED
    BY <1>1, <2>1 DEF IsStored
<1>9. NoneLost'
  <2> SUFFICES ASSUME ~ShutDownBegun', NEW r \in 1..(next - 1)
               PROVE  IsStored(r)' \/ r \in rejected' \/ On(Line', Record(r))
    BY DEF NoneLost
  <2>1. r \in Rec
    BY PipelineAssumption DEF IInv, TypeOK, Rec
  <2>2. Record(r).rec = r
    BY <2>1, MessageType
  <2>3. QED
    BY <1>8, <2>2 DEF IInv, NoneLost
<1>10. LastHasArrived'
  BY DEF LastHasArrived, Concluded
<1>11. StoredInOrder'
  <2>1. ASSUME NEW i \in DOMAIN stored', NEW j \in DOMAIN stored', i < j, Added(i)', Added(j)'
        PROVE  stored'[i].rec < stored'[j].rec
    <3>1. i \in DOMAIN stored
      BY <1>1, <2>1
    <3>2. CASE j = n
      BY <1>1, <1>2, <1>4, <2>1, <3>1, <3>2
    <3>3. CASE j \in DOMAIN stored
      BY <1>1, <1>4, <2>1, <3>1, <3>3 DEF IInv, StoredInOrder, Added
    <3>4. QED
      BY <1>4, <3>2, <3>3
  <2>2. ASSUME NEW i \in DOMAIN stored', Added(i)'
        PROVE  stored'[i].rec \notin rejected'
    BY <1>1, <1>2, <1>4, <2>2 DEF IInv, StoredInOrder
  <2>3. QED
    BY <2>1, <2>2 DEF StoredInOrder, Concluded
<1>12. QED
  BY <1>5, <1>6, <1>7, <1>9, <1>10, <1>11 DEF IInv

-----------------------------------------------------------------------------
(* The moves of the threads *)

LEMMA LineIs ==
  ASSUME TypeOK
  PROVE  /\ queue \in Queues /\ hand \in Hands /\ Line \in Lines
         /\ \A s \in 0..Steps : Line[2 * s] = queue[s]
         /\ \A s \in Step : Line[2 * s - 1] = hand[s]
         /\ \A s \in Step : hand[s] # <<>> <=> router[s] \in {"consume", "produce"}
         /\ \A s \in Step : hand[s] = <<>> \/ \E m \in Message : hand[s] = <<m>>
<1>1. queue \in Queues /\ hand \in Hands
  BY DEF TypeOK, Queues, Hands
<1>2. \A s \in Step : hand[s] = <<>> \/ \E m \in Message : hand[s] = <<m>>
  BY <1>1 DEF Hands
<1>3. QED
  BY <1>1, <1>2, LineAt DEF Line, TypeOK

\* The message in hand.
LEMMA InHand ==
  ASSUME TypeOK, NEW s \in Step, router[s] \in {"consume", "produce"}
  PROVE  /\ hand[s] # <<>> /\ hand[s] = <<hand[s][1]>> /\ hand[s][1] \in Message
         /\ Head(hand[s]) = hand[s][1] /\ Tail(hand[s]) = <<>>
         /\ hand[s] = <<Stop>> <=> hand[s][1] = Stop
         /\ On(Line, hand[s][1])
<1>1. PICK m \in Message : hand[s] = <<m>>
  BY LineIs
<1>2. 1 \in DOMAIN hand[s]
  BY <1>1
<1>3. Line[2 * s - 1] = hand[s] /\ 2 * s - 1 \in Places
  BY LineIs, PlacesOf
<1>4. On(Line, hand[s][1])
  BY <1>2, <1>3 DEF On
<1>5. QED
  BY <1>1, <1>4

\* A message is taken from a queue.
LEMMA QueueLoses ==
  ASSUME TypeOK, NEW s \in 0..Steps,
         queue' = [queue EXCEPT ![s] = Tail(queue[s])], hand' = hand
  PROVE  Line' = Without(Line, 2 * s)
<1>1. queue' = Changed(queue, s, Tail(queue[s]))
  BY DEF Changed
<1>2. queue \in Queues /\ hand \in Hands
  BY LineIs
<1>3. LineOf(Changed(queue, s, Tail(queue[s])), hand)
        = Changed(LineOf(queue, hand), 2 * s, Tail(queue[s]))
  BY <1>2, QueueChanges
<1>4. Line' = Changed(Line, 2 * s, Tail(queue[s]))
  BY <1>1, <1>3 DEF Line
<1>5. QED
  BY <1>4, LineIs DEF Changed, Without

\* A message is put into a queue.
LEMMA QueueGets ==
  ASSUME TypeOK, NEW s \in 0..Steps, NEW m,
         queue' = [queue EXCEPT ![s] = Append(queue[s], m)], hand' = hand
  PROVE  Line' = With(Line, 2 * s, m)
<1>1. queue' = Changed(queue, s, Append(queue[s], m))
  BY DEF Changed
<1>2. queue \in Queues /\ hand \in Hands
  BY LineIs
<1>3. LineOf(Changed(queue, s, Append(queue[s], m)), hand)
        = Changed(LineOf(queue, hand), 2 * s, Append(queue[s], m))
  BY <1>2, QueueChanges
<1>4. Line' = Changed(Line, 2 * s, Append(queue[s], m))
  BY <1>1, <1>3 DEF Line
<1>5. QED
  BY <1>4, LineIs DEF Changed, With

\* A message in hand is dropped.
LEMMA HandDrops ==
  ASSUME TypeOK, NEW s \in Step, router[s] \in {"consume", "produce"},
         queue' = queue, hand' = [hand EXCEPT ![s] = <<>>]
  PROVE  Line' = Without(Line, 2 * s - 1)
<1>1. Line[2 * s - 1] = hand[s] /\ Tail(hand[s]) = <<>>
  BY LineIs, InHand
<1>2. hand' = Changed(hand, s, <<>>)
  BY DEF Changed
<1>3. queue \in Queues /\ hand \in Hands
  BY LineIs
<1>4. LineOf(queue, Changed(hand, s, <<>>)) = Changed(LineOf(queue, hand), 2 * s - 1, <<>>)
  BY <1>3, HandChanges
<1>5. Line' = Changed(Line, 2 * s - 1, <<>>)
  BY <1>2, <1>4 DEF Line
<1>6. QED
  BY <1>1, <1>5 DEF Changed, Without

\* A message is taken from a queue into the hand of the next step.
LEMMA HandTakes ==
  ASSUME TypeOK, NEW s \in Step, router[s] = "loop", queue[s - 1] # <<>>,
         queue' = [queue EXCEPT ![s - 1] = Tail(queue[s - 1])],
         hand' = [hand EXCEPT ![s] = <<Head(queue[s - 1])>>]
  PROVE  /\ Line' \in Lines
         /\ InOrder(Line) => InOrder(Line')
         /\ InOrder(Line) => \A m : On(Line', m) <=> On(Line, m)
<1> DEFINE p == 2 * (s - 1)
           x == Head(queue[s - 1])
<1>1. /\ p \in Places /\ p + 1 \in Places /\ p + 1 = 2 * s - 1 /\ s - 1 \in 0..Steps
      /\ Line[p] = queue[s - 1]
  BY LineIs, PlacesOf, PipelineAssumption DEF Step
<1>2. Tail(queue[s - 1]) \in Seq(Message) /\ x \in Message
  BY <1>1, LineIs, HeadOfPlace
<1>3. queue' \in Queues /\ hand' \in Hands
  BY <1>1, <1>2, LineIs DEF Queues, Hands
<1>4. LineOf(queue', hand) = Without(Line, p)
  <2>1. queue' = Changed(queue, s - 1, Tail(queue[s - 1]))
    BY DEF Changed
  <2>2. queue \in Queues /\ hand \in Hands /\ s - 1 \in 0..Steps
    BY <1>1, LineIs
  <2>3. LineOf(Changed(queue, s - 1, Tail(queue[s - 1])), hand)
          = Changed(LineOf(queue, hand), 2 * (s - 1), Tail(queue[s - 1]))
    BY <2>2, QueueChanges
  <2>4. LineOf(queue', hand) = Changed(Line, p, Tail(queue[s - 1]))
    BY <2>1, <2>3 DEF Line
  <2>5. QED
    BY <1>1, <2>4 DEF Without, Changed
<1>5. LineOf(queue', hand') = [LineOf(queue', hand) EXCEPT ![2 * s - 1] = <<x>>]
  <2>1. hand' = Changed(hand, s, <<x>>)
    BY DEF Changed
  <2>2. queue' \in Queues /\ hand \in Hands
    BY <1>3, LineIs
  <2>3. LineOf(queue', Changed(hand, s, <<x>>)) = Changed(LineOf(queue', hand), 2 * s - 1, <<x>>)
    BY <2>2, HandChanges
  <2>4. QED
    BY <2>1, <2>3 DEF Changed
<1>6. LineOf(queue', hand)[2 * s - 1] = <<>>
  BY <1>3, LineIs, LineAt
<1>7. Append(LineOf(queue', hand)[2 * s - 1], x) = <<x>>
  <2>1. Append(<<>>, x) = <<x>>
    OBVIOUS
  <2>2. QED
    BY <1>6, <2>1
<1>8. Line' = With(Without(Line, p), p + 1, Head(Line[p]))
  BY <1>1, <1>4, <1>5, <1>7 DEF Line, With
<1> HIDE DEF p
<1>9. QED
  <2>1. Line' \in Lines
    BY <1>3, LineAt DEF Line
  <2>2. Line[p] # <<>>
    BY <1>1
  <2>3. QED
    BY <1>1, <1>8, <2>1, <2>2, LineIs, MovesOn

\* A message in hand is put into the queue of the step.
LEMMA HandPuts ==
  ASSUME TypeOK, NEW s \in Step, router[s] \in {"consume", "produce"},
         queue' = [queue EXCEPT ![s] = Append(queue[s], hand[s][1])],
         hand' = [hand EXCEPT ![s] = <<>>]
  PROVE  /\ Line' \in Lines
         /\ InOrder(Line) => InOrder(Line')
         /\ InOrder(Line) => \A m : On(Line', m) <=> On(Line, m)
<1> DEFINE p == 2 * s - 1
           x == hand[s][1]
<1>1. /\ p \in Places /\ p + 1 \in Places /\ p + 1 = 2 * s /\ s \in 0..Steps
      /\ Line[p] = hand[s] /\ p # p + 1
  BY LineIs, PlacesOf, PipelineAssumption DEF Step
<1>2. x \in Message /\ x = Head(hand[s]) /\ Tail(hand[s]) = <<>> /\ hand[s] # <<>>
  BY InHand
<1>3. queue' \in Queues /\ hand' \in Hands
  BY <1>1, <1>2, LineIs, AppendProperties DEF Queues, Hands
<1>4. LineOf(queue, hand') = Without(Line, p)
  <2>1. hand' = Changed(hand, s, <<>>)
    BY DEF Changed
  <2>2. queue \in Queues /\ hand \in Hands
    BY LineIs
  <2>3. LineOf(queue, Changed(hand, s, <<>>)) = Changed(LineOf(queue, hand), 2 * s - 1, <<>>)
    BY <2>2, HandChanges
  <2>4. LineOf(queue, hand') = Changed(Line, p, <<>>)
    BY <2>1, <2>3 DEF Line
  <2>5. QED
    BY <1>1, <1>2, <2>4 DEF Without, Changed
<1>5. LineOf(queue', hand') = [LineOf(queue, hand') EXCEPT ![2 * s] = Append(queue[s], x)]
  <2>1. queue' = Changed(queue, s, Append(queue[s], x))
    BY DEF Changed
  <2>2. queue \in Queues /\ hand' \in Hands /\ s \in 0..Steps
    BY <1>1, <1>3, LineIs
  <2>3. LineOf(Changed(queue, s, Append(queue[s], x)), hand')
          = Changed(LineOf(queue, hand'), 2 * s, Append(queue[s], x))
    BY <2>2, QueueChanges
  <2>4. QED
    BY <2>1, <2>3 DEF Changed
<1>6. LineOf(queue, hand')[2 * s] = queue[s]
  BY <1>1, <1>3, LineIs, LineAt
<1>7. Line' = With(Without(Line, p), p + 1, Head(Line[p]))
  BY <1>1, <1>2, <1>4, <1>5, <1>6 DEF Line, With
<1> HIDE DEF p
<1>8. QED
  <2>1. Line' \in Lines
    BY <1>3, LineAt DEF Line
  <2>2. Line[p] # <<>>
    BY <1>1, <1>2
  <2>3. QED
    BY <1>1, <1>7, <2>1, <2>2, LineIs, MovesOn

\* A queue without its first message, or with another, and a hand that is filled or
\* emptied, are of their types.
LEMMA QueueType ==
  ASSUME TypeOK, NEW s \in 0..Steps
  PROVE  /\ \A m \in Message : [queue EXCEPT ![s] = Append(queue[s], m)] \in Queues
         /\ queue[s] # <<>> => /\ [queue EXCEPT ![s] = Tail(queue[s])] \in Queues
                                /\ Head(queue[s]) \in Message /\ On(Line, Head(queue[s]))
<1>1. queue \in Queues /\ Line \in Lines /\ 2 * s \in Places /\ Line[2 * s] = queue[s]
  BY LineIs, PlacesOf
<1>2. \A m \in Message : Append(queue[s], m) \in Seq(Message)
  BY <1>1, AppendProperties DEF Queues
<1>3. ASSUME queue[s] # <<>>
      PROVE  Tail(queue[s]) \in Seq(Message) /\ Head(queue[s]) \in Message /\ On(Line, Head(queue[s]))
  <2>1. /\ Head(Line[2 * s]) \in Message /\ Tail(Line[2 * s]) \in Seq(Message)
        /\ 1 \in DOMAIN Line[2 * s] /\ Line[2 * s][1] = Head(Line[2 * s])
    BY <1>1, <1>3, HeadOfPlace
  <2>2. QED
    BY <1>1, <2>1 DEF On
<1>4. QED
  BY <1>1, <1>2, <1>3 DEF Queues

-----------------------------------------------------------------------------
(* The steps *)

\* A step of a router does not touch what the harvesting thread has.
LEMMA RouterFrame ==
  ASSUME NEW s \in Step, RouterStep(s)
  PROVE  /\ UNCHANGED <<pc, next, limit, count, interrupts, stored>>
         /\ (ShutDownBegun' <=> ShutDownBegun) /\ (Harvesting' <=> Harvesting)
         /\ (Concluded' <=> Concluded)
BY DEF RouterStep, RouterEnds, Take, ConsumeStop, Transform, PutError, RouterDies, Produce,
       NotMain, mainVars, storeVars, ShutDownBegun, Harvesting, Concluded

\* The state of a thread changes, and with it what it has in hand.
LEMMA RouterType ==
  ASSUME TypeOK, NEW s \in Step, RouterStep(s)
  PROVE  TypeOK'
<1>1. /\ queue \in Queues /\ hand \in Hands
  BY LineIs
<1>2. UNCHANGED <<pc, next, limit, count, interrupts, stored>>
  BY RouterFrame
<1>3. ASSUME router' = [router EXCEPT ![s] = "ended"] \/ router' = [router EXCEPT ![s] = "produce"],
             UNCHANGED <<queue, hand, interrupted, rejected>>,
             running' \in [Step -> BOOLEAN],
             hand[s] = <<>> <=> router'[s] = "ended"
      PROVE  TypeOK'
  BY <1>2, <1>3 DEF TypeOK
<1>4. CASE RouterEnds(s)
  <2>1. hand[s] = <<>>
    BY <1>4 DEF RouterEnds, TypeOK
  <2>2. QED
    BY <1>3, <1>4, <2>1 DEF RouterEnds, RouterGoto, storeVars, TypeOK
<1>5. CASE ConsumeStop(s)
  BY <1>3, <1>5 DEF ConsumeStop, RouterGoto, storeVars, TypeOK
<1>6. CASE Transform(s)
  BY <1>3, <1>6 DEF Transform, RouterGoto, storeVars, TypeOK
<1>7. CASE Take(s)
  <2>1. s - 1 \in 0..Steps
    BY PlacesOf
  <2>2. /\ queue[s - 1] # <<>>
        /\ queue' = [queue EXCEPT ![s - 1] = Tail(queue[s - 1])]
        /\ hand' = [hand EXCEPT ![s] = <<Head(queue[s - 1])>>]
        /\ router' = [router EXCEPT ![s] = "consume"]
        /\ UNCHANGED <<running, interrupted, rejected>>
    BY <1>7 DEF Take, RouterGoto, storeVars
  <2>3. queue' \in Queues /\ Head(queue[s - 1]) \in Message
    BY <2>1, <2>2, QueueType
  <2>4. hand' \in Hands /\ hand'[s] # <<>> /\ \A t \in Step : t # s => hand'[t] = hand[t]
    BY <1>1, <2>2, <2>3 DEF Hands
  <2>5. QED
    BY <1>2, <2>2, <2>3, <2>4 DEF TypeOK, Queues, Hands
<1>8. ASSUME router' = [router EXCEPT ![s] = "loop"] \/ router' = [router EXCEPT ![s] = "dead"],
             hand' = [hand EXCEPT ![s] = <<>>], UNCHANGED running,
             queue' \in Queues, interrupted' \in [0..Steps -> BOOLEAN], rejected' \subseteq Rec
      PROVE  TypeOK'
  <2>1. hand' \in Hands /\ hand'[s] = <<>> /\ \A t \in Step : t # s => hand'[t] = hand[t]
    BY <1>1, <1>8 DEF Hands
  <2>2. QED
    BY <1>2, <1>8, <2>1 DEF TypeOK, Queues, Hands
<1>9. CASE PutError(s) \/ RouterDies(s)
  <2>1. router[s] = "consume" /\ hand[s] # <<Stop>>
    BY <1>9 DEF PutError, RouterDies
  <2>2. hand[s][1].rec \in Rec
    BY <2>1, InHand, MessageType
  <2>3. QED
    BY <1>1, <1>8, <1>9, <2>2 DEF PutError, RouterDies, RouterGoto, TypeOK
<1>10. CASE Produce(s)
  <2>1. hand[s][1] \in Message
    BY <1>10, InHand DEF Produce
  <2>2. s \in 0..Steps
    BY PlacesOf
  <2>3. queue' \in Queues
    BY <1>1, <1>10, <2>1, <2>2, QueueType DEF Produce
  <2>4. interrupted' \in [0..Steps -> BOOLEAN]
    BY <1>10 DEF Produce, TypeOK
  <2>5. QED
    BY <1>8, <1>10, <2>3, <2>4 DEF Produce, RouterGoto, storeVars, TypeOK
<1>11. QED
  BY <1>4, <1>5, <1>6, <1>7, <1>9, <1>10 DEF RouterStep

\* A router takes messages on, or rejects one; only when it has been shut down one is
\* lost.
LEMMA RouterKeeps ==
  ASSUME IInv, NEW s \in Step, RouterStep(s)
  PROVE  IInv'
<1>1. TypeOK /\ InOrder(Line) /\ NotInterruptedYet /\ Line \in Lines
  BY LineIs DEF IInv
<1>2. TypeOK'
  BY <1>1, RouterType
<1>3. /\ UNCHANGED <<pc, next, limit, count, stored>>
      /\ (ShutDownBegun' <=> ShutDownBegun) /\ (Harvesting' <=> Harvesting)
      /\ (Concluded' <=> Concluded)
  BY RouterFrame
<1>4. NotInterruptedYet'
  <2>1. UNCHANGED interrupted \/ interrupted' = [interrupted EXCEPT ![s] = FALSE]
    BY DEF RouterStep, RouterEnds, Take, ConsumeStop, Transform, PutError, RouterDies, Produce
  <2>2. ASSUME NEW t \in Step, ~interrupted[t]
        PROVE  ~interrupted'[t]
    <3>1. t \in 0..Steps /\ interrupted \in [0..Steps -> BOOLEAN]
      BY <1>1, PlacesOf DEF TypeOK
    <3>2. QED
      BY <2>1, <2>2, <3>1
  <2>3. QED
    BY <1>1, <1>3, <2>2 DEF NotInterruptedYet
<1>5. CASE RouterEnds(s) \/ ConsumeStop(s) \/ Transform(s)
  <2>1. UNCHANGED <<queue, hand, rejected>>
    BY <1>5 DEF RouterEnds, ConsumeStop, Transform, storeVars
  <2>2. Line' = Line
    BY <2>1 DEF Line
  <2>3. QED
    BY <1>1, <1>2, <1>3, <1>4, <2>1, <2>2, Carried
<1>6. CASE Take(s)
  <2>1. /\ UNCHANGED rejected /\ router[s] = "loop" /\ queue[s - 1] # <<>>
        /\ queue' = [queue EXCEPT ![s - 1] = Tail(queue[s - 1])]
        /\ hand' = [hand EXCEPT ![s] = <<Head(queue[s - 1])>>]
    BY <1>6 DEF Take, storeVars
  <2>2. InOrder(Line') /\ \A m : On(Line', m) <=> On(Line, m)
    BY <1>1, <2>1, HandTakes
  <2>3. QED
    BY <1>1, <1>2, <1>3, <1>4, <2>1, <2>2, Carried
<1>7. CASE PutError(s) \/ RouterDies(s)
  <2>1. /\ router[s] = "consume" /\ hand[s] # <<Stop>>
        /\ rejected' = rejected \union {hand[s][1].rec}
        /\ queue' = queue /\ hand' = [hand EXCEPT ![s] = <<>>]
    BY <1>7 DEF PutError, RouterDies
  <2>2. /\ hand[s] # <<>> /\ hand[s][1] \in Message /\ hand[s][1] # Stop
        /\ hand[s][1] = Head(hand[s]) /\ On(Line, hand[s][1])
    BY <1>1, <2>1, InHand
  <2>3. Line' = Without(Line, 2 * s - 1) /\ Line[2 * s - 1] = hand[s] /\ 2 * s - 1 \in Places
    BY <1>1, <2>1, HandDrops, LineIs, PlacesOf
  <2>4. /\ InOrder(Line')
        /\ \A m : On(Line, m) <=> On(Line', m) \/ m = hand[s][1]
        /\ ~On(Line', hand[s][1])
    BY <1>1, <2>2, <2>3, HeadLeaves
  <2>5. QED
    BY <1>2, <1>3, <1>4, <2>1, <2>2, <2>4, Rejects
<1>8. CASE Produce(s)
  <2>1. /\ UNCHANGED rejected /\ router[s] = "produce"
        /\ hand' = [hand EXCEPT ![s] = <<>>]
    BY <1>8 DEF Produce, storeVars
  <2>2. CASE interrupted[s]
    <3>1. queue' = queue
      BY <1>8, <2>2 DEF Produce
    <3>2. ShutDownBegun'
      BY <1>1, <1>3, <2>2 DEF NotInterruptedYet
    <3>3. /\ Line' = Without(Line, 2 * s - 1) /\ Line[2 * s - 1] = hand[s] /\ 2 * s - 1 \in Places
          /\ hand[s] # <<>>
      BY <1>1, <2>1, <3>1, HandDrops, LineIs, PlacesOf, InHand
    <3>4. /\ InOrder(Line')
          /\ \A m : On(Line', m) => On(Line, m)
      BY <1>1, <3>3, HeadLeaves
    <3>5. QED
      BY <1>1, <1>2, <1>3, <1>4, <2>1, <3>2, <3>4, Carried
  <2>3. CASE ~interrupted[s]
    <3>1. queue' = [queue EXCEPT ![s] = Append(queue[s], hand[s][1])]
      BY <1>8, <2>3 DEF Produce
    <3>2. InOrder(Line') /\ \A m : On(Line', m) <=> On(Line, m)
      BY <1>1, <2>1, <3>1, HandPuts
    <3>3. QED
      BY <1>1, <1>2, <1>3, <1>4, <2>1, <3>2, Carried
  <2>4. QED
    BY <2>2, <2>3
<1>9. QED
  BY <1>5, <1>6, <1>7, <1>8 DEF RouterStep

\* What a step of the harvesting thread leaves alone.
LEMMA MainType ==
  ASSUME TypeOK, UNCHANGED <<router, hand, interrupts, limit>>,
         queue' \in Queues, running' \in [Step -> BOOLEAN],
         interrupted' \in [0..Steps -> BOOLEAN],
         pc' \in {"harvest", "store", "commit", "join", "storeFinal", "commitTarget",
                  "rollback", "joinRollback", "rollbackTarget",
                  "addFailed", "commitFailed", "committed", "rolledBack", "left"},
         next' \in 1..(Records + 1), count' \in 0..(IF limit = 0 THEN Records ELSE limit),
         stored' \in Seq([op : {"add", "delete"}, rec : Rec]), rejected' \subseteq Rec
  PROVE  TypeOK'
BY DEF TypeOK, Queues

\* Clearing the flag of the harvesting thread interrupts no router.
LEMMA FlagFrame ==
  ASSUME TypeOK, FlagCleared \/ UNCHANGED interrupted
  PROVE  /\ interrupted' \in [0..Steps -> BOOLEAN]
         /\ \A s \in Step : interrupted'[s] = interrupted[s]
<1>1. interrupted \in [0..Steps -> BOOLEAN] /\ \A s \in Step : s \in 0..Steps /\ s # 0
  BY PlacesOf DEF TypeOK, Step
<1>2. QED
  BY <1>1 DEF FlagCleared

\* A step that moves the harvesting thread only.
LEMMA MainMoves ==
  ASSUME IInv, UNCHANGED <<queue, hand, router, running, interrupts, limit, next, count, storeVars>>,
         FlagCleared \/ UNCHANGED interrupted,
         pc' \in {"harvest", "store", "commit", "join", "storeFinal", "commitTarget",
                  "rollback", "joinRollback", "rollbackTarget",
                  "addFailed", "commitFailed", "committed", "rolledBack", "left"},
         ShutDownBegun => ShutDownBegun', Harvesting' => Harvesting, Concluded' => Concluded
  PROVE  IInv'
<1>1. TypeOK /\ InOrder(Line) /\ NotInterruptedYet
  BY DEF IInv
<1>2. /\ interrupted' \in [0..Steps -> BOOLEAN]
      /\ \A s \in Step : interrupted'[s] = interrupted[s]
  BY <1>1, FlagFrame
<1>3. TypeOK'
  BY <1>1, <1>2 DEF TypeOK, storeVars
<1>4. NotInterruptedYet'
  BY <1>1, <1>2 DEF NotInterruptedYet
<1>5. Line' = Line
  BY DEF Line
<1>6. QED
  BY <1>1, <1>3, <1>4, <1>5, Carried DEF storeVars

LEMMA MovesKeep ==
  ASSUME IInv,
         \/ StoreNothing \/ JobHandles \/ HarvestEnds \/ Join \/ CommitTarget
         \/ JoinRollback \/ RollbackTarget
  PROVE  IInv'
<1>1. UNCHANGED <<queue, hand, router, running, interrupts, limit, next, count, storeVars>>
  BY DEF StoreNothing, JobHandles, HarvestEnds, Join, CommitTarget, JoinRollback, RollbackTarget,
         NotRouters, routerVars, storeVars
<1>2. FlagCleared \/ UNCHANGED interrupted
  BY DEF StoreNothing, JobHandles, HarvestEnds, Join, CommitTarget, JoinRollback, RollbackTarget,
         JoinLast
<1>3. /\ pc' \in {"harvest", "store", "commit", "join", "storeFinal", "commitTarget",
                  "rollback", "joinRollback", "rollbackTarget",
                  "addFailed", "commitFailed", "committed", "rolledBack", "left"}
      /\ ShutDownBegun => ShutDownBegun'
      /\ Harvesting' => Harvesting
      /\ Concluded' => Concluded
  <2>1. CASE StoreNothing
    BY <2>1 DEF StoreNothing, Goto, ShutDownBegun, Harvesting, Concluded
  <2>2. CASE JobHandles
    BY <2>2 DEF JobHandles, Goto, ShutDownBegun, Harvesting, Concluded
  <2>3. CASE HarvestEnds
    BY <2>3 DEF HarvestEnds, Goto, ShutDownBegun, Harvesting, Concluded
  <2>4. CASE Join
    BY <2>4 DEF Join, JoinLast, Goto, ShutDownBegun, Harvesting, Concluded
  <2>5. CASE CommitTarget
    BY <2>5 DEF CommitTarget, Goto, ShutDownBegun, Harvesting, Concluded
  <2>6. CASE JoinRollback \/ RollbackTarget
    BY <2>6 DEF JoinRollback, JoinLast, RollbackTarget, Goto, ShutDownBegun, Harvesting, Concluded
  <2>7. QED
    BY <2>1, <2>2, <2>3, <2>4, <2>5, <2>6
<1>4. QED
  BY <1>1, <1>2, <1>3, MainMoves

\* The routers are interrupted, and lose messages from then on.
LEMMA ShutDownKeeps ==
  ASSUME IInv, ShutDown
  PROVE  IInv'
<1>1. TypeOK /\ InOrder(Line)
  BY DEF IInv
<1>2. TypeOK'
  BY <1>1 DEF TypeOK, ShutDown, Goto, storeVars
<1>3. /\ ShutDownBegun' /\ ~Harvesting' /\ ~Concluded'
  BY DEF ShutDown, Goto, ShutDownBegun, Harvesting, Concluded
<1>4. NotInterruptedYet'
  BY <1>3 DEF NotInterruptedYet
<1>5. Line' = Line /\ UNCHANGED <<stored, rejected, count, next, limit>>
  BY DEF ShutDown, Line, storeVars
<1>6. QED
  BY <1>1, <1>2, <1>3, <1>4, <1>5, Carried

LEMMA InterruptKeeps ==
  ASSUME IInv, Interrupt
  PROVE  IInv'
<1>1. TypeOK /\ InOrder(Line) /\ NotInterruptedYet
  BY DEF IInv
<1>2. /\ UNCHANGED <<queue, hand, router, running, pc, next, limit, count, stored, rejected>>
      /\ interrupts' \in 0..MaxInterrupts
      /\ interrupted' = [interrupted EXCEPT ![0] = TRUE]
  BY <1>1, PipelineAssumption DEF Interrupt, routerVars, mainVars, storeVars, TypeOK
<1>3. /\ interrupted' \in [0..Steps -> BOOLEAN]
      /\ \A s \in Step : interrupted'[s] = interrupted[s]
  <2>1. interrupted \in [0..Steps -> BOOLEAN] /\ \A s \in Step : s \in 0..Steps /\ s # 0
    BY <1>1, PlacesOf DEF TypeOK, Step
  <2>2. QED
    BY <1>2, <2>1
<1>4. TypeOK'
  BY <1>1, <1>2, <1>3 DEF TypeOK
<1>5. /\ NotInterruptedYet' /\ (ShutDownBegun' <=> ShutDownBegun)
      /\ (Harvesting' <=> Harvesting) /\ (Concluded' <=> Concluded)
  BY <1>1, <1>2, <1>3 DEF NotInterruptedYet, ShutDownBegun, Harvesting, Concluded
<1>6. Line' = Line
  BY <1>2 DEF Line
<1>7. QED
  BY <1>1, <1>2, <1>4, <1>5, <1>6, Carried

\* The first message of the last queue leaves the line.
LEMMA LastLeaves ==
  ASSUME IInv, queue[Steps] # <<>>, NEW h, h = Head(queue[Steps]),
         queue' = [queue EXCEPT ![Steps] = Tail(@)], UNCHANGED hand
  PROVE  /\ h \in Message /\ On(Line, h) /\ queue' \in Queues /\ InOrder(Line')
         /\ \A m : On(Line, m) <=> On(Line', m) \/ m = h
         /\ h # Stop => ~On(Line', h)
         /\ \A m : On(Line', m) => Earlier(h, m)
<1>1. Steps \in 0..Steps /\ 2 * Steps \in Places /\ TypeOK /\ InOrder(Line)
  BY PipelineAssumption, PlacesOf DEF IInv
<1>2. /\ Line \in Lines /\ Line[2 * Steps] = queue[Steps]
      /\ Line' = Without(Line, 2 * Steps)
  BY <1>1, LineIs, QueueLoses
<1>3. h \in Message /\ On(Line, h) /\ queue' \in Queues
  BY <1>1, QueueType
<1>4. /\ InOrder(Line')
      /\ \A m : On(Line, m) <=> On(Line', m) \/ m = Head(Line[2 * Steps])
      /\ Head(Line[2 * Steps]) # Stop => ~On(Line', Head(Line[2 * Steps]))
      /\ \A m : On(Line', m) => Earlier(Head(Line[2 * Steps]), m)
  BY <1>1, <1>2, HeadLeaves
<1>5. QED
  BY <1>2, <1>3, <1>4

LEMMA StorageThrowsKeeps ==
  ASSUME IInv, StorageThrows
  PROVE  IInv'
<1> DEFINE h == Head(queue[Steps])
<1>1. TypeOK /\ NotInterruptedYet
  BY DEF IInv
<1>2. /\ queue[Steps] # <<>> /\ h # Stop /\ queue' = [queue EXCEPT ![Steps] = Tail(@)]
      /\ FlagCleared /\ rejected' = rejected \union {h.rec}
      /\ UNCHANGED <<router, hand, running, interrupts, limit, next, count, stored>>
  BY DEF StorageThrows, NotRouters, routerVars
<1>3. /\ h \in Message /\ On(Line, h) /\ queue' \in Queues /\ InOrder(Line')
      /\ \A m : On(Line, m) <=> On(Line', m) \/ m = h
      /\ ~On(Line', h)
  BY <1>2, LastLeaves
<1>4. /\ interrupted' \in [0..Steps -> BOOLEAN]
      /\ \A s \in Step : interrupted'[s] = interrupted[s]
  BY <1>1, <1>2, FlagFrame
<1>5. /\ pc' \in {"addFailed", "commitFailed"}
      /\ ~ShutDownBegun /\ ~ShutDownBegun' /\ (Harvesting' => Harvesting) /\ ~Concluded'
  BY DEF StorageThrows, Goto, ShutDownBegun, Harvesting, Concluded
<1>6. rejected' \subseteq Rec
  BY <1>1, <1>2, <1>3, MessageType DEF TypeOK
<1>7. TypeOK'
  BY <1>1, <1>2, <1>3, <1>4, <1>5, <1>6, MainType DEF TypeOK
<1>8. NotInterruptedYet'
  BY <1>1, <1>4, <1>5 DEF NotInterruptedYet
<1> HIDE DEF h
<1>9. QED
  BY <1>2, <1>3, <1>5, <1>7, <1>8, Rejects

\* A record is stored while the harvest goes on, when the limit ends it, and at its end.
LEMMA StoreKeeps ==
  ASSUME IInv, Store \/ StoreFinal
  PROVE  IInv'
<1> DEFINE h == Head(queue[Steps])
<1>1. TypeOK /\ NotInterruptedYet
  BY DEF IInv
<1>2. /\ queue[Steps] # <<>> /\ h # Stop /\ queue' = [queue EXCEPT ![Steps] = Tail(@)]
      /\ FlagCleared /\ stored' = Append(stored, h)
      /\ UNCHANGED <<router, hand, running, interrupts, limit, next, rejected>>
  BY DEF Store, StoreFinal, StoreHead, NotRouters, routerVars
<1>3. /\ h \in Message /\ On(Line, h) /\ queue' \in Queues /\ InOrder(Line')
      /\ \A m : On(Line, m) <=> On(Line', m) \/ m = h
      /\ \A m : On(Line', m) => Earlier(h, m)
  BY <1>2, LastLeaves
<1>4. /\ interrupted' \in [0..Steps -> BOOLEAN]
      /\ \A s \in Step : interrupted'[s] = interrupted[s]
  BY <1>1, <1>2, FlagFrame
<1>5. /\ h.rec \in Rec /\ h = Record(h.rec) /\ count < h.rec
      /\ count \in 0..(IF limit = 0 THEN Records ELSE limit) /\ limit \in 0..Records
      /\ Harvesting => (limit > 0 => count < limit)
  BY <1>2, <1>3, MessageType DEF IInv, BehindTheStored, NoStopYet, TypeOK
<1> HIDE DEF h
<1>6. /\ count' \in count..(count + 1)
      /\ count' \in 0..(IF limit = 0 THEN Records ELSE limit)
      /\ Harvesting' => Harvesting /\ (limit > 0 => count' < limit)
      /\ pc' \in {"store", "commit", "storeFinal"}
      /\ ~ShutDownBegun /\ ~ShutDownBegun' /\ ~Concluded'
  <2>1. CASE Store
    <3>1. /\ pc = "store" /\ count' = count + 1
          /\ pc' = IF limit > 0 /\ count' >= limit THEN "commit" ELSE "store"
      BY <2>1 DEF Store, Goto
    <3>2. count \in Nat /\ limit \in Nat /\ Records \in Nat /\ h.rec \in Nat /\ h.rec =< Records
      BY <1>5, PipelineAssumption DEF Rec
    <3>3. limit > 0 => count < limit
      BY <1>5, <3>1 DEF Harvesting
    <3>4. count' \in count..(count + 1) /\ count' \in 0..(IF limit = 0 THEN Records ELSE limit)
      BY <1>5, <3>1, <3>2, <3>3
    <3>5. /\ Harvesting' => Harvesting /\ (limit > 0 => count' < limit)
          /\ pc' \in {"store", "commit", "storeFinal"}
          /\ ~ShutDownBegun /\ ~ShutDownBegun' /\ ~Concluded'
      BY <3>1, <3>2 DEF Harvesting, ShutDownBegun, Concluded
    <3>6. QED
      BY <3>4, <3>5
  <2>2. CASE StoreFinal
    <3>1. pc = "storeFinal" /\ pc' = pc /\ count' = count
      BY <2>2 DEF StoreFinal
    <3>2. QED
      BY <1>5, <3>1, PipelineAssumption DEF Harvesting, ShutDownBegun, Concluded
  <2>3. QED
    BY <2>1, <2>2
<1>7. stored' \in Seq([op : {"add", "delete"}, rec : Rec])
  <2>1. h \in [op : {"add", "delete"}, rec : Rec]
    BY <1>5 DEF Record
  <2>2. QED
    BY <1>1, <1>2, <2>1, AppendProperties DEF TypeOK
<1>8. TypeOK'
  BY <1>1, <1>2, <1>3, <1>4, <1>6, <1>7, MainType DEF TypeOK
<1>9. NotInterruptedYet'
  BY <1>1, <1>4, <1>6 DEF NotInterruptedYet
<1>10. h # Stop /\ stored' = Append(stored, h)
  BY <1>2 DEF h
<1>11. QED
  BY <1>2, <1>3, <1>6, <1>8, <1>9, <1>10, Stores

\* Behind the stop message there is nothing, and so nothing that is still missing.
LEMMA StopArrivesKeeps ==
  ASSUME IInv, StopArrives
  PROVE  IInv'
<1>1. TypeOK /\ NotInterruptedYet
  BY DEF IInv
<1>2. /\ queue[Steps] # <<>> /\ Head(queue[Steps]) = Stop
      /\ queue' = [queue EXCEPT ![Steps] = Tail(@)]
      /\ FlagCleared /\ pc = "storeFinal" /\ pc' = "commitTarget"
      /\ UNCHANGED <<router, hand, running, interrupts, limit, next, count, stored, rejected>>
  BY DEF StopArrives, NotRouters, routerVars, storeVars, Goto
<1>3. /\ queue' \in Queues /\ InOrder(Line')
      /\ \A m : On(Line, m) <=> On(Line', m) \/ m = Stop
      /\ \A m : On(Line', m) => Earlier(Stop, m)
  BY <1>2, LastLeaves
<1>4. /\ interrupted' \in [0..Steps -> BOOLEAN]
      /\ \A s \in Step : interrupted'[s] = interrupted[s]
  BY <1>1, <1>2, FlagFrame
<1>5. TypeOK'
  BY <1>1, <1>2, <1>3, <1>4, MainType DEF TypeOK
<1>6. NotInterruptedYet'
  BY <1>1, <1>2, <1>4 DEF NotInterruptedYet, ShutDownBegun
<1>7. \A m : On(Line', m) => m = Stop
  BY <1>3 DEF Earlier
<1>8. BehindTheStored'
  BY <1>2, <1>3 DEF IInv, BehindTheStored, Added
<1>9. WasHarvested' /\ NoStopYet' /\ LastHasArrived'
  BY <1>2, <1>7 DEF IInv, WasHarvested, NoStopYet, Harvesting, LastHasArrived
<1>10. ASSUME NEW r \in 1..(next - 1)
       PROVE  IsStored(r) \/ r \in rejected
  <2>1. r \in Rec
    BY <1>1, PipelineAssumption DEF TypeOK, Rec
  <2>2. Record(r) # Stop
    BY <2>1, MessageType
  <2>3. ~On(Line, Record(r))
    BY <1>3, <1>7, <2>2
  <2>4. QED
    BY <1>2, <2>3 DEF IInv, NoneLost, ShutDownBegun
<1>11. NoneLost' /\ StoredInOrder'
  BY <1>2, <1>10 DEF IInv, NoneLost, StoredInOrder, Added, IsStored
<1>12. QED
  BY <1>3, <1>5, <1>6, <1>8, <1>9, <1>11 DEF IInv

\* A message joins the line at the source.
LEMMA SourceGets ==
  ASSUME IInv, NEW m \in Message, \A x : On(Line, x) => Earlier(x, m),
         queue' = [queue EXCEPT ![0] = Append(@, m)], UNCHANGED hand
  PROVE  /\ queue' \in Queues /\ InOrder(Line')
         /\ \A x : On(Line', x) <=> On(Line, x) \/ x = m
<1>1. 0 \in 0..Steps /\ 0 \in Places /\ TypeOK /\ InOrder(Line) /\ Line \in Lines
  BY PipelineAssumption, PlacesOf, LineIs DEF IInv
<1>2. Line' = With(Line, 0, m)
  <2>1. Line' = With(Line, 2 * 0, m)
    BY <1>1, QueueGets
  <2>2. QED
    BY <2>1
<1>3. /\ \A q \in Places : \A i \in DOMAIN Line[q] : Earlier(Line[q][i], m)
      /\ \A q \in Places : ~(q < 0)
  BY PlacesOf DEF On
<1>4. /\ InOrder(Line')
      /\ \A x : On(Line', x) <=> On(Line, x) \/ x = m
  BY <1>1, <1>2, <1>3, Joins
<1>5. queue' \in Queues
  BY <1>1, QueueType
<1>6. QED
  BY <1>4, <1>5

LEMMA PutStopKeeps ==
  ASSUME IInv, PutStop
  PROVE  IInv'
<1>1. TypeOK /\ NotInterruptedYet
  BY DEF IInv
<1>2. /\ UNCHANGED <<router, hand, running, interrupts, limit, next, count, storeVars>>
      /\ FlagCleared /\ pc = "commit" /\ pc' \in {"commit", "join"}
  BY DEF PutStop, NotRouters, routerVars, Goto
<1>3. CASE interrupted[0]
  <2>1. queue' = queue /\ pc' = pc
    BY <1>3 DEF PutStop
  <2>2. QED
    BY <1>2, <2>1, MainMoves DEF Harvesting, ShutDownBegun, Concluded
<1>4. CASE ~interrupted[0]
  <2>1. queue' = [queue EXCEPT ![0] = Append(@, Stop)] /\ pc' = "join"
    BY <1>4 DEF PutStop, Goto
  <2>2. /\ queue' \in Queues /\ InOrder(Line')
        /\ \A x : On(Line', x) <=> On(Line, x) \/ x = Stop
    BY <1>2, <2>1, SourceGets, MessageType DEF Earlier
  <2>3. /\ interrupted' \in [0..Steps -> BOOLEAN]
        /\ \A s \in Step : interrupted'[s] = interrupted[s]
    BY <1>1, <1>2, FlagFrame
  <2>4. TypeOK'
    BY <1>1, <1>2, <2>1, <2>2, <2>3, MainType DEF TypeOK, storeVars
  <2>5. NotInterruptedYet'
    BY <1>1, <1>2, <2>1, <2>3 DEF NotInterruptedYet, ShutDownBegun
  <2>6. BehindTheStored'
    BY <1>2, <2>2 DEF IInv, BehindTheStored, Added, Earlier, storeVars
  <2>7. WasHarvested' /\ NoStopYet' /\ LastHasArrived'
    BY <1>2, <2>1 DEF IInv, WasHarvested, NoStopYet, Harvesting, LastHasArrived, storeVars
  <2>8. NoneLost' /\ StoredInOrder'
    BY <1>2, <2>1, <2>2 DEF IInv, NoneLost, ShutDownBegun, StoredInOrder, Added, IsStored, storeVars
  <2>9. QED
    BY <2>2, <2>4, <2>5, <2>6, <2>7, <2>8 DEF IInv
<1>5. QED
  BY <1>3, <1>4

LEMMA AddKeeps ==
  ASSUME IInv, Add
  PROVE  IInv'
<1> DEFINE m == Record(next)
<1>1. TypeOK /\ NotInterruptedYet /\ count < next /\ next \in Nat
  BY DEF IInv, WasHarvested, TypeOK
<1>2. /\ pc = "harvest" /\ pc' = "store" /\ next \in Rec /\ next' = next + 1 /\ FlagCleared
      /\ queue' = [queue EXCEPT ![0] = Append(@, m)]
      /\ UNCHANGED <<router, hand, running, interrupts, limit, count, stored, rejected>>
  BY DEF Add, Goto, NotRouters, routerVars, storeVars
<1>3. m \in Message /\ m.rec = next /\ m # Stop
  BY <1>2, MessageType
<1> HIDE DEF m
<1>4. ASSUME NEW x, On(Line, x)
      PROVE  x \in Message /\ x # Stop /\ x.rec < next
  <2>1. x \in Message /\ x # Stop
    BY <1>1, <1>2, <1>4, LineIs, OnLine DEF IInv, NoStopYet, Harvesting
  <2>2. QED
    BY <1>4, <2>1 DEF IInv, BehindTheStored
<1>5. /\ queue' \in Queues /\ InOrder(Line')
      /\ \A x : On(Line', x) <=> On(Line, x) \/ x = m
  BY <1>2, <1>3, <1>4, SourceGets DEF Earlier
<1>6. /\ interrupted' \in [0..Steps -> BOOLEAN]
      /\ \A s \in Step : interrupted'[s] = interrupted[s]
  BY <1>1, <1>2, FlagFrame
<1>7. next' \in 1..(Records + 1)
  BY <1>2, PipelineAssumption DEF Rec
<1>8. TypeOK'
  BY <1>1, <1>2, <1>5, <1>6, <1>7, MainType DEF TypeOK
<1>9. NotInterruptedYet'
  BY <1>1, <1>2, <1>6 DEF NotInterruptedYet, ShutDownBegun
<1>10. BehindTheStored'
  <2> SUFFICES ASSUME NEW x \in Message, On(Line', x)
               PROVE  /\ \A i \in DOMAIN stored : Added(i) => Earlier(stored[i], x)
                      /\ x # Stop => count < x.rec /\ x.rec < next' /\ x.rec \notin rejected
    BY <1>2 DEF BehindTheStored, Added
  <2>1. CASE On(Line, x)
    <3>1. x.rec \in Nat /\ next \in Nat
      BY <1>1, MessageType
    <3>2. QED
      BY <1>2, <2>1, <3>1 DEF IInv, BehindTheStored
  <2>2. CASE x = m
    <3>1. ASSUME NEW i \in DOMAIN stored, Added(i)
          PROVE  stored[i] # Stop /\ stored[i].rec < next
      BY <3>1 DEF Added, Stop, IInv, WasHarvested
    <3>2. next \notin rejected
      BY <1>1 DEF IInv, WasHarvested
    <3>3. QED
      BY <1>1, <1>2, <1>3, <2>2, <3>1, <3>2 DEF Earlier
  <2>3. QED
    BY <1>5, <2>1, <2>2
<1>11. WasHarvested'
  <2>1. \A i \in DOMAIN stored : stored[i].rec \in Nat
    BY StoredType
  <2>2. rejected \subseteq Nat /\ count \in Nat
    BY <1>1, PipelineAssumption DEF TypeOK, Rec
  <2>3. QED
    BY <1>1, <1>2, <2>1, <2>2 DEF IInv, WasHarvested
<1>12. NoStopYet' /\ LastHasArrived'
  BY <1>2, <1>3, <1>5 DEF IInv, NoStopYet, Harvesting, LastHasArrived
<1>13. NoneLost'
  <2> SUFFICES ASSUME NEW r \in 1..(next' - 1)
               PROVE  IsStored(r) \/ r \in rejected \/ On(Line', Record(r))
    BY <1>2 DEF NoneLost, IsStored
  <2>1. CASE r = next
    BY <1>5, <2>1 DEF m
  <2>2. CASE r # next
    <3>1. r \in 1..(next - 1)
      BY <1>1, <1>2, <2>2
    <3>2. QED
      BY <1>2, <1>5, <3>1 DEF IInv, NoneLost, ShutDownBegun
  <2>3. QED
    BY <2>1, <2>2
<1>14. StoredInOrder'
  BY <1>2 DEF IInv, StoredInOrder, Added
<1>15. QED
  BY <1>5, <1>8, <1>9, <1>10, <1>11, <1>12, <1>13, <1>14 DEF IInv

\* A deletion overtakes what is on the way.
LEMMA DeleteKeeps ==
  ASSUME IInv, Delete
  PROVE  IInv'
<1> DEFINE d == [op |-> "delete", rec |-> next]
<1>1. TypeOK /\ InOrder(Line) /\ NotInterruptedYet /\ count < next /\ next \in Nat
  BY DEF IInv, WasHarvested, TypeOK
<1>2. /\ pc = "harvest" /\ pc' = pc /\ next \in Rec /\ next' = next + 1
      /\ stored' = Append(stored, d)
      /\ UNCHANGED <<queue, interrupted, router, hand, running, interrupts, limit, count, rejected>>
  BY DEF Delete, NotRouters, routerVars
<1> PICK n : n = Len(stored) + 1
  OBVIOUS
<1>3. /\ n \in Nat /\ DOMAIN stored = 1..(n - 1) /\ DOMAIN stored' = 1..n
      /\ stored'[n] = d /\ \A i \in DOMAIN stored : stored'[i] = stored[i]
      /\ stored' \in Seq([op : {"add", "delete"}, rec : Rec])
      /\ n \in DOMAIN stored' /\ stored'[n].op = "delete" /\ stored'[n].rec = next
  <2>1. stored \in Seq([op : {"add", "delete"}, rec : Rec]) /\ d \in [op : {"add", "delete"}, rec : Rec]
    BY <1>1, <1>2 DEF TypeOK
  <2>2. d.op = "delete" /\ d.rec = next
    OBVIOUS
  <2> HIDE DEF d
  <2>3. QED
    BY <1>2, <2>1, <2>2, StoredType, AppendProperties, LenProperties
<1>4. \A i \in DOMAIN stored' : Added(i)' => i \in DOMAIN stored /\ Added(i)
  <2>1. ~Added(n)'
    BY <1>3 DEF Added
  <2>2. QED
    BY <1>3, <2>1 DEF Added
<1>5. Line' = Line
  BY <1>2 DEF Line
<1>6. TypeOK'
  <2>1. next' \in 1..(Records + 1)
    BY <1>2, PipelineAssumption DEF Rec
  <2>2. QED
    BY <1>1, <1>2, <1>3, <2>1 DEF TypeOK
<1>7. NotInterruptedYet'
  BY <1>1, <1>2 DEF NotInterruptedYet, ShutDownBegun
<1>8. BehindTheStored'
  <2> SUFFICES ASSUME NEW x \in Message, On(Line, x)
               PROVE  /\ \A i \in DOMAIN stored' : Added(i)' => Earlier(stored'[i], x)
                      /\ x # Stop => count < x.rec /\ x.rec < next' /\ x.rec \notin rejected
    BY <1>2, <1>5 DEF BehindTheStored
  <2>1. x.rec \in Nat
    BY MessageType
  <2>2. QED
    BY <1>1, <1>2, <1>3, <1>4, <2>1 DEF IInv, BehindTheStored
<1>9. WasHarvested'
  <2>1. \A i \in DOMAIN stored' : i = n \/ i \in DOMAIN stored
    BY <1>3
  <2>2. rejected \subseteq Nat /\ count \in Nat
    BY <1>1, PipelineAssumption DEF TypeOK, Rec
  <2>3. \A i \in DOMAIN stored' : stored'[i].rec < next'
    BY <1>1, <1>2, <1>3, <2>1, StoredType DEF IInv, WasHarvested
  <2>4. \A r \in rejected : r < next'
    BY <1>1, <1>2, <2>2 DEF IInv, WasHarvested
  <2>5. QED
    BY <1>1, <1>2, <2>2, <2>3, <2>4 DEF WasHarvested
<1>10. NoStopYet' /\ LastHasArrived'
  BY <1>2, <1>5 DEF IInv, NoStopYet, Harvesting, LastHasArrived
<1>11. \A r : IsStored(r) \/ r = next => IsStored(r)'
  <2>1. n \in DOMAIN stored' /\ stored'[n].rec = next
    BY <1>3
  <2>2. QED
    BY <1>3, <2>1 DEF IsStored
<1>12. NoneLost'
  <2> SUFFICES ASSUME NEW r \in 1..(next' - 1)
               PROVE  IsStored(r)' \/ r \in rejected \/ On(Line, Record(r))
    BY <1>2, <1>5 DEF NoneLost
  <2>1. CASE r = next
    BY <1>11, <2>1
  <2>2. CASE r # next
    <3>1. r \in 1..(next - 1)
      BY <1>1, <1>2, <2>2
    <3>2. QED
      BY <1>2, <1>11, <3>1 DEF IInv, NoneLost, ShutDownBegun
  <2>3. QED
    BY <2>1, <2>2
<1>13. StoredInOrder'
  BY <1>2, <1>3, <1>4 DEF IInv, StoredInOrder
<1>14. QED
  BY <1>1, <1>5, <1>6, <1>7, <1>8, <1>9, <1>10, <1>12, <1>13 DEF IInv

-----------------------------------------------------------------------------
(* The theorems *)

LEMMA InitIInv == Init => IInv
<1> SUFFICES ASSUME Init PROVE IInv
  OBVIOUS
<1>1. TypeOK
  BY PipelineAssumption DEF Init, TypeOK, Step
<1>2. \A p \in Places : Line[p] = <<>>
  BY Parity DEF Init, Line, LineOf
<1>3. DOMAIN <<>> = {}
  OBVIOUS
<1>4. InOrder(Line) /\ \A m : ~On(Line, m)
  BY <1>2, <1>3 DEF InOrder, On
<1>5. DOMAIN stored = {} /\ next = 1 /\ rejected = {} /\ count = 0 /\ pc = "harvest"
  BY <1>3 DEF Init
<1>6. NotInterruptedYet
  BY PlacesOf DEF Init, NotInterruptedYet
<1>7. BehindTheStored /\ WasHarvested /\ LastHasArrived
  BY <1>4, <1>5 DEF BehindTheStored, WasHarvested, LastHasArrived, Added
<1>8. NoStopYet
  BY <1>4, <1>5, PipelineAssumption DEF NoStopYet
<1>9. NoneLost /\ StoredInOrder
  BY <1>5 DEF NoneLost, StoredInOrder, Added
<1>10. QED
  BY <1>1, <1>4, <1>6, <1>7, <1>8, <1>9 DEF IInv

\* However the threads of the steps, the harvesting thread and kill() interleave: the
\* line from the source to the last queue stays in the order of the harvest, behind what
\* is stored, and until a rollback shuts the routers down every record is stored,
\* rejected or on it.
THEOREM Invariance == Spec => []IInv
<1>1. IInv /\ [Next]_vars => IInv'
  <2> SUFFICES ASSUME IInv, [Next]_vars PROVE IInv'
    OBVIOUS
  <2>1. CASE \E s \in Step : RouterStep(s)
    BY <2>1, RouterKeeps
  <2>2. CASE MainStep
    BY <2>2, AddKeeps, DeleteKeeps, MovesKeep, StoreKeeps, StorageThrowsKeeps, PutStopKeeps,
       StopArrivesKeeps, ShutDownKeeps DEF MainStep
  <2>3. CASE Interrupt
    BY <2>3, InterruptKeeps
  <2>4. CASE UNCHANGED vars
    BY <2>4 DEF vars, routerVars, mainVars, storeVars, IInv, TypeOK, InOrder, BehindTheStored,
       WasHarvested, NoStopYet, NotInterruptedYet, NoneLost, LastHasArrived, StoredInOrder,
       Line, On, Added, IsStored, Harvesting, ShutDownBegun
  <2>5. QED
    BY <2>1, <2>2, <2>3, <2>4 DEF Next
<1>2. QED
  BY <1>1, InitIInv, PTL DEF Spec

\* The types of the pipeline's state: a router has a message in hand exactly between
\* take() and put(), and count never passes the record limit of
\* ThreadedTransformationRecordStorageProxy.
THEOREM TypeCorrect == Spec => []TypeOK
<1>1. IInv => TypeOK
  BY DEF IInv
<1>2. QED
  BY <1>1, Invariance, PTL

\* The storage is given the additions in the order of the harvest, each once and none
\* that was rejected, and a commit comes only when every record that was harvested has
\* been stored or rejected: for any number of transformation steps, records and
\* interrupts, with steps that throw and die and a storage that throws.
THEOREM RecordsArriveInOrder == Spec => []StoredInOrder
<1>1. IInv => StoredInOrder
  BY DEF IInv
<1>2. QED
  BY <1>1, Invariance, PTL

-----------------------------------------------------------------------------
(* The pipeline is a pipe of records *)

\* A step at which the pipe does not move.
LEMMA Stutters ==
  ASSUME Phase' = Phase, UNCHANGED <<next, stored, rejected>>,
         \A r \in Rec : On(Line', Record(r)) <=> On(Line, Record(r))
  PROVE  UNCHANGED Pipe!vars
<1>1. Pending' = Pending
  BY DEF Pending
<1>2. QED
  BY <1>1 DEF Pipe!vars

\* The harvesting thread moves, and nothing on the line does.
LEMMA LineStays ==
  ASSUME Phase' = Phase, UNCHANGED <<queue, hand, next, stored, rejected>>
  PROVE  UNCHANGED Pipe!vars
<1>1. Line' = Line
  BY DEF Line
<1>2. QED
  BY <1>1, Stutters

\* A record that leaves the line is no longer on its way.
LEMMA OneLess ==
  ASSUME NEW h \in Message, h # Stop, On(Line, h), ~On(Line', h),
         \A m : On(Line, m) <=> On(Line', m) \/ m = h
  PROVE  /\ h.rec \in Pending /\ Pending' = Pending \ {h.rec}
         /\ h = Record(h.rec) /\ h.rec \in Rec
<1>1. h.rec \in Rec /\ h = Record(h.rec)
  BY MessageType
<1>2. \A r \in Rec : Record(r) = h <=> r = h.rec
  BY <1>1, MessageType
<1>3. \A r \in Rec : On(Line', Record(r)) <=> On(Line, Record(r)) /\ r # h.rec
  BY <1>2
<1>4. QED
  BY <1>1, <1>3 DEF Pending

\* A record that is rejected, by a step or by the storage.
LEMMA IsRejected ==
  ASSUME NEW h \in Message, h # Stop, On(Line, h), ~On(Line', h),
         \A m : On(Line, m) <=> On(Line', m) \/ m = h,
         Phase' = Phase, UNCHANGED <<next, stored>>, rejected' = rejected \union {h.rec}
  PROVE  Pipe!Reject
<1>1. h.rec \in Pending /\ Pending' = Pending \ {h.rec}
  BY OneLess
<1>2. QED
  BY <1>1 DEF Pipe!Reject

\* A router moves a record on, rejects it, or loses it after the rollback has shut it
\* down.
LEMMA RouterRefines ==
  ASSUME IInv, NEW s \in Step, RouterStep(s)
  PROVE  Pipe!Reject \/ Pipe!Lose \/ UNCHANGED Pipe!vars
<1>1. TypeOK /\ InOrder(Line) /\ NotInterruptedYet /\ Line \in Lines
  BY LineIs DEF IInv
<1>2. UNCHANGED <<pc, next, stored>> /\ Phase' = Phase
  BY RouterFrame DEF Phase
<1>3. CASE RouterEnds(s) \/ ConsumeStop(s) \/ Transform(s)
  <2>1. UNCHANGED <<queue, hand, rejected>>
    BY <1>3 DEF RouterEnds, ConsumeStop, Transform, storeVars
  <2>2. QED
    BY <1>2, <2>1, LineStays
<1>4. CASE Take(s)
  <2>1. /\ UNCHANGED rejected /\ router[s] = "loop" /\ queue[s - 1] # <<>>
        /\ queue' = [queue EXCEPT ![s - 1] = Tail(queue[s - 1])]
        /\ hand' = [hand EXCEPT ![s] = <<Head(queue[s - 1])>>]
    BY <1>4 DEF Take, storeVars
  <2>2. \A m : On(Line', m) <=> On(Line, m)
    BY <1>1, <2>1, HandTakes
  <2>3. QED
    BY <1>2, <2>1, <2>2, Stutters
<1>5. ASSUME router[s] \in {"consume", "produce"}, hand[s][1] # Stop,
             queue' = queue, hand' = [hand EXCEPT ![s] = <<>>]
      PROVE  /\ hand[s][1] \in Message /\ On(Line, hand[s][1]) /\ ~On(Line', hand[s][1])
             /\ \A m : On(Line, m) <=> On(Line', m) \/ m = hand[s][1]
  <2>1. /\ hand[s] # <<>> /\ hand[s][1] \in Message
        /\ hand[s][1] = Head(hand[s]) /\ On(Line, hand[s][1])
    BY <1>1, <1>5, InHand
  <2>2. Line' = Without(Line, 2 * s - 1) /\ Line[2 * s - 1] = hand[s] /\ 2 * s - 1 \in Places
    BY <1>1, <1>5, HandDrops, LineIs, PlacesOf
  <2>3. QED
    BY <1>1, <1>5, <2>1, <2>2, HeadLeaves
<1>6. CASE PutError(s) \/ RouterDies(s)
  <2>1. /\ router[s] = "consume" /\ hand[s] # <<Stop>>
        /\ rejected' = rejected \union {hand[s][1].rec}
        /\ queue' = queue /\ hand' = [hand EXCEPT ![s] = <<>>]
    BY <1>6 DEF PutError, RouterDies
  <2>2. hand[s][1] # Stop
    BY <1>1, <2>1, InHand
  <2>3. QED
    BY <1>2, <1>5, <2>1, <2>2, IsRejected
<1>7. CASE Produce(s)
  <2>1. UNCHANGED rejected /\ router[s] = "produce" /\ hand' = [hand EXCEPT ![s] = <<>>]
    BY <1>7 DEF Produce, storeVars
  <2>2. CASE ~interrupted[s]
    <3>1. queue' = [queue EXCEPT ![s] = Append(queue[s], hand[s][1])]
      BY <1>7, <2>2 DEF Produce
    <3>2. \A m : On(Line', m) <=> On(Line, m)
      BY <1>1, <2>1, <3>1, HandPuts
    <3>3. QED
      BY <1>2, <2>1, <3>2, Stutters
  <2>3. CASE interrupted[s] /\ hand[s][1] # Stop
    <3>1. queue' = queue
      BY <1>7, <2>3 DEF Produce
    <3>2. /\ hand[s][1] \in Message /\ On(Line, hand[s][1]) /\ ~On(Line', hand[s][1])
          /\ \A m : On(Line, m) <=> On(Line', m) \/ m = hand[s][1]
      BY <1>5, <2>1, <2>3, <3>1
    <3>3. hand[s][1].rec \in Pending /\ Pending' = Pending \ {hand[s][1].rec}
      BY <2>3, <3>2, OneLess
    <3>4. Phase \in {"closing", "over"}
      BY <1>1, <2>3 DEF NotInterruptedYet, ShutDownBegun, Phase
    <3>5. QED
      BY <1>2, <2>1, <3>3, <3>4 DEF Pipe!Lose
  <2>4. CASE interrupted[s] /\ hand[s][1] = Stop
    <3>1. queue' = queue
      BY <1>7, <2>4 DEF Produce
    <3>2. /\ Line' = Without(Line, 2 * s - 1) /\ Line[2 * s - 1] = hand[s]
          /\ 2 * s - 1 \in Places /\ hand[s] # <<>> /\ Head(hand[s]) = Stop
      BY <1>1, <2>1, <2>4, <3>1, HandDrops, LineIs, PlacesOf, InHand
    <3>3. \A m : On(Line, m) <=> On(Line', m) \/ m = Stop
      BY <1>1, <3>2, HeadLeaves
    <3>4. \A r \in Rec : On(Line', Record(r)) <=> On(Line, Record(r))
      BY <3>3, MessageType
    <3>5. QED
      BY <1>2, <2>1, <3>4, Stutters
  <2>5. QED
    BY <2>2, <2>3, <2>4
<1>8. QED
  BY <1>3, <1>4, <1>6, <1>7 DEF RouterStep

\* The next record of the harvest is put on the line, behind all others.
LEMMA AddRefines ==
  ASSUME IInv, Add
  PROVE  \E r \in Rec : Pipe!Add(r)
<1>1. /\ pc = "harvest" /\ pc' = "store" /\ next \in Rec /\ next' = next + 1
      /\ queue' = [queue EXCEPT ![0] = Append(@, Record(next))]
      /\ UNCHANGED <<hand, stored, rejected>>
  BY DEF Add, Goto, NotRouters, routerVars, storeVars
<1>2. next \in Nat
  BY PipelineAssumption, <1>1 DEF Rec
<1>3. ASSUME NEW x, On(Line, x)
      PROVE  Earlier(x, Record(next))
  <2>1. x \in Message /\ x # Stop
    BY <1>1, <1>3, LineIs, OnLine DEF IInv, NoStopYet, Harvesting
  <2>2. x.rec < next
    BY <1>3, <2>1 DEF IInv, BehindTheStored
  <2>3. QED
    BY <1>1, <2>1, <2>2, MessageType DEF Earlier
<1>4. \A x : On(Line', x) <=> On(Line, x) \/ x = Record(next)
  BY <1>1, <1>3, MessageType, SourceGets
<1>5. \A r \in Rec : Record(r) = Record(next) <=> r = next
  BY <1>1, MessageType
<1>6. Pending' = Pending \union {next}
  BY <1>1, <1>4, <1>5 DEF Pending
<1>7. Phase = "open" /\ Phase' = "open"
  BY <1>1 DEF Phase
<1>8. next - 1 < next /\ next' - 1 = next
  BY <1>1, <1>2
<1>9. Pipe!Add(next)
  BY <1>1, <1>6, <1>7, <1>8 DEF Pipe!Add, Pipe!Harvest
<1>10. QED
  BY <1>1, <1>9

\* The next record of the harvest is a deletion, and goes straight to the storage.
LEMMA DeleteRefines ==
  ASSUME IInv, Delete
  PROVE  \E r \in Rec : Pipe!Delete(r)
<1>1. /\ pc = "harvest" /\ pc' = pc /\ next \in Rec /\ next' = next + 1
      /\ stored' = Append(stored, [op |-> "delete", rec |-> next])
      /\ UNCHANGED <<queue, hand, rejected>>
  BY DEF Delete, NotRouters, routerVars
<1>2. Line' = Line
  BY <1>1 DEF Line
<1>3. Pending' = Pending
  BY <1>2 DEF Pending
<1>4. Phase = "open" /\ Phase' = "open"
  BY <1>1 DEF Phase
<1>5. next - 1 < next /\ next' - 1 = next
  BY <1>1, PipelineAssumption DEF Rec
<1>6. Pipe!Delete(next)
  BY <1>1, <1>3, <1>4, <1>5 DEF Pipe!Delete, Pipe!Harvest, Pipe!Deletion
<1>7. QED
  BY <1>1, <1>6

\* The first message of the last queue is the oldest of all that are on their way.
LEMMA StoreRefines ==
  ASSUME IInv, Store \/ StoreFinal
  PROVE  Pipe!Store
<1> DEFINE h == Head(queue[Steps])
<1>1. /\ queue[Steps] # <<>> /\ h # Stop /\ queue' = [queue EXCEPT ![Steps] = Tail(@)]
      /\ stored' = Append(stored, h)
      /\ UNCHANGED <<hand, next, rejected>>
  BY DEF Store, StoreFinal, StoreHead, NotRouters, routerVars
<1>2. /\ h \in Message /\ On(Line, h) /\ ~On(Line', h)
      /\ \A m : On(Line, m) <=> On(Line', m) \/ m = h
      /\ \A m : On(Line', m) => Earlier(h, m)
  BY <1>1, LastLeaves
<1>3. Phase = "open" /\ Phase' = "open"
  BY DEF Store, StoreFinal, Goto, Phase
<1> HIDE DEF h
<1>4. /\ h.rec \in Pending /\ Pending' = Pending \ {h.rec}
      /\ h = Record(h.rec) /\ h.rec \in Rec
  BY <1>1, <1>2, OneLess
<1>5. ASSUME NEW p \in Pending
      PROVE  h.rec <= p
  <2>1. p \in Rec /\ On(Line, Record(p)) /\ p \in Nat /\ h.rec \in Nat
    BY <1>4, <1>5, PipelineAssumption DEF Pending, Rec
  <2>2. CASE Record(p) = h
    BY <2>1, <2>2, MessageType
  <2>3. CASE On(Line', Record(p))
    BY <1>2, <2>1, <2>3, MessageType DEF Earlier
  <2>4. QED
    BY <1>2, <2>1, <2>2, <2>3
<1>6. stored' = Append(stored, Pipe!Addition(h.rec))
  BY <1>1, <1>4 DEF Pipe!Addition, Record
<1>7. QED
  BY <1>1, <1>3, <1>4, <1>5, <1>6 DEF Pipe!Store, Pipe!Oldest

LEMMA StorageThrowsRefines ==
  ASSUME IInv, StorageThrows
  PROVE  Pipe!Reject
<1> DEFINE h == Head(queue[Steps])
<1>1. /\ queue[Steps] # <<>> /\ h # Stop /\ queue' = [queue EXCEPT ![Steps] = Tail(@)]
      /\ rejected' = rejected \union {h.rec}
      /\ UNCHANGED <<hand, next, stored>>
  BY DEF StorageThrows, NotRouters, routerVars
<1>2. /\ h \in Message /\ On(Line, h) /\ ~On(Line', h)
      /\ \A m : On(Line, m) <=> On(Line', m) \/ m = h
  BY <1>1, LastLeaves
<1>3. Phase' = Phase
  BY DEF StorageThrows, Goto, Phase
<1> HIDE DEF h
<1>4. QED
  BY <1>1, <1>2, <1>3, IsRejected

\* The stop message is no record.
LEMMA StopRefines ==
  ASSUME IInv, PutStop \/ StopArrives
  PROVE  UNCHANGED Pipe!vars
<1>1. UNCHANGED <<hand, next, stored, rejected>> /\ Phase' = Phase
  BY DEF PutStop, StopArrives, NotRouters, routerVars, storeVars, Goto, Phase
<1>2. CASE queue' = queue
  BY <1>1, <1>2, LineStays
<1>3. CASE queue' = [queue EXCEPT ![0] = Append(@, Stop)]
  <2>1. \A x : On(Line', x) <=> On(Line, x) \/ x = Stop
    BY <1>1, <1>3, SourceGets, MessageType DEF Earlier
  <2>2. QED
    BY <1>1, <2>1, MessageType, Stutters
<1>4. CASE StopArrives
  <2>1. /\ queue[Steps] # <<>> /\ Head(queue[Steps]) = Stop
        /\ queue' = [queue EXCEPT ![Steps] = Tail(@)]
    BY <1>4 DEF StopArrives
  <2>2. \A m : On(Line, m) <=> On(Line', m) \/ m = Stop
    BY <1>1, <2>1, LastLeaves
  <2>3. QED
    BY <1>1, <2>2, MessageType, Stutters
<1>5. QED
  BY <1>2, <1>3, <1>4 DEF PutStop

\* When the storage is committed, the stop message has come, and no record is behind it.
LEMMA CommitRefines ==
  ASSUME IInv, CommitTarget
  PROVE  Pipe!Commit \/ UNCHANGED Pipe!vars
<1>1. /\ pc = "commitTarget" /\ pc' \in {"committed", "commitFailed"}
      /\ UNCHANGED <<queue, hand, next, stored, rejected>>
  BY DEF CommitTarget, NotRouters, routerVars, storeVars
<1>2. Line' = Line /\ Pending' = Pending
  BY <1>1 DEF Line, Pending
<1>3. Pending = {}
  BY <1>1, MessageType DEF IInv, LastHasArrived, Pending
<1>4. Phase = "open" /\ (Phase' = "committed" \/ Phase' = "open")
  BY <1>1 DEF Phase
<1>5. CASE Phase' = "committed"
  BY <1>1, <1>2, <1>3, <1>4, <1>5 DEF Pipe!Commit
<1>6. CASE Phase' = "open"
  BY <1>1, <1>4, <1>6, LineStays
<1>7. QED
  BY <1>4, <1>5, <1>6

\* What the job decides, and the rest of the rollback.
LEMMA DecisionRefines ==
  ASSUME JobHandles \/ HarvestEnds \/ RollbackTarget
  PROVE  \/ Pipe!BeginRollback \/ Pipe!EndRollback \/ Pipe!GiveUp
         \/ UNCHANGED Pipe!vars
<1>1. UNCHANGED <<queue, hand, next, stored, rejected>>
  BY DEF JobHandles, HarvestEnds, RollbackTarget, NotRouters, routerVars, storeVars
<1>2. Line' = Line /\ Pending' = Pending
  BY <1>1 DEF Line, Pending
<1>3. \/ Phase' = Phase
      \/ Phase = "open" /\ Phase' = "closing"
      \/ Phase = "closing" /\ Phase' = "over"
      \/ Phase = "open" /\ Phase' = "over"
  BY DEF JobHandles, HarvestEnds, RollbackTarget, Goto, Phase
<1>4. CASE Phase' = Phase
  BY <1>1, <1>4, LineStays
<1>5. QED
  BY <1>1, <1>2, <1>3, <1>4 DEF Pipe!BeginRollback, Pipe!EndRollback, Pipe!GiveUp

\* These move only a thread or a flag.
LEMMA RestRefines ==
  ASSUME StoreNothing \/ Join \/ ShutDown \/ JoinRollback \/ Interrupt
  PROVE  UNCHANGED Pipe!vars
<1>1. UNCHANGED <<queue, hand, next, stored, rejected>>
  BY DEF StoreNothing, Join, ShutDown, JoinRollback, Interrupt, NotRouters, routerVars,
         mainVars, storeVars
<1>2. Phase' = Phase
  BY DEF StoreNothing, Join, JoinLast, ShutDown, JoinRollback, Interrupt, Goto, mainVars, Phase
<1>3. QED
  BY <1>1, <1>2, LineStays

\* With any number of steps, each a thread of its own, with a harvesting thread that is
\* interrupted at any point, with records that are rejected, threads that die and a
\* storage that throws, the transformation is a pipe: records come out in the order of
\* the harvest, each once, none is lost before a rollback, a commit comes when none is on
\* its way, and nothing is stored once a rollback has begun.
THEOREM PipelineIsPipe == Spec => RecordsComeThrough
<1>1. Init => Pipe!Init
  <2> SUFFICES ASSUME Init PROVE Pipe!Init
    OBVIOUS
  <2>1. \A p \in Places : Line[p] = <<>>
    BY Parity DEF Init, Line, LineOf
  <2>2. DOMAIN <<>> = {}
    OBVIOUS
  <2>3. Pending = {}
    BY <2>1, <2>2 DEF On, Pending
  <2>4. Phase = "open"
    BY DEF Init, Phase
  <2>5. next - 1 = 0 /\ stored = <<>> /\ rejected = {}
    BY DEF Init
  <2>6. QED
    BY <2>3, <2>4, <2>5 DEF Pipe!Init
<1>2. IInv /\ [Next]_vars => [Pipe!Next]_(Pipe!vars)
  <2> SUFFICES ASSUME IInv, [Next]_vars PROVE Pipe!Next \/ UNCHANGED Pipe!vars
    OBVIOUS
  <2>1. CASE \E s \in Step : RouterStep(s)
    BY <2>1, RouterRefines DEF Pipe!Next
  <2>2. CASE MainStep
    BY <2>2, AddRefines, DeleteRefines, StoreRefines, StorageThrowsRefines, StopRefines,
       CommitRefines, DecisionRefines, RestRefines DEF MainStep, Pipe!Next
  <2>3. CASE Interrupt
    BY <2>3, RestRefines
  <2>4. CASE UNCHANGED vars
    <3>1. UNCHANGED <<queue, hand, pc, next, stored, rejected>>
      BY <2>4 DEF vars, routerVars, mainVars, storeVars
    <3>2. QED
      BY <3>1, LineStays DEF Phase
  <2>5. QED
    BY <2>1, <2>2, <2>3, <2>4 DEF Next
<1>3. QED
  BY <1>1, <1>2, Invariance, PTL DEF Spec, RecordsComeThrough, Pipe!Spec
=============================================================================
