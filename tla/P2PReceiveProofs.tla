-------------------------- MODULE P2PReceiveProofs --------------------------
(***************************************************************************)
(* Proofs about the receiving side of a P2P data stream, for every size of *)
(* the sequence counter, of the window and of the boundary: type           *)
(* correctness, that what is queued lies ahead, that a repeated datagram   *)
(* is recognised, and that the handler implements FifoStream.  The number  *)
(* 65535 repeated after the wrap is excluded (LateLast): the code does not *)
(* recognise it, as the run receive_boundary shows.                        *)
(***************************************************************************)
EXTENDS P2PReceive, TLAPS

-----------------------------------------------------------------------------
(* Positions *)

\* Counting on from a position: the result is a position, as far ahead as was counted.
LEMMA AdvanceLemma ==
  ASSUME NEW c \in Position, NEW n \in 0 .. Modulus
  PROVE  /\ Advance(c, n) \in Position
         /\ n < Modulus => Distance(c, Advance(c, n)) = n
         /\ n < Modulus => Advance(c, n).no = Following(c.no, n)
BY SequenceAssumption DEF Position, SeqNos, Modulus, Advance, Distance, Following

\* Less than a lap ahead, the distance determines the position.
LEMMA DistanceLemma ==
  ASSUME NEW c \in Position, NEW q \in Position, Distance(c, q) \in 0 .. MAX_SEQUENCE_NUMBER
  PROVE  q = Advance(c, Distance(c, q))
<1>1. CASE q.lap = c.lap
  BY <1>1, SequenceAssumption DEF Position, SeqNos, Modulus, Advance, Distance
<1>2. CASE q.lap = c.lap + 1
  BY <1>2, SequenceAssumption DEF Position, SeqNos, Modulus, Advance, Distance
<1>3. CASE c.lap = q.lap + 1
  BY <1>3, SequenceAssumption DEF Position, SeqNos, Modulus, Advance, Distance
<1>4. CASE q.lap # c.lap /\ q.lap # c.lap + 1 /\ c.lap # q.lap + 1
  BY <1>4, SequenceAssumption DEF Position, SeqNos, Modulus, Advance, Distance
<1>. QED BY <1>1, <1>2, <1>3, <1>4

\* Distances add up: what lies d ahead of c lies d - n ahead of the position n after c.
LEMMA DistanceFromAdvance ==
  ASSUME NEW c \in Position, NEW n \in 0 .. Modulus, NEW d \in n .. MAX_SEQUENCE_NUMBER
  PROVE  Distance(Advance(c, n), Advance(c, d)) = d - n
BY SequenceAssumption DEF Position, SeqNos, Modulus, Advance, Distance

\* Counting on in two steps.
LEMMA AdvanceTwice ==
  ASSUME NEW c \in Position, NEW n \in 0 .. MAX_SEQUENCE_NUMBER
  PROVE  Advance(Advance(c, n), 1) = Advance(c, n + 1)
BY SequenceAssumption DEF Position, SeqNos, Modulus, Advance

\* Within a lap, different counts lead to different numbers.
LEMMA FollowingInjective ==
  ASSUME NEW s \in SeqNos, NEW i \in 0 .. MAX_SEQUENCE_NUMBER, NEW j \in 0 .. MAX_SEQUENCE_NUMBER,
         Following(s, i) = Following(s, j)
  PROVE  i = j
BY SequenceAssumption DEF SeqNos, Modulus, Following

-----------------------------------------------------------------------------
(* Type correctness *)

\* A step keeps the types whatever arrives, the number repeated after the wrap included.
LEMMA NextType ==
  ASSUME TypeOK, [Next]_vars
  PROVE  TypeOK'
<1>. USE SequenceAssumption, WrapAssumption
<1>1. CASE Send
  <2>1. sent' \in Position
    BY <1>1, AdvanceLemma DEF TypeOK, Send, SendNext, Modulus
  <2>. QED BY <1>1, <2>1 DEF Send, SendNext, TypeOK
<1>2. ASSUME NEW p \in Positions, ReceiveExpected(p)
      PROVE  TypeOK'
  <2>. DEFINE message(i) == IF i = 1 THEN p ELSE queuedData[Following(p.no, i - 1)]
  <2>1. PICK n \in 1 .. Modulus :
          /\ \A i \in 1 .. n - 1 : Following(p.no, i) \in DOMAIN queuedData
          /\ parsed' = [i \in 1 .. n |-> message(i)]
          /\ cursor' = Advance(message(n), 1)
          /\ expectedSeqNo' = Following(p.no, n)
          /\ queuedData' = Restrict(queuedData,
                             DOMAIN queuedData \ {Following(p.no, i) : i \in 1 .. n - 1})
    BY <1>2, Zenon DEF ReceiveExpected
  <2>2. p \in Position
    BY DEF Positions, Position
  <2>3. \A i \in 1 .. n : message(i) \in Position
    <3>. SUFFICES ASSUME NEW i \in 1 .. n PROVE message(i) \in Position
      OBVIOUS
    <3>1. CASE i = 1
      BY <2>2, <3>1
    <3>2. CASE i # 1
      <4>1. i - 1 \in 1 .. n - 1
        BY <3>2
      <4>. QED BY <2>1, <3>2, <4>1 DEF TypeOK
    <3>. QED BY <3>1, <3>2
  <2>. HIDE DEF message
  <2>4. cursor' \in Position /\ parsed' \in Seq(Position)
    <3>1. n \in 1 .. n /\ 1 \in 0 .. Modulus
      BY DEF Modulus
    <3>. QED BY <2>1, <2>3, <3>1, AdvanceLemma
  <2>5. expectedSeqNo' \in SeqNos
    BY <2>1, <2>2 DEF Position, SeqNos, Following, Modulus
  <2>6. sent' = sent
    BY <1>2 DEF ReceiveExpected
  <2>. QED BY <2>1, <2>4, <2>5, <2>6 DEF TypeOK, Restrict
<1>3. ASSUME NEW p \in Positions, ReceiveEarly(p)
      PROVE  TypeOK'
  BY <1>3 DEF ReceiveEarly, TypeOK, Positions, Position
<1>4. ASSUME NEW p \in Positions, ReceiveAgain(p)
      PROVE  TypeOK'
  BY <1>4 DEF ReceiveAgain, vars, TypeOK
<1>5. CASE EndStream
  <2>1. PICK last \in DOMAIN queuedData :
          expectedSeqNo' = _incrementSequence(last) /\ cursor' = Advance(queuedData[last], 1)
    BY <1>5 DEF EndStream
  <2>2. queuedData[last] \in Position /\ last \in SeqNos /\ 1 \in 0 .. Modulus
    BY DEF TypeOK, Modulus
  <2>3. cursor' \in Position /\ expectedSeqNo' \in SeqNos
    BY <2>1, <2>2, AdvanceLemma DEF _incrementSequence, SeqNos
  <2>. QED BY <1>5, <2>3 DEF EndStream, TypeOK, NothingQueued
<1>6. CASE UNCHANGED vars
  BY <1>6 DEF vars, TypeOK
<1>. QED BY <1>1, <1>2, <1>3, <1>4, <1>5, <1>6 DEF Next

\* Whatever arrives in whatever order, the session's numbers stay within the counter and what it
\* queues is a message of the station.
THEOREM TypeCorrect == Spec => []TypeOK
<1>1. Init => TypeOK
  BY SequenceAssumption, MediaAssumption
     DEF Init, FifoInit, NothingQueued, TypeOK, Position, SeqNos
<1>2. TypeOK /\ [Next]_vars => TypeOK'
  BY NextType
<1>. QED BY <1>1, <1>2, PTL DEF Spec

-----------------------------------------------------------------------------
(* The inductive invariant *)

ReceiveInv == TypeOK /\ QueueAhead

\* A datagram with the expected number is the message that comes next.
LEMMA ExpectedIsNext ==
  ASSUME ReceiveInv, NEW p \in Positions, Arrives(p), p.no = expectedSeqNo
  PROVE  p = cursor
<1>1. p \in Position /\ cursor \in Position /\ p.no = cursor.no
  BY WrapAssumption DEF ReceiveInv, TypeOK, QueueAhead, Positions, Position
<1>2. Distance(cursor, p) \in -Late .. Window - 1
  BY DEF Arrives
<1>3. Late < Modulus /\ Window - 1 < Modulus /\ Late \in Nat /\ Window \in Nat /\ Modulus \in Nat
  BY SequenceAssumption, BoundaryAssumption DEF Modulus
<1>4. p.lap = cursor.lap
  BY <1>1, <1>2, <1>3 DEF Position, SeqNos, Distance
<1>. QED BY <1>1, <1>4 DEF Position

\* A datagram of a message that was parsed or passed over is recognised by its number.
LEMMA RepeatIsKnown ==
  ASSUME ReceiveInv, ~LateLast, NEW p \in Positions, Arrives(p), Distance(cursor, p) < 0
  PROVE  _wasSequenceNumberAlreadyProcessed(expectedSeqNo, p.no)
<1>1. p \in Position /\ cursor \in Position /\ expectedSeqNo = cursor.no
  BY WrapAssumption DEF ReceiveInv, TypeOK, QueueAhead, Positions, Position
<1>2. Distance(cursor, p) \in -Late .. -1
  BY <1>1, SequenceAssumption, BoundaryAssumption DEF Arrives
<1>3. Late \in Nat /\ Late <= SEQUENCE_PROCESSING_BOUNDARY /\ Late < MAX_SEQUENCE_NUMBER
      /\ SEQUENCE_PROCESSING_BOUNDARY \in Nat /\ MAX_SEQUENCE_NUMBER \in Nat
  BY SequenceAssumption, BoundaryAssumption
<1>4. CASE p.lap = cursor.lap
  <2>1. p.no \in cursor.no - Late .. cursor.no - 1
    BY <1>1, <1>2, <1>3, <1>4 DEF Position, SeqNos, Distance
  <2>. QED
    BY <2>1, <1>1, <1>3 DEF Position, SeqNos, _wasSequenceNumberAlreadyProcessed, _isBetween
<1>5. CASE cursor.lap = p.lap + 1
  <2>1. p.no - cursor.no - Modulus \in -Late .. -1
    BY <1>1, <1>2, <1>5 DEF Position, Distance
  <2>2. p.no # MAX_SEQUENCE_NUMBER
    BY <1>1, <1>5 DEF Arrives, Position
  <2>. QED
    BY <2>1, <2>2, <1>1, <1>3
       DEF Position, SeqNos, Modulus, _wasSequenceNumberAlreadyProcessed, _isBetween
<1>6. CASE p.lap # cursor.lap /\ cursor.lap # p.lap + 1
  BY <1>1, <1>2, <1>3, <1>6 DEF Position, SeqNos, Modulus, Distance
<1>. QED BY <1>4, <1>5, <1>6

\* What the queue holds under the number i after the cursor is the message i after the cursor.
LEMMA QueuedMessage ==
  ASSUME ReceiveInv, NEW i \in 1 .. MAX_SEQUENCE_NUMBER, Following(cursor.no, i) \in DOMAIN queuedData
  PROVE  queuedData[Following(cursor.no, i)] = Advance(cursor, i) /\ i < Window
<1>. DEFINE q == queuedData[Following(cursor.no, i)]
            d == Distance(cursor, q)
<1>1. cursor \in Position /\ q \in Position
  BY DEF ReceiveInv, TypeOK
<1>2. d \in 1 .. Window - 1 /\ q.no = Following(cursor.no, i)
  BY DEF ReceiveInv, QueueAhead
<1>3. d \in 0 .. MAX_SEQUENCE_NUMBER
  BY <1>2, SequenceAssumption
<1>4. q = Advance(cursor, d)
  BY <1>1, <1>3, DistanceLemma
<1>5. q.no = Following(cursor.no, d)
  <2>1. d \in 0 .. Modulus /\ d < Modulus
    BY <1>3, SequenceAssumption DEF Modulus
  <2>2. Advance(cursor, d).no = Following(cursor.no, d)
    BY <1>1, <2>1, AdvanceLemma
  <2>. QED BY <2>2, <1>4
<1>6. i = d
  <2>1. cursor.no \in SeqNos /\ i \in 0 .. MAX_SEQUENCE_NUMBER
    BY <1>1, SequenceAssumption DEF Position
  <2>2. Following(cursor.no, i) = Following(cursor.no, d)
    BY <1>2, <1>5
  <2>. HIDE DEF d
  <2>. QED BY <2>1, <2>2, <1>3, FollowingInjective
<1>. QED BY <1>2, <1>4, <1>6, SequenceAssumption

-----------------------------------------------------------------------------
(* The steps *)

\* Together with what the queue holds behind it, the expected message makes up the next n messages.
LEMMA ReceiveExpectedParses ==
  ASSUME ReceiveInv, NEW p \in Positions, ReceiveExpected(p)
  PROVE  \E n \in 1 .. Window :
           /\ Parse(n)
           /\ expectedSeqNo' = Following(cursor.no, n)
           /\ \A i \in 1 .. n - 1 : Following(cursor.no, i) \in DOMAIN queuedData
           /\ Following(cursor.no, n) \notin DOMAIN queuedData
           /\ queuedData' = Restrict(queuedData,
                              DOMAIN queuedData \ {Following(cursor.no, i) : i \in 1 .. n - 1})
<1>1. p = cursor
  BY ExpectedIsNext DEF ReceiveExpected
<1>2. cursor \in Position
  BY DEF ReceiveInv, TypeOK
<1>. DEFINE message(i) == IF i = 1 THEN cursor ELSE queuedData[Following(cursor.no, i - 1)]
<1>3. PICK n \in 1 .. Modulus :
        /\ \A i \in 1 .. n - 1 : Following(cursor.no, i) \in DOMAIN queuedData
        /\ Following(cursor.no, n) \notin DOMAIN queuedData
        /\ parsed' = [i \in 1 .. n |-> message(i)]
        /\ cursor' = Advance(message(n), 1)
        /\ expectedSeqNo' = Following(cursor.no, n)
        /\ queuedData' = Restrict(queuedData,
                           DOMAIN queuedData \ {Following(cursor.no, i) : i \in 1 .. n - 1})
  <2>1. ReceiveExpected(cursor)
    BY <1>1
  <2>2. cursor.no = expectedSeqNo
    BY DEF ReceiveInv, QueueAhead
  <2>. QED BY <2>1, Zenon DEF ReceiveExpected
<1>4. \A i \in 1 .. n : message(i) = Advance(cursor, i - 1) /\ i <= Window
  <2>. SUFFICES ASSUME NEW i \in 1 .. n PROVE message(i) = Advance(cursor, i - 1) /\ i <= Window
    OBVIOUS
  <2>1. CASE i = 1
    <3>1. Advance(cursor, 0) = cursor
      BY <1>2, SequenceAssumption DEF Advance, Position, SeqNos
    <3>. QED BY <2>1, <3>1, SequenceAssumption
  <2>2. CASE i # 1
    <3>1. i - 1 \in 1 .. MAX_SEQUENCE_NUMBER /\ i - 1 \in 1 .. n - 1
      BY <2>2, SequenceAssumption DEF Modulus
    <3>2. Following(cursor.no, i - 1) \in DOMAIN queuedData
      BY <1>3, <3>1
    <3>3. queuedData[Following(cursor.no, i - 1)] = Advance(cursor, i - 1) /\ i - 1 < Window
      BY <3>1, <3>2, QueuedMessage
    <3>. QED BY <2>2, <3>3, SequenceAssumption
  <2>. QED BY <2>1, <2>2
<1>5. n \in 1 .. Window
  BY <1>4, SequenceAssumption
<1>6. parsed' = [i \in 1 .. n |-> Advance(cursor, i - 1)]
  BY <1>3, <1>4
<1>7. cursor' = Advance(cursor, n)
  <2>1. n - 1 \in 0 .. MAX_SEQUENCE_NUMBER /\ n \in 1 .. n
    BY <1>5, SequenceAssumption
  <2>2. Advance(Advance(cursor, n - 1), 1) = Advance(cursor, (n - 1) + 1)
    BY <1>2, <2>1, AdvanceTwice
  <2>3. message(n) = Advance(cursor, n - 1)
    BY <1>4, <2>1
  <2>. QED BY <1>3, <2>2, <2>3
<1>8. Parse(n)
  BY <1>6, <1>7 DEF Parse, ReceiveExpected
<1>. HIDE DEF message
<1>. QED BY <1>3, <1>5, <1>8

\* The end of a stream passes over a window at most.
LEMMA EndStreamPassesOver ==
  ASSUME ReceiveInv, EndStream
  PROVE  /\ \E n \in 1 .. Window : PassOver(n)
         /\ cursor' \in Position /\ expectedSeqNo' = cursor'.no
<1>1. PICK last \in DOMAIN queuedData :
        /\ expectedSeqNo' = _incrementSequence(last)
        /\ cursor' = Advance(queuedData[last], 1)
  BY DEF EndStream
<1>. DEFINE q == queuedData[last]
            d == Distance(cursor, q)
<1>2. cursor \in Position /\ q \in Position /\ last \in SeqNos
  BY DEF ReceiveInv, TypeOK
<1>3. q.no = last /\ d \in 1 .. Window - 1
  BY DEF ReceiveInv, QueueAhead
<1>4. d \in 0 .. MAX_SEQUENCE_NUMBER
  BY <1>3, SequenceAssumption
<1>5. q = Advance(cursor, d)
  BY <1>2, <1>4, DistanceLemma
<1>6. cursor' = Advance(cursor, d + 1) /\ d + 1 \in 1 .. Window
  <2>1. Advance(Advance(cursor, d), 1) = Advance(cursor, d + 1)
    <3>. HIDE DEF d
    <3>. QED BY <1>2, <1>4, AdvanceTwice
  <2>. QED BY <1>1, <1>3, <1>5, <2>1, SequenceAssumption
<1>7. cursor' \in Position /\ expectedSeqNo' = cursor'.no
  <2>1. Advance(q, 1) \in Position /\ Advance(q, 1).no = _incrementSequence(q.no)
    BY <1>2, SequenceAssumption DEF Position, SeqNos, Modulus, Advance, _incrementSequence
  <2>. QED BY <1>1, <1>3, <2>1
<1>8. PassOver(d + 1)
  BY <1>6 DEF PassOver, EndStream
<1>. QED BY <1>6, <1>7, <1>8

-----------------------------------------------------------------------------
(* Type correctness and the queue *)

LEMMA InitReceiveInv == Init => ReceiveInv
BY SequenceAssumption, MediaAssumption
   DEF Init, FifoInit, NothingQueued, ReceiveInv, TypeOK, QueueAhead, Position, SeqNos

\* The inductive step: TypeOK alone is not inductive, because the numbers of the queue decide where
\* the cursor goes.
LEMMA NextReceiveInv ==
  ASSUME ReceiveInv, ~LateLast, [Next]_vars
  PROVE  ReceiveInv'
<1>. USE SequenceAssumption, BoundaryAssumption, WrapAssumption
<1>0. /\ sent \in Position /\ cursor \in Position /\ parsed \in Seq(Position)
      /\ expectedSeqNo \in SeqNos /\ expectedSeqNo = cursor.no
      /\ DOMAIN queuedData \subseteq SeqNos /\ queuedData \in [DOMAIN queuedData -> Position]
  BY DEF ReceiveInv, TypeOK, QueueAhead
<1>1. CASE Send
  <2>1. sent' \in Position
    BY <1>0, <1>1, AdvanceLemma DEF Send, SendNext, Modulus
  <2>. QED BY <1>1, <2>1 DEF Send, SendNext, ReceiveInv, TypeOK, QueueAhead
<1>2. ASSUME NEW p \in Positions, ReceiveExpected(p)
      PROVE  ReceiveInv'
  <2>1. PICK n \in 1 .. Window :
          /\ Parse(n)
          /\ expectedSeqNo' = Following(cursor.no, n)
          /\ \A i \in 1 .. n - 1 : Following(cursor.no, i) \in DOMAIN queuedData
          /\ Following(cursor.no, n) \notin DOMAIN queuedData
          /\ queuedData' = Restrict(queuedData,
                             DOMAIN queuedData \ {Following(cursor.no, i) : i \in 1 .. n - 1})
    BY <1>2, ReceiveExpectedParses
  <2>2. cursor' = Advance(cursor, n) /\ n \in 0 .. Modulus /\ n < Modulus
    BY <2>1 DEF Parse, Modulus
  <2>3. cursor' \in Position /\ expectedSeqNo' = cursor'.no /\ expectedSeqNo' \in SeqNos
    BY <1>0, <2>1, <2>2, AdvanceLemma DEF Position
  <2>4. parsed' \in Seq(Position)
    <3>1. parsed' = [i \in 1 .. n |-> Advance(cursor, i - 1)]
      BY <2>1 DEF Parse
    <3>2. \A i \in 1 .. n : Advance(cursor, i - 1) \in Position
      <4>. SUFFICES ASSUME NEW i \in 1 .. n PROVE Advance(cursor, i - 1) \in Position
        OBVIOUS
      <4>1. i - 1 \in 0 .. Modulus
        BY <2>2 DEF Modulus
      <4>. QED BY <1>0, <4>1, AdvanceLemma
    <3>. QED BY <3>1, <3>2
  <2>5. /\ DOMAIN queuedData' \subseteq DOMAIN queuedData
        /\ \A s \in DOMAIN queuedData' :
             queuedData'[s] = queuedData[s] /\ \A i \in 1 .. n - 1 : s # Following(cursor.no, i)
        /\ queuedData' \in [DOMAIN queuedData' -> Position]
    BY <1>0, <2>1 DEF Restrict
  <2>6. ASSUME NEW s \in DOMAIN queuedData'
        PROVE  queuedData'[s].no = s /\ Distance(cursor', queuedData'[s]) \in 1 .. Window - 1
    <3>. DEFINE q == queuedData[s]
                d == Distance(cursor, q)
    <3>1. s \in DOMAIN queuedData /\ q \in Position /\ q.no = s /\ d \in 1 .. Window - 1
      BY <1>0, <2>5 DEF ReceiveInv, QueueAhead
    <3>2. d \in 0 .. MAX_SEQUENCE_NUMBER /\ d \in 0 .. Modulus /\ d < Modulus
      BY <3>1 DEF Modulus
    <3>3. q = Advance(cursor, d)
      BY <1>0, <3>1, <3>2, DistanceLemma
    <3>4. s = Following(cursor.no, d)
      <4>1. Advance(cursor, d).no = Following(cursor.no, d)
        BY <1>0, <3>2, AdvanceLemma
      <4>. QED BY <3>1, <3>3, <4>1
    <3>. HIDE DEF d
    <3>5. d > n
      <4>1. d \notin 1 .. n - 1
        BY <2>5, <3>4
      <4>2. d # n
        BY <2>1, <3>1, <3>4
      <4>. QED BY <3>1, <4>1, <4>2
    <3>6. Distance(Advance(cursor, n), Advance(cursor, d)) = d - n
      <4>1. d \in n .. MAX_SEQUENCE_NUMBER
        BY <3>2, <3>5
      <4>. QED BY <1>0, <2>2, <4>1, DistanceFromAdvance
    <3>7. Distance(cursor', q) = d - n
      BY <2>2, <3>3, <3>6
    <3>. QED BY <2>5, <3>1, <3>5, <3>7
  <2>7. sent' = sent
    BY <2>1 DEF Parse
  <2>. QED BY <1>0, <2>3, <2>4, <2>5, <2>6, <2>7 DEF ReceiveInv, TypeOK, QueueAhead
<1>3. ASSUME NEW p \in Positions, ReceiveEarly(p)
      PROVE  ReceiveInv'
  <2>1. p \in Position /\ p.no # cursor.no /\ Arrives(p)
    BY <1>0, <1>3 DEF ReceiveEarly, Positions, Position
  <2>2. Distance(cursor, p) \in 1 .. Window - 1
    <3>1. ~(Distance(cursor, p) < 0)
      BY <1>3, RepeatIsKnown DEF ReceiveEarly
    <3>2. Distance(cursor, p) # 0
      <4>. SUFFICES ASSUME Distance(cursor, p) = 0 PROVE FALSE
        OBVIOUS
      <4>1. p = Advance(cursor, 0)
        BY <1>0, <2>1, DistanceLemma
      <4>. QED BY <1>0, <2>1, <4>1 DEF Advance, Position, SeqNos
    <3>3. Distance(cursor, p) \in -Late .. Window - 1
      BY <2>1 DEF Arrives
    <3>. QED BY <3>1, <3>2, <3>3
  <2>3. UNCHANGED <<sent, cursor, parsed, expectedSeqNo>>
    BY <1>3 DEF ReceiveEarly
  <2>4. queuedData' = [s \in DOMAIN queuedData \cup {p.no} |->
                         IF s \in DOMAIN queuedData THEN queuedData[s] ELSE p]
    BY <1>3 DEF ReceiveEarly
  <2>5. TypeOK'
    BY <1>0, <2>1, <2>3, <2>4 DEF TypeOK, Position
  <2>6. QueueAhead'
    BY <1>0, <2>2, <2>3, <2>4 DEF ReceiveInv, QueueAhead
  <2>. QED BY <2>5, <2>6 DEF ReceiveInv
<1>4. ASSUME NEW p \in Positions, ReceiveAgain(p)
      PROVE  ReceiveInv'
  BY <1>4 DEF ReceiveAgain, vars, ReceiveInv, TypeOK, QueueAhead
<1>5. CASE EndStream
  <2>1. cursor' \in Position /\ expectedSeqNo' = cursor'.no
    BY <1>5, EndStreamPassesOver
  <2>2. sent' = sent /\ parsed' = parsed /\ queuedData' = NothingQueued
    BY <1>5 DEF EndStream
  <2>. QED BY <1>0, <2>1, <2>2 DEF ReceiveInv, TypeOK, QueueAhead, NothingQueued, Position
<1>6. CASE UNCHANGED vars
  BY <1>6 DEF vars, ReceiveInv, TypeOK, QueueAhead
<1>. QED BY <1>1, <1>2, <1>3, <1>4, <1>5, <1>6 DEF Next

\* What the session keeps of a stream has its type, and the queue holds messages that come next.
THEOREM ReceiveSafety ==
  ASSUME ~LateLast
  PROVE  Spec => [](TypeOK /\ QueueAhead)
<1>1. ReceiveInv /\ [Next]_vars => ReceiveInv'
  BY NextReceiveInv
<1>2. ReceiveInv => TypeOK /\ QueueAhead
  BY DEF ReceiveInv
<1>. QED BY <1>1, <1>2, InitReceiveInv, PTL DEF Spec

\* A message that is repeated, by a station that did not see its ACK or by the network, is
\* recognised and not queued for the next lap.
THEOREM ReceiveKnowsRepeats ==
  ASSUME ~LateLast
  PROVE  Spec => []RepeatsKnown
<1>1. ReceiveInv /\ [Next]_vars => ReceiveInv'
  BY NextReceiveInv
<1>2. ReceiveInv => RepeatsKnown
  BY RepeatIsKnown DEF RepeatsKnown
<1>. QED BY <1>1, <1>2, InitReceiveInv, PTL DEF Spec

-----------------------------------------------------------------------------
(* Refinement *)

\* Every handler of a datagram parses none or the next messages; the end of a stream passes over.
LEMMA NextImplementsFifo ==
  ASSUME ReceiveInv, [Next]_vars
  PROVE  [FifoNext]_stream
<1>1. CASE Send
  BY <1>1 DEF Send, FifoNext
<1>2. ASSUME NEW p \in Positions, ReceiveExpected(p)
      PROVE  FifoNext
  BY <1>2, ReceiveExpectedParses DEF FifoNext
<1>3. ASSUME NEW p \in Positions, ReceiveEarly(p)
      PROVE  UNCHANGED stream
  BY <1>3 DEF ReceiveEarly, stream
<1>4. ASSUME NEW p \in Positions, ReceiveAgain(p)
      PROVE  UNCHANGED stream
  BY <1>4 DEF ReceiveAgain, vars, stream
<1>5. CASE EndStream
  BY <1>5, EndStreamPassesOver DEF FifoNext
<1>6. CASE UNCHANGED vars
  BY <1>6 DEF vars, stream
<1>. QED BY <1>1, <1>2, <1>3, <1>4, <1>5, <1>6 DEF Next

\* Whatever the network does, the messages of a stream are parsed in order and once: the handler of
\* the DATA branch implements FifoStream.
THEOREM ReceiveImplementsFifo ==
  ASSUME ~LateLast
  PROVE  Spec => Fifo
<1>1. ReceiveInv /\ [Next]_vars => ReceiveInv'
  BY NextReceiveInv
<1>2. Init => FifoInit
  BY DEF Init
<1>3. ReceiveInv /\ [Next]_vars => [FifoNext]_stream
  BY NextImplementsFifo
<1>. QED BY <1>1, <1>2, <1>3, InitReceiveInv, PTL DEF Spec, Fifo, FifoSpec

\* Where a stream may not end with both sides of the wrap in its queue, it ends behind everything it
\* received: what was acknowledged is never expected again.
THEOREM EndOfStreamPassesQueue ==
  ASSUME ~LateLast, ~SkipAtWrap
  PROVE  Spec => EndPassesQueue
<1>1. ReceiveInv /\ [Next]_vars => ReceiveInv'
  BY NextReceiveInv
<1>2. ASSUME ReceiveInv, EndStream, NEW s \in DOMAIN queuedData
      PROVE  Distance(cursor', queuedData[s]) < 0
  <2>1. PICK last \in DOMAIN queuedData :
          /\ \A t \in DOMAIN queuedData : t <= last
          /\ cursor' = Advance(queuedData[last], 1)
    BY <1>2 DEF EndStream
  <2>2. queuedData[s].lap = queuedData[last].lap
    BY <1>2 DEF EndStream, QueueWraps
  <2>3. /\ queuedData[s] \in Position /\ queuedData[last] \in Position
        /\ queuedData[s].no <= queuedData[last].no
    BY <1>2, <2>1 DEF ReceiveInv, TypeOK, QueueAhead
  <2>. QED
    BY <2>1, <2>2, <2>3, SequenceAssumption DEF Position, SeqNos, Modulus, Advance, Distance
<1>3. ReceiveInv => [EndStream => \A s \in DOMAIN queuedData :
                                    Distance(cursor', queuedData[s]) < 0]_vars
  BY <1>2
<1>. QED BY <1>1, <1>3, InitReceiveInv, PTL DEF Spec, EndPassesQueue
=============================================================================
