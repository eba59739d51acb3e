----------------------------- MODULE P2PReceive -----------------------------
(***************************************************************************)
(* The DATA branch of handleMsg in src/src/p2p/session.ts, for one of the  *)
(* four data types: a datagram with the expected number is parsed together *)
(* with what is queued behind it, one that was parsed before is skipped,   *)
(* any other is queued.  The end of a media stream (endStream) drops the   *)
(* queue and continues behind it.                                          *)
(*                                                                         *)
(* The station and the network are external: the station numbers its       *)
(* messages from 0 and starts again after MAX_SEQUENCE_NUMBER, keeps at    *)
(* most Window messages ahead of the first unacknowledged one, and repeats *)
(* a message until its ACK arrives; a datagram can be lost, reordered, and *)
(* arrive again until Late later messages were parsed.                     *)
(***************************************************************************)
EXTENDS FifoStream, Functions, FiniteSets

CONSTANTS
  SEQUENCE_PROCESSING_BOUNDARY,
  Late,          \* how many messages later a repeated datagram can still arrive
  LateLast,      \* whether that holds for the last number of a lap as well
  SkipAtWrap,    \* whether a media stream may end with both sides of the wrap in its queue
  MaxLap         \* bound: laps of the sequence counter in the station's numbering

ASSUME BoundaryAssumption ==
  /\ SEQUENCE_PROCESSING_BOUNDARY \in Nat /\ Late \in 0 .. SEQUENCE_PROCESSING_BOUNDARY
  /\ Window < MAX_SEQUENCE_NUMBER - SEQUENCE_PROCESSING_BOUNDARY
ASSUME WrapAssumption == LateLast \in BOOLEAN /\ SkipAtWrap \in BOOLEAN /\ MaxLap \in Nat

VARIABLES
  expectedSeqNo,
  queuedData        \* by sequence number, the message (its position) that waits for the ones before

vars == <<sent, cursor, parsed, expectedSeqNo, queuedData>>

-----------------------------------------------------------------------------

\* Mutant: the counter is restarted one number too late.
_incrementSequencePastLast(sequence) == IF sequence <= MAX_SEQUENCE_NUMBER THEN sequence + 1 ELSE 0

_incrementSequence(sequence) == IF sequence < MAX_SEQUENCE_NUMBER THEN sequence + 1 ELSE 0

_isBetween(n, lowBoundary, highBoundary) == lowBoundary <= n /\ n < highBoundary

\* Mutant: the restart of the counter is overlooked.
_wasSequenceNumberLower(expected, received) ==
  _isBetween(received, expected - SEQUENCE_PROCESSING_BOUNDARY, expected)

_wasSequenceNumberAlreadyProcessed(expected, received) ==
  IF expected - SEQUENCE_PROCESSING_BOUNDARY > 0
    THEN _isBetween(received, expected - SEQUENCE_PROCESSING_BOUNDARY, expected)
    ELSE \/ _isBetween(received, 0, expected)
         \/ _isBetween(received, MAX_SEQUENCE_NUMBER + (expected - SEQUENCE_PROCESSING_BOUNDARY),
                       MAX_SEQUENCE_NUMBER)

NothingQueued == [s \in {} |-> cursor]

\* The number n after s.
Following(s, n) == IF s + n <= MAX_SEQUENCE_NUMBER THEN s + n ELSE s + n - Modulus

-----------------------------------------------------------------------------

Init ==
  /\ FifoInit
  /\ expectedSeqNo = 0
  /\ queuedData = NothingQueued

Send ==
  /\ SendNext
  /\ Distance(cursor, sent) < Window
  /\ sent'.lap <= MaxLap
  /\ UNCHANGED <<expectedSeqNo, queuedData>>

\* The datagrams that can arrive: sent, and new or repeated not too late.
Arrives(p) ==
  /\ Distance(p, sent) > 0
  /\ Distance(cursor, p) \in -Late .. Window - 1
  /\ p.lap < cursor.lap /\ p.no = MAX_SEQUENCE_NUMBER => LateLast

\* Mutant: what was worked off stays in the queue.
ReceiveExpectedKeepsQueue(p) ==
  /\ Arrives(p) /\ p.no = expectedSeqNo
  /\ \E n \in 1 .. Modulus :
       /\ \A i \in 1 .. n - 1 : Following(p.no, i) \in DOMAIN queuedData
       /\ Following(p.no, n) \notin DOMAIN queuedData
       /\ LET message(i) == IF i = 1 THEN p ELSE queuedData[Following(p.no, i - 1)]
          IN /\ parsed' = [i \in 1 .. n |-> message(i)]
             /\ cursor' = Advance(message(n), 1)
       /\ expectedSeqNo' = Following(p.no, n)
  /\ UNCHANGED <<sent, queuedData>>

\* The expected message, and behind it everything queued without a gap.
ReceiveExpected(p) ==
  /\ Arrives(p) /\ p.no = expectedSeqNo
  /\ \E n \in 1 .. Modulus :
       /\ \A i \in 1 .. n - 1 : Following(p.no, i) \in DOMAIN queuedData
       /\ Following(p.no, n) \notin DOMAIN queuedData
       /\ LET message(i) == IF i = 1 THEN p ELSE queuedData[Following(p.no, i - 1)]
          IN /\ parsed' = [i \in 1 .. n |-> message(i)]
             /\ cursor' = Advance(message(n), 1)
       /\ expectedSeqNo' = Following(p.no, n)
       /\ queuedData' = Restrict(queuedData, DOMAIN queuedData \ {Following(p.no, i) : i \in 1 .. n - 1})
  /\ UNCHANGED sent

\* Not expected and not known: queued, unless a message with its number is queued already.
ReceiveEarly(p) ==
  /\ Arrives(p) /\ p.no # expectedSeqNo
  /\ ~_wasSequenceNumberAlreadyProcessed(expectedSeqNo, p.no)
  /\ queuedData' = [s \in DOMAIN queuedData \cup {p.no} |->
                      IF s \in DOMAIN queuedData THEN queuedData[s] ELSE p]
  /\ UNCHANGED <<sent, cursor, parsed, expectedSeqNo>>

\* Known: acknowledged again and skipped.
ReceiveAgain(p) ==
  /\ Arrives(p) /\ p.no # expectedSeqNo
  /\ _wasSequenceNumberAlreadyProcessed(expectedSeqNo, p.no)
  /\ UNCHANGED vars

\* The queue holds messages before and after the wrap of the sequence counter.
QueueWraps == \E s, t \in DOMAIN queuedData : queuedData[s].lap # queuedData[t].lap

\* endStream: the stream continues behind the largest number that is queued (where nothing is
\* queued it continues where it was).
EndStream ==
  /\ MediaStream
  /\ QueueWraps => SkipAtWrap
  /\ \E last \in DOMAIN queuedData :
       /\ \A s \in DOMAIN queuedData : s <= last
       /\ expectedSeqNo' = _incrementSequence(last)
       /\ cursor' = Advance(queuedData[last], 1)
  /\ queuedData' = NothingQueued
  /\ UNCHANGED <<sent, parsed>>

Positions == [lap : 0 .. MaxLap, no : SeqNos]

Next ==
  \/ Send
  \/ \E p \in Positions : ReceiveExpected(p)
  \/ \E p \in Positions : ReceiveEarly(p)
  \/ \E p \in Positions : ReceiveAgain(p)
  \/ EndStream

Spec == Init /\ [][Next]_vars

\* A message that was not acknowledged is sent until it is.  (EndPassesQueue is why the message
\* that is expected was not acknowledged before.)
LiveSpec == Spec /\ WF_vars(\E p \in Positions : ReceiveExpected(p))

-----------------------------------------------------------------------------
(* Properties *)

TypeOK ==
  /\ sent \in Position /\ cursor \in Position /\ parsed \in Seq(Position)
  /\ expectedSeqNo \in SeqNos
  /\ DOMAIN queuedData \subseteq SeqNos /\ queuedData \in [DOMAIN queuedData -> Position]

\* The session expects the number of the message that comes next, and what is queued lies ahead:
\* it has the number it is queued under, was not parsed before, and is no more than a window away.
\* (A datagram of the last lap that is queued by mistake would be parsed in this one.)
QueueAhead ==
  /\ expectedSeqNo = cursor.no
  /\ \A s \in DOMAIN queuedData :
       /\ queuedData[s].no = s
       /\ Distance(cursor, queuedData[s]) \in 1 .. Window - 1

\* The comment on SEQUENCE_PROCESSING_BOUNDARY: a number within the boundary below the expected one
\* is determined as already processed (also where the counter started again in between).
RepeatsKnown ==
  \A p \in Positions : Arrives(p) /\ Distance(cursor, p) < 0 =>
    _wasSequenceNumberAlreadyProcessed(expectedSeqNo, p.no)

\* The stream is parsed in order and once.
Fifo == FifoSpec

\* After a stream ended, no message that was received (and acknowledged) before is expected again.
EndPassesQueue ==
  [][EndStream => \A s \in DOMAIN queuedData : Distance(cursor', queuedData[s]) < 0]_vars

\* What the station sent is parsed in the end, or passed over by the end of the stream.
SentIsParsed ==
  \A p \in Positions : Distance(p, sent) > 0 /\ Distance(cursor, p) >= 0 ~> Distance(cursor, p) < 0
=============================================================================
