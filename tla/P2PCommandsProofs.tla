------------------------- MODULE P2PCommandsProofs -------------------------
(***************************************************************************)
(* Proofs about the command path, for every set of commands, every bound   *)
(* and every combination of faults: type correctness, that a command is in *)
(* one stage at a time, and that a command reported as aged out is never   *)
(* executed.                                                               *)
(*                                                                         *)
(* Each method of the session has two lemmas: it keeps the session's type  *)
(* (...OK), and it keeps every command in one stage (...Stages).  A step   *)
(* of the specification composes methods, and its proof composes lemmas.   *)
(*                                                                         *)
(* The last two parts serve the proofs of P2PCommandsResultProofs: what    *)
(* fields each method leaves and what it makes of the others (...Fields),  *)
(* and which method each handler comes down to (...Step).                  *)
(***************************************************************************)
EXTENDS P2PCommands, FiniteSetTheorems, SequenceTheorems, WellFoundedInduction, TLAPS

-----------------------------------------------------------------------------
(* Positions *)

\* A set of numbers has a least one; this is what stands for induction below.
LEMMA NatMinimum ==
  ASSUME NEW T, T \subseteq Nat, T # {}
  PROVE  \E n \in T : \A k \in T : n <= k
<1>1. PICK n \in T : \A k \in T : ~ (<<k, n>> \in OpToRel(<, Nat))
  BY WFMin, NatLessThanWellFounded, Zenon
<1>2. \A k \in T : ~ (k < n)
  BY <1>1 DEF OpToRel
<1>. QED BY <1>2

\* Positions of a sequence are finitely many.
LEMMA FiniteWithin ==
  ASSUME NEW n \in Nat, NEW K, K \subseteq 1 .. n
  PROVE  IsFiniteSet(K) /\ Cardinality(K) \in Nat
<1>1. IsFiniteSet(1 .. n)
  BY FS_Interval
<1>. QED BY <1>1, FS_Subset, FS_CardinalityType

\* Among finitely many positions there is a k-th: the least i with k members up to it.
LEMMA RankExists ==
  ASSUME NEW n \in Nat, NEW K, K \subseteq 1 .. n, NEW k \in 1 .. Cardinality(K)
  PROVE  \E i \in K : Cardinality({j \in K : j <= i}) = k
<1>. DEFINE Upto(i) == {j \in K : j <= i}
            T == {i \in 0 .. n : Cardinality(Upto(i)) >= k}
<1>19. k \in Nat /\ k > 0
  BY FiniteWithin
<1>1. \A i : IsFiniteSet(Upto(i)) /\ Cardinality(Upto(i)) \in Nat
  BY FiniteWithin
<1>2. \A j \in K : j \in Int /\ 0 < j /\ j <= n
  OBVIOUS
<1>3. Upto(n) = K /\ Upto(0) = {}
  <2>1. \A j \in K : j <= n /\ ~ (j <= 0)
    BY <1>2
  <2>. QED BY <2>1, Zenon
<1>4. ASSUME NEW i \in Nat, i \notin K, i > 0
      PROVE  Upto(i) = Upto(i - 1)
  <2>1. \A j \in K : j <= i <=> j <= i - 1
    BY <1>2, <1>4
  <2>. QED BY <2>1, Zenon
<1>5. ASSUME NEW i \in Nat, i \in K
      PROVE  Upto(i) = Upto(i - 1) \cup {i} /\ i \notin Upto(i - 1)
  <2>1. \A j \in K : j <= i <=> j <= i - 1 \/ j = i
    BY <1>2
  <2>2. ~ (i <= i - 1)
    OBVIOUS
  <2>3. \A j : j \in Upto(i) <=> j \in Upto(i - 1) \/ j = i
    BY <2>1, <1>5, Zenon
  <2>. QED BY <2>2, <2>3, Zenon
<1>6. n \in T /\ T \subseteq Nat
  BY <1>3, FiniteWithin
<1>7. PICK i \in T : \A j \in T : i <= j
  BY <1>6, NatMinimum, Zenon
<1>8. i \in 0 .. n /\ Cardinality(Upto(i)) >= k
  OBVIOUS
<1>9. i # 0
  BY <1>19, <1>3, <1>8, FS_EmptySet
<1>10. Cardinality(Upto(i - 1)) < k
  <2>1. i - 1 \in 0 .. n /\ ~ (i <= i - 1)
    BY <1>8, <1>9
  <2>2. i - 1 \notin T
    BY <2>1, <1>7
  <2>3. ~ (Cardinality(Upto(i - 1)) >= k)
    BY <2>1, <2>2
  <2>. HIDE DEF Upto
  <2>. QED BY <2>3, <1>19, <1>1
<1>. HIDE DEF Upto, T
<1>11. i \in K
  BY <1>4, <1>8, <1>9, <1>10, <1>19, <1>1
<1>12. Cardinality(Upto(i)) = Cardinality(Upto(i - 1)) + 1
  BY <1>5, <1>8, <1>11, <1>1, FS_AddElement
<1>13. Cardinality(Upto(i)) = k
  BY <1>8, <1>10, <1>12, <1>19, <1>1
<1>. QED BY <1>11, <1>13 DEF Upto

\* _disconnected filters the queue: what stays is a sequence of entries of the queue, each of them once.
LEMMA WithoutPingsType ==
  ASSUME NEW E, NEW queue \in Seq(E)
  PROVE  /\ WithoutPings(queue) \in Seq(E)
         /\ \A k \in DOMAIN WithoutPings(queue) :
              KeptAt(queue, k) \in DOMAIN queue /\ WithoutPings(queue)[k] = queue[KeptAt(queue, k)]
         /\ \A k, l \in DOMAIN WithoutPings(queue) : KeptAt(queue, k) = KeptAt(queue, l) => k = l
<1>1. Kept(queue) \subseteq 1 .. Len(queue) /\ Len(queue) \in Nat /\ DOMAIN queue = 1 .. Len(queue)
  BY DEF Kept
<1>2. Cardinality(Kept(queue)) \in Nat
  BY <1>1, FiniteWithin
<1>3. ASSUME NEW k \in 1 .. Cardinality(Kept(queue))
      PROVE  /\ KeptAt(queue, k) \in Kept(queue)
             /\ Cardinality({j \in Kept(queue) : j <= KeptAt(queue, k)}) = k
  <2>1. \E i \in Kept(queue) : Cardinality({j \in Kept(queue) : j <= i}) = k
    BY <1>1, RankExists
  <2>. QED BY <2>1, Zenon DEF KeptAt
<1>4. \A k \in 1 .. Cardinality(Kept(queue)) : KeptAt(queue, k) \in DOMAIN queue
  BY <1>1, <1>3
<1>5. DOMAIN WithoutPings(queue) = 1 .. Cardinality(Kept(queue))
  BY DEF WithoutPings
<1>6. WithoutPings(queue) \in Seq(E)
  BY <1>2, <1>4 DEF WithoutPings
<1>7. \A k \in DOMAIN WithoutPings(queue) : WithoutPings(queue)[k] = queue[KeptAt(queue, k)]
  BY DEF WithoutPings
<1>8. ASSUME NEW k \in DOMAIN WithoutPings(queue), NEW l \in DOMAIN WithoutPings(queue),
             KeptAt(queue, k) = KeptAt(queue, l)
      PROVE  k = l
  <2>1. Cardinality({j \in Kept(queue) : j <= KeptAt(queue, k)}) = k
    BY <1>3, <1>5
  <2>2. Cardinality({j \in Kept(queue) : j <= KeptAt(queue, l)}) = l
    BY <1>3, <1>5
  <2>. QED BY <1>8, <2>1, <2>2, Zenon
<1>. QED BY <1>4, <1>5, <1>6, <1>7, <1>8

-----------------------------------------------------------------------------
(* Types *)

\* _incrementSequence stays within the counter.
LEMMA NumberTypes ==
  /\ 0 \in SeqNos /\ 0 \in 0 .. MaxConnections /\ SeqNos \subseteq Int
  /\ \A n \in SeqNos : IncrementSequence(n) \in SeqNos
BY NumberAssumption DEF SeqNos, IncrementSequence

\* Reporting an event keeps the session's type.
LEMMA EmitOK ==
  ASSUME NEW s, SessionOK(s), NEW m \in Messages, NEW event \in Events
  PROVE  SessionOK(Emit(s, m, event))
BY DEF SessionOK, ConnectionOK, QueueOK, NumbersOK, MessagesOK, ReportsOK, Emit, SessionFields

\* Stopping a message's timer keeps the session's type.
LEMMA StopTimerOK ==
  ASSUME NEW s, SessionOK(s), NEW m \in Messages
  PROVE  SessionOK(StopTimer(s, m))
<1>1. MessagesOK(StopTimer(s, m))
  BY DEF SessionOK, MessagesOK, StopTimer, SessionFields, MessageState
<1>2. /\ ConnectionOK(StopTimer(s, m)) /\ QueueOK(StopTimer(s, m)) /\ NumbersOK(StopTimer(s, m))
      /\ ReportsOK(StopTimer(s, m)) /\ DOMAIN StopTimer(s, m) = SessionFields
  BY DEF SessionOK, ConnectionOK, QueueOK, NumbersOK, ReportsOK, StopTimer, SessionFields
<1>. QED BY <1>1, <1>2 DEF SessionOK

\* Deleting from messageStates keeps the session's type.
LEMMA UnlistOK ==
  ASSUME NEW s, SessionOK(s), NEW sequence
  PROVE  SessionOK(Unlist(s, sequence))
<1>. DEFINE t == Unlist(s, sequence)
<1>1. MessagesOK(t)
  <2>1. /\ t.messageStates = WithoutKeys(s.messageStates, {sequence})
        /\ t.msg = s.msg /\ t.sent = s.sent
    BY DEF Unlist, SessionOK, SessionFields
  <2>. HIDE DEF t
  <2>2. /\ DOMAIN t.messageStates \subseteq SeqNos
        /\ t.messageStates \in [DOMAIN t.messageStates -> Messages]
    BY <2>1 DEF MessagesOK, SessionOK, WithoutKeys, Restrict
  <2>. QED BY <2>1, <2>2 DEF MessagesOK, SessionOK
<1>2. ConnectionOK(t) /\ QueueOK(t) /\ NumbersOK(t) /\ ReportsOK(t) /\ DOMAIN t = SessionFields
  BY DEF SessionOK, ConnectionOK, QueueOK, NumbersOK, ReportsOK, Unlist, SessionFields
<1>. QED BY <1>1, <1>2 DEF SessionOK

\* _clearMessageStateTimeouts leaves message states.
LEMMA ClearTimeoutsType ==
  ASSUME NEW msg \in [Messages -> MessageState], NEW ms
  PROVE  ClearTimeouts(msg, ms) \in [Messages -> MessageState]
BY DEF ClearTimeouts, MessageState

\* _clearSecondaryCommandTimeout keeps the session's type.
LEMMA ClearSecondaryTimeoutOK ==
  ASSUME NEW s, SessionOK(s)
  PROVE  SessionOK(ClearSecondaryTimeout(s))
BY DEF SessionOK, ConnectionOK, QueueOK, NumbersOK, MessagesOK, ReportsOK, ClearSecondaryTimeout, SessionFields

\* _initialize keeps the session's type.
LEMMA InitializeOK ==
  ASSUME NEW s, SessionOK(s)
  PROVE  SessionOK(Initialize(s))
BY ClearTimeoutsType, NumberTypes DEF SessionOK, ConnectionOK, QueueOK, NumbersOK, MessagesOK, ReportsOK, Initialize, SessionFields, NoEntries

\* The end of _sendCommand keeps the session's type.
LEMMA TransmitOK ==
  ASSUME NEW s, SessionOK(s), NEW m \in Messages
  PROVE  SessionOK(Transmit(s, m))
<1>. DEFINE t == Transmit(s, m)
<1>1. s.msg[m] \in MessageState /\ s.msg[m].sequence \in SeqNos
  BY DEF SessionOK, MessagesOK, MessageState
<1>2. MessagesOK(t)
  <2>1. /\ t.messageStates = WithEntry(s.messageStates, s.msg[m].sequence, m)
        /\ t.msg = [s.msg EXCEPT ![m].timeout = "ack"]
        /\ t.sent \in {s.sent, s.sent \cup {<<s.msg[m].sequence, m>>}}
    BY DEF Transmit, SessionOK, SessionFields
  <2>2. t.msg \in [Messages -> MessageState]
    BY <2>1, <1>1 DEF MessagesOK, SessionOK, MessageState
  <2>3. t.sent \subseteq SeqNos \X Messages
    BY <2>1, <1>1 DEF MessagesOK, SessionOK
  <2>. HIDE DEF t
  <2>4. /\ DOMAIN t.messageStates \subseteq SeqNos
        /\ t.messageStates \in [DOMAIN t.messageStates -> Messages]
    BY <2>1, <1>1 DEF MessagesOK, SessionOK, WithEntry
  <2>. QED BY <2>2, <2>3, <2>4 DEF MessagesOK
<1>3. NumbersOK(t)
  <2>1. /\ t.seqNumber = s.seqNumber /\ t.results = s.results
        /\ \/ t.p2pSeqMapping = s.p2pSeqMapping /\ t.p2pDataSeqNumber = s.p2pDataSeqNumber
           \/ /\ t.p2pSeqMapping = WithEntry(s.p2pSeqMapping, s.p2pDataSeqNumber, s.msg[m].sequence)
              /\ t.p2pDataSeqNumber = IncrementSequence(s.p2pDataSeqNumber)
    BY DEF Transmit, SessionOK, SessionFields
  <2>2. IncrementSequence(s.p2pDataSeqNumber) \in Int
    BY DEF IncrementSequence, SessionOK, NumbersOK
  <2>. HIDE DEF t
  <2>3. /\ DOMAIN t.p2pSeqMapping \subseteq Int
        /\ t.p2pSeqMapping \in [DOMAIN t.p2pSeqMapping -> SeqNos]
    BY <2>1, <1>1 DEF NumbersOK, SessionOK, WithEntry
  <2>. QED BY <2>1, <2>2, <2>3 DEF NumbersOK, SessionOK
<1>4. ConnectionOK(t) /\ QueueOK(t) /\ ReportsOK(t) /\ DOMAIN t = SessionFields
  BY DEF SessionOK, ConnectionOK, QueueOK, ReportsOK, Transmit, SessionFields
<1>. QED BY <1>2, <1>3, <1>4 DEF SessionOK

\* _disconnected keeps the session's type.
LEMMA DisconnectedOK ==
  ASSUME NEW s, SessionOK(s)
  PROVE  SessionOK(Disconnected(s))
<1>. DEFINE t == [ClearSecondaryTimeout(s) EXCEPT !.sendQueue = WithoutPings(@)]
            c == ClearSecondaryTimeout(s)
<1>1. SessionOK(c)
  BY ClearSecondaryTimeoutOK
<1>. HIDE DEF c
<1>2. WithoutPings(c.sendQueue) \in Seq([command : Messages, aged : BOOLEAN])
  BY <1>1, WithoutPingsType DEF SessionOK, QueueOK
<1>3. SessionOK([c EXCEPT !.sendQueue = WithoutPings(@)])
  BY <1>1, <1>2 DEF SessionOK, ConnectionOK, QueueOK, NumbersOK, MessagesOK, ReportsOK, SessionFields
<1>. QED BY <1>3, InitializeOK DEF Disconnected, c

\* Giving a command a fresh message state and the next sequence number keeps the type.
LEMMA NumberedOK ==
  ASSUME NEW s, SessionOK(s), NEW m \in Messages
  PROVE  SessionOK([s EXCEPT !.msg[m] = [FreshMessage EXCEPT !.sequence = s.seqNumber],
                             !.seqNumber = IncrementSequence(@)])
<1>. DEFINE t == [s EXCEPT !.msg[m] = [FreshMessage EXCEPT !.sequence = s.seqNumber],
                           !.seqNumber = IncrementSequence(@)]
<1>1. [FreshMessage EXCEPT !.sequence = s.seqNumber] \in MessageState
  <2>1. s.seqNumber \in SeqNos /\ 0 \in 0 .. MAX_RETRIES
    BY NumberAssumption DEF SessionOK, NumbersOK
  <2>2. FreshMessage \in MessageState
    BY <2>1, NumberTypes DEF FreshMessage, MessageState
  <2>. QED BY <2>1, <2>2 DEF MessageState
<1>2. MessagesOK(t)
  BY <1>1 DEF SessionOK, MessagesOK, SessionFields
<1>3. NumbersOK(t)
  BY NumberTypes DEF SessionOK, NumbersOK, SessionFields
<1>4. ConnectionOK(t) /\ QueueOK(t) /\ ReportsOK(t) /\ DOMAIN t = SessionFields
  BY DEF SessionOK, ConnectionOK, QueueOK, ReportsOK, SessionFields
<1>. QED BY <1>2, <1>3, <1>4 DEF SessionOK

\* _sendCommand of a queue entry keeps the session's type, whether the entry aged or not.
LEMMA SendCommandFromQueueOK ==
  ASSUME NEW s, SessionOK(s), NEW entry \in [command : Messages, aged : BOOLEAN]
  PROVE  SessionOK(SendCommandFromQueue(s, entry))
<1>. DEFINE m == entry.command
            t == [s EXCEPT !.msg[m] = [FreshMessage EXCEPT !.sequence = s.seqNumber],
                           !.seqNumber = IncrementSequence(@)]
<1>1. m \in Messages
  OBVIOUS
<1>. HIDE DEF m
<1>2. SessionOK(t)
  BY <1>1, NumberedOK
<1>3. SessionOK(Transmit(t, m))
  <2>. HIDE DEF t
  <2>. QED BY <1>1, <1>2, TransmitOK
<1>4. CASE ~entry.aged
  BY <1>3, <1>4 DEF SendCommandFromQueue, m
<1>5. CASE entry.aged
  <2>1. CASE m \in Pings
    BY <1>5, <2>1 DEF SendCommandFromQueue, m
  <2>2. CASE m \notin Pings
    <3>1. Event("CONNECT_TIMEOUT", None) \in Events
      BY DEF Event, Events
    <3>2. SessionOK(Emit(s, m, Event("CONNECT_TIMEOUT", None)))
      BY <1>1, <3>1, EmitOK
    <3>. QED BY <1>5, <2>2, <3>2 DEF SendCommandFromQueue, m
  <2>. QED BY <2>1, <2>2
<1>. QED BY <1>4, <1>5

\* The queue can be shifted.
LEMMA HeadAndTailOK ==
  ASSUME NEW s, SessionOK(s), s.sendQueue # <<>>
  PROVE  /\ SessionOK([s EXCEPT !.sendQueue = Tail(@)])
         /\ Head(s.sendQueue) \in [command : Messages, aged : BOOLEAN]
<1>1. 1 \in 1 .. Len(s.sendQueue) /\ Head(s.sendQueue) = s.sendQueue[1]
  BY DEF SessionOK, QueueOK
<1>2. s.sendQueue[1] \in [command : Messages, aged : BOOLEAN]
  BY <1>1, ElementOfSeq, Zenon DEF SessionOK, QueueOK
<1>3. Tail(s.sendQueue) \in Seq([command : Messages, aged : BOOLEAN])
  BY DEF SessionOK, QueueOK
<1>4. SessionOK([s EXCEPT !.sendQueue = Tail(@)])
  BY <1>3 DEF SessionOK, ConnectionOK, QueueOK, NumbersOK, MessagesOK, ReportsOK, SessionFields
<1>. QED BY <1>1, <1>2, <1>4

\* sendQueuedMessage keeps the session's type.
LEMMA SendQueuedMessageOK ==
  ASSUME NEW s, SessionOK(s)
  PROVE  SessionOK(SendQueuedMessage(s))
<1>. DEFINE t == [s EXCEPT !.sendQueue = Tail(@)]
            u == [s EXCEPT !.connecting = @ \/ WithoutPings(s.sendQueue) # <<>>]
<1>1. CASE s.sendQueue = <<>> \/ (s.connected /\ WaitingAcknowledge(s))
  BY <1>1 DEF SendQueuedMessage
<1>2. CASE s.sendQueue # <<>> /\ s.connected /\ ~WaitingAcknowledge(s)
  <2>1. SessionOK(t) /\ Head(s.sendQueue) \in [command : Messages, aged : BOOLEAN]
    BY <1>2, HeadAndTailOK
  <2>. HIDE DEF t
  <2>2. SessionOK(SendCommandFromQueue(t, Head(s.sendQueue)))
    BY <2>1, SendCommandFromQueueOK
  <2>. QED BY <1>2, <2>2 DEF SendQueuedMessage, t
<1>3. CASE s.sendQueue # <<>> /\ ~s.connected
  <2>1. SessionOK(u)
    BY DEF SessionOK, ConnectionOK, QueueOK, NumbersOK, MessagesOK, ReportsOK, SessionFields
  <2>. QED BY <1>3, <2>1 DEF SendQueuedMessage
<1>. QED BY <1>1, <1>2, <1>3

\* sendCommand keeps the session's type.
LEMMA SendCommandOK ==
  ASSUME NEW s, SessionOK(s), NEW m \in Messages
  PROVE  SessionOK(SendCommand(s, m))
<1>. DEFINE t == [s EXCEPT !.sendQueue = Append(@, [command |-> m, aged |-> FALSE])]
<1>1. SessionOK(t)
  BY DEF SessionOK, ConnectionOK, QueueOK, NumbersOK, MessagesOK, ReportsOK, SessionFields
<1>. HIDE DEF t
<1>2. SessionOK(SendQueuedMessage(t))
  BY <1>1, SendQueuedMessageOK
<1>. QED BY <1>2 DEF SendCommand, t

\* The message under its new number.
Moved(s, m) ==
  [s EXCEPT !.messageStates = WithEntry(WithoutKeys(@, {s.msg[m].sequence}), s.seqNumber, m),
            !.msg[m].sequence = s.seqNumber,
            !.seqNumber = IncrementSequence(@)]

\* A refused message gets a new sequence number and keeps its number of retries.
LEMMA MovedOK ==
  ASSUME NEW s, SessionOK(s), NEW m \in Messages
  PROVE  SessionOK(Moved(s, m)) /\ Moved(s, m).msg[m].retries = s.msg[m].retries
<1>. DEFINE old == s.msg[m].sequence
            t == Moved(s, m)
<1>1. /\ t.messageStates = WithEntry(WithoutKeys(s.messageStates, {old}), s.seqNumber, m)
      /\ t.msg = [s.msg EXCEPT ![m].sequence = s.seqNumber]
      /\ t.sent = s.sent
  BY DEF Moved, SessionOK, SessionFields
<1>2. t.msg \in [Messages -> MessageState] /\ t.msg[m].retries = s.msg[m].retries
  BY <1>1 DEF SessionOK, MessagesOK, NumbersOK, MessageState
<1>3. NumbersOK(t)
  BY NumberTypes DEF Moved, SessionOK, NumbersOK, SessionFields
<1>4. ConnectionOK(t) /\ QueueOK(t) /\ ReportsOK(t) /\ DOMAIN t = SessionFields
  BY DEF Moved, SessionOK, ConnectionOK, QueueOK, ReportsOK, SessionFields
<1>. HIDE DEF t
<1>5. /\ DOMAIN t.messageStates \subseteq SeqNos
      /\ t.messageStates \in [DOMAIN t.messageStates -> Messages]
  BY <1>1 DEF MessagesOK, NumbersOK, SessionOK, WithEntry, WithoutKeys, Restrict
<1>6. t.sent \subseteq SeqNos \X Messages
  BY <1>1 DEF MessagesOK, SessionOK
<1>7. SessionOK(t)
  BY <1>2, <1>3, <1>4, <1>5, <1>6 DEF SessionOK, MessagesOK
<1>. QED BY <1>2, <1>7 DEF t

\* The number of retries stays within MAX_RETRIES.
LEMMA RetriedOK ==
  ASSUME NEW s, SessionOK(s), NEW m \in Messages, s.msg[m].retries < MAX_RETRIES
  PROVE  SessionOK([s EXCEPT !.msg[m].retries = @ + 1])
<1>. DEFINE t == [s EXCEPT !.msg[m].retries = @ + 1]
<1>1. s.msg \in [Messages -> MessageState] /\ s.msg[m].retries + 1 \in 0 .. MAX_RETRIES
  BY NumberAssumption DEF SessionOK, MessagesOK, MessageState
<1>2. [s.msg EXCEPT ![m].retries = @ + 1] \in [Messages -> MessageState]
  BY <1>1 DEF MessageState
<1>3. t.msg = [s.msg EXCEPT ![m].retries = @ + 1] /\ t.messageStates = s.messageStates /\ t.sent = s.sent
  BY DEF SessionOK, SessionFields
<1>4. MessagesOK(t)
  BY <1>2, <1>3 DEF SessionOK, MessagesOK
<1>5. ConnectionOK(t) /\ QueueOK(t) /\ NumbersOK(t) /\ ReportsOK(t) /\ DOMAIN t = SessionFields
  BY DEF SessionOK, ConnectionOK, QueueOK, NumbersOK, ReportsOK, SessionFields
<1>. QED BY <1>4, <1>5 DEF SessionOK

\* Noting that a message was refused keeps the type.
LEMMA RefusedOK ==
  ASSUME NEW s, SessionOK(s), NEW m \in Messages
  PROVE  SessionOK([s EXCEPT !.msg[m].failed = TRUE])
<1>. DEFINE t == [s EXCEPT !.msg[m].failed = TRUE]
<1>1. [s.msg EXCEPT ![m].failed = TRUE] \in [Messages -> MessageState]
  BY DEF SessionOK, MessagesOK, MessageState
<1>2. t.msg = [s.msg EXCEPT ![m].failed = TRUE] /\ t.messageStates = s.messageStates /\ t.sent = s.sent
  BY DEF SessionOK, SessionFields
<1>3. MessagesOK(t)
  BY <1>1, <1>2 DEF SessionOK, MessagesOK
<1>4. ConnectionOK(t) /\ QueueOK(t) /\ NumbersOK(t) /\ ReportsOK(t) /\ DOMAIN t = SessionFields
  BY DEF SessionOK, ConnectionOK, QueueOK, NumbersOK, ReportsOK, SessionFields
<1>. QED BY <1>3, <1>4 DEF SessionOK

\* _sendCommand of a message that was sent before keeps the session's type.
LEMMA SendCommandAgainOK ==
  ASSUME NEW s, SessionOK(s), NEW m \in Messages
  PROVE  SessionOK(SendCommandAgain(s, m))
<1>. DEFINE again == IF s.msg[m].failed THEN Moved(s, m) ELSE s
            over  == IF m = Gateway THEN s ELSE Emit(s, m, Event("COMMAND_TIMEOUT", None))
            once  == [again EXCEPT !.msg[m].retries = @ + 1]
<1>1. SessionOK(again) /\ again.msg[m].retries = s.msg[m].retries
  BY MovedOK
<1>2. Event("COMMAND_TIMEOUT", None) \in Events
  BY DEF Event, Events
<1>3. SessionOK(over)
  BY <1>2, EmitOK
<1>. HIDE DEF again, over
<1>4. s.msg[m].retries < MAX_RETRIES => SessionOK(Transmit(once, m))
  <2>1. s.msg[m].retries < MAX_RETRIES => SessionOK(once)
    BY <1>1, RetriedOK
  <2>. HIDE DEF once
  <2>. QED BY <2>1, TransmitOK
<1>5. SessionOK(SendQueuedMessage(Unlist(over, s.msg[m].sequence)))
  BY <1>3, UnlistOK, SendQueuedMessageOK
<1>. QED BY <1>4, <1>5 DEF SendCommandAgain, Moved, again, over

\* Staging a two-stage command keeps the session's type.
LEMMA FirstResultOK ==
  ASSUME NEW s, SessionOK(s), NEW m \in Commands
  PROVE  SessionOK(FirstResult(s, m))
<1>. DEFINE t == FirstResult(s, m)
<1>1. /\ t.secondaryTimers = s.secondaryTimers \cup {m} /\ t.secondaryTimeout = m
      /\ t.customDataStaging = WithEntry(s.customDataStaging, CommandType[m], m)
      /\ t.events = s.events
  BY DEF FirstResult, Stage, SessionOK, SessionFields
<1>2. /\ ConnectionOK(t) /\ QueueOK(t) /\ NumbersOK(t) /\ MessagesOK(t) /\ DOMAIN t = SessionFields
  BY DEF SessionOK, ConnectionOK, QueueOK, NumbersOK, MessagesOK, FirstResult, Stage, SessionFields
<1>. HIDE DEF t
<1>3. ReportsOK(t)
  BY <1>1 DEF SessionOK, ReportsOK, WithEntry
<1>. QED BY <1>2, <1>3 DEF SessionOK, t

\* Handling an answer keeps the session's type.
LEMMA HandleResultOK ==
  ASSUME NEW s, SessionOK(s), NEW key \in DOMAIN s.messageStates, NEW from \in Messages, NEW failed \in BOOLEAN
  PROVE  SessionOK(HandleResult(s, key, from, failed))
<1>. DEFINE m == s.messageStates[key]
            unlisted == Unlist(s, key)
            answered == IF m = Gateway THEN unlisted ELSE Emit(unlisted, m, Event("RESULT", from))
            refused == [StopTimer(s, m) EXCEPT !.msg[m].failed = TRUE]
<1>1. m \in Messages /\ Event("RESULT", from) \in Events
  BY DEF SessionOK, MessagesOK, Event, Events, Messages
<1>. HIDE DEF m
<1>2. SessionOK(unlisted)
  BY UnlistOK
<1>3. SessionOK(StopTimer(answered, m))
  BY <1>1, <1>2, EmitOK, StopTimerOK
<1>4. SessionOK(refused)
  BY <1>1, StopTimerOK, RefusedOK
<1>. HIDE DEF answered, unlisted, refused
<1>5. CASE CommandType[m] # CommandType[from]
  BY <1>2, <1>5 DEF HandleResult, m, unlisted
<1>6. CASE CommandType[m] = CommandType[from] /\ failed
  BY <1>1, <1>4, <1>6, SendCommandAgainOK DEF HandleResult, m, refused
<1>7. CASE CommandType[m] = CommandType[from] /\ ~failed /\ m \in TwoStageCommands
  <2>1. SessionOK(FirstResult(StopTimer(answered, m), m))
    BY <1>3, <1>7, CommandAssumption, FirstResultOK
  <2>. QED BY <1>7, <2>1 DEF HandleResult, m, answered, unlisted
<1>8. CASE CommandType[m] = CommandType[from] /\ ~failed /\ m \notin TwoStageCommands
  <2>1. SessionOK(SendQueuedMessage(StopTimer(answered, m)))
    BY <1>3, SendQueuedMessageOK
  <2>. QED BY <1>8, <2>1 DEF HandleResult, m, answered, unlisted
<1>. QED BY <1>5, <1>6, <1>7, <1>8

\* Giving back the number of the handshake's result keeps the type: the number may fall below 0.
LEMMA HandshakeOverNumbersOK ==
  ASSUME NEW s, SessionOK(s), NEW sequence
  PROVE  SessionOK([s EXCEPT !.p2pSeqMapping = WithoutValue(@, sequence), !.p2pDataSeqNumber = @ - 1,
                             !.messageStates = WithoutKeys(@, {sequence})])
<1>. DEFINE t == [s EXCEPT !.p2pSeqMapping = WithoutValue(@, sequence), !.p2pDataSeqNumber = @ - 1,
                           !.messageStates = WithoutKeys(@, {sequence})]
<1>1. ConnectionOK(t) /\ QueueOK(t) /\ ReportsOK(t) /\ DOMAIN t = SessionFields
  BY DEF SessionOK, ConnectionOK, QueueOK, ReportsOK, SessionFields
<1>2. /\ t.p2pSeqMapping = WithoutValue(s.p2pSeqMapping, sequence)
      /\ t.p2pDataSeqNumber = s.p2pDataSeqNumber - 1
      /\ t.messageStates = WithoutKeys(s.messageStates, {sequence})
      /\ t.seqNumber = s.seqNumber /\ t.results = s.results /\ t.msg = s.msg /\ t.sent = s.sent
  BY DEF SessionOK, SessionFields
<1>. HIDE DEF t
<1>3. NumbersOK(t)
  BY <1>2 DEF SessionOK, NumbersOK, WithoutValue, Restrict
<1>4. MessagesOK(t)
  BY <1>2 DEF SessionOK, MessagesOK, WithoutKeys, Restrict
<1>5. SessionOK(t)
  BY <1>1, <1>3, <1>4 DEF SessionOK
<1>. QED BY <1>5 DEF t

\* The end of the handshake keeps the session's type.
LEMMA HandshakeOverOK ==
  ASSUME NEW s, SessionOK(s), NEW sequence
  PROVE  SessionOK(HandshakeOver(s, sequence))
BY HandshakeOverNumbersOK, SendQueuedMessageOK DEF HandshakeOver

\* The constructor's state has its type.
LEMMA InitType == Init => TypeOK
<1>. SUFFICES ASSUME Init PROVE TypeOK
  OBVIOUS
<1>1. FreshMessage \in MessageState
  BY NumberAssumption, NumberTypes DEF FreshMessage, MessageState
<1>2. DOMAIN session = SessionFields /\ ConnectionOK(session) /\ QueueOK(session) /\ NumbersOK(session)
  BY NumberTypes DEF Init, SessionFields, ConnectionOK, QueueOK, NumbersOK, NoEntries
<1>3. MessagesOK(session) /\ ReportsOK(session)
  BY <1>1 DEF Init, MessagesOK, ReportsOK, NoEntries
<1>4. SessionOK(session)
  BY <1>2, <1>3 DEF SessionOK
<1>5. ciphers \subseteq 1 .. MaxConnections /\ closing \in BOOLEAN
  BY DEF Init
<1>7. issued \in Seq(Commands) /\ executed \in Seq([command : Commands, refused : BOOLEAN])
  BY DEF Init
<1>6. StationOK
  BY DEF Init, FreshStation, StationOK
<1>. QED BY <1>4, <1>5, <1>6, <1>7 DEF TypeOK

\* close() empties the queue and stops the timers.
LEMMA EmptiedOK ==
  ASSUME NEW s, SessionOK(s)
  PROVE  SessionOK([ClearSecondaryTimeout(s) EXCEPT !.sendQueue = <<>>, !.msg = ClearTimeouts(@, Listed(s))])
<1>. DEFINE c == ClearSecondaryTimeout(s)
            emptied == [c EXCEPT !.sendQueue = <<>>, !.msg = ClearTimeouts(@, Listed(s))]
<1>1. SessionOK(c)
  BY ClearSecondaryTimeoutOK
<1>. HIDE DEF c
<1>2. ClearTimeouts(c.msg, Listed(s)) \in [Messages -> MessageState]
  BY <1>1, ClearTimeoutsType DEF SessionOK, MessagesOK
<1>3. MessagesOK(emptied)
  BY <1>1, <1>2 DEF SessionOK, MessagesOK, SessionFields
<1>4. ConnectionOK(emptied) /\ QueueOK(emptied) /\ NumbersOK(emptied) /\ ReportsOK(emptied)
      /\ DOMAIN emptied = SessionFields
  BY <1>1 DEF SessionOK, ConnectionOK, QueueOK, NumbersOK, ReportsOK, SessionFields
<1>. QED BY <1>3, <1>4 DEF SessionOK, c

\* CAM_ID makes the session connected.
LEMMA UpOK ==
  ASSUME NEW s, SessionOK(s), s.connection < MaxConnections
  PROVE  SessionOK([s EXCEPT !.connected = TRUE, !.connection = @ + 1, !.sendQueue = <<>>])
<1>. DEFINE up == [s EXCEPT !.connected = TRUE, !.connection = @ + 1, !.sendQueue = <<>>]
<1>1. s.connection + 1 \in 0 .. MaxConnections /\ s.connection + 1 > 0
  BY NumberAssumption DEF SessionOK, ConnectionOK
<1>2. ConnectionOK(up) /\ QueueOK(up)
  BY <1>1 DEF SessionOK, ConnectionOK, QueueOK, SessionFields
<1>3. NumbersOK(up) /\ MessagesOK(up) /\ ReportsOK(up) /\ DOMAIN up = SessionFields
  BY DEF SessionOK, NumbersOK, MessagesOK, ReportsOK, SessionFields
<1>. QED BY <1>2, <1>3 DEF SessionOK

\* The elements of a sequence.
LEMMA EntryOK ==
  ASSUME NEW E, NEW queue \in Seq(E)
  PROVE  /\ DOMAIN queue = 1 .. Len(queue) /\ Len(queue) \in Nat
         /\ \A i \in DOMAIN queue : queue[i] \in E
<1>1. DOMAIN queue = 1 .. Len(queue) /\ Len(queue) \in Nat
  OBVIOUS
<1>. QED BY <1>1, ElementOfSeq, Zenon

\* An acknowledged message waits for its result.
LEMMA NotedOK ==
  ASSUME NEW s, SessionOK(s), NEW m \in Messages
  PROVE  SessionOK([s EXCEPT !.msg[m].timeout = "result", !.msg[m].acknowledged = TRUE])
<1>. DEFINE noted == [s EXCEPT !.msg[m].timeout = "result", !.msg[m].acknowledged = TRUE]
<1>1. [s.msg EXCEPT ![m].timeout = "result", ![m].acknowledged = TRUE] \in [Messages -> MessageState]
  BY ZenonT(40) DEF SessionOK, MessagesOK, MessageState
<1>2. /\ noted.msg = [s.msg EXCEPT ![m].timeout = "result", ![m].acknowledged = TRUE]
      /\ noted.messageStates = s.messageStates /\ noted.sent = s.sent
  BY DEF SessionOK, SessionFields
<1>3. ConnectionOK(noted) /\ QueueOK(noted) /\ NumbersOK(noted) /\ ReportsOK(noted) /\ DOMAIN noted = SessionFields
  BY DEF SessionOK, ConnectionOK, QueueOK, NumbersOK, ReportsOK, SessionFields
<1>4. MessagesOK(noted)
  BY <1>1, <1>2 DEF SessionOK, MessagesOK
<1>. QED BY <1>3, <1>4 DEF SessionOK

\* The next answer of the DATA stream is an answer.
LEMMA AnswerOK ==
  ASSUME TypeOK, session.results < Len(station.answers)
  PROVE  /\ station.answers[session.results + 1].from \in Messages
         /\ station.answers[session.results + 1].failed \in BOOLEAN
<1>1. station.answers \in Seq([from : Messages, failed : BOOLEAN])
  BY DEF TypeOK, StationOK
<1>2. session.results + 1 \in 1 .. Len(station.answers)
  BY <1>1 DEF TypeOK, SessionOK, NumbersOK
<1>3. station.answers[session.results + 1] \in [from : Messages, failed : BOOLEAN]
  BY <1>1, <1>2, ElementOfSeq, Zenon
<1>. QED BY <1>3

\* Taking an answer counts it and deletes its mapping.
LEMMA TakenOK ==
  ASSUME NEW s, SessionOK(s), NEW good, NEW number
  PROVE  SessionOK([s EXCEPT !.results = @ + 1,
                             !.p2pSeqMapping = IF good = 0 THEN @ ELSE WithoutKeys(@, {number})])
<1>. DEFINE taken == [s EXCEPT !.results = @ + 1,
                               !.p2pSeqMapping = IF good = 0 THEN @ ELSE WithoutKeys(@, {number})]
<1>1. NumbersOK(taken)
  BY DEF SessionOK, NumbersOK, SessionFields, WithoutKeys, Restrict
<1>2. ConnectionOK(taken) /\ QueueOK(taken) /\ MessagesOK(taken) /\ ReportsOK(taken) /\ DOMAIN taken = SessionFields
  BY DEF SessionOK, ConnectionOK, QueueOK, MessagesOK, ReportsOK, SessionFields
<1>. QED BY <1>1, <1>2 DEF SessionOK

\* getCipher sets level and key and stops the timer of message 0.
LEMMA KeyedOK ==
  ASSUME NEW s, SessionOK(s), NEW level \in {"LEVEL_1", "LEVEL_2"}, NEW connection \in 1 .. MaxConnections, NEW ms
  PROVE  SessionOK([s EXCEPT !.encryption = level, !.p2pKey = connection, !.msg = ClearTimeouts(@, ms)])
<1>. DEFINE keyed == [s EXCEPT !.encryption = level, !.p2pKey = connection, !.msg = ClearTimeouts(@, ms)]
<1>1. ClearTimeouts(s.msg, ms) \in [Messages -> MessageState]
  BY ClearTimeoutsType DEF SessionOK, MessagesOK
<1>2. MessagesOK(keyed) /\ ConnectionOK(keyed)
  BY <1>1 DEF SessionOK, MessagesOK, ConnectionOK, SessionFields
<1>3. QueueOK(keyed) /\ NumbersOK(keyed) /\ ReportsOK(keyed) /\ DOMAIN keyed = SessionFields
  BY DEF SessionOK, QueueOK, NumbersOK, ReportsOK, SessionFields
<1>. QED BY <1>2, <1>3 DEF SessionOK

\* Every handler keeps the types.
LEMMA NextType == TypeOK /\ [Next]_vars => TypeOK'
<1>. SUFFICES ASSUME TypeOK, [Next]_vars PROVE TypeOK'
  OBVIOUS
<1>. USE DEF TypeOK
<1>1. ASSUME NEW c \in Commands, IssueCommand(c) PROVE TypeOK'
  <2>1. SessionOK(session')
    BY <1>1, SendCommandOK DEF IssueCommand, Messages
  <2>2. issued' \in Seq(Commands)
    BY <1>1 DEF IssueCommand
  <2>. QED BY <1>1, <2>1, <2>2 DEF IssueCommand, StationOK
<1>2. CASE Connect
  <2>1. SessionOK([session EXCEPT !.connecting = TRUE])
    BY DEF SessionOK, ConnectionOK, QueueOK, NumbersOK, MessagesOK, ReportsOK, SessionFields
  <2>. QED BY <1>2, <2>1 DEF Connect, StationOK
<1>3. CASE Close
  <2>. DEFINE c == ClearSecondaryTimeout(session)
              emptied == [c EXCEPT !.sendQueue = <<>>, !.msg = ClearTimeouts(@, Listed(session))]
  <2>2. SessionOK(emptied)
    BY EmptiedOK
  <2>3. SessionOK(Initialize(emptied))
    BY <2>2, InitializeOK
  <2>4. session' = IF session.connected THEN emptied ELSE Initialize(emptied)
    BY <1>3 DEF Close
  <2>5. SessionOK(session')
    BY <2>2, <2>3, <2>4
  <2>6. closing' \in BOOLEAN
    BY <1>3 DEF Close, SessionOK, ConnectionOK
  <2>. QED BY <1>3, <2>5, <2>6 DEF Close, StationOK
<1>4. CASE CloseEnd
  <2>1. SessionOK(session')
    BY <1>4, DisconnectedOK DEF CloseEnd
  <2>2. StationOK'
    BY <1>4 DEF CloseEnd, FreshStation, StationOK
  <2>. QED BY <1>4, <2>1, <2>2 DEF CloseEnd
<1>5. CASE Establish
  <2>. DEFINE up == [session EXCEPT !.connected = TRUE, !.connection = @ + 1, !.sendQueue = <<>>]
              asked == SendCommand(up, Gateway)
              joined == [asked EXCEPT !.sendQueue = @ \o session.sendQueue]
  <2>1. SessionOK(up)
    BY <1>5, UpOK DEF Establish
  <2>2. SessionOK(asked)
    <3>. HIDE DEF up
    <3>. QED BY <2>1, SendCommandOK DEF Messages
  <2>3. SessionOK(joined)
    <3>. HIDE DEF asked
    <3>1. asked.sendQueue \o session.sendQueue \in Seq([command : Messages, aged : BOOLEAN])
      BY <2>2 DEF SessionOK, QueueOK
    <3>. QED BY <2>2, <3>1 DEF SessionOK, ConnectionOK, QueueOK, NumbersOK, MessagesOK, ReportsOK, SessionFields
  <2>4. SessionOK(SendQueuedMessage(joined))
    BY <2>3, SendQueuedMessageOK
  <2>5. session' = SendQueuedMessage(joined)
    BY <1>5 DEF Establish
  <2>6. StationOK'
    BY <1>5 DEF Establish, FreshStation, StationOK
  <2>. QED BY <1>5, <2>4, <2>5, <2>6 DEF Establish
<1>6. CASE Disconnect
  <2>1. SessionOK(session')
    BY <1>6, DisconnectedOK DEF Disconnect
  <2>2. StationOK'
    BY <1>6 DEF Disconnect, FreshStation, StationOK
  <2>. QED BY <1>6, <2>1, <2>2 DEF Disconnect
<1>7. CASE Age
  <2>. DEFINE aged == [i \in DOMAIN session.sendQueue |-> [session.sendQueue[i] EXCEPT !.aged = TRUE]]
  <2>1. aged \in Seq([command : Messages, aged : BOOLEAN])
    <3>. DEFINE queue == session.sendQueue
    <3>1. queue \in Seq([command : Messages, aged : BOOLEAN])
      BY DEF SessionOK, QueueOK
    <3>2. DOMAIN queue = 1 .. Len(queue) /\ Len(queue) \in Nat
      BY <3>1
    <3>3. \A i \in DOMAIN queue : queue[i] \in [command : Messages, aged : BOOLEAN]
      BY <3>1, EntryOK, Zenon
    <3>. HIDE DEF queue
    <3>4. \A i \in DOMAIN queue : [queue[i] EXCEPT !.aged = TRUE] \in [command : Messages, aged : BOOLEAN]
      BY <3>3
    <3>5. [i \in 1 .. Len(queue) |-> [queue[i] EXCEPT !.aged = TRUE]] \in Seq([command : Messages, aged : BOOLEAN])
      BY <3>2, <3>4
    <3>. QED BY <3>2, <3>5 DEF queue
  <2>2. session' = [session EXCEPT !.sendQueue = aged]
    BY <1>7 DEF Age
  <2>. HIDE DEF aged
  <2>3. SessionOK(session')
    BY <2>1, <2>2 DEF SessionOK, ConnectionOK, QueueOK, NumbersOK, MessagesOK, ReportsOK, SessionFields
  <2>. QED BY <1>7, <2>3 DEF Age, StationOK
<1>8. ASSUME NEW datagram \in session.sent, StationTakes(datagram[1], datagram[2]) PROVE TypeOK'
  <2>1. datagram[1] \in SeqNos /\ datagram[2] \in Messages
    BY DEF SessionOK, MessagesOK
  <2>. DEFINE taken == [station EXCEPT !.seen = @ \cup {datagram[1]}]
              answer(refused) == Append(station.answers, [from |-> datagram[2], failed |-> refused])
  <2>3. taken \in [seen : SUBSET SeqNos, answers : Seq([from : Messages, failed : BOOLEAN]),
                   second : Seq(Commands), gatewayInfo : {"none", "control", "data", "silent", "taken"}]
    BY <2>1 DEF StationOK
  <2>4. \A refused \in BOOLEAN : answer(refused) \in Seq([from : Messages, failed : BOOLEAN])
    BY <2>1 DEF StationOK
  <2>5. taken.answers = station.answers /\ taken.second = station.second
    BY DEF StationOK
  <2>6. \/ /\ \E how \in {"control", "data", "silent"} :
                station' = [taken EXCEPT !.gatewayInfo = how,
                                         !.answers = IF how = "data" THEN answer(FALSE) ELSE @]
           /\ UNCHANGED executed
        \/ station' = taken /\ UNCHANGED executed
        \/ /\ datagram[2] \in Commands
           /\ \E refused \in BOOLEAN :
                /\ station' = [taken EXCEPT !.answers = answer(refused),
                                            !.second = IF datagram[2] \in TwoStageCommands /\ ~refused
                                                         THEN Append(@, datagram[2]) ELSE @]
                /\ executed' = Append(executed, [command |-> datagram[2], refused |-> refused])
    BY <1>8 DEF StationTakes
  <2>. HIDE DEF taken, answer
  <2>2. StationOK' /\ executed' \in Seq([command : Commands, refused : BOOLEAN])
    <3>1. ASSUME NEW how \in {"control", "data", "silent"},
                 station' = [taken EXCEPT !.gatewayInfo = how,
                                          !.answers = IF how = "data" THEN answer(FALSE) ELSE @]
          PROVE  StationOK'
      BY <2>3, <2>4, <3>1 DEF StationOK
    <3>2. ASSUME station' = taken PROVE StationOK'
      BY <2>3, <3>2 DEF StationOK
    <3>3. ASSUME NEW refused \in BOOLEAN, datagram[2] \in Commands,
                 station' = [taken EXCEPT !.answers = answer(refused),
                                          !.second = IF datagram[2] \in TwoStageCommands /\ ~refused
                                                       THEN Append(@, datagram[2]) ELSE @],
                 executed' = Append(executed, [command |-> datagram[2], refused |-> refused])
          PROVE  StationOK' /\ executed' \in Seq([command : Commands, refused : BOOLEAN])
      <4>1. taken.second \in Seq(Commands)
        BY <2>3
      <4>2. Append(taken.second, datagram[2]) \in Seq(Commands)
        BY <4>1, <3>3
      <4>3. StationOK'
        BY <2>3, <2>4, <3>3, <4>2 DEF StationOK
      <4>4. [command |-> datagram[2], refused |-> refused] \in [command : Commands, refused : BOOLEAN]
        BY <3>3
      <4>5. Append(executed, [command |-> datagram[2], refused |-> refused])
              \in Seq([command : Commands, refused : BOOLEAN])
        BY <4>4
      <4>. QED BY <3>3, <4>3, <4>5
    <3>. QED BY <2>6, <3>1, <3>2, <3>3
  <2>. QED BY <1>8, <2>2 DEF StationTakes
<1>9. ASSUME NEW sequence \in station.seen, HandleAck(sequence) PROVE TypeOK'
  <2>. DEFINE m == session.messageStates[sequence]
              noted == [session EXCEPT !.msg[m].timeout = "result", !.msg[m].acknowledged = TRUE]
  <2>1. m \in Messages
    BY <1>9 DEF HandleAck, SessionOK, MessagesOK
  <2>2. SessionOK(noted)
    BY <2>1, NotedOK
  <2>3. SessionOK(StopTimer(Unlist(session, sequence), m))
    BY <2>1, UnlistOK, StopTimerOK
  <2>4. session' = SendQueuedMessage(IF m \in Pings THEN StopTimer(Unlist(session, sequence), m) ELSE noted)
    BY <1>9 DEF HandleAck
  <2>5. SessionOK(session')
    BY <2>2, <2>3, <2>4, SendQueuedMessageOK
  <2>. QED BY <1>9, <2>5 DEF HandleAck, StationOK
<1>10. CASE HandleData
  <2>. DEFINE number == session.results % (MAX_SEQUENCE_NUMBER + 1)
              good == MappedSequence(session, number)
              key == IF good = 0 THEN number ELSE good
              taken == [session EXCEPT !.results = @ + 1,
                                       !.p2pSeqMapping = IF good = 0 THEN @ ELSE WithoutKeys(@, {number})]
              answer == station.answers[session.results + 1]
  <2>1. answer.from \in Messages /\ answer.failed \in BOOLEAN
    BY <1>10, AnswerOK DEF HandleData
  <2>2. session' = IF key \in DOMAIN session.messageStates
                        THEN HandleResult(taken, key, answer.from, answer.failed)
                        ELSE taken
    BY <1>10 DEF HandleData
  <2>. HIDE DEF answer, key, good, number
  <2>3. SessionOK(taken)
    BY TakenOK
  <2>5. taken.messageStates = session.messageStates
    BY DEF SessionOK, SessionFields
  <2>. HIDE DEF taken
  <2>6. SessionOK(session')
    BY <2>1, <2>2, <2>3, <2>5, HandleResultOK
  <2>. QED BY <1>10, <2>6 DEF HandleData, StationOK
<1>11. CASE HandleGatewayInfo
  <2>1. ciphers' \subseteq 1 .. MaxConnections
    BY <1>11 DEF HandleGatewayInfo, SessionOK, ConnectionOK
  <2>2. StationOK'
    BY <1>11 DEF HandleGatewayInfo, StationOK
  <2>. QED BY <1>11, <2>1, <2>2 DEF HandleGatewayInfo
<1>12. ASSUME NEW connection \in 1 .. MaxConnections, CipherAnswers(connection) PROVE TypeOK'
  <2>1. PICK level \in {"LEVEL_1", "LEVEL_2"} :
          session' = HandshakeOver(
            [session EXCEPT !.encryption = level, !.p2pKey = connection,
                            !.msg = ClearTimeouts(@, {session.messageStates[k] :
                                                      k \in {0} \cap DOMAIN session.messageStates})], 0)
    BY <1>12 DEF CipherAnswers
  <2>. DEFINE ms == {session.messageStates[k] : k \in {0} \cap DOMAIN session.messageStates}
              keyed == [session EXCEPT !.encryption = level, !.p2pKey = connection,
                                       !.msg = ClearTimeouts(@, ms)]
  <2>3. session' = HandshakeOver(keyed, 0)
    BY <2>1
  <2>. HIDE DEF ms
  <2>4. SessionOK(keyed)
    BY KeyedOK
  <2>6. SessionOK(session')
    BY <2>3, <2>4, HandshakeOverOK
  <2>. QED BY <1>12, <2>6 DEF CipherAnswers, StationOK
<1>13. CASE HandleSecondResult
  <2>. DEFINE from == Head(station.second)
              type == CommandType[from]
              unstaged == [session EXCEPT !.customDataStaging = WithoutKeys(@, {type})]
              staged == IF type \in DOMAIN session.customDataStaging
                          THEN Emit(unstaged, session.customDataStaging[type], Event("SECOND_RESULT", from))
                          ELSE session
  <2>1. from \in Commands /\ Tail(station.second) \in Seq(Commands)
    BY <1>13 DEF HandleSecondResult, StationOK
  <2>2. session' = SendQueuedMessage(ClearSecondaryTimeout(staged))
    BY <1>13 DEF HandleSecondResult
  <2>. HIDE DEF type, from
  <2>3. SessionOK(unstaged)
    BY DEF SessionOK, ConnectionOK, QueueOK, NumbersOK, MessagesOK, ReportsOK, SessionFields, WithoutKeys, Restrict
  <2>4. Event("SECOND_RESULT", from) \in Events
    BY <2>1 DEF Event, Events
  <2>5. SessionOK(staged)
    <3>1. ASSUME type \in DOMAIN session.customDataStaging
          PROVE  session.customDataStaging[type] \in Messages
      BY <3>1 DEF SessionOK, ReportsOK, Messages
    <3>. HIDE DEF unstaged
    <3>. QED BY <2>3, <2>4, <3>1, EmitOK
  <2>. HIDE DEF staged
  <2>6. SessionOK(session')
    BY <2>2, <2>5, ClearSecondaryTimeoutOK, SendQueuedMessageOK
  <2>7. StationOK'
    BY <1>13, <2>1 DEF HandleSecondResult, StationOK
  <2>. QED BY <1>13, <2>6, <2>7 DEF HandleSecondResult
<1>14. ASSUME NEW m \in Messages, AckTimeout(m) PROVE TypeOK'
  <2>1. SessionOK(session')
    BY <1>14, StopTimerOK, SendCommandAgainOK DEF AckTimeout
  <2>. QED BY <1>14, <2>1 DEF AckTimeout, StationOK
<1>15. ASSUME NEW m \in Messages, ResultTimeout(m) PROVE TypeOK'
  <2>. DEFINE fired == StopTimer(session, m)
              sequence == session.msg[m].sequence
              dropped == Emit(Unlist(fired, sequence), m, Event("COMMAND_TIMEOUT", None))
  <2>1. session' = IF m = Gateway THEN HandshakeOver(fired, sequence) ELSE SendQueuedMessage(dropped)
    BY <1>15 DEF ResultTimeout
  <2>2. SessionOK(fired)
    BY StopTimerOK
  <2>3. Event("COMMAND_TIMEOUT", None) \in Events
    BY DEF Event, Events
  <2>4. SessionOK(dropped)
    BY <2>2, <2>3, UnlistOK, EmitOK
  <2>5. SessionOK(session')
    BY <2>1, <2>2, <2>4, HandshakeOverOK, SendQueuedMessageOK
  <2>. QED BY <1>15, <2>5 DEF ResultTimeout, StationOK
<1>16. ASSUME NEW m \in Commands, SecondaryTimeout(m) PROVE TypeOK'
  <2>. DEFINE fired == [session EXCEPT !.secondaryTimers = @ \ {m}, !.secondaryTimeout = None]
              told == Emit(fired, m, Event("SECONDARY_TIMEOUT", None))
  <2>1. SessionOK(fired)
    BY DEF SessionOK, ConnectionOK, QueueOK, NumbersOK, MessagesOK, ReportsOK, SessionFields
  <2>2. Event("SECONDARY_TIMEOUT", None) \in Events /\ m \in Messages
    BY DEF Event, Events, Messages
  <2>3. session' = SendQueuedMessage(told)
    BY <1>16 DEF SecondaryTimeout
  <2>. HIDE DEF fired
  <2>4. SessionOK(session')
    BY <2>1, <2>2, <2>3, EmitOK, SendQueuedMessageOK
  <2>. QED BY <1>16, <2>4 DEF SecondaryTimeout, StationOK
<1>17. CASE UNCHANGED vars
  BY <1>17 DEF vars, StationOK
<1>. QED
  BY <1>1, <1>2, <1>3, <1>4, <1>5, <1>6, <1>7, <1>8, <1>9, <1>10, <1>11, <1>12, <1>13, <1>14, <1>15,
     <1>16, <1>17 DEF Next

\* Whatever the network and the timers do, the fields of a session keep their types: sequence
\* numbers stay within 16 bits, retries within MAX_RETRIES, and only p2pDataSeqNumber leaves its range.
THEOREM TypeCorrect == Spec => []TypeOK
BY InitType, NextType, PTL DEF Spec

-----------------------------------------------------------------------------
(* One stage at a time *)

\* A session that queues some of the entries, has sent no more and has reported no more.
LEMMA StagesFewer ==
  ASSUME NEW s, NEW t, NEW K, NEW D, NEW at, Stages(s, K, D),
         \A k \in DOMAIN t.sendQueue :
           at[k] \in DOMAIN s.sendQueue /\ t.sendQueue[k].command = s.sendQueue[at[k]].command,
         \A k, l \in DOMAIN t.sendQueue : at[k] = at[l] => k = l,
         \A c \in Commands : (Sent(t, c) => Sent(s, c)) /\ (AgedOut(t, c) => AgedOut(s, c))
  PROVE  Stages(t, K, D)
<1>1. \A c : Queued(t, c) => Queued(s, c)
  BY DEF Queued
<1>2. \A i, j \in DOMAIN t.sendQueue :
        t.sendQueue[i].command = t.sendQueue[j].command => i = j \/ t.sendQueue[i].command = Gateway
  BY DEF Stages
<1>. QED BY <1>1, <1>2, Zenon DEF Stages

\* The same, with the queue untouched.
LEMMA StagesShrink ==
  ASSUME NEW s, NEW t, NEW K, NEW D, Stages(s, K, D), t.sendQueue = s.sendQueue,
         \A c \in Commands : (Sent(t, c) => Sent(s, c)) /\ (AgedOut(t, c) => AgedOut(s, c))
  PROVE  Stages(t, K, D)
BY Zenon DEF Stages, Queued

\* An event other than CONNECT_TIMEOUT changes no stage; CONNECT_TIMEOUT needs a command that was never sent.
LEMMA EmitStages ==
  ASSUME NEW s, SessionOK(s), NEW m \in Messages, NEW event \in Events, NEW K, NEW D, Stages(s, K, D),
         event.code = "CONNECT_TIMEOUT" /\ m \in Commands => m \in K \ D /\ ~Queued(s, m) /\ ~Sent(s, m)
  PROVE  Stages(Emit(s, m, event), K, D)
<1>. DEFINE t == Emit(s, m, event)
<1>1. /\ t.sendQueue = s.sendQueue /\ t.messageStates = s.messageStates
      /\ t.msg = s.msg /\ t.sent = s.sent /\ t.events = [s.events EXCEPT ![m] = Append(@, event)]
  BY DEF Emit, SessionOK, SessionFields
<1>. HIDE DEF t
<1>2. \A c : Sent(t, c) <=> Sent(s, c)
  BY <1>1 DEF Sent, Listed, Range
<1>3. \A c \in Commands : AgedOut(t, c) => AgedOut(s, c) \/ (c = m /\ event.code = "CONNECT_TIMEOUT")
  BY <1>1 DEF AgedOut, SessionOK, ReportsOK, Messages
<1>4. \A c : Queued(t, c) <=> Queued(s, c)
  BY <1>1 DEF Queued
<1>. QED BY <1>1, <1>2, <1>3, <1>4 DEF Stages, t

\* Stopping a timer sends nothing.
LEMMA StopTimerStages ==
  ASSUME NEW s, SessionOK(s), NEW m \in Messages, NEW K, NEW D, Stages(s, K, D)
  PROVE  Stages(StopTimer(s, m), K, D)
<1>. DEFINE t == StopTimer(s, m)
<1>1. /\ t.sendQueue = s.sendQueue /\ t.messageStates = s.messageStates
      /\ t.msg = [s.msg EXCEPT ![m].timeout = "none"] /\ t.sent = s.sent /\ t.events = s.events
  BY DEF StopTimer, SessionOK, SessionFields
<1>2. \A c \in Commands : t.msg[c].timeout = s.msg[c].timeout \/ t.msg[c].timeout = "none"
  BY <1>1 DEF SessionOK, MessagesOK, MessageState, Messages
<1>. HIDE DEF t
<1>3. \A c \in Commands : (Sent(t, c) => Sent(s, c)) /\ (AgedOut(t, c) => AgedOut(s, c))
  BY <1>1, <1>2 DEF Sent, Listed, Range, AgedOut
<1>. QED BY <1>1, <1>3, StagesShrink DEF t

\* Deleting from messageStates sends nothing.
LEMMA UnlistStages ==
  ASSUME NEW s, SessionOK(s), NEW sequence, NEW K, NEW D, Stages(s, K, D)
  PROVE  Stages(Unlist(s, sequence), K, D)
<1>. DEFINE t == Unlist(s, sequence)
<1>1. /\ t.sendQueue = s.sendQueue /\ t.messageStates = WithoutKeys(s.messageStates, {sequence})
      /\ t.msg = s.msg /\ t.sent = s.sent /\ t.events = s.events
  BY DEF Unlist, SessionOK, SessionFields
<1>. HIDE DEF t
<1>2. Listed(t) \subseteq Listed(s)
  BY <1>1 DEF Listed, Range, WithoutKeys, Restrict
<1>3. \A c \in Commands : (Sent(t, c) => Sent(s, c)) /\ (AgedOut(t, c) => AgedOut(s, c))
  BY <1>1, <1>2 DEF Sent, AgedOut
<1>. QED BY <1>1, <1>3, StagesShrink DEF t

\* _clearSecondaryCommandTimeout sends nothing.
LEMMA ClearSecondaryTimeoutStages ==
  ASSUME NEW s, SessionOK(s), NEW K, NEW D, Stages(s, K, D)
  PROVE  Stages(ClearSecondaryTimeout(s), K, D)
<1>. DEFINE t == ClearSecondaryTimeout(s)
<1>1. /\ t.sendQueue = s.sendQueue /\ t.messageStates = s.messageStates
      /\ t.msg = s.msg /\ t.sent = s.sent /\ t.events = s.events
  BY DEF ClearSecondaryTimeout, SessionOK, SessionFields
<1>. HIDE DEF t
<1>2. \A c \in Commands : (Sent(t, c) => Sent(s, c)) /\ (AgedOut(t, c) => AgedOut(s, c))
  BY <1>1 DEF Sent, Listed, Range, AgedOut
<1>. QED BY <1>1, <1>2, StagesShrink DEF t

\* _initialize forgets what was sent and requeues nothing.
LEMMA InitializeStages ==
  ASSUME NEW s, SessionOK(s), NEW K, NEW D, Stages(s, K, D)
  PROVE  Stages(Initialize(s), K, D)
<1>. DEFINE t == Initialize(s)
<1>1. /\ t.sendQueue = s.sendQueue /\ t.messageStates = NoEntries
      /\ t.msg = ClearTimeouts(s.msg, Listed(s)) /\ t.sent = {} /\ t.events = s.events
  BY DEF Initialize, SessionOK, SessionFields
<1>. HIDE DEF t
<1>2. \A c \in Commands : t.msg[c].timeout = s.msg[c].timeout \/ t.msg[c].timeout = "none"
  BY <1>1 DEF ClearTimeouts, SessionOK, MessagesOK, MessageState, Messages
<1>3. Listed(t) = {}
  BY <1>1 DEF Listed, Range, NoEntries
<1>4. \A c \in Commands : (Sent(t, c) => Sent(s, c)) /\ (AgedOut(t, c) => AgedOut(s, c))
  BY <1>1, <1>2, <1>3 DEF Sent, AgedOut
<1>. QED BY <1>1, <1>4, StagesShrink DEF t

\* _disconnected drops pings from the queue and requeues nothing.
LEMMA DisconnectedStages ==
  ASSUME NEW s, SessionOK(s), NEW K, NEW D, Stages(s, K, D)
  PROVE  Stages(Disconnected(s), K, D)
<1>. DEFINE c == ClearSecondaryTimeout(s)
            t == [c EXCEPT !.sendQueue = WithoutPings(@)]
            at == [k \in DOMAIN WithoutPings(c.sendQueue) |-> KeptAt(c.sendQueue, k)]
<1>1. SessionOK(c) /\ Stages(c, K, D)
  BY ClearSecondaryTimeoutOK, ClearSecondaryTimeoutStages
<1>. HIDE DEF c
<1>2. WithoutPings(c.sendQueue) \in Seq([command : Messages, aged : BOOLEAN])
  BY <1>1, WithoutPingsType DEF SessionOK, QueueOK
<1>3. SessionOK(t)
  BY <1>1, <1>2 DEF SessionOK, ConnectionOK, QueueOK, NumbersOK, MessagesOK, ReportsOK, SessionFields
<1>4. /\ t.sendQueue = WithoutPings(c.sendQueue) /\ t.messageStates = c.messageStates
      /\ t.msg = c.msg /\ t.sent = c.sent /\ t.events = c.events
  BY <1>1 DEF SessionOK, SessionFields
<1>. HIDE DEF t
<1>5. \A x \in Commands : (Sent(t, x) => Sent(c, x)) /\ (AgedOut(t, x) => AgedOut(c, x))
  BY <1>4 DEF Sent, Listed, Range, AgedOut
<1>6. c.sendQueue \in Seq([command : Messages, aged : BOOLEAN])
  BY <1>1 DEF SessionOK, QueueOK
<1>7. /\ \A k \in DOMAIN t.sendQueue :
           at[k] \in DOMAIN c.sendQueue /\ t.sendQueue[k].command = c.sendQueue[at[k]].command
      /\ \A k, l \in DOMAIN t.sendQueue : at[k] = at[l] => k = l
  BY <1>4, <1>6, WithoutPingsType
<1>. HIDE DEF at
<1>8. Stages(t, K, D)
  BY <1>1, <1>5, <1>7, StagesFewer
<1>. QED BY <1>3, <1>8, InitializeStages DEF Disconnected, c, t

\* A message that may be transmitted: it waits nowhere and was not reported as aged out.
Live(s, K, m) == m \in Commands => m \in K /\ ~Queued(s, m) /\ ~AgedOut(s, m)

\* Transmitting a live message makes it sent, and no other.
LEMMA TransmitStages ==
  ASSUME NEW s, SessionOK(s), NEW m \in Messages, NEW K, NEW D, Stages(s, K, D), Live(s, K, m)
  PROVE  /\ Stages(Transmit(s, m), K, D)
         /\ Transmit(s, m).sendQueue = s.sendQueue
         /\ \A c \in Commands : /\ Sent(Transmit(s, m), c) => Sent(s, c) \/ c = m
                                /\ AgedOut(Transmit(s, m), c) => AgedOut(s, c)
<1>. DEFINE t == Transmit(s, m)
<1>1. /\ t.sendQueue = s.sendQueue /\ t.messageStates = WithEntry(s.messageStates, s.msg[m].sequence, m)
      /\ t.msg = [s.msg EXCEPT ![m].timeout = "ack"]
      /\ t.sent \in {s.sent, s.sent \cup {<<s.msg[m].sequence, m>>}} /\ t.events = s.events
  BY DEF Transmit, SessionOK, SessionFields
<1>2. \A c \in Commands : c # m => t.msg[c] = s.msg[c]
  BY <1>1 DEF SessionOK, MessagesOK, MessageState, Messages
<1>. HIDE DEF t
<1>3. Listed(t) \subseteq Listed(s) \cup {m}
  BY <1>1 DEF Listed, Range, WithEntry
<1>4. \A datagram \in t.sent : datagram \in s.sent \/ datagram[2] = m
  BY <1>1
<1>5. \A c \in Commands : (Sent(t, c) => Sent(s, c) \/ c = m) /\ (AgedOut(t, c) => AgedOut(s, c))
  BY <1>1, <1>2, <1>3, <1>4 DEF Sent, AgedOut
<1>6. \A c : Queued(t, c) <=> Queued(s, c)
  BY <1>1 DEF Queued
<1>7. Stages(t, K, D)
  BY <1>1, <1>5, <1>6 DEF Stages, Live
<1>. QED BY <1>1, <1>5, <1>7 DEF t

\* _sendCommand of the entry that left the queue sends it or reports it, never both.
LEMMA QueuedCommandStages ==
  ASSUME NEW s, SessionOK(s), NEW entry \in [command : Messages, aged : BOOLEAN], NEW K, NEW D,
         Stages(s, K, D), Live(s, K, entry.command),
         entry.command \in Commands => entry.command \notin D /\ ~Sent(s, entry.command)
  PROVE  /\ Stages(SendCommandFromQueue(s, entry), K, D)
         /\ ~entry.aged =>
              /\ SendCommandFromQueue(s, entry).sendQueue = s.sendQueue
              /\ \A c \in Commands : c # entry.command =>
                   /\ Sent(SendCommandFromQueue(s, entry), c) => Sent(s, c)
                   /\ AgedOut(SendCommandFromQueue(s, entry), c) => AgedOut(s, c)
<1>. DEFINE m == entry.command
            t == [s EXCEPT !.msg[m] = [FreshMessage EXCEPT !.sequence = s.seqNumber],
                           !.seqNumber = IncrementSequence(@)]
<1>1. m \in Messages
  OBVIOUS
<1>2. SessionOK(t)
  BY NumberedOK
<1>3. /\ t.sendQueue = s.sendQueue /\ t.messageStates = s.messageStates
      /\ t.msg = [s.msg EXCEPT ![m] = [FreshMessage EXCEPT !.sequence = s.seqNumber]]
      /\ t.sent = s.sent /\ t.events = s.events
  BY DEF SessionOK, SessionFields
<1>4. [FreshMessage EXCEPT !.sequence = s.seqNumber].timeout = "none"
  BY DEF FreshMessage
<1>5. \A c \in Commands : t.msg[c].timeout = s.msg[c].timeout \/ t.msg[c].timeout = "none"
  BY <1>3, <1>4 DEF SessionOK, MessagesOK, Messages
<1>. HIDE DEF t, m
<1>6. \A c \in Commands : (Sent(t, c) => Sent(s, c)) /\ (AgedOut(t, c) => AgedOut(s, c))
  BY <1>3, <1>5 DEF Sent, Listed, Range, AgedOut
<1>7. Stages(t, K, D)
  BY <1>3, <1>6, StagesShrink
<1>8. Live(t, K, m)
  BY <1>3, <1>6 DEF Live, Queued, m
<1>9. CASE ~entry.aged
  <2>1. SendCommandFromQueue(s, entry) = Transmit(t, m)
    BY <1>9 DEF SendCommandFromQueue, t, m
  <2>2. /\ Stages(Transmit(t, m), K, D) /\ Transmit(t, m).sendQueue = t.sendQueue
        /\ \A c \in Commands : /\ Sent(Transmit(t, m), c) => Sent(t, c) \/ c = m
                               /\ AgedOut(Transmit(t, m), c) => AgedOut(t, c)
    BY <1>1, <1>2, <1>7, <1>8, TransmitStages
  <2>. QED BY <1>3, <1>6, <2>1, <2>2 DEF m
<1>10. CASE entry.aged
  <2>1. CASE m \in Pings
    BY <1>10, <2>1 DEF SendCommandFromQueue, m
  <2>2. CASE m \notin Pings
    <3>1. Event("CONNECT_TIMEOUT", None) \in Events
      BY DEF Event, Events
    <3>2. Stages(Emit(s, m, Event("CONNECT_TIMEOUT", None)), K, D)
      BY <1>1, <3>1, EmitStages DEF Live, m
    <3>. QED BY <1>10, <2>2, <3>2 DEF SendCommandFromQueue, m
  <2>. QED BY <1>10, <2>1, <2>2
<1>. QED BY <1>9, <1>10

\* sendQueuedMessage shifts the head before it sends it.
LEMMA SendQueuedMessageStages ==
  ASSUME NEW s, SessionOK(s), NEW K, NEW D, Stages(s, K, D)
  PROVE  Stages(SendQueuedMessage(s), K, D)
<1>. DEFINE t == [s EXCEPT !.sendQueue = Tail(@)]
            u == [s EXCEPT !.connecting = @ \/ WithoutPings(s.sendQueue) # <<>>]
            entry == Head(s.sendQueue)
<1>1. CASE s.sendQueue = <<>> \/ (s.connected /\ WaitingAcknowledge(s))
  BY <1>1 DEF SendQueuedMessage
<1>2. CASE s.sendQueue # <<>> /\ s.connected /\ ~WaitingAcknowledge(s)
  <2>1. SessionOK(t) /\ entry \in [command : Messages, aged : BOOLEAN]
    BY <1>2, HeadAndTailOK
  <2>2. /\ t.sendQueue = Tail(s.sendQueue) /\ t.messageStates = s.messageStates
        /\ t.msg = s.msg /\ t.sent = s.sent /\ t.events = s.events
    BY DEF SessionOK, SessionFields
  <2>3. /\ 1 \in DOMAIN s.sendQueue /\ entry = s.sendQueue[1]
        /\ \A k \in DOMAIN Tail(s.sendQueue) :
             k + 1 \in DOMAIN s.sendQueue /\ k + 1 # 1 /\ Tail(s.sendQueue)[k] = s.sendQueue[k + 1]
    BY <1>2 DEF SessionOK, QueueOK
  <2>. HIDE DEF t, entry
  <2>4. \A c \in Commands : (Sent(t, c) => Sent(s, c)) /\ (AgedOut(t, c) => AgedOut(s, c))
    BY <2>2 DEF Sent, Listed, Range, AgedOut
  <2>. DEFINE at == [k \in DOMAIN Tail(s.sendQueue) |-> k + 1]
  <2>5. \A k, l \in DOMAIN Tail(s.sendQueue) : at[k] = at[l] => k = l
    BY <1>2 DEF SessionOK, QueueOK
  <2>6. \A k \in DOMAIN Tail(s.sendQueue) :
          at[k] \in DOMAIN s.sendQueue /\ Tail(s.sendQueue)[k].command = s.sendQueue[at[k]].command
    BY <2>3
  <2>. HIDE DEF at
  <2>7. Stages(t, K, D)
    <3>1. /\ \A k \in DOMAIN t.sendQueue :
               at[k] \in DOMAIN s.sendQueue /\ t.sendQueue[k].command = s.sendQueue[at[k]].command
          /\ \A k, l \in DOMAIN t.sendQueue : at[k] = at[l] => k = l
      BY <2>2, <2>5, <2>6
    <3>. QED BY <2>4, <3>1, StagesFewer
  <2>8. Queued(s, entry.command)
    BY <2>3 DEF Queued
  <2>9. entry.command \in Commands => ~Queued(t, entry.command)
    BY <2>2, <2>3, CommandAssumption DEF Queued, Stages
  <2>10. Live(t, K, entry.command) /\ (entry.command \in Commands => entry.command \notin D /\ ~Sent(t, entry.command))
    BY <2>4, <2>8, <2>9 DEF Live, Stages
  <2>11. Stages(SendCommandFromQueue(t, entry), K, D)
    BY <2>1, <2>7, <2>10, QueuedCommandStages
  <2>. QED BY <1>2, <2>11 DEF SendQueuedMessage, t, entry
<1>3. CASE s.sendQueue # <<>> /\ ~s.connected
  <2>1. /\ u.sendQueue = s.sendQueue /\ u.messageStates = s.messageStates
        /\ u.msg = s.msg /\ u.sent = s.sent /\ u.events = s.events
    BY DEF SessionOK, SessionFields
  <2>. HIDE DEF u
  <2>2. \A c \in Commands : (Sent(u, c) => Sent(s, c)) /\ (AgedOut(u, c) => AgedOut(s, c))
    BY <2>1 DEF Sent, Listed, Range, AgedOut
  <2>3. Stages(u, K, D)
    BY <2>1, <2>2, StagesShrink
  <2>. QED BY <1>3, <2>3 DEF SendQueuedMessage, u
<1>. QED BY <1>1, <1>2, <1>3

\* A message that was sent is sent again or given up, and never reported as aged out.
LEMMA SendCommandAgainStages ==
  ASSUME NEW s, SessionOK(s), NEW m \in Messages, NEW K, NEW D, Stages(s, K, D), Live(s, K, m)
  PROVE  Stages(SendCommandAgain(s, m), K, D)
<1>. DEFINE old == s.msg[m].sequence
            moved == Moved(s, m)
            again == IF s.msg[m].failed THEN moved ELSE s
            over  == IF m = Gateway THEN s ELSE Emit(s, m, Event("COMMAND_TIMEOUT", None))
            once  == [again EXCEPT !.msg[m].retries = @ + 1]
<1>1. SessionOK(again) /\ again.msg[m].retries = s.msg[m].retries
  BY MovedOK
<1>2. /\ again.sendQueue = s.sendQueue /\ again.sent = s.sent /\ again.events = s.events
      /\ Listed(again) \subseteq Listed(s) \cup {m}
      /\ \A c \in Commands : again.msg[c].timeout = s.msg[c].timeout
  <2>1. /\ moved.messageStates = WithEntry(WithoutKeys(s.messageStates, {old}), s.seqNumber, m)
        /\ moved.msg = [s.msg EXCEPT ![m].sequence = s.seqNumber]
        /\ moved.sendQueue = s.sendQueue /\ moved.sent = s.sent /\ moved.events = s.events
    BY DEF Moved, SessionOK, SessionFields
  <2>2. \A c \in Commands : moved.msg[c].timeout = s.msg[c].timeout
    BY <2>1 DEF SessionOK, MessagesOK, MessageState, Messages
  <2>. HIDE DEF moved
  <2>3. Listed(moved) \subseteq Listed(s) \cup {m}
    <3>1. \A k \in DOMAIN moved.messageStates :
            \/ moved.messageStates[k] = m
            \/ k \in DOMAIN s.messageStates /\ moved.messageStates[k] = s.messageStates[k]
      BY <2>1 DEF WithEntry, WithoutKeys, Restrict
    <3>. QED BY <3>1, Zenon DEF Listed, Range
  <2>. QED BY <2>1, <2>2, <2>3
<1>. HIDE DEF again
<1>3. ASSUME s.msg[m].retries < MAX_RETRIES
      PROVE  Stages(Transmit(once, m), K, D)
  <2>1. SessionOK(once)
    BY <1>1, <1>3, RetriedOK
  <2>2. /\ once.msg = [again.msg EXCEPT ![m].retries = @ + 1] /\ once.messageStates = again.messageStates
        /\ once.sendQueue = again.sendQueue /\ once.sent = again.sent /\ once.events = again.events
    BY <1>1 DEF SessionOK, SessionFields
  <2>3. \A c \in Commands : once.msg[c].timeout = again.msg[c].timeout
    BY <1>1, <2>2 DEF SessionOK, MessagesOK, MessageState, Messages
  <2>. HIDE DEF once
  <2>4. Listed(once) = Listed(again)
    BY <2>2 DEF Listed, Range
  <2>5. \A c \in Commands : (Sent(once, c) => Sent(s, c) \/ c = m) /\ (AgedOut(once, c) => AgedOut(s, c))
    BY <1>2, <2>2, <2>3, <2>4 DEF Sent, AgedOut
  <2>6. \A c : Queued(once, c) <=> Queued(s, c)
    BY <1>2, <2>2 DEF Queued
  <2>7. Stages(once, K, D) /\ Live(once, K, m)
    BY <1>2, <2>2, <2>5, <2>6 DEF Stages, Live
  <2>. QED BY <2>1, <2>7, TransmitStages
<1>4. Event("COMMAND_TIMEOUT", None) \in Events /\ Event("COMMAND_TIMEOUT", None).code # "CONNECT_TIMEOUT"
  BY DEF Event, Events
<1>5. SessionOK(over) /\ Stages(over, K, D)
  BY <1>4, EmitOK, EmitStages
<1>. HIDE DEF over, once, old
<1>6. Stages(SendQueuedMessage(Unlist(over, old)), K, D)
  BY <1>5, UnlistOK, UnlistStages, SendQueuedMessageStages
<1>. QED BY <1>3, <1>6 DEF SendCommandAgain, Moved, again, over, once, old

\* Staging sends nothing.
LEMMA FirstResultStages ==
  ASSUME NEW s, SessionOK(s), NEW m \in Commands, NEW K, NEW D, Stages(s, K, D)
  PROVE  Stages(FirstResult(s, m), K, D)
<1>. DEFINE t == FirstResult(s, m)
<1>1. /\ t.sendQueue = s.sendQueue /\ t.messageStates = s.messageStates
      /\ t.msg = s.msg /\ t.sent = s.sent /\ t.events = s.events
  BY DEF FirstResult, Stage, SessionOK, SessionFields
<1>. HIDE DEF t
<1>2. \A c \in Commands : (Sent(t, c) => Sent(s, c)) /\ (AgedOut(t, c) => AgedOut(s, c))
  BY <1>1 DEF Sent, Listed, Range, AgedOut
<1>. QED BY <1>1, <1>2, StagesShrink DEF t

\* An answer ends a message or sends it again.
LEMMA HandleResultStages ==
  ASSUME NEW s, SessionOK(s), NEW key \in DOMAIN s.messageStates, NEW from \in Messages, NEW failed \in BOOLEAN,
         NEW K, NEW D, Stages(s, K, D)
  PROVE  Stages(HandleResult(s, key, from, failed), K, D)
<1>. DEFINE m == s.messageStates[key]
            unlisted == Unlist(s, key)
            answered == IF m = Gateway THEN unlisted ELSE Emit(unlisted, m, Event("RESULT", from))
            t == StopTimer(s, m)
            refused == [t EXCEPT !.msg[m].failed = TRUE]
<1>1. m \in Messages /\ m \in Listed(s)
  BY DEF SessionOK, MessagesOK, Listed, Range
<1>2. Event("RESULT", from) \in Events /\ Event("RESULT", from).code # "CONNECT_TIMEOUT"
  BY DEF Event, Events, Messages
<1>. HIDE DEF m
<1>3. SessionOK(unlisted) /\ Stages(unlisted, K, D)
  BY UnlistOK, UnlistStages
<1>4. SessionOK(StopTimer(answered, m)) /\ Stages(StopTimer(answered, m), K, D)
  BY <1>1, <1>2, <1>3, EmitOK, EmitStages, StopTimerOK, StopTimerStages
<1>5. SessionOK(t) /\ Stages(t, K, D)
  BY <1>1, StopTimerOK, StopTimerStages
<1>6. SessionOK(refused) /\ Stages(refused, K, D) /\ Live(refused, K, m)
  <2>1. t.messageStates = s.messageStates /\ t.sendQueue = s.sendQueue /\ t.events = s.events
    BY DEF StopTimer, SessionOK, SessionFields
  <2>. HIDE DEF t
  <2>2. SessionOK(refused)
    BY <1>1, <1>5, RefusedOK
  <2>3. /\ refused.sendQueue = t.sendQueue /\ refused.messageStates = t.messageStates
        /\ refused.msg = [t.msg EXCEPT ![m].failed = TRUE] /\ refused.sent = t.sent /\ refused.events = t.events
    BY <1>5 DEF SessionOK, SessionFields
  <2>4. \A c \in Commands : refused.msg[c].timeout = t.msg[c].timeout
    BY <1>5, <2>3 DEF SessionOK, MessagesOK, MessageState, Messages
  <2>. HIDE DEF refused
  <2>5. \A c \in Commands : (Sent(refused, c) => Sent(t, c)) /\ (AgedOut(refused, c) => AgedOut(t, c))
    BY <2>3, <2>4 DEF Sent, Listed, Range, AgedOut
  <2>6. Stages(refused, K, D)
    BY <1>5, <2>3, <2>5, StagesShrink
  <2>7. m \in Listed(refused)
    BY <1>1, <2>1, <2>3 DEF Listed, Range
  <2>8. Live(refused, K, m)
    BY <2>6, <2>7 DEF Stages, Sent, Live
  <2>. QED BY <2>2, <2>6, <2>8
<1>. HIDE DEF answered, unlisted, refused, t
<1>7. CASE CommandType[m] # CommandType[from]
  BY <1>3, <1>7 DEF HandleResult, m, unlisted
<1>8. CASE CommandType[m] = CommandType[from] /\ failed
  BY <1>1, <1>6, <1>8, SendCommandAgainStages DEF HandleResult, m, refused, t
<1>9. CASE CommandType[m] = CommandType[from] /\ ~failed /\ m \in TwoStageCommands
  <2>1. Stages(FirstResult(StopTimer(answered, m), m), K, D)
    BY <1>4, <1>9, CommandAssumption, FirstResultStages
  <2>. QED BY <1>9, <2>1 DEF HandleResult, m, answered, unlisted
<1>10. CASE CommandType[m] = CommandType[from] /\ ~failed /\ m \notin TwoStageCommands
  <2>1. Stages(SendQueuedMessage(StopTimer(answered, m)), K, D)
    BY <1>4, SendQueuedMessageStages
  <2>. QED BY <1>10, <2>1 DEF HandleResult, m, answered, unlisted
<1>. QED BY <1>7, <1>8, <1>9, <1>10

\* The end of the handshake only wakes the queue.
LEMMA HandshakeOverStages ==
  ASSUME NEW s, SessionOK(s), NEW sequence, NEW K, NEW D, Stages(s, K, D)
  PROVE  Stages(HandshakeOver(s, sequence), K, D)
<1>. DEFINE t == [s EXCEPT !.p2pSeqMapping = WithoutValue(@, sequence), !.p2pDataSeqNumber = @ - 1,
                           !.messageStates = WithoutKeys(@, {sequence})]
<1>1. SessionOK(t)
  BY HandshakeOverNumbersOK
<1>2. /\ t.sendQueue = s.sendQueue /\ t.messageStates = WithoutKeys(s.messageStates, {sequence})
      /\ t.msg = s.msg /\ t.sent = s.sent /\ t.events = s.events
  BY DEF SessionOK, SessionFields
<1>. HIDE DEF t
<1>3. Listed(t) \subseteq Listed(s)
  BY <1>2 DEF Listed, Range, WithoutKeys, Restrict
<1>4. \A c \in Commands : (Sent(t, c) => Sent(s, c)) /\ (AgedOut(t, c) => AgedOut(s, c))
  BY <1>2, <1>3 DEF Sent, AgedOut
<1>5. Stages(t, K, D)
  BY <1>2, <1>4, StagesShrink
<1>. QED BY <1>1, <1>5, SendQueuedMessageStages DEF HandshakeOver, t

\* A connection starts with the handshake: of the commands it sends none.
LEMMA HandshakeFirstStages ==
  ASSUME NEW s, SessionOK(s), s.sendQueue = <<>>, NEW K, NEW D, Stages(s, K, D), s.connected
  PROVE  LET asked == SendCommand(s, Gateway)
         IN /\ asked.sendQueue \in {<<>>, <<[command |-> Gateway, aged |-> FALSE]>>}
            /\ \A c \in Commands : (Sent(asked, c) => Sent(s, c)) /\ (AgedOut(asked, c) => AgedOut(s, c))
<1>. DEFINE entry == [command |-> Gateway, aged |-> FALSE]
            queued == [s EXCEPT !.sendQueue = Append(@, entry)]
            t == [queued EXCEPT !.sendQueue = Tail(@)]
            asked == SendCommand(s, Gateway)
<1>19. entry \in [command : Messages, aged : BOOLEAN]
  BY DEF Messages
<1>. HIDE DEF entry
<1>1. /\ queued.sendQueue = <<entry>> /\ queued.messageStates = s.messageStates /\ queued.connected
      /\ queued.msg = s.msg /\ queued.sent = s.sent /\ queued.events = s.events
  <2>1. Append(<<>>, entry) = <<entry>>
    OBVIOUS
  <2>. QED BY <2>1 DEF SessionOK, SessionFields
<1>2. SessionOK(queued)
  <2>1. Append(s.sendQueue, entry) \in Seq([command : Messages, aged : BOOLEAN])
    BY <1>19 DEF SessionOK, QueueOK
  <2>. QED BY <2>1 DEF SessionOK, ConnectionOK, QueueOK, NumbersOK, MessagesOK, ReportsOK, SessionFields
<1>3. /\ t.sendQueue = <<>> /\ t.messageStates = s.messageStates
      /\ t.msg = s.msg /\ t.sent = s.sent /\ t.events = s.events
  <2>1. Tail(<<entry>>) = <<>>
    OBVIOUS
  <2>. HIDE DEF queued
  <2>. QED BY <1>1, <1>2, <2>1 DEF SessionOK, SessionFields
<1>4. SessionOK(t)
  <2>. HIDE DEF queued
  <2>1. queued.sendQueue # <<>>
    BY <1>1
  <2>. QED BY <1>2, <2>1, HeadAndTailOK
<1>5. asked = IF WaitingAcknowledge(queued) THEN queued ELSE SendCommandFromQueue(t, entry)
  <2>1. Head(<<entry>>) = entry
    OBVIOUS
  <2>2. asked = SendQueuedMessage(queued)
    BY DEF SendCommand, entry
  <2>. HIDE DEF queued, asked
  <2>3. queued.sendQueue # <<>> /\ Head(queued.sendQueue) = entry
    BY <1>1, <2>1
  <2>. QED BY <1>1, <2>2, <2>3 DEF SendQueuedMessage
<1>. HIDE DEF queued, t, asked
<1>6. \A c \in Commands : (Sent(queued, c) => Sent(s, c)) /\ (AgedOut(queued, c) => AgedOut(s, c))
  BY <1>1 DEF Sent, Listed, Range, AgedOut
<1>12. \A c \in Commands : (Sent(t, c) => Sent(s, c)) /\ (AgedOut(t, c) => AgedOut(s, c))
  BY <1>3 DEF Sent, Listed, Range, AgedOut
<1>7. Stages(t, K, D)
  <2>1. t.sendQueue = s.sendQueue
    BY <1>3
  <2>. QED BY <1>12, <2>1, StagesShrink
<1>8. /\ entry \in [command : Messages, aged : BOOLEAN] /\ entry.command = Gateway /\ ~entry.aged
      /\ Gateway \notin Commands
  BY CommandAssumption DEF entry, Messages
<1>9. /\ SendCommandFromQueue(t, entry).sendQueue = t.sendQueue
      /\ \A c \in Commands : c # entry.command =>
           /\ Sent(SendCommandFromQueue(t, entry), c) => Sent(t, c)
           /\ AgedOut(SendCommandFromQueue(t, entry), c) => AgedOut(t, c)
  BY <1>4, <1>7, <1>8, QueuedCommandStages DEF Live
<1>10. asked.sendQueue \in {<<>>, <<entry>>}
  BY <1>1, <1>3, <1>5, <1>9
<1>11. \A c \in Commands : (Sent(asked, c) => Sent(s, c)) /\ (AgedOut(asked, c) => AgedOut(s, c))
  <2>1. CASE WaitingAcknowledge(queued)
    <3>1. asked = queued
      BY <1>5, <2>1
    <3>. QED BY <1>6, <3>1
  <2>2. CASE ~WaitingAcknowledge(queued)
    <3>1. asked = SendCommandFromQueue(t, entry)
      BY <1>5, <2>2
    <3>2. \A c \in Commands : c # entry.command
      BY <1>8
    <3>. QED BY <1>12, <1>9, <3>1, <3>2
  <2>. QED BY <2>1, <2>2
<1>. QED BY <1>10, <1>11 DEF asked, entry

\* Every handler keeps each command in one stage.
LEMMA NextStages == TypeOK /\ OneStage /\ [Next]_vars => OneStage'
<1>. SUFFICES ASSUME TypeOK, OneStage, [Next]_vars PROVE OneStage'
  OBVIOUS
<1>. DEFINE K == Range(issued)
            D == {executed[i].command : i \in DOMAIN executed}
<1>19. SessionOK(session) /\ Stages(session, K, D)
  BY DEF TypeOK, OneStage
<1>18. ASSUME Stages(session', K, D), UNCHANGED <<issued, executed>>
      PROVE  OneStage'
  BY <1>18 DEF OneStage
<1>1. ASSUME NEW c \in Commands, IssueCommand(c) PROVE OneStage'
  <2>. DEFINE t == [session EXCEPT !.sendQueue = Append(@, [command |-> c, aged |-> FALSE])]
  <2>1. session' = SendQueuedMessage(t) /\ c \notin K /\ K' = K \cup {c} /\ D' = D
    <3>1. Range(Append(issued, c)) = Range(issued) \cup {c}
      <4>1. issued \in Seq(Commands)
        BY DEF TypeOK
      <4>2. /\ DOMAIN Append(issued, c) = DOMAIN issued \cup {Len(issued) + 1}
            /\ Append(issued, c)[Len(issued) + 1] = c
            /\ \A k \in DOMAIN issued : Append(issued, c)[k] = issued[k]
        BY <4>1
      <4>. QED BY <4>2, Zenon DEF Range
    <3>. QED BY <1>1, <3>1 DEF IssueCommand, SendCommand
  <2>2. SessionOK(t)
    BY <1>19 DEF SessionOK, ConnectionOK, QueueOK, NumbersOK, MessagesOK, ReportsOK, SessionFields, Messages
  <2>3. /\ t.sendQueue = Append(session.sendQueue, [command |-> c, aged |-> FALSE])
        /\ t.messageStates = session.messageStates
        /\ t.msg = session.msg /\ t.sent = session.sent /\ t.events = session.events
    BY <1>19 DEF SessionOK, SessionFields
  <2>. HIDE DEF t
  <2>4. \A x \in Commands : (Sent(t, x) => Sent(session, x)) /\ (AgedOut(t, x) => AgedOut(session, x))
    BY <2>3 DEF Sent, Listed, Range, AgedOut
  <2>5. session.sendQueue \in Seq([command : Messages, aged : BOOLEAN])
    BY <1>19 DEF SessionOK, QueueOK
  <2>6. /\ DOMAIN t.sendQueue = 1 .. Len(session.sendQueue) + 1 /\ Len(session.sendQueue) \in Nat
        /\ DOMAIN session.sendQueue = 1 .. Len(session.sendQueue)
        /\ t.sendQueue[Len(session.sendQueue) + 1].command = c
        /\ \A k \in DOMAIN session.sendQueue : t.sendQueue[k] = session.sendQueue[k]
    BY <2>3, <2>5
  <2>7. \A x : Queued(t, x) => Queued(session, x) \/ x = c
    BY <2>6 DEF Queued
  <2>8. ~Queued(session, c) /\ ~Sent(session, c) /\ ~AgedOut(session, c) /\ c \notin D
    BY <1>19, <2>1 DEF Stages
  <2>9. \A i, j \in DOMAIN t.sendQueue :
          t.sendQueue[i].command = t.sendQueue[j].command => i = j \/ t.sendQueue[i].command = Gateway
    <3>. SUFFICES ASSUME NEW a \in DOMAIN t.sendQueue, NEW b \in DOMAIN t.sendQueue,
                         t.sendQueue[a].command = t.sendQueue[b].command
                  PROVE  a = b \/ t.sendQueue[a].command = Gateway
      OBVIOUS
    <3>1. CASE a \in DOMAIN session.sendQueue /\ b \in DOMAIN session.sendQueue
      BY <1>19, <2>6, <3>1 DEF Stages
    <3>2. \A k \in DOMAIN session.sendQueue : t.sendQueue[k].command # c
      BY <2>6, <2>8 DEF Queued
    <3>3. \A k \in DOMAIN t.sendQueue : k \in DOMAIN session.sendQueue \/ k = Len(session.sendQueue) + 1
      BY <2>6
    <3>. QED BY <2>6, <3>1, <3>2, <3>3
  <2>10. Stages(t, K \cup {c}, D)
    BY <1>19, <2>4, <2>7, <2>8, <2>9 DEF Stages
  <2>11. Stages(session', K', D')
    BY <2>1, <2>2, <2>10, SendQueuedMessageStages
  <2>. QED BY <2>11 DEF OneStage
<1>2. CASE Connect
  <2>1. /\ session'.sendQueue = session.sendQueue /\ session'.messageStates = session.messageStates
        /\ session'.msg = session.msg /\ session'.sent = session.sent /\ session'.events = session.events
    BY <1>19, <1>2 DEF Connect, SessionOK, SessionFields
  <2>2. \A c \in Commands : (Sent(session', c) => Sent(session, c)) /\ (AgedOut(session', c) => AgedOut(session, c))
    BY <2>1 DEF Sent, Listed, Range, AgedOut
  <2>3. Stages(session', K, D)
    BY <1>19, <2>1, <2>2, StagesShrink
  <2>. QED BY <1>2, <1>18, <2>3 DEF Connect
<1>3. CASE Close
  <2>. DEFINE c == ClearSecondaryTimeout(session)
              emptied == [c EXCEPT !.sendQueue = <<>>, !.msg = ClearTimeouts(@, Listed(session))]
  <2>1. SessionOK(c) /\ Stages(c, K, D)
    BY <1>19, ClearSecondaryTimeoutOK, ClearSecondaryTimeoutStages
  <2>2. SessionOK(emptied)
    BY <1>19, EmptiedOK
  <2>3. /\ emptied.sendQueue = <<>> /\ emptied.messageStates = c.messageStates
        /\ emptied.msg = ClearTimeouts(c.msg, Listed(session)) /\ emptied.sent = c.sent /\ emptied.events = c.events
    BY <2>1 DEF SessionOK, SessionFields
  <2>4. session' = IF session.connected THEN emptied ELSE Initialize(emptied)
    BY <1>3 DEF Close
  <2>. HIDE DEF emptied, c
  <2>5. \A x \in Commands : emptied.msg[x].timeout = c.msg[x].timeout \/ emptied.msg[x].timeout = "none"
    BY <2>1, <2>3 DEF ClearTimeouts, SessionOK, MessagesOK, MessageState, Messages
  <2>6. \A x \in Commands : (Sent(emptied, x) => Sent(c, x)) /\ (AgedOut(emptied, x) => AgedOut(c, x))
    BY <2>3, <2>5 DEF Sent, Listed, Range, AgedOut
  <2>7. Stages(emptied, K, D)
    <3>1. /\ \A k \in DOMAIN emptied.sendQueue :
               c.sendQueue[k] \in DOMAIN c.sendQueue
               /\ emptied.sendQueue[k].command = c.sendQueue[c.sendQueue[k]].command
          /\ \A k, l \in DOMAIN emptied.sendQueue : c.sendQueue[k] = c.sendQueue[l] => k = l
      BY <2>3
    <3>. QED BY <2>1, <2>6, <3>1, StagesFewer
  <2>8. Stages(session', K, D)
    BY <2>2, <2>4, <2>7, InitializeStages
  <2>. QED BY <1>3, <1>18, <2>8 DEF Close
<1>4. CASE CloseEnd
  <2>1. Stages(session', K, D)
    BY <1>19, <1>4, DisconnectedStages DEF CloseEnd
  <2>. QED BY <1>4, <1>18, <2>1 DEF CloseEnd
<1>5. CASE Establish
  <2>. DEFINE up == [session EXCEPT !.connected = TRUE, !.connection = @ + 1, !.sendQueue = <<>>]
              asked == SendCommand(up, Gateway)
              joined == [asked EXCEPT !.sendQueue = @ \o session.sendQueue]
              entry == [command |-> Gateway, aged |-> FALSE]
  <2>1. SessionOK(up)
    BY <1>19, <1>5, UpOK DEF Establish
  <2>2. /\ up.sendQueue = <<>> /\ up.messageStates = session.messageStates /\ up.connected
        /\ up.msg = session.msg /\ up.sent = session.sent /\ up.events = session.events
    BY <1>19 DEF SessionOK, SessionFields
  <2>3. session' = SendQueuedMessage(joined) /\ UNCHANGED <<issued, executed>>
    BY <1>5 DEF Establish
  <2>. HIDE DEF up
  <2>4. \A c \in Commands : (Sent(up, c) => Sent(session, c)) /\ (AgedOut(up, c) => AgedOut(session, c))
    BY <2>2 DEF Sent, Listed, Range, AgedOut
  <2>5. Stages(up, K, D)
    <3>1. /\ \A k \in DOMAIN up.sendQueue :
               session.sendQueue[k] \in DOMAIN session.sendQueue
               /\ up.sendQueue[k].command = session.sendQueue[session.sendQueue[k]].command
          /\ \A k, l \in DOMAIN up.sendQueue : session.sendQueue[k] = session.sendQueue[l] => k = l
      BY <2>2
    <3>. QED BY <1>19, <2>4, <3>1, StagesFewer
  <2>6. SessionOK(asked)
    BY <2>1, SendCommandOK DEF Messages
  <2>7. /\ asked.sendQueue \in {<<>>, <<entry>>}
        /\ \A c \in Commands : (Sent(asked, c) => Sent(up, c)) /\ (AgedOut(asked, c) => AgedOut(up, c))
    BY <2>1, <2>2, <2>5, HandshakeFirstStages
  <2>. HIDE DEF asked
  <2>8. session.sendQueue \in Seq([command : Messages, aged : BOOLEAN])
    BY <1>19 DEF SessionOK, QueueOK
  <2>9. asked.sendQueue \o session.sendQueue \in Seq([command : Messages, aged : BOOLEAN])
    BY <2>6, <2>8 DEF SessionOK, QueueOK
  <2>10. SessionOK(joined)
    BY <2>6, <2>9 DEF SessionOK, ConnectionOK, QueueOK, NumbersOK, MessagesOK, ReportsOK, SessionFields
  <2>11. /\ joined.sendQueue = asked.sendQueue \o session.sendQueue /\ joined.messageStates = asked.messageStates
         /\ joined.msg = asked.msg /\ joined.sent = asked.sent /\ joined.events = asked.events
    BY <2>6 DEF SessionOK, SessionFields
  <2>. HIDE DEF joined
  <2>12. \A c \in Commands : (Sent(joined, c) => Sent(session, c)) /\ (AgedOut(joined, c) => AgedOut(session, c))
    <3>1. \A c \in Commands : (Sent(joined, c) => Sent(asked, c)) /\ (AgedOut(joined, c) => AgedOut(asked, c))
      BY <2>11 DEF Sent, Listed, Range, AgedOut
    <3>. QED BY <2>4, <2>7, <3>1
  <2>13. CASE asked.sendQueue = <<>>
    <3>1. joined.sendQueue = session.sendQueue
      BY <2>8, <2>11, <2>13
    <3>2. Stages(joined, K, D)
      BY <1>19, <2>12, <3>1, StagesShrink
    <3>3. Stages(session', K, D)
      BY <2>3, <2>10, <3>2, SendQueuedMessageStages
    <3>. QED BY <1>18, <2>3, <3>3
  <2>14. CASE asked.sendQueue = <<entry>>
    <3>1. /\ DOMAIN joined.sendQueue = 1 .. Len(session.sendQueue) + 1 /\ Len(session.sendQueue) \in Nat
          /\ DOMAIN session.sendQueue = 1 .. Len(session.sendQueue)
          /\ joined.sendQueue[1] = entry
          /\ \A k \in DOMAIN session.sendQueue : joined.sendQueue[k + 1] = session.sendQueue[k]
      BY <2>8, <2>11, <2>14
    <3>2. \A k \in DOMAIN joined.sendQueue :
            \/ k = 1 /\ joined.sendQueue[k].command = Gateway
            \/ k - 1 \in DOMAIN session.sendQueue /\ joined.sendQueue[k] = session.sendQueue[k - 1]
      BY <3>1
    <3>. HIDE DEF entry
    <3>3. \A c \in Commands : Queued(joined, c) => Queued(session, c)
      BY <3>2, CommandAssumption DEF Queued
    <3>4. ASSUME NEW a \in DOMAIN joined.sendQueue, NEW b \in DOMAIN joined.sendQueue,
                 joined.sendQueue[a].command = joined.sendQueue[b].command,
                 joined.sendQueue[a].command # Gateway
          PROVE  a = b
      <4>1. /\ a - 1 \in DOMAIN session.sendQueue /\ joined.sendQueue[a] = session.sendQueue[a - 1]
            /\ b - 1 \in DOMAIN session.sendQueue /\ joined.sendQueue[b] = session.sendQueue[b - 1]
        BY <3>2, <3>4
      <4>2. a - 1 = b - 1
        BY <1>19, <3>4, <4>1 DEF Stages
      <4>. QED BY <3>1, <4>2
    <3>5. Stages(joined, K, D)
      BY <1>19, <2>12, <3>3, <3>4, Zenon DEF Stages
    <3>6. Stages(session', K, D)
      BY <2>3, <2>10, <3>5, SendQueuedMessageStages
    <3>. QED BY <1>18, <2>3, <3>6
  <2>. QED BY <2>7, <2>13, <2>14
<1>6. CASE Disconnect
  <2>1. Stages(session', K, D)
    BY <1>19, <1>6, DisconnectedStages DEF Disconnect
  <2>. QED BY <1>6, <1>18, <2>1 DEF Disconnect
<1>7. CASE Age
  <2>. DEFINE aged == [i \in DOMAIN session.sendQueue |-> [session.sendQueue[i] EXCEPT !.aged = TRUE]]
              at == [i \in DOMAIN session.sendQueue |-> i]
  <2>1. /\ session'.sendQueue = aged /\ session'.messageStates = session.messageStates
        /\ session'.msg = session.msg /\ session'.sent = session.sent /\ session'.events = session.events
    BY <1>19, <1>7 DEF Age, SessionOK, SessionFields
  <2>2. \A c \in Commands : (Sent(session', c) => Sent(session, c)) /\ (AgedOut(session', c) => AgedOut(session, c))
    BY <2>1 DEF Sent, Listed, Range, AgedOut
  <2>3. session.sendQueue \in Seq([command : Messages, aged : BOOLEAN])
    BY <1>19 DEF SessionOK, QueueOK
  <2>4. \A i \in DOMAIN session.sendQueue : session.sendQueue[i] \in [command : Messages, aged : BOOLEAN]
    BY <2>3, EntryOK
  <2>5. \A i \in DOMAIN session.sendQueue : [session.sendQueue[i] EXCEPT !.aged = TRUE].command = session.sendQueue[i].command
    BY <2>4
  <2>6. DOMAIN aged = DOMAIN session.sendQueue /\ \A i \in DOMAIN session.sendQueue : aged[i].command = session.sendQueue[i].command
    BY <2>5
  <2>. HIDE DEF aged
  <2>7. Stages(session', K, D)
    <3>1. /\ \A k \in DOMAIN session'.sendQueue :
               at[k] \in DOMAIN session.sendQueue /\ session'.sendQueue[k].command = session.sendQueue[at[k]].command
          /\ \A k, l \in DOMAIN session'.sendQueue : at[k] = at[l] => k = l
      BY <2>1, <2>6
    <3>. HIDE DEF at
    <3>. QED BY <1>19, <2>2, <3>1, StagesFewer
  <2>. QED BY <1>7, <1>18, <2>7 DEF Age
<1>8. ASSUME NEW datagram \in session.sent, StationTakes(datagram[1], datagram[2]) PROVE OneStage'
  <2>1. session' = session /\ issued' = issued
    BY <1>8 DEF StationTakes
  <2>2. \/ executed' = executed
        \/ /\ datagram[2] \in Commands
           /\ \E refused \in BOOLEAN : executed' = Append(executed, [command |-> datagram[2], refused |-> refused])
    BY <1>8 DEF StationTakes
  <2>3. CASE executed' = executed
    BY <1>19, <1>18, <2>1, <2>3
  <2>4. ASSUME datagram[2] \in Commands, NEW refused \in BOOLEAN,
               executed' = Append(executed, [command |-> datagram[2], refused |-> refused])
        PROVE  OneStage'
    <3>1. D' = D \cup {datagram[2]}
      <4>1. executed \in Seq([command : Commands, refused : BOOLEAN])
        BY DEF TypeOK
      <4>2. /\ DOMAIN executed' = 1 .. Len(executed) + 1 /\ DOMAIN executed = 1 .. Len(executed) /\ Len(executed) \in Nat
            /\ executed'[Len(executed) + 1].command = datagram[2]
            /\ \A k \in DOMAIN executed : executed'[k] = executed[k]
        BY <2>4, <4>1
      <4>3. /\ DOMAIN executed' = DOMAIN executed \cup {Len(executed) + 1}
            /\ Len(executed) + 1 \notin DOMAIN executed
        BY <4>2
      <4>. QED BY <4>2, <4>3
    <3>2. Sent(session, datagram[2])
      BY DEF Sent
    <3>3. Stages(session, K, D \cup {datagram[2]})
      BY <1>19, <2>4, <3>2 DEF Stages
    <3>. QED BY <2>1, <3>1, <3>3 DEF OneStage
  <2>. QED BY <2>2, <2>3, <2>4
<1>9. ASSUME NEW sequence \in station.seen, HandleAck(sequence) PROVE OneStage'
  <2>. DEFINE m == session.messageStates[sequence]
              noted == [session EXCEPT !.msg[m].timeout = "result", !.msg[m].acknowledged = TRUE]
  <2>1. m \in Messages /\ m \in Listed(session)
    BY <1>19, <1>9 DEF HandleAck, SessionOK, MessagesOK, Listed, Range
  <2>2. SessionOK(noted)
    BY <1>19, <2>1, NotedOK
  <2>3. Stages(noted, K, D)
    <3>. HIDE DEF m
    <3>1. /\ noted.sendQueue = session.sendQueue /\ noted.messageStates = session.messageStates
          /\ noted.msg = [session.msg EXCEPT ![m].timeout = "result", ![m].acknowledged = TRUE]
          /\ noted.sent = session.sent /\ noted.events = session.events
      BY <1>19 DEF SessionOK, SessionFields
    <3>2. \A c \in Commands : c # m => noted.msg[c] = session.msg[c]
      BY <1>19, <3>1 DEF SessionOK, MessagesOK, MessageState, Messages
    <3>. HIDE DEF noted
    <3>3. \A c \in Commands : (Sent(noted, c) => Sent(session, c)) /\ (AgedOut(noted, c) => AgedOut(session, c))
      BY <2>1, <3>1, <3>2 DEF Sent, Listed, Range, AgedOut
    <3>. QED BY <1>19, <3>1, <3>3, StagesShrink
  <2>4. LET t == StopTimer(Unlist(session, sequence), m) IN SessionOK(t) /\ Stages(t, K, D)
    BY <1>19, <2>1, UnlistOK, StopTimerOK, UnlistStages, StopTimerStages
  <2>5. session' = SendQueuedMessage(IF m \in Pings THEN StopTimer(Unlist(session, sequence), m) ELSE noted)
    BY <1>9 DEF HandleAck
  <2>6. Stages(session', K, D)
    BY <2>2, <2>3, <2>4, <2>5, SendQueuedMessageStages
  <2>. QED BY <1>9, <1>18, <2>6 DEF HandleAck
<1>10. CASE HandleData
  <2>. DEFINE number == session.results % (MAX_SEQUENCE_NUMBER + 1)
              good == MappedSequence(session, number)
              key == IF good = 0 THEN number ELSE good
              taken == [session EXCEPT !.results = @ + 1,
                                       !.p2pSeqMapping = IF good = 0 THEN @ ELSE WithoutKeys(@, {number})]
              answer == station.answers[session.results + 1]
  <2>1. answer.from \in Messages /\ answer.failed \in BOOLEAN
    BY <1>10, AnswerOK DEF HandleData
  <2>2. session' = IF key \in DOMAIN session.messageStates
                     THEN HandleResult(taken, key, answer.from, answer.failed)
                     ELSE taken
    BY <1>10 DEF HandleData
  <2>. HIDE DEF answer, key, good, number
  <2>3. SessionOK(taken)
    BY <1>19, TakenOK
  <2>4. /\ taken.sendQueue = session.sendQueue /\ taken.messageStates = session.messageStates
        /\ taken.msg = session.msg /\ taken.sent = session.sent /\ taken.events = session.events
    BY <1>19 DEF SessionOK, SessionFields
  <2>. HIDE DEF taken
  <2>5. \A c \in Commands : (Sent(taken, c) => Sent(session, c)) /\ (AgedOut(taken, c) => AgedOut(session, c))
    BY <2>4 DEF Sent, Listed, Range, AgedOut
  <2>6. Stages(taken, K, D)
    BY <1>19, <2>4, <2>5, StagesShrink
  <2>7. Stages(session', K, D)
    BY <2>1, <2>2, <2>3, <2>4, <2>6, HandleResultStages
  <2>. QED BY <1>10, <1>18, <2>7 DEF HandleData
<1>11. CASE HandleGatewayInfo
  BY <1>19, <1>11, <1>18 DEF HandleGatewayInfo
<1>12. ASSUME NEW connection \in 1 .. MaxConnections, CipherAnswers(connection) PROVE OneStage'
  <2>1. PICK level \in {"LEVEL_1", "LEVEL_2"} :
          session' = HandshakeOver(
            [session EXCEPT !.encryption = level, !.p2pKey = connection,
                            !.msg = ClearTimeouts(@, {session.messageStates[k] :
                                                      k \in {0} \cap DOMAIN session.messageStates})], 0)
    BY <1>12 DEF CipherAnswers
  <2>. DEFINE ms == {session.messageStates[k] : k \in {0} \cap DOMAIN session.messageStates}
              keyed == [session EXCEPT !.encryption = level, !.p2pKey = connection,
                                       !.msg = ClearTimeouts(@, ms)]
  <2>2. session' = HandshakeOver(keyed, 0)
    BY <2>1
  <2>. HIDE DEF ms
  <2>3. SessionOK(keyed)
    BY <1>19, KeyedOK
  <2>4. /\ keyed.sendQueue = session.sendQueue /\ keyed.messageStates = session.messageStates
        /\ keyed.msg = ClearTimeouts(session.msg, ms) /\ keyed.sent = session.sent /\ keyed.events = session.events
    BY <1>19 DEF SessionOK, SessionFields
  <2>5. \A c \in Commands : keyed.msg[c].timeout = session.msg[c].timeout \/ keyed.msg[c].timeout = "none"
    BY <1>19, <2>4 DEF ClearTimeouts, SessionOK, MessagesOK, MessageState, Messages
  <2>. HIDE DEF keyed
  <2>6. \A c \in Commands : (Sent(keyed, c) => Sent(session, c)) /\ (AgedOut(keyed, c) => AgedOut(session, c))
    BY <2>4, <2>5 DEF Sent, Listed, Range, AgedOut
  <2>7. Stages(keyed, K, D)
    BY <1>19, <2>4, <2>6, StagesShrink
  <2>8. Stages(session', K, D)
    BY <2>2, <2>3, <2>7, HandshakeOverStages
  <2>. QED BY <1>12, <1>18, <2>8 DEF CipherAnswers
<1>13. CASE HandleSecondResult
  <2>. DEFINE from == Head(station.second)
              type == CommandType[from]
              unstaged == [session EXCEPT !.customDataStaging = WithoutKeys(@, {type})]
              staged == IF type \in DOMAIN session.customDataStaging
                          THEN Emit(unstaged, session.customDataStaging[type], Event("SECOND_RESULT", from))
                          ELSE session
  <2>1. from \in Commands
    BY <1>13 DEF HandleSecondResult, TypeOK, StationOK
  <2>2. session' = SendQueuedMessage(ClearSecondaryTimeout(staged))
    BY <1>13 DEF HandleSecondResult
  <2>. HIDE DEF type, from
  <2>3. SessionOK(unstaged)
    BY <1>19 DEF SessionOK, ConnectionOK, QueueOK, NumbersOK, MessagesOK, ReportsOK, SessionFields, WithoutKeys, Restrict
  <2>4. /\ unstaged.sendQueue = session.sendQueue /\ unstaged.messageStates = session.messageStates
        /\ unstaged.msg = session.msg /\ unstaged.sent = session.sent /\ unstaged.events = session.events
    BY <1>19 DEF SessionOK, SessionFields
  <2>. HIDE DEF unstaged
  <2>5. \A c \in Commands : (Sent(unstaged, c) => Sent(session, c)) /\ (AgedOut(unstaged, c) => AgedOut(session, c))
    BY <2>4 DEF Sent, Listed, Range, AgedOut
  <2>6. Stages(unstaged, K, D)
    BY <1>19, <2>4, <2>5, StagesShrink
  <2>7. Event("SECOND_RESULT", from) \in Events /\ Event("SECOND_RESULT", from).code # "CONNECT_TIMEOUT"
    BY <2>1 DEF Event, Events
  <2>8. ASSUME type \in DOMAIN session.customDataStaging
        PROVE  session.customDataStaging[type] \in Messages
    BY <1>19, <2>8 DEF SessionOK, ReportsOK, Messages
  <2>9. SessionOK(staged) /\ Stages(staged, K, D)
    BY <1>19, <2>3, <2>6, <2>7, <2>8, EmitOK, EmitStages
  <2>. HIDE DEF staged
  <2>10. Stages(session', K, D)
    BY <2>2, <2>9, ClearSecondaryTimeoutOK, ClearSecondaryTimeoutStages, SendQueuedMessageStages
  <2>. QED BY <1>13, <1>18, <2>10 DEF HandleSecondResult
<1>14. ASSUME NEW m \in Messages, AckTimeout(m) PROVE OneStage'
  <2>. DEFINE fired == StopTimer(session, m)
  <2>1. SessionOK(fired) /\ Stages(fired, K, D)
    BY <1>19, StopTimerOK, StopTimerStages
  <2>2. fired.sendQueue = session.sendQueue /\ fired.events = session.events
    BY <1>19 DEF StopTimer, SessionOK, SessionFields
  <2>. HIDE DEF fired
  <2>3. Live(session, K, m)
    BY <1>19, <1>14 DEF AckTimeout, Live, Stages, Sent
  <2>4. Live(fired, K, m)
    BY <2>2, <2>3 DEF Live, Queued, AgedOut
  <2>5. Stages(session', K, D)
    BY <1>14, <2>1, <2>4, SendCommandAgainStages DEF AckTimeout, fired
  <2>. QED BY <1>14, <1>18, <2>5 DEF AckTimeout
<1>15. ASSUME NEW m \in Messages, ResultTimeout(m) PROVE OneStage'
  <2>. DEFINE fired == StopTimer(session, m)
              sequence == session.msg[m].sequence
              dropped == Emit(Unlist(fired, sequence), m, Event("COMMAND_TIMEOUT", None))
  <2>1. session' = IF m = Gateway THEN HandshakeOver(fired, sequence) ELSE SendQueuedMessage(dropped)
    BY <1>15 DEF ResultTimeout
  <2>2. SessionOK(fired) /\ Stages(fired, K, D)
    BY <1>19, StopTimerOK, StopTimerStages
  <2>3. Event("COMMAND_TIMEOUT", None) \in Events /\ Event("COMMAND_TIMEOUT", None).code # "CONNECT_TIMEOUT"
    BY DEF Event, Events
  <2>4. SessionOK(dropped) /\ Stages(dropped, K, D)
    BY <2>2, <2>3, UnlistOK, UnlistStages, EmitOK, EmitStages
  <2>5. Stages(session', K, D)
    BY <2>1, <2>2, <2>4, HandshakeOverStages, SendQueuedMessageStages
  <2>. QED BY <1>15, <1>18, <2>5 DEF ResultTimeout
<1>16. ASSUME NEW m \in Commands, SecondaryTimeout(m) PROVE OneStage'
  <2>. DEFINE fired == [session EXCEPT !.secondaryTimers = @ \ {m}, !.secondaryTimeout = None]
              told == Emit(fired, m, Event("SECONDARY_TIMEOUT", None))
  <2>1. SessionOK(fired)
    BY <1>19 DEF SessionOK, ConnectionOK, QueueOK, NumbersOK, MessagesOK, ReportsOK, SessionFields
  <2>2. /\ fired.sendQueue = session.sendQueue /\ fired.messageStates = session.messageStates
        /\ fired.msg = session.msg /\ fired.sent = session.sent /\ fired.events = session.events
    BY <1>19 DEF SessionOK, SessionFields
  <2>3. session' = SendQueuedMessage(told)
    BY <1>16 DEF SecondaryTimeout
  <2>. HIDE DEF fired
  <2>4. \A c \in Commands : (Sent(fired, c) => Sent(session, c)) /\ (AgedOut(fired, c) => AgedOut(session, c))
    BY <2>2 DEF Sent, Listed, Range, AgedOut
  <2>5. Stages(fired, K, D)
    BY <1>19, <2>2, <2>4, StagesShrink
  <2>6. /\ Event("SECONDARY_TIMEOUT", None) \in Events /\ m \in Messages
        /\ Event("SECONDARY_TIMEOUT", None).code # "CONNECT_TIMEOUT"
    BY DEF Event, Events, Messages
  <2>7. SessionOK(told) /\ Stages(told, K, D)
    BY <2>1, <2>5, <2>6, EmitOK, EmitStages
  <2>8. Stages(session', K, D)
    BY <2>3, <2>7, SendQueuedMessageStages
  <2>. QED BY <1>16, <1>18, <2>8 DEF SecondaryTimeout
<1>17. CASE UNCHANGED vars
  BY <1>19, <1>17, <1>18 DEF vars
<1>. QED
  BY <1>1, <1>2, <1>3, <1>4, <1>5, <1>6, <1>7, <1>8, <1>9, <1>10, <1>11, <1>12, <1>13, <1>14, <1>15,
     <1>16, <1>17 DEF Next

\* At first nothing was issued.
LEMMA InitStages == Init => OneStage
<1>. SUFFICES ASSUME Init PROVE OneStage
  OBVIOUS
<1>1. /\ session.sendQueue = <<>> /\ Listed(session) = {} /\ session.sent = {} /\ executed = <<>>
      /\ \A c \in Commands : session.msg[c].timeout = "none" /\ session.events[c] = <<>>
  BY DEF Init, Listed, Range, NoEntries, FreshMessage, Messages
<1>. QED BY <1>1 DEF OneStage, Stages, Queued, Sent, AgedOut

\* A command is not issued yet, queued, sent (or executed) or reported as aged out, and in one of these
\* stages only: _disconnected, close, retries and the handshake never bring a sent command back to the queue.
THEOREM CommandsInOneStage == Spec => []OneStage
<1>1. Spec => []TypeOK
  BY TypeCorrect
<1>. QED BY <1>1, InitStages, NextStages, PTL DEF Spec

\* A command for which the application got CONNECT_TIMEOUT from the queue was not executed and will
\* not be, whatever is lost, late or reordered.
THEOREM AgedOutCommandsNotExecuted == Spec => []AgedOutNotExecuted
<1>1. TypeOK /\ OneStage => AgedOutNotExecuted
  <2>. SUFFICES ASSUME TypeOK, OneStage, NEW i \in DOMAIN executed
                PROVE  ~AgedOut(session, executed[i].command)
    BY DEF AgedOutNotExecuted, AgedOut
  <2>1. executed[i].command \in Commands
    <3>1. executed[i] \in [command : Commands, refused : BOOLEAN]
      BY EntryOK, Zenon DEF TypeOK
    <3>. QED BY <3>1
  <2>. QED BY <2>1 DEF OneStage, Stages
<1>. QED BY <1>1, TypeCorrect, CommandsInOneStage, PTL

-----------------------------------------------------------------------------
(* What the methods change *)

SameLink(s, t) ==
  /\ t.connected = s.connected /\ t.connecting = s.connecting /\ t.connection = s.connection
  /\ t.encryption = s.encryption /\ t.p2pKey = s.p2pKey
SameNumbers(s, t) ==
  /\ t.seqNumber = s.seqNumber /\ t.p2pDataSeqNumber = s.p2pDataSeqNumber
  /\ t.p2pSeqMapping = s.p2pSeqMapping /\ t.results = s.results
SameMessages(s, t) == t.messageStates = s.messageStates /\ t.msg = s.msg /\ t.sent = s.sent
SameStages(s, t) ==
  /\ t.secondaryTimeout = s.secondaryTimeout /\ t.secondaryTimers = s.secondaryTimers
  /\ t.customDataStaging = s.customDataStaging

\* One message has one more event.
OneMore(s, t, m, event) ==
  t.events[m] = Append(s.events[m], event) /\ \A x \in Messages \ {m} : t.events[x] = s.events[x]

\* Reporting changes the events of one message.
LEMMA EmitFields ==
  ASSUME NEW s, SessionOK(s), NEW m \in Messages, NEW event
  PROVE  LET t == Emit(s, m, event)
         IN /\ SameLink(s, t) /\ SameNumbers(s, t) /\ SameMessages(s, t) /\ SameStages(s, t)
            /\ t.sendQueue = s.sendQueue /\ OneMore(s, t, m, event)
<1>. DEFINE t == Emit(s, m, event)
<1>1. /\ SameLink(s, t) /\ SameNumbers(s, t) /\ SameMessages(s, t) /\ SameStages(s, t)
      /\ t.sendQueue = s.sendQueue /\ t.events = [s.events EXCEPT ![m] = Append(@, event)]
  BY DEF Emit, SessionOK, SessionFields, SameLink, SameNumbers, SameMessages, SameStages
<1>2. s.events \in [Messages -> Seq(Events)]
  BY DEF SessionOK, ReportsOK
<1>. HIDE DEF t
<1>3. OneMore(s, t, m, event)
  BY <1>1, <1>2 DEF OneMore
<1>. QED BY <1>1, <1>3 DEF t

\* Stopping a timer changes the state of one message.
LEMMA StopTimerFields ==
  ASSUME NEW s, SessionOK(s), NEW m \in Messages, NEW t, t = StopTimer(s, m)
  PROVE  /\ SessionOK(t) /\ SameLink(s, t) /\ SameNumbers(s, t) /\ SameStages(s, t)
         /\ t.sendQueue = s.sendQueue /\ t.events = s.events
         /\ t.messageStates = s.messageStates /\ t.sent = s.sent
         /\ t.msg = [s.msg EXCEPT ![m].timeout = "none"]
<1>1. SessionOK(t)
  BY StopTimerOK
<1>2. SameLink(s, t) /\ SameNumbers(s, t) /\ SameStages(s, t)
  BY DEF StopTimer, SessionOK, SessionFields, SameLink, SameNumbers, SameStages
<1>3. /\ t.sendQueue = s.sendQueue /\ t.events = s.events
      /\ t.messageStates = s.messageStates /\ t.sent = s.sent
      /\ t.msg = [s.msg EXCEPT ![m].timeout = "none"]
  BY DEF StopTimer, SessionOK, SessionFields
<1>. QED BY <1>1, <1>2, <1>3

\* Deleting a message leaves its state, and its timer, alone.
LEMMA UnlistFields ==
  ASSUME NEW s, SessionOK(s), NEW sequence
  PROVE  LET t == Unlist(s, sequence)
         IN /\ SameLink(s, t) /\ SameNumbers(s, t) /\ SameStages(s, t)
            /\ t.sendQueue = s.sendQueue /\ t.events = s.events
            /\ t.messageStates = WithoutKeys(s.messageStates, {sequence}) /\ t.msg = s.msg /\ t.sent = s.sent
BY DEF Unlist, SessionOK, SessionFields, SameLink, SameNumbers, SameStages

\* The timer of a second result that the handle knows is stopped.
LEMMA ClearSecondaryFields ==
  ASSUME NEW s, SessionOK(s)
  PROVE  LET t == ClearSecondaryTimeout(s)
         IN /\ SameLink(s, t) /\ SameNumbers(s, t) /\ SameMessages(s, t)
            /\ t.sendQueue = s.sendQueue /\ t.events = s.events
            /\ t.secondaryTimers = s.secondaryTimers \ {s.secondaryTimeout} /\ t.secondaryTimeout = None
            /\ t.customDataStaging = s.customDataStaging
BY DEF ClearSecondaryTimeout, SessionOK, SessionFields, SameLink, SameNumbers, SameMessages

\* _initialize forgets the connection; the queue and the events stay.
LEMMA InitializeFields ==
  ASSUME NEW s, SessionOK(s)
  PROVE  LET t == Initialize(s)
         IN /\ ~t.connected /\ ~t.connecting /\ t.connection = s.connection
            /\ t.encryption = "NONE" /\ t.p2pKey = 0
            /\ t.seqNumber = 0 /\ t.p2pDataSeqNumber = 0 /\ t.p2pSeqMapping = NoEntries /\ t.results = 0
            /\ t.messageStates = NoEntries /\ t.msg = ClearTimeouts(s.msg, Listed(s)) /\ t.sent = {}
            /\ t.secondaryTimeout = s.secondaryTimeout /\ t.secondaryTimers = s.secondaryTimers
            /\ t.customDataStaging = NoEntries
            /\ t.sendQueue = s.sendQueue /\ t.events = s.events
BY DEF Initialize, SessionOK, SessionFields

\* _disconnected forgets the connection and drops the pings from the queue.
LEMMA DisconnectedFields ==
  ASSUME NEW s, SessionOK(s)
  PROVE  LET t == Disconnected(s)
         IN /\ ~t.connected /\ ~t.connecting /\ t.connection = s.connection
            /\ t.encryption = "NONE" /\ t.p2pKey = 0
            /\ t.seqNumber = 0 /\ t.p2pDataSeqNumber = 0 /\ t.p2pSeqMapping = NoEntries /\ t.results = 0
            /\ t.messageStates = NoEntries /\ t.msg = ClearTimeouts(s.msg, Listed(s)) /\ t.sent = {}
            /\ t.secondaryTimers = s.secondaryTimers \ {s.secondaryTimeout}
            /\ t.customDataStaging = NoEntries
            /\ t.sendQueue = WithoutPings(s.sendQueue) /\ t.events = s.events
<1>. DEFINE c == ClearSecondaryTimeout(s)
            q == [c EXCEPT !.sendQueue = WithoutPings(@)]
<1>1. SessionOK(c)
  BY ClearSecondaryTimeoutOK
<1>2. /\ SameLink(s, c) /\ SameNumbers(s, c) /\ SameMessages(s, c)
      /\ c.sendQueue = s.sendQueue /\ c.events = s.events
      /\ c.secondaryTimers = s.secondaryTimers \ {s.secondaryTimeout} /\ c.secondaryTimeout = None
      /\ c.customDataStaging = s.customDataStaging
  BY ClearSecondaryFields
<1>. HIDE DEF c
<1>3. /\ q.connection = c.connection /\ q.messageStates = c.messageStates /\ q.msg = c.msg
      /\ q.secondaryTimers = c.secondaryTimers /\ q.events = c.events /\ q.sendQueue = WithoutPings(c.sendQueue)
  BY <1>1 DEF SessionOK, SessionFields
<1>4. WithoutPings(c.sendQueue) \in Seq([command : Messages, aged : BOOLEAN])
  BY <1>1, WithoutPingsType DEF SessionOK, QueueOK
<1>5. SessionOK(q)
  BY <1>1, <1>4 DEF SessionOK, ConnectionOK, QueueOK, NumbersOK, MessagesOK, ReportsOK, SessionFields
<1>6. Disconnected(s) = Initialize(q)
  BY DEF Disconnected, c
<1>. HIDE DEF q
<1>7. Listed(q) = Listed(s)
  BY <1>2, <1>3 DEF Listed, SameMessages
<1>8. LET t == Initialize(q)
      IN /\ ~t.connected /\ ~t.connecting /\ t.connection = q.connection
         /\ t.encryption = "NONE" /\ t.p2pKey = 0
         /\ t.seqNumber = 0 /\ t.p2pDataSeqNumber = 0 /\ t.p2pSeqMapping = NoEntries /\ t.results = 0
         /\ t.messageStates = NoEntries /\ t.msg = ClearTimeouts(q.msg, Listed(q)) /\ t.sent = {}
         /\ t.secondaryTimeout = q.secondaryTimeout /\ t.secondaryTimers = q.secondaryTimers
         /\ t.customDataStaging = NoEntries
         /\ t.sendQueue = q.sendQueue /\ t.events = q.events
  BY <1>5, InitializeFields
<1>. QED BY <1>2, <1>3, <1>6, <1>7, <1>8 DEF SameLink, SameMessages

\* The numbering of results moves on with every message but a CMD_PING.
Counted(s, t, m, number) ==
  /\ t.results = s.results
  /\ IF m \in PingCommands
       THEN t.p2pSeqMapping = s.p2pSeqMapping /\ t.p2pDataSeqNumber = s.p2pDataSeqNumber
       ELSE /\ t.p2pSeqMapping = WithEntry(s.p2pSeqMapping, s.p2pDataSeqNumber, number)
            /\ t.p2pDataSeqNumber = IncrementSequence(s.p2pDataSeqNumber)

\* The end of _sendCommand.
LEMMA TransmitFields ==
  ASSUME NEW s, SessionOK(s), NEW m
  PROVE  LET t == Transmit(s, m)
         IN /\ SameLink(s, t) /\ SameStages(s, t) /\ t.sendQueue = s.sendQueue /\ t.events = s.events
            /\ t.seqNumber = s.seqNumber /\ Counted(s, t, m, s.msg[m].sequence)
            /\ t.messageStates = WithEntry(s.messageStates, s.msg[m].sequence, m)
            /\ t.msg = [s.msg EXCEPT ![m].timeout = "ack"]
            /\ t.sent = IF s.connected THEN s.sent \cup {<<s.msg[m].sequence, m>>} ELSE s.sent
<1>1. CASE m \in PingCommands
  BY <1>1 DEF Transmit, SessionOK, SessionFields, SameLink, SameStages, Counted
<1>2. CASE m \notin PingCommands
  BY <1>2 DEF Transmit, SessionOK, SessionFields, SameLink, SameStages, Counted
<1>. QED BY <1>1, <1>2

\* A message of the queue goes out under the next number.
SentFresh(s, t, m) ==
  /\ SameLink(s, t) /\ SameStages(s, t) /\ t.events = s.events
  /\ t.seqNumber = IncrementSequence(s.seqNumber) /\ Counted(s, t, m, s.seqNumber)
  /\ t.messageStates = WithEntry(s.messageStates, s.seqNumber, m)
  /\ t.msg[m].sequence = s.seqNumber /\ ~t.msg[m].acknowledged /\ ~t.msg[m].failed /\ t.msg[m].timeout = "ack"
  /\ \A x \in Messages \ {m} : t.msg[x] = s.msg[x]
  /\ t.sent = IF s.connected THEN s.sent \cup {<<s.seqNumber, m>>} ELSE s.sent

\* A message of the queue is too old: the application hears of it unless it is a ping.
ReportedAged(s, t, m) ==
  /\ SameLink(s, t) /\ SameNumbers(s, t) /\ SameMessages(s, t) /\ SameStages(s, t)
  /\ IF m \in Pings THEN t.events = s.events ELSE OneMore(s, t, m, Event("CONNECT_TIMEOUT", None))

\* _sendCommand of an entry of the queue sends it or reports it.
LEMMA SendCommandFromQueueFields ==
  ASSUME NEW s, SessionOK(s), NEW entry \in [command : Messages, aged : BOOLEAN]
  PROVE  LET t == SendCommandFromQueue(s, entry)
         IN /\ t.sendQueue = s.sendQueue
            /\ ~entry.aged => SentFresh(s, t, entry.command)
            /\ entry.aged => ReportedAged(s, t, entry.command)
<1>. DEFINE m == entry.command
            n == [s EXCEPT !.msg[m] = [FreshMessage EXCEPT !.sequence = s.seqNumber],
                           !.seqNumber = IncrementSequence(@)]
<1>1. m \in Messages
  OBVIOUS
<1>. HIDE DEF m
<1>2. CASE ~entry.aged
  <2>1. SessionOK(n)
    BY <1>1, NumberedOK
  <2>2. LET f == [FreshMessage EXCEPT !.sequence = s.seqNumber]
        IN f.sequence = s.seqNumber /\ ~f.acknowledged /\ ~f.failed
    BY DEF FreshMessage
  <2>3. /\ SameLink(s, n) /\ SameStages(s, n) /\ n.sendQueue = s.sendQueue /\ n.events = s.events
        /\ n.seqNumber = IncrementSequence(s.seqNumber) /\ n.p2pDataSeqNumber = s.p2pDataSeqNumber
        /\ n.p2pSeqMapping = s.p2pSeqMapping /\ n.results = s.results
        /\ n.messageStates = s.messageStates /\ n.sent = s.sent
        /\ n.msg = [s.msg EXCEPT ![m] = [FreshMessage EXCEPT !.sequence = s.seqNumber]]
    BY DEF SessionOK, SessionFields, SameLink, SameStages
  <2>4. SendCommandFromQueue(s, entry) = Transmit(n, m)
    BY <1>2 DEF SendCommandFromQueue, m
  <2>. HIDE DEF n
  <2>5. s.msg \in [Messages -> MessageState] /\ n.msg \in [Messages -> MessageState]
    BY <2>1 DEF SessionOK, MessagesOK
  <2>6. n.msg[m].sequence = s.seqNumber /\ ~n.msg[m].acknowledged /\ ~n.msg[m].failed
        /\ \A x \in Messages \ {m} : n.msg[x] = s.msg[x]
    BY <1>1, <2>2, <2>3, <2>5
  <2>. DEFINE t == Transmit(n, m)
  <2>7. /\ SameLink(n, t) /\ SameStages(n, t) /\ t.sendQueue = n.sendQueue /\ t.events = n.events
        /\ t.seqNumber = n.seqNumber /\ Counted(n, t, m, n.msg[m].sequence)
        /\ t.messageStates = WithEntry(n.messageStates, n.msg[m].sequence, m)
        /\ t.msg = [n.msg EXCEPT ![m].timeout = "ack"]
        /\ t.sent = IF n.connected THEN n.sent \cup {<<n.msg[m].sequence, m>>} ELSE n.sent
    BY <2>1, TransmitFields
  <2>. HIDE DEF t
  <2>8. /\ t.msg[m].sequence = s.seqNumber /\ ~t.msg[m].acknowledged /\ ~t.msg[m].failed /\ t.msg[m].timeout = "ack"
        /\ \A x \in Messages \ {m} : t.msg[x] = s.msg[x]
    BY <1>1, <2>5, <2>6, <2>7 DEF MessageState
  <2>9. SentFresh(s, t, m)
    BY <2>3, <2>6, <2>7, <2>8 DEF SentFresh, SameLink, SameStages, Counted
  <2>. QED BY <1>2, <2>3, <2>4, <2>7, <2>9 DEF t, m
<1>3. CASE entry.aged /\ m \in Pings
  <2>1. SendCommandFromQueue(s, entry) = s
    BY <1>3 DEF SendCommandFromQueue, m
  <2>. QED BY <1>3, <2>1 DEF ReportedAged, SameLink, SameNumbers, SameMessages, SameStages, m
<1>4. CASE entry.aged /\ m \notin Pings
  <2>1. SendCommandFromQueue(s, entry) = Emit(s, m, Event("CONNECT_TIMEOUT", None))
    BY <1>4 DEF SendCommandFromQueue, m
  <2>. DEFINE event == Event("CONNECT_TIMEOUT", None)
              t == Emit(s, m, event)
  <2>. HIDE DEF event
  <2>2. /\ SameLink(s, t) /\ SameNumbers(s, t) /\ SameMessages(s, t) /\ SameStages(s, t)
        /\ t.sendQueue = s.sendQueue /\ OneMore(s, t, m, event)
    BY <1>1, EmitFields
  <2>. HIDE DEF t
  <2>3. ReportedAged(s, t, m)
    BY <1>4, <2>2 DEF ReportedAged, event
  <2>. QED BY <1>4, <2>1, <2>2, <2>3 DEF t, m, event
<1>. QED BY <1>2, <1>3, <1>4

\* sendQueuedMessage does nothing, asks for a connection, or takes the head of the queue.
Idle(s, t) == t = s /\ (s.sendQueue = <<>> \/ WaitingAcknowledge(s))
Asked(s, t) ==
  /\ t.connected = s.connected /\ ~s.connected /\ t.connection = s.connection
  /\ t.encryption = s.encryption /\ t.p2pKey = s.p2pKey
  /\ SameNumbers(s, t) /\ SameMessages(s, t) /\ SameStages(s, t)
  /\ t.sendQueue = s.sendQueue /\ t.events = s.events
TookHead(s, t) ==
  /\ s.connected /\ s.sendQueue # <<>> /\ ~WaitingAcknowledge(s)
  /\ t.sendQueue = Tail(s.sendQueue)
  /\ IF Head(s.sendQueue).aged THEN ReportedAged(s, t, Head(s.sendQueue).command)
                               ELSE SentFresh(s, t, Head(s.sendQueue).command)

LEMMA SendQueuedMessageFields ==
  ASSUME NEW s, SessionOK(s)
  PROVE  LET t == SendQueuedMessage(s) IN Idle(s, t) \/ Asked(s, t) \/ TookHead(s, t)
<1>. DEFINE h == [s EXCEPT !.sendQueue = Tail(@)]
            u == [s EXCEPT !.connecting = @ \/ WithoutPings(s.sendQueue) # <<>>]
            entry == Head(s.sendQueue)
<1>1. CASE s.sendQueue = <<>> \/ (s.connected /\ WaitingAcknowledge(s))
  BY <1>1 DEF SendQueuedMessage, Idle
<1>2. CASE s.sendQueue # <<>> /\ s.connected /\ ~WaitingAcknowledge(s)
  <2>1. SessionOK(h) /\ entry \in [command : Messages, aged : BOOLEAN]
    BY <1>2, HeadAndTailOK
  <2>2. /\ SameLink(s, h) /\ SameNumbers(s, h) /\ SameMessages(s, h) /\ SameStages(s, h)
        /\ h.sendQueue = Tail(s.sendQueue) /\ h.events = s.events
    BY DEF SessionOK, SessionFields, SameLink, SameNumbers, SameMessages, SameStages
  <2>3. SendQueuedMessage(s) = SendCommandFromQueue(h, entry)
    BY <1>2 DEF SendQueuedMessage
  <2>. HIDE DEF h, entry
  <2>4. LET t == SendCommandFromQueue(h, entry)
        IN /\ t.sendQueue = h.sendQueue
           /\ ~entry.aged => SentFresh(h, t, entry.command)
           /\ entry.aged => ReportedAged(h, t, entry.command)
    BY <2>1, SendCommandFromQueueFields
  <2>. DEFINE t == SendCommandFromQueue(h, entry)
  <2>. HIDE DEF t
  <2>5. t.sendQueue = h.sendQueue /\ (~entry.aged => SentFresh(h, t, entry.command))
        /\ (entry.aged => ReportedAged(h, t, entry.command))
    BY <2>4 DEF t
  <2>6. ~entry.aged => SentFresh(s, t, entry.command)
    BY <2>2, <2>5 DEF SentFresh, SameLink, SameNumbers, SameMessages, SameStages, Counted
  <2>7. entry.aged => ReportedAged(s, t, entry.command)
    BY <2>2, <2>5 DEF ReportedAged, OneMore, SameLink, SameNumbers, SameMessages, SameStages
  <2>8. TookHead(s, t)
    BY <1>2, <2>2, <2>5, <2>6, <2>7 DEF TookHead, entry
  <2>. QED BY <2>3, <2>8 DEF t
<1>3. CASE s.sendQueue # <<>> /\ ~s.connected
  <2>1. Asked(s, u)
    BY <1>3 DEF SessionOK, SessionFields, Asked, SameNumbers, SameMessages, SameStages
  <2>. QED BY <1>3, <2>1 DEF SendQueuedMessage
<1>. QED BY <1>1, <1>2, <1>3

\* A message goes out once more: under its own number, or under the next one when the station refused it.
SentAgain(s, t, m) ==
  LET number == IF s.msg[m].failed THEN s.seqNumber ELSE s.msg[m].sequence
      others == IF s.msg[m].failed THEN WithoutKeys(s.messageStates, {s.msg[m].sequence}) ELSE s.messageStates
  IN /\ SameLink(s, t) /\ SameStages(s, t) /\ t.sendQueue = s.sendQueue /\ t.events = s.events
     /\ t.seqNumber = IF s.msg[m].failed THEN IncrementSequence(s.seqNumber) ELSE s.seqNumber
     /\ Counted(s, t, m, number)
     /\ t.messageStates = WithEntry(others, number, m)
     /\ t.msg[m].sequence = number /\ t.msg[m].timeout = "ack"
     /\ t.msg[m].acknowledged = s.msg[m].acknowledged /\ t.msg[m].failed = s.msg[m].failed
     /\ \A x \in Messages \ {m} : t.msg[x] = s.msg[x]
     /\ t.sent = IF s.connected THEN s.sent \cup {<<number, m>>} ELSE s.sent

\* A key can be entered again.
LEMMA EnteredTwice ==
  ASSUME NEW table, NEW key, NEW value
  PROVE  WithEntry(WithEntry(table, key, value), key, value) = WithEntry(table, key, value)
BY DEF WithEntry

\* _sendCommand of a message that was sent before sends it once more or gives it up.
LEMMA SendCommandAgainFields ==
  ASSUME NEW s, SessionOK(s), NEW m \in Messages
  PROVE  LET over == IF m = Gateway THEN s ELSE Emit(s, m, Event("COMMAND_TIMEOUT", None))
             t == SendCommandAgain(s, m)
         IN /\ s.msg[m].retries < MAX_RETRIES => SentAgain(s, t, m)
            /\ ~(s.msg[m].retries < MAX_RETRIES) => t = SendQueuedMessage(Unlist(over, s.msg[m].sequence))
<1>. DEFINE old == s.msg[m].sequence
            moved == Moved(s, m)
            again == IF s.msg[m].failed THEN moved ELSE s
            once == [again EXCEPT !.msg[m].retries = @ + 1]
            t == Transmit(once, m)
            number == IF s.msg[m].failed THEN s.seqNumber ELSE old
            others == IF s.msg[m].failed THEN WithoutKeys(s.messageStates, {old}) ELSE s.messageStates
<1>1. CASE ~(s.msg[m].retries < MAX_RETRIES)
  BY <1>1 DEF SendCommandAgain
<1>2. CASE s.msg[m].retries < MAX_RETRIES
  <2>1. SessionOK(again) /\ again.msg[m].retries = s.msg[m].retries
    BY MovedOK
  <2>2. SessionOK(once)
    BY <1>2, <2>1, RetriedOK
  <2>3. /\ SameLink(s, moved) /\ SameStages(s, moved) /\ moved.sendQueue = s.sendQueue /\ moved.events = s.events
        /\ moved.seqNumber = IncrementSequence(s.seqNumber) /\ moved.p2pDataSeqNumber = s.p2pDataSeqNumber
        /\ moved.p2pSeqMapping = s.p2pSeqMapping /\ moved.results = s.results
        /\ moved.messageStates = WithEntry(WithoutKeys(s.messageStates, {old}), s.seqNumber, m)
        /\ moved.msg = [s.msg EXCEPT ![m].sequence = s.seqNumber] /\ moved.sent = s.sent
    BY DEF Moved, SessionOK, SessionFields, SameLink, SameStages
  <2>4. s.msg \in [Messages -> MessageState] /\ again.msg \in [Messages -> MessageState]
        /\ once.msg \in [Messages -> MessageState]
    BY <2>1, <2>2 DEF SessionOK, MessagesOK
  <2>. HIDE DEF moved
  <2>5. /\ SameLink(s, again) /\ SameStages(s, again) /\ again.sendQueue = s.sendQueue /\ again.events = s.events
        /\ again.seqNumber = (IF s.msg[m].failed THEN IncrementSequence(s.seqNumber) ELSE s.seqNumber)
        /\ again.p2pDataSeqNumber = s.p2pDataSeqNumber
        /\ again.p2pSeqMapping = s.p2pSeqMapping /\ again.results = s.results /\ again.sent = s.sent
    BY <2>3 DEF SameLink, SameStages
  <2>6. /\ again.msg[m].sequence = number
        /\ again.msg[m].acknowledged = s.msg[m].acknowledged /\ again.msg[m].failed = s.msg[m].failed
        /\ \A x \in Messages \ {m} : again.msg[x] = s.msg[x]
    BY <2>3, <2>4 DEF MessageState
  <2>7. WithEntry(again.messageStates, number, m) = WithEntry(others, number, m)
    BY <2>3, EnteredTwice
  <2>. HIDE DEF again, number, others
  <2>8. /\ SameLink(again, once) /\ SameStages(again, once) /\ once.sendQueue = again.sendQueue
        /\ once.events = again.events /\ SameNumbers(again, once)
        /\ once.messageStates = again.messageStates /\ once.sent = again.sent
        /\ once.msg = [again.msg EXCEPT ![m].retries = @ + 1]
    BY <2>1 DEF SessionOK, SessionFields, SameLink, SameStages, SameNumbers
  <2>. HIDE DEF once
  <2>9. /\ once.msg[m].sequence = number
        /\ once.msg[m].acknowledged = s.msg[m].acknowledged /\ once.msg[m].failed = s.msg[m].failed
        /\ \A x \in Messages \ {m} : once.msg[x] = s.msg[x]
    BY <2>4, <2>6, <2>8 DEF MessageState
  <2>10. /\ SameLink(once, t) /\ SameStages(once, t) /\ t.sendQueue = once.sendQueue /\ t.events = once.events
         /\ t.seqNumber = once.seqNumber /\ Counted(once, t, m, once.msg[m].sequence)
         /\ t.messageStates = WithEntry(once.messageStates, once.msg[m].sequence, m)
         /\ t.msg = [once.msg EXCEPT ![m].timeout = "ack"]
         /\ t.sent = IF once.connected THEN once.sent \cup {<<once.msg[m].sequence, m>>} ELSE once.sent
    BY <2>2, TransmitFields
  <2>. HIDE DEF t
  <2>11. /\ t.msg[m].sequence = number /\ t.msg[m].timeout = "ack"
         /\ t.msg[m].acknowledged = s.msg[m].acknowledged /\ t.msg[m].failed = s.msg[m].failed
         /\ \A x \in Messages \ {m} : t.msg[x] = s.msg[x]
    BY <2>4, <2>9, <2>10 DEF MessageState
  <2>12. t.messageStates = WithEntry(others, number, m)
    BY <2>7, <2>8, <2>9, <2>10
  <2>13. /\ SameLink(s, t) /\ SameStages(s, t) /\ t.sendQueue = s.sendQueue /\ t.events = s.events
         /\ t.seqNumber = (IF s.msg[m].failed THEN IncrementSequence(s.seqNumber) ELSE s.seqNumber)
         /\ Counted(s, t, m, number)
         /\ t.sent = IF s.connected THEN s.sent \cup {<<number, m>>} ELSE s.sent
    BY <2>5, <2>8, <2>9, <2>10 DEF SameLink, SameStages, SameNumbers, Counted
  <2>14. SentAgain(s, t, m)
    BY <2>11, <2>12, <2>13 DEF SentAgain, number, others, old
  <2>15. SendCommandAgain(s, m) = t
    BY <1>2 DEF SendCommandAgain, Moved, t, once, again, moved
  <2>. QED BY <1>2, <2>14, <2>15
<1>. QED BY <1>1, <1>2

\* Staging a two-stage command changes the table of second results only.
LEMMA FirstResultFields ==
  ASSUME NEW s, SessionOK(s), NEW m
  PROVE  LET t == FirstResult(s, m)
         IN /\ SameLink(s, t) /\ SameNumbers(s, t) /\ SameMessages(s, t)
            /\ t.sendQueue = s.sendQueue /\ t.events = s.events
            /\ t.secondaryTimers = s.secondaryTimers \cup {m} /\ t.secondaryTimeout = m
            /\ t.customDataStaging = WithEntry(s.customDataStaging, CommandType[m], m)
BY DEF FirstResult, Stage, SessionOK, SessionFields, SameLink, SameNumbers, SameMessages

\* The end of the handshake, before it looks at the queue.
GivenBack(s, sequence) ==
  [s EXCEPT !.p2pSeqMapping = WithoutValue(@, sequence), !.p2pDataSeqNumber = @ - 1,
            !.messageStates = WithoutKeys(@, {sequence})]

LEMMA GivenBackFields ==
  ASSUME NEW s, SessionOK(s), NEW sequence
  PROVE  LET t == GivenBack(s, sequence)
         IN /\ SessionOK(t) /\ HandshakeOver(s, sequence) = SendQueuedMessage(t)
            /\ SameLink(s, t) /\ SameStages(s, t) /\ t.sendQueue = s.sendQueue /\ t.events = s.events
            /\ t.seqNumber = s.seqNumber /\ t.results = s.results
            /\ t.p2pDataSeqNumber = s.p2pDataSeqNumber - 1
            /\ t.p2pSeqMapping = WithoutValue(s.p2pSeqMapping, sequence)
            /\ t.messageStates = WithoutKeys(s.messageStates, {sequence}) /\ t.msg = s.msg /\ t.sent = s.sent
<1>1. SessionOK(GivenBack(s, sequence)) /\ HandshakeOver(s, sequence) = SendQueuedMessage(GivenBack(s, sequence))
  BY HandshakeOverNumbersOK DEF GivenBack, HandshakeOver
<1>. QED BY <1>1 DEF GivenBack, SessionOK, SessionFields, SameLink, SameStages

\* An event of this code is an event.
LEMMA CodesOK ==
  /\ \A from \in Messages : Event("RESULT", from) \in Events /\ Event("RESULT", from).code = "RESULT"
                            /\ Event("RESULT", from).from = from
  /\ \A from \in Messages : Event("SECOND_RESULT", from) \in Events /\ Event("SECOND_RESULT", from).code = "SECOND_RESULT"
                            /\ Event("SECOND_RESULT", from).from = from
  /\ \A code \in {"COMMAND_TIMEOUT", "CONNECT_TIMEOUT", "SECONDARY_TIMEOUT"} :
       Event(code, None) \in Events /\ Event(code, None).code = code
BY DEF Event, Events, Messages

\* An answer ends its message: the answer is reported, but for the handshake's.
Answered(s, key, from) ==
  LET m == s.messageStates[key]
      unlisted == Unlist(s, key)
  IN StopTimer(IF m = Gateway THEN unlisted ELSE Emit(unlisted, m, Event("RESULT", from)), m)

\* A refused message is marked and goes out again.
Refused(s, m) == [StopTimer(s, m) EXCEPT !.msg[m].failed = TRUE]

\* What the result of m, listed under key, leaves.
TookAnswer(s, t, key, m, from) ==
  /\ m \in Messages /\ SessionOK(t)
  /\ SameLink(s, t) /\ SameNumbers(s, t) /\ SameStages(s, t)
  /\ t.sendQueue = s.sendQueue /\ t.sent = s.sent
  /\ t.messageStates = WithoutKeys(s.messageStates, {key})
  /\ t.msg[m].timeout = "none" /\ t.msg[m].sequence = s.msg[m].sequence
  /\ t.msg[m].acknowledged = s.msg[m].acknowledged /\ t.msg[m].failed = s.msg[m].failed
  /\ \A x \in Messages \ {m} : t.msg[x] = s.msg[x]
  /\ IF m = Gateway THEN t.events = s.events ELSE OneMore(s, t, m, Event("RESULT", from))

LEMMA AnsweredFields ==
  ASSUME NEW s, SessionOK(s), NEW key \in DOMAIN s.messageStates, NEW from \in Messages
  PROVE  TookAnswer(s, Answered(s, key, from), key, s.messageStates[key], from)
<1>. DEFINE m == s.messageStates[key]
            u == Unlist(s, key)
            e == IF m = Gateway THEN u ELSE Emit(u, m, Event("RESULT", from))
            t == StopTimer(e, m)
<1>1. m \in Messages
  BY DEF SessionOK, MessagesOK
<1>2. /\ SessionOK(u) /\ SameLink(s, u) /\ SameNumbers(s, u) /\ SameStages(s, u)
      /\ u.sendQueue = s.sendQueue /\ u.events = s.events
      /\ u.messageStates = WithoutKeys(s.messageStates, {key}) /\ u.msg = s.msg /\ u.sent = s.sent
  BY UnlistOK, UnlistFields
<1>. HIDE DEF m, u
<1>3. /\ SessionOK(e) /\ SameLink(u, e) /\ SameNumbers(u, e) /\ SameMessages(u, e) /\ SameStages(u, e)
      /\ e.sendQueue = u.sendQueue
      /\ IF m = Gateway THEN e.events = u.events ELSE OneMore(u, e, m, Event("RESULT", from))
  <2>1. CASE m = Gateway
    BY <1>2, <2>1 DEF SameLink, SameNumbers, SameMessages, SameStages
  <2>2. CASE m # Gateway
    BY <1>1, <1>2, <2>2, CodesOK, EmitOK, EmitFields
  <2>. QED BY <2>1, <2>2
<1>. HIDE DEF e
<1>4. /\ SessionOK(t) /\ SameLink(e, t) /\ SameNumbers(e, t) /\ SameStages(e, t)
      /\ t.sendQueue = e.sendQueue /\ t.events = e.events
      /\ t.messageStates = e.messageStates /\ t.sent = e.sent
      /\ t.msg = [e.msg EXCEPT ![m].timeout = "none"]
  <2>1. t = StopTimer(e, m)
    OBVIOUS
  <2>. HIDE DEF t
  <2>. QED BY <1>1, <1>3, <2>1, StopTimerFields
<1>. HIDE DEF t
<1>5. s.msg \in [Messages -> MessageState]
  BY DEF SessionOK, MessagesOK
<1>6. /\ t.msg[m].timeout = "none" /\ t.msg[m].sequence = s.msg[m].sequence
      /\ t.msg[m].acknowledged = s.msg[m].acknowledged /\ t.msg[m].failed = s.msg[m].failed
      /\ \A x \in Messages \ {m} : t.msg[x] = s.msg[x]
  BY <1>1, <1>2, <1>3, <1>4, <1>5 DEF SameMessages, MessageState
<1>7. IF m = Gateway THEN t.events = s.events ELSE OneMore(s, t, m, Event("RESULT", from))
  BY <1>2, <1>3, <1>4 DEF OneMore
<1>8. SameLink(s, t) /\ SameNumbers(s, t) /\ SameStages(s, t) /\ t.sendQueue = s.sendQueue /\ t.sent = s.sent
      /\ t.messageStates = WithoutKeys(s.messageStates, {key})
  BY <1>2, <1>3, <1>4 DEF SameLink, SameNumbers, SameMessages, SameStages
<1>9. Answered(s, key, from) = t
  BY DEF Answered, t, e, u, m
<1>10. TookAnswer(s, t, key, m, from)
  BY <1>1, <1>4, <1>6, <1>7, <1>8 DEF TookAnswer
<1>. QED BY <1>9, <1>10 DEF m

LEMMA RefusedFields ==
  ASSUME NEW s, SessionOK(s), NEW m \in Messages
  PROVE  LET t == Refused(s, m)
         IN /\ SessionOK(t)
            /\ SameLink(s, t) /\ SameNumbers(s, t) /\ SameStages(s, t)
            /\ t.sendQueue = s.sendQueue /\ t.sent = s.sent /\ t.messageStates = s.messageStates
            /\ t.events = s.events
            /\ t.msg[m].failed /\ t.msg[m].timeout = "none"
            /\ t.msg[m].sequence = s.msg[m].sequence /\ t.msg[m].acknowledged = s.msg[m].acknowledged
            /\ \A x \in Messages \ {m} : t.msg[x] = s.msg[x]
<1>. DEFINE u == StopTimer(s, m)
            t == Refused(s, m)
<1>1. /\ SessionOK(u) /\ SameLink(s, u) /\ SameNumbers(s, u) /\ SameStages(s, u)
      /\ u.sendQueue = s.sendQueue /\ u.events = s.events
      /\ u.messageStates = s.messageStates /\ u.sent = s.sent
      /\ u.msg = [s.msg EXCEPT ![m].timeout = "none"]
  <2>1. u = StopTimer(s, m)
    OBVIOUS
  <2>. HIDE DEF u
  <2>. QED BY <2>1, StopTimerFields
<1>2. t = [u EXCEPT !.msg[m].failed = TRUE]
  BY DEF Refused
<1>. HIDE DEF t, u
<1>3. /\ SameLink(u, t) /\ SameNumbers(u, t) /\ SameStages(u, t)
      /\ t.sendQueue = u.sendQueue /\ t.events = u.events
      /\ t.messageStates = u.messageStates /\ t.sent = u.sent
      /\ t.msg = [u.msg EXCEPT ![m].failed = TRUE]
  BY <1>1, <1>2 DEF SessionOK, SessionFields, SameLink, SameNumbers, SameStages
<1>4. SessionOK(t)
  BY <1>1, <1>2, RefusedOK
<1>5. s.msg \in [Messages -> MessageState] /\ u.msg \in [Messages -> MessageState]
  BY <1>1 DEF SessionOK, MessagesOK
<1>6. /\ t.msg[m].failed /\ t.msg[m].timeout = "none"
      /\ t.msg[m].sequence = s.msg[m].sequence /\ t.msg[m].acknowledged = s.msg[m].acknowledged
      /\ \A x \in Messages \ {m} : t.msg[x] = s.msg[x]
  BY <1>1, <1>3, <1>5 DEF MessageState
<1>. QED BY <1>1, <1>3, <1>4, <1>6 DEF SameLink, SameNumbers, SameStages, t

\* What handling an answer comes to.
LEMMA HandleResultCases ==
  ASSUME NEW s, SessionOK(s), NEW key \in DOMAIN s.messageStates, NEW from, NEW failed
  PROVE  LET m == s.messageStates[key]
             t == HandleResult(s, key, from, failed)
         IN \/ CommandType[m] # CommandType[from] /\ t = Unlist(s, key)
            \/ CommandType[m] = CommandType[from] /\ failed /\ t = SendCommandAgain(Refused(s, m), m)
            \/ /\ CommandType[m] = CommandType[from] /\ ~failed /\ m \in TwoStageCommands
               /\ t = FirstResult(Answered(s, key, from), m)
            \/ /\ CommandType[m] = CommandType[from] /\ ~failed /\ m \notin TwoStageCommands
               /\ t = SendQueuedMessage(Answered(s, key, from))
BY DEF HandleResult, Refused, Answered

-----------------------------------------------------------------------------
(* What the handlers come to: each of them prepares a session and passes it to a method *)

\* Everything but the queue is the same.
SameButQueue(s, t) ==
  SameLink(s, t) /\ SameNumbers(s, t) /\ SameMessages(s, t) /\ SameStages(s, t) /\ t.events = s.events

\* sendCommand appends and looks at the queue.
LEMMA IssueStep ==
  ASSUME TypeOK, NEW c \in Commands, IssueCommand(c)
  PROVE  /\ c \notin Range(issued) /\ issued' = Append(issued, c)
         /\ UNCHANGED <<ciphers, closing, station, executed>>
         /\ \E q : /\ SessionOK(q) /\ SameButQueue(session, q)
                   /\ q.sendQueue = Append(session.sendQueue, [command |-> c, aged |-> FALSE])
                   /\ session' = SendQueuedMessage(q)
<1>. DEFINE q == [session EXCEPT !.sendQueue = Append(@, [command |-> c, aged |-> FALSE])]
<1>1. session' = SendQueuedMessage(q)
  BY DEF IssueCommand, SendCommand
<1>2. SessionOK(q)
  BY DEF TypeOK, SessionOK, ConnectionOK, QueueOK, NumbersOK, MessagesOK, ReportsOK, SessionFields, Messages
<1>3. SameButQueue(session, q) /\ q.sendQueue = Append(session.sendQueue, [command |-> c, aged |-> FALSE])
  BY DEF TypeOK, SessionOK, SessionFields, SameButQueue, SameLink, SameNumbers, SameMessages, SameStages
<1>4. /\ c \notin Range(issued) /\ issued' = Append(issued, c)
      /\ UNCHANGED <<ciphers, closing, station, executed>>
  BY DEF IssueCommand
<1>. HIDE DEF q
<1>. QED BY <1>1, <1>2, <1>3, <1>4

\* connect changes nothing but connecting.
LEMMA ConnectStep ==
  ASSUME TypeOK, Connect
  PROVE  Asked(session, session') /\ UNCHANGED <<ciphers, closing, station, issued, executed>>
BY DEF Connect, TypeOK, SessionOK, SessionFields, Asked, SameNumbers, SameMessages, SameStages

\* close() empties the queue and stops timers; without a connection it forgets everything.
LEMMA CloseStep ==
  ASSUME TypeOK, Close
  PROVE  /\ ~closing /\ closing' = session.connected /\ UNCHANGED <<ciphers, station, issued, executed>>
         /\ ciphers # {} => "stale_cipher" \in Faults
         /\ \E q : /\ SessionOK(q) /\ SameLink(session, q) /\ SameNumbers(session, q)
                   /\ q.messageStates = session.messageStates /\ q.sent = session.sent
                   /\ q.msg = ClearTimeouts(session.msg, Listed(session))
                   /\ q.events = session.events /\ q.customDataStaging = session.customDataStaging
                   /\ q.secondaryTimers \subseteq session.secondaryTimers
                   /\ q.sendQueue = <<>>
                   /\ session' = IF session.connected THEN q ELSE Initialize(q)
<1>. DEFINE c == ClearSecondaryTimeout(session)
            q == [c EXCEPT !.sendQueue = <<>>, !.msg = ClearTimeouts(@, Listed(session))]
<1>1. session' = IF session.connected THEN q ELSE Initialize(q)
  BY DEF Close
<1>2. SessionOK(q) /\ SessionOK(c)
  BY EmptiedOK, ClearSecondaryTimeoutOK DEF TypeOK
<1>3. /\ SameLink(session, c) /\ SameNumbers(session, c) /\ SameMessages(session, c)
      /\ c.events = session.events /\ c.customDataStaging = session.customDataStaging
      /\ c.secondaryTimers = session.secondaryTimers \ {session.secondaryTimeout}
  BY ClearSecondaryFields DEF TypeOK
<1>. HIDE DEF c
<1>4. /\ SameLink(c, q) /\ SameNumbers(c, q) /\ q.messageStates = c.messageStates /\ q.sent = c.sent
      /\ q.msg = ClearTimeouts(c.msg, Listed(session)) /\ q.sendQueue = <<>>
      /\ q.events = c.events /\ SameStages(c, q)
  BY <1>2 DEF SessionOK, SessionFields, SameLink, SameNumbers, SameStages
<1>5. /\ ~closing /\ closing' = session.connected /\ UNCHANGED <<ciphers, station, issued, executed>>
      /\ ciphers # {} => "stale_cipher" \in Faults
  BY DEF Close
<1>. HIDE DEF q
<1>6. /\ SameLink(session, q) /\ SameNumbers(session, q)
      /\ q.messageStates = session.messageStates /\ q.sent = session.sent
      /\ q.msg = ClearTimeouts(session.msg, Listed(session))
      /\ q.events = session.events /\ q.customDataStaging = session.customDataStaging
      /\ q.secondaryTimers \subseteq session.secondaryTimers
  BY <1>3, <1>4 DEF SameLink, SameNumbers, SameMessages, SameStages
<1>. QED BY <1>1, <1>2, <1>4, <1>5, <1>6

\* CAM_ID: the handshake is queued alone, then what waited is put behind it.
LEMMA EstablishStep ==
  ASSUME TypeOK, Establish
  PROVE  /\ ~session.connected /\ session.connection < MaxConnections
         /\ station' = FreshStation /\ UNCHANGED <<ciphers, closing, issued, executed>>
         /\ \E g, a, q :
              /\ SessionOK(g) /\ g.connected /\ g.connection = session.connection + 1
              /\ g.encryption = session.encryption /\ g.p2pKey = session.p2pKey
              /\ SameNumbers(session, g) /\ SameMessages(session, g) /\ SameStages(session, g)
              /\ g.events = session.events /\ g.sendQueue = <<[command |-> Gateway, aged |-> FALSE]>>
              /\ a = SendQueuedMessage(g) /\ SessionOK(a)
              /\ SessionOK(q) /\ SameButQueue(a, q) /\ q.sendQueue = a.sendQueue \o session.sendQueue
              /\ session' = SendQueuedMessage(q)
<1>. DEFINE up == [session EXCEPT !.connected = TRUE, !.connection = @ + 1, !.sendQueue = <<>>]
            entry == [command |-> Gateway, aged |-> FALSE]
            g == [up EXCEPT !.sendQueue = Append(@, entry)]
            a == SendQueuedMessage(g)
            q == [a EXCEPT !.sendQueue = @ \o session.sendQueue]
<1>1. /\ ~session.connected /\ session.connection < MaxConnections
      /\ station' = FreshStation /\ UNCHANGED <<ciphers, closing, issued, executed>>
  BY DEF Establish
<1>2. session' = SendQueuedMessage(q)
  BY DEF Establish, SendCommand
<1>3. SessionOK(session) /\ SessionOK(up)
  BY <1>1, UpOK DEF TypeOK
<1>4. /\ up.connected /\ up.connection = session.connection + 1
      /\ up.encryption = session.encryption /\ up.p2pKey = session.p2pKey
      /\ SameNumbers(session, up) /\ SameMessages(session, up) /\ SameStages(session, up)
      /\ up.events = session.events /\ up.sendQueue = <<>>
  BY <1>3 DEF SessionOK, SessionFields, SameNumbers, SameMessages, SameStages
<1>. HIDE DEF up
<1>5. entry \in [command : Messages, aged : BOOLEAN] /\ Append(<<>>, entry) = <<entry>>
      /\ <<entry>> \in Seq([command : Messages, aged : BOOLEAN])
  BY DEF Messages
<1>. HIDE DEF entry
<1>6. g.sendQueue = <<entry>> /\ SameButQueue(up, g) /\ g.connected
  BY <1>3, <1>4, <1>5 DEF SessionOK, SessionFields, SameButQueue, SameLink, SameNumbers, SameMessages, SameStages
<1>7. SessionOK(g)
  <2>1. g = [up EXCEPT !.sendQueue = <<entry>>]
    BY <1>4, <1>5
  <2>2. /\ DOMAIN g = SessionFields /\ g.sendQueue = <<entry>>
        /\ g.connected = up.connected /\ g.connecting = up.connecting /\ g.connection = up.connection
        /\ g.encryption = up.encryption /\ g.p2pKey = up.p2pKey
    BY <1>3, <2>1 DEF SessionOK, SessionFields
  <2>3. /\ g.seqNumber = up.seqNumber /\ g.p2pDataSeqNumber = up.p2pDataSeqNumber /\ g.results = up.results
        /\ g.p2pSeqMapping = up.p2pSeqMapping /\ g.messageStates = up.messageStates
        /\ g.msg = up.msg /\ g.sent = up.sent
    BY <1>3, <2>1 DEF SessionOK, SessionFields
  <2>4. /\ g.secondaryTimeout = up.secondaryTimeout /\ g.secondaryTimers = up.secondaryTimers
        /\ g.customDataStaging = up.customDataStaging /\ g.events = up.events
    BY <1>3, <2>1 DEF SessionOK, SessionFields
  <2>. HIDE DEF g
  <2>5. ConnectionOK(g) /\ QueueOK(g)
    BY <1>3, <1>5, <2>2 DEF SessionOK, ConnectionOK, QueueOK
  <2>6. NumbersOK(g) /\ MessagesOK(g) /\ ReportsOK(g)
    BY <1>3, <2>3, <2>4 DEF SessionOK, NumbersOK, MessagesOK, ReportsOK
  <2>. QED BY <2>2, <2>5, <2>6 DEF SessionOK
<1>. HIDE DEF g
<1>8. SessionOK(a)
  BY <1>7, SendQueuedMessageOK
<1>9. a = SendQueuedMessage(g)
  OBVIOUS
<1>. HIDE DEF a
<1>10. a.sendQueue \o session.sendQueue \in Seq([command : Messages, aged : BOOLEAN])
  BY <1>3, <1>8 DEF SessionOK, QueueOK
<1>11. SessionOK(q)
  BY <1>8, <1>10 DEF SessionOK, ConnectionOK, QueueOK, NumbersOK, MessagesOK, ReportsOK, SessionFields
<1>12. SameButQueue(a, q) /\ q.sendQueue = a.sendQueue \o session.sendQueue
  BY <1>8 DEF SessionOK, SessionFields, SameButQueue, SameLink, SameNumbers, SameMessages, SameStages
<1>. HIDE DEF q
<1>13. /\ g.connection = session.connection + 1
       /\ g.encryption = session.encryption /\ g.p2pKey = session.p2pKey
       /\ SameNumbers(session, g) /\ SameMessages(session, g) /\ SameStages(session, g)
       /\ g.events = session.events
  BY <1>4, <1>6 DEF SameButQueue, SameLink, SameNumbers, SameMessages, SameStages
<1>. QED BY <1>1, <1>2, <1>6, <1>7, <1>8, <1>9, <1>11, <1>12, <1>13 DEF entry

\* Time passes over the queue.
LEMMA AgeStep ==
  ASSUME TypeOK, Age
  PROVE  /\ SameButQueue(session, session') /\ "ageing" \in Faults
         /\ DOMAIN session'.sendQueue = DOMAIN session.sendQueue
         /\ \A i \in DOMAIN session.sendQueue : session'.sendQueue[i].command = session.sendQueue[i].command
         /\ UNCHANGED <<ciphers, closing, station, issued, executed>>
<1>. DEFINE aged == [i \in DOMAIN session.sendQueue |-> [session.sendQueue[i] EXCEPT !.aged = TRUE]]
<1>1. session'.sendQueue = aged /\ SameButQueue(session, session')
  BY DEF Age, TypeOK, SessionOK, SessionFields, SameButQueue, SameLink, SameNumbers, SameMessages, SameStages
<1>2. session.sendQueue \in Seq([command : Messages, aged : BOOLEAN])
  BY DEF TypeOK, SessionOK, QueueOK
<1>3. \A i \in DOMAIN session.sendQueue : session.sendQueue[i] \in [command : Messages, aged : BOOLEAN]
  BY <1>2, EntryOK
<1>4. \A i \in DOMAIN session.sendQueue : [session.sendQueue[i] EXCEPT !.aged = TRUE].command = session.sendQueue[i].command
  BY <1>3
<1>. QED BY <1>1, <1>4 DEF Age

\* An acknowledgement ends a ping; any other message waits for its result.
LEMMA AckStep ==
  ASSUME TypeOK, NEW sequence \in station.seen, HandleAck(sequence)
  PROVE  LET m == session.messageStates[sequence]
         IN /\ sequence \in DOMAIN session.messageStates /\ m \in Messages
            /\ ~session.msg[m].acknowledged
            /\ UNCHANGED <<ciphers, closing, station, issued, executed>>
            /\ \E q : /\ SessionOK(q) /\ SameLink(session, q) /\ SameNumbers(session, q) /\ SameStages(session, q)
                      /\ q.sendQueue = session.sendQueue /\ q.events = session.events /\ q.sent = session.sent
                      /\ \A x \in Messages \ {m} : q.msg[x] = session.msg[x]
                      /\ q.msg[m].sequence = session.msg[m].sequence
                      /\ q.msg[m].failed = session.msg[m].failed
                      /\ q.messageStates = IF m \in Pings THEN WithoutKeys(session.messageStates, {sequence})
                                                          ELSE session.messageStates
                      /\ q.msg[m].timeout = IF m \in Pings THEN "none" ELSE "result"
                      /\ session' = SendQueuedMessage(q)
<1>. DEFINE m == session.messageStates[sequence]
            noted == [session EXCEPT !.msg[m].timeout = "result", !.msg[m].acknowledged = TRUE]
            u == Unlist(session, sequence)
            ended == StopTimer(u, m)
            q == IF m \in Pings THEN ended ELSE noted
<1>1. SessionOK(session) /\ session.msg \in [Messages -> MessageState]
  BY DEF TypeOK, SessionOK, MessagesOK
<1>2. sequence \in DOMAIN session.messageStates /\ m \in Messages /\ ~session.msg[m].acknowledged
      /\ UNCHANGED <<ciphers, closing, station, issued, executed>>
  BY <1>1 DEF HandleAck, SessionOK, MessagesOK
<1>3. session' = SendQueuedMessage(q)
  BY DEF HandleAck
<1>. HIDE DEF m
<1>4. /\ SessionOK(u) /\ SameLink(session, u) /\ SameNumbers(session, u) /\ SameStages(session, u)
      /\ u.sendQueue = session.sendQueue /\ u.events = session.events
      /\ u.messageStates = WithoutKeys(session.messageStates, {sequence})
      /\ u.msg = session.msg /\ u.sent = session.sent
  BY <1>1, UnlistOK, UnlistFields
<1>. HIDE DEF u
<1>5. /\ SessionOK(ended) /\ SameLink(u, ended) /\ SameNumbers(u, ended) /\ SameStages(u, ended)
      /\ ended.sendQueue = u.sendQueue /\ ended.events = u.events
      /\ ended.messageStates = u.messageStates /\ ended.sent = u.sent
      /\ ended.msg = [u.msg EXCEPT ![m].timeout = "none"]
  <2>1. ended = StopTimer(u, m)
    OBVIOUS
  <2>. HIDE DEF ended
  <2>. QED BY <1>2, <1>4, <2>1, StopTimerFields
<1>. HIDE DEF ended
<1>6. /\ SessionOK(noted) /\ SameLink(session, noted) /\ SameNumbers(session, noted) /\ SameStages(session, noted)
      /\ noted.sendQueue = session.sendQueue /\ noted.events = session.events
      /\ noted.messageStates = session.messageStates /\ noted.sent = session.sent
      /\ noted.msg = [session.msg EXCEPT ![m].timeout = "result", ![m].acknowledged = TRUE]
  BY <1>1, <1>2, NotedOK DEF SessionOK, SessionFields, SameLink, SameNumbers, SameStages
<1>. HIDE DEF noted
<1>7. CASE m \in Pings
  <2>1. /\ \A x \in Messages \ {m} : q.msg[x] = session.msg[x]
        /\ q.msg[m].sequence = session.msg[m].sequence /\ q.msg[m].timeout = "none"
        /\ q.msg[m].failed = session.msg[m].failed
    BY <1>1, <1>2, <1>4, <1>5, <1>7 DEF MessageState
  <2>2. /\ SessionOK(q) /\ SameLink(session, q) /\ SameNumbers(session, q) /\ SameStages(session, q)
        /\ q.sendQueue = session.sendQueue /\ q.events = session.events /\ q.sent = session.sent
        /\ q.messageStates = WithoutKeys(session.messageStates, {sequence})
    BY <1>4, <1>5, <1>7 DEF SameLink, SameNumbers, SameStages
  <2>. HIDE DEF q
  <2>. QED BY <1>2, <1>3, <1>7, <2>1, <2>2 DEF m
<1>8. CASE m \notin Pings
  <2>1. /\ \A x \in Messages \ {m} : q.msg[x] = session.msg[x]
        /\ q.msg[m].sequence = session.msg[m].sequence /\ q.msg[m].timeout = "result"
        /\ q.msg[m].failed = session.msg[m].failed
    BY <1>1, <1>2, <1>6, <1>8 DEF MessageState
  <2>2. /\ SessionOK(q) /\ SameLink(session, q) /\ SameNumbers(session, q) /\ SameStages(session, q)
        /\ q.sendQueue = session.sendQueue /\ q.events = session.events /\ q.sent = session.sent
        /\ q.messageStates = session.messageStates
    BY <1>6, <1>8
  <2>. HIDE DEF q
  <2>. QED BY <1>2, <1>3, <1>8, <2>1, <2>2 DEF m
<1>. QED BY <1>7, <1>8

\* An answer is counted, its mapping is used up, and it is handled by the message it belongs to.
LEMMA DataStep ==
  ASSUME TypeOK, HandleData
  PROVE  LET number == session.results % (MAX_SEQUENCE_NUMBER + 1)
             good == MappedSequence(session, number)
             key == IF good = 0 THEN number ELSE good
             answer == station.answers[session.results + 1]
         IN /\ session.connected /\ session.results < Len(station.answers)
            /\ answer.from \in Messages /\ answer.failed \in BOOLEAN
            /\ UNCHANGED <<ciphers, closing, station, issued, executed>>
            /\ \E q : /\ SessionOK(q) /\ SameLink(session, q) /\ SameMessages(session, q) /\ SameStages(session, q)
                      /\ q.sendQueue = session.sendQueue /\ q.events = session.events
                      /\ q.seqNumber = session.seqNumber /\ q.p2pDataSeqNumber = session.p2pDataSeqNumber
                      /\ q.results = session.results + 1
                      /\ q.p2pSeqMapping = IF good = 0 THEN session.p2pSeqMapping
                                           ELSE WithoutKeys(session.p2pSeqMapping, {number})
                      /\ session' = IF key \in DOMAIN session.messageStates
                                      THEN HandleResult(q, key, answer.from, answer.failed) ELSE q
<1>. DEFINE number == session.results % (MAX_SEQUENCE_NUMBER + 1)
            good == MappedSequence(session, number)
            key == IF good = 0 THEN number ELSE good
            q == [session EXCEPT !.results = @ + 1,
                                 !.p2pSeqMapping = IF good = 0 THEN @ ELSE WithoutKeys(@, {number})]
            answer == station.answers[session.results + 1]
<1>1. /\ session.connected /\ session.results < Len(station.answers)
      /\ UNCHANGED <<ciphers, closing, station, issued, executed>>
  BY DEF HandleData
<1>2. answer.from \in Messages /\ answer.failed \in BOOLEAN
  BY <1>1, AnswerOK
<1>3. session' = IF key \in DOMAIN session.messageStates
                   THEN HandleResult(q, key, answer.from, answer.failed) ELSE q
  BY DEF HandleData
<1>. HIDE DEF answer, key, good, number
<1>4. SessionOK(q)
  BY TakenOK DEF TypeOK
<1>5. /\ SameLink(session, q) /\ SameMessages(session, q) /\ SameStages(session, q)
      /\ q.sendQueue = session.sendQueue /\ q.events = session.events
      /\ q.seqNumber = session.seqNumber /\ q.p2pDataSeqNumber = session.p2pDataSeqNumber
      /\ q.results = session.results + 1
      /\ q.p2pSeqMapping = IF good = 0 THEN session.p2pSeqMapping
                           ELSE WithoutKeys(session.p2pSeqMapping, {number})
  BY DEF TypeOK, SessionOK, SessionFields, SameLink, SameMessages, SameStages
<1>. HIDE DEF q
<1>6. \E x : /\ SessionOK(x) /\ SameLink(session, x) /\ SameMessages(session, x) /\ SameStages(session, x)
             /\ x.sendQueue = session.sendQueue /\ x.events = session.events
             /\ x.seqNumber = session.seqNumber /\ x.p2pDataSeqNumber = session.p2pDataSeqNumber
             /\ x.results = session.results + 1
             /\ x.p2pSeqMapping = IF good = 0 THEN session.p2pSeqMapping
                                  ELSE WithoutKeys(session.p2pSeqMapping, {number})
             /\ session' = IF key \in DOMAIN session.messageStates
                             THEN HandleResult(x, key, answer.from, answer.failed) ELSE x
  BY <1>3, <1>4, <1>5, Zenon
<1>. QED BY <1>1, <1>2, <1>6 DEF answer, key, good, number

\* getCipher's answer sets the key, stops the timer of message 0 and ends the handshake.
LEMMA CipherStep ==
  ASSUME TypeOK, NEW connection \in 1 .. MaxConnections, CipherAnswers(connection)
  PROVE  /\ connection \in ciphers /\ ciphers' = ciphers \ {connection}
         /\ UNCHANGED <<closing, station, issued, executed>>
         /\ \E q : /\ SessionOK(q) /\ SameNumbers(session, q) /\ SameStages(session, q)
                   /\ q.connected = session.connected /\ q.connection = session.connection
                   /\ q.encryption \in {"LEVEL_1", "LEVEL_2"} /\ q.p2pKey = connection
                   /\ q.sendQueue = session.sendQueue /\ q.events = session.events
                   /\ q.messageStates = session.messageStates /\ q.sent = session.sent
                   /\ q.msg = ClearTimeouts(session.msg, {session.messageStates[k] :
                                                         k \in {0} \cap DOMAIN session.messageStates})
                   /\ session' = HandshakeOver(q, 0)
<1>1. PICK level \in {"LEVEL_1", "LEVEL_2"} :
        session' = HandshakeOver(
          [session EXCEPT !.encryption = level, !.p2pKey = connection,
                          !.msg = ClearTimeouts(@, {session.messageStates[k] :
                                                    k \in {0} \cap DOMAIN session.messageStates})], 0)
  BY DEF CipherAnswers
<1>. DEFINE ms == {session.messageStates[k] : k \in {0} \cap DOMAIN session.messageStates}
            q == [session EXCEPT !.encryption = level, !.p2pKey = connection, !.msg = ClearTimeouts(@, ms)]
<1>2. session' = HandshakeOver(q, 0)
  BY <1>1
<1>. HIDE DEF ms
<1>3. SessionOK(q)
  BY KeyedOK DEF TypeOK
<1>4. /\ SameNumbers(session, q) /\ SameStages(session, q)
      /\ q.connected = session.connected /\ q.connection = session.connection
      /\ q.encryption = level /\ q.p2pKey = connection
      /\ q.sendQueue = session.sendQueue /\ q.events = session.events
      /\ q.messageStates = session.messageStates /\ q.sent = session.sent
      /\ q.msg = ClearTimeouts(session.msg, ms)
  BY DEF TypeOK, SessionOK, SessionFields, SameNumbers, SameStages
<1>5. connection \in ciphers /\ ciphers' = ciphers \ {connection} /\ UNCHANGED <<closing, station, issued, executed>>
  BY DEF CipherAnswers
<1>. HIDE DEF q
<1>. QED BY <1>2, <1>3, <1>4, <1>5 DEF ms

\* A second result is reported for what is staged under its type.
LEMMA SecondStep ==
  ASSUME TypeOK, HandleSecondResult
  PROVE  LET from == Head(station.second)
             type == CommandType[from]
         IN /\ session.connected /\ station.second # <<>> /\ from \in Commands
            /\ station' = [station EXCEPT !.second = Tail(@)]
            /\ UNCHANGED <<ciphers, closing, issued, executed>>
            /\ \E q : /\ SessionOK(q) /\ SameLink(session, q) /\ SameNumbers(session, q) /\ SameMessages(session, q)
                      /\ q.sendQueue = session.sendQueue
                      /\ q.secondaryTimers \subseteq session.secondaryTimers
                      /\ \/ /\ type \notin DOMAIN session.customDataStaging
                            /\ q.customDataStaging = session.customDataStaging /\ q.events = session.events
                         \/ /\ type \in DOMAIN session.customDataStaging
                            /\ session.customDataStaging[type] \in Messages
                            /\ q.customDataStaging = WithoutKeys(session.customDataStaging, {type})
                            /\ OneMore(session, q, session.customDataStaging[type], Event("SECOND_RESULT", from))
                      /\ session' = SendQueuedMessage(q)
<1>. DEFINE from == Head(station.second)
            type == CommandType[from]
            unstaged == [session EXCEPT !.customDataStaging = WithoutKeys(@, {type})]
            told == Emit(unstaged, session.customDataStaging[type], Event("SECOND_RESULT", from))
            staged == IF type \in DOMAIN session.customDataStaging THEN told ELSE session
            q == ClearSecondaryTimeout(staged)
<1>1. /\ session.connected /\ station.second # <<>> /\ from \in Commands
      /\ station' = [station EXCEPT !.second = Tail(@)]
      /\ UNCHANGED <<ciphers, closing, issued, executed>>
  BY DEF HandleSecondResult, TypeOK, StationOK
<1>2. session' = SendQueuedMessage(q)
  BY DEF HandleSecondResult
<1>. HIDE DEF type, from
<1>3. SessionOK(session) /\ SessionOK(unstaged)
  BY DEF TypeOK, SessionOK, ConnectionOK, QueueOK, NumbersOK, MessagesOK, ReportsOK, SessionFields, WithoutKeys, Restrict
<1>4. /\ SameLink(session, unstaged) /\ SameNumbers(session, unstaged) /\ SameMessages(session, unstaged)
      /\ unstaged.sendQueue = session.sendQueue /\ unstaged.events = session.events
      /\ unstaged.secondaryTimers = session.secondaryTimers
      /\ unstaged.customDataStaging = WithoutKeys(session.customDataStaging, {type})
  BY <1>3 DEF SessionOK, SessionFields, SameLink, SameNumbers, SameMessages
<1>. HIDE DEF unstaged
<1>5. type \in DOMAIN session.customDataStaging => session.customDataStaging[type] \in Messages
  BY <1>3 DEF SessionOK, ReportsOK, Messages
<1>6. ASSUME type \in DOMAIN session.customDataStaging
      PROVE  /\ SessionOK(told) /\ SameLink(unstaged, told) /\ SameNumbers(unstaged, told)
             /\ SameMessages(unstaged, told) /\ SameStages(unstaged, told) /\ told.sendQueue = unstaged.sendQueue
             /\ OneMore(unstaged, told, session.customDataStaging[type], Event("SECOND_RESULT", from))
  <2>1. Event("SECOND_RESULT", from) \in Events
    BY <1>1, CodesOK DEF Messages
  <2>. QED BY <1>3, <1>5, <1>6, <2>1, EmitOK, EmitFields
<1>. HIDE DEF told
<1>7. SessionOK(staged)
  BY <1>3, <1>6
<1>8. /\ SameLink(session, staged) /\ SameNumbers(session, staged) /\ SameMessages(session, staged)
      /\ staged.sendQueue = session.sendQueue /\ staged.secondaryTimers = session.secondaryTimers
      /\ \/ /\ type \notin DOMAIN session.customDataStaging
            /\ staged.customDataStaging = session.customDataStaging /\ staged.events = session.events
         \/ /\ type \in DOMAIN session.customDataStaging
            /\ staged.customDataStaging = WithoutKeys(session.customDataStaging, {type})
            /\ OneMore(session, staged, session.customDataStaging[type], Event("SECOND_RESULT", from))
  <2>1. CASE type \in DOMAIN session.customDataStaging
    BY <1>4, <1>6, <2>1 DEF SameLink, SameNumbers, SameMessages, SameStages, OneMore
  <2>2. CASE type \notin DOMAIN session.customDataStaging
    BY <2>2 DEF SameLink, SameNumbers, SameMessages
  <2>. QED BY <2>1, <2>2
<1>. HIDE DEF staged
<1>9. /\ SessionOK(q) /\ SameLink(staged, q) /\ SameNumbers(staged, q) /\ SameMessages(staged, q)
      /\ q.sendQueue = staged.sendQueue /\ q.events = staged.events
      /\ q.secondaryTimers \subseteq staged.secondaryTimers
      /\ q.customDataStaging = staged.customDataStaging
  BY <1>7, ClearSecondaryTimeoutOK, ClearSecondaryFields
<1>. HIDE DEF q
<1>10. /\ SameLink(session, q) /\ SameNumbers(session, q) /\ SameMessages(session, q)
       /\ q.sendQueue = session.sendQueue /\ q.secondaryTimers \subseteq session.secondaryTimers
       /\ \/ /\ type \notin DOMAIN session.customDataStaging
             /\ q.customDataStaging = session.customDataStaging /\ q.events = session.events
          \/ /\ type \in DOMAIN session.customDataStaging
             /\ session.customDataStaging[type] \in Messages
             /\ q.customDataStaging = WithoutKeys(session.customDataStaging, {type})
             /\ OneMore(session, q, session.customDataStaging[type], Event("SECOND_RESULT", from))
  BY <1>5, <1>8, <1>9 DEF SameLink, SameNumbers, SameMessages, OneMore
<1>. QED BY <1>1, <1>2, <1>9, <1>10 DEF type, from

\* The timer that waited for an acknowledgement sends its message again.
LEMMA AckTimeoutStep ==
  ASSUME TypeOK, NEW m \in Messages, AckTimeout(m)
  PROVE  /\ session.msg[m].timeout = "ack" /\ {"slow_ack", "slow_retry"} \cap Faults # {}
         /\ UNCHANGED <<ciphers, closing, station, issued, executed>>
         /\ \E q : /\ SessionOK(q) /\ SameLink(session, q) /\ SameNumbers(session, q) /\ SameStages(session, q)
                   /\ q.sendQueue = session.sendQueue /\ q.events = session.events
                   /\ q.messageStates = session.messageStates /\ q.sent = session.sent
                   /\ q.msg = [session.msg EXCEPT ![m].timeout = "none"]
                   /\ session' = SendCommandAgain(q, m)
<1>. DEFINE q == StopTimer(session, m)
<1>1. /\ SessionOK(q) /\ SameLink(session, q) /\ SameNumbers(session, q) /\ SameStages(session, q)
      /\ q.sendQueue = session.sendQueue /\ q.events = session.events
      /\ q.messageStates = session.messageStates /\ q.sent = session.sent
      /\ q.msg = [session.msg EXCEPT ![m].timeout = "none"]
  <2>1. q = StopTimer(session, m)
    OBVIOUS
  <2>2. SessionOK(session)
    BY DEF TypeOK
  <2>. HIDE DEF q
  <2>. QED BY <2>1, <2>2, StopTimerFields
<1>2. session' = SendCommandAgain(q, m)
  BY DEF AckTimeout
<1>. HIDE DEF q
<1>. QED BY <1>1, <1>2 DEF AckTimeout

\* The timer that waited for a result gives its message up: the handshake ends, a command is reported.
LEMMA ResultTimeoutStep ==
  ASSUME TypeOK, NEW m \in Messages, ResultTimeout(m)
  PROVE  /\ session.msg[m].timeout = "result"
         /\ m = Gateway => station.gatewayInfo = "silent" \/ "slow_cipher" \in Faults
         /\ UNCHANGED <<ciphers, closing, station, issued, executed>>
         /\ \E q : /\ SessionOK(q) /\ SameLink(session, q) /\ SameNumbers(session, q) /\ SameStages(session, q)
                   /\ q.sendQueue = session.sendQueue /\ q.sent = session.sent
                   /\ q.msg = [session.msg EXCEPT ![m].timeout = "none"]
                   /\ \/ /\ m = Gateway /\ q.messageStates = session.messageStates /\ q.events = session.events
                         /\ session' = HandshakeOver(q, session.msg[m].sequence)
                      \/ /\ m # Gateway
                         /\ q.messageStates = WithoutKeys(session.messageStates, {session.msg[m].sequence})
                         /\ OneMore(session, q, m, Event("COMMAND_TIMEOUT", None))
                         /\ session' = SendQueuedMessage(q)
<1>. DEFINE f == StopTimer(session, m)
            sequence == session.msg[m].sequence
            u == Unlist(f, sequence)
            e == Emit(u, m, Event("COMMAND_TIMEOUT", None))
<1>1. /\ session.msg[m].timeout = "result"
      /\ m = Gateway => station.gatewayInfo = "silent" \/ "slow_cipher" \in Faults
      /\ UNCHANGED <<ciphers, closing, station, issued, executed>>
  BY DEF ResultTimeout
<1>2. session' = IF m = Gateway THEN HandshakeOver(f, sequence) ELSE SendQueuedMessage(e)
  BY DEF ResultTimeout
<1>3. /\ SessionOK(f) /\ SameLink(session, f) /\ SameNumbers(session, f) /\ SameStages(session, f)
      /\ f.sendQueue = session.sendQueue /\ f.events = session.events
      /\ f.messageStates = session.messageStates /\ f.sent = session.sent
      /\ f.msg = [session.msg EXCEPT ![m].timeout = "none"]
  <2>1. f = StopTimer(session, m)
    OBVIOUS
  <2>2. SessionOK(session)
    BY DEF TypeOK
  <2>. HIDE DEF f
  <2>. QED BY <2>1, <2>2, StopTimerFields
<1>. HIDE DEF f, sequence
<1>4. CASE m = Gateway
  <2>. QED BY <1>1, <1>2, <1>3, <1>4 DEF sequence
<1>5. CASE m # Gateway
  <2>1. /\ SessionOK(u) /\ SameLink(f, u) /\ SameNumbers(f, u) /\ SameStages(f, u)
        /\ u.sendQueue = f.sendQueue /\ u.events = f.events
        /\ u.messageStates = WithoutKeys(f.messageStates, {sequence}) /\ u.msg = f.msg /\ u.sent = f.sent
    BY <1>3, UnlistOK, UnlistFields
  <2>. HIDE DEF u
  <2>2. /\ SessionOK(e) /\ SameLink(u, e) /\ SameNumbers(u, e) /\ SameMessages(u, e) /\ SameStages(u, e)
        /\ e.sendQueue = u.sendQueue /\ OneMore(u, e, m, Event("COMMAND_TIMEOUT", None))
    BY <2>1, CodesOK, EmitOK, EmitFields
  <2>. HIDE DEF e
  <2>3. /\ SameLink(session, e) /\ SameNumbers(session, e) /\ SameStages(session, e)
        /\ e.sendQueue = session.sendQueue /\ e.sent = session.sent /\ e.msg = f.msg
        /\ e.messageStates = WithoutKeys(session.messageStates, {sequence})
        /\ OneMore(session, e, m, Event("COMMAND_TIMEOUT", None))
    BY <1>3, <2>1, <2>2 DEF SameLink, SameNumbers, SameMessages, SameStages, OneMore
  <2>. QED BY <1>1, <1>2, <1>3, <1>5, <2>2, <2>3 DEF sequence
<1>. QED BY <1>4, <1>5

\* The timer of a second result reports that it is missing.
LEMMA SecondaryTimeoutStep ==
  ASSUME TypeOK, NEW m \in Commands, SecondaryTimeout(m)
  PROVE  /\ m \in session.secondaryTimers /\ UNCHANGED <<ciphers, closing, station, issued, executed>>
         /\ \E q : /\ SessionOK(q) /\ SameLink(session, q) /\ SameNumbers(session, q) /\ SameMessages(session, q)
                   /\ q.sendQueue = session.sendQueue /\ q.customDataStaging = session.customDataStaging
                   /\ q.secondaryTimers \subseteq session.secondaryTimers
                   /\ OneMore(session, q, m, Event("SECONDARY_TIMEOUT", None))
                   /\ session' = SendQueuedMessage(q)
<1>. DEFINE f == [session EXCEPT !.secondaryTimers = @ \ {m}, !.secondaryTimeout = None]
            q == Emit(f, m, Event("SECONDARY_TIMEOUT", None))
<1>1. session' = SendQueuedMessage(q)
  BY DEF SecondaryTimeout
<1>2. /\ SessionOK(f) /\ SameLink(session, f) /\ SameNumbers(session, f) /\ SameMessages(session, f)
      /\ f.sendQueue = session.sendQueue /\ f.customDataStaging = session.customDataStaging
      /\ f.secondaryTimers \subseteq session.secondaryTimers /\ f.events = session.events
  BY DEF TypeOK, SessionOK, ConnectionOK, QueueOK, NumbersOK, MessagesOK, ReportsOK, SessionFields,
         SameLink, SameNumbers, SameMessages
<1>. HIDE DEF f
<1>3. /\ SessionOK(q) /\ SameLink(f, q) /\ SameNumbers(f, q) /\ SameMessages(f, q) /\ SameStages(f, q)
      /\ q.sendQueue = f.sendQueue /\ OneMore(f, q, m, Event("SECONDARY_TIMEOUT", None))
  BY <1>2, CodesOK, EmitOK, EmitFields DEF Messages
<1>. HIDE DEF q
<1>4. /\ SameLink(session, q) /\ SameNumbers(session, q) /\ SameMessages(session, q)
      /\ q.sendQueue = session.sendQueue /\ q.customDataStaging = session.customDataStaging
      /\ q.secondaryTimers \subseteq session.secondaryTimers
      /\ OneMore(session, q, m, Event("SECONDARY_TIMEOUT", None))
  BY <1>2, <1>3 DEF SameLink, SameNumbers, SameMessages, SameStages, OneMore
<1>. QED BY <1>1, <1>3, <1>4 DEF SecondaryTimeout
=============================================================================
