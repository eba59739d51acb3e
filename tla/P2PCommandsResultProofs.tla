----------------------- MODULE P2PCommandsResultProofs -----------------------
(***************************************************************************)
(* What the application hears of its commands, what they are encrypted     *)
(* with, and in which order the station executes them, for every set of    *)
(* commands and every bound.                                               *)
(*                                                                         *)
(* P2PCommandsProofs says of every method of the session which fields it   *)
(* leaves (...Fields), and which method each handler comes down to         *)
(* (...Step): the proofs cite these and open no method again.  The first   *)
(* theorems have an inductive invariant each: Seconded, Placed, KeySound   *)
(* and Ordered.  The next one, Sound, takes these as known and says of a   *)
(* connection how the numbers of the two sides correspond; Marked is about *)
(* messages that were refused, AllDue the converse of Sound, and OneWaits  *)
(* the flow control of the queue.                                          *)
(***************************************************************************)
EXTENDS P2PCommandsProofs

-----------------------------------------------------------------------------
(* The second result comes after the first *)

SecondCodes == {"SECOND_RESULT", "SECONDARY_TIMEOUT"}

\* The first result of a message was reported.
Announced(s, m) == \E j \in DOMAIN s.events[m] : s.events[m][j].code = "RESULT"

\* What is staged, and what a second timer runs for, was announced.
AllAnnounced(s) ==
  /\ \A type \in DOMAIN s.customDataStaging : Announced(s, s.customDataStaging[type])
  /\ \A m \in s.secondaryTimers : Announced(s, m)
Seconded(s) ==
  /\ \A m \in Messages : \A i \in DOMAIN s.events[m] :
       s.events[m][i].code \in SecondCodes => \E j \in 1 .. i - 1 : s.events[m][j].code = "RESULT"
  /\ AllAnnounced(s)

\* The staging table and the second timers of t are among those of s.
FewerStages(s, t) ==
  /\ \A type \in DOMAIN t.customDataStaging :
       type \in DOMAIN s.customDataStaging /\ t.customDataStaging[type] = s.customDataStaging[type]
  /\ t.secondaryTimers \subseteq s.secondaryTimers

\* With the same events and no more stages nothing changes.
LEMMA SecondedSame ==
  ASSUME NEW s, NEW t, Seconded(s), t.events = s.events, FewerStages(s, t)
  PROVE  Seconded(t)
BY DEF Seconded, AllAnnounced, FewerStages, Announced

\* An event more is in order unless it is about a second result and the first is missing.
LEMMA SecondedMore ==
  ASSUME NEW s, SessionOK(s), NEW t, SessionOK(t), NEW m \in Messages, NEW event, Seconded(s),
         OneMore(s, t, m, event), FewerStages(s, t),
         event.code \in SecondCodes => Announced(s, m)
  PROVE  Seconded(t) /\ (event.code = "RESULT" => Announced(t, m))
<1>1. s.events[m] \in Seq(Events) /\ DOMAIN s.events[m] = 1 .. Len(s.events[m]) /\ Len(s.events[m]) \in Nat
  BY DEF SessionOK, ReportsOK
<1>. DEFINE n == Len(s.events[m])
<1>2. /\ DOMAIN t.events[m] = 1 .. n + 1 /\ t.events[m][n + 1] = event
      /\ \A i \in 1 .. n : t.events[m][i] = s.events[m][i]
  BY <1>1 DEF OneMore
<1>. HIDE DEF n
<1>3. /\ n \in Nat /\ DOMAIN s.events[m] = 1 .. n
  BY <1>1 DEF n
<1>4. \A x \in Messages : Announced(s, x) => Announced(t, x)
  <2>. SUFFICES ASSUME NEW x \in Messages, Announced(s, x) PROVE Announced(t, x)
    OBVIOUS
  <2>1. CASE x = m
    BY <1>2, <1>3, <2>1 DEF Announced
  <2>2. CASE x # m
    BY <2>2 DEF Announced, OneMore
  <2>. QED BY <2>1, <2>2
<1>5. AllAnnounced(t)
  <2>1. \A type \in DOMAIN s.customDataStaging : s.customDataStaging[type] \in Messages
    BY DEF SessionOK, ReportsOK, Messages
  <2>2. s.secondaryTimers \subseteq Messages
    BY DEF SessionOK, ReportsOK, Messages
  <2>. QED BY <1>4, <2>1, <2>2 DEF AllAnnounced, Seconded, FewerStages
<1>6. ASSUME NEW x \in Messages, NEW i \in DOMAIN t.events[x], t.events[x][i].code \in SecondCodes
      PROVE  \E j \in 1 .. i - 1 : t.events[x][j].code = "RESULT"
  <2>1. CASE x # m
    BY <1>6, <2>1 DEF Seconded, OneMore
  <2>2. CASE x = m /\ i = n + 1
    <3>1. \E j \in 1 .. n : s.events[m][j].code = "RESULT"
      BY <1>2, <1>3, <1>6, <2>2 DEF Announced
    <3>. QED BY <1>2, <1>3, <2>2, <3>1, SMTT(40)
  <2>3. CASE x = m /\ i # n + 1
    <3>1. i \in 1 .. n /\ s.events[m][i].code \in SecondCodes
      BY <1>2, <1>3, <1>6, <2>3
    <3>2. \E j \in 1 .. i - 1 : s.events[m][j].code = "RESULT"
      BY <1>3, <3>1 DEF Seconded
    <3>. QED BY <1>2, <1>3, <2>3, <3>1, <3>2, SMTT(40)
  <2>. QED BY <2>1, <2>2, <2>3
<1>7. event.code = "RESULT" => Announced(t, m)
  BY <1>2, <1>3 DEF Announced
<1>. QED BY <1>5, <1>6, <1>7 DEF Seconded

\* sendQueuedMessage stages nothing.
LEMMA SendQueuedMessageSeconded ==
  ASSUME NEW s, SessionOK(s), Seconded(s)
  PROVE  Seconded(SendQueuedMessage(s))
<1>. DEFINE t == SendQueuedMessage(s)
            m == Head(s.sendQueue).command
<1>1. SessionOK(t) /\ (Idle(s, t) \/ Asked(s, t) \/ TookHead(s, t))
  BY SendQueuedMessageOK, SendQueuedMessageFields
<1>. HIDE DEF t
<1>2. CASE Idle(s, t)
  BY <1>2 DEF Idle, t
<1>3. CASE Asked(s, t)
  BY <1>3, SecondedSame DEF Asked, SameStages, FewerStages, t
<1>4. CASE TookHead(s, t)
  <2>1. m \in Messages
    BY <1>4, HeadAndTailOK DEF TookHead
  <2>2. FewerStages(s, t)
    BY <1>4 DEF TookHead, ReportedAged, SentFresh, SameStages, FewerStages
  <2>3. CASE t.events = s.events
    BY <2>2, <2>3, SecondedSame DEF t
  <2>4. CASE OneMore(s, t, m, Event("CONNECT_TIMEOUT", None))
    BY <1>1, <2>1, <2>2, <2>4, CodesOK, SecondedMore DEF SecondCodes, t
  <2>. QED BY <1>4, <2>3, <2>4 DEF TookHead, ReportedAged, SentFresh
<1>. QED BY <1>1, <1>2, <1>3, <1>4 DEF t

\* Sending again or giving up stages nothing.
LEMMA SendCommandAgainSeconded ==
  ASSUME NEW s, SessionOK(s), NEW m \in Messages, Seconded(s)
  PROVE  Seconded(SendCommandAgain(s, m))
<1>. DEFINE over == IF m = Gateway THEN s ELSE Emit(s, m, Event("COMMAND_TIMEOUT", None))
            last == Unlist(over, s.msg[m].sequence)
            t == SendCommandAgain(s, m)
<1>1. /\ s.msg[m].retries < MAX_RETRIES => SentAgain(s, t, m)
      /\ ~(s.msg[m].retries < MAX_RETRIES) => t = SendQueuedMessage(last)
  BY SendCommandAgainFields
<1>. HIDE DEF t
<1>2. ASSUME SentAgain(s, t, m) PROVE Seconded(t)
  BY <1>2, SecondedSame DEF SentAgain, SameStages, FewerStages
<1>3. SessionOK(over) /\ Seconded(over)
  <2>. DEFINE e == Emit(s, m, Event("COMMAND_TIMEOUT", None))
  <2>1. SessionOK(e) /\ SameStages(s, e) /\ OneMore(s, e, m, Event("COMMAND_TIMEOUT", None))
    BY CodesOK, EmitOK, EmitFields
  <2>2. Seconded(e)
    <3>. HIDE DEF e
    <3>. QED BY <2>1, CodesOK, SecondedMore DEF SameStages, FewerStages, SecondCodes
  <2>. QED BY <2>1, <2>2
<1>. HIDE DEF over
<1>4. SessionOK(last) /\ SameStages(over, last) /\ last.events = over.events
  BY <1>3, UnlistOK, UnlistFields
<1>. HIDE DEF last
<1>5. Seconded(SendQueuedMessage(last))
  BY <1>3, <1>4, SecondedSame, SendQueuedMessageSeconded DEF SameStages, FewerStages
<1>. QED BY <1>1, <1>2, <1>5 DEF t

\* A command is staged after its first result was reported.
LEMMA HandleResultSeconded ==
  ASSUME NEW s, SessionOK(s), NEW key \in DOMAIN s.messageStates, NEW from \in Messages, NEW failed \in BOOLEAN,
         Seconded(s)
  PROVE  Seconded(HandleResult(s, key, from, failed))
<1>. DEFINE m == s.messageStates[key]
            a == Answered(s, key, from)
            r == Refused(s, m)
            u == Unlist(s, key)
            f == FirstResult(a, m)
            t == HandleResult(s, key, from, failed)
<1>1. /\ m \in Messages /\ SessionOK(a) /\ SameStages(s, a)
      /\ IF m = Gateway THEN a.events = s.events ELSE OneMore(s, a, m, Event("RESULT", from))
  <2>1. TookAnswer(s, a, key, m, from)
    BY AnsweredFields
  <2>. HIDE DEF a, m
  <2>. QED BY <2>1 DEF TookAnswer
<1>2. \/ t = u
      \/ t = SendCommandAgain(r, m)
      \/ m \in TwoStageCommands /\ t = f
      \/ t = SendQueuedMessage(a)
  BY HandleResultCases
<1>. HIDE DEF m, a, r, u, t
<1>3. Seconded(u)
  <2>1. SameStages(s, u) /\ u.events = s.events
    BY UnlistFields DEF u
  <2>. QED BY <2>1, SecondedSame DEF SameStages, FewerStages
<1>4. Seconded(SendCommandAgain(r, m))
  <2>1. SessionOK(r) /\ SameStages(s, r) /\ r.events = s.events
    BY <1>1, RefusedFields DEF r
  <2>2. Seconded(r)
    BY <2>1, SecondedSame DEF SameStages, FewerStages
  <2>. QED BY <1>1, <2>1, <2>2, SendCommandAgainSeconded
<1>5. Seconded(a) /\ (m # Gateway => Announced(a, m))
  <2>1. FewerStages(s, a)
    BY <1>1 DEF SameStages, FewerStages
  <2>2. CASE m = Gateway
    BY <1>1, <2>1, <2>2, SecondedSame
  <2>3. CASE m # Gateway
    BY <1>1, <2>1, <2>3, CodesOK, SecondedMore DEF SecondCodes
  <2>. QED BY <2>2, <2>3
<1>6. m \in TwoStageCommands => Seconded(f)
  <2>1. /\ f.secondaryTimers = a.secondaryTimers \cup {m} /\ f.events = a.events
        /\ f.customDataStaging = WithEntry(a.customDataStaging, CommandType[m], m)
    BY <1>1, FirstResultFields
  <2>2. \A x : Announced(f, x) <=> Announced(a, x)
    BY <2>1 DEF Announced
  <2>3. m \in TwoStageCommands => Announced(a, m)
    BY <1>5, CommandAssumption
  <2>. HIDE DEF f
  <2>. QED BY <1>5, <2>1, <2>2, <2>3 DEF Seconded, AllAnnounced, WithEntry
<1>7. Seconded(SendQueuedMessage(a))
  BY <1>1, <1>5, SendQueuedMessageSeconded
<1>. QED BY <1>2, <1>3, <1>4, <1>6, <1>7 DEF t

\* Forgetting the connection stages nothing.
LEMMA DisconnectedSeconded ==
  ASSUME NEW s, SessionOK(s), Seconded(s)
  PROVE  Seconded(Disconnected(s)) /\ Seconded(Initialize(s))
<1>1. \A t : t.events = s.events /\ t.customDataStaging = NoEntries /\ t.secondaryTimers \subseteq s.secondaryTimers
             => Seconded(t)
  BY SecondedSame DEF FewerStages, NoEntries
<1>2. LET t == Disconnected(s)
      IN t.events = s.events /\ t.customDataStaging = NoEntries /\ t.secondaryTimers \subseteq s.secondaryTimers
  BY DisconnectedFields
<1>3. LET t == Initialize(s)
      IN t.events = s.events /\ t.customDataStaging = NoEntries /\ t.secondaryTimers \subseteq s.secondaryTimers
  BY InitializeFields
<1>. QED BY <1>1, <1>2, <1>3

\* At first nothing was reported.
LEMMA InitSeconded == Init => Seconded(session)
BY DEF Init, Seconded, AllAnnounced, NoEntries

\* The end of the handshake stages nothing.
LEMMA HandshakeOverSeconded ==
  ASSUME NEW s, SessionOK(s), NEW sequence, Seconded(s)
  PROVE  Seconded(HandshakeOver(s, sequence))
<1>. DEFINE g == GivenBack(s, sequence)
<1>1. /\ SessionOK(g) /\ HandshakeOver(s, sequence) = SendQueuedMessage(g)
      /\ SameStages(s, g) /\ g.events = s.events
  BY GivenBackFields
<1>. HIDE DEF g
<1>2. Seconded(g)
  BY <1>1, SecondedSame DEF SameStages, FewerStages
<1>. QED BY <1>1, <1>2, SendQueuedMessageSeconded

\* Every step keeps the order.
LEMMA NextSeconded == TypeOK /\ Seconded(session) /\ [Next]_vars => Seconded(session')
<1>. SUFFICES ASSUME TypeOK, Seconded(session), [Next]_vars PROVE Seconded(session')
  OBVIOUS
<1>0. SessionOK(session)
  BY DEF TypeOK
<1>1. ASSUME NEW q, SessionOK(q), q.events = session.events, FewerStages(session, q)
      PROVE  Seconded(q)
  BY <1>1, SecondedSame
<1>2. CASE UNCHANGED session
  BY <1>2
<1>3. ASSUME NEW c \in Commands, IssueCommand(c) PROVE Seconded(session')
  <2>1. PICK q : SessionOK(q) /\ SameButQueue(session, q) /\ session' = SendQueuedMessage(q)
    BY <1>3, IssueStep
  <2>2. Seconded(q)
    BY <1>1, <2>1 DEF SameButQueue, SameStages, FewerStages
  <2>. QED BY <2>1, <2>2, SendQueuedMessageSeconded
<1>4. CASE Connect
  <2>1. Asked(session, session')
    BY <1>4, ConnectStep
  <2>. QED BY <2>1, SecondedSame DEF Asked, SameStages, FewerStages
<1>5. CASE Close
  <2>1. PICK q : /\ SessionOK(q) /\ q.events = session.events /\ q.customDataStaging = session.customDataStaging
                 /\ q.secondaryTimers \subseteq session.secondaryTimers
                 /\ session' = IF session.connected THEN q ELSE Initialize(q)
    BY <1>5, CloseStep
  <2>2. Seconded(q)
    BY <1>1, <2>1 DEF FewerStages
  <2>3. Seconded(Initialize(q))
    BY <2>1, <2>2, DisconnectedSeconded
  <2>. QED BY <2>1, <2>2, <2>3
<1>6. CASE CloseEnd \/ Disconnect
  <2>1. session' = Disconnected(session)
    BY <1>6 DEF CloseEnd, Disconnect
  <2>. QED BY <1>0, <2>1, DisconnectedSeconded
<1>7. CASE Establish
  <2>1. PICK g, a, q : /\ SessionOK(g) /\ SameStages(session, g) /\ g.events = session.events
                       /\ a = SendQueuedMessage(g) /\ SessionOK(a) /\ SessionOK(q) /\ SameButQueue(a, q)
                       /\ session' = SendQueuedMessage(q)
    BY <1>7, EstablishStep
  <2>2. Seconded(g)
    BY <1>1, <2>1 DEF SameStages, FewerStages
  <2>3. Seconded(a)
    BY <2>1, <2>2, SendQueuedMessageSeconded
  <2>4. Seconded(q)
    BY <2>1, <2>3, SecondedSame DEF SameButQueue, SameStages, FewerStages
  <2>. QED BY <2>1, <2>4, SendQueuedMessageSeconded
<1>8. CASE Age
  <2>1. SameButQueue(session, session')
    BY <1>8, AgeStep
  <2>. QED BY <2>1, SecondedSame DEF SameButQueue, SameStages, FewerStages
<1>9. CASE \E datagram \in session.sent : StationTakes(datagram[1], datagram[2])
  BY <1>9 DEF StationTakes
<1>10. ASSUME NEW sequence \in station.seen, HandleAck(sequence) PROVE Seconded(session')
  <2>1. PICK q : /\ SessionOK(q) /\ SameStages(session, q) /\ q.events = session.events
                 /\ session' = SendQueuedMessage(q)
    BY <1>10, AckStep
  <2>2. Seconded(q)
    BY <1>1, <2>1 DEF SameStages, FewerStages
  <2>. QED BY <2>1, <2>2, SendQueuedMessageSeconded
<1>11. CASE HandleData
  <2>. DEFINE number == session.results % (MAX_SEQUENCE_NUMBER + 1)
              good == MappedSequence(session, number)
              key == IF good = 0 THEN number ELSE good
              answer == station.answers[session.results + 1]
  <2>1. answer.from \in Messages /\ answer.failed \in BOOLEAN
    BY <1>11, DataStep
  <2>2. PICK q : /\ SessionOK(q) /\ SameMessages(session, q) /\ SameStages(session, q) /\ q.events = session.events
                 /\ session' = (IF key \in DOMAIN session.messageStates
                                  THEN HandleResult(q, key, answer.from, answer.failed) ELSE q)
    BY <1>11, DataStep
  <2>. HIDE DEF answer, key
  <2>3. Seconded(q)
    BY <1>1, <2>2 DEF SameStages, FewerStages
  <2>4. CASE key \in DOMAIN session.messageStates
    <3>1. key \in DOMAIN q.messageStates
      BY <2>2, <2>4 DEF SameMessages
    <3>2. Seconded(HandleResult(q, key, answer.from, answer.failed))
      BY <2>1, <2>2, <2>3, <3>1, HandleResultSeconded
    <3>. QED BY <2>2, <2>4, <3>2
  <2>. QED BY <2>2, <2>3, <2>4
<1>12. CASE HandleGatewayInfo
  BY <1>12 DEF HandleGatewayInfo
<1>13. ASSUME NEW connection \in 1 .. MaxConnections, CipherAnswers(connection) PROVE Seconded(session')
  <2>1. PICK q : SessionOK(q) /\ SameStages(session, q) /\ q.events = session.events /\ session' = HandshakeOver(q, 0)
    BY <1>13, CipherStep
  <2>2. Seconded(q)
    BY <1>1, <2>1 DEF SameStages, FewerStages
  <2>. QED BY <2>1, <2>2, HandshakeOverSeconded
<1>14. CASE HandleSecondResult
  <2>. DEFINE from == Head(station.second)
              type == CommandType[from]
              m == session.customDataStaging[type]
  <2>1. from \in Commands
    BY <1>14, SecondStep
  <2>2. PICK q : /\ SessionOK(q) /\ q.secondaryTimers \subseteq session.secondaryTimers
                 /\ \/ q.customDataStaging = session.customDataStaging /\ q.events = session.events
                    \/ /\ type \in DOMAIN session.customDataStaging /\ m \in Messages
                       /\ q.customDataStaging = WithoutKeys(session.customDataStaging, {type})
                       /\ OneMore(session, q, m, Event("SECOND_RESULT", from))
                 /\ session' = SendQueuedMessage(q)
    BY <1>14, SecondStep
  <2>. HIDE DEF from
  <2>3. CASE q.customDataStaging = session.customDataStaging /\ q.events = session.events
    <3>1. Seconded(q)
      BY <1>1, <2>2, <2>3 DEF FewerStages
    <3>. QED BY <2>2, <3>1, SendQueuedMessageSeconded
  <2>4. CASE /\ type \in DOMAIN session.customDataStaging /\ m \in Messages
             /\ q.customDataStaging = WithoutKeys(session.customDataStaging, {type})
             /\ OneMore(session, q, m, Event("SECOND_RESULT", from))
    <3>1. Announced(session, m)
      BY <2>4 DEF Seconded, AllAnnounced
    <3>. HIDE DEF m
    <3>2. FewerStages(session, q)
      BY <2>2, <2>4 DEF FewerStages, WithoutKeys, Restrict
    <3>3. Seconded(q)
      BY <1>0, <2>2, <2>4, <3>1, <3>2, SecondedMore
    <3>. QED BY <2>2, <3>3, SendQueuedMessageSeconded
  <2>. QED BY <2>2, <2>3, <2>4
<1>15. ASSUME NEW m \in Messages, AckTimeout(m) PROVE Seconded(session')
  <2>1. PICK q : SessionOK(q) /\ SameStages(session, q) /\ q.events = session.events /\ session' = SendCommandAgain(q, m)
    BY <1>15, AckTimeoutStep
  <2>2. Seconded(q)
    BY <1>1, <2>1 DEF SameStages, FewerStages
  <2>. QED BY <2>1, <2>2, SendCommandAgainSeconded
<1>16. ASSUME NEW m \in Messages, ResultTimeout(m) PROVE Seconded(session')
  <2>1. PICK q : /\ SessionOK(q) /\ SameStages(session, q)
                 /\ \/ q.events = session.events /\ session' = HandshakeOver(q, session.msg[m].sequence)
                    \/ OneMore(session, q, m, Event("COMMAND_TIMEOUT", None)) /\ session' = SendQueuedMessage(q)
    BY <1>16, ResultTimeoutStep
  <2>2. FewerStages(session, q)
    BY <2>1 DEF SameStages, FewerStages
  <2>3. CASE q.events = session.events /\ session' = HandshakeOver(q, session.msg[m].sequence)
    <3>1. Seconded(q)
      BY <1>1, <2>1, <2>2, <2>3
    <3>. QED BY <2>1, <2>3, <3>1, HandshakeOverSeconded
  <2>4. CASE OneMore(session, q, m, Event("COMMAND_TIMEOUT", None)) /\ session' = SendQueuedMessage(q)
    <3>1. Seconded(q)
      BY <1>0, <2>1, <2>2, <2>4, CodesOK, SecondedMore DEF SecondCodes
    <3>. QED BY <2>1, <2>4, <3>1, SendQueuedMessageSeconded
  <2>. QED BY <2>1, <2>3, <2>4
<1>17. ASSUME NEW m \in Commands, SecondaryTimeout(m) PROVE Seconded(session')
  <2>1. m \in session.secondaryTimers /\ m \in Messages
    BY <1>17, SecondaryTimeoutStep DEF Messages
  <2>2. PICK q : /\ SessionOK(q) /\ q.customDataStaging = session.customDataStaging
                 /\ q.secondaryTimers \subseteq session.secondaryTimers
                 /\ OneMore(session, q, m, Event("SECONDARY_TIMEOUT", None)) /\ session' = SendQueuedMessage(q)
    BY <1>17, SecondaryTimeoutStep
  <2>3. FewerStages(session, q) /\ Announced(session, m)
    BY <2>1, <2>2 DEF FewerStages, Seconded, AllAnnounced
  <2>4. Seconded(q)
    BY <1>0, <2>1, <2>2, <2>3, SecondedMore
  <2>. QED BY <2>2, <2>4, SendQueuedMessageSeconded
<1>. QED BY <1>2, <1>3, <1>4, <1>5, <1>6, <1>7, <1>8, <1>9, <1>10, <1>11, <1>12, <1>13, <1>14, <1>15, <1>16, <1>17
         DEF Next, vars

\* The application hears of the second result of a command, or that it is missing, only after it heard
\* of the first, whatever is lost, late or reordered: a second result that comes early is reported for
\* nobody.
THEOREM SecondResultsComeSecond == Spec => []SecondAfterFirst
<1>1. Seconded(session) => SecondAfterFirst
  BY DEF Seconded, SecondAfterFirst, SecondCodes
<1>2. Seconded(session') <=> Seconded(session)'
  BY DEF Seconded, AllAnnounced, Announced
<1>. QED BY <1>1, <1>2, InitSeconded, NextSeconded, TypeCorrect, PTL DEF Spec

-----------------------------------------------------------------------------
(* One answer *)

FirstCodes == {"RESULT", "COMMAND_TIMEOUT", "CONNECT_TIMEOUT"}
FirstAt(s, c) == {i \in DOMAIN s.events[c] : s.events[c][i].code \in FirstCodes}

\* A command that is under way: it is listed, or one of its timers runs.
Active(s, c) == c \in Listed(s) \/ s.msg[c].timeout # "none"

QueuedOnce(s) ==
  \A i, j \in DOMAIN s.sendQueue :
    s.sendQueue[i].command = s.sendQueue[j].command /\ s.sendQueue[i].command \in Commands => i = j
KeyedByNumber(s) ==
  \A k \in DOMAIN s.messageStates :
    s.messageStates[k] \in Commands => s.msg[s.messageStates[k]].sequence = k
InPlace(s, c) ==
  /\ Queued(s, c) => ~Active(s, c)
  /\ Queued(s, c) \/ Active(s, c) => FirstAt(s, c) = {}
  /\ \A i, j \in FirstAt(s, c) : i = j

\* A command waits, is under way or was answered: once, and one of the three.
Placed(s) == QueuedOnce(s) /\ KeyedByNumber(s) /\ \A c \in Commands : InPlace(s, c)

\* A command nothing was done with; none of a method's steps does anything with it.
Untouched(s, c) == ~Queued(s, c) /\ ~Active(s, c) /\ FirstAt(s, c) = {}
NoNews(s, t) == \A c \in Commands : Untouched(s, c) => Untouched(t, c)

\* Nothing more is queued or under way, and the answers are the same.
LEMMA PlacedLess ==
  ASSUME NEW s, NEW t, Placed(s), QueuedOnce(t), KeyedByNumber(t),
         \A c \in Commands : /\ Queued(t, c) => Queued(s, c)
                             /\ Active(t, c) => Active(s, c)
                             /\ FirstAt(t, c) = FirstAt(s, c)
  PROVE  Placed(t) /\ NoNews(s, t)
BY Zenon DEF Placed, InPlace, NoNews, Untouched

\* The same, with the queue untouched.
LEMMA PlacedSameQueue ==
  ASSUME NEW s, NEW t, Placed(s), t.sendQueue = s.sendQueue, KeyedByNumber(t),
         \A c \in Commands : /\ Active(t, c) => Active(s, c)
                             /\ FirstAt(t, c) = FirstAt(s, c)
  PROVE  Placed(t) /\ NoNews(s, t)
<1>1. \A c : Queued(t, c) <=> Queued(s, c)
  BY DEF Queued
<1>2. QueuedOnce(t)
  BY DEF QueuedOnce, Placed
<1>. QED BY <1>1, <1>2, PlacedLess

\* Where the messages and the events are the same, so is what is under way and what was answered.
LEMMA SameActive ==
  ASSUME NEW s, NEW t, SameMessages(s, t)
  PROVE  /\ \A c : Active(t, c) <=> Active(s, c)
         /\ KeyedByNumber(s) => KeyedByNumber(t)
BY DEF SameMessages, Active, Listed, Range, KeyedByNumber

\* An event more is an answer more for its message when it has one of the codes.
LEMMA FirstMore ==
  ASSUME NEW s, SessionOK(s), NEW t, NEW m \in Messages, NEW event, OneMore(s, t, m, event)
  PROVE  /\ \A c \in Messages \ {m} : FirstAt(t, c) = FirstAt(s, c)
         /\ event.code \notin FirstCodes => FirstAt(t, m) = FirstAt(s, m)
         /\ FirstAt(s, m) = {} => \A i, j \in FirstAt(t, m) : i = j
<1>1. s.events[m] \in Seq(Events)
  BY DEF SessionOK, ReportsOK
<1>. DEFINE n == Len(s.events[m])
<1>2. /\ DOMAIN s.events[m] = 1 .. n /\ n \in Nat
      /\ DOMAIN t.events[m] = 1 .. n + 1 /\ t.events[m][n + 1] = event
      /\ \A i \in 1 .. n : t.events[m][i] = s.events[m][i]
  BY <1>1 DEF OneMore
<1>. HIDE DEF n
<1>3. \A c \in Messages \ {m} : FirstAt(t, c) = FirstAt(s, c)
  BY DEF FirstAt, OneMore
<1>4. /\ FirstAt(s, m) \subseteq FirstAt(t, m)
      /\ \A i \in FirstAt(t, m) : i \in FirstAt(s, m) \/ (i = n + 1 /\ event.code \in FirstCodes)
  BY <1>2 DEF FirstAt
<1>. QED BY <1>3, <1>4

\* What becomes of the table when an entry is made or taken away.
LEMMA TableFacts ==
  ASSUME NEW table, NEW key, NEW value
  PROVE  /\ DOMAIN WithEntry(table, key, value) = DOMAIN table \cup {key}
         /\ \A k \in DOMAIN WithEntry(table, key, value) :
              WithEntry(table, key, value)[k] = IF k = key THEN value ELSE table[k]
         /\ DOMAIN WithoutKeys(table, {key}) = DOMAIN table \ {key}
         /\ \A k \in DOMAIN WithoutKeys(table, {key}) : WithoutKeys(table, {key})[k] = table[k]
         /\ Range(WithEntry(table, key, value)) \subseteq Range(table) \cup {value}
         /\ Range(WithoutKeys(table, {key})) \subseteq Range(table)
BY DEF WithEntry, WithoutKeys, Restrict, Range

\* A message goes out: it must not have been answered and must not wait.
LEMMA PlacedSent ==
  ASSUME NEW s, SessionOK(s), NEW t, NEW m \in Messages, NEW table, NEW number, Placed(s),
         QueuedOnce(t), \A c \in Commands : Queued(t, c) => Queued(s, c),
         m \in Commands => ~Queued(t, m) /\ FirstAt(s, m) = {},
         t.events = s.events, t.messageStates = WithEntry(table, number, m), t.msg[m].sequence = number,
         \A k \in DOMAIN table : k \in DOMAIN s.messageStates /\ table[k] = s.messageStates[k],
         \A k \in DOMAIN table : table[k] = m /\ m \in Commands => k = number,
         \A x \in Messages \ {m} : t.msg[x] = s.msg[x]
  PROVE  Placed(t) /\ \A c \in Commands \ {m} : Untouched(s, c) => Untouched(t, c)
<1>1. \A k \in DOMAIN t.messageStates : k = number \/ (k \in DOMAIN table /\ k # number)
  BY DEF WithEntry
<1>2. t.messageStates[number] = m /\ \A k \in DOMAIN table \ {number} : t.messageStates[k] = table[k]
  BY DEF WithEntry
<1>3. KeyedByNumber(t)
  <2>. SUFFICES ASSUME NEW k \in DOMAIN t.messageStates, t.messageStates[k] \in Commands
                PROVE  t.msg[t.messageStates[k]].sequence = k
    BY DEF KeyedByNumber
  <2>1. CASE k = number
    BY <1>2, <2>1
  <2>2. CASE k # number
    <3>1. k \in DOMAIN table /\ t.messageStates[k] = table[k]
      BY <1>1, <1>2, <2>2
    <3>2. t.messageStates[k] # m
      BY <2>2, <3>1
    <3>3. t.messageStates[k] \in Messages \ {m}
      BY <3>2 DEF Messages
    <3>. QED BY <3>1, <3>3 DEF Placed, KeyedByNumber
  <2>. QED BY <2>1, <2>2
<1>4. \A c \in Commands \ {m} : Active(t, c) => Active(s, c)
  <2>1. Listed(t) \subseteq Listed(s) \cup {m}
    BY <1>1, <1>2 DEF Listed, Range
  <2>. QED BY <2>1 DEF Active, Messages
<1>5. \A c : FirstAt(t, c) = FirstAt(s, c)
  BY DEF FirstAt
<1>6. ASSUME NEW c \in Commands PROVE InPlace(t, c)
  <2>1. CASE c = m
    BY <1>5, <2>1 DEF InPlace, Placed
  <2>2. CASE c # m
    BY <1>4, <1>5, <2>2 DEF InPlace, Placed
  <2>. QED BY <2>1, <2>2
<1>. QED BY <1>3, <1>4, <1>5, <1>6 DEF Placed, Untouched

\* A message that was neither waiting nor answered is reported and no longer under way.
LEMMA PlacedReported ==
  ASSUME NEW s, SessionOK(s), NEW t, NEW m \in Messages, NEW event, Placed(s), OneMore(s, t, m, event),
         QueuedOnce(t), KeyedByNumber(t),
         \A c \in Commands : (Queued(t, c) => Queued(s, c)) /\ (Active(t, c) => Active(s, c)),
         m \in Commands => ~Queued(t, m) /\ ~Active(t, m) /\ FirstAt(s, m) = {}
  PROVE  Placed(t) /\ \A c \in Commands \ {m} : Untouched(s, c) => Untouched(t, c)
<1>1. /\ \A c \in Commands \ {m} : FirstAt(t, c) = FirstAt(s, c)
      /\ m \in Commands => \A i, j \in FirstAt(t, m) : i = j
  BY FirstMore DEF Messages
<1>2. ASSUME NEW c \in Commands PROVE InPlace(t, c)
  <2>1. CASE c = m
    BY <1>1, <2>1 DEF InPlace
  <2>2. CASE c # m
    BY <1>1, <2>2 DEF InPlace, Placed
  <2>. QED BY <2>1, <2>2
<1>. QED BY <1>1, <1>2 DEF Placed, Untouched

\* The tail of the queue queues the same but the head, and the head no more when it is a command.
LEMMA TailQueued ==
  ASSUME NEW s, SessionOK(s), NEW t, s.sendQueue # <<>>, t.sendQueue = Tail(s.sendQueue), QueuedOnce(s)
  PROVE  /\ QueuedOnce(t)
         /\ \A c : Queued(t, c) => Queued(s, c)
         /\ Queued(s, Head(s.sendQueue).command)
         /\ Head(s.sendQueue).command \in Commands => ~Queued(t, Head(s.sendQueue).command)
<1>1. s.sendQueue \in Seq([command : Messages, aged : BOOLEAN])
  BY DEF SessionOK, QueueOK
<1>2. /\ DOMAIN s.sendQueue = 1 .. Len(s.sendQueue) /\ Len(s.sendQueue) \in Nat \ {0}
      /\ Head(s.sendQueue) = s.sendQueue[1]
  BY <1>1
<1>3. /\ DOMAIN t.sendQueue = 1 .. Len(s.sendQueue) - 1
      /\ \A i \in 1 .. Len(s.sendQueue) - 1 : t.sendQueue[i] = s.sendQueue[i + 1]
  BY <1>1, <1>2
<1>4. \A i \in DOMAIN t.sendQueue : i \in Int /\ i + 1 \in DOMAIN s.sendQueue /\ t.sendQueue[i] = s.sendQueue[i + 1]
                                    /\ i + 1 # 1
  BY <1>2, <1>3
<1>5. QueuedOnce(t)
  BY <1>4 DEF QueuedOnce
<1>6. \A c : Queued(t, c) => Queued(s, c)
  BY <1>4 DEF Queued
<1>7. 1 \in DOMAIN s.sendQueue
  BY <1>2
<1>8. Queued(s, Head(s.sendQueue).command)
  BY <1>2, <1>7 DEF Queued
<1>9. Head(s.sendQueue).command \in Commands => ~Queued(t, Head(s.sendQueue).command)
  BY <1>2, <1>4, <1>7 DEF Queued, QueuedOnce
<1>. QED BY <1>5, <1>6, <1>8, <1>9

\* sendQueuedMessage reports or sends what waits, and only that.
LEMMA SendQueuedMessagePlaced ==
  ASSUME NEW s, SessionOK(s), Placed(s)
  PROVE  Placed(SendQueuedMessage(s)) /\ NoNews(s, SendQueuedMessage(s))
<1>. DEFINE t == SendQueuedMessage(s)
            m == Head(s.sendQueue).command
<1>1. SessionOK(t) /\ (Idle(s, t) \/ Asked(s, t) \/ TookHead(s, t))
  BY SendQueuedMessageOK, SendQueuedMessageFields
<1>. HIDE DEF t
<1>2. CASE Idle(s, t)
  BY <1>2 DEF Idle, NoNews, t
<1>3. CASE Asked(s, t)
  <2>1. \A c : FirstAt(t, c) = FirstAt(s, c)
    BY <1>3 DEF Asked, FirstAt
  <2>2. SameMessages(s, t) /\ t.sendQueue = s.sendQueue
    BY <1>3 DEF Asked
  <2>. QED BY <2>1, <2>2, SameActive, PlacedSameQueue DEF Placed, t
<1>4. CASE TookHead(s, t)
  <2>1. m \in Messages /\ s.sendQueue # <<>> /\ t.sendQueue = Tail(s.sendQueue)
    BY <1>4, HeadAndTailOK DEF TookHead
  <2>2. /\ QueuedOnce(t) /\ \A c : Queued(t, c) => Queued(s, c)
        /\ Queued(s, m) /\ (m \in Commands => ~Queued(t, m))
    BY <2>1, TailQueued DEF Placed
  <2>3. m \in Commands => FirstAt(s, m) = {} /\ ~Active(s, m)
    BY <2>2 DEF Placed, InPlace
  <2>. HIDE DEF m
  <2>4. CASE SentFresh(s, t, m)
    <3>1. /\ t.events = s.events /\ t.messageStates = WithEntry(s.messageStates, s.seqNumber, m)
          /\ t.msg[m].sequence = s.seqNumber /\ \A x \in Messages \ {m} : t.msg[x] = s.msg[x]
      BY <2>4 DEF SentFresh
    <3>2. m \in Commands => \A k \in DOMAIN s.messageStates : s.messageStates[k] # m
      BY <2>3 DEF Active, Listed, Range
    <3>3. \A k \in DOMAIN s.messageStates : s.messageStates[k] = m /\ m \in Commands => k = s.seqNumber
      BY <3>2
    <3>4. m \in Commands => ~Queued(t, m) /\ FirstAt(s, m) = {}
      BY <2>2, <2>3
    <3>5. \A table, number :
            /\ t.messageStates = WithEntry(table, number, m) /\ t.msg[m].sequence = number
            /\ \A k \in DOMAIN table : k \in DOMAIN s.messageStates /\ table[k] = s.messageStates[k]
            /\ \A k \in DOMAIN table : table[k] = m /\ m \in Commands => k = number
            => Placed(t) /\ \A c \in Commands \ {m} : Untouched(s, c) => Untouched(t, c)
      BY <2>1, <2>2, <3>1, <3>4, PlacedSent
    <3>6. Placed(t) /\ \A c \in Commands \ {m} : Untouched(s, c) => Untouched(t, c)
      BY <3>1, <3>3, <3>5
    <3>. QED BY <2>2, <3>6 DEF NoNews, Untouched, t
  <2>5. CASE ReportedAged(s, t, m)
    <3>1. SameMessages(s, t)
      BY <2>5 DEF ReportedAged
    <3>2. (\A c : Active(t, c) <=> Active(s, c)) /\ KeyedByNumber(t)
      BY <3>1, SameActive DEF Placed
    <3>3. CASE t.events = s.events
      <4>1. \A c : FirstAt(t, c) = FirstAt(s, c)
        BY <3>3 DEF FirstAt
      <4>. QED BY <2>2, <3>2, <4>1, PlacedLess DEF t
    <3>4. CASE OneMore(s, t, m, Event("CONNECT_TIMEOUT", None))
      <4>1. Placed(t) /\ \A c \in Commands \ {m} : Untouched(s, c) => Untouched(t, c)
        BY <2>1, <2>2, <2>3, <3>2, <3>4, PlacedReported
      <4>. QED BY <2>2, <4>1 DEF NoNews, Untouched, t
    <3>. QED BY <2>5, <3>3, <3>4 DEF ReportedAged
  <2>. QED BY <1>4, <2>4, <2>5 DEF TookHead, m
<1>. QED BY <1>1, <1>2, <1>3, <1>4

\* A message that is neither waiting nor answered is sent again or given up.
LEMMA SendCommandAgainPlaced ==
  ASSUME NEW s, SessionOK(s), NEW m \in Messages, Placed(s),
         m \in Commands => ~Queued(s, m) /\ FirstAt(s, m) = {},
         m \in Commands /\ ~(s.msg[m].retries < MAX_RETRIES) => s.msg[m].timeout = "none"
  PROVE  /\ Placed(SendCommandAgain(s, m))
         /\ \A c \in Commands \ {m} : Untouched(s, c) => Untouched(SendCommandAgain(s, m), c)
<1>. DEFINE over == IF m = Gateway THEN s ELSE Emit(s, m, Event("COMMAND_TIMEOUT", None))
            old == s.msg[m].sequence
            last == Unlist(over, old)
            t == SendCommandAgain(s, m)
<1>1. /\ s.msg[m].retries < MAX_RETRIES => SentAgain(s, t, m)
      /\ ~(s.msg[m].retries < MAX_RETRIES) => t = SendQueuedMessage(last)
  BY SendCommandAgainFields
<1>. HIDE DEF t
<1>2. CASE s.msg[m].retries < MAX_RETRIES
  <2>. DEFINE number == IF s.msg[m].failed THEN s.seqNumber ELSE s.msg[m].sequence
              others == IF s.msg[m].failed THEN WithoutKeys(s.messageStates, {s.msg[m].sequence}) ELSE s.messageStates
  <2>1. /\ t.sendQueue = s.sendQueue /\ t.events = s.events
        /\ t.messageStates = WithEntry(others, number, m) /\ t.msg[m].sequence = number
        /\ \A x \in Messages \ {m} : t.msg[x] = s.msg[x]
    BY <1>1, <1>2 DEF SentAgain
  <2>2. \A k \in DOMAIN others : k \in DOMAIN s.messageStates /\ others[k] = s.messageStates[k]
    BY DEF WithoutKeys, Restrict
  <2>3. \A k \in DOMAIN others : others[k] = m /\ m \in Commands => k = number
    BY DEF WithoutKeys, Restrict, Placed, KeyedByNumber
  <2>. HIDE DEF number, others
  <2>4. /\ QueuedOnce(t) /\ \A c : Queued(t, c) <=> Queued(s, c)
    BY <2>1 DEF Queued, QueuedOnce, Placed
  <2>5. Placed(t) /\ \A c \in Commands \ {m} : Untouched(s, c) => Untouched(t, c)
    BY <2>1, <2>2, <2>3, <2>4, PlacedSent
  <2>. QED BY <2>5 DEF t
<1>3. CASE ~(s.msg[m].retries < MAX_RETRIES)
  <2>1. /\ SessionOK(over) /\ over.sendQueue = s.sendQueue /\ SameMessages(s, over)
        /\ IF m = Gateway THEN over = s ELSE OneMore(s, over, m, Event("COMMAND_TIMEOUT", None))
    BY CodesOK, EmitOK, EmitFields DEF SameMessages
  <2>. HIDE DEF over
  <2>2. /\ SessionOK(last) /\ last.sendQueue = over.sendQueue /\ last.events = over.events
        /\ last.messageStates = WithoutKeys(over.messageStates, {old}) /\ last.msg = over.msg
    BY <2>1, UnlistOK, UnlistFields
  <2>. HIDE DEF last
  <2>3. /\ last.sendQueue = s.sendQueue /\ last.msg = s.msg
        /\ last.messageStates = WithoutKeys(s.messageStates, {old})
        /\ IF m = Gateway THEN last.events = s.events ELSE OneMore(s, last, m, Event("COMMAND_TIMEOUT", None))
    BY <2>1, <2>2 DEF SameMessages, OneMore
  <2>4. KeyedByNumber(last)
    BY <2>3 DEF KeyedByNumber, Placed, WithoutKeys, Restrict
  <2>5. \A c : Active(last, c) => Active(s, c)
    BY <2>3 DEF Active, Listed, Range, WithoutKeys, Restrict
  <2>6. QueuedOnce(last) /\ \A c : Queued(last, c) <=> Queued(s, c)
    BY <2>3 DEF Queued, QueuedOnce, Placed
  <2>7. m \in Commands => ~Active(last, m)
    <3>1. m \in Commands => \A k \in DOMAIN s.messageStates : s.messageStates[k] = m => k = old
      BY DEF Placed, KeyedByNumber
    <3>2. m \in Commands => m \notin Listed(last)
      BY <2>3, <3>1 DEF Listed, Range, WithoutKeys, Restrict
    <3>. QED BY <1>3, <2>3, <3>2 DEF Active
  <2>8. Placed(last) /\ \A c \in Commands \ {m} : Untouched(s, c) => Untouched(last, c)
    <3>1. CASE m = Gateway
      <4>1. \A c : FirstAt(last, c) = FirstAt(s, c)
        BY <2>3, <3>1 DEF FirstAt
      <4>. QED BY <2>4, <2>5, <2>6, <4>1, PlacedLess DEF NoNews
    <3>2. CASE m # Gateway
      BY <2>3, <2>4, <2>5, <2>6, <2>7, <3>2, PlacedReported
    <3>. QED BY <3>1, <3>2
  <2>9. Placed(SendQueuedMessage(last)) /\ NoNews(last, SendQueuedMessage(last))
    BY <2>2, <2>8, SendQueuedMessagePlaced
  <2>. QED BY <1>1, <1>3, <2>8, <2>9 DEF NoNews, t
<1>. QED BY <1>2, <1>3

\* Deleting an entry leaves less under way.
LEMMA UnlistedPlaced ==
  ASSUME NEW s, NEW t, NEW key, Placed(s), t.sendQueue = s.sendQueue, t.events = s.events,
         t.messageStates = WithoutKeys(s.messageStates, {key}), t.msg = s.msg
  PROVE  Placed(t) /\ NoNews(s, t)
<1>1. KeyedByNumber(t) /\ \A c : Active(t, c) => Active(s, c)
  BY DEF KeyedByNumber, Placed, Active, Listed, Range, WithoutKeys, Restrict
<1>2. \A c : FirstAt(t, c) = FirstAt(s, c)
  BY DEF FirstAt
<1>. QED BY <1>1, <1>2, PlacedSameQueue

\* An answer is the one answer of its message, or the message goes out again.
LEMMA HandleResultPlaced ==
  ASSUME NEW s, SessionOK(s), NEW key \in DOMAIN s.messageStates, NEW from \in Messages, NEW failed \in BOOLEAN,
         Placed(s)
  PROVE  LET t == HandleResult(s, key, from, failed) IN Placed(t) /\ NoNews(s, t)
<1>. DEFINE m == s.messageStates[key]
            a == Answered(s, key, from)
            r == Refused(s, m)
            u == Unlist(s, key)
            f == FirstResult(a, m)
            t == HandleResult(s, key, from, failed)
<1>1. /\ m \in Messages /\ SessionOK(a)
      /\ a.sendQueue = s.sendQueue /\ a.messageStates = WithoutKeys(s.messageStates, {key})
      /\ a.msg[m].timeout = "none" /\ a.msg[m].sequence = s.msg[m].sequence
      /\ \A x \in Messages \ {m} : a.msg[x] = s.msg[x]
      /\ IF m = Gateway THEN a.events = s.events ELSE OneMore(s, a, m, Event("RESULT", from))
  <2>1. TookAnswer(s, a, key, m, from)
    BY AnsweredFields
  <2>. HIDE DEF a, m
  <2>. QED BY <2>1 DEF TookAnswer
<1>2. \/ t = u
      \/ t = SendCommandAgain(r, m)
      \/ m \in TwoStageCommands /\ t = f
      \/ t = SendQueuedMessage(a)
  BY HandleResultCases
<1>3. Active(s, m) /\ (m \in Commands => ~Queued(s, m) /\ FirstAt(s, m) = {})
  BY DEF Active, Listed, Range, Placed, InPlace
<1>4. m \in Commands => \A k \in DOMAIN s.messageStates : s.messageStates[k] = m => k = key
  BY DEF Placed, KeyedByNumber
<1>5. /\ SessionOK(u) /\ u.sendQueue = s.sendQueue /\ u.events = s.events
      /\ u.messageStates = WithoutKeys(s.messageStates, {key}) /\ u.msg = s.msg
  BY UnlistOK, UnlistFields
<1>6. /\ SessionOK(r) /\ r.sendQueue = s.sendQueue /\ r.messageStates = s.messageStates /\ r.events = s.events
      /\ r.msg[m].timeout = "none" /\ r.msg[m].sequence = s.msg[m].sequence
      /\ \A x \in Messages \ {m} : r.msg[x] = s.msg[x]
  BY <1>1, RefusedFields
<1>. DEFINE kept == s.messageStates
<1>7. kept = s.messageStates
  OBVIOUS
<1>. HIDE DEF m, a, r, u, t, kept
<1>8. Placed(u) /\ NoNews(s, u)
  BY <1>5, UnlistedPlaced
<1>9. Placed(SendCommandAgain(r, m)) /\ NoNews(s, SendCommandAgain(r, m))
  <2>1. \A c \in Commands : Active(r, c) => Active(s, c)
    <3>. SUFFICES ASSUME NEW c \in Commands, Active(r, c) PROVE Active(s, c)
      OBVIOUS
    <3>1. CASE c = m
      BY <1>3, <3>1
    <3>2. CASE c # m
      BY <1>6, <3>2 DEF Active, Listed, Range, Messages
    <3>. QED BY <3>1, <3>2
  <2>2. KeyedByNumber(r)
    <3>. SUFFICES ASSUME NEW k \in DOMAIN r.messageStates, r.messageStates[k] \in Commands
                  PROVE  r.msg[r.messageStates[k]].sequence = k
      BY DEF KeyedByNumber
    <3>1. s.msg[s.messageStates[k]].sequence = k
      BY <1>6 DEF Placed, KeyedByNumber
    <3>. QED BY <1>6, <3>1 DEF Messages
  <2>3. \A c : FirstAt(r, c) = FirstAt(s, c) /\ (Queued(r, c) <=> Queued(s, c))
    BY <1>6 DEF FirstAt, Queued
  <2>4. Placed(r) /\ NoNews(s, r)
    BY <1>6, <2>1, <2>2, <2>3, PlacedSameQueue
  <2>5. /\ Placed(SendCommandAgain(r, m))
        /\ \A c \in Commands \ {m} : Untouched(r, c) => Untouched(SendCommandAgain(r, m), c)
    BY <1>1, <1>3, <1>6, <2>3, <2>4, SendCommandAgainPlaced
  <2>. QED BY <1>3, <2>4, <2>5 DEF NoNews, Untouched
<1>10. Placed(a) /\ NoNews(s, a)
  <2>1. \A c \in Commands \ {m} : Active(a, c) => Active(s, c)
    BY <1>1 DEF Active, Listed, Range, Messages, WithoutKeys, Restrict
  <2>2. m \in Commands => ~Active(a, m)
    BY <1>1, <1>4 DEF Active, Listed, Range, WithoutKeys, Restrict
  <2>3. KeyedByNumber(a)
    <3>. SUFFICES ASSUME NEW k \in DOMAIN a.messageStates, a.messageStates[k] \in Commands
                  PROVE  a.msg[a.messageStates[k]].sequence = k
      BY DEF KeyedByNumber
    <3>1. k \in DOMAIN s.messageStates /\ a.messageStates[k] = s.messageStates[k]
      BY <1>1 DEF WithoutKeys, Restrict
    <3>2. s.msg[s.messageStates[k]].sequence = k
      BY <3>1 DEF Placed, KeyedByNumber
    <3>. QED BY <1>1, <3>1, <3>2 DEF Messages
  <2>4. QueuedOnce(a) /\ \A c : Queued(a, c) <=> Queued(s, c)
    BY <1>1 DEF Queued, QueuedOnce, Placed
  <2>5. \A c \in Commands : Active(a, c) => Active(s, c)
    BY <1>3, <2>1
  <2>6. CASE m = Gateway
    <3>1. \A c : FirstAt(a, c) = FirstAt(s, c)
      BY <1>1, <2>6 DEF FirstAt
    <3>. QED BY <2>3, <2>4, <2>5, <3>1, PlacedLess
  <2>7. CASE m # Gateway
    <3>1. Placed(a) /\ \A c \in Commands \ {m} : Untouched(s, c) => Untouched(a, c)
      BY <1>1, <1>3, <2>2, <2>3, <2>4, <2>5, <2>7, PlacedReported
    <3>. QED BY <1>3, <3>1 DEF NoNews, Untouched
  <2>. QED BY <2>6, <2>7
<1>11. Placed(f) /\ NoNews(s, f)
  <2>1. SameMessages(a, f) /\ f.sendQueue = a.sendQueue /\ f.events = a.events
    BY <1>1, FirstResultFields
  <2>. HIDE DEF f
  <2>2. \A c : FirstAt(f, c) = FirstAt(a, c)
    BY <2>1 DEF FirstAt
  <2>3. Placed(f) /\ NoNews(a, f)
    BY <1>10, <2>1, <2>2, SameActive, PlacedSameQueue DEF Placed
  <2>. QED BY <1>10, <2>3 DEF NoNews
<1>12. Placed(SendQueuedMessage(a)) /\ NoNews(s, SendQueuedMessage(a))
  BY <1>1, <1>10, SendQueuedMessagePlaced DEF NoNews
<1>. QED BY <1>2, <1>8, <1>9, <1>11, <1>12 DEF t

\* The end of the handshake answers nothing.
LEMMA HandshakeOverPlaced ==
  ASSUME NEW s, SessionOK(s), NEW sequence, Placed(s)
  PROVE  LET t == HandshakeOver(s, sequence) IN Placed(t) /\ NoNews(s, t)
<1>. DEFINE g == GivenBack(s, sequence)
<1>1. /\ SessionOK(g) /\ HandshakeOver(s, sequence) = SendQueuedMessage(g)
      /\ g.sendQueue = s.sendQueue /\ g.events = s.events
      /\ g.messageStates = WithoutKeys(s.messageStates, {sequence}) /\ g.msg = s.msg
  BY GivenBackFields
<1>. HIDE DEF g
<1>2. Placed(g) /\ NoNews(s, g)
  BY <1>1, UnlistedPlaced
<1>. QED BY <1>1, <1>2, SendQueuedMessagePlaced DEF NoNews

\* Filtering the queue queues nothing.
LEMMA FilteredQueued ==
  ASSUME NEW s, SessionOK(s), NEW t, t.sendQueue = WithoutPings(s.sendQueue), QueuedOnce(s)
  PROVE  QueuedOnce(t) /\ \A c : Queued(t, c) => Queued(s, c)
<1>1. s.sendQueue \in Seq([command : Messages, aged : BOOLEAN])
  BY DEF SessionOK, QueueOK
<1>2. /\ \A k \in DOMAIN t.sendQueue :
           KeptAt(s.sendQueue, k) \in DOMAIN s.sendQueue /\ t.sendQueue[k] = s.sendQueue[KeptAt(s.sendQueue, k)]
      /\ \A k, l \in DOMAIN t.sendQueue : KeptAt(s.sendQueue, k) = KeptAt(s.sendQueue, l) => k = l
  BY <1>1, WithoutPingsType
<1>3. QueuedOnce(t)
  <2>. SUFFICES ASSUME NEW i \in DOMAIN t.sendQueue, NEW j \in DOMAIN t.sendQueue,
                       t.sendQueue[i].command = t.sendQueue[j].command, t.sendQueue[i].command \in Commands
                PROVE  i = j
    BY DEF QueuedOnce
  <2>1. KeptAt(s.sendQueue, i) = KeptAt(s.sendQueue, j)
    BY <1>2 DEF QueuedOnce
  <2>. QED BY <1>2, <2>1
<1>4. \A c : Queued(t, c) => Queued(s, c)
  BY <1>2 DEF Queued
<1>. QED BY <1>3, <1>4

\* Timers are stopped for what is listed; nothing else changes.
LEMMA ClearedActive ==
  ASSUME NEW s, SessionOK(s), NEW t, t.msg = ClearTimeouts(s.msg, Listed(s))
  PROVE  /\ \A c \in Messages : t.msg[c].sequence = s.msg[c].sequence
         /\ \A c \in Messages : t.msg[c].timeout # "none" => s.msg[c].timeout # "none"
BY DEF ClearTimeouts, SessionOK, MessagesOK, MessageState

\* Forgetting the connection answers nothing.
LEMMA DisconnectedPlaced ==
  ASSUME NEW s, SessionOK(s), Placed(s)
  PROVE  /\ Placed(Disconnected(s)) /\ NoNews(s, Disconnected(s))
         /\ Placed(Initialize(s)) /\ NoNews(s, Initialize(s))
<1>1. ASSUME NEW t, t.messageStates = NoEntries, t.msg = ClearTimeouts(s.msg, Listed(s)), t.events = s.events,
             QueuedOnce(t), \A c : Queued(t, c) => Queued(s, c)
      PROVE  Placed(t) /\ NoNews(s, t)
  <2>1. Listed(t) = {} /\ KeyedByNumber(t)
    BY <1>1 DEF Listed, Range, KeyedByNumber, NoEntries
  <2>2. \A c \in Commands : Active(t, c) => Active(s, c)
    BY <1>1, <2>1, ClearedActive DEF Active, Messages
  <2>3. \A c : FirstAt(t, c) = FirstAt(s, c)
    BY <1>1 DEF FirstAt
  <2>. QED BY <1>1, <2>1, <2>2, <2>3, PlacedLess
<1>2. Placed(Disconnected(s)) /\ NoNews(s, Disconnected(s))
  <2>. DEFINE t == Disconnected(s)
  <2>1. /\ t.messageStates = NoEntries /\ t.msg = ClearTimeouts(s.msg, Listed(s)) /\ t.events = s.events
        /\ t.sendQueue = WithoutPings(s.sendQueue)
    BY DisconnectedFields
  <2>. HIDE DEF t
  <2>2. QueuedOnce(t) /\ \A c : Queued(t, c) => Queued(s, c)
    BY <2>1, FilteredQueued DEF Placed
  <2>. QED BY <1>1, <2>1, <2>2 DEF t
<1>3. Placed(Initialize(s)) /\ NoNews(s, Initialize(s))
  <2>. DEFINE t == Initialize(s)
  <2>1. /\ t.messageStates = NoEntries /\ t.msg = ClearTimeouts(s.msg, Listed(s)) /\ t.events = s.events
        /\ t.sendQueue = s.sendQueue
    BY InitializeFields
  <2>. HIDE DEF t
  <2>2. QueuedOnce(t) /\ \A c : Queued(t, c) => Queued(s, c)
    BY <2>1 DEF QueuedOnce, Queued, Placed
  <2>. QED BY <1>1, <2>1, <2>2 DEF t
<1>. QED BY <1>2, <1>3

\* Nothing was done yet with what the application did not issue.
AllPlaced == Placed(session) /\ \A c \in Commands \ Range(issued) : Untouched(session, c)

\* Putting one sequence behind another.
LEMMA ConcatFacts ==
  ASSUME NEW E, NEW front \in Seq(E), NEW back \in Seq(E)
  PROVE  /\ DOMAIN (front \o back) = 1 .. Len(front) + Len(back)
         /\ \A i \in 1 .. Len(front) + Len(back) :
              (front \o back)[i] = IF i <= Len(front) THEN front[i] ELSE back[i - Len(front)]
OBVIOUS

\* The handshake goes out before what waited, and what waited stays in place behind it.
LEMMA EstablishPlaced ==
  ASSUME TypeOK, Placed(session), Establish
  PROVE  Placed(session') /\ NoNews(session, session')
<1>1. PICK g, a, q :
        /\ SessionOK(g) /\ g.connected /\ SameMessages(session, g) /\ g.events = session.events
        /\ g.sendQueue = <<[command |-> Gateway, aged |-> FALSE]>>
        /\ a = SendQueuedMessage(g) /\ SessionOK(a)
        /\ SessionOK(q) /\ SameButQueue(a, q) /\ q.sendQueue = a.sendQueue \o session.sendQueue
        /\ session' = SendQueuedMessage(q)
  BY EstablishStep
<1>2. \A i \in DOMAIN g.sendQueue : g.sendQueue[i].command = Gateway
  BY <1>1
<1>3. QueuedOnce(g) /\ \A c \in Commands : ~Queued(g, c)
  BY <1>2, CommandAssumption DEF QueuedOnce, Queued
<1>4. (\A c : Active(g, c) <=> Active(session, c)) /\ KeyedByNumber(g)
  BY <1>1, SameActive DEF Placed
<1>5. \A c : FirstAt(g, c) = FirstAt(session, c)
  BY <1>1 DEF FirstAt
<1>6. Placed(g)
  BY <1>3, <1>4, <1>5, PlacedLess
<1>7. Placed(a) /\ NoNews(g, a)
  BY <1>1, <1>6, SendQueuedMessagePlaced
<1>8. \A c \in Commands : ~Active(session, c) /\ FirstAt(session, c) = {} => Untouched(a, c)
  BY <1>3, <1>4, <1>5, <1>7 DEF NoNews, Untouched
<1>9. \A i \in DOMAIN a.sendQueue : a.sendQueue[i].command = Gateway
  <2>1. Idle(g, a) \/ Asked(g, a) \/ TookHead(g, a)
    BY <1>1, SendQueuedMessageFields
  <2>2. Tail(<<[command |-> Gateway, aged |-> FALSE]>>) = <<>>
    OBVIOUS
  <2>3. a.sendQueue = g.sendQueue \/ a.sendQueue = <<>>
    BY <1>1, <2>1, <2>2 DEF Idle, Asked, TookHead
  <2>. QED BY <1>2, <2>3
<1>10. a.sendQueue \in Seq([command : Messages, aged : BOOLEAN]) /\ session.sendQueue \in Seq([command : Messages, aged : BOOLEAN])
  BY <1>1 DEF TypeOK, SessionOK, QueueOK
<1>. DEFINE n == Len(a.sendQueue)
<1>11. /\ n \in Nat /\ DOMAIN session.sendQueue = 1 .. Len(session.sendQueue) /\ Len(session.sendQueue) \in Nat
       /\ DOMAIN q.sendQueue = 1 .. n + Len(session.sendQueue)
       /\ \A i \in 1 .. n : q.sendQueue[i].command = Gateway
       /\ \A i \in n + 1 .. n + Len(session.sendQueue) : q.sendQueue[i] = session.sendQueue[i - n]
  <2>1. n \in Nat /\ DOMAIN a.sendQueue = 1 .. n
    BY <1>10
  <2>2. DOMAIN session.sendQueue = 1 .. Len(session.sendQueue) /\ Len(session.sendQueue) \in Nat
    BY <1>10
  <2>3. /\ DOMAIN q.sendQueue = 1 .. n + Len(session.sendQueue)
        /\ \A i \in 1 .. n + Len(session.sendQueue) :
             q.sendQueue[i] = IF i <= n THEN a.sendQueue[i] ELSE session.sendQueue[i - n]
    <3>. DEFINE E == [command : Messages, aged : BOOLEAN]
                p == a.sendQueue
                r == session.sendQueue
    <3>1. q.sendQueue = p \o r /\ p \in Seq(E) /\ r \in Seq(E)
      BY <1>1, <1>10
    <3>. HIDE DEF E, p, r
    <3>2. /\ DOMAIN (p \o r) = 1 .. Len(p) + Len(r)
          /\ \A i \in 1 .. Len(p) + Len(r) : (p \o r)[i] = IF i <= Len(p) THEN p[i] ELSE r[i - Len(p)]
      BY <3>1, ConcatFacts
    <3>. QED BY <3>1, <3>2 DEF p, r
  <2>. HIDE DEF n
  <2>4. \A i \in 1 .. n : q.sendQueue[i].command = Gateway
    BY <1>9, <2>1, <2>2, <2>3, SMTT(40)
  <2>5. \A i \in n + 1 .. n + Len(session.sendQueue) : q.sendQueue[i] = session.sendQueue[i - n]
    BY <2>1, <2>2, <2>3
  <2>. QED BY <2>1, <2>2, <2>3, <2>4, <2>5
<1>. HIDE DEF n
<1>12. \A i \in DOMAIN q.sendQueue : q.sendQueue[i].command \in Commands =>
         i - n \in DOMAIN session.sendQueue /\ q.sendQueue[i] = session.sendQueue[i - n]
  <2>. SUFFICES ASSUME NEW i \in DOMAIN q.sendQueue, q.sendQueue[i].command \in Commands
                PROVE  i - n \in DOMAIN session.sendQueue /\ q.sendQueue[i] = session.sendQueue[i - n]
    OBVIOUS
  <2>1. i \notin 1 .. n
    BY <1>11, CommandAssumption
  <2>. QED BY <1>11, <2>1
<1>13. QueuedOnce(q)
  <2>. SUFFICES ASSUME NEW i \in DOMAIN q.sendQueue, NEW j \in DOMAIN q.sendQueue,
                       q.sendQueue[i].command = q.sendQueue[j].command, q.sendQueue[i].command \in Commands
                PROVE  i = j
    BY DEF QueuedOnce
  <2>1. i - n = j - n
    BY <1>12 DEF Placed, QueuedOnce
  <2>. QED BY <1>11, <2>1
<1>14. \A c \in Commands : Queued(q, c) => Queued(session, c)
  BY <1>12 DEF Queued
<1>15. (\A c : Active(q, c) <=> Active(a, c)) /\ KeyedByNumber(q)
  BY <1>1, <1>7, SameActive DEF Placed, SameButQueue
<1>16. \A c : FirstAt(q, c) = FirstAt(a, c)
  BY <1>1 DEF FirstAt, SameButQueue
<1>17. ASSUME NEW c \in Commands PROVE InPlace(q, c)
  <2>1. CASE Queued(session, c)
    <3>1. Untouched(a, c)
      BY <1>8, <2>1 DEF Placed, InPlace
    <3>. QED BY <1>15, <1>16, <3>1 DEF InPlace, Untouched
  <2>2. CASE ~Queued(session, c)
    BY <1>7, <1>14, <1>15, <1>16, <2>2 DEF InPlace, Placed
  <2>. QED BY <2>1, <2>2
<1>18. Placed(q) /\ NoNews(session, q)
  BY <1>8, <1>13, <1>14, <1>15, <1>16, <1>17 DEF Placed, NoNews, Untouched
<1>. QED BY <1>1, <1>18, SendQueuedMessagePlaced DEF NoNews

\* A command issued for the first time finds nothing done with it.
LEMMA IssuePlaced ==
  ASSUME TypeOK, AllPlaced, NEW c \in Commands, IssueCommand(c)
  PROVE  Placed(session') /\ \A d \in Commands \ Range(issued') : Untouched(session', d)
<1>1. c \notin Range(issued) /\ issued' = Append(issued, c)
  BY IssueStep
<1>2. PICK q : /\ SessionOK(q) /\ SameButQueue(session, q)
               /\ q.sendQueue = Append(session.sendQueue, [command |-> c, aged |-> FALSE])
               /\ session' = SendQueuedMessage(q)
  BY IssueStep
<1>3. issued \in Seq(Commands) /\ session.sendQueue \in Seq([command : Messages, aged : BOOLEAN])
  BY DEF TypeOK, SessionOK, QueueOK
<1>4. Range(issued') = Range(issued) \cup {c}
  <2>1. /\ DOMAIN issued = 1 .. Len(issued) /\ Len(issued) \in Nat /\ DOMAIN issued' = 1 .. Len(issued) + 1
        /\ issued'[Len(issued) + 1] = c /\ \A i \in 1 .. Len(issued) : issued'[i] = issued[i]
    BY <1>1, <1>3
  <2>2. \A i \in DOMAIN issued' : i = Len(issued) + 1 \/ i \in DOMAIN issued
    BY <2>1
  <2>3. Len(issued) + 1 \in DOMAIN issued' /\ \A i \in DOMAIN issued : i \in DOMAIN issued'
    BY <2>1
  <2>. QED BY <2>1, <2>2, <2>3 DEF Range
<1>. DEFINE n == Len(session.sendQueue)
<1>5. /\ n \in Nat /\ DOMAIN session.sendQueue = 1 .. n /\ DOMAIN q.sendQueue = 1 .. n + 1
      /\ q.sendQueue[n + 1].command = c /\ \A i \in 1 .. n : q.sendQueue[i] = session.sendQueue[i]
  BY <1>2, <1>3
<1>. HIDE DEF n
<1>6. Untouched(session, c)
  BY <1>1 DEF AllPlaced
<1>7. \A i \in DOMAIN session.sendQueue : session.sendQueue[i].command # c
  BY <1>6 DEF Untouched, Queued
<1>8. QueuedOnce(q)
  <2>. SUFFICES ASSUME NEW i \in DOMAIN q.sendQueue, NEW j \in DOMAIN q.sendQueue,
                       q.sendQueue[i].command = q.sendQueue[j].command, q.sendQueue[i].command \in Commands
                PROVE  i = j
    BY DEF QueuedOnce
  <2>1. CASE i \in 1 .. n /\ j \in 1 .. n
    BY <1>5, <2>1 DEF QueuedOnce, AllPlaced, Placed
  <2>2. CASE i = n + 1 /\ j \in 1 .. n
    <3>1. q.sendQueue[j] = session.sendQueue[j] /\ j \in DOMAIN session.sendQueue /\ q.sendQueue[i].command = c
      BY <1>5, <2>2
    <3>. QED BY <1>7, <3>1
  <2>3. CASE j = n + 1 /\ i \in 1 .. n
    <3>1. q.sendQueue[i] = session.sendQueue[i] /\ i \in DOMAIN session.sendQueue /\ q.sendQueue[j].command = c
      BY <1>5, <2>3
    <3>. QED BY <1>7, <3>1
  <2>. QED BY <1>5, <2>1, <2>2, <2>3
<1>9. \A d \in Commands \ {c} : Queued(q, d) <=> Queued(session, d)
  <2>1. \A i \in DOMAIN q.sendQueue : i = n + 1 \/ i \in DOMAIN session.sendQueue
    BY <1>5
  <2>2. \A i \in DOMAIN session.sendQueue : i \in DOMAIN q.sendQueue
    BY <1>5
  <2>. QED BY <1>5, <2>1, <2>2 DEF Queued
<1>10. (\A d : Active(q, d) <=> Active(session, d)) /\ KeyedByNumber(q)
  BY <1>2, SameActive DEF AllPlaced, Placed, SameButQueue
<1>11. \A d : FirstAt(q, d) = FirstAt(session, d)
  BY <1>2 DEF FirstAt, SameButQueue
<1>12. ASSUME NEW d \in Commands PROVE InPlace(q, d)
  <2>1. CASE d = c
    BY <1>6, <1>10, <1>11, <2>1 DEF InPlace, Untouched
  <2>2. CASE d # c
    BY <1>9, <1>10, <1>11, <2>2 DEF InPlace, AllPlaced, Placed
  <2>. QED BY <2>1, <2>2
<1>13. Placed(q) /\ \A d \in Commands \ Range(issued') : Untouched(q, d)
  BY <1>4, <1>8, <1>9, <1>10, <1>11, <1>12 DEF Placed, AllPlaced, Untouched
<1>. QED BY <1>2, <1>13, SendQueuedMessagePlaced DEF NoNews

\* Every other step finds the commands in their places and leaves them there.
LEMMA OthersPlaced ==
  ASSUME TypeOK, Placed(session), Next, \A c \in Commands : ~IssueCommand(c)
  PROVE  Placed(session') /\ NoNews(session, session')
<1>0. SessionOK(session) /\ session.msg \in [Messages -> MessageState]
  BY DEF TypeOK, SessionOK, MessagesOK
<1>1. ASSUME NEW q, SameMessages(session, q), q.sendQueue = session.sendQueue,
             \A c \in Commands : FirstAt(q, c) = FirstAt(session, c)
      PROVE  Placed(q) /\ NoNews(session, q)
  BY <1>1, SameActive, PlacedSameQueue DEF Placed
<1>2. ASSUME session' = session PROVE Placed(session') /\ NoNews(session, session')
  BY <1>2 DEF NoNews
<1>4. CASE Connect
  <2>1. SameMessages(session, session') /\ session'.sendQueue = session.sendQueue /\ session'.events = session.events
    BY <1>4, ConnectStep DEF Asked
  <2>. QED BY <1>1, <2>1 DEF FirstAt
<1>5. CASE Close
  <2>1. PICK q : /\ SessionOK(q) /\ q.messageStates = session.messageStates /\ q.events = session.events
                 /\ q.msg = ClearTimeouts(session.msg, Listed(session)) /\ q.sendQueue = <<>>
                 /\ session' = IF session.connected THEN q ELSE Initialize(q)
    BY <1>5, CloseStep
  <2>2. QueuedOnce(q) /\ \A c : ~Queued(q, c)
    BY <2>1 DEF QueuedOnce, Queued
  <2>3. KeyedByNumber(q)
    <3>. SUFFICES ASSUME NEW k \in DOMAIN q.messageStates, q.messageStates[k] \in Commands
                  PROVE  q.msg[q.messageStates[k]].sequence = k
      BY DEF KeyedByNumber
    <3>1. session.msg[session.messageStates[k]].sequence = k
      BY <2>1 DEF Placed, KeyedByNumber
    <3>. QED BY <1>0, <2>1, <3>1, ClearedActive DEF Messages
  <2>4. \A c \in Commands : Active(q, c) => Active(session, c)
    <3>1. \A c \in Messages : q.msg[c].timeout # "none" => session.msg[c].timeout # "none"
      BY <1>0, <2>1, ClearedActive
    <3>2. Listed(q) = Listed(session)
      BY <2>1 DEF Listed
    <3>. QED BY <3>1, <3>2 DEF Active, Messages
  <2>5. \A c : FirstAt(q, c) = FirstAt(session, c)
    BY <2>1 DEF FirstAt
  <2>6. Placed(q) /\ NoNews(session, q)
    BY <2>2, <2>3, <2>4, <2>5, PlacedLess
  <2>7. Placed(Initialize(q)) /\ NoNews(q, Initialize(q))
    BY <2>1, <2>6, DisconnectedPlaced
  <2>. QED BY <2>1, <2>6, <2>7 DEF NoNews
<1>6. CASE CloseEnd \/ Disconnect
  <2>1. session' = Disconnected(session)
    BY <1>6 DEF CloseEnd, Disconnect
  <2>. QED BY <1>0, <2>1, DisconnectedPlaced
<1>7. CASE Establish
  BY <1>7, EstablishPlaced
<1>8. CASE Age
  <2>1. /\ SameButQueue(session, session') /\ DOMAIN session'.sendQueue = DOMAIN session.sendQueue
        /\ \A i \in DOMAIN session.sendQueue : session'.sendQueue[i].command = session.sendQueue[i].command
    BY <1>8, AgeStep
  <2>2. QueuedOnce(session') /\ \A c : Queued(session', c) => Queued(session, c)
    BY <2>1 DEF QueuedOnce, Queued, Placed
  <2>3. (\A c : Active(session', c) <=> Active(session, c)) /\ KeyedByNumber(session')
    BY <2>1, SameActive DEF SameButQueue, Placed
  <2>4. \A c : FirstAt(session', c) = FirstAt(session, c)
    BY <2>1 DEF SameButQueue, FirstAt
  <2>. QED BY <2>2, <2>3, <2>4, PlacedLess
<1>9. CASE \E datagram \in session.sent : StationTakes(datagram[1], datagram[2])
  BY <1>2, <1>9 DEF StationTakes
<1>10. ASSUME NEW sequence \in station.seen, HandleAck(sequence)
       PROVE  Placed(session') /\ NoNews(session, session')
  <2>. DEFINE m == session.messageStates[sequence]
  <2>1. sequence \in DOMAIN session.messageStates /\ m \in Messages
    BY <1>10, AckStep
  <2>2. PICK q : /\ SessionOK(q) /\ q.sendQueue = session.sendQueue /\ q.events = session.events
                 /\ \A x \in Messages \ {m} : q.msg[x] = session.msg[x]
                 /\ q.msg[m].sequence = session.msg[m].sequence
                 /\ q.messageStates = (IF m \in Pings THEN WithoutKeys(session.messageStates, {sequence})
                                                      ELSE session.messageStates)
                 /\ session' = SendQueuedMessage(q)
    BY <1>10, AckStep
  <2>3. Active(session, m)
    BY <2>1 DEF Active, Listed, Range
  <2>4. /\ \A k \in DOMAIN q.messageStates :
             k \in DOMAIN session.messageStates /\ q.messageStates[k] = session.messageStates[k]
        /\ Listed(q) \subseteq Listed(session)
    BY <2>2 DEF WithoutKeys, Restrict, Listed, Range
  <2>. HIDE DEF m
  <2>5. \A x \in Messages : q.msg[x].sequence = session.msg[x].sequence
    BY <2>2
  <2>6. KeyedByNumber(q)
    BY <2>4, <2>5 DEF KeyedByNumber, Placed, Messages
  <2>7. \A c \in Commands : Active(q, c) => Active(session, c)
    BY <2>2, <2>3, <2>4 DEF Active, Messages
  <2>8. \A c : FirstAt(q, c) = FirstAt(session, c)
    BY <2>2 DEF FirstAt
  <2>9. Placed(q) /\ NoNews(session, q)
    BY <2>2, <2>6, <2>7, <2>8, PlacedSameQueue
  <2>. QED BY <2>2, <2>9, SendQueuedMessagePlaced DEF NoNews
<1>11. CASE HandleData
  <2>. DEFINE number == session.results % (MAX_SEQUENCE_NUMBER + 1)
              good == MappedSequence(session, number)
              key == IF good = 0 THEN number ELSE good
              answer == station.answers[session.results + 1]
  <2>1. answer.from \in Messages /\ answer.failed \in BOOLEAN
    BY <1>11, DataStep
  <2>2. PICK q : /\ SessionOK(q) /\ SameMessages(session, q)
                 /\ q.sendQueue = session.sendQueue /\ q.events = session.events
                 /\ session' = (IF key \in DOMAIN session.messageStates
                                  THEN HandleResult(q, key, answer.from, answer.failed) ELSE q)
    BY <1>11, DataStep
  <2>. HIDE DEF answer, key
  <2>3. Placed(q) /\ NoNews(session, q)
    BY <1>1, <2>2 DEF FirstAt
  <2>4. CASE key \in DOMAIN session.messageStates
    <3>1. key \in DOMAIN q.messageStates
      BY <2>2, <2>4 DEF SameMessages
    <3>. DEFINE t == HandleResult(q, key, answer.from, answer.failed)
    <3>2. Placed(t) /\ NoNews(q, t)
      BY <2>1, <2>2, <2>3, <3>1, HandleResultPlaced
    <3>3. session' = t
      BY <2>2, <2>4
    <3>. HIDE DEF t
    <3>. QED BY <2>3, <3>2, <3>3 DEF NoNews
  <2>. QED BY <2>2, <2>3, <2>4
<1>12. CASE HandleGatewayInfo
  BY <1>2, <1>12 DEF HandleGatewayInfo
<1>13. ASSUME NEW connection \in 1 .. MaxConnections, CipherAnswers(connection)
       PROVE  Placed(session') /\ NoNews(session, session')
  <2>. DEFINE ms == {session.messageStates[k] : k \in {0} \cap DOMAIN session.messageStates}
  <2>1. PICK q : /\ SessionOK(q) /\ q.sendQueue = session.sendQueue /\ q.events = session.events
                 /\ q.messageStates = session.messageStates /\ q.msg = ClearTimeouts(session.msg, ms)
                 /\ session' = HandshakeOver(q, 0)
    BY <1>13, CipherStep
  <2>. HIDE DEF ms
  <2>2. \A x \in Messages : /\ q.msg[x].sequence = session.msg[x].sequence
                            /\ q.msg[x].timeout # "none" => session.msg[x].timeout # "none"
    BY <1>0, <2>1 DEF ClearTimeouts, MessageState
  <2>3. KeyedByNumber(q)
    BY <2>1, <2>2 DEF KeyedByNumber, Placed, Messages
  <2>4. \A c \in Commands : Active(q, c) => Active(session, c)
    BY <2>1, <2>2 DEF Active, Listed, Messages
  <2>5. \A c : FirstAt(q, c) = FirstAt(session, c)
    BY <2>1 DEF FirstAt
  <2>6. Placed(q) /\ NoNews(session, q)
    BY <2>1, <2>3, <2>4, <2>5, PlacedSameQueue
  <2>. QED BY <2>1, <2>6, HandshakeOverPlaced DEF NoNews
<1>14. CASE HandleSecondResult
  <2>. DEFINE from == Head(station.second)
              m == session.customDataStaging[CommandType[from]]
  <2>1. from \in Commands
    BY <1>14, SecondStep
  <2>2. PICK q : /\ SessionOK(q) /\ SameMessages(session, q) /\ q.sendQueue = session.sendQueue
                 /\ \/ q.events = session.events
                    \/ m \in Messages /\ OneMore(session, q, m, Event("SECOND_RESULT", from))
                 /\ session' = SendQueuedMessage(q)
    BY <1>14, SecondStep
  <2>. HIDE DEF m, from
  <2>3. Event("SECOND_RESULT", from).code \notin FirstCodes
    BY <2>1, CodesOK DEF FirstCodes, Messages
  <2>4. \A c \in Commands : FirstAt(q, c) = FirstAt(session, c)
    <3>1. CASE q.events = session.events
      BY <3>1 DEF FirstAt
    <3>2. CASE m \in Messages /\ OneMore(session, q, m, Event("SECOND_RESULT", from))
      BY <1>0, <2>3, <3>2, FirstMore DEF Messages
    <3>. QED BY <2>2, <3>1, <3>2
  <2>5. Placed(q) /\ NoNews(session, q)
    BY <1>1, <2>2, <2>4
  <2>. QED BY <2>2, <2>5, SendQueuedMessagePlaced DEF NoNews
<1>15. ASSUME NEW m \in Messages, AckTimeout(m) PROVE Placed(session') /\ NoNews(session, session')
  <2>1. session.msg[m].timeout = "ack"
    BY <1>15, AckTimeoutStep
  <2>2. PICK q : /\ SessionOK(q) /\ q.sendQueue = session.sendQueue /\ q.events = session.events
                 /\ q.messageStates = session.messageStates /\ q.msg = [session.msg EXCEPT ![m].timeout = "none"]
                 /\ session' = SendCommandAgain(q, m)
    BY <1>15, AckTimeoutStep
  <2>3. Active(session, m) /\ (m \in Commands => ~Queued(session, m) /\ FirstAt(session, m) = {})
    BY <2>1 DEF Active, Placed, InPlace
  <2>4. \A x \in Messages : /\ q.msg[x].sequence = session.msg[x].sequence
                            /\ q.msg[x].timeout # "none" => session.msg[x].timeout # "none"
    BY <1>0, <2>2 DEF MessageState
  <2>5. q.msg[m].timeout = "none"
    BY <1>0, <2>2 DEF MessageState
  <2>6. KeyedByNumber(q)
    BY <2>2, <2>4 DEF KeyedByNumber, Placed, Messages
  <2>7. \A c \in Commands : Active(q, c) => Active(session, c)
    BY <2>2, <2>4 DEF Active, Listed, Messages
  <2>8. \A c : FirstAt(q, c) = FirstAt(session, c) /\ (Queued(q, c) <=> Queued(session, c))
    BY <2>2 DEF FirstAt, Queued
  <2>9. Placed(q) /\ NoNews(session, q)
    BY <2>2, <2>6, <2>7, <2>8, PlacedSameQueue
  <2>10. /\ Placed(SendCommandAgain(q, m))
         /\ \A c \in Commands \ {m} : Untouched(q, c) => Untouched(SendCommandAgain(q, m), c)
    BY <2>2, <2>3, <2>5, <2>8, <2>9, SendCommandAgainPlaced
  <2>. QED BY <2>2, <2>3, <2>9, <2>10 DEF NoNews, Untouched
<1>16. ASSUME NEW m \in Messages, ResultTimeout(m) PROVE Placed(session') /\ NoNews(session, session')
  <2>. DEFINE old == session.msg[m].sequence
  <2>1. session.msg[m].timeout = "result"
    BY <1>16, ResultTimeoutStep
  <2>2. PICK q : /\ SessionOK(q) /\ q.sendQueue = session.sendQueue
                 /\ q.msg = [session.msg EXCEPT ![m].timeout = "none"]
                 /\ \/ /\ m = Gateway /\ q.messageStates = session.messageStates /\ q.events = session.events
                       /\ session' = HandshakeOver(q, old)
                    \/ /\ m # Gateway /\ q.messageStates = WithoutKeys(session.messageStates, {old})
                       /\ OneMore(session, q, m, Event("COMMAND_TIMEOUT", None))
                       /\ session' = SendQueuedMessage(q)
    BY <1>16, ResultTimeoutStep
  <2>3. Active(session, m) /\ (m \in Commands => ~Queued(session, m) /\ FirstAt(session, m) = {})
    BY <2>1 DEF Active, Placed, InPlace
  <2>4. \A x \in Messages : /\ q.msg[x].sequence = session.msg[x].sequence
                            /\ q.msg[x].timeout # "none" => session.msg[x].timeout # "none"
    BY <1>0, <2>2 DEF MessageState
  <2>5. q.msg[m].timeout = "none"
    BY <1>0, <2>2 DEF MessageState
  <2>6. \A k \in DOMAIN session.messageStates : session.messageStates[k] = m /\ m \in Commands => k = old
    BY DEF Placed, KeyedByNumber
  <2>. HIDE DEF old
  <2>7. /\ \A k \in DOMAIN q.messageStates :
             k \in DOMAIN session.messageStates /\ q.messageStates[k] = session.messageStates[k]
        /\ Listed(q) \subseteq Listed(session)
    BY <2>2 DEF WithoutKeys, Restrict, Listed, Range
  <2>8. KeyedByNumber(q)
    BY <2>4, <2>7 DEF KeyedByNumber, Placed, Messages
  <2>9. \A c \in Commands : Active(q, c) => Active(session, c)
    BY <2>4, <2>7 DEF Active, Messages
  <2>10. QueuedOnce(q) /\ \A c : Queued(q, c) <=> Queued(session, c)
    BY <2>2 DEF Queued, QueuedOnce, Placed
  <2>11. CASE m = Gateway
    <3>1. q.events = session.events /\ session' = HandshakeOver(q, old)
      BY <2>2, <2>11
    <3>2. \A c : FirstAt(q, c) = FirstAt(session, c)
      BY <3>1 DEF FirstAt
    <3>3. Placed(q) /\ NoNews(session, q)
      BY <2>8, <2>9, <2>10, <3>2, PlacedLess
    <3>. QED BY <2>2, <3>1, <3>3, HandshakeOverPlaced DEF NoNews
  <2>12. CASE m # Gateway
    <3>1. /\ q.messageStates = WithoutKeys(session.messageStates, {old})
          /\ OneMore(session, q, m, Event("COMMAND_TIMEOUT", None)) /\ session' = SendQueuedMessage(q)
      BY <2>2, <2>12
    <3>2. m \in Commands
      BY <2>12 DEF Messages
    <3>3. ~Active(q, m)
      BY <2>5, <2>6, <3>1, <3>2 DEF Active, Listed, Range, WithoutKeys, Restrict
    <3>4. Placed(q) /\ \A c \in Commands \ {m} : Untouched(session, c) => Untouched(q, c)
      BY <1>0, <2>3, <2>8, <2>9, <2>10, <3>1, <3>3, PlacedReported
    <3>5. NoNews(session, q)
      BY <2>3, <3>4 DEF NoNews, Untouched
    <3>. QED BY <2>2, <3>1, <3>4, <3>5, SendQueuedMessagePlaced DEF NoNews
  <2>. QED BY <2>11, <2>12
<1>17. ASSUME NEW m \in Commands, SecondaryTimeout(m) PROVE Placed(session') /\ NoNews(session, session')
  <2>1. PICK q : /\ SessionOK(q) /\ SameMessages(session, q) /\ q.sendQueue = session.sendQueue
                 /\ OneMore(session, q, m, Event("SECONDARY_TIMEOUT", None)) /\ session' = SendQueuedMessage(q)
    BY <1>17, SecondaryTimeoutStep
  <2>2. Event("SECONDARY_TIMEOUT", None).code \notin FirstCodes
    BY CodesOK DEF FirstCodes
  <2>3. \A c \in Commands : FirstAt(q, c) = FirstAt(session, c)
    BY <1>0, <2>1, <2>2, FirstMore DEF Messages
  <2>4. Placed(q) /\ NoNews(session, q)
    BY <1>1, <2>1, <2>3
  <2>. QED BY <2>1, <2>4, SendQueuedMessagePlaced DEF NoNews
<1>. QED BY <1>4, <1>5, <1>6, <1>7, <1>8, <1>9, <1>10, <1>11, <1>12, <1>13, <1>14, <1>15, <1>16, <1>17 DEF Next

LEMMA InitPlaced == Init => AllPlaced
<1>. SUFFICES ASSUME Init PROVE AllPlaced
  OBVIOUS
<1>1. /\ session.sendQueue = <<>> /\ session.messageStates = NoEntries
      /\ session.msg = [m \in Messages |-> FreshMessage] /\ session.events = [m \in Messages |-> <<>>]
  BY DEF Init
<1>2. Listed(session) = {} /\ KeyedByNumber(session)
  BY <1>1 DEF NoEntries, Listed, Range, KeyedByNumber
<1>3. \A c \in Commands : ~Active(session, c)
  BY <1>1, <1>2 DEF Active, FreshMessage, Messages
<1>4. \A c \in Commands : FirstAt(session, c) = {}
  BY <1>1 DEF FirstAt, Messages
<1>5. QueuedOnce(session) /\ \A c : ~Queued(session, c)
  BY <1>1 DEF QueuedOnce, Queued
<1>. QED BY <1>2, <1>3, <1>4, <1>5 DEF AllPlaced, Placed, InPlace, Untouched

LEMMA NextPlaced == TypeOK /\ AllPlaced /\ [Next]_vars => AllPlaced'
<1>. SUFFICES ASSUME TypeOK, AllPlaced, [Next]_vars
              PROVE  Placed(session') /\ \A c \in Commands \ Range(issued') : Untouched(session', c)
  BY DEF AllPlaced, Placed, QueuedOnce, KeyedByNumber, InPlace, Untouched, Active, FirstAt, Queued, Listed, Range
<1>1. CASE UNCHANGED vars
  BY <1>1 DEF vars, AllPlaced
<1>2. ASSUME NEW c \in Commands, IssueCommand(c)
      PROVE  Placed(session') /\ \A d \in Commands \ Range(issued') : Untouched(session', d)
  BY <1>2, IssuePlaced
<1>3. CASE Next /\ \A c \in Commands : ~IssueCommand(c)
  <2>1. issued' = issued
    BY <1>3 DEF Next, Connect, Close, CloseEnd, Establish, Disconnect, Age, StationTakes, HandleAck, HandleData,
                HandleGatewayInfo, CipherAnswers, HandleSecondResult, AckTimeout, ResultTimeout, SecondaryTimeout
  <2>2. Placed(session') /\ NoNews(session, session')
    BY <1>3, OthersPlaced DEF AllPlaced
  <2>. QED BY <2>1, <2>2 DEF AllPlaced, NoNews
<1>. QED BY <1>1, <1>2, <1>3

\* The application hears of a command once, be it the result, that the result is missing, or that the
\* command aged out: whatever is lost, late, repeated or reordered, a late answer finds its command gone.
THEOREM CommandsAnsweredOnce == Spec => []OneAnswer
<1>1. AllPlaced => OneAnswer
  <2>. SUFFICES ASSUME AllPlaced, NEW c \in Commands PROVE Cardinality(FirstEvents(c)) <= 1
    BY DEF OneAnswer
  <2>1. FirstEvents(c) = FirstAt(session, c)
    BY DEF FirstEvents, FirstAt, FirstCodes
  <2>2. \A i, j \in FirstEvents(c) : i = j
    BY <2>1 DEF AllPlaced, Placed, InPlace
  <2>. HIDE DEF FirstEvents
  <2>3. CASE FirstEvents(c) = {}
    BY <2>3, FS_EmptySet
  <2>4. CASE FirstEvents(c) # {}
    <3>1. PICK i : FirstEvents(c) = {i}
      BY <2>2, <2>4
    <3>2. Cardinality({i}) = 1
      BY FS_Singleton
    <3>. QED BY <3>1, <3>2
  <2>. QED BY <2>3, <2>4
<1>. HIDE DEF AllPlaced
<1>. QED BY <1>1, InitPlaced, NextPlaced, TypeCorrect, PTL DEF Spec

-----------------------------------------------------------------------------
(* The key is settled before a command leaves *)

\* Without a connection nothing is listed, sent or encrypted; while the handshake is listed it is alone;
\* the handshake never waits in the queue; a key belongs to the connection in use.
Handshaken(s) ==
  /\ ~s.connected => Listed(s) = {} /\ s.sent = {} /\ s.encryption = "NONE"
  /\ ~Queued(s, Gateway)
  /\ Gateway \in Listed(s) => Listed(s) \subseteq {Gateway} /\ \A datagram \in s.sent : datagram[2] = Gateway
  /\ s.encryption # "NONE" => s.p2pKey = s.connection

\* getCipher works for the connection in use, or not at all.
KeySound ==
  /\ Handshaken(session)
  /\ ciphers \subseteq {session.connection}
  /\ closing \/ ~session.connected => ciphers = {}

\* Less is listed and queued, the rest is the same.
LEMMA HandshakenLess ==
  ASSUME NEW s, NEW t, Handshaken(s), SameLink(s, t), t.sent = s.sent,
         Listed(t) \subseteq Listed(s), Queued(t, Gateway) => Queued(s, Gateway)
  PROVE  Handshaken(t)
BY DEF Handshaken, SameLink

\* sendQueuedMessage sends nothing while the handshake is listed.
LEMMA SendQueuedMessageHandshaken ==
  ASSUME NEW s, SessionOK(s), Handshaken(s)
  PROVE  LET t == SendQueuedMessage(s)
         IN Handshaken(t) /\ t.connected = s.connected /\ t.connection = s.connection
<1>. DEFINE t == SendQueuedMessage(s)
            m == Head(s.sendQueue).command
<1>1. Idle(s, t) \/ Asked(s, t) \/ TookHead(s, t)
  BY SendQueuedMessageFields
<1>. HIDE DEF t
<1>2. CASE Idle(s, t)
  BY <1>2 DEF Idle, t
<1>3. CASE Asked(s, t)
  <2>1. Listed(t) = Listed(s) /\ t.sent = s.sent /\ (Queued(t, Gateway) <=> Queued(s, Gateway))
    BY <1>3 DEF Asked, SameMessages, Listed, Queued
  <2>. QED BY <1>3, <2>1 DEF Asked, Handshaken, t
<1>4. CASE TookHead(s, t)
  <2>1. /\ s.connected /\ s.sendQueue # <<>> /\ t.sendQueue = Tail(s.sendQueue)
        /\ ReportedAged(s, t, m) \/ SentFresh(s, t, m)
    BY <1>4 DEF TookHead
  <2>2. Gateway \notin Listed(s)
    BY <1>4 DEF TookHead, WaitingAcknowledge
  <2>3. \A c : Queued(t, c) => Queued(s, c)
    <3>1. s.sendQueue \in Seq([command : Messages, aged : BOOLEAN])
      BY DEF SessionOK, QueueOK
    <3>2. \A i \in DOMAIN t.sendQueue : i + 1 \in DOMAIN s.sendQueue /\ t.sendQueue[i] = s.sendQueue[i + 1]
      BY <2>1, <3>1
    <3>. QED BY <3>2 DEF Queued
  <2>4. m # Gateway
    <3>1. 1 \in DOMAIN s.sendQueue /\ Head(s.sendQueue) = s.sendQueue[1]
      BY <2>1 DEF SessionOK, QueueOK
    <3>. QED BY <3>1 DEF Handshaken, Queued
  <2>. HIDE DEF m
  <2>5. Gateway \notin Listed(t) /\ SameLink(s, t)
    <3>1. CASE ReportedAged(s, t, m)
      BY <2>2, <3>1 DEF ReportedAged, SameMessages, Listed
    <3>2. CASE SentFresh(s, t, m)
      <4>1. t.messageStates = WithEntry(s.messageStates, s.seqNumber, m) /\ SameLink(s, t)
        BY <3>2 DEF SentFresh
      <4>. QED BY <2>2, <2>4, <4>1 DEF Listed, Range, WithEntry
    <3>. QED BY <2>1, <3>1, <3>2
  <2>. QED BY <2>1, <2>3, <2>5 DEF Handshaken, SameLink, t
<1>. QED BY <1>1, <1>2, <1>3, <1>4

\* A listed message goes out again, or it is given up and the queue goes on.
LEMMA SendCommandAgainHandshaken ==
  ASSUME NEW s, SessionOK(s), Handshaken(s), NEW m \in Messages, m \in Listed(s)
  PROVE  LET t == SendCommandAgain(s, m)
         IN Handshaken(t) /\ t.connected = s.connected /\ t.connection = s.connection
<1>. DEFINE over == IF m = Gateway THEN s ELSE Emit(s, m, Event("COMMAND_TIMEOUT", None))
            old == s.msg[m].sequence
            last == Unlist(over, old)
            t == SendCommandAgain(s, m)
<1>1. /\ s.msg[m].retries < MAX_RETRIES => SentAgain(s, t, m)
      /\ ~(s.msg[m].retries < MAX_RETRIES) => t = SendQueuedMessage(last)
  BY SendCommandAgainFields
<1>. HIDE DEF t
<1>2. s.connected
  BY DEF Handshaken
<1>3. CASE s.msg[m].retries < MAX_RETRIES
  <2>. DEFINE number == IF s.msg[m].failed THEN s.seqNumber ELSE s.msg[m].sequence
              others == IF s.msg[m].failed THEN WithoutKeys(s.messageStates, {s.msg[m].sequence}) ELSE s.messageStates
  <2>1. /\ SameLink(s, t) /\ t.sendQueue = s.sendQueue /\ t.messageStates = WithEntry(others, number, m)
        /\ t.sent = s.sent \cup {<<number, m>>}
    BY <1>1, <1>2, <1>3 DEF SentAgain
  <2>2. Range(others) \subseteq Listed(s)
    BY DEF Listed, Range, WithoutKeys, Restrict
  <2>. HIDE DEF number, others
  <2>3. Listed(t) \subseteq Listed(s)
    BY <2>1, <2>2 DEF Listed, Range, WithEntry
  <2>4. ~Queued(t, Gateway)
    BY <2>1 DEF Handshaken, Queued
  <2>5. Gateway \in Listed(t) => /\ Listed(t) \subseteq {Gateway}
                                 /\ \A datagram \in t.sent : datagram[2] = Gateway
    <3>. SUFFICES ASSUME Gateway \in Listed(t)
                  PROVE  Listed(t) \subseteq {Gateway} /\ \A datagram \in t.sent : datagram[2] = Gateway
      OBVIOUS
    <3>1. m = Gateway
      BY <2>3 DEF Handshaken
    <3>2. <<number, m>>[2] = m
      OBVIOUS
    <3>. QED BY <2>1, <2>3, <3>1, <3>2 DEF Handshaken
  <2>. QED BY <1>2, <2>1, <2>4, <2>5 DEF Handshaken, SameLink, t
<1>4. CASE ~(s.msg[m].retries < MAX_RETRIES)
  <2>1. SessionOK(over) /\ SameLink(s, over) /\ over.sendQueue = s.sendQueue /\ SameMessages(s, over)
    BY CodesOK, EmitOK, EmitFields DEF SameMessages, SameLink
  <2>. HIDE DEF over
  <2>2. /\ SessionOK(last) /\ SameLink(over, last) /\ last.sendQueue = over.sendQueue /\ last.sent = over.sent
        /\ last.messageStates = WithoutKeys(over.messageStates, {old})
    BY <2>1, UnlistOK, UnlistFields
  <2>. HIDE DEF last
  <2>3. SameLink(s, last) /\ last.sendQueue = s.sendQueue /\ last.sent = s.sent
        /\ last.messageStates = WithoutKeys(s.messageStates, {old})
    BY <2>1, <2>2 DEF SameMessages, SameLink
  <2>4. Listed(last) \subseteq Listed(s) /\ (Queued(last, Gateway) <=> Queued(s, Gateway))
    BY <2>3 DEF Listed, Range, WithoutKeys, Restrict, Queued
  <2>5. Handshaken(last)
    BY <2>3, <2>4, HandshakenLess
  <2>6. Handshaken(SendQueuedMessage(last)) /\ SendQueuedMessage(last).connected = last.connected
        /\ SendQueuedMessage(last).connection = last.connection
    BY <2>2, <2>5, SendQueuedMessageHandshaken
  <2>. QED BY <1>1, <1>4, <2>3, <2>6 DEF SameLink, t
<1>. QED BY <1>3, <1>4

\* An answer lists nothing new.
LEMMA HandleResultHandshaken ==
  ASSUME NEW s, SessionOK(s), NEW key \in DOMAIN s.messageStates, NEW from \in Messages, NEW failed \in BOOLEAN,
         Handshaken(s)
  PROVE  LET t == HandleResult(s, key, from, failed)
         IN Handshaken(t) /\ t.connected = s.connected /\ t.connection = s.connection
<1>. DEFINE m == s.messageStates[key]
            a == Answered(s, key, from)
            r == Refused(s, m)
            u == Unlist(s, key)
            f == FirstResult(a, m)
            t == HandleResult(s, key, from, failed)
<1>1. /\ m \in Messages /\ SessionOK(a) /\ SameLink(s, a) /\ a.sendQueue = s.sendQueue /\ a.sent = s.sent
      /\ a.messageStates = WithoutKeys(s.messageStates, {key})
  BY AnsweredFields DEF TookAnswer
<1>2. \/ t = u
      \/ t = SendCommandAgain(r, m)
      \/ m \in TwoStageCommands /\ t = f
      \/ t = SendQueuedMessage(a)
  BY HandleResultCases
<1>3. m \in Listed(s)
  BY DEF Listed, Range
<1>4. /\ SameLink(s, u) /\ u.sendQueue = s.sendQueue /\ u.sent = s.sent
      /\ u.messageStates = WithoutKeys(s.messageStates, {key})
  BY UnlistFields
<1>5. /\ SessionOK(r) /\ SameLink(s, r) /\ r.sendQueue = s.sendQueue /\ r.sent = s.sent
      /\ r.messageStates = s.messageStates
  BY <1>1, RefusedFields
<1>6. SameLink(a, f) /\ f.sendQueue = a.sendQueue /\ SameMessages(a, f)
  BY <1>1, FirstResultFields
<1>. HIDE DEF m, a, r, u, t, f
<1>7. Handshaken(u)
  <2>1. Listed(u) \subseteq Listed(s) /\ (Queued(u, Gateway) <=> Queued(s, Gateway))
    BY <1>4 DEF Listed, Range, WithoutKeys, Restrict, Queued
  <2>. QED BY <1>4, <2>1, HandshakenLess
<1>8. Handshaken(r) /\ m \in Listed(r)
  <2>1. Listed(r) = Listed(s) /\ (Queued(r, Gateway) <=> Queued(s, Gateway))
    BY <1>5 DEF Listed, Queued
  <2>. QED BY <1>3, <1>5, <2>1, HandshakenLess
<1>9. Handshaken(a)
  <2>1. Listed(a) \subseteq Listed(s) /\ (Queued(a, Gateway) <=> Queued(s, Gateway))
    BY <1>1 DEF Listed, Range, WithoutKeys, Restrict, Queued
  <2>. QED BY <1>1, <2>1, HandshakenLess
<1>10. Handshaken(f)
  <2>1. Listed(f) = Listed(a) /\ (Queued(f, Gateway) <=> Queued(a, Gateway)) /\ f.sent = a.sent
    BY <1>6 DEF SameMessages, Listed, Queued
  <2>. QED BY <1>6, <1>9, <2>1, HandshakenLess
<1>11. CASE t = u
  BY <1>4, <1>7, <1>11 DEF SameLink, t
<1>12. CASE t = SendCommandAgain(r, m)
  <2>1. /\ Handshaken(SendCommandAgain(r, m)) /\ SendCommandAgain(r, m).connected = r.connected
        /\ SendCommandAgain(r, m).connection = r.connection
    BY <1>1, <1>5, <1>8, SendCommandAgainHandshaken
  <2>. QED BY <1>5, <1>12, <2>1 DEF SameLink, t
<1>13. CASE t = f
  BY <1>1, <1>6, <1>10, <1>13 DEF SameLink, t
<1>14. CASE t = SendQueuedMessage(a)
  <2>1. /\ Handshaken(SendQueuedMessage(a)) /\ SendQueuedMessage(a).connected = a.connected
        /\ SendQueuedMessage(a).connection = a.connection
    BY <1>1, <1>9, SendQueuedMessageHandshaken
  <2>. QED BY <1>1, <1>14, <2>1 DEF SameLink, t
<1>. QED BY <1>2, <1>11, <1>12, <1>13, <1>14

\* The end of the handshake lists nothing.
LEMMA HandshakeOverHandshaken ==
  ASSUME NEW s, SessionOK(s), NEW sequence, Handshaken(s)
  PROVE  LET t == HandshakeOver(s, sequence)
         IN Handshaken(t) /\ t.connected = s.connected /\ t.connection = s.connection
<1>. DEFINE g == GivenBack(s, sequence)
<1>1. /\ SessionOK(g) /\ HandshakeOver(s, sequence) = SendQueuedMessage(g)
      /\ SameLink(s, g) /\ g.sendQueue = s.sendQueue /\ g.sent = s.sent
      /\ g.messageStates = WithoutKeys(s.messageStates, {sequence})
  BY GivenBackFields
<1>. HIDE DEF g
<1>2. Listed(g) \subseteq Listed(s) /\ (Queued(g, Gateway) <=> Queued(s, Gateway))
  BY <1>1 DEF Listed, Range, WithoutKeys, Restrict, Queued
<1>3. Handshaken(g)
  BY <1>1, <1>2, HandshakenLess
<1>4. /\ Handshaken(SendQueuedMessage(g)) /\ SendQueuedMessage(g).connected = g.connected
      /\ SendQueuedMessage(g).connection = g.connection
  BY <1>1, <1>3, SendQueuedMessageHandshaken
<1>. QED BY <1>1, <1>4 DEF SameLink

\* After the connection there is nothing.
LEMMA DisconnectedHandshaken ==
  ASSUME NEW s, SessionOK(s), Handshaken(s)
  PROVE  Handshaken(Disconnected(s)) /\ Handshaken(Initialize(s))
<1>1. ASSUME NEW t, ~t.connected, t.messageStates = NoEntries, t.sent = {}, t.encryption = "NONE",
             Queued(t, Gateway) => Queued(s, Gateway)
      PROVE  Handshaken(t)
  <2>1. Listed(t) = {}
    BY <1>1 DEF Listed, Range, NoEntries
  <2>. QED BY <1>1, <2>1 DEF Handshaken
<1>2. Handshaken(Disconnected(s))
  <2>. DEFINE t == Disconnected(s)
  <2>1. /\ ~t.connected /\ t.messageStates = NoEntries /\ t.sent = {} /\ t.encryption = "NONE"
        /\ t.sendQueue = WithoutPings(s.sendQueue)
    BY DisconnectedFields
  <2>. HIDE DEF t
  <2>2. s.sendQueue \in Seq([command : Messages, aged : BOOLEAN])
    BY DEF SessionOK, QueueOK
  <2>3. Queued(t, Gateway) => Queued(s, Gateway)
    BY <2>1, <2>2, WithoutPingsType DEF Queued
  <2>. QED BY <1>1, <2>1, <2>3 DEF t
<1>3. Handshaken(Initialize(s))
  <2>. DEFINE t == Initialize(s)
  <2>1. /\ ~t.connected /\ t.messageStates = NoEntries /\ t.sent = {} /\ t.encryption = "NONE"
        /\ t.sendQueue = s.sendQueue
    BY InitializeFields
  <2>. HIDE DEF t
  <2>2. Queued(t, Gateway) => Queued(s, Gateway)
    BY <2>1 DEF Queued
  <2>. QED BY <1>1, <2>1, <2>2 DEF t
<1>. QED BY <1>2, <1>3

\* A connection begins with the handshake listed alone.
LEMMA EstablishHandshaken ==
  ASSUME TypeOK, KeySound, Establish
  PROVE  Handshaken(session') /\ ciphers' = {}
<1>1. /\ ~session.connected /\ ciphers' = ciphers
      /\ Listed(session) = {} /\ session.sent = {} /\ session.encryption = "NONE" /\ ~Queued(session, Gateway)
      /\ ciphers = {}
  BY EstablishStep DEF KeySound, Handshaken
<1>2. PICK g, a, q :
        /\ SessionOK(g) /\ g.connected /\ SameMessages(session, g) /\ g.encryption = session.encryption
        /\ g.sendQueue = <<[command |-> Gateway, aged |-> FALSE]>>
        /\ a = SendQueuedMessage(g) /\ SessionOK(a)
        /\ SessionOK(q) /\ SameButQueue(a, q) /\ q.sendQueue = a.sendQueue \o session.sendQueue
        /\ session' = SendQueuedMessage(q)
  BY EstablishStep
<1>3. /\ g.sendQueue # <<>> /\ Head(g.sendQueue).command = Gateway /\ ~Head(g.sendQueue).aged
      /\ Tail(g.sendQueue) = <<>>
  BY <1>2
<1>4. Listed(g) = {} /\ g.sent = {} /\ ~WaitingAcknowledge(g)
  BY <1>1, <1>2 DEF SameMessages, Listed, WaitingAcknowledge
<1>5. a.sendQueue = <<>> /\ SentFresh(g, a, Gateway)
  <2>1. Idle(g, a) \/ Asked(g, a) \/ TookHead(g, a)
    BY <1>2, SendQueuedMessageFields
  <2>2. TookHead(g, a)
    BY <1>2, <1>3, <1>4, <2>1 DEF Idle, Asked
  <2>. QED BY <1>3, <2>2 DEF TookHead
<1>6. /\ a.connected /\ a.encryption = "NONE" /\ a.sent = {<<g.seqNumber, Gateway>>}
      /\ a.messageStates = WithEntry(g.messageStates, g.seqNumber, Gateway)
  BY <1>1, <1>2, <1>4, <1>5 DEF SentFresh, SameLink
<1>7. Listed(a) = {Gateway}
  BY <1>4, <1>6 DEF Listed, Range, WithEntry
<1>8. q.sendQueue = session.sendQueue
  <2>1. session.sendQueue \in Seq([command : Messages, aged : BOOLEAN])
    BY DEF TypeOK, SessionOK, QueueOK
  <2>2. \A r \in Seq([command : Messages, aged : BOOLEAN]) : <<>> \o r = r
    OBVIOUS
  <2>. QED BY <1>2, <1>5, <2>1, <2>2
<1>9. q.connected /\ q.encryption = "NONE" /\ q.sent = {<<g.seqNumber, Gateway>>} /\ Listed(q) = {Gateway}
  BY <1>2, <1>6, <1>7 DEF SameButQueue, SameLink, SameMessages, Listed
<1>10. Handshaken(q)
  <2>1. ~Queued(q, Gateway)
    BY <1>1, <1>8 DEF Queued
  <2>. QED BY <1>9, <2>1 DEF Handshaken
<1>. QED BY <1>1, <1>2, <1>10, SendQueuedMessageHandshaken

\* A timer no acknowledgement stops is that of a listed message the station refused, where it may run out.
RetriesListed ==
  "slow_retry" \in Faults =>
    \A m \in Messages : session.msg[m].timeout = "ack" /\ session.msg[m].acknowledged =>
                          m \in Listed(session) /\ session.msg[m].failed

\* Every step keeps the handshake first and the key right, when acknowledgements come in time and no
\* answer of getCipher outlives its connection.
LEMMA NextKeySound ==
  ASSUME {"slow_ack", "stale_cipher"} \cap Faults = {}
  PROVE  TypeOK /\ RetriesListed /\ KeySound /\ [Next]_vars => KeySound'
<1>. SUFFICES ASSUME TypeOK, RetriesListed, KeySound, [Next]_vars
              PROVE  /\ Handshaken(session')
                     /\ ciphers' \subseteq {session'.connection}
                     /\ closing' \/ ~session'.connected => ciphers' = {}
  BY DEF KeySound, Handshaken, Listed, Range, Queued
<1>0. SessionOK(session) /\ Handshaken(session)
  BY DEF TypeOK, KeySound
<1>1. ASSUME Handshaken(session'), session'.connected = session.connected,
             session'.connection = session.connection, UNCHANGED <<ciphers, closing>>
      PROVE  /\ Handshaken(session')
             /\ ciphers' \subseteq {session'.connection}
             /\ closing' \/ ~session'.connected => ciphers' = {}
  BY <1>1 DEF KeySound
<1>2. ASSUME UNCHANGED <<session, ciphers, closing>>
      PROVE  /\ Handshaken(session')
             /\ ciphers' \subseteq {session'.connection}
             /\ closing' \/ ~session'.connected => ciphers' = {}
  BY <1>0, <1>1, <1>2
<1>3. ASSUME NEW c \in Commands, IssueCommand(c)
      PROVE  /\ Handshaken(session')
             /\ ciphers' \subseteq {session'.connection}
             /\ closing' \/ ~session'.connected => ciphers' = {}
  <2>1. UNCHANGED <<ciphers, closing>>
    BY <1>3, IssueStep
  <2>2. PICK q : /\ SessionOK(q) /\ SameButQueue(session, q)
                 /\ q.sendQueue = Append(session.sendQueue, [command |-> c, aged |-> FALSE])
                 /\ session' = SendQueuedMessage(q)
    BY <1>3, IssueStep
  <2>3. session.sendQueue \in Seq([command : Messages, aged : BOOLEAN])
    BY DEF TypeOK, SessionOK, QueueOK
  <2>4. \A i \in DOMAIN q.sendQueue : \/ q.sendQueue[i].command = c
                                      \/ i \in DOMAIN session.sendQueue /\ q.sendQueue[i] = session.sendQueue[i]
    BY <2>2, <2>3
  <2>5. ~Queued(q, Gateway)
    BY <1>0, <2>4, CommandAssumption DEF Queued, Handshaken
  <2>6. SameLink(session, q) /\ q.sent = session.sent /\ Listed(q) = Listed(session)
    BY <2>2 DEF SameButQueue, SameMessages, Listed
  <2>7. Handshaken(q)
    BY <1>0, <2>5, <2>6, HandshakenLess
  <2>8. Handshaken(session') /\ session'.connected = q.connected /\ session'.connection = q.connection
    BY <2>2, <2>7, SendQueuedMessageHandshaken
  <2>. QED BY <1>1, <2>1, <2>6, <2>8 DEF SameLink
<1>4. CASE Connect
  <2>1. Asked(session, session') /\ UNCHANGED <<ciphers, closing>>
    BY <1>4, ConnectStep
  <2>2. Listed(session') = Listed(session) /\ session'.sent = session.sent /\ ~Queued(session', Gateway)
    BY <1>0, <2>1 DEF Asked, SameMessages, Listed, Queued, Handshaken
  <2>3. Handshaken(session')
    BY <1>0, <2>1, <2>2 DEF Asked, Handshaken
  <2>. QED BY <1>1, <2>1, <2>3 DEF Asked
<1>5. CASE Close
  <2>1. ciphers = {} /\ UNCHANGED ciphers
    BY <1>5, CloseStep
  <2>2. PICK q : /\ SessionOK(q) /\ SameLink(session, q) /\ q.messageStates = session.messageStates
                 /\ q.sent = session.sent /\ q.sendQueue = <<>>
                 /\ session' = IF session.connected THEN q ELSE Initialize(q)
    BY <1>5, CloseStep
  <2>3. Listed(q) = Listed(session) /\ ~Queued(q, Gateway)
    BY <2>2 DEF Listed, Queued
  <2>4. Handshaken(q)
    BY <1>0, <2>2, <2>3, HandshakenLess
  <2>5. Handshaken(Initialize(q))
    BY <2>2, <2>4, DisconnectedHandshaken
  <2>. QED BY <2>1, <2>2, <2>4, <2>5
<1>6. CASE CloseEnd \/ Disconnect
  <2>1. session' = Disconnected(session) /\ ciphers = {} /\ UNCHANGED ciphers
    BY <1>6 DEF CloseEnd, Disconnect, KeySound
  <2>. QED BY <1>0, <2>1, DisconnectedHandshaken
<1>7. CASE Establish
  BY <1>7, EstablishHandshaken
<1>8. CASE Age
  <2>1. /\ SameButQueue(session, session') /\ DOMAIN session'.sendQueue = DOMAIN session.sendQueue
        /\ \A i \in DOMAIN session.sendQueue : session'.sendQueue[i].command = session.sendQueue[i].command
        /\ UNCHANGED <<ciphers, closing>>
    BY <1>8, AgeStep
  <2>2. Listed(session') = Listed(session) /\ (Queued(session', Gateway) => Queued(session, Gateway))
    BY <2>1 DEF SameButQueue, SameMessages, Listed, Queued
  <2>3. Handshaken(session')
    BY <1>0, <2>1, <2>2, HandshakenLess DEF SameButQueue, SameMessages
  <2>. QED BY <1>1, <2>1, <2>3 DEF SameButQueue, SameLink
<1>9. CASE \E datagram \in session.sent : StationTakes(datagram[1], datagram[2])
  BY <1>2, <1>9 DEF StationTakes
<1>10. ASSUME NEW sequence \in station.seen, HandleAck(sequence)
       PROVE  /\ Handshaken(session')
              /\ ciphers' \subseteq {session'.connection}
              /\ closing' \/ ~session'.connected => ciphers' = {}
  <2>1. UNCHANGED <<ciphers, closing>>
    BY <1>10, AckStep
  <2>2. PICK q : /\ SessionOK(q) /\ SameLink(session, q) /\ q.sendQueue = session.sendQueue
                 /\ q.sent = session.sent
                 /\ q.messageStates = (IF session.messageStates[sequence] \in Pings
                                         THEN WithoutKeys(session.messageStates, {sequence})
                                         ELSE session.messageStates)
                 /\ session' = SendQueuedMessage(q)
    BY <1>10, AckStep
  <2>3. Listed(q) \subseteq Listed(session) /\ (Queued(q, Gateway) <=> Queued(session, Gateway))
    BY <2>2 DEF Listed, Range, WithoutKeys, Restrict, Queued
  <2>4. Handshaken(q)
    BY <1>0, <2>2, <2>3, HandshakenLess
  <2>5. Handshaken(session') /\ session'.connected = q.connected /\ session'.connection = q.connection
    BY <2>2, <2>4, SendQueuedMessageHandshaken
  <2>. QED BY <1>1, <2>1, <2>2, <2>5 DEF SameLink
<1>11. CASE HandleData
  <2>. DEFINE number == session.results % (MAX_SEQUENCE_NUMBER + 1)
              good == MappedSequence(session, number)
              key == IF good = 0 THEN number ELSE good
              answer == station.answers[session.results + 1]
  <2>1. answer.from \in Messages /\ answer.failed \in BOOLEAN /\ UNCHANGED <<ciphers, closing>>
    BY <1>11, DataStep
  <2>2. PICK q : /\ SessionOK(q) /\ SameLink(session, q) /\ SameMessages(session, q)
                 /\ q.sendQueue = session.sendQueue
                 /\ session' = (IF key \in DOMAIN session.messageStates
                                  THEN HandleResult(q, key, answer.from, answer.failed) ELSE q)
    BY <1>11, DataStep
  <2>. HIDE DEF answer, key
  <2>3. Listed(q) = Listed(session) /\ q.sent = session.sent /\ (Queued(q, Gateway) <=> Queued(session, Gateway))
    BY <2>2 DEF SameMessages, Listed, Queued
  <2>4. Handshaken(q)
    BY <1>0, <2>2, <2>3, HandshakenLess
  <2>5. CASE key \in DOMAIN session.messageStates
    <3>1. key \in DOMAIN q.messageStates
      BY <2>2, <2>5 DEF SameMessages
    <3>. DEFINE t == HandleResult(q, key, answer.from, answer.failed)
    <3>2. Handshaken(t) /\ t.connected = q.connected /\ t.connection = q.connection
      BY <2>1, <2>2, <2>4, <3>1, HandleResultHandshaken
    <3>3. session' = t
      BY <2>2, <2>5
    <3>. HIDE DEF t
    <3>. QED BY <1>1, <2>1, <2>2, <3>2, <3>3 DEF SameLink
  <2>6. CASE key \notin DOMAIN session.messageStates
    BY <1>1, <2>1, <2>2, <2>4, <2>6 DEF SameLink
  <2>. QED BY <2>5, <2>6
<1>12. CASE HandleGatewayInfo
  BY <1>0, <1>12 DEF HandleGatewayInfo, KeySound
<1>13. ASSUME NEW connection \in 1 .. MaxConnections, CipherAnswers(connection)
       PROVE  /\ Handshaken(session')
              /\ ciphers' \subseteq {session'.connection}
              /\ closing' \/ ~session'.connected => ciphers' = {}
  <2>1. connection \in ciphers /\ ciphers' = ciphers \ {connection} /\ UNCHANGED closing
    BY <1>13, CipherStep
  <2>2. connection = session.connection /\ session.connected /\ ciphers' = {}
    BY <2>1 DEF KeySound
  <2>3. PICK q : /\ SessionOK(q) /\ q.connected = session.connected /\ q.connection = session.connection
                 /\ q.p2pKey = connection /\ q.sendQueue = session.sendQueue
                 /\ q.messageStates = session.messageStates /\ q.sent = session.sent
                 /\ session' = HandshakeOver(q, 0)
    BY <1>13, CipherStep
  <2>4. Listed(q) = Listed(session) /\ (Queued(q, Gateway) <=> Queued(session, Gateway))
    BY <2>3 DEF Listed, Queued
  <2>5. Handshaken(q)
    BY <1>0, <2>2, <2>3, <2>4 DEF Handshaken
  <2>6. Handshaken(session')
    BY <2>3, <2>5, HandshakeOverHandshaken
  <2>. QED BY <2>2, <2>6
<1>14. CASE HandleSecondResult
  <2>1. UNCHANGED <<ciphers, closing>>
    BY <1>14, SecondStep
  <2>2. PICK q : /\ SessionOK(q) /\ SameLink(session, q) /\ SameMessages(session, q)
                 /\ q.sendQueue = session.sendQueue /\ session' = SendQueuedMessage(q)
    BY <1>14, SecondStep
  <2>3. Listed(q) = Listed(session) /\ q.sent = session.sent /\ (Queued(q, Gateway) <=> Queued(session, Gateway))
    BY <2>2 DEF SameMessages, Listed, Queued
  <2>4. Handshaken(q)
    BY <1>0, <2>2, <2>3, HandshakenLess
  <2>5. Handshaken(session') /\ session'.connected = q.connected /\ session'.connection = q.connection
    BY <2>2, <2>4, SendQueuedMessageHandshaken
  <2>. QED BY <1>1, <2>1, <2>2, <2>5 DEF SameLink
<1>15. ASSUME NEW m \in Messages, AckTimeout(m)
       PROVE  /\ Handshaken(session')
              /\ ciphers' \subseteq {session'.connection}
              /\ closing' \/ ~session'.connected => ciphers' = {}
  <2>1. m \in Listed(session) /\ UNCHANGED <<ciphers, closing>>
    BY <1>15 DEF AckTimeout, RetriesListed
  <2>2. PICK q : /\ SessionOK(q) /\ SameLink(session, q) /\ q.sendQueue = session.sendQueue
                 /\ q.messageStates = session.messageStates /\ q.sent = session.sent
                 /\ session' = SendCommandAgain(q, m)
    BY <1>15, AckTimeoutStep
  <2>3. Listed(q) = Listed(session) /\ (Queued(q, Gateway) <=> Queued(session, Gateway))
    BY <2>2 DEF Listed, Queued
  <2>4. Handshaken(q)
    BY <1>0, <2>2, <2>3, HandshakenLess
  <2>5. Handshaken(session') /\ session'.connected = q.connected /\ session'.connection = q.connection
    BY <2>1, <2>2, <2>3, <2>4, SendCommandAgainHandshaken
  <2>. QED BY <1>1, <2>1, <2>2, <2>5 DEF SameLink
<1>16. ASSUME NEW m \in Messages, ResultTimeout(m)
       PROVE  /\ Handshaken(session')
              /\ ciphers' \subseteq {session'.connection}
              /\ closing' \/ ~session'.connected => ciphers' = {}
  <2>. DEFINE old == session.msg[m].sequence
  <2>1. UNCHANGED <<ciphers, closing>>
    BY <1>16, ResultTimeoutStep
  <2>2. PICK q : /\ SessionOK(q) /\ SameLink(session, q) /\ q.sendQueue = session.sendQueue
                 /\ q.sent = session.sent
                 /\ \/ q.messageStates = session.messageStates /\ session' = HandshakeOver(q, old)
                    \/ /\ q.messageStates = WithoutKeys(session.messageStates, {old})
                       /\ session' = SendQueuedMessage(q)
    BY <1>16, ResultTimeoutStep
  <2>. HIDE DEF old
  <2>3. Listed(q) \subseteq Listed(session) /\ (Queued(q, Gateway) <=> Queued(session, Gateway))
    BY <2>2 DEF Listed, Range, WithoutKeys, Restrict, Queued
  <2>4. Handshaken(q)
    BY <1>0, <2>2, <2>3, HandshakenLess
  <2>5. Handshaken(session') /\ session'.connected = q.connected /\ session'.connection = q.connection
    BY <2>2, <2>4, SendQueuedMessageHandshaken, HandshakeOverHandshaken
  <2>. QED BY <1>1, <2>1, <2>2, <2>5 DEF SameLink
<1>17. ASSUME NEW m \in Commands, SecondaryTimeout(m)
       PROVE  /\ Handshaken(session')
              /\ ciphers' \subseteq {session'.connection}
              /\ closing' \/ ~session'.connected => ciphers' = {}
  <2>1. UNCHANGED <<ciphers, closing>>
    BY <1>17, SecondaryTimeoutStep
  <2>2. PICK q : /\ SessionOK(q) /\ SameLink(session, q) /\ SameMessages(session, q)
                 /\ q.sendQueue = session.sendQueue /\ session' = SendQueuedMessage(q)
    BY <1>17, SecondaryTimeoutStep
  <2>3. Listed(q) = Listed(session) /\ q.sent = session.sent /\ (Queued(q, Gateway) <=> Queued(session, Gateway))
    BY <2>2 DEF SameMessages, Listed, Queued
  <2>4. Handshaken(q)
    BY <1>0, <2>2, <2>3, HandshakenLess
  <2>5. Handshaken(session') /\ session'.connected = q.connected /\ session'.connection = q.connection
    BY <2>2, <2>4, SendQueuedMessageHandshaken
  <2>. QED BY <1>1, <2>1, <2>2, <2>5 DEF SameLink
<1>18. CASE UNCHANGED vars
  BY <1>2, <1>18 DEF vars
<1>. QED BY <1>3, <1>4, <1>5, <1>6, <1>7, <1>8, <1>9, <1>10, <1>11, <1>12, <1>13, <1>14, <1>15, <1>16, <1>17, <1>18
         DEF Next

LEMMA InitKeySound == Init => KeySound
<1>. SUFFICES ASSUME Init PROVE KeySound
  OBVIOUS
<1>1. /\ session.sendQueue = <<>> /\ session.messageStates = NoEntries /\ session.sent = {}
      /\ session.encryption = "NONE" /\ ciphers = {}
  BY DEF Init
<1>2. Listed(session) = {} /\ ~Queued(session, Gateway)
  BY <1>1 DEF NoEntries, Listed, Range, Queued
<1>. QED BY <1>1, <1>2 DEF KeySound, Handshaken

\* No command leaves before the handshake of its connection settled the key, and the key in use was
\* negotiated on the connection in use, whatever is lost, reordered or late, as long as an acknowledgement,
\* and the result of a message that was refused and sent again, come within MAX_AKNOWLEDGE_TIMEOUT, and
\* getCipher answers before its connection breaks: without the first the handshake is sent again behind
\* commands, without the last the key is another connection's. (RetriesLeaveEncrypted is about late results
\* of messages that were sent again.)
THEOREM CommandsLeaveEncrypted ==
  ASSUME {"slow_ack", "slow_retry", "stale_cipher"} \cap Faults = {}
  PROVE  Spec => []KeyAgreed
<1>1. KeySound => KeyAgreed
  BY DEF KeySound, Handshaken, KeyAgreed, HandshakeFirst, KeyOfThisConnection
<1>2. TypeOK /\ KeySound /\ [Next]_vars => KeySound'
  BY NextKeySound DEF RetriesListed
<1>. HIDE DEF KeySound
<1>. QED BY <1>1, <1>2, InitKeySound, TypeCorrect, PTL DEF Spec

-----------------------------------------------------------------------------
(* The station executes in the order of the application *)

\* The sequence number of the connection has not come round yet.
FirstLap == session.seqNumber < MAX_SEQUENCE_NUMBER

\* c was issued before d.
Precedes(issues, c, d) == \A a, b \in DOMAIN issues : issues[a] = c /\ issues[b] = d => a < b
WasSent(s, c) == \E datagram \in s.sent : datagram[2] = c

\* A number is given once in a connection, and what is listed was sent under its number.
NumberedOnce(s) ==
  /\ \A d \in s.sent : d[1] < s.seqNumber
  /\ \A d, e \in s.sent : d[1] = e[1] => d = e
  /\ \A k \in DOMAIN s.messageStates : <<k, s.messageStates[k]>> \in s.sent
  /\ ~s.connected => s.sent = {} /\ s.seqNumber = 0

\* What waits waits in order, and behind everything that was sent or executed.
QueueInOrder(s, issues, done) ==
  /\ \A i, j \in DOMAIN s.sendQueue : i < j => Precedes(issues, s.sendQueue[i].command, s.sendQueue[j].command)
  /\ \A j \in DOMAIN s.sendQueue : \A c \in Commands :
       c \in done \/ WasSent(s, c) => Precedes(issues, c, s.sendQueue[j].command)

\* A datagram ahead of all those of another message carries an earlier command; what was taken was
\* executed; and what was executed precedes what was not.
SentInOrder(s, seen, issues, done) ==
  /\ \A n \in seen : n < s.seqNumber
  /\ \A d \in s.sent : d[1] \in seen /\ d[2] \in Commands \ PingCommands => d[2] \in done
  /\ \A d, e \in s.sent :
       d[2] # Gateway /\ d[2] # e[2] /\ (\A f \in s.sent : f[2] = e[2] => d[1] < f[1])
       => Precedes(issues, d[2], e[2])
  /\ \A d \in s.sent : \A c \in done :
       d[2] \in Commands \ (PingCommands \cup done) /\ d[1] \notin seen => Precedes(issues, c, d[2])

Ordered(s, seen, issues, done) ==
  NumberedOnce(s) /\ QueueInOrder(s, issues, done) /\ SentInOrder(s, seen, issues, done)

LEMMA SentOK ==
  ASSUME NEW s, SessionOK(s)
  PROVE  /\ \A d \in s.sent : d[1] \in Nat /\ d[2] \in Messages
         /\ s.seqNumber \in Nat /\ s.seqNumber <= MAX_SEQUENCE_NUMBER
BY NumberAssumption DEF SessionOK, MessagesOK, NumbersOK, SeqNos

\* Nothing is sent and less is listed.
LEMMA OrderedSame ==
  ASSUME NEW s, NEW t, NEW seen, NEW issues, NEW done, Ordered(s, seen, issues, done),
         t.connected = s.connected, t.sent = s.sent, t.seqNumber = s.seqNumber, t.sendQueue = s.sendQueue,
         \A k \in DOMAIN t.messageStates : k \in DOMAIN s.messageStates /\ t.messageStates[k] = s.messageStates[k]
  PROVE  Ordered(t, seen, issues, done)
BY DEF Ordered, NumberedOnce, QueueInOrder, SentInOrder, WasSent

\* Deleting lists less.
LEMMA LessListed ==
  ASSUME NEW table, NEW keys
  PROVE  \A k \in DOMAIN WithoutKeys(table, keys) : k \in DOMAIN table /\ WithoutKeys(table, keys)[k] = table[k]
BY DEF WithoutKeys, Restrict

\* The head of the queue is sent under the next number.
LEMMA OrderedFresh ==
  ASSUME NEW s, SessionOK(s), NEW t, NEW m \in Messages, NEW seen, seen \subseteq Nat, NEW issues,
         NEW done, done \subseteq Commands,
         Ordered(s, seen, issues, done), s.seqNumber < MAX_SEQUENCE_NUMBER,
         s.connected, t.connected, t.seqNumber = IncrementSequence(s.seqNumber),
         t.sent = s.sent \cup {<<s.seqNumber, m>>},
         t.messageStates = WithEntry(s.messageStates, s.seqNumber, m),
         \A c \in Commands : c \in done \/ WasSent(s, c) => Precedes(issues, c, m),
         \A j \in DOMAIN t.sendQueue : \A c \in Commands :
           c \in done \/ WasSent(s, c) \/ c = m => Precedes(issues, c, t.sendQueue[j].command),
         \A i, j \in DOMAIN t.sendQueue : i < j => Precedes(issues, t.sendQueue[i].command, t.sendQueue[j].command)
  PROVE  Ordered(t, seen, issues, done)
<1>. DEFINE n == s.seqNumber
<1>1. t.seqNumber = n + 1 /\ n \in Nat /\ \A d \in s.sent : d[1] \in Nat /\ d[2] \in Messages
  BY SentOK DEF IncrementSequence
<1>2. \A d \in s.sent : d[1] < n
  BY DEF Ordered, NumberedOnce
<1>3. <<n, m>>[1] = n /\ <<n, m>>[2] = m
  OBVIOUS
<1>. DEFINE new == <<n, m>>
<1>4. t.sent = s.sent \cup {new} /\ new[1] = n /\ new[2] = m
  BY <1>3
<1>5. \A k \in DOMAIN t.messageStates : (k = n /\ t.messageStates[k] = m)
                                        \/ (k \in DOMAIN s.messageStates /\ t.messageStates[k] = s.messageStates[k])
  BY DEF WithEntry
<1>6. \A k \in DOMAIN t.messageStates : <<k, t.messageStates[k]>> \in t.sent
  BY <1>4, <1>5 DEF Ordered, NumberedOnce
<1>. HIDE DEF new, n
<1>7. NumberedOnce(t)
  <2>1. \A d \in t.sent : d[1] < t.seqNumber
    BY <1>1, <1>2, <1>4
  <2>2. \A d, e \in t.sent : d[1] = e[1] => d = e
    BY <1>1, <1>2, <1>4 DEF Ordered, NumberedOnce
  <2>. QED BY <1>6, <2>1, <2>2 DEF NumberedOnce
<1>8. QueueInOrder(t, issues, done)
  <2>1. \A c : WasSent(t, c) => WasSent(s, c) \/ c = m
    BY <1>4 DEF WasSent
  <2>. QED BY <2>1 DEF QueueInOrder
<1>9. SentInOrder(t, seen, issues, done)
  <2>1. n \notin seen /\ \A x \in seen : x < t.seqNumber
    <3>1. \A x \in seen : x < n
      BY DEF Ordered, SentInOrder, n
    <3>2. n \notin seen
      BY <1>1, <3>1
    <3>3. t.seqNumber = IncrementSequence(n) /\ n < MAX_SEQUENCE_NUMBER
      BY DEF n
    <3>4. ASSUME NEW x \in seen PROVE x < n + 1
      <4>1. x < n
        BY <3>1
      <4>. QED BY <1>1, <4>1
    <3>. QED BY <1>1, <3>2, <3>4
  <2>2. \A d \in t.sent : d[1] \in seen /\ d[2] \in Commands \ PingCommands => d[2] \in done
    BY <1>4, <2>1 DEF Ordered, SentInOrder
  <2>3. ASSUME NEW d \in t.sent, NEW e \in t.sent, d[2] # Gateway, d[2] # e[2],
               \A f \in t.sent : f[2] = e[2] => d[1] < f[1]
        PROVE  Precedes(issues, d[2], e[2])
    <3>1. CASE e = new
      <4>1. d \in s.sent
        BY <1>4, <2>3, <3>1
      <4>2. WasSent(s, d[2]) /\ d[2] \in Commands
        BY <1>1, <2>3, <4>1 DEF WasSent, Messages
      <4>. QED BY <1>4, <3>1, <4>2
    <3>2. CASE e \in s.sent
      <4>1. d[1] < e[1] /\ e[1] < n
        BY <1>2, <2>3, <3>2
      <4>2. d # new
        BY <1>1, <1>4, <3>2, <4>1
      <4>3. d \in s.sent /\ \A f \in s.sent : f[2] = e[2] => d[1] < f[1]
        BY <1>4, <2>3, <4>2
      <4>. QED BY <2>3, <3>2, <4>3 DEF Ordered, SentInOrder
    <3>. QED BY <1>4, <3>1, <3>2
  <2>4. \A d \in t.sent : \A c \in done :
          d[2] \in Commands \ (PingCommands \cup done) /\ d[1] \notin seen => Precedes(issues, c, d[2])
    <3>. SUFFICES ASSUME NEW d \in t.sent, NEW c \in done, d[2] \in Commands \ (PingCommands \cup done), d[1] \notin seen
                  PROVE  Precedes(issues, c, d[2])
      OBVIOUS
    <3>1. CASE d = new
      BY <1>4, <3>1
    <3>2. CASE d \in s.sent
      BY <3>2 DEF Ordered, SentInOrder
    <3>. QED BY <1>4, <3>1, <3>2
  <2>. QED BY <2>1, <2>2, <2>3, <2>4 DEF SentInOrder
<1>. QED BY <1>7, <1>8, <1>9 DEF Ordered

\* A message that was sent before is sent once more under the next number.
LEMMA OrderedAgain ==
  ASSUME NEW s, SessionOK(s), NEW t, NEW m \in Messages, NEW seen, seen \subseteq Nat, NEW issues,
         NEW done, done \subseteq Commands,
         Ordered(s, seen, issues, done), s.seqNumber < MAX_SEQUENCE_NUMBER, m \in Listed(s),
         t.connected = s.connected, t.seqNumber = IncrementSequence(s.seqNumber),
         t.sent = s.sent \cup {<<s.seqNumber, m>>}, t.sendQueue = s.sendQueue,
         \A k \in DOMAIN t.messageStates :
           \/ k = s.seqNumber /\ t.messageStates[k] = m
           \/ k \in DOMAIN s.messageStates /\ t.messageStates[k] = s.messageStates[k]
  PROVE  Ordered(t, seen, issues, done)
<1>. DEFINE n == s.seqNumber
            new == <<n, m>>
<1>1. t.seqNumber = n + 1 /\ n \in Nat /\ \A d \in s.sent : d[1] \in Nat /\ d[2] \in Messages
  BY SentOK DEF IncrementSequence
<1>2. \A d \in s.sent : d[1] < n
  BY DEF Ordered, NumberedOnce
<1>3. t.sent = s.sent \cup {new} /\ new[1] = n /\ new[2] = m
  OBVIOUS
<1>4. \A k \in DOMAIN t.messageStates : <<k, t.messageStates[k]>> \in t.sent
  BY <1>3 DEF Ordered, NumberedOnce
<1>5. PICK k \in DOMAIN s.messageStates : s.messageStates[k] = m
  BY DEF Listed, Range
<1>. DEFINE old == <<k, m>>
<1>6. old \in s.sent /\ old[1] = k /\ old[2] = m
  BY <1>5 DEF Ordered, NumberedOnce
<1>7. \A x \in seen : x < n
  BY DEF Ordered, SentInOrder
<1>. HIDE DEF new, n, old
<1>8. t.connected
  BY <1>6 DEF Ordered, NumberedOnce
<1>9. NumberedOnce(t)
  <2>1. \A d \in t.sent : d[1] < t.seqNumber
    BY <1>1, <1>2, <1>3
  <2>2. \A d, e \in t.sent : d[1] = e[1] => d = e
    BY <1>1, <1>2, <1>3 DEF Ordered, NumberedOnce
  <2>. QED BY <1>4, <1>8, <2>1, <2>2 DEF NumberedOnce
<1>10. QueueInOrder(t, issues, done)
  <2>1. \A c : WasSent(t, c) => WasSent(s, c)
    BY <1>3, <1>6 DEF WasSent
  <2>. QED BY <2>1 DEF QueueInOrder, Ordered
<1>11. SentInOrder(t, seen, issues, done)
  <2>1. n \notin seen /\ \A x \in seen : x < t.seqNumber
    <3>1. n \notin seen
      BY <1>1, <1>7
    <3>2. ASSUME NEW x \in seen PROVE x < n + 1
      <4>1. x < n
        BY <1>7
      <4>. QED BY <1>1, <4>1
    <3>. QED BY <1>1, <3>1, <3>2
  <2>2. \A d \in t.sent : d[1] \in seen /\ d[2] \in Commands \ PingCommands => d[2] \in done
    BY <1>3, <2>1 DEF Ordered, SentInOrder
  <2>3. ASSUME NEW d \in t.sent, NEW e \in t.sent, d[2] # Gateway, d[2] # e[2],
               \A f \in t.sent : f[2] = e[2] => d[1] < f[1]
        PROVE  Precedes(issues, d[2], e[2])
    <3>1. PICK x \in s.sent : x[2] = e[2]
      BY <1>3, <1>6
    <3>2. d[1] < x[1] /\ x[1] < n
      BY <1>2, <1>3, <2>3, <3>1
    <3>3. d # new
      BY <1>1, <1>3, <3>1, <3>2
    <3>4. d \in s.sent /\ \A f \in s.sent : f[2] = x[2] => d[1] < f[1]
      BY <1>3, <2>3, <3>1, <3>3
    <3>. QED BY <2>3, <3>1, <3>4 DEF Ordered, SentInOrder
  <2>4. ASSUME NEW d \in t.sent, NEW c \in done, d[2] \in Commands \ (PingCommands \cup done), d[1] \notin seen
        PROVE  Precedes(issues, c, d[2])
    <3>1. CASE d = new
      <4>1. m \in Commands \ (PingCommands \cup done)
        BY <1>3, <2>4, <3>1
      <4>2. k \notin seen
        BY <1>6, <4>1 DEF Ordered, SentInOrder
      <4>. QED BY <1>3, <1>6, <3>1, <4>1, <4>2 DEF Ordered, SentInOrder
    <3>2. CASE d \in s.sent
      BY <2>4, <3>2 DEF Ordered, SentInOrder
    <3>. QED BY <1>3, <3>1, <3>2
  <2>. QED BY <2>1, <2>2, <2>3, <2>4 DEF SentInOrder
<1>. QED BY <1>9, <1>10, <1>11 DEF Ordered

\* Some of what waits no longer waits.
LEMMA OrderedFewer ==
  ASSUME NEW s, NEW t, NEW seen, NEW issues, NEW done, NEW at, Ordered(s, seen, issues, done),
         t.connected = s.connected, t.sent = s.sent, t.seqNumber = s.seqNumber,
         t.messageStates = s.messageStates,
         \A k \in DOMAIN t.sendQueue :
           at[k] \in DOMAIN s.sendQueue /\ t.sendQueue[k].command = s.sendQueue[at[k]].command,
         \A k, l \in DOMAIN t.sendQueue : k < l => at[k] < at[l]
  PROVE  Ordered(t, seen, issues, done)
<1>1. \A i, j \in DOMAIN t.sendQueue : i < j =>
        Precedes(issues, t.sendQueue[i].command, t.sendQueue[j].command)
  <2>. SUFFICES ASSUME NEW i \in DOMAIN t.sendQueue, NEW j \in DOMAIN t.sendQueue, i < j
                PROVE  Precedes(issues, t.sendQueue[i].command, t.sendQueue[j].command)
    OBVIOUS
  <2>1. at[i] < at[j] /\ at[i] \in DOMAIN s.sendQueue /\ at[j] \in DOMAIN s.sendQueue
    OBVIOUS
  <2>2. Precedes(issues, s.sendQueue[at[i]].command, s.sendQueue[at[j]].command)
    BY <2>1 DEF Ordered, QueueInOrder
  <2>. QED BY <2>2
<1>2. QueueInOrder(t, issues, done)
  BY <1>1 DEF Ordered, QueueInOrder, WasSent
<1>. QED BY <1>2 DEF Ordered, NumberedOnce, SentInOrder

\* sendQueuedMessage keeps the order.
LEMMA SendQueuedMessageOrdered ==
  ASSUME NEW s, SessionOK(s), NEW seen, seen \subseteq Nat, NEW issues, NEW done, done \subseteq Commands,
         Ordered(s, seen, issues, done), s.seqNumber < MAX_SEQUENCE_NUMBER
  PROVE  Ordered(SendQueuedMessage(s), seen, issues, done)
<1>. DEFINE t == SendQueuedMessage(s)
            m == Head(s.sendQueue).command
<1>1. Idle(s, t) \/ Asked(s, t) \/ TookHead(s, t)
  BY SendQueuedMessageFields
<1>. HIDE DEF t
<1>2. CASE Idle(s, t)
  BY <1>2 DEF Idle, t
<1>3. CASE Asked(s, t)
  <2>1. /\ t.connected = s.connected /\ t.sent = s.sent /\ t.seqNumber = s.seqNumber
        /\ t.sendQueue = s.sendQueue /\ t.messageStates = s.messageStates
    BY <1>3 DEF Asked, SameMessages, SameNumbers
  <2>2. Ordered(t, seen, issues, done)
    BY <2>1, OrderedSame
  <2>. QED BY <2>2 DEF t
<1>4. CASE TookHead(s, t)
  <2>1. /\ s.connected /\ s.sendQueue # <<>> /\ t.sendQueue = Tail(s.sendQueue)
        /\ ReportedAged(s, t, m) \/ SentFresh(s, t, m)
    BY <1>4 DEF TookHead
  <2>2. s.sendQueue \in Seq([command : Messages, aged : BOOLEAN])
    BY DEF SessionOK, QueueOK
  <2>3. /\ \A i \in DOMAIN t.sendQueue : /\ i \in Int /\ i + 1 \in DOMAIN s.sendQueue
                                         /\ t.sendQueue[i] = s.sendQueue[i + 1] /\ 1 < i + 1
        /\ 1 \in DOMAIN s.sendQueue /\ Head(s.sendQueue) = s.sendQueue[1]
    BY <2>1, <2>2
  <2>4. m \in Messages
    BY <2>1, HeadAndTailOK
  <2>5. /\ \A c \in Commands : c \in done \/ WasSent(s, c) => Precedes(issues, c, m)
        /\ \A j \in DOMAIN t.sendQueue : \A c \in Commands :
             c \in done \/ WasSent(s, c) \/ c = m => Precedes(issues, c, t.sendQueue[j].command)
        /\ \A i, j \in DOMAIN t.sendQueue : i < j => Precedes(issues, t.sendQueue[i].command, t.sendQueue[j].command)
    <3>1. \A c \in Commands : c \in done \/ WasSent(s, c) => Precedes(issues, c, m)
      BY <2>3 DEF Ordered, QueueInOrder
    <3>2. \A j \in DOMAIN t.sendQueue : \A c \in Commands :
            c \in done \/ WasSent(s, c) => Precedes(issues, c, t.sendQueue[j].command)
      BY <2>3 DEF Ordered, QueueInOrder
    <3>3. \A j \in DOMAIN t.sendQueue : Precedes(issues, m, t.sendQueue[j].command)
      BY <2>3 DEF Ordered, QueueInOrder
    <3>4. \A i, j \in DOMAIN t.sendQueue : i < j => Precedes(issues, t.sendQueue[i].command, t.sendQueue[j].command)
      <4>. SUFFICES ASSUME NEW i \in DOMAIN t.sendQueue, NEW j \in DOMAIN t.sendQueue, i < j
                    PROVE  Precedes(issues, t.sendQueue[i].command, t.sendQueue[j].command)
        OBVIOUS
      <4>1. i + 1 < j + 1
        BY <2>3
      <4>. QED BY <2>3, <4>1 DEF Ordered, QueueInOrder
    <3>. QED BY <3>1, <3>2, <3>3, <3>4
  <2>. HIDE DEF m
  <2>6. CASE SentFresh(s, t, m)
    <3>1. /\ t.connected /\ t.seqNumber = IncrementSequence(s.seqNumber)
          /\ t.sent = s.sent \cup {<<s.seqNumber, m>>}
          /\ t.messageStates = WithEntry(s.messageStates, s.seqNumber, m)
      BY <2>1, <2>6 DEF SentFresh, SameLink
    <3>2. Ordered(t, seen, issues, done)
      BY <2>1, <2>4, <2>5, <3>1, OrderedFresh
    <3>. QED BY <3>2 DEF t
  <2>7. CASE ReportedAged(s, t, m)
    <3>1. /\ t.connected = s.connected /\ t.sent = s.sent /\ t.seqNumber = s.seqNumber
          /\ t.messageStates = s.messageStates
      BY <2>7 DEF ReportedAged, SameMessages, SameNumbers, SameLink
    <3>. DEFINE at == [k \in DOMAIN t.sendQueue |-> k + 1]
    <3>2. /\ \A k \in DOMAIN t.sendQueue :
               at[k] \in DOMAIN s.sendQueue /\ t.sendQueue[k].command = s.sendQueue[at[k]].command
          /\ \A k, l \in DOMAIN t.sendQueue : k < l => at[k] < at[l]
      BY <2>3
    <3>. HIDE DEF at
    <3>3. Ordered(t, seen, issues, done)
      BY <3>1, <3>2, OrderedFewer
    <3>. QED BY <3>3 DEF t
  <2>. QED BY <2>1, <2>6, <2>7
<1>. QED BY <1>1, <1>2, <1>3, <1>4

\* A refused message goes out again under the next number, or it is given up.
LEMMA SendCommandAgainOrdered ==
  ASSUME NEW s, SessionOK(s), NEW m \in Messages, NEW seen, seen \subseteq Nat, NEW issues,
         NEW done, done \subseteq Commands,
         Ordered(s, seen, issues, done), s.seqNumber < MAX_SEQUENCE_NUMBER, m \in Listed(s), s.msg[m].failed
  PROVE  Ordered(SendCommandAgain(s, m), seen, issues, done)
<1>. DEFINE over == IF m = Gateway THEN s ELSE Emit(s, m, Event("COMMAND_TIMEOUT", None))
            old == s.msg[m].sequence
            last == Unlist(over, old)
            t == SendCommandAgain(s, m)
<1>1. /\ s.msg[m].retries < MAX_RETRIES => SentAgain(s, t, m)
      /\ ~(s.msg[m].retries < MAX_RETRIES) => t = SendQueuedMessage(last)
  BY SendCommandAgainFields
<1>. HIDE DEF t
<1>2. CASE s.msg[m].retries < MAX_RETRIES
  <2>1. s.connected
    BY DEF Ordered, NumberedOnce, Listed, Range
  <2>2. /\ t.connected = s.connected /\ t.sendQueue = s.sendQueue
        /\ t.seqNumber = IncrementSequence(s.seqNumber) /\ t.sent = s.sent \cup {<<s.seqNumber, m>>}
        /\ t.messageStates = WithEntry(WithoutKeys(s.messageStates, {old}), s.seqNumber, m)
    BY <1>1, <1>2, <2>1 DEF SentAgain, SameLink
  <2>3. \A k \in DOMAIN t.messageStates :
          \/ k = s.seqNumber /\ t.messageStates[k] = m
          \/ k \in DOMAIN s.messageStates /\ t.messageStates[k] = s.messageStates[k]
    BY <2>2 DEF WithEntry, WithoutKeys, Restrict
  <2>4. Ordered(t, seen, issues, done)
    BY <2>2, <2>3, OrderedAgain
  <2>. QED BY <2>4 DEF t
<1>3. CASE ~(s.msg[m].retries < MAX_RETRIES)
  <2>1. SessionOK(over) /\ SameLink(s, over) /\ over.sendQueue = s.sendQueue /\ SameMessages(s, over) /\ SameNumbers(s, over)
    BY CodesOK, EmitOK, EmitFields DEF SameMessages, SameLink, SameNumbers
  <2>. HIDE DEF over
  <2>2. /\ SessionOK(last) /\ SameLink(over, last) /\ last.sendQueue = over.sendQueue /\ last.sent = over.sent
        /\ SameNumbers(over, last) /\ last.messageStates = WithoutKeys(over.messageStates, {old})
    BY <2>1, UnlistOK, UnlistFields
  <2>. HIDE DEF last
  <2>3. /\ last.connected = s.connected /\ last.sendQueue = s.sendQueue /\ last.sent = s.sent
        /\ last.seqNumber = s.seqNumber
        /\ \A k \in DOMAIN last.messageStates :
             k \in DOMAIN s.messageStates /\ last.messageStates[k] = s.messageStates[k]
    BY <2>1, <2>2, LessListed DEF SameMessages, SameLink, SameNumbers
  <2>4. Ordered(last, seen, issues, done)
    BY <2>3, OrderedSame
  <2>. QED BY <1>1, <1>3, <2>2, <2>3, <2>4, SendQueuedMessageOrdered DEF t
<1>. QED BY <1>2, <1>3

\* An answer ends its message or sends it again.
LEMMA HandleResultOrdered ==
  ASSUME NEW s, SessionOK(s), NEW key \in DOMAIN s.messageStates, NEW from \in Messages, NEW failed \in BOOLEAN,
         NEW seen, seen \subseteq Nat, NEW issues, NEW done, done \subseteq Commands,
         Ordered(s, seen, issues, done), s.seqNumber < MAX_SEQUENCE_NUMBER
  PROVE  Ordered(HandleResult(s, key, from, failed), seen, issues, done)
<1>. DEFINE m == s.messageStates[key]
            a == Answered(s, key, from)
            r == Refused(s, m)
            u == Unlist(s, key)
            f == FirstResult(a, m)
            t == HandleResult(s, key, from, failed)
<1>1. /\ m \in Messages /\ SessionOK(a) /\ SameLink(s, a) /\ SameNumbers(s, a) /\ a.sendQueue = s.sendQueue
      /\ a.sent = s.sent /\ a.messageStates = WithoutKeys(s.messageStates, {key})
  <2>1. TookAnswer(s, a, key, m, from)
    BY AnsweredFields
  <2>. HIDE DEF a, m
  <2>. QED BY <2>1 DEF TookAnswer
<1>2. \/ t = u
      \/ t = SendCommandAgain(r, m)
      \/ t = f
      \/ t = SendQueuedMessage(a)
  BY HandleResultCases
<1>3. m \in Listed(s)
  BY DEF Listed, Range
<1>4. /\ SameLink(s, u) /\ SameNumbers(s, u) /\ u.sendQueue = s.sendQueue /\ u.sent = s.sent
      /\ u.messageStates = WithoutKeys(s.messageStates, {key})
  BY UnlistFields
<1>5. /\ SessionOK(r) /\ SameLink(s, r) /\ SameNumbers(s, r) /\ r.sendQueue = s.sendQueue /\ r.sent = s.sent
      /\ r.messageStates = s.messageStates /\ r.msg[m].failed
  BY <1>1, RefusedFields
<1>6. SameLink(a, f) /\ SameNumbers(a, f) /\ f.sendQueue = a.sendQueue /\ SameMessages(a, f)
  BY <1>1, FirstResultFields
<1>. HIDE DEF m, a, r, u, t, f
<1>7. ASSUME NEW x, SameLink(s, x), SameNumbers(s, x), x.sendQueue = s.sendQueue, x.sent = s.sent,
             x.messageStates = s.messageStates \/ x.messageStates = WithoutKeys(s.messageStates, {key})
      PROVE  Ordered(x, seen, issues, done) /\ x.seqNumber = s.seqNumber
  <2>1. \A k \in DOMAIN x.messageStates : k \in DOMAIN s.messageStates /\ x.messageStates[k] = s.messageStates[k]
    BY <1>7, LessListed
  <2>2. x.connected = s.connected /\ x.seqNumber = s.seqNumber
    BY <1>7 DEF SameLink, SameNumbers
  <2>. QED BY <1>7, <2>1, <2>2, OrderedSame
<1>8. Ordered(u, seen, issues, done)
  BY <1>4, <1>7
<1>9. Ordered(r, seen, issues, done) /\ r.seqNumber = s.seqNumber /\ m \in Listed(r)
  BY <1>3, <1>5, <1>7 DEF Listed
<1>10. Ordered(a, seen, issues, done) /\ a.seqNumber = s.seqNumber
  BY <1>1, <1>7
<1>11. Ordered(f, seen, issues, done)
  <2>1. SameLink(s, f) /\ SameNumbers(s, f) /\ f.sendQueue = s.sendQueue /\ f.sent = s.sent
        /\ f.messageStates = WithoutKeys(s.messageStates, {key})
    BY <1>1, <1>6 DEF SameLink, SameNumbers, SameMessages
  <2>. QED BY <1>7, <2>1
<1>12. Ordered(SendCommandAgain(r, m), seen, issues, done)
  BY <1>1, <1>5, <1>9, SendCommandAgainOrdered
<1>13. Ordered(SendQueuedMessage(a), seen, issues, done)
  BY <1>1, <1>10, SendQueuedMessageOrdered
<1>14. Ordered(t, seen, issues, done)
  BY <1>2, <1>8, <1>11, <1>12, <1>13
<1>. QED BY <1>14 DEF t

\* The end of the handshake lists less.
LEMMA HandshakeOverOrdered ==
  ASSUME NEW s, SessionOK(s), NEW sequence, NEW seen, seen \subseteq Nat, NEW issues,
         NEW done, done \subseteq Commands,
         Ordered(s, seen, issues, done), s.seqNumber < MAX_SEQUENCE_NUMBER
  PROVE  Ordered(HandshakeOver(s, sequence), seen, issues, done)
<1>. DEFINE g == GivenBack(s, sequence)
<1>1. /\ SessionOK(g) /\ HandshakeOver(s, sequence) = SendQueuedMessage(g)
      /\ SameLink(s, g) /\ g.sendQueue = s.sendQueue /\ g.sent = s.sent /\ g.seqNumber = s.seqNumber
      /\ g.messageStates = WithoutKeys(s.messageStates, {sequence})
  BY GivenBackFields
<1>. HIDE DEF g
<1>2. \A k \in DOMAIN g.messageStates : k \in DOMAIN s.messageStates /\ g.messageStates[k] = s.messageStates[k]
  BY <1>1, LessListed
<1>3. Ordered(g, seen, issues, done)
  BY <1>1, <1>2, OrderedSame DEF SameLink
<1>. QED BY <1>1, <1>3, SendQueuedMessageOrdered

\* The filter keeps the order.
LEMMA WithoutPingsOrder ==
  ASSUME NEW E, NEW queue \in Seq(E)
  PROVE  \A k, l \in DOMAIN WithoutPings(queue) : k < l => KeptAt(queue, k) < KeptAt(queue, l)
<1>1. Kept(queue) \subseteq 1 .. Len(queue) /\ Len(queue) \in Nat
  BY DEF Kept
<1>2. DOMAIN WithoutPings(queue) = 1 .. Cardinality(Kept(queue)) /\ Cardinality(Kept(queue)) \in Nat
  BY <1>1, FiniteWithin DEF WithoutPings
<1>. DEFINE UpTo(i) == {j \in Kept(queue) : j <= i}
<1>3. ASSUME NEW k \in 1 .. Cardinality(Kept(queue))
      PROVE  KeptAt(queue, k) \in Kept(queue) /\ Cardinality(UpTo(KeptAt(queue, k))) = k
  <2>1. \E i \in Kept(queue) : Cardinality({j \in Kept(queue) : j <= i}) = k
    BY <1>1, RankExists
  <2>. QED BY <2>1, Zenon DEF KeptAt
<1>. SUFFICES ASSUME NEW k \in DOMAIN WithoutPings(queue), NEW l \in DOMAIN WithoutPings(queue), k < l,
                     ~(KeptAt(queue, k) < KeptAt(queue, l))
              PROVE  FALSE
  OBVIOUS
<1>. DEFINE x == KeptAt(queue, k)
            y == KeptAt(queue, l)
<1>. HIDE DEF UpTo
<1>4. /\ x \in Kept(queue) /\ y \in Kept(queue) /\ x \in Int /\ y \in Int
      /\ Cardinality(UpTo(x)) = k /\ Cardinality(UpTo(y)) = l
  BY <1>1, <1>2, <1>3
<1>. HIDE DEF x, y
<1>5. \A j \in Kept(queue) : j \in Int
  BY <1>1
<1>6. y <= x
  BY <1>4 DEF x, y
<1>7. ASSUME NEW j \in UpTo(y) PROVE j \in UpTo(x)
  <2>1. j \in Kept(queue) /\ j <= y
    BY DEF UpTo
  <2>2. j \in Int
    BY <1>5, <2>1
  <2>3. j <= x
    BY <1>4, <1>6, <2>1, <2>2
  <2>. QED BY <2>1, <2>3 DEF UpTo
<1>8. IsFiniteSet(UpTo(x))
  <2>1. IsFiniteSet(Kept(queue))
    BY <1>1, FiniteWithin
  <2>2. UpTo(x) \subseteq Kept(queue)
    BY DEF UpTo
  <2>. QED BY <2>1, <2>2, FS_Subset
<1>9. Cardinality(UpTo(y)) <= Cardinality(UpTo(x))
  BY <1>7, <1>8, FS_Subset
<1>. QED BY <1>2, <1>4, <1>9

\* What is left after a connection is in order.
LEMMA DisconnectedOrdered ==
  ASSUME NEW s, SessionOK(s), NEW seen, NEW issues, NEW done, done \subseteq Commands, Ordered(s, seen, issues, done)
  PROVE  Ordered(Disconnected(s), {}, issues, done) /\ Ordered(Initialize(s), {}, issues, done)
<1>1. ASSUME NEW t, NEW at, ~t.connected, t.messageStates = NoEntries, t.sent = {}, t.seqNumber = 0,
             \A k \in DOMAIN t.sendQueue :
               at[k] \in DOMAIN s.sendQueue /\ t.sendQueue[k].command = s.sendQueue[at[k]].command,
             \A k, l \in DOMAIN t.sendQueue : k < l => at[k] < at[l]
      PROVE  Ordered(t, {}, issues, done)
  <2>1. NumberedOnce(t) /\ SentInOrder(t, {}, issues, done) /\ \A c : ~WasSent(t, c)
    BY <1>1 DEF NumberedOnce, SentInOrder, WasSent, NoEntries
  <2>2. \A i, j \in DOMAIN t.sendQueue : i < j =>
          Precedes(issues, t.sendQueue[i].command, t.sendQueue[j].command)
    <3>. SUFFICES ASSUME NEW i \in DOMAIN t.sendQueue, NEW j \in DOMAIN t.sendQueue, i < j
                  PROVE  Precedes(issues, t.sendQueue[i].command, t.sendQueue[j].command)
      OBVIOUS
    <3>1. at[i] < at[j] /\ at[i] \in DOMAIN s.sendQueue /\ at[j] \in DOMAIN s.sendQueue
      BY <1>1
    <3>2. Precedes(issues, s.sendQueue[at[i]].command, s.sendQueue[at[j]].command)
      BY <3>1 DEF Ordered, QueueInOrder
    <3>. QED BY <1>1, <3>2
  <2>3. QueueInOrder(t, issues, done)
    BY <1>1, <2>1, <2>2 DEF Ordered, QueueInOrder
  <2>. QED BY <2>1, <2>3 DEF Ordered
<1>2. s.sendQueue \in Seq([command : Messages, aged : BOOLEAN])
  BY DEF SessionOK, QueueOK
<1>3. Ordered(Disconnected(s), {}, issues, done)
  <2>. DEFINE t == Disconnected(s)
              at == [k \in DOMAIN t.sendQueue |-> KeptAt(s.sendQueue, k)]
  <2>1. /\ ~t.connected /\ t.messageStates = NoEntries /\ t.sent = {} /\ t.seqNumber = 0
        /\ t.sendQueue = WithoutPings(s.sendQueue)
    BY DisconnectedFields
  <2>. HIDE DEF t
  <2>2. \A k \in DOMAIN t.sendQueue :
          at[k] \in DOMAIN s.sendQueue /\ t.sendQueue[k].command = s.sendQueue[at[k]].command
    BY <1>2, <2>1, WithoutPingsType
  <2>3. \A k, l \in DOMAIN t.sendQueue : k < l => at[k] < at[l]
    BY <1>2, <2>1, WithoutPingsOrder
  <2>. HIDE DEF at
  <2>. QED BY <1>1, <2>1, <2>2, <2>3 DEF t
<1>4. Ordered(Initialize(s), {}, issues, done)
  <2>. DEFINE t == Initialize(s)
              at == [k \in DOMAIN t.sendQueue |-> k]
  <2>1. /\ ~t.connected /\ t.messageStates = NoEntries /\ t.sent = {} /\ t.seqNumber = 0
        /\ t.sendQueue = s.sendQueue
    BY InitializeFields
  <2>. HIDE DEF t
  <2>2. /\ \A k \in DOMAIN t.sendQueue :
             at[k] \in DOMAIN s.sendQueue /\ t.sendQueue[k].command = s.sendQueue[at[k]].command
        /\ \A k, l \in DOMAIN t.sendQueue : k < l => at[k] < at[l]
    BY <2>1
  <2>. HIDE DEF at
  <2>. QED BY <1>1, <2>1, <2>2 DEF t
<1>. QED BY <1>3, <1>4

\* What the station has executed in this connection and before it.
Done == {executed[i].command : i \in DOMAIN executed}
AllOrdered == Ordered(session, station.seen, issued, Done) /\ ExecutedInOrder

LEMMA DoneOK ==
  ASSUME TypeOK
  PROVE  /\ Done \subseteq Commands /\ station.seen \subseteq Nat
         /\ SessionOK(session) /\ session.sendQueue \in Seq([command : Messages, aged : BOOLEAN])
<1>1. \A i \in DOMAIN executed : executed[i] \in [command : Commands, refused : BOOLEAN]
  <2>. DEFINE E == [command : Commands, refused : BOOLEAN]
  <2>1. executed \in Seq(E)
    BY DEF TypeOK
  <2>. HIDE DEF E
  <2>2. \A i \in DOMAIN executed : executed[i] \in E
    BY <2>1
  <2>. QED BY <2>2 DEF E
<1>2. station.seen \subseteq SeqNos
  BY DEF TypeOK, StationOK
<1>. QED BY <1>1, <1>2, NumberAssumption DEF TypeOK, SessionOK, QueueOK, Done, SeqNos

\* A connection begins with nothing taken and the handshake ahead of the queue.
LEMMA EstablishOrdered ==
  ASSUME TypeOK, Ordered(session, station.seen, issued, Done), Establish
  PROVE  Ordered(session', {}, issued, Done)
<1>1. ~session.connected
  BY EstablishStep
<1>2. PICK g, a, q :
        /\ SessionOK(g) /\ g.connected /\ SameMessages(session, g) /\ SameNumbers(session, g)
        /\ g.sendQueue = <<[command |-> Gateway, aged |-> FALSE]>>
        /\ a = SendQueuedMessage(g) /\ SessionOK(a)
        /\ SessionOK(q) /\ SameButQueue(a, q) /\ q.sendQueue = a.sendQueue \o session.sendQueue
        /\ session' = SendQueuedMessage(q)
  BY EstablishStep
<1>3. /\ g.sendQueue # <<>> /\ Head(g.sendQueue).command = Gateway /\ ~Head(g.sendQueue).aged
      /\ Tail(g.sendQueue) = <<>>
  BY <1>2
<1>4. g.sent = {} /\ g.seqNumber = 0 /\ DOMAIN g.messageStates = {} /\ ~WaitingAcknowledge(g)
  BY <1>1, <1>2 DEF SameMessages, SameNumbers, Ordered, NumberedOnce, WaitingAcknowledge, Listed, Range
<1>5. a.sendQueue = <<>> /\ SentFresh(g, a, Gateway)
  <2>1. Idle(g, a) \/ Asked(g, a) \/ TookHead(g, a)
    BY <1>2, SendQueuedMessageFields
  <2>2. TookHead(g, a)
    BY <1>2, <1>3, <1>4, <2>1 DEF Idle, Asked
  <2>. QED BY <1>3, <2>2 DEF TookHead
<1>6. /\ a.connected /\ a.sent = {<<0, Gateway>>} /\ a.seqNumber = IncrementSequence(0)
      /\ a.messageStates = WithEntry(g.messageStates, 0, Gateway)
  BY <1>2, <1>4, <1>5 DEF SentFresh, SameLink
<1>7. q.sendQueue = session.sendQueue
  <2>1. \A r \in Seq([command : Messages, aged : BOOLEAN]) : <<>> \o r = r
    OBVIOUS
  <2>. QED BY <1>2, <1>5, <2>1, DoneOK
<1>8. /\ q.connected /\ q.sent = {<<0, Gateway>>} /\ q.seqNumber = 1
      /\ q.messageStates = WithEntry(g.messageStates, 0, Gateway)
  BY <1>2, <1>6, NumberAssumption DEF SameButQueue, SameLink, SameMessages, SameNumbers, IncrementSequence
<1>9. DOMAIN q.messageStates = {0} /\ q.messageStates[0] = Gateway
  BY <1>4, <1>8 DEF WithEntry
<1>10. session' = q
  <2>1. WaitingAcknowledge(q)
    BY <1>9 DEF WaitingAcknowledge, Listed, Range
  <2>2. Idle(q, session') \/ Asked(q, session') \/ TookHead(q, session')
    BY <1>2, SendQueuedMessageFields
  <2>. QED BY <1>8, <2>1, <2>2 DEF Idle, Asked, TookHead
<1>. DEFINE first == <<0, Gateway>>
<1>11. q.sent = {first} /\ first[1] = 0 /\ first[2] = Gateway
  BY <1>8
<1>12. <<0, q.messageStates[0]>> = first
  BY <1>9
<1>. HIDE DEF first
<1>13. NumberedOnce(q)
  BY <1>8, <1>9, <1>11, <1>12 DEF NumberedOnce
<1>14. QueueInOrder(q, issued, Done)
  <2>1. \A c \in Commands : ~WasSent(q, c)
    BY <1>11, CommandAssumption DEF WasSent
  <2>. QED BY <1>7, <2>1 DEF Ordered, QueueInOrder
<1>15. SentInOrder(q, {}, issued, Done)
  BY <1>11, CommandAssumption DEF SentInOrder
<1>. QED BY <1>10, <1>13, <1>14, <1>15 DEF Ordered

\* A command that is issued comes after all that was issued before.
LEMMA IssueOrdered ==
  ASSUME TypeOK, OneStage, FirstLap, AllOrdered, NEW c \in Commands, IssueCommand(c)
  PROVE  Ordered(session', station.seen, issued', Done) /\ ExecutedInOrder'
<1>1. /\ c \notin Range(issued) /\ issued' = Append(issued, c) /\ executed' = executed
      /\ issued \in Seq(Commands)
  BY IssueStep DEF TypeOK
<1>2. PICK q : /\ SessionOK(q) /\ SameButQueue(session, q)
               /\ q.sendQueue = Append(session.sendQueue, [command |-> c, aged |-> FALSE])
               /\ session' = SendQueuedMessage(q)
  BY IssueStep
<1>3. /\ Done \subseteq Commands /\ station.seen \subseteq Nat /\ SessionOK(session)
      /\ session.sendQueue \in Seq([command : Messages, aged : BOOLEAN])
  BY DoneOK
<1>4. /\ \A a \in DOMAIN issued' : issued'[a] = c \/ (a \in DOMAIN issued /\ issued'[a] = issued[a])
      /\ \A a \in DOMAIN issued, b \in DOMAIN issued' : issued'[b] = c => a < b
  <2>1. \A b \in DOMAIN issued : issued'[b] = issued[b] /\ issued[b] # c
    BY <1>1 DEF Range
  <2>2. \A b \in DOMAIN issued' : b \in DOMAIN issued \/ b = Len(issued) + 1
    BY <1>1
  <2>3. issued'[Len(issued) + 1] = c /\ DOMAIN issued = 1 .. Len(issued) /\ Len(issued) \in Nat
    BY <1>1
  <2>4. ASSUME NEW a \in DOMAIN issued, NEW b \in DOMAIN issued', issued'[b] = c PROVE a < b
    <3>1. b = Len(issued) + 1
      BY <2>1, <2>2, <2>4
    <3>. QED BY <2>3, <3>1
  <2>. QED BY <2>1, <2>2, <2>3, <2>4
<1>5. ASSUME NEW x, x # c, NEW y, Precedes(issued, x, y) \/ y = c
      PROVE  Precedes(issued', x, y)
  <2>. SUFFICES ASSUME NEW a \in DOMAIN issued', NEW b \in DOMAIN issued', issued'[a] = x, issued'[b] = y
                PROVE  a < b
    BY DEF Precedes
  <2>1. a \in DOMAIN issued /\ issued[a] = x
    BY <1>4, <1>5
  <2>2. CASE y = c
    BY <1>4, <2>1, <2>2
  <2>3. CASE y # c
    BY <1>4, <1>5, <2>1, <2>3 DEF Precedes
  <2>. QED BY <2>2, <2>3
<1>6. /\ c \notin Done
      /\ \A i \in DOMAIN session.sendQueue : session.sendQueue[i].command # c
      /\ \A d \in session.sent : d[2] # c
  BY <1>1 DEF OneStage, Stages, Queued, Sent, Done
<1>7. /\ q.connected = session.connected /\ q.sent = session.sent /\ q.seqNumber = session.seqNumber
      /\ q.messageStates = session.messageStates
  BY <1>2 DEF SameButQueue, SameLink, SameNumbers, SameMessages
<1>8. Ordered(session, station.seen, issued, Done) /\ ExecutedInOrder
  BY DEF AllOrdered
<1>9. NumberedOnce(q)
  BY <1>7, <1>8 DEF Ordered, NumberedOnce
<1>10. SentInOrder(q, station.seen, issued', Done)
  BY <1>5, <1>6, <1>7, <1>8 DEF Ordered, SentInOrder
<1>11. QueueInOrder(q, issued', Done)
  <2>1. /\ \A i \in DOMAIN q.sendQueue :
             \/ i \in DOMAIN session.sendQueue /\ q.sendQueue[i].command = session.sendQueue[i].command
             \/ i = Len(session.sendQueue) + 1 /\ q.sendQueue[i].command = c
        /\ DOMAIN session.sendQueue = 1 .. Len(session.sendQueue) /\ Len(session.sendQueue) \in Nat
    BY <1>2, <1>3
  <2>2. ASSUME NEW i \in DOMAIN q.sendQueue, NEW j \in DOMAIN q.sendQueue, i < j
        PROVE  Precedes(issued', q.sendQueue[i].command, q.sendQueue[j].command)
    <3>1. i \in DOMAIN session.sendQueue
      <4>1. i # Len(session.sendQueue) + 1
        BY <2>1, <2>2
      <4>. QED BY <2>1, <4>1
    <3>2. q.sendQueue[i].command = session.sendQueue[i].command /\ q.sendQueue[i].command # c
      BY <1>6, <2>1, <3>1
    <3>3. CASE j \in DOMAIN session.sendQueue
      <4>1. Precedes(issued, session.sendQueue[i].command, session.sendQueue[j].command)
        BY <1>8, <2>2, <3>1, <3>3 DEF Ordered, QueueInOrder
      <4>2. q.sendQueue[j].command = session.sendQueue[j].command
        BY <2>1, <3>3
      <4>. QED BY <1>5, <3>2, <4>1, <4>2
    <3>4. CASE q.sendQueue[j].command = c
      BY <1>5, <3>2, <3>4
    <3>. QED BY <2>1, <3>3, <3>4
  <2>3. ASSUME NEW j \in DOMAIN q.sendQueue, NEW x \in Commands, x \in Done \/ WasSent(q, x)
        PROVE  Precedes(issued', x, q.sendQueue[j].command)
    <3>1. x # c /\ (x \in Done \/ WasSent(session, x))
      BY <1>6, <1>7, <2>3 DEF WasSent
    <3>2. CASE j \in DOMAIN session.sendQueue /\ q.sendQueue[j].command = session.sendQueue[j].command
      BY <1>5, <1>8, <3>1, <3>2 DEF Ordered, QueueInOrder
    <3>3. CASE q.sendQueue[j].command = c
      BY <1>5, <3>1, <3>3
    <3>. QED BY <2>1, <3>2, <3>3
  <2>. QED BY <2>2, <2>3 DEF QueueInOrder
<1>12. Ordered(session', station.seen, issued', Done)
  <2>1. Ordered(q, station.seen, issued', Done) /\ q.seqNumber < MAX_SEQUENCE_NUMBER
    BY <1>7, <1>9, <1>10, <1>11 DEF Ordered, FirstLap
  <2>. QED BY <1>2, <1>3, <2>1, SendQueuedMessageOrdered
<1>13. ExecutedInOrder'
  <2>. SUFFICES ASSUME NEW i \in DOMAIN executed, NEW j \in DOMAIN executed, i < j,
                       NEW a \in DOMAIN issued', NEW b \in DOMAIN issued',
                       executed[i].command = issued'[a], executed[j].command = issued'[b],
                       \A k \in 1 .. i - 1 : executed[k].command # executed[i].command,
                       \A k \in 1 .. j - 1 : executed[k].command # executed[j].command
                PROVE  a < b
    BY <1>1 DEF ExecutedInOrder
  <2>1. executed[i].command # c /\ executed[j].command # c
    BY <1>6 DEF Done
  <2>2. a \in DOMAIN issued /\ b \in DOMAIN issued /\ issued'[a] = issued[a] /\ issued'[b] = issued[b]
    BY <1>4, <2>1
  <2>. QED BY <1>8, <2>2 DEF ExecutedInOrder
<1>. QED BY <1>12, <1>13

\* The station takes the numbers one after the other: a command that it executes for the first time was
\* sent ahead of every datagram of the commands it has not executed.
LEMMA StationTakesOrdered ==
  ASSUME "reorder" \notin Faults, TypeOK, AllOrdered,
         NEW datagram \in session.sent, StationTakes(datagram[1], datagram[2])
  PROVE  AllOrdered'
<1>. DEFINE n == datagram[1]
            m == datagram[2]
<1>1. /\ n \notin station.seen /\ 0 .. n - 1 \subseteq station.seen
      /\ UNCHANGED <<session, issued>>
  BY DEF StationTakes
<1>2. station'.seen = station.seen \cup {n}
  BY DEF StationTakes, TypeOK, StationOK
<1>3. \/ (m = Gateway \/ m \in PingCommands) /\ executed' = executed
      \/ /\ m \in Commands \ PingCommands
         /\ \E refused \in BOOLEAN : executed' = Append(executed, [command |-> m, refused |-> refused])
  BY DEF StationTakes
<1>4. /\ Done \subseteq Commands /\ station.seen \subseteq Nat /\ SessionOK(session)
      /\ executed \in Seq([command : Commands, refused : BOOLEAN])
  BY DoneOK DEF TypeOK
<1>5. \A d \in session.sent : d[1] \in Nat /\ d[2] \in Messages
  BY <1>4, SentOK
<1>6. /\ datagram[1] = n /\ datagram[2] = m /\ n \in Nat /\ n < session.seqNumber
      /\ \A d \in session.sent : d[1] = n => d = datagram
  BY <1>5 DEF AllOrdered, Ordered, NumberedOnce
<1>. HIDE DEF n, m
<1>7. /\ \A i \in DOMAIN executed' : \/ i \in DOMAIN executed /\ executed'[i] = executed[i]
                                     \/ i = Len(executed) + 1 /\ executed'[i].command = m
      /\ \A i \in DOMAIN executed : i \in DOMAIN executed' /\ executed'[i] = executed[i]
      /\ DOMAIN executed = 1 .. Len(executed) /\ Len(executed) \in Nat
      /\ m \in Commands \ PingCommands =>
           Len(executed) + 1 \in DOMAIN executed' /\ executed'[Len(executed) + 1].command = m
  <2>1. CASE (m = Gateway \/ m \in PingCommands) /\ executed' = executed
    BY <1>4, <2>1, CommandAssumption
  <2>2. CASE /\ m \in Commands \ PingCommands
             /\ \E refused \in BOOLEAN : executed' = Append(executed, [command |-> m, refused |-> refused])
    <3>1. PICK refused \in BOOLEAN : executed' = Append(executed, [command |-> m, refused |-> refused])
      BY <2>2
    <3>. DEFINE entry == [command |-> m, refused |-> refused]
    <3>2. entry.command = m /\ executed' = Append(executed, entry)
      BY <3>1
    <3>. HIDE DEF entry
    <3>. QED BY <1>4, <3>2
  <2>. QED BY <1>3, <2>1, <2>2
<1>8. Done \subseteq Done' /\ Done' \subseteq Done \cup {m} /\ (m \in Commands \ PingCommands => m \in Done')
  BY <1>7 DEF Done
<1>9. Ordered(session, station.seen, issued, Done) /\ ExecutedInOrder
  BY DEF AllOrdered
\* What is not executed yet and was sent was sent after datagram.
<1>10. ASSUME NEW d \in session.sent, d[2] \in Commands \ (PingCommands \cup Done), d[2] # m
       PROVE  m = Gateway \/ Precedes(issued, m, d[2])
  <2>1. ASSUME NEW f \in session.sent, f[2] = d[2] PROVE n < f[1]
    <3>1. f[1] \notin station.seen
      BY <1>9, <1>10, <2>1 DEF Ordered, SentInOrder
    <3>2. f[1] # n /\ f[1] \in Nat
      BY <1>5, <1>6, <1>10, <2>1
    <3>3. ~(f[1] \in 0 .. n - 1)
      BY <1>1, <3>1 DEF n
    <3>. QED BY <1>6, <3>2, <3>3
  <2>2. m # Gateway => Precedes(issued, m, d[2])
    BY <1>6, <1>9, <1>10, <2>1 DEF Ordered, SentInOrder
  <2>. QED BY <2>2
<1>11. WasSent(session, m)
  BY <1>6 DEF WasSent
<1>12. QueueInOrder(session, issued, Done')
  BY <1>8, <1>9, <1>11 DEF Ordered, QueueInOrder
<1>13. SentInOrder(session, station'.seen, issued, Done')
  <2>1. \A x \in station'.seen : x < session.seqNumber
    BY <1>2, <1>6, <1>9 DEF Ordered, SentInOrder, n
  <2>2. ASSUME NEW d \in session.sent, d[1] \in station'.seen, d[2] \in Commands \ PingCommands
        PROVE  d[2] \in Done'
    <3>1. CASE d[1] \in station.seen
      BY <1>8, <1>9, <2>2, <3>1 DEF Ordered, SentInOrder
    <3>2. CASE d[1] = n
      BY <1>6, <1>8, <2>2, <3>2
    <3>. QED BY <1>2, <2>2, <3>1, <3>2 DEF n
  <2>3. ASSUME NEW d \in session.sent, NEW c \in Done',
               d[2] \in Commands \ (PingCommands \cup Done'), d[1] \notin station'.seen
        PROVE  Precedes(issued, c, d[2])
    <3>1. d[1] \notin station.seen /\ d[2] \in Commands \ (PingCommands \cup Done)
      BY <1>2, <1>8, <2>3
    <3>2. CASE c \in Done
      BY <1>9, <3>1, <3>2 DEF Ordered, SentInOrder
    <3>3. CASE c = m /\ c \notin Done
      <4>1. c \in Commands
        BY <1>3, <2>3, <3>3 DEF Done, m
      <4>2. m # Gateway /\ d[2] # m
        BY <2>3, <3>3, <4>1, CommandAssumption
      <4>. QED BY <1>10, <3>1, <3>3, <4>2
    <3>. QED BY <1>8, <3>2, <3>3
  <2>. QED BY <1>9, <2>1, <2>2, <2>3 DEF Ordered, SentInOrder
<1>14. ExecutedInOrder'
  <2>. SUFFICES ASSUME NEW i \in DOMAIN executed', NEW j \in DOMAIN executed', i < j,
                       NEW a \in DOMAIN issued, NEW b \in DOMAIN issued,
                       executed'[i].command = issued[a], executed'[j].command = issued[b],
                       \A k \in 1 .. i - 1 : executed'[k].command # executed'[i].command,
                       \A k \in 1 .. j - 1 : executed'[k].command # executed'[j].command
                PROVE  a < b
    BY <1>1 DEF ExecutedInOrder
  <2>1. i \in DOMAIN executed /\ executed'[i] = executed[i]
    <3>1. i # Len(executed) + 1
      BY <1>7
    <3>. QED BY <1>7, <3>1
  <2>2. CASE j \in DOMAIN executed
    <3>1. executed'[j] = executed[j] /\ \A k \in 1 .. j - 1 : k \in DOMAIN executed /\ executed'[k] = executed[k]
      BY <1>7, <2>2
    <3>2. \A k \in 1 .. i - 1 : k \in DOMAIN executed /\ executed'[k] = executed[k]
      BY <1>7, <2>1
    <3>. QED BY <1>9, <2>1, <2>2, <3>1, <3>2 DEF ExecutedInOrder
  <2>3. CASE j = Len(executed) + 1 /\ executed'[j].command = m
    <3>1. m \in Commands \ PingCommands
      <4>1. j \notin DOMAIN executed
        BY <1>7, <2>3
      <4>. QED BY <1>3, <4>1 DEF m
    <3>2. m \notin Done
      <4>1. \A k \in DOMAIN executed : k \in 1 .. j - 1 /\ executed'[k] = executed[k]
        BY <1>7, <2>3
      <4>. QED BY <2>3, <4>1 DEF Done
    <3>3. executed[i].command \in Done
      BY <2>1 DEF Done
    <3>4. n \notin station.seen
      BY <1>1 DEF n
    <3>5. Precedes(issued, executed[i].command, m)
      BY <1>6, <1>9, <3>1, <3>2, <3>3, <3>4 DEF Ordered, SentInOrder
    <3>. QED BY <2>1, <2>3, <3>5 DEF Precedes
  <2>. QED BY <1>7, <2>2, <2>3
<1>15. NumberedOnce(session)
  BY <1>9 DEF Ordered
<1>. QED BY <1>1, <1>12, <1>13, <1>14, <1>15 DEF AllOrdered, Ordered

\* Every step keeps the order, while the numbers of the connection have not come round.
LEMMA NextOrdered ==
  ASSUME {"slow_ack", "reorder"} \cap Faults = {}
  PROVE  TypeOK /\ RetriesListed /\ OneStage /\ FirstLap /\ AllOrdered /\ [Next]_vars => AllOrdered'
<1>. SUFFICES ASSUME TypeOK, RetriesListed, OneStage, FirstLap, AllOrdered, [Next]_vars
              PROVE  AllOrdered'
  OBVIOUS
<1>0. /\ SessionOK(session) /\ Done \subseteq Commands /\ station.seen \subseteq Nat
      /\ Ordered(session, station.seen, issued, Done) /\ ExecutedInOrder
      /\ session.seqNumber < MAX_SEQUENCE_NUMBER
  BY DoneOK DEF AllOrdered, FirstLap
<1>1. ASSUME Ordered(session', station.seen, issued, Done), UNCHANGED <<station, issued, executed>>
      PROVE  AllOrdered'
  <2>1. Done' = Done /\ ExecutedInOrder'
    BY <1>0, <1>1 DEF Done, ExecutedInOrder
  <2>. QED BY <1>1, <2>1 DEF AllOrdered
<1>2. ASSUME Ordered(session', {}, issued, Done), station' = FreshStation, UNCHANGED <<issued, executed>>
      PROVE  AllOrdered'
  <2>1. Done' = Done /\ ExecutedInOrder'
    BY <1>0, <1>2 DEF Done, ExecutedInOrder
  <2>. QED BY <1>2, <2>1 DEF AllOrdered, FreshStation
<1>3. ASSUME NEW q, SessionOK(q), SameLink(session, q), q.sendQueue = session.sendQueue, q.sent = session.sent,
             q.seqNumber = session.seqNumber,
             \A k \in DOMAIN q.messageStates :
               k \in DOMAIN session.messageStates /\ q.messageStates[k] = session.messageStates[k]
      PROVE  /\ Ordered(q, station.seen, issued, Done)
             /\ Ordered(SendQueuedMessage(q), station.seen, issued, Done)
             /\ \A sequence : Ordered(HandshakeOver(q, sequence), station.seen, issued, Done)
  <2>1. Ordered(q, station.seen, issued, Done) /\ q.seqNumber < MAX_SEQUENCE_NUMBER
    BY <1>0, <1>3, OrderedSame DEF SameLink
  <2>. QED BY <1>0, <1>3, <2>1, SendQueuedMessageOrdered, HandshakeOverOrdered
<1>4. ASSUME NEW c \in Commands, IssueCommand(c) PROVE AllOrdered'
  <2>1. Done' = Done /\ station' = station
    BY <1>4, IssueStep DEF Done
  <2>. QED BY <1>4, <2>1, IssueOrdered DEF AllOrdered
<1>5. CASE Connect
  <2>1. Asked(session, session') /\ UNCHANGED <<station, issued, executed>>
    BY <1>5, ConnectStep
  <2>2. /\ session'.connected = session.connected /\ session'.sent = session.sent
        /\ session'.seqNumber = session.seqNumber /\ session'.sendQueue = session.sendQueue
        /\ session'.messageStates = session.messageStates
    BY <2>1 DEF Asked, SameMessages, SameNumbers
  <2>3. Ordered(session', station.seen, issued, Done)
    BY <1>0, <2>2, OrderedSame
  <2>. QED BY <1>1, <2>1, <2>3
<1>6. CASE Close
  <2>1. UNCHANGED <<station, issued, executed>>
    BY <1>6, CloseStep
  <2>2. PICK q : /\ SessionOK(q) /\ SameLink(session, q) /\ SameNumbers(session, q)
                 /\ q.messageStates = session.messageStates /\ q.sent = session.sent /\ q.sendQueue = <<>>
                 /\ session' = IF session.connected THEN q ELSE Initialize(q)
    BY <1>6, CloseStep
  <2>3. Ordered(q, station.seen, issued, Done)
    <3>1. \A k \in DOMAIN q.sendQueue : FALSE
      BY <2>2
    <3>. QED BY <1>0, <2>2, <3>1 DEF Ordered, NumberedOnce, QueueInOrder, SentInOrder, SameLink, SameNumbers
  <2>4. CASE session.connected
    BY <1>1, <2>1, <2>2, <2>3, <2>4
  <2>5. CASE ~session.connected
    <3>1. Ordered(Initialize(q), {}, issued, Done)
      BY <1>0, <2>2, <2>3, DisconnectedOrdered
    <3>2. session.seqNumber = 0 /\ \A n \in station.seen : n < session.seqNumber
      BY <1>0, <2>5 DEF Ordered, NumberedOnce, SentInOrder
    <3>3. station.seen = {}
      BY <1>0, <3>2
    <3>. QED BY <1>1, <2>1, <2>2, <2>5, <3>1, <3>3
  <2>. QED BY <2>4, <2>5
<1>7. CASE CloseEnd \/ Disconnect
  <2>1. session' = Disconnected(session) /\ station' = FreshStation /\ UNCHANGED <<issued, executed>>
    BY <1>7 DEF CloseEnd, Disconnect
  <2>. QED BY <1>0, <1>2, <2>1, DisconnectedOrdered
<1>8. CASE Establish
  <2>1. station' = FreshStation /\ UNCHANGED <<issued, executed>>
    BY <1>8 DEF Establish
  <2>. QED BY <1>0, <1>2, <1>8, <2>1, EstablishOrdered
<1>9. CASE Age
  <2>1. /\ SameButQueue(session, session') /\ DOMAIN session'.sendQueue = DOMAIN session.sendQueue
        /\ \A i \in DOMAIN session.sendQueue : session'.sendQueue[i].command = session.sendQueue[i].command
        /\ UNCHANGED <<station, issued, executed>>
    BY <1>9, AgeStep
  <2>2. Ordered(session', station.seen, issued, Done)
    BY <1>0, <2>1 DEF Ordered, NumberedOnce, QueueInOrder, SentInOrder, WasSent, SameButQueue, SameLink,
                      SameNumbers, SameMessages
  <2>. QED BY <1>1, <2>1, <2>2
<1>10. CASE \E datagram \in session.sent : StationTakes(datagram[1], datagram[2])
  BY <1>10, StationTakesOrdered
<1>11. ASSUME NEW sequence \in station.seen, HandleAck(sequence) PROVE AllOrdered'
  <2>1. UNCHANGED <<station, issued, executed>>
    BY <1>11, AckStep
  <2>2. PICK q : /\ SessionOK(q) /\ SameLink(session, q) /\ SameNumbers(session, q)
                 /\ q.sendQueue = session.sendQueue /\ q.sent = session.sent
                 /\ q.messageStates = (IF session.messageStates[sequence] \in Pings
                                         THEN WithoutKeys(session.messageStates, {sequence})
                                         ELSE session.messageStates)
                 /\ session' = SendQueuedMessage(q)
    BY <1>11, AckStep
  <2>3. \A k \in DOMAIN q.messageStates :
          k \in DOMAIN session.messageStates /\ q.messageStates[k] = session.messageStates[k]
    BY <2>2, LessListed
  <2>4. Ordered(session', station.seen, issued, Done)
    BY <1>3, <2>2, <2>3 DEF SameNumbers
  <2>. QED BY <1>1, <2>1, <2>4
<1>12. CASE HandleData
  <2>. DEFINE number == session.results % (MAX_SEQUENCE_NUMBER + 1)
              good == MappedSequence(session, number)
              key == IF good = 0 THEN number ELSE good
              answer == station.answers[session.results + 1]
  <2>1. answer.from \in Messages /\ answer.failed \in BOOLEAN /\ UNCHANGED <<station, issued, executed>>
    BY <1>12, DataStep
  <2>2. PICK q : /\ SessionOK(q) /\ SameLink(session, q) /\ SameMessages(session, q)
                 /\ q.sendQueue = session.sendQueue /\ q.seqNumber = session.seqNumber
                 /\ session' = (IF key \in DOMAIN session.messageStates
                                  THEN HandleResult(q, key, answer.from, answer.failed) ELSE q)
    BY <1>12, DataStep
  <2>. HIDE DEF answer, key
  <2>3. Ordered(q, station.seen, issued, Done)
    BY <1>3, <2>2 DEF SameMessages
  <2>4. CASE key \in DOMAIN session.messageStates
    <3>1. key \in DOMAIN q.messageStates
      BY <2>2, <2>4 DEF SameMessages
    <3>2. Ordered(HandleResult(q, key, answer.from, answer.failed), station.seen, issued, Done)
      BY <1>0, <2>1, <2>2, <2>3, <3>1, HandleResultOrdered
    <3>. QED BY <1>1, <2>1, <2>2, <2>4, <3>2
  <2>5. CASE key \notin DOMAIN session.messageStates
    BY <1>1, <2>1, <2>2, <2>3, <2>5
  <2>. QED BY <2>4, <2>5
<1>13. CASE HandleGatewayInfo
  <2>1. /\ UNCHANGED <<session, issued, executed>> /\ station'.seen = station.seen
    BY <1>13 DEF HandleGatewayInfo, TypeOK, StationOK
  <2>2. Done' = Done /\ ExecutedInOrder'
    BY <1>0, <2>1 DEF Done, ExecutedInOrder
  <2>. QED BY <1>0, <2>1, <2>2 DEF AllOrdered
<1>14. ASSUME NEW connection \in 1 .. MaxConnections, CipherAnswers(connection) PROVE AllOrdered'
  <2>1. UNCHANGED <<station, issued, executed>>
    BY <1>14, CipherStep
  <2>2. PICK q : /\ SessionOK(q) /\ SameNumbers(session, q) /\ q.connected = session.connected
                 /\ q.sendQueue = session.sendQueue
                 /\ q.messageStates = session.messageStates /\ q.sent = session.sent
                 /\ session' = HandshakeOver(q, 0)
    BY <1>14, CipherStep
  <2>3. Ordered(q, station.seen, issued, Done) /\ q.seqNumber < MAX_SEQUENCE_NUMBER
    BY <1>0, <2>2, OrderedSame DEF SameNumbers
  <2>4. Ordered(session', station.seen, issued, Done)
    BY <1>0, <2>2, <2>3, HandshakeOverOrdered
  <2>. QED BY <1>1, <2>1, <2>4
<1>15. CASE HandleSecondResult
  <2>1. UNCHANGED <<issued, executed>> /\ station'.seen = station.seen
    BY <1>15 DEF HandleSecondResult, TypeOK, StationOK
  <2>2. PICK q : /\ SessionOK(q) /\ SameLink(session, q) /\ SameNumbers(session, q) /\ SameMessages(session, q)
                 /\ q.sendQueue = session.sendQueue /\ session' = SendQueuedMessage(q)
    BY <1>15, SecondStep
  <2>3. Ordered(session', station.seen, issued, Done)
    BY <1>3, <2>2 DEF SameMessages, SameNumbers
  <2>4. Done' = Done /\ ExecutedInOrder'
    BY <1>0, <2>1 DEF Done, ExecutedInOrder
  <2>. QED BY <2>1, <2>3, <2>4 DEF AllOrdered
<1>16. ASSUME NEW m \in Messages, AckTimeout(m) PROVE AllOrdered'
  <2>1. m \in Listed(session) /\ session.msg[m].failed /\ UNCHANGED <<station, issued, executed>>
    BY <1>16 DEF AckTimeout, RetriesListed
  <2>2. PICK q : /\ SessionOK(q) /\ SameLink(session, q) /\ SameNumbers(session, q)
                 /\ q.sendQueue = session.sendQueue /\ q.messageStates = session.messageStates
                 /\ q.sent = session.sent /\ q.msg = [session.msg EXCEPT ![m].timeout = "none"]
                 /\ session' = SendCommandAgain(q, m)
    BY <1>16, AckTimeoutStep
  <2>3. q.msg[m].failed /\ m \in Listed(q)
    <3>1. session.msg \in [Messages -> MessageState]
      BY <1>0 DEF SessionOK, MessagesOK
    <3>. QED BY <2>1, <2>2, <3>1 DEF Listed, MessageState
  <2>4. Ordered(q, station.seen, issued, Done) /\ q.seqNumber < MAX_SEQUENCE_NUMBER
    BY <1>0, <1>3, <2>2 DEF SameNumbers
  <2>5. Ordered(session', station.seen, issued, Done)
    BY <1>0, <2>2, <2>3, <2>4, SendCommandAgainOrdered
  <2>. QED BY <1>1, <2>1, <2>5
<1>17. ASSUME NEW m \in Messages, ResultTimeout(m) PROVE AllOrdered'
  <2>. DEFINE old == session.msg[m].sequence
  <2>1. UNCHANGED <<station, issued, executed>>
    BY <1>17, ResultTimeoutStep
  <2>2. PICK q : /\ SessionOK(q) /\ SameLink(session, q) /\ SameNumbers(session, q)
                 /\ q.sendQueue = session.sendQueue /\ q.sent = session.sent
                 /\ \/ q.messageStates = session.messageStates /\ session' = HandshakeOver(q, old)
                    \/ /\ q.messageStates = WithoutKeys(session.messageStates, {old})
                       /\ session' = SendQueuedMessage(q)
    BY <1>17, ResultTimeoutStep
  <2>. HIDE DEF old
  <2>3. \A k \in DOMAIN q.messageStates :
          k \in DOMAIN session.messageStates /\ q.messageStates[k] = session.messageStates[k]
    BY <2>2, LessListed
  <2>4. Ordered(session', station.seen, issued, Done)
    BY <1>3, <2>2, <2>3 DEF SameNumbers
  <2>. QED BY <1>1, <2>1, <2>4
<1>18. ASSUME NEW m \in Commands, SecondaryTimeout(m) PROVE AllOrdered'
  <2>1. UNCHANGED <<station, issued, executed>>
    BY <1>18, SecondaryTimeoutStep
  <2>2. PICK q : /\ SessionOK(q) /\ SameLink(session, q) /\ SameNumbers(session, q) /\ SameMessages(session, q)
                 /\ q.sendQueue = session.sendQueue /\ session' = SendQueuedMessage(q)
    BY <1>18, SecondaryTimeoutStep
  <2>3. Ordered(session', station.seen, issued, Done)
    BY <1>3, <2>2 DEF SameMessages, SameNumbers
  <2>. QED BY <1>1, <2>1, <2>3
<1>19. CASE UNCHANGED vars
  BY <1>0, <1>1, <1>19 DEF vars
<1>. QED BY <1>4, <1>5, <1>6, <1>7, <1>8, <1>9, <1>10, <1>11, <1>12, <1>13, <1>14, <1>15, <1>16, <1>17, <1>18, <1>19
         DEF Next

LEMMA InitOrdered == Init => AllOrdered
<1>. SUFFICES ASSUME Init PROVE AllOrdered
  OBVIOUS
<1>1. /\ session.sendQueue = <<>> /\ session.messageStates = NoEntries /\ session.sent = {}
      /\ session.seqNumber = 0 /\ executed = <<>> /\ station.seen = {}
  BY DEF Init, FreshStation
<1>2. Done = {} /\ ExecutedInOrder
  BY <1>1 DEF Done, ExecutedInOrder
<1>3. (\A i \in DOMAIN session.sendQueue : FALSE) /\ (\A k \in DOMAIN session.messageStates : FALSE)
  BY <1>1 DEF NoEntries
<1>. QED BY <1>1, <1>2, <1>3 DEF AllOrdered, Ordered, NumberedOnce, QueueInOrder, SentInOrder

-----------------------------------------------------------------------------
(* Whose answers the results are, and what still waits *)

\* Acknowledgements and keys come in time, and the station takes the datagrams in order.
Orderly == {"slow_ack", "reorder", "slow_cipher", "stale_cipher"} \cap Faults = {}

\* So do the results of messages that were refused and sent again. No acknowledgement stops their timers,
\* so a late one has the message sent once more, under a number of its own.
RetriesInTime == "slow_retry" \notin Faults

\* The answers that are still to come or to be taken, by the station's numbers.
Outstanding(s) == s.results .. s.p2pDataSeqNumber - 1

\* No connection: all tables are empty and the station's side has not begun.
Apart(s, st) ==
  /\ ~s.connected /\ DOMAIN s.messageStates = {} /\ s.sent = {}
  /\ s.seqNumber = 0 /\ s.results = 0 /\ s.p2pDataSeqNumber = 0 /\ DOMAIN s.p2pSeqMapping = {}
  /\ st = FreshStation

\* The handshake is listed, under number 0, and nothing else was sent.
InHandshake(s, st) ==
  /\ s.connected /\ DOMAIN s.messageStates = {0} /\ s.messageStates[0] = Gateway
  /\ s.msg[Gateway].sequence = 0 /\ s.sent = {<<0, Gateway>>} /\ s.seqNumber = 1
  /\ s.results = 0 /\ s.p2pDataSeqNumber = 1 /\ DOMAIN s.p2pSeqMapping = {0} /\ s.p2pSeqMapping[0] = 0
  /\ st.seen \subseteq {0} /\ (st.gatewayInfo # "none" => 0 \in st.seen)
  /\ st.answers = IF st.gatewayInfo = "data" THEN <<[from |-> Gateway, failed |-> FALSE]>> ELSE <<>>

\* The k-th answer is mapped to the number of the datagram it answers: taken, if the answer was given.
MappedTo(s, st, k, n) ==
  /\ n # 0 /\ n < s.seqNumber
  /\ k < Len(st.answers) <=> n \in st.seen
  /\ k < Len(st.answers) => <<n, st.answers[k + 1].from>> \in s.sent
  /\ \E d \in s.sent : d[1] = n /\ d[2] \notin PingCommands

\* The table maps the answers in the order of the numbers, and every datagram that will be answered.
Mapped(s, st) ==
  /\ \A k \in Outstanding(s) : k \in DOMAIN s.p2pSeqMapping /\ MappedTo(s, st, k, s.p2pSeqMapping[k])
  /\ \A k, l \in Outstanding(s) : k < l => s.p2pSeqMapping[k] < s.p2pSeqMapping[l]
  /\ \A d \in s.sent : d[2] \notin PingCommands /\ d[1] \notin st.seen =>
       \E k \in Outstanding(s) : s.p2pSeqMapping[k] = d[1]

\* The handshake is over.
Counts(s, st) ==
  /\ s.results <= Len(st.answers) /\ Len(st.answers) <= s.p2pDataSeqNumber /\ s.p2pDataSeqNumber <= s.seqNumber
  /\ 0 \in st.seen /\ \A n \in st.seen : n < s.seqNumber
Works(s, st) ==
  /\ s.connected /\ Gateway \notin Listed(s) /\ \A d \in s.sent : d[2] = Gateway => d[1] = 0
  /\ Counts(s, st) /\ Mapped(s, st)

Linked(s, st) == Apart(s, st) \/ InHandshake(s, st) \/ Works(s, st)

\* Only what is listed has a timer.
TimersListed(s) == \A m \in Messages : s.msg[m].timeout # "none" => m \in Listed(s)

\* A command is staged under its type, and a result is of the command it is reported for, if the types of
\* the commands that have a second result tell them apart.
OwnTypes == \A c, d \in TwoStageCommands : CommandType[c] = CommandType[d] => c = d
OwnResults(s) ==
  /\ \A type \in DOMAIN s.customDataStaging :
       s.customDataStaging[type] \in TwoStageCommands /\ CommandType[s.customDataStaging[type]] = type
  /\ OwnTypes => \A m \in Messages : \A i \in DOMAIN s.events[m] :
       s.events[m][i].code \in {"RESULT", "SECOND_RESULT"} => s.events[m][i].from = m

\* What the station has executed of c it refused.
OnlyRefused(done, c) == \A i \in DOMAIN done : done[i].command = c => done[i].refused
Untaken(s, st) == {d \in s.sent : d[1] \notin st.seen}
Untold(s, st) == s.results + 1 .. Len(st.answers)

\* Nothing of m is on its way in either direction, and the station has refused it each time.
NothingOnItsWay(s, st, done, m) ==
  /\ \A d \in Untaken(s, st) : d[2] # m
  /\ \A k \in Untold(s, st) : st.answers[k].from # m
  /\ OnlyRefused(done, m)

\* What the station may still execute it has refused so far, and there is no answer to it on its way; an
\* answer that refuses is about a command that was refused each time.
OneOnItsWay(s, st, done) ==
  /\ \A i, j \in DOMAIN done : i < j /\ done[i].command = done[j].command => done[i].refused
  /\ \A k, l \in Untold(s, st) : st.answers[k].from = st.answers[l].from => k = l
  /\ \A d \in Untaken(s, st) :
       /\ \A e \in Untaken(s, st) : e[2] = d[2] => e = d
       /\ \A k \in Untold(s, st) : st.answers[k].from # d[2]
       /\ OnlyRefused(done, d[2])
  /\ \A k \in Untold(s, st) : st.answers[k].failed => OnlyRefused(done, st.answers[k].from)

\* The station has refused c the first time it executed it, or has not executed it.
IsNew(done, c) == \A j \in DOMAIN done : done[j].command # c
RefusedFirst(done, c) ==
  \E i \in DOMAIN done :
    done[i].command = c /\ done[i].refused /\ \A j \in DOMAIN done : j < i => done[j].command # c

\* Where a message that was refused may be sent again while an answer to it is on its way: what the
\* station may still execute is on its way once and new to it, or was refused the first time.
RefusedBefore(s, st, done) ==
  /\ \A i, j \in DOMAIN done : i < j /\ done[i].command = done[j].command => RefusedFirst(done, done[j].command)
  /\ \A k \in DOMAIN st.answers : st.answers[k].from = Gateway \/ ~IsNew(done, st.answers[k].from)
  /\ \A d \in Untaken(s, st) :
       \/ RefusedFirst(done, d[2])
       \/ IsNew(done, d[2]) /\ \A e \in Untaken(s, st) : e[2] = d[2] => e = d
  /\ \A k \in Untold(s, st) : st.answers[k].failed => RefusedFirst(done, st.answers[k].from)

\* The message m may be sent again, and what the station may still execute or answer.
Open(s, st, done, m) ==
  /\ RetriesInTime => NothingOnItsWay(s, st, done, m)
  /\ RefusedFirst(done, m)
Retried(s, st, done) ==
  /\ RetriesInTime => OneOnItsWay(s, st, done)
  /\ RefusedBefore(s, st, done)

\* Nothing ages while ageing is not among the faults.
NoneAged(s) == "ageing" \notin Faults => \A i \in DOMAIN s.sendQueue : ~s.sendQueue[i].aged

Sound(s, st, done) ==
  Linked(s, st) /\ TimersListed(s) /\ OwnResults(s) /\ Retried(s, st, done) /\ NoneAged(s)

\* What the queue waits for has its timer running, and the queue waits for something.
Timed(s, others) ==
  \A m \in Listed(s) \ others : ~s.msg[m].acknowledged \/ m = Gateway => s.msg[m].timeout # "none"
Awake(s) ==
  "ageing" \notin Faults /\ s.connected /\ s.sendQueue # <<>> => WaitingAcknowledge(s) \/ s.secondaryTimers # {}

\* What was shown before of the numbers and of the queue: every command that waits is new to the station.
AllNew(s, done) ==
  \A i \in DOMAIN s.sendQueue :
    /\ s.sendQueue[i].command \in Commands /\ ~WasSent(s, s.sendQueue[i].command)
    /\ \A j \in DOMAIN done : done[j].command # s.sendQueue[i].command
Ready(s, done) ==
  NumberedOnce(s) /\ KeyedByNumber(s) /\ s.seqNumber < MAX_SEQUENCE_NUMBER /\ AllNew(s, done)

StationTyped(st) == st.seen \subseteq Nat /\ st.answers \in Seq([from : Messages, failed : BOOLEAN])

\* The numbers of a session.
LEMMA NumberFacts ==
  ASSUME NEW s, SessionOK(s)
  PROVE  /\ s.seqNumber \in Nat /\ s.seqNumber <= MAX_SEQUENCE_NUMBER /\ s.results \in Nat
         /\ s.p2pDataSeqNumber \in Int /\ MAX_SEQUENCE_NUMBER \in Nat \ {0}
         /\ \A d \in s.sent : d[1] \in Nat /\ d[2] \in Messages
BY SentOK, NumberAssumption DEF SessionOK, NumbersOK, SeqNos

\* What was sent and how it is mapped says nothing of timers, reports and the queue.
LEMMA WorksSame ==
  ASSUME NEW s, NEW t, NEW st, Works(s, st), t.connected = s.connected, SameNumbers(s, t), t.sent = s.sent,
         Listed(t) \subseteq Listed(s)
  PROVE  Works(t, st)
BY DEF Works, Counts, Mapped, MappedTo, Outstanding, SameNumbers

\* A datagram under a new number gets the next number of the results, unless it is a ping.
LEMMA WorksFresh ==
  ASSUME NEW s, SessionOK(s), NEW st, StationTyped(st), NEW t, NEW m \in Messages \ {Gateway}, Works(s, st),
         s.seqNumber < MAX_SEQUENCE_NUMBER,
         t.connected, t.seqNumber = IncrementSequence(s.seqNumber), Counted(s, t, m, s.seqNumber),
         t.sent = s.sent \cup {<<s.seqNumber, m>>}, Gateway \notin Listed(t)
  PROVE  Works(t, st)
<1>. DEFINE N == s.seqNumber
            P == s.p2pDataSeqNumber
            new == <<N, m>>
<1>1. /\ N \in Nat /\ P \in Int /\ s.results \in Nat /\ Len(st.answers) \in Nat /\ st.seen \subseteq Nat
      /\ \A d \in s.sent : d[1] \in Nat
  BY NumberFacts DEF StationTyped
<1>2. /\ s.results <= Len(st.answers) /\ Len(st.answers) <= P /\ P <= N /\ P \in Nat
      /\ 0 \in st.seen /\ (\A n \in st.seen : n < N) /\ N > 0 /\ N \notin st.seen
  BY <1>1 DEF Works, Counts
<1>3. /\ t.seqNumber = N + 1 /\ t.results = s.results /\ new[1] = N /\ new[2] = m /\ t.sent = s.sent \cup {new}
      /\ IncrementSequence(P) = P + 1
  BY <1>1, <1>2, NumberAssumption DEF Counted, IncrementSequence
<1>. HIDE DEF new, N, P
<1>4. Mapped(s, st)
  BY DEF Works
<1>5. \A d \in t.sent : d[2] = Gateway => d[1] = 0
  BY <1>3 DEF Works
<1>6. ASSUME NEW k \in Outstanding(s)
      PROVE  /\ k \in DOMAIN s.p2pSeqMapping /\ s.p2pSeqMapping[k] < N /\ s.p2pSeqMapping[k] # 0
             /\ MappedTo(t, st, k, s.p2pSeqMapping[k])
  BY <1>1, <1>3, <1>4 DEF Mapped, MappedTo, N
<1>7. CASE m \in PingCommands
  <2>1. t.p2pSeqMapping = s.p2pSeqMapping /\ t.p2pDataSeqNumber = P
    BY <1>7 DEF Counted, P
  <2>2. Counts(t, st)
    BY <1>1, <1>2, <1>3, <2>1 DEF Counts
  <2>3. Outstanding(t) = Outstanding(s)
    BY <1>3, <2>1 DEF Outstanding, P
  <2>4. Mapped(t, st)
    BY <1>3, <1>4, <1>6, <1>7, <2>1, <2>3 DEF Mapped
  <2>. QED BY <1>5, <2>2, <2>4 DEF Works
<1>8. CASE m \notin PingCommands
  <2>1. t.p2pSeqMapping = WithEntry(s.p2pSeqMapping, P, N) /\ t.p2pDataSeqNumber = P + 1
    BY <1>3, <1>8 DEF Counted, P, N
  <2>2. Counts(t, st)
    BY <1>1, <1>2, <1>3, <2>1 DEF Counts
  <2>3. /\ \A k \in Outstanding(t) : k \in Outstanding(s) \/ k = P
        /\ \A k \in Outstanding(s) : k \in Outstanding(t) /\ k \in Int /\ k < P
        /\ P \in Outstanding(t)
    BY <1>1, <1>2, <1>3, <2>1 DEF Outstanding, P
  <2>4. /\ \A k \in Outstanding(s) : k \in DOMAIN t.p2pSeqMapping /\ t.p2pSeqMapping[k] = s.p2pSeqMapping[k]
        /\ P \in DOMAIN t.p2pSeqMapping /\ t.p2pSeqMapping[P] = N
    <3>1. /\ DOMAIN t.p2pSeqMapping = DOMAIN s.p2pSeqMapping \cup {P}
          /\ \A k \in DOMAIN t.p2pSeqMapping : t.p2pSeqMapping[k] = IF k = P THEN N ELSE s.p2pSeqMapping[k]
      BY <2>1 DEF WithEntry
    <3>2. \A k \in Outstanding(s) : k # P
      BY <1>1, <1>2, <2>3
    <3>. QED BY <1>6, <3>1, <3>2
  <2>5. MappedTo(t, st, P, N)
    BY <1>1, <1>2, <1>3, <1>8 DEF MappedTo
  <2>6. ASSUME NEW k \in Outstanding(t), NEW l \in Outstanding(t), k < l
        PROVE  t.p2pSeqMapping[k] < t.p2pSeqMapping[l]
    <3>1. k \in Outstanding(s)
      <4>1. k # P
        BY <1>2, <2>3, <2>6
      <4>. QED BY <2>3, <4>1
    <3>2. CASE l \in Outstanding(s)
      BY <1>4, <2>4, <2>6, <3>1, <3>2 DEF Mapped
    <3>3. CASE l = P
      BY <1>6, <2>4, <3>1, <3>3
    <3>. QED BY <2>3, <3>2, <3>3
  <2>7. ASSUME NEW d \in t.sent, d[2] \notin PingCommands, d[1] \notin st.seen
        PROVE  \E k \in Outstanding(t) : t.p2pSeqMapping[k] = d[1]
    <3>1. CASE d = new
      BY <1>3, <2>3, <2>4, <3>1
    <3>2. CASE d \in s.sent
      BY <1>4, <2>3, <2>4, <2>7, <3>2 DEF Mapped
    <3>. QED BY <1>3, <3>1, <3>2
  <2>8. \A k \in Outstanding(t) : k \in DOMAIN t.p2pSeqMapping /\ MappedTo(t, st, k, t.p2pSeqMapping[k])
    BY <1>6, <2>3, <2>4, <2>5
  <2>9. Mapped(t, st)
    BY <2>6, <2>7, <2>8 DEF Mapped
  <2>. QED BY <1>5, <2>2, <2>9 DEF Works
<1>. QED BY <1>7, <1>8

\* An answer that is taken is no longer mapped; the others are.
LEMMA WorksTaken ==
  ASSUME NEW s, SessionOK(s), NEW st, StationTyped(st), NEW t, Works(s, st), s.results < Len(st.answers),
         t.connected = s.connected, t.seqNumber = s.seqNumber, t.p2pDataSeqNumber = s.p2pDataSeqNumber,
         t.results = s.results + 1, t.p2pSeqMapping = WithoutKeys(s.p2pSeqMapping, {s.results}),
         t.sent = s.sent, Listed(t) \subseteq Listed(s)
  PROVE  Works(t, st)
<1>1. s.results \in Nat /\ Len(st.answers) \in Nat /\ s.p2pDataSeqNumber \in Int
  BY NumberFacts DEF StationTyped
<1>2. /\ \A k \in Outstanding(t) : k \in Outstanding(s) /\ k # s.results
      /\ \A k \in Outstanding(s) : k \in Outstanding(t) \/ k = s.results
      /\ s.results \in Outstanding(s)
  BY <1>1 DEF Outstanding, Works, Counts
<1>3. \A k \in Outstanding(t) : k \in DOMAIN s.p2pSeqMapping =>
        k \in DOMAIN t.p2pSeqMapping /\ t.p2pSeqMapping[k] = s.p2pSeqMapping[k]
  <2>1. /\ DOMAIN t.p2pSeqMapping = DOMAIN s.p2pSeqMapping \ {s.results}
        /\ \A k \in DOMAIN t.p2pSeqMapping : t.p2pSeqMapping[k] = s.p2pSeqMapping[k]
    BY DEF WithoutKeys, Restrict
  <2>. QED BY <1>2, <2>1
<1>4. Counts(t, st)
  BY <1>1 DEF Works, Counts
<1>5. \A k \in Outstanding(t) : k \in DOMAIN s.p2pSeqMapping /\ MappedTo(t, st, k, s.p2pSeqMapping[k])
  BY <1>2 DEF Works, Mapped, MappedTo
<1>6. s.p2pSeqMapping[s.results] \in st.seen
  BY <1>2 DEF Works, Mapped, MappedTo
<1>7. Mapped(t, st)
  <2>1. Mapped(s, st)
    BY DEF Works
  <2>2. \A k \in Outstanding(t) :
          /\ k \in DOMAIN t.p2pSeqMapping /\ t.p2pSeqMapping[k] = s.p2pSeqMapping[k]
          /\ MappedTo(t, st, k, t.p2pSeqMapping[k])
    BY <1>3, <1>5
  <2>3. \A k, l \in Outstanding(t) : k < l => t.p2pSeqMapping[k] < t.p2pSeqMapping[l]
    BY <1>2, <2>1, <2>2 DEF Mapped
  <2>4. \A d \in t.sent : d[2] \notin PingCommands /\ d[1] \notin st.seen =>
          \E k \in Outstanding(t) : t.p2pSeqMapping[k] = d[1]
    BY <1>2, <1>6, <2>1, <2>2 DEF Mapped
  <2>. QED BY <2>2, <2>3, <2>4 DEF Mapped
<1>. QED BY <1>4, <1>7 DEF Works

\* The next datagram the station takes is the one its next answer is mapped to, unless it is a ping.
LEMMA StationTakesLinked ==
  ASSUME NEW s, SessionOK(s), NEW st, StationTyped(st), Works(s, st), NumberedOnce(s),
         NEW n, NEW m, <<n, m>> \in s.sent, n \notin st.seen, 0 .. n - 1 \subseteq st.seen,
         NEW u, u.seen = st.seen \cup {n},
         \/ m \in PingCommands /\ u.answers = st.answers
         \/ /\ m \notin PingCommands
            /\ \E failed \in BOOLEAN : u.answers = Append(st.answers, [from |-> m, failed |-> failed])
  PROVE  Works(s, u) /\ m # Gateway
<1>. DEFINE datagram == <<n, m>>
            L == Len(st.answers)
<1>1. /\ datagram \in s.sent /\ datagram[1] = n /\ datagram[2] = m /\ n \in Nat /\ n < s.seqNumber
      /\ \A d \in s.sent : d[1] = n => d = datagram
      /\ s.results \in Nat /\ s.p2pDataSeqNumber \in Int /\ L \in Nat /\ st.seen \subseteq Nat
      /\ \A d \in s.sent : d[1] \in Nat
  BY NumberFacts DEF NumberedOnce, StationTyped
<1>2. Mapped(s, st) /\ Counts(s, st)
  BY DEF Works
<1>. HIDE DEF datagram
<1>3. m # Gateway
  BY <1>1, <1>2 DEF Works, Counts
<1>4. CASE m \in PingCommands /\ u.answers = st.answers
  <2>1. ASSUME NEW k \in Outstanding(s) PROVE MappedTo(s, u, k, s.p2pSeqMapping[k])
    <3>1. s.p2pSeqMapping[k] # n
      BY <1>1, <1>2, <1>4 DEF Mapped, MappedTo
    <3>. QED BY <1>2, <1>4, <3>1 DEF Mapped, MappedTo
  <2>2. Mapped(s, u)
    BY <1>2, <2>1 DEF Mapped
  <2>3. Counts(s, u)
    BY <1>1, <1>2, <1>4 DEF Counts
  <2>. QED BY <1>3, <2>2, <2>3 DEF Works
<1>5. CASE /\ m \notin PingCommands
           /\ \E failed \in BOOLEAN : u.answers = Append(st.answers, [from |-> m, failed |-> failed])
  <2>1. PICK failed \in BOOLEAN : u.answers = Append(st.answers, [from |-> m, failed |-> failed])
    BY <1>5
  <2>2. /\ Len(u.answers) = L + 1 /\ u.answers[L + 1].from = m
        /\ \A k \in 1 .. L : u.answers[k] = st.answers[k]
    <3>. DEFINE answer == [from |-> m, failed |-> failed]
    <3>1. answer.from = m /\ u.answers = Append(st.answers, answer)
      BY <2>1
    <3>. HIDE DEF answer
    <3>. QED BY <3>1 DEF StationTyped
  <2>3. PICK k \in Outstanding(s) : s.p2pSeqMapping[k] = n
    BY <1>1, <1>2, <1>5 DEF Mapped
  <2>4. \A l \in Outstanding(s) : l \in Int /\ s.results <= l /\ l < s.p2pDataSeqNumber
    BY <1>1 DEF Outstanding
  <2>5. ~(k < L)
    BY <1>2, <2>3 DEF Mapped, MappedTo
  <2>6. k = L
    <3>. SUFFICES ASSUME L < k PROVE FALSE
      BY <1>1, <2>4, <2>5
    <3>1. L \in Outstanding(s)
      BY <1>1, <1>2, <2>4 DEF Outstanding, Counts
    <3>2. s.p2pSeqMapping[L] < n
      BY <1>2, <2>3, <3>1 DEF Mapped
    <3>3. \E d \in s.sent : d[1] = s.p2pSeqMapping[L]
      BY <1>2, <3>1 DEF Mapped, MappedTo
    <3>4. s.p2pSeqMapping[L] \in 0 .. n - 1
      BY <1>1, <3>2, <3>3
    <3>5. L < L <=> s.p2pSeqMapping[L] \in st.seen
      BY <1>2, <3>1 DEF Mapped, MappedTo
    <3>. QED BY <1>1, <3>4, <3>5
  <2>7. ASSUME NEW l \in Outstanding(s) PROVE MappedTo(s, u, l, s.p2pSeqMapping[l])
    <3>1. MappedTo(s, st, l, s.p2pSeqMapping[l])
      BY <1>2 DEF Mapped
    <3>2. CASE l = L
      <4>1. s.p2pSeqMapping[l] = n /\ l < Len(u.answers) /\ u.answers[l + 1].from = m
        BY <1>1, <2>2, <2>3, <2>6, <3>2
      <4>. QED BY <1>1, <3>1, <4>1 DEF MappedTo, datagram
    <3>3. CASE l # L
      <4>1. s.p2pSeqMapping[l] # n
        BY <1>1, <1>2, <2>3, <2>4, <2>6, <3>3 DEF Mapped
      <4>2. l < Len(u.answers) <=> l < L
        BY <1>1, <2>2, <2>4, <3>3
      <4>3. l < L => u.answers[l + 1] = st.answers[l + 1]
        <5>1. l < L => l + 1 \in 1 .. L
          <6>1. l \in Int /\ 0 <= l
            BY <1>1, <2>4
          <6>. QED BY <1>1, <6>1
        <5>. QED BY <2>2, <5>1
      <4>. QED BY <3>1, <4>1, <4>2, <4>3 DEF MappedTo
    <3>. QED BY <3>2, <3>3
  <2>8. Mapped(s, u)
    BY <1>2, <2>7 DEF Mapped
  <2>9. Counts(s, u)
    BY <1>1, <1>2, <2>2, <2>3, <2>4, <2>6 DEF Counts
  <2>. QED BY <1>3, <2>8, <2>9 DEF Works
<1>. QED BY <1>4, <1>5

\* What is on its way after a datagram under a new number, and after an answer is taken.
LEMMA RetriedSame ==
  ASSUME NEW s, NEW t, NEW st, NEW done, Retried(s, st, done), t.sent = s.sent, t.results = s.results
  PROVE  Retried(t, st, done) /\ \A m : Open(s, st, done, m) => Open(t, st, done, m)
<1>1. Untaken(t, st) = Untaken(s, st) /\ Untold(t, st) = Untold(s, st)
  BY DEF Untaken, Untold
<1>2. RetriesInTime => OneOnItsWay(t, st, done)
  BY <1>1 DEF Retried, OneOnItsWay
<1>3. RefusedBefore(t, st, done)
  BY <1>1 DEF Retried, RefusedBefore
<1>4. \A m : Open(s, st, done, m) => Open(t, st, done, m)
  BY <1>1 DEF Open, NothingOnItsWay
<1>. QED BY <1>2, <1>3, <1>4 DEF Retried

LEMMA RetriedFresh ==
  ASSUME NEW s, NEW t, NEW st, NEW done, NEW n, NEW m, Retried(s, st, done),
         Open(s, st, done, m) \/ (NothingOnItsWay(s, st, done, m) /\ IsNew(done, m)),
         t.sent = s.sent \cup {<<n, m>>}, t.results = s.results
  PROVE  Retried(t, st, done)
<1>. DEFINE new == <<n, m>>
<1>1. new[2] = m /\ \A d \in Untaken(t, st) : d \in Untaken(s, st) \/ d = new
  BY DEF Untaken
<1>. HIDE DEF new
<1>2. Untold(t, st) = Untold(s, st)
  BY DEF Untold
<1>3. ASSUME RetriesInTime PROVE OneOnItsWay(t, st, done)
  <2>1. OneOnItsWay(s, st, done) /\ NothingOnItsWay(s, st, done, m)
    BY <1>3 DEF Retried, Open
  <2>2. ASSUME NEW d \in Untaken(t, st)
        PROVE  /\ \A e \in Untaken(t, st) : e[2] = d[2] => e = d
               /\ \A k \in Untold(s, st) : st.answers[k].from # d[2]
               /\ OnlyRefused(done, d[2])
    BY <1>1, <2>1 DEF OneOnItsWay, NothingOnItsWay
  <2>. QED BY <1>2, <2>1, <2>2 DEF OneOnItsWay
<1>4. ASSUME NEW d \in Untaken(t, st), ~RefusedFirst(done, d[2])
      PROVE  IsNew(done, d[2]) /\ \A e \in Untaken(t, st) : e[2] = d[2] => e = d
  <2>1. CASE RefusedFirst(done, m)
    BY <1>1, <1>4, <2>1 DEF Retried, RefusedBefore
  <2>2. CASE NothingOnItsWay(s, st, done, m) /\ IsNew(done, m)
    BY <1>1, <1>4, <2>2 DEF Retried, RefusedBefore, NothingOnItsWay
  <2>. QED BY <2>1, <2>2 DEF Open
<1>5. RefusedBefore(t, st, done)
  BY <1>2, <1>4 DEF Retried, RefusedBefore
<1>. QED BY <1>3, <1>5 DEF Retried

LEMMA RetriedTaken ==
  ASSUME NEW s, SessionOK(s), NEW t, NEW st, StationTyped(st), NEW done, Retried(s, st, done),
         t.sent = s.sent, t.results = s.results + 1, s.results < Len(st.answers)
  PROVE  LET answer == st.answers[s.results + 1]
         IN /\ Retried(t, st, done)
            /\ answer.failed => Open(t, st, done, answer.from)
<1>. DEFINE K == s.results + 1
<1>1. s.results \in Nat /\ Len(st.answers) \in Nat
  BY NumberFacts DEF StationTyped
<1>2. /\ K \in Untold(s, st) /\ Untaken(t, st) = Untaken(s, st)
      /\ \A k \in Untold(t, st) : k \in Untold(s, st) /\ k # K
  BY <1>1 DEF Untold, Untaken
<1>. HIDE DEF K
<1>3. Retried(t, st, done)
  <2>1. RetriesInTime => OneOnItsWay(t, st, done)
    BY <1>2 DEF Retried, OneOnItsWay
  <2>2. RefusedBefore(t, st, done)
    BY <1>2 DEF Retried, RefusedBefore
  <2>. QED BY <2>1, <2>2 DEF Retried
<1>4. st.answers[K].failed => Open(t, st, done, st.answers[K].from)
  <2>1. st.answers[K].failed /\ RetriesInTime => NothingOnItsWay(t, st, done, st.answers[K].from)
    BY <1>2 DEF Retried, OneOnItsWay, NothingOnItsWay
  <2>2. st.answers[K].failed => RefusedFirst(done, st.answers[K].from)
    BY <1>2 DEF Retried, RefusedBefore
  <2>. QED BY <2>1, <2>2 DEF Open
<1>. QED BY <1>3, <1>4 DEF K

\* Reports: none, or one that is not about another message.
LEMMA OwnSame ==
  ASSUME NEW s, NEW t, OwnResults(s), t.events = s.events, t.customDataStaging = s.customDataStaging
  PROVE  OwnResults(t)
BY DEF OwnResults

LEMMA OwnMore ==
  ASSUME NEW s, SessionOK(s), NEW t, NEW m \in Messages, NEW event, OwnResults(s), OneMore(s, t, m, event),
         \A type \in DOMAIN t.customDataStaging :
           type \in DOMAIN s.customDataStaging /\ t.customDataStaging[type] = s.customDataStaging[type],
         OwnTypes /\ event.code \in {"RESULT", "SECOND_RESULT"} => event.from = m
  PROVE  OwnResults(t)
<1>1. s.events[m] \in Seq(Events)
  BY DEF SessionOK, ReportsOK
<1>. DEFINE e == s.events[m]
            n == Len(e)
<1>2. /\ n \in Nat /\ DOMAIN t.events[m] = 1 .. n + 1 /\ t.events[m][n + 1] = event
      /\ \A i \in 1 .. n : i \in DOMAIN e /\ t.events[m][i] = e[i]
  BY <1>1 DEF OneMore
<1>3. \A i \in 1 .. n + 1 : i \in 1 .. n \/ i = n + 1
  BY <1>2
<1>. HIDE DEF e, n
<1>4. ASSUME OwnTypes, NEW x \in Messages, NEW i \in DOMAIN t.events[x],
             t.events[x][i].code \in {"RESULT", "SECOND_RESULT"}
      PROVE  t.events[x][i].from = x
  <2>1. CASE x # m
    BY <1>4, <2>1 DEF OwnResults, OneMore
  <2>2. CASE x = m /\ i \in 1 .. n
    BY <1>2, <1>4, <2>2 DEF OwnResults, e
  <2>3. CASE x = m /\ i = n + 1
    BY <1>2, <1>4, <2>3
  <2>. QED BY <1>2, <1>3, <1>4, <2>1, <2>2, <2>3
<1>. QED BY <1>4 DEF OwnResults

\* What remains of the queue when its head has left.
LEMMA TailFacts ==
  ASSUME NEW s, SessionOK(s), s.sendQueue # <<>>, NEW t, t.sendQueue = Tail(s.sendQueue)
  PROVE  /\ 1 \in DOMAIN s.sendQueue /\ Head(s.sendQueue) = s.sendQueue[1]
         /\ Head(s.sendQueue) \in [command : Messages, aged : BOOLEAN]
         /\ NoneAged(s) => NoneAged(t) /\ ("ageing" \notin Faults => ~Head(s.sendQueue).aged)
<1>1. s.sendQueue \in Seq([command : Messages, aged : BOOLEAN])
  BY DEF SessionOK, QueueOK
<1>2. \A i \in DOMAIN t.sendQueue : i + 1 \in DOMAIN s.sendQueue /\ t.sendQueue[i] = s.sendQueue[i + 1]
  BY <1>1
<1>3. 1 \in DOMAIN s.sendQueue /\ Head(s.sendQueue) = s.sendQueue[1]
      /\ Head(s.sendQueue) \in [command : Messages, aged : BOOLEAN]
  <2>. DEFINE E == [command : Messages, aged : BOOLEAN]
              queue == s.sendQueue
  <2>1. queue \in Seq(E) /\ queue # <<>>
    BY <1>1
  <2>. HIDE DEF E, queue
  <2>2. 1 \in DOMAIN queue /\ Head(queue) = queue[1] /\ Head(queue) \in E
    BY <2>1
  <2>. QED BY <2>2 DEF E, queue
<1>. QED BY <1>2, <1>3 DEF NoneAged

\* The queue goes on, waits, or is empty.
LEMMA SendQueuedMessageSound ==
  ASSUME NEW s, SessionOK(s), NEW st, StationTyped(st), NEW done, Sound(s, st, done), Ready(s, done)
  PROVE  LET t == SendQueuedMessage(s)
         IN Sound(t, st, done) /\ (Timed(s, {}) => Timed(t, {})) /\ Awake(t)
<1>. DEFINE t == SendQueuedMessage(s)
<1>1. Idle(s, t) \/ Asked(s, t) \/ TookHead(s, t)
  BY SendQueuedMessageFields
<1>. HIDE DEF t
<1>2. /\ Linked(s, st) /\ TimersListed(s) /\ OwnResults(s) /\ Retried(s, st, done) /\ NoneAged(s)
      /\ NumberedOnce(s) /\ KeyedByNumber(s) /\ s.seqNumber < MAX_SEQUENCE_NUMBER
  BY DEF Sound, Ready
<1>3. CASE Idle(s, t)
  <2>1. t = s /\ Awake(t)
    BY <1>3 DEF Idle, Awake
  <2>. QED BY <2>1 DEF t
<1>4. CASE Asked(s, t)
  <2>1. Apart(t, st)
    BY <1>2, <1>4 DEF Linked, Apart, InHandshake, Works, Asked, SameNumbers, SameMessages
  <2>2. TimersListed(t) /\ OwnResults(t) /\ Retried(t, st, done) /\ NoneAged(t)
    BY <1>2, <1>4, OwnSame, RetriedSame
    DEF TimersListed, Listed, NoneAged, Asked, SameNumbers, SameMessages, SameStages
  <2>3. Timed(s, {}) => Timed(t, {})
    BY <1>4 DEF Timed, Listed, Asked, SameMessages
  <2>4. Awake(t)
    BY <1>4 DEF Awake, Asked
  <2>. QED BY <2>1, <2>2, <2>3, <2>4 DEF Sound, Linked, t
<1>5. CASE TookHead(s, t)
  <2>. DEFINE m == Head(s.sendQueue).command
  <2>1. /\ s.connected /\ s.sendQueue # <<>> /\ ~WaitingAcknowledge(s) /\ t.sendQueue = Tail(s.sendQueue)
        /\ IF Head(s.sendQueue).aged THEN ReportedAged(s, t, m) ELSE SentFresh(s, t, m)
    BY <1>5 DEF TookHead
  <2>2. /\ NoneAged(t) /\ ("ageing" \notin Faults => ~Head(s.sendQueue).aged)
        /\ 1 \in DOMAIN s.sendQueue /\ m = s.sendQueue[1].command
    BY <1>2, <2>1, TailFacts
  <2>3. /\ m \in Commands /\ m \in Messages /\ m # Gateway /\ ~WasSent(s, m)
        /\ \A j \in DOMAIN done : done[j].command # m
    BY <2>2, CommandAssumption DEF Ready, AllNew, Messages
  <2>. HIDE DEF m
  <2>4. Works(s, st)
    <3>1. ~InHandshake(s, st)
      BY <2>1 DEF InHandshake, WaitingAcknowledge, Listed, Range
    <3>. QED BY <1>2, <2>1, <3>1 DEF Linked, Apart
  <2>5. CASE ReportedAged(s, t, m) /\ Head(s.sendQueue).aged
    <3>1. Works(t, st)
      BY <2>4, <2>5, WorksSame DEF ReportedAged, SameLink, SameMessages, Listed
    <3>2. TimersListed(t) /\ Retried(t, st, done)
      BY <1>2, <2>5, RetriedSame DEF TimersListed, Listed, ReportedAged, SameMessages, SameNumbers
    <3>3. OwnResults(t)
      <4>1. CASE m \in Pings
        BY <1>2, <2>5, <4>1, OwnSame DEF ReportedAged, SameStages
      <4>2. CASE m \notin Pings
        BY <1>2, <2>3, <2>5, <4>2, OwnMore, CodesOK DEF ReportedAged, SameStages
      <4>. QED BY <4>1, <4>2
    <3>4. Timed(s, {}) => Timed(t, {})
      BY <2>5 DEF Timed, Listed, ReportedAged, SameMessages
    <3>5. Awake(t)
      BY <2>2, <2>5 DEF Awake
    <3>. QED BY <2>2, <3>1, <3>2, <3>3, <3>4, <3>5 DEF Sound, Linked, t
  <2>6. CASE SentFresh(s, t, m)
    <3>1. /\ t.connected /\ t.seqNumber = IncrementSequence(s.seqNumber) /\ Counted(s, t, m, s.seqNumber)
          /\ t.sent = s.sent \cup {<<s.seqNumber, m>>} /\ t.results = s.results
          /\ SameStages(s, t) /\ t.events = s.events
      BY <2>1, <2>6 DEF SentFresh, SameLink, Counted
    <3>2. /\ t.messageStates = WithEntry(s.messageStates, s.seqNumber, m)
          /\ t.msg[m].timeout = "ack" /\ ~t.msg[m].acknowledged
          /\ \A x \in Messages \ {m} : t.msg[x] = s.msg[x]
      BY <2>6 DEF SentFresh
    <3>3. Listed(t) = Listed(s) \cup {m}
      <4>1. s.seqNumber \notin DOMAIN s.messageStates
        <5>. DEFINE d == <<s.seqNumber, s.messageStates[s.seqNumber]>>
        <5>1. d \notin s.sent
          BY <1>2, NumberFacts DEF NumberedOnce
        <5>. QED BY <1>2, <5>1 DEF NumberedOnce
      <4>. QED BY <3>2, <4>1 DEF Listed, Range, WithEntry
    <3>4. Works(t, st)
      <4>1. Gateway \notin Listed(t)
        BY <2>3, <2>4, <3>3 DEF Works
      <4>. QED BY <1>2, <2>3, <2>4, <3>1, <4>1, WorksFresh
    <3>5. TimersListed(t)
      BY <1>2, <3>2, <3>3 DEF TimersListed
    <3>6. Retried(t, st, done)
      <4>1. \A d \in Untaken(s, st) : d[2] # m
        BY <2>3 DEF Untaken, WasSent
      <4>2. \A k \in Untold(s, st) : st.answers[k].from # m
        <5>1. \A k \in Untold(s, st) : k \in DOMAIN st.answers
          BY NumberFacts DEF Untold, StationTyped
        <5>. QED BY <1>2, <2>3, <5>1 DEF Retried, RefusedBefore, IsNew
      <4>3. OnlyRefused(done, m) /\ IsNew(done, m)
        BY <2>3 DEF OnlyRefused, IsNew
      <4>4. NothingOnItsWay(s, st, done, m)
        BY <4>1, <4>2, <4>3 DEF NothingOnItsWay
      <4>. QED BY <1>2, <3>1, <4>3, <4>4, RetriedFresh
    <3>7. OwnResults(t)
      BY <1>2, <3>1, OwnSame DEF SameStages
    <3>8. Timed(s, {}) => Timed(t, {})
      <4>1. Listed(s) \subseteq Messages
        BY DEF SessionOK, MessagesOK, Listed, Range
      <4>. QED BY <3>2, <3>3, <4>1 DEF Timed
    <3>9. Awake(t)
      BY <3>2, <3>3 DEF Awake, WaitingAcknowledge
    <3>. QED BY <2>2, <3>4, <3>5, <3>6, <3>7, <3>8, <3>9 DEF Sound, Linked, t
  <2>. QED BY <2>1, <2>5, <2>6
<1>. QED BY <1>1, <1>3, <1>4, <1>5 DEF t, Sound

\* What has not to do with a message that is no longer listed.
LEMMA EndedSound ==
  ASSUME NEW s, SessionOK(s), NEW st, NEW done, Sound(s, st, done), Ready(s, done), Works(s, st),
         NEW key \in DOMAIN s.messageStates, NEW m \in Messages, s.messageStates[key] = m,
         NEW q, q.connected = s.connected, SameNumbers(s, q), q.sendQueue = s.sendQueue, q.sent = s.sent,
         q.messageStates = WithoutKeys(s.messageStates, {key}), q.msg[m].timeout = "none",
         \A x \in Messages \ {m} : q.msg[x] = s.msg[x],
         OwnResults(q)
  PROVE  /\ m \in Commands /\ Works(q, st) /\ Sound(q, st, done) /\ Ready(q, done)
         /\ Timed(s, {m}) => Timed(q, {})
<1>1. m \in Commands
  BY DEF Works, Listed, Range, Messages
<1>2. /\ DOMAIN q.messageStates = DOMAIN s.messageStates \ {key}
      /\ \A k \in DOMAIN q.messageStates : q.messageStates[k] = s.messageStates[k]
  BY DEF WithoutKeys, Restrict
<1>3. s.messageStates \in [DOMAIN s.messageStates -> Messages]
  BY DEF SessionOK, MessagesOK
<1>4. /\ TimersListed(s) /\ Retried(s, st, done) /\ NoneAged(s)
      /\ NumberedOnce(s) /\ KeyedByNumber(s) /\ s.seqNumber < MAX_SEQUENCE_NUMBER
  BY DEF Sound, Ready
<1>5. \A k \in DOMAIN q.messageStates : q.messageStates[k] # m
  BY <1>1, <1>2, <1>4 DEF KeyedByNumber
<1>6. Listed(q) = Listed(s) \ {m}
  BY <1>2, <1>5 DEF Listed, Range
<1>7. Works(q, st)
  BY <1>6, WorksSame
<1>8. TimersListed(q)
  BY <1>4, <1>6 DEF TimersListed
<1>9. Retried(q, st, done) /\ NoneAged(q)
  BY <1>4, RetriedSame DEF NoneAged, SameNumbers
<1>10. Ready(q, done)
  <2>1. NumberedOnce(q)
    BY <1>2, <1>4 DEF NumberedOnce, SameNumbers
  <2>2. KeyedByNumber(q)
    BY <1>2, <1>3, <1>4, <1>5 DEF KeyedByNumber
  <2>. QED BY <2>1, <2>2 DEF Ready, AllNew, SameNumbers, WasSent
<1>11. Timed(s, {m}) => Timed(q, {})
  <2>1. Listed(s) \subseteq Messages
    BY <1>3 DEF Listed, Range
  <2>. QED BY <1>6, <2>1 DEF Timed
<1>. QED BY <1>1, <1>7, <1>8, <1>9, <1>10, <1>11 DEF Sound, Linked

\* A message the station refused is sent again under a new number, or given up.
LEMMA SendCommandAgainSound ==
  ASSUME NEW s, SessionOK(s), NEW st, StationTyped(st), NEW done, Sound(s, st, done), Ready(s, done), Works(s, st),
         NEW key \in DOMAIN s.messageStates, NEW m \in Messages, s.messageStates[key] = m,
         s.msg[m].failed, s.msg[m].timeout = "none", Open(s, st, done, m)
  PROVE  LET t == SendCommandAgain(s, m)
         IN Sound(t, st, done) /\ (Timed(s, {m}) => Timed(t, {})) /\ (Awake(s) => Awake(t))
<1>. DEFINE t == SendCommandAgain(s, m)
            over == IF m = Gateway THEN s ELSE Emit(s, m, Event("COMMAND_TIMEOUT", None))
<1>1. /\ s.msg[m].retries < MAX_RETRIES => SentAgain(s, t, m)
      /\ ~(s.msg[m].retries < MAX_RETRIES) => t = SendQueuedMessage(Unlist(over, s.msg[m].sequence))
  BY SendCommandAgainFields
<1>2. m \in Commands /\ m # Gateway /\ s.msg[m].sequence = key
  BY CommandAssumption DEF Works, Listed, Range, Messages, Ready, KeyedByNumber
<1>3. /\ TimersListed(s) /\ Retried(s, st, done) /\ NoneAged(s) /\ OwnResults(s)
      /\ NumberedOnce(s) /\ KeyedByNumber(s) /\ s.seqNumber < MAX_SEQUENCE_NUMBER /\ s.connected
  BY DEF Sound, Ready, Works
<1>4. Listed(s) \subseteq Messages /\ m \in Listed(s)
  BY DEF SessionOK, MessagesOK, Listed, Range
<1>. HIDE DEF t
<1>5. CASE s.msg[m].retries < MAX_RETRIES
  <2>. DEFINE others == WithoutKeys(s.messageStates, {key})
  <2>1. SentAgain(s, t, m)
    BY <1>1, <1>5
  <2>2. /\ t.connected /\ t.seqNumber = IncrementSequence(s.seqNumber) /\ Counted(s, t, m, s.seqNumber)
        /\ t.sent = s.sent \cup {<<s.seqNumber, m>>} /\ t.results = s.results
        /\ SameStages(s, t) /\ t.events = s.events /\ t.sendQueue = s.sendQueue
    BY <1>3, <2>1 DEF SentAgain, SameLink, Counted
  <2>3. /\ t.messageStates = WithEntry(others, s.seqNumber, m)
        /\ t.msg[m].timeout = "ack" /\ t.msg[m].acknowledged = s.msg[m].acknowledged
        /\ \A x \in Messages \ {m} : t.msg[x] = s.msg[x]
    BY <1>2, <2>1 DEF SentAgain
  <2>4. Listed(t) = Listed(s)
    <3>1. s.seqNumber \notin DOMAIN s.messageStates
      <4>. DEFINE d == <<s.seqNumber, s.messageStates[s.seqNumber]>>
      <4>1. d \notin s.sent
        BY <1>3, NumberFacts DEF NumberedOnce
      <4>. QED BY <1>3, <4>1 DEF NumberedOnce
    <3>2. DOMAIN others = DOMAIN s.messageStates \ {key} /\ \A k \in DOMAIN others : others[k] = s.messageStates[k]
      BY DEF WithoutKeys, Restrict
    <3>. HIDE DEF others
    <3>3. Range(others) \cup {m} = Range(s.messageStates)
      BY <3>2 DEF Range
    <3>4. Range(t.messageStates) = Range(others) \cup {m}
      BY <2>3, <3>1, <3>2 DEF WithEntry, Range
    <3>. QED BY <3>3, <3>4 DEF Listed
  <2>. HIDE DEF others
  <2>5. Works(t, st)
    BY <1>2, <1>3, <2>2, <2>4, WorksFresh DEF Works
  <2>6. TimersListed(t)
    BY <1>3, <1>4, <2>3, <2>4 DEF TimersListed
  <2>7. Retried(t, st, done) /\ NoneAged(t) /\ OwnResults(t)
    BY <1>3, <2>2, RetriedFresh, OwnSame DEF NoneAged, SameStages
  <2>8. Timed(s, {m}) => Timed(t, {})
    BY <1>4, <2>3, <2>4 DEF Timed
  <2>9. Awake(s) => Awake(t)
    <3>1. WaitingAcknowledge(s) => WaitingAcknowledge(t)
      BY <1>4, <2>3, <2>4 DEF WaitingAcknowledge
    <3>. QED BY <1>3, <2>2, <3>1 DEF Awake, SameStages
  <2>. QED BY <2>5, <2>6, <2>7, <2>8, <2>9 DEF Sound, Linked, t
<1>6. CASE ~(s.msg[m].retries < MAX_RETRIES)
  <2>. DEFINE event == Event("COMMAND_TIMEOUT", None)
              o == Emit(s, m, event)
              q == Unlist(o, key)
  <2>1. t = SendQueuedMessage(q)
    BY <1>1, <1>2, <1>6
  <2>2. event \in Events /\ event.code = "COMMAND_TIMEOUT"
    BY CodesOK
  <2>. HIDE DEF event
  <2>3. /\ SessionOK(o) /\ SameLink(s, o) /\ SameNumbers(s, o) /\ SameMessages(s, o) /\ SameStages(s, o)
        /\ o.sendQueue = s.sendQueue /\ OneMore(s, o, m, event)
    BY <2>2, EmitOK, EmitFields
  <2>. HIDE DEF o
  <2>4. /\ SessionOK(q) /\ SameLink(o, q) /\ SameNumbers(o, q) /\ SameStages(o, q)
        /\ q.sendQueue = o.sendQueue /\ q.events = o.events
        /\ q.messageStates = WithoutKeys(o.messageStates, {key}) /\ q.msg = o.msg /\ q.sent = o.sent
    BY <2>3, UnlistOK, UnlistFields
  <2>. HIDE DEF q
  <2>5. /\ q.connected = s.connected /\ SameNumbers(s, q) /\ q.sendQueue = s.sendQueue /\ q.sent = s.sent
        /\ q.messageStates = WithoutKeys(s.messageStates, {key}) /\ q.msg = s.msg
        /\ OneMore(s, q, m, event) /\ q.customDataStaging = s.customDataStaging
    BY <2>3, <2>4 DEF SameLink, SameNumbers, SameMessages, SameStages, OneMore
  <2>6. OwnResults(q)
    BY <1>3, <2>2, <2>5, OwnMore
  <2>7. Sound(q, st, done) /\ Ready(q, done) /\ (Timed(s, {m}) => Timed(q, {}))
    BY <2>5, <2>6, EndedSound
  <2>. QED BY <2>1, <2>4, <2>7, SendQueuedMessageSound DEF t
<1>. QED BY <1>5, <1>6 DEF t

\* What is listed and sent stays as it is, and nothing old comes into the queue.
LEMMA SoundKept ==
  ASSUME NEW s, SessionOK(s), NEW st, NEW done, Sound(s, st, done), Ready(s, done),
         NEW q, q.connected = s.connected, SameNumbers(s, q), q.sent = s.sent, q.messageStates = s.messageStates,
         \A x \in Messages : /\ q.msg[x].sequence = s.msg[x].sequence
                             /\ q.msg[x].timeout # "none" => x \in Listed(s),
         OwnResults(q), NoneAged(q), AllNew(q, done)
  PROVE  /\ Sound(q, st, done) /\ Ready(q, done) /\ Listed(q) = Listed(s)
         /\ Works(s, st) => Works(q, st)
         /\ InHandshake(s, st) => InHandshake(q, st)
<1>1. Listed(q) = Listed(s)
  BY DEF Listed
<1>2. Works(s, st) => Works(q, st)
  BY <1>1, WorksSame
<1>3. InHandshake(s, st) => InHandshake(q, st)
  BY DEF InHandshake, SameNumbers, Messages
<1>4. Apart(s, st) => Apart(q, st)
  BY DEF Apart, SameNumbers
<1>5. TimersListed(q) /\ Retried(q, st, done)
  BY <1>1, RetriedSame DEF TimersListed, Sound, SameNumbers
<1>6. Ready(q, done)
  <2>1. NumberedOnce(q)
    BY DEF Ready, NumberedOnce, SameNumbers
  <2>2. KeyedByNumber(q)
    BY DEF Ready, KeyedByNumber, Messages
  <2>. QED BY <2>1, <2>2 DEF Ready, SameNumbers
<1>. QED BY <1>1, <1>2, <1>3, <1>4, <1>5, <1>6 DEF Sound, Linked

LEMMA SoundSame ==
  ASSUME NEW s, SessionOK(s), NEW st, NEW done, Sound(s, st, done), Ready(s, done),
         NEW q, q.connected = s.connected, SameNumbers(s, q), q.sendQueue = s.sendQueue, q.sent = s.sent,
         q.messageStates = s.messageStates,
         \A x \in Messages : /\ q.msg[x].sequence = s.msg[x].sequence
                             /\ q.msg[x].timeout # "none" => x \in Listed(s),
         OwnResults(q)
  PROVE  /\ Sound(q, st, done) /\ Ready(q, done) /\ Listed(q) = Listed(s)
         /\ Works(s, st) => Works(q, st)
         /\ InHandshake(s, st) => InHandshake(q, st)
<1>1. NoneAged(q)
  BY DEF Sound, NoneAged
<1>2. AllNew(q, done)
  BY DEF Ready, AllNew, WasSent
<1>. QED BY <1>1, <1>2, SoundKept

\* A result that is of the command it is reported for.
LEMMA AnsweredTo ==
  ASSUME NEW s, SessionOK(s), NEW key \in DOMAIN s.messageStates, NEW m \in Messages, s.messageStates[key] = m,
         m # Gateway, NEW a, a = Answered(s, key, m)
  PROVE  /\ SessionOK(a) /\ SameLink(s, a) /\ SameNumbers(s, a) /\ SameStages(s, a)
         /\ a.sendQueue = s.sendQueue /\ a.sent = s.sent
         /\ a.messageStates = WithoutKeys(s.messageStates, {key})
         /\ a.msg[m].timeout = "none"
         /\ \A x \in Messages \ {m} : a.msg[x] = s.msg[x]
         /\ OneMore(s, a, m, Event("RESULT", m))
<1>. DEFINE x == s.messageStates[key]
            t == Answered(s, key, m)
<1>1. /\ SessionOK(t) /\ SameLink(s, t) /\ SameNumbers(s, t) /\ SameStages(s, t)
      /\ t.sendQueue = s.sendQueue /\ t.sent = s.sent
      /\ t.messageStates = WithoutKeys(s.messageStates, {key})
      /\ t.msg[x].timeout = "none"
      /\ (\A y \in Messages \ {x} : t.msg[y] = s.msg[y])
      /\ (IF x = Gateway THEN t.events = s.events ELSE OneMore(s, t, x, Event("RESULT", m)))
  <2>1. TookAnswer(s, t, key, x, m)
    BY AnsweredFields
  <2>. HIDE DEF t, x
  <2>. QED BY <2>1 DEF TookAnswer
<1>2. x = m /\ t = a
  OBVIOUS
<1>. HIDE DEF x, t
<1>. QED BY <1>1, <1>2

\* The answer to a message is what the message is about.
LEMMA HandleResultSound ==
  ASSUME NEW s, SessionOK(s), NEW st, StationTyped(st), NEW done, Sound(s, st, done), Ready(s, done), Works(s, st),
         NEW key \in DOMAIN s.messageStates, NEW m \in Messages, s.messageStates[key] = m, NEW failed \in BOOLEAN,
         failed => Open(s, st, done, m)
  PROVE  LET t == HandleResult(s, key, m, failed)
         IN Sound(t, st, done) /\ (Timed(s, {}) => Timed(t, {})) /\ (Awake(s) => Awake(t))
<1>. DEFINE t == HandleResult(s, key, m, failed)
            a == Answered(s, key, m)
            r == Refused(s, m)
<1>1. \/ failed /\ t = SendCommandAgain(r, m)
      \/ ~failed /\ m \in TwoStageCommands /\ t = FirstResult(a, m)
      \/ ~failed /\ m \notin TwoStageCommands /\ t = SendQueuedMessage(a)
  BY HandleResultCases
<1>. HIDE DEF t
<1>2. /\ TimersListed(s) /\ OwnResults(s) /\ m \in Listed(s) /\ Listed(s) \subseteq Messages
      /\ m \in Commands /\ m # Gateway
  BY CommandAssumption DEF Sound, Works, Listed, Range, Messages, SessionOK, MessagesOK
<1>3. CASE failed /\ t = SendCommandAgain(r, m)
  <2>1. /\ SessionOK(r) /\ SameLink(s, r) /\ SameNumbers(s, r) /\ SameStages(s, r)
        /\ r.sendQueue = s.sendQueue /\ r.sent = s.sent /\ r.messageStates = s.messageStates /\ r.events = s.events
        /\ r.msg[m].failed /\ r.msg[m].timeout = "none"
        /\ r.msg[m].sequence = s.msg[m].sequence /\ r.msg[m].acknowledged = s.msg[m].acknowledged
        /\ \A x \in Messages \ {m} : r.msg[x] = s.msg[x]
    BY RefusedFields
  <2>. HIDE DEF r
  <2>2. OwnResults(r)
    BY <1>2, <2>1, OwnSame DEF SameStages
  <2>3. \A x \in Messages : r.msg[x].sequence = s.msg[x].sequence /\ (r.msg[x].timeout # "none" => x \in Listed(s))
    BY <1>2, <2>1 DEF TimersListed
  <2>4. Sound(r, st, done) /\ Ready(r, done) /\ Works(r, st) /\ Listed(r) = Listed(s)
    BY <2>1, <2>2, <2>3, SoundSame DEF SameLink
  <2>5. Open(r, st, done, m)
    BY <1>3, <2>1, RetriedSame DEF Sound, SameNumbers
  <2>6. Timed(s, {}) => Timed(r, {m})
    BY <1>2, <2>1, <2>4 DEF Timed
  <2>7. Awake(s) => Awake(r)
    <3>1. WaitingAcknowledge(s) => WaitingAcknowledge(r)
      BY <1>2, <2>1, <2>4 DEF WaitingAcknowledge
    <3>. QED BY <2>1, <3>1 DEF Awake, SameStages, SameLink
  <2>8. key \in DOMAIN r.messageStates /\ r.messageStates[key] = m
    BY <2>1
  <2>. QED BY <1>3, <2>1, <2>4, <2>5, <2>6, <2>7, <2>8, SendCommandAgainSound DEF t
<1>4. ASSUME ~failed
      PROVE  /\ SessionOK(a) /\ Sound(a, st, done) /\ Ready(a, done) /\ Works(a, st)
             /\ Timed(s, {}) => Timed(a, {})
  <2>1. /\ SessionOK(a) /\ SameLink(s, a) /\ SameNumbers(s, a) /\ SameStages(s, a)
        /\ a.sendQueue = s.sendQueue /\ a.sent = s.sent
        /\ a.messageStates = WithoutKeys(s.messageStates, {key})
        /\ a.msg[m].timeout = "none"
        /\ \A x \in Messages \ {m} : a.msg[x] = s.msg[x]
        /\ OneMore(s, a, m, Event("RESULT", m))
    BY <1>2, AnsweredTo
  <2>. HIDE DEF a
  <2>2. OwnResults(a)
    BY <1>2, <2>1, OwnMore, CodesOK DEF SameStages
  <2>3. Timed(s, {}) => Timed(s, {m})
    BY DEF Timed
  <2>. QED BY <2>1, <2>2, <2>3, EndedSound DEF SameLink
<1>. HIDE DEF a
<1>5. CASE ~failed /\ m \notin TwoStageCommands /\ t = SendQueuedMessage(a)
  BY <1>4, <1>5, SendQueuedMessageSound DEF t
<1>6. CASE ~failed /\ m \in TwoStageCommands /\ t = FirstResult(a, m)
  <2>1. /\ SameLink(a, t) /\ SameNumbers(a, t) /\ SameMessages(a, t)
        /\ t.sendQueue = a.sendQueue /\ t.events = a.events /\ t.secondaryTimers = a.secondaryTimers \cup {m}
        /\ t.customDataStaging = WithEntry(a.customDataStaging, CommandType[m], m)
    BY <1>4, <1>6, FirstResultFields
  <2>2. OwnResults(t)
    <3>1. \A type \in DOMAIN t.customDataStaging :
            \/ t.customDataStaging[type] = m /\ type = CommandType[m]
            \/ type \in DOMAIN a.customDataStaging /\ t.customDataStaging[type] = a.customDataStaging[type]
      BY <2>1 DEF WithEntry
    <3>2. OwnResults(a)
      BY <1>4, <1>6 DEF Sound
    <3>. QED BY <1>6, <2>1, <3>1, <3>2 DEF OwnResults
  <2>3. TimersListed(a)
    BY <1>4, <1>6 DEF Sound
  <2>4. \A x \in Messages : t.msg[x].sequence = a.msg[x].sequence /\ (t.msg[x].timeout # "none" => x \in Listed(a))
    BY <2>1, <2>3 DEF SameMessages, TimersListed
  <2>5. Sound(t, st, done)
    BY <1>4, <1>6, <2>1, <2>2, <2>4, SoundSame DEF SameLink, SameMessages
  <2>6. Timed(a, {}) => Timed(t, {})
    BY <2>1 DEF Timed, Listed, SameMessages
  <2>7. Awake(t)
    BY <2>1 DEF Awake
  <2>. QED BY <1>4, <1>6, <2>5, <2>6, <2>7 DEF t
<1>. QED BY <1>1, <1>3, <1>5, <1>6

\* The handshake is over, with an answer the DATA stream counts or with none.
LEMMA HandshakeEnds ==
  ASSUME NEW s, SessionOK(s), NEW st, StationTyped(st), NEW done, Sound(s, st, done), Ready(s, done),
         InHandshake(s, st), 0 \in st.seen,
         NEW q, q.connected, q.seqNumber = s.seqNumber, q.results = Len(st.answers), q.p2pDataSeqNumber = Len(st.answers),
         DOMAIN q.messageStates = {}, q.sendQueue = s.sendQueue, q.sent = s.sent,
         \A x \in Messages : q.msg[x].timeout # "none" => x # Gateway /\ s.msg[x].timeout # "none",
         OwnResults(q)
  PROVE  Sound(q, st, done) /\ Ready(q, done) /\ Timed(q, {})
<1>1. /\ s.sent = {<<0, Gateway>>} /\ s.seqNumber = 1 /\ s.results = 0 /\ DOMAIN s.messageStates = {0}
      /\ s.messageStates[0] = Gateway /\ st.seen = {0} /\ Len(st.answers) \in {0, 1}
  BY DEF InHandshake
<1>2. TimersListed(s) /\ Retried(s, st, done) /\ NoneAged(s)
  BY DEF Sound
<1>3. Listed(s) = {Gateway} /\ Listed(q) = {}
  BY <1>1 DEF Listed, Range
<1>. DEFINE first == <<0, Gateway>>
<1>4. q.sent = {first} /\ first[1] = 0 /\ first[2] = Gateway
  BY <1>1
<1>. HIDE DEF first
<1>5. Works(q, st)
  <2>1. Outstanding(q) = {}
    BY <1>1 DEF Outstanding
  <2>2. Mapped(q, st)
    BY <1>1, <1>4, <2>1 DEF Mapped
  <2>3. Counts(q, st)
    <3>1. Len(st.answers) <= Len(st.answers) /\ Len(st.answers) <= 1
      <4>1. CASE Len(st.answers) = 0
        BY <4>1
      <4>2. CASE Len(st.answers) = 1
        BY <4>2
      <4>. QED BY <1>1, <4>1, <4>2
    <3>. QED BY <1>1, <3>1 DEF Counts
  <2>. QED BY <1>3, <1>4, <2>2, <2>3 DEF Works
<1>6. TimersListed(q)
  BY <1>2, <1>3 DEF TimersListed
<1>7. Retried(q, st, done)
  <2>1. Untaken(q, st) = {}
    BY <1>1, <1>4 DEF Untaken
  <2>2. Untold(q, st) = {}
    BY <1>1 DEF Untold
  <2>3. \A k \in DOMAIN st.answers : st.answers[k].from = Gateway \/ ~IsNew(done, st.answers[k].from)
    BY <1>2 DEF Retried, RefusedBefore
  <2>4. RetriesInTime => OneOnItsWay(q, st, done)
    BY <1>2, <2>1, <2>2 DEF Retried, OneOnItsWay
  <2>5. RefusedBefore(q, st, done)
    BY <1>2, <2>1, <2>2 DEF Retried, RefusedBefore
  <2>. QED BY <2>4, <2>5 DEF Retried
<1>8. NoneAged(q)
  BY <1>2 DEF NoneAged
<1>9. Ready(q, done)
  BY DEF Ready, AllNew, NumberedOnce, KeyedByNumber, WasSent
<1>10. Timed(q, {})
  BY <1>3 DEF Timed
<1>. QED BY <1>5, <1>6, <1>7, <1>8, <1>9, <1>10 DEF Sound, Linked

\* The end of the handshake gives back the number its answer would have had.
LEMMA HandshakeOverSound ==
  ASSUME NEW s, SessionOK(s), NEW st, StationTyped(st), NEW done, Sound(s, st, done), Ready(s, done),
         InHandshake(s, st), st.gatewayInfo \notin {"none", "data"}, s.msg[Gateway].timeout = "none"
  PROVE  LET t == HandshakeOver(s, 0) IN Sound(t, st, done) /\ Timed(t, {}) /\ Awake(t)
<1>. DEFINE q == GivenBack(s, 0)
<1>1. /\ SessionOK(q) /\ HandshakeOver(s, 0) = SendQueuedMessage(q)
      /\ SameLink(s, q) /\ SameStages(s, q) /\ q.sendQueue = s.sendQueue /\ q.events = s.events
      /\ q.seqNumber = s.seqNumber /\ q.results = s.results
      /\ q.p2pDataSeqNumber = s.p2pDataSeqNumber - 1
      /\ q.messageStates = WithoutKeys(s.messageStates, {0}) /\ q.msg = s.msg /\ q.sent = s.sent
  BY GivenBackFields
<1>. HIDE DEF q
<1>2. /\ 0 \in st.seen /\ Len(st.answers) = 0 /\ s.connected /\ DOMAIN s.messageStates = {0}
      /\ s.results = 0 /\ s.p2pDataSeqNumber = 1
  BY DEF InHandshake
<1>3. DOMAIN q.messageStates = {}
  BY <1>1, <1>2 DEF WithoutKeys, Restrict
<1>4. OwnResults(q)
  BY <1>1, OwnSame DEF Sound, SameStages
<1>5. /\ q.connected /\ q.results = Len(st.answers) /\ q.p2pDataSeqNumber = Len(st.answers)
  BY <1>1, <1>2 DEF SameLink
<1>6. Sound(q, st, done) /\ Ready(q, done) /\ Timed(q, {})
  BY <1>1, <1>2, <1>3, <1>4, <1>5, HandshakeEnds
<1>. QED BY <1>1, <1>6, SendQueuedMessageSound

\* What was shown of every state.
Shown == TypeOK /\ OneStage /\ AllPlaced /\ KeySound /\ AllOrdered

LEMMA CurrentReady ==
  ASSUME Shown, FirstLap
  PROVE  /\ SessionOK(session) /\ StationTyped(station) /\ Ready(session, executed)
         /\ \A j \in DOMAIN executed : executed[j].command # Gateway
<1>1. SessionOK(session) /\ executed \in Seq([command : Commands, refused : BOOLEAN])
  BY DEF Shown, TypeOK
<1>2. StationTyped(station)
  BY DEF Shown, TypeOK, StationOK, StationTyped, SeqNos
<1>3. \A j \in DOMAIN executed : executed[j].command # Gateway
  <2>1. \A j \in DOMAIN executed : executed[j] \in [command : Commands, refused : BOOLEAN]
    BY <1>1, EntryOK
  <2>. QED BY <2>1, CommandAssumption
<1>4. ASSUME NEW i \in DOMAIN session.sendQueue
      PROVE  LET c == session.sendQueue[i].command
             IN c \in Commands /\ ~WasSent(session, c) /\ \A j \in DOMAIN executed : executed[j].command # c
  <2>. DEFINE c == session.sendQueue[i].command
  <2>1. Queued(session, c)
    BY DEF Queued
  <2>2. c \in Messages
    <3>1. session.sendQueue \in Seq([command : Messages, aged : BOOLEAN])
      BY <1>1 DEF SessionOK, QueueOK
    <3>2. session.sendQueue[i] \in [command : Messages, aged : BOOLEAN]
      BY <3>1, EntryOK
    <3>. QED BY <3>2
  <2>. HIDE DEF c
  <2>3. c \in Commands
    BY <2>1, <2>2 DEF Shown, KeySound, Handshaken, Messages
  <2>4. ~Sent(session, c) /\ c \notin {executed[j].command : j \in DOMAIN executed}
    BY <2>1, <2>3 DEF Shown, OneStage, Stages
  <2>. QED BY <2>3, <2>4 DEF Sent, WasSent, c
<1>5. Ready(session, executed)
  BY <1>4 DEF Shown, AllOrdered, Ordered, AllPlaced, Placed, FirstLap, Ready, AllNew
<1>. QED BY <1>1, <1>2, <1>3, <1>5

\* A connection that is given up leaves no number, no timer and no stage behind.
LEMMA ApartSound ==
  ASSUME NEW s, SessionOK(s), NEW st, NEW done, Sound(s, st, done),
         NEW t, ~t.connected, t.seqNumber = 0, t.p2pDataSeqNumber = 0, t.p2pSeqMapping = NoEntries, t.results = 0,
         t.messageStates = NoEntries, t.msg = ClearTimeouts(s.msg, Listed(s)), t.sent = {},
         t.customDataStaging = NoEntries, t.events = s.events, NoneAged(t)
  PROVE  Sound(t, FreshStation, done) /\ Timed(t, {}) /\ Awake(t)
<1>1. DOMAIN NoEntries = {}
  BY DEF NoEntries
<1>2. Listed(t) = {}
  BY <1>1 DEF Listed, Range
<1>3. Apart(t, FreshStation)
  BY <1>1 DEF Apart
<1>4. TimersListed(t)
  <2>1. \A x \in Messages : t.msg[x].timeout # "none" => x \notin Listed(s) /\ s.msg[x].timeout # "none"
    <3>. SUFFICES ASSUME NEW x \in Messages, t.msg[x].timeout # "none"
                  PROVE  x \notin Listed(s) /\ s.msg[x].timeout # "none"
      OBVIOUS
    <3>1. s.msg \in [Messages -> MessageState]
      BY DEF SessionOK, MessagesOK
    <3>2. t.msg[x] = IF x \in Listed(s) THEN [s.msg[x] EXCEPT !.timeout = "none"] ELSE s.msg[x]
      BY DEF ClearTimeouts
    <3>. QED BY <3>1, <3>2 DEF MessageState
  <2>. QED BY <2>1 DEF Sound, TimersListed
<1>5. OwnResults(t)
  BY <1>1 DEF Sound, OwnResults
<1>6. Retried(t, FreshStation, done)
  <2>1. /\ DOMAIN FreshStation.answers = {} /\ Untaken(t, FreshStation) = {} /\ Untold(t, FreshStation) = {}
    BY DEF FreshStation, Untaken, Untold
  <2>. QED BY <2>1 DEF Sound, Retried, OneOnItsWay, RefusedBefore
<1>7. Timed(t, {}) /\ Awake(t)
  BY <1>2 DEF Timed, Awake
<1>. QED BY <1>3, <1>4, <1>5, <1>6, <1>7 DEF Sound, Linked

LEMMA DisconnectedSound ==
  ASSUME NEW s, SessionOK(s), NEW st, NEW done, Sound(s, st, done), NEW t, t \in {Disconnected(s), Initialize(s)}
  PROVE  Sound(t, FreshStation, done) /\ Timed(t, {}) /\ Awake(t)
<1>1. NoneAged(s)
  BY DEF Sound
<1>2. CASE t = Disconnected(s)
  <2>1. /\ ~t.connected /\ t.seqNumber = 0 /\ t.p2pDataSeqNumber = 0 /\ t.p2pSeqMapping = NoEntries /\ t.results = 0
        /\ t.messageStates = NoEntries /\ t.msg = ClearTimeouts(s.msg, Listed(s)) /\ t.sent = {}
        /\ t.customDataStaging = NoEntries /\ t.events = s.events /\ t.sendQueue = WithoutPings(s.sendQueue)
    BY <1>2, DisconnectedFields
  <2>2. NoneAged(t)
    <3>. DEFINE E == [command : Messages, aged : BOOLEAN]
    <3>1. s.sendQueue \in Seq(E)
      BY DEF SessionOK, QueueOK
    <3>. HIDE DEF E
    <3>2. \A k \in DOMAIN t.sendQueue :
            KeptAt(s.sendQueue, k) \in DOMAIN s.sendQueue /\ t.sendQueue[k] = s.sendQueue[KeptAt(s.sendQueue, k)]
      BY <2>1, <3>1, WithoutPingsType
    <3>. QED BY <1>1, <3>2 DEF NoneAged
  <2>. QED BY <2>1, <2>2, ApartSound
<1>3. CASE t = Initialize(s)
  <2>1. /\ ~t.connected /\ t.seqNumber = 0 /\ t.p2pDataSeqNumber = 0 /\ t.p2pSeqMapping = NoEntries /\ t.results = 0
        /\ t.messageStates = NoEntries /\ t.msg = ClearTimeouts(s.msg, Listed(s)) /\ t.sent = {}
        /\ t.customDataStaging = NoEntries /\ t.events = s.events /\ t.sendQueue = s.sendQueue
    BY <1>3, InitializeFields
  <2>2. NoneAged(t)
    BY <1>1, <2>1 DEF NoneAged
  <2>. QED BY <2>1, <2>2, ApartSound
<1>. QED BY <1>2, <1>3

\* A connection begins with its handshake under number 0.
LEMMA EstablishSound ==
  ASSUME Shown, FirstLap, Sound(session, station, executed), Establish
  PROVE  Sound(session', FreshStation, executed) /\ Timed(session', {}) /\ Awake(session')
<1>1. ~session.connected
  BY EstablishStep DEF Shown
<1>2. PICK g, a, q :
        /\ SessionOK(g) /\ g.connected
        /\ SameNumbers(session, g) /\ SameMessages(session, g) /\ SameStages(session, g)
        /\ g.events = session.events /\ g.sendQueue = <<[command |-> Gateway, aged |-> FALSE]>>
        /\ a = SendQueuedMessage(g) /\ SessionOK(a)
        /\ SessionOK(q) /\ SameButQueue(a, q) /\ q.sendQueue = a.sendQueue \o session.sendQueue
        /\ session' = SendQueuedMessage(q)
  BY EstablishStep DEF Shown
<1>3. /\ SessionOK(session) /\ session.sendQueue \in Seq([command : Messages, aged : BOOLEAN])
      /\ \A j \in DOMAIN executed : executed[j].command # Gateway
  BY CurrentReady DEF SessionOK, QueueOK
<1>4. /\ DOMAIN session.messageStates = {} /\ session.sent = {} /\ session.seqNumber = 0 /\ session.results = 0
      /\ session.p2pDataSeqNumber = 0 /\ DOMAIN session.p2pSeqMapping = {}
      /\ TimersListed(session) /\ OwnResults(session) /\ Retried(session, station, executed) /\ NoneAged(session)
  BY <1>1 DEF Sound, Linked, Apart, InHandshake, Works
<1>. DEFINE entry == [command |-> Gateway, aged |-> FALSE]
<1>5. g.sendQueue = <<entry>> /\ entry.command = Gateway /\ entry.aged = FALSE
  BY <1>2
<1>. HIDE DEF entry
<1>6. SentFresh(g, a, Gateway) /\ a.sendQueue = <<>>
  <2>1. ~WaitingAcknowledge(g)
    BY <1>2, <1>4 DEF WaitingAcknowledge, Listed, Range, SameMessages
  <2>2. Idle(g, a) \/ Asked(g, a) \/ TookHead(g, a)
    BY <1>2, SendQueuedMessageFields
  <2>3. g.sendQueue # <<>> /\ Head(g.sendQueue) = entry /\ Tail(g.sendQueue) = <<>>
    BY <1>5
  <2>. QED BY <1>2, <1>5, <2>1, <2>2, <2>3 DEF Idle, Asked, TookHead
<1>7. q.sendQueue = session.sendQueue
  <2>1. \A r \in Seq([command : Messages, aged : BOOLEAN]) : <<>> \o r = r
    OBVIOUS
  <2>. QED BY <1>2, <1>3, <1>6, <2>1
<1>8. /\ q.connected /\ q.sent = {<<0, Gateway>>} /\ q.seqNumber = 1 /\ q.results = 0
      /\ q.messageStates = WithEntry(session.messageStates, 0, Gateway)
      /\ q.msg[Gateway].sequence = 0 /\ ~q.msg[Gateway].acknowledged /\ q.msg[Gateway].timeout = "ack"
      /\ \A x \in Messages \ {Gateway} : q.msg[x] = session.msg[x]
      /\ q.events = session.events /\ q.customDataStaging = session.customDataStaging
  <2>1. g.seqNumber = 0 /\ g.sent = {} /\ g.messageStates = session.messageStates /\ g.msg = session.msg /\ g.results = 0
    BY <1>2, <1>4 DEF SameNumbers, SameMessages
  <2>2. IncrementSequence(0) = 1
    BY NumberAssumption DEF IncrementSequence
  <2>3. /\ a.connected /\ a.sent = {<<0, Gateway>>} /\ a.seqNumber = 1 /\ a.results = 0
        /\ a.messageStates = WithEntry(session.messageStates, 0, Gateway)
        /\ a.msg[Gateway].sequence = 0 /\ ~a.msg[Gateway].acknowledged /\ a.msg[Gateway].timeout = "ack"
        /\ \A x \in Messages \ {Gateway} : a.msg[x] = session.msg[x]
        /\ a.events = session.events /\ a.customDataStaging = session.customDataStaging
    BY <1>2, <1>6, <2>1, <2>2 DEF SentFresh, Counted, SameLink, SameStages
  <2>. QED BY <1>2, <2>3 DEF SameButQueue, SameLink, SameNumbers, SameMessages, SameStages
<1>9. q.p2pDataSeqNumber = 1 /\ DOMAIN q.p2pSeqMapping = {0} /\ q.p2pSeqMapping[0] = 0
  <2>1. Gateway \notin PingCommands
    BY CommandAssumption
  <2>2. a.p2pSeqMapping = WithEntry(session.p2pSeqMapping, 0, 0) /\ a.p2pDataSeqNumber = 1
    BY <1>2, <1>4, <1>6, <2>1, NumberAssumption DEF SentFresh, Counted, SameNumbers, IncrementSequence
  <2>. QED BY <1>2, <1>4, <2>2 DEF SameButQueue, SameNumbers, WithEntry
<1>10. DOMAIN q.messageStates = {0} /\ q.messageStates[0] = Gateway /\ Listed(q) = {Gateway}
  BY <1>4, <1>8 DEF WithEntry, Listed, Range
<1>11. session' = q /\ WaitingAcknowledge(q)
  <2>1. WaitingAcknowledge(q)
    BY <1>10 DEF WaitingAcknowledge
  <2>2. Idle(q, session') \/ Asked(q, session') \/ TookHead(q, session')
    BY <1>2, SendQueuedMessageFields
  <2>. QED BY <1>8, <2>1, <2>2 DEF Idle, Asked, TookHead
<1>12. InHandshake(q, FreshStation)
  BY <1>8, <1>9, <1>10 DEF InHandshake, FreshStation
<1>13. TimersListed(q)
  BY <1>4, <1>8, <1>10 DEF TimersListed, Listed, Range
<1>14. OwnResults(q) /\ NoneAged(q)
  BY <1>4, <1>7, <1>8, OwnSame DEF NoneAged
<1>15. Retried(q, FreshStation, executed)
  <2>. DEFINE first == <<0, Gateway>>
  <2>1. q.sent = {first} /\ first[2] = Gateway
    BY <1>8
  <2>. HIDE DEF first
  <2>2. DOMAIN FreshStation.answers = {} /\ Untold(q, FreshStation) = {}
    BY <1>8 DEF FreshStation, Untold
  <2>3. OnlyRefused(executed, Gateway) /\ IsNew(executed, Gateway)
    BY <1>3 DEF OnlyRefused, IsNew
  <2>4. \A d \in Untaken(q, FreshStation) : d = first
    BY <2>1 DEF Untaken
  <2>5. RetriesInTime => OneOnItsWay(q, FreshStation, executed)
    BY <1>4, <2>1, <2>2, <2>3, <2>4 DEF Retried, OneOnItsWay
  <2>6. RefusedBefore(q, FreshStation, executed)
    BY <1>4, <2>1, <2>2, <2>3, <2>4 DEF Retried, RefusedBefore
  <2>. QED BY <2>5, <2>6 DEF Retried
<1>16. Timed(q, {}) /\ Awake(q)
  BY <1>8, <1>10, <1>11 DEF Timed, Awake
<1>. QED BY <1>11, <1>12, <1>13, <1>14, <1>15, <1>16 DEF Sound, Linked

\* The entries of a queue with one more behind.
LEMMA AppendFacts ==
  ASSUME NEW E, NEW q \in Seq(E), NEW e \in E, NEW r, r = Append(q, e)
  PROVE  /\ Len(q) \in Nat /\ DOMAIN r = 1 .. Len(q) + 1 /\ r[Len(q) + 1] = e
         /\ \A i \in 1 .. Len(q) : r[i] = q[i]
OBVIOUS

\* What the station executes it has not executed, or refused, so far.
LEMMA StationTakesRetried ==
  ASSUME NEW s, SessionOK(s), NEW st, StationTyped(st), NEW done \in Seq([command : Commands, refused : BOOLEAN]),
         Retried(s, st, done), NumberedOnce(s), \A j \in DOMAIN done : done[j].command # Gateway,
         NEW n, NEW m, <<n, m>> \in s.sent, n \notin st.seen,
         NEW u, u.seen = st.seen \cup {n}, NEW more, NEW refused \in BOOLEAN,
         \/ m = Gateway /\ more = done /\ u.answers \in {st.answers, Append(st.answers, [from |-> m, failed |-> FALSE])}
         \/ m \in PingCommands /\ more = done /\ u.answers = st.answers
         \/ /\ m \in Commands \ PingCommands
            /\ u.answers = Append(st.answers, [from |-> m, failed |-> refused])
            /\ more = Append(done, [command |-> m, refused |-> refused])
  PROVE  Retried(s, u, more)
<1>. DEFINE datagram == <<n, m>>
            L == Len(st.answers)
            D == Len(done)
<1>1. /\ datagram \in Untaken(s, st) /\ datagram[1] = n /\ datagram[2] = m
      /\ L \in Nat /\ D \in Nat /\ DOMAIN st.answers = 1 .. L /\ DOMAIN done = 1 .. D /\ s.results \in Nat
      /\ \A d \in s.sent : d[1] = n => d = datagram
  <2>1. datagram \in Untaken(s, st) /\ datagram[1] = n /\ datagram[2] = m
    BY DEF Untaken
  <2>2. L \in Nat /\ D \in Nat /\ DOMAIN st.answers = 1 .. L /\ DOMAIN done = 1 .. D /\ s.results \in Nat
    BY NumberFacts DEF StationTyped
  <2>3. \A d \in s.sent : d[1] = n => d = datagram
    BY DEF NumberedOnce
  <2>. QED BY <2>1, <2>2, <2>3
<1>2. \A d \in Untaken(s, u) : d \in Untaken(s, st) /\ d # datagram
  BY <1>1 DEF Untaken
<1>. HIDE DEF datagram
\* The answer there is after the others, if any.
<1>3. \A k \in DOMAIN u.answers :
        \/ k \in 1 .. L /\ u.answers[k] = st.answers[k]
        \/ k = L + 1 /\ u.answers[k].from = m /\ (u.answers[k].failed => m # Gateway /\ refused)
  <2>. SUFFICES ASSUME NEW failed \in BOOLEAN, failed => m # Gateway /\ refused,
                       u.answers = Append(st.answers, [from |-> m, failed |-> failed])
                PROVE  \A k \in DOMAIN u.answers :
                         \/ k \in 1 .. L /\ u.answers[k] = st.answers[k]
                         \/ k = L + 1 /\ u.answers[k].from = m /\ (u.answers[k].failed => m # Gateway /\ refused)
    <3>1. u.answers = st.answers \/ \E failed \in BOOLEAN :
            (failed => m # Gateway /\ refused) /\ u.answers = Append(st.answers, [from |-> m, failed |-> failed])
      BY CommandAssumption
    <3>. QED BY <1>1, <3>1
  <2>. DEFINE answer == [from |-> m, failed |-> failed]
  <2>1. answer.from = m /\ answer.failed = failed /\ u.answers = Append(st.answers, answer)
    OBVIOUS
  <2>. HIDE DEF answer
  <2>. QED BY <1>1, <2>1 DEF StationTyped
<1>4. /\ DOMAIN u.answers = 1 .. Len(u.answers) /\ Len(u.answers) \in Nat
      /\ \A k \in Untold(s, u) : k \in DOMAIN u.answers
      /\ \A k \in Untold(s, u) : k \in 1 .. L => k \in Untold(s, st)
  <2>1. DOMAIN u.answers = 1 .. Len(u.answers) /\ Len(u.answers) \in Nat
    BY DEF StationTyped
  <2>. QED BY <1>1, <2>1 DEF Untold
\* What is executed is after the others, if any.
<1>5. /\ \A i \in DOMAIN more : \/ i \in 1 .. D /\ more[i] = done[i]
                                \/ i = D + 1 /\ more[i].command = m /\ more[i].refused = refused
      /\ \A i \in DOMAIN done : i \in DOMAIN more /\ more[i] = done[i]
      /\ m # Gateway /\ m \notin PingCommands => D + 1 \in DOMAIN more /\ more[D + 1].command = m
  <2>1. CASE more = done /\ (m = Gateway \/ m \in PingCommands)
    BY <1>1, <2>1
  <2>2. CASE m \in Commands /\ more = Append(done, [command |-> m, refused |-> refused])
    <3>. DEFINE entry == [command |-> m, refused |-> refused]
    <3>1. entry.command = m /\ entry.refused = refused /\ more = Append(done, entry)
      BY <2>2
    <3>2. m \in Commands
      BY <2>2
    <3>3. entry \in [command : Commands, refused : BOOLEAN]
      BY <3>2
    <3>. HIDE DEF entry
    <3>4. /\ DOMAIN more = 1 .. D + 1 /\ more[D + 1] = entry
          /\ \A i \in 1 .. D : more[i] = done[i]
      BY <3>1, <3>3, AppendFacts
    <3>5. \A i \in 1 .. D + 1 : i \in 1 .. D \/ i = D + 1
      BY <1>1
    <3>6. D + 1 \in 1 .. D + 1 /\ \A i \in 1 .. D : i \in 1 .. D + 1
      BY <1>1
    <3>. HIDE DEF D
    <3>. QED BY <1>1, <3>1, <3>4, <3>5, <3>6
  <2>. QED BY <2>1, <2>2
<1>6. ASSUME NEW k \in DOMAIN u.answers
      PROVE  u.answers[k].from = Gateway \/ ~IsNew(more, u.answers[k].from)
  <2>1. CASE k \in 1 .. L /\ u.answers[k] = st.answers[k]
    BY <1>1, <1>5, <2>1 DEF Retried, RefusedBefore, IsNew
  <2>2. CASE k = L + 1 /\ u.answers[k].from = m
    <3>1. k \notin DOMAIN st.answers
      BY <1>1, <2>2
    <3>2. m \notin PingCommands
      BY <3>1, CommandAssumption
    <3>. QED BY <1>5, <2>2, <3>2 DEF IsNew
  <2>. QED BY <1>3, <2>1, <2>2
<1>7. ASSUME RetriesInTime PROVE OneOnItsWay(s, u, more)
  <2>1. OneOnItsWay(s, st, done)
    BY <1>7 DEF Retried
  <2>2. \A d \in Untaken(s, u) : d \in Untaken(s, st) /\ d[2] # m
    BY <1>1, <1>2, <2>1 DEF OneOnItsWay
  <2>3. /\ \A k \in Untold(s, st) : st.answers[k].from # m
        /\ OnlyRefused(done, m)
    BY <1>1, <2>1 DEF OneOnItsWay
  <2>4. \A c : c # m /\ OnlyRefused(done, c) => OnlyRefused(more, c)
    BY <1>1, <1>5 DEF OnlyRefused
  <2>5. ASSUME NEW i \in DOMAIN more, NEW j \in DOMAIN more, i < j, more[i].command = more[j].command
        PROVE  more[i].refused
    <3>1. i \in 1 .. D /\ more[i] = done[i]
      BY <1>1, <1>5, <2>5
    <3>2. CASE j \in 1 .. D /\ more[j] = done[j]
      BY <1>1, <2>1, <2>5, <3>1, <3>2 DEF OneOnItsWay
    <3>3. CASE j = D + 1 /\ more[j].command = m
      BY <1>1, <2>3, <2>5, <3>1, <3>3 DEF OnlyRefused
    <3>. QED BY <1>5, <3>2, <3>3
  <2>6. ASSUME NEW k \in Untold(s, u), NEW l \in Untold(s, u), u.answers[k].from = u.answers[l].from
        PROVE  k = l
    <3>1. /\ k \in 1 .. L => k \in Untold(s, st) /\ st.answers[k].from # m
          /\ l \in 1 .. L => l \in Untold(s, st) /\ st.answers[l].from # m
      BY <1>4, <2>3
    <3>2. k \in DOMAIN u.answers /\ l \in DOMAIN u.answers
      BY <1>4
    <3>3. /\ (k \in 1 .. L /\ u.answers[k] = st.answers[k]) \/ (k = L + 1 /\ u.answers[k].from = m)
          /\ (l \in 1 .. L /\ u.answers[l] = st.answers[l]) \/ (l = L + 1 /\ u.answers[l].from = m)
      BY <1>3, <3>2
    <3>4. \A i, j \in Untold(s, st) : st.answers[i].from = st.answers[j].from => i = j
      BY <2>1 DEF OneOnItsWay
    <3>. QED BY <2>6, <3>1, <3>3, <3>4
  <2>7. ASSUME NEW d \in Untaken(s, u)
        PROVE  /\ \A e \in Untaken(s, u) : e[2] = d[2] => e = d
               /\ \A k \in Untold(s, u) : u.answers[k].from # d[2]
               /\ OnlyRefused(more, d[2])
    <3>1. \A e \in Untaken(s, u) : e[2] = d[2] => e = d
      BY <2>1, <2>2 DEF OneOnItsWay
    <3>2. \A k \in Untold(s, u) : u.answers[k].from # d[2]
      BY <1>3, <1>4, <2>1, <2>2 DEF OneOnItsWay
    <3>3. OnlyRefused(more, d[2])
      BY <2>1, <2>2, <2>4 DEF OneOnItsWay
    <3>. QED BY <3>1, <3>2, <3>3
  <2>8. ASSUME NEW k \in Untold(s, u), u.answers[k].failed
        PROVE  OnlyRefused(more, u.answers[k].from)
    <3>1. CASE k \in 1 .. L /\ u.answers[k] = st.answers[k]
      BY <1>4, <2>1, <2>3, <2>4, <2>8, <3>1 DEF OneOnItsWay
    <3>2. CASE k = L + 1 /\ u.answers[k].from = m /\ refused
      BY <1>1, <1>5, <2>3, <3>2 DEF OnlyRefused
    <3>. QED BY <1>3, <1>4, <2>8, <3>1, <3>2
  <2>. QED BY <2>5, <2>6, <2>7, <2>8 DEF OneOnItsWay
<1>8. RefusedBefore(s, u, more)
  <2>1. RefusedBefore(s, st, done)
    BY DEF Retried
  <2>2. ASSUME NEW c, RefusedFirst(done, c) PROVE RefusedFirst(more, c)
    <3>1. PICK i \in DOMAIN done :
            done[i].command = c /\ done[i].refused /\ \A j \in DOMAIN done : j < i => done[j].command # c
      BY <2>2 DEF RefusedFirst
    <3>2. /\ i \in DOMAIN more /\ more[i] = done[i]
          /\ \A j \in DOMAIN more : j < i => j \in DOMAIN done /\ more[j] = done[j]
      BY <1>1, <1>5
    <3>. QED BY <3>1, <3>2 DEF RefusedFirst
  <2>3. \A c : c # m /\ IsNew(done, c) => IsNew(more, c)
    BY <1>5 DEF IsNew
  <2>4. \/ RefusedFirst(done, m)
        \/ IsNew(done, m) /\ \A e \in Untaken(s, st) : e[2] = m => e = datagram
    BY <1>1, <2>1 DEF RefusedBefore
  <2>5. ASSUME NEW i \in DOMAIN more, NEW j \in DOMAIN more, i < j, more[i].command = more[j].command
        PROVE  RefusedFirst(more, more[j].command)
    <3>1. i \in DOMAIN done /\ more[i] = done[i]
      BY <1>1, <1>5, <2>5
    <3>2. CASE j \in DOMAIN done /\ more[j] = done[j]
      BY <2>1, <2>2, <2>5, <3>1, <3>2 DEF RefusedBefore
    <3>3. CASE j = D + 1 /\ more[j].command = m
      BY <2>2, <2>4, <2>5, <3>1, <3>3 DEF IsNew
    <3>. QED BY <1>1, <1>5, <3>2, <3>3
  <2>6. ASSUME NEW d \in Untaken(s, u), ~RefusedFirst(more, d[2])
        PROVE  IsNew(more, d[2]) /\ \A e \in Untaken(s, u) : e[2] = d[2] => e = d
    <3>1. IsNew(done, d[2]) /\ \A e \in Untaken(s, st) : e[2] = d[2] => e = d
      BY <1>2, <2>1, <2>2, <2>6 DEF RefusedBefore
    <3>2. d[2] # m
      BY <1>1, <1>2, <3>1
    <3>. QED BY <1>2, <2>3, <3>1, <3>2
  <2>7. ASSUME NEW k \in Untold(s, u), u.answers[k].failed
        PROVE  RefusedFirst(more, u.answers[k].from)
    <3>1. CASE k \in 1 .. L /\ u.answers[k] = st.answers[k]
      BY <1>4, <2>1, <2>2, <2>7, <3>1 DEF RefusedBefore
    <3>2. CASE k = L + 1 /\ u.answers[k].from = m /\ m # Gateway /\ refused
      <4>1. k \in DOMAIN u.answers /\ k \notin DOMAIN st.answers
        BY <1>1, <1>4, <3>2
      <4>2. m \notin PingCommands
        BY <4>1, CommandAssumption
      <4>3. D + 1 \in DOMAIN more /\ more[D + 1].command = m
        BY <1>5, <3>2, <4>2
      <4>4. more[D + 1].refused
        BY <1>1, <1>5, <3>2, <4>3
      <4>5. IsNew(done, m) => RefusedFirst(more, m)
        BY <1>1, <1>5, <4>3, <4>4 DEF IsNew, RefusedFirst
      <4>. QED BY <2>2, <2>4, <3>2, <4>5
    <3>. QED BY <1>3, <1>4, <2>7, <3>1, <3>2
  <2>. QED BY <1>6, <2>5, <2>6, <2>7 DEF RefusedBefore
<1>. QED BY <1>7, <1>8 DEF Retried

-----------------------------------------------------------------------------
(* Every step leaves it so *)

\* What was just shown of the methods, of the state; a key is negotiated only during the handshake.
AllSound ==
  /\ Sound(session, station, executed)
  /\ closing \/ (Timed(session, {}) /\ Awake(session))
  /\ \A i \in DOMAIN station.second : station.second[i] \in TwoStageCommands
  /\ ciphers # {} => InHandshake(session, station) /\ station.gatewayInfo = "taken"

LEMMA CurrentSound ==
  ASSUME Shown, FirstLap, AllSound
  PROVE  /\ TypeOK /\ KeySound
         /\ SessionOK(session) /\ StationTyped(station) /\ Ready(session, executed)
         /\ Sound(session, station, executed) /\ Linked(session, station) /\ TimersListed(session)
         /\ OwnResults(session) /\ Retried(session, station, executed) /\ NoneAged(session)
         /\ closing \/ (Timed(session, {}) /\ Awake(session))
         /\ \A i \in DOMAIN station.second : station.second[i] \in TwoStageCommands
         /\ ciphers # {} => InHandshake(session, station) /\ station.gatewayInfo = "taken"
BY CurrentReady DEF Shown, AllSound, Sound

\* While the handshake is listed the queue waits.
LEMMA HandshakeWaits ==
  ASSUME NEW s, NEW st, InHandshake(s, st)
  PROVE  InHandshake(SendQueuedMessage(s), st)
<1>. DEFINE t == SendQueuedMessage(s)
<1>1. WaitingAcknowledge(s) /\ s.connected
  BY DEF InHandshake, WaitingAcknowledge, Listed, Range
<1>2. t = s
  BY <1>1 DEF SendQueuedMessage
<1>. QED BY <1>2

\* A handler that ends with a look at the queue.
LEMMA QueueGoesOn ==
  ASSUME NEW st, StationTyped(st), NEW q, SessionOK(q), Sound(q, st, executed), Ready(q, executed),
         closing \/ Timed(q, {}),
         \A i \in DOMAIN st.second : st.second[i] \in TwoStageCommands,
         ciphers # {} => InHandshake(q, st) /\ st.gatewayInfo = "taken",
         session' = SendQueuedMessage(q), station' = st, UNCHANGED <<ciphers, closing, executed>>
  PROVE  AllSound'
<1>1. Sound(session', st, executed) /\ (closing \/ (Timed(session', {}) /\ Awake(session')))
  BY SendQueuedMessageSound
<1>2. ciphers # {} => InHandshake(session', st)
  BY HandshakeWaits
<1>. QED BY <1>1, <1>2 DEF AllSound

\* A connection that is given up.
LEMMA ApartAgain ==
  ASSUME Sound(session', FreshStation, executed), Timed(session', {}), Awake(session'),
         station' = FreshStation, ciphers = {}, UNCHANGED <<ciphers, executed>>
  PROVE  AllSound'
<1>1. \A i \in DOMAIN FreshStation.second : FALSE
  BY DEF FreshStation
<1>. QED BY <1>1 DEF AllSound

LEMMA IssueSound ==
  ASSUME Shown, FirstLap, AllSound, NEW c \in Commands, IssueCommand(c)
  PROVE  AllSound'
<1>. DEFINE entry == [command |-> c, aged |-> FALSE]
<1>1. /\ c \notin Range(issued) /\ UNCHANGED <<ciphers, closing, station, executed>>
      /\ \E q : /\ SessionOK(q) /\ SameButQueue(session, q)
                /\ q.sendQueue = Append(session.sendQueue, entry)
                /\ session' = SendQueuedMessage(q)
  BY IssueStep DEF Shown
<1>2. PICK q : /\ SessionOK(q) /\ SameButQueue(session, q)
               /\ q.sendQueue = Append(session.sendQueue, entry)
               /\ session' = SendQueuedMessage(q)
  BY <1>1
<1>3. entry.command = c /\ entry.aged = FALSE /\ entry \in [command : Messages, aged : BOOLEAN]
  BY DEF Messages
<1>. HIDE DEF entry
<1>4. /\ q.connected = session.connected /\ SameNumbers(session, q) /\ q.sent = session.sent
      /\ q.messageStates = session.messageStates /\ q.msg = session.msg
      /\ q.events = session.events /\ q.customDataStaging = session.customDataStaging
  BY <1>2 DEF SameButQueue, SameLink, SameMessages, SameStages
<1>5. ~WasSent(session, c) /\ \A j \in DOMAIN executed : executed[j].command # c
  <2>1. ~Sent(session, c) /\ c \notin {executed[j].command : j \in DOMAIN executed}
    BY <1>1 DEF Shown, OneStage, Stages
  <2>. QED BY <2>1 DEF Sent, WasSent
<1>6. \A i \in DOMAIN q.sendQueue :
        \/ i \in DOMAIN session.sendQueue /\ q.sendQueue[i] = session.sendQueue[i]
        \/ q.sendQueue[i] = entry
  <2>1. session.sendQueue \in Seq([command : Messages, aged : BOOLEAN])
    BY DEF Shown, TypeOK, SessionOK, QueueOK
  <2>2. /\ DOMAIN q.sendQueue = 1 .. Len(session.sendQueue) + 1 /\ Len(session.sendQueue) \in Nat
        /\ q.sendQueue[Len(session.sendQueue) + 1] = entry
        /\ \A i \in 1 .. Len(session.sendQueue) : q.sendQueue[i] = session.sendQueue[i]
    BY <1>2, <1>3, <2>1, AppendFacts
  <2>3. DOMAIN session.sendQueue = 1 .. Len(session.sendQueue)
    BY <2>1
  <2>. QED BY <2>2, <2>3
<1>7. NoneAged(q) /\ AllNew(q, executed) /\ OwnResults(q)
  <2>1. NoneAged(q)
    BY <1>3, <1>6, CurrentSound DEF NoneAged
  <2>2. AllNew(q, executed)
    BY <1>3, <1>4, <1>5, <1>6, CurrentSound DEF Ready, AllNew, WasSent
  <2>3. OwnResults(q)
    BY <1>4, CurrentSound, OwnSame
  <2>. QED BY <2>1, <2>2, <2>3
<1>8. /\ Sound(q, station, executed) /\ Ready(q, executed)
      /\ InHandshake(session, station) => InHandshake(q, station)
  BY <1>4, <1>7, CurrentSound, SoundKept DEF TimersListed
<1>9. closing \/ Timed(q, {})
  BY <1>4, CurrentSound DEF Timed, Listed
<1>. QED BY <1>1, <1>2, <1>8, <1>9, CurrentSound, QueueGoesOn

LEMMA ConnectSound ==
  ASSUME Shown, FirstLap, AllSound, Connect
  PROVE  AllSound'
<1>1. Asked(session, session') /\ UNCHANGED <<ciphers, closing, station, executed>>
  BY ConnectStep DEF Shown
<1>2. /\ ~session.connected /\ session'.connected = session.connected /\ SameNumbers(session, session')
      /\ session'.sendQueue = session.sendQueue /\ session'.sent = session.sent
      /\ session'.messageStates = session.messageStates /\ session'.msg = session.msg
      /\ session'.events = session.events /\ session'.customDataStaging = session.customDataStaging
  BY <1>1 DEF Connect, Asked, SameMessages, SameStages
<1>3. OwnResults(session')
  BY <1>2, CurrentSound, OwnSame
<1>4. Sound(session', station, executed)
  <2>1. \A x \in Messages : /\ session'.msg[x].sequence = session.msg[x].sequence
                            /\ session'.msg[x].timeout # "none" => x \in Listed(session)
    BY <1>2, CurrentSound DEF TimersListed
  <2>2. SessionOK(session) /\ Sound(session, station, executed) /\ Ready(session, executed)
    BY CurrentSound
  <2>. QED BY <1>2, <1>3, <2>1, <2>2, SoundSame
<1>5. closing \/ (Timed(session', {}) /\ Awake(session'))
  BY <1>2, CurrentSound DEF Timed, Listed, Awake
<1>6. ciphers = {}
  BY <1>2, CurrentSound DEF InHandshake
<1>. QED BY <1>1, <1>4, <1>5, <1>6, CurrentSound DEF AllSound

LEMMA CloseSound ==
  ASSUME Orderly, Shown, FirstLap, AllSound, Close
  PROVE  AllSound'
<1>1. /\ closing' = session.connected /\ UNCHANGED <<ciphers, station, executed>>
      /\ ciphers # {} => "stale_cipher" \in Faults
  BY CloseStep DEF Shown
<1>2. PICK q : /\ SessionOK(q) /\ SameLink(session, q) /\ SameNumbers(session, q)
               /\ q.messageStates = session.messageStates /\ q.sent = session.sent
               /\ q.msg = ClearTimeouts(session.msg, Listed(session))
               /\ q.events = session.events /\ q.customDataStaging = session.customDataStaging
               /\ q.sendQueue = <<>>
               /\ session' = IF session.connected THEN q ELSE Initialize(q)
  BY CloseStep DEF Shown
<1>3. ciphers = {}
  BY <1>1 DEF Orderly
<1>4. \A x \in Messages : /\ q.msg[x].sequence = session.msg[x].sequence
                          /\ q.msg[x].timeout # "none" => x \in Listed(session)
  <2>. TAKE x \in Messages
  <2>1. session.msg \in [Messages -> MessageState]
    BY DEF Shown, TypeOK, SessionOK, MessagesOK
  <2>2. q.msg[x] = IF x \in Listed(session) THEN [session.msg[x] EXCEPT !.timeout = "none"] ELSE session.msg[x]
    BY <1>2 DEF ClearTimeouts
  <2>3. TimersListed(session)
    BY CurrentSound
  <2>. QED BY <2>1, <2>2, <2>3 DEF MessageState, TimersListed
<1>5. NoneAged(q) /\ AllNew(q, executed) /\ OwnResults(q)
  <2>1. \A i \in DOMAIN q.sendQueue : FALSE
    BY <1>2
  <2>2. OwnResults(q)
    BY <1>2, CurrentSound, OwnSame
  <2>. QED BY <2>1, <2>2 DEF NoneAged, AllNew
<1>6. Sound(q, station, executed)
  BY <1>2, <1>4, <1>5, CurrentSound, SoundKept DEF SameLink
<1>7. CASE session.connected
  BY <1>1, <1>2, <1>3, <1>6, <1>7, CurrentSound DEF AllSound
<1>8. CASE ~session.connected
  <2>1. station = FreshStation
    BY <1>8, CurrentSound DEF Linked, Apart, InHandshake, Works
  <2>2. session' = Initialize(q)
    BY <1>2, <1>8
  <2>3. Sound(session', FreshStation, executed) /\ Timed(session', {}) /\ Awake(session')
    BY <1>2, <1>6, <2>2, DisconnectedSound
  <2>. QED BY <1>1, <1>3, <2>1, <2>3, ApartAgain
<1>. QED BY <1>7, <1>8

LEMMA DisconnectSound ==
  ASSUME Orderly, Shown, FirstLap, AllSound, CloseEnd \/ Disconnect
  PROVE  AllSound'
<1>1. session' = Disconnected(session) /\ station' = FreshStation /\ UNCHANGED <<ciphers, executed>>
  BY DEF CloseEnd, Disconnect
<1>2. ciphers = {}
  BY CurrentSound DEF CloseEnd, Disconnect, Orderly, KeySound
<1>3. Sound(session', FreshStation, executed) /\ Timed(session', {}) /\ Awake(session')
  BY <1>1, CurrentSound, DisconnectedSound
<1>. QED BY <1>1, <1>2, <1>3, ApartAgain

LEMMA AgeSound ==
  ASSUME Shown, FirstLap, AllSound, Age
  PROVE  AllSound'
<1>1. /\ SameButQueue(session, session') /\ "ageing" \in Faults
      /\ DOMAIN session'.sendQueue = DOMAIN session.sendQueue
      /\ \A i \in DOMAIN session.sendQueue : session'.sendQueue[i].command = session.sendQueue[i].command
      /\ UNCHANGED <<ciphers, closing, station, executed>>
  BY AgeStep DEF Shown
<1>2. /\ session'.connected = session.connected /\ SameNumbers(session, session') /\ session'.sent = session.sent
      /\ session'.messageStates = session.messageStates /\ session'.msg = session.msg
      /\ session'.events = session.events /\ session'.customDataStaging = session.customDataStaging
  BY <1>1 DEF SameButQueue, SameLink, SameMessages, SameStages
<1>3. NoneAged(session') /\ AllNew(session', executed) /\ OwnResults(session')
  <2>1. AllNew(session', executed)
    BY <1>1, <1>2, CurrentSound DEF Ready, AllNew, WasSent
  <2>2. OwnResults(session')
    BY <1>2, CurrentSound, OwnSame
  <2>. QED BY <1>1, <2>1, <2>2 DEF NoneAged
<1>4. /\ Sound(session', station, executed)
      /\ InHandshake(session, station) => InHandshake(session', station)
  BY <1>2, <1>3, CurrentSound, SoundKept DEF TimersListed
<1>5. closing \/ (Timed(session', {}) /\ Awake(session'))
  BY <1>1, <1>2, CurrentSound DEF Timed, Listed, Awake
<1>. QED BY <1>1, <1>4, <1>5, CurrentSound DEF AllSound

\* What the station takes, and what it does with it.
LEMMA StationTakesFields ==
  ASSUME TypeOK, NEW n, NEW m, StationTakes(n, m), "reorder" \notin Faults
  PROVE  /\ n \notin station.seen /\ 0 .. n - 1 \subseteq station.seen
         /\ station'.seen = station.seen \cup {n}
         /\ UNCHANGED <<session, ciphers, closing>>
         /\ \/ /\ m = Gateway /\ executed' = executed /\ station'.second = station.second
               /\ station'.gatewayInfo \in {"control", "data", "silent"}
               /\ station'.answers = IF station'.gatewayInfo = "data"
                                       THEN Append(station.answers, [from |-> m, failed |-> FALSE])
                                       ELSE station.answers
            \/ /\ m \in PingCommands /\ executed' = executed
               /\ station'.answers = station.answers /\ station'.second = station.second
            \/ /\ m \in Commands \ PingCommands
               /\ \E refused \in BOOLEAN :
                    /\ station'.answers = Append(station.answers, [from |-> m, failed |-> refused])
                    /\ executed' = Append(executed, [command |-> m, refused |-> refused])
                    /\ station'.second \in {station.second, Append(station.second, m)}
                    /\ station'.second # station.second => m \in TwoStageCommands
<1>1. station \in [seen : SUBSET SeqNos, answers : Seq([from : Messages, failed : BOOLEAN]),
                   second : Seq(Commands), gatewayInfo : {"none", "control", "data", "silent", "taken"}]
  BY DEF TypeOK, StationOK
<1>2. /\ n \notin station.seen /\ 0 .. n - 1 \subseteq station.seen
      /\ UNCHANGED <<session, ciphers, closing>>
  BY DEF StationTakes
<1>. DEFINE taken == [station EXCEPT !.seen = @ \cup {n}]
            answer(refused) == Append(station.answers, [from |-> m, failed |-> refused])
<1>3. \/ /\ m = Gateway /\ executed' = executed
         /\ \E how \in {"control", "data", "silent"} :
              station' = [taken EXCEPT !.gatewayInfo = how, !.answers = IF how = "data" THEN answer(FALSE) ELSE @]
      \/ m \in PingCommands /\ executed' = executed /\ station' = taken
      \/ /\ m \in Commands \ PingCommands
         /\ \E refused \in BOOLEAN :
              /\ station' = [taken EXCEPT !.answers = answer(refused),
                                          !.second = IF m \in TwoStageCommands /\ ~refused THEN Append(@, m) ELSE @]
              /\ executed' = Append(executed, [command |-> m, refused |-> refused])
  BY DEF StationTakes
<1>4. /\ taken.seen = station.seen \cup {n} /\ taken.answers = station.answers /\ taken.second = station.second
      /\ DOMAIN taken = {"seen", "answers", "second", "gatewayInfo"}
  BY <1>1
<1>. HIDE DEF taken, answer
<1>5. CASE m = Gateway /\ executed' = executed /\ \E how \in {"control", "data", "silent"} :
             station' = [taken EXCEPT !.gatewayInfo = how, !.answers = IF how = "data" THEN answer(FALSE) ELSE @]
  <2>1. PICK how \in {"control", "data", "silent"} :
          station' = [taken EXCEPT !.gatewayInfo = how, !.answers = IF how = "data" THEN answer(FALSE) ELSE @]
    BY <1>5
  <2>2. /\ station'.seen = taken.seen /\ station'.second = taken.second /\ station'.gatewayInfo = how
        /\ station'.answers = IF how = "data" THEN answer(FALSE) ELSE taken.answers
    BY <1>4, <2>1
  <2>. QED BY <1>2, <1>4, <1>5, <2>2 DEF answer
<1>6. CASE m \in PingCommands /\ executed' = executed /\ station' = taken
  BY <1>2, <1>4, <1>6
<1>7. CASE /\ m \in Commands \ PingCommands
           /\ \E refused \in BOOLEAN :
                /\ station' = [taken EXCEPT !.answers = answer(refused),
                                            !.second = IF m \in TwoStageCommands /\ ~refused THEN Append(@, m) ELSE @]
                /\ executed' = Append(executed, [command |-> m, refused |-> refused])
  <2>1. PICK refused \in BOOLEAN :
          /\ station' = [taken EXCEPT !.answers = answer(refused),
                                      !.second = IF m \in TwoStageCommands /\ ~refused THEN Append(@, m) ELSE @]
          /\ executed' = Append(executed, [command |-> m, refused |-> refused])
    BY <1>7
  <2>2. /\ station'.seen = taken.seen /\ station'.answers = answer(refused)
        /\ station'.second = IF m \in TwoStageCommands /\ ~refused THEN Append(taken.second, m) ELSE taken.second
    BY <1>4, <2>1
  <2>3. /\ station'.second \in {station.second, Append(station.second, m)}
        /\ station'.second # station.second => m \in TwoStageCommands
    BY <1>4, <2>2
  <2>. QED BY <1>2, <1>4, <1>7, <2>1, <2>2, <2>3 DEF answer
<1>. QED BY <1>3, <1>5, <1>6, <1>7

LEMMA StationTakesSound ==
  ASSUME Orderly, Shown, FirstLap, AllSound, NEW n, NEW m, <<n, m>> \in session.sent, StationTakes(n, m)
  PROVE  AllSound'
<1>. DEFINE first == <<0, Gateway>>
            datagram == <<n, m>>
<1>1. /\ n \notin station.seen /\ 0 .. n - 1 \subseteq station.seen
      /\ station'.seen = station.seen \cup {n}
      /\ UNCHANGED <<session, ciphers, closing>>
      /\ \/ /\ m = Gateway /\ executed' = executed /\ station'.second = station.second
            /\ station'.gatewayInfo \in {"control", "data", "silent"}
            /\ station'.answers = IF station'.gatewayInfo = "data"
                                    THEN Append(station.answers, [from |-> m, failed |-> FALSE])
                                    ELSE station.answers
         \/ /\ m \in PingCommands /\ executed' = executed
            /\ station'.answers = station.answers /\ station'.second = station.second
         \/ /\ m \in Commands \ PingCommands
            /\ \E refused \in BOOLEAN :
                 /\ station'.answers = Append(station.answers, [from |-> m, failed |-> refused])
                 /\ executed' = Append(executed, [command |-> m, refused |-> refused])
                 /\ station'.second \in {station.second, Append(station.second, m)}
                 /\ station'.second # station.second => m \in TwoStageCommands
  BY CurrentSound, StationTakesFields DEF Orderly
<1>2. /\ SessionOK(session) /\ StationTyped(station) /\ NumberedOnce(session)
      /\ Linked(session, station) /\ Retried(session, station, executed)
      /\ executed \in Seq([command : Commands, refused : BOOLEAN]) /\ station.second \in Seq(Commands)
      /\ \A j \in DOMAIN executed : executed[j].command # Gateway
  BY CurrentSound, CurrentReady DEF Ready, Shown, TypeOK, StationOK
<1>3. ~Apart(session, station)
  BY DEF Apart
<1>4. datagram \in session.sent /\ datagram[1] = n /\ datagram[2] = m /\ first[1] = 0 /\ first[2] = Gateway
  OBVIOUS
<1>5. InHandshake(session, station) => n = 0 /\ m = Gateway /\ station.gatewayInfo = "none" /\ station.answers = <<>>
  <2>. SUFFICES ASSUME InHandshake(session, station)
                PROVE  n = 0 /\ m = Gateway /\ station.gatewayInfo = "none" /\ station.answers = <<>>
    OBVIOUS
  <2>1. session.sent = {first} /\ (station.gatewayInfo # "none" => 0 \in station.seen)
    BY DEF InHandshake
  <2>2. n = 0 /\ m = Gateway
    <3>. HIDE DEF first, datagram
    <3>. QED BY <1>4, <2>1
  <2>3. station.gatewayInfo = "none"
    BY <1>1, <2>1, <2>2
  <2>. QED BY <2>2, <2>3 DEF InHandshake
<1>. HIDE DEF first, datagram
<1>6. Works(session, station) => m # Gateway
  BY <1>1, <1>4 DEF Works, Counts
<1>7. Linked(session, station')
  <2>1. CASE InHandshake(session, station)
    <3>1. /\ station'.gatewayInfo \in {"control", "data", "silent"}
          /\ station'.answers = IF station'.gatewayInfo = "data"
                                  THEN Append(station.answers, [from |-> m, failed |-> FALSE])
                                  ELSE station.answers
      BY <1>1, <1>5, <2>1, CommandAssumption
    <3>2. station'.answers = IF station'.gatewayInfo = "data" THEN <<[from |-> Gateway, failed |-> FALSE]>> ELSE <<>>
      <4>. DEFINE answer == [from |-> Gateway, failed |-> FALSE]
      <4>1. station'.answers = IF station'.gatewayInfo = "data" THEN Append(<<>>, answer) ELSE <<>>
        BY <1>5, <2>1, <3>1
      <4>. HIDE DEF answer
      <4>2. Append(<<>>, answer) = <<answer>>
        OBVIOUS
      <4>. QED BY <4>1, <4>2 DEF answer
    <3>3. station'.seen \subseteq {0} /\ 0 \in station'.seen
      BY <1>1, <1>5, <2>1 DEF InHandshake
    <3>. QED BY <2>1, <3>2, <3>3 DEF Linked, InHandshake
  <2>2. CASE Works(session, station)
    <3>1. \/ m \in PingCommands /\ station'.answers = station.answers
          \/ /\ m \notin PingCommands
             /\ \E failed \in BOOLEAN : station'.answers = Append(station.answers, [from |-> m, failed |-> failed])
      BY <1>1, <1>6, <2>2
    <3>2. Works(session, station')
      BY <1>1, <1>2, <2>2, <3>1, StationTakesLinked
    <3>. QED BY <3>2 DEF Linked
  <2>. QED BY <1>2, <1>3, <2>1, <2>2 DEF Linked
<1>8. Retried(session, station', executed')
  <2>1. PICK refused \in BOOLEAN :
          \/ /\ m = Gateway /\ executed' = executed
             /\ station'.answers \in {station.answers, Append(station.answers, [from |-> m, failed |-> FALSE])}
          \/ m \in PingCommands /\ executed' = executed /\ station'.answers = station.answers
          \/ /\ m \in Commands \ PingCommands
             /\ station'.answers = Append(station.answers, [from |-> m, failed |-> refused])
             /\ executed' = Append(executed, [command |-> m, refused |-> refused])
    BY <1>1
  <2>. QED BY <1>1, <1>2, <2>1, StationTakesRetried, ZenonT(30)
<1>9. ciphers = {}
  <2>1. ciphers # {} => InHandshake(session, station) /\ station.gatewayInfo = "taken"
    BY CurrentSound
  <2>. QED BY <1>5, <2>1
<1>10. \A i \in DOMAIN station'.second : station'.second[i] \in TwoStageCommands
  <2>1. \A i \in DOMAIN station.second : station.second[i] \in TwoStageCommands
    BY CurrentSound
  <2>2. CASE station'.second = station.second
    BY <2>1, <2>2
  <2>3. CASE m \in TwoStageCommands /\ station'.second = Append(station.second, m)
    <3>1. m \in Commands
      BY <2>3, CommandAssumption
    <3>2. /\ DOMAIN station'.second = 1 .. Len(station.second) + 1 /\ Len(station.second) \in Nat
          /\ station'.second[Len(station.second) + 1] = m
          /\ \A i \in 1 .. Len(station.second) : station'.second[i] = station.second[i]
      BY <1>2, <2>3, <3>1, AppendFacts
    <3>3. DOMAIN station.second = 1 .. Len(station.second)
      BY <1>2
    <3>. QED BY <2>1, <2>3, <3>2, <3>3
  <2>. QED BY <1>1, <2>2, <2>3
<1>11. /\ TimersListed(session) /\ OwnResults(session) /\ NoneAged(session)
       /\ closing \/ (Timed(session, {}) /\ Awake(session))
  BY CurrentSound
<1>12. Sound(session', station', executed')
  BY <1>1, <1>7, <1>8, <1>11 DEF Sound
<1>13. closing' \/ (Timed(session', {}) /\ Awake(session'))
  BY <1>1, <1>11
<1>. QED BY <1>1, <1>9, <1>10, <1>12, <1>13 DEF AllSound

LEMMA AckSound ==
  ASSUME Shown, FirstLap, AllSound, NEW sequence \in station.seen, HandleAck(sequence)
  PROVE  AllSound'
<1>. DEFINE m == session.messageStates[sequence]
<1>1. /\ sequence \in DOMAIN session.messageStates /\ m \in Messages
      /\ UNCHANGED <<ciphers, closing, station, executed>>
      /\ \E q : /\ SessionOK(q) /\ SameLink(session, q) /\ SameNumbers(session, q) /\ SameStages(session, q)
                /\ q.sendQueue = session.sendQueue /\ q.events = session.events /\ q.sent = session.sent
                /\ \A x \in Messages \ {m} : q.msg[x] = session.msg[x]
                /\ q.msg[m].sequence = session.msg[m].sequence
                /\ q.messageStates = IF m \in Pings THEN WithoutKeys(session.messageStates, {sequence})
                                                    ELSE session.messageStates
                /\ q.msg[m].timeout = IF m \in Pings THEN "none" ELSE "result"
                /\ session' = SendQueuedMessage(q)
  BY AckStep DEF Shown
<1>2. session.messageStates[sequence] = m
  OBVIOUS
<1>. HIDE DEF m
<1>3. PICK q : /\ SessionOK(q) /\ SameLink(session, q) /\ SameNumbers(session, q) /\ SameStages(session, q)
               /\ q.sendQueue = session.sendQueue /\ q.events = session.events /\ q.sent = session.sent
               /\ \A x \in Messages \ {m} : q.msg[x] = session.msg[x]
               /\ q.msg[m].sequence = session.msg[m].sequence
               /\ q.messageStates = IF m \in Pings THEN WithoutKeys(session.messageStates, {sequence})
                                                   ELSE session.messageStates
               /\ q.msg[m].timeout = IF m \in Pings THEN "none" ELSE "result"
               /\ session' = SendQueuedMessage(q)
  BY <1>1
<1>4. m \in Listed(session)
  BY <1>1, <1>2 DEF Listed, Range
<1>5. OwnResults(q) /\ q.connected = session.connected
  BY <1>3, CurrentSound, OwnSame DEF SameLink, SameStages
<1>6. CASE m \in Pings
  <2>1. m # Gateway
    BY <1>6, CommandAssumption DEF Pings
  <2>2. Works(session, station)
    BY <1>1, <1>2, <2>1, CurrentSound DEF Linked, Apart, InHandshake
  <2>3. Sound(q, station, executed) /\ Ready(q, executed) /\ (Timed(session, {m}) => Timed(q, {}))
    BY <1>1, <1>2, <1>3, <1>5, <1>6, <2>2, CurrentSound, EndedSound
  <2>4. closing \/ Timed(q, {})
    BY <2>3, CurrentSound DEF Timed
  <2>5. ciphers = {}
    BY <2>2, CurrentSound DEF InHandshake, Works, Listed, Range
  <2>. QED BY <1>1, <1>3, <2>3, <2>4, <2>5, CurrentSound, QueueGoesOn
<1>7. CASE m \notin Pings
  <2>1. \A x \in Messages : /\ q.msg[x].sequence = session.msg[x].sequence
                            /\ q.msg[x].timeout # "none" => x \in Listed(session)
    BY <1>1, <1>3, <1>4, CurrentSound DEF TimersListed
  <2>2. /\ Sound(q, station, executed) /\ Ready(q, executed) /\ Listed(q) = Listed(session)
        /\ InHandshake(session, station) => InHandshake(q, station)
    BY <1>3, <1>5, <1>7, <2>1, CurrentSound, SoundSame
  <2>3. closing \/ Timed(q, {})
    <3>1. Listed(session) \subseteq Messages
      BY CurrentSound DEF SessionOK, MessagesOK, Listed, Range
    <3>. QED BY <1>3, <1>7, <2>2, <3>1, CurrentSound DEF Timed
  <2>. QED BY <1>1, <1>3, <2>2, <2>3, CurrentSound, QueueGoesOn
<1>. QED BY <1>6, <1>7

LEMMA GatewayInfoSound ==
  ASSUME Orderly, Shown, FirstLap, AllSound, HandleGatewayInfo
  PROVE  AllSound'
<1>1. /\ station.gatewayInfo = "control" /\ Gateway \in Listed(session) /\ ~closing
      /\ station' = [station EXCEPT !.gatewayInfo = "taken"]
      /\ UNCHANGED <<session, closing, executed>>
  BY DEF HandleGatewayInfo, Orderly
<1>2. InHandshake(session, station)
  BY <1>1, CurrentSound DEF Linked, Apart, Works, Listed, Range
<1>3. /\ station'.seen = station.seen /\ station'.answers = station.answers /\ station'.second = station.second
      /\ station'.gatewayInfo = "taken"
  BY <1>1 DEF Shown, TypeOK, StationOK
<1>4. InHandshake(session, station')
  BY <1>1, <1>2, <1>3 DEF InHandshake
<1>5. Retried(session, station', executed)
  BY <1>3, CurrentSound DEF Retried, OneOnItsWay, RefusedBefore, Untaken, Untold
<1>6. Sound(session', station', executed')
  BY <1>1, <1>4, <1>5, CurrentSound DEF Sound, Linked
<1>. QED BY <1>1, <1>3, <1>4, <1>6, CurrentSound DEF AllSound

LEMMA CipherSound ==
  ASSUME Shown, FirstLap, AllSound, NEW connection \in 1 .. MaxConnections, CipherAnswers(connection)
  PROVE  AllSound'
<1>1. /\ connection \in ciphers /\ ciphers' = ciphers \ {connection} /\ UNCHANGED <<closing, station, executed>>
      /\ \E q : /\ SessionOK(q) /\ SameNumbers(session, q) /\ SameStages(session, q)
                /\ q.connected = session.connected
                /\ q.sendQueue = session.sendQueue /\ q.events = session.events
                /\ q.messageStates = session.messageStates /\ q.sent = session.sent
                /\ q.msg = ClearTimeouts(session.msg, {session.messageStates[k] :
                                                       k \in {0} \cap DOMAIN session.messageStates})
                /\ session' = HandshakeOver(q, 0)
  BY CipherStep DEF Shown
<1>2. PICK q : /\ SessionOK(q) /\ SameNumbers(session, q) /\ SameStages(session, q)
               /\ q.connected = session.connected
               /\ q.sendQueue = session.sendQueue /\ q.events = session.events
               /\ q.messageStates = session.messageStates /\ q.sent = session.sent
               /\ q.msg = ClearTimeouts(session.msg, {session.messageStates[k] :
                                                      k \in {0} \cap DOMAIN session.messageStates})
               /\ session' = HandshakeOver(q, 0)
  BY <1>1
<1>3. InHandshake(session, station) /\ station.gatewayInfo = "taken" /\ ciphers \subseteq {session.connection}
  BY <1>1, CurrentSound DEF KeySound
<1>4. ciphers' = {}
  BY <1>1, <1>3
<1>5. {session.messageStates[k] : k \in {0} \cap DOMAIN session.messageStates} = {Gateway}
  BY <1>3 DEF InHandshake
<1>6. /\ \A x \in Messages : /\ q.msg[x].sequence = session.msg[x].sequence
                             /\ q.msg[x].timeout # "none" => x \in Listed(session)
      /\ q.msg[Gateway].timeout = "none"
  <2>1. session.msg \in [Messages -> MessageState] /\ TimersListed(session)
    BY CurrentSound DEF SessionOK, MessagesOK
  <2>2. \A x \in Messages :
          q.msg[x] = IF x \in {Gateway} THEN [session.msg[x] EXCEPT !.timeout = "none"] ELSE session.msg[x]
    BY <1>2, <1>5 DEF ClearTimeouts
  <2>3. Gateway \in Messages
    BY DEF Messages
  <2>. QED BY <2>1, <2>2, <2>3 DEF MessageState, TimersListed
<1>7. OwnResults(q)
  BY <1>2, CurrentSound, OwnSame DEF SameStages
<1>8. Sound(q, station, executed) /\ Ready(q, executed) /\ InHandshake(q, station)
  BY <1>2, <1>3, <1>6, <1>7, CurrentSound, SoundSame
<1>9. Sound(session', station, executed) /\ Timed(session', {}) /\ Awake(session')
  BY <1>2, <1>3, <1>6, <1>8, CurrentSound, HandshakeOverSound
<1>. QED BY <1>1, <1>4, <1>9, CurrentSound DEF AllSound

\* The station's list of second results says nothing of the answers.
LEMMA SecondIgnored ==
  ASSUME NEW s, NEW st, NEW done, Sound(s, st, done), s.connected,
         NEW u, u.seen = st.seen, u.answers = st.answers, u.gatewayInfo = st.gatewayInfo
  PROVE  Sound(s, u, done) /\ (InHandshake(s, st) => InHandshake(s, u))
<1>1. InHandshake(s, st) => InHandshake(s, u)
  BY DEF InHandshake
<1>2. Works(s, st) => Works(s, u)
  BY DEF Works, Counts, Mapped, MappedTo
<1>3. Retried(s, u, done)
  BY DEF Sound, Retried, OneOnItsWay, RefusedBefore, Untaken, Untold
<1>. QED BY <1>1, <1>2, <1>3 DEF Sound, Linked, Apart

LEMMA SecondSound ==
  ASSUME Shown, FirstLap, AllSound, HandleSecondResult
  PROVE  AllSound'
<1>. DEFINE from == Head(station.second)
            type == CommandType[from]
            told == session.customDataStaging[type]
<1>1. /\ session.connected /\ station.second # <<>> /\ from \in Commands
      /\ station' = [station EXCEPT !.second = Tail(@)]
      /\ UNCHANGED <<ciphers, closing, executed>>
      /\ \E q : /\ SessionOK(q) /\ SameLink(session, q) /\ SameNumbers(session, q) /\ SameMessages(session, q)
                /\ q.sendQueue = session.sendQueue
                /\ \/ /\ q.customDataStaging = session.customDataStaging /\ q.events = session.events
                   \/ /\ type \in DOMAIN session.customDataStaging /\ told \in Messages
                      /\ q.customDataStaging = WithoutKeys(session.customDataStaging, {type})
                      /\ OneMore(session, q, told, Event("SECOND_RESULT", from))
                /\ session' = SendQueuedMessage(q)
  BY SecondStep DEF Shown
<1>2. PICK q : /\ SessionOK(q) /\ SameLink(session, q) /\ SameNumbers(session, q) /\ SameMessages(session, q)
               /\ q.sendQueue = session.sendQueue
               /\ \/ /\ q.customDataStaging = session.customDataStaging /\ q.events = session.events
                  \/ /\ type \in DOMAIN session.customDataStaging /\ told \in Messages
                     /\ q.customDataStaging = WithoutKeys(session.customDataStaging, {type})
                     /\ OneMore(session, q, told, Event("SECOND_RESULT", from))
               /\ session' = SendQueuedMessage(q)
  BY <1>1
<1>3. station.second \in Seq(Commands) /\ \A i \in DOMAIN station.second : station.second[i] \in TwoStageCommands
  BY CurrentSound DEF TypeOK, StationOK
<1>4. /\ from \in TwoStageCommands
      /\ \A i \in DOMAIN Tail(station.second) : Tail(station.second)[i] \in TwoStageCommands
  BY <1>1, <1>3
<1>5. /\ station'.seen = station.seen /\ station'.answers = station.answers
      /\ station'.gatewayInfo = station.gatewayInfo /\ station'.second = Tail(station.second)
  BY <1>1, CurrentSound DEF TypeOK, StationOK
<1>6. OwnResults(q)
  <2>1. CASE q.customDataStaging = session.customDataStaging /\ q.events = session.events
    BY <2>1, CurrentSound, OwnSame
  <2>2. CASE /\ type \in DOMAIN session.customDataStaging /\ told \in Messages
             /\ q.customDataStaging = WithoutKeys(session.customDataStaging, {type})
             /\ OneMore(session, q, told, Event("SECOND_RESULT", from))
    <3>1. told \in TwoStageCommands /\ CommandType[told] = CommandType[from]
      BY <2>2, CurrentSound DEF OwnResults
    <3>2. OwnTypes => from = told
      BY <1>4, <3>1 DEF OwnTypes
    <3>3. Event("SECOND_RESULT", from).from = from
      BY <1>1, CodesOK DEF Messages
    <3>4. \A x \in DOMAIN q.customDataStaging :
            x \in DOMAIN session.customDataStaging /\ q.customDataStaging[x] = session.customDataStaging[x]
      BY <2>2 DEF WithoutKeys, Restrict
    <3>. HIDE DEF from, type, told
    <3>. QED BY <2>2, <3>2, <3>3, <3>4, CurrentSound, OwnMore
  <2>. QED BY <1>2, <2>1, <2>2
<1>. HIDE DEF from, type, told
<1>7. /\ Sound(q, station, executed) /\ Ready(q, executed)
      /\ InHandshake(session, station) => InHandshake(q, station)
  BY <1>2, <1>6, CurrentSound, SoundSame DEF SameLink, SameMessages, TimersListed
<1>8. /\ Sound(q, station', executed) /\ (InHandshake(q, station) => InHandshake(q, station'))
  BY <1>1, <1>2, <1>5, <1>7, SecondIgnored DEF SameLink
<1>9. closing \/ Timed(q, {})
  BY <1>2, CurrentSound DEF Timed, Listed, SameMessages
<1>10. StationTyped(station')
  BY <1>5, CurrentSound DEF StationTyped
<1>11. ciphers # {} => InHandshake(q, station') /\ station'.gatewayInfo = "taken"
  BY <1>5, <1>7, <1>8, CurrentSound
<1>. QED BY <1>1, <1>2, <1>4, <1>5, <1>7, <1>8, <1>9, <1>10, <1>11, QueueGoesOn

LEMMA SecondaryTimeoutSound ==
  ASSUME Shown, FirstLap, AllSound, NEW m \in Commands, SecondaryTimeout(m)
  PROVE  AllSound'
<1>. DEFINE event == Event("SECONDARY_TIMEOUT", None)
<1>1. /\ UNCHANGED <<ciphers, closing, station, executed>>
      /\ \E q : /\ SessionOK(q) /\ SameLink(session, q) /\ SameNumbers(session, q) /\ SameMessages(session, q)
                /\ q.sendQueue = session.sendQueue /\ q.customDataStaging = session.customDataStaging
                /\ OneMore(session, q, m, event)
                /\ session' = SendQueuedMessage(q)
  BY SecondaryTimeoutStep DEF Shown
<1>2. event.code = "SECONDARY_TIMEOUT" /\ m \in Messages
  BY CodesOK DEF Messages
<1>. HIDE DEF event
<1>3. PICK q : /\ SessionOK(q) /\ SameLink(session, q) /\ SameNumbers(session, q) /\ SameMessages(session, q)
               /\ q.sendQueue = session.sendQueue /\ q.customDataStaging = session.customDataStaging
               /\ OneMore(session, q, m, event)
               /\ session' = SendQueuedMessage(q)
  BY <1>1
<1>4. OwnResults(q)
  BY <1>2, <1>3, CurrentSound, OwnMore
<1>5. /\ Sound(q, station, executed) /\ Ready(q, executed)
      /\ InHandshake(session, station) => InHandshake(q, station)
  BY <1>3, <1>4, CurrentSound, SoundSame DEF SameLink, SameMessages, TimersListed
<1>6. closing \/ Timed(q, {})
  BY <1>3, CurrentSound DEF Timed, Listed, SameMessages
<1>. QED BY <1>1, <1>3, <1>5, <1>6, CurrentSound, QueueGoesOn

LEMMA ResultTimeoutSound ==
  ASSUME Orderly, Shown, FirstLap, AllSound, NEW m \in Messages, ResultTimeout(m)
  PROVE  AllSound'
<1>. DEFINE old == session.msg[m].sequence
            event == Event("COMMAND_TIMEOUT", None)
<1>1. /\ session.msg[m].timeout = "result"
      /\ m = Gateway => station.gatewayInfo = "silent"
      /\ UNCHANGED <<ciphers, closing, station, executed>>
      /\ \E q : /\ SessionOK(q) /\ SameLink(session, q) /\ SameNumbers(session, q) /\ SameStages(session, q)
                /\ q.sendQueue = session.sendQueue /\ q.sent = session.sent
                /\ q.msg = [session.msg EXCEPT ![m].timeout = "none"]
                /\ \/ /\ m = Gateway /\ q.messageStates = session.messageStates /\ q.events = session.events
                      /\ session' = HandshakeOver(q, old)
                   \/ /\ m # Gateway
                      /\ q.messageStates = WithoutKeys(session.messageStates, {old})
                      /\ OneMore(session, q, m, event)
                      /\ session' = SendQueuedMessage(q)
  BY ResultTimeoutStep DEF Shown, Orderly
<1>2. event.code = "COMMAND_TIMEOUT"
  BY CodesOK
<1>3. m \in Listed(session)
  BY <1>1, CurrentSound DEF TimersListed
<1>4. PICK key \in DOMAIN session.messageStates : session.messageStates[key] = m
  BY <1>3 DEF Listed, Range
<1>5. m # Gateway => old = key
  BY CommandAssumption, <1>4, CurrentSound DEF Ready, KeyedByNumber, Messages
<1>6. InHandshake(session, station) => m = Gateway /\ old = 0
  BY <1>3 DEF InHandshake, Listed, Range
<1>. HIDE DEF event, old
<1>7. PICK q : /\ SessionOK(q) /\ SameLink(session, q) /\ SameNumbers(session, q) /\ SameStages(session, q)
               /\ q.sendQueue = session.sendQueue /\ q.sent = session.sent
               /\ q.msg = [session.msg EXCEPT ![m].timeout = "none"]
               /\ \/ /\ m = Gateway /\ q.messageStates = session.messageStates /\ q.events = session.events
                     /\ session' = HandshakeOver(q, old)
                  \/ /\ m # Gateway
                     /\ q.messageStates = WithoutKeys(session.messageStates, {old})
                     /\ OneMore(session, q, m, event)
                     /\ session' = SendQueuedMessage(q)
  BY <1>1
<1>8. /\ q.msg[m].timeout = "none" /\ q.msg[m].sequence = session.msg[m].sequence
      /\ \A x \in Messages \ {m} : q.msg[x] = session.msg[x]
  <2>1. session.msg \in [Messages -> MessageState]
    BY CurrentSound DEF SessionOK, MessagesOK
  <2>. QED BY <1>7, <2>1 DEF MessageState
<1>9. CASE /\ m = Gateway /\ q.messageStates = session.messageStates /\ q.events = session.events
           /\ session' = HandshakeOver(q, old)
  <2>1. InHandshake(session, station)
    BY <1>3, <1>9, CurrentSound DEF Linked, Apart, Works, Listed, Range
  <2>2. old = 0
    BY <1>6, <2>1
  <2>3. OwnResults(q)
    BY <1>7, <1>9, CurrentSound, OwnSame DEF SameStages
  <2>4. \A x \in Messages : /\ q.msg[x].sequence = session.msg[x].sequence
                            /\ q.msg[x].timeout # "none" => x \in Listed(session)
    BY <1>3, <1>8, CurrentSound DEF TimersListed
  <2>5. Sound(q, station, executed) /\ Ready(q, executed) /\ InHandshake(q, station)
    BY <1>7, <1>9, <2>1, <2>3, <2>4, CurrentSound, SoundSame DEF SameLink
  <2>6. Sound(session', station, executed) /\ Timed(session', {}) /\ Awake(session')
    <3>1. station.gatewayInfo \notin {"none", "data"}
      BY <1>1, <1>9
    <3>. QED BY <1>7, <1>8, <1>9, <2>2, <2>5, <3>1, CurrentSound, HandshakeOverSound
  <2>7. ciphers = {}
    BY <1>1, <1>9, CurrentSound
  <2>. QED BY <1>1, <2>6, <2>7, CurrentSound DEF AllSound
<1>10. CASE /\ m # Gateway
           /\ q.messageStates = WithoutKeys(session.messageStates, {old})
           /\ OneMore(session, q, m, event)
           /\ session' = SendQueuedMessage(q)
  <2>1. Works(session, station)
    BY <1>3, <1>6, <1>10, CurrentSound DEF Linked, Apart, Listed, Range
  <2>2. OwnResults(q)
    BY <1>2, <1>7, <1>10, CurrentSound, OwnMore DEF SameStages
  <2>3. Sound(q, station, executed) /\ Ready(q, executed) /\ (Timed(session, {m}) => Timed(q, {}))
    <3>1. /\ q.connected = session.connected /\ SameNumbers(session, q) /\ q.sendQueue = session.sendQueue
          /\ q.sent = session.sent /\ q.messageStates = WithoutKeys(session.messageStates, {key})
          /\ q.msg[m].timeout = "none" /\ \A x \in Messages \ {m} : q.msg[x] = session.msg[x]
      BY <1>5, <1>7, <1>8, <1>10 DEF SameLink
    <3>2. SessionOK(session) /\ Sound(session, station, executed) /\ Ready(session, executed)
      BY CurrentSound
    <3>. QED BY <1>4, <2>1, <2>2, <3>1, <3>2, EndedSound
  <2>4. closing \/ Timed(q, {})
    BY <2>3, CurrentSound DEF Timed
  <2>5. ciphers = {}
    BY <2>1, CurrentSound DEF InHandshake, Works, Listed, Range
  <2>. QED BY <1>1, <1>7, <1>10, <2>3, <2>4, <2>5, CurrentSound, QueueGoesOn
<1>. QED BY <1>7, <1>9, <1>10

\* The next answer belongs to the message the table maps it to.
LEMMA AnswerMapped ==
  ASSUME NEW s, SessionOK(s), NEW st, StationTyped(st), Works(s, st), Ready(s, executed), s.results < Len(st.answers)
  PROVE  LET n == s.p2pSeqMapping[s.results]
         IN /\ s.results % (MAX_SEQUENCE_NUMBER + 1) = s.results
            /\ s.results \in DOMAIN s.p2pSeqMapping /\ n # 0 /\ MappedSequence(s, s.results) = n
            /\ n \in DOMAIN s.messageStates => s.messageStates[n] = st.answers[s.results + 1].from
<1>. DEFINE k == s.results
            n == s.p2pSeqMapping[k]
            from == st.answers[k + 1].from
<1>1. /\ k \in Nat /\ s.seqNumber \in Nat /\ s.p2pDataSeqNumber \in Int /\ MAX_SEQUENCE_NUMBER \in Nat
      /\ Len(st.answers) \in Nat /\ s.seqNumber < MAX_SEQUENCE_NUMBER /\ NumberedOnce(s)
  BY NumberFacts DEF StationTyped, Ready
<1>2. k \in Outstanding(s) /\ k < MAX_SEQUENCE_NUMBER + 1
  BY <1>1 DEF Works, Counts, Outstanding
<1>3. k % (MAX_SEQUENCE_NUMBER + 1) = k
  BY <1>1, <1>2
<1>4. k \in DOMAIN s.p2pSeqMapping /\ n # 0 /\ <<n, from>> \in s.sent
  BY <1>2 DEF Works, Mapped, MappedTo
<1>5. n \in DOMAIN s.messageStates => s.messageStates[n] = from
  <2>. DEFINE datagram == <<n, from>>
              listed == <<n, s.messageStates[n]>>
  <2>1. datagram[1] = n /\ datagram[2] = from /\ listed[1] = n /\ listed[2] = s.messageStates[n] /\ datagram \in s.sent
    BY <1>4
  <2>2. n \in DOMAIN s.messageStates => listed \in s.sent
    BY <1>1 DEF NumberedOnce
  <2>. HIDE DEF datagram, listed
  <2>. QED BY <1>1, <2>1, <2>2 DEF NumberedOnce
<1>. QED BY <1>3, <1>4, <1>5 DEF MappedSequence

\* The answer to the handshake ends it.
LEMMA HandshakeAnswered ==
  ASSUME NEW s, SessionOK(s), NEW key \in DOMAIN s.messageStates, s.messageStates[key] = Gateway
  PROVE  HandleResult(s, key, Gateway, FALSE) = SendQueuedMessage(Answered(s, key, Gateway))
<1>. DEFINE m == s.messageStates[key]
            from == Gateway
            failed == FALSE
            t == HandleResult(s, key, from, failed)
            a == Answered(s, key, from)
<1>1. m = from /\ m \notin TwoStageCommands /\ ~failed
  BY CommandAssumption
<1>. HIDE DEF from, failed
<1>2. \/ CommandType[m] # CommandType[from]
      \/ failed
      \/ m \in TwoStageCommands
      \/ t = SendQueuedMessage(a)
  BY HandleResultCases
<1>. HIDE DEF m, t, a
<1>3. t = SendQueuedMessage(a)
  BY <1>1, <1>2
<1>. QED BY <1>3 DEF t, a, from, failed

LEMMA DataSound ==
  ASSUME Shown, FirstLap, AllSound, HandleData
  PROVE  AllSound'
<1>. DEFINE number == session.results % (MAX_SEQUENCE_NUMBER + 1)
            good == MappedSequence(session, number)
            key == IF good = 0 THEN number ELSE good
            answer == station.answers[session.results + 1]
<1>1. /\ session.connected /\ session.results < Len(station.answers)
      /\ answer.from \in Messages /\ answer.failed \in BOOLEAN
      /\ UNCHANGED <<ciphers, closing, station, executed>>
      /\ \E q : /\ SessionOK(q) /\ SameLink(session, q) /\ SameMessages(session, q) /\ SameStages(session, q)
                /\ q.sendQueue = session.sendQueue /\ q.events = session.events
                /\ q.seqNumber = session.seqNumber /\ q.p2pDataSeqNumber = session.p2pDataSeqNumber
                /\ q.results = session.results + 1
                /\ q.p2pSeqMapping = IF good = 0 THEN session.p2pSeqMapping
                                     ELSE WithoutKeys(session.p2pSeqMapping, {number})
                /\ session' = IF key \in DOMAIN session.messageStates
                                THEN HandleResult(q, key, answer.from, answer.failed) ELSE q
  BY DataStep DEF Shown
<1>2. PICK q : /\ SessionOK(q) /\ SameLink(session, q) /\ SameMessages(session, q) /\ SameStages(session, q)
               /\ q.sendQueue = session.sendQueue /\ q.events = session.events
               /\ q.seqNumber = session.seqNumber /\ q.p2pDataSeqNumber = session.p2pDataSeqNumber
               /\ q.results = session.results + 1
               /\ q.p2pSeqMapping = IF good = 0 THEN session.p2pSeqMapping
                                    ELSE WithoutKeys(session.p2pSeqMapping, {number})
               /\ session' = IF key \in DOMAIN session.messageStates
                               THEN HandleResult(q, key, answer.from, answer.failed) ELSE q
  BY <1>1
<1>3. /\ q.connected = session.connected /\ q.sent = session.sent /\ q.msg = session.msg
      /\ q.messageStates = session.messageStates /\ q.secondaryTimers = session.secondaryTimers
      /\ q.customDataStaging = session.customDataStaging
  BY <1>2 DEF SameLink, SameMessages, SameStages
<1>4. CASE InHandshake(session, station)
  <2>1. /\ station.gatewayInfo = "data" /\ answer.from = Gateway /\ answer.failed = FALSE
        /\ Len(station.answers) = 1 /\ 0 \in station.seen
    BY <1>1, <1>4 DEF InHandshake
  <2>2. number = 0
    BY <1>4, NumberAssumption DEF InHandshake
  <2>3. good = 0 /\ key = 0
    BY <1>4, <2>2 DEF InHandshake, MappedSequence
  <2>. HIDE DEF answer, key, good, number
  <2>4. session' = HandleResult(q, 0, Gateway, FALSE) /\ 0 \in DOMAIN q.messageStates /\ q.messageStates[0] = Gateway
    BY <1>2, <1>3, <1>4, <2>1, <2>3 DEF InHandshake
  <2>. DEFINE a == Answered(q, 0, Gateway)
  <2>5. session' = SendQueuedMessage(a)
    BY <1>2, <2>4, HandshakeAnswered
  <2>6. /\ SessionOK(a) /\ SameLink(q, a) /\ SameNumbers(q, a) /\ SameStages(q, a)
        /\ a.sendQueue = q.sendQueue /\ a.sent = q.sent
        /\ a.messageStates = WithoutKeys(q.messageStates, {0})
        /\ a.msg[Gateway].timeout = "none"
        /\ \A x \in Messages \ {Gateway} : a.msg[x] = q.msg[x]
        /\ a.events = q.events
    <3>1. Gateway \in Messages
      BY DEF Messages
    <3>. QED BY <1>2, <2>4, <3>1, AnsweredFields DEF TookAnswer
  <2>. HIDE DEF a
  <2>7. DOMAIN a.messageStates = {}
    BY <1>3, <1>4, <2>6 DEF InHandshake, WithoutKeys, Restrict
  <2>8. OwnResults(a)
    BY <1>2, <1>3, <2>6, CurrentSound, OwnSame DEF SameStages
  <2>9. /\ a.connected /\ a.seqNumber = session.seqNumber /\ a.results = Len(station.answers)
        /\ a.p2pDataSeqNumber = Len(station.answers) /\ a.sendQueue = session.sendQueue /\ a.sent = session.sent
        /\ \A x \in Messages : a.msg[x].timeout # "none" => x # Gateway /\ session.msg[x].timeout # "none"
    BY <1>1, <1>2, <1>3, <1>4, <2>1, <2>6 DEF InHandshake, SameLink, SameNumbers
  <2>10. Sound(a, station, executed) /\ Ready(a, executed) /\ Timed(a, {})
    BY <1>4, <2>1, <2>7, <2>8, <2>9, CurrentSound, HandshakeEnds
  <2>11. ciphers = {}
    BY <2>1, CurrentSound
  <2>. QED BY <1>1, <2>5, <2>6, <2>10, <2>11, CurrentSound, QueueGoesOn
<1>5. CASE Works(session, station)
  <2>. DEFINE n == session.p2pSeqMapping[session.results]
  <2>1. /\ number = session.results /\ n # 0 /\ MappedSequence(session, session.results) = n
        /\ n \in DOMAIN session.messageStates => session.messageStates[n] = answer.from
    BY <1>1, <1>5, CurrentSound, AnswerMapped
  <2>2. good = n /\ key = n
    BY <2>1
  <2>3. /\ Retried(q, station, executed)
        /\ answer.failed => Open(q, station, executed, answer.from)
    BY <1>1, <1>2, <1>3, CurrentSound, RetriedTaken
  <2>. HIDE DEF answer, key, good, number, n
  <2>4. q.p2pSeqMapping = WithoutKeys(session.p2pSeqMapping, {session.results})
    BY <1>2, <2>1, <2>2
  <2>5. Listed(q) = Listed(session)
    BY <1>3 DEF Listed
  <2>6. Works(q, station)
    BY <1>1, <1>2, <1>3, <1>5, <2>4, <2>5, CurrentSound, WorksTaken
  <2>7. Sound(q, station, executed)
    <3>1. TimersListed(q) /\ NoneAged(q) /\ OwnResults(q)
      BY <1>2, <1>3, <2>5, CurrentSound, OwnSame DEF TimersListed, NoneAged
    <3>. QED BY <2>3, <2>6, <3>1 DEF Sound, Linked
  <2>8. Ready(q, executed)
    BY <1>2, <1>3, CurrentSound DEF Ready, NumberedOnce, KeyedByNumber, AllNew, WasSent
  <2>9. closing \/ (Timed(q, {}) /\ Awake(q))
    <3>1. WaitingAcknowledge(session) => WaitingAcknowledge(q)
      BY <1>3, <2>5 DEF WaitingAcknowledge
    <3>. QED BY <1>2, <1>3, <2>5, <3>1, CurrentSound DEF Timed, Awake
  <2>10. ciphers = {}
    BY <1>5, CurrentSound DEF InHandshake, Works, Listed, Range
  <2>11. CASE n \in DOMAIN session.messageStates
    <3>1. session' = HandleResult(q, n, answer.from, answer.failed)
      BY <1>2, <2>2, <2>11
    <3>2. n \in DOMAIN q.messageStates /\ q.messageStates[n] = answer.from
      BY <1>3, <2>1, <2>11
    <3>3. /\ Sound(session', station, executed)
          /\ Timed(q, {}) => Timed(session', {})
          /\ Awake(q) => Awake(session')
      BY <1>1, <1>2, <2>3, <2>6, <2>7, <2>8, <3>1, <3>2, CurrentSound, HandleResultSound
    <3>. QED BY <1>1, <2>9, <2>10, <3>3, CurrentSound DEF AllSound
  <2>12. CASE n \notin DOMAIN session.messageStates
    <3>1. session' = q
      BY <1>2, <2>2, <2>12
    <3>. QED BY <1>1, <2>7, <2>9, <2>10, <3>1, CurrentSound DEF AllSound
  <2>. QED BY <2>11, <2>12
<1>. QED BY <1>1, <1>4, <1>5, CurrentSound DEF Linked, Apart

\* A message that is marked as refused was refused the first time it was executed, and one whose timer no
\* acknowledgement stops is marked so.
Marked(s, done) ==
  \A m \in Messages :
    /\ s.msg[m].failed => RefusedFirst(done, m)
    /\ s.msg[m].timeout = "ack" /\ s.msg[m].acknowledged => s.msg[m].failed
AllMarked == Marked(session, executed)

\* Marks that stay, with no timer more.
LEMMA MarkedLess ==
  ASSUME NEW s, NEW t, NEW done, Marked(s, done),
         \A x \in Messages :
           /\ t.msg[x].failed = s.msg[x].failed
           /\ t.msg[x].timeout = "ack" /\ t.msg[x].acknowledged => s.msg[x].timeout = "ack" /\ s.msg[x].acknowledged
  PROVE  Marked(t, done)
BY DEF Marked

LEMMA MarkedStopped ==
  ASSUME NEW s, SessionOK(s), NEW ms, NEW t, t.msg = ClearTimeouts(s.msg, ms), NEW done, Marked(s, done)
  PROVE  Marked(t, done)
<1>1. s.msg \in [Messages -> MessageState]
  BY DEF SessionOK, MessagesOK
<1>2. ASSUME NEW x \in Messages
      PROVE  /\ t.msg[x].failed = s.msg[x].failed /\ t.msg[x].acknowledged = s.msg[x].acknowledged
             /\ t.msg[x].timeout \in {"none", s.msg[x].timeout}
  <2>1. t.msg[x] = IF x \in ms THEN [s.msg[x] EXCEPT !.timeout = "none"] ELSE s.msg[x]
    BY DEF ClearTimeouts
  <2>. QED BY <1>1, <2>1 DEF MessageState
<1>. QED BY <1>2, MarkedLess

\* What is executed later does not change what was refused first.
LEMMA RefusedStays ==
  ASSUME NEW done \in Seq([command : Commands, refused : BOOLEAN]), NEW entry \in [command : Commands, refused : BOOLEAN],
         NEW c, RefusedFirst(done, c)
  PROVE  RefusedFirst(Append(done, entry), c)
<1>. DEFINE more == Append(done, entry)
<1>1. PICK i \in DOMAIN done :
        done[i].command = c /\ done[i].refused /\ \A j \in DOMAIN done : j < i => done[j].command # c
  BY DEF RefusedFirst
<1>2. /\ Len(done) \in Nat /\ DOMAIN more = 1 .. Len(done) + 1 /\ DOMAIN done = 1 .. Len(done)
      /\ \A j \in 1 .. Len(done) : more[j] = done[j]
  BY AppendFacts
<1>. HIDE DEF more
<1>3. i \in DOMAIN more /\ \A j \in DOMAIN more : j < i => j \in DOMAIN done /\ more[j] = done[j]
  BY <1>1, <1>2
<1>4. more[i] = done[i]
  BY <1>1, <1>2
<1>. QED BY <1>1, <1>3, <1>4 DEF RefusedFirst, more

\* A command that is sent for the first time is not marked.
LEMMA SendQueuedMessageMarks ==
  ASSUME NEW s, SessionOK(s), NEW done, Marked(s, done)
  PROVE  Marked(SendQueuedMessage(s), done)
<1>. DEFINE t == SendQueuedMessage(s)
<1>1. Idle(s, t) \/ Asked(s, t) \/ TookHead(s, t)
  BY SendQueuedMessageFields
<1>. HIDE DEF t
<1>2. CASE t.msg = s.msg
  BY <1>2 DEF Marked, t
<1>3. ASSUME NEW m, SentFresh(s, t, m)
      PROVE  Marked(t, done)
  BY <1>3 DEF SentFresh, Marked
<1>. QED BY <1>1, <1>2, <1>3 DEF Idle, Asked, TookHead, ReportedAged, SameMessages, t

\* A message that is sent again is marked still.
LEMMA SendCommandAgainMarks ==
  ASSUME NEW s, SessionOK(s), NEW m \in Messages, NEW done, Marked(s, done), s.msg[m].failed
  PROVE  Marked(SendCommandAgain(s, m), done)
<1>. DEFINE over == IF m = Gateway THEN s ELSE Emit(s, m, Event("COMMAND_TIMEOUT", None))
            last == Unlist(over, s.msg[m].sequence)
            t == SendCommandAgain(s, m)
<1>1. /\ s.msg[m].retries < MAX_RETRIES => SentAgain(s, t, m)
      /\ ~(s.msg[m].retries < MAX_RETRIES) => t = SendQueuedMessage(last)
  BY SendCommandAgainFields
<1>. HIDE DEF t
<1>2. CASE SentAgain(s, t, m)
  BY <1>2 DEF SentAgain, Marked, t
<1>3. CASE t = SendQueuedMessage(last)
  <2>1. SessionOK(over) /\ over.msg = s.msg
    BY CodesOK, EmitOK, EmitFields DEF SameMessages
  <2>. HIDE DEF over
  <2>2. SessionOK(last) /\ last.msg = s.msg
    BY <2>1, UnlistOK, UnlistFields
  <2>. HIDE DEF last
  <2>3. Marked(last, done)
    BY <2>2 DEF Marked
  <2>. QED BY <1>3, <2>2, <2>3, SendQueuedMessageMarks DEF t
<1>. QED BY <1>1, <1>2, <1>3

\* An answer that refuses a message marks it.
LEMMA HandleResultMarks ==
  ASSUME NEW s, SessionOK(s), NEW key \in DOMAIN s.messageStates, NEW from \in Messages, NEW failed \in BOOLEAN,
         NEW done, Marked(s, done), failed => RefusedFirst(done, s.messageStates[key])
  PROVE  Marked(HandleResult(s, key, from, failed), done)
<1>. DEFINE m == s.messageStates[key]
            a == Answered(s, key, from)
            r == Refused(s, m)
            u == Unlist(s, key)
            f == FirstResult(a, m)
            t == HandleResult(s, key, from, failed)
<1>1. /\ m \in Messages /\ SessionOK(a) /\ a.msg[m].failed = s.msg[m].failed /\ a.msg[m].timeout = "none"
      /\ \A x \in Messages \ {m} : a.msg[x] = s.msg[x]
  <2>1. TookAnswer(s, a, key, m, from)
    BY AnsweredFields
  <2>. HIDE DEF a, m
  <2>. QED BY <2>1 DEF TookAnswer
<1>2. \/ t = u
      \/ failed /\ t = SendCommandAgain(r, m)
      \/ t = f
      \/ t = SendQueuedMessage(a)
  BY HandleResultCases
<1>3. u.msg = s.msg
  BY UnlistFields
<1>4. /\ SessionOK(r) /\ r.msg[m].failed /\ r.msg[m].timeout = "none"
      /\ \A x \in Messages \ {m} : r.msg[x] = s.msg[x]
  BY <1>1, RefusedFields
<1>5. f.msg = a.msg
  BY <1>1, FirstResultFields DEF SameMessages
<1>6. failed => RefusedFirst(done, m)
  OBVIOUS
<1>. HIDE DEF m, a, r, u, t, f
<1>7. Marked(u, done)
  BY <1>3 DEF Marked
<1>8. Marked(a, done)
  BY <1>1 DEF Marked
<1>9. Marked(f, done)
  BY <1>5, <1>8 DEF Marked
<1>10. failed => Marked(SendCommandAgain(r, m), done)
  <2>1. failed => Marked(r, done)
    BY <1>1, <1>4, <1>6 DEF Marked
  <2>. QED BY <1>1, <1>4, <2>1, SendCommandAgainMarks
<1>11. Marked(t, done)
  BY <1>1, <1>2, <1>7, <1>8, <1>9, <1>10, SendQueuedMessageMarks
<1>. QED BY <1>11 DEF t

LEMMA HandshakeOverMarks ==
  ASSUME NEW s, SessionOK(s), NEW done, Marked(s, done)
  PROVE  \A sequence : Marked(HandshakeOver(s, sequence), done)
<1>. SUFFICES ASSUME NEW sequence PROVE Marked(HandshakeOver(s, sequence), done)
  OBVIOUS
<1>. DEFINE q == GivenBack(s, sequence)
<1>1. SessionOK(q) /\ HandshakeOver(s, sequence) = SendQueuedMessage(q) /\ q.msg = s.msg
  BY GivenBackFields
<1>. HIDE DEF q
<1>. QED BY <1>1, SendQueuedMessageMarks DEF Marked

\* An answer of the station that refuses is matched to a message it refused the first time.
LEMMA RefusalMatched ==
  ASSUME Shown, FirstLap, AllSound, session.connected, session.results < Len(station.answers)
  PROVE  LET number == session.results % (MAX_SEQUENCE_NUMBER + 1)
             good == MappedSequence(session, number)
             key == IF good = 0 THEN number ELSE good
             answer == station.answers[session.results + 1]
         IN answer.failed /\ key \in DOMAIN session.messageStates => RefusedFirst(executed, session.messageStates[key])
<1>. DEFINE number == session.results % (MAX_SEQUENCE_NUMBER + 1)
            good == MappedSequence(session, number)
            key == IF good = 0 THEN number ELSE good
            answer == station.answers[session.results + 1]
<1>1. CASE InHandshake(session, station)
  <2>1. ~answer.failed
    BY <1>1 DEF InHandshake
  <2>. QED BY <2>1
<1>2. CASE Works(session, station)
  <2>. DEFINE n == session.p2pSeqMapping[session.results]
  <2>1. /\ number = session.results /\ n # 0 /\ MappedSequence(session, session.results) = n
        /\ n \in DOMAIN session.messageStates => session.messageStates[n] = answer.from
    BY <1>2, CurrentSound, AnswerMapped
  <2>2. key = n
    BY <2>1
  <2>3. answer.failed => RefusedFirst(executed, answer.from)
    <3>1. SessionOK(session) /\ StationTyped(station) /\ RefusedBefore(session, station, executed)
      BY CurrentSound DEF Retried
    <3>2. session.results + 1 \in Untold(session, station)
      BY <3>1, NumberFacts DEF Untold, StationTyped
    <3>. HIDE DEF answer, key, number, n, good
    <3>. QED BY <3>1, <3>2 DEF RefusedBefore, answer
  <2>. QED BY <2>1, <2>2, <2>3
<1>. QED BY <1>1, <1>2, CurrentSound DEF Linked, Apart

\* Every step keeps the marks.
LEMMA NextMarked ==
  ASSUME Orderly
  PROVE  Shown /\ FirstLap /\ AllSound /\ AllMarked /\ [Next]_vars => AllMarked'
<1>. SUFFICES ASSUME Shown, FirstLap, AllSound, AllMarked, [Next]_vars
              PROVE  AllMarked'
  OBVIOUS
<1>0. TypeOK /\ SessionOK(session) /\ Marked(session, executed)
  BY CurrentSound DEF AllMarked
<1>1. ASSUME executed' = executed, Marked(session', executed) PROVE AllMarked'
  BY <1>1 DEF AllMarked
<1>2. ASSUME executed' = executed, NEW q, SessionOK(q), Marked(q, executed), session' = SendQueuedMessage(q)
      PROVE  AllMarked'
  BY <1>1, <1>2, SendQueuedMessageMarks
<1>3. ASSUME NEW c \in Commands, IssueCommand(c) PROVE AllMarked'
  <2>1. executed' = executed
    BY <1>0, <1>3, IssueStep
  <2>2. PICK q : SessionOK(q) /\ SameButQueue(session, q) /\ session' = SendQueuedMessage(q)
    BY <1>0, <1>3, IssueStep
  <2>3. Marked(q, executed)
    BY <1>0, <2>2 DEF SameButQueue, SameMessages, Marked
  <2>. QED BY <1>2, <2>1, <2>2, <2>3
<1>4. CASE Connect
  BY <1>0, <1>1, <1>4, ConnectStep DEF Asked, SameMessages, Marked
<1>5. CASE Close
  <2>1. executed' = executed
    BY <1>0, <1>5, CloseStep
  <2>2. PICK q : /\ SessionOK(q) /\ q.msg = ClearTimeouts(session.msg, Listed(session))
                 /\ session' = IF session.connected THEN q ELSE Initialize(q)
    BY <1>0, <1>5, CloseStep
  <2>3. Marked(q, executed)
    BY <1>0, <2>2, MarkedStopped
  <2>4. Initialize(q).msg = ClearTimeouts(q.msg, Listed(q))
    BY <2>2, InitializeFields
  <2>5. Marked(Initialize(q), executed)
    BY <2>2, <2>3, <2>4, MarkedStopped
  <2>. QED BY <1>1, <2>1, <2>2, <2>3, <2>5
<1>6. CASE CloseEnd \/ Disconnect
  <2>1. executed' = executed /\ session' = Disconnected(session)
    BY <1>6 DEF CloseEnd, Disconnect
  <2>2. session'.msg = ClearTimeouts(session.msg, Listed(session))
    BY <1>0, <2>1, DisconnectedFields
  <2>. QED BY <1>0, <1>1, <2>1, <2>2, MarkedStopped
<1>7. CASE Establish
  <2>1. executed' = executed
    BY <1>0, <1>7, EstablishStep
  <2>2. PICK g, a, q : /\ SessionOK(g) /\ SameMessages(session, g) /\ a = SendQueuedMessage(g) /\ SessionOK(a)
                       /\ SessionOK(q) /\ SameButQueue(a, q) /\ session' = SendQueuedMessage(q)
    BY <1>0, <1>7, EstablishStep
  <2>3. Marked(g, executed)
    BY <1>0, <2>2 DEF SameMessages, Marked
  <2>4. Marked(a, executed)
    BY <2>2, <2>3, SendQueuedMessageMarks
  <2>5. Marked(q, executed)
    BY <2>2, <2>4 DEF SameButQueue, SameMessages, Marked
  <2>. QED BY <1>2, <2>1, <2>2, <2>5
<1>8. CASE Age
  BY <1>0, <1>1, <1>8, AgeStep DEF SameButQueue, SameMessages, Marked
<1>9. ASSUME NEW datagram \in session.sent, StationTakes(datagram[1], datagram[2]) PROVE AllMarked'
  <2>1. session' = session
    BY <1>9 DEF StationTakes
  <2>2. executed \in Seq([command : Commands, refused : BOOLEAN])
    BY <1>0 DEF TypeOK
  <2>3. \/ executed' = executed
        \/ \E entry \in [command : Commands, refused : BOOLEAN] : executed' = Append(executed, entry)
    <3>1. \/ executed' = executed
          \/ /\ datagram[2] \in Commands
             /\ \E refused \in BOOLEAN : executed' = Append(executed, [command |-> datagram[2], refused |-> refused])
      BY <1>9 DEF StationTakes
    <3>. QED BY <3>1
  <2>4. \A c : RefusedFirst(executed, c) => RefusedFirst(executed', c)
    BY <2>2, <2>3, RefusedStays
  <2>. QED BY <1>0, <2>1, <2>4 DEF Marked, AllMarked
<1>10. ASSUME NEW sequence \in station.seen, HandleAck(sequence) PROVE AllMarked'
  <2>. DEFINE m == session.messageStates[sequence]
  <2>1. m \in Messages /\ executed' = executed
    BY <1>0, <1>10, AckStep
  <2>2. PICK q : /\ SessionOK(q) /\ \A x \in Messages \ {m} : q.msg[x] = session.msg[x]
                 /\ q.msg[m].failed = session.msg[m].failed
                 /\ q.msg[m].timeout = IF m \in Pings THEN "none" ELSE "result"
                 /\ session' = SendQueuedMessage(q)
    BY <1>0, <1>10, AckStep
  <2>. HIDE DEF m
  <2>3. Marked(q, executed)
    BY <1>0, <2>1, <2>2 DEF Marked
  <2>. QED BY <1>2, <2>1, <2>2, <2>3
<1>11. CASE HandleData
  <2>. DEFINE number == session.results % (MAX_SEQUENCE_NUMBER + 1)
              good == MappedSequence(session, number)
              key == IF good = 0 THEN number ELSE good
              answer == station.answers[session.results + 1]
  <2>1. /\ session.connected /\ session.results < Len(station.answers)
        /\ answer.from \in Messages /\ answer.failed \in BOOLEAN /\ executed' = executed
    BY <1>0, <1>11, DataStep
  <2>2. PICK q : /\ SessionOK(q) /\ SameMessages(session, q)
                 /\ session' = IF key \in DOMAIN session.messageStates
                                 THEN HandleResult(q, key, answer.from, answer.failed) ELSE q
    BY <1>0, <1>11, DataStep
  <2>3. answer.failed /\ key \in DOMAIN session.messageStates => RefusedFirst(executed, session.messageStates[key])
    BY <2>1, RefusalMatched
  <2>. HIDE DEF answer, key, good, number
  <2>4. Marked(q, executed) /\ q.messageStates = session.messageStates
    BY <1>0, <2>2 DEF SameMessages, Marked
  <2>5. key \in DOMAIN session.messageStates => Marked(HandleResult(q, key, answer.from, answer.failed), executed)
    BY <2>1, <2>2, <2>3, <2>4, HandleResultMarks
  <2>. QED BY <1>1, <2>1, <2>2, <2>4, <2>5
<1>12. CASE HandleGatewayInfo
  BY <1>0, <1>1, <1>12 DEF HandleGatewayInfo
<1>13. ASSUME NEW connection \in 1 .. MaxConnections, CipherAnswers(connection) PROVE AllMarked'
  <2>1. executed' = executed
    BY <1>0, <1>13, CipherStep
  <2>2. PICK q : /\ SessionOK(q) /\ session' = HandshakeOver(q, 0)
                 /\ q.msg = ClearTimeouts(session.msg, {session.messageStates[k] :
                                                        k \in {0} \cap DOMAIN session.messageStates})
    BY <1>0, <1>13, CipherStep
  <2>3. Marked(q, executed)
    BY <1>0, <2>2, MarkedStopped
  <2>4. Marked(session', executed)
    BY <2>2, <2>3, HandshakeOverMarks
  <2>. QED BY <1>1, <2>1, <2>4
<1>14. CASE HandleSecondResult
  <2>1. executed' = executed
    BY <1>0, <1>14, SecondStep
  <2>2. PICK q : SessionOK(q) /\ SameMessages(session, q) /\ session' = SendQueuedMessage(q)
    BY <1>0, <1>14, SecondStep
  <2>3. Marked(q, executed)
    BY <1>0, <2>2 DEF SameMessages, Marked
  <2>. QED BY <1>2, <2>1, <2>2, <2>3
<1>15. ASSUME NEW m \in Messages, AckTimeout(m) PROVE AllMarked'
  <2>1. executed' = executed /\ session.msg[m].failed
    BY <1>0, <1>15 DEF AckTimeout, Orderly, Marked
  <2>2. PICK q : /\ SessionOK(q) /\ q.msg = [session.msg EXCEPT ![m].timeout = "none"]
                 /\ session' = SendCommandAgain(q, m)
    BY <1>0, <1>15, AckTimeoutStep
  <2>3. session.msg \in [Messages -> MessageState]
    BY <1>0 DEF SessionOK, MessagesOK
  <2>4. q.msg[m].failed /\ Marked(q, executed)
    BY <1>0, <2>1, <2>2, <2>3 DEF Marked, MessageState
  <2>5. Marked(session', executed)
    BY <2>2, <2>4, SendCommandAgainMarks
  <2>. QED BY <1>1, <2>1, <2>5
<1>16. ASSUME NEW m \in Messages, ResultTimeout(m) PROVE AllMarked'
  <2>1. executed' = executed
    BY <1>0, <1>16, ResultTimeoutStep
  <2>2. PICK q : /\ SessionOK(q) /\ q.msg = [session.msg EXCEPT ![m].timeout = "none"]
                 /\ \/ session' = HandshakeOver(q, session.msg[m].sequence)
                    \/ session' = SendQueuedMessage(q)
    BY <1>0, <1>16, ResultTimeoutStep
  <2>3. session.msg \in [Messages -> MessageState]
    BY <1>0 DEF SessionOK, MessagesOK
  <2>4. Marked(q, executed)
    BY <1>0, <2>2, <2>3 DEF Marked, MessageState
  <2>. QED BY <1>1, <1>2, <2>1, <2>2, <2>4, HandshakeOverMarks
<1>17. ASSUME NEW m \in Commands, SecondaryTimeout(m) PROVE AllMarked'
  <2>1. executed' = executed
    BY <1>0, <1>17, SecondaryTimeoutStep
  <2>2. PICK q : SessionOK(q) /\ SameMessages(session, q) /\ session' = SendQueuedMessage(q)
    BY <1>0, <1>17, SecondaryTimeoutStep
  <2>3. Marked(q, executed)
    BY <1>0, <2>2 DEF SameMessages, Marked
  <2>. QED BY <1>2, <2>1, <2>2, <2>3
<1>18. CASE UNCHANGED vars
  BY <1>0, <1>1, <1>18 DEF vars
<1>. QED BY <1>3, <1>4, <1>5, <1>6, <1>7, <1>8, <1>9, <1>10, <1>11, <1>12, <1>13, <1>14, <1>15, <1>16, <1>17, <1>18
         DEF Next

LEMMA InitSound == Init => AllSound
<1>. SUFFICES ASSUME Init PROVE AllSound
  OBVIOUS
<1>1. /\ ~session.connected /\ session.sendQueue = <<>> /\ session.seqNumber = 0 /\ session.p2pDataSeqNumber = 0
      /\ session.p2pSeqMapping = NoEntries /\ session.messageStates = NoEntries
      /\ session.msg = [m \in Messages |-> FreshMessage] /\ session.customDataStaging = NoEntries
      /\ session.sent = {} /\ session.results = 0 /\ session.events = [m \in Messages |-> <<>>]
      /\ ciphers = {} /\ station = FreshStation /\ executed = <<>>
  BY DEF Init
<1>2. DOMAIN NoEntries = {} /\ Listed(session) = {}
  BY <1>1 DEF NoEntries, Listed, Range
<1>3. Apart(session, station)
  BY <1>1, <1>2 DEF Apart
<1>4. TimersListed(session)
  BY <1>1 DEF TimersListed, FreshMessage
<1>5. OwnResults(session)
  BY <1>1, <1>2 DEF OwnResults
<1>6. Retried(session, station, executed)
  <2>1. /\ DOMAIN FreshStation.answers = {} /\ Untaken(session, FreshStation) = {}
        /\ Untold(session, FreshStation) = {} /\ \A i \in DOMAIN executed : FALSE
    BY <1>1 DEF FreshStation, Untaken, Untold
  <2>. QED BY <1>1, <2>1 DEF Retried, OneOnItsWay, RefusedBefore
<1>7. NoneAged(session)
  BY <1>1 DEF NoneAged
<1>8. Timed(session, {}) /\ Awake(session)
  BY <1>1, <1>2 DEF Timed, Awake
<1>9. \A i \in DOMAIN station.second : FALSE
  BY <1>1 DEF FreshStation
<1>. QED BY <1>1, <1>3, <1>4, <1>5, <1>6, <1>7, <1>8, <1>9 DEF AllSound, Sound, Linked

\* A timer that no acknowledgement stopped sends a message again that the station refused before.
LEMMA AckTimeoutSound ==
  ASSUME Orderly, Shown, FirstLap, AllSound, AllMarked, NEW m \in Messages, AckTimeout(m)
  PROVE  AllSound'
<1>1. /\ session.msg[m].timeout = "ack" /\ session.msg[m].acknowledged /\ session.msg[m].failed /\ ~RetriesInTime
      /\ RefusedFirst(executed, m) /\ m \in Listed(session)
      /\ UNCHANGED <<ciphers, closing, station, executed>>
  BY CurrentSound DEF AckTimeout, Orderly, RetriesInTime, AllMarked, Marked, TimersListed
<1>2. PICK q : /\ SessionOK(q) /\ SameLink(session, q) /\ SameNumbers(session, q) /\ SameStages(session, q)
               /\ q.sendQueue = session.sendQueue /\ q.events = session.events
               /\ q.messageStates = session.messageStates /\ q.sent = session.sent
               /\ q.msg = [session.msg EXCEPT ![m].timeout = "none"]
               /\ session' = SendCommandAgain(q, m)
  BY CurrentSound, AckTimeoutStep
<1>3. m # Gateway
  <2>1. \A j \in DOMAIN executed : executed[j].command # Gateway
    BY CurrentReady
  <2>. QED BY <1>1, <2>1 DEF RefusedFirst
<1>4. Works(session, station) /\ ciphers = {}
  BY <1>1, <1>3, CurrentSound DEF Linked, Apart, InHandshake, Listed, Range
<1>5. /\ q.connected = session.connected /\ q.secondaryTimers = session.secondaryTimers
      /\ q.customDataStaging = session.customDataStaging /\ Listed(q) = Listed(session)
  BY <1>2 DEF SameLink, SameStages, Listed
<1>6. /\ q.msg[m].failed /\ q.msg[m].timeout = "none"
      /\ \A x \in Messages : /\ q.msg[x].sequence = session.msg[x].sequence
                             /\ q.msg[x].acknowledged = session.msg[x].acknowledged
                             /\ x # m => q.msg[x] = session.msg[x]
  <2>1. session.msg \in [Messages -> MessageState]
    BY CurrentSound DEF SessionOK, MessagesOK
  <2>. QED BY <1>1, <1>2, <2>1 DEF MessageState
<1>7. Sound(q, station, executed) /\ Ready(q, executed) /\ Works(q, station)
  <2>1. OwnResults(q)
    BY <1>2, <1>5, CurrentSound, OwnSame
  <2>2. \A x \in Messages : q.msg[x].timeout # "none" => x \in Listed(session)
    BY <1>6, CurrentSound DEF TimersListed
  <2>. QED BY <1>2, <1>4, <1>5, <1>6, <2>1, <2>2, CurrentSound, SoundSame
<1>8. Open(q, station, executed, m)
  BY <1>1 DEF Open
<1>9. closing \/ (Timed(q, {m}) /\ Awake(q))
  <2>1. Listed(session) \subseteq Messages
    BY CurrentSound DEF SessionOK, MessagesOK, Listed, Range
  <2>2. Timed(session, {}) => Timed(q, {m})
    BY <1>5, <1>6, <2>1 DEF Timed
  <2>3. Awake(session) => Awake(q)
    BY <1>2, <1>5, <1>6, <2>1 DEF Awake, WaitingAcknowledge
  <2>. QED BY <2>2, <2>3, CurrentSound
<1>10. PICK key \in DOMAIN q.messageStates : q.messageStates[key] = m
  BY <1>1, <1>2 DEF Listed, Range
<1>11. /\ Sound(session', station, executed)
       /\ Timed(q, {m}) => Timed(session', {})
       /\ Awake(q) => Awake(session')
  BY <1>2, <1>6, <1>7, <1>8, <1>10, CurrentSound, SendCommandAgainSound
<1>. QED BY <1>1, <1>4, <1>9, <1>11, CurrentSound DEF AllSound

LEMMA NextSound ==
  ASSUME Orderly
  PROVE  Shown /\ FirstLap /\ AllSound /\ AllMarked /\ [Next]_vars => AllSound'
<1>. SUFFICES ASSUME Shown, FirstLap, AllSound, AllMarked, [Next]_vars
              PROVE  AllSound'
  OBVIOUS
<1>1. CASE Establish
  <2>1. /\ station' = FreshStation /\ UNCHANGED <<ciphers, executed>> /\ ~session.connected
    BY <1>1 DEF Establish
  <2>2. ciphers = {}
    BY <2>1, CurrentSound DEF KeySound
  <2>3. Sound(session', FreshStation, executed) /\ Timed(session', {}) /\ Awake(session')
    BY <1>1, CurrentSound, EstablishSound
  <2>. QED BY <2>1, <2>2, <2>3, ApartAgain
<1>2. ASSUME NEW datagram \in session.sent, StationTakes(datagram[1], datagram[2]) PROVE AllSound'
  <2>1. <<datagram[1], datagram[2]>> \in session.sent
    <3>1. datagram \in SeqNos \X Messages
      BY CurrentSound DEF SessionOK, MessagesOK
    <3>2. datagram = <<datagram[1], datagram[2]>>
      BY <3>1
    <3>. QED BY <3>2
  <2>. QED BY <1>2, <2>1, StationTakesSound
<1>3. ASSUME NEW m \in Messages, AckTimeout(m) PROVE AllSound'
  BY <1>3, AckTimeoutSound
<1>4. CASE UNCHANGED vars
  <2>1. UNCHANGED <<session, ciphers, closing, station, executed>>
    BY <1>4 DEF vars
  <2>2. /\ Sound(session', station', executed')
        /\ closing' \/ (Timed(session', {}) /\ Awake(session'))
        /\ ciphers' # {} => InHandshake(session', station') /\ station'.gatewayInfo = "taken"
        /\ \A i \in DOMAIN station'.second : station'.second[i] \in TwoStageCommands
    BY <2>1, CurrentSound
  <2>. QED BY <2>2 DEF AllSound
<1>5. ASSUME NEW c \in Commands, IssueCommand(c) PROVE AllSound'
  BY <1>5, IssueSound
<1>6. CASE Connect \/ Close \/ CloseEnd \/ Disconnect \/ Age
  BY <1>6, ConnectSound, CloseSound, DisconnectSound, AgeSound
<1>7. ASSUME NEW sequence \in station.seen, HandleAck(sequence) PROVE AllSound'
  BY <1>7, AckSound
<1>8. CASE HandleData \/ HandleGatewayInfo \/ HandleSecondResult
  BY <1>8, DataSound, GatewayInfoSound, SecondSound
<1>9. ASSUME NEW connection \in 1 .. MaxConnections, CipherAnswers(connection) PROVE AllSound'
  BY <1>9, CipherSound
<1>10. ASSUME NEW m \in Messages, ResultTimeout(m) PROVE AllSound'
  BY <1>10, ResultTimeoutSound
<1>11. ASSUME NEW m \in Commands, SecondaryTimeout(m) PROVE AllSound'
  BY <1>11, SecondaryTimeoutSound
<1>. QED BY <1>1, <1>2, <1>3, <1>4, <1>5, <1>6, <1>7, <1>8, <1>9, <1>10, <1>11 DEF Next

\* All of it together, in every state.
LEMMA SoundAlways ==
  ASSUME Orderly
  PROVE  Spec /\ []FirstLap => [](Shown /\ FirstLap /\ AllSound /\ AllMarked)
<1>1. Init => Shown /\ AllSound /\ AllMarked
  <2>1. Init => AllMarked
    BY DEF Init, AllMarked, Marked, FreshMessage
  <2>. QED BY <2>1, InitType, InitStages, InitPlaced, InitKeySound, InitOrdered, InitSound DEF Shown
<1>2. Shown /\ FirstLap /\ AllSound /\ AllMarked => RetriesListed
  BY CurrentSound DEF RetriesListed, AllMarked, Marked, TimersListed
<1>3. Shown /\ FirstLap /\ AllSound /\ AllMarked /\ [Next]_vars => Shown'
  BY <1>2, NextType, NextStages, NextPlaced, NextKeySound, NextOrdered DEF Shown, Orderly
<1>4. Shown /\ FirstLap /\ AllSound /\ AllMarked /\ [Next]_vars => AllSound' /\ AllMarked'
  BY NextSound, NextMarked
<1>. HIDE DEF Shown, FirstLap, AllSound, AllMarked
<1>. QED BY <1>1, <1>3, <1>4, PTL DEF Spec

\* The key agrees also where a message that was refused may be sent again and again before its result
\* comes, as long as acknowledgements and getCipher come in time, the station takes the numbers in order
\* and a connection does not use up its numbers.
THEOREM RetriesLeaveEncrypted ==
  ASSUME {"slow_ack", "reorder", "slow_cipher", "stale_cipher"} \cap Faults = {}
  PROVE  Spec /\ []FirstLap => []KeyAgreed
<1>1. Orderly
  BY DEF Orderly
<1>2. Shown => KeyAgreed
  BY DEF Shown, KeySound, Handshaken, KeyAgreed, KeyOfThisConnection, HandshakeFirst
<1>. HIDE DEF KeyAgreed, Shown, FirstLap, AllSound, AllMarked
<1>. QED BY <1>1, <1>2, SoundAlways, PTL

\* The station executes commands, each the first time, in the order the application issued them, across
\* reconnections, refusals and timeouts, as long as acknowledgements come within MAX_AKNOWLEDGE_TIMEOUT, the
\* station takes the numbers in order and a connection does not use up its sequence numbers: a retry after a
\* missing acknowledgement and a reused number bring an older command behind a younger one.  A message that
\* was refused may be sent again and again before its result comes, if getCipher answers in time, or else its
\* timer may outlive its place in the table of messages.
THEOREM CommandsExecutedInOrder ==
  ASSUME {"slow_ack", "reorder"} \cap Faults = {},
         "slow_retry" \notin Faults \/ {"slow_cipher", "stale_cipher"} \cap Faults = {}
  PROVE  Spec /\ []FirstLap => []ExecutedInOrder
<1>1. AllOrdered => ExecutedInOrder
  BY DEF AllOrdered
<1>2. CASE "slow_retry" \notin Faults
  <2>1. TypeOK /\ OneStage /\ FirstLap /\ AllOrdered /\ [Next]_vars => AllOrdered'
    BY <1>2, NextOrdered DEF RetriesListed
  <2>. HIDE DEF AllOrdered, FirstLap
  <2>. QED BY <1>1, <2>1, InitOrdered, TypeCorrect, CommandsInOneStage, PTL DEF Spec
<1>3. CASE {"slow_cipher", "stale_cipher"} \cap Faults = {}
  <2>1. Orderly
    BY <1>3 DEF Orderly
  <2>2. Shown => AllOrdered
    BY DEF Shown
  <2>. HIDE DEF AllOrdered, Shown, FirstLap, AllSound, AllMarked
  <2>. QED BY <1>1, <2>1, <2>2, SoundAlways, PTL
<1>. QED BY <1>2, <1>3

\* No lost wake-up: while a connected session has a queue, a message (or a second result) it waits for has
\* its timer running, through answers, refusals, timeouts, a broken connection and close(), as long as
\* acknowledgements and getCipher come in time, the station takes the numbers in order, a connection does
\* not use up its numbers, and nothing in the queue ages out: a head that aged out is reported and the
\* handler looks no further, with nothing to wait for. The result of a message that was refused and sent
\* again may be late.
THEOREM QueueKeepsMoving ==
  ASSUME {"slow_ack", "reorder", "slow_cipher", "stale_cipher", "ageing"} \cap Faults = {}
  PROVE  Spec /\ []FirstLap => []QueueNotStranded
<1>1. Orderly /\ "ageing" \notin Faults
  BY DEF Orderly
<1>2. AllSound => QueueNotStranded
  BY <1>1 DEF AllSound, Awake, Timed, WaitingAcknowledge, QueueNotStranded
<1>. HIDE DEF AllSound, Shown, FirstLap, AllMarked
<1>. QED BY <1>1, <1>2, SoundAlways, PTL

\* A result reported for a command is the station's answer to that command: the table that maps the
\* station's numbering of answers to the client's numbering of commands leads every answer to the message
\* it answers, or to one that is no longer listed, across refusals, timeouts and reconnections, as long as
\* acknowledgements and getCipher come in time and the station takes the numbers in order; and a second
\* result is reported for the command that announced it, if no two of these commands have a type in common.
\* A message that was refused may be sent again and again before its result comes: each transmission takes
\* a new number, and has its own entry in the table and its own answer.
THEOREM ResultsReachTheirCommand ==
  ASSUME {"slow_ack", "reorder", "slow_cipher", "stale_cipher"} \cap Faults = {},
         \A c, d \in TwoStageCommands : CommandType[c] = CommandType[d] => c = d
  PROVE  Spec /\ []FirstLap => []ResultBelongsToCommand
<1>1. Orderly /\ OwnTypes
  BY DEF Orderly, OwnTypes
<1>2. AllSound => ResultBelongsToCommand
  BY <1>1 DEF AllSound, Sound, OwnResults, ResultBelongsToCommand
<1>. HIDE DEF AllSound, Shown, FirstLap, AllMarked
<1>. QED BY <1>1, <1>2, SoundAlways, PTL

\* The station executes a command again only if it refused every execution of it before: a command goes
\* out again only when the answer that refused it was matched to it, so that no number it may still be
\* executed under is left. The result of a message that was refused and sent again has to come within
\* MAX_AKNOWLEDGE_TIMEOUT for that: with "slow_retry" it goes out once more, accepted or not, and the
\* property says, and the theorem shows, that the station refused it the first time it executed it.
THEOREM CommandsNotExecutedTwice ==
  ASSUME {"slow_ack", "reorder", "slow_cipher", "stale_cipher"} \cap Faults = {}
  PROVE  Spec /\ []FirstLap => []NoReexecution
<1>1. Orderly
  BY DEF Orderly
<1>2. Shown /\ AllSound => NoReexecution
  <2>. SUFFICES ASSUME Shown, AllSound, NEW i \in DOMAIN executed, NEW j \in DOMAIN executed,
                       i < j, executed[i].command = executed[j].command
                PROVE  \E k \in 1 .. i : /\ executed[k].command = executed[i].command /\ executed[k].refused
                                         /\ "slow_retry" \notin Faults => k = i
    BY DEF NoReexecution
  <2>1. i \in 1 .. i /\ \A k \in DOMAIN executed : k \in 1 .. i \/ i < k
    <3>1. executed \in Seq([command : Commands, refused : BOOLEAN])
      BY DEF Shown, TypeOK
    <3>. QED BY <3>1
  <2>2. CASE RetriesInTime
    <3>1. executed[i].refused
      BY <2>2 DEF AllSound, Sound, Retried, OneOnItsWay
    <3>. QED BY <2>1, <3>1
  <2>3. CASE ~RetriesInTime
    <3>1. RefusedFirst(executed, executed[i].command)
      BY DEF AllSound, Sound, Retried, RefusedBefore
    <3>2. PICK k \in DOMAIN executed :
            /\ executed[k].command = executed[i].command /\ executed[k].refused
            /\ \A l \in DOMAIN executed : l < k => executed[l].command # executed[i].command
      BY <3>1 DEF RefusedFirst
    <3>3. k \in 1 .. i
      BY <2>1, <3>2
    <3>. QED BY <2>3, <3>2, <3>3 DEF RetriesInTime
  <2>. QED BY <2>2, <2>3
<1>. HIDE DEF AllSound, Shown, FirstLap, AllMarked
<1>. QED BY <1>1, <1>2, SoundAlways, PTL

-----------------------------------------------------------------------------
(* No answer is lost *)

\* The answer to what is listed under key is still to come, or to be taken.
Due(s, key) == \E k \in Outstanding(s) : k \in DOMAIN s.p2pSeqMapping /\ s.p2pSeqMapping[k] = key
AllDue(s, others) ==
  \A key \in DOMAIN s.messageStates \ others : s.messageStates[key] \notin Pings \cup {Gateway} => Due(s, key)

\* The next number of the results is the next.
Numbered(s) ==
  s.results <= s.p2pDataSeqNumber /\ 0 <= s.p2pDataSeqNumber /\ s.p2pDataSeqNumber < MAX_SEQUENCE_NUMBER

\* While nothing but the handshake is listed there is nothing to show.
LEMMA DueUnlessWorks ==
  ASSUME NEW s, NEW st, Linked(s, st), ~Works(s, st)
  PROVE  AllDue(s, {})
BY DEF Linked, Apart, InHandshake, AllDue

LEMMA NumberedNow ==
  ASSUME NEW s, SessionOK(s), NEW st, StationTyped(st), Linked(s, st), s.seqNumber < MAX_SEQUENCE_NUMBER
  PROVE  Numbered(s)
<1>1. /\ s.seqNumber \in Nat /\ s.results \in Nat /\ s.p2pDataSeqNumber \in Int /\ MAX_SEQUENCE_NUMBER \in Nat \ {0}
      /\ Len(st.answers) \in Nat
  BY NumberFacts DEF StationTyped
<1>2. CASE Apart(s, st) \/ InHandshake(s, st)
  BY <1>1, <1>2 DEF Apart, InHandshake, Numbered
<1>3. CASE Works(s, st)
  BY <1>1, <1>3 DEF Works, Counts, Numbered
<1>. QED BY <1>2, <1>3 DEF Linked

\* Less is listed.
LEMMA DueLess ==
  ASSUME NEW s, NEW t, NEW others, AllDue(s, others), SameNumbers(s, t),
         \A key \in DOMAIN t.messageStates \ others :
           key \in DOMAIN s.messageStates /\ t.messageStates[key] = s.messageStates[key]
  PROVE  AllDue(t, others)
BY DEF AllDue, Due, Outstanding, SameNumbers

\* A datagram under a new number is due.
LEMMA DueFresh ==
  ASSUME NEW s, SessionOK(s), NEW t, NEW m, NEW number, NEW listed, Numbered(s),
         \A key \in DOMAIN listed : listed[key] \notin Pings \cup {Gateway} => Due(s, key),
         Counted(s, t, m, number), t.messageStates = WithEntry(listed, number, m)
  PROVE  AllDue(t, {})
<1>. DEFINE P == s.p2pDataSeqNumber
<1>1. P \in Nat /\ s.results \in Nat /\ IncrementSequence(P) = P + 1 /\ s.results <= P
  BY NumberFacts DEF Numbered, IncrementSequence
<1>2. \A key \in DOMAIN t.messageStates :
        \/ key = number /\ t.messageStates[key] = m
        \/ key \in DOMAIN listed /\ t.messageStates[key] = listed[key]
  BY DEF WithEntry
<1>3. CASE m \in PingCommands
  <2>1. \A key : Due(s, key) => Due(t, key)
    BY <1>3 DEF Counted, Due, Outstanding
  <2>. QED BY <1>2, <1>3, <2>1 DEF AllDue, Pings
<1>4. CASE m \notin PingCommands
  <2>1. /\ t.results = s.results /\ t.p2pDataSeqNumber = P + 1
        /\ DOMAIN t.p2pSeqMapping = DOMAIN s.p2pSeqMapping \cup {P}
        /\ \A k \in DOMAIN t.p2pSeqMapping : t.p2pSeqMapping[k] = IF k = P THEN number ELSE s.p2pSeqMapping[k]
    BY <1>1, <1>4 DEF Counted, WithEntry
  <2>2. P \in Outstanding(t) /\ \A k \in Outstanding(s) : k \in Outstanding(t) /\ k # P
    BY <1>1, <2>1 DEF Outstanding
  <2>. HIDE DEF P
  <2>3. \A key : Due(s, key) => Due(t, key)
    BY <2>1, <2>2 DEF Due
  <2>4. Due(t, number)
    BY <2>1, <2>2 DEF Due
  <2>. QED BY <1>2, <2>3, <2>4 DEF AllDue
<1>. QED BY <1>3, <1>4

LEMMA SendQueuedMessageDue ==
  ASSUME NEW s, SessionOK(s), Numbered(s), AllDue(s, {})
  PROVE  AllDue(SendQueuedMessage(s), {})
<1>. DEFINE t == SendQueuedMessage(s)
<1>1. Idle(s, t) \/ Asked(s, t) \/ TookHead(s, t)
  BY SendQueuedMessageFields
<1>. HIDE DEF t
<1>2. CASE Idle(s, t)
  BY <1>2 DEF Idle, t
<1>3. CASE Asked(s, t)
  BY <1>3, DueLess DEF Asked, SameMessages, t
<1>4. CASE TookHead(s, t)
  <2>. DEFINE m == Head(s.sendQueue).command
  <2>1. ReportedAged(s, t, m) \/ SentFresh(s, t, m)
    BY <1>4 DEF TookHead
  <2>. HIDE DEF m
  <2>2. CASE ReportedAged(s, t, m)
    BY <2>2, DueLess DEF ReportedAged, SameMessages, t
  <2>3. CASE SentFresh(s, t, m)
    <3>1. \A key \in DOMAIN s.messageStates : s.messageStates[key] \notin Pings \cup {Gateway} => Due(s, key)
      BY DEF AllDue
    <3>2. Counted(s, t, m, s.seqNumber) /\ t.messageStates = WithEntry(s.messageStates, s.seqNumber, m)
      BY <2>3 DEF SentFresh
    <3>. QED BY <3>1, <3>2, DueFresh DEF t
  <2>. QED BY <2>1, <2>2, <2>3
<1>. QED BY <1>1, <1>2, <1>3, <1>4 DEF t

\* The answer to the message listed under key leaves it due under a new number, or no longer listed.
LEMMA HandleResultDue ==
  ASSUME NEW s, SessionOK(s), Numbered(s), NEW key \in DOMAIN s.messageStates, NEW m \in Messages,
         s.messageStates[key] = m, s.msg[m].sequence = key, NEW failed \in BOOLEAN, AllDue(s, {key})
  PROVE  AllDue(HandleResult(s, key, m, failed), {})
<1>. DEFINE t == HandleResult(s, key, m, failed)
            a == Answered(s, key, m)
            r == Refused(s, m)
<1>1. \/ failed /\ t = SendCommandAgain(r, m)
      \/ ~failed /\ m \in TwoStageCommands /\ t = FirstResult(a, m)
      \/ ~failed /\ m \notin TwoStageCommands /\ t = SendQueuedMessage(a)
  BY HandleResultCases
<1>. HIDE DEF t
<1>2. ASSUME NEW q, SameNumbers(s, q), q.messageStates = WithoutKeys(s.messageStates, {key})
      PROVE  AllDue(q, {}) /\ Numbered(q)
  <2>1. DOMAIN q.messageStates = DOMAIN s.messageStates \ {key}
        /\ \A k \in DOMAIN q.messageStates : q.messageStates[k] = s.messageStates[k]
    BY <1>2 DEF WithoutKeys, Restrict
  <2>2. AllDue(q, {})
    BY <1>2, <2>1 DEF AllDue, Due, Outstanding, SameNumbers
  <2>. QED BY <1>2, <2>2 DEF Numbered, SameNumbers
<1>3. CASE failed /\ t = SendCommandAgain(r, m)
  <2>. DEFINE over == IF m = Gateway THEN r ELSE Emit(r, m, Event("COMMAND_TIMEOUT", None))
              u == Unlist(over, key)
  <2>1. /\ SessionOK(r) /\ SameNumbers(s, r) /\ r.messageStates = s.messageStates
        /\ r.msg[m].failed /\ r.msg[m].sequence = key
    BY RefusedFields
  <2>2. /\ r.msg[m].retries < MAX_RETRIES => SentAgain(r, t, m)
        /\ ~(r.msg[m].retries < MAX_RETRIES) => t = SendQueuedMessage(u)
    BY <1>3, <2>1, SendCommandAgainFields
  <2>. HIDE DEF r, u
  <2>3. CASE r.msg[m].retries < MAX_RETRIES
    <3>. DEFINE listed == WithoutKeys(s.messageStates, {key})
    <3>1. Counted(r, t, m, r.seqNumber) /\ t.messageStates = WithEntry(listed, r.seqNumber, m)
      BY <2>1, <2>2, <2>3 DEF SentAgain
    <3>2. \A k \in DOMAIN listed : listed[k] \notin Pings \cup {Gateway} => Due(r, k)
      <4>1. DOMAIN listed = DOMAIN s.messageStates \ {key} /\ \A k \in DOMAIN listed : listed[k] = s.messageStates[k]
        BY DEF WithoutKeys, Restrict
      <4>. QED BY <2>1, <4>1 DEF AllDue, Due, Outstanding, SameNumbers
    <3>3. Numbered(r)
      BY <2>1 DEF Numbered, SameNumbers
    <3>. HIDE DEF listed
    <3>. QED BY <2>1, <3>1, <3>2, <3>3, DueFresh DEF t
  <2>4. CASE ~(r.msg[m].retries < MAX_RETRIES)
    <3>1. /\ SessionOK(over) /\ SameNumbers(r, over) /\ over.messageStates = r.messageStates
      <4>1. CASE m = Gateway
        BY <2>1, <4>1 DEF SameNumbers
      <4>2. CASE m # Gateway
        BY <2>1, <4>2, CodesOK, EmitOK, EmitFields DEF SameMessages
      <4>. QED BY <4>1, <4>2
    <3>. HIDE DEF over
    <3>2. /\ SessionOK(u) /\ SameNumbers(over, u) /\ u.messageStates = WithoutKeys(over.messageStates, {key})
      BY <3>1, UnlistOK, UnlistFields DEF u
    <3>3. SameNumbers(s, u) /\ u.messageStates = WithoutKeys(s.messageStates, {key})
      BY <2>1, <3>1, <3>2 DEF SameNumbers
    <3>4. AllDue(u, {}) /\ Numbered(u)
      BY <1>2, <3>3
    <3>. QED BY <2>2, <2>4, <3>2, <3>4, SendQueuedMessageDue DEF t
  <2>. QED BY <2>3, <2>4
<1>4. SessionOK(a) /\ SameNumbers(s, a) /\ a.messageStates = WithoutKeys(s.messageStates, {key})
  BY AnsweredFields DEF TookAnswer
<1>. HIDE DEF a
<1>5. AllDue(a, {}) /\ Numbered(a)
  BY <1>2, <1>4
<1>6. CASE ~failed /\ m \in TwoStageCommands /\ t = FirstResult(a, m)
  <2>1. SameNumbers(a, t) /\ t.messageStates = a.messageStates
    BY <1>4, <1>6, FirstResultFields DEF SameMessages
  <2>. QED BY <1>5, <2>1, DueLess DEF t
<1>7. CASE ~failed /\ m \notin TwoStageCommands /\ t = SendQueuedMessage(a)
  BY <1>4, <1>5, <1>7, SendQueuedMessageDue DEF t
<1>. QED BY <1>1, <1>3, <1>6, <1>7

LEMMA HandshakeOverDue ==
  ASSUME NEW s, SessionOK(s), s.results = 0, s.p2pDataSeqNumber = 1, DOMAIN s.messageStates = {0}
  PROVE  AllDue(HandshakeOver(s, 0), {})
<1>. DEFINE q == GivenBack(s, 0)
<1>1. /\ SessionOK(q) /\ HandshakeOver(s, 0) = SendQueuedMessage(q)
      /\ q.results = s.results /\ q.p2pDataSeqNumber = s.p2pDataSeqNumber - 1
      /\ q.messageStates = WithoutKeys(s.messageStates, {0})
  BY GivenBackFields
<1>. HIDE DEF q
<1>2. DOMAIN q.messageStates = {}
  BY <1>1 DEF WithoutKeys, Restrict
<1>3. AllDue(q, {}) /\ Numbered(q)
  BY <1>1, <1>2, NumberAssumption DEF AllDue, Numbered
<1>. QED BY <1>1, <1>3, SendQueuedMessageDue

\* The answer that is taken is the one due to what it is listed for, the others stay due.
LEMMA DataDue ==
  ASSUME Shown, FirstLap, AllSound, AllDue(session, {}), HandleData
  PROVE  AllDue(session', {})
<1>. DEFINE number == session.results % (MAX_SEQUENCE_NUMBER + 1)
            good == MappedSequence(session, number)
            key == IF good = 0 THEN number ELSE good
            answer == station.answers[session.results + 1]
            n == session.p2pSeqMapping[session.results]
<1>1. /\ session.connected /\ session.results < Len(station.answers) /\ UNCHANGED station
      /\ answer.from \in Messages /\ answer.failed \in BOOLEAN
      /\ \E q : /\ SessionOK(q) /\ SameLink(session, q) /\ SameMessages(session, q)
                /\ q.seqNumber = session.seqNumber /\ q.p2pDataSeqNumber = session.p2pDataSeqNumber
                /\ q.results = session.results + 1
                /\ q.p2pSeqMapping = IF good = 0 THEN session.p2pSeqMapping
                                     ELSE WithoutKeys(session.p2pSeqMapping, {number})
                /\ session' = IF key \in DOMAIN session.messageStates
                                THEN HandleResult(q, key, answer.from, answer.failed) ELSE q
  BY CurrentSound, DataStep
<1>2. PICK q : /\ SessionOK(q) /\ SameLink(session, q) /\ SameMessages(session, q)
               /\ q.seqNumber = session.seqNumber /\ q.p2pDataSeqNumber = session.p2pDataSeqNumber
               /\ q.results = session.results + 1
               /\ q.p2pSeqMapping = IF good = 0 THEN session.p2pSeqMapping
                                    ELSE WithoutKeys(session.p2pSeqMapping, {number})
               /\ session' = IF key \in DOMAIN session.messageStates
                               THEN HandleResult(q, key, answer.from, answer.failed) ELSE q
  BY <1>1
<1>3. /\ q.messageStates = session.messageStates /\ q.msg = session.msg
  BY <1>2 DEF SameMessages
<1>4. /\ SessionOK(session) /\ StationTyped(station) /\ Linked(session, station) /\ Ready(session, executed)
      /\ Numbered(session)
  BY CurrentSound, NumberedNow DEF Ready
<1>5. CASE InHandshake(session, station)
  <2>1. /\ answer.from = Gateway /\ answer.failed = FALSE /\ number = 0 /\ session.p2pDataSeqNumber = 1 /\ session.results = 0
        /\ DOMAIN session.messageStates = {0} /\ session.messageStates[0] = Gateway
    BY <1>1, <1>5, NumberAssumption DEF InHandshake
  <2>2. good = 0 /\ key = 0
    BY <1>5, <2>1 DEF InHandshake, MappedSequence
  <2>. HIDE DEF answer, key, good, number, n
  <2>3. session' = HandleResult(q, 0, Gateway, FALSE) /\ 0 \in DOMAIN q.messageStates /\ q.messageStates[0] = Gateway
    BY <1>2, <1>3, <2>1, <2>2
  <2>. DEFINE a == Answered(q, 0, Gateway)
  <2>4. session' = SendQueuedMessage(a)
    BY <1>2, <2>3, HandshakeAnswered
  <2>5. SessionOK(a) /\ SameNumbers(q, a) /\ a.messageStates = WithoutKeys(q.messageStates, {0})
    <3>1. Gateway \in Messages
      BY DEF Messages
    <3>. QED BY <1>2, <2>3, <3>1, AnsweredFields DEF TookAnswer
  <2>. HIDE DEF a
  <2>6. DOMAIN a.messageStates = {}
    BY <1>3, <2>1, <2>5 DEF WithoutKeys, Restrict
  <2>7. AllDue(a, {}) /\ Numbered(a)
    BY <1>2, <1>4, <2>1, <2>5, <2>6 DEF AllDue, Numbered, SameNumbers
  <2>. QED BY <2>4, <2>5, <2>7, SendQueuedMessageDue
<1>6. CASE Works(session, station)
  <2>1. /\ number = session.results /\ n # 0 /\ MappedSequence(session, session.results) = n
        /\ n \in DOMAIN session.messageStates => session.messageStates[n] = answer.from
    BY <1>1, <1>4, <1>6, AnswerMapped
  <2>2. good = n /\ key = n
    BY <2>1
  <2>3. n \in DOMAIN session.messageStates => session.msg[answer.from].sequence = n
    <3>1. answer.from \in Commands \/ answer.from = Gateway
      BY <1>1 DEF Messages
    <3>2. n \in DOMAIN session.messageStates => answer.from # Gateway
      BY <1>6, <2>1 DEF Works, Listed, Range
    <3>. QED BY <1>4, <2>1, <3>1, <3>2 DEF Ready, KeyedByNumber
  <2>. HIDE DEF answer, key, good, number
  <2>4. q.p2pSeqMapping = WithoutKeys(session.p2pSeqMapping, {session.results})
    BY <1>2, <2>1, <2>2
  <2>5. \A x : Due(session, x) /\ x # n => Due(q, x)
    <3>1. /\ DOMAIN q.p2pSeqMapping = DOMAIN session.p2pSeqMapping \ {session.results}
          /\ \A k \in DOMAIN q.p2pSeqMapping : q.p2pSeqMapping[k] = session.p2pSeqMapping[k]
      BY <2>4 DEF WithoutKeys, Restrict
    <3>2. \A k \in Outstanding(session) : k \in Outstanding(q) \/ k = session.results
      <4>1. session.results \in Nat /\ session.p2pDataSeqNumber \in Int
        BY <1>4, NumberFacts
      <4>. QED BY <1>2, <4>1 DEF Outstanding
    <3>. QED BY <3>1, <3>2 DEF Due
  <2>. HIDE DEF n
  <2>6. AllDue(q, {n})
    BY <1>3, <2>5 DEF AllDue
  <2>7. Numbered(q)
    <3>1. /\ session.results \in Nat /\ session.p2pDataSeqNumber \in Int /\ Len(station.answers) \in Nat
          /\ Len(station.answers) <= session.p2pDataSeqNumber
      BY <1>4, <1>6, NumberFacts DEF StationTyped, Works, Counts
    <3>2. session.results + 1 <= session.p2pDataSeqNumber
      BY <1>1, <3>1
    <3>. QED BY <1>2, <1>4, <3>2 DEF Numbered
  <2>8. CASE n \in DOMAIN session.messageStates
    <3>1. session' = HandleResult(q, n, answer.from, answer.failed)
      BY <1>2, <2>2, <2>8
    <3>2. n \in DOMAIN q.messageStates /\ q.messageStates[n] = answer.from /\ q.msg[answer.from].sequence = n
      BY <1>3, <2>1, <2>3, <2>8
    <3>. QED BY <1>1, <1>2, <2>6, <2>7, <3>1, <3>2, HandleResultDue
  <2>9. CASE n \notin DOMAIN session.messageStates
    <3>1. session' = q
      BY <1>2, <2>2, <2>9
    <3>. QED BY <1>3, <2>6, <2>9, <3>1 DEF AllDue
  <2>. QED BY <2>8, <2>9
<1>. QED BY <1>1, <1>4, <1>5, <1>6 DEF Linked, Apart

LEMMA NextDue ==
  ASSUME Orderly, RetriesInTime
  PROVE  Shown /\ FirstLap /\ AllSound /\ AllMarked /\ AllDue(session, {}) /\ [Next]_vars => AllDue(session', {})
<1>. SUFFICES ASSUME Shown, FirstLap, AllSound, AllMarked, AllDue(session, {}), [Next]_vars
              PROVE  AllDue(session', {})
  OBVIOUS
<1>1. /\ TypeOK /\ SessionOK(session) /\ StationTyped(station) /\ Linked(session, station)
      /\ Ready(session, executed) /\ Numbered(session)
  BY CurrentSound, NumberedNow DEF Ready
<1>2. AllSound'
  BY NextSound
<1>3. ~Works(session', station') => AllDue(session', {})
  BY <1>2, DueUnlessWorks DEF AllSound, Sound
<1>4. ASSUME NEW q, SessionOK(q), SameNumbers(session, q), session' = SendQueuedMessage(q),
             \A key \in DOMAIN q.messageStates :
               key \in DOMAIN session.messageStates /\ q.messageStates[key] = session.messageStates[key]
      PROVE  AllDue(session', {})
  <2>1. AllDue(q, {}) /\ Numbered(q)
    BY <1>1, <1>4, DueLess DEF Numbered, SameNumbers
  <2>. QED BY <1>4, <2>1, SendQueuedMessageDue
<1>5. ASSUME SameNumbers(session, session'), session'.messageStates = session.messageStates
      PROVE  AllDue(session', {})
  BY <1>5, DueLess
<1>6. ASSUME NEW c \in Commands, IssueCommand(c) PROVE AllDue(session', {})
  <2>1. \E q : SessionOK(q) /\ SameButQueue(session, q) /\ session' = SendQueuedMessage(q)
    BY <1>1, <1>6, IssueStep
  <2>. QED BY <1>4, <2>1 DEF SameButQueue, SameMessages
<1>7. CASE Connect
  BY <1>1, <1>5, <1>7, ConnectStep DEF Asked, SameMessages
<1>8. CASE Close
  <2>1. \E q : /\ SessionOK(q) /\ SameNumbers(session, q) /\ q.messageStates = session.messageStates
               /\ session' = IF session.connected THEN q ELSE Initialize(q)
    BY <1>1, <1>8, CloseStep
  <2>2. UNCHANGED station
    BY <1>8 DEF Close
  <2>3. PICK q : /\ SessionOK(q) /\ SameNumbers(session, q) /\ q.messageStates = session.messageStates
                 /\ session' = IF session.connected THEN q ELSE Initialize(q)
    BY <2>1
  <2>4. CASE session.connected
    BY <1>5, <2>3, <2>4
  <2>5. CASE ~session.connected
    <3>1. ~session'.connected
      BY <2>3, <2>5, InitializeFields
    <3>. QED BY <1>3, <3>1 DEF Works
  <2>. QED BY <2>4, <2>5
<1>9. CASE CloseEnd \/ Disconnect \/ Establish
  <2>1. station' = FreshStation
    BY <1>9 DEF CloseEnd, Disconnect, Establish
  <2>2. ~Works(session', station')
    BY <2>1 DEF Works, Counts, FreshStation
  <2>. QED BY <1>3, <2>2
<1>10. CASE Age
  BY <1>1, <1>5, <1>10, AgeStep DEF SameButQueue, SameMessages
<1>11. ASSUME NEW datagram \in session.sent, StationTakes(datagram[1], datagram[2]) PROVE AllDue(session', {})
  BY <1>5, <1>11 DEF StationTakes, SameNumbers
<1>12. ASSUME NEW sequence \in station.seen, HandleAck(sequence) PROVE AllDue(session', {})
  <2>1. PICK q : /\ SessionOK(q) /\ SameNumbers(session, q) /\ session' = SendQueuedMessage(q)
                 /\ q.messageStates = (IF session.messageStates[sequence] \in Pings
                                         THEN WithoutKeys(session.messageStates, {sequence})
                                         ELSE session.messageStates)
    BY <1>1, <1>12, AckStep
  <2>2. \A key \in DOMAIN q.messageStates :
          key \in DOMAIN session.messageStates /\ q.messageStates[key] = session.messageStates[key]
    BY <2>1 DEF WithoutKeys, Restrict
  <2>. QED BY <1>4, <2>1, <2>2
<1>13. CASE HandleGatewayInfo
  BY <1>5, <1>13 DEF HandleGatewayInfo, SameNumbers
<1>14. ASSUME NEW connection \in 1 .. MaxConnections, CipherAnswers(connection) PROVE AllDue(session', {})
  <2>1. PICK q : SessionOK(q) /\ SameNumbers(session, q) /\ q.messageStates = session.messageStates
                 /\ session' = HandshakeOver(q, 0)
    BY <1>1, <1>14, CipherStep
  <2>2. InHandshake(session, station)
    BY <1>14, CurrentSound DEF CipherAnswers
  <2>3. session.results = 0 /\ session.p2pDataSeqNumber = 1 /\ DOMAIN session.messageStates = {0}
    BY <2>2 DEF InHandshake
  <2>. QED BY <2>1, <2>3, HandshakeOverDue DEF SameNumbers
<1>15. CASE HandleSecondResult
  <2>1. \E q : /\ SessionOK(q) /\ SameNumbers(session, q) /\ SameMessages(session, q)
               /\ session' = SendQueuedMessage(q)
    BY <1>1, <1>15, SecondStep
  <2>. QED BY <1>4, <2>1 DEF SameMessages
<1>16. ASSUME NEW m \in Messages, AckTimeout(m) PROVE FALSE
  BY <1>16 DEF AckTimeout, Orderly, RetriesInTime
<1>17. ASSUME NEW m \in Messages, ResultTimeout(m) PROVE AllDue(session', {})
  <2>. DEFINE old == session.msg[m].sequence
  <2>1. PICK q : /\ SessionOK(q) /\ SameNumbers(session, q)
                 /\ \/ m = Gateway /\ q.messageStates = session.messageStates /\ session' = HandshakeOver(q, old)
                    \/ /\ q.messageStates = WithoutKeys(session.messageStates, {old})
                       /\ session' = SendQueuedMessage(q)
    BY <1>1, <1>17, ResultTimeoutStep
  <2>2. CASE m = Gateway /\ q.messageStates = session.messageStates /\ session' = HandshakeOver(q, old)
    <3>1. Gateway \in Listed(session)
      BY <1>17, <2>2, CurrentSound DEF ResultTimeout, TimersListed
    <3>2. InHandshake(session, station)
      BY <1>1, <3>1 DEF Linked, Apart, Works, Listed, Range
    <3>3. /\ session.results = 0 /\ session.p2pDataSeqNumber = 1 /\ DOMAIN session.messageStates = {0} /\ old = 0
      BY <2>2, <3>2 DEF InHandshake
    <3>. HIDE DEF old
    <3>. QED BY <2>1, <2>2, <3>3, HandshakeOverDue DEF SameNumbers
  <2>3. CASE q.messageStates = WithoutKeys(session.messageStates, {old}) /\ session' = SendQueuedMessage(q)
    <3>1. \A key \in DOMAIN q.messageStates :
            key \in DOMAIN session.messageStates /\ q.messageStates[key] = session.messageStates[key]
      BY <2>3 DEF WithoutKeys, Restrict
    <3>. QED BY <1>4, <2>1, <2>3, <3>1
  <2>. QED BY <2>1, <2>2, <2>3
<1>18. ASSUME NEW m \in Commands, SecondaryTimeout(m) PROVE AllDue(session', {})
  <2>1. \E q : /\ SessionOK(q) /\ SameNumbers(session, q) /\ SameMessages(session, q)
               /\ session' = SendQueuedMessage(q)
    BY <1>1, <1>18, SecondaryTimeoutStep
  <2>. QED BY <1>4, <2>1 DEF SameMessages
<1>19. CASE UNCHANGED vars
  BY <1>5, <1>19 DEF vars, SameNumbers
<1>20. CASE HandleData
  BY <1>20, DataDue
<1>. QED BY <1>6, <1>7, <1>8, <1>9, <1>10, <1>11, <1>12, <1>13, <1>14, <1>15, <1>16, <1>17, <1>18, <1>19, <1>20 DEF Next

\* Before the first step nothing is due.
LEMMA InitDue == Init => AllDue(session, {})
<1>1. Init => DOMAIN session.messageStates = {}
  BY DEF Init, NoEntries
<1>. QED BY <1>1 DEF AllDue

\* sendQueuedMessage takes no report back.
LEMMA SendQueuedMessageReports ==
  ASSUME NEW s, SessionOK(s), NEW c \in Messages
  PROVE  Len(SendQueuedMessage(s).events[c]) >= Len(s.events[c])
<1>. DEFINE t == SendQueuedMessage(s)
            m == Head(s.sendQueue).command
<1>1. Idle(s, t) \/ Asked(s, t) \/ TookHead(s, t)
  BY SendQueuedMessageFields
<1>2. s.events[c] \in Seq(Events)
  BY DEF SessionOK, ReportsOK
<1>. HIDE DEF t, m
<1>3. t.events = s.events \/ \E event : OneMore(s, t, m, event)
  <2>1. TookHead(s, t) => t.events = s.events \/ OneMore(s, t, m, Event("CONNECT_TIMEOUT", None))
    BY DEF TookHead, ReportedAged, SentFresh, m
  <2>. QED BY <1>1, <2>1 DEF Idle, Asked
<1>4. ASSUME NEW event, OneMore(s, t, m, event)
      PROVE  Len(t.events[c]) >= Len(s.events[c])
  <2>1. CASE c = m
    <3>1. t.events[c] = Append(s.events[c], event)
      BY <1>4, <2>1 DEF OneMore
    <3>2. Len(t.events[c]) = Len(s.events[c]) + 1 /\ Len(s.events[c]) \in Nat
      BY <1>2, <3>1
    <3>. QED BY <3>2
  <2>2. CASE c # m
    <3>1. t.events[c] = s.events[c]
      BY <1>4, <2>2 DEF OneMore
    <3>2. Len(s.events[c]) \in Nat
      BY <1>2
    <3>. QED BY <3>1, <3>2
  <2>. QED BY <2>1, <2>2
<1>5. t.events = s.events => Len(t.events[c]) >= Len(s.events[c])
  <2>1. Len(s.events[c]) \in Nat
    BY <1>2
  <2>. QED BY <2>1
<1>. QED BY <1>3, <1>4, <1>5 DEF t

\* One report more is a longer history.
LEMMA OneMoreLonger ==
  ASSUME NEW s, SessionOK(s), NEW t, NEW c \in Messages, NEW event, OneMore(s, t, c, event)
  PROVE  Len(t.events[c]) > Len(s.events[c])
<1>1. s.events[c] \in Seq(Events) /\ t.events[c] = Append(s.events[c], event)
  BY DEF SessionOK, ReportsOK, OneMore
<1>2. Len(t.events[c]) = Len(s.events[c]) + 1 /\ Len(s.events[c]) \in Nat
  BY <1>1
<1>. QED BY <1>2

\* The answer to the message it is matched to is reported, or retried.
LEMMA HandleResultTold ==
  ASSUME NEW s, SessionOK(s), NEW key \in DOMAIN s.messageStates, NEW c \in Commands,
         s.messageStates[key] = c, s.msg[c].sequence = key, NEW failed \in BOOLEAN
  PROVE  LET t == HandleResult(s, key, c, failed)
         IN Len(t.events[c]) > Len(s.events[c]) \/ t.msg[c].failed
<1>. DEFINE t == HandleResult(s, key, c, failed)
            a == Answered(s, key, c)
            r == Refused(s, c)
<1>1. \/ failed /\ t = SendCommandAgain(r, c)
      \/ ~failed /\ c \in TwoStageCommands /\ t = FirstResult(a, c)
      \/ ~failed /\ c \notin TwoStageCommands /\ t = SendQueuedMessage(a)
  BY HandleResultCases
<1>2. c \in Messages /\ c # Gateway /\ Len(s.events[c]) \in Nat
  <2>1. c \in Messages /\ c # Gateway
    BY CommandAssumption DEF Messages
  <2>2. s.events[c] \in Seq(Events)
    BY <2>1 DEF SessionOK, ReportsOK
  <2>. QED BY <2>1, <2>2
<1>3. SessionOK(a) /\ OneMore(s, a, c, Event("RESULT", c))
  BY <1>2, AnsweredTo
<1>4. SessionOK(r) /\ r.events = s.events /\ r.msg[c].failed /\ r.msg[c].sequence = key
  BY <1>2, RefusedFields
<1>. HIDE DEF t, a, r
<1>5. SessionOK(a) /\ Len(a.events[c]) > Len(s.events[c]) /\ Len(a.events[c]) \in Nat
  <2>1. a.events[c] \in Seq(Events)
    BY <1>2, <1>3 DEF SessionOK, ReportsOK
  <2>. QED BY <1>2, <1>3, <2>1, OneMoreLonger
<1>6. CASE failed /\ t = SendCommandAgain(r, c)
  <2>. DEFINE over == Emit(r, c, Event("COMMAND_TIMEOUT", None))
              u == Unlist(over, key)
  <2>1. /\ r.msg[c].retries < MAX_RETRIES => SentAgain(r, t, c)
        /\ ~(r.msg[c].retries < MAX_RETRIES) => t = SendQueuedMessage(u)
    BY <1>2, <1>4, <1>6, SendCommandAgainFields
  <2>2. CASE r.msg[c].retries < MAX_RETRIES
    BY <1>4, <2>1, <2>2 DEF SentAgain, t
  <2>3. CASE ~(r.msg[c].retries < MAX_RETRIES)
    <3>1. SessionOK(over) /\ OneMore(r, over, c, Event("COMMAND_TIMEOUT", None))
      BY <1>2, <1>4, CodesOK, EmitOK, EmitFields
    <3>2. Len(over.events[c]) > Len(r.events[c])
      BY <1>2, <1>4, <3>1, OneMoreLonger
    <3>. HIDE DEF over
    <3>3. SessionOK(u) /\ u.events = over.events
      BY <3>1, UnlistOK, UnlistFields
    <3>. HIDE DEF u
    <3>4. Len(t.events[c]) >= Len(u.events[c])
      BY <1>2, <2>1, <2>3, <3>3, SendQueuedMessageReports
    <3>5. Len(t.events[c]) \in Int /\ Len(u.events[c]) \in Int
      <4>1. SessionOK(t)
        BY <2>1, <2>3, <3>3, SendQueuedMessageOK
      <4>2. t.events[c] \in Seq(Events) /\ u.events[c] \in Seq(Events)
        BY <1>2, <3>3, <4>1 DEF SessionOK, ReportsOK
      <4>. QED BY <4>2
    <3>. QED BY <1>2, <1>4, <3>2, <3>3, <3>4, <3>5 DEF t
  <2>. QED BY <2>2, <2>3
<1>7. CASE ~failed /\ c \in TwoStageCommands /\ t = FirstResult(a, c)
  <2>1. t.events = a.events
    BY <1>5, <1>7, FirstResultFields
  <2>. QED BY <1>5, <2>1 DEF t
<1>8. CASE ~failed /\ c \notin TwoStageCommands /\ t = SendQueuedMessage(a)
  <2>1. Len(t.events[c]) >= Len(a.events[c]) /\ SessionOK(t)
    BY <1>2, <1>5, <1>8, SendQueuedMessageReports, SendQueuedMessageOK
  <2>2. t.events[c] \in Seq(Events)
    BY <1>2, <2>1 DEF SessionOK, ReportsOK
  <2>3. Len(t.events[c]) \in Nat
    BY <2>2
  <2>. QED BY <1>2, <1>5, <2>1, <2>3 DEF t
<1>. QED BY <1>1, <1>6, <1>7, <1>8

\* A listed message whose answer is the next is the one that answer is matched to: its number is the one
\* the table has for the next answer, for no other answer from it is on its way.
LEMMA AnswerIsNext ==
  ASSUME RetriesInTime, Shown, FirstLap, AllSound, AllDue(session, {}), session.results < Len(station.answers),
         NEW key \in DOMAIN session.messageStates, NEW c \in Commands \ Pings, session.messageStates[key] = c,
         station.answers[session.results + 1].from = c, Works(session, station)
  PROVE  session.p2pSeqMapping[session.results] = key
<1>1. /\ SessionOK(session) /\ StationTyped(station) /\ Retried(session, station, executed)
      /\ Ready(session, executed)
  BY CurrentSound
<1>2. /\ session.results \in Nat /\ Len(station.answers) \in Nat /\ session.p2pDataSeqNumber \in Int
      /\ NumberedOnce(session)
  BY <1>1, NumberFacts DEF StationTyped, Ready
<1>3. session.results + 1 \in Untold(session, station)
  BY <1>2 DEF Untold
<1>4. PICK k \in Outstanding(session) : k \in DOMAIN session.p2pSeqMapping /\ session.p2pSeqMapping[k] = key
  <2>1. c # Gateway /\ c \notin Pings
    BY CommandAssumption
  <2>. QED BY <2>1 DEF AllDue, Due
<1>5. MappedTo(session, station, k, key) /\ k \in Int /\ session.results <= k
  BY <1>2, <1>4 DEF Works, Mapped, Outstanding
<1>6. <<key, c>> \in session.sent
  BY <1>2 DEF NumberedOnce
<1>7. CASE k < Len(station.answers)
  <2>. DEFINE from == station.answers[k + 1].from
              one == <<key, from>>
              other == <<key, c>>
  <2>1. one \in session.sent /\ one[1] = key /\ one[2] = from
    BY <1>5, <1>7 DEF MappedTo
  <2>2. other \in session.sent /\ other[1] = key /\ other[2] = c
    BY <1>6
  <2>. HIDE DEF one, other
  <2>3. from = c
    BY <1>2, <2>1, <2>2 DEF NumberedOnce
  <2>4. k + 1 \in Untold(session, station)
    BY <1>2, <1>5, <1>7 DEF Untold
  <2>5. k + 1 = session.results + 1
    BY <1>1, <1>3, <2>3, <2>4 DEF Retried, OneOnItsWay
  <2>. QED BY <1>2, <1>4, <1>5, <2>5
<1>8. CASE ~(k < Len(station.answers))
  <2>. DEFINE other == <<key, c>>
  <2>1. key \notin station.seen
    BY <1>5, <1>8 DEF MappedTo
  <2>2. other \in Untaken(session, station) /\ other[2] = c
    BY <1>6, <2>1 DEF Untaken
  <2>. HIDE DEF other
  <2>. QED BY <1>1, <1>3, <2>2 DEF Retried, OneOnItsWay
<1>. QED BY <1>7, <1>8

\* The answer to a listed message is reported for it, or it is sent again.
LEMMA AnswerTold ==
  ASSUME RetriesInTime, Shown, FirstLap, AllSound, AllDue(session, {}), HandleData,
         NEW c \in Commands, c \notin Pings, c \in Listed(session),
         station.answers[session.results + 1].from = c
  PROVE  Len(session'.events[c]) > Len(session.events[c]) \/ session'.msg[c].failed
<1>. DEFINE number == session.results % (MAX_SEQUENCE_NUMBER + 1)
            good == MappedSequence(session, number)
            taken == IF good = 0 THEN number ELSE good
            answer == station.answers[session.results + 1]
            n == session.p2pSeqMapping[session.results]
<1>1. /\ session.connected /\ session.results < Len(station.answers) /\ answer.failed \in BOOLEAN
      /\ \E q : /\ SessionOK(q) /\ SameMessages(session, q) /\ q.events = session.events
                /\ session' = IF taken \in DOMAIN session.messageStates
                                THEN HandleResult(q, taken, answer.from, answer.failed) ELSE q
  BY CurrentSound, DataStep
<1>2. PICK q : /\ SessionOK(q) /\ SameMessages(session, q) /\ q.events = session.events
               /\ session' = IF taken \in DOMAIN session.messageStates
                               THEN HandleResult(q, taken, answer.from, answer.failed) ELSE q
  BY <1>1
<1>3. SessionOK(session) /\ StationTyped(station) /\ Linked(session, station) /\ Ready(session, executed)
  BY CurrentSound
<1>4. Works(session, station)
  <2>1. c # Gateway
    BY CommandAssumption
  <2>2. ~InHandshake(session, station)
    BY <2>1 DEF InHandshake, Listed, Range
  <2>. QED BY <1>1, <1>3, <2>2 DEF Linked, Apart
<1>5. /\ number = session.results /\ n # 0 /\ MappedSequence(session, session.results) = n
  BY <1>1, <1>3, <1>4, AnswerMapped
<1>6. taken = n
  BY <1>5
<1>7. PICK key \in DOMAIN session.messageStates : session.messageStates[key] = c
  BY DEF Listed, Range
<1>. HIDE DEF number, good, taken, answer, n
<1>8. n = key
  <2>1. session.p2pSeqMapping[session.results] = key
    BY <1>1, <1>4, <1>7, AnswerIsNext
  <2>. QED BY <2>1 DEF n
<1>9. session' = HandleResult(q, key, c, answer.failed)
  <2>1. answer.from = c
    BY DEF answer
  <2>. QED BY <1>2, <1>6, <1>7, <1>8, <2>1
<1>10. key \in DOMAIN q.messageStates /\ q.messageStates[key] = c /\ q.msg[c].sequence = key
  <2>1. session.msg[c].sequence = key
    BY <1>3, <1>7 DEF Ready, KeyedByNumber
  <2>. QED BY <1>2, <1>7, <2>1 DEF SameMessages
<1>11. Len(session'.events[c]) > Len(q.events[c]) \/ session'.msg[c].failed
  BY <1>1, <1>2, <1>9, <1>10, HandleResultTold
<1>. QED BY <1>2, <1>11

\* No answer is lost: while a command is listed, the answer from it that handleData takes is reported for
\* it or has it sent again. The table maps the answer to the number the command is listed under: a result is
\* not passed over as one nobody asked for, through refusals, timeouts and reconnections, as long as
\* acknowledgements, results of messages that were refused and sent again, and getCipher come in time. (With
\* "slow_retry" the result of a transmission that was given up is passed over.)
THEOREM AnswersAreNotDropped ==
  ASSUME {"slow_ack", "slow_retry", "reorder", "slow_cipher", "stale_cipher"} \cap Faults = {}
  PROVE  Spec /\ []FirstLap => AnswerNotDropped
<1>. DEFINE NoneLost == AllDue(session, {})
            Told == \A c \in Commands :
                      HandleData /\ station.answers[session.results + 1].from = c /\ c \notin Pings
                        /\ c \in Listed(session) =>
                          Len(session'.events[c]) > Len(session.events[c]) \/ session'.msg[c].failed
<1>1. Orderly /\ RetriesInTime
  BY DEF Orderly, RetriesInTime
<1>2. Init => NoneLost
  BY InitDue
<1>3. Shown /\ FirstLap /\ AllSound /\ AllMarked /\ NoneLost /\ [Next]_vars => NoneLost'
  BY <1>1, NextDue
<1>4. Shown /\ FirstLap /\ AllSound /\ NoneLost /\ [Next]_vars => [Told]_vars
  BY <1>1, AnswerTold
<1>5. AnswerNotDropped <=> [][Told]_vars
  BY DEF AnswerNotDropped
<1>. HIDE DEF NoneLost, Told, AllSound, AllMarked, Shown, FirstLap, AnswerNotDropped
<1>. QED BY <1>1, <1>2, <1>3, <1>4, <1>5, SoundAlways, PTL DEF Spec

-----------------------------------------------------------------------------
(* One command at a time *)

\* At most one of the messages that are listed waits for its acknowledgement.
OneWaits(s) ==
  \A a, b \in Listed(s) : ~s.msg[a].acknowledged /\ ~s.msg[b].acknowledged => a = b

\* Nothing else waits.
LEMMA OneWaitsLess ==
  ASSUME NEW s, NEW t, OneWaits(s),
         \A m \in Listed(t) : m \in Listed(s) /\ (t.msg[m].acknowledged \/ ~s.msg[m].acknowledged)
  PROVE  OneWaits(t)
BY DEF OneWaits

LEMMA ListedLess ==
  ASSUME NEW s, NEW t, NEW key, t.messageStates = WithoutKeys(s.messageStates, {key})
  PROVE  Listed(t) \subseteq Listed(s)
BY DEF Listed, Range, WithoutKeys, Restrict

\* No connection, or its handshake: nothing but the handshake is listed.
LEMMA OneUnlessWorks ==
  ASSUME NEW s, NEW st, Linked(s, st), ~Works(s, st)
  PROVE  OneWaits(s)
<1>1. Listed(s) \subseteq {Gateway}
  BY DEF Linked, Apart, InHandshake, Listed, Range
<1>. QED BY <1>1 DEF OneWaits

LEMMA SendQueuedMessageOne ==
  ASSUME NEW s, SessionOK(s), OneWaits(s)
  PROVE  OneWaits(SendQueuedMessage(s))
<1>. DEFINE t == SendQueuedMessage(s)
            m == Head(s.sendQueue).command
<1>1. Idle(s, t) \/ Asked(s, t) \/ TookHead(s, t)
  BY SendQueuedMessageFields
<1>. HIDE DEF t
<1>2. CASE t.messageStates = s.messageStates /\ t.msg = s.msg
  <2>1. Listed(t) = Listed(s)
    BY <1>2 DEF Listed
  <2>. QED BY <1>2, <2>1 DEF OneWaits, t
<1>3. CASE TookHead(s, t)
  <2>1. ReportedAged(s, t, m) \/ (SentFresh(s, t, m) /\ ~WaitingAcknowledge(s))
    BY <1>3 DEF TookHead
  <2>. HIDE DEF m
  <2>2. CASE ReportedAged(s, t, m)
    BY <1>2, <2>2 DEF ReportedAged, SameMessages
  <2>3. CASE SentFresh(s, t, m) /\ ~WaitingAcknowledge(s)
    <3>1. /\ \A x \in Listed(t) : x = m \/ x \in Listed(s)
          /\ Listed(s) \subseteq Messages
      BY <2>3 DEF SentFresh, Listed, Range, WithEntry, SessionOK, MessagesOK
    <3>2. \A x \in Listed(s) : s.msg[x].acknowledged
      BY <2>3 DEF WaitingAcknowledge
    <3>3. \A x \in Listed(t) : ~t.msg[x].acknowledged => x = m
      BY <2>3, <3>1, <3>2 DEF SentFresh
    <3>. QED BY <3>3 DEF OneWaits, t
  <2>. QED BY <2>1, <2>2, <2>3
<1>. QED BY <1>1, <1>2, <1>3 DEF Idle, Asked, SameMessages

\* A message that is sent again waits as it did, or leaves the table.
LEMMA SendCommandAgainOne ==
  ASSUME NEW s, SessionOK(s), OneWaits(s), NEW m \in Messages, m \in Listed(s)
  PROVE  OneWaits(SendCommandAgain(s, m))
<1>. DEFINE t == SendCommandAgain(s, m)
            over == IF m = Gateway THEN s ELSE Emit(s, m, Event("COMMAND_TIMEOUT", None))
            u == Unlist(over, s.msg[m].sequence)
<1>1. /\ s.msg[m].retries < MAX_RETRIES => SentAgain(s, t, m)
      /\ ~(s.msg[m].retries < MAX_RETRIES) => t = SendQueuedMessage(u)
  BY SendCommandAgainFields
<1>. HIDE DEF t
<1>2. CASE s.msg[m].retries < MAX_RETRIES
  <2>1. PICK others, number : /\ others = s.messageStates \/ others = WithoutKeys(s.messageStates, {s.msg[m].sequence})
                              /\ t.messageStates = WithEntry(others, number, m)
    BY <1>1, <1>2 DEF SentAgain
  <2>2. t.msg[m].acknowledged = s.msg[m].acknowledged /\ \A x \in Messages \ {m} : t.msg[x] = s.msg[x]
    BY <1>1, <1>2 DEF SentAgain
  <2>3. Range(others) \subseteq Listed(s)
    BY <2>1 DEF Listed, Range, WithoutKeys, Restrict
  <2>4. Listed(t) \subseteq Listed(s)
    BY <2>1, <2>3 DEF Listed, Range, WithEntry
  <2>5. Listed(s) \subseteq Messages
    BY DEF Listed, Range, SessionOK, MessagesOK
  <2>. QED BY <2>2, <2>4, <2>5, OneWaitsLess DEF t
<1>3. CASE ~(s.msg[m].retries < MAX_RETRIES)
  <2>1. SessionOK(over) /\ SameMessages(s, over)
    <3>1. CASE m = Gateway
      BY <3>1 DEF SameMessages
    <3>2. CASE m # Gateway
      BY <3>2, CodesOK, EmitOK, EmitFields
    <3>. QED BY <3>1, <3>2
  <2>. HIDE DEF over
  <2>2. SessionOK(u) /\ u.msg = s.msg /\ u.messageStates = WithoutKeys(s.messageStates, {s.msg[m].sequence})
    BY <2>1, UnlistOK, UnlistFields DEF SameMessages
  <2>. HIDE DEF u
  <2>3. Listed(u) \subseteq Listed(s)
    BY <2>2, ListedLess
  <2>4. OneWaits(u)
    BY <2>2, <2>3, OneWaitsLess
  <2>. QED BY <1>1, <1>3, <2>2, <2>4, SendQueuedMessageOne DEF t
<1>. QED BY <1>2, <1>3

\* An answer takes its message from the table, or has it wait as it did.
LEMMA HandleResultOne ==
  ASSUME NEW s, SessionOK(s), OneWaits(s), NEW key \in DOMAIN s.messageStates, NEW from \in Messages, NEW failed
  PROVE  OneWaits(HandleResult(s, key, from, failed))
<1>. DEFINE m == s.messageStates[key]
            t == HandleResult(s, key, from, failed)
            a == Answered(s, key, from)
            r == Refused(s, m)
<1>1. \/ t = Unlist(s, key)
      \/ t = SendCommandAgain(r, m)
      \/ t = FirstResult(a, m)
      \/ t = SendQueuedMessage(a)
  BY HandleResultCases
<1>2. /\ m \in Messages /\ SessionOK(a) /\ a.messageStates = WithoutKeys(s.messageStates, {key})
      /\ \A x \in Messages \ {m} : a.msg[x] = s.msg[x]
  <2>1. TookAnswer(s, a, key, m, from)
    BY AnsweredFields
  <2>. HIDE DEF a, m
  <2>. QED BY <2>1 DEF TookAnswer
<1>3. /\ SessionOK(r) /\ r.messageStates = s.messageStates /\ r.msg[m].acknowledged = s.msg[m].acknowledged
      /\ \A x \in Messages \ {m} : r.msg[x] = s.msg[x]
  BY <1>2, RefusedFields
<1>4. m \in Listed(s) /\ Listed(s) \subseteq Messages
  BY DEF Listed, Range, SessionOK, MessagesOK
<1>. HIDE DEF t, a, r, m
<1>5. OneWaits(r)
  <2>1. Listed(r) = Listed(s)
    BY <1>3 DEF Listed
  <2>. QED BY <1>3, <1>4, <2>1, OneWaitsLess
<1>6. OneWaits(a)
  <2>1. a.msg[m].acknowledged = s.msg[m].acknowledged
    BY AnsweredFields DEF TookAnswer, a, m
  <2>2. Listed(a) \subseteq Listed(s)
    BY <1>2, ListedLess
  <2>. QED BY <1>2, <1>4, <2>1, <2>2, OneWaitsLess
<1>7. CASE t = SendCommandAgain(r, m)
  <2>1. m \in Listed(r)
    BY <1>3, <1>4 DEF Listed
  <2>. QED BY <1>2, <1>3, <1>5, <1>7, <2>1, SendCommandAgainOne DEF t
<1>8. CASE t = Unlist(s, key)
  <2>1. t.msg = s.msg /\ t.messageStates = WithoutKeys(s.messageStates, {key})
    BY <1>8, UnlistFields
  <2>2. Listed(t) \subseteq Listed(s)
    BY <2>1, ListedLess
  <2>. QED BY <2>1, <2>2, OneWaitsLess DEF t
<1>9. CASE t = FirstResult(a, m)
  <2>1. SameMessages(a, t)
    BY <1>2, <1>9, FirstResultFields
  <2>2. Listed(t) = Listed(a)
    BY <2>1 DEF SameMessages, Listed
  <2>. QED BY <1>6, <2>1, <2>2, OneWaitsLess DEF SameMessages, t
<1>10. CASE t = SendQueuedMessage(a)
  BY <1>2, <1>6, <1>10, SendQueuedMessageOne DEF t
<1>. QED BY <1>1, <1>7, <1>8, <1>9, <1>10

LEMMA NextOne ==
  ASSUME Orderly
  PROVE  Shown /\ FirstLap /\ AllSound /\ AllMarked /\ OneWaits(session) /\ [Next]_vars => OneWaits(session')
<1>. SUFFICES ASSUME Shown, FirstLap, AllSound, AllMarked, OneWaits(session), [Next]_vars
              PROVE  OneWaits(session')
  OBVIOUS
<1>1. /\ TypeOK /\ SessionOK(session) /\ Linked(session, station) /\ Listed(session) \subseteq Messages
  BY CurrentSound DEF SessionOK, MessagesOK, Listed, Range
<1>2. AllSound'
  BY NextSound
<1>3. ~Works(session', station') => OneWaits(session')
  BY <1>2, OneUnlessWorks DEF AllSound, Sound
<1>4. ASSUME NEW q, SessionOK(q), session' = SendQueuedMessage(q), Listed(q) \subseteq Listed(session),
             \A m \in Listed(q) : q.msg[m].acknowledged \/ ~session.msg[m].acknowledged
      PROVE  OneWaits(session')
  <2>1. OneWaits(q)
    BY <1>4, OneWaitsLess
  <2>. QED BY <1>4, <2>1, SendQueuedMessageOne
<1>5. ASSUME NEW q, SessionOK(q), session' = SendQueuedMessage(q), SameMessages(session, q)
      PROVE  OneWaits(session')
  <2>1. Listed(q) = Listed(session) /\ q.msg = session.msg
    BY <1>5 DEF SameMessages, Listed
  <2>. QED BY <1>4, <1>5, <2>1
<1>6. ASSUME session'.messageStates = session.messageStates,
             \A m \in Messages : session'.msg[m].acknowledged = session.msg[m].acknowledged
      PROVE  OneWaits(session')
  <2>1. Listed(session') = Listed(session)
    BY <1>6 DEF Listed
  <2>. QED BY <1>1, <1>6, <2>1, OneWaitsLess
<1>7. ASSUME NEW c \in Commands, IssueCommand(c) PROVE OneWaits(session')
  <2>1. \E q : SessionOK(q) /\ SameButQueue(session, q) /\ session' = SendQueuedMessage(q)
    BY <1>1, <1>7, IssueStep
  <2>. QED BY <1>5, <2>1 DEF SameButQueue
<1>8. CASE Connect \/ Age
  <2>1. SameMessages(session, session')
    BY <1>1, <1>8, ConnectStep, AgeStep DEF Asked, SameButQueue
  <2>. QED BY <1>6, <2>1 DEF SameMessages
<1>9. CASE Close
  <2>1. PICK q : /\ q.messageStates = session.messageStates
                 /\ q.msg = ClearTimeouts(session.msg, Listed(session))
                 /\ SessionOK(q) /\ session' = IF session.connected THEN q ELSE Initialize(q)
    BY <1>1, <1>9, CloseStep
  <2>2. CASE session.connected
    <3>1. \A m \in Messages : q.msg[m].acknowledged = session.msg[m].acknowledged
      BY <1>1, <2>1 DEF ClearTimeouts, SessionOK, MessagesOK, MessageState
    <3>. QED BY <1>6, <2>1, <2>2, <3>1
  <2>3. CASE ~session.connected
    <3>1. ~session'.connected
      BY <2>1, <2>3, InitializeFields
    <3>. QED BY <1>3, <3>1 DEF Works
  <2>. QED BY <2>2, <2>3
<1>10. CASE CloseEnd \/ Disconnect \/ Establish
  <2>1. station' = FreshStation
    BY <1>10 DEF CloseEnd, Disconnect, Establish
  <2>2. ~Works(session', station')
    BY <2>1 DEF Works, Counts, FreshStation
  <2>. QED BY <1>3, <2>2
<1>11. ASSUME NEW datagram \in session.sent, StationTakes(datagram[1], datagram[2]) PROVE OneWaits(session')
  BY <1>6, <1>11 DEF StationTakes
<1>12. CASE HandleGatewayInfo \/ UNCHANGED vars
  BY <1>6, <1>12 DEF HandleGatewayInfo, vars
<1>13. ASSUME NEW sequence \in station.seen, HandleAck(sequence) PROVE OneWaits(session')
  <2>. DEFINE m == session.messageStates[sequence]
  <2>1. PICK q : /\ SessionOK(q) /\ ~session.msg[m].acknowledged
                 /\ \A x \in Messages \ {m} : q.msg[x] = session.msg[x]
                 /\ q.messageStates = (IF m \in Pings THEN WithoutKeys(session.messageStates, {sequence})
                                                      ELSE session.messageStates)
                 /\ session' = SendQueuedMessage(q)
    BY <1>1, <1>13, AckStep
  <2>. HIDE DEF m
  <2>2. Listed(q) \subseteq Listed(session)
    BY <2>1, ListedLess DEF Listed
  <2>. QED BY <1>1, <1>4, <2>1, <2>2
<1>14. CASE HandleData
  <2>1. PICK q, key, from, failed :
          /\ SessionOK(q) /\ SameMessages(session, q) /\ from \in Messages
          /\ session' = IF key \in DOMAIN session.messageStates THEN HandleResult(q, key, from, failed) ELSE q
    BY <1>1, <1>14, DataStep
  <2>2. q.messageStates = session.messageStates /\ q.msg = session.msg /\ Listed(q) = Listed(session)
    BY <2>1 DEF SameMessages, Listed
  <2>3. OneWaits(q)
    BY <2>2 DEF OneWaits
  <2>. QED BY <2>1, <2>2, <2>3, HandleResultOne
<1>15. ASSUME NEW q, SessionOK(q), NEW sequence, session' = HandshakeOver(q, sequence),
              q.messageStates = session.messageStates,
              \A m \in Messages : q.msg[m].acknowledged = session.msg[m].acknowledged
       PROVE  OneWaits(session')
  <2>. DEFINE u == GivenBack(q, sequence)
  <2>1. /\ SessionOK(u) /\ session' = SendQueuedMessage(u) /\ u.msg = q.msg
        /\ u.messageStates = WithoutKeys(q.messageStates, {sequence})
    BY <1>15, GivenBackFields
  <2>. HIDE DEF u
  <2>2. Listed(u) \subseteq Listed(session)
    BY <1>15, <2>1, ListedLess
  <2>. QED BY <1>1, <1>4, <1>15, <2>1, <2>2
<1>16. ASSUME NEW connection \in 1 .. MaxConnections, CipherAnswers(connection) PROVE OneWaits(session')
  <2>1. PICK q, ms : /\ SessionOK(q) /\ q.messageStates = session.messageStates
                     /\ q.msg = ClearTimeouts(session.msg, ms) /\ session' = HandshakeOver(q, 0)
    BY <1>1, <1>16, CipherStep
  <2>2. \A m \in Messages : q.msg[m].acknowledged = session.msg[m].acknowledged
    BY <1>1, <2>1 DEF ClearTimeouts, SessionOK, MessagesOK, MessageState
  <2>. QED BY <1>15, <2>1, <2>2
<1>17. ASSUME NEW m \in Messages, ResultTimeout(m) PROVE OneWaits(session')
  <2>. DEFINE old == session.msg[m].sequence
  <2>1. PICK q : /\ SessionOK(q) /\ q.msg = [session.msg EXCEPT ![m].timeout = "none"]
                 /\ \/ q.messageStates = session.messageStates /\ session' = HandshakeOver(q, old)
                    \/ /\ q.messageStates = WithoutKeys(session.messageStates, {old})
                       /\ session' = SendQueuedMessage(q)
    BY <1>1, <1>17, ResultTimeoutStep
  <2>. HIDE DEF old
  <2>2. \A x \in Messages : q.msg[x].acknowledged = session.msg[x].acknowledged
    BY <1>1, <2>1 DEF SessionOK, MessagesOK, MessageState
  <2>3. CASE q.messageStates = session.messageStates /\ session' = HandshakeOver(q, old)
    BY <1>15, <2>1, <2>2, <2>3
  <2>4. CASE q.messageStates = WithoutKeys(session.messageStates, {old}) /\ session' = SendQueuedMessage(q)
    <3>1. Listed(q) \subseteq Listed(session)
      BY <2>4, ListedLess
    <3>. QED BY <1>1, <1>4, <2>1, <2>2, <2>4, <3>1
  <2>. QED BY <2>1, <2>3, <2>4
<1>18. ASSUME NEW m \in Commands, SecondaryTimeout(m) PROVE OneWaits(session')
  <2>1. \E q : SessionOK(q) /\ SameMessages(session, q) /\ session' = SendQueuedMessage(q)
    BY <1>1, <1>18, SecondaryTimeoutStep
  <2>. QED BY <1>5, <2>1
<1>19. CASE HandleSecondResult
  <2>1. \E q : SessionOK(q) /\ SameMessages(session, q) /\ session' = SendQueuedMessage(q)
    BY <1>1, <1>19, SecondStep
  <2>. QED BY <1>5, <2>1
<1>20. ASSUME NEW m \in Messages, AckTimeout(m) PROVE OneWaits(session')
  <2>1. PICK q : /\ SessionOK(q) /\ q.messageStates = session.messageStates
                 /\ q.msg = [session.msg EXCEPT ![m].timeout = "none"] /\ session' = SendCommandAgain(q, m)
    BY <1>1, <1>20, AckTimeoutStep
  <2>2. m \in Listed(session)
    BY <1>20, CurrentSound DEF AckTimeout, TimersListed
  <2>3. Listed(q) = Listed(session)
    BY <2>1 DEF Listed
  <2>4. \A x \in Messages : q.msg[x].acknowledged = session.msg[x].acknowledged
    BY <1>1, <2>1 DEF SessionOK, MessagesOK, MessageState
  <2>5. OneWaits(q)
    BY <1>1, <2>3, <2>4, OneWaitsLess
  <2>. QED BY <2>1, <2>2, <2>3, <2>5, SendCommandAgainOne
<1>. QED BY <1>7, <1>8, <1>9, <1>10, <1>11, <1>12, <1>13, <1>14, <1>16, <1>17, <1>18, <1>19, <1>20 DEF Next

\* Commands leave one at a time: of the messages that are listed at most one is not acknowledged, as long
\* as acknowledgements and getCipher come in time and the station takes the numbers in order. A refused
\* message goes out again, once or several times, beside the one that left after it was acknowledged, but
\* not to be waited for.
THEOREM CommandsLeaveOneAtATime ==
  ASSUME {"slow_ack", "reorder", "slow_cipher", "stale_cipher"} \cap Faults = {}
  PROVE  Spec /\ []FirstLap => []OneUnacknowledged
<1>. DEFINE One == OneWaits(session)
<1>1. Orderly
  BY DEF Orderly
<1>2. Init => One
  <2>1. Init => Listed(session) = {}
    BY DEF Init, Listed, Range, NoEntries
  <2>. QED BY <2>1 DEF OneWaits
<1>3. Shown /\ FirstLap /\ AllSound /\ AllMarked /\ One /\ [Next]_vars => One'
  BY <1>1, NextOne
<1>4. One => OneUnacknowledged
  BY DEF OneWaits, OneUnacknowledged
<1>. HIDE DEF One, AllSound, AllMarked, Shown, FirstLap, OneUnacknowledged
<1>. QED BY <1>1, <1>2, <1>3, <1>4, SoundAlways, PTL DEF Spec
=============================================================================
