---------------------------- MODULE P2PCommands ----------------------------
(***************************************************************************)
(* The command path of P2PClientProtocol (src/src/p2p/session.ts): the     *)
(* send queue, the table of messages waiting for an acknowledgement or for *)
(* a result, their timers, the table that maps the station's numbering of  *)
(* results to the client's numbering of commands, and the GATEWAYINFO      *)
(* handshake that opens a connection and negotiates the key.               *)
(*                                                                         *)
(* The session is one record, as it is one object in the code, and every   *)
(* method that the handlers share is an operator from session to session:  *)
(* JavaScript runs a handler to completion, so an action is the            *)
(* composition of the methods its handler calls.                           *)
(*                                                                         *)
(* The station and the network are external.  Datagrams may be lost,       *)
(* delayed, repeated and reordered: sent only grows during a connection    *)
(* and the station may take any member at any time (a resend therefore     *)
(* adds nothing, and resendNotAcknowledgedCommand is the reason a lost     *)
(* datagram is offered again).  Answers on the DATA stream are delivered   *)
(* in order and once: that is what P2PReceive shows of the receiving side. *)
(***************************************************************************)
EXTENDS Integers, Sequences, FiniteSets, Functions

CONSTANTS
  Commands,            \* the commands the application issues, each once
  Gateway,             \* the handshake message a connection starts with
  None,                \* no command
  CommandType,         \* the command type of each message
  PingCommands,        \* the commands of type CMD_PING
  DevicePingCommands,  \* the commands of type CMD_GET_DEVICE_PING
  TwoStageCommands,    \* the commands whose result only announces a second one
  MAX_RETRIES,
  MAX_SEQUENCE_NUMBER,
  MaxConnections,      \* bound: connections established in a behaviour
  MaxFailures,         \* bound: answers ERROR_FAILED_TO_REQUEST
  Faults               \* what may go wrong in the environment, see AllFaults

Messages == Commands \cup {Gateway}
Pings == PingCommands \cup DevicePingCommands
SeqNos == 0 .. MAX_SEQUENCE_NUMBER

(***************************************************************************)
(* "disconnect"    the connection breaks while it is in use                *)
(* "reorder"       the station takes messages as they arrive               *)
(* "slow_ack"      no acknowledgement within MAX_AKNOWLEDGE_TIMEOUT        *)
(* "slow_retry"    no result within MAX_AKNOWLEDGE_TIMEOUT of a message    *)
(*                 that was acknowledged, refused and sent again: it is    *)
(*                 acknowledged still, so the acknowledgement of the       *)
(*                 second transmission stops no timer                      *)
(* "slow_result"   no (second) result within MAX_COMMAND_RESULT_WAIT       *)
(* "early_second"  a second result overtakes the first one                 *)
(* "slow_cipher"   getCipher answers after MAX_GATEWAY_COMMAND_RESULT_WAIT *)
(* "stale_cipher"  getCipher answers after its connection broke            *)
(* "ageing"        a command waits longer than MAX_COMMAND_QUEUE_TIMEOUT   *)
(* "close"         the application closes the session                      *)
(* "stray_lookup"  a lookup that was given up connects (see P2PConnection) *)
(***************************************************************************)
AllFaults == {"disconnect", "reorder", "slow_ack", "slow_retry", "slow_result", "early_second", "slow_cipher",
              "stale_cipher", "ageing", "close", "stray_lookup"}

ASSUME CommandAssumption ==
  /\ Gateway \notin Commands
  /\ None \notin Commands \cup {Gateway}
  /\ PingCommands \subseteq Commands
  /\ DevicePingCommands \subseteq Commands
  /\ TwoStageCommands \subseteq Commands
  /\ PingCommands \cap DevicePingCommands = {}
  /\ TwoStageCommands \cap (PingCommands \cup DevicePingCommands) = {}
ASSUME NumberAssumption ==
  /\ MAX_RETRIES \in Nat
  /\ MAX_SEQUENCE_NUMBER \in Nat \ {0}
  /\ MaxConnections \in Nat \ {0}
  /\ MaxFailures \in Nat
ASSUME FaultAssumption == Faults \subseteq AllFaults

VARIABLES
  session,   \* the client's session
  ciphers,   \* connections whose GATEWAYINFO answer waits for getCipher
  closing,   \* close() waits for its END message to be sent
  station,   \* the station's side of the present connection
  issued,    \* history: the commands the application issued, in order
  executed   \* history: what the station executed, in order

vars == <<session, ciphers, closing, station, issued, executed>>

-----------------------------------------------------------------------------
(* Tables *)

NoEntries == [x \in {} |-> None]
WithEntry(table, key, value) == [k \in DOMAIN table \cup {key} |-> IF k = key THEN value ELSE table[k]]
WithoutKeys(table, keys) == Restrict(table, DOMAIN table \ keys)
WithoutValue(table, value) == Restrict(table, {k \in DOMAIN table : table[k] # value})

IncrementSequence(n) == IF n < MAX_SEQUENCE_NUMBER THEN n + 1 ELSE 0

-----------------------------------------------------------------------------
(* Methods of the session *)

FreshMessage == [sequence |-> 0, retries |-> 0, acknowledged |-> FALSE,
                 failed |-> FALSE, timeout |-> "none"]

\* The messages of messageStates.
Listed(s) == Range(s.messageStates)

ClearTimeouts(msg, ms) ==
  [m \in Messages |-> IF m \in ms THEN [msg[m] EXCEPT !.timeout = "none"] ELSE msg[m]]

Emit(s, m, event) == [s EXCEPT !.events[m] = Append(@, event)]
Event(code, from) == [code |-> code, from |-> from]
Unlist(s, sequence) == [s EXCEPT !.messageStates = WithoutKeys(@, {sequence})]
StopTimer(s, m) == [s EXCEPT !.msg[m].timeout = "none"]

\* Mutant: the key of the last connection survives.
InitializeKeepsKey(s) ==
  [s EXCEPT !.connected = FALSE, !.connecting = FALSE, !.seqNumber = 0, !.p2pDataSeqNumber = 0,
            !.msg = ClearTimeouts(@, Listed(s)),
            !.messageStates = NoEntries, !.p2pSeqMapping = NoEntries, !.customDataStaging = NoEntries,
            !.sent = {}, !.results = 0]

\* Mutant: the sequence numbers of a connection start at -1, as lockSeqNumber does.
InitializeBelowZero(s) == [InitializeKeepsKey(s) EXCEPT !.seqNumber = -1]

Initialize(s) ==
  [s EXCEPT !.connected = FALSE, !.connecting = FALSE, !.seqNumber = 0, !.p2pDataSeqNumber = 0,
            !.encryption = "NONE", !.p2pKey = 0, !.msg = ClearTimeouts(@, Listed(s)),
            !.messageStates = NoEntries, !.p2pSeqMapping = NoEntries, !.customDataStaging = NoEntries,
            !.sent = {}, !.results = 0]

\* The entries that stay: the k-th of them has k such entries up to it.
Kept(queue) == {i \in DOMAIN queue : queue[i].command \notin Pings}
KeptAt(queue, k) == CHOOSE i \in Kept(queue) : Cardinality({j \in Kept(queue) : j <= i}) = k
WithoutPings(queue) == [k \in 1 .. Cardinality(Kept(queue)) |-> queue[KeptAt(queue, k)]]

\* The handle knows one timer: a timer whose handle was overwritten keeps running.
ClearSecondaryTimeout(s) ==
  [s EXCEPT !.secondaryTimers = @ \ {s.secondaryTimeout}, !.secondaryTimeout = None]

\* Mutant: what was sent and not answered is queued for the next connection.
DisconnectedRequeues(s) ==
  LET lost == {m \in Listed(s) : m # Gateway}
      requeued == IF lost = {} THEN <<>> ELSE <<[command |-> CHOOSE m \in lost : TRUE, aged |-> FALSE]>>
  IN Initialize([ClearSecondaryTimeout(s) EXCEPT !.sendQueue = WithoutPings(@) \o requeued])

Disconnected(s) == Initialize([ClearSecondaryTimeout(s) EXCEPT !.sendQueue = WithoutPings(@)])

\* The end of _sendCommand: arm the acknowledgement timer, list the message, number its result
\* (a CMD_PING has none) and send it.
Transmit(s, m) ==
  LET numbered == IF m \in PingCommands THEN s
                  ELSE [s EXCEPT !.p2pSeqMapping = WithEntry(@, s.p2pDataSeqNumber, s.msg[m].sequence),
                                 !.p2pDataSeqNumber = IncrementSequence(@)]
  IN [numbered EXCEPT !.msg[m].timeout = "ack",
                      !.messageStates = WithEntry(@, s.msg[m].sequence, m),
                      !.sent = IF s.connected THEN @ \cup {<<s.msg[m].sequence, m>>} ELSE @]

\* Mutant: the application hears that a command aged out, and it is sent all the same.
SendCommandFromQueueAnyAge(s, entry) ==
  LET told == IF entry.aged /\ entry.command \notin Pings
                THEN Emit(s, entry.command, Event("CONNECT_TIMEOUT", None)) ELSE s
  IN Transmit([told EXCEPT !.msg[entry.command] = [FreshMessage EXCEPT !.sequence = s.seqNumber],
                           !.seqNumber = IncrementSequence(@)], entry.command)

\* Mutant: a command is staged for its second result when it is sent.
SendCommandFromQueueStages(s, entry) ==
  Transmit([s EXCEPT !.msg[entry.command] = [FreshMessage EXCEPT !.sequence = s.seqNumber],
                     !.customDataStaging = WithEntry(@, CommandType[entry.command], entry.command),
                     !.seqNumber = IncrementSequence(@)], entry.command)

\* _sendCommand of an entry of the send queue.
SendCommandFromQueue(s, entry) ==
  IF ~entry.aged
    THEN Transmit([s EXCEPT !.msg[entry.command] = [FreshMessage EXCEPT !.sequence = s.seqNumber],
                            !.seqNumber = IncrementSequence(@)], entry.command)
    ELSE IF entry.command \in Pings THEN s
    ELSE Emit(s, entry.command, Event("CONNECT_TIMEOUT", None))

\* Mutant: an acknowledged handshake lets the queue go on.
WaitingUnacknowledgedOnly(s) == \E m \in Listed(s) : ~s.msg[m].acknowledged

\* Whether the head of the queue has to wait (exists in the code implies waitingAcknowledge).
WaitingAcknowledge(s) == \E m \in Listed(s) : ~s.msg[m].acknowledged \/ m = Gateway

\* A non-empty queue of a connected session sends its head or waits; a disconnected session
\* that has more than pings to send connects.
SendQueuedMessage(s) ==
  IF s.sendQueue = <<>> THEN s
  ELSE IF s.connected
    THEN IF WaitingAcknowledge(s) THEN s
         ELSE SendCommandFromQueue([s EXCEPT !.sendQueue = Tail(@)], Head(s.sendQueue))
    ELSE [s EXCEPT !.connecting = @ \/ WithoutPings(s.sendQueue) # <<>>]

\* Mutant: a command overtakes those that wait.
SendCommandUnshifted(s, m) ==
  SendQueuedMessage([s EXCEPT !.sendQueue = <<[command |-> m, aged |-> FALSE]>> \o @])

SendCommand(s, m) == SendQueuedMessage([s EXCEPT !.sendQueue = Append(@, [command |-> m, aged |-> FALSE])])

\* Mutant: a message is given up in silence.
SendCommandAgainSilent(s, m) ==
  IF s.msg[m].retries < MAX_RETRIES
    THEN Transmit([s EXCEPT !.msg[m].retries = @ + 1], m)
    ELSE SendQueuedMessage(Unlist(s, s.msg[m].sequence))

\* _sendCommand of a message that was sent before: sent again, under a new sequence number when
\* the station refused it, or given up.
SendCommandAgain(s, m) ==
  LET old == s.msg[m].sequence
      moved == [s EXCEPT !.messageStates = WithEntry(WithoutKeys(@, {old}), s.seqNumber, m),
                         !.msg[m].sequence = s.seqNumber,
                         !.seqNumber = IncrementSequence(@)]
      again == IF s.msg[m].failed THEN moved ELSE s
      over  == IF m = Gateway THEN s ELSE Emit(s, m, Event("COMMAND_TIMEOUT", None))
  IN IF s.msg[m].retries < MAX_RETRIES
       THEN Transmit([again EXCEPT !.msg[m].retries = @ + 1], m)
       ELSE SendQueuedMessage(Unlist(over, old))

\* The client's number of the message a DATA answer with this number belongs to; 0, which is also
\* a number, stands for "no mapping".
MappedSequence(s, number) == IF number \in DOMAIN s.p2pSeqMapping THEN s.p2pSeqMapping[number] ELSE 0

\* The command type under which a two-stage command is staged and its second result is looked up.
Stage(s, m) == [s EXCEPT !.customDataStaging = WithEntry(@, CommandType[m], m)]

\* A two-stage command arms the timer of its second result and leaves the queue alone.
FirstResult(s, m) ==
  [Stage(s, m) EXCEPT !.secondaryTimers = @ \cup {m}, !.secondaryTimeout = m]

\* Mutant: the timer that waits for the result keeps running.
HandleResultKeepsTimer(s, key, from, failed) ==
  LET m == s.messageStates[key]
      answered == Emit(Unlist(s, key), m, Event("RESULT", from))
  IN IF m \in TwoStageCommands THEN FirstResult(answered, m) ELSE SendQueuedMessage(answered)

\* The answer of type CommandType[from] to the message listed under key.
HandleResult(s, key, from, failed) ==
  LET m == s.messageStates[key]
      unlisted == Unlist(s, key)
      answered == IF m = Gateway THEN unlisted ELSE Emit(unlisted, m, Event("RESULT", from))
  IN IF CommandType[m] # CommandType[from] THEN unlisted
     ELSE IF failed
       THEN SendCommandAgain([StopTimer(s, m) EXCEPT !.msg[m].failed = TRUE], m)
     ELSE IF m \in TwoStageCommands
       THEN FirstResult(StopTimer(answered, m), m)
       ELSE SendQueuedMessage(StopTimer(answered, m))

\* Mutant: the end of the handshake does not look at the queue.
HandshakeOverStops(s, sequence) ==
  [s EXCEPT !.p2pSeqMapping = WithoutValue(@, sequence), !.p2pDataSeqNumber = @ - 1,
            !.messageStates = WithoutKeys(@, {sequence})]

\* Mutant: the number of the handshake's result is not given back.
HandshakeOverKeepsNumber(s, sequence) ==
  SendQueuedMessage(
    [s EXCEPT !.p2pSeqMapping = WithoutValue(@, sequence), !.messageStates = WithoutKeys(@, {sequence})])

\* The end of the handshake, shared by getCipher's answer and by its timeout: the number the
\* message took in the station's numbering of results is given back.
HandshakeOver(s, sequence) ==
  SendQueuedMessage(
    [s EXCEPT !.p2pSeqMapping = WithoutValue(@, sequence), !.p2pDataSeqNumber = @ - 1,
              !.messageStates = WithoutKeys(@, {sequence})])

-----------------------------------------------------------------------------
(* The station's side of a connection that was just established *)

FreshStation == [seen |-> {}, answers |-> <<>>, second |-> <<>>, gatewayInfo |-> "none"]

-----------------------------------------------------------------------------
(* Initial state *)

Init ==
  /\ session = [connected |-> FALSE, connecting |-> FALSE, connection |-> 0,
                sendQueue |-> <<>>, seqNumber |-> 0, p2pDataSeqNumber |-> 0, p2pSeqMapping |-> NoEntries,
                messageStates |-> NoEntries, msg |-> [m \in Messages |-> FreshMessage],
                encryption |-> "NONE", p2pKey |-> 0, secondaryTimeout |-> None, secondaryTimers |-> {},
                customDataStaging |-> NoEntries, sent |-> {}, results |-> 0,
                events |-> [m \in Messages |-> <<>>]]
  /\ ciphers = {}
  /\ closing = FALSE
  /\ station = FreshStation
  /\ issued = <<>>
  /\ executed = <<>>

-----------------------------------------------------------------------------
(* The application *)

IssueCommand(c) ==
  /\ c \notin Range(issued)
  /\ issued' = Append(issued, c)
  /\ session' = SendCommand(session, c)
  /\ UNCHANGED <<ciphers, closing, station, executed>>

Connect ==
  /\ ~session.connected /\ ~session.connecting
  /\ session' = [session EXCEPT !.connecting = TRUE]
  /\ UNCHANGED <<ciphers, closing, station, issued, executed>>

\* close() up to its await, and all of it where there is no connection to end.
Close ==
  /\ "close" \in Faults /\ ~closing
  /\ ciphers # {} => "stale_cipher" \in Faults
  /\ LET emptied == [ClearSecondaryTimeout(session) EXCEPT
                       !.sendQueue = <<>>, !.msg = ClearTimeouts(@, Listed(session))]
     IN session' = IF session.connected THEN emptied ELSE Initialize(emptied)
  /\ closing' = session.connected
  /\ UNCHANGED <<ciphers, station, issued, executed>>

CloseEnd ==
  /\ closing
  /\ closing' = FALSE
  /\ session' = Disconnected(session)
  /\ station' = FreshStation
  /\ UNCHANGED <<ciphers, issued, executed>>

-----------------------------------------------------------------------------
(* The connection (its own protocol is P2PConnection) *)

\* CAM_ID: the handshake goes out before anything that waits in the queue.
Establish ==
  /\ session.connecting \/ "stray_lookup" \in Faults
  /\ ~session.connected /\ session.connection < MaxConnections
  /\ LET up == [session EXCEPT !.connected = TRUE, !.connection = @ + 1, !.sendQueue = <<>>]
         asked == SendCommand(up, Gateway)
     IN session' = SendQueuedMessage([asked EXCEPT !.sendQueue = @ \o session.sendQueue])
  /\ station' = FreshStation
  /\ UNCHANGED <<ciphers, closing, issued, executed>>

\* No host answered, or the connection was lost, ended by the station or by the energy saving timer.
Disconnect ==
  /\ session.connected => "disconnect" \in Faults
  /\ session.connecting \/ session.connected
  /\ ciphers # {} => "stale_cipher" \in Faults
  /\ session' = Disconnected(session)
  /\ station' = FreshStation
  /\ UNCHANGED <<ciphers, closing, issued, executed>>

\* Time passes: what waits in the queue now is older than MAX_COMMAND_QUEUE_TIMEOUT.
Age ==
  /\ "ageing" \in Faults
  /\ \E i \in DOMAIN session.sendQueue : ~session.sendQueue[i].aged
  /\ session' = [session EXCEPT !.sendQueue = [i \in DOMAIN @ |-> [@[i] EXCEPT !.aged = TRUE]]]
  /\ UNCHANGED <<ciphers, closing, station, issued, executed>>

-----------------------------------------------------------------------------
(* The station: it takes a sequence number once, acknowledges it whenever it is offered, and      *)
(* answers GATEWAYINFO on the CONTROL stream, on the DATA stream, or never.                       *)

StationTakes(sequence, m) ==
  /\ sequence \notin station.seen
  /\ 0 .. sequence - 1 \subseteq station.seen \/ "reorder" \in Faults
  /\ LET taken == [station EXCEPT !.seen = @ \cup {sequence}]
         answer(refused) == Append(station.answers, [from |-> m, failed |-> refused])
     IN \/ /\ m = Gateway
           /\ \E how \in {"control", "data", "silent"} :
                station' = [taken EXCEPT !.gatewayInfo = how,
                                         !.answers = IF how = "data" THEN answer(FALSE) ELSE @]
           /\ UNCHANGED executed
        \/ /\ m \in PingCommands
           /\ station' = taken
           /\ UNCHANGED executed
        \/ /\ m \in Commands \ PingCommands
           /\ \E refused \in BOOLEAN :
                /\ refused => Cardinality({i \in DOMAIN executed : executed[i].refused}) < MaxFailures
                /\ station' = [taken EXCEPT !.answers = answer(refused),
                                            !.second = IF m \in TwoStageCommands /\ ~refused
                                                         THEN Append(@, m) ELSE @]
                /\ executed' = Append(executed, [command |-> m, refused |-> refused])
  /\ UNCHANGED <<session, ciphers, closing, issued>>

-----------------------------------------------------------------------------
(* Messages of the station *)

\* ACK of a message of the DATA stream.
HandleAck(sequence) ==
  /\ sequence \in station.seen \cap DOMAIN session.messageStates
  /\ LET m == session.messageStates[sequence]
     IN /\ ~session.msg[m].acknowledged
        /\ session' = SendQueuedMessage(
             IF m \in Pings
               THEN StopTimer(Unlist(session, sequence), m)
               ELSE [session EXCEPT !.msg[m].timeout = "result", !.msg[m].acknowledged = TRUE])
  /\ UNCHANGED <<ciphers, closing, station, issued, executed>>

\* The next answer of the DATA stream.
HandleData ==
  /\ session.connected /\ session.results < Len(station.answers)
  /\ LET number == session.results % (MAX_SEQUENCE_NUMBER + 1)
         good == MappedSequence(session, number)
         key == IF good = 0 THEN number ELSE good
         taken == [session EXCEPT !.results = @ + 1,
                                  !.p2pSeqMapping = IF good = 0 THEN @ ELSE WithoutKeys(@, {number})]
         answer == station.answers[session.results + 1]
     IN session' = IF key \in DOMAIN session.messageStates
                     THEN HandleResult(taken, key, answer.from, answer.failed)
                     ELSE taken
  /\ UNCHANGED <<ciphers, closing, station, issued, executed>>

\* GATEWAYINFO on the CONTROL stream, whose first message it is: its sequence number there is 0.
HandleGatewayInfo ==
  /\ session.connected /\ station.gatewayInfo = "control"
  /\ closing => "stale_cipher" \in Faults
  /\ Gateway \notin Listed(session) => "slow_cipher" \in Faults
  /\ ciphers' = ciphers \cup {session.connection}
  /\ station' = [station EXCEPT !.gatewayInfo = "taken"]
  /\ UNCHANGED <<session, closing, issued, executed>>

\* getCipher settles, for whatever connection the session has by then.
CipherAnswers(connection) ==
  /\ connection \in ciphers
  /\ ciphers' = ciphers \ {connection}
  /\ \E level \in {"LEVEL_1", "LEVEL_2"} :
       session' = HandshakeOver(
         [session EXCEPT !.encryption = level, !.p2pKey = connection,
                         !.msg = ClearTimeouts(@, {session.messageStates[k] :
                                                   k \in {0} \cap DOMAIN session.messageStates})], 0)
  /\ UNCHANGED <<closing, station, issued, executed>>

\* The second result of a two-stage command, notified on the CONTROL stream.
HandleSecondResult ==
  /\ session.connected /\ station.second # <<>>
  /\ LET from == Head(station.second)
         type == CommandType[from]
         staged == IF type \in DOMAIN session.customDataStaging
                     THEN Emit([session EXCEPT !.customDataStaging = WithoutKeys(@, {type})],
                               session.customDataStaging[type], Event("SECOND_RESULT", from))
                     ELSE session
     IN /\ type \notin DOMAIN session.customDataStaging => "early_second" \in Faults
        /\ session' = SendQueuedMessage(ClearSecondaryTimeout(staged))
  /\ station' = [station EXCEPT !.second = Tail(@)]
  /\ UNCHANGED <<ciphers, closing, issued, executed>>

-----------------------------------------------------------------------------
(* Timers *)

\* No acknowledgement stops the timer of a message that was acknowledged before: its result has to.
AckTimeout(m) ==
  /\ session.msg[m].timeout = "ack"
  /\ IF session.msg[m].acknowledged THEN "slow_retry" \in Faults ELSE "slow_ack" \in Faults
  /\ session' = SendCommandAgain(StopTimer(session, m), m)
  /\ UNCHANGED <<ciphers, closing, station, issued, executed>>

ResultTimeout(m) ==
  /\ session.msg[m].timeout = "result"
  /\ IF m = Gateway THEN station.gatewayInfo = "silent" \/ "slow_cipher" \in Faults
                    ELSE "slow_result" \in Faults
  /\ LET fired == StopTimer(session, m)
         sequence == session.msg[m].sequence
     IN session' = IF m = Gateway THEN HandshakeOver(fired, sequence)
                   ELSE SendQueuedMessage(Emit(Unlist(fired, sequence), m, Event("COMMAND_TIMEOUT", None)))
  /\ UNCHANGED <<ciphers, closing, station, issued, executed>>

SecondaryTimeout(m) ==
  /\ m \in session.secondaryTimers
  /\ "slow_result" \in Faults
  /\ session' = SendQueuedMessage(
       Emit([session EXCEPT !.secondaryTimers = @ \ {m}, !.secondaryTimeout = None],
            m, Event("SECONDARY_TIMEOUT", None)))
  /\ UNCHANGED <<ciphers, closing, station, issued, executed>>

-----------------------------------------------------------------------------

Next ==
  \/ \E c \in Commands : IssueCommand(c)
  \/ Connect
  \/ Close
  \/ CloseEnd
  \/ Establish
  \/ Disconnect
  \/ Age
  \/ \E datagram \in session.sent : StationTakes(datagram[1], datagram[2])
  \/ \E sequence \in station.seen : HandleAck(sequence)
  \/ HandleData
  \/ HandleGatewayInfo
  \/ \E connection \in 1 .. MaxConnections : CipherAnswers(connection)
  \/ HandleSecondResult
  \/ \E m \in Messages : AckTimeout(m)
  \/ \E m \in Messages : ResultTimeout(m)
  \/ \E m \in Commands : SecondaryTimeout(m)

Spec == Init /\ [][Next]_vars

\* Datagrams are offered again until they are taken (resendNotAcknowledgedCommand), timers fire, an
\* HTTP request settles, and Station.scheduleReconnect connects again and again: a host that can be
\* reached is reached in the end.
Fairness ==
  /\ WF_vars(Connect)
  /\ SF_vars(Establish)
  /\ WF_vars(CloseEnd)
  /\ WF_vars(\E datagram \in session.sent : StationTakes(datagram[1], datagram[2]))
  /\ WF_vars(\E sequence \in station.seen : HandleAck(sequence))
  /\ WF_vars(HandleData)
  /\ WF_vars(HandleGatewayInfo)
  /\ WF_vars(\E connection \in 1 .. MaxConnections : CipherAnswers(connection))
  /\ WF_vars(HandleSecondResult)
  /\ WF_vars(\E m \in Messages : AckTimeout(m))
  /\ WF_vars(\E m \in Messages : ResultTimeout(m))
  /\ WF_vars(\E m \in Commands : SecondaryTimeout(m))

LiveSpec == Spec /\ Fairness

-----------------------------------------------------------------------------
(* Properties *)

(***************************************************************************)
(* Type invariant.  p2pDataSeqNumber is an integer and no sequence number: *)
(* HandshakeOver takes 1 from it without looking at what it is.            *)
(***************************************************************************)
MessageState == [sequence : SeqNos, retries : 0 .. MAX_RETRIES, acknowledged : BOOLEAN,
                 failed : BOOLEAN, timeout : {"none", "ack", "result"}]
Events == [code : {"RESULT", "COMMAND_TIMEOUT", "CONNECT_TIMEOUT", "SECOND_RESULT", "SECONDARY_TIMEOUT"},
           from : Commands \cup {Gateway, None}]

SessionFields ==
  {"connected", "connecting", "connection", "sendQueue", "seqNumber", "p2pDataSeqNumber",
   "p2pSeqMapping", "messageStates", "msg", "encryption", "p2pKey", "secondaryTimeout",
   "secondaryTimers", "customDataStaging", "sent", "results", "events"}

ConnectionOK(s) ==
  /\ s.connected \in BOOLEAN /\ s.connecting \in BOOLEAN
  /\ s.connection \in 0 .. MaxConnections /\ (s.connected => s.connection > 0)
  /\ s.encryption \in {"NONE", "LEVEL_1", "LEVEL_2"} /\ s.p2pKey \in 0 .. MaxConnections
QueueOK(s) == s.sendQueue \in Seq([command : Messages, aged : BOOLEAN])
NumbersOK(s) ==
  /\ s.seqNumber \in SeqNos /\ s.p2pDataSeqNumber \in Int /\ s.results \in Nat
  /\ DOMAIN s.p2pSeqMapping \subseteq Int
  /\ s.p2pSeqMapping \in [DOMAIN s.p2pSeqMapping -> SeqNos]
MessagesOK(s) ==
  /\ DOMAIN s.messageStates \subseteq SeqNos
  /\ s.messageStates \in [DOMAIN s.messageStates -> Messages]
  /\ s.msg \in [Messages -> MessageState]
  /\ s.sent \subseteq SeqNos \X Messages
ReportsOK(s) ==
  /\ s.secondaryTimeout \in Commands \cup {None} /\ s.secondaryTimers \subseteq Commands
  /\ s.customDataStaging \in [DOMAIN s.customDataStaging -> Commands]
  /\ s.events \in [Messages -> Seq(Events)]

SessionOK(s) ==
  DOMAIN s = SessionFields /\ ConnectionOK(s) /\ QueueOK(s) /\ NumbersOK(s) /\ MessagesOK(s) /\ ReportsOK(s)

StationOK ==
  station \in [seen : SUBSET SeqNos, answers : Seq([from : Messages, failed : BOOLEAN]),
               second : Seq(Commands), gatewayInfo : {"none", "control", "data", "silent", "taken"}]

TypeOK ==
  /\ SessionOK(session)
  /\ ciphers \subseteq 1 .. MaxConnections
  /\ closing \in BOOLEAN
  /\ StationOK
  /\ issued \in Seq(Commands)
  /\ executed \in Seq([command : Commands, refused : BOOLEAN])

\* Commands go out one at a time: sendQueuedMessage waits until what was sent is acknowledged.
OneUnacknowledged ==
  \A a, b \in Listed(session) : ~session.msg[a].acknowledged /\ ~session.msg[b].acknowledged => a = b

\* No lost wake-up: what waits in the queue of a connected session waits for a message (or a second
\* result) whose timer is running, so sendQueuedMessage will be called again.
QueueNotStranded ==
  session.connected /\ ~closing /\ session.sendQueue # <<>> =>
    \/ \E m \in Listed(session) : /\ ~session.msg[m].acknowledged \/ m = Gateway
                                  /\ session.msg[m].timeout # "none"
    \/ session.secondaryTimers # {}

\* A result reported for a command is the station's answer to that command and no other's.
ResultBelongsToCommand ==
  \A m \in Messages : \A i \in DOMAIN session.events[m] :
    session.events[m][i].code \in {"RESULT", "SECOND_RESULT"} => session.events[m][i].from = m

\* The application hears of a command once.
FirstEvents(m) == {i \in DOMAIN session.events[m] :
                     session.events[m][i].code \in {"RESULT", "COMMAND_TIMEOUT", "CONNECT_TIMEOUT"}}
OneAnswer == \A c \in Commands : Cardinality(FirstEvents(c)) <= 1

\* A second result is reported only for a command whose first result was reported before.
SecondAfterFirst ==
  \A m \in Messages : \A i \in DOMAIN session.events[m] :
    session.events[m][i].code \in {"SECOND_RESULT", "SECONDARY_TIMEOUT"} =>
      \E j \in 1 .. i - 1 : session.events[m][j].code = "RESULT"

\* A command waits in the queue, was sent, or was reported as aged out, and it is in one of these
\* stages at most: nothing that was sent once is queued, nothing that aged out is ever sent.
Queued(s, c) == \E i \in DOMAIN s.sendQueue : s.sendQueue[i].command = c
Sent(s, c) ==
  c \in Listed(s) \/ s.msg[c].timeout # "none" \/ \E datagram \in s.sent : datagram[2] = c
AgedOut(s, c) == \E i \in DOMAIN s.events[c] : s.events[c][i].code = "CONNECT_TIMEOUT"

Stages(s, known, done) ==
  /\ \A i, j \in DOMAIN s.sendQueue :
       s.sendQueue[i].command = s.sendQueue[j].command => i = j \/ s.sendQueue[i].command = Gateway
  /\ \A c \in Commands :
       /\ Queued(s, c) \/ Sent(s, c) \/ AgedOut(s, c) => c \in known
       /\ Sent(s, c) \/ c \in done => ~Queued(s, c) /\ ~AgedOut(s, c)
       /\ AgedOut(s, c) => ~Queued(s, c)
  /\ done \subseteq known

OneStage == Stages(session, Range(issued), {executed[i].command : i \in DOMAIN executed})

\* A command the application was told had aged out is not executed, before or after.
AgedOutNotExecuted ==
  \A i \in DOMAIN executed : \A j \in DOMAIN session.events[executed[i].command] :
    session.events[executed[i].command][j].code # "CONNECT_TIMEOUT"

\* The station executes a command again only when it refused it before.  Where a refused command may
\* be answered late, it was refused the first time, and no more: the session sends it again while the
\* station executes it, so a command that was accepted by then is executed once more.
NoReexecution ==
  \A i, j \in DOMAIN executed :
    i < j /\ executed[i].command = executed[j].command =>
      \E k \in 1 .. i : /\ executed[k].command = executed[i].command /\ executed[k].refused
                        /\ "slow_retry" \notin Faults => k = i

\* The station executes commands in the order the application issued them.
ExecutedInOrder ==
  \A i, j \in DOMAIN executed : i < j =>
    \A a, b \in DOMAIN issued :
      /\ executed[i].command = issued[a] /\ executed[j].command = issued[b]
      /\ \A k \in 1 .. i - 1 : executed[k].command # executed[i].command
      /\ \A k \in 1 .. j - 1 : executed[k].command # executed[j].command
      => a < b

\* No command leaves before the handshake of its connection is over: its key is settled.
HandshakeFirst ==
  session.connected /\ Gateway \in Listed(session) => \A datagram \in session.sent : datagram[2] = Gateway

\* The key in use was negotiated on the connection in use.
KeyOfThisConnection == session.encryption # "NONE" => session.p2pKey = session.connection

\* What a command is encrypted with: no command leaves before the handshake settled the
\* key, and the key is that of the connection it leaves on.
KeyAgreed == HandshakeFirst /\ KeyOfThisConnection

\* Every command but a ping is answered in the end, by the station or by a timeout.
CommandAnswered ==
  \A c \in Commands \ Pings : (c \in Range(issued)) ~> (FirstEvents(c) # {})

\* An answer the session takes from the DATA stream is reported for, or retried by, its command.
AnswerNotDropped ==
  [][\A c \in Commands :
       HandleData /\ station.answers[session.results + 1].from = c /\ c \notin Pings
         /\ c \in Listed(session) =>
           Len(session'.events[c]) > Len(session.events[c]) \/ session'.msg[c].failed]_vars
=============================================================================
