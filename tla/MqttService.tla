----------------------------- MODULE MqttService -----------------------------
(*
 The MQTT connection (src/src/mqtt/service.ts): locks wait in subscribeLocks
 until the client connects, whose connect event takes them out and subscribes
 them.  The mqtt library (external) connects a client again until end() is called
 and repeats its subscriptions then.

 connect() makes a new client whenever the service is neither connecting nor
 connected and a lock waits, also while the library still tries with an older
 client; the events of either act on the one state of the service, and
 this.client is the newer one.
*)
EXTENDS Integers, Sequences, SequencesExt

CONSTANT Locks  \* smart locks of the account

VARIABLES
  mqttState,  \* connecting, connected, known: the data of the account are there
  waiting,    \* subscribeLocks
  sessions    \* the MQTT clients, this.client last: its link and the topics it subscribes

mqttVars == <<mqttState, waiting, sessions>>

MqttTypeOK ==
  /\ mqttState \in [connecting : BOOLEAN, connected : BOOLEAN, known : BOOLEAN]
  /\ waiting \subseteq Locks
  /\ sessions \in Seq([link : {"down", "up", "ended"}, topics : SUBSET Locks])

MqttInit ==
  /\ mqttState = [connecting |-> FALSE, connected |-> FALSE, known |-> FALSE]
  /\ waiting = {}
  /\ sessions = <<>>

-----------------------------------------------------------------------------
(* connect() with the data of the account, for the locks in waiting'. *)
ConnectMqtt ==
  LET needed == ~mqttState.connected /\ ~mqttState.connecting /\ waiting' # {}
  IN  /\ mqttState' = [mqttState EXCEPT !.known = TRUE, !.connecting = @ \/ needed]
      /\ sessions' = IF needed THEN Append(sessions, [link |-> "down", topics |-> {}]) ELSE sessions

\* Mutant: a lock that appears after connect() waits for the next one.
subscribeLater(lock) ==
  IF mqttState.connected
  THEN /\ sessions' = [sessions EXCEPT ![Len(sessions)].topics = @ \cup {lock}]
       /\ UNCHANGED <<mqttState, waiting>>
  ELSE /\ waiting' = waiting \cup {lock}
       /\ UNCHANGED <<mqttState, sessions>>
subscribeLock(lock) ==
  IF mqttState.connected
  THEN /\ sessions' = [sessions EXCEPT ![Len(sessions)].topics = @ \cup {lock}]
       /\ UNCHANGED <<mqttState, waiting>>
  ELSE /\ waiting' = waiting \cup {lock}
       /\ IF mqttState.known THEN ConnectMqtt ELSE UNCHANGED <<mqttState, sessions>>

LinkUp(i) ==
  /\ sessions[i].link = "down"
  /\ mqttState' = [mqttState EXCEPT !.connected = TRUE, !.connecting = FALSE]
  /\ waiting' = {}
  /\ sessions' = [sessions EXCEPT ![i].link = "up", ![Len(sessions)].topics = @ \cup waiting]

\* The close event: of a connection, of an attempt that failed, and of a client that was ended.
LinkDown(i) ==
  /\ mqttState' = [mqttState EXCEPT !.connected = FALSE]
  /\ sessions' = [sessions EXCEPT ![i].link = IF @ = "up" THEN "down" ELSE @]
  /\ UNCHANGED waiting

\* The error event; a refusal of the broker ends this.client.
LinkError(i, refused) ==
  /\ sessions[i].link = "down"
  /\ mqttState' = [mqttState EXCEPT !.connecting = FALSE]
  /\ sessions' = IF refused THEN [sessions EXCEPT ![Len(sessions)].link = "ended"] ELSE sessions
  /\ UNCHANGED waiting

\* A client that is still connecting is not ended.
ClosedMqtt == [mqttState EXCEPT !.connected = FALSE, !.connecting = @ /\ ~mqttState.connected]
EndedSessions ==
  IF mqttState.connected THEN [sessions EXCEPT ![Len(sessions)].link = "ended"] ELSE sessions

\* A refusal of any but the first connection is the fault "refusal".
MqttNext(faults) ==
  \E i \in DOMAIN sessions :
    \/ LinkUp(i) \/ LinkDown(i) \/ LinkError(i, FALSE)
    \/ /\ "refusal" \in faults \/ (Len(sessions) = 1 /\ sessions[i].topics = {})
       /\ LinkError(i, TRUE)
=============================================================================
