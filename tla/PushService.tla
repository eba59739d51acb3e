----------------------------- MODULE PushService -----------------------------
(*
 The push notifications: PushNotificationService (src/src/push/service.ts), which
 registers with Google, renews its credentials and owns one push client after the
 other, and PushClient (src/src/push/client.ts), which keeps a TLS connection with
 a heartbeat and connects again when it is lost.

 A client that is replaced loses its listeners and nothing else: it stays
 connected and goes on reconnecting.  close() of a client clears neither its
 heartbeat timer nor a registration the service awaits.  The actions are those of
 the timers and of the network; open() and close() are operators the composing
 module calls.  The end of a registration takes the listeners from the old client
 and then awaits PushClient.init, which loads the message definitions and does not
 fail; the new client is made after that.
*)
EXTENDS Integers, Sequences, SequencesExt

VARIABLES
  pushState,  \* the service: connecting and connected as it shows them, its timers, the
              \* registrations and renewals it awaits, those that load the definitions, whether it
              \* has credentials; asked: open() was called, close() not since
  clients     \* the push clients of the service, the current one last

pushVars == <<pushState, clients>>

PushTypeOK ==
  /\ pushState \in [connecting : BOOLEAN, connected : BOOLEAN, retryTimeout : BOOLEAN,
                    credentialsTimeout : BOOLEAN, opening : Nat, renewing : Nat,
                    loadingOpen : Nat, loadingRenewal : Nat, credentials : BOOLEAN, asked : BOOLEAN]
  /\ clients \in Seq([socket : {"none", "open", "loggedIn"}, heartbeat : BOOLEAN,
                      reconnect : BOOLEAN, listened : BOOLEAN])

PushInit ==
  /\ pushState = [connecting |-> FALSE, connected |-> FALSE, retryTimeout |-> FALSE,
                  credentialsTimeout |-> FALSE, opening |-> 0, renewing |-> 0,
                  loadingOpen |-> 0, loadingRenewal |-> 0, credentials |-> FALSE, asked |-> FALSE]
  /\ clients = <<>>

-----------------------------------------------------------------------------
(* PushClient *)

NewClient == [socket |-> "none", heartbeat |-> FALSE, reconnect |-> FALSE, listened |-> TRUE]

\* The heartbeat timer is left armed.  Mutant: the destroyed socket is kept.
initializeKept(c) == [c EXCEPT !.socket = "destroyed", !.reconnect = FALSE]
initialize(c) == [c EXCEPT !.socket = "none", !.reconnect = FALSE]
connect(c) == [initialize(c) EXCEPT !.socket = "open"]

\* The login response: the service hears of it while it listens.
LoginResponse(i) ==
  /\ clients[i].socket = "open"
  /\ clients' = [clients EXCEPT ![i].socket = "loggedIn", ![i].heartbeat = TRUE]
  /\ pushState' = IF clients[i].listened
                  THEN [pushState EXCEPT !.connected = TRUE, !.connecting = FALSE] ELSE pushState

SocketClose(i) ==
  /\ clients[i].socket # "none"
  /\ clients' = [clients EXCEPT ![i].socket = "none", ![i].heartbeat = FALSE, ![i].reconnect = TRUE]
  /\ pushState' = IF clients[i].listened
                  THEN [pushState EXCEPT !.connected = FALSE, !.connecting = FALSE] ELSE pushState

ReconnectTimeout(i) ==
  /\ clients[i].reconnect
  /\ clients' = [clients EXCEPT ![i] = connect(@)]
  /\ UNCHANGED pushState

\* Logged in, the heartbeat is sent and the timer set again; the timer of a closed
\* client connects it again.
HeartbeatTimeout(i) ==
  /\ clients[i].heartbeat /\ clients[i].socket # "loggedIn"
  /\ clients' = [clients EXCEPT ![i].heartbeat = FALSE, ![i].reconnect = TRUE]
  /\ UNCHANGED pushState

-----------------------------------------------------------------------------
(* PushNotificationService *)

open(p) ==
  IF p.connecting \/ p.connected THEN [p EXCEPT !.asked = TRUE]
  ELSE [p EXCEPT !.asked = TRUE, !.connecting = TRUE, !.opening = @ + 1]

\* _open with credentials, up to its await.  Mutant: the old client keeps its listeners.
ListenersKept(cs) == cs
Silenced(cs) == [i \in DOMAIN cs |-> IF i = Len(cs) THEN [cs[i] EXCEPT !.listened = FALSE] ELSE cs[i]]
Received(p) == [p EXCEPT !.credentials = TRUE, !.credentialsTimeout = TRUE]

\* The rest of it, which fails after it made the client if the credentials are gone by then.
WithClient(cs) ==
  Append(cs, IF pushState.credentials THEN connect(NewClient) ELSE [NewClient EXCEPT !.listened = FALSE])

Loading(p) == p.loadingOpen + p.loadingRenewal

\* The fault "slow_load": a registration ends while the definitions are loaded for another one.
Alone(faults) == Loading(pushState) = 0 \/ "slow_load" \in faults

Registered(faults) ==
  /\ pushState.opening > 0 /\ Alone(faults)
  /\ clients' = Silenced(clients)
  /\ pushState' = [Received(pushState) EXCEPT !.opening = @ - 1, !.loadingOpen = @ + 1]

LoadedOpen ==
  /\ pushState.loadingOpen > 0
  /\ clients' = WithClient(clients)
  /\ pushState' = [pushState EXCEPT !.loadingOpen = @ - 1, !.retryTimeout = ~pushState.credentials]

RegistrationFailed ==
  /\ pushState.opening > 0
  /\ pushState' = [pushState EXCEPT !.opening = @ - 1, !.connected = FALSE, !.connecting = FALSE,
                                    !.credentials = FALSE, !.retryTimeout = TRUE]
  /\ UNCHANGED clients

RetryTimeout ==
  /\ pushState.retryTimeout
  /\ pushState' = [open(pushState) EXCEPT !.retryTimeout = FALSE, !.asked = pushState.asked]
  /\ UNCHANGED clients

\* The timer is that of credentials that last for days: the renewal before it has ended.
CredentialsTimeout ==
  /\ pushState.credentialsTimeout /\ pushState.renewing = 0 /\ pushState.loadingRenewal = 0
  /\ pushState' = [pushState EXCEPT !.credentialsTimeout = FALSE, !.renewing = @ + 1]
  /\ UNCHANGED clients

Renewed(faults) ==
  /\ pushState.renewing > 0 /\ Alone(faults)
  /\ clients' = Silenced(clients)
  /\ pushState' = [Received(pushState) EXCEPT !.renewing = @ - 1, !.loadingRenewal = @ + 1]

LoadedRenewal ==
  /\ pushState.loadingRenewal > 0
  /\ clients' = WithClient(clients)
  /\ pushState' = [pushState EXCEPT !.loadingRenewal = @ - 1]

\* Nothing renews the credentials after that; the client goes on with the old ones.
RenewalFailed ==
  /\ pushState.renewing > 0
  /\ pushState' = [pushState EXCEPT !.renewing = @ - 1, !.connected = FALSE, !.connecting = FALSE,
                                    !.credentials = FALSE]
  /\ UNCHANGED clients

\* connecting is reset by the close event of a client that was logged in and listened to, and only then.
ClosedClients == [i \in DOMAIN clients |-> IF i = Len(clients) THEN initialize(clients[i]) ELSE clients[i]]
ClosedPush ==
  LET told == clients # <<>> /\ Last(clients).socket = "loggedIn" /\ Last(clients).listened
  IN  [pushState EXCEPT !.retryTimeout = FALSE, !.credentialsTimeout = FALSE, !.asked = FALSE,
                        !.connected = @ /\ ~told, !.connecting = @ /\ ~told]

PushNext(faults) ==
  \/ Registered(faults) \/ RegistrationFailed \/ LoadedOpen \/ RetryTimeout
  \/ CredentialsTimeout \/ Renewed(faults) \/ RenewalFailed \/ LoadedRenewal
  \/ \E i \in DOMAIN clients :
       LoginResponse(i) \/ SocketClose(i) \/ ReconnectTimeout(i) \/ HeartbeatTimeout(i)
=============================================================================
