-------------------------- MODULE CloudSessionProofs --------------------------
(***************************************************************************)
(* Proofs about the cloud side of EufySecurity, for every set of locks and *)
(* every bound: type correctness; and, while the application does not      *)
(* connect again after close() and the broker refuses only a first         *)
(* connection, that what is shown of the cloud is true, that the push      *)
(* connection is on its way and heard once, and that no lock is forgotten. *)
(*                                                                         *)
(* Each of the three parts has its invariant and lemmas on its operators;  *)
(* the steps of EufySecurity that touch several parts combine them.        *)
(***************************************************************************)
EXTENDS CloudSession, FiniteSetTheorems, SequenceTheorems, WellFoundedInduction, TLAPS

-----------------------------------------------------------------------------
(* The push clients *)

Client == [socket : {"none", "open", "loggedIn"}, heartbeat : BOOLEAN, reconnect : BOOLEAN,
           listened : BOOLEAN]

Service == [connecting : BOOLEAN, connected : BOOLEAN, retryTimeout : BOOLEAN,
            credentialsTimeout : BOOLEAN, opening : Nat, renewing : Nat,
            loadingOpen : Nat, loadingRenewal : Nat, credentials : BOOLEAN, asked : BOOLEAN]

PushTyped(p, cs) == p \in Service /\ cs \in Seq(Client)

\* The service listens to the current client, the last one, at most.
CurrentHeard(cs) == \A i \in DOMAIN cs : cs[i].listened => i = Len(cs)

\* The client it listens to has a socket or is about to: until close(), which initializes it.
HeardLives(cs) == \A i \in DOMAIN cs : cs[i].listened => Lives(cs[i])

\* A client is about to be made once at most, and none is listened to then.
OneLoads(p, cs) ==
  /\ Loading(p) <= 1 /\ p.renewing + p.loadingRenewal <= 1
  /\ Loading(p) > 0 => \A i \in DOMAIN cs : ~cs[i].listened

\* A registration, a client that is about to be made and to connect, or one that is listened to.
OnItsWay(p, cs) ==
  \/ p.opening > 0
  \/ Loading(p) > 0 /\ p.credentials
  \/ \E i \in DOMAIN cs : cs[i].listened

\* open() does nothing where the service shows a connection: it is on its way then.
PushOnItsWay(p, cs) ==
  /\ p.connecting \/ p.connected => OnItsWay(p, cs)
  /\ p.asked => OnItsWay(p, cs) \/ p.retryTimeout \/ p.loadingOpen > 0

PushAlone(p, cs) == CurrentHeard(cs) /\ OneLoads(p, cs)
PushSound(p, cs) == PushAlone(p, cs) /\ HeardLives(cs) /\ PushOnItsWay(p, cs)

LEMMA ClientTypes ==
  ASSUME NEW c \in Client
  PROVE  /\ initialize(c) \in Client /\ initialize(c).listened = c.listened
         /\ connect(c) \in Client /\ connect(c).listened = c.listened /\ Lives(connect(c))
BY DEF Client, initialize, connect, Lives

LEMMA NewClientTypes ==
  /\ NewClient \in Client /\ NewClient.listened
  /\ [NewClient EXCEPT !.listened = FALSE] \in Client
BY DEF Client, NewClient

\* The numbers of registrations and of renewals that are awaited.
LEMMA ServiceCounts ==
  ASSUME NEW p \in Service
  PROVE  /\ p.opening \in Nat /\ p.opening + 1 \in Nat /\ (p.opening > 0 => p.opening - 1 \in Nat)
         /\ p.renewing \in Nat /\ p.renewing + 1 \in Nat /\ (p.renewing > 0 => p.renewing - 1 \in Nat)
         /\ p.loadingOpen \in Nat /\ p.loadingOpen + 1 \in Nat
         /\ p.loadingRenewal \in Nat /\ p.loadingRenewal + 1 \in Nat
         /\ p.loadingOpen > 0 => p.loadingOpen - 1 \in Nat
         /\ p.loadingRenewal > 0 => p.loadingRenewal - 1 \in Nat
BY DEF Service

\* The clients change where they are: the one that is listened to lives on.
LEMMA OneClient ==
  ASSUME NEW cs \in Seq(Client), NEW i \in DOMAIN cs, NEW c \in Client,
         c.listened = cs[i].listened, NEW ds, ds = [cs EXCEPT ![i] = c]
  PROVE  /\ ds \in Seq(Client) /\ Len(ds) = Len(cs) /\ DOMAIN ds = DOMAIN cs
         /\ \A j \in DOMAIN cs : ds[j].listened = cs[j].listened
         /\ CurrentHeard(cs) => CurrentHeard(ds)
         /\ Lives(c) /\ HeardLives(cs) => HeardLives(ds)
<1>1. DOMAIN cs = 1 .. Len(cs) /\ Len(cs) \in Nat
  BY LenProperties
<1>2. /\ ds \in Seq(Client) /\ Len(ds) = Len(cs)
      /\ \A j \in 1 .. Len(cs) : ds[j] = IF j = i THEN c ELSE cs[j]
  BY <1>1, ExceptSeq
<1>3. DOMAIN ds = 1 .. Len(cs)
  BY <1>2, LenProperties
<1>4. CurrentHeard(cs) => CurrentHeard(ds)
  BY <1>1, <1>2, <1>3 DEF CurrentHeard
<1>5. Lives(c) /\ HeardLives(cs) => HeardLives(ds)
  BY <1>1, <1>2, <1>3 DEF HeardLives
<1>. QED BY <1>1, <1>2, <1>3, <1>4, <1>5

\* The current client loses its listeners.
LEMMA SilencedEffect ==
  ASSUME NEW cs \in Seq(Client)
  PROVE  /\ Silenced(cs) \in Seq(Client)
         /\ CurrentHeard(cs) => \A i \in DOMAIN Silenced(cs) : ~Silenced(cs)[i].listened
<1>. DEFINE n == Len(cs)
            ds == [i \in 1 .. n |-> IF i = n THEN [cs[i] EXCEPT !.listened = FALSE] ELSE cs[i]]
<1>1. DOMAIN cs = 1 .. n /\ n \in Nat /\ \A i \in 1 .. n : cs[i] \in Client
  BY LenProperties, ElementOfSeq
<1>2. ds = Silenced(cs)
  BY <1>1 DEF Silenced
<1>3. \A i \in 1 .. n : ds[i] \in Client /\ (CurrentHeard(cs) => ~ds[i].listened)
  BY <1>1 DEF CurrentHeard, Client
<1>4. ds \in [1 .. n -> Client] /\ DOMAIN ds = 1 .. n
  BY <1>3
<1>. HIDE DEF ds, n
<1>5. ds \in Seq(Client)
  BY <1>1, <1>4, SeqDef
<1>. QED BY <1>2, <1>3, <1>4, <1>5

\* A client is made behind the others: it is listened to if the credentials are still there.
LEMMA WithClientEffect ==
  ASSUME PushTyped(pushState, clients), NEW ds, ds = WithClient(clients)
  PROVE  /\ ds \in Seq(Client)
         /\ (\A i \in DOMAIN clients : ~clients[i].listened) =>
              /\ CurrentHeard(ds) /\ HeardLives(ds)
              /\ (\E i \in DOMAIN ds : ds[i].listened) <=> pushState.credentials
<1>. DEFINE n == Len(clients)
            c == IF pushState.credentials THEN connect(NewClient) ELSE [NewClient EXCEPT !.listened = FALSE]
<1>1. DOMAIN clients = 1 .. n /\ n \in Nat /\ clients \in Seq(Client)
  BY LenProperties DEF PushTyped
<1>2. c \in Client /\ (c.listened <=> pushState.credentials) /\ (c.listened => Lives(c))
  <2>1. pushState.credentials \in BOOLEAN
    BY DEF PushTyped, Service
  <2>2. ~[NewClient EXCEPT !.listened = FALSE].listened
    BY DEF NewClient
  <2>. QED BY <2>1, <2>2, ClientTypes, NewClientTypes
<1>3. ds = Append(clients, c)
  BY DEF WithClient
<1>. HIDE DEF c, n
<1>4. /\ ds \in Seq(Client) /\ Len(ds) = n + 1 /\ ds[n + 1] = c
      /\ \A i \in 1 .. n : ds[i] = clients[i]
  BY <1>1, <1>2, <1>3 DEF n
<1>5. DOMAIN ds = 1 .. n + 1
  BY <1>4, LenProperties
<1>. QED BY <1>1, <1>2, <1>4, <1>5 DEF CurrentHeard, HeardLives

\* open(): nothing is registered where the service takes itself to be connected, but then it is.
LEMMA OpenSound ==
  ASSUME NEW p, NEW cs, PushTyped(p, cs)
  PROVE  /\ PushTyped(open(p), cs)
         /\ PushAlone(p, cs) => PushAlone(open(p), cs)
         /\ PushSound(p, cs) => PushSound(open(p), cs)
<1>1. p \in Service /\ open(p) \in Service
  BY ServiceCounts DEF Service, PushTyped, open
<1>2. /\ open(p).loadingOpen = p.loadingOpen /\ open(p).loadingRenewal = p.loadingRenewal
      /\ open(p).renewing = p.renewing /\ open(p).credentials = p.credentials
      /\ p.opening \in Nat /\ (p.connecting \/ p.connected => open(p).opening = p.opening)
      /\ ~(p.connecting \/ p.connected) => open(p).opening > 0
  BY <1>1 DEF Service, open
<1>3. Loading(open(p)) = Loading(p)
  BY <1>2 DEF Loading
<1>4. OnItsWay(p, cs) => OnItsWay(open(p), cs)
  BY <1>2, <1>3 DEF OnItsWay
<1>5. PushSound(p, cs) => OnItsWay(open(p), cs)
  BY <1>2, <1>4 DEF PushSound, PushOnItsWay, OnItsWay
<1>6. PushAlone(p, cs) => PushAlone(open(p), cs)
  BY <1>2, <1>3 DEF PushAlone, OneLoads
<1>. QED BY <1>1, <1>5, <1>6 DEF PushTyped, PushSound, PushOnItsWay

\* close() of the service and of its current client.
LEMMA ClosedEffect ==
  ASSUME PushTyped(pushState, clients)
  PROVE  /\ PushTyped(ClosedPush, ClosedClients)
         /\ PushAlone(pushState, clients) => PushAlone(ClosedPush, ClosedClients)
<1>. DEFINE n == Len(clients)
            ds == ClosedClients
<1>1. DOMAIN clients = 1 .. n /\ n \in Nat /\ \A i \in 1 .. n : clients[i] \in Client
  BY LenProperties, ElementOfSeq DEF PushTyped
<1>2. ds = [i \in 1 .. n |-> IF i = n THEN initialize(clients[i]) ELSE clients[i]]
  BY <1>1 DEF ClosedClients
<1>3. ds \in [1 .. n -> Client] /\ \A i \in 1 .. n : ds[i].listened = clients[i].listened
  BY <1>1, <1>2, ClientTypes
<1>. HIDE DEF n, ds
<1>4. ds \in Seq(Client) /\ DOMAIN ds = 1 .. n /\ Len(ds) = n
  <2>1. ds \in Seq(Client)
    BY <1>1, <1>3, SeqDef
  <2>. QED BY <1>1, <1>3, <2>1, LenProperties
<1>5. /\ ClosedPush \in Service
      /\ ClosedPush.loadingOpen = pushState.loadingOpen /\ ClosedPush.renewing = pushState.renewing
      /\ ClosedPush.loadingRenewal = pushState.loadingRenewal
  <2>. DEFINE told == clients # <<>> /\ Last(clients).socket = "loggedIn" /\ Last(clients).listened
  <2>1. ClosedPush =
          [pushState EXCEPT !.retryTimeout = FALSE, !.credentialsTimeout = FALSE, !.asked = FALSE,
                            !.connected = @ /\ ~told, !.connecting = @ /\ ~told]
    BY DEF ClosedPush
  <2>2. told \in BOOLEAN /\ pushState \in Service
    <3>1. Last(clients).listened \in BOOLEAN \/ clients = <<>>
      BY <1>1 DEF Last, Client, n
    <3>. QED BY <3>1 DEF PushTyped
  <2>. HIDE DEF told
  <2>. QED BY <2>1, <2>2 DEF Service
<1>6. PushAlone(pushState, clients) => PushAlone(ClosedPush, ds)
  <2>1. Loading(ClosedPush) = Loading(pushState)
    BY <1>5 DEF Loading
  <2>. QED BY <1>1, <1>3, <1>4, <1>5, <2>1 DEF PushAlone, CurrentHeard, OneLoads, n
<1>. QED BY <1>4, <1>5, <1>6 DEF PushTyped, ds

\* What a step of the push connection keeps.
PushKept ==
  /\ PushTyped(pushState', clients')
  /\ "slow_load" \notin Faults =>
       /\ PushAlone(pushState, clients) => PushAlone(pushState', clients')
       /\ PushSound(pushState, clients) => PushSound(pushState', clients')

\* The steps of one client: the client keeps its listeners and lives.
LEMMA ClientStepKept ==
  ASSUME PushTyped(pushState, clients), NEW i \in DOMAIN clients,
         LoginResponse(i) \/ SocketClose(i) \/ ReconnectTimeout(i) \/ HeartbeatTimeout(i)
  PROVE  PushKept
<1>1. clients[i] \in Client /\ clients \in Seq(Client) /\ pushState \in Service
  BY LenProperties, ElementOfSeq DEF PushTyped
<1>2. PICK c \in Client : /\ c.listened = clients[i].listened /\ Lives(c)
                          /\ clients' = [clients EXCEPT ![i] = c]
  <2>1. CASE LoginResponse(i)
    <3>. DEFINE c == [clients[i] EXCEPT !.socket = "loggedIn", !.heartbeat = TRUE]
    <3>1. c \in Client /\ c.listened = clients[i].listened /\ Lives(c)
      BY <1>1 DEF Client, Lives
    <3>2. clients' = [clients EXCEPT ![i] = c]
      BY <1>1, <2>1 DEF LoginResponse, Client
    <3>. QED BY <3>1, <3>2
  <2>2. CASE SocketClose(i)
    <3>. DEFINE c == [clients[i] EXCEPT !.socket = "none", !.heartbeat = FALSE, !.reconnect = TRUE]
    <3>1. c \in Client /\ c.listened = clients[i].listened /\ Lives(c)
      BY <1>1 DEF Client, Lives
    <3>2. clients' = [clients EXCEPT ![i] = c]
      BY <1>1, <2>2 DEF SocketClose, Client
    <3>. QED BY <3>1, <3>2
  <2>3. CASE ReconnectTimeout(i)
    BY <1>1, <2>3, ClientTypes DEF ReconnectTimeout
  <2>4. CASE HeartbeatTimeout(i)
    <3>. DEFINE c == [clients[i] EXCEPT !.heartbeat = FALSE, !.reconnect = TRUE]
    <3>1. c \in Client /\ c.listened = clients[i].listened /\ Lives(c)
      BY <1>1 DEF Client, Lives
    <3>2. clients' = [clients EXCEPT ![i] = c]
      BY <1>1, <2>4 DEF HeartbeatTimeout, Client
    <3>. QED BY <3>1, <3>2
  <2>. QED BY <2>1, <2>2, <2>3, <2>4
<1>3. /\ clients' \in Seq(Client) /\ DOMAIN clients' = DOMAIN clients
      /\ \A j \in DOMAIN clients : clients'[j].listened = clients[j].listened
      /\ CurrentHeard(clients) => CurrentHeard(clients')
      /\ HeardLives(clients) => HeardLives(clients')
  BY <1>1, <1>2, OneClient
<1>4. /\ pushState' \in Service
      /\ pushState'.opening = pushState.opening /\ pushState'.renewing = pushState.renewing
      /\ pushState'.loadingOpen = pushState.loadingOpen
      /\ pushState'.loadingRenewal = pushState.loadingRenewal
      /\ pushState'.credentials = pushState.credentials /\ pushState'.asked = pushState.asked
      /\ pushState'.retryTimeout = pushState.retryTimeout
      /\ pushState'.connecting \/ pushState'.connected =>
           pushState.connecting \/ pushState.connected \/ clients[i].listened
  <2>1. \/ pushState' = pushState
        \/ /\ pushState' = [pushState EXCEPT !.connected = TRUE, !.connecting = FALSE]
           /\ clients[i].listened
        \/ pushState' = [pushState EXCEPT !.connected = FALSE, !.connecting = FALSE]
    BY DEF LoginResponse, SocketClose, ReconnectTimeout, HeartbeatTimeout
  <2>. QED BY <1>1, <2>1 DEF Service
<1>5. Loading(pushState') = Loading(pushState)
  BY <1>4 DEF Loading
<1>6. OnItsWay(pushState, clients) \/ clients[i].listened => OnItsWay(pushState', clients')
  BY <1>3, <1>4, <1>5 DEF OnItsWay
<1>7. PushAlone(pushState, clients) => PushAlone(pushState', clients')
  BY <1>3, <1>4, <1>5 DEF PushAlone, OneLoads
<1>8. PushOnItsWay(pushState, clients) => PushOnItsWay(pushState', clients')
  BY <1>4, <1>6 DEF PushOnItsWay
<1>. QED BY <1>3, <1>4, <1>7, <1>8 DEF PushKept, PushTyped, PushSound

\* A registration or a renewal ends with credentials: the current client falls silent and the
\* definitions are loaded for the next one.
LEMMA RegisteredKept ==
  ASSUME PushTyped(pushState, clients), Registered(Faults) \/ Renewed(Faults)
  PROVE  PushKept
<1>1. /\ clients \in Seq(Client) /\ pushState \in Service /\ clients' = Silenced(clients)
      /\ Alone(Faults)
  BY DEF PushTyped, Registered, Renewed
<1>2. /\ clients' \in Seq(Client)
      /\ CurrentHeard(clients) => \A i \in DOMAIN clients' : ~clients'[i].listened
  BY <1>1, SilencedEffect
<1>3. /\ pushState' \in Service /\ pushState'.credentials
      /\ pushState'.renewing + pushState'.loadingRenewal = pushState.renewing + pushState.loadingRenewal
      /\ Loading(pushState') = Loading(pushState) + 1 /\ Loading(pushState) \in Nat
  <2>1. CASE Registered(Faults)
    <3>. DEFINE n == pushState.opening - 1
                m == pushState.loadingOpen + 1
    <3>1. n \in Nat /\ m \in Nat
      BY <1>1, <2>1, ServiceCounts DEF Registered
    <3>2. pushState' = [pushState EXCEPT !.credentials = TRUE, !.credentialsTimeout = TRUE,
                                         !.opening = n, !.loadingOpen = m]
      BY <1>1, <2>1 DEF Registered, Received, Service
    <3>. HIDE DEF n, m
    <3>3. pushState' \in Service
      BY <1>1, <3>1, <3>2 DEF Service
    <3>4. /\ pushState'.loadingOpen = m /\ pushState'.loadingRenewal = pushState.loadingRenewal
          /\ pushState'.renewing = pushState.renewing /\ pushState'.credentials
      BY <1>1, <3>2 DEF Service
    <3>5. m = pushState.loadingOpen + 1
      BY DEF m
    <3>6. pushState.loadingOpen \in Nat /\ pushState.loadingRenewal \in Nat
      BY <1>1, ServiceCounts
    <3>. QED BY <3>3, <3>4, <3>5, <3>6 DEF Loading
  <2>2. CASE Renewed(Faults)
    <3>. DEFINE n == pushState.renewing - 1
                m == pushState.loadingRenewal + 1
    <3>1. n \in Nat /\ m \in Nat
      BY <1>1, <2>2, ServiceCounts DEF Renewed
    <3>2. pushState' = [pushState EXCEPT !.credentials = TRUE, !.credentialsTimeout = TRUE,
                                         !.renewing = n, !.loadingRenewal = m]
      BY <1>1, <2>2 DEF Renewed, Received, Service
    <3>. HIDE DEF n, m
    <3>3. pushState' \in Service
      BY <1>1, <3>1, <3>2 DEF Service
    <3>4. /\ pushState'.loadingRenewal = m /\ pushState'.loadingOpen = pushState.loadingOpen
          /\ pushState'.renewing = n /\ pushState'.credentials
      BY <1>1, <3>2 DEF Service
    <3>5. m = pushState.loadingRenewal + 1 /\ n = pushState.renewing - 1
      BY DEF m, n
    <3>6. pushState.loadingOpen \in Nat /\ pushState.loadingRenewal \in Nat /\ pushState.renewing \in Nat
      BY <1>1, ServiceCounts
    <3>. QED BY <3>3, <3>4, <3>5, <3>6 DEF Loading
  <2>. QED BY <2>1, <2>2
<1>4. ASSUME PushAlone(pushState, clients), "slow_load" \notin Faults
      PROVE  PushSound(pushState', clients')
  <2>1. Loading(pushState') = 1
    BY <1>1, <1>3, <1>4 DEF Alone
  <2>2. \A i \in DOMAIN clients' : ~clients'[i].listened
    BY <1>2, <1>4 DEF PushAlone
  <2>3. PushAlone(pushState', clients') /\ HeardLives(clients')
    BY <1>3, <1>4, <2>1, <2>2 DEF PushAlone, CurrentHeard, OneLoads, HeardLives
  <2>4. OnItsWay(pushState', clients')
    BY <1>3, <2>1 DEF OnItsWay
  <2>. QED BY <2>3, <2>4 DEF PushSound, PushOnItsWay
<1>. QED BY <1>2, <1>3, <1>4 DEF PushKept, PushTyped, PushSound

\* The definitions are loaded and the client is made.
LEMMA LoadedKept ==
  ASSUME PushTyped(pushState, clients), LoadedOpen \/ LoadedRenewal
  PROVE  PushKept
<1>1. clients \in Seq(Client) /\ pushState \in Service /\ clients' = WithClient(clients)
  BY DEF PushTyped, LoadedOpen, LoadedRenewal
<1>2. /\ clients' \in Seq(Client)
      /\ (\A i \in DOMAIN clients : ~clients[i].listened) =>
           /\ CurrentHeard(clients') /\ HeardLives(clients')
           /\ (\E i \in DOMAIN clients' : clients'[i].listened) <=> pushState.credentials
  BY <1>1, WithClientEffect
<1>3. /\ pushState' \in Service
      /\ pushState'.opening = pushState.opening /\ pushState'.credentials = pushState.credentials
      /\ pushState'.asked = pushState.asked
      /\ pushState'.connecting = pushState.connecting /\ pushState'.connected = pushState.connected
      /\ Loading(pushState') = Loading(pushState) - 1 /\ Loading(pushState) \in Nat \ {0}
      /\ pushState'.renewing + pushState'.loadingRenewal <= pushState.renewing + pushState.loadingRenewal
      /\ pushState.loadingOpen \in Nat /\ pushState.loadingRenewal \in Nat
      /\ pushState'.loadingOpen \in Nat /\ pushState'.loadingRenewal \in Nat
      /\ \/ ~pushState.credentials => pushState'.retryTimeout
         \/ pushState'.retryTimeout = pushState.retryTimeout /\ pushState.loadingRenewal > 0
  <2>1. CASE LoadedOpen
    <3>. DEFINE m == pushState.loadingOpen - 1
                retry == ~pushState.credentials
    <3>1. m \in Nat /\ retry \in BOOLEAN /\ pushState.loadingOpen > 0
      BY <1>1, <2>1, ServiceCounts DEF LoadedOpen
    <3>2. pushState' = [pushState EXCEPT !.loadingOpen = m, !.retryTimeout = retry]
      BY <1>1, <2>1 DEF LoadedOpen, Service
    <3>3. pushState' \in Service
      <4>. HIDE DEF m, retry
      <4>. QED BY <1>1, <3>1, <3>2 DEF Service
    <3>4. /\ pushState'.opening = pushState.opening /\ pushState'.credentials = pushState.credentials
          /\ pushState'.asked = pushState.asked
          /\ pushState'.connecting = pushState.connecting /\ pushState'.connected = pushState.connected
          /\ pushState'.loadingOpen = m /\ pushState'.loadingRenewal = pushState.loadingRenewal
          /\ pushState'.renewing = pushState.renewing /\ pushState'.retryTimeout = retry
      <4>. HIDE DEF m, retry
      <4>. QED BY <1>1, <3>2 DEF Service
    <3>5. pushState'.renewing + pushState'.loadingRenewal = pushState.renewing + pushState.loadingRenewal
      BY <3>4
    <3>6. pushState.renewing + pushState.loadingRenewal \in Nat /\ pushState.loadingRenewal \in Nat
      BY <1>1, ServiceCounts
    <3>7. /\ Loading(pushState') = Loading(pushState) - 1 /\ Loading(pushState) \in Nat \ {0}
          /\ pushState.loadingOpen \in Nat
      <4>1. pushState.loadingOpen \in Nat
        BY <1>1, ServiceCounts
      <4>. QED BY <3>1, <3>4, <3>6, <4>1 DEF Loading
    <3>8. pushState'.renewing + pushState'.loadingRenewal <= pushState.renewing + pushState.loadingRenewal
      BY <3>5, <3>6
    <3>9. ~pushState.credentials => pushState'.retryTimeout
      BY <3>4
    <3>. HIDE DEF m, retry
    <3>. QED BY <3>1, <3>3, <3>4, <3>6, <3>7, <3>8, <3>9
  <2>2. CASE LoadedRenewal
    <3>. DEFINE m == pushState.loadingRenewal - 1
    <3>1. m \in Nat /\ pushState.loadingRenewal > 0
      BY <1>1, <2>2, ServiceCounts DEF LoadedRenewal
    <3>2. pushState' = [pushState EXCEPT !.loadingRenewal = m]
      BY <1>1, <2>2 DEF LoadedRenewal, Service
    <3>3. pushState' \in Service
      <4>. HIDE DEF m
      <4>. QED BY <1>1, <3>1, <3>2 DEF Service
    <3>4. /\ pushState'.opening = pushState.opening /\ pushState'.credentials = pushState.credentials
          /\ pushState'.asked = pushState.asked
          /\ pushState'.connecting = pushState.connecting /\ pushState'.connected = pushState.connected
          /\ pushState'.loadingRenewal = m /\ pushState'.loadingOpen = pushState.loadingOpen
          /\ pushState'.renewing = pushState.renewing
          /\ pushState'.retryTimeout = pushState.retryTimeout
      <4>. HIDE DEF m
      <4>. QED BY <1>1, <3>2 DEF Service
    <3>5. /\ pushState.renewing \in Nat /\ pushState.loadingRenewal \in Nat
          /\ pushState.loadingOpen \in Nat
      BY <1>1, ServiceCounts
    <3>6. /\ Loading(pushState') = Loading(pushState) - 1 /\ Loading(pushState) \in Nat \ {0}
          /\ pushState'.renewing + pushState'.loadingRenewal <= pushState.renewing + pushState.loadingRenewal
      BY <3>1, <3>4, <3>5 DEF Loading
    <3>. HIDE DEF m
    <3>. QED BY <3>1, <3>3, <3>4, <3>5, <3>6
  <2>. QED BY <2>1, <2>2
<1>4. ASSUME PushAlone(pushState, clients)
      PROVE  /\ PushAlone(pushState', clients') /\ HeardLives(clients')
             /\ Loading(pushState) = 1
             /\ \A i \in DOMAIN clients : ~clients[i].listened
             /\ (\E i \in DOMAIN clients' : clients'[i].listened) <=> pushState.credentials
  <2>1. /\ Loading(pushState) = 1 /\ Loading(pushState') = 0
        /\ \A i \in DOMAIN clients : ~clients[i].listened
    BY <1>3, <1>4 DEF PushAlone, OneLoads
  <2>2. /\ CurrentHeard(clients') /\ HeardLives(clients')
        /\ (\E i \in DOMAIN clients' : clients'[i].listened) <=> pushState.credentials
    BY <1>2, <2>1
  <2>3. OneLoads(pushState', clients')
    <3>1. pushState'.renewing \in Nat /\ pushState.renewing \in Nat
      BY <1>1, <1>3, ServiceCounts
    <3>. QED BY <1>3, <1>4, <2>1, <3>1 DEF PushAlone, OneLoads
  <2>. QED BY <2>1, <2>2, <2>3 DEF PushAlone
<1>5. ASSUME PushSound(pushState, clients)
      PROVE  PushOnItsWay(pushState', clients')
  <2>1. PushAlone(pushState, clients) /\ PushOnItsWay(pushState, clients)
    BY <1>5 DEF PushSound
  <2>2. OnItsWay(pushState, clients) => OnItsWay(pushState', clients')
    BY <1>3, <1>4, <2>1 DEF OnItsWay
  <2>3. CASE pushState.credentials
    BY <1>4, <2>1, <2>3 DEF PushOnItsWay, OnItsWay
  <2>4. CASE ~pushState.credentials
    <3>1. CASE pushState'.retryTimeout
      BY <1>3, <2>1, <2>2, <3>1 DEF PushOnItsWay
    <3>2. CASE pushState'.retryTimeout = pushState.retryTimeout /\ pushState.loadingRenewal > 0
      <4>1. pushState.loadingOpen = 0
        BY <1>3, <1>4, <2>1, <3>2 DEF Loading
      <4>. QED BY <1>3, <2>1, <2>2, <3>2, <4>1 DEF PushOnItsWay
    <3>. QED BY <1>3, <2>4, <3>1, <3>2
  <2>. QED BY <1>1, <2>3, <2>4 DEF Service
<1>. QED BY <1>2, <1>3, <1>4, <1>5 DEF PushKept, PushTyped, PushSound

\* A registration or a renewal fails: nothing is shown any more, and open() tries again.
LEMMA FailedKept ==
  ASSUME PushTyped(pushState, clients), RegistrationFailed \/ RenewalFailed
  PROVE  PushKept
<1>1. clients \in Seq(Client) /\ pushState \in Service /\ clients' = clients
  BY DEF PushTyped, RegistrationFailed, RenewalFailed
<1>2. /\ pushState' \in Service /\ ~pushState'.connecting /\ ~pushState'.connected
      /\ pushState'.loadingOpen = pushState.loadingOpen /\ pushState.loadingOpen \in Nat
      /\ pushState'.loadingRenewal = pushState.loadingRenewal /\ pushState.loadingRenewal \in Nat
      /\ pushState.renewing \in Nat /\ pushState'.renewing <= pushState.renewing
      /\ pushState'.asked = pushState.asked
      /\ \/ pushState'.retryTimeout
         \/ /\ pushState'.opening = pushState.opening /\ pushState.renewing > 0
            /\ pushState'.retryTimeout = pushState.retryTimeout
  <2>1. CASE RegistrationFailed
    <3>. DEFINE m == pushState.opening - 1
    <3>1. m \in Nat /\ m # pushState.opening
      BY <1>1, <2>1, ServiceCounts DEF RegistrationFailed
    <3>2. pushState' = [pushState EXCEPT !.opening = m, !.connected = FALSE, !.connecting = FALSE,
                                         !.credentials = FALSE, !.retryTimeout = TRUE]
      BY <1>1, <2>1 DEF RegistrationFailed, Service
    <3>. HIDE DEF m
    <3>3. pushState' \in Service
      BY <1>1, <3>1, <3>2 DEF Service
    <3>4. /\ ~pushState'.connecting /\ ~pushState'.connected
          /\ pushState'.loadingOpen = pushState.loadingOpen
          /\ pushState'.loadingRenewal = pushState.loadingRenewal
          /\ pushState'.renewing = pushState.renewing /\ pushState'.asked = pushState.asked
          /\ pushState'.retryTimeout /\ pushState'.opening = m
      BY <1>1, <3>2 DEF Service
    <3>5. /\ pushState.renewing \in Nat /\ pushState.loadingRenewal \in Nat
          /\ pushState.loadingOpen \in Nat
      BY <1>1, ServiceCounts
    <3>. QED BY <3>3, <3>4, <3>5
  <2>2. CASE RenewalFailed
    <3>. DEFINE m == pushState.renewing - 1
    <3>1. m \in Nat /\ m < pushState.renewing /\ pushState.renewing > 0
      BY <1>1, <2>2, ServiceCounts DEF RenewalFailed
    <3>2. pushState' = [pushState EXCEPT !.renewing = m, !.connected = FALSE, !.connecting = FALSE,
                                         !.credentials = FALSE]
      BY <1>1, <2>2 DEF RenewalFailed, Service
    <3>. HIDE DEF m
    <3>3. pushState' \in Service
      BY <1>1, <3>1, <3>2 DEF Service
    <3>4. /\ ~pushState'.connecting /\ ~pushState'.connected
          /\ pushState'.loadingOpen = pushState.loadingOpen
          /\ pushState'.loadingRenewal = pushState.loadingRenewal
          /\ pushState'.renewing = m /\ pushState'.asked = pushState.asked
          /\ pushState'.retryTimeout = pushState.retryTimeout /\ pushState'.opening = pushState.opening
      BY <1>1, <3>2 DEF Service
    <3>5. /\ pushState.renewing \in Nat /\ pushState.loadingRenewal \in Nat
          /\ pushState.loadingOpen \in Nat
      BY <1>1, ServiceCounts
    <3>6. m <= pushState.renewing
      BY <3>1, <3>5
    <3>. QED BY <3>1, <3>3, <3>4, <3>5, <3>6
  <2>. QED BY <2>1, <2>2
<1>3. Loading(pushState') = Loading(pushState)
  BY <1>2 DEF Loading
<1>4. PushAlone(pushState, clients) => PushAlone(pushState', clients')
  BY <1>1, <1>2, <1>3 DEF PushAlone, OneLoads, Service
<1>5. ASSUME PushSound(pushState, clients), pushState.asked, ~pushState'.retryTimeout
      PROVE  OnItsWay(pushState', clients') \/ pushState'.loadingOpen > 0
  <2>1. pushState.loadingRenewal = 0
    BY <1>2, <1>5 DEF PushSound, PushAlone, OneLoads
  <2>. QED BY <1>1, <1>2, <1>5, <2>1 DEF PushSound, PushOnItsWay, OnItsWay, Loading
<1>6. PushSound(pushState, clients) => PushOnItsWay(pushState', clients')
  BY <1>2, <1>5 DEF PushOnItsWay
<1>. QED BY <1>1, <1>2, <1>4, <1>6 DEF PushKept, PushTyped, PushSound

\* The timers of the service: open() again, or a renewal of the credentials.
LEMMA TimeoutKept ==
  ASSUME PushTyped(pushState, clients), RetryTimeout \/ CredentialsTimeout
  PROVE  PushKept
<1>1. clients \in Seq(Client) /\ pushState \in Service /\ clients' = clients
  BY DEF PushTyped, RetryTimeout, CredentialsTimeout
<1>2. CASE RetryTimeout
  <2>1. /\ pushState' \in Service /\ pushState'.asked = pushState.asked
        /\ pushState'.loadingOpen = pushState.loadingOpen
        /\ pushState'.loadingRenewal = pushState.loadingRenewal
        /\ pushState'.renewing = pushState.renewing /\ pushState'.credentials = pushState.credentials
        /\ pushState.connecting \/ pushState.connected => pushState'.opening = pushState.opening
        /\ ~(pushState.connecting \/ pushState.connected) => pushState'.opening > 0
    <3>1. pushState' = IF pushState.connecting \/ pushState.connected
                       THEN [pushState EXCEPT !.retryTimeout = FALSE]
                       ELSE [pushState EXCEPT !.retryTimeout = FALSE, !.connecting = TRUE,
                                              !.opening = pushState.opening + 1]
      BY <1>1, <1>2 DEF Service, RetryTimeout, open
    <3>2. pushState.opening + 1 \in Nat /\ pushState.opening + 1 > 0
      BY <1>1, ServiceCounts
    <3>3. CASE pushState.connecting \/ pushState.connected
      BY <1>1, <3>1, <3>3 DEF Service
    <3>4. CASE ~(pushState.connecting \/ pushState.connected)
      <4>. DEFINE n == pushState.opening + 1
      <4>1. pushState' = [pushState EXCEPT !.retryTimeout = FALSE, !.connecting = TRUE, !.opening = n]
        BY <3>1, <3>4
      <4>2. n \in Nat /\ n > 0
        BY <3>2
      <4>. HIDE DEF n
      <4>. QED BY <1>1, <3>4, <4>1, <4>2 DEF Service
    <3>. QED BY <3>3, <3>4
  <2>2. Loading(pushState') = Loading(pushState)
    BY <2>1 DEF Loading
  <2>3. PushAlone(pushState, clients) => PushAlone(pushState', clients')
    BY <1>1, <2>1, <2>2 DEF PushAlone, OneLoads
  <2>4. PushSound(pushState, clients) => OnItsWay(pushState', clients')
    BY <1>1, <2>1, <2>2 DEF PushSound, PushOnItsWay, OnItsWay
  <2>. QED BY <1>1, <2>1, <2>3, <2>4 DEF PushKept, PushTyped, PushSound, PushOnItsWay
<1>3. CASE CredentialsTimeout
  <2>1. /\ pushState' \in Service /\ pushState'.asked = pushState.asked
        /\ pushState'.opening = pushState.opening
        /\ pushState'.connecting = pushState.connecting /\ pushState'.connected = pushState.connected
        /\ pushState'.loadingOpen = pushState.loadingOpen
        /\ pushState'.loadingRenewal = 0 /\ pushState.loadingRenewal = 0 /\ pushState'.renewing = 1
        /\ pushState'.retryTimeout = pushState.retryTimeout
        /\ pushState'.credentials = pushState.credentials
    <3>1. /\ pushState.renewing = 0 /\ pushState.loadingRenewal = 0
          /\ pushState' = [pushState EXCEPT !.credentialsTimeout = FALSE, !.renewing = 1]
      BY <1>1, <1>3 DEF Service, CredentialsTimeout
    <3>. QED BY <1>1, <3>1 DEF Service
  <2>2. Loading(pushState') = Loading(pushState)
    BY <2>1 DEF Loading
  <2>3. PushAlone(pushState, clients) => PushAlone(pushState', clients')
    BY <1>1, <2>1, <2>2 DEF PushAlone, OneLoads
  <2>4. PushOnItsWay(pushState, clients) => PushOnItsWay(pushState', clients')
    BY <1>1, <2>1, <2>2 DEF PushOnItsWay, OnItsWay
  <2>. QED BY <1>1, <2>1, <2>3, <2>4 DEF PushKept, PushTyped, PushSound
<1>. QED BY <1>2, <1>3

\* The timers and the network of the push connection.
LEMMA PushNextKept ==
  ASSUME PushTyped(pushState, clients), PushNext(Faults)
  PROVE  PushKept
BY RegisteredKept, LoadedKept, FailedKept, TimeoutKept, ClientStepKept DEF PushNext

-----------------------------------------------------------------------------
(* The MQTT clients *)

Link == [link : {"down", "up", "ended"}, topics : SUBSET Locks]
Links == DOMAIN sessions

MqttTyped ==
  /\ mqttState \in [connecting : BOOLEAN, connected : BOOLEAN, known : BOOLEAN]
  /\ waiting \subseteq Locks /\ sessions \in Seq(Link)
  /\ mqttState.connected => sessions # <<>>

\* The broker ends the first client only, which no lock is subscribed with yet.
EndedFirst == \A i \in Links : sessions[i].link = "ended" => i = 1 /\ sessions[i].topics = {}

\* What the service shows of its connection is true of some client.
LinksTold ==
  /\ mqttState.connected => waiting = {} /\ \E i \in Links : sessions[i].link = "up"
  /\ mqttState.connecting => \E i \in Links : sessions[i].link = "down"

\* A lock that waits waits for a client that may connect yet.
WaitingServed ==
  mqttState.known /\ waiting # {} =>
    \/ \E i \in Links : sessions[i].link = "down"
    \/ sessions # <<>> /\ sessions[Len(sessions)].link = "ended"

NoneForgotten ==
  \A lock \in locks :
    lock \in waiting \/ \E i \in Links : lock \in sessions[i].topics /\ sessions[i].link # "ended"

MqttServed == EndedFirst /\ LinksTold /\ WaitingServed /\ NoneForgotten

LEMMA LinkTypes ==
  ASSUME NEW ss \in Seq(Link)
  PROVE  /\ DOMAIN ss = 1 .. Len(ss) /\ Len(ss) \in Nat /\ \A i \in 1 .. Len(ss) : ss[i] \in Link
         /\ ss # <<>> => Len(ss) \in 1 .. Len(ss)
<1>1. DOMAIN ss = 1 .. Len(ss) /\ Len(ss) \in Nat /\ \A i \in 1 .. Len(ss) : ss[i] \in Link
  BY LenProperties, ElementOfSeq
<1>2. ss # <<>> => Len(ss) # 0
  OBVIOUS
<1>. QED BY <1>1, <1>2

\* One client changes.
LEMMA OneLink ==
  ASSUME NEW ss \in Seq(Link), NEW i \in 1 .. Len(ss), NEW l \in Link
  PROVE  LET ts == [ss EXCEPT ![i] = l]
         IN  /\ ts \in Seq(Link) /\ Len(ts) = Len(ss)
             /\ \A j \in 1 .. Len(ss) : ts[j] = IF j = i THEN l ELSE ss[j]
BY ExceptSeq

LEMMA LinkUpEffect ==
  ASSUME MqttTyped, NEW i \in Links, LinkUp(i)
  PROVE  LET n == Len(sessions)
         IN  /\ sessions' \in Seq(Link) /\ Len(sessions') = n /\ n \in 1 .. n
             /\ \A j \in 1 .. n :
                  /\ sessions'[j].link = IF j = i THEN "up" ELSE sessions[j].link
                  /\ sessions'[j].topics = IF j = n THEN sessions[j].topics \cup waiting
                                           ELSE sessions[j].topics
<1>. DEFINE n == Len(sessions)
            up == [sessions[i] EXCEPT !.link = "up"]
            half == [sessions EXCEPT ![i] = up]
            last == [half[n] EXCEPT !.topics = @ \cup waiting]
            all == [half EXCEPT ![n] = last]
<1>1. i \in 1 .. n /\ n \in 1 .. n /\ \A j \in 1 .. n : sessions[j] \in Link
  BY LinkTypes DEF MqttTyped, Links
<1>2. up \in Link /\ up.link = "up" /\ up.topics = sessions[i].topics
  BY <1>1 DEF Link
<1>3. sessions' = all
  BY DEF LinkUp
<1>. HIDE DEF up
<1>4. /\ half \in Seq(Link) /\ Len(half) = n
      /\ \A j \in 1 .. n : half[j] = IF j = i THEN up ELSE sessions[j]
  BY <1>1, <1>2, OneLink DEF MqttTyped
<1>. HIDE DEF half
<1>5. last \in Link /\ last.link = half[n].link /\ last.topics = half[n].topics \cup waiting
  <2>1. half[n] \in Link
    BY <1>1, <1>2, <1>4
  <2>. HIDE DEF n
  <2>. QED BY <2>1 DEF Link, MqttTyped
<1>. HIDE DEF last, n
<1>6. /\ all \in Seq(Link) /\ Len(all) = n
      /\ \A j \in 1 .. n : all[j] = IF j = n THEN last ELSE half[j]
  BY <1>1, <1>4, <1>5, OneLink
<1>. HIDE DEF all
<1>7. \A j \in 1 .. n :
        /\ all[j].link = IF j = i THEN "up" ELSE sessions[j].link
        /\ all[j].topics = IF j = n THEN sessions[j].topics \cup waiting ELSE sessions[j].topics
  BY <1>1, <1>2, <1>4, <1>5, <1>6
<1>. QED BY <1>1, <1>3, <1>6, <1>7 DEF n

\* One client comes up, goes down or is ended, and keeps its topics.
LEMMA LinkEffect ==
  ASSUME MqttTyped, NEW i \in 1 .. Len(sessions), NEW link \in {"down", "up", "ended"},
         sessions' = [sessions EXCEPT ![i].link = link]
  PROVE  /\ sessions' \in Seq(Link) /\ Len(sessions') = Len(sessions)
         /\ \A j \in 1 .. Len(sessions) :
              /\ sessions'[j].link = IF j = i THEN link ELSE sessions[j].link
              /\ sessions'[j].topics = sessions[j].topics
<1>. DEFINE l == [sessions[i] EXCEPT !.link = link]
<1>1. \A j \in 1 .. Len(sessions) : sessions[j] \in Link
  BY LinkTypes DEF MqttTyped
<1>2. l \in Link /\ l.link = link /\ l.topics = sessions[i].topics
  BY <1>1 DEF Link
<1>. HIDE DEF l
<1>3. sessions' = [sessions EXCEPT ![i] = l]
  BY DEF l
<1>4. /\ sessions' \in Seq(Link) /\ Len(sessions') = Len(sessions)
      /\ \A j \in 1 .. Len(sessions) : sessions'[j] = IF j = i THEN l ELSE sessions[j]
  <2>1. sessions \in Seq(Link)
    BY DEF MqttTyped
  <2>. QED BY <1>2, <1>3, <2>1, OneLink
<1>. QED BY <1>2, <1>4

\* connect(): a client more, where none is connected or about to and a lock waits.
LEMMA ConnectMqttEffect ==
  ASSUME MqttTyped, ConnectMqtt, waiting' \subseteq Locks
  PROVE  /\ MqttTyped'
         /\ mqttState'.known /\ mqttState'.connected = mqttState.connected
         /\ \/ /\ sessions' = sessions /\ mqttState'.connecting = mqttState.connecting
               /\ waiting' # {} => mqttState.connecting \/ mqttState.connected
            \/ /\ ~mqttState.connected /\ Links' = Links \cup {Len(sessions) + 1}
               /\ \A j \in Links : sessions'[j] = sessions[j]
               /\ sessions'[Len(sessions) + 1].link = "down"
<1>. DEFINE needed == ~mqttState.connected /\ ~mqttState.connecting /\ waiting' # {}
            new == [link |-> "down", topics |-> {}]
            n == Len(sessions)
<1>1. n \in Nat /\ Links = 1 .. n /\ \A j \in 1 .. n : sessions[j] \in Link
  BY LinkTypes DEF MqttTyped, Links
<1>2. new \in Link
  BY DEF Link
<1>3. /\ mqttState' = [mqttState EXCEPT !.known = TRUE, !.connecting = @ \/ needed]
      /\ sessions' = IF needed THEN Append(sessions, new) ELSE sessions
  BY DEF ConnectMqtt
<1>4. needed \in BOOLEAN
  OBVIOUS
<1>5. /\ mqttState' \in [connecting : BOOLEAN, connected : BOOLEAN, known : BOOLEAN]
      /\ mqttState'.known /\ mqttState'.connected = mqttState.connected
      /\ mqttState'.connecting = (mqttState.connecting \/ needed)
  <2>. HIDE DEF needed
  <2>. QED BY <1>3, <1>4 DEF MqttTyped
<1>6. CASE needed
  <2>1. sessions' = Append(sessions, new)
    BY <1>3, <1>6
  <2>. HIDE DEF new
  <2>2. /\ sessions' \in Seq(Link) /\ Len(sessions') = n + 1 /\ sessions'[n + 1] = new
        /\ \A j \in 1 .. n : sessions'[j] = sessions[j]
    BY <1>1, <1>2, <2>1 DEF MqttTyped
  <2>3. Links' = 1 .. n + 1
    BY <2>2, LinkTypes DEF Links
  <2>4. MqttTyped'
    BY <1>5, <1>6, <2>2 DEF MqttTyped
  <2>5. Links' = Links \cup {n + 1}
    BY <1>1, <2>3
  <2>6. sessions'[n + 1].link = "down"
    BY <2>2 DEF new
  <2>. QED BY <1>1, <1>5, <1>6, <2>2, <2>4, <2>5, <2>6
<1>7. CASE ~needed
  <2>1. sessions' = sessions
    BY <1>3, <1>7
  <2>2. MqttTyped'
    BY <1>5, <2>1 DEF MqttTyped
  <2>3. waiting' # {} => mqttState.connecting \/ mqttState.connected
    BY <1>7
  <2>4. mqttState'.connecting = mqttState.connecting
    BY <1>5, <1>7 DEF MqttTyped
  <2>. HIDE DEF needed
  <2>. QED BY <1>5, <2>1, <2>2, <2>3, <2>4
<1>. QED BY <1>6, <1>7

LEMMA ConnectMqttServed ==
  ASSUME MqttTyped, MqttServed, ConnectMqtt, waiting \subseteq waiting', waiting' \subseteq Locks,
         mqttState.connected => waiting' = {}, locks' \subseteq locks \cup waiting'
  PROVE  MqttServed'
<1>. DEFINE n == Len(sessions)
<1>1. /\ MqttTyped' /\ mqttState'.connected = mqttState.connected
      /\ \/ /\ sessions' = sessions /\ mqttState'.connecting = mqttState.connecting
            /\ waiting' # {} => mqttState.connecting
         \/ /\ ~mqttState.connected /\ Links' = Links \cup {n + 1}
            /\ \A j \in Links : sessions'[j] = sessions[j]
            /\ sessions'[n + 1].link = "down"
  BY ConnectMqttEffect
<1>2. CASE /\ sessions' = sessions /\ mqttState'.connecting = mqttState.connecting
           /\ waiting' # {} => mqttState.connecting
  <2>1. Links' = Links
    BY <1>2 DEF Links
  <2>2. EndedFirst' /\ LinksTold'
    BY <1>1, <1>2, <2>1 DEF MqttServed, EndedFirst, LinksTold
  <2>3. WaitingServed'
    BY <1>2, <2>1 DEF MqttServed, LinksTold, WaitingServed
  <2>4. NoneForgotten'
    BY <1>2, <2>1 DEF MqttServed, NoneForgotten
  <2>. QED BY <2>2, <2>3, <2>4 DEF MqttServed
<1>3. CASE /\ ~mqttState.connected /\ Links' = Links \cup {n + 1}
           /\ \A j \in Links : sessions'[j] = sessions[j]
           /\ sessions'[n + 1].link = "down"
  <2>1. EndedFirst'
    BY <1>3 DEF MqttServed, EndedFirst
  <2>2. LinksTold' /\ WaitingServed'
    BY <1>1, <1>3 DEF LinksTold, WaitingServed
  <2>3. NoneForgotten'
    BY <1>3 DEF MqttServed, NoneForgotten
  <2>. QED BY <2>1, <2>2, <2>3 DEF MqttServed
<1>. QED BY <1>1, <1>2, <1>3

\* The connect event takes out every lock that waits.
LEMMA LinkUpSound ==
  ASSUME MqttTyped, NEW i \in Links, LinkUp(i)
  PROVE  MqttTyped' /\ (MqttServed /\ locks' = locks => MqttServed')
<1>. DEFINE n == Len(sessions)
<1>1. /\ sessions' \in Seq(Link) /\ Len(sessions') = n /\ n \in 1 .. n
      /\ \A j \in 1 .. n :
           /\ sessions'[j].link = IF j = i THEN "up" ELSE sessions[j].link
           /\ sessions'[j].topics = IF j = n THEN sessions[j].topics \cup waiting
                                    ELSE sessions[j].topics
  BY LinkUpEffect
<1>2. Links = 1 .. n /\ Links' = 1 .. n /\ n \in Nat
  BY <1>1, LinkTypes DEF Links, MqttTyped
<1>3. sessions' # <<>>
  BY <1>1
<1>4. /\ mqttState' = [mqttState EXCEPT !.connected = TRUE, !.connecting = FALSE] /\ waiting' = {}
      /\ sessions[i].link = "down"
  BY DEF LinkUp
<1>5. MqttTyped'
  BY <1>1, <1>3, <1>4 DEF MqttTyped
<1>6. ASSUME MqttServed, locks' = locks
      PROVE  MqttServed'
  <2>. HIDE DEF n
  <2>1. i \in 1 .. n /\ sessions'[i].link = "up"
    BY <1>1, <1>2
  <2>2. sessions[n].link # "ended"
    BY <1>1, <1>2, <1>4, <1>6 DEF MqttServed, EndedFirst, n
  <2>3. EndedFirst'
    BY <1>1, <1>2, <1>6, <2>1, <2>2 DEF MqttServed, EndedFirst
  <2>4. LinksTold' /\ WaitingServed'
    BY <1>2, <1>4, <2>1 DEF LinksTold, WaitingServed, MqttTyped
  <2>5. NoneForgotten'
    <3>1. SUFFICES ASSUME NEW lock \in locks
                   PROVE  \E j \in Links' : lock \in sessions'[j].topics /\ sessions'[j].link # "ended"
      BY <1>6 DEF NoneForgotten
    <3>2. CASE lock \in waiting
      BY <1>1, <1>2, <2>2, <3>2
    <3>3. CASE lock \notin waiting
      <4>1. PICK j \in 1 .. n : lock \in sessions[j].topics /\ sessions[j].link # "ended"
        BY <1>2, <1>6, <3>3 DEF MqttServed, NoneForgotten
      <4>. QED BY <1>1, <1>2, <4>1
    <3>. QED BY <3>2, <3>3
  <2>. QED BY <2>3, <2>4, <2>5 DEF MqttServed
<1>. QED BY <1>5, <1>6

LEMMA LinkDownSound ==
  ASSUME MqttTyped, NEW i \in Links, LinkDown(i)
  PROVE  MqttTyped' /\ (MqttServed /\ locks' = locks => MqttServed')
<1>. DEFINE n == Len(sessions)
<1>1. Links = 1 .. n /\ n \in Nat
  BY LinkTypes DEF Links, MqttTyped
<1>2. /\ mqttState' = [mqttState EXCEPT !.connected = FALSE] /\ waiting' = waiting
      /\ sessions' = [sessions EXCEPT ![i].link = IF sessions[i].link = "up" THEN "down"
                                                ELSE sessions[i].link]
  BY DEF LinkDown
<1>3. /\ sessions' \in Seq(Link) /\ Len(sessions') = n
      /\ \A j \in 1 .. n : /\ sessions'[j].link = IF j = i /\ sessions[i].link = "up" THEN "down"
                                                 ELSE sessions[j].link
                           /\ sessions'[j].topics = sessions[j].topics
  <2>1. sessions[i].link \in {"down", "up", "ended"}
    BY <1>1, LinkTypes DEF MqttTyped, Link
  <2>2. (IF sessions[i].link = "up" THEN "down" ELSE sessions[i].link) \in {"down", "up", "ended"}
    BY <2>1
  <2>3. i \in 1 .. Len(sessions)
    BY <1>1
  <2>. DEFINE link == IF sessions[i].link = "up" THEN "down" ELSE sessions[i].link
  <2>4. sessions' = [sessions EXCEPT ![i].link = link]
    BY <1>2
  <2>5. link \in {"down", "up", "ended"}
    BY <2>2
  <2>. HIDE DEF link
  <2>6. /\ sessions' \in Seq(Link) /\ Len(sessions') = Len(sessions)
        /\ \A j \in 1 .. Len(sessions) :
             /\ sessions'[j].link = IF j = i THEN link ELSE sessions[j].link
             /\ sessions'[j].topics = sessions[j].topics
    BY <2>3, <2>4, <2>5, LinkEffect
  <2>. QED BY <2>1, <2>6 DEF link
<1>4. Links' = 1 .. n
  BY <1>3, LinkTypes DEF Links
<1>5. MqttTyped'
  BY <1>2, <1>3 DEF MqttTyped
<1>6. ASSUME MqttServed, locks' = locks
      PROVE  MqttServed'
  <2>1. n > 0 => n \in 1 .. n
    BY <1>1
  <2>2. sessions # <<>> /\ sessions' # <<>>
    BY <1>1, <1>3, <1>4
  <2>. HIDE DEF n
  <2>3. \A j \in 1 .. n : /\ sessions[j].link = "down" => sessions'[j].link = "down"
                         /\ sessions[j].link = "ended" <=> sessions'[j].link = "ended"
    BY <1>3
  <2>4. EndedFirst'
    BY <1>1, <1>3, <1>4, <1>6, <2>3 DEF MqttServed, EndedFirst
  <2>5. LinksTold'
    BY <1>1, <1>2, <1>4, <1>6, <2>3 DEF MqttServed, LinksTold, MqttTyped
  <2>6. WaitingServed'
    <3>1. n \in 1 .. n /\ Len(sessions') = n /\ mqttState'.known = mqttState.known
      BY <1>1, <1>2, <1>3, <2>1 DEF MqttTyped
    <3>. QED BY <1>1, <1>2, <1>4, <1>6, <2>2, <2>3, <3>1 DEF MqttServed, WaitingServed, n
  <2>7. NoneForgotten'
    BY <1>1, <1>2, <1>3, <1>4, <1>6, <2>3 DEF MqttServed, NoneForgotten
  <2>. QED BY <2>4, <2>5, <2>6, <2>7 DEF MqttServed
<1>. QED BY <1>5, <1>6

\* A connection that fails leaves its client; one that is refused ends the only client.
LEMMA LinkErrorSound ==
  ASSUME MqttTyped, NEW i \in Links, NEW refused \in BOOLEAN, LinkError(i, refused)
  PROVE  /\ MqttTyped'
         /\ MqttServed /\ locks' = locks /\ (refused => Len(sessions) = 1 /\ sessions[i].topics = {})
            => MqttServed'
<1>. DEFINE n == Len(sessions)
<1>1. Links = 1 .. n /\ n \in Nat /\ n \in 1 .. n
  BY LinkTypes DEF Links, MqttTyped
<1>2. /\ mqttState' = [mqttState EXCEPT !.connecting = FALSE] /\ waiting' = waiting
      /\ sessions[i].link = "down"
      /\ sessions' = IF refused THEN [sessions EXCEPT ![n].link = "ended"] ELSE sessions
  BY DEF LinkError
<1>3. CASE ~refused
  <2>1. sessions' = sessions /\ Links' = Links
    BY <1>2, <1>3 DEF Links
  <2>2. MqttTyped'
    BY <1>2, <2>1 DEF MqttTyped
  <2>3. ASSUME MqttServed, locks' = locks
        PROVE  MqttServed'
    BY <1>2, <2>1, <2>3, ZenonT(40) DEF MqttServed, EndedFirst, LinksTold, WaitingServed, NoneForgotten, MqttTyped
  <2>. QED BY <1>3, <2>2, <2>3
<1>4. CASE refused
  <2>1. sessions' = [sessions EXCEPT ![n].link = "ended"]
    BY <1>2, <1>4
  <2>2. /\ sessions' \in Seq(Link) /\ Len(sessions') = n
        /\ \A j \in 1 .. n : /\ sessions'[j].link = IF j = n THEN "ended" ELSE sessions[j].link
                             /\ sessions'[j].topics = sessions[j].topics
    BY <1>1, <2>1, LinkEffect
  <2>3. Links' = 1 .. n /\ sessions' # <<>>
    <3>1. Links' = 1 .. n
      BY <2>2, LinkTypes DEF Links
    <3>. QED BY <1>1, <2>2, <3>1
  <2>4. MqttTyped'
    BY <1>2, <2>2, <2>3 DEF MqttTyped
  <2>5. ASSUME MqttServed, locks' = locks, n = 1, sessions[i].topics = {}
        PROVE  MqttServed'
    <3>. HIDE DEF n
    <3>1. i = 1 /\ sessions[1].topics = {} /\ sessions[1].link = "down"
      BY <1>1, <1>2, <2>5
    <3>2. ~mqttState.connected
      BY <1>1, <2>5, <3>1 DEF MqttServed, LinksTold
    <3>3. EndedFirst'
      BY <2>2, <2>3, <2>5, <3>1 DEF EndedFirst
    <3>4. LinksTold'
      BY <1>2, <3>2 DEF LinksTold, MqttTyped
    <3>5. WaitingServed'
      BY <1>1, <2>2, <2>3 DEF WaitingServed
    <3>6. NoneForgotten'
      BY <1>1, <1>2, <2>5, <3>1 DEF MqttServed, NoneForgotten
    <3>. QED BY <3>3, <3>4, <3>5, <3>6 DEF MqttServed
  <2>. QED BY <1>4, <2>4, <2>5
<1>. QED BY <1>3, <1>4

LEMMA MqttNextSound ==
  ASSUME MqttTyped, MqttNext(Faults)
  PROVE  /\ MqttTyped'
         /\ MqttServed /\ locks' = locks /\ "refusal" \notin Faults => MqttServed'
<1>1. PICK i \in Links :
        \/ LinkUp(i) \/ LinkDown(i) \/ LinkError(i, FALSE)
        \/ /\ "refusal" \in Faults \/ (Len(sessions) = 1 /\ sessions[i].topics = {})
           /\ LinkError(i, TRUE)
  BY DEF MqttNext, Links
<1>2. CASE LinkUp(i) \/ LinkDown(i)
  BY <1>2, LinkUpSound, LinkDownSound
<1>3. CASE LinkError(i, FALSE)
  BY <1>3, LinkErrorSound
<1>4. CASE /\ "refusal" \in Faults \/ (Len(sessions) = 1 /\ sessions[i].topics = {})
           /\ LinkError(i, TRUE)
  BY <1>4, LinkErrorSound
<1>. QED BY <1>1, <1>2, <1>3, <1>4

\* A lock appears: it is subscribed with the current client, or waits for the next connect event.
LEMMA SubscribeLockSound ==
  ASSUME MqttTyped, NEW lock \in Locks, subscribeLock(lock)
  PROVE  MqttTyped' /\ (MqttServed /\ locks' = locks \cup {lock} => MqttServed')
<1>. DEFINE n == Len(sessions)
            last == [sessions[n] EXCEPT !.topics = @ \cup {lock}]
<1>1. CASE mqttState.connected
  <2>1. /\ sessions' = [sessions EXCEPT ![n] = last]
        /\ mqttState' = mqttState /\ waiting' = waiting
    BY <1>1 DEF subscribeLock
  <2>2. Links = 1 .. n /\ n \in Nat /\ n \in 1 .. n /\ sessions[n] \in Link /\ sessions \in Seq(Link)
    BY <1>1, LinkTypes DEF Links, MqttTyped
  <2>3. last \in Link /\ last.link = sessions[n].link /\ last.topics = sessions[n].topics \cup {lock}
    BY <2>2 DEF Link
  <2>. HIDE DEF last
  <2>4. /\ sessions' \in Seq(Link) /\ Len(sessions') = n
        /\ \A j \in 1 .. n : sessions'[j] = IF j = n THEN last ELSE sessions[j]
    BY <2>1, <2>2, <2>3, OneLink
  <2>5. Links' = 1 .. n /\ sessions' # <<>>
    <3>1. Links' = 1 .. n
      BY <2>4, LinkTypes DEF Links
    <3>. QED BY <2>2, <2>4, <3>1
  <2>6. MqttTyped'
    BY <2>1, <2>4, <2>5 DEF MqttTyped
  <2>7. ASSUME MqttServed, locks' = locks \cup {lock}
        PROVE  MqttServed'
    <3>. HIDE DEF n
    <3>1. sessions[n].link # "ended"
      BY <1>1, <2>2, <2>7 DEF MqttServed, LinksTold, EndedFirst, n
    <3>2. EndedFirst' /\ LinksTold'
      BY <2>1, <2>2, <2>3, <2>4, <2>5, <2>7, <3>1 DEF MqttServed, EndedFirst, LinksTold
    <3>3. WaitingServed'
      BY <1>1, <2>1, <2>7 DEF MqttServed, LinksTold, WaitingServed
    <3>4. NoneForgotten'
      <4>1. SUFFICES ASSUME NEW l \in locks \cup {lock}
                     PROVE  l \in waiting' \/ \E j \in Links' : /\ l \in sessions'[j].topics
                                                               /\ sessions'[j].link # "ended"
        BY <2>7 DEF NoneForgotten
      <4>2. CASE l = lock
        BY <2>2, <2>3, <2>4, <2>5, <3>1, <4>2
      <4>3. CASE l \in waiting
        BY <2>1, <4>3
      <4>4. CASE l # lock /\ l \notin waiting
        <5>1. PICK j \in 1 .. n : l \in sessions[j].topics /\ sessions[j].link # "ended"
          BY <2>2, <2>7, <4>1, <4>4 DEF MqttServed, NoneForgotten
        <5>. QED BY <2>3, <2>4, <2>5, <5>1
      <4>. QED BY <4>2, <4>3, <4>4
    <3>. QED BY <3>2, <3>3, <3>4 DEF MqttServed
  <2>. QED BY <2>6, <2>7
<1>2. CASE ~mqttState.connected /\ mqttState.known
  <2>1. waiting' = waiting \cup {lock} /\ ConnectMqtt
    BY <1>2 DEF subscribeLock
  <2>2. waiting' \subseteq Locks
    BY <2>1 DEF MqttTyped
  <2>. QED BY <1>2, <2>1, <2>2, ConnectMqttEffect, ConnectMqttServed
<1>3. CASE ~mqttState.connected /\ ~mqttState.known
  <2>1. waiting' = waiting \cup {lock} /\ mqttState' = mqttState /\ sessions' = sessions
    BY <1>3 DEF subscribeLock
  <2>2. Links' = Links
    BY <2>1 DEF Links
  <2>3. MqttTyped'
    BY <2>1 DEF MqttTyped
  <2>4. ASSUME MqttServed, locks' = locks \cup {lock}
        PROVE  MqttServed'
    BY <1>3, <2>1, <2>2, <2>4 DEF MqttServed, EndedFirst, LinksTold, WaitingServed, NoneForgotten
  <2>. QED BY <2>3, <2>4
<1>. QED BY <1>1, <1>2, <1>3

\* close() ends the current client where the service is connected.
LEMMA ClosedMqttTyped ==
  ASSUME MqttTyped, mqttState' = ClosedMqtt, sessions' = EndedSessions, waiting' = waiting
  PROVE  MqttTyped'
<1>1. mqttState.connected \in BOOLEAN /\ mqttState.connecting \in BOOLEAN
  BY DEF MqttTyped
<1>2. /\ mqttState' \in [connecting : BOOLEAN, connected : BOOLEAN, known : BOOLEAN]
      /\ ~mqttState'.connected
  BY <1>1 DEF MqttTyped, ClosedMqtt
<1>3. sessions' \in Seq(Link)
  <2>1. CASE mqttState.connected
    <3>1. Len(sessions) \in 1 .. Len(sessions)
      BY <2>1, LinkTypes DEF MqttTyped
    <3>2. sessions' = [sessions EXCEPT ![Len(sessions)].link = "ended"]
      BY <2>1 DEF EndedSessions
    <3>. QED BY <3>1, <3>2, LinkEffect
  <2>2. CASE ~mqttState.connected
    BY <2>2 DEF EndedSessions, MqttTyped
  <2>. QED BY <2>1, <2>2
<1>. QED BY <1>2, <1>3 DEF MqttTyped

-----------------------------------------------------------------------------
(* The API *)

Request == [id : Nat, kind : Kinds, stage : {"sent", "login", "repeated"}, token : Tokens, old : Tokens]
API == [token : Tokens, connected : BOOLEAN, renewal : BOOLEAN, logins : Nat, requests : SUBSET Request,
        shown : BOOLEAN, retries : 0 .. MaxRetries, refreshTimeout : BOOLEAN]
Cloud == [issued : Tokens, refused : SUBSET Tokens, loaded : BOOLEAN]

APITyped(a) == a \in API /\ IsFiniteSet(a.requests)

\* A connection of the API that is lost while the application is shown one has a request that
\* logs in, or is repeated in vain: with no token, or one the cloud refuses, it ends in onAPIClose.
Noticed(r, refused) == r.stage = "login" \/ (r.stage = "repeated" /\ r.token \in refused)
LossNoticed(a, refused) ==
  a.shown /\ ~a.connected => /\ a.token = NoToken \/ a.token \in refused
                             /\ \E r \in a.requests : Noticed(r, refused)
Refreshing(a) == a.shown => a.refreshTimeout \/ \E r \in a.requests : r.kind # "profile"

APISound(a, refused) == (a.connected => a.shown) /\ LossNoticed(a, refused) /\ Refreshing(a)

LEMMA TokenTypes ==
  ASSUME bounds \in Bounds
  PROVE  NoToken \in Tokens /\ 1 \in Tokens /\ bounds.tokens \in Nat
BY CloudAssumption DEF NoToken, Tokens

\* The identity of a new request is a number that no request in progress has.
LEMMA NewIdIsNew ==
  ASSUME NEW a, IsFiniteSet(a.requests)
  PROVE  Min((0 .. Cardinality(a.requests)) \ {r.id : r \in a.requests}) \in Nat
<1>. DEFINE ids == {r.id : r \in a.requests}
            n == Cardinality(a.requests)
            f == [r \in a.requests |-> r.id]
            free == (0 .. n) \ ids
<1>1. n \in Nat
  BY FS_CardinalityType
<1>2. f \in Surjection(a.requests, ids)
  BY DEF Surjection
<1>3. IsFiniteSet(ids) /\ Cardinality(ids) <= n
  BY <1>2, FS_Surjection
<1>. HIDE DEF ids, n
<1>4. IsFiniteSet(0 .. n) /\ Cardinality(0 .. n) = n + 1
  <2>1. 0 \in Int /\ n \in Int /\ ~ (0 > n) /\ n - 0 + 1 = n + 1
    BY <1>1
  <2>. QED BY <2>1, FS_Interval, Zenon
<1>5. free # {}
  <2>1. SUFFICES ASSUME (0 .. n) \subseteq ids PROVE FALSE
    OBVIOUS
  <2>2. Cardinality(0 .. n) <= Cardinality(ids)
    BY <1>3, <2>1, FS_Subset
  <2>3. Cardinality(ids) \in Nat
    BY <1>3, FS_CardinalityType
  <2>. QED BY <1>1, <1>3, <1>4, <2>2, <2>3
<1>6. free \subseteq Nat
  BY <1>1
<1>7. \E x \in free : \A y \in free : x <= y
  <2>1. PICK x \in free : \A y \in free : ~ (<<y, x>> \in OpToRel(<, Nat))
    BY <1>5, <1>6, WFMin, NatLessThanWellFounded, Zenon
  <2>2. \A y \in free : ~ (y < x)
    BY <1>6, <2>1 DEF OpToRel
  <2>. QED BY <1>6, <2>2
<1>8. Min(free) \in free
  BY <1>7, Zenon DEF Min
<1>. QED BY <1>6, <1>8 DEF ids, n

\* The fields of the API that its requests leave alone.
SameAPI(a, b) ==
  /\ b.token = a.token /\ b.connected = a.connected /\ b.shown = a.shown
  /\ b.refreshTimeout = a.refreshTimeout

LEMMA RequestEffect ==
  ASSUME bounds \in Bounds, NEW a, APITyped(a), NEW kind \in Kinds
  PROVE  LET b == request(a, kind)
         IN  /\ APITyped(b) /\ SameAPI(a, b) /\ a.requests \subseteq b.requests
             /\ \E r \in b.requests : r.kind = kind
<1>. DEFINE id == Min((0 .. Cardinality(a.requests)) \ {r.id : r \in a.requests})
            q == [id |-> id, kind |-> kind, stage |-> "sent", token |-> a.token, old |-> NoToken]
            b == [a EXCEPT !.requests = @ \cup {q}]
<1>1. request(a, kind) = b
  BY DEF request
<1>2. a \in API /\ IsFiniteSet(a.requests)
  BY DEF APITyped
<1>3. id \in Nat
  BY <1>2, NewIdIsNew
<1>. HIDE DEF id
<1>4. q \in Request /\ q.kind = kind
  BY <1>2, <1>3, TokenTypes DEF Request, API
<1>5. IsFiniteSet(a.requests \cup {q})
  BY <1>2, FS_AddElement
<1>. HIDE DEF q
<1>6. b \in API /\ b.requests = a.requests \cup {q} /\ SameAPI(a, b)
  BY <1>2, <1>4 DEF API, SameAPI
<1>. HIDE DEF b
<1>. QED BY <1>1, <1>4, <1>5, <1>6 DEF APITyped

LEMMA WithoutEffect ==
  ASSUME NEW a, APITyped(a), NEW r
  PROVE  LET b == Without(a, r)
         IN  APITyped(b) /\ SameAPI(a, b) /\ b.requests = a.requests \ {r}
<1>. DEFINE b == [a EXCEPT !.requests = @ \ {r}]
<1>1. a \in API /\ IsFiniteSet(a.requests \ {r})
  BY FS_RemoveElement DEF APITyped
<1>2. b \in API /\ b.requests = a.requests \ {r} /\ SameAPI(a, b)
  BY <1>1 DEF API, SameAPI
<1>. QED BY <1>1, <1>2 DEF APITyped, Without

LEMMA BecomesEffect ==
  ASSUME NEW a, APITyped(a), NEW r, NEW q \in Request
  PROVE  LET b == Becomes(a, r, q)
         IN  APITyped(b) /\ SameAPI(a, b) /\ b.requests = (a.requests \ {r}) \cup {q}
<1>. DEFINE rs == (a.requests \ {r}) \cup {q}
            b == [a EXCEPT !.requests = rs]
<1>1. a \in API /\ IsFiniteSet(rs)
  BY FS_RemoveElement, FS_AddElement DEF APITyped
<1>2. rs \subseteq Request
  BY <1>1 DEF API
<1>3. Becomes(a, r, q) = b
  BY DEF Becomes
<1>. HIDE DEF rs
<1>4. b \in API /\ b.requests = rs /\ SameAPI(a, b)
  BY <1>1, <1>2 DEF API, SameAPI
<1>. QED BY <1>1, <1>3, <1>4 DEF APITyped, rs

\* login() without a connection awaits a login or the profile.
LEMMA LoginEffect ==
  ASSUME bounds \in Bounds, NEW a, APITyped(a)
  PROVE  APITyped(login(a)) /\ SameAPI(a, login(a)) /\ a.requests \subseteq login(a).requests
<1>. DEFINE b == [a EXCEPT !.logins = @ + 1]
<1>1. CASE a.token = NoToken
  <2>1. a \in API /\ a.logins + 1 \in Nat
    BY DEF APITyped, API
  <2>2. b \in API /\ b.requests = a.requests /\ SameAPI(a, b)
    BY <2>1 DEF API, SameAPI
  <2>3. login(a) = b
    BY <1>1 DEF login
  <2>. HIDE DEF b
  <2>. QED BY <2>2, <2>3 DEF APITyped
<1>2. CASE a.token # NoToken /\ a.connected
  BY <1>2 DEF login, SameAPI
<1>3. CASE a.token # NoToken /\ ~a.connected
  <2>1. "profile" \in Kinds
    BY DEF Kinds
  <2>2. login(a) = request(a, "profile")
    BY <1>3 DEF login
  <2>. QED BY <2>1, <2>2, RequestEffect
<1>. QED BY <1>1, <1>2, <1>3

\* onAPIConnect: the connection is shown and a refresh begins.
LEMMA OnAPIConnectEffect ==
  ASSUME bounds \in Bounds, NEW a, APITyped(a)
  PROVE  LET b == onAPIConnect(a)
         IN  /\ APITyped(b) /\ b.shown /\ b.connected = a.connected
             /\ a.requests \subseteq b.requests /\ Refreshing(b)
<1>. DEFINE s == [a EXCEPT !.shown = TRUE, !.retries = 0]
            b == request(s, "first")
<1>1. a \in API /\ 0 \in 0 .. MaxRetries
  BY DEF APITyped, MaxRetries
<1>2. s \in API /\ s.requests = a.requests /\ s.shown /\ s.connected = a.connected
  BY <1>1 DEF API
<1>3. onAPIConnect(a) = b
  BY DEF onAPIConnect
<1>. HIDE DEF s
<1>4. APITyped(s) /\ "first" \in Kinds
  BY <1>2 DEF APITyped, Kinds
<1>5. /\ APITyped(b) /\ SameAPI(s, b) /\ s.requests \subseteq b.requests
      /\ \E r \in b.requests : r.kind = "first"
  BY <1>4, RequestEffect
<1>. HIDE DEF b
<1>6. Refreshing(b)
  BY <1>5 DEF Refreshing
<1>. QED BY <1>2, <1>3, <1>5, <1>6 DEF SameAPI

\* The 401 of a request that is not repeated: the application is told that the connection is lost.
LEMMA RejectedEffect ==
  ASSUME bounds \in Bounds, NEW a, APITyped(a)
  PROVE  APITyped(Rejected(a)) /\ ~Rejected(a).connected /\ ~Rejected(a).shown
<1>. DEFINE i == invalidateToken(a)
            lost == [i EXCEPT !.refreshTimeout = FALSE, !.shown = FALSE]
            retry == [lost EXCEPT !.retries = @ + 1]
<1>1. Rejected(a) = IF i.retries < MaxRetries THEN login(retry) ELSE lost
  BY DEF Rejected, onAPIClose
<1>2. a \in API /\ NoToken \in Tokens
  BY TokenTypes DEF APITyped
<1>3. i \in API /\ i.requests = a.requests /\ ~i.connected
  BY <1>2 DEF API, invalidateToken
<1>. HIDE DEF i
<1>4. lost \in API /\ lost.requests = a.requests /\ ~lost.connected /\ ~lost.shown /\ lost.retries = i.retries
  BY <1>3 DEF API
<1>. HIDE DEF lost
<1>5. APITyped(lost)
  BY <1>4 DEF APITyped
<1>6. CASE i.retries < MaxRetries
  <2>1. lost.retries + 1 \in 0 .. MaxRetries
    BY <1>4, <1>6 DEF API, MaxRetries
  <2>2. retry \in API /\ retry.requests = a.requests /\ ~retry.connected /\ ~retry.shown
    BY <1>4, <2>1 DEF API
  <2>. HIDE DEF retry
  <2>3. APITyped(retry)
    BY <2>2 DEF APITyped
  <2>4. APITyped(login(retry)) /\ SameAPI(retry, login(retry))
    BY <2>3, LoginEffect
  <2>. QED BY <1>1, <1>6, <2>2, <2>4 DEF SameAPI
<1>7. CASE ~(i.retries < MaxRetries)
  BY <1>1, <1>4, <1>5, <1>7
<1>. QED BY <1>6, <1>7

\* A login that succeeds connects the API, and shows it where it was not connected.
LEMMA LoginCompletedEffect ==
  ASSUME bounds \in Bounds, NEW a, APITyped(a), NEW token \in Tokens, NEW refused
  PROVE  LET b == loginCompleted(a, token)
         IN  /\ APITyped(b) /\ a.requests \subseteq b.requests
             /\ APISound(a, refused) => APISound(b, refused)
<1>. DEFINE done == [a EXCEPT !.token = token, !.connected = TRUE, !.renewal = TRUE]
            b == loginCompleted(a, token)
<1>1. a \in API
  BY DEF APITyped
<1>2. /\ done \in API /\ done.requests = a.requests /\ done.connected /\ done.shown = a.shown
      /\ done.refreshTimeout = a.refreshTimeout
  BY <1>1 DEF API
<1>3. b = IF a.connected THEN done ELSE onAPIConnect(done)
  BY DEF loginCompleted
<1>. HIDE DEF done, b
<1>4. APITyped(done)
  BY <1>2 DEF APITyped
<1>5. CASE a.connected
  <2>1. APISound(a, refused) => APISound(done, refused)
    BY <1>2, <1>5 DEF APISound, LossNoticed, Refreshing
  <2>. QED BY <1>2, <1>3, <1>4, <1>5, <2>1 DEF b
<1>6. CASE ~a.connected
  <2>. DEFINE c == onAPIConnect(done)
  <2>1. APITyped(c) /\ c.shown /\ c.connected = done.connected /\ done.requests \subseteq c.requests
        /\ Refreshing(c)
    BY <1>4, OnAPIConnectEffect
  <2>. HIDE DEF c
  <2>2. APISound(c, refused)
    BY <1>2, <2>1 DEF APISound, LossNoticed
  <2>3. b = c
    BY <1>3, <1>6 DEF c
  <2>. QED BY <1>2, <2>1, <2>2, <2>3 DEF b
<1>. QED BY <1>5, <1>6

\* The way on of a request that is over: for the refresh it was, its timer is armed.
LEMMA FollowedEffect ==
  ASSUME bounds \in Bounds, NEW a, APITyped(a), NEW kind \in Kinds, NEW ok \in BOOLEAN, NEW refused,
         a.connected => a.shown, LossNoticed(a, refused),
         Refreshing(a) \/ kind # "profile"
  PROVE  LET b == Followed(a, kind, ok) IN APITyped(b) /\ APISound(b, refused)
<1>1. a \in API
  BY DEF APITyped
<1>2. CASE kind = "profile" /\ ok /\ ~a.connected
  <2>. DEFINE s == [a EXCEPT !.connected = TRUE]
              c == onAPIConnect(s)
              b == [c EXCEPT !.renewal = TRUE]
  <2>1. Followed(a, kind, ok) = b
    BY <1>2 DEF Followed
  <2>2. s \in API /\ s.requests = a.requests /\ s.connected
    BY <1>1 DEF API
  <2>. HIDE DEF s
  <2>3. APITyped(s)
    BY <2>2 DEF APITyped
  <2>4. APITyped(c) /\ c.shown /\ c.connected /\ Refreshing(c)
    BY <2>2, <2>3, OnAPIConnectEffect
  <2>. HIDE DEF c
  <2>5. /\ b \in API /\ b.requests = c.requests /\ b.shown /\ b.connected
        /\ b.refreshTimeout = c.refreshTimeout
    BY <2>4 DEF APITyped, API
  <2>. HIDE DEF b
  <2>6. APITyped(b) /\ APISound(b, refused)
    BY <2>4, <2>5 DEF APITyped, APISound, LossNoticed, Refreshing
  <2>. QED BY <2>1, <2>6
<1>3. CASE kind = "profile" /\ ~(ok /\ ~a.connected)
  <2>1. Followed(a, kind, ok) = a
    BY <1>3 DEF Followed
  <2>. QED BY <1>3, <2>1 DEF APISound
<1>4. CASE kind # "profile"
  <2>. DEFINE b == [a EXCEPT !.refreshTimeout = TRUE]
  <2>1. Followed(a, kind, ok) = b
    BY <1>4 DEF Followed
  <2>2. /\ b \in API /\ b.requests = a.requests /\ b.shown = a.shown /\ b.connected = a.connected
        /\ b.token = a.token /\ b.refreshTimeout
    BY <1>1 DEF API
  <2>. HIDE DEF b
  <2>3. APITyped(b)
    BY <2>2 DEF APITyped
  <2>4. APISound(b, refused)
    BY <2>2 DEF APISound, LossNoticed, Refreshing
  <2>. QED BY <2>1, <2>3, <2>4
<1>. QED BY <1>2, <1>3, <1>4

LEMMA FollowedTyped ==
  ASSUME bounds \in Bounds, NEW a, APITyped(a), NEW kind \in Kinds, NEW ok \in BOOLEAN
  PROVE  APITyped(Followed(a, kind, ok))
<1>1. a \in API
  BY DEF APITyped
<1>2. CASE kind = "profile" /\ ok /\ ~a.connected
  <2>. DEFINE s == [a EXCEPT !.connected = TRUE]
              c == onAPIConnect(s)
              b == [c EXCEPT !.renewal = TRUE]
  <2>1. Followed(a, kind, ok) = b
    BY <1>2 DEF Followed
  <2>2. s \in API /\ s.requests = a.requests
    BY <1>1 DEF API
  <2>. HIDE DEF s
  <2>3. APITyped(c)
    BY <2>2, OnAPIConnectEffect DEF APITyped
  <2>. HIDE DEF c
  <2>4. b \in API /\ b.requests = c.requests
    BY <2>3 DEF APITyped, API
  <2>. QED BY <2>1, <2>3, <2>4 DEF APITyped
<1>3. CASE kind # "profile"
  <2>. DEFINE b == [a EXCEPT !.refreshTimeout = TRUE]
  <2>1. Followed(a, kind, ok) = b
    BY <1>3 DEF Followed
  <2>2. b \in API /\ b.requests = a.requests
    BY <1>1 DEF API
  <2>. QED BY <2>1, <2>2 DEF APITyped
<1>. QED BY <1>2, <1>3 DEF Followed

\* A request that is over with a 401: the loss of the connection is shown.
LEMMA RejectedFollowedEffect ==
  ASSUME bounds \in Bounds, NEW a, APITyped(a), NEW kind \in Kinds, NEW refused
  PROVE  LET b == Followed(Rejected(a), kind, FALSE) IN APITyped(b) /\ APISound(b, refused)
<1>. DEFINE s == Rejected(a)
<1>1. APITyped(s) /\ ~s.connected /\ ~s.shown
  BY RejectedEffect
<1>. HIDE DEF s
<1>2. LossNoticed(s, refused) /\ Refreshing(s)
  BY <1>1 DEF LossNoticed, Refreshing
<1>3. LET b == Followed(s, kind, FALSE) IN APITyped(b) /\ APISound(b, refused)
  BY <1>1, <1>2, FollowedEffect
<1>. QED BY <1>3 DEF s

\* More tokens are refused.
LEMMA RefusedMore ==
  ASSUME NEW a, NEW refused, NEW more, APISound(a, refused), refused \subseteq more
  PROVE  APISound(a, more)
BY DEF APISound, LossNoticed, Noticed

LEMMA LoginOutcome ==
  ASSUME bounds \in Bounds, cloud \in Cloud, NEW a, APITyped(a), NEW after \in Login(a)
  PROVE  /\ APITyped(after[1]) /\ after[2] \in Cloud
         /\ APISound(a, cloud.refused) => APISound(after[1], after[2].refused)
<1>. DEFINE token == cloud.issued + 1
            more == [cloud EXCEPT !.issued = token]
            code == [cloud EXCEPT !.issued = token, !.refused = @ \cup {token}]
            waits == [a EXCEPT !.token = token]
            done == loginCompleted(a, token)
<1>1. \/ after = <<a, cloud>>
      \/ cloud.issued < bounds.tokens /\ after = <<done, more>>
      \/ cloud.issued < bounds.tokens /\ after = <<waits, code>>
  BY DEF Login
<1>2. CASE after = <<a, cloud>>
  BY <1>2
<1>3. ASSUME cloud.issued < bounds.tokens
      PROVE  token \in Tokens
  BY <1>3, TokenTypes DEF Cloud, Tokens
<1>4. CASE cloud.issued < bounds.tokens /\ after = <<done, more>>
  <2>1. more \in Cloud /\ more.refused = cloud.refused
    BY <1>3, <1>4 DEF Cloud
  <2>2. APITyped(done) /\ (APISound(a, cloud.refused) => APISound(done, cloud.refused))
    <3>1. token \in Tokens
      BY <1>3, <1>4
    <3>. HIDE DEF token
    <3>. QED BY <3>1, LoginCompletedEffect
  <2>. HIDE DEF done, more
  <2>. QED BY <1>4, <2>1, <2>2
<1>5. CASE cloud.issued < bounds.tokens /\ after = <<waits, code>>
  <2>1. code \in Cloud /\ code.refused = cloud.refused \cup {token}
    BY <1>3, <1>5 DEF Cloud
  <2>2. /\ waits \in API /\ waits.requests = a.requests /\ waits.connected = a.connected
        /\ waits.shown = a.shown /\ waits.refreshTimeout = a.refreshTimeout /\ waits.token = token
    BY <1>3, <1>5 DEF APITyped, API
  <2>. HIDE DEF waits, code, token
  <2>3. APITyped(waits)
    BY <2>2 DEF APITyped
  <2>4. ASSUME APISound(a, cloud.refused)
        PROVE  APISound(waits, code.refused)
    BY <2>1, <2>2, <2>4 DEF APISound, LossNoticed, Noticed, Refreshing
  <2>. QED BY <1>5, <2>1, <2>3, <2>4
<1>. QED BY <1>1, <1>2, <1>4, <1>5

\* After its login a request is repeated with the token of now, or over.
LEMMA RepeatedEffect ==
  ASSUME bounds \in Bounds, NEW a, APITyped(a), NEW refused, NEW r \in Request
  PROVE  /\ APITyped(Repeated(a, r))
         /\ APISound(a, refused) => APISound(Repeated(a, r), refused)
<1>. DEFINE q == [r EXCEPT !.stage = "repeated", !.token = a.token]
            b == Becomes(a, r, q)
            s == Without(a, r)
            over == Followed(Rejected(s), r.kind, FALSE)
<1>1. CASE r.old # a.token /\ a.token # NoToken
  <2>1. Repeated(a, r) = b
    BY <1>1 DEF Repeated
  <2>2. q \in Request /\ q.stage = "repeated" /\ q.token = a.token /\ q.kind = r.kind
    BY DEF APITyped, API, Request
  <2>. HIDE DEF q
  <2>3. APITyped(b) /\ SameAPI(a, b) /\ b.requests = (a.requests \ {r}) \cup {q}
    BY <2>2, BecomesEffect
  <2>. HIDE DEF b
  <2>4. ASSUME APISound(a, refused)
        PROVE  APISound(b, refused)
    <3>1. LossNoticed(b, refused)
      BY <1>1, <2>2, <2>3, <2>4 DEF APISound, LossNoticed, Noticed, SameAPI
    <3>2. Refreshing(b)
      BY <2>2, <2>3, <2>4 DEF APISound, Refreshing, SameAPI
    <3>. QED BY <2>3, <2>4, <3>1, <3>2 DEF APISound, SameAPI
  <2>. QED BY <2>1, <2>3, <2>4
<1>2. CASE ~(r.old # a.token /\ a.token # NoToken)
  <2>1. Repeated(a, r) = over
    BY <1>2 DEF Repeated
  <2>2. APITyped(s) /\ r.kind \in Kinds
    BY WithoutEffect DEF Request
  <2>. HIDE DEF s
  <2>3. APITyped(over) /\ APISound(over, refused)
    BY <2>2, RejectedFollowedEffect
  <2>. QED BY <2>1, <2>3
<1>. QED BY <1>1, <1>2

-----------------------------------------------------------------------------
(* The steps of EufySecurity *)

Typed ==
  /\ bounds \in Bounds /\ APITyped(api) /\ cloud \in Cloud /\ locks \subseteq Locks
  /\ user \in {"new", "open", "closed"}
  /\ PushTyped(pushState, clients) /\ MqttTyped

\* What holds until close(): of the API, of the push connection and of the locks.
Shows == user # "closed" => APISound(api, cloud.refused)
Hears ==
  /\ PushAlone(pushState, clients)
  /\ user # "closed" => PushSound(pushState, clients)
Serves == user # "closed" => MqttServed

Kept ==
  /\ Typed'
  /\ "reopen" \notin Faults /\ Shows => Shows'
  /\ "reopen" \notin Faults /\ "slow_load" \notin Faults /\ Hears => Hears'
  /\ "reopen" \notin Faults /\ "refusal" \notin Faults /\ Serves => Serves'

\* What a step of the API leaves to prove where the other parts stay as they are.
LEMMA APIKept ==
  ASSUME Typed, bounds' = bounds, APITyped(api'), cloud' \in Cloud,
         UNCHANGED <<locks, user, pushVars, mqttVars>>,
         Shows /\ user # "closed" => APISound(api', cloud'.refused)
  PROVE  Kept
<1>1. /\ locks' = locks /\ user' = user /\ pushState' = pushState /\ clients' = clients
      /\ mqttState' = mqttState /\ waiting' = waiting /\ sessions' = sessions
  BY DEF pushVars, mqttVars
<1>2. APITyped(api)' /\ (cloud \in Cloud)'
  BY DEF APITyped, API, Request, Cloud, Tokens
<1>3. Typed'
  BY <1>1, <1>2 DEF Typed, PushTyped, MqttTyped
<1>4. (Shows => Shows') /\ (Hears => Hears')
  BY <1>1 DEF Shows, Hears
<1>5. Serves => Serves'
  BY <1>1 DEF Serves, MqttServed, EndedFirst, LinksTold, WaitingServed, NoneForgotten, Links
<1>. QED BY <1>3, <1>4, <1>5 DEF Kept

\* The rest of onAPIConnect.
LEMMA ServicesKept ==
  ASSUME Typed, bounds' = bounds, APITyped(api'), cloud' \in Cloud, UNCHANGED <<locks, user>>,
         NEW kind, Services(kind),
         Shows /\ user # "closed" => APISound(api', cloud'.refused)
  PROVE  Kept
<1>1. CASE kind # "first"
  BY <1>1, APIKept DEF Services
<1>2. CASE kind = "first"
  <2>1. /\ pushState' = open(pushState) /\ clients' = clients /\ waiting' = waiting /\ ConnectMqtt
        /\ locks' = locks /\ user' = user
    BY <1>2 DEF Services
  <2>2. APITyped(api)' /\ (cloud \in Cloud)'
    BY DEF APITyped, API, Request, Cloud, Tokens
  <2>3. /\ PushTyped(pushState', clients')
        /\ PushAlone(pushState, clients) => PushAlone(pushState', clients')
        /\ PushSound(pushState, clients) => PushSound(pushState', clients')
    BY <2>1, OpenSound DEF Typed
  <2>4. waiting' \subseteq Locks /\ MqttTyped
    BY <2>1 DEF Typed, MqttTyped
  <2>5. MqttTyped'
    BY <2>1, <2>4, ConnectMqttEffect
  <2>6. Typed'
    BY <2>1, <2>2, <2>3, <2>5 DEF Typed
  <2>7. (Shows => Shows') /\ (Hears => Hears')
    BY <2>1, <2>3 DEF Shows, Hears
  <2>8. MqttServed => MqttServed'
    <3>1. ASSUME MqttServed PROVE mqttState.connected => waiting' = {}
      BY <2>1, <3>1 DEF MqttServed, LinksTold
    <3>. QED BY <2>1, <2>4, <3>1, ConnectMqttServed
  <2>9. Serves => Serves'
    BY <2>1, <2>8 DEF Serves
  <2>. QED BY <2>6, <2>7, <2>9 DEF Kept
<1>. QED BY <1>1, <1>2

LEMMA RequestTypes ==
  ASSUME Typed, NEW r \in api.requests
  PROVE  r \in Request /\ r.kind \in Kinds
BY DEF Typed, APITyped, API, Request

\* An answer: of those that were repeated it is none that was on its way to tell a loss.
LEMMA AnsweredKept ==
  ASSUME Typed, bounds' = bounds, NEW r \in api.requests, Answered(r)
  PROVE  Kept
<1>. DEFINE s == Without(api, r)
<1>1. PICK ok \in BOOLEAN :
        /\ api' = Followed(s, r.kind, ok)
        /\ cloud' = [cloud EXCEPT !.loaded = @ \/ (ok /\ r.kind # "profile")]
  BY DEF Answered
<1>2. /\ r.stage \in {"sent", "repeated"} /\ r.token \notin cloud.refused
      /\ Services(r.kind) /\ UNCHANGED <<locks, user>>
  BY DEF Answered
<1>3. cloud' \in Cloud /\ cloud'.refused = cloud.refused
  <2>. DEFINE loaded == cloud.loaded \/ (ok /\ r.kind # "profile")
  <2>1. loaded \in BOOLEAN /\ cloud \in Cloud
    BY DEF Typed, Cloud
  <2>2. cloud' = [cloud EXCEPT !.loaded = loaded]
    BY <1>1
  <2>. HIDE DEF loaded
  <2>. QED BY <2>1, <2>2 DEF Cloud
<1>4. APITyped(s) /\ SameAPI(api, s) /\ s.requests = api.requests \ {r}
  BY WithoutEffect DEF Typed
<1>. HIDE DEF s
<1>5. APITyped(api')
  BY <1>1, <1>4, RequestTypes, FollowedTyped DEF Typed
<1>6. ASSUME Shows, user # "closed"
      PROVE  APISound(api', cloud'.refused)
  <2>1. APISound(api, cloud.refused)
    BY <1>6 DEF Shows
  <2>2. s.connected => s.shown
    BY <1>4, <2>1 DEF APISound, SameAPI
  <2>3. LossNoticed(s, cloud.refused)
    BY <1>2, <1>4, <2>1 DEF APISound, LossNoticed, Noticed, SameAPI
  <2>4. Refreshing(s) \/ r.kind # "profile"
    BY <1>4, <2>1 DEF APISound, Refreshing, SameAPI
  <2>. QED BY <1>1, <1>3, <1>4, <2>2, <2>3, <2>4, RequestTypes, FollowedEffect DEF Typed
<1>. QED BY <1>2, <1>3, <1>5, <1>6, ServicesKept

\* A 401: the token is gone and the request logs in.
LEMMA UnauthorizedKept ==
  ASSUME Typed, bounds' = bounds, NEW r \in api.requests, Unauthorized(r)
  PROVE  Kept
<1>. DEFINE q == [r EXCEPT !.stage = "login", !.old = api.token]
            b == Becomes(api, r, q)
<1>1. api' = invalidateToken(b) /\ UNCHANGED <<cloud, locks, user, pushVars, mqttVars>>
  BY DEF Unauthorized
<1>2. q \in Request /\ q.stage = "login" /\ q.kind = r.kind
  BY RequestTypes DEF Request, Typed, APITyped, API
<1>. HIDE DEF q
<1>3. APITyped(b) /\ SameAPI(api, b) /\ b.requests = (api.requests \ {r}) \cup {q}
  BY <1>2, BecomesEffect DEF Typed
<1>. HIDE DEF b
<1>4. /\ api' \in API /\ api'.requests = b.requests /\ ~api'.connected /\ api'.token = NoToken
      /\ api'.shown = b.shown /\ api'.refreshTimeout = b.refreshTimeout
  BY <1>1, <1>3, TokenTypes DEF Typed, APITyped, API, invalidateToken
<1>5. APITyped(api')
  BY <1>3, <1>4 DEF APITyped
<1>6. ASSUME Shows, user # "closed"
      PROVE  APISound(api', cloud'.refused)
  <2>1. APISound(api, cloud.refused)
    BY <1>6 DEF Shows
  <2>2. LossNoticed(api', cloud'.refused)
    BY <1>2, <1>3, <1>4 DEF LossNoticed, Noticed
  <2>3. Refreshing(api')
    BY <1>2, <1>3, <1>4, <2>1 DEF APISound, Refreshing, SameAPI
  <2>. QED BY <1>4, <2>2, <2>3 DEF APISound
<1>7. cloud' \in Cloud
  BY <1>1 DEF Typed
<1>. QED BY <1>1, <1>5, <1>6, <1>7, APIKept

LEMMA UnauthorizedAgainKept ==
  ASSUME Typed, bounds' = bounds, NEW r \in api.requests, UnauthorizedAgain(r)
  PROVE  Kept
<1>. DEFINE s == Without(api, r)
<1>1. /\ api' = Followed(Rejected(s), r.kind, FALSE) /\ Services(r.kind)
      /\ UNCHANGED <<cloud, locks, user>>
  BY DEF UnauthorizedAgain
<1>2. APITyped(s)
  BY WithoutEffect DEF Typed
<1>. HIDE DEF s
<1>3. APITyped(api') /\ APISound(api', cloud'.refused)
  BY <1>1, <1>2, RequestTypes, RejectedFollowedEffect DEF Typed
<1>4. cloud' \in Cloud /\ UNCHANGED <<locks, user>>
  BY <1>1 DEF Typed
<1>. QED BY <1>1, <1>3, <1>4, ServicesKept

\* The login of a request is over: refused, completed, or in want of a code.
LEMMA LoggedInKept ==
  ASSUME Typed, bounds' = bounds, NEW r \in api.requests, LoggedIn(r)
  PROVE  Kept
<1>1. PICK after \in Login(api) : api' = Repeated(after[1], r) /\ cloud' = after[2]
  BY DEF LoggedIn
<1>2. UNCHANGED <<pushVars, mqttVars>> \/ Services(r.kind)
  BY DEF LoggedIn
<1>3. UNCHANGED <<locks, user>>
  BY DEF LoggedIn
<1>4. /\ APITyped(after[1]) /\ after[2] \in Cloud
      /\ APISound(api, cloud.refused) => APISound(after[1], after[2].refused)
  BY LoginOutcome DEF Typed
<1>5. APITyped(api') /\ cloud' \in Cloud
  BY <1>1, <1>4, RequestTypes, RepeatedEffect DEF Typed
<1>6. ASSUME Shows, user # "closed"
      PROVE  APISound(api', cloud'.refused)
  BY <1>1, <1>4, <1>6, RequestTypes, RepeatedEffect DEF Typed, Shows
<1>7. CASE UNCHANGED <<pushVars, mqttVars>>
  BY <1>3, <1>5, <1>6, <1>7, APIKept
<1>8. CASE Services(r.kind)
  BY <1>3, <1>5, <1>6, <1>8, ServicesKept
<1>. QED BY <1>2, <1>7, <1>8

\* One login more or less is awaited.
LEMMA LoginsEffect ==
  ASSUME NEW a, APITyped(a), NEW n \in Nat, NEW renewal \in BOOLEAN, NEW refused
  PROVE  LET b == [a EXCEPT !.logins = n, !.renewal = renewal]
         IN  APITyped(b) /\ (APISound(a, refused) => APISound(b, refused))
<1>. DEFINE b == [a EXCEPT !.logins = n, !.renewal = renewal]
<1>1. b \in API /\ b.requests = a.requests /\ SameAPI(a, b)
  BY DEF APITyped, API, SameAPI
<1>. HIDE DEF b
<1>2. APITyped(b)
  BY <1>1 DEF APITyped
<1>3. APISound(a, refused) => APISound(b, refused)
  BY <1>1 DEF APISound, LossNoticed, Refreshing, SameAPI
<1>. QED BY <1>2, <1>3 DEF b

LEMMA LoginAnsweredKept ==
  ASSUME Typed, bounds' = bounds, LoginAnswered
  PROVE  Kept
<1>. DEFINE n == api.logins - 1
            s == [api EXCEPT !.logins = n, !.renewal = api.renewal]
<1>1. n \in Nat /\ api.renewal \in BOOLEAN /\ APITyped(api) /\ api \in API
  BY DEF LoginAnswered, Typed, APITyped, API
<1>2. s = [api EXCEPT !.logins = @ - 1]
  BY <1>1 DEF API
<1>3. PICK after \in Login(s) : api' = after[1] /\ cloud' = after[2]
  BY <1>2 DEF LoginAnswered
<1>4. UNCHANGED <<locks, user, pushVars, mqttVars>>
  BY DEF LoginAnswered
<1>. HIDE DEF n
<1>5. APITyped(s) /\ (APISound(api, cloud.refused) => APISound(s, cloud.refused))
  BY <1>1, LoginsEffect
<1>. HIDE DEF s
<1>6. /\ APITyped(api') /\ cloud' \in Cloud
      /\ APISound(s, cloud.refused) => APISound(api', cloud'.refused)
  BY <1>3, <1>5, LoginOutcome DEF Typed
<1>. QED BY <1>4, <1>5, <1>6, APIKept DEF Shows

LEMMA RenewAuthTokenKept ==
  ASSUME Typed, bounds' = bounds, RenewAuthToken
  PROVE  Kept
<1>. DEFINE n == api.logins + 1
<1>1. n \in Nat /\ APITyped(api) /\ api \in API /\ FALSE \in BOOLEAN
  BY DEF Typed, APITyped, API
<1>2. /\ api' = [api EXCEPT !.logins = n, !.renewal = FALSE]
      /\ cloud' = cloud /\ UNCHANGED <<locks, user, pushVars, mqttVars>>
  BY <1>1 DEF RenewAuthToken, API
<1>. HIDE DEF n
<1>3. APITyped(api') /\ (APISound(api, cloud.refused) => APISound(api', cloud.refused))
  BY <1>1, <1>2, LoginsEffect
<1>. QED BY <1>2, <1>3, APIKept DEF Shows, Typed

\* The timer of the refresh: its request takes its place.
LEMMA RefreshTimeoutKept ==
  ASSUME Typed, bounds' = bounds, RefreshTimeout
  PROVE  Kept
<1>. DEFINE s == [api EXCEPT !.refreshTimeout = FALSE]
<1>1. /\ api' = request(s, "refresh") /\ api.connected /\ cloud' = cloud
      /\ UNCHANGED <<locks, user, pushVars, mqttVars>>
  BY DEF RefreshTimeout
<1>2. s \in API /\ s.requests = api.requests /\ s.connected = api.connected /\ s.shown = api.shown
  BY DEF Typed, APITyped, API
<1>. HIDE DEF s
<1>3. APITyped(s) /\ "refresh" \in Kinds
  BY <1>2 DEF Typed, APITyped, Kinds
<1>4. APITyped(api') /\ SameAPI(s, api') /\ \E r \in api'.requests : r.kind = "refresh"
  BY <1>1, <1>3, RequestEffect DEF Typed
<1>5. ASSUME Shows, user # "closed"
      PROVE  APISound(api', cloud.refused)
  BY <1>1, <1>2, <1>4, <1>5 DEF Shows, APISound, LossNoticed, Refreshing, SameAPI
<1>. QED BY <1>1, <1>4, <1>5, APIKept DEF Typed

LEMMA RevokeKept ==
  ASSUME Typed, bounds' = bounds, Revoke
  PROVE  Kept
<1>1. /\ cloud' = [cloud EXCEPT !.refused = @ \cup {api.token}] /\ api' = api
      /\ UNCHANGED <<locks, user, pushVars, mqttVars>>
  BY DEF Revoke
<1>2. cloud' \in Cloud /\ cloud.refused \subseteq cloud'.refused
  BY <1>1 DEF Typed, APITyped, API, Cloud
<1>. QED BY <1>1, <1>2, RefusedMore, APIKept DEF Typed, Shows

\* connect() of the application, the first or after close().
LEMMA ConnectKept ==
  ASSUME Typed, bounds' = bounds, Connect
  PROVE  Kept
<1>1. /\ user = "new" \/ (user = "closed" /\ "reopen" \in Faults)
      /\ user' = "open" /\ api' = login(api) /\ cloud' = cloud /\ locks' = locks
      /\ pushState' = pushState /\ clients' = clients
      /\ mqttState' = mqttState /\ waiting' = waiting /\ sessions' = sessions
  BY DEF Connect, pushVars, mqttVars
<1>2. APITyped(api') /\ SameAPI(api, api') /\ api.requests \subseteq api'.requests
  BY <1>1, LoginEffect DEF Typed
<1>3. APITyped(api)' /\ (cloud \in Cloud)'
  BY <1>1, <1>2 DEF APITyped, API, Request, Cloud, Tokens, Typed
<1>4. Typed'
  BY <1>1, <1>3 DEF Typed, PushTyped, MqttTyped
<1>5. ASSUME "reopen" \notin Faults, Shows
      PROVE  Shows'
  <2>1. APISound(api, cloud.refused)
    BY <1>1, <1>5 DEF Shows
  <2>2. APISound(api', cloud.refused)
    BY <1>2, <2>1 DEF APISound, LossNoticed, Refreshing, SameAPI
  <2>. QED BY <1>1, <2>2 DEF Shows
<1>6. "reopen" \notin Faults /\ Hears => Hears'
  BY <1>1 DEF Hears
<1>7. ASSUME "reopen" \notin Faults, Serves
      PROVE  Serves'
  BY <1>1, <1>7 DEF Serves, MqttServed, EndedFirst, LinksTold, WaitingServed, NoneForgotten, Links
<1>. QED BY <1>4, <1>5, <1>6, <1>7 DEF Kept

LEMMA EnterCodeKept ==
  ASSUME Typed, bounds' = bounds, EnterCode
  PROVE  Kept
<1>. DEFINE n == api.logins + 1
<1>1. n \in Nat /\ APITyped(api) /\ api \in API /\ api.renewal \in BOOLEAN
  BY DEF Typed, APITyped, API
<1>2. /\ api' = [api EXCEPT !.logins = n, !.renewal = api.renewal]
      /\ cloud' = cloud /\ UNCHANGED <<locks, user, pushVars, mqttVars>>
  BY <1>1 DEF EnterCode, API
<1>. HIDE DEF n
<1>3. APITyped(api') /\ (APISound(api, cloud.refused) => APISound(api', cloud.refused))
  BY <1>1, <1>2, LoginsEffect
<1>. QED BY <1>2, <1>3, APIKept DEF Shows, Typed

LEMMA AddLockKept ==
  ASSUME Typed, bounds' = bounds, NEW lock \in Locks, AddLock(lock)
  PROVE  Kept
<1>1. /\ locks' = locks \cup {lock} /\ subscribeLock(lock) /\ api' = api /\ cloud' = cloud
      /\ user' = user /\ pushState' = pushState /\ clients' = clients
  BY DEF AddLock, pushVars
<1>2. MqttTyped' /\ (MqttServed => MqttServed')
  BY <1>1, SubscribeLockSound DEF Typed
<1>3. APITyped(api)' /\ (cloud \in Cloud)'
  BY <1>1 DEF Typed, APITyped, API, Request, Cloud, Tokens
<1>4. Typed'
  BY <1>1, <1>2, <1>3 DEF Typed, PushTyped
<1>. QED BY <1>1, <1>2, <1>4 DEF Kept, Shows, Hears, Serves

LEMMA CloseKept ==
  ASSUME Typed, bounds' = bounds, close
  PROVE  Kept
<1>1. /\ user' = "closed" /\ api' = [api EXCEPT !.refreshTimeout = FALSE, !.shown = FALSE]
      /\ pushState' = ClosedPush /\ clients' = ClosedClients
      /\ mqttState' = ClosedMqtt /\ sessions' = EndedSessions
      /\ cloud' = cloud /\ locks' = locks /\ waiting' = waiting
  BY DEF close
<1>2. api' \in API /\ api'.requests = api.requests
  BY <1>1 DEF Typed, APITyped, API
<1>3. APITyped(api)' /\ (cloud \in Cloud)'
  BY <1>1, <1>2 DEF Typed, APITyped, API, Request, Cloud, Tokens
<1>4. /\ PushTyped(pushState', clients') /\ MqttTyped'
      /\ PushAlone(pushState, clients) => PushAlone(pushState', clients')
  BY <1>1, ClosedEffect, ClosedMqttTyped DEF Typed
<1>5. Typed'
  BY <1>1, <1>3, <1>4 DEF Typed
<1>. QED BY <1>1, <1>4, <1>5 DEF Kept, Shows, Hears, Serves

-----------------------------------------------------------------------------
(* The theorems *)

LEMMA InitTyped ==
  ASSUME Init
  PROVE  Typed /\ Shows /\ Hears /\ Serves
<1>1. bounds \in Bounds
  BY DEF Init
<1>2. 0 \in 0 .. MaxRetries /\ NoToken \in Tokens /\ 1 \in Tokens
  BY <1>1, TokenTypes DEF MaxRetries
<1>3. api \in API /\ api.requests = {} /\ ~api.connected /\ ~api.shown
  BY <1>2 DEF Init, API
<1>4. cloud \in Cloud
  BY <1>2 DEF Init, Cloud
<1>5. APITyped(api)
  BY <1>3, FS_EmptySet DEF APITyped
<1>6. PushTyped(pushState, clients) /\ PushAlone(pushState, clients) /\ PushSound(pushState, clients)
  <2>1. /\ pushState \in Service /\ clients \in Seq(Client) /\ clients = <<>> /\ ~pushState.asked
        /\ ~pushState.connecting /\ ~pushState.connected
        /\ pushState.loadingOpen = 0 /\ pushState.loadingRenewal = 0 /\ pushState.renewing = 0
    BY DEF Init, PushInit, Service
  <2>. QED BY <2>1 DEF PushTyped, PushSound, PushAlone, CurrentHeard, HeardLives, OneLoads,
                             PushOnItsWay, Loading
<1>7. MqttTyped /\ MqttServed
  <2>1. waiting = {} /\ locks = {} /\ sessions = <<>> /\ Links = {} /\ sessions \in Seq(Link)
    BY DEF Init, MqttInit, Links
  <2>2. mqttState = [connecting |-> FALSE, connected |-> FALSE, known |-> FALSE]
    BY DEF Init, MqttInit
  <2>. QED BY <2>1, <2>2 DEF MqttTyped, MqttServed, EndedFirst, LinksTold, WaitingServed, NoneForgotten
<1>8. Typed
  BY <1>1, <1>4, <1>5, <1>6, <1>7 DEF Init, Typed
<1>. QED BY <1>3, <1>6, <1>7, <1>8 DEF Shows, Hears, Serves, APISound, LossNoticed, Refreshing

LEMMA APINextKept ==
  ASSUME Typed, bounds' = bounds, APINext
  PROVE  Kept
<1>1. ASSUME NEW r \in api.requests,
             Answered(r) \/ Unauthorized(r) \/ UnauthorizedAgain(r) \/ LoggedIn(r)
      PROVE  Kept
  BY <1>1, AnsweredKept, UnauthorizedKept, UnauthorizedAgainKept, LoggedInKept
<1>2. CASE LoginAnswered \/ RenewAuthToken \/ RefreshTimeout \/ Revoke
  BY <1>2, LoginAnsweredKept, RenewAuthTokenKept, RefreshTimeoutKept, RevokeKept
<1>3. CASE Connect \/ EnterCode \/ close
  BY <1>3, ConnectKept, EnterCodeKept, CloseKept
<1>4. ASSUME NEW lock \in Locks, AddLock(lock)
      PROVE  Kept
  BY <1>4, AddLockKept
<1>. QED BY <1>1, <1>2, <1>3, <1>4, Zenon DEF APINext

LEMMA NextKept ==
  ASSUME Typed, [Next]_vars
  PROVE  Kept
<1>1. CASE APINext /\ UNCHANGED bounds
  BY <1>1, APINextKept
<1>2. CASE PushNext(Faults) /\ UNCHANGED <<mqttVars, cloudVars>>
  <2>1. /\ mqttState' = mqttState /\ waiting' = waiting /\ sessions' = sessions /\ api' = api
        /\ cloud' = cloud /\ locks' = locks /\ user' = user /\ bounds' = bounds
    BY <1>2 DEF mqttVars, cloudVars
  <2>2. PushKept
    BY <1>2, PushNextKept DEF Typed
  <2>3. APITyped(api)' /\ (cloud \in Cloud)' /\ MqttTyped'
    BY <2>1 DEF Typed, APITyped, API, Request, Cloud, Tokens, MqttTyped
  <2>4. Typed'
    BY <2>1, <2>2, <2>3 DEF Typed, PushKept
  <2>5. (Shows => Shows') /\ ("slow_load" \notin Faults /\ Hears => Hears')
    BY <2>1, <2>2 DEF Shows, Hears, PushKept
  <2>6. Serves => Serves'
    BY <2>1 DEF Serves, MqttServed, EndedFirst, LinksTold, WaitingServed, NoneForgotten, Links
  <2>. QED BY <2>4, <2>5, <2>6 DEF Kept
<1>3. CASE MqttNext(Faults) /\ UNCHANGED <<pushVars, cloudVars>>
  <2>1. /\ pushState' = pushState /\ clients' = clients /\ api' = api
        /\ cloud' = cloud /\ locks' = locks /\ user' = user /\ bounds' = bounds
    BY <1>3 DEF pushVars, cloudVars
  <2>2. MqttTyped' /\ (MqttServed /\ "refusal" \notin Faults => MqttServed')
    BY <1>3, <2>1, MqttNextSound DEF Typed
  <2>3. APITyped(api)' /\ (cloud \in Cloud)'
    BY <2>1 DEF Typed, APITyped, API, Request, Cloud, Tokens
  <2>4. Typed'
    BY <2>1, <2>2, <2>3 DEF Typed, PushTyped
  <2>5. (Shows => Shows') /\ (Hears => Hears')
    BY <2>1 DEF Shows, Hears
  <2>6. "refusal" \notin Faults /\ Serves => Serves'
    BY <2>1, <2>2 DEF Serves
  <2>. QED BY <2>4, <2>5, <2>6 DEF Kept
<1>4. CASE UNCHANGED vars
  <2>1. bounds' = bounds /\ UNCHANGED <<locks, user, pushVars, mqttVars>> /\ api' = api /\ cloud' = cloud
    BY <1>4 DEF vars, cloudVars
  <2>. QED BY <2>1, APIKept DEF Typed, Shows
<1>. QED BY <1>1, <1>2, <1>3, <1>4 DEF Next

LEMMA AlwaysTyped == Spec => []Typed
<1>1. Init => Typed
  BY InitTyped
<1>2. Typed /\ [Next]_vars => Typed'
  BY NextKept DEF Kept
<1>. QED BY <1>1, <1>2, PTL DEF Spec

LEMMA AlwaysShows ==
  ASSUME "reopen" \notin Faults
  PROVE  Spec => []Shows
<1>1. Init => Typed /\ Shows
  BY InitTyped
<1>2. (Typed /\ Shows) /\ [Next]_vars => (Typed /\ Shows)'
  BY NextKept DEF Kept
<1>. QED BY <1>1, <1>2, PTL DEF Spec

LEMMA AlwaysHears ==
  ASSUME "reopen" \notin Faults, "slow_load" \notin Faults
  PROVE  Spec => [](Typed /\ Hears)
<1>1. Init => Typed /\ Hears
  BY InitTyped
<1>2. (Typed /\ Hears) /\ [Next]_vars => (Typed /\ Hears)'
  BY NextKept DEF Kept
<1>. QED BY <1>1, <1>2, PTL DEF Spec

\* The cloud, the push and the MQTT connection keep their types, for every set of locks and every
\* bound, whatever fails and however often the application connects again.
THEOREM TypeCorrect == Spec => []TypeOK
<1>1. Typed => TypeOK
  BY DEF Typed, PushTyped, Service, Client, MqttTyped, Link, APITyped, API, Request, Cloud,
         TypeOK, PushTypeOK, MqttTypeOK
<1>. QED BY <1>1, AlwaysTyped, PTL

\* However many requests lose their token and log in again beside each other, what EufySecurity
\* shows of the cloud is true, or a request is about to tell or to mend it, and the data are
\* refreshed: while the application does not connect again after close().
THEOREM CloudIsShown ==
  ASSUME "reopen" \notin Faults
  PROVE  Spec => []CloudShown
<1>1. Shows => CloudShown
  BY DEF Shows, APISound, LossNoticed, Noticed, Refreshing, CloudShown
<1>. QED BY <1>1, AlwaysShows, PTL

\* Whatever clients, retries, failures and renewals there are, one push client at most is listened
\* to, and the connection that was asked for is on its way until close(): while the application
\* does not connect again and no registration ends while the definitions are loaded for another.
THEOREM PushHeardOnce ==
  ASSUME "reopen" \notin Faults, "slow_load" \notin Faults
  PROVE  Spec => []PushOnce
<1>1. Typed /\ Hears => PushOnce
  <2>. DEFINE heard == {i \in DOMAIN clients : clients[i].listened /\ Lives(clients[i])}
  <2>1. SUFFICES ASSUME Typed, Hears
                 PROVE  /\ Cardinality(heard) <= 1
                        /\ user = "open" /\ pushState.asked =>
                             \/ pushState.opening > 0 \/ pushState.retryTimeout
                             \/ Loading(pushState) > 0 \/ heard # {}
    BY DEF PushOnce
  <2>2. /\ pushState \in Service /\ CurrentHeard(clients)
        /\ user = "open" => PushOnItsWay(pushState, clients) /\ HeardLives(clients)
    BY <2>1 DEF Typed, Hears, PushTyped, PushAlone, PushSound
  <2>3. heard \subseteq {Len(clients)}
    BY <2>2 DEF CurrentHeard
  <2>4. Cardinality(heard) <= 1
    <3>1. IsFiniteSet({Len(clients)}) /\ Cardinality({Len(clients)}) = 1
      BY FS_Singleton
    <3>. HIDE DEF heard
    <3>. QED BY <2>3, <3>1, FS_Subset
  <2>5. user = "open" /\ (\E i \in DOMAIN clients : clients[i].listened) => heard # {}
    BY <2>2 DEF HeardLives
  <2>6. pushState.loadingOpen > 0 => Loading(pushState) > 0
    BY <2>2 DEF Service, Loading
  <2>. HIDE DEF heard
  <2>. QED BY <2>2, <2>4, <2>5, <2>6 DEF PushOnItsWay, OnItsWay
<1>. QED BY <1>1, AlwaysHears, PTL

\* Whatever clients the MQTT service has made, and in whatever order they connect, fail and are
\* lost, no lock is forgotten: while the broker refuses a first connection at most and the
\* application does not connect again after close().
THEOREM LocksAreServed ==
  ASSUME "reopen" \notin Faults, "refusal" \notin Faults
  PROVE  Spec => []LocksServed
<1>1. Init => Typed /\ Serves
  BY InitTyped
<1>2. (Typed /\ Serves) /\ [Next]_vars => (Typed /\ Serves)'
  BY NextKept DEF Kept
<1>3. Typed /\ Serves => LocksServed
  <2>1. SUFFICES ASSUME Typed, MqttServed, mqttState.known,
                        sessions # <<>> => sessions[Len(sessions)].link # "ended", NEW lock \in locks
                 PROVE  \/ \E i \in Links : sessions[i].link # "ended" /\ lock \in sessions[i].topics
                        \/ lock \in waiting /\ \E i \in Links : sessions[i].link = "down"
    BY DEF Serves, LocksServed, Links, Last
  <2>. QED BY <2>1 DEF MqttServed, NoneForgotten, WaitingServed
<1>. QED BY <1>1, <1>2, <1>3, PTL DEF Spec
=============================================================================
