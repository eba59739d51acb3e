---------------------------- MODULE CloudSession ----------------------------
(*
 The cloud side of EufySecurity (src/src/eufysecurity.ts): connect() and close(),
 what it does when the HTTP API (src/src/http/api.ts) connects and closes, the
 polling of the cloud, and with it the push and the MQTT connection.

 A request that is answered 401 invalidates whatever token the API has by then
 and logs in again before it is repeated; requests in progress do so one after
 the other, and each login that succeeds while the API is not connected starts a
 refresh.  The application closes at any time.  The API and EufySecurity are one
 record, and what they do until the next await are operators on it.

 One request stands for the three of refreshAllData.  A request that fails with
 another status than 401 is answered like one that succeeds, without the data.  A
 login is not itself answered 401.
*)
EXTENDS PushService, MqttService, FiniteSetsExt

CONSTANTS
  Faults,  \* what the environment may do beyond the normal
  Bounds   \* bounds of a behaviour: requests and logins awaited at a time, tokens the
           \* cloud issues, push clients, MQTT clients, locks

ASSUME CloudAssumption ==
  /\ Faults \subseteq {"reopen", "refusal", "slow_load"}
  /\ Bounds \subseteq
       [requests : Nat, tokens : Nat \ {0}, clients : Nat, sessions : Nat, locks : Nat]

NoToken == 0
MaxRetries == 3

VARIABLES
  api,    \* the API: token, connected, renewal job, requests and logins it awaits;
          \* EufySecurity: shown is its connected, retries, refreshTimeout
  cloud,  \* external: the newest token issued, the tokens refused, a device list was answered
  locks,  \* the locks among the devices
  user,   \* the application called connect(): open, and close() after that: closed
  bounds  \* one of Bounds

cloudVars == <<api, cloud, locks, user, bounds>>
vars == <<pushVars, mqttVars, cloudVars>>

Kinds == {"profile", "first", "refresh"}

Tokens == 0 .. bounds.tokens

TypeOK ==
  /\ bounds \in Bounds
  /\ PushTypeOK
  /\ MqttTypeOK
  /\ api \in [token : Tokens, connected : BOOLEAN, renewal : BOOLEAN, logins : Nat,
              requests : SUBSET [id : Nat, kind : Kinds, stage : {"sent", "login", "repeated"},
                                 token : Tokens, old : Tokens],
              shown : BOOLEAN, retries : 0 .. MaxRetries, refreshTimeout : BOOLEAN]
  /\ cloud \in [issued : Tokens, refused : SUBSET Tokens, loaded : BOOLEAN]
  /\ locks \subseteq Locks
  /\ user \in {"new", "open", "closed"}

\* The token of an earlier run of the program may be there, and may have expired.
Init ==
  /\ bounds \in Bounds
  /\ PushInit /\ MqttInit
  /\ \E saved \in {NoToken, 1} :
       api = [token |-> saved, connected |-> FALSE, renewal |-> FALSE, logins |-> 0,
              requests |-> {}, shown |-> FALSE, retries |-> 0, refreshTimeout |-> FALSE]
  /\ \E refused \in SUBSET {1} : cloud = [issued |-> 1, refused |-> refused, loaded |-> FALSE]
  /\ locks = {}
  /\ user = "new"

-----------------------------------------------------------------------------
(* HTTPApi and its events in EufySecurity *)

Awaited(a) == Cardinality(a.requests) + a.logins
request(a, kind) ==
  LET id == Min((0 .. Cardinality(a.requests)) \ {r.id : r \in a.requests})
  IN  [a EXCEPT !.requests = @ \cup {[id |-> id, kind |-> kind, stage |-> "sent",
                                      token |-> a.token, old |-> NoToken]}]
Without(a, r) == [a EXCEPT !.requests = @ \ {r}]
Becomes(a, r, changed) == [a EXCEPT !.requests = (@ \ {r}) \cup {changed}]

onAPIConnect(a) == request([a EXCEPT !.shown = TRUE, !.retries = 0], "first")

login(a) ==
  IF a.token = NoToken THEN [a EXCEPT !.logins = @ + 1]
  ELSE IF a.connected THEN a ELSE request(a, "profile")

onAPIClose(a) ==
  LET lost == [a EXCEPT !.refreshTimeout = FALSE, !.shown = FALSE]
  IN  IF a.retries < MaxRetries THEN login([lost EXCEPT !.retries = @ + 1]) ELSE lost

invalidateToken(a) == [a EXCEPT !.connected = FALSE, !.token = NoToken, !.renewal = FALSE]

loginCompleted(a, token) ==
  LET done == [a EXCEPT !.token = token, !.connected = TRUE, !.renewal = TRUE]
  IN  IF a.connected THEN done ELSE onAPIConnect(done)

\* A login is refused, completed, or waits for the code of the user with a token
\* that nothing else accepts: what the API and the cloud may become.
Login(a) ==
  LET token == cloud.issued + 1
  IN  {<<a, cloud>>} \cup
      IF cloud.issued < bounds.tokens
      THEN {<<loginCompleted(a, token), [cloud EXCEPT !.issued = token]>>,
            <<[a EXCEPT !.token = token],
              [cloud EXCEPT !.issued = token, !.refused = @ \cup {token}]>>}
      ELSE {}

\* The 401 of a request that is not repeated.  Mutant: the application is not told.
RejectedSilently(a) == invalidateToken(a)
Rejected(a) == onAPIClose(invalidateToken(a))

\* What follows the request of kind k, as far as it concerns api.
Followed(a, k, ok) ==
  CASE k = "profile" ->
         IF ok /\ ~a.connected
         THEN [onAPIConnect([a EXCEPT !.connected = TRUE]) EXCEPT !.renewal = TRUE] ELSE a
    [] OTHER -> [a EXCEPT !.refreshTimeout = TRUE]

\* The rest of onAPIConnect: push and MQTT, for a request of kind "first".
Services(k) ==
  IF k = "first"
  THEN /\ pushState' = open(pushState)
       /\ waiting' = waiting /\ ConnectMqtt
       /\ UNCHANGED clients
  ELSE UNCHANGED <<pushVars, mqttVars>>

Answered(r) ==
  /\ r.stage \in {"sent", "repeated"} /\ r.token \notin cloud.refused
  /\ \E ok \in BOOLEAN :
       /\ api' = Followed(Without(api, r), r.kind, ok)
       /\ cloud' = [cloud EXCEPT !.loaded = @ \/ (ok /\ r.kind # "profile")]
  /\ Services(r.kind)
  /\ UNCHANGED <<locks, user>>

Unauthorized(r) ==
  /\ r.stage = "sent" /\ r.token \in cloud.refused
  /\ api' = invalidateToken(Becomes(api, r, [r EXCEPT !.stage = "login", !.old = api.token]))
  /\ UNCHANGED <<cloud, locks, user, pushVars, mqttVars>>

UnauthorizedAgain(r) ==
  /\ r.stage = "repeated" /\ r.token \in cloud.refused
  /\ api' = Followed(Rejected(Without(api, r)), r.kind, FALSE)
  /\ Services(r.kind)
  /\ UNCHANGED <<cloud, locks, user>>

\* The request is repeated if the API has another token now, whoever obtained it.
Repeated(a, r) ==
  IF r.old # a.token /\ a.token # NoToken
  THEN Becomes(a, r, [r EXCEPT !.stage = "repeated", !.token = a.token])
  ELSE Followed(Rejected(Without(a, r)), r.kind, FALSE)

LoggedIn(r) ==
  /\ r.stage = "login"
  /\ \E after \in Login(api) : api' = Repeated(after[1], r) /\ cloud' = after[2]
  /\ IF \E k \in api'.requests : k.id = r.id /\ k.kind = r.kind /\ k.stage = "repeated"
     THEN UNCHANGED <<pushVars, mqttVars>> ELSE Services(r.kind)
  /\ UNCHANGED <<locks, user>>

\* The answer to a login of connect(), of the renewal job or with the code of the user
LoginAnswered ==
  /\ api.logins > 0
  /\ \E after \in Login([api EXCEPT !.logins = @ - 1]) : api' = after[1] /\ cloud' = after[2]
  /\ UNCHANGED <<locks, user, pushVars, mqttVars>>

RenewAuthToken ==
  /\ api.renewal
  /\ api' = [api EXCEPT !.renewal = FALSE, !.logins = @ + 1]
  /\ UNCHANGED <<cloud, locks, user, pushVars, mqttVars>>

\* Without a connection the requests are skipped and the timer is set again.
RefreshTimeout ==
  /\ api.refreshTimeout /\ api.connected
  /\ api' = request([api EXCEPT !.refreshTimeout = FALSE], "refresh")
  /\ UNCHANGED <<cloud, locks, user, pushVars, mqttVars>>

\* External: the cloud no longer accepts the token.
Revoke ==
  /\ api.connected /\ api.token \notin cloud.refused /\ cloud.issued < bounds.tokens
  /\ cloud' = [cloud EXCEPT !.refused = @ \cup {api.token}]
  /\ UNCHANGED <<api, locks, user, pushVars, mqttVars>>

-----------------------------------------------------------------------------
(* The application and the devices *)

Connect ==
  /\ user = "new" \/ (user = "closed" /\ "reopen" \in Faults)
  /\ user' = "open"
  /\ api' = login(api)
  /\ UNCHANGED <<cloud, locks, pushVars, mqttVars>>

\* connect() with the code or the captcha the cloud asked for
EnterCode ==
  /\ user = "open" /\ ~api.connected
  /\ api' = [api EXCEPT !.logins = @ + 1]
  /\ UNCHANGED <<cloud, locks, user, pushVars, mqttVars>>

\* addDevice for a lock of a list, while its refresh goes on or after it
Listed ==
  \/ cloud.loaded
  \/ \E r \in api.requests : r.kind # "profile" /\ r.stage # "login" /\ r.token \notin cloud.refused
AddLock(lock) ==
  /\ Listed /\ lock \notin locks
  /\ locks' = locks \cup {lock}
  /\ subscribeLock(lock)
  /\ UNCHANGED <<api, cloud, user, pushVars>>

close ==
  /\ user = "open"
  /\ user' = "closed"
  /\ api' = [api EXCEPT !.refreshTimeout = FALSE, !.shown = FALSE]
  /\ pushState' = ClosedPush /\ clients' = ClosedClients
  /\ mqttState' = ClosedMqtt /\ sessions' = EndedSessions
  /\ UNCHANGED <<cloud, locks, waiting>>

APINext ==
  \/ \E r \in api.requests : Answered(r) \/ Unauthorized(r) \/ UnauthorizedAgain(r) \/ LoggedIn(r)
  \/ LoginAnswered \/ RenewAuthToken \/ RefreshTimeout \/ Revoke
  \/ Connect \/ EnterCode \/ close
  \/ \E lock \in Locks : AddLock(lock)

WithinBounds ==
  /\ Awaited(api) <= bounds.requests
  /\ Len(clients) + Loading(pushState) <= bounds.clients
  /\ Len(sessions) <= bounds.sessions
  /\ Cardinality(locks) <= bounds.locks

Next ==
  \/ APINext /\ UNCHANGED bounds /\ WithinBounds'
  \/ PushNext(Faults) /\ UNCHANGED <<mqttVars, cloudVars>> /\ WithinBounds'
  \/ MqttNext(Faults) /\ UNCHANGED <<pushVars, cloudVars>> /\ WithinBounds'

Spec == Init /\ [][Next]_vars

-----------------------------------------------------------------------------
(* Properties *)

\* What EufySecurity shows of the cloud is true while it is open: it is connected
\* when the API is; when the API is not, a request is about to log in or to tell
\* it; and while it is connected the data are refreshed or the timer is armed.
CloudShown ==
  user = "open" =>
    /\ api.connected => api.shown
    /\ api.shown /\ ~api.connected => \E r \in api.requests : r.stage \in {"login", "repeated"}
    /\ api.shown => api.refreshTimeout \/ \E r \in api.requests : r.kind # "profile"

\* Once the push connection was asked for it is on its way until it is closed: a
\* registration, its retry, or a client that has a socket or is about to, or is about
\* to be made.  Each push message is handled once: at most one client that lives is
\* listened to, unless two registrations end at a time ("slow_load"): each silences
\* the client that is there, and neither the one the other is about to make.
Lives(c) == c.socket # "none" \/ c.reconnect
PushOnce ==
  LET heard == {i \in DOMAIN clients : clients[i].listened /\ Lives(clients[i])}
  IN  /\ Cardinality(heard) <= 1
      /\ user = "open" /\ pushState.asked =>
           pushState.opening > 0 \/ pushState.retryTimeout \/ Loading(pushState) > 0 \/ heard # {}

\* No lock is forgotten: until close() or a refusal of the broker each is subscribed
\* with a client, or waits in subscribeLocks while the next connect event, which
\* takes it out, can still come.
LocksServed ==
  user = "open" /\ mqttState.known /\ (sessions # <<>> => Last(sessions).link # "ended") =>
    \A lock \in locks :
      \/ \E i \in DOMAIN sessions : sessions[i].link # "ended" /\ lock \in sessions[i].topics
      \/ lock \in waiting /\ \E i \in DOMAIN sessions : sessions[i].link = "down"
=============================================================================
