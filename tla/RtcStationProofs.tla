-------------------------- MODULE RtcStationProofs --------------------------
(***************************************************************************)
(* What RtcStation promises, for any number of sessions, transports and    *)
(* failures.                                                               *)
(*                                                                         *)
(* The lemmas of the first part say for each method which fields of the    *)
(* hub it changes (...Fields).  Base, which holds whatever happens, gives  *)
(* the types.  Structure says of the station's transport that it is ended, *)
(* trying or up, and where its sessions are; Tried and Planned say what is *)
(* armed meanwhile.                                                        *)
(***************************************************************************)
EXTENDS RtcStation, TLAPS

Phases == {"free", "connecting", "calling", "open", "down", "closed"}
SessionType == [phase : Phases, pending : BOOLEAN, of : Transports \cup {None},
                role : {"none", "primary", "handoff"}]
TransportType == [session : Sessions \cup {None}, connected : BOOLEAN, connecting : BOOLEAN,
                  handoffInProgress : BOOLEAN, handler : BOOLEAN, waiters : Nat]
HandoffType == [transport : Transports \cup {None}, old : Sessions \cup {None}, new : Sessions \cup {None}]
HubType ==
  [sessions : [Sessions -> SessionType], transports : [Transports -> TransportType],
   handoff : HandoffType, made : 0 .. MaxTransports, rtcTransport : Transports \cup {None},
   terminating : BOOLEAN, handlerWired : BOOLEAN, reconnectTimeout : BOOLEAN, waking : Nat,
   proactive : {"none", "refresh", "probe", "backoff", "reprobe"}, attempt : {0, 1},
   commandTransport : BOOLEAN]

-----------------------------------------------------------------------------
(* What the methods change *)

\* The fields that most methods leave alone.
Same(g, h) ==
  /\ g.handoff = h.handoff /\ g.made = h.made /\ g.rtcTransport = h.rtcTransport
  /\ g.terminating = h.terminating /\ g.handlerWired = h.handlerWired
  /\ g.waking = h.waking /\ g.attempt = h.attempt
SameTimers(g, h) ==
  /\ g.reconnectTimeout = h.reconnectTimeout /\ g.proactive = h.proactive
  /\ g.commandTransport = h.commandTransport

\* Session s of h is as q says in g, transport t as r says; the others are as they were.
SessionIs(g, h, s, q) == \A u \in Sessions : g.sessions[u] = IF u = s THEN q ELSE h.sessions[u]
TransportIs(g, h, t, r) == \A u \in Transports : g.transports[u] = IF u = t THEN r ELSE h.transports[u]

LEMMA NoneOther == None \notin Sessions /\ None \notin Transports /\ MaxTransports \in Nat
BY SessionAssumption, BoundAssumption DEF None, Transports

LEMMA PutSession ==
  ASSUME NEW h \in HubType, NEW s \in Sessions, NEW q \in SessionType
  PROVE  LET g == [h EXCEPT !.sessions[s] = q]
         IN  g \in HubType /\ Same(g, h) /\ SameTimers(g, h) /\ g.transports = h.transports /\ SessionIs(g, h, s, q)
BY DEF HubType, Same, SameTimers, SessionIs

LEMMA PutTransport ==
  ASSUME NEW h \in HubType, NEW t \in Transports, NEW r \in TransportType
  PROVE  LET g == [h EXCEPT !.transports[t] = r]
         IN  g \in HubType /\ Same(g, h) /\ SameTimers(g, h) /\ g.sessions = h.sessions /\ TransportIs(g, h, t, r)
BY DEF HubType, Same, SameTimers, TransportIs

\* A transport that close() is through with; what becomes of the session it had.
Dropped(r) ==
  [r EXCEPT !.session = None, !.connected = FALSE, !.connecting = FALSE, !.handoffInProgress = FALSE]
Closed(q) == [q EXCEPT !.phase = "closed"]

LEMMA TransportRecords ==
  ASSUME NEW h \in HubType, NEW t \in Transports
  PROVE  h.transports[t] \in TransportType
BY DEF HubType

LEMMA SessionRecords ==
  ASSUME NEW h \in HubType, NEW s \in Sessions
  PROVE  h.sessions[s] \in SessionType
BY DEF HubType

LEMMA ResetRecord ==
  ASSUME NEW r \in TransportType
  PROVE  [r EXCEPT !.connected = FALSE, !.connecting = FALSE, !.handoffInProgress = FALSE] \in TransportType
BY DEF TransportType

LEMMA DroppedRecord ==
  ASSUME NEW r \in TransportType
  PROVE  /\ Dropped(r) \in TransportType /\ Dropped(r).session = None
         /\ ~Dropped(r).connected /\ ~Dropped(r).connecting /\ ~Dropped(r).handoffInProgress
         /\ Dropped(r).waiters = r.waiters /\ Dropped(r).handler = r.handler
         /\ Dropped(Dropped(r)) = Dropped(r)
BY DEF Dropped, TransportType

LEMMA UnconnectingRecord ==
  ASSUME NEW r \in TransportType
  PROVE  [r EXCEPT !.connecting = FALSE] \in TransportType
BY DEF TransportType

LEMMA EndSessionFields ==
  ASSUME NEW h \in HubType, NEW s \in Sessions \cup {None}
  PROVE  LET g == EndSession(h, s)
         IN  /\ g \in HubType /\ Same(g, h) /\ SameTimers(g, h) /\ g.transports = h.transports
             /\ SessionIs(g, h, s, [h.sessions[s] EXCEPT !.phase = "closed"])
<1>1. CASE s = None
  BY <1>1, NoneOther DEF EndSession, Same, SameTimers, SessionIs
<1>2. CASE s # None
  <2> DEFINE q == [h.sessions[s] EXCEPT !.phase = "closed"]
  <2>1. s \in Sessions
    BY <1>2
  <2>2. q \in SessionType
    BY <2>1 DEF HubType, SessionType, Phases
  <2>3. EndSession(h, s) = [h EXCEPT !.sessions[s] = q]
    BY <1>2, <2>1 DEF EndSession, HubType
  <2>. HIDE DEF q
  <2>. QED BY <2>1, <2>2, <2>3, PutSession DEF q
<1>. QED BY <1>1, <1>2

LEMMA CloseSessionFields ==
  ASSUME NEW h \in HubType, NEW t \in Transports
  PROVE  LET g == CloseSession(h, t)
         IN  /\ g \in HubType /\ Same(g, h) /\ SameTimers(g, h)
             /\ SessionIs(g, h, h.transports[t].session,
                          [h.sessions[h.transports[t].session] EXCEPT !.phase = "closed"])
             /\ TransportIs(g, h, t, [h.transports[t] EXCEPT !.session = None])
<1> DEFINE e == EndSession(h, h.transports[t].session)
           r == [h.transports[t] EXCEPT !.session = None]
<1>1. h.transports[t].session \in Sessions \cup {None} /\ r \in TransportType
  BY DEF HubType, TransportType
<1>2. e \in HubType /\ Same(e, h) /\ SameTimers(e, h) /\ e.transports = h.transports
      /\ SessionIs(e, h, h.transports[t].session,
                   [h.sessions[h.transports[t].session] EXCEPT !.phase = "closed"])
  BY <1>1, EndSessionFields
<1>. HIDE DEF e
<1>3. CloseSession(h, t) = [e EXCEPT !.transports[t] = r]
  BY <1>2 DEF CloseSession, HubType, e
<1>. HIDE DEF r
<1>4. LET g == [e EXCEPT !.transports[t] = r]
      IN  g \in HubType /\ Same(g, e) /\ SameTimers(g, e) /\ g.sessions = e.sessions /\ TransportIs(g, e, t, r)
  BY <1>1, <1>2, PutTransport
<1>. DEFINE g == [e EXCEPT !.transports[t] = r]
<1>5. g \in HubType /\ Same(g, e) /\ SameTimers(g, e) /\ g.sessions = e.sessions /\ TransportIs(g, e, t, r)
  BY <1>4
<1>6. CloseSession(h, t) = g
  BY <1>3
<1>. HIDE DEF g
<1>7. /\ Same(g, h) /\ SameTimers(g, h) /\ TransportIs(g, h, t, r)
      /\ SessionIs(g, h, h.transports[t].session,
                   [h.sessions[h.transports[t].session] EXCEPT !.phase = "closed"])
  BY <1>2, <1>5 DEF Same, SameTimers, SessionIs, TransportIs
<1>. QED BY <1>5, <1>6, <1>7 DEF r

SessionClosed(g, h, t) == SessionIs(g, h, h.transports[t].session, Closed(h.sessions[h.transports[t].session]))

\* What the station's listener of "close" does to the timers.
ToldOfClose(g, h) ==
  /\ ~g.commandTransport /\ g.proactive = "none"
  /\ g.reconnectTimeout = (h.reconnectTimeout \/ ~h.terminating)

LEMMA ResetFields ==
  ASSUME NEW h \in HubType, NEW t \in Transports
  PROVE  LET g == Reset(h, t)
         IN  /\ g \in HubType /\ Same(g, h) /\ SameTimers(g, h) /\ g.sessions = h.sessions
             /\ TransportIs(g, h, t, [h.transports[t] EXCEPT !.connected = FALSE, !.connecting = FALSE,
                                                            !.handoffInProgress = FALSE])
<1> DEFINE r == [h.transports[t] EXCEPT !.connected = FALSE, !.connecting = FALSE, !.handoffInProgress = FALSE]
<1>1. r \in TransportType
  BY TransportRecords, ResetRecord
<1>2. Reset(h, t) = [h EXCEPT !.transports[t] = r]
  BY DEF Reset, HubType
<1>. HIDE DEF r
<1>3. LET g == [h EXCEPT !.transports[t] = r]
      IN  g \in HubType /\ Same(g, h) /\ SameTimers(g, h) /\ g.sessions = h.sessions /\ TransportIs(g, h, t, r)
  BY <1>1, PutTransport
<1>. QED BY <1>2, <1>3 DEF r

LEMMA ScheduleFields ==
  ASSUME NEW h \in HubType
  PROVE  LET g == ScheduleRtcReconnect(h)
         IN  /\ g \in HubType /\ Same(g, h) /\ g.sessions = h.sessions /\ g.transports = h.transports
             /\ g.proactive = h.proactive /\ g.commandTransport = h.commandTransport
             /\ g.reconnectTimeout = (h.reconnectTimeout \/ ~h.terminating)
BY DEF ScheduleRtcReconnect, HubType, Same

\* Reset and CloseSession one after the other.
LEMMA DropFields ==
  ASSUME NEW h \in HubType, NEW t \in Transports
  PROVE  LET g == CloseSession(Reset(h, t), t)
         IN  /\ g \in HubType /\ Same(g, h) /\ SameTimers(g, h)
             /\ SessionClosed(g, h, t) /\ TransportIs(g, h, t, Dropped(h.transports[t]))
<1> DEFINE e == Reset(h, t)
           r == [h.transports[t] EXCEPT !.connected = FALSE, !.connecting = FALSE, !.handoffInProgress = FALSE]
           g == CloseSession(e, t)
<1>1. e \in HubType /\ Same(e, h) /\ SameTimers(e, h) /\ e.sessions = h.sessions /\ TransportIs(e, h, t, r)
  BY ResetFields
<1>. HIDE DEF e
<1>2. /\ g \in HubType /\ Same(g, e) /\ SameTimers(g, e)
      /\ SessionIs(g, e, e.transports[t].session, [e.sessions[e.transports[t].session] EXCEPT !.phase = "closed"])
      /\ TransportIs(g, e, t, [e.transports[t] EXCEPT !.session = None])
  BY <1>1, CloseSessionFields
<1>. HIDE DEF g
<1>3. Same(g, h) /\ SameTimers(g, h)
  BY <1>1, <1>2 DEF Same, SameTimers
<1>4. e.transports[t] = r /\ e.transports[t].session = h.transports[t].session
  BY <1>1 DEF TransportIs, HubType, TransportType
<1>5. SessionClosed(g, h, t)
  BY <1>1, <1>2, <1>4 DEF SessionClosed, Closed, SessionIs
<1>6. [r EXCEPT !.session = None] = Dropped(h.transports[t])
  BY DEF Dropped, HubType, TransportType
<1>. HIDE DEF r
<1>7. TransportIs(g, h, t, Dropped(h.transports[t]))
  BY <1>1, <1>2, <1>4, <1>6 DEF TransportIs
<1>. QED BY <1>2, <1>3, <1>5, <1>7 DEF g, e

LEMMA OnRtcDisconnectFields ==
  ASSUME NEW h \in HubType
  PROVE  LET g == OnRtcDisconnect(h)
         IN  /\ g \in HubType /\ Same(g, h) /\ ToldOfClose(g, h)
             /\ h.rtcTransport = None => g.sessions = h.sessions /\ g.transports = h.transports
             /\ h.rtcTransport # None =>
                  /\ SessionClosed(g, h, h.rtcTransport)
                  /\ TransportIs(g, h, h.rtcTransport, Dropped(h.transports[h.rtcTransport]))
<1> DEFINE d == [h EXCEPT !.commandTransport = FALSE, !.proactive = "none"]
           t == h.rtcTransport
           e == IF t = None THEN d ELSE CloseSession(Reset(d, t), t)
           g == ScheduleRtcReconnect(e)
<1>1. /\ d \in HubType /\ Same(d, h) /\ d.sessions = h.sessions /\ d.transports = h.transports
      /\ d.proactive = "none" /\ ~d.commandTransport /\ d.reconnectTimeout = h.reconnectTimeout
  BY DEF HubType, Same
<1>2. t \in Transports \cup {None}
  BY DEF HubType
<1>3. OnRtcDisconnect(h) = g
  BY <1>1 DEF OnRtcDisconnect, Same
<1>. HIDE DEF d
<1>4. /\ e \in HubType /\ Same(e, d) /\ SameTimers(e, d)
      /\ t = None => e.sessions = d.sessions /\ e.transports = d.transports
      /\ t # None => SessionClosed(e, d, t) /\ TransportIs(e, d, t, Dropped(d.transports[t]))
  <2>1. CASE t = None
    BY <2>1, <1>1 DEF Same, SameTimers
  <2>2. CASE t # None
    BY <2>2, <1>1, <1>2, DropFields
  <2>. QED BY <2>1, <2>2
<1>. HIDE DEF e
<1>5. /\ g \in HubType /\ Same(g, e) /\ g.sessions = e.sessions /\ g.transports = e.transports
      /\ g.proactive = e.proactive /\ g.commandTransport = e.commandTransport
      /\ g.reconnectTimeout = (e.reconnectTimeout \/ ~e.terminating)
  BY <1>4, ScheduleFields
<1>. HIDE DEF g, t
<1>6. Same(g, h) /\ ToldOfClose(g, h)
  BY <1>1, <1>4, <1>5 DEF Same, SameTimers, ToldOfClose
<1>7. t = None => g.sessions = h.sessions /\ g.transports = h.transports
  BY <1>1, <1>4, <1>5
<1>8. t # None => SessionClosed(g, h, t) /\ TransportIs(g, h, t, Dropped(h.transports[t]))
  BY <1>1, <1>4, <1>5 DEF SessionClosed, SessionIs, TransportIs
<1>. QED BY <1>3, <1>5, <1>6, <1>7, <1>8 DEF t

\* close() of the station's transport: the listener of "close", if it is called, finds it dropped.
LEMMA TransportCloseFields ==
  ASSUME NEW h \in HubType, h.rtcTransport # None
  PROVE  LET g == TransportClose(h, h.rtcTransport)
             t == h.rtcTransport
         IN  /\ g \in HubType /\ Same(g, h)
             /\ SessionClosed(g, h, t) /\ TransportIs(g, h, t, Dropped(h.transports[t]))
             /\ IF h.transports[t].connected THEN ToldOfClose(g, h) ELSE SameTimers(g, h)
<1> DEFINE t == h.rtcTransport
           c == CloseSession(Reset(h, t), t)
           g == OnRtcDisconnect(c)
<1>1. t \in Transports
  BY DEF HubType
<1>2. /\ c \in HubType /\ Same(c, h) /\ SameTimers(c, h)
      /\ SessionClosed(c, h, t) /\ TransportIs(c, h, t, Dropped(h.transports[t]))
  BY <1>1, DropFields
<1>3. TransportClose(h, t) = IF h.transports[t].connected THEN g ELSE c
  BY DEF TransportClose
<1>. HIDE DEF c
<1>4. /\ g \in HubType /\ Same(g, c) /\ ToldOfClose(g, c)
      /\ SessionClosed(g, c, t) /\ TransportIs(g, c, t, Dropped(c.transports[t]))
  BY <1>2, OnRtcDisconnectFields DEF Same
<1>. HIDE DEF g
<1>5. Same(g, h) /\ ToldOfClose(g, h)
  BY <1>2, <1>4 DEF Same, SameTimers, ToldOfClose
<1>6. c.transports[t] = Dropped(h.transports[t])
  BY <1>1, <1>2 DEF TransportIs
<1>7. Dropped(Dropped(h.transports[t])) = Dropped(h.transports[t]) /\ Dropped(h.transports[t]).session = None
  BY <1>1, TransportRecords, DroppedRecord
<1>8. TransportIs(g, h, t, Dropped(h.transports[t]))
  BY <1>2, <1>4, <1>6, <1>7 DEF TransportIs
<1>9. SessionClosed(g, h, t)
  BY <1>2, <1>4, <1>6, <1>7, NoneOther DEF SessionClosed, SessionIs
<1>. QED BY <1>2, <1>3, <1>4, <1>5, <1>8, <1>9

LEMMA ConnectFailedFields ==
  ASSUME NEW h \in HubType, NEW t \in Transports
  PROVE  LET g == ConnectFailed(h, t)
         IN  /\ g \in HubType /\ Same(g, h)
             /\ SessionClosed(g, h, t)
             /\ TransportIs(g, h, t, [h.transports[t] EXCEPT !.connecting = FALSE, !.session = None])
             /\ g.proactive = h.proactive /\ g.commandTransport = h.commandTransport
             /\ g.reconnectTimeout = (h.reconnectTimeout \/ ~h.terminating)
<1> DEFINE r == [h.transports[t] EXCEPT !.connecting = FALSE]
           e == [h EXCEPT !.transports[t].connecting = FALSE]
           c == CloseSession(e, t)
           g == ScheduleRtcReconnect(c)
<1>0. r \in TransportType
  BY TransportRecords, UnconnectingRecord
<1>1. e = [h EXCEPT !.transports[t] = r]
  BY DEF HubType
<1>2. ConnectFailed(h, t) = g
  BY DEF ConnectFailed
<1>3. r.session = h.transports[t].session
      /\ [r EXCEPT !.session = None] = [h.transports[t] EXCEPT !.connecting = FALSE, !.session = None]
  BY DEF HubType, TransportType
<1>. HIDE DEF r, e
<1>4. e \in HubType /\ Same(e, h) /\ SameTimers(e, h) /\ e.sessions = h.sessions /\ TransportIs(e, h, t, r)
  BY <1>0, <1>1, PutTransport
<1>5. /\ c \in HubType /\ Same(c, e) /\ SameTimers(c, e)
      /\ SessionIs(c, e, e.transports[t].session, [e.sessions[e.transports[t].session] EXCEPT !.phase = "closed"])
      /\ TransportIs(c, e, t, [e.transports[t] EXCEPT !.session = None])
  BY <1>4, CloseSessionFields
<1>. HIDE DEF c
<1>6. /\ g \in HubType /\ Same(g, c) /\ g.sessions = c.sessions /\ g.transports = c.transports
      /\ g.proactive = c.proactive /\ g.commandTransport = c.commandTransport
      /\ g.reconnectTimeout = (c.reconnectTimeout \/ ~c.terminating)
  BY <1>5, ScheduleFields
<1>. HIDE DEF g
<1>7. e.transports[t] = r
  BY <1>4 DEF TransportIs
<1>8. SessionClosed(g, h, t)
  BY <1>3, <1>4, <1>5, <1>6, <1>7 DEF SessionClosed, Closed, SessionIs
<1>9. TransportIs(g, h, t, [h.transports[t] EXCEPT !.connecting = FALSE, !.session = None])
  BY <1>3, <1>4, <1>5, <1>6, <1>7 DEF TransportIs
<1>. QED BY <1>2, <1>4, <1>5, <1>6, <1>8, <1>9 DEF Same, SameTimers

\* connect() of the transport begins: session s is the new one.
Beginning(t, role) == [phase |-> "connecting", pending |-> TRUE, of |-> t, role |-> role]

LEMMA NewSessionForgotten ==
  ASSUME NEW h, Forgotten(h) # {}
  PROVE  NewSession(h) \in Forgotten(h) /\ NewSession(h) \in Sessions
BY DEF NewSession, Forgotten

LEMMA TransportConnectFields ==
  ASSUME NEW h \in HubType, NEW t \in Transports, Forgotten(h) # {}
  PROVE  LET g == TransportConnect(h, t)
             s == NewSession(h)
         IN  /\ g \in HubType /\ Same(g, h) /\ SameTimers(g, h)
             /\ SessionIs(g, h, s, Beginning(t, "primary"))
             /\ TransportIs(g, h, t, [h.transports[t] EXCEPT !.connecting = TRUE, !.session = s])
<1> DEFINE s == NewSession(h)
           q == Beginning(t, "primary")
           r == [h.transports[t] EXCEPT !.connecting = TRUE, !.session = s]
           e == [h EXCEPT !.sessions[s] = q]
           g == [e EXCEPT !.transports[t] = r]
<1>1. s \in Sessions
  BY NewSessionForgotten
<1>. HIDE DEF s
<1>2. q \in SessionType
  BY DEF SessionType, Beginning, Phases
<1>3. r \in TransportType
  <2>1. ASSUME NEW x \in TransportType PROVE [x EXCEPT !.connecting = TRUE, !.session = s] \in TransportType
    BY <1>1 DEF TransportType
  <2>. QED BY <2>1, TransportRecords
<1>4. TransportConnect(h, t) = g
  <2>1. e = Started(h, s, t, "primary")
    BY DEF Started, Beginning
  <2>2. e.transports[t] = h.transports[t]
    BY DEF HubType
  <2>. HIDE DEF e
  <2>. QED BY <2>1, <2>2 DEF TransportConnect, s
<1>. HIDE DEF q, r
<1>5. /\ e \in HubType /\ Same(e, h) /\ SameTimers(e, h) /\ e.transports = h.transports
      /\ SessionIs(e, h, s, q)
  BY <1>1, <1>2, PutSession
<1>. HIDE DEF e
<1>6. /\ g \in HubType /\ Same(g, e) /\ SameTimers(g, e) /\ g.sessions = e.sessions
      /\ TransportIs(g, e, t, r)
  BY <1>3, <1>5, PutTransport
<1>. HIDE DEF g
<1>7. Same(g, h) /\ SameTimers(g, h) /\ SessionIs(g, h, s, q) /\ TransportIs(g, h, t, r)
  BY <1>5, <1>6 DEF Same, SameTimers, SessionIs, TransportIs
<1>. QED BY <1>4, <1>6, <1>7 DEF s, q, r

LEMMA WithTransportFields ==
  ASSUME NEW h \in HubType, h.made < MaxTransports
  PROVE  LET g == WithTransport(h)
         IN  /\ g \in HubType /\ SameTimers(g, h) /\ g.sessions = h.sessions
             /\ g.handoff = h.handoff /\ g.terminating = h.terminating /\ g.waking = h.waking
             /\ g.attempt = h.attempt
             /\ g.made = h.made + 1 /\ g.rtcTransport = h.made + 1 /\ g.handlerWired
             /\ h.made + 1 \in Transports
             /\ TransportIs(g, h, h.made + 1, [h.transports[h.made + 1] EXCEPT !.handler = ~h.handlerWired])
<1> DEFINE n == h.made + 1
           r == [h.transports[n] EXCEPT !.handler = ~h.handlerWired]
           e == [h EXCEPT !.transports[n] = r]
           g == [e EXCEPT !.rtcTransport = n, !.made = n, !.handlerWired = TRUE]
<1>1. n \in Transports /\ n \in 0 .. MaxTransports
  BY NoneOther DEF HubType, Transports
<1>2. r \in TransportType
  <2>1. ASSUME NEW x \in TransportType, NEW b \in BOOLEAN PROVE [x EXCEPT !.handler = b] \in TransportType
    BY DEF TransportType
  <2>2. (~h.handlerWired) \in BOOLEAN
    BY DEF HubType
  <2>. QED BY <1>1, <2>1, <2>2, TransportRecords
<1>3. WithTransport(h) = g
  BY DEF WithTransport, HubType
<1>. HIDE DEF r
<1>4. /\ e \in HubType /\ Same(e, h) /\ SameTimers(e, h) /\ e.sessions = h.sessions /\ TransportIs(e, h, n, r)
  BY <1>1, <1>2, PutTransport
<1>. HIDE DEF e
<1>5. /\ g \in HubType /\ g.sessions = e.sessions /\ g.transports = e.transports
      /\ g.handoff = e.handoff /\ g.terminating = e.terminating /\ g.waking = e.waking
      /\ g.attempt = e.attempt /\ g.made = n /\ g.rtcTransport = n /\ g.handlerWired
      /\ SameTimers(g, e)
  BY <1>1, <1>4 DEF HubType, SameTimers
<1>. HIDE DEF g
<1>. QED BY <1>1, <1>3, <1>4, <1>5 DEF Same, SameTimers, TransportIs, r

LEMMA StartHandoffFields ==
  ASSUME NEW h \in HubType, NEW attempt \in {0, 1}, h.rtcTransport # None, Forgotten(h) # {}
  PROVE  LET g == StartHandoff(h, attempt)
             s == NewSession(h)
             t == h.rtcTransport
         IN  /\ g \in HubType /\ SameTimers(g, h)
             /\ g.made = h.made /\ g.rtcTransport = h.rtcTransport /\ g.terminating = h.terminating
             /\ g.handlerWired = h.handlerWired /\ g.waking = h.waking
             /\ g.handoff = [transport |-> t, old |-> h.transports[t].session, new |-> s]
             /\ SessionIs(g, h, s, Beginning(t, "handoff"))
             /\ TransportIs(g, h, t, [h.transports[t] EXCEPT !.handoffInProgress = TRUE])
<1> DEFINE s == NewSession(h)
           t == h.rtcTransport
           q == Beginning(t, "handoff")
           r == [h.transports[t] EXCEPT !.handoffInProgress = TRUE]
           o == [transport |-> t, old |-> h.transports[t].session, new |-> s]
           e == [h EXCEPT !.sessions[s] = q]
           f == [e EXCEPT !.transports[t] = r]
           g == [f EXCEPT !.attempt = attempt, !.handoff = o]
<1>0. t \in Transports
  BY DEF HubType
<1>1. s \in Sessions
  BY NewSessionForgotten
<1>2. StartHandoff(h, attempt) = g
  <2>1. e = Started(h, s, t, "handoff")
    BY DEF Started, Beginning
  <2>2. e.transports[t] = h.transports[t]
    BY DEF HubType
  <2>. HIDE DEF e
  <2>. QED BY <2>1, <2>2 DEF StartHandoff
<1>. HIDE DEF s
<1>3. q \in SessionType
  BY <1>0 DEF SessionType, Beginning, Phases
<1>4. r \in TransportType
  <2>1. ASSUME NEW x \in TransportType PROVE [x EXCEPT !.handoffInProgress = TRUE] \in TransportType
    BY DEF TransportType
  <2>. QED BY <1>0, <2>1, TransportRecords
<1>5. o \in HandoffType
  <2>1. h.transports[t] \in TransportType
    BY <1>0, TransportRecords
  <2>. QED BY <1>0, <1>1, <2>1 DEF HandoffType, TransportType
<1>. HIDE DEF q, r, o
<1>6. /\ e \in HubType /\ Same(e, h) /\ SameTimers(e, h) /\ e.transports = h.transports
      /\ SessionIs(e, h, s, q)
  BY <1>1, <1>3, PutSession
<1>. HIDE DEF e
<1>7. /\ f \in HubType /\ Same(f, e) /\ SameTimers(f, e) /\ f.sessions = e.sessions
      /\ TransportIs(f, e, t, r)
  BY <1>0, <1>4, <1>6, PutTransport
<1>. HIDE DEF f
<1>8. /\ g \in HubType /\ SameTimers(g, f) /\ g.sessions = f.sessions /\ g.transports = f.transports
      /\ g.made = f.made /\ g.rtcTransport = f.rtcTransport /\ g.terminating = f.terminating
      /\ g.handlerWired = f.handlerWired /\ g.waking = f.waking /\ g.handoff = o
  BY <1>5, <1>7 DEF HubType, SameTimers
<1>. HIDE DEF g
<1>9. SessionIs(g, h, s, q) /\ TransportIs(g, h, t, r) /\ SameTimers(g, h)
  BY <1>6, <1>7, <1>8 DEF SameTimers, SessionIs, TransportIs
<1>. QED BY <1>2, <1>6, <1>7, <1>8, <1>9 DEF Same, s, q, r, o

\* A session that is not used for the transport any more, and what the other one becomes.
Retired(q) == [q EXCEPT !.phase = "closed", !.role = "none"]

LEMMA HandoffFailsFields ==
  ASSUME NEW h \in HubType, h.handoff.transport # None, h.handoff.new # None
  PROVE  LET t == h.handoff.transport
             kept == [h EXCEPT !.sessions[h.handoff.new] = [@ EXCEPT !.phase = "closed", !.role = "none"],
                               !.transports[t] = [@ EXCEPT !.session = h.handoff.old, !.handoffInProgress = FALSE],
                               !.handoff = NoHandoff]
         IN  /\ kept \in HubType /\ SameTimers(kept, h)
             /\ kept.made = h.made /\ kept.rtcTransport = h.rtcTransport
             /\ kept.terminating = h.terminating /\ kept.handlerWired = h.handlerWired
             /\ kept.waking = h.waking /\ kept.handoff = NoHandoff
             /\ SessionIs(kept, h, h.handoff.new, Retired(h.sessions[h.handoff.new]))
             /\ TransportIs(kept, h, t, [h.transports[t] EXCEPT !.session = h.handoff.old,
                                                               !.handoffInProgress = FALSE])
<1> DEFINE t == h.handoff.transport
           n == h.handoff.new
           o == h.handoff.old
           q == Retired(h.sessions[n])
           r == [h.transports[t] EXCEPT !.session = o, !.handoffInProgress = FALSE]
           e == [h EXCEPT !.sessions[n] = q]
           f == [e EXCEPT !.transports[t] = r]
           g == [f EXCEPT !.handoff = NoHandoff]
           kept == [h EXCEPT !.sessions[h.handoff.new] = [@ EXCEPT !.phase = "closed", !.role = "none"],
                               !.transports[t] = [@ EXCEPT !.session = h.handoff.old, !.handoffInProgress = FALSE],
                               !.handoff = NoHandoff]
<1>1. t \in Transports /\ n \in Sessions /\ o \in Sessions \cup {None}
  BY DEF HubType, HandoffType
<1>2. q \in SessionType
  <2>1. ASSUME NEW x \in SessionType PROVE Retired(x) \in SessionType
    BY DEF SessionType, Retired, Phases
  <2>. QED BY <1>1, <2>1, SessionRecords
<1>3. r \in TransportType
  <2>1. ASSUME NEW x \in TransportType PROVE [x EXCEPT !.session = o, !.handoffInProgress = FALSE] \in TransportType
    BY <1>1 DEF TransportType
  <2>. QED BY <1>1, <2>1, TransportRecords
<1>4. kept = g
  BY <1>1 DEF HubType, Retired
<1>. HIDE DEF q, r, kept, n, t, o
<1>5. /\ e \in HubType /\ Same(e, h) /\ SameTimers(e, h) /\ e.transports = h.transports
      /\ SessionIs(e, h, n, q)
  BY <1>1, <1>2, PutSession
<1>. HIDE DEF e
<1>6. /\ f \in HubType /\ Same(f, e) /\ SameTimers(f, e) /\ f.sessions = e.sessions
      /\ TransportIs(f, e, t, r)
  BY <1>1, <1>3, <1>5, PutTransport
<1>. HIDE DEF f
<1>7. NoHandoff \in HandoffType
  BY DEF NoHandoff, HandoffType
<1>8. /\ g \in HubType /\ SameTimers(g, f) /\ g.sessions = f.sessions /\ g.transports = f.transports
      /\ g.made = f.made /\ g.rtcTransport = f.rtcTransport /\ g.terminating = f.terminating
      /\ g.handlerWired = f.handlerWired /\ g.waking = f.waking /\ g.handoff = NoHandoff
  BY <1>6, <1>7 DEF HubType, SameTimers
<1>. HIDE DEF g
<1>9. SessionIs(g, h, n, q) /\ TransportIs(g, h, t, r) /\ SameTimers(g, h)
  BY <1>5, <1>6, <1>8 DEF SameTimers, SessionIs, TransportIs
<1>. QED BY <1>4, <1>5, <1>6, <1>8, <1>9 DEF Same, q, r, n, t, o, kept

\* The new session of a handoff that succeeds is h.handoff.new; the old one is h.handoff.old.
LEMMA HandoffSucceedsFields ==
  ASSUME NEW h \in HubType, h.handoff.transport # None, h.handoff.new # None, h.handoff.old # None,
         h.handoff.old # h.handoff.new
  PROVE  LET g == HandoffSucceeds(h)
             t == h.handoff.transport
         IN  /\ g \in HubType
             /\ g.made = h.made /\ g.rtcTransport = h.rtcTransport
             /\ g.terminating = h.terminating /\ g.handlerWired = h.handlerWired
             /\ g.waking = h.waking /\ g.handoff = NoHandoff
             /\ g.reconnectTimeout = h.reconnectTimeout /\ g.commandTransport = h.commandTransport
             /\ g.proactive = IF h.terminating THEN h.proactive ELSE "refresh"
             /\ \A u \in Sessions : g.sessions[u] =
                  IF u = h.handoff.new THEN [h.sessions[u] EXCEPT !.role = "primary"]
                  ELSE IF u = h.handoff.old THEN Retired(h.sessions[u]) ELSE h.sessions[u]
             /\ TransportIs(g, h, t, [h.transports[t] EXCEPT !.session = h.handoff.new,
                                                            !.handoffInProgress = FALSE])
<1> DEFINE t == h.handoff.transport
           n == h.handoff.new
           o == h.handoff.old
           p == [h.sessions[n] EXCEPT !.role = "primary"]
           q == Retired(h.sessions[o])
           r == [h.transports[t] EXCEPT !.session = n, !.handoffInProgress = FALSE]
           d == [h EXCEPT !.sessions[n] = p]
           e == [d EXCEPT !.sessions[o] = q]
           f == [e EXCEPT !.transports[t] = r]
           g == [f EXCEPT !.handoff = NoHandoff]
           swapped == [h EXCEPT !.transports[t] = [@ EXCEPT !.session = h.handoff.new, !.handoffInProgress = FALSE],
                           !.sessions[h.handoff.new].role = "primary",
                           !.sessions[h.handoff.old] = [@ EXCEPT !.phase = "closed", !.role = "none"],
                           !.handoff = NoHandoff]
<1>1. t \in Transports /\ n \in Sessions /\ o \in Sessions /\ o # n
  BY DEF HubType, HandoffType
<1>2. p \in SessionType /\ q \in SessionType
  <2>1. ASSUME NEW x \in SessionType PROVE Retired(x) \in SessionType /\ [x EXCEPT !.role = "primary"] \in SessionType
    BY DEF SessionType, Retired, Phases
  <2>. QED BY <1>1, <2>1, SessionRecords
<1>3. r \in TransportType
  <2>1. ASSUME NEW x \in TransportType PROVE [x EXCEPT !.session = n, !.handoffInProgress = FALSE] \in TransportType
    BY <1>1 DEF TransportType
  <2>. QED BY <1>1, <2>1, TransportRecords
<1>4. swapped = g
  BY <1>1 DEF HubType, Retired
<1>0. HandoffSucceeds(h) = IF h.terminating THEN swapped ELSE [swapped EXCEPT !.proactive = "refresh"]
  BY DEF HandoffSucceeds
<1>10. p = [h.sessions[n] EXCEPT !.role = "primary"] /\ q = Retired(h.sessions[o])
  OBVIOUS
<1>. HIDE DEF p, q, r, swapped, n, t, o
<1>5. /\ d \in HubType /\ Same(d, h) /\ SameTimers(d, h) /\ d.transports = h.transports
      /\ SessionIs(d, h, n, p)
  BY <1>1, <1>2, PutSession
<1>. HIDE DEF d
<1>6. /\ e \in HubType /\ Same(e, d) /\ SameTimers(e, d) /\ e.transports = d.transports
      /\ SessionIs(e, d, o, q)
  BY <1>1, <1>2, <1>5, PutSession
<1>. HIDE DEF e
<1>7. /\ f \in HubType /\ Same(f, e) /\ SameTimers(f, e) /\ f.sessions = e.sessions
      /\ TransportIs(f, e, t, r)
  BY <1>1, <1>3, <1>6, PutTransport
<1>. HIDE DEF f
<1>8. /\ g \in HubType /\ SameTimers(g, f) /\ g.sessions = f.sessions /\ g.transports = f.transports
      /\ g.made = f.made /\ g.rtcTransport = f.rtcTransport /\ g.terminating = f.terminating
      /\ g.handlerWired = f.handlerWired /\ g.waking = f.waking /\ g.handoff = NoHandoff
  <2>1. NoHandoff \in HandoffType
    BY DEF NoHandoff, HandoffType
  <2>. QED BY <1>7, <2>1 DEF HubType, SameTimers
<1>. HIDE DEF g
<1>9. /\ \A u \in Sessions : g.sessions[u] = IF u = n THEN p ELSE IF u = o THEN q ELSE h.sessions[u]
      /\ TransportIs(g, h, t, r) /\ SameTimers(g, h)
  BY <1>1, <1>5, <1>6, <1>7, <1>8 DEF SameTimers, SessionIs, TransportIs
<1> DEFINE k == IF h.terminating THEN g ELSE [g EXCEPT !.proactive = "refresh"]
<1>11. /\ k \in HubType /\ k.sessions = g.sessions /\ k.transports = g.transports
       /\ k.made = g.made /\ k.rtcTransport = g.rtcTransport /\ k.terminating = g.terminating
       /\ k.handlerWired = g.handlerWired /\ k.waking = g.waking /\ k.handoff = g.handoff
       /\ k.reconnectTimeout = g.reconnectTimeout /\ k.commandTransport = g.commandTransport
       /\ k.proactive = IF h.terminating THEN g.proactive ELSE "refresh"
  BY <1>8 DEF HubType
<1>12. HandoffSucceeds(h) = k
  BY <1>0, <1>4
<1>. HIDE DEF k
<1>13. /\ k \in HubType /\ k.made = h.made /\ k.rtcTransport = h.rtcTransport
       /\ k.terminating = h.terminating /\ k.handlerWired = h.handlerWired
       /\ k.waking = h.waking /\ k.handoff = NoHandoff
  BY <1>5, <1>6, <1>7, <1>8, <1>11 DEF Same
<1>14. /\ k.reconnectTimeout = h.reconnectTimeout /\ k.commandTransport = h.commandTransport
       /\ k.proactive = IF h.terminating THEN h.proactive ELSE "refresh"
  BY <1>9, <1>11 DEF SameTimers
<1>15. \A u \in Sessions : k.sessions[u] =
          IF u = h.handoff.new THEN [h.sessions[u] EXCEPT !.role = "primary"]
          ELSE IF u = h.handoff.old THEN Retired(h.sessions[u]) ELSE h.sessions[u]
  BY <1>9, <1>10, <1>11 DEF n, o
<1>16. TransportIs(k, h, h.handoff.transport,
                   [h.transports[h.handoff.transport] EXCEPT !.session = h.handoff.new, !.handoffInProgress = FALSE])
  BY <1>9, <1>11 DEF TransportIs, r, n, t
<1>. QED BY <1>12, <1>13, <1>14, <1>15, <1>16 DEF t

-----------------------------------------------------------------------------
(* What holds whatever happens *)

\* Sessions in use know their transport, and only those are referred to.
Known(h) ==
  /\ \A s \in Sessions : /\ h.sessions[s].phase # "free" => h.sessions[s].of \in 1 .. h.made
                         /\ h.sessions[s].phase = "free" => ~h.sessions[s].pending
  /\ \A t \in Transports : h.transports[t].session # None =>
                             h.sessions[h.transports[t].session].phase # "free"
  /\ h.handoff # NoHandoff =>
       /\ h.handoff.transport # None /\ h.handoff.new # None /\ h.handoff.old # None
       /\ h.handoff.new # h.handoff.old
       /\ h.sessions[h.handoff.new].phase # "free" /\ h.sessions[h.handoff.old].phase # "free"

\* The station has the newest transport or none, and does without after close() only.
MadeOnce(h) ==
  /\ h.rtcTransport \in {None, h.made}
  /\ ~h.terminating => h.rtcTransport = h.made
  /\ h.terminating => ~h.reconnectTimeout

Base(h) == h \in HubType /\ Known(h) /\ MadeOnce(h)

\* What most methods do to sessions: they go on or end, with the same transport.
SameOwners(g, h) ==
  /\ g.made = h.made /\ g.handoff \in {h.handoff, NoHandoff}
  /\ \A s \in Sessions : /\ g.sessions[s].of = h.sessions[s].of
                         /\ g.sessions[s].phase = "free" <=> h.sessions[s].phase = "free"
                         /\ g.sessions[s].pending => h.sessions[s].pending
  /\ \A t \in Transports :
       g.transports[t].session \in {None, h.transports[t].session, h.handoff.old, h.handoff.new}

LEMMA HandoffNames ==
  ASSUME NEW h \in HubType
  PROVE  /\ h.handoff.old \in Sessions \cup {None} /\ h.handoff.new \in Sessions \cup {None}
         /\ h.handoff.transport \in Transports \cup {None}
         /\ h.handoff = NoHandoff => h.handoff.old = None /\ h.handoff.new = None
BY DEF HubType, HandoffType, NoHandoff

LEMMA KnownKept ==
  ASSUME NEW h \in HubType, NEW g \in HubType, Known(h), SameOwners(g, h)
  PROVE  Known(g)
<1>1. \A s \in Sessions : /\ g.sessions[s].phase # "free" => g.sessions[s].of \in 1 .. g.made
                          /\ g.sessions[s].phase = "free" => ~g.sessions[s].pending
  BY DEF Known, SameOwners
<1>2. ASSUME NEW t \in Transports, g.transports[t].session # None
      PROVE  g.sessions[g.transports[t].session].phase # "free"
  <2>1. g.transports[t].session \in Sessions
    BY <1>2, TransportRecords DEF TransportType
  <2>2. h.sessions[g.transports[t].session].phase # "free"
    BY <1>2, HandoffNames DEF Known, SameOwners
  <2>. QED BY <2>1, <2>2 DEF SameOwners
<1>3. g.handoff # NoHandoff =>
       /\ g.handoff.transport # None /\ g.handoff.new # None /\ g.handoff.old # None
       /\ g.handoff.new # g.handoff.old
       /\ g.sessions[g.handoff.new].phase # "free" /\ g.sessions[g.handoff.old].phase # "free"
  BY HandoffNames DEF Known, SameOwners
<1>. QED BY <1>1, <1>2, <1>3 DEF Known

\* A session that is closed goes on belonging to its transport.
LEMMA ClosedOwners ==
  ASSUME NEW h, Base(h), NEW g \in HubType, NEW t \in Transports, NEW r \in TransportType,
         g.made = h.made, g.handoff = h.handoff, SessionClosed(g, h, t), TransportIs(g, h, t, r),
         r.session = None
  PROVE  SameOwners(g, h)
<1>1. \A s \in Sessions : /\ g.sessions[s].of = h.sessions[s].of
                          /\ g.sessions[s].phase = "free" <=> h.sessions[s].phase = "free"
                          /\ g.sessions[s].pending => h.sessions[s].pending
  <2>1. TAKE s \in Sessions
  <2>2. CASE s = h.transports[t].session
    <3>1. h.sessions[s].phase # "free" /\ s # None
      BY <2>2, NoneOther DEF Base, Known
    <3>2. h.sessions[s] \in SessionType
      BY SessionRecords DEF Base
    <3>3. g.sessions[s] = Closed(h.sessions[s])
      BY <2>2 DEF SessionClosed, SessionIs
    <3>. QED BY <3>1, <3>2, <3>3 DEF Closed, SessionType
  <2>3. CASE s # h.transports[t].session
    BY <2>3 DEF SessionClosed, SessionIs
  <2>. QED BY <2>2, <2>3
<1>2. \A u \in Transports : g.transports[u].session \in {None, h.transports[u].session}
  BY DEF TransportIs
<1>. QED BY <1>1, <1>2 DEF SameOwners

LEMMA ScheduleBase ==
  ASSUME NEW h, Base(h)
  PROVE  Base(ScheduleRtcReconnect(h))
<1> DEFINE g == ScheduleRtcReconnect(h)
<1>1. /\ g \in HubType /\ Same(g, h) /\ g.sessions = h.sessions /\ g.transports = h.transports
      /\ g.reconnectTimeout = (h.reconnectTimeout \/ ~h.terminating)
  BY ScheduleFields DEF Base
<1>. HIDE DEF g
<1>2. SameOwners(g, h)
  BY <1>1 DEF SameOwners, Same
<1>3. Known(g)
  BY <1>1, <1>2, KnownKept DEF Base
<1>4. MadeOnce(g)
  BY <1>1 DEF Base, MadeOnce, Same
<1>. QED BY <1>1, <1>3, <1>4 DEF Base, g

LEMMA TransportCloseBase ==
  ASSUME NEW h, Base(h), h.rtcTransport # None
  PROVE  Base(TransportClose(h, h.rtcTransport))
<1> DEFINE t == h.rtcTransport
           g == TransportClose(h, t)
<1>0. h \in HubType /\ t \in Transports
  BY DEF Base, HubType
<1>1. /\ g \in HubType /\ Same(g, h)
      /\ SessionClosed(g, h, t) /\ TransportIs(g, h, t, Dropped(h.transports[t]))
      /\ IF h.transports[t].connected THEN ToldOfClose(g, h) ELSE SameTimers(g, h)
  BY <1>0, TransportCloseFields
<1>. HIDE DEF g, t
<1>2. Dropped(h.transports[t]) \in TransportType /\ Dropped(h.transports[t]).session = None
  BY <1>0, TransportRecords, DroppedRecord
<1>3. SameOwners(g, h)
  BY <1>0, <1>1, <1>2, ClosedOwners DEF Same
<1>4. Known(g)
  BY <1>0, <1>1, <1>3, KnownKept DEF Base
<1>5. MadeOnce(g)
  BY <1>1 DEF Base, MadeOnce, Same, SameTimers, ToldOfClose
<1>. QED BY <1>1, <1>4, <1>5 DEF Base, g, t

LEMMA ConnectFailedBase ==
  ASSUME NEW h, Base(h), NEW t \in Transports
  PROVE  Base(ConnectFailed(h, t))
<1> DEFINE g == ConnectFailed(h, t)
           r == [h.transports[t] EXCEPT !.connecting = FALSE, !.session = None]
<1>1. /\ g \in HubType /\ Same(g, h) /\ SessionClosed(g, h, t) /\ TransportIs(g, h, t, r)
      /\ g.reconnectTimeout = (h.reconnectTimeout \/ ~h.terminating)
  BY ConnectFailedFields DEF Base
<1>2. r \in TransportType /\ r.session = None
  <2>1. ASSUME NEW x \in TransportType
        PROVE  LET y == [x EXCEPT !.connecting = FALSE, !.session = None] IN y \in TransportType /\ y.session = None
    BY DEF TransportType
  <2>. QED BY <2>1, TransportRecords DEF Base
<1>. HIDE DEF g, r
<1>3. SameOwners(g, h)
  BY <1>1, <1>2, ClosedOwners DEF Same
<1>4. Known(g)
  BY <1>1, <1>3, KnownKept DEF Base
<1>5. MadeOnce(g)
  BY <1>1 DEF Base, MadeOnce, Same
<1>. QED BY <1>1, <1>4, <1>5 DEF Base, g

\* Methods that only touch timers and flags.
LEMMA FlatBase ==
  ASSUME NEW h, Base(h), NEW g \in HubType, g.sessions = h.sessions, g.transports = h.transports,
         g.handoff = h.handoff, g.made = h.made, MadeOnce(g)
  PROVE  Base(g)
<1>1. SameOwners(g, h)
  BY DEF SameOwners
<1>. QED BY <1>1, KnownKept DEF Base

LEMMA OnRtcDisconnectBase ==
  ASSUME NEW h, Base(h)
  PROVE  Base(OnRtcDisconnect(h))
<1> DEFINE g == OnRtcDisconnect(h)
           t == h.rtcTransport
<1>1. /\ g \in HubType /\ Same(g, h) /\ ToldOfClose(g, h)
      /\ t = None => g.sessions = h.sessions /\ g.transports = h.transports
      /\ t # None => SessionClosed(g, h, t) /\ TransportIs(g, h, t, Dropped(h.transports[t]))
  BY OnRtcDisconnectFields DEF Base
<1>2. t \in Transports \cup {None} /\ h \in HubType
  BY DEF Base, HubType
<1>. HIDE DEF g, t
<1>3. MadeOnce(g)
  BY <1>1 DEF Base, MadeOnce, Same, ToldOfClose
<1>4. CASE t = None
  BY <1>1, <1>3, <1>4, FlatBase DEF Same, g
<1>5. CASE t # None
  <2>1. Dropped(h.transports[t]) \in TransportType /\ Dropped(h.transports[t]).session = None
    BY <1>2, <1>5, TransportRecords, DroppedRecord
  <2>2. SameOwners(g, h)
    BY <1>1, <1>2, <1>5, <2>1, ClosedOwners DEF Same
  <2>. QED BY <1>1, <1>2, <1>3, <2>2, KnownKept DEF Base, g
<1>. QED BY <1>4, <1>5

LEMMA ResetBase ==
  ASSUME NEW h, Base(h), NEW t \in Transports
  PROVE  Base(Reset(h, t))
<1> DEFINE g == Reset(h, t)
           r == [h.transports[t] EXCEPT !.connected = FALSE, !.connecting = FALSE, !.handoffInProgress = FALSE]
<1>1. /\ g \in HubType /\ Same(g, h) /\ SameTimers(g, h) /\ g.sessions = h.sessions /\ TransportIs(g, h, t, r)
  BY ResetFields DEF Base
<1>2. r.session = h.transports[t].session
  <2>1. ASSUME NEW x \in TransportType
        PROVE  [x EXCEPT !.connected = FALSE, !.connecting = FALSE, !.handoffInProgress = FALSE].session = x.session
    BY DEF TransportType
  <2>. QED BY <2>1, TransportRecords DEF Base
<1>. HIDE DEF g, r
<1>3. SameOwners(g, h)
  BY <1>1, <1>2 DEF SameOwners, TransportIs, Same
<1>4. MadeOnce(g)
  BY <1>1 DEF Base, MadeOnce, Same, SameTimers
<1>. QED BY <1>1, <1>3, <1>4, KnownKept DEF Base, g

\* The identity of a new session is one that nothing refers to.
LEMMA ForgottenSession ==
  ASSUME NEW h, NEW s \in Forgotten(h)
  PROVE  /\ s \in Sessions /\ ~h.sessions[s].pending /\ h.sessions[s].phase \in {"free", "closed", "down"}
         /\ s # h.handoff.old /\ s # h.handoff.new
         /\ \A t \in Transports : h.transports[t].session # s
BY DEF Forgotten, Referenced

LEMMA TransportConnectBase ==
  ASSUME NEW h, Base(h), h.rtcTransport # None, Forgotten(h) # {}
  PROVE  Base(TransportConnect(h, h.rtcTransport))
<1> DEFINE t == h.rtcTransport
           g == TransportConnect(h, t)
           s == NewSession(h)
           r == [h.transports[t] EXCEPT !.connecting = TRUE, !.session = s]
<1>1. h \in HubType /\ t \in Transports /\ t \in 1 .. h.made
  BY NoneOther DEF Base, HubType, MadeOnce, Transports
<1>2. s \in Forgotten(h) /\ s \in Sessions
  BY NewSessionForgotten
<1>3. /\ g \in HubType /\ Same(g, h) /\ SameTimers(g, h)
      /\ SessionIs(g, h, s, Beginning(t, "primary")) /\ TransportIs(g, h, t, r)
  BY <1>1, TransportConnectFields
<1>4. r.session = s
  <2>1. ASSUME NEW x \in TransportType PROVE [x EXCEPT !.connecting = TRUE, !.session = s].session = s
    BY DEF TransportType
  <2>. QED BY <1>1, <2>1, TransportRecords
<1>. HIDE DEF g, t, s, r
<1>5. \A u \in Sessions : /\ g.sessions[u].phase # "free" => g.sessions[u].of \in 1 .. g.made
                          /\ g.sessions[u].phase = "free" => ~g.sessions[u].pending
  BY <1>1, <1>3 DEF Base, Known, SessionIs, Beginning, Same
<1>6. \A u \in Transports : g.transports[u].session # None => g.sessions[g.transports[u].session].phase # "free"
  <2>1. TAKE u \in Transports
  <2>2. CASE u = t
    BY <1>2, <1>3, <1>4, <2>2 DEF TransportIs, SessionIs, Beginning
  <2>3. CASE u # t /\ h.transports[u].session # None
    <3>1. g.transports[u] = h.transports[u] /\ h.transports[u].session \in Sessions /\ h.transports[u].session # s
      BY <1>1, <1>2, <1>3, <2>3, ForgottenSession, TransportRecords DEF TransportIs, TransportType
    <3>. QED BY <1>3, <2>3, <3>1 DEF SessionIs, Base, Known
  <2>. QED BY <1>3, <2>2, <2>3 DEF TransportIs
<1>7. g.handoff # NoHandoff =>
       /\ g.handoff.transport # None /\ g.handoff.new # None /\ g.handoff.old # None
       /\ g.handoff.new # g.handoff.old
       /\ g.sessions[g.handoff.new].phase # "free" /\ g.sessions[g.handoff.old].phase # "free"
  <2>1. s # h.handoff.new /\ s # h.handoff.old
    BY <1>2, ForgottenSession
  <2>. QED BY <1>1, <1>3, <2>1, HandoffNames DEF Base, Known, Same, SessionIs
<1>8. MadeOnce(g)
  BY <1>3 DEF Base, MadeOnce, Same, SameTimers
<1>. QED BY <1>3, <1>5, <1>6, <1>7, <1>8 DEF Base, Known, g, t

LEMMA WithTransportBase ==
  ASSUME NEW h, Base(h), h.rtcTransport = None, h.made < MaxTransports, ~h.terminating => h.made = 0
  PROVE  LET g == WithTransport(h) IN Base(g) /\ g.rtcTransport # None
<1> DEFINE g == WithTransport(h)
           r == [h.transports[h.made + 1] EXCEPT !.handler = ~h.handlerWired]
<1>1. /\ g \in HubType /\ SameTimers(g, h) /\ g.sessions = h.sessions
      /\ g.handoff = h.handoff /\ g.terminating = h.terminating
      /\ g.made = h.made + 1 /\ g.rtcTransport = h.made + 1 /\ h.made + 1 \in Transports
      /\ TransportIs(g, h, h.made + 1, r)
  BY WithTransportFields DEF Base
<1>2. h.made \in Nat /\ h \in HubType
  BY NoneOther DEF Base, HubType
<1>3. r.session = h.transports[h.made + 1].session
  <2>1. ASSUME NEW x \in TransportType, NEW b PROVE [x EXCEPT !.handler = b].session = x.session
    BY DEF TransportType
  <2>. QED BY <1>1, <1>2, <2>1, TransportRecords
<1>. HIDE DEF g, r
<1>4. \A t \in Transports : g.transports[t].session = h.transports[t].session
  BY <1>1, <1>3 DEF TransportIs
<1>5. Known(g)
  <2>1. \A u \in Sessions : h.sessions[u].of \in 1 .. h.made => h.sessions[u].of \in 1 .. g.made
    BY <1>1, <1>2
  <2>. QED BY <1>1, <1>4, <2>1 DEF Base, Known
<1>6. MadeOnce(g)
  BY <1>1, <1>2 DEF Base, MadeOnce, SameTimers
<1>. QED BY <1>1, <1>2, <1>5, <1>6, NoneOther DEF Base, g, Transports

LEMMA ForgottenStill ==
  ASSUME NEW h \in HubType, NEW g, g.sessions = h.sessions, g.handoff = h.handoff,
         \A t \in Transports : g.transports[t].session = h.transports[t].session
  PROVE  Forgotten(g) = Forgotten(h)
BY DEF Forgotten, Referenced

LEMMA ConnectRtcBase ==
  ASSUME NEW h, Base(h), Forgotten(h) # {}, h.rtcTransport = None => h.made < MaxTransports
  PROVE  Base(ConnectRtc(h))
<1>1. CASE h.rtcTransport = None
  <2> DEFINE m == WithTransport(h)
             r == [h.transports[h.made + 1] EXCEPT !.handler = ~h.handlerWired]
  <2>1. ~h.terminating => h.made = 0
    BY <1>1 DEF Base, MadeOnce, None
  <2>2. Base(m) /\ m.rtcTransport # None
    BY <1>1, <2>1, WithTransportBase
  <2>3. /\ m.sessions = h.sessions /\ m.handoff = h.handoff /\ TransportIs(m, h, h.made + 1, r)
        /\ h.made + 1 \in Transports
    BY <1>1, WithTransportFields DEF Base
  <2>4. r.session = h.transports[h.made + 1].session
    <3>1. ASSUME NEW x \in TransportType, NEW b PROVE [x EXCEPT !.handler = b].session = x.session
      BY DEF TransportType
    <3>. QED BY <2>3, <3>1, TransportRecords DEF Base
  <2>. HIDE DEF m, r
  <2>5. Forgotten(m) # {}
    BY <2>3, <2>4, ForgottenStill DEF Base, TransportIs
  <2>6. Base(TransportConnect(m, m.rtcTransport))
    BY <2>2, <2>5, TransportConnectBase
  <2>. QED BY <1>1, <2>6 DEF ConnectRtc, m
<1>2. CASE h.rtcTransport # None
  BY <1>2, TransportConnectBase DEF ConnectRtc
<1>. QED BY <1>1, <1>2

LEMMA HardReconnectBase ==
  ASSUME NEW h, Base(h)
  PROVE  Base(HardReconnect(h))
<1> DEFINE c == [h EXCEPT !.proactive = "none"]
<1>1. /\ c \in HubType /\ c.sessions = h.sessions /\ c.transports = h.transports /\ c.handoff = h.handoff
      /\ c.made = h.made /\ c.rtcTransport = h.rtcTransport /\ MadeOnce(c)
  BY DEF Base, HubType, MadeOnce
<1>2. HardReconnect(h) = IF c.rtcTransport = None THEN c ELSE TransportClose(c, c.rtcTransport)
  BY <1>1 DEF HardReconnect
<1>. HIDE DEF c
<1>3. Base(c)
  BY <1>1, FlatBase
<1>. QED BY <1>2, <1>3, TransportCloseBase

LEMMA ProbeExistingBase ==
  ASSUME NEW h, Base(h), NEW timer \in {"probe", "reprobe"}
  PROVE  Base(ProbeExisting(h, timer))
<1> DEFINE c == [h EXCEPT !.proactive = timer]
<1>1. /\ c \in HubType /\ c.sessions = h.sessions /\ c.transports = h.transports /\ c.handoff = h.handoff
      /\ c.made = h.made /\ MadeOnce(c)
  BY DEF Base, HubType, MadeOnce
<1>2. ProbeExisting(h, timer) = c \/ ProbeExisting(h, timer) = HardReconnect(h)
  BY DEF ProbeExisting
<1>. HIDE DEF c
<1>. QED BY <1>1, <1>2, FlatBase, HardReconnectBase

LEMMA StartHandoffBase ==
  ASSUME NEW h, Base(h), NEW attempt \in {0, 1}, Forgotten(h) # {}, h.rtcTransport # None,
         h.transports[h.rtcTransport].session # None
  PROVE  Base(StartHandoff(h, attempt))
<1> DEFINE t == h.rtcTransport
           g == StartHandoff(h, attempt)
           s == NewSession(h)
           o == h.transports[t].session
           r == [h.transports[t] EXCEPT !.handoffInProgress = TRUE]
<1>1. h \in HubType /\ t \in Transports /\ t \in 1 .. h.made
  BY NoneOther DEF Base, HubType, MadeOnce, Transports
<1>2. s \in Forgotten(h) /\ s \in Sessions
  BY NewSessionForgotten
<1>3. /\ g \in HubType /\ SameTimers(g, h)
      /\ g.made = h.made /\ g.rtcTransport = h.rtcTransport /\ g.terminating = h.terminating
      /\ g.handoff = [transport |-> t, old |-> o, new |-> s]
      /\ SessionIs(g, h, s, Beginning(t, "handoff")) /\ TransportIs(g, h, t, r)
  BY <1>1, StartHandoffFields
<1>4. r.session = o
  <2>1. ASSUME NEW x \in TransportType PROVE [x EXCEPT !.handoffInProgress = TRUE].session = x.session
    BY DEF TransportType
  <2>. QED BY <1>1, <2>1, TransportRecords
<1>9. o \in Sessions /\ o # s /\ h.sessions[o].phase # "free"
  BY <1>1, <1>2, ForgottenSession, TransportRecords DEF TransportType, Base, Known
<1>. HIDE DEF g, s, r
<1>5. \A u \in Sessions : /\ g.sessions[u].phase # "free" => g.sessions[u].of \in 1 .. g.made
                          /\ g.sessions[u].phase = "free" => ~g.sessions[u].pending
  BY <1>1, <1>3 DEF Base, Known, SessionIs, Beginning
<1>6. \A u \in Transports : g.transports[u].session # None => g.sessions[g.transports[u].session].phase # "free"
  <2>1. TAKE u \in Transports
  <2>2. g.transports[u].session = h.transports[u].session
    BY <1>3, <1>4 DEF TransportIs
  <2>3. CASE h.transports[u].session # None
    <3>1. h.transports[u].session \in Sessions /\ h.transports[u].session # s
      BY <1>1, <1>2, <2>3, ForgottenSession, TransportRecords DEF TransportType
    <3>. QED BY <1>3, <2>2, <2>3, <3>1 DEF SessionIs, Base, Known
  <2>. QED BY <2>2, <2>3
<1>7. /\ g.handoff.transport # None /\ g.handoff.new # None /\ g.handoff.old # None
      /\ g.handoff.new # g.handoff.old
      /\ g.sessions[g.handoff.new].phase # "free" /\ g.sessions[g.handoff.old].phase # "free"
  BY <1>1, <1>2, <1>3, <1>9, NoneOther DEF SessionIs, Beginning
<1>8. MadeOnce(g)
  BY <1>3 DEF Base, MadeOnce, SameTimers
<1>. QED BY <1>3, <1>5, <1>6, <1>7, <1>8 DEF Base, Known, g

LEMMA AttemptHandoffBase ==
  ASSUME NEW h, Base(h), NEW attempt \in {0, 1}, Forgotten(h) # {}
  PROVE  Base(AttemptHandoff(h, attempt))
<1> DEFINE c == [h EXCEPT !.proactive = "refresh"]
           d == [h EXCEPT !.attempt = attempt]
           r == h.transports[h.rtcTransport]
           g == AttemptHandoff(h, attempt)
<1>1. Base(c)
  <2>1. /\ c \in HubType /\ c.sessions = h.sessions /\ c.transports = h.transports /\ c.handoff = h.handoff
        /\ c.made = h.made /\ MadeOnce(c)
    BY DEF Base, HubType, MadeOnce
  <2>. HIDE DEF c
  <2>. QED BY <2>1, FlatBase
<1>2. Base(d)
  <2>1. /\ d \in HubType /\ d.sessions = h.sessions /\ d.transports = h.transports /\ d.handoff = h.handoff
        /\ d.made = h.made /\ MadeOnce(d)
    BY DEF Base, HubType, MadeOnce
  <2>. HIDE DEF d
  <2>. QED BY <2>1, FlatBase
<1>. HIDE DEF c, d
<1>3. Base(ProbeExisting(d, "probe"))
  BY <1>2, ProbeExistingBase
<1>4. \/ g = h \/ g = c \/ g = ProbeExisting(d, "probe")
      \/ h.rtcTransport # None /\ r.session # None /\ g = StartHandoff(h, attempt)
  BY DEF AttemptHandoff, Connected, c, d
<1>. HIDE DEF g
<1>. QED BY <1>1, <1>3, <1>4, StartHandoffBase DEF g

LEMMA HandoffFailsBase ==
  ASSUME NEW h, Base(h), h.handoff # NoHandoff
  PROVE  Base(HandoffFails(h))
<1> DEFINE t == h.handoff.transport
           kept == [h EXCEPT !.sessions[h.handoff.new] = [@ EXCEPT !.phase = "closed", !.role = "none"],
                             !.transports[t] = [@ EXCEPT !.session = h.handoff.old, !.handoffInProgress = FALSE],
                             !.handoff = NoHandoff]
           r == [h.transports[t] EXCEPT !.session = h.handoff.old, !.handoffInProgress = FALSE]
<1>1. /\ h.handoff.transport # None /\ h.handoff.new # None /\ h.handoff.old # None
      /\ h.sessions[h.handoff.new].phase # "free" /\ h \in HubType
      /\ t \in Transports /\ h.handoff.new \in Sessions
  BY HandoffNames DEF Base, Known
<1>2. /\ kept \in HubType /\ SameTimers(kept, h)
      /\ kept.made = h.made /\ kept.rtcTransport = h.rtcTransport
      /\ kept.terminating = h.terminating /\ kept.handoff = NoHandoff
      /\ SessionIs(kept, h, h.handoff.new, Retired(h.sessions[h.handoff.new]))
      /\ TransportIs(kept, h, t, r)
  BY <1>1, HandoffFailsFields
<1>3. HandoffFails(h) = IF h.terminating THEN kept ELSE ProbeExisting(kept, "probe")
  BY DEF HandoffFails
<1>4. r.session = h.handoff.old
  <2>1. ASSUME NEW x \in TransportType, NEW o PROVE [x EXCEPT !.session = o, !.handoffInProgress = FALSE].session = o
    BY DEF TransportType
  <2>. QED BY <1>1, <2>1, TransportRecords
<1>. HIDE DEF kept, r
<1>5. \A s \in Sessions : /\ kept.sessions[s].of = h.sessions[s].of
                          /\ kept.sessions[s].phase = "free" <=> h.sessions[s].phase = "free"
                          /\ kept.sessions[s].pending => h.sessions[s].pending
  <2>1. ASSUME NEW x \in SessionType
        PROVE  Retired(x).of = x.of /\ Retired(x).phase # "free" /\ Retired(x).pending = x.pending
    BY DEF SessionType, Retired
  <2>. QED BY <1>1, <1>2, <2>1, SessionRecords DEF SessionIs
<1>6. SameOwners(kept, h)
  BY <1>2, <1>4, <1>5 DEF SameOwners, TransportIs
<1>7. Base(kept)
  BY <1>1, <1>2, <1>6, KnownKept DEF Base, MadeOnce, SameTimers
<1>. QED BY <1>3, <1>7, ProbeExistingBase

LEMMA HandoffSucceedsBase ==
  ASSUME NEW h, Base(h), h.handoff # NoHandoff
  PROVE  Base(HandoffSucceeds(h))
<1> DEFINE t == h.handoff.transport
           g == HandoffSucceeds(h)
           n == h.handoff.new
           o == h.handoff.old
           r == [h.transports[t] EXCEPT !.session = n, !.handoffInProgress = FALSE]
<1>1. /\ t # None /\ n # None /\ o # None /\ n # o
      /\ h.sessions[n].phase # "free" /\ h.sessions[o].phase # "free" /\ h \in HubType
      /\ t \in Transports /\ n \in Sessions /\ o \in Sessions
  BY HandoffNames DEF Base, Known
<1>2. /\ g \in HubType
      /\ g.made = h.made /\ g.rtcTransport = h.rtcTransport
      /\ g.terminating = h.terminating /\ g.handoff = NoHandoff
      /\ g.reconnectTimeout = h.reconnectTimeout
      /\ \A u \in Sessions : g.sessions[u] =
           IF u = n THEN [h.sessions[u] EXCEPT !.role = "primary"]
           ELSE IF u = o THEN Retired(h.sessions[u]) ELSE h.sessions[u]
      /\ TransportIs(g, h, t, r)
  BY <1>1, HandoffSucceedsFields
<1>4. r.session = n
  <2>1. ASSUME NEW x \in TransportType, NEW y PROVE [x EXCEPT !.session = y, !.handoffInProgress = FALSE].session = y
    BY DEF TransportType
  <2>. QED BY <1>1, <2>1, TransportRecords
<1>. HIDE DEF g, r
<1>5. \A s \in Sessions : /\ g.sessions[s].of = h.sessions[s].of
                          /\ g.sessions[s].phase = "free" <=> h.sessions[s].phase = "free"
                          /\ g.sessions[s].pending => h.sessions[s].pending
  <2>1. ASSUME NEW x \in SessionType
        PROVE  /\ Retired(x).of = x.of /\ Retired(x).phase # "free" /\ Retired(x).pending = x.pending
               /\ LET y == [x EXCEPT !.role = "primary"]
                  IN  y.of = x.of /\ y.phase = x.phase /\ y.pending = x.pending
    BY DEF SessionType, Retired
  <2>2. TAKE s \in Sessions
  <2>3. h.sessions[s] \in SessionType
    BY <1>1, SessionRecords
  <2>4. CASE s = n
    BY <1>1, <1>2, <2>1, <2>3, <2>4, ZenonT(40)
  <2>5. CASE s = o
    BY <1>1, <1>2, <2>1, <2>3, <2>5, ZenonT(40)
  <2>6. CASE s # n /\ s # o
    BY <1>2, <2>6
  <2>. QED BY <2>4, <2>5, <2>6
<1>6. SameOwners(g, h)
  BY <1>2, <1>4, <1>5 DEF SameOwners, TransportIs
<1>. QED BY <1>1, <1>2, <1>6, KnownKept DEF Base, MadeOnce, g

\* What an event does to the session it is of.
LEMMA SetSessionBase ==
  ASSUME NEW h, Base(h), NEW s \in Sessions, NEW q \in SessionType, h.sessions[s].phase # "free",
         q.of = h.sessions[s].of, q.phase # "free", q.pending => h.sessions[s].pending
  PROVE  LET g == [h EXCEPT !.sessions[s] = q]
         IN  /\ Base(g) /\ Same(g, h) /\ SameTimers(g, h) /\ g.transports = h.transports
             /\ SessionIs(g, h, s, q)
<1> DEFINE g == [h EXCEPT !.sessions[s] = q]
<1>1. /\ g \in HubType /\ Same(g, h) /\ SameTimers(g, h) /\ g.transports = h.transports
      /\ SessionIs(g, h, s, q)
  BY PutSession DEF Base
<1>. HIDE DEF g
<1>2. SameOwners(g, h)
  BY <1>1 DEF SameOwners, Same, SessionIs
<1>3. MadeOnce(g)
  BY <1>1 DEF Base, MadeOnce, Same, SameTimers
<1>. QED BY <1>1, <1>2, <1>3, KnownKept DEF Base, g

LEMMA SetTransportBase ==
  ASSUME NEW h, Base(h), NEW t \in Transports, NEW r \in TransportType, r.session = h.transports[t].session
  PROVE  LET g == [h EXCEPT !.transports[t] = r]
         IN  /\ Base(g) /\ Same(g, h) /\ SameTimers(g, h) /\ g.sessions = h.sessions
             /\ TransportIs(g, h, t, r)
<1> DEFINE g == [h EXCEPT !.transports[t] = r]
<1>1. /\ g \in HubType /\ Same(g, h) /\ SameTimers(g, h) /\ g.sessions = h.sessions
      /\ TransportIs(g, h, t, r)
  BY PutTransport DEF Base
<1>. HIDE DEF g
<1>2. SameOwners(g, h)
  BY <1>1 DEF SameOwners, Same, TransportIs
<1>3. MadeOnce(g)
  BY <1>1 DEF Base, MadeOnce, Same, SameTimers
<1>. QED BY <1>1, <1>2, <1>3, KnownKept DEF Base, g

LEMMA OnRtcConnectBase ==
  ASSUME NEW h, Base(h)
  PROVE  LET g == OnRtcConnect(h)
         IN  /\ Base(g) /\ Same(g, h) /\ g.sessions = h.sessions /\ g.transports = h.transports
             /\ g.reconnectTimeout = h.reconnectTimeout /\ g.proactive = "refresh"
             /\ g.commandTransport = (h.commandTransport \/ h.rtcTransport # None)
<1> DEFINE g == OnRtcConnect(h)
           b == h.commandTransport \/ h.rtcTransport # None
<1>1. h.commandTransport \in BOOLEAN /\ h \in HubType
  BY DEF Base, HubType
<1>2. b \in BOOLEAN
  BY <1>1
<1>3. g = [h EXCEPT !.commandTransport = b, !.proactive = "refresh"]
  BY DEF OnRtcConnect
<1>. HIDE DEF b
<1>4. /\ g \in HubType /\ Same(g, h) /\ g.sessions = h.sessions /\ g.transports = h.transports
      /\ g.reconnectTimeout = h.reconnectTimeout /\ g.proactive = "refresh" /\ g.commandTransport = b
  BY <1>1, <1>2, <1>3 DEF HubType, Same
<1>. HIDE DEF g
<1>5. MadeOnce(g) /\ g.handoff = h.handoff /\ g.made = h.made
  BY <1>4 DEF Base, MadeOnce, Same
<1>. QED BY <1>4, <1>5, FlatBase DEF g, b

LEMMA InitBase == Init => Base(hub)
<1>1. SUFFICES ASSUME Init PROVE Base(hub)
  OBVIOUS
<1>2. FreshSession \in SessionType
  BY DEF FreshSession, SessionType, Phases
<1> DEFINE r == [session |-> None, connected |-> FALSE, connecting |-> FALSE,
                 handoffInProgress |-> FALSE, handler |-> FALSE, waiters |-> 0]
<1>3. r \in TransportType /\ r.session = None
  BY DEF TransportType
<1>4. NoHandoff \in HandoffType
  BY DEF NoHandoff, HandoffType
<1>. HIDE DEF r
<1>5. hub = [sessions |-> [s \in Sessions |-> FreshSession], transports |-> [t \in Transports |-> r],
            handoff |-> NoHandoff, made |-> 0, rtcTransport |-> None, terminating |-> FALSE,
            handlerWired |-> FALSE, reconnectTimeout |-> FALSE, waking |-> 0,
            proactive |-> "none", attempt |-> 0, commandTransport |-> FALSE]
  BY <1>1 DEF Init, r
<1>6. hub \in HubType
  BY <1>2, <1>3, <1>4, <1>5, NoneOther DEF HubType
<1>7. Known(hub)
  BY <1>3, <1>5 DEF Known, FreshSession
<1>8. MadeOnce(hub)
  BY <1>5 DEF MadeOnce, None
<1>. QED BY <1>6, <1>7, <1>8 DEF Base

\* A station without a transport has one left to make, but for one that was closed.
LEMMA NoneMade ==
  ASSUME NEW h, Base(h), ~h.terminating, h.rtcTransport = None
  PROVE  h.made = 0 /\ h.made < MaxTransports
BY BoundAssumption DEF Base, MadeOnce, None

LEMMA TryConnectBase ==
  ASSUME NEW h, Base(h), Forgotten(h) = Forgotten(hub), TryConnect(h),
         h.rtcTransport = None => h.made < MaxTransports
  PROVE  Base(hub')
<1>1. CASE Nameable /\ hub' = ConnectRtc(h)
  BY <1>1, ConnectRtcBase DEF Nameable
<1>2. CASE hub' = ScheduleRtcReconnect(h)
  BY <1>2, ScheduleBase
<1>. QED BY <1>1, <1>2 DEF TryConnect

\* The timer that fired is gone; the rest is as it was.
LEMMA TimerGone ==
  ASSUME Base(hub)
  PROVE  LET g == [hub EXCEPT !.reconnectTimeout = FALSE]
         IN  /\ Base(g) /\ Forgotten(g) = Forgotten(hub) /\ Same(g, hub) /\ ~g.reconnectTimeout
             /\ g.sessions = hub.sessions /\ g.transports = hub.transports
             /\ g.proactive = hub.proactive /\ g.commandTransport = hub.commandTransport
<1> DEFINE g == [hub EXCEPT !.reconnectTimeout = FALSE]
<1>1. /\ g \in HubType /\ g.sessions = hub.sessions /\ g.transports = hub.transports
      /\ Same(g, hub) /\ ~g.reconnectTimeout
      /\ g.proactive = hub.proactive /\ g.commandTransport = hub.commandTransport
  BY DEF Base, HubType, Same
<1>. HIDE DEF g
<1>2. MadeOnce(g)
  BY <1>1 DEF Base, MadeOnce, Same
<1>3. Base(g)
  BY <1>1, <1>2, FlatBase DEF Same
<1>4. Forgotten(g) = Forgotten(hub)
  BY <1>1, ForgottenStill DEF Base, Same
<1>. QED BY <1>1, <1>3, <1>4 DEF g

LEMMA WakingChanged ==
  ASSUME NEW h, Base(h), NEW n \in Nat
  PROVE  LET g == [h EXCEPT !.waking = n]
         IN  /\ Base(g) /\ Forgotten(g) = Forgotten(h) /\ SameTimers(g, h) /\ g.waking = n
             /\ g.sessions = h.sessions /\ g.transports = h.transports /\ g.handoff = h.handoff
             /\ g.made = h.made /\ g.rtcTransport = h.rtcTransport /\ g.terminating = h.terminating
             /\ g.handlerWired = h.handlerWired
<1> DEFINE g == [h EXCEPT !.waking = n]
<1>1. /\ g \in HubType /\ g.sessions = h.sessions /\ g.transports = h.transports /\ g.handoff = h.handoff
      /\ SameTimers(g, h) /\ g.waking = n /\ g.handlerWired = h.handlerWired
      /\ g.made = h.made /\ g.rtcTransport = h.rtcTransport /\ g.terminating = h.terminating
  BY DEF Base, HubType, SameTimers
<1>. HIDE DEF g
<1>2. MadeOnce(g)
  BY <1>1 DEF Base, MadeOnce, SameTimers
<1>3. Base(g)
  BY <1>1, <1>2, FlatBase
<1>4. Forgotten(g) = Forgotten(h)
  BY <1>1, ForgottenStill DEF Base
<1>. QED BY <1>1, <1>3, <1>4 DEF g

LEMMA ProactiveChanged ==
  ASSUME NEW h, Base(h), NEW p \in {"none", "refresh", "probe", "backoff", "reprobe"}
  PROVE  LET g == [h EXCEPT !.proactive = p]
         IN  /\ Base(g) /\ Forgotten(g) = Forgotten(h) /\ Same(g, h) /\ g.proactive = p
             /\ g.sessions = h.sessions /\ g.transports = h.transports
             /\ g.reconnectTimeout = h.reconnectTimeout /\ g.commandTransport = h.commandTransport
<1> DEFINE g == [h EXCEPT !.proactive = p]
<1>1. /\ g \in HubType /\ g.sessions = h.sessions /\ g.transports = h.transports
      /\ Same(g, h) /\ g.proactive = p
      /\ g.reconnectTimeout = h.reconnectTimeout /\ g.commandTransport = h.commandTransport
  BY DEF Base, HubType, Same
<1>. HIDE DEF g
<1>2. MadeOnce(g)
  BY <1>1 DEF Base, MadeOnce, Same
<1>3. Base(g)
  BY <1>1, <1>2, FlatBase DEF Same
<1>4. Forgotten(g) = Forgotten(h)
  BY <1>1, ForgottenStill DEF Base, Same
<1>. QED BY <1>1, <1>3, <1>4 DEF g

\* close() of the station up to the transport's.
LEMMA Closing ==
  ASSUME Base(hub)
  PROVE  LET g == [hub EXCEPT !.terminating = TRUE, !.reconnectTimeout = FALSE]
         IN  /\ Base(g) /\ g.terminating /\ ~g.reconnectTimeout
             /\ g.sessions = hub.sessions /\ g.transports = hub.transports /\ g.handoff = hub.handoff
             /\ g.made = hub.made /\ g.rtcTransport = hub.rtcTransport /\ g.handlerWired = hub.handlerWired
             /\ g.proactive = hub.proactive /\ g.commandTransport = hub.commandTransport /\ g.waking = hub.waking
<1> DEFINE g == [hub EXCEPT !.terminating = TRUE, !.reconnectTimeout = FALSE]
<1>1. /\ g \in HubType /\ g.terminating /\ ~g.reconnectTimeout
      /\ g.sessions = hub.sessions /\ g.transports = hub.transports /\ g.handoff = hub.handoff
      /\ g.made = hub.made /\ g.rtcTransport = hub.rtcTransport /\ g.handlerWired = hub.handlerWired
      /\ g.proactive = hub.proactive /\ g.commandTransport = hub.commandTransport /\ g.waking = hub.waking
  BY DEF Base, HubType
<1>. HIDE DEF g
<1>2. MadeOnce(g)
  BY <1>1 DEF Base, MadeOnce
<1>3. Base(g)
  BY <1>1, <1>2, FlatBase
<1>. QED BY <1>1, <1>3 DEF g

\* The station's reference to its transport is dropped, which only close() does.
LEMMA Unreferenced ==
  ASSUME NEW h, Base(h), h.terminating
  PROVE  LET g == [h EXCEPT !.rtcTransport = None]
         IN  /\ Base(g) /\ g.terminating /\ g.rtcTransport = None
             /\ g.sessions = h.sessions /\ g.transports = h.transports /\ g.handoff = h.handoff
             /\ g.made = h.made /\ g.handlerWired = h.handlerWired
             /\ g.waking = h.waking /\ SameTimers(g, h)
<1> DEFINE g == [h EXCEPT !.rtcTransport = None]
<1>1. /\ g \in HubType /\ g.terminating /\ g.rtcTransport = None
      /\ g.sessions = h.sessions /\ g.transports = h.transports /\ g.handoff = h.handoff
      /\ g.made = h.made /\ g.handlerWired = h.handlerWired
      /\ g.waking = h.waking /\ SameTimers(g, h)
  BY DEF Base, HubType, SameTimers
<1>. HIDE DEF g
<1>2. MadeOnce(g)
  BY <1>1 DEF Base, MadeOnce, SameTimers
<1>3. Base(g)
  BY <1>1, <1>2, FlatBase
<1>. QED BY <1>1, <1>3 DEF g

\* What an event makes of a session.
InPhase(q, p) == [q EXCEPT !.phase = p]

LEMMA OfTransport ==
  ASSUME NEW h, Base(h), NEW s \in Sessions, h.sessions[s].phase # "free"
  PROVE  h.sessions[s].of \in Transports /\ h.sessions[s].of # None
<1>1. h.sessions[s].of \in 1 .. h.made /\ h.made \in 0 .. MaxTransports
  BY DEF Base, Known, HubType
<1>. QED BY <1>1, NoneOther DEF Transports, None

LEMMA SettledRecord ==
  ASSUME NEW q \in SessionType, NEW p \in {"calling", "down"}
  PROVE  LET c == Settled(q, p)
         IN  /\ c \in SessionType /\ ~c.pending /\ c.of = q.of /\ c.role = q.role
             /\ c.phase = IF q.phase = "connecting" THEN p ELSE q.phase
<1> DEFINE f == IF q.phase = "connecting" THEN p ELSE q.phase
<1>1. f \in Phases
  BY DEF SessionType, Phases
<1>2. Settled(q, p) = [q EXCEPT !.pending = FALSE, !.phase = f]
  BY DEF Settled
<1>. HIDE DEF f
<1>3. LET c == [q EXCEPT !.pending = FALSE, !.phase = f]
      IN  c \in SessionType /\ ~c.pending /\ c.of = q.of /\ c.role = q.role /\ c.phase = f
  BY <1>1 DEF SessionType
<1>. QED BY <1>2, <1>3 DEF f

LEMMA SettledBase ==
  ASSUME NEW h, Base(h), NEW s \in Sessions, h.sessions[s].pending, NEW p \in {"calling", "down"}
  PROVE  LET g == [h EXCEPT !.sessions[s] = Settled(@, p)]
         IN  /\ Base(g) /\ Same(g, h) /\ SameTimers(g, h) /\ g.transports = h.transports
             /\ SessionIs(g, h, s, Settled(h.sessions[s], p))
             /\ h.sessions[s].of \in Transports /\ h.sessions[s].phase # "free"
<1> DEFINE q == Settled(h.sessions[s], p)
           g == [h EXCEPT !.sessions[s] = Settled(@, p)]
<1>1. h.sessions[s] \in SessionType /\ h.sessions[s].phase # "free"
  BY SessionRecords DEF Base, Known
<1>2. q \in SessionType /\ ~q.pending /\ q.of = h.sessions[s].of /\ q.phase # "free"
  BY <1>1, SettledRecord
<1>3. g = [h EXCEPT !.sessions[s] = q]
  BY DEF Settled, Base, HubType
<1>. HIDE DEF q, g
<1>. QED BY <1>1, <1>2, <1>3, SetSessionBase, OfTransport DEF q, g

LEMMA InPhaseBase ==
  ASSUME NEW h, Base(h), NEW s \in Sessions, h.sessions[s].phase # "free", NEW p \in {"open", "down"}
  PROVE  LET g == [h EXCEPT !.sessions[s].phase = p]
         IN  /\ Base(g) /\ Same(g, h) /\ SameTimers(g, h) /\ g.transports = h.transports
             /\ SessionIs(g, h, s, InPhase(h.sessions[s], p))
             /\ h.sessions[s].of \in Transports
<1> DEFINE q == InPhase(h.sessions[s], p)
           g == [h EXCEPT !.sessions[s].phase = p]
<1>1. h.sessions[s] \in SessionType
  BY SessionRecords DEF Base
<1>2. q \in SessionType /\ q.pending = h.sessions[s].pending /\ q.of = h.sessions[s].of /\ q.phase # "free"
  BY <1>1 DEF SessionType, InPhase, Phases
<1>3. g = [h EXCEPT !.sessions[s] = q]
  BY DEF InPhase, Base, HubType
<1>. HIDE DEF q, g
<1>4. h.sessions[s].of \in Transports
  BY OfTransport
<1>5. Base(g) /\ Same(g, h) /\ SameTimers(g, h) /\ g.transports = h.transports /\ SessionIs(g, h, s, q)
  BY <1>2, <1>3, SetSessionBase
<1>. QED BY <1>4, <1>5 DEF q, g

LEMMA WaitersBase ==
  ASSUME NEW h, Base(h), NEW t \in Transports, NEW n \in Nat
  PROVE  LET g == [h EXCEPT !.transports[t].waiters = n]
         IN  /\ Base(g) /\ Same(g, h) /\ SameTimers(g, h) /\ g.sessions = h.sessions
             /\ TransportIs(g, h, t, [h.transports[t] EXCEPT !.waiters = n])
<1> DEFINE r == [h.transports[t] EXCEPT !.waiters = n]
           g == [h EXCEPT !.transports[t].waiters = n]
<1>1. h.transports[t] \in TransportType
  BY TransportRecords DEF Base
<1>2. r \in TransportType /\ r.session = h.transports[t].session
  BY <1>1 DEF TransportType
<1>3. g = [h EXCEPT !.transports[t] = r]
  BY DEF Base, HubType
<1>. HIDE DEF r, g
<1>. QED BY <1>2, <1>3, SetTransportBase DEF r, g

Raised(r) == [r EXCEPT !.connecting = FALSE, !.connected = TRUE, !.waiters = 0]
LEMMA RaisedBase ==
  ASSUME NEW h, Base(h), NEW t \in Transports
  PROVE  LET g == [h EXCEPT !.transports[t] = [@ EXCEPT !.connecting = FALSE, !.connected = TRUE, !.waiters = 0]]
         IN  /\ Base(g) /\ Same(g, h) /\ SameTimers(g, h) /\ g.sessions = h.sessions
             /\ TransportIs(g, h, t, Raised(h.transports[t]))
<1> DEFINE r == Raised(h.transports[t])
           g == [h EXCEPT !.transports[t] = [@ EXCEPT !.connecting = FALSE, !.connected = TRUE, !.waiters = 0]]
<1>1. h.transports[t] \in TransportType
  BY TransportRecords DEF Base
<1>2. r \in TransportType /\ r.session = h.transports[t].session
  BY <1>1 DEF TransportType, Raised
<1>3. g = [h EXCEPT !.transports[t] = r]
  BY DEF Base, HubType, Raised
<1>. HIDE DEF r, g
<1>. QED BY <1>2, <1>3, SetTransportBase DEF r, g

-----------------------------------------------------------------------------
(* Every action keeps that *)

LEMMA ConnectBase == ASSUME Base(hub), Connect PROVE Base(hub')
BY TryConnectBase DEF Connect

LEMMA CloseBase ==
  ASSUME Base(hub), Close
  PROVE  Base(hub')
<1> DEFINE c == [hub EXCEPT !.terminating = TRUE, !.reconnectTimeout = FALSE]
           d == TransportClose(c, hub.rtcTransport)
<1>1. /\ Base(c) /\ c.terminating /\ c.rtcTransport = hub.rtcTransport
  BY Closing
<1>2. hub' = IF ~Busy(hub, hub.rtcTransport) THEN c ELSE [d EXCEPT !.rtcTransport = None]
  BY DEF Close
<1>. HIDE DEF c
<1>3. CASE ~Busy(hub, hub.rtcTransport)
  BY <1>1, <1>2, <1>3
<1>4. CASE Busy(hub, hub.rtcTransport)
  <2>1. c.rtcTransport # None
    BY <1>1, <1>4 DEF Busy
  <2>2. Base(d) /\ d.terminating
    BY <1>1, <2>1, TransportCloseBase, TransportCloseFields DEF Base, Same
  <2>. HIDE DEF d
  <2>. QED BY <1>2, <1>4, <2>2, Unreferenced
<1>. QED BY <1>3, <1>4

LEMMA AuthenticatedBase ==
  ASSUME Base(hub), NEW s \in Sessions, Authenticated(s)
  PROVE  Base(hub')
<1> DEFINE t == hub.sessions[s].of
           called == [hub EXCEPT !.sessions[s] = Settled(@, "calling")]
           n == called.transports[t].waiters + 1
<1>1. Base(called) /\ called.transports = hub.transports /\ t \in Transports
  BY SettledBase DEF Authenticated
<1>2. hub' = called \/ hub' = [called EXCEPT !.transports[t].waiters = n]
  BY DEF Authenticated
<1>. HIDE DEF called
<1>3. n \in Nat
  <2>1. called.transports[t] \in TransportType
    BY <1>1, TransportRecords DEF Base
  <2>. QED BY <2>1 DEF TransportType
<1>. HIDE DEF n
<1>4. Base([called EXCEPT !.transports[t].waiters = n])
  BY <1>1, <1>3, WaitersBase
<1>. QED BY <1>1, <1>2, <1>4

LEMMA RejectedBase ==
  ASSUME Base(hub), NEW s \in Sessions, Rejected(s)
  PROVE  Base(hub')
<1> DEFINE t == hub.sessions[s].of
           over == [hub EXCEPT !.sessions[s] = Settled(@, "down")]
<1>1. Base(over) /\ over.handoff = hub.handoff /\ t \in Transports
  BY SettledBase DEF Rejected, Same
<1>2. hub' = IF s = hub.handoff.new THEN HandoffFails(over) ELSE ConnectFailed(over, t)
  BY DEF Rejected
<1>. HIDE DEF over
<1>3. s = hub.handoff.new => hub.handoff # NoHandoff
  BY NoneOther, HandoffNames DEF Base
<1>. QED BY <1>1, <1>2, <1>3, HandoffFailsBase, ConnectFailedBase

LEMMA ChannelOpensBase ==
  ASSUME Base(hub), NEW s \in Sessions, ChannelOpens(s)
  PROVE  Base(hub')
<1> DEFINE t == hub.sessions[s].of
           open == [hub EXCEPT !.sessions[s].phase = "open"]
           up == [open EXCEPT !.transports[t] = [@ EXCEPT !.connecting = FALSE, !.connected = TRUE, !.waiters = 0]]
<1>1. Base(open) /\ open.handoff = hub.handoff /\ t \in Transports
  BY InPhaseBase DEF ChannelOpens, Same
<1>2. \/ s = hub.handoff.new /\ hub' = HandoffSucceeds(open)
      \/ hub' = open \/ hub' = OnRtcConnect(up)
  BY DEF ChannelOpens
<1>. HIDE DEF open
<1>3. Base(up)
  BY <1>1, RaisedBase
<1>. HIDE DEF up
<1>4. s = hub.handoff.new => hub.handoff # NoHandoff
  BY NoneOther, HandoffNames DEF Base
<1>. QED BY <1>1, <1>2, <1>3, <1>4, HandoffSucceedsBase, OnRtcConnectBase

LEMMA SessionErrorBase ==
  ASSUME Base(hub), NEW s \in Sessions, SessionError(s)
  PROVE  Base(hub')
<1> DEFINE t == hub.sessions[s].of
           c == ConnectFailed(hub, t)
<1>1. t \in Transports /\ Base(c)
  BY OfTransport, ConnectFailedBase DEF SessionError
<1>2. \/ s = hub.handoff.new /\ hub' = HandoffFails(hub)
      \/ hub' = [c EXCEPT !.transports[t].waiters = 0]
  BY DEF SessionError
<1>. HIDE DEF c
<1>4. s = hub.handoff.new => hub.handoff # NoHandoff
  BY NoneOther, HandoffNames DEF Base
<1>5. Base([c EXCEPT !.transports[t].waiters = 0])
  BY <1>1, WaitersBase
<1>6. s = hub.handoff.new => Base(HandoffFails(hub))
  BY <1>4, HandoffFailsBase
<1>. QED BY <1>2, <1>5, <1>6

LEMMA SessionDownBase ==
  ASSUME Base(hub), NEW s \in Sessions, SessionDown(s)
  PROVE  Base(hub')
<1> DEFINE t == hub.sessions[s].of
           down == [hub EXCEPT !.sessions[s].phase = "down"]
<1>1. hub.sessions[s].phase # "free"
  BY DEF SessionDown
<1>2. Base(down) /\ down.handoff = hub.handoff /\ t \in Transports
  BY <1>1, InPhaseBase DEF Same
<1>3. \/ s = hub.handoff.new /\ hub' = HandoffFails(down)
      \/ hub' = down \/ hub' = OnRtcDisconnect(Reset(down, t)) \/ hub' = Reset(down, t)
  BY DEF SessionDown
<1>. HIDE DEF down
<1>4. s = hub.handoff.new => hub.handoff # NoHandoff
  BY NoneOther, HandoffNames DEF Base
<1>. QED BY <1>2, <1>3, <1>4, HandoffFailsBase, ResetBase, OnRtcDisconnectBase

LEMMA ConnectTimerBase ==
  ASSUME Base(hub), NEW t \in Transports, ConnectTimer(t)
  PROVE  Base(hub')
<1> DEFINE n == hub.transports[t].waiters - 1
           d == [hub EXCEPT !.transports[t].waiters = n]
<1>1. n \in Nat
  <2>1. hub.transports[t] \in TransportType
    BY TransportRecords DEF Base
  <2>. QED BY <2>1 DEF TransportType, ConnectTimer
<1>2. hub' = ConnectFailed(d, t)
  BY DEF ConnectTimer
<1>. HIDE DEF n
<1>3. Base(d)
  BY <1>1, WaitersBase
<1>. QED BY <1>2, <1>3, ConnectFailedBase

LEMMA ReconnectTimerBase ==
  ASSUME Base(hub), ReconnectTimer
  PROVE  Base(hub')
<1> DEFINE f == [hub EXCEPT !.reconnectTimeout = FALSE]
           n == f.waking + 1
<1>1. /\ Base(f) /\ Forgotten(f) = Forgotten(hub) /\ Same(f, hub)
  BY TimerGone
<1>2. TryConnect(f) \/ hub' = [f EXCEPT !.waking = n]
  BY DEF ReconnectTimer
<1>. HIDE DEF f
<1>3. f.rtcTransport = None => f.made < MaxTransports
  <2>1. ~f.terminating
    BY <1>1 DEF ReconnectTimer, Base, MadeOnce, Same
  <2>. QED BY <1>1, <2>1, NoneMade
<1>4. n \in Nat
  BY <1>1 DEF Base, HubType
<1>. HIDE DEF n
<1>. QED BY <1>1, <1>2, <1>3, <1>4, TryConnectBase, WakingChanged

LEMMA WokenBase ==
  ASSUME Base(hub), Woken
  PROVE  Base(hub')
<1> DEFINE n == hub.waking - 1
           a == [hub EXCEPT !.waking = n]
<1>1. n \in Nat
  BY DEF Base, HubType, Woken
<1>2. hub' = a \/ (~hub.terminating /\ TryConnect(a))
  BY DEF Woken
<1>. HIDE DEF n
<1>3. /\ Base(a) /\ Forgotten(a) = Forgotten(hub) /\ a.made = hub.made
      /\ a.rtcTransport = hub.rtcTransport /\ a.terminating = hub.terminating
  BY <1>1, WakingChanged
<1>. HIDE DEF a
<1>4. ~a.terminating /\ a.rtcTransport = None => a.made < MaxTransports
  BY <1>3, NoneMade
<1>. QED BY <1>2, <1>3, <1>4, TryConnectBase

LEMMA ProactiveBase ==
  ASSUME Base(hub), RefreshTimer \/ ProbeTimer \/ BackoffTimer
  PROVE  Base(hub')
<1> DEFINE f == [hub EXCEPT !.proactive = "none"]
           b == [hub EXCEPT !.proactive = "backoff"]
<1>1. Base(f) /\ Forgotten(f) = Forgotten(hub) /\ Base(b)
  BY ProactiveChanged
<1>2. \/ Nameable /\ (hub' = AttemptHandoff(f, 0) \/ hub' = AttemptHandoff(f, 1))
      \/ hub' = b \/ hub' = HardReconnect(f) \/ hub' = ProbeExisting(hub, "reprobe")
  BY DEF RefreshTimer, ProbeTimer, BackoffTimer
<1>. HIDE DEF f, b
<1>. QED BY <1>1, <1>2, AttemptHandoffBase, HardReconnectBase, ProbeExistingBase DEF Nameable

-----------------------------------------------------------------------------
(* Where the sessions of a station are *)

Primary(h) == h.transports[h.rtcTransport]

\* A transport without a session; idle, if nobody waits for one either.
Ended(r) == r.session = None /\ ~r.connected /\ ~r.connecting /\ ~r.handoffInProgress
Idle(r) == Ended(r) /\ r.waiters = 0

\* Transport t in state r is connecting session q: the promise first, "connected" then.
Trying(r, q, t) ==
  /\ r.session # None /\ r.connecting /\ ~r.connected /\ ~r.handoffInProgress
  /\ q.role = "primary" /\ q.of = t
  /\ \/ q.phase = "connecting" /\ q.pending /\ r.waiters = 0
     \/ q.phase = "calling" /\ ~q.pending /\ r.waiters = 1

\* ... is connected by session q.
Up(r, q, t) ==
  /\ r.session # None /\ r.connected /\ ~r.connecting /\ r.waiters = 0
  /\ q.phase = "open" /\ ~q.pending /\ q.of = t

PrimarySession(h) == h.sessions[Primary(h).session]
PrimaryTries(h) == Trying(Primary(h), PrimarySession(h), h.rtcTransport)
PrimaryUp(h) == Up(Primary(h), PrimarySession(h), h.rtcTransport)

OthersEnded(h) ==
  \A t \in Transports : t # h.rtcTransport =>
    Ended(h.transports[t]) /\ (t > h.made => h.transports[t].waiters = 0)
PrimaryWell(h) ==
  h.rtcTransport # None =>
    \/ Idle(Primary(h)) \/ PrimaryTries(h)
    \/ PrimaryUp(h) /\ (Primary(h).handoffInProgress <=> h.handoff # NoHandoff)

\* A handoff is one of the station's transport: the old session stays, the new one is on its way.
NewOnItsWay(q, t) ==
  /\ q.of = t /\ q.role = "handoff"
  /\ \/ q.phase = "connecting" /\ q.pending
     \/ q.phase = "calling" /\ ~q.pending
HandoffWell(h) ==
  h.handoff # NoHandoff =>
    /\ h.handoff.transport = h.rtcTransport /\ h.rtcTransport # None /\ Primary(h).connected
    /\ h.handoff.old = Primary(h).session /\ h.handoff.new # h.handoff.old
    /\ NewOnItsWay(h.sessions[h.handoff.new], h.rtcTransport)
    /\ ~h.terminating

\* Every session that is not over is the transport's or the handoff's.
Live == {"connecting", "calling", "open"}
AllHeld(h) ==
  \A s \in Sessions : h.sessions[s].phase \in Live =>
    s = h.handoff.new \/ (h.rtcTransport # None /\ s = Primary(h).session)

\* A promise that outlived its session belongs to a transport that was closed.
LateOnly(h) ==
  \A s \in Sessions : h.sessions[s].pending /\ h.sessions[s].phase # "connecting" =>
    h.sessions[s].of # h.rtcTransport /\ s # h.handoff.new

\* Refresh, probe and back-off are timers of a connected transport.
Quiet(h) == h.proactive # "none" => h.rtcTransport # None /\ Primary(h).connected

Structure(h) ==
  OthersEnded(h) /\ PrimaryWell(h) /\ HandoffWell(h) /\ AllHeld(h) /\ LateOnly(h) /\ Quiet(h)

Tried(h) ==
  h.made > 0 /\ ~h.terminating /\ Ended(Primary(h)) => h.reconnectTimeout \/ h.waking > 0

\* For a station that is not connected again after close().
Planned(h) ==
  /\ h.terminating => h.rtcTransport = None \/ Ended(Primary(h))
  /\ h.made = 0 => ~h.handlerWired
  /\ h.rtcTransport # None => Primary(h).handler
  /\ h.rtcTransport # None /\ Primary(h).connected =>
       h.commandTransport /\ (h.proactive # "none" \/ h.handoff # NoHandoff)

\* What a step shows of the state it ends in.
Kept == /\ Structure(hub') /\ Tried(hub')
        /\ "reopen" \notin Faults /\ Planned(hub) => Planned(hub')

\* Only timers and flags differ.
LEMMA SameStructure ==
  ASSUME NEW h, NEW g, Structure(h), g.sessions = h.sessions, g.transports = h.transports,
         g.handoff = h.handoff, g.rtcTransport = h.rtcTransport, g.made = h.made, Quiet(g),
         g.terminating = h.terminating \/ h.handoff = NoHandoff
  PROVE  Structure(g)
BY DEF Structure, OthersEnded, PrimaryWell, HandoffWell, AllHeld, LateOnly,
       Primary, PrimarySession, PrimaryTries, PrimaryUp

\* The station's transport t and its session come to an end.
LEMMA IdleStructure ==
  ASSUME NEW h, Base(h), Structure(h), NEW g, NEW t \in Transports,
         t = h.rtcTransport, g.rtcTransport = t, h.handoff = NoHandoff, g.handoff = NoHandoff,
         g.made = h.made,
         \A u \in Transports : u # t => g.transports[u] = h.transports[u],
         Idle(g.transports[t]),
         \A s \in Sessions : s # h.transports[t].session => g.sessions[s] = h.sessions[s],
         \A s \in Sessions : s = h.transports[t].session =>
           g.sessions[s].phase \notin Live /\ ~g.sessions[s].pending,
         g.proactive = "none"
  PROVE  Structure(g)
<1>0. t # None /\ Primary(g) = g.transports[t]
  BY NoneOther DEF Primary
<1>1. OthersEnded(g)
  BY DEF Structure, OthersEnded
<1>2. PrimaryWell(g)
  BY <1>0 DEF PrimaryWell
<1>3. HandoffWell(g) /\ Quiet(g)
  BY DEF HandoffWell, Quiet
<1>4. AllHeld(g)
  <2>1. ASSUME NEW s \in Sessions, g.sessions[s].phase \in Live PROVE FALSE
    <3>1. s # h.transports[t].session /\ h.sessions[s].phase \in Live
      BY <2>1
    <3>2. s # h.handoff.new
      BY NoneOther, HandoffNames DEF Base
    <3>. QED BY <3>1, <3>2 DEF Structure, AllHeld, Primary
  <2>. QED BY <2>1 DEF AllHeld
<1>5. LateOnly(g)
  BY DEF Structure, LateOnly
<1>. QED BY <1>1, <1>2, <1>3, <1>4, <1>5 DEF Structure

\* A transport that was closed, and sessions of it, settle.
LEMMA LateStructure ==
  ASSUME NEW h, Structure(h), NEW g, NEW t \in Transports, t # h.rtcTransport, ~(t > h.made),
         g.made = h.made,
         g.rtcTransport = h.rtcTransport, g.handoff = h.handoff, g.terminating = h.terminating,
         \A u \in Transports : u # t => g.transports[u] = h.transports[u],
         Ended(g.transports[t]), h.rtcTransport \in Transports \cup {None},
         \A s \in Sessions : \/ g.sessions[s] = h.sessions[s]
                             \/ g.sessions[s].phase \notin Live /\ h.sessions[s].phase \notin Live
                                /\ ~g.sessions[s].pending,
         Base(h), g.proactive = h.proactive
  PROVE  Structure(g)
<1>1. OthersEnded(g)
  BY DEF Structure, OthersEnded
<1>2. h.rtcTransport # None => Primary(g) = Primary(h)
  BY DEF Primary
<1>3. PrimaryWell(g)
  <2>1. CASE h.rtcTransport # None /\ Primary(h).session # None
    <3>1. Primary(h).session \in Sessions
      BY <2>1, TransportRecords DEF Primary, TransportType, Base
    <3>2. PrimaryTries(h) \/ PrimaryUp(h) => PrimarySession(h).phase \in Live
      BY DEF PrimaryTries, PrimaryUp, Trying, Up, Live
    <3>. QED BY <1>2, <2>1, <3>1, <3>2 DEF Structure, PrimaryWell, PrimaryTries, PrimaryUp, PrimarySession
  <2>2. CASE h.rtcTransport # None /\ Primary(h).session = None
    BY <1>2, <2>2 DEF Structure, PrimaryWell, PrimaryTries, PrimaryUp, Trying, Up, Idle, Ended
  <2>. QED BY <2>1, <2>2 DEF PrimaryWell
<1>4. HandoffWell(g)
  <2>1. CASE h.handoff # NoHandoff
    <3>1. h.handoff.new \in Sessions /\ h.sessions[h.handoff.new].phase \in Live
      BY <2>1, HandoffNames DEF Base, Known, Structure, HandoffWell, NewOnItsWay, Live
    <3>. QED BY <1>2, <2>1, <3>1 DEF Structure, HandoffWell
  <2>. QED BY <2>1 DEF HandoffWell
<1>5. AllHeld(g) /\ LateOnly(g)
  BY <1>2 DEF Structure, AllHeld, LateOnly
<1>6. Quiet(g)
  BY <1>2 DEF Structure, Quiet
<1>. QED BY <1>1, <1>3, <1>4, <1>5, <1>6 DEF Structure

LEMMA TransportConnectStructure ==
  ASSUME NEW h, Base(h), Structure(h), Forgotten(h) # {}, h.rtcTransport # None, Idle(Primary(h))
  PROVE  LET g == TransportConnect(h, h.rtcTransport)
         IN  /\ Structure(g) /\ ~Ended(Primary(g)) /\ ~Primary(g).connected
             /\ Primary(g).handler = Primary(h).handler /\ Same(g, h) /\ SameTimers(g, h)
<1> DEFINE t == h.rtcTransport
           g == TransportConnect(h, t)
           s == NewSession(h)
           q == Beginning(t, "primary")
           r == [h.transports[t] EXCEPT !.connecting = TRUE, !.session = s]
<1>1. h \in HubType /\ t \in Transports
  BY DEF Base, HubType
<1>2. s \in Forgotten(h) /\ s \in Sessions
  BY NewSessionForgotten
<1>3. /\ g \in HubType /\ Same(g, h) /\ SameTimers(g, h)
      /\ SessionIs(g, h, s, q) /\ TransportIs(g, h, t, r)
  BY <1>1, TransportConnectFields
<1>4. /\ r.session = s /\ r.connecting /\ r.connected = h.transports[t].connected
      /\ r.handoffInProgress = h.transports[t].handoffInProgress /\ r.waiters = h.transports[t].waiters
      /\ r.handler = h.transports[t].handler
  <2>1. ASSUME NEW x \in TransportType
        PROVE  LET y == [x EXCEPT !.connecting = TRUE, !.session = s]
               IN  /\ y.session = s /\ y.connecting /\ y.connected = x.connected
                   /\ y.handoffInProgress = x.handoffInProgress /\ y.waiters = x.waiters
                   /\ y.handler = x.handler
    BY DEF TransportType
  <2>. QED BY <1>1, <2>1, TransportRecords
<1>5. q.phase = "connecting" /\ q.pending /\ q.of = t /\ q.role = "primary"
  BY DEF Beginning
<1>6. h.handoff = NoHandoff /\ g.handoff = NoHandoff /\ h.handoff.new = None
  BY <1>1, <1>3, HandoffNames DEF Structure, HandoffWell, Idle, Ended, Same
<1>. HIDE DEF s, g, q, r
<1>7. g.rtcTransport = t /\ Primary(g) = r /\ Primary(h) = h.transports[t] /\ g.sessions[s] = q /\ g.made = h.made
  BY <1>1, <1>2, <1>3 DEF Same, TransportIs, SessionIs, Primary
<1>8. OthersEnded(g)
  BY <1>3, <1>7 DEF Structure, OthersEnded, TransportIs
<1>9. PrimaryTries(g)
  BY <1>2, <1>4, <1>5, <1>7, NoneOther DEF PrimaryTries, PrimarySession, Trying, Idle, Ended
<1>10. AllHeld(g)
  <2>1. ASSUME NEW u \in Sessions, u # s, g.sessions[u].phase \in Live PROVE FALSE
    <3>1. h.sessions[u].phase \in Live
      BY <1>3, <2>1 DEF SessionIs
    <3>2. u # None
      BY NoneOther
    <3>. QED BY <1>6, <3>1, <3>2 DEF Structure, AllHeld, Idle, Ended
  <2>. QED BY <1>4, <1>7, <2>1, NoneOther DEF AllHeld
<1>11. LateOnly(g)
  BY <1>3, <1>5, <1>6, <1>7 DEF Structure, LateOnly, SessionIs
<1>12. Quiet(g)
  BY <1>3, <1>7 DEF Structure, Quiet, Idle, Ended, SameTimers
<1>13. Structure(g)
  BY <1>6, <1>8, <1>9, <1>10, <1>11, <1>12 DEF Structure, PrimaryWell, HandoffWell
<1>. QED BY <1>3, <1>4, <1>7, <1>9, <1>13 DEF PrimaryTries, Trying, Ended, g, t

LEMMA WithTransportStructure ==
  ASSUME NEW h, Base(h), Structure(h), h.rtcTransport = None, h.made < MaxTransports,
         ~h.terminating => h.made = 0
  PROVE  LET g == WithTransport(h)
         IN  /\ Structure(g) /\ Idle(Primary(g)) /\ g.rtcTransport # None /\ SameTimers(g, h)
             /\ Primary(g).handler = ~h.handlerWired
             /\ g.terminating = h.terminating /\ g.waking = h.waking
             /\ g.made # 0
<1> DEFINE n == h.made + 1
           g == WithTransport(h)
           b == ~h.handlerWired
           r == [h.transports[n] EXCEPT !.handler = b]
<1>1. /\ g \in HubType /\ SameTimers(g, h) /\ g.sessions = h.sessions
      /\ g.handoff = h.handoff /\ g.terminating = h.terminating /\ g.waking = h.waking
      /\ g.made = n /\ g.rtcTransport = n /\ n \in Transports
      /\ TransportIs(g, h, n, r)
  BY WithTransportFields DEF Base
<1>2. h.made \in Nat /\ h \in HubType /\ n # None /\ n > h.made
  BY NoneOther DEF Base, HubType, None
<1>3. /\ r.session = h.transports[n].session /\ r.connecting = h.transports[n].connecting
      /\ r.connected = h.transports[n].connected /\ r.waiters = h.transports[n].waiters
      /\ r.handoffInProgress = h.transports[n].handoffInProgress /\ r.handler = b
  <2>1. ASSUME NEW x \in TransportType, NEW c
        PROVE  LET y == [x EXCEPT !.handler = c]
               IN  /\ y.session = x.session /\ y.connecting = x.connecting
                   /\ y.connected = x.connected /\ y.waiters = x.waiters
                   /\ y.handoffInProgress = x.handoffInProgress /\ y.handler = c
    BY DEF TransportType
  <2>. QED BY <1>1, <1>2, <2>1, TransportRecords
<1>. HIDE DEF g, r, b
<1>4. Primary(g) = r
  BY <1>1 DEF Primary, TransportIs
<1>5. Idle(h.transports[n])
  BY <1>1, <1>2 DEF Structure, OthersEnded, Idle
<1>6. Idle(r)
  BY <1>3, <1>5 DEF Idle, Ended
<1>. HIDE DEF n
<1>7. OthersEnded(g)
  <2>1. \A t \in Transports : t > g.made => t > h.made
    BY <1>1, <1>2 DEF n, Transports
  <2>. QED BY <1>1, <1>2, <2>1, NoneOther DEF Structure, OthersEnded, TransportIs
<1>8. h.handoff = NoHandoff /\ h.handoff.new = None
  BY <1>2, HandoffNames DEF Structure, HandoffWell
<1>9. AllHeld(g)
  BY <1>1 DEF Structure, AllHeld
<1>10. LateOnly(g)
  <2>1. \A s \in Sessions : h.sessions[s].pending => h.sessions[s].of # n
    BY <1>2 DEF n, Base, Known
  <2>. QED BY <1>1, <2>1 DEF Structure, LateOnly
<1>11. Quiet(g)
  BY <1>1 DEF Structure, Quiet, SameTimers
<1>12. Structure(g)
  BY <1>1, <1>4, <1>6, <1>7, <1>8, <1>9, <1>10, <1>11 DEF Structure, PrimaryWell, HandoffWell
<1>. QED BY <1>1, <1>2, <1>3, <1>4, <1>6, <1>12 DEF g, n, b

LEMMA IdleUnlessBusy ==
  ASSUME NEW h, Base(h), Structure(h), h.rtcTransport # None
  PROVE  /\ ~Busy(h, h.rtcTransport) => Idle(Primary(h))
         /\ Busy(h, h.rtcTransport) => ~Ended(Primary(h))
BY DEF Busy, Structure, PrimaryWell, Idle, Ended, PrimaryTries, PrimaryUp, Trying, Up, Primary

\* connectRtc() leaves the station trying, if it is not connected already.
LEMMA ConnectRtcStructure ==
  ASSUME NEW h, Base(h), Structure(h), Forgotten(h) # {}, h.rtcTransport = None => h.made < MaxTransports
  PROVE  LET g == ConnectRtc(h)
         IN  /\ Structure(g) /\ Tried(g)
             /\ ~h.terminating /\ Planned(h) => Planned(g)
<1> DEFINE g == ConnectRtc(h)
<1>1. CASE h.rtcTransport = None
  <2> DEFINE m == WithTransport(h)
             r == [h.transports[h.made + 1] EXCEPT !.handler = ~h.handlerWired]
  <2>1. ~h.terminating => h.made = 0
    BY <1>1 DEF Base, MadeOnce, None
  <2>2. Base(m) /\ m.rtcTransport # None
    BY <1>1, <2>1, WithTransportBase
  <2>3. /\ Structure(m) /\ Idle(Primary(m)) /\ SameTimers(m, h)
        /\ Primary(m).handler = ~h.handlerWired
        /\ m.terminating = h.terminating /\ m.made # 0
    BY <1>1, <2>1, WithTransportStructure
  <2>4. /\ m.sessions = h.sessions /\ m.handoff = h.handoff /\ TransportIs(m, h, h.made + 1, r)
        /\ h.made + 1 \in Transports
    BY <1>1, WithTransportFields DEF Base
  <2>5. r.session = h.transports[h.made + 1].session
    <3>1. ASSUME NEW x \in TransportType, NEW b PROVE [x EXCEPT !.handler = b].session = x.session
      BY DEF TransportType
    <3>. QED BY <2>4, <3>1, TransportRecords DEF Base
  <2>6. g = TransportConnect(m, m.rtcTransport)
    BY <1>1 DEF ConnectRtc
  <2>. HIDE DEF m, r, g
  <2>7. Forgotten(m) # {}
    BY <2>4, <2>5, ForgottenStill DEF Base, TransportIs
  <2>8. /\ Structure(g) /\ ~Ended(Primary(g)) /\ ~Primary(g).connected
        /\ Primary(g).handler = Primary(m).handler /\ Same(g, m) /\ SameTimers(g, m)
    BY <2>2, <2>3, <2>6, <2>7, TransportConnectStructure
  <2>9. ~h.terminating /\ Planned(h) => Planned(g)
    BY <2>1, <2>2, <2>3, <2>8 DEF Planned, Same, SameTimers
  <2>. QED BY <2>8, <2>9 DEF Tried, g
<1>2. CASE h.rtcTransport # None /\ Busy(h, h.rtcTransport)
  BY <1>2, IdleUnlessBusy DEF ConnectRtc, Tried
<1>3. CASE h.rtcTransport # None /\ ~Busy(h, h.rtcTransport)
  <2>1. g = TransportConnect(h, h.rtcTransport) /\ Idle(Primary(h))
    BY <1>3, IdleUnlessBusy DEF ConnectRtc
  <2>. HIDE DEF g
  <2>2. /\ Structure(g) /\ ~Ended(Primary(g)) /\ ~Primary(g).connected
        /\ Primary(g).handler = Primary(h).handler /\ Same(g, h) /\ SameTimers(g, h)
    BY <1>3, <2>1, TransportConnectStructure
  <2>3. ~h.terminating /\ Planned(h) => Planned(g)
    BY <1>3, <2>2 DEF Planned, Same
  <2>. QED BY <2>2, <2>3 DEF Tried, g
<1>. QED BY <1>1, <1>2, <1>3

\* A reconnection that is scheduled, or not for a station that was closed.
LEMMA ScheduleStructure ==
  ASSUME NEW h, Base(h), Structure(h)
  PROVE  LET g == ScheduleRtcReconnect(h)
         IN  Structure(g) /\ Tried(g) /\ (Planned(h) => Planned(g))
<1> DEFINE g == ScheduleRtcReconnect(h)
<1>1. /\ g \in HubType /\ Same(g, h) /\ g.sessions = h.sessions /\ g.transports = h.transports
      /\ g.proactive = h.proactive /\ g.commandTransport = h.commandTransport
      /\ g.reconnectTimeout = (h.reconnectTimeout \/ ~h.terminating)
  BY ScheduleFields DEF Base
<1>. HIDE DEF g
<1>2. Quiet(g)
  BY <1>1 DEF Structure, Quiet, Same, Primary
<1>3. Structure(g)
  BY <1>1, <1>2, SameStructure DEF Same
<1>4. Tried(g)
  BY <1>1 DEF Tried, Same
<1>5. Planned(h) => Planned(g)
  BY <1>1 DEF Planned, Same, Primary
<1>. QED BY <1>3, <1>4, <1>5 DEF g

LEMMA TryConnectStructure ==
  ASSUME NEW h, Base(h), Structure(h), Forgotten(h) = Forgotten(hub), TryConnect(h),
         h.rtcTransport = None => h.made < MaxTransports
  PROVE  Structure(hub') /\ Tried(hub') /\ (~h.terminating /\ Planned(h) => Planned(hub'))
<1>1. CASE Nameable /\ hub' = ConnectRtc(h)
  BY <1>1, ConnectRtcStructure DEF Nameable
<1>2. CASE hub' = ScheduleRtcReconnect(h)
  BY <1>2, ScheduleStructure
<1>. QED BY <1>1, <1>2 DEF TryConnect

LEMMA ConnectKept == ASSUME Base(hub), Structure(hub), Connect PROVE Kept
<1>1. "reopen" \notin Faults => ~hub.terminating
  BY DEF Connect
<1>2. Structure(hub') /\ Tried(hub') /\ (~hub.terminating /\ Planned(hub) => Planned(hub'))
  BY TryConnectStructure DEF Connect
<1>. QED BY <1>1, <1>2 DEF Kept

LEMMA ReconnectTimerKept == ASSUME Base(hub), Structure(hub), ReconnectTimer PROVE Kept
<1> DEFINE f == [hub EXCEPT !.reconnectTimeout = FALSE]
           n == f.waking + 1
<1>1. /\ Base(f) /\ Forgotten(f) = Forgotten(hub) /\ Same(f, hub)
      /\ f.sessions = hub.sessions /\ f.transports = hub.transports
      /\ f.proactive = hub.proactive /\ f.commandTransport = hub.commandTransport
  BY TimerGone
<1>2. TryConnect(f) \/ hub' = [f EXCEPT !.waking = n]
  BY DEF ReconnectTimer
<1>. HIDE DEF f
<1>3. ~hub.terminating /\ ~f.terminating
  BY <1>1 DEF ReconnectTimer, Base, MadeOnce, Same
<1>4. f.rtcTransport = None => f.made < MaxTransports
  BY <1>1, <1>3, NoneMade
<1>5. n \in Nat /\ n > 0
  BY <1>1 DEF Base, HubType
<1>6. Quiet(f)
  BY <1>1 DEF Structure, Quiet, Same, Primary
<1>7. Structure(f)
  BY <1>1, <1>6, SameStructure DEF Same
<1>8. Planned(hub) => Planned(f)
  BY <1>1 DEF Planned, Same, Primary
<1>9. CASE TryConnect(f)
  BY <1>1, <1>3, <1>4, <1>7, <1>8, <1>9, TryConnectStructure DEF Kept
<1>10. CASE hub' = [f EXCEPT !.waking = n]
  <2>. HIDE DEF n
  <2>1. /\ SameTimers(hub', f) /\ hub'.waking = n
        /\ hub'.sessions = f.sessions /\ hub'.transports = f.transports /\ hub'.handoff = f.handoff
        /\ hub'.made = f.made /\ hub'.rtcTransport = f.rtcTransport /\ hub'.terminating = f.terminating
        /\ hub'.handlerWired = f.handlerWired
    BY <1>1, <1>5, <1>10, WakingChanged
  <2>2. Quiet(hub')
    BY <1>6, <2>1 DEF Quiet, SameTimers, Primary
  <2>3. Structure(hub')
    BY <1>7, <2>1, <2>2, SameStructure
  <2>4. Tried(hub')
    BY <1>5, <2>1 DEF Tried
  <2>5. Planned(f) => Planned(hub')
    BY <2>1 DEF Planned, SameTimers, Primary
  <2>. QED BY <1>8, <2>3, <2>4, <2>5 DEF Kept
<1>. QED BY <1>2, <1>9, <1>10

LEMMA WokenKept == ASSUME Base(hub), Structure(hub), Woken PROVE Kept
<1> DEFINE n == hub.waking - 1
           a == [hub EXCEPT !.waking = n]
<1>1. n \in Nat
  BY DEF Base, HubType, Woken
<1>2. (hub.terminating /\ hub' = a) \/ (~hub.terminating /\ TryConnect(a))
  BY DEF Woken
<1>. HIDE DEF n
<1>3. /\ Base(a) /\ Forgotten(a) = Forgotten(hub) /\ SameTimers(a, hub)
      /\ a.sessions = hub.sessions /\ a.transports = hub.transports /\ a.handoff = hub.handoff
      /\ a.made = hub.made /\ a.rtcTransport = hub.rtcTransport /\ a.terminating = hub.terminating
      /\ a.handlerWired = hub.handlerWired
  BY <1>1, WakingChanged
<1>. HIDE DEF a
<1>4. ~a.terminating /\ a.rtcTransport = None => a.made < MaxTransports
  BY <1>3, NoneMade
<1>5. Quiet(a)
  BY <1>3 DEF Structure, Quiet, SameTimers, Primary
<1>6. Structure(a)
  BY <1>3, <1>5, SameStructure
<1>7. Planned(hub) => Planned(a)
  BY <1>3 DEF Planned, SameTimers, Primary
<1>8. CASE hub.terminating /\ hub' = a
  BY <1>3, <1>6, <1>7, <1>8 DEF Kept, Tried
<1>9. CASE ~hub.terminating /\ TryConnect(a)
  BY <1>3, <1>4, <1>6, <1>7, <1>9, TryConnectStructure DEF Kept
<1>. QED BY <1>2, <1>8, <1>9

\* A session that is not over and not a handoff's is the transport's.
LEMMA LivePlace ==
  ASSUME NEW h, Base(h), Structure(h), NEW s \in Sessions, h.sessions[s].phase \in Live, s # h.handoff.new
  PROVE  /\ h.rtcTransport \in Transports /\ h.rtcTransport # None
         /\ s = Primary(h).session /\ h.sessions[s] = PrimarySession(h)
         /\ h.sessions[s].of = h.rtcTransport
         /\ h.sessions[s].phase # "open" => PrimaryTries(h)
         /\ h.sessions[s].phase = "open" => PrimaryUp(h)
<1>1. h.rtcTransport # None /\ s = Primary(h).session /\ s # None
  BY NoneOther DEF Structure, AllHeld
<1>2. h.rtcTransport \in Transports
  BY <1>1 DEF Base, HubType
<1>3. PrimaryTries(h) \/ PrimaryUp(h)
  BY <1>1 DEF Structure, PrimaryWell, Idle, Ended
<1>. QED BY <1>1, <1>2, <1>3 DEF PrimaryTries, PrimaryUp, Trying, Up, PrimarySession, Live

LEMMA NotConnected ==
  ASSUME NEW h, Base(h), Structure(h), h.rtcTransport # None, ~Primary(h).connected
  PROVE  h.handoff = NoHandoff /\ h.handoff.new = None /\ h.proactive = "none"
BY HandoffNames DEF Base, Structure, HandoffWell, Quiet

\* After a step in which the station's transport and its session came to an end.
LEMMA PrimaryGone ==
  ASSUME Base(hub), Structure(hub), NEW t \in Transports, t = hub.rtcTransport,
         hub.handoff = NoHandoff, Same(hub', hub),
         \A u \in Transports : u # t => hub'.transports[u] = hub.transports[u],
         Idle(hub'.transports[t]), hub'.transports[t].handler = hub.transports[t].handler,
         \A s \in Sessions : s # hub.transports[t].session => hub'.sessions[s] = hub.sessions[s],
         \A s \in Sessions : s = hub.transports[t].session =>
           hub'.sessions[s].phase \notin Live /\ ~hub'.sessions[s].pending,
         hub'.proactive = "none", hub'.reconnectTimeout = (hub.reconnectTimeout \/ ~hub.terminating)
  PROVE  Kept
<1>1. Structure(hub')
  BY IdleStructure DEF Same
<1>2. Primary(hub') = hub'.transports[t] /\ Primary(hub) = hub.transports[t]
  BY DEF Primary, Same
<1>3. Tried(hub')
  BY DEF Tried, Same
<1>4. Planned(hub) => Planned(hub')
  BY <1>2 DEF Planned, Same, Idle, Ended
<1>. QED BY <1>1, <1>3, <1>4 DEF Kept

\* The primary session is none of those that are pending but over.
LEMMA PrimarySettled ==
  ASSUME NEW h, Base(h), Structure(h), h.rtcTransport # None, Primary(h).session # None
  PROVE  /\ Primary(h).session \in Sessions
         /\ PrimarySession(h).pending => PrimaryTries(h) /\ PrimarySession(h).phase = "connecting"
         /\ PrimaryTries(h) \/ PrimaryUp(h)
<1>1. Primary(h) \in TransportType
  BY TransportRecords DEF Base, HubType, Primary
<1>. QED BY <1>1 DEF TransportType, Structure, PrimaryWell, Idle, Ended, PrimaryTries, PrimaryUp, Trying, Up

\* close() of a connected transport without a handoff, by the watchdog or a probe that failed.
LEMMA HardReconnectKept ==
  ASSUME Base(hub), Structure(hub), Connected(hub), hub.handoff = NoHandoff, NEW h, Base(h),
         Same(h, hub), h.sessions = hub.sessions, h.transports = hub.transports,
         h.reconnectTimeout = hub.reconnectTimeout, hub' = HardReconnect(h)
  PROVE  Kept
<1> DEFINE t == hub.rtcTransport
           c == [h EXCEPT !.proactive = "none"]
           r == Dropped(hub.transports[t])
<1>1. t \in Transports /\ t # None /\ hub.transports[t].connected
  BY DEF Connected, Base, HubType
<1>2. /\ Base(c) /\ Same(c, h) /\ c.sessions = h.sessions /\ c.transports = h.transports
      /\ c.reconnectTimeout = h.reconnectTimeout
  BY ProactiveChanged
<1>3. h.rtcTransport = t
  BY DEF Same
<1>4. hub' = TransportClose(c, t)
  BY <1>1, <1>3 DEF HardReconnect
<1>. HIDE DEF c
<1>5. /\ c.rtcTransport = t /\ c.transports = hub.transports /\ c.sessions = hub.sessions
      /\ Same(c, hub) /\ c.terminating = hub.terminating
  BY <1>2 DEF Same
<1>6. /\ Same(hub', c) /\ SessionClosed(hub', c, t) /\ TransportIs(hub', c, t, r) /\ ToldOfClose(hub', c)
  BY <1>1, <1>2, <1>4, <1>5, TransportCloseFields DEF Base
<1>7. /\ r.session = None /\ ~r.connected /\ ~r.connecting /\ ~r.handoffInProgress
      /\ r.waiters = hub.transports[t].waiters /\ r.handler = hub.transports[t].handler
  BY <1>1, TransportRecords, DroppedRecord DEF Base
<1>8. PrimaryUp(hub) /\ Primary(hub) = hub.transports[t]
  BY <1>1 DEF Structure, PrimaryWell, Primary, Idle, Ended, PrimaryTries, Trying
<1>. HIDE DEF r
<1>9. Idle(r)
  BY <1>7, <1>8 DEF Idle, Ended, PrimaryUp, Up
<1>10. \A s \in Sessions : s = hub.transports[t].session =>
         hub'.sessions[s].phase \notin Live /\ ~hub'.sessions[s].pending
  <2>1. ASSUME NEW s \in Sessions, s = hub.transports[t].session
        PROVE  hub'.sessions[s].phase \notin Live /\ ~hub'.sessions[s].pending
    <3>1. hub.sessions[s] \in SessionType /\ ~hub.sessions[s].pending
      BY <1>8, <2>1, SessionRecords DEF PrimaryUp, Up, PrimarySession, Base
    <3>2. hub'.sessions[s] = Closed(hub.sessions[s])
      BY <1>5, <1>6, <2>1 DEF SessionClosed, SessionIs
    <3>. QED BY <3>1, <3>2 DEF Closed, SessionType, Live
  <2>. QED BY <2>1
<1>11. Same(hub', hub)
  BY <1>5, <1>6 DEF Same
<1>12. \A s \in Sessions : s # hub.transports[t].session => hub'.sessions[s] = hub.sessions[s]
  BY <1>5, <1>6 DEF SessionClosed, SessionIs
<1>13. hub'.transports[t] = r /\ \A u \in Transports : u # t => hub'.transports[u] = hub.transports[u]
  BY <1>1, <1>5, <1>6 DEF TransportIs
<1>14. hub'.proactive = "none" /\ hub'.reconnectTimeout = (hub.reconnectTimeout \/ ~hub.terminating)
  BY <1>2, <1>5, <1>6 DEF ToldOfClose
<1>. QED BY <1>1, <1>7, <1>9, <1>10, <1>11, <1>12, <1>13, <1>14, PrimaryGone

LEMMA PollWatchdogKept ==
  ASSUME Base(hub), Structure(hub), "down_in_handoff" \notin Faults, PollWatchdog
  PROVE  Kept
BY HardReconnectKept DEF PollWatchdog, Same

\* What close() of a transport leaves of the sessions.
LEMMA ClosedSessions ==
  ASSUME NEW h \in HubType, NEW t \in Transports, NEW g, SessionClosed(g, h, t)
  PROVE  /\ \A s \in Sessions : s # h.transports[t].session => g.sessions[s] = h.sessions[s]
         /\ \A s \in Sessions : s = h.transports[t].session =>
              /\ g.sessions[s].phase = "closed" /\ g.sessions[s].pending = h.sessions[s].pending
              /\ g.sessions[s].of = h.sessions[s].of /\ g.sessions[s].role = h.sessions[s].role
<1>1. ASSUME NEW s \in Sessions, s = h.transports[t].session
      PROVE  /\ g.sessions[s].phase = "closed" /\ g.sessions[s].pending = h.sessions[s].pending
             /\ g.sessions[s].of = h.sessions[s].of /\ g.sessions[s].role = h.sessions[s].role
  <2>1. h.sessions[s] \in SessionType /\ g.sessions[s] = Closed(h.sessions[s])
    BY <1>1, SessionRecords DEF SessionClosed, SessionIs
  <2>. QED BY <2>1 DEF Closed, SessionType
<1>. QED BY <1>1 DEF SessionClosed, SessionIs

LEMMA CloseKept ==
  ASSUME Base(hub), Structure(hub), "close_in_handoff" \notin Faults, Close
  PROVE  Kept
<1> DEFINE t == hub.rtcTransport
           c == [hub EXCEPT !.terminating = TRUE, !.reconnectTimeout = FALSE]
           d == TransportClose(c, t)
           e == [d EXCEPT !.rtcTransport = None]
<1>1. /\ Base(c) /\ c.terminating /\ c.rtcTransport = t
      /\ c.sessions = hub.sessions /\ c.transports = hub.transports /\ c.handoff = hub.handoff
      /\ c.made = hub.made /\ c.handlerWired = hub.handlerWired
      /\ c.proactive = hub.proactive /\ c.commandTransport = hub.commandTransport
  BY Closing
<1>2. hub' = IF ~Busy(hub, t) THEN c ELSE e
  BY DEF Close
<1>. HIDE DEF c
<1>3. hub.handoff = NoHandoff /\ hub.handoff.new = None
  BY HandoffNames DEF Close, Base
<1>4. CASE ~Busy(hub, t)
  <2>1. Quiet(c)
    BY <1>1 DEF Structure, Quiet, Primary
  <2>2. Structure(c)
    BY <1>1, <1>3, <2>1, SameStructure
  <2>3. t # None => Ended(Primary(hub))
    BY <1>4, IdleUnlessBusy DEF Idle
  <2>4. Planned(hub) => Planned(c)
    BY <1>1, <2>3 DEF Planned, Primary
  <2>. QED BY <1>1, <1>2, <1>4, <2>2, <2>4 DEF Kept, Tried
<1>5. CASE Busy(hub, t)
  <2>1. t # None /\ t \in Transports /\ ~(t > hub.made)
    BY <1>5 DEF Busy, Base, HubType, MadeOnce, None
  <2>2. /\ d \in HubType /\ Same(d, c)
        /\ SessionClosed(d, c, t) /\ TransportIs(d, c, t, Dropped(c.transports[t]))
        /\ IF c.transports[t].connected THEN ToldOfClose(d, c) ELSE SameTimers(d, c)
    BY <1>1, <2>1, TransportCloseFields DEF Base
  <2>3. Base(d) /\ d.terminating
    BY <1>1, <2>1, <2>2, TransportCloseBase DEF Same
  <2>. HIDE DEF d
  <2>4. /\ Base(e) /\ e.terminating /\ e.rtcTransport = None /\ e.sessions = d.sessions
        /\ e.transports = d.transports /\ e.handoff = hub.handoff
        /\ e.made = hub.made /\ e.handlerWired = hub.handlerWired /\ SameTimers(e, d)
    BY <1>1, <2>2, <2>3, Unreferenced DEF Same
  <2>. HIDE DEF e
  <2>5. Ended(e.transports[t])
    BY <2>1, <2>2, <2>4, TransportRecords, DroppedRecord, <1>1 DEF Base, TransportIs, Ended
  <2>6. OthersEnded(e)
    BY <1>1, <2>1, <2>2, <2>4, <2>5 DEF TransportIs, Structure, OthersEnded
  <2>7. /\ \A s \in Sessions : s # hub.transports[t].session => e.sessions[s] = hub.sessions[s]
        /\ \A s \in Sessions : s = hub.transports[t].session => e.sessions[s].phase = "closed"
    BY <1>1, <2>1, <2>2, <2>4, ClosedSessions DEF Base
  <2>8. AllHeld(e)
    BY <1>3, <2>7, NoneOther DEF Structure, AllHeld, Live, Primary
  <2>9. LateOnly(e)
    <3>1. \A s \in Sessions : e.sessions[s].pending => e.sessions[s].of # None
      BY <2>4, OfTransport DEF Base, Known
    <3>. QED BY <1>3, <2>4, <3>1, NoneOther DEF LateOnly
  <2>10. e.proactive = "none"
    BY <1>1, <2>1, <2>2, <2>4 DEF SameTimers, ToldOfClose, Structure, Quiet, Primary
  <2>11. Structure(e)
    BY <1>3, <2>4, <2>6, <2>8, <2>9, <2>10 DEF Structure, PrimaryWell, HandoffWell, Quiet
  <2>12. Planned(hub) => Planned(e)
    BY <2>4 DEF Planned
  <2>. QED BY <1>2, <1>5, <2>4, <2>11, <2>12 DEF Kept, Tried
<1>. QED BY <1>4, <1>5

\* Nothing is armed or disarmed, and the station's transport is as far as it was.
LEMMA SameFlags ==
  ASSUME Tried(hub), Base(hub), Structure(hub'), Same(hub', hub), SameTimers(hub', hub),
         hub.rtcTransport # None =>
           /\ Ended(Primary(hub')) <=> Ended(Primary(hub))
           /\ Primary(hub').handler = Primary(hub).handler
           /\ Primary(hub').connected = Primary(hub).connected
  PROVE  Kept
<1>1. Tried(hub')
  <2>1. hub.made > 0 /\ ~hub.terminating => hub.rtcTransport # None
    BY DEF Base, MadeOnce, None
  <2>. QED BY <2>1 DEF Tried, Same, SameTimers
<1>2. Planned(hub) => Planned(hub')
  BY DEF Planned, Same, SameTimers
<1>. QED BY <1>1, <1>2 DEF Kept

LEMMA WaitersRecord ==
  ASSUME NEW r \in TransportType, NEW n \in Nat
  PROVE  LET w == [r EXCEPT !.waiters = n]
         IN  /\ w \in TransportType /\ w.session = r.session /\ w.connected = r.connected
             /\ w.connecting = r.connecting /\ w.handoffInProgress = r.handoffInProgress
             /\ w.handler = r.handler /\ w.waiters = n
BY DEF TransportType

LEMMA AuthenticatedKept ==
  ASSUME Base(hub), Structure(hub), Tried(hub), NEW s \in Sessions, Authenticated(s)
  PROVE  Kept
<1> DEFINE q == hub.sessions[s]
           t == q.of
           c == [hub EXCEPT !.sessions[s] = Settled(@, "calling")]
           k == Settled(q, "calling")
           n == c.transports[t].waiters + 1
           w == [c EXCEPT !.transports[t].waiters = n]
           r == [c.transports[t] EXCEPT !.waiters = n]
<1>1. /\ Base(c) /\ Same(c, hub) /\ SameTimers(c, hub) /\ c.transports = hub.transports
      /\ SessionIs(c, hub, s, k) /\ t \in Transports /\ q.phase # "free" /\ q.pending
  BY SettledBase DEF Authenticated
<1>2. hub' = IF q.role # "primary" \/ hub.transports[t].connected THEN c ELSE w
  BY DEF Authenticated
<1>3. /\ ~k.pending /\ k.of = t /\ k.role = q.role
      /\ k.phase = IF q.phase = "connecting" THEN "calling" ELSE q.phase
  BY SessionRecords, SettledRecord DEF Base
<1>. HIDE DEF c, k
<1>4. c.transports[t] \in TransportType /\ n \in Nat
  <2>1. c.transports[t] \in TransportType
    BY <1>1, TransportRecords DEF Base
  <2>. QED BY <2>1 DEF TransportType
<1>5. /\ Same(w, c) /\ SameTimers(w, c) /\ w.sessions = c.sessions /\ TransportIs(w, c, t, r)
  BY <1>1, <1>4, WaitersBase
<1>6. /\ r.session = c.transports[t].session /\ r.connected = c.transports[t].connected
      /\ r.connecting = c.transports[t].connecting /\ r.handler = c.transports[t].handler
      /\ r.handoffInProgress = c.transports[t].handoffInProgress
      /\ r.waiters = n
  BY <1>4, WaitersRecord
<1>. HIDE DEF w, r
<1>7. CASE s = hub.handoff.new
  <2>1. hub.handoff # NoHandoff
    BY <1>7, NoneOther, HandoffNames DEF Base
  <2>2. q.of = hub.rtcTransport /\ q.role = "handoff" /\ q.phase = "connecting" /\ hub.handoff.old # s
    BY <1>1, <1>7, <2>1 DEF Structure, HandoffWell, NewOnItsWay
  <2>3. hub' = c /\ k.phase = "calling"
    BY <1>2, <1>3, <2>2
  <2>4. /\ Primary(hub').session = hub.handoff.old /\ Primary(hub').session # s
        /\ Primary(hub').session \in Sessions /\ Primary(hub') = Primary(hub)
        /\ PrimarySession(hub') = PrimarySession(hub)
    BY <1>1, <2>1, <2>2, <2>3, HandoffNames DEF Structure, HandoffWell, Primary, PrimarySession, Same,
         SessionIs, Base, Known
  <2>5. PrimaryWell(hub') /\ HandoffWell(hub') /\ OthersEnded(hub')
    BY <1>1, <1>3, <1>7, <2>2, <2>3, <2>4 DEF Same, SessionIs, Structure, PrimaryWell, HandoffWell, OthersEnded,
         PrimaryTries, PrimaryUp, NewOnItsWay
  <2>6. AllHeld(hub') /\ LateOnly(hub')
    BY <1>1, <1>3, <1>7, <2>3, <2>4 DEF Same, SessionIs, Structure, AllHeld, LateOnly
  <2>7. Structure(hub')
    BY <1>1, <2>3, <2>4, <2>5, <2>6 DEF Structure, Quiet, Same, SameTimers
  <2>. QED BY <1>1, <2>3, <2>4, <2>7, SameFlags
<1>8. CASE s # hub.handoff.new /\ q.phase \in Live
  <2>1. /\ t = hub.rtcTransport /\ t # None /\ s = Primary(hub).session /\ q = PrimarySession(hub)
        /\ PrimaryTries(hub) \/ PrimaryUp(hub)
    BY <1>8, LivePlace
  <2>2. q.phase = "connecting" /\ q.role = "primary" /\ PrimaryTries(hub)
        /\ Primary(hub) = hub.transports[t] /\ hub.transports[t].waiters = 0
    BY <1>1, <2>1 DEF PrimaryTries, PrimaryUp, Trying, Up, Primary
  <2>3. hub' = w
    BY <1>2, <2>1, <2>2 DEF PrimaryTries, Trying
  <2>4. Primary(hub') = r /\ PrimarySession(hub') = k /\ r.waiters = 1
    <3>1. hub'.rtcTransport = t /\ hub'.transports[t] = r
      BY <1>1, <1>5, <2>1, <2>3 DEF Same, TransportIs
    <3>2. Primary(hub') = r
      BY <3>1 DEF Primary
    <3>3. r.session = s
      BY <1>1, <1>6, <2>1, <2>2
    <3>4. hub'.sessions[s] = k
      BY <1>1, <1>5, <2>3 DEF SessionIs
    <3>5. n = 1
      BY <1>1, <2>2
    <3>. QED BY <1>6, <3>2, <3>3, <3>4, <3>5 DEF PrimarySession
  <2>5. PrimaryTries(hub') /\ hub'.handoff = NoHandoff /\ hub'.proactive = "none"
    BY <1>1, <1>3, <1>5, <1>6, <2>1, <2>2, <2>3, <2>4, NotConnected
       DEF PrimaryTries, Trying, Same, SameTimers
  <2>6. OthersEnded(hub') /\ PrimaryWell(hub') /\ HandoffWell(hub') /\ Quiet(hub')
    BY <1>1, <1>5, <2>1, <2>3, <2>5 DEF Structure, OthersEnded, PrimaryWell, HandoffWell, Quiet, Same, TransportIs
  <2>7. AllHeld(hub') /\ LateOnly(hub')
    BY <1>1, <1>3, <1>5, <1>6, <2>1, <2>2, <2>3, <2>4
       DEF Structure, AllHeld, LateOnly, Same, SessionIs, Live
  <2>8. Structure(hub')
    BY <2>6, <2>7 DEF Structure
  <2>9. Same(hub', hub) /\ SameTimers(hub', hub)
    BY <1>1, <1>5, <2>3 DEF Same, SameTimers
  <2>10. /\ Ended(Primary(hub')) <=> Ended(Primary(hub))
         /\ Primary(hub').handler = Primary(hub).handler
         /\ Primary(hub').connected = Primary(hub).connected
    BY <1>1, <1>5, <1>6, <2>1, <2>2, <2>3 DEF Primary, Same, TransportIs, Ended
  <2>. QED BY <2>8, <2>9, <2>10, SameFlags
<1>9. CASE s # hub.handoff.new /\ q.phase \notin Live
  <2>1. t # hub.rtcTransport /\ ~(t > hub.made)
    <3>1. t \in 1 .. hub.made
      BY <1>1 DEF Base, Known
    <3>. QED BY <1>1, <1>9, <3>1 DEF Structure, LateOnly, Live, Base, HubType
  <2>2. /\ Same(hub', hub) /\ SameTimers(hub', hub) /\ SessionIs(hub', hub, s, k)
        /\ \A u \in Transports : u # t => hub'.transports[u] = hub.transports[u]
        /\ Ended(hub'.transports[t]) <=> Ended(hub.transports[t])
    <3>1. CASE hub' = c
      BY <1>1, <3>1
    <3>2. CASE hub' = w
      <4>1. /\ Same(hub', hub) /\ SameTimers(hub', hub) /\ SessionIs(hub', hub, s, k)
        BY <1>1, <1>5, <3>2 DEF Same, SameTimers, SessionIs
      <4>2. hub'.transports[t] = r /\ \A u \in Transports : u # t => hub'.transports[u] = hub.transports[u]
        BY <1>1, <1>5, <3>2 DEF TransportIs
      <4>3. Ended(r) <=> Ended(hub.transports[t])
        BY <1>1, <1>6 DEF Ended
      <4>. QED BY <4>1, <4>2, <4>3
    <3>. QED BY <1>2, <3>1, <3>2
  <2>3. k.phase \notin Live
    BY <1>3, <1>9 DEF Live
  <2>4. Ended(hub'.transports[t])
    BY <1>1, <2>1, <2>2 DEF Structure, OthersEnded
  <2>5. \A u \in Sessions : \/ hub'.sessions[u] = hub.sessions[u]
                            \/ hub'.sessions[u].phase \notin Live /\ hub.sessions[u].phase \notin Live
                               /\ ~hub'.sessions[u].pending
    BY <1>3, <1>9, <2>2, <2>3 DEF SessionIs
  <2>6. Structure(hub')
    BY <1>1, <2>1, <2>2, <2>4, <2>5, LateStructure DEF Same, SameTimers, Base, HubType
  <2>7. hub.rtcTransport # None => Primary(hub') = Primary(hub)
    BY <2>1, <2>2 DEF Primary, Same, Base, HubType
  <2>. QED BY <2>2, <2>6, <2>7, SameFlags
<1>. QED BY <1>7, <1>8, <1>9

LEMMA ConnectedUp ==
  ASSUME NEW h, Base(h), Structure(h), h.rtcTransport # None, Primary(h).connected
  PROVE  PrimaryUp(h) /\ Primary(h).session \in Sessions /\ Primary(h).session # None
<1>1. PrimaryUp(h)
  BY DEF Structure, PrimaryWell, PrimaryTries, Trying, Idle, Ended
<1>. QED BY <1>1, PrimarySettled DEF PrimaryUp, Up

\* A handoff that was given up: the old session serves on, and a probe is planned.
LEMMA HandoffFailsKept ==
  ASSUME Base(hub), Structure(hub), hub.handoff # NoHandoff, NEW h, Base(h), Same(h, hub), SameTimers(h, hub),
         h.transports = hub.transports, NEW q \in SessionType, ~q.pending,
         SessionIs(h, hub, hub.handoff.new, q), hub' = HandoffFails(h)
  PROVE  Kept
<1> DEFINE t == hub.rtcTransport
           n == hub.handoff.new
           k == [h EXCEPT !.sessions[h.handoff.new] = [@ EXCEPT !.phase = "closed", !.role = "none"],
                          !.transports[h.handoff.transport] = [@ EXCEPT !.session = h.handoff.old,
                                                                        !.handoffInProgress = FALSE],
                          !.handoff = NoHandoff]
           r == [h.transports[h.handoff.transport] EXCEPT !.session = h.handoff.old, !.handoffInProgress = FALSE]
           g == [k EXCEPT !.proactive = "probe"]
<1>1. /\ t \in Transports /\ t # None /\ Primary(hub) = hub.transports[t] /\ hub.transports[t] \in TransportType
      /\ hub.handoff.transport = t /\ n # hub.handoff.old /\ hub.handoff.old = hub.transports[t].session
      /\ n \in Sessions /\ n # None /\ ~hub.terminating
  BY HandoffNames, TransportRecords DEF Structure, HandoffWell, Primary, Base, HubType, Known
<1>2. PrimaryUp(hub) /\ hub.transports[t].session \in Sessions
  BY <1>1, ConnectedUp DEF Structure, HandoffWell
<1>3. h.handoff = hub.handoff /\ h.handoff.transport = t /\ h.handoff.new = n /\ ~h.terminating
  BY <1>1 DEF Same
<1>4. /\ SameTimers(k, h) /\ k \in HubType
      /\ k.made = h.made /\ k.rtcTransport = h.rtcTransport
      /\ k.terminating = h.terminating /\ k.handlerWired = h.handlerWired
      /\ k.waking = h.waking /\ k.handoff = NoHandoff
      /\ SessionIs(k, h, n, Retired(h.sessions[n])) /\ TransportIs(k, h, t, r)
  BY <1>1, <1>3, HandoffFailsFields DEF Base
<1>5. /\ r.session = hub.transports[t].session /\ r.connected = hub.transports[t].connected
      /\ r.connecting = hub.transports[t].connecting /\ ~r.handoffInProgress
      /\ r.handler = hub.transports[t].handler /\ r.waiters = hub.transports[t].waiters
  BY <1>1, <1>3 DEF TransportType
<1>6. HandoffFails(h) = ProbeExisting(k, "probe")
  BY <1>3 DEF HandoffFails
<1>. HIDE DEF k, r
<1>7. k.transports[t] = r /\ k.sessions[r.session] = PrimarySession(hub)
      /\ k.rtcTransport = t /\ k.proactive = h.proactive
  BY <1>1, <1>2, <1>4, <1>5 DEF Same, SameTimers, SessionIs, TransportIs, PrimarySession
<1>8. Connected(k) /\ CommandChannelReady(k)
  BY <1>1, <1>2, <1>5, <1>7 DEF Connected, CommandChannelReady, PrimaryUp, Up
<1>9. hub' = g
  BY <1>6, <1>8 DEF ProbeExisting
<1>10. /\ hub'.sessions = k.sessions /\ hub'.transports = k.transports
       /\ hub'.handoff = NoHandoff /\ hub'.made = hub.made /\ hub'.rtcTransport = t
       /\ ~hub'.terminating /\ hub'.handlerWired = hub.handlerWired
       /\ hub'.proactive = "probe" /\ hub'.commandTransport = hub.commandTransport
  BY <1>3, <1>4, <1>7, <1>9 DEF HubType, Same, SameTimers
<1>. HIDE DEF g
<1>11. /\ hub'.sessions[n].phase = "closed" /\ ~hub'.sessions[n].pending
       /\ \A s \in Sessions : s # n => hub'.sessions[s] = hub.sessions[s]
  <2>1. h.sessions[n] = q /\ \A s \in Sessions : s # n => h.sessions[s] = hub.sessions[s]
    BY <1>1 DEF SessionIs
  <2>2. Retired(q).phase = "closed" /\ ~Retired(q).pending
    BY DEF Retired, SessionType
  <2>. QED BY <1>1, <1>4, <1>10, <2>1, <2>2 DEF SessionIs
<1>12. Primary(hub') = r /\ PrimarySession(hub') = PrimarySession(hub)
  BY <1>7, <1>10 DEF Primary, PrimarySession
<1>13. PrimaryUp(hub') /\ ~Primary(hub').handoffInProgress
  BY <1>1, <1>2, <1>5, <1>10, <1>12 DEF PrimaryUp, Up
<1>14. OthersEnded(hub') /\ PrimaryWell(hub') /\ HandoffWell(hub') /\ Quiet(hub')
  BY <1>1, <1>4, <1>10, <1>13 DEF Structure, OthersEnded, PrimaryWell, HandoffWell, Quiet, TransportIs, PrimaryUp, Up
<1>15. AllHeld(hub')
  BY <1>1, <1>5, <1>10, <1>11, <1>12 DEF Structure, AllHeld, Live
<1>16. LateOnly(hub')
  BY <1>1, <1>10, <1>11, NoneOther DEF Structure, LateOnly, NoHandoff
<1>17. Tried(hub')
  BY <1>13 DEF Tried, Ended, PrimaryUp, Up
<1>18. Planned(hub) => Planned(hub')
  BY <1>1, <1>2, <1>5, <1>10, <1>12 DEF Planned, PrimaryUp, Up
<1>. QED BY <1>14, <1>15, <1>16, <1>17, <1>18 DEF Kept, Structure

\* A handoff that succeeded: the new session takes over, and the next refresh is planned.
LEMMA HandoffSucceedsKept ==
  ASSUME Base(hub), Structure(hub), hub.handoff # NoHandoff, NEW h, Base(h), Same(h, hub), SameTimers(h, hub),
         h.transports = hub.transports, NEW q \in SessionType, ~q.pending, q.phase = "open",
         q.of = hub.rtcTransport, SessionIs(h, hub, hub.handoff.new, q), hub' = HandoffSucceeds(h)
  PROVE  Kept /\ Connected(hub')
<1> DEFINE t == hub.rtcTransport
           n == hub.handoff.new
           o == hub.handoff.old
           r == [h.transports[h.handoff.transport] EXCEPT !.session = h.handoff.new, !.handoffInProgress = FALSE]
           p == [h.sessions[n] EXCEPT !.role = "primary"]
<1>1. /\ t \in Transports /\ t # None /\ Primary(hub) = hub.transports[t] /\ hub.transports[t] \in TransportType
      /\ hub.handoff.transport = t /\ n # o /\ o = hub.transports[t].session
      /\ n \in Sessions /\ n # None /\ ~hub.terminating
  BY HandoffNames, TransportRecords DEF Structure, HandoffWell, Primary, Base, HubType, Known
<1>2. PrimaryUp(hub) /\ o \in Sessions /\ o # None
  BY <1>1, ConnectedUp DEF Structure, HandoffWell
<1>3. /\ h.handoff = hub.handoff /\ h.handoff.transport = t /\ h.handoff.new = n /\ h.handoff.old = o
      /\ ~h.terminating
  BY <1>1 DEF Same
<1>4. /\ hub'.made = h.made /\ hub'.rtcTransport = h.rtcTransport
      /\ hub'.terminating = h.terminating /\ hub'.handlerWired = h.handlerWired
      /\ hub'.handoff = NoHandoff /\ hub'.commandTransport = h.commandTransport
      /\ hub'.proactive = "refresh"
      /\ \A u \in Sessions : hub'.sessions[u] =
           IF u = n THEN [h.sessions[u] EXCEPT !.role = "primary"]
           ELSE IF u = o THEN Retired(h.sessions[u]) ELSE h.sessions[u]
      /\ TransportIs(hub', h, t, r)
  <2>1. /\ hub'.made = h.made /\ hub'.rtcTransport = h.rtcTransport
        /\ hub'.terminating = h.terminating /\ hub'.handlerWired = h.handlerWired
        /\ hub'.handoff = NoHandoff /\ hub'.commandTransport = h.commandTransport
        /\ hub'.proactive = IF h.terminating THEN h.proactive ELSE "refresh"
        /\ \A u \in Sessions : hub'.sessions[u] =
             IF u = h.handoff.new THEN [h.sessions[u] EXCEPT !.role = "primary"]
             ELSE IF u = h.handoff.old THEN Retired(h.sessions[u]) ELSE h.sessions[u]
        /\ TransportIs(hub', h, h.handoff.transport, r)
    BY <1>1, <1>2, <1>3, HandoffSucceedsFields DEF Base
  <2>. HIDE DEF r
  <2>. QED BY <1>3, <2>1
<1>5. /\ r.session = n /\ r.connected = hub.transports[t].connected
      /\ r.connecting = hub.transports[t].connecting /\ ~r.handoffInProgress
      /\ r.handler = hub.transports[t].handler /\ r.waiters = hub.transports[t].waiters
  BY <1>1, <1>3 DEF TransportType
<1>. HIDE DEF r
<1>6. h.sessions[n] = q /\ \A s \in Sessions : s # n => h.sessions[s] = hub.sessions[s]
  BY <1>1 DEF SessionIs
<1>7. p.phase = "open" /\ ~p.pending /\ p.of = t
  BY <1>6 DEF SessionType
<1>8. hub'.sessions[n] = p
  BY <1>1, <1>4
<1>. HIDE DEF p
<1>9. hub'.sessions[o].phase = "closed" /\ ~hub'.sessions[o].pending
  <2>1. hub.sessions[o] \in SessionType /\ ~hub.sessions[o].pending
    BY <1>1, <1>2, SessionRecords DEF Base, PrimaryUp, Up, PrimarySession
  <2>2. hub'.sessions[o] = Retired(hub.sessions[o])
    BY <1>1, <1>2, <1>4, <1>6
  <2>. QED BY <2>1, <2>2 DEF Retired, SessionType
<1>10. \A s \in Sessions : s # n /\ s # o => hub'.sessions[s] = hub.sessions[s]
  BY <1>4, <1>6
<1>11. hub'.made = hub.made /\ hub'.rtcTransport = t /\ ~hub'.terminating /\ hub'.handlerWired = hub.handlerWired
       /\ hub'.commandTransport = hub.commandTransport
  BY <1>3, <1>4 DEF Same, SameTimers
<1>12. Primary(hub') = r /\ PrimarySession(hub') = p
  BY <1>1, <1>4, <1>5, <1>8, <1>11 DEF Primary, PrimarySession, TransportIs
<1>13. PrimaryUp(hub') /\ ~Primary(hub').handoffInProgress
  BY <1>1, <1>2, <1>5, <1>7, <1>11, <1>12 DEF PrimaryUp, Up
<1>14. OthersEnded(hub')
  BY <1>1, <1>4, <1>11 DEF Structure, OthersEnded, TransportIs
<1>15. PrimaryWell(hub') /\ HandoffWell(hub') /\ Quiet(hub')
  BY <1>1, <1>4, <1>11, <1>13 DEF PrimaryWell, HandoffWell, Quiet, PrimaryUp, Up
<1>16. AllHeld(hub')
  BY <1>1, <1>5, <1>9, <1>10, <1>11, <1>12 DEF Structure, AllHeld, Live
<1>17. LateOnly(hub')
  BY <1>1, <1>4, <1>7, <1>8, <1>9, <1>10, <1>11, NoneOther DEF Structure, LateOnly, NoHandoff
<1>18. Tried(hub') /\ Connected(hub')
  BY <1>1, <1>11, <1>13 DEF Tried, Ended, PrimaryUp, Up, Connected, Primary
<1>19. Planned(hub) => Planned(hub')
  BY <1>1, <1>2, <1>4, <1>5, <1>11, <1>12 DEF Planned, PrimaryUp, Up
<1>. QED BY <1>14, <1>15, <1>16, <1>17, <1>18, <1>19 DEF Kept, Structure

LEMMA HandoffTimerKept == ASSUME Base(hub), Structure(hub), HandoffTimer PROVE Kept
<1> DEFINE q == hub.sessions[hub.handoff.new]
<1>1. hub.handoff # NoHandoff /\ ~q.pending /\ hub' = HandoffFails(hub)
  BY DEF HandoffTimer
<1>2. q \in SessionType
  BY <1>1, HandoffNames, SessionRecords DEF Base, Known
<1>3. SessionIs(hub, hub, hub.handoff.new, q) /\ Same(hub, hub) /\ SameTimers(hub, hub)
  BY DEF SessionIs, Same, SameTimers
<1>. HIDE DEF q
<1>. QED BY <1>1, <1>2, <1>3, HandoffFailsKept

LEMMA UnconnectedRecord ==
  ASSUME NEW r \in TransportType
  PROVE  LET u == [r EXCEPT !.connecting = FALSE, !.session = None]
         IN  /\ u.session = None /\ ~u.connecting /\ u.connected = r.connected
             /\ u.handoffInProgress = r.handoffInProgress /\ u.handler = r.handler /\ u.waiters = r.waiters
BY DEF TransportType

\* h is the hub of a moment ago, whose transport t has nothing pending in its session any more ...
SettledFor(h, last, t) ==
  /\ Same(h, last) /\ SameTimers(h, last)
  /\ \A u \in Transports : u # t => h.transports[u] = last.transports[u]
  /\ h.transports[t].session = last.transports[t].session
  /\ h.transports[t].handoffInProgress = last.transports[t].handoffInProgress
  /\ h.transports[t].connected = last.transports[t].connected
  /\ h.transports[t].handler = last.transports[t].handler
  /\ \A s \in Sessions : s # last.transports[t].session => h.sessions[s] = last.sessions[s]
  /\ \A s \in Sessions : s = last.transports[t].session => ~h.sessions[s].pending

\* ... and next is g without anybody who waits for transport t.
Unwaited(next, g, t) ==
  /\ Same(next, g) /\ SameTimers(next, g) /\ next.sessions = g.sessions
  /\ \A u \in Transports : u # t => next.transports[u] = g.transports[u]
  /\ next.transports[t].waiters = 0 /\ next.transports[t].session = g.transports[t].session
  /\ next.transports[t].connected = g.transports[t].connected
  /\ next.transports[t].connecting = g.transports[t].connecting
  /\ next.transports[t].handoffInProgress = g.transports[t].handoffInProgress
  /\ next.transports[t].handler = g.transports[t].handler

\* An attempt of the station's transport fails, and nobody waits any longer.
LEMMA PrimaryFails ==
  ASSUME Base(hub), Structure(hub), NEW t \in Transports, t = hub.rtcTransport, PrimaryTries(hub),
         NEW h \in HubType, SettledFor(h, hub, t), NEW g, g = ConnectFailed(h, t), Unwaited(hub', g, t)
  PROVE  Kept
<1> DEFINE f == [h.transports[t] EXCEPT !.connecting = FALSE, !.session = None]
<1>1. /\ t # None /\ Primary(hub) = hub.transports[t] /\ ~hub.transports[t].connected
      /\ ~hub.transports[t].handoffInProgress
  BY NoneOther DEF Primary, PrimaryTries, Trying
<1>2. /\ Same(g, h) /\ SessionClosed(g, h, t) /\ TransportIs(g, h, t, f)
      /\ g.proactive = h.proactive /\ g.commandTransport = h.commandTransport
      /\ g.reconnectTimeout = (h.reconnectTimeout \/ ~h.terminating)
  BY ConnectFailedFields
<1>3. /\ f.session = None /\ ~f.connecting /\ f.connected = h.transports[t].connected
      /\ f.handoffInProgress = h.transports[t].handoffInProgress /\ f.handler = h.transports[t].handler
  BY TransportRecords, UnconnectedRecord
<1>. HIDE DEF f
<1>4. g.transports[t] = f /\ \A u \in Transports : u # t => g.transports[u] = hub.transports[u]
  BY <1>2 DEF TransportIs, SettledFor
<1>5. Idle(hub'.transports[t]) /\ hub'.transports[t].handler = hub.transports[t].handler
  <2>1. /\ f.connected = hub.transports[t].connected /\ f.handler = hub.transports[t].handler
        /\ f.handoffInProgress = hub.transports[t].handoffInProgress
    BY <1>3 DEF SettledFor
  <2>. QED BY <1>1, <1>3, <1>4, <2>1 DEF Unwaited, Idle, Ended
<1>6. /\ \A s \in Sessions : s # hub.transports[t].session => hub'.sessions[s] = hub.sessions[s]
      /\ \A s \in Sessions : s = hub.transports[t].session =>
           hub'.sessions[s].phase \notin Live /\ ~hub'.sessions[s].pending
  <2>1. /\ \A s \in Sessions : s # h.transports[t].session => g.sessions[s] = h.sessions[s]
        /\ \A s \in Sessions : s = h.transports[t].session =>
             g.sessions[s].phase = "closed" /\ g.sessions[s].pending = h.sessions[s].pending
    BY <1>2, ClosedSessions
  <2>2. "closed" \notin Live /\ hub'.sessions = g.sessions /\ h.transports[t].session = hub.transports[t].session
    BY DEF Live, Unwaited, SettledFor
  <2>3. /\ \A s \in Sessions : s # hub.transports[t].session => h.sessions[s] = hub.sessions[s]
        /\ \A s \in Sessions : s = hub.transports[t].session => ~h.sessions[s].pending
    BY DEF SettledFor
  <2>. QED BY <2>1, <2>2, <2>3
<1>7. hub.handoff = NoHandoff /\ hub.proactive = "none"
  BY <1>1, NotConnected
<1>8. Same(hub', hub)
  BY <1>2 DEF Same, SettledFor, Unwaited
<1>9. hub'.proactive = "none" /\ hub'.reconnectTimeout = (hub.reconnectTimeout \/ ~hub.terminating)
  BY <1>2, <1>7 DEF Same, SameTimers, SettledFor, Unwaited
<1>10. \A u \in Transports : u # t => hub'.transports[u] = hub.transports[u]
  BY <1>4 DEF Unwaited
<1>. QED BY <1>5, <1>6, <1>7, <1>8, <1>9, <1>10, PrimaryGone

\* What a transport that was closed still hears has no effect but another attempt of the station.
LEMMA LateFails ==
  ASSUME Base(hub), Structure(hub), NEW t \in Transports, t # hub.rtcTransport, ~(t > hub.made),
         NEW h \in HubType, Same(h, hub), SameTimers(h, hub), Ended(h.transports[t]),
         \A u \in Transports : u # t => h.transports[u] = hub.transports[u],
         \A s \in Sessions : \/ h.sessions[s] = hub.sessions[s]
                             \/ h.sessions[s].phase \notin Live /\ hub.sessions[s].phase \notin Live
                                /\ ~h.sessions[s].pending,
         hub' = ConnectFailed(h, t)
  PROVE  Kept
<1> DEFINE f == [h.transports[t] EXCEPT !.connecting = FALSE, !.session = None]
<1>1. /\ Same(hub', h) /\ SessionClosed(hub', h, t) /\ TransportIs(hub', h, t, f)
      /\ hub'.proactive = h.proactive /\ hub'.commandTransport = h.commandTransport
      /\ hub'.reconnectTimeout = (h.reconnectTimeout \/ ~h.terminating)
  BY ConnectFailedFields
<1>2. Ended(f)
  BY TransportRecords, UnconnectedRecord DEF Ended
<1>. HIDE DEF f
<1>3. Same(hub', hub) /\ hub'.proactive = hub.proactive /\ hub'.commandTransport = hub.commandTransport
      /\ hub'.reconnectTimeout = (hub.reconnectTimeout \/ ~hub.terminating)
  BY <1>1 DEF Same, SameTimers
<1>4. \A s \in Sessions : hub'.sessions[s] = h.sessions[s]
  BY <1>1, NoneOther, ClosedSessions DEF Ended
<1>5. hub'.transports[t] = f /\ \A u \in Transports : u # t => hub'.transports[u] = hub.transports[u]
  BY <1>1 DEF TransportIs
<1>6. Structure(hub')
  BY <1>2, <1>3, <1>4, <1>5, LateStructure DEF Same, Base, HubType
<1>7. hub.rtcTransport # None => Primary(hub') = Primary(hub)
  BY <1>3, <1>5 DEF Primary, Same, Base, HubType
<1>8. Tried(hub')
  BY <1>3 DEF Tried, Same
<1>9. Planned(hub) => Planned(hub')
  BY <1>3, <1>7 DEF Planned, Same
<1>. QED BY <1>6, <1>8, <1>9 DEF Kept

LEMMA OfHandoff ==
  ASSUME Base(hub), Structure(hub), NEW s \in Sessions, s = hub.handoff.new
  PROVE  /\ hub.handoff # NoHandoff /\ hub.sessions[s].of = hub.rtcTransport
         /\ hub.sessions[s].phase \in {"connecting", "calling"}
         /\ hub.sessions[s].phase = "calling" => ~hub.sessions[s].pending
<1>1. hub.handoff # NoHandoff
  BY NoneOther, HandoffNames DEF Base
<1>. QED BY <1>1 DEF Structure, HandoffWell, NewOnItsWay

LEMMA RejectedKept ==
  ASSUME Base(hub), Structure(hub), Tried(hub), NEW s \in Sessions, Rejected(s)
  PROVE  Kept
<1> DEFINE q == hub.sessions[s]
           t == q.of
           over == [hub EXCEPT !.sessions[s] = Settled(@, "down")]
           k == Settled(q, "down")
<1>1. /\ Base(over) /\ Same(over, hub) /\ SameTimers(over, hub) /\ over.transports = hub.transports
      /\ SessionIs(over, hub, s, k) /\ t \in Transports /\ q.phase # "free" /\ q.pending
  BY SettledBase DEF Rejected
<1>2. hub' = IF s = hub.handoff.new THEN HandoffFails(over) ELSE ConnectFailed(over, t)
  BY DEF Rejected
<1>3. k \in SessionType /\ ~k.pending /\ k.phase = IF q.phase = "connecting" THEN "down" ELSE q.phase
  BY SessionRecords, SettledRecord DEF Base
<1>. HIDE DEF over, k
<1>4. CASE s = hub.handoff.new
  BY <1>1, <1>2, <1>3, <1>4, OfHandoff, HandoffFailsKept
<1>5. over \in HubType /\ over.sessions[s] = k /\ \A u \in Sessions : u # s => over.sessions[u] = hub.sessions[u]
  BY <1>1 DEF Base, SessionIs
<1>6. CASE s # hub.handoff.new /\ q.phase \in Live
  <2>1. /\ t = hub.rtcTransport /\ s = hub.transports[t].session
        /\ PrimaryTries(hub) \/ PrimaryUp(hub)
        /\ q = PrimarySession(hub) /\ hub' = ConnectFailed(over, t)
    BY <1>2, <1>6, LivePlace DEF Primary
  <2>2. PrimaryTries(hub) /\ hub.transports[t].waiters = 0
    BY <1>1, <2>1 DEF PrimaryTries, PrimaryUp, Trying, Up, Primary
  <2>3. hub'.transports[t].waiters = 0
    <3>1. hub'.transports[t] = [over.transports[t] EXCEPT !.connecting = FALSE, !.session = None]
      <4>1. TransportIs(hub', over, t, [over.transports[t] EXCEPT !.connecting = FALSE, !.session = None])
        BY <1>1, <1>5, <2>1, ConnectFailedFields
      <4>. QED BY <1>1, <4>1 DEF TransportIs
    <3>. QED BY <1>1, <1>5, <2>2, <3>1, TransportRecords, UnconnectedRecord
  <2>4. SettledFor(over, hub, t)
    BY <1>1, <1>3, <1>5, <2>1 DEF SettledFor
  <2>5. Unwaited(hub', hub', t)
    BY <2>3 DEF Unwaited, Same, SameTimers
  <2>. QED BY <1>1, <1>5, <2>1, <2>2, <2>4, <2>5, PrimaryFails
<1>7. CASE s # hub.handoff.new /\ q.phase \notin Live
  <2>1. t # hub.rtcTransport /\ ~(t > hub.made)
    <3>1. t \in 1 .. hub.made
      BY <1>1 DEF Base, Known
    <3>. QED BY <1>1, <1>7, <3>1 DEF Structure, LateOnly, Live, Base, HubType
  <2>2. k.phase \notin Live
    BY <1>3, <1>7 DEF Live
  <2>3. Ended(over.transports[t])
    BY <1>1, <2>1 DEF Structure, OthersEnded
  <2>. QED BY <1>1, <1>2, <1>3, <1>5, <1>7, <2>1, <2>2, <2>3, LateFails
<1>. QED BY <1>4, <1>6, <1>7

LEMMA SessionErrorKept ==
  ASSUME Base(hub), Structure(hub), NEW s \in Sessions, SessionError(s)
  PROVE  Kept
<1> DEFINE q == hub.sessions[s]
           t == q.of
           g == ConnectFailed(hub, t)
<1>1. q.phase = "calling" /\ t \in Transports /\ q \in SessionType
  BY OfTransport, SessionRecords DEF SessionError, Base
<1>2. Same(hub, hub) /\ SameTimers(hub, hub) /\ SessionIs(hub, hub, s, q) /\ hub \in HubType
  BY DEF Same, SameTimers, SessionIs, Base
<1>3. CASE s = hub.handoff.new /\ hub' = HandoffFails(hub)
  BY <1>1, <1>2, <1>3, OfHandoff, HandoffFailsKept
<1>4. CASE s # hub.handoff.new /\ hub' = [g EXCEPT !.transports[t].waiters = 0]
  <2>1. Base(g)
    BY <1>1, ConnectFailedBase
  <2>. HIDE DEF g
  <2>2. /\ Same(hub', g) /\ SameTimers(hub', g) /\ hub'.sessions = g.sessions
        /\ TransportIs(hub', g, t, [g.transports[t] EXCEPT !.waiters = 0])
    BY <1>1, <1>4, <2>1, WaitersBase
  <2>3. /\ \A u \in Transports : u # t => hub'.transports[u] = g.transports[u]
        /\ LET r == hub'.transports[t]
               f == g.transports[t]
           IN  /\ r.waiters = 0 /\ r.session = f.session /\ r.connected = f.connected
               /\ r.connecting = f.connecting
               /\ r.handoffInProgress = f.handoffInProgress /\ r.handler = f.handler
    <3>1. hub'.transports[t] = [g.transports[t] EXCEPT !.waiters = 0]
      BY <1>1, <2>2 DEF TransportIs
    <3>2. g.transports[t] \in TransportType
      BY <1>1, <2>1, TransportRecords DEF Base
    <3>. QED BY <2>2, <3>1, <3>2, WaitersRecord DEF TransportIs
  <2>4. /\ t = hub.rtcTransport /\ PrimaryTries(hub) /\ s = hub.transports[t].session
        /\ ~q.pending
    BY <1>1, <1>4, LivePlace DEF Live, Primary, PrimaryTries, Trying
  <2>5. SettledFor(hub, hub, t)
    BY <1>2, <2>4 DEF SettledFor
  <2>6. Unwaited(hub', g, t)
    BY <2>2, <2>3 DEF Unwaited
  <2>7. g = ConnectFailed(hub, t)
    BY DEF g
  <2>. QED BY <1>1, <1>2, <2>4, <2>5, <2>6, <2>7, PrimaryFails
<1>. QED BY <1>3, <1>4 DEF SessionError

LEMMA ConnectTimerKept ==
  ASSUME Base(hub), Structure(hub), NEW t \in Transports, ConnectTimer(t)
  PROVE  Kept
<1> DEFINE n == hub.transports[t].waiters - 1
           d == [hub EXCEPT !.transports[t].waiters = n]
           r == [hub.transports[t] EXCEPT !.waiters = n]
<1>1. hub.transports[t] \in TransportType /\ n \in Nat /\ hub.transports[t].waiters > 0
  <2>1. hub.transports[t] \in TransportType
    BY TransportRecords DEF Base
  <2>. QED BY <2>1 DEF TransportType, ConnectTimer
<1>2. hub' = ConnectFailed(d, t)
  BY DEF ConnectTimer
<1>. HIDE DEF n
<1>3. /\ Base(d) /\ Same(d, hub) /\ SameTimers(d, hub) /\ d.sessions = hub.sessions
      /\ TransportIs(d, hub, t, r) /\ d \in HubType
  BY <1>1, WaitersBase DEF Base
<1>4. /\ r.session = hub.transports[t].session /\ r.connected = hub.transports[t].connected
      /\ r.connecting = hub.transports[t].connecting /\ r.handler = hub.transports[t].handler
      /\ r.handoffInProgress = hub.transports[t].handoffInProgress /\ r.waiters = n
  BY <1>1, WaitersRecord
<1>. HIDE DEF d, r
<1>5. d.transports[t] = r /\ \A u \in Transports : u # t => d.transports[u] = hub.transports[u]
  BY <1>3 DEF TransportIs
<1>6. CASE t = hub.rtcTransport
  <2>1. PrimaryTries(hub) /\ ~PrimarySession(hub).pending /\ n = 0
    BY <1>1, <1>6, NoneOther DEF Structure, PrimaryWell, Primary, Idle, PrimaryUp, Up, PrimaryTries, Trying, n
  <2>2. hub'.transports[t].waiters = 0
    <3>1. hub'.transports[t] = [d.transports[t] EXCEPT !.connecting = FALSE, !.session = None]
      BY <1>2, <1>3, ConnectFailedFields DEF TransportIs
    <3>. QED BY <1>3, <1>4, <1>5, <2>1, <3>1, TransportRecords, UnconnectedRecord
  <2>3. \A s \in Sessions : s = hub.transports[t].session => ~d.sessions[s].pending
    BY <1>3, <1>6, <2>1 DEF Primary, PrimarySession
  <2>4. SettledFor(d, hub, t)
    BY <1>3, <1>4, <1>5, <2>3 DEF SettledFor
  <2>5. Unwaited(hub', hub', t)
    BY <2>2 DEF Unwaited, Same, SameTimers
  <2>. QED BY <1>2, <1>3, <1>6, <2>1, <2>4, <2>5, PrimaryFails
<1>7. CASE t # hub.rtcTransport
  <2>1. Ended(hub.transports[t]) /\ ~(t > hub.made)
    BY <1>1, <1>7 DEF Structure, OthersEnded
  <2>2. Ended(d.transports[t])
    BY <1>4, <1>5, <2>1 DEF Ended
  <2>. QED BY <1>2, <1>3, <1>5, <1>7, <2>1, <2>2, LateFails
<1>. QED BY <1>6, <1>7

LEMMA RaisedRecord ==
  ASSUME NEW r \in TransportType
  PROVE  /\ Raised(r).connected /\ ~Raised(r).connecting /\ Raised(r).waiters = 0
         /\ Raised(r).session = r.session /\ Raised(r).handoffInProgress = r.handoffInProgress
         /\ Raised(r).handler = r.handler
BY DEF Raised, TransportType

LEMMA InPhaseRecord ==
  ASSUME NEW q \in SessionType, NEW p \in Phases
  PROVE  /\ InPhase(q, p) \in SessionType /\ InPhase(q, p).phase = p /\ InPhase(q, p).pending = q.pending
         /\ InPhase(q, p).of = q.of /\ InPhase(q, p).role = q.role
BY DEF InPhase, SessionType

LEMMA ChannelOpensKept ==
  ASSUME Base(hub), Structure(hub), NEW s \in Sessions, ChannelOpens(s)
  PROVE  Kept /\ (s = hub.handoff.new => Connected(hub'))
<1> DEFINE q == hub.sessions[s]
           t == q.of
           open == [hub EXCEPT !.sessions[s].phase = "open"]
           k == InPhase(q, "open")
           up == [open EXCEPT !.transports[t] = [@ EXCEPT !.connecting = FALSE, !.connected = TRUE, !.waiters = 0]]
           r == Raised(open.transports[t])
<1>1. q.phase = "calling" /\ q \in SessionType
  BY SessionRecords DEF ChannelOpens, Base
<1>2. /\ Base(open) /\ Same(open, hub) /\ SameTimers(open, hub) /\ open.transports = hub.transports
      /\ SessionIs(open, hub, s, k) /\ t \in Transports
  BY <1>1, InPhaseBase
<1>3. hub' = IF s = hub.handoff.new THEN HandoffSucceeds(open)
             ELSE IF hub.transports[t].connected THEN open ELSE OnRtcConnect(up)
  BY DEF ChannelOpens
<1>4. k \in SessionType /\ k.phase = "open" /\ k.pending = q.pending /\ k.of = t
  BY <1>1, InPhaseRecord DEF Phases
<1>. HIDE DEF open, k
<1>5. CASE s = hub.handoff.new
  BY <1>1, <1>2, <1>3, <1>4, <1>5, OfHandoff, HandoffSucceedsKept
<1>6. CASE s # hub.handoff.new
  <2>1. /\ t = hub.rtcTransport /\ t # None /\ PrimaryTries(hub) /\ s = hub.transports[t].session
        /\ ~q.pending /\ Primary(hub) = hub.transports[t]
    BY <1>1, <1>6, LivePlace DEF Live, Primary, PrimaryTries, Trying
  <2>2. /\ hub.handoff = NoHandoff /\ ~hub.transports[t].connected /\ ~hub.transports[t].handoffInProgress
        /\ hub.transports[t].session # None
    BY <2>1, NotConnected DEF PrimaryTries, Trying
  <2>3. /\ Base(up) /\ Same(up, open) /\ SameTimers(up, open) /\ up.sessions = open.sessions
        /\ TransportIs(up, open, t, r)
    BY <1>2, RaisedBase
  <2>4. hub' = OnRtcConnect(up)
    BY <1>3, <1>6, <2>2
  <2>. HIDE DEF up, r
  <2>5. /\ Same(hub', up) /\ hub'.sessions = up.sessions /\ hub'.transports = up.transports
        /\ hub'.proactive = "refresh"
        /\ hub'.commandTransport = (up.commandTransport \/ up.rtcTransport # None)
    BY <2>3, <2>4, OnRtcConnectBase
  <2>6. /\ r.connected /\ ~r.connecting /\ r.waiters = 0 /\ r.session = s /\ ~r.handoffInProgress
        /\ r.handler = hub.transports[t].handler
    BY <1>2, <2>1, <2>2, TransportRecords, RaisedRecord DEF Base, r
  <2>7. /\ hub'.transports[t] = r /\ \A u \in Transports : u # t => hub'.transports[u] = hub.transports[u]
        /\ hub'.sessions[s] = k /\ \A u \in Sessions : u # s => hub'.sessions[u] = hub.sessions[u]
    BY <1>2, <2>3, <2>5 DEF SessionIs, TransportIs
  <2>8. Same(hub', hub) /\ hub'.rtcTransport = t /\ hub'.handoff = NoHandoff
    BY <1>2, <2>1, <2>2, <2>3, <2>5 DEF Same
  <2>9. Primary(hub') = r /\ PrimarySession(hub') = k
    BY <2>6, <2>7, <2>8 DEF Primary, PrimarySession
  <2>10. PrimaryUp(hub')
    BY <1>4, <2>1, <2>2, <2>6, <2>8, <2>9 DEF PrimaryUp, Up
  <2>11. OthersEnded(hub') /\ PrimaryWell(hub') /\ HandoffWell(hub') /\ Quiet(hub')
    BY <2>1, <2>6, <2>7, <2>8, <2>9, <2>10 DEF Structure, OthersEnded, PrimaryWell, HandoffWell, Quiet, Same
  <2>12. AllHeld(hub') /\ LateOnly(hub')
    BY <1>4, <2>1, <2>6, <2>7, <2>8, <2>9 DEF Structure, AllHeld, LateOnly, Same
  <2>13. Tried(hub')
    BY <2>6, <2>9 DEF Tried, Ended
  <2>14. Planned(hub) => Planned(hub')
    BY <2>1, <2>2, <2>3, <2>5, <2>6, <2>8, <2>9 DEF Planned, Same, Ended, PrimaryTries, Trying
  <2>. QED BY <1>6, <2>11, <2>12, <2>13, <2>14 DEF Kept, Structure
<1>. QED BY <1>5, <1>6

LEMMA SessionDownKept ==
  ASSUME Base(hub), Structure(hub), {"down_in_handoff", "down_in_attempt"} \cap Faults = {},
         NEW s \in Sessions, SessionDown(s)
  PROVE  Kept
<1> DEFINE q == hub.sessions[s]
           t == q.of
           down == [hub EXCEPT !.sessions[s].phase = "down"]
           k == InPhase(q, "down")
           e == Reset(down, t)
           r == [down.transports[t] EXCEPT !.connected = FALSE, !.connecting = FALSE, !.handoffInProgress = FALSE]
<1>1. /\ q.phase = "open" \/ (q.phase = "calling" /\ s = hub.handoff.new)
      /\ s # hub.handoff.old /\ q \in SessionType
  BY SessionRecords DEF SessionDown, Base
<1>2. /\ Base(down) /\ Same(down, hub) /\ SameTimers(down, hub) /\ down.transports = hub.transports
      /\ SessionIs(down, hub, s, k) /\ t \in Transports
  BY <1>1, InPhaseBase
<1>3. hub' = IF s = hub.handoff.new THEN HandoffFails(down)
             ELSE IF hub.transports[t].session # s THEN down
             ELSE IF hub.transports[t].connected THEN OnRtcDisconnect(Reset(down, t))
             ELSE Reset(down, t)
  BY DEF SessionDown
<1>4. k \in SessionType /\ k.phase = "down" /\ k.pending = q.pending /\ k.of = t
  BY <1>1, InPhaseRecord DEF Phases
<1>. HIDE DEF down, k
<1>5. CASE s = hub.handoff.new
  BY <1>1, <1>2, <1>3, <1>4, <1>5, OfHandoff, HandoffFailsKept
<1>6. CASE s # hub.handoff.new
  <2>1. /\ t = hub.rtcTransport /\ t # None /\ PrimaryUp(hub) /\ s = hub.transports[t].session
        /\ ~q.pending /\ Primary(hub) = hub.transports[t] /\ hub.transports[t].connected
        /\ hub.transports[t].waiters = 0
    BY <1>1, <1>6, LivePlace DEF Live, Primary, PrimaryUp, Up
  <2>2. hub.handoff = NoHandoff
    BY <1>1, <2>1 DEF Structure, HandoffWell, Primary
  <2>3. /\ e \in HubType /\ Same(e, down) /\ SameTimers(e, down) /\ e.sessions = down.sessions
        /\ TransportIs(e, down, t, r)
    BY <1>2, ResetFields DEF Base
  <2>4. hub' = OnRtcDisconnect(e)
    BY <1>3, <1>6, <2>1
  <2>. HIDE DEF e
  <2>5. e.rtcTransport = t /\ e.transports[t] = r /\ e.terminating = hub.terminating
    BY <1>2, <2>1, <2>3 DEF Same, TransportIs
  <2>6. /\ Same(hub', e) /\ ToldOfClose(hub', e) /\ SessionClosed(hub', e, t)
        /\ TransportIs(hub', e, t, Dropped(r))
    BY <2>1, <2>3, <2>4, <2>5, OnRtcDisconnectFields
  <2>7. r \in TransportType /\ r.session = s /\ r.waiters = 0 /\ r.handler = hub.transports[t].handler
    <3>1. hub.transports[t] \in TransportType
      BY <1>2, TransportRecords DEF Base
    <3>. QED BY <1>2, <2>1, <3>1 DEF TransportType
  <2>. HIDE DEF r
  <2>8. Idle(hub'.transports[t]) /\ hub'.transports[t].handler = hub.transports[t].handler
    <3>1. hub'.transports[t] = Dropped(r)
      BY <1>2, <2>6 DEF TransportIs
    <3>. QED BY <2>7, <3>1, DroppedRecord DEF Idle, Ended
  <2>9. \A u \in Transports : u # t => hub'.transports[u] = hub.transports[u]
    BY <1>2, <2>3, <2>6 DEF TransportIs
  <2>10. /\ \A u \in Sessions : u # s => hub'.sessions[u] = hub.sessions[u]
         /\ \A u \in Sessions : u = s => hub'.sessions[u].phase \notin Live /\ ~hub'.sessions[u].pending
    <3>1. \A u \in Sessions : u # s => e.sessions[u] = hub.sessions[u]
      BY <1>2, <2>3 DEF SessionIs
    <3>2. e.sessions[s] = k
      BY <1>2, <2>3 DEF SessionIs
    <3>3. /\ \A u \in Sessions : u # s => hub'.sessions[u] = e.sessions[u]
          /\ \A u \in Sessions : u = s => hub'.sessions[u].phase = "closed"
                                           /\ hub'.sessions[u].pending = e.sessions[u].pending
      BY <1>2, <2>3, <2>5, <2>6, <2>7, ClosedSessions
    <3>. QED BY <1>4, <2>1, <3>1, <3>2, <3>3 DEF Live
  <2>11. Same(hub', hub) /\ hub'.proactive = "none"
         /\ hub'.reconnectTimeout = (hub.reconnectTimeout \/ ~hub.terminating)
    BY <1>2, <2>3, <2>6 DEF Same, SameTimers, ToldOfClose
  <2>. QED BY <1>2, <2>1, <2>2, <2>8, <2>9, <2>10, <2>11, PrimaryGone
<1>. QED BY <1>5, <1>6

LEMMA OnTheWayRecord ==
  ASSUME NEW r \in TransportType
  PROVE  LET w == [r EXCEPT !.handoffInProgress = TRUE]
         IN  /\ w.session = r.session /\ w.connected = r.connected /\ w.connecting = r.connecting
             /\ w.handoffInProgress /\ w.handler = r.handler /\ w.waiters = r.waiters
BY DEF TransportType

\* A handoff begins: the timer that started it has been taken, and nothing else has changed.
LEMMA StartHandoffKept ==
  ASSUME Base(hub), Structure(hub), Connected(hub), hub.handoff = NoHandoff, ~hub.terminating,
         NEW f, Base(f), Same(f, hub), f.sessions = hub.sessions, f.transports = hub.transports,
         f.commandTransport = hub.commandTransport, Forgotten(f) # {}, NEW a \in {0, 1},
         hub' = StartHandoff(f, a)
  PROVE  Kept
<1> DEFINE t == hub.rtcTransport
           s == NewSession(f)
           r == [f.transports[t] EXCEPT !.handoffInProgress = TRUE]
<1>1. /\ t \in Transports /\ t # None /\ Primary(hub) = hub.transports[t] /\ PrimaryUp(hub)
      /\ hub.transports[t].session \in Sessions /\ hub.transports[t].connected
  BY ConnectedUp DEF Connected, Primary, Base, HubType
<1>2. f.rtcTransport = t /\ f.handoff = NoHandoff /\ ~f.terminating
  BY DEF Same
<1>3. /\ s \in Sessions /\ ~hub.sessions[s].pending /\ hub.sessions[s].phase \notin Live
      /\ s # hub.transports[t].session
  BY <1>1, <1>2, NewSessionForgotten, ForgottenSession DEF Live
<1>4. /\ SameTimers(hub', f) /\ hub'.made = f.made /\ hub'.rtcTransport = f.rtcTransport
      /\ hub'.terminating = f.terminating /\ hub'.handlerWired = f.handlerWired
      /\ hub'.handoff = [transport |-> t, old |-> f.transports[t].session, new |-> s]
      /\ SessionIs(hub', f, s, Beginning(t, "handoff")) /\ TransportIs(hub', f, t, r)
  BY <1>1, <1>2, StartHandoffFields DEF Base
<1>5. /\ r.session = hub.transports[t].session /\ r.connected /\ r.connecting = hub.transports[t].connecting
      /\ r.handoffInProgress /\ r.handler = hub.transports[t].handler
      /\ r.waiters = hub.transports[t].waiters
  BY <1>1, TransportRecords, OnTheWayRecord DEF Base
<1>. HIDE DEF s, r
<1>6. /\ hub'.handoff.transport = t /\ hub'.handoff.old = hub.transports[t].session /\ hub'.handoff.new = s
      /\ hub'.handoff # NoHandoff
  BY <1>1, <1>4 DEF NoHandoff
<1>7. /\ hub'.sessions[s] = Beginning(t, "handoff")
      /\ \A u \in Sessions : u # s => hub'.sessions[u] = hub.sessions[u]
      /\ hub'.transports[t] = r /\ \A u \in Transports : u # t => hub'.transports[u] = hub.transports[u]
  BY <1>1, <1>3, <1>4 DEF SessionIs, TransportIs
<1>8. hub'.made = hub.made /\ hub'.rtcTransport = t /\ ~hub'.terminating /\ hub'.handlerWired = hub.handlerWired
      /\ hub'.commandTransport = hub.commandTransport
  BY <1>2, <1>4 DEF Same, SameTimers
<1>9. Primary(hub') = r /\ PrimarySession(hub') = PrimarySession(hub)
  BY <1>1, <1>3, <1>5, <1>7, <1>8 DEF Primary, PrimarySession
<1>10. PrimaryUp(hub')
  BY <1>1, <1>5, <1>8, <1>9 DEF PrimaryUp, Up
<1>11. HandoffWell(hub')
  BY <1>1, <1>3, <1>5, <1>6, <1>7, <1>8, <1>9 DEF HandoffWell, NewOnItsWay, Beginning
<1>12. OthersEnded(hub') /\ PrimaryWell(hub') /\ Quiet(hub')
  BY <1>1, <1>5, <1>6, <1>7, <1>8, <1>9, <1>10 DEF Structure, OthersEnded, PrimaryWell, Quiet
<1>13. AllHeld(hub')
  <2>1. hub.handoff.new = None
    BY HandoffNames DEF Base
  <2>2. ASSUME NEW u \in Sessions, hub'.sessions[u].phase \in Live, u # s
        PROVE  u = hub.transports[t].session
    BY <1>1, <1>7, <2>1, <2>2, NoneOther DEF Structure, AllHeld
  <2>. QED BY <1>1, <1>5, <1>6, <1>8, <1>9, <2>2 DEF AllHeld
<1>14. LateOnly(hub')
  BY <1>6, <1>7, <1>8 DEF Structure, LateOnly, Beginning
<1>15. Tried(hub')
  BY <1>5, <1>9 DEF Tried, Ended
<1>16. Planned(hub) => Planned(hub')
  BY <1>1, <1>5, <1>6, <1>8, <1>9 DEF Planned
<1>. QED BY <1>11, <1>12, <1>13, <1>14, <1>15, <1>16 DEF Kept, Structure

\* Another timer of a connected station, or none for one that was closed.
LEMMA AnotherTimer ==
  ASSUME Base(hub), Structure(hub), Connected(hub), NEW p \in {"none", "refresh", "probe", "backoff", "reprobe"},
         hub' = [hub EXCEPT !.proactive = p], p # "none" \/ hub.terminating
  PROVE  Kept
<1>1. /\ Same(hub', hub) /\ hub'.proactive = p
      /\ hub'.sessions = hub.sessions /\ hub'.transports = hub.transports
      /\ hub'.reconnectTimeout = hub.reconnectTimeout /\ hub'.commandTransport = hub.commandTransport
  BY ProactiveChanged, ZenonT(40)
<1>2. Primary(hub).connected /\ Primary(hub') = Primary(hub) /\ hub.rtcTransport # None
  BY <1>1 DEF Connected, Primary, Same
<1>3. Structure(hub')
  BY <1>1, <1>2, SameStructure DEF Same, Quiet
<1>4. Tried(hub')
  BY <1>2 DEF Tried, Ended
<1>5. Planned(hub) => Planned(hub')
  BY <1>1, <1>2 DEF Planned, Same, Ended
<1>. QED BY <1>3, <1>4, <1>5 DEF Kept

LEMMA AttemptKept ==
  ASSUME Base(hub), Structure(hub), Connected(hub), hub.handoff = NoHandoff, Nameable, NEW a \in {0, 1},
         hub' = AttemptHandoff([hub EXCEPT !.proactive = "none"], a)
  PROVE  Kept
<1> DEFINE f == [hub EXCEPT !.proactive = "none"]
<1>1. /\ Base(f) /\ Forgotten(f) = Forgotten(hub) /\ Same(f, hub)
      /\ f.sessions = hub.sessions /\ f.transports = hub.transports
      /\ f.commandTransport = hub.commandTransport
  BY ProactiveChanged
<1>2. hub' = AttemptHandoff(f, a)
  OBVIOUS
<1>3. CASE hub.terminating
  <2>1. hub' = f
    BY <1>1, <1>2, <1>3 DEF AttemptHandoff, Same
  <2>. QED BY <1>3, <2>1, AnotherTimer
<1>. HIDE DEF f
<1>4. CASE ~hub.terminating
  <2>1. f.rtcTransport = hub.rtcTransport /\ ~f.terminating /\ Connected(f)
    BY <1>1, <1>4 DEF Same, Connected
  <2>2. /\ hub.rtcTransport # None /\ Primary(hub) = f.transports[f.rtcTransport] /\ Primary(hub).session # None
        /\ ~Primary(hub).connecting /\ ~Primary(hub).handoffInProgress
    BY <1>1, <2>1, ConnectedUp
       DEF Connected, Primary, PrimaryUp, Up, Structure, PrimaryWell, Trying, PrimaryTries, Idle, Ended
  <2>3. hub' = StartHandoff(f, a)
    BY <1>2, <2>1, <2>2 DEF AttemptHandoff
  <2>. QED BY <1>1, <1>4, <2>3, StartHandoffKept DEF Nameable
<1>. QED BY <1>3, <1>4

LEMMA ProactiveKept ==
  ASSUME Base(hub), Structure(hub), RefreshTimer \/ ProbeTimer \/ BackoffTimer
  PROVE  Kept
<1> DEFINE f == [hub EXCEPT !.proactive = "none"]
           b == [hub EXCEPT !.proactive = "backoff"]
           e == [hub EXCEPT !.proactive = "reprobe"]
<1>1. Connected(hub)
  BY DEF RefreshTimer, ProbeTimer, BackoffTimer, Structure, Quiet, Primary, Connected
<1>2. CASE hub.handoff = NoHandoff /\ Nameable /\ (hub' = AttemptHandoff(f, 0) \/ hub' = AttemptHandoff(f, 1))
  BY <1>1, <1>2, AttemptKept
<1>3. CASE hub' = b
  BY <1>1, <1>3, AnotherTimer
<1>4. CASE hub.handoff = NoHandoff /\ hub' = HardReconnect(f)
  <2>1. /\ Base(f) /\ Same(f, hub) /\ f.sessions = hub.sessions /\ f.transports = hub.transports
        /\ f.reconnectTimeout = hub.reconnectTimeout
    BY ProactiveChanged
  <2>. HIDE DEF f
  <2>. QED BY <1>1, <1>4, <2>1, HardReconnectKept
<1>5. CASE hub' = ProbeExisting(hub, "reprobe")
  <2>1. PrimaryUp(hub)
    BY <1>1, ConnectedUp DEF Connected, Primary
  <2>2. CommandChannelReady(hub)
    BY <1>1, <2>1 DEF CommandChannelReady, Connected, PrimaryUp, Up, Primary, PrimarySession
  <2>3. hub' = e
    BY <1>1, <1>5, <2>2 DEF ProbeExisting
  <2>. QED BY <1>1, <2>3, AnotherTimer
<1>6. \/ /\ hub.handoff = NoHandoff /\ Nameable
         /\ hub' = AttemptHandoff(f, 0) \/ hub' = AttemptHandoff(f, 1)
      \/ hub' = b \/ (hub.handoff = NoHandoff /\ hub' = HardReconnect(f)) \/ hub' = ProbeExisting(hub, "reprobe")
  BY DEF RefreshTimer, ProbeTimer, BackoffTimer
<1>. HIDE DEF f, b
<1>. QED BY <1>2, <1>3, <1>4, <1>5, <1>6

-----------------------------------------------------------------------------
(* The invariants *)

\* The faults under which the code keeps the sessions and the station together: the old session does
\* not end during a handoff, nor is the station closed then, nor is a session lost before its channel
\* is open.
Orderly == {"down_in_handoff", "close_in_handoff", "down_in_attempt"} \cap Faults = {}

LEMMA InitKept == ASSUME Init PROVE Structure(hub) /\ Tried(hub) /\ Planned(hub)
<1>1. /\ hub.rtcTransport = None /\ hub.made = 0 /\ hub.handoff = NoHandoff /\ hub.proactive = "none"
      /\ ~hub.terminating /\ ~hub.handlerWired
      /\ \A t \in Transports : Idle(hub.transports[t])
      /\ \A s \in Sessions : hub.sessions[s].phase = "free" /\ ~hub.sessions[s].pending
  BY DEF Init, Idle, Ended, FreshSession
<1>. QED BY <1>1 DEF Structure, OthersEnded, PrimaryWell, HandoffWell, AllHeld, LateOnly, Quiet, Tried, Planned,
                     Idle, Live

LEMMA NextBase == ASSUME Base(hub), Next PROVE Base(hub')
<1>1. CASE HandoffTimer
  BY <1>1, HandoffFailsBase DEF HandoffTimer
<1>2. CASE PollWatchdog
  BY <1>2, HardReconnectBase DEF PollWatchdog
<1>. QED BY <1>1, <1>2, ConnectBase, CloseBase, AuthenticatedBase, RejectedBase, ChannelOpensBase,
            SessionErrorBase, SessionDownBase, ConnectTimerBase, ReconnectTimerBase, WokenBase,
            ProactiveBase DEF Next

LEMMA NextKept ==
  ASSUME Base(hub), Structure(hub), Tried(hub), Orderly, Next
  PROVE  Kept
<1>1. /\ "down_in_handoff" \notin Faults /\ "close_in_handoff" \notin Faults
      /\ {"down_in_handoff", "down_in_attempt"} \cap Faults = {}
  BY DEF Orderly
<1>. QED BY <1>1, ConnectKept, CloseKept, AuthenticatedKept, RejectedKept, ChannelOpensKept,
            SessionErrorKept, SessionDownKept, ConnectTimerKept, HandoffTimerKept, ReconnectTimerKept,
            WokenKept, PollWatchdogKept, ProactiveKept DEF Next

\* Whatever happens: sessions in use know their transport, and the station has the newest or none.
THEOREM AlwaysBase == Spec => []Base(hub)
<1>1. Init => Base(hub)
  BY InitBase
<1>2. Base(hub) /\ [Next]_vars => Base(hub)'
  BY NextBase DEF vars
<1>. QED BY <1>1, <1>2, PTL DEF Spec

\* The types hold whatever happens to the sessions, the station and the application.
THEOREM TypeCorrect == Spec => []TypeOK
<1> DEFINE I == Base(hub) /\ failures \in 0 .. MaxFailures
<1>1. Init => I
  BY InitBase, BoundAssumption DEF Init
<1>2. I /\ [Next]_vars => I'
  <2>1. ASSUME I, Next PROVE failures' \in 0 .. MaxFailures
    <3>1. UNCHANGED failures \/ Fail
      BY <2>1 DEF Next, Connect, Close, TryConnect, Authenticated, Rejected, ChannelOpens, SessionError,
                  SessionDown, ConnectTimer, HandoffTimer, ReconnectTimer, Woken, PollWatchdog,
                  RefreshTimer, ProbeTimer, BackoffTimer
    <3>. QED BY <2>1, <3>1, BoundAssumption DEF Fail
  <2>. QED BY <2>1, NextBase DEF vars
<1>3. I => TypeOK
  BY BoundAssumption DEF Base, HubType, SessionType, TransportType, HandoffType, Phases, MadeOnce, TypeOK, None
<1>. HIDE DEF I
<1>. QED BY <1>1, <1>2, <1>3, PTL DEF Spec

\* The station's transport is idle, trying or up, every session that is not over is its or the handoff's, and
\* an ended transport is tried again.
THEOREM AlwaysStructured ==
  ASSUME Orderly
  PROVE  Spec => [](Base(hub) /\ Structure(hub) /\ Tried(hub))
<1> DEFINE I == Base(hub) /\ Structure(hub) /\ Tried(hub)
<1>1. Init => I
  BY InitBase, InitKept
<1>2. I /\ [Next]_vars => I'
  <2>1. ASSUME I, UNCHANGED vars PROVE I'
    <3>1. hub' = hub
      BY <2>1 DEF vars
    <3>. QED BY <2>1, <3>1
  <2>. QED BY <2>1, NextBase, NextKept DEF Kept
<1>. HIDE DEF I
<1>3. I => Base(hub) /\ Structure(hub) /\ Tried(hub)
  BY DEF I
<1>. QED BY <1>1, <1>2, PTL DEF Spec, I

\* No session stays open that nobody will close: the one that is open is the transport's.
THEOREM SessionsAreHeld == ASSUME Orderly PROVE Spec => []NoLeakedSession
<1>1. Base(hub) /\ Structure(hub) => NoLeakedSession
  <2>1. ASSUME Base(hub), Structure(hub), NEW s \in Sessions, hub.sessions[s].phase = "open"
        PROVE  hub.rtcTransport # None /\ s = hub.transports[hub.rtcTransport].session
    <3>1. s # hub.handoff.new
      BY <2>1, OfHandoff
    <3>. QED BY <2>1, <3>1 DEF Structure, AllHeld, Live, Primary
  <2>. QED BY <2>1 DEF NoLeakedSession
<1>. QED BY <1>1, AlwaysStructured, PTL

\* A failure never leaves the station alone: a timer, a wake-up or a connect() of the transport goes on.
THEOREM AttemptsGoOn == ASSUME Orderly PROVE Spec => []NotStranded
<1>1. Base(hub) /\ Structure(hub) /\ Tried(hub) => NotStranded
  <2>1. SUFFICES ASSUME Base(hub), Structure(hub), Tried(hub), hub.made > 0, ~hub.terminating, ~Connected(hub),
                        ~Ended(Primary(hub))
                 PROVE  Attempting(hub)
    BY DEF NotStranded, Tried
  <2>2. hub.rtcTransport # None /\ PrimaryTries(hub)
    BY <2>1 DEF Base, MadeOnce, None, Structure, PrimaryWell, Idle, PrimaryUp, Up, Connected, Primary
  <2>3. Primary(hub).session \in Sessions
    BY <2>1, <2>2, PrimarySettled DEF PrimaryTries, Trying
  <2>4. \/ Primary(hub).waiters = 1
        \/ PrimarySession(hub).pending /\ PrimarySession(hub).role = "primary"
    BY <2>2 DEF PrimaryTries, Trying
  <2>5. CASE Primary(hub).waiters = 1
    BY <2>2, <2>5 DEF Attempting, Primary
  <2>6. CASE PrimarySession(hub).pending /\ PrimarySession(hub).role = "primary"
    BY <2>2, <2>3, <2>6 DEF Attempting, PrimarySession
  <2>. QED BY <2>4, <2>5, <2>6
<1>. QED BY <1>1, AlwaysStructured, PTL

\* Without a reopening the station's transport is wired, and what keeps it alive is armed.
THEOREM AlwaysPlanned ==
  ASSUME Orderly, "reopen" \notin Faults
  PROVE  Spec => [](Base(hub) /\ Structure(hub) /\ Planned(hub))
<1> DEFINE I == Base(hub) /\ Structure(hub) /\ Tried(hub) /\ Planned(hub)
<1>1. Init => I
  BY InitBase, InitKept
<1>2. I /\ [Next]_vars => I'
  <2>1. ASSUME I, UNCHANGED vars PROVE I'
    <3>1. hub' = hub
      BY <2>1 DEF vars
    <3>. QED BY <2>1, <3>1
  <2>. QED BY <2>1, NextBase, NextKept DEF Kept
<1>. HIDE DEF I
<1>3. I => Base(hub) /\ Structure(hub) /\ Planned(hub)
  BY DEF I
<1>. QED BY <1>1, <1>2, <1>3, PTL DEF Spec

\* A station that takes itself for connected can send, and hears the answers, after any handoff,
\* failure and close.
THEOREM ConnectedStationWorks == ASSUME Orderly, "reopen" \notin Faults PROVE Spec => []ConnectedWorks
<1>1. Base(hub) /\ Structure(hub) /\ Planned(hub) => ConnectedWorks
  <2>1. ASSUME Base(hub), Structure(hub), NEW t \in Transports, hub.transports[t].connected
        PROVE  /\ hub.transports[t].session # None
               /\ hub.sessions[hub.transports[t].session].phase = "open"
    <3>1. t = hub.rtcTransport /\ t # None
      BY <2>1, NoneOther DEF Structure, OthersEnded, Ended
    <3>. QED BY <2>1, <3>1, ConnectedUp DEF Primary, PrimarySession, PrimaryUp, Up
  <2>2. Planned(hub) => CommandsWired
    BY DEF Planned, CommandsWired, Connected, Primary
  <2>. QED BY <2>1, <2>2 DEF ConnectedWorks, ConnectedIsOpen
<1>. QED BY <1>1, AlwaysPlanned, PTL

\* While a station is connected the next refresh, probe or handoff is under way.
THEOREM RefreshIsPlanned == ASSUME Orderly, "reopen" \notin Faults PROVE Spec => []RefreshPlanned
<1>1. Planned(hub) => RefreshPlanned
  BY DEF Planned, RefreshPlanned, Connected, Primary
<1>. QED BY <1>1, AlwaysPlanned, PTL

\* A handoff that succeeds leaves the transport connected, also when the application reopens the station.
THEOREM NoDisconnectGap == ASSUME Orderly PROVE Spec => HandoffKeepsConnected
<1> DEFINE I == Base(hub) /\ Structure(hub) /\ Tried(hub)
           A == \A s \in Sessions : ChannelOpens(s) /\ s = hub.handoff.new /\ ~hub.terminating => Connected(hub')
<1>1. I /\ [Next]_vars => [A]_vars
  BY ChannelOpensKept
<1>. HIDE DEF I
<1>2. Spec => []I
  BY AlwaysStructured DEF I
<1>. HIDE DEF A
<1>3. Spec => [][A]_vars
  BY <1>1, <1>2, PTL DEF Spec
<1>. QED BY <1>3 DEF HandoffKeepsConnected, A
=============================================================================
