------------------------ MODULE P2PConnectionProofs ------------------------
(***************************************************************************)
(* Proofs about P2PConnection, for every number of failures: what is       *)
(* wanted is tried again, what was closed stays closed, and no timer of an *)
(* attempt ends a connection.                                              *)
(***************************************************************************)
EXTENDS P2PConnection, TLAPS

SessionType ==
  [connected : BOOLEAN, connecting : BOOLEAN, terminating : BOOLEAN, renewing : Nat,
   binded : BOOLEAN, ending : BOOLEAN, timers : SUBSET Timers, orphans : [{"lookupRetry", "heartbeat"} -> Nat]]
StationType == [energySaving : BOOLEAN, terminating : BOOLEAN, reconnectTimeout : BOOLEAN, wanted : BOOLEAN]
BothType == [session : SessionType, station : StationType]

\* What the methods leave alone.
SameLinks(s, t) ==
  /\ s.connected = t.connected /\ s.connecting = t.connecting /\ s.terminating = t.terminating
  /\ s.renewing = t.renewing /\ s.binded = t.binded /\ s.ending = t.ending
SameStation(p, q) ==
  p.energySaving = q.energySaving /\ p.terminating = q.terminating /\ p.wanted = q.wanted

-----------------------------------------------------------------------------
(* The methods *)

LEMMA BothFields ==
  ASSUME TypeOK
  PROVE  /\ Both \in BothType
         /\ Both.session = session /\ Both.station = station
BY DEF TypeOK, Both, BothType, SessionType, StationType

LEMMA ClearFields ==
  ASSUME NEW h \in BothType, NEW timers
  PROVE  /\ Clear(h, timers) \in BothType
         /\ Clear(h, timers).station = h.station
         /\ SameLinks(Clear(h, timers).session, h.session)
         /\ Clear(h, timers).session.timers = h.session.timers \ timers
         /\ Clear(h, timers).session.orphans = h.session.orphans
BY DEF Clear, BothType, SessionType, StationType, SameLinks

LEMMA OverwriteFields ==
  ASSUME NEW h \in BothType, NEW timer \in {"lookupRetry", "heartbeat"}
  PROVE  /\ Overwrite(h, timer) \in BothType
         /\ Overwrite(h, timer).station = h.station
         /\ SameLinks(Overwrite(h, timer).session, h.session)
         /\ Overwrite(h, timer).session.timers = h.session.timers \cup {timer}
         /\ \A t \in {"lookupRetry", "heartbeat"} :
              t # timer => Overwrite(h, timer).session.orphans[t] = h.session.orphans[t]
<1> DEFINE more == IF timer \in h.session.timers THEN 1 ELSE 0
           orphans == [h.session.orphans EXCEPT ![timer] = @ + more]
           timers == h.session.timers \cup {timer}
<1>1. orphans \in [{"lookupRetry", "heartbeat"} -> Nat]
      /\ \A t \in {"lookupRetry", "heartbeat"} : t # timer => orphans[t] = h.session.orphans[t]
  <2>1. h.session.orphans \in [{"lookupRetry", "heartbeat"} -> Nat] /\ more \in Nat
    BY DEF BothType, SessionType
  <2> HIDE DEF more
  <2>2. QED
    BY <2>1
<1>2. timers \in SUBSET Timers
  BY DEF BothType, SessionType, Timers
<1>3. Overwrite(h, timer) = [h EXCEPT !.session = [@ EXCEPT !.orphans = orphans, !.timers = timers]]
  <2>1. h.session \in SessionType /\ h \in BothType
    BY DEF BothType
  <2>2. QED
    BY <2>1 DEF Overwrite, BothType, SessionType
<1> HIDE DEF orphans, timers
<1>4. QED
  <2>1. Overwrite(h, timer) \in BothType
    BY <1>1, <1>2, <1>3, ZenonT(40) DEF BothType, SessionType
  <2>2. /\ Overwrite(h, timer).session.orphans = orphans
        /\ Overwrite(h, timer).session.timers = timers
        /\ Overwrite(h, timer).station = h.station
        /\ SameLinks(Overwrite(h, timer).session, h.session)
    BY <1>3, ZenonT(40) DEF BothType, SessionType, SameLinks
  <2>3. QED
    BY <1>1, <2>1, <2>2 DEF timers

LEMMA ScheduleReconnectFields ==
  ASSUME NEW h \in BothType
  PROVE  /\ ScheduleReconnect(h) \in BothType
         /\ ScheduleReconnect(h).session = h.session
         /\ SameStation(ScheduleReconnect(h).station, h.station)
         /\ h.station.terminating => ScheduleReconnect(h).station = h.station
         /\ ~h.station.terminating => ScheduleReconnect(h).station.reconnectTimeout
BY DEF ScheduleReconnect, BothType, SessionType, StationType, SameStation

LEMMA OnDisconnectFields ==
  ASSUME NEW h \in BothType
  PROVE  /\ OnDisconnect(h) \in BothType
         /\ OnDisconnect(h).session = h.session
         /\ SameStation(OnDisconnect(h).station, h.station)
         /\ h.station.terminating => OnDisconnect(h).station = h.station
         /\ ~h.station.terminating /\ ~h.station.energySaving => OnDisconnect(h).station.reconnectTimeout
BY ScheduleReconnectFields DEF OnDisconnect, SameStation

LEMMA InitializeFields ==
  ASSUME NEW h \in BothType
  PROVE  /\ Initialize(h) \in BothType
         /\ Initialize(h).station = h.station
         /\ ~Initialize(h).session.connected /\ ~Initialize(h).session.connecting
         /\ Initialize(h).session.terminating = h.session.terminating
         /\ Initialize(h).session.renewing = h.session.renewing
         /\ Initialize(h).session.binded = h.session.binded
         /\ Initialize(h).session.ending = h.session.ending
         /\ Initialize(h).session.timers = h.session.timers
         /\ Initialize(h).session.orphans = h.session.orphans
BY DEF Initialize, BothType, SessionType, StationType

\* _disconnected leaves an idle session, and a station that will try again unless it was closed
\* or saves energy.
LEMMA DisconnectedFields ==
  ASSUME NEW h \in BothType
  PROVE  LET d == Disconnected(h) IN
         /\ d \in BothType
         /\ SameStation(d.station, h.station)
         /\ h.station.terminating => d.station = h.station
         /\ ~h.station.terminating /\ ~h.station.energySaving /\ ~h.session.terminating =>
              d.station.reconnectTimeout
         /\ ~d.session.connected /\ ~d.session.connecting
         /\ d.session.terminating = h.session.terminating
         /\ d.session.renewing = h.session.renewing
         /\ d.session.binded = h.session.binded
         /\ d.session.ending = h.session.ending
         /\ d.session.timers = h.session.timers \ {"heartbeat", "lookupRetry", "lookup2", "lookup", "connect"}
         /\ d.session.orphans = h.session.orphans
<1> DEFINE told == IF h.session.connected THEN OnDisconnect(h)
                   ELSE IF h.session.terminating THEN h
                   ELSE ScheduleReconnect(h)
           cleared == Clear(told, {"heartbeat", "lookupRetry", "lookup2", "lookup", "connect"})
<1>1. /\ told \in BothType
      /\ told.session = h.session
      /\ SameStation(told.station, h.station)
      /\ h.station.terminating => told.station = h.station
      /\ ~h.station.terminating /\ ~h.station.energySaving /\ ~h.session.terminating =>
           told.station.reconnectTimeout
  <2>1. CASE h.session.connected
    BY <2>1, OnDisconnectFields
  <2>2. CASE ~h.session.connected /\ h.session.terminating
    BY <2>2 DEF SameStation
  <2>3. CASE ~h.session.connected /\ ~h.session.terminating
    BY <2>3, ScheduleReconnectFields
  <2>4. QED
    BY <2>1, <2>2, <2>3
<1>2. /\ cleared \in BothType
      /\ cleared.station = told.station
      /\ SameLinks(cleared.session, told.session)
      /\ cleared.session.timers =
           told.session.timers \ {"heartbeat", "lookupRetry", "lookup2", "lookup", "connect"}
      /\ cleared.session.orphans = told.session.orphans
  BY <1>1, ClearFields
<1>3. Disconnected(h) = Initialize(cleared)
  BY DEF Disconnected
<1> HIDE DEF told, cleared
<1>4. QED
  BY <1>1, <1>2, <1>3, InitializeFields DEF SameLinks, SameStation

\* lookup starts the timers of an attempt and changes nothing else of the session.
LEMMA LookupFields ==
  ASSUME NEW h \in BothType
  PROVE  LET l == Lookup(h) IN
         /\ l \in BothType
         /\ l.station = h.station
         /\ l.session.connected = h.session.connected /\ l.session.connecting = h.session.connecting
         /\ l.session.terminating = h.session.terminating
         /\ l.session.renewing = h.session.renewing /\ l.session.ending = h.session.ending
         /\ "lookup" \in l.session.timers
<1> DEFINE started == Overwrite(h, "lookupRetry")
<1>1. /\ started \in BothType
      /\ started.station = h.station
      /\ SameLinks(started.session, h.session)
  BY OverwriteFields
<1> DEFINE timed == [started EXCEPT !.session.timers = @ \cup {"lookup2", "lookup"}]
<1>2. Lookup(h) = [timed EXCEPT !.session.binded = TRUE]
  BY <1>1 DEF Lookup, BothType, SessionType
<1> HIDE DEF started
<1>3. /\ timed \in BothType
      /\ timed.station = started.station
      /\ SameLinks(timed.session, started.session)
      /\ "lookup" \in timed.session.timers
  BY <1>1 DEF BothType, SessionType, Timers, SameLinks
<1> HIDE DEF timed
<1>4. [timed EXCEPT !.session.binded = TRUE] \in BothType
  BY <1>3 DEF BothType, SessionType
<1>5. LET l == [timed EXCEPT !.session.binded = TRUE] IN
      /\ l.station = timed.station
      /\ l.session.connected = timed.session.connected /\ l.session.connecting = timed.session.connecting
      /\ l.session.terminating = timed.session.terminating
      /\ l.session.renewing = timed.session.renewing /\ l.session.ending = timed.session.ending
      /\ l.session.timers = timed.session.timers
  BY <1>3 DEF BothType, SessionType
<1>6. QED
  BY <1>1, <1>2, <1>3, <1>4, <1>5 DEF SameLinks

LEMMA BeganFields ==
  ASSUME NEW h \in BothType
  PROVE  LET b == Began(h) IN
         /\ b \in BothType
         /\ b.station = h.station
         /\ b.session.connecting /\ ~b.session.terminating
         /\ b.session.connected = h.session.connected
         /\ b.session.renewing = h.session.renewing /\ b.session.ending = h.session.ending
         /\ b.session.timers = h.session.timers
BY DEF Began, BothType, SessionType, StationType

\* connect() of an idle session begins an attempt, at once or when the key is renewed.
LEMMA ConnectNowFields ==
  ASSUME NEW h \in BothType, Idle(h)
  PROVE  LET c == ConnectNow(h) IN
         /\ c \in BothType
         /\ c.station = h.station
         /\ ~c.session.connected /\ c.session.connecting /\ ~c.session.terminating
         /\ c.session.renewing = h.session.renewing /\ c.session.ending = h.session.ending
         /\ "lookup" \in c.session.timers
<1>1. ConnectNow(h) = Lookup(Began(h))
  BY DEF ConnectNow
<1>2. Began(h) \in BothType /\ Began(h).station = h.station
      /\ Began(h).session.connecting /\ ~Began(h).session.terminating
      /\ ~Began(h).session.connected
      /\ Began(h).session.renewing = h.session.renewing /\ Began(h).session.ending = h.session.ending
  BY BeganFields DEF Idle
<1>3. QED
  BY <1>1, <1>2, LookupFields

LEMMA ConnectSlowFields ==
  ASSUME NEW h \in BothType, Idle(h)
  PROVE  LET c == ConnectSlow(h) IN
         /\ c \in BothType
         /\ c.station = h.station
         /\ ~c.session.connected /\ c.session.connecting /\ ~c.session.terminating
         /\ c.session.renewing = h.session.renewing + 1 /\ c.session.ending = h.session.ending
         /\ c.session.timers = h.session.timers
<1> DEFINE b == Began(h)
<1>1. /\ b \in BothType
      /\ b.station = h.station
      /\ b.session.connecting /\ ~b.session.terminating /\ ~b.session.connected
      /\ b.session.renewing = h.session.renewing /\ b.session.ending = h.session.ending
      /\ b.session.timers = h.session.timers
  BY BeganFields DEF Idle
<1>2. ConnectSlow(h) = [b EXCEPT !.session.renewing = @ + 1]
  BY DEF ConnectSlow
<1> HIDE DEF b
<1>3. QED
  BY <1>1, <1>2 DEF BothType, SessionType, StationType

LEMMA CheckFields ==
  ASSUME NEW h \in BothType
  PROVE  /\ Check(h) \in BothType
         /\ Check(h).station = h.station
         /\ SameLinks(Check(h).session, h.session)
         /\ Check(h).session.timers = h.session.timers \cup {"connect"}
         /\ Check(h).session.orphans = h.session.orphans
BY DEF Check, BothType, SessionType, StationType, SameLinks, Timers

-----------------------------------------------------------------------------
(* The actions: each keeps the types, and what else is needed of it below *)

LEMMA SetBothTypes ==
  ASSUME NEW h \in BothType, SetBoth(h),
         asked' \subseteq {"local", "cloud", "cloud2", "cam"}, alive' \in BOOLEAN,
         failures' \in 0 .. MaxFailures
  PROVE  TypeOK'
BY DEF SetBoth, TypeOK, BothType, SessionType, StationType

LEMMA FailCounts ==
  ASSUME TypeOK, Fail
  PROVE  failures' \in 0 .. MaxFailures
BY BoundAssumption DEF TypeOK, Fail

LEMMA StartConnectEffect ==
  ASSUME TypeOK, NEW h \in BothType, h.session = session, StartConnect(h)
  PROVE  /\ TypeOK'
         /\ station' = h.station
         /\ session.connected \/ session.connecting => session' = session
         /\ ~session.connected /\ ~session.connecting =>
              /\ ~session'.connected /\ session'.connecting /\ ~session'.terminating
              /\ session'.ending = session.ending
              /\ \/ session'.renewing = session.renewing /\ "lookup" \in session'.timers
                 \/ session'.renewing = session.renewing + 1 /\ session'.timers = session.timers
<1>1. CASE /\ SetBoth(ConnectNow(h))
           /\ asked' = IF Idle(h) THEN asked \cup {"local", "cloud"} ELSE asked
           /\ UNCHANGED <<alive, failures>>
  <2>1. CASE Idle(h)
    <3>1. /\ ConnectNow(h) \in BothType
          /\ ConnectNow(h).station = h.station
          /\ ~ConnectNow(h).session.connected /\ ConnectNow(h).session.connecting
          /\ ~ConnectNow(h).session.terminating
          /\ ConnectNow(h).session.renewing = h.session.renewing
          /\ ConnectNow(h).session.ending = h.session.ending
          /\ "lookup" \in ConnectNow(h).session.timers
      BY <2>1, ConnectNowFields
    <3>2. TypeOK'
      BY <1>1, <2>1, <3>1, SetBothTypes DEF TypeOK
    <3>3. session' = ConnectNow(h).session /\ station' = ConnectNow(h).station
      BY <1>1 DEF SetBoth
    <3>4. QED
      BY <2>1, <3>1, <3>2, <3>3 DEF Idle
  <2>2. CASE ~Idle(h)
    <3>1. ConnectNow(h) = h
      BY <2>2 DEF ConnectNow
    <3>2. TypeOK'
      BY <1>1, <2>2, <3>1, SetBothTypes DEF TypeOK
    <3>3. QED
      BY <1>1, <2>2, <3>1, <3>2 DEF Idle, SetBoth
  <2>3. QED
    BY <2>1, <2>2
<1>2. CASE /\ Idle(h) /\ "slow_renewal" \in Faults /\ Fail
           /\ SetBoth(ConnectSlow(h))
           /\ UNCHANGED <<asked, alive>>
  <2>1. /\ ConnectSlow(h) \in BothType
        /\ ConnectSlow(h).station = h.station
        /\ ~ConnectSlow(h).session.connected /\ ConnectSlow(h).session.connecting
        /\ ~ConnectSlow(h).session.terminating
        /\ ConnectSlow(h).session.renewing = h.session.renewing + 1
        /\ ConnectSlow(h).session.ending = h.session.ending
        /\ ConnectSlow(h).session.timers = h.session.timers
    BY <1>2, ConnectSlowFields
  <2>2. TypeOK'
    BY <1>2, <2>1, FailCounts, SetBothTypes DEF TypeOK
  <2>3. session' = ConnectSlow(h).session /\ station' = ConnectSlow(h).station
    BY <1>2 DEF SetBoth
  <2>4. QED
    BY <1>2, <2>1, <2>2, <2>3 DEF Idle
<1>3. QED
  BY <1>1, <1>2 DEF StartConnect

LEMMA ConnectEffect ==
  ASSUME TypeOK, Connect
  PROVE  /\ TypeOK'
         /\ ~session.connected /\ ~session.connecting
         /\ station.terminating => "reopen" \in Faults
         /\ station' = [station EXCEPT !.wanted = TRUE]
         /\ ~session'.connected /\ session'.connecting /\ ~session'.terminating
         /\ session'.ending = session.ending
         /\ \/ session'.renewing = session.renewing /\ "lookup" \in session'.timers
            \/ session'.renewing = session.renewing + 1 /\ session'.timers = session.timers
<1> DEFINE h == [Both EXCEPT !.station.wanted = TRUE]
<1>1. h \in BothType /\ h.session = session /\ h.station = [station EXCEPT !.wanted = TRUE]
  BY BothFields DEF BothType, SessionType, StationType
<1>2. /\ ~session.connected /\ ~session.connecting
      /\ station.terminating => "reopen" \in Faults
      /\ StartConnect(h)
  BY BothFields DEF Connect, Idle
<1> HIDE DEF h
<1>3. QED
  BY <1>1, <1>2, StartConnectEffect

LEMMA ReconnectTimerEffect ==
  ASSUME TypeOK, ReconnectTimer
  PROVE  /\ TypeOK'
         /\ station.reconnectTimeout
         /\ station' = [station EXCEPT !.reconnectTimeout = FALSE]
         /\ session.connected \/ session.connecting => session' = session
         /\ ~session.connected /\ ~session.connecting =>
              /\ ~session'.connected /\ session'.connecting /\ ~session'.terminating
              /\ session'.ending = session.ending
              /\ \/ session'.renewing = session.renewing /\ "lookup" \in session'.timers
                 \/ session'.renewing = session.renewing + 1 /\ session'.timers = session.timers
<1> DEFINE h == [Both EXCEPT !.station.reconnectTimeout = FALSE]
<1>1. h \in BothType /\ h.session = session /\ h.station = [station EXCEPT !.reconnectTimeout = FALSE]
  BY BothFields DEF BothType, SessionType, StationType
<1>2. station.reconnectTimeout /\ StartConnect(h)
  BY DEF ReconnectTimer
<1> HIDE DEF h
<1>3. QED
  BY <1>1, <1>2, StartConnectEffect

LEMMA RenewedEffect ==
  ASSUME TypeOK, Renewed
  PROVE  /\ TypeOK'
         /\ session.renewing > 0
         /\ station' = station
         /\ session'.renewing = session.renewing - 1
         /\ session'.connected = session.connected /\ session'.connecting = session.connecting
         /\ session'.terminating = session.terminating /\ session'.ending = session.ending
         /\ "lookup" \in session'.timers
<1> DEFINE h == [Both EXCEPT !.session.renewing = @ - 1]
<1>1. session.renewing > 0 /\ SetBoth(Lookup(h))
      /\ asked' = asked \cup {"local", "cloud"} /\ UNCHANGED <<alive, failures>>
  BY DEF Renewed
<1>2. /\ h \in BothType /\ h.station = station
      /\ h.session.renewing = session.renewing - 1
      /\ h.session.connected = session.connected /\ h.session.connecting = session.connecting
      /\ h.session.terminating = session.terminating /\ h.session.ending = session.ending
  BY <1>1, BothFields DEF BothType, SessionType, StationType
<1> HIDE DEF h
<1>3. /\ Lookup(h) \in BothType
      /\ Lookup(h).station = h.station
      /\ Lookup(h).session.connected = h.session.connected
      /\ Lookup(h).session.connecting = h.session.connecting
      /\ Lookup(h).session.terminating = h.session.terminating
      /\ Lookup(h).session.renewing = h.session.renewing /\ Lookup(h).session.ending = h.session.ending
      /\ "lookup" \in Lookup(h).session.timers
  BY <1>2, LookupFields
<1>4. TypeOK'
  BY <1>1, <1>3, SetBothTypes DEF TypeOK
<1>5. session' = Lookup(h).session /\ station' = Lookup(h).station
  BY <1>1 DEF SetBoth
<1>6. QED
  BY <1>1, <1>2, <1>3, <1>4, <1>5

\* What _disconnected leaves of a session s and a station p.
Ended(s, p) ==
  /\ SameStation(station', p)
  /\ p.terminating => station' = p
  /\ ~p.terminating /\ ~p.energySaving /\ ~s.terminating => station'.reconnectTimeout
  /\ ~session'.connected /\ ~session'.connecting
  /\ session'.terminating = s.terminating
  /\ session'.renewing = s.renewing
  /\ session'.binded = s.binded
  /\ session'.ending = s.ending
  /\ session'.timers = s.timers \ {"heartbeat", "lookupRetry", "lookup2", "lookup", "connect"}
  /\ session'.orphans = s.orphans

LEMMA DisconnectedEffect ==
  ASSUME NEW h \in BothType, SetBoth(Disconnected(h)),
         asked' \subseteq {"local", "cloud", "cloud2", "cam"}, alive' \in BOOLEAN,
         failures' \in 0 .. MaxFailures
  PROVE  TypeOK' /\ Ended(h.session, h.station)
<1> DEFINE d == Disconnected(h)
<1>1. /\ d \in BothType
      /\ SameStation(d.station, h.station)
      /\ h.station.terminating => d.station = h.station
      /\ ~h.station.terminating /\ ~h.station.energySaving /\ ~h.session.terminating =>
           d.station.reconnectTimeout
      /\ ~d.session.connected /\ ~d.session.connecting
      /\ d.session.terminating = h.session.terminating
      /\ d.session.renewing = h.session.renewing
      /\ d.session.binded = h.session.binded
      /\ d.session.ending = h.session.ending
      /\ d.session.timers = h.session.timers \ {"heartbeat", "lookupRetry", "lookup2", "lookup", "connect"}
      /\ d.session.orphans = h.session.orphans
  BY DisconnectedFields
<1>2. session' = d.session /\ station' = d.station
  BY DEF SetBoth
<1>3. TypeOK'
  BY <1>1, SetBothTypes
<1> HIDE DEF d
<1>4. QED
  BY <1>1, <1>2, <1>3 DEF Ended

LEMMA AttemptTimerEffect ==
  ASSUME TypeOK, LookupTimer \/ ConnectTimer
  PROVE  /\ TypeOK'
         /\ session.timers \cap {"lookup", "connect"} # {}
         /\ Ended(session, station) /\ asked' = asked
<1>1. /\ SetBoth(Disconnected(Both)) /\ UNCHANGED <<asked, alive, failures>>
      /\ session.timers \cap {"lookup", "connect"} # {}
  BY DEF LookupTimer, ConnectTimer
<1>2. QED
  BY <1>1, BothFields, DisconnectedEffect DEF TypeOK

LEMMA CloseEndEffect ==
  ASSUME TypeOK, CloseEnd
  PROVE  /\ TypeOK'
         /\ session.ending
         /\ Ended([session EXCEPT !.ending = FALSE], station) /\ asked' = asked
<1> DEFINE h == [Both EXCEPT !.session.ending = FALSE]
<1>1. h \in BothType /\ h.session = [session EXCEPT !.ending = FALSE] /\ h.station = station
  BY BothFields DEF BothType, SessionType, StationType
<1>2. session.ending /\ SetBoth(Disconnected(h)) /\ UNCHANGED <<asked, alive, failures>>
  BY DEF CloseEnd
<1> HIDE DEF h
<1>3. TypeOK' /\ Ended(h.session, h.station)
  BY <1>1, <1>2, DisconnectedEffect DEF TypeOK
<1>4. QED
  BY <1>1, <1>2, <1>3

LEMMA HandleEndEffect ==
  ASSUME TypeOK, HandleEnd
  PROVE  /\ TypeOK'
         /\ session.binded
         /\ Ended([session EXCEPT !.binded = FALSE], station) /\ asked' = {}
<1> DEFINE h == [Both EXCEPT !.session.binded = FALSE]
<1>1. h \in BothType /\ h.session = [session EXCEPT !.binded = FALSE] /\ h.station = station
  BY BothFields DEF BothType, SessionType, StationType
<1>2. session.binded /\ Fail /\ SetBoth(Disconnected(h)) /\ asked' = {} /\ UNCHANGED alive
  BY DEF HandleEnd
<1> HIDE DEF h
<1>3. TypeOK' /\ Ended(h.session, h.station)
  BY <1>1, <1>2, FailCounts, DisconnectedEffect DEF TypeOK
<1>4. QED
  BY <1>1, <1>2, <1>3

LEMMA EnergySavingTimerEffect ==
  ASSUME TypeOK, EnergySavingTimer
  PROVE  /\ TypeOK'
         /\ station.energySaving /\ session.connected
         /\ Ended([session EXCEPT !.terminating = TRUE], station) /\ asked' = asked
<1> DEFINE h == [Both EXCEPT !.session.terminating = TRUE]
<1>1. h \in BothType /\ h.session = [session EXCEPT !.terminating = TRUE] /\ h.station = station
  BY BothFields DEF BothType, SessionType, StationType
<1>2. /\ station.energySaving /\ session.connected /\ Fail
      /\ SetBoth(Disconnected(h)) /\ UNCHANGED <<asked, alive>>
  BY DEF EnergySavingTimer
<1> HIDE DEF h
<1>3. TypeOK' /\ Ended(h.session, h.station)
  BY <1>1, <1>2, FailCounts, DisconnectedEffect DEF TypeOK
<1>4. QED
  BY <1>1, <1>2, <1>3

LEMMA CloseEffect ==
  ASSUME TypeOK, Close
  PROVE  /\ TypeOK'
         /\ station.wanted \/ ~station.terminating
         /\ asked' = asked
         /\ ~station'.wanted /\ station'.terminating /\ ~station'.reconnectTimeout
         /\ session'.connected = session.connected /\ session'.connecting = session.connecting
         /\ session'.renewing = session.renewing /\ session'.binded = session.binded
         /\ session'.timers \subseteq session.timers
         /\ session'.orphans = session.orphans
         /\ ~session.connected => session' = session
<1> DEFINE closed == [Both EXCEPT !.station.terminating = TRUE, !.station.reconnectTimeout = FALSE,
                                  !.station.wanted = FALSE]
           ended == [closed EXCEPT !.session.terminating = TRUE, !.session.ending = TRUE]
           left == Clear(ended, {"lookup", "lookupRetry", "connect", "heartbeat"})
<1>1. /\ closed \in BothType /\ closed.session = session
      /\ ~closed.station.wanted /\ closed.station.terminating /\ ~closed.station.reconnectTimeout
  BY BothFields DEF BothType, SessionType, StationType
<1>2. /\ station.wanted \/ ~station.terminating
      /\ UNCHANGED <<asked, alive, failures>>
      /\ SetBoth(IF ~session.connected THEN closed ELSE left)
  BY DEF Close
<1> HIDE DEF closed
<1>3. /\ ended \in BothType /\ ended.station = closed.station
      /\ ended.session.connected = session.connected /\ ended.session.connecting = session.connecting
      /\ ended.session.renewing = session.renewing /\ ended.session.binded = session.binded
      /\ ended.session.timers = session.timers /\ ended.session.orphans = session.orphans
  BY <1>1 DEF BothType, SessionType, StationType
<1> HIDE DEF ended
<1>4. /\ left \in BothType /\ left.station = ended.station
      /\ SameLinks(left.session, ended.session)
      /\ left.session.timers = ended.session.timers \ {"lookup", "lookupRetry", "connect", "heartbeat"}
      /\ left.session.orphans = ended.session.orphans
  BY <1>3, ClearFields
<1> HIDE DEF left
<1>5. CASE session.connected
  <2>1. TypeOK'
    BY <1>2, <1>4, <1>5, SetBothTypes DEF TypeOK
  <2>2. session' = left.session /\ station' = left.station
    BY <1>2, <1>5 DEF SetBoth
  <2>3. QED
    BY <1>1, <1>2, <1>3, <1>4, <1>5, <2>1, <2>2 DEF SameLinks
<1>6. CASE ~session.connected
  <2>1. TypeOK'
    BY <1>1, <1>2, <1>6, SetBothTypes DEF TypeOK
  <2>2. session' = closed.session /\ station' = closed.station
    BY <1>2, <1>6 DEF SetBoth
  <2>3. QED
    BY <1>1, <1>2, <1>6, <2>1, <2>2
<1>7. QED
  BY <1>5, <1>6

\* An answer was taken, and more can be answered now.
Consumed(kind, more) == kind \in asked /\ asked' \subseteq (asked \ {kind}) \cup more

LEMMA AnswerEffect ==
  ASSUME TypeOK, NEW kind, NEW h \in BothType, NEW more \in SUBSET {"local", "cloud", "cloud2", "cam"},
         Answer(kind, h, more), alive' \in BOOLEAN, failures' = failures
  PROVE  /\ TypeOK'
         /\ Consumed(kind, more)
         /\ session.renewing > 0 => "early_answer" \in Faults
         /\ session.connected => session' = session /\ station' = station
         /\ ~session.connected => session' = h.session /\ station' = h.station
<1>1. CASE session.connected
  <2>1. SetBoth(Both) /\ asked' = asked \ {kind}
    BY <1>1 DEF Answer
  <2>2. TypeOK'
    BY <2>1, BothFields, SetBothTypes DEF TypeOK
  <2>3. QED
    BY <1>1, <2>1, <2>2, BothFields DEF Answer, SetBoth, Consumed
<1>2. CASE ~session.connected
  <2>1. SetBoth(h) /\ asked' = (asked \ {kind}) \cup more
    BY <1>2 DEF Answer
  <2>2. asked' \subseteq {"local", "cloud", "cloud2", "cam"}
    BY <2>1 DEF TypeOK
  <2>3. TypeOK'
    BY <2>1, <2>2, SetBothTypes DEF TypeOK
  <2>4. QED
    BY <1>2, <2>1, <2>3 DEF Answer, SetBoth, Consumed
<1>3. QED
  BY <1>1, <1>2

\* An answer that names hosts has them checked.
LEMMA CheckAnswerEffect ==
  ASSUME TypeOK, NEW kind, NEW timers,
         Answer(kind, Check(Clear(Both, timers)), {"cam"}), UNCHANGED <<alive, failures>>
  PROVE  /\ TypeOK'
         /\ Consumed(kind, {"cam"})
         /\ session'.timers \subseteq session.timers \cup {"connect"}
         /\ station' = station /\ SameLinks(session', session)
         /\ session.connected => session' = session
         /\ ~session.connected => "connect" \in session'.timers
<1> DEFINE c == Clear(Both, timers)
           h == Check(c)
<1>1. /\ c \in BothType /\ c.station = station /\ SameLinks(c.session, session)
      /\ c.session.timers \subseteq session.timers
  BY BothFields, ClearFields
<1> HIDE DEF c
<1>2. /\ h \in BothType /\ h.station = c.station /\ SameLinks(h.session, c.session)
      /\ "connect" \in h.session.timers /\ h.session.timers = c.session.timers \cup {"connect"}
  BY <1>1, CheckFields
<1>3. Answer(kind, h, {"cam"}) /\ alive' = alive /\ failures' = failures
  BY DEF c
<1> HIDE DEF h
<1>4. QED
  BY <1>1, <1>2, <1>3, AnswerEffect DEF TypeOK, SameLinks

LEMMA HostAnswerEffect ==
  ASSUME TypeOK, HandleLocalLookupResp \/ HandleLookupAddr \/ HandleLookupAddr2
  PROVE  /\ TypeOK'
         /\ asked' \subseteq asked \/ asked \ asked' # {}
         /\ session'.timers \subseteq session.timers \cup {"connect"}
         /\ station' = station /\ SameLinks(session', session)
         /\ session.connected => session' = session
         /\ ~session.connected => "connect" \in session'.timers \/ "unwanted" \in Faults
<1>1. CASE "unwanted" \in Faults /\ Answer("local", Clear(Both, {"lookup"}), {"local"})
           /\ UNCHANGED <<alive, failures>>
  <2> DEFINE h == Clear(Both, {"lookup"})
  <2>1. /\ h \in BothType /\ h.station = station /\ SameLinks(h.session, session)
        /\ h.session.timers \subseteq session.timers
    BY BothFields, ClearFields
  <2>2. Answer("local", h, {"local"}) /\ alive' = alive /\ failures' = failures
    BY <1>1
  <2> HIDE DEF h
  <2>3. QED
    BY <1>1, <2>1, <2>2, AnswerEffect DEF TypeOK, SameLinks, Consumed
<1>2. CASE Answer("local", Check(Clear(Both, {"lookup"})), {"cam"}) /\ UNCHANGED <<alive, failures>>
  BY <1>2, CheckAnswerEffect DEF Consumed
<1>3. CASE HandleLookupAddr
  BY <1>3, CheckAnswerEffect DEF HandleLookupAddr, Consumed
<1>4. CASE HandleLookupAddr2
  BY <1>4, CheckAnswerEffect DEF HandleLookupAddr2, Consumed
<1>5. QED
  BY <1>1, <1>2, <1>3, <1>4 DEF HandleLocalLookupResp

LEMMA HandleCamIdEffect ==
  ASSUME TypeOK, HandleCamId
  PROVE  /\ TypeOK'
         /\ asked \ asked' # {}
         /\ session.renewing > 0 => "early_answer" \in Faults
         /\ station'.wanted = station.wanted /\ station'.energySaving = station.energySaving
         /\ station'.terminating => station.terminating
         /\ station'.reconnectTimeout = station.reconnectTimeout
         /\ session.connected => session' = session
         /\ session'.connected
         /\ session'.terminating = session.terminating /\ session'.ending = session.ending
         /\ session'.renewing = session.renewing
         /\ ~session.connected => session'.timers \cap CamIdStops = {}
<1> DEFINE found == [Both EXCEPT !.session.connected = TRUE, !.station.terminating = FALSE]
           stopped == Clear(found, CamIdStops)
           h == ScheduleHeartbeat(stopped)
<1>1. /\ found \in BothType
      /\ found.station.wanted = station.wanted /\ found.station.energySaving = station.energySaving
      /\ found.station.reconnectTimeout = station.reconnectTimeout
      /\ ~found.station.terminating /\ found.session.connected
      /\ found.session.terminating = session.terminating /\ found.session.ending = session.ending
      /\ found.session.renewing = session.renewing
  BY BothFields DEF BothType, SessionType, StationType
<1> HIDE DEF found
<1>2. /\ stopped \in BothType /\ stopped.station = found.station
      /\ SameLinks(stopped.session, found.session)
      /\ stopped.session.timers \cap CamIdStops = {}
  BY <1>1, ClearFields
<1>3. /\ Answer("cam", h, {}) /\ alive' = (~session.connected \/ alive) /\ failures' = failures
  BY DEF HandleCamId, found
<1> HIDE DEF stopped
<1>4. /\ h \in BothType /\ h.station = stopped.station
      /\ SameLinks(h.session, stopped.session)
      /\ h.session.timers = stopped.session.timers \cup {"heartbeat"}
  BY <1>2, OverwriteFields DEF ScheduleHeartbeat
<1> HIDE DEF h
<1>5. alive' \in BOOLEAN
  BY <1>3
<1>6. /\ TypeOK'
      /\ Consumed("cam", {})
      /\ session.renewing > 0 => "early_answer" \in Faults
      /\ session.connected => session' = session /\ station' = station
      /\ ~session.connected => session' = h.session /\ station' = h.station
  BY <1>3, <1>4, <1>5, AnswerEffect
<1>7. ~session.connected => session'.timers \cap CamIdStops = {}
  BY <1>2, <1>4, <1>6 DEF CamIdStops
<1>8. QED
  BY <1>1, <1>2, <1>4, <1>6, <1>7 DEF SameLinks, Consumed

\* A timer that sends a request again goes on with a lookup that is under way.
LEMMA RequestTimerEffect ==
  ASSUME TypeOK, LookupRetryTimer \/ Lookup2Timer \/ Lookup2RetryTimer
  PROVE  /\ TypeOK'
         /\ \/ {"lookupRetry", "lookup2", "lookup2Retry"} \cap session.timers # {}
            \/ session.orphans["lookupRetry"] > 0
         /\ \/ session'.timers \subseteq session.timers \cup {"lookupRetry"}
            \/ {"lookup2", "lookup2Retry"} \cap session.timers # {}
         /\ station' = station /\ SameLinks(session', session)
         /\ session'.timers \cap {"lookup", "connect"} = session.timers \cap {"lookup", "connect"}
<1>1. CASE "lookupRetry" \in session.timers /\ UNCHANGED session /\ LookupRetryTimer
  BY <1>1 DEF LookupRetryTimer, TypeOK, SameLinks
<1>2. CASE /\ session.orphans["lookupRetry"] > 0
           /\ session' = [session EXCEPT !.orphans["lookupRetry"] = @ - 1, !.timers = @ \cup {"lookupRetry"}]
           /\ LookupRetryTimer
  <2> DEFINE orphans == [session.orphans EXCEPT !["lookupRetry"] = @ - 1]
             timers == session.timers \cup {"lookupRetry"}
  <2>1. session.orphans \in [{"lookupRetry", "heartbeat"} -> Nat]
    BY DEF TypeOK
  <2>2. orphans \in [{"lookupRetry", "heartbeat"} -> Nat]
    BY <1>2, <2>1
  <2>3. timers \in SUBSET Timers
        /\ timers \cap {"lookup", "connect"} = session.timers \cap {"lookup", "connect"}
    BY DEF TypeOK, Timers
  <2>4. session' = [session EXCEPT !.orphans = orphans, !.timers = timers]
    BY <1>2 DEF TypeOK
  <2> HIDE DEF orphans, timers
  <2>5. session' \in SessionType /\ SameLinks(session', session) /\ session'.timers = timers
    BY <2>2, <2>3, <2>4 DEF TypeOK, SessionType, SameLinks
  <2>6. TypeOK' /\ station' = station
    BY <1>2, <2>5 DEF LookupRetryTimer, TypeOK, SessionType
  <2>7. QED
    BY <1>2, <2>3, <2>5, <2>6
<1>3. CASE Lookup2Timer
  BY <1>3 DEF Lookup2Timer, TypeOK, SameLinks, Timers
<1>4. CASE Lookup2RetryTimer
  BY <1>4 DEF Lookup2RetryTimer, TypeOK, SameLinks
<1>5. QED
  BY <1>1, <1>2, <1>3, <1>4 DEF LookupRetryTimer

\* What a heartbeat leaves: the session as it was, or one that was given up.
Beaten(s, p) ==
  /\ session'.renewing = s.renewing /\ session'.terminating = s.terminating
  /\ session'.binded = s.binded /\ session'.ending = s.ending
  /\ session'.timers \subseteq s.timers \cup {"heartbeat"}
  /\ session'.orphans["lookupRetry"] = s.orphans["lookupRetry"]
  /\ SameStation(station', p)
  /\ p.terminating => station' = p
  /\ \/ /\ station' = p
        /\ session'.connected = s.connected /\ session'.connecting = s.connecting
        /\ s.timers \cap {"lookup", "connect"} \subseteq session'.timers
     \/ /\ ~session'.connected /\ ~session'.connecting
        /\ s.connected
        /\ ~p.terminating /\ ~p.energySaving /\ ~s.terminating => station'.reconnectTimeout

LEMMA HeartbeatEffect ==
  ASSUME TypeOK, NEW h \in BothType, SetBoth(Heartbeat(h)), UNCHANGED <<asked, alive, failures>>
  PROVE  TypeOK' /\ Beaten(h.session, h.station)
<1>1. CASE ~h.session.connected
  <2>1. SetBoth(h)
    BY <1>1 DEF Heartbeat
  <2>2. TypeOK'
    BY <2>1, SetBothTypes DEF TypeOK
  <2>3. QED
    BY <2>1, <2>2 DEF SetBoth, Beaten, SameStation
<1>2. CASE h.session.connected
  <2> DEFINE pinged == SendPing(h)
             beat == Overwrite(pinged, "heartbeat")
  <2>1. CASE alive
    <3>1. pinged = h
      BY <2>1 DEF SendPing
    <3>2. /\ beat \in BothType /\ beat.station = h.station
          /\ SameLinks(beat.session, h.session)
          /\ beat.session.timers = h.session.timers \cup {"heartbeat"}
          /\ beat.session.orphans["lookupRetry"] = h.session.orphans["lookupRetry"]
      BY <3>1, OverwriteFields
    <3>3. SetBoth(beat)
      BY <1>2 DEF Heartbeat
    <3> HIDE DEF beat
    <3>4. TypeOK'
      BY <3>2, <3>3, SetBothTypes DEF TypeOK
    <3>5. session' = beat.session /\ station' = beat.station
      BY <3>3 DEF SetBoth
    <3>6. QED
      BY <3>2, <3>4, <3>5 DEF Beaten, SameLinks, SameStation
  <2>2. CASE ~alive
    <3> DEFINE d == Disconnected(h)
    <3>1. pinged = d
      BY <2>2 DEF SendPing
    <3>2. /\ d \in BothType
          /\ SameStation(d.station, h.station)
          /\ h.station.terminating => d.station = h.station
          /\ ~h.station.terminating /\ ~h.station.energySaving /\ ~h.session.terminating =>
               d.station.reconnectTimeout
          /\ ~d.session.connected /\ ~d.session.connecting
          /\ d.session.terminating = h.session.terminating
          /\ d.session.renewing = h.session.renewing
          /\ d.session.binded = h.session.binded
          /\ d.session.ending = h.session.ending
          /\ d.session.timers =
               h.session.timers \ {"heartbeat", "lookupRetry", "lookup2", "lookup", "connect"}
          /\ d.session.orphans = h.session.orphans
      BY DisconnectedFields
    <3> HIDE DEF d, pinged
    <3>3. /\ beat \in BothType /\ beat.station = d.station
          /\ SameLinks(beat.session, d.session)
          /\ beat.session.timers = d.session.timers \cup {"heartbeat"}
          /\ beat.session.orphans["lookupRetry"] = d.session.orphans["lookupRetry"]
      BY <3>1, <3>2, OverwriteFields
    <3>4. SetBoth(beat)
      BY <1>2 DEF Heartbeat, pinged
    <3> HIDE DEF beat
    <3>5. TypeOK'
      BY <3>3, <3>4, SetBothTypes DEF TypeOK
    <3>6. session' = beat.session /\ station' = beat.station
      BY <3>4 DEF SetBoth
    <3>7. QED
      BY <1>2, <3>2, <3>3, <3>5, <3>6 DEF Beaten, SameLinks, SameStation
  <2>3. QED
    BY <2>1, <2>2
<1>3. QED
  BY <1>1, <1>2

LEMMA HeartbeatTimerEffect ==
  ASSUME TypeOK, HeartbeatTimer
  PROVE  TypeOK' /\ asked' = asked /\ Beaten(session, station)
<1>1. CASE "heartbeat" \in session.timers /\ SetBoth(Heartbeat(Clear(Both, {"heartbeat"})))
           /\ UNCHANGED <<asked, alive, failures>>
  <2> DEFINE h == Clear(Both, {"heartbeat"})
  <2>1. /\ h \in BothType /\ h.station = station /\ SameLinks(h.session, session)
        /\ h.session.timers = session.timers \ {"heartbeat"}
        /\ h.session.orphans = session.orphans
    BY BothFields, ClearFields
  <2> HIDE DEF h
  <2>2. TypeOK' /\ Beaten(h.session, h.station)
    BY <1>1, <2>1, HeartbeatEffect DEF h
  <2>3. QED
    BY <1>1, <2>1, <2>2 DEF Beaten, SameLinks
<1>2. CASE /\ session.orphans["heartbeat"] > 0
           /\ SetBoth(Heartbeat([Both EXCEPT !.session.orphans["heartbeat"] = @ - 1]))
           /\ UNCHANGED <<asked, alive, failures>>
  <2> DEFINE h == [Both EXCEPT !.session.orphans["heartbeat"] = @ - 1]
             orphans == [session.orphans EXCEPT !["heartbeat"] = @ - 1]
  <2>1. session.orphans \in [{"lookupRetry", "heartbeat"} -> Nat]
    BY DEF TypeOK
  <2>2. orphans \in [{"lookupRetry", "heartbeat"} -> Nat]
        /\ orphans["lookupRetry"] = session.orphans["lookupRetry"]
    BY <1>2, <2>1
  <2>3. h = [Both EXCEPT !.session = [session EXCEPT !.orphans = orphans]]
    BY BothFields DEF BothType, SessionType
  <2> HIDE DEF orphans
  <2>4. /\ h \in BothType /\ h.station = station /\ SameLinks(h.session, session)
        /\ h.session.timers = session.timers
        /\ h.session.orphans = orphans
    BY <2>2, <2>3, BothFields DEF BothType, SessionType, SameLinks
  <2> HIDE DEF h
  <2>5. TypeOK' /\ Beaten(h.session, h.station)
    BY <1>2, <2>4, HeartbeatEffect DEF h
  <2>6. QED
    BY <1>2, <2>2, <2>4, <2>5 DEF Beaten, SameLinks
<1>3. QED
  BY <1>1, <1>2 DEF HeartbeatTimer

LEMMA NetworkEffect ==
  ASSUME TypeOK, Lose \/ FallSilent
  PROVE  /\ TypeOK'
         /\ session' = session /\ station' = station /\ asked' \subseteq asked
<1>1. CASE Lose
  BY <1>1 DEF Lose, TypeOK
<1>2. CASE FallSilent
  <2>1. Fail /\ alive' = FALSE /\ UNCHANGED <<session, station, asked>>
    BY <1>2 DEF FallSilent
  <2>2. failures' \in 0 .. MaxFailures
    BY <2>1, FailCounts
  <2>3. QED
    BY <2>1, <2>2 DEF TypeOK
<1>3. QED
  BY <1>1, <1>2

-----------------------------------------------------------------------------
(* Type correctness, whatever may happen *)

LEMMA TypeInit ==
  ASSUME Init
  PROVE  TypeOK
<1> DEFINE orphans == [t \in {"lookupRetry", "heartbeat"} |-> 0]
<1>1. orphans \in [{"lookupRetry", "heartbeat"} -> Nat]
  OBVIOUS
<1>2. session = [connected |-> FALSE, connecting |-> FALSE, terminating |-> FALSE, renewing |-> 0,
                 binded |-> FALSE, ending |-> FALSE, timers |-> {}, orphans |-> orphans]
  BY DEF Init
<1> HIDE DEF orphans
<1>3. session \in SessionType
  BY <1>1, <1>2 DEF SessionType
<1>4. PICK energySaving \in BOOLEAN :
        station = [energySaving |-> energySaving, terminating |-> FALSE, reconnectTimeout |-> FALSE,
                   wanted |-> FALSE]
  BY DEF Init
<1>5. station \in StationType
  BY <1>4 DEF StationType
<1>6. asked = {} /\ alive = FALSE /\ failures = 0
  BY DEF Init
<1>7. asked \subseteq {"local", "cloud", "cloud2", "cam"} /\ alive \in BOOLEAN
  BY <1>6
<1>8. failures \in 0 .. MaxFailures
  BY <1>6, BoundAssumption
<1>9. QED
  BY <1>3, <1>5, <1>7, <1>8 DEF TypeOK, SessionType, StationType

LEMMA TypeStep ==
  ASSUME TypeOK, [Next]_vars
  PROVE  TypeOK'
<1>1. CASE UNCHANGED vars
  BY <1>1 DEF vars, TypeOK
<1>2. CASE Connect \/ ReconnectTimer \/ Renewed
  BY <1>2, ConnectEffect, ReconnectTimerEffect, RenewedEffect
<1>3. CASE Close \/ CloseEnd \/ HandleEnd \/ EnergySavingTimer \/ LookupTimer \/ ConnectTimer
  BY <1>3, CloseEffect, CloseEndEffect, HandleEndEffect, EnergySavingTimerEffect, AttemptTimerEffect
<1>4. CASE HandleLocalLookupResp \/ HandleLookupAddr \/ HandleLookupAddr2 \/ HandleCamId
  BY <1>4, HostAnswerEffect, HandleCamIdEffect
<1>5. CASE Lose \/ FallSilent \/ HeartbeatTimer
  BY <1>5, NetworkEffect, HeartbeatTimerEffect
<1>6. CASE LookupRetryTimer \/ Lookup2Timer \/ Lookup2RetryTimer
  BY <1>6, RequestTimerEffect
<1>7. QED
  BY <1>1, <1>2, <1>3, <1>4, <1>5, <1>6 DEF Next

\* The session, its timers and the station keep their shape.
THEOREM TypeCorrect == Spec => []TypeOK
<1>1. Init => TypeOK
  BY TypeInit
<1>2. TypeOK /\ [Next]_vars => TypeOK'
  BY TypeStep
<1>3. QED
  BY <1>1, <1>2, PTL DEF Spec

-----------------------------------------------------------------------------
(* A connection and the timers of the attempt that led to it: lookup() after the await of connect() *)
(* is the danger, and it is one only where the session connects meanwhile.                         *)

AttemptInv == TypeOK /\ RenewedBefore /\ AttemptOver

LEMMA AttemptInit ==
  ASSUME Init
  PROVE  AttemptInv
BY TypeInit DEF Init, AttemptInv, RenewedBefore, AttemptOver

\* A session that connects not, and whose key and attempt timers are as before if it is connected.
LEMMA AttemptKept ==
  ASSUME AttemptInv,
         session'.connected => /\ session.connected
                               /\ session'.renewing = session.renewing
                               /\ session'.timers \cap {"lookup", "connect"}
                                    \subseteq session.timers \cap {"lookup", "connect"}
  PROVE  RenewedBefore' /\ AttemptOver'
BY DEF AttemptInv, RenewedBefore, AttemptOver

LEMMA AttemptStep ==
  ASSUME "early_answer" \notin Faults, AttemptInv, [Next]_vars
  PROVE  AttemptInv'
<1> USE DEF SameLinks
<1>t. TypeOK /\ TypeOK'
  BY TypeStep DEF AttemptInv
<1> SUFFICES RenewedBefore' /\ AttemptOver'
  BY <1>t DEF AttemptInv
<1>1. CASE UNCHANGED vars
  BY <1>1, AttemptKept DEF vars
<1>2. CASE Connect
  BY <1>2, <1>t, ConnectEffect, AttemptKept
<1>3. CASE ReconnectTimer
  <2>1. session.connected \/ session.connecting => session' = session
    BY <1>3, <1>t, ReconnectTimerEffect
  <2>2. ~session.connected /\ ~session.connecting => ~session'.connected
    BY <1>3, <1>t, ReconnectTimerEffect
  <2>3. QED
    BY <2>1, <2>2, AttemptKept
<1>4. CASE Renewed
  \* The key was being renewed, so there is no connection.
  <2>1. session.renewing > 0 /\ session'.connected = session.connected
    BY <1>4, <1>t, RenewedEffect
  <2>2. ~session.connected
    BY <2>1 DEF AttemptInv, RenewedBefore
  <2>3. QED
    BY <2>1, <2>2, AttemptKept
<1>5. CASE Close
  BY <1>5, <1>t, CloseEffect, AttemptKept
<1>6. CASE CloseEnd \/ HandleEnd \/ EnergySavingTimer \/ LookupTimer \/ ConnectTimer
  <2>1. ~session'.connected
    BY <1>6, <1>t, CloseEndEffect, HandleEndEffect, EnergySavingTimerEffect, AttemptTimerEffect DEF Ended
  <2>2. QED
    BY <2>1, AttemptKept
<1>7. CASE HandleLocalLookupResp \/ HandleLookupAddr \/ HandleLookupAddr2
  BY <1>7, <1>t, HostAnswerEffect, AttemptKept
<1>8. CASE HandleCamId
  <2>1. CASE session.connected
    BY <1>8, <1>t, <2>1, HandleCamIdEffect, AttemptKept
  <2>2. CASE ~session.connected
    <3>1. session.renewing = 0
      BY <1>8, <1>t, HandleCamIdEffect DEF TypeOK
    <3>2. session'.renewing = session.renewing /\ session'.timers \cap {"lookup", "connect"} = {}
      BY <1>8, <1>t, <2>2, HandleCamIdEffect DEF CamIdStops
    <3>3. QED
      BY <3>1, <3>2 DEF RenewedBefore, AttemptOver
  <2>3. QED
    BY <2>1, <2>2
<1>9. CASE Lose \/ FallSilent
  BY <1>9, <1>t, NetworkEffect, AttemptKept
<1>10. CASE LookupRetryTimer \/ Lookup2Timer \/ Lookup2RetryTimer
  BY <1>10, <1>t, RequestTimerEffect, AttemptKept
<1>11. CASE HeartbeatTimer
  <2>1. Beaten(session, station)
    BY <1>11, <1>t, HeartbeatTimerEffect
  <2>2. QED
    BY <2>1, AttemptKept DEF Beaten
<1>12. QED
  BY <1>1, <1>2, <1>3, <1>4, <1>5, <1>6, <1>7, <1>8, <1>9, <1>10, <1>11 DEF Next

\* No timer of an attempt runs while there is a connection, unless an answer to an earlier lookup can
\* overtake the renewal of the key.
THEOREM NoTimerEndsAConnection ==
  ASSUME "early_answer" \notin Faults
  PROVE  Spec => []AttemptOver
<1>1. Init => AttemptInv
  BY AttemptInit
<1>2. AttemptInv /\ [Next]_vars => AttemptInv'
  BY AttemptStep
<1>3. AttemptInv => AttemptOver
  BY DEF AttemptInv
<1>4. QED
  BY <1>1, <1>2, <1>3, PTL DEF Spec

-----------------------------------------------------------------------------
(* Closed stations: close() finds no timer that asks for hosts, since a connection leaves none, and *)
(* what belongs to a station that was closed starts none.                                            *)

LookupOver == session.timers \cap {"lookup", "lookup2", "lookup2Retry"} = {}

ConnectedIsOver == session.connected => LookupOver
TerminatingIsOver == session.terminating => session.renewing = 0 /\ LookupOver
TerminatingIsLeft == station.terminating => ~station.reconnectTimeout

ClosedInv == AttemptInv /\ ConnectedIsOver /\ TerminatingIsOver /\ TerminatingIsLeft

LEMMA ClosedInit ==
  ASSUME Init
  PROVE  ClosedInv
<1>1. ~session.connected /\ ~session.terminating /\ ~station.terminating
  BY DEF Init
<1>2. QED
  BY <1>1, AttemptInit DEF ClosedInv, ConnectedIsOver, TerminatingIsOver, TerminatingIsLeft

\* A session that connects not and that is not closed, and whose lookup goes on only if it went on.
LEMMA ClosedKept ==
  ASSUME ClosedInv,
         session'.connected => session.connected,
         session'.terminating => session.terminating /\ session'.renewing = session.renewing,
         session'.connected \/ session'.terminating => (LookupOver => LookupOver'),
         station'.terminating => station.terminating,
         station'.reconnectTimeout => station.reconnectTimeout \/ ~station.terminating
  PROVE  ConnectedIsOver' /\ TerminatingIsOver' /\ TerminatingIsLeft'
BY DEF ClosedInv, ConnectedIsOver, TerminatingIsOver, TerminatingIsLeft

\* The end of a connection or of an attempt, which closes it or not.
LEMMA ClosedEnded ==
  ASSUME ClosedInv, NEW s, Ended(s, station), s.renewing = session.renewing, s.timers = session.timers,
         s.terminating => session.terminating \/ session.connected
  PROVE  ConnectedIsOver' /\ TerminatingIsOver' /\ TerminatingIsLeft'
<1>1. LookupOver => LookupOver'
  BY DEF Ended, LookupOver
<1>2. session'.terminating => session'.renewing = 0 /\ LookupOver'
  BY <1>1 DEF Ended, ClosedInv, AttemptInv, RenewedBefore, ConnectedIsOver, TerminatingIsOver
<1>3. ~session'.connected /\ station'.terminating = station.terminating
  BY DEF Ended, SameStation
<1>4. station.terminating => station' = station
  BY DEF Ended
<1>5. QED
  BY <1>2, <1>3, <1>4 DEF ClosedInv, ConnectedIsOver, TerminatingIsOver, TerminatingIsLeft

LEMMA ClosedStep ==
  ASSUME "early_answer" \notin Faults, ClosedInv, [Next]_vars
  PROVE  ClosedInv'
<1> USE DEF SameLinks, SameStation
<1>t. TypeOK /\ AttemptInv /\ AttemptInv'
  BY AttemptStep DEF ClosedInv, AttemptInv
<1> SUFFICES ConnectedIsOver' /\ TerminatingIsOver' /\ TerminatingIsLeft'
  BY <1>t DEF ClosedInv
<1>1. CASE UNCHANGED vars
  BY <1>1, ClosedKept DEF vars, LookupOver
<1>2. CASE Connect
  <2>1. /\ station' = [station EXCEPT !.wanted = TRUE]
        /\ ~session'.connected /\ ~session'.terminating
    BY <1>2, <1>t, ConnectEffect
  <2>2. station'.terminating = station.terminating
        /\ station'.reconnectTimeout = station.reconnectTimeout
    BY <2>1, <1>t DEF TypeOK
  <2>3. QED
    BY <2>1, <2>2, ClosedKept
<1>3. CASE ReconnectTimer
  <2>1. /\ station' = [station EXCEPT !.reconnectTimeout = FALSE]
        /\ session' = session \/ (~session'.connected /\ ~session'.terminating)
    BY <1>3, <1>t, ReconnectTimerEffect
  <2>2. station'.terminating = station.terminating /\ ~station'.reconnectTimeout
    BY <2>1, <1>t DEF TypeOK
  <2>3. QED
    BY <2>1, <2>2, ClosedKept DEF LookupOver
<1>4. CASE Renewed
  \* The key was being renewed, so there is no connection, and close() found none.
  <2>1. /\ session.renewing > 0 /\ station' = station
        /\ session'.connected = session.connected /\ session'.terminating = session.terminating
    BY <1>4, <1>t, RenewedEffect
  <2>2. ~session.connected /\ ~session.terminating
    BY <2>1, <1>t DEF ClosedInv, AttemptInv, RenewedBefore, TerminatingIsOver
  <2>3. QED
    BY <2>1, <2>2, ClosedKept
<1>5. CASE Close
  <2>1. /\ ~station'.reconnectTimeout
        /\ session'.connected = session.connected /\ session'.renewing = session.renewing
        /\ session'.timers \subseteq session.timers
        /\ ~session.connected => session' = session
    BY <1>5, <1>t, CloseEffect
  <2>2. LookupOver => LookupOver'
    BY <2>1 DEF LookupOver
  <2>3. CASE session.connected
    BY <2>1, <2>2, <2>3 DEF ClosedInv, AttemptInv, RenewedBefore, ConnectedIsOver, TerminatingIsOver,
                            TerminatingIsLeft
  <2>4. CASE ~session.connected
    BY <2>1, <2>2, <2>4 DEF ClosedInv, ConnectedIsOver, TerminatingIsOver, TerminatingIsLeft
  <2>5. QED
    BY <2>3, <2>4
<1>6. CASE LookupTimer \/ ConnectTimer
  BY <1>6, <1>t, AttemptTimerEffect, ClosedEnded
<1>7. CASE CloseEnd
  <2>1. Ended([session EXCEPT !.ending = FALSE], station)
    BY <1>7, <1>t, CloseEndEffect
  <2>2. /\ [session EXCEPT !.ending = FALSE].renewing = session.renewing
        /\ [session EXCEPT !.ending = FALSE].timers = session.timers
        /\ [session EXCEPT !.ending = FALSE].terminating = session.terminating
    BY <1>t DEF TypeOK
  <2>3. QED
    BY <2>1, <2>2, ClosedEnded
<1>8. CASE HandleEnd
  <2>1. Ended([session EXCEPT !.binded = FALSE], station)
    BY <1>8, <1>t, HandleEndEffect
  <2>2. /\ [session EXCEPT !.binded = FALSE].renewing = session.renewing
        /\ [session EXCEPT !.binded = FALSE].timers = session.timers
        /\ [session EXCEPT !.binded = FALSE].terminating = session.terminating
    BY <1>t DEF TypeOK
  <2>3. QED
    BY <2>1, <2>2, ClosedEnded
<1>9. CASE EnergySavingTimer
  <2>1. session.connected /\ Ended([session EXCEPT !.terminating = TRUE], station)
    BY <1>9, <1>t, EnergySavingTimerEffect
  <2>2. /\ [session EXCEPT !.terminating = TRUE].renewing = session.renewing
        /\ [session EXCEPT !.terminating = TRUE].timers = session.timers
    BY <1>t DEF TypeOK
  <2>3. QED
    BY <2>1, <2>2, ClosedEnded
<1>10. CASE HandleLocalLookupResp \/ HandleLookupAddr \/ HandleLookupAddr2
  <2>1. /\ session'.timers \subseteq session.timers \cup {"connect"}
        /\ station' = station /\ SameLinks(session', session)
    BY <1>10, <1>t, HostAnswerEffect
  <2>2. LookupOver => LookupOver'
    BY <2>1 DEF LookupOver
  <2>3. QED
    BY <2>1, <2>2, ClosedKept
<1>11. CASE HandleCamId
  <2>1. /\ station'.terminating => station.terminating
        /\ station'.reconnectTimeout = station.reconnectTimeout
        /\ session'.terminating = session.terminating /\ session'.renewing = session.renewing
        /\ session.connected => session' = session
        /\ ~session.connected => session'.timers \cap CamIdStops = {}
    BY <1>11, <1>t, HandleCamIdEffect
  <2>2. CASE session.connected
    BY <2>1, <2>2, ClosedKept DEF LookupOver
  <2>3. CASE ~session.connected
    <3>1. LookupOver'
      BY <2>1, <2>3 DEF LookupOver, CamIdStops
    <3>2. QED
      BY <2>1, <3>1 DEF ClosedInv, ConnectedIsOver, TerminatingIsOver, TerminatingIsLeft
  <2>4. QED
    BY <2>2, <2>3
<1>12. CASE Lose \/ FallSilent
  BY <1>12, <1>t, NetworkEffect, ClosedKept DEF LookupOver
<1>13. CASE LookupRetryTimer \/ Lookup2Timer \/ Lookup2RetryTimer
  <2>1. /\ \/ session'.timers \subseteq session.timers \cup {"lookupRetry"}
           \/ {"lookup2", "lookup2Retry"} \cap session.timers # {}
        /\ station' = station /\ SameLinks(session', session)
    BY <1>13, <1>t, RequestTimerEffect
  <2>2. LookupOver => LookupOver'
    BY <2>1 DEF LookupOver
  <2>3. QED
    BY <2>1, <2>2, ClosedKept
<1>14. CASE HeartbeatTimer
  <2>1. Beaten(session, station)
    BY <1>14, <1>t, HeartbeatTimerEffect
  <2>2. /\ session'.renewing = session.renewing /\ session'.terminating = session.terminating
        /\ session'.connected => session.connected
        /\ session'.timers \subseteq session.timers \cup {"heartbeat"}
        /\ station'.terminating = station.terminating
        /\ station.terminating => station' = station
    BY <2>1 DEF Beaten
  <2>3. LookupOver => LookupOver'
    BY <2>2 DEF LookupOver
  <2>4. QED
    BY <2>2, <2>3, ClosedKept
<1>15. QED
  BY <1>1, <1>2, <1>3, <1>4, <1>5, <1>6, <1>7, <1>8, <1>9, <1>10, <1>11, <1>12, <1>13, <1>14
  DEF Next

\* What a step may do to a station that is closed.
StepOfClosed ==
  /\ ~station'.reconnectTimeout
  /\ \/ station'.wanted
     \/ asked \ asked' # {}
     \/ asked' \subseteq asked /\ (session'.connected => session.connected)

LEMMA StepFromClosed ==
  ASSUME ClosedInv, Closed, [Next]_vars
  PROVE  StepOfClosed
<1> USE DEF SameLinks, SameStation
<1>t. /\ TypeOK /\ station.terminating /\ ~station.reconnectTimeout
      /\ session.terminating /\ session.renewing = 0 /\ LookupOver
      /\ "lookupRetry" \notin session.timers /\ session.orphans["lookupRetry"] = 0
  BY DEF ClosedInv, AttemptInv, TerminatingIsOver, TerminatingIsLeft, Closed
<1>1. CASE UNCHANGED vars
  BY <1>1, <1>t DEF vars, StepOfClosed
<1>2. CASE Connect
  <2>1. station' = [station EXCEPT !.wanted = TRUE]
    BY <1>2, <1>t, ConnectEffect
  <2>2. station'.wanted /\ ~station'.reconnectTimeout
    BY <2>1, <1>t DEF TypeOK
  <2>3. QED
    BY <2>2 DEF StepOfClosed
<1>3. CASE ReconnectTimer \/ Renewed
  BY <1>3, <1>t, ReconnectTimerEffect, RenewedEffect
<1>4. CASE Close
  \* It is wanted nevertheless.
  BY <1>4, <1>t, CloseEffect DEF StepOfClosed
<1>5. CASE LookupTimer \/ ConnectTimer \/ CloseEnd \/ HandleEnd \/ EnergySavingTimer
  <2>1. /\ asked' \subseteq asked
        /\ \E s : Ended(s, station)
    BY <1>5, <1>t, AttemptTimerEffect, CloseEndEffect, HandleEndEffect, EnergySavingTimerEffect
  <2>2. station' = station /\ ~session'.connected
    BY <2>1, <1>t DEF Ended
  <2>3. QED
    BY <2>1, <2>2, <1>t DEF StepOfClosed
<1>6. CASE HandleLocalLookupResp \/ HandleLookupAddr \/ HandleLookupAddr2
  BY <1>6, <1>t, HostAnswerEffect DEF StepOfClosed
<1>7. CASE HandleCamId
  BY <1>7, <1>t, HandleCamIdEffect DEF StepOfClosed
<1>8. CASE Lose \/ FallSilent
  BY <1>8, <1>t, NetworkEffect DEF StepOfClosed
<1>9. CASE LookupRetryTimer \/ Lookup2Timer \/ Lookup2RetryTimer
  <2>1. \/ {"lookupRetry", "lookup2", "lookup2Retry"} \cap session.timers # {}
        \/ session.orphans["lookupRetry"] > 0
    BY <1>9, <1>t, RequestTimerEffect
  <2>2. {"lookupRetry", "lookup2", "lookup2Retry"} \cap session.timers = {}
    BY <1>t DEF LookupOver
  <2>3. QED
    BY <2>1, <2>2, <1>t
<1>10. CASE HeartbeatTimer
  <2>1. Beaten(session, station) /\ asked' = asked
    BY <1>10, <1>t, HeartbeatTimerEffect
  <2>2. session'.connected => session.connected
    BY <2>1, <1>t DEF Beaten
  <2>3. station' = station
    BY <2>1, <1>t DEF Beaten
  <2>4. QED
    BY <2>1, <2>2, <2>3, <1>t DEF StepOfClosed
<1>11. QED
  BY <1>1, <1>2, <1>3, <1>4, <1>5, <1>6, <1>7, <1>8, <1>9, <1>10 DEF Next

\* A station that was closed while it was connected schedules nothing and asks for nothing, whatever was
\* still on its way: only an answer to what was asked before can bring it back (and does: neither
\* LOOKUP_ADDR nor CAM_ID asks whether the session was closed).
THEOREM ClosedStaysClosed ==
  ASSUME "early_answer" \notin Faults
  PROVE  Spec => StaysClosed
<1>1. Init => ClosedInv
  BY ClosedInit
<1>2. ClosedInv /\ [Next]_vars => ClosedInv'
  BY ClosedStep
<1>3. ClosedInv /\ [Next]_vars => [Closed => StepOfClosed]_vars
  BY StepFromClosed
<1>4. QED
  BY <1>1, <1>2, <1>3, PTL DEF Spec, StaysClosed, StepOfClosed

-----------------------------------------------------------------------------
(* Wanted stations: an attempt is ended by some timer, and its end starts the reconnect timer, since *)
(* nothing that is wanted believes itself closed.                                                     *)

StrandedInv == TypeOK /\ KnownWanted /\ ConnectingGoesOn /\ NotStranded

LEMMA WantedKept ==
  ASSUME KnownWanted, station.wanted, station'.wanted,
         station'.energySaving = station.energySaving,
         station'.terminating => station.terminating,
         session'.terminating => session.terminating \/ station.energySaving
  PROVE  KnownWanted'
BY DEF KnownWanted

\* From a station the application wants.
LEMMA KnownKeptStep ==
  ASSUME TypeOK, KnownWanted, station.wanted, [Next]_vars
  PROVE  KnownWanted'
<1> USE DEF SameLinks, SameStation
<1>t. TypeOK /\ KnownWanted
  OBVIOUS
<1>1. CASE UNCHANGED vars
  BY <1>1, <1>t, WantedKept DEF vars
<1>2. CASE Connect
  <2>1. station' = [station EXCEPT !.wanted = TRUE] /\ ~session'.terminating
        /\ session'.ending = session.ending
    BY <1>2, <1>t, ConnectEffect
  <2>2. station'.wanted /\ station'.energySaving = station.energySaving
        /\ station'.terminating = station.terminating
    BY <2>1, <1>t DEF TypeOK
  <2>3. QED
    BY <2>1, <2>2, <1>t, WantedKept
<1>3. CASE ReconnectTimer
  <2>1. /\ station' = [station EXCEPT !.reconnectTimeout = FALSE]
        /\ session.connected \/ session.connecting => session' = session
        /\ ~session.connected /\ ~session.connecting =>
             ~session'.terminating /\ session'.ending = session.ending
    BY <1>3, <1>t, ReconnectTimerEffect
  <2>2. station'.wanted /\ station'.energySaving = station.energySaving
        /\ station'.terminating = station.terminating
    BY <2>1, <1>t DEF TypeOK
  <2>3. QED
    BY <2>1, <2>2, <1>t, WantedKept
<1>4. CASE Renewed
  BY <1>4, <1>t, RenewedEffect, WantedKept
<1>5. CASE Close
  <2>1. ~station'.wanted
    BY <1>5, <1>t, CloseEffect
  <2>2. QED
    BY <2>1 DEF KnownWanted
<1>6. CASE LookupTimer \/ ConnectTimer
  BY <1>6, <1>t, AttemptTimerEffect, WantedKept DEF Ended
<1>7. CASE CloseEnd
  <2>1. Ended([session EXCEPT !.ending = FALSE], station)
    BY <1>7, <1>t, CloseEndEffect
  <2>2. session'.terminating = session.terminating /\ SameStation(station', station)
    BY <2>1, <1>t DEF Ended, TypeOK
  <2>3. QED
    BY <2>2, <1>t, WantedKept
<1>8. CASE HandleEnd
  <2>1. Ended([session EXCEPT !.binded = FALSE], station)
    BY <1>8, <1>t, HandleEndEffect
  <2>2. session'.terminating = session.terminating /\ session'.ending = session.ending
        /\ SameStation(station', station)
    BY <2>1, <1>t DEF Ended, TypeOK
  <2>3. QED
    BY <2>2, <1>t, WantedKept
<1>9. CASE EnergySavingTimer
  <2>1. Ended([session EXCEPT !.terminating = TRUE], station) /\ station.energySaving
    BY <1>9, <1>t, EnergySavingTimerEffect
  <2>2. session'.ending = session.ending /\ SameStation(station', station)
    BY <2>1, <1>t DEF Ended, TypeOK
  <2>3. QED
    BY <2>1, <2>2, <1>t, WantedKept
<1>10. CASE HandleLocalLookupResp \/ HandleLookupAddr \/ HandleLookupAddr2
  BY <1>10, <1>t, HostAnswerEffect, WantedKept
<1>11. CASE HandleCamId
  BY <1>11, <1>t, HandleCamIdEffect, WantedKept
<1>12. CASE Lose \/ FallSilent
  BY <1>12, <1>t, NetworkEffect, WantedKept
<1>13. CASE LookupRetryTimer \/ Lookup2Timer \/ Lookup2RetryTimer
  BY <1>13, <1>t, RequestTimerEffect, WantedKept
<1>14. CASE HeartbeatTimer
  <2>1. Beaten(session, station)
    BY <1>14, <1>t, HeartbeatTimerEffect
  <2>2. QED
    BY <2>1, <1>t, WantedKept DEF Beaten
<1>15. QED
  BY <1>1, <1>2, <1>3, <1>4, <1>5, <1>6, <1>7, <1>8, <1>9, <1>10, <1>11, <1>12, <1>13, <1>14
  DEF Next

\* Only close() makes a station unwanted, and only connect() wants one.
LEMMA WantedByCalls ==
  ASSUME TypeOK, [Next]_vars, ~Close, ~Connect
  PROVE  station'.wanted = station.wanted
<1> USE DEF SameStation
<1>1. CASE UNCHANGED vars
  BY <1>1 DEF vars
<1>2. CASE ReconnectTimer
  <2>1. station' = [station EXCEPT !.reconnectTimeout = FALSE]
    BY <1>2, ReconnectTimerEffect
  <2>2. QED
    BY <2>1 DEF TypeOK
<1>3. CASE Renewed \/ Lose \/ FallSilent
  BY <1>3, RenewedEffect, NetworkEffect
<1>4. CASE LookupTimer \/ ConnectTimer \/ CloseEnd \/ HandleEnd \/ EnergySavingTimer
  BY <1>4, AttemptTimerEffect, CloseEndEffect, HandleEndEffect, EnergySavingTimerEffect DEF Ended
<1>5. CASE HandleLocalLookupResp \/ HandleLookupAddr \/ HandleLookupAddr2 \/ HandleCamId
  BY <1>5, HostAnswerEffect, HandleCamIdEffect
<1>6. CASE LookupRetryTimer \/ Lookup2Timer \/ Lookup2RetryTimer
  BY <1>6, RequestTimerEffect
<1>7. CASE HeartbeatTimer
  BY <1>7, HeartbeatTimerEffect DEF Beaten
<1>8. QED
  BY <1>1, <1>2, <1>3, <1>4, <1>5, <1>6, <1>7 DEF Next

LEMMA KnownStep ==
  ASSUME "reopen" \notin Faults, TypeOK, KnownWanted, [Next]_vars
  PROVE  KnownWanted'
<1>1. CASE station.wanted
  BY <1>1, KnownKeptStep
<1>2. CASE ~station.wanted /\ Connect
  <2>1. /\ ~station.terminating /\ station' = [station EXCEPT !.wanted = TRUE]
        /\ ~session'.terminating
    BY <1>2, ConnectEffect
  <2>2. ~station'.terminating
    BY <2>1 DEF TypeOK
  <2>3. QED
    BY <2>1, <2>2 DEF KnownWanted
<1>3. CASE ~station.wanted /\ Close
  BY <1>3, CloseEffect DEF KnownWanted
<1>4. CASE ~station.wanted /\ ~Close /\ ~Connect
  BY <1>4, WantedByCalls DEF KnownWanted
<1>5. QED
  BY <1>1, <1>2, <1>3, <1>4

LEMMA StrandedInit ==
  ASSUME Init
  PROVE  StrandedInv
<1>1. ~session.connecting /\ ~station.wanted
  BY DEF Init
<1>2. QED
  BY <1>1, TypeInit DEF StrandedInv, KnownWanted, ConnectingGoesOn, NotStranded

\* Where an attempt goes on, nothing is missing.
LEMMA GoesOn ==
  ASSUME session'.connected \/ session'.renewing > 0 \/ session'.timers \cap {"lookup", "connect"} # {}
  PROVE  ConnectingGoesOn' /\ NotStranded'
BY DEF ConnectingGoesOn, NotStranded

\* Where it is over, the station has to try again.
LEMMA TriedAgain ==
  ASSUME ~session'.connecting, station'.wanted /\ ~station'.energySaving => station'.reconnectTimeout
  PROVE  ConnectingGoesOn' /\ NotStranded'
BY DEF ConnectingGoesOn, NotStranded

\* What was under way goes on.
LEMMA StrandedKept ==
  ASSUME ConnectingGoesOn, NotStranded, station' = station,
         session'.connected = session.connected, session'.connecting = session.connecting,
         session'.renewing = session.renewing,
         session.timers \cap {"lookup", "connect"} \subseteq session'.timers
  PROVE  ConnectingGoesOn' /\ NotStranded'
BY DEF ConnectingGoesOn, NotStranded

\* What _disconnected leaves of a station that is wanted.
LEMMA EndedTriesAgain ==
  ASSUME KnownWanted, NEW s, s.terminating = session.terminating, Ended(s, station)
  PROVE  ConnectingGoesOn' /\ NotStranded'
<1>1. station.wanted /\ ~station.energySaving => ~station.terminating /\ ~s.terminating
  BY DEF KnownWanted
<1>2. /\ ~session'.connecting
      /\ station'.wanted = station.wanted /\ station'.energySaving = station.energySaving
      /\ ~station.terminating /\ ~station.energySaving /\ ~s.terminating => station'.reconnectTimeout
  BY DEF Ended, SameStation
<1>3. QED
  BY <1>1, <1>2, TriedAgain

LEMMA StrandedStep ==
  ASSUME {"reopen", "unwanted"} \cap Faults = {}, StrandedInv, [Next]_vars
  PROVE  StrandedInv'
<1> USE DEF SameLinks, SameStation
<1>t. TypeOK /\ KnownWanted /\ ConnectingGoesOn /\ NotStranded
  BY DEF StrandedInv
<1>w. TypeOK' /\ KnownWanted'
  BY TypeStep, KnownStep DEF StrandedInv
<1> SUFFICES ConnectingGoesOn' /\ NotStranded'
  BY <1>w DEF StrandedInv
<1>1. CASE UNCHANGED vars
  BY <1>1, <1>t, StrandedKept DEF vars
<1>2. CASE Connect
  <2>1. \/ "lookup" \in session'.timers
        \/ session'.renewing = session.renewing + 1
    BY <1>2, <1>t, ConnectEffect
  <2>2. session.renewing \in Nat
    BY <1>t DEF TypeOK
  <2>3. QED
    BY <2>1, <2>2, GoesOn
<1>3. CASE ReconnectTimer
  <2>1. CASE session.connected \/ session.connecting
    <3>1. session' = session
      BY <1>3, <1>t, <2>1, ReconnectTimerEffect
    <3>2. session.connected \/ session.renewing > 0 \/ session.timers \cap {"lookup", "connect"} # {}
      BY <1>t, <2>1 DEF ConnectingGoesOn
    <3>3. QED
      BY <3>1, <3>2, GoesOn
  <2>2. CASE ~session.connected /\ ~session.connecting
    <3>1. \/ "lookup" \in session'.timers
          \/ session'.renewing = session.renewing + 1
      BY <1>3, <1>t, <2>2, ReconnectTimerEffect
    <3>2. session.renewing \in Nat
      BY <1>t DEF TypeOK
    <3>3. QED
      BY <3>1, <3>2, GoesOn
  <2>3. QED
    BY <2>1, <2>2
<1>4. CASE Renewed
  <2>1. "lookup" \in session'.timers
    BY <1>4, <1>t, RenewedEffect
  <2>2. QED
    BY <2>1, GoesOn
<1>5. CASE Close
  <2>1. /\ ~station'.wanted /\ session'.connected = session.connected
        /\ ~session.connected => session' = session
    BY <1>5, <1>t, CloseEffect
  <2>2. QED
    BY <2>1, <1>t DEF ConnectingGoesOn, NotStranded
<1>6. CASE LookupTimer \/ ConnectTimer
  <2>1. Ended(session, station)
    BY <1>6, <1>t, AttemptTimerEffect
  <2>2. QED
    BY <2>1, <1>t, EndedTriesAgain
<1>7. CASE CloseEnd
  <2>1. Ended([session EXCEPT !.ending = FALSE], station)
    BY <1>7, <1>t, CloseEndEffect
  <2>2. [session EXCEPT !.ending = FALSE].terminating = session.terminating
    BY <1>t DEF TypeOK
  <2>3. QED
    BY <2>1, <2>2, <1>t, EndedTriesAgain
<1>8. CASE HandleEnd
  <2>1. Ended([session EXCEPT !.binded = FALSE], station)
    BY <1>8, <1>t, HandleEndEffect
  <2>2. [session EXCEPT !.binded = FALSE].terminating = session.terminating
    BY <1>t DEF TypeOK
  <2>3. QED
    BY <2>1, <2>2, <1>t, EndedTriesAgain
<1>9. CASE EnergySavingTimer
  <2>1. station.energySaving /\ Ended([session EXCEPT !.terminating = TRUE], station)
    BY <1>9, <1>t, EnergySavingTimerEffect
  <2>2. ~session'.connecting /\ station'.energySaving = station.energySaving
    BY <2>1 DEF Ended
  <2>3. QED
    BY <2>1, <2>2, TriedAgain
<1>10. CASE HandleLocalLookupResp \/ HandleLookupAddr \/ HandleLookupAddr2
  <2>1. session'.connected \/ "connect" \in session'.timers
    BY <1>10, <1>t, HostAnswerEffect
  <2>2. QED
    BY <2>1, GoesOn
<1>11. CASE HandleCamId
  BY <1>11, <1>t, HandleCamIdEffect, GoesOn
<1>12. CASE Lose \/ FallSilent
  BY <1>12, <1>t, NetworkEffect, StrandedKept
<1>13. CASE LookupRetryTimer \/ Lookup2Timer \/ Lookup2RetryTimer
  <2>1. /\ station' = station /\ SameLinks(session', session)
        /\ session'.timers \cap {"lookup", "connect"} = session.timers \cap {"lookup", "connect"}
    BY <1>13, <1>t, RequestTimerEffect
  <2>2. QED
    BY <2>1, <1>t, StrandedKept
<1>14. CASE HeartbeatTimer
  <2>1. Beaten(session, station)
    BY <1>14, <1>t, HeartbeatTimerEffect
  <2>2. CASE /\ station' = station
             /\ session'.connected = session.connected /\ session'.connecting = session.connecting
             /\ session.timers \cap {"lookup", "connect"} \subseteq session'.timers
    BY <2>1, <2>2, <1>t, StrandedKept DEF Beaten
  <2>3. CASE /\ ~session'.connecting
             /\ ~station.terminating /\ ~station.energySaving /\ ~session.terminating =>
                  station'.reconnectTimeout
    <3>1. station.wanted /\ ~station.energySaving => ~station.terminating /\ ~session.terminating
      BY <1>t DEF KnownWanted
    <3>2. station'.wanted = station.wanted /\ station'.energySaving = station.energySaving
      BY <2>1 DEF Beaten
    <3>3. QED
      BY <2>3, <3>1, <3>2, TriedAgain
  <2>4. QED
    BY <2>1, <2>2, <2>3 DEF Beaten
<1>15. QED
  BY <1>1, <1>2, <1>3, <1>4, <1>5, <1>6, <1>7, <1>8, <1>9, <1>10, <1>11, <1>12, <1>13, <1>14
  DEF Next

\* A station the application wants and does not have is tried again, or being tried.
THEOREM WantedIsTried ==
  ASSUME {"reopen", "unwanted"} \cap Faults = {}
  PROVE  Spec => []NotStranded
<1>1. Init => StrandedInv
  BY StrandedInit
<1>2. StrandedInv /\ [Next]_vars => StrandedInv'
  BY StrandedStep
<1>3. StrandedInv => NotStranded
  BY DEF StrandedInv
<1>4. QED
  BY <1>1, <1>2, <1>3, PTL DEF Spec
=============================================================================
