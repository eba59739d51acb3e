--------------------------- MODULE P2PConnection ---------------------------
(***************************************************************************)
(* How a station is found, connected and kept connected over P2P: lookup,  *)
(* connect and heartbeat timers of P2PClientProtocol                       *)
(* (src/src/p2p/session.ts) with the reconnection of Station               *)
(* (src/src/http/station.ts).                                              *)
(*                                                                         *)
(* A timer is known to the session by its handle only: where a handle is   *)
(* overwritten, or forgotten, the timer still runs.  timers are those that *)
(* have a handle, orphans counts the others.  connect() is async: lookup() *)
(* follows when the key has been renewed.                                  *)
(*                                                                         *)
(* Station and network are external: asked holds the requests that can     *)
(* still be answered, or lost.                                             *)
(***************************************************************************)
EXTENDS Integers, FiniteSets

CONSTANTS
  MaxFailures,  \* bound: adverse events in a behaviour
  Faults        \* what may happen besides these, see AllFaults

(***************************************************************************)
(* "close"           the application closes the station                    *)
(* "reopen"          ... and connects it again                             *)
(* "slow_renewal"    connect() waits for a new DSK key                     *)
(* "early_answer"    an earlier lookup is answered while it waits          *)
(* "late_end"        END arrives while there is no connection              *)
(* "unwanted"        another station answers the local lookup              *)
(***************************************************************************)
AllFaults == {"close", "reopen", "slow_renewal", "early_answer", "late_end", "unwanted"}

ASSUME BoundAssumption == MaxFailures \in Nat
ASSUME FaultAssumption == Faults \subseteq AllFaults

VARIABLES
  session,   \* the session and its timers
  station,   \* the Station that owns it
  asked,     \* requests on their way, or answers to them: a lookup, a check of a host
  alive,     \* the connection works
  failures   \* bound: adverse events so far

vars == <<session, station, asked, alive, failures>>

Timers == {"lookup", "lookupRetry", "lookup2", "lookup2Retry", "connect", "heartbeat"}

-----------------------------------------------------------------------------
(* Methods.  Those that concern both are operators from h = [session, station] to h. *)

Both == [session |-> session, station |-> station]
Clear(h, timers) == [h EXCEPT !.session.timers = @ \ timers]

\* A handle that is overwritten leaves its timer behind.
Overwrite(h, timer) ==
  [h EXCEPT !.session.orphans[timer] = @ + (IF timer \in h.session.timers THEN 1 ELSE 0),
            !.session.timers = @ \cup {timer}]

\* Mutant: the station tries again although it was closed.
ScheduleReconnectAlways(h) == [h EXCEPT !.station.reconnectTimeout = TRUE]
ScheduleReconnect(h) == IF h.station.terminating THEN h ELSE [h EXCEPT !.station.reconnectTimeout = TRUE]

OnDisconnect(h) == IF h.station.energySaving THEN h ELSE ScheduleReconnect(h)

Initialize(h) == [h EXCEPT !.session.connected = FALSE, !.session.connecting = FALSE]

\* Mutant: an attempt that ended without a connection is not reported.
DisconnectedSilently(h) ==
  LET told == IF h.session.connected THEN OnDisconnect(h) ELSE h
  IN Initialize(Clear(told, {"heartbeat", "lookupRetry", "lookup2", "lookup", "connect"}))

\* _disconnected: lookup2Retry is not among the timers it stops.
Disconnected(h) ==
  LET told == IF h.session.connected THEN OnDisconnect(h)
              ELSE IF h.session.terminating THEN h
              ELSE ScheduleReconnect(h)
  IN Initialize(Clear(told, {"heartbeat", "lookupRetry", "lookup2", "lookup", "connect"}))

\* Mutant: a lookup may go on for ever.
LookupEndless(h) ==
  LET started == Overwrite(h, "lookupRetry")
  IN [started EXCEPT !.session.timers = @ \cup {"lookup2"}, !.session.binded = TRUE]

\* lookup: the timer localLookup keeps in lookupRetryTimeout is stopped by cloudLookup.
Lookup(h) ==
  LET started == Overwrite(h, "lookupRetry")
  IN [started EXCEPT !.session.timers = @ \cup {"lookup2", "lookup"}, !.session.binded = TRUE]

Idle(h) == ~h.session.connected /\ ~h.session.connecting
Began(h) == [h EXCEPT !.session.connecting = TRUE, !.session.terminating = FALSE]

\* connect(), with a key that is valid or has to be renewed.
ConnectNow(h) == IF Idle(h) THEN Lookup(Began(h)) ELSE h
ConnectSlow(h) == [Began(h) EXCEPT !.session.renewing = @ + 1]

SetBoth(h) == session' = h.session /\ station' = h.station

\* _connect: seven CHECK_CAM, and a timer that runs from the first host that is tried.
Check(h) == [h EXCEPT !.session.timers = @ \cup {"connect"}]

\* The first call of scheduleHeartbeat for a connection (Heartbeat is the others).
ScheduleHeartbeat(h) == Overwrite(h, "heartbeat")

-----------------------------------------------------------------------------
(* Initial state: a station that does, or does not, save energy *)

Init ==
  /\ session = [connected |-> FALSE, connecting |-> FALSE, terminating |-> FALSE, renewing |-> 0,
                binded |-> FALSE, ending |-> FALSE, timers |-> {}, orphans |-> [t \in {"lookupRetry", "heartbeat"} |-> 0]]
  /\ \E energySaving \in BOOLEAN :
       station = [energySaving |-> energySaving, terminating |-> FALSE, reconnectTimeout |-> FALSE,
                  wanted |-> FALSE]
  /\ asked = {}
  /\ alive = FALSE
  /\ failures = 0

Fail == failures < MaxFailures /\ failures' = failures + 1

-----------------------------------------------------------------------------
(* The application *)

StartConnect(h) ==
  \/ /\ SetBoth(ConnectNow(h))
     /\ asked' = IF Idle(h) THEN asked \cup {"local", "cloud"} ELSE asked
     /\ UNCHANGED <<alive, failures>>
  \/ /\ Idle(h) /\ "slow_renewal" \in Faults /\ Fail
     /\ SetBoth(ConnectSlow(h))
     /\ UNCHANGED <<asked, alive>>

\* The application or a refresh of the cloud data connects the station, or a command is queued.
Connect ==
  /\ Idle(Both)
  /\ station.terminating => "reopen" \in Faults
  /\ StartConnect([Both EXCEPT !.station.wanted = TRUE])

\* Mutant: lookup() without a connect().
RenewedUnasked ==
  /\ SetBoth(Lookup([Both EXCEPT !.session.renewing = @ - 1]))
  /\ asked' = asked \cup {"local", "cloud"}
  /\ UNCHANGED <<alive, failures>>

\* connect() after the await.
Renewed ==
  /\ session.renewing > 0
  /\ SetBoth(Lookup([Both EXCEPT !.session.renewing = @ - 1]))
  /\ asked' = asked \cup {"local", "cloud"}
  /\ UNCHANGED <<alive, failures>>

\* Station.close(), which leaves a session alone that is not connected.  What was asked can still be
\* answered, and the socket is not closed.
Close ==
  /\ "close" \in Faults
  /\ station.wanted \/ ~station.terminating
  /\ LET closed == [Both EXCEPT !.station.terminating = TRUE, !.station.reconnectTimeout = FALSE,
                                !.station.wanted = FALSE]
     IN SetBoth(IF ~session.connected THEN closed
                ELSE Clear([closed EXCEPT !.session.terminating = TRUE, !.session.ending = TRUE],
                           {"lookup", "lookupRetry", "connect", "heartbeat"}))
  /\ UNCHANGED <<asked, alive, failures>>

\* close() of the session after its await.
CloseEnd ==
  /\ session.ending
  /\ SetBoth(Disconnected([Both EXCEPT !.session.ending = FALSE]))
  /\ UNCHANGED <<asked, alive, failures>>

-----------------------------------------------------------------------------
(* Messages *)

\* An answer, of which a connected session takes no notice.
Answer(kind, h, more) ==
  /\ kind \in asked
  /\ session.renewing > 0 => "early_answer" \in Faults
  /\ IF session.connected
       THEN asked' = asked \ {kind} /\ SetBoth(Both)
       ELSE asked' = (asked \ {kind}) \cup more /\ SetBoth(h)

\* LOCAL_LOOKUP_RESP, of the station or of another one; then the station may still answer.
HandleLocalLookupResp ==
  /\ \/ Answer("local", Check(Clear(Both, {"lookup"})), {"cam"})
     \/ "unwanted" \in Faults /\ Answer("local", Clear(Both, {"lookup"}), {"local"})
  /\ UNCHANGED <<alive, failures>>

HandleLookupAddr ==
  /\ Answer("cloud", Check(Clear(Both, {"lookup", "lookupRetry"})), {"cam"})
  /\ UNCHANGED <<alive, failures>>

\* LOOKUP_ADDR2, of a TURN server.
HandleLookupAddr2 ==
  /\ Answer("cloud2", Check(Clear(Both, {"lookup", "lookupRetry", "lookup2Retry"})), {"cam"})
  /\ UNCHANGED <<alive, failures>>

CamIdStops == {"lookupRetry", "lookup2Retry", "lookup", "connect", "lookup2"}

\* CAM_ID: the station is connected, whoever asked for it.
HandleCamId ==
  /\ Answer("cam",
            ScheduleHeartbeat(Clear([Both EXCEPT !.session.connected = TRUE, !.station.terminating = FALSE],
                                    CamIdStops)), {})
  /\ alive' = (~session.connected \/ alive)
  /\ UNCHANGED failures

\* A request or its answer is lost, names no host, or names one the connection type excludes.
Lose ==
  /\ \E kind \in asked : asked' = asked \ {kind}
  /\ UNCHANGED <<session, station, alive, failures>>

\* END: the session goes on with a new socket, on which nothing can be answered yet.
HandleEnd ==
  /\ session.binded
  /\ ~session.connected => "late_end" \in Faults
  /\ Fail
  /\ SetBoth(Disconnected([Both EXCEPT !.session.binded = FALSE]))
  /\ asked' = {}
  /\ UNCHANGED alive

\* The station goes away without a word.
FallSilent ==
  /\ session.connected /\ alive
  /\ Fail
  /\ alive' = FALSE
  /\ UNCHANGED <<session, station, asked>>

-----------------------------------------------------------------------------
(* Timers *)

LookupTimer ==
  /\ "lookup" \in session.timers
  /\ SetBoth(Disconnected(Both))
  /\ UNCHANGED <<asked, alive, failures>>

ConnectTimer ==
  /\ "connect" \in session.timers
  /\ SetBoth(Disconnected(Both))
  /\ UNCHANGED <<asked, alive, failures>>

\* cloudLookup again.
LookupRetryTimer ==
  /\ \/ "lookupRetry" \in session.timers /\ UNCHANGED session
     \/ /\ session.orphans["lookupRetry"] > 0
        /\ session' = [session EXCEPT !.orphans["lookupRetry"] = @ - 1, !.timers = @ \cup {"lookupRetry"}]
  /\ asked' = asked \cup {"cloud"}
  /\ UNCHANGED <<station, alive, failures>>

\* cloudLookup2, for the first time and again.
Lookup2Timer ==
  /\ "lookup2" \in session.timers
  /\ session' = [session EXCEPT !.timers = (@ \ {"lookup2"}) \cup {"lookup2Retry"}]
  /\ asked' = asked \cup {"cloud2"}
  /\ UNCHANGED <<station, alive, failures>>

Lookup2RetryTimer ==
  /\ "lookup2Retry" \in session.timers
  /\ asked' = asked \cup {"cloud2"}
  /\ UNCHANGED <<session, station, alive, failures>>

\* Mutant: a silent station goes on being pinged.
SendPingUnchecked(h) == h

\* sendPing, of which the last of MAX_RETRIES unanswered ones counts: the others change nothing.
SendPing(h) == IF alive THEN h ELSE Disconnected(h)

\* scheduleHeartbeat: the next timer is set even where sendPing has just given the connection up.
Heartbeat(h) == IF h.session.connected THEN Overwrite(SendPing(h), "heartbeat") ELSE h

HeartbeatTimer ==
  /\ \/ /\ "heartbeat" \in session.timers
        /\ SetBoth(Heartbeat(Clear(Both, {"heartbeat"})))
     \/ /\ session.orphans["heartbeat"] > 0
        /\ SetBoth(Heartbeat([Both EXCEPT !.session.orphans["heartbeat"] = @ - 1]))
  /\ UNCHANGED <<asked, alive, failures>>

\* An energy saving station is left when it has nothing to do.
EnergySavingTimer ==
  /\ station.energySaving /\ session.connected
  /\ Fail
  /\ SetBoth(Disconnected([Both EXCEPT !.session.terminating = TRUE]))
  /\ UNCHANGED <<asked, alive>>

ReconnectTimer ==
  /\ station.reconnectTimeout
  /\ StartConnect([Both EXCEPT !.station.reconnectTimeout = FALSE])

Next ==
  \/ Connect \/ Renewed \/ Close \/ CloseEnd
  \/ HandleLocalLookupResp \/ HandleLookupAddr \/ HandleLookupAddr2
  \/ HandleCamId \/ Lose \/ HandleEnd \/ FallSilent
  \/ LookupTimer \/ ConnectTimer \/ LookupRetryTimer \/ Lookup2Timer \/ Lookup2RetryTimer
  \/ HeartbeatTimer \/ EnergySavingTimer \/ ReconnectTimer

Spec == Init /\ [][Next]_vars

\* Promises settle, timers fire, and a station that is looked up again and again is found.
Fairness ==
  /\ WF_vars(Renewed) /\ WF_vars(CloseEnd)
  /\ WF_vars(LookupRetryTimer) /\ WF_vars(LookupTimer) /\ WF_vars(ConnectTimer) /\ WF_vars(HeartbeatTimer) /\ WF_vars(ReconnectTimer)
  /\ SF_vars(HandleLookupAddr) /\ SF_vars(HandleCamId)

LiveSpec == Spec /\ Fairness

-----------------------------------------------------------------------------
(* Properties *)

TypeOK ==
  /\ session \in [connected : BOOLEAN, connecting : BOOLEAN, terminating : BOOLEAN, renewing : Nat,
                  binded : BOOLEAN, ending : BOOLEAN, timers : SUBSET Timers, orphans : [{"lookupRetry", "heartbeat"} -> Nat]]
  /\ station \in [energySaving : BOOLEAN, terminating : BOOLEAN, reconnectTimeout : BOOLEAN, wanted : BOOLEAN]
  /\ asked \subseteq {"local", "cloud", "cloud2", "cam"}
  /\ alive \in BOOLEAN
  /\ failures \in 0 .. MaxFailures

\* A station the application wants and does not have is tried again: its reconnect timer runs, or an
\* attempt does that some timer will end.
NotStranded ==
  station.wanted /\ ~station.energySaving /\ ~session.connected =>
    station.reconnectTimeout \/ session.renewing > 0 \/ session.timers \cap {"lookup", "connect"} # {}

\* The timers that give an attempt up never run while there is a connection: they would end it.
AttemptOver == session.connected => session.timers \cap {"lookup", "connect"} = {}

\* A station that is closed, and was connected then, so that the session knows it too; and of which no
\* lookup is left that close() does not know of.
Closed ==
  /\ station.terminating /\ session.terminating
  /\ "lookupRetry" \notin session.timers /\ session.orphans["lookupRetry"] = 0

\* Such a station does not come back by itself: nothing is scheduled, nothing is asked, and only an answer
\* to what was asked before brings it back.
StaysClosed ==
  [][Closed =>
       /\ ~station'.reconnectTimeout
       /\ \/ station'.wanted
          \/ asked \ asked' # {}
          \/ asked' \subseteq asked /\ (session'.connected => session.connected)]_vars

\* What is wanted does not believe that it was closed.
KnownWanted ==
  station.wanted => ~station.terminating /\ (session.terminating => station.energySaving)

\* Nobody connects while connect() renews the key.
RenewedBefore == session.connected => session.renewing = 0

\* An attempt that is under way is ended by some timer.
ConnectingGoesOn ==
  session.connecting /\ ~session.connected =>
    session.renewing > 0 \/ session.timers \cap {"lookup", "connect"} # {}

\* A connection that went silent is noticed.
LossNoticed == session.connected /\ ~alive ~> ~session.connected

\* A station the application wants is connected in the end.
Reconnects == station.wanted /\ ~station.energySaving ~> session.connected \/ ~station.wanted
=============================================================================
