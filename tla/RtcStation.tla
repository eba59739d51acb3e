----------------------------- MODULE RtcStation -----------------------------
(***************************************************************************)
(* How a T9000 hub stays connected over WebRTC: Station (connectRtc, the   *)
(* onRtc handlers, reconnection and the proactive refresh of               *)
(* src/src/http/station.ts) with StationRtcTransport                       *)
(* (src/src/rtc/stationRtcTransport.ts), which owns one RtcSession and     *)
(* replaces it by another one while the first is still up (the handoff).   *)
(*                                                                         *)
(* connect() and handoffConnect() are async: what they do after an await   *)
(* is an action of its own, so that everything can happen in between.  An  *)
(* RtcSession is external to both and modelled by the promise and the      *)
(* events they use: connect() settles, then "connected", "error", "close". *)
(*                                                                         *)
(* The state is one record, hub; methods are operators from hub to hub.    *)
(***************************************************************************)
EXTENDS Integers, FiniteSets

CONSTANTS
  Sessions,       \* identities of RtcSession objects, reused when forgotten
  MaxTransports,  \* bound: StationRtcTransport objects, one more than calls of close()
  MaxFailures,    \* bound: adverse events in a behaviour
  Faults          \* what may happen besides failures, see AllFaults

None == 0
Transports == 1 .. MaxTransports

(***************************************************************************)
(* "close"             the application closes the station                  *)
(* "reopen"            ... and connects it again                           *)
(* "down_in_handoff"   the old session ends during a handoff               *)
(* "close_in_handoff"  the station is closed during a handoff              *)
(* "down_in_attempt"   the signaling of a session closes before its        *)
(*                     channel is open                                     *)
(***************************************************************************)
AllFaults == {"close", "reopen", "down_in_handoff", "close_in_handoff", "down_in_attempt"}

ASSUME SessionAssumption == Sessions \subseteq Nat \ {None} /\ Sessions # {}
ASSUME BoundAssumption == MaxTransports \in Nat \ {0} /\ MaxFailures \in Nat
ASSUME FaultAssumption == Faults \subseteq AllFaults

VARIABLES
  hub,       \* station, transports and sessions
  failures   \* bound: adverse events so far

vars == <<hub, failures>>

-----------------------------------------------------------------------------
(* Sessions *)

\* pending: the promise of connect() has not settled.  role: whose listeners the session has.
FreshSession == [phase |-> "free", pending |-> FALSE, of |-> None, role |-> "none"]
Referenced(h) == {h.transports[t].session : t \in Transports} \cup {h.handoff.old, h.handoff.new}
Forgotten(h) == {s \in Sessions : /\ s \notin Referenced(h) /\ ~h.sessions[s].pending
                                  /\ h.sessions[s].phase \in {"free", "closed", "down"}}

NewSession(h) == CHOOSE s \in Forgotten(h) : TRUE
Started(h, s, t, role) ==
  [h EXCEPT !.sessions[s] = [phase |-> "connecting", pending |-> TRUE, of |-> t, role |-> role]]

\* The promise of connect() settles, for a session that may have been closed meanwhile.
Settled(q, phase) ==
  [q EXCEPT !.pending = FALSE, !.phase = IF q.phase = "connecting" THEN phase ELSE q.phase]

EndSession(h, s) == IF s = None THEN h ELSE [h EXCEPT !.sessions[s].phase = "closed"]

-----------------------------------------------------------------------------
(* Methods of the transport and of the station *)

CloseSession(h, t) == [EndSession(h, h.transports[t].session) EXCEPT !.transports[t].session = None]
Reset(h, t) ==
  [h EXCEPT !.transports[t].connected = FALSE, !.transports[t].connecting = FALSE,
            !.transports[t].handoffInProgress = FALSE]

Busy(h, t) ==
  /\ t # None
  /\ h.transports[t].connected \/ h.transports[t].connecting \/ h.transports[t].handoffInProgress
Connected(h) == h.rtcTransport # None /\ h.transports[h.rtcTransport].connected
CommandChannelReady(h) ==
  /\ h.rtcTransport # None
  /\ h.transports[h.rtcTransport].session # None
  /\ h.sessions[h.transports[h.rtcTransport].session].phase = "open"

\* Mutant: a station that cannot connect waits for the next call.
ScheduleRtcReconnectNever(h) == h
ScheduleRtcReconnect(h) == IF h.terminating THEN h ELSE [h EXCEPT !.reconnectTimeout = TRUE]

\* The listener of a transport's "close".  The transport that is closed here has connected = FALSE
\* already, or emits "close" once more, to the same effect.
OnRtcDisconnect(h) ==
  LET dropped == [h EXCEPT !.commandTransport = FALSE, !.proactive = "none"]
  IN ScheduleRtcReconnect(
       IF h.rtcTransport = None THEN dropped
       ELSE CloseSession(Reset(dropped, h.rtcTransport), h.rtcTransport))

\* Mutant: close() leaves it to the session's own event to tell the station.
TransportCloseQuiet(h, t) == CloseSession(Reset(h, t), t)
TransportClose(h, t) ==
  LET closed == CloseSession(Reset(h, t), t)
  IN IF h.transports[t].connected THEN OnRtcDisconnect(closed) ELSE closed

\* Mutant: the station does not plan the next refresh.
OnRtcConnectUnplanned(h) == [h EXCEPT !.commandTransport = @ \/ h.rtcTransport # None]
OnRtcConnect(h) == [h EXCEPT !.commandTransport = @ \/ h.rtcTransport # None, !.proactive = "refresh"]

\* connect() of the transport gives up: whatever session the transport has by then is closed.
ConnectFailed(h, t) ==
  ScheduleRtcReconnect(CloseSession([h EXCEPT !.transports[t].connecting = FALSE], t))

TransportConnect(h, t) ==
  LET s == NewSession(h)
  IN [Started(h, s, t, "primary") EXCEPT !.transports[t].connecting = TRUE, !.transports[t].session = s]

\* A new transport; only the first one of a station gets a handler for the hub's answers.
WithTransport(h) ==
  [h EXCEPT !.rtcTransport = h.made + 1, !.made = @ + 1, !.handlerWired = TRUE,
            !.transports[h.made + 1].handler = ~h.handlerWired]

ConnectRtc(h) ==
  IF h.rtcTransport = None
    THEN LET made == WithTransport(h) IN TransportConnect(made, made.rtcTransport)
    ELSE IF Busy(h, h.rtcTransport) THEN h ELSE TransportConnect(h, h.rtcTransport)

-----------------------------------------------------------------------------
(* The handoff and the proactive refresh *)

NoHandoff == [transport |-> None, old |-> None, new |-> None]

HardReconnect(h) ==
  LET cleared == [h EXCEPT !.proactive = "none"]
  IN IF h.rtcTransport = None THEN cleared ELSE TransportClose(cleared, h.rtcTransport)

ProbeExisting(h, timer) ==
  IF Connected(h) /\ CommandChannelReady(h) THEN [h EXCEPT !.proactive = timer] ELSE HardReconnect(h)

\* Mutant: the attempts are counted on from the last refresh.
StartHandoffCounted(h, attempt) ==
  LET t == h.rtcTransport
      s == NewSession(h)
  IN [Started(h, s, t, "handoff") EXCEPT
        !.transports[t].handoffInProgress = TRUE, !.attempt = @ + attempt,
        !.handoff = [transport |-> t, old |-> h.transports[t].session, new |-> s]]

StartHandoff(h, attempt) ==
  LET t == h.rtcTransport
      s == NewSession(h)
  IN [Started(h, s, t, "handoff") EXCEPT
        !.transports[t].handoffInProgress = TRUE, !.attempt = attempt,
        !.handoff = [transport |-> t, old |-> h.transports[t].session, new |-> s]]

\* Without a session handoffConnect() leaves it to connect(), which finds itself connected.
AttemptHandoff(h, attempt) ==
  LET r == h.transports[h.rtcTransport]
  IN IF ~Connected(h) \/ h.terminating THEN h
     ELSE IF r.session = None THEN [h EXCEPT !.proactive = "refresh"]
     ELSE IF r.handoffInProgress \/ r.connecting THEN ProbeExisting([h EXCEPT !.attempt = attempt], "probe")
     ELSE StartHandoff(h, attempt)

\* Mutant: the old session is left to the hub.
HandoffSucceedsKeepsOld(h) ==
  LET t == h.handoff.transport
      swapped == [h EXCEPT !.transports[t] = [@ EXCEPT !.session = h.handoff.new, !.handoffInProgress = FALSE],
                           !.sessions[h.handoff.new].role = "primary", !.handoff = NoHandoff]
  IN IF h.terminating THEN swapped ELSE [swapped EXCEPT !.proactive = "refresh"]

\* Mutant: commands keep going to the session that was retired.
HandoffSucceedsUnswapped(h) ==
  LET t == h.handoff.transport
      retired == [h EXCEPT !.transports[t].handoffInProgress = FALSE,
                           !.sessions[h.handoff.new].role = "primary",
                           !.sessions[h.handoff.old] = [@ EXCEPT !.phase = "closed", !.role = "none"],
                           !.handoff = NoHandoff]
  IN IF h.terminating THEN retired ELSE [retired EXCEPT !.proactive = "refresh"]

\* handoffConnect() after the new session's "connected", and the caller's then.
HandoffSucceeds(h) ==
  LET t == h.handoff.transport
      swapped == [h EXCEPT !.transports[t] = [@ EXCEPT !.session = h.handoff.new, !.handoffInProgress = FALSE],
                           !.sessions[h.handoff.new].role = "primary",
                           !.sessions[h.handoff.old] = [@ EXCEPT !.phase = "closed", !.role = "none"],
                           !.handoff = NoHandoff]
  IN IF h.terminating THEN swapped ELSE [swapped EXCEPT !.proactive = "refresh"]

\* handoffConnect() after its promise was rejected, and the caller's then: probe the old session.
HandoffFails(h) ==
  LET t == h.handoff.transport
      kept == [h EXCEPT !.sessions[h.handoff.new] = [@ EXCEPT !.phase = "closed", !.role = "none"],
                        !.transports[t] = [@ EXCEPT !.session = h.handoff.old, !.handoffInProgress = FALSE],
                        !.handoff = NoHandoff]
  IN IF h.terminating THEN kept ELSE ProbeExisting(kept, "probe")

-----------------------------------------------------------------------------
(* Initial state *)

Init ==
  /\ hub = [sessions |-> [s \in Sessions |-> FreshSession],
            transports |-> [t \in Transports |->
              [session |-> None, connected |-> FALSE, connecting |-> FALSE,
               handoffInProgress |-> FALSE, handler |-> FALSE, waiters |-> 0]],
            handoff |-> NoHandoff, made |-> 0, rtcTransport |-> None, terminating |-> FALSE,
            handlerWired |-> FALSE, reconnectTimeout |-> FALSE, waking |-> 0,
            proactive |-> "none", attempt |-> 0, commandTransport |-> FALSE]
  /\ failures = 0

Fail == failures < MaxFailures /\ failures' = failures + 1

\* Bound: an identity is left for another session.
Nameable == Forgotten(hub) # {}

-----------------------------------------------------------------------------
(* The application *)

\* connectRtc(): without credentials it is tried again later.
TryConnect(h) ==
  \/ Nameable /\ hub' = ConnectRtc(h) /\ UNCHANGED failures
  \/ ~Busy(h, h.rtcTransport) /\ hub' = ScheduleRtcReconnect(h) /\ Fail

\* Station.connect(), also called by every refresh of the cloud data for a station that is not
\* connected.
Connect ==
  /\ ~Connected(hub)
  /\ hub.terminating => "reopen" \in Faults
  /\ hub.rtcTransport = None => hub.made < MaxTransports
  /\ TryConnect(hub)

Close ==
  /\ "close" \in Faults /\ ~hub.terminating
  /\ hub.handoff # NoHandoff => "close_in_handoff" \in Faults
  /\ LET closing == [hub EXCEPT !.terminating = TRUE, !.reconnectTimeout = FALSE]
     IN hub' = IF ~Busy(hub, hub.rtcTransport) THEN closing
               ELSE [TransportClose(closing, hub.rtcTransport) EXCEPT !.rtcTransport = None]
  /\ UNCHANGED failures

-----------------------------------------------------------------------------
(* What happens to a session *)

\* connect() of the session resolves: the transport waits for "connected", with a timer.
Authenticated(s) ==
  /\ hub.sessions[s].pending
  /\ LET t == hub.sessions[s].of
         called == [hub EXCEPT !.sessions[s] = Settled(@, "calling")]
     IN hub' = IF hub.sessions[s].role # "primary" \/ hub.transports[t].connected THEN called
               ELSE [called EXCEPT !.transports[t].waiters = @ + 1]
  /\ UNCHANGED failures

Rejected(s) ==
  /\ hub.sessions[s].pending
  /\ IF hub.sessions[s].phase = "connecting" THEN Fail ELSE UNCHANGED failures
  /\ LET over == [hub EXCEPT !.sessions[s] = Settled(@, "down")]
     IN hub' = IF s = hub.handoff.new THEN HandoffFails(over) ELSE ConnectFailed(over, hub.sessions[s].of)

\* "connected": the command channel of the session is open.
ChannelOpens(s) ==
  /\ hub.sessions[s].phase = "calling"
  /\ LET t == hub.sessions[s].of
         open == [hub EXCEPT !.sessions[s].phase = "open"]
     IN hub' = IF s = hub.handoff.new THEN HandoffSucceeds(open)
               ELSE IF hub.transports[t].connected THEN open
               ELSE OnRtcConnect([open EXCEPT !.transports[t] =
                                    [@ EXCEPT !.connecting = FALSE, !.connected = TRUE, !.waiters = 0]])
  /\ UNCHANGED failures

\* "error": only who waits for the session is concerned.
SessionError(s) ==
  /\ hub.sessions[s].phase = "calling"
  /\ Fail
  /\ LET t == hub.sessions[s].of
     IN \/ s = hub.handoff.new /\ hub' = HandoffFails(hub)
        \/ /\ s # hub.handoff.new /\ hub.transports[t].waiters > 0
           /\ hub' = [ConnectFailed(hub, t) EXCEPT !.transports[t].waiters = 0]

\* "close": the signaling or the peer connection of the session is gone.  Not of a new session whose
\* connect() is pending: it would reject a promise handoffConnect() does not wait for yet, which
\* ends the process.
SessionDown(s) ==
  /\ \/ hub.sessions[s].phase = "open"
     \/ hub.sessions[s].phase = "calling" /\ s = hub.handoff.new
     \/ /\ hub.sessions[s].phase \in {"connecting", "calling"} /\ s # hub.handoff.new
        /\ "down_in_attempt" \in Faults
  /\ s = hub.handoff.old => "down_in_handoff" \in Faults
  /\ Fail
  /\ LET t == hub.sessions[s].of
         down == [hub EXCEPT !.sessions[s].phase = "down"]
     IN hub' = IF s = hub.handoff.new THEN HandoffFails(down)
               ELSE IF hub.transports[t].session # s THEN down
               ELSE IF hub.transports[t].connected THEN OnRtcDisconnect(Reset(down, t))
               ELSE Reset(down, t)

-----------------------------------------------------------------------------
(* Timers *)

\* connectTimeoutMs of connect(); a call to the hub takes that long only if something is wrong.
ConnectTimer(t) ==
  /\ hub.transports[t].waiters > 0
  /\ LET s == hub.transports[t].session
     IN IF s # None /\ hub.sessions[s].phase \in {"connecting", "calling"} THEN Fail ELSE UNCHANGED failures
  /\ hub' = ConnectFailed([hub EXCEPT !.transports[t].waiters = @ - 1], t)

\* connectTimeoutMs of handoffConnect(), once connect() of the new session has settled (see SessionDown).
HandoffTimer ==
  /\ hub.handoff # NoHandoff /\ ~hub.sessions[hub.handoff.new].pending
  /\ Fail
  /\ hub' = HandoffFails(hub)

\* After some failures the hub is woken first, which takes a while.
ReconnectTimer ==
  /\ hub.reconnectTimeout
  /\ LET fired == [hub EXCEPT !.reconnectTimeout = FALSE]
     IN \/ TryConnect(fired)
        \/ hub' = [fired EXCEPT !.waking = @ + 1] /\ UNCHANGED failures

Woken ==
  /\ hub.waking > 0
  /\ LET awake == [hub EXCEPT !.waking = @ - 1]
     IN IF hub.terminating THEN hub' = awake /\ UNCHANGED failures ELSE TryConnect(awake)

\* forceStaleRtcReconnect: the hub answered none of the last polls.
PollWatchdog ==
  /\ Connected(hub)
  /\ hub.handoff # NoHandoff => "down_in_handoff" \in Faults
  /\ Fail
  /\ hub' = HardReconnect(hub)

\* The timers of refresh and probe: close() has stopped them or they find nothing to do.
\* The refresh is due minutes after the last attempt, which has been over by then.
RefreshTimer ==
  /\ hub.proactive = "refresh" /\ hub.handoff = NoHandoff
  /\ Nameable
  /\ hub' = AttemptHandoff([hub EXCEPT !.proactive = "none"], 0)
  /\ UNCHANGED failures

ProbeTimer ==
  /\ hub.proactive \in {"probe", "reprobe"} /\ hub.handoff = NoHandoff
  /\ LET fired == [hub EXCEPT !.proactive = "none"]
     IN \/ /\ Connected(hub) /\ CommandChannelReady(hub) /\ Nameable
           /\ hub' = IF hub.proactive = "probe" /\ hub.attempt = 1
                        THEN [hub EXCEPT !.proactive = "backoff"] ELSE AttemptHandoff(fired, 1)
           /\ UNCHANGED failures
        \/ hub' = HardReconnect(fired) /\ Fail

BackoffTimer ==
  /\ hub.proactive = "backoff"
  /\ hub' = ProbeExisting(hub, "reprobe")
  /\ UNCHANGED failures

Next ==
  \/ Connect \/ Close
  \/ \E s \in Sessions : Authenticated(s) \/ Rejected(s) \/ ChannelOpens(s) \/ SessionError(s) \/ SessionDown(s)
  \/ \E t \in Transports : ConnectTimer(t)
  \/ HandoffTimer \/ ReconnectTimer \/ Woken \/ PollWatchdog
  \/ RefreshTimer \/ ProbeTimer \/ BackoffTimer

Spec == Init /\ [][Next]_vars

\* Promises settle and timers fire.
Fairness ==
  /\ \A s \in Sessions : WF_vars(Authenticated(s) \/ Rejected(s)) /\ WF_vars(ChannelOpens(s))
  /\ \A t \in Transports : WF_vars(ConnectTimer(t))
  /\ WF_vars(ReconnectTimer)
  /\ WF_vars(Woken)

LiveSpec == Spec /\ Fairness

-----------------------------------------------------------------------------
(* Properties *)

TypeOK ==
  /\ hub.sessions \in [Sessions -> [phase : {"free", "connecting", "calling", "open", "down", "closed"},
                                    pending : BOOLEAN, of : Transports \cup {None},
                                    role : {"none", "primary", "handoff"}]]
  /\ hub.transports \in [Transports -> [session : Sessions \cup {None}, connected : BOOLEAN,
                                        connecting : BOOLEAN, handoffInProgress : BOOLEAN,
                                        handler : BOOLEAN, waiters : Nat]]
  /\ hub.handoff \in [transport : Transports \cup {None}, old : Sessions \cup {None}, new : Sessions \cup {None}]
  /\ hub.made \in 0 .. MaxTransports /\ hub.rtcTransport \in 0 .. hub.made
  /\ hub.reconnectTimeout \in BOOLEAN /\ hub.waking \in Nat
  /\ hub.proactive \in {"none", "refresh", "probe", "backoff", "reprobe"} /\ hub.attempt \in {0, 1}
  /\ hub.terminating \in BOOLEAN /\ hub.handlerWired \in BOOLEAN /\ hub.commandTransport \in BOOLEAN
  /\ failures \in 0 .. MaxFailures

\* A transport that calls itself connected has an open session.
ConnectedIsOpen ==
  \A t \in Transports : hub.transports[t].connected =>
    /\ hub.transports[t].session # None
    /\ hub.sessions[hub.transports[t].session].phase = "open"

\* The hub has one slot: no session stays open that nobody will close.
NoLeakedSession ==
  \A s \in Sessions : hub.sessions[s].phase = "open" =>
    hub.rtcTransport # None /\ s = hub.transports[hub.rtcTransport].session

\* A connect() of the transport has not returned.
Attempting(h) ==
  /\ h.rtcTransport # None
  /\ \/ h.transports[h.rtcTransport].waiters > 0
     \/ \E s \in Sessions : h.sessions[s].pending /\ h.sessions[s].role = "primary"

\* A station that is not connected and was not closed has a timer, a wake-up or a connect() going on
\* that will try again: a failure never leaves it alone.
NotStranded ==
  hub.made > 0 /\ ~hub.terminating /\ ~Connected(hub) =>
    hub.reconnectTimeout \/ hub.waking > 0 \/ Attempting(hub)

\* The hub falls silent some minutes into a session: while a station is connected the next refresh,
\* probe or handoff is under way.
RefreshPlanned == Connected(hub) => hub.proactive # "none" \/ hub.handoff # NoHandoff

\* A connected station sends its commands over WebRTC and hears the hub's answers.
CommandsWired == Connected(hub) => hub.commandTransport /\ hub.transports[hub.rtcTransport].handler

\* A station that takes itself for connected can send: the transport has an open session, the
\* commands go to it and their answers are heard, after any handoff, failure and close.
ConnectedWorks == ConnectedIsOpen /\ CommandsWired

\* A handoff that succeeds leaves the transport connected ("no disconnect gap").
HandoffKeepsConnected ==
  [][\A s \in Sessions : ChannelOpens(s) /\ s = hub.handoff.new /\ ~hub.terminating => Connected(hub')]_vars

\* A station that began to connect is connected in the end, or closed.
Reconnects == hub.made > 0 ~> Connected(hub) \/ hub.terminating
=============================================================================
