----------------------------- MODULE P2PStreams -----------------------------
(*
 The livestream and the download of a P2P session (src/src/p2p/session.ts):
 when a stream is marked as running, what ends it, what the application is told
 of it, and when the connection of a battery device is closed.

 A stream is marked by the command that starts it, after the await of its first
 sending; it ends by a command, by the camera, by a timer or with the
 connection.  endStream replaces the state of the stream and with it the handles
 of timers that are still armed: such a timer is late and acts on the next
 stream.  The session is one record and its methods are operators from session
 to session.

 The way of a command is P2PCommands in detail; here one command at a time waits
 for its acknowledgement, is answered or given up.  A sending completes before
 the network answers it or connects the session anew.  Talkback is left out.
*)
EXTENDS Integers, Sequences, FiniteSetsExt

CONSTANTS
  Channels,      \* cameras of the station
  EnergySaving,  \* the station is a battery device
  Bounds         \* bounds of a behaviour: the streams asked for, how many calls of the
                 \* application, messages of the camera and lost connections

NoChannel == -1
Types == {"VIDEO", "BINARY"}

ASSUME ChannelAssumption == Channels \subseteq Nat /\ Channels # {}
ASSUME BoundAssumption ==
  /\ EnergySaving \in BOOLEAN
  /\ Bounds \subseteq [types : SUBSET Types, requests : Nat, packets : Nat, faults : Nat]

VARIABLES
  session,  \* the session, and told: the stream the application takes to be running
  left      \* what is left of the bounds

vars == <<session, left>>

-----------------------------------------------------------------------------
(* The state of a session *)

\* data: the timer of waitForStreamData, which may send a stop command.  gap and
\* codec: waitForSeqNoTimeout and waitForAudioData.  stray and revived tell how the
\* stream was marked: by a command of a lost connection, by the camera.
NoStream ==
  [streaming |-> FALSE, channel |-> NoChannel, started |-> FALSE, video |-> FALSE, audio |-> FALSE,
   invalid |-> FALSE, data |-> "off", gap |-> FALSE, codec |-> FALSE,
   stray |-> FALSE, revived |-> FALSE]
Timers == {"quiet", "stop", "gap", "codec"}

Count(condition) == IF condition THEN 1 ELSE 0
IsStreaming(s, t, c) == s.streams[t].channel = c /\ s.streams[t].streaming
Unacknowledged(s) == \E m \in s.flight : m.stage \in {"sending", "sent"}
NewId(s) == Min((0 .. Cardinality(s.flight)) \ {m.id : m \in s.flight})

\* initializeMessageState and initializeStream: the old handles are gone, the timers are not.
Replaced(s, t) ==
  LET old == s.streams[t]
      armed == [quiet |-> old.data = "quiet", stop |-> old.data = "stop",
                gap |-> old.gap, codec |-> old.codec]
  IN  [s EXCEPT !.streams[t] = NoStream,
                !.late[t] = [k \in Timers |-> @[k] + Count(armed[k])]]

closeEnergySavingDevice(s) ==
  IF /\ EnergySaving /\ s.queue = <<>> /\ ~Unacknowledged(s)
     /\ \A t \in Types : ~s.streams[t].streaming
  THEN [s EXCEPT !.closing = TRUE] ELSE s

\* Mutant: a command does not wait for the acknowledgement of the one before it.
sendWithoutWaiting(s) ==
  closeEnergySavingDevice(
    IF s.connected /\ s.queue # <<>>
    THEN [s EXCEPT !.queue = Tail(@),
                   !.flight = @ \cup {[id |-> NewId(s), kind |-> Head(s.queue).kind,
                                       channel |-> Head(s.queue).channel, stage |-> "sending"]}]
    ELSE s)
sendQueuedMessage(s) ==
  closeEnergySavingDevice(
    IF s.connected /\ s.queue # <<>> /\ ~Unacknowledged(s)
    THEN [s EXCEPT !.queue = Tail(@),
                   !.flight = @ \cup {[id |-> NewId(s), kind |-> Head(s.queue).kind,
                                       channel |-> Head(s.queue).channel, stage |-> "sending"]}]
    ELSE s)

\* Mutant: the timer that closes the connection is left armed.
sendWhileClosing(s, kind, c) ==
  sendQueuedMessage([s EXCEPT !.queue = Append(@, [kind |-> kind, channel |-> c])])
sendCommand(s, kind, c) ==
  sendQueuedMessage([s EXCEPT !.queue = Append(@, [kind |-> kind, channel |-> c]),
                              !.closing = FALSE])

emitStreamStartEvent(s, t) ==
  [s EXCEPT !.streams[t].started = TRUE, !.told[t] = s.streams[t].channel, !.silent[t] = FALSE]

\* The stop event is left out for a stream found invalid: silent.
endStream(s, t, stop) ==
  LET old == s.streams[t]
      asked == IF stop THEN sendCommand(s, IF t = "VIDEO" THEN "stop" ELSE "cancel", old.channel) ELSE s
      ended == [asked EXCEPT !.streams[t].data = "off",
                             !.told[t] = IF old.started /\ ~old.invalid THEN NoChannel ELSE @,
                             !.silent[t] = @ \/ (old.started /\ old.invalid)]
  IN  IF old.streaming THEN closeEnergySavingDevice(Replaced(ended, t)) ELSE s

\* The part of _sendCommand after the await of the first sending.
\* Mutant: the data timer is armed by the result of the command only.
StreamingUnwatched(s, t, c, stray) ==
  LET free == IF s.streams[t].streaming /\ s.streams[t].channel # c THEN endStream(s, t, FALSE) ELSE s
  IN  [free EXCEPT !.streams[t].streaming = TRUE, !.streams[t].channel = c, !.streams[t].stray = stray]
\* Mutant: the stream of another channel goes on under the new channel.
StreamingOnTop(s, t, c, stray) ==
  [s EXCEPT !.streams[t].streaming = TRUE, !.streams[t].channel = c,
            !.streams[t].data = "quiet", !.streams[t].stray = stray]
Streaming(s, t, c, stray) ==
  LET free == IF s.streams[t].streaming /\ s.streams[t].channel # c THEN endStream(s, t, FALSE) ELSE s
  IN  [free EXCEPT !.streams[t].streaming = TRUE, !.streams[t].channel = c,
                   !.streams[t].data = "quiet", !.streams[t].stray = stray]
\* Mutant: a stop command is left to the camera.
AfterSendingNoStop(s, m) ==
  CASE m.kind = "start" -> Streaming(s, "VIDEO", m.channel, m.stage = "lost")
    [] m.kind = "download" -> Streaming(s, "BINARY", m.channel, m.stage = "lost")
    [] m.kind = "cancel" -> endStream(s, "BINARY", FALSE)
    [] OTHER -> s
AfterSending(s, m) ==
  CASE m.kind = "start" -> Streaming(s, "VIDEO", m.channel, m.stage = "lost")
    [] m.kind = "download" -> Streaming(s, "BINARY", m.channel, m.stage = "lost")
    [] m.kind = "stop" -> endStream(s, "VIDEO", FALSE)
    [] m.kind = "cancel" -> endStream(s, "BINARY", FALSE)

\* Everything is cleared but the queue; a sending that is awaited is not recalled.
Disconnected(s) ==
  LET open == [s EXCEPT !.closing = FALSE]
      ended == endStream(endStream(open, "VIDEO", FALSE), "BINARY", FALSE)
      gone == [ended EXCEPT !.connected = FALSE,
                            !.flight = {[m EXCEPT !.stage = "lost"] :
                                          m \in {k \in @ : k.stage \in {"sending", "lost"}}}]
  IN  Replaced(Replaced(gone, "VIDEO"), "BINARY")

-----------------------------------------------------------------------------
(* The timers of a stream, of its present state or late *)

GapEnds(s, t) ==
  LET e == endStream(s, t, TRUE)
  IN  [e EXCEPT !.streams[t].gap = FALSE, !.late[t]["gap"] = @ + Count(e.streams[t].gap)]
CodecEnds(s, t) ==
  LET old == s.streams[t]
      silent == [s EXCEPT !.streams[t].codec = FALSE, !.streams[t].audio = TRUE,
                          !.late[t]["codec"] = @ + Count(old.codec)]
  IN  IF old.video /\ ~old.started THEN emitStreamStartEvent(silent, t) ELSE silent

DataTimeout(t) ==
  /\ session.streams[t].data # "off"
  /\ session' = endStream([session EXCEPT !.streams[t].data = "off"], t,
                          session.streams[t].data = "stop")
  /\ UNCHANGED left
GapTimeout(t) ==
  /\ session.streams[t].gap
  /\ session' = GapEnds([session EXCEPT !.streams[t].gap = FALSE], t)
  /\ UNCHANGED left
CodecTimeout(t) ==
  /\ session.streams[t].codec
  /\ session' = CodecEnds([session EXCEPT !.streams[t].codec = FALSE], t)
  /\ UNCHANGED left
LateTimeout(t, k) ==
  /\ session.late[t][k] > 0
  /\ LET s == [session EXCEPT !.late[t][k] = @ - 1]
     IN  session' = CASE k = "gap" -> GapEnds(s, t)
                      [] k = "codec" -> CodecEnds(s, t)
                      [] OTHER -> endStream(s, t, k = "stop")
  /\ UNCHANGED left

-----------------------------------------------------------------------------
(* The application *)

Asks(t) == /\ t \in left.types /\ left.requests > 0
           /\ left' = [left EXCEPT !.requests = @ - 1]

StartLivestream(c) ==
  /\ Asks("VIDEO") /\ ~IsStreaming(session, "VIDEO", c)
  /\ session' = sendCommand(session, "start", c)
StopLivestream(c) ==
  /\ Asks("VIDEO") /\ session.connected /\ IsStreaming(session, "VIDEO", c)
  /\ session' = sendCommand(session, "stop", c)
StartDownload(c) ==
  /\ Asks("BINARY") /\ ~IsStreaming(session, "BINARY", c)
  /\ session' = sendCommand(session, "download", c)
CancelDownload(c) ==
  /\ Asks("BINARY") /\ session.connected /\ IsStreaming(session, "BINARY", c)
  /\ session' = sendCommand(session, "cancel", c)

-----------------------------------------------------------------------------
(* Commands on their way *)

Without(s, m) == [s EXCEPT !.flight = @ \ {m}]

Resumes(m) ==
  /\ m.stage \in {"sending", "lost"}
  /\ session' = AfterSending(
       IF m.stage = "lost" THEN Without(session, m)
       ELSE [session EXCEPT !.flight = (@ \ {m}) \cup {[m EXCEPT !.stage = "sent"]}], m)
  /\ UNCHANGED left

Acknowledged(m) ==
  /\ session.connected /\ m.stage = "sent"
  /\ session' = sendQueuedMessage(
       [session EXCEPT !.flight = (@ \ {m}) \cup {[m EXCEPT !.stage = "acknowledged"]}])
  /\ UNCHANGED left

\* The result of a start command arms the data timer once more, whatever the result is.
Result(m) ==
  /\ session.connected /\ m.stage \in {"sent", "acknowledged"}
  /\ LET s == sendQueuedMessage([Without(session, m) EXCEPT !.closing = FALSE])
     IN  session' = CASE m.kind = "start" -> [s EXCEPT !.streams["VIDEO"].data = "stop"]
                      [] m.kind = "download" -> [s EXCEPT !.streams["BINARY"].data = "stop"]
                      [] OTHER -> s
  /\ UNCHANGED left

ResultMissing(m) ==
  /\ m.stage = "acknowledged"
  /\ session' = sendQueuedMessage(Without(session, m))
  /\ UNCHANGED left

GivenUp(m) ==
  /\ m.stage = "sent"
  /\ LET t == IF m.kind = "start" THEN "VIDEO" ELSE "BINARY"
         ended == IF m.kind \in {"start", "download"} /\ IsStreaming(session, t, m.channel)
                  THEN endStream(session, t, FALSE) ELSE session
         s == sendQueuedMessage(Without(ended, m))
     IN  session' = closeEnergySavingDevice([s EXCEPT !.closing = FALSE])
  /\ UNCHANGED left

-----------------------------------------------------------------------------
(* The camera and the connection *)

Receives(t) == /\ t \in left.types /\ session.connected /\ left.packets > 0
               /\ left' = [left EXCEPT !.packets = @ - 1]

\* A frame in sequence; it is looked at while its stream runs and has not been found invalid.
Frame(t) ==
  LET old == session.streams[t]
      s == [session EXCEPT !.streams[t].gap = FALSE]
      heard == [s EXCEPT !.streams[t].data = "stop"]
  IN  /\ Receives(t)
      /\ IF ~old.streaming \/ old.invalid THEN session' = s
         ELSE \/ LET seen == [heard EXCEPT !.streams[t].video = TRUE,
                                           !.streams[t].codec = @ \/ (~old.video /\ ~old.audio)]
                 IN  session' = IF old.audio /\ ~old.started
                                THEN emitStreamStartEvent(seen, t) ELSE seen
              \/ LET both == [heard EXCEPT !.streams[t].codec = FALSE, !.streams[t].audio = TRUE]
                 IN  session' = IF old.video /\ ~old.started
                                THEN emitStreamStartEvent(both, t) ELSE both

\* The key of a picture cannot be decrypted: the stream is discarded and the
\* livestream of its channel stopped, by onErrorStationLivestream.
UndecryptableFrame(t) ==
  LET old == session.streams[t]
      s == [session EXCEPT !.streams[t].gap = FALSE, !.streams[t].data = "stop",
                           !.streams[t].invalid = TRUE]
  IN  /\ Receives(t) /\ old.streaming /\ ~old.invalid
      /\ session' = IF IsStreaming(s, "VIDEO", old.channel)
                    THEN sendCommand(s, "stop", old.channel) ELSE s

FrameOutOfSequence(t) ==
  /\ Receives(t)
  /\ session' = [session EXCEPT !.streams[t].gap = TRUE]

\* CMD_CONVERT_MP4_OK, with the channel of the download or none, and CMD_DOWNLOAD_FINISH.
Converted(c) ==
  LET old == session.streams["BINARY"]
  IN  /\ Receives("BINARY") /\ (old.streaming => c \in {old.channel, NoChannel})
      /\ session' = [session EXCEPT !.streams["BINARY"].streaming = TRUE,
                                    !.streams["BINARY"].channel = IF c = NoChannel THEN @ ELSE c,
                                    !.streams["BINARY"].revived = @ \/ ~old.streaming]
Finished == Receives("BINARY") /\ session' = endStream(session, "BINARY", FALSE)

Connects ==
  /\ ~session.connected /\ \A m \in session.flight : m.stage # "lost"
  /\ session' = sendQueuedMessage([session EXCEPT !.connected = TRUE])
  /\ UNCHANGED left
\* The keepalive of a battery device, and its acknowledgement.
KeepsAlive ==
  /\ EnergySaving /\ session.connected
  /\ session' = sendQueuedMessage(session)
  /\ UNCHANGED left
ConnectionLost ==
  /\ left.faults > 0 /\ left' = [left EXCEPT !.faults = @ - 1]
  /\ session' = Disconnected(session)
BatterySaved ==
  /\ session.closing
  /\ session' = Disconnected(session)
  /\ UNCHANGED left

-----------------------------------------------------------------------------

Init ==
  /\ session = [connected |-> FALSE, queue |-> <<>>, flight |-> {}, closing |-> FALSE,
                streams |-> [t \in Types |-> NoStream],
                late |-> [t \in Types |-> [k \in Timers |-> 0]],
                told |-> [t \in Types |-> NoChannel], silent |-> [t \in Types |-> FALSE]]
  /\ left \in Bounds

Answered(m) == Acknowledged(m) \/ Result(m) \/ GivenUp(m)
Next ==
  \/ \E c \in Channels :
       StartLivestream(c) \/ StopLivestream(c) \/ StartDownload(c) \/ CancelDownload(c)
  \/ \E m \in session.flight : Resumes(m) \/ Answered(m) \/ ResultMissing(m)
  \/ \E t \in Types : DataTimeout(t) \/ GapTimeout(t) \/ CodecTimeout(t)
                      \/ Frame(t) \/ UndecryptableFrame(t) \/ FrameOutOfSequence(t)
  \/ \E t \in Types, k \in Timers : LateTimeout(t, k)
  \/ \E c \in Channels \cup {NoChannel} : Converted(c)
  \/ Finished \/ Connects \/ KeepsAlive \/ ConnectionLost \/ BatterySaved

\* A sending completes, and a command is acknowledged, answered or given up.
Spec ==
  /\ Init /\ [][Next]_vars
  /\ WF_vars(\E m \in session.flight : Resumes(m))
  /\ WF_vars(\E m \in session.flight : Answered(m))

-----------------------------------------------------------------------------
(* Properties *)

Command == [id : Nat, kind : {"start", "stop", "download", "cancel"}, channel : Channels \cup {NoChannel},
            stage : {"sending", "sent", "acknowledged", "lost"}]
Stream ==
  [streaming : BOOLEAN, channel : Channels \cup {NoChannel}, started : BOOLEAN, video : BOOLEAN,
   audio : BOOLEAN, invalid : BOOLEAN, data : {"off", "quiet", "stop"}, gap : BOOLEAN, codec : BOOLEAN,
   stray : BOOLEAN, revived : BOOLEAN]

\* The types of the session, and that one command at a time waits for its acknowledgement.
TypeOK ==
  /\ session.connected \in BOOLEAN /\ session.closing \in BOOLEAN
  /\ session.queue \in Seq([kind : {"start", "stop", "download", "cancel"},
                            channel : Channels \cup {NoChannel}])
  /\ session.flight \subseteq Command
  /\ \A m, n \in session.flight :
       m.stage \in {"sending", "sent"} /\ n.stage \in {"sending", "sent"} => m = n
  /\ session.streams \in [Types -> Stream]
  /\ session.late \in [Types -> [Timers -> Nat]]
  /\ session.told \in [Types -> Channels \cup {NoChannel}]
  /\ session.silent \in [Types -> BOOLEAN]

\* A stream that is marked as running has its data timer armed, so that a camera
\* that sends nothing cannot keep it (and a battery device's connection) open; all
\* but a download marked by the camera.  waitForStreamData.
Watched ==
  \A t \in Types :
    session.streams[t].streaming => session.streams[t].data # "off" \/ session.streams[t].revived

\* An application that was told of a stream is told of its end, on the same channel,
\* however it ends: what it takes to be running is running.  The exception is a
\* stream found undecryptable, whose stop event endStream leaves out.
EndIsTold ==
  \A t \in Types :
    session.told[t] # NoChannel =>
      \/ session.streams[t].started /\ IsStreaming(session, t, session.told[t])
      \/ session.silent[t]

\* The connection of a battery device is not about to be closed while a stream
\* runs; but for a download marked by the camera, which does not stop the timer.
\* closeEnergySavingDevice and the calls of _clearESDDisconnectTimeout.
BatteryCloseWaits ==
  session.closing =>
    \A t \in Types :
      session.streams[t].streaming => session.streams[t].revived

\* A stop command that is queued or being sent ends the livestream, even when the
\* camera never answers it; a stream marked late is left to its data timer.
StopPending ==
  \/ \E i \in DOMAIN session.queue : session.queue[i].kind = "stop"
  \/ \E m \in session.flight : m.kind = "stop" /\ m.stage = "sending"
StopIsObeyed ==
  StopPending ~> (~session.streams["VIDEO"].streaming \/ session.streams["VIDEO"].stray)
=============================================================================
