-------------------------- MODULE P2PStreamsProofs --------------------------
(***************************************************************************)
(* Proofs about the streams of a P2P session, for every set of channels    *)
(* and every bound: type correctness, that every stream is watched by its  *)
(* data timer, that the application is told of the end of every stream,    *)
(* and that the connection of a battery device is not about to be closed   *)
(* while a stream runs.                                                    *)
(*                                                                         *)
(* The methods of the session are composed, so each has a lemma that says  *)
(* what it keeps of Sound, the inductive invariant, and which fields it    *)
(* leaves alone.  Watched is not part of Sound: a handler may break it     *)
(* between two methods, and its proof looks at whole steps.                *)
(***************************************************************************)
EXTENDS P2PStreams, FiniteSetTheorems, WellFoundedInduction, TLAPS

-----------------------------------------------------------------------------
(* The inductive invariant *)

Sent == {"start", "stop", "download", "cancel"}
Queued == [kind : Sent, channel : Channels \cup {NoChannel}]
Session ==
  [connected : BOOLEAN, queue : Seq(Queued), flight : SUBSET Command, closing : BOOLEAN,
   streams : [Types -> Stream], late : [Types -> [Timers -> Nat]],
   told : [Types -> Channels \cup {NoChannel}], silent : [Types -> BOOLEAN]]

\* One command at a time waits for its acknowledgement.
OneAtATime(s) ==
  /\ IsFiniteSet(s.flight)
  /\ \A m, n \in s.flight :
       m.stage \in {"sending", "sent"} /\ n.stage \in {"sending", "sent"} => m = n

\* Frames are looked at while a stream runs: a late timer finds no picture of a stream that ended.
VideoRuns(s) == \A t \in Types : s.streams[t].video => s.streams[t].streaming

Over(s, t) == s.told[t] = NoChannel \/ s.silent[t]
ToldOf(s) ==
  \A t \in Types :
    Over(s, t) \/ (s.streams[t].started /\ IsStreaming(s, t, s.told[t]))

\* The connection is closed when there is nothing to send: no start command is on its way that
\* would mark a stream after its await.
ClosingIdle(s) ==
  s.closing => /\ s.queue = <<>> /\ \A m \in s.flight : m.stage # "sending"
               /\ \A t \in Types : s.streams[t].streaming => s.streams[t].revived

\* While a sending of a lost connection is awaited the session is as _disconnected left it.
LostAlone(s) ==
  \A m \in s.flight : m.stage = "lost" =>
    /\ ~s.connected /\ ~s.closing /\ s.flight = {m}
    /\ \A t \in Types : ~s.streams[t].streaming

Sound(s) ==
  /\ s \in Session
  /\ OneAtATime(s) /\ VideoRuns(s) /\ ToldOf(s) /\ ClosingIdle(s) /\ LostAlone(s)

WatchedStream(s, t) == s.streams[t].streaming => s.streams[t].data # "off" \/ s.streams[t].revived

NoneLost(s) == \A m \in s.flight : m.stage # "lost"

-----------------------------------------------------------------------------
(* Sending *)

\* What sendQueuedMessage adds to the commands on their way.
Sending(s) == [id |-> NewId(s), kind |-> Head(s.queue).kind, channel |-> Head(s.queue).channel,
               stage |-> "sending"]

\* The methods that send leave streams and what is told of them alone, and lose nothing.
SendsOnly(s, r) ==
  /\ r.streams = s.streams /\ r.late = s.late /\ r.told = s.told /\ r.silent = s.silent
  /\ r.connected = s.connected
  /\ \A m \in r.flight : m \in s.flight \/ m.stage = "sending"

\* The identity of a new command is a number that no command on its way has.
LEMMA NewIdIsNew ==
  ASSUME NEW s, IsFiniteSet(s.flight)
  PROVE  NewId(s) \in Nat
<1>. DEFINE ids == {m.id : m \in s.flight}
            n == Cardinality(s.flight)
            f == [m \in s.flight |-> m.id]
            free == (0 .. n) \ ids
<1>1. n \in Nat
  BY FS_CardinalityType
<1>2. f \in Surjection(s.flight, ids)
  BY DEF Surjection
<1>3. IsFiniteSet(ids) /\ Cardinality(ids) <= n
  BY <1>2, FS_Surjection
<1>. HIDE DEF ids, n
<1>4. IsFiniteSet(0 .. n) /\ Cardinality(0 .. n) = n + 1
  <2>1. 0 \in Int /\ n \in Int /\ ~ (0 > n) /\ n - 0 + 1 = n + 1
    BY <1>1
  <2>. QED BY <2>1, FS_Interval, Zenon
<1>5. free # {}
  <2>1. SUFFICES ASSUME (0 .. n) \subseteq ids PROVE FALSE
    OBVIOUS
  <2>2. Cardinality(0 .. n) <= Cardinality(ids)
    BY <1>3, <2>1, FS_Subset
  <2>3. Cardinality(ids) \in Nat
    BY <1>3, FS_CardinalityType
  <2>. QED BY <1>1, <1>3, <1>4, <2>2, <2>3
<1>6. free \subseteq Nat
  BY <1>1
<1>7. \E x \in free : \A y \in free : x <= y
  <2>1. PICK x \in free : \A y \in free : ~ (<<y, x>> \in OpToRel(<, Nat))
    BY <1>5, <1>6, WFMin, NatLessThanWellFounded, Zenon
  <2>2. \A y \in free : ~ (y < x)
    BY <1>6, <2>1 DEF OpToRel
  <2>. QED BY <1>6, <2>2
<1>8. Min(free) \in free
  BY <1>7, Zenon DEF Min
<1>9. NewId(s) = Min(free)
  BY DEF NewId, ids, n
<1>. QED BY <1>6, <1>8, <1>9

\* closeEnergySavingDevice touches nothing but closing, and sets it where nothing is left to do.
LEMMA CloseSound ==
  ASSUME NEW s, Sound(s), NoneLost(s) \/ s.queue # <<>>
  PROVE  LET r == closeEnergySavingDevice(s)
         IN  /\ Sound(r) /\ SendsOnly(s, r) /\ r.flight = s.flight /\ r.queue = s.queue
             /\ r.closing => s.closing \/ (s.queue = <<>> /\ ~Unacknowledged(s))
<1>. DEFINE r == [s EXCEPT !.closing = TRUE]
<1>1. CASE closeEnergySavingDevice(s) = s
  BY <1>1 DEF SendsOnly
<1>2. CASE closeEnergySavingDevice(s) # s
  <2>1. /\ closeEnergySavingDevice(s) = r /\ s.queue = <<>> /\ ~Unacknowledged(s)
        /\ \A t \in Types : ~s.streams[t].streaming
    BY <1>2, Zenon DEF closeEnergySavingDevice
  <2>2. s \in Session /\ NoneLost(s)
    BY <2>1 DEF Sound
  <2>3. /\ r \in Session /\ r.flight = s.flight /\ r.queue = s.queue /\ r.streams = s.streams
        /\ r.late = s.late /\ r.told = s.told /\ r.silent = s.silent /\ r.connected = s.connected
    BY <2>2 DEF Session
  <2>. HIDE DEF r
  <2>4. OneAtATime(r) /\ VideoRuns(r) /\ ToldOf(r)
    BY <2>3 DEF Sound, OneAtATime, VideoRuns, ToldOf, Over, IsStreaming
  <2>5. ClosingIdle(r) /\ LostAlone(r)
    BY <2>1, <2>2, <2>3 DEF ClosingIdle, LostAlone, NoneLost, Unacknowledged
  <2>6. Sound(r) /\ SendsOnly(s, r)
    BY <2>3, <2>4, <2>5 DEF Sound, SendsOnly
  <2>. QED BY <2>1, <2>3, <2>6
<1>. QED BY <1>1, <1>2

LEMMA SendQueuedMessageSound ==
  ASSUME NEW s, Sound(s), NoneLost(s) \/ s.queue # <<>>
  PROVE  Sound(sendQueuedMessage(s)) /\ SendsOnly(s, sendQueuedMessage(s))
<1>. DEFINE head == [s EXCEPT !.queue = Tail(@), !.flight = @ \cup {Sending(s)}]
            next == IF s.connected /\ s.queue # <<>> /\ ~Unacknowledged(s) THEN head ELSE s
<1>1. sendQueuedMessage(s) = closeEnergySavingDevice(next)
  BY Zenon DEF sendQueuedMessage, Sending
<1>2. s \in Session
  BY DEF Sound
<1>3. ASSUME s.connected, s.queue # <<>>, ~Unacknowledged(s)
      PROVE  Sound(head) /\ SendsOnly(s, head) /\ NoneLost(head)
  <2>1. Head(s.queue) \in Queued /\ Tail(s.queue) \in Seq(Queued)
    BY <1>2, <1>3 DEF Session
  <2>2. NewId(s) \in Nat
    BY NewIdIsNew DEF Sound, OneAtATime
  <2>3. Sending(s) \in Command
    BY <2>1, <2>2 DEF Sending, Queued, Command, Sent
  <2>4. IsFiniteSet(s.flight \cup {Sending(s)})
    BY FS_AddElement DEF Sound, OneAtATime
  <2>5. /\ head \in Session /\ head.flight = s.flight \cup {Sending(s)} /\ head.queue = Tail(s.queue)
        /\ head.streams = s.streams /\ head.late = s.late /\ head.told = s.told
        /\ head.silent = s.silent /\ head.closing = s.closing /\ head.connected = s.connected
    BY <1>2, <2>1, <2>3 DEF Session
  <2>6. Sending(s).stage = "sending"
    BY DEF Sending
  <2>7. NoneLost(s) /\ ~s.closing
    BY <1>3 DEF Sound, LostAlone, NoneLost, ClosingIdle
  <2>. HIDE DEF head
  <2>8. OneAtATime(head)
    BY <1>3, <2>4, <2>5 DEF Sound, OneAtATime, Unacknowledged
  <2>9. VideoRuns(head) /\ ToldOf(head)
    BY <2>5 DEF Sound, VideoRuns, ToldOf, Over, IsStreaming
  <2>10. ClosingIdle(head) /\ NoneLost(head) /\ LostAlone(head)
    BY <2>5, <2>6, <2>7 DEF ClosingIdle, LostAlone, NoneLost
  <2>11. SendsOnly(s, head)
    BY <2>5, <2>6 DEF SendsOnly
  <2>. QED BY <2>5, <2>8, <2>9, <2>10, <2>11 DEF Sound
<1>4. Sound(next) /\ SendsOnly(s, next) /\ (NoneLost(next) \/ next.queue # <<>>)
  <2>1. SendsOnly(s, s)
    BY DEF SendsOnly
  <2>. HIDE DEF head
  <2>. QED BY <1>3, <2>1, Zenon
<1>. HIDE DEF next
<1>5. LET r == closeEnergySavingDevice(next)
      IN  Sound(r) /\ SendsOnly(next, r)
  BY <1>4, CloseSound, Zenon
<1>. QED BY <1>1, <1>4, <1>5 DEF SendsOnly

LEMMA SendCommandSound ==
  ASSUME NEW s, Sound(s), NEW kind \in Sent, NEW c \in Channels \cup {NoChannel}
  PROVE  Sound(sendCommand(s, kind, c)) /\ SendsOnly(s, sendCommand(s, kind, c))
<1>. DEFINE entry == [kind |-> kind, channel |-> c]
            next == [s EXCEPT !.queue = Append(@, entry), !.closing = FALSE]
<1>1. s \in Session /\ entry \in Queued
  BY DEF Sound, Queued
<1>2. Append(s.queue, entry) \in Seq(Queued) /\ Append(s.queue, entry) # <<>>
  <2>1. s.queue \in Seq(Queued)
    BY <1>1 DEF Session
  <2>. HIDE DEF entry
  <2>2. Append(s.queue, entry) \in Seq(Queued) /\ Len(Append(s.queue, entry)) = Len(s.queue) + 1
    BY <1>1, <2>1
  <2>. QED BY <2>1, <2>2
<1>3. /\ next \in Session /\ next.flight = s.flight /\ next.queue # <<>> /\ next.closing = FALSE
      /\ next.streams = s.streams /\ next.late = s.late /\ next.told = s.told
      /\ next.silent = s.silent /\ next.connected = s.connected
  BY <1>1, <1>2 DEF Session
<1>4. sendCommand(s, kind, c) = sendQueuedMessage(next)
  BY Zenon DEF sendCommand
<1>. HIDE DEF next
<1>5. Sound(next)
  BY <1>3 DEF Sound, OneAtATime, VideoRuns, ToldOf, Over, IsStreaming, ClosingIdle, LostAlone
<1>6. Sound(sendQueuedMessage(next)) /\ SendsOnly(next, sendQueuedMessage(next))
  BY <1>3, <1>5, SendQueuedMessageSound
<1>. QED BY <1>3, <1>4, <1>6 DEF SendsOnly

-----------------------------------------------------------------------------
(* The end of a stream *)

LEMMA StreamTypes ==
  /\ NoStream \in Stream /\ "VIDEO" \in Types /\ "BINARY" \in Types
  /\ \A condition \in BOOLEAN : Count(condition) \in Nat
BY DEF NoStream, Stream, Types, Count

\* initializeStream: the stream is as new, the armed timers are late; no one may take it for running.
LEMMA ReplacedSound ==
  ASSUME NEW s, s \in Session, OneAtATime(s), VideoRuns(s), ToldOf(s), ClosingIdle(s), LostAlone(s),
         NEW t \in Types, Over(s, t)
  PROVE  LET r == Replaced(s, t)
         IN  /\ Sound(r) /\ r.streams = [s.streams EXCEPT ![t] = NoStream]
             /\ r.flight = s.flight /\ r.queue = s.queue /\ r.connected = s.connected
             /\ r.closing = s.closing /\ r.told = s.told /\ r.silent = s.silent
<1>. DEFINE old == s.streams[t]
            armed == [quiet |-> old.data = "quiet", stop |-> old.data = "stop",
                      gap |-> old.gap, codec |-> old.codec]
            later == [k \in Timers |-> s.late[t][k] + Count(armed[k])]
            r == Replaced(s, t)
<1>1. r = [s EXCEPT !.streams[t] = NoStream, !.late[t] = later]
  BY DEF Replaced
<1>2. old \in Stream /\ s.late[t] \in [Timers -> Nat]
  BY DEF Session
<1>3. later \in [Timers -> Nat]
  <2>1. \A k \in Timers : armed[k] \in BOOLEAN
    <3>1. armed.quiet \in BOOLEAN /\ armed.stop \in BOOLEAN /\ armed.gap \in BOOLEAN /\ armed.codec \in BOOLEAN
      BY <1>2 DEF Stream
    <3>. HIDE DEF armed
    <3>. QED BY <3>1 DEF Timers
  <2>2. \A k \in Timers : Count(armed[k]) \in Nat
    BY <2>1, StreamTypes
  <2>. HIDE DEF armed
  <2>. QED BY <1>2, <2>2
<1>. HIDE DEF later, old, r
<1>4. /\ r \in Session /\ r.streams = [s.streams EXCEPT ![t] = NoStream]
      /\ r.flight = s.flight /\ r.queue = s.queue /\ r.connected = s.connected
      /\ r.closing = s.closing /\ r.told = s.told /\ r.silent = s.silent
  <2>1. [s.streams EXCEPT ![t] = NoStream] \in [Types -> Stream]
    BY StreamTypes DEF Session
  <2>2. [s.late EXCEPT ![t] = later] \in [Types -> [Timers -> Nat]]
    BY <1>3 DEF Session
  <2>. QED BY <1>1, <2>1, <2>2 DEF Session
<1>5. \A u \in Types : r.streams[u] = IF u = t THEN NoStream ELSE s.streams[u]
  BY <1>4 DEF Session
<1>6. ~NoStream.streaming /\ ~NoStream.video
  BY DEF NoStream
<1>7. OneAtATime(r)
  BY <1>4 DEF OneAtATime
<1>8. VideoRuns(r) /\ ClosingIdle(r) /\ LostAlone(r)
  BY <1>4, <1>5, <1>6, Zenon DEF VideoRuns, ClosingIdle, LostAlone
<1>9. ToldOf(r)
  BY <1>4, <1>5 DEF ToldOf, Over, IsStreaming
<1>. QED BY <1>4, <1>7, <1>8, <1>9 DEF Sound, r

\* endStream: the stream is over and the application told, or silent; the others go on.
Ended(s, t, r) ==
  /\ Sound(r) /\ ~r.streams[t].streaming /\ Over(r, t) /\ r.connected = s.connected
  /\ \A u \in Types : u # t => r.streams[u] = s.streams[u]
  /\ ~s.streams[t].streaming => r = s

LEMMA EndStreamSound ==
  ASSUME NEW s, Sound(s), NEW t \in Types, NEW stop \in BOOLEAN
  PROVE  LET r == endStream(s, t, stop)
         IN  /\ Ended(s, t, r)
             /\ ~stop => r.flight = s.flight /\ (r.closing => s.closing \/ ~Unacknowledged(s))
<1>1. CASE ~s.streams[t].streaming
  <2>1. endStream(s, t, stop) = s
    BY <1>1 DEF endStream
  <2>2. Over(s, t)
    BY <1>1 DEF Sound, ToldOf, IsStreaming
  <2>. QED BY <1>1, <2>1, <2>2 DEF Ended
<1>2. CASE s.streams[t].streaming
  <2>. DEFINE old == s.streams[t]
              kind == IF t = "VIDEO" THEN "stop" ELSE "cancel"
              asked == IF stop THEN sendCommand(s, kind, old.channel) ELSE s
              ended == [asked EXCEPT !.streams[t].data = "off",
                                     !.told[t] = IF old.started /\ ~old.invalid THEN NoChannel ELSE @,
                                     !.silent[t] = @ \/ (old.started /\ old.invalid)]
              r == Replaced(ended, t)
  <2>1. endStream(s, t, stop) = closeEnergySavingDevice(r)
    BY <1>2, Zenon DEF endStream
  <2>2. old \in Stream /\ s \in Session
    BY DEF Sound, Session
  <2>3. kind \in Sent /\ old.channel \in Channels \cup {NoChannel}
    BY <2>2 DEF Sent, Stream
  <2>4. Sound(asked) /\ SendsOnly(s, asked) /\ (~stop => asked = s)
    <3>1. SendsOnly(s, s)
      BY DEF SendsOnly
    <3>. HIDE DEF kind, old
    <3>. QED BY <2>3, <3>1, SendCommandSound, Zenon
  <2>5. NoneLost(asked)
    BY <1>2, <2>4 DEF Sound, LostAlone, NoneLost, SendsOnly
  <2>. HIDE DEF asked
  <2>6. asked \in Session /\ asked.streams[t] = old
    BY <2>4 DEF Sound, SendsOnly
  <2>7. /\ ended.flight = asked.flight /\ ended.queue = asked.queue /\ ended.connected = asked.connected
        /\ ended.closing = asked.closing /\ ended.late = asked.late
        /\ ended.streams = [asked.streams EXCEPT ![t] = [old EXCEPT !.data = "off"]]
        /\ ended.told = [asked.told EXCEPT ![t] = IF old.started /\ ~old.invalid THEN NoChannel ELSE @]
        /\ ended.silent = [asked.silent EXCEPT ![t] = @ \/ (old.started /\ old.invalid)]
    BY <2>6 DEF Session
  <2>8. ended \in Session
    <3>1. [old EXCEPT !.data = "off"] \in Stream
      BY <2>2 DEF Stream
    <3>2. ended.streams \in [Types -> Stream]
      BY <2>6, <2>7, <3>1 DEF Session
    <3>3. ended.told \in [Types -> Channels \cup {NoChannel}] /\ ended.silent \in [Types -> BOOLEAN]
      BY <2>6, <2>7 DEF Session
    <3>4. asked \in Session => ended = [asked EXCEPT !.streams = ended.streams, !.told = ended.told,
                                                      !.silent = ended.silent]
      BY <2>7 DEF Session
    <3>. QED BY <2>6, <3>2, <3>3, <3>4 DEF Session
  <2>. HIDE DEF ended
  <2>9. \A u \in Types : /\ ended.streams[u].streaming = asked.streams[u].streaming
                         /\ ended.streams[u].video = asked.streams[u].video
                         /\ ended.streams[u].revived = asked.streams[u].revived
                         /\ ended.streams[u].started = asked.streams[u].started
                         /\ ended.streams[u].channel = asked.streams[u].channel
                         /\ u # t => ended.streams[u] = asked.streams[u]
    BY <2>2, <2>6, <2>7 DEF Session, Stream
  <2>10. OneAtATime(ended) /\ VideoRuns(ended) /\ ClosingIdle(ended) /\ LostAlone(ended)
    BY <2>4, <2>7, <2>9 DEF Sound, OneAtATime, VideoRuns, ClosingIdle, LostAlone
  <2>11. Over(ended, t)
    <3>1. ended.told[t] = IF old.started /\ ~old.invalid THEN NoChannel ELSE asked.told[t]
      BY <2>6, <2>7 DEF Session
    <3>2. ended.silent[t] = (asked.silent[t] \/ (old.started /\ old.invalid))
      BY <2>6, <2>7 DEF Session
    <3>3. Over(asked, t) \/ old.started
      BY <2>4, <2>6 DEF Sound, ToldOf
    <3>. QED BY <3>1, <3>2, <3>3, Zenon DEF Over
  <2>12. ToldOf(ended)
    <3>1. ASSUME NEW u \in Types, u # t
          PROVE  ended.told[u] = asked.told[u] /\ ended.silent[u] = asked.silent[u]
      BY <2>6, <2>7, <3>1 DEF Session
    <3>2. ToldOf(asked)
      BY <2>4 DEF Sound
    <3>. QED BY <2>9, <2>11, <3>1, <3>2 DEF ToldOf, Over, IsStreaming
  <2>13. /\ Sound(r) /\ r.streams = [ended.streams EXCEPT ![t] = NoStream]
         /\ r.flight = ended.flight /\ r.queue = ended.queue /\ r.connected = ended.connected
         /\ r.closing = ended.closing /\ r.told = ended.told /\ r.silent = ended.silent
    BY <2>8, <2>10, <2>11, <2>12, ReplacedSound
  <2>. HIDE DEF r
  <2>14. NoneLost(r)
    BY <2>5, <2>7, <2>13 DEF NoneLost
  <2>15. LET e == closeEnergySavingDevice(r)
         IN  /\ Sound(e) /\ SendsOnly(r, e) /\ e.flight = r.flight
             /\ e.closing => r.closing \/ ~Unacknowledged(r)
    BY <2>13, <2>14, CloseSound
  <2>. DEFINE e == closeEnergySavingDevice(r)
  <2>16. Sound(e) /\ SendsOnly(r, e) /\ e.flight = r.flight /\ (e.closing => r.closing \/ ~Unacknowledged(r))
    BY <2>15
  <2>. HIDE DEF e
  <2>17. ~e.streams[t].streaming /\ \A u \in Types : u # t => e.streams[u] = s.streams[u]
    <3>1. e.streams = [ended.streams EXCEPT ![t] = NoStream] /\ DOMAIN ended.streams = Types
      BY <2>8, <2>13, <2>16 DEF SendsOnly, Session
    <3>2. asked.streams = s.streams
      BY <2>4 DEF SendsOnly
    <3>. QED BY <2>9, <3>1, <3>2 DEF NoStream
  <2>18. Over(e, t) /\ e.connected = s.connected
    BY <2>4, <2>7, <2>11, <2>13, <2>16 DEF Over, SendsOnly
  <2>19. ~stop => e.flight = s.flight /\ (e.closing => s.closing \/ ~Unacknowledged(s))
    BY <2>4, <2>7, <2>13, <2>16 DEF Unacknowledged
  <2>20. Ended(s, t, e)
    BY <1>2, <2>16, <2>17, <2>18 DEF Ended
  <2>. QED BY <2>1, <2>19, <2>20 DEF e
<1>. QED BY <1>1, <1>2, Zenon

-----------------------------------------------------------------------------
(* A stream that goes on *)

\* One stream is changed and nothing else.
LEMMA OneStream ==
  ASSUME NEW s \in Session, NEW t \in Types, NEW stream \in Stream
  PROVE  LET r == [s EXCEPT !.streams[t] = stream]
         IN  /\ r \in Session /\ r.streams[t] = stream
             /\ \A u \in Types : u # t => r.streams[u] = s.streams[u]
             /\ r.flight = s.flight /\ r.queue = s.queue /\ r.connected = s.connected
             /\ r.closing = s.closing /\ r.told = s.told /\ r.silent = s.silent /\ r.late = s.late
BY DEF Session

\* Frames, timers and results that neither start nor end a stream.
SameRun(a, b) ==
  /\ b.streaming = a.streaming /\ b.channel = a.channel /\ b.started = a.started
  /\ b.revived = a.revived /\ (b.video => b.streaming)

LEMMA SameRunSound ==
  ASSUME NEW s, Sound(s), NEW r \in Session, \A u \in Types : SameRun(s.streams[u], r.streams[u]),
         r.flight = s.flight, r.queue = s.queue, r.connected = s.connected,
         r.closing = s.closing, r.told = s.told, r.silent = s.silent
  PROVE  Sound(r)
<1>1. OneAtATime(r)
  BY DEF Sound, OneAtATime
<1>2. VideoRuns(r) /\ ClosingIdle(r) /\ LostAlone(r)
  BY Zenon DEF Sound, SameRun, VideoRuns, ClosingIdle, LostAlone
<1>3. ToldOf(r)
  BY Zenon DEF Sound, SameRun, ToldOf, Over, IsStreaming
<1>. QED BY <1>1, <1>2, <1>3 DEF Sound

LEMMA OneStreamSound ==
  ASSUME NEW s, Sound(s), NEW t \in Types, NEW stream \in Stream, SameRun(s.streams[t], stream)
  PROVE  Sound([s EXCEPT !.streams[t] = stream])
<1>. DEFINE r == [s EXCEPT !.streams[t] = stream]
<1>1. s \in Session
  BY DEF Sound
<1>2. /\ r \in Session /\ r.streams[t] = stream
      /\ \A u \in Types : u # t => r.streams[u] = s.streams[u]
      /\ r.flight = s.flight /\ r.queue = s.queue /\ r.connected = s.connected
      /\ r.closing = s.closing /\ r.told = s.told /\ r.silent = s.silent
  BY <1>1, OneStream
<1>. HIDE DEF r
<1>3. \A u \in Types : SameRun(s.streams[u], r.streams[u])
  BY <1>2 DEF SameRun, Sound, VideoRuns
<1>. QED BY <1>2, <1>3, SameRunSound DEF r

\* emitStreamStartEvent of a stream that runs: the application is told of its channel.
LEMMA EmitSound ==
  ASSUME NEW s, Sound(s), NEW t \in Types, s.streams[t].streaming
  PROVE  LET r == emitStreamStartEvent(s, t)
         IN  /\ Sound(r) /\ r.streams = [s.streams EXCEPT ![t].started = TRUE]
<1>. DEFINE r == emitStreamStartEvent(s, t)
            stream == [s.streams[t] EXCEPT !.started = TRUE]
<1>1. s \in Session /\ s.streams[t] \in Stream
  BY DEF Sound, Session
<1>2. stream \in Stream /\ stream.streaming = s.streams[t].streaming /\ stream.started
      /\ stream.channel = s.streams[t].channel /\ stream.video = s.streams[t].video
      /\ stream.revived = s.streams[t].revived /\ stream.channel \in Channels \cup {NoChannel}
  BY <1>1 DEF Stream
<1>3. r = [s EXCEPT !.streams[t] = stream, !.told[t] = stream.channel, !.silent[t] = FALSE]
  BY <1>2 DEF emitStreamStartEvent
<1>. HIDE DEF stream, r
<1>4. /\ r.streams = [s.streams EXCEPT ![t] = stream] /\ r.told = [s.told EXCEPT ![t] = stream.channel]
      /\ r.silent = [s.silent EXCEPT ![t] = FALSE] /\ r.flight = s.flight /\ r.queue = s.queue
      /\ r.connected = s.connected /\ r.closing = s.closing
  BY <1>1, <1>3 DEF Session
<1>5. r \in Session
  <2>1. /\ [s.streams EXCEPT ![t] = stream] \in [Types -> Stream]
        /\ [s.told EXCEPT ![t] = stream.channel] \in [Types -> Channels \cup {NoChannel}]
        /\ [s.silent EXCEPT ![t] = FALSE] \in [Types -> BOOLEAN]
    BY <1>1, <1>2 DEF Session
  <2>. QED BY <1>1, <1>3, <2>1 DEF Session
<1>6. /\ r.streams[t] = stream /\ r.told[t] = stream.channel
      /\ \A u \in Types : u # t => /\ r.streams[u] = s.streams[u] /\ r.told[u] = s.told[u]
                                   /\ r.silent[u] = s.silent[u]
  BY <1>1, <1>4 DEF Session
<1>7. OneAtATime(r)
  BY <1>4 DEF Sound, OneAtATime
<1>8. VideoRuns(r) /\ ClosingIdle(r) /\ LostAlone(r)
  BY <1>2, <1>4, <1>6, Zenon DEF Sound, VideoRuns, ClosingIdle, LostAlone
<1>9. ToldOf(r)
  BY <1>2, <1>6 DEF Sound, ToldOf, Over, IsStreaming
<1>. QED BY <1>4, <1>5, <1>7, <1>8, <1>9 DEF Sound, r, stream

\* One timer handle more is late.
LEMMA LateSound ==
  ASSUME NEW s, Sound(s), NEW t \in Types, NEW k \in Timers, NEW n \in Nat
  PROVE  LET r == [s EXCEPT !.late[t][k] = n]
         IN  Sound(r) /\ r.streams = s.streams /\ r.late[t][k] = n
<1>. DEFINE r == [s EXCEPT !.late[t][k] = n]
<1>1. s \in Session
  BY DEF Sound
<1>2. [s.late EXCEPT ![t][k] = n] \in [Types -> [Timers -> Nat]]
  BY <1>1 DEF Session
<1>3. /\ r \in Session /\ r.streams = s.streams /\ r.late = [s.late EXCEPT ![t][k] = n]
      /\ r.flight = s.flight /\ r.queue = s.queue /\ r.connected = s.connected
      /\ r.closing = s.closing /\ r.told = s.told /\ r.silent = s.silent
  BY <1>1, <1>2 DEF Session
<1>4. r.late[t][k] = n
  BY <1>1, <1>3 DEF Session
<1>. HIDE DEF r
<1>5. \A u \in Types : SameRun(s.streams[u], r.streams[u])
  BY <1>3 DEF SameRun, Sound, VideoRuns
<1>. QED BY <1>3, <1>4, <1>5, SameRunSound DEF r

-----------------------------------------------------------------------------
(* The timers of a stream and the commands that start and end it *)

WatchedStill(s, r) == \A u \in Types : WatchedStream(s, u) => WatchedStream(r, u)

LEMMA EndedWatched ==
  ASSUME NEW s, NEW t \in Types, NEW r, Ended(s, t, r)
  PROVE  \A u \in Types : (u # t => WatchedStream(s, u)) => WatchedStream(r, u)
BY DEF Ended, WatchedStream

LEMMA GapEndsSound ==
  ASSUME NEW s, Sound(s), NEW t \in Types
  PROVE  Sound(GapEnds(s, t)) /\ WatchedStill(s, GapEnds(s, t))
<1>. DEFINE e == endStream(s, t, TRUE)
            stream == [e.streams[t] EXCEPT !.gap = FALSE]
            n == e.late[t]["gap"] + Count(e.streams[t].gap)
            r == [e EXCEPT !.streams[t] = stream]
<1>1. Ended(s, t, e)
  BY EndStreamSound
<1>2. GapEnds(s, t) = [r EXCEPT !.late[t]["gap"] = n]
  BY DEF GapEnds
<1>. HIDE DEF e
<1>3. Sound(e) /\ e \in Session /\ e.streams[t] \in Stream
  BY <1>1 DEF Ended, Sound, Session
<1>4. stream \in Stream /\ SameRun(e.streams[t], stream) /\ stream.data = e.streams[t].data
  BY <1>3 DEF Stream, SameRun, Sound, VideoRuns
<1>5. n \in Nat /\ "gap" \in Timers
  <2>1. "gap" \in Timers /\ e.late[t]["gap"] \in Nat /\ e.streams[t].gap \in BOOLEAN
    BY <1>3 DEF Session, Stream, Timers
  <2>. QED BY <2>1, StreamTypes
<1>. HIDE DEF stream, n
<1>6. Sound(r) /\ r.streams[t] = stream /\ \A u \in Types : u # t => r.streams[u] = e.streams[u]
  BY <1>3, <1>4, OneStream, OneStreamSound
<1>. HIDE DEF r
<1>7. Sound(GapEnds(s, t)) /\ GapEnds(s, t).streams = r.streams
  BY <1>2, <1>5, <1>6, LateSound
<1>8. \A u \in Types : WatchedStream(e, u) => WatchedStream(r, u)
  BY <1>4, <1>6 DEF WatchedStream, SameRun
<1>9. \A u \in Types : WatchedStream(s, u) => WatchedStream(e, u)
  BY <1>1, EndedWatched
<1>. QED BY <1>7, <1>8, <1>9 DEF WatchedStill, WatchedStream

LEMMA CodecEndsSound ==
  ASSUME NEW s, Sound(s), NEW t \in Types
  PROVE  Sound(CodecEnds(s, t)) /\ WatchedStill(s, CodecEnds(s, t))
<1>. DEFINE old == s.streams[t]
            stream == [old EXCEPT !.codec = FALSE, !.audio = TRUE]
            n == s.late[t]["codec"] + Count(old.codec)
            r == [s EXCEPT !.streams[t] = stream]
            silent == [r EXCEPT !.late[t]["codec"] = n]
<1>1. s \in Session /\ old \in Stream
  BY DEF Sound, Session
<1>2. CodecEnds(s, t) = IF old.video /\ ~old.started THEN emitStreamStartEvent(silent, t) ELSE silent
  <2>1. silent = [s EXCEPT !.streams[t].codec = FALSE, !.streams[t].audio = TRUE, !.late[t]["codec"] = n]
    BY <1>1 DEF Session
  <2>. HIDE DEF silent
  <2>. QED BY <2>1 DEF CodecEnds
<1>3. stream \in Stream /\ SameRun(old, stream) /\ stream.data = old.data
  BY <1>1 DEF Stream, SameRun, Sound, VideoRuns
<1>4. n \in Nat /\ "codec" \in Timers
  <2>1. "codec" \in Timers /\ s.late[t]["codec"] \in Nat /\ old.codec \in BOOLEAN
    BY <1>1 DEF Session, Stream, Timers
  <2>. QED BY <2>1, StreamTypes
<1>. HIDE DEF stream, n
<1>5. Sound(r) /\ r.streams[t] = stream /\ \A u \in Types : u # t => r.streams[u] = s.streams[u]
  BY <1>1, <1>3, OneStream, OneStreamSound
<1>. HIDE DEF r
<1>6. Sound(silent) /\ silent.streams = r.streams
  BY <1>4, <1>5, LateSound
<1>. HIDE DEF silent
<1>7. \A u \in Types : WatchedStream(s, u) => WatchedStream(silent, u)
  BY <1>3, <1>5, <1>6 DEF WatchedStream, SameRun
<1>8. ASSUME old.video
      PROVE  LET e == emitStreamStartEvent(silent, t)
             IN  Sound(e) /\ \A u \in Types : WatchedStream(silent, u) => WatchedStream(e, u)
  <2>1. silent.streams[t].streaming
    BY <1>3, <1>5, <1>6, <1>8 DEF SameRun, Sound, VideoRuns
  <2>. DEFINE e == emitStreamStartEvent(silent, t)
  <2>2. Sound(e) /\ e.streams = [silent.streams EXCEPT ![t].started = TRUE]
    BY <1>6, <2>1, EmitSound
  <2>. HIDE DEF e
  <2>3. silent.streams \in [Types -> Stream]
    BY <1>6 DEF Sound, Session
  <2>4. \A u \in Types : /\ e.streams[u].streaming = silent.streams[u].streaming
                         /\ e.streams[u].data = silent.streams[u].data
                         /\ e.streams[u].revived = silent.streams[u].revived
    BY <2>2, <2>3 DEF Stream
  <2>. QED BY <2>2, <2>4 DEF WatchedStream, e
<1>. QED BY <1>2, <1>6, <1>7, <1>8 DEF WatchedStill

\* Marking a stream changes one stream.
Marked(s, t, c, stray) ==
  [s EXCEPT !.streams[t].streaming = TRUE, !.streams[t].channel = c,
            !.streams[t].data = "quiet", !.streams[t].stray = stray]
MarkedStream(old, c, stray) ==
  [old EXCEPT !.streaming = TRUE, !.channel = c, !.data = "quiet", !.stray = stray]

LEMMA MarkedIsOneStream ==
  ASSUME NEW s \in Session, NEW t \in Types, NEW c, NEW stray
  PROVE  Marked(s, t, c, stray) = [s EXCEPT !.streams[t] = MarkedStream(s.streams[t], c, stray)]
BY ZenonT(40) DEF Session, Marked, MarkedStream

\* The part of _sendCommand after the await: no close of the connection is planned then, because
\* the command is not acknowledged or the connection it was sent on is gone.
LEMMA StreamingSound ==
  ASSUME NEW s, Sound(s), NEW t \in Types, NEW c \in Channels \cup {NoChannel}, NEW stray \in BOOLEAN,
         NoneLost(s), ~s.closing, Unacknowledged(s) \/ ~s.streams[t].streaming
  PROVE  Sound(Streaming(s, t, c, stray)) /\ WatchedStill(s, Streaming(s, t, c, stray))
<1>. DEFINE free == IF s.streams[t].streaming /\ s.streams[t].channel # c THEN endStream(s, t, FALSE) ELSE s
            stream == MarkedStream(free.streams[t], c, stray)
            r == [free EXCEPT !.streams[t] = stream]
<1>1. Streaming(s, t, c, stray) = Marked(free, t, c, stray)
  BY Zenon DEF Streaming, Marked
<1>2. /\ Sound(free) /\ free.flight = s.flight /\ ~free.closing
      /\ free.streams[t].streaming => free.streams[t].channel = c
      /\ \A u \in Types : u # t => free.streams[u] = s.streams[u]
  <2>1. CASE ~(s.streams[t].streaming /\ s.streams[t].channel # c)
    BY <2>1, Zenon
  <2>2. CASE s.streams[t].streaming /\ s.streams[t].channel # c
    <3>1. free = endStream(s, t, FALSE)
      BY <2>2, Zenon
    <3>2. /\ Ended(s, t, free) /\ free.flight = s.flight
          /\ free.closing => s.closing \/ ~Unacknowledged(s)
      BY <3>1, EndStreamSound
    <3>. HIDE DEF free
    <3>. QED BY <2>2, <3>2, Zenon DEF Ended
  <2>. QED BY <2>1, <2>2
<1>. HIDE DEF free
<1>3. free \in Session /\ free.streams[t] \in Stream
  BY <1>2 DEF Sound, Session
<1>10. Streaming(s, t, c, stray) = r
  BY <1>1, <1>3, MarkedIsOneStream
<1>4. /\ stream \in Stream /\ stream.streaming /\ stream.channel = c /\ stream.data = "quiet"
      /\ stream.started = free.streams[t].started
  BY <1>3 DEF Stream, MarkedStream
<1>. HIDE DEF stream
<1>5. /\ r \in Session /\ r.streams[t] = stream
      /\ \A u \in Types : u # t => r.streams[u] = free.streams[u]
      /\ r.flight = free.flight /\ r.queue = free.queue /\ r.connected = free.connected
      /\ r.closing = free.closing /\ r.told = free.told /\ r.silent = free.silent
  BY <1>3, <1>4, OneStream
<1>. HIDE DEF r
<1>6. OneAtATime(r) /\ VideoRuns(r)
  BY <1>2, <1>4, <1>5 DEF Sound, OneAtATime, VideoRuns
<1>7. ClosingIdle(r) /\ LostAlone(r)
  BY <1>2, <1>5 DEF ClosingIdle, LostAlone, NoneLost
<1>8. ToldOf(r)
  BY <1>2, <1>4, <1>5 DEF Sound, ToldOf, Over, IsStreaming
<1>9. \A u \in Types : WatchedStream(s, u) => WatchedStream(r, u)
  BY <1>2, <1>4, <1>5 DEF WatchedStream
<1>. QED BY <1>10, <1>5, <1>6, <1>7, <1>8, <1>9 DEF Sound, WatchedStill

LEMMA AfterSendingSound ==
  ASSUME NEW s, Sound(s), NEW m \in Command, NoneLost(s), ~s.closing,
         Unacknowledged(s) \/ \A t \in Types : ~s.streams[t].streaming
  PROVE  Sound(AfterSending(s, m)) /\ WatchedStill(s, AfterSending(s, m))
<1>. DEFINE lost == m.stage = "lost"
            r == AfterSending(s, m)
<1>1. m.kind \in Sent /\ m.channel \in Channels \cup {NoChannel} /\ lost \in BOOLEAN
      /\ "VIDEO" \in Types /\ "BINARY" \in Types
  BY StreamTypes DEF Command, Sent
<1>2. ASSUME NEW t \in Types PROVE LET e == endStream(s, t, FALSE) IN Sound(e) /\ WatchedStill(s, e)
  <2>. DEFINE e == endStream(s, t, FALSE)
  <2>1. Ended(s, t, e)
    BY EndStreamSound
  <2>. HIDE DEF e
  <2>2. WatchedStill(s, e)
    BY <2>1, EndedWatched DEF WatchedStill
  <2>. QED BY <2>1, <2>2 DEF Ended, e
<1>3. ASSUME NEW t \in Types
      PROVE  Sound(Streaming(s, t, m.channel, lost)) /\ WatchedStill(s, Streaming(s, t, m.channel, lost))
  <2>. HIDE DEF lost
  <2>. QED BY <1>1, <1>3, StreamingSound
<1>4. CASE m.kind = "start"
  BY <1>1, <1>3, <1>4 DEF AfterSending
<1>5. CASE m.kind = "download"
  BY <1>1, <1>3, <1>5 DEF AfterSending
<1>6. CASE m.kind = "stop"
  BY <1>1, <1>2, <1>6 DEF AfterSending
<1>7. CASE m.kind = "cancel"
  BY <1>1, <1>2, <1>7 DEF AfterSending
<1>. QED BY <1>1, <1>4, <1>5, <1>6, <1>7 DEF Sent

\* _disconnected ends both streams and leaves nothing on its way but one sending that is awaited.
LEMMA DisconnectedSound ==
  ASSUME NEW s, Sound(s)
  PROVE  Sound(Disconnected(s)) /\ \A t \in Types : ~Disconnected(s).streams[t].streaming
<1>. DEFINE open == [s EXCEPT !.closing = FALSE]
            half == endStream(open, "VIDEO", FALSE)
            ended == endStream(half, "BINARY", FALSE)
            kept == {k \in ended.flight : k.stage \in {"sending", "lost"}}
            lost == {[m EXCEPT !.stage = "lost"] : m \in kept}
            gone == [ended EXCEPT !.connected = FALSE, !.flight = lost]
            replaced == Replaced(gone, "VIDEO")
            r == Replaced(replaced, "BINARY")
<1>1. Disconnected(s) = r
  BY DEF Disconnected
<1>2. s \in Session /\ "VIDEO" \in Types /\ "BINARY" \in Types /\ Types = {"VIDEO", "BINARY"}
  BY DEF Sound, Types
<1>3. /\ open \in Session /\ open.flight = s.flight /\ open.queue = s.queue /\ ~open.closing
      /\ open.streams = s.streams /\ open.connected = s.connected /\ open.told = s.told
      /\ open.silent = s.silent
  BY <1>2 DEF Session
<1>. HIDE DEF open
<1>4. Sound(open)
  BY <1>3 DEF Sound, OneAtATime, VideoRuns, ToldOf, Over, IsStreaming, ClosingIdle, LostAlone
<1>5. /\ Ended(open, "VIDEO", half) /\ half.flight = s.flight
      /\ half.closing => ~Unacknowledged(s)
  BY <1>2, <1>3, <1>4, EndStreamSound DEF Unacknowledged
<1>. HIDE DEF half
<1>6. /\ Ended(half, "BINARY", ended) /\ ended.flight = s.flight
      /\ ended.closing => ~Unacknowledged(s)
  <2>1. Sound(half)
    BY <1>5 DEF Ended
  <2>. QED BY <1>2, <1>5, <2>1, EndStreamSound DEF Unacknowledged
<1>. HIDE DEF ended
<1>7. /\ Sound(ended) /\ ended \in Session
      /\ ~ended.streams["VIDEO"].streaming /\ ~ended.streams["BINARY"].streaming
  BY <1>2, <1>5, <1>6 DEF Ended, Sound
<1>8. Over(ended, "VIDEO") /\ Over(ended, "BINARY")
  BY <1>2, <1>7 DEF Sound, ToldOf, IsStreaming
<1>9. \A k, l \in kept : k = l
  BY <1>6, <1>7 DEF Sound, OneAtATime, LostAlone
<1>10. \A m \in kept : [m EXCEPT !.stage = "lost"] \in Command
  BY <1>7, ZenonT(40) DEF Session, Command
<1>11. lost \subseteq Command /\ IsFiniteSet(lost) /\ (\A m \in lost : m.stage = "lost")
       /\ (\A m, n \in lost : m = n)
  <2>1. lost \subseteq Command
    BY <1>10
  <2>2. \A m \in kept : [m EXCEPT !.stage = "lost"].stage = "lost"
    BY <1>7 DEF Session, Command
  <2>3. \A m, n \in lost : m = n
    BY <1>9
  <2>. HIDE DEF kept
  <2>4. IsFiniteSet(lost)
    <3>1. CASE lost = {}
      BY <3>1, FS_EmptySet
    <3>2. CASE lost # {}
      <4>1. PICK m \in lost : TRUE
        BY <3>2
      <4>. HIDE DEF lost
      <4>2. lost = {m}
        BY <2>3, <4>1
      <4>. QED BY <4>2, FS_Singleton
    <3>. QED BY <3>1, <3>2
  <2>. QED BY <2>1, <2>2, <2>3, <2>4
<1>12. lost # {} => ~ended.closing
  <2>1. ASSUME NEW k \in kept PROVE ~ended.closing
    <3>1. CASE k.stage = "sending"
      BY <1>6, <3>1 DEF Unacknowledged
    <3>2. CASE k.stage = "lost"
      BY <1>7, <3>2 DEF Sound, LostAlone
    <3>. QED BY <3>1, <3>2
  <2>. HIDE DEF kept
  <2>. QED BY <2>1
<1>. HIDE DEF kept, lost
<1>13. /\ gone \in Session /\ gone.flight = lost /\ ~gone.connected /\ gone.queue = ended.queue
       /\ gone.closing = ended.closing /\ gone.streams = ended.streams /\ gone.told = ended.told
       /\ gone.silent = ended.silent
  BY <1>7, <1>11 DEF Session
<1>. HIDE DEF gone
<1>14. OneAtATime(gone) /\ VideoRuns(gone) /\ ToldOf(gone)
  BY <1>7, <1>11, <1>13 DEF Sound, OneAtATime, VideoRuns, ToldOf, Over, IsStreaming
<1>15. LostAlone(gone)
  <2>1. \A m \in lost : lost = {m}
    BY <1>11
  <2>2. \A t \in Types : ~gone.streams[t].streaming
    BY <1>2, <1>7, <1>13
  <2>. QED BY <1>12, <1>13, <2>1, <2>2 DEF LostAlone
<1>16. ClosingIdle(gone)
  BY <1>7, <1>11, <1>13 DEF Sound, ClosingIdle
<1>17. /\ Sound(replaced) /\ replaced.streams = [gone.streams EXCEPT !["VIDEO"] = NoStream]
       /\ replaced.told = gone.told /\ replaced.silent = gone.silent
  <2>1. Over(gone, "VIDEO")
    BY <1>8, <1>13 DEF Over
  <2>. QED BY <1>2, <1>13, <1>14, <1>15, <1>16, <2>1, ReplacedSound
<1>. HIDE DEF replaced
<1>18. Sound(r) /\ r.streams = [replaced.streams EXCEPT !["BINARY"] = NoStream]
  <2>1. Over(replaced, "BINARY")
    BY <1>8, <1>13, <1>17 DEF Over
  <2>2. /\ replaced \in Session /\ OneAtATime(replaced) /\ VideoRuns(replaced) /\ ToldOf(replaced)
        /\ ClosingIdle(replaced) /\ LostAlone(replaced)
    BY <1>17 DEF Sound
  <2>. QED BY <1>2, <2>1, <2>2, ReplacedSound
<1>. HIDE DEF r
<1>19. \A t \in Types : ~r.streams[t].streaming
  <2>1. DOMAIN gone.streams = Types
    BY <1>13 DEF Session
  <2>. QED BY <1>2, <1>7, <1>13, <1>17, <1>18, <2>1 DEF NoStream
<1>. QED BY <1>1, <1>18, <1>19

-----------------------------------------------------------------------------
(* Parts of steps *)

LEMMA OneStreamWatched ==
  ASSUME NEW s, Sound(s), NEW t \in Types, NEW stream \in Stream, SameRun(s.streams[t], stream),
         stream.data = s.streams[t].data \/ stream.data # "off"
  PROVE  WatchedStill(s, [s EXCEPT !.streams[t] = stream])
<1>1. s \in Session
  BY DEF Sound
<1>. DEFINE r == [s EXCEPT !.streams[t] = stream]
<1>2. r.streams[t] = stream /\ \A u \in Types : u # t => r.streams[u] = s.streams[u]
  BY <1>1, OneStream, ZenonT(40)
<1>. HIDE DEF r
<1>. QED BY <1>2 DEF WatchedStill, WatchedStream, SameRun, r

LEMMA GapOverSound ==
  ASSUME NEW s, Sound(s), NEW t \in Types
  PROVE  LET r == [s EXCEPT !.streams[t].gap = FALSE] IN Sound(r) /\ WatchedStill(s, r)
<1>. DEFINE stream == [s.streams[t] EXCEPT !.gap = FALSE]
<1>1. s.streams[t] \in Stream
  BY DEF Sound, Session
<1>2. stream \in Stream /\ SameRun(s.streams[t], stream) /\ stream.data = s.streams[t].data
  BY <1>1 DEF Stream, SameRun, Sound, VideoRuns
<1>. HIDE DEF stream
<1>3. LET r == [s EXCEPT !.streams[t] = stream] IN Sound(r) /\ WatchedStill(s, r)
  BY <1>2, OneStreamSound, OneStreamWatched
<1>. QED BY <1>3 DEF stream

LEMMA CodecOverSound ==
  ASSUME NEW s, Sound(s), NEW t \in Types
  PROVE  LET r == [s EXCEPT !.streams[t].codec = FALSE] IN Sound(r) /\ WatchedStill(s, r)
<1>. DEFINE stream == [s.streams[t] EXCEPT !.codec = FALSE]
<1>1. s.streams[t] \in Stream
  BY DEF Sound, Session
<1>2. stream \in Stream /\ SameRun(s.streams[t], stream) /\ stream.data = s.streams[t].data
  BY <1>1 DEF Stream, SameRun, Sound, VideoRuns
<1>. HIDE DEF stream
<1>3. LET r == [s EXCEPT !.streams[t] = stream] IN Sound(r) /\ WatchedStill(s, r)
  BY <1>2, OneStreamSound, OneStreamWatched
<1>. QED BY <1>3 DEF stream

\* The data timer fires or is armed.
LEMMA DataSound ==
  ASSUME NEW s, Sound(s), NEW t \in Types, NEW data \in {"off", "stop"}
  PROVE  LET r == [s EXCEPT !.streams[t].data = data]
         IN  /\ Sound(r) /\ \A u \in Types : u # t => r.streams[u] = s.streams[u]
             /\ data = "stop" => WatchedStill(s, r)
<1>. DEFINE stream == [s.streams[t] EXCEPT !.data = data]
            r == [s EXCEPT !.streams[t] = stream]
<1>1. s \in Session /\ s.streams[t] \in Stream
  BY DEF Sound, Session
<1>2. stream \in Stream /\ SameRun(s.streams[t], stream) /\ stream.data = data
  BY <1>1 DEF Stream, SameRun, Sound, VideoRuns
<1>. HIDE DEF stream
<1>3. Sound(r) /\ \A u \in Types : u # t => r.streams[u] = s.streams[u]
  BY <1>1, <1>2, OneStream, OneStreamSound
<1>4. data = "stop" => WatchedStill(s, r)
  BY <1>2, OneStreamWatched
<1>. QED BY <1>3, <1>4 DEF stream

LEMMA OpenSound ==
  ASSUME NEW s, Sound(s)
  PROVE  LET r == [s EXCEPT !.closing = FALSE]
         IN  Sound(r) /\ r.streams = s.streams /\ r.flight = s.flight /\ r.connected = s.connected
<1>. DEFINE r == [s EXCEPT !.closing = FALSE]
<1>1. /\ r \in Session /\ r.flight = s.flight /\ r.queue = s.queue /\ ~r.closing
      /\ r.streams = s.streams /\ r.connected = s.connected /\ r.told = s.told
      /\ r.silent = s.silent
  BY DEF Sound, Session
<1>. HIDE DEF r
<1>2. Sound(r)
  BY <1>1 DEF Sound, OneAtATime, VideoRuns, ToldOf, Over, IsStreaming, ClosingIdle, LostAlone
<1>. QED BY <1>1, <1>2 DEF r

\* A command that is not on its way any more, or further on it.
LEMMA FlightSound ==
  ASSUME NEW s, Sound(s), NEW flight \in SUBSET Command, IsFiniteSet(flight),
         \A m, n \in flight :
           m.stage \in {"sending", "sent"} /\ n.stage \in {"sending", "sent"} => m = n,
         \A m \in flight : m.stage # "lost" /\ (m.stage = "sending" => m \in s.flight)
  PROVE  LET r == [s EXCEPT !.flight = flight]
         IN  /\ Sound(r) /\ NoneLost(r) /\ r.streams = s.streams /\ r.flight = flight
             /\ r.connected = s.connected /\ r.closing = s.closing
<1>. DEFINE r == [s EXCEPT !.flight = flight]
<1>1. /\ r \in Session /\ r.flight = flight /\ r.queue = s.queue /\ r.closing = s.closing
      /\ r.streams = s.streams /\ r.connected = s.connected /\ r.told = s.told
      /\ r.silent = s.silent
  BY DEF Sound, Session
<1>. HIDE DEF r
<1>2. Sound(r) /\ NoneLost(r)
  BY <1>1 DEF Sound, OneAtATime, VideoRuns, ToldOf, Over, IsStreaming, ClosingIdle, LostAlone, NoneLost
<1>. QED BY <1>1, <1>2 DEF r

\* A command that is acknowledged or answered was not lost, and so was none beside it.
LEMMA OthersNotLost ==
  ASSUME NEW s, Sound(s), NEW m \in s.flight
  PROVE  /\ m.stage # "lost" => NoneLost(s)
         /\ \A n \in s.flight \ {m} : n.stage # "lost"
BY DEF Sound, LostAlone, NoneLost

LEMMA WithoutSound ==
  ASSUME NEW s, Sound(s), NEW m \in s.flight
  PROVE  LET r == Without(s, m)
         IN  /\ Sound(r) /\ NoneLost(r) /\ r.streams = s.streams /\ r.flight = s.flight \ {m}
             /\ r.connected = s.connected /\ r.closing = s.closing
<1>. DEFINE flight == s.flight \ {m}
<1>1. flight \in SUBSET Command
  BY DEF Sound, Session
<1>2. IsFiniteSet(flight)
  BY FS_RemoveElement DEF Sound, OneAtATime
<1>3. \A a, b \in flight : a.stage \in {"sending", "sent"} /\ b.stage \in {"sending", "sent"} => a = b
  BY DEF Sound, OneAtATime
<1>4. \A a \in flight : a.stage # "lost" /\ (a.stage = "sending" => a \in s.flight)
  BY OthersNotLost
<1>5. Without(s, m) = [s EXCEPT !.flight = flight]
  BY DEF Without
<1>. HIDE DEF flight
<1>. QED BY <1>1, <1>2, <1>3, <1>4, <1>5, FlightSound DEF flight

LEMMA AdvancedSound ==
  ASSUME NEW s, Sound(s), NEW m \in s.flight, m.stage \in {"sending", "sent"},
         NEW stage \in {"sent", "acknowledged"}
  PROVE  LET r == [s EXCEPT !.flight = (@ \ {m}) \cup {[m EXCEPT !.stage = stage]}]
         IN  /\ Sound(r) /\ NoneLost(r) /\ r.streams = s.streams
             /\ r.connected = s.connected /\ r.closing = s.closing
             /\ stage = "sent" => Unacknowledged(r)
<1>. DEFINE further == [m EXCEPT !.stage = stage]
            flight == (s.flight \ {m}) \cup {further}
            r == [s EXCEPT !.flight = flight]
<1>1. m \in Command /\ s.flight \subseteq Command
  BY DEF Sound, Session
<1>2. further \in Command /\ further.stage = stage
  BY <1>1 DEF Command
<1>. HIDE DEF further
<1>3. flight \in SUBSET Command
  BY <1>1, <1>2
<1>4. IsFiniteSet(flight)
  <2>1. IsFiniteSet(s.flight \ {m})
    BY FS_RemoveElement DEF Sound, OneAtATime
  <2>. QED BY <2>1, FS_AddElement
<1>5. \A a, b \in flight : a.stage \in {"sending", "sent"} /\ b.stage \in {"sending", "sent"} => a = b
  BY DEF Sound, OneAtATime
<1>6. \A a \in flight : a.stage # "lost" /\ (a.stage = "sending" => a \in s.flight)
  BY <1>2, OthersNotLost
<1>7. further \in flight
  OBVIOUS
<1>. HIDE DEF flight
<1>8. /\ Sound(r) /\ NoneLost(r) /\ r.streams = s.streams /\ r.flight = flight
      /\ r.connected = s.connected /\ r.closing = s.closing
  BY <1>3, <1>4, <1>5, <1>6, FlightSound
<1>. HIDE DEF r
<1>9. stage = "sent" => Unacknowledged(r)
  BY <1>2, <1>7, <1>8 DEF Unacknowledged
<1>. QED BY <1>8, <1>9 DEF r, flight, further

-----------------------------------------------------------------------------
(* What the camera sends *)

\* A frame of the picture, a frame of the sound, and a frame that discards the stream.
Seen(s, t, condition) ==
  [s EXCEPT !.streams[t].video = TRUE, !.streams[t].codec = @ \/ condition]
Heard(s, t) == [s EXCEPT !.streams[t].codec = FALSE, !.streams[t].audio = TRUE]
Discarded(s, t) ==
  [s EXCEPT !.streams[t].gap = FALSE, !.streams[t].data = "stop", !.streams[t].invalid = TRUE]
SeenStream(old, condition) == [old EXCEPT !.video = TRUE, !.codec = @ \/ condition]
HeardStream(old) == [old EXCEPT !.codec = FALSE, !.audio = TRUE]
DiscardedStream(old) == [old EXCEPT !.gap = FALSE, !.data = "stop", !.invalid = TRUE]

LEMMA FramesAreOneStream ==
  ASSUME NEW s \in Session, NEW t \in Types, NEW condition \in BOOLEAN
  PROVE  /\ Seen(s, t, condition) = [s EXCEPT !.streams[t] = SeenStream(s.streams[t], condition)]
         /\ Heard(s, t) = [s EXCEPT !.streams[t] = HeardStream(s.streams[t])]
         /\ Discarded(s, t) = [s EXCEPT !.streams[t] = DiscardedStream(s.streams[t])]
<1>1. Seen(s, t, condition) = [s EXCEPT !.streams[t] = SeenStream(s.streams[t], condition)]
  BY DEF Session, Stream, Seen, SeenStream
<1>2. Heard(s, t) = [s EXCEPT !.streams[t] = HeardStream(s.streams[t])]
  BY DEF Session, Heard, HeardStream
<1>3. Discarded(s, t) = [s EXCEPT !.streams[t] = DiscardedStream(s.streams[t])]
  BY DEF Session, Discarded, DiscardedStream
<1>. QED BY <1>1, <1>2, <1>3

LEMMA SeenSound ==
  ASSUME NEW s, Sound(s), NEW t \in Types, NEW condition \in BOOLEAN, s.streams[t].streaming
  PROVE  LET r == Seen(s, t, condition)
         IN  Sound(r) /\ WatchedStill(s, r) /\ r.streams[t].streaming
<1>. DEFINE stream == SeenStream(s.streams[t], condition)
            r == [s EXCEPT !.streams[t] = stream]
<1>1. s \in Session /\ s.streams[t] \in Stream
  BY DEF Sound, Session
<1>2. /\ stream \in Stream /\ SameRun(s.streams[t], stream) /\ stream.data = s.streams[t].data
      /\ stream.streaming
  BY <1>1 DEF Stream, SameRun, SeenStream
<1>. HIDE DEF stream
<1>3. Sound(r) /\ WatchedStill(s, r) /\ r.streams[t].streaming
  BY <1>1, <1>2, OneStream, OneStreamSound, OneStreamWatched
<1>4. Seen(s, t, condition) = r
  BY <1>1, FramesAreOneStream DEF stream
<1>. HIDE DEF r
<1>. QED BY <1>3, <1>4

LEMMA HeardSound ==
  ASSUME NEW s, Sound(s), NEW t \in Types
  PROVE  LET r == Heard(s, t)
         IN  /\ Sound(r) /\ WatchedStill(s, r)
             /\ r.streams[t].streaming = s.streams[t].streaming
<1>. DEFINE stream == HeardStream(s.streams[t])
            r == [s EXCEPT !.streams[t] = stream]
<1>1. s \in Session /\ s.streams[t] \in Stream
  BY DEF Sound, Session
<1>2. stream \in Stream /\ SameRun(s.streams[t], stream) /\ stream.data = s.streams[t].data
  BY <1>1 DEF Stream, SameRun, HeardStream, Sound, VideoRuns
<1>. HIDE DEF stream
<1>3. Sound(r) /\ WatchedStill(s, r) /\ r.streams[t].streaming = s.streams[t].streaming
  BY <1>1, <1>2, OneStream, OneStreamSound, OneStreamWatched DEF SameRun
<1>. QED BY <1>1, <1>3, FramesAreOneStream DEF stream

LEMMA DiscardedSound ==
  ASSUME NEW s, Sound(s), NEW t \in Types
  PROVE  Sound(Discarded(s, t)) /\ WatchedStill(s, Discarded(s, t))
<1>. DEFINE stream == DiscardedStream(s.streams[t])
            r == [s EXCEPT !.streams[t] = stream]
<1>1. s \in Session /\ s.streams[t] \in Stream
  BY DEF Sound, Session
<1>2. stream \in Stream /\ SameRun(s.streams[t], stream) /\ stream.data = "stop"
  BY <1>1 DEF Stream, SameRun, DiscardedStream, Sound, VideoRuns
<1>. HIDE DEF stream
<1>3. Sound(r) /\ WatchedStill(s, r)
  BY <1>2, OneStreamSound, OneStreamWatched
<1>. QED BY <1>1, <1>3, FramesAreOneStream DEF stream

\* A frame tells the application of a stream that runs.
LEMMA EmitWatched ==
  ASSUME NEW s, Sound(s), NEW t \in Types, s.streams[t].streaming
  PROVE  LET r == emitStreamStartEvent(s, t) IN Sound(r) /\ WatchedStill(s, r)
<1>. DEFINE r == emitStreamStartEvent(s, t)
<1>1. Sound(r) /\ r.streams = [s.streams EXCEPT ![t].started = TRUE]
  BY EmitSound
<1>. HIDE DEF r
<1>2. s.streams \in [Types -> Stream]
  BY DEF Sound, Session
<1>3. \A u \in Types : /\ r.streams[u].streaming = s.streams[u].streaming
                       /\ r.streams[u].data = s.streams[u].data
                       /\ r.streams[u].revived = s.streams[u].revived
  BY <1>1, <1>2 DEF Stream
<1>. QED BY <1>1, <1>3 DEF WatchedStill, WatchedStream, r

\* The camera reports a download.  Where its stream does not run, it is marked without a timer.
Converting(s, channel, revived) ==
  [s EXCEPT !.streams["BINARY"].streaming = TRUE, !.streams["BINARY"].channel = channel,
            !.streams["BINARY"].revived = revived]
ConvertingStream(old, channel, revived) ==
  [old EXCEPT !.streaming = TRUE, !.channel = channel, !.revived = revived]

LEMMA ConvertingIsOneStream ==
  ASSUME NEW s \in Session, NEW channel, NEW revived
  PROVE  Converting(s, channel, revived)
         = [s EXCEPT !.streams["BINARY"] = ConvertingStream(s.streams["BINARY"], channel, revived)]
BY DEF Session, Types, Converting, ConvertingStream

LEMMA ConvertingSound ==
  ASSUME NEW s, Sound(s), s.connected, NEW channel \in Channels \cup {NoChannel},
         s.streams["BINARY"].streaming => channel = s.streams["BINARY"].channel
  PROVE  LET old == s.streams["BINARY"]
             r == Converting(s, channel, old.revived \/ ~old.streaming)
         IN  Sound(r) /\ WatchedStill(s, r)
<1>. DEFINE old == s.streams["BINARY"]
            revived == old.revived \/ ~old.streaming
            stream == ConvertingStream(old, channel, revived)
            r == [s EXCEPT !.streams["BINARY"] = stream]
<1>1. s \in Session /\ old \in Stream /\ "BINARY" \in Types
  BY StreamTypes DEF Sound, Session
<1>2. revived \in BOOLEAN
  BY <1>1 DEF Stream
<1>3. /\ stream \in Stream /\ stream.streaming /\ stream.channel = channel
      /\ stream.revived = revived /\ stream.data = old.data
      /\ stream.started = old.started
  <2>. HIDE DEF revived
  <2>. QED BY <1>1, <1>2 DEF Stream, ConvertingStream
<1>4. Converting(s, channel, revived) = r
  BY <1>1, ConvertingIsOneStream
<1>. HIDE DEF stream, old, revived
<1>5. /\ r \in Session /\ r.streams["BINARY"] = stream
      /\ \A u \in Types : u # "BINARY" => r.streams[u] = s.streams[u]
      /\ r.flight = s.flight /\ r.queue = s.queue /\ r.connected = s.connected
      /\ r.closing = s.closing /\ r.told = s.told /\ r.silent = s.silent
  <2>1. s \in Session /\ stream \in Stream /\ "BINARY" \in Types
    BY <1>1, <1>3
  <2>. QED BY <2>1 DEF Session
<1>. HIDE DEF r
<1>6. NoneLost(s)
  BY DEF Sound, LostAlone, NoneLost
<1>7. OneAtATime(r) /\ VideoRuns(r) /\ LostAlone(r)
  BY <1>3, <1>5, <1>6 DEF Sound, OneAtATime, VideoRuns, LostAlone, NoneLost
<1>8. ClosingIdle(r)
  BY <1>3, <1>5 DEF Sound, ClosingIdle, old, revived
<1>9. ToldOf(r)
  BY <1>1, <1>3, <1>5 DEF Sound, ToldOf, Over, IsStreaming, old
<1>10. WatchedStill(s, r)
  BY <1>3, <1>5 DEF WatchedStill, WatchedStream, old, revived
<1>11. Sound(r)
  BY <1>5, <1>7, <1>8, <1>9 DEF Sound
<1>. QED BY <1>4, <1>10, <1>11 DEF old, revived

-----------------------------------------------------------------------------
(* The timers *)

Kept(s, r) == Sound(r) /\ WatchedStill(s, r)

LEMMA SendsOnlyKept ==
  ASSUME NEW s, NEW r, Sound(r), SendsOnly(s, r) \/ r.streams = s.streams
  PROVE  Kept(s, r)
BY DEF Kept, WatchedStill, WatchedStream, SendsOnly

LEMMA KeptTransitive ==
  ASSUME NEW s, NEW q, NEW r, Kept(s, q), Kept(q, r)
  PROVE  Kept(s, r)
BY DEF Kept, WatchedStill

LEMMA EndStreamKept ==
  ASSUME NEW s, Sound(s), NEW t \in Types, NEW stop \in BOOLEAN
  PROVE  Kept(s, endStream(s, t, stop))
<1>. DEFINE r == endStream(s, t, stop)
<1>1. Ended(s, t, r)
  BY EndStreamSound
<1>. HIDE DEF r
<1>. QED BY <1>1, EndedWatched DEF Kept, WatchedStill, Ended, r

LEMMA DataTimeoutKept ==
  ASSUME Sound(session), NEW t \in Types, DataTimeout(t)
  PROVE  Kept(session, session')
<1>. DEFINE s == [session EXCEPT !.streams[t].data = "off"]
            stop == session.streams[t].data = "stop"
<1>1. session' = endStream(s, t, stop) /\ stop \in BOOLEAN
  BY DEF DataTimeout
<1>2. Sound(s) /\ \A u \in Types : u # t => s.streams[u] = session.streams[u]
  BY DataSound
<1>. HIDE DEF s, stop
<1>3. Ended(s, t, session')
  BY <1>1, <1>2, EndStreamSound
<1>4. \A u \in Types : (u # t => WatchedStream(s, u)) => WatchedStream(session', u)
  BY <1>3, EndedWatched
<1>. QED BY <1>2, <1>3, <1>4 DEF Kept, WatchedStill, WatchedStream, Ended

LEMMA GapTimeoutKept ==
  ASSUME Sound(session), NEW t \in Types, GapTimeout(t)
  PROVE  Kept(session, session')
<1>. DEFINE s == [session EXCEPT !.streams[t].gap = FALSE]
<1>1. session' = GapEnds(s, t)
  BY DEF GapTimeout
<1>2. Kept(session, s)
  BY GapOverSound DEF Kept
<1>. HIDE DEF s
<1>3. Kept(s, session')
  BY <1>1, <1>2, GapEndsSound DEF Kept
<1>. QED BY <1>2, <1>3, KeptTransitive

LEMMA CodecTimeoutKept ==
  ASSUME Sound(session), NEW t \in Types, CodecTimeout(t)
  PROVE  Kept(session, session')
<1>. DEFINE s == [session EXCEPT !.streams[t].codec = FALSE]
<1>1. session' = CodecEnds(s, t)
  BY DEF CodecTimeout
<1>2. Kept(session, s)
  BY CodecOverSound DEF Kept
<1>. HIDE DEF s
<1>3. Kept(s, session')
  BY <1>1, <1>2, CodecEndsSound DEF Kept
<1>. QED BY <1>2, <1>3, KeptTransitive

\* A timer of a stream that was replaced acts on the stream that runs now.
LEMMA LateTimeoutKept ==
  ASSUME Sound(session), NEW t \in Types, NEW k \in Timers, LateTimeout(t, k)
  PROVE  Kept(session, session')
<1>. DEFINE n == session.late[t][k] - 1
            s == [session EXCEPT !.late[t][k] = n]
            stop == k = "stop"
<1>1. session' = CASE k = "gap" -> GapEnds(s, t)
                   [] k = "codec" -> CodecEnds(s, t)
                   [] OTHER -> endStream(s, t, stop)
  BY DEF LateTimeout
<1>2. n \in Nat
  BY DEF LateTimeout, Sound, Session
<1>. HIDE DEF n
<1>3. Sound(s) /\ s.streams = session.streams
  BY <1>2, LateSound
<1>. HIDE DEF s
<1>4. Kept(session, s)
  BY <1>3, SendsOnlyKept
<1>5. Kept(s, session')
  <2>1. CASE k = "gap"
    BY <1>1, <1>3, <2>1, GapEndsSound DEF Kept
  <2>2. CASE k = "codec"
    BY <1>1, <1>3, <2>2, CodecEndsSound DEF Kept
  <2>3. CASE k # "gap" /\ k # "codec"
    <3>1. session' = endStream(s, t, stop) /\ stop \in BOOLEAN
      BY <1>1, <2>3
    <3>. HIDE DEF stop
    <3>. QED BY <1>3, <3>1, EndStreamKept
  <2>. QED BY <2>1, <2>2, <2>3
<1>. QED BY <1>4, <1>5, KeptTransitive

-----------------------------------------------------------------------------
(* The application and the commands on their way *)

LEMMA SendCommandKept ==
  ASSUME NEW s, Sound(s), NEW kind \in Sent, NEW c \in Channels \cup {NoChannel}
  PROVE  Kept(s, sendCommand(s, kind, c))
BY SendCommandSound, SendsOnlyKept

LEMMA RequestsKept ==
  ASSUME Sound(session), NEW c \in Channels,
         StartLivestream(c) \/ StopLivestream(c) \/ StartDownload(c) \/ CancelDownload(c)
  PROVE  Kept(session, session')
<1>1. c \in Channels \cup {NoChannel}
  OBVIOUS
<1>2. \E kind \in Sent : session' = sendCommand(session, kind, c)
  BY DEF StartLivestream, StopLivestream, StartDownload, CancelDownload, Sent
<1>. QED BY <1>1, <1>2, SendCommandKept

LEMMA SendQueuedKept ==
  ASSUME NEW s, Sound(s), NoneLost(s)
  PROVE  Kept(s, sendQueuedMessage(s))
BY SendQueuedMessageSound, SendsOnlyKept

\* The await of a first sending ends, on the connection it was sent on or after it was lost.
LEMMA ResumesKept ==
  ASSUME Sound(session), NEW m \in session.flight, Resumes(m)
  PROVE  Kept(session, session')
<1>. DEFINE lost == Without(session, m)
            sent == [session EXCEPT !.flight = (@ \ {m}) \cup {[m EXCEPT !.stage = "sent"]}]
            s == IF m.stage = "lost" THEN lost ELSE sent
<1>1. session' = AfterSending(s, m) /\ m.stage \in {"sending", "lost"}
  BY DEF Resumes
<1>2. m \in Command
  BY DEF Sound, Session
<1>3. CASE m.stage = "lost"
  <2>1. Sound(lost) /\ NoneLost(lost) /\ lost.streams = session.streams /\ lost.closing = session.closing
    BY WithoutSound
  <2>2. ~session.closing /\ \A t \in Types : ~session.streams[t].streaming
    BY <1>3 DEF Sound, LostAlone
  <2>3. session' = AfterSending(lost, m)
    BY <1>1, <1>3
  <2>. HIDE DEF lost
  <2>4. Kept(session, lost)
    BY <2>1, SendsOnlyKept
  <2>5. Kept(lost, session')
    BY <1>2, <2>1, <2>2, <2>3, AfterSendingSound DEF Kept
  <2>. QED BY <2>4, <2>5, KeptTransitive
<1>4. CASE m.stage = "sending"
  <2>1. Sound(sent) /\ NoneLost(sent) /\ sent.streams = session.streams /\ sent.closing = session.closing
        /\ Unacknowledged(sent)
    BY <1>4, AdvancedSound
  <2>2. ~session.closing
    BY <1>4 DEF Sound, ClosingIdle
  <2>3. session' = AfterSending(sent, m)
    BY <1>1, <1>4
  <2>. HIDE DEF sent
  <2>4. Kept(session, sent)
    BY <2>1, SendsOnlyKept
  <2>5. Kept(sent, session')
    BY <1>2, <2>1, <2>2, <2>3, AfterSendingSound DEF Kept
  <2>. QED BY <2>4, <2>5, KeptTransitive
<1>. QED BY <1>1, <1>3, <1>4

LEMMA AcknowledgedKept ==
  ASSUME Sound(session), NEW m \in session.flight, Acknowledged(m)
  PROVE  Kept(session, session')
<1>. DEFINE s == [session EXCEPT !.flight = (@ \ {m}) \cup {[m EXCEPT !.stage = "acknowledged"]}]
<1>1. session' = sendQueuedMessage(s) /\ m.stage = "sent"
  BY DEF Acknowledged
<1>2. Sound(s) /\ NoneLost(s) /\ s.streams = session.streams
  BY <1>1, AdvancedSound
<1>. HIDE DEF s
<1>3. Kept(session, s) /\ Kept(s, session')
  BY <1>1, <1>2, SendsOnlyKept, SendQueuedKept
<1>. QED BY <1>3, KeptTransitive

\* The result of a start command arms the data timer, of whatever stream runs.
LEMMA ResultKept ==
  ASSUME Sound(session), NEW m \in session.flight, Result(m)
  PROVE  Kept(session, session')
<1>. DEFINE without == Without(session, m)
            open == [without EXCEPT !.closing = FALSE]
            s == sendQueuedMessage(open)
            Armed(t) == [s EXCEPT !.streams[t].data = "stop"]
<1>1. session' = CASE m.kind = "start" -> Armed("VIDEO")
                   [] m.kind = "download" -> Armed("BINARY")
                   [] OTHER -> s
  BY DEF Result
<1>2. Sound(without) /\ NoneLost(without) /\ without.streams = session.streams
  BY WithoutSound
<1>. HIDE DEF without
<1>3. Sound(open) /\ NoneLost(open) /\ open.streams = session.streams
  BY <1>2, OpenSound DEF NoneLost
<1>. HIDE DEF open
<1>4. Kept(session, s)
  <2>1. Kept(session, open) /\ Kept(open, s)
    BY <1>3, SendsOnlyKept, SendQueuedKept
  <2>. HIDE DEF s
  <2>. QED BY <2>1, KeptTransitive
<1>. HIDE DEF s
<1>5. \A t \in Types : Kept(s, Armed(t))
  BY <1>4, DataSound DEF Kept
<1>. HIDE DEF Armed
<1>6. Kept(session, Armed("VIDEO")) /\ Kept(session, Armed("BINARY"))
  BY <1>4, <1>5, StreamTypes, KeptTransitive
<1>. QED BY <1>1, <1>4, <1>6

LEMMA ResultMissingKept ==
  ASSUME Sound(session), NEW m \in session.flight, ResultMissing(m)
  PROVE  Kept(session, session')
<1>. DEFINE s == Without(session, m)
<1>1. session' = sendQueuedMessage(s)
  BY DEF ResultMissing
<1>2. Sound(s) /\ NoneLost(s) /\ s.streams = session.streams
  BY WithoutSound
<1>. HIDE DEF s
<1>3. Kept(session, s) /\ Kept(s, session')
  BY <1>1, <1>2, SendsOnlyKept, SendQueuedKept
<1>. QED BY <1>3, KeptTransitive

LEMMA GivenUpKept ==
  ASSUME Sound(session), NEW m \in session.flight, GivenUp(m)
  PROVE  Kept(session, session')
<1>. DEFINE t == IF m.kind = "start" THEN "VIDEO" ELSE "BINARY"
            ended == IF m.kind \in {"start", "download"} /\ IsStreaming(session, t, m.channel)
                     THEN endStream(session, t, FALSE) ELSE session
            without == Without(ended, m)
            s == sendQueuedMessage(without)
            open == [s EXCEPT !.closing = FALSE]
<1>1. session' = closeEnergySavingDevice(open)
  BY DEF GivenUp
<1>2. t \in Types
  BY StreamTypes
<1>3. Kept(session, ended) /\ ended.flight = session.flight
  <2>1. LET e == endStream(session, t, FALSE) IN Kept(session, e) /\ e.flight = session.flight
    <3>. HIDE DEF t
    <3>. QED BY <1>2, EndStreamKept, EndStreamSound
  <2>2. Kept(session, session)
    BY SendsOnlyKept
  <2>. HIDE DEF t
  <2>. QED BY <2>1, <2>2
<1>. HIDE DEF ended
<1>4. Sound(without) /\ NoneLost(without) /\ Kept(ended, without)
  <2>1. Sound(without) /\ NoneLost(without) /\ without.streams = ended.streams
    BY <1>3, WithoutSound DEF Kept
  <2>. HIDE DEF without
  <2>. QED BY <2>1, SendsOnlyKept
<1>. HIDE DEF without
<1>5. Kept(without, s) /\ NoneLost(s)
  BY <1>4, SendQueuedKept, SendQueuedMessageSound DEF SendsOnly, NoneLost
<1>. HIDE DEF s
<1>6. Kept(s, open) /\ NoneLost(open)
  <2>1. Sound(open) /\ open.streams = s.streams /\ open.flight = s.flight
    BY <1>5, OpenSound DEF Kept
  <2>. HIDE DEF open
  <2>. QED BY <1>5, <2>1, SendsOnlyKept DEF NoneLost
<1>. HIDE DEF open
<1>7. Kept(open, session')
  <2>1. Sound(session') /\ SendsOnly(open, session')
    BY <1>1, <1>6, CloseSound DEF Kept
  <2>. QED BY <2>1, SendsOnlyKept
<1>8. Kept(session, without)
  BY <1>3, <1>4, KeptTransitive
<1>9. Kept(without, session')
  BY <1>5, <1>6, <1>7, KeptTransitive
<1>. QED BY <1>8, <1>9, KeptTransitive

-----------------------------------------------------------------------------
(* The camera and the connection *)

\* Both ways of a frame first take the gap for closed and arm the data timer.
LEMMA FrameKept ==
  ASSUME Sound(session), NEW t \in Types, Frame(t)
  PROVE  Kept(session, session')
<1>. DEFINE old == session.streams[t]
            s == [session EXCEPT !.streams[t].gap = FALSE]
            heard == [s EXCEPT !.streams[t].data = "stop"]
            first == ~old.video /\ ~old.audio
            seen == Seen(heard, t, first)
            both == Heard(heard, t)
<1>1. \/ session' = s
      \/ /\ old.streaming
         /\ session' \in {seen, emitStreamStartEvent(seen, t), both, emitStreamStartEvent(both, t)}
  BY Zenon DEF Frame, Seen, Heard
<1>2. session \in Session /\ old \in Stream
  BY DEF Sound, Session
<1>3. first \in BOOLEAN
  BY <1>2 DEF Stream
<1>4. Kept(session, s) /\ s.streams[t].streaming = old.streaming
  <2>1. s.streams[t].streaming = old.streaming
    BY <1>2 DEF Session, Stream
  <2>. QED BY <2>1, GapOverSound DEF Kept
<1>5. Kept(s, heard) /\ heard.streams[t].streaming = s.streams[t].streaming
  <2>1. s \in Session
    BY <1>4 DEF Kept, Sound
  <2>. HIDE DEF s
  <2>2. heard.streams[t].streaming = s.streams[t].streaming
    BY <2>1 DEF Session, Stream
  <2>. QED BY <1>4, <2>2, DataSound DEF Kept
<1>. HIDE DEF s, first
<1>6. Kept(session, heard)
  BY <1>4, <1>5, KeptTransitive
<1>. HIDE DEF heard
<1>7. ASSUME old.streaming
      PROVE  /\ Kept(heard, seen) /\ seen.streams[t].streaming
             /\ Kept(heard, both) /\ both.streams[t].streaming
  BY <1>3, <1>4, <1>5, <1>7, SeenSound, HeardSound DEF Kept
<1>. HIDE DEF seen, both
<1>8. ASSUME old.streaming
      PROVE  Kept(seen, emitStreamStartEvent(seen, t)) /\ Kept(both, emitStreamStartEvent(both, t))
  BY <1>7, <1>8, EmitWatched DEF Kept
<1>9. CASE session' = s
  BY <1>4, <1>9
<1>10. CASE old.streaming /\ session' \in {seen, emitStreamStartEvent(seen, t),
                                           both, emitStreamStartEvent(both, t)}
  <2>1. Kept(session, seen) /\ Kept(session, both)
    BY <1>6, <1>7, <1>10, KeptTransitive
  <2>2. Kept(session, emitStreamStartEvent(seen, t)) /\ Kept(session, emitStreamStartEvent(both, t))
    BY <1>8, <1>10, <2>1, KeptTransitive
  <2>. QED BY <1>10, <2>1, <2>2
<1>. QED BY <1>1, <1>9, <1>10

LEMMA UndecryptableFrameKept ==
  ASSUME Sound(session), NEW t \in Types, UndecryptableFrame(t)
  PROVE  Kept(session, session')
<1>. DEFINE channel == session.streams[t].channel
            s == Discarded(session, t)
<1>1. session' \in {s, sendCommand(s, "stop", channel)}
  BY DEF UndecryptableFrame, Discarded
<1>2. channel \in Channels \cup {NoChannel} /\ "stop" \in Sent
  BY DEF Sound, Session, Stream, Sent
<1>. HIDE DEF channel
<1>3. Kept(session, s)
  BY DiscardedSound DEF Kept
<1>. HIDE DEF s
<1>4. Kept(s, sendCommand(s, "stop", channel))
  BY <1>2, <1>3, SendCommandKept DEF Kept
<1>. QED BY <1>1, <1>3, <1>4, KeptTransitive

LEMMA FrameOutOfSequenceKept ==
  ASSUME Sound(session), NEW t \in Types, FrameOutOfSequence(t)
  PROVE  Kept(session, session')
<1>. DEFINE stream == [session.streams[t] EXCEPT !.gap = TRUE]
<1>1. session' = [session EXCEPT !.streams[t] = stream]
  BY DEF FrameOutOfSequence
<1>2. session.streams[t] \in Stream
  BY DEF Sound, Session
<1>3. /\ stream \in Stream /\ SameRun(session.streams[t], stream)
      /\ stream.data = session.streams[t].data
  BY <1>2 DEF Stream, SameRun, Sound, VideoRuns
<1>. HIDE DEF stream
<1>. QED BY <1>1, <1>3, OneStreamSound, OneStreamWatched DEF Kept

LEMMA ConvertedKept ==
  ASSUME Sound(session), NEW c \in Channels \cup {NoChannel}, Converted(c)
  PROVE  Kept(session, session')
<1>. DEFINE old == session.streams["BINARY"]
            channel == IF c = NoChannel THEN old.channel ELSE c
<1>1. /\ session.connected /\ (old.streaming => c \in {old.channel, NoChannel})
      /\ session' = Converting(session, channel, old.revived \/ ~old.streaming)
  BY DEF Converted, Receives, Converting, Sound, Session
<1>2. channel \in Channels \cup {NoChannel}
  BY StreamTypes DEF Sound, Session, Stream
<1>3. old.streaming => channel = old.channel
  BY <1>1
<1>. HIDE DEF channel
<1>. QED BY <1>1, <1>2, <1>3, ConvertingSound DEF Kept

LEMMA FinishedKept ==
  ASSUME Sound(session), Finished
  PROVE  Kept(session, session')
BY EndStreamKept, StreamTypes DEF Finished

LEMMA ConnectsKept ==
  ASSUME Sound(session), Connects
  PROVE  Kept(session, session')
<1>. DEFINE s == [session EXCEPT !.connected = TRUE]
<1>1. session' = sendQueuedMessage(s) /\ NoneLost(session)
  BY DEF Connects, NoneLost
<1>2. /\ s \in Session /\ s.flight = session.flight /\ s.queue = session.queue
      /\ s.closing = session.closing /\ s.streams = session.streams /\ s.told = session.told
      /\ s.silent = session.silent
  BY DEF Sound, Session
<1>. HIDE DEF s
<1>3. Sound(s) /\ NoneLost(s)
  BY <1>1, <1>2 DEF Sound, OneAtATime, VideoRuns, ToldOf, Over, IsStreaming, ClosingIdle, LostAlone, NoneLost
<1>4. Kept(session, s) /\ Kept(s, session')
  BY <1>1, <1>2, <1>3, SendsOnlyKept, SendQueuedKept
<1>. QED BY <1>4, KeptTransitive

LEMMA KeepsAliveKept ==
  ASSUME Sound(session), KeepsAlive
  PROVE  Kept(session, session')
<1>1. NoneLost(session) /\ session' = sendQueuedMessage(session)
  BY DEF KeepsAlive, Sound, LostAlone, NoneLost
<1>. QED BY <1>1, SendQueuedKept

LEMMA DisconnectedKept ==
  ASSUME Sound(session), ConnectionLost \/ BatterySaved
  PROVE  Kept(session, session')
<1>1. session' = Disconnected(session)
  BY DEF ConnectionLost, BatterySaved
<1>. QED BY <1>1, DisconnectedSound DEF Kept, WatchedStill, WatchedStream

-----------------------------------------------------------------------------
(* The theorems *)

LEMMA InitSound ==
  ASSUME Init
  PROVE  Sound(session) /\ Watched
<1>1. session \in Session
  BY StreamTypes DEF Init, Session, Timers
<1>2. \A t \in Types : session.streams[t] = NoStream /\ session.told[t] = NoChannel
  BY DEF Init
<1>3. OneAtATime(session)
  BY FS_EmptySet DEF Init, OneAtATime
<1>4. VideoRuns(session) /\ ToldOf(session) /\ Watched
  BY <1>2 DEF VideoRuns, ToldOf, Over, Watched, NoStream
<1>5. ClosingIdle(session) /\ LostAlone(session)
  BY DEF Init, ClosingIdle, LostAlone
<1>. QED BY <1>1, <1>3, <1>4, <1>5 DEF Sound

LEMMA NextKept ==
  ASSUME Sound(session), [Next]_vars
  PROVE  Kept(session, session')
<1>1. ASSUME NEW c \in Channels,
             StartLivestream(c) \/ StopLivestream(c) \/ StartDownload(c) \/ CancelDownload(c)
      PROVE  Kept(session, session')
  BY <1>1, RequestsKept
<1>2. ASSUME NEW m \in session.flight, Resumes(m) \/ Answered(m) \/ ResultMissing(m)
      PROVE  Kept(session, session')
  BY <1>2, ResumesKept, AcknowledgedKept, ResultKept, GivenUpKept, ResultMissingKept DEF Answered
<1>3. ASSUME NEW t \in Types,
             \/ DataTimeout(t) \/ GapTimeout(t) \/ CodecTimeout(t)
             \/ Frame(t) \/ UndecryptableFrame(t) \/ FrameOutOfSequence(t)
      PROVE  Kept(session, session')
  BY <1>3, DataTimeoutKept, GapTimeoutKept, CodecTimeoutKept, FrameKept, UndecryptableFrameKept,
     FrameOutOfSequenceKept
<1>4. ASSUME NEW t \in Types, NEW k \in Timers, LateTimeout(t, k)
      PROVE  Kept(session, session')
  BY <1>4, LateTimeoutKept
<1>5. ASSUME NEW c \in Channels \cup {NoChannel}, Converted(c)
      PROVE  Kept(session, session')
  BY <1>5, ConvertedKept
<1>6. CASE Finished \/ Connects \/ KeepsAlive \/ ConnectionLost \/ BatterySaved
  BY <1>6, FinishedKept, ConnectsKept, KeepsAliveKept, DisconnectedKept
<1>7. CASE UNCHANGED vars
  BY <1>7, SendsOnlyKept DEF vars
<1>. QED BY <1>1, <1>2, <1>3, <1>4, <1>5, <1>6, <1>7, Zenon DEF Next

LEMMA SoundAndWatched == Spec => [](Sound(session) /\ Watched)
<1>1. Init => Sound(session) /\ Watched
  BY InitSound
<1>2. (Sound(session) /\ Watched) /\ [Next]_vars => (Sound(session) /\ Watched)'
  <2>1. SUFFICES ASSUME Sound(session), Watched, [Next]_vars
                 PROVE  Sound(session') /\ Watched'
    OBVIOUS
  <2>2. Kept(session, session')
    BY <2>1, NextKept
  <2>. QED BY <2>1, <2>2 DEF Kept, WatchedStill, WatchedStream, Watched
<1>. QED BY <1>1, <1>2, PTL DEF Spec

\* The session keeps its types, and one command at a time waits for its acknowledgement, for
\* every set of channels and every bound of a behaviour.
THEOREM TypeCorrect == Spec => []TypeOK
<1>1. Sound(session) => TypeOK
  BY DEF Sound, Session, OneAtATime, Queued, Sent, TypeOK
<1>. QED BY <1>1, SoundAndWatched, PTL

\* However streams are started, ended, replaced and lost, a stream that is marked as running has
\* its data timer armed, all but a download that the camera marked: waitForStreamData.
THEOREM StreamsWatched == Spec => []Watched
BY SoundAndWatched, PTL

\* Whatever ends a stream (a command, the camera, a timer that may be late, the connection), the
\* application that was told of it is told of its end, but for a stream found undecryptable.
THEOREM EndsTold == Spec => []EndIsTold
<1>1. Sound(session) => EndIsTold
  BY DEF Sound, ToldOf, Over, EndIsTold
<1>. QED BY <1>1, SoundAndWatched, PTL

\* The connection of a battery device is never about to be closed while a stream runs that a
\* command started, in whatever order commands, acknowledgements and timers come.
THEOREM BatteryCloseWaitsForStreams == Spec => []BatteryCloseWaits
<1>1. Sound(session) => BatteryCloseWaits
  BY DEF Sound, ClosingIdle, BatteryCloseWaits
<1>. QED BY <1>1, SoundAndWatched, PTL
=============================================================================
