----------------------------- MODULE FifoStream -----------------------------
(***************************************************************************)
(* What the receiving side of one P2P data stream promises, whatever the   *)
(* network does to the datagrams: the handler of a datagram parses none or *)
(* several messages, those that follow the last one parsed, each once and  *)
(* in the order the station numbered them.  Only the end of a media stream *)
(* passes over messages, and it never goes back.                           *)
(*                                                                         *)
(* A message is known by its position: the lap of the sequence counter and *)
(* the number in it.                                                       *)
(***************************************************************************)
EXTENDS Integers, Sequences

CONSTANTS
  MAX_SEQUENCE_NUMBER,
  Window,              \* how far the station may be ahead of the message that is expected
  MediaStream          \* whether this is a VIDEO or BINARY stream: these can end and start again

ASSUME SequenceAssumption ==
  /\ MAX_SEQUENCE_NUMBER \in Nat \ {0}
  /\ Window \in Nat \ {0} /\ Window <= MAX_SEQUENCE_NUMBER
ASSUME MediaAssumption == MediaStream \in BOOLEAN

VARIABLES
  sent,     \* the position the station gives to its next message
  cursor,   \* the position after the last message parsed
  parsed    \* the messages parsed by the last handler that parsed any

stream == <<sent, cursor, parsed>>

SeqNos == 0 .. MAX_SEQUENCE_NUMBER
Modulus == MAX_SEQUENCE_NUMBER + 1
Position == [lap : Nat, no : SeqNos]

\* How far q is ahead of p (negative: behind); more than a lap counts as a lap.
Distance(p, q) ==
  CASE q.lap = p.lap     -> q.no - p.no
    [] q.lap = p.lap + 1 -> q.no - p.no + Modulus
    [] p.lap = q.lap + 1 -> q.no - p.no - Modulus
    [] OTHER             -> IF q.lap > p.lap THEN Modulus ELSE -Modulus

\* The position n messages after p, for n of at most a lap.
Advance(p, n) ==
  IF p.no + n <= MAX_SEQUENCE_NUMBER
    THEN [lap |-> p.lap, no |-> p.no + n]
    ELSE [lap |-> p.lap + 1, no |-> p.no + n - Modulus]

FifoInit ==
  /\ sent = [lap |-> 0, no |-> 0]
  /\ cursor = [lap |-> 0, no |-> 0]
  /\ parsed = <<>>

SendNext ==
  /\ sent' = Advance(sent, 1)
  /\ UNCHANGED <<cursor, parsed>>

\* n messages are parsed: the ones that come next.
Parse(n) ==
  /\ parsed' = [i \in 1 .. n |-> Advance(cursor, i - 1)]
  /\ cursor' = Advance(cursor, n)
  /\ UNCHANGED sent

\* The end of a media stream passes over what it does not wait for any more.
PassOver(n) ==
  /\ MediaStream
  /\ cursor' = Advance(cursor, n)
  /\ UNCHANGED <<sent, parsed>>

FifoNext ==
  \/ SendNext
  \/ \E n \in 1 .. Window : Parse(n)
  \/ \E n \in 1 .. Window : PassOver(n)

FifoSpec == FifoInit /\ [][FifoNext]_stream
=============================================================================
