--------------------------- MODULE MCCloudSession ---------------------------
(*
 CloudSession with its parts at their limits in turn: three requests that are
 refused and log in again, three push clients, three MQTT clients for two locks,
 and all of it small.
*)
EXTENDS CloudSession

B(awaited, tokens, push, mqtt, lock) ==
  [requests |-> awaited, tokens |-> tokens, clients |-> push, sessions |-> mqtt, locks |-> lock]
MCBounds == {B(3, 3, 0, 0, 0), B(1, 2, 3, 0, 0), B(2, 2, 2, 0, 0), B(2, 2, 0, 3, 2), B(1, 2, 1, 1, 1)}
=============================================================================
