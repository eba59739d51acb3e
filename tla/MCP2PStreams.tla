---------------------------- MODULE MCP2PStreams ----------------------------
(*
 P2PStreams with a livestream and a download, each with a connection that is lost
 or enough messages to be told of it and found invalid after that, and both at once.
*)
EXTENDS P2PStreams

B(types, requests, packets, faults) ==
  [types |-> types, requests |-> requests, packets |-> packets, faults |-> faults]
MCBounds ==
  {B({"VIDEO"}, 2, 2, 1), B({"BINARY"}, 1, 2, 1), B({"VIDEO"}, 1, 3, 0), B({"BINARY"}, 1, 3, 0),
   B(Types, 2, 1, 0), B(Types, 2, 0, 1)}
=============================================================================
