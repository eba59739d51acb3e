--------------------------- MODULE MCP2PCommands ---------------------------
(* Instances of P2PCommands for TLC. *)
EXTENDS P2PCommands

CONSTANTS c1, c2, c3, p1

\* Types that tell the commands apart, and types that do not.
MCOwnType == [m \in Messages |-> m]
MCOneType == [m \in Messages |-> IF m \in Commands \ Pings THEN "SET" ELSE m]
=============================================================================
