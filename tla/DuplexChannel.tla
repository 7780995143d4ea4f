--------------------------- MODULE DuplexChannel ---------------------------
(***************************************************************************)
(* What a TCPConn promises its user about the channel itself               *)
(* (net/tcpconn.h): two halves that close on their own and never open      *)
(* again, a write half that drains before its FIN, and one descriptor that *)
(* is released when both halves are closed.                                *)
(***************************************************************************)
EXTENDS Naturals

VARIABLES
  reading,   \* the read half is open
  writing,   \* the write half: "open", "draining" (to be closed) or "shut"
  pending,   \* bytes accepted, neither sent nor lost with a failed send
  wire       \* what the peer was told: "open", "fin", "closed" or "reset"

chanVars == <<reading, writing, pending, wire>>

ChannelInit ==
  reading = TRUE /\ writing = "open" /\ pending = 0 /\ wire = "open"

(* The user hands in data, the socket takes some. *)
Transfer ==
  /\ writing # "shut"
  /\ pending' \in Nat
  /\ writing = "draining" => pending' > 0
  /\ UNCHANGED <<reading, writing, wire>>

(* One or both halves are closed; data still pending makes the write half  *)
(* drain first, and only an empty write half is shut.                      *)
CloseHalves ==
  /\ reading' => reading
  /\ \/ writing' = writing /\ pending' = pending
     \/ writing # "shut" /\ writing' = "draining" /\ pending' = pending /\ pending > 0
     \/ writing # "shut" /\ writing' = "shut" /\ pending' = 0
  /\ wire' = IF wire = "reset" THEN "reset"
             ELSE IF writing' # "shut" THEN "open"
             ELSE IF reading' THEN "fin" ELSE "closed"

(* Both halves at once, whatever is pending: the peer sees a reset.  A     *)
(* descriptor that is already released cannot reset the peer any more.     *)
Abort ==
  /\ reading' = FALSE /\ writing' = "shut" /\ pending' \in {pending, 0}
  /\ wire' = IF ~reading /\ writing = "shut" THEN wire ELSE "reset"

ChannelNext == Transfer \/ CloseHalves \/ Abort

ChannelSpec == ChannelInit /\ [][ChannelNext]_chanVars
========================================
