------------------------------- MODULE FrameLink -------------------------------
(***************************************************************************)
(* What the CM client may rely on of a transport (class IConnection of     *)
(* include/steamclient/connections/connection.hpp): a link that is opened  *)
(* and closed again, and carries whole frames in both directions in order, *)
(* each at most once, and to or from the present connection only. There    *)
(* are no sockets, operations, handlers or threads here.                   *)
(***************************************************************************)
EXTENDS Naturals, Sequences

CONSTANTS
  MaxFrames,       \* bound: frames the server numbers on one connection
  MaxSends         \* bound: calls of async_send()

VARIABLES
  phase,           \* state()
  epoch,           \* number of the present (or last) connection
  carrying,        \* bytes can move
  arriving,        \* frames on their way to the handler
  received,        \* frames the handler got
  leaving,         \* frames passed to async_send and not sent
  sent             \* frames the peer can get, with the connection

link == <<phase, epoch, carrying, arriving, received, leaving, sent>>

Init ==
  /\ phase = "DISCONNECTED"
  /\ epoch = 0
  /\ carrying = FALSE
  /\ arriving = << >>
  /\ received = << >>
  /\ leaving = << >>
  /\ sent = << >>

\* network_connect() begins a connection; nothing is left of the last one.
Open ==
  /\ phase = "DISCONNECTED"
  /\ ~carrying
  /\ arriving = << >>
  /\ phase' = "CONNECTING"
  /\ epoch' = epoch + 1
  /\ UNCHANGED <<carrying, arriving, received, leaving, sent>>

\* The peer has accepted: it may send before the client knows of it ...
Accept ==
  /\ phase = "CONNECTING"
  /\ ~carrying
  /\ arriving = << >>
  /\ carrying' = TRUE
  /\ UNCHANGED <<phase, epoch, arriving, received, leaving, sent>>

\* ... and the client learns of it, perhaps when it has already ended.
Established ==
  /\ phase = "CONNECTING"
  /\ phase' = "CONNECTED"
  /\ UNCHANGED <<epoch, carrying, arriving, received, leaving, sent>>

\* network_close(), or the end of the connection from outside. At most one
\* frame survives it; all the others that had not been delivered are lost.
\* The state may follow later.
Close ==
  /\ carrying' = FALSE
  /\ \/ arriving' = << >>
     \/ arriving # << >> /\ arriving' = <<Head(arriving)>>
  /\ phase' \in {phase, "DISCONNECTED"}
  /\ UNCHANGED <<epoch, received, leaving, sent>>

\* The peer sends a frame; number 0 is one that is not valid.
Arrive ==
  /\ carrying
  /\ \E n \in 0 .. MaxFrames :
       arriving' = Append(arriving, [conn |-> epoch, n |-> n])
  /\ UNCHANGED <<phase, epoch, carrying, received, leaving, sent>>

\* The handler of set_on_frame() gets the next frame, which is a valid one of
\* the present connection.
Deliver ==
  /\ arriving # << >>
  /\ Head(arriving).n > 0
  /\ Head(arriving).conn = epoch
  /\ received' = Append(received, Head(arriving))
  /\ arriving' = Tail(arriving)
  /\ UNCHANGED <<phase, epoch, carrying, leaving, sent>>

\* async_send(), in any state.
Send ==
  /\ \E id \in 1 .. MaxSends :
       leaving' = Append(leaving, [conn |-> epoch, id |-> id])
  /\ UNCHANGED <<phase, epoch, carrying, arriving, received, sent>>

\* A frame is sent, on the connection it was meant for.
Transmit ==
  /\ carrying
  /\ leaving # << >>
  /\ Head(leaving).conn = epoch
  /\ sent' = Append(sent, [packet |-> Head(leaving), via |-> epoch])
  /\ leaving' = Tail(leaving)
  /\ UNCHANGED <<phase, epoch, carrying, arriving, received>>

Next ==
  Open \/ Accept \/ Established \/ Close \/ Arrive \/ Deliver \/ Send \/ Transmit

Spec == Init /\ [][Next]_link
=============================================================================
