--------------------------- MODULE TCPConnectionLink ---------------------------
(***************************************************************************)
(* TCPConnection implements FrameLink, for an application that lets the    *)
(* handlers of one connection run before it connects again.                *)
(***************************************************************************)
EXTENDS TCPConnection

\* A body that was read is still on its way to the handler, before what the
\* socket holds.
Arriving ==
  (IF succeeded["body"] > 0 THEN <<body_buffer_>> ELSE << >>) \o inbound

\* The front of write_queue_ has left once its write has succeeded.
Leaving == IF succeeded["write"] > 0 THEN Tail(write_queue_) ELSE write_queue_

Link == INSTANCE FrameLink WITH
          MaxFrames <- MaxPeerFrames,
          phase <- state_, epoch <- connects,
          carrying <- socket_ \in {"connected", "broken"},
          arriving <- Arriving, received <- delivered,
          leaving <- Leaving, sent <- outbound

\* IConnection: whatever the interleaving of the user thread, the handlers and
\* the network, the connection is a link that keeps frames whole, in order,
\* unduplicated and on their own connection, and loses them only when it ends.
ImplementsFrameLink == Link!Spec
=============================================================================
