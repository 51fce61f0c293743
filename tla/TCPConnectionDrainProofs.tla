------------------------ MODULE TCPConnectionDrainProofs ------------------------
(***************************************************************************)
(* Proofs about TCPConnection for an application that lets the handlers of *)
(* one connection run before it connects again (EagerReconnect = FALSE),   *)
(* for every bound.                                                        *)
(*                                                                         *)
(* None of the properties is inductive. Four invariants carry them, each   *)
(* resting on the ones before and on TypeOK, SingleReadChain and OneWriter *)
(* of TCPConnectionProofs:                                                 *)
(*   SocketInv  the socket, state_ and the outstanding operations agree;   *)
(*   ReadInv    every read starts at a frame boundary;                     *)
(*   PrefixInv  what was delivered, what was read and what the socket      *)
(*              still holds are consecutive frames of one connection;      *)
(*   WriteInv   the queue and what was written are in the order of the     *)
(*              calls, and of the present connection.                      *)
(* A fifth, TurnInv, numbers what is queued and written. It holds for      *)
(* every application and is proved here because it uses the same lemmas.   *)
(* Each has a lemma per asio call (what it does to the counts of           *)
(* operations), one for the steps it does not concern, and a step lemma    *)
(* with a case per action.                                                 *)
(*                                                                         *)
(* The last part shows that TCPConnection implements FrameLink: every step *)
(* of the threads, the handlers and the network is a step of the link or   *)
(* leaves it unchanged.                                                    *)
(***************************************************************************)
EXTENDS TCPConnectionLink, TCPConnectionProofs

\* Bytes can move, or did and can still be read.
Carrying == socket_ \in {"connected", "broken"}
\* connect() is running on the user thread.
InCall   == ut \in {"fetching", "resolving"}

\* No operation of any kind is counted by f.
None(f) == f["connect"] = 0 /\ f["header"] = 0 /\ f["body"] = 0 /\ f["write"] = 0

\* No operation of kind k exists, or exactly one.
NoOp(k)  == waiting[k] = 0 /\ succeeded[k] = 0 /\ failed[k] = 0
OneOp(k) == \/ waiting[k] = 1 /\ succeeded[k] = 0 /\ failed[k] = 0
            \/ waiting[k] = 0 /\ succeeded[k] = 1 /\ failed[k] = 0
            \/ waiting[k] = 0 /\ succeeded[k] = 0 /\ failed[k] = 1

\* network_close() closes before it stores; connect() starts from a closed
\* socket; a connect handler that is queued without an error means that nobody
\* has closed meanwhile.
SocketInv ==
  /\ state_ = "DISCONNECTED" => socket_ = "closed"
  /\ ut = "storing" => socket_ = "closed"
  /\ InCall => /\ socket_ = "closed"
               /\ state_ = "CONNECTING"
               /\ NoOp("write")
  /\ socket_ = "closed" => None(waiting)
  /\ socket_ \in {"connecting", "connected"} => None(failed)
  /\ socket_ = "connecting" <=> waiting["connect"] > 0
  /\ succeeded["connect"] > 0 => state_ = "CONNECTING" /\ Carrying
  /\ failed["connect"] > 0 => socket_ = "closed"
  /\ NoOp("connect") \/ (state_ # "CONNECTED" /\ ut = "idle")

\* A header read ends before the body of a valid frame, a body read before the
\* next header; a body is waited for only after a valid header. After a close at
\* most one body handler is left to run.
ReadInv ==
  /\ align # "skew"
  /\ ~Carrying => inbound = << >> /\ align = "hdr"
  /\ align = "body" =>
       /\ inbound # << >>
       /\ succeeded["header"] > 0 \/ waiting["body"] > 0 \/ failed["body"] > 0
  /\ waiting["body"] > 0 => align = "body" /\ Head(inbound).n # 0
  /\ succeeded["header"] > 0 =>
       /\ header_buffer_ # "none"
       /\ Carrying =>
            /\ align = "body"
            /\ header_buffer_ = IF Head(inbound).n = 0 THEN "bad" ELSE "valid"
  /\ late # 0 => /\ late = 1
                 /\ state_ = "DISCONNECTED"
                 /\ succeeded["body"] = 0

\* The frames read from the present connection so far.
Consumed == peerSent - Len(inbound)

\* None of them has been delivered.
Fresh == delivered = << >> \/ delivered[Len(delivered)].conn < connects

\* f may be delivered next.
Follows(f) ==
  /\ f.n > 0
  /\ \/ f.n = 1 /\ (delivered = << >> \/ delivered[Len(delivered)].conn < f.conn)
     \/ delivered # << >> /\ delivered[Len(delivered)] = [f EXCEPT !.n = @ - 1]

\* The last frame read: it waits for its handler, or has been delivered.
LastRead ==
  IF succeeded["body"] > 0 THEN body_buffer_ ELSE delivered[Len(delivered)]

\* The socket holds the frames after those consumed, in order.
InboundInv ==
  /\ Len(inbound) <= peerSent
  /\ \A i \in 1 .. Len(inbound) :
       /\ inbound[i].conn = connects
       /\ inbound[i].n \in {0, Consumed + i}

\* The frame that was consumed last is the one read or delivered last.
ConsumedInv ==
  IF Consumed = 0
    THEN Fresh /\ succeeded["body"] = 0
    ELSE /\ succeeded["body"] > 0 \/ delivered # << >>
         /\ LastRead = [conn |-> connects, n |-> Consumed]

\* What was delivered, read and received is in sequence.
PrefixInv ==
  /\ PrefixDelivered
  /\ delivered # << >> => delivered[Len(delivered)].conn <= connects
  /\ InCall \/ waiting["connect"] > 0 => Fresh
  /\ succeeded["body"] > 0 =>
       body_buffer_.conn = connects /\ Follows(body_buffer_)
  /\ Carrying => InboundInv /\ ConsumedInv

\* The queue is in the order of the calls, and of one connection.
QueueInv ==
  /\ \A i, j \in 1 .. Len(write_queue_) :
       i < j => write_queue_[i].id < write_queue_[j].id
  /\ \A i \in 1 .. Len(write_queue_) : write_queue_[i].id <= sends
  /\ ~wfailed => \A i \in 1 .. Len(write_queue_) : write_queue_[i].conn = connects

\* What was written is older than what is queued, except for a frame whose write
\* handler has not popped it yet.
OutboundInv ==
  /\ WrittenToOwnConnection
  /\ outbound # << >> =>
       LET last == outbound[Len(outbound)].packet
       IN  /\ last.id <= sends
           /\ \A i \in 1 .. Len(write_queue_) :
                last.id < write_queue_[i].id \/ (i = 1 /\ succeeded["write"] > 0)

\* The invariant of the writes.
WriteInv == QueueInv /\ OutboundInv

\* The frames popped so far: those written whose write handler has run.
Popped == Len(outbound) - succeeded["write"]

\* The calls of async_send are numbered through what was popped and what is
\* queued; what was written is what was popped, and the front of the queue if
\* its write handler has still to run. This does not depend on when the
\* application reconnects.
TurnInv ==
  /\ sends = Popped + Len(write_queue_)
  /\ \A i \in 1 .. Len(write_queue_) : write_queue_[i].id = Popped + i
  /\ WrittenInTurn

-----------------------------------------------------------------------------
\* f counts operations.
Counts(f) == /\ f["connect"] \in Nat /\ f["header"] \in Nat
             /\ f["body"] \in Nat /\ f["write"] \in Nat

\* g is f with d more operations of kind k.
Differs(g, f, k, d) ==
  /\ g["connect"] = IF k = "connect" THEN f["connect"] + d ELSE f["connect"]
  /\ g["header"] = IF k = "header" THEN f["header"] + d ELSE f["header"]
  /\ g["body"] = IF k = "body" THEN f["body"] + d ELSE f["body"]
  /\ g["write"] = IF k = "write" THEN f["write"] + d ELSE f["write"]

\* What closing the socket makes of s succeeded and f failed operations.
Closed(s, f) ==
  /\ socket_' = "closed" /\ inbound' = << >> /\ align' = "hdr"
  /\ None(waiting')
  /\ succeeded'["connect"] = 0
  /\ succeeded'["header"] = s["header"]
  /\ succeeded'["body"] = s["body"]
  /\ succeeded'["write"] = s["write"]
  /\ failed'["connect"] = f["connect"] + waiting["connect"] + s["connect"]
  /\ failed'["header"] = f["header"] + waiting["header"]
  /\ failed'["body"] = f["body"] + waiting["body"]
  /\ failed'["write"] = f["write"] + waiting["write"]

\* The counts are numbers.
LEMMA CountNat ==
  ASSUME TypeOK
  PROVE  /\ Counts(waiting) /\ Counts(succeeded) /\ Counts(failed)
         /\ waiting \in [OpKind -> Nat]
         /\ succeeded \in [OpKind -> Nat]
         /\ failed \in [OpKind -> Nat]
  BY Kinds DEF TypeOK, Counts

\* The read chain is in one place.
Exclusive ==
  /\ NoOp("connect") \/ OneOp("connect")
  /\ NoOp("header") \/ OneOp("header")
  /\ NoOp("body") \/ OneOp("body")
  /\ NoOp("connect") \/ NoOp("header")
  /\ NoOp("connect") \/ NoOp("body")
  /\ NoOp("header") \/ NoOp("body")
  /\ io # "loop" \/ InCall => NoOp("connect") /\ NoOp("header") /\ NoOp("body")
  /\ io # "loop" => ~InCall

\* Three counts that add up to at most one: at most one of them is one.
LEMMA ZeroOrOne ==
  ASSUME NEW w \in Nat, NEW s \in Nat, NEW f \in Nat, w + s + f <= 1
  PROVE  \/ w = 0 /\ s = 0 /\ f = 0
         \/ w = 1 /\ s = 0 /\ f = 0
         \/ w = 0 /\ s = 1 /\ f = 0
         \/ w = 0 /\ s = 0 /\ f = 1
  OBVIOUS

\* Counts that add up to zero are zero.
LEMMA ZeroSum ==
  ASSUME NEW w \in Nat, NEW s \in Nat, NEW f \in Nat, w + s + f = 0
  PROVE  w = 0 /\ s = 0 /\ f = 0
  OBVIOUS

\* SingleReadChain, kind by kind: at most one operation of the read chain
\* exists, and none while connect() or the frame callback runs.
LEMMA ChainExclusive ==
  ASSUME TypeOK, SingleReadChain, ~EagerReconnect
  PROVE  Exclusive
  <1>1. Counts(waiting) /\ Counts(succeeded) /\ Counts(failed)
    BY CountNat
  <1>2. /\ Outstanding("connect") \in Nat
        /\ Outstanding("header") \in Nat
        /\ Outstanding("body") \in Nat
    BY OutstandingNat, Kinds
  <1>3. InCallback \in Nat /\ InConnect \in Nat
    BY DEF InCallback, InConnect
  <1>4. Outstanding("connect") + Outstanding("header") + Outstanding("body")
          + InCallback + InConnect <= 1
    BY DEF SingleReadChain, ReadChain, InCallback, InConnect
  <1>5. /\ Outstanding("connect") <= 1
        /\ Outstanding("header") <= 1
        /\ Outstanding("body") <= 1
        /\ Outstanding("connect") = 0 \/ Outstanding("header") = 0
        /\ Outstanding("connect") = 0 \/ Outstanding("body") = 0
        /\ Outstanding("header") = 0 \/ Outstanding("body") = 0
        /\ InCallback = 1 \/ InConnect = 1 =>
             Outstanding("connect") = 0 /\ Outstanding("header") = 0 /\ Outstanding("body") = 0
        /\ InCallback = 1 => InConnect = 0
    <2> DEFINE c == Outstanding("connect")
    <2> DEFINE h == Outstanding("header")
    <2> DEFINE b == Outstanding("body")
    <2>1. c \in Nat /\ h \in Nat /\ b \in Nat /\ c + h + b + InCallback + InConnect <= 1
      BY <1>2, <1>4
    <2> HIDE DEF c, h, b
    <2>2. c <= 1 /\ h <= 1 /\ b <= 1
      BY <2>1, <1>3
    <2>3. (c = 0 \/ h = 0) /\ (c = 0 \/ b = 0) /\ (h = 0 \/ b = 0)
      BY <2>1, <1>3
    <2>4. InCallback = 1 \/ InConnect = 1 => c = 0 /\ h = 0 /\ b = 0
      BY <2>1, <1>3
    <2>5. InCallback = 1 => InConnect = 0
      BY <2>1, <1>3
    <2> QED
      BY <2>2, <2>3, <2>4, <2>5 DEF c, h, b
  <1>6. ASSUME NEW k \in {"connect", "header", "body"}
        PROVE  /\ NoOp(k) \/ OneOp(k)
               /\ Outstanding(k) = 0 => NoOp(k)
    <2>1. waiting[k] \in Nat /\ succeeded[k] \in Nat /\ failed[k] \in Nat
      BY <1>1 DEF Counts
    <2>2. waiting[k] + succeeded[k] + failed[k] <= 1
      BY <1>5 DEF Outstanding
    <2>3. NoOp(k) \/ OneOp(k)
      BY <2>1, <2>2, ZeroOrOne DEF NoOp, OneOp
    <2>4. Outstanding(k) = 0 => NoOp(k)
      <3> SUFFICES ASSUME waiting[k] + succeeded[k] + failed[k] = 0 PROVE NoOp(k)
        BY DEF Outstanding
      <3> QED
        BY <2>3 DEF NoOp, OneOp
    <2> QED
      BY <2>3, <2>4
  <1> QED
    BY <1>5, <1>6 DEF Exclusive, InCallback, InConnect, InCall

\* Inc, kind by kind.
LEMMA IncEffects ==
  ASSUME NEW f \in [OpKind -> Nat], NEW k \in OpKind
  PROVE  Differs(Inc(f, k), f, k, 1) /\ Inc(f, k) \in [OpKind -> Nat]
  BY IncFacts, Kinds DEF Differs

\* Dec, kind by kind.
LEMMA DecEffects ==
  ASSUME NEW f \in [OpKind -> Nat], NEW k \in OpKind, f[k] > 0
  PROVE  Differs(Dec(f, k), f, k, -1) /\ Dec(f, k) \in [OpKind -> Nat]
  BY DecFacts, Kinds DEF Differs

\* socket_.close(), kind by kind: what was waiting has failed, and so has a
\* connect whose handler is still queued.
LEMMA CloseEffects ==
  ASSUME TypeOK,
         NEW s \in [OpKind -> Nat], NEW f \in [OpKind -> Nat],
         SocketClose(s, f)
  PROVE  Closed(s, f)
  <1>1. \A k \in OpKind : NoOps[k] = 0
    BY DEF NoOps
  <1>2. succeeded' = [s EXCEPT !["connect"] = 0] /\ waiting' = NoOps
    BY DEF SocketClose
  <1>3. \A k \in OpKind : failed'[k] =
          f[k] + waiting[k] + IF k = "connect" THEN s[k] ELSE 0
    BY DEF SocketClose
  <1>4. \A k \in OpKind : f[k] \in Nat /\ waiting[k] \in Nat /\ s[k] \in Nat
    BY DEF TypeOK
  <1>5. succeeded'["connect"] = 0 /\ \A k \in OpKind : k # "connect" => succeeded'[k] = s[k]
    BY <1>2, Kinds
  <1> QED
    BY <1>1, <1>2, <1>3, <1>4, <1>5, Kinds DEF SocketClose, Closed, None

\* Starting an operation adds it to the failed ones on a closed socket and to
\* the waiting ones otherwise.
LEMMA StartEffects ==
  ASSUME TypeOK, NEW k \in OpKind, NEW f \in [OpKind -> Nat],
         AsyncStart(k, f)
  PROVE  \/ socket_ = "closed" /\ waiting' = waiting /\ Differs(failed', f, k, 1)
         \/ socket_ # "closed" /\ failed' = f /\ Differs(waiting', waiting, k, 1)
  BY IncEffects, CountNat DEF AsyncStart

\* network_close() either finds the state DISCONNECTED or closes.
LEMMA NetworkCloseEffects ==
  ASSUME TypeOK,
         NEW s \in [OpKind -> Nat], NEW f \in [OpKind -> Nat],
         network_close(s, f)
  PROVE  /\ state_' = "DISCONNECTED"
         /\ \/ /\ state_ = "DISCONNECTED"
               /\ succeeded' = s /\ failed' = f
               /\ UNCHANGED <<socket_, waiting, inbound, align>>
            \/ state_ # "DISCONNECTED" /\ Closed(s, f)
  BY CloseEffects DEF network_close

\* asio::async_connect, kind by kind: it aborts what was outstanding on the
\* old descriptor and leaves one connect waiting.
LEMMA AsyncConnectEffects ==
  ASSUME TypeOK, AsyncConnect
  PROVE  /\ Differs(waiting', NoOps, "connect", 1) /\ None(NoOps)
         /\ succeeded'["connect"] = 0
         /\ succeeded'["header"] = succeeded["header"]
         /\ succeeded'["body"] = succeeded["body"]
         /\ succeeded'["write"] = succeeded["write"]
         /\ failed'["connect"] = failed["connect"] + waiting["connect"] + succeeded["connect"]
         /\ failed'["header"] = failed["header"] + waiting["header"]
         /\ failed'["body"] = failed["body"] + waiting["body"]
         /\ failed'["write"] = failed["write"] + waiting["write"]
  <1>0. Counts(waiting) /\ Counts(succeeded) /\ Counts(failed)
    BY CountNat
  <1>1. NoOps \in [OpKind -> Nat] /\ None(NoOps)
    BY Kinds DEF NoOps, None
  <1>2. Differs(waiting', NoOps, "connect", 1)
    BY <1>1, IncEffects, Kinds DEF AsyncConnect
  <1>3. \A k \in OpKind : failed'[k] = failed[k] + waiting[k]
                                 + IF k = "connect" THEN succeeded[k] ELSE 0
    BY DEF AsyncConnect
  <1>4. /\ succeeded'["connect"] = 0
        /\ \A k \in OpKind : k # "connect" => succeeded'[k] = succeeded[k]
    BY CountNat, Kinds DEF AsyncConnect
  <1> QED
    BY <1>0, <1>1, <1>2, <1>3, <1>4, Kinds DEF Counts

\* Drained leaves no operation.
LEMMA DrainedOps ==
  ASSUME TypeOK, Drained
  PROVE  \A k \in OpKind : NoOp(k)
  <1> SUFFICES ASSUME NEW k \in OpKind PROVE NoOp(k)
    OBVIOUS
  <1>1. waiting[k] \in Nat /\ succeeded[k] \in Nat /\ failed[k] \in Nat
    BY DEF TypeOK
  <1>2. waiting[k] + succeeded[k] + failed[k] = 0
    BY DEF Drained, Outstanding
  <1> QED
    BY <1>1, <1>2, ZeroSum DEF NoOp

-----------------------------------------------------------------------------
\* network_close() in a handler, which has taken its own operation out of the
\* succeeded or failed ones.
LEMMA CloseKeepsSocketInv ==
  ASSUME TypeOK, SocketInv, ~InCall, ut' = ut,
         NEW s \in [OpKind -> Nat], NEW f \in [OpKind -> Nat],
         network_close(s, f),
         s["connect"] = succeeded["connect"], f["connect"] = failed["connect"],
         None(failed) => None(f)
  PROVE  SocketInv'
  <1>0. Counts(waiting) /\ Counts(succeeded) /\ Counts(failed)
    BY CountNat
  <1> USE DEF SocketInv, InCall, Carrying, None, NoOp
  <1>1. state_' = "DISCONNECTED"
    BY NetworkCloseEffects
  <1>2. CASE state_ = "DISCONNECTED"
    <2>1. succeeded' = s /\ failed' = f /\ UNCHANGED <<socket_, waiting>>
      BY <1>2, NetworkCloseEffects
    <2> QED
      BY <1>0, <1>1, <1>2, <2>1 DEF Counts
  <1>3. CASE state_ # "DISCONNECTED"
    <2>1. Closed(s, f)
      BY <1>3, NetworkCloseEffects
    <2>2. socket_' = "closed" /\ None(waiting') /\ succeeded'["connect"] = 0
      BY <2>1 DEF Closed
    <2>3. failed'["connect"] = failed["connect"] + waiting["connect"] + succeeded["connect"]
      BY <2>1 DEF Closed
    <2>4. ut # "idle" => failed'["connect"] = 0
      BY <2>3, <1>0, <1>3 DEF Counts
    <2> QED
      BY <1>1, <2>2, <2>4
  <1> QED
    BY <1>2, <1>3

\* Every step keeps the socket, the state and the operations in agreement.
LEMMA SocketStep ==
  ASSUME TypeOK, SingleReadChain, SocketInv, ~EagerReconnect, TypeOK', [Next]_vars
  PROVE  SocketInv'
  <1>0. /\ Counts(waiting) /\ Counts(succeeded) /\ Counts(failed)
        /\ Counts(waiting') /\ Counts(succeeded') /\ Counts(failed')
    BY CountNat, Kinds DEF TypeOK, Counts
  <1>a. Exclusive
    BY ChainExclusive
  <1>b. /\ waiting \in [OpKind -> Nat]
        /\ succeeded \in [OpKind -> Nat]
        /\ failed \in [OpKind -> Nat]
    BY CountNat
  <1> USE DEF SocketInv, InCall, Carrying, None, Counts, Exclusive, NoOp, OneOp
  <1>1. CASE NetworkConnect
    <2>1. NoOp("write") /\ NoOp("connect")
      BY <1>1, DrainedOps, Kinds, ~EagerReconnect DEF NetworkConnect
    <2>2. NoOp("write")' /\ NoOp("connect")' /\ UNCHANGED <<socket_, waiting, succeeded, failed>>
      BY <1>1, <2>1 DEF NetworkConnect, asio
    <2> QED
      BY <1>1, <2>1, <2>2 DEF NetworkConnect
  <1>2. CASE FetchServers
    BY <1>0, <1>2 DEF FetchServers, asio
  <1>3. CASE ResolveThrows
    BY <1>0, <1>3 DEF ResolveThrows, asio, client
  <1>4. CASE AsyncConnect
    BY <1>0, <1>a, <1>4, AsyncConnectEffects DEF AsyncConnect, client, Differs
  <1>5. CASE Shutdown
    <2>1. NoOp("connect") /\ UNCHANGED <<socket_, waiting, succeeded, failed, state_>>
      BY <1>5 DEF Shutdown, asio, client, IsConnected
    <2> QED
      BY <1>5, <2>1 DEF Shutdown
  <1>6. CASE CloseSocket
    <2>1. CASE state_ = "DISCONNECTED"
      BY <1>0, <1>6, <2>1 DEF CloseSocket, asio, client
    <2>2. CASE state_ # "DISCONNECTED"
      <3>1. Closed(succeeded, failed) /\ state_' = state_ /\ ut' = "storing" /\ ut = "closing"
        BY <1>b, <1>6, <2>2, CloseEffects DEF CloseSocket, client
      <3> QED
        BY <1>0, <3>1 DEF Closed
    <2> QED BY <2>1, <2>2
  <1>7. CASE StoreDisconnected
    BY <1>0, <1>7 DEF StoreDisconnected, asio
  <1>8. CASE AsyncSend
    <2>0. ~InCall
      BY <1>8, <1>a DEF AsyncSend
    <2>1. CASE write_queue_ = << >>
      <3>1. AsyncStart("write", failed) /\ succeeded' = succeeded /\ UNCHANGED <<socket_, state_, ut>>
        BY <1>8, <2>1 DEF AsyncSend, do_write
      <3> QED
        BY <1>0, <1>b, <3>1, <2>0, StartEffects, Kinds DEF Differs
    <2>2. CASE write_queue_ # << >>
      BY <1>0, <1>8, <2>2 DEF AsyncSend, asio
    <2> QED BY <2>1, <2>2
  <1>9. CASE ConnectHandlerOk
    <2>1. /\ Differs(succeeded', succeeded, "connect", -1)
          /\ AsyncStart("header", failed)
          /\ UNCHANGED <<socket_, ut>> /\ state_' = "CONNECTED"
          /\ succeeded["connect"] > 0
      BY <1>b, <1>9, DecEffects, Kinds DEF ConnectHandlerOk, start_read_header
    <2> QED
      BY <1>0, <1>a, <1>b, <2>1, StartEffects, Kinds DEF Differs
  <1>10. CASE ConnectHandlerError
    <2>1. /\ Differs(failed', failed, "connect", -1)
          /\ UNCHANGED <<socket_, ut, waiting, succeeded>> /\ state_' = "DISCONNECTED"
          /\ failed["connect"] > 0
      BY <1>b, <1>10, DecEffects, Kinds DEF ConnectHandlerError
    <2> QED
      BY <1>0, <1>a, <2>1 DEF Differs
  <1>11. CASE HeaderHandlerOk
    <2>1. /\ Dec(succeeded, "header") \in [OpKind -> Nat]
          /\ Differs(Dec(succeeded, "header"), succeeded, "header", -1)
          /\ succeeded["header"] > 0 /\ ut' = ut
      BY <1>b, <1>11, DecEffects, Kinds DEF HeaderHandlerOk
    <2>2. CASE header_buffer_ = "valid"
      <3>1. /\ AsyncStart("body", failed) /\ succeeded' = Dec(succeeded, "header")
            /\ UNCHANGED <<socket_, state_>>
        BY <1>11, <2>2 DEF HeaderHandlerOk, start_read_body
      <3> QED
        BY <1>0, <1>a, <1>b, <2>1, <3>1, StartEffects, Kinds DEF Differs
    <2>3. CASE header_buffer_ # "valid"
      <3>1. network_close(Dec(succeeded, "header"), failed)
        BY <1>11, <2>3 DEF HeaderHandlerOk, handle_disconnect
      <3> QED
        BY <1>0, <1>a, <1>b, <2>1, <3>1, CloseKeepsSocketInv DEF Differs
    <2> QED BY <2>2, <2>3
  <1>12. CASE BodyHandlerOk
    <2>1. /\ Differs(succeeded', succeeded, "body", -1)
          /\ UNCHANGED <<socket_, ut, state_, waiting, failed>>
      BY <1>b, <1>12, DecEffects, Kinds DEF BodyHandlerOk, client
    <2> QED
      BY <1>0, <1>a, <2>1 DEF Differs
  <1>13. CASE FrameReturn
    <2>1. /\ AsyncStart("header", failed)
          /\ UNCHANGED <<socket_, ut, state_, succeeded>> /\ io # "loop"
      BY <1>13 DEF FrameReturn, start_read_header, client
    <2> QED
      BY <1>0, <1>a, <1>b, <2>1, StartEffects, Kinds DEF Differs
  <1>14. CASE FrameThrows
    BY <1>0, <1>14 DEF FrameThrows, asio, client
  <1>15. CASE CallbackDisconnect
    <2>1. network_close(succeeded, failed) /\ UNCHANGED ut /\ io # "loop" /\ state_ = "CONNECTED"
      BY <1>15 DEF CallbackDisconnect, IsConnected
    <2> QED
      BY <1>0, <1>a, <1>b, <2>1, CloseKeepsSocketInv
  <1>16. ASSUME NEW k \in {"header", "body", "write"}, failed[k] > 0,
                network_close(succeeded, Dec(failed, k)), ut' = ut
         PROVE  SocketInv'
    <2>2. k # "connect" /\ k \in OpKind
      BY Kinds
    <2>1. /\ Dec(failed, k) \in [OpKind -> Nat]
          /\ Differs(Dec(failed, k), failed, k, -1)
      BY <1>b, <1>16, <2>2, DecEffects
    <2> QED
      BY <1>0, <1>a, <1>b, <2>1, <2>2, <1>16, CloseKeepsSocketInv DEF Differs
  <1>17. CASE \E k \in {"header", "body"} : ReadHandlerError(k)
    BY <1>16, <1>17 DEF ReadHandlerError, handle_disconnect
  <1>18. CASE WriteHandlerError
    BY <1>16, <1>18 DEF WriteHandlerError, handle_disconnect
  <1>19. CASE WriteHandlerOk
    <2>1. /\ succeeded' = Dec(succeeded, "write")
          /\ UNCHANGED <<socket_, ut, state_>> /\ succeeded["write"] > 0
          /\ AsyncStart("write", failed) \/ UNCHANGED <<waiting, failed>>
      BY <1>19 DEF WriteHandlerOk, do_write
    <2>2. Differs(succeeded', succeeded, "write", -1)
      BY <1>b, <2>1, DecEffects, Kinds
    <2> QED
      BY <1>0, <1>a, <1>b, <2>1, <2>2, StartEffects, Kinds DEF Differs
  <1>20. CASE ConnectSucceeds
    <2>1. /\ Differs(succeeded', succeeded, "connect", 1)
          /\ Differs(waiting', waiting, "connect", -1)
      BY <1>b, <1>20, IncEffects, DecEffects, Kinds DEF ConnectSucceeds
    <2>2. /\ waiting["connect"] = 1 /\ socket_' = "connected" /\ None(failed)
          /\ UNCHANGED <<failed, state_, ut>>
      BY <1>0, <1>a, <1>20 DEF ConnectSucceeds, client
    <2>3. waiting'["connect"] = 0
      BY <2>1, <2>2 DEF Differs
    <2>4. state_ = "CONNECTING" /\ ut = "idle"
      BY <1>20, <2>2 DEF ConnectSucceeds, TypeOK
    <2> QED
      BY <2>2, <2>3, <2>4
  <1>21. CASE ConnectFails
    <2>1. Closed(succeeded, failed)
      BY <1>b, <1>21, CloseEffects DEF ConnectFails
    <2> QED
      BY <1>0, <1>a, <1>21, <2>1 DEF ConnectFails, client, Closed
  <1>22. CASE PeerSends \/ Break
    BY <1>0, <1>22 DEF PeerSends, Break, client
  <1>23. ASSUME NEW k \in {"header", "body", "write"}, waiting[k] > 0, Carrying,
                waiting' = Dec(waiting, k),
                \/ succeeded' = Inc(succeeded, k) /\ failed' = failed
                \/ socket_ = "broken" /\ failed' = Inc(failed, k) /\ succeeded' = succeeded,
                UNCHANGED <<socket_, ut, state_>>
         PROVE  SocketInv'
    <2>2. k # "connect" /\ k \in OpKind
      BY Kinds
    <2>1. Differs(waiting', waiting, k, -1)
      BY <1>b, <1>23, <2>2, DecEffects
    <2>3. \/ failed' = failed /\ Differs(succeeded', succeeded, k, 1)
          \/ socket_ = "broken" /\ succeeded' = succeeded /\ Differs(failed', failed, k, 1)
      BY <1>b, <1>23, <2>2, IncEffects
    <2> QED
      BY <1>0, <1>a, <2>1, <2>2, <2>3, <1>23 DEF Differs
  <1>24. CASE HeaderArrives
    BY <1>23, <1>24 DEF HeaderArrives
  <1>25. CASE BodyArrives
    BY <1>23, <1>25 DEF BodyArrives
  <1>26. CASE WriteCompletes
    BY <1>23, <1>26 DEF WriteCompletes, client
  <1>27. CASE \E k \in {"header", "body", "write"} : OperationFails(k)
    BY <1>23, <1>27 DEF OperationFails, client
  <1>28. CASE UNCHANGED vars
    BY <1>28 DEF vars, client, asio
  <1> QED
    BY <1>1, <1>2, <1>3, <1>4, <1>5, <1>6, <1>7, <1>8, <1>9, <1>10, <1>11, <1>12, <1>13, <1>14,
       <1>15, <1>17, <1>18, <1>19, <1>20, <1>21, <1>22, <1>24, <1>25, <1>26, <1>27, <1>28
    DEF Next, UserThread, IoThread, Network

-----------------------------------------------------------------------------
(* The theorems so far. *)

\* Nothing has been started at first.
LEMMA SocketInit == Init => SocketInv
  <1>1. None(NoOps)
    BY Kinds DEF NoOps, None
  <1> QED
    BY <1>1 DEF Init, SocketInv, InCall, Carrying, None, NoOp

\* The socket, state_ and the outstanding operations agree: DISCONNECTED means
\* closed, connect() finds no descriptor and no write of an earlier connection,
\* and an error is pending only on a socket that is closed or broken.
THEOREM SocketCorrect ==
  ASSUME ~EagerReconnect
  PROVE  Spec => []SocketInv
  <1>1. TypeOK /\ TypeOK' /\ SingleReadChain /\ SocketInv /\ [Next]_vars => SocketInv'
    BY SocketStep
  <1> QED
    BY <1>1, SocketInit, TypeCorrect, ChainCorrect, PTL DEF Spec

\* network_close / async_connect: once everything has settled in DISCONNECTED no
\* descriptor is left connected or connecting, whoever closed, the user thread,
\* a handler or the frame callback, and in whatever order.
THEOREM NoLeak ==
  ASSUME ~EagerReconnect
  PROVE  Spec => []NoLeakedSocket
  <1>1. SocketInv => NoLeakedSocket
    BY DEF SocketInv, NoLeakedSocket
  <1> QED
    BY <1>1, SocketCorrect, PTL

\* Only the connect handler stores CONNECTED, and a close in the meantime would
\* have turned its completion into an error.
LEMMA LifecycleStep ==
  ASSUME TypeOK, SocketInv, [Next]_vars, state_' = "CONNECTED"
  PROVE  state_ # "DISCONNECTED"
  <1>1. CASE state_' = state_
    BY <1>1
  <1>2. CASE ConnectHandlerOk
    BY <1>2 DEF ConnectHandlerOk, SocketInv
  <1> QED
    BY <1>1, <1>2
    DEF vars, client, Next, UserThread, IoThread, Network, NetworkConnect, FetchServers,
        ResolveThrows, AsyncConnect, Shutdown, CloseSocket, StoreDisconnected, AsyncSend,
        ConnectHandlerError, HeaderHandlerOk, BodyHandlerOk, FrameReturn, FrameThrows,
        CallbackDisconnect, ReadHandlerError, WriteHandlerOk, WriteHandlerError,
        handle_disconnect, network_close,
        ConnectSucceeds, ConnectFails, PeerSends, Break, HeaderArrives, BodyArrives,
        WriteCompletes, OperationFails

\* ConnectionState: CONNECTED is entered from CONNECTING only; no completion of
\* async_connect revives a connection that was closed before its handler ran.
THEOREM Lifecycle ==
  ASSUME ~EagerReconnect
  PROVE  Spec => LifecycleOrder
  <1>1. TypeOK /\ SocketInv /\ [Next]_vars => [state_' = "CONNECTED" => state_ # "DISCONNECTED"]_vars
    BY LifecycleStep
  <1> QED
    BY <1>1, SocketCorrect, TypeCorrect, PTL DEF Spec, LifecycleOrder

-----------------------------------------------------------------------------
(* The read loop. *)

\* network_close() in a handler.
LEMMA CloseKeepsReadInv ==
  ASSUME TypeOK, ReadInv, SocketInv,
         NEW s \in [OpKind -> Nat], NEW f \in [OpKind -> Nat],
         network_close(s, f), UNCHANGED <<header_buffer_, late>>,
         s["header"] <= succeeded["header"], s["body"] <= succeeded["body"]
  PROVE  ReadInv'
  <1>0. Counts(waiting) /\ Counts(succeeded) /\ Counts(failed) /\ Counts(s)
    BY CountNat, Kinds DEF Counts
  <1>1. CASE state_ = "DISCONNECTED"
    <2>1. /\ succeeded' = s /\ UNCHANGED <<state_, socket_, waiting, inbound, align>>
          /\ socket_ = "closed"
      BY <1>1, NetworkCloseEffects DEF SocketInv
    <2> QED
      BY <1>0, <1>1, <2>1 DEF ReadInv, Carrying, Counts, SocketInv, None
  <1>2. CASE state_ # "DISCONNECTED"
    <2>1. Closed(s, f) /\ state_' = "DISCONNECTED"
      BY <1>2, NetworkCloseEffects
    <2> QED
      <3>1. /\ ~Carrying' /\ inbound' = << >> /\ align' = "hdr" /\ waiting'["body"] = 0
            /\ succeeded'["header"] = s["header"]
        BY <2>1 DEF Closed, Carrying, None
      <3>3. s["header"] > 0 => succeeded["header"] > 0
        BY <1>0 DEF Counts
      <3>2. late' = 0
        BY <1>2 DEF ReadInv
      <3> QED
        BY <3>1, <3>2, <3>3 DEF ReadInv
  <1> QED
    BY <1>1, <1>2

\* The steps that leave the reading side alone.
LEMMA AsideKeepsReadInv ==
  ASSUME ReadInv, SocketInv,
         UNCHANGED <<header_buffer_, inbound, align>>,
         Carrying' = Carrying,
         late' = late \/ late' = 0,
         state_' = state_ \/ state_' = "DISCONNECTED" \/ late' = 0,
         waiting'["body"] = waiting["body"],
         succeeded'["header"] = succeeded["header"],
         succeeded'["body"] = succeeded["body"],
         failed'["body"] = failed["body"]
  PROVE  ReadInv'
  BY DEF ReadInv

\* Every step keeps the reads at the frame boundaries.
LEMMA ReadStep ==
  ASSUME TypeOK, SingleReadChain, SocketInv, ReadInv, ~EagerReconnect, TypeOK', [Next]_vars
  PROVE  ReadInv'
  <1>0. /\ Counts(waiting) /\ Counts(succeeded) /\ Counts(failed)
    BY CountNat
  <1>a. Exclusive
    BY ChainExclusive
  <1>b. /\ waiting \in [OpKind -> Nat]
        /\ succeeded \in [OpKind -> Nat]
        /\ failed \in [OpKind -> Nat]
    BY CountNat
  <1>1. CASE NetworkConnect \/ FetchServers \/ ResolveThrows \/ Shutdown \/ StoreDisconnected
             \/ FrameThrows \/ Break
    <2>1. CASE NetworkConnect
      BY <2>1, AsideKeepsReadInv DEF NetworkConnect, asio, Carrying
    <2>2. CASE FetchServers \/ ResolveThrows \/ Shutdown
      BY <2>2, AsideKeepsReadInv
      DEF FetchServers, ResolveThrows, Shutdown, client, asio, hist, Carrying
    <2>3. CASE StoreDisconnected \/ FrameThrows \/ Break
      BY <2>3, AsideKeepsReadInv
      DEF StoreDisconnected, FrameThrows, Break, client, asio, hist, Carrying
    <2> QED
      BY <1>1, <2>1, <2>2, <2>3
  <1>2. CASE AsyncConnect
    <2>1. /\ late' = late /\ state_' = state_ /\ header_buffer_' = header_buffer_
          /\ socket_' = "connecting" /\ inbound' = << >> /\ align' = "hdr"
      BY <1>2 DEF AsyncConnect, client, hist
    <2>2. NoOp("body") /\ NoOp("header") /\ state_ = "CONNECTING"
      BY <1>a, <1>2 DEF Exclusive, InCall, AsyncConnect, SocketInv
    <2>3. waiting'["body"] = 0 /\ succeeded'["header"] = 0
      BY <1>2, <2>2, AsyncConnectEffects DEF Differs, NoOp, None
    <2> QED
      BY <2>1, <2>2, <2>3 DEF ReadInv, Carrying
  <1>3. CASE CloseSocket
    <2>1. CASE state_ = "DISCONNECTED"
      BY <1>3, <2>1, AsideKeepsReadInv DEF CloseSocket, asio, client, hist, Carrying
    <2>2. CASE state_ # "DISCONNECTED"
      <3>1. Closed(succeeded, failed) /\ UNCHANGED <<state_, header_buffer_, late>>
        BY <1>b, <1>3, <2>2, CloseEffects DEF CloseSocket, client, hist
      <3> QED
        BY <1>0, <3>1 DEF Closed, ReadInv, Carrying, None
    <2> QED BY <2>1, <2>2
  <1>4. CASE AsyncSend
    <2>0. UNCHANGED <<header_buffer_, inbound, align, socket_, late, state_, succeeded>>
      BY <1>4 DEF AsyncSend, asio, hist, do_write
    <2>1. CASE write_queue_ = << >>
      <3>1. AsyncStart("write", failed)
        BY <1>4, <2>1 DEF AsyncSend, do_write
      <3>2. waiting'["body"] = waiting["body"] /\ failed'["body"] = failed["body"]
        BY <1>b, <3>1, StartEffects, Kinds DEF Differs
      <3> QED
        BY <2>0, <3>2, AsideKeepsReadInv DEF Carrying
    <2>2. CASE write_queue_ # << >>
      <3>1. UNCHANGED <<waiting, failed>>
        BY <1>4, <2>2 DEF AsyncSend, asio
      <3> QED
        BY <2>0, <3>1, AsideKeepsReadInv DEF Carrying
    <2> QED BY <2>1, <2>2
  <1>5. CASE ConnectHandlerOk
    <2>1. /\ Differs(succeeded', succeeded, "connect", -1)
          /\ AsyncStart("header", failed)
          /\ UNCHANGED <<socket_, header_buffer_, late, inbound, align>>
          /\ succeeded["connect"] > 0
      BY <1>b, <1>5, DecEffects, Kinds DEF ConnectHandlerOk, start_read_header, hist
    <2>2. waiting'["body"] = waiting["body"] /\ failed'["body"] = failed["body"]
      BY <1>b, <2>1, StartEffects, Kinds DEF Differs
    <2>3. late = 0 /\ late' = 0
      BY <2>1 DEF ReadInv, SocketInv
    <2> QED
      BY <2>1, <2>2, <2>3, AsideKeepsReadInv DEF Carrying, Differs
  <1>6. CASE ConnectHandlerError
    <2>1. /\ Differs(failed', failed, "connect", -1)
          /\ UNCHANGED <<socket_, waiting, succeeded, header_buffer_, inbound, align, late>>
          /\ state_' = "DISCONNECTED"
      BY <1>b, <1>6, DecEffects, Kinds DEF ConnectHandlerError, hist
    <2> QED
      BY <2>1, AsideKeepsReadInv DEF Carrying, Differs
  <1>7. CASE HeaderHandlerOk
    <2>1. /\ Dec(succeeded, "header") \in [OpKind -> Nat]
          /\ Differs(Dec(succeeded, "header"), succeeded, "header", -1)
          /\ succeeded["header"] > 0 /\ late' = late /\ header_buffer_' = header_buffer_
      BY <1>b, <1>7, DecEffects, Kinds DEF HeaderHandlerOk, hist
    <2>a. succeeded["header"] = 1 /\ NoOp("body") /\ NoOp("connect")
      BY <2>1, <1>a DEF Exclusive, NoOp, OneOp
    <2>2. CASE header_buffer_ = "valid"
      <3>1. /\ AsyncStart("body", failed) /\ succeeded' = Dec(succeeded, "header")
            /\ UNCHANGED <<socket_, state_, inbound, align>>
        BY <1>7, <2>2 DEF HeaderHandlerOk, start_read_body
      <3>2. succeeded'["header"] = 0 /\ succeeded'["body"] = succeeded["body"]
        BY <2>1, <2>a, <3>1 DEF Differs
      <3>3. CASE Carrying
        <4>1. waiting'["body"] = 1
          BY <1>b, <3>1, <3>3, <2>a, StartEffects, Kinds DEF Differs, NoOp, Carrying
        <4>2. align = "body" /\ inbound # << >> /\ Head(inbound).n # 0
          BY <2>1, <2>2, <3>3 DEF ReadInv
        <4> QED
          BY <2>1, <3>1, <3>2, <3>3, <4>1, <4>2 DEF ReadInv, Carrying
      <3>4. CASE ~Carrying
        <4>1. socket_ = "closed"
          BY <3>4, <2>a DEF TypeOK, Carrying, SocketInv, NoOp
        <4>2. waiting'["body"] = 0
          BY <1>b, <3>1, <4>1, <2>a, StartEffects, Kinds DEF Differs, NoOp
        <4> QED
          BY <2>1, <3>1, <3>2, <3>4, <4>2 DEF ReadInv, Carrying
      <3> QED
        BY <3>3, <3>4
    <2>3. CASE header_buffer_ # "valid"
      <3>1. network_close(Dec(succeeded, "header"), failed)
        BY <1>7, <2>3 DEF HeaderHandlerOk, handle_disconnect
      <3>2. /\ Dec(succeeded, "header")["header"] <= succeeded["header"]
            /\ Dec(succeeded, "header")["body"] <= succeeded["body"]
        BY <2>1, <2>a, <1>0 DEF Differs, Counts, NoOp
      <3> QED
        BY <1>b, <2>1, <3>1, <3>2, CloseKeepsReadInv
    <2> QED BY <2>2, <2>3
  <1>8. CASE BodyHandlerOk
    <2>1. /\ Differs(succeeded', succeeded, "body", -1)
          /\ succeeded["body"] > 0
          /\ UNCHANGED <<socket_, state_, waiting, failed, header_buffer_, inbound, align>>
          /\ late' = IF state_ = "DISCONNECTED" THEN late + 1 ELSE late
      BY <1>b, <1>8, DecEffects, Kinds DEF BodyHandlerOk, client
    <2>2. succeeded["body"] = 1 /\ NoOp("header") /\ late = 0
      BY <2>1, <1>a DEF Exclusive, NoOp, OneOp, ReadInv
    <2>3. succeeded'["body"] = 0 /\ succeeded'["header"] = 0
      BY <2>1, <2>2 DEF Differs, NoOp
    <2>4. late' = IF state_ = "DISCONNECTED" THEN 1 ELSE 0
      BY <2>1, <2>2
    <2> QED
      BY <2>1, <2>2, <2>3, <2>4 DEF ReadInv, Carrying, NoOp
  <1>9. CASE FrameReturn
    <2>1. /\ AsyncStart("header", failed)
          /\ UNCHANGED <<socket_, late, state_, succeeded, header_buffer_, inbound, align>>
      BY <1>9 DEF FrameReturn, start_read_header, client, hist
    <2>2. waiting'["body"] = waiting["body"] /\ failed'["body"] = failed["body"]
      BY <1>b, <2>1, StartEffects, Kinds DEF Differs
    <2> QED
      BY <2>1, <2>2, AsideKeepsReadInv DEF Carrying
  <1>10. CASE CallbackDisconnect
    <2>1. network_close(succeeded, failed) /\ UNCHANGED <<header_buffer_, late>>
      BY <1>10 DEF CallbackDisconnect, hist
    <2> QED
      BY <1>0, <1>b, <2>1, CloseKeepsReadInv DEF Counts
  <1>11. ASSUME NEW k \in {"header", "body", "write"}, failed[k] > 0,
                network_close(succeeded, Dec(failed, k)), UNCHANGED <<header_buffer_, late>>
         PROVE  ReadInv'
    <2>1. Dec(failed, k) \in [OpKind -> Nat]
      BY <1>b, <1>11, DecEffects, Kinds
    <2> QED
      BY <1>0, <1>b, <2>1, <1>11, CloseKeepsReadInv DEF Counts
  <1>12. CASE \E k \in {"header", "body"} : ReadHandlerError(k)
    BY <1>11, <1>12 DEF ReadHandlerError, handle_disconnect, hist
  <1>13. CASE WriteHandlerError
    BY <1>11, <1>13 DEF WriteHandlerError, handle_disconnect
  <1>14. CASE WriteHandlerOk
    <2>1. /\ succeeded' = Dec(succeeded, "write")
          /\ UNCHANGED <<socket_, state_, header_buffer_, late, inbound, align>>
          /\ succeeded["write"] > 0
          /\ AsyncStart("write", failed) \/ UNCHANGED <<waiting, failed>>
      BY <1>14 DEF WriteHandlerOk, do_write, hist
    <2>2. Differs(succeeded', succeeded, "write", -1)
      BY <1>b, <2>1, DecEffects, Kinds
    <2>3. waiting'["body"] = waiting["body"] /\ failed'["body"] = failed["body"]
      BY <1>b, <2>1, StartEffects, Kinds DEF Differs
    <2> QED
      BY <2>1, <2>2, <2>3, AsideKeepsReadInv DEF Differs, Carrying
  <1>15. CASE ConnectSucceeds
    <2>1. /\ Differs(succeeded', succeeded, "connect", 1)
          /\ Differs(waiting', waiting, "connect", -1)
          /\ UNCHANGED <<state_, failed, header_buffer_, late, inbound, align>>
      BY <1>b, <1>15, IncEffects, DecEffects, Kinds DEF ConnectSucceeds, client, hist
    <2>2. NoOp("header") /\ NoOp("body") /\ inbound = << >> /\ align = "hdr"
      BY <1>a, <1>15 DEF ConnectSucceeds, Exclusive, NoOp, ReadInv, Carrying
    <2> QED
      BY <2>1, <2>2 DEF ReadInv, Differs, NoOp
  <1>16. CASE ConnectFails
    <2>1. Closed(succeeded, failed) /\ UNCHANGED <<state_, header_buffer_, late>>
      BY <1>b, <1>16, CloseEffects DEF ConnectFails, client, hist
    <2> QED
      BY <1>0, <2>1 DEF Closed, ReadInv, Carrying, None
  <1>17. CASE PeerSends
    <2>1. /\ UNCHANGED <<state_, socket_, waiting, succeeded, failed, header_buffer_, late, align>>
          /\ socket_ = "connected" /\ inbound \in Seq(Frame)
      BY <1>17 DEF PeerSends, client, hist, TypeOK
    <2>2. /\ inbound' # << >>
          /\ inbound # << >> => Head(inbound') = Head(inbound)
      <3>1. PICK n \in {0, peerSent + 1} : inbound' = Append(inbound, [conn |-> connects, n |-> n])
        BY <1>17 DEF PeerSends
      <3> QED
        BY <2>1, <3>1
    <2> QED
      BY <2>1, <2>2 DEF ReadInv, Carrying
  <1>18. CASE HeaderArrives
    <2>1. /\ Differs(succeeded', succeeded, "header", 1)
          /\ Differs(waiting', waiting, "header", -1)
          /\ waiting["header"] > 0
          /\ UNCHANGED <<state_, failed, late, inbound, socket_>>
          /\ Carrying /\ inbound # << >>
      BY <1>b, <1>18, IncEffects, DecEffects, Kinds DEF HeaderArrives, hist, Carrying
    <2>2. waiting["header"] = 1 /\ succeeded["header"] = 0 /\ NoOp("body")
      BY <1>a, <2>1 DEF Exclusive, NoOp, OneOp
    <2>3. align = "hdr"
      BY <2>2 DEF ReadInv, NoOp, TypeOK
    <2>4. Readers = 1
      BY <2>2 DEF Readers, NoOp
    <2>5. /\ header_buffer_' = IF Head(inbound).n = 0 THEN "bad" ELSE "valid"
          /\ align' = "body"
      BY <1>18, <2>3, <2>4 DEF HeaderArrives
    <2>6. /\ succeeded'["header"] = 1 /\ waiting'["body"] = 0
          /\ succeeded'["body"] = 0
      BY <2>1, <2>2 DEF Differs, NoOp
    <2> QED
      BY <2>1, <2>2, <2>5, <2>6 DEF ReadInv, Carrying
  <1>19. CASE BodyArrives
    <2>1. /\ Differs(succeeded', succeeded, "body", 1)
          /\ Differs(waiting', waiting, "body", -1)
          /\ waiting["body"] > 0
          /\ UNCHANGED <<state_, failed, late, socket_, header_buffer_>>
          /\ Carrying /\ inbound # << >>
      BY <1>b, <1>19, IncEffects, DecEffects, Kinds DEF BodyArrives, hist, Carrying
    <2>2. waiting["body"] = 1 /\ succeeded["body"] = 0 /\ NoOp("header")
      BY <1>a, <2>1 DEF Exclusive, NoOp, OneOp
    <2>3. align = "body" /\ Readers = 1
      BY <2>2 DEF ReadInv, NoOp, Readers
    <2>4. align' = "hdr"
      BY <1>19, <2>3 DEF BodyArrives
    <2>5. succeeded'["header"] = 0 /\ waiting'["body"] = 0
      BY <2>1, <2>2 DEF Differs, NoOp
    <2>6. late' = 0
      BY <2>1 DEF ReadInv, SocketInv, Carrying
    <2> QED
      BY <2>1, <2>4, <2>5, <2>6 DEF ReadInv, Carrying
  <1>20. CASE WriteCompletes
    <2>1. /\ Differs(succeeded', succeeded, "write", 1)
          /\ Differs(waiting', waiting, "write", -1)
          /\ UNCHANGED <<state_, failed, late, socket_, header_buffer_, inbound, align>>
      BY <1>b, <1>20, IncEffects, DecEffects, Kinds DEF WriteCompletes, client
    <2> QED
      BY <2>1, AsideKeepsReadInv DEF Differs, Carrying
  <1>21. ASSUME NEW k \in {"header", "body", "write"}, OperationFails(k)
         PROVE  ReadInv'
    <2>1. /\ Differs(failed', failed, k, 1)
          /\ Differs(waiting', waiting, k, -1)
          /\ waiting[k] > 0
          /\ UNCHANGED <<state_, succeeded, late, socket_, header_buffer_, inbound, align>>
      BY <1>b, <1>21, IncEffects, DecEffects, Kinds DEF OperationFails, client, hist
    <2>2. CASE k # "body"
      BY <2>1, <2>2, AsideKeepsReadInv DEF Differs, Carrying
    <2>3. CASE k = "body"
      <3>1. waiting["body"] = 1 /\ failed["body"] = 0 /\ NoOp("header")
        BY <1>a, <2>1, <2>3 DEF Exclusive, NoOp, OneOp
      <3>2. waiting'["body"] = 0 /\ failed'["body"] = 1
        BY <2>1, <2>3, <3>1 DEF Differs
      <3> QED
        BY <2>1, <3>1, <3>2 DEF ReadInv, Carrying, NoOp
    <2> QED
      BY <2>2, <2>3
  <1>22. CASE UNCHANGED vars
    BY <1>22 DEF vars, client, asio, hist, ReadInv, Carrying
  <1> QED
    BY <1>1, <1>2, <1>3, <1>4, <1>5, <1>6, <1>7, <1>8, <1>9, <1>10, <1>12, <1>13, <1>14,
       <1>15, <1>16, <1>17, <1>18, <1>19, <1>20, <1>21, <1>22
    DEF Next, UserThread, IoThread, Network

\* Nothing has been read at first.
LEMMA ReadInit == Init => ReadInv
  <1>1. None(NoOps)
    BY Kinds DEF NoOps, None
  <1> QED
    BY <1>1 DEF Init, ReadInv, None, Carrying

\* start_read_header / start_read_body: every read starts where a frame's header
\* or body does, header_buffer_ describes the frame at the front of the socket,
\* and after a close at most one more frame is delivered.
THEOREM ReadCorrect ==
  ASSUME ~EagerReconnect
  PROVE  Spec => []ReadInv
  <1>1. TypeOK /\ TypeOK' /\ SingleReadChain /\ SocketInv /\ ReadInv /\ [Next]_vars => ReadInv'
    BY ReadStep
  <1> QED
    BY <1>1, ReadInit, TypeCorrect, ChainCorrect, SocketCorrect, PTL DEF Spec

\* network_close: a body read that had completed before the close may still
\* deliver its frame; after that one on_frame_ gets no frame of the old
\* connection.
THEOREM LateCorrect ==
  ASSUME ~EagerReconnect
  PROVE  Spec => []AtMostOneLateFrame
  <1>1. TypeOK /\ ReadInv => AtMostOneLateFrame
    BY DEF ReadInv, TypeOK, AtMostOneLateFrame
  <1> QED
    BY <1>1, ReadCorrect, TypeCorrect, PTL

-----------------------------------------------------------------------------
(* What is delivered. *)

\* The steps that neither read nor deliver a frame, nor open a connection.
LEMMA AsideKeepsPrefixInv ==
  ASSUME PrefixInv, UNCHANGED <<delivered, connects, body_buffer_>>,
         InCall' \/ waiting'["connect"] > 0 => InCall \/ waiting["connect"] > 0,
         succeeded'["body"] = succeeded["body"],
         Carrying' => Carrying /\ UNCHANGED <<inbound, peerSent>>
  PROVE  PrefixInv'
  <1>1. PrefixDelivered'
    BY DEF PrefixInv, PrefixDelivered
  <1>2. Fresh' = Fresh /\ LastRead' = LastRead /\ Follows(body_buffer_)' = Follows(body_buffer_)
    BY DEF Fresh, LastRead, Follows
  <1>3. Carrying' => (InboundInv /\ ConsumedInv)'
    BY <1>2 DEF PrefixInv, InboundInv, ConsumedInv, Consumed
  <1> QED
    BY <1>1, <1>2, <1>3 DEF PrefixInv

\* network_close() in a handler.
LEMMA CloseKeepsPrefixInv ==
  ASSUME TypeOK, SocketInv, PrefixInv, UNCHANGED <<delivered, connects, body_buffer_, ut>>,
         NEW s \in [OpKind -> Nat], NEW f \in [OpKind -> Nat],
         network_close(s, f), s["body"] = succeeded["body"]
  PROVE  PrefixInv'
  <1>0. InCall' = InCall
    BY DEF InCall
  <1>1. CASE state_ = "DISCONNECTED"
    <2>1. /\ succeeded' = s /\ UNCHANGED <<state_, socket_, waiting, inbound, align>>
          /\ socket_ = "closed"
      BY <1>1, NetworkCloseEffects DEF SocketInv
    <2> QED
      BY <1>0, <2>1, AsideKeepsPrefixInv DEF Carrying
  <1>2. CASE state_ # "DISCONNECTED"
    <2>1. Closed(s, f)
      BY <1>2, NetworkCloseEffects
    <2> QED
      BY <1>0, <2>1, AsideKeepsPrefixInv DEF Carrying, Closed, None
  <1> QED
    BY <1>1, <1>2

\* The last delivered frame is a frame.
LEMMA LastFrame ==
  ASSUME TypeOK, delivered # << >>
  PROVE  /\ Len(delivered) \in Nat \ {0}
         /\ delivered[Len(delivered)] \in Frame
         /\ delivered[Len(delivered)].conn \in Nat
         /\ delivered[Len(delivered)].n \in Nat
  <1>1. delivered \in Seq(Frame)
    BY DEF TypeOK
  <1>2. Len(delivered) \in Nat \ {0} /\ delivered[Len(delivered)] \in Frame
    BY <1>1
  <1> QED
    BY <1>2, BoundsAssumption DEF Frame

\* A body read takes the frame that follows the last one delivered.
LEMMA BodyArrivesPrefix ==
  ASSUME TypeOK, Exclusive, ReadInv, PrefixInv, BodyArrives
  PROVE  PrefixInv'
  <1>0. /\ Counts(waiting) /\ Counts(succeeded) /\ Counts(failed)
        /\ waiting \in [OpKind -> Nat]
        /\ succeeded \in [OpKind -> Nat]
    BY CountNat
  <1>1. /\ Differs(succeeded', succeeded, "body", 1)
        /\ Differs(waiting', waiting, "body", -1)
        /\ waiting["body"] > 0
        /\ UNCHANGED <<socket_, delivered, connects, peerSent, ut>>
        /\ Carrying /\ inbound # << >> /\ inbound' = Tail(inbound)
    BY <1>0, IncEffects, DecEffects, Kinds DEF BodyArrives, hist, Carrying
  <1>2. waiting["body"] = 1 /\ succeeded["body"] = 0 /\ NoOp("header") /\ NoOp("connect") /\ ~InCall
    BY <1>1 DEF Exclusive, NoOp, OneOp
  <1>3. align = "body" /\ Readers = 1 /\ Head(inbound).n # 0
    BY <1>2 DEF ReadInv, NoOp, Readers
  <1>4. body_buffer_' = Head(inbound)
    BY <1>3 DEF BodyArrives
  <1>5. /\ inbound \in Seq(Frame) /\ Len(inbound) \in Nat /\ Len(inbound) > 0
        /\ Len(inbound') = Len(inbound) - 1
        /\ \A i \in 1 .. Len(inbound') : inbound'[i] = inbound[i + 1]
        /\ Head(inbound) = inbound[1]
        /\ peerSent \in Nat /\ connects \in Nat
    BY <1>1, BoundsAssumption DEF TypeOK
  <1>6. /\ Len(inbound) <= peerSent
        /\ \A i \in 1 .. Len(inbound) :
             /\ inbound[i].conn = connects
             /\ inbound[i].n \in {0, Consumed + i}
    BY <1>1 DEF PrefixInv, InboundInv
  <1>7. Consumed \in Nat /\ Consumed' = Consumed + 1
    BY <1>1, <1>5, <1>6 DEF Consumed
  <1>8. InboundInv'
    <2>1. Len(inbound') <= peerSent'
      BY <1>1, <1>5, <1>6
    <2>2. ASSUME NEW i \in 1 .. Len(inbound')
          PROVE  inbound'[i].conn = connects' /\ inbound'[i].n \in {0, Consumed' + i}
      <3>1. i + 1 \in 1 .. Len(inbound) /\ inbound'[i] = inbound[i + 1]
        BY <1>5, <2>2
      <3>2. Consumed' + i = Consumed + (i + 1)
        BY <1>7
      <3> QED
        BY <1>1, <1>6, <3>1, <3>2
    <2> QED
      BY <2>1, <2>2 DEF InboundInv
  <1>9. body_buffer_' = [conn |-> connects, n |-> Consumed + 1]
    <2>1. Head(inbound) \in Frame /\ Head(inbound).conn = connects /\ Head(inbound).n = Consumed + 1
      BY <1>1, <1>3, <1>5, <1>6 DEF TypeOK
    <2> QED
      BY <1>4, <2>1 DEF Frame
  <1>10. succeeded'["body"] = 1 /\ waiting'["connect"] = 0 /\ ~InCall'
    BY <1>1, <1>2 DEF Differs, NoOp, InCall
  <1>11. ConsumedInv'
    BY <1>1, <1>7, <1>9, <1>10 DEF ConsumedInv, LastRead
  <1>12. Follows(body_buffer_)'
    <2>1. body_buffer_'.n > 0 /\ body_buffer_'.conn = connects
      BY <1>7, <1>9
    <2>2. CASE Consumed = 0
      BY <1>1, <1>2, <1>9, <2>1, <2>2 DEF Follows, PrefixInv, ConsumedInv, Fresh
    <2>3. CASE Consumed # 0
      <3>1. delivered # << >> /\ delivered[Len(delivered)] = [conn |-> connects, n |-> Consumed]
        BY <1>1, <1>2, <2>3 DEF PrefixInv, ConsumedInv, LastRead
      <3>2. [body_buffer_' EXCEPT !.n = @ - 1] = [conn |-> connects, n |-> Consumed]
        BY <1>7, <1>9
      <3> QED
        BY <1>1, <2>1, <3>1, <3>2 DEF Follows
    <2> QED
      BY <2>2, <2>3
  <1> QED
    BY <1>1, <1>8, <1>9, <1>10, <1>11, <1>12 DEF PrefixInv, PrefixDelivered, Carrying

\* The body handler delivers the frame that was read.
LEMMA BodyHandlerPrefix ==
  ASSUME TypeOK, Exclusive, PrefixInv, BodyHandlerOk
  PROVE  PrefixInv'
  <1>0. succeeded \in [OpKind -> Nat] /\ waiting \in [OpKind -> Nat]
    BY CountNat
  <1>1. /\ Differs(succeeded', succeeded, "body", -1)
        /\ succeeded["body"] > 0
        /\ UNCHANGED <<socket_, waiting, connects, peerSent, ut, inbound, body_buffer_>>
        /\ delivered' = Append(delivered, body_buffer_)
    BY <1>0, DecEffects, Kinds DEF BodyHandlerOk, client
  <1>2. succeeded["body"] = 1 /\ NoOp("connect") /\ ~InCall
    BY <1>1 DEF Exclusive, NoOp, OneOp
  <1>3. succeeded'["body"] = 0 /\ waiting'["connect"] = 0 /\ ~InCall'
    BY <1>1, <1>2 DEF Differs, NoOp, InCall
  <1>4. /\ Len(delivered) \in Nat /\ Len(delivered') = Len(delivered) + 1
        /\ delivered'[Len(delivered')] = body_buffer_
        /\ \A i \in 1 .. Len(delivered) : delivered'[i] = delivered[i]
        /\ delivered = << >> <=> Len(delivered) = 0
        /\ delivered' # << >>
    <2>1. delivered \in Seq(Frame) /\ body_buffer_ \in Frame
      BY DEF TypeOK
    <2> QED
      BY <1>1, <2>1
  <1>5. Follows(body_buffer_) /\ body_buffer_.conn = connects
    BY <1>1 DEF PrefixInv
  <1>6. PrefixDelivered'
    <2> SUFFICES ASSUME NEW i \in 1 .. Len(delivered')
                 PROVE  /\ delivered'[i].n > 0
                        /\ \/ delivered'[i].n = 1 /\ (i = 1 \/ delivered'[i - 1].conn < delivered'[i].conn)
                           \/ i > 1 /\ delivered'[i - 1] = [delivered'[i] EXCEPT !.n = @ - 1]
      BY DEF PrefixDelivered
    <2>1. CASE i \in 1 .. Len(delivered)
      <3>1. delivered'[i] = delivered[i] /\ (i > 1 => delivered'[i - 1] = delivered[i - 1])
        BY <1>4, <2>1
      <3> QED
        BY <2>1, <3>1 DEF PrefixInv, PrefixDelivered
    <2>2. CASE i = Len(delivered) + 1
      <3>1. delivered'[i] = body_buffer_ /\ (i > 1 => delivered'[i - 1] = delivered[Len(delivered)])
        BY <1>4, <2>2
      <3>2. delivered = << >> <=> i = 1
        BY <1>4, <2>2
      <3> QED
        BY <1>4, <1>5, <2>2, <3>1, <3>2 DEF Follows
    <2> QED
      BY <1>4, <2>1, <2>2
  <1>7. Carrying' => InboundInv'
    BY <1>1 DEF PrefixInv, InboundInv, Consumed, Carrying
  <1>8. Carrying' => ConsumedInv'
    <2> SUFFICES ASSUME Carrying' PROVE ConsumedInv'
      OBVIOUS
    <2>1. Consumed # 0 /\ body_buffer_ = [conn |-> connects, n |-> Consumed]
      BY <1>1, <1>2 DEF Carrying, PrefixInv, ConsumedInv, LastRead
    <2>2. Consumed' = Consumed /\ LastRead' = body_buffer_
      BY <1>1, <1>3, <1>4 DEF Consumed, LastRead
    <2> QED
      BY <1>1, <1>4, <2>1, <2>2 DEF ConsumedInv
  <1>9. connects \in Nat
    BY BoundsAssumption DEF TypeOK
  <1> QED
    BY <1>1, <1>3, <1>4, <1>5, <1>6, <1>7, <1>8, <1>9 DEF PrefixInv

\* The server numbers its frames, or sends one that is not valid.
LEMMA PeerSendsPrefix ==
  ASSUME TypeOK, PrefixInv, PeerSends
  PROVE  PrefixInv'
  <1>1. PICK n \in {0, peerSent + 1} : inbound' = Append(inbound, [conn |-> connects, n |-> n])
    BY DEF PeerSends
  <1>2. /\ UNCHANGED <<socket_, waiting, succeeded, connects, delivered, ut, body_buffer_>>
        /\ peerSent' = peerSent + 1 /\ Carrying /\ peerSent \in Nat
    BY BoundsAssumption DEF PeerSends, client, hist, Carrying, TypeOK
  <1>a. [conn |-> connects, n |-> n] \in Frame
    BY BoundsAssumption DEF PeerSends, TypeOK, Frame
  <1>3. /\ Len(inbound) \in Nat /\ Len(inbound') = Len(inbound) + 1
        /\ inbound'[Len(inbound) + 1] = [conn |-> connects, n |-> n]
        /\ \A i \in 1 .. Len(inbound) : inbound'[i] = inbound[i]
    BY <1>1, <1>a DEF TypeOK
  <1>4. InboundInv /\ ConsumedInv
    BY <1>2 DEF PrefixInv
  <1>5. Consumed' = Consumed /\ Consumed \in Nat
    BY <1>2, <1>3, <1>4 DEF Consumed, InboundInv
  <1>6. InboundInv'
    <2>1. Len(inbound') <= peerSent'
      BY <1>2, <1>3, <1>4 DEF InboundInv
    <2>2. ASSUME NEW i \in 1 .. Len(inbound')
          PROVE  inbound'[i].conn = connects' /\ inbound'[i].n \in {0, Consumed' + i}
      <3>1. CASE i \in 1 .. Len(inbound)
        BY <1>2, <1>3, <1>4, <1>5, <3>1 DEF InboundInv
      <3>2. CASE i = Len(inbound) + 1
        <4>1. Consumed + i = peerSent + 1
          BY <1>2, <1>3, <3>2 DEF Consumed
        <4> QED
          BY <1>2, <1>3, <1>5, <3>2, <4>1
      <3> QED
        BY <1>3, <2>2, <3>1, <3>2
    <2> QED
      BY <2>1, <2>2 DEF InboundInv
  <1>7. ConsumedInv'
    BY <1>2, <1>4, <1>5 DEF ConsumedInv, Fresh, LastRead
  <1> QED
    BY <1>2, <1>6, <1>7 DEF PrefixInv, PrefixDelivered, InCall, Fresh, Follows

\* A new connection: none of its frames has been read.
LEMMA NetworkConnectPrefix ==
  ASSUME TypeOK, Exclusive, SocketInv, PrefixInv, NetworkConnect, ~EagerReconnect
  PROVE  PrefixInv'
  <1>1. /\ UNCHANGED <<socket_, waiting, succeeded, delivered, body_buffer_>>
        /\ connects' = connects + 1 /\ connects \in Nat /\ socket_ = "closed"
    BY BoundsAssumption DEF NetworkConnect, asio, SocketInv, TypeOK
  <1>2. NoOp("body")
    BY DrainedOps, Kinds DEF NetworkConnect
  <1>3. delivered # << >> => /\ delivered[Len(delivered)].conn < connects'
                             /\ delivered[Len(delivered)].conn <= connects'
    BY <1>1, LastFrame DEF PrefixInv
  <1> QED
    BY <1>1, <1>2, <1>3 DEF PrefixInv, PrefixDelivered, Fresh, Carrying, NoOp

\* A connection that has just been made has read nothing.
LEMMA ConnectSucceedsPrefix ==
  ASSUME TypeOK, Exclusive, ReadInv, PrefixInv, ConnectSucceeds
  PROVE  PrefixInv'
  <1>0. succeeded \in [OpKind -> Nat] /\ waiting \in [OpKind -> Nat]
    BY CountNat
  <1>1. /\ Differs(succeeded', succeeded, "connect", 1)
        /\ waiting["connect"] > 0
        /\ UNCHANGED <<connects, delivered, body_buffer_>>
        /\ inbound = << >> /\ inbound' = << >> /\ peerSent' = 0
    BY <1>0, IncEffects, Kinds DEF ConnectSucceeds, client, hist, ReadInv, Carrying
  <1>2. NoOp("body")
    BY <1>1 DEF Exclusive, NoOp
  <1>3. Fresh /\ Fresh' /\ succeeded'["body"] = 0
    BY <1>1, <1>2 DEF PrefixInv, Fresh, Differs, NoOp
  <1>4. Consumed' = 0 /\ InboundInv'
    <2>1. Len(inbound') = 0
      BY <1>1
    <2>0. peerSent' = 0
      BY <1>1
    <2>2. Consumed' = 0
      BY <2>0, <2>1 DEF Consumed
    <2>3. InboundInv'
      BY <1>1, <2>1 DEF InboundInv
    <2> QED
      BY <2>2, <2>3
  <1> QED
    BY <1>1, <1>3, <1>4 DEF PrefixInv, PrefixDelivered, ConsumedInv

\* Every step keeps what was read, what is left and what was delivered in
\* sequence.
LEMMA PrefixStep ==
  ASSUME TypeOK, SingleReadChain, SocketInv, ReadInv, PrefixInv, ~EagerReconnect, [Next]_vars
  PROVE  PrefixInv'
  <1>a. Exclusive
    BY ChainExclusive
  <1>b. /\ waiting \in [OpKind -> Nat]
        /\ succeeded \in [OpKind -> Nat]
        /\ failed \in [OpKind -> Nat]
    BY CountNat
  <1>c. Counts(waiting)
    BY CountNat
  <1>1. CASE NetworkConnect
    BY <1>1, <1>a, NetworkConnectPrefix
  <1>2. CASE FetchServers \/ ResolveThrows \/ Shutdown
    BY <1>2, AsideKeepsPrefixInv
    DEF FetchServers, ResolveThrows, Shutdown, client, asio, hist, Carrying, InCall
  <1>3. CASE StoreDisconnected \/ FrameThrows \/ Break
    BY <1>3, AsideKeepsPrefixInv
    DEF StoreDisconnected, FrameThrows, Break, client, asio, hist, Carrying, InCall
  <1>4. CASE AsyncConnect
    <2>1. UNCHANGED <<delivered, connects, body_buffer_>> /\ InCall /\ ~Carrying'
      BY <1>4 DEF AsyncConnect, client, hist, InCall, Carrying
    <2> QED
      BY <1>4, <2>1, AsyncConnectEffects, AsideKeepsPrefixInv
  <1>5. CASE CloseSocket
    <2>0. UNCHANGED <<delivered, connects, body_buffer_>> /\ ~InCall'
      BY <1>5 DEF CloseSocket, client, hist, InCall
    <2>1. CASE state_ = "DISCONNECTED"
      BY <1>5, <2>0, <2>1, AsideKeepsPrefixInv DEF CloseSocket, asio, Carrying
    <2>2. CASE state_ # "DISCONNECTED"
      <3>1. Closed(succeeded, failed)
        BY <1>b, <1>5, <2>2, CloseEffects DEF CloseSocket
      <3> QED
        BY <2>0, <3>1, AsideKeepsPrefixInv DEF Closed, Carrying, None
    <2> QED BY <2>1, <2>2
  <1>6. CASE AsyncSend
    <2>0. UNCHANGED <<delivered, connects, body_buffer_, ut, inbound, peerSent, socket_, succeeded>>
      BY <1>6 DEF AsyncSend, asio, hist, do_write
    <2>1. waiting'["connect"] = waiting["connect"]
      <3>1. AsyncStart("write", failed) \/ UNCHANGED waiting
        BY <1>6 DEF AsyncSend, do_write, asio
      <3> QED
        BY <1>b, <3>1, StartEffects, Kinds DEF Differs
    <2> QED
      BY <2>0, <2>1, AsideKeepsPrefixInv DEF Carrying, InCall
  <1>7. CASE ConnectHandlerOk
    <2>1. /\ Differs(succeeded', succeeded, "connect", -1)
          /\ AsyncStart("header", failed)
          /\ UNCHANGED <<delivered, connects, body_buffer_, ut, inbound, peerSent, socket_>>
      BY <1>b, <1>7, DecEffects, Kinds DEF ConnectHandlerOk, start_read_header, hist
    <2>2. waiting'["connect"] = waiting["connect"]
      BY <1>b, <2>1, StartEffects, Kinds DEF Differs
    <2> QED
      BY <2>1, <2>2, AsideKeepsPrefixInv DEF Carrying, InCall, Differs
  <1>8. CASE ConnectHandlerError
    BY <1>8, AsideKeepsPrefixInv DEF ConnectHandlerError, hist, Carrying, InCall
  <1>9. CASE HeaderHandlerOk
    <2>1. /\ Dec(succeeded, "header") \in [OpKind -> Nat]
          /\ Differs(Dec(succeeded, "header"), succeeded, "header", -1)
          /\ UNCHANGED <<delivered, connects, body_buffer_, ut, peerSent>>
      BY <1>b, <1>9, DecEffects, Kinds DEF HeaderHandlerOk, hist
    <2>2. CASE header_buffer_ = "valid"
      <3>1. /\ AsyncStart("body", failed) /\ succeeded' = Dec(succeeded, "header")
            /\ UNCHANGED <<socket_, inbound>>
        BY <1>9, <2>2 DEF HeaderHandlerOk, start_read_body
      <3>2. waiting'["connect"] = waiting["connect"]
        BY <1>b, <3>1, StartEffects, Kinds DEF Differs
      <3> QED
        BY <2>1, <3>1, <3>2, AsideKeepsPrefixInv DEF Carrying, InCall, Differs
    <2>3. CASE header_buffer_ # "valid"
      <3>1. network_close(Dec(succeeded, "header"), failed)
        BY <1>9, <2>3 DEF HeaderHandlerOk, handle_disconnect
      <3> QED
        BY <1>b, <2>1, <3>1, CloseKeepsPrefixInv DEF Differs
    <2> QED BY <2>2, <2>3
  <1>10. CASE BodyHandlerOk
    BY <1>10, <1>a, BodyHandlerPrefix
  <1>11. CASE FrameReturn
    <2>1. /\ AsyncStart("header", failed)
          /\ UNCHANGED <<delivered, connects, body_buffer_, ut, inbound, peerSent, socket_, succeeded>>
      BY <1>11 DEF FrameReturn, start_read_header, client, hist
    <2>2. waiting'["connect"] = waiting["connect"]
      BY <1>b, <2>1, StartEffects, Kinds DEF Differs
    <2> QED
      BY <2>1, <2>2, AsideKeepsPrefixInv DEF Carrying, InCall
  <1>12. CASE CallbackDisconnect
    BY <1>b, <1>12, CloseKeepsPrefixInv DEF CallbackDisconnect, hist
  <1>13. ASSUME NEW k \in {"header", "body", "write"}, failed[k] > 0,
                network_close(succeeded, Dec(failed, k)),
                UNCHANGED <<delivered, connects, body_buffer_, ut>>
         PROVE  PrefixInv'
    <2>1. Dec(failed, k) \in [OpKind -> Nat]
      BY <1>b, <1>13, DecEffects, Kinds
    <2> QED
      BY <1>b, <2>1, <1>13, CloseKeepsPrefixInv
  <1>14. CASE \E k \in {"header", "body"} : ReadHandlerError(k)
    BY <1>13, <1>14 DEF ReadHandlerError, handle_disconnect, hist
  <1>15. CASE WriteHandlerError
    BY <1>13, <1>15 DEF WriteHandlerError, handle_disconnect
  <1>16. CASE WriteHandlerOk
    <2>1. /\ succeeded' = Dec(succeeded, "write")
          /\ UNCHANGED <<delivered, connects, body_buffer_, ut, inbound, peerSent, socket_>>
          /\ succeeded["write"] > 0
          /\ AsyncStart("write", failed) \/ UNCHANGED <<waiting, failed>>
      BY <1>16 DEF WriteHandlerOk, do_write, hist
    <2>2. Differs(succeeded', succeeded, "write", -1)
      BY <1>b, <2>1, DecEffects, Kinds
    <2>3. waiting'["connect"] = waiting["connect"]
      BY <1>b, <2>1, StartEffects, Kinds DEF Differs
    <2> QED
      BY <2>1, <2>2, <2>3, AsideKeepsPrefixInv DEF Carrying, InCall, Differs
  <1>17. CASE ConnectSucceeds
    BY <1>17, <1>a, ConnectSucceedsPrefix
  <1>18. CASE ConnectFails
    <2>1. Closed(succeeded, failed) /\ UNCHANGED <<delivered, connects, body_buffer_, ut>>
      BY <1>b, <1>18, CloseEffects DEF ConnectFails, client, hist
    <2> QED
      BY <2>1, AsideKeepsPrefixInv DEF Closed, Carrying, None, InCall
  <1>19. CASE PeerSends
    BY <1>19, PeerSendsPrefix
  <1>20. CASE HeaderArrives
    <2>1. /\ Differs(succeeded', succeeded, "header", 1)
          /\ Differs(waiting', waiting, "header", -1)
          /\ UNCHANGED <<delivered, connects, body_buffer_, ut, inbound, peerSent, socket_>>
      BY <1>b, <1>20, IncEffects, DecEffects, Kinds DEF HeaderArrives, hist
    <2> QED
      BY <2>1, AsideKeepsPrefixInv DEF Differs, Carrying, InCall
  <1>21. CASE BodyArrives
    BY <1>21, <1>a, BodyArrivesPrefix
  <1>22. CASE WriteCompletes
    <2>1. /\ Differs(succeeded', succeeded, "write", 1)
          /\ Differs(waiting', waiting, "write", -1)
          /\ UNCHANGED <<delivered, connects, body_buffer_, ut, inbound, peerSent, socket_>>
      BY <1>b, <1>22, IncEffects, DecEffects, Kinds DEF WriteCompletes, client
    <2> QED
      BY <2>1, AsideKeepsPrefixInv DEF Differs, Carrying, InCall
  <1>23. ASSUME NEW k \in {"header", "body", "write"}, OperationFails(k)
         PROVE  PrefixInv'
    <2>1. /\ Differs(waiting', waiting, k, -1)
          /\ UNCHANGED <<delivered, connects, body_buffer_, ut, inbound, peerSent, socket_, succeeded>>
      BY <1>b, <1>23, DecEffects, Kinds DEF OperationFails, client, hist
    <2> QED
      BY <2>1, AsideKeepsPrefixInv DEF Differs, Carrying, InCall
  <1>24. CASE UNCHANGED vars
    BY <1>24, AsideKeepsPrefixInv DEF vars, client, asio, hist, Carrying, InCall
  <1> QED
    BY <1>1, <1>2, <1>3, <1>4, <1>5, <1>6, <1>7, <1>8, <1>9, <1>10, <1>11, <1>12, <1>14,
       <1>15, <1>16, <1>17, <1>18, <1>19, <1>20, <1>21, <1>22, <1>23, <1>24
    DEF Next, UserThread, IoThread, Network

\* Nothing has been delivered at first.
LEMMA PrefixInit == Init => PrefixInv
  <1>1. None(NoOps)
    BY Kinds DEF NoOps, None
  <1> QED
    BY <1>1 DEF Init, PrefixInv, PrefixDelivered, None, Carrying, InCall, Fresh

\* The frame read last, the frames not yet read and those delivered are
\* consecutive frames of the present connection.
THEOREM PrefixInvCorrect ==
  ASSUME ~EagerReconnect
  PROVE  Spec => []PrefixInv
  <1>1. TypeOK /\ SingleReadChain /\ SocketInv /\ ReadInv /\ PrefixInv /\ [Next]_vars => PrefixInv'
    BY PrefixStep
  <1> QED
    BY <1>1, PrefixInit, TypeCorrect, ChainCorrect, SocketCorrect, ReadCorrect, PTL DEF Spec

\* set_on_frame: on_frame_ gets, per connection, a gap-free prefix of what the
\* server sent, each frame once and in order, and never a byte of anything else,
\* whatever is closed, reconnected or broken in between.
THEOREM PrefixCorrect ==
  ASSUME ~EagerReconnect
  PROVE  Spec => []PrefixDelivered
  <1>1. PrefixInv => PrefixDelivered
    BY DEF PrefixInv
  <1> QED
    BY <1>1, PrefixInvCorrect, PTL

-----------------------------------------------------------------------------
(* What is written. *)

\* Every step but these three leaves the queue, what was written, and the write
\* handlers that are queued without an error as they are.
LEMMA WriteAside ==
  ASSUME TypeOK, [Next]_vars, ~AsyncSend, ~WriteHandlerOk, ~WriteCompletes
  PROVE  /\ UNCHANGED <<write_queue_, outbound, sends>>
         /\ succeeded'["write"] = succeeded["write"]
         /\ wfailed => wfailed'
         /\ NetworkConnect \/ connects' = connects
  <1> DEFINE Kept == /\ UNCHANGED <<write_queue_, outbound, sends>>
                     /\ wfailed => wfailed'
                     /\ NetworkConnect \/ connects' = connects
  <1>b. /\ waiting \in [OpKind -> Nat]
        /\ succeeded \in [OpKind -> Nat]
        /\ failed \in [OpKind -> Nat]
    BY CountNat
  <1>1. CASE \/ NetworkConnect \/ FetchServers \/ ResolveThrows \/ Shutdown
             \/ StoreDisconnected \/ FrameThrows \/ Break \/ PeerSends
    <2>1. CASE NetworkConnect
      <3>1. UNCHANGED <<write_queue_, outbound, sends, wfailed, succeeded>>
        BY <2>1 DEF NetworkConnect, asio
      <3> QED
        BY <2>1, <3>1
    <2>2. CASE FetchServers \/ ResolveThrows \/ Shutdown
      <3>1. UNCHANGED <<write_queue_, outbound, sends, wfailed, succeeded, connects>>
        BY <2>2 DEF FetchServers, ResolveThrows, Shutdown, client, asio, hist
      <3> QED
        BY <3>1
    <2>3. CASE StoreDisconnected \/ FrameThrows \/ Break \/ PeerSends
      BY <2>3 DEF StoreDisconnected, FrameThrows, Break, PeerSends, client, asio, hist
    <2> QED
      BY <1>1, <2>1, <2>2, <2>3
  <1>2. CASE ConnectHandlerError \/ FrameReturn \/ \E k \in {"header", "body", "write"} : OperationFails(k)
    BY <1>2 DEF ConnectHandlerError, FrameReturn, start_read_header, OperationFails, client, hist
  <1>3. CASE AsyncConnect
    BY <1>3, AsyncConnectEffects DEF AsyncConnect, client, hist
  <1>4. ASSUME Kept, NEW s \in [OpKind -> Nat], NEW f \in [OpKind -> Nat],
               s["write"] = succeeded["write"], network_close(s, f) \/ SocketClose(s, f)
        PROVE  Kept /\ succeeded'["write"] = succeeded["write"]
    BY <1>4, NetworkCloseEffects, CloseEffects DEF Closed
  <1>5. CASE CloseSocket
    <2>1. Kept
      BY <1>5 DEF CloseSocket, client, hist
    <2>2. succeeded' = succeeded \/ SocketClose(succeeded, failed)
      BY <1>5 DEF CloseSocket, asio
    <2> QED
      BY <1>b, <1>4, <2>1, <2>2
  <1>6. CASE CallbackDisconnect
    <2>1. Kept /\ network_close(succeeded, failed)
      BY <1>6 DEF CallbackDisconnect, hist
    <2> QED
      BY <1>b, <1>4, <2>1
  <1>7. CASE ConnectFails
    <2>1. Kept /\ SocketClose(succeeded, failed)
      BY <1>7 DEF ConnectFails, client, hist
    <2> QED
      BY <1>b, <1>4, <2>1
  <1>8. ASSUME NEW k \in {"header", "body", "write"}, failed[k] > 0, Kept,
               network_close(succeeded, Dec(failed, k))
        PROVE  Kept /\ succeeded'["write"] = succeeded["write"]
    <2>1. Dec(failed, k) \in [OpKind -> Nat]
      BY <1>b, <1>8, DecEffects, Kinds
    <2> QED
      BY <1>b, <1>4, <1>8, <2>1
  <1>9. CASE \E k \in {"header", "body"} : ReadHandlerError(k)
    <2>1. PICK k \in {"header", "body"} : ReadHandlerError(k)
      BY <1>9
    <2>2. failed[k] > 0 /\ Kept /\ network_close(succeeded, Dec(failed, k))
      BY <2>1 DEF ReadHandlerError, handle_disconnect, hist
    <2> QED
      BY <1>8, <2>2
  <1>10. CASE WriteHandlerError
    <2>1. failed["write"] > 0 /\ Kept /\ network_close(succeeded, Dec(failed, "write"))
      BY <1>10 DEF WriteHandlerError, handle_disconnect
    <2> QED
      BY <1>8, <2>1
  <1>11. CASE ConnectHandlerOk \/ BodyHandlerOk
    <2>1. PICK k \in {"connect", "body"} : succeeded' = Dec(succeeded, k) /\ succeeded[k] > 0
      BY <1>11 DEF ConnectHandlerOk, BodyHandlerOk, start_read_header
    <2>2. Differs(succeeded', succeeded, k, -1)
      BY <1>b, <2>1, DecEffects, Kinds
    <2>3. Kept
      BY <1>11 DEF ConnectHandlerOk, BodyHandlerOk, client, hist
    <2> QED
      BY <2>2, <2>3 DEF Differs
  <1>12. CASE HeaderHandlerOk
    <2>1. /\ Dec(succeeded, "header") \in [OpKind -> Nat]
          /\ Differs(Dec(succeeded, "header"), succeeded, "header", -1)
          /\ Kept
      BY <1>b, <1>12, DecEffects, Kinds DEF HeaderHandlerOk, hist
    <2>2. \/ succeeded' = Dec(succeeded, "header")
          \/ network_close(Dec(succeeded, "header"), failed)
      BY <1>12 DEF HeaderHandlerOk, start_read_body, handle_disconnect
    <2> QED
      BY <1>b, <1>4, <2>1, <2>2 DEF Differs
  <1>13. CASE ConnectSucceeds \/ HeaderArrives \/ BodyArrives
    <2>1. PICK k \in {"connect", "header", "body"} : succeeded' = Inc(succeeded, k)
      BY <1>13 DEF ConnectSucceeds, HeaderArrives, BodyArrives
    <2>2. Differs(succeeded', succeeded, k, 1)
      BY <1>b, <2>1, IncEffects, Kinds
    <2>3. Kept
      BY <1>13 DEF ConnectSucceeds, HeaderArrives, BodyArrives, client, hist
    <2> QED
      BY <2>2, <2>3 DEF Differs
  <1>14. CASE UNCHANGED vars
    BY <1>14 DEF vars, client, asio, hist
  <1> QED
    BY <1>1, <1>2, <1>3, <1>5, <1>6, <1>7, <1>9, <1>10, <1>11, <1>12, <1>13, <1>14
    DEF Next, UserThread, IoThread, Network

\* The steps that do not touch the queue or what was written.
LEMMA AsideKeepsWriteInv ==
  ASSUME WriteInv, UNCHANGED <<write_queue_, outbound, sends, connects>>,
         wfailed => wfailed', succeeded'["write"] = succeeded["write"]
  PROVE  WriteInv'
  BY DEF WriteInv, QueueInv, OutboundInv, WrittenToOwnConnection

\* A sequence over a set has its elements.
LEMMA SeqElements ==
  ASSUME NEW S, NEW q \in Seq(S)
  PROVE  Len(q) \in Nat /\ \A i \in 1 .. Len(q) : q[i] \in S
  OBVIOUS

\* The packets in the queue, and those written, are packets.
LEMMA Packets ==
  ASSUME TypeOK
  PROVE  /\ Len(write_queue_) \in Nat /\ Len(outbound) \in Nat
         /\ \A i \in 1 .. Len(write_queue_) :
              write_queue_[i] \in Packet /\ write_queue_[i].id \in Nat
         /\ \A i \in 1 .. Len(outbound) :
              outbound[i].packet \in Packet /\ outbound[i].packet.id \in Nat
         /\ sends \in Nat
  <1>1. write_queue_ \in Seq(Packet) /\ outbound \in Seq([packet : Packet, via : 0 .. MaxConnects])
    BY DEF TypeOK
  <1>2. \A p \in Packet : p.id \in Nat
    BY DEF Packet
  <1>3. /\ Len(write_queue_) \in Nat
        /\ \A i \in 1 .. Len(write_queue_) : write_queue_[i] \in Packet
    BY <1>1
  <1>4. /\ Len(outbound) \in Nat
        /\ \A i \in 1 .. Len(outbound) :
             outbound[i] \in [packet : Packet, via : 0 .. MaxConnects]
    BY <1>1, SeqElements
  <1>5. \A i \in 1 .. Len(outbound) : outbound[i].packet \in Packet
    BY <1>4
  <1>6. sends \in Nat
    BY BoundsAssumption DEF TypeOK
  <1> QED
    BY <1>2, <1>3, <1>4, <1>5, <1>6

\* async_send() gives a frame the number of its call and queues it last.
LEMMA AsyncSendTurn ==
  ASSUME TypeOK, TurnInv, AsyncSend
  PROVE  TurnInv'
  <1>1. /\ UNCHANGED <<outbound, succeeded>> /\ sends' = sends + 1
        /\ write_queue_' = Append(write_queue_, [conn |-> connects, id |-> sends + 1])
    BY DEF AsyncSend, hist, asio, do_write
  <1>2. /\ write_queue_ \in Seq(Packet)
        /\ [conn |-> connects, id |-> sends + 1] \in Packet
    BY BoundsAssumption DEF TypeOK, AsyncSend, Packet
  <1>3. /\ Len(write_queue_') = Len(write_queue_) + 1
        /\ write_queue_'[Len(write_queue_) + 1].id = sends + 1
        /\ \A i \in 1 .. Len(write_queue_) : write_queue_'[i] = write_queue_[i]
    BY <1>1, <1>2
  <1>4. Popped' = Popped /\ Popped \in Int
    BY <1>1, Packets, CountNat DEF Popped, Counts
  <1>5. sends' = Popped' + Len(write_queue_')
    BY <1>1, <1>3, <1>4, Packets DEF TurnInv
  <1>6. ASSUME NEW i \in 1 .. Len(write_queue_')
        PROVE  write_queue_'[i].id = Popped' + i
    <2>1. i \in 1 .. Len(write_queue_) \/ i = Len(write_queue_) + 1
      BY <1>3, Packets
    <2>2. CASE i \in 1 .. Len(write_queue_)
      BY <1>3, <1>4, <2>2 DEF TurnInv
    <2>3. CASE i = Len(write_queue_) + 1
      <3>1. write_queue_'[i].id = Popped + Len(write_queue_) + 1
        BY <1>3, <2>3 DEF TurnInv
      <3>2. Len(write_queue_) \in Nat
        BY Packets
      <3> QED
        BY ONLY <1>4, <2>3, <3>1, <3>2
    <2> QED
      BY <2>1, <2>2, <2>3
  <1> QED
    BY <1>1, <1>5, <1>6 DEF TurnInv, WrittenInTurn

\* The write handler pops one frame, the one it was started for, whatever
\* connection it runs on.
LEMMA WriteHandlerTurn ==
  ASSUME TypeOK, OneWriter, TurnInv, WriteHandlerOk
  PROVE  TurnInv'
  <1>1. /\ UNCHANGED <<outbound, sends>>
        /\ write_queue_' = Tail(write_queue_)
        /\ succeeded["write"] > 0
        /\ succeeded' = Dec(succeeded, "write")
    BY DEF WriteHandlerOk, hist, do_write
  <1>2. write_queue_ # << >>
    BY <1>1, WriteHasFrame
  <1>3. /\ Len(write_queue_') = Len(write_queue_) - 1
        /\ \A i \in 1 .. Len(write_queue_') :
             write_queue_'[i] = write_queue_[i + 1] /\ i + 1 \in 1 .. Len(write_queue_)
    BY <1>1, <1>2 DEF TypeOK
  <1>4. succeeded'["write"] = succeeded["write"] - 1 /\ succeeded["write"] \in Nat
    BY <1>1, DecEffects, Kinds, CountNat DEF Differs, Counts
  <1>5. Popped' = Popped + 1 /\ Popped \in Int
    BY <1>1, <1>4, Packets DEF Popped
  <1>6. sends' = Popped' + Len(write_queue_')
    <2>1. sends' = Popped + Len(write_queue_) /\ Len(write_queue_) \in Nat
      BY <1>1, Packets DEF TurnInv
    <2>2. Len(write_queue_') = Len(write_queue_) - 1
      BY <1>3
    <2> QED
      BY ONLY <1>5, <2>1, <2>2
  <1>7. ASSUME NEW i \in 1 .. Len(write_queue_')
        PROVE  write_queue_'[i].id = Popped' + i
    <2>1. write_queue_[i + 1].id = Popped + (i + 1)
      BY <1>3 DEF TurnInv
    <2> QED
      BY <1>3, <1>5, <2>1
  <1> QED
    BY <1>1, <1>6, <1>7 DEF TurnInv, WrittenInTurn

\* No handler of an earlier write is queued when a write completes, so the front
\* of the queue is the frame after those written.
LEMMA WriteCompletesTurn ==
  ASSUME TypeOK, OneWriter, TurnInv, WriteCompletes
  PROVE  TurnInv'
  <1>0. succeeded \in [OpKind -> Nat] /\ Counts(waiting) /\ Counts(succeeded) /\ Counts(failed)
    BY CountNat
  <1>1. /\ UNCHANGED <<write_queue_, sends>>
        /\ succeeded'["write"] = succeeded["write"] + 1
        /\ outbound' = Append(outbound, [packet |-> Head(write_queue_), via |-> connects])
        /\ waiting["write"] > 0
    BY <1>0, IncEffects, Kinds DEF WriteCompletes, client, Differs
  <1>2. write_queue_ # << >> /\ Outstanding("write") = 1
    BY <1>1, WriteHasFrame
  <1>3. succeeded["write"] = 0
    BY <1>0, <1>1, <1>2 DEF Counts, Outstanding
  <1>4. Head(write_queue_) = write_queue_[1] /\ 1 \in 1 .. Len(write_queue_)
    BY <1>2 DEF TypeOK
  <1>5. [packet |-> Head(write_queue_), via |-> connects] \in [packet : Packet, via : 0 .. MaxConnects]
    BY <1>4, Packets DEF TypeOK
  <1>6. /\ Len(outbound) \in Nat /\ Len(outbound') = Len(outbound) + 1
        /\ outbound'[Len(outbound) + 1].packet = write_queue_[1]
        /\ \A n \in 1 .. Len(outbound) : outbound'[n] = outbound[n]
    <2>1. outbound \in Seq([packet : Packet, via : 0 .. MaxConnects])
      BY DEF TypeOK
    <2> QED
      BY <1>1, <1>4, <1>5, <2>1
  <1>7. Popped' = Popped /\ Popped = Len(outbound)
    BY <1>0, <1>1, <1>3, <1>6 DEF Popped, Counts
  <1>8. write_queue_[1].id = Len(outbound) + 1
    BY <1>4, <1>7 DEF TurnInv
  <1>9. ASSUME NEW n \in 1 .. Len(outbound')
        PROVE  outbound'[n].packet.id = n
    <2>1. n \in 1 .. Len(outbound) \/ n = Len(outbound) + 1
      BY <1>6
    <2> QED
      BY <1>6, <1>8, <2>1 DEF TurnInv, WrittenInTurn
  <1> QED
    BY <1>1, <1>7, <1>9 DEF TurnInv, WrittenInTurn

\* Every step keeps the numbers in step, in any application.
LEMMA TurnStep ==
  ASSUME TypeOK, OneWriter, TurnInv, [Next]_vars
  PROVE  TurnInv'
  <1>1. CASE AsyncSend
    BY <1>1, AsyncSendTurn
  <1>2. CASE WriteHandlerOk
    BY <1>2, WriteHandlerTurn
  <1>3. CASE WriteCompletes
    BY <1>3, WriteCompletesTurn
  <1>4. CASE ~AsyncSend /\ ~WriteHandlerOk /\ ~WriteCompletes
    BY <1>4, WriteAside DEF TurnInv, Popped, WrittenInTurn
  <1> QED
    BY <1>1, <1>2, <1>3, <1>4

\* Nothing has been queued or written at first.
LEMMA TurnInit == Init => TurnInv
  BY Kinds DEF Init, TurnInv, Popped, WrittenInTurn, NoOps

\* async_send / do_write: the n-th frame written is that of the n-th call, in
\* every application. A write handler left over from an earlier connection pops
\* its own frame and goes on with the next one.
THEOREM TurnCorrect == Spec => []WrittenInTurn
  <1>1. TypeOK /\ OneWriter /\ TurnInv /\ [Next]_vars => TurnInv'
    BY TurnStep
  <1>2. TurnInv => WrittenInTurn
    BY DEF TurnInv
  <1> QED
    BY <1>1, <1>2, TurnInit, TypeCorrect, WriterCorrect, PTL DEF Spec

\* async_send() queues a frame behind those of earlier calls.
LEMMA AsyncSendWrite ==
  ASSUME TypeOK, TypeOK', WriteInv, AsyncSend
  PROVE  WriteInv'
  <1>1. /\ UNCHANGED <<outbound, connects, wfailed, succeeded>> /\ sends' = sends + 1
        /\ write_queue_' = Append(write_queue_, [conn |-> connects, id |-> sends + 1])
    BY DEF AsyncSend, hist, asio, do_write
  <1>2. /\ write_queue_ \in Seq(Packet)
        /\ [conn |-> connects, id |-> sends + 1] \in Packet
    BY BoundsAssumption DEF TypeOK, AsyncSend, Packet
  <1>3. /\ Len(write_queue_') = Len(write_queue_) + 1
        /\ write_queue_'[Len(write_queue_) + 1] = [conn |-> connects, id |-> sends + 1]
        /\ \A i \in 1 .. Len(write_queue_) : write_queue_'[i] = write_queue_[i]
    BY <1>1, <1>2
  <1>4. \A i \in 1 .. Len(write_queue_') :
          i \in 1 .. Len(write_queue_) \/ i = Len(write_queue_) + 1
    BY <1>3, Packets
  <1>5. QueueInv'
    <2>1. ASSUME NEW i \in 1 .. Len(write_queue_'), NEW j \in 1 .. Len(write_queue_'), i < j
          PROVE  write_queue_'[i].id < write_queue_'[j].id
      <3>1. i \in 1 .. Len(write_queue_)
        BY <1>3, <1>4, <2>1, Packets
      <3> QED
        BY <1>3, <1>4, <2>1, <3>1, Packets DEF WriteInv, QueueInv
    <2>2. ASSUME NEW i \in 1 .. Len(write_queue_')
          PROVE  /\ write_queue_'[i].id <= sends'
                 /\ ~wfailed' => write_queue_'[i].conn = connects'
      BY <1>1, <1>3, <1>4, Packets DEF WriteInv, QueueInv
    <2> QED
      BY <2>1, <2>2 DEF QueueInv
  <1>6. OutboundInv'
    <2>1. WrittenToOwnConnection'
      BY <1>1 DEF WriteInv, OutboundInv, WrittenToOwnConnection
    <2>2. ASSUME outbound # << >>
          PROVE  LET last == outbound[Len(outbound)].packet
                 IN  /\ last.id <= sends'
                     /\ \A i \in 1 .. Len(write_queue_') :
                          last.id < write_queue_'[i].id \/ (i = 1 /\ succeeded["write"] > 0)
      <3> DEFINE last == outbound[Len(outbound)].packet
      <3>1. last.id \in Nat /\ last.id <= sends
        <4>1. Len(outbound) \in 1 .. Len(outbound)
          BY <2>2 DEF TypeOK
        <4> QED
          BY <4>1, <2>2, Packets DEF WriteInv, OutboundInv
      <3>2. last.id <= sends' /\ last.id < sends + 1
        BY <1>1, <3>1, Packets
      <3> QED
        BY <1>3, <1>4, <2>2, <3>2 DEF WriteInv, OutboundInv
    <2> QED
      BY <1>1, <2>1, <2>2 DEF OutboundInv
  <1> QED
    BY <1>5, <1>6 DEF WriteInv

\* The write handler pops the frame that has been written.
LEMMA WriteHandlerWrite ==
  ASSUME TypeOK, OneWriter, WriteInv, WriteHandlerOk
  PROVE  WriteInv'
  <1>1. /\ UNCHANGED <<outbound, connects, wfailed, sends>>
        /\ write_queue_' = Tail(write_queue_)
        /\ succeeded["write"] > 0
    BY DEF WriteHandlerOk, hist
  <1>2. write_queue_ # << >> /\ ~wfailed
    BY <1>1, WriteHasFrame
  <1>3. /\ Len(write_queue_') = Len(write_queue_) - 1
        /\ \A i \in 1 .. Len(write_queue_') :
             /\ write_queue_'[i] = write_queue_[i + 1]
             /\ i + 1 \in 1 .. Len(write_queue_)
             /\ i + 1 # 1
    BY <1>1, <1>2 DEF TypeOK
  <1>4. QueueInv'
    <2>1. ASSUME NEW i \in 1 .. Len(write_queue_'), NEW j \in 1 .. Len(write_queue_'), i < j
          PROVE  write_queue_'[i].id < write_queue_'[j].id
      <3>1. i + 1 < j + 1
        BY <2>1
      <3> QED
        BY <1>3, <2>1, <3>1 DEF WriteInv, QueueInv
    <2> QED
      BY <1>1, <1>3, <2>1 DEF WriteInv, QueueInv
  <1>5. OutboundInv'
    BY <1>1, <1>3 DEF WriteInv, OutboundInv, WrittenToOwnConnection
  <1> QED
    BY <1>4, <1>5 DEF WriteInv

\* A write that completes wrote the front of the queue, which is younger than
\* what was written before and meant for the present connection.
LEMMA WriteCompletesWrite ==
  ASSUME TypeOK, OneWriter, WriteInv, WriteCompletes
  PROVE  WriteInv'
  <1>0. succeeded \in [OpKind -> Nat] /\ Counts(waiting) /\ Counts(succeeded) /\ Counts(failed)
    BY CountNat
  <1>1. /\ UNCHANGED <<write_queue_, connects, wfailed, sends>>
        /\ Differs(succeeded', succeeded, "write", 1)
        /\ outbound' = Append(outbound, [packet |-> Head(write_queue_), via |-> connects])
        /\ waiting["write"] > 0
    BY <1>0, IncEffects, Kinds DEF WriteCompletes, client
  <1>2. write_queue_ # << >> /\ ~wfailed /\ Outstanding("write") = 1
    BY <1>1, WriteHasFrame
  <1>3. succeeded["write"] = 0 /\ succeeded'["write"] > 0
    <2>1. succeeded["write"] = 0
      BY <1>0, <1>1, <1>2 DEF Counts, Outstanding
    <2> QED
      BY <1>1, <2>1 DEF Differs
  <1>4. /\ Len(write_queue_) \in Nat \ {0} /\ Head(write_queue_) = write_queue_[1]
        /\ 1 \in 1 .. Len(write_queue_)
    BY <1>2 DEF TypeOK
  <1>5. [packet |-> Head(write_queue_), via |-> connects] \in [packet : Packet, via : 0 .. MaxConnects]
    BY <1>4, Packets DEF TypeOK
  <1>6. /\ Len(outbound) \in Nat /\ Len(outbound') = Len(outbound) + 1
        /\ outbound'[Len(outbound) + 1] = [packet |-> write_queue_[1], via |-> connects]
        /\ \A i \in 1 .. Len(outbound) : outbound'[i] = outbound[i]
        /\ outbound # << >> <=> Len(outbound) # 0
    <2>1. outbound \in Seq([packet : Packet, via : 0 .. MaxConnects])
      BY DEF TypeOK
    <2> QED
      BY <1>1, <1>4, <1>5, <2>1
  <1>7. QueueInv'
    BY <1>1 DEF WriteInv, QueueInv
  <1>8. write_queue_[1].conn = connects /\ write_queue_[1].id <= sends
    BY <1>2, <1>4 DEF WriteInv, QueueInv
  <1>9. WrittenToOwnConnection'
    <2> SUFFICES ASSUME NEW i \in 1 .. Len(outbound')
                 PROVE  /\ outbound'[i].packet.conn = outbound'[i].via
                        /\ i > 1 => outbound'[i - 1].packet.id < outbound'[i].packet.id
      BY DEF WrittenToOwnConnection
    <2>1. CASE i \in 1 .. Len(outbound)
      <3>1. i > 1 => i - 1 \in 1 .. Len(outbound)
        BY <1>6, <2>1
      <3> QED
        BY <1>6, <2>1, <3>1 DEF WriteInv, OutboundInv, WrittenToOwnConnection
    <2>2. CASE i = Len(outbound) + 1
      <3>1. outbound'[i].packet = write_queue_[1] /\ outbound'[i].via = connects
        BY <1>6, <2>2
      <3>2. ASSUME i > 1
            PROVE  outbound'[i - 1].packet.id < write_queue_[1].id
        <4>1. outbound # << >> /\ outbound'[i - 1] = outbound[Len(outbound)]
          BY <1>6, <2>2, <3>2
        <4> QED
          BY <1>3, <1>4, <4>1 DEF WriteInv, OutboundInv
      <3> QED
        BY <1>8, <3>1, <3>2
    <2> QED
      BY <1>6, <2>1, <2>2
  <1>10. outbound'[Len(outbound')].packet = write_queue_[1]
    BY <1>6
  <1>11. ASSUME NEW i \in 1 .. Len(write_queue_)
         PROVE  write_queue_[1].id < write_queue_[i].id \/ i = 1
    BY <1>4, <1>11 DEF WriteInv, QueueInv
  <1> QED
    BY <1>1, <1>3, <1>7, <1>8, <1>9, <1>10, <1>11 DEF WriteInv, OutboundInv

\* A new connection finds the queue empty, or blocked for good by a failed write.
LEMMA NetworkConnectWrite ==
  ASSUME TypeOK, OneWriter, WriteInv, NetworkConnect, ~EagerReconnect
  PROVE  WriteInv'
  <1>1. UNCHANGED <<write_queue_, outbound, sends, wfailed, succeeded>>
    BY DEF NetworkConnect, asio
  <1>2. Outstanding("write") = 0
    BY Kinds DEF NetworkConnect, Drained
  <1>3. wfailed \/ Len(write_queue_) = 0
    BY <1>2 DEF OneWriter, TypeOK
  <1>4. \A i \in 1 .. Len(write_queue_) : wfailed
    BY <1>3
  <1> QED
    BY <1>1, <1>4 DEF WriteInv, QueueInv, OutboundInv, WrittenToOwnConnection

\* Every step keeps the queue and what was written in order.
LEMMA SendStep ==
  ASSUME TypeOK, TypeOK', OneWriter, WriteInv, ~EagerReconnect, [Next]_vars
  PROVE  WriteInv'
  <1>1. CASE AsyncSend
    BY <1>1, AsyncSendWrite
  <1>2. CASE WriteHandlerOk
    BY <1>2, WriteHandlerWrite
  <1>3. CASE WriteCompletes
    BY <1>3, WriteCompletesWrite
  <1>4. CASE NetworkConnect
    BY <1>4, NetworkConnectWrite
  <1>5. CASE ~AsyncSend /\ ~WriteHandlerOk /\ ~WriteCompletes /\ ~NetworkConnect
    BY <1>5, WriteAside, AsideKeepsWriteInv
  <1> QED
    BY <1>1, <1>2, <1>3, <1>4, <1>5

\* Nothing has been queued or written at first.
LEMMA WriteInit == Init => WriteInv
  BY DEF Init, WriteInv, QueueInv, OutboundInv, WrittenToOwnConnection

\* async_send: the queue and the frames written are in the order of the calls,
\* and until the first failed write the whole queue is of the present
\* connection.
THEOREM WriteInvCorrect ==
  ASSUME ~EagerReconnect
  PROVE  Spec => []WriteInv
  <1>1. TypeOK /\ TypeOK' /\ OneWriter /\ WriteInv /\ [Next]_vars => WriteInv'
    BY SendStep
  <1> QED
    BY <1>1, WriteInit, TypeCorrect, WriterCorrect, PTL DEF Spec

\* async_send: a frame is written at most once, in the order of the calls, and
\* only to the connection it was queued for.
THEOREM WrittenCorrect ==
  ASSUME ~EagerReconnect
  PROVE  Spec => []WrittenToOwnConnection
  <1>1. WriteInv => WrittenToOwnConnection
    BY DEF WriteInv, OutboundInv
  <1> QED
    BY <1>1, WriteInvCorrect, PTL

-----------------------------------------------------------------------------
(* FrameLink: the frames that arrive and leave.                            *)

\* A sequence and its head.
LEMMA HeadFacts ==
  ASSUME NEW S, NEW q \in Seq(S), NEW x \in S
  PROVE  /\ << >> \o q = q
         /\ <<x>> \o << >> = <<x>>
         /\ <<x>> \o q # << >>
         /\ Head(<<x>> \o q) = x
         /\ Tail(<<x>> \o q) = q
         /\ q # << >> => <<Head(q)>> \o Tail(q) = q
  OBVIOUS

\* Appending to a sequence and taking its front away.
LEMMA AppendFacts ==
  ASSUME NEW S, NEW q \in Seq(S), NEW x \in S, NEW y \in S
  PROVE  /\ <<x>> \o Append(q, y) = Append(<<x>> \o q, y)
         /\ q # << >> => Tail(Append(q, y)) = Append(Tail(q), y)
  OBVIOUS

\* Arriving and Leaving, with and without the operation that has completed.
LEMMA ArrivingFacts ==
  ASSUME TypeOK
  PROVE  /\ inbound \in Seq(Frame) /\ body_buffer_ \in Frame
         /\ succeeded["body"] = 0 => Arriving = inbound
         /\ succeeded["body"] > 0 => Arriving = <<body_buffer_>> \o inbound
  <1>1. inbound \in Seq(Frame) /\ body_buffer_ \in Frame
    BY DEF TypeOK
  <1> QED
    BY <1>1, HeadFacts DEF Arriving

-----------------------------------------------------------------------------
(* The steps that are not visible, and those that end a connection.        *)

\* A step that leaves the frames, the state and the carrier alone.
LEMMA AsideLink ==
  ASSUME UNCHANGED <<state_, connects, delivered, outbound, write_queue_, inbound, body_buffer_>>,
         Carrying' = Carrying,
         succeeded'["body"] = succeeded["body"], succeeded'["write"] = succeeded["write"]
  PROVE  UNCHANGED Link!link
  <1>1. Arriving' = Arriving /\ Leaving' = Leaving
    BY DEF Arriving, Leaving
  <1> QED
    BY <1>1 DEF Link!link, Carrying

\* A close leaves at most the frame whose body handler is queued.
LEMMA CloseLink ==
  ASSUME TypeOK, ~Carrying', inbound' = << >>, state_' \in {state_, "DISCONNECTED"},
         UNCHANGED <<connects, delivered, outbound, write_queue_, body_buffer_>>,
         succeeded'["body"] = succeeded["body"], succeeded'["write"] = succeeded["write"]
  PROVE  Link!Close
  <1>1. succeeded["body"] \in Nat
    BY Kinds DEF TypeOK
  <1>2. Leaving' = Leaving
    BY DEF Leaving
  <1>3. CASE succeeded["body"] = 0
    <2>1. Arriving' = << >>
      BY <1>3, HeadFacts DEF Arriving
    <2> QED
      BY <1>2, <2>1 DEF Link!Close, Carrying
  <1>4. CASE succeeded["body"] > 0
    <2>1. Arriving' = <<body_buffer_>>
      BY <1>4, ArrivingFacts, HeadFacts DEF Arriving
    <2>2. Arriving # << >> /\ Head(Arriving) = body_buffer_
      BY <1>4, ArrivingFacts, HeadFacts
    <2> QED
      BY <1>2, <2>1, <2>2 DEF Link!Close, Carrying
  <1> QED
    BY <1>1, <1>3, <1>4

\* network_close() in a handler.
LEMMA NetworkCloseLink ==
  ASSUME TypeOK, SocketInv, ReadInv,
         UNCHANGED <<connects, delivered, outbound, write_queue_, body_buffer_>>,
         NEW s \in [OpKind -> Nat], NEW f \in [OpKind -> Nat], network_close(s, f),
         s["body"] = succeeded["body"], s["write"] = succeeded["write"]
  PROVE  Link!Close
  <1>1. state_' = "DISCONNECTED"
    BY NetworkCloseEffects
  <1>2. CASE state_ = "DISCONNECTED"
    <2>1. UNCHANGED <<socket_, inbound>> /\ succeeded' = s
      BY <1>2, NetworkCloseEffects
    <2>2. ~Carrying /\ inbound = << >>
      BY <1>2 DEF SocketInv, ReadInv, Carrying
    <2> QED
      BY <1>1, <2>1, <2>2, CloseLink DEF Carrying
  <1>3. CASE state_ # "DISCONNECTED"
    <2>1. Closed(s, f)
      BY <1>3, NetworkCloseEffects
    <2> QED
      BY <1>1, <2>1, CloseLink DEF Closed, Carrying
  <1> QED
    BY <1>2, <1>3

-----------------------------------------------------------------------------
(* One lemma for each action of the link.                                  *)

\* network_connect() opens the link: nothing of the last connection is on its way.
LEMMA NetworkConnectOpens ==
  ASSUME TypeOK, SocketInv, ReadInv, NetworkConnect, ~EagerReconnect
  PROVE  Link!Open
  <1>1. /\ state_ = "DISCONNECTED" /\ state_' = "CONNECTING" /\ connects' = connects + 1
        /\ UNCHANGED <<socket_, delivered, outbound, write_queue_, inbound, body_buffer_, succeeded>>
    BY DEF NetworkConnect, asio
  <1>2. ~Carrying /\ inbound = << >>
    BY <1>1 DEF SocketInv, ReadInv, Carrying
  <1>3. succeeded["body"] = 0
    BY DrainedOps, Kinds DEF NetworkConnect, NoOp
  <1>4. Arriving = << >>
    BY <1>2, <1>3, ArrivingFacts
  <1>5. Arriving' = Arriving /\ Leaving' = Leaving
    BY <1>1 DEF Arriving, Leaving
  <1> QED
    BY <1>1, <1>2, <1>4, <1>5 DEF Link!Open, Carrying

\* The server has accepted, with nothing on its way.
LEMMA ConnectSucceedsAccepts ==
  ASSUME TypeOK, Exclusive, SocketInv, ReadInv, ConnectSucceeds
  PROVE  Link!Accept
  <1>1. /\ socket_ = "connecting" /\ socket_' = "connected" /\ waiting["connect"] > 0
        /\ UNCHANGED <<state_, connects, delivered, outbound, write_queue_, inbound, body_buffer_>>
        /\ Differs(succeeded', succeeded, "connect", 1)
    BY CountNat, IncEffects, Kinds DEF ConnectSucceeds, client, hist
  <1>2. state_ = "CONNECTING"
    BY <1>1 DEF SocketInv, NoOp, TypeOK
  <1>3. ~Carrying /\ inbound = << >> /\ Carrying'
    BY <1>1 DEF ReadInv, Carrying
  <1>4. succeeded["body"] = 0
    BY <1>1 DEF Exclusive, NoOp, OneOp
  <1>5. Arriving = << >>
    BY <1>3, <1>4, ArrivingFacts
  <1>6. Arriving' = Arriving /\ Leaving' = Leaving
    BY <1>1 DEF Arriving, Leaving, Differs
  <1> QED
    BY <1>1, <1>2, <1>3, <1>5, <1>6 DEF Link!Accept, Carrying

\* The connect handler: the client knows.
LEMMA ConnectHandlerEstablishes ==
  ASSUME TypeOK, SocketInv, ConnectHandlerOk
  PROVE  Link!Established
  <1>1. /\ succeeded["connect"] > 0 /\ state_' = "CONNECTED"
        /\ UNCHANGED <<socket_, connects, delivered, outbound, write_queue_, inbound, body_buffer_>>
        /\ Differs(succeeded', succeeded, "connect", -1)
    BY CountNat, DecEffects, Kinds DEF ConnectHandlerOk, start_read_header, hist
  <1>2. state_ = "CONNECTING"
    BY <1>1 DEF SocketInv
  <1>3. Arriving' = Arriving /\ Leaving' = Leaving
    BY <1>1 DEF Arriving, Leaving, Differs
  <1> QED
    BY <1>1, <1>2, <1>3 DEF Link!Established

\* A frame of the server queues up behind the one whose handler is to run.
LEMMA PeerSendsArrives ==
  ASSUME TypeOK, PeerSends
  PROVE  Link!Arrive
  <1>1. PICK n \in {0, peerSent + 1} : inbound' = Append(inbound, [conn |-> connects, n |-> n])
    BY DEF PeerSends
  <1> DEFINE frame == [conn |-> connects, n |-> n]
  <1>2. /\ Carrying /\ Carrying'
        /\ UNCHANGED <<state_, connects, delivered, outbound, write_queue_, succeeded, body_buffer_>>
    BY DEF PeerSends, client, hist, Carrying
  <1>3. n \in 0 .. MaxPeerFrames /\ frame \in Frame
    BY BoundsAssumption DEF PeerSends, TypeOK, Frame
  <1>4. Leaving' = Leaving
    BY <1>2 DEF Leaving
  <1>5. succeeded["body"] \in Nat
    BY Kinds DEF TypeOK
  <1>6. Arriving' = Append(Arriving, frame)
    <2>1. CASE succeeded["body"] = 0
      <3>1. Arriving = inbound
        BY <2>1, ArrivingFacts
      <3>2. inbound' \in Seq(Frame)
        BY <1>1, <1>3, ArrivingFacts
      <3>3. Arriving' = << >> \o inbound'
        BY <1>2, <2>1 DEF Arriving
      <3> QED
        BY <1>1, <1>3, <3>1, <3>2, <3>3, HeadFacts
    <2>2. CASE succeeded["body"] > 0
      <3>1. Arriving = <<body_buffer_>> \o inbound
        BY <2>2, ArrivingFacts
      <3>2. Arriving' = <<body_buffer_>> \o inbound'
        BY <1>2, <2>2 DEF Arriving
      <3> QED
        BY <1>1, <1>3, <3>1, <3>2, ArrivingFacts, AppendFacts
    <2> QED
      BY <1>5, <2>1, <2>2
  <1> QED
    BY <1>2, <1>3, <1>4, <1>6 DEF Link!Arrive, Carrying

\* The body handler delivers the first frame on its way, of this connection.
LEMMA BodyHandlerDelivers ==
  ASSUME TypeOK, Exclusive, PrefixInv, BodyHandlerOk
  PROVE  Link!Deliver
  <1>1. /\ succeeded["body"] > 0
        /\ delivered' = Append(delivered, body_buffer_)
        /\ UNCHANGED <<state_, socket_, connects, outbound, write_queue_, inbound, body_buffer_>>
        /\ Differs(succeeded', succeeded, "body", -1)
    BY CountNat, DecEffects, Kinds DEF BodyHandlerOk, client
  <1>2. succeeded'["body"] = 0
    BY <1>1 DEF Exclusive, NoOp, OneOp, Differs
  <1>3. Arriving # << >> /\ Head(Arriving) = body_buffer_ /\ Tail(Arriving) = inbound
    BY <1>1, ArrivingFacts, HeadFacts
  <1>4. Arriving' = inbound
    <2>1. Arriving' = << >> \o inbound
      BY <1>1, <1>2 DEF Arriving
    <2> QED
      BY <2>1, ArrivingFacts, HeadFacts
  <1>5. body_buffer_.n > 0 /\ body_buffer_.conn = connects
    BY <1>1 DEF PrefixInv, Follows
  <1>6. Leaving' = Leaving
    BY <1>1 DEF Leaving, Differs
  <1> QED
    BY <1>1, <1>3, <1>4, <1>5, <1>6 DEF Link!Deliver

\* A body read takes its frame from the socket to body_buffer_.
LEMMA BodyArrivesAside ==
  ASSUME TypeOK, TypeOK', Exclusive, ReadInv, BodyArrives
  PROVE  UNCHANGED Link!link
  <1>1. /\ waiting["body"] > 0 /\ inbound # << >> /\ inbound' = Tail(inbound)
        /\ UNCHANGED <<state_, socket_, connects, delivered, outbound, write_queue_>>
        /\ Differs(succeeded', succeeded, "body", 1)
    BY CountNat, IncEffects, Kinds DEF BodyArrives, hist
  <1>2. waiting["body"] = 1 /\ succeeded["body"] = 0 /\ NoOp("header")
    BY <1>1 DEF Exclusive, NoOp, OneOp
  <1>3. align = "body" /\ Readers = 1
    BY <1>2 DEF ReadInv, NoOp, Readers
  <1>4. body_buffer_' = Head(inbound)
    BY <1>3 DEF BodyArrives
  <1>5. succeeded'["body"] > 0
    BY <1>1, <1>2 DEF Differs
  <1>6. Arriving = inbound
    BY <1>2, ArrivingFacts
  <1>7. Arriving' = <<Head(inbound)>> \o Tail(inbound)
    BY <1>1, <1>4, <1>5 DEF Arriving
  <1>8. Arriving' = Arriving
    BY <1>1, <1>6, <1>7, ArrivingFacts, HeadFacts
  <1>9. Leaving' = Leaving
    BY <1>1 DEF Leaving, Differs
  <1> QED
    BY <1>1, <1>8, <1>9 DEF Link!link

\* async_send() queues behind the frames that have not left.
LEMMA AsyncSendSends ==
  ASSUME TypeOK, OneWriter, AsyncSend
  PROVE  Link!Send
  <1> DEFINE frame == [conn |-> connects, id |-> sends + 1]
  <1>1. /\ write_queue_' = Append(write_queue_, frame)
        /\ UNCHANGED <<state_, socket_, connects, delivered, outbound, inbound, body_buffer_, succeeded>>
    BY DEF AsyncSend, do_write, asio, hist
  <1>2. sends + 1 \in 1 .. MaxSends
    BY BoundsAssumption DEF AsyncSend, TypeOK
  <1>3. write_queue_ \in Seq(Packet) /\ frame \in Packet
    BY <1>2 DEF TypeOK, Packet
  <1>4. succeeded["write"] > 0 => write_queue_ # << >>
    <2> SUFFICES ASSUME write_queue_ = << >> PROVE succeeded["write"] = 0
      BY CountNat DEF Counts
    <2>1. waiting["write"] + succeeded["write"] + failed["write"] = 0
      BY DEF OneWriter, Outstanding
    <2> QED
      BY <2>1, CountNat, ZeroSum DEF Counts
  <1>5. Leaving' = Append(Leaving, frame)
    BY <1>1, <1>3, <1>4, AppendFacts DEF Leaving
  <1>6. Arriving' = Arriving
    BY <1>1 DEF Arriving
  <1> QED
    BY <1>1, <1>2, <1>5, <1>6 DEF Link!Send

\* The writes: at most one, and of the front of the queue.
LEMMA WriteFacts ==
  ASSUME TypeOK, OneWriter
  PROVE  /\ NoOp("write") \/ OneOp("write")
         /\ ~NoOp("write") => write_queue_ # << >> /\ ~wfailed
  <1>1. waiting["write"] \in Nat /\ succeeded["write"] \in Nat /\ failed["write"] \in Nat
    BY CountNat DEF Counts
  <1>2. waiting["write"] + succeeded["write"] + failed["write"]
          = IF write_queue_ = << >> \/ wfailed THEN 0 ELSE 1
    BY DEF OneWriter, Outstanding
  <1>3. waiting["write"] + succeeded["write"] + failed["write"] <= 1
    BY <1>2
  <1>4. NoOp("write") \/ OneOp("write")
    BY <1>1, <1>3, ZeroOrOne DEF NoOp, OneOp
  <1>5. CASE write_queue_ = << >> \/ wfailed
    BY <1>1, <1>2, <1>5, ZeroSum DEF NoOp, OneOp
  <1>6. CASE ~(write_queue_ = << >> \/ wfailed)
    BY <1>4, <1>6
  <1> QED
    BY <1>5, <1>6, <1>4

\* A write that completes sends the first frame that has not left, on the
\* connection it is meant for.
LEMMA WriteCompletesTransmits ==
  ASSUME TypeOK, OneWriter, WriteInv, WriteCompletes
  PROVE  Link!Transmit
  <1>1. /\ waiting["write"] > 0 /\ Carrying
        /\ outbound' = Append(outbound, [packet |-> Head(write_queue_), via |-> connects])
        /\ UNCHANGED <<state_, socket_, connects, delivered, inbound, write_queue_, body_buffer_>>
        /\ Differs(succeeded', succeeded, "write", 1)
    BY CountNat, IncEffects, Kinds DEF WriteCompletes, client, Carrying
  <1>2. succeeded["write"] = 0 /\ write_queue_ # << >> /\ ~wfailed
    BY <1>1, WriteFacts DEF NoOp, OneOp
  <1>3. Head(write_queue_) = write_queue_[1] /\ 1 \in 1 .. Len(write_queue_)
    <2>1. write_queue_ \in Seq(Packet)
      BY DEF TypeOK
    <2> QED
      BY <1>2, <2>1
  <1>4. Head(write_queue_).conn = connects
    BY <1>2, <1>3 DEF WriteInv, QueueInv
  <1>5. Leaving = write_queue_ /\ Leaving' = Tail(write_queue_)
    BY <1>1, <1>2 DEF Leaving, Differs
  <1>6. Arriving' = Arriving
    BY <1>1 DEF Arriving, Differs
  <1> QED
    BY <1>1, <1>2, <1>4, <1>5, <1>6 DEF Link!Transmit, Carrying

\* The write handler pops the frame that has left already.
LEMMA WriteHandlerAside ==
  ASSUME TypeOK, OneWriter, WriteHandlerOk
  PROVE  UNCHANGED Link!link
  <1>1. /\ succeeded["write"] > 0 /\ write_queue_' = Tail(write_queue_)
        /\ UNCHANGED <<state_, socket_, connects, delivered, outbound, inbound, body_buffer_>>
        /\ Differs(succeeded', succeeded, "write", -1)
    BY CountNat, DecEffects, Kinds DEF WriteHandlerOk, do_write, hist
  <1>2. succeeded'["write"] = 0
    BY <1>1, WriteFacts DEF NoOp, OneOp, Differs
  <1>3. Leaving' = Leaving
    BY <1>1, <1>2 DEF Leaving
  <1>4. Arriving' = Arriving
    BY <1>1 DEF Arriving, Differs
  <1> QED
    BY <1>1, <1>3, <1>4 DEF Link!link

-----------------------------------------------------------------------------
(* The refinement.                                                         *)

\* A connection that has not been used is a link that has not been opened.
LEMMA LinkInit == Init => Link!Init
  <1> SUFFICES ASSUME Init PROVE Link!Init
    OBVIOUS
  <1>1. succeeded["body"] = 0 /\ succeeded["write"] = 0
    BY Kinds DEF Init, NoOps
  <1>2. Arriving = << >> /\ Leaving = << >>
    BY <1>1 DEF Init, Arriving, Leaving
  <1> QED
    BY <1>2 DEF Init, Link!Init

\* Every step of the connection is a step of the link, or invisible.
LEMMA LinkStep ==
  ASSUME TypeOK, TypeOK', SingleReadChain, OneWriter, SocketInv, ReadInv, PrefixInv, WriteInv,
         ~EagerReconnect, [Next]_vars
  PROVE  [Link!Next]_(Link!link)
  <1>a. Exclusive
    BY ChainExclusive
  <1>b. /\ waiting \in [OpKind -> Nat]
        /\ succeeded \in [OpKind -> Nat]
        /\ failed \in [OpKind -> Nat]
    BY CountNat
  <1> USE DEF Link!Next
  <1>1. CASE NetworkConnect
    BY <1>1, NetworkConnectOpens
  <1>2. CASE FetchServers \/ ResolveThrows \/ Shutdown
    <2>1. UNCHANGED <<state_, connects, delivered, outbound, write_queue_, inbound, body_buffer_,
                      socket_, succeeded>>
      BY <1>2 DEF FetchServers, ResolveThrows, Shutdown, client, asio, hist
    <2> QED
      BY <2>1, AsideLink DEF Carrying
  <1>3. CASE AsyncConnect
    <2>1. /\ UNCHANGED <<state_, connects, delivered, outbound, write_queue_, body_buffer_>>
          /\ inbound' = << >> /\ ~Carrying'
      BY <1>3 DEF AsyncConnect, client, hist, Carrying
    <2>2. ~Carrying /\ inbound = << >>
      BY <1>3 DEF AsyncConnect, SocketInv, ReadInv, InCall, Carrying
    <2>3. succeeded'["body"] = succeeded["body"] /\ succeeded'["write"] = succeeded["write"]
      BY <1>3, AsyncConnectEffects
    <2>4. Carrying' = Carrying
      BY <2>1, <2>2 DEF Carrying
    <2> QED
      BY <2>1, <2>2, <2>3, <2>4, AsideLink
  <1>4. CASE CloseSocket
    <2>1. UNCHANGED <<state_, connects, delivered, outbound, write_queue_, body_buffer_>>
      BY <1>4 DEF CloseSocket, client, hist
    <2>2. CASE state_ = "DISCONNECTED"
      <3>1. UNCHANGED <<socket_, inbound, succeeded>>
        BY <1>4, <2>2 DEF CloseSocket, asio
      <3> QED
        BY <2>1, <3>1, AsideLink DEF Carrying
    <2>3. CASE state_ # "DISCONNECTED"
      <3>1. Closed(succeeded, failed)
        BY <1>b, <1>4, <2>3, CloseEffects DEF CloseSocket
      <3> QED
        BY <2>1, <3>1, CloseLink DEF Closed, Carrying
    <2> QED
      BY <2>2, <2>3
  <1>5. CASE StoreDisconnected
    <2>1. /\ UNCHANGED <<connects, delivered, outbound, write_queue_, inbound, body_buffer_,
                         socket_, succeeded>>
          /\ state_' = "DISCONNECTED" /\ socket_ = "closed"
      BY <1>5 DEF StoreDisconnected, asio, hist, SocketInv
    <2>2. inbound = << >> /\ ~Carrying'
      BY <2>1 DEF ReadInv, Carrying
    <2> QED
      BY <2>1, <2>2, CloseLink
  <1>6. CASE AsyncSend
    BY <1>6, AsyncSendSends
  <1>7. CASE ConnectHandlerOk
    BY <1>7, ConnectHandlerEstablishes
  <1>8. CASE ConnectHandlerError
    <2>1. /\ UNCHANGED <<connects, delivered, outbound, write_queue_, inbound, body_buffer_,
                         socket_, succeeded>>
          /\ state_' = "DISCONNECTED" /\ socket_ = "closed"
      BY <1>8 DEF ConnectHandlerError, hist, SocketInv
    <2>2. inbound = << >> /\ ~Carrying'
      BY <2>1 DEF ReadInv, Carrying
    <2> QED
      BY <2>1, <2>2, CloseLink
  <1>9. CASE HeaderHandlerOk
    <2>1. /\ Dec(succeeded, "header") \in [OpKind -> Nat]
          /\ Differs(Dec(succeeded, "header"), succeeded, "header", -1)
          /\ UNCHANGED <<connects, delivered, outbound, write_queue_, body_buffer_>>
      BY <1>b, <1>9, DecEffects, Kinds DEF HeaderHandlerOk, hist
    <2>2. CASE header_buffer_ = "valid"
      <3>1. succeeded' = Dec(succeeded, "header") /\ UNCHANGED <<state_, socket_, inbound>>
        BY <1>9, <2>2 DEF HeaderHandlerOk, start_read_body
      <3> QED
        BY <2>1, <3>1, AsideLink DEF Differs, Carrying
    <2>3. CASE header_buffer_ # "valid"
      <3>1. network_close(Dec(succeeded, "header"), failed)
        BY <1>9, <2>3 DEF HeaderHandlerOk, handle_disconnect
      <3> QED
        BY <1>b, <2>1, <3>1, NetworkCloseLink DEF Differs
    <2> QED
      BY <2>2, <2>3
  <1>10. CASE BodyHandlerOk
    BY <1>a, <1>10, BodyHandlerDelivers
  <1>11. CASE FrameReturn \/ FrameThrows
    BY <1>11, AsideLink DEF FrameReturn, FrameThrows, start_read_header, client, asio, hist, Carrying
  <1>12. CASE CallbackDisconnect
    BY <1>b, <1>12, NetworkCloseLink DEF CallbackDisconnect, hist
  <1>13. ASSUME NEW k \in {"header", "body", "write"}, failed[k] > 0,
                network_close(succeeded, Dec(failed, k)),
                UNCHANGED <<connects, delivered, outbound, write_queue_, body_buffer_>>
         PROVE  Link!Close
    <2>1. Dec(failed, k) \in [OpKind -> Nat]
      BY <1>b, <1>13, DecEffects, Kinds
    <2> QED
      BY <1>b, <1>13, <2>1, NetworkCloseLink
  <1>14. CASE \E k \in {"header", "body"} : ReadHandlerError(k)
    BY <1>13, <1>14 DEF ReadHandlerError, handle_disconnect, hist
  <1>15. CASE WriteHandlerOk
    BY <1>15, WriteHandlerAside
  <1>16. CASE WriteHandlerError
    BY <1>13, <1>16 DEF WriteHandlerError, handle_disconnect
  <1>17. CASE ConnectSucceeds
    BY <1>a, <1>17, ConnectSucceedsAccepts
  <1>18. CASE ConnectFails
    <2>1. UNCHANGED <<state_, connects, delivered, outbound, write_queue_, body_buffer_>>
      BY <1>18 DEF ConnectFails, client, hist
    <2>2. Closed(succeeded, failed)
      BY <1>b, <1>18, CloseEffects DEF ConnectFails
    <2> QED
      BY <2>1, <2>2, CloseLink DEF Closed, Carrying
  <1>19. CASE PeerSends
    BY <1>19, PeerSendsArrives
  <1>20. CASE Break
    BY <1>20, AsideLink DEF Break, client, hist, Carrying
  <1>21. CASE HeaderArrives
    <2>1. /\ UNCHANGED <<state_, connects, delivered, outbound, write_queue_, inbound, body_buffer_,
                         socket_>>
          /\ Differs(succeeded', succeeded, "header", 1)
      BY <1>b, <1>21, IncEffects, Kinds DEF HeaderArrives, hist
    <2> QED
      BY <2>1, AsideLink DEF Differs, Carrying
  <1>22. CASE BodyArrives
    BY <1>a, <1>22, BodyArrivesAside
  <1>23. CASE WriteCompletes
    BY <1>23, WriteCompletesTransmits
  <1>24. CASE \E k \in {"header", "body", "write"} : OperationFails(k)
    BY <1>24, AsideLink DEF OperationFails, client, hist, Carrying
  <1>25. CASE UNCHANGED vars
    BY <1>25, AsideLink DEF vars, client, asio, hist, Carrying
  <1> QED
    BY <1>1, <1>2, <1>3, <1>4, <1>5, <1>6, <1>7, <1>8, <1>9, <1>10, <1>11, <1>12, <1>14,
       <1>15, <1>16, <1>17, <1>18, <1>19, <1>20, <1>21, <1>22, <1>23, <1>24, <1>25
    DEF Next, UserThread, IoThread, Network

\* IConnection: whatever the interleaving of the user thread, the handlers and
\* the network, TCPConnection keeps frames whole, in order, unduplicated and on
\* their own connection, and loses them only when the connection ends.
THEOREM LinkCorrect ==
  ASSUME ~EagerReconnect
  PROVE  Spec => ImplementsFrameLink
  <1>1. /\ TypeOK /\ TypeOK' /\ SingleReadChain /\ OneWriter
        /\ SocketInv /\ ReadInv /\ PrefixInv /\ WriteInv /\ [Next]_vars
        => [Link!Next]_(Link!link)
    BY LinkStep
  <1> QED
    BY <1>1, LinkInit, TypeCorrect, ChainCorrect, WriterCorrect, SocketCorrect, ReadCorrect,
       PrefixInvCorrect, WriteInvCorrect, PTL DEF Spec, ImplementsFrameLink, Link!Spec

=============================================================================
