-------------------------- MODULE TCPConnectionProofs --------------------------
(***************************************************************************)
(* Proofs about TCPConnection, for every bound and however soon the        *)
(* application reconnects, unless a theorem says otherwise.                *)
(***************************************************************************)
EXTENDS TCPConnection, TLAPS

\* The part of TypeOK that is about the reactor.
AsioTypeOK ==
  /\ socket_ \in {"closed", "connecting", "connected", "broken"}
  /\ waiting \in [OpKind -> Nat]
  /\ succeeded \in [OpKind -> Nat]
  /\ failed \in [OpKind -> Nat]
  /\ inbound \in Seq(Frame)
  /\ align \in {"hdr", "body", "skew"}

-----------------------------------------------------------------------------
(* Counting operations.                                                    *)

\* Inc adds one operation of one kind.
LEMMA IncFacts ==
  ASSUME NEW f \in [OpKind -> Nat], NEW k \in OpKind
  PROVE  /\ Inc(f, k) \in [OpKind -> Nat]
         /\ Inc(f, k)[k] = f[k] + 1
         /\ \A j \in OpKind : j # k => Inc(f, k)[j] = f[j]
  BY DEF Inc

\* Dec removes one operation of one kind, if there is one.
LEMMA DecFacts ==
  ASSUME NEW f \in [OpKind -> Nat], NEW k \in OpKind, f[k] > 0
  PROVE  /\ Dec(f, k) \in [OpKind -> Nat]
         /\ Dec(f, k)[k] = f[k] - 1
         /\ \A j \in OpKind : j # k => Dec(f, k)[j] = f[j]
  BY DEF Dec

\* Closing the socket loses no operation and invents none: each one that was
\* outstanding still has its handler to run.
LEMMA SocketCloseFacts ==
  ASSUME AsioTypeOK,
         NEW s \in [OpKind -> Nat], NEW f \in [OpKind -> Nat],
         SocketClose(s, f)
  PROVE  /\ AsioTypeOK'
         /\ socket_' = "closed"
         /\ \A k \in OpKind : Outstanding(k)' = waiting[k] + s[k] + f[k]
  <1>1. NoOps \in [OpKind -> Nat]
    BY DEF NoOps
  <1>2. [s EXCEPT !["connect"] = 0] \in [OpKind -> Nat]
    BY DEF OpKind
  <1>3. [k \in OpKind |-> f[k] + waiting[k] + IF k = "connect" THEN s[k] ELSE 0]
          \in [OpKind -> Nat]
    BY DEF AsioTypeOK
  <1>4. AsioTypeOK'
    BY <1>1, <1>2, <1>3 DEF AsioTypeOK, SocketClose
  <1>5. ASSUME NEW k \in OpKind
        PROVE  Outstanding(k)' = waiting[k] + s[k] + f[k]
    BY DEF SocketClose, Outstanding, NoOps, AsioTypeOK
  <1> QED
    BY <1>4, <1>5 DEF SocketClose

\* Starting an operation adds exactly one of its kind, whether the socket takes
\* it or refuses it at once.
LEMMA AsyncStartFacts ==
  ASSUME AsioTypeOK, NEW k \in OpKind,
         NEW s \in [OpKind -> Nat], NEW f \in [OpKind -> Nat],
         AsyncStart(k, f), succeeded' = s,
         UNCHANGED <<socket_, inbound, align>>
  PROVE  /\ AsioTypeOK'
         /\ Outstanding(k)' = waiting[k] + s[k] + f[k] + 1
         /\ \A j \in OpKind :
              j # k => Outstanding(j)' = waiting[j] + s[j] + f[j]
  <1>1. CASE socket_ = "closed"
    <2>1. failed' = Inc(f, k) /\ waiting' = waiting /\ succeeded' = s
      BY <1>1 DEF AsyncStart
    <2>2. /\ failed' \in [OpKind -> Nat]
          /\ failed'[k] = f[k] + 1
          /\ \A j \in OpKind : j # k => failed'[j] = f[j]
      BY <2>1, IncFacts
    <2>3. AsioTypeOK'
      BY <2>1, <2>2 DEF AsioTypeOK
    <2>4. Outstanding(k)' = waiting[k] + s[k] + f[k] + 1
      BY <2>1, <2>2 DEF AsioTypeOK, Outstanding
    <2>5. ASSUME NEW j \in OpKind, j # k
          PROVE  Outstanding(j)' = waiting[j] + s[j] + f[j]
      BY <2>1, <2>2, <2>5 DEF AsioTypeOK, Outstanding
    <2> QED
      BY <2>3, <2>4, <2>5
  <1>2. CASE socket_ # "closed"
    <2>1. waiting' = Inc(waiting, k) /\ failed' = f /\ succeeded' = s
      BY <1>2 DEF AsyncStart
    <2>2. /\ waiting' \in [OpKind -> Nat]
          /\ waiting'[k] = waiting[k] + 1
          /\ \A j \in OpKind : j # k => waiting'[j] = waiting[j]
      BY <2>1, IncFacts DEF AsioTypeOK
    <2>3. AsioTypeOK'
      BY <2>1, <2>2 DEF AsioTypeOK
    <2>4. Outstanding(k)' = waiting[k] + s[k] + f[k] + 1
      BY <2>1, <2>2 DEF AsioTypeOK, Outstanding
    <2>5. ASSUME NEW j \in OpKind, j # k
          PROVE  Outstanding(j)' = waiting[j] + s[j] + f[j]
      BY <2>1, <2>2, <2>5 DEF AsioTypeOK, Outstanding
    <2> QED
      BY <2>3, <2>4, <2>5
  <1> QED
    BY <1>1, <1>2

\* network_close() ends in DISCONNECTED and keeps the number of operations.
LEMMA NetworkCloseFacts ==
  ASSUME AsioTypeOK,
         NEW s \in [OpKind -> Nat], NEW f \in [OpKind -> Nat],
         network_close(s, f)
  PROVE  /\ AsioTypeOK'
         /\ state_' = "DISCONNECTED"
         /\ \A k \in OpKind : Outstanding(k)' = waiting[k] + s[k] + f[k]
  <1>1. CASE state_ = "DISCONNECTED"
    BY <1>1 DEF network_close, AsioTypeOK, Outstanding
  <1>2. CASE state_ # "DISCONNECTED"
    BY <1>2, SocketCloseFacts DEF network_close
  <1> QED
    BY <1>1, <1>2

-----------------------------------------------------------------------------
(* What each step does to the operations that are outstanding.             *)

\* TypeOK contains the typing of the reactor.
LEMMA TypeOKAsio == TypeOK => AsioTypeOK
  BY DEF TypeOK, AsioTypeOK

KeepsOps == \A k \in OpKind : Outstanding(k)' = Outstanding(k)

\* The steps that neither start an operation nor run a handler.
Bystander ==
  \/ NetworkConnect \/ FetchServers \/ ResolveThrows \/ Shutdown
  \/ StoreDisconnected \/ FrameThrows

\* Application calls and the end of the process leave the operations alone.
LEMMA BystanderOps ==
  ASSUME TypeOK, Bystander
  PROVE  AsioTypeOK' /\ KeepsOps
  <1>1. UNCHANGED asio
    BY DEF Bystander, NetworkConnect, FetchServers, ResolveThrows, Shutdown,
           StoreDisconnected, FrameThrows
  <1> QED
    BY <1>1, TypeOKAsio DEF asio, AsioTypeOK, KeepsOps, Outstanding

\* A completion in the reactor moves an operation from waiting to succeeded or
\* failed and keeps their number.
LEMMA CompletionOps ==
  ASSUME TypeOK, NEW k \in OpKind, waiting[k] > 0,
         waiting' = Dec(waiting, k),
         \/ succeeded' = Inc(succeeded, k) /\ failed' = failed
         \/ failed' = Inc(failed, k) /\ succeeded' = succeeded
  PROVE  /\ waiting' \in [OpKind -> Nat]
         /\ succeeded' \in [OpKind -> Nat]
         /\ failed' \in [OpKind -> Nat]
         /\ KeepsOps
  <1>1. /\ waiting' \in [OpKind -> Nat]
        /\ waiting'[k] = waiting[k] - 1
        /\ \A j \in OpKind : j # k => waiting'[j] = waiting[j]
    BY DecFacts DEF TypeOK
  <1>2. CASE succeeded' = Inc(succeeded, k) /\ failed' = failed
    <2>1. /\ succeeded' \in [OpKind -> Nat]
          /\ succeeded'[k] = succeeded[k] + 1
          /\ \A j \in OpKind : j # k => succeeded'[j] = succeeded[j]
      BY <1>2, IncFacts DEF TypeOK
    <2>2. Outstanding(k)' = Outstanding(k)
      BY <1>1, <1>2, <2>1 DEF TypeOK, Outstanding
    <2>3. \A j \in OpKind : j # k => Outstanding(j)' = Outstanding(j)
      BY <1>1, <1>2, <2>1 DEF TypeOK, Outstanding
    <2> QED
      BY <1>1, <1>2, <2>1, <2>2, <2>3 DEF TypeOK, KeepsOps
  <1>3. CASE failed' = Inc(failed, k) /\ succeeded' = succeeded
    <2>1. /\ failed' \in [OpKind -> Nat]
          /\ failed'[k] = failed[k] + 1
          /\ \A j \in OpKind : j # k => failed'[j] = failed[j]
      BY <1>3, IncFacts DEF TypeOK
    <2>2. Outstanding(k)' = Outstanding(k)
      BY <1>1, <1>3, <2>1 DEF TypeOK, Outstanding
    <2>3. \A j \in OpKind : j # k => Outstanding(j)' = Outstanding(j)
      BY <1>1, <1>3, <2>1 DEF TypeOK, Outstanding
    <2> QED
      BY <1>1, <1>3, <2>1, <2>2, <2>3 DEF TypeOK, KeepsOps
  <1> QED
    BY <1>2, <1>3

\* A step of the network keeps the number of operations.
LEMMA NetworkOps ==
  ASSUME TypeOK, Network
  PROVE  AsioTypeOK' /\ KeepsOps
  <1> USE TypeOKAsio
  <1>1. CASE ConnectSucceeds
    <2>1. "connect" \in OpKind
      BY DEF OpKind
    <2> QED
      BY <1>1, <2>1, CompletionOps DEF ConnectSucceeds, AsioTypeOK
  <1>2. CASE ConnectFails
    <2>1. succeeded \in [OpKind -> Nat] /\ failed \in [OpKind -> Nat]
      BY DEF AsioTypeOK
    <2>2. SocketClose(succeeded, failed)
      BY <1>2 DEF ConnectFails
    <2> QED
      BY <2>1, <2>2, SocketCloseFacts DEF KeepsOps, Outstanding
  <1>3. CASE PeerSends
    <2>1. PICK n \in {0, peerSent + 1} :
            inbound' = Append(inbound, [conn |-> connects, n |-> n])
      BY <1>3 DEF PeerSends
    <2>2. [conn |-> connects, n |-> n] \in Frame
      BY <1>3, <2>1, BoundsAssumption DEF PeerSends, TypeOK, Frame
    <2>3. inbound' \in Seq(Frame)
      BY <2>1, <2>2 DEF AsioTypeOK
    <2> QED
      BY <1>3, <2>3 DEF PeerSends, AsioTypeOK, KeepsOps, Outstanding
  <1>4. CASE Break
    BY <1>4 DEF Break, AsioTypeOK, KeepsOps, Outstanding
  <1>5. CASE HeaderArrives
    <2>1. "header" \in OpKind
      BY DEF OpKind
    <2> QED
      BY <1>5, <2>1, CompletionOps DEF HeaderArrives, AsioTypeOK
  <1>6. CASE BodyArrives
    <2>1. "body" \in OpKind
      BY DEF OpKind
    <2>2. inbound' \in Seq(Frame)
      BY <1>6 DEF BodyArrives, AsioTypeOK
    <2> QED
      BY <1>6, <2>1, <2>2, CompletionOps DEF BodyArrives, AsioTypeOK
  <1>7. CASE WriteCompletes
    <2>1. "write" \in OpKind
      BY DEF OpKind
    <2> QED
      BY <1>7, <2>1, CompletionOps DEF WriteCompletes, AsioTypeOK
  <1>8. ASSUME NEW k \in {"header", "body", "write"}, OperationFails(k)
        PROVE  AsioTypeOK' /\ KeepsOps
    <2>1. k \in OpKind
      BY DEF OpKind
    <2> QED
      BY <1>8, <2>1, CompletionOps DEF OperationFails, AsioTypeOK
  <1> QED
    BY <1>1, <1>2, <1>3, <1>4, <1>5, <1>6, <1>7, <1>8 DEF Network

\* Every kind of operation is a kind.
LEMMA Kinds ==
  /\ "connect" \in OpKind /\ "header" \in OpKind
  /\ "body" \in OpKind /\ "write" \in OpKind
  /\ \A k \in OpKind : k \in {"connect", "header", "body", "write"}
  BY DEF OpKind

\* The number of outstanding operations is a number, and positive while one is
\* waiting or has its handler queued.
LEMMA OutstandingNat ==
  ASSUME TypeOK, NEW k \in OpKind
  PROVE  /\ Outstanding(k) \in Nat
         /\ waiting[k] > 0 \/ succeeded[k] > 0 \/ failed[k] > 0
              => Outstanding(k) > 0
  <1>1. waiting[k] \in Nat /\ succeeded[k] \in Nat /\ failed[k] \in Nat
    BY DEF TypeOK
  <1> QED
    BY <1>1 DEF Outstanding

\* AsyncConnect aborts what was waiting on the old socket and adds one connect.
LEMMA AsyncConnectOps ==
  ASSUME TypeOK, AsyncConnect
  PROVE  /\ AsioTypeOK'
         /\ Outstanding("connect")' = Outstanding("connect") + 1
         /\ \A k \in OpKind : k # "connect" => Outstanding(k)' = Outstanding(k)
  <1>0. AsioTypeOK /\ "connect" \in OpKind
    BY TypeOKAsio, Kinds
  <1>1. NoOps \in [OpKind -> Nat]
    BY DEF NoOps
  <1>2. /\ waiting' \in [OpKind -> Nat]
        /\ waiting'["connect"] = 1
        /\ \A k \in OpKind : k # "connect" => waiting'[k] = 0
    <2>1. waiting' = Inc(NoOps, "connect")
      BY DEF AsyncConnect
    <2>2. \A k \in OpKind : NoOps[k] = 0
      BY DEF NoOps
    <2> QED
      BY <1>0, <1>1, <2>1, <2>2, IncFacts
  <1>3. /\ succeeded' \in [OpKind -> Nat]
        /\ succeeded'["connect"] = 0
        /\ \A k \in OpKind : k # "connect" => succeeded'[k] = succeeded[k]
    BY <1>0 DEF AsyncConnect, AsioTypeOK
  <1>4. /\ failed' \in [OpKind -> Nat]
        /\ failed'["connect"] = failed["connect"] + waiting["connect"]
                                + succeeded["connect"]
        /\ \A k \in OpKind : k # "connect" => failed'[k] = failed[k] + waiting[k]
    BY <1>0 DEF AsyncConnect, AsioTypeOK
  <1>5. AsioTypeOK'
    BY <1>0, <1>2, <1>3, <1>4 DEF AsyncConnect, AsioTypeOK
  <1>6. Outstanding("connect")' = Outstanding("connect") + 1
    BY <1>0, <1>2, <1>3, <1>4 DEF AsioTypeOK, Outstanding
  <1>7. ASSUME NEW k \in OpKind, k # "connect"
        PROVE  Outstanding(k)' = Outstanding(k)
    BY <1>0, <1>2, <1>3, <1>4, <1>7 DEF AsioTypeOK, Outstanding
  <1> QED
    BY <1>5, <1>6, <1>7

\* async_send starts a write exactly when the queue was empty.
LEMMA AsyncSendOps ==
  ASSUME TypeOK, AsyncSend
  PROVE  /\ AsioTypeOK'
         /\ write_queue_ = << >> =>
              Outstanding("write")' = Outstanding("write") + 1
         /\ write_queue_ # << >> =>
              Outstanding("write")' = Outstanding("write")
         /\ \A k \in OpKind : k # "write" => Outstanding(k)' = Outstanding(k)
  <1> USE TypeOKAsio, Kinds
  <1>1. CASE write_queue_ = << >>
    <2>1. /\ AsyncStart("write", failed)
          /\ succeeded' = succeeded
          /\ UNCHANGED <<socket_, inbound, align>>
      BY <1>1 DEF AsyncSend, do_write
    <2>2. succeeded \in [OpKind -> Nat] /\ failed \in [OpKind -> Nat]
      BY DEF AsioTypeOK
    <2> QED
      BY <1>1, <2>1, <2>2, AsyncStartFacts DEF Outstanding
  <1>2. CASE write_queue_ # << >>
    BY <1>2 DEF AsyncSend, asio, AsioTypeOK, Outstanding
  <1> QED
    BY <1>1, <1>2

\* Closing from the user thread or from the callback keeps the operations.
LEMMA CloseOps ==
  ASSUME TypeOK, CloseSocket \/ CallbackDisconnect
  PROVE  AsioTypeOK' /\ KeepsOps
  <1> USE TypeOKAsio
  <1>0. succeeded \in [OpKind -> Nat] /\ failed \in [OpKind -> Nat]
    BY DEF AsioTypeOK
  <1>1. CASE CloseSocket
    <2>1. CASE state_ = "DISCONNECTED"
      BY <1>1, <2>1 DEF CloseSocket, asio, AsioTypeOK, KeepsOps, Outstanding
    <2>2. CASE state_ # "DISCONNECTED"
      <3>1. SocketClose(succeeded, failed)
        BY <1>1, <2>2 DEF CloseSocket
      <3> QED
        BY <1>0, <3>1, SocketCloseFacts DEF KeepsOps, Outstanding
    <2> QED
      BY <2>1, <2>2
  <1>2. CASE CallbackDisconnect
    <2>1. network_close(succeeded, failed)
      BY <1>2 DEF CallbackDisconnect
    <2> QED
      BY <1>0, <2>1, NetworkCloseFacts DEF KeepsOps, Outstanding
  <1> QED
    BY <1>1, <1>2

\* What is left of the counts once one completed operation is taken away: k is
\* its kind, and it had succeeded ...
LEMMA TakeSucceeded ==
  ASSUME TypeOK, NEW k \in OpKind, succeeded[k] > 0
  PROVE  /\ Dec(succeeded, k) \in [OpKind -> Nat]
         /\ waiting[k] + Dec(succeeded, k)[k] + failed[k] = Outstanding(k) - 1
         /\ \A i \in OpKind : i # k =>
              waiting[i] + Dec(succeeded, k)[i] + failed[i] = Outstanding(i)
  <1>0. /\ waiting \in [OpKind -> Nat]
        /\ succeeded \in [OpKind -> Nat]
        /\ failed \in [OpKind -> Nat]
    BY DEF TypeOK
  <1>1. /\ Dec(succeeded, k) \in [OpKind -> Nat]
        /\ Dec(succeeded, k)[k] = succeeded[k] - 1
        /\ \A i \in OpKind : i # k => Dec(succeeded, k)[i] = succeeded[i]
    BY <1>0, DecFacts
  <1>2. waiting[k] + Dec(succeeded, k)[k] + failed[k] = Outstanding(k) - 1
    BY <1>0, <1>1 DEF Outstanding
  <1>3. ASSUME NEW i \in OpKind, i # k
        PROVE  waiting[i] + Dec(succeeded, k)[i] + failed[i] = Outstanding(i)
    BY <1>0, <1>1, <1>3 DEF Outstanding
  <1> QED
    BY <1>1, <1>2, <1>3

\* ... or failed.
LEMMA TakeFailed ==
  ASSUME TypeOK, NEW k \in OpKind, failed[k] > 0
  PROVE  /\ Dec(failed, k) \in [OpKind -> Nat]
         /\ waiting[k] + succeeded[k] + Dec(failed, k)[k] = Outstanding(k) - 1
         /\ \A i \in OpKind : i # k =>
              waiting[i] + succeeded[i] + Dec(failed, k)[i] = Outstanding(i)
  <1>0. /\ waiting \in [OpKind -> Nat]
        /\ succeeded \in [OpKind -> Nat]
        /\ failed \in [OpKind -> Nat]
    BY DEF TypeOK
  <1>1. /\ Dec(failed, k) \in [OpKind -> Nat]
        /\ Dec(failed, k)[k] = failed[k] - 1
        /\ \A i \in OpKind : i # k => Dec(failed, k)[i] = failed[i]
    BY <1>0, DecFacts
  <1>2. waiting[k] + succeeded[k] + Dec(failed, k)[k] = Outstanding(k) - 1
    BY <1>0, <1>1 DEF Outstanding
  <1>3. ASSUME NEW i \in OpKind, i # k
        PROVE  waiting[i] + succeeded[i] + Dec(failed, k)[i] = Outstanding(i)
    BY <1>0, <1>1, <1>3 DEF Outstanding
  <1> QED
    BY <1>1, <1>2, <1>3

\* A handler that runs consumes one operation and, if it starts another, adds
\* one: k is the kind consumed, j the kind started.
LEMMA ContinueOps ==
  ASSUME TypeOK, NEW k \in OpKind, NEW j \in OpKind, succeeded[k] > 0, j # k,
         AsyncStart(j, failed), succeeded' = Dec(succeeded, k),
         UNCHANGED <<socket_, inbound, align>>
  PROVE  /\ AsioTypeOK'
         /\ Outstanding(k)' = Outstanding(k) - 1
         /\ Outstanding(j)' = Outstanding(j) + 1
         /\ \A i \in OpKind : i # k /\ i # j => Outstanding(i)' = Outstanding(i)
  <1>0. AsioTypeOK
    BY TypeOKAsio
  <1>1. Dec(succeeded, k) \in [OpKind -> Nat]
    BY TakeSucceeded
  <1>2. failed \in [OpKind -> Nat]
    BY <1>0 DEF AsioTypeOK
  <1>3. /\ AsioTypeOK'
        /\ Outstanding(j)' = waiting[j] + Dec(succeeded, k)[j] + failed[j] + 1
        /\ \A i \in OpKind : i # j =>
             Outstanding(i)' = waiting[i] + Dec(succeeded, k)[i] + failed[i]
    BY <1>0, <1>1, <1>2, AsyncStartFacts
  <1>4. waiting[j] + Dec(succeeded, k)[j] + failed[j] = Outstanding(j)
    BY TakeSucceeded
  <1> QED
    BY <1>3, <1>4, TakeSucceeded

\* The connect handler consumes its operation and, on success, starts a header
\* read.
LEMMA ConnectHandlerOps ==
  ASSUME TypeOK
  PROVE  /\ ConnectHandlerOk =>
              /\ AsioTypeOK'
              /\ Outstanding("header")' = Outstanding("header") + 1
              /\ Outstanding("connect")' = Outstanding("connect") - 1
              /\ Outstanding("body")' = Outstanding("body")
              /\ Outstanding("write")' = Outstanding("write")
         /\ ConnectHandlerError =>
              /\ AsioTypeOK'
              /\ Outstanding("connect")' = Outstanding("connect") - 1
              /\ Outstanding("header")' = Outstanding("header")
              /\ Outstanding("body")' = Outstanding("body")
              /\ Outstanding("write")' = Outstanding("write")
  <1>1. ASSUME ConnectHandlerOk
        PROVE  /\ AsioTypeOK'
               /\ Outstanding("header")' = Outstanding("header") + 1
               /\ Outstanding("connect")' = Outstanding("connect") - 1
               /\ \A i \in OpKind : i # "connect" /\ i # "header"
                    => Outstanding(i)' = Outstanding(i)
    BY <1>1, ContinueOps, Kinds DEF ConnectHandlerOk, start_read_header
  <1>2. ASSUME ConnectHandlerError
        PROVE  /\ AsioTypeOK'
               /\ Outstanding("connect")' = Outstanding("connect") - 1
               /\ \A i \in OpKind : i # "connect"
                    => Outstanding(i)' = Outstanding(i)
    <2>1. /\ failed["connect"] > 0
          /\ failed' = Dec(failed, "connect")
          /\ UNCHANGED <<socket_, waiting, succeeded, inbound, align>>
      BY <1>2 DEF ConnectHandlerError
    <2>2. AsioTypeOK'
      BY <2>1, TakeFailed, TypeOKAsio, Kinds DEF AsioTypeOK
    <2>3. \A i \in OpKind : Outstanding(i)' =
            waiting[i] + succeeded[i] + Dec(failed, "connect")[i]
      BY <2>1 DEF Outstanding
    <2> QED
      BY <2>1, <2>2, <2>3, TakeFailed, Kinds
  <1> QED
    BY <1>1, <1>2, Kinds

\* A header handler without error either goes on with the body, or closes.
LEMMA HeaderHandlerOps ==
  ASSUME TypeOK, HeaderHandlerOk
  PROVE  /\ AsioTypeOK'
         /\ Outstanding("header")' = Outstanding("header") - 1
         /\ \/ /\ Outstanding("body")' = Outstanding("body") + 1
               /\ state_' = state_
            \/ /\ Outstanding("body")' = Outstanding("body")
               /\ state_' = "DISCONNECTED"
         /\ Outstanding("connect")' = Outstanding("connect")
         /\ Outstanding("write")' = Outstanding("write")
  <1>1. CASE header_buffer_ = "valid"
    <2>1. /\ AsyncStart("body", failed)
          /\ succeeded' = Dec(succeeded, "header")
          /\ succeeded["header"] > 0
          /\ UNCHANGED <<socket_, inbound, align>>
          /\ state_' = state_
      BY <1>1 DEF HeaderHandlerOk, start_read_body
    <2> QED
      BY <2>1, ContinueOps, Kinds
  <1>2. CASE header_buffer_ # "valid"
    <2>1. network_close(Dec(succeeded, "header"), failed)
      BY <1>2 DEF HeaderHandlerOk, handle_disconnect
    <2>2. succeeded["header"] > 0 /\ Dec(succeeded, "header") \in [OpKind -> Nat]
      BY TakeSucceeded, Kinds DEF HeaderHandlerOk
    <2>3. failed \in [OpKind -> Nat]
      BY DEF TypeOK
    <2>4. /\ AsioTypeOK'
          /\ state_' = "DISCONNECTED"
          /\ \A k \in OpKind : Outstanding(k)' =
               waiting[k] + Dec(succeeded, "header")[k] + failed[k]
      BY <2>1, <2>2, <2>3, TypeOKAsio, NetworkCloseFacts
    <2> QED
      BY <2>2, <2>4, TakeSucceeded, Kinds
  <1> QED
    BY <1>1, <1>2

\* A handler that finds an error consumes its operation and closes.
LEMMA ErrorHandlerOps ==
  ASSUME TypeOK, NEW k \in OpKind, failed[k] > 0,
         network_close(succeeded, Dec(failed, k))
  PROVE  /\ AsioTypeOK'
         /\ state_' = "DISCONNECTED"
         /\ Outstanding(k)' = Outstanding(k) - 1
         /\ \A i \in OpKind : i # k => Outstanding(i)' = Outstanding(i)
  <1>1. Dec(failed, k) \in [OpKind -> Nat]
    BY TakeFailed
  <1>2. succeeded \in [OpKind -> Nat]
    BY DEF TypeOK
  <1>3. /\ AsioTypeOK'
        /\ state_' = "DISCONNECTED"
        /\ \A i \in OpKind : Outstanding(i)' =
             waiting[i] + succeeded[i] + Dec(failed, k)[i]
    BY <1>1, <1>2, TypeOKAsio, NetworkCloseFacts
  <1> QED
    BY <1>3, TakeFailed

\* The body handler hands its operation over to the callback, which hands it
\* back as a header read.
LEMMA BodyHandlerOps ==
  ASSUME TypeOK
  PROVE  /\ BodyHandlerOk =>
              /\ AsioTypeOK'
              /\ Outstanding("body")' = Outstanding("body") - 1
              /\ Outstanding("connect")' = Outstanding("connect")
              /\ Outstanding("header")' = Outstanding("header")
              /\ Outstanding("write")' = Outstanding("write")
         /\ FrameReturn =>
              /\ AsioTypeOK'
              /\ Outstanding("header")' = Outstanding("header") + 1
              /\ Outstanding("connect")' = Outstanding("connect")
              /\ Outstanding("body")' = Outstanding("body")
              /\ Outstanding("write")' = Outstanding("write")
  <1>1. ASSUME BodyHandlerOk
        PROVE  /\ AsioTypeOK'
               /\ Outstanding("body")' = Outstanding("body") - 1
               /\ \A i \in OpKind : i # "body" => Outstanding(i)' = Outstanding(i)
    <2>1. /\ succeeded["body"] > 0
          /\ succeeded' = Dec(succeeded, "body")
          /\ UNCHANGED <<socket_, waiting, failed, inbound, align>>
      BY <1>1 DEF BodyHandlerOk
    <2>2. AsioTypeOK'
      BY <2>1, TakeSucceeded, TypeOKAsio, Kinds DEF AsioTypeOK
    <2>3. \A i \in OpKind : Outstanding(i)' =
            waiting[i] + Dec(succeeded, "body")[i] + failed[i]
      BY <2>1 DEF Outstanding
    <2> QED
      BY <2>1, <2>2, <2>3, TakeSucceeded, Kinds
  <1>2. ASSUME FrameReturn
        PROVE  /\ AsioTypeOK'
               /\ Outstanding("header")' = Outstanding("header") + 1
               /\ \A i \in OpKind : i # "header" => Outstanding(i)' = Outstanding(i)
    <2>1. /\ AsyncStart("header", failed)
          /\ succeeded' = succeeded
          /\ UNCHANGED <<socket_, inbound, align>>
      BY <1>2 DEF FrameReturn, start_read_header
    <2>2. succeeded \in [OpKind -> Nat] /\ failed \in [OpKind -> Nat]
      BY DEF TypeOK
    <2> QED
      BY <2>1, <2>2, TypeOKAsio, AsyncStartFacts, Kinds DEF Outstanding
  <1> QED
    BY <1>1, <1>2, Kinds

\* The write handler without error pops a frame, and writes the next one if
\* there is one.
LEMMA WriteHandlerOps ==
  ASSUME TypeOK, WriteHandlerOk
  PROVE  /\ AsioTypeOK'
         /\ Tail(write_queue_) = << >> =>
              Outstanding("write")' = Outstanding("write") - 1
         /\ Tail(write_queue_) # << >> =>
              Outstanding("write")' = Outstanding("write")
         /\ \A k \in OpKind : k # "write" => Outstanding(k)' = Outstanding(k)
  <1>1. /\ Dec(succeeded, "write") \in [OpKind -> Nat]
        /\ waiting["write"] + Dec(succeeded, "write")["write"]
             + failed["write"] = Outstanding("write") - 1
        /\ \A i \in OpKind : i # "write" =>
             waiting[i] + Dec(succeeded, "write")[i] + failed[i] = Outstanding(i)
    BY TakeSucceeded, Kinds DEF WriteHandlerOk
  <1>2. CASE Tail(write_queue_) = << >>
    <2>1. /\ succeeded' = Dec(succeeded, "write")
          /\ UNCHANGED <<socket_, waiting, failed, inbound, align>>
      BY <1>2 DEF WriteHandlerOk
    <2>2. AsioTypeOK'
      BY <1>1, <2>1, TypeOKAsio DEF AsioTypeOK
    <2>3. \A i \in OpKind : Outstanding(i)' =
            waiting[i] + Dec(succeeded, "write")[i] + failed[i]
      BY <2>1 DEF Outstanding
    <2> QED
      BY <1>1, <1>2, <2>2, <2>3, Kinds
  <1>3. CASE Tail(write_queue_) # << >>
    <2>1. /\ AsyncStart("write", failed)
          /\ succeeded' = Dec(succeeded, "write")
          /\ UNCHANGED <<socket_, inbound, align>>
      BY <1>3 DEF WriteHandlerOk, do_write
    <2>2. failed \in [OpKind -> Nat]
      BY DEF TypeOK
    <2>3. /\ AsioTypeOK'
          /\ Outstanding("write")' = waiting["write"]
               + Dec(succeeded, "write")["write"] + failed["write"] + 1
          /\ \A i \in OpKind : i # "write" => Outstanding(i)' =
               waiting[i] + Dec(succeeded, "write")[i] + failed[i]
      BY <1>1, <2>1, <2>2, TypeOKAsio, AsyncStartFacts, Kinds
    <2>4. Outstanding("write") \in Nat
      BY OutstandingNat, Kinds
    <2> QED
      BY <1>1, <1>3, <2>3, <2>4, Kinds
  <1> QED
    BY <1>2, <1>3

-----------------------------------------------------------------------------
(* TypeOK and OneWriter are inductive together: that a write that completes *)
(* finds its frame at the front of the queue needs OneWriter.               *)

\* While a write is outstanding the queue has a front.
LEMMA WriteHasFrame ==
  ASSUME TypeOK, OneWriter,
         waiting["write"] > 0 \/ succeeded["write"] > 0 \/ failed["write"] > 0
  PROVE  write_queue_ # << >> /\ ~wfailed /\ Outstanding("write") = 1
  <1>1. Outstanding("write") > 0
    BY OutstandingNat, Kinds
  <1> QED
    BY <1>1 DEF OneWriter, TypeOK

\* Every step keeps the types.
LEMMA TypeStep ==
  ASSUME TypeOK, OneWriter, [Next]_vars
  PROVE  TypeOK'
  <1>1. CASE NetworkConnect
    <2>1. AsioTypeOK'
      BY <1>1, BystanderOps DEF Bystander
    <2> QED
      BY <1>1, <2>1, BoundsAssumption
      DEF NetworkConnect, TypeOK, AsioTypeOK, client, hist
  <1>2. CASE FetchServers
    <2>1. AsioTypeOK'
      BY <1>2, BystanderOps DEF Bystander
    <2> QED
      BY <1>2, <2>1
      DEF FetchServers, TypeOK, AsioTypeOK, client, hist
  <1>3. CASE ResolveThrows
    <2>1. AsioTypeOK'
      BY <1>3, BystanderOps DEF Bystander
    <2> QED
      BY <1>3, <2>1
      DEF ResolveThrows, TypeOK, AsioTypeOK, client, hist
  <1>4. CASE AsyncConnect
    <2>1. AsioTypeOK'
      BY <1>4, AsyncConnectOps
    <2> QED
      BY <1>4, <2>1
      DEF AsyncConnect, TypeOK, AsioTypeOK, client, hist
  <1>5. CASE Shutdown
    <2>1. AsioTypeOK'
      BY <1>5, BystanderOps DEF Bystander
    <2> QED
      BY <1>5, <2>1
      DEF Shutdown, TypeOK, AsioTypeOK, client, hist
  <1>6. CASE CloseSocket
    <2>1. AsioTypeOK'
      BY <1>6, CloseOps
    <2> QED
      BY <1>6, <2>1
      DEF CloseSocket, TypeOK, AsioTypeOK, client, hist
  <1>7. CASE StoreDisconnected
    <2>1. AsioTypeOK'
      BY <1>7, BystanderOps DEF Bystander
    <2> QED
      BY <1>7, <2>1
      DEF StoreDisconnected, TypeOK, AsioTypeOK, client, hist
  <1>8. CASE AsyncSend
    <2>1. AsioTypeOK'
      BY <1>8, AsyncSendOps
    <2>2. [conn |-> connects, id |-> sends + 1] \in Packet
      BY <1>8, BoundsAssumption DEF AsyncSend, TypeOK, Packet
    <2>3. write_queue_' \in Seq(Packet)
      BY <1>8, <2>2 DEF AsyncSend, TypeOK
    <2> QED
      BY <1>8, <2>1, <2>3, BoundsAssumption
      DEF AsyncSend, TypeOK, AsioTypeOK, client, hist
  <1>9. CASE ConnectHandlerOk
    <2>1. AsioTypeOK'
      BY <1>9, ConnectHandlerOps
    <2> QED
      BY <1>9, <2>1
      DEF ConnectHandlerOk, TypeOK, AsioTypeOK, client, hist
  <1>10. CASE ConnectHandlerError
    <2>1. AsioTypeOK'
      BY <1>10, ConnectHandlerOps
    <2> QED
      BY <1>10, <2>1
      DEF ConnectHandlerError, TypeOK, AsioTypeOK, client, hist
  <1>11. CASE HeaderHandlerOk
    <2>1. AsioTypeOK'
      BY <1>11, HeaderHandlerOps
    <2> QED
      BY <1>11, <2>1
      DEF HeaderHandlerOk, TypeOK, AsioTypeOK, client, hist, network_close, handle_disconnect
  <1>12. CASE BodyHandlerOk
    <2>1. AsioTypeOK'
      BY <1>12, BodyHandlerOps
    <2>2. delivered' \in Seq(Frame)
      BY <1>12 DEF BodyHandlerOk, TypeOK
    <2> QED
      BY <1>12, <2>1, <2>2
      DEF BodyHandlerOk, TypeOK, AsioTypeOK, client, hist
  <1>13. CASE FrameReturn
    <2>1. AsioTypeOK'
      BY <1>13, BodyHandlerOps
    <2> QED
      BY <1>13, <2>1
      DEF FrameReturn, TypeOK, AsioTypeOK, client, hist
  <1>14. CASE FrameThrows
    <2>1. AsioTypeOK'
      BY <1>14, BystanderOps DEF Bystander
    <2> QED
      BY <1>14, <2>1
      DEF FrameThrows, TypeOK, AsioTypeOK, client, hist
  <1>15. CASE CallbackDisconnect
    <2>1. AsioTypeOK'
      BY <1>15, CloseOps
    <2> QED
      BY <1>15, <2>1
      DEF CallbackDisconnect, TypeOK, AsioTypeOK, client, hist, network_close, handle_disconnect
  <1>16. CASE WriteHandlerOk
    <2>1. AsioTypeOK'
      BY <1>16, WriteHandlerOps
    <2>2. write_queue_' \in Seq(Packet)
      BY <1>16, WriteHasFrame DEF WriteHandlerOk, TypeOK
    <2> QED
      BY <1>16, <2>1, <2>2
      DEF WriteHandlerOk, TypeOK, AsioTypeOK, client, hist
  <1>17. CASE ConnectSucceeds
    <2>1. AsioTypeOK'
      BY <1>17, NetworkOps DEF Network
    <2> QED
      BY <1>17, <2>1, BoundsAssumption
      DEF ConnectSucceeds, TypeOK, AsioTypeOK, client, hist
  <1>18. CASE ConnectFails
    <2>1. AsioTypeOK'
      BY <1>18, NetworkOps DEF Network
    <2> QED
      BY <1>18, <2>1
      DEF ConnectFails, TypeOK, AsioTypeOK, client, hist
  <1>19. CASE PeerSends
    <2>1. AsioTypeOK'
      BY <1>19, NetworkOps DEF Network
    <2> QED
      BY <1>19, <2>1, BoundsAssumption
      DEF PeerSends, TypeOK, AsioTypeOK, client, hist
  <1>20. CASE Break
    <2>1. AsioTypeOK'
      BY <1>20, NetworkOps DEF Network
    <2> QED
      BY <1>20, <2>1
      DEF Break, TypeOK, AsioTypeOK, client, hist
  <1>21. CASE HeaderArrives
    <2>1. AsioTypeOK'
      BY <1>21, NetworkOps DEF Network
    <2> QED
      BY <1>21, <2>1
      DEF HeaderArrives, TypeOK, AsioTypeOK, client, hist
  <1>22. CASE BodyArrives
    <2>1. AsioTypeOK'
      BY <1>22, NetworkOps DEF Network
    <2>2. Garbage \in Frame
      BY BoundsAssumption DEF Garbage, Frame
    <2>3. body_buffer_' \in Frame
      BY <1>22, <2>2 DEF BodyArrives, TypeOK
    <2> QED
      BY <1>22, <2>1, <2>3
      DEF BodyArrives, TypeOK, AsioTypeOK, client, hist
  <1>23. CASE WriteCompletes
    <2>1. AsioTypeOK'
      BY <1>23, NetworkOps DEF Network
    <2>2. Head(write_queue_) \in Packet
      BY <1>23, WriteHasFrame DEF WriteCompletes, TypeOK
    <2>3. outbound' \in Seq([packet : Packet, via : 0 .. MaxConnects])
      BY <1>23, <2>2 DEF WriteCompletes, TypeOK
    <2> QED
      BY <1>23, <2>1, <2>3
      DEF WriteCompletes, TypeOK, AsioTypeOK, client, hist
  <1>24. ASSUME NEW k \in {"header", "body"}, ReadHandlerError(k)
        PROVE  TypeOK'
    <2>1. AsioTypeOK' /\ state_' = "DISCONNECTED"
      BY <1>24, ErrorHandlerOps, Kinds DEF ReadHandlerError, handle_disconnect
    <2> QED
      BY <1>24, <2>1 DEF ReadHandlerError, TypeOK, AsioTypeOK, client, hist
  <1>25. CASE WriteHandlerError
    <2>1. AsioTypeOK' /\ state_' = "DISCONNECTED"
      BY <1>25, ErrorHandlerOps, Kinds DEF WriteHandlerError, handle_disconnect
    <2> QED
      BY <1>25, <2>1 DEF WriteHandlerError, TypeOK, AsioTypeOK, client, hist
  <1>26. ASSUME NEW k \in {"header", "body", "write"}, OperationFails(k)
        PROVE  TypeOK'
    <2>1. AsioTypeOK'
      BY <1>26, NetworkOps DEF Network
    <2> QED
      BY <1>26, <2>1 DEF OperationFails, TypeOK, AsioTypeOK, client, hist
  <1>27. CASE UNCHANGED vars
    BY <1>27 DEF vars, client, asio, hist, TypeOK
  <1> QED
    BY <1>1, <1>2, <1>3, <1>4, <1>5, <1>6, <1>7, <1>8, <1>9, <1>10, <1>11,
       <1>12, <1>13, <1>14, <1>15, <1>16, <1>17, <1>18, <1>19, <1>20, <1>21,
       <1>22, <1>23, <1>24, <1>25, <1>26, <1>27
    DEF Next, UserThread, IoThread, Network

\* Every step keeps the write queue and the one outstanding write in step.
LEMMA WriterStep ==
  ASSUME TypeOK, OneWriter, [Next]_vars
  PROVE  OneWriter'
  <1>1. ASSUME Outstanding("write")' = Outstanding("write"),
               UNCHANGED <<write_queue_, wfailed>>
        PROVE  OneWriter'
    BY <1>1 DEF OneWriter
  <1>2. CASE Bystander
    <2>1. UNCHANGED <<write_queue_, wfailed>>
      BY <1>2 DEF Bystander, client, hist, NetworkConnect, FetchServers, ResolveThrows, Shutdown,
           StoreDisconnected, FrameThrows
    <2> QED
      BY <1>1, <1>2, <2>1, BystanderOps, Kinds DEF KeepsOps
  <1>3. CASE Network
    <2>1. UNCHANGED <<write_queue_, wfailed>>
      BY <1>3 DEF Network, client, hist, ConnectSucceeds, ConnectFails, PeerSends, Break,
           HeaderArrives, BodyArrives, WriteCompletes, OperationFails
    <2> QED
      BY <1>1, <1>3, <2>1, NetworkOps, Kinds DEF KeepsOps
  <1>4. CASE CloseSocket \/ CallbackDisconnect
    <2>1. UNCHANGED <<write_queue_, wfailed>>
      BY <1>4 DEF CloseSocket, CallbackDisconnect, client, hist
    <2> QED
      BY <1>1, <1>4, <2>1, CloseOps, Kinds DEF KeepsOps
  <1>5. CASE AsyncConnect
    <2>1. UNCHANGED <<write_queue_, wfailed>>
      BY <1>5 DEF AsyncConnect, client, hist
    <2> QED
      BY <1>1, <1>5, <2>1, AsyncConnectOps, Kinds
  <1>6. CASE ConnectHandlerOk \/ ConnectHandlerError
    <2>1. UNCHANGED <<write_queue_, wfailed>>
      BY <1>6 DEF ConnectHandlerOk, ConnectHandlerError, hist
    <2> QED
      BY <1>1, <1>6, <2>1, ConnectHandlerOps
  <1>7. CASE HeaderHandlerOk
    <2>1. UNCHANGED <<write_queue_, wfailed>>
      BY <1>7 DEF HeaderHandlerOk, hist
    <2> QED
      BY <1>1, <1>7, <2>1, HeaderHandlerOps
  <1>8. CASE BodyHandlerOk \/ FrameReturn
    <2>1. UNCHANGED <<write_queue_, wfailed>>
      BY <1>8 DEF BodyHandlerOk, FrameReturn, client, hist
    <2> QED
      BY <1>1, <1>8, <2>1, BodyHandlerOps
  <1>9. ASSUME NEW k \in {"header", "body"}, ReadHandlerError(k)
        PROVE  OneWriter'
    <2>1. UNCHANGED <<write_queue_, wfailed>>
      BY <1>9 DEF ReadHandlerError, hist
    <2>2. Outstanding("write")' = Outstanding("write")
      BY <1>9, ErrorHandlerOps, Kinds DEF ReadHandlerError, handle_disconnect
    <2> QED
      BY <1>1, <2>1, <2>2
  <1>10. CASE AsyncSend
    <2>1. write_queue_' # << >> /\ wfailed' = wfailed
      BY <1>10 DEF AsyncSend, TypeOK, hist
    <2>2. CASE write_queue_ = << >>
      <3>1. Outstanding("write") = 0 /\ ~wfailed
        BY <2>2 DEF OneWriter, TypeOK
      <3>2. Outstanding("write")' = Outstanding("write") + 1
        BY <1>10, <2>2, AsyncSendOps
      <3> QED
        BY <2>1, <3>1, <3>2 DEF OneWriter
    <2>3. CASE write_queue_ # << >>
      <3>1. Outstanding("write")' = Outstanding("write")
        BY <1>10, <2>3, AsyncSendOps
      <3> QED
        BY <2>1, <2>3, <3>1 DEF OneWriter
    <2> QED
      BY <2>2, <2>3
  <1>11. CASE WriteHandlerOk
    <2>1. write_queue_ # << >> /\ ~wfailed /\ Outstanding("write") = 1
      BY <1>11, WriteHasFrame DEF WriteHandlerOk
    <2>2. write_queue_' = Tail(write_queue_) /\ wfailed' = wfailed
      BY <1>11 DEF WriteHandlerOk, hist
    <2>3. CASE Tail(write_queue_) = << >>
      BY <1>11, <2>1, <2>2, <2>3, WriteHandlerOps DEF OneWriter
    <2>4. CASE Tail(write_queue_) # << >>
      BY <1>11, <2>1, <2>2, <2>4, WriteHandlerOps DEF OneWriter
    <2> QED
      BY <2>3, <2>4
  <1>12. CASE WriteHandlerError
    <2>1. write_queue_ # << >> /\ Outstanding("write") = 1
      BY <1>12, WriteHasFrame DEF WriteHandlerError
    <2>2. write_queue_' = write_queue_ /\ wfailed' = TRUE
      BY <1>12 DEF WriteHandlerError
    <2>3. Outstanding("write")' = Outstanding("write") - 1
      BY <1>12, ErrorHandlerOps, Kinds DEF WriteHandlerError, handle_disconnect
    <2> QED
      BY <2>1, <2>2, <2>3 DEF OneWriter
  <1>13. CASE UNCHANGED vars
    BY <1>13 DEF vars, client, asio, hist, OneWriter, Outstanding
  <1> QED
    BY <1>2, <1>3, <1>4, <1>5, <1>6, <1>7, <1>8, <1>9, <1>10, <1>11, <1>12,
       <1>13
    DEF Next, UserThread, IoThread, Bystander

\* Init has no operation and an empty queue.
LEMMA InitTypeWriter == Init => TypeOK /\ OneWriter
  <1> SUFFICES ASSUME Init PROVE TypeOK /\ OneWriter
    OBVIOUS
  <1>1. NoOps \in [OpKind -> Nat] /\ \A k \in OpKind : NoOps[k] = 0
    BY DEF NoOps
  <1>2. Garbage \in Frame
    BY BoundsAssumption DEF Garbage, Frame
  <1>3. TypeOK
    <2>1. AsioTypeOK
      BY <1>1 DEF Init, AsioTypeOK
    <2>2. /\ write_queue_ \in Seq(Packet)
          /\ delivered \in Seq(Frame)
          /\ outbound \in Seq([packet : Packet, via : 0 .. MaxConnects])
      BY DEF Init
    <2>3. /\ connects \in 0 .. MaxConnects
          /\ sends \in 0 .. MaxSends
          /\ peerSent \in 0 .. MaxPeerFrames
      BY BoundsAssumption DEF Init
    <2> QED
      BY <1>2, <2>1, <2>2, <2>3 DEF Init, TypeOK, AsioTypeOK
  <1>4. Outstanding("write") = 0
    BY <1>1, Kinds DEF Init, Outstanding
  <1>5. OneWriter
    BY <1>4 DEF Init, OneWriter
  <1> QED
    BY <1>3, <1>5

\* TypeOK and OneWriter hold in every state, whatever the bounds are and however
\* soon the application reconnects: at most one async_write is outstanding, its
\* frame is the front of write_queue_, and after one failed write none is ever
\* started again.
THEOREM TypeAndWriter == Spec => [](TypeOK /\ OneWriter)
  <1>1. Init => TypeOK /\ OneWriter
    BY InitTypeWriter
  <1>2. TypeOK /\ OneWriter /\ [Next]_vars => (TypeOK /\ OneWriter)'
    BY TypeStep, WriterStep
  <1> QED
    BY <1>1, <1>2, PTL DEF Spec

\* Every variable of the connection keeps its type.
THEOREM TypeCorrect == Spec => []TypeOK
  BY TypeAndWriter, PTL

\* async_send / do_write keep at most one write outstanding, for ever.
THEOREM WriterCorrect == Spec => []OneWriter
  BY TypeAndWriter, PTL

-----------------------------------------------------------------------------
(* A connection that is up always has a read outstanding.                  *)

\* Every step keeps a reader on a connection that is up.
LEMMA ReaderStep ==
  ASSUME TypeOK, ConnectedHasReader, [Next]_vars
  PROVE  ConnectedHasReader'
  <1>0. /\ Outstanding("header") \in Nat
        /\ Outstanding("body") \in Nat
    BY OutstandingNat, Kinds
  <1>1. ASSUME state_' # "CONNECTED"
        PROVE  ConnectedHasReader'
    BY <1>1 DEF ConnectedHasReader, IsConnected
  <1>2. ASSUME Outstanding("header")' = Outstanding("header"),
               Outstanding("body")' = Outstanding("body"),
               state_' = state_, io # "loop" => io' # "loop"
        PROVE  ConnectedHasReader'
    BY <1>2 DEF ConnectedHasReader, IsConnected
  <1>3. CASE Bystander
    <2>1. \/ state_' # "CONNECTED"
          \/ state_' = state_ /\ (io # "loop" => io' # "loop")
      BY <1>3 DEF Bystander, client, NetworkConnect, FetchServers, ResolveThrows, Shutdown,
           StoreDisconnected, FrameThrows
    <2> QED
      BY <1>1, <1>2, <1>3, <2>1, BystanderOps, Kinds DEF KeepsOps
  <1>4. CASE Network
    <2>1. state_' = state_ /\ io' = io
      BY <1>4 DEF Network, client, ConnectSucceeds, ConnectFails, PeerSends, Break,
           HeaderArrives, BodyArrives, WriteCompletes, OperationFails
    <2> QED
      BY <1>2, <1>4, <2>1, NetworkOps, Kinds DEF KeepsOps
  <1>5. CASE CloseSocket
    <2>1. state_' = state_ /\ io' = io
      BY <1>5 DEF CloseSocket, client
    <2> QED
      BY <1>2, <1>5, <2>1, CloseOps, Kinds DEF KeepsOps
  <1>6. CASE CallbackDisconnect
    BY <1>1, <1>6 DEF CallbackDisconnect, network_close
  <1>7. CASE AsyncConnect
    <2>1. state_' = state_ /\ io' = io
      BY <1>7 DEF AsyncConnect, client
    <2> QED
      BY <1>2, <1>7, <2>1, AsyncConnectOps, Kinds
  <1>8. CASE AsyncSend
    <2>1. state_' = state_ /\ io' = io
      BY <1>8 DEF AsyncSend
    <2> QED
      BY <1>2, <1>8, <2>1, AsyncSendOps, Kinds
  <1>9. CASE ConnectHandlerOk
    BY <1>0, <1>9, ConnectHandlerOps DEF ConnectedHasReader
  <1>10. CASE ConnectHandlerError
    BY <1>1, <1>10 DEF ConnectHandlerError
  <1>11. CASE HeaderHandlerOk
    <2>1. CASE state_' = "DISCONNECTED"
      BY <1>1, <2>1
    <2>2. CASE Outstanding("body")' = Outstanding("body") + 1
      <3>1. Outstanding("header")' \in Nat
        <4>1. Outstanding("header") > 0
          BY <1>11, OutstandingNat, Kinds DEF HeaderHandlerOk
        <4> QED
          BY <1>0, <1>11, <4>1, HeaderHandlerOps
      <3> QED
        BY <1>0, <2>2, <3>1 DEF ConnectedHasReader
    <2> QED
      BY <1>11, <2>1, <2>2, HeaderHandlerOps
  <1>12. CASE BodyHandlerOk
    BY <1>12 DEF BodyHandlerOk, ConnectedHasReader
  <1>13. CASE FrameReturn
    BY <1>0, <1>13, BodyHandlerOps DEF ConnectedHasReader
  <1>14. ASSUME NEW k \in {"header", "body"}, ReadHandlerError(k)
         PROVE  ConnectedHasReader'
    BY <1>1, <1>14, ErrorHandlerOps, Kinds DEF ReadHandlerError, handle_disconnect
  <1>15. CASE WriteHandlerOk
    <2>1. state_' = state_ /\ io' = io
      BY <1>15 DEF WriteHandlerOk
    <2> QED
      BY <1>2, <1>15, <2>1, WriteHandlerOps, Kinds
  <1>16. CASE WriteHandlerError
    BY <1>1, <1>16, ErrorHandlerOps, Kinds DEF WriteHandlerError, handle_disconnect
  <1>17. CASE UNCHANGED vars
    BY <1>17 DEF vars, client, asio, ConnectedHasReader, IsConnected, Outstanding
  <1> QED
    BY <1>3, <1>4, <1>5, <1>6, <1>7, <1>8, <1>9, <1>10, <1>11, <1>12, <1>13,
       <1>14, <1>15, <1>16, <1>17
    DEF Next, UserThread, IoThread, Bystander

\* While state_ is CONNECTED the connection has a read outstanding or is in the
\* frame callback: no sequence of calls, failures and stale handlers leaves a
\* connection up that nobody listens to.
THEOREM ReaderCorrect == Spec => []ConnectedHasReader
  <1>1. Init => ConnectedHasReader
    BY DEF Init, ConnectedHasReader, IsConnected
  <1>2. TypeOK /\ ConnectedHasReader /\ [Next]_vars => ConnectedHasReader'
    BY ReaderStep
  <1> QED
    BY <1>1, <1>2, TypeCorrect, PTL DEF Spec

-----------------------------------------------------------------------------
(* CONNECTING is not a state to be stuck in, unless connect() threw.       *)

\* Every step keeps something under way while state_ is CONNECTING.
LEMMA ConnectingStep ==
  ASSUME TypeOK, ConnectingInProgress, [Next]_vars
  PROVE  ConnectingInProgress'
  <1>0. Outstanding("connect") \in Nat
    BY OutstandingNat, Kinds
  <1>1. ASSUME state_' # "CONNECTING"
        PROVE  ConnectingInProgress'
    BY <1>1 DEF ConnectingInProgress
  <1>2. ASSUME Outstanding("connect")' = Outstanding("connect"),
               state_' = state_, threw' = threw, ut' = ut
        PROVE  ConnectingInProgress'
    BY <1>2 DEF ConnectingInProgress
  <1>3. CASE NetworkConnect
    BY <1>3 DEF NetworkConnect, ConnectingInProgress
  <1>4. CASE FetchServers
    BY <1>4 DEF FetchServers, ConnectingInProgress
  <1>5. CASE ResolveThrows
    BY <1>5 DEF ResolveThrows, ConnectingInProgress
  <1>6. CASE AsyncConnect
    BY <1>0, <1>6, AsyncConnectOps DEF ConnectingInProgress
  <1>7. CASE Shutdown
    BY <1>1, <1>7 DEF Shutdown, IsConnected, client
  <1>8. CASE CloseSocket
    <2>1. Outstanding("connect")' = Outstanding("connect")
      BY <1>8, CloseOps, Kinds DEF KeepsOps
    <2> QED
      BY <1>8, <2>1 DEF CloseSocket, client, hist, ConnectingInProgress
  <1>9. CASE StoreDisconnected
    BY <1>1, <1>9 DEF StoreDisconnected
  <1>10. CASE FrameThrows
    <2>1. Outstanding("connect")' = Outstanding("connect")
      BY <1>10, BystanderOps, Kinds DEF KeepsOps, Bystander
    <2> QED
      BY <1>2, <1>10, <2>1 DEF FrameThrows, client, hist
  <1>11. CASE Network
    <2>1. state_' = state_ /\ threw' = threw /\ ut' = ut
      BY <1>11 DEF Network, client, hist, ConnectSucceeds, ConnectFails, PeerSends, Break,
           HeaderArrives, BodyArrives, WriteCompletes, OperationFails
    <2> QED
      BY <1>2, <1>11, <2>1, NetworkOps, Kinds DEF KeepsOps
  <1>12. CASE CallbackDisconnect
    BY <1>1, <1>12 DEF CallbackDisconnect, network_close
  <1>13. CASE AsyncSend
    <2>1. state_' = state_ /\ threw' = threw /\ ut' = ut
      BY <1>13 DEF AsyncSend, hist
    <2> QED
      BY <1>2, <1>13, <2>1, AsyncSendOps, Kinds
  <1>14. CASE ConnectHandlerOk \/ ConnectHandlerError
    BY <1>1, <1>14 DEF ConnectHandlerOk, ConnectHandlerError
  <1>15. CASE HeaderHandlerOk
    <2>1. threw' = threw /\ ut' = ut
      BY <1>15 DEF HeaderHandlerOk, hist
    <2> QED
      BY <1>1, <1>2, <1>15, <2>1, HeaderHandlerOps
  <1>16. CASE BodyHandlerOk \/ FrameReturn
    <2>1. state_' = state_ /\ threw' = threw /\ ut' = ut
      BY <1>16 DEF BodyHandlerOk, FrameReturn, client, hist
    <2> QED
      BY <1>2, <1>16, <2>1, BodyHandlerOps
  <1>17. ASSUME NEW k \in {"header", "body"}, ReadHandlerError(k)
         PROVE  ConnectingInProgress'
    BY <1>1, <1>17, ErrorHandlerOps, Kinds DEF ReadHandlerError, handle_disconnect
  <1>18. CASE WriteHandlerOk
    <2>1. state_' = state_ /\ threw' = threw /\ ut' = ut
      BY <1>18 DEF WriteHandlerOk, hist
    <2> QED
      BY <1>2, <1>18, <2>1, WriteHandlerOps, Kinds
  <1>19. CASE WriteHandlerError
    BY <1>1, <1>19, ErrorHandlerOps, Kinds DEF WriteHandlerError, handle_disconnect
  <1>20. CASE UNCHANGED vars
    BY <1>20 DEF vars, client, asio, hist, ConnectingInProgress, Outstanding
  <1> QED
    BY <1>3, <1>4, <1>5, <1>6, <1>7, <1>8, <1>9, <1>10, <1>11, <1>12, <1>13,
       <1>14, <1>15, <1>16, <1>17, <1>18, <1>19, <1>20
    DEF Next, UserThread, IoThread

\* CONNECTING means a connect() call is running or an async_connect is
\* outstanding, unless some connect() has thrown.
THEOREM ConnectingCorrect == Spec => []ConnectingInProgress
  <1>1. Init => ConnectingInProgress
    BY DEF Init, ConnectingInProgress
  <1>2. TypeOK /\ ConnectingInProgress /\ [Next]_vars => ConnectingInProgress'
    BY ConnectingStep
  <1> QED
    BY <1>1, <1>2, TypeCorrect, PTL DEF Spec

-----------------------------------------------------------------------------
(* One read chain, for an application that reconnects only when drained.   *)

InCallback == IF io = "loop" THEN 0 ELSE 1
InConnect  == IF ut \in {"fetching", "resolving"} THEN 1 ELSE 0

\* Every step hands the chain on, or ends it.
LEMMA ChainStep ==
  ASSUME TypeOK, SingleReadChain, [Next]_vars, ~EagerReconnect
  PROVE  ReadChain' <= 1
  <1>0. /\ Outstanding("connect") \in Nat
        /\ Outstanding("header") \in Nat
        /\ Outstanding("body") \in Nat
        /\ ReadChain = Outstanding("connect") + Outstanding("header")
                       + Outstanding("body") + InCallback + InConnect
        /\ ReadChain' = Outstanding("connect")' + Outstanding("header")'
                        + Outstanding("body")' + InCallback' + InConnect'
        /\ InCallback \in Nat /\ InConnect \in Nat
        /\ InCallback' \in Nat /\ InConnect' \in Nat
        /\ ReadChain <= 1
    BY OutstandingNat, Kinds
       DEF SingleReadChain, ReadChain, InCallback, InConnect
  <1>1. ASSUME Outstanding("connect")' = Outstanding("connect"),
               Outstanding("header")' = Outstanding("header"),
               Outstanding("body")' = Outstanding("body"),
               InCallback' = InCallback, InConnect' <= InConnect
        PROVE  ReadChain' <= 1
    BY <1>0, <1>1
  <1>2. CASE NetworkConnect
    <2>1. /\ \A k \in OpKind : Outstanding(k) = 0
          /\ InCallback = 0
      BY <1>2 DEF NetworkConnect, Drained, InCallback
    <2>2. InCallback' = 0 /\ InConnect' = 1
      BY <1>2, <2>1 DEF NetworkConnect, Drained, InCallback, InConnect
    <2>3. KeepsOps
      BY <1>2, BystanderOps DEF Bystander
    <2> QED
      BY <1>0, <2>1, <2>2, <2>3, Kinds DEF KeepsOps
  <1>3. CASE FetchServers \/ ResolveThrows \/ Shutdown \/ StoreDisconnected
             \/ FrameThrows
    <2>1. InCallback' = InCallback /\ InConnect' <= InConnect
      <3>1. CASE FetchServers
        BY <3>1 DEF FetchServers, InCallback, InConnect
      <3>2. CASE ResolveThrows \/ Shutdown \/ StoreDisconnected \/ FrameThrows
        BY <3>2 DEF ResolveThrows, Shutdown, StoreDisconnected, FrameThrows,
                    InCallback, InConnect
      <3> QED
        BY <1>3, <3>1, <3>2
    <2>2. KeepsOps
      BY <1>3, BystanderOps DEF Bystander
    <2> QED
      BY <1>1, <2>1, <2>2, Kinds DEF KeepsOps
  <1>4. CASE Network
    <2>1. InCallback' = InCallback /\ InConnect' = InConnect
      BY <1>4 DEF Network, InCallback, InConnect, ConnectSucceeds, ConnectFails, PeerSends, Break,
           HeaderArrives, BodyArrives, WriteCompletes, OperationFails
    <2> QED
      BY <1>0, <1>1, <1>4, <2>1, NetworkOps, Kinds DEF KeepsOps
  <1>5. CASE CloseSocket \/ CallbackDisconnect
    <2>1. InCallback' = InCallback /\ InConnect' <= InConnect
      BY <1>5 DEF CloseSocket, CallbackDisconnect, InCallback, InConnect
    <2> QED
      BY <1>1, <1>5, <2>1, CloseOps, Kinds DEF KeepsOps
  <1>6. CASE AsyncConnect
    <2>1. InCallback' = InCallback /\ InConnect = 1 /\ InConnect' = 0
      BY <1>6 DEF AsyncConnect, InCallback, InConnect
    <2> QED
      BY <1>0, <1>6, <2>1, AsyncConnectOps, Kinds
  <1>7. CASE AsyncSend
    <2>1. InCallback' = InCallback /\ InConnect' = InConnect
      BY <1>7 DEF AsyncSend, InCallback, InConnect
    <2> QED
      BY <1>0, <1>1, <1>7, <2>1, AsyncSendOps, Kinds
  <1>8. CASE ConnectHandlerOk \/ ConnectHandlerError
    <2>1. InCallback' = InCallback /\ InConnect' = InConnect
      BY <1>8 DEF ConnectHandlerOk, ConnectHandlerError, InCallback, InConnect
    <2> QED
      BY <1>0, <1>8, <2>1, ConnectHandlerOps
  <1>9. CASE HeaderHandlerOk
    <2>1. InCallback' = InCallback /\ InConnect' = InConnect
      BY <1>9 DEF HeaderHandlerOk, InCallback, InConnect
    <2> QED
      BY <1>0, <1>9, <2>1, HeaderHandlerOps
  <1>10. CASE BodyHandlerOk
    <2>1. InCallback = 0 /\ InCallback' = 1 /\ InConnect' = InConnect
      BY <1>10 DEF BodyHandlerOk, InCallback, InConnect
    <2> QED
      BY <1>0, <1>10, <2>1, BodyHandlerOps
  <1>11. CASE FrameReturn
    <2>1. InCallback = 1 /\ InCallback' = 0 /\ InConnect' = InConnect
      BY <1>11 DEF FrameReturn, InCallback, InConnect
    <2> QED
      BY <1>0, <1>11, <2>1, BodyHandlerOps
  <1>12. ASSUME NEW k \in {"header", "body"}, ReadHandlerError(k)
         PROVE  ReadChain' <= 1
    <2>1. InCallback' = InCallback /\ InConnect' = InConnect
      BY <1>12 DEF ReadHandlerError, InCallback, InConnect
    <2>2. /\ Outstanding(k)' = Outstanding(k) - 1
          /\ \A i \in OpKind : i # k => Outstanding(i)' = Outstanding(i)
      BY <1>12, ErrorHandlerOps, Kinds DEF ReadHandlerError, handle_disconnect
    <2>3. CASE k = "header"
      BY <1>0, <2>1, <2>2, <2>3, Kinds
    <2>4. CASE k = "body"
      BY <1>0, <2>1, <2>2, <2>4, Kinds
    <2> QED
      BY <2>3, <2>4
  <1>13. CASE WriteHandlerOk
    <2>1. InCallback' = InCallback /\ InConnect' = InConnect
      BY <1>13 DEF WriteHandlerOk, InCallback, InConnect
    <2> QED
      BY <1>0, <1>1, <1>13, <2>1, WriteHandlerOps, Kinds
  <1>14. CASE WriteHandlerError
    <2>1. InCallback' = InCallback /\ InConnect' = InConnect
      BY <1>14 DEF WriteHandlerError, InCallback, InConnect
    <2>2. \A i \in OpKind : i # "write" => Outstanding(i)' = Outstanding(i)
      BY <1>14, ErrorHandlerOps, Kinds DEF WriteHandlerError, handle_disconnect
    <2> QED
      BY <1>0, <1>1, <2>1, <2>2, Kinds
  <1>15. CASE UNCHANGED vars
    <2>1. ReadChain' = ReadChain
      BY <1>15 DEF vars, asio, ReadChain, Outstanding
    <2> QED
      BY <1>0, <2>1
  <1> QED
    BY <1>2, <1>3, <1>4, <1>5, <1>6, <1>7, <1>8, <1>9, <1>10, <1>11, <1>12,
       <1>13, <1>14, <1>15
    DEF Next, UserThread, IoThread

\* For an application that lets the handlers of a connection run before it
\* connects again, header_buffer_ and body_buffer_ are never shared by two
\* reads, and the frame callback never overlaps a read.
THEOREM ChainCorrect == Spec => []SingleReadChain
  <1>1. Init => SingleReadChain
    <2> SUFFICES ASSUME Init PROVE ReadChain = 0
      BY DEF SingleReadChain
    <2>1. \A k \in OpKind : NoOps[k] = 0
      BY DEF NoOps
    <2>2. \A k \in OpKind : Outstanding(k) = 0
      BY <2>1 DEF Init, Outstanding
    <2> QED
      BY <2>2, Kinds DEF Init, ReadChain
  <1>2. TypeOK /\ SingleReadChain /\ [Next]_vars => SingleReadChain'
    BY ChainStep DEF SingleReadChain
  <1> QED
    BY <1>1, <1>2, TypeCorrect, PTL DEF Spec
=============================================================================
