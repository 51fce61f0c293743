----------------------------- MODULE TCPConnection -----------------------------
(***************************************************************************)
(* The TCP transport of the client (src/network/connection/tcp.cpp), with  *)
(* the two threads that touch it and the part of Boost.Asio it relies on.  *)
(*                                                                         *)
(*   - the io thread runs io_context::run(): it executes one completion    *)
(*     handler at a time, and the frame callback inside the body handler;  *)
(*   - the user thread calls connect() and disconnect() (SteamClient), and *)
(*     holds no lock while it does;                                        *)
(*   - an asynchronous operation is started by one step and its handler    *)
(*     runs in another, whatever happened to the connection in between.    *)
(*                                                                         *)
(* Operations are counted, per kind, by what has become of them: waiting   *)
(* for the socket, or completed (succeeded / failed) with the handler      *)
(* still queued in the io_context.                                         *)
(***************************************************************************)
EXTENDS Integers, Sequences

CONSTANTS
  MaxConnects,     \* bound: calls of network_connect() that leave DISCONNECTED
  MaxSends,        \* bound: calls of async_send()
  MaxPeerFrames,   \* bound: frames the server sends on one connection
  EagerReconnect   \* TRUE: the application may connect() again before the
                   \* handlers of the previous connection have run

ASSUME BoundsAssumption ==
  /\ MaxConnects \in Nat
  /\ MaxSends \in Nat
  /\ MaxPeerFrames \in Nat

ASSUME EagerAssumption == EagerReconnect \in BOOLEAN

VARIABLES
  state_,          \* ConnectionState
  servers_,        \* CMFetcher: is the cached server list non-empty?
  header_buffer_,  \* what the last header read left: its magic
  body_buffer_,    \* the frame the last body read left
  write_queue_,    \* frames pushed by async_send and not popped yet
  socket_,         \* the asio socket
  waiting,         \* operations in the reactor, per kind
  succeeded,       \* operations completed without error, handler not run yet
  failed,          \* operations completed with an error, handler not run yet
  inbound,         \* frames the server sent and the client has not read
  align,           \* where in `inbound` the next read starts
  ut,              \* where the user thread is
  io,              \* where the io thread is
  connects,        \* number of the current (or last) connection attempt
  sends,           \* calls of async_send so far
  peerSent,        \* frames the server sent on this connection
  threw,           \* history: network_connect() has thrown
  wfailed,         \* history: a write handler has run with an error
  delivered,       \* history: frames given to on_frame_
  late,            \* history: frames given to on_frame_ since the last close
  outbound         \* history: frames written to a socket, with the connection

client == <<state_, servers_, header_buffer_, body_buffer_, write_queue_>>
asio   == <<socket_, waiting, succeeded, failed, inbound, align>>
hist   == <<threw, wfailed, delivered, late, outbound>>
vars   == <<client, asio, ut, io, connects, sends, peerSent, hist>>

OpKind == {"connect", "header", "body", "write"}
NoOps  == [k \in OpKind |-> 0]

\* A frame read from a connection: the connection it came from and its place
\* in what the server sent there. Place 0 is a frame with the wrong magic;
\* Garbage stands for bytes that are no frame of the server at all.
Frame   == [conn : 0 .. MaxConnects, n : 0 .. MaxPeerFrames]
Garbage == [conn |-> 0, n |-> 0]

\* A frame queued by async_send: the connection attempt it was meant for.
Packet == [conn : 0 .. MaxConnects, id : 1 .. MaxSends]

TypeOK ==
  /\ state_ \in {"DISCONNECTED", "CONNECTING", "CONNECTED"}
  /\ servers_ \in BOOLEAN
  /\ header_buffer_ \in {"none", "valid", "bad"}
  /\ body_buffer_ \in Frame
  /\ write_queue_ \in Seq(Packet)
  /\ socket_ \in {"closed", "connecting", "connected", "broken"}
  /\ waiting \in [OpKind -> Nat]
  /\ succeeded \in [OpKind -> Nat]
  /\ failed \in [OpKind -> Nat]
  /\ inbound \in Seq(Frame)
  /\ align \in {"hdr", "body", "skew"}
  /\ ut \in {"idle", "fetching", "resolving", "closing", "storing"}
  /\ io \in {"loop", "on_frame", "terminated"}
  /\ connects \in 0 .. MaxConnects
  /\ sends \in 0 .. MaxSends
  /\ peerSent \in 0 .. MaxPeerFrames
  /\ threw \in BOOLEAN
  /\ wfailed \in BOOLEAN
  /\ delivered \in Seq(Frame)
  /\ late \in Nat
  /\ outbound \in Seq([packet : Packet, via : 0 .. MaxConnects])

\* tcp.hpp: the members' initial values; nothing has been started.
Init ==
  /\ state_ = "DISCONNECTED"
  /\ servers_ = FALSE
  /\ header_buffer_ = "none"
  /\ body_buffer_ = Garbage
  /\ write_queue_ = << >>
  /\ socket_ = "closed"
  /\ waiting = NoOps
  /\ succeeded = NoOps
  /\ failed = NoOps
  /\ inbound = << >>
  /\ align = "hdr"
  /\ ut = "idle"
  /\ io = "loop"
  /\ connects = 0
  /\ sends = 0
  /\ peerSent = 0
  /\ threw = FALSE
  /\ wfailed = FALSE
  /\ delivered = << >>
  /\ late = 0
  /\ outbound = << >>

-----------------------------------------------------------------------------
(* The operations of the connection that several handlers share.           *)

Inc(f, k) == [f EXCEPT ![k] = @ + 1]
Dec(f, k) == [f EXCEPT ![k] = @ - 1]

Outstanding(k) == waiting[k] + succeeded[k] + failed[k]

\* Read operations that could take bytes off the socket now.
Readers == waiting["header"] + waiting["body"]

\* Nothing of an earlier connection is left: no handler is queued or running.
Drained ==
  /\ io = "loop"
  /\ ut = "idle"
  /\ \A k \in OpKind : Outstanding(k) = 0

\* is_connected()
IsConnected == state_ = "CONNECTED"

\* socket_.close(ec): every waiting operation is completed with
\* operation_aborted. The composed async_connect looks at is_open() before it
\* reports success, so a connect that had succeeded is reported as aborted too.
\* s, f: the succeeded and failed operations before the call.
SocketClose(s, f) ==
  /\ socket_' = "closed"
  /\ waiting' = NoOps
  /\ succeeded' = [s EXCEPT !["connect"] = 0]
  /\ failed' = [k \in OpKind |->
                  f[k] + waiting[k] + IF k = "connect" THEN s[k] ELSE 0]
  /\ inbound' = << >>
  /\ align' = "hdr"

\* Starting an asynchronous operation: on a closed socket it completes at once
\* with bad_descriptor, otherwise it waits in the reactor.
AsyncStart(k, f) ==
  IF socket_ = "closed"
    THEN failed' = Inc(f, k) /\ UNCHANGED waiting
    ELSE waiting' = Inc(waiting, k) /\ failed' = f

\* Mutant: network_close() stores DISCONNECTED and leaves the socket open.
network_close_LeavesOpen(s, f) ==
  /\ state_' = "DISCONNECTED"
  /\ succeeded' = s
  /\ failed' = f
  /\ UNCHANGED <<socket_, waiting, inbound, align>>

\* TCPConnection::network_close(), as a handler runs it.
network_close(s, f) ==
  IF state_ = "DISCONNECTED"
    THEN /\ succeeded' = s
         /\ failed' = f
         /\ UNCHANGED <<state_, socket_, waiting, inbound, align>>
    ELSE /\ SocketClose(s, f)
         /\ state_' = "DISCONNECTED"

\* handle_disconnect(): logs, then network_close().
handle_disconnect(s, f) == network_close(s, f)

start_read_header(s, f) ==
  /\ AsyncStart("header", f)
  /\ succeeded' = s
  /\ UNCHANGED <<socket_, inbound, align>>

\* body_buffer_.resize(len) and async_read of the body.
start_read_body(s, f) ==
  /\ AsyncStart("body", f)
  /\ succeeded' = s
  /\ UNCHANGED <<socket_, inbound, align>>

do_write(s, f) ==
  /\ AsyncStart("write", f)
  /\ succeeded' = s
  /\ UNCHANGED <<socket_, inbound, align>>

-----------------------------------------------------------------------------
(* The user thread: connect() and disconnect().                            *)

\* Mutant: state_ = CONNECTING is missing.
NetworkConnect_NoStore ==
  /\ io # "terminated"
  /\ ut = "idle"
  /\ connects < MaxConnects
  /\ state_ = "DISCONNECTED"
  /\ EagerReconnect \/ Drained
  /\ ut' = "fetching"
  /\ connects' = connects + 1
  /\ late' = 0
  /\ UNCHANGED <<client, asio, io, sends, peerSent, threw, wfailed, delivered,
                 outbound>>

\* network_connect(): past the early return, up to the HTTP request.
NetworkConnect ==
  /\ io # "terminated"
  /\ ut = "idle"
  /\ connects < MaxConnects
  /\ state_ = "DISCONNECTED"
  /\ EagerReconnect \/ Drained
  /\ state_' = "CONNECTING"
  /\ ut' = "fetching"
  /\ connects' = connects + 1
  /\ late' = 0
  /\ UNCHANGED <<servers_, header_buffer_, body_buffer_, write_queue_, asio,
                 io, sends, peerSent, threw, wfailed, delivered, outbound>>

\* fetch_cm_servers() and get_servers(): an unreachable or unparsable directory
\* keeps the cached list, a parsed answer replaces it; an empty list throws,
\* and so does a port std::stoi cannot read, with the list half filled.
FetchServers ==
  /\ io # "terminated"
  /\ ut = "fetching"
  /\ \/ /\ servers_' \in {servers_, TRUE, FALSE}
        /\ ut' = IF servers_' THEN "resolving" ELSE "idle"
        /\ threw' = (threw \/ ~servers_')
     \/ /\ servers_' \in BOOLEAN
        /\ ut' = "idle"
        /\ threw' = TRUE
  /\ UNCHANGED <<state_, header_buffer_, body_buffer_, write_queue_, asio, io,
                 connects, sends, peerSent, wfailed, delivered, late, outbound>>

\* resolver.resolve() throws.
ResolveThrows ==
  /\ io # "terminated"
  /\ ut = "resolving"
  /\ ut' = "idle"
  /\ threw' = TRUE
  /\ UNCHANGED <<client, asio, io, connects, sends, peerSent,
                 wfailed, delivered, late, outbound>>

\* asio::async_connect: closes the socket, opens it again and starts connecting.
AsyncConnect ==
  /\ io # "terminated"
  /\ ut = "resolving"
  /\ ut' = "idle"
  /\ socket_' = "connecting"
  /\ waiting' = Inc(NoOps, "connect")
  /\ failed' = [k \in OpKind |-> failed[k] + waiting[k]
                                 + IF k = "connect" THEN succeeded[k] ELSE 0]
  /\ succeeded' = [succeeded EXCEPT !["connect"] = 0]
  /\ inbound' = << >>
  /\ align' = "hdr"
  /\ UNCHANGED <<client, io, connects, sends, peerSent, hist>>

\* disconnect() -> CMClient::shutdown(): nothing happens unless CONNECTED.
Shutdown ==
  /\ io # "terminated"
  /\ ut = "idle"
  /\ IsConnected
  /\ ut' = "closing"
  /\ UNCHANGED <<client, asio, io, connects, sends, peerSent, hist>>

\* Mutant: disconnect() forgets socket_.close().
CloseSocket_NoClose ==
  /\ io # "terminated"
  /\ ut = "closing"
  /\ ut' = IF state_ = "DISCONNECTED" THEN "idle" ELSE "storing"
  /\ UNCHANGED <<client, asio, io, connects, sends, peerSent, hist>>

\* network_close() on the user thread, first part: the test and the close.
CloseSocket ==
  /\ io # "terminated"
  /\ ut = "closing"
  /\ IF state_ = "DISCONNECTED"
       THEN ut' = "idle" /\ UNCHANGED asio
       ELSE ut' = "storing" /\ SocketClose(succeeded, failed)
  /\ UNCHANGED <<client, io, connects, sends, peerSent, hist>>

\* network_close() on the user thread, second part: the store to state_.
StoreDisconnected ==
  /\ io # "terminated"
  /\ ut = "storing"
  /\ state_' = "DISCONNECTED"
  /\ ut' = "idle"
  /\ UNCHANGED <<servers_, header_buffer_, body_buffer_, write_queue_, asio,
                 io, connects, sends, peerSent, hist>>

\* Mutant: async_send() calls do_write() whether or not a write is in progress.
AsyncSend_AlwaysWrites ==
  /\ io = "on_frame" \/ (io = "loop" /\ ut = "idle")
  /\ sends < MaxSends
  /\ sends' = sends + 1
  /\ write_queue_' = Append(write_queue_, [conn |-> connects, id |-> sends + 1])
  /\ do_write(succeeded, failed)
  /\ UNCHANGED <<state_, servers_, header_buffer_, body_buffer_, ut, io,
                 connects, peerSent, hist>>

\* async_send(), from the frame callback or from an idle user thread.
AsyncSend ==
  /\ io = "on_frame" \/ (io = "loop" /\ ut = "idle")
  /\ sends < MaxSends
  /\ sends' = sends + 1
  /\ write_queue_' = Append(write_queue_, [conn |-> connects, id |-> sends + 1])
  /\ IF write_queue_ = << >>
       THEN do_write(succeeded, failed)
       ELSE UNCHANGED asio
  /\ UNCHANGED <<state_, servers_, header_buffer_, body_buffer_, ut, io,
                 connects, peerSent, hist>>

-----------------------------------------------------------------------------
(* The io thread: completion handlers.                                     *)

\* Mutant: a new connection starts the write of a frame that was left in
\* write_queue_, as if no handler of the last connection could still pop it.
ConnectHandlerOk_ResumesWrites ==
  /\ io = "loop"
  /\ succeeded["connect"] > 0
  /\ state_' = "CONNECTED"
  /\ succeeded' = Dec(succeeded, "connect")
  /\ LET leftover == write_queue_ # << >> /\ Head(write_queue_).conn # connects
         start(f) == IF leftover THEN Inc(Inc(f, "header"), "write")
                                 ELSE Inc(f, "header")
     IN  IF socket_ = "closed"
           THEN failed' = start(failed) /\ UNCHANGED waiting
           ELSE waiting' = start(waiting) /\ UNCHANGED failed
  /\ UNCHANGED <<servers_, header_buffer_, body_buffer_, write_queue_, socket_,
                 inbound, align, ut, io, connects, sends, peerSent, hist>>

ConnectHandlerOk ==
  /\ io = "loop"
  /\ succeeded["connect"] > 0
  /\ state_' = "CONNECTED"
  /\ start_read_header(Dec(succeeded, "connect"), failed)
  /\ UNCHANGED <<servers_, header_buffer_, body_buffer_, write_queue_, ut, io,
                 connects, sends, peerSent, hist>>

\* Mutant: a failed connect leaves state_ alone.
ConnectHandlerError_NoStore ==
  /\ io = "loop"
  /\ failed["connect"] > 0
  /\ failed' = Dec(failed, "connect")
  /\ UNCHANGED <<client, socket_, waiting, succeeded, inbound, align, ut, io,
                 connects, sends, peerSent, hist>>

ConnectHandlerError ==
  /\ io = "loop"
  /\ failed["connect"] > 0
  /\ state_' = "DISCONNECTED"
  /\ failed' = Dec(failed, "connect")
  /\ UNCHANGED <<servers_, header_buffer_, body_buffer_, write_queue_, socket_,
                 waiting, succeeded, inbound, align, ut, io,
                 connects, sends, peerSent, hist>>

\* Mutant: the header handler does not look at the error code.
HeaderHandlerOk_IgnoresError ==
  /\ io = "loop"
  /\ Outstanding("header") > waiting["header"]
  /\ IF header_buffer_ = "valid"
       THEN /\ start_read_body(Dec(succeeded, "header"), failed)
            /\ UNCHANGED state_
       ELSE handle_disconnect(Dec(succeeded, "header"), failed)
  /\ UNCHANGED <<servers_, header_buffer_, body_buffer_, write_queue_, ut, io,
                 connects, sends, peerSent, hist>>

\* Mutant: the magic is not validated.
HeaderHandlerOk_AnyMagic ==
  /\ io = "loop"
  /\ succeeded["header"] > 0
  /\ start_read_body(Dec(succeeded, "header"), failed)
  /\ UNCHANGED <<client, ut, io, connects, sends, peerSent, hist>>

HeaderHandlerOk ==
  /\ io = "loop"
  /\ succeeded["header"] > 0
  /\ IF header_buffer_ = "valid"
       THEN /\ start_read_body(Dec(succeeded, "header"), failed)
            /\ UNCHANGED state_
       ELSE handle_disconnect(Dec(succeeded, "header"), failed)
  /\ UNCHANGED <<servers_, header_buffer_, body_buffer_, write_queue_, ut, io,
                 connects, sends, peerSent, hist>>

\* A read handler that finds an error code.
ReadHandlerError(k) ==
  /\ io = "loop"
  /\ failed[k] > 0
  /\ handle_disconnect(succeeded, Dec(failed, k))
  /\ UNCHANGED <<servers_, header_buffer_, body_buffer_, write_queue_, ut, io,
                 connects, sends, peerSent, hist>>

\* Mutant: the next header is read before on_frame_ is called.
BodyHandlerOk_ReadsFirst ==
  /\ io = "loop"
  /\ succeeded["body"] > 0
  /\ io' = "on_frame"
  /\ start_read_header(Dec(succeeded, "body"), failed)
  /\ delivered' = Append(delivered, body_buffer_)
  /\ late' = IF state_ = "DISCONNECTED" THEN late + 1 ELSE late
  /\ UNCHANGED <<client, ut, connects, sends, peerSent, threw, wfailed, outbound>>

\* The body handler calls on_frame_ with a copy of body_buffer_ ...
BodyHandlerOk ==
  /\ io = "loop"
  /\ succeeded["body"] > 0
  /\ io' = "on_frame"
  /\ succeeded' = Dec(succeeded, "body")
  /\ delivered' = Append(delivered, body_buffer_)
  /\ late' = IF state_ = "DISCONNECTED" THEN late + 1 ELSE late
  /\ UNCHANGED <<client, socket_, waiting, failed, inbound, align, ut,
                 connects, sends, peerSent, threw, wfailed, outbound>>

\* Mutant: the body handler ends without reading the next header.
FrameReturn_NoRead ==
  /\ io = "on_frame"
  /\ io' = "loop"
  /\ UNCHANGED <<client, asio, ut, connects, sends, peerSent, hist>>

\* ... and reads the next header once the callback has returned.
FrameReturn ==
  /\ io = "on_frame"
  /\ io' = "loop"
  /\ start_read_header(succeeded, failed)
  /\ UNCHANGED <<client, ut, connects, sends, peerSent, hist>>

\* The callback throws: the exception leaves io_context::run() on a thread that
\* does not catch it, and the process ends.
FrameThrows ==
  /\ io = "on_frame"
  /\ io' = "terminated"
  /\ UNCHANGED <<client, asio, ut, connects, sends, peerSent, hist>>

\* disconnect() called from inside the frame callback.
CallbackDisconnect ==
  /\ io = "on_frame"
  /\ IsConnected
  /\ network_close(succeeded, failed)
  /\ UNCHANGED <<servers_, header_buffer_, body_buffer_, write_queue_, ut, io,
                 connects, sends, peerSent, hist>>

\* Mutant: pop_front() is missing.
WriteHandlerOk_NoPop ==
  /\ io = "loop"
  /\ succeeded["write"] > 0
  /\ do_write(Dec(succeeded, "write"), failed)
  /\ UNCHANGED <<client, ut, io, connects, sends, peerSent, hist>>

\* Mutant: the handler does not go on with the next frame.
WriteHandlerOk_NoNext ==
  /\ io = "loop"
  /\ succeeded["write"] > 0
  /\ write_queue_' = Tail(write_queue_)
  /\ succeeded' = Dec(succeeded, "write")
  /\ UNCHANGED <<state_, servers_, header_buffer_, body_buffer_, socket_,
                 waiting, failed, inbound, align, ut, io, connects, sends,
                 peerSent, hist>>

WriteHandlerOk ==
  /\ io = "loop"
  /\ succeeded["write"] > 0
  /\ write_queue_' = Tail(write_queue_)
  /\ IF write_queue_' # << >>
       THEN do_write(Dec(succeeded, "write"), failed)
       ELSE /\ succeeded' = Dec(succeeded, "write")
            /\ UNCHANGED <<socket_, waiting, failed, inbound, align>>
  /\ UNCHANGED <<state_, servers_, header_buffer_, body_buffer_, ut, io,
                 connects, sends, peerSent, hist>>

\* On an error the queue keeps its front.
WriteHandlerError ==
  /\ io = "loop"
  /\ failed["write"] > 0
  /\ handle_disconnect(succeeded, Dec(failed, "write"))
  /\ wfailed' = TRUE
  /\ UNCHANGED <<servers_, header_buffer_, body_buffer_, write_queue_, ut, io,
                 connects, sends, peerSent, threw, delivered, late, outbound>>

-----------------------------------------------------------------------------
(* The network and the reactor (Boost.Asio, the kernel, the CM server).    *)

ConnectSucceeds ==
  /\ io # "terminated"
  /\ socket_ = "connecting"
  /\ waiting["connect"] > 0
  /\ socket_' = "connected"
  /\ waiting' = Dec(waiting, "connect")
  /\ succeeded' = Inc(succeeded, "connect")
  /\ peerSent' = 0
  /\ UNCHANGED <<client, failed, inbound, align, ut, io, connects, sends, hist>>

\* Every endpoint refused or timed out. The descriptor that is left never was
\* connected: an operation on it fails as on a closed socket.
ConnectFails ==
  /\ io # "terminated"
  /\ socket_ = "connecting"
  /\ waiting["connect"] > 0
  /\ SocketClose(succeeded, failed)
  /\ UNCHANGED <<client, ut, io, connects, sends, peerSent, hist>>

\* The server sends its next frame, or one that does not start with VT01.
PeerSends ==
  /\ io # "terminated"
  /\ socket_ = "connected"
  /\ peerSent < MaxPeerFrames
  /\ peerSent' = peerSent + 1
  /\ \E n \in {0, peerSent + 1} :
       inbound' = Append(inbound, [conn |-> connects, n |-> n])
  /\ UNCHANGED <<client, socket_, waiting, succeeded, failed, align, ut, io,
                 connects, sends, hist>>

\* The server or the network ends the connection; what was received before
\* can still be read.
Break ==
  /\ io # "terminated"
  /\ socket_ = "connected"
  /\ socket_' = "broken"
  /\ UNCHANGED <<client, waiting, succeeded, failed, inbound, align, ut, io,
                 connects, sends, peerSent, hist>>

\* A header read completes. Two reads waiting on one socket split its bytes
\* between them: from then on no read starts at a frame boundary.
HeaderArrives ==
  /\ io # "terminated"
  /\ socket_ \in {"connected", "broken"}
  /\ waiting["header"] > 0
  /\ inbound # << >>
  /\ waiting' = Dec(waiting, "header")
  /\ succeeded' = Inc(succeeded, "header")
  /\ IF align = "hdr" /\ Readers = 1
       THEN /\ header_buffer_' = IF Head(inbound).n = 0 THEN "bad" ELSE "valid"
            /\ align' = "body"
       ELSE /\ header_buffer_' \in {"valid", "bad"}
            /\ align' = "skew"
  /\ UNCHANGED <<state_, servers_, body_buffer_, write_queue_, socket_, failed,
                 inbound, ut, io, connects, sends, peerSent, hist>>

BodyArrives ==
  /\ io # "terminated"
  /\ socket_ \in {"connected", "broken"}
  /\ waiting["body"] > 0
  /\ inbound # << >>
  /\ waiting' = Dec(waiting, "body")
  /\ succeeded' = Inc(succeeded, "body")
  /\ inbound' = Tail(inbound)
  /\ IF align = "body" /\ Readers = 1
       THEN body_buffer_' = Head(inbound) /\ align' = "hdr"
       ELSE body_buffer_' = Garbage /\ align' = "skew"
  /\ UNCHANGED <<state_, servers_, header_buffer_, write_queue_, socket_,
                 failed, ut, io, connects, sends, peerSent, hist>>

\* A write completes: its frame is the front of write_queue_.
WriteCompletes ==
  /\ io # "terminated"
  /\ socket_ \in {"connected", "broken"}
  /\ waiting["write"] > 0
  /\ waiting' = Dec(waiting, "write")
  /\ succeeded' = Inc(succeeded, "write")
  /\ outbound' = Append(outbound,
                        [packet |-> Head(write_queue_), via |-> connects])
  /\ UNCHANGED <<client, socket_, failed, inbound, align, ut, io, connects,
                 sends, peerSent, threw, wfailed, delivered, late>>

\* An operation waiting on a broken connection completes with an error.
OperationFails(k) ==
  /\ io # "terminated"
  /\ socket_ = "broken"
  /\ waiting[k] > 0
  /\ waiting' = Dec(waiting, k)
  /\ failed' = Inc(failed, k)
  /\ UNCHANGED <<client, socket_, succeeded, inbound, align, ut, io, connects,
                 sends, peerSent, hist>>

-----------------------------------------------------------------------------
UserThread ==
  \/ NetworkConnect \/ FetchServers \/ ResolveThrows \/ AsyncConnect
  \/ Shutdown \/ CloseSocket \/ StoreDisconnected \/ AsyncSend

IoThread ==
  \/ ConnectHandlerOk \/ ConnectHandlerError
  \/ HeaderHandlerOk \/ BodyHandlerOk \/ FrameReturn \/ FrameThrows
  \/ CallbackDisconnect
  \/ \E k \in {"header", "body"} : ReadHandlerError(k)
  \/ WriteHandlerOk \/ WriteHandlerError

Network ==
  \/ ConnectSucceeds \/ ConnectFails \/ PeerSends \/ Break
  \/ HeaderArrives \/ BodyArrives \/ WriteCompletes
  \/ \E k \in {"header", "body", "write"} : OperationFails(k)

Next == UserThread \/ IoThread \/ Network

Spec == Init /\ [][Next]_vars

\* The io thread runs every queued handler and the frame callback returns; a
\* user-thread call that has begun goes on (curl gives up after 5 s, the
\* resolver and the kernel's connect time out on their own); the reactor reports
\* what the kernel knows; the server keeps reading what it is sent. Nothing
\* makes the application connect, disconnect or send, or the server answer.
Fairness ==
  /\ WF_vars(ConnectHandlerOk) /\ WF_vars(ConnectHandlerError)
  /\ WF_vars(HeaderHandlerOk) /\ WF_vars(BodyHandlerOk)
  /\ \A k \in {"header", "body"} : WF_vars(ReadHandlerError(k))
  /\ WF_vars(FrameReturn)
  /\ WF_vars(WriteHandlerOk) /\ WF_vars(WriteHandlerError)
  /\ WF_vars(FetchServers) /\ WF_vars(ResolveThrows \/ AsyncConnect)
  /\ WF_vars(CloseSocket) /\ WF_vars(StoreDisconnected)
  /\ WF_vars(ConnectSucceeds \/ ConnectFails)
  /\ WF_vars(WriteCompletes)
  /\ \A k \in {"header", "body", "write"} : WF_vars(OperationFails(k))

FairSpec == Spec /\ Fairness

-----------------------------------------------------------------------------
(* Properties that hold however soon the application reconnects.           *)

\* async_send/do_write: at most one async_write is outstanding, and exactly one
\* while frames are queued, until the first write that fails; that one leaves
\* its frame queued, so no later async_send ever starts a write again.
OneWriter ==
  /\ Outstanding("write") = IF write_queue_ = << >> \/ wfailed THEN 0 ELSE 1
  /\ wfailed => write_queue_ # << >>

\* async_send / do_write: the n-th frame that is written is that of the n-th call,
\* so none is written twice, left out or overtaken - also when the handler of a
\* write that completed before a close runs on the next connection, where it
\* pops its frame and goes on with the queue.
WrittenInTurn == \A n \in 1 .. Len(outbound) : outbound[n].packet.id = n

\* The read loop: while state_ is CONNECTED some read operation is outstanding
\* or the frame callback is running, so the end of the connection is noticed
\* even if nothing is ever sent on it.
ConnectedHasReader ==
  IsConnected => \/ Outstanding("header") + Outstanding("body") > 0
                 \/ io # "loop"

\* network_connect: CONNECTING means that connect() is still running or that
\* an async_connect is outstanding - or that connect() once threw.
ConnectingInProgress ==
  state_ = "CONNECTING" => \/ ut \in {"fetching", "resolving"}
                           \/ Outstanding("connect") > 0
                           \/ threw

-----------------------------------------------------------------------------
(* Properties of an application that lets the handlers of one connection   *)
(* run before it connects again (EagerReconnect = FALSE).                  *)

ReadChain ==
  Outstanding("connect") + Outstanding("header") + Outstanding("body")
    + (IF io = "loop" THEN 0 ELSE 1)
    + (IF ut \in {"fetching", "resolving"} THEN 1 ELSE 0)

\* start_read_header/start_read_body: connecting, reading a header, reading a
\* body and the frame callback follow one another; header_buffer_ and
\* body_buffer_ are never the target of two reads.
SingleReadChain == ~EagerReconnect => ReadChain <= 1

\* set_on_frame: on_frame_ gets, per connection, a gap-free prefix of what the
\* server sent, each frame once and in order, and never a byte of anything else.
PrefixDelivered ==
  \A i \in 1 .. Len(delivered) :
    LET f == delivered[i]
    IN  /\ f.n > 0
        /\ \/ f.n = 1 /\ (i = 1 \/ delivered[i - 1].conn < f.conn)
           \/ i > 1 /\ delivered[i - 1] = [f EXCEPT !.n = @ - 1]

\* async_send: a frame is written at most once, in the order of the calls, and
\* only to the connection it was queued for.
WrittenToOwnConnection ==
  \A i \in 1 .. Len(outbound) :
    /\ outbound[i].packet.conn = outbound[i].via
    /\ i > 1 => outbound[i - 1].packet.id < outbound[i].packet.id

\* network_close: a body read that had completed before the close still
\* delivers its frame; after that one the client gets no frame of the old
\* connection.
AtMostOneLateFrame == late <= 1

\* network_close / async_connect: once everything has settled in DISCONNECTED
\* no descriptor is left connected or connecting.
NoLeakedSocket ==
  Drained /\ state_ = "DISCONNECTED" => socket_ = "closed"

\* ConnectionState: CONNECTED is entered from CONNECTING only; a completion of
\* async_connect cannot revive a connection that has been closed meanwhile.
LifecycleOrder ==
  [][state_' = "CONNECTED" => state_ # "DISCONNECTED"]_vars

-----------------------------------------------------------------------------
(* Liveness.                                                               *)

Terminated == io = "terminated"

\* A connect() that does not throw reaches CONNECTED or DISCONNECTED.
ConnectResolves ==
  state_ = "CONNECTING" ~> state_ # "CONNECTING" \/ threw \/ Terminated

\* After a close every operation's handler runs, so that io_context::run()
\* may return, unless the application connects again.
ClosedDrains ==
  state_ = "DISCONNECTED" ~> Drained \/ state_ # "DISCONNECTED" \/ Terminated

\* A connection that the network or the server has ended is noticed.
BreakIsNoticed ==
  socket_ = "broken" ~> state_ = "DISCONNECTED" \/ Terminated

\* do_write: the queue empties unless a write fails.
QueueDrains ==
  write_queue_ # << >> ~> write_queue_ = << >> \/ wfailed \/ Terminated

-----------------------------------------------------------------------------
(* What the interface's documentation promises and the code does not keep. *)

\* IConnection::network_connect: "Implementations should begin establishing the
\* underlying transport connection." When connect() has thrown, state_ stays
\* CONNECTING, and later calls return at once until a failing async_send resets it.
ConnectAlwaysBegins ==
  state_ = "CONNECTING" /\ ut = "idle" => Outstanding("connect") > 0

\* IConnection::async_send: "Send a raw message frame." A frame queued for the
\* present, working connection is being written or waits for one that is. The
\* frame of a failed write stays in write_queue_, and after a reconnect every
\* async_send takes it for a write in progress.
QueuedIsBeingWritten ==
  IsConnected /\ socket_ = "connected" =>
    \A i \in 1 .. Len(write_queue_) :
      write_queue_[i].conn = connects => Outstanding("write") > 0
=============================================================================
