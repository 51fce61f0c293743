# A TLA+ model of steam-min-cpp

steam-min-cpp is a small client for Steam's CM servers: it finds a server,
opens a TCP connection, negotiates a session key, logs on and asks for product
information. The code is short; what makes it hard is that it lives on two
threads and in callbacks. Operations of Boost.Asio are started in one place and
complete in another, and the object they belong to may have been closed,
reconnected or asked for something else in between.

Paths below are relative to the repository.

## 1. The system

| Component | State it keeps | Operations | Talks to |
|---|---|---|---|
| `TCPConnection` (`src/network/connection/tcp.cpp`) | `state_`, the asio socket, `header_buffer_`, `body_buffer_`, `write_queue_` | `network_connect`, `network_close`, `async_send`, the handlers of connect, header read, body read and write | the io_context, `CMFetcher`, `on_frame_` |
| `CMFetcher` (`src/web/cmfetcher.cpp`) | the cached server list | `fetch_cm_servers`, `get_servers` | curl |
| `CMClient` (`src/network/cmclient.cpp`, `cmclient.hpp`) | `channel_secured_`, job ids, the crypto manager | `start_session`, `shutdown`, `consume_frame`, `send_msg`, `execute` | the connection, the dispatcher, the emitter |
| Dispatcher and handlers (`src/routing/events`) | constant tables | `dispatch_msg`, `dispatch_proto`, the handlers for the encryption handshake, Multi, logon and product info | `CMClient`, the emitter |
| Commands (`src/routing/commands`) | - | anonymous logon, logoff, product info | `CMClient` |
| Event emitter (`include/steamclient/external/event_emitter.h`) | one listener per event type | `on`, `emit` | the application |
| Encryption (`src/crypto`) | session key, HMAC secret | handshake response, encrypt, decrypt | Crypto++ |
| VDF (`src/utils/vdf`) | a cursor over a buffer | parse binary, parse text | product info handler |
| Stream, message headers (`stream.hpp`, `packetbase.hpp`) | a buffer and a cursor | reads and writes of integers and blocks | handlers, commands |
| `SteamClient` (`src/client.cpp`) | owns a `CMClient` | `connect`, `disconnect`, `execute`, `on` | the application |
| `SteamLanguageInternal.hpp` (generated) | the headers and bodies of the protocol | `Serialize`, `Deserialize` | the stream |
| GZip, generated enums and protobufs | - | - | - |

The application (see `examples/`) calls `connect()` and `disconnect()` on its
main thread and runs `io_context::run()` on a second one. There is no lock and
no strand. Everything a server sends goes, on the io thread, through

    body handler -> on_frame_ -> consume_frame -> dispatch -> handler -> emit -> listener

in one call stack; a listener may call `execute()`, which may call
`async_send`, inside the body handler and before the next read is started.

**What is hard to test.** Handlers of a closed connection that run late; a close
on the user thread between two steps of the io thread; the loops (read, write)
that only go on because each handler starts the next operation; state that
survives a connection (`write_queue_`, `channel_secured_`, `state_` after an
exception); the place in the stream at which both ends switch to encryption;
parts of a Multi of which one fails; messages, Multis and
documents that end early; the order in which the program is torn down. `PROJECT.json` lists these hazards with
their lines and the properties that would catch each of them going wrong.

**What makes each part correct.**

- Connection: one writer, and frames written once and in order whatever handlers
  of an old connection are left; if none are, one reader, and frames delivered
  once and in order, each on its own connection; every attempt and every close
  comes to an end.
- Session: client and server agree on whether the channel is encrypted, frame by
  frame; every message is dispatched once and in order; credentials travel
  encrypted only; whoever waits for an event gets one.
- Messages: what is written is what is read back; every message the server sends,
  alone or inside Multis, is dispatched once and in order, whatever is cut off.
- Emitter and facade: no listener and no handler runs after the object it
  belongs to is gone, and the program comes to its end.
- Parsers: no read past the buffer, and what is parsed is what was encoded.

## 2. Modules

| Module | Models | State |
|---|---|---|
| `TCPConnection` | `tcp.cpp`, the outcome of `CMFetcher`, `CMClient::shutdown` as far as it closes the connection; asio's reactor, the kernel and the peer as external actions | the members of the class under their own names; operations counted per kind; positions of the two threads |
| `TCPConnectionProofs` | theorems about `TCPConnection`, for every application | - |
| `TCPConnectionDrainProofs` | theorems about `TCPConnection` for an application that drains, and that it implements `FrameLink` | - |
| `CMClient` | `cmclient.cpp`, the dispatcher, the four handler files, the three commands, `emit`; the CM server as external actions | `channel_secured_`, `next_jobid_`, the pending messages of the current frame, the stack of running listeners, the two directions of the wire |
| `CMClientProofs` | theorems about `CMClient` | - |
| `FrameLink` | the interface `IConnection`: an abstract link that carries whole frames | phase and number of the connection, frames on their way in and out, frames received and sent |
| `TCPConnectionLink` | that `TCPConnection` implements `FrameLink` | - (the refinement mapping) |
| `SteamClient` | `client.cpp`, `event_emitter.h`, the destructors, in the program of `examples/get_info.cpp` | positions of main and io thread, `stopped`, the outstanding operations, `listeners`, the stack of running listeners |
| `SteamClientProofs` | theorems about `SteamClient` | - |
| `FrameIntake` | `consume_frame` with the dispatcher, the encryption handlers, `generate_encryption_response` and `handle_multi`, on bytes | `channel_secured_`, frames under way, the stack of calls |
| `FrameIntakeProofs` | theorems about `FrameIntake` | - |
| `Stream` | `stream.hpp` | operators on a buffer and a position |
| `SteamLanguageInternal` | the structures of the generated header | constants: a layout per structure |
| `ClientMsg` | `Msg<TBody>`, `MsgBase`, `PacketMsg`, `PacketClientMsg`: one message from its sender to its receiver | the fields and payloads of both sides, the stream |
| `ClientMsgProofs` | theorems about `ClientMsg` | - |
| `VDF` | the tree of `vdf.hpp` and its assignment, for both parsers | - |
| `VDFBinary` | `vdf_bin.cpp` | the buffer, the cursor, the locals of the running `parse_object` and a stack of the calls below it |
| `VDFText` | `vdf_text.cpp`, and `parse_app`, which calls it | the same for the text parser |
| `VDFProofs` | theorems about `VDFBinary`, `VDFText` and what `MCVDF` says of both | - |
| `SequenceLemmas` | facts about sequences, and recursion over them, that several proofs need | - |
| `MCTCPConnection`, `MCCMClient`, `MCSteamClient`, `MCFrameIntake`, `MCClientMsg`, `MCVDF` | the modules TLC runs; `MCFrameIntake` and `MCVDF` also say what frames and documents mean | - |

### TCPConnection

An asynchronous operation is `waiting` in the reactor, or completed
(`succeeded`, `failed`) with its handler still queued; each of the three is a
count per kind of operation (connect, header, body, write). Starting an
operation, completing it and running its handler are separate steps. A handler
is one step, because the io thread runs one at a time, except for the body
handler: `BodyHandlerOk` enters the frame callback, in which `AsyncSend` and
`CallbackDisconnect` may happen, and `FrameReturn` starts the next read.
`io = "terminated"` is the end of the process by an exception that leaves the
callback.

The user thread's `network_connect` is cut where it blocks (`NetworkConnect`,
`FetchServers`, `ResolveThrows` / `AsyncConnect`), its `network_close` between
the close of the socket and the store to `state_` (`Shutdown`, `CloseSocket`,
`StoreDisconnected`).

Data are abstracted. A received frame is the connection it came from and its
place there; place 0 has the wrong magic. A sent frame is the attempt it was
meant for and the number of the call. A header read leaves whether the magic was
right. `align` says whether the next read starts at a frame boundary: two reads
on one socket share its bytes, after which headers are arbitrary.

Two kinds of application are distinguished by `EagerReconnect`. With `FALSE` it
calls `connect()` again only when nothing of the previous connection is left;
with `TRUE` it does so as soon as `state_` is `DISCONNECTED`. The second one
really breaks the client: an aborted read of the old connection runs
`handle_disconnect` on the new one, or a body handler started before the close
adds a second read chain. Therefore some properties are stated for all
applications and the others for the first kind only. Of the reads of an eager
application nothing more is claimed than that one is outstanding. Its writes survive
the handlers that are left over: one that runs on the new connection pops
the frame it was started for and goes on with the next, so that the frames
written remain those of the calls, one after the other (`WrittenInTurn`). A
connection that restarted its writer by itself would break this.

What the model takes for granted:

- the application calls `execute()` on the io thread (in a listener, as the
  examples do) or while no handler is running and no `connect()` or
  `disconnect()` is in progress: `write_queue_` is a plain deque without a lock;
- `disconnect()` on the user thread does race with the io thread. The test with
  the close, and the store, are atomic steps; the data race on `state_` itself
  (a word) and inside the socket object has no further outcome in the model;
- asio's composed `async_connect` tests `is_open()` before it reports success,
  so a close turns a connect that had succeeded into an aborted one. An attempt
  of which every endpoint failed leaves a descriptor that was never connected;
  it counts as closed, since each operation on it fails and the next attempt
  closes it;
- handlers that are ready run in any order. The queue of the io_context is
  first-in first-out per thread; any order is a superset of that;
- a write completes as a whole or fails; what the peer got of a failed write is
  not represented. Frames are not empty and their lengths are honest, so that
  `body_buffer_.resize` succeeds;
- the io_context runs as long as there is work. (In the examples it starts after
  `connect()`; `run()` returns for good once it has no work left.)

### CMClient

`rx` and `tx` are the frames under way, each with a mark that says whether it is
encrypted. `consume_frame` takes one frame, decrypts it or not as
`channel_secured_` says, and puts its message into `work`; the `Dispatch`
actions take `work` apart, `handle_multi` replacing a Multi by its parts. The
model is one step per message because listeners run between them: `Emit` pushes
the event on `cb`, the `exec_` actions happen while a listener is on top, and
`ListenerReturns` pops it. What an exception does is as in the code: one thrown
by a handler ends that message only, one thrown by the decryption is outside the
`try` block and ends the process (`crashed`).

A message is its type with its outcome: `EncRequest` / `EncRequestBad` for a
request that `generate_encryption_response` accepts or refuses, `ProductInfo` /
`ProductInfoBad` for buffers the VDF parsers get through or not, `Unknown` for a
protobuf message without a handler, `Struct` and `Short` for what
`consume_frame` leaves alone. Ciphertext taken for plaintext has an arbitrary
type and is therefore `Unknown` or `Struct` (that it looks like a registered
message has a negligible probability).

The server (external) greets, answers the key with success or failure, answers
logons and product requests once it is allowed to, packs answers into a Multi
when it likes, sends unsolicited messages, and ends the session at a frame in
the wrong mode or a logoff.

The link below is what `TCPConnection` promises to an application that drains
before it reconnects: frames in order and of the present connection only
(`PrefixDelivered`), at most one after a close (`AtMostOneLateFrame`), and a
writer that never writes again after a failure (`stalled`, from `OneWriter`). A
`connect()` that threw is `link = "wedged"`. The first two of these are what
`FrameLink` states; the run `tcp_drained` checks that `TCPConnection` implements
it, and `LinkCorrect` proves it for all bounds.

### FrameLink, TCPConnectionLink

`FrameLink` knows no sockets, operations or threads: a link is opened, accepted,
established and closed; frames arrive, are delivered, are handed over and
transmitted. What a close does is the interesting part: all but at most one
received frame are lost, nothing that was handed over is transmitted on another
connection, and nothing is delivered that is not of the present one. The mapping
takes a body that has been read into `body_buffer_` for a frame still on its
way, in front of what the socket holds, and the front of `write_queue_` for gone
as soon as its write has succeeded, before its handler pops it. The phase and
`is_open` are separate in both modules, since `network_close` closes the socket
in one step and stores `DISCONNECTED` in the next.

### SteamClient

The program of `examples/get_info.cpp`: register, connect, start the io thread,
wait for a key, `disconnect`, `io_ctx.stop()`, `join`, and the destructors in the
reverse order of construction, the client before the io_context. The connection
is reduced to two operations, the chain connect - header - body and the write,
each waiting, queued with its result, or absent; that there is no more than one
of each is `SingleReadChain` and `OneWriter` of `TCPConnection`. A body handler
runs `on_frame_`, which may emit an event; listeners run on a stack, because a
command may emit at once (a logon that is refused does). `on` replaces the
listener of a type.

`~SteamClient` calls `disconnect()`, which does nothing unless the connection is
up; the socket's own destructor then aborts what is left, and the handlers,
which hold `this`, stay queued in the io_context, whose destructor drops them.
That they never run in between is `OnlyLiveObjectsRun`, and it depends on `join`.

### FrameIntake

`consume_frame` on bytes. A frame is clear or came out of the server's
encryption; `Receive` compares its size, decrypts it or not, and `Dispatch` reads
the type, makes a packet of it and calls the handler. A call of `consume_frame`
or `handle_multi` is a record on `stack`, so that a Multi in a Multi is the
recursion it is in the code. The size is compared before the decryption: a
plaintext of less than four bytes lends the type what lies behind the vector
(`StrayByte`). The tables are bounded by `MAX_EMSG`; `proto[MAX_EMSG]` is the
first entry of `msg`, which is empty.

External, by what the code relies on: ciphertext is its length and its plaintext
(a decryption succeeds for what the server has encrypted and for nothing else);
a protobuf header is any bytes but `BadHeader`; a `CMsgMulti` is one byte of
`size_unzipped` and the `message_body`; compressed data is a byte 31 in front.
RSA and the checksum are symbolic records.

`MCFrameIntake` composes the frames as trees of messages, and `Contents` says
which of them the dispatcher has to see when the frame ends after n bytes. It
computes with lengths of messages only and has no cursor.

### Stream, SteamLanguageInternal, ClientMsg

A structure is a layout: its fields with type and initial value, the calls of
`Serialize` and those of `Deserialize`, each with the type it writes or reads,
which are not always the field's own (a `uint64_t` is read as `int64_t`, an enum
is written as `int`). An integer is the tuple of its bytes, so that
`Convert` says what a cast does for 64 bits as well.

`ClientMsg` takes any set of such programs. One side fills in the fields, appends
to the payload and writes field by field; the bytes are cut off anywhere; the
other side reads the header, then the body from `bodyOffset`, and takes
everything behind the header as its payload, the body's bytes included. `wire`
and `marks` are history: what was sent, and where the stream was after each
write.

The run takes all structures of the file as headers or as bodies behind `MsgHdr`,
with the constructor's values, with values no two bytes of which agree and whose
sign bits are set, and with a vector one byte short of the 1450 that
`Deserialize` reads (`P2PDataSize`, 3 in the run).

### VDFBinary

The parser is sequential and its question is the cursor: `read_cstring` takes one
byte per step, a number is taken as a whole as `memcpy` does, and the recursion
of `parse_object` is an explicit stack. `touched` records how far the buffer has
been read. An `Object` is the set of all nodes below it with their paths; the
order of an `unordered_map` means nothing. The assignment `obj[key].value = ...`
replaces an earlier value of the key, and happens after the nested call returns.

The reference is in `MCVDF` and knows no bytes: a document is a list of
items (open, close, leaf, unknown type), `Encode` writes it down, `Meaning` folds
over the items, and `Decodes` says for each document cut off at each length what
the parser has to answer. It shows two lenient choices of the code: a buffer that
ends between two entries is accepted with all objects closed, and whatever
follows the end of the root is ignored.

### VDFText

The text parser has the same shape, and `parse_app` around it: `pop_back` makes
the last character of the buffer the terminator of the string, `vdf["appinfo"]`
creates the key if it is missing, and `as_object` throws if it is not an object.
`peek` and `consume` index a `string_view` without a test, so what they read
behind the end is the terminator (`"nul"`) or, one further, the old one;
`InStorage` says that they never get beyond it. A character is one that the
parser tells apart, or `x`.

`TextDecodes` compares with `Complete`, which works on items and the length of
the cut and has no cursor: `Items` is what there is of the document, and
`Complete` is that if its braces match. It shows what the code makes of a text
that ends early: a value of the top level may lack its quote, or half of an
escape, and a comment may be cut off; everything else that is open is refused. The test texts are laid out as `stringify_object`
does, with escapes and comments in addition.

## 3. Runs

The bounds are the constants of each `.cfg`.

| Run | Constants | Shows |
|---|---|---|
| `tcp_drained` | 3 connections, 2 sends, 2 frames per connection, `EagerReconnect = FALSE`, fair | one read chain; frames delivered as gap-free prefixes and written once, in order, on their own connection; at most one late frame; nothing leaked or revived; `FrameLink` is implemented; attempts end, closes drain, breaks are noticed, the queue empties |
| `tcp_eager` | 2, 2, 2, `TRUE` | what holds for every application, with handlers of one connection running into the next: the writer and the order of what it writes, the reader, and the meaning of `CONNECTING` |
| `tcp_throw` | 2, 0, 0 | *violated*: a `connect()` that throws leaves `CONNECTING` with nothing under way |
| `tcp_stall` | 2, 2, 1 | *violated*: after a failed write the next connection never writes |
| `cm_session` | 1 session, 3 commands, 1 push, fair | both ends agree on encryption at every frame; each message and part is dispatched once, in order; the handshake and every logon end with an event or with the connection |
| `cm_anytime` | 2, 3, 1, commands at any time | no logon in plaintext; no exception leaves the io thread on a first connection |
| `cm_reconnect` | 2, 2, 0 | *violated*: the second session starts as secured |
| `vdf` | binary and text documents of up to 4 items each, every cut | the cursors stay in their buffers, the parsers end, and they return what the items mean or refuse |
| `wire` | all 51 structures and headers, 1 append to the payload, every cut | fields are read back as written, or the message is refused; the payload follows the header |
| `intake` | 1 frame of up to 3 levels of messages, before or after a handshake, every cut | each message is dispatched once and in order; every handshake message but a result too short for its body is answered or reported |
| `wire_copy` | the same without copy elision | *violated*: the response to the handshake may be empty |
| `facade` | 3 event types, 3 calls of `on`, 3 commands, fair | no handler or listener runs after its object is gone; the program ends |

*Why these bounds are enough to be interesting.* Two connections are what it
takes for a handler of one to meet the next; the third of `tcp_drained` lets a
fault in the second show after it. Two sends make one frame wait behind another,
which is the whole of the writer's logic. Two frames are one full turn of the
read loop and the start of another. In `CMClient` three commands are a logon, a
product request and a logoff; one push falls anywhere in between. Every answer
is also tried inside a Multi before and after parts that fail. Four items are an
object, something in it, its end and the same key again; keys and values consist
of bytes that are type bytes as well (0, 1, 8), and those of a text of
characters that are syntax as well. A Multi has two parts because the second
shows where the first has left the offset; one of them may be a Multi of its own.
Three listeners are one more than what a listener replaced by another needs, and
three commands nest one emit in another inside a third.

`CHECK_DEADLOCK FALSE` is used because an application that has used up its calls
may stop, and so does a terminated process or a parser that has returned.

*Fairness.* Weak fairness of each handler: `io_context::run()` executes what is
queued, and a frame callback returns. Of `FetchServers` and of the connect: curl
has a timeout of 5 seconds, resolver and kernel have their own. Of the user
thread inside `disconnect()`: nothing in it blocks. Of `OperationFails`: the
reactor reports a broken socket. Of `WriteCompletes`: the peer keeps reading (a
peer that stops for ever stalls the writer; there is no write timeout). In
`SteamClient`, of the main thread once the key is pressed, of the handlers, of
listeners (they return) and of `run()`; not of the key, nor of the network. In
`CMClient`, of the server's answers: the client has no timeout, so without a
server that answers nothing is promised. `parse_binary` and `parse_text` are
functions that run to their end. There is no fairness of the application's calls, of frames the server sends, or of the loss of a connection.

### Findings

1. **`connect()` that throws wedges the client** (`tcp.cpp:48-60`). `CONNECTING`
   is stored first and not reset after "No CM servers" or an exception of
   the resolver. Later calls of `connect()` return silently, `disconnect()` does
   nothing. What can end this is an `async_send` (a `GetProductInfo` has no
   check that would prevent it): it fails on the closed socket, and
   `handle_disconnect` stores `DISCONNECTED`, at the price of finding 2. `CMClient`
   has this (`wedged`); the run `tcp_throw` sends nothing and does not show it.
2. **A failed write stops the writer for good** (`tcp.cpp:124-133`). The frame
   stays in `write_queue_`, `network_close()` does not clear it, and
   `async_send` takes a non-empty queue for a write in progress. `OneWriter`
   states exactly this, and it is proved for every application.
3. **`channel_secured_` survives its connection** (`cmclient.hpp:82`). On the
   second connection the plaintext ChannelEncryptRequest is decrypted outside
   the `try` block; the exception leaves `io_context::run()`. No line of the
   repository promises outright that the flag ends with its connection. What depends on it is
   `ChannelSecuredEvent` ("Indicates whether the secure channel with the Steam CM
   server was successfully established", `events.hpp:73`) and the refusal of a logon with
   "Channel not secured" (`anon_login_handler.cpp:13`).
   `CrashOnlyAfterReconnect` shows that a first connection is safe.
4. **A returned `Msg` keeps its payload only if its copy is elided**
   (`clientmsg.hpp:24`). `Msg(const Msg& other, int = 0)` is a copy constructor
   that builds an empty answer to `other`, and it suppresses the move
   constructor. `generate_encryption_response` returns a local by name; a
   compiler may elide that copy and does not have to. With the elision
   (`intake`) the response carries the key, without it (`wire_copy`) it is empty.

## 4. Proofs

Every theorem holds for all values of the constants: any natural bounds, any set
of events, messages or bytes. Where a theorem needs a flag to have one value,
its hypothesis says so, and the run of the same property has that value.

### The connection, for every application (`TCPConnectionProofs`)

| Theorem | Statement |
|---|---|
| `TypeCorrect` | `Spec => []TypeOK` |
| `WriterCorrect` | `Spec => []OneWriter` |
| `ReaderCorrect` | `Spec => []ConnectedHasReader` |
| `ConnectingCorrect` | `Spec => []ConnectingInProgress` |
| `ChainCorrect` | `Spec => []SingleReadChain` (which speaks of draining applications) |

The assumptions are `BoundsAssumption` (bounds are natural numbers) and
`EagerAssumption` (the flag is a Boolean).

*Argument.* Neither `TypeOK` nor `OneWriter` is inductive alone: a write that
completes records the front of `write_queue_`, which has a type only if the
queue is not empty, and that is what `OneWriter` says; `OneWriter` in turn counts
operations, which needs their type. `TypeAndWriter` proves the conjunction. The
other three are inductive relative to it: `ConnectedHasReader` and
`ConnectingInProgress` because every handler that takes a read or a connect away
starts another operation, enters the callback or stores a new state;
`SingleReadChain` because `connect()` starts a chain only when `Drained`, and
every later step moves the one token of the chain (user thread, connect, header,
body, callback) on or drops it.

The proofs rest on lemmas that say what each shared step does to the number of
outstanding operations of each kind: `SocketCloseFacts`, `AsyncStartFacts`,
`NetworkCloseFacts` for the operators, and one `...Ops` lemma per group of
actions (a completion leaves each number as it is, a handler takes one of its
kind and may add one of the next, a close changes nothing). The step lemmas
(`TypeStep`, `WriterStep`, `ReaderStep`, `ConnectingStep`, `ChainStep`) have one
case per action and cite them.

### The connection, draining (`TCPConnectionDrainProofs`)

All but `TurnCorrect` under `~EagerReconnect`: the application calls `connect()`
again only when nothing of the last connection is left. Without it these properties are false
(section 2); the run `tcp_drained`, which reconnects twice, satisfies it.

| Theorem | Statement | rests on |
|---|---|---|
| `NoLeak` | `Spec => []NoLeakedSocket` | `SocketInv` |
| `Lifecycle` | `Spec => LifecycleOrder` | `SocketInv` |
| `LateCorrect` | `Spec => []AtMostOneLateFrame` | `ReadInv` |
| `PrefixCorrect` | `Spec => []PrefixDelivered` | `PrefixInv` |
| `WrittenCorrect` | `Spec => []WrittenToOwnConnection` | `WriteInv` |
| `LinkCorrect` | `Spec => ImplementsFrameLink` | all four |
| `TurnCorrect` | `Spec => []WrittenInTurn`, for every application | `TurnInv` |

*Argument.* None of the properties is inductive. Four invariants carry those of a
draining application, each relative to the ones before it and to `TypeOK`, `SingleReadChain` and `OneWriter`:

- `SocketInv` relates the socket, `state_` and the operations: `DISCONNECTED` and
  a `connect()` in progress mean closed, an open socket has no failed
  operation queued, and a connect handler queued without error means that nobody
  has closed since (a close turns it into a failed one). This is why a late
  completion cannot revive a connection.
- `ReadInv` says that each read starts where a frame's header or body does, so
  that `header_buffer_` describes the frame in front of the socket, and that the
  late body handler is the last one.
- `PrefixInv` counts: the frames consumed are `peerSent - Len(inbound)`; the
  socket holds those after them, in order; the one consumed last is in
  `body_buffer_` if its handler has still to run, and else was delivered last.
- `WriteInv` orders the queue and what was written by the number of the call, and
  leaves one overlap: the front of the queue has been written and not
  popped while its write handler is queued. After a failed write the queue may
  hold frames of an old connection, and `OneWriter` says they are never written.

`TurnInv` needs no hypothesis on the application. `Popped`, the length of what was written
less the write handlers queued without an error, is the number of frames popped; the
queue holds the numbers after it without a gap, up to `sends`. A write completes
only when no such handler is queued (`OneWriter`), so the front is then the frame
after those written. `WriteAside` says that no step but `AsyncSend`,
`WriteCompletes` and `WriteHandlerOk` touches any of this, a close or a reconnect
in particular.

*The refinement.* `LinkStep` takes each action to its step of `FrameLink`, or to a
stutter: `NetworkConnect` opens, `ConnectSucceeds` accepts, the connect
handler establishes, `PeerSends` arrives, `BodyHandlerOk` delivers (`BodyArrives`
stutters, since the body counts as arriving until then), `AsyncSend` hands over,
`WriteCompletes` transmits (its handler stutters), and whatever closes the socket
ends the link. The mapping is checked against the four invariants: that
delivering takes the front of `arriving`, for instance, is `PrefixInv`.

### The session (`CMClientProofs`)

| Theorem | Statement | hypothesis |
|---|---|---|
| `TypeCorrect` | `Spec => []TypeOK` | - |
| `LogonCorrect` | `Spec => []LogonNeverPlain` | - |
| `CrashCorrect` | `Spec => []CrashOnlyAfterReconnect` | - |
| `SecuredCorrect` | `Spec => [](connects <= 1 => SecuredAgreed)` | - |
| `CipherCorrect` | `Spec => [](connects <= 1 => CipherInSync)` | `~AnyTime` |
| `OrderCorrect` | `Spec => [](connects <= 1 => InOrderDispatch)` | - |
| `ClearSessions` | `Spec => [](SecuredAgreed /\ ~crashed /\ InOrderDispatch)` | `[][ClearStart]_vars` |
| `ClearCipher` | `Spec => []CipherInSync` | `[][ClearStart]_vars`, `~AnyTime` |

`connects <= 1` is the first session, which is where finding 3 leaves these
properties: the second session of the same client starts as secured, and the
run `cm_reconnect` shows it. `~AnyTime` is an application that executes its
commands where the examples do, in a listener of `ChannelSecured` or
`ClientLogon`; a product request before the handshake does leave in plaintext
at a moment when the server may have switched.

`ClearSessions` and `ClearCipher` speak of all sessions. `ClearStart` is the action
`start_session => ~channel_secured_`: whenever a session begins, the channel is
found clear. The code satisfies it in the first session always (`FirstStart`)
and later for as long as no session has been secured, for instance while
the server refuses the handshake; a client that reset the flag on disconnect would
satisfy it always. So the flag is all that finding 3 is about: with it
reset, every later session is as safe as the first. The first-session theorems are
proved by the same invariants, which hold from one clear start to the next.

*Argument.* `TypeInv` is `TypeOK` with what a message consists of. It also records
that the messages of the handshake are never part of a Multi, which holds because
only the server makes Multis and it greets and concludes outside of them.
`LogonNeverPlain` is then inductive: the commands test `channel_secured_`.

`channel_secured_` changes when the result has passed through `rx` and
`work`, and the server has switched before that. `SecuredAfter(n)`
is what `channel_secured_` will be when the first n frames have been gone through;
`StreamInv` says that each frame is encrypted accordingly, that the server has
switched exactly if the whole stream will have switched the client, and that
nothing has crashed. `SecuredAgreed` and `CrashOnlyAfterReconnect` follow.

The direction to the server needs `ModeInv` as well: a listener that executes
commands runs on a secured channel, because its event came from an encrypted
message or is the handshake's own (`LogonInv`, `ListenerInv`); between the greeting and
the switch there is a single message between the two sides, so that no plaintext
is left in `tx` when the server switches (`GreetedInv`); and nothing is sent to a
server that has not greeted (`SentInv`).

`InOrderDispatch` is about the concatenation of what was dispatched, the parts in
`work` and the parts in `rx` (`Flow`). A step moves a message within it, replaces
a Multi by its parts, or appends what the server sends; a close cuts it off.
`OrderInv` says so, and the lemmas about `Parts` (`PartsConcat`, `PartsSingles`,
`PartsAssociative`) say that concatenation of parts behaves as one expects.

### Frames on bytes (`FrameIntakeProofs`)

| Theorem | Statement | hypothesis |
|---|---|---|
| `TypeCorrect` | `Spec => []TypeOK` | - |
| `HandshakeCorrect` | `Spec => []HandshakeConcluded` | `CopyElision` |
| `IntakeCorrect` | `Spec => []LoggedOnce` | - |
| `PackSound` | a Multi of `Sound` messages is `Sound` | its length fits in 16 bits |
| `DispatchedCorrect` | `MCSpec => []DispatchedAsSent` | - |

The first three are about any sequence of frames with any content. `TypeInv` adds to `TypeOK` that all
calls on the stack but the innermost are a `handle_multi` that waits, each with
its offset inside its data (`Nested`); a part is
then a subsequence of that data. The sizes of the messages (20, 8 and 4 bytes)
come out of the structures in `SteamLanguageInternal` by unfolding `SumOfWidths`
(`Sizes`). `HandshakeInv` restates `HandshakeConcluded` with the histories as
functions of what is logged (`Mapped`, `FlatMapped`), since `log` grows by one body
at a time and both sides of the equation have to be seen to grow by the same:
one answer for an exact request, one event for any other request and for each
result that can be read. `CopyElision` is the hypothesis of finding 4: without it
the answer is sent, but its payload is empty.

*What is dispatched, for arbitrary bytes.* `Arriving(d)` says what there is in the
bytes d: nothing, unless they have a type and a header that a handler gets to see
(`Reaches`); else d itself and, if it is a Multi, `Walk` over what it unpacks to: the
part at an offset with all that arrives in it, and then what is behind it. `Walk`
recurs on two arguments at once, into a part and along the parts, so it is
defined by iteration (`walk[n]`), where n bounds the steps of both kinds; `Stable` and
`WalkFacts` show that the length of d is always enough, so that the equation of
the recursion holds of `Walk` and the bound is gone. `LogInv` is the invariant: `log`
followed by what the calls on the stack have yet to dispatch, innermost first
(`Pending`), is all that has arrived in the frames received. Each of the three
actions moves something along this sequence and changes nothing of it; the
exception loses one frame. `LoggedOnce` reads it off.

*What a server composes.* `DispatchedAsSent` compares with `Contents`, which goes by the
parts a message has been composed of and by where each of them ends. `Sound(m)` says
that the two agree: for every n, what arrives in the first n bytes of m is
`Contents(m, n)`. `PackSound` makes this compose: if the parts are
sound, so is the Multi, for any number of parts, any header, compressed or
not, cut off at any byte (`PartAt` and `NoPartAt`: the walk meets a part exactly
where it was packed, and none that is cut off; `WalkPacked`: by induction on the
parts). Then the messages of the run are sound (`HandshakeSound`,
`LeavesSound`, `ComposedSound`), and `LogInv` carries it to `log`. If an exception has
ended the process, the channel was secured by a result (`SecuredInv`), which
only the second frame is; so the third was the one that could not be
decrypted, and it was in the clear.

A frame that is encrypted before the channel is secured has no bytes in the model
but its plaintext; the documents of the run have none, and of `IntakeCorrect` one
should not conclude what the client makes of such ciphertext.

### The program (`SteamClientProofs`)

| Theorem | Statement |
|---|---|
| `TypeCorrect` | `Spec => []TypeOK` |
| `LifetimeCorrect` | `Spec => []OnlyLiveObjectsRun` |

`OnlyLiveObjectsRun` is not inductive: that no handler starts after `~SteamClient`
depends on where the main thread is. `Phases` relates the two threads: the io
thread runs only between `spawn` and `join`, the client is destroyed after it
only, and listeners run within the frame callback only. That a
listener on the stack has not been replaced follows from `on` being called in the
setup only, that is in a phase without listeners running.

### Messages (`ClientMsgProofs`)

For every set of messages, all values of their fields, every payload and every
cut:

| Theorem | Statement |
|---|---|
| `CodecTypes` | `Spec => []TypeOK` |
| `CodecReadBack` | `Spec => []ReadBack` |
| `CodecPayload` | `Spec => []PayloadFollowsBody` |

The assumptions are `ProgramsAssumption` (a message writes and reads its fields
in the same order and at the same widths; TLC evaluates it on all structures of
the protocol in the run `wire`), `PayloadAssumption` and `P2PDataSizeAssumption`.
The inductive invariant adds to the three statements where the fields lie: while
writing, the stream is at `marks[k]` and the fields before `k` lie between their
marks (`Writing`, `LaidOut`); what was sent keeps that, with the payload last
(`Sent`); what has arrived is a prefix of it (`Arrived`); and the reader is at
`marks[k]` with the fields before `k` read (`ReadSoFar`). So a field that fits is
read from where it was written, and one that does not fit shows that the message
was cut.

### The parsers (`VDFProofs`)

For every buffer, of any length and content:

| Theorem | Statement |
|---|---|
| `ParserTypes` | `Spec => []TypeOK` (binary) |
| `ParserInBounds` | `Spec => []InBounds` (binary) |
| `ParserNesting` | `Spec => []NestingBounded` (binary) |
| `ParserShrinks` | each step lowers a number that starts at `5 * size + 2` (binary) |
| `TextParserInBounds` | `Text!Spec => []TextInStorage` |
| `TextParserTypes` | `Text!Spec => []Text!TypeOK` |
| `TextParserShrinks` | each step lowers a number that starts at `3 * size + 6` |

and for every document, cut off at every byte:

| Theorem | Statement |
|---|---|
| `DecodesAny` | `AnySpec => []Decodes`: any number of items, of any keys, values and type bytes |
| `DecodesCorrect` | `MCSpec => []Decodes`: those of the run, for every `MaxItems` |
| `TextDecodesAny` | `AnyTextSpec => []TextDecodes`: a text of any number of items, with any keys (without escapes), values and comments |
| `TextDecodesCorrect` | `MCSpec => []TextDecodes`: those of the run, for every `MaxTextItems` |

*Binary.* The inductive invariant `IInv` is `TypeOK`, `InBounds` and `Nested`: the
bound on the depth is not inductive, because a call is made two steps after its
type byte has been read. `Nested` counts what each waiting call and the present
entry have already taken from the cursor, `2 * Len(stack) + Taken <= pos`.

*Text.* `peek` and `consume` do not test for the end. `TextInv` says that the cursor
is at most one past the end of the input (it gets there behind an escape), so that
what is read is one of the two terminators, and that of an empty buffer nothing is
read. `skip_ws` is a recursive function with a second one for comments inside;
`SkipTo` shows that it exists, and that it goes forward and, if it moves at all,
stays within the input. The theorem is about `VDFText` as `MCVDF` instantiates it,
with the key `AppInfo` fixed; the cursor does not depend on the key.

*What a document means.* `Decodes` compares with `After`, which folds over items and
has no cursor. `DecodeInv` relates the two: at the head of an entry, the cursor
stands behind the first k items of the document, the calls on the stack are the
objects that are open after these items, and the nodes read so far, those of the calls
that wait put in place, are `After` of them. Within an entry the invariant says
in addition how much of the item has been read. The parser takes an item whole or
throws, so a step at a head moves k on by one, and where the bytes end decides
the rest: behind an item, `Decodes` expects what came before; inside one, or at a type
byte that is unknown, an exception. `Count` and `EndsAt` tell that the root has been
closed, and what follows is not looked at.

For texts the argument is the same, with `TextDecodeInv` in the place of `DecodeInv`
and `Fits` for what the items and the stack have in common. A step reaches an item only after
`skip_ws`, so between two items the invariant is that `skip_ws` leads to the same place from
the cursor as from the end of the k items (`AtNext`), or to the end of the input
(`AtEnd`); `Settled` skips the comments in between. Inside a value the cursor stands behind
some of its pieces, a character or an escape each (`AtText`). Where the text ends
within one, the parser ends up with what a shorter value means, its last character
the terminator if an escape was cut off (`CutText`); `ThereKinds` gives the
other ends, item by item. An object that is left open is found when the key of the next
entry is not there, a brace too many when it is taken for one (`ClosesRoot`). Keys have no
escapes in these documents, as in those of the run; blanks and newlines are
where `stringify_object` puts them, and a comment is the one short line that `Lay`
writes.

*Termination.* `ParserShrinks` and `TextParserShrinks` give the variant of the loops
and calls: every step lowers it, and it is a natural number, so no parse can have
more steps than the number it starts at. What TLC adds (`Terminates`) is that the
parser does take its next step, which is fairness.

### Recursion (`SequenceLemmas`)

The library's induction theorems take a predicate as a parameter, which the
provers cannot instantiate. A set can take its place: `NatSetInduction` (a
set that contains 0 and successors contains all numbers) follows from `<` being
well-founded on the naturals, and `SeqSetInduction` from it. They carry the facts
about `FlattenSeq` (`FlattenFacts`: the function it chooses exists, and flattening
`Append(q, x)` appends x), `Mapped` and `FlatMapped`, and
about functions that recur by jumping forward (`JumpsExists`, `JumpsTo`). The walk
over a Multi needs two more: `IteratesExists` (a function that is iterated n times
exists) and `FlattenConcat` (flattening distributes over concatenation).

### Only model-checked

- `ConnectResolves`, `ClosedDrains`, `BreakIsNoticed`, `QueueDrains`,
  `HandshakeConcludes`, `LogonAnswered`, `Terminates` and `ProgramExits`: liveness,
  for which the prover has neither fairness nor `ENABLED`. Of `Terminates` the
  variants are proved.
- `SecuredAgreed`, `CipherInSync` and `InOrderDispatch` in a session that does not start
  on a clear channel: the first is violated there (finding 3), and nothing is
  claimed of the others.

## 5. Not modelled

- The cryptography and gzip (Crypto++), protobuf and curl: their code is
  not the repository's. Their failures are modelled where they reach a handler.
- `SteamLanguage.hpp`: enums, that is constants without control. Of them the
  message types that `FrameIntake` needs appear.
- `MsgGCHdrProtoBuf` (nothing sends or reads game coordinator messages; its
  `Serialize` omits the header bytes it has counted), and the reading
  helpers of `MsgBase` (`ReadByte`, `ReadValue`, `Seek` ...), which have no caller.
- `SteamID` and `GameID`: packing of bit fields in one integer.
- `parse_pkg`: the subtraction `buffer.size() - 4` wraps for a short
  buffer, and what the parser then reads is any memory. `VDFBinary`
  starts from a buffer and its true size.
- Memory exhaustion: a length of up to 4 GB in a frame header, the size of
  decompressed data.
- `get`, `get_path`, `get_string_or` and the other accessors of `vdf.hpp` (reads
  of one key), and `stringify_object`, which appears as the layout of the
  texts in `MCVDF`.
- The fields of the JSON answer in `CMFetcher`, and the registration of
  commands in the router, one static object per type.

## 6. Plan

The system is modelled as far as planned, and the safety properties that the runs
check are proved. Left:

1. `FrameIntake`: the bytes of a ciphertext, for a server that encrypts before the
   client has switched.
2. `VDFText`: `TextDecodes` for texts that are laid out in other ways than
   `stringify_object` does, and for comments of any length.

## 7. Running

In this directory:

    tlc -config MCTCPConnection_drained.cfg MCTCPConnection
    tlapm TCPConnectionProofs.tla

and likewise for the other configurations, and for `TCPConnectionDrainProofs`,
`CMClientProofs`, `FrameIntakeProofs`, `SteamClientProofs`, `ClientMsgProofs`,
`VDFProofs` and `SequenceLemmas`. Every run takes about a minute at most; a proof
takes a few, `TCPConnectionDrainProofs`, `CMClientProofs` and `VDFProofs` longer.
