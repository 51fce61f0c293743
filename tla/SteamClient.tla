------------------------------ MODULE SteamClient ------------------------------
(***************************************************************************)
(* The lifetime of a SteamClient in the program of the examples            *)
(* (examples/get_info.cpp): the main thread registers listeners, connects, *)
(* starts the thread that runs the io_context, waits for a key, and tears  *)
(* everything down; the objects go in the reverse order of construction,   *)
(* the client before the io_context.                                       *)
(*                                                                         *)
(* The handlers of the connection hold `this`, and the listeners run       *)
(* inside them. The connection is reduced to what its lifetime depends on: *)
(* it has at most one connect or read operation and one write at a time    *)
(* (TCPConnection: SingleReadChain, OneWriter), and its calls are atomic.  *)
(***************************************************************************)
EXTENDS Naturals, Sequences

CONSTANTS
  Event,           \* the event types
  MaxListeners,    \* bound: calls of on()
  MaxCommands      \* bound: commands the listeners execute

ASSUME BoundsAssumption == MaxListeners \in Nat /\ MaxCommands \in Nat

VARIABLES
  main,            \* what the main thread does next
  io,              \* the io thread
  stopped,         \* io_context: stop() was called, or it ran out of work
  state_,          \* ConnectionState
  ops,             \* the operations: none, waiting, handler queued; or the
                   \* writer has stalled for good
  alive,           \* the client exists: SteamClient, CMClient, TCPConnection
  listeners,       \* EventEmitter: the listener of each type, 0 if none
  registered,      \* calls of on() so far
  commands,        \* commands executed so far
  running,         \* the listeners that run, the innermost last
  orphan           \* history: a handler has run after the client was destroyed

emitter == <<listeners, registered>>
vars == <<main, io, stopped, state_, ops, alive, emitter, commands, running,
          orphan>>

Op     == {"chain", "write"}
Handler == {"ok", "error"}

\* The program: each variable is of its type; what emit() runs has been registered.
TypeOK ==
  /\ main \in {"setup", "spawn", "wait", "disconnect", "stop", "join",
               "~client", "~io_context", "exited", "terminated"}
  /\ io \in {"none", "run", "on_frame", "returned"}
  /\ stopped \in BOOLEAN
  /\ state_ \in {"DISCONNECTED", "CONNECTING", "CONNECTED"}
  /\ ops \in [Op -> {"none", "waiting", "stalled"} \cup Handler]
  /\ alive \in BOOLEAN
  /\ listeners \in [Event -> 0 .. MaxListeners]
  /\ registered \in 0 .. MaxListeners
  /\ commands \in 0 .. MaxCommands
  /\ running \in Seq(1 .. MaxListeners)
  /\ orphan \in BOOLEAN

Init ==
  /\ main = "setup"
  /\ io = "none"
  /\ stopped = FALSE
  /\ state_ = "DISCONNECTED"
  /\ ops = [o \in Op |-> "none"]
  /\ alive = TRUE
  /\ listeners = [e \in Event |-> 0]
  /\ registered = 0
  /\ commands = 0
  /\ running = << >>
  /\ orphan = FALSE

-----------------------------------------------------------------------------
(* Calls that several actions make.                                        *)

\* The socket is closed: what waits on it will be reported as aborted.
Aborted == [o \in Op |-> IF ops[o] = "waiting" THEN "error" ELSE ops[o]]

\* CMClient::shutdown() and, below it, network_close().
shutdown ==
  IF state_ = "CONNECTED"
    THEN ops' = Aborted /\ state_' = "DISCONNECTED"
    ELSE UNCHANGED <<ops, state_>>

\* An operation is started, on an open socket or on a closed one.
Started == IF state_ = "DISCONNECTED" THEN "error" ELSE "waiting"

-----------------------------------------------------------------------------
(* The main thread.                                                        *)

\* SteamClient::on(): the map has one listener per type, the last one given.
on(e) ==
  /\ main = "setup"
  /\ registered < MaxListeners
  /\ registered' = registered + 1
  /\ listeners' = [listeners EXCEPT ![e] = registered + 1]
  /\ UNCHANGED <<main, io, stopped, state_, ops, alive, commands, running,
                 orphan>>

\* SteamClient::connect(), up to async_connect.
connect ==
  /\ main = "setup"
  /\ state_' = "CONNECTING"
  /\ ops' = [ops EXCEPT !["chain"] = "waiting"]
  /\ main' = "spawn"
  /\ UNCHANGED <<io, stopped, alive, emitter, commands, running, orphan>>

\* connect() throws, and main does not catch it.
connect_Throws ==
  /\ main = "setup"
  /\ main' = "terminated"
  /\ UNCHANGED <<io, stopped, state_, ops, alive, emitter, commands,
                 running, orphan>>

Spawn ==
  /\ main = "spawn"
  /\ io' = "run"
  /\ main' = "wait"
  /\ UNCHANGED <<stopped, state_, ops, alive, emitter, commands, running,
                 orphan>>

\* std::cin.get() returns.
KeyPressed ==
  /\ main = "wait"
  /\ main' = "disconnect"
  /\ UNCHANGED <<io, stopped, state_, ops, alive, emitter, commands,
                 running, orphan>>

\* SteamClient::disconnect(): no effect while the connection is being made.
disconnect ==
  /\ main = "disconnect"
  /\ shutdown
  /\ main' = "stop"
  /\ UNCHANGED <<io, stopped, alive, emitter, commands, running, orphan>>

\* Mutant: the program relies on disconnect() to end io_context::run().
Stop_Missing ==
  /\ main = "stop"
  /\ main' = "join"
  /\ UNCHANGED <<io, stopped, state_, ops, alive, emitter, commands,
                 running, orphan>>

\* io_ctx.stop()
Stop ==
  /\ main = "stop"
  /\ stopped' = TRUE
  /\ main' = "join"
  /\ UNCHANGED <<io, state_, ops, alive, emitter, commands, running,
                 orphan>>

\* Mutant: the thread is detached.
Join_Detach ==
  /\ main = "join"
  /\ main' = "~client"
  /\ UNCHANGED <<io, stopped, state_, ops, alive, emitter, commands,
                 running, orphan>>

\* io_thread.join()
Join ==
  /\ main = "join"
  /\ io = "returned"
  /\ main' = "~client"
  /\ UNCHANGED <<io, stopped, state_, ops, alive, emitter, commands,
                 running, orphan>>

\* ~SteamClient, ~CMClient and ~TCPConnection each close the connection if it
\* is CONNECTED; the socket's destructor cancels what is left, in any state.
\* The cancelled handlers stay in the io_context.
Destructor ==
  /\ main = "~client"
  /\ ops' = Aborted
  /\ state_' = IF state_ = "CONNECTED" THEN "DISCONNECTED" ELSE state_
  /\ alive' = FALSE
  /\ listeners' = [e \in Event |-> 0]
  /\ main' = "~io_context"
  /\ UNCHANGED <<io, stopped, registered, commands, running, orphan>>

\* ~io_context destroys the handlers that have not run.
ContextDestructor ==
  /\ main = "~io_context"
  /\ ops' = [o \in Op |-> "none"]
  /\ main' = "exited"
  /\ UNCHANGED <<io, stopped, state_, alive, emitter, commands, running,
                 orphan>>

-----------------------------------------------------------------------------
(* The io thread.                                                          *)

\* io_context::run() takes a queued handler unless it was stopped.
RunsHandler(o, h) ==
  /\ main # "exited"
  /\ io = "run"
  /\ ~stopped
  /\ ops[o] = h
  /\ orphan' = (orphan \/ ~alive)

\* The handler of async_connect.
ConnectHandler ==
  /\ state_ = "CONNECTING"
  /\ \E h \in Handler :
       /\ RunsHandler("chain", h)
       /\ IF h = "ok"
            THEN /\ state_' = "CONNECTED"
                 /\ ops' = [ops EXCEPT !["chain"] = "waiting"]
            ELSE /\ state_' = "DISCONNECTED"
                 /\ ops' = [ops EXCEPT !["chain"] = "none"]
  /\ UNCHANGED <<main, io, stopped, alive, emitter, commands, running>>

\* Mutant: emit() does not test that find() found a listener.
FrameHandler_NoFind ==
  /\ state_ # "CONNECTING"
  /\ RunsHandler("chain", "ok")
  /\ \/ running' = << >>
     \/ \E e \in Event : running' = <<listeners[e]>>
  /\ io' = "on_frame"
  /\ ops' = [ops EXCEPT !["chain"] = "none"]
  /\ UNCHANGED <<main, stopped, state_, alive, emitter, commands>>

\* A body has been read: on_frame_ consumes it and perhaps emits an event.
\* emit() runs the listener of its type, if there is one.
FrameHandler ==
  /\ state_ # "CONNECTING"
  /\ RunsHandler("chain", "ok")
  /\ \/ running' = << >>
     \/ \E e \in Event : listeners[e] # 0 /\ running' = <<listeners[e]>>
  /\ io' = "on_frame"
  /\ ops' = [ops EXCEPT !["chain"] = "none"]
  /\ UNCHANGED <<main, stopped, state_, alive, emitter, commands>>

\* A header or body read failed.
ReadError ==
  /\ state_ # "CONNECTING"
  /\ RunsHandler("chain", "error")
  /\ state_' = "DISCONNECTED"
  /\ ops' = [Aborted EXCEPT !["chain"] = "none"]
  /\ UNCHANGED <<main, io, stopped, alive, emitter, commands, running>>

\* The handler of async_write; another frame may be queued. One that fails
\* leaves its frame in the queue, where it stops all later writes, and closes
\* the connection.
WriteHandler ==
  /\ \/ /\ RunsHandler("write", "ok")
        /\ \E next \in {"none", Started} : ops' = [ops EXCEPT !["write"] = next]
        /\ UNCHANGED state_
     \/ /\ RunsHandler("write", "error")
        /\ state_' = "DISCONNECTED"
        /\ ops' = [Aborted EXCEPT !["write"] = "stalled"]
  /\ UNCHANGED <<main, io, stopped, alive, emitter, commands, running>>

\* A listener executes a command, which sends a message ...
ListenerSends ==
  /\ io = "on_frame"
  /\ running # << >>
  /\ commands < MaxCommands
  /\ commands' = commands + 1
  /\ ops' = [ops EXCEPT !["write"] = IF @ = "none" THEN Started ELSE @]
  /\ UNCHANGED <<main, io, stopped, state_, alive, emitter,
                 running, orphan>>

\* ... or emits an event at once, whose listener runs inside.
ListenerEmits(e) ==
  /\ io = "on_frame"
  /\ running # << >>
  /\ commands < MaxCommands
  /\ commands' = commands + 1
  /\ listeners[e] # 0
  /\ running' = Append(running, listeners[e])
  /\ UNCHANGED <<main, io, stopped, state_, ops, alive, emitter,
                 orphan>>

\* A listener calls disconnect().
ListenerDisconnects ==
  /\ io = "on_frame"
  /\ running # << >>
  /\ shutdown
  /\ UNCHANGED <<main, io, stopped, alive, emitter, commands, running,
                 orphan>>

\* A listener returns or throws: Listener::emit() catches everything.
ListenerEnds ==
  /\ io = "on_frame"
  /\ running # << >>
  /\ running' = SubSeq(running, 1, Len(running) - 1)
  /\ UNCHANGED <<main, io, stopped, state_, ops, alive, emitter, commands,
                 orphan>>

\* on_frame_ has returned: the body handler reads on.
FrameEnds ==
  /\ io = "on_frame"
  /\ running = << >>
  /\ io' = "run"
  /\ ops' = [ops EXCEPT !["chain"] = Started]
  /\ orphan' = (orphan \/ ~alive)
  /\ UNCHANGED <<main, stopped, state_, alive, emitter, commands, running>>

\* io_context::run() returns when stopped, and when it has nothing left to do,
\* which stops it too.
RunReturns ==
  /\ main # "exited"
  /\ io = "run"
  /\ stopped \/ \A o \in Op : ops[o] \in {"none", "stalled"}
  /\ io' = "returned"
  /\ stopped' = TRUE
  /\ UNCHANGED <<main, state_, ops, alive, emitter, commands, running,
                 orphan>>

\* The network completes an operation, well or badly.
Completes(o) ==
  /\ ops[o] = "waiting"
  /\ \E h \in Handler : ops' = [ops EXCEPT ![o] = h]
  /\ UNCHANGED <<main, io, stopped, state_, alive, emitter, commands,
                 running, orphan>>

-----------------------------------------------------------------------------
MainThread ==
  \/ \E e \in Event : on(e)
  \/ connect \/ connect_Throws \/ Spawn \/ KeyPressed \/ disconnect \/ Stop
  \/ Join \/ Destructor \/ ContextDestructor

IoThread ==
  \/ ConnectHandler \/ FrameHandler \/ ReadError \/ WriteHandler
  \/ ListenerSends \/ \E e \in Event : ListenerEmits(e)
  \/ ListenerDisconnects \/ ListenerEnds \/ FrameEnds \/ RunReturns

Network == \E o \in Op : Completes(o)

Next == MainThread \/ IoThread \/ Network

Spec == Init /\ [][Next]_vars

\* The main thread goes on after the key was pressed, the io thread runs, and a
\* listener, which executes finitely many commands, ends. Nothing makes the user
\* press the key or the network answer.
FairSpec ==
  /\ Spec
  /\ WF_vars(disconnect) /\ WF_vars(Stop) /\ WF_vars(Join)
  /\ WF_vars(Destructor) /\ WF_vars(ContextDestructor)
  /\ WF_vars(ConnectHandler \/ FrameHandler \/ ReadError \/ WriteHandler)
  /\ WF_vars(ListenerEnds) /\ WF_vars(FrameEnds) /\ WF_vars(RunReturns)

-----------------------------------------------------------------------------
(* Properties.                                                             *)

\* ~TCPConnection, on(): a handler that holds `this` is still queued when the
\* client is destroyed, but in the order of the examples it never runs after
\* that; and since listeners are registered before connect(), none that runs,
\* however deep emits are nested, has been replaced or destroyed meanwhile.
OnlyLiveObjectsRun ==
  /\ ~orphan
  /\ \A i \in 1 .. Len(running) : \E e \in Event : listeners[e] = running[i]

\* disconnect, stop, join: once the key is pressed the program ends, whatever
\* the connection is doing at that moment.
ProgramExits == main = "disconnect" ~> main = "exited"
=============================================================================
