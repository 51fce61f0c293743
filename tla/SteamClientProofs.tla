--------------------------- MODULE SteamClientProofs ---------------------------
(***************************************************************************)
(* Proofs about SteamClient, for every set of event types and every number *)
(* of listeners and commands. That no handler outlives the client is not   *)
(* inductive: it rests on where the main thread is when the io thread may  *)
(* run, which Phases says.                                                 *)
(***************************************************************************)
EXTENDS SteamClient, TLAPS

\* The phases of the program: no handler runs before the thread is spawned or
\* after it has been joined, the client is destroyed only then, and listeners
\* run in the frame callback only.
Phases ==
  /\ main \in {"setup", "spawn", "terminated"} => io = "none"
  /\ main \in {"~client", "~io_context", "exited"} => io = "returned"
  /\ ~alive => main \in {"~io_context", "exited"}
  /\ io # "on_frame" => running = << >>

LiveInv == Phases /\ OnlyLiveObjectsRun

-----------------------------------------------------------------------------
(* Types.                                                                  *)

OpState == {"none", "waiting", "stalled"} \cup Handler

\* Closing the socket and starting an operation keep the operations typed.
LEMMA OpsTyped ==
  ASSUME TypeOK
  PROVE  /\ Aborted \in [Op -> OpState]
         /\ Started \in OpState
         /\ shutdown => ops' \in [Op -> OpState] /\ state_' \in {state_, "DISCONNECTED"}
         /\ \A o \in Op, v \in OpState :
              /\ [ops EXCEPT ![o] = v] \in [Op -> OpState]
              /\ [Aborted EXCEPT ![o] = v] \in [Op -> OpState]
         /\ "chain" \in Op /\ "write" \in Op
         /\ "none" \in OpState /\ "waiting" \in OpState /\ "stalled" \in OpState
         /\ Handler \subseteq OpState
  <1>1. Aborted \in [Op -> OpState]
    BY DEF TypeOK, Aborted, OpState, Handler
  <1>2. Started \in OpState
    BY DEF Started, OpState, Handler
  <1>3. shutdown => ops' \in [Op -> OpState] /\ state_' \in {state_, "DISCONNECTED"}
    BY <1>1 DEF TypeOK, shutdown, OpState
  <1> QED
    BY <1>1, <1>2, <1>3 DEF TypeOK, OpState, Op, Handler

\* A listener that emit() finds has been registered.
LEMMA ListenerNumber ==
  ASSUME TypeOK, NEW e \in Event, listeners[e] # 0
  PROVE  listeners[e] \in 1 .. MaxListeners
  BY BoundsAssumption DEF TypeOK

\* What emit() and the end of a listener do to the stack of listeners.
LEMMA Stack ==
  ASSUME NEW S, NEW q \in Seq(S), NEW x \in S
  PROVE  /\ <<x>> \in Seq(S) /\ Len(<<x>>) = 1 /\ <<x>>[1] = x
         /\ Append(q, x) \in Seq(S) /\ Len(Append(q, x)) = Len(q) + 1
         /\ \A i \in 1 .. Len(q) + 1 :
              Append(q, x)[i] = IF i = Len(q) + 1 THEN x ELSE q[i]
  OBVIOUS

LEMMA StackTop ==
  ASSUME NEW S, NEW q \in Seq(S), q # << >>
  PROVE  /\ SubSeq(q, 1, Len(q) - 1) \in Seq(S)
         /\ Len(SubSeq(q, 1, Len(q) - 1)) = Len(q) - 1
         /\ \A i \in 1 .. Len(q) - 1 : SubSeq(q, 1, Len(q) - 1)[i] = q[i]
  OBVIOUS

\* Every step of the program keeps the types.
LEMMA TypeStep ==
  ASSUME TypeOK, [Next]_vars
  PROVE  TypeOK'
  <1>0. /\ ops \in [Op -> OpState]
        /\ running \in Seq(1 .. MaxListeners)
        /\ MaxListeners \in Nat /\ MaxCommands \in Nat
        /\ registered \in Nat /\ commands \in Nat
    BY BoundsAssumption DEF TypeOK, OpState
  <1> SUFFICES ASSUME Next PROVE TypeOK'
    BY DEF TypeOK, vars, emitter
  <1>1. CASE \E e \in Event : on(e)
    BY <1>0, <1>1 DEF on, TypeOK
  <1>2. CASE connect
    BY <1>0, <1>2, OpsTyped DEF connect, emitter, TypeOK, OpState
  <1>3. CASE connect_Throws \/ Spawn \/ KeyPressed \/ Stop \/ Join
    BY <1>3 DEF connect_Throws, Spawn, KeyPressed, Stop, Join, emitter, TypeOK
  <1>4. CASE disconnect
    BY <1>4, OpsTyped DEF disconnect, emitter, TypeOK, OpState
  <1>5. CASE Destructor
    <2>1. listeners' \in [Event -> 0 .. MaxListeners]
      BY <1>0, <1>5 DEF Destructor
    <2> QED
      BY <1>5, <2>1, OpsTyped DEF Destructor, TypeOK, OpState
  <1>6. CASE ContextDestructor
    BY <1>6 DEF ContextDestructor, emitter, TypeOK
  <1>7. CASE ConnectHandler
    <2>1. ops' \in [Op -> OpState]
      BY <1>7, OpsTyped DEF ConnectHandler
    <2> QED
      BY <1>7, <2>1 DEF ConnectHandler, RunsHandler, emitter, TypeOK, OpState
  <1>8. CASE FrameHandler
    <2>1. ops' \in [Op -> OpState]
      BY <1>8, OpsTyped DEF FrameHandler
    <2>2. running' \in Seq(1 .. MaxListeners)
      <3>1. CASE running' = << >>
        BY <3>1
      <3>2. ASSUME NEW e \in Event, listeners[e] # 0, running' = <<listeners[e]>>
            PROVE  running' \in Seq(1 .. MaxListeners)
        BY <1>0, <3>2, ListenerNumber, Stack
      <3> QED
        BY <1>8, <3>1, <3>2 DEF FrameHandler
    <2> QED
      BY <1>8, <2>1, <2>2 DEF FrameHandler, RunsHandler, emitter, TypeOK, OpState
  <1>9. CASE ReadError
    <2>1. ops' \in [Op -> OpState]
      BY <1>9, OpsTyped DEF ReadError
    <2> QED
      BY <1>9, <2>1 DEF ReadError, RunsHandler, emitter, TypeOK, OpState
  <1>10. CASE WriteHandler
    <2>1. ops' \in [Op -> OpState]
      BY <1>10, OpsTyped DEF WriteHandler
    <2> QED
      BY <1>10, <2>1 DEF WriteHandler, RunsHandler, emitter, TypeOK, OpState
  <1>11. CASE ListenerSends
    <2>1. ops["write"] \in OpState
      BY <1>0, OpsTyped
    <2>2. ops' \in [Op -> OpState]
      BY <1>11, <2>1, OpsTyped DEF ListenerSends
    <2>3. commands' \in 0 .. MaxCommands
      BY <1>0, <1>11 DEF ListenerSends
    <2> QED
      BY <1>11, <2>2, <2>3 DEF ListenerSends, emitter, TypeOK, OpState
  <1>12. CASE \E e \in Event : ListenerEmits(e)
    <2>1. PICK e \in Event : ListenerEmits(e)
      BY <1>12
    <2>2. running' \in Seq(1 .. MaxListeners)
      BY <1>0, <2>1, ListenerNumber, Stack DEF ListenerEmits
    <2>3. commands' \in 0 .. MaxCommands
      BY <1>0, <2>1 DEF ListenerEmits
    <2> QED
      BY <2>1, <2>2, <2>3 DEF ListenerEmits, emitter, TypeOK
  <1>13. CASE ListenerDisconnects
    BY <1>13, OpsTyped DEF ListenerDisconnects, emitter, TypeOK, OpState
  <1>14. CASE ListenerEnds
    <2>1. running' \in Seq(1 .. MaxListeners)
      BY <1>0, <1>14, StackTop DEF ListenerEnds
    <2> QED
      BY <1>14, <2>1 DEF ListenerEnds, emitter, TypeOK
  <1>15. CASE FrameEnds
    <2>1. ops' \in [Op -> OpState]
      BY <1>15, OpsTyped DEF FrameEnds
    <2> QED
      BY <1>15, <2>1 DEF FrameEnds, emitter, TypeOK, OpState
  <1>16. CASE RunReturns
    BY <1>16 DEF RunReturns, emitter, TypeOK
  <1>17. CASE Network
    <2>1. ops' \in [Op -> OpState]
      BY <1>17, OpsTyped DEF Network, Completes
    <2> QED
      BY <1>17, <2>1 DEF Network, Completes, emitter, TypeOK, OpState
  <1> QED
    BY <1>1, <1>2, <1>3, <1>4, <1>5, <1>6, <1>7, <1>8, <1>9, <1>10, <1>11, <1>12, <1>13,
       <1>14, <1>15, <1>16, <1>17
    DEF Next, MainThread, IoThread

\* Every variable keeps its type; in particular what emit() runs, at any depth of
\* nesting, was given to on().
THEOREM TypeCorrect == Spec => []TypeOK
  <1>1. Init => TypeOK
    <2> SUFFICES ASSUME Init PROVE TypeOK
      OBVIOUS
    <2>1. listeners \in [Event -> 0 .. MaxListeners] /\ registered \in 0 .. MaxListeners
      BY BoundsAssumption DEF Init
    <2>2. commands \in 0 .. MaxCommands
      BY BoundsAssumption DEF Init
    <2>3. running \in Seq(1 .. MaxListeners)
      BY DEF Init
    <2> QED
      BY <2>1, <2>2, <2>3 DEF Init, TypeOK
  <1>2. TypeOK /\ [Next]_vars => TypeOK'
    BY TypeStep
  <1> QED
    BY <1>1, <1>2, PTL DEF Spec

-----------------------------------------------------------------------------
(* Lifetimes.                                                              *)

\* The main thread's steps, and the io thread's, follow the phases.
LEMMA PhaseStep ==
  ASSUME TypeOK, Phases, [Next]_vars
  PROVE  Phases'
  <1> USE DEF Phases
  <1>1. CASE \E e \in Event : on(e)
    BY <1>1 DEF on
  <1>2. CASE connect \/ connect_Throws \/ Spawn \/ KeyPressed \/ disconnect \/ Stop
             \/ Join \/ Destructor \/ ContextDestructor
    BY <1>2 DEF connect, connect_Throws, Spawn, KeyPressed, disconnect, Stop, Join,
                Destructor, ContextDestructor
  <1>3. CASE ConnectHandler \/ FrameHandler \/ ReadError \/ WriteHandler
    BY <1>3 DEF ConnectHandler, FrameHandler, ReadError, WriteHandler, RunsHandler
  <1>4. CASE ListenerSends \/ \E e \in Event : ListenerEmits(e)
    BY <1>4 DEF ListenerSends, ListenerEmits
  <1>5. CASE ListenerDisconnects \/ ListenerEnds \/ FrameEnds \/ RunReturns
    BY <1>5 DEF ListenerDisconnects, ListenerEnds, FrameEnds, RunReturns
  <1>6. CASE Network
    BY <1>6 DEF Network, Completes
  <1>7. CASE UNCHANGED vars
    BY <1>7 DEF vars
  <1> QED
    BY <1>1, <1>2, <1>3, <1>4, <1>5, <1>6, <1>7 DEF Next, MainThread, IoThread

\* Only the io thread runs handlers, and the client lives while it does; only
\* the main thread changes the listeners, and none runs when it does.
LEMMA LiveStep ==
  ASSUME TypeOK, LiveInv, [Next]_vars
  PROVE  OnlyLiveObjectsRun'
  <1>0. io \in {"run", "on_frame"} => alive
    BY DEF LiveInv, Phases
  <1>1. running \in Seq(1 .. MaxListeners)
    BY DEF TypeOK
  <1> USE DEF OnlyLiveObjectsRun
  <1>2. CASE UNCHANGED <<orphan, running, listeners>>
    BY <1>2 DEF LiveInv
  <1>3. ASSUME running = << >>, UNCHANGED <<orphan, running>>
        PROVE  OnlyLiveObjectsRun'
    BY <1>3 DEF LiveInv
  <1>4. CASE (\E e \in Event : on(e)) \/ Destructor
    BY <1>3, <1>4 DEF on, Destructor, LiveInv, Phases
  <1>5. CASE ConnectHandler \/ ReadError \/ WriteHandler \/ FrameEnds
    BY <1>0, <1>2, <1>5
    DEF ConnectHandler, ReadError, WriteHandler, FrameEnds, RunsHandler, emitter, LiveInv
  <1>6. CASE FrameHandler
    <2>1. ~orphan'
      BY <1>0, <1>6 DEF FrameHandler, RunsHandler, LiveInv
    <2>2. UNCHANGED listeners
      BY <1>6 DEF FrameHandler, emitter
    <2>3. ASSUME NEW e \in Event, running' = <<listeners[e]>>
          PROVE  OnlyLiveObjectsRun'
      BY <2>1, <2>2, <2>3
    <2> QED
      BY <1>6, <2>1, <2>3 DEF FrameHandler
  <1>7. CASE \E e \in Event : ListenerEmits(e)
    <2>1. PICK e \in Event : ListenerEmits(e)
      BY <1>7
    <2>2. UNCHANGED <<orphan, listeners>> /\ running' = Append(running, listeners[e])
      BY <2>1 DEF ListenerEmits, emitter
    <2>3. listeners[e] \in 1 .. MaxListeners
      BY <2>1, ListenerNumber DEF ListenerEmits
    <2>4. \A i \in 1 .. Len(running') :
            \/ i \in 1 .. Len(running) /\ running'[i] = running[i]
            \/ running'[i] = listeners[e]
      BY <1>1, <2>2, <2>3
    <2> QED
      BY <2>2, <2>4 DEF LiveInv
  <1>8. CASE ListenerEnds
    <2>1. UNCHANGED <<orphan, listeners>>
      BY <1>8 DEF ListenerEnds, emitter
    <2>2. \A i \in 1 .. Len(running') : i \in 1 .. Len(running) /\ running'[i] = running[i]
      BY <1>1, <1>8, StackTop DEF ListenerEnds
    <2> QED
      BY <2>1, <2>2 DEF LiveInv
  <1>9. CASE connect \/ connect_Throws \/ Spawn \/ KeyPressed \/ disconnect \/ Stop
             \/ Join \/ ContextDestructor
    BY <1>2, <1>9 DEF connect, connect_Throws, Spawn, KeyPressed, disconnect, Stop, Join,
                      ContextDestructor, emitter
  <1>10. CASE ListenerSends \/ ListenerDisconnects \/ RunReturns \/ Network
    BY <1>2, <1>10 DEF ListenerSends, ListenerDisconnects, RunReturns, Network, Completes, emitter
  <1>11. CASE UNCHANGED vars
    BY <1>2, <1>11 DEF vars, emitter
  <1> QED
    BY <1>4, <1>5, <1>6, <1>7, <1>8, <1>9, <1>10, <1>11 DEF Next, MainThread, IoThread

\* ~SteamClient, emit(): in the order in which the examples construct, stop,
\* join and destroy, no handler of the connection runs once the client is gone,
\* and no listener that runs, however deep emits are nested, has been replaced
\* or destroyed meanwhile.
THEOREM LifetimeCorrect == Spec => []OnlyLiveObjectsRun
  <1>1. Init => LiveInv
    BY DEF Init, LiveInv, Phases, OnlyLiveObjectsRun
  <1>2. TypeOK /\ LiveInv /\ [Next]_vars => LiveInv'
    BY PhaseStep, LiveStep DEF LiveInv
  <1>3. LiveInv => OnlyLiveObjectsRun
    BY DEF LiveInv
  <1> QED
    BY <1>1, <1>2, <1>3, TypeCorrect, PTL DEF Spec

=============================================================================
