---------------------------- MODULE CMClientProofs ----------------------------
(***************************************************************************)
(* The session layer for every number of sessions, commands and pushes:    *)
(* types, no logon in plaintext, and in the first session the agreement of *)
(* both sides about the encryption and the order of the messages.          *)
(*                                                                         *)
(* LogonNeverPlain is inductive with the types. SecuredAgreed and          *)
(* CrashOnlyAfterReconnect are not: they look at the present value of      *)
(* channel_secured_, which changes when the result of the handshake has    *)
(* come all the way through rx and work. StreamInv follows it on that way: *)
(* SecuredAfter(n) is what channel_secured_ will be when the first n       *)
(* frames have been gone through, each frame was encrypted accordingly,    *)
(* and the server has switched exactly if the whole stream switches the    *)
(* client.                                                                 *)
(*                                                                         *)
(* The direction to the server (CipherInSync) also needs that a command    *)
(* finds the channel secured: its listener's event came from a message     *)
(* that was encrypted, or is the event of the handshake (LogonInv,         *)
(* ListenerInv); that no plaintext is left in tx when the server switches: *)
(* until then there is one message between the two (GreetedInv); and that  *)
(* none is sent to a server that has not greeted (SentInv).                *)
(*                                                                         *)
(* InOrderDispatch: the flow is the messages dispatched, the parts at work *)
(* and those still in rx, in this order. Every step either moves a message *)
(* within the flow or appends to it what the server sends; only the end of *)
(* the connection cuts it off (OrderInv says at which end). That the parts *)
(* of a Multi take its place is a fact about FlattenSeq, by induction over *)
(* the sequence (SequenceLemmas).                                          *)
(*                                                                         *)
(* start_session leaves channel_secured_ as the last session left it. So   *)
(* the invariants hold in the first session, and in all sessions of a      *)
(* client for which this value is always FALSE (ClearStart).               *)
(***************************************************************************)
EXTENDS CMClient, SequenceLemmas

\* What start_session counts on: channel_secured_ is FALSE.
ClearStart == start_session => ~channel_secured_

\* The messages of the handshake. The server sends them on their own, never in
\* a Multi.
Handshake == {"EncRequest", "EncRequestBad", "EncResultOK", "EncResultFail"}

\* The messages, the frames that carry them.
SingleMsg == {Single(t) : t \in Simple}
MultiMsg  == [multi : {TRUE}, parts : Seq(Simple \ Handshake)]
Message   == SingleMsg \cup MultiMsg
Received  == [enc : BOOLEAN, msg : Message]

\* Every variable's type, as the steps preserve it: what the bounds count, and
\* what a message is made of.
TypeInv ==
  /\ channel_secured_ \in BOOLEAN
  /\ work \in Seq(Message)
  /\ cb \in Seq(Event)
  /\ crashed \in BOOLEAN
  /\ link \in {"down", "connecting", "wedged", "up"}
  /\ stalled \in BOOLEAN
  /\ rx \in Seq(Received)
  /\ tx \in Seq(Request)
  /\ srv \in {"none", "accepted", "greeted", "refused", "secured", "loggedon"}
  /\ connects \in 0 .. MaxConnects
  /\ commands \in 0 .. MaxCommands
  /\ pushes \in 0 .. MaxPushes
  /\ next_jobid_ \in 0 .. commands
  /\ asked \in 0 .. commands
  /\ sent \in Seq(Simple)
  /\ dispatched \in Seq(Simple)
  /\ outcome \in {"none", "ok", "fail"}
  /\ desync \in BOOLEAN

\* A message is in a sequence of messages, or of frames.
InWork(t)  == \E j \in 1 .. Len(work) : work[j] = Single(t)
InRx(t, n) == \E j \in 1 .. n : rx[j].msg = Single(t)
Pending(t) == InWork(t) \/ InRx(t, Len(rx))

\* By the time the client has gone through work and the first n frames it takes
\* the channel for secured.
SecuredAfter(n) ==
  channel_secured_ \/ InWork("EncResultOK") \/ InRx("EncResultOK", n)

\* A connection on which nothing has arrived yet.
Pristine == ~channel_secured_ /\ work = << >> /\ rx = << >>

\* The server has a session exactly on an open connection, and a connection was
\* opened by start_session.
LinkInv ==
  /\ srv # "none" <=> link = "up"
  /\ connects = 0 => link = "down"

\* The stream from the server: each frame is encrypted if the client will take
\* the channel for secured when it reads it, the server has switched if the
\* whole stream switches the client, a refusal is not followed by a switch, and
\* a new connection starts in plaintext.
StreamInv ==
  /\ \A i \in 1 .. Len(rx) : rx[i].enc <=> SecuredAfter(i - 1)
  /\ link = "up" => (ServerSecured <=> SecuredAfter(Len(rx)))
  /\ Pending("EncResultFail") => ~SecuredAfter(Len(rx)) /\ srv # "greeted"
  /\ connects = 0 \/ link \in {"connecting", "wedged"} \/ srv = "accepted" => Pristine
  /\ ~crashed

\* In the first session only.
FirstStreamInv == connects <= 1 => StreamInv

\* One of the parts of m is a t.
Has(m, t) == \E p \in 1 .. Len(m.parts) : m.parts[p] = t

\* The events whose listeners execute commands in the examples.
Enables(e) == e.ok /\ e.type \in {"ChannelSecured", "ClientLogon"}

\* The messages a server greets with.
Requests == {Single("EncRequest"), Single("EncRequestBad")}

\* A logon is confirmed on a secured channel only.
LogonInv ==
  /\ \A j \in 1 .. Len(rx) : Has(rx[j].msg, "LogonOK") => rx[j].enc
  /\ \A j \in 1 .. Len(work) : Has(work[j], "LogonOK") => channel_secured_

\* The listeners that execute commands run on a secured channel.
ListenerInv == \A i \in 1 .. Len(cb) : Enables(cb[i]) => channel_secured_

\* The stream to the server: encrypted once the server has switched, and empty
\* while it has not greeted or after it has refused.
SentInv ==
  /\ ServerSecured => \A i \in 1 .. Len(tx) : tx[i].enc
  /\ srv \in {"none", "accepted", "refused"} => tx = << >>

\* Between the greeting and the switch there is one message on its way: the
\* request, or the client's answer in plaintext.
GreetedInv ==
  /\ link = "up" /\ srv # "greeted" => ~Pending("EncRequest")
  /\ srv = "greeted" =>
       /\ Len(rx) + Len(work) + Len(tx) <= 1
       /\ \A j \in 1 .. Len(rx) : rx[j].msg \in Requests
       /\ \A j \in 1 .. Len(work) : work[j] \in Requests
       /\ \A j \in 1 .. Len(tx) : ~tx[j].enc

\* What both directions need, for an application like the examples.
ModeInv == ~desync /\ LogonInv /\ ListenerInv /\ SentInv /\ GreetedInv

\* In the first session only.
FirstModeInv == ~AnyTime /\ connects <= 1 => ModeInv

-----------------------------------------------------------------------------
(* Messages.                                                               *)

\* A message has its parts; Single(t) is a message, and no Multi.
LEMMA MessageFacts ==
  /\ \A t \in Simple : Single(t) \in Message
  /\ \A m \in Message : m.parts \in Seq(Simple)
  /\ \A m \in Message : m.multi => m \in MultiMsg
  /\ \A m \in MultiMsg : m \in Message /\ m.multi /\ m.parts \in Seq(Simple \ Handshake)
  /\ \A m \in MultiMsg, t \in Simple : m # Single(t)
  /\ \A t, u \in Simple : Single(t) = Single(u) => t = u
  /\ \A t \in Simple : ~Single(t).multi /\ Single(t).parts = <<t>>
  <1>1. ASSUME NEW t \in Simple
        PROVE  /\ Single(t) \in Message
               /\ ~Single(t).multi /\ Single(t).parts = <<t>>
               /\ Single(t).parts \in Seq(Simple)
    <2>1. <<t>> \in Seq(Simple)
      BY OneElement
    <2> QED
      BY <2>1 DEF Single, Message, SingleMsg
  <1>2. ASSUME NEW m \in MultiMsg
        PROVE  m \in Message /\ m.multi /\ m.parts \in Seq(Simple \ Handshake)
    BY DEF Message, MultiMsg
  <1>3. ASSUME NEW q \in Seq(Simple \ Handshake) PROVE q \in Seq(Simple)
    OBVIOUS
  <1>4. ASSUME NEW t \in Simple, NEW u \in Simple, Single(t) = Single(u) PROVE t = u
    <2>1. Single(t).parts[1] = t /\ Single(u).parts[1] = u
      BY DEF Single
    <2> QED
      BY <1>4, <2>1
  <1> QED
    BY <1>1, <1>2, <1>3, <1>4 DEF Message, SingleMsg

\* The messages without a part of the handshake.
Plain == {m \in Message : m.multi \/ m.parts[1] \notin Handshake}

\* They are none of the handshake's messages.
LEMMA PlainFacts ==
  /\ \A m \in Plain, t \in Handshake : m # Single(t)
  /\ \A t \in Simple \ Handshake : Single(t) \in Plain
  /\ \A ts \in Seq(Simple \ Handshake) : Multi(ts) \in Plain /\ Multi(ts).parts = ts
  <1>1. ASSUME NEW m \in Plain, NEW t \in Handshake PROVE m # Single(t)
    BY <1>1, MessageFacts DEF Plain, Single
  <1>2. ASSUME NEW t \in Simple \ Handshake PROVE Single(t) \in Plain
    BY <1>2, MessageFacts DEF Plain, Single
  <1>3. ASSUME NEW ts \in Seq(Simple \ Handshake) PROVE Multi(ts) \in Plain /\ Multi(ts).parts = ts
    BY <1>3 DEF Multi, MultiMsg, Message, Plain
  <1> QED
    BY <1>1, <1>2, <1>3

\* What the server answers is one of them.
LEMMA AnswersPlain ==
  ASSUME NEW t \in {"LogonOK", "LogonFail", "ProductInfo"}, NEW m \in Answers(t)
  PROVE  m \in Plain
  <1>1. t \in Simple \ Handshake
    BY DEF Simple, Handshake
  <1>2. <<"Unknown", t>> \in Seq(Simple \ Handshake)
    BY <1>1 DEF Simple, Handshake
  <1>3. <<t, "ProductInfoBad", "Short">> \in Seq(Simple \ Handshake)
    BY <1>1 DEF Simple, Handshake
  <1> QED
    BY <1>1, <1>2, <1>3, PlainFacts DEF Answers

\* A frame is taken for a message that the server sends.
LEMMA DecodeMessage ==
  ASSUME NEW f \in Received, NEW m \in Decode(f), channel_secured_ \in BOOLEAN
  PROVE  m \in Message
  <1>1. f.msg \in Message
    BY DEF Received
  <1>2. "Unknown" \in Simple /\ "Struct" \in Simple
    BY DEF Simple
  <1> QED
    BY <1>1, <1>2, MessageFacts DEF Decode

\* What ServerSends does to the frames on their way.
LEMMA SendsFrame ==
  ASSUME TypeInv, NEW m \in Message, ServerSends(m)
  PROVE  /\ rx' \in Seq(Received) /\ sent' \in Seq(Simple)
         /\ Len(rx) \in Nat /\ Len(rx') = Len(rx) + 1
         /\ \A i \in 1 .. Len(rx) : rx'[i] = rx[i]
         /\ rx'[Len(rx) + 1].msg = m
         /\ rx'[Len(rx) + 1].enc = ServerSecured
  <1>1. [enc |-> srv \in {"secured", "loggedon"}, msg |-> m] \in Received
    BY DEF Received
  <1>2. rx \in Seq(Received) /\ sent \in Seq(Simple) /\ m.parts \in Seq(Simple)
    BY MessageFacts DEF TypeInv
  <1>3. sent' \in Seq(Simple)
    BY <1>2, Concatenated DEF ServerSends
  <1> QED
    BY <1>1, <1>2, <1>3, Appended DEF ServerSends, ServerSecured

\* The frame that the server reads next is not in the mode it expects.
Wrong == Head(tx).enc # ServerSecured

\* The server reads a frame: it closes, goes on, or goes on and answers.
LEMMA ReceivesCases ==
  ASSUME ServerReceives
  PROVE  /\ ~crashed /\ link = "up" /\ tx # << >>
         /\ UNCHANGED <<session, bounds, dispatched, outcome, asked>>
         /\ desync' = (desync \/ Wrong)
         /\ \/ /\ link' = "down" /\ rx' = << >> /\ tx' = << >> /\ srv' = "none"
               /\ stalled' \in {stalled, stalled \/ Len(tx) > 1} /\ UNCHANGED sent
            \/ /\ ~Wrong /\ tx' = Tail(tx) /\ UNCHANGED <<link, stalled>>
               /\ \/ UNCHANGED <<srv, rx, sent>>
                  \/ /\ Head(tx).type = "EncResponse" /\ srv = "greeted"
                     /\ \/ srv' = "secured" /\ ServerSends(Single("EncResultOK"))
                        \/ srv' = "refused" /\ ServerSends(Single("EncResultFail"))
                  \/ /\ Head(tx).type = "Logon" /\ srv' \in {srv, "loggedon"}
                     /\ \E m \in Plain : ServerSends(m)
                  \/ /\ srv = "loggedon" /\ srv' = srv
                     /\ \E m \in Plain : ServerSends(m)
  BY AnswersPlain DEF ServerReceives, Wrong, ServerSecured

-----------------------------------------------------------------------------
(* Types.                                                                  *)

\* The next message is dispatched.
LEMMA DispatchFacts ==
  ASSUME TypeInv, NEW t \in Simple, Dispatch(t)
  PROVE  /\ ~crashed /\ cb = << >> /\ work # << >> /\ Head(work) = Single(t)
         /\ work' = Tail(work) /\ work' \in Seq(Message)
         /\ dispatched' \in Seq(Simple)
         /\ UNCHANGED <<crashed, next_jobid_, srv, bounds, sent, desync>>
  BY HeadTail, Appended DEF Dispatch, TypeInv

\* async_send() queues a frame, if it does anything.
LEMMA SendFacts ==
  ASSUME TypeInv, NEW type \in {"EncResponse", "Logon", "LogOff", "ProductInfoRequest"},
         send_msg(type)
  PROVE  /\ \/ tx' = tx
            \/ /\ link \in {"up", "connecting"}
               /\ tx' = Append(tx, [type |-> type, enc |-> channel_secured_])
         /\ [type |-> type, enc |-> channel_secured_] \in Request
         /\ tx' \in Seq(Request)
         /\ stalled' \in BOOLEAN
         /\ link' = link \/ (link = "wedged" /\ link' = "down")
         /\ UNCHANGED rx
  <1>1. [type |-> type, enc |-> channel_secured_] \in Request
    BY DEF Request, TypeInv
  <1>2. tx \in Seq(Request) /\ stalled \in BOOLEAN
    BY DEF TypeInv
  <1>3. /\ \/ tx' = tx
           \/ /\ link \in {"up", "connecting"}
              /\ tx' = Append(tx, [type |-> type, enc |-> channel_secured_])
        /\ stalled' = (stalled \/ link \in {"down", "wedged"})
        /\ link' = link \/ (link = "wedged" /\ link' = "down")
        /\ UNCHANGED rx
    BY DEF send_msg, async_send
  <1>4. tx' \in Seq(Request)
    BY <1>1, <1>2, <1>3, Appended
  <1> QED
    BY <1>1, <1>2, <1>3, <1>4

\* The end of a connection leaves at most the frame that was read.
LEMMA CloseFacts ==
  ASSUME TypeInv, LinkCloses
  PROVE  /\ link' = "down" /\ tx' = << >> /\ srv' = "none" /\ stalled' \in BOOLEAN
         /\ rx' = << >> \/ (rx # << >> /\ rx' = <<Head(rx)>>)
         /\ rx' \in Seq(Received)
  <1>1. rx' = << >> \/ (rx # << >> /\ rx' = <<Head(rx)>>)
    BY DEF LinkCloses
  <1>2. rx # << >> => Head(rx) \in Received
    BY HeadTail DEF TypeInv
  <1>3. rx' \in Seq(Received)
    <2>1. CASE rx' = << >>
      BY <2>1
    <2>2. CASE rx # << >> /\ rx' = <<Head(rx)>>
      BY <1>2, <2>2, OneElement
    <2> QED
      BY <1>1, <2>1, <2>2
  <1> QED
    BY <1>1, <1>3 DEF LinkCloses, TypeInv

\* Every event that is emitted is an event.
LEMMA EmitFacts ==
  ASSUME TypeInv, NEW type \in {"ChannelSecured", "ClientLogon", "ProductInfoResult",
                                "MsgNotImplemented"},
         NEW ok \in BOOLEAN, Emit(type, ok)
  PROVE  /\ [type |-> type, ok |-> ok] \in Event
         /\ cb' = Append(cb, [type |-> type, ok |-> ok])
         /\ cb' \in Seq(Event)
  <1>1. [type |-> type, ok |-> ok] \in Event
    BY DEF Event
  <1> QED
    BY <1>1, Appended DEF Emit, TypeInv

\* The types of the messages that are dispatched.
LEMMA DispatchTypes ==
  /\ \A ok \in BOOLEAN : (IF ok THEN "EncResultOK" ELSE "EncResultFail") \in Simple
  /\ \A ok \in BOOLEAN : (IF ok THEN "LogonOK" ELSE "LogonFail") \in Simple
  /\ {"EncRequest", "EncRequestBad", "EncResultOK", "EncResultFail", "LogonOK", "LogonFail",
      "ProductInfo", "ProductInfoBad", "Unknown", "Struct", "Short"} \subseteq Simple
  BY DEF Simple

\* handle_multi puts the parts in front of what is left, each on its own.
LEMMA MultiFacts ==
  ASSUME TypeInv, handle_multi
  PROVE  LET ms == [i \in 1 .. Len(Head(work).parts) |-> Single(Head(work).parts[i])]
         IN  /\ Head(work) \in MultiMsg /\ ms \in Seq(Message)
             /\ work # << >>
             /\ work' = ms \o Tail(work) /\ work' \in Seq(Message)
             /\ Len(ms) = Len(Head(work).parts) /\ Len(ms) \in Nat
             /\ \A i \in 1 .. Len(ms) : /\ Head(work).parts[i] \in Simple \ Handshake
                                        /\ ms[i] = Single(Head(work).parts[i])
  <1> DEFINE ms == [i \in 1 .. Len(Head(work).parts) |-> Single(Head(work).parts[i])]
  <1>1. work # << >> /\ Head(work).multi /\ work' = ms \o Tail(work)
    BY DEF handle_multi
  <1>2. Head(work) \in Message /\ Tail(work) \in Seq(Message)
    BY <1>1, HeadTail DEF TypeInv
  <1>3. Head(work) \in MultiMsg /\ Head(work).parts \in Seq(Simple \ Handshake)
    BY <1>1, <1>2, MessageFacts
  <1>4. /\ Len(Head(work).parts) \in Nat
        /\ \A i \in 1 .. Len(Head(work).parts) : Head(work).parts[i] \in Simple \ Handshake
    BY <1>3
  <1>5. \A i \in 1 .. Len(Head(work).parts) : Single(Head(work).parts[i]) \in Message
    BY <1>4, MessageFacts
  <1>6. ms \in Seq(Message) /\ Len(ms) = Len(Head(work).parts)
    BY <1>4, <1>5
  <1>7. work' \in Seq(Message)
    BY <1>1, <1>2, <1>6, Concatenated
  <1> QED
    BY <1>1, <1>3, <1>4, <1>6, <1>7

\* Every step keeps the types.
LEMMA TypeStep ==
  ASSUME TypeInv, [Next]_vars
  PROVE  TypeInv'
  <1>0. /\ MaxConnects \in Nat /\ MaxCommands \in Nat /\ MaxPushes \in Nat
        /\ connects \in Nat /\ commands \in Nat /\ pushes \in Nat
        /\ next_jobid_ \in Nat /\ asked \in Nat
    BY BoundsAssumption DEF TypeInv
  <1>1. CASE start_session
    <2>1. connects' \in 0 .. MaxConnects /\ asked' \in 0 .. commands'
      BY <1>0, <1>1 DEF start_session
    <2>2. sent' \in Seq(Simple) /\ dispatched' \in Seq(Simple)
      BY <1>1 DEF start_session
    <2> QED
      BY <1>1, <2>1, <2>2 DEF start_session, session, TypeInv
  <1>2. CASE shutdown \/ LinkLost
    <2>1. LinkCloses /\ UNCHANGED <<session, bounds, sent, dispatched, outcome, asked, desync>>
      BY <1>2 DEF shutdown, LinkLost
    <2>2. UNCHANGED <<channel_secured_, next_jobid_, work, cb, crashed, connects, commands,
                      pushes, sent, dispatched, outcome, asked, desync>>
      BY <2>1 DEF session, bounds
    <2>3. /\ link' = "down" /\ tx' = << >> /\ srv' = "none" /\ stalled' \in BOOLEAN
          /\ rx' \in Seq(Received)
      BY <2>1, CloseFacts
    <2>4. tx' \in Seq(Request)
      BY <2>3
    <2> QED
      BY <2>2, <2>3, <2>4 DEF TypeInv
  <1>3. CASE consume_frame
    <2>1. rx # << >> /\ Head(rx) \in Received /\ rx' \in Seq(Received)
      BY <1>3, HeadTail DEF consume_frame, TypeInv
    <2>2. work' \in Seq(Message) /\ crashed' \in BOOLEAN
      <3>1. CASE crashed' = TRUE /\ UNCHANGED work
        BY <3>1 DEF TypeInv
      <3>2. ASSUME NEW m \in Decode(Head(rx)), work' = <<m>>, UNCHANGED crashed
            PROVE  work' \in Seq(Message) /\ crashed' \in BOOLEAN
        <4>1. m \in Message
          BY <2>1, DecodeMessage DEF TypeInv
        <4> QED
          BY <3>2, <4>1, OneElement DEF TypeInv
      <3> QED
        BY <1>3, <3>1, <3>2 DEF consume_frame
    <2> QED
      BY <1>3, <2>1, <2>2 DEF consume_frame, bounds, TypeInv
  <1>4. CASE handle_multi
    BY <1>4, MultiFacts DEF handle_multi, bounds, wire, TypeInv
  <1>5. ASSUME NEW t \in Simple, Dispatch(t),
               channel_secured_' \in BOOLEAN, outcome' \in {"none", "ok", "fail"},
               asked' \in 0 .. asked, cb' \in Seq(Event),
               UNCHANGED wire \/ send_msg("EncResponse")
        PROVE  TypeInv'
    <2>1. asked' \in 0 .. commands
      BY <1>0, <1>5 DEF TypeInv
    <2>2. /\ work' \in Seq(Message) /\ dispatched' \in Seq(Simple)
          /\ UNCHANGED <<crashed, next_jobid_, srv, connects, commands, pushes, sent, desync>>
      BY <1>5, DispatchFacts DEF bounds
    <2>3. /\ rx' \in Seq(Received) /\ tx' \in Seq(Request) /\ stalled' \in BOOLEAN
          /\ link' \in {"down", "connecting", "wedged", "up"}
      <3>1. CASE UNCHANGED wire
        BY <3>1 DEF wire, TypeInv
      <3>2. CASE send_msg("EncResponse")
        BY <3>2, SendFacts DEF TypeInv
      <3> QED
        BY <1>5, <3>1, <3>2
    <2> QED
      BY <1>5, <2>1, <2>2, <2>3 DEF TypeInv
  <1>a. asked \in 0 .. asked /\ cb \in Seq(Event) /\ channel_secured_ \in BOOLEAN
        /\ outcome \in {"none", "ok", "fail"}
    BY <1>0 DEF TypeInv
  <1>6. CASE handle_encrypt_request
    <2>1. PICK t \in {"EncRequest", "EncRequestBad"} :
            /\ Dispatch(t)
            /\ \/ send_msg("EncResponse") /\ UNCHANGED <<cb, outcome>>
               \/ /\ Emit("ChannelSecured", FALSE) /\ outcome' = "fail" /\ UNCHANGED wire
            /\ UNCHANGED <<channel_secured_, asked>>
      BY <1>6 DEF handle_encrypt_request
    <2>2. cb' \in Seq(Event)
      BY <1>a, <2>1, EmitFacts
    <2> QED
      BY <1>5, <1>a, <2>1, <2>2, DispatchTypes
  <1>7. CASE handle_encrypt_result
    <2>1. PICK ok \in BOOLEAN :
            /\ Dispatch(IF ok THEN "EncResultOK" ELSE "EncResultFail")
            /\ channel_secured_' = ok
            /\ Emit("ChannelSecured", ok)
            /\ outcome' = IF ok THEN "ok" ELSE "fail"
            /\ UNCHANGED <<wire, asked>>
      BY <1>7 DEF handle_encrypt_result
    <2>2. cb' \in Seq(Event)
      BY <2>1, EmitFacts
    <2> QED
      BY <1>5, <1>a, <2>1, <2>2, DispatchTypes
  <1>8. CASE handle_logon_response
    <2>1. PICK ok \in BOOLEAN :
            /\ Dispatch(IF ok THEN "LogonOK" ELSE "LogonFail")
            /\ Emit("ClientLogon", ok)
            /\ asked' = IF asked > 0 THEN asked - 1 ELSE 0
            /\ UNCHANGED <<channel_secured_, wire, outcome>>
      BY <1>8 DEF handle_logon_response
    <2>2. cb' \in Seq(Event)
      BY <2>1, EmitFacts
    <2>3. asked' \in 0 .. asked
      BY <1>0, <2>1
    <2> QED
      BY <1>5, <1>a, <2>1, <2>2, <2>3, DispatchTypes
  <1>9. CASE handle_prod_info_response
    <2>1. PICK t \in {"ProductInfo", "ProductInfoBad"} :
            /\ Dispatch(t)
            /\ Emit("ProductInfoResult", TRUE) \/ UNCHANGED cb
            /\ UNCHANGED <<channel_secured_, asked, wire, outcome>>
      BY <1>9 DEF handle_prod_info_response
    <2>2. cb' \in Seq(Event)
      BY <1>a, <2>1, EmitFacts
    <2> QED
      BY <1>5, <1>a, <2>1, <2>2, DispatchTypes
  <1>10. CASE dispatch_default
    <2>1. PICK t \in {"Unknown", "Struct", "Short"} :
            /\ Dispatch(t)
            /\ Emit("MsgNotImplemented", FALSE) \/ UNCHANGED cb
            /\ UNCHANGED <<channel_secured_, asked, wire, outcome>>
      BY <1>10 DEF dispatch_default
    <2>2. cb' \in Seq(Event)
      BY <1>a, <2>1, EmitFacts
    <2> QED
      BY <1>5, <1>a, <2>1, <2>2, DispatchTypes
  <1>11. CASE ListenerReturns
    <2>1. cb' \in Seq(Event)
      BY <1>a, <1>11 DEF ListenerReturns, Front
    <2> QED
      BY <1>11, <2>1 DEF ListenerReturns, bounds, wire, TypeInv
  <1>12. ASSUME NEW when, Execute(when), asked' \in {asked, asked + 1},
                next_jobid_' \in {next_jobid_, next_jobid_ + 1}, cb' \in Seq(Event),
                \/ UNCHANGED wire
                \/ \E type \in {"Logon", "LogOff", "ProductInfoRequest"} : send_msg(type)
         PROVE  TypeInv'
    <2>1. commands' \in 0 .. MaxCommands /\ asked' \in 0 .. commands'
          /\ next_jobid_' \in 0 .. commands'
      BY <1>0, <1>12 DEF Execute, TypeInv
    <2>2. /\ rx' \in Seq(Received) /\ tx' \in Seq(Request) /\ stalled' \in BOOLEAN
          /\ link' \in {"down", "connecting", "wedged", "up"}
      <3>1. CASE UNCHANGED wire
        BY <3>1 DEF wire, TypeInv
      <3>2. CASE \E type \in {"Logon", "LogOff", "ProductInfoRequest"} : send_msg(type)
        BY <3>2, SendFacts DEF TypeInv
      <3> QED
        BY <1>12, <3>1, <3>2
    <2> QED
      BY <1>12, <2>1, <2>2 DEF Execute, TypeInv
  <1>13. CASE exec_anon_logon
    <2>1. cb' \in Seq(Event)
      BY <1>a, <1>13, EmitFacts DEF exec_anon_logon
    <2> QED
      BY <1>12, <1>13, <2>1 DEF exec_anon_logon
  <1>14. CASE exec_logoff
    BY <1>a, <1>12, <1>14 DEF exec_logoff
  <1>15. CASE exec_get_product_info
    BY <1>a, <1>12, <1>15 DEF exec_get_product_info
  <1>16. CASE LinkUp
    BY <1>16 DEF LinkUp, session, bounds, TypeInv
  <1>17. CASE ServerGreets
    <2>1. PICK t \in {"EncRequest", "EncRequestBad"} : ServerSends(Single(t))
      BY <1>17 DEF ServerGreets
    <2>2. Single(t) \in Message
      BY DispatchTypes, MessageFacts
    <2> QED
      BY <1>17, <2>1, <2>2, SendsFrame DEF ServerGreets, session, bounds, TypeInv
  <1>18. CASE ServerReceives
    <2>0. tx' \in Seq(Request)
      <3>1. tx \in Seq(Request) /\ tx # << >> /\ (tx' = << >> \/ tx' = Tail(tx))
        BY <1>18, ReceivesCases DEF TypeInv
      <3>2. Tail(tx) \in Seq(Request)
        BY <3>1, HeadTail
      <3>3. CASE tx' = << >>
        BY <3>3
      <3> QED
        BY <3>1, <3>2, <3>3
    <2>1. /\ stalled' \in BOOLEAN /\ desync' \in BOOLEAN
          /\ srv' \in {"none", "accepted", "greeted", "refused", "secured", "loggedon"}
          /\ link' \in {"down", "connecting", "wedged", "up"}
      <3>1. desync' \in BOOLEAN /\ stalled' \in BOOLEAN
        BY <1>18, ReceivesCases DEF TypeInv
      <3>2. /\ srv' \in {srv, "none", "secured", "refused", "loggedon"}
            /\ link' \in {link, "down"}
        BY <1>18, ReceivesCases
      <3> QED
        BY <3>1, <3>2 DEF TypeInv
    <2>2. rx' \in Seq(Received) /\ sent' \in Seq(Simple)
      <3>1. CASE rx' = << >> /\ UNCHANGED sent
        BY <3>1 DEF TypeInv
      <3>2. CASE UNCHANGED <<rx, sent>>
        BY <3>2 DEF TypeInv
      <3>3. CASE \E m \in Message : ServerSends(m)
        BY <3>3, SendsFrame
      <3>4. /\ Single("EncResultOK") \in Message /\ Single("EncResultFail") \in Message
            /\ Plain \subseteq Message
        BY DispatchTypes, MessageFacts DEF Plain
      <3> QED
        BY <1>18, <3>1, <3>2, <3>3, <3>4, ReceivesCases
    <2> QED
      BY <1>18, <2>0, <2>1, <2>2, ReceivesCases DEF session, bounds, TypeInv
  <1>19. CASE ServerPushes
    <2>1. PICK t \in {"Unknown", "Struct"} : ServerSends(Single(t))
      BY <1>19 DEF ServerPushes
    <2>2. Single(t) \in Message
      BY DispatchTypes, MessageFacts
    <2>3. pushes' \in 0 .. MaxPushes
      BY <1>0, <1>19 DEF ServerPushes
    <2> QED
      BY <1>19, <2>1, <2>2, <2>3, SendsFrame DEF ServerPushes, session, TypeInv
  <1>20. CASE UNCHANGED vars
    BY <1>20 DEF vars, session, wire, bounds, TypeInv
  <1> QED
    BY <1>1, <1>2, <1>3, <1>4, <1>6, <1>7, <1>8, <1>9, <1>10, <1>11, <1>13, <1>14, <1>15,
       <1>16, <1>17, <1>18, <1>19, <1>20
    DEF Next, Handlers

\* The initial state has the types.
LEMMA TypeInit == Init => TypeInv
  <1> SUFFICES ASSUME Init PROVE TypeInv
    OBVIOUS
  <1>1. /\ connects \in 0 .. MaxConnects /\ commands \in 0 .. MaxCommands
        /\ pushes \in 0 .. MaxPushes
        /\ next_jobid_ \in 0 .. commands /\ asked \in 0 .. commands
    BY BoundsAssumption DEF Init
  <1>2. /\ work \in Seq(Message) /\ cb \in Seq(Event) /\ rx \in Seq(Received)
        /\ tx \in Seq(Request) /\ sent \in Seq(Simple) /\ dispatched \in Seq(Simple)
    BY DEF Init
  <1> QED
    BY <1>1, <1>2 DEF Init, TypeInv

\* The invariant of the types, for use in the other invariants.
LEMMA TypeInvCorrect == Spec => []TypeInv
  BY TypeInit, TypeStep, PTL DEF Spec

\* They are those of the module.
LEMMA TypeInvImplies == TypeInv => TypeOK
  <1> SUFFICES ASSUME TypeInv PROVE TypeOK
    OBVIOUS
  <1>1. ASSUME NEW m \in Message PROVE IsMessage(m)
    <2>1. m.parts \in Seq(Simple)
      BY MessageFacts
    <2>2. DOMAIN m = {"multi", "parts"} /\ m.multi \in BOOLEAN
      <3>1. CASE m \in SingleMsg
        <4>1. PICK t \in Simple : m = [multi |-> FALSE, parts |-> <<t>>]
          BY <3>1 DEF SingleMsg, Single
        <4>2. DOMAIN [multi |-> FALSE, parts |-> <<t>>] = {"multi", "parts"}
          OBVIOUS
        <4> QED
          BY <4>1, <4>2
      <3>2. CASE m \in MultiMsg
        BY <3>2 DEF MultiMsg
      <3> QED
        BY <3>1, <3>2 DEF Message
    <2> QED
      BY <2>1, <2>2 DEF IsMessage
  <1>2. \A i \in 1 .. Len(work) : work[i] \in Message
    BY DEF TypeInv
  <1>3. \A i \in 1 .. Len(rx) : rx[i] \in Received
    BY DEF TypeInv
  <1>4. \A i \in 1 .. Len(rx) : rx[i].enc \in BOOLEAN /\ rx[i].msg \in Message
    BY <1>3 DEF Received
  <1>5. next_jobid_ \in 0 .. MaxCommands /\ asked \in 0 .. MaxCommands
    BY BoundsAssumption DEF TypeInv
  <1> QED
    BY <1>1, <1>2, <1>4, <1>5 DEF TypeInv, TypeOK

\* Every variable of the session keeps its type: no handler, command or loss of
\* the connection leaves a message, an event or a count that is none.
THEOREM TypeCorrect == Spec => []TypeOK
  BY TypeInvCorrect, TypeInvImplies, PTL

-----------------------------------------------------------------------------
(* Logons.                                                                 *)

\* A frame that is queued keeps the property if it does.
LEMMA SendKeepsLogon ==
  ASSUME TypeInv, LogonNeverPlain,
         NEW type \in {"EncResponse", "Logon", "LogOff", "ProductInfoRequest"},
         send_msg(type), type \in {"Logon", "LogOff"} => channel_secured_
  PROVE  LogonNeverPlain'
  <1> DEFINE r == [type |-> type, enc |-> channel_secured_]
  <1>1. tx \in Seq(Request) /\ r \in Request
    BY SendFacts DEF TypeInv
  <1>2. CASE tx' = tx
    BY <1>2 DEF LogonNeverPlain
  <1>3. CASE tx' = Append(tx, r)
    <2>1. \A i \in 1 .. Len(tx') :
            \/ i \in 1 .. Len(tx) /\ tx'[i] = tx[i]
            \/ tx'[i] = r
      BY <1>1, <1>3, Appended
    <2> QED
      BY <2>1 DEF LogonNeverPlain
  <1> QED
    BY <1>2, <1>3, SendFacts

\* Only the commands and the answer to the server's request queue a frame.
LEMMA LogonStep ==
  ASSUME TypeInv, LogonNeverPlain, [Next]_vars
  PROVE  LogonNeverPlain'
  <1>1. CASE UNCHANGED tx
    BY <1>1 DEF LogonNeverPlain
  <1>2. CASE tx' = << >>
    BY <1>2 DEF LogonNeverPlain
  <1>3. CASE tx # << >> /\ tx' = Tail(tx)
    <2>1. \A i \in 1 .. Len(tx') : tx'[i] = tx[i + 1] /\ i + 1 \in 1 .. Len(tx)
      BY <1>3, HeadTail DEF TypeInv
    <2> QED
      BY <2>1 DEF LogonNeverPlain
  <1>4. CASE shutdown \/ LinkLost
    BY <1>2, <1>4, CloseFacts DEF shutdown, LinkLost
  <1>5. CASE ServerReceives
    BY <1>2, <1>3, <1>5, ReceivesCases
  <1>6. CASE handle_encrypt_request
    BY <1>1, <1>6, SendKeepsLogon DEF handle_encrypt_request, wire
  <1>7. CASE exec_anon_logon
    BY <1>1, <1>7, SendKeepsLogon DEF exec_anon_logon, wire
  <1>8. CASE exec_logoff
    BY <1>1, <1>8, SendKeepsLogon DEF exec_logoff, wire
  <1>9. CASE exec_get_product_info
    BY <1>9, SendKeepsLogon DEF exec_get_product_info
  <1>10. CASE \/ start_session \/ consume_frame \/ handle_multi \/ handle_encrypt_result
              \/ handle_logon_response \/ handle_prod_info_response \/ dispatch_default
              \/ ListenerReturns
    BY <1>1, <1>10
    DEF start_session, consume_frame, handle_multi, handle_encrypt_result,
        handle_logon_response, handle_prod_info_response, dispatch_default,
        ListenerReturns, wire
  <1>11. CASE LinkUp \/ ServerGreets \/ ServerPushes \/ UNCHANGED vars
    BY <1>1, <1>11 DEF LinkUp, ServerGreets, ServerPushes, vars, wire
  <1> QED
    BY <1>4, <1>5, <1>6, <1>7, <1>8, <1>9, <1>10, <1>11 DEF Next, Handlers

\* exec_anon_logon / exec_logoff: a logon or logoff is never on its way in
\* plaintext, in no session, whichever commands are executed and whenever.
THEOREM LogonCorrect == Spec => []LogonNeverPlain
  <1>1. Init => LogonNeverPlain
    BY DEF Init, LogonNeverPlain
  <1> QED
    BY <1>1, LogonStep, TypeInvCorrect, PTL DEF Spec

-----------------------------------------------------------------------------
(* The first session: both sides switch at the same place of the stream.   *)

\* Only start_session counts connections, from a closed link.
LEMMA LinkStep ==
  ASSUME TypeInv, LinkInv, [Next]_vars
  PROVE  LinkInv' /\ connects' \in {connects, connects + 1}
         /\ (connects' # connects => start_session)
  <1> USE DEF LinkInv
  <1>1. CASE UNCHANGED <<link, srv, connects>>
    BY <1>1
  <1>2. ASSUME NEW type \in {"EncResponse", "Logon", "LogOff", "ProductInfoRequest"},
               send_msg(type), UNCHANGED <<srv, connects>>
        PROVE  LinkInv'
    BY <1>2, SendFacts
  <1>3. CASE start_session
    <2>1. connects' = connects + 1 /\ link = "down" /\ UNCHANGED srv
          /\ link' \in {"connecting", "wedged"}
      BY <1>3 DEF start_session
    <2> QED
      BY <1>3, <2>1 DEF TypeInv
  <1>4. CASE shutdown \/ LinkLost
    BY <1>4, CloseFacts DEF shutdown, LinkLost, bounds
  <1>5. CASE consume_frame \/ handle_multi \/ ListenerReturns
    BY <1>1, <1>5 DEF consume_frame, handle_multi, ListenerReturns, bounds, wire
  <1>6. CASE handle_encrypt_request
    <2>1. UNCHANGED <<srv, connects>> /\ (UNCHANGED link \/ send_msg("EncResponse"))
      BY <1>6 DEF handle_encrypt_request, Dispatch, bounds, wire
    <2> QED
      BY <1>1, <1>2, <2>1
  <1>7. CASE handle_encrypt_result \/ handle_logon_response \/ handle_prod_info_response
             \/ dispatch_default
    BY <1>1, <1>7
    DEF handle_encrypt_result, handle_logon_response, handle_prod_info_response,
        dispatch_default, Dispatch, bounds, wire
  <1>8. CASE exec_anon_logon \/ exec_logoff \/ exec_get_product_info
    <2>1. UNCHANGED <<srv, connects>>
          /\ (UNCHANGED link
              \/ \E type \in {"Logon", "LogOff", "ProductInfoRequest"} : send_msg(type))
      BY <1>8 DEF exec_anon_logon, exec_logoff, exec_get_product_info, Execute, wire
    <2> QED
      BY <1>1, <1>2, <2>1
  <1>9. CASE LinkUp
    BY <1>9 DEF LinkUp, bounds
  <1>10. CASE ServerGreets \/ ServerPushes
    BY <1>10 DEF ServerGreets, ServerPushes, bounds
  <1>11. CASE ServerReceives
    BY <1>11, ReceivesCases DEF bounds
  <1>12. CASE UNCHANGED vars
    BY <1>1, <1>12 DEF vars, wire, bounds
  <1> QED
    BY <1>3, <1>4, <1>5, <1>6, <1>7, <1>8, <1>9, <1>10, <1>11, <1>12 DEF Next, Handlers

\* The steps that touch neither the stream nor its ends.
LEMMA AsideStream ==
  ASSUME StreamInv, UNCHANGED <<channel_secured_, work, rx, srv, crashed, connects>>,
         link' = link \/ (link = "wedged" /\ link' = "down")
  PROVE  StreamInv'
  <1>1. /\ \A n : SecuredAfter(n)' = SecuredAfter(n)
        /\ Pending("EncResultFail")' = Pending("EncResultFail")
        /\ ServerSecured' = ServerSecured
        /\ Pristine' = Pristine
    BY DEF SecuredAfter, Pending, InWork, InRx, ServerSecured, Pristine
  <1> QED
    BY <1>1 DEF StreamInv

\* Taking the front of the work away.
LEMMA WorkPop ==
  ASSUME TypeInv, work # << >>, work' = Tail(work), NEW t
  PROVE  InWork(t) <=> (Head(work) = Single(t) \/ InWork(t)')
  <1>1. work \in Seq(Message)
    BY DEF TypeInv
  <1>2. ASSUME NEW j \in 1 .. Len(work), work[j] = Single(t), Head(work) # Single(t)
        PROVE  \E i \in 1 .. Len(work') : work'[i] = Single(t)
    <2>1. j # 1
      BY <1>1, <1>2, HeadTail
    <2>2. j - 1 \in 1 .. Len(work') /\ work[j] = work'[j - 1]
      BY <1>1, <1>2, <2>1, HeadTail
    <2> QED
      BY <1>2, <2>2
  <1>3. ASSUME NEW i \in 1 .. Len(work'), work'[i] = Single(t)
        PROVE  \E j \in 1 .. Len(work) : work[j] = Single(t)
    BY <1>1, <1>3, HeadTail
  <1>4. Head(work) = work[1] /\ 1 \in 1 .. Len(work)
    BY <1>1, HeadTail
  <1> QED
    BY <1>2, <1>3, <1>4 DEF InWork

\* A message that does not conclude the handshake well leaves the stream.
LEMMA PopStream ==
  ASSUME TypeInv, StreamInv, work # << >>, work' = Tail(work),
         Head(work) # Single("EncResultOK"),
         UNCHANGED <<channel_secured_, rx, srv, crashed, connects>>,
         link' = link \/ (link = "wedged" /\ link' = "down")
  PROVE  StreamInv'
  <1>2. InWork("EncResultOK")' <=> InWork("EncResultOK")
    BY WorkPop
  <1>3. InWork("EncResultFail")' => InWork("EncResultFail")
    BY WorkPop
  <1>4. /\ \A n : SecuredAfter(n)' <=> SecuredAfter(n)
        /\ Pending("EncResultFail")' => Pending("EncResultFail")
        /\ ServerSecured' = ServerSecured
    BY <1>2, <1>3 DEF SecuredAfter, Pending, InRx, ServerSecured
  <1>5. ~(connects = 0 \/ link \in {"connecting", "wedged"} \/ srv = "accepted")
    BY DEF StreamInv, Pristine
  <1> QED
    BY <1>4, <1>5 DEF StreamInv

\* The handshake is concluded: the key is accepted, or refused.
LEMMA ResultStream ==
  ASSUME TypeInv, StreamInv, handle_encrypt_result
  PROVE  StreamInv'
  <1>1. PICK ok \in BOOLEAN :
          /\ Dispatch(IF ok THEN "EncResultOK" ELSE "EncResultFail")
          /\ channel_secured_' = ok
          /\ UNCHANGED wire
    BY DEF handle_encrypt_result
  <1>2. /\ work # << >> /\ work' = Tail(work)
        /\ Head(work) = Single(IF ok THEN "EncResultOK" ELSE "EncResultFail")
        /\ UNCHANGED <<rx, srv, crashed, connects, link>>
    BY <1>1, DispatchFacts, DispatchTypes DEF wire, bounds
  <1>3. work \in Seq(Message) /\ channel_secured_ \in BOOLEAN
    BY DEF TypeInv
  <1>4. CASE ~ok
    <2>1. InWork("EncResultFail")
      BY <1>2, <1>3, <1>4, HeadTail DEF InWork
    <2>2. ~channel_secured_
      BY <2>1 DEF StreamInv, Pending, SecuredAfter
    <2>3. Head(work) # Single("EncResultOK")
      BY <1>2, <1>4, MessageFacts, DispatchTypes
    <2>4. channel_secured_' = channel_secured_
      BY <1>1, <1>3, <1>4, <2>2
    <2> QED
      BY <1>2, <2>3, <2>4, PopStream
  <1>5. CASE ok
    <2>1. InWork("EncResultOK")
      BY <1>2, <1>3, <1>5, HeadTail DEF InWork
    <2>2. \A n : SecuredAfter(n) /\ SecuredAfter(n)'
      BY <1>1, <1>5, <2>1 DEF SecuredAfter
    <2>3. ~Pending("EncResultFail")
      BY <2>2 DEF StreamInv
    <2>4. ~Pending("EncResultFail")'
      <3>1. InWork("EncResultFail")' => InWork("EncResultFail")
        BY <1>2, WorkPop
      <3> QED
        BY <1>2, <2>3, <3>1 DEF Pending, InRx
    <2>5. ~(connects = 0 \/ link \in {"connecting", "wedged"} \/ srv = "accepted")
      BY <1>2 DEF StreamInv, Pristine
    <2>6. ServerSecured' = ServerSecured
      BY <1>2 DEF ServerSecured
    <2> QED
      BY <1>2, <2>2, <2>4, <2>5, <2>6 DEF StreamInv
  <1> QED
    BY <1>4, <1>5

\* consume_frame() understands every frame and throws at none.
LEMMA ConsumeStream ==
  ASSUME TypeInv, LinkInv, StreamInv, consume_frame
  PROVE  /\ StreamInv'
         /\ work' = <<Head(rx).msg>>
  <1>1. /\ work = << >> /\ rx # << >> /\ rx' = Tail(rx)
        /\ UNCHANGED <<channel_secured_, link, srv, connects>>
    BY DEF consume_frame, IoIdle, bounds
  <1>2. rx \in Seq(Received)
    BY DEF TypeInv
  <1>3. ~InWork("EncResultOK") /\ ~InWork("EncResultFail")
    BY <1>1 DEF InWork
  <1>4. /\ Len(rx) \in Nat \ {0} /\ Len(rx') = Len(rx) - 1 /\ Head(rx) = rx[1]
        /\ 1 \in 1 .. Len(rx)
        /\ \A i \in 1 .. Len(rx') : rx'[i] = rx[i + 1] /\ i + 1 \in 1 .. Len(rx)
    BY <1>1, <1>2, HeadTail
  <1>5. Head(rx).enc <=> channel_secured_
    <2>1. rx[1].enc <=> SecuredAfter(0)
      BY <1>4 DEF StreamInv
    <2> QED
      BY <1>3, <1>4, <2>1 DEF SecuredAfter, InRx
  <1>6. Decode(Head(rx)) = {Head(rx).msg}
    BY <1>5 DEF Decode
  <1>7. work' = <<Head(rx).msg>> /\ UNCHANGED crashed
    BY <1>6 DEF consume_frame
  <1>8. ASSUME NEW t PROVE InWork(t)' <=> rx[1].msg = Single(t)
    <2>1. Len(work') = 1 /\ work'[1] = rx[1].msg
      BY <1>4, <1>7
    <2> QED
      BY <2>1 DEF InWork
  <1>9. ASSUME NEW t, NEW n \in 0 .. Len(rx')
        PROVE  InRx(t, n + 1) <=> (rx[1].msg = Single(t) \/ InRx(t, n)')
    <2>1. ASSUME NEW j \in 1 .. n + 1, rx[j].msg = Single(t), rx[1].msg # Single(t)
          PROVE  \E i \in 1 .. n : rx'[i].msg = Single(t)
      <3>1. j - 1 \in 1 .. n /\ j - 1 \in 1 .. Len(rx') /\ (j - 1) + 1 = j
        BY <1>4, <2>1
      <3> QED
        BY <1>4, <2>1, <3>1
    <2>2. ASSUME NEW i \in 1 .. n, rx'[i].msg = Single(t)
          PROVE  \E j \in 1 .. n + 1 : rx[j].msg = Single(t)
      BY <1>4, <2>2
    <2>3. 1 \in 1 .. n + 1
      OBVIOUS
    <2> QED
      BY <2>1, <2>2, <2>3 DEF InRx
  <1>10. ASSUME NEW n \in 0 .. Len(rx')
         PROVE  SecuredAfter(n)' <=> SecuredAfter(n + 1)
    BY <1>1, <1>3, <1>8, <1>9 DEF SecuredAfter
  <1>11. Pending("EncResultFail")' <=> Pending("EncResultFail")
    <2>1. Len(rx') \in 0 .. Len(rx') /\ Len(rx') + 1 = Len(rx)
      BY <1>4
    <2> QED
      BY <1>3, <1>8, <1>9, <2>1 DEF Pending
  <1>12. \A i \in 1 .. Len(rx') : rx'[i].enc <=> SecuredAfter(i - 1)'
    <2> SUFFICES ASSUME NEW i \in 1 .. Len(rx') PROVE rx'[i].enc <=> SecuredAfter(i - 1)'
      OBVIOUS
    <2>1. rx[i + 1].enc <=> SecuredAfter((i + 1) - 1)
      BY <1>4 DEF StreamInv
    <2>2. (i + 1) - 1 = (i - 1) + 1 /\ i - 1 \in 0 .. Len(rx')
      BY <1>4
    <2> QED
      BY <1>4, <1>10, <2>1, <2>2
  <1>13. SecuredAfter(Len(rx))' <=> SecuredAfter(Len(rx))
    <2>1. Len(rx') \in 0 .. Len(rx') /\ Len(rx') + 1 = Len(rx)
      BY <1>4
    <2> QED
      BY <1>10, <2>1
  <1>14. ~(connects = 0 \/ link \in {"connecting", "wedged"} \/ srv = "accepted")
    BY <1>1 DEF StreamInv, Pristine
  <1>15. ServerSecured' = ServerSecured
    BY <1>1 DEF ServerSecured
  <1> QED
    BY <1>1, <1>7, <1>11, <1>12, <1>13, <1>14, <1>15 DEF StreamInv

\* The parts of a Multi are not of the handshake.
LEMMA MultiStream ==
  ASSUME TypeInv, StreamInv, handle_multi
  PROVE  StreamInv'
  <1> DEFINE ms == [i \in 1 .. Len(Head(work).parts) |-> Single(Head(work).parts[i])]
  <1>1. /\ work # << >> /\ work' = ms \o Tail(work) /\ ms \in Seq(Message)
        /\ Head(work) \in MultiMsg
        /\ \A i \in 1 .. Len(ms) : ms[i] \in Plain
    BY MultiFacts, PlainFacts
  <1>2. Tail(work) \in Seq(Message)
    BY <1>1, HeadTail DEF TypeInv
  <1> HIDE DEF ms
  <1>3. ASSUME NEW t \in Handshake
        PROVE  InWork(t)' <=> InWork(t)
    <2>1. Head(work) # Single(t)
      BY <1>1, MessageFacts, DispatchTypes DEF Handshake
    <2>2. work \in Seq(Message)
      BY DEF TypeInv
    <2>3. ASSUME NEW j \in 1 .. Len(work), work[j] = Single(t)
          PROVE  \E i \in 1 .. Len(work') : work'[i] = Single(t)
      <3>1. j - 1 \in 1 .. Len(Tail(work)) /\ Tail(work)[j - 1] = Single(t)
        BY <1>1, <2>1, <2>2, <2>3, HeadTail
      <3>2. /\ work'[Len(ms) + (j - 1)] = Tail(work)[j - 1]
            /\ Len(ms) + (j - 1) \in 1 .. Len(work')
        BY <1>1, <1>2, <3>1, Concatenated
      <3> QED
        BY <3>1, <3>2
    <2>4. ASSUME NEW i \in 1 .. Len(work'), work'[i] = Single(t)
          PROVE  \E j \in 1 .. Len(work) : work[j] = Single(t)
      <3>1. CASE i \in 1 .. Len(ms) /\ work'[i] = ms[i]
        BY <1>1, <2>4, <3>1, PlainFacts
      <3>2. CASE i - Len(ms) \in 1 .. Len(Tail(work)) /\ work'[i] = Tail(work)[i - Len(ms)]
        BY <1>1, <2>2, <2>4, <3>2, HeadTail
      <3> QED
        BY <1>1, <1>2, <2>4, <3>1, <3>2, Concatenated
    <2> QED
      BY <2>3, <2>4 DEF InWork
  <1>4. UNCHANGED <<channel_secured_, rx, srv, crashed, connects, link>>
    BY DEF handle_multi, wire, bounds
  <1>5. /\ \A n : SecuredAfter(n)' <=> SecuredAfter(n)
        /\ Pending("EncResultFail")' <=> Pending("EncResultFail")
        /\ ServerSecured' = ServerSecured
    BY <1>3, <1>4 DEF SecuredAfter, Pending, InRx, ServerSecured, Handshake
  <1>6. ~(connects = 0 \/ link \in {"connecting", "wedged"} \/ srv = "accepted")
    BY <1>1 DEF StreamInv, Pristine
  <1> QED
    BY <1>4, <1>5, <1>6 DEF StreamInv

\* What a frame of the server adds to the stream.
LEMMA SendsStream ==
  ASSUME TypeInv, StreamInv, link = "up", NEW m \in Message, ServerSends(m),
         UNCHANGED <<channel_secured_, work>>
  PROVE  /\ \A i \in 1 .. Len(rx') : rx'[i].enc <=> SecuredAfter(i - 1)'
         /\ SecuredAfter(Len(rx))' <=> SecuredAfter(Len(rx)) \/ m = Single("EncResultOK")
         /\ Pending("EncResultFail")' <=> Pending("EncResultFail") \/ m = Single("EncResultFail")
  <1>1. /\ Len(rx) \in Nat /\ Len(rx') = Len(rx) + 1
        /\ \A i \in 1 .. Len(rx) : rx'[i] = rx[i]
        /\ rx'[Len(rx) + 1].msg = m
        /\ rx'[Len(rx) + 1].enc = ServerSecured
    BY SendsFrame
  <1>2. \A t : InWork(t)' <=> InWork(t)
    BY DEF InWork
  <1>3. ASSUME NEW t, NEW n \in 0 .. Len(rx) PROVE InRx(t, n)' <=> InRx(t, n)
    BY <1>1 DEF InRx
  <1>4. ASSUME NEW t
        PROVE  InRx(t, Len(rx))' <=> InRx(t, Len(rx)) \/ m = Single(t)
    <2>1. ASSUME NEW j \in 1 .. Len(rx'), rx'[j].msg = Single(t), m # Single(t)
          PROVE  \E i \in 1 .. Len(rx) : rx[i].msg = Single(t)
      <3>1. j \in 1 .. Len(rx) \/ j = Len(rx) + 1
        BY <1>1, <2>1
      <3> QED
        BY <1>1, <2>1, <3>1
    <2>2. ASSUME NEW i \in 1 .. Len(rx), rx[i].msg = Single(t)
          PROVE  \E j \in 1 .. Len(rx') : rx'[j].msg = Single(t)
      BY <1>1, <2>2
    <2>3. m = Single(t) => rx'[Len(rx) + 1].msg = Single(t) /\ Len(rx) + 1 \in 1 .. Len(rx')
      BY <1>1
    <2> QED
      BY <2>1, <2>2, <2>3 DEF InRx
  <1>5. ASSUME NEW n \in 0 .. Len(rx) PROVE SecuredAfter(n)' <=> SecuredAfter(n)
    BY <1>2, <1>3, <1>5 DEF SecuredAfter
  <1>6. ASSUME NEW i \in 1 .. Len(rx')
        PROVE  rx'[i].enc <=> SecuredAfter(i - 1)'
    <2>1. CASE i \in 1 .. Len(rx)
      <3>1. i - 1 \in 0 .. Len(rx) /\ (rx[i].enc <=> SecuredAfter(i - 1))
        BY <1>1, <2>1 DEF StreamInv
      <3> QED
        BY <1>1, <1>5, <2>1, <3>1
    <2>2. CASE i = Len(rx) + 1
      <3>1. i - 1 = Len(rx) /\ i - 1 \in 0 .. Len(rx)
        BY <1>1, <2>2
      <3>2. ServerSecured <=> SecuredAfter(i - 1)
        BY <3>1 DEF StreamInv
      <3> QED
        BY <1>1, <1>5, <2>2, <3>1, <3>2
    <2> QED
      BY <1>1, <2>1, <2>2
  <1>7. SecuredAfter(Len(rx))' <=> SecuredAfter(Len(rx)) \/ m = Single("EncResultOK")
    BY <1>2, <1>4 DEF SecuredAfter
  <1>8. Pending("EncResultFail")' <=> Pending("EncResultFail") \/ m = Single("EncResultFail")
    BY <1>2, <1>4 DEF Pending
  <1> QED
    BY <1>6, <1>7, <1>8

\* A message outside the handshake.
LEMMA PlainStream ==
  ASSUME TypeInv, StreamInv, link = "up", NEW m \in Plain, ServerSends(m),
         UNCHANGED <<channel_secured_, work, crashed, connects, link>>,
         ServerSecured, srv' \in {"secured", "loggedon"}
  PROVE  StreamInv'
  <1>1. m \in Message /\ m # Single("EncResultOK") /\ m # Single("EncResultFail")
    BY PlainFacts DEF Plain, Handshake
  <1>2. ServerSecured'
    BY DEF ServerSecured
  <1>3. ~(connects = 0 \/ link \in {"connecting", "wedged"} \/ srv = "accepted")
    <2>1. SecuredAfter(Len(rx))
      BY DEF StreamInv
    <2>2. ~Pristine
      BY <2>1 DEF Pristine, SecuredAfter, InWork, InRx
    <2> QED
      BY <2>2 DEF StreamInv
  <1> QED
    BY <1>1, <1>2, <1>3, SendsStream DEF StreamInv

\* The server greets: nothing was sent before.
LEMMA GreetStream ==
  ASSUME TypeInv, LinkInv, StreamInv, ServerGreets
  PROVE  StreamInv'
  <1>1. /\ srv = "accepted" /\ srv' = "greeted" /\ link = "up"
        /\ UNCHANGED <<channel_secured_, work, crashed, connects, link>>
    BY DEF ServerGreets, session, bounds, LinkInv
  <1>2. PICK t \in {"EncRequest", "EncRequestBad"} : ServerSends(Single(t))
    BY DEF ServerGreets
  <1>3. /\ Single(t) \in Message /\ Single(t) # Single("EncResultOK")
        /\ Single(t) # Single("EncResultFail")
    BY MessageFacts, DispatchTypes
  <1>4. Pristine
    BY <1>1 DEF StreamInv
  <1>5. ~SecuredAfter(Len(rx)) /\ ~Pending("EncResultFail")
    BY <1>4 DEF Pristine, SecuredAfter, Pending, InWork, InRx
  <1>6. ~ServerSecured'
    BY <1>1 DEF ServerSecured
  <1>7. connects # 0
    BY <1>1 DEF LinkInv
  <1> QED
    BY <1>1, <1>2, <1>3, <1>5, <1>6, <1>7, SendsStream DEF StreamInv

\* The server answers the client's key, once.
LEMMA AnswerStream ==
  ASSUME TypeInv, LinkInv, StreamInv, link = "up", srv = "greeted",
         \/ srv' = "secured" /\ ServerSends(Single("EncResultOK"))
         \/ srv' = "refused" /\ ServerSends(Single("EncResultFail")),
         UNCHANGED <<channel_secured_, work, crashed, connects, link>>
  PROVE  StreamInv'
  <1>1. /\ Single("EncResultOK") \in Message /\ Single("EncResultFail") \in Message
        /\ Single("EncResultOK") # Single("EncResultFail")
    BY MessageFacts, DispatchTypes
  <1>2. ~ServerSecured
    BY DEF ServerSecured
  <1>3. ~SecuredAfter(Len(rx)) /\ ~Pending("EncResultFail")
    BY <1>2 DEF StreamInv
  <1>4. connects # 0
    BY DEF LinkInv
  <1>5. CASE srv' = "secured" /\ ServerSends(Single("EncResultOK"))
    <2>1. ServerSecured'
      BY <1>5 DEF ServerSecured
    <2> QED
      BY <1>1, <1>3, <1>4, <1>5, <2>1, SendsStream DEF StreamInv
  <1>6. CASE srv' = "refused" /\ ServerSends(Single("EncResultFail"))
    <2>1. ~ServerSecured'
      BY <1>6 DEF ServerSecured
    <2> QED
      BY <1>1, <1>3, <1>4, <1>6, <2>1, SendsStream DEF StreamInv
  <1> QED
    BY <1>5, <1>6

\* The end of the connection, with at most the next frame left.
LEMMA CloseStream ==
  ASSUME TypeInv, LinkInv, StreamInv, link' = "down", srv' = "none",
         rx' = << >> \/ (rx # << >> /\ rx' = <<Head(rx)>>),
         UNCHANGED <<channel_secured_, work, crashed, connects>>, connects # 0
  PROVE  StreamInv'
  <1>1. rx \in Seq(Received)
    BY DEF TypeInv
  <1>2. \A t : InWork(t)' <=> InWork(t)
    BY DEF InWork
  <1>3. /\ Len(rx') \in {0, 1} /\ Len(rx') <= Len(rx) /\ Len(rx) \in Nat
        /\ \A i \in 1 .. Len(rx') : i = 1 /\ rx'[i] = rx[i] /\ i \in 1 .. Len(rx)
    <2>1. CASE rx' = << >>
      BY <1>1, <2>1
    <2>2. CASE rx # << >> /\ rx' = <<Head(rx)>>
      BY <1>1, <2>2, HeadTail
    <2> QED
      BY <2>1, <2>2
  <1>4. \A t : InRx(t, Len(rx))' => InRx(t, Len(rx))
    BY <1>3 DEF InRx
  <1>5. Pending("EncResultFail")' => Pending("EncResultFail")
    BY <1>2, <1>4 DEF Pending
  <1>6. SecuredAfter(Len(rx))' => SecuredAfter(Len(rx))
    BY <1>2, <1>4 DEF SecuredAfter
  <1>7. SecuredAfter(0)' <=> SecuredAfter(0)
    BY <1>2 DEF SecuredAfter, InRx
  <1>8. \A i \in 1 .. Len(rx') : rx'[i].enc <=> SecuredAfter(i - 1)'
    <2> SUFFICES ASSUME NEW i \in 1 .. Len(rx') PROVE rx'[i].enc <=> SecuredAfter(i - 1)'
      OBVIOUS
    <2>1. i = 1 /\ rx'[1] = rx[1] /\ 1 \in 1 .. Len(rx)
      BY <1>3
    <2>2. rx[1].enc <=> SecuredAfter(0)
      BY <2>1 DEF StreamInv
    <2> QED
      BY <1>7, <2>1, <2>2
  <1> QED
    BY <1>5, <1>6, <1>8 DEF StreamInv

\* A handler's message, other than the result of the handshake.
LEMMA DispatchStream ==
  ASSUME TypeInv, StreamInv, NEW t \in Simple \ {"EncResultOK"}, Dispatch(t),
         UNCHANGED channel_secured_, UNCHANGED wire \/ send_msg("EncResponse")
  PROVE  StreamInv'
  <1>1. /\ work # << >> /\ work' = Tail(work) /\ Head(work) = Single(t)
        /\ UNCHANGED <<srv, crashed, connects>>
    BY DispatchFacts DEF bounds
  <1>2. Head(work) # Single("EncResultOK")
    BY <1>1, MessageFacts, DispatchTypes
  <1>3. UNCHANGED rx /\ (link' = link \/ (link = "wedged" /\ link' = "down"))
    BY SendFacts DEF wire
  <1> QED
    BY <1>1, <1>2, <1>3, PopStream

\* A command only sends, if it does anything to the stream.
LEMMA CommandStream ==
  ASSUME TypeInv, StreamInv, NEW when, Execute(when),
         \/ UNCHANGED wire
         \/ \E type \in {"Logon", "LogOff", "ProductInfoRequest"} : send_msg(type)
  PROVE  StreamInv'
  <1>1. UNCHANGED <<channel_secured_, work, srv, crashed, connects>>
    BY DEF Execute
  <1>2. UNCHANGED rx /\ (link' = link \/ (link = "wedged" /\ link' = "down"))
    BY SendFacts DEF wire
  <1> QED
    BY <1>1, <1>2, AsideStream

\* start_session is no stuttering step.
LEMMA StartsAnew == TypeInv /\ start_session => ~UNCHANGED vars
  <1> SUFFICES ASSUME TypeInv, start_session PROVE connects' # connects
    BY DEF vars, bounds
  <1>1. connects \in Nat
    BY BoundsAssumption DEF TypeInv
  <1> QED
    BY <1>1 DEF start_session

\* Every step of the first session keeps the two ends of the stream in step.
LEMMA StreamStep ==
  ASSUME TypeInv, LinkInv, LogonNeverPlain, StreamInv, [Next]_vars, [ClearStart]_vars
  PROVE  StreamInv'
  <1>0. StreamInv
    OBVIOUS
  <1>1. CASE start_session
    <2>1. /\ link = "down" /\ link' \in {"connecting", "wedged"} /\ rx = << >> /\ work = << >>
          /\ UNCHANGED <<channel_secured_, work, rx, srv, crashed>>
      BY <1>1 DEF start_session, session, IoIdle
    <2>2. ~channel_secured_
      BY <1>1, StartsAnew DEF ClearStart
    <2>3. rx' = << >> /\ work' = << >> /\ ~channel_secured_'
      BY <2>1, <2>2
    <2>4. ~SecuredAfter(Len(rx))' /\ ~Pending("EncResultFail")'
      BY <2>3 DEF SecuredAfter, Pending, InWork, InRx
    <2>5. ~crashed'
      BY <1>0, <2>1 DEF StreamInv
    <2> QED
      BY <2>1, <2>3, <2>4, <2>5 DEF StreamInv, Pristine
  <1>2. CASE shutdown \/ LinkLost
    <2>1. UNCHANGED <<channel_secured_, work, crashed, connects>> /\ LinkCloses
          /\ link \in {"connecting", "up"}
      BY <1>2 DEF shutdown, LinkLost, session, bounds
    <2>2. connects # 0
      BY <2>1 DEF LinkInv
    <2> QED
      BY <1>0, <2>1, <2>2, CloseFacts, CloseStream
  <1>3. CASE consume_frame
    BY <1>0, <1>3, ConsumeStream
  <1>4. CASE handle_multi
    BY <1>0, <1>4, MultiStream
  <1>5. CASE handle_encrypt_request
    BY <1>0, <1>5, DispatchStream, DispatchTypes DEF handle_encrypt_request
  <1>6. CASE handle_encrypt_result
    BY <1>0, <1>6, ResultStream
  <1>7. CASE handle_logon_response
    <2>1. PICK t \in {"LogonOK", "LogonFail"} :
            Dispatch(t) /\ UNCHANGED <<channel_secured_, wire>>
      BY <1>7 DEF handle_logon_response
    <2> QED
      BY <1>0, <2>1, DispatchStream, DispatchTypes
  <1>8. CASE handle_prod_info_response
    BY <1>0, <1>8, DispatchStream, DispatchTypes DEF handle_prod_info_response
  <1>9. CASE dispatch_default
    BY <1>0, <1>9, DispatchStream, DispatchTypes DEF dispatch_default
  <1>10. CASE ListenerReturns
    BY <1>0, <1>10, AsideStream DEF ListenerReturns, wire, bounds
  <1>11. CASE exec_anon_logon \/ exec_logoff \/ exec_get_product_info
    BY <1>0, <1>11, CommandStream DEF exec_anon_logon, exec_logoff, exec_get_product_info
  <1>12. CASE LinkUp
    <2>1. /\ link = "connecting" /\ link' = "up" /\ srv' = "accepted"
          /\ UNCHANGED <<channel_secured_, work, rx, crashed, connects>>
      BY <1>12 DEF LinkUp, session, bounds
    <2>2. Pristine /\ ~crashed
      BY <1>0, <2>1 DEF StreamInv
    <2>3. rx' = << >> /\ work' = << >> /\ ~channel_secured_'
      BY <2>1, <2>2 DEF Pristine
    <2>4. ~SecuredAfter(Len(rx))' /\ ~Pending("EncResultFail")' /\ ~ServerSecured'
      BY <2>1, <2>3 DEF SecuredAfter, Pending, InWork, InRx, ServerSecured
    <2> QED
      BY <2>1, <2>2, <2>3, <2>4 DEF StreamInv, Pristine
  <1>13. CASE ServerGreets
    BY <1>0, <1>13, GreetStream
  <1>14. CASE ServerReceives
    <2>0. /\ link = "up" /\ tx # << >> /\ connects # 0
          /\ UNCHANGED <<channel_secured_, work, crashed, connects>>
      BY <1>14, ReceivesCases DEF session, bounds, LinkInv
    <2>1. CASE link' = "down" /\ rx' = << >> /\ tx' = << >> /\ srv' = "none"
      BY <1>0, <2>0, <2>1, CloseStream
    <2>2. CASE UNCHANGED <<srv, rx, link>>
      BY <1>0, <2>0, <2>2, AsideStream
    <2>3. CASE /\ srv = "greeted" /\ UNCHANGED link
               /\ \/ srv' = "secured" /\ ServerSends(Single("EncResultOK"))
                  \/ srv' = "refused" /\ ServerSends(Single("EncResultFail"))
      BY <1>0, <2>0, <2>3, AnswerStream
    <2>4. CASE /\ ~Wrong /\ Head(tx).type = "Logon" /\ srv' \in {srv, "loggedon"}
               /\ UNCHANGED link /\ \E m \in Plain : ServerSends(m)
      <3>1. Head(tx) = tx[1] /\ 1 \in 1 .. Len(tx)
        BY <2>0, HeadTail DEF TypeInv
      <3>2. Head(tx).enc
        BY <2>4, <3>1 DEF LogonNeverPlain
      <3>3. ServerSecured
        BY <2>4, <3>2 DEF Wrong, ServerSecured
      <3>4. srv' \in {"secured", "loggedon"}
        BY <2>4, <3>3 DEF ServerSecured
      <3> QED
        BY <1>0, <2>0, <2>4, <3>3, <3>4, PlainStream
    <2>5. CASE /\ srv = "loggedon" /\ srv' = srv /\ UNCHANGED link
               /\ \E m \in Plain : ServerSends(m)
      <3>1. ServerSecured
        BY <2>5 DEF ServerSecured
      <3> QED
        BY <1>0, <2>0, <2>5, <3>1, PlainStream
    <2> QED
      BY <1>14, <2>1, <2>2, <2>3, <2>4, <2>5, ReceivesCases
  <1>15. CASE ServerPushes
    <2>1. PICK t \in {"Unknown", "Struct"} : ServerSends(Single(t))
      BY <1>15 DEF ServerPushes
    <2>2. Single(t) \in Plain
      BY PlainFacts DEF Simple, Handshake
    <2>3. /\ srv \in {"secured", "loggedon"} /\ srv' = srv
          /\ UNCHANGED <<channel_secured_, work, crashed, connects, link>>
      BY <1>15 DEF ServerPushes, session
    <2>4. ServerSecured /\ link = "up"
      BY <2>3 DEF ServerSecured, LinkInv
    <2> QED
      BY <1>0, <2>1, <2>2, <2>3, <2>4, PlainStream
  <1>16. CASE UNCHANGED vars
    BY <1>0, <1>16, AsideStream DEF vars, session, wire, bounds
  <1> QED
    BY <1>1, <1>2, <1>3, <1>4, <1>5, <1>6, <1>7, <1>8, <1>9, <1>10, <1>11, <1>12, <1>13,
       <1>14, <1>15, <1>16
    DEF Next, Handlers

\* The connection and the server's session, for use in the other invariants.
LEMMA LinkInvCorrect == Spec => []LinkInv
  <1>1. Init => LinkInv
    BY DEF Init, LinkInv
  <1>2. TypeInv /\ LinkInv /\ [Next]_vars => LinkInv'
    BY LinkStep
  <1> QED
    BY <1>1, <1>2, TypeInvCorrect, PTL DEF Spec

\* Nothing has been sent.
LEMMA StreamInit == Init => StreamInv
  <1> SUFFICES ASSUME Init PROVE StreamInv
    OBVIOUS
  <1>1. ~SecuredAfter(Len(rx)) /\ ~Pending("EncResultFail")
    BY DEF Init, SecuredAfter, Pending, InWork, InRx
  <1> QED
    BY <1>1 DEF Init, StreamInv, Pristine

\* The first session starts on a clear channel.
LEMMA FirstStart ==
  ASSUME TypeInv, LinkInv, FirstStreamInv, [Next]_vars, connects' <= 1
  PROVE  connects <= 1 /\ [ClearStart]_vars
  <1>1. connects \in Nat
    BY BoundsAssumption DEF TypeInv
  <1>2. connects <= 1
    BY <1>1, LinkStep
  <1>3. start_session => ~channel_secured_
    BY <1>1, <1>2 DEF start_session, FirstStreamInv, StreamInv, Pristine
  <1> QED
    BY <1>2, <1>3 DEF ClearStart

\* The stream from the server, in the first session ...
LEMMA StreamCorrect == Spec => []FirstStreamInv
  <1>1. Init => FirstStreamInv
    BY StreamInit DEF FirstStreamInv
  <1>2. TypeInv /\ LinkInv /\ LogonNeverPlain /\ FirstStreamInv /\ [Next]_vars => FirstStreamInv'
    BY FirstStart, StreamStep DEF FirstStreamInv
  <1> QED
    BY <1>1, <1>2, TypeInvCorrect, LinkInvCorrect, LogonCorrect, PTL DEF Spec

\* ... and in all of them, if each starts on a clear channel.
LEMMA StreamClear == Spec /\ [][ClearStart]_vars => []StreamInv
  <1>1. TypeInv /\ LinkInv /\ LogonNeverPlain /\ StreamInv /\ [Next]_vars /\ [ClearStart]_vars => StreamInv'
    BY StreamStep
  <1> QED
    BY <1>1, StreamInit, TypeInvCorrect, LinkInvCorrect, LogonCorrect, PTL DEF Spec

\* process_incoming_encrypted_message: with a server that keeps to the protocol
\* no exception leaves the io thread in the first session, whichever commands
\* the application executes and whenever it does.
THEOREM CrashCorrect == Spec => []CrashOnlyAfterReconnect
  <1>1. TypeInv /\ FirstStreamInv => CrashOnlyAfterReconnect
    <2> SUFFICES ASSUME TypeInv, FirstStreamInv, crashed PROVE connects > 1
      BY DEF CrashOnlyAfterReconnect
    <2>1. connects \in Nat
      BY BoundsAssumption DEF TypeInv
    <2> QED
      BY <2>1 DEF FirstStreamInv, StreamInv
  <1> QED
    BY <1>1, StreamCorrect, TypeInvCorrect, PTL

\* set_channel_secured: in the first session the client takes the channel for
\* secured only when the server it is connected to does.
THEOREM SecuredCorrect == Spec => [](connects <= 1 => SecuredAgreed)
  <1>1. FirstStreamInv => (connects <= 1 => SecuredAgreed)
    BY DEF FirstStreamInv, StreamInv, SecuredAgreed, SecuredAfter
  <1> QED
    BY <1>1, StreamCorrect, PTL

-----------------------------------------------------------------------------
(* The first session: nothing is sent in the wrong mode.                   *)

\* The parts of a simple message, and of the messages of the handshake.
LEMMA HasSingle ==
  /\ \A t \in Simple : \A u : Has(Single(t), u) <=> t = u
  /\ \A t \in Handshake : ~Has(Single(t), "LogonOK")
  <1>1. ASSUME NEW t \in Simple, NEW u PROVE Has(Single(t), u) <=> t = u
    <2>1. Len(Single(t).parts) = 1 /\ Single(t).parts[1] = t
      BY DEF Single
    <2> QED
      BY <2>1 DEF Has
  <1>2. Handshake \subseteq Simple /\ "LogonOK" \notin Handshake
    BY DEF Handshake, Simple
  <1> QED
    BY <1>1, <1>2

\* While the client takes the channel for secured a connection that is open is
\* secured at the server too.
LEMMA SecuredSends ==
  ASSUME LinkInv, StreamInv, channel_secured_
  PROVE  /\ link \notin {"connecting", "wedged"}
         /\ link = "up" => ServerSecured
         /\ link # "up" => srv = "none"
  BY DEF StreamInv, Pristine, SecuredAfter, LinkInv

\* The steps that leave both directions of the stream alone.
LEMMA AsideMode ==
  ASSUME ModeInv, UNCHANGED <<channel_secured_, work, rx, tx, srv, desync>>,
         link' = "up" => link = "up", ListenerInv'
  PROVE  ModeInv'
  <1>1. LogonInv'
    BY DEF ModeInv, LogonInv
  <1>2. SentInv'
    BY DEF ModeInv, SentInv, ServerSecured
  <1>3. GreetedInv'
    BY DEF ModeInv, GreetedInv, Pending, InWork, InRx
  <1> QED
    BY <1>1, <1>2, <1>3 DEF ModeInv

\* A command sends on a secured channel.
LEMMA SendMode ==
  ASSUME TypeInv, LinkInv, StreamInv, ModeInv, channel_secured_,
         NEW type \in {"Logon", "LogOff", "ProductInfoRequest"}, send_msg(type),
         UNCHANGED <<channel_secured_, work, cb, srv, desync>>
  PROVE  ModeInv'
  <1> DEFINE r == [type |-> type, enc |-> channel_secured_]
  <1>1. CASE tx' = tx
    <2>1. link' = "up" => link = "up"
      BY SendFacts
    <2>2. UNCHANGED rx
      BY SendFacts
    <2>3. ListenerInv'
      BY DEF ModeInv, ListenerInv
    <2> QED
      BY <1>1, <2>1, <2>2, <2>3, AsideMode
  <1>2. CASE link \in {"up", "connecting"} /\ tx' = Append(tx, r)
    <2>1. /\ link = "up" /\ ServerSecured /\ UNCHANGED <<link, rx>>
      BY <1>2, SecuredSends, SendFacts
    <2>2. srv \notin {"none", "accepted", "refused", "greeted"}
      BY <2>1 DEF ServerSecured
    <2>3. \A i \in 1 .. Len(tx') : tx'[i].enc
      <3>1. tx \in Seq(Request) /\ r \in Request
        BY SendFacts DEF TypeInv
      <3>2. \A i \in 1 .. Len(tx') : (i \in 1 .. Len(tx) /\ tx'[i] = tx[i]) \/ tx'[i] = r
        BY <1>2, <3>1, Appended
      <3>3. r.enc
        OBVIOUS
      <3> QED
        BY <2>1, <3>2, <3>3 DEF ModeInv, SentInv
    <2>4. SentInv'
      BY <2>2, <2>3 DEF SentInv, ServerSecured
    <2>5. LogonInv' /\ ListenerInv'
      BY <2>1 DEF ModeInv, LogonInv, ListenerInv
    <2>6. GreetedInv'
      BY <2>1, <2>2 DEF ModeInv, GreetedInv, Pending, InWork, InRx
    <2> QED
      BY <2>4, <2>5, <2>6 DEF ModeInv
  <1> QED
    BY <1>1, <1>2, SendFacts

\* A message is handled without an answer.
LEMMA PopMode ==
  ASSUME TypeInv, ModeInv, work # << >>, work' = Tail(work),
         channel_secured_ => channel_secured_', ListenerInv',
         UNCHANGED <<rx, tx, link, srv, desync>>
  PROVE  ModeInv'
  <1>1. /\ Len(work') = Len(work) - 1
        /\ \A i \in 1 .. Len(work') : work'[i] = work[i + 1] /\ i + 1 \in 1 .. Len(work)
    BY HeadTail DEF TypeInv
  <1>2. LogonInv'
    BY <1>1 DEF ModeInv, LogonInv
  <1>3. SentInv'
    BY DEF ModeInv, SentInv, ServerSecured
  <1>4. Pending("EncRequest")' => Pending("EncRequest")
    BY WorkPop DEF Pending, InRx
  <1>5. srv = "greeted" => Len(rx) + Len(work') + Len(tx) <= 1
    <2>1. Len(rx) \in Nat /\ Len(work) \in Nat /\ Len(tx) \in Nat
      BY DEF TypeInv
    <2> QED
      BY <1>1, <2>1 DEF ModeInv, GreetedInv
  <1>6. srv = "greeted" => \A i \in 1 .. Len(work') : work'[i] \in Requests
    BY <1>1 DEF ModeInv, GreetedInv
  <1>7. GreetedInv'
    BY <1>4, <1>5, <1>6 DEF ModeInv, GreetedInv
  <1> QED
    BY <1>2, <1>3, <1>7 DEF ModeInv

\* The client answers the greeting.
LEMMA ReplyMode ==
  ASSUME TypeInv, LinkInv, StreamInv, ModeInv, work # << >>, work' = Tail(work),
         Head(work) = Single("EncRequest"), send_msg("EncResponse"), ListenerInv',
         UNCHANGED <<channel_secured_, srv, desync>>
  PROVE  ModeInv'
  <1> DEFINE r == [type |-> "EncResponse", enc |-> channel_secured_]
  <1>1. /\ Len(work') = Len(work) - 1
        /\ \A i \in 1 .. Len(work') : work'[i] = work[i + 1] /\ i + 1 \in 1 .. Len(work)
        /\ Head(work) = work[1] /\ 1 \in 1 .. Len(work)
    BY HeadTail DEF TypeInv
  <1>2. Pending("EncRequest")
    BY <1>1 DEF Pending, InWork
  <1>3. link \notin {"connecting", "wedged"}
    BY DEF StreamInv, Pristine
  <1>4. UNCHANGED <<rx, link>>
    BY <1>3, SendFacts
  <1>5. CASE tx' = tx
    BY <1>4, <1>5, PopMode
  <1>6. CASE link \in {"up", "connecting"} /\ tx' = Append(tx, r)
    <2>1. link = "up" /\ srv = "greeted"
      BY <1>2, <1>3, <1>6 DEF ModeInv, GreetedInv
    <2>2. ~channel_secured_
      BY <2>1 DEF StreamInv, SecuredAfter, ServerSecured
    <2>3. /\ Len(tx) \in Nat /\ Len(tx') = Len(tx) + 1
          /\ \A i \in 1 .. Len(tx') : (i \in 1 .. Len(tx) /\ tx'[i] = tx[i]) \/ tx'[i] = r
      <3>1. tx \in Seq(Request) /\ r \in Request
        BY SendFacts DEF TypeInv
      <3> QED
        BY <1>6, <3>1, Appended
    <2>4. \A i \in 1 .. Len(tx') : ~tx'[i].enc
      <3>1. ~r.enc
        BY <2>2
      <3> QED
        BY <2>1, <2>3, <3>1 DEF ModeInv, GreetedInv
    <2>5. Len(rx') + Len(work') + Len(tx') <= 1
      <3>1. Len(rx) \in Nat /\ Len(work) \in Nat
        BY DEF TypeInv
      <3>2. Len(rx) + Len(work) + Len(tx) <= 1
        BY <2>1 DEF ModeInv, GreetedInv
      <3>3. Len(rx') = Len(rx)
        BY <1>4
      <3> QED
        BY <1>1, <2>3, <3>1, <3>2, <3>3
    <2>6. GreetedInv'
      BY <1>1, <1>4, <2>1, <2>4, <2>5 DEF ModeInv, GreetedInv
    <2>7. SentInv'
      BY <2>1 DEF SentInv, ServerSecured
    <2>8. LogonInv'
      BY <1>1, <1>4 DEF ModeInv, LogonInv
    <2> QED
      BY <2>6, <2>7, <2>8 DEF ModeInv
  <1> QED
    BY <1>5, <1>6, SendFacts

\* The next frame becomes the work.
LEMMA ConsumeMode ==
  ASSUME TypeInv, LinkInv, StreamInv, ModeInv, consume_frame
  PROVE  ModeInv'
  <1>1. /\ work = << >> /\ rx # << >> /\ rx' = Tail(rx) /\ work' = <<Head(rx).msg>>
        /\ UNCHANGED <<channel_secured_, cb, link, tx, srv, desync>>
    BY ConsumeStream DEF consume_frame, IoIdle
  <1>2. /\ Len(rx) \in Nat \ {0} /\ Len(rx') = Len(rx) - 1 /\ Head(rx) = rx[1]
        /\ 1 \in 1 .. Len(rx)
        /\ \A i \in 1 .. Len(rx') : rx'[i] = rx[i + 1] /\ i + 1 \in 1 .. Len(rx)
    BY <1>1, HeadTail DEF TypeInv
  <1>3. Len(work') = 1 /\ Len(work) = 0 /\ \A j \in 1 .. Len(work') : work'[j] = rx[1].msg
    BY <1>1, <1>2
  <1>4. rx[1].enc => channel_secured_
    <2>1. rx[1].enc <=> SecuredAfter(0)
      BY <1>2 DEF StreamInv
    <2>2. ~InWork("EncResultOK") /\ ~InRx("EncResultOK", 0)
      BY <1>3 DEF InWork, InRx
    <2> QED
      BY <2>1, <2>2 DEF SecuredAfter
  <1>5. LogonInv'
    BY <1>1, <1>2, <1>3, <1>4 DEF ModeInv, LogonInv
  <1>6. ListenerInv' /\ SentInv'
    BY <1>1 DEF ModeInv, ListenerInv, SentInv, ServerSecured
  <1>7. Pending("EncRequest")' => Pending("EncRequest")
    BY <1>2, <1>3 DEF Pending, InWork, InRx
  <1>8. Len(rx') + Len(work') + Len(tx') = Len(rx) + Len(work) + Len(tx)
    <2>1. Len(tx) \in Nat /\ Len(tx') = Len(tx)
      BY <1>1 DEF TypeInv
    <2> QED
      BY <1>2, <1>3, <2>1
  <1>9. GreetedInv'
    BY <1>1, <1>2, <1>3, <1>7, <1>8 DEF ModeInv, GreetedInv
  <1> QED
    BY <1>1, <1>5, <1>6, <1>9 DEF ModeInv

\* A Multi is taken apart: none of its parts is new.
LEMMA MultiMode ==
  ASSUME TypeInv, ModeInv, handle_multi
  PROVE  ModeInv'
  <1> DEFINE ms == [i \in 1 .. Len(Head(work).parts) |-> Single(Head(work).parts[i])]
  <1>1. /\ work # << >> /\ work' = ms \o Tail(work) /\ ms \in Seq(Message)
        /\ Head(work) \in MultiMsg
        /\ Len(ms) = Len(Head(work).parts)
        /\ \A i \in 1 .. Len(ms) : /\ Head(work).parts[i] \in Simple \ Handshake
                                   /\ ms[i] = Single(Head(work).parts[i])
    BY MultiFacts
  <1> HIDE DEF ms
  <1>2. /\ work \in Seq(Message) /\ Tail(work) \in Seq(Message)
        /\ Head(work) = work[1] /\ 1 \in 1 .. Len(work)
        /\ \A i \in 1 .. Len(Tail(work)) : Tail(work)[i] = work[i + 1] /\ i + 1 \in 1 .. Len(work)
    BY <1>1, HeadTail DEF TypeInv
  <1>3. UNCHANGED <<channel_secured_, cb, rx, tx, link, srv, desync>>
    BY DEF handle_multi, wire
  <1>4. ASSUME NEW i \in 1 .. Len(work')
        PROVE  \/ \E j \in 1 .. Len(work) : work'[i] = work[j]
               \/ \E p \in 1 .. Len(ms) : work'[i] = ms[p]
    <2>1. \/ i \in 1 .. Len(ms) /\ work'[i] = ms[i]
          \/ i - Len(ms) \in 1 .. Len(Tail(work)) /\ work'[i] = Tail(work)[i - Len(ms)]
      BY <1>1, <1>2, Concatenated
    <2> QED
      BY <1>2, <2>1
  <1>5. ASSUME NEW p \in 1 .. Len(ms), Has(ms[p], "LogonOK")
        PROVE  channel_secured_
    <2>1. Head(work).parts[p] = "LogonOK"
      BY <1>1, <1>5, HasSingle
    <2>2. Has(work[1], "LogonOK")
      BY <1>1, <1>2, <2>1 DEF Has
    <2> QED
      BY <1>2, <2>2 DEF ModeInv, LogonInv
  <1>6. LogonInv'
    <2>1. ASSUME NEW i \in 1 .. Len(work'), Has(work'[i], "LogonOK")
          PROVE  channel_secured_
      BY <1>4, <1>5, <2>1 DEF ModeInv, LogonInv
    <2> QED
      BY <1>3, <2>1 DEF ModeInv, LogonInv
  <1>7. ListenerInv' /\ SentInv'
    BY <1>3 DEF ModeInv, ListenerInv, SentInv, ServerSecured
  <1>8. Pending("EncRequest")' => Pending("EncRequest")
    <2>1. \A p \in 1 .. Len(ms) : ms[p] # Single("EncRequest")
      BY <1>1, MessageFacts, DispatchTypes DEF Handshake
    <2>2. InWork("EncRequest")' => InWork("EncRequest")
      BY <1>4, <2>1 DEF InWork
    <2> QED
      BY <1>3, <2>2 DEF Pending, InRx
  <1>9. srv # "greeted"
    <2>1. Head(work) \notin Requests
      BY <1>1, MessageFacts, DispatchTypes DEF Requests
    <2> QED
      BY <1>2, <2>1 DEF ModeInv, GreetedInv
  <1>10. GreetedInv'
    BY <1>3, <1>8, <1>9 DEF ModeInv, GreetedInv
  <1> QED
    BY <1>3, <1>6, <1>7, <1>10 DEF ModeInv

\* The connection ends, with at most the next frame left.
LEMMA CloseMode ==
  ASSUME TypeInv, ModeInv, link' = "down", srv' = "none", tx' = << >>,
         rx' = << >> \/ (rx # << >> /\ rx' = <<Head(rx)>>),
         UNCHANGED <<channel_secured_, work, cb, desync>>
  PROVE  ModeInv'
  <1>1. \A i \in 1 .. Len(rx') : rx'[i] = rx[i] /\ i \in 1 .. Len(rx)
    <2>1. CASE rx' = << >>
      BY <2>1
    <2>2. CASE rx # << >> /\ rx' = <<Head(rx)>>
      BY <2>2, HeadTail DEF TypeInv
    <2> QED
      BY <2>1, <2>2
  <1>2. LogonInv'
    BY <1>1 DEF ModeInv, LogonInv
  <1>3. ListenerInv'
    BY DEF ModeInv, ListenerInv
  <1>4. SentInv' /\ GreetedInv'
    BY DEF SentInv, GreetedInv, ServerSecured
  <1> QED
    BY <1>2, <1>3, <1>4 DEF ModeInv

\* What the frame of the server does to the logons on their way.
LEMMA SendsLogon ==
  ASSUME TypeInv, ModeInv, NEW m \in Message, ServerSends(m),
         Has(m, "LogonOK") => ServerSecured,
         UNCHANGED <<channel_secured_, work>>
  PROVE  LogonInv'
  <1>1. \A i \in 1 .. Len(rx') :
          \/ i \in 1 .. Len(rx) /\ rx'[i] = rx[i]
          \/ rx'[i].msg = m /\ rx'[i].enc = ServerSecured
    <2>1. /\ Len(rx) \in Nat /\ Len(rx') = Len(rx) + 1
          /\ \A i \in 1 .. Len(rx) : rx'[i] = rx[i]
          /\ rx'[Len(rx) + 1].msg = m
          /\ rx'[Len(rx) + 1].enc = ServerSecured
      BY SendsFrame
    <2>2. \A i \in 1 .. Len(rx') : i \in 1 .. Len(rx) \/ i = Len(rx) + 1
      BY <2>1
    <2> QED
      BY <2>1, <2>2
  <1>2. ASSUME NEW i \in 1 .. Len(rx'), Has(rx'[i].msg, "LogonOK") PROVE rx'[i].enc
    BY <1>1, <1>2 DEF ModeInv, LogonInv
  <1> QED
    BY <1>2 DEF ModeInv, LogonInv

\* The requests that are pending when the server sends something else.
LEMMA SendsRequest ==
  ASSUME TypeInv, NEW m \in Message, ServerSends(m), m # Single("EncRequest"), UNCHANGED work
  PROVE  Pending("EncRequest")' => Pending("EncRequest")
  <1>1. /\ Len(rx) \in Nat /\ Len(rx') = Len(rx) + 1
        /\ \A i \in 1 .. Len(rx) : rx'[i] = rx[i]
        /\ rx'[Len(rx) + 1].msg = m
    BY SendsFrame
  <1>2. \A i \in 1 .. Len(rx') : i \in 1 .. Len(rx) \/ i = Len(rx) + 1
    BY <1>1
  <1> QED
    BY <1>1, <1>2 DEF Pending, InWork, InRx

\* The server greets: nothing is on its way.
LEMMA GreetMode ==
  ASSUME TypeInv, LinkInv, StreamInv, ModeInv, ServerGreets
  PROVE  ModeInv'
  <1>1. /\ srv = "accepted" /\ srv' = "greeted"
        /\ UNCHANGED <<channel_secured_, work, cb, link, tx, desync>>
    BY DEF ServerGreets, session
  <1>2. PICK t \in {"EncRequest", "EncRequestBad"} : ServerSends(Single(t))
    BY DEF ServerGreets
  <1>3. Single(t) \in Message /\ ~Has(Single(t), "LogonOK") /\ Single(t) \in Requests
    BY MessageFacts, DispatchTypes, HasSingle DEF Handshake, Requests
  <1>4. work = << >> /\ rx = << >> /\ tx = << >>
    BY <1>1 DEF StreamInv, Pristine, ModeInv, SentInv
  <1>5. LogonInv'
    BY <1>1, <1>2, <1>3, SendsLogon
  <1>6. ListenerInv' /\ SentInv'
    BY <1>1 DEF ModeInv, ListenerInv, SentInv, ServerSecured
  <1>7. Len(rx') = 1 /\ rx'[1].msg = Single(t)
    BY <1>2, <1>3, <1>4, SendsFrame
  <1>8. Len(work') = 0 /\ Len(tx') = 0
    BY <1>1, <1>4
  <1>9. GreetedInv'
    BY <1>1, <1>3, <1>7, <1>8 DEF GreetedInv
  <1> QED
    BY <1>1, <1>5, <1>6, <1>9 DEF ModeInv

\* The server answers the client's key: the frame it read was the only one.
LEMMA AnswerMode ==
  ASSUME TypeInv, LinkInv, StreamInv, ModeInv, link = "up", srv = "greeted",
         \/ srv' = "secured" /\ ServerSends(Single("EncResultOK"))
         \/ srv' = "refused" /\ ServerSends(Single("EncResultFail")),
         tx # << >>, tx' = Tail(tx),
         UNCHANGED <<channel_secured_, work, cb, link, desync>>
  PROVE  ModeInv'
  <1>1. PICK t \in {"EncResultOK", "EncResultFail"} : ServerSends(Single(t))
    OBVIOUS
  <1>2. /\ Single(t) \in Message /\ ~Has(Single(t), "LogonOK")
        /\ Single(t) # Single("EncRequest")
    BY MessageFacts, DispatchTypes, HasSingle DEF Handshake
  <1>3. LogonInv' /\ ListenerInv'
    <2>1. LogonInv'
      BY <1>1, <1>2, SendsLogon
    <2>2. ListenerInv'
      BY DEF ModeInv, ListenerInv
    <2> QED
      BY <2>1, <2>2
  <1>4. Len(rx) = 0 /\ Len(work) = 0 /\ Len(tx) = 1
    <2>1. Len(rx) \in Nat /\ Len(work) \in Nat /\ Len(tx) \in Nat \ {0}
      BY HeadTail DEF TypeInv
    <2>2. Len(rx) + Len(work) + Len(tx) <= 1
      BY DEF ModeInv, GreetedInv
    <2>3. \A i, j \in Nat, k \in Nat \ {0} : i + j + k <= 1 => i = 0 /\ j = 0 /\ k = 1
      OBVIOUS
    <2> QED
      BY <2>1, <2>2, <2>3
  <1>5. tx' = << >> /\ \A i \in 1 .. Len(tx') : FALSE
    BY <1>4, HeadTail DEF TypeInv
  <1>6. SentInv'
    BY <1>5 DEF SentInv
  <1>7. ~Pending("EncRequest")
    BY <1>4 DEF Pending, InWork, InRx
  <1>8. ~Pending("EncRequest")'
    BY <1>1, <1>2, <1>7, SendsRequest
  <1>9. GreetedInv'
    BY <1>8 DEF GreetedInv
  <1> QED
    BY <1>3, <1>6, <1>9 DEF ModeInv

\* A secured server sends a message outside the handshake, in answer or not.
LEMMA PlainMode ==
  ASSUME TypeInv, LinkInv, StreamInv, ModeInv, NEW m \in Plain, ServerSends(m),
         ServerSecured, srv' \in {"secured", "loggedon"},
         tx' = tx \/ (tx # << >> /\ tx' = Tail(tx)),
         UNCHANGED <<channel_secured_, work, cb, link, desync>>
  PROVE  ModeInv'
  <1>1. m \in Message /\ m # Single("EncRequest")
    BY PlainFacts DEF Plain, Handshake
  <1>2. LogonInv'
    BY <1>1, SendsLogon
  <1>3. ListenerInv'
    BY DEF ModeInv, ListenerInv
  <1>4. \A i \in 1 .. Len(tx') : \E j \in 1 .. Len(tx) : tx'[i] = tx[j]
    <2>1. CASE tx' = tx
      BY <2>1
    <2>2. CASE tx # << >> /\ tx' = Tail(tx)
      BY <2>2, HeadTail DEF TypeInv
    <2> QED
      BY <2>1, <2>2
  <1>5. SentInv'
    BY <1>4 DEF ModeInv, SentInv
  <1>6. Pending("EncRequest")' => Pending("EncRequest")
    BY <1>1, SendsRequest
  <1>7. srv # "greeted" /\ srv' # "greeted"
    BY DEF ServerSecured
  <1>8. GreetedInv'
    BY <1>6, <1>7 DEF ModeInv, GreetedInv
  <1> QED
    BY <1>2, <1>3, <1>5, <1>8 DEF ModeInv

\* The server reads a frame and says nothing.
LEMMA ReadMode ==
  ASSUME TypeInv, ModeInv, tx # << >>, tx' = Tail(tx),
         UNCHANGED <<channel_secured_, work, cb, rx, srv, link, desync>>
  PROVE  ModeInv'
  <1>1. /\ Len(tx') = Len(tx) - 1
        /\ \A i \in 1 .. Len(tx') : tx'[i] = tx[i + 1] /\ i + 1 \in 1 .. Len(tx)
    BY HeadTail DEF TypeInv
  <1>2. LogonInv' /\ ListenerInv'
    BY DEF ModeInv, LogonInv, ListenerInv
  <1>3. SentInv'
    BY <1>1 DEF ModeInv, SentInv, ServerSecured
  <1>4. Pending("EncRequest")' = Pending("EncRequest")
    BY DEF Pending, InWork, InRx
  <1>5. srv = "greeted" => Len(rx) + Len(work) + Len(tx') <= 1
    <2>1. Len(rx) \in Nat /\ Len(work) \in Nat /\ Len(tx) \in Nat
      BY DEF TypeInv
    <2> QED
      BY <1>1, <2>1 DEF ModeInv, GreetedInv
  <1>6. GreetedInv'
    BY <1>1, <1>4, <1>5 DEF ModeInv, GreetedInv
  <1> QED
    BY <1>2, <1>3, <1>6 DEF ModeInv

\* The listener of a new event may execute commands only on a secured channel.
LEMMA EmitListener ==
  ASSUME TypeInv, ModeInv,
         NEW type \in {"ChannelSecured", "ClientLogon", "ProductInfoResult",
                       "MsgNotImplemented"},
         NEW ok \in BOOLEAN, Emit(type, ok),
         ok /\ type \in {"ChannelSecured", "ClientLogon"} => channel_secured_',
         channel_secured_ => channel_secured_'
  PROVE  ListenerInv'
  <1> DEFINE e == [type |-> type, ok |-> ok]
  <1>1. cb \in Seq(Event) /\ e \in Event /\ cb' = Append(cb, e)
    BY EmitFacts DEF TypeInv
  <1>2. \A i \in 1 .. Len(cb') : (i \in 1 .. Len(cb) /\ cb'[i] = cb[i]) \/ cb'[i] = e
    BY <1>1, Appended
  <1>3. Enables(e) => channel_secured_'
    BY DEF Enables
  <1> QED
    BY <1>2, <1>3 DEF ModeInv, ListenerInv

\* A command of the examples finds the channel secured.
LEMMA ReadySecured ==
  ASSUME TypeInv, ModeInv, ~AnyTime,
         NEW when \in {"ChannelSecured", "ClientLogon"}, Execute(when)
  PROVE  channel_secured_ /\ UNCHANGED <<channel_secured_, work, srv, desync>>
  <1>1. cb # << >> /\ Last(cb) = [type |-> when, ok |-> TRUE]
    BY DEF Execute, Ready
  <1>2. Len(cb) \in 1 .. Len(cb)
    BY <1>1, HeadTail DEF TypeInv
  <1>3. Enables(cb[Len(cb)])
    BY <1>1 DEF Last, Enables
  <1> QED
    BY <1>2, <1>3 DEF ModeInv, ListenerInv, Execute

\* Every step of the first session of an application like the examples keeps
\* the modes of both sides in step.
LEMMA ModeStep ==
  ASSUME ~AnyTime, TypeInv, LinkInv, LogonNeverPlain, StreamInv, ModeInv, [Next]_vars
  PROVE  ModeInv'
  <1>0. StreamInv /\ ModeInv
    OBVIOUS
  <1>a. UNCHANGED <<cb, channel_secured_>> => ListenerInv'
    BY <1>0 DEF ModeInv, ListenerInv
  <1>1. CASE start_session
    <2>1. /\ UNCHANGED <<channel_secured_, work, rx, tx, srv, desync, cb>>
          /\ link' # "up"
      BY <1>1 DEF start_session, session
    <2> QED
      BY <1>0, <1>a, <2>1, AsideMode
  <1>2. CASE shutdown \/ LinkLost
    <2>1. UNCHANGED <<channel_secured_, work, cb, desync>> /\ LinkCloses
      BY <1>2 DEF shutdown, LinkLost, session
    <2> QED
      BY <1>0, <2>1, CloseFacts, CloseMode
  <1>3. CASE consume_frame
    BY <1>0, <1>3, ConsumeMode
  <1>4. CASE handle_multi
    BY <1>0, <1>4, MultiMode
  <1>5. ASSUME NEW t \in Simple, Dispatch(t), UNCHANGED wire, ListenerInv',
               channel_secured_ => channel_secured_'
        PROVE  ModeInv'
    <2>1. /\ work # << >> /\ work' = Tail(work)
          /\ UNCHANGED <<srv, desync, rx, tx, link>>
      BY <1>5, DispatchFacts DEF wire
    <2> QED
      BY <1>0, <1>5, <2>1, PopMode
  <1>6. CASE handle_encrypt_request
    <2>1. PICK t \in {"EncRequest", "EncRequestBad"} :
            /\ Dispatch(t)
            /\ \/ /\ t = "EncRequest" /\ send_msg("EncResponse") /\ UNCHANGED <<cb, outcome>>
               \/ /\ Emit("ChannelSecured", FALSE) /\ UNCHANGED wire
            /\ UNCHANGED channel_secured_
      BY <1>6 DEF handle_encrypt_request, generate_encryption_response
    <2>2. /\ work # << >> /\ work' = Tail(work) /\ Head(work) = Single(t)
          /\ UNCHANGED <<srv, desync>>
      BY <2>1, DispatchFacts, DispatchTypes
    <2>3. CASE t = "EncRequest" /\ send_msg("EncResponse") /\ UNCHANGED cb
      BY <1>0, <1>a, <2>1, <2>2, <2>3, ReplyMode
    <2>4. CASE Emit("ChannelSecured", FALSE) /\ UNCHANGED wire
      <3>1. ListenerInv'
        BY <1>0, <2>1, <2>4, EmitListener
      <3> QED
        BY <1>5, <2>1, <2>4, <3>1, DispatchTypes
    <2> QED
      BY <2>1, <2>3, <2>4
  <1>7. CASE handle_encrypt_result
    <2>1. PICK ok \in BOOLEAN :
            /\ Dispatch(IF ok THEN "EncResultOK" ELSE "EncResultFail")
            /\ channel_secured_' = ok
            /\ Emit("ChannelSecured", ok)
            /\ UNCHANGED wire
      BY <1>7 DEF handle_encrypt_result
    <2>2. channel_secured_ => ok
      <3> SUFFICES ASSUME ~ok PROVE ~channel_secured_
        OBVIOUS
      <3>1. work # << >> /\ Head(work) = Single("EncResultFail")
        BY <2>1, DispatchFacts, DispatchTypes
      <3>2. Head(work) = work[1] /\ 1 \in 1 .. Len(work)
        BY <3>1, HeadTail DEF TypeInv
      <3>3. Pending("EncResultFail")
        BY <3>1, <3>2 DEF Pending, InWork
      <3> QED
        BY <1>0, <3>3 DEF StreamInv, SecuredAfter
    <2>3. ListenerInv'
      BY <1>0, <2>1, <2>2, EmitListener
    <2>4. (IF ok THEN "EncResultOK" ELSE "EncResultFail") \in Simple
      BY DispatchTypes
    <2> QED
      BY <1>5, <2>1, <2>2, <2>3, <2>4
  <1>8. CASE handle_logon_response
    <2>1. PICK ok \in BOOLEAN :
            /\ Dispatch(IF ok THEN "LogonOK" ELSE "LogonFail")
            /\ Emit("ClientLogon", ok)
            /\ UNCHANGED <<channel_secured_, wire>>
      BY <1>8 DEF handle_logon_response
    <2>2. ok => channel_secured_
      <3> SUFFICES ASSUME ok PROVE channel_secured_
        OBVIOUS
      <3>1. work # << >> /\ Head(work) = Single("LogonOK")
        BY <2>1, DispatchFacts, DispatchTypes
      <3>2. Head(work) = work[1] /\ 1 \in 1 .. Len(work)
        BY <3>1, HeadTail DEF TypeInv
      <3>3. Has(work[1], "LogonOK")
        BY <3>1, <3>2, HasSingle, DispatchTypes
      <3> QED
        BY <1>0, <3>2, <3>3 DEF ModeInv, LogonInv
    <2>3. ListenerInv'
      BY <1>0, <2>1, <2>2, EmitListener
    <2>4. (IF ok THEN "LogonOK" ELSE "LogonFail") \in Simple
      BY DispatchTypes
    <2> QED
      BY <1>5, <2>1, <2>3, <2>4
  <1>9. CASE handle_prod_info_response
    <2>1. PICK t \in {"ProductInfo", "ProductInfoBad"} :
            /\ Dispatch(t)
            /\ Emit("ProductInfoResult", TRUE) \/ UNCHANGED cb
            /\ UNCHANGED <<channel_secured_, wire>>
      BY <1>9 DEF handle_prod_info_response
    <2>2. ListenerInv'
      BY <1>0, <1>a, <2>1, EmitListener
    <2> QED
      BY <1>5, <2>1, <2>2, DispatchTypes
  <1>10. CASE dispatch_default
    <2>1. PICK t \in {"Unknown", "Struct", "Short"} :
            /\ Dispatch(t)
            /\ Emit("MsgNotImplemented", FALSE) \/ UNCHANGED cb
            /\ UNCHANGED <<channel_secured_, wire>>
      BY <1>10 DEF dispatch_default
    <2>2. ListenerInv'
      BY <1>0, <1>a, <2>1, EmitListener
    <2> QED
      BY <1>5, <2>1, <2>2, DispatchTypes
  <1>11. CASE ListenerReturns
    <2>1. /\ cb # << >> /\ cb' = Front(cb)
          /\ UNCHANGED <<channel_secured_, work, rx, tx, srv, desync, link>>
      BY <1>11 DEF ListenerReturns, wire
    <2>2. \A i \in 1 .. Len(cb') : cb'[i] = cb[i] /\ i \in 1 .. Len(cb)
      BY <2>1 DEF Front, TypeInv
    <2>3. ListenerInv'
      BY <1>0, <2>1, <2>2 DEF ModeInv, ListenerInv
    <2> QED
      BY <1>0, <2>1, <2>3, AsideMode
  <1>12. CASE exec_anon_logon \/ exec_logoff \/ exec_get_product_info
    <2>1. PICK when \in {"ChannelSecured", "ClientLogon"} : Execute(when)
      BY <1>12 DEF exec_anon_logon, exec_logoff, exec_get_product_info
    <2>2. channel_secured_ /\ UNCHANGED <<channel_secured_, work, srv, desync>>
      BY <1>0, <2>1, ReadySecured
    <2>3. /\ UNCHANGED cb
          /\ \E type \in {"Logon", "LogOff", "ProductInfoRequest"} : send_msg(type)
      BY <1>12, <2>2 DEF exec_anon_logon, exec_logoff, exec_get_product_info
    <2> QED
      BY <1>0, <2>2, <2>3, SendMode
  <1>13. CASE LinkUp
    <2>1. /\ link = "connecting" /\ link' = "up" /\ srv' = "accepted"
          /\ UNCHANGED <<channel_secured_, work, cb, rx, tx, desync>>
      BY <1>13 DEF LinkUp, session
    <2>2. work = << >> /\ rx = << >>
      BY <1>0, <2>1 DEF StreamInv, Pristine
    <2>3. srv = "none"
      BY <2>1 DEF LinkInv
    <2>4. tx = << >>
      BY <1>0, <2>3 DEF ModeInv, SentInv
    <2>5. LogonInv' /\ ListenerInv'
      BY <1>0, <2>1 DEF ModeInv, LogonInv, ListenerInv
    <2>6. SentInv'
      BY <2>1, <2>4 DEF SentInv, ServerSecured
    <2>7. ~Pending("EncRequest")'
      BY <2>1, <2>2 DEF Pending, InWork, InRx
    <2>8. GreetedInv'
      BY <2>1, <2>7 DEF GreetedInv
    <2> QED
      BY <1>0, <2>1, <2>5, <2>6, <2>8 DEF ModeInv
  <1>14. CASE ServerGreets
    BY <1>0, <1>14, GreetMode
  <1>15. CASE ServerReceives
    <2>0. /\ link = "up" /\ tx # << >> /\ Head(tx) = tx[1] /\ 1 \in 1 .. Len(tx)
          /\ UNCHANGED <<channel_secured_, work, cb>>
      BY <1>15, ReceivesCases, HeadTail DEF session, TypeInv
    <2>1. ~Wrong
      <3>1. CASE ServerSecured
        BY <1>0, <2>0, <3>1 DEF ModeInv, SentInv, Wrong
      <3>2. CASE ~ServerSecured
        <4>1. srv = "greeted"
          BY <1>0, <2>0, <3>2 DEF ModeInv, SentInv, ServerSecured, TypeInv
        <4>2. ~tx[1].enc
          BY <1>0, <2>0, <4>1 DEF ModeInv, GreetedInv
        <4>3. tx[1].enc \in BOOLEAN
          <5>1. tx[1] \in Request
            BY <2>0 DEF TypeInv
          <5> QED
            BY <5>1 DEF Request
        <4>4. ServerSecured \in BOOLEAN
          BY DEF ServerSecured
        <4>5. Head(tx).enc = FALSE /\ ServerSecured = FALSE
          BY <2>0, <3>2, <4>2, <4>3, <4>4
        <4> QED
          BY <4>5 DEF Wrong
      <3> QED
        BY <3>1, <3>2
    <2>2. UNCHANGED desync
      <3>1. desync' = (desync \/ Wrong) /\ desync \in BOOLEAN
        BY <1>15, ReceivesCases DEF TypeInv
      <3> QED
        BY <2>1, <3>1
    <2>3. CASE link' = "down" /\ rx' = << >> /\ tx' = << >> /\ srv' = "none"
      BY <1>0, <2>0, <2>2, <2>3, CloseMode
    <2>4. CASE tx' = Tail(tx) /\ UNCHANGED <<srv, rx, link>>
      BY <1>0, <2>0, <2>2, <2>4, ReadMode
    <2>5. CASE /\ srv = "greeted" /\ tx' = Tail(tx) /\ UNCHANGED link
               /\ \/ srv' = "secured" /\ ServerSends(Single("EncResultOK"))
                  \/ srv' = "refused" /\ ServerSends(Single("EncResultFail"))
      BY <1>0, <2>0, <2>2, <2>5, AnswerMode
    <2>6. CASE /\ Head(tx).type = "Logon" /\ srv' \in {srv, "loggedon"}
               /\ tx' = Tail(tx) /\ UNCHANGED link /\ \E m \in Plain : ServerSends(m)
      <3>1. Head(tx).enc
        BY <2>0, <2>6 DEF LogonNeverPlain
      <3>2. ServerSecured
        BY <2>1, <3>1 DEF Wrong, ServerSecured
      <3>3. srv' \in {"secured", "loggedon"}
        BY <2>6, <3>2 DEF ServerSecured
      <3> QED
        BY <1>0, <2>0, <2>2, <2>6, <3>2, <3>3, PlainMode
    <2>7. CASE /\ srv = "loggedon" /\ srv' = srv /\ tx' = Tail(tx) /\ UNCHANGED link
               /\ \E m \in Plain : ServerSends(m)
      <3>1. ServerSecured /\ srv' \in {"secured", "loggedon"}
        BY <2>7 DEF ServerSecured
      <3> QED
        BY <1>0, <2>0, <2>2, <2>7, <3>1, PlainMode
    <2> QED
      BY <1>15, <2>3, <2>4, <2>5, <2>6, <2>7, ReceivesCases
  <1>16. CASE ServerPushes
    <2>1. PICK t \in {"Unknown", "Struct"} : ServerSends(Single(t))
      BY <1>16 DEF ServerPushes
    <2>2. Single(t) \in Plain
      BY PlainFacts DEF Simple, Handshake
    <2>3. /\ srv \in {"secured", "loggedon"} /\ srv' = srv
          /\ UNCHANGED <<channel_secured_, work, cb, link, tx, desync>>
      BY <1>16 DEF ServerPushes, session
    <2>4. ServerSecured
      BY <2>3 DEF ServerSecured
    <2> QED
      BY <1>0, <2>1, <2>2, <2>3, <2>4, PlainMode
  <1>17. CASE UNCHANGED vars
    <2>1. UNCHANGED <<channel_secured_, work, cb, rx, tx, srv, desync, link>>
      BY <1>17 DEF vars, session, wire
    <2> QED
      BY <1>0, <1>a, <2>1, AsideMode
  <1> QED
    BY <1>1, <1>2, <1>3, <1>4, <1>6, <1>7, <1>8, <1>9, <1>10, <1>11, <1>12, <1>13, <1>14,
       <1>15, <1>16, <1>17
    DEF Next, Handlers

\* Nothing has been sent.
LEMMA ModeInit == Init => ModeInv
  <1> SUFFICES ASSUME Init PROVE ModeInv
    OBVIOUS
  <1>1. LogonInv /\ ListenerInv /\ SentInv
    BY DEF Init, LogonInv, ListenerInv, SentInv, ServerSecured
  <1>2. GreetedInv
    BY DEF Init, GreetedInv
  <1> QED
    BY <1>1, <1>2 DEF Init, ModeInv

\* Both directions, in the first session of an application like the examples.
LEMMA ModeCorrect == Spec => []FirstModeInv
  <1>1. Init => FirstModeInv
    BY ModeInit DEF FirstModeInv
  <1>2. TypeInv /\ LinkInv /\ LogonNeverPlain /\ FirstStreamInv /\ FirstModeInv /\ [Next]_vars
          => FirstModeInv'
    <2> SUFFICES ASSUME TypeInv, LinkInv, LogonNeverPlain, FirstStreamInv, FirstModeInv,
                        [Next]_vars, ~AnyTime, connects' <= 1
                 PROVE  ModeInv'
      BY DEF FirstModeInv
    <2>1. StreamInv /\ ModeInv
      BY FirstStart DEF FirstStreamInv, FirstModeInv
    <2> QED
      BY <2>1, ModeStep
  <1> QED
    BY <1>1, <1>2, TypeInvCorrect, LinkInvCorrect, LogonCorrect, StreamCorrect, PTL
    DEF Spec

\* consume_frame / send_msg_impl: in the first session of an application that
\* executes its commands where the examples do, both sides switch to encryption
\* at the same place of the stream, in both directions.
THEOREM CipherCorrect ==
  ASSUME ~AnyTime
  PROVE  Spec => [](connects <= 1 => CipherInSync)
  <1>1. FirstStreamInv /\ FirstModeInv => (connects <= 1 => CipherInSync)
    BY DEF FirstStreamInv, FirstModeInv, StreamInv, ModeInv, CipherInSync, SecuredAfter,
           InWork, InRx, IsKeyAccepted
  <1> QED
    BY <1>1, StreamCorrect, ModeCorrect, PTL

-----------------------------------------------------------------------------
(* The first session: every message is dispatched once, in order.          *)

\* The parts of a sequence of messages, by its recursion.
LEMMA PartsFacts ==
  /\ Parts(<< >>) = << >>
  /\ \A ms \in Seq(Message) : Parts(ms) \in Seq(Simple)
  /\ \A ms \in Seq(Message), m \in Message :
       Parts(Append(ms, m)) = Parts(ms) \o m.parts
  <1> DEFINE All(ms) == [i \in 1 .. Len(ms) |-> ms[i].parts]
  <1>1. All(<< >>) = << >>
    OBVIOUS
  <1>2. ASSUME NEW ms \in Seq(Message) PROVE All(ms) \in Seq(Seq(Simple))
    <2>1. \A i \in 1 .. Len(ms) : ms[i].parts \in Seq(Simple)
      BY MessageFacts
    <2>2. Len(ms) \in Nat
      OBVIOUS
    <2> QED
      BY <2>1, <2>2
  <1>3. ASSUME NEW ms \in Seq(Message), NEW m \in Message
        PROVE  All(Append(ms, m)) = Append(All(ms), m.parts)
    <2> DEFINE ns == Append(ms, m)
    <2>1. /\ Len(ns) = Len(ms) + 1 /\ Len(ms) \in Nat
          /\ \A i \in 1 .. Len(ms) : ns[i] = ms[i]
          /\ ns[Len(ms) + 1] = m
      BY Appended
    <2>2. m.parts \in Seq(Simple) /\ All(ms) \in Seq(Seq(Simple)) /\ Len(All(ms)) = Len(ms)
      BY <1>2, MessageFacts
    <2>3. /\ Append(All(ms), m.parts) \in Seq(Seq(Simple))
          /\ Len(Append(All(ms), m.parts)) = Len(ms) + 1
          /\ \A i \in 1 .. Len(ms) : Append(All(ms), m.parts)[i] = All(ms)[i]
          /\ Append(All(ms), m.parts)[Len(ms) + 1] = m.parts
      <3> HIDE DEF All
      <3> QED
        BY <2>2, Appended
    <2>4. ns \in Seq(Message)
      BY Appended
    <2>5. All(ns) \in Seq(Seq(Simple)) /\ Len(All(ns)) = Len(ms) + 1
      <3>1. All(ns) \in Seq(Seq(Simple))
        BY <1>2, <2>4
      <3> HIDE DEF ns
      <3>2. Len(All(ns)) = Len(ns)
        BY <2>1
      <3> QED
        BY <2>1, <3>1, <3>2
    <2>6. ASSUME NEW i \in 1 .. Len(ms) + 1
          PROVE  All(ns)[i] = Append(All(ms), m.parts)[i]
      <3> HIDE DEF ns
      <3>1. All(ns)[i] = ns[i].parts
        BY <2>1
      <3>2. CASE i \in 1 .. Len(ms)
        <4>1. All(ms)[i] = ms[i].parts
          BY <3>2
        <4> QED
          BY <2>1, <2>3, <3>1, <3>2, <4>1
      <3>3. CASE i = Len(ms) + 1
        BY <2>1, <2>3, <3>1, <3>3
      <3> QED
        BY <2>1, <3>2, <3>3
    <2> HIDE DEF All, ns
    <2>7. All(ns) = Append(All(ms), m.parts)
      BY <2>3, <2>5, <2>6, SeqEqual
    <2> QED
      BY <2>7 DEF ns
  <1>4. ASSUME NEW ms PROVE Parts(ms) = FlattenSeq(All(ms))
    BY Zenon DEF Parts
  <1> HIDE DEF All
  <1>5. ASSUME NEW ms \in Seq(Message) PROVE Parts(ms) \in Seq(Simple)
    <2>1. FlattenSeq(All(ms)) \in Seq(Simple)
      BY <1>2, FlattenFacts
    <2> QED
      BY <1>4, <2>1
  <1>6. ASSUME NEW ms \in Seq(Message), NEW m \in Message
        PROVE  Parts(Append(ms, m)) = Parts(ms) \o m.parts
    <2>1. All(ms) \in Seq(Seq(Simple)) /\ m.parts \in Seq(Simple)
      BY <1>2, MessageFacts
    <2>2. FlattenSeq(Append(All(ms), m.parts)) = FlattenSeq(All(ms)) \o m.parts
      BY <2>1, FlattenFacts
    <2> QED
      BY <1>3, <1>4, <2>2
  <1>7. Parts(<< >>) = << >>
    BY <1>1, <1>4, FlattenFacts
  <1> QED
    BY <1>5, <1>6, <1>7

\* The parts of a concatenation.
LEMMA PartsConcat ==
  ASSUME NEW a \in Seq(Message), NEW b \in Seq(Message)
  PROVE  Parts(a \o b) = Parts(a) \o Parts(b)
  <1> DEFINE T == {c \in Seq(Message) : Parts(a \o c) = Parts(a) \o Parts(c)}
  <1>1. << >> \in T
    <2>1. a \o << >> = a /\ << >> \in Seq(Message)
      BY ConcatEmptySeq
    <2>2. Parts(a) \in Seq(Simple)
      BY PartsFacts
    <2>3. Parts(a) \o << >> = Parts(a)
      BY <2>2, ConcatEmptySeq
    <2> QED
      BY <2>1, <2>3, PartsFacts
  <1>2. ASSUME NEW c \in Seq(Message), NEW m \in Message, c \in T
        PROVE  Append(c, m) \in T
    <2>1. /\ a \o c \in Seq(Message) /\ Append(c, m) \in Seq(Message)
      BY Concatenated, Appended
    <2>2. a \o Append(c, m) = Append(a \o c, m)
      <3>1. <<m>> \in Seq(Message)
        BY OneElement
      <3>2. Append(c, m) = c \o <<m>> /\ Append(a \o c, m) = (a \o c) \o <<m>>
        BY <2>1, AppendIsConcat
      <3>3. (a \o c) \o <<m>> = a \o (c \o <<m>>)
        BY <3>1, ConcatAssociative
      <3> QED
        BY <3>2, <3>3
    <2>3. Parts(a \o Append(c, m)) = Parts(a \o c) \o m.parts
      BY <2>1, <2>2, PartsFacts
    <2>4. Parts(Append(c, m)) = Parts(c) \o m.parts
      BY PartsFacts
    <2>5. Parts(a) \in Seq(Simple) /\ Parts(c) \in Seq(Simple) /\ m.parts \in Seq(Simple)
      BY PartsFacts, MessageFacts
    <2>6. (Parts(a) \o Parts(c)) \o m.parts = Parts(a) \o (Parts(c) \o m.parts)
      <3>1. ASSUME NEW x \in Seq(Simple), NEW y \in Seq(Simple), NEW z \in Seq(Simple)
            PROVE  (x \o y) \o z = x \o (y \o z)
        OBVIOUS
      <3> QED
        BY <2>5, <3>1
    <2>7. Parts(a \o c) = Parts(a) \o Parts(c)
      BY <1>2
    <2> QED
      BY <2>1, <2>3, <2>4, <2>6, <2>7
  <1>3. b \in T
    <2> HIDE DEF T
    <2>1. Seq(Message) \subseteq T
      BY <1>1, <1>2, SeqSetInduction
    <2> QED
      BY <2>1
  <1> QED
    BY <1>3

\* The parts of one message, and of a message and what follows it.
LEMMA PartsFirst ==
  /\ \A m \in Message : Parts(<<m>>) = m.parts
  /\ \A ms \in Seq(Message) :
       ms # << >> => Parts(ms) = Head(ms).parts \o Parts(Tail(ms))
  <1>1. ASSUME NEW m \in Message PROVE Parts(<<m>>) = m.parts
    <2>1. <<m>> = Append(<< >>, m) /\ << >> \in Seq(Message) /\ m.parts \in Seq(Simple)
      BY MessageFacts
    <2>2. Parts(<<m>>) = << >> \o m.parts
      BY <2>1, PartsFacts
    <2> QED
      BY <2>1, <2>2, ConcatEmptySeq
  <1>2. ASSUME NEW ms \in Seq(Message), ms # << >>
        PROVE  Parts(ms) = Head(ms).parts \o Parts(Tail(ms))
    <2>1. Head(ms) \in Message /\ Tail(ms) \in Seq(Message) /\ <<Head(ms)>> \in Seq(Message)
      BY <1>2, HeadTail, OneElement
    <2>2. ms = <<Head(ms)>> \o Tail(ms)
      BY <1>2
    <2>3. Parts(<<Head(ms)>> \o Tail(ms)) = Parts(<<Head(ms)>>) \o Parts(Tail(ms))
      BY <2>1, PartsConcat
    <2> QED
      BY <1>1, <2>1, <2>2, <2>3
  <1> QED
    BY <1>1, <1>2

\* Parts that are messages of their own are the same parts.
LEMMA PartsSingles ==
  ASSUME NEW q \in Seq(Simple)
  PROVE  Parts([i \in 1 .. Len(q) |-> Single(q[i])]) = q
  <1> DEFINE Ones(p) == [i \in 1 .. Len(p) |-> Single(p[i])]
             T == {p \in Seq(Simple) : Ones(p) \in Seq(Message) /\ Parts(Ones(p)) = p}
  <1>1. << >> \in T
    <2>1. Ones(<< >>) = << >> /\ << >> \in Seq(Simple) /\ << >> \in Seq(Message)
      OBVIOUS
    <2> QED
      BY <2>1, PartsFacts
  <1>2. ASSUME NEW p \in Seq(Simple), NEW t \in Simple, p \in T
        PROVE  Append(p, t) \in T
    <2> DEFINE r == Append(p, t)
    <2>1. /\ r \in Seq(Simple) /\ Len(r) = Len(p) + 1 /\ Len(p) \in Nat
          /\ \A i \in 1 .. Len(p) : r[i] = p[i]
          /\ r[Len(p) + 1] = t
      BY Appended
    <2>2. Single(t) \in Message /\ Single(t).parts = <<t>>
      BY MessageFacts
    <2>3. Ones(p) \in Seq(Message) /\ Parts(Ones(p)) = p /\ Len(Ones(p)) = Len(p)
      BY <1>2
    <2>4. /\ Append(Ones(p), Single(t)) \in Seq(Message)
          /\ Len(Append(Ones(p), Single(t))) = Len(p) + 1
          /\ \A i \in 1 .. Len(p) : Append(Ones(p), Single(t))[i] = Ones(p)[i]
          /\ Append(Ones(p), Single(t))[Len(p) + 1] = Single(t)
      <3> HIDE DEF Ones
      <3> QED
        BY <2>2, <2>3, Appended
    <2> HIDE DEF r
    <2>5. Ones(r) \in Seq(Message) /\ Len(Ones(r)) = Len(p) + 1
      <3>1. \A i \in 1 .. Len(r) : r[i] \in Simple
        BY <2>1
      <3>2. \A i \in 1 .. Len(r) : Single(r[i]) \in Message
        BY <3>1, MessageFacts
      <3>3. Len(r) \in Nat
        BY <2>1
      <3> QED
        BY <2>1, <3>2, <3>3
    <2>6. ASSUME NEW i \in 1 .. Len(p) + 1
          PROVE  Ones(r)[i] = Append(Ones(p), Single(t))[i]
      <3>1. Ones(r)[i] = Single(r[i])
        BY <2>1
      <3>2. CASE i \in 1 .. Len(p)
        <4>1. Ones(p)[i] = Single(p[i])
          BY <3>2
        <4> QED
          BY <2>1, <2>4, <3>1, <3>2, <4>1
      <3>3. CASE i = Len(p) + 1
        BY <2>1, <2>4, <3>1, <3>3
      <3> QED
        BY <2>1, <3>2, <3>3
    <2>7. Ones(r) = Append(Ones(p), Single(t))
      <3> HIDE DEF Ones
      <3> QED
        BY <2>4, <2>5, <2>6, SeqEqual
    <2> HIDE DEF Ones
    <2>8. Parts(Ones(r)) = p \o <<t>>
      BY <2>2, <2>3, <2>7, PartsFacts
    <2>9. r = p \o <<t>>
      BY AppendIsConcat DEF r
    <2>10. r \in T
      BY <2>1, <2>5, <2>8, <2>9
    <2> QED
      BY <2>10 DEF r
  <1>3. q \in T
    <2> HIDE DEF T
    <2>1. Seq(Simple) \subseteq T
      BY <1>1, <1>2, SeqSetInduction
    <2> QED
      BY <2>1
  <1> QED
    BY <1>3

\* The messages that the frames of a stream carry.
Msgs(fs) == [i \in 1 .. Len(fs) |-> fs[i].msg]

\* Their recursion.
LEMMA MsgsFacts ==
  /\ Msgs(<< >>) = << >>
  /\ \A fs \in Seq(Received) : Msgs(fs) \in Seq(Message)
  /\ \A fs \in Seq(Received), f \in Received : Msgs(Append(fs, f)) = Append(Msgs(fs), f.msg)
  /\ \A f \in Received : Msgs(<<f>>) = <<f.msg>>
  /\ \A fs \in Seq(Received) : fs # << >> =>
       /\ Msgs(fs) # << >> /\ Head(Msgs(fs)) = Head(fs).msg
       /\ Tail(Msgs(fs)) = Msgs(Tail(fs))
  <1>1. Msgs(<< >>) = << >>
    BY DEF Msgs
  <1>2. ASSUME NEW fs \in Seq(Received)
        PROVE  Msgs(fs) \in Seq(Message) /\ Len(Msgs(fs)) = Len(fs)
    <2>1. \A i \in 1 .. Len(fs) : fs[i] \in Received
      OBVIOUS
    <2>2. \A i \in 1 .. Len(fs) : fs[i].msg \in Message
      BY <2>1 DEF Received
    <2>3. Len(fs) \in Nat
      OBVIOUS
    <2> QED
      BY <2>2, <2>3 DEF Msgs
  <1>3. ASSUME NEW fs \in Seq(Received), NEW f \in Received
        PROVE  Msgs(Append(fs, f)) = Append(Msgs(fs), f.msg)
    <2> DEFINE gs == Append(fs, f)
    <2>1. /\ gs \in Seq(Received) /\ Len(gs) = Len(fs) + 1 /\ Len(fs) \in Nat
          /\ \A i \in 1 .. Len(fs) : gs[i] = fs[i]
          /\ gs[Len(fs) + 1] = f
      BY Appended
    <2>2. f.msg \in Message
      BY DEF Received
    <2>3. /\ Append(Msgs(fs), f.msg) \in Seq(Message)
          /\ Len(Append(Msgs(fs), f.msg)) = Len(fs) + 1
          /\ \A i \in 1 .. Len(fs) : Append(Msgs(fs), f.msg)[i] = Msgs(fs)[i]
          /\ Append(Msgs(fs), f.msg)[Len(fs) + 1] = f.msg
      BY <1>2, <2>2, Appended
    <2> HIDE DEF gs
    <2>4. Msgs(gs) \in Seq(Message) /\ Len(Msgs(gs)) = Len(fs) + 1
      BY <1>2, <2>1
    <2>5. ASSUME NEW i \in 1 .. Len(fs) + 1
          PROVE  Msgs(gs)[i] = Append(Msgs(fs), f.msg)[i]
      <3>1. Msgs(gs)[i] = gs[i].msg
        BY <2>1 DEF Msgs
      <3>2. CASE i \in 1 .. Len(fs)
        <4>1. Msgs(fs)[i] = fs[i].msg
          BY <3>2 DEF Msgs
        <4> QED
          BY <2>1, <2>3, <3>1, <3>2, <4>1
      <3>3. CASE i = Len(fs) + 1
        BY <2>1, <2>3, <3>1, <3>3
      <3>4. i \in 1 .. Len(fs) \/ i = Len(fs) + 1
        BY <2>1
      <3> QED
        BY <3>2, <3>3, <3>4
    <2>6. Msgs(gs) = Append(Msgs(fs), f.msg)
      BY <2>3, <2>4, <2>5, SeqEqual
    <2> QED
      BY <2>6 DEF gs
  <1>4. ASSUME NEW f \in Received PROVE Msgs(<<f>>) = <<f.msg>>
    BY DEF Msgs
  <1>5. ASSUME NEW fs \in Seq(Received), fs # << >>
        PROVE  /\ Msgs(fs) # << >> /\ Head(Msgs(fs)) = Head(fs).msg
               /\ Tail(Msgs(fs)) = Msgs(Tail(fs))
    <2>1. /\ Len(fs) \in Nat \ {0} /\ Head(fs) = fs[1] /\ Tail(fs) \in Seq(Received)
          /\ Len(Tail(fs)) = Len(fs) - 1 /\ 1 \in 1 .. Len(fs)
          /\ \A i \in 1 .. Len(Tail(fs)) : Tail(fs)[i] = fs[i + 1] /\ i + 1 \in 1 .. Len(fs)
      BY <1>5, HeadTail
    <2>2. /\ Msgs(fs) \in Seq(Message) /\ Len(Msgs(fs)) = Len(fs)
          /\ \A i \in 1 .. Len(fs) : Msgs(fs)[i] = fs[i].msg
      BY <1>2 DEF Msgs
    <2>3. Msgs(fs) # << >>
      BY <2>1, <2>2
    <2>4. /\ Head(Msgs(fs)) = Msgs(fs)[1] /\ Tail(Msgs(fs)) \in Seq(Message)
          /\ Len(Tail(Msgs(fs))) = Len(fs) - 1
          /\ \A i \in 1 .. Len(fs) - 1 : Tail(Msgs(fs))[i] = Msgs(fs)[i + 1]
      BY <2>2, <2>3, HeadTail
    <2>5. /\ Msgs(Tail(fs)) \in Seq(Message) /\ Len(Msgs(Tail(fs))) = Len(fs) - 1
          /\ \A i \in 1 .. Len(fs) - 1 : Msgs(Tail(fs))[i] = Tail(fs)[i].msg
      BY <1>2, <2>1 DEF Msgs
    <2>6. ASSUME NEW i \in 1 .. Len(fs) - 1
          PROVE  Tail(Msgs(fs))[i] = Msgs(Tail(fs))[i]
      BY <2>1, <2>2, <2>4, <2>5
    <2>7. Tail(Msgs(fs)) = Msgs(Tail(fs))
      BY <2>4, <2>5, <2>6, SeqEqual
    <2> QED
      BY <2>1, <2>2, <2>3, <2>4, <2>7
  <1> QED
    BY <1>1, <1>2, <1>3, <1>4, <1>5

\* Their concatenation is associative.
LEMMA PartsAssociative ==
  \A x \in Seq(Simple), y \in Seq(Simple), z \in Seq(Simple) :
    (x \o y) \o z = x \o (y \o z)
  OBVIOUS

\* What has been dispatched and what is still to come.
Flow == dispatched \o Parts(work) \o Parts(Msgs(rx))

\* The messages that the server has sent, up to what was lost with the connection.
OrderInv ==
  /\ \E lost \in Seq(Simple) : Flow \o lost = sent /\ (link = "up" => lost = << >>)
  /\ link \in {"connecting", "wedged"} => sent = << >>

\* In the first session only.
FirstOrderInv == connects <= 1 => OrderInv

\* The types of its pieces.
LEMMA FlowTypes ==
  ASSUME TypeInv
  PROVE  /\ dispatched \in Seq(Simple) /\ Parts(work) \in Seq(Simple)
         /\ Msgs(rx) \in Seq(Message) /\ Parts(Msgs(rx)) \in Seq(Simple)
         /\ Flow \in Seq(Simple) /\ sent \in Seq(Simple)
  <1>1. /\ dispatched \in Seq(Simple) /\ sent \in Seq(Simple)
        /\ work \in Seq(Message) /\ rx \in Seq(Received)
    BY DEF TypeInv
  <1>2. Msgs(rx) \in Seq(Message)
    BY <1>1, MsgsFacts
  <1>3. Parts(work) \in Seq(Simple) /\ Parts(Msgs(rx)) \in Seq(Simple)
    BY <1>1, <1>2, PartsFacts
  <1>4. dispatched \o Parts(work) \in Seq(Simple)
    BY <1>1, <1>3, Concatenated
  <1>5. Flow \in Seq(Simple)
    BY <1>3, <1>4, Concatenated DEF Flow
  <1> QED
    BY <1>1, <1>2, <1>3, <1>5

\* The steps that leave the flow as it is.
LEMMA FlowKept ==
  ASSUME OrderInv, Flow' = Flow, UNCHANGED sent,
         link' = link \/ (link = "wedged" /\ link' = "down")
  PROVE  OrderInv'
  BY DEF OrderInv

\* A message is dispatched.
LEMMA FlowDispatch ==
  ASSUME TypeInv, OrderInv, NEW t \in Simple, Dispatch(t),
         UNCHANGED wire \/ send_msg("EncResponse")
  PROVE  OrderInv'
  <1>1. /\ work # << >> /\ work' = Tail(work) /\ Head(work) = Single(t) /\ UNCHANGED sent
        /\ dispatched' = Append(dispatched, t)
    BY DispatchFacts DEF Dispatch
  <1>2. UNCHANGED rx /\ (link' = link \/ (link = "wedged" /\ link' = "down"))
    BY SendFacts DEF wire
  <1>3. work \in Seq(Message) /\ Tail(work) \in Seq(Message)
    BY <1>1, HeadTail DEF TypeInv
  <1>4. /\ Parts(Tail(work)) \in Seq(Simple) /\ Parts(work) = <<t>> \o Parts(Tail(work))
    BY <1>1, <1>3, PartsFacts, PartsFirst, MessageFacts
  <1>5. /\ dispatched \in Seq(Simple) /\ dispatched' = dispatched \o <<t>>
        /\ <<t>> \in Seq(Simple)
    BY <1>1, FlowTypes, AppendIsConcat, OneElement
  <1>6. dispatched' \o Parts(work') = dispatched \o Parts(work)
    <2>1. (dispatched \o <<t>>) \o Parts(Tail(work)) = dispatched \o (<<t>> \o Parts(Tail(work)))
      BY <1>4, <1>5, PartsAssociative
    <2>2. Parts(work') = Parts(Tail(work))
      BY <1>1
    <2> QED
      BY <1>4, <1>5, <2>1, <2>2
  <1>7. Parts(Msgs(rx))' = Parts(Msgs(rx))
    BY <1>2
  <1>8. Flow' = Flow
    BY <1>6, <1>7 DEF Flow
  <1> QED
    BY <1>1, <1>2, <1>8, FlowKept

\* A frame becomes the work.
LEMMA FlowConsume ==
  ASSUME TypeInv, LinkInv, StreamInv, OrderInv, consume_frame
  PROVE  OrderInv'
  <1>1. /\ work = << >> /\ rx # << >> /\ rx' = Tail(rx) /\ work' = <<Head(rx).msg>>
        /\ UNCHANGED <<dispatched, sent, link>>
    BY ConsumeStream DEF consume_frame, IoIdle
  <1>2. rx \in Seq(Received) /\ Head(rx) \in Received
    BY <1>1, HeadTail DEF TypeInv
  <1>3. Head(rx).msg \in Message
    BY <1>2 DEF Received
  <1>4. /\ Msgs(rx) \in Seq(Message) /\ Msgs(rx) # << >>
        /\ Head(Msgs(rx)) = Head(rx).msg /\ Tail(Msgs(rx)) = Msgs(rx')
    BY <1>1, <1>2, MsgsFacts
  <1>5. Parts(Msgs(rx)) = Head(rx).msg.parts \o Parts(Msgs(rx'))
    BY <1>4, PartsFirst
  <1>6. Parts(work') = Head(rx).msg.parts /\ Parts(work) = << >>
    BY <1>1, <1>3, PartsFirst, PartsFacts
  <1>7. /\ dispatched \in Seq(Simple) /\ Head(rx).msg.parts \in Seq(Simple)
        /\ Parts(Msgs(rx')) \in Seq(Simple)
    <2>1. Msgs(rx') \in Seq(Message)
      BY <1>4, HeadTail
    <2> QED
      BY <1>3, <2>1, FlowTypes, PartsFacts, MessageFacts
  <1>8. (dispatched \o Head(rx).msg.parts) \o Parts(Msgs(rx'))
        = dispatched \o (Head(rx).msg.parts \o Parts(Msgs(rx')))
    BY <1>7, PartsAssociative
  <1>9. dispatched \o << >> = dispatched
    BY <1>7, ConcatEmptySeq
  <1>10. Flow' = Flow
    BY <1>1, <1>5, <1>6, <1>8, <1>9 DEF Flow
  <1> QED
    BY <1>1, <1>10, FlowKept

\* The parts of a Multi take its place.
LEMMA FlowMulti ==
  ASSUME TypeInv, OrderInv, handle_multi
  PROVE  OrderInv'
  <1> DEFINE ms == [i \in 1 .. Len(Head(work).parts) |-> Single(Head(work).parts[i])]
  <1>1. /\ work # << >> /\ work' = ms \o Tail(work) /\ ms \in Seq(Message)
        /\ Head(work) \in MultiMsg
    BY MultiFacts
  <1>2. Head(work).parts \in Seq(Simple)
    BY <1>1, MessageFacts
  <1>3. Parts(ms) = Head(work).parts
    BY <1>2, PartsSingles
  <1> HIDE DEF ms
  <1>4. work \in Seq(Message) /\ Tail(work) \in Seq(Message)
    BY <1>1, HeadTail DEF TypeInv
  <1>5. Parts(work') = Parts(ms) \o Parts(Tail(work))
    BY <1>1, <1>4, PartsConcat
  <1>6. Parts(work') = Parts(work)
    BY <1>1, <1>3, <1>4, <1>5, PartsFirst
  <1>7. UNCHANGED <<dispatched, sent, link, rx>>
    BY DEF handle_multi, wire
  <1>8. Flow' = Flow
    BY <1>6, <1>7 DEF Flow
  <1> QED
    BY <1>7, <1>8, FlowKept

\* The server sends a message on an open connection.
LEMMA FlowSends ==
  ASSUME TypeInv, OrderInv, link = "up", NEW m \in Message, ServerSends(m),
         UNCHANGED <<dispatched, work, link>>
  PROVE  OrderInv'
  <1> DEFINE f == [enc |-> srv \in {"secured", "loggedon"}, msg |-> m]
  <1>1. f \in Received /\ f.msg = m /\ rx \in Seq(Received) /\ rx' = Append(rx, f)
    BY DEF Received, TypeInv, ServerSends
  <1>2. m.parts \in Seq(Simple) /\ sent' = sent \o m.parts
    BY MessageFacts DEF ServerSends
  <1> HIDE DEF f
  <1>3. Msgs(rx)' = Append(Msgs(rx), m)
    BY <1>1, MsgsFacts
  <1>4. Parts(Msgs(rx))' = Parts(Msgs(rx)) \o m.parts
    BY <1>3, FlowTypes, PartsFacts
  <1>5. Flow' = Flow \o m.parts
    <2>1. Flow' = (dispatched \o Parts(work)) \o (Parts(Msgs(rx)) \o m.parts)
      BY <1>4 DEF Flow
    <2>2. dispatched \o Parts(work) \in Seq(Simple)
      BY FlowTypes, Concatenated
    <2>3. ((dispatched \o Parts(work)) \o Parts(Msgs(rx))) \o m.parts
          = (dispatched \o Parts(work)) \o (Parts(Msgs(rx)) \o m.parts)
      BY <1>2, <2>2, FlowTypes, PartsAssociative
    <2> QED
      BY <2>1, <2>3 DEF Flow
  <1>6. Flow = sent
    <2>1. Flow \o << >> = sent
      BY DEF OrderInv
    <2> QED
      BY <2>1, FlowTypes, ConcatEmptySeq
  <1>7. Flow' = sent' /\ Flow' \in Seq(Simple)
    BY <1>2, <1>5, <1>6, FlowTypes, Concatenated
  <1>8. Flow' \o << >> = sent' /\ << >> \in Seq(Simple)
    BY <1>7, ConcatEmptySeq
  <1> QED
    BY <1>8 DEF OrderInv

\* The connection ends: what has not been read is lost, but for the next frame.
LEMMA FlowClose ==
  ASSUME TypeInv, OrderInv, link' = "down",
         rx' = << >> \/ (rx # << >> /\ rx' = <<Head(rx)>>),
         UNCHANGED <<dispatched, work, sent>>
  PROVE  OrderInv'
  <1>1. \E rest \in Seq(Simple) :
          Parts(Msgs(rx)) = Parts(Msgs(rx))' \o rest /\ Parts(Msgs(rx))' \in Seq(Simple)
    <2>1. CASE rx' = << >>
      <3>1. Parts(Msgs(rx))' = << >>
        BY <2>1, MsgsFacts, PartsFacts
      <3>2. Parts(Msgs(rx)) \in Seq(Simple) /\ << >> \in Seq(Simple)
        BY FlowTypes
      <3>3. << >> \o Parts(Msgs(rx)) = Parts(Msgs(rx))
        BY <3>2, ConcatEmptySeq
      <3> QED
        BY <3>1, <3>2, <3>3
    <2>2. CASE rx # << >> /\ rx' = <<Head(rx)>>
      <3>1. rx \in Seq(Received) /\ Head(rx) \in Received
        BY <2>2, HeadTail DEF TypeInv
      <3>2. Head(rx).msg \in Message
        BY <3>1 DEF Received
      <3>3. Msgs(rx)' = <<Head(rx).msg>>
        BY <2>2, <3>1, MsgsFacts
      <3>4. Parts(Msgs(rx))' = Head(rx).msg.parts /\ Head(rx).msg.parts \in Seq(Simple)
        BY <3>2, <3>3, PartsFirst, MessageFacts
      <3>5. /\ Msgs(rx) \in Seq(Message) /\ Msgs(rx) # << >> /\ Head(Msgs(rx)) = Head(rx).msg
            /\ Tail(Msgs(rx)) \in Seq(Message)
        BY <2>2, <3>1, MsgsFacts, HeadTail
      <3>6. /\ Parts(Msgs(rx)) = Head(rx).msg.parts \o Parts(Tail(Msgs(rx)))
            /\ Parts(Tail(Msgs(rx))) \in Seq(Simple)
        BY <3>5, PartsFirst, PartsFacts
      <3> QED
        BY <3>4, <3>6
    <2> QED
      BY <2>1, <2>2
  <1>2. PICK rest \in Seq(Simple) :
          Parts(Msgs(rx)) = Parts(Msgs(rx))' \o rest /\ Parts(Msgs(rx))' \in Seq(Simple)
    BY <1>1
  <1>3. PICK lost \in Seq(Simple) : Flow \o lost = sent
    BY DEF OrderInv
  <1>4. dispatched \o Parts(work) \in Seq(Simple)
    BY FlowTypes, Concatenated
  <1>5. Flow' = (dispatched \o Parts(work)) \o Parts(Msgs(rx))' /\ Flow' \in Seq(Simple)
    BY <1>2, <1>4, Concatenated DEF Flow
  <1>6. Flow = Flow' \o rest
    <2>1. ((dispatched \o Parts(work)) \o Parts(Msgs(rx))') \o rest
          = (dispatched \o Parts(work)) \o (Parts(Msgs(rx))' \o rest)
      BY <1>2, <1>4, PartsAssociative
    <2> QED
      BY <1>2, <1>5, <2>1 DEF Flow
  <1>7. Flow' \o (rest \o lost) = (Flow' \o rest) \o lost
    BY <1>5, PartsAssociative
  <1>8. Flow' \o (rest \o lost) = sent' /\ rest \o lost \in Seq(Simple)
    <2>1. rest \o lost \in Seq(Simple)
      BY Concatenated
    <2> QED
      BY <1>3, <1>6, <1>7, <2>1
  <1> QED
    BY <1>8 DEF OrderInv

\* Every step of the first session keeps the order.
LEMMA OrderStep ==
  ASSUME TypeInv, LinkInv, StreamInv, OrderInv, [Next]_vars
  PROVE  OrderInv'
  <1>0. StreamInv /\ OrderInv
    OBVIOUS
  <1>a. UNCHANGED <<dispatched, work, rx>> => Flow' = Flow
    BY DEF Flow
  <1>1. CASE start_session
    <2>1. /\ rx' = << >> /\ work' = << >> /\ dispatched' = << >> /\ sent' = << >>
      BY <1>1 DEF start_session, IoIdle, session
    <2>2. Flow' = << >> \o << >> \o << >>
      BY <2>1, MsgsFacts, PartsFacts DEF Flow
    <2>3. << >> \o << >> = << >> /\ << >> \in Seq(Simple)
      OBVIOUS
    <2> QED
      BY <2>1, <2>2, <2>3 DEF OrderInv
  <1>2. CASE shutdown \/ LinkLost
    <2>1. UNCHANGED <<work, dispatched, sent>> /\ LinkCloses
      BY <1>2 DEF shutdown, LinkLost, session
    <2> QED
      BY <1>0, <2>1, CloseFacts, FlowClose
  <1>3. CASE consume_frame
    BY <1>0, <1>3, FlowConsume
  <1>4. CASE handle_multi
    BY <1>0, <1>4, FlowMulti
  <1>5. CASE handle_encrypt_request
    BY <1>0, <1>5, FlowDispatch, DispatchTypes DEF handle_encrypt_request
  <1>6. CASE handle_encrypt_result \/ handle_logon_response
    <2>1. PICK t \in {"EncResultOK", "EncResultFail", "LogonOK", "LogonFail"} :
            Dispatch(t) /\ UNCHANGED wire
      BY <1>6 DEF handle_encrypt_result, handle_logon_response
    <2> QED
      BY <1>0, <2>1, FlowDispatch, DispatchTypes
  <1>7. CASE handle_prod_info_response
    BY <1>0, <1>7, FlowDispatch, DispatchTypes DEF handle_prod_info_response
  <1>8. CASE dispatch_default
    BY <1>0, <1>8, FlowDispatch, DispatchTypes DEF dispatch_default
  <1>9. CASE ListenerReturns
    BY <1>0, <1>a, <1>9, FlowKept DEF ListenerReturns, wire
  <1>10. CASE exec_anon_logon \/ exec_logoff \/ exec_get_product_info
    <2>1. /\ UNCHANGED <<work, dispatched, sent>>
          /\ \/ UNCHANGED wire
             \/ \E type \in {"Logon", "LogOff", "ProductInfoRequest"} : send_msg(type)
      BY <1>10 DEF exec_anon_logon, exec_logoff, exec_get_product_info, Execute
    <2>2. UNCHANGED rx /\ (link' = link \/ (link = "wedged" /\ link' = "down"))
      BY <2>1, SendFacts DEF wire
    <2> QED
      BY <1>0, <1>a, <2>1, <2>2, FlowKept
  <1>11. CASE LinkUp
    <2>1. /\ link = "connecting" /\ UNCHANGED <<work, rx, dispatched, sent>> /\ link' = "up"
      BY <1>11 DEF LinkUp, session
    <2>2. sent = << >>
      BY <1>0, <2>1 DEF OrderInv
    <2>3. Flow = << >>
      BY <1>0, <2>2, FlowTypes, ConcatEqualIffEmpty DEF OrderInv
    <2>4. Flow' \o << >> = sent' /\ << >> \in Seq(Simple)
      BY <1>a, <2>1, <2>2, <2>3
    <2> QED
      BY <2>1, <2>4 DEF OrderInv
  <1>12. CASE ServerGreets
    <2>1. /\ link = "up" /\ UNCHANGED <<work, dispatched, link>>
      BY <1>12 DEF ServerGreets, session, LinkInv
    <2>2. PICK t \in {"EncRequest", "EncRequestBad"} : ServerSends(Single(t))
      BY <1>12 DEF ServerGreets
    <2>3. Single(t) \in Message
      BY MessageFacts, DispatchTypes
    <2> QED
      BY <1>0, <2>1, <2>2, <2>3, FlowSends
  <1>13. CASE ServerReceives
    <2>0. link = "up" /\ UNCHANGED <<work, dispatched>>
      BY <1>13, ReceivesCases DEF session
    <2>1. CASE link' = "down" /\ rx' = << >> /\ UNCHANGED sent
      BY <1>0, <2>0, <2>1, FlowClose
    <2>2. CASE UNCHANGED <<rx, sent, link>>
      BY <1>0, <1>a, <2>0, <2>2, FlowKept
    <2>3. CASE UNCHANGED link /\ \E m \in Message : ServerSends(m)
      BY <1>0, <2>0, <2>3, FlowSends
    <2>4. /\ Single("EncResultOK") \in Message /\ Single("EncResultFail") \in Message
          /\ Plain \subseteq Message
      BY MessageFacts, DispatchTypes DEF Plain
    <2> QED
      BY <1>13, <2>1, <2>2, <2>3, <2>4, ReceivesCases
  <1>14. CASE ServerPushes
    <2>1. /\ link = "up" /\ UNCHANGED <<work, dispatched, link>>
      BY <1>14 DEF ServerPushes, session, LinkInv
    <2>2. PICK t \in {"Unknown", "Struct"} : ServerSends(Single(t))
      BY <1>14 DEF ServerPushes
    <2>3. Single(t) \in Message
      BY MessageFacts, DispatchTypes
    <2> QED
      BY <1>0, <2>1, <2>2, <2>3, FlowSends
  <1>15. CASE UNCHANGED vars
    BY <1>0, <1>a, <1>15, FlowKept DEF vars, session, wire
  <1> QED
    BY <1>1, <1>2, <1>3, <1>4, <1>5, <1>6, <1>7, <1>8, <1>9, <1>10, <1>11, <1>12, <1>13,
       <1>14, <1>15
    DEF Next, Handlers

\* Nothing has been sent.
LEMMA OrderInit == Init => OrderInv
  <1> SUFFICES ASSUME Init PROVE OrderInv
    OBVIOUS
  <1>1. Flow = << >> \o << >> \o << >>
    BY MsgsFacts, PartsFacts DEF Init, Flow
  <1>2. << >> \o << >> = << >> /\ << >> \in Seq(Simple)
    OBVIOUS
  <1> QED
    BY <1>1, <1>2 DEF Init, OrderInv

\* OrderInv is what InOrderDispatch needs.
LEMMA OrderMeans == TypeInv /\ OrderInv => InOrderDispatch
  <1> SUFFICES ASSUME TypeInv, OrderInv PROVE InOrderDispatch
    OBVIOUS
  <1>1. PICK lost \in Seq(Simple) : Flow \o lost = sent /\ (link = "up" => lost = << >>)
    BY DEF OrderInv
  <1>2. InOrderDispatch = IF link = "up" THEN Flow = sent ELSE IsPrefix(Flow, sent)
    BY DEF InOrderDispatch, Flow, Msgs
  <1>3. CASE link = "up"
    <2>1. Flow \o << >> = Flow
      BY FlowTypes, ConcatEmptySeq
    <2> QED
      BY <1>1, <1>2, <1>3, <2>1
  <1>4. CASE link # "up"
    <2>1. IsPrefix(Flow, sent)
      BY <1>1, FlowTypes, PrefixOfConcat
    <2> QED
      BY <1>2, <1>4, <2>1
  <1> QED
    BY <1>3, <1>4

\* handle_multi / consume_frame: in the first session what the server sends is
\* dispatched once and in order, the parts of a Multi in their place.
THEOREM OrderCorrect == Spec => [](connects <= 1 => InOrderDispatch)
  <1>1. Init => FirstOrderInv
    BY OrderInit DEF FirstOrderInv
  <1>2. TypeInv /\ LinkInv /\ FirstStreamInv /\ FirstOrderInv /\ [Next]_vars => FirstOrderInv'
    BY FirstStart, OrderStep DEF FirstStreamInv, FirstOrderInv
  <1>3. TypeInv /\ FirstOrderInv => (connects <= 1 => InOrderDispatch)
    BY OrderMeans DEF FirstOrderInv
  <1> QED
    BY <1>1, <1>2, <1>3, TypeInvCorrect, LinkInvCorrect, StreamCorrect, PTL DEF Spec

-----------------------------------------------------------------------------
(* All sessions of a client whose channel is clear when each begins.       *)

\* cmclient.hpp does not reset channel_secured_, and this is all that later
\* sessions lack: if start_session always finds it FALSE, because no session
\* before has secured the channel, or because it was reset, then in every session
\* the client takes the channel for secured only when the server does, no frame
\* makes consume_frame throw, and what is sent is dispatched once and in order.
THEOREM ClearSessions ==
  Spec /\ [][ClearStart]_vars => [](SecuredAgreed /\ ~crashed /\ InOrderDispatch)
  <1>1. TypeInv /\ LinkInv /\ StreamInv /\ OrderInv /\ [Next]_vars => OrderInv'
    BY OrderStep
  <1>2. TypeInv /\ StreamInv /\ OrderInv => SecuredAgreed /\ ~crashed /\ InOrderDispatch
    BY OrderMeans DEF StreamInv, SecuredAgreed, SecuredAfter
  <1> QED
    BY <1>1, <1>2, OrderInit, StreamClear, TypeInvCorrect, LinkInvCorrect, PTL DEF Spec

\* And, for an application that executes its commands where the examples do,
\* both sides switch to encryption at the same place of each session's stream.
THEOREM ClearCipher ==
  ASSUME ~AnyTime
  PROVE  Spec /\ [][ClearStart]_vars => []CipherInSync
  <1>1. /\ TypeInv /\ LinkInv /\ LogonNeverPlain /\ StreamInv /\ ModeInv /\ [Next]_vars
        => ModeInv'
    BY ModeStep
  <1>2. StreamInv /\ ModeInv => CipherInSync
    BY DEF StreamInv, ModeInv, CipherInSync, SecuredAfter, InWork, InRx, IsKeyAccepted
  <1> QED
    BY <1>1, <1>2, ModeInit, StreamClear, TypeInvCorrect, LinkInvCorrect, LogonCorrect, PTL
    DEF Spec
=============================================================================
