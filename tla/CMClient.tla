-------------------------------- MODULE CMClient --------------------------------
(***************************************************************************)
(* The session layer: CMClient with its dispatcher, its message handlers   *)
(* and its commands, between an application and a CM server.               *)
(*                                                                         *)
(* A received frame is decrypted (or not), then dispatched by message      *)
(* type; a Multi message is taken apart and its parts are consumed in turn *)
(* with encrypt = false. A handler ends by emitting an event; the listener *)
(* is called inside the emit and may execute commands, which may emit in   *)
(* their turn.                                                             *)
(*                                                                         *)
(* The connection below is the one TCPConnection promises to an            *)
(* application that lets it drain before it reconnects: frames arrive in   *)
(* order and only from the present connection, at most one arrives after a *)
(* close, and a write that failed stops the writer for good (`stalled`).   *)
(***************************************************************************)
EXTENDS Integers, Sequences, SequencesExt

CONSTANTS
  MaxConnects,   \* bound: calls of start_session
  MaxCommands,   \* bound: commands executed
  MaxPushes,     \* bound: messages the server sends on its own
  AnyTime        \* TRUE: the application executes any command whenever it can;
                 \* FALSE: only from the callbacks the examples use

ASSUME BoundsAssumption ==
  /\ MaxConnects \in Nat
  /\ MaxCommands \in Nat
  /\ MaxPushes \in Nat

ASSUME AnyTimeAssumption == AnyTime \in BOOLEAN

VARIABLES
  channel_secured_,  \* CMClient::channel_secured_
  next_jobid_,       \* JobIDs::next_jobid_
  work,              \* messages consume_frame still has to go through
  cb,                \* stack of events whose listener is running
  crashed,           \* an exception has left io_context::run()
  link,              \* the connection below
  stalled,           \* the writer of the connection has stopped for good
  rx,                \* frames from the server, not consumed yet
  tx,                \* frames to the server, not received yet
  srv,               \* the server's side of the session
  connects,          \* calls of start_session so far
  commands,          \* commands executed so far
  pushes,            \* messages the server sent on its own
  sent,              \* history: messages the server sent on this connection
  dispatched,        \* history: messages dispatched since it was opened
  outcome,           \* history: the ChannelSecuredEvent of this connection
  asked,             \* history: logons asked for and not answered by an event
  desync             \* history: the server got a frame in the wrong mode

session == <<channel_secured_, next_jobid_, work, cb, crashed>>
wire    == <<link, stalled, rx, tx>>
bounds  == <<connects, commands, pushes>>
vars == <<session, wire, srv, bounds, sent, dispatched, outcome, asked, desync>>

\* What a message is to the dispatcher: an encryption message (good or refused
\* by generate_encryption_response), a registered protobuf message, one whose
\* body the handler cannot parse, an unregistered protobuf message, a message
\* without the protobuf flag, a part of less than 4 bytes.
Simple ==
  {"EncRequest", "EncRequestBad", "EncResultOK", "EncResultFail",
   "LogonOK", "LogonFail", "ProductInfo", "ProductInfoBad",
   "Unknown", "Struct", "Short"}

\* A message from the server: one simple message, or a Multi of several.
Single(t) == [multi |-> FALSE, parts |-> <<t>>]
Multi(ts) == [multi |-> TRUE, parts |-> ts]
IsMessage(m) ==
  /\ DOMAIN m = {"multi", "parts"}
  /\ m.multi \in BOOLEAN
  /\ m.parts \in Seq(Simple)

Event == [type : {"ChannelSecured", "ClientLogon", "ProductInfoResult",
                  "MsgNotImplemented"}, ok : BOOLEAN]
Request == [type : {"EncResponse", "Logon", "LogOff", "ProductInfoRequest"},
            enc : BOOLEAN]

TypeOK ==
  /\ channel_secured_ \in BOOLEAN
  /\ next_jobid_ \in 0 .. MaxCommands
  /\ \A i \in 1 .. Len(work) : IsMessage(work[i])
  /\ cb \in Seq(Event)
  /\ crashed \in BOOLEAN
  /\ link \in {"down", "connecting", "wedged", "up"}
  /\ stalled \in BOOLEAN
  /\ \A i \in 1 .. Len(rx) : rx[i].enc \in BOOLEAN /\ IsMessage(rx[i].msg)
  /\ tx \in Seq(Request)
  /\ srv \in {"none", "accepted", "greeted", "refused", "secured", "loggedon"}
  /\ connects \in 0 .. MaxConnects
  /\ commands \in 0 .. MaxCommands
  /\ pushes \in 0 .. MaxPushes
  /\ sent \in Seq(Simple)
  /\ dispatched \in Seq(Simple)
  /\ outcome \in {"none", "ok", "fail"}
  /\ asked \in 0 .. MaxCommands
  /\ desync \in BOOLEAN

Init ==
  /\ channel_secured_ = FALSE
  /\ next_jobid_ = 0
  /\ work = << >>
  /\ cb = << >>
  /\ crashed = FALSE
  /\ link = "down"
  /\ stalled = FALSE
  /\ rx = << >>
  /\ tx = << >>
  /\ srv = "none"
  /\ connects = 0
  /\ commands = 0
  /\ pushes = 0
  /\ sent = << >>
  /\ dispatched = << >>
  /\ outcome = "none"
  /\ asked = 0
  /\ desync = FALSE

-----------------------------------------------------------------------------
(* The connection below.                                                   *)

\* IConnection::async_send. On a closed socket the write fails: the frame stays
\* in the queue, and handle_disconnect ends a connect() that had thrown.
async_send(r) ==
  /\ tx' = IF link \in {"up", "connecting"} /\ ~stalled THEN Append(tx, r) ELSE tx
  /\ stalled' = (stalled \/ link \in {"down", "wedged"})
  /\ link' = IF link = "wedged" /\ ~stalled THEN "down" ELSE link
  /\ UNCHANGED rx

\* The connection ends. A body read that has completed still delivers its frame,
\* and a frame that was not written stays at the front of the write queue.
LinkCloses ==
  /\ link' = "down"
  /\ rx' \in {<< >>} \cup (IF rx = << >> THEN {} ELSE {<<Head(rx)>>})
  /\ tx' = << >>
  /\ stalled' \in (IF tx = << >> THEN {stalled} ELSE {stalled, TRUE})
  /\ srv' = "none"

\* The io thread is between two handlers.
IoIdle == work = << >> /\ cb = << >>

-----------------------------------------------------------------------------
(* Sessions: start_session and shutdown.                                   *)

\* start_session(): set_on_frame, then network_connect, which either gets the
\* connection under way or throws; the exception is logged and thrown again.
\* A new session finds channel_secured_ as the last one left it.
start_session ==
  /\ ~crashed
  /\ connects < MaxConnects
  /\ link = "down"
  /\ rx = << >>
  /\ IoIdle
  /\ connects' = connects + 1
  /\ link' \in {"connecting", "wedged"}
  /\ outcome' = "none"
  /\ sent' = << >>
  /\ dispatched' = << >>
  /\ asked' = 0
  /\ UNCHANGED <<session, stalled, rx, tx, srv, commands, pushes, desync>>

\* shutdown(), from the user thread or from a listener; nothing unless CONNECTED.
shutdown ==
  /\ ~crashed
  /\ link = "up"
  /\ LinkCloses
  /\ UNCHANGED <<session, bounds, sent, dispatched, outcome, asked, desync>>

-----------------------------------------------------------------------------
(* Receiving: consume_frame, the dispatcher and the handlers.              *)

\* emit(): the listener runs before emit returns.
Emit(type, ok) == cb' = Append(cb, [type |-> type, ok |-> ok])

\* send_msg_impl(): encrypted as soon as the channel counts as secured.
send_msg(type) == async_send([type |-> type, enc |-> channel_secured_])

\* What consume_frame can make of a frame: nothing (the decryption throws), or
\* the message; ciphertext taken for plaintext has some message type or other.
Decode(f) ==
  IF channel_secured_
    THEN IF f.enc THEN {f.msg} ELSE {}
    ELSE IF f.enc THEN {Single("Unknown"), Single("Struct")} ELSE {f.msg}

\* consume_frame(frame, true) up to the dispatch. process_incoming_encrypted_
\* message is called before the try block: its exception ends the process.
consume_frame ==
  /\ ~crashed
  /\ IoIdle
  /\ rx # << >>
  /\ rx' = Tail(rx)
  /\ \/ /\ Decode(Head(rx)) = {}
        /\ crashed' = TRUE
        /\ UNCHANGED work
     \/ /\ work' \in {<<m>> : m \in Decode(Head(rx))}
        /\ UNCHANGED crashed
  /\ UNCHANGED <<channel_secured_, next_jobid_, cb, link, stalled, tx, srv, bounds,
                 sent, dispatched, outcome, asked, desync>>

\* Mutant: the loop over the parts ends after the first one.
handle_multi_FirstOnly ==
  /\ ~crashed
  /\ cb = << >>
  /\ work # << >>
  /\ Head(work).multi
  /\ work' = <<Single(Head(work).parts[1])>> \o Tail(work)
  /\ UNCHANGED <<channel_secured_, next_jobid_, cb, crashed, wire, srv, bounds,
                 sent, dispatched, outcome, asked, desync>>

\* handle_multi: the parts are consumed one after the other, and what a part
\* throws is caught in its own consume_frame.
handle_multi ==
  /\ ~crashed
  /\ cb = << >>
  /\ work # << >>
  /\ Head(work).multi
  /\ work' = [i \in 1 .. Len(Head(work).parts) |-> Single(Head(work).parts[i])]
             \o Tail(work)
  /\ UNCHANGED <<channel_secured_, next_jobid_, cb, crashed, wire, srv, bounds,
                 sent, dispatched, outcome, asked, desync>>

\* The next simple message is dispatched; t is its type.
Dispatch(t) ==
  /\ ~crashed
  /\ cb = << >>
  /\ work # << >>
  /\ Head(work) = Single(t)
  /\ work' = Tail(work)
  /\ dispatched' = Append(dispatched, t)
  /\ UNCHANGED <<crashed, next_jobid_, srv, bounds, sent, desync>>

\* generate_encryption_response() does not throw: protocol version 1, the public
\* universe and a challenge of 16 bytes.
generate_encryption_response(t) == t = "EncRequest"

\* Mutant: the channel counts as secured as soon as the key has been sent.
handle_encrypt_request_Early ==
  \E t \in {"EncRequest", "EncRequestBad"} :
    /\ Dispatch(t)
    /\ IF generate_encryption_response(t)
         THEN /\ send_msg("EncResponse")
              /\ channel_secured_' = TRUE
              /\ UNCHANGED <<cb, outcome>>
         ELSE /\ Emit("ChannelSecured", FALSE)
              /\ outcome' = "fail"
              /\ UNCHANGED <<channel_secured_, wire>>
    /\ UNCHANGED asked

\* Mutant: a refused request is dropped without an event.
handle_encrypt_request_Silent ==
  \E t \in {"EncRequest", "EncRequestBad"} :
    /\ Dispatch(t)
    /\ IF generate_encryption_response(t)
         THEN send_msg("EncResponse")
         ELSE UNCHANGED wire
    /\ UNCHANGED <<channel_secured_, cb, outcome, asked>>

\* handle_encrypt_request: answers, or reports what was thrown.
handle_encrypt_request ==
  \E t \in {"EncRequest", "EncRequestBad"} :
    /\ Dispatch(t)
    /\ IF generate_encryption_response(t)
         THEN send_msg("EncResponse") /\ UNCHANGED <<cb, outcome>>
         ELSE /\ Emit("ChannelSecured", FALSE)
              /\ outcome' = "fail"
              /\ UNCHANGED wire
    /\ UNCHANGED <<channel_secured_, asked>>

\* Mutant: the server's result is not looked at.
handle_encrypt_result_Ignored ==
  \E ok \in BOOLEAN :
    /\ Dispatch(IF ok THEN "EncResultOK" ELSE "EncResultFail")
    /\ channel_secured_' = TRUE
    /\ Emit("ChannelSecured", TRUE)
    /\ outcome' = "ok"
    /\ UNCHANGED <<wire, asked>>

\* handle_encrypt_result
handle_encrypt_result ==
  \E ok \in BOOLEAN :
    /\ Dispatch(IF ok THEN "EncResultOK" ELSE "EncResultFail")
    /\ channel_secured_' = ok
    /\ Emit("ChannelSecured", ok)
    /\ outcome' = IF ok THEN "ok" ELSE "fail"
    /\ UNCHANGED <<wire, asked>>

\* Mutant: a refused logon is dropped without an event.
handle_logon_response_OkOnly ==
  \/ /\ Dispatch("LogonOK")
     /\ Emit("ClientLogon", TRUE)
     /\ asked' = IF asked > 0 THEN asked - 1 ELSE 0
     /\ UNCHANGED <<channel_secured_, wire, outcome>>
  \/ /\ Dispatch("LogonFail")
     /\ UNCHANGED <<channel_secured_, cb, wire, outcome, asked>>

\* handle_logon_response
handle_logon_response ==
  \E ok \in BOOLEAN :
    /\ Dispatch(IF ok THEN "LogonOK" ELSE "LogonFail")
    /\ Emit("ClientLogon", ok)
    /\ asked' = IF asked > 0 THEN asked - 1 ELSE 0
    /\ UNCHANGED <<channel_secured_, wire, outcome>>

\* parse_app() and parse_pkg() get through every buffer of the message.
parse_products(t) == t = "ProductInfo"

\* handle_prod_info_response: all apps and packages are parsed before the event
\* is emitted; a buffer that cannot be parsed throws into consume_frame.
handle_prod_info_response ==
  \E t \in {"ProductInfo", "ProductInfoBad"} :
    /\ Dispatch(t)
    /\ IF parse_products(t) THEN Emit("ProductInfoResult", TRUE) ELSE UNCHANGED cb
    /\ UNCHANGED <<channel_secured_, wire, outcome, asked>>

\* dispatch_proto without a handler, and what consume_frame leaves alone.
dispatch_default ==
  \/ /\ Dispatch("Unknown")
     /\ Emit("MsgNotImplemented", FALSE)
     /\ UNCHANGED <<channel_secured_, wire, outcome, asked>>
  \/ /\ Dispatch("Struct") \/ Dispatch("Short")
     /\ UNCHANGED <<channel_secured_, cb, wire, outcome, asked>>

\* The listener on top of the stack returns (or throws: emit ignores it).
ListenerReturns ==
  /\ ~crashed
  /\ cb # << >>
  /\ cb' = Front(cb)
  /\ UNCHANGED <<channel_secured_, next_jobid_, work, crashed, wire, srv, bounds,
                 sent, dispatched, outcome, asked, desync>>

-----------------------------------------------------------------------------
(* Commands.                                                               *)

\* Where the examples execute a command: in the listener of the event that says
\* the session is ready for it.
Ready(type) == cb # << >> /\ Last(cb) = [type |-> type, ok |-> TRUE]

Execute(when) ==
  /\ ~crashed
  /\ commands < MaxCommands
  /\ commands' = commands + 1
  /\ Ready(when) \/ (AnyTime /\ (cb # << >> \/ IoIdle))
  /\ UNCHANGED <<channel_secured_, work, crashed, srv, connects, pushes, sent,
                 dispatched, outcome, desync>>

\* Mutant: the logon is sent whether or not the channel is secured.
exec_anon_logon_Unguarded ==
  /\ Execute("ChannelSecured")
  /\ send_msg("Logon")
  /\ asked' = asked + 1
  /\ UNCHANGED <<cb, next_jobid_>>

exec_anon_logon ==
  /\ Execute("ChannelSecured")
  /\ IF channel_secured_
       THEN send_msg("Logon") /\ asked' = asked + 1 /\ UNCHANGED cb
       ELSE Emit("ClientLogon", FALSE) /\ UNCHANGED <<wire, asked>>
  /\ UNCHANGED next_jobid_

exec_logoff ==
  /\ Execute("ClientLogon")
  /\ IF channel_secured_ THEN send_msg("LogOff") ELSE UNCHANGED wire
  /\ UNCHANGED <<cb, asked, next_jobid_>>

\* Mutant: two job ids are drawn for one request.
exec_get_product_info_TwoJobs ==
  /\ Execute("ClientLogon")
  /\ next_jobid_' = next_jobid_ + 2
  /\ send_msg("ProductInfoRequest")
  /\ UNCHANGED <<cb, asked>>

exec_get_product_info ==
  /\ Execute("ClientLogon")
  /\ next_jobid_' = next_jobid_ + 1
  /\ send_msg("ProductInfoRequest")
  /\ UNCHANGED <<cb, asked>>

-----------------------------------------------------------------------------
(* The server and the network, as the client's messages presuppose them.   *)

LinkUp ==
  /\ ~crashed
  /\ link = "connecting"
  /\ link' = "up"
  /\ srv' = "accepted"
  /\ UNCHANGED <<session, stalled, rx, tx, bounds, sent, dispatched, outcome,
                 asked, desync>>

LinkLost ==
  /\ ~crashed
  /\ link \in {"connecting", "up"}
  /\ LinkCloses
  /\ UNCHANGED <<session, bounds, sent, dispatched, outcome, asked, desync>>

\* The server sends m; it encrypts once it has accepted the key.
ServerSends(m) ==
  /\ rx' = Append(rx, [enc |-> srv \in {"secured", "loggedon"}, msg |-> m])
  /\ sent' = sent \o m.parts

\* On a new connection the server speaks first.
ServerGreets ==
  /\ ~crashed
  /\ srv = "accepted"
  /\ srv' = "greeted"
  /\ \E t \in {"EncRequest", "EncRequestBad"} : ServerSends(Single(t))
  /\ UNCHANGED <<session, link, stalled, tx, bounds, dispatched, outcome, asked,
                 desync>>

\* An answer, on its own or in a Multi with something else.
Answers(t) ==
  {Single(t), Multi(<<"Unknown", t>>), Multi(<<t, "ProductInfoBad", "Short">>)}

\* The server reads the next frame. A frame in the wrong mode ends the session.
ServerReceives ==
  /\ ~crashed
  /\ link = "up"
  /\ tx # << >>
  /\ LET r == Head(tx)
         wrong == r.enc # (srv \in {"secured", "loggedon"})
     IN  /\ desync' = (desync \/ wrong)
         /\ \/ /\ wrong \/ r.type = "LogOff"
               /\ link' = "down" /\ rx' = << >> /\ tx' = << >> /\ srv' = "none"
               /\ stalled' \in {stalled, stalled \/ Len(tx) > 1}
               /\ UNCHANGED sent
            \/ /\ ~wrong /\ r.type = "EncResponse"
               /\ tx' = Tail(tx)
               /\ IF srv = "greeted"
                    THEN \E ok \in BOOLEAN :
                           /\ srv' = IF ok THEN "secured" ELSE "refused"
                           /\ ServerSends(Single(IF ok THEN "EncResultOK"
                                                       ELSE "EncResultFail"))
                    ELSE UNCHANGED <<srv, rx, sent>>
               /\ UNCHANGED <<link, stalled>>
            \/ /\ ~wrong /\ r.type = "Logon"
               /\ tx' = Tail(tx)
               /\ \E ok \in BOOLEAN :
                    /\ srv' = IF ok THEN "loggedon" ELSE srv
                    /\ \E m \in Answers(IF ok THEN "LogonOK" ELSE "LogonFail") :
                         ServerSends(m)
               /\ UNCHANGED <<link, stalled>>
            \/ /\ ~wrong /\ r.type = "ProductInfoRequest"
               /\ tx' = Tail(tx)
               /\ IF srv = "loggedon"
                    THEN \E m \in Answers("ProductInfo") : ServerSends(m)
                    ELSE UNCHANGED <<rx, sent>>
               /\ UNCHANGED <<srv, link, stalled>>
  /\ UNCHANGED <<session, bounds, dispatched, outcome, asked>>

\* The server sends something nobody asked for, on a secured channel.
ServerPushes ==
  /\ ~crashed
  /\ pushes < MaxPushes
  /\ srv \in {"secured", "loggedon"}
  /\ pushes' = pushes + 1
  /\ \E t \in {"Unknown", "Struct"} : ServerSends(Single(t))
  /\ UNCHANGED <<session, link, stalled, tx, srv, connects, commands, dispatched,
                 outcome, asked, desync>>

-----------------------------------------------------------------------------
Handlers ==
  \/ handle_multi \/ handle_encrypt_request \/ handle_encrypt_result
  \/ handle_logon_response \/ handle_prod_info_response \/ dispatch_default

Next ==
  \/ start_session \/ shutdown
  \/ consume_frame \/ Handlers \/ ListenerReturns
  \/ exec_anon_logon \/ exec_logoff \/ exec_get_product_info
  \/ LinkUp \/ LinkLost \/ ServerGreets \/ ServerReceives \/ ServerPushes

Spec == Init /\ [][Next]_vars

\* The io thread consumes what has arrived and its listeners return; an attempt
\* to connect ends; the server reads and answers. Nothing makes the application
\* execute a command, and a connection may be lost at any time.
Fairness ==
  /\ WF_vars(consume_frame) /\ WF_vars(Handlers) /\ WF_vars(ListenerReturns)
  /\ WF_vars(LinkUp) /\ WF_vars(ServerGreets) /\ WF_vars(ServerReceives)

FairSpec == Spec /\ Fairness

-----------------------------------------------------------------------------
(* Properties.                                                             *)

ServerSecured == srv \in {"secured", "loggedon"}

\* set_channel_secured: when the client takes the channel for secured, the
\* server it is connected to does too.
SecuredAgreed == channel_secured_ /\ link = "up" => ServerSecured

\* ChannelEncryptResult OK, not handled yet.
IsKeyAccepted(m) == m = Single("EncResultOK")

\* consume_frame / send_msg_impl: both sides switch to encryption at the same
\* place of the stream. A frame on its way to the client is encrypted exactly
\* if the client will have handled the ChannelEncryptResult by the time it
\* reads it, and the server never gets a frame in the mode it does not expect.
CipherInSync ==
  /\ ~desync
  /\ \A i \in 1 .. Len(rx) :
       rx[i].enc <=> \/ channel_secured_
                     \/ \E j \in 1 .. Len(work) : IsKeyAccepted(work[j])
                     \/ \E j \in 1 .. i - 1 : IsKeyAccepted(rx[j].msg)

Parts(ms) == FlattenSeq([i \in 1 .. Len(ms) |-> ms[i].parts])

\* handle_multi / consume_frame: what the server sends is dispatched once and in
\* order, the parts of a Multi in their place, whatever a part before them did.
InOrderDispatch ==
  LET pending == dispatched \o Parts(work)
                 \o Parts([i \in 1 .. Len(rx) |-> rx[i].msg])
  IN  IF link = "up" THEN pending = sent ELSE IsPrefix(pending, sent)

\* process_incoming_encrypted_message: with a server that keeps to the protocol
\* no exception leaves the io thread as long as the client has not reconnected,
\* whichever commands the application executes and whenever it does.
CrashOnlyAfterReconnect == crashed => connects > 1

\* exec_anon_logon / exec_logoff: a logon or logoff is never sent in plaintext,
\* in no session and whenever it is executed.
LogonNeverPlain ==
  \A i \in 1 .. Len(tx) : tx[i].type \in {"Logon", "LogOff"} => tx[i].enc

\* ChannelSecuredEvent: on a connection that stays up the handshake ends with an
\* event, whether it succeeds, is refused by the server or by the client.
HandshakeConcludes == link = "up" ~> outcome # "none" \/ link # "up"

\* ClientLogonEvent: a logon that was sent is answered by an event, wherever in
\* a Multi the answer comes, unless the connection is lost.
LogonAnswered == asked > 0 ~> asked = 0 \/ link # "up"
=============================================================================
