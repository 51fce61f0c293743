------------------------------ MODULE FrameIntake ------------------------------
(***************************************************************************)
(* What CMClient makes of the bytes of a frame: consume_frame decrypts it, *)
(* reads the message type, makes a packet of the right class and dispatches*)
(* it; handle_multi takes the parts out of a Multi and calls consume_frame *)
(* for each of them, to any depth. The frames are bytes here and the       *)
(* session around them is left to the module CMClient.                     *)
(*                                                                         *)
(* External codecs, by what the code relies on: ciphertext is its length   *)
(* and its plaintext; a CMsgProtoBufHeader is any bytes but BadHeader; a   *)
(* CMsgMulti is size_unzipped (one byte) and message_body; gzip data is    *)
(* a byte 31 in front of what was compressed.                              *)
(***************************************************************************)
EXTENDS SteamLanguageInternal, SequencesExt

CONSTANTS
  StrayByte,    \* bytes that may lie behind the end of a vector
  CopyElision   \* TRUE: the compiler elides the copy of a returned local

ASSUME StrayAssumption == StrayByte \subseteq Byte /\ StrayByte # {}
ASSUME CopyAssumption == CopyElision \in BOOLEAN

VARIABLES
  channel_secured_,  \* CMClient::channel_secured_
  rx,                \* frames the connection has not delivered yet
  stack,             \* calls of consume_frame and handle_multi under way
  crashed,           \* an exception has left on_frame
  script,            \* history: what the server sends
  log,               \* history: the messages dispatched, in order
  events,            \* history: the ChannelSecuredEvents emitted
  tx                 \* history: the messages sent

vars == <<channel_secured_, rx, stack, crashed, script, log, events, tx>>

-----------------------------------------------------------------------------
(* Message types (EMsg), MsgUtil and the dispatch tables.                  *)

MAX_EMSG == 12301
Multi == 1
ClientLogOnResponse == 751
ChannelEncryptRequest == 1303
ChannelEncryptResponse == 1304
ChannelEncryptResult == 1305
ClientPICSProductInfoResponse == 8904

\* A length or a type of 4 bytes; one of more than 16 bits is beyond every buffer
\* and every type of the model, and counts as Huge.
Huge == 1073741824
U32Value(b) == IF b[3] # 0 \/ b[4] # 0 THEN Huge ELSE b[1] + 256 * b[2]

\* PROTO_MASK is the top bit of the top byte.
is_protobuf_msg(b) == b[4] >= 128
get_msg(b) == U32Value([b EXCEPT ![4] = @ % 128])
make_msg(id) == [LE(id, 4) EXCEPT ![4] = @ + 128]

is_encryption_msg(b) ==
  U32Value(b) \in {ChannelEncryptRequest, ChannelEncryptResponse, ChannelEncryptResult}

\* The handlers that have been registered.
ProtoHandlers == {Multi, ClientLogOnResponse, ClientPICSProductInfoResponse}
MsgHandlers == {ChannelEncryptRequest, ChannelEncryptResult}

-----------------------------------------------------------------------------
(* Encryption.                                                             *)

IV_LENGTH == 16
BLOCK_SIZE == 16

\* calculate_max_encrypted_length, which symmetric_encrypt_hmac_iv attains.
EncryptedLength(n) == IV_LENGTH + ((n + BLOCK_SIZE) \div BLOCK_SIZE) * BLOCK_SIZE

\* A frame is bytes in the clear, or what came out of the server's encryption.
Frame == [enc : BOOLEAN, bytes : Seq(Byte)]
Clear(bytes) == [enc |-> FALSE, bytes |-> bytes]
FrameSize(f) == IF f.enc THEN EncryptedLength(Len(f.bytes)) ELSE Len(f.bytes)

\* symmetric_decrypt_hmac_iv throws on less than an IV, on bad padding and on a
\* wrong HMAC: it lets through what the server has encrypted and nothing else.
Decrypts(f) == FrameSize(f) >= IV_LENGTH /\ f.enc

-----------------------------------------------------------------------------
(* Packets and messages.                                                   *)

SumOfWidths(fs) ==
  LET sum[n \in 0 .. Len(fs)] == IF n = 0 THEN 0 ELSE sum[n - 1] + fs[n].t.w
  IN sum[Len(fs)]
MsgHdrSize == SumOfWidths(MsgHdr.reads)
RequestSize == SumOfWidths(MsgChannelEncryptRequest.reads)
ResultSize == SumOfWidths(MsgChannelEncryptResult.reads)

\* What a CMsgProtoBufHeader cannot be parsed from.
BadHeader == <<255>>

\* MsgHdrProtoBuf::Deserialize: the type, a length that must not be negative,
\* and a buffer of that length, allocated before the underflow is noticed.
ProtoHeaderLength(d) ==
  IF Len(d) < 8 \/ d[8] >= 128 THEN Huge ELSE U32Value(SubSeq(d, 5, 8))

\* Mutant: the length of the header is not compared with what has arrived.
ProtoHeaderReads_Lenient(d) == Len(d) >= 8

ProtoHeaderReads(d) ==
  /\ 8 + ProtoHeaderLength(d) <= Len(d)
  /\ SubSeq(d, 9, 8 + ProtoHeaderLength(d)) # BadHeader
ProtoBody(d) == SubSeq(d, 9 + ProtoHeaderLength(d), Len(d))

\* MsgProto<CMsgMulti>: ParseFromArray's answer is not looked at, and without a
\* body both fields are empty.
SizeUnzipped(b) == IF b = << >> THEN 0 ELSE b[1]
MessageBody(b) == IF b = << >> THEN << >> ELSE Tail(b)

\* gzip_decompress; expected_size is not used.
Gunzips(b) == b # << >> /\ b[1] = 31
Gunzip(b) == Tail(b)

\* Msg(const Msg& other, int = 0): a copy constructor, and the copy is an empty
\* answer to the original.
CopyMsg(m) == [targetJobID |-> m.sourceJobID, sourceJobID |-> -1, payload |-> << >>]

\* generate_encryption_response: `body` is what follows the message header, the
\* payload of the request with the body's own 8 bytes in front.
Challenge(body) == SubSeq(body, RequestSize + 1, Len(body))
IsExact(body) ==
  /\ Len(body) >= RequestSize
  /\ SubSeq(body, 1, 4) = LE(1, 4)
  /\ SubSeq(body, 5, 8) = LE(1, 4)
  /\ Len(Challenge(body)) = 16

\* The session key and the challenge under the server's public key, a checksum
\* of that, and four zeros.
KeyFor(challenge) == <<[rsa |-> challenge], [crc |-> challenge], [zeros |-> 4]>>

Responses(body) ==
  LET response == [targetJobID |-> -1, sourceJobID |-> -1,
                   payload |-> KeyFor(Challenge(body))]
  IN IF CopyElision THEN {response} ELSE {response, CopyMsg(response)}

-----------------------------------------------------------------------------
Init ==
  /\ channel_secured_ = FALSE
  /\ script \in Seq(Frame)
  /\ rx = script
  /\ stack = << >>
  /\ crashed = FALSE
  /\ log = << >>
  /\ events = << >>
  /\ tx = << >>

Consuming(d) == [call |-> "consume", data |-> d, offset |-> 0]
Unpacking(d) == [call |-> "multi", data |-> d, offset |-> 0]

\* consume_frame(frame, true), up to the decryption, which is outside of its try.
Receive ==
  /\ ~crashed
  /\ stack = << >>
  /\ rx # << >>
  /\ rx' = Tail(rx)
  /\ LET f == Head(rx)
     IN IF FrameSize(f) < 4 THEN UNCHANGED <<stack, crashed>>
        ELSE IF channel_secured_ /\ ~Decrypts(f)
               THEN crashed' = TRUE /\ UNCHANGED stack
               ELSE stack' = <<Consuming(f.bytes)>> /\ UNCHANGED crashed
  /\ UNCHANGED <<channel_secured_, script, log, events, tx>>

\* Mutant: a request that is refused is not reported.
handle_encrypt_request_Silent(body) ==
  /\ IF IsExact(body)
       THEN \E r \in Responses(body) :
              tx' = Append(tx, [msg |-> r, enc |-> channel_secured_])
       ELSE UNCHANGED tx
  /\ stack' = Front(stack)
  /\ UNCHANGED <<channel_secured_, events>>

\* handle_encrypt_request: the answer, or a failure that is caught and reported.
handle_encrypt_request(body) ==
  /\ IF IsExact(body)
       THEN /\ \E r \in Responses(body) :
                 tx' = Append(tx, [msg |-> r, enc |-> channel_secured_])
            /\ UNCHANGED events
       ELSE /\ events' = Append(events, FALSE)
            /\ UNCHANGED tx
  /\ stack' = Front(stack)
  /\ UNCHANGED channel_secured_

\* handle_encrypt_result; a body that is too short throws into consume_frame.
handle_encrypt_result(body) ==
  /\ IF Len(body) < ResultSize
       THEN UNCHANGED <<channel_secured_, events>>
       ELSE LET success == SubSeq(body, 1, 4) = LE(1, 4)
            IN /\ channel_secured_' = success
               /\ events' = Append(events, success)
  /\ stack' = Front(stack)
  /\ UNCHANGED tx

\* handle_multi, up to its loop; what gzip_decompress throws is caught by the
\* consume_frame that called.
handle_multi(body) ==
  /\ LET b == MessageBody(body)
     IN stack' = IF SizeUnzipped(body) = 0 THEN Append(Front(stack), Unpacking(b))
                 ELSE IF Gunzips(b) THEN Append(Front(stack), Unpacking(Gunzip(b)))
                 ELSE Front(stack)
  /\ UNCHANGED <<channel_secured_, events, tx>>

\* Handlers and listeners that leave the intake as it is.
Elsewhere ==
  stack' = Front(stack) /\ UNCHANGED <<channel_secured_, events, tx>>

\* dispatch_msg and dispatch_proto. The tables have MAX_EMSG entries: the entry
\* behind the end of proto is msg[0], which is empty.
dispatch_msg(id, d) ==
  LET body == SubSeq(d, MsgHdrSize + 1, Len(d))
  IN /\ log' = IF id <= MAX_EMSG THEN Append(log, d) ELSE log
     /\ CASE id = ChannelEncryptRequest -> handle_encrypt_request(body)
          [] id = ChannelEncryptResult  -> handle_encrypt_result(body)
          [] id \notin MsgHandlers      -> Elsewhere

dispatch_proto(id, d) ==
  /\ log' = IF id <= MAX_EMSG THEN Append(log, d) ELSE log
  /\ IF id = Multi THEN handle_multi(ProtoBody(d)) ELSE Elsewhere

\* The rest of consume_frame. A plaintext may have less than the 4 bytes that
\* are read from it; then the type is made of whatever lies behind it.
Dispatch ==
  /\ stack # << >>
  /\ Last(stack).call = "consume"
  /\ LET d == Last(stack).data
     IN \E stray \in [1 .. (IF Len(d) < 4 THEN 4 - Len(d) ELSE 0) -> StrayByte] :
          LET emsg == SubSeq(d \o stray, 1, 4)
          IN \/ /\ is_encryption_msg(emsg)
                /\ Len(d) >= MsgHdrSize
                /\ dispatch_msg(U32Value(emsg), d)
             \/ /\ ~is_encryption_msg(emsg)
                /\ is_protobuf_msg(emsg)
                /\ ProtoHeaderReads(d)
                /\ dispatch_proto(get_msg(emsg), d)
             \/ /\ IF is_encryption_msg(emsg) THEN Len(d) < MsgHdrSize
                   ELSE is_protobuf_msg(emsg) => ~ProtoHeaderReads(d)
                /\ Elsewhere
                /\ UNCHANGED log
  /\ UNCHANGED <<rx, crashed, script>>

\* Mutant: the length of a part is compared before its 4 bytes are skipped.
read_frame_Early ==
  /\ stack # << >>
  /\ Last(stack).call = "multi"
  /\ LET d == Last(stack).data
         start == Last(stack).offset + 4
         size == IF start > Len(d) THEN Huge ELSE U32Value(SubSeq(d, start - 3, start))
     IN stack' = IF start + size - 4 > Len(d) THEN Front(stack)
                 ELSE Append(Front(stack), [Last(stack) EXCEPT !.offset = start + size])
  /\ UNCHANGED <<channel_secured_, rx, crashed, script, log, events, tx>>

\* read_frame, and consume_frame(frame, false) for the part it has found.
read_frame ==
  /\ stack # << >>
  /\ Last(stack).call = "multi"
  /\ LET d == Last(stack).data
         start == Last(stack).offset + 4
         size == IF start > Len(d) THEN Huge ELSE U32Value(SubSeq(d, start - 3, start))
         part == SubSeq(d, start + 1, start + size)
         caller == Append(Front(stack), [Last(stack) EXCEPT !.offset = start + size])
     IN stack' = IF start + size > Len(d) THEN Front(stack)
                 ELSE IF size < 4 THEN caller
                 ELSE Append(caller, Consuming(part))
  /\ UNCHANGED <<channel_secured_, rx, crashed, script, log, events, tx>>

Next == Receive \/ Dispatch \/ read_frame

Spec == Init /\ [][Next]_vars

-----------------------------------------------------------------------------
\* consume_frame, handle_multi: each value is of its type, every call but the
\* innermost is a handle_multi that waits for a part, and read_frame's offset
\* never passes the end of what it reads.
TypeOK ==
  /\ channel_secured_ \in BOOLEAN
  /\ crashed \in BOOLEAN
  /\ \A i \in 1 .. Len(stack) :
       /\ stack[i].call = (IF i = Len(stack) THEN stack[i].call ELSE "multi")
       /\ stack[i].data \in Seq(Byte)
       /\ stack[i].offset \in 0 .. Len(stack[i].data)
  /\ log \in Seq(Seq(Byte))
  /\ events \in Seq(BOOLEAN)

\* The encryption messages that have been dispatched, without their headers.
Dispatched(id) ==
  FlattenSeq([i \in 1 .. Len(log) |->
    IF U32Value(log[i]) = id THEN <<SubSeq(log[i], MsgHdrSize + 1, Len(log[i]))>> ELSE << >>])

\* Every exact request is answered, in order, and the answer carries the key for
\* the request's challenge (crypto.cpp:18 "Generates the proper
\* MsgChannelEncryptResponse with RSA OAEP SHA1 and CRC32").
ResponseCarriesKey ==
  [i \in 1 .. Len(tx) |-> tx[i].msg.payload] =
  LET body == Dispatched(ChannelEncryptRequest)
  IN FlattenSeq([i \in 1 .. Len(body) |->
       IF IsExact(body[i]) THEN <<KeyFor(Challenge(body[i]))>> ELSE << >>])

\* handle_encrypt_request, handle_encrypt_result: an encryption message ends in one
\* answer or one event. A request is answered or reported as failed, a result is
\* reported; of a result too short for its body the application hears nothing.
HandshakeConcluded ==
  /\ ResponseCarriesKey
  /\ LET result == Dispatched(ChannelEncryptResult)
     IN Len(tx) + Len(events) =
          Len(Dispatched(ChannelEncryptRequest))
          + Cardinality({i \in 1 .. Len(result) : Len(result[i]) >= ResultSize})
=============================================================================
