--------------------------- MODULE FrameIntakeProofs ---------------------------
(***************************************************************************)
(* The intake of frames, for every sequence of frames of any bytes: types, *)
(* the nesting of the calls, one answer or one event for each message of   *)
(* the handshake, and what is dispatched of what there is in the frames.   *)
(***************************************************************************)
EXTENDS MCFrameIntake, SequenceLemmas, FiniteSetTheorems

-----------------------------------------------------------------------------
(* Bytes.                                                                  *)

\* f is the function that SumOfWidths recurs with.
Sums(f, fs) == f = [n \in 0 .. Len(fs) |-> IF n = 0 THEN 0 ELSE f[n - 1] + fs[n].t.w]

\* SumOfWidths(fs) is its last value.
LEMMA SumFound ==
  ASSUME NEW fs, NEW g, Sums(g, fs)
  PROVE  \E f : Sums(f, fs) /\ SumOfWidths(fs) = f[Len(fs)]
  <1> DEFINE sum == CHOOSE f : Sums(f, fs)
  <1>1. Sums(sum, fs)
    <2>1. \E f : Sums(f, fs)
      OBVIOUS
    <2> QED
      BY <2>1, Zenon
  <1>2. SumOfWidths(fs) = sum[Len(fs)]
    BY Zenon DEF SumOfWidths, Sums
  <1> HIDE DEF sum
  <1> QED
    BY <1>1, <1>2

\* What the structures of the handshake take in a frame.
LEMMA Sizes == MsgHdrSize = 20 /\ RequestSize = 8 /\ ResultSize = 4
  <1>1. MsgHdrSize = 20
    <2> DEFINE fs == MsgHdr.reads
               g == [n \in 0 .. 3 |-> <<0, 4, 12, 20>>[n + 1]]
    <2>1. fs = <<R("Msg", I32), R("targetJobID", I64), R("sourceJobID", I64)>>
      BY DEF MsgHdr
    <2>2. Len(fs) = 3 /\ fs[1].t.w = 4 /\ fs[2].t.w = 8 /\ fs[3].t.w = 8
      BY <2>1 DEF R, I32, I64
    <2>3. MsgHdrSize = SumOfWidths(fs)
      BY DEF MsgHdrSize
    <2> HIDE DEF fs
    <2>4. Sums(g, fs)
      BY <2>2 DEF Sums
    <2>5. PICK f : Sums(f, fs) /\ SumOfWidths(fs) = f[Len(fs)]
      <3> HIDE DEF g
      <3> QED
        BY <2>4, SumFound
    <2>6. f[0] = 0 /\ f[1] = f[0] + 4 /\ f[2] = f[1] + 8 /\ f[3] = f[2] + 8
      BY <2>2, <2>5 DEF Sums
    <2> QED
      BY <2>2, <2>3, <2>5, <2>6
  <1>2. RequestSize = 8
    <2> DEFINE fs == MsgChannelEncryptRequest.reads
               g == [n \in 0 .. 2 |-> <<0, 4, 8>>[n + 1]]
    <2>1. Len(fs) = 2 /\ fs[1].t.w = 4 /\ fs[2].t.w = 4
      BY DEF MsgChannelEncryptRequest, R, I32, U32
    <2>3. RequestSize = SumOfWidths(fs)
      BY DEF RequestSize
    <2> HIDE DEF fs
    <2>4. Sums(g, fs)
      BY <2>1 DEF Sums
    <2>5. PICK f : Sums(f, fs) /\ SumOfWidths(fs) = f[Len(fs)]
      <3> HIDE DEF g
      <3> QED
        BY <2>4, SumFound
    <2>6. f[0] = 0 /\ f[1] = f[0] + 4 /\ f[2] = f[1] + 4
      BY <2>1, <2>5 DEF Sums
    <2> QED
      BY <2>1, <2>3, <2>5, <2>6
  <1>3. ResultSize = 4
    <2> DEFINE fs == MsgChannelEncryptResult.reads
               g == [n \in 0 .. 1 |-> <<0, 4>>[n + 1]]
    <2>1. Len(fs) = 1 /\ fs[1].t.w = 4
      BY DEF MsgChannelEncryptResult, R, I32, U32
    <2>3. ResultSize = SumOfWidths(fs)
      BY DEF ResultSize
    <2> HIDE DEF fs
    <2>4. Sums(g, fs)
      BY <2>1 DEF Sums
    <2>5. PICK f : Sums(f, fs) /\ SumOfWidths(fs) = f[Len(fs)]
      <3> HIDE DEF g
      <3> QED
        BY <2>4, SumFound
    <2>6. f[0] = 0 /\ f[1] = f[0] + 4
      BY <2>1, <2>5 DEF Sums
    <2> QED
      BY <2>1, <2>3, <2>5, <2>6
  <1> QED
    BY <1>1, <1>2, <1>3

\* Four bytes make a number.
LEMMA U32Number ==
  ASSUME NEW b \in Seq(Byte), Len(b) >= 4
  PROVE  U32Value(b) \in Nat
  <1>1. 1 \in 1 .. Len(b) /\ 2 \in 1 .. Len(b)
    OBVIOUS
  <1>2. b[1] \in Byte /\ b[2] \in Byte
    BY <1>1
  <1>3. Byte \subseteq Nat
    BY DEF Byte
  <1>4. b[1] \in Nat /\ b[2] \in Nat
    BY <1>2, <1>3
  <1> QED
    BY <1>4 DEF U32Value, Huge

\* The first four bytes of a plaintext, and what lies behind a shorter one.
LEMMA Type ==
  ASSUME NEW d \in Seq(Byte),
         NEW stray \in [1 .. (IF Len(d) < 4 THEN 4 - Len(d) ELSE 0) -> StrayByte],
         NEW emsg, emsg = SubSeq(d \o stray, 1, 4)
  PROVE  /\ emsg \in Seq(Byte) /\ Len(emsg) = 4
         /\ Len(d) >= 4 =>
              (\A i \in 1 .. 4 : emsg[i] = d[i]) /\ U32Value(emsg) = U32Value(d)
  <1>1. Len(d) \in Nat
    OBVIOUS
  <1> DEFINE k == IF Len(d) < 4 THEN 4 - Len(d) ELSE 0
  <1>2. k \in Nat /\ k = (IF Len(d) < 4 THEN 4 - Len(d) ELSE 0)
    BY <1>1
  <1>3. stray \in Seq(Byte) /\ Len(stray) = k
    <2>1. stray \in [1 .. k -> StrayByte]
      OBVIOUS
    <2> HIDE DEF k
    <2> QED
      BY <1>2, <2>1, StrayAssumption
  <1> HIDE DEF k
  <1> DEFINE q == d \o stray
  <1>4. /\ q \in Seq(Byte) /\ Len(q) = Len(d) + k
        /\ \A i \in 1 .. Len(d) : q[i] = d[i]
    BY <1>3, Concatenated
  <1> HIDE DEF q
  <1>5. 4 <= Len(q)
    BY <1>1, <1>2, <1>4
  <1>6. /\ SubSeq(q, 1, 4) \in Seq(Byte) /\ Len(SubSeq(q, 1, 4)) = 4
        /\ \A i \in 1 .. 4 : SubSeq(q, 1, 4)[i] = q[i]
    BY <1>4, <1>5
  <1>7. emsg = SubSeq(q, 1, 4)
    BY DEF q
  <1>8. ASSUME Len(d) >= 4
        PROVE  (\A i \in 1 .. 4 : emsg[i] = d[i]) /\ U32Value(emsg) = U32Value(d)
    <2>1. \A i \in 1 .. 4 : emsg[i] = d[i]
      BY <1>1, <1>4, <1>6, <1>7, <1>8
    <2> QED
      BY <2>1 DEF U32Value
  <1> QED
    BY <1>6, <1>7, <1>8

\* The body behind the header of a protobuf message.
LEMMA ProtoFacts ==
  ASSUME NEW d \in Seq(Byte), ProtoHeaderReads(d)
  PROVE  Len(d) >= 8 /\ ProtoBody(d) \in Seq(Byte)
  <1>0. Len(d) \in Nat
    OBVIOUS
  <1>1. 8 + ProtoHeaderLength(d) <= Len(d)
    BY DEF ProtoHeaderReads
  <1>2. Len(d) >= 8 /\ ProtoHeaderLength(d) \in Nat
    <2>1. CASE Len(d) < 8 \/ d[8] >= 128
      <3>1. ProtoHeaderLength(d) = Huge
        BY <2>1 DEF ProtoHeaderLength
      <3> QED
        BY <1>0, <1>1, <3>1 DEF Huge
    <2>2. CASE ~(Len(d) < 8 \/ d[8] >= 128)
      <3> DEFINE b == SubSeq(d, 5, 8)
      <3>1. b \in Seq(Byte) /\ Len(b) >= 4
        BY <1>0, <2>2
      <3>2. ProtoHeaderLength(d) = U32Value(b)
        BY <2>2 DEF ProtoHeaderLength
      <3> HIDE DEF b
      <3>3. U32Value(b) \in Nat
        BY <3>1, U32Number
      <3> QED
        BY <1>0, <2>2, <3>2, <3>3
    <2> QED
      BY <2>1, <2>2
  <1>3. 9 + ProtoHeaderLength(d) \in Nat \ {0}
    BY <1>2
  <1>4. SubSeq(d, 9 + ProtoHeaderLength(d), Len(d)) \in Seq(Byte)
    BY <1>0, <1>3, Cut
  <1> QED
    BY <1>2, <1>4 DEF ProtoBody

-----------------------------------------------------------------------------
(* Types and calls.                                                        *)

\* A call of consume_frame or handle_multi.
Call == [call : {"consume", "multi"}, data : Seq(Byte), offset : Nat]

\* It has not read past the end of its data.
InData(c) == c.offset <= Len(c.data)

\* Calls that wait for the one that comes next.
Waiting(s) == s \in Seq(Call) /\ \A i \in 1 .. Len(s) : s[i].call = "multi" /\ InData(s[i])

\* Calls of which the last one runs.
Nested(s) ==
  /\ s \in Seq(Call)
  /\ \A i \in 1 .. Len(s) : (i # Len(s) => s[i].call = "multi") /\ InData(s[i])

\* What is sent: the type of a key for a challenge is left open.
Key == {KeyFor(challenge) : challenge \in Seq(Byte)}
Payload == Key \cup {<< >>}
Answer == [msg : [targetJobID : Int, sourceJobID : Int, payload : Payload], enc : BOOLEAN]

\* Every variable's type.
TypeInv ==
  /\ channel_secured_ \in BOOLEAN
  /\ crashed \in BOOLEAN
  /\ rx \in Seq(Frame)
  /\ Nested(stack)
  /\ log \in Seq(Seq(Byte))
  /\ events \in Seq(BOOLEAN)
  /\ tx \in Seq(Answer)

\* A call is made.
LEMMA Pushed ==
  ASSUME NEW s, Waiting(s), NEW c \in Call, InData(c)
  PROVE  Nested(Append(s, c)) /\ (c.call = "multi" => Waiting(Append(s, c)))
  <1> DEFINE t == Append(s, c)
  <1>1. /\ t \in Seq(Call) /\ Len(t) = Len(s) + 1 /\ Len(s) \in Nat
        /\ \A i \in 1 .. Len(s) : t[i] = s[i]
        /\ t[Len(s) + 1] = c
    BY Appended DEF Waiting
  <1> HIDE DEF t
  <1>2. \A i \in 1 .. Len(t) : i \in 1 .. Len(s) \/ i = Len(t)
    BY <1>1
  <1>3. \A i \in 1 .. Len(t) : InData(t[i]) /\ (i # Len(t) => t[i].call = "multi")
    BY <1>1, <1>2 DEF Waiting
  <1>4. c.call = "multi" => \A i \in 1 .. Len(t) : t[i].call = "multi"
    BY <1>1, <1>2 DEF Waiting
  <1>5. Nested(t) /\ (c.call = "multi" => Waiting(t))
    BY <1>1, <1>3, <1>4 DEF Nested, Waiting
  <1> QED
    BY <1>5 DEF t

\* The running call returns.
LEMMA Returned ==
  ASSUME NEW s, Nested(s), s # << >>
  PROVE  /\ Waiting(Front(s)) /\ Nested(Front(s))
         /\ Last(s) \in Call /\ InData(Last(s))
  <1>1. /\ Front(s) \in Seq(Call) /\ Len(Front(s)) = Len(s) - 1 /\ Len(s) \in Nat \ {0}
        /\ \A i \in 1 .. Len(s) - 1 : Front(s)[i] = s[i]
        /\ Last(s) = s[Len(s)] /\ Last(s) \in Call
    BY FrontLast DEF Nested
  <1>2. \A i \in 1 .. Len(Front(s)) : i \in 1 .. Len(s) /\ i # Len(s) /\ Front(s)[i] = s[i]
    BY <1>1
  <1>3. \A i \in 1 .. Len(Front(s)) : Front(s)[i].call = "multi" /\ InData(Front(s)[i])
    BY <1>2 DEF Nested
  <1>4. InData(Last(s))
    BY <1>1 DEF Nested
  <1> QED
    BY <1>1, <1>3, <1>4 DEF Waiting, Nested

\* The two kinds of calls.
LEMMA CallTypes ==
  \A d \in Seq(Byte) :
    /\ Consuming(d) \in Call /\ InData(Consuming(d))
    /\ Unpacking(d) \in Call /\ InData(Unpacking(d)) /\ Unpacking(d).call = "multi"
  <1> SUFFICES ASSUME NEW d \in Seq(Byte)
               PROVE  /\ Consuming(d) \in Call /\ InData(Consuming(d))
                      /\ Unpacking(d) \in Call /\ InData(Unpacking(d))
                      /\ Unpacking(d).call = "multi"
    OBVIOUS
  <1>1. Len(d) \in Nat
    OBVIOUS
  <1> QED
    BY <1>1 DEF Consuming, Unpacking, Call, InData

\* A frame arrives.
LEMMA ReceiveTypes ==
  ASSUME TypeInv, Receive
  PROVE  TypeInv'
  <1>1. /\ rx # << >> /\ stack = << >> /\ rx' = Tail(rx)
        /\ UNCHANGED <<channel_secured_, log, events, tx>>
    BY DEF Receive
  <1>2. Head(rx) \in Frame /\ Tail(rx) \in Seq(Frame)
    BY <1>1, HeadTail DEF TypeInv
  <1>3. Head(rx).bytes \in Seq(Byte)
    BY <1>2 DEF Frame
  <1>4. Nested(<<Consuming(Head(rx).bytes)>>)
    <2>1. Waiting(<< >>)
      BY DEF Waiting
    <2>2. Nested(Append(<< >>, Consuming(Head(rx).bytes)))
      BY <1>3, <2>1, CallTypes, Pushed
    <2> QED
      BY <2>2
  <1>5. stack' = stack \/ stack' = <<Consuming(Head(rx).bytes)>>
    BY DEF Receive
  <1>6. crashed' \in BOOLEAN
    BY DEF Receive, TypeInv
  <1>7. Nested(stack')
    BY <1>4, <1>5 DEF TypeInv
  <1> QED
    BY <1>1, <1>2, <1>6, <1>7 DEF TypeInv

\* The key for a request.
LEMMA KeyType ==
  ASSUME NEW body \in Seq(Byte)
  PROVE  KeyFor(Challenge(body)) \in Key
  <1>1. RequestSize + 1 \in Nat \ {0} /\ Len(body) \in Nat
    BY Sizes
  <1>2. Challenge(body) \in Seq(Byte)
    BY <1>1, Cut DEF Challenge
  <1> QED
    BY <1>2 DEF Key

\* generate_encryption_response's answers.
LEMMA ResponseTypes ==
  ASSUME NEW body \in Seq(Byte), NEW r \in Responses(body)
  PROVE  /\ r \in [targetJobID : Int, sourceJobID : Int, payload : Payload]
         /\ CopyElision => r.payload = KeyFor(Challenge(body))
  <1> DEFINE k == KeyFor(Challenge(body))
             response == [targetJobID |-> -1, sourceJobID |-> -1, payload |-> k]
  <1>2. k \in Key
    BY KeyType
  <1>3. Responses(body) = IF CopyElision THEN {response} ELSE {response, CopyMsg(response)}
    BY Zenon DEF Responses
  <1> HIDE DEF k
  <1>4. CopyMsg(response) = [targetJobID |-> -1, sourceJobID |-> -1, payload |-> << >>]
    BY DEF CopyMsg
  <1>5. r = response \/ (~CopyElision /\ r = CopyMsg(response))
    BY <1>3
  <1>6. << >> \in Payload /\ k \in Payload
    BY <1>2 DEF Payload
  <1>7. r \in [targetJobID : Int, sourceJobID : Int, payload : Payload]
    BY <1>4, <1>5, <1>6
  <1>8. CopyElision => r.payload = k
    BY <1>5
  <1> QED
    BY <1>7, <1>8 DEF k

\* What the handlers leave the types of: all but the log.
Handled ==
  /\ channel_secured_' \in BOOLEAN
  /\ Nested(stack')
  /\ events' \in Seq(BOOLEAN)
  /\ tx' \in Seq(Answer)

\* handle_encrypt_request.
LEMMA RequestTypes ==
  ASSUME TypeInv, stack # << >>, NEW body \in Seq(Byte), handle_encrypt_request(body)
  PROVE  Handled
  <1>1. stack' = Front(stack) /\ UNCHANGED channel_secured_
    BY DEF handle_encrypt_request
  <1>2. Nested(stack')
    BY <1>1, Returned DEF TypeInv
  <1>3. CASE IsExact(body)
    <2>1. PICK r \in Responses(body) :
            tx' = Append(tx, [msg |-> r, enc |-> channel_secured_]) /\ UNCHANGED events
      BY <1>3 DEF handle_encrypt_request
    <2>2. [msg |-> r, enc |-> channel_secured_] \in Answer
      BY ResponseTypes DEF Answer, TypeInv
    <2>3. tx' \in Seq(Answer)
      BY <2>1, <2>2, Appended DEF TypeInv
    <2> QED
      BY <1>1, <1>2, <2>1, <2>3 DEF Handled, TypeInv
  <1>4. CASE ~IsExact(body)
    <2>1. events' = Append(events, FALSE) /\ UNCHANGED tx
      BY <1>4 DEF handle_encrypt_request
    <2>2. events' \in Seq(BOOLEAN)
      BY <2>1, Appended DEF TypeInv
    <2> QED
      BY <1>1, <1>2, <2>1, <2>2 DEF Handled, TypeInv
  <1> QED
    BY <1>3, <1>4

\* handle_encrypt_result.
LEMMA ResultTypes ==
  ASSUME TypeInv, stack # << >>, NEW body, handle_encrypt_result(body)
  PROVE  Handled
  <1>1. stack' = Front(stack) /\ UNCHANGED tx
    BY DEF handle_encrypt_result
  <1>2. Nested(stack')
    BY <1>1, Returned DEF TypeInv
  <1>3. \/ UNCHANGED <<channel_secured_, events>>
        \/ \E success \in BOOLEAN :
             channel_secured_' = success /\ events' = Append(events, success)
    BY DEF handle_encrypt_result
  <1>4. channel_secured_' \in BOOLEAN /\ events' \in Seq(BOOLEAN)
    <2>1. CASE UNCHANGED <<channel_secured_, events>>
      BY <2>1 DEF TypeInv
    <2>2. ASSUME NEW success \in BOOLEAN,
                 channel_secured_' = success, events' = Append(events, success)
          PROVE  channel_secured_' \in BOOLEAN /\ events' \in Seq(BOOLEAN)
      BY <2>2, Appended DEF TypeInv
    <2> QED
      BY <1>3, <2>1, <2>2
  <1> QED
    BY <1>1, <1>2, <1>4 DEF Handled, TypeInv

\* handle_multi.
LEMMA MultiTypes ==
  ASSUME TypeInv, stack # << >>, NEW body \in Seq(Byte), handle_multi(body)
  PROVE  Handled
  <1> DEFINE b == MessageBody(body)
  <1>1. b \in Seq(Byte)
    BY DEF MessageBody
  <1>2. Gunzips(b) => Gunzip(b) \in Seq(Byte)
    <2> HIDE DEF b
    <2> QED
      BY <1>1, HeadTail DEF Gunzips, Gunzip
  <1>3. \/ stack' = Append(Front(stack), Unpacking(b))
        \/ Gunzips(b) /\ stack' = Append(Front(stack), Unpacking(Gunzip(b)))
        \/ stack' = Front(stack)
    <2> HIDE DEF b
    <2>1. stack' = IF SizeUnzipped(body) = 0 THEN Append(Front(stack), Unpacking(b))
                   ELSE IF Gunzips(b) THEN Append(Front(stack), Unpacking(Gunzip(b)))
                   ELSE Front(stack)
      BY DEF handle_multi, b
    <2> QED
      BY <2>1
  <1> HIDE DEF b
  <1>4. Nested(stack')
    <2>1. Waiting(Front(stack)) /\ Nested(Front(stack))
      BY Returned DEF TypeInv
    <2>2. ASSUME NEW d \in Seq(Byte) PROVE Nested(Append(Front(stack), Unpacking(d)))
      BY <2>1, CallTypes, Pushed
    <2> QED
      BY <1>1, <1>2, <1>3, <2>1, <2>2
  <1>5. UNCHANGED <<channel_secured_, events, tx>>
    BY DEF handle_multi
  <1> QED
    BY <1>4, <1>5 DEF Handled, TypeInv

\* What becomes of a plaintext: the dispatch of a message of its type, or nothing.
LEMMA DispatchCases ==
  ASSUME TypeInv, Dispatch
  PROVE  /\ stack # << >> /\ UNCHANGED <<rx, crashed>>
         /\ \E d \in Seq(Byte) :
              \/ /\ Len(d) >= MsgHdrSize
                 /\ U32Value(d) \in
                      {ChannelEncryptRequest, ChannelEncryptResponse, ChannelEncryptResult}
                 /\ dispatch_msg(U32Value(d), d)
              \/ /\ Len(d) >= 8 /\ U32Value(d) = Huge /\ ProtoBody(d) \in Seq(Byte)
                 /\ \E id : dispatch_proto(id, d)
              \/ Elsewhere /\ UNCHANGED log
  <1> DEFINE d == Last(stack).data
  <1>1. stack # << >> /\ UNCHANGED <<rx, crashed>>
    BY DEF Dispatch
  <1>2. d \in Seq(Byte)
    BY <1>1, Returned DEF TypeInv, Call
  <1>3. PICK stray \in [1 .. (IF Len(d) < 4 THEN 4 - Len(d) ELSE 0) -> StrayByte] :
          LET emsg == SubSeq(d \o stray, 1, 4)
          IN \/ /\ is_encryption_msg(emsg)
                /\ Len(d) >= MsgHdrSize
                /\ dispatch_msg(U32Value(emsg), d)
             \/ /\ ~is_encryption_msg(emsg)
                /\ is_protobuf_msg(emsg)
                /\ ProtoHeaderReads(d)
                /\ dispatch_proto(get_msg(emsg), d)
             \/ /\ IF is_encryption_msg(emsg) THEN Len(d) < MsgHdrSize
                   ELSE is_protobuf_msg(emsg) => ~ProtoHeaderReads(d)
                /\ Elsewhere
                /\ UNCHANGED log
    BY DEF Dispatch
  <1> HIDE DEF d
  <1> DEFINE emsg == SubSeq(d \o stray, 1, 4)
  <1>4. /\ emsg \in Seq(Byte) /\ Len(emsg) = 4
        /\ Len(d) >= 4 =>
             (\A i \in 1 .. 4 : emsg[i] = d[i]) /\ U32Value(emsg) = U32Value(d)
    BY <1>2, Type
  <1>5. \/ is_encryption_msg(emsg) /\ Len(d) >= MsgHdrSize /\ dispatch_msg(U32Value(emsg), d)
        \/ is_protobuf_msg(emsg) /\ ProtoHeaderReads(d) /\ dispatch_proto(get_msg(emsg), d)
        \/ Elsewhere /\ UNCHANGED log
    BY <1>3, Zenon
  <1> HIDE DEF emsg
  <1>6. CASE is_encryption_msg(emsg) /\ Len(d) >= MsgHdrSize /\ dispatch_msg(U32Value(emsg), d)
    <2>1. U32Value(emsg) = U32Value(d)
      BY <1>2, <1>4, <1>6, Sizes
    <2>2. U32Value(d) \in {ChannelEncryptRequest, ChannelEncryptResponse, ChannelEncryptResult}
      BY <1>6, <2>1 DEF is_encryption_msg
    <2> QED
      BY <1>1, <1>2, <1>6, <2>1, <2>2
  <1>7. CASE is_protobuf_msg(emsg) /\ ProtoHeaderReads(d) /\ dispatch_proto(get_msg(emsg), d)
    <2>1. Len(d) >= 8 /\ ProtoBody(d) \in Seq(Byte)
      BY <1>2, <1>7, ProtoFacts
    <2>2. d[4] >= 128
      BY <1>2, <1>4, <1>7, <2>1 DEF is_protobuf_msg
    <2>3. U32Value(d) = Huge
      BY <2>2 DEF U32Value
    <2> QED
      BY <1>1, <1>2, <1>7, <2>1, <2>3
  <1> QED
    BY <1>1, <1>2, <1>5, <1>6, <1>7

\* What follows the message header.
LEMMA BodyType ==
  ASSUME NEW d \in Seq(Byte)
  PROVE  SubSeq(d, MsgHdrSize + 1, Len(d)) \in Seq(Byte)
  <1>1. MsgHdrSize + 1 \in Nat \ {0} /\ Len(d) \in Nat
    BY Sizes
  <1> QED
    BY <1>1, Cut

\* A message is logged or not.
LEMMA LogTypes ==
  ASSUME TypeInv, NEW d \in Seq(Byte), log' = Append(log, d) \/ log' = log
  PROVE  log' \in Seq(Seq(Byte))
  <1>1. log \in Seq(Seq(Byte))
    BY DEF TypeInv
  <1>2. Append(log, d) \in Seq(Seq(Byte))
    <2> DEFINE S == Seq(Byte)
    <2>1. log \in Seq(S) /\ d \in S
      BY <1>1
    <2> HIDE DEF S
    <2>2. Append(log, d) \in Seq(S)
      BY <2>1, Appended
    <2> QED
      BY <2>2 DEF S
  <1> QED
    BY <1>1, <1>2

\* dispatch_msg for the messages that come to it.
LEMMA MsgCases ==
  ASSUME NEW d,
         U32Value(d) \in {ChannelEncryptRequest, ChannelEncryptResponse, ChannelEncryptResult},
         dispatch_msg(U32Value(d), d)
  PROVE  /\ log' = Append(log, d)
         /\ \/ /\ U32Value(d) = ChannelEncryptRequest
               /\ handle_encrypt_request(SubSeq(d, MsgHdrSize + 1, Len(d)))
            \/ /\ U32Value(d) = ChannelEncryptResult
               /\ handle_encrypt_result(SubSeq(d, MsgHdrSize + 1, Len(d)))
            \/ U32Value(d) = ChannelEncryptResponse /\ Elsewhere
  <1> DEFINE id == U32Value(d)
             body == SubSeq(d, MsgHdrSize + 1, Len(d))
  <1>1. /\ log' = IF id <= MAX_EMSG THEN Append(log, d) ELSE log
        /\ CASE id = ChannelEncryptRequest -> handle_encrypt_request(body)
             [] id = ChannelEncryptResult  -> handle_encrypt_result(body)
             [] id \notin MsgHandlers      -> Elsewhere
    BY Zenon DEF dispatch_msg
  <1> HIDE DEF id, body
  <1>2. id \in {1303, 1304, 1305}
    BY DEF id, ChannelEncryptRequest, ChannelEncryptResponse, ChannelEncryptResult
  <1>3. log' = Append(log, d)
    BY <1>1, <1>2 DEF MAX_EMSG
  <1>4. \/ id = ChannelEncryptRequest /\ handle_encrypt_request(body)
        \/ id = ChannelEncryptResult /\ handle_encrypt_result(body)
        \/ id = ChannelEncryptResponse /\ Elsewhere
    <2>1. CASE id = 1303
      BY <1>1, <2>1 DEF ChannelEncryptRequest, ChannelEncryptResult, MsgHandlers
    <2>2. CASE id = 1305
      BY <1>1, <2>2 DEF ChannelEncryptRequest, ChannelEncryptResult, MsgHandlers
    <2>3. CASE id = 1304
      BY <1>1, <2>3
      DEF ChannelEncryptRequest, ChannelEncryptResponse, ChannelEncryptResult, MsgHandlers
    <2> QED
      BY <1>2, <2>1, <2>2, <2>3
  <1> QED
    BY <1>3, <1>4 DEF id, body

\* A plaintext is dispatched.
LEMMA DispatchTypes ==
  ASSUME TypeInv, Dispatch
  PROVE  TypeInv'
  <1>1. stack # << >> /\ UNCHANGED <<rx, crashed>>
    BY DispatchCases
  <1>2. PICK d \in Seq(Byte) :
          \/ /\ Len(d) >= MsgHdrSize
             /\ U32Value(d) \in
                  {ChannelEncryptRequest, ChannelEncryptResponse, ChannelEncryptResult}
             /\ dispatch_msg(U32Value(d), d)
          \/ /\ Len(d) >= 8 /\ U32Value(d) = Huge /\ ProtoBody(d) \in Seq(Byte)
             /\ \E id : dispatch_proto(id, d)
          \/ Elsewhere /\ UNCHANGED log
    BY DispatchCases
  <1>3. Elsewhere => Handled
    BY <1>1, Returned DEF Elsewhere, Handled, TypeInv
  <1>4. Handled /\ (log' = Append(log, d) \/ log' = log)
    <2>1. ASSUME U32Value(d) \in
                   {ChannelEncryptRequest, ChannelEncryptResponse, ChannelEncryptResult},
                 dispatch_msg(U32Value(d), d)
          PROVE  Handled /\ log' = Append(log, d)
      <3> DEFINE body == SubSeq(d, MsgHdrSize + 1, Len(d))
      <3>1. body \in Seq(Byte)
        BY BodyType
      <3>2. /\ log' = Append(log, d)
            /\ handle_encrypt_request(body) \/ handle_encrypt_result(body) \/ Elsewhere
        BY <2>1, MsgCases
      <3> HIDE DEF body
      <3> QED
        BY <1>1, <1>3, <3>1, <3>2, RequestTypes, ResultTypes
    <2>2. ASSUME NEW id, dispatch_proto(id, d), ProtoBody(d) \in Seq(Byte)
          PROVE  Handled /\ (log' = Append(log, d) \/ log' = log)
      BY <1>1, <1>3, <2>2, MultiTypes DEF dispatch_proto
    <2> QED
      BY <1>2, <1>3, <2>1, <2>2
  <1>5. log' \in Seq(Seq(Byte))
    BY <1>4, LogTypes
  <1> QED
    BY <1>1, <1>4, <1>5 DEF TypeInv, Handled

\* A part of a Multi is read.
LEMMA ReadTypes ==
  ASSUME TypeInv, read_frame
  PROVE  TypeInv'
  <1> DEFINE d == Last(stack).data
             start == Last(stack).offset + 4
             size == IF start > Len(d) THEN Huge ELSE U32Value(SubSeq(d, start - 3, start))
             waiting == [Last(stack) EXCEPT !.offset = start + size]
             part == SubSeq(d, start + 1, start + size)
             caller == Append(Front(stack), waiting)
  <1>1. /\ stack # << >> /\ Last(stack).call = "multi"
        /\ UNCHANGED <<channel_secured_, rx, crashed, log, events, tx>>
        /\ stack' = IF start + size > Len(d) THEN Front(stack)
                    ELSE IF size < 4 THEN caller
                    ELSE Append(caller, Consuming(part))
    BY DEF read_frame
  <1>2. /\ Waiting(Front(stack)) /\ Nested(Front(stack)) /\ Last(stack) \in Call
    BY <1>1, Returned DEF TypeInv
  <1>3. /\ d \in Seq(Byte) /\ start \in Nat /\ start >= 4 /\ Len(d) \in Nat
    BY <1>2 DEF Call
  <1> HIDE DEF d, start
  <1>4. size \in Nat
    <2>1. CASE start > Len(d)
      BY <2>1 DEF Huge
    <2>2. CASE ~(start > Len(d))
      <3> DEFINE b == SubSeq(d, start - 3, start)
      <3>1. start - 3 \in Nat \ {0} /\ start <= Len(d) /\ start - 3 <= start + 1
        BY <1>3, <2>2
      <3>2. b \in Seq(Byte) /\ Len(b) = start - (start - 3) + 1
        BY <1>3, <3>1, Cut
      <3>3. Len(b) >= 4
        BY <1>3, <3>2
      <3>4. size = U32Value(b)
        BY <2>2
      <3> HIDE DEF b, size
      <3> QED
        BY <3>2, <3>3, <3>4, U32Number
    <2> QED
      BY <2>1, <2>2
  <1> HIDE DEF size
  <1>5. CASE start + size <= Len(d)
    <2>1. waiting \in Call /\ waiting.call = "multi" /\ InData(waiting)
      <3>1. start + size \in Nat
        BY <1>3, <1>4
      <3>2. /\ waiting \in Call /\ waiting.call = "multi" /\ waiting.offset = start + size
            /\ waiting.data = d
        BY <1>1, <1>2, <3>1 DEF Call, d
      <3> HIDE DEF waiting
      <3> QED
        BY <1>5, <3>2 DEF InData
    <2> HIDE DEF waiting
    <2>2. Nested(caller) /\ Waiting(caller)
      BY <1>2, <2>1, Pushed
    <2>3. part \in Seq(Byte)
      <3>1. start + 1 \in Nat \ {0} /\ start + size \in Nat
        BY <1>3, <1>4
      <3> QED
        BY <1>3, <1>5, <3>1, Cut
    <2> HIDE DEF caller, part
    <2>4. Nested(Append(caller, Consuming(part)))
      BY <2>2, <2>3, CallTypes, Pushed
    <2>5. stack' = Front(stack) \/ stack' = caller \/ stack' = Append(caller, Consuming(part))
      BY <1>1
    <2> QED
      BY <1>1, <1>2, <2>2, <2>4, <2>5 DEF TypeInv
  <1>6. CASE ~(start + size <= Len(d))
    <2>1. stack' = Front(stack)
      BY <1>1, <1>3, <1>4, <1>6
    <2> QED
      BY <1>1, <1>2, <2>1 DEF TypeInv
  <1> QED
    BY <1>5, <1>6

\* The types, as they are preserved.
LEMMA TypeInvCorrect == Spec => []TypeInv
  <1>1. Init => TypeInv
    <2> SUFFICES ASSUME Init PROVE TypeInv
      OBVIOUS
    <2>1. Nested(stack)
      BY DEF Init, Nested
    <2>2. rx \in Seq(Frame) /\ channel_secured_ \in BOOLEAN /\ crashed \in BOOLEAN
      BY DEF Init
    <2>3. log \in Seq(Seq(Byte)) /\ events \in Seq(BOOLEAN) /\ tx \in Seq(Answer)
      <3>1. log = << >> /\ events = << >> /\ tx = << >>
        BY DEF Init
      <3> QED
        BY <3>1
    <2> QED
      BY <2>1, <2>2, <2>3 DEF TypeInv
  <1>2. TypeInv /\ [Next]_vars => TypeInv'
    <2> SUFFICES ASSUME TypeInv, [Next]_vars PROVE TypeInv'
      OBVIOUS
    <2>1. CASE UNCHANGED vars
      BY <2>1 DEF vars, TypeInv
    <2> QED
      BY <2>1, ReceiveTypes, DispatchTypes, ReadTypes DEF Next
  <1> QED
    BY <1>1, <1>2, PTL DEF Spec

\* consume_frame, handle_multi, read_frame: whatever bytes the server sends, every
\* call but the innermost is a handle_multi that waits for a part, and read_frame's
\* offset never passes the end of what it reads.
THEOREM TypeCorrect == Spec => []TypeOK
  <1>1. TypeInv => TypeOK
    <2> SUFFICES ASSUME TypeInv, NEW i \in 1 .. Len(stack)
                 PROVE  /\ stack[i].call = (IF i = Len(stack) THEN stack[i].call ELSE "multi")
                        /\ stack[i].data \in Seq(Byte)
                        /\ stack[i].offset \in 0 .. Len(stack[i].data)
      BY DEF TypeInv, TypeOK
    <2>1. /\ stack[i] \in Call /\ InData(stack[i])
          /\ (i # Len(stack) => stack[i].call = "multi")
      BY DEF TypeInv, Nested
    <2> QED
      BY <2>1 DEF Call, InData
  <1> QED
    BY <1>1, TypeInvCorrect, PTL

-----------------------------------------------------------------------------
(* The handshake.                                                          *)

\* The body of a message with the type id, the key for a body, and what an answer
\* carries: what the histories are made of, one by one.
BodyOf(id) ==
  [d \in Seq(Byte) |->
    IF U32Value(d) = id THEN <<SubSeq(d, MsgHdrSize + 1, Len(d))>> ELSE << >>]
KeyOf == [b \in Seq(Byte) |-> IF IsExact(b) THEN <<KeyFor(Challenge(b))>> ELSE << >>]
PayloadOf == [a \in Answer |-> a.msg.payload]

\* The bodies that can be read as the result of the handshake.
Readable(q) == Cardinality({i \in 1 .. Len(q) : Len(q[i]) >= ResultSize})

\* The types of these functions.
LEMMA Pieces ==
  /\ \A id : MapsInto(BodyOf(id), Seq(Byte), Seq(Seq(Byte)))
  /\ MapsInto(KeyOf, Seq(Byte), Seq(Key))
  /\ MapsInto(PayloadOf, Answer, Payload)
  <1>1. ASSUME NEW id PROVE MapsInto(BodyOf(id), Seq(Byte), Seq(Seq(Byte)))
    <2> SUFFICES ASSUME NEW d \in Seq(Byte) PROVE BodyOf(id)[d] \in Seq(Seq(Byte))
      BY DEF MapsInto
    <2> DEFINE body == SubSeq(d, MsgHdrSize + 1, Len(d))
               S == Seq(Byte)
    <2>1. BodyOf(id)[d] = <<body>> \/ BodyOf(id)[d] = << >>
      BY DEF BodyOf
    <2>2. body \in S
      BY BodyType
    <2> HIDE DEF body, S
    <2>3. <<body>> \in Seq(S) /\ << >> \in Seq(S)
      BY <2>2
    <2>4. BodyOf(id)[d] \in Seq(S)
      BY <2>1, <2>3
    <2> QED
      BY <2>4 DEF S
  <1>2. MapsInto(KeyOf, Seq(Byte), Seq(Key))
    <2> SUFFICES ASSUME NEW b \in Seq(Byte) PROVE KeyOf[b] \in Seq(Key)
      BY DEF MapsInto
    <2> DEFINE k == KeyFor(Challenge(b))
    <2>1. k \in Key
      BY KeyType
    <2>2. KeyOf[b] = <<k>> \/ KeyOf[b] = << >>
      BY DEF KeyOf
    <2> HIDE DEF k
    <2>3. <<k>> \in Seq(Key) /\ << >> \in Seq(Key)
      BY <2>1
    <2> QED
      BY <2>2, <2>3
  <1>3. MapsInto(PayloadOf, Answer, Payload)
    BY DEF MapsInto, PayloadOf, Answer
  <1> QED
    BY <1>1, <1>2, <1>3

\* A message more in the log is, if it has this type, a body more.
LEMMA BodiesGrow ==
  ASSUME NEW id, NEW l \in Seq(Seq(Byte)), NEW d \in Seq(Byte)
  PROVE  /\ FlatMapped(BodyOf(id), l) \in Seq(Seq(Byte))
         /\ FlatMapped(BodyOf(id), Append(l, d)) =
              IF U32Value(d) = id
                THEN Append(FlatMapped(BodyOf(id), l), SubSeq(d, MsgHdrSize + 1, Len(d)))
                ELSE FlatMapped(BodyOf(id), l)
  <1> DEFINE S == Seq(Byte)
             g == BodyOf(id)
             q == FlatMapped(g, l)
             body == SubSeq(d, MsgHdrSize + 1, Len(d))
  <1>1. MapsInto(g, S, Seq(S)) /\ l \in Seq(S) /\ d \in S /\ body \in S
    BY Pieces, BodyType
  <1>2. g[d] = IF U32Value(d) = id THEN <<body>> ELSE << >>
    BY DEF BodyOf
  <1>3. /\ q \in Seq(S)
        /\ FlatMapped(g, Append(l, d)) = q \o g[d]
    <2> HIDE DEF g, S
    <2> QED
      BY <1>1, FlatMappedFacts
  <1> HIDE DEF S, g, q, body
  <1>4. q \o <<body>> = Append(q, body)
    BY <1>1, <1>3, AppendIsConcat
  <1>5. q \o << >> = q
    BY <1>3, ConcatEmptySeq
  <1>6. FlatMapped(g, Append(l, d)) = IF U32Value(d) = id THEN Append(q, body) ELSE q
    BY <1>2, <1>3, <1>4, <1>5
  <1> QED
    BY <1>3, <1>6 DEF S, g, q, body

\* A body more is, if it is an exact request, a key more.
LEMMA KeysGrow ==
  ASSUME NEW q \in Seq(Seq(Byte)), NEW b \in Seq(Byte)
  PROVE  /\ FlatMapped(KeyOf, q) \in Seq(Key)
         /\ FlatMapped(KeyOf, Append(q, b)) =
              IF IsExact(b) THEN Append(FlatMapped(KeyOf, q), KeyFor(Challenge(b)))
              ELSE FlatMapped(KeyOf, q)
  <1> DEFINE S == Seq(Byte)
             keys == FlatMapped(KeyOf, q)
             k == KeyFor(Challenge(b))
  <1>1. MapsInto(KeyOf, S, Seq(Key)) /\ q \in Seq(S) /\ b \in S
    BY Pieces
  <1>2. KeyOf[b] = IF IsExact(b) THEN <<k>> ELSE << >>
    BY DEF KeyOf
  <1>3. k \in Key
    BY KeyType
  <1>4. /\ keys \in Seq(Key)
        /\ FlatMapped(KeyOf, Append(q, b)) = keys \o KeyOf[b]
    <2> HIDE DEF S
    <2> QED
      BY <1>1, FlatMappedFacts
  <1> HIDE DEF S, keys, k
  <1>5. keys \o <<k>> = Append(keys, k)
    BY <1>3, <1>4, AppendIsConcat
  <1>6. keys \o << >> = keys
    BY <1>4, ConcatEmptySeq
  <1>7. FlatMapped(KeyOf, Append(q, b)) = IF IsExact(b) THEN Append(keys, k) ELSE keys
    BY <1>2, <1>4, <1>5, <1>6
  <1> QED
    BY <1>4, <1>7 DEF keys, k

\* A body more is, if it is long enough, one more to be read.
LEMMA ReadableGrows ==
  ASSUME NEW q \in Seq(Seq(Byte)), NEW b \in Seq(Byte)
  PROVE  /\ Readable(q) \in Nat
         /\ Readable(Append(q, b)) = IF Len(b) >= ResultSize THEN Readable(q) + 1 ELSE Readable(q)
  <1> DEFINE S == Seq(Byte)
             longer == Append(q, b)
             In(p) == {i \in 1 .. Len(p) : Len(p[i]) >= ResultSize}
  <1>1. /\ Len(longer) = Len(q) + 1 /\ Len(q) \in Nat
        /\ \A i \in 1 .. Len(q) : longer[i] = q[i]
        /\ longer[Len(q) + 1] = b
    <2>1. q \in Seq(S) /\ b \in S
      OBVIOUS
    <2> HIDE DEF S
    <2> QED
      BY <2>1, Appended
  <1> HIDE DEF longer
  <1>2. IsFiniteSet(In(q)) /\ Cardinality(In(q)) \in Nat
    <2>1. IsFiniteSet(1 .. Len(q))
      BY <1>1, FS_Interval
    <2>2. In(q) \subseteq 1 .. Len(q)
      OBVIOUS
    <2> HIDE DEF In
    <2>3. IsFiniteSet(In(q))
      BY <2>1, <2>2, FS_Subset
    <2> QED
      BY <2>3, FS_CardinalityType
  <1>3. CASE Len(b) >= ResultSize
    <2>1. In(longer) = In(q) \cup {Len(q) + 1} /\ Len(q) + 1 \notin In(q)
      BY <1>1, <1>3
    <2> HIDE DEF In
    <2>2. Cardinality(In(q) \cup {Len(q) + 1}) = Cardinality(In(q)) + 1
      BY <1>2, <2>1, FS_AddElement
    <2> QED
      BY <1>2, <1>3, <2>1, <2>2 DEF Readable, In, longer
  <1>4. CASE ~(Len(b) >= ResultSize)
    <2>1. In(longer) = In(q)
      <3>1. \A i \in 1 .. Len(q) + 1 : i \in 1 .. Len(q) \/ i = Len(q) + 1
        BY <1>1
      <3>2. \A i \in 1 .. Len(q) : i \in 1 .. Len(longer)
        BY <1>1
      <3>3. \A i \in In(longer) : i \in 1 .. Len(q)
        BY <1>1, <1>4, <3>1
      <3> QED
        BY <1>1, <3>2, <3>3
    <2> QED
      BY <1>2, <1>4, <2>1 DEF Readable, longer
  <1> QED
    BY <1>3, <1>4

\* HandshakeConcluded in these terms.
HandshakeInv ==
  LET requests == FlatMapped(BodyOf(ChannelEncryptRequest), log)
      results  == FlatMapped(BodyOf(ChannelEncryptResult), log)
  IN /\ Mapped(PayloadOf, tx) = FlatMapped(KeyOf, requests)
     /\ Len(tx) + Len(events) = Len(requests) + Readable(results)

\* It is the same.
LEMMA HandshakeTerms ==
  ASSUME TypeInv
  PROVE  HandshakeConcluded <=> HandshakeInv
  <1>1. ASSUME NEW id PROVE Dispatched(id) = FlatMapped(BodyOf(id), log)
    <2>1. \A i \in 1 .. Len(log) : log[i] \in Seq(Byte)
      BY DEF TypeInv
    <2>2. Mapped(BodyOf(id), log) =
            [i \in 1 .. Len(log) |->
              IF U32Value(log[i]) = id THEN <<SubSeq(log[i], MsgHdrSize + 1, Len(log[i]))>>
              ELSE << >>]
      BY <2>1 DEF Mapped, BodyOf
    <2> QED
      BY <2>2 DEF Dispatched, FlatMapped
  <1>2. ASSUME NEW q \in Seq(Seq(Byte))
        PROVE  FlatMapped(KeyOf, q) =
                 FlattenSeq([i \in 1 .. Len(q) |->
                   IF IsExact(q[i]) THEN <<KeyFor(Challenge(q[i]))>> ELSE << >>])
    <2>1. \A i \in 1 .. Len(q) : q[i] \in Seq(Byte)
      OBVIOUS
    <2>2. Mapped(KeyOf, q) =
            [i \in 1 .. Len(q) |-> IF IsExact(q[i]) THEN <<KeyFor(Challenge(q[i]))>> ELSE << >>]
      BY <2>1 DEF Mapped, KeyOf
    <2> QED
      BY <2>2 DEF FlatMapped
  <1>3. Mapped(PayloadOf, tx) = [i \in 1 .. Len(tx) |-> tx[i].msg.payload]
    <2>1. \A i \in 1 .. Len(tx) : tx[i] \in Answer
      BY DEF TypeInv
    <2> QED
      BY <2>1 DEF Mapped, PayloadOf
  <1> DEFINE requests == FlatMapped(BodyOf(ChannelEncryptRequest), log)
             results  == FlatMapped(BodyOf(ChannelEncryptResult), log)
  <1>4. requests \in Seq(Seq(Byte))
    <2>1. << >> \in Seq(Byte) /\ log \in Seq(Seq(Byte))
      BY DEF TypeInv
    <2> QED
      BY <2>1, BodiesGrow
  <1>5. ResponseCarriesKey <=> Mapped(PayloadOf, tx) = FlatMapped(KeyOf, requests)
    BY <1>1, <1>2, <1>3, <1>4 DEF ResponseCarriesKey
  <1>6. HandshakeConcluded <=>
          /\ ResponseCarriesKey
          /\ Len(tx) + Len(events) = Len(requests) + Readable(results)
    BY <1>1 DEF HandshakeConcluded, Readable
  <1> QED
    BY <1>5, <1>6 DEF HandshakeInv

\* A request is dispatched.
LEMMA RequestConcluded ==
  ASSUME CopyElision, TypeInv, HandshakeInv, NEW d \in Seq(Byte),
         U32Value(d) = ChannelEncryptRequest, log' = Append(log, d),
         handle_encrypt_request(SubSeq(d, MsgHdrSize + 1, Len(d)))
  PROVE  HandshakeInv'
  <1> DEFINE body == SubSeq(d, MsgHdrSize + 1, Len(d))
             requests == FlatMapped(BodyOf(ChannelEncryptRequest), log)
             results  == FlatMapped(BodyOf(ChannelEncryptResult), log)
  <1>1. /\ log \in Seq(Seq(Byte)) /\ body \in Seq(Byte)
        /\ tx \in Seq(Answer) /\ events \in Seq(BOOLEAN)
    BY BodyType DEF TypeInv
  <1>2. ChannelEncryptRequest # ChannelEncryptResult
    BY DEF ChannelEncryptRequest, ChannelEncryptResult
  <1>3. requests' = Append(requests, body) /\ results' = results /\ requests \in Seq(Seq(Byte))
    BY <1>1, <1>2, BodiesGrow
  <1>4. /\ Mapped(PayloadOf, tx) = FlatMapped(KeyOf, requests)
        /\ Len(tx) + Len(events) = Len(requests) + Readable(results)
        /\ HandshakeInv' <=>
             /\ Mapped(PayloadOf, tx') = FlatMapped(KeyOf, requests')
             /\ Len(tx') + Len(events') = Len(requests') + Readable(results')
    BY DEF HandshakeInv
  <1>5. handle_encrypt_request(body)
    OBVIOUS
  <1> HIDE DEF body, requests, results
  <1>6. Readable(results) \in Nat
    <2>1. << >> \in Seq(Byte) /\ results \in Seq(Seq(Byte))
      BY <1>1, BodiesGrow DEF results
    <2> QED
      BY <2>1, ReadableGrows
  <1>7. Len(requests') = Len(requests) + 1 /\ Len(requests) \in Nat
    <2>1. requests \in Seq(Seq(Byte))
      BY <1>3
    <2> DEFINE S == Seq(Byte)
    <2> HIDE DEF S
    <2>2. requests \in Seq(S) /\ body \in S
      BY <1>1, <2>1 DEF S
    <2> QED
      BY <1>3, <2>2, Appended
  <1>8. /\ FlatMapped(KeyOf, requests') =
             IF IsExact(body) THEN Append(FlatMapped(KeyOf, requests), KeyFor(Challenge(body)))
             ELSE FlatMapped(KeyOf, requests)
    BY <1>1, <1>3, KeysGrow
  <1>0. Readable(results') = Readable(results)
    BY <1>3
  <1>a. Len(tx) + Len(events) = Len(requests) + Readable(results)
    BY <1>4
  <1>9. CASE IsExact(body)
    <2>1. PICK r \in Responses(body) :
            tx' = Append(tx, [msg |-> r, enc |-> channel_secured_]) /\ UNCHANGED events
      BY <1>5, <1>9 DEF handle_encrypt_request
    <2> DEFINE a == [msg |-> r, enc |-> channel_secured_]
    <2>2. /\ a \in Answer /\ a.msg = r /\ r.payload = KeyFor(Challenge(body))
      BY <1>1, ResponseTypes DEF Answer, TypeInv
    <2>3. PayloadOf[a] = KeyFor(Challenge(body))
      BY <2>2 DEF PayloadOf
    <2> HIDE DEF a
    <2>4. Mapped(PayloadOf, tx') = Append(Mapped(PayloadOf, tx), PayloadOf[a])
      BY <1>1, <2>1, <2>2, MappedAppended DEF a
    <2>5. Len(tx') = Len(tx) + 1 /\ Len(tx) \in Nat /\ Len(events') = Len(events)
          /\ Len(events) \in Nat
      BY <1>1, <2>1, <2>2, Appended DEF a
    <2>6. Mapped(PayloadOf, tx') = FlatMapped(KeyOf, requests')
      BY <1>4, <1>8, <1>9, <2>3, <2>4
    <2>7. Len(tx') + Len(events') = Len(requests') + Readable(results')
      <3>1. (Len(tx) + 1) + Len(events) = (Len(requests) + 1) + Readable(results)
        <4>1. Len(tx) \in Nat /\ Len(events) \in Nat /\ Len(requests) \in Nat
          BY <1>7, <2>5
        <4>2. Readable(results) \in Nat /\ Len(tx) + Len(events) = Len(requests) + Readable(results)
          BY <1>a, <1>6
        <4> QED
          BY ONLY <4>1, <4>2
      <3> QED
        BY <1>0, <1>7, <2>5, <3>1
    <2> QED
      BY <1>4, <2>6, <2>7
  <1>10. CASE ~IsExact(body)
    <2>1. events' = Append(events, FALSE) /\ UNCHANGED tx
      BY <1>5, <1>10 DEF handle_encrypt_request
    <2>2. Len(events') = Len(events) + 1 /\ Len(events) \in Nat /\ Len(tx) \in Nat
      BY <1>1, <2>1, Appended
    <2>3. Mapped(PayloadOf, tx') = FlatMapped(KeyOf, requests')
      BY <1>4, <1>8, <1>10, <2>1
    <2>4. Len(tx') + Len(events') = Len(requests') + Readable(results')
      <3>1. Len(tx') = Len(tx)
        BY <2>1
      <3> QED
        <4>1. Len(tx) + (Len(events) + 1) = (Len(requests) + 1) + Readable(results)
          BY <1>a, <1>6, <1>7, <2>2
        <4> QED
          BY <1>0, <1>7, <2>2, <3>1, <4>1
    <2> QED
      BY <1>4, <2>3, <2>4
  <1> QED
    BY <1>9, <1>10

\* A result is dispatched.
LEMMA ResultConcluded ==
  ASSUME TypeInv, HandshakeInv, NEW d \in Seq(Byte),
         U32Value(d) = ChannelEncryptResult, log' = Append(log, d),
         handle_encrypt_result(SubSeq(d, MsgHdrSize + 1, Len(d)))
  PROVE  HandshakeInv'
  <1> DEFINE body == SubSeq(d, MsgHdrSize + 1, Len(d))
             requests == FlatMapped(BodyOf(ChannelEncryptRequest), log)
             results  == FlatMapped(BodyOf(ChannelEncryptResult), log)
  <1>1. /\ log \in Seq(Seq(Byte)) /\ body \in Seq(Byte)
        /\ tx \in Seq(Answer) /\ events \in Seq(BOOLEAN)
    BY BodyType DEF TypeInv
  <1>2. ChannelEncryptRequest # ChannelEncryptResult
    BY DEF ChannelEncryptRequest, ChannelEncryptResult
  <1>3. requests' = requests /\ results' = Append(results, body) /\ results \in Seq(Seq(Byte))
    BY <1>1, <1>2, BodiesGrow
  <1>4. /\ Mapped(PayloadOf, tx) = FlatMapped(KeyOf, requests)
        /\ Len(tx) + Len(events) = Len(requests) + Readable(results)
        /\ HandshakeInv' <=>
             /\ Mapped(PayloadOf, tx') = FlatMapped(KeyOf, requests')
             /\ Len(tx') + Len(events') = Len(requests') + Readable(results')
    BY DEF HandshakeInv
  <1>5. handle_encrypt_result(body)
    OBVIOUS
  <1> HIDE DEF body, requests, results
  <1>6. Len(requests) \in Nat
    <2>1. << >> \in Seq(Byte) /\ requests \in Seq(Seq(Byte))
      BY <1>1, BodiesGrow DEF requests
    <2> QED
      BY <2>1
  <1>7. Len(body) \in Nat
    BY <1>1
  <1>8. /\ Readable(results) \in Nat
        /\ Readable(results') =
             IF Len(body) >= ResultSize THEN Readable(results) + 1 ELSE Readable(results)
    BY <1>1, <1>3, ReadableGrows
  <1>9. UNCHANGED tx /\ Len(tx) \in Nat /\ Len(events) \in Nat
    BY <1>1, <1>5 DEF handle_encrypt_result
  <1>10. Len(events') = IF Len(body) >= ResultSize THEN Len(events) + 1 ELSE Len(events)
    <2>1. CASE Len(body) < ResultSize
      <3>1. UNCHANGED events /\ ~(Len(body) >= ResultSize)
        BY <1>5, <1>7, <2>1, Sizes DEF handle_encrypt_result
      <3> QED
        BY <3>1
    <2>2. CASE ~(Len(body) < ResultSize)
      <3>1. \E success \in BOOLEAN : events' = Append(events, success)
        BY <1>5, <2>2 DEF handle_encrypt_result
      <3>2. Len(events') = Len(events) + 1
        BY <1>1, <3>1, Appended
      <3>3. Len(body) >= ResultSize
        BY <1>7, <2>2, Sizes
      <3> QED
        BY <3>2, <3>3
    <2> QED
      BY <2>1, <2>2
  <1>11. Mapped(PayloadOf, tx') = FlatMapped(KeyOf, requests')
    BY <1>3, <1>4, <1>9
  <1>12. Len(tx') + Len(events') = Len(requests') + Readable(results')
    <2>1. Len(tx) + Len(events) = Len(requests) + Readable(results)
      BY <1>4
    <2>2. Len(tx) + (Len(events) + 1) = Len(requests) + (Readable(results) + 1)
      <3>1. Len(tx) \in Nat /\ Len(events) \in Nat /\ Readable(results) \in Nat
        BY <1>8, <1>9
      <3>2. ASSUME NEW t \in Nat, NEW e \in Nat, NEW q \in Nat, NEW n \in Nat, t + e = q + n
            PROVE  t + (e + 1) = q + (n + 1)
        BY <3>2
      <3>3. Len(requests) \in Nat
        BY <1>6
      <3> QED
        BY <2>1, <3>1, <3>2, <3>3
    <2>3. Len(tx') = Len(tx) /\ Len(requests') = Len(requests)
      BY <1>3, <1>9
    <2>4. CASE Len(body) >= ResultSize
      BY <1>8, <1>10, <2>2, <2>3, <2>4
    <2>5. CASE ~(Len(body) >= ResultSize)
      BY <1>8, <1>10, <2>1, <2>3, <2>5
    <2> QED
      BY <2>4, <2>5
  <1> QED
    BY <1>4, <1>11, <1>12

\* Any other message is dispatched.
LEMMA OtherConcluded ==
  ASSUME TypeInv, HandshakeInv, UNCHANGED <<events, tx>>, NEW d \in Seq(Byte),
         U32Value(d) \notin {ChannelEncryptRequest, ChannelEncryptResult},
         log' = Append(log, d) \/ log' = log
  PROVE  HandshakeInv'
  <1> DEFINE requests == FlatMapped(BodyOf(ChannelEncryptRequest), log)
             results  == FlatMapped(BodyOf(ChannelEncryptResult), log)
  <1>1. log \in Seq(Seq(Byte))
    BY DEF TypeInv
  <1>2. requests' = requests /\ results' = results
    <2>1. CASE log' = log
      BY <2>1
    <2>2. CASE log' = Append(log, d)
      BY <1>1, <2>2, BodiesGrow
    <2> QED
      BY <2>1, <2>2
  <1>3. /\ HandshakeInv <=>
             /\ Mapped(PayloadOf, tx) = FlatMapped(KeyOf, requests)
             /\ Len(tx) + Len(events) = Len(requests) + Readable(results)
        /\ HandshakeInv' <=>
             /\ Mapped(PayloadOf, tx') = FlatMapped(KeyOf, requests')
             /\ Len(tx') + Len(events') = Len(requests') + Readable(results')
    BY DEF HandshakeInv
  <1> HIDE DEF requests, results
  <1> QED
    BY <1>2, <1>3

\* A plaintext is dispatched.
LEMMA DispatchConcluded ==
  ASSUME CopyElision, TypeInv, HandshakeInv, Dispatch
  PROVE  HandshakeInv'
  <1>1. PICK d \in Seq(Byte) :
          \/ /\ Len(d) >= MsgHdrSize
             /\ U32Value(d) \in
                  {ChannelEncryptRequest, ChannelEncryptResponse, ChannelEncryptResult}
             /\ dispatch_msg(U32Value(d), d)
          \/ /\ Len(d) >= 8 /\ U32Value(d) = Huge /\ ProtoBody(d) \in Seq(Byte)
             /\ \E id : dispatch_proto(id, d)
          \/ Elsewhere /\ UNCHANGED log
    BY DispatchCases
  <1>2. CASE /\ U32Value(d) \in
                  {ChannelEncryptRequest, ChannelEncryptResponse, ChannelEncryptResult}
             /\ dispatch_msg(U32Value(d), d)
    <2>1. log' = Append(log, d)
      BY <1>2, MsgCases
    <2>2. CASE /\ U32Value(d) = ChannelEncryptRequest
               /\ handle_encrypt_request(SubSeq(d, MsgHdrSize + 1, Len(d)))
      BY <2>1, <2>2, RequestConcluded
    <2>3. CASE /\ U32Value(d) = ChannelEncryptResult
               /\ handle_encrypt_result(SubSeq(d, MsgHdrSize + 1, Len(d)))
      BY <2>1, <2>3, ResultConcluded
    <2>4. CASE U32Value(d) = ChannelEncryptResponse /\ Elsewhere
      <3>1. U32Value(d) \notin {ChannelEncryptRequest, ChannelEncryptResult}
        BY <2>4 DEF ChannelEncryptRequest, ChannelEncryptResponse, ChannelEncryptResult
      <3> QED
        BY <2>1, <2>4, <3>1, OtherConcluded DEF Elsewhere
    <2> QED
      BY <1>2, <2>2, <2>3, <2>4, MsgCases
  <1>3. CASE U32Value(d) = Huge /\ \E id : dispatch_proto(id, d)
    <2>1. U32Value(d) \notin {ChannelEncryptRequest, ChannelEncryptResult}
      BY <1>3 DEF Huge, ChannelEncryptRequest, ChannelEncryptResult
    <2>2. UNCHANGED <<events, tx>> /\ (log' = Append(log, d) \/ log' = log)
      BY <1>3 DEF dispatch_proto, handle_multi, Elsewhere
    <2> QED
      BY <2>1, <2>2, OtherConcluded
  <1>4. CASE Elsewhere /\ UNCHANGED log
    BY <1>4 DEF Elsewhere, HandshakeInv
  <1> QED
    BY <1>1, <1>2, <1>3, <1>4

\* handle_encrypt_request, handle_encrypt_result: where the compiler elides the copy
\* of the response, every exact request is answered with the key for its challenge,
\* in order, and every other request and each result that is long enough for its
\* body is reported once, whatever bytes the server sends, alone or within a Multi.
THEOREM HandshakeCorrect ==
  ASSUME CopyElision
  PROVE  Spec => []HandshakeConcluded
  <1>1. Init => HandshakeInv
    <2> SUFFICES ASSUME Init PROVE HandshakeInv
      OBVIOUS
    <2>1. log = << >> /\ tx = << >> /\ events = << >>
      BY DEF Init
    <2>2. ASSUME NEW g PROVE Mapped(g, << >>) = << >> /\ FlatMapped(g, << >>) = << >>
      <3>1. Mapped(g, << >>) = << >>
        BY DEF Mapped
      <3> QED
        BY <3>1, FlattenFacts DEF FlatMapped
    <2>3. Readable(<< >>) = 0
      <3>1. {i \in 1 .. Len(<< >>) : Len(<< >>[i]) >= ResultSize} = {}
        OBVIOUS
      <3> QED
        BY <3>1, FS_EmptySet DEF Readable
    <2> QED
      BY <2>1, <2>2, <2>3 DEF HandshakeInv
  <1>2. TypeInv /\ HandshakeInv /\ [Next]_vars => HandshakeInv'
    <2> SUFFICES ASSUME TypeInv, HandshakeInv, [Next]_vars PROVE HandshakeInv'
      OBVIOUS
    <2>1. CASE UNCHANGED <<log, events, tx>>
      BY <2>1 DEF HandshakeInv
    <2>2. CASE Dispatch
      BY <2>2, DispatchConcluded
    <2> QED
      BY <2>1, <2>2 DEF Next, Receive, read_frame, vars
  <1>3. TypeInv /\ HandshakeInv => HandshakeConcluded
    BY HandshakeTerms
  <1> QED
    BY <1>1, <1>2, <1>3, TypeInvCorrect, PTL DEF Spec

-----------------------------------------------------------------------------
(* What a frame of any bytes has in it: the reference for the intake.      *)

\* The length of the part at offset o of d; whether the part is there in full; it;
\* and the offset behind it.
PartSize(d, o) == U32Value(SubSeq(d, o + 1, o + 4))
Fits(d, o) == o + 4 <= Len(d) /\ o + 4 + PartSize(d, o) <= Len(d)
Part(d, o) == SubSeq(d, o + 5, o + 4 + PartSize(d, o))
Behind(d, o) == o + 4 + PartSize(d, o)

\* The bytes are a message that a handler gets to see, or would get to see if there
\* were one for its type.
IsProto(d) == Len(d) >= 8 /\ is_protobuf_msg(d) /\ ProtoHeaderReads(d)
Reaches(d) ==
  \/ Len(d) >= MsgHdrSize /\ is_encryption_msg(d)
  \/ IsProto(d) /\ get_msg(d) <= MAX_EMSG

\* What a Multi has its parts in.
Unpacked(d) ==
  LET body == ProtoBody(d)
      b == MessageBody(body)
  IN IF ~(IsProto(d) /\ get_msg(d) = Multi) THEN << >>
     ELSE IF SizeUnzipped(body) = 0 THEN b
     ELSE IF Gunzips(b) THEN Gunzip(b)
     ELSE << >>

\* The messages in d from the offset o on, where w has those in what is shorter.
Place == Seq(Byte) \X Nat
Message(w, d) == IF Reaches(d) THEN <<d>> \o w[<<Unpacked(d), 0>>] ELSE << >>
Messages(w, x) ==
  LET d == x[1]
      o == x[2]
  IN IF ~Fits(d, o) THEN << >>
     ELSE (IF PartSize(d, o) < 4 THEN << >> ELSE Message(w, Part(d, o))) \o w[<<d, Behind(d, o)>>]

\* n bounds the depth and the number of parts, and the length of d is enough.
walk[n \in Nat] == [x \in Place |-> IF n = 0 THEN << >> ELSE Messages(walk[n - 1], x)]
Walk(d, o) == walk[Len(d) + 1][<<d, o>>]

\* Everything that is to be dispatched when d arrives: d itself, and its parts.
Arriving(d) == IF Reaches(d) THEN <<d>> \o Walk(Unpacked(d), 0) ELSE << >>

\* The length of a header that can be read.
LEMMA HeaderLengthFacts ==
  ASSUME NEW d \in Seq(Byte), ProtoHeaderReads(d)
  PROVE  /\ Len(d) >= 8 /\ ProtoHeaderLength(d) \in Nat /\ 8 + ProtoHeaderLength(d) <= Len(d)
  <1>0. Len(d) \in Nat
    OBVIOUS
  <1>1. 8 + ProtoHeaderLength(d) <= Len(d)
    BY DEF ProtoHeaderReads
  <1>2. CASE Len(d) < 8 \/ d[8] >= 128
    <2>1. ProtoHeaderLength(d) = Huge
      BY <1>2 DEF ProtoHeaderLength
    <2> QED
      BY <1>0, <1>1, <2>1 DEF Huge
  <1>3. CASE ~(Len(d) < 8 \/ d[8] >= 128)
    <2> DEFINE b == SubSeq(d, 5, 8)
    <2>1. b \in Seq(Byte) /\ Len(b) >= 4
      BY <1>0, <1>3
    <2>2. ProtoHeaderLength(d) = U32Value(b)
      BY <1>3 DEF ProtoHeaderLength
    <2> HIDE DEF b
    <2>3. U32Value(b) \in Nat
      BY <2>1, U32Number
    <2> QED
      BY <1>0, <1>1, <1>3, <2>2, <2>3
  <1> QED
    BY <1>2, <1>3

\* A part is within what it is a part of.
LEMMA PartFacts ==
  ASSUME NEW d \in Seq(Byte), NEW o \in Nat, o + 4 <= Len(d)
  PROVE  /\ PartSize(d, o) \in Nat /\ Len(d) \in Nat
         /\ Behind(d, o) = o + 4 + PartSize(d, o) /\ Behind(d, o) \in Nat
         /\ Fits(d, o) <=> Behind(d, o) <= Len(d)
         /\ Fits(d, o) => Part(d, o) \in Seq(Byte) /\ Len(Part(d, o)) = PartSize(d, o)
  <1>0. Len(d) \in Nat
    OBVIOUS
  <1>1. PartSize(d, o) \in Nat
    <2> DEFINE b == SubSeq(d, o + 1, o + 4)
    <2>1. o + 1 \in Nat \ {0} /\ o + 4 \in Nat /\ o + 1 <= (o + 4) + 1
      OBVIOUS
    <2>2. b \in Seq(Byte) /\ Len(b) = (o + 4) - (o + 1) + 1
      BY <2>1, Cut
    <2>3. Len(b) >= 4
      BY <2>2
    <2> HIDE DEF b
    <2>4. U32Value(b) \in Nat
      BY <2>2, <2>3, U32Number
    <2> QED
      BY <2>4 DEF PartSize, b
  <1>2. ASSUME Fits(d, o)
        PROVE  Part(d, o) \in Seq(Byte) /\ Len(Part(d, o)) = PartSize(d, o)
    <2> DEFINE m == o + 5
               n == o + 4 + PartSize(d, o)
    <2>1. m \in Nat \ {0} /\ n \in Nat /\ n <= Len(d) /\ m <= n + 1 /\ n - m + 1 = PartSize(d, o)
      BY <1>0, <1>1, <1>2 DEF Fits
    <2> HIDE DEF m, n
    <2>2. SubSeq(d, m, n) \in Seq(Byte) /\ Len(SubSeq(d, m, n)) = n - m + 1
      BY <2>1, Cut
    <2> QED
      BY <2>1, <2>2 DEF Part, m, n
  <1> QED
    BY <1>0, <1>1, <1>2 DEF Behind, Fits

\* ... and so is what a Multi has its parts in.
LEMMA UnpackedFacts ==
  ASSUME NEW d \in Seq(Byte)
  PROVE  Unpacked(d) \in Seq(Byte) /\ Len(Unpacked(d)) <= Len(d)
  <1> DEFINE body == ProtoBody(d)
             b == MessageBody(body)
  <1>0. Len(d) \in Nat /\ << >> \in Seq(Byte) /\ Len(<< >>) = 0
    OBVIOUS
  <1>1. \/ Unpacked(d) = << >>
        \/ IsProto(d) /\ Unpacked(d) = b
        \/ IsProto(d) /\ Gunzips(b) /\ Unpacked(d) = Gunzip(b)
    BY Zenon DEF Unpacked
  <1>2. ASSUME IsProto(d)
        PROVE  body \in Seq(Byte) /\ Len(body) <= Len(d)
    <2> DEFINE m == 9 + ProtoHeaderLength(d)
    <2>1. ProtoHeaderReads(d)
      BY <1>2 DEF IsProto
    <2>2. ProtoHeaderLength(d) \in Nat /\ m <= Len(d) + 1
      BY <1>0, <2>1, HeaderLengthFacts
    <2>3. m \in Nat \ {0} /\ Len(d) - m + 1 <= Len(d)
      BY <1>0, <2>2
    <2> HIDE DEF m
    <2>4. SubSeq(d, m, Len(d)) \in Seq(Byte) /\ Len(SubSeq(d, m, Len(d))) = Len(d) - m + 1
      BY <1>0, <2>2, <2>3, Cut
    <2> QED
      BY <2>3, <2>4 DEF ProtoBody, m
  <1>3. ASSUME NEW x \in Seq(Byte)
        PROVE  /\ MessageBody(x) \in Seq(Byte) /\ Len(MessageBody(x)) <= Len(x)
               /\ Gunzips(x) => Gunzip(x) \in Seq(Byte) /\ Len(Gunzip(x)) <= Len(x)
    <2>1. x = << >> \/ (Tail(x) \in Seq(Byte) /\ Len(Tail(x)) <= Len(x))
      OBVIOUS
    <2> QED
      BY <1>0, <2>1 DEF MessageBody, Gunzips, Gunzip
  <1> HIDE DEF body
  <1>4. ASSUME IsProto(d)
        PROVE  /\ b \in Seq(Byte) /\ Len(b) <= Len(d)
               /\ Gunzips(b) => Gunzip(b) \in Seq(Byte) /\ Len(Gunzip(b)) <= Len(d)
    <2>1. b \in Seq(Byte) /\ Len(b) <= Len(body) /\ Len(body) <= Len(d)
      BY <1>2, <1>3, <1>4
    <2> HIDE DEF b
    <2>2. Gunzips(b) => Gunzip(b) \in Seq(Byte) /\ Len(Gunzip(b)) <= Len(b)
      BY <1>3, <2>1
    <2>3. Len(body) \in Nat /\ Len(b) \in Nat /\ (Gunzips(b) => Len(Gunzip(b)) \in Nat)
      BY <1>2, <1>4, <2>1, <2>2
    <2> QED
      BY <1>0, <2>1, <2>2, <2>3
  <1> HIDE DEF b
  <1>5. CASE Unpacked(d) = << >>
    BY <1>0, <1>5
  <1>6. CASE IsProto(d) /\ Unpacked(d) = b
    BY <1>4, <1>6
  <1>7. CASE IsProto(d) /\ Gunzips(b) /\ Unpacked(d) = Gunzip(b)
    BY <1>4, <1>7
  <1> QED
    BY <1>1, <1>5, <1>6, <1>7

\* The functions that walk is made of.
Walks == [Place -> Seq(Seq(Byte))]

\* Their values.
LEMMA MessageTypes ==
  ASSUME NEW w \in Walks, NEW d \in Seq(Byte)
  PROVE  Message(w, d) \in Seq(Seq(Byte))
  <1> DEFINE U == Seq(Byte)
  <1>1. <<Unpacked(d), 0>> \in Place
    BY UnpackedFacts DEF Place
  <1>2. w[<<Unpacked(d), 0>>] \in Seq(U) /\ d \in U
    BY <1>1 DEF Walks
  <1> HIDE DEF U
  <1>3. <<d>> \o w[<<Unpacked(d), 0>>] \in Seq(U) /\ << >> \in Seq(U)
    BY <1>2
  <1> QED
    BY <1>3 DEF Message, U

\* ... and what they lead to.
LEMMA MessagesTypes ==
  ASSUME NEW w \in Walks, NEW x \in Place
  PROVE  Messages(w, x) \in Seq(Seq(Byte))
  <1> DEFINE d == x[1]
             o == x[2]
  <1>1. d \in Seq(Byte) /\ o \in Nat
    BY DEF Place
  <1>2. Messages(w, x) =
          IF ~Fits(d, o) THEN << >>
          ELSE (IF PartSize(d, o) < 4 THEN << >> ELSE Message(w, Part(d, o))) \o w[<<d, Behind(d, o)>>]
    BY DEF Messages
  <1> HIDE DEF d, o
  <1>3. << >> \in Seq(Seq(Byte))
    OBVIOUS
  <1>4. ASSUME Fits(d, o)
        PROVE  /\ Message(w, Part(d, o)) \in Seq(Seq(Byte))
               /\ w[<<d, Behind(d, o)>>] \in Seq(Seq(Byte))
    <2>1. Part(d, o) \in Seq(Byte) /\ Behind(d, o) \in Nat
      BY <1>1, <1>4, PartFacts DEF Fits
    <2>2. <<d, Behind(d, o)>> \in Place
      BY <1>1, <2>1 DEF Place
    <2> QED
      BY <2>1, <2>2, MessageTypes DEF Walks
  <1> DEFINE p == IF PartSize(d, o) < 4 THEN << >> ELSE Message(w, Part(d, o))
             r == w[<<d, Behind(d, o)>>]
  <1>5. Fits(d, o) => p \in Seq(Seq(Byte)) /\ r \in Seq(Seq(Byte))
    BY <1>3, <1>4
  <1>6. Messages(w, x) = << >> \/ (Fits(d, o) /\ Messages(w, x) = p \o r)
    BY <1>2
  <1> HIDE DEF p, r
  <1>7. CASE Fits(d, o) /\ Messages(w, x) = p \o r
    <2> DEFINE U == Seq(Byte)
    <2> HIDE DEF U
    <2>1. p \in Seq(U) /\ r \in Seq(U)
      BY <1>5, <1>7 DEF U
    <2>2. p \o r \in Seq(U)
      BY <2>1
    <2> QED
      BY <1>7, <2>2 DEF U
  <1> QED
    BY <1>3, <1>6, <1>7

\* walk exists.
LEMMA WalkExists ==
  /\ walk \in [Nat -> Walks]
  /\ \A n \in Nat, x \in Place : walk[n + 1][x] = Messages(walk[n], x)
  <1> DEFINE base == [x \in Place |-> << >>]
             step == [w \in Walks |-> [x \in Place |-> Messages(w, x)]]
             Is(f) == f = [n \in Nat |->
                            [x \in Place |-> IF n = 0 THEN << >> ELSE Messages(f[n - 1], x)]]
  <1>1. base \in Walks /\ step \in [Walks -> Walks]
    <2>1. << >> \in Seq(Seq(Byte))
      OBVIOUS
    <2>2. base \in Walks
      BY <2>1 DEF Walks
    <2>3. ASSUME NEW w \in Walks PROVE [x \in Place |-> Messages(w, x)] \in Walks
      BY MessagesTypes DEF Walks
    <2> QED
      BY <2>2, <2>3
  <1>2. PICK g \in [Nat -> Walks] : g = [n \in Nat |-> IF n = 0 THEN base ELSE step[g[n - 1]]]
    <2> HIDE DEF base, step
    <2>1. \E g \in [Nat -> Walks] : Iterates(g, base, step)
      BY <1>1, IteratesExists
    <2> QED
      BY <2>1 DEF Iterates
  <1>3. Is(g)
    <2>1. ASSUME NEW n \in Nat
          PROVE  g[n] = [x \in Place |-> IF n = 0 THEN << >> ELSE Messages(g[n - 1], x)]
      <3>1. g[n] = IF n = 0 THEN base ELSE step[g[n - 1]]
        BY <1>2
      <3>2. CASE n = 0
        BY <3>1, <3>2
      <3>3. CASE n # 0
        <4>1. g[n - 1] \in Walks
          BY <3>3
        <4>2. step[g[n - 1]] = [x \in Place |-> Messages(g[n - 1], x)]
          BY <4>1
        <4> QED
          BY <3>1, <3>3, <4>2
      <3> QED
        BY <3>2, <3>3
    <2>2. g = [n \in Nat |-> g[n]]
      OBVIOUS
    <2> QED
      BY <2>1, <2>2
  <1>4. Is(walk)
    <2>1. walk = CHOOSE f : Is(f)
      BY Zenon DEF walk
    <2> HIDE DEF Is
    <2> QED
      BY <1>3, <2>1
  <1>5. ASSUME NEW n \in Nat, NEW x \in Place
        PROVE  walk[n + 1][x] = Messages(walk[n], x)
    <2>1. n + 1 \in Nat /\ n + 1 # 0 /\ (n + 1) - 1 = n
      OBVIOUS
    <2> QED
      BY <1>4, <2>1
  <1>6. ASSUME NEW n \in Nat PROVE walk[n] \in Walks
    <2> DEFINE T == {k \in Nat : walk[k] \in Walks}
    <2>1. 0 \in T
      <3>1. walk[0] = base
        BY <1>4
      <3> QED
        BY <1>1, <3>1
    <2>2. ASSUME NEW k \in Nat, k \in T PROVE k + 1 \in T
      <3>1. k + 1 \in Nat /\ k + 1 # 0 /\ (k + 1) - 1 = k
        OBVIOUS
      <3>2. walk[k + 1] = [x \in Place |-> Messages(walk[k], x)]
        BY <1>4, <3>1
      <3>3. walk[k + 1] \in Walks
        BY <2>2, <3>2, MessagesTypes DEF Walks
      <3> QED
        BY <3>1, <3>3
    <2> HIDE DEF T
    <2>3. Nat \subseteq T
      BY <2>1, <2>2, NatSetInduction
    <2> QED
      BY <2>3 DEF T
  <1>7. walk = [n \in Nat |-> walk[n]]
    BY <1>4
  <1> QED
    BY <1>5, <1>6, <1>7

\* The functions agree on x from n on.
StableAt(n, x) == \A k \in Nat : walk[n + k][x] = walk[n][x]

\* n is enough for a place from which less than n bytes are left.
LEMMA Stable ==
  ASSUME NEW n \in Nat, NEW d \in Seq(Byte), NEW o \in 0 .. Len(d), Len(d) - o < n
  PROVE  StableAt(n, <<d, o>>)
  <1> DEFINE T == {m \in Nat : \A e \in Seq(Byte) : \A p \in 0 .. Len(e) :
                                 Len(e) - p < m => StableAt(m, <<e, p>>)}
  <1>1. 0 \in T
    OBVIOUS
  <1>2. ASSUME NEW m \in Nat, m \in T PROVE m + 1 \in T
    <2> SUFFICES ASSUME NEW e \in Seq(Byte), NEW p \in 0 .. Len(e), Len(e) - p < m + 1
                 PROVE  StableAt(m + 1, <<e, p>>)
      OBVIOUS
    <2> SUFFICES ASSUME NEW k \in Nat
                 PROVE  walk[(m + 1) + k][<<e, p>>] = walk[m + 1][<<e, p>>]
      BY DEF StableAt
    <2>0. Len(e) \in Nat /\ p \in Nat /\ m + k \in Nat /\ (m + k) + 1 = (m + 1) + k
          /\ <<e, p>> \in Place
      BY DEF Place
    <2>1. /\ walk[(m + 1) + k][<<e, p>>] = Messages(walk[m + k], <<e, p>>)
          /\ walk[m + 1][<<e, p>>] = Messages(walk[m], <<e, p>>)
      BY <2>0, WalkExists
    <2>2. ASSUME NEW w
          PROVE  Messages(w, <<e, p>>) =
            IF ~Fits(e, p) THEN << >>
            ELSE (IF PartSize(e, p) < 4 THEN << >> ELSE Message(w, Part(e, p)))
                 \o w[<<e, Behind(e, p)>>]
      BY DEF Messages
    <2>3. CASE ~Fits(e, p)
      BY <2>1, <2>2, <2>3
    <2>4. CASE Fits(e, p)
      <3>1. /\ PartSize(e, p) \in Nat /\ Behind(e, p) = p + 4 + PartSize(e, p)
            /\ Behind(e, p) \in Nat /\ Behind(e, p) <= Len(e)
            /\ Part(e, p) \in Seq(Byte) /\ Len(Part(e, p)) = PartSize(e, p)
        BY <2>0, <2>4, PartFacts DEF Fits
      <3>2. walk[m + k][<<e, Behind(e, p)>>] = walk[m][<<e, Behind(e, p)>>]
        <4> DEFINE b == Behind(e, p)
                   z == PartSize(e, p)
        <4>1. z \in Nat /\ b = p + 4 + z /\ b <= Len(e)
          BY <3>1
        <4> HIDE DEF b, z
        <4>2. b \in 0 .. Len(e) /\ Len(e) - b < m
          BY <2>0, <4>1
        <4>3. StableAt(m, <<e, b>>)
          BY <1>2, <4>2
        <4> QED
          BY <4>3 DEF StableAt, b
      <3>3. walk[m + k][<<Unpacked(Part(e, p)), 0>>] = walk[m][<<Unpacked(Part(e, p)), 0>>]
        <4> DEFINE u == Unpacked(Part(e, p))
        <4>1. u \in Seq(Byte) /\ Len(u) <= Len(Part(e, p))
          BY <3>1, UnpackedFacts
        <4> HIDE DEF u
        <4>2. 0 \in 0 .. Len(u) /\ Len(u) - 0 < m
          BY <2>0, <3>1, <4>1
        <4>3. StableAt(m, <<u, 0>>)
          BY <1>2, <4>1, <4>2
        <4> QED
          BY <4>3 DEF StableAt, u
      <3>4. Message(walk[m + k], Part(e, p)) = Message(walk[m], Part(e, p))
        BY <3>3 DEF Message
      <3> QED
        BY <2>1, <2>2, <2>4, <3>2, <3>4
    <2> QED
      BY <2>3, <2>4
  <1>3. Nat \subseteq T
    <2> HIDE DEF T
    <2> QED
      BY <1>1, <1>2, NatSetInduction
  <1>4. n \in T
    BY <1>3
  <1> QED
    BY <1>4

\* Walk, as its recursion goes.
LEMMA WalkFacts ==
  ASSUME NEW d \in Seq(Byte), NEW o \in 0 .. Len(d)
  PROVE  /\ Walk(d, o) \in Seq(Seq(Byte))
         /\ ~Fits(d, o) => Walk(d, o) = << >>
         /\ Fits(d, o) =>
              Walk(d, o) = (IF PartSize(d, o) < 4 THEN << >> ELSE Arriving(Part(d, o)))
                           \o Walk(d, Behind(d, o))
  <1> DEFINE n == Len(d)
  <1>0. n \in Nat /\ o \in Nat /\ o <= n /\ <<d, o>> \in Place
    BY DEF Place
  <1>1. Walk(d, o) = Messages(walk[n], <<d, o>>)
    <2>1. Walk(d, o) = walk[n + 1][<<d, o>>]
      BY DEF Walk
    <2> QED
      BY <1>0, <2>1, WalkExists
  <1>2. Walk(d, o) \in Seq(Seq(Byte))
    BY <1>0, <1>1, WalkExists, MessagesTypes
  <1>3. Messages(walk[n], <<d, o>>) =
          IF ~Fits(d, o) THEN << >>
          ELSE (IF PartSize(d, o) < 4 THEN << >> ELSE Message(walk[n], Part(d, o)))
               \o walk[n][<<d, Behind(d, o)>>]
    BY DEF Messages
  <1>4. ASSUME Fits(d, o)
        PROVE  /\ walk[n][<<d, Behind(d, o)>>] = Walk(d, Behind(d, o))
               /\ Message(walk[n], Part(d, o)) = Arriving(Part(d, o))
    <2>1. /\ PartSize(d, o) \in Nat /\ Behind(d, o) = o + 4 + PartSize(d, o)
          /\ Behind(d, o) \in Nat /\ Behind(d, o) <= n
          /\ Part(d, o) \in Seq(Byte) /\ Len(Part(d, o)) = PartSize(d, o)
      BY <1>0, <1>4, PartFacts DEF Fits
    <2>2. walk[n][<<d, Behind(d, o)>>] = Walk(d, Behind(d, o))
      <3>1. Behind(d, o) \in 0 .. Len(d) /\ Len(d) - Behind(d, o) < n
        BY <1>0, <2>1
      <3>2. StableAt(n, <<d, Behind(d, o)>>)
        BY <1>0, <3>1, Stable
      <3> QED
        BY <3>2 DEF StableAt, Walk
    <2> DEFINE u == Unpacked(Part(d, o))
    <2>3. u \in Seq(Byte) /\ Len(u) <= Len(Part(d, o))
      BY <2>1, UnpackedFacts
    <2> HIDE DEF u
    <2>4. walk[n][<<u, 0>>] = Walk(u, 0)
      <3>1. /\ 0 \in 0 .. Len(u) /\ Len(u) - 0 < Len(u) + 1 /\ Len(u) + 1 \in Nat
            /\ n - (Len(u) + 1) \in Nat /\ (Len(u) + 1) + (n - (Len(u) + 1)) = n
        BY <1>0, <2>1, <2>3
      <3>2. StableAt(Len(u) + 1, <<u, 0>>)
        BY <2>3, <3>1, Stable
      <3>3. walk[(Len(u) + 1) + (n - (Len(u) + 1))][<<u, 0>>] = walk[Len(u) + 1][<<u, 0>>]
        BY <3>1, <3>2 DEF StableAt
      <3> QED
        BY <3>1, <3>3 DEF Walk
    <2> QED
      BY <2>2, <2>4 DEF Message, Arriving, u
  <1> QED
    BY <1>1, <1>2, <1>3, <1>4

\* What arrives are frames.
LEMMA ArrivingType ==
  ASSUME NEW d \in Seq(Byte)
  PROVE  Arriving(d) \in Seq(Seq(Byte))
  <1> DEFINE U == Seq(Byte)
             u == Unpacked(d)
  <1>1. u \in Seq(Byte) /\ 0 \in 0 .. Len(u)
    BY UnpackedFacts
  <1> HIDE DEF u
  <1>2. Walk(u, 0) \in Seq(U) /\ d \in U
    BY <1>1, WalkFacts
  <1> HIDE DEF U
  <1>3. <<d>> \o Walk(u, 0) \in Seq(U) /\ << >> \in Seq(U)
    BY <1>2
  <1> QED
    BY <1>3 DEF Arriving, U, u

\* The frames that have been received so far, and what is in some frames.
Received == SubSeq(script, 1, Len(script) - Len(rx))
ArrivingIn == [f \in Frame |-> Arriving(f.bytes)]
AllIn(fs) == FlatMapped(ArrivingIn, fs)

\* What the calls under way have yet to dispatch, the innermost first.
PendingIn == [c \in Call |-> IF c.call = "consume" THEN Arriving(c.data) ELSE Walk(c.data, c.offset)]
Pending(s) == FlatMapped(PendingIn, Reverse(s))

\* The frames come from the script, and what they have in them is in the log or
\* pending; the frame that ends the process is lost, and nothing else.
ScriptInv ==
  /\ script \in Seq(Frame)
  /\ Len(rx) <= Len(script)
  /\ \A i \in 1 .. Len(rx) : rx[i] = script[Len(script) - Len(rx) + i]
LogInv ==
  IF crashed
    THEN /\ stack = << >> /\ Received # << >> /\ log = AllIn(Front(Received))
         /\ channel_secured_ /\ ~Decrypts(Last(Received))
    ELSE log \o Pending(stack) = AllIn(Received)

\* The channel is secured by a result.
SecuredInv ==
  channel_secured_ => \E i \in 1 .. Len(log) : U32Value(log[i]) = ChannelEncryptResult

\* Walk's type at any offset.
LEMMA WalkType ==
  ASSUME NEW d \in Seq(Byte), NEW o \in Nat
  PROVE  Walk(d, o) \in Seq(Seq(Byte))
  <1>1. Len(d) + 1 \in Nat /\ <<d, o>> \in Place
    BY DEF Place
  <1> QED
    BY <1>1, WalkExists DEF Walk, Walks

\* The types of both functions.
LEMMA ArrivingTypes ==
  /\ MapsInto(ArrivingIn, Frame, Seq(Seq(Byte)))
  /\ MapsInto(PendingIn, Call, Seq(Seq(Byte)))
  <1>1. \A f \in Frame : ArrivingIn[f] \in Seq(Seq(Byte))
    BY ArrivingType DEF ArrivingIn, Frame
  <1>2. \A c \in Call : PendingIn[c] \in Seq(Seq(Byte))
    BY ArrivingType, WalkType DEF PendingIn, Call
  <1> QED
    BY <1>1, <1>2 DEF MapsInto

\* A call is made: it comes first.
LEMMA PendingPushed ==
  ASSUME NEW s \in Seq(Call), NEW c \in Call
  PROVE  /\ Pending(<< >>) = << >>
         /\ Pending(s) \in Seq(Seq(Byte)) /\ PendingIn[c] \in Seq(Seq(Byte))
         /\ Pending(Append(s, c)) = PendingIn[c] \o Pending(s)
  <1> DEFINE r == Reverse(s)
             t == Append(s, c)
             U == Seq(Seq(Byte))
             m == Mapped(PendingIn, r)
  <1>0. \A e \in Call : PendingIn[e] \in U
    BY ArrivingTypes DEF MapsInto
  <1>1. r \in Seq(Call) /\ Len(r) = Len(s) /\ Len(s) \in Nat
        /\ \A i \in 1 .. Len(s) : r[i] = s[Len(s) - i + 1]
    BY DEF Reverse
  <1>2. /\ t \in Seq(Call) /\ Len(t) = Len(s) + 1 /\ t[Len(s) + 1] = c
        /\ \A i \in 1 .. Len(s) : t[i] = s[i]
    BY Appended
  <1> HIDE DEF r, t
  <1>3. Mapped(PendingIn, Reverse(t)) = <<PendingIn[c]>> \o m
    <2> DEFINE x == PendingIn[c]
               p == <<x>>
               q == Mapped(PendingIn, Reverse(t))
    <2> HIDE DEF U
    <2>1. x \in U
      BY <1>0
    <2> HIDE DEF x
    <2>2. p \in Seq(U) /\ Len(p) = 1 /\ p[1] = x
      BY <2>1
    <2>3. m \in Seq(U) /\ Len(m) = Len(s) /\ \A i \in 1 .. Len(s) : m[i] = PendingIn[r[i]]
      <3>1. MapsInto(PendingIn, Call, U)
        BY <1>0 DEF MapsInto
      <3>2. m \in Seq(U) /\ Len(m) = Len(r)
        BY <1>1, <3>1, MappedType
      <3>3. \A i \in 1 .. Len(r) : m[i] = PendingIn[r[i]]
        BY DEF Mapped
      <3> QED
        BY <1>1, <3>2, <3>3
    <2> HIDE DEF p, m
    <2>4. /\ p \o m \in Seq(U) /\ Len(p \o m) = Len(s) + 1
          /\ (p \o m)[1] = x
          /\ \A i \in 1 .. Len(s) : (p \o m)[1 + i] = m[i]
      <3>1. /\ p \o m \in Seq(U) /\ Len(p \o m) = Len(p) + Len(m)
            /\ \A i \in 1 .. Len(p) : (p \o m)[i] = p[i]
            /\ \A i \in 1 .. Len(m) : (p \o m)[Len(p) + i] = m[i]
        <4>1. p \in Seq(U) /\ m \in Seq(U)
          BY <2>2, <2>3
        <4> QED
          BY ONLY <4>1, Concatenated
      <3> QED
        BY <1>1, <2>2, <2>3, <3>1
    <2>5. q = [i \in 1 .. Len(s) + 1 |-> PendingIn[t[Len(s) + 1 - i + 1]]]
      <3>1. Reverse(t) = [i \in 1 .. Len(s) + 1 |-> t[Len(s) + 1 - i + 1]]
        BY <1>2 DEF Reverse
      <3>2. Len(Reverse(t)) = Len(s) + 1
        BY <1>1, <3>1
      <3> QED
        BY <3>1, <3>2 DEF Mapped
    <2>6. q \in Seq(U) /\ Len(q) = Len(s) + 1
      <3>1. \A i \in 1 .. Len(s) + 1 : Len(s) + 1 - i + 1 \in 1 .. Len(t)
        BY <1>1, <1>2
      <3>2. \A i \in 1 .. Len(s) + 1 : PendingIn[t[Len(s) + 1 - i + 1]] \in U
        BY <1>0, <1>2, <3>1
      <3> QED
        BY <1>1, <2>5, <3>2
    <2>7. q[1] = x
      BY <1>1, <1>2, <2>5 DEF x
    <2>8. ASSUME NEW i \in 1 .. Len(s) PROVE q[1 + i] = m[i]
      <3>1. 1 + i \in 1 .. Len(s) + 1 /\ Len(s) + 1 - (1 + i) + 1 = Len(s) - i + 1
            /\ Len(s) - i + 1 \in 1 .. Len(s)
        BY <1>1
      <3>2. q[1 + i] = PendingIn[t[Len(s) + 1 - (1 + i) + 1]]
        BY <2>5, <3>1
      <3>3. t[Len(s) - i + 1] = s[Len(s) - i + 1] /\ r[i] = s[Len(s) - i + 1]
        BY <1>1, <1>2, <3>1
      <3>4. q[1 + i] = PendingIn[r[i]]
        BY <3>1, <3>2, <3>3
      <3> QED
        BY <2>3, <3>4
    <2>9. \A i \in 1 .. Len(s) + 1 : q[i] = (p \o m)[i]
      <3>1. ASSUME NEW i \in 1 .. Len(s) + 1 PROVE i = 1 \/ (i - 1 \in 1 .. Len(s) /\ 1 + (i - 1) = i)
        BY <1>1
      <3> QED
        BY <2>4, <2>7, <2>8, <3>1
    <2> HIDE DEF q
    <2>10. q = p \o m
      BY <2>4, <2>6, <2>9, SeqEqual
    <2> QED
      BY <2>10 DEF q, p, x
  <1>4. m \in Seq(Seq(Seq(Byte))) /\ PendingIn[c] \in Seq(Seq(Byte))
    <2>1. m \in Seq(U)
      <3> HIDE DEF U
      <3>1. MapsInto(PendingIn, Call, U)
        BY <1>0 DEF MapsInto
      <3> QED
        BY <1>1, <3>1, MappedType
    <2> QED
      BY <1>0, <2>1
  <1>5. FlattenSeq(<<PendingIn[c]>> \o m) = PendingIn[c] \o FlattenSeq(m)
    <2> DEFINE S == Seq(Byte)
               x == PendingIn[c]
    <2>1. m \in Seq(Seq(S)) /\ x \in Seq(S)
      BY <1>4
    <2> HIDE DEF S, x, m
    <2>2. FlattenSeq(<<x>> \o m) = x \o FlattenSeq(m)
      BY <2>1, FlattenFirst
    <2> QED
      BY <2>2 DEF x
  <1>6. Pending(t) = FlattenSeq(<<PendingIn[c]>> \o m)
    BY <1>3 DEF Pending, FlatMapped
  <1>7. Pending(s) = FlattenSeq(m)
    BY DEF Pending, FlatMapped, r
  <1>8. Pending(<< >>) = << >>
    <2>1. Reverse(<< >>) = << >>
      BY DEF Reverse
    <2> DEFINE S == Seq(Byte)
    <2>2. MapsInto(PendingIn, Call, Seq(S)) /\ << >> \in Seq(Call)
      BY ArrivingTypes
    <2> HIDE DEF S
    <2>3. FlatMapped(PendingIn, << >>) = << >>
      BY <2>2, FlatMappedFacts
    <2> QED
      BY <2>1, <2>3 DEF Pending
  <1>9. FlattenSeq(m) \in Seq(Seq(Byte))
    <2> DEFINE S == Seq(Byte)
    <2>1. m \in Seq(Seq(S))
      BY <1>4
    <2> HIDE DEF S, m
    <2>2. FlattenSeq(m) \in Seq(S)
      BY <2>1, FlattenFacts
    <2> QED
      BY <2>2 DEF S
  <1> QED
    BY <1>4, <1>5, <1>6, <1>7, <1>8, <1>9 DEF t

\* One more frame.
LEMMA AllInAppended ==
  ASSUME NEW fs \in Seq(Frame)
  PROVE  /\ AllIn(<< >>) = << >> /\ AllIn(fs) \in Seq(Seq(Byte))
         /\ \A f \in Frame : AllIn(Append(fs, f)) = AllIn(fs) \o Arriving(f.bytes)
  <1> DEFINE S == Seq(Byte)
  <1>1. MapsInto(ArrivingIn, Frame, Seq(S))
    BY ArrivingTypes
  <1> HIDE DEF S
  <1>2. /\ FlatMapped(ArrivingIn, << >>) = << >> /\ FlatMapped(ArrivingIn, fs) \in Seq(S)
        /\ \A f \in Frame : FlatMapped(ArrivingIn, Append(fs, f)) = FlatMapped(ArrivingIn, fs) \o ArrivingIn[f]
    BY <1>1, FlatMappedFacts
  <1>3. \A f \in Frame : ArrivingIn[f] = Arriving(f.bytes)
    BY DEF ArrivingIn
  <1> QED
    BY <1>2, <1>3 DEF AllIn, S

\* A plaintext of less than four bytes has nothing in it.
LEMMA ShortHasNothing ==
  ASSUME NEW d \in Seq(Byte), Len(d) < 8
  PROVE  ~Reaches(d) /\ Arriving(d) = << >> /\ Unpacked(d) = << >>
  <1>1. ~IsProto(d)
    BY DEF IsProto
  <1>2. ~(Len(d) >= MsgHdrSize)
    <2>1. Len(d) \in Nat
      OBVIOUS
    <2> QED
      BY <2>1, Sizes
  <1>3. ~Reaches(d)
    BY <1>1, <1>2 DEF Reaches
  <1> QED
    BY <1>1, <1>3 DEF Arriving, Unpacked

\* The type of a message, and its first four bytes.
LEMMA SameType ==
  ASSUME NEW d \in Seq(Byte), Len(d) >= 8,
         NEW emsg \in Seq(Byte), Len(emsg) = 4, \A i \in 1 .. 4 : emsg[i] = d[i]
  PROVE  /\ is_encryption_msg(emsg) <=> is_encryption_msg(d)
         /\ is_protobuf_msg(emsg) <=> is_protobuf_msg(d)
         /\ get_msg(emsg) = get_msg(d)
         /\ ~(is_encryption_msg(d) /\ is_protobuf_msg(d))
  <1>0. Len(d) \in Nat
    OBVIOUS
  <1>1. emsg[1] = d[1] /\ emsg[2] = d[2] /\ emsg[3] = d[3] /\ emsg[4] = d[4]
    OBVIOUS
  <1>2. U32Value(emsg) = U32Value(d)
    BY <1>1 DEF U32Value
  <1>3. get_msg(emsg) = get_msg(d)
    <2> DEFINE a == [emsg EXCEPT ![4] = @ % 128]
               b == [d EXCEPT ![4] = @ % 128]
    <2>1. a[1] = emsg[1] /\ a[2] = emsg[2] /\ a[3] = emsg[3] /\ a[4] = emsg[4] % 128
      OBVIOUS
    <2>2. b[1] = d[1] /\ b[2] = d[2] /\ b[3] = d[3] /\ b[4] = d[4] % 128
      BY <1>0
    <2>3. U32Value(a) = U32Value(b)
      <3> HIDE DEF a, b
      <3> QED
        BY <1>1, <2>1, <2>2 DEF U32Value
    <2> QED
      BY <2>3 DEF get_msg
  <1>4. ASSUME is_protobuf_msg(d) PROVE ~is_encryption_msg(d)
    <2>1. d[4] # 0
      BY <1>4 DEF is_protobuf_msg
    <2>2. U32Value(d) = Huge
      BY <2>1 DEF U32Value
    <2> QED
      BY <2>2 DEF is_encryption_msg, Huge, ChannelEncryptRequest, ChannelEncryptResponse,
         ChannelEncryptResult
  <1> QED
    BY <1>1, <1>2, <1>3, <1>4 DEF is_encryption_msg, is_protobuf_msg

\* handle_multi calls on what the Multi has its parts in, if there is any.
LEMMA MultiGives ==
  ASSUME NEW d, IsProto(d), get_msg(d) = Multi, handle_multi(ProtoBody(d))
  PROVE  \/ stack' = Append(Front(stack), Unpacking(Unpacked(d)))
         \/ stack' = Front(stack) /\ Unpacked(d) = << >>
  <1> DEFINE body == ProtoBody(d)
             b == MessageBody(body)
  <1>1. stack' = IF SizeUnzipped(body) = 0 THEN Append(Front(stack), Unpacking(b))
                 ELSE IF Gunzips(b) THEN Append(Front(stack), Unpacking(Gunzip(b)))
                 ELSE Front(stack)
    BY Zenon DEF handle_multi
  <1>2. Unpacked(d) = IF ~(IsProto(d) /\ get_msg(d) = Multi) THEN << >>
                      ELSE IF SizeUnzipped(body) = 0 THEN b
                      ELSE IF Gunzips(b) THEN Gunzip(b)
                      ELSE << >>
    BY Zenon DEF Unpacked
  <1> HIDE DEF body, b
  <1> QED
    BY <1>1, <1>2

\* dispatch_msg: the message is logged, and no call is made.
LEMMA MsgGives ==
  ASSUME NEW d,
         U32Value(d) \in {ChannelEncryptRequest, ChannelEncryptResponse, ChannelEncryptResult},
         dispatch_msg(U32Value(d), d)
  PROVE  /\ log' = Append(log, d) /\ stack' = Front(stack)
         /\ channel_secured_' => channel_secured_ \/ U32Value(d) = ChannelEncryptResult
  <1> DEFINE body == SubSeq(d, MsgHdrSize + 1, Len(d))
  <1>1. /\ log' = Append(log, d)
        /\ \/ U32Value(d) = ChannelEncryptRequest /\ handle_encrypt_request(body)
           \/ U32Value(d) = ChannelEncryptResult /\ handle_encrypt_result(body)
           \/ U32Value(d) = ChannelEncryptResponse /\ Elsewhere
    BY MsgCases
  <1> HIDE DEF body
  <1>2. stack' = Front(stack)
    BY <1>1 DEF handle_encrypt_request, handle_encrypt_result, Elsewhere
  <1>3. U32Value(d) = ChannelEncryptResult \/ channel_secured_' = channel_secured_
    BY <1>1 DEF handle_encrypt_request, Elsewhere
  <1> QED
    BY <1>1, <1>2, <1>3

\* A plaintext that does not reach a handler is passed over; any other is logged,
\* and the parts of a Multi come next.
Dispatches(d) ==
  /\ \/ ~Reaches(d) /\ log' = log /\ stack' = Front(stack)
     \/ /\ Reaches(d) /\ log' = Append(log, d)
        /\ \/ stack' = Append(Front(stack), Unpacking(Unpacked(d)))
           \/ stack' = Front(stack) /\ Unpacked(d) = << >>
  /\ \/ channel_secured_' => channel_secured_
     \/ U32Value(d) = ChannelEncryptResult /\ log' = Append(log, d)

\* Dispatch, whatever lies behind a short plaintext.
LEMMA DispatchGives ==
  ASSUME TypeInv, Dispatch
  PROVE  /\ stack # << >> /\ Last(stack).call = "consume"
         /\ UNCHANGED <<rx, crashed, script>>
         /\ Dispatches(Last(stack).data)
  <1> DEFINE d == Last(stack).data
  <1>1. stack # << >> /\ Last(stack).call = "consume" /\ UNCHANGED <<rx, crashed, script>>
    BY DEF Dispatch
  <1>2. d \in Seq(Byte) /\ Len(d) \in Nat
    BY <1>1, Returned DEF TypeInv, Call
  <1>3. PICK stray \in [1 .. (IF Len(d) < 4 THEN 4 - Len(d) ELSE 0) -> StrayByte] :
          LET emsg == SubSeq(d \o stray, 1, 4)
          IN \/ /\ is_encryption_msg(emsg)
                /\ Len(d) >= MsgHdrSize
                /\ dispatch_msg(U32Value(emsg), d)
             \/ /\ ~is_encryption_msg(emsg)
                /\ is_protobuf_msg(emsg)
                /\ ProtoHeaderReads(d)
                /\ dispatch_proto(get_msg(emsg), d)
             \/ /\ IF is_encryption_msg(emsg) THEN Len(d) < MsgHdrSize
                   ELSE is_protobuf_msg(emsg) => ~ProtoHeaderReads(d)
                /\ Elsewhere
                /\ UNCHANGED log
    BY DEF Dispatch
  <1> HIDE DEF d
  <1> DEFINE emsg == SubSeq(d \o stray, 1, 4)
  <1>4. /\ emsg \in Seq(Byte) /\ Len(emsg) = 4
        /\ Len(d) >= 4 =>
             (\A i \in 1 .. 4 : emsg[i] = d[i]) /\ U32Value(emsg) = U32Value(d)
    BY <1>2, Type
  <1>5. \/ is_encryption_msg(emsg) /\ Len(d) >= MsgHdrSize /\ dispatch_msg(U32Value(emsg), d)
        \/ is_protobuf_msg(emsg) /\ ProtoHeaderReads(d) /\ dispatch_proto(get_msg(emsg), d)
        \/ /\ IF is_encryption_msg(emsg) THEN Len(d) < MsgHdrSize
              ELSE is_protobuf_msg(emsg) => ~ProtoHeaderReads(d)
           /\ Elsewhere
           /\ UNCHANGED log
    BY <1>3, Zenon
  <1> HIDE DEF emsg
  <1>6. ASSUME Len(d) >= 8
        PROVE  /\ is_encryption_msg(emsg) <=> is_encryption_msg(d)
               /\ is_protobuf_msg(emsg) <=> is_protobuf_msg(d)
               /\ get_msg(emsg) = get_msg(d)
               /\ ~(is_encryption_msg(d) /\ is_protobuf_msg(d))
               /\ U32Value(emsg) = U32Value(d)
    <2>1. (\A i \in 1 .. 4 : emsg[i] = d[i]) /\ U32Value(emsg) = U32Value(d)
      BY <1>2, <1>4, <1>6
    <2> QED
      BY <1>2, <1>4, <1>6, <2>1, SameType
  <1>7. CASE is_encryption_msg(emsg) /\ Len(d) >= MsgHdrSize /\ dispatch_msg(U32Value(emsg), d)
    <2>1. Len(d) >= 8
      BY <1>2, <1>7, Sizes
    <2>2. /\ U32Value(emsg) = U32Value(d) /\ is_encryption_msg(d) /\ ~IsProto(d)
      BY <1>6, <1>7, <2>1 DEF IsProto
    <2>3. U32Value(d) \in {ChannelEncryptRequest, ChannelEncryptResponse, ChannelEncryptResult}
      BY <2>2 DEF is_encryption_msg
    <2>4. /\ log' = Append(log, d) /\ stack' = Front(stack)
          /\ channel_secured_' => channel_secured_ \/ U32Value(d) = ChannelEncryptResult
      BY <1>7, <2>2, <2>3, MsgGives
    <2>5. Reaches(d) /\ Unpacked(d) = << >>
      BY <1>7, <2>2 DEF Reaches, Unpacked
    <2> QED
      BY <1>1, <2>4, <2>5 DEF Dispatches, d
  <1>8. CASE is_protobuf_msg(emsg) /\ ProtoHeaderReads(d) /\ dispatch_proto(get_msg(emsg), d)
    <2>1. Len(d) >= 8
      BY <1>2, <1>8, HeaderLengthFacts
    <2>2. IsProto(d) /\ ~is_encryption_msg(d) /\ dispatch_proto(get_msg(d), d)
      BY <1>6, <1>8, <2>1 DEF IsProto
    <2>3. /\ log' = IF get_msg(d) <= MAX_EMSG THEN Append(log, d) ELSE log
          /\ IF get_msg(d) = Multi THEN handle_multi(ProtoBody(d)) ELSE Elsewhere
      BY <2>2 DEF dispatch_proto
    <2>4. Reaches(d) <=> get_msg(d) <= MAX_EMSG
      BY <2>2 DEF Reaches
    <2>5. channel_secured_' = channel_secured_
      BY <2>3 DEF handle_multi, Elsewhere
    <2>6. CASE get_msg(d) = Multi
      <3>1. get_msg(d) <= MAX_EMSG
        BY <2>6 DEF Multi, MAX_EMSG
      <3>2. \/ stack' = Append(Front(stack), Unpacking(Unpacked(d)))
            \/ stack' = Front(stack) /\ Unpacked(d) = << >>
        BY <2>2, <2>3, <2>6, MultiGives
      <3> QED
        BY <1>1, <2>3, <2>4, <2>5, <3>1, <3>2 DEF Dispatches, d
    <2>7. CASE get_msg(d) # Multi
      <3>1. stack' = Front(stack) /\ Unpacked(d) = << >>
        BY <2>3, <2>7 DEF Elsewhere, Unpacked
      <3> QED
        BY <1>1, <2>3, <2>4, <2>5, <3>1 DEF Dispatches, d
    <2> QED
      BY <2>6, <2>7
  <1>9. CASE /\ IF is_encryption_msg(emsg) THEN Len(d) < MsgHdrSize
                ELSE is_protobuf_msg(emsg) => ~ProtoHeaderReads(d)
             /\ Elsewhere
             /\ UNCHANGED log
    <2>1. ~Reaches(d)
      <3>1. CASE Len(d) < 8
        BY <1>2, <3>1, ShortHasNothing
      <3>2. CASE Len(d) >= 8
        <4>1. CASE is_encryption_msg(d)
          <5>1. Len(d) < MsgHdrSize /\ ~is_protobuf_msg(d)
            BY <1>6, <1>9, <3>2, <4>1
          <5>2. ~(Len(d) >= MsgHdrSize)
            BY <1>2, <5>1, Sizes
          <5> QED
            BY <5>1, <5>2 DEF Reaches, IsProto
        <4>2. CASE ~is_encryption_msg(d)
          BY <1>6, <1>9, <3>2, <4>2 DEF Reaches, IsProto
        <4> QED
          BY <4>1, <4>2
      <3> QED
        BY <1>2, <3>1, <3>2
    <2> QED
      BY <1>1, <1>9, <2>1 DEF Dispatches, Elsewhere, d
  <1> QED
    BY <1>5, <1>7, <1>8, <1>9

\* A plaintext is dispatched: it moves from what is pending to the log.
LEMMA DispatchLogs ==
  ASSUME TypeInv, LogInv, ~crashed, Dispatch
  PROVE  LogInv'
  <1> DEFINE d == Last(stack).data
             K == Front(stack)
             u == Unpacked(d)
             S == Seq(Byte)
  <1>1. /\ stack # << >> /\ Last(stack).call = "consume" /\ UNCHANGED <<rx, crashed, script>>
        /\ Dispatches(d)
    BY DispatchGives
  <1>2. /\ K \in Seq(Call) /\ Last(stack) \in Call /\ stack = Append(K, Last(stack))
    <2>1. stack \in Seq(Call)
      BY DEF TypeInv, Nested
    <2> QED
      BY <1>1, <2>1, FrontAndLast
  <1>3. d \in S
    BY <1>2 DEF Call
  <1>4. PendingIn[Last(stack)] = Arriving(d)
    BY <1>1, <1>2 DEF PendingIn
  <1> HIDE DEF K
  <1>5. /\ Pending(stack) = Arriving(d) \o Pending(K)
        /\ Pending(K) \in Seq(S)
    BY <1>2, <1>4, PendingPushed
  <1> HIDE DEF d
  <1>6. Arriving(d) = IF Reaches(d) THEN <<d>> \o Walk(u, 0) ELSE << >>
    BY DEF Arriving
  <1>7. u \in S /\ Walk(u, 0) \in Seq(S) /\ (u = << >> => Walk(u, 0) = << >>)
    <2>1. u \in Seq(Byte) /\ 0 \in 0 .. Len(u)
      BY <1>3, UnpackedFacts
    <2> HIDE DEF u
    <2>2. u = << >> => ~Fits(u, 0)
      BY DEF Fits
    <2> QED
      BY <2>1, <2>2, WalkFacts
  <1>8. /\ Unpacking(u) \in Call /\ PendingIn[Unpacking(u)] = Walk(u, 0)
    <2>1. Unpacking(u) \in Call
      BY <1>7, CallTypes
    <2> HIDE DEF u
    <2> QED
      BY <2>1 DEF PendingIn, Unpacking
  <1>9. log \in Seq(S) /\ log \o Pending(stack) = AllIn(Received)
    BY DEF TypeInv, LogInv
  <1>10. Received' = Received /\ ~crashed'
    BY <1>1 DEF Received
  <1> DEFINE w == Walk(u, 0)
             p == Pending(K)
  <1>11. Pending(Append(K, Unpacking(u))) = w \o p
    BY <1>2, <1>8, PendingPushed
  <1>12. CASE ~Reaches(d) /\ log' = log /\ stack' = K
    <2>1. Pending(stack) = << >> \o p
      BY <1>5, <1>6, <1>12
    <2>2. << >> \o p = p
      <3> HIDE DEF p, S
      <3> QED
        BY <1>5 DEF p
    <2>3. AllIn(Received)' = AllIn(Received)
      BY <1>10
    <2>4. log' \o Pending(stack') = AllIn(Received')
      BY <1>9, <1>10, <1>12, <2>1, <2>2, <2>3
    <2> QED
      BY <1>10, <2>4 DEF LogInv
  <1>13. CASE Reaches(d) /\ log' = Append(log, d) /\ (stack' = Append(K, Unpacking(u)) \/ (stack' = K /\ u = << >>))
    <2>1. Pending(stack') = w \o p
      <3>1. CASE stack' = Append(K, Unpacking(u))
        BY <1>11, <3>1
      <3>2. CASE stack' = K /\ u = << >>
        <4>1. << >> \o p = p
          <5> HIDE DEF p, S
          <5> QED
            BY <1>5 DEF p
        <4> QED
          BY <1>7, <3>2, <4>1
      <3> QED
        BY <1>13, <3>1, <3>2
    <2>2. Pending(stack) = (<<d>> \o w) \o p
      BY <1>5, <1>6, <1>13
    <2>3. Append(log, d) \o (w \o p) = log \o ((<<d>> \o w) \o p)
      <3>1. w \in Seq(S) /\ p \in Seq(S) /\ log \in Seq(S) /\ d \in S
        BY <1>3, <1>5, <1>7, <1>9
      <3> HIDE DEF w, p, S
      <3>2. Append(log, d) = log \o <<d>> /\ <<d>> \in Seq(S) /\ w \o p \in Seq(S)
        BY <3>1
      <3> DEFINE c == <<d>>
                 r == w \o p
      <3>3. (log \o c) \o r = log \o (c \o r)
        <4>1. log \in Seq(S) /\ c \in Seq(S) /\ r \in Seq(S)
          BY <3>1, <3>2
        <4> HIDE DEF c, r
        <4> QED
          BY ONLY <4>1, Associative
      <3>4. (c \o w) \o p = c \o (w \o p)
        <4>1. c \in Seq(S) /\ w \in Seq(S) /\ p \in Seq(S)
          BY <3>1, <3>2
        <4> HIDE DEF c
        <4> QED
          BY ONLY <4>1, Associative
      <3> QED
        BY <3>2, <3>3, <3>4
    <2>4. log' \o Pending(stack') = AllIn(Received')
      BY <1>9, <1>10, <1>13, <2>1, <2>2, <2>3
    <2> QED
      BY <1>10, <2>4 DEF LogInv
  <1>14. \/ ~Reaches(d) /\ log' = log /\ stack' = K
         \/ /\ Reaches(d) /\ log' = Append(log, d)
            /\ \/ stack' = Append(K, Unpacking(u))
               \/ stack' = K /\ u = << >>
    BY <1>1 DEF Dispatches, K
  <1> QED
    BY <1>12, <1>13, <1>14

\* A part is taken out of a Multi: it comes before what is behind it.
LEMMA ReadLogs ==
  ASSUME TypeInv, LogInv, ~crashed, read_frame
  PROVE  LogInv'
  <1> DEFINE c == Last(stack)
             d == c.data
             o == c.offset
             K == Front(stack)
             waiting == [c EXCEPT !.offset = Behind(d, o)]
             S == Seq(Byte)
  <1>1. stack # << >> /\ c.call = "multi" /\ UNCHANGED <<rx, crashed, script, log, channel_secured_>>
    BY DEF read_frame
  <1>2. /\ K \in Seq(Call) /\ c \in Call /\ stack = Append(K, c) /\ InData(c)
    <2>1. stack \in Seq(Call) /\ InData(c)
      BY <1>1, Returned DEF TypeInv, Nested
    <2> QED
      BY <1>1, <2>1, FrontAndLast
  <1>3. d \in S /\ o \in 0 .. Len(d) /\ o \in Nat /\ Len(d) \in Nat
    BY <1>2 DEF Call, InData
  <1>4. \/ ~Fits(d, o) /\ stack' = K
        \/ /\ Fits(d, o)
           /\ stack' = IF PartSize(d, o) < 4 THEN Append(K, waiting)
                       ELSE Append(Append(K, waiting), Consuming(Part(d, o)))
    <2> DEFINE start == o + 4
               size == IF start > Len(d) THEN Huge ELSE U32Value(SubSeq(d, start - 3, start))
    <2>1. stack' = IF start + size > Len(d) THEN K
                   ELSE IF size < 4 THEN Append(K, [c EXCEPT !.offset = start + size])
                   ELSE Append(Append(K, [c EXCEPT !.offset = start + size]),
                               Consuming(SubSeq(d, start + 1, start + size)))
      BY Zenon DEF read_frame
    <2> HIDE DEF c, K
    <2>2. CASE o + 4 <= Len(d)
      <3>1. size = PartSize(d, o) /\ size \in Nat
        <4>1. ~(start > Len(d)) /\ start - 3 = o + 1
          BY <1>3, <2>2
        <4> QED
          BY <1>3, <2>2, <4>1, PartFacts DEF PartSize
      <3>2. start + size = Behind(d, o) /\ start + 1 = o + 5
        BY <1>3, <3>1 DEF Behind
      <3>3. Fits(d, o) <=> ~(start + size > Len(d))
        BY <1>3, <2>2, <3>1, <3>2, PartFacts
      <3>4. SubSeq(d, start + 1, start + size) = Part(d, o)
        BY <1>3, <3>1, <3>2 DEF Part, Behind
      <3> HIDE DEF d, o, start, size
      <3> QED
        BY <2>1, <3>1, <3>2, <3>3, <3>4
    <2>3. CASE ~(o + 4 <= Len(d))
      <3>1. start > Len(d)
        BY <1>3, <2>3
      <3>2. start + size > Len(d)
        BY <1>3, <3>1 DEF Huge
      <3> QED
        BY <2>1, <2>3, <3>2 DEF Fits
    <2> QED
      BY <2>2, <2>3
  <1>5. PendingIn[c] = Walk(d, o)
    BY <1>1, <1>2 DEF PendingIn
  <1> HIDE DEF K
  <1>6. Pending(stack) = Walk(d, o) \o Pending(K) /\ Pending(K) \in Seq(S)
    BY <1>2, <1>5, PendingPushed
  <1>7. log \o Pending(stack) = AllIn(Received)
    BY DEF LogInv
  <1>8. /\ Walk(d, o) \in Seq(S)
        /\ ~Fits(d, o) => Walk(d, o) = << >>
        /\ Fits(d, o) =>
             Walk(d, o) = (IF PartSize(d, o) < 4 THEN << >> ELSE Arriving(Part(d, o)))
                          \o Walk(d, Behind(d, o))
    <2> HIDE DEF d, o
    <2> QED
      BY <1>3, WalkFacts
  <1>9. Pending(stack') = Pending(stack)
    <2>1. CASE ~Fits(d, o) /\ stack' = K
      <3>1. Pending(stack) = << >> \o Pending(K)
        BY <1>6, <1>8, <2>1
      <3>2. << >> \o Pending(K) = Pending(K)
        <4> DEFINE p == Pending(K)
        <4>1. p \in Seq(S)
          BY <1>6
        <4> HIDE DEF p, S
        <4>2. << >> \o p = p
          BY <4>1
        <4> QED
          BY <4>2 DEF p
      <3> QED
        BY <2>1, <3>1, <3>2
    <2>2. CASE /\ Fits(d, o)
               /\ stack' = IF PartSize(d, o) < 4 THEN Append(K, waiting)
                           ELSE Append(Append(K, waiting), Consuming(Part(d, o)))
      <3> DEFINE w == Walk(d, Behind(d, o))
                 a == Arriving(Part(d, o))
                 p == Pending(K)
      <3>1. /\ Behind(d, o) \in Nat /\ Part(d, o) \in S
        <4> HIDE DEF d, o
        <4>1. o + 4 <= Len(d)
          BY <2>2 DEF Fits
        <4> QED
          BY <1>3, <2>2, <4>1, PartFacts
      <3>2. waiting \in Call /\ PendingIn[waiting] = w
        <4>1. /\ waiting \in Call /\ waiting.call = "multi" /\ waiting.data = d
              /\ waiting.offset = Behind(d, o)
          <5> DEFINE n == Behind(d, o)
          <5>1. n \in Nat
            BY <3>1
          <5> HIDE DEF n
          <5>2. /\ [c EXCEPT !.offset = n] \in Call /\ [c EXCEPT !.offset = n].call = "multi"
                /\ [c EXCEPT !.offset = n].data = d /\ [c EXCEPT !.offset = n].offset = n
            BY <1>1, <1>2, <5>1 DEF Call
          <5> QED
            BY <5>2 DEF n
        <4> HIDE DEF waiting, d, o
        <4> QED
          BY <4>1 DEF PendingIn
      <3>3. Consuming(Part(d, o)) \in Call /\ PendingIn[Consuming(Part(d, o))] = a
        <4> DEFINE q == Part(d, o)
        <4>1. q \in Seq(Byte)
          BY <3>1
        <4> HIDE DEF q
        <4>2. Consuming(q) \in Call
          BY <4>1, CallTypes
        <4>3. PendingIn[Consuming(q)] = Arriving(q)
          BY <4>2 DEF PendingIn, Consuming
        <4> QED
          BY <4>2, <4>3 DEF q
      <3> HIDE DEF waiting
      <3>4. Pending(Append(K, waiting)) = w \o p /\ Append(K, waiting) \in Seq(Call)
            /\ w \in Seq(S) /\ p \in Seq(S)
        <4>1. Pending(Append(K, waiting)) = PendingIn[waiting] \o p /\ p \in Seq(S)
              /\ PendingIn[waiting] \in Seq(S)
          BY <1>2, <3>2, PendingPushed
        <4>2. Append(K, waiting) \in Seq(Call)
          BY <1>2, <3>2, Appended
        <4> QED
          BY <3>2, <4>1, <4>2
      <3>5. CASE PartSize(d, o) < 4
        <4>1. Pending(stack) = (<< >> \o w) \o p
          BY <1>6, <1>8, <2>2, <3>5
        <4>2. << >> \o w = w
          <5> HIDE DEF w, S
          <5> QED
            BY <3>4
        <4> QED
          BY <2>2, <3>4, <3>5, <4>1, <4>2
      <3>6. CASE ~(PartSize(d, o) < 4)
        <4>1. Pending(stack) = (a \o w) \o p
          BY <1>6, <1>8, <2>2, <3>6
        <4>2. Pending(stack') = a \o (w \o p) /\ a \in Seq(S)
          <5>1. stack' = Append(Append(K, waiting), Consuming(Part(d, o)))
            BY <2>2, <3>6
          <5>2. /\ PendingIn[Consuming(Part(d, o))] \in Seq(S)
                /\ Pending(stack') = PendingIn[Consuming(Part(d, o))] \o Pending(Append(K, waiting))
            BY <3>3, <3>4, <5>1, PendingPushed
          <5> QED
            BY <3>3, <3>4, <5>2
        <4>3. (a \o w) \o p = a \o (w \o p)
          <5> HIDE DEF a, w, p, S
          <5>1. a \in Seq(S) /\ w \in Seq(S) /\ p \in Seq(S)
            BY <3>4, <4>2
          <5> QED
            BY ONLY <5>1, Associative
        <4> QED
          BY <4>1, <4>2, <4>3
      <3> QED
        BY <3>5, <3>6
    <2> QED
      BY <1>4, <2>1, <2>2
  <1>10. Received' = Received /\ ~crashed' /\ log' = log
    BY <1>1 DEF Received
  <1>11. log' \o Pending(stack') = AllIn(Received')
    BY <1>7, <1>9, <1>10
  <1> QED
    BY <1>10, <1>11 DEF LogInv

\* A frame comes out of the script.
LEMMA ReceivedAppended ==
  ASSUME TypeInv, ScriptInv, Receive
  PROVE  /\ ScriptInv' /\ Received \in Seq(Frame) /\ Head(rx) \in Frame
         /\ Received' = Append(Received, Head(rx))
  <1> DEFINE k == Len(script) - Len(rx)
  <1>1. rx # << >> /\ rx' = Tail(rx) /\ script' = script /\ rx \in Seq(Frame) /\ script \in Seq(Frame)
    BY DEF Receive, TypeInv, ScriptInv
  <1>2. /\ Len(rx) \in Nat \ {0} /\ Head(rx) = rx[1] /\ Head(rx) \in Frame
        /\ Tail(rx) \in Seq(Frame) /\ Len(Tail(rx)) = Len(rx) - 1
        /\ \A i \in 1 .. Len(Tail(rx)) : Tail(rx)[i] = rx[i + 1] /\ i + 1 \in 1 .. Len(rx)
    BY <1>1, HeadTail
  <1>3. Len(script) \in Nat /\ Len(rx) <= Len(script)
    BY <1>1 DEF ScriptInv
  <1>4. k \in 0 .. Len(script) - 1 /\ Len(script) - Len(rx') = k + 1
    BY <1>1, <1>2, <1>3
  <1>5. rx[1] = script[k + 1]
    <2>1. 1 \in 1 .. Len(rx) /\ Len(script) - Len(rx) + 1 = k + 1
      BY <1>2
    <2> QED
      BY <2>1 DEF ScriptInv
  <1>6. ScriptInv'
    <2>1. Len(rx') <= Len(script')
      BY <1>1, <1>2, <1>3
    <2>2. ASSUME NEW i \in 1 .. Len(rx') PROVE rx'[i] = script[Len(script) - Len(rx') + i]
      <3>1. rx'[i] = rx[i + 1] /\ i + 1 \in 1 .. Len(rx)
        BY <1>1, <1>2
      <3>2. rx[i + 1] = script[Len(script) - Len(rx) + (i + 1)]
        BY <3>1 DEF ScriptInv
      <3>3. Len(script) - Len(rx) + (i + 1) = Len(script) - Len(rx') + i
        BY <1>1, <1>2, <1>3
      <3> QED
        BY <3>1, <3>2, <3>3
    <2> QED
      BY <1>1, <2>1, <2>2 DEF ScriptInv
  <1>7. Received = SubSeq(script, 1, k) /\ Received' = SubSeq(script, 1, k + 1)
    BY <1>1, <1>4 DEF Received
  <1> HIDE DEF k
  <1>8. /\ SubSeq(script, 1, k) \in Seq(Frame)
        /\ SubSeq(script, 1, k + 1) = Append(SubSeq(script, 1, k), script[k + 1])
    BY <1>1, <1>4, FirstItems
  <1> QED
    BY <1>2, <1>5, <1>6, <1>7, <1>8

\* A frame that is encrypted has an IV at least.
LEMMA EncryptedSize ==
  ASSUME NEW n \in Nat
  PROVE  EncryptedLength(n) \in Nat /\ EncryptedLength(n) >= 16
  <1> DEFINE k == (n + 16) \div 16
  <1>1. k \in Nat
    OBVIOUS
  <1>2. EncryptedLength(n) = 16 + k * 16
    BY DEF EncryptedLength, IV_LENGTH, BLOCK_SIZE
  <1> HIDE DEF k
  <1> QED
    BY <1>1, <1>2

\* A frame arrives: what is in it is pending, or there is nothing in it.
LEMMA ReceiveLogs ==
  ASSUME TypeInv, ScriptInv, LogInv, Receive
  PROVE  LogInv'
  <1> DEFINE f == Head(rx)
             S == Seq(Byte)
  <1>1. ~crashed /\ stack = << >> /\ UNCHANGED <<log, channel_secured_>>
    BY DEF Receive
  <1>2. Received \in Seq(Frame) /\ f \in Frame /\ Received' = Append(Received, f)
    BY ReceivedAppended
  <1>3. IF FrameSize(f) < 4 THEN UNCHANGED <<stack, crashed>>
        ELSE IF channel_secured_ /\ ~Decrypts(f)
               THEN crashed' = TRUE /\ UNCHANGED stack
               ELSE stack' = <<Consuming(f.bytes)>> /\ UNCHANGED crashed
    BY Zenon DEF Receive
  <1> HIDE DEF f
  <1>4. f.bytes \in S /\ f.enc \in BOOLEAN
    BY <1>2 DEF Frame
  <1>5. AllIn(Received) \in Seq(S) /\ AllIn(Received') = AllIn(Received) \o Arriving(f.bytes)
    BY <1>2, AllInAppended
  <1>6. log \in Seq(S) /\ log = AllIn(Received)
    <2>0. << >> \in Seq(Byte) /\ << >> \in Seq(Call)
      OBVIOUS
    <2>1. << >> \in Seq(Call) /\ Unpacking(<< >>) \in Call
      BY <2>0, CallTypes
    <2>2. Pending(stack) = << >>
      BY <1>1, <2>1, PendingPushed
    <2>3. log \in Seq(S) /\ log \o << >> = AllIn(Received)
      BY <1>1, <2>2 DEF LogInv, TypeInv
    <2>4. log \o << >> = log
      <3> HIDE DEF S
      <3> QED
        BY <2>3
    <2> QED
      BY <2>3, <2>4
  <1>7. CASE FrameSize(f) < 4
    <2>1. Len(f.bytes) < 8
      <3>1. Len(f.bytes) \in Nat
        BY <1>4
      <3>2. CASE f.enc
        <4>1. FrameSize(f) = EncryptedLength(Len(f.bytes))
          BY <3>2 DEF FrameSize
        <4>2. FrameSize(f) >= 16 /\ FrameSize(f) \in Nat
          BY <3>1, <4>1, EncryptedSize
        <4> QED
          BY <1>7, <4>2
      <3>3. CASE ~f.enc
        <4>1. FrameSize(f) = Len(f.bytes)
          BY <3>3 DEF FrameSize
        <4> QED
          BY <1>7, <3>1, <4>1
      <3> QED
        BY <3>2, <3>3
    <2>2. Arriving(f.bytes) = << >>
      BY <1>4, <2>1, ShortHasNothing
    <2>3. AllIn(Received') = AllIn(Received)
      <3>1. AllIn(Received) \o << >> = AllIn(Received)
        <4> DEFINE a == AllIn(Received)
        <4>1. a \in Seq(S)
          BY <1>5
        <4> HIDE DEF a, S
        <4>2. a \o << >> = a
          BY <4>1
        <4> QED
          BY <4>2 DEF a
      <3> QED
        BY <1>5, <2>2, <3>1
    <2>4. log' \o Pending(stack') = AllIn(Received')
      <3>1. log \o Pending(stack) = AllIn(Received)
        BY <1>1 DEF LogInv
      <3>2. stack' = stack /\ log' = log
        BY <1>1, <1>3, <1>7
      <3> QED
        BY <2>3, <3>1, <3>2
    <2> QED
      BY <1>1, <1>3, <1>7, <2>4 DEF LogInv
  <1>8. CASE ~(FrameSize(f) < 4) /\ channel_secured_ /\ ~Decrypts(f)
    <2>1. crashed' /\ stack' = << >> /\ log' = log /\ channel_secured_'
      BY <1>1, <1>3, <1>8
    <2>2. Front(Received') = Received
      BY <1>2, FrontAppend
    <2>3. Received' # << >> /\ Last(Received') = f
      <3>1. /\ Append(Received, f) \in Seq(Frame) /\ Len(Append(Received, f)) = Len(Received) + 1
            /\ Append(Received, f)[Len(Received) + 1] = f /\ Len(Received) \in Nat
        BY <1>2, Appended
      <3>2. Append(Received, f) # << >>
        BY <3>1
      <3> QED
        BY <1>2, <3>1, <3>2 DEF Last
    <2>4. log' = AllIn(Front(Received'))
      BY <1>6, <2>1, <2>2
    <2> QED
      BY <1>8, <2>1, <2>3, <2>4 DEF LogInv
  <1>9. CASE ~(FrameSize(f) < 4) /\ ~(channel_secured_ /\ ~Decrypts(f))
    <2>1. stack' = <<Consuming(f.bytes)>> /\ ~crashed'
      BY <1>1, <1>3, <1>9
    <2>2. Pending(stack') = Arriving(f.bytes)
      <3> DEFINE c == Consuming(f.bytes)
      <3>1. << >> \in Seq(Call) /\ c \in Call
        BY <1>4, CallTypes
      <3>2. PendingIn[c] = Arriving(f.bytes)
        BY <3>1 DEF PendingIn, Consuming
      <3>3. <<c>> = Append(<< >>, c)
        OBVIOUS
      <3> HIDE DEF c
      <3>4. /\ Pending(Append(<< >>, c)) = PendingIn[c] \o << >>
            /\ PendingIn[c] \in Seq(S)
        BY <3>1, PendingPushed
      <3>5. PendingIn[c] \o << >> = PendingIn[c]
        <4> DEFINE a == PendingIn[c]
        <4>1. a \in Seq(S)
          BY <3>4
        <4> HIDE DEF a, S
        <4>2. a \o << >> = a
          BY <4>1
        <4> QED
          BY <4>2 DEF a
      <3> QED
        BY <2>1, <3>2, <3>3, <3>4, <3>5 DEF c
    <2>3. log' \o Pending(stack') = AllIn(Received')
      BY <1>1, <1>5, <1>6, <2>2
    <2> QED
      BY <2>1, <2>3 DEF LogInv
  <1> QED
    BY <1>7, <1>8, <1>9

\* The channel is secured by a result that is in the log.
LEMMA SecuredStep ==
  ASSUME TypeInv, SecuredInv, [Next]_vars
  PROVE  SecuredInv'
  <1>1. log \in Seq(Seq(Byte))
    BY DEF TypeInv
  <1>2. CASE UNCHANGED <<channel_secured_, log>>
    BY <1>2 DEF SecuredInv
  <1>3. CASE Dispatch
    <2> DEFINE d == Last(stack).data
               S == Seq(Byte)
    <2>1. Dispatches(d) /\ stack # << >>
      BY <1>3, DispatchGives
    <2>2. d \in S
      BY <2>1, Returned DEF TypeInv, Call
    <2> HIDE DEF d
    <2>3. /\ log' = log \/ log' = Append(log, d)
          /\ \/ channel_secured_' => channel_secured_
             \/ U32Value(d) = ChannelEncryptResult /\ log' = Append(log, d)
      BY <2>1 DEF Dispatches
    <2>4. /\ Len(Append(log, d)) = Len(log) + 1 /\ Len(log) \in Nat
          /\ \A i \in 1 .. Len(log) : Append(log, d)[i] = log[i]
          /\ Append(log, d)[Len(log) + 1] = d
      <3>1. log \in Seq(S)
        BY <1>1
      <3> HIDE DEF S
      <3> QED
        BY <2>2, <3>1, Appended
    <2>5. CASE channel_secured_' => channel_secured_
      <3> SUFFICES ASSUME channel_secured_'
                   PROVE  \E i \in 1 .. Len(log') : U32Value(log'[i]) = ChannelEncryptResult
        BY DEF SecuredInv
      <3>1. PICK i \in 1 .. Len(log) : U32Value(log[i]) = ChannelEncryptResult
        BY <2>5 DEF SecuredInv
      <3>2. i \in 1 .. Len(log') /\ log'[i] = log[i]
        BY <2>3, <2>4
      <3> QED
        BY <3>1, <3>2
    <2>6. CASE U32Value(d) = ChannelEncryptResult /\ log' = Append(log, d)
      <3>1. Len(log') = Len(log) + 1 /\ log'[Len(log')] = d /\ Len(log') \in 1 .. Len(log')
        BY <2>4, <2>6
      <3> QED
        BY <2>6, <3>1 DEF SecuredInv
    <2> QED
      BY <2>3, <2>5, <2>6
  <1>4. ASSUME Receive \/ read_frame \/ UNCHANGED vars
        PROVE  UNCHANGED <<channel_secured_, log>>
    BY <1>4 DEF Receive, read_frame, vars
  <1> QED
    BY <1>2, <1>3, <1>4 DEF Next

\* What is received, pending and logged.
IntakeInv == ScriptInv /\ LogInv /\ SecuredInv

\* The invariant: it holds at the start,
LEMMA IntakeInit == Init => IntakeInv
  <1> SUFFICES ASSUME Init PROVE IntakeInv
    OBVIOUS
  <1>1. /\ ~channel_secured_ /\ script \in Seq(Frame) /\ rx = script /\ stack = << >> /\ ~crashed
        /\ log = << >>
    BY DEF Init
  <1>2. Len(script) \in Nat
    BY <1>1
  <1>3. ScriptInv
    BY <1>1, <1>2 DEF ScriptInv
  <1>4. Received = << >>
    BY <1>1, <1>2 DEF Received
  <1>5. LogInv
    <2>1. << >> \in Seq(Frame) /\ << >> \in Seq(Byte) /\ << >> \in Seq(Call)
      OBVIOUS
    <2>2. Unpacking(<< >>) \in Call
      BY <2>1, CallTypes
    <2>3. Pending(<< >>) = << >>
      BY <2>1, <2>2, PendingPushed
    <2>4. AllIn(<< >>) = << >>
      BY <2>1, AllInAppended
    <2>5. << >> \o << >> = << >>
      OBVIOUS
    <2> QED
      BY <1>1, <1>4, <2>3, <2>4, <2>5 DEF LogInv
  <1>6. SecuredInv
    BY <1>1 DEF SecuredInv
  <1> QED
    BY <1>3, <1>5, <1>6 DEF IntakeInv

\* every step keeps it,
LEMMA IntakeStep == TypeInv /\ IntakeInv /\ [Next]_vars => IntakeInv'
  <1> SUFFICES ASSUME TypeInv, IntakeInv, [Next]_vars PROVE IntakeInv'
    OBVIOUS
  <1>0. ScriptInv /\ LogInv /\ SecuredInv
    BY DEF IntakeInv
  <1>1. SecuredInv'
    BY <1>0, SecuredStep
  <1>2. ASSUME UNCHANGED <<rx, script>> PROVE ScriptInv'
    BY <1>0, <1>2 DEF ScriptInv
  <1>3. CASE Receive
    BY <1>0, <1>1, <1>3, ReceivedAppended, ReceiveLogs DEF IntakeInv
  <1>4. CASE Dispatch
    <2>1. UNCHANGED <<rx, script>> /\ stack # << >>
      BY <1>4, DispatchGives
    <2>2. ~crashed
      BY <1>0, <2>1 DEF LogInv
    <2> QED
      BY <1>0, <1>1, <1>2, <1>4, <2>1, <2>2, DispatchLogs DEF IntakeInv
  <1>5. CASE read_frame
    <2>1. UNCHANGED <<rx, script>> /\ stack # << >>
      BY <1>5 DEF read_frame
    <2>2. ~crashed
      BY <1>0, <2>1 DEF LogInv
    <2> QED
      BY <1>0, <1>1, <1>2, <1>5, <2>1, <2>2, ReadLogs DEF IntakeInv
  <1>6. CASE UNCHANGED vars
    <2>1. LogInv'
      BY <1>0, <1>6 DEF LogInv, Received, vars
    <2> QED
      BY <1>1, <1>2, <1>6, <2>1 DEF IntakeInv, vars
  <1> QED
    BY <1>3, <1>4, <1>5, <1>6 DEF Next

\* so it always holds,
LEMMA IntakeInvCorrect == Spec => [](TypeInv /\ IntakeInv)
  BY IntakeInit, IntakeStep, TypeInvCorrect, PTL DEF Spec

\* Of the frames that have been received, what is in the log, in terms of all
\* there is in them.
LoggedOnce ==
  /\ IsPrefix(log, AllIn(Received))
  /\ stack = << >> => log = AllIn(IF crashed THEN Front(Received) ELSE Received)

\* and says what has been logged.
LEMMA IntakeMeans ==
  ASSUME TypeInv, IntakeInv
  PROVE  /\ Received \in Seq(Frame) /\ LoggedOnce
  <1> DEFINE S == Seq(Byte)
  <1>0. ScriptInv /\ LogInv
    BY DEF IntakeInv
  <1>1. Received \in Seq(Frame)
    <2> DEFINE k == Len(script) - Len(rx)
    <2>1. k \in Nat /\ k <= Len(script) /\ script \in Seq(Frame) /\ 1 \in Nat \ {0}
      <3>1. Len(rx) \in Nat /\ Len(script) \in Nat
        BY <1>0 DEF TypeInv, ScriptInv
      <3> QED
        BY <1>0, <3>1 DEF ScriptInv
    <2> HIDE DEF k
    <2>2. SubSeq(script, 1, k) \in Seq(Frame)
      BY <2>1, Cut
    <2> QED
      BY <2>2 DEF Received, k
  <1>2. CASE crashed
    <2> DEFINE fs == Front(Received)
               f == Last(Received)
    <2>1. stack = << >> /\ Received # << >> /\ log = AllIn(fs)
      BY <1>0, <1>2 DEF LogInv
    <2>2. fs \in Seq(Frame) /\ f \in Frame /\ Received = Append(fs, f)
      BY <1>1, <2>1, FrontAndLast
    <2> HIDE DEF fs, f
    <2>3. AllIn(Received) = AllIn(fs) \o Arriving(f.bytes) /\ AllIn(fs) \in Seq(S)
      BY <2>2, AllInAppended
    <2>4. Arriving(f.bytes) \in Seq(S)
      BY <2>2, ArrivingType DEF Frame
    <2>5. IsPrefix(AllIn(fs), AllIn(fs) \o Arriving(f.bytes))
      <3> HIDE DEF S
      <3> QED
        BY <2>3, <2>4, PrefixOfConcat
    <2> QED
      BY <1>1, <1>2, <2>1, <2>3, <2>5 DEF LoggedOnce, fs
  <1>3. CASE ~crashed
    <2>1. log \in Seq(S) /\ log \o Pending(stack) = AllIn(Received)
      BY <1>0, <1>3 DEF LogInv, TypeInv
    <2>2. stack \in Seq(Call) /\ Unpacking(<< >>) \in Call
      <3>1. << >> \in Seq(Byte)
        OBVIOUS
      <3> QED
        BY <3>1, CallTypes DEF TypeInv, Nested
    <2>3. Pending(stack) \in Seq(S) /\ Pending(<< >>) = << >>
      BY <2>2, PendingPushed
    <2> HIDE DEF S
    <2>4. IsPrefix(log, log \o Pending(stack))
      BY <2>1, <2>3, PrefixOfConcat
    <2>5. log \o << >> = log
      BY <2>1
    <2> QED
      BY <1>1, <1>3, <2>1, <2>3, <2>4, <2>5 DEF LoggedOnce
  <1> QED
    BY <1>2, <1>3

\* consume_frame, handle_multi and read_frame, for frames of any bytes: what is
\* dispatched is what there is in the frames, in their order. A frame that has the
\* bytes of a message is one, and a Multi is followed by what there is in its
\* parts, each at the offset that the lengths before it lead to, to any depth, up to
\* the first part that is not there in full. Nothing else is dispatched, none
\* twice, and when no call is under way nothing is missing but, after an
\* exception, the one frame that could not be decrypted.
THEOREM IntakeCorrect == Spec => []LoggedOnce
  BY IntakeInvCorrect, IntakeMeans, PTL

-----------------------------------------------------------------------------
(* The messages of the run: what is in them is what they were composed of. *)

\* What fits into two bytes.
Small == {n \in Nat : n < 65536}

\* Arriving gives for every beginning of a message what it has been composed of.
Sound(m) ==
  /\ m.bytes \in Seq(Byte) /\ Len(m.bytes) \in Small /\ m.all \in Seq(Seq(Byte))
  /\ \A n \in 0 .. Len(m.bytes) : Arriving(SubSeq(m.bytes, 1, n)) = Contents(m, n)
  /\ Arriving(m.bytes) = m.all

\* The four bytes of a small number.
LEMMA Little ==
  ASSUME NEW n \in Small
  PROVE  /\ LE(n, 4) \in Seq(Byte) /\ Len(LE(n, 4)) = 4
         /\ LE(n, 4)[1] = n % 256 /\ LE(n, 4)[3] = 0 /\ LE(n, 4)[4] = 0
         /\ U32Value(LE(n, 4)) = n
  <1> DEFINE b == LE(n, 4)
             q == n \div 256
  <1>0. n \in Nat /\ n < 65536
    BY SMT DEF Small
  <1>1. /\ b[1] = (n \div 1) % 256 /\ b[2] = (n \div 256) % 256
        /\ b[3] = (n \div 65536) % 256 /\ b[4] = (n \div 16777216) % 256
        /\ b = [i \in 1 .. 4 |-> b[i]]
    BY <1>0, SMT DEF LE
  <1>2. n \div 1 = n /\ n \div 65536 = 0 /\ n \div 16777216 = 0
    BY <1>0, SMT
  <1>3. q \in 0 .. 255 /\ n % 256 \in 0 .. 255 /\ (n % 256) + 256 * q = n
    BY <1>0, SMT
  <1>4. b[1] = n % 256 /\ b[2] = q /\ b[3] = 0 /\ b[4] = 0
    BY <1>1, <1>2, <1>3, SMT
  <1> HIDE DEF b, q
  <1>5. \A i \in 1 .. 4 : b[i] \in Byte
    <2>1. n % 256 \in Byte /\ q \in Byte /\ 0 \in Byte
      BY <1>3, SMT DEF Byte
    <2> QED
      BY <1>4, <2>1, SMT
  <1>6. b \in Seq(Byte) /\ Len(b) = 4
    BY <1>1, <1>5, SMT
  <1>7. U32Value(b) = n
    BY <1>3, <1>4, SMT DEF U32Value
  <1> QED
    BY <1>4, <1>6, <1>7, SMT DEF b

\* The bytes of -1.
LEMMA MinusOne ==
  ASSUME NEW w \in Nat
  PROVE  /\ LE(-1, w) \in Seq(Byte) /\ Len(LE(-1, w)) = w
         /\ \A i \in 1 .. w : LE(-1, w)[i] = 255
  <1>1. LE(-1, w) = [i \in 1 .. w |-> 255]
    BY DEF LE
  <1>2. 255 \in Byte
    BY DEF Byte
  <1> QED
    BY <1>1, <1>2

\* The type of a protobuf message.
LEMMA MadeMsg ==
  ASSUME NEW id \in Small
  PROVE  /\ make_msg(id) \in Seq(Byte) /\ Len(make_msg(id)) = 4
         /\ make_msg(id)[4] = 128 /\ get_msg(make_msg(id)) = id
  <1> DEFINE b == LE(id, 4)
             m == make_msg(id)
  <1>1. b \in Seq(Byte) /\ Len(b) = 4 /\ b[3] = 0 /\ b[4] = 0 /\ U32Value(b) = id
    BY Little
  <1>2. m = [b EXCEPT ![4] = @ + 128]
    BY DEF make_msg
  <1> HIDE DEF b, m
  <1>3. m[1] = b[1] /\ m[2] = b[2] /\ m[3] = b[3] /\ m[4] = 128
    BY <1>1, <1>2
  <1>4. m \in Seq(Byte) /\ Len(m) = 4
    <2>1. 128 \in Byte /\ 0 + 128 = 128
      BY DEF Byte
    <2> QED
      BY <1>1, <1>2, <2>1
  <1>5. get_msg(m) = id
    <2> DEFINE e == [m EXCEPT ![4] = @ % 128]
    <2>1. e[1] = b[1] /\ e[2] = b[2] /\ e[3] = b[3] /\ e[4] = 0
      <3>1. 128 % 128 = 0
        OBVIOUS
      <3> QED
        BY <1>3, <1>4, <3>1
    <2>2. U32Value(e) = U32Value(b)
      <3> HIDE DEF e
      <3> QED
        BY <1>1, <2>1 DEF U32Value
    <2> QED
      BY <1>1, <2>2 DEF get_msg
  <1> QED
    BY <1>3, <1>4, <1>5 DEF m

\* A protobuf message, byte by byte.
LEMMA ProtoBytes ==
  ASSUME NEW id \in Small, NEW header \in Seq(Byte), Len(header) < 128,
         NEW body \in Seq(Byte)
  PROVE  LET b == Proto(id, header, body)
             h == 8 + Len(header)
         IN /\ b \in Seq(Byte) /\ Len(b) = h + Len(body)
            /\ \A i \in 1 .. 4 : b[i] = make_msg(id)[i] /\ b[4 + i] = LE(Len(header), 4)[i]
            /\ \A i \in 1 .. Len(header) : b[8 + i] = header[i]
            /\ \A i \in 1 .. Len(body) : b[h + i] = body[i]
  <1> DEFINE p == make_msg(id)
             q == LE(Len(header), 4)
  <1>0. Len(header) \in Nat /\ Len(body) \in Nat /\ Len(header) \in Small
    BY DEF Small
  <1>1. p \in Seq(Byte) /\ Len(p) = 4 /\ q \in Seq(Byte) /\ Len(q) = 4
    BY <1>0, MadeMsg, Little
  <1>2. Proto(id, header, body) = ((p \o q) \o header) \o body
    BY DEF Proto
  <1> HIDE DEF p, q
  <1> DEFINE r == p \o q
             s == r \o header
             b == s \o body
  <1>3. r \in Seq(Byte) /\ Len(r) = 8 /\ \A i \in 1 .. 4 : r[i] = p[i] /\ r[4 + i] = q[i]
    <2>1. /\ r \in Seq(Byte) /\ Len(r) = Len(p) + Len(q)
          /\ \A i \in 1 .. Len(p) : r[i] = p[i]
          /\ \A i \in 1 .. Len(q) : r[Len(p) + i] = q[i]
      <3>1. p \in Seq(Byte) /\ q \in Seq(Byte)
        BY <1>1
      <3> QED
        BY ONLY <3>1, Concatenated
    <2> HIDE DEF r
    <2> QED
      BY <1>1, <2>1
  <1> HIDE DEF r
  <1>4. /\ s \in Seq(Byte) /\ Len(s) = 8 + Len(header)
        /\ \A i \in 1 .. 8 : s[i] = r[i]
        /\ \A i \in 1 .. Len(header) : s[8 + i] = header[i]
    <2>1. /\ s \in Seq(Byte) /\ Len(s) = Len(r) + Len(header)
          /\ \A i \in 1 .. Len(r) : s[i] = r[i]
          /\ \A i \in 1 .. Len(header) : s[Len(r) + i] = header[i]
      <3>1. r \in Seq(Byte) /\ header \in Seq(Byte)
        BY <1>3
      <3> QED
        BY ONLY <3>1, Concatenated
    <2> HIDE DEF s
    <2> QED
      BY <1>3, <2>1
  <1> HIDE DEF s
  <1>5. /\ b \in Seq(Byte) /\ Len(b) = (8 + Len(header)) + Len(body)
        /\ \A i \in 1 .. 8 + Len(header) : b[i] = s[i]
        /\ \A i \in 1 .. Len(body) : b[(8 + Len(header)) + i] = body[i]
    <2>1. /\ b \in Seq(Byte) /\ Len(b) = Len(s) + Len(body)
          /\ \A i \in 1 .. Len(s) : b[i] = s[i]
          /\ \A i \in 1 .. Len(body) : b[Len(s) + i] = body[i]
      <3>1. s \in Seq(Byte) /\ body \in Seq(Byte)
        BY <1>4
      <3> QED
        BY ONLY <3>1, Concatenated
    <2> HIDE DEF b
    <2> QED
      BY <1>4, <2>1
  <1> HIDE DEF b
  <1>6. ASSUME NEW i \in 1 .. 4 PROVE b[i] = p[i] /\ b[4 + i] = q[i]
    <2>1. /\ i \in 1 .. 8 /\ 4 + i \in 1 .. 8
          /\ i \in 1 .. 8 + Len(header) /\ 4 + i \in 1 .. 8 + Len(header)
      BY <1>1
    <2> QED
      BY <1>3, <1>4, <1>5, <2>1
  <1>7. ASSUME NEW i \in 1 .. Len(header) PROVE b[8 + i] = header[i]
    <2>1. 8 + i \in 1 .. 8 + Len(header)
      BY <1>1
    <2> QED
      BY <1>4, <1>5, <2>1
  <1>8. Proto(id, header, body) = b
    BY <1>2 DEF b, s, r
  <1> QED
    BY <1>5, <1>6, <1>7, <1>8 DEF p, q

\* ... and how many bytes.
LEMMA ProtoLength ==
  ASSUME NEW id \in Small, NEW header \in Seq(Byte), Len(header) < 128,
         NEW body \in Seq(Byte)
  PROVE  /\ Proto(id, header, body) \in Seq(Byte)
         /\ Len(Proto(id, header, body)) = (8 + Len(header)) + Len(body)
  BY ProtoBytes, SMTT(20)

\* A prefix of a sequence.
LEMMA Beginning ==
  ASSUME NEW S, NEW q \in Seq(S), NEW n \in 0 .. Len(q)
  PROVE  /\ SubSeq(q, 1, n) \in Seq(S) /\ Len(SubSeq(q, 1, n)) = n
         /\ \A i \in 1 .. n : SubSeq(q, 1, n)[i] = q[i]
  <1>1. 1 \in Nat \ {0} /\ n \in Nat /\ n <= Len(q) /\ 1 <= n + 1 /\ n - 1 + 1 = n
    OBVIOUS
  <1>2. /\ SubSeq(q, 1, n) \in Seq(S) /\ (1 <= n + 1 => Len(SubSeq(q, 1, n)) = n - 1 + 1)
        /\ \A i \in 1 .. n - 1 + 1 : SubSeq(q, 1, n)[i] = q[1 + i - 1]
    BY <1>1, Cut
  <1>3. \A i \in 1 .. n : 1 + i - 1 = i
    OBVIOUS
  <1> QED
    BY <1>1, <1>2, <1>3

\* A part, by its bytes.
LEMMA SameBytes ==
  ASSUME NEW S, NEW q \in Seq(S), NEW r \in Seq(S), NEW m \in Nat \ {0}, NEW n \in Nat,
         n <= Len(q), m + Len(r) = n + 1, \A i \in 1 .. Len(r) : q[m - 1 + i] = r[i]
  PROVE  SubSeq(q, m, n) = r
  <1> DEFINE p == SubSeq(q, m, n)
  <1>0. Len(r) \in Nat /\ m <= n + 1 /\ n - m + 1 = Len(r)
    OBVIOUS
  <1>1. p \in Seq(S) /\ (m <= n + 1 => Len(p) = n - m + 1)
        /\ \A i \in 1 .. n - m + 1 : p[i] = q[m + i - 1]
    BY Cut
  <1> HIDE DEF p
  <1>2. ASSUME NEW i \in 1 .. Len(r) PROVE p[i] = r[i]
    <2>1. p[i] = q[m + i - 1] /\ m + i - 1 = m - 1 + i
      BY <1>0, <1>1
    <2> QED
      BY <2>1
  <1>3. p = r
    BY <1>0, <1>1, <1>2, SeqEqual
  <1> QED
    BY <1>3 DEF p

\* A protobuf message of which n bytes are there.
LEMMA ProtoCut ==
  ASSUME NEW id \in Small, NEW header \in Seq(Byte), Len(header) < 128,
         NEW body \in Seq(Byte), NEW n \in 0 .. (8 + Len(header)) + Len(body)
  PROVE  LET b == Proto(id, header, body)
             h == 8 + Len(header)
             d == SubSeq(b, 1, n)
         IN /\ HeaderEnd(b) = h
            /\ d \in Seq(Byte) /\ Len(d) = n
            /\ ~(Len(d) >= MsgHdrSize /\ is_encryption_msg(d))
            /\ n < h => ~IsProto(d)
            /\ n >= h => /\ IsProto(d) <=> header # BadHeader
                         /\ get_msg(d) = id
                         /\ ProtoBody(d) = SubSeq(body, 1, n - h)
  <1> DEFINE b == Proto(id, header, body)
             h == 8 + Len(header)
             d == SubSeq(b, 1, n)
             t == make_msg(id)
             l == LE(Len(header), 4)
  <1>0. /\ Len(header) \in Nat /\ Len(body) \in Nat /\ h \in Nat /\ n \in Nat
        /\ Len(header) \in Small
    BY DEF Small
  <1>1. /\ b \in Seq(Byte) /\ Len(b) = h + Len(body)
        /\ \A i \in 1 .. 4 : b[i] = t[i] /\ b[4 + i] = l[i]
        /\ \A i \in 1 .. Len(header) : b[8 + i] = header[i]
        /\ \A i \in 1 .. Len(body) : b[h + i] = body[i]
    BY ProtoBytes
  <1>2. t \in Seq(Byte) /\ Len(t) = 4 /\ t[4] = 128 /\ get_msg(t) = id
    BY MadeMsg
  <1>3. /\ l \in Seq(Byte) /\ Len(l) = 4 /\ l[1] = Len(header) % 256 /\ l[4] = 0
        /\ U32Value(l) = Len(header)
    BY <1>0, Little
  <1> HIDE DEF b, t, l, h
  <1>4. d \in Seq(Byte) /\ Len(d) = n /\ \A i \in 1 .. n : d[i] = b[i]
    <2>1. n \in 0 .. Len(b)
      BY <1>1 DEF h
    <2> QED
      BY <1>1, <2>1, Beginning
  <1> HIDE DEF d
  <1>5. HeaderEnd(b) = h
    <2>1. b[4] = 128 /\ b[5] = Len(header)
      <3>1. b[4] = t[4] /\ b[4 + 1] = l[1] /\ 4 + 1 = 5
        BY <1>1
      <3>2. Len(header) % 256 = Len(header)
        BY <1>0
      <3> QED
        BY <1>2, <1>3, <3>1, <3>2
    <2> QED
      BY <2>1 DEF HeaderEnd, is_protobuf_msg, h
  <1>6. ASSUME n >= 8
        PROVE  /\ ~is_encryption_msg(d) /\ is_protobuf_msg(d) /\ get_msg(d) = id
               /\ ProtoHeaderLength(d) = Len(header)
    <2>1. \A i \in 1 .. 4 : t[i] = d[i] /\ d[4 + i] = l[i]
      <3>1. ASSUME NEW i \in 1 .. 4 PROVE t[i] = d[i] /\ d[4 + i] = l[i]
        <4>1. i \in 1 .. n /\ 4 + i \in 1 .. n
          BY <1>0, <1>6
        <4> QED
          BY <1>1, <1>4, <4>1
      <3> QED
        BY <3>1
    <2>2. is_protobuf_msg(t)
      BY <1>2 DEF is_protobuf_msg
    <2>3. ~is_encryption_msg(d) /\ is_protobuf_msg(d) /\ get_msg(d) = id
      <3>1. /\ d \in Seq(Byte) /\ Len(d) >= 8 /\ t \in Seq(Byte) /\ Len(t) = 4
            /\ \A i \in 1 .. 4 : t[i] = d[i]
        BY <1>2, <1>4, <1>6, <2>1
      <3>2. /\ is_encryption_msg(t) <=> is_encryption_msg(d)
            /\ is_protobuf_msg(t) <=> is_protobuf_msg(d)
            /\ get_msg(t) = get_msg(d)
            /\ ~(is_encryption_msg(d) /\ is_protobuf_msg(d))
        BY ONLY <3>1, SameType, ZenonT(20)
      <3> QED
        BY <1>2, <2>2, <3>2
    <2>4. SubSeq(d, 5, 8) = l
      <3>1. 5 \in Nat \ {0} /\ 8 \in Nat /\ 8 <= Len(d) /\ 5 + Len(l) = 8 + 1
        BY <1>3, <1>4, <1>6
      <3>2. \A i \in 1 .. Len(l) : d[5 - 1 + i] = l[i]
        BY <1>3, <2>1
      <3> QED
        BY <1>3, <1>4, <3>1, <3>2, SameBytes
    <2>5. ~(Len(d) < 8 \/ d[8] >= 128)
      <3>1. d[4 + 4] = l[4] /\ 4 + 4 = 8
        BY <2>1
      <3> QED
        BY <1>0, <1>3, <1>4, <1>6, <3>1
    <2>6. ProtoHeaderLength(d) = Len(header)
      BY <1>3, <2>4, <2>5 DEF ProtoHeaderLength
    <2> QED
      BY <2>3, <2>6
  <1>7. ~(Len(d) >= MsgHdrSize /\ is_encryption_msg(d))
    <2>1. n >= MsgHdrSize => n >= 8
      BY <1>0, Sizes
    <2> QED
      BY <1>4, <1>6, <2>1
  <1>8. ASSUME n < h PROVE ~IsProto(d)
    <2>1. CASE n < 8
      BY <1>0, <1>4, <2>1 DEF IsProto
    <2>2. CASE n >= 8
      <3>1. ~(8 + ProtoHeaderLength(d) <= Len(d))
        BY <1>0, <1>4, <1>6, <1>8, <2>2 DEF h
      <3> QED
        BY <3>1 DEF IsProto, ProtoHeaderReads
    <2> QED
      BY <1>0, <2>1, <2>2
  <1>9. ASSUME n >= h
        PROVE  /\ IsProto(d) <=> header # BadHeader
               /\ get_msg(d) = id
               /\ ProtoBody(d) = SubSeq(body, 1, n - h)
    <2>1. n >= 8 /\ 8 + ProtoHeaderLength(d) <= Len(d) /\ ProtoHeaderLength(d) = Len(header)
      BY <1>0, <1>4, <1>6, <1>9 DEF h
    <2>2. SubSeq(d, 9, 8 + ProtoHeaderLength(d)) = header
      <3>1. 9 \in Nat \ {0} /\ h \in Nat /\ h <= Len(d) /\ 9 + Len(header) = h + 1
        BY <1>0, <1>4, <1>9 DEF h
      <3>2. ASSUME NEW i \in 1 .. Len(header) PROVE d[9 - 1 + i] = header[i]
        <4>1. 8 + i \in 1 .. n /\ 9 - 1 + i = 8 + i
          BY <1>0, <1>9 DEF h
        <4> QED
          BY <1>1, <1>4, <4>1
      <3>3. SubSeq(d, 9, h) = header
        BY <1>4, <3>1, <3>2, SameBytes
      <3> QED
        BY <2>1, <3>3 DEF h
    <2>3. IsProto(d) <=> header # BadHeader
      BY <1>4, <1>6, <2>1, <2>2 DEF IsProto, ProtoHeaderReads
    <2>4. ProtoBody(d) = SubSeq(body, 1, n - h)
      <3> DEFINE k == n - h
                 r == SubSeq(body, 1, k)
      <3>1. k \in 0 .. Len(body) /\ k \in Nat
        BY <1>0, <1>9 DEF h
      <3>2. r \in Seq(Byte) /\ Len(r) = k /\ \A i \in 1 .. k : r[i] = body[i]
        <4> HIDE DEF k
        <4> QED
          BY <3>1, Beginning
      <3> HIDE DEF r
      <3>3. 9 + Len(header) \in Nat \ {0} /\ n \in Nat /\ n <= Len(d) /\ (9 + Len(header)) + Len(r) = n + 1
        BY <1>0, <1>4, <3>2 DEF h
      <3>4. ASSUME NEW i \in 1 .. Len(r) PROVE d[(9 + Len(header)) - 1 + i] = r[i]
        <4>1. h + i \in 1 .. n /\ (9 + Len(header)) - 1 + i = h + i /\ i \in 1 .. Len(body) /\ i \in 1 .. k
          BY <1>0, <3>1, <3>2 DEF h
        <4> QED
          BY <1>1, <1>4, <3>2, <4>1
      <3>5. SubSeq(d, 9 + Len(header), n) = r
        BY <1>4, <3>2, <3>3, <3>4, SameBytes
      <3> QED
        BY <1>4, <2>1, <3>5 DEF ProtoBody, r
    <2> QED
      BY <1>6, <2>1, <2>3, <2>4
  <1> QED
    BY <1>4, <1>5, <1>7, <1>8, <1>9 DEF b, d, h

\* Nothing is in nothing.
LEMMA WalkNothing == Walk(<< >>, 0) = << >>
  <1>1. << >> \in Seq(Byte) /\ 0 \in 0 .. Len(<< >>) /\ ~(0 + 4 <= Len(<< >>))
    OBVIOUS
  <1>2. ~Fits(<< >>, 0)
    BY <1>1 DEF Fits
  <1> QED
    BY <1>1, <1>2, WalkFacts

\* A message by itself.
LEMMA LeafSound ==
  ASSUME NEW b \in Seq(Byte), Len(b) \in Small, NEW seen \in BOOLEAN,
         seen => HeaderEnd(b) \in 0 .. Len(b),
         \A n \in 0 .. Len(b) :
           /\ Reaches(SubSeq(b, 1, n)) <=> seen /\ ~(n < HeaderEnd(b))
           /\ Unpacked(SubSeq(b, 1, n)) = << >>
  PROVE  Sound(Leaf(b, seen))
  <1> DEFINE m == Leaf(b, seen)
             S == Seq(Byte)
  <1>1. /\ m.bytes = b /\ m.seen = seen /\ m.parts = << >> /\ m.ends = << >>
        /\ m.all = IF seen THEN <<b>> ELSE << >>
    BY DEF Leaf
  <1> HIDE DEF m
  <1>2. m.all \in Seq(Seq(Byte))
    <2>1. b \in S
      OBVIOUS
    <2> HIDE DEF S
    <2>2. <<b>> \in Seq(S) /\ << >> \in Seq(S)
      BY <2>1
    <2> QED
      BY <1>1, <2>2 DEF S
  <1>3. ASSUME NEW n \in 0 .. Len(b)
        PROVE  /\ Arriving(SubSeq(b, 1, n)) = Contents(m, n)
               /\ Contents(m, n) = IF seen /\ ~(n < HeaderEnd(b)) THEN <<SubSeq(b, 1, n)>> ELSE << >>
    <2> DEFINE d == SubSeq(b, 1, n)
    <2>0. d \in S
      BY Beginning
    <2>1. /\ Reaches(d) <=> seen /\ ~(n < HeaderEnd(b))
          /\ Unpacked(d) = << >>
      OBVIOUS
    <2> HIDE DEF d
    <2>2. <<d>> \o << >> = <<d>>
      <3> HIDE DEF S
      <3>1. <<d>> \in Seq(S)
        BY <2>0
      <3> QED
        BY <3>1
    <2>3. Arriving(d) = IF Reaches(d) THEN <<d>> ELSE << >>
      BY <2>1, <2>2, WalkNothing DEF Arriving
    <2>4. Contents(m, n) = IF ~seen \/ n < HeaderEnd(b) THEN << >> ELSE <<d>>
      <3>1. Contents(m, n) =
              IF ~m.seen \/ n < HeaderEnd(m.bytes) THEN << >>
              ELSE <<SubSeq(m.bytes, 1, n)>>
                   \o FlattenSeq([i \in 1 .. Len(m.parts) |->
                        IF m.ends[i] <= n THEN m.parts[i].all ELSE << >>])
        BY Zenon DEF Contents
      <3>2. [i \in 1 .. Len(m.parts) |-> IF m.ends[i] <= n THEN m.parts[i].all ELSE << >>] = << >>
        BY <1>1
      <3>3. FlattenSeq(<< >>) = << >>
        BY FlattenFacts
      <3> QED
        BY <1>1, <2>2, <3>1, <3>2, <3>3 DEF d
    <2> QED
      BY <2>1, <2>3, <2>4 DEF d
  <1>4. Arriving(b) = m.all
    <2>1. Len(b) \in 0 .. Len(b) /\ SubSeq(b, 1, Len(b)) = b
      OBVIOUS
    <2>2. Arriving(b) = IF seen /\ ~(Len(b) < HeaderEnd(b)) THEN <<b>> ELSE << >>
      BY <1>3, <2>1
    <2>3. seen => ~(Len(b) < HeaderEnd(b))
      OBVIOUS
    <2> QED
      BY <1>1, <2>2, <2>3
  <1>5. Sound(m)
    BY <1>1, <1>2, <1>3, <1>4 DEF Sound
  <1> QED
    BY <1>5 DEF m

\* A protobuf message other than a Multi.
LEMMA ProtoSound ==
  ASSUME NEW id \in Small, id # Multi, NEW header \in Seq(Byte), Len(header) < 128,
         NEW body \in Seq(Byte), (8 + Len(header)) + Len(body) \in Small
  PROVE  Sound(Leaf(Proto(id, header, body), id <= MAX_EMSG /\ header # BadHeader))
  <1> DEFINE b == Proto(id, header, body)
             h == 8 + Len(header)
             seen == id <= MAX_EMSG /\ header # BadHeader
  <1>1. b \in Seq(Byte) /\ Len(b) = h + Len(body) /\ Len(header) \in Nat /\ Len(body) \in Nat
    <2>1. b \in Seq(Byte) /\ Len(b) = h + Len(body)
      BY ONLY Len(header) < 128, ProtoBytes
    <2> QED
      BY <2>1
  <1>2. HeaderEnd(b) = h
    <2>1. 0 \in 0 .. h + Len(body)
      BY <1>1
    <2> QED
      BY <2>1, ProtoCut
  <1>3. ASSUME NEW n \in 0 .. Len(b)
        PROVE  /\ Reaches(SubSeq(b, 1, n)) <=> seen /\ ~(n < HeaderEnd(b))
               /\ Unpacked(SubSeq(b, 1, n)) = << >>
    <2> DEFINE d == SubSeq(b, 1, n)
    <2>1. /\ ~(Len(d) >= MsgHdrSize /\ is_encryption_msg(d))
          /\ n < h => ~IsProto(d)
          /\ n >= h => (IsProto(d) <=> header # BadHeader) /\ get_msg(d) = id
      <3>1. n \in 0 .. h + Len(body)
        BY <1>1
      <3> QED
        BY <3>1, ProtoCut
    <2>2. n < h \/ n >= h
      BY <1>1
    <2>3. ~(n < h /\ n >= h)
      BY <1>1
    <2> HIDE DEF d, b, h
    <2> QED
      BY <1>2, <2>1, <2>2, <2>3 DEF Reaches, Unpacked, d
  <1>4. HeaderEnd(b) \in 0 .. Len(b)
    BY <1>1, <1>2
  <1>5. Len(b) \in Small /\ seen \in BOOLEAN
    BY <1>1
  <1> HIDE DEF b, seen
  <1>6. Sound(Leaf(b, seen))
    BY <1>1, <1>3, <1>4, <1>5, LeafSound
  <1> QED
    BY <1>6 DEF b, seen

\* A struct message.
LEMMA StructSound ==
  ASSUME NEW b \in Seq(Byte), Len(b) \in Small, Len(b) >= 20, U32Value(b) # Huge
  PROVE  Sound(Leaf(b, is_encryption_msg(b)))
  <1>0. Len(b) \in Nat /\ is_encryption_msg(b) \in BOOLEAN
    BY DEF is_encryption_msg
  <1>1. ~is_protobuf_msg(b)
    BY DEF U32Value, is_protobuf_msg
  <1>2. HeaderEnd(b) = 20
    BY <1>1, Sizes DEF HeaderEnd
  <1>3. ASSUME NEW n \in 0 .. Len(b)
        PROVE  /\ Reaches(SubSeq(b, 1, n)) <=> is_encryption_msg(b) /\ ~(n < HeaderEnd(b))
               /\ Unpacked(SubSeq(b, 1, n)) = << >>
    <2> DEFINE d == SubSeq(b, 1, n)
    <2>1. d \in Seq(Byte) /\ Len(d) = n /\ \A i \in 1 .. n : d[i] = b[i]
      BY Beginning
    <2> HIDE DEF d
    <2>2. CASE n < 8
      <3>1. ~Reaches(d) /\ Unpacked(d) = << >>
        BY <2>1, <2>2, ShortHasNothing
      <3>2. n < HeaderEnd(b)
        BY <1>2, <2>2
      <3> QED
        BY <3>1, <3>2 DEF d
    <2>3. CASE n >= 8
      <3>1. d[1] = b[1] /\ d[2] = b[2] /\ d[3] = b[3] /\ d[4] = b[4]
        BY <2>1, <2>3
      <3>2. ~is_protobuf_msg(d)
        BY <1>1, <3>1 DEF is_protobuf_msg
      <3>3. is_encryption_msg(d) <=> is_encryption_msg(b)
        BY <3>1 DEF is_encryption_msg, U32Value
      <3>4. ~IsProto(d)
        BY <3>2 DEF IsProto
      <3>5. Reaches(d) <=> n >= 20 /\ is_encryption_msg(b)
        BY <2>1, <3>3, <3>4, Sizes DEF Reaches
      <3> QED
        BY <1>2, <3>4, <3>5 DEF Unpacked, d
    <2> QED
      BY <2>2, <2>3
  <1>4. HeaderEnd(b) \in 0 .. Len(b)
    BY <1>0, <1>2
  <1> QED
    BY <1>0, <1>3, <1>4, LeafSound

\* What has no message in it, however much of it is there.
LEMMA OtherSound ==
  ASSUME NEW b \in Seq(Byte), Len(b) <= 8, ~IsProto(b)
  PROVE  Sound(Leaf(b, FALSE))
  <1>0. Len(b) \in Small
    BY DEF Small
  <1>1. ASSUME NEW n \in 0 .. Len(b)
        PROVE  ~Reaches(SubSeq(b, 1, n)) /\ Unpacked(SubSeq(b, 1, n)) = << >>
    <2> DEFINE d == SubSeq(b, 1, n)
    <2>1. d \in Seq(Byte) /\ Len(d) = n
      BY Beginning
    <2>2. CASE n < 8
      <3> HIDE DEF d
      <3> QED
        BY <2>1, <2>2, ShortHasNothing DEF d
    <2>3. CASE n = 8
      <3>1. n = Len(b)
        <4> DEFINE k == Len(b)
        <4>1. k \in Nat /\ n \in Nat /\ n <= k /\ k <= 8
          OBVIOUS
        <4> HIDE DEF k
        <4>2. n = k
          BY ONLY <2>3, <4>1
        <4> QED
          BY ONLY <4>2 DEF k
      <3>2. d = b
        <4>1. SubSeq(b, 1, Len(b)) = b
          OBVIOUS
        <4> QED
          BY <3>1, <4>1
      <3>3. ~(Len(b) >= MsgHdrSize)
        BY <2>3, <3>1, Sizes
      <3> QED
        BY <3>2, <3>3 DEF Reaches, Unpacked
    <2>4. n < 8 \/ n = 8
      OBVIOUS
    <2> QED
      BY <2>2, <2>3, <2>4
  <1> QED
    BY <1>0, <1>1, LeafSound

-----------------------------------------------------------------------------
(* Multis: what is in one is what is in the messages it was packed from.   *)

\* A message behind its length.
LEMMA WrapFacts ==
  ASSUME NEW m, Sound(m)
  PROVE  LET l == LE(Len(m.bytes), 4)
             w == WithLength(m)
         IN /\ m.bytes \in Seq(Byte) /\ Len(m.bytes) \in Nat /\ Len(m.bytes) \in Small
            /\ l \in Seq(Byte) /\ Len(l) = 4 /\ U32Value(l) = Len(m.bytes)
            /\ w \in Seq(Byte) /\ Len(w) = 4 + Len(m.bytes)
            /\ \A i \in 1 .. 4 : w[i] = l[i]
            /\ \A i \in 1 .. Len(m.bytes) : w[4 + i] = m.bytes[i]
  <1> DEFINE b == m.bytes
             l == LE(Len(b), 4)
             w == l \o b
  <1>1. b \in Seq(Byte) /\ Len(b) \in Small
    BY DEF Sound
  <1>2. l \in Seq(Byte) /\ Len(l) = 4 /\ U32Value(l) = Len(b)
    BY <1>1, Little
  <1>3. WithLength(m) = w
    BY DEF WithLength
  <1> HIDE DEF b, l
  <1>4. /\ w \in Seq(Byte) /\ Len(w) = Len(l) + Len(b)
        /\ \A i \in 1 .. Len(l) : w[i] = l[i]
        /\ \A i \in 1 .. Len(b) : w[Len(l) + i] = b[i]
    <2>1. l \in Seq(Byte) /\ b \in Seq(Byte)
      BY <1>1, <1>2
    <2> QED
      BY ONLY <2>1, Concatenated
  <1> HIDE DEF w
  <1>5. Len(b) \in Nat
    BY <1>1
  <1> QED
    BY <1>1, <1>2, <1>3, <1>4, <1>5 DEF b, l

\* Where a message has been packed and is there in full, it is found.
LEMMA PartAt ==
  ASSUME NEW m, Sound(m), NEW d \in Seq(Byte), NEW o \in Nat,
         o + (4 + Len(m.bytes)) <= Len(d),
         \A i \in 1 .. 4 + Len(m.bytes) : d[o + i] = WithLength(m)[i]
  PROVE  Walk(d, o) = m.all \o Walk(d, o + (4 + Len(m.bytes)))
  <1> DEFINE b == m.bytes
             l == LE(Len(m.bytes), 4)
             w == WithLength(m)
  <1>1. /\ b \in Seq(Byte) /\ Len(b) \in Nat
        /\ l \in Seq(Byte) /\ Len(l) = 4 /\ U32Value(l) = Len(b)
        /\ w \in Seq(Byte) /\ Len(w) = 4 + Len(b)
        /\ \A i \in 1 .. 4 : w[i] = l[i]
        /\ \A i \in 1 .. Len(b) : w[4 + i] = b[i]
    BY WrapFacts
  <1>2. /\ o + (4 + Len(b)) <= Len(d) /\ Len(d) \in Nat
        /\ \A i \in 1 .. 4 + Len(b) : d[o + i] = w[i]
    OBVIOUS
  <1>3. Arriving(b) = m.all /\ m.all \in Seq(Seq(Byte))
    BY DEF Sound
  <1> HIDE DEF b, l, w
  <1>4. PartSize(d, o) = Len(b)
    <2>1. o + 1 \in Nat \ {0} /\ o + 4 \in Nat /\ o + 4 <= Len(d) /\ (o + 1) + Len(l) = (o + 4) + 1
      BY <1>1, <1>2
    <2>2. ASSUME NEW i \in 1 .. Len(l) PROVE d[(o + 1) - 1 + i] = l[i]
      <3>1. i \in 1 .. 4 /\ i \in 1 .. 4 + Len(b) /\ (o + 1) - 1 + i = o + i
        BY <1>1
      <3> QED
        BY <1>1, <1>2, <3>1
    <2>3. SubSeq(d, o + 1, o + 4) = l
      BY <1>1, <2>1, <2>2, SameBytes, SMTT(20)
    <2> QED
      BY <1>1, <2>3 DEF PartSize
  <1>5. Part(d, o) = b
    <2> DEFINE n == o + 4 + Len(b)
    <2>1. o + 5 \in Nat \ {0} /\ n \in Nat /\ n <= Len(d) /\ (o + 5) + Len(b) = n + 1
      BY <1>1, <1>2
    <2>2. ASSUME NEW i \in 1 .. Len(b) PROVE d[(o + 5) - 1 + i] = b[i]
      <3>1. 4 + i \in 1 .. 4 + Len(b) /\ (o + 5) - 1 + i = o + (4 + i)
        BY <1>1
      <3> QED
        BY <1>1, <1>2, <3>1
    <2> HIDE DEF n
    <2>3. SubSeq(d, o + 5, n) = b
      BY <1>1, <2>1, <2>2, SameBytes, SMTT(20)
    <2> QED
      BY <1>4, <2>3 DEF Part, n
  <1>6. Fits(d, o) /\ Behind(d, o) = o + (4 + Len(b)) /\ o \in 0 .. Len(d)
    <2>1. /\ o + 4 <= Len(d) /\ o + 4 + Len(b) <= Len(d) /\ o \in 0 .. Len(d)
          /\ o + 4 + Len(b) = o + (4 + Len(b))
      BY <1>1, <1>2
    <2> QED
      BY <1>4, <2>1 DEF Fits, Behind
  <1>7. Walk(d, o) = (IF Len(b) < 4 THEN << >> ELSE Arriving(b)) \o Walk(d, Behind(d, o))
    BY <1>4, <1>5, <1>6, WalkFacts
  <1>8. ASSUME Len(b) < 4 PROVE m.all = << >>
    <2>1. Len(b) < 8
      BY <1>1, <1>8
    <2> QED
      BY <1>1, <1>3, <2>1, ShortHasNothing
  <1>9. Walk(d, o) = m.all \o Walk(d, Behind(d, o))
    BY <1>3, <1>7, <1>8
  <1> QED
    BY <1>6, <1>9 DEF b

\* Where it is cut off, nothing is.
LEMMA NoPartAt ==
  ASSUME NEW m, Sound(m), NEW d \in Seq(Byte), NEW o \in 0 .. Len(d),
         Len(d) < o + (4 + Len(m.bytes)),
         \A i \in 1 .. Len(d) - o : d[o + i] = WithLength(m)[i]
  PROVE  Walk(d, o) = << >>
  <1> DEFINE b == m.bytes
             l == LE(Len(m.bytes), 4)
             w == WithLength(m)
  <1>1. /\ Len(b) \in Nat
        /\ l \in Seq(Byte) /\ Len(l) = 4 /\ U32Value(l) = Len(b)
        /\ \A i \in 1 .. 4 : w[i] = l[i]
    BY WrapFacts
  <1>2. /\ Len(d) < o + (4 + Len(b)) /\ Len(d) \in Nat /\ o \in Nat /\ o <= Len(d)
        /\ \A i \in 1 .. Len(d) - o : d[o + i] = w[i]
    OBVIOUS
  <1> HIDE DEF b, l, w
  <1>3. ~Fits(d, o)
    <2>1. CASE ~(o + 4 <= Len(d))
      BY <2>1 DEF Fits
    <2>2. CASE o + 4 <= Len(d)
      <3>1. o + 1 \in Nat \ {0} /\ o + 4 \in Nat /\ o + 4 <= Len(d) /\ (o + 1) + Len(l) = (o + 4) + 1
        BY <1>1, <1>2, <2>2
      <3>2. ASSUME NEW i \in 1 .. Len(l) PROVE d[(o + 1) - 1 + i] = l[i]
        <4>1. i \in 1 .. 4 /\ i \in 1 .. Len(d) - o /\ (o + 1) - 1 + i = o + i
          BY <1>1, <1>2, <2>2
        <4> QED
          BY <1>1, <1>2, <4>1
      <3>3. SubSeq(d, o + 1, o + 4) = l
        BY <1>1, <3>1, <3>2, SameBytes, SMTT(20)
      <3>4. PartSize(d, o) = Len(b)
        BY <1>1, <3>3 DEF PartSize
      <3>5. ~(o + 4 + Len(b) <= Len(d))
        BY <1>1, <1>2
      <3> QED
        BY <3>4, <3>5 DEF Fits
    <2> QED
      BY <2>1, <2>2
  <1> QED
    BY <1>3, WalkFacts

\* All of the messages in some parts, and those in the parts that end within the
\* first k bytes of what they have been packed into.
Inside(ps) == FlattenSeq([i \in 1 .. Len(ps) |-> ps[i].all])
Present(ps, k) ==
  FlattenSeq([i \in 1 .. Len(ps) |->
    IF Len(Packed(SubSeq(ps, 1, i))) <= k THEN ps[i].all ELSE << >>])

\* The parts one by one.
LEMMA PackedFacts ==
  ASSUME NEW G, \A m \in G : Sound(m), NEW ps \in Seq(G)
  PROVE  /\ Packed(<< >>) = << >> /\ Inside(<< >>) = << >>
         /\ Packed(ps) \in Seq(Byte) /\ Len(Packed(ps)) \in Nat
         /\ Inside(ps) \in Seq(Seq(Byte))
         /\ \A m \in G : /\ Packed(Append(ps, m)) = Packed(ps) \o WithLength(m)
                         /\ Inside(Append(ps, m)) = Inside(ps) \o m.all
  <1> DEFINE S == Seq(Byte)
             g == [m \in G |-> WithLength(m)]
             h == [m \in G |-> m.all]
  <1>1. MapsInto(g, G, S)
    <2>1. \A m \in G : WithLength(m) \in S
      BY WrapFacts
    <2> HIDE DEF S
    <2> QED
      BY <2>1 DEF MapsInto
  <1>2. MapsInto(h, G, Seq(S))
    <2>1. \A m \in G : m.all \in Seq(S)
      BY DEF Sound
    <2> HIDE DEF S
    <2> QED
      BY <2>1 DEF MapsInto
  <1>3. ASSUME NEW q \in Seq(G)
        PROVE  Packed(q) = FlatMapped(g, q) /\ Inside(q) = FlatMapped(h, q)
    <2>1. [i \in 1 .. Len(q) |-> WithLength(q[i])] = Mapped(g, q)
      <3>1. \A i \in 1 .. Len(q) : g[q[i]] = WithLength(q[i])
        OBVIOUS
      <3> HIDE DEF g
      <3> QED
        BY <3>1, Zenon DEF Mapped
    <2>2. [i \in 1 .. Len(q) |-> q[i].all] = Mapped(h, q)
      <3>1. \A i \in 1 .. Len(q) : h[q[i]] = q[i].all
        OBVIOUS
      <3> HIDE DEF h
      <3> QED
        BY <3>1, Zenon DEF Mapped
    <2> HIDE DEF g, h
    <2> QED
      BY <2>1, <2>2, Zenon DEF Packed, Inside, FlatMapped
  <1>4. \A m \in G : g[m] = WithLength(m) /\ h[m] = m.all
    OBVIOUS
  <1> HIDE DEF S, g, h
  <1>5. << >> \in Seq(G) /\ \A m \in G : Append(ps, m) \in Seq(G)
    OBVIOUS
  <1>6. /\ FlatMapped(g, << >>) = << >> /\ FlatMapped(g, ps) \in Seq(Byte)
        /\ \A m \in G : FlatMapped(g, Append(ps, m)) = FlatMapped(g, ps) \o g[m]
    BY <1>1, FlatMappedFacts DEF S
  <1>7. /\ FlatMapped(h, << >>) = << >> /\ FlatMapped(h, ps) \in Seq(S)
        /\ \A m \in G : FlatMapped(h, Append(ps, m)) = FlatMapped(h, ps) \o h[m]
    BY <1>2, FlatMappedFacts
  <1>8. Packed(<< >>) = << >> /\ Inside(<< >>) = << >>
    BY <1>3, <1>5, <1>6, <1>7
  <1>9. Packed(ps) \in Seq(Byte) /\ Inside(ps) \in Seq(S) /\ Len(Packed(ps)) \in Nat
    <2>1. Packed(ps) \in Seq(Byte) /\ Inside(ps) \in Seq(S)
      BY <1>3, <1>6, <1>7
    <2> QED
      BY <2>1
  <1>10. ASSUME NEW m \in G
         PROVE  /\ Packed(Append(ps, m)) = Packed(ps) \o WithLength(m)
                /\ Inside(Append(ps, m)) = Inside(ps) \o m.all
    <2>1. /\ Packed(Append(ps, m)) = FlatMapped(g, ps) \o g[m]
          /\ Inside(Append(ps, m)) = FlatMapped(h, ps) \o h[m]
      BY <1>3, <1>5, <1>6, <1>7
    <2> QED
      BY <1>3, <1>4, <2>1, Zenon
  <1> QED
    BY <1>8, <1>9, <1>10 DEF S

\* One part more: it ends where all of them end.
LEMMA PresentAppended ==
  ASSUME NEW G, \A m \in G : Sound(m), NEW ps \in Seq(G), NEW k \in Int
  PROVE  /\ Present(<< >>, k) = << >> /\ Present(ps, k) \in Seq(Seq(Byte))
         /\ \A m \in G :
              Present(Append(ps, m), k) =
                Present(ps, k) \o (IF Len(Packed(Append(ps, m))) <= k THEN m.all ELSE << >>)
  <1> DEFINE S == Seq(Byte)
             Item(q, i) == IF Len(Packed(SubSeq(q, 1, i))) <= k THEN q[i].all ELSE << >>
             Items(q) == [i \in 1 .. Len(q) |-> Item(q, i)]
  <1>1. \A m \in G : m.all \in Seq(S)
    BY DEF Sound
  <1> HIDE DEF S
  <1>2. << >> \in Seq(S)
    OBVIOUS
  <1>3. \A q \in Seq(G) : Items(q) \in Seq(Seq(S)) /\ Len(Items(q)) = Len(q)
    <2> SUFFICES ASSUME NEW q \in Seq(G)
                 PROVE  Items(q) \in Seq(Seq(S)) /\ Len(Items(q)) = Len(q)
      OBVIOUS
    <2> DEFINE U == Seq(S)
    <2>1. \A i \in 1 .. Len(q) : Item(q, i) \in U
      <3> HIDE DEF U
      <3>1. \A i \in 1 .. Len(q) : q[i].all \in U
        BY <1>1 DEF U
      <3> QED
        BY <1>2, <3>1 DEF U
    <2>2. Len(q) \in Nat
      OBVIOUS
    <2> HIDE DEF U, Item
    <2>3. Items(q) \in Seq(U) /\ Len(Items(q)) = Len(q)
      BY <2>1, <2>2
    <2> QED
      BY <2>3 DEF U
  <1>4. \A q : Present(q, k) = FlattenSeq(Items(q))
    BY Zenon DEF Present
  <1>f. /\ \A q \in Seq(Seq(S)) : FlattenSeq(q) \in Seq(S)
        /\ FlattenSeq(<< >>) = << >>
        /\ \A q \in Seq(Seq(S)), x \in Seq(S) : FlattenSeq(Append(q, x)) = FlattenSeq(q) \o x
    BY FlattenFacts
  <1>5. Present(<< >>, k) = << >>
    <2>1. Items(<< >>) = << >>
      OBVIOUS
    <2> HIDE DEF Items
    <2> QED
      BY <1>4, <1>f, <2>1
  <1>6. Present(ps, k) \in Seq(S)
    <2> HIDE DEF Items
    <2> QED
      BY <1>3, <1>4, <1>f
  <1>7. ASSUME NEW m \in G
        PROVE  Present(Append(ps, m), k) =
                 Present(ps, k) \o (IF Len(Packed(Append(ps, m))) <= k THEN m.all ELSE << >>)
    <2> DEFINE q == Append(ps, m)
               n == Len(ps)
               x == IF Len(Packed(q)) <= k THEN m.all ELSE << >>
    <2>1. /\ q \in Seq(G) /\ n \in Nat /\ Len(q) = n + 1 /\ q[n + 1] = m
          /\ \A i \in 1 .. n : q[i] = ps[i]
      OBVIOUS
    <2>2. \A i \in 1 .. n : SubSeq(q, 1, i) = SubSeq(ps, 1, i)
      OBVIOUS
    <2>3. SubSeq(q, 1, n + 1) = q
      BY <2>1
    <2> HIDE DEF q, n
    <2>4. \A i \in 1 .. n : Item(q, i) = Item(ps, i)
      BY <2>1, <2>2
    <2>5. Item(q, n + 1) = x
      BY <2>1, <2>3
    <2>6. x \in Seq(S)
      BY <1>1, <1>2
    <2> HIDE DEF Item, x
    <2>7. Items(q) = Append(Items(ps), x)
      <3> DEFINE U == Seq(S)
                 a == Items(q)
                 b == Items(ps)
      <3>1. a \in Seq(U) /\ Len(a) = n + 1 /\ b \in Seq(U) /\ Len(b) = n /\ x \in U
        <4> HIDE DEF Items
        <4> QED
          BY <1>3, <2>1, <2>6 DEF n
      <3>2. \A i \in 1 .. n + 1 : a[i] = Item(q, i)
        BY <2>1
      <3>3. \A i \in 1 .. n : b[i] = Item(ps, i)
        BY DEF n
      <3> HIDE DEF a, b, U
      <3>4. /\ Append(b, x) \in Seq(U) /\ Len(Append(b, x)) = n + 1
            /\ \A i \in 1 .. n : Append(b, x)[i] = b[i]
            /\ Append(b, x)[n + 1] = x
        BY <3>1, Appended
      <3>5. \A i \in 1 .. n + 1 : a[i] = Append(b, x)[i]
        <4> SUFFICES ASSUME NEW i \in 1 .. n + 1 PROVE a[i] = Append(b, x)[i]
          OBVIOUS
        <4>1. i \in 1 .. n \/ i = n + 1
          BY <2>1
        <4> QED
          BY <2>4, <2>5, <3>2, <3>3, <3>4, <4>1
      <3>6. a = Append(b, x)
        BY <3>1, <3>4, <3>5, SeqEqual
      <3> QED
        BY <3>6 DEF a, b
    <2> HIDE DEF Items
    <2>8. Present(q, k) = FlattenSeq(Items(ps)) \o x
      BY <1>3, <1>4, <1>f, <2>6, <2>7
    <2> QED
      BY <1>4, <2>8 DEF q, x
  <1> QED
    BY <1>5, <1>6, <1>7 DEF S

\* No part is there before anything is, and each is when everything is.
LEMMA PresentEnds ==
  ASSUME NEW G, \A m \in G : Sound(m), NEW ps \in Seq(G), NEW k \in Int
  PROVE  /\ k < 0 => Present(ps, k) = << >>
         /\ Len(Packed(ps)) <= k => Present(ps, k) = Inside(ps)
  <1> DEFINE S == Seq(Byte)
             T == {q \in Seq(G) : /\ k < 0 => Present(q, k) = << >>
                                  /\ Len(Packed(q)) <= k => Present(q, k) = Inside(q)}
  <1>1. << >> \in T
    <2>1. << >> \in Seq(G)
      OBVIOUS
    <2> QED
      BY <2>1, PresentAppended, PackedFacts, SMTT(20)
  <1>2. ASSUME NEW q \in Seq(G), NEW m \in G, q \in T PROVE Append(q, m) \in T
    <2> DEFINE r == Append(q, m)
    <2>0. r \in Seq(G)
      OBVIOUS
    <2>1. /\ Len(Packed(q)) \in Nat /\ Len(Packed(r)) \in Nat
          /\ Packed(r) = Packed(q) \o WithLength(m) /\ Inside(r) = Inside(q) \o m.all
          /\ Packed(q) \in Seq(Byte)
      BY <2>0, PackedFacts
    <2>2. WithLength(m) \in Seq(Byte)
      BY WrapFacts
    <2>3. Len(Packed(q)) <= Len(Packed(r))
      <3>1. Len(Packed(q) \o WithLength(m)) = Len(Packed(q)) + Len(WithLength(m)) /\ Len(WithLength(m)) \in Nat
        BY ONLY <2>1, <2>2, Concatenated
      <3> QED
        BY <2>1, <3>1
    <2>4. Present(r, k) = Present(q, k) \o (IF Len(Packed(r)) <= k THEN m.all ELSE << >>)
      BY PresentAppended
    <2> HIDE DEF r
    <2>5. ASSUME k < 0 PROVE Present(r, k) = << >>
      <3>1. ~(Len(Packed(r)) <= k) /\ Present(q, k) = << >>
        BY <1>2, <2>1, <2>5
      <3> QED
        BY <2>4, <3>1
    <2>6. ASSUME Len(Packed(r)) <= k PROVE Present(r, k) = Inside(r)
      <3>1. Len(Packed(q)) <= k
        BY <2>1, <2>3, <2>6
      <3> QED
        BY <1>2, <2>1, <2>4, <2>6, <3>1
    <2> QED
      BY <2>0, <2>5, <2>6 DEF r
  <1>3. Seq(G) \subseteq T
    <2> HIDE DEF T
    <2> QED
      BY <1>1, <1>2, SeqSetInduction
  <1> QED
    BY <1>3

\* d goes with p as far as both go.
Along(d, p) == \A i \in 1 .. Len(d) : i <= Len(p) => d[i] = p[i]

\* What is found in the beginning of packed parts: those that are there in full.
LEMMA WalkPacked ==
  ASSUME NEW G, \A m \in G : Sound(m), NEW ps \in Seq(G),
         NEW d \in Seq(Byte), Along(d, Packed(ps))
  PROVE  Walk(d, 0) = Present(ps, Len(d))
                      \o (IF Len(Packed(ps)) <= Len(d) THEN Walk(d, Len(Packed(ps))) ELSE << >>)
  <1> DEFINE S == Seq(Byte)
             n == Len(d)
             Rest(q) == IF Len(Packed(q)) <= n THEN Walk(d, Len(Packed(q))) ELSE << >>
             T == {q \in Seq(G) : Along(d, Packed(q)) => Walk(d, 0) = Present(q, n) \o Rest(q)}
  <1>0. n \in Nat /\ n \in Int
    OBVIOUS
  <1>1. << >> \in T
    <2>1. << >> \in Seq(G) /\ Packed(<< >>) = << >> /\ Present(<< >>, n) = << >>
      <3>1. << >> \in Seq(G)
        OBVIOUS
      <3> HIDE DEF n
      <3> QED
        BY <1>0, <3>1, PresentAppended, PackedFacts
    <2>2. Walk(d, 0) \in Seq(S)
      BY WalkType
    <2>3. << >> \o Walk(d, 0) = Walk(d, 0)
      <3> HIDE DEF S
      <3> QED
        BY <2>2
    <2>4. Len(<< >>) = 0 /\ 0 <= n
      BY <1>0
    <2> HIDE DEF n
    <2> QED
      BY <2>1, <2>3, <2>4
  <1>2. ASSUME NEW q \in Seq(G), NEW m \in G, q \in T, Along(d, Packed(Append(q, m)))
        PROVE  Walk(d, 0) = Present(Append(q, m), n) \o Rest(Append(q, m))
    <2> DEFINE r == Append(q, m)
               o == Len(Packed(q))
               z == 4 + Len(m.bytes)
               w == WithLength(m)
               X == Present(q, n)
               Y == IF o + z <= n THEN m.all ELSE << >>
    <2>0. r \in Seq(G) /\ Sound(m)
      OBVIOUS
    <2>1. o \in Nat /\ Packed(q) \in Seq(Byte) /\ Packed(r) = Packed(q) \o w
      BY PackedFacts
    <2>2. w \in Seq(Byte) /\ Len(w) = z /\ z \in Nat
      <3>1. w \in Seq(Byte) /\ Len(w) = z
        BY <2>0, WrapFacts
      <3> QED
        BY <3>1
    <2>3. /\ Len(Packed(r)) = o + z
          /\ \A i \in 1 .. o : Packed(r)[i] = Packed(q)[i]
          /\ \A i \in 1 .. z : Packed(r)[o + i] = w[i]
      <3>1. Packed(q) \in Seq(Byte) /\ w \in Seq(Byte)
        BY <2>1, <2>2
      <3>2. /\ Len(Packed(q) \o w) = Len(Packed(q)) + Len(w)
            /\ \A i \in 1 .. Len(Packed(q)) : (Packed(q) \o w)[i] = Packed(q)[i]
            /\ \A i \in 1 .. Len(w) : (Packed(q) \o w)[Len(Packed(q)) + i] = w[i]
        <4> HIDE DEF w
        <4> QED
          BY ONLY <3>1, Concatenated
      <3> QED
        BY <2>1, <2>2, <3>2
    <2>4. Present(r, n) = X \o Y
      <3>1. Present(r, n) = X \o (IF Len(Packed(r)) <= n THEN m.all ELSE << >>)
        <4> HIDE DEF n
        <4> QED
          BY <1>0, PresentAppended
      <3> QED
        BY <2>3, <3>1
    <2>5. X \in Seq(S) /\ m.all \in Seq(S)
      <3>1. X \in Seq(S)
        <4> HIDE DEF n
        <4> QED
          BY <1>0, PresentAppended
      <3> QED
        BY <2>0, <3>1 DEF Sound
    <2>6. Along(d, Packed(q))
      <3> SUFFICES ASSUME NEW i \in 1 .. Len(d), i <= Len(Packed(q))
                   PROVE  d[i] = Packed(q)[i]
        BY DEF Along
      <3>1. i \in 1 .. o /\ i <= o + z
        BY <2>1, <2>2
      <3>2. d[i] = Packed(r)[i]
        BY <1>2, <2>3, <3>1 DEF Along
      <3> QED
        BY <2>3, <3>1, <3>2
    <2>7. ASSUME NEW i \in 1 .. z, o + i <= n PROVE d[o + i] = w[i]
      <3>1. o + i \in 1 .. Len(d) /\ o + i <= o + z
        BY <2>1, <2>2, <2>7
      <3>2. d[o + i] = Packed(r)[o + i]
        BY <1>2, <2>3, <3>1 DEF Along
      <3> QED
        BY <2>3, <3>2
    <2>8. Walk(d, 0) = X \o Rest(q)
      BY <1>2, <2>6
    <2>9. CASE n < o
      <3>1. ~(o <= n) /\ ~(o + z <= n)
        BY <1>0, <2>1, <2>2, <2>9
      <3>2. Rest(q) = << >> /\ Rest(r) = << >> /\ Y = << >>
        BY <2>3, <3>1
      <3>3. X \o << >> = X
        <4> HIDE DEF X, S
        <4> QED
          BY <2>5
      <3> QED
        BY <2>4, <2>8, <3>2, <3>3
    <2>10. CASE o <= n /\ n < o + z
      <3>1. Walk(d, o) = << >>
        <4>1. o \in 0 .. Len(d) /\ Len(d) < o + (4 + Len(m.bytes))
          BY <1>0, <2>1, <2>10
        <4>2. \A i \in 1 .. Len(d) - o : d[o + i] = WithLength(m)[i]
          <5> SUFFICES ASSUME NEW i \in 1 .. Len(d) - o PROVE d[o + i] = w[i]
            OBVIOUS
          <5>1. i \in 1 .. z /\ o + i <= n
            BY <1>0, <2>1, <2>2, <2>10
          <5> QED
            BY <2>7, <5>1
        <4> HIDE DEF o
        <4> QED
          BY <2>0, <4>1, <4>2, NoPartAt
      <3>2. ~(o + z <= n)
        BY <1>0, <2>1, <2>2, <2>10
      <3>3. Rest(q) = << >> /\ Rest(r) = << >> /\ Y = << >>
        BY <2>3, <2>10, <3>1, <3>2
      <3>4. X \o << >> = X
        <4> HIDE DEF X, S
        <4> QED
          BY <2>5
      <3> QED
        BY <2>4, <2>8, <3>3, <3>4
    <2>11. CASE o + z <= n
      <3>1. Walk(d, o) = m.all \o Walk(d, o + z)
        <4>1. o \in Nat /\ o + (4 + Len(m.bytes)) <= Len(d)
          BY <2>1, <2>11
        <4>2. \A i \in 1 .. 4 + Len(m.bytes) : d[o + i] = WithLength(m)[i]
          <5> SUFFICES ASSUME NEW i \in 1 .. z PROVE d[o + i] = w[i]
            OBVIOUS
          <5>1. o + i <= n
            BY <1>0, <2>1, <2>2, <2>11
          <5> QED
            BY <2>7, <5>1
        <4> HIDE DEF o
        <4> QED
          BY <2>0, <4>1, <4>2, PartAt
      <3>2. Walk(d, o + z) \in Seq(S)
        <4>1. o + z \in Nat
          BY <2>1, <2>2
        <4> QED
          BY <4>1, WalkType
      <3>3. o <= n
        BY <1>0, <2>1, <2>2, <2>11
      <3> DEFINE V == Walk(d, o + z)
                 A == m.all
      <3>4. Rest(q) = A \o V /\ Rest(r) = V /\ Y = A
        BY <2>3, <2>11, <3>1, <3>3
      <3>5. X \o (A \o V) = (X \o A) \o V
        <4>1. X \in Seq(S) /\ A \in Seq(S) /\ V \in Seq(S)
          BY <2>5, <3>2
        <4> HIDE DEF X, A, V, S
        <4>2. (X \o A) \o V = X \o (A \o V)
          BY ONLY <4>1, Associative, SMTT(20)
        <4> QED
          BY ONLY <4>2
      <3> HIDE DEF V, A, X, Y
      <3> QED
        BY <2>4, <2>8, <3>4, <3>5
    <2> QED
      BY <1>0, <2>1, <2>2, <2>9, <2>10, <2>11
  <1>3. Seq(G) \subseteq T
    <2>1. ASSUME NEW q \in Seq(G), NEW m \in G, q \in T PROVE Append(q, m) \in T
      <3>1. Append(q, m) \in Seq(G)
        OBVIOUS
      <3> HIDE DEF Rest
      <3> QED
        BY <1>2, <2>1, <3>1
    <2> HIDE DEF T
    <2> QED
      BY <1>1, <2>1, SeqSetInduction
  <1> QED
    BY <1>3

\* c is x and the first j bytes of q.
Starts(c, x, q, j) == c = SubSeq(<<x>> \o q, 1, j + 1)

\* The beginning of a sequence without its first byte.
LEMMA TailCut ==
  ASSUME NEW x \in Byte, NEW q \in Seq(Byte), NEW j \in 0 .. Len(q),
         NEW c, Starts(c, x, q, j)
  PROVE  c # << >> /\ c[1] = x /\ Tail(c) = SubSeq(q, 1, j)
  <1> DEFINE r == <<x>> \o q
             e == SubSeq(q, 1, j)
             k == j + 1
  <1>0. Len(q) \in Nat /\ k \in Nat /\ k - 1 \in 0 .. Len(q) /\ k - 1 \in Nat
    OBVIOUS
  <1>1. /\ r \in Seq(Byte) /\ Len(r) = Len(q) + 1 /\ r[1] = x
        /\ \A i \in 1 .. Len(q) : r[i + 1] = q[i]
    OBVIOUS
  <1>2. c \in Seq(Byte) /\ Len(c) = k /\ \A i \in 1 .. k : c[i] = r[i]
    <2>1. k \in 0 .. Len(r) /\ c = SubSeq(r, 1, k)
      BY <1>0, <1>1 DEF Starts
    <2> HIDE DEF r
    <2>2. r \in Seq(Byte) /\ k \in 0 .. Len(r)
      BY <1>1, <2>1
    <2>3. /\ SubSeq(r, 1, k) \in Seq(Byte) /\ Len(SubSeq(r, 1, k)) = k
          /\ \A i \in 1 .. k : SubSeq(r, 1, k)[i] = r[i]
      BY ONLY <2>2, Beginning
    <2> QED
      BY ONLY <2>1, <2>3
  <1>3. e \in Seq(Byte) /\ Len(e) = k - 1 /\ \A i \in 1 .. k - 1 : e[i] = q[i]
    <2>1. j \in 0 .. Len(q) /\ j = k - 1
      BY <1>0
    <2> QED
      BY <2>1, Beginning
  <1> HIDE DEF r, e
  <1>4. c # << >> /\ c[1] = x
    <2>1. 1 \in 1 .. k /\ k # 0
      BY <1>0
    <2> QED
      BY <1>1, <1>2, <2>1
  <1>5. Tail(c) = e
    <2>1. /\ Tail(c) \in Seq(Byte) /\ Len(Tail(c)) = Len(c) - 1
          /\ \A i \in 1 .. Len(Tail(c)) : Tail(c)[i] = c[i + 1]
      BY <1>2, <1>4, HeadTail
    <2>2. ASSUME NEW i \in 1 .. Len(e) PROVE Tail(c)[i] = e[i]
      <3>1. i \in 1 .. k - 1 /\ i + 1 \in 1 .. k /\ i \in 1 .. Len(q) /\ i \in 1 .. Len(Tail(c))
        BY <1>0, <1>2, <1>3, <2>1
      <3> QED
        BY <1>1, <1>2, <1>3, <2>1, <3>1
    <2>3. Len(Tail(c)) = Len(e)
      BY <1>0, <1>2, <1>3, <2>1
    <2> QED
      BY <1>3, <2>1, <2>2, <2>3, SeqEqual
  <1> QED
    BY <1>4, <1>5 DEF e

\* In front of the parts: the size that they will have, which only has to be
\* other than 0 for what is compressed.
Flag(gz) == IF gz THEN <<9, 31>> ELSE <<0>>

\* What is unpacked from a Multi of which n bytes are there.
LEMMA CutUnpacked ==
  ASSUME NEW gz \in BOOLEAN, NEW p \in Seq(Byte), NEW header \in Seq(Byte),
         Len(header) < 128, header # BadHeader,
         NEW n \in 0 .. (8 + Len(header)) + Len(Flag(gz) \o p), n >= 8 + Len(header)
  PROVE  LET g == (8 + Len(header)) + Len(Flag(gz))
         IN Unpacked(SubSeq(Proto(Multi, header, Flag(gz) \o p), 1, n)) =
              IF g < n THEN SubSeq(p, 1, n - g) ELSE << >>
  <1> DEFINE h == 8 + Len(header)
             f == Flag(gz) \o p
             d == SubSeq(Proto(Multi, header, f), 1, n)
             k == n - h
             body == SubSeq(f, 1, k)
             b == MessageBody(body)
  <1>0. h \in Nat /\ n \in Nat /\ Multi \in Small /\ n >= h
    BY DEF Multi, Small
  <1>1. f \in Seq(Byte) /\ Len(p) \in Nat
    <2>1. Flag(gz) \in Seq(Byte)
      <3>1. 0 \in Byte /\ 9 \in Byte /\ 31 \in Byte
        BY DEF Byte
      <3> HIDE DEF Byte
      <3> QED
        BY <3>1 DEF Flag
    <2> QED
      BY <2>1
  <1>2. IsProto(d) /\ get_msg(d) = Multi /\ ProtoBody(d) = body
    <2>1. n \in 0 .. h + Len(f)
      OBVIOUS
    <2> HIDE DEF f
    <2> QED
      BY <1>0, <1>1, <2>1, ProtoCut
  <1>3. Unpacked(d) = IF SizeUnzipped(body) = 0 THEN b
                      ELSE IF Gunzips(b) THEN Gunzip(b) ELSE << >>
    BY <1>2 DEF Unpacked
  <1>4. n <= h + Len(f)
    OBVIOUS
  <1>5. CASE n = h
    <2>1. body = << >>
      <3>1. k = 0
        BY <1>0, <1>5
      <3> HIDE DEF k, f
      <3> QED
        BY <1>1, <3>1
    <2>2. Unpacked(d) = << >>
      BY <1>3, <2>1 DEF SizeUnzipped, MessageBody
    <2>3. ~(h + Len(Flag(gz)) < n)
      BY <1>0, <1>5 DEF Flag
    <2> QED
      BY <2>2, <2>3
  <1>6. CASE n # h /\ ~gz
    <2>1. 0 \in Byte /\ f = <<0>> \o p /\ k \in 1 .. Len(p) + 1
      <3>1. Flag(gz) = <<0>> /\ 0 \in Byte
        BY <1>6 DEF Flag, Byte
      <3>2. Len(f) = Len(p) + 1
        BY <1>1, <3>1
      <3>3. k \in 1 .. Len(p) + 1
        <4> HIDE DEF f, h
        <4> QED
          BY <1>0, <1>1, <1>4, <1>6, <3>2
      <3> QED
        BY <3>1, <3>3
    <2>2. body # << >> /\ body[1] = 0 /\ Tail(body) = SubSeq(p, 1, k - 1)
      <3> DEFINE z == 0
      <3> DEFINE i == k - 1
      <3>1. /\ z \in Byte /\ p \in Seq(Byte) /\ k \in 1 .. Len(p) + 1 /\ i = k - 1
            /\ body = SubSeq(<<z>> \o p, 1, k) /\ i \in 0 .. Len(p) /\ k = i + 1
        BY <2>1
      <3> HIDE DEF i, k, body, z
      <3>3. Starts(body, z, p, i)
        BY <3>1 DEF Starts
      <3>4. z \in Byte /\ i \in 0 .. Len(p) /\ p \in Seq(Byte)
        BY <3>1, Zenon
      <3>5. body # << >>
        BY <3>3, <3>4, TailCut, ZenonT(30)
      <3>6. body[1] = z
        BY <3>3, <3>4, TailCut, ZenonT(30)
      <3>7. Tail(body) = SubSeq(p, 1, i)
        BY <3>3, <3>4, TailCut, ZenonT(30)
      <3> QED
        BY <3>5, <3>6, <3>7 DEF i, z
    <2>3. Unpacked(d) = SubSeq(p, 1, k - 1)
      <3> HIDE DEF body, d
      <3> QED
        BY <1>3, <2>2 DEF SizeUnzipped, MessageBody
    <2>4. IF h + Len(Flag(gz)) < n THEN k - 1 = n - (h + Len(Flag(gz))) ELSE k - 1 = 0
      <3>1. Len(Flag(gz)) = 1
        BY <1>6 DEF Flag
      <3> HIDE DEF h
      <3> QED
        BY <1>0, <1>6, <3>1
    <2>5. SubSeq(p, 1, 0) = << >>
      OBVIOUS
    <2> HIDE DEF d, k, h
    <2> QED
      BY <2>3, <2>4, <2>5 DEF d, h
  <1>7. CASE n # h /\ gz
    <2> DEFINE j == k - 1
    <2>0. PICK q \in Seq(Byte) : q = <<31>> \o p
      <3>1. 31 \in Byte
        BY DEF Byte
      <3>2. <<31>> \o p \in Seq(Byte)
        BY <3>1
      <3> QED
        BY <3>2
    <2>1. /\ 9 \in Byte /\ 31 \in Byte /\ q \in Seq(Byte) /\ Len(q) = Len(p) + 1
          /\ f = <<9>> \o q /\ k \in 1 .. Len(q) + 1
      <3>1. Flag(gz) = <<9, 31>> /\ 9 \in Byte /\ 31 \in Byte
        BY <1>7 DEF Flag, Byte
      <3>2. <<9, 31>> \o p = <<9>> \o q /\ Len(<<9, 31>> \o p) = Len(p) + 2 /\ Len(q) = Len(p) + 1
        BY <2>0
      <3>3. q \in Seq(Byte)
        OBVIOUS
      <3>4. k \in 1 .. Len(q) + 1
        <4>1. Len(f) = Len(p) + 2
          BY <3>1, <3>2
        <4> HIDE DEF f, h
        <4> QED
          BY <1>0, <1>1, <1>4, <1>7, <3>2, <4>1
      <3> QED
        BY <3>1, <3>2, <3>3, <3>4
    <2>2. body # << >> /\ body[1] = 9 /\ Tail(body) = SubSeq(q, 1, j)
      <3> DEFINE z == 9
      <3>1. /\ z \in Byte /\ q \in Seq(Byte) /\ k \in 1 .. Len(q) + 1 /\ j = k - 1
            /\ body = SubSeq(<<z>> \o q, 1, k) /\ j \in 0 .. Len(q) /\ k = j + 1
        BY <2>1
      <3> HIDE DEF j, k, body, z
      <3>3. Starts(body, z, q, j)
        BY <3>1 DEF Starts
      <3>4. z \in Byte /\ j \in 0 .. Len(q) /\ q \in Seq(Byte)
        BY <3>1, Zenon
      <3>5. body # << >>
        BY <3>3, <3>4, TailCut, ZenonT(30)
      <3>6. body[1] = z
        BY <3>3, <3>4, TailCut, ZenonT(30)
      <3>7. Tail(body) = SubSeq(q, 1, j)
        BY <3>3, <3>4, TailCut
      <3> QED
        BY <3>5, <3>6, <3>7 DEF z
    <2>3. b = SubSeq(q, 1, j) /\ SizeUnzipped(body) # 0
      <3> HIDE DEF body, j
      <3>1. MessageBody(body) = Tail(body) /\ SizeUnzipped(body) = 9
        BY <2>2 DEF SizeUnzipped, MessageBody
      <3>2. b = SubSeq(q, 1, j)
        BY <2>2, <3>1
      <3>3. SizeUnzipped(body) # 0
        BY <3>1
      <3> QED
        BY <3>2, <3>3
    <2>4. j \in 0 .. Len(p) + 1 /\ j = n - (h + 1)
      <3> HIDE DEF h
      <3> QED
        BY <1>0, <1>1, <2>1
    <2>5. Len(Flag(gz)) = 2
      BY <1>7 DEF Flag
    <2>6. CASE j = 0
      <3>1. b = << >>
        <4> HIDE DEF b, j
        <4> QED
          BY <2>1, <2>3, <2>6
      <3>2. Unpacked(d) = << >>
        <4> HIDE DEF b, body, d
        <4> QED
          BY <1>3, <2>3, <3>1 DEF Gunzips
      <3>3. ~(h + Len(Flag(gz)) < n)
        <4> HIDE DEF h, j
        <4> QED
          BY <1>0, <2>4, <2>5, <2>6
      <3> QED
        BY <3>2, <3>3
    <2>7. CASE j # 0
      <3>1. j \in 1 .. Len(p) + 1
        <4> HIDE DEF j
        <4> QED
          BY <1>1, <2>4, <2>7
      <3>2. b # << >> /\ b[1] = 31 /\ Tail(b) = SubSeq(p, 1, j - 1)
        <4> DEFINE z == 31
        <4> DEFINE i == j - 1
        <4>1. /\ z \in Byte /\ p \in Seq(Byte) /\ j \in 1 .. Len(p) + 1 /\ i = j - 1
              /\ b = SubSeq(<<z>> \o p, 1, j) /\ i \in 0 .. Len(p) /\ j = i + 1
          <5>1. z \in Byte /\ p \in Seq(Byte)
            BY <2>1
          <5>2. b = SubSeq(<<z>> \o p, 1, j)
            BY <2>0, <2>3
          <5> HIDE DEF b, z, j
          <5>3. j \in 1 .. Len(p) + 1 /\ i = j - 1 /\ i \in 0 .. Len(p) /\ j = i + 1
            BY <1>1, <3>1
          <5> QED
            BY <5>1, <5>2, <5>3
        <4> HIDE DEF i, j, b, z
        <4>3. Starts(b, z, p, i)
          BY <4>1 DEF Starts
        <4>4. z \in Byte /\ i \in 0 .. Len(p) /\ p \in Seq(Byte)
          BY <4>1, Zenon
        <4>5. b # << >>
          BY <4>3, <4>4, TailCut, Zenon
        <4>6. b[1] = z
          BY <4>3, <4>4, TailCut, Zenon
        <4>7. Tail(b) = SubSeq(p, 1, i)
          BY <4>3, <4>4, TailCut
        <4> QED
          BY <4>5, <4>6, <4>7 DEF i, z
      <3>3. Unpacked(d) = SubSeq(p, 1, j - 1)
        <4> HIDE DEF b, body, d
        <4> QED
          BY <1>3, <2>3, <3>2 DEF Gunzips, Gunzip
      <3>4. IF h + Len(Flag(gz)) < n THEN j - 1 = n - (h + Len(Flag(gz))) ELSE j - 1 = 0
        <4> HIDE DEF h, j
        <4> QED
          BY <1>0, <2>4, <2>5, <2>7
      <3>5. SubSeq(p, 1, 0) = << >>
        OBVIOUS
      <3> HIDE DEF d, j, h
      <3> QED
        BY <3>3, <3>4, <3>5 DEF d, h
    <2> QED
      BY <2>6, <2>7
  <1> QED
    BY <1>5, <1>6, <1>7

\* The bytes of a Multi: it is a protobuf message with a flag and its parts in the body.
LEMMA PackBytes ==
  ASSUME NEW gz \in BOOLEAN, NEW p \in Seq(Byte), NEW header \in Seq(Byte), Len(header) < 128
  PROVE  /\ Flag(gz) \in Seq(Byte) /\ Len(Flag(gz)) \in Nat /\ Len(Flag(gz)) <= 2
         /\ Flag(gz) \o p \in Seq(Byte) /\ Len(Flag(gz) \o p) = Len(Flag(gz)) + Len(p)
         /\ Len(Proto(Multi, header, Flag(gz))) = (8 + Len(header)) + Len(Flag(gz))
         /\ Proto(Multi, header, Flag(gz)) \o p = Proto(Multi, header, Flag(gz) \o p)
  <1> DEFINE f == Flag(gz)
             s == (make_msg(Multi) \o LE(Len(header), 4)) \o header
  <1>1. f \in Seq(Byte) /\ Len(f) \in Nat /\ Len(f) <= 2
    <2>1. 0 \in Byte /\ 9 \in Byte /\ 31 \in Byte
      BY DEF Byte
    <2> HIDE DEF Byte
    <2>2. f \in Seq(Byte)
      BY <2>1 DEF Flag
    <2> QED
      BY <2>2 DEF Flag
  <1>2. Multi \in Small /\ Len(header) \in Small
    BY DEF Multi, Small
  <1>3. s \in Seq(Byte)
    <2> DEFINE a == make_msg(Multi)
               b == LE(Len(header), 4)
    <2>1. a \in Seq(Byte) /\ b \in Seq(Byte)
      BY <1>2, MadeMsg, Little
    <2> HIDE DEF a, b
    <2> DEFINE r == a \o b
    <2>2. r \in Seq(Byte)
      BY <2>1
    <2> HIDE DEF r
    <2>3. r \o header \in Seq(Byte)
      BY <2>2
    <2> QED
      BY <2>3 DEF r, a, b
  <1>4. \A body : Proto(Multi, header, body) = s \o body
    BY DEF Proto
  <1> HIDE DEF f, s
  <1>5. f \o p \in Seq(Byte) /\ Len(f \o p) = Len(f) + Len(p)
    BY <1>1
  <1>6. (s \o f) \o p = s \o (f \o p)
    BY <1>1, <1>3
  <1>7. Len(Proto(Multi, header, f)) = (8 + Len(header)) + Len(f)
    BY <1>1, <1>2, ProtoBytes
  <1> QED
    BY <1>1, <1>4, <1>5, <1>6, <1>7 DEF f

\* What is in the beginning of a Multi, by how it was composed.
LEMMA PackContents ==
  ASSUME NEW gz \in BOOLEAN, NEW G, \A m \in G : Sound(m), NEW ps \in Seq(G),
         NEW header \in Seq(Byte), Len(header) < 128, NEW n \in Nat
  PROVE  LET x == Pack(gz, ps, header)
             g == (8 + Len(header)) + Len(Flag(gz))
         IN /\ x.bytes = Proto(Multi, header, Flag(gz) \o Packed(ps))
            /\ x.all = <<x.bytes>> \o Inside(ps)
            /\ Contents(x, n) =
                 IF n < 8 + Len(header) THEN << >>
                 ELSE <<SubSeq(x.bytes, 1, n)>> \o Present(ps, n - g)
  <1> DEFINE x == Pack(gz, ps, header)
             h == 8 + Len(header)
             g == h + Len(Flag(gz))
             head == Proto(Multi, header, Flag(gz))
             p == Packed(ps)
             b == Proto(Multi, header, Flag(gz) \o p)
  <1>0. h \in Nat /\ g \in Nat /\ Multi \in Small
    <2>1. Len(Flag(gz)) \in Nat /\ Len(header) \in Nat
      BY DEF Flag
    <2> QED
      BY <2>1 DEF Multi, Small
  <1>1. p \in Seq(Byte)
    BY PackedFacts
  <1>2. Len(head) = g /\ head \o p = b /\ Flag(gz) \o p \in Seq(Byte)
    <2> HIDE DEF p
    <2> QED
      BY <1>1, PackBytes
  <1>3. x = [bytes |-> head \o p, seen |-> TRUE, parts |-> ps,
             ends |-> [i \in 1 .. Len(ps) |-> Len(head) + Len(Packed(SubSeq(ps, 1, i)))],
             all |-> <<head \o p>> \o Inside(ps)]
    BY Zenon DEF Pack, Flag, Inside
  <1>4. x.bytes = b /\ x.all = <<b>> \o Inside(ps) /\ x.parts = ps /\ x.seen = TRUE
        /\ x.ends = [i \in 1 .. Len(ps) |-> g + Len(Packed(SubSeq(ps, 1, i)))]
    <2> HIDE DEF x, head, p, b, g
    <2> QED
      BY <1>2, <1>3
  <1>5. HeaderEnd(b) = h
    <2> DEFINE f == Flag(gz) \o p
    <2>1. 0 \in 0 .. h + Len(f) /\ f \in Seq(Byte)
      BY <1>0, <1>2
    <2> HIDE DEF f
    <2>2. HeaderEnd(Proto(Multi, header, f)) = h
      BY <1>0, <2>1, ProtoCut
    <2> QED
      BY <2>2 DEF f
  <1>6. ASSUME NEW i \in 1 .. Len(ps)
        PROVE  x.ends[i] <= n <=> Len(Packed(SubSeq(ps, 1, i))) <= n - g
    <2>1. SubSeq(ps, 1, i) \in Seq(G)
      OBVIOUS
    <2>2. Len(Packed(SubSeq(ps, 1, i))) \in Nat
      BY <2>1, PackedFacts
    <2> HIDE DEF x, g, h
    <2>3. x.ends[i] = g + Len(Packed(SubSeq(ps, 1, i)))
      BY <1>4
    <2> QED
      BY <1>0, <2>2, <2>3
  <1> HIDE DEF x, b, g, h
  <1>7. [i \in 1 .. Len(x.parts) |-> IF x.ends[i] <= n THEN x.parts[i].all ELSE << >>]
        = [i \in 1 .. Len(ps) |-> IF Len(Packed(SubSeq(ps, 1, i))) <= n - g THEN ps[i].all ELSE << >>]
    BY <1>4, <1>6
  <1>8. Contents(x, n) = IF n < h THEN << >> ELSE <<SubSeq(b, 1, n)>> \o Present(ps, n - g)
    <2>1. Contents(x, n) =
            IF ~x.seen \/ n < HeaderEnd(x.bytes) THEN << >>
            ELSE <<SubSeq(x.bytes, 1, n)>>
                 \o FlattenSeq([i \in 1 .. Len(x.parts) |->
                      IF x.ends[i] <= n THEN x.parts[i].all ELSE << >>])
      BY Zenon DEF Contents
    <2>2. Present(ps, n - g) =
            FlattenSeq([i \in 1 .. Len(ps) |->
              IF Len(Packed(SubSeq(ps, 1, i))) <= n - g THEN ps[i].all ELSE << >>])
      BY Zenon DEF Present
    <2>3. Contents(x, n) =
            IF ~x.seen \/ n < HeaderEnd(x.bytes) THEN << >>
            ELSE <<SubSeq(x.bytes, 1, n)>> \o Present(ps, n - g)
      BY <1>7, <2>1, <2>2, Zenon
    <2> QED
      BY <1>4, <1>5, <2>3, Zenon
  <1> QED
    BY <1>4, <1>8, Zenon DEF x, b, g, h, p

\* ... and what its bytes are.
LEMMA PackedIn ==
  ASSUME NEW gz \in BOOLEAN, NEW G, \A m \in G : Sound(m), NEW ps \in Seq(G),
         NEW header \in Seq(Byte), Len(header) < 128
  PROVE  Pack(gz, ps, header).bytes = Proto(Multi, header, Flag(gz) \o Packed(ps))
  <1> DEFINE n == 0
  <1>1. n \in Nat
    OBVIOUS
  <1> HIDE DEF n
  <1> QED
    BY <1>1, PackContents, ZenonT(20)

\* A Multi packed from messages of which each is sound is sound: at every length,
\* it gives itself and then what there is in those of its parts that are there.
THEOREM PackSound ==
  ASSUME NEW gz \in BOOLEAN, NEW G, \A m \in G : Sound(m), NEW ps \in Seq(G),
         NEW header \in Seq(Byte), Len(header) < 128, header # BadHeader,
         Len(Pack(gz, ps, header).bytes) \in Small
  PROVE  Sound(Pack(gz, ps, header))
  <1> DEFINE x == Pack(gz, ps, header)
             h == 8 + Len(header)
             g == h + Len(Flag(gz))
             p == Packed(ps)
             f == Flag(gz) \o p
             b == Proto(Multi, header, f)
             S == Seq(Byte)
  <1>0. Len(header) \in Nat /\ h \in Nat /\ Multi \in Small /\ ~(Multi > MAX_EMSG)
    BY DEF Multi, Small, MAX_EMSG
  <1>1. p \in Seq(Byte) /\ Len(p) \in Nat /\ Inside(ps) \in Seq(Seq(Byte))
    BY PackedFacts
  <1>2. f \in Seq(Byte) /\ Len(Flag(gz)) \in Nat /\ Len(f) = Len(Flag(gz)) + Len(p)
    <2> HIDE DEF p
    <2> QED
      BY <1>1, PackBytes
  <1>3. b \in Seq(Byte) /\ Len(b) = h + Len(f)
    <2> HIDE DEF f
    <2> QED
      BY <1>0, <1>2, ProtoLength
  <1>4. /\ x.bytes = b /\ x.all = <<b>> \o Inside(ps)
        /\ \A n \in Nat : Contents(x, n) =
             IF n < h THEN << >> ELSE <<SubSeq(b, 1, n)>> \o Present(ps, n - g)
    <2>1. 0 \in Nat
      OBVIOUS
    <2>2. x.bytes = b /\ x.all = <<x.bytes>> \o Inside(ps)
      BY <2>1, PackContents
    <2>3. ASSUME NEW n \in Nat
          PROVE  Contents(x, n) = IF n < h THEN << >>
                                  ELSE <<SubSeq(x.bytes, 1, n)>> \o Present(ps, n - g)
      BY PackContents
    <2> HIDE DEF x, b, h, g
    <2> QED
      BY <2>2, <2>3
  <1>5. ASSUME NEW n \in 0 .. Len(b)
        PROVE  Arriving(SubSeq(b, 1, n)) = Contents(x, n)
    <2> DEFINE d == SubSeq(b, 1, n)
    <2>0. n \in Nat /\ n \in 0 .. h + Len(f) /\ n <= h + Len(f) /\ Len(f) \in Nat
      BY <1>2, <1>3
    <2>1. /\ ~(Len(d) >= MsgHdrSize /\ is_encryption_msg(d))
          /\ n < h => ~IsProto(d)
          /\ n >= h => IsProto(d) /\ get_msg(d) = Multi
      <3> HIDE DEF f
      <3> QED
        BY <1>0, <1>2, <2>0, ProtoCut
    <2>2. CASE n < h
      <3>1. ~Reaches(d)
        BY <2>1, <2>2 DEF Reaches
      <3>2. Arriving(d) = << >>
        BY <3>1 DEF Arriving
      <3>3. Contents(x, n) = << >>
        <4> HIDE DEF x, b, h, g
        <4> QED
          BY <1>4, <2>0, <2>2
      <3> QED
        BY <3>2, <3>3
    <2>3. CASE n >= h
      <3>1. Reaches(d)
        <4> HIDE DEF d
        <4> QED
          BY <1>0, <2>1, <2>3 DEF Reaches, Multi, MAX_EMSG
      <3>2. Unpacked(d) = IF g < n THEN SubSeq(p, 1, n - g) ELSE << >>
        <4>1. n \in 0 .. h + Len(Flag(gz) \o p) /\ n >= h
          BY <2>0, <2>3
        <4> HIDE DEF p
        <4> QED
          BY <1>1, <4>1, CutUnpacked
      <3>3. Walk(Unpacked(d), 0) = Present(ps, n - g)
        <4>1. CASE ~(g < n)
          <5>1. Unpacked(d) = << >>
            BY <3>2, <4>1
          <5>2. n - g \in Int /\ (n - g < 0 \/ n = g)
            <6>1. g \in Nat /\ n \in Nat
              BY <1>0, <1>2, <2>0
            <6> HIDE DEF g
            <6> QED
              BY ONLY <4>1, <6>1
          <5>3. CASE n - g < 0
            <6> DEFINE k == n - g
            <6>1. k \in Int /\ k < 0
              BY <5>2, <5>3
            <6> HIDE DEF k
            <6>2. Present(ps, k) = << >>
              BY <6>1, PresentEnds
            <6> QED
              BY <5>1, <6>2, WalkNothing DEF k
          <5>4. CASE n = g
            <6> DEFINE e == << >>
            <6>1. e \in Seq(Byte) /\ Len(e) = 0 /\ Along(e, p)
              BY DEF Along
            <6>2. n - g = 0
              <7> HIDE DEF g
              <7> QED
                BY <2>0, <5>4
            <6>3. Walk(e, 0) = Present(ps, Len(e))
                    \o (IF Len(p) <= Len(e) THEN Walk(e, Len(p)) ELSE << >>)
              <7> HIDE DEF e
              <7> QED
                BY <6>1, WalkPacked
            <6>4. Len(p) <= Len(e) => Walk(e, Len(p)) = << >>
              <7>1. Len(p) <= Len(e) => Len(p) = 0
                <8> HIDE DEF p, e
                <8> QED
                  BY <1>1, <6>1
              <7> QED
                BY <7>1, WalkNothing
            <6>5. Present(ps, 0) \o << >> = Present(ps, 0)
              <7> DEFINE z == Present(ps, 0)
              <7>1. 0 \in Int
                OBVIOUS
              <7>2. z \in Seq(S)
                BY <7>1, PresentAppended
              <7> HIDE DEF z, S
              <7>3. z \o << >> = z
                BY <7>2
              <7> QED
                BY <7>3 DEF z
            <6>6. Walk(e, 0) = Present(ps, 0)
              <7> HIDE DEF p
              <7> QED
                BY <6>1, <6>3, <6>4, <6>5
            <6> QED
              BY <5>1, <6>2, <6>6
          <5> QED
            BY <5>2, <5>3, <5>4
        <4>2. CASE g < n
          <5> DEFINE k == n - g
                     e == SubSeq(p, 1, k)
          <5>1. k \in 0 .. Len(p) /\ k \in Nat /\ k \in Int
            <6> HIDE DEF p, f
            <6> QED
              BY <1>0, <1>1, <1>2, <2>0, <4>2
          <5>2. Unpacked(d) = e
            BY <3>2, <4>2
          <5> HIDE DEF k
          <5>3. e \in Seq(Byte) /\ Len(e) = k /\ \A i \in 1 .. k : e[i] = p[i]
            <6> HIDE DEF p
            <6> QED
              BY <1>1, <5>1, Beginning
          <5> HIDE DEF e
          <5>4. Along(e, p)
            BY <5>3 DEF Along
          <5>5. Walk(e, 0) = Present(ps, k) \o (IF Len(p) <= k THEN Walk(e, Len(p)) ELSE << >>)
            BY <5>3, <5>4, WalkPacked
          <5>6. Len(p) <= k => Walk(e, Len(p)) = << >>
            <6> SUFFICES ASSUME Len(p) <= k PROVE Walk(e, Len(p)) = << >>
              OBVIOUS
            <6> HIDE DEF p
            <6>1. Len(p) \in 0 .. Len(e) /\ ~(Len(p) + 4 <= Len(e))
              BY <1>1, <5>1, <5>3
            <6>2. ~Fits(e, Len(p))
              BY <6>1 DEF Fits
            <6> QED
              BY <5>3, <6>1, <6>2, WalkFacts
          <5>7. Present(ps, k) \o << >> = Present(ps, k)
            <6> DEFINE z == Present(ps, k)
            <6>1. z \in Seq(S)
              BY <5>1, PresentAppended
            <6> HIDE DEF z, S
            <6>2. z \o << >> = z
              BY <6>1
            <6> QED
              BY <6>2 DEF z
          <5>8. Walk(e, 0) = Present(ps, k)
            <6> HIDE DEF p
            <6> QED
              BY <5>5, <5>6, <5>7
          <5> QED
            BY <5>2, <5>8 DEF k
        <4> QED
          BY <4>1, <4>2
      <3>4. Contents(x, n) = <<d>> \o Present(ps, n - g)
        <4>1. ~(n < h)
          <5> HIDE DEF h
          <5> QED
            BY <1>0, <2>0, <2>3
        <4> HIDE DEF x, b, h, g
        <4> QED
          BY <1>4, <2>0, <4>1
      <3>5. Arriving(d) = <<d>> \o Walk(Unpacked(d), 0)
        BY <3>1, Zenon DEF Arriving
      <3> QED
        BY <3>3, <3>4, <3>5, Zenon
    <2>4. n < h \/ n >= h
      <3> HIDE DEF h
      <3> QED
        BY <1>0, <2>0
    <2> QED
      BY <2>2, <2>3, <2>4
  <1>6. x.all \in Seq(Seq(Byte))
    <2>1. b \in S
      BY <1>3
    <2>2. Inside(ps) \in Seq(S)
      BY <1>1
    <2> DEFINE i == Inside(ps)
    <2> HIDE DEF S, b, i
    <2>3. <<b>> \o i \in Seq(S)
      BY <2>1, <2>2 DEF i
    <2> QED
      BY <1>4, <2>3 DEF S, i
  <1>7. Arriving(b) = x.all
    <2> DEFINE n == Len(b)
    <2>1. n \in 0 .. Len(b) /\ n \in Nat /\ SubSeq(b, 1, n) = b
      <3> HIDE DEF b
      <3> QED
        BY <1>3
    <2>2. Arriving(b) = Contents(x, n)
      <3> HIDE DEF b, x
      <3> QED
        BY <1>5, <2>1
    <2>3. ~(n < h) /\ n - g \in Int /\ Len(p) <= n - g
      <3> HIDE DEF h, b, f, p
      <3> QED
        BY <1>0, <1>1, <1>2, <1>3
    <2>4. Present(ps, n - g) = Inside(ps)
      <3> DEFINE k == n - g
      <3>1. k \in Int /\ Len(p) <= k
        BY <2>3
      <3> HIDE DEF k
      <3>2. Present(ps, k) = Inside(ps)
        BY <3>1, PresentEnds
      <3> QED
        BY <3>2 DEF k
    <2> HIDE DEF x, b, h, g, n
    <2> QED
      BY <1>4, <2>1, <2>2, <2>3, <2>4
  <1>8. Len(b) \in Small
    BY <1>4
  <1> HIDE DEF x, b
  <1>9. Sound(x)
    BY <1>3, <1>4, <1>5, <1>6, <1>7, <1>8 DEF Sound
  <1> QED
    BY <1>9 DEF x

-----------------------------------------------------------------------------
(* The documents of the run are sound.                                     *)

\* A message of at most n bytes that Arriving is right about.
SoundIn(m, n) == Sound(m) /\ Len(m.bytes) <= n

\* Bytes that begin with the type of a struct message.
Typed(b, id, n) == b \in Seq(Byte) /\ Len(b) = n /\ U32Value(b) = id

\* More bytes behind them.
LEMMA TypedMore ==
  ASSUME NEW b, NEW id, NEW n \in Nat, n >= 4, Typed(b, id, n), NEW r \in Seq(Byte)
  PROVE  Typed(b \o r, id, n + Len(r))
  <1>1. b \in Seq(Byte) /\ Len(b) = n /\ U32Value(b) = id
    BY DEF Typed
  <1> DEFINE c == b \o r
  <1>2. /\ c \in Seq(Byte) /\ Len(c) = Len(b) + Len(r) /\ Len(b) \in Nat
        /\ \A i \in 1 .. Len(b) : c[i] = b[i]
    <2>1. b \in Seq(Byte) /\ r \in Seq(Byte)
      BY <1>1
    <2> QED
      BY ONLY <2>1, Concatenated
  <1> HIDE DEF c
  <1>3. c[1] = b[1] /\ c[2] = b[2] /\ c[3] = b[3] /\ c[4] = b[4]
    BY <1>1, <1>2
  <1>4. U32Value(c) = id
    BY <1>1, <1>3 DEF U32Value
  <1> QED
    BY <1>1, <1>2, <1>4 DEF Typed, c

\* A type and the two job ids.
LEMMA TypedStart ==
  ASSUME NEW id \in Small
  PROVE  Typed(LE(id, 4) \o Jobs, id, 20)
  <1>1. Typed(LE(id, 4), id, 4)
    BY Little DEF Typed
  <1>2. Jobs \in Seq(Byte) /\ Len(Jobs) = 16
    <2>1. 16 \in Nat
      OBVIOUS
    <2> QED
      BY ONLY <2>1, MinusOne DEF Jobs
  <1>3. 4 \in Nat /\ 4 >= 4
    OBVIOUS
  <1>4. Typed(LE(id, 4) \o Jobs, id, 4 + Len(Jobs))
    BY ONLY <1>1, <1>2, <1>3, TypedMore
  <1> QED
    BY <1>2, <1>4

\* A request, a result, and the types of both.
LEMMA RequestBytes ==
  ASSUME NEW v \in Small, NEW u \in Small, NEW n \in 0 .. 99
  PROVE  Typed(EncRequest(v, u, n), ChannelEncryptRequest, 28 + n)
  <1> DEFINE id == ChannelEncryptRequest
             a == LE(id, 4) \o Jobs
             b == a \o LE(v, 4)
             c == b \o LE(u, 4)
             r == [i \in 1 .. n |-> i]
  <1>1. Typed(a, id, 20)
    <2>1. id \in Small
      BY SMT DEF ChannelEncryptRequest, Small
    <2> QED
      BY <2>1, TypedStart
  <1>2. /\ LE(v, 4) \in Seq(Byte) /\ Len(LE(v, 4)) = 4
        /\ LE(u, 4) \in Seq(Byte) /\ Len(LE(u, 4)) = 4
    BY Little
  <1>3. r \in Seq(Byte) /\ Len(r) = n
    <2>1. \A i \in 1 .. n : i \in Byte
      BY SMT DEF Byte
    <2> HIDE DEF Byte
    <2> QED
      BY <2>1
  <1> HIDE DEF a, b, c, r, id
  <1>4. Typed(b, id, 24)
    <2> DEFINE l == LE(v, 4)
    <2>1. l \in Seq(Byte) /\ Len(l) = 4 /\ 20 \in Nat /\ 20 >= 4 /\ 20 + 4 = 24
      BY <1>2
    <2> HIDE DEF l
    <2>2. Typed(a \o l, id, 20 + Len(l))
      BY <1>1, <2>1, TypedMore
    <2> QED
      BY <2>1, <2>2 DEF b, l
  <1>5. Typed(c, id, 28)
    <2> DEFINE l == LE(u, 4)
    <2>1. l \in Seq(Byte) /\ Len(l) = 4 /\ 24 \in Nat /\ 24 >= 4 /\ 24 + 4 = 28
      BY <1>2
    <2> HIDE DEF l
    <2>2. Typed(b \o l, id, 24 + Len(l))
      BY <1>4, <2>1, TypedMore
    <2> QED
      BY <2>1, <2>2 DEF c, l
  <1>6. Typed(c \o r, id, 28 + n)
    <2>1. 28 \in Nat /\ 28 >= 4
      OBVIOUS
    <2> QED
      BY <1>3, <1>5, <2>1, TypedMore
  <1> QED
    BY <1>6 DEF c, b, a, r, id, EncRequest

\* A result.
LEMMA ResultBytes ==
  ASSUME NEW r \in Small
  PROVE  Typed(EncResult(r), ChannelEncryptResult, 24)
  <1> DEFINE id == ChannelEncryptResult
             a == LE(id, 4) \o Jobs
             l == LE(r, 4)
  <1>1. Typed(a, id, 20)
    <2>1. id \in Small
      BY SMT DEF ChannelEncryptResult, Small
    <2> QED
      BY <2>1, TypedStart
  <1>2. l \in Seq(Byte) /\ Len(l) = 4 /\ 20 \in Nat /\ 20 >= 4 /\ 20 + 4 = 24
    BY Little
  <1> HIDE DEF a, id, l
  <1>3. Typed(a \o l, id, 20 + Len(l))
    BY <1>1, <1>2, TypedMore
  <1> QED
    BY <1>2, <1>3 DEF a, id, l, EncResult

\* A struct message of any type, by its bytes.
LEMMA TypedSound ==
  ASSUME NEW b, NEW id \in Small, NEW n \in 20 .. 100, Typed(b, id, n), NEW seen \in BOOLEAN,
         seen <=> id \in {ChannelEncryptRequest, ChannelEncryptResponse, ChannelEncryptResult}
  PROVE  SoundIn(Leaf(b, seen), 100)
  <1>1. b \in Seq(Byte) /\ Len(b) = n /\ U32Value(b) = id
    BY DEF Typed
  <1>2. Len(b) \in Small /\ Len(b) >= 20 /\ Len(b) <= 100
    BY <1>1, SMT DEF Small
  <1>3. U32Value(b) # Huge
    BY <1>1, SMT DEF Small, Huge
  <1>4. is_encryption_msg(b) = seen
    BY <1>1 DEF is_encryption_msg
  <1>5. Sound(Leaf(b, seen))
    BY <1>1, <1>2, <1>3, <1>4, StructSound
  <1>6. Leaf(b, seen).bytes = b
    BY DEF Leaf
  <1> QED
    BY <1>2, <1>5, <1>6 DEF SoundIn

\* The messages of the handshake, also those that are out of the ordinary.
LEMMA HandshakeSound == \A m \in Handshake \cup OddHandshake : SoundIn(m, 100)
  <1>0. /\ 0 \in Small /\ 1 \in Small /\ 2 \in Small /\ 16 \in 0 .. 99 /\ 17 \in 0 .. 99
        /\ ChannelEncryptRequest \in Small /\ ChannelEncryptResult \in Small
        /\ ChannelEncryptResponse \in Small
    BY SMT DEF Small, ChannelEncryptRequest, ChannelEncryptResult, ChannelEncryptResponse
  <1> DEFINE Encryption == {ChannelEncryptRequest, ChannelEncryptResponse, ChannelEncryptResult}
  <1>1. /\ ChannelEncryptRequest \in Encryption /\ ChannelEncryptResult \in Encryption
        /\ ChannelEncryptResponse \in Encryption
    OBVIOUS
  <1>2. ASSUME NEW v \in Small, NEW u \in Small, NEW n \in {16, 17}
        PROVE  SoundIn(Leaf(EncRequest(v, u, n), TRUE), 100)
    <2>1. n \in 0 .. 99 /\ 28 + n \in 20 .. 100
      OBVIOUS
    <2>2. Typed(EncRequest(v, u, n), ChannelEncryptRequest, 28 + n)
      BY <2>1, RequestBytes
    <2> DEFINE k == 28 + n
               b == EncRequest(v, u, n)
               id == ChannelEncryptRequest
    <2>3. /\ Typed(b, id, k) /\ id \in Small /\ k \in 20 .. 100
          /\ id \in {ChannelEncryptRequest, ChannelEncryptResponse, ChannelEncryptResult}
      BY <1>0, <2>1, <2>2
    <2> HIDE DEF k, b, id
    <2>4. SoundIn(Leaf(b, TRUE), 100)
      BY <2>3, TypedSound
    <2> QED
      BY <2>4 DEF b
  <1>3. ASSUME NEW r \in Small
        PROVE  SoundIn(Leaf(EncResult(r), TRUE), 100)
    <2> DEFINE b == EncResult(r)
               id == ChannelEncryptResult
    <2>1. /\ Typed(b, id, 24) /\ id \in Small /\ 24 \in 20 .. 100
          /\ id \in {ChannelEncryptRequest, ChannelEncryptResponse, ChannelEncryptResult}
      BY <1>0, ResultBytes
    <2> HIDE DEF b, id
    <2>2. SoundIn(Leaf(b, TRUE), 100)
      BY <2>1, TypedSound
    <2> QED
      BY <2>2 DEF b
  <1>4. SoundIn(Leaf(LE(ChannelEncryptResponse, 4) \o Jobs, TRUE), 100)
    <2> DEFINE id == ChannelEncryptResponse
               b == LE(id, 4) \o Jobs
    <2>1. /\ Typed(b, id, 20) /\ id \in Small /\ 20 \in 20 .. 100
          /\ id \in {ChannelEncryptRequest, ChannelEncryptResponse, ChannelEncryptResult}
      BY <1>0, TypedStart
    <2> HIDE DEF b, id
    <2>2. SoundIn(Leaf(b, TRUE), 100)
      BY <2>1, TypedSound
    <2> QED
      BY <2>2 DEF b, id
  <1>5. 16 \in {16, 17} /\ 17 \in {16, 17}
    OBVIOUS
  <1> HIDE DEF Encryption
  <1>6. /\ SoundIn(Leaf(EncRequest(1, 1, 16), TRUE), 100)
        /\ SoundIn(Leaf(EncRequest(2, 1, 16), TRUE), 100)
        /\ SoundIn(Leaf(EncRequest(1, 0, 16), TRUE), 100)
        /\ SoundIn(Leaf(EncRequest(1, 1, 17), TRUE), 100)
    BY <1>0, <1>2, <1>5
  <1>7. SoundIn(Leaf(EncResult(1), TRUE), 100) /\ SoundIn(Leaf(EncResult(2), TRUE), 100)
    BY <1>0, <1>3
  <1>8. ASSUME NEW m \in Handshake
        PROVE  m = Leaf(EncRequest(1, 1, 16), TRUE) \/ m = Leaf(EncResult(1), TRUE)
    BY Zenon DEF Handshake
  <1>9. ASSUME NEW m \in OddHandshake
        PROVE  \/ m = Leaf(EncRequest(2, 1, 16), TRUE) \/ m = Leaf(EncRequest(1, 0, 16), TRUE)
               \/ m = Leaf(EncRequest(1, 1, 17), TRUE) \/ m = Leaf(EncResult(2), TRUE)
               \/ m = Leaf(LE(ChannelEncryptResponse, 4) \o Jobs, TRUE)
    BY Zenon DEF OddHandshake
  <1>10. \A m \in Handshake : SoundIn(m, 100)
    BY <1>6, <1>7, <1>8, Zenon
  <1>11. \A m \in OddHandshake : SoundIn(m, 100)
    BY <1>4, <1>6, <1>7, <1>9, Zenon
  <1> QED
    BY <1>10, <1>11

\* The other messages.
LEMMA LeavesSound == \A m \in Leaves : SoundIn(m, 100)
  <1>0. /\ ClientLogOnResponse \in Small /\ MAX_EMSG \in Small /\ MAX_EMSG + 1 \in Small
        /\ ClientLogOnResponse # Multi /\ MAX_EMSG # Multi /\ MAX_EMSG + 1 # Multi
        /\ ClientLogOnResponse <= MAX_EMSG /\ MAX_EMSG <= MAX_EMSG /\ ~(MAX_EMSG + 1 <= MAX_EMSG)
    BY SMT DEF Small, ClientLogOnResponse, MAX_EMSG, Multi
  <1>1. ASSUME NEW id \in Small, id # Multi, NEW header \in Seq(Byte), Len(header) <= 1,
               NEW body \in Seq(Byte), Len(body) <= 1, NEW seen \in BOOLEAN,
               seen <=> id <= MAX_EMSG /\ header # BadHeader
        PROVE  SoundIn(Leaf(Proto(id, header, body), seen), 100)
    <2>1. Len(header) \in Nat /\ Len(body) \in Nat /\ Len(header) < 128
      BY <1>1
    <2>2. (8 + Len(header)) + Len(body) \in Small /\ (8 + Len(header)) + Len(body) <= 100
      BY <1>1, <2>1, SMT DEF Small
    <2>3. Sound(Leaf(Proto(id, header, body), id <= MAX_EMSG /\ header # BadHeader))
      BY <1>1, <2>1, <2>2, ProtoSound
    <2>4. (id <= MAX_EMSG /\ header # BadHeader) = seen
      BY <1>1
    <2>5. Len(Proto(id, header, body)) = (8 + Len(header)) + Len(body)
      BY <2>1, ProtoBytes
    <2>6. Leaf(Proto(id, header, body), seen).bytes = Proto(id, header, body)
      BY DEF Leaf
    <2> QED
      BY <2>2, <2>3, <2>4, <2>5, <2>6 DEF SoundIn
  <1>2. /\ <<1>> \in Seq(Byte) /\ Len(<<1>>) <= 1 /\ <<7>> \in Seq(Byte) /\ Len(<<7>>) <= 1
        /\ << >> \in Seq(Byte) /\ Len(<< >>) <= 1
        /\ BadHeader \in Seq(Byte) /\ Len(BadHeader) <= 1
        /\ <<1>> # BadHeader /\ << >> # BadHeader
    <2>1. 1 \in Byte /\ 7 \in Byte /\ 255 \in Byte
      BY SMT DEF Byte
    <2> HIDE DEF Byte
    <2> QED
      BY <2>1 DEF BadHeader
  <1>3. SoundIn(Leaf(Proto(ClientLogOnResponse, <<1>>, <<7>>), TRUE), 100)
    BY <1>0, <1>1, <1>2
  <1>4. SoundIn(Leaf(Proto(MAX_EMSG, << >>, << >>), TRUE), 100)
    BY <1>0, <1>1, <1>2
  <1>5. SoundIn(Leaf(Proto(MAX_EMSG + 1, << >>, << >>), FALSE), 100)
    BY <1>0, <1>1, <1>2
  <1>6. SoundIn(Leaf(Proto(ClientLogOnResponse, BadHeader, << >>), FALSE), 100)
    BY <1>0, <1>1, <1>2
  <1>7. ASSUME NEW b \in Seq(Byte), Len(b) <= 8, ~IsProto(b)
        PROVE  SoundIn(Leaf(b, FALSE), 100)
    <2>1. Len(b) <= 100
      BY <1>7
    <2>2. Leaf(b, FALSE).bytes = b
      BY DEF Leaf
    <2> QED
      BY <1>7, <2>1, <2>2, OtherSound DEF SoundIn
  <1>8. SoundIn(Leaf(make_msg(Multi) \o LE(-1, 4), FALSE), 100)
    <2> DEFINE p == make_msg(Multi)
               q == LE(-1, 4)
               b == p \o q
    <2>1. p \in Seq(Byte) /\ Len(p) = 4
      <3>1. Multi \in Small
        BY SMT DEF Multi, Small
      <3> QED
        BY <3>1, MadeMsg
    <2>2. q \in Seq(Byte) /\ Len(q) = 4 /\ q[4] = 255
      <3>1. 4 \in Nat /\ 4 \in 1 .. 4
        OBVIOUS
      <3>2. q \in Seq(Byte) /\ Len(q) = 4 /\ \A i \in 1 .. 4 : q[i] = 255
        <4>1. PICK w \in Nat : w = 4
          OBVIOUS
        <4>2. /\ LE(-1, w) \in Seq(Byte) /\ Len(LE(-1, w)) = w
              /\ \A i \in 1 .. w : LE(-1, w)[i] = 255
          BY MinusOne
        <4> QED
          BY ONLY <4>1, <4>2
      <3> HIDE DEF q
      <3> QED
        BY <3>1, <3>2
    <2> HIDE DEF p, q
    <2>3. b \in Seq(Byte) /\ Len(b) = 8 /\ b[8] = 255
      <3>1. 4 \in 1 .. 4 /\ 4 + 4 = 8
        OBVIOUS
      <3>2. /\ b \in Seq(Byte) /\ Len(b) = Len(p) + Len(q)
            /\ \A i \in 1 .. Len(q) : b[Len(p) + i] = q[i]
        <4>1. p \in Seq(Byte) /\ q \in Seq(Byte)
          BY <2>1, <2>2
        <4> QED
          BY ONLY <4>1, Concatenated
      <3> HIDE DEF b
      <3> QED
        BY <2>1, <2>2, <3>1, <3>2
    <2> HIDE DEF b
    <2>4. ProtoHeaderLength(b) = Huge
      BY <2>3, SMT DEF ProtoHeaderLength
    <2>5. ~(8 + ProtoHeaderLength(b) <= Len(b))
      BY <2>3, <2>4, SMT DEF Huge
    <2>6. ~IsProto(b)
      BY <2>5 DEF IsProto, ProtoHeaderReads
    <2>7. b \in Seq(Byte) /\ Len(b) <= 8
      BY <2>3
    <2>8. SoundIn(Leaf(b, FALSE), 100)
      BY ONLY <1>7, <2>6, <2>7
    <2> QED
      BY <2>8 DEF b, p, q
  <1>9. SoundIn(Leaf(LE(ClientLogOnResponse, 4) \o Jobs, FALSE), 100)
    <2> DEFINE id == ClientLogOnResponse
               b == LE(id, 4) \o Jobs
    <2>1. /\ Typed(b, id, 20) /\ id \in Small /\ 20 \in 20 .. 100
      BY <1>0, TypedStart
    <2>2. id \notin {ChannelEncryptRequest, ChannelEncryptResponse, ChannelEncryptResult}
      BY SMT DEF ClientLogOnResponse, ChannelEncryptRequest, ChannelEncryptResponse, ChannelEncryptResult
    <2> HIDE DEF b, id
    <2>3. SoundIn(Leaf(b, FALSE), 100)
      BY <2>1, <2>2, TypedSound
    <2> QED
      BY <2>3 DEF b, id
  <1>10. SoundIn(Leaf(<<1, 2>>, FALSE), 100)
    <2> DEFINE b == <<1, 2>>
    <2>1. 1 \in Byte /\ 2 \in Byte
      BY SMT DEF Byte
    <2>2. b \in Seq(Byte) /\ Len(b) = 2
      <3> HIDE DEF Byte
      <3> QED
        BY <2>1
    <2> HIDE DEF b
    <2>3. Len(b) <= 8 /\ ~IsProto(b)
      BY <2>2 DEF IsProto
    <2>4. SoundIn(Leaf(b, FALSE), 100)
      BY <1>7, <2>2, <2>3
    <2> QED
      BY <2>4 DEF b
  <1>11. ASSUME NEW m \in Leaves
         PROVE  \/ m = Leaf(Proto(ClientLogOnResponse, <<1>>, <<7>>), TRUE)
                \/ m = Leaf(Proto(MAX_EMSG, << >>, << >>), TRUE)
                \/ m = Leaf(Proto(MAX_EMSG + 1, << >>, << >>), FALSE)
                \/ m = Leaf(Proto(ClientLogOnResponse, BadHeader, << >>), FALSE)
                \/ m = Leaf(make_msg(Multi) \o LE(-1, 4), FALSE)
                \/ m = Leaf(LE(ClientLogOnResponse, 4) \o Jobs, FALSE)
                \/ m = Leaf(<<1, 2>>, FALSE)
    BY Zenon DEF Leaves
  <1> QED
    BY <1>3, <1>4, <1>5, <1>6, <1>8, <1>9, <1>10, <1>11, Zenon

\* Two elements, one after the other.
LEMMA Two ==
  ASSUME NEW G, NEW a \in G, NEW b \in G
  PROVE  /\ << >> \in Seq(G) /\ <<a>> \in Seq(G) /\ <<a, b>> \in Seq(G)
         /\ Append(<< >>, a) = <<a>> /\ Append(<<a>>, b) = <<a, b>>
  <1> DEFINE s == Append(<<a>>, b)
  <1>1. Len(s) = 2 /\ s[1] = a /\ s[2] = b
    OBVIOUS
  <1>2. s \in Seq({a, b})
    OBVIOUS
  <1> HIDE DEF s
  <1>3. s = <<a, b>>
    BY <1>1, <1>2
  <1>4. Append(<< >>, a) = <<a>>
    OBVIOUS
  <1>5. << >> \in Seq(G) /\ <<a>> \in Seq(G) /\ <<a, b>> \in Seq(G)
    OBVIOUS
  <1> QED
    BY <1>3, <1>4, <1>5 DEF s

\* What is packed of sound messages, and of one more.
LEMMA OneMore ==
  ASSUME NEW G, \A m \in G : Sound(m), NEW ps \in Seq(G), NEW m \in G
  PROVE  Packed(Append(ps, m)) = Packed(ps) \o WithLength(m)
  BY PackedFacts

\* What is packed of two messages.
LEMMA TwoPacked ==
  ASSUME NEW a, NEW b, Sound(a), Sound(b)
  PROVE  Packed(<<a, b>>) = (<< >> \o WithLength(a)) \o WithLength(b)
  <1> DEFINE H == {a, b}
             e == <<a>>
             z == << >>
  <1>1. \A m \in H : Sound(m)
    OBVIOUS
  <1>2. e \in Seq(H) /\ z \in Seq(H) /\ a \in H /\ b \in H
    OBVIOUS
  <1>3. Append(e, b) = <<a, b>> /\ Append(z, a) = e
    <2>1. a \in H /\ b \in H
      OBVIOUS
    <2> HIDE DEF H
    <2> QED
      BY <2>1, Two
  <1> HIDE DEF H, e, z
  <1>4. Packed(Append(e, b)) = Packed(e) \o WithLength(b)
    BY <1>1, <1>2, OneMore
  <1>5. Packed(Append(z, a)) = Packed(z) \o WithLength(a)
    BY <1>1, <1>2, OneMore
  <1>6. Packed(<< >>) = << >>
    BY <1>1, <1>2, PackedFacts
  <1> QED
    BY <1>3, <1>4, <1>5, <1>6 DEF z

\* A Multi of two sound messages.
LEMMA PairSound ==
  ASSUME NEW gz \in BOOLEAN, NEW k \in Nat, k <= 1000, NEW l \in Nat, l <= 1000,
         NEW top \in Nat, k + l + 19 <= top,
         NEW a, SoundIn(a, k), NEW b, SoundIn(b, l),
         NEW header \in Seq(Byte), Len(header) <= 1, header # BadHeader
  PROVE  SoundIn(Pack(gz, <<a, b>>, header), top)
  <1> DEFINE G == {a, b}
             two == <<a, b>>
             x == Pack(gz, two, header)
             p == Packed(two)
             u == WithLength(a)
             w == WithLength(b)
  <1>1. /\ \A m \in G : Sound(m)
        /\ a \in G /\ b \in G
    BY DEF SoundIn
  <1>2. /\ u \in Seq(Byte) /\ Len(u) = 4 + Len(a.bytes) /\ Len(a.bytes) \in Nat
        /\ w \in Seq(Byte) /\ Len(w) = 4 + Len(b.bytes) /\ Len(b.bytes) \in Nat
    <2>1. Sound(a) /\ Sound(b)
      BY DEF SoundIn
    <2> QED
      BY ONLY <2>1, WrapFacts, SMTT(20)
  <1>3. Len(a.bytes) <= k /\ Len(b.bytes) <= l
    BY DEF SoundIn
  <1> HIDE DEF G, u, w
  <1>4. << >> \in Seq(G) /\ <<a>> \in Seq(G) /\ two \in Seq(G)
        /\ Append(<< >>, a) = <<a>> /\ Append(<<a>>, b) = two
    BY <1>1, Two
  <1>5. p = (<< >> \o u) \o w
    <2>1. Sound(a) /\ Sound(b)
      BY DEF SoundIn
    <2> QED
      <3>1. Packed(<<a, b>>) = (<< >> \o WithLength(a)) \o WithLength(b)
        BY ONLY <2>1, TwoPacked, ZenonT(30)
      <3> QED
        BY ONLY <3>1 DEF u, w, p, two
  <1>6. p \in Seq(Byte) /\ Len(p) = Len(u) + Len(w)
    <2>1. << >> \o u = u
      BY <1>2
    <2>2. u \o w \in Seq(Byte) /\ Len(u \o w) = Len(u) + Len(w)
      <3>1. u \in Seq(Byte) /\ w \in Seq(Byte)
        BY <1>2
      <3> QED
        BY ONLY <3>1, Concatenated
    <2> HIDE DEF p
    <2> QED
      BY <1>5, <2>1, <2>2
  <1>7. Len(header) \in Nat /\ Len(header) < 128
    OBVIOUS
  <1>8. x.bytes = Proto(Multi, header, Flag(gz) \o p)
    <2>2. \A m \in G : Sound(m)
      BY <1>1
    <2>3. two \in Seq(G)
      BY <1>4
    <2> HIDE DEF two
    <2>4. gz \in BOOLEAN /\ header \in Seq(Byte) /\ Len(header) < 128
      BY <1>7
    <2> QED
      BY ONLY <2>2, <2>3, <2>4, PackedIn DEF p
  <1>9. Len(x.bytes) \in Nat /\ Len(x.bytes) <= k + l + 19
    <2> DEFINE f == Flag(gz) \o p
    <2>1. f \in Seq(Byte) /\ Len(f) = Len(Flag(gz)) + Len(p) /\ Len(Flag(gz)) \in Nat /\ Len(Flag(gz)) <= 2
      <3> HIDE DEF p
      <3> QED
        BY <1>6, <1>7, PackBytes, ZenonT(20)
    <2> HIDE DEF f, x, p
    <2>2. Multi \in Small
      BY SMT DEF Multi, Small
    <2>3. Len(Proto(Multi, header, f)) = (8 + Len(header)) + Len(f)
      BY <1>7, <2>1, <2>2, ProtoLength, ZenonT(20)
    <2>4. Len(x.bytes) = (8 + Len(header)) + Len(f)
      BY <1>8, <2>3 DEF f
    <2>5. /\ Len(p) = 8 + Len(a.bytes) + Len(b.bytes) /\ Len(a.bytes) \in Nat /\ Len(b.bytes) \in Nat
          /\ Len(a.bytes) <= k /\ Len(b.bytes) <= l /\ k \in Nat /\ l \in Nat
          /\ Len(header) \in Nat /\ Len(header) <= 1
      <3> HIDE DEF x, p, f
      <3>1. k \in Nat /\ l \in Nat /\ Len(header) <= 1
        OBVIOUS
      <3> DEFINE na == Len(a.bytes)
                 nb == Len(b.bytes)
                 nu == Len(u)
                 nw == Len(w)
                 np == Len(p)
      <3>2. np = nu + nw /\ nu = 4 + na /\ nw = 4 + nb /\ na \in Nat /\ nb \in Nat
        <4>1. nu = 4 + na /\ nw = 4 + nb /\ na \in Nat /\ nb \in Nat
          BY <1>2
        <4>2. np = nu + nw
          BY <1>6
        <4> QED
          BY <4>1, <4>2
      <3> HIDE DEF na, nb, nu, nw, np
      <3>3. np = 8 + na + nb
        BY <3>2
      <3> QED
        BY <1>2, <1>3, <1>7, <3>1, <3>3 DEF na, nb, np
    <2> DEFINE na == Len(a.bytes)
               nb == Len(b.bytes)
               nf == Len(f)
               nx == Len(x.bytes)
               np == Len(p)
               ng == Len(Flag(gz))
               nh == Len(header)
    <2>6. /\ np = 8 + na + nb /\ na \in Nat /\ nb \in Nat /\ na <= k /\ nb <= l /\ k \in Nat
          /\ l \in Nat /\ nh \in Nat /\ nh <= 1 /\ nf = ng + np /\ ng \in Nat /\ ng <= 2
          /\ nx = (8 + nh) + nf
      BY <2>1, <2>4, <2>5
    <2> HIDE DEF na, nb, nf, nx, np, ng, nh
    <2>7. nx \in Nat /\ nx <= k + l + 19
      BY <2>6
    <2> QED
      BY <2>7 DEF nx
  <1>10. Len(x.bytes) \in Small
    <2> DEFINE nx == Len(x.bytes)
    <2>1. nx \in Nat /\ nx <= k + l + 19 /\ k \in Nat /\ l \in Nat /\ k <= 1000 /\ l <= 1000
      BY <1>9
    <2> HIDE DEF nx
    <2>2. nx \in Nat /\ nx < 65536
      BY <2>1, SMT
    <2> QED
      BY <2>2 DEF Small, nx
  <1>11. Sound(x)
    <2> HIDE DEF two
    <2> QED
      BY <1>1, <1>4, <1>7, <1>10, PackSound
  <1>12. Len(x.bytes) <= top
    <2> DEFINE nx == Len(x.bytes)
    <2>1. nx \in Nat /\ nx <= k + l + 19 /\ k \in Nat /\ l \in Nat /\ top \in Nat /\ k + l + 19 <= top
      BY <1>9
    <2> HIDE DEF nx
    <2>2. nx <= top
      BY <2>1
    <2> QED
      BY <2>2 DEF nx
  <1> QED
    BY <1>11, <1>12 DEF SoundIn

\* ... of the sizes that there are.
LEMMA PairsSound ==
  ASSUME NEW gz \in BOOLEAN, NEW a, NEW b, SoundIn(b, 100),
         NEW header \in Seq(Byte), Len(header) <= 1, header # BadHeader
  PROVE  /\ SoundIn(a, 100) => SoundIn(Pack(gz, <<a, b>>, header), 219)
         /\ SoundIn(a, 219) => Sound(Pack(gz, <<a, b>>, header))
  <1> DEFINE low == 100
             mid == 219
             high == 1000
  <1>1. /\ low \in Nat /\ low <= 1000 /\ mid \in Nat /\ mid <= 1000 /\ high \in Nat /\ mid \in Nat
        /\ low + low + 19 <= mid /\ mid + low + 19 <= high
    OBVIOUS
  <1>2. SoundIn(b, low)
    OBVIOUS
  <1> HIDE DEF low, mid, high
  <1>3. ASSUME SoundIn(a, low) PROVE SoundIn(Pack(gz, <<a, b>>, header), mid)
    <2>1. /\ low \in Nat /\ low <= 1000 /\ mid \in Nat /\ low + low + 19 <= mid /\ SoundIn(a, low) /\ SoundIn(b, low)
          /\ gz \in BOOLEAN /\ header \in Seq(Byte) /\ Len(header) <= 1 /\ header # BadHeader
      BY <1>1, <1>2, <1>3
    <2> QED
      BY ONLY <2>1, PairSound, ZenonT(30)
  <1>4. ASSUME SoundIn(a, mid) PROVE Sound(Pack(gz, <<a, b>>, header))
    <2>1. SoundIn(Pack(gz, <<a, b>>, header), high)
      <3>1. /\ low \in Nat /\ low <= 1000 /\ mid \in Nat /\ mid <= 1000 /\ high \in Nat /\ mid + low + 19 <= high
            /\ SoundIn(a, mid) /\ SoundIn(b, low)
            /\ gz \in BOOLEAN /\ header \in Seq(Byte) /\ Len(header) <= 1 /\ header # BadHeader
        BY <1>1, <1>2, <1>4
      <3> QED
        BY ONLY <3>1, PairSound, ZenonT(30)
    <2> QED
      BY <2>1 DEF SoundIn
  <1> QED
    BY <1>3, <1>4 DEF low, mid

\* All that the server composes.
LEMMA ComposedSound == \A x \in Composed : Sound(x)
  <1>0. /\ << >> \in Seq(Byte) /\ Len(<< >>) <= 1 /\ << >> # BadHeader
        /\ <<5>> \in Seq(Byte) /\ Len(<<5>>) <= 1 /\ <<5>> # BadHeader
        /\ 100 \in 0 .. 1000 /\ 219 \in 0 .. 1000 /\ 100 + 100 + 19 = 219 /\ TRUE \in BOOLEAN
        /\ FALSE \in BOOLEAN
    <2>1. 5 \in Byte
      BY SMT DEF Byte
    <2> HIDE DEF Byte
    <2> QED
      BY <2>1 DEF BadHeader
  <1>1. \A m \in Handshake \cup OddHandshake : SoundIn(m, 100)
    BY HandshakeSound
  <1>2. \A m \in Leaves : SoundIn(m, 100)
    BY LeavesSound
  <1>3. ASSUME NEW gz \in BOOLEAN, NEW q \in Pairs
        PROVE  Sound(Pack(gz, q, << >>))
    <2>1. PICK a \in Leaves \cup Handshake, b \in Leaves : q = <<a, b>>
      BY DEF Pairs
    <2>2. SoundIn(a, 100) /\ SoundIn(b, 100)
      BY <1>1, <1>2
    <2> DEFINE header == << >>
    <2>3. header \in Seq(Byte) /\ Len(header) <= 1 /\ header # BadHeader
      BY <1>0
    <2> HIDE DEF header
    <2>4. SoundIn(Pack(gz, <<a, b>>, header), 219)
      BY <2>2, <2>3, PairsSound
    <2> QED
      BY <2>1, <2>4 DEF SoundIn, header
  <1>4. ASSUME NEW m \in Inner
        PROVE  SoundIn(m, 219)
    <2>1. PICK gz \in BOOLEAN, a \in Leaves, b \in Handshake : m = Pack(gz, <<a, b>>, <<5>>)
      BY DEF Inner
    <2>2. SoundIn(a, 100) /\ SoundIn(b, 100)
      BY <1>1, <1>2
    <2> DEFINE header == <<5>>
    <2>3. header \in Seq(Byte) /\ Len(header) <= 1 /\ header # BadHeader
      BY <1>0
    <2> HIDE DEF header
    <2>4. SoundIn(Pack(gz, <<a, b>>, header), 219)
      BY <2>2, <2>3, PairsSound
    <2> QED
      BY <2>1, <2>4 DEF header
  <1>5. ASSUME NEW m \in Inner, NEW l \in Handshake
        PROVE  Sound(Pack(FALSE, <<m, l>>, << >>))
    <2>1. SoundIn(m, 219) /\ SoundIn(l, 100)
      BY <1>1, <1>4
    <2> DEFINE header == << >>
    <2>3. header \in Seq(Byte) /\ Len(header) <= 1 /\ header # BadHeader /\ FALSE \in BOOLEAN
      BY <1>0
    <2> HIDE DEF header
    <2>4. Sound(Pack(FALSE, <<m, l>>, header))
      BY <2>1, <2>3, PairsSound
    <2> QED
      BY <2>4 DEF header
  <1>6. ASSUME NEW x \in Composed
        PROVE  \/ x \in Handshake \cup OddHandshake \/ x \in Leaves
               \/ \E gz \in BOOLEAN, q \in Pairs : x = Pack(gz, q, << >>)
               \/ \E m \in Inner, l \in Handshake : x = Pack(FALSE, <<m, l>>, << >>)
    <2> DEFINE A == {Pack(gz, q, << >>) : gz \in BOOLEAN, q \in Pairs}
               B == {Pack(FALSE, <<m, l>>, << >>) : m \in Inner, l \in Handshake}
    <2>1. Composed = Handshake \cup Leaves \cup OddHandshake \cup A \cup B
      BY DEF Composed
    <2>2. x \in A => \E gz \in BOOLEAN, q \in Pairs : x = Pack(gz, q, << >>)
      OBVIOUS
    <2>3. x \in B => \E m \in Inner, l \in Handshake : x = Pack(FALSE, <<m, l>>, << >>)
      <3> DEFINE P(m, l) == Pack(FALSE, <<m, l>>, << >>)
      <3>1. B = {P(m, l) : m \in Inner, l \in Handshake}
        OBVIOUS
      <3> HIDE DEF B, P
      <3>2. x \in B => \E m \in Inner, l \in Handshake : x = P(m, l)
        BY <3>1
      <3> QED
        BY <3>2 DEF P
    <2> HIDE DEF A, B
    <2>4. x \in Handshake \/ x \in Leaves \/ x \in OddHandshake \/ x \in A \/ x \in B
      BY <2>1
    <2> QED
      BY <2>2, <2>3, <2>4
  <1> QED
    BY <1>1, <1>2, <1>3, <1>5, <1>6 DEF SoundIn

-----------------------------------------------------------------------------
(* What the server has sent is dispatched.                                 *)

\* The script is made of the document, the last frame cut somewhere.
DocInv ==
  /\ doc \in Documents /\ (doc.enc => doc.pre)
  /\ \E n \in 0 .. Len(doc.x.bytes) : script = Frames(doc, n)

\* It stays as it is.
LEMMA DocCorrect == MCSpec => []DocInv
  <1>1. MCInit => DocInv
    BY DEF MCInit, DocInv
  <1>2. DocInv /\ [MCNext]_<<vars, doc>> => DocInv'
    <2> SUFFICES ASSUME DocInv, [MCNext]_<<vars, doc>> PROVE DocInv'
      OBVIOUS
    <2>1. UNCHANGED doc
      BY DEF MCNext
    <2>2. UNCHANGED script
      <3>1. CASE Next
        BY <3>1 DEF Next, Receive, Dispatch, read_frame
      <3>2. CASE UNCHANGED <<vars, doc>>
        BY <3>2 DEF vars
      <3> QED
        BY <3>1, <3>2 DEF MCNext
    <2> QED
      BY <2>1, <2>2 DEF DocInv
  <1> QED
    BY <1>1, <1>2, PTL DEF MCSpec

\* The intake of the composed frames is the intake.
LEMMA Intakes == MCSpec => Spec
  <1>1. MCInit => Init
    BY DEF MCInit
  <1>2. [MCNext]_<<vars, doc>> => [Next]_vars
    BY DEF MCNext
  <1> QED
    BY <1>1, <1>2, PTL DEF MCSpec, Spec

\* Three elements, one after the other.
LEMMA Three ==
  ASSUME NEW a, NEW b, NEW c
  PROVE  Append(<<a, b>>, c) = <<a, b, c>>
  <1> DEFINE s == Append(<<a, b>>, c)
  <1>1. Len(s) = 3 /\ s[1] = a /\ s[2] = b /\ s[3] = c
    OBVIOUS
  <1>2. s \in Seq({a, b, c})
    OBVIOUS
  <1> HIDE DEF s
  <1>3. s = <<a, b, c>>
    BY <1>1, <1>2
  <1> QED
    BY <1>3 DEF s

\* What is in one, two and three frames.
LEMMA InFrames ==
  ASSUME NEW f \in Frame, NEW g \in Frame, NEW h \in Frame
  PROVE  /\ <<f>> \in Seq(Frame) /\ AllIn(<<f>>) = Arriving(f.bytes)
         /\ AllIn(<<f, g>>) = Arriving(f.bytes) \o Arriving(g.bytes)
         /\ AllIn(<<f, g, h>>) = (Arriving(f.bytes) \o Arriving(g.bytes)) \o Arriving(h.bytes)
  <1> DEFINE p == <<f>>
             q == <<f, g>>
             r == <<f, g, h>>
             z == << >>
             a == Arriving(f.bytes)
  <1>1. /\ z \in Seq(Frame) /\ p \in Seq(Frame) /\ q \in Seq(Frame) /\ r \in Seq(Frame)
        /\ Append(z, f) = p
    OBVIOUS
  <1>2. Append(p, g) = q
    BY Two
  <1>3. Append(q, h) = r
    BY Three
  <1>4. a \in Seq(Seq(Byte))
    BY ArrivingType DEF Frame
  <1>5. z \o a = a
    BY <1>4
  <1> HIDE DEF p, q, r, z, a
  <1>6. AllIn(p) = AllIn(z) \o a
    BY <1>1, AllInAppended DEF a
  <1>7. AllIn(z) = z
    BY <1>1, AllInAppended DEF z
  <1>8. AllIn(q) = AllIn(p) \o Arriving(g.bytes)
    BY <1>1, <1>2, AllInAppended
  <1>9. AllIn(r) = AllIn(q) \o Arriving(h.bytes)
    BY <1>1, <1>3, AllInAppended
  <1>10. AllIn(p) = a
    BY <1>5, <1>6, <1>7
  <1> QED
    BY <1>1, <1>8, <1>9, <1>10 DEF p, q, r, a

\* What is in some frames comes before what is in more.
LEMMA AllInConcat ==
  ASSUME NEW fs \in Seq(Frame), NEW gs \in Seq(Frame)
  PROVE  AllIn(fs \o gs) = AllIn(fs) \o AllIn(gs)
  <1> DEFINE U == Seq(Byte)
             T == {q \in Seq(Frame) : AllIn(fs \o q) = AllIn(fs) \o AllIn(q)}
  <1>1. << >> \in T
    <2>1. fs \o << >> = fs /\ << >> \in Seq(Frame)
      OBVIOUS
    <2>2. AllIn(fs) \in Seq(U) /\ AllIn(<< >>) = << >>
      BY AllInAppended
    <2>3. AllIn(fs) \o << >> = AllIn(fs)
      <3> HIDE DEF U
      <3> QED
        BY <2>2
    <2> QED
      BY <2>1, <2>2, <2>3
  <1>2. ASSUME NEW q \in Seq(Frame), NEW f \in Frame, q \in T
        PROVE  Append(q, f) \in T
    <2> DEFINE s == fs \o q
               a == Arriving(f.bytes)
    <2>1. s \in Seq(Frame) /\ fs \o Append(q, f) = Append(s, f) /\ Append(q, f) \in Seq(Frame)
      OBVIOUS
    <2>2. AllIn(s) = AllIn(fs) \o AllIn(q)
      BY <1>2
    <2> HIDE DEF s, a, U
    <2>3. AllIn(Append(s, f)) = AllIn(s) \o a
      BY <2>1, AllInAppended DEF a
    <2>4. AllIn(Append(q, f)) = AllIn(q) \o a
      BY AllInAppended DEF a
    <2>5. (AllIn(fs) \o AllIn(q)) \o a = AllIn(fs) \o (AllIn(q) \o a)
      <3> DEFINE x == AllIn(fs)
                 y == AllIn(q)
      <3>1. x \in Seq(U) /\ y \in Seq(U)
        BY AllInAppended DEF U
      <3>2. a \in Seq(U)
        BY ArrivingType DEF Frame, a, U
      <3> HIDE DEF x, y
      <3>3. (x \o y) \o a = x \o (y \o a)
        <4>1. x \in Seq(U) /\ y \in Seq(U) /\ a \in Seq(U)
          BY <3>1, <3>2
        <4> QED
          BY ONLY <4>1, Associative, SMTT(20)
      <3> QED
        BY <3>3 DEF x, y
    <2> QED
      BY <2>1, <2>2, <2>3, <2>4, <2>5
  <1>3. Seq(Frame) \subseteq T
    <2> HIDE DEF T
    <2> QED
      BY <1>1, <1>2, SeqSetInduction
  <1> QED
    BY <1>3

\* Elements in a row.
LEMMA Joined ==
  ASSUME NEW a, NEW b, NEW c
  PROVE  <<a>> \o <<b>> = <<a, b>> /\ <<a, b>> \o <<c>> = <<a, b, c>>
  <1> DEFINE s == <<a>> \o <<b>>
             t == <<a, b>> \o <<c>>
  <1>1. Len(s) = 2 /\ s[1] = a /\ s[2] = b /\ s \in Seq({a, b})
    OBVIOUS
  <1>2. Len(t) = 3 /\ t[1] = a /\ t[2] = b /\ t[3] = c /\ t \in Seq({a, b, c})
    OBVIOUS
  <1> HIDE DEF s, t
  <1>3. s = <<a, b>>
    BY <1>1
  <1>4. t = <<a, b, c>>
    BY <1>2
  <1> QED
    BY <1>3, <1>4 DEF s, t

\* The frames of the handshake.
RequestFrame == Clear(EncRequest(1, 1, 16))
ResultFrame == Clear(EncResult(1))

\* Each of them is one message.
LEMMA HandshakeFrames ==
  /\ RequestFrame \in Frame /\ Arriving(RequestFrame.bytes) = <<RequestFrame.bytes>>
  /\ ResultFrame \in Frame /\ Arriving(ResultFrame.bytes) = <<ResultFrame.bytes>>
  /\ U32Value(RequestFrame.bytes) # ChannelEncryptResult
  <1> DEFINE p == EncRequest(1, 1, 16)
             r == EncResult(1)
  <1>1. Sound(Leaf(p, TRUE)) /\ Sound(Leaf(r, TRUE))
    <2>1. Leaf(p, TRUE) \in Handshake /\ Leaf(r, TRUE) \in Handshake
      BY DEF Handshake
    <2> HIDE DEF p, r
    <2> QED
      BY <2>1, HandshakeSound DEF SoundIn
  <1>2. U32Value(p) = ChannelEncryptRequest
    <2>1. 1 \in Small /\ 16 \in 0 .. 99
      BY SMT DEF Small
    <2> QED
      BY <2>1, RequestBytes DEF Typed
  <1> HIDE DEF p, r
  <1>3. ASSUME NEW b, Sound(Leaf(b, TRUE))
        PROVE  Clear(b) \in Frame /\ Clear(b).bytes = b /\ Arriving(b) = <<b>>
    <2>1. Leaf(b, TRUE).bytes = b /\ Leaf(b, TRUE).all = <<b>>
      BY DEF Leaf
    <2>2. b \in Seq(Byte) /\ Arriving(b) = <<b>>
      BY <1>3, <2>1 DEF Sound
    <2> QED
      BY <2>2 DEF Clear, Frame
  <1>4. RequestFrame = Clear(p) /\ ResultFrame = Clear(r)
    BY DEF RequestFrame, ResultFrame, p, r
  <1>5. ChannelEncryptRequest # ChannelEncryptResult
    BY DEF ChannelEncryptRequest, ChannelEncryptResult
  <1> QED
    BY <1>1, <1>2, <1>3, <1>4, <1>5

\* What there is in the frames of the script is what the document makes expect.
LEMMA ScriptFrames ==
  ASSUME DocInv
  PROVE  \E h \in Frame :
           /\ h.enc = doc.enc
           /\ script = IF doc.pre THEN <<RequestFrame, ResultFrame, h>> ELSE <<h>>
           /\ Expected = AllIn(script)
  <1> DEFINE x == doc.x
             b == x.bytes
             U == Seq(Byte)
  <1>1. doc \in Documents /\ (doc.enc => doc.pre) /\ doc.pre \in BOOLEAN /\ doc.enc \in BOOLEAN
    BY DEF DocInv, Documents
  <1>2. PICK n \in 0 .. Len(b) : script = Frames(doc, n)
    BY DEF DocInv
  <1>3. Sound(x)
    <2>1. x \in Composed
      BY <1>1 DEF Documents
    <2> HIDE DEF x
    <2> QED
      BY <2>1, ComposedSound
  <1> DEFINE c == SubSeq(b, 1, n)
             h == [enc |-> doc.enc, bytes |-> c]
  <1> HIDE DEF x, U
  <1>4. b \in U /\ Arriving(c) = Contents(x, n)
    BY <1>2, <1>3 DEF Sound, U
  <1>5. c \in U /\ Len(c) = n
    <2>1. b \in Seq(Byte) /\ 1 \in Nat \ {0} /\ n \in Nat /\ n <= Len(b) /\ 1 <= n + 1 /\ n - 1 + 1 = n
      BY <1>2, <1>4 DEF U
    <2> HIDE DEF b
    <2>2. c \in Seq(Byte) /\ Len(c) = n - 1 + 1
      BY ONLY <2>1, Cut
    <2> QED
      BY <2>1, <2>2 DEF U
  <1> HIDE DEF c, b
  <1>6. h \in Frame /\ h.enc = doc.enc /\ h.bytes = c
    BY <1>1, <1>5 DEF Frame, U
  <1>7. script = (IF doc.pre THEN <<RequestFrame, ResultFrame>> ELSE << >>) \o <<h>>
    BY <1>2 DEF Frames, RequestFrame, ResultFrame, c, b, x
  <1> HIDE DEF h
  <1>8. script = IF doc.pre THEN <<RequestFrame, ResultFrame, h>> ELSE <<h>>
    <2>1. <<RequestFrame, ResultFrame>> \o <<h>> = <<RequestFrame, ResultFrame, h>>
      BY Joined
    <2>2. << >> \o <<h>> = <<h>>
      OBVIOUS
    <2> QED
      BY <1>7, <2>1, <2>2
  <1>9. LastFrame = h
    <2>1. <<RequestFrame, ResultFrame, h>>[3] = h /\ Len(<<RequestFrame, ResultFrame, h>>) = 3
          /\ <<h>>[1] = h /\ Len(<<h>>) = 1
      OBVIOUS
    <2> QED
      BY <1>8, <2>1 DEF LastFrame
  <1>10. Expected = (IF doc.pre THEN <<script[1].bytes, script[2].bytes>> ELSE << >>) \o Arriving(c)
    BY <1>4, <1>5, <1>6, <1>9 DEF Expected, x
  <1>11. Arriving(c) \in Seq(U)
    BY <1>5, ArrivingType DEF U
  <1>12. Expected = AllIn(script)
    <2>1. CASE ~doc.pre
      <3>1. AllIn(script) = Arriving(c)
        BY <1>6, <1>8, <2>1, InFrames
      <3>2. << >> \o Arriving(c) = Arriving(c)
        BY <1>11
      <3> QED
        BY <1>10, <2>1, <3>1, <3>2
    <2>2. CASE doc.pre
      <3> DEFINE p == RequestFrame.bytes
                 r == ResultFrame.bytes
      <3>1. AllIn(script) = (<<p>> \o <<r>>) \o Arriving(c)
        <4>1. AllIn(<<RequestFrame, ResultFrame, h>>)
                = (Arriving(p) \o Arriving(r)) \o Arriving(h.bytes)
          BY <1>6, HandshakeFrames, InFrames
        <4>2. Arriving(p) = <<p>> /\ Arriving(r) = <<r>>
          BY HandshakeFrames
        <4> QED
          BY <1>6, <1>8, <2>2, <4>1, <4>2
      <3>2. script[1].bytes = p /\ script[2].bytes = r
        BY <1>8, <2>2
      <3> HIDE DEF p, r
      <3>3. <<p>> \o <<r>> = <<p, r>>
        BY Joined
      <3> QED
        BY <1>10, <2>2, <3>1, <3>2, <3>3
    <2> QED
      BY <1>1, <2>1, <2>2
  <1> QED
    BY <1>6, <1>8, <1>12

\* The dispatched messages are those of the document.
LEMMA DispatchedMeans ==
  ASSUME TypeInv, IntakeInv, DocInv
  PROVE  DispatchedAsSent
  <1> DEFINE U == Seq(Byte)
             k == Len(script) - Len(rx)
  <1>0. ScriptInv /\ LogInv /\ SecuredInv
    BY DEF IntakeInv
  <1>1. PICK h \in Frame :
           /\ h.enc = doc.enc
           /\ script = IF doc.pre THEN <<RequestFrame, ResultFrame, h>> ELSE <<h>>
           /\ Expected = AllIn(script)
    BY ScriptFrames
  <1>2. /\ script \in Seq(Frame) /\ rx \in Seq(Frame) /\ Len(rx) \in Nat /\ Len(script) \in Nat
        /\ Len(rx) <= Len(script) /\ k \in 0 .. Len(script)
        /\ \A i \in 1 .. Len(rx) : rx[i] = script[k + i]
    <2>1. script \in Seq(Frame) /\ rx \in Seq(Frame) /\ Len(rx) \in Nat /\ Len(script) \in Nat
          /\ Len(rx) <= Len(script)
      BY <1>0 DEF TypeInv, ScriptInv
    <2> QED
      BY <1>0, <2>1 DEF ScriptInv
  <1>3. Received = SubSeq(script, 1, k)
    BY DEF Received
  <1> HIDE DEF k
  <1>4. /\ Received \in Seq(Frame) /\ Len(Received) = k
        /\ \A i \in 1 .. k : Received[i] = script[i]
    <2>1. 1 \in Nat \ {0} /\ k \in Nat /\ k <= Len(script) /\ 1 <= k + 1 /\ k - 1 + 1 = k
      BY <1>2
    <2>2. /\ SubSeq(script, 1, k) \in Seq(Frame) /\ Len(SubSeq(script, 1, k)) = k - 1 + 1
          /\ \A i \in 1 .. k - 1 + 1 : SubSeq(script, 1, k)[i] = script[1 + i - 1]
      BY <1>2, <2>1, Cut
    <2>3. \A i \in 1 .. k : 1 + i - 1 = i
      BY <2>1
    <2> QED
      BY <1>3, <2>1, <2>2, <2>3
  <1>5. CASE ~crashed
    <2>1. script = Received \o rx
      <3> DEFINE s == Received \o rx
      <3>1. s \in Seq(Frame) /\ Len(s) = Len(script)
        BY <1>2, <1>4 DEF k
      <3>2. \A i \in 1 .. Len(script) : s[i] = script[i]
        <4> SUFFICES ASSUME NEW i \in 1 .. Len(script) PROVE s[i] = script[i]
          OBVIOUS
        <4>1. k \in Nat /\ Len(Received) = k /\ Len(rx) = Len(script) - k
          BY <1>2, <1>4 DEF k
        <4>2. CASE i \in 1 .. k
          BY <1>2, <1>4, <4>1, <4>2
        <4>3. CASE i - k \in 1 .. Len(rx)
          <5>1. s[k + (i - k)] = rx[i - k]
            BY <1>2, <1>4, <4>1, <4>3
          <5>2. k + (i - k) = i /\ rx[i - k] = script[k + (i - k)]
            BY <1>2, <4>1, <4>3
          <5> QED
            BY <5>1, <5>2
        <4> QED
          BY <4>1, <4>2, <4>3
      <3> HIDE DEF s
      <3>3. s = script
        BY <1>2, <3>1, <3>2
      <3> QED
        BY <3>3 DEF s
    <2> DEFINE p == Pending(stack)
               r == AllIn(rx)
    <2>2. Expected = AllIn(Received) \o r
      BY <1>1, <1>2, <1>4, <2>1, AllInConcat
    <2>3. log \in Seq(U) /\ log \o p = AllIn(Received)
      BY <1>0, <1>5 DEF LogInv, TypeInv
    <2>4. p \in Seq(U) /\ (stack = << >> => p = << >>)
      <3>1. stack \in Seq(Call) /\ Unpacking(<< >>) \in Call
        <4>1. << >> \in Seq(Byte)
          OBVIOUS
        <4> QED
          BY <4>1, CallTypes DEF TypeInv, Nested
      <3> QED
        BY <3>1, PendingPushed
    <2>5. r \in Seq(U) /\ (rx = << >> => r = << >>)
      BY <1>2, AllInAppended
    <2> HIDE DEF p, r, U
    <2>6. Expected = log \o (p \o r)
      <3>1. (log \o p) \o r = log \o (p \o r)
        <4>1. log \in Seq(U) /\ p \in Seq(U) /\ r \in Seq(U)
          BY <2>3, <2>4, <2>5
        <4> QED
          BY ONLY <4>1, Associative
      <3> QED
        BY <2>2, <2>3, <3>1
    <2>7. p \o r \in Seq(U)
      BY <2>4, <2>5
    <2>8. IsPrefix(log, Expected)
      BY <2>3, <2>6, <2>7, PrefixOfConcat
    <2>9. rx = << >> /\ stack = << >> => log = Expected
      <3>1. << >> \o << >> = << >> /\ log \o << >> = log
        BY <2>3
      <3> QED
        BY <2>4, <2>5, <2>6, <3>1
    <2> QED
      BY <1>5, <2>8, <2>9 DEF DispatchedAsSent
  <1>6. CASE crashed
    <2>1. Received # << >> /\ log = AllIn(Front(Received)) /\ ~Decrypts(Last(Received))
      BY <1>0, <1>6 DEF LogInv
    <2>2. PICK i \in 1 .. Len(log) : U32Value(log[i]) = ChannelEncryptResult
      BY <1>0, <1>6 DEF LogInv, SecuredInv
    <2>3. /\ Front(Received) \in Seq(Frame) /\ Len(Front(Received)) = k - 1 /\ k \in Nat \ {0}
          /\ \A j \in 1 .. k - 1 : Front(Received)[j] = script[j]
          /\ Last(Received) = script[k]
      <3>1. /\ Front(Received) \in Seq(Frame) /\ Len(Front(Received)) = Len(Received) - 1
            /\ Len(Received) \in Nat \ {0}
            /\ \A j \in 1 .. Len(Received) - 1 : Front(Received)[j] = Received[j]
            /\ Last(Received) = Received[Len(Received)]
        BY <1>4, <2>1, FrontLast
      <3>2. \A j \in 1 .. k - 1 : j \in 1 .. k
        BY <1>2
      <3> QED
        BY <1>4, <3>1, <3>2
    <2>4. k # 1
      <3>1. ASSUME k = 1 PROVE FALSE
        <4>1. Front(Received) = << >>
          BY <2>3, <3>1
        <4>2. log = << >>
          BY <2>1, <2>3, <4>1, AllInAppended
        <4> QED
          BY <2>2, <4>2
      <3> QED
        BY <3>1
    <2>5. doc.pre /\ script = <<RequestFrame, ResultFrame, h>>
      BY <1>1, <1>2, <2>3, <2>4
    <2> DEFINE p == RequestFrame
               r == ResultFrame
    <2>6. script[1] = p /\ script[2] = r /\ script[3] = h /\ Len(script) = 3
      BY <2>5
    <2>7. p \in Frame /\ r \in Frame /\ Arriving(p.bytes) = <<p.bytes>> /\ Arriving(r.bytes) = <<r.bytes>>
      BY HandshakeFrames
    <2> HIDE DEF p, r
    <2>8. AllIn(<<p>>) = <<p.bytes>> /\ AllIn(<<p, r>>) = <<p.bytes, r.bytes>>
      <3>1. AllIn(<<p>>) = <<p.bytes>> /\ AllIn(<<p, r>>) = <<p.bytes>> \o <<r.bytes>>
        <4>1. AllIn(<<p>>) = Arriving(p.bytes)
          BY <2>7, InFrames
        <4>2. AllIn(<<p, r>>) = Arriving(p.bytes) \o Arriving(r.bytes)
          BY <2>7, InFrames
        <4> QED
          BY <2>7, <4>1, <4>2
      <3>2. <<p.bytes>> \o <<r.bytes>> = <<p.bytes, r.bytes>>
        BY Joined
      <3> QED
        BY <3>1, <3>2
    <2>9. k # 2
      <3>1. ASSUME k = 2 PROVE FALSE
        <4>1. Front(Received) = <<p>>
          BY <2>3, <2>6, <3>1
        <4>2. log = <<p.bytes>>
          BY <2>1, <2>8, <4>1
        <4>3. log[i] = p.bytes
          BY <2>2, <4>2
        <4> QED
          BY <2>2, <4>3, HandshakeFrames DEF p
      <3> QED
        BY <3>1
    <2>10. k = 3
      BY <1>2, <2>3, <2>4, <2>6, <2>9
    <2>11. Len(log) = 2
      <3>1. Front(Received) = <<p, r>>
        <4> DEFINE f == Front(Received)
        <4>1. f \in Seq(Frame) /\ Len(f) = 2 /\ f[1] = p /\ f[2] = r
          BY <2>3, <2>6, <2>10
        <4> HIDE DEF f
        <4>2. f = <<p, r>>
          BY <4>1
        <4> QED
          BY <4>2 DEF f
      <3>2. log = <<p.bytes, r.bytes>>
        BY <2>1, <2>8, <3>1
      <3> QED
        BY <3>2
    <2>12. ~doc.enc
      <3>1. ~Decrypts(h) /\ h.enc = doc.enc
        BY <1>1, <2>1, <2>3, <2>6, <2>10
      <3>2. Len(h.bytes) \in Nat
        BY DEF Frame
      <3>3. h.enc => FrameSize(h) >= 16
        BY <3>2, EncryptedSize DEF FrameSize
      <3> QED
        BY <3>1, <3>3 DEF Decrypts, IV_LENGTH
    <2> QED
      BY <1>6, <2>5, <2>11, <2>12 DEF DispatchedAsSent
  <1> QED
    BY <1>5, <1>6

\* consume_frame, handle_multi and read_frame, for what a server composes, wherever
\* the last frame is cut: each message that has been sent, alone or within a Multi, is
\* dispatched once and in the order of sending; what is cut off or malformed is
\* passed over, no stray byte makes a message, and only a frame that is no
\* ciphertext, on a secured channel, ends the process.
THEOREM DispatchedCorrect == MCSpec => []DispatchedAsSent
  BY DocCorrect, Intakes, IntakeInvCorrect, DispatchedMeans, PTL
=============================================================================
