------------------------------ MODULE ClientMsg ------------------------------
(***************************************************************************)
(* A message without protobuf on its way from one side to the other:       *)
(* Msg<TBody> (MsgHdr, a body structure, a payload), or one of the other   *)
(* headers alone. The sender fills in a structure, appends to its payload  *)
(* and serializes, one stream.Write a step; what arrives may have been cut *)
(* off anywhere; the receiver makes a packet of it (PacketMsg,             *)
(* PacketClientMsg: the header), then the message, one stream.Read a step. *)
(***************************************************************************)
EXTENDS SteamLanguageInternal, TLC

CONSTANTS
  Programs,     \* the messages: what Serialize writes and Deserialize reads
  PayloadData,  \* what the sender appends to a payload in one call
  MaxPayload    \* bound: bytes of payload after which no more is appended

VARIABLES
  prog,        \* the message's program
  val,         \* the sender's fields
  payload,     \* the sender's payload
  stage,       \* "build", "write", "sent", "read", "done"; "refused": it threw
  k,           \* the Write or the Read that is next
  str,         \* the stream of the one who is at work
  marks,       \* history: where the stream was at first, and after each Write
  wire,        \* history: what the sender has sent
  got,         \* the receiver's fields
  bodyOffset,  \* the packet's bodyOffset
  rest         \* the receiver's payload

sender   == <<prog, val, payload>>
receiver == <<got, bodyOffset, rest>>
vars == <<sender, stage, k, str, marks, wire, receiver>>

-----------------------------------------------------------------------------
(* Programs: the Write and Read calls for a header and a body.             *)

IsArray(t) == "array" \in DOMAIN t

FieldType(l, n) ==
  l.fields[CHOOSE i \in 1 .. Len(l.fields) : l.fields[i].n = n].t

\* A field is named by its structure and its name, "hdr" or "body".
WriteOps(part, l) ==
  [i \in 1 .. Len(l.writes) |->
     [n |-> <<part, l.writes[i].n>>, from |-> FieldType(l, l.writes[i].n),
      to |-> l.writes[i].t, array |-> IsArray(l.writes[i].t)]]

ReadOps(part, l) ==
  [i \in 1 .. Len(l.reads) |->
     [n |-> <<part, l.reads[i].n>>, from |-> l.reads[i].t,
      to |-> FieldType(l, l.reads[i].n)]]

\* The values a structure's constructor gives to its fields.
Defaults(part, l) ==
  [n \in {<<part, l.fields[i].n>> : i \in 1 .. Len(l.fields)} |->
     l.fields[CHOOSE i \in 1 .. Len(l.fields) : l.fields[i].n = n[2]].d]

\* A structure sent on its own: a header in front of a payload.
HeaderProgram(h) ==
  [writes |-> WriteOps("hdr", h), reads |-> ReadOps("hdr", h),
   init |-> Defaults("hdr", h), hdr |-> Len(h.reads)]

\* Msg<TBody>: MsgHdr, then the body; Msg() puts the body's EMsg into the header.
MsgProgram(b) ==
  [writes |-> WriteOps("hdr", MsgHdr) \o WriteOps("body", b),
   reads  |-> ReadOps("hdr", MsgHdr) \o ReadOps("body", b),
   init   |-> (<<"hdr", "Msg">> :> LE(b.emsg, 4))
              @@ Defaults("hdr", MsgHdr) @@ Defaults("body", b),
   hdr    |-> Len(MsgHdr.reads)]

\* A program writes and reads its fields in the same order, each once, and at the
\* field's own width on both sides.
Matching(p) ==
  /\ Len(p.writes) \in Nat /\ DOMAIN p.writes = 1 .. Len(p.writes)
  /\ Len(p.reads) = Len(p.writes) /\ DOMAIN p.reads = DOMAIN p.writes
  /\ p.hdr \in 0 .. Len(p.reads)
  /\ DOMAIN p.init = {p.writes[i].n : i \in 1 .. Len(p.writes)}
  /\ p.init \in [DOMAIN p.init -> Seq(Byte)]
  /\ \A i \in 1 .. Len(p.writes) :
       LET w == p.writes[i]
           r == p.reads[i]
       IN /\ w.n = r.n
          /\ w.from.w \in Nat
          /\ w.to.w = w.from.w /\ r.from.w = w.from.w /\ r.to.w = w.from.w
          /\ w.array \in BOOLEAN
  /\ \A i, j \in 1 .. Len(p.writes) :
       p.writes[i].n = p.writes[j].n => i = j

ASSUME ProgramsAssumption == \A p \in Programs : Matching(p)
ASSUME PayloadAssumption ==
  /\ PayloadData \subseteq Seq(Byte)
  /\ MaxPayload \in Nat

\* The fields of a message as the sender may leave them: an integer has the width
\* of its type, a vector is as long as its owner has made it.
IsValue(p, v) ==
  /\ v \in [DOMAIN p.init -> Seq(Byte)]
  /\ \A i \in 1 .. Len(p.writes) :
       ~p.writes[i].array => Len(v[p.writes[i].n]) = p.writes[i].from.w

\* No vector has been given another length than its constructor gave it.
Sized(p, v) ==
  \A i \in 1 .. Len(p.writes) : Len(v[p.writes[i].n]) = p.writes[i].from.w

-----------------------------------------------------------------------------
Init ==
  /\ prog \in Programs
  /\ IsValue(prog, val)
  /\ payload = << >>
  /\ stage = "build"
  /\ k = 1
  /\ str = WriteStream
  /\ marks = <<0>>
  /\ wire = << >>
  /\ got = prog.init
  /\ bodyOffset = 0
  /\ rest = << >>

\* WriteByte, WriteBytes, WriteValue and WriteString append to the payload;
\* WriteNullTermString adds a zero.
WritePayload ==
  /\ stage = "build"
  /\ Len(payload) < MaxPayload
  /\ \E d \in PayloadData, null \in {<< >>, <<0>>} : payload' = payload \o d \o null
  /\ UNCHANGED <<prog, val, stage, k, str, marks, wire, receiver>>

\* Serialize(), up to the payload: a Write of each field of header and body.
Serialize ==
  /\ stage = "build"
  /\ stage' = "write"
  /\ UNCHANGED <<sender, k, str, marks, wire, receiver>>

Written(op, v) == IF op.array THEN v ELSE Convert(v, op.from, op.to)

WriteField ==
  /\ stage = "write"
  /\ k <= Len(prog.writes)
  /\ CanWrite(str)
  /\ LET bytes == Written(prog.writes[k], val[prog.writes[k].n])
     IN /\ str' = Write(str, bytes)
        /\ marks' = Append(marks, Len(str.buf) + Len(bytes))
  /\ k' = k + 1
  /\ UNCHANGED <<sender, stage, wire, receiver>>

\* The payload comes last, and MoveBuffer gives the bytes to the connection.
WriteRest ==
  /\ stage = "write"
  /\ k > Len(prog.writes)
  /\ CanWrite(str)
  /\ str' = Write(str, payload)
  /\ wire' = str.buf \o payload
  /\ stage' = "sent"
  /\ UNCHANGED <<sender, k, marks, receiver>>

\* The message arrives, or the first n bytes of it.
Deliver ==
  /\ stage = "sent"
  /\ \E n \in 0 .. Len(wire) : str' = ReadStream(SubSeq(wire, 1, n), 0)
  /\ stage' = "read"
  /\ k' = 1
  /\ UNCHANGED <<sender, marks, wire, receiver>>

\* One Read of the header's Deserialize (PacketMsg, PacketClientMsg), or of the
\* body's (Msg(packet)); an underflow throws out of the constructor.
ReadField ==
  /\ stage = "read"
  /\ k <= Len(prog.reads)
  /\ LET op == prog.reads[k]
     IN IF CanRead(str, op.from.w)
          THEN /\ got' = [got EXCEPT ![op.n] =
                            Convert(ReadBytes(str, op.from.w), op.from, op.to)]
               /\ str' = Skip(str, op.from.w)
               /\ k' = k + 1
               /\ bodyOffset' = IF k = prog.hdr THEN str.pos + op.from.w ELSE bodyOffset
               /\ UNCHANGED stage
          ELSE /\ stage' = "refused"
               /\ UNCHANGED <<got, str, k, bodyOffset>>
  /\ UNCHANGED <<sender, marks, wire, rest>>

\* Mutant: the payload begins behind the body.
TakePayload_AfterBody ==
  /\ stage = "read"
  /\ k > Len(prog.reads)
  /\ rest' = SubSeq(str.buf, str.pos + 1, Len(str.buf))
  /\ stage' = "done"
  /\ UNCHANGED <<sender, k, str, marks, wire, got, bodyOffset>>

\* Msg(packet): all that follows the header becomes the payload, the bytes of the
\* body included.
TakePayload ==
  /\ stage = "read"
  /\ k > Len(prog.reads)
  /\ rest' = SubSeq(str.buf, bodyOffset + 1, Len(str.buf))
  /\ stage' = "done"
  /\ UNCHANGED <<sender, k, str, marks, wire, got, bodyOffset>>

-----------------------------------------------------------------------------
Next ==
  \/ WritePayload
  \/ Serialize
  \/ WriteField
  \/ WriteRest
  \/ Deliver
  \/ ReadField
  \/ TakePayload

Spec == Init /\ [][Next]_vars

-----------------------------------------------------------------------------
\* The state is of its type, and neither stream is ever beyond its buffer.
TypeOK ==
  /\ prog \in Programs
  /\ IsValue(prog, val)
  /\ payload \in Seq(Byte)
  /\ stage \in {"build", "write", "sent", "read", "done", "refused"}
  /\ k \in Nat \ {0}
  /\ str \in [read : BOOLEAN, buf : Seq(Byte), pos : Nat]
  /\ str.pos <= Len(str.buf)
  /\ marks \in Seq(Nat)
  /\ wire \in Seq(Byte)
  /\ got \in [DOMAIN prog.init -> Seq(Byte)]
  /\ bodyOffset \in 0 .. Len(str.buf)
  /\ rest \in Seq(Byte)

\* A message that arrives whole is read back field by field as it was written,
\* and is never refused; one that was cut off is refused, or it was cut behind
\* its last field. This needs every vector at the length its structure gives
\* it: Serialize writes a vector as long as it is, Deserialize reads 1450 bytes.
ReadBack ==
  Sized(prog, val) =>
    /\ stage = "done" => got = val
    /\ stage = "refused" => Len(str.buf) < Len(wire)

\* The payload of a received message is what follows the header: the bytes of the
\* body and then the payload as it was sent, or as much of it as has arrived.
PayloadFollowsBody ==
  (stage = "done" /\ Sized(prog, val)) =>
    /\ rest = SubSeq(wire, marks[prog.hdr + 1] + 1, Len(str.buf))
    /\ SubSeq(wire, Len(wire) - Len(payload) + 1, Len(wire)) = payload
=============================================================================
