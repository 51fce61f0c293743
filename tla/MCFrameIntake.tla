----------------------------- MODULE MCFrameIntake -----------------------------
(***************************************************************************)
(* Frames made of messages as a server composes them, cut off at every     *)
(* length: alone, in a Multi, in a Multi within a Multi, compressed or     *)
(* not, before the handshake and (encrypted) after it.                     *)
(***************************************************************************)
EXTENDS FrameIntake

VARIABLE doc   \* what the server has composed

Jobs == LE(-1, 16)
EncRequest(version, universe, n) ==
  LE(ChannelEncryptRequest, 4) \o Jobs \o LE(version, 4) \o LE(universe, 4)
  \o [i \in 1 .. n |-> i]
EncResult(r) == LE(ChannelEncryptResult, 4) \o Jobs \o LE(r, 4)
Proto(id, header, body) == make_msg(id) \o LE(Len(header), 4) \o header \o body

\* A message by itself; `seen`: the dispatcher gets to see it when it is whole.
\* `all` is everything that is dispatched when it has arrived in full.
Leaf(bytes, seen) ==
  [bytes |-> bytes, seen |-> seen, parts |-> << >>, ends |-> << >>,
   all |-> IF seen THEN <<bytes>> ELSE << >>]

\* Messages in the body of a Multi, each behind its length.
WithLength(m) == LE(Len(m.bytes), 4) \o m.bytes
Packed(ps) == FlattenSeq([i \in 1 .. Len(ps) |-> WithLength(ps[i])])

\* A Multi of some messages, and where each of them ends.
Pack(gz, ps, header) ==
  LET head == Proto(Multi, header, IF gz THEN <<9, 31>> ELSE <<0>>)
      bytes == head \o Packed(ps)
  IN [bytes |-> bytes, seen |-> TRUE, parts |-> ps,
      ends |-> [i \in 1 .. Len(ps) |-> Len(head) + Len(Packed(SubSeq(ps, 1, i)))],
      all |-> <<bytes>> \o FlattenSeq([i \in 1 .. Len(ps) |-> ps[i].all])]

Handshake == {Leaf(EncRequest(1, 1, 16), TRUE), Leaf(EncResult(1), TRUE)}
Leaves ==
  {Leaf(Proto(ClientLogOnResponse, <<1>>, <<7>>), TRUE),
   Leaf(Proto(MAX_EMSG, << >>, << >>), TRUE),          \* one behind the table's end
   Leaf(Proto(MAX_EMSG + 1, << >>, << >>), FALSE),
   Leaf(Proto(ClientLogOnResponse, BadHeader, << >>), FALSE),
   Leaf(make_msg(Multi) \o LE(-1, 4), FALSE),          \* a negative length
   Leaf(LE(ClientLogOnResponse, 4) \o Jobs, FALSE),    \* a struct message
   Leaf(<<1, 2>>, FALSE)}
OddHandshake ==
  {Leaf(EncRequest(2, 1, 16), TRUE), Leaf(EncRequest(1, 0, 16), TRUE),
   Leaf(EncRequest(1, 1, 17), TRUE), Leaf(EncResult(2), TRUE),
   Leaf(LE(ChannelEncryptResponse, 4) \o Jobs, TRUE)}

Pairs == {<<a, b>> : a \in Leaves \cup Handshake, b \in Leaves}
Inner == {Pack(gz, <<a, b>>, <<5>>) : gz \in BOOLEAN, a \in Leaves, b \in Handshake}
Composed ==
  Handshake \cup Leaves \cup OddHandshake
  \cup {Pack(gz, p, << >>) : gz \in BOOLEAN, p \in Pairs}
  \cup {Pack(FALSE, <<m, l>>, << >>) : m \in Inner, l \in Handshake}

Documents == [x : Composed, pre : BOOLEAN, enc : BOOLEAN]

\* The frames of a document of which the last one is cut to n bytes.
Frames(d, n) ==
  (IF d.pre THEN <<Clear(EncRequest(1, 1, 16)), Clear(EncResult(1))>> ELSE << >>)
  \o <<[enc |-> d.enc, bytes |-> SubSeq(d.x.bytes, 1, n)]>>

\* Nothing is encrypted before the handshake.
MCInit ==
  /\ doc \in {d \in Documents : d.enc => d.pre}
  /\ \E n \in 0 .. Len(doc.x.bytes) : script = Frames(doc, n)
  /\ Init
MCNext == Next /\ UNCHANGED doc
MCSpec == MCInit /\ [][MCNext]_<<vars, doc>>

-----------------------------------------------------------------------------
\* What is in the first n bytes of a message, by how it was composed: the message
\* itself as soon as its header is there, and then those parts that are there
\* in full, each with all of its own parts.
HeaderEnd(b) == IF is_protobuf_msg(b) THEN 8 + b[5] ELSE MsgHdrSize

Contents(m, n) ==
  IF ~m.seen \/ n < HeaderEnd(m.bytes) THEN << >>
  ELSE <<SubSeq(m.bytes, 1, n)>>
       \o FlattenSeq([i \in 1 .. Len(m.parts) |->
            IF m.ends[i] <= n THEN m.parts[i].all ELSE << >>])

LastFrame == script[Len(script)]
Expected ==
  (IF doc.pre THEN <<script[1].bytes, script[2].bytes>> ELSE << >>)
  \o Contents(doc.x, Len(LastFrame.bytes))

\* Each message the server has sent, alone or within a Multi, is dispatched once
\* and in the order of sending; what is cut off or malformed is passed over, no
\* byte behind the end of a short plaintext can make a message of it, and only
\* a frame that is no ciphertext, on a secured channel, ends the process.
DispatchedAsSent ==
  IF crashed
    THEN doc.pre /\ ~doc.enc /\ Len(log) = 2
    ELSE /\ IsPrefix(log, Expected)
         /\ (rx = << >> /\ stack = << >>) => log = Expected
=============================================================================
