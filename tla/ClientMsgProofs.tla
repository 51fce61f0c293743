--------------------------- MODULE ClientMsgProofs ---------------------------
(***************************************************************************)
(* For every set of programs in which Deserialize reads what Serialize     *)
(* writes (ProgramsAssumption, which TLC evaluates on all structures of    *)
(* the protocol), every value of the fields, every payload and every cut:  *)
(* the streams stay within their buffers, a message that arrives whole is  *)
(* read back as it was written, and its payload is what follows the header.*)
(*                                                                         *)
(* The invariant says where the fields lie: after the j-th Write the       *)
(* stream is at marks[j + 1], the field is between marks[j] and that, and  *)
(* the reader is at marks[k] before its k-th Read.                         *)
(***************************************************************************)
EXTENDS ClientMsg, SequenceTheorems, TLAPS

N == Len(prog.writes)
Name(j) == prog.writes[j].n
Field(j) == val[Name(j)]

\* The first n fields lie in buf, one behind the other.
LaidOut(buf, n) ==
  \A j \in 1 .. n :
    /\ marks[j + 1] = marks[j] + Len(Field(j))
    /\ marks[j + 1] <= Len(buf)
    /\ \A i \in 1 .. Len(Field(j)) : buf[marks[j] + i] = Field(j)[i]

PayloadLast ==
  /\ Len(payload) <= Len(wire)
  /\ SubSeq(wire, Len(wire) - Len(payload) + 1, Len(wire)) = payload

Writing ==
  stage \in {"build", "write"} =>
    /\ ~str.read
    /\ str.pos = 0
    /\ Len(marks) = k
    /\ k <= N + 1
    /\ marks[k] = Len(str.buf)
    /\ LaidOut(str.buf, k - 1)
    /\ bodyOffset = 0

Sent ==
  stage \in {"sent", "read", "done", "refused"} =>
    /\ Len(marks) = N + 1
    /\ LaidOut(wire, N)
    /\ PayloadLast
    /\ stage = "sent" => bodyOffset = 0

Arrived ==
  stage \in {"read", "done", "refused"} =>
    /\ str.read
    /\ Len(str.buf) <= Len(wire)
    /\ \A i \in 1 .. Len(str.buf) : str.buf[i] = wire[i]

ReadSoFar ==
  (stage = "read" /\ Sized(prog, val)) =>
    /\ k <= N + 1
    /\ str.pos = marks[k]
    /\ \A j \in 1 .. k - 1 : got[Name(j)] = Field(j)
    /\ k > prog.hdr => bodyOffset = marks[prog.hdr + 1]

IInv ==
  /\ TypeOK
  /\ Len(marks) >= 1 /\ marks[1] = 0
  /\ Writing
  /\ Sent
  /\ Arrived
  /\ ReadSoFar
  /\ ReadBack
  /\ PayloadFollowsBody

-----------------------------------------------------------------------------
\* A conversion between types of one width changes no byte.
LEMMA ConvertSame ==
  ASSUME NEW v \in Seq(Byte), NEW from, NEW to,
         Len(v) = from.w, to.w = from.w
  PROVE  Convert(v, from, to) = v
<1>1. Convert(v, from, to) = [i \in 1 .. Len(v) |-> v[i]]
  BY DEF Convert
<1> QED BY <1>1

\* What is appended comes behind what was there.
LEMMA Appended ==
  ASSUME NEW b \in Seq(Byte), NEW c \in Seq(Byte)
  PROVE  /\ b \o c \in Seq(Byte)
         /\ Len(b \o c) = Len(b) + Len(c)
         /\ \A i \in 1 .. Len(b) : (b \o c)[i] = b[i]
         /\ \A i \in 1 .. Len(c) : (b \o c)[Len(b) + i] = c[i]
OBVIOUS

LEMMA AppendFacts ==
  ASSUME NEW m \in Seq(Nat), NEW x \in Nat
  PROVE  /\ Append(m, x) \in Seq(Nat)
         /\ Len(Append(m, x)) = Len(m) + 1
         /\ Append(m, x)[Len(m) + 1] = x
         /\ \A j \in 1 .. Len(m) : Append(m, x)[j] = m[j] /\ m[j] \in Nat
OBVIOUS

\* A part of a sequence, position by position.
LEMMA Part ==
  ASSUME NEW b \in Seq(Byte), NEW m \in Nat, NEW n \in Nat, m <= n, n <= Len(b)
  PROVE  /\ SubSeq(b, m + 1, n) \in Seq(Byte)
         /\ Len(SubSeq(b, m + 1, n)) = n - m
         /\ \A i \in 1 .. n - m : SubSeq(b, m + 1, n)[i] = b[m + i]
<1>1. m + 1 \in 1 .. Len(b) + 1 /\ n \in m .. Len(b)
  OBVIOUS
<1>2. SubSeq(b, m + 1, n) \in Seq(Byte)
  OBVIOUS
<1>3. Len(SubSeq(b, m + 1, n)) = n - m
  BY <1>1
<1>4. \A i \in 1 .. n - m : SubSeq(b, m + 1, n)[i] = b[m + i]
  BY <1>1, <1>3
<1> QED BY <1>2, <1>3, <1>4

\* What a program that matches says of its fields.
LEMMA ProgramFacts ==
  ASSUME TypeOK
  PROVE  /\ N \in Nat
         /\ Len(prog.reads) = N
         /\ prog.hdr \in 0 .. N
         /\ DOMAIN prog.init = {Name(i) : i \in 1 .. N}
         /\ \A j \in 1 .. N :
              /\ Name(j) \in DOMAIN prog.init
              /\ Field(j) \in Seq(Byte)
              /\ Written(prog.writes[j], val[prog.writes[j].n]) = Field(j)
              /\ prog.reads[j].n = Name(j)
              /\ prog.reads[j].from.w \in Nat
              /\ prog.reads[j].to.w = prog.reads[j].from.w
              /\ Sized(prog, val) => Len(Field(j)) = prog.reads[j].from.w
         /\ \A i, j \in 1 .. N : Name(i) = Name(j) => i = j
<1>1. Matching(prog) /\ IsValue(prog, val)
  BY ProgramsAssumption DEF TypeOK
<1>2. /\ N \in Nat
      /\ Len(prog.reads) = N
      /\ prog.hdr \in 0 .. N
      /\ DOMAIN prog.init = {Name(i) : i \in 1 .. N}
      /\ \A i, j \in 1 .. N : Name(i) = Name(j) => i = j
  BY <1>1 DEF Matching, N, Name
<1>3. ASSUME NEW j \in 1 .. N
      PROVE  /\ Name(j) \in DOMAIN prog.init
             /\ Field(j) \in Seq(Byte)
             /\ Written(prog.writes[j], val[prog.writes[j].n]) = Field(j)
             /\ prog.reads[j].n = Name(j)
             /\ prog.reads[j].from.w \in Nat
             /\ prog.reads[j].to.w = prog.reads[j].from.w
             /\ Sized(prog, val) => Len(Field(j)) = prog.reads[j].from.w
  <2>1. /\ prog.writes[j].n = prog.reads[j].n
        /\ prog.writes[j].from.w \in Nat
        /\ prog.writes[j].to.w = prog.writes[j].from.w
        /\ prog.reads[j].from.w = prog.writes[j].from.w
        /\ prog.reads[j].to.w = prog.writes[j].from.w
        /\ prog.writes[j].array \in BOOLEAN
    BY <1>1, <1>3 DEF Matching, N
  <2>2. Name(j) \in DOMAIN prog.init
    BY <1>2, <1>3
  <2>3. Field(j) \in Seq(Byte)
    BY <1>1, <2>2 DEF IsValue, Field
  <2>4. ~prog.writes[j].array => Len(Field(j)) = prog.writes[j].from.w
    BY <1>1, <1>3 DEF IsValue, Field, Name, N
  <2>5. Written(prog.writes[j], val[prog.writes[j].n]) = Field(j)
    <3>1. CASE prog.writes[j].array
      BY <3>1 DEF Written, Field, Name
    <3>2. CASE ~prog.writes[j].array
      <4>1. Convert(Field(j), prog.writes[j].from, prog.writes[j].to) = Field(j)
        BY <2>1, <2>3, <2>4, <3>2, ConvertSame
      <4> QED BY <4>1, <3>2 DEF Written, Field, Name
    <3> QED BY <3>1, <3>2
  <2>6. Sized(prog, val) => Len(Field(j)) = prog.reads[j].from.w
    BY <2>1, <1>3 DEF Sized, Field, Name, N
  <2> QED BY <2>1, <2>2, <2>3, <2>5, <2>6 DEF Name
<1> QED BY <1>2, <1>3

-----------------------------------------------------------------------------
(* The steps of the sender.                                                *)

LEMMA Initially == Init => IInv
<1> SUFFICES ASSUME Init PROVE IInv
  OBVIOUS
<1>1. Matching(prog)
  BY ProgramsAssumption DEF Init
<1>2. TypeOK
  <2>1. << >> \in Seq(Byte)
    OBVIOUS
  <2>2. <<0>> \in Seq(Nat)
    OBVIOUS
  <2>3. str \in [read : BOOLEAN, buf : Seq(Byte), pos : Nat] /\ str.pos <= Len(str.buf)
    BY <2>1 DEF Init, WriteStream
  <2>4. got \in [DOMAIN prog.init -> Seq(Byte)]
    BY <1>1 DEF Init, Matching
  <2>5. bodyOffset \in 0 .. Len(str.buf)
    BY DEF Init, WriteStream
  <2> QED BY <2>1, <2>2, <2>3, <2>4, <2>5 DEF Init, TypeOK
<1>3. N \in Nat
  BY <1>1 DEF Matching, N
<1>4. Writing /\ Len(marks) >= 1 /\ marks[1] = 0
  BY <1>3 DEF Init, Writing, WriteStream, LaidOut
<1> QED
  BY <1>2, <1>4 DEF Init, IInv, Sent, Arrived, ReadSoFar, ReadBack, PayloadFollowsBody

LEMMA WritePayloadStep == IInv /\ WritePayload => IInv'
<1> SUFFICES ASSUME IInv, WritePayload PROVE IInv'
  OBVIOUS
<1>1. payload' \in Seq(Byte)
  <2>1. PICK d \in PayloadData, null \in {<< >>, <<0>>} : payload' = payload \o d \o null
    BY DEF WritePayload
  <2>2. d \in Seq(Byte)
    BY PayloadAssumption
  <2>3. << >> \in Seq(Byte) /\ <<0>> \in Seq(Byte)
    BY DEF Byte
  <2>4. payload \in Seq(Byte) /\ null \in Seq(Byte)
    BY <2>3 DEF IInv, TypeOK
  <2> QED BY <2>1, <2>2, <2>4
<1>2. stage = "build" /\ UNCHANGED <<prog, val, stage, k, str, marks, wire, got, bodyOffset, rest>>
  BY DEF WritePayload, receiver
<1>3. TypeOK'
  BY <1>1, <1>2 DEF IInv, TypeOK
<1>4. Writing'
  BY <1>2 DEF IInv, Writing, LaidOut, Field, Name, N
<1> QED
  BY <1>2, <1>3, <1>4 DEF IInv, Sent, Arrived, ReadSoFar, ReadBack, PayloadFollowsBody

LEMMA SerializeStep == IInv /\ Serialize => IInv'
<1> SUFFICES ASSUME IInv, Serialize PROVE IInv'
  OBVIOUS
<1>2. /\ stage = "build" /\ stage' = "write"
      /\ UNCHANGED <<prog, val, payload, k, str, marks, wire, got, bodyOffset, rest>>
  BY DEF Serialize, receiver, sender
<1>3. TypeOK'
  BY <1>2 DEF IInv, TypeOK
<1>4. Writing'
  BY <1>2 DEF IInv, Writing, LaidOut, Field, Name, N
<1> QED
  BY <1>2, <1>3, <1>4 DEF IInv, Sent, Arrived, ReadSoFar, ReadBack, PayloadFollowsBody

LEMMA WriteFieldStep == IInv /\ WriteField => IInv'
<1> SUFFICES ASSUME IInv, WriteField PROVE IInv'
  OBVIOUS
<1> DEFINE b == str.buf
           v == Field(k)
<1>1. TypeOK /\ b \in Seq(Byte) /\ k \in Nat \ {0} /\ marks \in Seq(Nat)
  BY DEF IInv, TypeOK
<1>2. /\ stage = "write" /\ k <= N
      /\ UNCHANGED <<prog, val, payload, stage, wire, got, bodyOffset, rest>>
      /\ k' = k + 1
  BY DEF WriteField, receiver, sender, N
<1>3. /\ N \in Nat /\ k \in 1 .. N /\ v \in Seq(Byte)
      /\ Written(prog.writes[k], val[prog.writes[k].n]) = v
  BY <1>1, <1>2, ProgramFacts
<1>4. str' = [str EXCEPT !.buf = b \o v] /\ marks' = Append(marks, Len(b) + Len(v))
  BY <1>3 DEF WriteField, Write
<1>5. /\ b \o v \in Seq(Byte)
      /\ Len(b \o v) = Len(b) + Len(v)
      /\ \A i \in 1 .. Len(b) : (b \o v)[i] = b[i]
      /\ \A i \in 1 .. Len(v) : (b \o v)[Len(b) + i] = v[i]
  BY <1>1, <1>3, Appended
<1>6. /\ str' \in [read : BOOLEAN, buf : Seq(Byte), pos : Nat]
      /\ str'.buf = b \o v /\ str'.read = str.read /\ str'.pos = str.pos
  BY <1>4, <1>5 DEF IInv, TypeOK
<1>7. Len(b) \in Nat /\ Len(v) \in Nat
  BY <1>1, <1>3
<1>8. TypeOK'
  <2>1. marks' \in Seq(Nat)
    BY <1>1, <1>4, <1>7
  <2>2. str.pos <= Len(b) /\ bodyOffset \in 0 .. Len(b)
    BY DEF IInv, TypeOK
  <2>3. str'.pos <= Len(str'.buf) /\ bodyOffset' \in 0 .. Len(str'.buf)
    BY <1>2, <1>5, <1>6, <1>7, <2>2
  <2>4. k' \in Nat \ {0}
    BY <1>1, <1>2
  <2> QED BY <1>2, <1>6, <2>1, <2>3, <2>4 DEF IInv, TypeOK
<1>9. /\ ~str.read /\ str.pos = 0 /\ Len(marks) = k
      /\ marks[k] = Len(b) /\ LaidOut(b, k - 1) /\ bodyOffset = 0
  BY <1>2 DEF IInv, Writing
<1>10. /\ Len(marks') = k + 1
       /\ marks'[k + 1] = Len(b) + Len(v)
       /\ \A j \in 1 .. k : marks'[j] = marks[j] /\ marks[j] \in Nat
  <2>1. Len(b) + Len(v) \in Nat
    BY <1>7
  <2> HIDE DEF b, v
  <2> QED BY <1>1, <1>4, <1>9, <2>1, AppendFacts
<1>11. ASSUME NEW j \in 1 .. k
       PROVE  /\ marks'[j + 1] = marks'[j] + Len(Field(j))
              /\ marks'[j + 1] <= Len(b \o v)
              /\ \A i \in 1 .. Len(Field(j)) : (b \o v)[marks'[j] + i] = Field(j)[i]
  <2>2. CASE j = k
    <3>1. marks'[j] = Len(b) /\ marks'[j + 1] = Len(b) + Len(v) /\ Field(j) = v
      BY <1>1, <1>9, <1>10, <2>2
    <3> HIDE DEF b, v
    <3> QED BY <1>5, <1>7, <3>1
  <2>3. CASE j \in 1 .. k - 1
    <3>1. /\ marks[j + 1] = marks[j] + Len(Field(j))
          /\ marks[j + 1] <= Len(b)
          /\ \A i \in 1 .. Len(Field(j)) : b[marks[j] + i] = Field(j)[i]
      BY <1>9, <2>3 DEF LaidOut
    <3>2. j \in 1 .. k /\ j + 1 \in 1 .. k
      BY <1>1, <2>3
    <3>3. marks'[j] = marks[j] /\ marks'[j + 1] = marks[j + 1] /\ marks[j] \in Nat
      BY <1>10, <3>2
    <3>4. Field(j) \in Seq(Byte)
      BY <1>1, <1>3, <3>2, ProgramFacts
    <3>5. Len(Field(j)) \in Nat
      BY <3>4
    <3>6. \A i \in 1 .. Len(Field(j)) : marks[j] + i \in 1 .. Len(b)
      BY <3>1, <3>3, <3>5, <1>7
    <3>7. marks'[j + 1] <= Len(b \o v)
      BY <1>5, <1>7, <3>1, <3>3, <3>5
    <3>8. \A i \in 1 .. Len(Field(j)) : (b \o v)[marks'[j] + i] = Field(j)[i]
      BY <1>5, <3>1, <3>3, <3>6
    <3> QED BY <3>1, <3>3, <3>7, <3>8
  <2>4. j = k \/ j \in 1 .. k - 1
    BY <1>1
  <2> QED BY <2>2, <2>3, <2>4
<1>12. LaidOut(str.buf, k - 1)'
  <2>1. k' - 1 = k /\ (\A j : Field(j)' = Field(j))
    BY <1>1, <1>2 DEF Field, Name
  <2> QED BY <1>6, <1>11, <2>1 DEF LaidOut
<1>13. Writing'
  <2>1. k' <= N' + 1 /\ Len(marks') = k' /\ marks'[k'] = Len(str'.buf)
    BY <1>1, <1>2, <1>3, <1>5, <1>6, <1>10 DEF N
  <2> QED BY <1>2, <1>6, <1>9, <1>12, <2>1 DEF Writing
<1>14. Len(marks') >= 1 /\ marks'[1] = 0
  BY <1>1, <1>10 DEF IInv
<1> QED
  BY <1>2, <1>8, <1>13, <1>14
  DEF IInv, Sent, Arrived, ReadSoFar, ReadBack, PayloadFollowsBody

\* The second half of a concatenation.
LEMMA Suffix ==
  ASSUME NEW b \in Seq(Byte), NEW c \in Seq(Byte)
  PROVE  SubSeq(b \o c, Len(b \o c) - Len(c) + 1, Len(b \o c)) = c
<1> DEFINE w == b \o c
<1>1. /\ w \in Seq(Byte) /\ Len(w) = Len(b) + Len(c)
      /\ \A i \in 1 .. Len(c) : w[Len(b) + i] = c[i]
  BY Appended
<1>2. Len(b) \in Nat /\ Len(c) \in Nat
  OBVIOUS
<1> HIDE DEF w
<1>3. Len(w) - Len(c) = Len(b) /\ Len(b) <= Len(w) /\ Len(w) - Len(b) = Len(c)
  BY <1>1, <1>2
<1>4. /\ SubSeq(w, Len(b) + 1, Len(w)) \in Seq(Byte)
      /\ Len(SubSeq(w, Len(b) + 1, Len(w))) = Len(c)
      /\ \A i \in 1 .. Len(c) : SubSeq(w, Len(b) + 1, Len(w))[i] = w[Len(b) + i]
  <2>1. Len(w) \in Nat
    BY <1>1, <1>2
  <2> QED BY <1>1, <1>2, <1>3, <2>1, Part
<1>5. SubSeq(w, Len(b) + 1, Len(w)) = c
  BY <1>1, <1>4
<1> QED BY <1>3, <1>5 DEF w

LEMMA WriteRestStep == IInv /\ WriteRest => IInv'
<1> SUFFICES ASSUME IInv, WriteRest PROVE IInv'
  OBVIOUS
<1> DEFINE b == str.buf
           w == b \o payload
<1>1. TypeOK /\ b \in Seq(Byte) /\ payload \in Seq(Byte) /\ k \in Nat \ {0}
  BY DEF IInv, TypeOK
<1>2. /\ stage = "write" /\ k > N /\ stage' = "sent"
      /\ UNCHANGED <<prog, val, payload, k, marks, got, bodyOffset, rest>>
      /\ wire' = w /\ str' = [str EXCEPT !.buf = w]
  BY DEF WriteRest, receiver, sender, N, Write
<1>3. /\ w \in Seq(Byte) /\ Len(w) = Len(b) + Len(payload)
      /\ \A i \in 1 .. Len(b) : w[i] = b[i]
  BY <1>1, Appended
<1>4. Len(b) \in Nat /\ Len(payload) \in Nat /\ N \in Nat
  BY <1>1, ProgramFacts
<1>5. /\ str' \in [read : BOOLEAN, buf : Seq(Byte), pos : Nat]
      /\ str'.buf = w /\ str'.pos = str.pos
  <2> HIDE DEF w
  <2> QED BY <1>2, <1>3 DEF IInv, TypeOK
<1>6. TypeOK'
  <2>1. str.pos <= Len(b) /\ bodyOffset \in 0 .. Len(b)
    BY DEF IInv, TypeOK
  <2>2. str'.pos <= Len(str'.buf) /\ bodyOffset' \in 0 .. Len(str'.buf)
    <3>1. str.pos \in Nat
      BY DEF IInv, TypeOK
    <3> HIDE DEF w
    <3> QED BY <1>2, <1>3, <1>4, <1>5, <2>1, <3>1
  <2>3. wire' \in Seq(Byte)
    BY <1>2, <1>3
  <2> QED BY <1>2, <1>5, <2>2, <2>3 DEF IInv, TypeOK
<1>7. /\ Len(marks) = k /\ k = N + 1 /\ LaidOut(b, N) /\ bodyOffset = 0
  <2>1. Len(marks) = k /\ k <= N + 1 /\ LaidOut(b, k - 1) /\ bodyOffset = 0
    BY <1>2 DEF IInv, Writing
  <2>2. k = N + 1
    BY <1>1, <1>2, <1>4, <2>1
  <2> QED BY <1>4, <2>1, <2>2
<1>8. LaidOut(wire, N)'
  <2>1. N' = N /\ (\A j : Field(j)' = Field(j))
    BY <1>2 DEF Field, Name, N
  <2>2. SUFFICES ASSUME NEW j \in 1 .. N
                 PROVE  /\ marks[j + 1] = marks[j] + Len(Field(j))
                        /\ marks[j + 1] <= Len(w)
                        /\ \A i \in 1 .. Len(Field(j)) : w[marks[j] + i] = Field(j)[i]
    <3> HIDE DEF w
    <3> QED BY <1>2, <2>1 DEF LaidOut
  <2>3. /\ marks[j + 1] = marks[j] + Len(Field(j))
        /\ marks[j + 1] <= Len(b)
        /\ \A i \in 1 .. Len(Field(j)) : b[marks[j] + i] = Field(j)[i]
    BY <1>7 DEF LaidOut
  <2>4. marks[j] \in Nat /\ Len(Field(j)) \in Nat
    <3>1. Field(j) \in Seq(Byte)
      BY <1>1, ProgramFacts
    <3>2. marks \in Seq(Nat) /\ j \in 1 .. Len(marks)
      BY <1>4, <1>7 DEF IInv, TypeOK
    <3> QED BY <3>1, <3>2
  <2>5. \A i \in 1 .. Len(Field(j)) : marks[j] + i \in 1 .. Len(b)
    BY <1>4, <2>3, <2>4
  <2> HIDE DEF w
  <2>6. marks[j + 1] <= Len(w)
    BY <1>3, <1>4, <2>3, <2>4
  <2> QED BY <1>3, <2>3, <2>5, <2>6
<1>9. PayloadLast'
  <2>1. SubSeq(w, Len(w) - Len(payload) + 1, Len(w)) = payload
    BY <1>1, Suffix
  <2>2. Len(payload) <= Len(w)
    <3> HIDE DEF w
    <3> QED BY <1>3, <1>4
  <2> HIDE DEF w
  <2> QED BY <1>2, <2>1, <2>2 DEF PayloadLast
<1>10. Sent'
  <2>1. Len(marks') = N' + 1 /\ bodyOffset' = 0
    BY <1>2, <1>7 DEF N
  <2> QED BY <1>8, <1>9, <2>1 DEF Sent
<1> QED
  BY <1>2, <1>6, <1>10
  DEF IInv, Writing, Arrived, ReadSoFar, ReadBack, PayloadFollowsBody

-----------------------------------------------------------------------------
(* The steps of the receiver.                                              *)

\* Nothing that Sent speaks of is changed by a step of the receiver.
LEMMA SentStays ==
  ASSUME Sent, stage \in {"sent", "read", "done", "refused"},
         stage' \in {"read", "done", "refused"},
         UNCHANGED <<prog, val, payload, marks, wire>>
  PROVE  Sent'
<1>1. N' = N /\ (\A j : Field(j)' = Field(j))
  BY DEF N, Field, Name
<1>2. LaidOut(wire, N) => LaidOut(wire, N)'
  BY <1>1 DEF LaidOut
<1>3. PayloadLast => PayloadLast'
  BY DEF PayloadLast
<1> QED BY <1>1, <1>2, <1>3 DEF Sent

LEMMA DeliverStep == IInv /\ Deliver => IInv'
<1> SUFFICES ASSUME IInv, Deliver PROVE IInv'
  OBVIOUS
<1>1. /\ stage = "sent" /\ stage' = "read" /\ k' = 1
      /\ UNCHANGED <<prog, val, payload, marks, wire, got, bodyOffset, rest>>
  BY DEF Deliver, receiver, sender
<1>2. wire \in Seq(Byte) /\ TypeOK
  BY DEF IInv, TypeOK
<1>3. PICK n \in 0 .. Len(wire) : str' = ReadStream(SubSeq(wire, 1, n), 0)
  BY DEF Deliver
<1> DEFINE c == SubSeq(wire, 1, n)
<1>4. c \in Seq(Byte) /\ Len(c) = n /\ (\A i \in 1 .. n : c[i] = wire[i])
  <2>1. n \in Nat /\ n <= Len(wire) /\ 0 + 1 = 1 /\ n - 0 = n
    BY <1>2
  <2>2. /\ SubSeq(wire, 0 + 1, n) \in Seq(Byte)
        /\ Len(SubSeq(wire, 0 + 1, n)) = n - 0
        /\ \A i \in 1 .. n - 0 : SubSeq(wire, 0 + 1, n)[i] = wire[0 + i]
    BY <1>2, <2>1, Part
  <2> QED BY <2>1, <2>2
<1> HIDE DEF c
<1>5. str' = [read |-> TRUE, buf |-> c, pos |-> 0]
  BY <1>3 DEF c, ReadStream
<1>6. bodyOffset = 0
  BY <1>1 DEF IInv, Sent
<1>7. TypeOK'
  <2>1. str' \in [read : BOOLEAN, buf : Seq(Byte), pos : Nat]
    BY <1>4, <1>5
  <2>2. str'.pos <= Len(str'.buf) /\ bodyOffset' \in 0 .. Len(str'.buf)
    BY <1>1, <1>4, <1>5, <1>6
  <2> QED BY <1>1, <2>1, <2>2 DEF IInv, TypeOK
<1>8. Sent'
  BY <1>1, SentStays DEF IInv
<1>9. Arrived'
  BY <1>1, <1>2, <1>4, <1>5 DEF Arrived
<1>10. ReadSoFar'
  <2>1. N \in Nat /\ N' = N
    BY <1>1, <1>2, ProgramFacts DEF N
  <2>2. prog.hdr \in 0 .. N
    BY <1>2, ProgramFacts
  <2>3. marks[1] = 0
    BY DEF IInv
  <2>4. str'.pos = marks'[k']
    BY <1>1, <1>5, <2>3
  <2>5. k' > prog'.hdr => bodyOffset' = marks'[prog'.hdr + 1]
    <3>1. SUFFICES ASSUME 1 > prog.hdr PROVE bodyOffset = marks[prog.hdr + 1]
      BY <1>1
    <3>2. prog.hdr + 1 = 1
      BY <2>1, <2>2, <3>1
    <3> QED BY <1>6, <2>3, <3>2
  <2>6. \A j \in 1 .. k' - 1 : FALSE
    BY <1>1
  <2>7. k' <= N' + 1
    BY <1>1, <2>1
  <2> QED BY <2>4, <2>5, <2>6, <2>7 DEF ReadSoFar
<1> QED
  BY <1>1, <1>7, <1>8, <1>9, <1>10
  DEF IInv, Writing, ReadBack, PayloadFollowsBody

\* Where the k-th field lies, for a reader that has come to it.
LEMMA FieldInWire ==
  ASSUME IInv, stage = "read", Sized(prog, val), k \in 1 .. N
  PROVE  /\ str.pos = marks[k] /\ str.pos \in Nat
         /\ marks[k + 1] = str.pos + prog.reads[k].from.w
         /\ marks[k + 1] <= Len(wire)
         /\ Field(k) \in Seq(Byte) /\ Len(Field(k)) = prog.reads[k].from.w
         /\ \A i \in 1 .. Len(Field(k)) : wire[str.pos + i] = Field(k)[i]
<1>1. str.pos = marks[k] /\ str.pos \in Nat
  BY DEF IInv, ReadSoFar, TypeOK
<1>2. LaidOut(wire, N)
  BY DEF IInv, Sent
<1>3. /\ marks[k + 1] = marks[k] + Len(Field(k))
      /\ marks[k + 1] <= Len(wire)
      /\ \A i \in 1 .. Len(Field(k)) : wire[marks[k] + i] = Field(k)[i]
  BY <1>2 DEF LaidOut
<1>4. Field(k) \in Seq(Byte) /\ Len(Field(k)) = prog.reads[k].from.w
  BY ProgramFacts DEF IInv
<1> QED BY <1>1, <1>3, <1>4

LEMMA ReadFieldStep == IInv /\ ReadField => IInv'
<1> SUFFICES ASSUME IInv, ReadField PROVE IInv'
  OBVIOUS
<1> DEFINE w == prog.reads[k].from.w
           x == ReadBytes(str, w)
<1>1. /\ stage = "read" /\ k <= N /\ k \in 1 .. N /\ N \in Nat
      /\ UNCHANGED <<prog, val, payload, marks, wire, rest>>
  <2>1. TypeOK /\ k \in Nat \ {0}
    BY DEF IInv, TypeOK
  <2>2. N \in Nat /\ Len(prog.reads) = N
    BY <2>1, ProgramFacts
  <2> QED BY <2>1, <2>2 DEF ReadField, sender
<1>2. /\ w \in Nat /\ prog.reads[k].n = Name(k) /\ prog.reads[k].to.w = w
      /\ Name(k) \in DOMAIN prog.init
  BY <1>1, ProgramFacts DEF IInv
<1>3. /\ str.read /\ str.buf \in Seq(Byte) /\ str.pos \in Nat
      /\ str.pos <= Len(str.buf) /\ Len(str.buf) <= Len(wire)
      /\ Len(str.buf) \in Nat /\ Len(wire) \in Nat
      /\ \A i \in 1 .. Len(str.buf) : str.buf[i] = wire[i]
  BY <1>1 DEF IInv, TypeOK, Arrived
<1>4. N' = N /\ (\A j : Field(j)' = Field(j) /\ Name(j)' = Name(j))
  BY <1>1 DEF N, Field, Name
<1>5. CASE CanRead(str, w)
  <2>1. str.pos + w <= Len(str.buf) /\ str.pos + w \in Nat
    BY <1>2, <1>3, <1>5 DEF CanRead
  <2>2. /\ x \in Seq(Byte) /\ Len(x) = w
        /\ \A i \in 1 .. w : x[i] = str.buf[str.pos + i]
    <3>1. (str.pos + w) - str.pos = w /\ str.pos <= str.pos + w
      BY <1>2, <1>3
    <3>2. /\ SubSeq(str.buf, str.pos + 1, str.pos + w) \in Seq(Byte)
          /\ Len(SubSeq(str.buf, str.pos + 1, str.pos + w)) = w
          /\ \A i \in 1 .. w :
               SubSeq(str.buf, str.pos + 1, str.pos + w)[i] = str.buf[str.pos + i]
      <4> DEFINE m == str.pos + w
      <4>1. m \in Nat /\ str.pos <= m /\ m <= Len(str.buf) /\ m - str.pos = w
        BY <2>1, <3>1
      <4> HIDE DEF m, w
      <4>2. /\ SubSeq(str.buf, str.pos + 1, m) \in Seq(Byte)
            /\ Len(SubSeq(str.buf, str.pos + 1, m)) = m - str.pos
            /\ \A i \in 1 .. m - str.pos :
                 SubSeq(str.buf, str.pos + 1, m)[i] = str.buf[str.pos + i]
        BY <1>3, <4>1, Part
      <4> QED BY <4>1, <4>2 DEF m
    <3> QED BY <3>2 DEF ReadBytes
  <2>3. Convert(x, prog.reads[k].from, prog.reads[k].to) = x
    BY <1>2, <2>2, ConvertSame
  <2>4. /\ got' = [got EXCEPT ![Name(k)] = x]
        /\ str' = [str EXCEPT !.pos = str.pos + w]
        /\ k' = k + 1 /\ stage' = stage
        /\ bodyOffset' = IF k = prog.hdr THEN str.pos + w ELSE bodyOffset
    BY <1>2, <1>5, <2>3 DEF ReadField, Skip
  <2>5. /\ str' \in [read : BOOLEAN, buf : Seq(Byte), pos : Nat]
        /\ str'.pos = str.pos + w /\ str'.buf = str.buf /\ str'.read = str.read
    <3>1. str \in [read : BOOLEAN, buf : Seq(Byte), pos : Nat]
      BY DEF IInv, TypeOK
    <3> HIDE DEF w
    <3> QED BY <2>1, <2>4, <3>1
  <2>6. got \in [DOMAIN prog.init -> Seq(Byte)]
    BY DEF IInv, TypeOK
  <2> HIDE DEF x, w
  <2>7. /\ got' \in [DOMAIN prog.init -> Seq(Byte)]
        /\ got'[Name(k)] = x
        /\ \A n \in DOMAIN prog.init : n # Name(k) => got'[n] = got[n]
    BY <1>2, <2>2, <2>4, <2>6
  <2>8. TypeOK'
    <3>1. bodyOffset' \in 0 .. Len(str'.buf)
      <4>1. bodyOffset \in 0 .. Len(str.buf)
        BY DEF IInv, TypeOK
      <4>2. CASE k = prog.hdr
        BY <1>3, <2>1, <2>4, <2>5, <4>2
      <4>3. CASE k # prog.hdr
        BY <2>4, <2>5, <4>1, <4>3
      <4> QED BY <4>2, <4>3
    <3>2. str'.pos <= Len(str'.buf) /\ k' \in Nat \ {0}
      BY <1>1, <2>1, <2>4, <2>5
    <3> QED BY <1>1, <2>4, <2>5, <2>7, <3>1, <3>2 DEF IInv, TypeOK
  <2>9. Sent'
    BY <1>1, <2>4, SentStays DEF IInv
  <2>10. Arrived'
    BY <1>1, <1>3, <2>4, <2>5 DEF Arrived
  <2>11. ReadSoFar'
    <3>1. SUFFICES ASSUME Sized(prog, val)
                   PROVE  /\ k + 1 <= N + 1
                          /\ str.pos + w = marks[k + 1]
                          /\ \A j \in 1 .. k : got'[Name(j)] = Field(j)
                          /\ k + 1 > prog.hdr => bodyOffset' = marks[prog.hdr + 1]
      <4>1. k' - 1 = k
        BY <1>1, <2>4
      <4> QED BY <1>1, <1>4, <2>4, <2>5, <4>1 DEF ReadSoFar
    <3>2. /\ str.pos = marks[k] /\ marks[k + 1] = str.pos + w
          /\ Field(k) \in Seq(Byte) /\ Len(Field(k)) = w
          /\ \A i \in 1 .. w : wire[str.pos + i] = Field(k)[i]
      BY <1>1, <3>1, FieldInWire DEF w
    <3>3. x = Field(k)
      <4>1. \A i \in 1 .. w : str.pos + i \in 1 .. Len(str.buf)
        BY <1>2, <1>3, <2>1
      <4>2. \A i \in 1 .. w : x[i] = Field(k)[i]
        BY <1>3, <2>2, <3>2, <4>1
      <4> QED BY <2>2, <3>2, <4>2
    <3>4. ASSUME NEW j \in 1 .. k PROVE got'[Name(j)] = Field(j)
      <4>1. CASE j = k
        BY <2>7, <3>3, <4>1
      <4>2. CASE j # k
        <5>1. j \in 1 .. k - 1 /\ j \in 1 .. N
          BY <1>1, <4>2
        <5>2. Name(j) # Name(k) /\ Name(j) \in DOMAIN prog.init
          BY <1>1, <4>2, <5>1, ProgramFacts DEF IInv
        <5>3. got[Name(j)] = Field(j)
          BY <1>1, <3>1, <5>1 DEF IInv, ReadSoFar
        <5> QED BY <2>7, <5>2, <5>3
      <4> QED BY <4>1, <4>2
    <3>5. ASSUME k + 1 > prog.hdr PROVE bodyOffset' = marks[prog.hdr + 1]
      <4>1. prog.hdr \in 0 .. N
        BY ProgramFacts DEF IInv
      <4>2. CASE k = prog.hdr
        BY <2>4, <3>2, <4>2
      <4>3. CASE k # prog.hdr
        <5>1. k > prog.hdr
          BY <1>1, <3>5, <4>1, <4>3
        <5> QED BY <1>1, <2>4, <3>1, <4>3, <5>1 DEF IInv, ReadSoFar
      <4> QED BY <4>2, <4>3
    <3> QED BY <1>1, <3>2, <3>4, <3>5
  <2> QED
    BY <1>1, <2>4, <2>8, <2>9, <2>10, <2>11
    DEF IInv, Writing, ReadBack, PayloadFollowsBody
<1>6. CASE ~CanRead(str, w)
  <2>1. stage' = "refused" /\ UNCHANGED <<got, str, k, bodyOffset>>
    BY <1>6 DEF ReadField
  <2>2. TypeOK'
    BY <1>1, <2>1 DEF IInv, TypeOK
  <2>3. Sent'
    BY <1>1, <2>1, SentStays DEF IInv
  <2>4. Arrived'
    BY <1>1, <1>3, <2>1 DEF Arrived
  <2>5. ReadBack'
    <3>1. SUFFICES ASSUME Sized(prog, val) PROVE Len(str.buf) < Len(wire)
      BY <1>1, <2>1 DEF ReadBack
    <3>2. marks[k + 1] = str.pos + w /\ marks[k + 1] <= Len(wire)
      BY <1>1, <3>1, FieldInWire
    <3>3. str.pos + w > Len(str.buf)
      BY <1>2, <1>3, <1>6 DEF CanRead
    <3> HIDE DEF w
    <3> QED BY <1>2, <1>3, <3>2, <3>3
  <2> QED
    BY <1>1, <2>1, <2>2, <2>3, <2>4, <2>5
    DEF IInv, Writing, ReadSoFar, PayloadFollowsBody
<1> QED BY <1>5, <1>6

LEMMA TakePayloadStep == IInv /\ TakePayload => IInv'
<1> SUFFICES ASSUME IInv, TakePayload PROVE IInv'
  OBVIOUS
<1>1. /\ stage = "read" /\ stage' = "done"
      /\ UNCHANGED <<prog, val, payload, k, str, marks, wire, got, bodyOffset>>
      /\ rest' = SubSeq(str.buf, bodyOffset + 1, Len(str.buf))
  BY DEF TakePayload, sender
<1>2. N \in Nat /\ k \in Nat \ {0} /\ k > N
  <2>1. N \in Nat /\ Len(prog.reads) = N
    BY ProgramFacts DEF IInv
  <2> QED BY <2>1 DEF TakePayload, IInv, TypeOK
<1>3. /\ str.buf \in Seq(Byte) /\ wire \in Seq(Byte)
      /\ Len(str.buf) \in Nat /\ Len(wire) \in Nat
      /\ bodyOffset \in Nat /\ bodyOffset <= Len(str.buf)
      /\ str.read /\ Len(str.buf) <= Len(wire)
      /\ \A i \in 1 .. Len(str.buf) : str.buf[i] = wire[i]
  BY <1>1 DEF IInv, TypeOK, Arrived
<1> DEFINE n == Len(str.buf)
           o == bodyOffset
<1>4. /\ SubSeq(str.buf, o + 1, n) \in Seq(Byte)
      /\ Len(SubSeq(str.buf, o + 1, n)) = n - o
      /\ \A i \in 1 .. n - o : SubSeq(str.buf, o + 1, n)[i] = str.buf[o + i]
  BY <1>3, Part
<1>5. /\ SubSeq(wire, o + 1, n) \in Seq(Byte)
      /\ Len(SubSeq(wire, o + 1, n)) = n - o
      /\ \A i \in 1 .. n - o : SubSeq(wire, o + 1, n)[i] = wire[o + i]
  BY <1>3, Part
<1>6. rest' = SubSeq(wire, o + 1, n)
  <2>1. \A i \in 1 .. n - o : o + i \in 1 .. n
    BY <1>3
  <2>2. \A i \in 1 .. n - o : SubSeq(str.buf, o + 1, n)[i] = SubSeq(wire, o + 1, n)[i]
    BY <1>3, <1>4, <1>5, <2>1
  <2>3. SubSeq(str.buf, o + 1, n) = SubSeq(wire, o + 1, n)
    BY <1>4, <1>5, <2>2
  <2> QED BY <1>1, <2>3
<1>7. TypeOK'
  BY <1>1, <1>4 DEF IInv, TypeOK
<1>8. Sent'
  BY <1>1, SentStays DEF IInv
<1>9. Arrived'
  BY <1>1, <1>3 DEF Arrived
<1>10. ReadBack' /\ PayloadFollowsBody'
  <2>1. SUFFICES ASSUME Sized(prog, val)
                 PROVE  /\ got = val
                        /\ rest' = SubSeq(wire, marks[prog.hdr + 1] + 1, n)
                        /\ SubSeq(wire, Len(wire) - Len(payload) + 1, Len(wire)) = payload
    BY <1>1 DEF ReadBack, PayloadFollowsBody
  <2>2. /\ k <= N + 1
        /\ \A j \in 1 .. k - 1 : got[Name(j)] = Field(j)
        /\ k > prog.hdr => bodyOffset = marks[prog.hdr + 1]
    BY <1>1, <2>1 DEF IInv, ReadSoFar
  <2>3. k = N + 1 /\ k - 1 = N
    BY <1>2, <2>2
  <2>4. prog.hdr \in 0 .. N /\ DOMAIN prog.init = {Name(i) : i \in 1 .. N}
    BY ProgramFacts DEF IInv
  <2>5. \A name \in DOMAIN prog.init : got[name] = val[name]
    BY <2>2, <2>3, <2>4 DEF Field
  <2>6. got = val
    BY <2>5 DEF IInv, TypeOK, IsValue
  <2>7. bodyOffset = marks[prog.hdr + 1]
    BY <1>2, <2>2, <2>3, <2>4
  <2>8. PayloadLast
    BY <1>1 DEF IInv, Sent
  <2> QED BY <1>6, <2>6, <2>7, <2>8 DEF PayloadLast
<1> QED
  BY <1>1, <1>7, <1>8, <1>9, <1>10 DEF IInv, Writing, ReadSoFar

-----------------------------------------------------------------------------
LEMMA Inductive == IInv /\ [Next]_vars => IInv'
<1> SUFFICES ASSUME IInv, [Next]_vars PROVE IInv'
  OBVIOUS
<1>1. CASE Next
  BY <1>1, WritePayloadStep, SerializeStep, WriteFieldStep, WriteRestStep, DeliverStep,
     ReadFieldStep, TakePayloadStep DEF Next
<1>2. CASE UNCHANGED vars
  <2>1. UNCHANGED <<prog, val, payload, stage, k, str, marks, wire, got, bodyOffset, rest>>
    BY <1>2 DEF vars, sender, receiver
  <2>2. TypeOK' /\ Writing' /\ Sent'
    BY <2>1 DEF IInv, TypeOK, Writing, Sent, PayloadLast, LaidOut, Field, Name, N
  <2>3. Arrived' /\ ReadSoFar' /\ ReadBack' /\ PayloadFollowsBody'
    BY <2>1 DEF IInv, Arrived, ReadSoFar, ReadBack, PayloadFollowsBody, Field, Name, N
  <2> QED BY <2>1, <2>2, <2>3 DEF IInv
<1> QED BY <1>1, <1>2

LEMMA Invariance == Spec => []IInv
<1> QED BY Initially, Inductive, PTL DEF Spec

\* The codec keeps its types, and neither Write nor Read ever leaves its buffer,
\* for every structure, value, payload and cut.
THEOREM CodecTypes == Spec => []TypeOK
<1>1. IInv => TypeOK
  BY DEF IInv
<1> QED BY <1>1, Invariance, PTL

\* What Msg<TBody>::Serialize has written, PacketMsg and Msg(packet) read back
\* exactly, and they refuse nothing but what was cut off.
THEOREM CodecReadBack == Spec => []ReadBack
<1>1. IInv => ReadBack
  BY DEF IInv
<1> QED BY <1>1, Invariance, PTL

\* The payload of a received Msg<TBody> is what follows the header, with the
\* bytes of the body in front of the payload that was sent.
THEOREM CodecPayload == Spec => []PayloadFollowsBody
<1>1. IInv => PayloadFollowsBody
  BY DEF IInv
<1> QED BY <1>1, Invariance, PTL
=============================================================================
