-------------------------------- MODULE Stream --------------------------------
(***************************************************************************)
(* Steam::Utils::Stream: a byte buffer that is either written at its end   *)
(* or read from a position on. Integers cross it low byte first, at their  *)
(* own width: a value is the tuple of its bytes (two's complement when it  *)
(* is signed), so that 64-bit values need no 64-bit arithmetic.            *)
(***************************************************************************)
EXTENDS Integers, Sequences

Byte == 0 .. 255

\* The integral types that cross a stream: width in bytes, and signedness.
U8  == [w |-> 1, s |-> FALSE]
U16 == [w |-> 2, s |-> FALSE]
U32 == [w |-> 4, s |-> FALSE]
U64 == [w |-> 8, s |-> FALSE]
I16 == [w |-> 2, s |-> TRUE]
I32 == [w |-> 4, s |-> TRUE]
I64 == [w |-> 8, s |-> TRUE]

\* The bytes of n in w bytes, for -1 and for 0 <= n < 2^31.
LE(n, w) ==
  [i \in 1 .. w |-> IF n = -1 THEN 255
                    ELSE IF i > 4 THEN 0
                    ELSE (n \div <<1, 256, 65536, 16777216>>[i]) % 256]

\* The conversion of a value between two integral types: it is truncated, or
\* extended by its sign or by zeros.
Convert(v, from, to) ==
  [i \in 1 .. to.w |-> IF i <= from.w THEN v[i]
                       ELSE IF from.s /\ v[from.w] >= 128 THEN 255
                       ELSE 0]

\* The three constructors; `read` tells whether there is a readBuffer.
WriteStream == [read |-> FALSE, buf |-> << >>, pos |-> 0]
ReadStream(input, offset) == [read |-> TRUE, buf |-> input, pos |-> offset]

\* Write throws on a stream in read mode.
CanWrite(s) == ~s.read
Write(s, bytes) == [s EXCEPT !.buf = @ \o bytes]

\* Read<T>, Read(out, size), ReadBytes and ReadArray throw on a stream in write
\* mode and on an underflow; otherwise they take n bytes and move on.
CanRead(s, n) == s.read /\ s.pos + n <= Len(s.buf)
\* Mutant: the bytes are taken high byte first.
ReadBytes_BigEndian(s, n) == [i \in 1 .. n |-> s.buf[s.pos + 1 + n - i]]

ReadBytes(s, n) == SubSeq(s.buf, s.pos + 1, s.pos + n)

\* Mutant: the position is moved by a byte too many.
Skip_OffByOne(s, n) == [s EXCEPT !.pos = @ + n + 1]

Skip(s, n) == [s EXCEPT !.pos = @ + n]
=============================================================================
