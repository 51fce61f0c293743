------------------------------- MODULE VDFBinary -------------------------------
(***************************************************************************)
(* The parser for binary VDF (src/utils/vdf/vdf_bin.cpp). parse_object     *)
(* calls itself for a nested object; `stack` holds the calls that wait for *)
(* the one that is running, whose locals are obj, type and key.            *)
(*                                                                         *)
(* A number is kept as the bytes memcpy takes.                             *)
(***************************************************************************)
EXTENDS Integers, VDF

Byte == 0 .. 255

VARIABLES
  data,      \* the buffer; its length is the parameter `size`
  pos,       \* the cursor, shared by all calls
  pc,        \* where the running call is
  obj,       \* the object the running call builds
  type,      \* type byte of its present entry
  key,       \* key of its present entry
  str,       \* what read_cstring has collected
  stack,     \* the calls below: their obj and key
  touched    \* history: one past the highest index of data that was read

vars == <<data, pos, pc, obj, type, key, str, stack, touched>>

Value  == [kind : {"string", "int32", "float", "uint64", "object"},
           bytes : Seq(Byte)]
Node   == [path : Seq(Seq(Byte)), val : Value]
Object == SUBSET Node
Caller == [obj : Object, key : Seq(Byte)]

TypeOK ==
  /\ data \in Seq(Byte)
  /\ pos \in Nat
  /\ pc \in {"loop", "key", "value", "string", "return", "done", "thrown"}
  /\ obj \in Object
  /\ type \in Byte
  /\ key \in Seq(Byte)
  /\ str \in Seq(Byte)
  /\ stack \in Seq(Caller)
  /\ touched \in Nat

\* parse_binary(), with any buffer: the first call of parse_object.
Init ==
  /\ data \in Seq(Byte)
  /\ pos = 0
  /\ pc = "loop"
  /\ obj = {}
  /\ type = 0
  /\ key = << >>
  /\ str = << >>
  /\ stack = << >>
  /\ touched = 0

-----------------------------------------------------------------------------
size == Len(data)

\* data[pos]
At(i) == data[i + 1]

\* Index i of the buffer is read.
Touch(i) == IF touched > i THEN touched ELSE i + 1

\* The while loop ends at the end of the buffer ...
EndOfBuffer ==
  /\ pc = "loop"
  /\ pos >= size
  /\ pc' = "return"
  /\ UNCHANGED <<data, pos, obj, type, key, str, stack, touched>>

\* Mutant: the type is read into a signed char.
ReadType_Signed ==
  /\ pc = "loop"
  /\ pos < size
  /\ type' = IF At(pos) > 127 THEN At(pos) - 256 ELSE At(pos)
  /\ touched' = Touch(pos)
  /\ pos' = pos + 1
  /\ pc' = IF type' = 8 THEN "return" ELSE "key"
  /\ str' = << >>
  /\ UNCHANGED <<data, obj, key, stack>>

\* ... or at BIN_END; any other type byte is followed by a key.
ReadType ==
  /\ pc = "loop"
  /\ pos < size
  /\ type' = At(pos)
  /\ touched' = Touch(pos)
  /\ pos' = pos + 1
  /\ pc' = IF type' = 8 THEN "return" ELSE "key"
  /\ str' = << >>
  /\ UNCHANGED <<data, obj, key, stack>>

\* Mutant: the scan does not move on.
CstringChar_Stuck ==
  /\ pc \in {"key", "string"}
  /\ pos < size
  /\ At(pos) # 0
  /\ touched' = Touch(pos)
  /\ UNCHANGED <<data, pos, pc, obj, type, key, str, stack>>

\* read_cstring: one turn of its loop.
CstringChar ==
  /\ pc \in {"key", "string"}
  /\ pos < size
  /\ At(pos) # 0
  /\ touched' = Touch(pos)
  /\ str' = Append(str, At(pos))
  /\ pos' = pos + 1
  /\ UNCHANGED <<data, pc, obj, type, key, stack>>

\* read_cstring: the buffer ends before the string does.
CstringThrows ==
  /\ pc \in {"key", "string"}
  /\ pos >= size
  /\ pc' = "thrown"
  /\ UNCHANGED <<data, pos, obj, type, key, str, stack, touched>>

\* Mutant: read_cstring does not step over the terminator.
CstringEnd_NoSkip ==
  /\ pc \in {"key", "string"}
  /\ pos < size
  /\ At(pos) = 0
  /\ touched' = Touch(pos)
  /\ IF pc = "key"
       THEN pc' = "value" /\ key' = str /\ UNCHANGED obj
       ELSE /\ pc' = "loop"
            /\ obj' = Assign(obj, key, Primitive("string", str), {})
            /\ UNCHANGED key
  /\ UNCHANGED <<data, pos, type, str, stack>>

\* read_cstring returns: the key of an entry, or the value of a string entry.
CstringEnd ==
  /\ pc \in {"key", "string"}
  /\ pos < size
  /\ At(pos) = 0
  /\ touched' = Touch(pos)
  /\ pos' = pos + 1
  /\ IF pc = "key"
       THEN pc' = "value" /\ key' = str /\ UNCHANGED obj
       ELSE /\ pc' = "loop"
            /\ obj' = Assign(obj, key, Primitive("string", str), {})
            /\ UNCHANGED key
  /\ UNCHANGED <<data, type, str, stack>>

\* case 0x00: the recursive call.
NestedObject ==
  /\ pc = "value"
  /\ type = 0
  /\ stack' = Append(stack, [obj |-> obj, key |-> key])
  /\ obj' = {}
  /\ pc' = "loop"
  /\ UNCHANGED <<data, pos, type, key, str, touched>>

\* case 0x01
StringValue ==
  /\ pc = "value"
  /\ type = 1
  /\ str' = << >>
  /\ pc' = "string"
  /\ UNCHANGED <<data, pos, obj, type, key, stack, touched>>

\* Mutant: the bound of a number is not tested.
ReadNumber_NoCheck(kind, n) ==
  /\ pc = "value"
  /\ obj' = Assign(obj, key, Primitive(kind, << >>), {})
  /\ touched' = Touch(pos + n - 1)
  /\ pos' = pos + n
  /\ pc' = "loop"
  /\ UNCHANGED <<data, type, key, str, stack>>

\* read_int32, read_float and read_uint64, which differ in the size n.
ReadNumber(kind, n) ==
  /\ pc = "value"
  /\ IF pos + n > size
       THEN pc' = "thrown" /\ UNCHANGED <<pos, obj, touched>>
       ELSE /\ obj' = Assign(obj, key,
                             Primitive(kind, SubSeq(data, pos + 1, pos + n)), {})
            /\ touched' = Touch(pos + n - 1)
            /\ pos' = pos + n
            /\ pc' = "loop"
  /\ UNCHANGED <<data, type, key, str, stack>>

Int32Value  == type = 2 /\ ReadNumber("int32", 4)
FloatValue  == type = 3 /\ ReadNumber("float", 4)
UInt64Value == type = 7 /\ ReadNumber("uint64", 8)

\* default: the key has been read by then.
UnknownType ==
  /\ pc = "value"
  /\ type \notin {0, 1, 2, 3, 7}
  /\ pc' = "thrown"
  /\ UNCHANGED <<data, pos, obj, type, key, str, stack, touched>>

\* parse_object returns to the call that waits for it, or to parse_binary.
Return ==
  /\ pc = "return"
  /\ IF stack = << >>
       THEN pc' = "done" /\ UNCHANGED <<obj, key, stack>>
       ELSE LET caller == stack[Len(stack)]
            IN  /\ obj' = Assign(caller.obj, caller.key,
                                 Primitive("object", << >>), obj)
                /\ key' = caller.key
                /\ stack' = SubSeq(stack, 1, Len(stack) - 1)
                /\ pc' = "loop"
  /\ UNCHANGED <<data, pos, type, str, touched>>

Next ==
  \/ EndOfBuffer \/ ReadType
  \/ CstringChar \/ CstringThrows \/ CstringEnd
  \/ NestedObject \/ StringValue \/ Int32Value \/ FloatValue \/ UInt64Value
  \/ UnknownType \/ Return

Spec == Init /\ [][Next]_vars

-----------------------------------------------------------------------------
(* Properties.                                                             *)

\* parse_binary never reads past data + size, whatever the buffer holds and
\* wherever it is cut off.
InBounds == touched <= size /\ pos <= size

\* parse_object: a nested object takes at least a type byte and a terminator,
\* so a buffer of `size` bytes causes at most size / 2 recursive calls.
NestingBounded == 2 * Len(stack) <= size
=============================================================================
