------------------------------- MODULE VDFProofs -------------------------------
(***************************************************************************)
(* The VDF parsers on any buffer: TypeOK, InBounds and NestingBounded of   *)
(* VDFBinary, TypeOK and InStorage of VDFText (with the key AppInfo as it  *)
(* is in MCVDF, which the parser does not look at), and for both a number  *)
(* that every step makes smaller. Then what the two parsers make of a      *)
(* document: Decodes and TextDecodes of MCVDF, for documents of any        *)
(* length, nesting and content, cut off at any byte or character.          *)
(***************************************************************************)
EXTENDS MCVDF, SequenceLemmas, FiniteSetTheorems

-----------------------------------------------------------------------------
(* The binary parser.                                                      *)

\* The bytes that the entry under way has taken from the cursor: its type, and
\* the terminator of its key.
Taken == CASE pc = "key" -> 1
           [] pc = "value" -> 2
           [] OTHER -> 0

\* Each call that waits has had a type and a terminator of its own.
Nested == 2 * Len(stack) + Taken <= pos

IInv == TypeOK /\ InBounds /\ Nested

\* obj[key].value = v yields an object again.
LEMMA AssignType ==
  ASSUME NEW o \in Object, NEW k \in Seq(Byte), NEW v \in Value,
         NEW below \in Object
  PROVE  Assign(o, k, v, below) \in Object
<1>1. \A n \in below : [path |-> <<k>> \o n.path, val |-> n.val] \in Node
  <2>1. SUFFICES ASSUME NEW n \in below
                 PROVE  [path |-> <<k>> \o n.path, val |-> n.val] \in Node
    OBVIOUS
  <2>2. n.path \in Seq(Seq(Byte)) /\ n.val \in Value
    BY DEF Object, Node
  <2>3. <<k>> \o n.path \in Seq(Seq(Byte))
    <3>1. <<k>> \in Seq(Seq(Byte))
      OBVIOUS
    <3> QED BY <2>2, <3>1
  <2> QED BY <2>2, <2>3 DEF Node
<1>2. [path |-> <<k>>, val |-> v] \in Node
  <2>1. <<k>> \in Seq(Seq(Byte))
    OBVIOUS
  <2> QED BY <2>1 DEF Node
<1> QED BY <1>1, <1>2 DEF Assign, Object

LEMMA ValueType ==
  ASSUME NEW kind \in {"string", "int32", "float", "uint64", "object"},
         NEW b \in Seq(Byte)
  PROVE  Primitive(kind, b) \in Value
BY DEF Primitive, Value

\* A byte of the buffer is a byte, and reading it within the buffer keeps the
\* history within it.
LEMMA ReadByte ==
  ASSUME TypeOK, InBounds, NEW i \in Nat, i < size
  PROVE  Touch(i) \in Nat /\ Touch(i) <= size /\ At(i) \in Byte
<1>1. size \in Nat /\ touched \in Nat /\ touched <= size
  BY DEF TypeOK, InBounds, size
<1>2. Touch(i) \in Nat /\ Touch(i) <= size
  BY <1>1 DEF Touch
<1>3. i + 1 \in 1 .. Len(data) /\ data \in Seq(Byte)
  BY <1>1 DEF TypeOK, size
<1>4. At(i) \in Byte
  BY <1>3 DEF At
<1> QED BY <1>2, <1>4

\* The three readers of numbers.
LEMMA NumberStep ==
  ASSUME IInv, NEW kind \in {"int32", "float", "uint64"}, NEW n \in {4, 8},
         ReadNumber(kind, n)
  PROVE  IInv'
<1> USE DEF IInv
<1>a. size \in Nat /\ size' = size /\ pos \in Nat
  BY DEF TypeOK, size, ReadNumber
<1>1. CASE pos + n > size
  <2>1. TypeOK'
    BY <1>1 DEF TypeOK, ReadNumber
  <2>2. InBounds'
    BY <1>1, <1>a DEF InBounds, ReadNumber
  <2>3. Nested'
    BY <1>1, <1>a DEF Nested, Taken, ReadNumber, TypeOK
  <2> QED BY <2>1, <2>2, <2>3
<1>2. CASE ~(pos + n > size)
  <2>0. pos + n <= size /\ n \in Nat /\ n >= 1
    BY <1>2, <1>a
  <2>1. SubSeq(data, pos + 1, pos + n) \in Seq(Byte)
    BY <2>0, <1>a DEF TypeOK, size
  <2>2. obj' \in Object
    <3> DEFINE v == Primitive(kind, SubSeq(data, pos + 1, pos + n))
    <3>1. v \in Value
      BY <2>1, ValueType
    <3>2. obj \in Object /\ key \in Seq(Byte) /\ {} \in Object
      BY DEF TypeOK, Object
    <3>3. Assign(obj, key, v, {}) \in Object
      BY <3>1, <3>2, AssignType
    <3>4. obj' = Assign(obj, key, v, {})
      BY <1>2 DEF ReadNumber
    <3> QED BY <3>3, <3>4
  <2>3. touched' \in Nat /\ touched' <= size
    BY <1>2, <2>0, <1>a DEF ReadNumber, Touch, TypeOK, InBounds
  <2>4. pos' = pos + n /\ pc' = "loop" /\ stack' = stack
    BY <1>2 DEF ReadNumber
  <2>5. TypeOK'
    BY <2>0, <1>a, <2>2, <2>3, <2>4 DEF TypeOK, ReadNumber
  <2>6. InBounds'
    BY <2>0, <1>a, <2>3, <2>4 DEF InBounds
  <2>7. Nested'
    BY <2>0, <1>a, <2>4 DEF Nested, Taken, TypeOK, ReadNumber
  <2> QED BY <2>5, <2>6, <2>7
<1> QED BY <1>1, <1>2

\* read_cstring: a character, its end, or the end of the buffer.
LEMMA CstringStep ==
  ASSUME IInv, CstringChar \/ CstringThrows \/ CstringEnd
  PROVE  IInv'
<1> USE DEF IInv
<1>a. size \in Nat /\ size' = size /\ pos \in Nat /\ stack' = stack
      /\ Len(stack) \in Nat
  BY DEF TypeOK, size, CstringChar, CstringThrows, CstringEnd
<1>1. CASE CstringThrows
  <2>1. TypeOK'
    BY <1>1 DEF TypeOK, CstringThrows
  <2>2. InBounds' /\ Nested'
    BY <1>1, <1>a DEF InBounds, Nested, Taken, CstringThrows
  <2> QED BY <2>1, <2>2
<1>2. CASE CstringChar
  <2>1. At(pos) \in Byte /\ Touch(pos) \in Nat /\ Touch(pos) <= size
    BY <1>2, <1>a, ReadByte DEF CstringChar
  <2>2. TypeOK'
    BY <1>2, <1>a, <2>1 DEF TypeOK, CstringChar
  <2>3. InBounds'
    BY <1>2, <1>a, <2>1 DEF InBounds, CstringChar
  <2>4. Nested'
    BY <1>2, <1>a DEF Nested, Taken, CstringChar
  <2> QED BY <2>2, <2>3, <2>4
<1>3. CASE CstringEnd
  <2>1. Touch(pos) \in Nat /\ Touch(pos) <= size
    BY <1>3, <1>a, ReadByte DEF CstringEnd
  <2>2. obj' \in Object
    <3>1. Assign(obj, key, Primitive("string", str), {}) \in Object
      BY AssignType, ValueType DEF TypeOK, Object
    <3> QED BY <1>3, <3>1 DEF CstringEnd, TypeOK
  <2>3. TypeOK'
    BY <1>3, <1>a, <2>1, <2>2 DEF TypeOK, CstringEnd
  <2>4. InBounds'
    BY <1>3, <1>a, <2>1 DEF InBounds, CstringEnd
  <2>5. Nested'
    BY <1>3, <1>a DEF Nested, Taken, CstringEnd
  <2> QED BY <2>3, <2>4, <2>5
<1> QED BY <1>1, <1>2, <1>3

\* The loop of parse_object: its end, or the next type byte.
LEMMA LoopStep ==
  ASSUME IInv, EndOfBuffer \/ ReadType
  PROVE  IInv'
<1> USE DEF IInv
<1>a. size \in Nat /\ size' = size /\ pos \in Nat /\ stack' = stack
      /\ Len(stack) \in Nat
  BY DEF TypeOK, size, EndOfBuffer, ReadType
<1>1. CASE EndOfBuffer
  <2>1. TypeOK'
    BY <1>1 DEF TypeOK, EndOfBuffer
  <2>2. InBounds' /\ Nested'
    BY <1>1, <1>a DEF InBounds, Nested, Taken, EndOfBuffer
  <2> QED BY <2>1, <2>2
<1>2. CASE ReadType
  <2>1. At(pos) \in Byte /\ Touch(pos) \in Nat /\ Touch(pos) <= size
    BY <1>2, <1>a, ReadByte DEF ReadType
  <2>2. TypeOK'
    BY <1>2, <1>a, <2>1 DEF TypeOK, ReadType
  <2>3. InBounds'
    BY <1>2, <1>a, <2>1 DEF InBounds, ReadType
  <2>4. Nested'
    BY <1>2, <1>a DEF Nested, Taken, ReadType
  <2> QED BY <2>2, <2>3, <2>4
<1> QED BY <1>1, <1>2

\* The call of parse_object for a nested object, and its return.
LEMMA CallStep ==
  ASSUME IInv, NestedObject \/ Return
  PROVE  IInv'
<1> USE DEF IInv
<1>a. size \in Nat /\ size' = size /\ pos \in Nat /\ Len(stack) \in Nat
  BY DEF TypeOK, size, NestedObject, Return
<1>1. CASE NestedObject
  <2>1. [obj |-> obj, key |-> key] \in Caller
    BY DEF TypeOK, Caller
  <2>2. stack' \in Seq(Caller) /\ Len(stack') = Len(stack) + 1
    BY <1>1, <2>1 DEF NestedObject, TypeOK
  <2>3. TypeOK'
    BY <1>1, <2>2 DEF TypeOK, NestedObject, Object
  <2>4. InBounds'
    BY <1>1, <1>a DEF InBounds, NestedObject
  <2>5. Nested'
    BY <1>1, <1>a, <2>2 DEF Nested, Taken, NestedObject
  <2> QED BY <2>3, <2>4, <2>5
<1>2. CASE Return /\ stack = << >>
  <2>1. TypeOK'
    BY <1>2 DEF TypeOK, Return
  <2>2. InBounds' /\ Nested'
    BY <1>2, <1>a DEF InBounds, Nested, Taken, Return
  <2> QED BY <2>1, <2>2
<1>3. CASE Return /\ stack # << >>
  <2>0. Len(stack) >= 1
    BY <1>3 DEF TypeOK
  <2>1. stack[Len(stack)] \in Caller
    BY <2>0 DEF TypeOK
  <2>2. stack' \in Seq(Caller) /\ Len(stack') = Len(stack) - 1
    <3>1. stack \in Seq(Caller) /\ stack' = SubSeq(stack, 1, Len(stack) - 1)
      BY <1>3 DEF Return, TypeOK
    <3>2. SubSeq(stack, 1, Len(stack) - 1) \in Seq(Caller)
      BY <3>1, <2>0
    <3>3. Len(SubSeq(stack, 1, Len(stack) - 1)) = Len(stack) - 1
      <4> DEFINE n == Len(stack) - 1
      <4>1. n \in Nat /\ \A i \in 1 .. n : stack[i] \in Caller
        BY <3>1, <2>0, <1>a
      <4> HIDE DEF n
      <4>2. Len(SubSeq(stack, 1, n)) = IF 1 <= n THEN n - 1 + 1 ELSE 0
        BY <4>1, SubSeqProperties
      <4>3. Len(SubSeq(stack, 1, n)) = n
        BY <4>1, <4>2
      <4> QED BY <4>3 DEF n
    <3> QED BY <3>1, <3>2, <3>3
  <2>3. key' \in Seq(Byte) /\ obj' \in Object
    <3>1. stack[Len(stack)].obj \in Object /\ stack[Len(stack)].key \in Seq(Byte)
      BY <2>1 DEF Caller
    <3>2. Primitive("object", << >>) \in Value
      <4>1. << >> \in Seq(Byte)
        OBVIOUS
      <4> QED BY <4>1, ValueType
    <3> QED BY <1>3, <3>1, <3>2, AssignType DEF Return, TypeOK
  <2>4. TypeOK'
    BY <1>3, <2>2, <2>3 DEF TypeOK, Return
  <2>5. InBounds'
    BY <1>3, <1>a DEF InBounds, Return
  <2>6. Nested'
    BY <1>3, <1>a, <2>2 DEF Nested, Taken, Return
  <2> QED BY <2>4, <2>5, <2>6
<1> QED BY <1>2, <1>1, <1>3

LEMMA Inductive == IInv /\ [Next]_vars => IInv'
<1> SUFFICES ASSUME IInv, [Next]_vars PROVE IInv'
  OBVIOUS
<1>1. CASE EndOfBuffer \/ ReadType
  BY <1>1, LoopStep
<1>2. CASE CstringChar \/ CstringThrows \/ CstringEnd
  BY <1>2, CstringStep
<1>3. CASE NestedObject \/ Return
  BY <1>3, CallStep
<1>4. CASE StringValue
  <2>1. TypeOK'
    BY <1>4 DEF IInv, TypeOK, StringValue
  <2>2. InBounds'
    BY <1>4 DEF IInv, InBounds, size, StringValue
  <2>3. Nested'
    BY <1>4 DEF IInv, Nested, Taken, StringValue, TypeOK
  <2> QED BY <2>1, <2>2, <2>3 DEF IInv
<1>5. CASE Int32Value \/ FloatValue \/ UInt64Value
  BY <1>5, NumberStep DEF Int32Value, FloatValue, UInt64Value
<1>6. CASE UnknownType
  <2>1. TypeOK'
    BY <1>6 DEF IInv, TypeOK, UnknownType
  <2>2. InBounds'
    BY <1>6 DEF IInv, InBounds, size, UnknownType
  <2>3. Nested'
    BY <1>6 DEF IInv, Nested, Taken, UnknownType, TypeOK
  <2> QED BY <2>1, <2>2, <2>3 DEF IInv
<1>7. CASE UNCHANGED vars
  BY <1>7 DEF vars, IInv, TypeOK, InBounds, Nested, Taken, size
<1> QED BY <1>1, <1>2, <1>3, <1>4, <1>5, <1>6, <1>7 DEF Next

LEMMA Initially == Init => IInv
<1> SUFFICES ASSUME Init PROVE IInv
  OBVIOUS
<1>1. TypeOK
  BY DEF Init, TypeOK, Object, Byte
<1>2. InBounds /\ Nested
  BY DEF Init, InBounds, Nested, Taken, size
<1> QED BY <1>1, <1>2 DEF IInv

\* The parser's cursor, locals and stack keep their types on every buffer.
THEOREM ParserTypes == Spec => []TypeOK
<1>1. IInv => TypeOK
  BY DEF IInv
<1> QED BY Initially, Inductive, <1>1, PTL DEF Spec

\* vdf_bin.cpp reads no byte at or past `size`, on every buffer: each of its
\* five readers tests the cursor before it reads.
THEOREM ParserInBounds == Spec => []InBounds
<1>1. IInv => InBounds
  BY DEF IInv
<1> QED BY Initially, Inductive, <1>1, PTL DEF Spec

\* parse_object calls itself at most size / 2 deep, on every buffer.
THEOREM ParserNesting == Spec => []NestingBounded
<1>1. IInv => NestingBounded
  BY DEF IInv, TypeOK, InBounds, Nested, Taken, NestingBounded, size
<1> QED BY Initially, Inductive, <1>1, PTL DEF Spec

-----------------------------------------------------------------------------
(* How long a parse takes.                                                 *)

\* A number that every step makes smaller: what is left of the buffer, the
\* calls that wait, and how far the running call has come with an entry.
BinaryVariant ==
  5 * (size - pos) + 2 * Len(stack)
    + (CASE pc \in {"done", "thrown"} -> 0
         [] pc \in {"return", "key", "string"} -> 1
         [] pc = "loop" -> 2
         [] pc = "value" -> 5)

\* A step that goes on in the buffer, or that does not.
LEMMA VariantArithmetic ==
  \A s, p, q, l, m, a, b \in Nat :
    /\ p <= q /\ q <= s
    /\ \/ p < q /\ l = m /\ b < a + 5
       \/ p = q /\ 2 * m + b < 2 * l + a
    => /\ 5 * (s - q) + 2 * m + b \in Nat
       /\ 5 * (s - q) + 2 * m + b < 5 * (s - p) + 2 * l + a
  OBVIOUS

\* Each step of the binary parser.
LEMMA BinaryShrinks == IInv /\ Next => BinaryVariant \in Nat /\ BinaryVariant' < BinaryVariant
  <1> SUFFICES ASSUME IInv, Next PROVE BinaryVariant \in Nat /\ BinaryVariant' < BinaryVariant
    OBVIOUS
  <1> DEFINE rest == CASE pc \in {"done", "thrown"} -> 0
                       [] pc \in {"return", "key", "string"} -> 1
                       [] pc = "loop" -> 2
                       [] pc = "value" -> 5
  <1>1. IInv'
    BY Inductive
  <1>2. /\ size \in Nat /\ pos \in Nat /\ pos <= size /\ Len(stack) \in Nat
        /\ pc \in {"loop", "key", "value", "string", "return", "done", "thrown"}
    BY DEF IInv, TypeOK, InBounds, size
  <1>3. /\ size' \in Nat /\ pos' \in Nat /\ pos' <= size' /\ Len(stack') \in Nat
        /\ pc' \in {"loop", "key", "value", "string", "return", "done", "thrown"}
    BY <1>1 DEF IInv, TypeOK, InBounds, size
  <1>4. size' = size
    BY DEF size, Next, EndOfBuffer, ReadType, CstringChar, CstringThrows, CstringEnd, NestedObject,
           StringValue, Int32Value, FloatValue, UInt64Value, ReadNumber, UnknownType, Return
  <1>5. rest \in Nat /\ rest' \in Nat
    BY <1>2, <1>3
  <1>6. \/ pos < pos' /\ Len(stack) = Len(stack') /\ rest' < rest + 5
        \/ pos = pos' /\ 2 * Len(stack') + rest' < 2 * Len(stack) + rest
    <2>1. CASE EndOfBuffer \/ StringValue \/ UnknownType \/ CstringThrows
      <3>1. pos' = pos /\ Len(stack') = Len(stack)
        BY <2>1 DEF EndOfBuffer, StringValue, UnknownType, CstringThrows
      <3>2. rest' < rest
        BY <2>1 DEF EndOfBuffer, StringValue, UnknownType, CstringThrows
      <3> HIDE DEF rest
      <3> QED
        BY <1>2, <1>5, <3>1, <3>2
    <2>2. CASE ReadType \/ CstringChar \/ CstringEnd
      <3>1. pos' = pos + 1 /\ Len(stack') = Len(stack)
        BY <2>2 DEF ReadType, CstringChar, CstringEnd
      <3>2. rest' < rest + 5
        BY <2>2 DEF ReadType, CstringChar, CstringEnd
      <3> HIDE DEF rest
      <3> QED
        BY <1>2, <1>5, <3>1, <3>2
    <2>3. CASE Int32Value \/ FloatValue \/ UInt64Value
      <3>1. PICK kind \in {"int32", "float", "uint64"}, n \in {4, 8} : ReadNumber(kind, n)
        BY <2>3 DEF Int32Value, FloatValue, UInt64Value
      <3>2. /\ pc = "value" /\ Len(stack') = Len(stack)
            /\ \/ pc' = "thrown" /\ pos' = pos
               \/ pc' = "loop" /\ pos' = pos + n
        <4>1. CASE pos + n > size
          BY <3>1, <4>1 DEF ReadNumber
        <4>2. CASE ~(pos + n > size)
          BY <3>1, <4>2 DEF ReadNumber
        <4> QED
          BY <4>1, <4>2
      <3>3. rest = 5 /\ rest' < 5
        BY <3>2
      <3>4. n \in Nat /\ n > 0
        OBVIOUS
      <3> HIDE DEF rest
      <3> QED
        BY <1>2, <1>5, <3>2, <3>3, <3>4
    <2>4. CASE NestedObject
      <3>1. pos' = pos /\ pc = "value" /\ pc' = "loop" /\ stack' = Append(stack, [obj |-> obj, key |-> key])
        BY <2>4 DEF NestedObject
      <3>2. Len(stack') = Len(stack) + 1
        BY <3>1 DEF IInv, TypeOK
      <3>3. rest = 5 /\ rest' = 2
        BY <3>1
      <3> HIDE DEF rest
      <3> QED
        BY <1>2, <3>1, <3>2, <3>3
    <2>5. CASE Return
      <3>1. pos' = pos /\ pc = "return"
        BY <2>5 DEF Return
      <3>2. CASE stack = << >>
        <4>1. pc' = "done" /\ stack' = stack
          BY <2>5, <3>2 DEF Return
        <4>2. rest = 1 /\ rest' = 0
          BY <3>1, <4>1
        <4> HIDE DEF rest
        <4> QED
          BY <1>2, <3>1, <4>1, <4>2
      <3>3. CASE stack # << >>
        <4>1. pc' = "loop" /\ stack' = SubSeq(stack, 1, Len(stack) - 1)
          BY <2>5, <3>3 DEF Return
        <4>2. stack \in Seq(Caller)
          BY DEF IInv, TypeOK
        <4>3. Len(stack) # 0
          BY <3>3, <4>2
        <4> DEFINE n == Len(stack) - 1
        <4>4. n \in Nat /\ n <= Len(stack) /\ Len(stack) = n + 1
          BY <1>2, <4>3
        <4> HIDE DEF n
        <4>5. Len(SubSeq(stack, 1, n)) = n
          BY <4>2, <4>4, Cut
        <4>6. Len(stack') = n
          BY <4>1, <4>5 DEF n
        <4>7. rest = 1 /\ rest' = 2
          BY <3>1, <4>1
        <4> HIDE DEF rest
        <4> QED
          BY <3>1, <4>4, <4>6, <4>7
      <3> QED
        BY <3>2, <3>3
    <2> QED
      BY <2>1, <2>2, <2>3, <2>4, <2>5 DEF Next
  <1>7. /\ BinaryVariant = 5 * (size - pos) + 2 * Len(stack) + rest
        /\ BinaryVariant' = 5 * (size' - pos') + 2 * Len(stack') + rest'
    BY DEF BinaryVariant
  <1> HIDE DEF rest
  <1>8. pos <= pos'
    BY <1>2, <1>3, <1>6
  <1>9. BinaryVariant \in Nat
    BY <1>2, <1>5, <1>7
  <1>10. 5 * (size - pos') + 2 * Len(stack') + rest' < 5 * (size - pos) + 2 * Len(stack) + rest
    <2> DEFINE l == Len(stack)
               m == Len(stack')
               p == pos'
               s == size
               r == rest'
    <2>1. /\ s \in Nat /\ pos \in Nat /\ p \in Nat /\ l \in Nat /\ m \in Nat /\ rest \in Nat /\ r \in Nat
          /\ pos <= p /\ p <= s
      BY <1>2, <1>3, <1>4, <1>5, <1>8
    <2>2. \/ pos < p /\ l = m /\ r < rest + 5
          \/ pos = p /\ 2 * m + r < 2 * l + rest
      BY <1>6
    <2> HIDE DEF l, m, p, s, r
    <2>3. 5 * (s - p) + 2 * m + r < 5 * (s - pos) + 2 * l + rest
      BY ONLY <2>1, <2>2, VariantArithmetic
    <2> QED
      BY <2>3 DEF l, m, p, s, r
  <1> QED
    BY <1>4, <1>7, <1>9, <1>10

\* parse_binary cannot run for ever, whatever the buffer holds: each step of its
\* loops, calls and returns makes a natural number smaller, which is
\* 5 * size + 2 at the beginning.
THEOREM ParserShrinks ==
  Spec => /\ BinaryVariant = 5 * size + 2
          /\ [][(BinaryVariant \in Nat) /\ BinaryVariant' < BinaryVariant]_vars
  <1>1. Init => BinaryVariant = 5 * size + 2
    <2> SUFFICES ASSUME Init PROVE BinaryVariant = 5 * size + 2
      OBVIOUS
    <2>1. size \in Nat /\ pos = 0 /\ Len(stack) = 0 /\ pc = "loop"
      BY DEF Init, size
    <2>2. BinaryVariant = 5 * (size - pos) + 2 * Len(stack) + 2
      BY <2>1 DEF BinaryVariant
    <2> QED
      BY <2>1, <2>2
  <1>2. IInv /\ [Next]_vars => [(BinaryVariant \in Nat) /\ BinaryVariant' < BinaryVariant]_vars
    BY BinaryShrinks
  <1> QED
    BY <1>1, <1>2, Initially, Inductive, PTL DEF Spec

-----------------------------------------------------------------------------
(* The text parser reads nothing behind its buffer.                        *)

\* What the parser's functions need to be of: the buffer, the cursor.
TextTypes ==
  /\ text \in Seq(Text!Char)
  /\ cur \in Nat
  /\ seen \in Nat
  /\ at \in {"entry", "key", "after", "value", "parsed", "done", "thrown"}

\* Of an empty buffer nothing is read. Otherwise the cursor is at most one past the
\* end of the input, behind an escape, and what it reads is one of two terminators.
TextInv ==
  /\ TextTypes
  /\ text = << >> => /\ at \in {"entry", "parsed", "done", "thrown"} /\ calls = << >>
                     /\ cur = 0 /\ seen = 0
  /\ text # << >> =>
       /\ seen <= Text!size + 2
       /\ at \in {"entry", "key", "after", "value"} => cur <= Text!size + 1

\* How skip_ws goes on: it leaves the cursor where it is, or further on in the
\* input; over a blank; over a comment of one character, if the line ends there.
LEMMA SkipFacts ==
  ASSUME Text!size \in Nat, NEW p \in Nat
  PROVE  /\ Text!skip_ws(p) \in Nat /\ p <= Text!skip_ws(p)
         /\ Text!skip_ws(p) <= Text!size \/ Text!skip_ws(p) = p
         /\ p < Text!size /\ Text!isspace(Text!At(p)) => Text!skip_ws(p) = Text!skip_ws(p + 1)
         /\ ~(p < Text!size /\ Text!isspace(Text!At(p)))
            /\ ~(p + 1 < Text!size /\ Text!At(p) = "slash" /\ Text!At(p + 1) = "slash")
            => Text!skip_ws(p) = p
         /\ p + 1 < Text!size /\ Text!At(p) = "slash" /\ Text!At(p + 1) = "slash"
            /\ (p + 2 < Text!size => Text!At(p + 2) # "newline")
            /\ (p + 3 < Text!size => Text!At(p + 3) = "newline")
            => Text!skip_ws(p) = Text!skip_ws(IF p + 2 < Text!size THEN p + 3 ELSE p + 2)
  <1> DEFINE n == Text!size
             Lines == {i \in Nat : ~(i < n /\ Text!At(i) # "newline")}
             after == [i \in Nat |-> i + 1]
             comment == CHOOSE f : f = [i \in Nat |-> IF i < n /\ Text!At(i) # "newline" THEN f[i + 1] ELSE i]
  <1>1. Forward(after, Lines, n)
    BY DEF Forward
  <1>2. ASSUME NEW f
        PROVE  Jumps(f, after, Lines) <=>
               f = [i \in Nat |-> IF i < n /\ Text!At(i) # "newline" THEN f[i + 1] ELSE i]
    <2>1. \A i \in Nat : (IF i \in Lines THEN i ELSE f[after[i]])
                          = (IF i < n /\ Text!At(i) # "newline" THEN f[i + 1] ELSE i)
      OBVIOUS
    <2> HIDE DEF Lines, after
    <2> QED
      BY <2>1 DEF Jumps
  <1>3. Jumps(comment, after, Lines)
    <2>1. PICK g : Jumps(g, after, Lines)
      <3> HIDE DEF after, Lines, n
      <3> QED
        BY <1>1, JumpsExists DEF n
    <2>2. comment = [i \in Nat |-> IF i < n /\ Text!At(i) # "newline" THEN comment[i + 1] ELSE i]
      <3>1. \E f : f = [i \in Nat |-> IF i < n /\ Text!At(i) # "newline" THEN f[i + 1] ELSE i]
        BY <1>2, <2>1
      <3> QED
        BY <3>1, Zenon
    <2> QED
      BY <1>2, <2>2
  <1>4. ASSUME NEW i \in Nat
        PROVE  comment[i] \in Nat /\ i <= comment[i] /\ (comment[i] <= n \/ comment[i] = i)
    <2> HIDE DEF after, Lines, comment, n
    <2> QED
      BY <1>1, <1>3, JumpsTo DEF n
  <1> DEFINE Rest == {i \in Nat : /\ ~(i < n /\ Text!isspace(Text!At(i)))
                                  /\ ~(i + 1 < n /\ Text!At(i) = "slash" /\ Text!At(i + 1) = "slash")}
             next == [i \in Nat |-> IF i < n /\ Text!isspace(Text!At(i)) THEN i + 1 ELSE comment[i]]
             skip == CHOOSE f : f = [i \in Nat |->
                       IF i < n /\ Text!isspace(Text!At(i))
                         THEN f[i + 1]
                         ELSE IF i + 1 < n /\ Text!At(i) = "slash" /\ Text!At(i + 1) = "slash"
                                THEN f[comment[i]]
                                ELSE i]
  <1>5. \A i : Text!skip_ws(i) = skip[i]
    BY Zenon DEF Text!skip_ws
  <1>6. \A i \in Nat : i \notin Lines => comment[i] = comment[i + 1]
    BY <1>3 DEF Jumps
  <1> HIDE DEF comment
  <1>7. Forward(next, Rest, n)
    <2> SUFFICES ASSUME NEW i \in Nat, i \notin Rest
                 PROVE  i < n /\ next[i] \in Nat /\ i < next[i] /\ next[i] <= n
      BY DEF Forward
    <2>1. CASE i < n /\ Text!isspace(Text!At(i))
      BY <2>1
    <2>2. CASE ~(i < n /\ Text!isspace(Text!At(i)))
      <3>1. i + 1 < n /\ Text!At(i) = "slash"
        BY <2>2
      <3>2. next[i] = comment[i] /\ i < n /\ i \notin Lines
        BY <2>2, <3>1
      <3>3. comment[i] = comment[i + 1]
        BY <1>6, <3>2
      <3>4. /\ comment[i + 1] \in Nat /\ i + 1 <= comment[i + 1]
            /\ comment[i + 1] <= n \/ comment[i + 1] = i + 1
        BY <1>4
      <3> QED
        BY <3>1, <3>2, <3>3, <3>4
    <2> QED
      BY <2>1, <2>2
  <1>8. ASSUME NEW f
        PROVE  Jumps(f, next, Rest) <=>
               f = [i \in Nat |->
                     IF i < n /\ Text!isspace(Text!At(i))
                       THEN f[i + 1]
                       ELSE IF i + 1 < n /\ Text!At(i) = "slash" /\ Text!At(i + 1) = "slash"
                              THEN f[comment[i]]
                              ELSE i]
    <2>1. \A i \in Nat :
            (IF i \in Rest THEN i ELSE f[next[i]])
            = IF i < n /\ Text!isspace(Text!At(i))
                THEN f[i + 1]
                ELSE IF i + 1 < n /\ Text!At(i) = "slash" /\ Text!At(i + 1) = "slash"
                       THEN f[comment[i]]
                       ELSE i
      OBVIOUS
    <2> HIDE DEF Rest, next
    <2> QED
      BY <2>1 DEF Jumps
  <1>9. Jumps(skip, next, Rest)
    <2>1. PICK g : Jumps(g, next, Rest)
      <3> HIDE DEF next, Rest, n
      <3> QED
        BY <1>7, JumpsExists DEF n
    <2>2. \E f : f = [i \in Nat |->
                       IF i < n /\ Text!isspace(Text!At(i))
                         THEN f[i + 1]
                         ELSE IF i + 1 < n /\ Text!At(i) = "slash" /\ Text!At(i + 1) = "slash"
                                THEN f[comment[i]]
                                ELSE i]
      BY <1>8, <2>1
    <2>3. skip = [i \in Nat |->
                       IF i < n /\ Text!isspace(Text!At(i))
                         THEN skip[i + 1]
                         ELSE IF i + 1 < n /\ Text!At(i) = "slash" /\ Text!At(i + 1) = "slash"
                                THEN skip[comment[i]]
                                ELSE i]
      BY <2>2, Zenon
    <2> QED
      BY <1>8, <2>3
  <1>10. \A i \in Nat : skip[i] = IF i \in Rest THEN i ELSE skip[next[i]]
    BY <1>9 DEF Jumps
  <1>11. p < n /\ Text!isspace(Text!At(p)) => skip[p] = skip[p + 1]
    BY <1>10
  <1>12. ~(p < n /\ Text!isspace(Text!At(p)))
           /\ ~(p + 1 < n /\ Text!At(p) = "slash" /\ Text!At(p + 1) = "slash")
         => skip[p] = p
    BY <1>10
  <1>13. ASSUME p + 1 < n, Text!At(p) = "slash", Text!At(p + 1) = "slash",
                p + 2 < n => Text!At(p + 2) # "newline",
                p + 3 < n => Text!At(p + 3) = "newline"
         PROVE  skip[p] = skip[IF p + 2 < n THEN p + 3 ELSE p + 2]
    <2>1. ~(p < n /\ Text!isspace(Text!At(p))) /\ p \notin Rest
      BY <1>13 DEF Text!isspace
    <2>2. skip[p] = skip[comment[p]]
      <3>1. next[p] = comment[p]
        BY <2>1
      <3> QED
        BY <1>10, <2>1, <3>1
    <2>3. \A i \in Nat : i \notin Lines => comment[i] = comment[i + 1]
      BY <1>3 DEF Jumps
    <2>4. \A i \in Nat : i \in Lines => comment[i] = i
      BY <1>3 DEF Jumps
    <2> HIDE DEF next, Rest, skip, comment
    <2>5. comment[p] = comment[p + 2]
      <3>1. p \notin Lines /\ p + 1 \notin Lines /\ p + 1 \in Nat /\ (p + 1) + 1 = p + 2
        BY <1>13
      <3> HIDE DEF Lines
      <3> QED
        BY <2>3, <3>1
    <2> DEFINE a == p + 2
               b == p + 3
    <2>6. comment[p] = comment[a] /\ a \in Nat /\ b \in Nat /\ a + 1 = b
      BY <2>5
    <2>7. CASE a < n
      <3>1. a \notin Lines /\ b \in Lines
        BY <1>13, <2>7
      <3> HIDE DEF Lines, a, b
      <3>2. comment[a] = comment[b]
        BY <2>3, <2>6, <3>1
      <3>3. comment[b] = b
        BY <2>4, <2>6, <3>1
      <3>4. comment[p] = b
        BY <2>6, <3>2, <3>3
      <3>5. skip[p] = skip[b] /\ p + 2 < n
        BY <2>2, <2>7, <3>4 DEF a
      <3> QED
        BY <3>5 DEF b
    <2>8. CASE ~(a < n)
      <3>1. a \in Lines
        BY <2>8
      <3> HIDE DEF Lines, a
      <3>2. comment[p] = a
        BY <2>4, <2>6, <3>1
      <3>3. skip[p] = skip[a] /\ ~(p + 2 < n)
        BY <2>2, <2>8, <3>2 DEF a
      <3> QED
        BY <3>3 DEF a
    <2> QED
      BY <2>7, <2>8
  <1> HIDE DEF next, Rest, skip, n
  <1>14. skip[p] \in Nat /\ p <= skip[p] /\ (skip[p] <= n \/ skip[p] = p)
    BY <1>7, <1>9, JumpsTo DEF n
  <1> QED
    BY <1>5, <1>11, <1>12, <1>13, <1>14 DEF n

\* Where it leaves the cursor.
LEMMA SkipTo ==
  ASSUME Text!size \in Nat, NEW p \in Nat
  PROVE  /\ Text!skip_ws(p) \in Nat /\ p <= Text!skip_ws(p)
         /\ Text!skip_ws(p) <= Text!size \/ Text!skip_ws(p) = p
  BY SkipFacts

\* What is known while there is something to read, q being where skip_ws leads.
LEMMA Reading ==
  ASSUME TextInv, text # << >>, at \in {"entry", "key", "after", "value"}
  PROVE  /\ Text!size \in Nat /\ cur <= Text!size + 1
         /\ Text!skip_ws(cur) \in Nat /\ Text!skip_ws(cur) <= Text!size + 1
         /\ \A q \in Nat : q <= Text!size + 1 =>
              Text!Touch(q) \in Nat /\ Text!Touch(q) <= Text!size + 2
         /\ \A q : Text!At(q) # "nul" => q < Text!size
  <1>1. Text!size \in Nat
    BY DEF TextInv, TextTypes, Text!size
  <1>2. cur \in Nat /\ cur <= Text!size + 1 /\ seen \in Nat /\ seen <= Text!size + 2
    BY DEF TextInv, TextTypes
  <1>3. Text!skip_ws(cur) \in Nat /\ Text!skip_ws(cur) <= Text!size + 1
    BY <1>1, <1>2, SkipTo
  <1>4. \A q \in Nat : q <= Text!size + 1 =>
          Text!Touch(q) \in Nat /\ Text!Touch(q) <= Text!size + 2
    BY <1>1, <1>2 DEF Text!Touch
  <1>5. \A q : Text!At(q) # "nul" => q < Text!size
    BY DEF Text!At
  <1> QED
    BY <1>1, <1>2, <1>3, <1>4, <1>5

\* The buffer is empty or not to the end; the cursor moves to c and pc to `next`.
LEMMA Moves ==
  ASSUME TextInv, text # << >>, UNCHANGED text, NEW c \in Nat, cur' = c,
         at' \in {"entry", "key", "after", "value", "parsed", "done", "thrown"},
         at' \in {"entry", "key", "after", "value"} => c <= Text!size + 1,
         seen' \in Nat, seen' <= Text!size + 2
  PROVE  TextInv'
  <1>1. Text!size' = Text!size
    BY DEF Text!size
  <1> QED
    BY <1>1 DEF TextInv, TextTypes

\* OpenString at q.
LEMMA OpenStep ==
  ASSUME TextInv, text # << >>, at \in {"entry", "after"}, UNCHANGED text,
         NEW next \in {"key", "value"}, Text!OpenString(Text!skip_ws(cur), next)
  PROVE  TextInv'
  <1> DEFINE q == Text!skip_ws(cur)
  <1>1. /\ Text!size \in Nat /\ q \in Nat /\ q <= Text!size + 1
        /\ Text!Touch(q) \in Nat /\ Text!Touch(q) <= Text!size + 2
        /\ Text!At(q) # "nul" => q < Text!size
    BY Reading
  <1>2. /\ seen' = Text!Touch(q) /\ cur' = q + 1
        /\ IF Text!At(q) = "quote" THEN at' = next ELSE at' = "thrown"
    BY DEF Text!OpenString
  <1> HIDE DEF q
  <1>3. q + 1 \in Nat
    BY <1>1
  <1>4. at' \in {"entry", "key", "after", "value"} => q + 1 <= Text!size + 1
    BY <1>1, <1>2
  <1>5. at' \in {"entry", "key", "after", "value", "parsed", "done", "thrown"}
    BY <1>2
  <1>6. seen' \in Nat /\ seen' <= Text!size + 2
    BY <1>1, <1>2
  <1> QED
    BY <1>2, <1>3, <1>4, <1>5, <1>6, Moves

\* Every step of the parser.
LEMMA TextStep ==
  ASSUME TextInv, [Text!Next]_textVars
  PROVE  TextInv'
  <1>0. Text!size \in Nat /\ (text = << >> => Text!size = 0)
    BY DEF TextInv, TextTypes, Text!size
  <1>1. CASE Text!EndOfInput
    <2>1. /\ UNCHANGED <<text, calls, seen>> /\ cur' = Text!skip_ws(cur)
          /\ at = "entry" /\ at' = "parsed"
      BY <1>1 DEF Text!EndOfInput
    <2>2. cur \in Nat /\ seen \in Nat
      BY DEF TextInv, TextTypes
    <2>3. /\ Text!skip_ws(cur) \in Nat
          /\ Text!skip_ws(cur) <= Text!size \/ Text!skip_ws(cur) = cur
      BY <1>0, <2>2, SkipTo
    <2>4. CASE text = << >>
      <3>1. cur' = 0
        BY <1>0, <2>1, <2>3, <2>4 DEF TextInv
      <3> QED
        BY <2>1, <2>4, <3>1 DEF TextInv, TextTypes
    <2>5. CASE text # << >>
      <3>1. seen' \in Nat /\ seen' <= Text!size + 2
        BY <2>1, <2>2, <2>5 DEF TextInv
      <3> QED
        BY <2>1, <2>3, <2>5, <3>1, Moves
    <2> QED
      BY <2>4, <2>5
  <1>2. CASE Text!CloseObject
    <2> DEFINE q == Text!skip_ws(cur)
    <2>1. /\ at = "entry" /\ at' = at /\ UNCHANGED text /\ calls # << >>
          /\ Text!At(q) = "close" /\ seen' = Text!Touch(q) /\ cur' = q + 1
      BY <1>2 DEF Text!CloseObject
    <2>2. text # << >>
      BY <2>1 DEF TextInv
    <2>3. /\ q \in Nat /\ q < Text!size
          /\ Text!Touch(q) \in Nat /\ Text!Touch(q) <= Text!size + 2
      BY <1>0, <2>1, <2>2, Reading
    <2> HIDE DEF q
    <2>4. q + 1 \in Nat /\ q + 1 <= Text!size + 1
      BY <1>0, <2>3
    <2> QED
      BY <2>1, <2>2, <2>3, <2>4, Moves
  <1>3. CASE Text!Key
    <2>1. /\ at = "entry" /\ UNCHANGED text
          /\ IF calls = << >> THEN Text!skip_ws(cur) < Text!size
             ELSE Text!At(Text!skip_ws(cur)) # "close"
          /\ Text!OpenString(Text!skip_ws(cur), "key")
      BY <1>3 DEF Text!Key
    <2>2. text # << >>
      <3> SUFFICES ASSUME text = << >> PROVE FALSE
        OBVIOUS
      <3>1. Text!size = 0 /\ calls = << >> /\ cur = 0
        BY <1>0 DEF TextInv
      <3>2. Text!skip_ws(cur) \in Nat
        BY <1>0, <3>1, SkipTo
      <3> QED
        BY <2>1, <3>1, <3>2
    <2> QED
      BY <2>1, <2>2, OpenStep
  <1>4. CASE Text!PlainChar
    <2>1. /\ at \in {"key", "value"} /\ at' = at /\ UNCHANGED text /\ cur < Text!size
          /\ cur' = cur + 1 /\ seen' = Text!Touch(cur)
      BY <1>4 DEF Text!PlainChar
    <2>2. text # << >> /\ cur \in Nat
      BY <2>1 DEF TextInv, TextTypes
    <2>3. /\ cur + 1 \in Nat /\ cur + 1 <= Text!size + 1
          /\ Text!Touch(cur) \in Nat /\ Text!Touch(cur) <= Text!size + 2
      BY <1>0, <2>1, <2>2, Reading
    <2> QED
      BY <2>1, <2>2, <2>3, Moves
  <1>5. CASE Text!EscapedChar
    <2>1. /\ at \in {"key", "value"} /\ at' = at /\ UNCHANGED text /\ cur < Text!size
          /\ cur' = cur + 2 /\ seen' = Text!Touch(cur + 1)
      BY <1>5 DEF Text!EscapedChar
    <2>2. text # << >> /\ cur \in Nat
      BY <2>1 DEF TextInv, TextTypes
    <2>3. cur + 2 \in Nat /\ cur + 2 <= Text!size + 1 /\ cur + 1 \in Nat /\ cur + 1 <= Text!size + 1
      BY <1>0, <2>1, <2>2
    <2>4. Text!Touch(cur + 1) \in Nat /\ Text!Touch(cur + 1) <= Text!size + 2
      BY <2>1, <2>2, <2>3, Reading
    <2> QED
      BY <2>1, <2>2, <2>3, <2>4, Moves
  <1>6. CASE Text!EndString
    <2>1. /\ at \in {"key", "value"} /\ at' \in {"after", "entry"} /\ UNCHANGED text
          /\ \/ UNCHANGED <<cur, seen>>
             \/ cur < Text!size /\ cur' = cur + 1 /\ seen' = Text!Touch(cur)
      BY <1>6 DEF Text!EndString
    <2>2. text # << >> /\ cur \in Nat /\ seen \in Nat
      BY <2>1 DEF TextInv, TextTypes
    <2>3. /\ cur + 1 \in Nat /\ cur <= Text!size + 1
          /\ Text!Touch(cur) \in Nat /\ Text!Touch(cur) <= Text!size + 2
      BY <1>0, <2>1, <2>2, Reading
    <2>4. seen <= Text!size + 2
      BY <2>2 DEF TextInv
    <2>5. CASE UNCHANGED <<cur, seen>>
      BY <2>1, <2>2, <2>3, <2>4, <2>5, Moves
    <2>6. CASE cur < Text!size /\ cur' = cur + 1 /\ seen' = Text!Touch(cur)
      <3>1. cur + 1 <= Text!size + 1
        BY <1>0, <2>2, <2>6
      <3> QED
        BY <2>1, <2>2, <2>3, <2>6, <3>1, Moves
    <2> QED
      BY <2>1, <2>5, <2>6
  <1>7. CASE Text!OpenObject
    <2> DEFINE q == Text!skip_ws(cur)
    <2>1. /\ at = "after" /\ at' = "entry" /\ UNCHANGED text
          /\ Text!At(q) = "open" /\ seen' = Text!Touch(q) /\ cur' = q + 1
      BY <1>7 DEF Text!OpenObject
    <2>2. text # << >>
      BY <2>1 DEF TextInv
    <2>3. /\ q \in Nat /\ q < Text!size
          /\ Text!Touch(q) \in Nat /\ Text!Touch(q) <= Text!size + 2
      BY <1>0, <2>1, <2>2, Reading
    <2> HIDE DEF q
    <2>4. q + 1 \in Nat /\ q + 1 <= Text!size + 1
      BY <1>0, <2>3
    <2> QED
      BY <2>1, <2>2, <2>3, <2>4, Moves
  <1>8. CASE Text!StringValue
    <2>1. at = "after" /\ UNCHANGED text /\ Text!OpenString(Text!skip_ws(cur), "value")
      BY <1>8 DEF Text!StringValue
    <2>2. text # << >>
      BY <2>1 DEF TextInv
    <2> QED
      BY <2>1, <2>2, OpenStep
  <1>9. CASE Text!TakeAppInfo
    <2>1. /\ at' \in {"done", "thrown"} /\ UNCHANGED <<text, cur, calls, seen>>
      BY <1>9 DEF Text!TakeAppInfo
    <2>2. Text!size' = Text!size
      BY <2>1 DEF Text!size
    <2> QED
      BY <2>1, <2>2 DEF TextInv, TextTypes
  <1>10. CASE UNCHANGED textVars
    <2>1. UNCHANGED <<text, cur, at, calls, seen>>
      BY <1>10 DEF textVars
    <2>2. Text!size' = Text!size
      BY <2>1 DEF Text!size
    <2> QED
      BY <2>1, <2>2 DEF TextInv, TextTypes
  <1> QED
    BY <1>1, <1>2, <1>3, <1>4, <1>5, <1>6, <1>7, <1>8, <1>9, <1>10 DEF Text!Next

\* parse_text, on any buffer: peek() and consume() do not test for the end of the
\* input, but read nothing behind the storage of the string, also when the text
\* ends inside an object, an entry or an escape.
THEOREM TextParserInBounds == Text!Spec => []TextInStorage
  <1>1. Text!Init => TextInv
    BY DEF Text!Init, TextInv, TextTypes, Text!size
  <1>2. TextInv => TextInStorage
    <2> SUFFICES ASSUME TextInv PROVE TextInStorage
      OBVIOUS
    <2>1. CASE text = << >>
      BY <2>1 DEF TextInv, TextTypes, TextInStorage, Text!InStorage
    <2>2. CASE text # << >>
      <3>1. Text!size = Len(text) - 1 /\ Len(text) \in Nat
        BY <2>2 DEF Text!size, TextInv, TextTypes
      <3> QED
        BY <2>2, <3>1 DEF TextInv, TextTypes, TextInStorage, Text!InStorage
    <2> QED
      BY <2>1, <2>2
  <1>3. TextInv /\ [Text!Next]_textVars => TextInv'
    BY TextStep
  <1>4. Text!Spec => Text!Init /\ [][Text!Next]_textVars
    BY DEF Text!Spec, Text!vars, textVars
  <1> QED
    BY <1>1, <1>2, <1>3, <1>4, PTL

\* The same for the text parser, whose calls all go on in the buffer.
Running == {"entry", "key", "after", "value"}
Phase == CASE at = "after" -> 2
           [] at \in {"entry", "key"} -> 3
           [] at = "value" -> 4
TextVariant ==
  CASE at \in {"done", "thrown"} -> 0
    [] at = "parsed" -> 1
    [] at \in Running -> 3 * (Text!size + 1 - cur) + Phase

\* Each step of the text parser.
LEMMA TextShrinks ==
  TextInv /\ Text!Next => TextVariant \in Nat /\ TextVariant' < TextVariant
  <1> SUFFICES ASSUME TextInv, Text!Next PROVE TextVariant \in Nat /\ TextVariant' < TextVariant
    OBVIOUS
  <1>1. TextInv'
    BY TextStep
  <1>2. /\ Text!size \in Nat /\ cur \in Nat /\ cur' \in Nat
        /\ at \in Running => cur <= Text!size + 1
    <2>1. Text!size \in Nat /\ cur \in Nat /\ cur' \in Nat
      BY <1>1 DEF TextInv, TextTypes, Text!size
    <2>2. CASE text = << >>
      BY <2>1, <2>2 DEF TextInv
    <2>3. CASE text # << >>
      BY <2>1, <2>3 DEF TextInv, Running
    <2> QED
      BY <2>1, <2>2, <2>3
  <1>3. Text!size' = Text!size
    BY DEF Text!size, Text!Next, Text!EndOfInput, Text!CloseObject, Text!Key, Text!PlainChar,
           Text!EscapedChar, Text!EndString, Text!OpenObject, Text!StringValue, Text!TakeAppInfo
  <1>4. at' \in Running => cur' <= Text!size + 1
    <2>1. CASE text' = << >>
      BY <1>1, <1>2, <2>1 DEF TextInv
    <2>2. CASE text' # << >>
      BY <1>1, <1>3, <2>2 DEF TextInv, Running
    <2> QED
      BY <2>1, <2>2
  <1>5. at \in Running => Phase \in 2 .. 4 /\ TextVariant = 3 * (Text!size + 1 - cur) + Phase
    BY DEF Running, Phase, TextVariant
  <1>6. at' \in Running => Phase' \in 2 .. 4 /\ TextVariant' = 3 * (Text!size + 1 - cur') + Phase'
    BY <1>3 DEF Running, Phase, TextVariant
  <1>7. Text!skip_ws(cur) \in Nat /\ cur <= Text!skip_ws(cur)
    BY <1>2, SkipTo
  \* a step that stays in the loops
  <1>8. ASSUME at \in Running, at' \in Running,
               \/ cur < cur' /\ Phase' < Phase + 3
               \/ cur = cur' /\ Phase' < Phase
        PROVE  TextVariant \in Nat /\ TextVariant' < TextVariant
    <2> DEFINE n == Text!size
               p == cur'
               a == Phase
               b == Phase'
    <2>1. /\ n \in Nat /\ cur \in Nat /\ p \in Nat /\ a \in Nat /\ b \in Nat
          /\ cur <= n + 1 /\ p <= n + 1
      BY <1>2, <1>4, <1>5, <1>6, <1>8
    <2>2. \/ cur < p /\ b < a + 3
          \/ cur = p /\ b < a
      BY <1>8
    <2>3. TextVariant = 3 * (n + 1 - cur) + a /\ TextVariant' = 3 * (n + 1 - p) + b
      BY <1>5, <1>6, <1>8
    <2> HIDE DEF n, p, a, b
    <2> QED
      BY <2>1, <2>2, <2>3
  \* one that leaves them
  <1>9. ASSUME at \in Running, at' \in {"parsed", "done", "thrown"}
        PROVE  TextVariant \in Nat /\ TextVariant' < TextVariant
    <2>1. TextVariant' \in {0, 1}
      BY <1>9 DEF TextVariant, Running
    <2>2. TextVariant \in Nat /\ TextVariant >= 2
      BY <1>2, <1>5, <1>9
    <2> QED
      BY <2>1, <2>2
  <1>10. CASE Text!EndOfInput
    BY <1>9, <1>10 DEF Text!EndOfInput, Running
  <1>11. CASE Text!CloseObject
    <2>1. at = "entry" /\ at' = "entry" /\ cur' = Text!skip_ws(cur) + 1
      BY <1>11 DEF Text!CloseObject
    <2>2. at \in Running /\ at' \in Running /\ Phase = 3 /\ Phase' = 3
      BY <2>1 DEF Running, Phase
    <2>3. cur < cur'
      BY <1>2, <1>7, <2>1
    <2> QED
      BY <1>8, <2>2, <2>3
  <1>12. CASE Text!Key \/ Text!StringValue
    <2>1. /\ cur' = Text!skip_ws(cur) + 1
          /\ \/ at = "entry" /\ at' \in {"key", "thrown"}
             \/ at = "after" /\ at' \in {"value", "thrown"}
      BY <1>12 DEF Text!Key, Text!StringValue, Text!OpenString
    <2>2. cur < cur'
      BY <1>2, <1>7, <2>1
    <2>3. at \in Running
      BY <2>1 DEF Running
    <2>4. CASE at' = "thrown"
      BY <1>9, <2>3, <2>4
    <2>5. CASE at' # "thrown"
      <3>1. at' \in Running /\ Phase' < Phase + 3
        BY <2>1, <2>5 DEF Running, Phase
      <3> QED
        BY <1>8, <2>2, <2>3, <3>1
    <2> QED
      BY <2>4, <2>5
  <1>13. CASE Text!PlainChar \/ Text!EscapedChar
    <2>1. at \in {"key", "value"} /\ at' = at /\ cur' \in {cur + 1, cur + 2}
      BY <1>13 DEF Text!PlainChar, Text!EscapedChar
    <2>2. cur < cur'
      BY <1>2, <2>1
    <2>3. at \in Running /\ at' \in Running /\ Phase' = Phase
      BY <2>1 DEF Running, Phase
    <2>4. Phase' < Phase + 3
      BY <1>5, <2>3
    <2> QED
      BY <1>8, <2>2, <2>3, <2>4
  <1>14. CASE Text!EndString
    <2>1. /\ \/ at = "key" /\ at' = "after"
             \/ at = "value" /\ at' = "entry"
          /\ cur' = cur \/ cur' = cur + 1
      BY <1>14 DEF Text!EndString
    <2>2. at \in Running /\ at' \in Running /\ Phase' < Phase
      BY <2>1 DEF Running, Phase
    <2>3. Phase' < Phase + 3
      BY <1>5, <1>6, <2>2
    <2>4. cur' = cur \/ cur < cur'
      BY <1>2, <2>1
    <2> QED
      BY <1>8, <2>2, <2>3, <2>4
  <1>15. CASE Text!OpenObject
    <2>1. at = "after" /\ at' = "entry" /\ cur' = Text!skip_ws(cur) + 1
      BY <1>15 DEF Text!OpenObject
    <2>2. at \in Running /\ at' \in Running /\ Phase = 2 /\ Phase' = 3
      BY <2>1 DEF Running, Phase
    <2>3. cur < cur'
      BY <1>2, <1>7, <2>1
    <2> QED
      BY <1>8, <2>2, <2>3
  <1>16. CASE Text!TakeAppInfo
    <2>1. at = "parsed" /\ at' \in {"done", "thrown"}
      BY <1>16 DEF Text!TakeAppInfo
    <2> QED
      BY <2>1 DEF TextVariant, Running
  <1> QED
    BY <1>10, <1>11, <1>12, <1>13, <1>14, <1>15, <1>16 DEF Text!Next

\* parse_text and parse_app cannot run for ever either: skip_ws only goes forward,
\* and a string that the end of the input cuts off ends there.
THEOREM TextParserShrinks ==
  Text!Spec => /\ TextVariant = 3 * Text!size + 6
               /\ [][(TextVariant \in Nat) /\ TextVariant' < TextVariant]_textVars
  <1>1. Text!Init => TextInv /\ TextVariant = 3 * Text!size + 6
    <2> SUFFICES ASSUME Text!Init PROVE TextInv /\ TextVariant = 3 * Text!size + 6
      OBVIOUS
    <2>1. TextInv
      BY DEF Text!Init, TextInv, TextTypes, Text!size
    <2>2. Text!size \in Nat
      BY <2>1 DEF TextInv, TextTypes, Text!size
    <2>3. cur = 0 /\ at = "entry"
      BY DEF Text!Init
    <2>4. TextVariant = 3 * (Text!size + 1 - cur) + 3
      BY <2>3 DEF TextVariant, Phase, Running
    <2> QED
      BY <2>1, <2>2, <2>3, <2>4
  <1>2. TextInv /\ [Text!Next]_textVars
        => [(TextVariant \in Nat) /\ TextVariant' < TextVariant]_textVars
    BY TextShrinks
  <1>3. TextInv /\ [Text!Next]_textVars => TextInv'
    BY TextStep
  <1>4. Text!Spec => Text!Init /\ [][Text!Next]_textVars
    BY DEF Text!Spec, Text!vars, textVars
  <1> QED
    BY <1>1, <1>2, <1>3, <1>4, PTL

-----------------------------------------------------------------------------
(* The tree and the locals of the text parser.                             *)

\* Besides the cursor: the tree, the key and the string under way, the calls.
TextLocals ==
  /\ tree \in Text!Object
  /\ name \in Seq(Text!Char)
  /\ chars \in Seq(Text!Char)
  /\ calls \in Seq(Text!Caller)

\* obj[key].value = v, in a tree of characters.
LEMMA TextAssign ==
  ASSUME NEW o \in Text!Object, NEW k \in Seq(Text!Char), NEW below \in Text!Object,
         NEW kind \in {"string", "object"}, NEW s \in Seq(Text!Char)
  PROVE  Text!Assign(o, k, Text!Primitive(kind, s), below) \in Text!Object
  <1> DEFINE C == Text!Char
             v == Text!Primitive(kind, s)
  <1>1. <<k>> \in Seq(Seq(C))
    OBVIOUS
  <1>2. v \in Text!Value
    BY DEF Text!Primitive, Text!Value
  <1>3. \A n \in below : [path |-> <<k>> \o n.path, val |-> n.val] \in Text!Node
    <2> SUFFICES ASSUME NEW n \in below
                 PROVE  [path |-> <<k>> \o n.path, val |-> n.val] \in Text!Node
      OBVIOUS
    <2>1. n.path \in Seq(Seq(C)) /\ n.val \in Text!Value
      BY DEF Text!Object, Text!Node
    <2> HIDE DEF C
    <2>2. <<k>> \o n.path \in Seq(Seq(C))
      BY <1>1, <2>1
    <2> QED
      BY <2>1, <2>2 DEF Text!Node, C
  <1>4. [path |-> <<k>>, val |-> v] \in Text!Node
    BY <1>1, <1>2 DEF Text!Node
  <1> HIDE DEF v
  <1>5. Text!Assign(o, k, v, below) \in Text!Object
    BY <1>3, <1>4 DEF Text!Assign, Text!Object
  <1> QED
    BY <1>5 DEF v

\* The character the parser looks at, and what an escape makes of one.
LEMMA Character ==
  ASSUME TextInv, NEW i \in Nat
  PROVE  Text!At(i) \in Text!Char /\ Text!Unescape(Text!At(i)) \in Text!Char
  <1>1. text \in Seq(Text!Char) /\ "nul" \in Text!Char /\ "newline" \in Text!Char /\ "tab" \in Text!Char
    BY DEF TextInv, TextTypes, Text!Char
  <1>2. Text!At(i) \in Text!Char
    <2>1. CASE i < Text!size
      <3>1. text # << >> /\ Text!size = Len(text) - 1 /\ Len(text) \in Nat
        BY <1>1, <2>1 DEF Text!size
      <3>2. i + 1 \in 1 .. Len(text)
        BY <2>1, <3>1
      <3> QED
        BY <1>1, <2>1, <3>2 DEF Text!At
    <2>2. CASE ~(i < Text!size)
      BY <1>1, <2>2 DEF Text!At
    <2> QED
      BY <2>1, <2>2
  <1> QED
    BY <1>1, <1>2 DEF Text!Unescape

\* Every step keeps them.
LEMMA LocalsStep ==
  ASSUME TextInv, TextLocals, [Text!Next]_textVars
  PROVE  TextLocals'
  <1>0. << >> \in Seq(Text!Char)
    OBVIOUS
  <1>1. CASE Text!EndOfInput \/ Text!Key \/ Text!StringValue
    <2>1. UNCHANGED <<tree, name, calls>> /\ chars' \in {<< >>, chars}
      BY <1>1 DEF Text!EndOfInput, Text!Key, Text!StringValue, Text!OpenString
    <2> QED
      BY <1>0, <2>1 DEF TextLocals
  <1>2. CASE Text!CloseObject
    <2> DEFINE caller == calls[Len(calls)]
               n == Len(calls) - 1
    <2>1. /\ calls # << >> /\ UNCHANGED chars
          /\ tree' = Text!Assign(caller.obj, caller.key, Text!Primitive("object", << >>), tree)
          /\ name' = caller.key /\ calls' = SubSeq(calls, 1, n)
      BY <1>2 DEF Text!CloseObject
    <2>2. calls \in Seq(Text!Caller) /\ Len(calls) \in Nat /\ Len(calls) # 0
      BY <2>1 DEF TextLocals
    <2>3. caller \in Text!Caller /\ n \in Nat /\ n <= Len(calls)
      BY <2>2
    <2> HIDE DEF caller, n
    <2>4. caller.obj \in Text!Object /\ caller.key \in Seq(Text!Char)
      BY <2>3 DEF Text!Caller
    <2>5. calls' \in Seq(Text!Caller)
      BY <2>1, <2>2, <2>3, Cut
    <2>6. tree' \in Text!Object
      <3>1. tree \in Text!Object
        BY DEF TextLocals
      <3>2. Text!Assign(caller.obj, caller.key, Text!Primitive("object", << >>), tree) \in Text!Object
        BY <1>0, <2>4, <3>1, TextAssign
      <3> QED
        BY <2>1, <3>2
    <2> QED
      BY <2>1, <2>4, <2>5, <2>6 DEF TextLocals
  <1>3. CASE Text!PlainChar \/ Text!EscapedChar
    <2>1. /\ UNCHANGED <<tree, name, calls>>
          /\ \E c \in {Text!At(cur), Text!Unescape(Text!At(cur + 1))} : chars' = Append(chars, c)
      BY <1>3 DEF Text!PlainChar, Text!EscapedChar
    <2>2. cur \in Nat /\ cur + 1 \in Nat
      BY DEF TextInv, TextTypes
    <2>3. PICK c \in Text!Char : chars' = Append(chars, c)
      BY <2>1, <2>2, Character
    <2> QED
      BY <2>1, <2>3 DEF TextLocals
  <1>4. CASE Text!EndString
    <2>1. /\ UNCHANGED <<chars, calls>>
          /\ \/ name' = chars /\ UNCHANGED tree
             \/ /\ tree' = Text!Assign(tree, name, Text!Primitive("string", chars), {})
                /\ UNCHANGED name
      BY <1>4 DEF Text!EndString
    <2>2. {} \in Text!Object
      BY DEF Text!Object
    <2>3. Text!Assign(tree, name, Text!Primitive("string", chars), {}) \in Text!Object
      BY <2>2, TextAssign DEF TextLocals
    <2> QED
      BY <2>1, <2>3 DEF TextLocals
  <1>5. CASE Text!OpenObject
    <2>1. /\ UNCHANGED <<name, chars>> /\ tree' = {}
          /\ calls' = Append(calls, [obj |-> tree, key |-> name])
      BY <1>5 DEF Text!OpenObject
    <2>2. [obj |-> tree, key |-> name] \in Text!Caller /\ {} \in Text!Object
      BY DEF TextLocals, Text!Caller, Text!Object
    <2> QED
      BY <2>1, <2>2 DEF TextLocals
  <1>6. CASE Text!TakeAppInfo
    <2>1. /\ UNCHANGED <<name, chars, calls>>
          /\ tree' \in {tree, Text!as_object(tree, AppInfo)}
      BY <1>6 DEF Text!TakeAppInfo
    <2>2. ASSUME NEW n \in tree, Len(n.path) > 1
          PROVE  [path |-> Tail(n.path), val |-> n.val] \in Text!Node
      <3>1. n.path \in Seq(Seq(Text!Char)) /\ n.val \in Text!Value
        BY DEF TextLocals, Text!Object, Text!Node
      <3> DEFINE p == n.path
      <3>2. p \in Seq(Seq(Text!Char)) /\ Len(p) > 1
        BY <2>2, <3>1
      <3> HIDE DEF p
      <3>3. Tail(p) \in Seq(Seq(Text!Char))
        BY <3>2
      <3> QED
        BY <3>1, <3>3 DEF p, Text!Node
    <2>3. Text!as_object(tree, AppInfo) \in Text!Object
      BY <2>2 DEF Text!as_object, Text!Object
    <2> QED
      BY <2>1, <2>3 DEF TextLocals
  <1>7. CASE UNCHANGED textVars
    BY <1>7 DEF textVars, TextLocals
  <1> QED
    BY <1>1, <1>2, <1>3, <1>4, <1>5, <1>6, <1>7 DEF Text!Next

\* TextParser: the cursor, the tree, the locals of the running call and of the
\* calls that wait keep their types on every text; in particular an object is
\* popped only if one is open.
THEOREM TextParserTypes == Text!Spec => []Text!TypeOK
  <1>1. Text!Init => TextInv /\ TextLocals
    BY DEF Text!Init, TextInv, TextTypes, TextLocals, Text!size, Text!Object
  <1>2. TextInv /\ TextLocals /\ [Text!Next]_textVars => TextInv' /\ TextLocals'
    BY TextStep, LocalsStep
  <1>3. TextInv /\ TextLocals => Text!TypeOK
    BY DEF TextInv, TextTypes, TextLocals, Text!TypeOK
  <1>4. Text!Spec => Text!Init /\ [][Text!Next]_textVars
    BY DEF Text!Spec, Text!vars, textVars
  <1> QED
    BY <1>1, <1>2, <1>3, <1>4, PTL

-----------------------------------------------------------------------------
(* What parse_binary decodes. The bytes of a document.                     *)

\* Strings without a terminator in them.
Cstring == {s \in Seq(Byte) : \A i \in 1 .. Len(s) : s[i] # 0}

\* Any item that a writer of the format can produce: any type byte, any key, any
\* content that fits the type.
AnyItem ==
  {i \in [t : Byte, k : Cstring, b : Seq(Byte)] :
     /\ i.t = 0 => i.b = << >>
     /\ i.t = 1 => i.b \in Cstring
     /\ i.t \in {2, 3} => Len(i.b) = 4
     /\ i.t = 7 => Len(i.b) = 8}

\* Arithmetic on the lengths of an item.
LEMMA ItemArithmetic ==
  \A n, m \in Nat : /\ 2 + n + m + 1 = 3 + n + m /\ 3 + n + m \in Nat \ {0}
                    /\ 3 + n + m >= 2 + n
  OBVIOUS

\* The bytes of one item: its type, its key with a terminator, its content.
LEMMA EncodeFacts ==
  ASSUME NEW i \in AnyItem
  PROVE  /\ Encode(i) \in Seq(Byte) /\ Len(Encode(i)) \in Nat \ {0} /\ Encode(i)[1] = i.t
         /\ Len(i.k) \in Nat /\ Len(i.b) \in Nat
         /\ i.t = 8 => Len(Encode(i)) = 1
         /\ i.t # 8 =>
              /\ Len(Encode(i)) >= 2 + Len(i.k)
              /\ \A j \in 1 .. Len(i.k) : Encode(i)[1 + j] = i.k[j]
              /\ Encode(i)[2 + Len(i.k)] = 0
              /\ Len(Encode(i)) = 2 + Len(i.k) + Len(i.b) + (IF i.t = 1 THEN 1 ELSE 0)
              /\ \A j \in 1 .. Len(i.b) : Encode(i)[2 + Len(i.k) + j] = i.b[j]
              /\ i.t = 1 => Encode(i)[3 + Len(i.k) + Len(i.b)] = 0
  <1>1. /\ i.t \in Byte /\ i.k \in Seq(Byte) /\ i.b \in Seq(Byte)
        /\ Len(i.k) \in Nat /\ Len(i.b) \in Nat
    BY DEF AnyItem, Cstring
  <1>2. CASE i.t = 8
    BY <1>1, <1>2 DEF Encode, Byte
  <1>3. CASE i.t # 8
    <2> DEFINE head == <<i.t>> \o i.k
               named == head \o <<0>>
               whole == named \o i.b
    <2>0. 0 \in Byte
      BY DEF Byte
    <2>1. /\ head \in Seq(Byte) /\ Len(head) = 1 + Len(i.k) /\ head[1] = i.t
          /\ \A j \in 1 .. Len(i.k) : head[1 + j] = i.k[j]
      <3>1. <<i.t>> \in Seq(Byte) /\ Len(<<i.t>>) = 1 /\ <<i.t>>[1] = i.t
        BY <1>1
      <3> QED
        BY <1>1, <3>1, Concatenated
    <2> HIDE DEF head
    <2>2. /\ named \in Seq(Byte) /\ Len(named) = 2 + Len(i.k) /\ named[1] = i.t
          /\ \A j \in 1 .. Len(i.k) : named[1 + j] = i.k[j]
          /\ named[2 + Len(i.k)] = 0
      <3>1. <<0>> \in Seq(Byte) /\ Len(<<0>>) = 1 /\ <<0>>[1] = 0
        BY <2>0
      <3>2. /\ named \in Seq(Byte) /\ Len(named) = Len(head) + 1
            /\ \A j \in 1 .. Len(head) : named[j] = head[j]
            /\ named[Len(head) + 1] = 0
        BY <2>1, <3>1, Concatenated
      <3> HIDE DEF named
      <3> QED
        BY <1>1, <2>1, <3>2
    <2> HIDE DEF named
    <2>3. /\ whole \in Seq(Byte) /\ Len(whole) = 2 + Len(i.k) + Len(i.b) /\ whole[1] = i.t
          /\ \A j \in 1 .. Len(i.k) : whole[1 + j] = i.k[j]
          /\ whole[2 + Len(i.k)] = 0
          /\ \A j \in 1 .. Len(i.b) : whole[2 + Len(i.k) + j] = i.b[j]
      <3>1. named \in Seq(Byte) /\ i.b \in Seq(Byte)
        BY <1>1, <2>2
      <3>2. /\ whole \in Seq(Byte) /\ Len(whole) = Len(named) + Len(i.b)
            /\ \A j \in 1 .. Len(named) : whole[j] = named[j]
            /\ \A j \in 1 .. Len(i.b) : whole[Len(named) + j] = i.b[j]
        BY <3>1, Concatenated
      <3> HIDE DEF whole
      <3>3. /\ 1 \in 1 .. Len(named) /\ 2 + Len(i.k) \in 1 .. Len(named)
            /\ \A j \in 1 .. Len(i.k) : 1 + j \in 1 .. Len(named)
        BY <1>1, <2>2
      <3>4. \A j \in 1 .. Len(i.k) : whole[1 + j] = i.k[j]
        BY <2>2, <3>2, <3>3
      <3>5. \A j \in 1 .. Len(i.b) : whole[2 + Len(i.k) + j] = i.b[j]
        BY <2>2, <3>2
      <3> QED
        BY <1>1, <2>2, <3>2, <3>3, <3>4, <3>5
    <2> HIDE DEF whole
    <2>6. Len(whole) = 2 + Len(i.k) + Len(i.b) /\ whole \in Seq(Byte)
      BY <2>3
    <2>7. /\ Len(whole) \in Nat \ {0} /\ Len(whole) >= 2 + Len(i.k)
          /\ 1 \in 1 .. Len(whole) /\ 2 + Len(i.k) \in 1 .. Len(whole)
          /\ \A j \in 1 .. Len(i.k) : 1 + j \in 1 .. Len(whole)
          /\ \A j \in 1 .. Len(i.b) : 2 + Len(i.k) + j \in 1 .. Len(whole)
      <3> DEFINE n == Len(i.k)
                 m == Len(i.b)
                 l == Len(whole)
      <3>1. n \in Nat /\ m \in Nat /\ l = 2 + n + m
        BY <1>1, <2>6
      <3> HIDE DEF n, m, l
      <3>2. /\ l \in Nat \ {0} /\ l >= 2 + n
            /\ 1 \in 1 .. l /\ 2 + n \in 1 .. l
            /\ \A j \in 1 .. n : 1 + j \in 1 .. l
            /\ \A j \in 1 .. m : 2 + n + j \in 1 .. l
        BY <3>1
      <3> QED
        BY <3>2 DEF n, m, l
    <2>4. CASE i.t # 1
      <3>1. Encode(i) = whole
        BY <1>3, <2>4 DEF Encode, whole, named, head
      <3>2. Len(i.b) + (IF i.t = 1 THEN 1 ELSE 0) = Len(i.b)
        BY <1>1, <2>4
      <3>3. /\ whole \in Seq(Byte) /\ Len(whole) \in Nat \ {0} /\ whole[1] = i.t
            /\ Len(i.k) \in Nat /\ Len(i.b) \in Nat
        BY <1>1, <2>3, <2>7
      <3>4. Len(whole) = 2 + Len(i.k) + Len(i.b) + (IF i.t = 1 THEN 1 ELSE 0)
        <4>1. 2 + Len(i.k) + Len(i.b) + 0 = 2 + Len(i.k) + Len(i.b)
          BY <1>1
        <4> QED
          BY <2>4, <2>6, <4>1
      <3>5. /\ Len(whole) >= 2 + Len(i.k)
            /\ \A j \in 1 .. Len(i.k) : whole[1 + j] = i.k[j]
            /\ whole[2 + Len(i.k)] = 0
            /\ \A j \in 1 .. Len(i.b) : whole[2 + Len(i.k) + j] = i.b[j]
        BY <2>3, <2>7
      <3> QED
        BY ONLY <1>3, <2>4, <3>1, <3>3, <3>4, <3>5, Zenon
    <2>5. CASE i.t = 1
      <3> DEFINE closed == whole \o <<0>>
      <3>1. Encode(i) = closed
        <4>1. Encode(i) = <<1>> \o i.k \o <<0>> \o i.b \o <<0>>
          BY <1>3, <2>5 DEF Encode
        <4> QED
          BY <2>5, <4>1 DEF whole, named, head
      <3>2. <<0>> \in Seq(Byte) /\ Len(<<0>>) = 1 /\ <<0>>[1] = 0
        BY <2>0
      <3>3. whole \in Seq(Byte) /\ Len(whole) \in Nat
        BY <2>6, <2>7
      <3>4. /\ closed \in Seq(Byte) /\ Len(closed) = Len(whole) + 1
            /\ \A j \in 1 .. Len(whole) : closed[j] = whole[j]
            /\ closed[Len(whole) + 1] = 0
        BY <3>2, <3>3, Concatenated
      <3> HIDE DEF closed
      <3>6. /\ closed[1] = i.t /\ closed[2 + Len(i.k)] = 0
            /\ \A j \in 1 .. Len(i.k) : closed[1 + j] = i.k[j]
            /\ \A j \in 1 .. Len(i.b) : closed[2 + Len(i.k) + j] = i.b[j]
        BY <2>3, <2>7, <3>4
      <3>7. /\ Len(closed) = 3 + Len(i.k) + Len(i.b) /\ closed[3 + Len(i.k) + Len(i.b)] = 0
            /\ Len(closed) \in Nat \ {0} /\ Len(closed) >= 2 + Len(i.k)
        <4>1. /\ Len(whole) + 1 = 3 + Len(i.k) + Len(i.b)
              /\ Len(whole) + 1 \in Nat \ {0} /\ Len(whole) + 1 >= 2 + Len(i.k)
          <5>1. /\ 2 + Len(i.k) + Len(i.b) + 1 = 3 + Len(i.k) + Len(i.b)
                /\ 3 + Len(i.k) + Len(i.b) \in Nat \ {0}
                /\ 3 + Len(i.k) + Len(i.b) >= 2 + Len(i.k)
            BY ItemArithmetic, <1>1
          <5> QED
            BY <2>6, <5>1, Zenon
        <4> QED
          BY <3>4, <4>1
      <3>8. Len(closed) = 2 + Len(i.k) + Len(i.b) + (IF i.t = 1 THEN 1 ELSE 0)
        <4>1. 2 + Len(i.k) + Len(i.b) + 1 = 3 + Len(i.k) + Len(i.b)
          BY ItemArithmetic, <1>1
        <4> QED
          BY <2>5, <3>7, <4>1
      <3>9. Len(i.k) \in Nat /\ Len(i.b) \in Nat
        BY <1>1
      <3> QED
        BY ONLY <1>3, <2>5, <3>1, <3>4, <3>6, <3>7, <3>8, <3>9, Zenon
    <2> QED
      BY <2>4, <2>5
  <1> QED
    BY <1>2, <1>3

\* Where the k-th item of d ends.
End(d, k) == Len(EncodeAll(SubSeq(d, 1, k)))

\* The bytes of items: those of one more item follow.
LEMMA EncodeAllFacts ==
  /\ EncodeAll(<< >>) = << >>
  /\ \A d \in Seq(AnyItem) : EncodeAll(d) \in Seq(Byte)
  /\ \A d \in Seq(AnyItem), i \in AnyItem : EncodeAll(Append(d, i)) = EncodeAll(d) \o Encode(i)
  <1> DEFINE codes(d) == [n \in 1 .. Len(d) |-> Encode(d[n])]
  <1>1. \A d \in Seq(AnyItem) : codes(d) \in Seq(Seq(Byte))
    <2> SUFFICES ASSUME NEW d \in Seq(AnyItem) PROVE codes(d) \in Seq(Seq(Byte))
      OBVIOUS
    <2>1. Len(d) \in Nat /\ \A n \in 1 .. Len(d) : d[n] \in AnyItem
      OBVIOUS
    <2>2. \A n \in 1 .. Len(d) : Encode(d[n]) \in Seq(Byte)
      BY <2>1, EncodeFacts
    <2> QED
      BY <2>1, <2>2
  <1>2. codes(<< >>) = << >>
    OBVIOUS
  <1>3. ASSUME NEW d \in Seq(AnyItem), NEW i \in AnyItem
        PROVE  codes(Append(d, i)) = Append(codes(d), Encode(i))
    <2> DEFINE e == Append(d, i)
               c == Append(codes(d), Encode(i))
    <2>1. /\ Len(e) = Len(d) + 1 /\ Len(d) \in Nat
          /\ (\A n \in 1 .. Len(d) : e[n] = d[n]) /\ e[Len(d) + 1] = i
      BY Appended
    <2>2. Encode(i) \in Seq(Byte)
      BY EncodeFacts
    <2>3. Len(codes(d)) = Len(d) /\ \A n \in 1 .. Len(d) : codes(d)[n] = Encode(d[n])
      BY <2>1
    <2>4. /\ c \in Seq(Seq(Byte)) /\ Len(c) = Len(codes(d)) + 1
          /\ \A n \in 1 .. Len(codes(d)) : c[n] = codes(d)[n]
          /\ c[Len(codes(d)) + 1] = Encode(i)
      <3>1. codes(d) \in Seq(Seq(Byte))
        BY <1>1
      <3> HIDE DEF codes
      <3> QED
        BY <2>2, <3>1, Appended
    <2>5. e \in Seq(AnyItem)
      OBVIOUS
    <2>6. codes(e) \in Seq(Seq(Byte)) /\ Len(codes(e)) = Len(e)
          /\ \A n \in 1 .. Len(e) : codes(e)[n] = Encode(e[n])
      <3>1. codes(e) \in Seq(Seq(Byte))
        BY <1>1, <2>5
      <3>2. Len(e) \in Nat
        BY <2>1
      <3> HIDE DEF e
      <3> QED
        BY <3>1, <3>2
    <2> HIDE DEF e, c, codes
    <2>7. ASSUME NEW n \in 1 .. Len(c) PROVE codes(e)[n] = c[n]
      <3>1. n \in 1 .. Len(d) \/ n = Len(d) + 1
        BY <2>1, <2>3, <2>4
      <3>2. n \in 1 .. Len(e)
        BY <2>1, <3>1
      <3> QED
        BY <2>1, <2>3, <2>4, <2>6, <3>1, <3>2
    <2>8. codes(e) = c
      BY <2>1, <2>3, <2>4, <2>6, <2>7, SeqEqual
    <2> QED
      BY <2>8 DEF e, c
  <1> HIDE DEF codes
  <1>4. \A d : EncodeAll(d) = FlattenSeq(codes(d))
    BY DEF EncodeAll, codes
  <1>5. \A i \in AnyItem : Encode(i) \in Seq(Byte)
    BY EncodeFacts
  <1> QED
    BY <1>1, <1>2, <1>3, <1>4, <1>5, FlattenFacts

\* The bytes of an item lie between the ends.
LEMMA Ends ==
  ASSUME NEW d \in Seq(AnyItem)
  PROVE  /\ End(d, 0) = 0 /\ End(d, Len(d)) = Len(EncodeAll(d))
         /\ \A k \in 0 .. Len(d) : End(d, k) \in Nat /\ End(d, k) <= Len(EncodeAll(d))
         /\ \A k \in 0 .. Len(d) - 1 :
              /\ End(d, k + 1) = End(d, k) + Len(Encode(d[k + 1]))
              /\ \A j \in 1 .. Len(Encode(d[k + 1])) :
                   EncodeAll(d)[End(d, k) + j] = Encode(d[k + 1])[j]
         /\ \A k, l \in 0 .. Len(d) : k < l => End(d, k) < End(d, l)
  <1> DEFINE E(k) == EncodeAll(SubSeq(d, 1, k))
  <1>0. Len(d) \in Nat
    OBVIOUS
  <1>1. SubSeq(d, 1, 0) = << >> /\ SubSeq(d, 1, Len(d)) = d
    <2>1. SubSeq(d, 1, 0) = << >>
      OBVIOUS
    <2>2. SubSeq(d, 1, Len(d)) = d
      OBVIOUS
    <2> QED
      BY <2>1, <2>2
  <1>2. E(0) = << >> /\ E(Len(d)) = EncodeAll(d)
    BY <1>1, EncodeAllFacts
  <1>3. \A k \in 0 .. Len(d) : E(k) \in Seq(Byte)
    <2>1. \A k \in 0 .. Len(d) : SubSeq(d, 1, k) \in Seq(AnyItem)
      OBVIOUS
    <2> QED
      BY <2>1, EncodeAllFacts
  <1>4. \A k \in 0 .. Len(d) - 1 : E(k + 1) = E(k) \o Encode(d[k + 1])
    BY FirstItems, EncodeAllFacts
  <1>5. \A k \in 0 .. Len(d) - 1 : Encode(d[k + 1]) \in Seq(Byte) /\ Len(Encode(d[k + 1])) \in Nat \ {0}
    BY FirstItems, EncodeFacts
  <1>6. \A k : End(d, k) = Len(E(k))
    BY DEF End
  <1> HIDE DEF E
  <1>7. ASSUME NEW k \in 0 .. Len(d) - 1
        PROVE  /\ Len(E(k + 1)) = Len(E(k)) + Len(Encode(d[k + 1]))
               /\ Len(E(k)) \in Nat /\ Len(E(k + 1)) \in Nat
               /\ \A j \in 1 .. Len(E(k)) : E(k + 1)[j] = E(k)[j]
               /\ \A j \in 1 .. Len(Encode(d[k + 1])) : E(k + 1)[Len(E(k)) + j] = Encode(d[k + 1])[j]
    <2>1. E(k) \in Seq(Byte) /\ E(k + 1) \in Seq(Byte)
      BY <1>0, <1>3
    <2> QED
      BY <1>4, <1>5, <2>1, Concatenated
  \* a shorter document is a prefix
  <1>8. ASSUME NEW k \in 0 .. Len(d)
        PROVE  \A l \in 0 .. Len(d) : k <= l =>
                 /\ Len(E(k)) <= Len(E(l)) /\ (k < l => Len(E(k)) < Len(E(l)))
                 /\ \A j \in 1 .. Len(E(k)) : E(l)[j] = E(k)[j]
    <2> DEFINE T == {n \in Nat : k + n <= Len(d) =>
                       /\ Len(E(k)) <= Len(E(k + n)) /\ (0 < n => Len(E(k)) < Len(E(k + n)))
                       /\ \A j \in 1 .. Len(E(k)) : E(k + n)[j] = E(k)[j]}
    <2>0. k \in Nat /\ \A l \in 0 .. Len(d) : Len(E(l)) \in Nat
      BY <1>3
    <2>1. 0 \in T
      BY <1>0, <2>0
    <2>2. ASSUME NEW n \in Nat, n \in T PROVE n + 1 \in T
      <3> SUFFICES ASSUME k + (n + 1) <= Len(d)
                   PROVE  /\ Len(E(k)) <= Len(E(k + (n + 1)))
                          /\ (0 < n + 1 => Len(E(k)) < Len(E(k + (n + 1))))
                          /\ \A j \in 1 .. Len(E(k)) : E(k + (n + 1))[j] = E(k)[j]
        OBVIOUS
      <3> DEFINE m == k + n
      <3>1. m \in 0 .. Len(d) - 1 /\ k + (n + 1) = m + 1 /\ k + n <= Len(d)
        BY <1>0, <2>0
      <3>2. /\ Len(E(k)) <= Len(E(m))
            /\ \A j \in 1 .. Len(E(k)) : E(m)[j] = E(k)[j]
        BY <2>2, <3>1
      <3> HIDE DEF m
      <3>3. /\ Len(E(m + 1)) = Len(E(m)) + Len(Encode(d[m + 1]))
            /\ Len(E(m)) \in Nat /\ Len(E(m + 1)) \in Nat
            /\ \A j \in 1 .. Len(E(m)) : E(m + 1)[j] = E(m)[j]
            /\ Len(Encode(d[m + 1])) \in Nat \ {0}
        BY <1>5, <1>7, <3>1
      <3>4. Len(E(k)) \in Nat
        BY <2>0
      <3>5. Len(E(k)) < Len(E(m + 1))
        BY <3>2, <3>3, <3>4
      <3>6. ASSUME NEW j \in 1 .. Len(E(k)) PROVE E(m + 1)[j] = E(k)[j]
        <4>1. j \in 1 .. Len(E(m))
          BY <3>2, <3>3, <3>4
        <4> QED
          BY <3>2, <3>3, <4>1
      <3>7. Len(E(k)) <= Len(E(m + 1))
        BY <3>3, <3>4, <3>5
      <3> QED
        BY <3>1, <3>5, <3>6, <3>7
    <2>3. Nat \subseteq T
      <3> HIDE DEF T
      <3> QED
        BY <2>1, <2>2, NatSetInduction
    <2> SUFFICES ASSUME NEW l \in 0 .. Len(d), k <= l
                 PROVE  /\ Len(E(k)) <= Len(E(l)) /\ (k < l => Len(E(k)) < Len(E(l)))
                        /\ \A j \in 1 .. Len(E(k)) : E(l)[j] = E(k)[j]
      OBVIOUS
    <2>4. l - k \in Nat /\ k + (l - k) = l /\ k + (l - k) <= Len(d) /\ (k < l => 0 < l - k)
      BY <1>0, <2>0
    <2>5. l - k \in T
      BY <2>3, <2>4
    <2> QED
      BY <2>4, <2>5
  <1>9. ASSUME NEW k \in 0 .. Len(d) - 1, NEW j \in 1 .. Len(Encode(d[k + 1]))
        PROVE  EncodeAll(d)[Len(E(k)) + j] = Encode(d[k + 1])[j]
    <2>1. k + 1 \in 0 .. Len(d) /\ Len(d) \in 0 .. Len(d) /\ k + 1 <= Len(d)
      BY <1>0
    <2>2. Len(E(k)) + j \in 1 .. Len(E(k + 1))
      BY <1>5, <1>7
    <2>3. E(Len(d))[Len(E(k)) + j] = E(k + 1)[Len(E(k)) + j]
      BY <1>8, <2>1, <2>2
    <2> QED
      BY <1>2, <1>7, <2>3
  <1>10. \A k \in 0 .. Len(d) : Len(E(k)) \in Nat /\ Len(E(k)) <= Len(EncodeAll(d))
    BY <1>0, <1>2, <1>3, <1>8
  <1>11. Len(E(0)) = 0
    BY <1>2
  <1>12. \A k, l \in 0 .. Len(d) : k < l => Len(E(k)) < Len(E(l))
    <2> SUFFICES ASSUME NEW k \in 0 .. Len(d), NEW l \in 0 .. Len(d), k < l
                 PROVE  Len(E(k)) < Len(E(l))
      OBVIOUS
    <2>1. k <= l
      BY <1>0
    <2> QED
      BY <1>8, <2>1
  <1>13. End(d, 0) = 0 /\ End(d, Len(d)) = Len(EncodeAll(d))
    BY <1>2, <1>6, <1>11
  <1>14. \A k \in 0 .. Len(d) : End(d, k) \in Nat /\ End(d, k) <= Len(EncodeAll(d))
    BY <1>6, <1>10
  <1>15. \A k \in 0 .. Len(d) - 1 :
           /\ End(d, k + 1) = End(d, k) + Len(Encode(d[k + 1]))
           /\ \A j \in 1 .. Len(Encode(d[k + 1])) :
                EncodeAll(d)[End(d, k) + j] = Encode(d[k + 1])[j]
    <2> SUFFICES ASSUME NEW k \in 0 .. Len(d) - 1
                 PROVE  /\ End(d, k + 1) = End(d, k) + Len(Encode(d[k + 1]))
                        /\ \A j \in 1 .. Len(Encode(d[k + 1])) :
                             EncodeAll(d)[End(d, k) + j] = Encode(d[k + 1])[j]
      OBVIOUS
    <2>1. End(d, k) = Len(E(k)) /\ End(d, k + 1) = Len(E(k + 1))
      BY <1>6
    <2> QED
      BY <1>7, <1>9, <2>1
  <1>16. \A k, l \in 0 .. Len(d) : k < l => End(d, k) < End(d, l)
    BY <1>6, <1>12
  <1> QED
    BY <1>13, <1>14, <1>15, <1>16

-----------------------------------------------------------------------------
(* What the operators of the meaning compute.                              *)

\* g is the function that After applies, on some items.
Reads(g, items) ==
  g = [n \in 0 .. Len(items) |->
         IF n = 0 THEN [at |-> << >>, nodes |-> {}] ELSE Read(g[n - 1], items[n])]

\* There is such a function.
LEMMA ReadsExists ==
  ASSUME NEW items, Len(items) \in Nat
  PROVE  \E g : Reads(g, items)
  <1> DEFINE Step(g, n) == IF n = 0 THEN [at |-> << >>, nodes |-> {}]
                                    ELSE Read(g[n - 1], items[n])
             Upto(m) == \E g : g = [n \in 0 .. m |-> Step(g, n)]
             T == {m \in Nat : Upto(m)}
  <1>1. 0 \in T
    <2> DEFINE g == [n \in 0 .. 0 |-> [at |-> << >>, nodes |-> {}]]
    <2>1. g = [n \in 0 .. 0 |-> Step(g, n)]
      <3>1. \A n \in 0 .. 0 : n = 0
        OBVIOUS
      <3> QED
        BY <3>1
    <2> QED
      BY <2>1
  <1>2. ASSUME NEW m \in Nat, m \in T PROVE m + 1 \in T
    <2>1. PICK g : g = [n \in 0 .. m |-> Step(g, n)]
      BY <1>2
    <2> DEFINE h == [n \in 0 .. m + 1 |-> IF n \in 0 .. m THEN g[n] ELSE Read(g[m], items[n])]
    <2>2. ASSUME NEW n \in 0 .. m + 1 PROVE h[n] = Step(h, n)
      <3>1. CASE n \in 0 .. m
        <4>1. g[n] = Step(g, n)
          BY <2>1, <3>1
        <4>2. h[n] = g[n]
          BY <3>1
        <4>3. n # 0 => n - 1 \in 0 .. m /\ n - 1 \in 0 .. m + 1
          BY <3>1
        <4>4. n # 0 => h[n - 1] = g[n - 1]
          BY <4>3
        <4> HIDE DEF h
        <4> QED
          BY <4>1, <4>2, <4>4
      <3>2. CASE n \notin 0 .. m
        <4>1. n = m + 1 /\ n # 0 /\ n - 1 = m /\ m \in 0 .. m /\ m \in 0 .. m + 1
          BY <3>2
        <4>2. h[n] = Read(g[m], items[n]) /\ h[m] = g[m]
          BY <3>2, <4>1
        <4> HIDE DEF h
        <4> QED
          BY <4>1, <4>2
      <3> QED
        BY <3>1, <3>2
    <2>3. h = [n \in 0 .. m + 1 |-> Step(h, n)]
      <3> DEFINE f == [n \in 0 .. m + 1 |-> Step(h, n)]
      <3>1. \A n \in 0 .. m + 1 : h[n] = f[n]
        BY <2>2
      <3> QED
        BY <3>1
    <2>4. Upto(m + 1)
      <3> HIDE DEF h
      <3> QED
        BY <2>3
    <2>5. m + 1 \in Nat
      OBVIOUS
    <2> HIDE DEF Upto
    <2> QED
      BY <2>4, <2>5
  <1>3. Nat \subseteq T
    <2> HIDE DEF T
    <2> QED
      BY <1>1, <1>2, NatSetInduction
  <1>4. Upto(Len(items))
    BY <1>3
  <1> QED
    BY <1>4 DEF Reads

\* Two of them agree where the items do.
LEMMA ReadsAgree ==
  ASSUME NEW q, NEW r, NEW f, NEW g, Reads(f, q), Reads(g, r), Len(q) \in Nat, Len(r) \in Nat,
         NEW m \in Nat, m <= Len(q), m <= Len(r), \A i \in 1 .. m : q[i] = r[i]
  PROVE  f[m] = g[m]
  <1> DEFINE T == {n \in Nat : n <= m => f[n] = g[n]}
  <1>1. \A n \in 0 .. m :
          /\ f[n] = IF n = 0 THEN [at |-> << >>, nodes |-> {}] ELSE Read(f[n - 1], q[n])
          /\ g[n] = IF n = 0 THEN [at |-> << >>, nodes |-> {}] ELSE Read(g[n - 1], r[n])
    <2> SUFFICES ASSUME NEW n \in 0 .. m
                 PROVE  /\ f[n] = IF n = 0 THEN [at |-> << >>, nodes |-> {}]
                                           ELSE Read(f[n - 1], q[n])
                        /\ g[n] = IF n = 0 THEN [at |-> << >>, nodes |-> {}]
                                           ELSE Read(g[n - 1], r[n])
      OBVIOUS
    <2>1. n \in 0 .. Len(q) /\ n \in 0 .. Len(r)
      OBVIOUS
    <2> QED
      BY <2>1 DEF Reads
  <1>2. 0 \in T
    BY <1>1
  <1>3. ASSUME NEW n \in Nat, n \in T PROVE n + 1 \in T
    <2> SUFFICES ASSUME n + 1 <= m PROVE f[n + 1] = g[n + 1]
      OBVIOUS
    <2>1. n + 1 \in 0 .. m /\ n + 1 # 0 /\ (n + 1) - 1 = n /\ n + 1 \in 1 .. m /\ n <= m
      OBVIOUS
    <2>2. f[n] = g[n] /\ q[n + 1] = r[n + 1]
      BY <1>3, <2>1
    <2> QED
      BY <1>1, <2>1, <2>2
  <1>4. Nat \subseteq T
    <2> HIDE DEF T
    <2> QED
      BY <1>2, <1>3, NatSetInduction
  <1> QED
    BY <1>4

\* What After means: nothing read yet; then Read, item by item.
LEMMA AfterFacts ==
  ASSUME NEW S
  PROVE  /\ After(<< >>) = [at |-> << >>, nodes |-> {}]
         /\ \A q \in Seq(S), x \in S : After(Append(q, x)) = Read(After(q), x)
  <1> DEFINE The(q) == CHOOSE g : Reads(g, q)
  <1>1. \A q : After(q) = The(q)[Len(q)]
    BY DEF After, Reads
  <1>2. ASSUME NEW q, Len(q) \in Nat PROVE Reads(The(q), q)
    BY <1>2, ReadsExists
  <1> HIDE DEF The
  <1>3. After(<< >>) = [at |-> << >>, nodes |-> {}]
    <2>1. Len(<< >>) = 0 /\ Len(<< >>) \in Nat
      OBVIOUS
    <2>2. Reads(The(<< >>), << >>)
      BY <1>2, <2>1
    <2>3. 0 \in 0 .. Len(<< >>)
      BY <2>1
    <2>4. The(<< >>)[0] = [at |-> << >>, nodes |-> {}]
      BY <2>2, <2>3 DEF Reads
    <2> QED
      BY <1>1, <2>1, <2>4
  <1>4. ASSUME NEW q \in Seq(S), NEW x \in S PROVE After(Append(q, x)) = Read(After(q), x)
    <2> DEFINE r == Append(q, x)
    <2>1. /\ Len(r) = Len(q) + 1 /\ Len(q) \in Nat /\ r[Len(q) + 1] = x
          /\ \A i \in 1 .. Len(q) : r[i] = q[i]
      BY Appended
    <2> HIDE DEF r
    <2>2. Reads(The(r), r) /\ Reads(The(q), q) /\ Len(r) \in Nat /\ Len(q) <= Len(r)
      BY <1>2, <2>1
    <2>3. The(r)[Len(q)] = The(q)[Len(q)]
      BY <2>1, <2>2, ReadsAgree
    <2>4. The(r)[Len(r)] = Read(The(r)[Len(r) - 1], r[Len(r)])
      <3>1. Len(r) \in 0 .. Len(r) /\ Len(r) # 0
        BY <2>1
      <3> QED
        BY <2>2, <3>1 DEF Reads
    <2>5. Len(r) - 1 = Len(q)
      BY <2>1
    <2> QED
      BY <1>1, <2>1, <2>3, <2>4, <2>5 DEF r
  <1> QED
    BY <1>3, <1>4

\* Counting one item more.
LEMMA CountFacts ==
  ASSUME NEW S, NEW t
  PROVE  /\ Count(<< >>, t) = 0
         /\ \A q \in Seq(S) : Count(q, t) \in Nat
         /\ \A q \in Seq(S), x \in S :
              Count(Append(q, x), t) = Count(q, t) + (IF x.t = t THEN 1 ELSE 0)
  <1> DEFINE Where(q) == {i \in 1 .. Len(q) : q[i].t = t}
  <1>1. Where(<< >>) = {}
    OBVIOUS
  <1>2. ASSUME NEW q \in Seq(S)
        PROVE  IsFiniteSet(Where(q)) /\ Cardinality(Where(q)) \in Nat
    <2>1. IsFiniteSet(1 .. Len(q))
      BY FS_Interval
    <2>2. IsFiniteSet(Where(q))
      BY <2>1, FS_Subset
    <2> QED
      BY <2>2, FS_CardinalityType
  <1>3. ASSUME NEW q \in Seq(S), NEW x \in S
        PROVE  Cardinality(Where(Append(q, x)))
                 = Cardinality(Where(q)) + (IF x.t = t THEN 1 ELSE 0)
    <2> DEFINE r == Append(q, x)
    <2>1. /\ Len(r) = Len(q) + 1 /\ Len(q) \in Nat /\ r[Len(q) + 1] = x
          /\ \A i \in 1 .. Len(q) : r[i] = q[i]
      BY Appended
    <2> HIDE DEF r
    <2>2. \A i : i \in 1 .. Len(r) <=> i \in 1 .. Len(q) \/ i = Len(q) + 1
      BY <2>1
    <2>3. Len(q) + 1 \notin Where(q)
      BY <2>1
    <2>4. CASE x.t = t
      <3>1. Where(r) = Where(q) \cup {Len(q) + 1}
        BY <2>1, <2>2, <2>4
      <3> HIDE DEF Where
      <3> QED
        BY <1>2, <2>3, <2>4, <3>1, FS_AddElement DEF r
    <2>5. CASE x.t # t
      <3>1. Where(r) = Where(q)
        BY <2>1, <2>2, <2>5
      <3> HIDE DEF Where
      <3> QED
        BY <1>2, <2>5, <3>1 DEF r
    <2> QED
      BY <2>4, <2>5
  <1>4. Cardinality({}) = 0
    BY FS_EmptySet
  <1> QED
    BY <1>1, <1>2, <1>3, <1>4 DEF Count

-----------------------------------------------------------------------------
(* What a parser has built, and how a step adds to it.                     *)

\* What the parser has built: the nodes of its present object, under the keys
\* that the calls below wait with; of each such call its other entries; and the
\* objects that those calls have opened.
Keys(s)      == [i \in 1 .. Len(s) |-> s[i].key]
NodeAt(p, v) == [path |-> p, val |-> v]
Under(p, o)  == {NodeAt(p \o n.path, n.val) : n \in o}
Level(s, i)  ==
  Under(SubSeq(Keys(s), 1, i - 1), {n \in s[i].obj : n.path[1] # s[i].key})
    \cup {NodeAt(SubSeq(Keys(s), 1, i), Primitive("object", << >>))}
Whole(s, o)  == (UNION {Level(s, i) : i \in 1 .. Len(s)}) \cup Under(Keys(s), o)

\* Nodes and calls whose keys are in K and whose values are in V.
Nodes(K, V)   == [path : Seq(K), val : V]
Callers(K, V) == [obj : SUBSET Nodes(K, V), key : K]

\* No node is the root.
Rooted(o) == \A n \in o : n.path # << >>

\* The calls of a stack.
LEMMA CallerFacts ==
  ASSUME NEW K, NEW V
  PROVE  /\ \A c \in Callers(K, V) : c.obj \in SUBSET Nodes(K, V) /\ c.key \in K
         /\ \A s \in Seq(Callers(K, V)) : \A i \in 1 .. Len(s) :
              s[i] \in Callers(K, V) /\ s[i].obj \in SUBSET Nodes(K, V) /\ s[i].key \in K
  <1>1. \A c \in Callers(K, V) : c.obj \in SUBSET Nodes(K, V) /\ c.key \in K
    BY DEF Callers
  <1>2. \A s \in Seq(Callers(K, V)) : \A i \in 1 .. Len(s) : s[i] \in Callers(K, V)
    OBVIOUS
  <1> QED
    BY <1>1, <1>2

\* A node's fields.
LEMMA NodeFields == \A p, v : NodeAt(p, v).path = p /\ NodeAt(p, v).val = v
  BY DEF NodeAt

\* A node under p.
LEMMA UnderIn ==
  ASSUME NEW p, NEW o, NEW x
  PROVE  x \in Under(p, o) <=> \E n \in o : x = NodeAt(p \o n.path, n.val)
  BY DEF Under

\* Two sets of nodes.
LEMMA UnderUnion ==
  ASSUME NEW p, NEW x, NEW y
  PROVE  Under(p, x \cup y) = Under(p, x) \cup Under(p, y)
  BY DEF Under

\* A single node.
LEMMA UnderOne ==
  ASSUME NEW p, NEW q, NEW v
  PROVE  Under(p, {NodeAt(q, v)}) = {NodeAt(p \o q, v)}
  <1> DEFINE n == NodeAt(q, v)
  <1>1. n.path = q /\ n.val = v
    BY NodeFields
  <1> HIDE DEF n
  <1>2. Under(p, {n}) = {NodeAt(p \o n.path, n.val)}
    BY DEF Under
  <1> QED
    BY <1>1, <1>2 DEF n

\* Under p and then under q.
LEMMA UnderTwice ==
  ASSUME NEW K, NEW p \in Seq(K), NEW q \in Seq(K),
         NEW o, \A n \in o : n.path \in Seq(K)
  PROVE  Under(p \o q, o) = Under(p, Under(q, o))
  <1>1. ASSUME NEW n \in o PROVE (p \o q) \o n.path = p \o (q \o n.path)
    <2> DEFINE r == n.path
    <2>1. r \in Seq(K)
      OBVIOUS
    <2> HIDE DEF r
    <2>2. (p \o q) \o r = p \o (q \o r)
      BY <2>1, Associative
    <2> QED
      BY <2>2 DEF r
  <1>2. ASSUME NEW x \in Under(p \o q, o) PROVE x \in Under(p, Under(q, o))
    <2>1. PICK n \in o : x = NodeAt((p \o q) \o n.path, n.val)
      BY UnderIn
    <2> DEFINE m == NodeAt(q \o n.path, n.val)
    <2>2. m \in Under(q, o) /\ m.path = q \o n.path /\ m.val = n.val
      BY UnderIn, NodeFields
    <2> HIDE DEF m
    <2>3. x = NodeAt(p \o m.path, m.val)
      BY <1>1, <2>1, <2>2
    <2> QED
      BY <2>2, <2>3, UnderIn
  <1>3. ASSUME NEW x \in Under(p, Under(q, o)) PROVE x \in Under(p \o q, o)
    <2>1. PICK m \in Under(q, o) : x = NodeAt(p \o m.path, m.val)
      BY UnderIn
    <2>2. PICK n \in o : m = NodeAt(q \o n.path, n.val)
      BY UnderIn
    <2>3. m.path = q \o n.path /\ m.val = n.val
      BY <2>2, NodeFields
    <2>4. x = NodeAt((p \o q) \o n.path, n.val)
      BY <1>1, <2>1, <2>3
    <2> QED
      BY <2>4, UnderIn
  <1> QED
    BY <1>2, <1>3

\* Assign and Put, of nodes.
LEMMA AssignNodes ==
  ASSUME NEW o, NEW k, NEW v, NEW below
  PROVE  Assign(o, k, v, below)
           = {n \in o : n.path[1] # k} \cup {NodeAt(<<k>>, v)} \cup Under(<<k>>, below)
  BY DEF Assign, Under, NodeAt

\* The keys of the calls below.
LEMMA KeysFacts ==
  ASSUME NEW K, NEW V, NEW s \in Seq(Callers(K, V)), NEW c \in Callers(K, V)
  PROVE  /\ Keys(s) \in Seq(K) /\ Len(Keys(s)) = Len(s)
         /\ Keys(Append(s, c)) = Append(Keys(s), c.key)
  <1>1. \A i \in 1 .. Len(s) : s[i].key \in K
    BY CallerFacts
  <1>2. Keys(s) \in Seq(K) /\ Len(Keys(s)) = Len(s) /\ Len(s) \in Nat
    BY <1>1 DEF Keys
  <1>3. c.key \in K
    BY DEF Callers
  <1> DEFINE q == Append(s, c)
             r == Append(Keys(s), c.key)
  <1>4. /\ Len(q) = Len(s) + 1 /\ q[Len(s) + 1] = c
        /\ \A i \in 1 .. Len(s) : q[i] = s[i]
    BY Appended
  <1>5. /\ r \in Seq(K) /\ Len(r) = Len(s) + 1 /\ r[Len(s) + 1] = c.key
        /\ \A i \in 1 .. Len(s) : r[i] = s[i].key
    <2>1. \A i \in 1 .. Len(s) : Keys(s)[i] = s[i].key
      BY DEF Keys
    <2>2. /\ r \in Seq(K) /\ Len(r) = Len(Keys(s)) + 1 /\ r[Len(Keys(s)) + 1] = c.key
          /\ \A i \in 1 .. Len(Keys(s)) : r[i] = Keys(s)[i]
      BY <1>2, <1>3, Appended
    <2> HIDE DEF r
    <2> QED
      BY <1>2, <2>1, <2>2
  <1>6. q \in Seq(Callers(K, V))
    OBVIOUS
  <1> HIDE DEF q, r
  <1>7. Keys(q) \in Seq(K) /\ Len(Keys(q)) = Len(q) /\ \A i \in 1 .. Len(q) : Keys(q)[i] = q[i].key
    <2>1. \A i \in 1 .. Len(q) : q[i].key \in K
      BY <1>6, CallerFacts
    <2>2. Len(q) \in Nat
      BY <1>6
    <2> QED
      BY <2>1, <2>2 DEF Keys
  <1>8. ASSUME NEW i \in 1 .. Len(q) PROVE Keys(q)[i] = r[i]
    <2>1. i \in 1 .. Len(s) \/ i = Len(s) + 1
      BY <1>2, <1>4
    <2> QED
      BY <1>4, <1>5, <1>7, <2>1
  <1>9. Keys(q) = r
    BY <1>2, <1>4, <1>5, <1>7, <1>8, SeqEqual
  <1> QED
    BY <1>2, <1>9 DEF q, r

\* The levels below a call that returns.
LEMMA LevelBelow ==
  ASSUME NEW K, NEW V, NEW s \in Seq(Callers(K, V)), NEW c \in Callers(K, V), NEW i \in 1 .. Len(s)
  PROVE  Level(Append(s, c), i) = Level(s, i)
  <1> DEFINE q == Append(s, c)
             a == Keys(s)
             b == Keys(q)
  <1>1. q[i] = s[i] /\ Len(s) \in Nat
    BY Appended
  <1>2. a \in Seq(K) /\ Len(a) = Len(s) /\ b = Append(a, c.key) /\ c.key \in K
    <2>1. c.key \in K
      BY DEF Callers
    <2> QED
      BY <2>1, KeysFacts
  <1>3. /\ b \in Seq(K) /\ Len(b) = Len(s) + 1 /\ \A j \in 1 .. Len(s) : b[j] = a[j]
    <2> HIDE DEF a, b
    <2>0. a \in Seq(K) /\ c.key \in K
      BY <1>2
    <2>1. /\ Append(a, c.key) \in Seq(K) /\ Len(Append(a, c.key)) = Len(a) + 1
          /\ \A j \in 1 .. Len(a) : Append(a, c.key)[j] = a[j]
      BY <2>0, Appended
    <2> QED
      BY <1>2, <2>1
  <1> HIDE DEF a, b, q
  <1>4. ASSUME NEW n \in Nat, n <= Len(s) PROVE SubSeq(b, 1, n) = SubSeq(a, 1, n)
    <2>0. n <= Len(a) /\ n <= Len(b) /\ 1 <= n + 1 /\ 1 \in Nat \ {0}
      BY <1>1, <1>2, <1>3, <1>4
    <2>1. /\ SubSeq(a, 1, n) \in Seq(K)
          /\ Len(SubSeq(a, 1, n)) = n - 1 + 1
          /\ \A j \in 1 .. n - 1 + 1 : SubSeq(a, 1, n)[j] = a[1 + j - 1]
      BY <1>2, <2>0, Cut
    <2>2. /\ SubSeq(b, 1, n) \in Seq(K)
          /\ Len(SubSeq(b, 1, n)) = n - 1 + 1
          /\ \A j \in 1 .. n - 1 + 1 : SubSeq(b, 1, n)[j] = b[1 + j - 1]
      BY <1>3, <2>0, Cut
    <2>3. ASSUME NEW j \in 1 .. n PROVE SubSeq(b, 1, n)[j] = SubSeq(a, 1, n)[j]
      <3>1. j \in 1 .. n - 1 + 1 /\ 1 + j - 1 = j /\ j \in 1 .. Len(s)
        BY <1>1, <1>4
      <3> QED
        BY <1>3, <2>1, <2>2, <3>1
    <2>4. n - 1 + 1 = n
      OBVIOUS
    <2> QED
      BY <2>1, <2>2, <2>3, <2>4, SeqEqual
  <1>5. i \in Nat /\ i - 1 \in Nat /\ i <= Len(s) /\ i - 1 <= Len(s)
    BY <1>1
  <1>6. SubSeq(b, 1, i) = SubSeq(a, 1, i) /\ SubSeq(b, 1, i - 1) = SubSeq(a, 1, i - 1)
    BY <1>4, <1>5
  <1> QED
    BY <1>1, <1>6 DEF Level, a, b, q

\* parse_object returns: what has been built stays the same.
LEMMA WholeReturn ==
  ASSUME NEW K, NEW V, NEW s \in Seq(Callers(K, V)), NEW c \in Callers(K, V), NEW o \in SUBSET Nodes(K, V)
  PROVE  Whole(s, Assign(c.obj, c.key, Primitive("object", << >>), o)) = Whole(Append(s, c), o)
  <1> DEFINE q == Append(s, c)
             a == Keys(s)
             b == Keys(q)
             v == Primitive("object", << >>)
             rest == {n \in c.obj : n.path[1] # c.key}
  <1>1. /\ Len(q) = Len(s) + 1 /\ Len(s) \in Nat /\ q[Len(s) + 1] = c
        /\ \A j \in 1 .. Len(s) + 1 : j \in 1 .. Len(s) \/ j = Len(s) + 1
    BY Appended
  <1>2. /\ a \in Seq(K) /\ Len(a) = Len(s) /\ b = Append(a, c.key) /\ c.key \in K
    <2>1. c.key \in K
      BY DEF Callers
    <2> QED
      BY <2>1, KeysFacts
  <1>3. UNION {Level(q, i) : i \in 1 .. Len(q)}
          = (UNION {Level(s, i) : i \in 1 .. Len(s)}) \cup Level(q, Len(s) + 1)
    <2>1. \A i \in 1 .. Len(s) : Level(q, i) = Level(s, i)
      BY LevelBelow
    <2>2. \A i : i \in 1 .. Len(q) <=> i \in 1 .. Len(s) \/ i = Len(s) + 1
      BY <1>1
    <2> HIDE DEF q
    <2> QED
      BY <2>1, <2>2
  <1>4. SubSeq(b, 1, Len(s)) = a /\ SubSeq(b, 1, Len(s) + 1) = b /\ b = a \o <<c.key>> /\ b \in Seq(K)
    <2> HIDE DEF a, q, b
    <2>1. /\ b \in Seq(K) /\ Len(b) = Len(s) + 1 /\ \A j \in 1 .. Len(s) : b[j] = a[j]
          /\ b[Len(s) + 1] = c.key
      <3>1. /\ Append(a, c.key) \in Seq(K) /\ Len(Append(a, c.key)) = Len(a) + 1
            /\ \A j \in 1 .. Len(a) : Append(a, c.key)[j] = a[j]
            /\ Append(a, c.key)[Len(a) + 1] = c.key
        BY <1>2, Appended
      <3> QED
        BY <1>2, <3>1
    <2>2. SubSeq(b, 1, Len(s) + 1) = b
      BY <1>1, <2>1
    <2>3. SubSeq(b, 1, Len(s)) = a
      <3>1. Len(s) <= Len(b) /\ 1 <= Len(s) + 1 /\ 1 \in Nat \ {0}
        BY <1>1, <2>1
      <3>2. /\ SubSeq(b, 1, Len(s)) \in Seq(K)
            /\ Len(SubSeq(b, 1, Len(s))) = Len(s) - 1 + 1
            /\ \A j \in 1 .. Len(s) - 1 + 1 : SubSeq(b, 1, Len(s))[j] = b[1 + j - 1]
        BY <1>1, <2>1, <3>1, Cut
      <3>3. Len(s) - 1 + 1 = Len(s) /\ \A j \in 1 .. Len(s) : 1 + j - 1 = j
        BY <1>1
      <3> QED
        BY <1>1, <1>2, <2>1, <3>2, <3>3, SeqEqual
    <2>4. b = a \o <<c.key>>
      BY <1>2
    <2> QED
      BY <2>1, <2>2, <2>3, <2>4
  <1>5. Level(q, Len(s) + 1) = Under(a, rest) \cup {NodeAt(b, v)}
    <2>1. Len(s) + 1 - 1 = Len(s)
      BY <1>1
    <2>2. SubSeq(Keys(q), 1, Len(s) + 1 - 1) = a /\ SubSeq(Keys(q), 1, Len(s) + 1) = b
      BY <1>4, <2>1
    <2>3. q[Len(s) + 1] = c
      BY <1>1
    <2>4. Level(q, Len(s) + 1)
            = Under(SubSeq(Keys(q), 1, Len(s) + 1 - 1),
                    {n \in q[Len(s) + 1].obj : n.path[1] # q[Len(s) + 1].key})
                \cup {NodeAt(SubSeq(Keys(q), 1, Len(s) + 1), v)}
      BY DEF Level
    <2> HIDE DEF q, a, b, v
    <2> QED
      BY <2>2, <2>3, <2>4
  <1>6. Under(b, o) = Under(a, Under(<<c.key>>, o))
    <2> HIDE DEF a, b
    <2>1. \A n \in o : n.path \in Seq(K)
      BY DEF Nodes
    <2>2. <<c.key>> \in Seq(K) /\ a \in Seq(K)
      BY <1>2
    <2>3. b = a \o <<c.key>>
      BY <1>4
    <2>4. Under(a \o <<c.key>>, o) = Under(a, Under(<<c.key>>, o))
      <3> DEFINE r == <<c.key>>
      <3>1. r \in Seq(K) /\ a \in Seq(K)
        BY <2>2
      <3> HIDE DEF r
      <3>2. Under(a \o r, o) = Under(a, Under(r, o))
        BY ONLY <2>1, <3>1, UnderTwice, SMTT(30)
      <3> QED
        BY <3>2 DEF r
    <2> QED
      BY <2>3, <2>4
  <1>7. Under(a, {NodeAt(<<c.key>>, v)}) = {NodeAt(b, v)}
    <2>1. b = a \o <<c.key>>
      BY <1>4
    <2> HIDE DEF a, b, v
    <2> QED
      BY <2>1, UnderOne
  <1>8. \A x, y, z : Under(a, x \cup y \cup z) = Under(a, x) \cup Under(a, y) \cup Under(a, z)
    <2> SUFFICES ASSUME NEW x, NEW y, NEW z
                 PROVE  Under(a, x \cup y \cup z) = Under(a, x) \cup Under(a, y) \cup Under(a, z)
      OBVIOUS
    <2> HIDE DEF a
    <2>1. Under(a, (x \cup y) \cup z) = Under(a, x \cup y) \cup Under(a, z)
      BY UnderUnion
    <2>2. Under(a, x \cup y) = Under(a, x) \cup Under(a, y)
      BY UnderUnion
    <2> QED
      BY <2>1, <2>2
  <1>9. Assign(c.obj, c.key, v, o)
          = rest \cup {NodeAt(<<c.key>>, v)} \cup Under(<<c.key>>, o)
    BY AssignNodes
  <1> HIDE DEF a, b, q, v, rest
  <1>10. Under(a, Assign(c.obj, c.key, v, o))
           = Under(a, rest) \cup {NodeAt(b, v)} \cup Under(b, o)
    <2>1. Under(a, rest \cup {NodeAt(<<c.key>>, v)} \cup Under(<<c.key>>, o))
            = Under(a, rest) \cup Under(a, {NodeAt(<<c.key>>, v)})
                \cup Under(a, Under(<<c.key>>, o))
      BY ONLY <1>8
    <2> QED
      BY ONLY <1>6, <1>7, <1>9, <2>1
  <1>11. Whole(s, Assign(c.obj, c.key, v, o))
           = (UNION {Level(s, i) : i \in 1 .. Len(s)}) \cup Under(a, Assign(c.obj, c.key, v, o))
    BY DEF Whole, a
  <1>12. Whole(q, o) = (UNION {Level(q, i) : i \in 1 .. Len(q)}) \cup Under(b, o)
    BY DEF Whole, b
  <1>13. Whole(s, Assign(c.obj, c.key, v, o)) = Whole(q, o)
    BY <1>3, <1>5, <1>10, <1>11, <1>12
  <1> QED
    BY <1>13 DEF q, v

\* The value of an entry is put where the keys lead.
LEMMA WholePut ==
  ASSUME NEW K, NEW V, NEW s \in Seq(Callers(K, V)), NEW o \in SUBSET Nodes(K, V), NEW k \in K, NEW v,
         Rooted(o), \A i \in 1 .. Len(s) : Rooted(s[i].obj)
  PROVE  Whole(s, Assign(o, k, v, {})) = Put(Whole(s, o), Append(Keys(s), k), v)
  <1> DEFINE a == Keys(s)
             p == Append(a, k)
             below == UNION {Level(s, i) : i \in 1 .. Len(s)}
             kept == {n \in o : n.path[1] # k}
  <1>1. a \in Seq(K) /\ Len(a) = Len(s) /\ Len(s) \in Nat /\ \A i \in 1 .. Len(s) : a[i] = s[i].key
    <2>1. \A i \in 1 .. Len(s) : s[i].key \in K
      BY CallerFacts
    <2> QED
      BY <2>1 DEF Keys
  <1>2. /\ p \in Seq(K) /\ Len(p) = Len(s) + 1 /\ p[Len(s) + 1] = k
        /\ (\A i \in 1 .. Len(s) : p[i] = a[i]) /\ p = a \o <<k>>
    <2> HIDE DEF a
    <2>1. /\ p \in Seq(K) /\ Len(p) = Len(a) + 1 /\ p[Len(a) + 1] = k
          /\ (\A i \in 1 .. Len(a) : p[i] = a[i])
      BY <1>1, Appended
    <2>2. p = a \o <<k>>
      BY <1>1
    <2> HIDE DEF p
    <2> QED
      BY <1>1, <2>1, <2>2
  <1>3. \A q \in Seq(K) :
          IsPrefix(p, q) <=> Len(p) <= Len(q) /\ \A i \in 1 .. Len(p) : p[i] = q[i]
    <2> SUFFICES ASSUME NEW q \in Seq(K)
                 PROVE  IsPrefix(p, q) <=> Len(p) <= Len(q) /\ \A i \in 1 .. Len(p) : p[i] = q[i]
      OBVIOUS
    <2> HIDE DEF p
    <2>1. p \in Seq(K) /\ Len(p) \in Nat /\ Len(q) \in Nat
      BY <1>2
    <2> QED
      BY <2>1, PrefixElements
  \* no node of the other calls is at or under p
  <1>4. ASSUME NEW n \in below PROVE ~IsPrefix(p, n.path)
    <2>1. PICK i \in 1 .. Len(s) : n \in Level(s, i)
      BY <1>4
    <2>2. s[i].obj \in SUBSET Nodes(K, V) /\ Rooted(s[i].obj) /\ i \in Nat /\ i <= Len(s) /\ i >= 1
      BY <1>1, CallerFacts
    <2>3. CASE n.path = SubSeq(a, 1, i)
      <3>1. SubSeq(a, 1, i) \in Seq(K) /\ Len(SubSeq(a, 1, i)) = i
        <4> HIDE DEF a
        <4> QED
          BY <1>1, <2>2
      <3>2. ~(Len(p) <= i)
        BY <1>1, <1>2, <2>2
      <3> HIDE DEF a, p
      <3> QED
        BY <1>3, <2>3, <3>1, <3>2
    <2>4. CASE n.path # SubSeq(a, 1, i)
      <3>1. PICK m \in s[i].obj : m.path[1] # s[i].key /\ n.path = SubSeq(a, 1, i - 1) \o m.path
        <4> DEFINE f == SubSeq(a, 1, i - 1)
                   l == SubSeq(a, 1, i)
                   rest == {m \in s[i].obj : m.path[1] # s[i].key}
        <4>1. n \in Under(f, rest) \/ n = NodeAt(l, Primitive("object", << >>))
          BY <2>1 DEF Level
        <4> HIDE DEF f, l
        <4>2. n # NodeAt(l, Primitive("object", << >>))
          BY <2>4, NodeFields DEF l
        <4>3. PICK m \in rest : n = NodeAt(f \o m.path, m.val)
          BY <4>1, <4>2, UnderIn
        <4> QED
          <5>1. n.path = f \o m.path
            BY <4>3, NodeFields
          <5> QED
            BY <4>3, <5>1 DEF f
      <3>2. m.path \in Seq(K) /\ m.path # << >>
        BY <2>2, <3>1 DEF Nodes, Rooted
      <3>3. Len(m.path) \in Nat \ {0} /\ 1 \in 1 .. Len(m.path)
        BY <3>2
      <3>4. SubSeq(a, 1, i - 1) \in Seq(K) /\ Len(SubSeq(a, 1, i - 1)) = i - 1
        <4> HIDE DEF a
        <4> QED
          BY <1>1, <2>2
      <3> DEFINE f == SubSeq(a, 1, i - 1)
      <3> HIDE DEF f
      <3>5. f \in Seq(K) /\ Len(f) = i - 1 /\ n.path = f \o m.path
        BY <3>1, <3>4 DEF f
      <3>6. n.path \in Seq(K) /\ n.path[Len(f) + 1] = m.path[1]
        <4>1. /\ f \o m.path \in Seq(K)
              /\ \A j \in 1 .. Len(m.path) : (f \o m.path)[Len(f) + j] = m.path[j]
          <5>1. f \in Seq(K) /\ m.path \in Seq(K)
            BY <3>2, <3>5
          <5> DEFINE r == m.path
          <5> HIDE DEF r
          <5>2. f \in Seq(K) /\ r \in Seq(K)
            BY <5>1 DEF r
          <5>3. /\ f \o r \in Seq(K)
                /\ \A j \in 1 .. Len(r) : (f \o r)[Len(f) + j] = r[j]
            BY ONLY <5>2, Concatenated
          <5> QED
            BY <5>3 DEF r
        <4>2. (f \o m.path)[Len(f) + 1] = m.path[1]
          BY ONLY <3>3, <4>1
        <4>3. n.path = f \o m.path
          BY <3>5
        <4> QED
          BY ONLY <4>1, <4>2, <4>3
      <3>7. Len(f) + 1 = i /\ i \in 1 .. Len(p) /\ p[i] = s[i].key
        <4>1. Len(f) + 1 = i /\ i \in 1 .. Len(p)
          BY <1>1, <1>2, <2>2, <3>5
        <4> QED
          BY <1>1, <1>2, <4>1
      <3> HIDE DEF a, p
      <3> QED
        BY <1>3, <3>1, <3>6, <3>7
    <2> QED
      BY <2>3, <2>4
  \* of this call's nodes, those with the key k are
  <1>5. ASSUME NEW n \in o PROVE IsPrefix(p, a \o n.path) <=> n.path[1] = k
    <2>1. n.path \in Seq(K) /\ n.path # << >>
      BY DEF Nodes, Rooted
    <2>2. Len(n.path) \in Nat \ {0} /\ 1 \in 1 .. Len(n.path)
      BY <2>1
    <2> DEFINE q == a \o n.path
    <2>3. /\ q \in Seq(K) /\ Len(q) = Len(s) + Len(n.path)
          /\ (\A i \in 1 .. Len(s) : q[i] = a[i]) /\ q[Len(s) + 1] = n.path[1]
      <3> HIDE DEF a
      <3>1. /\ q \in Seq(K) /\ Len(q) = Len(a) + Len(n.path)
            /\ (\A i \in 1 .. Len(a) : q[i] = a[i])
            /\ \A i \in 1 .. Len(n.path) : q[Len(a) + i] = n.path[i]
        <4>1. a \in Seq(K)
          BY <1>1
        <4> QED
          BY <2>1, <4>1, Concatenated
      <3> HIDE DEF q
      <3> QED
        BY <1>1, <2>2, <3>1
    <2> HIDE DEF q, p, a
    <2>4. Len(p) <= Len(q)
      BY <1>1, <1>2, <2>2, <2>3
    <2>5. (\A i \in 1 .. Len(p) : p[i] = q[i]) <=> p[Len(s) + 1] = q[Len(s) + 1]
      <3>1. Len(s) + 1 \in 1 .. Len(p) /\ \A i \in 1 .. Len(p) : i \in 1 .. Len(s) \/ i = Len(s) + 1
        BY <1>1, <1>2
      <3> QED
        BY <1>2, <2>3, <3>1
    <2>6. IsPrefix(p, q) <=> n.path[1] = k
      BY <1>2, <1>3, <2>3, <2>4, <2>5
    <2> QED
      BY <2>6 DEF q
  <1>6. Assign(o, k, v, {}) = kept \cup {NodeAt(<<k>>, v)}
    <2>1. Under(<<k>>, {}) = {}
      BY DEF Under
    <2> QED
      BY <2>1, AssignNodes
  <1>7. Under(a, Assign(o, k, v, {})) = Under(a, kept) \cup {NodeAt(p, v)}
    <2>1. Under(a, {NodeAt(<<k>>, v)}) = {NodeAt(p, v)}
      <3> HIDE DEF a, p
      <3> QED
        <4>1. p = a \o <<k>>
          BY <1>2
        <4> QED
          BY <4>1, UnderOne
    <2> HIDE DEF a, p, kept
    <2> QED
      BY <1>6, <2>1, UnderUnion
  <1>8. {n \in Under(a, o) : ~IsPrefix(p, n.path)} = Under(a, kept)
    <2> HIDE DEF a, p
    <2>1. \A n : NodeAt(a \o n.path, n.val).path = a \o n.path
      BY NodeFields
    <2>2. ASSUME NEW x PROVE x \in Under(a, o) /\ ~IsPrefix(p, x.path) <=> x \in Under(a, kept)
      <3>1. ASSUME x \in Under(a, o) /\ ~IsPrefix(p, x.path) PROVE x \in Under(a, kept)
        <4>1. PICK n \in o : x = NodeAt(a \o n.path, n.val)
          BY <3>1, UnderIn
        <4>2. n \in kept
          BY <1>5, <2>1, <3>1, <4>1
        <4> QED
          BY <4>1, <4>2, UnderIn
      <3>2. ASSUME x \in Under(a, kept) PROVE x \in Under(a, o) /\ ~IsPrefix(p, x.path)
        <4>1. PICK n \in kept : x = NodeAt(a \o n.path, n.val)
          BY <3>2, UnderIn
        <4>2. n \in o /\ ~IsPrefix(p, x.path)
          BY <1>5, <2>1, <4>1
        <4> QED
          BY <4>1, <4>2, UnderIn
      <3> QED
        BY <3>1, <3>2
    <2> QED
      BY <2>2
  <1>9. {n \in below : ~IsPrefix(p, n.path)} = below
    <2> HIDE DEF below, p
    <2> QED
      BY <1>4
  <1>10. Whole(s, o) = below \cup Under(a, o) /\ Whole(s, Assign(o, k, v, {})) = below \cup Under(a, Assign(o, k, v, {}))
    BY DEF Whole
  <1> HIDE DEF a, p, below, kept
  <1>11. Whole(s, Assign(o, k, v, {})) = Put(Whole(s, o), p, v)
    BY <1>7, <1>8, <1>9, <1>10, NodeFields DEF Put, NodeAt
  <1> QED
    BY <1>11 DEF a, p

\* A call for a nested object: its node is put where the keys lead.
LEMMA WholeOpen ==
  ASSUME NEW K, NEW V, NEW s \in Seq(Callers(K, V)), NEW c \in Callers(K, V),
         Rooted(c.obj), \A i \in 1 .. Len(s) : Rooted(s[i].obj)
  PROVE  Whole(Append(s, c), {}) = Put(Whole(s, c.obj), Append(Keys(s), c.key), Primitive("object", << >>))
  <1>1. c.obj \in SUBSET Nodes(K, V) /\ c.key \in K /\ {} \in SUBSET Nodes(K, V)
    BY DEF Callers
  <1> QED
    BY <1>1, WholeReturn, WholePut

\* A value's node is below the root.
LEMMA AssignRooted ==
  ASSUME NEW K, NEW V, NEW o \in SUBSET Nodes(K, V), Rooted(o), NEW k \in K, NEW v, NEW below \in SUBSET Nodes(K, V)
  PROVE  Rooted(Assign(o, k, v, below))
  <1> SUFFICES ASSUME NEW n \in Assign(o, k, v, below) PROVE n.path # << >>
    BY DEF Rooted
  <1>1. n \in o \/ n = NodeAt(<<k>>, v) \/ n \in Under(<<k>>, below)
    BY AssignNodes
  <1>2. CASE n \in o
    BY <1>2 DEF Rooted
  <1>3. CASE n = NodeAt(<<k>>, v)
    <2>1. n.path = <<k>> /\ <<k>> # << >>
      BY <1>3, NodeFields
    <2> QED
      BY <2>1
  <1>4. CASE n \in Under(<<k>>, below)
    <2>1. PICK m \in below : n = NodeAt(<<k>> \o m.path, m.val)
      BY <1>4, UnderIn
    <2>2. n.path = <<k>> \o m.path
      BY <2>1, NodeFields
    <2>3. m.path \in Seq(K) /\ <<k>> \in Seq(K) /\ Len(<<k>>) = 1
      BY DEF Nodes
    <2>4. Len(<<k>> \o m.path) = 1 + Len(m.path) /\ Len(m.path) \in Nat
      BY <2>3, Concatenated
    <2>5. Len(n.path) # 0
      BY <2>2, <2>4
    <2> QED
      BY <2>5
  <1> QED
    BY <1>1, <1>2, <1>3, <1>4

\* The root call has built the whole.
LEMMA WholeRoot ==
  ASSUME NEW K, NEW V, NEW o \in SUBSET Nodes(K, V)
  PROVE  Whole(<< >>, o) = o
  <1>1. Keys(<< >>) = << >> /\ {Level(<< >>, i) : i \in 1 .. Len(<< >>)} = {}
    BY DEF Keys
  <1>2. \A n \in o : NodeAt(<< >> \o n.path, n.val) = n
    <2> SUFFICES ASSUME NEW n \in o PROVE NodeAt(<< >> \o n.path, n.val) = n
      OBVIOUS
    <2>1. n = [path |-> n.path, val |-> n.val] /\ n.path \in Seq(K)
      BY DEF Nodes
    <2>2. << >> \o n.path = n.path
      BY <2>1
    <2> QED
      BY <2>1, <2>2 DEF NodeAt
  <1>3. Under(<< >>, o) = o
    <2>1. ASSUME NEW x PROVE x \in Under(<< >>, o) <=> x \in o
      <3>1. x \in Under(<< >>, o) <=> \E n \in o : x = NodeAt(<< >> \o n.path, n.val)
        BY UnderIn
      <3> QED
        BY <1>2, <3>1
    <2> QED
      BY <2>1
  <1> QED
    BY <1>1, <1>3 DEF Whole

\* The trees and calls of parse_binary.
LEMMA BinaryTypes ==
  Object = SUBSET Nodes(Seq(Byte), Value) /\ Caller = Callers(Seq(Byte), Value)
  BY DEF Object, Node, Nodes, Caller, Callers

-----------------------------------------------------------------------------
(* The invariant: the parser has read the first k items.                   *)

\* A buffer that holds a document of any items, cut off anywhere.
Cutoff ==
  /\ doc \in Seq(AnyItem)
  /\ \E n \in 0 .. Len(EncodeAll(doc)) : data = SubSeq(EncodeAll(doc), 1, n)

\* The first k items, and how many objects they open and close.
First(k)  == SubSeq(doc, 1, k)
Opened(k) == Count(First(k), 0)
Closed(k) == Count(First(k), 8)

\* The first k items are in the buffer, are known and do not close the root.
Progress(k) ==
  /\ k \in 0 .. Len(doc)
  /\ End(doc, k) <= size
  /\ Known(First(k))
  /\ \A i \in 0 .. k : Closed(i) <= Opened(i)

\* They have been read; and the calls below are those for the objects that
\* they leave open.
Built(k)  == Whole(stack, obj) = After(First(k)).nodes
InStep(k) == Keys(stack) = After(First(k)).at /\ Len(stack) = Opened(k) - Closed(k)

\* The item after them is being read.
Inside(k) ==
  k < Len(doc) /\ Built(k) /\ InStep(k) /\ type = doc[k + 1].t /\ type # 8

StartOf(s, t) == Len(s) <= Len(t) /\ \A j \in 1 .. Len(s) : s[j] = t[j]

AtLoop(k) == Built(k) /\ pos = End(doc, k) /\ (InStep(k) \/ pos = size)
AtReturn(k) ==
  /\ Built(k)
  /\ \/ pos = End(doc, k) /\ pos = size
     \/ k < Len(doc) /\ doc[k + 1].t = 8 /\ pos = End(doc, k + 1) /\ InStep(k)
AtKey(k) ==
  Inside(k) /\ pos = End(doc, k) + 1 + Len(str) /\ StartOf(str, doc[k + 1].k)
AtValue(k) ==
  Inside(k) /\ key = doc[k + 1].k /\ pos = End(doc, k) + 2 + Len(key)
AtString(k) ==
  /\ Inside(k) /\ type = 1 /\ key = doc[k + 1].k
  /\ pos = End(doc, k) + 2 + Len(key) + Len(str) /\ StartOf(str, doc[k + 1].b)
AtThrown(k) ==
  /\ k < Len(doc) /\ End(doc, k) < size
  /\ size < End(doc, k + 1) \/ doc[k + 1].t \notin DOMAIN KindOf \cup {8}
AtDone(k) ==
  /\ obj = After(First(k)).nodes
  /\ \/ End(doc, k) = size
     \/ k < Len(doc) /\ End(doc, k + 1) <= size /\ EndsAt(doc, k + 1)

Reached(k) ==
  /\ Progress(k)
  /\ pc = "loop"   => AtLoop(k)
  /\ pc = "return" => AtReturn(k)
  /\ pc = "key"    => AtKey(k)
  /\ pc = "value"  => AtValue(k)
  /\ pc = "string" => AtString(k)
  /\ pc = "thrown" => AtThrown(k)
  /\ pc = "done"   => AtDone(k)

AllRooted == Rooted(obj) /\ \A i \in 1 .. Len(stack) : Rooted(stack[i].obj)

DecodeInv == Cutoff /\ AllRooted /\ \E k \in 0 .. Len(doc) : Reached(k)

\* The buffer, byte by byte.
LEMMA Bytes ==
  ASSUME Cutoff, NEW k \in 0 .. Len(doc) - 1
  PROVE  LET i == doc[k + 1]
             e == End(doc, k)
         IN  /\ e \in Nat /\ size \in Nat /\ End(doc, k + 1) \in Nat
             /\ i \in AnyItem /\ Len(i.k) \in Nat /\ Len(i.b) \in Nat
             /\ e < size => data[e + 1] = i.t
             /\ i.t = 8 => End(doc, k + 1) = e + 1
             /\ i.t # 8 =>
                  /\ \A j \in 1 .. Len(i.k) : e + 1 + j <= size => data[e + 1 + j] = i.k[j]
                  /\ e + 2 + Len(i.k) <= size => data[e + 2 + Len(i.k)] = 0
                  /\ \A j \in 1 .. Len(i.b) :
                       e + 2 + Len(i.k) + j <= size => data[e + 2 + Len(i.k) + j] = i.b[j]
                  /\ i.t = 1 =>
                       /\ e + 3 + Len(i.k) + Len(i.b) <= size => data[e + 3 + Len(i.k) + Len(i.b)] = 0
                       /\ End(doc, k + 1) = e + 3 + Len(i.k) + Len(i.b)
                  /\ i.t # 1 => End(doc, k + 1) = e + 2 + Len(i.k) + Len(i.b)
  <1> DEFINE i == doc[k + 1]
             e == End(doc, k)
             all == EncodeAll(doc)
             code == Encode(i)
             m == Len(i.k)
             n == Len(i.b)
             z == size
             f == End(doc, k + 1)
  <1>1. doc \in Seq(AnyItem) /\ Len(doc) \in Nat /\ i \in AnyItem /\ all \in Seq(Byte) /\ Len(all) \in Nat
    <2>1. doc \in Seq(AnyItem)
      BY DEF Cutoff
    <2>2. Len(doc) \in Nat /\ i \in AnyItem
      BY <2>1
    <2>3. all \in Seq(Byte)
      BY <2>1, EncodeAllFacts
    <2>4. Len(all) \in Nat
      BY <2>3
    <2> QED
      BY <2>1, <2>2, <2>3, <2>4
  <1>2. e \in Nat /\ f \in Nat /\ f = e + Len(code)
        /\ \A j \in 1 .. Len(code) : all[e + j] = code[j]
    <2>1. k \in 0 .. Len(doc) /\ k + 1 \in 0 .. Len(doc)
      BY <1>1
    <2> QED
      BY <1>1, <2>1, Ends
  <1>3. z \in Nat /\ \A j \in 1 .. z : data[j] = all[j]
    <2>1. PICK c \in 0 .. Len(all) : data = SubSeq(all, 1, c)
      BY DEF Cutoff
    <2> HIDE DEF all
    <2>2. c \in Nat /\ c <= Len(all) /\ 1 <= c + 1 /\ 1 \in Nat \ {0}
      BY <1>1
    <2>3. Len(data) = c - 1 + 1 /\ \A j \in 1 .. c - 1 + 1 : data[j] = all[1 + j - 1]
      BY <1>1, <2>1, <2>2, Cut
    <2>4. Len(data) = c /\ \A j \in 1 .. c : data[j] = all[j]
      BY <2>2, <2>3
    <2> QED
      BY <2>2, <2>4 DEF size
  <1>4. /\ Len(code) \in Nat \ {0} /\ code[1] = i.t /\ m \in Nat /\ n \in Nat
        /\ i.t = 8 => Len(code) = 1
        /\ i.t # 8 =>
             /\ Len(code) >= 2 + m
             /\ \A j \in 1 .. m : code[1 + j] = i.k[j]
             /\ code[2 + m] = 0
             /\ Len(code) = 2 + m + n + (IF i.t = 1 THEN 1 ELSE 0)
             /\ \A j \in 1 .. n : code[2 + m + j] = i.b[j]
             /\ i.t = 1 => code[3 + m + n] = 0
    <2> HIDE DEF i
    <2> QED
      BY <1>1, EncodeFacts
  <1> HIDE DEF e, all, code, m, n, z, f
  <1>5. ASSUME NEW j \in 1 .. Len(code), e + j <= z PROVE data[e + j] = code[j]
    <2>1. e + j \in 1 .. z
      BY <1>2, <1>3, <1>4, <1>5
    <2> QED
      BY <1>2, <1>3, <2>1
  <1>6. e < z => data[e + 1] = i.t
    <2>1. 1 \in 1 .. Len(code) /\ (e < z => e + 1 <= z)
      BY <1>2, <1>3, <1>4
    <2> QED
      BY <1>4, <1>5, <2>1
  <1>7. i.t = 8 => f = e + 1
    BY <1>2, <1>4
  <1>8. ASSUME i.t # 8
        PROVE  /\ \A j \in 1 .. m : e + 1 + j <= z => data[e + 1 + j] = i.k[j]
               /\ e + 2 + m <= z => data[e + 2 + m] = 0
               /\ \A j \in 1 .. n : e + 2 + m + j <= z => data[e + 2 + m + j] = i.b[j]
               /\ i.t = 1 =>
                    /\ e + 3 + m + n <= z => data[e + 3 + m + n] = 0
                    /\ f = e + 3 + m + n
               /\ i.t # 1 => f = e + 2 + m + n
    <2>1. /\ Len(code) \in Nat /\ Len(code) >= 2 + m /\ Len(code) >= 2 + m + n
          /\ i.t = 1 => Len(code) = 3 + m + n
          /\ i.t # 1 => Len(code) = 2 + m + n
      <3>1. CASE i.t = 1
        <4>1. Len(code) = 2 + m + n + 1
          BY <1>4, <1>8, <3>1
        <4> QED
          BY <1>4, <1>8, <3>1, <4>1
      <3>2. CASE i.t # 1
        <4>1. Len(code) = 2 + m + n + 0
          BY <1>4, <1>8, <3>2
        <4> QED
          BY <1>4, <1>8, <3>2, <4>1
      <3> QED
        BY <3>1, <3>2
    <2>2. ASSUME NEW j \in 1 .. m, e + 1 + j <= z PROVE data[e + 1 + j] = i.k[j]
      <3>1. 1 + j \in 1 .. Len(code) /\ e + (1 + j) = e + 1 + j
        BY <1>2, <1>4, <2>1
      <3> QED
        BY <1>4, <1>5, <1>8, <2>2, <3>1
    <2>3. ASSUME e + 2 + m <= z PROVE data[e + 2 + m] = 0
      <3>1. 2 + m \in 1 .. Len(code) /\ e + (2 + m) = e + 2 + m
        BY <1>2, <1>4, <2>1
      <3> QED
        BY <1>4, <1>5, <1>8, <2>3, <3>1
    <2>4. ASSUME NEW j \in 1 .. n, e + 2 + m + j <= z PROVE data[e + 2 + m + j] = i.b[j]
      <3>1. 2 + m + j \in 1 .. Len(code) /\ e + (2 + m + j) = e + 2 + m + j
        BY <1>2, <1>4, <2>1
      <3> QED
        BY <1>4, <1>5, <1>8, <2>4, <3>1
    <2>5. ASSUME i.t = 1, e + 3 + m + n <= z PROVE data[e + 3 + m + n] = 0
      <3>1. 3 + m + n \in 1 .. Len(code) /\ e + (3 + m + n) = e + 3 + m + n
        BY <1>2, <1>4, <2>1, <2>5
      <3> QED
        BY <1>4, <1>5, <1>8, <2>5, <3>1
    <2>6. (i.t = 1 => f = e + 3 + m + n) /\ (i.t # 1 => f = e + 2 + m + n)
      <3>1. CASE i.t = 1
        <4>1. Len(code) = 3 + m + n /\ f = e + Len(code) /\ e \in Nat /\ m \in Nat /\ n \in Nat
          BY <1>2, <1>4, <2>1, <3>1
        <4>2. f = e + 3 + m + n
          BY ONLY <4>1
        <4> QED
          BY <3>1, <4>2
      <3>2. CASE i.t # 1
        BY <1>2, <1>4, <2>1, <3>2
      <3> QED
        BY <3>1, <3>2
    <2> QED
      BY <2>2, <2>3, <2>4, <2>5, <2>6
  <1>9. i \in AnyItem /\ e \in Nat /\ z \in Nat /\ f \in Nat /\ m \in Nat /\ n \in Nat
    BY <1>1, <1>2, <1>3, <1>4
  <1> QED
    BY <1>6, <1>7, <1>8, <1>9 DEF e, m, n, z, f

\* One item more.
LEMMA Advance ==
  ASSUME Cutoff, NEW k \in 0 .. Len(doc) - 1
  PROVE  LET i == doc[k + 1]
         IN  /\ After(First(k + 1)) = Read(After(First(k)), i)
             /\ Opened(k) \in Nat /\ Closed(k) \in Nat
             /\ Opened(k + 1) = Opened(k) + (IF i.t = 0 THEN 1 ELSE 0)
             /\ Closed(k + 1) = Closed(k) + (IF i.t = 8 THEN 1 ELSE 0)
             /\ /\ Progress(k) /\ End(doc, k + 1) <= size
                /\ i.t \in DOMAIN KindOf \cup {8}
                /\ i.t = 8 => Closed(k) < Opened(k)
                => Progress(k + 1)
  <1> DEFINE i == doc[k + 1]
  <1>1. doc \in Seq(AnyItem) /\ Len(doc) \in Nat
    BY DEF Cutoff
  <1>2. First(k) \in Seq(AnyItem) /\ i \in AnyItem /\ First(k + 1) = Append(First(k), i)
    BY <1>1, FirstItems DEF First
  <1> HIDE DEF i
  <1>3. After(First(k + 1)) = Read(After(First(k)), i)
    BY <1>2, AfterFacts
  <1>4. /\ Opened(k) \in Nat /\ Closed(k) \in Nat
        /\ Opened(k + 1) = Opened(k) + (IF i.t = 0 THEN 1 ELSE 0)
        /\ Closed(k + 1) = Closed(k) + (IF i.t = 8 THEN 1 ELSE 0)
    <2> DEFINE q == First(k)
    <2> HIDE DEF q
    <2>1. q \in Seq(AnyItem) /\ i \in AnyItem
      BY <1>2 DEF q
    <2>2. \A t : /\ Count(q, t) \in Nat
                 /\ Count(Append(q, i), t) = Count(q, t) + (IF i.t = t THEN 1 ELSE 0)
      <3> TAKE t
      <3>1. \A r \in Seq(AnyItem) : Count(r, t) \in Nat
        BY ONLY CountFacts, Zenon
      <3>2. \A r \in Seq(AnyItem), x \in AnyItem :
              Count(Append(r, x), t) = Count(r, t) + (IF x.t = t THEN 1 ELSE 0)
        BY ONLY CountFacts, Zenon
      <3> QED
        BY ONLY <2>1, <3>1, <3>2
    <2>3. Count(q, 0) \in Nat /\ Count(Append(q, i), 0) = Count(q, 0) + (IF i.t = 0 THEN 1 ELSE 0)
      BY ONLY <2>2
    <2>4. Count(q, 8) \in Nat /\ Count(Append(q, i), 8) = Count(q, 8) + (IF i.t = 8 THEN 1 ELSE 0)
      BY ONLY <2>2
    <2> QED
      BY <1>2, <2>3, <2>4 DEF Opened, Closed, q
  <1>5. ASSUME Progress(k), End(doc, k + 1) <= size, i.t \in DOMAIN KindOf \cup {8},
               i.t = 8 => Closed(k) < Opened(k)
        PROVE  Progress(k + 1)
    <2>1. k + 1 \in 0 .. Len(doc) /\ k \in Nat
      BY <1>1
    <2>2. Closed(k + 1) <= Opened(k + 1)
      <3>1. Closed(k) <= Opened(k)
        BY <1>5, <2>1 DEF Progress
      <3> QED
        BY <1>4, <1>5, <3>1
    <2>3. \A j \in 0 .. k + 1 : Closed(j) <= Opened(j)
      <3>1. \A j \in 0 .. k + 1 : j \in 0 .. k \/ j = k + 1
        BY <2>1
      <3> QED
        BY <1>5, <2>2, <3>1 DEF Progress
    <2>4. Known(First(k + 1))
      <3> DEFINE q == First(k)
                 r == First(k + 1)
      <3>1. /\ Len(r) = Len(q) + 1 /\ Len(q) \in Nat /\ r[Len(q) + 1] = i
            /\ \A j \in 1 .. Len(q) : r[j] = q[j]
        BY <1>2, Appended
      <3>2. Known(q)
        BY <1>5 DEF Progress
      <3> HIDE DEF q, r
      <3>3. \A j \in 1 .. Len(r) : j \in 1 .. Len(q) \/ j = Len(q) + 1
        BY <3>1
      <3>4. Known(r)
        BY <1>5, <3>1, <3>2, <3>3 DEF Known
      <3> QED
        BY <3>4 DEF r
    <2> QED
      BY <1>5, <2>1, <2>3, <2>4 DEF Progress
  <1> QED
    BY <1>3, <1>4, <1>5 DEF i

\* The document and its buffer stay as they are.
LEMMA Frame ==
  ASSUME UNCHANGED <<doc, data>>, NEW k
  PROVE  /\ Cutoff => Cutoff'
         /\ size' = size /\ (Progress(k) => Progress(k)')
         /\ Built(k)' <=> Whole(stack', obj') = After(First(k)).nodes
         /\ InStep(k)' <=> Keys(stack') = After(First(k)).at /\ Len(stack') = Opened(k) - Closed(k)
         /\ UNCHANGED <<stack, obj>> => (Built(k) => Built(k)') /\ (InStep(k) => InStep(k)')
         /\ End(doc, k)' = End(doc, k) /\ End(doc, k + 1)' = End(doc, k + 1)
         /\ (doc[k + 1])' = doc[k + 1] /\ (Len(doc))' = Len(doc)
  <1>1. doc' = doc /\ data' = data /\ size' = size
    BY DEF size
  <1>2. Cutoff => Cutoff'
    BY <1>1 DEF Cutoff
  <1>3. \A i : First(i)' = First(i) /\ Opened(i)' = Opened(i) /\ Closed(i)' = Closed(i)
    BY <1>1 DEF First, Opened, Closed
  <1>4. Progress(k) => Progress(k)'
    BY <1>1, <1>3 DEF Progress
  <1>5. Built(k)' <=> Whole(stack', obj') = After(First(k)).nodes
    BY <1>1 DEF Built, First
  <1>6. InStep(k)' <=> Keys(stack') = After(First(k)).at /\ Len(stack') = Opened(k) - Closed(k)
    BY <1>1 DEF InStep, First, Opened, Closed
  <1>7. UNCHANGED <<stack, obj>> => (Built(k) => Built(k)') /\ (InStep(k) => InStep(k)')
    BY <1>5, <1>6 DEF Built, InStep
  <1> QED
    BY <1>1, <1>2, <1>4, <1>5, <1>6, <1>7

\* The same item, at a new place.
LEMMA ReachedAt ==
  ASSUME NEW k, Progress(k)'
  PROVE  /\ pc' = "loop" /\ AtLoop(k)' => Reached(k)'
         /\ pc' = "return" /\ AtReturn(k)' => Reached(k)'
         /\ pc' = "key" /\ AtKey(k)' => Reached(k)'
         /\ pc' = "value" /\ AtValue(k)' => Reached(k)'
         /\ pc' = "string" /\ AtString(k)' => Reached(k)'
         /\ pc' = "thrown" /\ AtThrown(k)' => Reached(k)'
         /\ pc' = "done" /\ AtDone(k)' => Reached(k)'
  BY DEF Reached

\* What every step may use.
Here(k) == TypeOK /\ InBounds /\ Cutoff /\ AllRooted /\ k \in 0 .. Len(doc) /\ Reached(k)

\* Something is left: an item follows.
LEMMA ItemFollows ==
  ASSUME Cutoff, NEW k \in 0 .. Len(doc), End(doc, k) < size
  PROVE  k < Len(doc) /\ k \in 0 .. Len(doc) - 1
  <1>1. doc \in Seq(AnyItem) /\ Len(doc) \in Nat
    BY DEF Cutoff
  <1>2. End(doc, Len(doc)) = Len(EncodeAll(doc)) /\ Len(EncodeAll(doc)) \in Nat
    <2>1. EncodeAll(doc) \in Seq(Byte)
      BY <1>1, EncodeAllFacts
    <2> QED
      BY <1>1, <2>1, Ends
  <1>3. size \in Nat /\ size <= Len(EncodeAll(doc))
    <2>1. PICK c \in 0 .. Len(EncodeAll(doc)) : data = SubSeq(EncodeAll(doc), 1, c)
      BY DEF Cutoff
    <2> DEFINE all == EncodeAll(doc)
    <2>2. all \in Seq(Byte) /\ c \in Nat /\ c <= Len(all) /\ 1 <= c + 1 /\ 1 \in Nat \ {0}
      BY <1>1, <1>2, EncodeAllFacts
    <2> HIDE DEF all
    <2>3. Len(SubSeq(all, 1, c)) = c - 1 + 1
      BY <2>2, Cut
    <2> QED
      BY <2>1, <2>2, <2>3 DEF all, size
  <1>4. k # Len(doc)
    BY <1>2, <1>3
  <1> QED
    BY <1>1, <1>4

\* parse_object at the start of an item, or at the end of the buffer.
LEMMA LoopDecodes ==
  ASSUME NEW k, Here(k), EndOfBuffer \/ ReadType, UNCHANGED doc
  PROVE  Reached(k)' /\ AllRooted'
  <1>0. /\ Progress(k) /\ AtLoop(k) /\ pc = "loop" /\ UNCHANGED <<doc, data, obj, stack>>
        /\ k \in 0 .. Len(doc) /\ Cutoff /\ size \in Nat /\ pos \in Nat /\ pos <= size
    <2>1. pc = "loop" /\ UNCHANGED <<data, obj, stack>>
      BY DEF EndOfBuffer, ReadType
    <2>2. size \in Nat
      BY DEF Here, TypeOK, size
    <2> QED
      BY <2>1, <2>2 DEF Here, Reached, TypeOK, InBounds
  <1>1. Progress(k)' /\ size' = size /\ End(doc, k)' = End(doc, k) /\ End(doc, k + 1)' = End(doc, k + 1)
        /\ (doc[k + 1])' = doc[k + 1] /\ (Len(doc))' = Len(doc)
        /\ (Built(k) => Built(k)') /\ (InStep(k) => InStep(k)')
    BY <1>0, Frame
  <1>2. AllRooted'
    BY <1>0 DEF Here, AllRooted
  <1>3. CASE EndOfBuffer
    <2>1. pc' = "return" /\ pos' = pos /\ pos >= size
      BY <1>3 DEF EndOfBuffer
    <2>2. pos = size
      BY <1>0, <2>1
    <2>3. AtReturn(k)'
      BY <1>0, <1>1, <2>1, <2>2 DEF AtReturn, AtLoop
    <2> QED
      BY <1>1, <1>2, <2>1, <2>3, ReachedAt
  <1>4. CASE ReadType
    <2>1. /\ pos < size /\ type' = data[pos + 1] /\ pos' = pos + 1 /\ str' = << >>
          /\ pc' = IF type' = 8 THEN "return" ELSE "key"
      BY <1>4 DEF ReadType, At
    <2>2. pos = End(doc, k) /\ Built(k) /\ InStep(k)
      BY <1>0, <2>1 DEF AtLoop
    <2>3. k < Len(doc) /\ k \in 0 .. Len(doc) - 1
      BY <1>0, <2>1, <2>2, ItemFollows
    <2>4. data[pos + 1] = doc[k + 1].t /\ (doc[k + 1].t = 8 => End(doc, k + 1) = pos + 1)
          /\ Len(doc[k + 1].k) \in Nat
      BY <1>0, <2>1, <2>2, <2>3, Bytes
    <2>5. CASE type' = 8
      <3>1. AtReturn(k)'
        BY <1>1, <2>1, <2>2, <2>3, <2>4, <2>5 DEF AtReturn
      <3> QED
        BY <1>1, <1>2, <2>1, <2>5, <3>1, ReachedAt
    <2>6. CASE type' # 8
      <3>1. Inside(k)'
        BY <1>1, <2>1, <2>2, <2>3, <2>4, <2>6 DEF Inside
      <3>2. Len(str') = 0 /\ pos' = End(doc, k) + 1 + Len(str')
        <4>1. Len(str') = 0
          BY <2>1
        <4> QED
          BY <1>0, <2>1, <2>2, <4>1
      <3>3. StartOf(str', doc[k + 1].k)
        BY <2>4, <3>2 DEF StartOf
      <3>4. AtKey(k)'
        BY <1>1, <3>1, <3>2, <3>3 DEF AtKey, StartOf
      <3> QED
        <4>1. pc' = "key"
          BY <2>1, <2>6
        <4> QED
          BY <1>1, <1>2, <3>4, <4>1, ReachedAt
    <2> QED
      BY <2>5, <2>6
  <1> QED
    BY <1>3, <1>4

\* One character more of a key or a string.
LEMMA StartGrows ==
  ASSUME NEW s \in Seq(Byte), NEW t \in Seq(Byte), StartOf(s, t)
  PROVE  /\ Len(s) \in Nat /\ Len(t) \in Nat /\ Len(s) <= Len(t)
         /\ Len(s) = Len(t) => s = t
         /\ Len(s) < Len(t) => Len(s) + 1 \in 1 .. Len(t)
         /\ \A c \in Byte : Len(s) < Len(t) /\ c = t[Len(s) + 1]
              => StartOf(Append(s, c), t) /\ Len(Append(s, c)) = Len(s) + 1
  <1>1. Len(s) \in Nat /\ Len(t) \in Nat /\ Len(s) <= Len(t)
    BY DEF StartOf
  <1>2. Len(s) = Len(t) => s = t
    BY SeqEqual DEF StartOf
  <1>3. ASSUME NEW c \in Byte, Len(s) < Len(t), c = t[Len(s) + 1]
        PROVE  StartOf(Append(s, c), t) /\ Len(Append(s, c)) = Len(s) + 1
    <2> DEFINE r == Append(s, c)
    <2>1. /\ Len(r) = Len(s) + 1 /\ r[Len(s) + 1] = c
          /\ \A i \in 1 .. Len(s) : r[i] = s[i]
          /\ \A i \in 1 .. Len(s) + 1 : i \in 1 .. Len(s) \/ i = Len(s) + 1
      BY Appended
    <2> HIDE DEF r
    <2>2. Len(r) <= Len(t)
      BY <1>1, <1>3, <2>1
    <2>3. \A j \in 1 .. Len(r) : r[j] = t[j]
      BY <1>3, <2>1 DEF StartOf
    <2>4. StartOf(r, t)
      BY <2>2, <2>3 DEF StartOf
    <2> QED
      BY <2>1, <2>4 DEF r
  <1> QED
    BY <1>1, <1>2, <1>3

-----------------------------------------------------------------------------
(* Each step keeps it.                                                     *)

\* An item's strings have no terminator in them.
LEMMA ItemFacts ==
  ASSUME NEW i \in AnyItem
  PROVE  /\ i.t \in Byte /\ i.k \in Seq(Byte) /\ i.b \in Seq(Byte)
         /\ Len(i.k) \in Nat /\ Len(i.b) \in Nat
         /\ \A j \in 1 .. Len(i.k) : i.k[j] # 0
         /\ i.t = 1 => \A j \in 1 .. Len(i.b) : i.b[j] # 0
         /\ i.t = 0 => i.b = << >>
         /\ i.t \in {2, 3} => Len(i.b) = 4
         /\ i.t = 7 => Len(i.b) = 8
  <1>1. /\ i.t \in Byte /\ i.k \in Cstring /\ i.b \in Seq(Byte)
        /\ i.t = 0 => i.b = << >>
        /\ i.t = 1 => i.b \in Cstring
        /\ i.t \in {2, 3} => Len(i.b) = 4
        /\ i.t = 7 => Len(i.b) = 8
    BY DEF AnyItem
  <1>2. \A s \in Cstring : s \in Seq(Byte) /\ \A j \in 1 .. Len(s) : s[j] # 0
    BY DEF Cstring
  <1>3. i.k \in Seq(Byte) /\ Len(i.k) \in Nat /\ Len(i.b) \in Nat
    BY <1>1, <1>2
  <1> QED
    BY <1>1, <1>2, <1>3

\* read_cstring reads a key.
LEMMA KeyDecodes ==
  ASSUME NEW k, Here(k), pc = "key", CstringChar \/ CstringThrows \/ CstringEnd, UNCHANGED doc
  PROVE  Reached(k)' /\ AllRooted'
  <1> DEFINE i == doc[k + 1]
             e == End(doc, k)
             t == doc[k + 1].k
  <1>0. /\ Progress(k) /\ Inside(k) /\ pos = e + 1 + Len(str) /\ StartOf(str, t)
        /\ UNCHANGED <<doc, data, obj, stack, type>>
        /\ k \in 0 .. Len(doc) /\ Cutoff /\ size \in Nat /\ pos \in Nat /\ pos <= size
        /\ str \in Seq(Byte) /\ data \in Seq(Byte)
    <2>1. UNCHANGED <<data, obj, stack, type>>
      BY DEF CstringChar, CstringThrows, CstringEnd
    <2>2. size \in Nat
      BY DEF Here, TypeOK, size
    <2>3. AtKey(k)
      BY DEF Here, Reached
    <2> QED
      BY <2>1, <2>2, <2>3 DEF Here, Reached, TypeOK, InBounds, AtKey
  <1>1. Progress(k)' /\ size' = size /\ End(doc, k)' = End(doc, k) /\ End(doc, k + 1)' = End(doc, k + 1)
        /\ (doc[k + 1])' = doc[k + 1] /\ (Len(doc))' = Len(doc)
        /\ (Built(k) => Built(k)') /\ (InStep(k) => InStep(k)')
    BY <1>0, Frame
  <1>2. AllRooted'
    BY <1>0 DEF Here, AllRooted
  <1>3. Inside(k)'
    BY <1>0, <1>1 DEF Inside
  <1>4. k < Len(doc) /\ k \in 0 .. Len(doc) - 1 /\ type = i.t /\ i.t # 8
    <2>1. Len(doc) \in Nat
      BY <1>0 DEF Cutoff
    <2> QED
      BY <1>0, <2>1 DEF Inside
  <1>5. /\ e \in Nat /\ i \in AnyItem
        /\ \A j \in 1 .. Len(t) : e + 1 + j <= size => data[e + 1 + j] = t[j]
        /\ e + 2 + Len(t) <= size => data[e + 2 + Len(t)] = 0
        /\ End(doc, k + 1) \in Nat /\ End(doc, k + 1) >= e + 2 + Len(t)
    <2>1. Len(i.b) \in Nat /\ Len(t) \in Nat /\ e \in Nat
      BY <1>0, <1>4, Bytes
    <2>2. End(doc, k + 1) = e + 3 + Len(t) + Len(i.b) \/ End(doc, k + 1) = e + 2 + Len(t) + Len(i.b)
      BY <1>0, <1>4, Bytes
    <2>3. End(doc, k + 1) \in Nat /\ End(doc, k + 1) >= e + 2 + Len(t)
      <3> DEFINE f == End(doc, k + 1)
                 m == Len(t)
                 n == Len(i.b)
      <3> HIDE DEF f, m, n, e
      <3>1. (f = e + 3 + m + n \/ f = e + 2 + m + n) /\ e \in Nat /\ m \in Nat /\ n \in Nat
        BY <2>1, <2>2 DEF f, m, n
      <3>2. f \in Nat /\ f >= e + 2 + m
        BY <3>1
      <3> QED
        BY <3>2 DEF f, m
    <2> QED
      BY <1>0, <1>4, <2>1, <2>3, Bytes
  <1>6. t \in Seq(Byte) /\ Len(t) \in Nat /\ Len(str) \in Nat /\ \A j \in 1 .. Len(t) : t[j] # 0
    <2>1. str \in Seq(Byte) /\ i \in AnyItem /\ t = i.k
      BY <1>0, <1>5
    <2> HIDE DEF i, t
    <2>2. i.k \in Seq(Byte) /\ Len(i.k) \in Nat /\ \A j \in 1 .. Len(i.k) : i.k[j] # 0
      BY <2>1, ItemFacts
    <2>3. Len(str) \in Nat
      BY <2>1
    <2> QED
      BY <2>1, <2>2, <2>3
  <1>7. /\ Len(str) <= Len(t)
        /\ Len(str) = Len(t) => str = t
        /\ Len(str) < Len(t) => Len(str) + 1 \in 1 .. Len(t)
        /\ \A c \in Byte : Len(str) < Len(t) /\ c = t[Len(str) + 1]
             => StartOf(Append(str, c), t) /\ Len(Append(str, c)) = Len(str) + 1
    <2> HIDE DEF t
    <2> QED
      BY <1>0, <1>6, StartGrows
  <1> HIDE DEF i, e, t
  \* the next byte: one more of the key, or its terminator
  <1>8. ASSUME pos < size
        PROVE  /\ Len(str) < Len(t) => data[pos + 1] = t[Len(str) + 1]
               /\ Len(str) = Len(t) => data[pos + 1] = 0
               /\ data[pos + 1] \in Byte
    <2>1. pos + 1 \in 1 .. Len(data) /\ pos + 1 <= size /\ Len(data) = size
      BY <1>0, <1>8 DEF size
    <2>2. data[pos + 1] \in Byte
      BY <1>0, <2>1
    <2>3. pos + 1 = e + 1 + (Len(str) + 1) /\ (Len(str) = Len(t) => pos + 1 = e + 2 + Len(t))
      <3>1. pos = e + 1 + Len(str) /\ e \in Nat /\ Len(t) \in Nat /\ Len(str) \in Nat
        BY <1>0, <1>5, <1>6
      <3> QED
        BY <3>1
    <2> QED
      BY <1>5, <1>7, <2>1, <2>2, <2>3
  <1>9. CASE CstringChar
    <2>1. /\ pos < size /\ data[pos + 1] # 0 /\ str' = Append(str, data[pos + 1])
          /\ pos' = pos + 1 /\ pc' = "key"
      BY <1>9 DEF CstringChar, At
    <2>2. Len(str) < Len(t)
      BY <1>6, <1>7, <1>8, <2>1
    <2>3. StartOf(str', t) /\ Len(str') = Len(str) + 1
      BY <1>7, <1>8, <2>1, <2>2
    <2>4. pos' = e + 1 + Len(str')
      BY <1>0, <1>5, <1>6, <2>1, <2>3
    <2>5. AtKey(k)'
      <3>1. StartOf(str, doc[k + 1].k)'
        BY <1>1, <2>3 DEF StartOf, t
      <3>2. (pos = End(doc, k) + 1 + Len(str))'
        BY <1>1, <2>4 DEF e
      <3> QED
        BY <1>3, <3>1, <3>2 DEF AtKey
    <2> QED
      BY <1>1, <1>2, <2>1, <2>5, ReachedAt
  <1>10. CASE CstringThrows
    <2>1. pos >= size /\ pc' = "thrown"
      BY <1>10 DEF CstringThrows
    <2>2. e < size /\ size < End(doc, k + 1)
      <3>1. pos = size
        BY <1>0, <2>1
      <3> QED
        BY <1>0, <1>5, <1>6, <1>7, <3>1
    <2>3. AtThrown(k)'
      BY <1>1, <1>4, <2>2 DEF AtThrown, e
    <2> QED
      BY <1>1, <1>2, <2>1, <2>3, ReachedAt
  <1>11. CASE CstringEnd
    <2>1. /\ pos < size /\ data[pos + 1] = 0 /\ key' = str
          /\ pos' = pos + 1 /\ pc' = "value"
      BY <1>11 DEF CstringEnd, At
    <2>2. ~(Len(str) < Len(t))
      BY <1>6, <1>7, <1>8, <2>1
    <2>3. Len(str) = Len(t) /\ str = t
      BY <1>6, <1>7, <2>2
    <2>4. pos' = e + 2 + Len(key')
      BY <1>0, <1>5, <1>6, <2>1, <2>3
    <2>5. AtValue(k)'
      <3>1. (key = doc[k + 1].k)'
        BY <1>1, <2>1, <2>3 DEF t
      <3>2. (pos = End(doc, k) + 2 + Len(key))'
        BY <1>1, <2>4 DEF e
      <3> QED
        BY <1>3, <3>1, <3>2 DEF AtValue
    <2> QED
      BY <1>1, <1>2, <2>1, <2>5, ReachedAt
  <1> QED
    BY <1>9, <1>10, <1>11

\* A leaf has been read: the object has its value.
LEMMA LeafDecodes ==
  ASSUME NEW k, Here(k), Inside(k), key = doc[k + 1].k, type \in {1, 2, 3, 7},
         UNCHANGED <<doc, data, stack, key>>, pc' = "loop",
         pos' = End(doc, k + 1), End(doc, k + 1) <= size,
         obj' = Assign(obj, key, Primitive(KindOf[type], doc[k + 1].b), {})
  PROVE  Reached(k + 1)' /\ AllRooted' /\ k + 1 \in 0 .. Len(doc)
  <1> DEFINE i == doc[k + 1]
             v == Primitive(KindOf[type], i.b)
  <1>0. /\ Progress(k) /\ k \in 0 .. Len(doc) /\ Cutoff /\ obj \in Object /\ stack \in Seq(Caller)
        /\ AllRooted /\ key \in Seq(Byte)
    BY DEF Here, Reached, TypeOK
  <1>1. k \in 0 .. Len(doc) - 1 /\ k + 1 \in 0 .. Len(doc) /\ type = i.t
    <2>1. Len(doc) \in Nat
      BY <1>0 DEF Cutoff
    <2> QED
      BY <1>0, <2>1 DEF Inside
  <1>2. /\ After(First(k + 1)) = Read(After(First(k)), i)
        /\ Opened(k + 1) = Opened(k) /\ Closed(k + 1) = Closed(k) /\ Progress(k + 1)
    <2>1. i.t \in DOMAIN KindOf \cup {8} /\ i.t # 8 /\ i.t # 0
      BY <1>1 DEF KindOf
    <2>2. /\ Opened(k) \in Nat /\ Closed(k) \in Nat
          /\ Opened(k + 1) = Opened(k) + (IF i.t = 0 THEN 1 ELSE 0)
          /\ Closed(k + 1) = Closed(k) + (IF i.t = 8 THEN 1 ELSE 0)
      BY <1>0, <1>1, Advance
    <2> QED
      BY <1>0, <1>1, <2>1, <2>2, Advance
  <1>3. /\ After(First(k + 1)).at = After(First(k)).at
        /\ After(First(k + 1)).nodes
             = Put(After(First(k)).nodes, Append(After(First(k)).at, key), v)
    <2>1. i.t # 8 /\ i.t # 0 /\ i.k = key /\ i.t = type
      BY <1>1
    <2>2. v = [kind |-> KindOf[i.t], bytes |-> i.b]
      BY <2>1 DEF Primitive
    <2> HIDE DEF i, v
    <2>3. Read(After(First(k)), i)
            = [at |-> After(First(k)).at,
               nodes |-> Put(After(First(k)).nodes, Append(After(First(k)).at, key), v)]
      BY <2>1, <2>2 DEF Read
    <2> QED
      BY <1>2, <2>3
  <1>4. Whole(stack, obj') = Put(Whole(stack, obj), Append(Keys(stack), key), v)
    BY <1>0, BinaryTypes, WholePut DEF AllRooted
  <1> HIDE DEF v, i
  <1>5. Built(k) /\ InStep(k)
    BY DEF Inside
  <1>6. Whole(stack', obj') = After(First(k + 1)).nodes
    BY <1>3, <1>4, <1>5 DEF Built, InStep
  <1>7. Keys(stack') = After(First(k + 1)).at /\ Len(stack') = Opened(k + 1) - Closed(k + 1)
    BY <1>2, <1>3, <1>5 DEF InStep
  <1>8. Progress(k + 1)' /\ Built(k + 1)' /\ InStep(k + 1)' /\ End(doc, k + 1)' = End(doc, k + 1)
    BY <1>2, <1>6, <1>7, Frame
  <1>9. AtLoop(k + 1)'
    BY <1>8 DEF AtLoop
  <1>10. Reached(k + 1)'
    BY <1>8, <1>9, ReachedAt
  <1>11. AllRooted'
    <2>1. Rooted(obj) /\ {} \in Object /\ \A j \in 1 .. Len(stack) : Rooted(stack[j].obj)
      BY <1>0 DEF AllRooted, Object
    <2>2. Rooted(obj')
      BY <1>0, <2>1, BinaryTypes, AssignRooted
    <2> QED
      BY <2>1, <2>2 DEF AllRooted
  <1> QED
    BY <1>1, <1>10, <1>11

\* What the lemmas on the value of an item start from.
LEMMA ValueHere ==
  ASSUME NEW k, Here(k), Inside(k), UNCHANGED <<doc, data>>
  PROVE  LET i == doc[k + 1]
         IN  /\ k \in 0 .. Len(doc) - 1 /\ k < Len(doc) /\ Cutoff /\ Progress(k) /\ Progress(k)'
             /\ size \in Nat /\ pos \in Nat /\ pos <= size /\ size' = size
             /\ End(doc, k) \in Nat /\ End(doc, k + 1) \in Nat
             /\ End(doc, k)' = End(doc, k) /\ End(doc, k + 1)' = End(doc, k + 1)
             /\ (doc[k + 1])' = doc[k + 1] /\ (Len(doc))' = Len(doc)
             /\ type = i.t /\ i.t # 8 /\ i \in AnyItem
             /\ Len(i.k) \in Nat /\ Len(i.b) \in Nat
             /\ UNCHANGED <<obj, stack>> => AllRooted'
             /\ UNCHANGED <<obj, stack, type>> => Inside(k)'
  <1>1. Progress(k) /\ Cutoff /\ k \in 0 .. Len(doc) /\ pos \in Nat /\ pos <= size /\ data \in Seq(Byte)
    BY DEF Here, Reached, TypeOK, InBounds
  <1>2. k \in 0 .. Len(doc) - 1 /\ k < Len(doc) /\ type = doc[k + 1].t /\ doc[k + 1].t # 8
    <2>1. Len(doc) \in Nat
      BY <1>1 DEF Cutoff
    <2> QED
      BY <1>1, <2>1 DEF Inside
  <1>3. size \in Nat
    BY <1>1 DEF size
  <1>4. /\ Progress(k)' /\ size' = size /\ End(doc, k)' = End(doc, k) /\ End(doc, k + 1)' = End(doc, k + 1)
        /\ (doc[k + 1])' = doc[k + 1] /\ (Len(doc))' = Len(doc)
        /\ UNCHANGED <<stack, obj>> => (Built(k) => Built(k)') /\ (InStep(k) => InStep(k)')
    BY <1>1, Frame
  <1>5. UNCHANGED <<obj, stack>> => AllRooted'
    BY DEF Here, AllRooted
  <1>6. UNCHANGED <<obj, stack, type>> => Inside(k)'
    BY <1>4 DEF Inside
  <1>7. /\ End(doc, k) \in Nat /\ End(doc, k + 1) \in Nat /\ doc[k + 1] \in AnyItem
        /\ Len(doc[k + 1].k) \in Nat /\ Len(doc[k + 1].b) \in Nat
    BY <1>1, <1>2, Bytes
  <1> QED
    BY <1>1, <1>2, <1>3, <1>4, <1>5, <1>6, <1>7

\* case 0x01, and a type the parser does not know.
LEMMA KindDecodes ==
  ASSUME NEW k, Here(k), StringValue \/ UnknownType, UNCHANGED doc
  PROVE  Reached(k)' /\ AllRooted'
  <1>1. /\ UNCHANGED <<doc, data, obj, stack, type, key, pos>> /\ pc = "value"
    BY DEF StringValue, UnknownType
  <1>2. Inside(k) /\ key = doc[k + 1].k /\ pos = End(doc, k) + 2 + Len(key)
    BY <1>1 DEF Here, Reached, AtValue
  <1>3. /\ k < Len(doc) /\ Progress(k)' /\ AllRooted' /\ Inside(k)' /\ size' = size
        /\ End(doc, k)' = End(doc, k) /\ End(doc, k + 1)' = End(doc, k + 1)
        /\ (doc[k + 1])' = doc[k + 1] /\ (Len(doc))' = Len(doc)
        /\ End(doc, k) \in Nat /\ Len(doc[k + 1].k) \in Nat /\ Len(doc[k + 1].b) \in Nat
        /\ pos <= size /\ pos \in Nat /\ size \in Nat /\ type = doc[k + 1].t /\ type # 8
    BY <1>1, <1>2, ValueHere
  <1>4. CASE StringValue
    <2>1. type = 1 /\ str' = << >> /\ pc' = "string"
      BY <1>4 DEF StringValue
    <2>2. Len(str') = 0 /\ StartOf(str', doc[k + 1].b)
      <3>1. Len(str') = 0
        BY <2>1
      <3> QED
        BY <1>3, <3>1 DEF StartOf
    <2>3. pos = End(doc, k) + 2 + Len(key) + Len(str')
      BY <1>2, <1>3, <2>2
    <2>4. AtString(k)'
      <3>1. StartOf(str, doc[k + 1].b)'
        BY <1>3, <2>2 DEF StartOf
      <3>2. (pos = End(doc, k) + 2 + Len(key) + Len(str))'
        BY <1>1, <1>3, <2>3
      <3> QED
        BY <1>1, <1>2, <1>3, <2>1, <3>1, <3>2 DEF AtString
    <2> QED
      BY <1>3, <2>1, <2>4, ReachedAt
  <1>5. CASE UnknownType
    <2>1. pc' = "thrown" /\ type \notin {0, 1, 2, 3, 7}
      BY <1>5 DEF UnknownType
    <2>2. type \notin DOMAIN KindOf \cup {8}
      BY <1>3, <2>1 DEF KindOf
    <2>3. End(doc, k) < size
      BY <1>2, <1>3
    <2>4. AtThrown(k)'
      BY <1>3, <2>2, <2>3 DEF AtThrown
    <2> QED
      BY <1>3, <2>1, <2>4, ReachedAt
  <1> QED
    BY <1>4, <1>5

\* read_int32, read_float, read_uint64.
LEMMA NumberDecodes ==
  ASSUME NEW k, Here(k), NEW n \in {4, 8}, ReadNumber(KindOf[type], n), UNCHANGED doc,
         type \in {2, 3, 7}, n = IF type = 7 THEN 8 ELSE 4
  PROVE  \/ Reached(k)' /\ AllRooted'
         \/ Reached(k + 1)' /\ AllRooted' /\ k + 1 \in 0 .. Len(doc)
  <1> DEFINE i == doc[k + 1]
             e == End(doc, k)
             m == Len(key)
             f == End(doc, k + 1)
  <1>1. UNCHANGED <<doc, data, stack, type, key>> /\ pc = "value"
    BY DEF ReadNumber
  <1>2. Inside(k) /\ key = i.k /\ pos = e + 2 + m
    BY <1>1 DEF Here, Reached, AtValue
  <1>3. /\ k < Len(doc) /\ k \in 0 .. Len(doc) - 1 /\ Progress(k)' /\ size' = size /\ Cutoff
        /\ End(doc, k)' = e /\ End(doc, k + 1)' = f
        /\ (doc[k + 1])' = doc[k + 1] /\ (Len(doc))' = Len(doc)
        /\ e \in Nat /\ Len(i.k) \in Nat /\ Len(i.b) \in Nat /\ i \in AnyItem
        /\ pos <= size /\ pos \in Nat /\ size \in Nat /\ type = i.t /\ type # 8
        /\ UNCHANGED <<obj, stack>> => AllRooted'
    BY <1>1, <1>2, ValueHere
  <1>4. Len(i.b) = n /\ i.b \in Seq(Byte)
    <2>1. /\ i.b \in Seq(Byte)
          /\ i.t \in {2, 3} => Len(i.b) = 4
          /\ i.t = 7 => Len(i.b) = 8
      BY <1>3, ItemFacts
    <2> QED
      BY <1>3, <2>1
  <1>5. /\ f = e + 2 + Len(i.k) + Len(i.b)
        /\ \A j \in 1 .. Len(i.b) :
             e + 2 + Len(i.k) + j <= size => data[e + 2 + Len(i.k) + j] = i.b[j]
    <2>1. i.t # 8 /\ i.t # 1
      BY <1>3
    <2> QED
      BY <1>3, <2>1, Bytes
  <1>6. m \in Nat /\ f = pos + n /\ f \in Nat
    <2>1. m \in Nat /\ m = Len(i.k) /\ Len(i.b) = n /\ e \in Nat /\ n \in Nat
      BY <1>2, <1>3, <1>4
    <2>2. f = e + 2 + m + n
      BY <1>5, <2>1
    <2>3. pos = e + 2 + m
      BY <1>2
    <2> HIDE DEF f, e, m
    <2>4. m \in Nat /\ e \in Nat /\ n \in Nat
      BY <2>1
    <2>5. f = pos + n /\ f \in Nat
      BY ONLY <2>2, <2>3, <2>4
    <2> QED
      BY <2>4, <2>5
  <1> HIDE DEF e, f, m
  <1>7. CASE pos + n > size
    <2>1. pc' = "thrown" /\ UNCHANGED obj
      BY <1>7 DEF ReadNumber
    <2>2. e < size /\ size < f
      <3>1. /\ pos = e + 2 + m /\ pos <= size /\ pos + n > size /\ f = pos + n
            /\ e \in Nat /\ m \in Nat /\ pos \in Nat /\ size \in Nat /\ n \in Nat
        BY <1>2, <1>3, <1>6, <1>7
      <3> QED
        BY ONLY <3>1
    <2>3. AtThrown(k)'
      BY <1>3, <2>2 DEF AtThrown, e, f
    <2> QED
      BY <1>1, <1>3, <2>1, <2>3, ReachedAt
  <1>8. CASE ~(pos + n > size)
    <2>1. /\ pc' = "loop" /\ pos' = pos + n
          /\ obj' = Assign(obj, key, Primitive(KindOf[type], SubSeq(data, pos + 1, pos + n)), {})
      BY <1>8 DEF ReadNumber
    <2>2. SubSeq(data, pos + 1, pos + n) = i.b
      <3> DEFINE b == SubSeq(data, pos + 1, pos + n)
      <3>1. data \in Seq(Byte) /\ Len(data) = size
        BY DEF Here, TypeOK, size
      <3>2. pos + 1 \in Nat \ {0} /\ pos + n \in Nat /\ pos + n <= Len(data) /\ pos + 1 <= pos + n + 1
            /\ n \in Nat /\ pos + n - (pos + 1) + 1 = n
        BY <1>3, <1>8, <3>1
      <3>3. b \in Seq(Byte) /\ Len(b) = n /\ \A j \in 1 .. n : b[j] = data[pos + 1 + j - 1]
        <4> DEFINE from == pos + 1
                   to == pos + n
        <4>1. /\ data \in Seq(Byte) /\ from \in Nat \ {0} /\ to \in Nat /\ to <= Len(data)
              /\ from <= to + 1 /\ to - from + 1 = n
          <5>1. pos \in Nat /\ n \in Nat /\ pos + n <= Len(data)
            BY <1>3, <3>2
          <5>2. from \in Nat \ {0} /\ to \in Nat /\ from <= to + 1 /\ to - from + 1 = n
            BY ONLY <5>1
          <5> QED
            BY <3>1, <5>1, <5>2
        <4>2. SubSeq(data, from, to) = b
          OBVIOUS
        <4> HIDE DEF from, to, b
        <4>3. /\ SubSeq(data, from, to) \in Seq(Byte) /\ Len(SubSeq(data, from, to)) = n
              /\ \A j \in 1 .. n : SubSeq(data, from, to)[j] = data[from + j - 1]
          BY <4>1, Cut
        <4> QED
          BY <4>2, <4>3 DEF from
      <3> HIDE DEF b, i
      <3>4. ASSUME NEW j \in 1 .. n PROVE b[j] = i.b[j]
        <4>1. pos + 1 + j - 1 = e + 2 + Len(i.k) + j /\ e + 2 + Len(i.k) + j <= size /\ j \in 1 .. Len(i.b)
          <5>1. pos = e + 2 + Len(i.k)
            BY <1>2 DEF m
          <5>2. pos + 1 + j - 1 = pos + j /\ pos + j <= size
            BY <1>3, <1>8
          <5>3. j \in 1 .. Len(i.b)
            BY <1>4
          <5>4. pos + j = e + 2 + Len(i.k) + j
            BY <5>1
          <5> QED
            BY <5>2, <5>3, <5>4
        <4> QED
          BY <1>5, <3>3, <4>1
      <3>5. i.b \in Seq(Byte) /\ Len(i.b) = n
        BY <1>4
      <3>6. b = i.b
        BY ONLY <3>2, <3>3, <3>4, <3>5, SeqEqual
      <3> QED
        BY <3>6 DEF b
    <2>3. pos' = End(doc, k + 1) /\ End(doc, k + 1) <= size
      BY <1>3, <1>6, <1>8, <2>1 DEF f
    <2>4. obj' = Assign(obj, key, Primitive(KindOf[type], doc[k + 1].b), {})
      BY <2>1, <2>2
    <2>5. key = doc[k + 1].k /\ type \in {1, 2, 3, 7} /\ pc' = "loop"
      BY <1>2, <2>1
    <2> QED
      BY <1>1, <1>2, <2>3, <2>4, <2>5, LeafDecodes
  <1> QED
    BY <1>7, <1>8

\* read_cstring reads a string.
LEMMA StringDecodes ==
  ASSUME NEW k, Here(k), pc = "string", CstringChar \/ CstringThrows \/ CstringEnd, UNCHANGED doc
  PROVE  \/ Reached(k)' /\ AllRooted'
         \/ Reached(k + 1)' /\ AllRooted' /\ k + 1 \in 0 .. Len(doc)
  <1> DEFINE i == doc[k + 1]
             e == End(doc, k)
             f == End(doc, k + 1)
             m == Len(key)
             n == Len(str)
             t == doc[k + 1].b
  <1>1. UNCHANGED <<doc, data, stack, type, key>>
    BY DEF CstringChar, CstringThrows, CstringEnd
  <1>2. Inside(k) /\ type = 1 /\ key = i.k /\ pos = e + 2 + m + n /\ StartOf(str, t)
        /\ str \in Seq(Byte) /\ data \in Seq(Byte)
    BY DEF Here, Reached, AtString, TypeOK
  <1>3. /\ k < Len(doc) /\ k \in 0 .. Len(doc) - 1 /\ Progress(k)' /\ size' = size /\ Cutoff
        /\ End(doc, k)' = e /\ End(doc, k + 1)' = f
        /\ (doc[k + 1])' = doc[k + 1] /\ (Len(doc))' = Len(doc)
        /\ e \in Nat /\ Len(i.k) \in Nat /\ Len(t) \in Nat /\ i \in AnyItem
        /\ pos <= size /\ pos \in Nat /\ size \in Nat /\ i.t = 1
        /\ UNCHANGED <<obj, stack>> => AllRooted'
        /\ UNCHANGED <<obj, stack, type>> => Inside(k)'
    BY <1>1, <1>2, ValueHere
  <1>4. t \in Seq(Byte) /\ \A j \in 1 .. Len(t) : t[j] # 0
    <2>1. i.b \in Seq(Byte) /\ (i.t = 1 => \A j \in 1 .. Len(i.b) : i.b[j] # 0)
      BY <1>3, ItemFacts
    <2> QED
      BY <1>3, <2>1
  <1>5. /\ m \in Nat /\ n \in Nat
        /\ \A j \in 1 .. Len(t) : e + 2 + m + j <= size => data[e + 2 + m + j] = t[j]
        /\ e + 3 + m + Len(t) <= size => data[e + 3 + m + Len(t)] = 0
        /\ f = e + 3 + m + Len(t)
    <2>1. i.t # 8 /\ i.t = 1 /\ m = Len(i.k)
      BY <1>2, <1>3
    <2>2. n \in Nat
      BY <1>2
    <2> QED
      BY <1>3, <2>1, <2>2, Bytes, ZenonT(30)
  <1>6. /\ n <= Len(t)
        /\ n = Len(t) => str = t
        /\ n < Len(t) => n + 1 \in 1 .. Len(t)
        /\ \A c \in Byte : n < Len(t) /\ c = t[n + 1]
             => StartOf(Append(str, c), t) /\ Len(Append(str, c)) = n + 1
    <2> HIDE DEF t
    <2> QED
      BY <1>2, <1>4, StartGrows
  <1> HIDE DEF i, e, f, m, n, t
  \* the next byte: one more of the string, or its terminator
  <1>7. ASSUME pos < size
        PROVE  /\ n < Len(t) => data[pos + 1] = t[n + 1]
               /\ n = Len(t) => data[pos + 1] = 0
               /\ data[pos + 1] \in Byte
    <2>1. pos + 1 \in 1 .. Len(data) /\ pos + 1 <= size /\ Len(data) = size
      BY <1>3, <1>7 DEF size
    <2>2. data[pos + 1] \in Byte
      BY <1>2, <2>1
    <2>3. pos + 1 = e + 2 + m + (n + 1) /\ (n = Len(t) => pos + 1 = e + 3 + m + Len(t))
      <3>1. pos = e + 2 + m + n /\ e \in Nat /\ m \in Nat /\ n \in Nat /\ Len(t) \in Nat
        BY <1>2, <1>3, <1>5
      <3> QED
        BY <3>1
    <2> QED
      BY <1>5, <1>6, <2>1, <2>2, <2>3
  <1>8. CASE CstringChar
    <2>1. /\ pos < size /\ data[pos + 1] # 0 /\ str' = Append(str, data[pos + 1])
          /\ pos' = pos + 1 /\ pc' = "string" /\ UNCHANGED obj
      BY <1>8 DEF CstringChar, At
    <2>2. n < Len(t)
      BY <1>3, <1>5, <1>6, <1>7, <2>1
    <2>3. StartOf(str', t) /\ Len(str') = n + 1
      BY <1>6, <1>7, <2>1, <2>2
    <2>4. pos' = e + 2 + m + Len(str')
      BY <1>2, <1>3, <1>5, <2>1, <2>3
    <2>5. Inside(k)' /\ AllRooted'
      BY <1>1, <1>3, <2>1
    <2>6. AtString(k)'
      <3>1. StartOf(str, doc[k + 1].b)'
        BY <1>3, <2>3 DEF StartOf, t
      <3>2. (pos = End(doc, k) + 2 + Len(key) + Len(str))'
        BY <1>1, <1>3, <2>4 DEF e, m
      <3>3. (type = 1 /\ key = doc[k + 1].k)'
        BY <1>1, <1>2, <1>3 DEF i
      <3> QED
        BY <2>5, <3>1, <3>2, <3>3 DEF AtString
    <2> QED
      BY <1>3, <2>1, <2>5, <2>6, ReachedAt
  <1>9. CASE CstringThrows
    <2>1. pos >= size /\ pc' = "thrown" /\ UNCHANGED obj
      BY <1>9 DEF CstringThrows
    <2>2. e < size /\ size < f
      <3>1. pos = size
        BY <1>3, <2>1
      <3> QED
        BY <1>2, <1>3, <1>5, <1>6, <3>1
    <2>3. AtThrown(k)'
      BY <1>3, <2>2 DEF AtThrown, e, f
    <2> QED
      BY <1>1, <1>3, <2>1, <2>3, ReachedAt
  <1>10. CASE CstringEnd
    <2>1. /\ pos < size /\ data[pos + 1] = 0 /\ pos' = pos + 1 /\ pc' = "loop"
          /\ obj' = Assign(obj, key, Primitive("string", str), {})
      BY <1>10 DEF CstringEnd, At
    <2>2. ~(n < Len(t))
      BY <1>3, <1>4, <1>6, <1>7, <2>1
    <2>3. n = Len(t) /\ str = t
      BY <1>3, <1>5, <1>6, <2>2
    <2>4. pos' = f /\ f <= size
      BY <1>2, <1>3, <1>5, <2>1, <2>3
    <2>5. KindOf[type] = "string"
      BY <1>2 DEF KindOf
    <2>6. obj' = Assign(obj, key, Primitive(KindOf[type], doc[k + 1].b), {})
      BY <2>1, <2>3, <2>5 DEF t
    <2>7. pos' = End(doc, k + 1) /\ End(doc, k + 1) <= size /\ key = doc[k + 1].k
          /\ type \in {1, 2, 3, 7} /\ pc' = "loop"
      BY <1>2, <2>1, <2>4 DEF f, i
    <2> QED
      BY <1>1, <1>2, <2>6, <2>7, LeafDecodes
  <1> QED
    BY <1>8, <1>9, <1>10

\* case 0x00: the recursive call.
LEMMA NestedDecodes ==
  ASSUME NEW k, Here(k), NestedObject, UNCHANGED doc
  PROVE  Reached(k + 1)' /\ AllRooted' /\ k + 1 \in 0 .. Len(doc)
  <1> DEFINE i == doc[k + 1]
             c == [obj |-> obj, key |-> key]
             v == Primitive("object", << >>)
  <1>1. /\ UNCHANGED <<doc, data, type, key, pos>> /\ pc = "value" /\ type = 0
        /\ stack' = Append(stack, c) /\ obj' = {} /\ pc' = "loop"
    BY DEF NestedObject
  <1>2. Inside(k) /\ key = i.k /\ pos = End(doc, k) + 2 + Len(key)
    BY <1>1 DEF Here, Reached, AtValue
  <1>3. /\ k \in 0 .. Len(doc) - 1 /\ Cutoff /\ Progress(k)
        /\ End(doc, k) \in Nat /\ Len(i.k) \in Nat /\ Len(i.b) \in Nat /\ i \in AnyItem
        /\ pos <= size /\ pos \in Nat /\ size \in Nat /\ i.t = 0
    BY <1>1, <1>2, ValueHere
  <1>4. i.b = << >> /\ Len(i.b) = 0
    <2>1. i.b = << >>
      BY <1>3, ItemFacts
    <2> QED
      BY <2>1
  <1>5. pos = End(doc, k + 1)
    <2>1. End(doc, k + 1) = End(doc, k) + 2 + Len(i.k) + Len(i.b)
      <3>1. i.t # 8 /\ i.t # 1
        BY <1>3
      <3> QED
        BY <1>3, <3>1, Bytes
    <2> DEFINE e == End(doc, k)
               f == End(doc, k + 1)
               m == Len(i.k)
    <2>2. f = e + 2 + m + 0 /\ pos = e + 2 + m /\ e \in Nat /\ m \in Nat
      BY <1>2, <1>3, <1>4, <2>1
    <2> HIDE DEF e, f, m
    <2>3. pos = f
      BY <2>2
    <2> QED
      BY <2>3 DEF f
  <1>6. /\ After(First(k + 1)) = Read(After(First(k)), i)
        /\ Opened(k) \in Nat /\ Closed(k) \in Nat
        /\ Opened(k + 1) = Opened(k) + 1 /\ Closed(k + 1) = Closed(k) /\ Progress(k + 1)
    <2>1. i.t \in DOMAIN KindOf \cup {8} /\ i.t # 8 /\ End(doc, k + 1) <= size
      BY <1>3, <1>5 DEF KindOf
    <2>2. /\ Opened(k) \in Nat /\ Closed(k) \in Nat
          /\ Opened(k + 1) = Opened(k) + (IF i.t = 0 THEN 1 ELSE 0)
          /\ Closed(k + 1) = Closed(k) + (IF i.t = 8 THEN 1 ELSE 0)
      BY <1>3, Advance
    <2>3. Opened(k + 1) = Opened(k) + 1 /\ Closed(k + 1) = Closed(k)
      BY <1>3, <2>1, <2>2
    <2> QED
      BY <1>3, <2>1, <2>2, <2>3, Advance
  <1>7. /\ obj \in Object /\ stack \in Seq(Caller) /\ key \in Seq(Byte) /\ AllRooted
        /\ c \in Caller /\ c.obj = obj /\ c.key = key
    BY DEF Here, TypeOK, Caller
  <1>8. /\ After(First(k + 1)).at = Append(After(First(k)).at, key)
        /\ After(First(k + 1)).nodes
             = Put(After(First(k)).nodes, Append(After(First(k)).at, key), v)
    <2>1. i.t # 8 /\ i.t = 0 /\ i.k = key
      BY <1>2, <1>3
    <2>2. v = [kind |-> KindOf[i.t], bytes |-> i.b]
      BY <1>4, <2>1 DEF Primitive, KindOf
    <2> HIDE DEF i, v
    <2>3. Read(After(First(k)), i)
            = [at |-> Append(After(First(k)).at, key),
               nodes |-> Put(After(First(k)).nodes, Append(After(First(k)).at, key), v)]
      BY <2>1, <2>2 DEF Read
    <2> QED
      BY <1>6, <2>3
  <1>9. /\ Whole(Append(stack, c), {}) = Put(Whole(stack, obj), Append(Keys(stack), key), v)
        /\ Keys(Append(stack, c)) = Append(Keys(stack), key)
        /\ Len(Append(stack, c)) = Len(stack) + 1
    <2>1. Rooted(c.obj) /\ \A j \in 1 .. Len(stack) : Rooted(stack[j].obj)
      BY <1>7 DEF AllRooted
    <2> HIDE DEF c
    <2>2. Whole(Append(stack, c), {}) = Put(Whole(stack, c.obj), Append(Keys(stack), c.key), v)
      BY <1>7, <2>1, BinaryTypes, WholeOpen
    <2>3. Keys(Append(stack, c)) = Append(Keys(stack), c.key)
      BY <1>7, BinaryTypes, KeysFacts
    <2>4. Len(Append(stack, c)) = Len(stack) + 1
      BY <1>7
    <2> QED
      BY <1>7, <2>2, <2>3, <2>4
  <1>10. Built(k) /\ InStep(k)
    BY <1>2 DEF Inside
  <1> HIDE DEF c, v, i
  <1>11. Whole(stack', obj') = After(First(k + 1)).nodes
    BY <1>1, <1>8, <1>9, <1>10 DEF Built, InStep
  <1>12. Keys(stack') = After(First(k + 1)).at /\ Len(stack') = Opened(k + 1) - Closed(k + 1)
    <2>1. Len(stack') = Len(stack) + 1 /\ Len(stack) = Opened(k) - Closed(k)
      BY <1>1, <1>9, <1>10 DEF InStep
    <2>2. Len(stack') = Opened(k + 1) - Closed(k + 1)
      BY <1>6, <2>1
    <2> QED
      BY <1>1, <1>8, <1>9, <1>10, <2>2 DEF InStep
  <1>13. Progress(k + 1)' /\ Built(k + 1)' /\ InStep(k + 1)' /\ End(doc, k + 1)' = End(doc, k + 1)
    BY <1>1, <1>6, <1>11, <1>12, Frame
  <1>14. AtLoop(k + 1)'
    BY <1>1, <1>5, <1>13 DEF AtLoop
  <1>15. Reached(k + 1)'
    BY <1>1, <1>13, <1>14, ReachedAt
  <1>16. AllRooted'
    <2> DEFINE q == Append(stack, c)
    <2>1. /\ Len(q) = Len(stack) + 1 /\ q[Len(stack) + 1] = c /\ Len(stack) \in Nat
          /\ (\A j \in 1 .. Len(stack) : q[j] = stack[j])
          /\ \A j \in 1 .. Len(stack) + 1 : j \in 1 .. Len(stack) \/ j = Len(stack) + 1
      BY <1>7, Appended
    <2>2. Rooted(c.obj) /\ \A j \in 1 .. Len(stack) : Rooted(stack[j].obj)
      BY <1>7 DEF AllRooted
    <2> HIDE DEF q
    <2>3. \A j \in 1 .. Len(q) : Rooted(q[j].obj)
      BY <2>1, <2>2
    <2>4. Rooted({})
      BY DEF Rooted
    <2>5. stack' = q /\ obj' = {}
      BY <1>1 DEF q
    <2> QED
      BY <2>3, <2>4, <2>5 DEF AllRooted
  <1>17. k + 1 \in 0 .. Len(doc)
    BY <1>3 DEF Cutoff
  <1> QED
    BY <1>15, <1>16, <1>17

\* What After returns has its two fields.
LEMMA AfterDomain ==
  ASSUME NEW S, NEW q \in Seq(S)
  PROVE  DOMAIN After(q) = {"at", "nodes"}
  <1> DEFINE T == {r \in Seq(S) : DOMAIN After(r) = {"at", "nodes"}}
  <1>1. << >> \in T
    <2>1. After(<< >>) = [at |-> << >>, nodes |-> {}]
      BY AfterFacts
    <2>2. DOMAIN After(<< >>) = {"at", "nodes"}
      BY <2>1
    <2> QED
      BY <2>2
  <1>2. ASSUME NEW r \in Seq(S), NEW x \in S, r \in T PROVE Append(r, x) \in T
    <2>1. After(Append(r, x)) = Read(After(r), x)
      BY AfterFacts
    <2>2. DOMAIN Read(After(r), x) = {"at", "nodes"}
      <3> DEFINE a == After(r)
      <3>1. DOMAIN a = {"at", "nodes"}
        BY <1>2
      <3> HIDE DEF a
      <3>2. DOMAIN [a EXCEPT !.at = Front(@)] = {"at", "nodes"}
        BY <3>1
      <3>3. DOMAIN Read(a, x) = {"at", "nodes"}
        BY <3>2 DEF Read
      <3> QED
        BY <3>3 DEF a
    <2> QED
      BY <2>1, <2>2
  <1>3. Seq(S) \subseteq T
    <2> HIDE DEF T
    <2> QED
      BY <1>1, <1>2, SeqSetInduction
  <1> QED
    BY <1>3

\* parse_object returns.
LEMMA ReturnDecodes ==
  ASSUME NEW k, Here(k), Return, UNCHANGED doc
  PROVE  \/ Reached(k)' /\ AllRooted'
         \/ Reached(k + 1)' /\ AllRooted' /\ k + 1 \in 0 .. Len(doc)
  <1>1. /\ UNCHANGED <<doc, data, pos>> /\ pc = "return"
    BY DEF Return
  <1>2. /\ Progress(k) /\ Cutoff /\ AtReturn(k) /\ AllRooted /\ k \in 0 .. Len(doc)
        /\ pos \in Nat /\ pos <= size /\ size \in Nat
        /\ obj \in Object /\ stack \in Seq(Caller) /\ Len(stack) \in Nat
    BY <1>1 DEF Here, Reached, TypeOK, InBounds, size
  <1>3. /\ Progress(k)' /\ size' = size
        /\ End(doc, k)' = End(doc, k) /\ End(doc, k + 1)' = End(doc, k + 1)
        /\ (doc[k + 1])' = doc[k + 1] /\ (Len(doc))' = Len(doc)
        /\ UNCHANGED <<stack, obj>> => (Built(k) => Built(k)')
    BY <1>1, <1>2, Frame
  <1>4. Built(k)
    BY <1>2 DEF AtReturn
  <1>5. Len(doc) \in Nat
    BY <1>2 DEF Cutoff
  \* BIN_END of an open object, or of the root
  <1>6. ASSUME k < Len(doc), doc[k + 1].t = 8, pos = End(doc, k + 1), InStep(k)
        PROVE  /\ k \in 0 .. Len(doc) - 1 /\ k + 1 \in 0 .. Len(doc)
               /\ After(First(k + 1)).nodes = After(First(k)).nodes
               /\ After(First(k + 1)).at = Front(After(First(k)).at)
               /\ Opened(k) \in Nat /\ Closed(k) \in Nat
               /\ Opened(k + 1) = Opened(k) /\ Closed(k + 1) = Closed(k) + 1
               /\ Len(stack) = Opened(k) - Closed(k)
               /\ stack # << >> => Progress(k + 1)
    <2>1. k \in 0 .. Len(doc) - 1 /\ k + 1 \in 0 .. Len(doc)
      BY <1>2, <1>5, <1>6
    <2>2. /\ After(First(k + 1)) = Read(After(First(k)), doc[k + 1])
          /\ Opened(k) \in Nat /\ Closed(k) \in Nat
          /\ Opened(k + 1) = Opened(k) + (IF doc[k + 1].t = 0 THEN 1 ELSE 0)
          /\ Closed(k + 1) = Closed(k) + (IF doc[k + 1].t = 8 THEN 1 ELSE 0)
      BY <1>2, <2>1, Advance
    <2>3. Opened(k + 1) = Opened(k) /\ Closed(k + 1) = Closed(k) + 1
      BY <1>6, <2>2
    <2>4. Len(stack) = Opened(k) - Closed(k)
      BY <1>6 DEF InStep
    <2>5. Progress(k + 1) \/ stack = << >>
      <3>1. stack # << >> => Closed(k) < Opened(k)
        <4>1. stack # << >> => Len(stack) # 0
          BY <1>2
        <4> QED
          BY <1>2, <2>2, <2>4, <4>1
      <3>2. doc[k + 1].t \in DOMAIN KindOf \cup {8} /\ End(doc, k + 1) <= size
        BY <1>2, <1>6
      <3> QED
        BY <1>2, <2>1, <3>1, <3>2, Advance
    <2>6. /\ After(First(k + 1)).nodes = After(First(k)).nodes
          /\ After(First(k + 1)).at = Front(After(First(k)).at)
      <3> DEFINE a == After(First(k))
      <3>1. a.nodes = [a EXCEPT !.at = Front(@)].nodes
            /\ Front(a.at) = [a EXCEPT !.at = Front(@)].at
        <4>1. DOMAIN a = {"at", "nodes"}
          <5>1. First(k) \in Seq(AnyItem)
            BY <1>2 DEF First, Cutoff
          <5> QED
            BY <5>1, AfterDomain
        <4> HIDE DEF a
        <4> QED
          BY <4>1
      <3>2. Read(a, doc[k + 1]) = [a EXCEPT !.at = Front(@)]
        BY <1>6 DEF Read
      <3> QED
        BY <2>2, <3>1, <3>2
    <2> QED
      BY <2>1, <2>2, <2>3, <2>4, <2>5, <2>6
  <1>7. CASE stack = << >>
    <2>1. pc' = "done" /\ UNCHANGED <<obj, stack>>
      BY <1>7 DEF Return
    <2>2. obj = After(First(k)).nodes
      BY <1>2, <1>4, <1>7, BinaryTypes, WholeRoot DEF Built
    <2>5. AllRooted'
      BY <1>2, <2>1 DEF AllRooted
    <2>3. CASE pos = End(doc, k) /\ pos = size
      <3>1. AtDone(k)'
        <4>1. (obj = After(First(k)).nodes)'
          BY <1>1, <2>1, <2>2 DEF First
        <4>2. (End(doc, k) = size)'
          BY <1>3, <2>3
        <4> QED
          BY <4>1, <4>2 DEF AtDone
      <3> QED
        BY <1>3, <2>1, <2>5, <3>1, ReachedAt
    <2>4. CASE k < Len(doc) /\ doc[k + 1].t = 8 /\ pos = End(doc, k + 1) /\ InStep(k)
      <3>1. /\ k \in 0 .. Len(doc) - 1 /\ Opened(k) \in Nat /\ Closed(k) \in Nat
            /\ Opened(k + 1) = Opened(k) /\ Closed(k + 1) = Closed(k) + 1
            /\ Len(stack) = Opened(k) - Closed(k)
        BY <1>6, <2>4
      <3>2. Closed(k + 1) = Opened(k + 1) + 1
        <4>1. Len(stack) = 0
          BY <1>7
        <4> QED
          BY <3>1, <4>1
      <3>3. \A j \in 1 .. k : Closed(j) <= Opened(j)
        BY <1>2, <3>1 DEF Progress
      <3>4. EndsAt(doc, k + 1)
        <4>1. (k + 1) - 1 = k
          BY <3>1
        <4> QED
          BY <2>4, <3>2, <3>3, <4>1 DEF EndsAt, Closed, Opened, First
      <3>5. AtDone(k)'
        <4>1. End(doc, k + 1) <= size
          BY <1>2, <2>4
        <4> QED
          <5>1. (obj = After(First(k)).nodes)'
            BY <1>1, <2>1, <2>2 DEF First
          <5>2. (k < Len(doc) /\ End(doc, k + 1) <= size)'
            BY <1>3, <2>4, <4>1
          <5>3. EndsAt(doc, k + 1)'
            BY <1>1, <3>4 DEF EndsAt
          <5> QED
            BY <5>1, <5>2, <5>3 DEF AtDone
      <3> QED
        BY <1>3, <2>1, <2>5, <3>5, ReachedAt
    <2> QED
      BY <1>2, <2>3, <2>4 DEF AtReturn
  <1>8. CASE stack # << >>
    <2> DEFINE s == SubSeq(stack, 1, Len(stack) - 1)
               c == stack[Len(stack)]
    <2>1. /\ pc' = "loop" /\ stack' = s
          /\ obj' = Assign(c.obj, c.key, Primitive("object", << >>), obj)
      BY <1>8 DEF Return
    <2>2. /\ s \in Seq(Caller) /\ Len(s) = Len(stack) - 1 /\ c \in Caller
          /\ stack = Append(s, c) /\ \A j \in 1 .. Len(s) : s[j] = stack[j] /\ j \in 1 .. Len(stack)
      <3>1. Len(stack) \in Nat \ {0} /\ c \in Caller
        BY <1>2, <1>8
      <3>2. s \in Seq(Caller) /\ Len(s) = Len(stack) - 1 /\ \A j \in 1 .. Len(s) : s[j] = stack[j] /\ j \in 1 .. Len(stack)
        <4> DEFINE l == Len(stack) - 1
        <4>1. /\ stack \in Seq(Caller) /\ l \in Nat /\ l <= Len(stack) /\ 1 <= l + 1
              /\ 1 \in Nat \ {0} /\ l - 1 + 1 = l /\ Len(stack) = l + 1
          BY <1>2, <3>1
        <4>2. s = SubSeq(stack, 1, l)
          OBVIOUS
        <4> HIDE DEF l, s
        <4>3. /\ SubSeq(stack, 1, l) \in Seq(Caller)
              /\ Len(SubSeq(stack, 1, l)) = l - 1 + 1
              /\ \A j \in 1 .. l - 1 + 1 : SubSeq(stack, 1, l)[j] = stack[1 + j - 1]
          BY <4>1, Cut
        <4>4. \A j \in 1 .. l : s[j] = stack[j] /\ j \in 1 .. Len(stack)
          <5>1. \A j \in 1 .. l : 1 + j - 1 = j /\ j \in 1 .. Len(stack)
            BY <4>1
          <5> QED
            BY <4>1, <4>2, <4>3, <5>1
        <4> QED
          BY <4>1, <4>2, <4>3, <4>4 DEF l
      <3> HIDE DEF s, c
      <3>3. /\ Append(s, c) \in Seq(Caller) /\ Len(Append(s, c)) = Len(s) + 1
            /\ (\A j \in 1 .. Len(s) : Append(s, c)[j] = s[j]) /\ Append(s, c)[Len(s) + 1] = c
            /\ \A j \in 1 .. Len(s) + 1 : j \in 1 .. Len(s) \/ j = Len(s) + 1
        BY <3>1, <3>2, Appended
      <3>4. Len(s) + 1 = Len(stack)
        BY <3>1, <3>2
      <3>5. \A j \in 1 .. Len(stack) : stack[j] = Append(s, c)[j]
        BY <3>2, <3>3, <3>4 DEF c
      <3>6. stack = Append(s, c)
        BY <1>2, <3>3, <3>4, <3>5, SeqEqual
      <3> QED
        BY <3>1, <3>2, <3>6
    <2> HIDE DEF s, c
    <2>3. Whole(stack', obj') = After(First(k)).nodes
      <3>1. Whole(s, Assign(c.obj, c.key, Primitive("object", << >>), obj)) = Whole(Append(s, c), obj)
        BY <1>2, <2>2, BinaryTypes, WholeReturn
      <3> QED
        BY <1>4, <2>1, <2>2, <3>1 DEF Built
    <2>4. AllRooted'
      <3>1. Rooted(c.obj) /\ c.obj \in Object /\ c.key \in Seq(Byte)
        <4>1. Len(stack) \in 1 .. Len(stack)
          BY <1>2, <1>8
        <4> QED
          BY <1>2, <2>2, <4>1 DEF AllRooted, c, Caller
      <3>2. Rooted(obj')
        BY <1>2, <2>1, <3>1, BinaryTypes, AssignRooted
      <3>3. \A j \in 1 .. Len(s) : Rooted(s[j].obj)
        BY <1>2, <2>2 DEF AllRooted
      <3> QED
        BY <2>1, <3>2, <3>3 DEF AllRooted
    <2>5. CASE pos = End(doc, k) /\ pos = size
      <3>1. Built(k)'
        BY <1>1, <2>3, Frame
      <3>2. AtLoop(k)'
        <4>1. (pos = End(doc, k) /\ pos = size)'
          BY <1>1, <1>3, <2>5
        <4> QED
          BY <3>1, <4>1 DEF AtLoop
      <3>3. pc' = "loop" /\ Progress(k)'
        BY <1>3, <2>1
      <3> QED
        BY <2>4, <3>2, <3>3, ReachedAt
    <2>6. CASE k < Len(doc) /\ doc[k + 1].t = 8 /\ pos = End(doc, k + 1) /\ InStep(k)
      <3>1. /\ k + 1 \in 0 .. Len(doc)
            /\ After(First(k + 1)).nodes = After(First(k)).nodes
            /\ After(First(k + 1)).at = Front(After(First(k)).at)
            /\ Opened(k) \in Nat /\ Closed(k) \in Nat
            /\ Opened(k + 1) = Opened(k) /\ Closed(k + 1) = Closed(k) + 1
            /\ Len(stack) = Opened(k) - Closed(k)
            /\ Progress(k + 1)
        BY <1>6, <1>8, <2>6
      <3>2. Len(stack') = Opened(k + 1) - Closed(k + 1)
        BY <1>2, <2>1, <2>2, <3>1
      <3>3. Keys(stack') = After(First(k + 1)).at
        <4>1. Keys(stack) = Append(Keys(s), c.key) /\ Keys(s) \in Seq(Seq(Byte)) /\ c.key \in Seq(Byte)
          <5>1. c.key \in Seq(Byte)
            BY <2>2 DEF Caller
          <5> QED
            BY <2>2, <5>1, BinaryTypes, KeysFacts
        <4>2. Front(Append(Keys(s), c.key)) = Keys(s)
          BY <4>1, FrontAppend
        <4>3. Keys(stack) = After(First(k)).at
          BY <2>6 DEF InStep
        <4> QED
          BY <2>1, <3>1, <4>1, <4>2, <4>3
      <3>4. Progress(k + 1)' /\ Built(k + 1)' /\ End(doc, k + 1)' = End(doc, k + 1) /\ InStep(k + 1)'
        BY <1>1, <2>3, <3>1, <3>2, <3>3, Frame
      <3>5. AtLoop(k + 1)'
        BY <1>1, <2>6, <3>4 DEF AtLoop
      <3> QED
        BY <2>1, <2>4, <3>1, <3>4, <3>5, ReachedAt
    <2> QED
      BY <1>2, <2>5, <2>6 DEF AtReturn
  <1> QED
    BY <1>7, <1>8

-----------------------------------------------------------------------------
(* It says what parse_binary returns.                                      *)

\* The first items of the document.
LEMMA FirstFacts ==
  ASSUME Cutoff, NEW k \in 0 .. Len(doc)
  PROVE  /\ First(k) \in Seq(AnyItem) /\ Len(First(k)) = k
         /\ \A i \in 1 .. k : First(k)[i] = doc[i]
         /\ Opened(k) \in Nat /\ Closed(k) \in Nat
  <1>1. doc \in Seq(AnyItem) /\ Len(doc) \in Nat /\ k \in Nat /\ k <= Len(doc) /\ 1 <= k + 1
    BY DEF Cutoff
  <1>2. /\ First(k) \in Seq(AnyItem) /\ Len(First(k)) = k - 1 + 1
        /\ \A i \in 1 .. k - 1 + 1 : First(k)[i] = doc[1 + i - 1]
    BY <1>1, Cut DEF First
  <1>3. First(k) \in Seq(AnyItem) /\ Len(First(k)) = k /\ \A i \in 1 .. k : First(k)[i] = doc[i]
    BY <1>1, <1>2
  <1>4. Opened(k) \in Nat
    BY <1>3, CountFacts DEF Opened
  <1>5. Closed(k) \in Nat
    BY <1>3, CountFacts DEF Closed
  <1> QED
    BY <1>3, <1>4, <1>5

\* The items that have been read do not close the root; the one that does is
\* the only one.
LEMMA RootCloses ==
  ASSUME Cutoff, NEW k \in 0 .. Len(doc), Progress(k)
  PROVE  /\ \A c \in 1 .. k : ~EndsAt(doc, c)
         /\ k < Len(doc) /\ EndsAt(doc, k + 1)
              => \A c \in 1 .. Len(doc) : EndsAt(doc, c) => c = k + 1
  <1>0. Len(doc) \in Nat
    BY DEF Cutoff
  <1>1. \A c \in 0 .. Len(doc) :
          /\ EndsAt(doc, c) => Closed(c) = Opened(c) + 1
          /\ EndsAt(doc, c) => \A i \in 1 .. c - 1 : Closed(i) <= Opened(i)
    BY DEF EndsAt, Closed, Opened, First
  <1>2. \A c \in 0 .. Len(doc) : Opened(c) \in Nat /\ Closed(c) \in Nat
    BY FirstFacts
  <1>3. ASSUME NEW c \in 1 .. k PROVE ~EndsAt(doc, c)
    <2>1. c \in 0 .. Len(doc) /\ c \in 0 .. k
      BY <1>0
    <2>2. Closed(c) <= Opened(c)
      BY <2>1 DEF Progress
    <2> QED
      BY <1>1, <1>2, <2>1, <2>2
  <1>4. ASSUME k < Len(doc), EndsAt(doc, k + 1), NEW c \in 1 .. Len(doc), EndsAt(doc, c)
        PROVE  c = k + 1
    <2>1. ~(c \in 1 .. k)
      BY <1>3, <1>4
    <2>2. ~(k + 1 \in 1 .. c - 1)
      <3>1. k + 1 \in 0 .. Len(doc) /\ c \in 0 .. Len(doc)
        BY <1>0, <1>4
      <3>2. Closed(k + 1) = Opened(k + 1) + 1
        BY <1>1, <1>4, <3>1
      <3> QED
        BY <1>1, <1>2, <1>4, <3>1, <3>2
    <2> QED
      BY <1>0, <2>1, <2>2
  <1> QED
    BY <1>3, <1>4

\* The items that are in the buffer as a whole, and where it is cut off.
LEMMA WhereCut ==
  ASSUME Cutoff, NEW k \in 0 .. Len(doc), NEW j \in 0 .. Len(doc)
  PROVE  /\ End(doc, k) \in Nat /\ size \in Nat
         /\ End(doc, k) = size => (End(doc, j) <= size <=> j <= k) /\ (End(doc, j) = size <=> j = k)
         /\ k < Len(doc) /\ End(doc, k) < size /\ size < End(doc, k + 1)
              => (End(doc, j) <= size <=> j <= k) /\ End(doc, j) # size
         /\ End(doc, k) < size /\ End(doc, j) = size => k < j
  <1>1. doc \in Seq(AnyItem) /\ Len(doc) \in Nat /\ data \in Seq(Byte)
    <2>1. doc \in Seq(AnyItem)
      BY DEF Cutoff
    <2>2. EncodeAll(doc) \in Seq(Byte)
      BY <2>1, EncodeAllFacts
    <2>3. data \in Seq(Byte)
      <3>1. PICK c \in 0 .. Len(EncodeAll(doc)) : data = SubSeq(EncodeAll(doc), 1, c)
        BY DEF Cutoff
      <3> DEFINE all == EncodeAll(doc)
      <3>2. all \in Seq(Byte) /\ c \in Nat /\ c <= Len(all) /\ 1 \in Nat \ {0} /\ data = SubSeq(all, 1, c)
        BY <2>2, <3>1
      <3> HIDE DEF all
      <3> QED
        BY <3>2, Cut
    <2> QED
      BY <2>1, <2>3
  <1>2. size \in Nat
    BY <1>1 DEF size
  <1>3. /\ \A a \in 0 .. Len(doc) : End(doc, a) \in Nat
        /\ \A a, b \in 0 .. Len(doc) : a < b => End(doc, a) < End(doc, b)
    BY <1>1, Ends
  <1>4. k \in Nat /\ j \in Nat /\ (k < Len(doc) => k + 1 \in 0 .. Len(doc))
    BY <1>1
  <1>5. k < Len(doc) /\ k < j => End(doc, k + 1) <= End(doc, j)
    BY <1>1, <1>3, <1>4
  <1>6. (j < k => End(doc, j) < End(doc, k)) /\ (k < j => End(doc, k) < End(doc, j))
    BY <1>3
  <1>7. End(doc, k) \in Nat /\ End(doc, j) \in Nat /\ (k < Len(doc) => End(doc, k + 1) \in Nat)
    BY <1>3, <1>4
  <1>8. j < k \/ j = k \/ k < j
    BY <1>4
  <1>9. End(doc, k) = size => (End(doc, j) <= size <=> j <= k) /\ (End(doc, j) = size <=> j = k)
    BY <1>2, <1>4, <1>6, <1>7, <1>8
  <1>10. k < Len(doc) /\ End(doc, k) < size /\ size < End(doc, k + 1)
           => (End(doc, j) <= size <=> j <= k) /\ End(doc, j) # size
    BY <1>2, <1>4, <1>5, <1>6, <1>7, <1>8
  <1>11. End(doc, k) < size /\ End(doc, j) = size => k < j
    BY <1>2, <1>4, <1>6, <1>7, <1>8
  <1> QED
    BY <1>2, <1>7, <1>9, <1>10, <1>11

\* The invariant says what parse_binary returns or that it throws.
LEMMA DecodeInvMeans ==
  ASSUME DecodeInv
  PROVE  Decodes
  <1> SUFFICES ASSUME product = "package", pc \in {"done", "thrown"}
               PROVE  LET whole == {i \in 0 .. Len(doc) : Len(EncodeAll(SubSeq(doc, 1, i))) <= size}
                          cutAt == {i \in whole : Len(EncodeAll(SubSeq(doc, 1, i))) = size}
                          ends  == {c \in whole \ {0} : EndsAt(doc, c)}
                          read  == IF ends # {} THEN {c - 1 : c \in ends} ELSE cutAt
                      IN  IF \E b \in read : Known(SubSeq(doc, 1, b))
                            THEN pc = "done" /\ \A b \in read : obj = Meaning(SubSeq(doc, 1, b))
                            ELSE pc = "thrown"
    BY DEF Decodes
  <1> DEFINE whole == {i \in 0 .. Len(doc) : Len(EncodeAll(SubSeq(doc, 1, i))) <= size}
             cutAt == {i \in whole : Len(EncodeAll(SubSeq(doc, 1, i))) = size}
             ends  == {c \in whole \ {0} : EndsAt(doc, c)}
             read  == IF ends # {} THEN {c - 1 : c \in ends} ELSE cutAt
  <1>1. PICK k \in 0 .. Len(doc) : Reached(k)
    BY DEF DecodeInv
  <1>2. Cutoff /\ Progress(k) /\ Len(doc) \in Nat
    BY <1>1 DEF DecodeInv, Reached, Cutoff
  <1>3. /\ \A i : i \in whole <=> i \in 0 .. Len(doc) /\ End(doc, i) <= size
        /\ \A i : i \in cutAt <=> i \in whole /\ End(doc, i) = size
        /\ \A c : c \in ends <=> c \in whole /\ c # 0 /\ EndsAt(doc, c)
    BY DEF End
  <1>4. /\ ends # {} => \A b : b \in read <=> \E c \in ends : b = c - 1
        /\ ends = {} => read = cutAt
    OBVIOUS
  <1>5. \A b : Known(SubSeq(doc, 1, b)) = Known(First(b))
               /\ Meaning(SubSeq(doc, 1, b)) = After(First(b)).nodes
    BY DEF First, Meaning
  <1>6. Known(First(k))
    BY <1>2 DEF Progress
  <1> SUFFICES IF \E b \in read : Known(SubSeq(doc, 1, b))
                 THEN pc = "done" /\ \A b \in read : obj = Meaning(SubSeq(doc, 1, b))
                 ELSE pc = "thrown"
    OBVIOUS
  <1> HIDE DEF whole, cutAt, ends, read
  \* what was read ends at the end of the buffer, or with the end of the root
  <1>7. ASSUME pc = "done", read = {k}, obj = After(First(k)).nodes
        PROVE  IF \E b \in read : Known(SubSeq(doc, 1, b))
                 THEN pc = "done" /\ \A b \in read : obj = Meaning(SubSeq(doc, 1, b))
                 ELSE pc = "thrown"
    BY <1>5, <1>6, <1>7
  \* nothing that ends in the buffer is known
  <1>8. ASSUME pc = "thrown", \A b \in read : ~Known(First(b))
        PROVE  IF \E b \in read : Known(SubSeq(doc, 1, b))
                 THEN pc = "done" /\ \A b \in read : obj = Meaning(SubSeq(doc, 1, b))
                 ELSE pc = "thrown"
    BY <1>5, <1>8
  \* the items that are read as a whole do not close the root
  <1>9. ASSUME NEW c \in ends PROVE c \in 1 .. Len(doc) /\ EndsAt(doc, c) /\ ~(c \in 1 .. k) /\ k < c
    <2>1. c \in 1 .. Len(doc) /\ EndsAt(doc, c)
      BY <1>2, <1>3
    <2>2. ~(c \in 1 .. k)
      BY <1>2, <2>1, RootCloses
    <2> QED
      BY <1>2, <2>1, <2>2
  <1>10. CASE pc = "done"
    <2>1. AtDone(k)
      BY <1>1, <1>10 DEF Reached
    <2>2. obj = After(First(k)).nodes
      BY <2>1 DEF AtDone
    <2>3. CASE End(doc, k) = size
      <3>1. \A j \in 0 .. Len(doc) : (End(doc, j) <= size <=> j <= k) /\ (End(doc, j) = size <=> j = k)
        BY <1>2, <2>3, WhereCut
      <3>2. ends = {}
        <4> SUFFICES ASSUME NEW c \in ends PROVE FALSE
          OBVIOUS
        <4>1. c \in 0 .. Len(doc) /\ End(doc, c) <= size
          BY <1>3
        <4>2. c <= k
          BY <3>1, <4>1
        <4> QED
          BY <1>2, <1>9, <4>2
      <3>3. read = {k}
        BY <1>3, <1>4, <3>1, <3>2
      <3> QED
        BY <1>7, <1>10, <2>2, <3>3
    <2>4. CASE k < Len(doc) /\ End(doc, k + 1) <= size /\ EndsAt(doc, k + 1)
      <3>1. ends = {k + 1}
        <4>1. k + 1 \in ends
          <5>1. k + 1 \in 0 .. Len(doc) /\ k + 1 # 0
            BY <1>2, <2>4
          <5> QED
            BY <1>3, <2>4, <5>1
        <4>2. \A c \in ends : c = k + 1
          BY <1>2, <1>9, <2>4, RootCloses
        <4> QED
          BY <4>1, <4>2
      <3>2. read = {k}
        <4>1. (k + 1) - 1 = k
          BY <1>2
        <4> QED
          BY <1>4, <3>1, <4>1
      <3> QED
        BY <1>7, <1>10, <2>2, <3>2
    <2> QED
      BY <2>1, <2>3, <2>4 DEF AtDone
  <1>11. CASE pc = "thrown"
    <2>1. k < Len(doc) /\ End(doc, k) < size
          /\ (size < End(doc, k + 1) \/ doc[k + 1].t \notin DOMAIN KindOf \cup {8})
      BY <1>1, <1>11 DEF Reached, AtThrown
    <2>2. CASE size < End(doc, k + 1)
      <3>1. \A j \in 0 .. Len(doc) : (End(doc, j) <= size <=> j <= k) /\ End(doc, j) # size
        BY <1>2, <2>1, <2>2, WhereCut
      <3>2. ends = {}
        <4> SUFFICES ASSUME NEW c \in ends PROVE FALSE
          OBVIOUS
        <4>1. c \in 0 .. Len(doc) /\ End(doc, c) <= size
          BY <1>3
        <4>2. c <= k
          BY <3>1, <4>1
        <4> QED
          BY <1>2, <1>9, <4>2
      <3>3. read = {}
        BY <1>3, <1>4, <3>1, <3>2
      <3> QED
        BY <1>8, <1>11, <3>3
    <2>3. CASE doc[k + 1].t \notin DOMAIN KindOf \cup {8}
      <3>1. ASSUME NEW b \in read PROVE b \in 0 .. Len(doc) /\ k < b
        <4>1. CASE ends = {}
          <5>1. b \in 0 .. Len(doc) /\ End(doc, b) = size
            BY <1>3, <1>4, <3>1, <4>1
          <5> QED
            BY <1>2, <2>1, <5>1, WhereCut
        <4>2. CASE ends # {}
          <5>1. PICK c \in ends : b = c - 1
            BY <1>4, <3>1, <4>2
          <5>2. c \in 1 .. Len(doc) /\ k < c /\ doc[c].t = 8
            BY <1>9 DEF EndsAt
          <5>3. c # k + 1
            BY <2>3, <5>2
          <5> QED
            BY <1>2, <5>1, <5>2, <5>3
        <4> QED
          BY <4>1, <4>2
      <3>2. ASSUME NEW b \in read PROVE ~Known(First(b))
        <4>1. b \in 0 .. Len(doc) /\ k + 1 \in 1 .. b
          BY <1>2, <3>1
        <4>2. Len(First(b)) = b /\ First(b)[k + 1] = doc[k + 1]
          BY <1>2, <4>1, FirstFacts
        <4> QED
          BY <2>3, <4>1, <4>2 DEF Known
      <3> QED
        BY <1>8, <1>11, <3>2
    <2> QED
      BY <2>1, <2>2, <2>3
  <1> QED
    BY <1>10, <1>11

\* parse_binary with any document of the format, cut off anywhere.
AnyInit == product = "package" /\ Cutoff /\ Init /\ text = << >> /\ Text!Init
AnySpec == AnyInit /\ [][MCNext]_<<product, doc, vars, textVars>>

\* Nothing has been read yet.
LEMMA DecodeInit ==
  ASSUME Cutoff, Init
  PROVE  DecodeInv
  <1>1. doc \in Seq(AnyItem) /\ Len(doc) \in Nat /\ 0 \in 0 .. Len(doc)
    BY DEF Cutoff
  <1>2. End(doc, 0) = 0 /\ size \in Nat /\ First(0) = << >>
    <2>1. First(0) = << >>
      BY <1>1 DEF First
    <2>2. size \in Nat
      BY DEF Init, size
    <2> QED
      BY <1>1, <2>1, <2>2, Ends
  <1>3. Count(<< >>, 0) = 0 /\ Count(<< >>, 8) = 0
    BY CountFacts
  <1>4. Opened(0) = 0 /\ Closed(0) = 0
    BY <1>2, <1>3 DEF Opened, Closed
  <1>5. Progress(0)
    <2>1. Known(First(0))
      <3>1. 1 .. Len(<< >>) = {}
        OBVIOUS
      <3> QED
        BY <1>2, <3>1 DEF Known
    <2>2. \A i \in 0 .. 0 : Closed(i) <= Opened(i)
      BY <1>4
    <2> QED
      BY <1>1, <1>2, <2>1, <2>2 DEF Progress
  <1>6. After(First(0)) = [at |-> << >>, nodes |-> {}]
    BY <1>2, AfterFacts
  <1>7. Whole(<< >>, {}) = {} /\ Keys(<< >>) = << >>
    <2>1. {} \in Object
      BY DEF Object
    <2>2. Keys(<< >>) = << >>
      BY DEF Keys
    <2> QED
      BY <2>1, <2>2, BinaryTypes, WholeRoot
  <1>8. pc = "loop" /\ stack = << >> /\ obj = {} /\ pos = 0
    BY DEF Init
  <1>9. Built(0) /\ InStep(0)
    <2>1. After(First(0)).at = << >> /\ After(First(0)).nodes = {}
      BY <1>6
    <2>2. Len(stack) = Opened(0) - Closed(0)
      <3>1. Len(<< >>) = 0 /\ 0 - 0 = 0
        OBVIOUS
      <3> QED
        BY <1>4, <1>8, <3>1
    <2> QED
      BY <1>7, <1>8, <2>1, <2>2 DEF Built, InStep
  <1>10. Reached(0)
    BY <1>2, <1>5, <1>8, <1>9 DEF Reached, AtLoop
  <1>11. AllRooted
    BY <1>8 DEF AllRooted, Rooted
  <1> QED
    BY <1>1, <1>10, <1>11 DEF DecodeInv

\* Every step of the parser keeps the invariant.
LEMMA DecodeStep ==
  ASSUME IInv, DecodeInv, Next, UNCHANGED doc
  PROVE  DecodeInv'
  <1>1. PICK k \in 0 .. Len(doc) : Reached(k)
    BY DEF DecodeInv
  <1>2. Here(k)
    BY <1>1 DEF Here, IInv, DecodeInv
  <1>3. UNCHANGED data
    BY DEF Next, EndOfBuffer, ReadType, CstringChar, CstringThrows, CstringEnd, NestedObject,
           StringValue, Int32Value, FloatValue, UInt64Value, ReadNumber, UnknownType, Return
  <1>4. SUFFICES \/ Reached(k)' /\ AllRooted'
                 \/ Reached(k + 1)' /\ AllRooted' /\ k + 1 \in 0 .. Len(doc)
    <2>1. Cutoff'
      BY <1>3, Frame DEF DecodeInv
    <2>2. (Len(doc))' = Len(doc)
      OBVIOUS
    <2> QED
      BY <2>1, <2>2 DEF DecodeInv
  <1>5. CASE EndOfBuffer \/ ReadType
    BY <1>2, <1>5, LoopDecodes
  <1>6. CASE CstringChar \/ CstringThrows \/ CstringEnd
    <2>1. pc = "key" \/ pc = "string"
      BY <1>6 DEF CstringChar, CstringThrows, CstringEnd
    <2>2. CASE pc = "key"
      BY <1>2, <1>6, <2>2, KeyDecodes
    <2>3. CASE pc = "string"
      BY <1>2, <1>6, <2>3, StringDecodes
    <2> QED
      BY <2>1, <2>2, <2>3
  <1>7. CASE NestedObject
    BY <1>2, <1>7, NestedDecodes
  <1>8. CASE StringValue \/ UnknownType
    BY <1>2, <1>8, KindDecodes
  <1>9. CASE Int32Value
    <2>1. type = 2 /\ ReadNumber(KindOf[type], 4)
      BY <1>9 DEF Int32Value, KindOf
    <2> QED
      BY <1>2, <2>1, NumberDecodes
  <1>10. CASE FloatValue
    <2>1. type = 3 /\ ReadNumber(KindOf[type], 4)
      BY <1>10 DEF FloatValue, KindOf
    <2> QED
      BY <1>2, <2>1, NumberDecodes
  <1>11. CASE UInt64Value
    <2>1. type = 7 /\ ReadNumber(KindOf[type], 8)
      BY <1>11 DEF UInt64Value, KindOf
    <2> QED
      BY <1>2, <2>1, NumberDecodes
  <1>12. CASE Return
    BY <1>2, <1>12, ReturnDecodes
  <1> QED
    BY <1>5, <1>6, <1>7, <1>8, <1>9, <1>10, <1>11, <1>12 DEF Next

\* With the text parser at rest, or the binary one.
PackageInv == IInv /\ (product = "package" => DecodeInv)

\* A step of either parser.
LEMMA PackageStep ==
  ASSUME PackageInv, [MCNext]_<<product, doc, vars, textVars>>
  PROVE  PackageInv'
  <1>1. IInv'
    <2>1. [Next]_vars
      BY DEF MCNext, vars
    <2> QED
      BY <2>1, Inductive DEF PackageInv
  <1>2. CASE product = "package" /\ Next /\ UNCHANGED <<product, doc, textVars>>
    <2>1. DecodeInv'
      BY <1>2, DecodeStep DEF PackageInv
    <2> QED
      BY <1>1, <2>1 DEF PackageInv
  <1>3. CASE product = "app" /\ Text!Next /\ UNCHANGED <<product, doc, vars>>
    <2>1. product' # "package"
      BY <1>3
    <2> QED
      BY <1>1, <2>1 DEF PackageInv
  <1>4. CASE UNCHANGED <<product, doc, vars, textVars>>
    <2>1. UNCHANGED <<product, doc, data, pos, pc, obj, type, key, str, stack>>
      BY <1>4 DEF vars
    <2>2. DecodeInv' <=> DecodeInv
      BY <2>1 DEF DecodeInv, Cutoff, AllRooted, Rooted, Reached, Progress, AtLoop, AtReturn,
                  AtKey, AtValue, AtString, AtThrown, AtDone, Inside, Built, InStep, First,
                  Opened, Closed, size, StartOf, EndsAt
    <2> QED
      BY <1>1, <2>1, <2>2 DEF PackageInv
  <1> QED
    BY <1>2, <1>3, <1>4 DEF MCNext

\* It is what Decodes needs.
LEMMA PackageMeans == PackageInv => Decodes
  <1>1. product # "package" => Decodes
    BY DEF Decodes
  <1> QED
    BY <1>1, DecodeInvMeans DEF PackageInv

\* parse_binary decodes every document, of any length, nesting, keys and values
\* and with any type bytes, cut off at any byte: a document that is closed, or
\* that ends between two items, yields the tree it means; one that is cut off
\* within an item, or that has an entry of an unknown type, throws.
THEOREM DecodesAny == AnySpec => []Decodes
  <1>1. AnyInit => PackageInv
    BY Initially, DecodeInit DEF AnyInit, PackageInv
  <1>2. PackageInv /\ [MCNext]_<<product, doc, vars, textVars>> => PackageInv'
    BY PackageStep
  <1> QED
    BY <1>1, <1>2, PackageMeans, PTL DEF AnySpec

\* The small documents that TLC reads are such documents.
LEMMA SmallDocuments ==
  ASSUME doc \in Documents, data \in Cuts(doc)
  PROVE  Cutoff
  <1>1. Item \subseteq AnyItem
    <2>1. << >> \in Cstring /\ <<8>> \in Cstring /\ <<1>> \in Cstring
      BY DEF Cstring, Byte
    <2>2. /\ <<0, 8, 0, 0>> \in Seq(Byte) /\ Len(<<0, 8, 0, 0>>) = 4
          /\ <<8, 0, 0, 8>> \in Seq(Byte) /\ Len(<<8, 0, 0, 8>>) = 4
      BY DEF Byte
    <2>3. /\ <<0, 0, 8, 8, 0, 0, 1, 0>> \in Seq(Byte) /\ Len(<<0, 0, 8, 8, 0, 0, 1, 0>>) = 8
      BY DEF Byte
    <2>4. /\ << >> \in Seq(Byte) /\ <<1>> \in Seq(Byte)
          /\ 0 \in Byte /\ 1 \in Byte /\ 2 \in Byte /\ 3 \in Byte /\ 7 \in Byte /\ 8 \in Byte /\ 255 \in Byte
      BY DEF Byte
    <2> SUFFICES ASSUME NEW i \in Item PROVE i \in AnyItem
      OBVIOUS
    <2>5. i \in [t : Byte, k : Cstring, b : Seq(Byte)]
      <3> DEFINE All == [t : Byte, k : Cstring, b : Seq(Byte)]
      <3>1. \A t \in Byte, k \in Cstring, b \in Seq(Byte) : [t |-> t, k |-> k, b |-> b] \in All
        OBVIOUS
      <3>2. K1 \in Cstring /\ K2 \in Cstring
        BY <2>1 DEF K1, K2
      <3> HIDE DEF All
      <3>3. /\ [t |-> 0, k |-> K1, b |-> << >>] \in All /\ [t |-> 0, k |-> K2, b |-> << >>] \in All
            /\ [t |-> 1, k |-> K1, b |-> <<1>>] \in All /\ [t |-> 255, k |-> K2, b |-> << >>] \in All
            /\ [t |-> 8, k |-> << >>, b |-> << >>] \in All
        BY <2>1, <2>4, <3>1, <3>2
      <3>4. /\ [t |-> 2, k |-> K2, b |-> <<0, 8, 0, 0>>] \in All
            /\ [t |-> 3, k |-> K1, b |-> <<8, 0, 0, 8>>] \in All
        BY <2>2, <2>4, <3>1, <3>2
      <3>5. [t |-> 7, k |-> K2, b |-> <<0, 0, 8, 8, 0, 0, 1, 0>>] \in All
        BY <2>3, <2>4, <3>1, <3>2
      <3>6. i \in All
        BY <3>3, <3>4, <3>5, ZenonT(30) DEF Item
      <3> QED
        BY <3>6 DEF All
    <2>6. i.t = 0 => i.b = << >>
      BY DEF Item
    <2>7. i.t = 1 => i.b \in Cstring
      BY <2>1 DEF Item
    <2>8. i.t \in {2, 3} => Len(i.b) = 4
      BY <2>2 DEF Item
    <2>9. i.t = 7 => Len(i.b) = 8
      BY <2>3 DEF Item
    <2> QED
      BY <2>5, <2>6, <2>7, <2>8, <2>9 DEF AnyItem
  <1> DEFINE all == EncodeAll(doc)
  <1>2. doc \in Seq(AnyItem)
    <2>1. PICK n \in 0 .. MaxItems : doc \in [1 .. n -> Item]
      BY DEF Documents
    <2>2. n \in Nat
      BY <2>1
    <2>3. \A j \in 1 .. n : doc[j] \in AnyItem
      BY <1>1, <2>1
    <2>4. doc = [j \in 1 .. n |-> doc[j]]
      BY <2>1
    <2> QED
      BY <2>2, <2>3, <2>4
  <1>3. all \in Seq(Byte) /\ Len(all) \in Nat
    <2>1. all \in Seq(Byte)
      BY <1>2, EncodeAllFacts
    <2> QED
      BY <2>1
  <1>4. \E n \in 0 .. Len(all) : data = SubSeq(all, 1, n)
    <2>1. CASE doc = << >>
      <3>1. data = << >> /\ all = << >>
        BY <2>1, EncodeAllFacts DEF Cuts
      <3>2. << >> = SubSeq(<< >>, 1, 0) /\ Len(<< >>) = 0
        OBVIOUS
      <3> HIDE DEF all
      <3> QED
        BY <1>3, <3>1, <3>2
    <2>2. CASE doc # << >>
      <3>1. Front(doc) \in Seq(AnyItem)
        BY <1>2, <2>2, FrontLast
      <3>2. EncodeAll(Front(doc)) \in Seq(Byte)
        BY <3>1, EncodeAllFacts
      <3>3. Len(EncodeAll(Front(doc))) \in Nat
        BY <3>2
      <3>4. PICK n \in Len(EncodeAll(Front(doc))) + 1 .. Len(all) : data = SubSeq(all, 1, n)
        BY <2>2 DEF Cuts
      <3> HIDE DEF all
      <3> QED
        BY <1>3, <3>3, <3>4
    <2> QED
      BY <2>1, <2>2
  <1> QED
    BY <1>2, <1>4 DEF Cutoff

\* So what the run checks holds for every bound on the number of items; while a
\* text document is read the binary parser rests, and Decodes says nothing.
THEOREM DecodesCorrect == MCSpec => []Decodes
  <1>1. MCInit => PackageInv
    <2> SUFFICES ASSUME MCInit PROVE PackageInv
      OBVIOUS
    <2>1. IInv
      BY Initially DEF MCInit
    <2>2. CASE product = "package" /\ doc \in Documents /\ data \in Cuts(doc) /\ Init
      BY <2>1, <2>2, SmallDocuments, DecodeInit DEF PackageInv
    <2>3. CASE product = "app"
      BY <2>1, <2>3 DEF PackageInv
    <2> QED
      BY <2>2, <2>3 DEF MCInit
  <1>2. PackageInv /\ [MCNext]_<<product, doc, vars, textVars>> => PackageInv'
    BY PackageStep
  <1> QED
    BY <1>1, <1>2, PackageMeans, PTL DEF MCSpec

-----------------------------------------------------------------------------
(* What parse_text and parse_app make of a text. The text of a document.   *)

\* A character that stands for itself, and what an escape and the character after
\* it stand for.
Unquoted == Text!Char \ {"quote", "escape"}
Piece ==
  {Plain(c) : c \in Unquoted} \cup {Escaped(c, Text!Unescape(c)) : c \in Text!Char}

\* Any item that a text can have: any key without escapes, any value; a comment.
AnyTextItem ==
  {i \in [t : {0, 1, 8, 9}, k : Seq(Unquoted), v : Seq(Piece)] : i.t # 1 => i.v = << >>}

\* What the characters of a value stand for.
Means(v) == [n \in 1 .. Len(v) |-> v[n].is]

\* Its characters, and what they stand for.
LEMMA PieceFacts ==
  ASSUME NEW x \in Piece
  PROVE  /\ x.is \in Text!Char /\ x.raw \in Seq(Text!Char)
         /\ \/ Len(x.raw) = 1 /\ x.raw[1] = x.is /\ x.is \in Unquoted
            \/ /\ Len(x.raw) = 2 /\ x.raw[1] = "escape" /\ x.raw[2] \in Text!Char
               /\ x.is = Text!Unescape(x.raw[2])
  <1>1. CASE \E c \in Unquoted : x = Plain(c)
    <2>1. PICK c \in Unquoted : x = Plain(c)
      BY <1>1
    <2>2. x.raw = <<c>> /\ x.is = c
      BY <2>1 DEF Plain
    <2>3. c \in Text!Char
      BY DEF Unquoted
    <2>4. <<c>> \in Seq(Text!Char) /\ Len(<<c>>) = 1 /\ <<c>>[1] = c
      BY <2>3
    <2> QED
      BY <2>2, <2>3, <2>4
  <1>2. CASE \E c \in Text!Char : x = Escaped(c, Text!Unescape(c))
    <2>1. PICK c \in Text!Char : x = Escaped(c, Text!Unescape(c))
      BY <1>2
    <2>2. x.raw = <<"escape", c>> /\ x.is = Text!Unescape(c)
      BY <2>1 DEF Escaped
    <2>3. "escape" \in Text!Char /\ Text!Unescape(c) \in Text!Char
      BY DEF Text!Char, Text!Unescape
    <2>4. <<"escape", c>> \in Seq(Text!Char) /\ Len(<<"escape", c>>) = 2
          /\ <<"escape", c>>[1] = "escape" /\ <<"escape", c>>[2] = c
      BY <2>3
    <2> QED
      BY <2>2, <2>3, <2>4
  <1> QED
    BY <1>1, <1>2 DEF Piece

\* An item's fields.
LEMMA TextItemFields ==
  ASSUME NEW i \in AnyTextItem
  PROVE  /\ i.t \in {0, 1, 8, 9} /\ i.k \in Seq(Unquoted) /\ i.v \in Seq(Piece)
         /\ i.k \in Seq(Text!Char) /\ Len(i.k) \in Nat
         /\ i.t # 1 => i.v = << >>
         /\ \A j \in 1 .. Len(i.k) : i.k[j] \in Unquoted /\ i.k[j] \in Text!Char
  <1>1. /\ i.t \in {0, 1, 8, 9} /\ i.k \in Seq(Unquoted) /\ i.v \in Seq(Piece)
        /\ i.t # 1 => i.v = << >>
    BY DEF AnyTextItem
  <1> DEFINE k == i.k
  <1>2. k \in Seq(Unquoted)
    BY <1>1
  <1> HIDE DEF k
  <1>3. Unquoted \subseteq Text!Char
    BY DEF Unquoted
  <1>4. k \in Seq(Text!Char) /\ Len(k) \in Nat /\ \A j \in 1 .. Len(k) : k[j] \in Unquoted
    BY <1>2, <1>3
  <1> QED
    BY <1>1, <1>3, <1>4 DEF k

\* The characters of a value, one piece after the other.
LEMMA RawFacts ==
  /\ Raw(<< >>) = << >>
  /\ \A v \in Seq(Piece) : Raw(v) \in Seq(Text!Char) /\ Len(Raw(v)) \in Nat
  /\ \A v \in Seq(Piece), x \in Piece : Raw(Append(v, x)) = Raw(v) \o x.raw
  <1> DEFINE g == [x \in Piece |-> x.raw]
             C == Text!Char
  <1>1. MapsInto(g, Piece, Seq(C))
    BY PieceFacts DEF MapsInto
  <1>2. \A v \in Seq(Piece) : Raw(v) = FlatMapped(g, v)
    <2> SUFFICES ASSUME NEW v \in Seq(Piece) PROVE Raw(v) = FlatMapped(g, v)
      OBVIOUS
    <2>1. \A j \in 1 .. Len(v) : g[v[j]] = v[j].raw
      OBVIOUS
    <2>2. Mapped(g, v) = [j \in 1 .. Len(v) |-> v[j].raw]
      BY <2>1 DEF Mapped
    <2> QED
      BY <2>2 DEF FlatMapped, Raw
  <1>3. \A x \in Piece : g[x] = x.raw
    OBVIOUS
  <1>4. << >> \in Seq(Piece)
    OBVIOUS
  <1> HIDE DEF g, C
  <1>5. FlatMapped(g, << >>) = << >>
    BY <1>1, <1>4, FlatMappedFacts
  <1>6. \A v \in Seq(Piece) : FlatMapped(g, v) \in Seq(C)
    BY <1>1, FlatMappedFacts
  <1>7. \A v \in Seq(Piece), x \in Piece : FlatMapped(g, Append(v, x)) = FlatMapped(g, v) \o g[x]
    BY <1>1, FlatMappedFacts
  <1>8. \A v \in Seq(Piece), x \in Piece : Append(v, x) \in Seq(Piece)
    OBVIOUS
  <1>9. \A v \in Seq(Piece) : Raw(v) \in Seq(Text!Char) /\ Len(Raw(v)) \in Nat
    <2> SUFFICES ASSUME NEW v \in Seq(Piece) PROVE Raw(v) \in Seq(Text!Char) /\ Len(Raw(v)) \in Nat
      OBVIOUS
    <2>1. Raw(v) \in Seq(Text!Char)
      BY <1>2, <1>6 DEF C
    <2> QED
      BY <2>1
  <1>10. \A v \in Seq(Piece), x \in Piece : Raw(Append(v, x)) = Raw(v) \o x.raw
    BY <1>2, <1>3, <1>7, <1>8
  <1> QED
    BY <1>2, <1>4, <1>5, <1>9, <1>10

\* What one more piece stands for.
LEMMA MeansFacts ==
  /\ Means(<< >>) = << >>
  /\ \A v \in Seq(Piece) : Means(v) \in Seq(Text!Char)
  /\ \A v \in Seq(Piece), x \in Piece : Means(Append(v, x)) = Append(Means(v), x.is)
  <1> DEFINE g == [x \in Piece |-> x.is]
  <1>1. MapsInto(g, Piece, Text!Char)
    BY PieceFacts DEF MapsInto
  <1>2. \A v \in Seq(Piece) : Means(v) = Mapped(g, v)
    <2> SUFFICES ASSUME NEW v \in Seq(Piece) PROVE Means(v) = Mapped(g, v)
      OBVIOUS
    <2>1. \A j \in 1 .. Len(v) : g[v[j]] = v[j].is
      OBVIOUS
    <2> QED
      BY <2>1 DEF Mapped, Means
  <1>3. \A x \in Piece : g[x] = x.is
    OBVIOUS
  <1>4. Means(<< >>) = << >>
    BY DEF Means
  <1> HIDE DEF g
  <1>5. \A v \in Seq(Piece) : Means(v) \in Seq(Text!Char)
    BY <1>1, <1>2, MappedType
  <1>6. \A v \in Seq(Piece), x \in Piece : Append(v, x) \in Seq(Piece)
    OBVIOUS
  <1>7. \A v \in Seq(Piece), x \in Piece : Means(Append(v, x)) = Append(Means(v), x.is)
    <2> SUFFICES ASSUME NEW v \in Seq(Piece), NEW x \in Piece
                 PROVE  Means(Append(v, x)) = Append(Means(v), x.is)
      OBVIOUS
    <2>1. Mapped(g, Append(v, x)) = Append(Mapped(g, v), g[x])
      BY MappedAppended
    <2> QED
      BY <1>2, <1>3, <1>6, <2>1
  <1> QED
    BY <1>4, <1>5, <1>7

\* Characters between quotes, and what follows.
LEMMA QuotedFacts ==
  ASSUME NEW C, "quote" \in C, NEW a \in Seq(C), NEW b \in Seq(C)
  PROVE  LET s == <<"quote">> \o a \o b
         IN  /\ s \in Seq(C) /\ Len(s) = 1 + Len(a) + Len(b) /\ s[1] = "quote"
             /\ Len(a) \in Nat /\ Len(b) \in Nat
             /\ \A j \in 1 .. Len(a) : s[1 + j] = a[j]
             /\ \A j \in 1 .. Len(b) : s[1 + Len(a) + j] = b[j]
  <1> DEFINE q == <<"quote">>
             h == q \o a
             s == h \o b
  <1>1. q \in Seq(C) /\ Len(q) = 1 /\ q[1] = "quote" /\ a \in Seq(C) /\ b \in Seq(C)
    OBVIOUS
  <1> HIDE DEF q
  <1>2. /\ h \in Seq(C) /\ Len(h) = 1 + Len(a) /\ h[1] = "quote" /\ Len(a) \in Nat
        /\ \A j \in 1 .. Len(a) : h[1 + j] = a[j] /\ 1 + j \in 1 .. Len(h)
    <2>1. /\ q \o a \in Seq(C) /\ Len(q \o a) = Len(q) + Len(a)
          /\ Len(q) \in Nat /\ Len(a) \in Nat
          /\ \A j \in 1 .. Len(q) : (q \o a)[j] = q[j]
          /\ \A j \in 1 .. Len(a) : (q \o a)[Len(q) + j] = a[j] /\ Len(q) + j \in 1 .. Len(q \o a)
      <3>1. q \in Seq(C) /\ a \in Seq(C)
        BY <1>1
      <3> QED
        BY ONLY <3>1, Concatenated
    <2>2. 1 \in 1 .. Len(q)
      BY <1>1
    <2> QED
      BY <1>1, <2>1, <2>2
  <1> HIDE DEF h
  <1>3. /\ h \o b \in Seq(C) /\ Len(h \o b) = Len(h) + Len(b) /\ Len(b) \in Nat
        /\ \A j \in 1 .. Len(h) : (h \o b)[j] = h[j]
        /\ \A j \in 1 .. Len(b) : (h \o b)[Len(h) + j] = b[j]
    <2>1. h \in Seq(C) /\ b \in Seq(C)
      BY <1>1, <1>2
    <2> QED
      BY ONLY <2>1, Concatenated
  <1>4. 1 \in 1 .. Len(h)
    BY <1>2
  <1> HIDE DEF s
  <1>5. /\ s \in Seq(C) /\ Len(s) = 1 + Len(a) + Len(b) /\ s[1] = "quote"
        /\ Len(a) \in Nat /\ Len(b) \in Nat
        /\ \A j \in 1 .. Len(a) : s[1 + j] = a[j]
        /\ \A j \in 1 .. Len(b) : s[1 + Len(a) + j] = b[j]
    BY <1>2, <1>3, <1>4 DEF s
  <1> QED
    BY <1>5 DEF s, h, q

\* The text of an entry that opens an object.
LEMMA ObjectLay ==
  ASSUME NEW i \in AnyTextItem, i.t = 0
  PROVE  LET l == Len(i.k)
         IN  /\ Lay(i) \in Seq(Text!Char) /\ Len(Lay(i)) = l + 5 /\ l \in Nat
             /\ Lay(i)[1] = "quote" /\ (\A j \in 1 .. l : Lay(i)[1 + j] = i.k[j])
             /\ Lay(i)[2 + l] = "quote" /\ Lay(i)[3 + l] = "newline"
             /\ Lay(i)[4 + l] = "open" /\ Lay(i)[5 + l] = "newline"
  <1> DEFINE k == i.k
             b == <<"quote", "newline", "open", "newline">>
             s == <<"quote">> \o k \o b
  <1>1. Lay(i) = s
    BY DEF Lay
  <1>2. /\ b \in Seq(Text!Char) /\ Len(b) = 4 /\ b[1] = "quote" /\ b[2] = "newline"
        /\ b[3] = "open" /\ b[4] = "newline" /\ "quote" \in Text!Char
    BY DEF Text!Char
  <1>3. k \in Seq(Text!Char)
    BY TextItemFields
  <1> HIDE DEF k, b
  <1>4. /\ s \in Seq(Text!Char) /\ Len(s) = 1 + Len(k) + Len(b) /\ s[1] = "quote"
        /\ Len(k) \in Nat
        /\ \A j \in 1 .. Len(k) : s[1 + j] = k[j]
        /\ \A j \in 1 .. Len(b) : s[1 + Len(k) + j] = b[j]
    <2>1. k \in Seq(Text!Char) /\ b \in Seq(Text!Char) /\ "quote" \in Text!Char
      BY <1>2, <1>3
    <2> QED
      BY ONLY <2>1, QuotedFacts
  <1> HIDE DEF s
  <1> DEFINE l == Len(k)
  <1>5. l \in Nat /\ Len(s) = l + 5
    BY <1>2, <1>4
  <1>6. 1 + l + 1 = 2 + l /\ 1 + l + 2 = 3 + l /\ 1 + l + 3 = 4 + l /\ 1 + l + 4 = 5 + l
    BY <1>5
  <1>7. 1 \in 1 .. Len(b) /\ 2 \in 1 .. Len(b) /\ 3 \in 1 .. Len(b) /\ 4 \in 1 .. Len(b)
    BY <1>2
  <1>8. s[2 + l] = "quote" /\ s[3 + l] = "newline" /\ s[4 + l] = "open" /\ s[5 + l] = "newline"
    BY <1>2, <1>4, <1>6, <1>7
  <1> QED
    BY <1>1, <1>4, <1>5, <1>8 DEF k

\* The text of an entry with a value.
LEMMA StringLay ==
  ASSUME NEW i \in AnyTextItem, i.t = 1
  PROVE  LET l == Len(i.k)
             r == Len(Raw(i.v))
         IN  /\ Lay(i) \in Seq(Text!Char) /\ Len(Lay(i)) = l + r + 6 /\ l \in Nat /\ r \in Nat
             /\ Lay(i)[1] = "quote" /\ (\A j \in 1 .. l : Lay(i)[1 + j] = i.k[j])
             /\ Lay(i)[2 + l] = "quote" /\ Lay(i)[3 + l] = "tab" /\ Lay(i)[4 + l] = "quote"
             /\ \A j \in 1 .. r : Lay(i)[4 + l + j] = Raw(i.v)[j]
             /\ Lay(i)[5 + l + r] = "quote" /\ Lay(i)[6 + l + r] = "newline"
  <1> DEFINE k == i.k
             w == Raw(i.v)
             b == <<"quote", "tab", "quote">>
             e == <<"quote", "newline">>
             s == <<"quote">> \o k \o b
             u == s \o w
             x == u \o e
             l == Len(k)
             r == Len(w)
  <1>1. Lay(i) = x
    <2> DEFINE y == <<"quote">> \o i.k \o <<"quote", "newline", "open", "newline">>
    <2>1. Lay(i) = CASE i.t = 0 -> y
                     [] i.t = 1 -> x
                     [] i.t = 8 -> <<"tab", "close", "newline">>
                     [] i.t = 9 -> <<"slash", "slash", "quote", "newline">>
      BY DEF Lay
    <2> HIDE DEF x, y
    <2> QED
      BY <2>1
  <1>2. /\ b \in Seq(Text!Char) /\ Len(b) = 3 /\ b[1] = "quote" /\ b[2] = "tab" /\ b[3] = "quote"
        /\ e \in Seq(Text!Char) /\ Len(e) = 2 /\ e[1] = "quote" /\ e[2] = "newline"
        /\ "quote" \in Text!Char
    BY DEF Text!Char
  <1>3. k \in Seq(Text!Char) /\ w \in Seq(Text!Char)
    BY TextItemFields, RawFacts
  <1> HIDE DEF k, w, b, e
  <1>4. /\ s \in Seq(Text!Char) /\ Len(s) = 1 + Len(k) + Len(b) /\ s[1] = "quote"
        /\ Len(k) \in Nat
        /\ \A j \in 1 .. Len(k) : s[1 + j] = k[j]
        /\ \A j \in 1 .. Len(b) : s[1 + Len(k) + j] = b[j]
    <2>1. k \in Seq(Text!Char) /\ b \in Seq(Text!Char) /\ "quote" \in Text!Char
      BY <1>2, <1>3
    <2> QED
      BY ONLY <2>1, QuotedFacts
  <1> HIDE DEF s
  <1>5. /\ u \in Seq(Text!Char) /\ Len(u) = Len(s) + Len(w) /\ Len(w) \in Nat
        /\ \A j \in 1 .. Len(s) : u[j] = s[j]
        /\ \A j \in 1 .. Len(w) : u[Len(s) + j] = w[j]
    <2>1. s \in Seq(Text!Char) /\ w \in Seq(Text!Char)
      BY <1>3, <1>4
    <2> QED
      BY ONLY <2>1, Concatenated
  <1> HIDE DEF u
  <1>6. /\ x \in Seq(Text!Char) /\ Len(x) = Len(u) + Len(e)
        /\ \A j \in 1 .. Len(u) : x[j] = u[j]
        /\ \A j \in 1 .. Len(e) : x[Len(u) + j] = e[j]
    <2>1. u \in Seq(Text!Char) /\ e \in Seq(Text!Char)
      BY <1>2, <1>5
    <2> QED
      BY ONLY <2>1, Concatenated
  <1> HIDE DEF x
  <1>7. l \in Nat /\ r \in Nat /\ Len(s) = 4 + l /\ Len(u) = 4 + l + r /\ Len(x) = l + r + 6
    BY <1>2, <1>4, <1>5, <1>6
  <1>8. \A j \in 1 .. 4 + l : x[j] = s[j]
    BY <1>5, <1>6, <1>7
  <1>9. x[1] = "quote" /\ \A j \in 1 .. l : x[1 + j] = k[j]
    <2>1. 1 \in 1 .. 4 + l /\ \A j \in 1 .. l : 1 + j \in 1 .. 4 + l
      BY <1>7
    <2> QED
      BY <1>4, <1>8, <2>1
  <1>10. x[2 + l] = "quote" /\ x[3 + l] = "tab" /\ x[4 + l] = "quote"
    <2>1. 1 + l + 1 = 2 + l /\ 1 + l + 2 = 3 + l /\ 1 + l + 3 = 4 + l
      BY <1>7
    <2>2. 1 \in 1 .. Len(b) /\ 2 \in 1 .. Len(b) /\ 3 \in 1 .. Len(b)
      BY <1>2
    <2>3. 2 + l \in 1 .. 4 + l /\ 3 + l \in 1 .. 4 + l /\ 4 + l \in 1 .. 4 + l
      BY <1>7
    <2> QED
      BY <1>2, <1>4, <1>8, <2>1, <2>2, <2>3
  <1>11. \A j \in 1 .. r : x[4 + l + j] = w[j]
    <2>1. \A j \in 1 .. r : 4 + l + j \in 1 .. Len(u)
      BY <1>7
    <2> QED
      BY <1>5, <1>6, <1>7, <2>1
  <1>12. x[5 + l + r] = "quote" /\ x[6 + l + r] = "newline"
    <2>1. 1 \in 1 .. Len(e) /\ 2 \in 1 .. Len(e)
      BY <1>2
    <2>2. Len(u) + 1 = 5 + l + r /\ Len(u) + 2 = 6 + l + r
      BY <1>7
    <2> QED
      BY <1>2, <1>6, <2>1, <2>2
  <1> QED
    BY <1>1, <1>6, <1>7, <1>9, <1>10, <1>11, <1>12 DEF k, w

\* The text of a brace that closes, and of a comment.
LEMMA OtherLay ==
  ASSUME NEW i \in AnyTextItem
  PROVE  /\ i.t = 8 => /\ Lay(i) \in Seq(Text!Char) /\ Len(Lay(i)) = 3 /\ Lay(i)[1] = "tab"
                       /\ Lay(i)[2] = "close" /\ Lay(i)[3] = "newline"
         /\ i.t = 9 => /\ Lay(i) \in Seq(Text!Char) /\ Len(Lay(i)) = 4 /\ Lay(i)[1] = "slash"
                       /\ Lay(i)[2] = "slash" /\ Lay(i)[3] = "quote" /\ Lay(i)[4] = "newline"
  <1>1. CASE i.t = 8
    <2>1. Lay(i) = <<"tab", "close", "newline">>
      BY <1>1 DEF Lay
    <2> QED
      BY <1>1, <2>1 DEF Text!Char
  <1>2. CASE i.t = 9
    <2>1. Lay(i) = <<"slash", "slash", "quote", "newline">>
      BY <1>2 DEF Lay
    <2> QED
      BY <1>2, <2>1 DEF Text!Char
  <1> QED
    BY <1>1, <1>2

\* The characters of items: those of one more item follow.
LEMMA PrintAllFacts ==
  /\ PrintAll(<< >>) = << >>
  /\ \A i \in AnyTextItem : Lay(i) \in Seq(Text!Char) /\ Len(Lay(i)) \in Nat \ {0, 1, 2}
  /\ \A d \in Seq(AnyTextItem) : PrintAll(d) \in Seq(Text!Char) /\ Len(PrintAll(d)) \in Nat
  /\ \A d \in Seq(AnyTextItem), i \in AnyTextItem : PrintAll(Append(d, i)) = PrintAll(d) \o Lay(i)
  <1> DEFINE g == [i \in AnyTextItem |-> Lay(i)]
             C == Text!Char
  <1>1. \A i \in AnyTextItem : Lay(i) \in Seq(Text!Char) /\ Len(Lay(i)) \in Nat \ {0, 1, 2}
    <2> SUFFICES ASSUME NEW i \in AnyTextItem
                 PROVE  Lay(i) \in Seq(Text!Char) /\ Len(Lay(i)) \in Nat \ {0, 1, 2}
      OBVIOUS
    <2>1. i.t \in {0, 1, 8, 9}
      BY TextItemFields
    <2>2. CASE i.t = 0
      BY <2>2, ObjectLay
    <2>3. CASE i.t = 1
      <3>1. /\ Lay(i) \in Seq(Text!Char) /\ Len(Lay(i)) = Len(i.k) + Len(Raw(i.v)) + 6
            /\ Len(i.k) \in Nat /\ Len(Raw(i.v)) \in Nat
        BY <2>3, StringLay
      <3>2. \A n, m \in Nat : n + m + 6 \in Nat \ {0, 1, 2}
        OBVIOUS
      <3>3. Len(Lay(i)) \in Nat \ {0, 1, 2}
        BY ONLY <3>1, <3>2
      <3> QED
        BY <3>1, <3>3
    <2>4. CASE i.t \in {8, 9}
      BY <2>4, OtherLay
    <2> QED
      BY <2>1, <2>2, <2>3, <2>4
  <1>2. MapsInto(g, AnyTextItem, Seq(C))
    BY <1>1 DEF MapsInto
  <1>3. \A d \in Seq(AnyTextItem) : PrintAll(d) = FlatMapped(g, d)
    <2> SUFFICES ASSUME NEW d \in Seq(AnyTextItem) PROVE PrintAll(d) = FlatMapped(g, d)
      OBVIOUS
    <2>1. \A j \in 1 .. Len(d) : g[d[j]] = Lay(d[j])
      OBVIOUS
    <2>2. Mapped(g, d) = [j \in 1 .. Len(d) |-> Lay(d[j])]
      BY <2>1 DEF Mapped
    <2> QED
      BY <2>2 DEF FlatMapped, PrintAll
  <1>4. \A i \in AnyTextItem : g[i] = Lay(i)
    OBVIOUS
  <1>5. << >> \in Seq(AnyTextItem)
    OBVIOUS
  <1> HIDE DEF g, C
  <1>6. FlatMapped(g, << >>) = << >>
    BY <1>2, <1>5, FlatMappedFacts
  <1>7. \A d \in Seq(AnyTextItem) : FlatMapped(g, d) \in Seq(C)
    BY <1>2, FlatMappedFacts
  <1>8. \A d \in Seq(AnyTextItem), i \in AnyTextItem :
          FlatMapped(g, Append(d, i)) = FlatMapped(g, d) \o g[i] /\ Append(d, i) \in Seq(AnyTextItem)
    BY <1>2, FlatMappedFacts
  <1>9. \A d \in Seq(AnyTextItem) : PrintAll(d) \in Seq(Text!Char) /\ Len(PrintAll(d)) \in Nat
    <2> SUFFICES ASSUME NEW d \in Seq(AnyTextItem)
                 PROVE  PrintAll(d) \in Seq(Text!Char) /\ Len(PrintAll(d)) \in Nat
      OBVIOUS
    <2>1. PrintAll(d) \in Seq(Text!Char)
      BY <1>3, <1>7 DEF C
    <2> QED
      BY <2>1
  <1>10. \A d \in Seq(AnyTextItem), i \in AnyTextItem : PrintAll(Append(d, i)) = PrintAll(d) \o Lay(i)
    BY <1>3, <1>4, <1>8
  <1> QED
    BY <1>1, <1>3, <1>5, <1>6, <1>9, <1>10

\* Where the first k items of a text end.
TEnd(k) == Len(PrintAll(First(k)))

\* A text that holds a document of any items, cut off within or after the last one.
TextCutoff == doc \in Seq(AnyTextItem) /\ text \in TextCuts(doc)

\* The items end one after the other.
LEMMA TextEnds ==
  ASSUME doc \in Seq(AnyTextItem)
  PROVE  /\ Len(doc) \in Nat /\ First(0) = << >> /\ First(Len(doc)) = doc
         /\ \A k \in 0 .. Len(doc) : /\ First(k) \in Seq(AnyTextItem) /\ Len(First(k)) = k
                                     /\ TEnd(k) \in Nat
         /\ \A k \in 0 .. Len(doc) - 1 :
              /\ doc[k + 1] \in AnyTextItem /\ First(k + 1) = Append(First(k), doc[k + 1])
              /\ PrintAll(First(k + 1)) = PrintAll(First(k)) \o Lay(doc[k + 1])
              /\ TEnd(k + 1) = TEnd(k) + Len(Lay(doc[k + 1]))
  <1>1. Len(doc) \in Nat /\ First(0) = << >> /\ First(Len(doc)) = doc
    BY DEF First
  <1>2. ASSUME NEW k \in 0 .. Len(doc)
        PROVE  First(k) \in Seq(AnyTextItem) /\ Len(First(k)) = k /\ TEnd(k) \in Nat
    <2>1. k \in Nat /\ k <= Len(doc) /\ 1 <= k + 1 /\ 1 \in Nat \ {0} /\ k - 1 + 1 = k
      BY <1>1
    <2>2. First(k) \in Seq(AnyTextItem) /\ Len(First(k)) = k
      BY <2>1, Cut DEF First
    <2> QED
      BY <2>2, PrintAllFacts DEF TEnd
  <1>3. ASSUME NEW k \in 0 .. Len(doc) - 1
        PROVE  /\ doc[k + 1] \in AnyTextItem /\ First(k + 1) = Append(First(k), doc[k + 1])
               /\ PrintAll(First(k + 1)) = PrintAll(First(k)) \o Lay(doc[k + 1])
               /\ TEnd(k + 1) = TEnd(k) + Len(Lay(doc[k + 1]))
    <2>1. doc[k + 1] \in AnyTextItem /\ First(k + 1) = Append(First(k), doc[k + 1])
      BY FirstItems DEF First
    <2>2. k \in 0 .. Len(doc)
      BY <1>1
    <2>3. First(k) \in Seq(AnyTextItem)
      BY <1>2, <2>2
    <2>4. PrintAll(First(k + 1)) = PrintAll(First(k)) \o Lay(doc[k + 1])
      BY <2>1, <2>3, PrintAllFacts
    <2> DEFINE p == PrintAll(First(k))
               q == Lay(doc[k + 1])
    <2>5. p \in Seq(Text!Char) /\ q \in Seq(Text!Char)
      BY <2>1, <2>3, PrintAllFacts
    <2>6. Len(p \o q) = Len(p) + Len(q)
      <3> HIDE DEF p, q
      <3> QED
        BY ONLY <2>5, Concatenated
    <2> QED
      BY <2>1, <2>4, <2>6 DEF TEnd
  <1> QED
    BY <1>1, <1>2, <1>3

\* What the first items have printed stays.
LEMMA TextPlaces ==
  ASSUME doc \in Seq(AnyTextItem), NEW k \in 0 .. Len(doc), NEW l \in 0 .. Len(doc), k <= l
  PROVE  /\ TEnd(k) <= TEnd(l)
         /\ \A j \in 1 .. TEnd(k) : PrintAll(First(l))[j] = PrintAll(First(k))[j]
  <1> DEFINE Same(m) == /\ TEnd(k) <= TEnd(m)
                        /\ \A j \in 1 .. TEnd(k) : PrintAll(First(m))[j] = PrintAll(First(k))[j]
             T == {m \in Nat : k <= m /\ m <= Len(doc) => Same(m)}
  <1>0. Len(doc) \in Nat /\ k \in Nat /\ l \in Nat
    BY TextEnds
  <1>1. 0 \in T
    <2>1. k <= 0 => k = 0
      BY <1>0
    <2>2. TEnd(k) \in Nat
      BY TextEnds
    <2> QED
      BY <2>1, <2>2
  <1>2. ASSUME NEW m \in Nat, m \in T PROVE m + 1 \in T
    <2> SUFFICES ASSUME k <= m + 1, m + 1 <= Len(doc) PROVE Same(m + 1)
      OBVIOUS
    <2>1. CASE k = m + 1
      <3>1. TEnd(k) \in Nat
        BY TextEnds
      <3> QED
        BY <2>1, <3>1
    <2>2. CASE k # m + 1
      <3>1. k <= m /\ m <= Len(doc) /\ m \in 0 .. Len(doc) - 1 /\ m \in 0 .. Len(doc)
        BY <1>0, <2>2
      <3>2. Same(m)
        BY <1>2, <3>1
      <3> DEFINE p == PrintAll(First(m))
                 q == Lay(doc[m + 1])
      <3>3. /\ PrintAll(First(m + 1)) = p \o q /\ TEnd(m) = Len(p)
            /\ TEnd(m + 1) = TEnd(m) + Len(q) /\ TEnd(k) \in Nat /\ TEnd(m) \in Nat
        BY <3>1, TextEnds DEF TEnd
      <3>4. p \in Seq(Text!Char) /\ q \in Seq(Text!Char)
        BY <3>1, TextEnds, PrintAllFacts
      <3> HIDE DEF p, q
      <3>5. /\ Len(q) \in Nat
            /\ \A j \in 1 .. Len(p) : (p \o q)[j] = p[j]
        BY ONLY <3>4, Concatenated
      <3>6. \A j \in 1 .. TEnd(k) : j \in 1 .. Len(p)
        BY <3>2, <3>3
      <3>7. \A j \in 1 .. TEnd(k) : p[j] = PrintAll(First(k))[j]
        BY <3>2 DEF p
      <3> QED
        BY <3>2, <3>3, <3>5, <3>6, <3>7
    <2> QED
      BY <2>1, <2>2
  <1>3. Nat \subseteq T
    <2> HIDE DEF T
    <2> QED
      BY <1>1, <1>2, NatSetInduction
  <1> QED
    BY <1>0, <1>3

\* The characters of an item in the text of the document.
LEMMA TextPlace ==
  ASSUME doc \in Seq(AnyTextItem), NEW k \in 0 .. Len(doc) - 1
  PROVE  /\ TEnd(k) \in Nat /\ Len(Lay(doc[k + 1])) \in Nat
         /\ TEnd(k) + Len(Lay(doc[k + 1])) <= Len(PrintAll(doc)) /\ Len(PrintAll(doc)) \in Nat
         /\ \A j \in 1 .. Len(Lay(doc[k + 1])) :
              PrintAll(doc)[TEnd(k) + j] = Lay(doc[k + 1])[j]
  <1>1. Len(doc) \in Nat /\ k \in 0 .. Len(doc) /\ k + 1 \in 0 .. Len(doc)
          /\ Len(doc) \in 0 .. Len(doc) /\ k + 1 <= Len(doc)
    BY TextEnds
  <1> DEFINE p == PrintAll(First(k))
             q == Lay(doc[k + 1])
             r == PrintAll(doc)
  <1>2. /\ First(Len(doc)) = doc /\ PrintAll(First(k + 1)) = p \o q
        /\ TEnd(k + 1) = TEnd(k) + Len(q) /\ TEnd(k) \in Nat /\ TEnd(k) = Len(p)
    BY <1>1, TextEnds DEF TEnd
  <1>3. TEnd(k + 1) <= Len(r) /\ \A j \in 1 .. TEnd(k + 1) : r[j] = (p \o q)[j]
    BY <1>1, <1>2, TextPlaces DEF TEnd
  <1>4. p \in Seq(Text!Char) /\ q \in Seq(Text!Char) /\ Len(r) \in Nat
    BY <1>1, TextEnds, PrintAllFacts
  <1> HIDE DEF p, q, r
  <1>5. p \in Seq(Text!Char) /\ q \in Seq(Text!Char)
    BY <1>4
  <1>6. /\ Len(q) \in Nat
        /\ \A j \in 1 .. Len(q) : (p \o q)[Len(p) + j] = q[j]
    BY ONLY <1>5, Concatenated
  <1>7. \A j \in 1 .. Len(q) : TEnd(k) + j \in 1 .. TEnd(k + 1)
    BY <1>2, <1>6
  <1>8. \A j \in 1 .. Len(q) : r[TEnd(k) + j] = q[j]
    BY <1>2, <1>3, <1>6, <1>7
  <1> QED
    BY <1>2, <1>3, <1>4, <1>6, <1>8 DEF q, r

\* A character of the text, or the terminator behind it.
Seen(p, c) == Text!At(p) = IF p < Text!size THEN c ELSE "nul"

\* The text, character by character.
LEMMA TextBytes ==
  ASSUME TextCutoff, NEW k \in 0 .. Len(doc) - 1
  PROVE  /\ Text!size \in Nat /\ doc[k + 1] \in AnyTextItem /\ TEnd(k) \in Nat
         /\ TEnd(k) < Text!size /\ k + 1 \in 0 .. Len(doc) /\ TEnd(k + 1) \in Nat
         /\ TEnd(k + 1) = TEnd(k) + Len(Lay(doc[k + 1]))
         /\ k + 1 < Len(doc) => TEnd(k + 1) < Text!size /\ k + 1 \in 0 .. Len(doc) - 1
         /\ k + 1 = Len(doc) => Text!size <= TEnd(k + 1)
         /\ \A j \in 1 .. Len(Lay(doc[k + 1])) : Seen(TEnd(k) + j - 1, Lay(doc[k + 1])[j])
  <1>1. doc \in Seq(AnyTextItem) /\ Len(doc) \in Nat /\ doc # << >>
    <2>1. doc \in Seq(AnyTextItem) /\ Len(doc) \in Nat
      BY DEF TextCutoff
    <2>2. Len(<< >>) = 0
      OBVIOUS
    <2> QED
      BY <2>1, <2>2
  <1>2. Front(doc) = First(Len(doc) - 1)
    BY <1>1 DEF Front, First
  <1> DEFINE all == PrintAll(doc)
             L == Len(doc) - 1
             nul == <<"nul">>
  <1>3. PICK n \in TEnd(L) + 2 .. Len(all) + 1 : text = SubSeq(all \o nul, 1, n)
    BY <1>1, <1>2 DEF TextCutoff, TextCuts, TEnd
  <1>4. /\ all \in Seq(Text!Char) /\ nul \in Seq(Text!Char) /\ Len(nul) = 1
    BY <1>1, PrintAllFacts DEF Text!Char
  <1>5. /\ Len(all \o nul) = Len(all) + 1 /\ Len(all) \in Nat /\ all \o nul \in Seq(Text!Char)
        /\ \A j \in 1 .. Len(all) : (all \o nul)[j] = all[j]
    <2> HIDE DEF all, nul
    <2>1. all \in Seq(Text!Char) /\ nul \in Seq(Text!Char)
      BY <1>4
    <2>2. /\ Len(all \o nul) = Len(all) + Len(nul) /\ Len(all) \in Nat /\ all \o nul \in Seq(Text!Char)
          /\ \A j \in 1 .. Len(all) : (all \o nul)[j] = all[j]
      BY ONLY <2>1, Concatenated
    <2> QED
      BY <1>4, <2>2
  <1>6. TEnd(L) \in Nat /\ L \in 0 .. Len(doc)
    <2>1. L \in 0 .. Len(doc)
      <3>1. Len(doc) # 0
        BY <1>1
      <3> QED
        BY <1>1, <3>1
    <2> QED
      BY <1>1, <2>1, TextEnds
  <1>7. n \in Nat /\ n >= 2 /\ n <= Len(all) + 1 /\ TEnd(L) + 2 <= n
    BY <1>5, <1>6
  <1>8. /\ text \in Seq(Text!Char) /\ Len(text) = n /\ \A j \in 1 .. n : text[j] = (all \o nul)[j]
    <2> HIDE DEF all, nul
    <2> DEFINE w == all \o nul
    <2>1. /\ w \in Seq(Text!Char) /\ 1 \in Nat \ {0} /\ n \in Nat /\ n <= Len(w) /\ 1 <= n + 1
      BY <1>5, <1>7
    <2> HIDE DEF w
    <2>2. /\ SubSeq(w, 1, n) \in Seq(Text!Char) /\ Len(SubSeq(w, 1, n)) = n - 1 + 1
          /\ \A j \in 1 .. n - 1 + 1 : SubSeq(w, 1, n)[j] = w[1 + j - 1]
      BY ONLY <2>1, Cut
    <2>3. n - 1 + 1 = n /\ \A j \in 1 .. n : 1 + j - 1 = j
      BY <1>7
    <2> QED
      BY <1>3, <2>2, <2>3 DEF w
  <1>9. Text!size = n - 1 /\ Text!size \in Nat
    <2>1. text # << >>
      BY <1>7, <1>8
    <2> QED
      BY <1>7, <1>8, <2>1 DEF Text!size
  <1> HIDE DEF all, nul
  <1>10. ASSUME NEW j \in 1 .. Len(all) PROVE Seen(j - 1, all[j])
    <2>1. CASE j - 1 < Text!size
      <3>1. j \in 1 .. n /\ j - 1 + 1 = j
        BY <1>5, <1>7, <1>9, <2>1
      <3>2. Text!At(j - 1) = text[j]
        BY <2>1, <3>1 DEF Text!At
      <3> QED
        BY <1>5, <1>8, <2>1, <3>1, <3>2 DEF Seen
    <2>2. CASE ~(j - 1 < Text!size)
      BY <2>2 DEF Seen, Text!At
    <2> QED
      BY <2>1, <2>2
  <1> DEFINE e == TEnd(k)
             y == Lay(doc[k + 1])
  <1>11. /\ e \in Nat /\ Len(y) \in Nat /\ e + Len(y) <= Len(all)
         /\ \A j \in 1 .. Len(y) : all[e + j] = y[j]
    BY <1>1, TextPlace DEF all
  <1>12. /\ k \in 0 .. Len(doc) /\ k + 1 \in 0 .. Len(doc) /\ k \in 0 .. L /\ k \in Nat
         /\ k <= L /\ Len(doc) \in 0 .. Len(doc)
    BY <1>1
  <1>13. /\ TEnd(k + 1) = e + Len(y) /\ TEnd(k + 1) \in Nat /\ doc[k + 1] \in AnyTextItem
         /\ First(Len(doc)) = doc
    BY <1>1, <1>12, TextEnds
  <1>14. e < Text!size
    <2>1. e <= TEnd(L)
      BY <1>1, <1>6, <1>12, TextPlaces
    <2> HIDE DEF e, L
    <2> QED
      BY <1>6, <1>7, <1>9, <1>11, <2>1
  <1>15. k + 1 < Len(doc) => TEnd(k + 1) < Text!size /\ k + 1 \in 0 .. Len(doc) - 1
    <2> SUFFICES ASSUME k + 1 < Len(doc) PROVE TEnd(k + 1) < Text!size /\ k + 1 \in 0 .. Len(doc) - 1
      OBVIOUS
    <2>1. k + 1 <= L /\ k + 1 \in 0 .. Len(doc) - 1
      BY <1>1, <1>12
    <2>2. TEnd(k + 1) <= TEnd(L)
      BY <1>1, <1>6, <1>12, <2>1, TextPlaces
    <2> HIDE DEF L
    <2> QED
      BY <1>6, <1>7, <1>9, <1>13, <2>1, <2>2
  <1>16. k + 1 = Len(doc) => Text!size <= TEnd(k + 1)
    <2>1. k + 1 = Len(doc) => TEnd(k + 1) = Len(all)
      BY <1>13 DEF TEnd, all
    <2> QED
      BY <1>5, <1>7, <1>9, <2>1
  <1>17. \A j \in 1 .. Len(y) : Seen(e + j - 1, y[j])
    <2> SUFFICES ASSUME NEW j \in 1 .. Len(y) PROVE Seen(e + j - 1, y[j])
      OBVIOUS
    <2> HIDE DEF e, y
    <2>1. e + j \in 1 .. Len(all)
      BY <1>5, <1>11
    <2> QED
      BY <1>10, <1>11, <2>1
  <1> QED
    BY <1>9, <1>11, <1>12, <1>13, <1>14, <1>15, <1>16, <1>17

\* An item as Read takes it; the state in which items leave a reader.
AsRead(i)    == [t |-> i.t, k |-> i.k, b |-> Means(i.v)]
State(items) == After(Resolved(items))

\* One item more.
LEMMA StateFacts ==
  /\ State(<< >>) = [at |-> << >>, nodes |-> {}]
  /\ \A q \in Seq(AnyTextItem) : DOMAIN State(q) = {"at", "nodes"}
  /\ \A q \in Seq(AnyTextItem), i \in AnyTextItem :
       State(Append(q, i)) = IF i.t = 9 THEN State(q) ELSE Read(State(q), AsRead(i))
  <1> DEFINE g == [i \in AnyTextItem |-> Resolve(i)]
             D == {AsRead(i) : i \in AnyTextItem}
  <1>1. \A i \in AnyTextItem : Resolve(i) = IF i.t = 9 THEN << >> ELSE <<AsRead(i)>>
    BY DEF Resolve, AsRead, Means
  <1>2. MapsInto(g, AnyTextItem, Seq(D))
    <2> SUFFICES ASSUME NEW i \in AnyTextItem PROVE Resolve(i) \in Seq(D)
      BY DEF MapsInto
    <2>1. AsRead(i) \in D
      OBVIOUS
    <2> HIDE DEF D
    <2>2. <<AsRead(i)>> \in Seq(D) /\ << >> \in Seq(D)
      BY <2>1
    <2> QED
      BY <1>1, <2>2
  <1>3. \A q \in Seq(AnyTextItem) : Resolved(q) = FlatMapped(g, q)
    <2> SUFFICES ASSUME NEW q \in Seq(AnyTextItem) PROVE Resolved(q) = FlatMapped(g, q)
      OBVIOUS
    <2>1. \A j \in 1 .. Len(q) : g[q[j]] = Resolve(q[j])
      OBVIOUS
    <2>2. Mapped(g, q) = [j \in 1 .. Len(q) |-> Resolve(q[j])]
      BY <2>1 DEF Mapped
    <2> QED
      BY <2>2 DEF FlatMapped, Resolved
  <1>4. \A i \in AnyTextItem : g[i] = Resolve(i) /\ AsRead(i) \in D
    OBVIOUS
  <1>5. << >> \in Seq(AnyTextItem)
    OBVIOUS
  <1> HIDE DEF g, D
  <1>6. Resolved(<< >>) = << >>
    BY <1>2, <1>3, <1>5, FlatMappedFacts
  <1>7. \A q \in Seq(AnyTextItem) : Resolved(q) \in Seq(D)
    BY <1>2, <1>3, FlatMappedFacts
  <1>8. \A q \in Seq(AnyTextItem), i \in AnyTextItem : Resolved(Append(q, i)) = Resolved(q) \o Resolve(i)
    <2> SUFFICES ASSUME NEW q \in Seq(AnyTextItem), NEW i \in AnyTextItem
                 PROVE  Resolved(Append(q, i)) = Resolved(q) \o Resolve(i)
      OBVIOUS
    <2>1. FlatMapped(g, Append(q, i)) = FlatMapped(g, q) \o g[i]
      BY <1>2, FlatMappedFacts
    <2>2. Append(q, i) \in Seq(AnyTextItem)
      OBVIOUS
    <2> QED
      BY <1>3, <1>4, <2>1, <2>2
  <1>9. ASSUME NEW q \in Seq(AnyTextItem), NEW i \in AnyTextItem
        PROVE  State(Append(q, i)) = IF i.t = 9 THEN State(q) ELSE Read(State(q), AsRead(i))
    <2> DEFINE r == Resolved(q)
               x == AsRead(i)
    <2>1. r \in Seq(D) /\ x \in D
      BY <1>4, <1>7
    <2>2. Resolved(Append(q, i)) = IF i.t = 9 THEN r \o << >> ELSE r \o <<x>>
      BY <1>1, <1>8
    <2> HIDE DEF r, x
    <2>3. r \o << >> = r /\ r \o <<x>> = Append(r, x)
      BY <2>1
    <2>4. After(Append(r, x)) = Read(After(r), x)
      BY <2>1, AfterFacts
    <2> QED
      BY <2>2, <2>3, <2>4 DEF State, r, x
  <1>10. State(<< >>) = [at |-> << >>, nodes |-> {}]
    BY <1>6, AfterFacts DEF State
  <1>11. \A q \in Seq(AnyTextItem) : DOMAIN State(q) = {"at", "nodes"}
    BY <1>7, AfterDomain DEF State
  <1> QED
    BY <1>9, <1>10, <1>11

\* Objects that are open, one item further.
LEMMA DepthFacts ==
  ASSUME NEW S
  PROVE  /\ Depth(<< >>) = 0 /\ Balanced(<< >>)
         /\ \A q \in Seq(S) : Depth(q) \in Int
         /\ \A q \in Seq(S), i \in S :
              /\ Depth(Append(q, i)) = IF i.t = 0 THEN Depth(q) + 1
                                       ELSE IF i.t = 8 THEN Depth(q) - 1 ELSE Depth(q)
              /\ Balanced(Append(q, i)) <=> Balanced(q) /\ Depth(Append(q, i)) >= 0
  <1>1. Depth(<< >>) = 0 /\ Balanced(<< >>)
    <2>1. Count(<< >>, 0) = 0 /\ Count(<< >>, 8) = 0
      BY CountFacts
    <2>2. 1 .. Len(<< >>) = {}
      OBVIOUS
    <2> QED
      BY <2>1, <2>2 DEF Depth, Balanced
  <1>2. \A q \in Seq(S) : Count(q, 0) \in Nat /\ Count(q, 8) \in Nat
    <2> SUFFICES ASSUME NEW q \in Seq(S) PROVE Count(q, 0) \in Nat /\ Count(q, 8) \in Nat
      OBVIOUS
    <2>1. Count(q, 0) \in Nat /\ Count(q, 8) \in Nat
      BY CountFacts
    <2> QED
      BY <2>1
  <1>3. \A q \in Seq(S) : Depth(q) \in Int
    BY <1>2 DEF Depth
  <1>4. ASSUME NEW q \in Seq(S), NEW i \in S
        PROVE  /\ Depth(Append(q, i)) = IF i.t = 0 THEN Depth(q) + 1
                                        ELSE IF i.t = 8 THEN Depth(q) - 1 ELSE Depth(q)
               /\ Balanced(Append(q, i)) <=> Balanced(q) /\ Depth(Append(q, i)) >= 0
    <2>1. ASSUME NEW t
          PROVE  Count(Append(q, i), t) = Count(q, t) + (IF i.t = t THEN 1 ELSE 0)
      BY CountFacts, ZenonT(40)
    <2>2. /\ Count(Append(q, i), 0) = Count(q, 0) + (IF i.t = 0 THEN 1 ELSE 0)
          /\ Count(Append(q, i), 8) = Count(q, 8) + (IF i.t = 8 THEN 1 ELSE 0)
      BY <2>1
    <2>3. Count(q, 0) \in Nat /\ Count(q, 8) \in Nat
      BY <1>2
    <2>4. Depth(Append(q, i)) = IF i.t = 0 THEN Depth(q) + 1
                                ELSE IF i.t = 8 THEN Depth(q) - 1 ELSE Depth(q)
      BY <2>2, <2>3 DEF Depth
    <2> DEFINE r == Append(q, i)
               n == Len(q)
    <2>5. /\ r \in Seq(S) /\ n \in Nat /\ Len(r) = n + 1 /\ r[n + 1] = i
          /\ \A j \in 1 .. n : r[j] = q[j]
      BY Appended
    <2>6. SubSeq(r, 1, n + 1) = r
      BY <2>5
    <2>7. \A j \in 1 .. n : SubSeq(r, 1, j) = SubSeq(q, 1, j)
      <3> SUFFICES ASSUME NEW j \in 1 .. n PROVE SubSeq(r, 1, j) = SubSeq(q, 1, j)
        OBVIOUS
      <3> HIDE DEF r, n
      <3>1. \A m \in 1 .. j : r[m] = q[m]
        BY <2>5
      <3>2. SubSeq(r, 1, j) = [m \in 1 .. j |-> r[m]] /\ SubSeq(q, 1, j) = [m \in 1 .. j |-> q[m]]
        BY <2>5 DEF n
      <3> QED
        BY <3>1, <3>2
    <2>8. \A j : j \in 1 .. Len(r) <=> j \in 1 .. n \/ j = n + 1
      BY <2>5
    <2>9. Balanced(r) <=> Balanced(q) /\ Depth(r) >= 0
      <3>1. Balanced(r) <=> \A j \in 1 .. Len(r) : Depth(SubSeq(r, 1, j)) >= 0
        BY DEF Balanced
      <3>2. Balanced(q) <=> \A j \in 1 .. n : Depth(SubSeq(q, 1, j)) >= 0
        BY DEF Balanced
      <3> HIDE DEF r, n
      <3> QED
        BY <2>6, <2>7, <2>8, <3>1, <3>2
    <2> QED
      BY <2>4, <2>9
  <1> QED
    BY <1>1, <1>3, <1>4

\* The trees and calls of parse_text, and how they grow.
LEMMA TextTrees ==
  /\ Text!Object = SUBSET Nodes(Seq(Text!Char), Text!Value)
  /\ Text!Caller = Callers(Seq(Text!Char), Text!Value)
  /\ \A o, k, v, below : Text!Assign(o, k, v, below) = Assign(o, k, v, below)
  /\ \A kind, s : Text!Primitive(kind, s) = Primitive(kind, s)
  BY DEF Text!Object, Text!Node, Nodes, Text!Caller, Callers, Text!Assign, Assign,
         Text!Primitive, Primitive

\* The parser, with the calls s and the tree o, is where the items leave a reader.
Fits(s, o, items) ==
  /\ items \in Seq(AnyTextItem) /\ Balanced(items) /\ Len(s) = Depth(items)
  /\ s \in Seq(Text!Caller) /\ o \in Text!Object
  /\ Rooted(o) /\ \A i \in 1 .. Len(s) : Rooted(s[i].obj)
  /\ Keys(s) = State(items).at /\ Whole(s, o) = State(items).nodes

\* At first.
LEMMA FitsNothing == Fits(<< >>, {}, << >>)
  <1>1. {} \in Text!Object /\ Rooted({}) /\ Len(<< >>) = 0 /\ 1 .. Len(<< >>) = {} /\ Keys(<< >>) = << >>
    BY DEF Text!Object, Rooted, Keys
  <1>2. Whole(<< >>, {}) = {}
    BY <1>1, TextTrees, WholeRoot
  <1>3. State(<< >>).at = << >> /\ State(<< >>).nodes = {}
    BY StateFacts
  <1>4. << >> \in Seq(AnyTextItem) /\ << >> \in Seq(Text!Caller)
    OBVIOUS
  <1> QED
    BY <1>1, <1>2, <1>3, <1>4, DepthFacts DEF Fits

\* A comment.
LEMMA FitsComment ==
  ASSUME NEW s, NEW o, NEW items, Fits(s, o, items), NEW i \in AnyTextItem, i.t = 9
  PROVE  Fits(s, o, Append(items, i))
  <1>1. items \in Seq(AnyTextItem) /\ Append(items, i) \in Seq(AnyTextItem)
    BY DEF Fits
  <1>2. State(Append(items, i)) = State(items)
    BY <1>1, StateFacts
  <1>3. Depth(Append(items, i)) = Depth(items)
    BY <1>1, DepthFacts
  <1>4. Len(s) \in Nat
    BY DEF Fits
  <1>5. Depth(Append(items, i)) >= 0
    BY <1>3, <1>4 DEF Fits
  <1>6. Balanced(Append(items, i))
    BY <1>1, <1>5, DepthFacts DEF Fits
  <1> QED
    BY <1>1, <1>2, <1>3, <1>6 DEF Fits

\* A value under a key.
LEMMA FitsLeaf ==
  ASSUME NEW s, NEW o, NEW items, Fits(s, o, items), NEW i \in AnyTextItem, i.t = 1
  PROVE  Fits(s, Text!Assign(o, i.k, Text!Primitive("string", Means(i.v)), {}), Append(items, i))
  <1> DEFINE v == Primitive("string", Means(i.v))
             k == i.k
             p == Assign(o, k, v, {})
  <1>1. /\ items \in Seq(AnyTextItem) /\ Append(items, i) \in Seq(AnyTextItem)
        /\ s \in Seq(Text!Caller) /\ o \in Text!Object /\ Len(s) \in Nat
        /\ Rooted(o) /\ \A j \in 1 .. Len(s) : Rooted(s[j].obj)
    BY DEF Fits
  <1>2. k \in Seq(Text!Char) /\ Means(i.v) \in Seq(Text!Char) /\ {} \in Text!Object
    BY TextItemFields, MeansFacts DEF Text!Object
  <1>3. p \in Text!Object
    BY <1>1, <1>2, TextAssign, TextTrees
  <1>4. State(Append(items, i)) = Read(State(items), AsRead(i))
    BY <1>1, StateFacts
  <1>5. Read(State(items), AsRead(i))
          = [at |-> State(items).at, nodes |-> Put(State(items).nodes, Append(State(items).at, k), v)]
    <2> DEFINE a == State(items)
    <2> HIDE DEF a
    <2>1. AsRead(i).t = 1 /\ AsRead(i).k = i.k /\ AsRead(i).b = Means(i.v) /\ KindOf[1] = "string"
      BY DEF AsRead, KindOf
    <2>2. Read(a, AsRead(i)) = [at |-> a.at, nodes |-> Put(a.nodes, Append(a.at, i.k),
                                                          [kind |-> "string", bytes |-> Means(i.v)])]
      BY <2>1 DEF Read
    <2> QED
      BY <2>2 DEF a, Primitive
  <1> HIDE DEF v, k
  <1>6. Whole(s, p) = Put(Whole(s, o), Append(Keys(s), k), v)
    BY <1>1, <1>2, TextTrees, WholePut
  <1>7. Rooted(p)
    BY <1>1, <1>2, TextTrees, AssignRooted
  <1>8. Depth(Append(items, i)) = Depth(items)
    BY <1>1, DepthFacts
  <1>9. Balanced(Append(items, i))
    <2>1. Depth(Append(items, i)) >= 0
      BY <1>1, <1>8 DEF Fits
    <2> QED
      BY <1>1, <2>1, DepthFacts DEF Fits
  <1> HIDE DEF p
  <1>10. Fits(s, p, Append(items, i))
    BY <1>1, <1>3, <1>4, <1>5, <1>6, <1>7, <1>8, <1>9 DEF Fits
  <1> QED
    BY <1>10, TextTrees DEF p, v, k

\* A brace that opens an object.
LEMMA FitsOpen ==
  ASSUME NEW s, NEW o, NEW items, Fits(s, o, items), NEW i \in AnyTextItem, i.t = 0
  PROVE  Fits(Append(s, [obj |-> o, key |-> i.k]), {}, Append(items, i))
  <1> DEFINE k == i.k
             c == [obj |-> o, key |-> k]
             q == Append(s, c)
             v == Primitive("object", << >>)
  <1>1. /\ items \in Seq(AnyTextItem) /\ Append(items, i) \in Seq(AnyTextItem)
        /\ s \in Seq(Text!Caller) /\ o \in Text!Object /\ Len(s) \in Nat
        /\ Rooted(o) /\ \A j \in 1 .. Len(s) : Rooted(s[j].obj)
    BY DEF Fits
  <1>2. /\ k \in Seq(Text!Char) /\ i.v = << >> /\ {} \in Text!Object
        /\ c.obj = o /\ c.key = k /\ Rooted({})
    BY TextItemFields DEF Text!Object, Rooted
  <1>3. c \in Text!Caller
    BY <1>1, <1>2 DEF Text!Caller
  <1>4. State(Append(items, i)) = Read(State(items), AsRead(i))
    BY <1>1, StateFacts
  <1>5. Read(State(items), AsRead(i))
          = [at |-> Append(State(items).at, k), nodes |-> Put(State(items).nodes, Append(State(items).at, k), v)]
    <2> DEFINE a == State(items)
    <2> HIDE DEF a
    <2>1. AsRead(i).t = 0 /\ AsRead(i).k = i.k /\ AsRead(i).b = << >> /\ KindOf[0] = "object"
      BY <1>2, MeansFacts DEF AsRead, KindOf
    <2>2. Read(a, AsRead(i)) = [at |-> Append(a.at, i.k), nodes |-> Put(a.nodes, Append(a.at, i.k),
                                                          [kind |-> "object", bytes |-> << >>])]
      BY <2>1 DEF Read
    <2> QED
      BY <2>2 DEF a, Primitive
  <1> HIDE DEF v, k, c
  <1>6. Whole(q, {}) = Put(Whole(s, o), Append(Keys(s), k), v)
    BY <1>1, <1>2, <1>3, TextTrees, WholeOpen DEF v
  <1>7. Keys(q) = Append(Keys(s), k)
    BY <1>1, <1>2, <1>3, TextTrees, KeysFacts
  <1>8. Depth(Append(items, i)) = Depth(items) + 1
    BY <1>1, DepthFacts
  <1>9. /\ q \in Seq(Text!Caller) /\ Len(q) = Len(s) + 1 /\ q[Len(s) + 1] = c
        /\ \A j \in 1 .. Len(s) : q[j] = s[j]
        /\ \A j \in 1 .. Len(s) + 1 : j \in 1 .. Len(s) \/ j = Len(s) + 1
    BY <1>1, <1>3, Appended
  <1> HIDE DEF q
  <1>10. \A j \in 1 .. Len(q) : Rooted(q[j].obj)
    BY <1>1, <1>2, <1>9
  <1>11. Len(q) = Depth(Append(items, i))
    BY <1>8, <1>9 DEF Fits
  <1>12. Balanced(Append(items, i))
    <2>1. Depth(Append(items, i)) >= 0
      BY <1>1, <1>9, <1>11
    <2> QED
      BY <1>1, <2>1, DepthFacts DEF Fits
  <1>13. Fits(q, {}, Append(items, i))
    BY <1>1, <1>2, <1>4, <1>5, <1>6, <1>7, <1>9, <1>10, <1>11, <1>12 DEF Fits
  <1> QED
    BY <1>13 DEF q, c, k

\* A sequence without its last element, and that element.
LEMMA LastOff ==
  ASSUME NEW S, NEW q \in Seq(S), q # << >>
  PROVE  /\ SubSeq(q, 1, Len(q) - 1) \in Seq(S) /\ q[Len(q)] \in S
         /\ q = Append(SubSeq(q, 1, Len(q) - 1), q[Len(q)])
  <1>1. Front(q) = SubSeq(q, 1, Len(q) - 1) /\ Last(q) = q[Len(q)]
    BY DEF Front, Last
  <1> QED
    BY <1>1, FrontAndLast

\* The brace that closes it.
LEMMA FitsClose ==
  ASSUME NEW s, NEW o, NEW items, Fits(s, o, items), NEW i \in AnyTextItem, i.t = 8, s # << >>
  PROVE  LET c == s[Len(s)]
         IN  Fits(SubSeq(s, 1, Len(s) - 1),
                  Text!Assign(c.obj, c.key, Text!Primitive("object", << >>), o), Append(items, i))
  <1> DEFINE c == s[Len(s)]
             r == SubSeq(s, 1, Len(s) - 1)
             p == Assign(c.obj, c.key, Primitive("object", << >>), o)
  <1>1. /\ items \in Seq(AnyTextItem) /\ Append(items, i) \in Seq(AnyTextItem)
        /\ s \in Seq(Text!Caller) /\ o \in Text!Object /\ Len(s) \in Nat
        /\ Rooted(o) /\ \A j \in 1 .. Len(s) : Rooted(s[j].obj)
    BY DEF Fits
  <1>2. r \in Seq(Text!Caller) /\ c \in Text!Caller /\ s = Append(r, c)
    BY <1>1, LastOff
  <1>3. Rooted(c.obj)
    <2>1. Len(s) \in 1 .. Len(s)
      BY <1>1
    <2> QED
      BY <1>1, <2>1
  <1> HIDE DEF c, r
  <1>4. c.obj \in Text!Object /\ c.key \in Seq(Text!Char) /\ << >> \in Seq(Text!Char)
    BY <1>2 DEF Text!Caller
  <1>5. p \in Text!Object
    BY <1>1, <1>4, TextAssign, TextTrees
  <1>6. /\ Len(s) = Len(r) + 1 /\ Len(r) \in Nat /\ \A j \in 1 .. Len(r) : s[j] = r[j]
        /\ \A j \in 1 .. Len(r) : j \in 1 .. Len(s)
    <2>1. /\ Len(Append(r, c)) = Len(r) + 1 /\ Len(r) \in Nat
          /\ \A j \in 1 .. Len(r) : Append(r, c)[j] = r[j]
      BY <1>2, Appended
    <2> QED
      BY <1>2, <2>1
  <1>7. Whole(r, p) = Whole(s, o)
    BY <1>1, <1>2, TextTrees, WholeReturn
  <1>8. Keys(s) = Append(Keys(r), c.key) /\ Front(Append(Keys(r), c.key)) = Keys(r)
    <2>1. Keys(s) = Append(Keys(r), c.key) /\ Keys(r) \in Seq(Seq(Text!Char))
      BY <1>2, TextTrees, KeysFacts
    <2> QED
      BY <1>4, <2>1, FrontAppend
  <1>9. State(Append(items, i)).at = Front(State(items).at)
        /\ State(Append(items, i)).nodes = State(items).nodes
    <2> DEFINE a == State(items)
    <2>1. State(Append(items, i)) = Read(a, AsRead(i)) /\ DOMAIN a = {"at", "nodes"}
      BY <1>1, StateFacts
    <2> HIDE DEF a
    <2>2. AsRead(i).t = 8
      BY DEF AsRead
    <2>3. Read(a, AsRead(i)) = [a EXCEPT !.at = Front(@)]
      BY <2>2 DEF Read
    <2> QED
      BY <2>1, <2>3 DEF a
  <1>10. Rooted(p)
    BY <1>1, <1>3, <1>4, TextTrees, AssignRooted
  <1>11. Depth(Append(items, i)) = Depth(items) - 1
    BY <1>1, DepthFacts
  <1>12. Len(r) = Depth(Append(items, i))
    <2>1. Len(s) = Depth(items)
      BY DEF Fits
    <2> QED
      BY <1>6, <1>11, <2>1
  <1>13. Balanced(Append(items, i))
    <2>1. Depth(Append(items, i)) >= 0
      BY <1>6, <1>12
    <2> QED
      BY <1>1, <2>1, DepthFacts DEF Fits
  <1> HIDE DEF p
  <1>14. \A j \in 1 .. Len(r) : Rooted(r[j].obj)
    BY <1>1, <1>6
  <1>15. Fits(r, p, Append(items, i))
    BY <1>1, <1>2, <1>5, <1>7, <1>8, <1>9, <1>10, <1>12, <1>13, <1>14 DEF Fits
  <1> QED
    BY <1>15, TextTrees DEF r, c, p

-----------------------------------------------------------------------------
(* The items that are there in the text.                                   *)

\* The first pieces of a value, and how many characters they take.
Pieces(v, m) == SubSeq(v, 1, m)
Taking(v, m) == Len(Raw(Pieces(v, m)))

\* One piece more.
LEMMA PieceNext ==
  ASSUME NEW v \in Seq(Piece), NEW m \in 0 .. Len(v) - 1
  PROVE  /\ Pieces(v, m) \in Seq(Piece) /\ v[m + 1] \in Piece
         /\ Pieces(v, m + 1) = Append(Pieces(v, m), v[m + 1])
         /\ Raw(Pieces(v, m + 1)) = Raw(Pieces(v, m)) \o v[m + 1].raw
         /\ Taking(v, m) \in Nat /\ Len(v[m + 1].raw) \in Nat \ {0}
         /\ Taking(v, m + 1) = Taking(v, m) + Len(v[m + 1].raw)
         /\ \A j \in 1 .. Taking(v, m) : Raw(Pieces(v, m + 1))[j] = Raw(Pieces(v, m))[j]
         /\ \A j \in 1 .. Len(v[m + 1].raw) :
              Raw(Pieces(v, m + 1))[Taking(v, m) + j] = v[m + 1].raw[j]
  <1>1. /\ Pieces(v, m) \in Seq(Piece) /\ v[m + 1] \in Piece
        /\ Pieces(v, m + 1) = Append(Pieces(v, m), v[m + 1])
    BY FirstItems DEF Pieces
  <1> DEFINE p == Raw(Pieces(v, m))
             q == v[m + 1].raw
  <1>2. Raw(Pieces(v, m + 1)) = p \o q
    BY <1>1, RawFacts
  <1>3. p \in Seq(Text!Char) /\ q \in Seq(Text!Char) /\ Len(q) \in Nat \ {0}
    <2>1. p \in Seq(Text!Char)
      BY <1>1, RawFacts
    <2>2. q \in Seq(Text!Char) /\ (Len(q) = 1 \/ Len(q) = 2)
      BY <1>1, PieceFacts
    <2>3. 1 \in Nat \ {0} /\ 2 \in Nat \ {0}
      OBVIOUS
    <2> QED
      BY ONLY <2>1, <2>2, <2>3, Zenon
  <1> HIDE DEF p, q
  <1>4. p \in Seq(Text!Char) /\ q \in Seq(Text!Char)
    BY <1>3
  <1>5. /\ Len(p \o q) = Len(p) + Len(q) /\ Len(p) \in Nat
        /\ (\A j \in 1 .. Len(p) : (p \o q)[j] = p[j])
        /\ \A j \in 1 .. Len(q) : (p \o q)[Len(p) + j] = q[j]
    BY ONLY <1>4, Concatenated
  <1> QED
    BY <1>1, <1>2, <1>3, <1>5 DEF p, q, Taking

\* The first pieces stay.
LEMMA PiecePlaces ==
  ASSUME NEW v \in Seq(Piece), NEW m \in 0 .. Len(v), NEW l \in 0 .. Len(v), m <= l
  PROVE  /\ Taking(v, m) \in Nat /\ Taking(v, m) <= Taking(v, l)
         /\ \A j \in 1 .. Taking(v, m) : Raw(Pieces(v, l))[j] = Raw(Pieces(v, m))[j]
  <1>0. Len(v) \in Nat /\ m \in Nat /\ l \in Nat
    OBVIOUS
  <1>1. Taking(v, m) \in Nat
    <2>1. m \in Nat /\ m <= Len(v) /\ 1 \in Nat \ {0}
      BY <1>0
    <2>2. Pieces(v, m) \in Seq(Piece)
      BY <2>1, Cut DEF Pieces
    <2> QED
      BY <2>2, RawFacts DEF Taking
  <1> DEFINE Same(n) == /\ Taking(v, m) <= Taking(v, n)
                        /\ \A j \in 1 .. Taking(v, m) : Raw(Pieces(v, n))[j] = Raw(Pieces(v, m))[j]
             T == {n \in Nat : m <= n /\ n <= Len(v) => Same(n)}
  <1>2. 0 \in T
    <2>1. m <= 0 => m = 0
      BY <1>0
    <2> QED
      BY <1>1, <2>1
  <1>3. ASSUME NEW n \in Nat, n \in T PROVE n + 1 \in T
    <2> SUFFICES ASSUME m <= n + 1, n + 1 <= Len(v) PROVE Same(n + 1)
      OBVIOUS
    <2>1. CASE m = n + 1
      BY <1>1, <2>1
    <2>2. CASE m # n + 1
      <3>1. m <= n /\ n <= Len(v) /\ n \in 0 .. Len(v) - 1
        BY <1>0, <2>2
      <3>2. Same(n)
        BY <1>3, <3>1
      <3>3. /\ Taking(v, n) \in Nat /\ Len(v[n + 1].raw) \in Nat
            /\ Taking(v, n + 1) = Taking(v, n) + Len(v[n + 1].raw)
            /\ \A j \in 1 .. Taking(v, n) : Raw(Pieces(v, n + 1))[j] = Raw(Pieces(v, n))[j]
        BY <3>1, PieceNext
      <3>4. \A j \in 1 .. Taking(v, m) : j \in 1 .. Taking(v, n)
        BY <1>1, <3>2, <3>3
      <3>5. Taking(v, m) <= Taking(v, n + 1)
        BY <1>1, <3>2, <3>3
      <3> QED
        BY <3>2, <3>3, <3>4, <3>5
    <2> QED
      BY <2>1, <2>2
  <1>4. Nat \subseteq T
    <2> HIDE DEF T
    <2> QED
      BY <1>2, <1>3, NatSetInduction
  <1> QED
    BY <1>0, <1>1, <1>4

\* All pieces, and none.
LEMMA PieceEnds ==
  ASSUME NEW v \in Seq(Piece)
  PROVE  /\ Len(v) \in Nat /\ Pieces(v, Len(v)) = v /\ Taking(v, Len(v)) = Len(Raw(v))
         /\ Pieces(v, 0) = << >> /\ Taking(v, 0) = 0
  <1>1. Len(v) \in Nat /\ Pieces(v, Len(v)) = v /\ Pieces(v, 0) = << >>
    BY DEF Pieces
  <1>2. Len(<< >>) = 0
    OBVIOUS
  <1> QED
    BY <1>1, <1>2, RawFacts DEF Taking

\* A piece in the value.
LEMMA PiecePlace ==
  ASSUME NEW v \in Seq(Piece), NEW m \in 0 .. Len(v) - 1
  PROVE  /\ Taking(v, m + 1) <= Len(Raw(v))
         /\ \A j \in 1 .. Len(v[m + 1].raw) : Raw(v)[Taking(v, m) + j] = v[m + 1].raw[j]
  <1>1. m + 1 \in 0 .. Len(v) /\ Len(v) \in 0 .. Len(v) /\ m + 1 <= Len(v)
    BY PieceEnds
  <1>2. /\ Taking(v, m + 1) <= Len(Raw(v)) /\ Taking(v, m + 1) \in Nat
        /\ \A j \in 1 .. Taking(v, m + 1) : Raw(v)[j] = Raw(Pieces(v, m + 1))[j]
    BY <1>1, PiecePlaces, PieceEnds
  <1>3. /\ Taking(v, m) \in Nat /\ Len(v[m + 1].raw) \in Nat
        /\ Taking(v, m + 1) = Taking(v, m) + Len(v[m + 1].raw)
        /\ \A j \in 1 .. Len(v[m + 1].raw) :
              Raw(Pieces(v, m + 1))[Taking(v, m) + j] = v[m + 1].raw[j]
    BY PieceNext
  <1>4. \A j \in 1 .. Len(v[m + 1].raw) : Taking(v, m) + j \in 1 .. Taking(v, m + 1)
    BY <1>3
  <1> QED
    BY <1>2, <1>3, <1>4

\* A value of which n characters are there, that is m pieces and not the next.
LEMMA CutAt ==
  ASSUME NEW v \in Seq(Piece), NEW m \in 0 .. Len(v), NEW n \in Nat, Taking(v, m) <= n,
         m < Len(v) => Taking(v, m + 1) > n
  PROVE  CutValue(v, n) = Pieces(v, m) \o IF Taking(v, m) < n THEN <<Plain("nul")>> ELSE << >>
  <1> DEFINE Reaches(l) == Taking(v, l) <= n /\ (l < Len(v) => Taking(v, l + 1) > n)
             c == CHOOSE l \in 0 .. Len(v) : Reaches(l)
  <1>0. Len(v) \in Nat
    BY PieceEnds
  <1>1. c \in 0 .. Len(v) /\ Reaches(c)
    <2> HIDE DEF Reaches
    <2>1. Reaches(m)
      BY DEF Reaches
    <2> QED
      BY <2>1
  <1>2. ASSUME NEW a \in 0 .. Len(v), NEW b \in 0 .. Len(v), Reaches(a), Reaches(b), a < b PROVE FALSE
    <2>1. a < Len(v) /\ a + 1 \in 0 .. Len(v) /\ a + 1 <= b
      BY <1>0, <1>2
    <2>2. Taking(v, a + 1) <= Taking(v, b) /\ Taking(v, a + 1) \in Nat
      BY <2>1, PiecePlaces
    <2>3. Taking(v, b) \in Nat
      <3>1. b <= b
        BY <1>0
      <3> QED
        BY <3>1, PiecePlaces
    <2> QED
      BY <1>2, <2>1, <2>2, <2>3
  <1>3. c = m
    <2>1. Reaches(m)
      OBVIOUS
    <2> HIDE DEF Reaches, c
    <2>2. c < m \/ m < c \/ c = m
      BY <1>0, <1>1
    <2> QED
      BY <1>1, <1>2, <2>1, <2>2
  <1>4. CutValue(v, n) = SubSeq(v, 1, c) \o IF Len(Raw(SubSeq(v, 1, c))) < n THEN <<Plain("nul")>> ELSE << >>
    BY DEF CutValue, Taking, Pieces
  <1> HIDE DEF c
  <1> QED
    BY <1>3, <1>4 DEF Taking, Pieces

\* The items that are there in the text, and those it means.
There == Items(doc, Len(text) - 1)
Meant == Complete(doc, Len(text) - 1)

\* What is there of the last item.
LEMMA ThereLast ==
  ASSUME TextCutoff, NEW k \in 0 .. Len(doc) - 1, k + 1 = Len(doc)
  PROVE  LET i == doc[k + 1]
             left == Text!size - TEnd(k)
             opened == 4 + Len(i.k)
         IN  There = IF left >= Len(Lay(i)) - 1
                       THEN <<First(k + 1)>>
                       ELSE IF (i.t = 9 /\ left >= 2) \/ (i.t = 8 /\ left = 1)
                       THEN <<First(k)>>
                       ELSE IF i.t = 1 /\ left >= opened
                       THEN <<Append(First(k), [i EXCEPT !.v = CutValue(@, left - opened)])>>
                       ELSE << >>
  <1>1. doc \in Seq(AnyTextItem) /\ doc # << >> /\ Len(doc) \in Nat
    <2>1. doc \in Seq(AnyTextItem) /\ Len(doc) \in Nat
      BY DEF TextCutoff
    <2>2. Len(<< >>) = 0
      OBVIOUS
    <2> QED
      BY <2>1, <2>2
  <1>2. Len(text) - 1 = Text!size
    <2>1. Text!size \in Nat /\ TEnd(k) \in Nat /\ TEnd(k) < Text!size
      BY TextBytes
    <2>2. text # << >>
      BY <2>1 DEF Text!size
    <2> QED
      BY <2>2 DEF Text!size
  <1>3. Front(doc) = First(k) /\ doc = First(k + 1)
    <2>1. Len(doc) - 1 = k
      BY <1>1
    <2>2. First(Len(doc)) = doc
      BY <1>1, TextEnds
    <2> QED
      BY <2>1, <2>2 DEF Front, First
  <1> DEFINE n == Text!size
             f == First(k)
             g == First(k + 1)
             i == doc[k + 1]
  <1>4. Items(doc, n) =
          IF n - Len(PrintAll(f)) >= Len(Lay(i)) - 1
            THEN <<doc>>
            ELSE IF (i.t = 9 /\ n - Len(PrintAll(f)) >= 2) \/ (i.t = 8 /\ n - Len(PrintAll(f)) = 1)
            THEN <<f>>
            ELSE IF i.t = 1 /\ n - Len(PrintAll(f)) >= 4 + Len(i.k)
            THEN <<Append(f, [i EXCEPT !.v = CutValue(@, n - Len(PrintAll(f)) - (4 + Len(i.k)))])>>
            ELSE << >>
    <2>1. Front(doc) = f /\ doc[Len(doc)] = i
      BY <1>3
    <2> HIDE DEF n, f, i
    <2> QED
      BY <1>1, <2>1 DEF Items
  <1>5. There = Items(doc, n)
    BY <1>2 DEF There
  <1> QED
    BY <1>3, <1>4, <1>5 DEF TEnd

\* The same, by the kind of the item.
LEMMA ThereKinds ==
  ASSUME TextCutoff, NEW k \in 0 .. Len(doc) - 1, k + 1 = Len(doc)
  PROVE  LET i == doc[k + 1]
             e == TEnd(k)
             l == Len(i.k)
             r == Len(Raw(i.v))
             n == Text!size
         IN  /\ i.t \in {0, 1} /\ n < e + 4 + l => There = << >>
             /\ i.t = 0 /\ n >= e + 4 + l => There = <<First(k + 1)>>
             /\ i.t = 1 /\ n >= e + 5 + l + r => There = <<First(k + 1)>>
             /\ i.t = 1 /\ n >= e + 4 + l /\ n < e + 5 + l + r
                => There = <<Append(First(k), [i EXCEPT !.v = CutValue(@, n - e - (4 + l))])>>
             /\ i.t = 8 /\ n = e + 1 => There = <<First(k)>>
             /\ i.t = 8 /\ n >= e + 2 => There = <<First(k + 1)>>
             /\ i.t = 9 /\ n = e + 1 => There = << >>
             /\ i.t = 9 /\ n = e + 2 => There = <<First(k)>>
             /\ i.t = 9 /\ n >= e + 3 => There = <<First(k + 1)>>
  <1> DEFINE i == doc[k + 1]
             e == TEnd(k)
             l == Len(i.k)
             r == Len(Raw(i.v))
             n == Text!size
             y == Len(Lay(i))
             part == Append(First(k), [i EXCEPT !.v = CutValue(@, n - e - (4 + l))])
  <1>1. There = IF n - e >= y - 1 THEN <<First(k + 1)>>
                ELSE IF (i.t = 9 /\ n - e >= 2) \/ (i.t = 8 /\ n - e = 1) THEN <<First(k)>>
                ELSE IF i.t = 1 /\ n - e >= 4 + l THEN <<part>>
                ELSE << >>
    BY ThereLast
  <1>2. i \in AnyTextItem /\ e \in Nat /\ n \in Nat
    BY TextBytes
  <1>3. i.t \in {0, 1, 8, 9} /\ l \in Nat
    BY <1>2, TextItemFields
  <1>4. i.t = 0 => y = l + 5
    BY <1>2, ObjectLay
  <1>5. i.t = 1 => y = l + r + 6 /\ r \in Nat
    BY <1>2, StringLay
  <1>6. (i.t = 8 => y = 3) /\ (i.t = 9 => y = 4)
    BY <1>2, OtherLay
  <1> HIDE DEF i, e, l, r, n, y, part
  <1>7. /\ i.t \in {0, 1} /\ n < e + 4 + l => There = << >>
        /\ i.t = 0 /\ n >= e + 4 + l => There = <<First(k + 1)>>
        /\ i.t = 1 /\ n >= e + 5 + l + r => There = <<First(k + 1)>>
        /\ i.t = 1 /\ n >= e + 4 + l /\ n < e + 5 + l + r => There = <<part>>
        /\ i.t = 8 /\ n = e + 1 => There = <<First(k)>>
        /\ i.t = 8 /\ n >= e + 2 => There = <<First(k + 1)>>
        /\ i.t = 9 /\ n = e + 1 => There = << >>
        /\ i.t = 9 /\ n = e + 2 => There = <<First(k)>>
        /\ i.t = 9 /\ n >= e + 3 => There = <<First(k + 1)>>
    <2>1. CASE i.t = 0
      BY <1>1, <1>2, <1>3, <1>4, <2>1
    <2>2. CASE i.t = 1
      BY <1>1, <1>2, <1>3, <1>5, <2>2
    <2>3. CASE i.t = 8
      BY <1>1, <1>2, <1>6, <2>3
    <2>4. CASE i.t = 9
      BY <1>1, <1>2, <1>6, <2>4
    <2> QED
      BY <1>3, <2>1, <2>2, <2>3, <2>4
  <1> QED
    BY <1>7 DEF i, e, l, r, n, part

\* What the text means.
LEMMA MeantFacts ==
  /\ There = << >> => Meant = << >>
  /\ \A x : There = <<x>> =>
       Meant = IF Balanced(x) /\ Depth(x) = 0 THEN <<x>> ELSE << >>
  <1>1. Meant = IF \A i \in 1 .. Len(There) : Balanced(There[i]) /\ Depth(There[i]) = 0
                  THEN There ELSE << >>
    BY DEF Meant, Complete, There
  <1>2. ASSUME NEW x, There = <<x>>
        PROVE  Meant = IF Balanced(x) /\ Depth(x) = 0 THEN <<x>> ELSE << >>
    <2>1. 1 .. Len(There) = {1} /\ There[1] = x
      BY <1>2
    <2> QED
      BY <1>1, <1>2, <2>1
  <1> QED
    BY <1>1, <1>2

\* A brace that closes the root: the text means nothing, whatever follows.
LEMMA ClosesRoot ==
  ASSUME TextCutoff, NEW k \in 0 .. Len(doc) - 1, doc[k + 1].t = 8, Depth(First(k)) = 0,
         k + 1 = Len(doc) => Text!size >= TEnd(k) + 2
  PROVE  Meant = << >>
  <1>1. doc \in Seq(AnyTextItem) /\ Len(doc) \in Nat
    BY DEF TextCutoff
  <1>2. \A n \in 0 .. Len(doc) : First(n) \in Seq(AnyTextItem)
    BY <1>1, TextEnds
  <1>3. \A n \in 0 .. Len(doc) - 1 : First(n + 1) = Append(First(n), doc[n + 1]) /\ doc[n + 1] \in AnyTextItem
    BY <1>1, TextEnds
  <1>0. ASSUME NEW n \in 0 .. Len(doc) - 1
        PROVE  /\ Balanced(First(n + 1)) => Balanced(First(n)) /\ Depth(First(n + 1)) >= 0
               /\ doc[n + 1].t = 8 => Depth(First(n + 1)) = Depth(First(n)) - 1
    <2> DEFINE q == First(n)
               i == doc[n + 1]
    <2>1. First(n + 1) = Append(q, i) /\ q \in Seq(AnyTextItem) /\ i \in AnyTextItem
      BY <1>1, <1>2, <1>3, SMTT(20)
    <2> HIDE DEF q, i
    <2>2. /\ Balanced(Append(q, i)) <=> Balanced(q) /\ Depth(Append(q, i)) >= 0
          /\ i.t = 8 => Depth(Append(q, i)) = Depth(q) - 1
      BY <2>1, DepthFacts
    <2> QED
      BY <2>1, <2>2 DEF q, i
  <1> DEFINE T == {n \in Nat : k + 1 <= n /\ n <= Len(doc) => ~Balanced(First(n))}
  <1>4. 0 \in T
    BY <1>1
  <1>5. ASSUME NEW n \in Nat, n \in T PROVE n + 1 \in T
    <2> SUFFICES ASSUME k + 1 <= n + 1, n + 1 <= Len(doc) PROVE ~Balanced(First(n + 1))
      OBVIOUS
    <2>1. n \in 0 .. Len(doc) - 1 /\ n \in 0 .. Len(doc) /\ n <= Len(doc)
      BY <1>1
    <2>3. CASE k = n
      <3>1. Depth(First(k + 1)) = 0 - 1
        <4>1. doc[n + 1].t = 8 /\ Depth(First(n)) = 0
          BY <2>3
        <4> QED
          BY <1>0, <2>1, <2>3, <4>1
      <3>2. ~(Depth(First(n + 1)) >= 0)
        BY <2>3, <3>1
      <3> QED
        BY <1>0, <2>1, <3>2
    <2>4. CASE k # n
      <3>1. ~Balanced(First(n))
        <4>1. k + 1 <= n
          BY <2>4
        <4> QED
          BY <1>5, <2>1, <4>1
      <3> QED
        BY <1>0, <2>1, <3>1
    <2> QED
      BY <2>3, <2>4
  <1>6. Nat \subseteq T
    <2> HIDE DEF T
    <2> QED
      BY <1>4, <1>5, NatSetInduction
  <1>7. \A n \in 0 .. Len(doc) : k + 1 <= n => ~Balanced(First(n))
    BY <1>6
  <1> HIDE DEF T
  <1> DEFINE L == Len(doc) - 1
             j == doc[L + 1]
             w == [j EXCEPT !.v = CutValue(@, Text!size - TEnd(L) - (4 + Len(j.k)))]
  <1>8. L \in 0 .. Len(doc) - 1 /\ L + 1 = Len(doc) /\ k <= L
    BY <1>1
  <1>9. k < L => ~Balanced(Append(First(L), w))
    <2> SUFFICES ASSUME k < L PROVE ~Balanced(Append(First(L), w))
      OBVIOUS
    <2>1. First(L) \in Seq(AnyTextItem) /\ ~Balanced(First(L))
      <3> HIDE DEF L
      <3>1. L \in 0 .. Len(doc) /\ k + 1 <= L
        BY <1>1, <1>8
      <3> QED
        BY <1>2, <1>7, <3>1
    <2> DEFINE S == AnyTextItem \cup {w}
    <2> HIDE DEF w, L
    <2>2. First(L) \in Seq(S) /\ w \in S
      <3>1. AnyTextItem \subseteq S /\ w \in S
        OBVIOUS
      <3> HIDE DEF S
      <3> QED
        BY <2>1, <3>1
    <2> HIDE DEF S
    <2>3. Balanced(Append(First(L), w)) <=> Balanced(First(L)) /\ Depth(Append(First(L), w)) >= 0
      BY <2>2, DepthFacts
    <2> QED
      BY <2>1, <2>3
  <1>10. ~Balanced(First(L + 1)) /\ (k < L => ~Balanced(First(L)))
    <2> HIDE DEF L
    <2>1. L + 1 \in 0 .. Len(doc) /\ k + 1 <= L + 1 /\ (k < L => L \in 0 .. Len(doc) /\ k + 1 <= L)
      BY <1>1, <1>8
    <2> QED
      BY <1>7, <2>1
  <1>11. There = << >> \/ There = <<First(L + 1)>> \/ (k < L /\ (There = <<First(L)>> \/ There = <<Append(First(L), w)>>))
    <2>1. CASE k < L
      <3>1. There = IF Text!size - TEnd(L) >= Len(Lay(j)) - 1
                       THEN <<First(L + 1)>>
                       ELSE IF (j.t = 9 /\ Text!size - TEnd(L) >= 2) \/ (j.t = 8 /\ Text!size - TEnd(L) = 1)
                       THEN <<First(L)>>
                       ELSE IF j.t = 1 /\ Text!size - TEnd(L) >= 4 + Len(j.k)
                       THEN <<Append(First(L), w)>>
                       ELSE << >>
        <4> HIDE DEF L
        <4> QED
          BY <1>8, ThereLast
      <3> HIDE DEF w, j, L
      <3> QED
        BY <2>1, <3>1
    <2>2. CASE k = L
      <3>1. There = <<First(L + 1)>>
        <4> HIDE DEF L
        <4> QED
          BY <1>8, <2>2, ThereKinds
      <3> QED
        BY <3>1
    <2>3. k < L \/ k = L
      <3> HIDE DEF L
      <3> QED
        BY <1>1, <1>8
    <2> QED
      BY <2>1, <2>2, <2>3
  <1> HIDE DEF w, j, L
  <1> QED
    BY <1>9, <1>10, <1>11, MeantFacts

-----------------------------------------------------------------------------
(* The invariant: parse_text has read the first k items.                   *)

\* It is before the item that follows them, or at the end of the text.
AtNext(k) ==
  /\ k \in 0 .. Len(doc) - 1 /\ Fits(calls, tree, First(k))
  /\ Text!skip_ws(cur) = Text!skip_ws(TEnd(k))
AtEnd ==
  \E items : /\ There = <<items>> /\ Fits(calls, tree, items)
             /\ Text!skip_ws(cur) >= Text!size

\* It is inside that item: in its key, behind the key, in its value.
InItem(k) == k \in 0 .. Len(doc) - 1 /\ Fits(calls, tree, First(k)) /\ doc[k + 1].t \in {0, 1}
AtName(k) ==
  /\ InItem(k) /\ StartOf(chars, doc[k + 1].k)
  /\ cur = TEnd(k) + 1 + Len(chars) /\ cur <= Text!size
AfterName(k) ==
  /\ InItem(k) /\ name = doc[k + 1].k
  /\ cur = TEnd(k) + 2 + Len(name) /\ cur <= Text!size
AtText(k) ==
  /\ InItem(k) /\ name = doc[k + 1].k /\ doc[k + 1].t = 1 /\ cur <= Text!size
  /\ \E m \in 0 .. Len(doc[k + 1].v) :
       /\ cur = TEnd(k) + 4 + Len(name) + Taking(doc[k + 1].v, m)
       /\ chars = Means(Pieces(doc[k + 1].v, m))

\* Or at the end of a text that ends in a value, or that means nothing.
CutText(k) ==
  /\ InItem(k) /\ name = doc[k + 1].k /\ doc[k + 1].t = 1 /\ cur >= Text!size
  /\ \E w \in Seq(Piece) :
       There = <<Append(First(k), [doc[k + 1] EXCEPT !.v = w])>> /\ chars = Means(w)
Nothing == cur >= Text!size /\ Meant = << >>

\* parse_app: TextDecodes, of the product that it is about.
Outcome ==
  LET whole == IF Meant = << >> THEN {} ELSE Meaning(Resolved(Meant[1]))
  IN  IF \E n \in whole : n.path = <<AppInfo>> /\ n.val.kind = "object"
        THEN /\ at = "done"
             /\ {[n EXCEPT !.path = <<AppInfo>> \o @] : n \in tree}
                  = {n \in whole : n.path[1] = AppInfo /\ Len(n.path) > 1}
        ELSE at = "thrown"

TextDecodeInv ==
  /\ TextCutoff
  /\ at = "entry"  => AtEnd \/ \E k : AtNext(k)
  /\ at = "key"    => \E k : AtName(k)
  /\ at = "after"  => Nothing \/ \E k : AfterName(k)
  /\ at = "value"  => \E k : AtText(k) \/ CutText(k)
  /\ at = "parsed" => tree \in Text!Object /\ \E items : Meant = <<items>> /\ tree = State(items).nodes
  /\ at \in {"done", "thrown"} => Outcome

\* What a step of the parser leaves as it is.
LEMMA TextFrame ==
  ASSUME UNCHANGED <<doc, text>>
  PROVE  /\ TextCutoff' <=> TextCutoff
         /\ There' = There /\ Meant' = Meant /\ Text!size' = Text!size
         /\ Text!skip_ws(cur)' = Text!skip_ws(cur')
         /\ \A k : /\ TEnd(k)' = TEnd(k) /\ First(k)' = First(k)
                   /\ Text!skip_ws(TEnd(k))' = Text!skip_ws(TEnd(k))
                   /\ Fits(calls, tree, First(k))' <=> Fits(calls', tree', First(k))
  <1>1. /\ TextCutoff' <=> TextCutoff
        /\ There' = There /\ Meant' = Meant /\ Text!size' = Text!size
    BY DEF There, Meant, TextCutoff, Text!size
  <1>2. Text!skip_ws(cur)' = Text!skip_ws(cur')
    BY DEF Text!skip_ws, Text!At, Text!size, Text!isspace
  <1>3. ASSUME NEW k
        PROVE  /\ TEnd(k)' = TEnd(k) /\ First(k)' = First(k)
               /\ Text!skip_ws(TEnd(k))' = Text!skip_ws(TEnd(k))
               /\ Fits(calls, tree, First(k))' <=> Fits(calls', tree', First(k))
    <2>1. First(k)' = First(k)
      BY DEF First
    <2>2. TEnd(k)' = TEnd(k)
      BY DEF TEnd, First
    <2>3. Text!skip_ws(TEnd(k))' = Text!skip_ws(TEnd(k))
      <3>1. Text!skip_ws(TEnd(k))' = Text!skip_ws(TEnd(k)')
        BY DEF Text!skip_ws, Text!At, Text!size, Text!isspace
      <3> QED
        BY <2>2, <3>1
    <2>4. Fits(calls, tree, First(k))' <=> Fits(calls', tree', First(k))
      BY DEF First
    <2> QED
      BY <2>1, <2>2, <2>3, <2>4
  <1> QED
    BY <1>1, <1>2, <1>3

\* The predicates of the invariant, after a step.
LEMMA TextNow ==
  ASSUME UNCHANGED <<doc, text>>, NEW k
  PROVE  /\ AtNext(k)' <=> /\ k \in 0 .. Len(doc) - 1 /\ Fits(calls', tree', First(k))
                           /\ Text!skip_ws(cur') = Text!skip_ws(TEnd(k))
         /\ InItem(k)' <=> /\ k \in 0 .. Len(doc) - 1 /\ Fits(calls', tree', First(k))
                           /\ doc[k + 1].t \in {0, 1}
         /\ AtName(k)' <=> /\ InItem(k)' /\ StartOf(chars', doc[k + 1].k)
                           /\ cur' = TEnd(k) + 1 + Len(chars') /\ cur' <= Text!size
         /\ AfterName(k)' <=> /\ InItem(k)' /\ name' = doc[k + 1].k
                              /\ cur' = TEnd(k) + 2 + Len(name') /\ cur' <= Text!size
         /\ AtText(k)' <=> /\ InItem(k)' /\ name' = doc[k + 1].k /\ doc[k + 1].t = 1
                           /\ cur' <= Text!size
                           /\ \E m \in 0 .. Len(doc[k + 1].v) :
                                /\ cur' = TEnd(k) + 4 + Len(name') + Taking(doc[k + 1].v, m)
                                /\ chars' = Means(Pieces(doc[k + 1].v, m))
         /\ CutText(k)' <=> /\ InItem(k)' /\ name' = doc[k + 1].k /\ doc[k + 1].t = 1
                            /\ cur' >= Text!size
                            /\ \E w \in Seq(Piece) :
                                 /\ There = <<Append(First(k), [doc[k + 1] EXCEPT !.v = w])>>
                                 /\ chars' = Means(w)
  <1>1. doc' = doc
    OBVIOUS
  <1>2. InItem(k)' <=> /\ k \in 0 .. Len(doc) - 1 /\ Fits(calls', tree', First(k))
                       /\ doc[k + 1].t \in {0, 1}
    BY <1>1, TextFrame DEF InItem
  <1>3. AtNext(k)' <=> /\ k \in 0 .. Len(doc) - 1 /\ Fits(calls', tree', First(k))
                       /\ Text!skip_ws(cur') = Text!skip_ws(TEnd(k))
    BY <1>1, TextFrame DEF AtNext
  <1>4. AtName(k)' <=> /\ InItem(k)' /\ StartOf(chars', doc[k + 1].k)
                       /\ cur' = TEnd(k) + 1 + Len(chars') /\ cur' <= Text!size
    BY <1>1, TextFrame DEF AtName, StartOf
  <1>5. AfterName(k)' <=> /\ InItem(k)' /\ name' = doc[k + 1].k
                          /\ cur' = TEnd(k) + 2 + Len(name') /\ cur' <= Text!size
    BY <1>1, TextFrame DEF AfterName
  <1>6. AtText(k)' <=> /\ InItem(k)' /\ name' = doc[k + 1].k /\ doc[k + 1].t = 1
                       /\ cur' <= Text!size
                       /\ \E m \in 0 .. Len(doc[k + 1].v) :
                            /\ cur' = TEnd(k) + 4 + Len(name') + Taking(doc[k + 1].v, m)
                            /\ chars' = Means(Pieces(doc[k + 1].v, m))
    BY <1>1, TextFrame DEF AtText
  <1>7. CutText(k)' <=> /\ InItem(k)' /\ name' = doc[k + 1].k /\ doc[k + 1].t = 1
                        /\ cur' >= Text!size
                        /\ \E w \in Seq(Piece) :
                             /\ There = <<Append(First(k), [doc[k + 1] EXCEPT !.v = w])>>
                             /\ chars' = Means(w)
    BY <1>1, TextFrame DEF CutText
  <1> QED
    BY <1>2, <1>3, <1>4, <1>5, <1>6, <1>7

\* The end of the text, and a value that is known, after a step.
LEMMA EndNow ==
  ASSUME UNCHANGED <<doc, text>>, NEW items, There = <<items>>, Fits(calls', tree', items),
         Text!skip_ws(cur') >= Text!size
  PROVE  AtEnd'
  <1>1. There' = <<items>> /\ Text!skip_ws(cur)' >= Text!size'
    BY TextFrame
  <1>2. Fits(calls, tree, items)'
    OBVIOUS
  <1> QED
    BY <1>1, <1>2 DEF AtEnd

\* skip_ws over a blank, at the end of the text, and at another character.
LEMMA SkipOne ==
  ASSUME Text!size \in Nat, NEW p \in Nat
  PROVE  /\ p < Text!size /\ Text!At(p) \in {"newline", "tab"} => Text!skip_ws(p) = Text!skip_ws(p + 1)
         /\ p >= Text!size => Text!skip_ws(p) = p
         /\ Text!At(p) \notin {"newline", "tab", "slash"} => Text!skip_ws(p) = p
         /\ Text!At(p) = "slash" /\ p + 1 >= Text!size => Text!skip_ws(p) = p
  <1>1. /\ p < Text!size /\ Text!isspace(Text!At(p)) => Text!skip_ws(p) = Text!skip_ws(p + 1)
        /\ ~(p < Text!size /\ Text!isspace(Text!At(p)))
           /\ ~(p + 1 < Text!size /\ Text!At(p) = "slash" /\ Text!At(p + 1) = "slash")
           => Text!skip_ws(p) = p
    BY SkipFacts
  <1>2. p >= Text!size => ~(p < Text!size) /\ ~(p + 1 < Text!size)
    OBVIOUS
  <1> QED
    BY <1>1, <1>2 DEF Text!isspace

\* What skip_ws finds where an item starts.
LEMMA ItemStart ==
  ASSUME TextCutoff, NEW k \in 0 .. Len(doc) - 1
  PROVE  LET t == doc[k + 1].t
             e == TEnd(k)
             n == Text!size
         IN  /\ t \in {0, 1} => Text!skip_ws(e) = e /\ Text!At(e) = "quote"
             /\ t = 8 => Text!skip_ws(e) = e + 1 /\ (e + 1 < n => Text!At(e + 1) = "close")
             /\ t = 9 /\ n = e + 1 => Text!skip_ws(e) = e /\ Text!At(e) = "slash"
             /\ t = 9 /\ n \in {e + 2, e + 3} => Text!skip_ws(e) = n
             /\ t = 9 /\ n > e + 3 => Text!skip_ws(e) = Text!skip_ws(TEnd(k + 1))
  <1> DEFINE i == doc[k + 1]
             y == Lay(i)
             e == TEnd(k)
             n == Text!size
  <1>1. /\ n \in Nat /\ i \in AnyTextItem /\ e \in Nat /\ e < n /\ TEnd(k + 1) = e + Len(y)
        /\ \A j \in 1 .. Len(y) : Seen(e + j - 1, y[j])
    BY TextBytes
  <1> HIDE DEF y, e, n
  <1>2. \A j \in 1 .. Len(y) : e + j - 1 < n => Text!At(e + j - 1) = y[j]
    BY <1>1 DEF Seen, n
  <1>3. CASE i.t \in {0, 1}
    <2>1. Len(y) \in Nat /\ Len(y) >= 1 /\ y[1] = "quote"
      <3>1. CASE i.t = 0
        <4>1. Len(y) = Len(i.k) + 5 /\ Len(i.k) \in Nat /\ y[1] = "quote"
          BY <1>1, <3>1, ObjectLay DEF y
        <4> QED
          BY <4>1
      <3>2. CASE i.t = 1
        <4>1. /\ Len(y) = Len(i.k) + Len(Raw(i.v)) + 6 /\ Len(i.k) \in Nat /\ Len(Raw(i.v)) \in Nat
              /\ y[1] = "quote"
          BY <1>1, <3>2, StringLay DEF y
        <4>2. \A a, b \in Nat : a + b + 6 \in Nat /\ a + b + 6 >= 1
          OBVIOUS
        <4>3. Len(y) \in Nat /\ Len(y) >= 1
          BY ONLY <4>1, <4>2, Zenon
        <4> QED
          BY <4>1, <4>3
      <3> QED
        BY <1>3, <3>1, <3>2
    <2>2. e + 1 - 1 = e /\ 1 \in 1 .. Len(y)
      BY <1>1, <2>1
    <2>3. Text!At(e) = "quote"
      BY <1>1, <1>2, <2>1, <2>2
    <2>4. Text!skip_ws(e) = e
      BY <1>1, <2>3, SkipOne DEF n
    <2> QED
      BY <1>3, <2>3, <2>4 DEF e, n
  <1>4. CASE i.t = 8
    <2>1. Len(y) = 3 /\ y[1] = "tab" /\ y[2] = "close"
      BY <1>1, <1>4, OtherLay DEF y
    <2>2. e + 1 - 1 = e /\ e + 2 - 1 = e + 1 /\ 1 \in 1 .. Len(y) /\ 2 \in 1 .. Len(y) /\ e + 1 \in Nat
      BY <1>1, <2>1
    <2>3. Text!At(e) = "tab" /\ (e + 1 < n => Text!At(e + 1) = "close")
      BY <1>1, <1>2, <2>1, <2>2
    <2>4. Text!skip_ws(e) = Text!skip_ws(e + 1)
      BY <1>1, <2>3, SkipOne DEF n
    <2>5. Text!skip_ws(e + 1) = e + 1
      BY <1>1, <2>2, <2>3, SkipOne DEF n
    <2> QED
      BY <1>4, <2>3, <2>4, <2>5 DEF e, n
  <1>5. CASE i.t = 9
    <2>1. Len(y) = 4 /\ y[1] = "slash" /\ y[2] = "slash" /\ y[3] = "quote" /\ y[4] = "newline"
      BY <1>1, <1>5, OtherLay DEF y
    <2>2. /\ e + 1 - 1 = e /\ e + 2 - 1 = e + 1 /\ e + 3 - 1 = e + 2 /\ e + 4 - 1 = e + 3
          /\ 1 \in 1 .. Len(y) /\ 2 \in 1 .. Len(y) /\ 3 \in 1 .. Len(y) /\ 4 \in 1 .. Len(y)
          /\ e + 2 \in Nat /\ e + 3 \in Nat /\ e + 3 + 1 = e + 4
      BY <1>1, <2>1
    <2>3. /\ Text!At(e) = "slash" /\ (e + 1 < n => Text!At(e + 1) = "slash")
          /\ (e + 2 < n => Text!At(e + 2) = "quote") /\ (e + 3 < n => Text!At(e + 3) = "newline")
      BY <1>1, <1>2, <2>1, <2>2
    <2>4. n = e + 1 => Text!skip_ws(e) = e
      <3>1. n = e + 1 => e + 1 >= n
        BY <1>1
      <3> QED
        BY <1>1, <2>3, <3>1, SkipOne DEF n
    <2>5. e + 1 < n => Text!skip_ws(e) = Text!skip_ws(IF e + 2 < n THEN e + 3 ELSE e + 2)
      <3>1. (e + 2 < n => Text!At(e + 2) # "newline")
        BY <2>3
      <3> QED
        BY <1>1, <2>3, <3>1, SkipFacts DEF n
    <2>6. n = e + 2 => Text!skip_ws(e) = n
      <3> SUFFICES ASSUME n = e + 2 PROVE Text!skip_ws(e) = n
        OBVIOUS
      <3>1. e + 1 < n /\ ~(e + 2 < n) /\ e + 2 >= n
        BY <1>1
      <3> QED
        BY <1>1, <2>2, <2>5, <3>1, SkipOne DEF n
    <2>7. n = e + 3 => Text!skip_ws(e) = n
      <3> SUFFICES ASSUME n = e + 3 PROVE Text!skip_ws(e) = n
        OBVIOUS
      <3>1. e + 1 < n /\ e + 2 < n /\ e + 3 >= n
        BY <1>1
      <3> QED
        BY <1>1, <2>2, <2>5, <3>1, SkipOne DEF n
    <2>8. n > e + 3 => Text!skip_ws(e) = Text!skip_ws(TEnd(k + 1))
      <3> SUFFICES ASSUME n > e + 3 PROVE Text!skip_ws(e) = Text!skip_ws(TEnd(k + 1))
        OBVIOUS
      <3>1. e + 1 < n /\ e + 2 < n /\ e + 3 < n
        BY <1>1
      <3>2. Text!skip_ws(e + 3) = Text!skip_ws(e + 3 + 1)
        BY <1>1, <2>2, <2>3, <3>1, SkipOne DEF n
      <3> QED
        BY <1>1, <2>1, <2>2, <2>5, <3>1, <3>2
    <2> QED
      BY <1>5, <2>3, <2>4, <2>6, <2>7, <2>8 DEF e, n
  <1>6. i.t \in {0, 1, 8, 9}
    BY <1>1, TextItemFields
  <1> QED
    BY <1>3, <1>4, <1>5, <1>6 DEF e, n

\* An item has been read up to its last newline.
LEMMA NextItem ==
  ASSUME TextCutoff, UNCHANGED <<doc, text>>, NEW k \in 0 .. Len(doc) - 1,
         doc[k + 1].t # 9, Fits(calls', tree', First(k + 1)),
         cur' = TEnd(k + 1) - 1, cur' <= Text!size,
         k + 1 = Len(doc) => There = <<First(k + 1)>>
  PROVE  AtEnd' \/ \E j : AtNext(j)'
  <1> DEFINE i == doc[k + 1]
             y == Lay(i)
             e == TEnd(k)
             f == TEnd(k + 1)
             n == Text!size
             z == Len(y)
  <1>1. /\ n \in Nat /\ i \in AnyTextItem /\ e \in Nat /\ f = e + z /\ f \in Nat
        /\ k + 1 < Len(doc) => f < n /\ k + 1 \in 0 .. Len(doc) - 1
        /\ k + 1 = Len(doc) => n <= f
        /\ \A j \in 1 .. z : Seen(e + j - 1, y[j])
    BY TextBytes
  <1>2. z \in Nat \ {0} /\ y[z] = "newline"
    <2>1. i.t \in {0, 1, 8}
      BY <1>1, TextItemFields
    <2>2. CASE i.t = 0
      <3>1. z = Len(i.k) + 5 /\ Len(i.k) \in Nat /\ y[5 + Len(i.k)] = "newline"
        BY <1>1, <2>2, ObjectLay
      <3>2. \A a \in Nat : a + 5 = 5 + a /\ a + 5 \in Nat \ {0}
        OBVIOUS
      <3> QED
        BY ONLY <3>1, <3>2
    <2>3. CASE i.t = 1
      <3>1. /\ z = Len(i.k) + Len(Raw(i.v)) + 6 /\ Len(i.k) \in Nat /\ Len(Raw(i.v)) \in Nat
            /\ y[6 + Len(i.k) + Len(Raw(i.v))] = "newline"
        BY <1>1, <2>3, StringLay
      <3>2. \A a, b \in Nat : a + b + 6 = 6 + a + b /\ a + b + 6 \in Nat \ {0}
        OBVIOUS
      <3>3. z = 6 + Len(i.k) + Len(Raw(i.v)) /\ z \in Nat \ {0}
        <4> HIDE DEF z, i
        <4> QED
          BY ONLY <3>1, <3>2, Zenon
      <3> QED
        BY <3>1, <3>3
    <2>4. CASE i.t = 8
      <3>1. z = 3 /\ y[3] = "newline"
        BY <1>1, <2>4, OtherLay
      <3> QED
        BY ONLY <3>1
    <2> QED
      BY <2>1, <2>2, <2>3, <2>4
  <1> HIDE DEF y, i, z, e, f, n
  <1>3. Seen(f - 1, "newline") /\ f - 1 \in Nat /\ f - 1 + 1 = f
    <2>1. z \in 1 .. z /\ e + z - 1 = f - 1
      BY <1>1, <1>2
    <2> QED
      BY <1>1, <1>2, <2>1
  <1>4. f - 1 < n => Text!skip_ws(f - 1) = Text!skip_ws(f)
    <2>1. f - 1 < n => Text!At(f - 1) = "newline"
      BY <1>3 DEF Seen, n
    <2> QED
      BY <1>1, <1>3, <2>1, SkipOne DEF n
  <1>5. cur' = f - 1 /\ f - 1 <= n
    BY DEF f, n
  <1>6. Len(doc) \in Nat /\ (k + 1 < Len(doc) \/ k + 1 = Len(doc))
    BY DEF TextCutoff
  <1>7. CASE k + 1 < Len(doc)
    <2>1. Text!skip_ws(cur') = Text!skip_ws(f) /\ k + 1 \in 0 .. Len(doc) - 1
      BY <1>1, <1>3, <1>4, <1>5, <1>7
    <2>2. AtNext(k + 1)'
      BY <2>1, TextNow DEF f
    <2> QED
      BY <2>2
  <1>8. CASE k + 1 = Len(doc)
    <2>1. Text!skip_ws(cur') >= n
      <3>1. CASE f - 1 < n
        <4>1. f <= Text!skip_ws(f) /\ Text!skip_ws(f) \in Nat
          BY <1>1, SkipTo DEF n
        <4> QED
          BY <1>1, <1>4, <1>5, <1>8, <3>1, <4>1
      <3>2. CASE f - 1 >= n
        <4>1. Text!skip_ws(f - 1) = f - 1
          BY <1>1, <1>3, <3>2, SkipOne DEF n
        <4> QED
          BY <1>5, <3>2, <4>1
      <3> QED
        BY <1>1, <3>1, <3>2
    <2> QED
      BY <1>8, <2>1, EndNow DEF n
  <1> QED
    BY <1>6, <1>7, <1>8

\* Between two items: comments are skipped, until another item follows, or the text
\* ends, or there is a single slash at its end.
LEMMA Settled ==
  ASSUME TextCutoff, AtEnd \/ \E k : AtNext(k)
  PROVE  \/ AtEnd
         \/ \E k : /\ AtNext(k)
                   /\ \/ doc[k + 1].t \in {0, 1}
                      \/ doc[k + 1].t = 8 /\ Text!size > TEnd(k) + 1
                      \/ doc[k + 1].t = 9 /\ Text!size = TEnd(k) + 1 /\ k + 1 = Len(doc)
  <1>1. SUFFICES ASSUME ~AtEnd
                 PROVE  \E k : /\ AtNext(k)
                               /\ \/ doc[k + 1].t \in {0, 1}
                                  \/ doc[k + 1].t = 8 /\ Text!size > TEnd(k) + 1
                                  \/ doc[k + 1].t = 9 /\ Text!size = TEnd(k) + 1 /\ k + 1 = Len(doc)
    OBVIOUS
  <1>2. doc \in Seq(AnyTextItem) /\ Len(doc) \in Nat
    BY DEF TextCutoff
  <1>3. PICK k : AtNext(k) /\ ~AtNext(k + 1)
    <2> DEFINE T == {n \in Nat : AtNext(n)}
    <2>1. PICK a : AtNext(a)
      BY <1>1
    <2>2. a \in Nat
      BY <1>2, <2>1 DEF AtNext
    <2>3. ASSUME \A j : AtNext(j) => AtNext(j + 1) PROVE FALSE
      <3> DEFINE U == {n \in Nat : AtNext(a + n)}
      <3>1. 0 \in U
        <4>1. a + 0 = a
          BY <2>2
        <4> QED
          BY <2>1, <4>1
      <3>2. \A n \in Nat : n \in U => n + 1 \in U
        <4>1. \A n \in Nat : (a + n) + 1 = a + (n + 1)
          BY <2>2
        <4> QED
          BY <2>3, <4>1
      <3>3. Nat \subseteq U
        <4> HIDE DEF U
        <4> QED
          BY <3>1, <3>2, NatSetInduction
      <3>4. AtNext(a + Len(doc))
        BY <1>2, <3>3
      <3>5. a + Len(doc) \in 0 .. Len(doc) - 1
        BY <3>4 DEF AtNext
      <3> QED
        BY <1>2, <2>2, <3>5
    <2> QED
      BY <2>3
  <1> DEFINE i == doc[k + 1]
             e == TEnd(k)
             n == Text!size
  <1>4. /\ k \in 0 .. Len(doc) - 1 /\ Fits(calls, tree, First(k))
        /\ Text!skip_ws(cur) = Text!skip_ws(e)
    BY <1>3 DEF AtNext
  <1>5. /\ n \in Nat /\ i \in AnyTextItem /\ e \in Nat /\ e < n
        /\ k + 1 < Len(doc) => TEnd(k + 1) < n /\ k + 1 \in 0 .. Len(doc) - 1
        /\ k + 1 = Len(doc) => n <= TEnd(k + 1)
        /\ TEnd(k + 1) = e + Len(Lay(i)) /\ TEnd(k + 1) \in Nat
    BY <1>2, <1>4, TextBytes
  <1>6. i.t \in {0, 1, 8, 9} /\ (k + 1 < Len(doc) \/ k + 1 = Len(doc))
    BY <1>2, <1>4, <1>5, TextItemFields
  <1>7. First(k + 1) = Append(First(k), i)
    BY <1>2, <1>4, TextEnds
  <1> HIDE DEF e, n, i
  <1>8. CASE i.t = 8 /\ n <= e + 1
    <2>1. n = e + 1
      BY <1>5, <1>8
    <2>2. k + 1 = Len(doc)
      <3>1. k + 1 < Len(doc) => FALSE
        <4>1. Len(Lay(i)) = 3
          BY <1>5, <1>8, OtherLay
        <4> QED
          BY <1>5, <2>1, <4>1
      <3> QED
        BY <1>6, <3>1
    <2>3. There = <<First(k)>>
      BY <1>4, <1>8, <2>1, <2>2, ThereKinds DEF i, e, n
    <2>4. Text!skip_ws(cur) = n
      BY <1>4, <1>8, <2>1, ItemStart DEF i, e, n
    <2>5. AtEnd
      <3>1. Text!skip_ws(cur) >= Text!size
        BY <1>5, <2>4 DEF n
      <3> QED
        BY <1>4, <2>3, <3>1 DEF AtEnd
    <2> QED
      BY <1>1, <2>5
  <1>9. CASE i.t = 9
    <2>1. Len(Lay(i)) = 4
      BY <1>5, <1>9, OtherLay
    <2>2. Fits(calls, tree, First(k + 1))
      BY <1>4, <1>5, <1>7, <1>9, FitsComment
    <2>3. k + 1 = Len(doc)
      <3> SUFFICES ASSUME k + 1 < Len(doc) PROVE FALSE
        BY <1>6
      <3>1. n > e + 3
        BY <1>5, <2>1
      <3>2. Text!skip_ws(cur) = Text!skip_ws(TEnd(k + 1))
        BY <1>4, <1>9, <3>1, ItemStart DEF i, e, n
      <3>3. AtNext(k + 1)
        BY <1>5, <2>2, <3>2 DEF AtNext
      <3> QED
        BY <1>3, <3>3
    <2>4. n <= e + 4
      BY <1>5, <2>1, <2>3
    <2>5. CASE n = e + 1
      BY <1>3, <1>9, <2>3, <2>5 DEF i, e, n
    <2>6. CASE n # e + 1
      <3>1. n \in {e + 2, e + 3} \/ n = e + 4
        BY <1>5, <2>4, <2>6
      <3>2. There = <<First(k)>> \/ There = <<First(k + 1)>>
        <4>1. n = e + 2 \/ n >= e + 3
          BY <1>5, <3>1
        <4> QED
          BY <1>4, <1>9, <2>3, <4>1, ThereKinds DEF i, e, n
      <3>3. Text!skip_ws(cur) >= n
        <4>1. CASE n \in {e + 2, e + 3}
          <5>1. Text!skip_ws(cur) = n
            BY <1>4, <1>9, <4>1, ItemStart DEF i, e, n
          <5> QED
            BY <1>5, <5>1
        <4>2. CASE n = e + 4
          <5>1. n > e + 3 /\ TEnd(k + 1) = n
            BY <1>5, <2>1, <4>2
          <5>2. Text!skip_ws(cur) = Text!skip_ws(n)
            BY <1>4, <1>9, <5>1, ItemStart DEF i, e, n
          <5>3. n <= Text!skip_ws(n) /\ Text!skip_ws(n) \in Nat
            BY <1>5, SkipTo DEF n
          <5> QED
            BY <1>5, <5>2, <5>3
        <4> QED
          BY <3>1, <4>1, <4>2
      <3>4. AtEnd
        BY <1>4, <2>2, <3>2, <3>3 DEF AtEnd, n
      <3> QED
        BY <1>1, <3>4
    <2> QED
      BY <2>5, <2>6
  <1> QED
    BY <1>3, <1>5, <1>6, <1>8, <1>9 DEF i, e, n

\* Where a step leads.
LEMMA Arrives ==
  ASSUME TextCutoff, UNCHANGED <<doc, text>>
  PROVE  /\ at' = "entry" /\ (AtEnd' \/ \E k : AtNext(k)') => TextDecodeInv'
         /\ at' = "key" /\ (\E k : AtName(k)') => TextDecodeInv'
         /\ at' = "after" /\ (\E k : AfterName(k)') => TextDecodeInv'
         /\ at' = "after" /\ Meant = << >> /\ cur' >= Text!size => TextDecodeInv'
         /\ at' = "value" /\ (\E k : AtText(k)' \/ CutText(k)') => TextDecodeInv'
         /\ at' = "thrown" /\ Meant = << >> => TextDecodeInv'
  <1>1. TextCutoff' /\ Meant' = Meant /\ Text!size' = Text!size
    BY TextFrame
  <1>2. at' = "thrown" /\ Meant = << >> => Outcome'
    BY <1>1 DEF Outcome
  <1>3. Meant = << >> /\ cur' >= Text!size => Nothing'
    BY <1>1 DEF Nothing
  <1> QED
    BY <1>1, <1>2, <1>3 DEF TextDecodeInv

\* The characters of an entry that has a key.
LEMMA EntryPlaces ==
  ASSUME TextCutoff, NEW k \in 0 .. Len(doc) - 1, doc[k + 1].t \in {0, 1}
  PROVE  LET i == doc[k + 1]
             e == TEnd(k)
             l == Len(i.k)
             r == Len(Raw(i.v))
             n == Text!size
         IN  /\ e \in Nat /\ l \in Nat /\ n \in Nat /\ TEnd(k + 1) \in Nat
             /\ \A j \in 1 .. l : Seen(e + j, i.k[j])
             /\ Seen(e + 1 + l, "quote")
             /\ Seen(e + 2 + l, IF i.t = 0 THEN "newline" ELSE "tab")
             /\ Seen(e + 3 + l, IF i.t = 0 THEN "open" ELSE "quote")
             /\ i.t = 0 => TEnd(k + 1) = e + 5 + l
             /\ i.t = 1 => /\ r \in Nat /\ TEnd(k + 1) = e + 6 + l + r
                           /\ \A j \in 1 .. r : Seen(e + 3 + l + j, Raw(i.v)[j])
                           /\ Seen(e + 4 + l + r, "quote")
             /\ n < TEnd(k + 1) => k + 1 = Len(doc)
  <1> DEFINE i == doc[k + 1]
             y == Lay(i)
             z == Len(y)
             e == TEnd(k)
             n == Text!size
             l == Len(i.k)
             w == Raw(i.v)
             r == Len(w)
  <1>1. /\ n \in Nat /\ i \in AnyTextItem /\ e \in Nat /\ e < n /\ TEnd(k + 1) = e + z
        /\ TEnd(k + 1) \in Nat
        /\ k + 1 < Len(doc) => TEnd(k + 1) < n
        /\ \A j \in 1 .. z : Seen(e + j - 1, y[j])
    BY TextBytes
  <1>2. n < TEnd(k + 1) => k + 1 = Len(doc)
    <2>1. Len(doc) \in Nat
      BY DEF TextCutoff
    <2> HIDE DEF n
    <2> QED
      BY <1>1, <2>1
  <1>3. CASE i.t = 0
    <2>1. /\ z = l + 5 /\ l \in Nat
          /\ (\A j \in 1 .. l : y[1 + j] = i.k[j])
          /\ y[2 + l] = "quote" /\ y[3 + l] = "newline" /\ y[4 + l] = "open"
      BY <1>1, <1>3, ObjectLay
    <2> HIDE DEF i, y, z, e, n, l, w, r
    <2>2. \A j \in 1 .. l : Seen(e + j, i.k[j])
      <3>1. \A j \in 1 .. l : 1 + j \in 1 .. z /\ e + (1 + j) - 1 = e + j
        BY <1>1, <2>1
      <3> QED
        BY <1>1, <2>1, <3>1
    <2>3. /\ 2 + l \in 1 .. z /\ 3 + l \in 1 .. z /\ 4 + l \in 1 .. z
          /\ e + (2 + l) - 1 = e + 1 + l /\ e + (3 + l) - 1 = e + 2 + l
          /\ e + (4 + l) - 1 = e + 3 + l /\ e + z = e + 5 + l
      BY <1>1, <2>1
    <2>4. Seen(e + 1 + l, "quote") /\ Seen(e + 2 + l, "newline") /\ Seen(e + 3 + l, "open")
      BY <1>1, <2>1, <2>3
    <2> QED
      BY <1>1, <1>2, <1>3, <2>1, <2>2, <2>3, <2>4 DEF i, e, n, l, w, r
  <1>4. CASE i.t = 1
    <2>1. /\ z = l + r + 6 /\ l \in Nat /\ r \in Nat
          /\ (\A j \in 1 .. l : y[1 + j] = i.k[j])
          /\ y[2 + l] = "quote" /\ y[3 + l] = "tab" /\ y[4 + l] = "quote"
          /\ (\A j \in 1 .. r : y[4 + l + j] = w[j])
          /\ y[5 + l + r] = "quote"
      BY <1>1, <1>4, StringLay
    <2> HIDE DEF i, y, z, e, n, l, w, r
    <2>2. \A j \in 1 .. l : Seen(e + j, i.k[j])
      <3>1. \A j \in 1 .. l : 1 + j \in 1 .. z /\ e + (1 + j) - 1 = e + j
        <4>1. z = l + r + 6 /\ l \in Nat /\ r \in Nat /\ e \in Nat
          BY <1>1, <2>1
        <4> QED
          BY ONLY <4>1
      <3> QED
        BY <1>1, <2>1, <3>1
    <2>3. /\ 2 + l \in 1 .. z /\ 3 + l \in 1 .. z /\ 4 + l \in 1 .. z /\ 5 + l + r \in 1 .. z
          /\ e + (2 + l) - 1 = e + 1 + l /\ e + (3 + l) - 1 = e + 2 + l
          /\ e + (4 + l) - 1 = e + 3 + l /\ e + (5 + l + r) - 1 = e + 4 + l + r
          /\ e + z = e + 6 + l + r
      <3>1. z = l + r + 6 /\ l \in Nat /\ r \in Nat /\ e \in Nat
        BY <1>1, <2>1
      <3> QED
        BY ONLY <3>1
    <2>4. /\ Seen(e + 1 + l, "quote") /\ Seen(e + 2 + l, "tab") /\ Seen(e + 3 + l, "quote")
          /\ Seen(e + 4 + l + r, "quote")
      BY <1>1, <2>1, <2>3
    <2>5. \A j \in 1 .. r : Seen(e + 3 + l + j, w[j])
      <3>1. \A j \in 1 .. r : 4 + l + j \in 1 .. z /\ e + (4 + l + j) - 1 = e + 3 + l + j
        BY <1>1, <2>1
      <3> QED
        BY <1>1, <2>1, <3>1
    <2> QED
      BY <1>1, <1>2, <1>4, <2>1, <2>2, <2>3, <2>4, <2>5 DEF i, e, n, l, w, r
  <1> QED
    BY <1>3, <1>4

\* parse and parse_object between two entries.
LEMMA EntryDecodes ==
  ASSUME TextInv, TextLocals, TextDecodeInv, UNCHANGED doc,
         Text!EndOfInput \/ Text!CloseObject \/ Text!Key
  PROVE  TextDecodeInv'
  <1> DEFINE q == Text!skip_ws(cur)
             n == Text!size
  <1>1. /\ UNCHANGED <<doc, text>> /\ at = "entry" /\ TextCutoff
        /\ n \in Nat /\ cur \in Nat /\ q \in Nat
    <2>1. UNCHANGED text /\ at = "entry"
      BY DEF Text!EndOfInput, Text!CloseObject, Text!Key
    <2>2. n \in Nat /\ cur \in Nat
      BY DEF TextInv, TextTypes, Text!size
    <2> QED
      BY <2>1, <2>2, SkipTo DEF TextDecodeInv
  <1>2. /\ Text!EndOfInput => calls = << >> /\ q >= n /\ at' = "parsed" /\ UNCHANGED <<tree, calls>>
        /\ Text!CloseObject =>
             /\ calls # << >> /\ Text!At(q) = "close" /\ cur' = q + 1 /\ at' = "entry"
             /\ tree' = Text!Assign(calls[Len(calls)].obj, calls[Len(calls)].key,
                                    Text!Primitive("object", << >>), tree)
             /\ calls' = SubSeq(calls, 1, Len(calls) - 1)
        /\ Text!Key =>
             /\ IF calls = << >> THEN q < n ELSE Text!At(q) # "close"
             /\ UNCHANGED <<tree, calls>> /\ cur' = q + 1
             /\ IF Text!At(q) = "quote" THEN at' = "key" /\ chars' = << >> ELSE at' = "thrown"
    BY <1>1 DEF Text!EndOfInput, Text!CloseObject, Text!Key, Text!OpenString
  <1>3. q >= n => Text!At(q) = "nul"
    <2>1. q >= n => ~(q < n)
      BY <1>1
    <2> QED
      BY <2>1 DEF Text!At
  <1>4. \A items : Fits(calls, tree, items) =>
          Depth(items) = Len(calls) /\ Balanced(items) /\ calls \in Seq(Text!Caller) /\ tree \in Text!Object
    BY DEF Fits
  <1>5. calls = << >> => Len(calls) = 0
    OBVIOUS
  <1>6. calls \in Seq(Text!Caller) /\ calls # << >> => Len(calls) # 0
    OBVIOUS
  <1> HIDE DEF q, n
  <1>7. CASE AtEnd
    <2>1. PICK items : There = <<items>> /\ Fits(calls, tree, items) /\ q >= n
      BY <1>7 DEF AtEnd, q, n
    <2>2. Meant = IF Balanced(items) /\ Depth(items) = 0 THEN <<items>> ELSE << >>
      BY <2>1, MeantFacts
    <2>3. CASE Text!EndOfInput
      <3>1. Meant = <<items>> /\ tree \in Text!Object /\ calls = << >>
        BY <1>2, <1>4, <1>5, <2>1, <2>2, <2>3
      <3>2. tree = State(items).nodes
        <4>1. Whole(<< >>, tree) = tree
          BY <3>1, TextTrees, WholeRoot
        <4> QED
          BY <2>1, <3>1, <4>1 DEF Fits
      <3>3. TextCutoff' /\ Meant' = <<items>> /\ tree' = tree /\ at' = "parsed"
        BY <1>1, <1>2, <2>3, <3>1, TextFrame
      <3> QED
        BY <3>1, <3>2, <3>3 DEF TextDecodeInv
    <2>4. CASE Text!CloseObject
      BY <1>2, <1>3, <2>1, <2>4
    <2>5. CASE Text!Key
      <3>1. calls # << >>
        <4>1. ~(q < n)
          BY <1>1, <2>1
        <4> QED
          BY <1>2, <2>5, <4>1
      <3>2. Meant = << >>
        BY <1>4, <1>6, <2>1, <2>2, <3>1
      <3>3. at' = "thrown"
        BY <1>2, <1>3, <2>1, <2>5
      <3> QED
        BY <1>1, <3>2, <3>3, Arrives
    <2> QED
      BY <2>3, <2>4, <2>5
  <1>8. ASSUME NEW k, AtNext(k), doc[k + 1].t \in {0, 1}
        PROVE  TextDecodeInv'
    <2>1. /\ k \in 0 .. Len(doc) - 1 /\ Fits(calls, tree, First(k)) /\ q = Text!skip_ws(TEnd(k))
      BY <1>8 DEF AtNext, q
    <2>2. q = TEnd(k) /\ Text!At(q) = "quote" /\ q < n /\ TEnd(k) \in Nat
      BY <1>1, <1>8, <2>1, ItemStart, TextBytes DEF n
    <2>3. Text!Key
      <3>1. ~(q >= n)
        BY <1>1, <2>2
      <3> QED
        BY <1>2, <2>2, <3>1
    <2>4. at' = "key" /\ chars' = << >> /\ cur' = TEnd(k) + 1 /\ UNCHANGED <<tree, calls>>
      BY <1>2, <2>2, <2>3
    <2>5. Len(<< >>) = 0 /\ TEnd(k) + 1 = TEnd(k) + 1 + 0 /\ cur' <= n
      BY <1>1, <2>2, <2>4
    <2>6. StartOf(chars', doc[k + 1].k)
      <3>1. doc[k + 1].k \in Seq(Text!Char)
        BY <1>1, <2>1, TextBytes, TextItemFields
      <3> DEFINE w == doc[k + 1].k
      <3>2. Len(w) \in Nat
        BY <3>1
      <3> HIDE DEF w
      <3>3. StartOf(<< >>, w)
        BY <3>2 DEF StartOf
      <3> QED
        BY <2>4, <3>3 DEF w
    <2>7. AtName(k)'
      BY <1>1, <1>8, <2>1, <2>4, <2>5, <2>6, TextNow DEF n
    <2> QED
      BY <1>1, <2>4, <2>7, Arrives
  <1>9. ASSUME NEW k, AtNext(k), doc[k + 1].t = 8, n > TEnd(k) + 1
        PROVE  TextDecodeInv'
    <2>1. /\ k \in 0 .. Len(doc) - 1 /\ Fits(calls, tree, First(k)) /\ q = Text!skip_ws(TEnd(k))
      BY <1>9 DEF AtNext, q
    <2>2. /\ doc[k + 1] \in AnyTextItem /\ TEnd(k) \in Nat /\ TEnd(k) < n
          /\ TEnd(k + 1) = TEnd(k) + Len(Lay(doc[k + 1]))
      BY <1>1, <2>1, TextBytes DEF n
    <2>3. Len(Lay(doc[k + 1])) = 3
      BY <1>9, <2>2, OtherLay
    <2>4. q = TEnd(k) + 1 /\ Text!At(q) = "close"
      <3>1. TEnd(k) + 1 < n
        BY <1>1, <1>9, <2>2
      <3> QED
        BY <1>1, <1>9, <2>1, <3>1, ItemStart DEF n
    <2>5. n >= TEnd(k) + 2
      BY <1>1, <1>9, <2>2
    <2>6. CASE Text!CloseObject
      <3>1. /\ calls # << >> /\ at' = "entry" /\ cur' = TEnd(k + 1) - 1 /\ cur' <= n
        BY <1>1, <1>2, <2>2, <2>3, <2>4, <2>5, <2>6
      <3>2. First(k + 1) = Append(First(k), doc[k + 1])
        BY <1>1, <2>1, TextEnds DEF TextCutoff
      <3>3. Fits(calls', tree', First(k + 1))
        BY <1>2, <1>9, <2>1, <2>2, <2>6, <3>1, <3>2, FitsClose
      <3>4. k + 1 = Len(doc) => There = <<First(k + 1)>>
        BY <1>1, <1>9, <2>1, <2>5, ThereKinds DEF n
      <3>5. AtEnd' \/ \E j : AtNext(j)'
        BY <1>1, <1>9, <2>1, <3>1, <3>3, <3>4, NextItem DEF n
      <3> QED
        BY <1>1, <3>1, <3>5, Arrives
    <2>7. CASE Text!Key
      <3>1. calls = << >> /\ at' = "thrown"
        BY <1>2, <2>4, <2>7
      <3>2. Depth(First(k)) = 0
        BY <1>4, <1>5, <2>1, <3>1
      <3>3. Meant = << >>
        BY <1>1, <1>9, <2>1, <2>5, <3>2, ClosesRoot DEF n
      <3> QED
        BY <1>1, <3>1, <3>3, Arrives
    <2>8. CASE Text!EndOfInput
      BY <1>2, <1>3, <2>4, <2>8
    <2> QED
      BY <2>6, <2>7, <2>8
  <1>10. ASSUME NEW k, AtNext(k), doc[k + 1].t = 9, n = TEnd(k) + 1, k + 1 = Len(doc)
         PROVE  TextDecodeInv'
    <2>1. /\ k \in 0 .. Len(doc) - 1 /\ q = Text!skip_ws(TEnd(k))
      BY <1>10 DEF AtNext, q
    <2>2. q = TEnd(k) /\ Text!At(q) = "slash"
      BY <1>1, <1>10, <2>1, ItemStart DEF n
    <2>3. Text!Key /\ at' = "thrown"
      BY <1>2, <1>3, <2>2
    <2>4. Meant = << >>
      BY <1>1, <1>10, <2>1, ThereKinds, MeantFacts DEF n
    <2> QED
      BY <1>1, <2>3, <2>4, Arrives
  <1> QED
    BY <1>1, <1>7, <1>8, <1>9, <1>10, Settled DEF TextDecodeInv, n

\* parse_string in a key.
LEMMA NameDecodes ==
  ASSUME TextInv, TextLocals, TextDecodeInv, UNCHANGED doc, at = "key",
         Text!PlainChar \/ Text!EscapedChar \/ Text!EndString
  PROVE  TextDecodeInv'
  <1>1. PICK k : AtName(k)
    BY DEF TextDecodeInv
  <1> DEFINE i == doc[k + 1]
             w == i.k
             e == TEnd(k)
             n == Text!size
             c == Len(chars)
             l == Len(w)
  <1>2. /\ k \in 0 .. Len(doc) - 1 /\ Fits(calls, tree, First(k)) /\ i.t \in {0, 1}
        /\ StartOf(chars, w) /\ cur = e + 1 + c /\ cur <= n
    BY <1>1 DEF AtName, InItem
  <1>3. /\ UNCHANGED <<doc, text, tree, calls>> /\ TextCutoff /\ chars \in Seq(Text!Char)
        /\ cur \in Nat /\ n \in Nat /\ c \in Nat
    <2>1. UNCHANGED <<text, tree, calls>>
      BY DEF Text!PlainChar, Text!EscapedChar, Text!EndString
    <2>2. cur \in Nat /\ n \in Nat
      BY DEF TextInv, TextTypes, Text!size
    <2>3. chars \in Seq(Text!Char)
      BY DEF TextLocals
    <2> QED
      BY <2>1, <2>2, <2>3 DEF TextDecodeInv
  <1>4. /\ e \in Nat /\ l \in Nat /\ TEnd(k + 1) \in Nat
        /\ (\A j \in 1 .. l : Seen(e + j, w[j]))
        /\ Seen(e + 1 + l, "quote")
        /\ n < TEnd(k + 1) => k + 1 = Len(doc)
        /\ n < e + 4 + l => n < TEnd(k + 1)
    <2>1. /\ e \in Nat /\ l \in Nat /\ TEnd(k + 1) \in Nat
          /\ (\A j \in 1 .. l : Seen(e + j, w[j]))
          /\ Seen(e + 1 + l, "quote")
          /\ n < TEnd(k + 1) => k + 1 = Len(doc)
          /\ i.t = 0 => TEnd(k + 1) = e + 5 + l
          /\ i.t = 1 => Len(Raw(i.v)) \in Nat /\ TEnd(k + 1) = e + 6 + l + Len(Raw(i.v))
      BY <1>2, <1>3, EntryPlaces
    <2> DEFINE r == Len(Raw(i.v))
    <2> HIDE DEF e, l, n, r
    <2>2. n < e + 4 + l => n < TEnd(k + 1)
      <3> DEFINE f == TEnd(k + 1)
      <3>1. /\ e \in Nat /\ l \in Nat /\ n \in Nat
            /\ f = e + 5 + l \/ (r \in Nat /\ f = e + 6 + l + r)
        BY <1>2, <1>3, <2>1 DEF r
      <3> HIDE DEF f
      <3>2. n < e + 4 + l => n < f
        BY ONLY <3>1
      <3> QED
        BY <3>2 DEF f
    <2> QED
      BY <2>1, <2>2
  <1>5. w \in Seq(Text!Char) /\ \A j \in 1 .. l : w[j] \in Unquoted
    BY <1>2, <1>3, TextBytes, TextItemFields
  <1> HIDE DEF i, w, e, n, c, l
  <1>6. c <= l /\ \A j \in 1 .. c : chars[j] = w[j]
    BY <1>2 DEF StartOf, c, l
  <1>7. cur < n => IF c < l THEN Text!At(cur) = w[c + 1] /\ w[c + 1] \in Unquoted
                   ELSE Text!At(cur) = "quote" /\ c = l
    <2> SUFFICES ASSUME cur < n PROVE IF c < l THEN Text!At(cur) = w[c + 1] /\ w[c + 1] \in Unquoted
                                      ELSE Text!At(cur) = "quote" /\ c = l
      OBVIOUS
    <2>1. CASE c < l
      <3>1. c + 1 \in 1 .. l /\ e + (c + 1) = cur
        BY <1>2, <1>3, <1>4, <2>1
      <3>2. Seen(cur, w[c + 1]) /\ w[c + 1] \in Unquoted
        BY <1>4, <1>5, <3>1
      <3> QED
        BY <2>1, <3>2 DEF Seen, n
    <2>2. CASE c = l
      <3>1. Seen(cur, "quote") /\ ~(c < l)
        BY <1>2, <1>3, <1>4, <2>2
      <3> QED
        BY <2>2, <3>1 DEF Seen, n
    <2> QED
      BY <1>3, <1>4, <1>6, <2>1, <2>2
  <1>8. CASE Text!PlainChar
    <2>1. /\ cur < n /\ Text!At(cur) # "quote" /\ chars' = Append(chars, Text!At(cur))
          /\ cur' = cur + 1 /\ at' = "key"
      BY <1>8 DEF Text!PlainChar, n
    <2>2. c < l /\ Text!At(cur) = w[c + 1]
      BY <1>7, <2>1
    <2>3. Len(chars') = c + 1 /\ StartOf(chars', w)
      <3> DEFINE x == w[c + 1]
      <3>1. c + 1 \in 1 .. l /\ x \in Text!Char
        BY <1>3, <1>4, <1>5, <2>2 DEF Unquoted
      <3> HIDE DEF x
      <3>2. /\ Len(Append(chars, x)) = c + 1 /\ Append(chars, x)[c + 1] = x
            /\ \A j \in 1 .. c : Append(chars, x)[j] = chars[j]
        BY <1>3, <3>1, Appended DEF c
      <3>3. \A j \in 1 .. c + 1 : j \in 1 .. c \/ j = c + 1
        BY <1>3
      <3>4. chars' = Append(chars, x)
        BY <2>1, <2>2 DEF x
      <3>5. \A j \in 1 .. c + 1 : Append(chars, x)[j] = w[j]
        BY <1>6, <3>2, <3>3 DEF x
      <3>6. c + 1 <= l
        BY <1>3, <1>4, <2>2
      <3> QED
        BY <3>2, <3>4, <3>5, <3>6 DEF StartOf, l
    <2>4. cur' = e + 1 + Len(chars') /\ cur' <= n
      <3>1. cur' = e + 1 + (c + 1) /\ cur' <= n
        <4>1. /\ cur = e + 1 + c /\ cur < n /\ cur' = cur + 1
              /\ e \in Nat /\ c \in Nat /\ n \in Nat /\ cur \in Nat
          BY <1>2, <1>3, <1>4, <2>1
        <4> QED
          BY ONLY <4>1
      <3> QED
        BY <2>3, <3>1
    <2>5. AtName(k)'
      BY <1>2, <1>3, <2>3, <2>4, TextNow DEF i, w, e, n
    <2> QED
      BY <1>3, <2>1, <2>5, Arrives
  <1>9. CASE Text!EscapedChar
    <2>1. cur < n /\ Text!At(cur) = "escape"
      BY <1>9 DEF Text!EscapedChar, n
    <2> QED
      BY <1>7, <2>1 DEF Unquoted
  <1>10. CASE Text!EndString
    <2>1. /\ at' = "after" /\ name' = chars
          /\ \/ cur >= n /\ cur' = cur
             \/ cur < n /\ Text!At(cur) = "quote" /\ cur' = cur + 1
      BY <1>10 DEF Text!EndString, n
    <2>2. CASE cur >= n /\ cur' = cur
      <3>1. n < e + 4 + l
        BY <1>2, <1>3, <1>4, <1>6, <2>2
      <3>2. k + 1 = Len(doc)
        BY <1>4, <3>1
      <3>3. There = << >>
        BY <1>2, <1>3, <3>1, <3>2, ThereKinds DEF i, w, e, n, l
      <3> QED
        BY <1>3, <2>1, <2>2, <3>3, MeantFacts, Arrives DEF n
    <2>3. CASE cur < n /\ Text!At(cur) = "quote" /\ cur' = cur + 1
      <3>1. c = l
        BY <1>7, <2>3 DEF Unquoted
      <3>2. chars = w
        BY <1>3, <1>5, <1>6, <3>1, SeqEqual DEF c, l
      <3>3. cur' = e + 2 + Len(name') /\ cur' <= n
        <4>1. Len(name') = l
          BY <2>1, <3>2 DEF l
        <4> QED
          BY <1>2, <1>3, <1>4, <2>3, <3>1, <4>1
      <3>4. AfterName(k)'
        BY <1>2, <1>3, <2>1, <3>2, <3>3, TextNow DEF i, w, e, n
      <3> QED
        BY <1>3, <2>1, <3>4, Arrives
    <2> QED
      BY <2>1, <2>2, <2>3
  <1> QED
    BY <1>8, <1>9, <1>10

\* parse and parse_object behind a key.
LEMMA AfterDecodes ==
  ASSUME TextInv, TextLocals, TextDecodeInv, UNCHANGED doc,
         Text!OpenObject \/ Text!StringValue
  PROVE  TextDecodeInv'
  <1> DEFINE q == Text!skip_ws(cur)
             n == Text!size
  <1>1. /\ UNCHANGED <<doc, text>> /\ at = "after" /\ TextCutoff
        /\ n \in Nat /\ cur \in Nat /\ q \in Nat /\ cur <= q
    <2>1. UNCHANGED text /\ at = "after"
      BY DEF Text!OpenObject, Text!StringValue
    <2>2. n \in Nat /\ cur \in Nat
      BY DEF TextInv, TextTypes, Text!size
    <2> QED
      BY <2>1, <2>2, SkipTo DEF TextDecodeInv
  <1>2. /\ Text!OpenObject =>
             /\ Text!At(q) = "open" /\ cur' = q + 1 /\ at' = "entry" /\ tree' = {}
             /\ calls' = Append(calls, [obj |-> tree, key |-> name])
        /\ Text!StringValue =>
             /\ Text!At(q) # "open" /\ UNCHANGED <<tree, calls, name>> /\ cur' = q + 1
             /\ IF Text!At(q) = "quote" THEN at' = "value" /\ chars' = << >> ELSE at' = "thrown"
    BY <1>1 DEF Text!OpenObject, Text!StringValue, Text!OpenString
  <1> HIDE DEF q, n
  <1>3. ASSUME q >= n, Meant = << >> PROVE TextDecodeInv'
    <2>1. ~(q < n)
      BY <1>1, <1>3
    <2>2. Text!At(q) = "nul"
      BY <2>1 DEF Text!At, n
    <2>3. at' = "thrown"
      BY <1>2, <2>2
    <2> QED
      BY <1>1, <1>3, <2>3, Arrives
  <1>4. CASE Nothing
    <2>1. q >= n /\ Meant = << >>
      BY <1>1, <1>4 DEF Nothing, n
    <2> QED
      BY <1>3, <2>1
  <1>5. ASSUME NEW k, AfterName(k) PROVE TextDecodeInv'
    <2> DEFINE i == doc[k + 1]
               e == TEnd(k)
               l == Len(i.k)
               r == Len(Raw(i.v))
    <2>1. /\ k \in 0 .. Len(doc) - 1 /\ Fits(calls, tree, First(k)) /\ i.t \in {0, 1}
          /\ name = i.k /\ cur = e + 2 + l /\ cur <= n
      BY <1>5 DEF AfterName, InItem, n
    <2>2. i \in AnyTextItem /\ First(k + 1) = Append(First(k), i)
      BY <1>1, <2>1, TextEnds DEF TextCutoff
    <2>3. /\ e \in Nat /\ l \in Nat /\ TEnd(k + 1) \in Nat
          /\ Seen(e + 2 + l, IF i.t = 0 THEN "newline" ELSE "tab")
          /\ Seen(e + 3 + l, IF i.t = 0 THEN "open" ELSE "quote")
          /\ i.t = 0 => TEnd(k + 1) = e + 5 + l
          /\ i.t = 1 => r \in Nat /\ TEnd(k + 1) = e + 6 + l + r
          /\ n < TEnd(k + 1) => k + 1 = Len(doc)
      BY <1>1, <2>1, EntryPlaces DEF n
    <2>4. e + 3 + l >= n => Meant = << >>
      <3> SUFFICES ASSUME e + 3 + l >= n PROVE Meant = << >>
        OBVIOUS
      <3>1. n < e + 4 + l /\ k + 1 = Len(doc)
        <4> HIDE DEF e, l, i, r
        <4>1. n < e + 4 + l
          BY <1>1, <2>3
        <4>2. n < TEnd(k + 1)
          BY <1>1, <2>1, <2>3, <4>1
        <4> QED
          BY <2>3, <4>1, <4>2
      <3> QED
        BY <1>1, <2>1, <3>1, ThereKinds, MeantFacts DEF n
    <2> HIDE DEF e, l, i, r
    <2>5. CASE e + 3 + l >= n
      <3>1. q >= n
        <4>1. CASE cur < n
          <5>1. Text!At(cur) \in {"newline", "tab"}
            BY <2>1, <2>3, <4>1 DEF Seen, n
          <5>2. q = Text!skip_ws(cur + 1)
            BY <1>1, <4>1, <5>1, SkipOne DEF q, n
          <5>3. cur + 1 = e + 3 + l /\ cur + 1 \in Nat
            BY <2>1, <2>3
          <5>4. Text!skip_ws(cur + 1) = cur + 1
            BY <1>1, <2>5, <5>3, SkipOne DEF n
          <5> QED
            BY <2>5, <5>2, <5>3, <5>4
        <4>2. CASE ~(cur < n)
          BY <1>1, <4>2
        <4> QED
          BY <4>1, <4>2
      <3> QED
        BY <1>3, <2>4, <2>5, <3>1
    <2>6. CASE e + 3 + l < n
      <3>1. q = e + 3 + l /\ Text!At(q) = IF i.t = 0 THEN "open" ELSE "quote"
        <4>1. cur < n /\ cur + 1 = e + 3 + l /\ cur + 1 \in Nat
          BY <1>1, <2>1, <2>3, <2>6
        <4>2. Text!At(cur) \in {"newline", "tab"}
          BY <2>1, <2>3, <4>1 DEF Seen, n
        <4>3. q = Text!skip_ws(cur + 1)
          BY <1>1, <4>1, <4>2, SkipOne DEF q, n
        <4>4. Text!At(e + 3 + l) = IF i.t = 0 THEN "open" ELSE "quote"
          BY <2>3, <2>6 DEF Seen, n
        <4>5. Text!skip_ws(cur + 1) = cur + 1
          BY <1>1, <2>1, <4>1, <4>4, SkipOne DEF n
        <4> QED
          BY <4>1, <4>3, <4>4, <4>5
      <3>2. CASE Text!OpenObject
        <4>1. i.t = 0
          BY <1>2, <3>1, <3>2
        <4>2. at' = "entry" /\ cur' = TEnd(k + 1) - 1 /\ cur' <= n
          BY <1>1, <1>2, <2>3, <2>6, <3>1, <3>2, <4>1
        <4>3. Fits(calls', tree', First(k + 1))
          BY <1>2, <2>1, <2>2, <3>2, <4>1, FitsOpen
        <4>4. k + 1 = Len(doc) => There = <<First(k + 1)>>
          <5>1. n >= e + 4 + l
            BY <1>1, <2>3, <2>6
          <5> QED
            BY <1>1, <2>1, <4>1, <5>1, ThereKinds DEF e, l, i, n
        <4>5. AtEnd' \/ \E j : AtNext(j)'
          BY <1>1, <2>1, <4>1, <4>2, <4>3, <4>4, NextItem DEF n, i
        <4> QED
          BY <1>1, <4>2, <4>5, Arrives
      <3>3. CASE Text!StringValue
        <4>1. /\ i.t = 1 /\ at' = "value" /\ chars' = << >> /\ UNCHANGED <<tree, calls, name>>
              /\ cur' = e + 4 + l /\ cur' <= n
          BY <1>1, <1>2, <2>1, <2>3, <2>6, <3>1, <3>3
        <4>2. i.v \in Seq(Piece)
          BY <2>2, TextItemFields
        <4>3. /\ 0 \in 0 .. Len(i.v) /\ Taking(i.v, 0) = 0 /\ Means(Pieces(i.v, 0)) = << >>
          BY <4>2, PieceEnds, MeansFacts
        <4>4. cur' = e + 4 + Len(name') + Taking(i.v, 0)
          <5>1. Len(name') = l
            BY <2>1, <4>1 DEF l
          <5>2. cur' = e + 4 + l /\ e \in Nat /\ l \in Nat /\ Taking(i.v, 0) = 0
            BY <2>3, <4>1, <4>3
          <5>3. \A a, b \in Nat : a + 4 + b = a + 4 + b + 0
            OBVIOUS
          <5> QED
            BY ONLY <5>1, <5>2, <5>3, Zenon
        <4>5. AtText(k)'
          BY <1>1, <2>1, <4>1, <4>3, <4>4, TextNow DEF i, e, n
        <4> QED
          BY <1>1, <4>1, <4>5, Arrives
      <3> QED
        BY <3>2, <3>3
    <2> QED
      BY <1>1, <2>3, <2>5, <2>6
  <1> QED
    BY <1>1, <1>4, <1>5 DEF TextDecodeInv

\* A value that the end of the text cuts off, all of whose characters have been read.
LEMMA TextAtEnd ==
  ASSUME TextCutoff, Text!size \in Nat, NEW k, AtText(k), cur >= Text!size
  PROVE  CutText(k)
  <1> DEFINE i == doc[k + 1]
             v == i.v
             e == TEnd(k)
             l == Len(i.k)
             n == Text!size
             r == Len(Raw(v))
  <1>1. PICK m \in 0 .. Len(v) : cur = e + 4 + Len(name) + Taking(v, m) /\ chars = Means(Pieces(v, m))
    BY DEF AtText
  <1>2. InItem(k) /\ name = i.k /\ i.t = 1 /\ cur <= n /\ k \in 0 .. Len(doc) - 1
    BY DEF AtText, InItem
  <1>3. /\ e \in Nat /\ l \in Nat /\ r \in Nat /\ TEnd(k + 1) = e + 6 + l + r
        /\ n < TEnd(k + 1) => k + 1 = Len(doc)
    BY <1>2, EntryPlaces
  <1>4. v \in Seq(Piece)
    BY <1>2, TextBytes, TextItemFields
  <1> DEFINE c == Taking(v, m)
             p == Pieces(v, m)
  <1>5. c \in Nat /\ c <= r /\ (m < Len(v) => Taking(v, m + 1) > c) /\ p \in Seq(Piece)
    <2>1. Len(v) \in Nat /\ Taking(v, Len(v)) = r /\ Pieces(v, Len(v)) = v
      BY <1>4, PieceEnds
    <2>2. c \in Nat /\ c <= r
      <3>1. Len(v) \in 0 .. Len(v) /\ m <= Len(v)
        BY <2>1
      <3> QED
        BY <1>4, <2>1, <3>1, PiecePlaces
    <2>3. ASSUME m < Len(v) PROVE Taking(v, m + 1) > c /\ p \in Seq(Piece)
      <3>1. m \in 0 .. Len(v) - 1
        BY <2>1, <2>3
      <3>2. /\ Len(v[m + 1].raw) \in Nat \ {0} /\ p \in Seq(Piece)
            /\ Taking(v, m + 1) = c + Len(v[m + 1].raw)
        BY <1>4, <3>1, PieceNext
      <3> DEFINE s == Len(v[m + 1].raw)
      <3> HIDE DEF c, p, s
      <3>3. c \in Nat /\ s \in Nat \ {0} => c + s > c
        OBVIOUS
      <3> QED
        BY <2>2, <3>2, <3>3 DEF s
    <2>4. m < Len(v) \/ m = Len(v)
      BY <2>1
    <2> QED
      BY <1>4, <2>1, <2>2, <2>3, <2>4
  <1>6. CutValue(v, c) = p
    <2>1. CutValue(v, c) = p \o IF c < c THEN <<Plain("nul")>> ELSE << >>
      <3>1. c <= c
        BY <1>5
      <3> QED
        BY <1>4, <1>5, <3>1, CutAt
    <2>2. ~(c < c) /\ p \o << >> = p
      <3> HIDE DEF c, p
      <3> QED
        BY <1>5
    <2> QED
      BY <2>1, <2>2
  <1>7. cur = e + 4 + l + c /\ n = cur
    <2>1. cur = e + 4 + l + c
      BY <1>1, <1>2
    <2> HIDE DEF e, l, c, n
    <2>2. cur \in Nat
      BY <1>3, <1>5, <2>1
    <2>3. n \in Nat /\ cur >= n /\ cur <= n
      BY <1>2 DEF n
    <2> QED
      BY <2>1, <2>2, <2>3
  <1>8. n >= e + 4 + l /\ n < e + 5 + l + r /\ n < TEnd(k + 1) /\ n - e - (4 + l) = c
    <2> HIDE DEF e, l, c, n, r
    <2>1. e \in Nat /\ l \in Nat /\ r \in Nat /\ c \in Nat /\ c <= r /\ n = e + 4 + l + c
          /\ TEnd(k + 1) = e + 6 + l + r
      BY <1>3, <1>5, <1>7
    <2> QED
      BY ONLY <2>1
  <1>9. There = <<Append(First(k), [i EXCEPT !.v = CutValue(@, n - e - (4 + l))])>>
    BY <1>2, <1>3, <1>8, ThereKinds
  <1>10. There = <<Append(First(k), [i EXCEPT !.v = p])>>
    <2>1. [i EXCEPT !.v = CutValue(@, c)] = [i EXCEPT !.v = CutValue(i.v, c)]
      OBVIOUS
    <2> QED
      BY <1>6, <1>8, <1>9, <2>1
  <1> QED
    BY <1>1, <1>2, <1>5, <1>10 DEF CutText

\* parse_string in a value.
LEMMA ValueDecodes ==
  ASSUME TextInv, TextLocals, TextDecodeInv, UNCHANGED doc, at = "value",
         Text!PlainChar \/ Text!EscapedChar \/ Text!EndString
  PROVE  TextDecodeInv'
  <1> DEFINE n == Text!size
  <1>1. /\ UNCHANGED <<doc, text, calls>> /\ TextCutoff /\ chars \in Seq(Text!Char)
        /\ cur \in Nat /\ n \in Nat
    <2>1. UNCHANGED <<text, calls>>
      BY DEF Text!PlainChar, Text!EscapedChar, Text!EndString
    <2>2. cur \in Nat /\ n \in Nat
      BY DEF TextInv, TextTypes, Text!size
    <2>3. chars \in Seq(Text!Char)
      BY DEF TextLocals
    <2> QED
      BY <2>1, <2>2, <2>3 DEF TextDecodeInv
  <1>2. PICK k : AtText(k) \/ CutText(k)
    BY DEF TextDecodeInv
  <1> DEFINE i == doc[k + 1]
             v == i.v
             e == TEnd(k)
             l == Len(i.k)
             r == Len(Raw(v))
  <1>3. InItem(k) /\ name = i.k /\ i.t = 1 /\ k \in 0 .. Len(doc) - 1 /\ Fits(calls, tree, First(k))
    BY <1>2 DEF AtText, CutText, InItem
  <1>4. i \in AnyTextItem /\ i.k \in Seq(Text!Char) /\ v \in Seq(Piece) /\ First(k + 1) = Append(First(k), i)
    <2>1. i \in AnyTextItem /\ First(k + 1) = Append(First(k), i)
      BY <1>1, <1>3, TextBytes, TextEnds DEF TextCutoff
    <2> QED
      BY <2>1, TextItemFields
  <1>5. /\ e \in Nat /\ l \in Nat /\ r \in Nat /\ TEnd(k + 1) = e + 6 + l + r
        /\ (\A j \in 1 .. r : Seen(e + 3 + l + j, Raw(v)[j]))
        /\ Seen(e + 4 + l + r, "quote")
        /\ n < TEnd(k + 1) => k + 1 = Len(doc)
    BY <1>1, <1>3, EntryPlaces
  <1>6. CASE CutText(k)
    <2>1. PICK w \in Seq(Piece) : /\ There = <<Append(First(k), [i EXCEPT !.v = w])>>
                                  /\ chars = Means(w)
      BY <1>6 DEF CutText
    <2>2. cur >= n
      BY <1>6 DEF CutText
    <2>3. Text!EndString
      <3>1. ~(cur < n)
        BY <1>1, <2>2
      <3> QED
        BY <3>1 DEF Text!PlainChar, Text!EscapedChar
    <2>4. /\ at' = "entry" /\ cur' = cur /\ calls' = calls
          /\ tree' = Text!Assign(tree, name, Text!Primitive("string", chars), {})
      <3>1. ~(cur < n)
        BY <1>1, <2>2
      <3> QED
        BY <2>3, <3>1 DEF Text!EndString
    <2> DEFINE j == [i EXCEPT !.v = w]
    <2>5. j \in AnyTextItem /\ j.t = 1 /\ j.v = w /\ j.k = i.k
      BY <1>3, <1>4 DEF AnyTextItem
    <2> HIDE DEF j
    <2>6. Fits(calls', tree', Append(First(k), j))
      BY <1>3, <2>1, <2>4, <2>5, FitsLeaf
    <2>7. Text!skip_ws(cur') >= Text!size
      BY <1>1, <2>2, <2>4, SkipOne
    <2>8. AtEnd'
      BY <1>1, <2>1, <2>6, <2>7, EndNow DEF j
    <2> QED
      BY <1>1, <2>4, <2>8, Arrives
  <1>7. CASE AtText(k) /\ cur >= n
    <2>1. CutText(k)
      BY <1>1, <1>7, TextAtEnd
    <2> QED
      BY <1>6, <2>1
  <1>8. CASE AtText(k) /\ cur < n
    <2>1. PICK m \in 0 .. Len(v) : cur = e + 4 + Len(name) + Taking(v, m) /\ chars = Means(Pieces(v, m))
      BY <1>8 DEF AtText
    <2> DEFINE c == Taking(v, m)
               p == Pieces(v, m)
    <2>2. cur = e + 4 + l + c
      BY <1>3, <2>1
    <2>3. Len(v) \in Nat /\ Taking(v, Len(v)) = r /\ Pieces(v, Len(v)) = v
      BY <1>4, PieceEnds
    <2>4. CASE m = Len(v)
      <3>1. c = r /\ p = v
        BY <2>3, <2>4
      <3>2. Text!At(cur) = "quote"
        <4>1. cur = e + 4 + l + r
          BY <2>2, <3>1
        <4> QED
          BY <1>5, <1>8, <4>1 DEF Seen
      <3>3. Text!EndString
        BY <3>2 DEF Text!PlainChar, Text!EscapedChar
      <3>4. /\ at' = "entry" /\ cur' = cur + 1 /\ calls' = calls
            /\ tree' = Text!Assign(tree, name, Text!Primitive("string", chars), {})
        <4>1. ~(cur >= n)
          BY <1>1, <1>8
        <4> QED
          BY <3>3, <4>1 DEF Text!EndString
      <3>5. Fits(calls', tree', First(k + 1))
        BY <1>3, <1>4, <2>1, <3>1, <3>4, FitsLeaf
      <3>6. cur' = TEnd(k + 1) - 1 /\ cur' <= n /\ n >= e + 5 + l + r
        <4> HIDE DEF e, l, r, c, n
        <4>1. /\ e \in Nat /\ l \in Nat /\ r \in Nat /\ TEnd(k + 1) = e + 6 + l + r
              /\ cur = e + 4 + l + r /\ cur' = cur + 1 /\ cur < n /\ n \in Nat
          BY <1>1, <1>5, <1>8, <2>2, <3>1, <3>4
        <4> QED
          BY ONLY <4>1
      <3>7. k + 1 = Len(doc) => There = <<First(k + 1)>>
        BY <1>1, <1>3, <3>6, ThereKinds
      <3>8. i.t # 9
        BY <1>3
      <3>9. AtEnd' \/ \E j : AtNext(j)'
        BY <1>1, <1>3, <3>5, <3>6, <3>7, <3>8, NextItem
      <3> QED
        BY <1>1, <3>4, <3>9, Arrives
    <2>5. CASE m < Len(v)
      <3> DEFINE x == v[m + 1]
                 s == Len(x.raw)
      <3>1. m \in 0 .. Len(v) - 1 /\ m + 1 \in 0 .. Len(v)
        BY <2>3, <2>5
      <3>2. /\ p \in Seq(Piece) /\ x \in Piece /\ Pieces(v, m + 1) = Append(p, x)
            /\ c \in Nat /\ s \in Nat \ {0} /\ Taking(v, m + 1) = c + s
        BY <1>4, <3>1, PieceNext
      <3>3. c + s <= r /\ \A j \in 1 .. s : Raw(v)[c + j] = x.raw[j]
        BY <1>4, <3>1, <3>2, PiecePlace
      <3> HIDE DEF s, x, c, p, e, l, r, n
      <3>4. \A j \in 1 .. s : Seen(cur + j - 1, x.raw[j])
        <4>1. \A j \in 1 .. s : c + j \in 1 .. r /\ e + 3 + l + (c + j) = cur + j - 1
          <5>1. c \in Nat /\ s \in Nat /\ c + s <= r /\ e \in Nat /\ l \in Nat /\ r \in Nat
                /\ cur = e + 4 + l + c
            BY <1>5, <2>2, <3>2, <3>3
          <5> QED
            BY ONLY <5>1
        <4> SUFFICES ASSUME NEW j \in 1 .. s PROVE Seen(cur + j - 1, x.raw[j])
          OBVIOUS
        <4>2. Seen(e + 3 + l + (c + j), Raw(v)[c + j])
          BY <1>5, <4>1
        <4> QED
          BY <3>3, <4>1, <4>2
      <3>5. Means(Append(p, x)) = Append(chars, x.is)
        BY <2>1, <3>2, MeansFacts DEF p
      <3>6. Text!At(cur) = x.raw[1] /\ (s = 2 /\ cur + 1 < n => Text!At(cur + 1) = x.raw[2])
            /\ (s = 2 /\ ~(cur + 1 < n) => Text!At(cur + 1) = "nul")
        <4>1. 1 \in 1 .. s /\ cur + 1 - 1 = cur /\ cur + 2 - 1 = cur + 1
          BY <1>1, <3>2
        <4>2. Seen(cur, x.raw[1]) /\ (s = 2 => Seen(cur + 1, x.raw[2]))
          BY <3>4, <4>1
        <4> QED
          BY <1>8, <4>2 DEF Seen, n
      <3>7. ASSUME at' = "value", UNCHANGED <<name, tree>>, cur' = cur + s, cur' <= n,
                   chars' = Append(chars, x.is)
            PROVE  TextDecodeInv'
        <4>1. cur' = e + 4 + Len(name') + Taking(v, m + 1)
          <5>1. Len(name') = l
            BY <1>3, <3>7 DEF l
          <5>2. /\ cur' = e + 4 + l + c + s /\ e \in Nat /\ l \in Nat /\ c \in Nat /\ s \in Nat
                /\ Taking(v, m + 1) = c + s
            BY <1>5, <2>2, <3>2, <3>7
          <5>3. e + 4 + l + c + s = e + 4 + l + (c + s)
            <6>1. e \in Nat /\ l \in Nat /\ c \in Nat /\ s \in Nat
              BY <5>2
            <6> QED
              BY ONLY <6>1
          <5> QED
            BY <5>1, <5>2, <5>3, Zenon
        <4>2. chars' = Means(Pieces(v, m + 1))
          BY <3>2, <3>5, <3>7
        <4>3. AtText(k)'
          BY <1>1, <1>3, <3>1, <3>7, <4>1, <4>2, TextNow DEF n, e, InItem
        <4> QED
          BY <1>1, <3>7, <4>3, Arrives
      <3>8. CASE s = 1 /\ x.raw[1] = x.is /\ x.is \in Unquoted
        <4>1. Text!At(cur) \notin {"quote", "escape"}
          BY <3>6, <3>8 DEF Unquoted
        <4>2. ~(cur >= n)
          BY <1>1, <1>8
        <4>3. Text!PlainChar
          BY <1>8, <4>1, <4>2 DEF Text!EndString, Text!EscapedChar, n
        <4>4. /\ at' = "value" /\ UNCHANGED <<name, tree>> /\ cur' = cur + 1
              /\ chars' = Append(chars, Text!At(cur))
          BY <4>3 DEF Text!PlainChar
        <4>5. cur' <= n
          BY <1>1, <1>8, <4>4
        <4> QED
          BY <3>6, <3>7, <3>8, <4>4, <4>5
      <3>9. CASE s = 2 /\ x.raw[1] = "escape" /\ x.is = Text!Unescape(x.raw[2])
        <4>1. Text!At(cur) = "escape"
          BY <3>6, <3>9
        <4>2. ~(cur >= n)
          BY <1>1, <1>8
        <4>3. Text!EscapedChar
          BY <4>1, <4>2 DEF Text!EndString, Text!PlainChar, n
        <4>4. /\ at' = "value" /\ UNCHANGED <<name, tree>> /\ cur' = cur + 2
              /\ chars' = Append(chars, Text!Unescape(Text!At(cur + 1)))
          BY <4>3 DEF Text!EscapedChar
        <4>5. CASE cur + 1 < n
          <5>1. cur' <= n
            BY <1>1, <4>4, <4>5
          <5> QED
            BY <3>6, <3>7, <3>9, <4>4, <4>5, <5>1
        <4>6. CASE ~(cur + 1 < n)
          <5> DEFINE w == Append(p, Plain("nul"))
          <5>1. cur + 1 = n /\ cur' >= n
            BY <1>1, <1>8, <4>4, <4>6
          <5>2. /\ n >= e + 4 + l /\ n < e + 5 + l + r /\ n < TEnd(k + 1)
                /\ n - e - (4 + l) = c + 1 /\ c < c + 1 /\ c <= c + 1 /\ c + s > c + 1 /\ c + 1 \in Nat
            <6>1. /\ e \in Nat /\ l \in Nat /\ r \in Nat /\ c \in Nat /\ c + s <= r /\ s = 2
                  /\ n = e + 4 + l + c + 1 /\ TEnd(k + 1) = e + 6 + l + r
              BY <1>5, <2>2, <3>2, <3>3, <3>9, <5>1
            <6> QED
              BY ONLY <6>1
          <5>3. CutValue(v, c + 1) = w
            <6>1. CutValue(v, c + 1) = p \o IF c < c + 1 THEN <<Plain("nul")>> ELSE << >>
              <7>1. Taking(v, m) = c /\ Taking(v, m + 1) > c + 1 /\ p = Pieces(v, m)
                BY <3>2, <5>2 DEF c, p
              <7> QED
                BY <1>4, <3>1, <5>2, <7>1, CutAt
            <6>2. p \o <<Plain("nul")>> = w
              BY <3>2
            <6> QED
              BY <5>2, <6>1, <6>2
          <5>4. There = <<Append(First(k), [i EXCEPT !.v = CutValue(@, n - e - (4 + l))])>>
            BY <1>1, <1>3, <1>5, <5>2, ThereKinds DEF n, e, l, r
          <5>5. There = <<Append(First(k), [i EXCEPT !.v = w])>>
            <6>1. [i EXCEPT !.v = CutValue(@, c + 1)] = [i EXCEPT !.v = CutValue(i.v, c + 1)]
              OBVIOUS
            <6> QED
              BY <5>2, <5>3, <5>4, <6>1
          <5>6. Plain("nul") \in Piece /\ Plain("nul").is = "nul"
            BY DEF Piece, Plain, Unquoted, Text!Char
          <5>7. w \in Seq(Piece)
            BY <3>2, <5>6
          <5>8. chars' = Means(w)
            <6>1. Means(w) = Append(Means(p), "nul")
              BY <3>2, <5>6, MeansFacts
            <6>2. Text!Unescape("nul") = "nul"
              BY DEF Text!Unescape
            <6> QED
              BY <2>1, <3>6, <3>9, <4>4, <4>6, <6>1, <6>2 DEF p
          <5> HIDE DEF w
          <5>9. CutText(k)'
            BY <1>1, <1>3, <4>4, <5>1, <5>5, <5>7, <5>8, TextNow DEF n, InItem
          <5> QED
            BY <1>1, <4>4, <5>9, Arrives
        <4> QED
          BY <4>5, <4>6
      <3> QED
        BY <3>2, <3>8, <3>9, PieceFacts DEF s
    <2> QED
      BY <2>3, <2>4, <2>5
  <1> QED
    BY <1>1, <1>2, <1>6, <1>7, <1>8

\* The object "appinfo" of a tree, under its key again.
LEMMA UnderKey ==
  ASSUME NEW o \in Text!Object
  PROVE  {[n EXCEPT !.path = <<AppInfo>> \o @] : n \in Text!as_object(o, AppInfo)}
           = {n \in o : n.path[1] = AppInfo /\ Len(n.path) > 1}
  <1> DEFINE S == Seq(Text!Char)
             sub == {n \in o : Len(n.path) > 1 /\ n.path[1] = AppInfo}
             below(n) == [path |-> Tail(n.path), val |-> n.val]
             up(m) == [m EXCEPT !.path = <<AppInfo>> \o @]
  <1>1. Text!as_object(o, AppInfo) = {below(n) : n \in sub}
    BY DEF Text!as_object
  <1>2. ASSUME NEW n \in sub PROVE up(below(n)) = n
    <2>1. n \in [path : Seq(S), val : Text!Value] /\ Len(n.path) > 1 /\ n.path[1] = AppInfo
      BY DEF Text!Object, Text!Node
    <2> DEFINE p == n.path
    <2>2. p \in Seq(S) /\ Len(p) > 1 /\ p[1] = AppInfo
      BY <2>1
    <2>3. n = [path |-> p, val |-> n.val]
      BY <2>1
    <2> HIDE DEF p, S
    <2>4. <<AppInfo>> \o Tail(p) = p
      <3>1. AppInfo \in S
        BY <2>2
      <3> HIDE DEF S
      <3>2. Tail(p) \in Seq(S) /\ Len(Tail(p)) = Len(p) - 1 /\ Len(p) \in Nat
            /\ \A j \in 1 .. Len(p) - 1 : Tail(p)[j] = p[j + 1]
        BY <2>2
      <3>3. <<AppInfo>> \in Seq(S) /\ Len(<<AppInfo>>) = 1 /\ <<AppInfo>>[1] = AppInfo
        BY <3>1
      <3> DEFINE q == <<AppInfo>> \o Tail(p)
      <3>4. /\ q \in Seq(S) /\ Len(q) = Len(p) /\ q[1] = AppInfo
            /\ \A j \in 1 .. Len(p) - 1 : q[1 + j] = p[j + 1]
        <4>1. /\ q \in Seq(S) /\ Len(q) = 1 + Len(Tail(p))
              /\ \A j \in 1 .. 1 : q[j] = <<AppInfo>>[j]
              /\ \A j \in 1 .. Len(Tail(p)) : q[1 + j] = Tail(p)[j]
          BY <3>2, <3>3, Concatenated
        <4> HIDE DEF q
        <4> QED
          BY <3>2, <3>3, <4>1
      <3> HIDE DEF q
      <3>5. \A j \in 1 .. Len(p) : q[j] = p[j]
        <4> SUFFICES ASSUME NEW j \in 1 .. Len(p) PROVE q[j] = p[j]
          OBVIOUS
        <4>1. CASE j = 1
          BY <2>2, <3>4, <4>1
        <4>2. CASE j # 1
          <5>1. j - 1 \in 1 .. Len(p) - 1 /\ 1 + (j - 1) = j /\ (j - 1) + 1 = j
            BY <3>2, <4>2
          <5> QED
            BY <3>4, <5>1
        <4> QED
          BY <4>1, <4>2
      <3> QED
        BY <2>2, <3>4, <3>5, SeqEqual DEF q
    <2> QED
      BY <2>3, <2>4 DEF p
  <1>3. {up(m) : m \in {below(n) : n \in sub}} = {up(below(n)) : n \in sub}
    BY ZenonT(30)
  <1>4. {up(below(n)) : n \in sub} = sub
    <2> HIDE DEF up, below, sub
    <2> QED
      BY <1>2
  <1>5. sub = {n \in o : n.path[1] = AppInfo /\ Len(n.path) > 1}
    OBVIOUS
  <1> QED
    BY <1>1, <1>3, <1>4, <1>5

\* parse_app takes the object out of the tree.
LEMMA TakeDecodes ==
  ASSUME TextDecodeInv, UNCHANGED doc, Text!TakeAppInfo
  PROVE  TextDecodeInv'
  <1>1. /\ UNCHANGED <<doc, text>> /\ at = "parsed"
        /\ IF Text!IsObject(tree, AppInfo)
             THEN at' = "done" /\ tree' = Text!as_object(tree, AppInfo)
             ELSE at' = "thrown"
    BY DEF Text!TakeAppInfo
  <1>2. PICK items : tree \in Text!Object /\ Meant = <<items>> /\ tree = State(items).nodes
    BY <1>1 DEF TextDecodeInv
  <1>3. TextCutoff' /\ Meant' = Meant
    BY <1>1, TextFrame DEF TextDecodeInv
  <1>4. (IF Meant = << >> THEN {} ELSE Meaning(Resolved(Meant[1]))) = tree
    BY <1>2 DEF State, Meaning
  <1>5. (\E n \in tree : n.path = <<AppInfo>> /\ n.val.kind = "object") <=> Text!IsObject(tree, AppInfo)
    BY DEF Text!IsObject
  <1>6. Outcome'
    <2>1. CASE Text!IsObject(tree, AppInfo)
      <3>1. {[n EXCEPT !.path = <<AppInfo>> \o @] : n \in tree'}
              = {n \in tree : n.path[1] = AppInfo /\ Len(n.path) > 1}
        BY <1>1, <1>2, <2>1, UnderKey
      <3> QED
        BY <1>1, <1>3, <1>4, <1>5, <2>1, <3>1 DEF Outcome, AppInfo
    <2>2. CASE ~Text!IsObject(tree, AppInfo)
      BY <1>1, <1>3, <1>4, <1>5, <2>2 DEF Outcome, AppInfo
    <2> QED
      BY <2>1, <2>2
  <1>7. at' \in {"done", "thrown"}
    BY <1>1
  <1> QED
    BY <1>3, <1>6, <1>7 DEF TextDecodeInv

\* Nothing has been read yet.
LEMMA TextDecodeInit ==
  ASSUME TextCutoff, Text!Init
  PROVE  TextDecodeInv
  <1>1. cur = 0 /\ at = "entry" /\ tree = {} /\ calls = << >>
    BY DEF Text!Init
  <1>2. doc \in Seq(AnyTextItem) /\ Len(doc) \in Nat /\ First(0) = << >>
    <2>1. doc \in Seq(AnyTextItem)
      BY DEF TextCutoff
    <2> QED
      BY <2>1, TextEnds
  <1>3. Fits(calls, tree, << >>)
    BY <1>1, FitsNothing
  <1>4. CASE doc = << >>
    <2>1. There = <<<< >>>>
      BY <1>4 DEF There, Items
    <2>2. Text!size = 0
      BY <1>4 DEF TextCutoff, TextCuts, Text!size
    <2>3. Text!skip_ws(cur) >= Text!size
      BY <1>1, <2>2, SkipOne
    <2> QED
      BY <1>1, <1>3, <2>1, <2>3 DEF TextDecodeInv, AtEnd
  <1>5. CASE doc # << >>
    <2>1. 0 \in 0 .. Len(doc) - 1
      BY <1>2, <1>5
    <2>2. TEnd(0) = 0
      BY <1>2, PrintAllFacts DEF TEnd
    <2>3. AtNext(0)
      BY <1>1, <1>2, <1>3, <2>1, <2>2 DEF AtNext
    <2> QED
      BY <1>1, <2>3 DEF TextDecodeInv
  <1> QED
    BY <1>4, <1>5

\* A step of the parser.
LEMMA TextDecodeStep ==
  ASSUME TextInv, TextLocals, TextDecodeInv, UNCHANGED doc, Text!Next
  PROVE  TextDecodeInv'
  <1>1. CASE Text!EndOfInput \/ Text!CloseObject \/ Text!Key
    BY <1>1, EntryDecodes
  <1>2. CASE Text!PlainChar \/ Text!EscapedChar \/ Text!EndString
    <2>1. at \in {"key", "value"}
      BY <1>2 DEF Text!PlainChar, Text!EscapedChar, Text!EndString
    <2> QED
      BY <1>2, <2>1, NameDecodes, ValueDecodes
  <1>3. CASE Text!OpenObject \/ Text!StringValue
    BY <1>3, AfterDecodes
  <1>4. CASE Text!TakeAppInfo
    BY <1>4, TakeDecodes
  <1> QED
    BY <1>1, <1>2, <1>3, <1>4 DEF Text!Next

\* With the binary parser at rest, or the one of texts.
AppInv == TextInv /\ TextLocals /\ (product = "app" => TextDecodeInv)

\* A step of either parser.
LEMMA AppStep ==
  ASSUME AppInv, [MCNext]_<<product, doc, vars, textVars>>
  PROVE  AppInv'
  <1>1. TextInv' /\ TextLocals'
    <2>1. [Text!Next]_textVars
      BY DEF MCNext
    <2> QED
      BY <2>1, TextStep, LocalsStep DEF AppInv
  <1>2. CASE product = "package" /\ Next /\ UNCHANGED <<product, doc, textVars>>
    <2>1. product' # "app"
      BY <1>2
    <2> QED
      BY <1>1, <2>1 DEF AppInv
  <1>3. CASE product = "app" /\ Text!Next /\ UNCHANGED <<product, doc, vars>>
    <2>1. TextDecodeInv'
      BY <1>3, TextDecodeStep DEF AppInv
    <2> QED
      BY <1>1, <2>1 DEF AppInv
  <1>4. CASE UNCHANGED <<product, doc, vars, textVars>>
    <2>1. UNCHANGED <<product, doc, text, cur, at, tree, name, chars, calls>>
      BY <1>4 DEF textVars
    <2>2. TextDecodeInv' <=> TextDecodeInv
      <3>1. /\ TextCutoff' <=> TextCutoff
            /\ There' = There /\ Meant' = Meant /\ Text!size' = Text!size
            /\ Text!skip_ws(cur)' = Text!skip_ws(cur)
        BY <2>1, TextFrame
      <3>2. \A k : (AtNext(k)' <=> AtNext(k)) /\ (AtName(k)' <=> AtName(k))
                   /\ (AfterName(k)' <=> AfterName(k)) /\ (AtText(k)' <=> AtText(k))
                   /\ (CutText(k)' <=> CutText(k))
        <4> SUFFICES ASSUME NEW k
                     PROVE  (AtNext(k)' <=> AtNext(k)) /\ (AtName(k)' <=> AtName(k))
                            /\ (AfterName(k)' <=> AfterName(k)) /\ (AtText(k)' <=> AtText(k))
                            /\ (CutText(k)' <=> CutText(k))
          OBVIOUS
        <4>1. InItem(k)' <=> InItem(k)
          BY <2>1, TextNow DEF InItem
        <4>2. AtNext(k)' <=> AtNext(k)
          BY <2>1, TextNow DEF AtNext
        <4>3. AtName(k)' <=> AtName(k)
          BY <2>1, <4>1, TextNow DEF AtName
        <4>4. AfterName(k)' <=> AfterName(k)
          BY <2>1, <4>1, TextNow DEF AfterName
        <4>5. AtText(k)' <=> AtText(k)
          BY <2>1, <4>1, TextNow DEF AtText
        <4>6. CutText(k)' <=> CutText(k)
          BY <2>1, <4>1, TextNow DEF CutText
        <4> QED
          BY <4>2, <4>3, <4>4, <4>5, <4>6
      <3>3. AtEnd' <=> AtEnd
        BY <2>1, <3>1 DEF AtEnd
      <3>4. Nothing' <=> Nothing
        BY <2>1, <3>1 DEF Nothing
      <3>5. Outcome' <=> Outcome
        BY <2>1, <3>1 DEF Outcome
      <3> QED
        BY <2>1, <3>1, <3>2, <3>3, <3>4, <3>5 DEF TextDecodeInv
    <2> QED
      BY <1>1, <2>1, <2>2 DEF AppInv
  <1> QED
    BY <1>2, <1>3, <1>4 DEF MCNext

\* It is what TextDecodes needs.
LEMMA AppMeans == AppInv => TextDecodes
  <1> SUFFICES ASSUME AppInv, product = "app", at \in {"done", "thrown"} PROVE TextDecodes
    BY DEF TextDecodes
  <1>1. Outcome
    BY DEF AppInv, TextDecodeInv
  <1> QED
    BY <1>1 DEF Outcome, TextDecodes, Meant

\* Where the two parsers start.
AnyTextInit == product = "app" /\ TextCutoff /\ Text!Init /\ data = << >> /\ Init
AnyTextSpec == AnyTextInit /\ [][MCNext]_<<product, doc, vars, textVars>>

\* parse_text and parse_app decode every document, of any length, nesting, keys
\* and values, with comments and escapes, cut off at any character: from a text
\* that is complete, or that ends within a comment or a value, the object under
\* "appinfo" with all that is below it; any other text throws.
THEOREM TextDecodesAny == AnyTextSpec => []TextDecodes
  <1>1. AnyTextInit => AppInv
    <2>1. Text!Init => TextInv /\ TextLocals
      BY DEF Text!Init, TextInv, TextTypes, TextLocals, Text!size, Text!Object
    <2> QED
      BY <2>1, TextDecodeInit DEF AnyTextInit, AppInv
  <1>2. AppInv /\ [MCNext]_<<product, doc, vars, textVars>> => AppInv'
    BY AppStep
  <1> QED
    BY <1>1, <1>2, AppMeans, PTL DEF AnyTextSpec

\* The small texts that TLC reads are such texts.
LEMMA SmallTexts ==
  ASSUME doc \in TextDocuments, text \in TextCuts(doc)
  PROVE  TextCutoff
  <1>1. TextItem \subseteq AnyTextItem
    <2>1. /\ <<"x">> \in Seq(Unquoted) /\ <<"open">> \in Seq(Unquoted) /\ << >> \in Seq(Unquoted)
          /\ "slash" \in Unquoted
      BY DEF Unquoted, Text!Char
    <2>2. /\ Escaped("quote", "quote") \in Piece /\ Escaped("n", "newline") \in Piece
          /\ Plain("slash") \in Piece
      <3>1. "quote" \in Text!Char /\ "n" \in Text!Char
        BY DEF Text!Char
      <3>2. Text!Unescape("quote") = "quote" /\ Text!Unescape("n") = "newline"
        BY DEF Text!Unescape
      <3> QED
        BY <2>1, <3>1, <3>2 DEF Piece
    <2>3. /\ <<Escaped("quote", "quote")>> \in Seq(Piece) /\ << >> \in Seq(Piece)
          /\ <<Escaped("n", "newline"), Plain("slash"), Plain("slash")>> \in Seq(Piece)
      <3> HIDE DEF Escaped, Plain
      <3> QED
        BY <2>2
    <2>4. \A t \in {0, 8, 9}, k \in Seq(Unquoted) : [t |-> t, k |-> k, v |-> << >>] \in AnyTextItem
      BY <2>3 DEF AnyTextItem
    <2>5. \A k \in Seq(Unquoted), v \in Seq(Piece) : [t |-> 1, k |-> k, v |-> v] \in AnyTextItem
      BY DEF AnyTextItem
    <2>6. /\ [t |-> 0, k |-> <<"x">>, v |-> << >>] \in AnyTextItem
          /\ [t |-> 0, k |-> <<"open">>, v |-> << >>] \in AnyTextItem
          /\ [t |-> 8, k |-> << >>, v |-> << >>] \in AnyTextItem
          /\ [t |-> 9, k |-> << >>, v |-> << >>] \in AnyTextItem
      BY <2>1, <2>3, <2>4
    <2>7. /\ [t |-> 1, k |-> <<"x">>, v |-> <<Escaped("quote", "quote")>>] \in AnyTextItem
          /\ [t |-> 1, k |-> <<"open">>,
              v |-> <<Escaped("n", "newline"), Plain("slash"), Plain("slash")>>] \in AnyTextItem
      BY <2>1, <2>3, <2>5
    <2> QED
      BY <2>6, <2>7, ZenonT(30) DEF TextItem
  <1>2. PICK n \in 0 .. MaxTextItems : doc \in [1 .. n -> TextItem]
    BY DEF TextDocuments
  <1>3. n \in Nat
    BY <1>2
  <1>4. \A j \in 1 .. n : doc[j] \in AnyTextItem
    BY <1>1, <1>2
  <1>5. doc = [j \in 1 .. n |-> doc[j]]
    BY <1>2
  <1>6. doc \in Seq(AnyTextItem)
    BY <1>3, <1>4, <1>5
  <1> QED
    BY <1>6 DEF TextCutoff

\* So what the run checks holds for every bound on the number of items; while a
\* binary document is read the text parser rests, and TextDecodes says nothing.
THEOREM TextDecodesCorrect == MCSpec => []TextDecodes
  <1>1. MCInit => AppInv
    <2> SUFFICES ASSUME MCInit PROVE AppInv
      OBVIOUS
    <2>1. TextInv /\ TextLocals
      <3>1. Text!Init
        BY DEF MCInit
      <3> QED
        BY <3>1 DEF Text!Init, TextInv, TextTypes, TextLocals, Text!size, Text!Object
    <2>2. CASE product = "app" /\ doc \in TextDocuments /\ text \in TextCuts(doc) /\ Text!Init
      BY <2>1, <2>2, SmallTexts, TextDecodeInit DEF AppInv
    <2>3. CASE product = "package"
      BY <2>1, <2>3 DEF AppInv
    <2> QED
      BY <2>2, <2>3 DEF MCInit
  <1>2. AppInv /\ [MCNext]_<<product, doc, vars, textVars>> => AppInv'
    BY AppStep
  <1> QED
    BY <1>1, <1>2, AppMeans, PTL DEF MCSpec
================================================================================
