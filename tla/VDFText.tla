-------------------------------- MODULE VDFText --------------------------------
(***************************************************************************)
(* The parser for text VDF (src/utils/vdf/vdf_text.cpp) on the buffer of   *)
(* an application, and parse_app, which calls it                           *)
(* (src/routing/events/handlers/product_info_handler.cpp).                 *)
(*                                                                         *)
(* parse and parse_object run the same loop over entries; `stack` holds    *)
(* the calls below the running one, and is empty while parse itself runs.  *)
(* A character is one that the parser tells apart, or "x" for the others.  *)
(***************************************************************************)
EXTENDS Naturals, VDF

CONSTANT AppInfo        \* the key "appinfo"

Char == {"quote", "open", "close", "escape", "slash", "newline", "tab",
         "n", "t", "x", "nul"}

VARIABLES
  buffer,    \* app.buffer()
  pos,       \* the cursor
  pc,        \* where the running call is
  obj,       \* the object the running call builds
  key,       \* key of its present entry
  str,       \* what parse_string has collected
  stack,     \* the calls below: their obj and key
  touched    \* history: one past the highest index that was read

vars == <<buffer, pos, pc, obj, key, str, stack, touched>>

Value  == [kind : {"string", "object"}, bytes : Seq(Char)]
Node   == [path : Seq(Seq(Char)), val : Value]
Object == SUBSET Node
Caller == [obj : Object, key : Seq(Char)]

\* TextParser: the buffer, the cursor, the locals of the running call and of the
\* calls below it keep their types.
TypeOK ==
  /\ buffer \in Seq(Char)
  /\ pos \in Nat
  /\ pc \in {"entry", "key", "after", "value", "parsed", "done", "thrown"}
  /\ obj \in Object
  /\ key \in Seq(Char)
  /\ str \in Seq(Char)
  /\ stack \in Seq(Caller)
  /\ touched \in Nat

\* parse_app, with any buffer: the call of parse_text.
Init ==
  /\ buffer \in Seq(Char)
  /\ pos = 0
  /\ pc = "entry"
  /\ obj = {}
  /\ key = << >>
  /\ str = << >>
  /\ stack = << >>
  /\ touched = 0

-----------------------------------------------------------------------------
(* The input. buffer.pop_back() leaves the parser all but the last         *)
(* character, which becomes the terminator of the string; the terminator   *)
(* of the longer string is still behind it.                                *)

size == IF buffer = << >> THEN 0 ELSE Len(buffer) - 1

\* input[i]; the string view is never asked for its size.
At(i) == IF i < size THEN buffer[i + 1] ELSE "nul"

Touch(i) == IF touched > i THEN touched ELSE i + 1

isspace(c) == c \in {"newline", "tab"}

\* skip_ws(): where it leaves the cursor. A comment ends before its newline.
skip_ws(p) ==
  LET comment[i \in Nat] ==
        IF i < size /\ At(i) # "newline" THEN comment[i + 1] ELSE i
      skip[i \in Nat] ==
        IF i < size /\ isspace(At(i))
          THEN skip[i + 1]
          ELSE IF i + 1 < size /\ At(i) = "slash" /\ At(i + 1) = "slash"
                 THEN skip[comment[i]]
                 ELSE i
  IN  skip[p]

\* The character an escape sequence stands for.
Unescape(n) == CASE n = "n" -> "newline" [] n = "t" -> "tab" [] OTHER -> n

-----------------------------------------------------------------------------
(* The actions.                                                            *)

\* The head of parse_string at index q, whitespace skipped: peek() or consume()
\* reads q, which may be at the end of the input or past it.
OpenString(q, next) ==
  /\ touched' = Touch(q)
  /\ pos' = q + 1
  /\ IF At(q) = "quote"
       THEN pc' = next /\ str' = << >>
       ELSE pc' = "thrown" /\ UNCHANGED str

\* parse(): no input is left.
EndOfInput ==
  /\ pc = "entry"
  /\ stack = << >>
  /\ skip_ws(pos) >= size
  /\ pos' = skip_ws(pos)
  /\ pc' = "parsed"
  /\ UNCHANGED <<buffer, obj, key, str, stack, touched>>

\* Mutant: parse_object stops at the end of the input, as parse does.
CloseObject_AtEof ==
  /\ pc = "entry"
  /\ stack # << >>
  /\ At(skip_ws(pos)) \in {"close", "nul"}
  /\ touched' = Touch(skip_ws(pos))
  /\ pos' = skip_ws(pos) + 1
  /\ LET caller == stack[Len(stack)]
     IN  /\ obj' = Assign(caller.obj, caller.key,
                          Primitive("object", << >>), obj)
         /\ key' = caller.key
         /\ stack' = SubSeq(stack, 1, Len(stack) - 1)
  /\ UNCHANGED <<buffer, pc, str>>

\* parse_object(): the brace that closes it, and its return to the caller.
CloseObject ==
  /\ pc = "entry"
  /\ stack # << >>
  /\ At(skip_ws(pos)) = "close"
  /\ touched' = Touch(skip_ws(pos))
  /\ pos' = skip_ws(pos) + 1
  /\ LET caller == stack[Len(stack)]
     IN  /\ obj' = Assign(caller.obj, caller.key,
                          Primitive("object", << >>), obj)
         /\ key' = caller.key
         /\ stack' = SubSeq(stack, 1, Len(stack) - 1)
  /\ UNCHANGED <<buffer, pc, str>>

\* parse() and parse_object(): the key of an entry. Only parse() has looked
\* whether there is input left.
Key ==
  /\ pc = "entry"
  /\ IF stack = << >>
       THEN skip_ws(pos) < size
       ELSE At(skip_ws(pos)) # "close"
  /\ OpenString(skip_ws(pos), "key")
  /\ UNCHANGED <<buffer, obj, key, stack>>

\* Mutant: the loop of parse_string does not test for the end of the input.
PlainChar_NoEof ==
  /\ pc \in {"key", "value"}
  /\ At(pos) \notin {"quote", "escape"}
  /\ str' = Append(str, At(pos))
  /\ pos' = pos + 1
  /\ touched' = Touch(pos)
  /\ UNCHANGED <<buffer, pc, obj, key, stack>>

\* parse_string(): a character that stands for itself.
PlainChar ==
  /\ pc \in {"key", "value"}
  /\ pos < size
  /\ At(pos) \notin {"quote", "escape"}
  /\ str' = Append(str, At(pos))
  /\ pos' = pos + 1
  /\ touched' = Touch(pos)
  /\ UNCHANGED <<buffer, pc, obj, key, stack>>

\* parse_string(): an escape and the character after it, which at the end of
\* the input is the terminator.
EscapedChar ==
  /\ pc \in {"key", "value"}
  /\ pos < size
  /\ At(pos) = "escape"
  /\ str' = Append(str, Unescape(At(pos + 1)))
  /\ pos' = pos + 2
  /\ touched' = Touch(pos + 1)
  /\ UNCHANGED <<buffer, pc, obj, key, stack>>

\* parse_string() returns at the closing quote, or at the end of the input.
EndString ==
  /\ pc \in {"key", "value"}
  /\ \/ pos >= size /\ UNCHANGED <<pos, touched>>
     \/ pos < size /\ At(pos) = "quote" /\ pos' = pos + 1 /\ touched' = Touch(pos)
  /\ IF pc = "key"
       THEN pc' = "after" /\ key' = str /\ UNCHANGED obj
       ELSE /\ pc' = "entry"
            /\ obj' = Assign(obj, key, Primitive("string", str), {})
            /\ UNCHANGED key
  /\ UNCHANGED <<buffer, str, stack>>

\* After a key: the brace that opens an object. parse_object is called ...
OpenObject ==
  /\ pc = "after"
  /\ At(skip_ws(pos)) = "open"
  /\ touched' = Touch(skip_ws(pos))
  /\ pos' = skip_ws(pos) + 1
  /\ stack' = Append(stack, [obj |-> obj, key |-> key])
  /\ obj' = {}
  /\ pc' = "entry"
  /\ UNCHANGED <<buffer, key, str>>

\* ... and anything else is a string.
StringValue ==
  /\ pc = "after"
  /\ At(skip_ws(pos)) # "open"
  /\ OpenString(skip_ws(pos), "value")
  /\ UNCHANGED <<buffer, obj, key, stack>>

\* parse_app: vdf["appinfo"].as_object(), which throws if it is not one.
TakeAppInfo ==
  /\ pc = "parsed"
  /\ IF IsObject(obj, AppInfo)
       THEN pc' = "done" /\ obj' = as_object(obj, AppInfo)
       ELSE pc' = "thrown" /\ UNCHANGED obj
  /\ UNCHANGED <<buffer, pos, key, str, stack, touched>>

Next ==
  \/ EndOfInput \/ CloseObject \/ Key
  \/ PlainChar \/ EscapedChar \/ EndString
  \/ OpenObject \/ StringValue
  \/ TakeAppInfo

Spec == Init /\ [][Next]_vars

-----------------------------------------------------------------------------
(* Properties.                                                             *)

\* TextParser: peek() and consume() do not test for the end of the input, but
\* what they read is in the buffer or one of the two terminators behind it,
\* also when the text ends inside an object, an entry or an escape.
InStorage == touched <= IF buffer = << >> THEN 0 ELSE Len(buffer) + 1
=============================================================================
