----------------------------- MODULE MCVDF -----------------------------------
(***************************************************************************)
(* The VDF parsers on small documents, each cut off at every length:       *)
(* parse_binary as parse_pkg calls it, or parse_text in parse_app. A       *)
(* document is a list of items: an object is opened or closed, a leaf, or  *)
(* an entry of a type the binary parser does not know; in text, also a     *)
(* comment. The bytes of keys and values are ones that also are type       *)
(* bytes, the characters ones that also are syntax.                        *)
(***************************************************************************)
EXTENDS VDFBinary, SequencesExt

CONSTANTS
  MaxItems,       \* bound: items of a binary document
  MaxTextItems    \* bound: items of a text document

VARIABLES
  product,    \* "package" (binary) or "app" (text)
  doc,        \* the document that the buffer is cut from
  \* the variables of the text parser
  text, cur, at, tree, name, chars, calls, seen

AppInfo == <<"x">>

Text == INSTANCE VDFText WITH buffer <- text, pos <- cur, pc <- at, obj <- tree,
          key <- name, str <- chars, stack <- calls, touched <- seen

textVars == <<text, cur, at, tree, name, chars, calls, seen>>

K1 == << >>
K2 == <<8>>

Item ==
  {[t |-> 0, k |-> K1, b |-> << >>], [t |-> 0, k |-> K2, b |-> << >>],
   [t |-> 1, k |-> K1, b |-> <<1>>], [t |-> 2, k |-> K2, b |-> <<0, 8, 0, 0>>],
   [t |-> 3, k |-> K1, b |-> <<8, 0, 0, 8>>],
   [t |-> 7, k |-> K2, b |-> <<0, 0, 8, 8, 0, 0, 1, 0>>],
   [t |-> 255, k |-> K2, b |-> << >>],
   [t |-> 8, k |-> << >>, b |-> << >>]}

Documents == UNION {[1 .. n -> Item] : n \in 0 .. MaxItems}

\* The bytes of an item, as a writer of the format produces them.
Encode(i) ==
  CASE i.t = 8 -> <<8>>
    [] i.t = 1 -> <<1>> \o i.k \o <<0>> \o i.b \o <<0>>
    [] OTHER   -> <<i.t>> \o i.k \o <<0>> \o i.b

EncodeAll(d) == FlattenSeq([i \in 1 .. Len(d) |-> Encode(d[i])])

\* A document cut off within (or right after) its last item.
Cuts(d) ==
  IF d = << >>
    THEN {<< >>}
    ELSE {SubSeq(EncodeAll(d), 1, n) :
            n \in Len(EncodeAll(Front(d))) + 1 .. Len(EncodeAll(d))}

\* What an escape sequence or a character of a text value stands for.
Plain(c)      == [raw |-> <<c>>, is |-> c]
Escaped(c, v) == [raw |-> <<"escape", c>>, is |-> v]
Raw(v) == FlattenSeq([i \in 1 .. Len(v) |-> v[i].raw])

TextItem ==
  {[t |-> 0, k |-> <<"x">>, v |-> << >>], [t |-> 0, k |-> <<"open">>, v |-> << >>],
   [t |-> 1, k |-> <<"x">>, v |-> <<Escaped("quote", "quote")>>],
   [t |-> 1, k |-> <<"open">>,
    v |-> <<Escaped("n", "newline"), Plain("slash"), Plain("slash")>>],
   [t |-> 8, k |-> << >>, v |-> << >>],
   [t |-> 9, k |-> << >>, v |-> << >>]}

TextDocuments == UNION {[1 .. n -> TextItem] : n \in 0 .. MaxTextItems}

\* The text of an item, laid out as stringify_object does, with the escapes
\* that it leaves out. "tab" stands for its blanks.
Lay(i) ==
  CASE i.t = 0 -> <<"quote">> \o i.k \o <<"quote", "newline", "open", "newline">>
    [] i.t = 1 -> <<"quote">> \o i.k \o <<"quote", "tab", "quote">>
                    \o Raw(i.v) \o <<"quote", "newline">>
    [] i.t = 8 -> <<"tab", "close", "newline">>
    [] i.t = 9 -> <<"slash", "slash", "quote", "newline">>

PrintAll(d) == FlattenSeq([i \in 1 .. Len(d) |-> Lay(d[i])])

TextCuts(d) ==
  IF d = << >>
    THEN {<< >>, <<"nul">>}
    ELSE {SubSeq(PrintAll(d) \o <<"nul">>, 1, n) :
            n \in Len(PrintAll(Front(d))) + 2 .. Len(PrintAll(d)) + 1}

MCInit ==
  \/ /\ product = "package"
     /\ doc \in Documents /\ data \in Cuts(doc) /\ Init
     /\ text = << >> /\ Text!Init
  \/ /\ product = "app"
     /\ doc \in TextDocuments /\ text \in TextCuts(doc) /\ Text!Init
     /\ data = << >> /\ Init
MCNext ==
  \/ product = "package" /\ Next /\ UNCHANGED <<product, doc, textVars>>
  \/ product = "app" /\ Text!Next /\ UNCHANGED <<product, doc, vars>>
\* A sequential function that goes on to its end.
MCSpec ==
  MCInit /\ [][MCNext]_<<product, doc, vars, textVars>> /\ WF_<<vars, textVars>>(MCNext)

-----------------------------------------------------------------------------
(* What a document means, item by item and without a cursor.               *)

\* The path at which the items up to the i-th leave the reader, and the nodes
\* read so far. A node takes the place of an earlier one with the same key.
Put(s, p, v) ==
  {n \in s : ~IsPrefix(p, n.path)} \cup {[path |-> p, val |-> v]}

KindOf == [t \in {0, 1, 2, 3, 7} |->
             CASE t = 0 -> "object" [] t = 1 -> "string" [] t = 2 -> "int32"
               [] t = 3 -> "float" [] t = 7 -> "uint64"]

\* An item read in state s; b is the content of a leaf.
Read(s, i) ==
  IF i.t = 8
    THEN [s EXCEPT !.at = Front(@)]
    ELSE [at |-> IF i.t = 0 THEN Append(s.at, i.k) ELSE s.at,
          nodes |-> Put(s.nodes, Append(s.at, i.k),
                        [kind |-> KindOf[i.t], bytes |-> i.b])]

\* The state after some items.
After(items) ==
  LET after[n \in 0 .. Len(items)] ==
        IF n = 0 THEN [at |-> << >>, nodes |-> {}] ELSE Read(after[n - 1], items[n])
  IN  after[Len(items)]

Meaning(items) == After(items).nodes

Count(items, t) == Cardinality({i \in 1 .. Len(items) : items[i].t = t})

\* The items that end the document: one that closes the root.
EndsAt(d, c) ==
  /\ d[c].t = 8
  /\ Count(SubSeq(d, 1, c), 8) = Count(SubSeq(d, 1, c), 0) + 1
  /\ \A i \in 1 .. c - 1 :
       Count(SubSeq(d, 1, i), 8) <= Count(SubSeq(d, 1, i), 0)

Known(items) == \A i \in 1 .. Len(items) : items[i].t \in DOMAIN KindOf \cup {8}

\* parse_binary: a document that is closed has its meaning, whatever follows;
\* one that is cut off between two items means what came before, all objects
\* closed; one that is cut off inside an item, or has an entry of an unknown
\* type, is refused.
Decodes ==
  product = "package" /\ pc \in {"done", "thrown"} =>
    LET whole == {i \in 0 .. Len(doc) : Len(EncodeAll(SubSeq(doc, 1, i))) <= size}
        cutAt == {i \in whole : Len(EncodeAll(SubSeq(doc, 1, i))) = size}
        ends  == {c \in whole \ {0} : EndsAt(doc, c)}
        read  == IF ends # {} THEN {c - 1 : c \in ends} ELSE cutAt
    IN  IF \E b \in read : Known(SubSeq(doc, 1, b))
          THEN pc = "done" /\ \A b \in read : obj = Meaning(SubSeq(doc, 1, b))
          ELSE pc = "thrown"

-----------------------------------------------------------------------------
(* The same of a text.                                                     *)

\* The items as Read takes them: without comments, the escapes resolved.
Resolve(i) ==
  IF i.t = 9
    THEN << >>
    ELSE <<[t |-> i.t, k |-> i.k, b |-> [n \in 1 .. Len(i.v) |-> i.v[n].is]]>>

Resolved(items) == FlattenSeq([i \in 1 .. Len(items) |-> Resolve(items[i])])

Depth(items) == Count(items, 0) - Count(items, 8)

\* What a value means of which only n characters are there: an escape that was
\* cut off takes the terminator.
CutValue(v, n) ==
  LET whole == CHOOSE m \in 0 .. Len(v) :
                 /\ Len(Raw(SubSeq(v, 1, m))) <= n
                 /\ m < Len(v) => Len(Raw(SubSeq(v, 1, m + 1))) > n
  IN  SubSeq(v, 1, whole)
        \o IF Len(Raw(SubSeq(v, 1, whole))) < n THEN <<Plain("nul")>> ELSE << >>

\* The items that are there in a text of n characters, << >> or <<items>>: none if
\* it ends inside a key or between a key and its value. It may end inside a
\* comment, or inside a value, which then is what there is.
Items(d, n) ==
  IF d = << >>
    THEN <<d>>
    ELSE LET last == d[Len(d)]
             head == Front(d)
             left == n - Len(PrintAll(head))
             opened == 4 + Len(last.k)
         IN  IF left >= Len(Lay(last)) - 1
               THEN <<d>>
               ELSE IF (last.t = 9 /\ left >= 2) \/ (last.t = 8 /\ left = 1)
               THEN <<head>>
               ELSE IF last.t = 1 /\ left >= opened
               THEN <<Append(head, [last EXCEPT !.v = CutValue(@, left - opened)])>>
               ELSE << >>

\* No brace closes the root.
Balanced(items) == \A i \in 1 .. Len(items) : Depth(SubSeq(items, 1, i)) >= 0

\* The items a text means, << >> or <<items>>. It also is refused when a brace
\* closes the root, or when an object is left open.
Complete(d, n) ==
  IF \A i \in 1 .. Len(Items(d, n)) :
       Balanced(Items(d, n)[i]) /\ Depth(Items(d, n)[i]) = 0
    THEN Items(d, n)
    ELSE << >>

\* parse_app: the object "appinfo" of a text that is complete; any other text
\* is refused.
TextDecodes ==
  product = "app" /\ at \in {"done", "thrown"} =>
    LET items == Complete(doc, Len(text) - 1)
        whole == IF items = << >> THEN {} ELSE Meaning(Resolved(items[1]))
    IN  IF \E n \in whole : n.path = <<AppInfo>> /\ n.val.kind = "object"
          THEN /\ at = "done"
               /\ {[n EXCEPT !.path = <<AppInfo>> \o @] : n \in tree}
                    = {n \in whole : n.path[1] = AppInfo /\ Len(n.path) > 1}
          ELSE at = "thrown"

\* Text!InStorage: parse_text reads nothing behind the storage of its string.
TextInStorage == Text!InStorage

\* parse_binary and parse_text return or throw, on every buffer.
Terminates == <>(pc \in {"done", "thrown"} \/ at \in {"done", "thrown"})
=============================================================================
