---------------------------------- MODULE VDF ----------------------------------
(***************************************************************************)
(* The tree both VDF parsers build (include/steamclient/utilities/vdf.hpp). *)
(* An Object is the set of everything below it: each node with the keys    *)
(* that lead to it. A string or a number is the sequence `bytes`.          *)
(***************************************************************************)
EXTENDS Naturals, Sequences

Primitive(kind, bytes) == [kind |-> kind, bytes |-> bytes]

\* Mutant: emplace() instead of operator[]: the first value of a key stays.
Assign_KeepsFirst(o, k, v, below) ==
  IF \E n \in o : n.path = <<k>>
    THEN o
    ELSE o \cup {[path |-> <<k>>, val |-> v]}
           \cup {[path |-> <<k>> \o n.path, val |-> n.val] : n \in below}

\* obj[key].value = v, where `below` is what v contains if it is an object.
Assign(o, k, v, below) ==
  {n \in o : n.path[1] # k}
    \cup {[path |-> <<k>>, val |-> v]}
    \cup {[path |-> <<k>> \o n.path, val |-> n.val] : n \in below}

\* obj[key].as_object() does not throw. A key that is not there gets an empty
\* string, the first alternative of Value.
IsObject(o, k) == \E n \in o : n.path = <<k>> /\ n.val.kind = "object"

\* obj[key].as_object()
as_object(o, k) ==
  {[path |-> Tail(n.path), val |-> n.val] :
     n \in {m \in o : Len(m.path) > 1 /\ m.path[1] = k}}
=============================================================================
