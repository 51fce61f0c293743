----------------------------- MODULE MCClientMsg -----------------------------
(***************************************************************************)
(* Every structure of the protocol, with its fields as the constructor     *)
(* leaves them and with fields no two bytes of which are alike, all        *)
(* negative when they are signed; a vector may have lost its last byte.    *)
(***************************************************************************)
EXTENDS ClientMsg

AllPrograms == {HeaderProgram(h) : h \in Headers} \cup {MsgProgram(b) : b \in Bodies}

MCPayloadData == {<<0, 9>>}

Distinct(p) ==
  [n \in DOMAIN p.init |->
     LET i == CHOOSE j \in 1 .. Len(p.writes) : p.writes[j].n = n
     IN [j \in 1 .. p.writes[i].from.w |-> 255 - 9 * i - j]]

\* A vector that is a byte short.
Shortened(p) ==
  [n \in DOMAIN p.init |->
     IF \E i \in 1 .. Len(p.writes) : p.writes[i].n = n /\ p.writes[i].array
       THEN Tail(Distinct(p)[n]) ELSE Distinct(p)[n]]

MCInit ==
  /\ prog \in Programs
  /\ val \in {prog.init, Distinct(prog), Shortened(prog)}
  /\ Init
MCSpec == MCInit /\ [][Next]_vars
=============================================================================
