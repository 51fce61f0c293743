----------------------------- MODULE SequenceLemmas -----------------------------
(***************************************************************************)
(* What the proofs about the components need of sequences: their elements  *)
(* one by one, induction over their length, and FlattenSeq by its          *)
(* recursion; and of functions that recur towards an end, like a cursor.   *)
(***************************************************************************)
EXTENDS Integers, Sequences, SequencesExt, WellFoundedInduction, SequenceTheorems, TLAPS

\* The front of a sequence and the rest.
LEMMA HeadTail ==
  ASSUME NEW S, NEW q \in Seq(S), q # << >>
  PROVE  /\ Len(q) \in Nat \ {0} /\ Head(q) = q[1] /\ Head(q) \in S
         /\ Tail(q) \in Seq(S) /\ Len(Tail(q)) = Len(q) - 1
         /\ \A i \in 1 .. Len(Tail(q)) : Tail(q)[i] = q[i + 1] /\ i + 1 \in 1 .. Len(q)
         /\ \A i \in 1 .. Len(q) : i = 1 \/ (i - 1 \in 1 .. Len(Tail(q)) /\ q[i] = Tail(q)[i - 1])
  OBVIOUS

\* Appending an element.
LEMMA Appended ==
  ASSUME NEW S, NEW q \in Seq(S), NEW x \in S
  PROVE  /\ Append(q, x) \in Seq(S) /\ Len(q) \in Nat /\ Len(Append(q, x)) = Len(q) + 1
         /\ \A i \in 1 .. Len(q) : Append(q, x)[i] = q[i]
         /\ Append(q, x)[Len(q) + 1] = x
         /\ \A i \in 1 .. Len(q) + 1 : i \in 1 .. Len(q) \/ i = Len(q) + 1
  OBVIOUS

\* Concatenation.
LEMMA Concatenated ==
  ASSUME NEW S, NEW q \in Seq(S), NEW r \in Seq(S)
  PROVE  /\ q \o r \in Seq(S) /\ Len(q \o r) = Len(q) + Len(r)
         /\ Len(q) \in Nat /\ Len(r) \in Nat
         /\ \A i \in 1 .. Len(q) : (q \o r)[i] = q[i] /\ i \in 1 .. Len(q \o r)
         /\ \A i \in 1 .. Len(r) : (q \o r)[Len(q) + i] = r[i] /\ Len(q) + i \in 1 .. Len(q \o r)
         /\ \A i \in 1 .. Len(q \o r) :
              \/ i \in 1 .. Len(q) /\ (q \o r)[i] = q[i]
              \/ i - Len(q) \in 1 .. Len(r) /\ (q \o r)[i] = r[i - Len(q)]
  OBVIOUS

\* A sequence of one element, and of none.
LEMMA OneElement ==
  ASSUME NEW S, NEW x \in S
  PROVE  /\ <<x>> \in Seq(S) /\ Len(<<x>>) = 1 /\ <<x>>[1] = x
         /\ << >> \in Seq(S) /\ Len(<< >>) = 0
  OBVIOUS

\* Concatenation is associative.
LEMMA Associative ==
  ASSUME NEW S, NEW x \in Seq(S), NEW y \in Seq(S), NEW z \in Seq(S)
  PROVE  (x \o y) \o z = x \o (y \o z)
  OBVIOUS

\* A sequence is a prefix of its continuations.
LEMMA PrefixOfConcat ==
  ASSUME NEW S, NEW p \in Seq(S), NEW r \in Seq(S)
  PROVE  IsPrefix(p, p \o r)
  <1> DEFINE q == p \o r
  <1>1. /\ q \in Seq(S) /\ Len(q) = Len(p) + Len(r) /\ Len(p) \in Nat /\ Len(r) \in Nat
        /\ \A i \in 1 .. Len(p) : q[i] = p[i]
    BY Concatenated
  <1> HIDE DEF q
  <1>2. Len(p) <= Len(q)
    BY <1>1
  <1>3. SubSeq(p, 1, Len(p)) = SubSeq(q, 1, Len(p))
    BY <1>1
  <1> QED
    BY <1>2, <1>3 DEF IsPrefix, q

-----------------------------------------------------------------------------
(* Induction, for sets instead of predicates.                              *)

\* Induction, for a set of natural numbers.
LEMMA NatSetInduction ==
  ASSUME NEW T, 0 \in T, \A n \in Nat : n \in T => n + 1 \in T
  PROVE  Nat \subseteq T
  <1> DEFINE U == Nat \ T
  <1> SUFFICES ASSUME U # {} PROVE FALSE
    OBVIOUS
  <1>1. IsWellFoundedOn(OpToRel(<, Nat), Nat)
    BY NatLessThanWellFounded
  <1>2. U \subseteq Nat
    OBVIOUS
  <1>3. PICK x \in U : \A y \in U : ~ (<<y, x>> \in OpToRel(<, Nat))
    <2> HIDE DEF U
    <2> QED
    BY <1>1, <1>2, WFMin
  <1>4. \A y \in U : ~(y < x)
    BY <1>2, <1>3 DEF OpToRel
  <1>5. x # 0 /\ x \in Nat
    OBVIOUS
  <1>6. x - 1 \in Nat /\ x - 1 \notin U
    BY <1>4, <1>5
  <1>7. (x - 1) + 1 \in T
    BY <1>6
  <1> QED
    BY <1>5, <1>7

\* Induction over sequences.
LEMMA SeqSetInduction ==
  ASSUME NEW S, NEW T, << >> \in T,
         \A q \in Seq(S), x \in S : q \in T => Append(q, x) \in T
  PROVE  Seq(S) \subseteq T
  <1> DEFINE U == {n \in Nat : \A q \in Seq(S) : Len(q) = n => q \in T}
  <1>1. 0 \in U
    <2> SUFFICES ASSUME NEW q \in Seq(S), Len(q) = 0 PROVE q \in T
      OBVIOUS
    <2>1. q = << >>
      BY EmptySeq
    <2> QED
      BY <2>1
  <1>2. ASSUME NEW n \in Nat, n \in U PROVE n + 1 \in U
    <2> SUFFICES ASSUME NEW q \in Seq(S), Len(q) = n + 1 PROVE q \in T
      OBVIOUS
    <2>1. q # << >>
      OBVIOUS
    <2>2. PICK p \in Seq(S), x \in S : q = Append(p, x)
      BY <2>1, SequenceEmptyOrAppend
    <2>3. Len(p) = n
      BY <2>2
    <2>4. p \in T
      BY <1>2, <2>3
    <2> QED
      BY <2>2, <2>4
  <1>3. Nat \subseteq U
    <2> HIDE DEF U
    <2> QED
      BY <1>1, <1>2, NatSetInduction
  <1> SUFFICES ASSUME NEW q \in Seq(S) PROVE q \in T
    OBVIOUS
  <1>4. Len(q) \in U
    BY <1>3
  <1> QED
    BY <1>4

-----------------------------------------------------------------------------
(* FlattenSeq.                                                             *)

\* f is the function that FlattenSeq recurs with.
Flattens(f, q) == f = [i \in 1 .. Len(q) |-> IF i = 1 THEN q[i] ELSE f[i - 1] \o q[i]]

\* FlattenSeq(q) is its last value.
LEMMA FlattenChoice ==
  ASSUME NEW S, NEW q \in Seq(S), q # << >>
  PROVE  FlattenSeq(q) = (CHOOSE f : Flattens(f, q))[Len(q)]
  <1>1. Len(q) # 0
    OBVIOUS
  <1> QED
    BY <1>1, Zenon DEF FlattenSeq, Flattens

\* Its values.
LEMMA FlattensAt ==
  ASSUME NEW q, NEW f, Flattens(f, q), NEW i \in 1 .. Len(q)
  PROVE  f[i] = IF i = 1 THEN q[i] ELSE f[i - 1] \o q[i]
  BY DEF Flattens

\* There is such a function, and its values are sequences.
LEMMA FlattensExists ==
  ASSUME NEW S, NEW q \in Seq(Seq(S))
  PROVE  \E f \in [1 .. Len(q) -> Seq(S)] : Flattens(f, q)
  <1> DEFINE Step(f, i) == IF i = 1 THEN q[i] ELSE f[i - 1] \o q[i]
             Upto(n) == \E f \in [1 .. n -> Seq(S)] : \A i \in 1 .. n : f[i] = Step(f, i)
             T == {n \in Nat : n <= Len(q) => Upto(n)}
  <1>1. 0 \in T
    <2> DEFINE g == [i \in 1 .. 0 |-> << >>]
    <2>1. g \in [1 .. 0 -> Seq(S)] /\ \A i \in 1 .. 0 : g[i] = Step(g, i)
      OBVIOUS
    <2> HIDE DEF g, Step
    <2>2. Upto(0)
      BY <2>1
    <2> QED
      BY <2>2
  <1>2. ASSUME NEW n \in Nat, n \in T PROVE n + 1 \in T
    <2> HIDE DEF Upto
    <2> SUFFICES ASSUME n + 1 <= Len(q) PROVE Upto(n + 1)
      OBVIOUS
    <2> HIDE DEF Step
    <2>0. n <= Len(q)
      OBVIOUS
    <2>1. PICK g \in [1 .. n -> Seq(S)] : \A i \in 1 .. n : g[i] = Step(g, i)
      BY <1>2, <2>0 DEF Upto
    <2> DEFINE h == [i \in 1 .. n + 1 |-> IF i = n + 1 THEN Step(g, n + 1) ELSE g[i]]
    <2>2. q[n + 1] \in Seq(S)
      OBVIOUS
    <2>3. Step(g, n + 1) \in Seq(S)
      <3>1. CASE n + 1 = 1
        BY <2>2, <3>1 DEF Step
      <3>2. CASE n + 1 # 1
        <4>1. g[n] \in Seq(S)
          BY <3>2
        <4>2. g[n] \o q[n + 1] \in Seq(S)
          BY <2>2, <4>1
        <4> QED
          BY <3>2, <4>2 DEF Step
      <3> QED
        BY <3>1, <3>2
    <2>4. h \in [1 .. n + 1 -> Seq(S)]
      BY <2>3
    <2>5. \A i \in 1 .. n : h[i] = g[i]
      OBVIOUS
    <2>6. ASSUME NEW i \in 1 .. n + 1 PROVE Step(h, i) = Step(g, i)
      BY <2>5 DEF Step
    <2>7. \A i \in 1 .. n + 1 : h[i] = Step(g, i)
      BY <2>1
    <2>8. \A i \in 1 .. n + 1 : h[i] = Step(h, i)
      BY <2>6, <2>7
    <2> QED
      BY <2>4, <2>8 DEF Upto
  <1>3. Len(q) \in T
    <2> HIDE DEF T
    <2>1. Nat \subseteq T
      BY <1>1, <1>2, NatSetInduction
    <2> QED
      BY <2>1
  <1>4. PICK f \in [1 .. Len(q) -> Seq(S)] : \A i \in 1 .. Len(q) : f[i] = Step(f, i)
    BY <1>3
  <1> QED
    BY <1>4 DEF Flattens

\* The first n elements are the same.
Agree(q, r, n) == \A i \in 1 .. n : q[i] = r[i]

\* Two of them agree as far as the sequences do.
LEMMA FlattensAgree ==
  ASSUME NEW q, NEW r, NEW f, NEW g, Flattens(f, q), Flattens(g, r),
         NEW n \in Nat, Len(q) \in Nat, Len(r) \in Nat, n <= Len(q), n <= Len(r),
         Agree(q, r, n)
  PROVE  Agree(f, g, n)
  <1> DEFINE T == {k \in Nat : \A i \in 1 .. n : i <= k => f[i] = g[i]}
  <1>1. \A i \in 1 .. n : /\ f[i] = IF i = 1 THEN q[i] ELSE f[i - 1] \o q[i]
                          /\ g[i] = IF i = 1 THEN r[i] ELSE g[i - 1] \o r[i]
                          /\ q[i] = r[i]
    <2> SUFFICES ASSUME NEW i \in 1 .. n
                 PROVE  /\ f[i] = IF i = 1 THEN q[i] ELSE f[i - 1] \o q[i]
                        /\ g[i] = IF i = 1 THEN r[i] ELSE g[i - 1] \o r[i]
                        /\ q[i] = r[i]
      OBVIOUS
    <2>1. i \in 1 .. Len(q) /\ i \in 1 .. Len(r) /\ q[i] = r[i]
      BY DEF Agree
    <2> QED
      BY <2>1, FlattensAt
  <1>2. 0 \in T
    OBVIOUS
  <1>3. ASSUME NEW k \in Nat, k \in T PROVE k + 1 \in T
    <2> SUFFICES ASSUME NEW i \in 1 .. n, i <= k + 1 PROVE f[i] = g[i]
      OBVIOUS
    <2>1. CASE i <= k
      BY <1>3, <2>1
    <2>2. CASE i = 1
      BY <1>1, <2>2
    <2>3. CASE i # 1 /\ i = k + 1
      <3>1. i - 1 \in 1 .. n /\ i - 1 <= k
        BY <2>3
      <3>2. f[i - 1] = g[i - 1]
        BY <1>3, <3>1
      <3> QED
        BY <1>1, <2>3, <3>2
    <2> QED
      BY <2>1, <2>2, <2>3
  <1>4. n \in T
    <2> HIDE DEF T
    <2>1. Nat \subseteq T
      BY <1>2, <1>3, NatSetInduction
    <2> QED
      BY <2>1
  <1> QED
    BY <1>4 DEF Agree

\* FlattenSeq, as its recursion goes.
LEMMA FlattenFacts ==
  ASSUME NEW S
  PROVE  /\ \A q \in Seq(Seq(S)) : FlattenSeq(q) \in Seq(S)
         /\ FlattenSeq(<< >>) = << >>
         /\ \A q \in Seq(Seq(S)), x \in Seq(S) :
              FlattenSeq(Append(q, x)) = FlattenSeq(q) \o x
  <1>1. FlattenSeq(<< >>) = << >>
    BY DEF FlattenSeq
  <1>2. ASSUME NEW q \in Seq(Seq(S)), q # << >>
        PROVE  \E f \in [1 .. Len(q) -> Seq(S)] : Flattens(f, q) /\ FlattenSeq(q) = f[Len(q)]
    <2> DEFINE F == CHOOSE f : Flattens(f, q)
    <2>1. PICK g \in [1 .. Len(q) -> Seq(S)] : Flattens(g, q)
      BY FlattensExists
    <2>2. Flattens(F, q)
      <3>1. \E f : Flattens(f, q)
        BY <2>1
      <3> QED
        BY <3>1, Zenon
    <2>3. FlattenSeq(q) = F[Len(q)]
      BY <1>2, FlattenChoice
    <2> HIDE DEF F
    <2>4. \A i \in 1 .. Len(q) : F[i] = g[i]
      <3>1. Len(q) \in Nat /\ Len(q) <= Len(q) /\ Agree(q, q, Len(q))
        BY DEF Agree
      <3>2. Agree(F, g, Len(q))
        BY <2>1, <2>2, <3>1, FlattensAgree
      <3> QED
        BY <3>2 DEF Agree
    <2>5. Len(q) \in 1 .. Len(q)
      BY <1>2
    <2> QED
      BY <2>1, <2>3, <2>4, <2>5
  <1>3. ASSUME NEW q \in Seq(Seq(S)) PROVE FlattenSeq(q) \in Seq(S)
    <2>1. CASE q = << >>
      <3>1. << >> \in Seq(S)
        OBVIOUS
      <3> QED
        BY <1>1, <2>1, <3>1
    <2>2. CASE q # << >>
      <3>1. PICK f \in [1 .. Len(q) -> Seq(S)] : Flattens(f, q) /\ FlattenSeq(q) = f[Len(q)]
        BY <1>2, <2>2
      <3>2. Len(q) \in 1 .. Len(q)
        BY <2>2
      <3> QED
        BY <3>1, <3>2
    <2> QED
      BY <2>1, <2>2
  <1>4. ASSUME NEW q \in Seq(Seq(S)), NEW x \in Seq(S)
        PROVE  FlattenSeq(Append(q, x)) = FlattenSeq(q) \o x
    <2> DEFINE longer == Append(q, x)
    <2>1. /\ longer \in Seq(Seq(S)) /\ longer # << >> /\ Len(longer) = Len(q) + 1
          /\ \A i \in 1 .. Len(q) : longer[i] = q[i]
          /\ longer[Len(longer)] = x
          /\ Len(q) \in Nat /\ Len(longer) \in 1 .. Len(longer)
      <3>1. /\ longer \in Seq(Seq(S)) /\ Len(longer) = Len(q) + 1 /\ Len(q) \in Nat
            /\ \A i \in 1 .. Len(q) : longer[i] = q[i]
            /\ longer[Len(q) + 1] = x
        BY Appended
      <3> HIDE DEF longer
      <3>2. longer # << >> /\ Len(longer) \in 1 .. Len(longer) /\ longer[Len(longer)] = x
        BY <3>1
      <3> QED
        BY <3>1, <3>2
    <2> HIDE DEF longer
    <2>2. PICK g \in [1 .. Len(longer) -> Seq(S)] : Flattens(g, longer) /\ FlattenSeq(longer) = g[Len(longer)]
      BY <1>2, <2>1
    <2>3. g[Len(longer)] = IF Len(longer) = 1 THEN x ELSE g[Len(longer) - 1] \o x
      BY <2>1, <2>2, FlattensAt
    <2>4. CASE q = << >>
      <3>1. FlattenSeq(q) = << >>
        BY <1>1, <2>4
      <3>2. FlattenSeq(longer) = x
        BY <2>1, <2>2, <2>3, <2>4
      <3> QED
        BY <3>1, <3>2 DEF longer
    <2>5. CASE q # << >>
      <3>1. PICK f \in [1 .. Len(q) -> Seq(S)] : Flattens(f, q) /\ FlattenSeq(q) = f[Len(q)]
        BY <1>2, <2>5
      <3>2. Len(q) \in 1 .. Len(q)
        BY <2>5
      <3>3. g[Len(q)] = f[Len(q)]
        <4>1. /\ Len(q) \in Nat /\ Len(longer) \in Nat /\ Len(q) <= Len(longer) /\ Len(q) <= Len(q)
              /\ Agree(q, longer, Len(q))
          BY <2>1 DEF Agree
        <4>2. Agree(f, g, Len(q))
          BY <2>2, <3>1, <4>1, FlattensAgree
        <4> QED
          BY <3>2, <4>2 DEF Agree
      <3> QED
        <4>1. Len(longer) # 1 /\ Len(longer) - 1 = Len(q)
          BY <2>1, <3>2
        <4>2. g[Len(longer)] = f[Len(q)] \o x
          BY <2>3, <3>3, <4>1
        <4>3. FlattenSeq(longer) = FlattenSeq(q) \o x
          BY <2>2, <3>1, <4>2
        <4> QED
          BY <4>3 DEF longer
    <2> QED
      BY <2>4, <2>5
  <1> QED
    BY <1>1, <1>3, <1>4

-----------------------------------------------------------------------------
(* Parts of sequences, and functions applied to their elements.            *)

\* A part of a sequence.
LEMMA Cut ==
  ASSUME NEW S, NEW q \in Seq(S), NEW m \in Nat \ {0}, NEW n \in Nat, n <= Len(q)
  PROVE  /\ SubSeq(q, m, n) \in Seq(S)
         /\ m <= n + 1 => Len(SubSeq(q, m, n)) = n - m + 1
         /\ \A i \in 1 .. n - m + 1 : SubSeq(q, m, n)[i] = q[m + i - 1]
  BY SubSeqProperties

\* All but the last element, and the last.
LEMMA FrontLast ==
  ASSUME NEW S, NEW q \in Seq(S), q # << >>
  PROVE  /\ Front(q) \in Seq(S) /\ Len(Front(q)) = Len(q) - 1 /\ Len(q) \in Nat \ {0}
         /\ \A i \in 1 .. Len(q) - 1 : Front(q)[i] = q[i]
         /\ Last(q) = q[Len(q)] /\ Last(q) \in S
  <1>1. Len(q) \in Nat \ {0}
    OBVIOUS
  <1>2. Last(q) = q[Len(q)] /\ Last(q) \in S
    BY <1>1 DEF Last
  <1>3. /\ Front(q) \in Seq(S) /\ Len(Front(q)) = Len(q) - 1
        /\ \A i \in 1 .. Len(q) - 1 : Front(q)[i] = q[i]
    <2> DEFINE n == Len(q) - 1
    <2>1. 1 \in Nat \ {0} /\ n \in Nat /\ n <= Len(q) /\ 1 <= n + 1 /\ n - 1 + 1 = n
      BY <1>1
    <2> HIDE DEF n
    <2>2. /\ SubSeq(q, 1, n) \in Seq(S) /\ Len(SubSeq(q, 1, n)) = n - 1 + 1
          /\ \A i \in 1 .. n - 1 + 1 : SubSeq(q, 1, n)[i] = q[1 + i - 1]
      BY <2>1, Cut
    <2>3. \A i \in 1 .. n : SubSeq(q, 1, n)[i] = q[i]
      BY <2>1, <2>2
    <2> QED
      BY <2>1, <2>2, <2>3 DEF Front, n
  <1> QED
    BY <1>1, <1>2, <1>3

\* One item more.
LEMMA FirstItems ==
  ASSUME NEW S, NEW d \in Seq(S), NEW k \in 0 .. Len(d) - 1
  PROVE  /\ SubSeq(d, 1, k) \in Seq(S) /\ d[k + 1] \in S
         /\ SubSeq(d, 1, k + 1) = Append(SubSeq(d, 1, k), d[k + 1])
  <1>1. k \in Nat /\ k + 1 \in Nat /\ k + 1 <= Len(d) /\ k <= Len(d) /\ Len(d) \in Nat
    OBVIOUS
  <1>2. /\ SubSeq(d, 1, k) \in Seq(S) /\ Len(SubSeq(d, 1, k)) = k
        /\ \A i \in 1 .. k : SubSeq(d, 1, k)[i] = d[i]
    <2>1. /\ SubSeq(d, 1, k) \in Seq(S) /\ (1 <= k + 1 => Len(SubSeq(d, 1, k)) = k - 1 + 1)
          /\ \A i \in 1 .. k - 1 + 1 : SubSeq(d, 1, k)[i] = d[1 + i - 1]
      BY <1>1, Cut
    <2> QED
      BY <1>1, <2>1
  <1>3. /\ SubSeq(d, 1, k + 1) \in Seq(S) /\ Len(SubSeq(d, 1, k + 1)) = k + 1
        /\ \A i \in 1 .. k + 1 : SubSeq(d, 1, k + 1)[i] = d[i]
    <2>1. /\ SubSeq(d, 1, k + 1) \in Seq(S)
          /\ (1 <= (k + 1) + 1 => Len(SubSeq(d, 1, k + 1)) = (k + 1) - 1 + 1)
          /\ \A i \in 1 .. (k + 1) - 1 + 1 : SubSeq(d, 1, k + 1)[i] = d[1 + i - 1]
      BY <1>1, Cut
    <2> QED
      BY <1>1, <2>1
  <1>4. d[k + 1] \in S
    BY <1>1
  <1> DEFINE p == SubSeq(d, 1, k)
             q == SubSeq(d, 1, k + 1)
             r == Append(p, d[k + 1])
  <1>5. r \in Seq(S) /\ Len(r) = k + 1 /\ (\A i \in 1 .. k : r[i] = d[i]) /\ r[k + 1] = d[k + 1]
    BY <1>2, <1>4, Appended
  <1> HIDE DEF p, q, r
  <1>6. q = r
    <2>1. q \in Seq(S) /\ Len(q) = k + 1 /\ \A i \in 1 .. k + 1 : q[i] = d[i]
      BY <1>3 DEF q
    <2>2. \A i \in 1 .. k + 1 : q[i] = r[i]
      BY <1>1, <1>5, <2>1
    <2> QED
      BY <1>1, <1>5, <2>1, <2>2, SeqEqual
  <1> QED
    BY <1>2, <1>4, <1>6 DEF p, q, r

\* A prefix, element by element.
LEMMA PrefixElements ==
  ASSUME NEW S, NEW p \in Seq(S), NEW q \in Seq(S)
  PROVE  IsPrefix(p, q) <=> Len(p) <= Len(q) /\ \A i \in 1 .. Len(p) : p[i] = q[i]
  <1>1. Len(p) \in Nat /\ Len(q) \in Nat
    OBVIOUS
  <1>2. SubSeq(p, 1, Len(p)) = p
    OBVIOUS
  <1>3. CASE Len(p) <= Len(q)
    <2> DEFINE r == SubSeq(q, 1, Len(p))
    <2>1. r \in Seq(S) /\ Len(r) = Len(p) /\ \A i \in 1 .. Len(p) : r[i] = q[i]
      BY <1>1, <1>3
    <2> HIDE DEF r
    <2>2. (\A i \in 1 .. Len(p) : p[i] = r[i]) => p = r
      BY <2>1, SeqEqual
    <2> QED
      BY <1>2, <1>3, <2>1, <2>2 DEF IsPrefix, r
  <1>4. CASE ~(Len(p) <= Len(q))
    BY <1>4 DEF IsPrefix
  <1> QED
    BY <1>3, <1>4

\* All but the element appended.
LEMMA FrontAppend ==
  ASSUME NEW S, NEW q \in Seq(S), NEW x \in S
  PROVE  Front(Append(q, x)) = q
  <1> DEFINE r == Append(q, x)
  <1>1. /\ r \in Seq(S) /\ Len(r) = Len(q) + 1 /\ Len(q) \in Nat
        /\ \A i \in 1 .. Len(q) : r[i] = q[i]
    BY Appended
  <1> HIDE DEF r
  <1>2. r # << >>
    BY <1>1
  <1>3. Front(r) \in Seq(S) /\ Len(Front(r)) = Len(r) - 1 /\ \A i \in 1 .. Len(r) - 1 : Front(r)[i] = r[i]
    BY <1>1, <1>2, FrontLast
  <1>4. Len(r) - 1 = Len(q)
    BY <1>1
  <1>5. Front(r) = q
    BY <1>1, <1>3, <1>4, SeqEqual
  <1> QED
    BY <1>5 DEF r

\* g applied to every element.
Mapped(g, q) == [i \in 1 .. Len(q) |-> g[q[i]]]

\* The values of g are in T.
MapsInto(g, S, T) == \A e \in S : g[e] \in T

\* Its type.
LEMMA MappedType ==
  ASSUME NEW S, NEW T, NEW g, MapsInto(g, S, T), NEW q \in Seq(S)
  PROVE  Mapped(g, q) \in Seq(T) /\ Len(Mapped(g, q)) = Len(q)
  <1>1. \A i \in 1 .. Len(q) : g[q[i]] \in T
    BY DEF MapsInto
  <1>2. Len(q) \in Nat
    OBVIOUS
  <1> QED
    BY <1>1, <1>2 DEF Mapped

\* Its recursion.
LEMMA MappedAppended ==
  ASSUME NEW S, NEW g, NEW q \in Seq(S), NEW x \in S
  PROVE  Mapped(g, Append(q, x)) = Append(Mapped(g, q), g[x])
  <1> DEFINE T == {g[e] : e \in S}
             longer == Append(q, x)
  <1>0. MapsInto(g, S, T) /\ g[x] \in T
    BY DEF MapsInto
  <1> HIDE DEF T
  <1>1. /\ longer \in Seq(S) /\ Len(longer) = Len(q) + 1 /\ Len(q) \in Nat
        /\ \A i \in 1 .. Len(q) : longer[i] = q[i]
        /\ longer[Len(q) + 1] = x
    BY Appended
  <1> HIDE DEF longer
  <1>2. /\ Mapped(g, longer) \in Seq(T) /\ Len(Mapped(g, longer)) = Len(q) + 1
        /\ Mapped(g, q) \in Seq(T) /\ Len(Mapped(g, q)) = Len(q)
    BY <1>0, <1>1, MappedType
  <1>3. /\ Append(Mapped(g, q), g[x]) \in Seq(T)
        /\ Len(Append(Mapped(g, q), g[x])) = Len(q) + 1
        /\ \A i \in 1 .. Len(q) : Append(Mapped(g, q), g[x])[i] = Mapped(g, q)[i]
        /\ Append(Mapped(g, q), g[x])[Len(q) + 1] = g[x]
    BY <1>0, <1>2, Appended
  <1>4. ASSUME NEW i \in 1 .. Len(q) + 1
        PROVE  Mapped(g, longer)[i] = Append(Mapped(g, q), g[x])[i]
    <2>1. Mapped(g, longer)[i] = g[longer[i]]
      BY <1>1 DEF Mapped
    <2>2. CASE i \in 1 .. Len(q)
      <3>1. Mapped(g, q)[i] = g[q[i]]
        BY <2>2 DEF Mapped
      <3> QED
        BY <1>1, <1>3, <2>1, <2>2, <3>1
    <2>3. CASE i = Len(q) + 1
      BY <1>1, <1>3, <2>1, <2>3
    <2>4. i \in 1 .. Len(q) \/ i = Len(q) + 1
      BY <1>1
    <2> QED
      BY <2>2, <2>3, <2>4
  <1>5. Mapped(g, longer) = Append(Mapped(g, q), g[x])
    BY <1>2, <1>3, <1>4, SeqEqual
  <1> QED
    BY <1>5 DEF longer

\* g applied to every element, and its values one after the other.
FlatMapped(g, q) == FlattenSeq(Mapped(g, q))

\* Its recursion.
LEMMA FlatMappedFacts ==
  ASSUME NEW S, NEW T, NEW g, MapsInto(g, S, Seq(T)), NEW q \in Seq(S)
  PROVE  /\ FlatMapped(g, << >>) = << >>
         /\ FlatMapped(g, q) \in Seq(T)
         /\ \A x \in S : FlatMapped(g, Append(q, x)) = FlatMapped(g, q) \o g[x]
  <1>1. FlatMapped(g, << >>) = << >>
    <2>1. Mapped(g, << >>) = << >>
      BY DEF Mapped
    <2> QED
      BY <2>1, FlattenFacts DEF FlatMapped
  <1>2. Mapped(g, q) \in Seq(Seq(T))
    <2> DEFINE U == Seq(T)
    <2>1. MapsInto(g, S, U)
      OBVIOUS
    <2> HIDE DEF U
    <2>2. Mapped(g, q) \in Seq(U)
      BY <2>1, MappedType
    <2> QED
      BY <2>2 DEF U
  <1>3. FlatMapped(g, q) \in Seq(T)
    BY <1>2, FlattenFacts DEF FlatMapped
  <1>4. ASSUME NEW x \in S
        PROVE  FlatMapped(g, Append(q, x)) = FlatMapped(g, q) \o g[x]
    <2>0. g[x] \in Seq(T)
      BY DEF MapsInto
    <2>1. Mapped(g, Append(q, x)) = Append(Mapped(g, q), g[x])
      BY MappedAppended
    <2>2. FlattenSeq(Append(Mapped(g, q), g[x])) = FlattenSeq(Mapped(g, q)) \o g[x]
      BY <1>2, <2>0, FlattenFacts
    <2> QED
      BY <2>1, <2>2 DEF FlatMapped
  <1> QED
    BY <1>1, <1>3, <1>4

-----------------------------------------------------------------------------
(* Functions that recur further on: a value at i is i itself, or the value *)
(* at some later place that is not past n.                                 *)

\* From a place that is not in S, after[i] is further on and not past n.
Forward(after, S, n) ==
  \A i \in Nat \ S : i < n /\ after[i] \in Nat /\ i < after[i] /\ after[i] <= n

\* f goes on until it is in S.
Jumps(f, after, S) == f = [i \in Nat |-> IF i \in S THEN i ELSE f[after[i]]]

\* There is such a function.
LEMMA JumpsExists ==
  ASSUME NEW n \in Nat, NEW S, NEW after, Forward(after, S, n)
  PROVE  \E f : Jumps(f, after, S)
  <1> DEFINE Step(f, i) == IF i \in S THEN i ELSE f[after[i]]
             From(k) == {i \in Nat : n <= i + k}
             Defined(k) == \E f \in [From(k) -> Nat] : \A i \in From(k) : f[i] = Step(f, i)
             T == {k \in Nat : Defined(k)}
  <1>1. 0 \in T
    <2> DEFINE f == [i \in From(0) |-> i]
    <2>1. f \in [From(0) -> Nat] /\ \A i \in From(0) : f[i] = i
      OBVIOUS
    <2>2. \A i \in From(0) : i \in S
      BY DEF Forward
    <2> HIDE DEF f, From
    <2>3. Defined(0)
      BY <2>1, <2>2
    <2> QED
      BY <2>3
  <1>2. ASSUME NEW k \in Nat, k \in T PROVE k + 1 \in T
    <2>1. PICK g \in [From(k) -> Nat] : \A i \in From(k) : g[i] = Step(g, i)
      BY <1>2
    <2> DEFINE f == [i \in From(k + 1) |-> IF i \in From(k) THEN g[i] ELSE Step(g, i)]
    <2>2. ASSUME NEW i \in From(k + 1), i \notin S
          PROVE  after[i] \in From(k) /\ after[i] \in From(k + 1)
      BY <2>2 DEF Forward
    <2>3. From(k) \subseteq From(k + 1) /\ From(k + 1) \subseteq Nat
      OBVIOUS
    <2> HIDE DEF From
    <2>4. f \in [From(k + 1) -> Nat]
      BY <2>2, <2>3
    <2>5. ASSUME NEW i \in From(k + 1) PROVE f[i] = Step(f, i)
      <3>1. f[i] = Step(g, i)
        BY <2>1
      <3>2. i \notin S => f[after[i]] = g[after[i]]
        BY <2>2
      <3> QED
        BY <3>1, <3>2
    <2> HIDE DEF f
    <2>6. Defined(k + 1)
      BY <2>4, <2>5
    <2> QED
      BY <2>6
  <1>3. n \in T
    <2> HIDE DEF T
    <2>1. Nat \subseteq T
      BY <1>1, <1>2, NatSetInduction
    <2> QED
      BY <2>1
  <1>4. PICK f \in [From(n) -> Nat] : \A i \in From(n) : f[i] = Step(f, i)
    BY <1>3
  <1>5. From(n) = Nat
    OBVIOUS
  <1> HIDE DEF From
  <1>6. f = [i \in Nat |-> Step(f, i)]
    BY <1>4, <1>5
  <1> QED
    BY <1>6 DEF Jumps

\* Where such a function goes.
LEMMA JumpsTo ==
  ASSUME NEW n \in Nat, NEW S, NEW after, Forward(after, S, n),
         NEW f, Jumps(f, after, S), NEW p \in Nat
  PROVE  f[p] \in Nat /\ f[p] \in S /\ p <= f[p] /\ (f[p] <= n \/ f[p] = p)
  <1> DEFINE Good(i) == f[i] \in Nat /\ f[i] \in S /\ i <= f[i] /\ (f[i] <= n \/ f[i] = i)
             T == {k \in Nat : \A i \in Nat : n <= i + k => Good(i)}
  <1>0. \A i \in Nat : f[i] = IF i \in S THEN i ELSE f[after[i]]
    BY DEF Jumps
  <1>1. 0 \in T
    <2> SUFFICES ASSUME NEW i \in Nat, n <= i PROVE Good(i)
      OBVIOUS
    <2>1. i \in S
      BY DEF Forward
    <2> QED
      BY <1>0, <2>1
  <1>2. ASSUME NEW k \in Nat, k \in T PROVE k + 1 \in T
    <2> SUFFICES ASSUME NEW i \in Nat, n <= i + (k + 1) PROVE Good(i)
      OBVIOUS
    <2>1. CASE i \in S
      BY <1>0, <2>1
    <2>2. CASE i \notin S
      <3>1. i < n /\ after[i] \in Nat /\ i < after[i] /\ after[i] <= n
        BY <2>2 DEF Forward
      <3>2. n <= after[i] + k
        BY <3>1
      <3>3. Good(after[i])
        BY <1>2, <3>1, <3>2
      <3>4. f[i] = f[after[i]]
        BY <1>0, <2>2
      <3> QED
        BY <3>1, <3>3, <3>4
    <2> QED
      BY <2>1, <2>2
  <1>3. n \in T
    <2> HIDE DEF T
    <2>1. Nat \subseteq T
      BY <1>1, <1>2, NatSetInduction
    <2> QED
      BY <2>1
  <1>4. n <= p + n
    OBVIOUS
  <1>5. Good(p)
    <2> HIDE DEF Good
    <2> QED
      BY <1>3, <1>4
  <1> QED
    BY <1>5

\* A sequence from its front and its last element.
LEMMA FrontAndLast ==
  ASSUME NEW S, NEW q \in Seq(S), q # << >>
  PROVE  Front(q) \in Seq(S) /\ Last(q) \in S /\ q = Append(Front(q), Last(q))
  <1> DEFINE r == Append(Front(q), Last(q))
  <1>1. /\ Front(q) \in Seq(S) /\ Len(Front(q)) = Len(q) - 1 /\ Len(q) \in Nat \ {0}
        /\ \A i \in 1 .. Len(q) - 1 : Front(q)[i] = q[i]
        /\ Last(q) = q[Len(q)] /\ Last(q) \in S
    BY FrontLast
  <1>2. /\ r \in Seq(S) /\ Len(r) = Len(Front(q)) + 1
        /\ \A i \in 1 .. Len(Front(q)) : r[i] = Front(q)[i]
        /\ r[Len(Front(q)) + 1] = Last(q)
    BY <1>1, Appended
  <1> HIDE DEF r
  <1>3. Len(r) = Len(q) /\ \A i \in 1 .. Len(q) : r[i] = q[i]
    BY <1>1, <1>2
  <1>4. r = q
    BY <1>2, <1>3, SeqEqual
  <1> QED
    BY <1>1, <1>4 DEF r

\* FlattenSeq of a concatenation.
LEMMA FlattenConcat ==
  ASSUME NEW S, NEW p \in Seq(Seq(S)), NEW r \in Seq(Seq(S))
  PROVE  FlattenSeq(p \o r) = FlattenSeq(p) \o FlattenSeq(r)
  <1>s. \A a, b, c \in Seq(S) : (a \o b) \o c = a \o (b \o c)
    OBVIOUS
  <1> DEFINE U == Seq(S)
             T == {q \in Seq(U) : FlattenSeq(p \o q) = FlattenSeq(p) \o FlattenSeq(q)}
  <1> HIDE DEF U
  <1>0. p \in Seq(U) /\ r \in Seq(U)
    BY DEF U
  <1>f. /\ \A q \in Seq(U) : FlattenSeq(q) \in U
        /\ FlattenSeq(<< >>) = << >>
        /\ \A q \in Seq(U), x \in U : FlattenSeq(Append(q, x)) = FlattenSeq(q) \o x
    BY FlattenFacts DEF U
  <1>a. \A a, b, c \in U : (a \o b) \o c = a \o (b \o c)
    BY ONLY <1>s DEF U
  <1>1. << >> \in T
    <2>1. p \o << >> = p /\ << >> \in Seq(U)
      BY <1>0
    <2>2. FlattenSeq(p) \o << >> = FlattenSeq(p)
      BY <1>0, <1>f DEF U
    <2> QED
      BY <1>f, <2>1, <2>2
  <1>2. ASSUME NEW q \in Seq(U), NEW x \in U, q \in T PROVE Append(q, x) \in T
    <2>1. p \o Append(q, x) = Append(p \o q, x) /\ p \o q \in Seq(U) /\ Append(q, x) \in Seq(U)
      BY <1>0
    <2>2. FlattenSeq(p \o Append(q, x)) = (FlattenSeq(p) \o FlattenSeq(q)) \o x
      BY <1>2, <1>f, <2>1
    <2>3. (FlattenSeq(p) \o FlattenSeq(q)) \o x = FlattenSeq(p) \o (FlattenSeq(q) \o x)
      BY <1>0, <1>f, <1>a, Zenon
    <2>4. FlattenSeq(Append(q, x)) = FlattenSeq(q) \o x
      BY <1>f
    <2> QED
      BY <2>1, <2>2, <2>3, <2>4
  <1>3. Seq(U) \subseteq T
    <2> HIDE DEF T
    <2> QED
      BY <1>1, <1>2, SeqSetInduction
  <1> QED
    BY <1>0, <1>3

\* FlattenSeq, from the front.
LEMMA FlattenFirst ==
  ASSUME NEW S, NEW x \in Seq(S), NEW q \in Seq(Seq(S))
  PROVE  /\ FlattenSeq(<<x>>) = x
         /\ FlattenSeq(<<x>> \o q) = x \o FlattenSeq(q)
  <1> DEFINE U == Seq(S)
  <1> HIDE DEF U
  <1>0. x \in U /\ q \in Seq(U)
    BY DEF U
  <1>1. << >> \in Seq(U) /\ <<x>> = Append(<< >>, x) /\ <<x>> \in Seq(U)
    BY <1>0
  <1>2. FlattenSeq(<<x>>) = << >> \o x
    BY <1>0, <1>1, FlattenFacts DEF U
  <1>3. << >> \o x = x
    OBVIOUS
  <1>4. FlattenSeq(<<x>> \o q) = FlattenSeq(<<x>>) \o FlattenSeq(q)
    BY <1>0, <1>1, FlattenConcat DEF U
  <1> QED
    BY <1>2, <1>3, <1>4

\* f is the function on the naturals of which each value is a step from the last.
Iterates(f, base, step) == f = [n \in Nat |-> IF n = 0 THEN base ELSE step[f[n - 1]]]

\* There is such a function.
LEMMA IteratesExists ==
  ASSUME NEW V, NEW base \in V, NEW step \in [V -> V]
  PROVE  \E f \in [Nat -> V] : Iterates(f, base, step)
  <1> DEFINE Value(f, i) == IF i = 0 THEN base ELSE step[f[i - 1]]
             Upto(n) == \E f \in [0 .. n -> V] : \A i \in 0 .. n : f[i] = Value(f, i)
             T == {n \in Nat : Upto(n)}
  <1>1. 0 \in T
    <2> DEFINE g == [i \in 0 .. 0 |-> base]
    <2>1. g \in [0 .. 0 -> V] /\ \A i \in 0 .. 0 : g[i] = Value(g, i)
      OBVIOUS
    <2> HIDE DEF g, Value
    <2> QED
      BY <2>1
  <1>2. ASSUME NEW n \in Nat, n \in T PROVE n + 1 \in T
    <2>1. PICK g \in [0 .. n -> V] : \A i \in 0 .. n : g[i] = Value(g, i)
      BY <1>2
    <2> DEFINE h == [i \in 0 .. n + 1 |-> IF i = n + 1 THEN Value(g, n + 1) ELSE g[i]]
    <2>2. Value(g, n + 1) \in V
      OBVIOUS
    <2>3. h \in [0 .. n + 1 -> V] /\ \A i \in 0 .. n : h[i] = g[i]
      <3> HIDE DEF Value
      <3> QED
        BY <2>2
    <2>4. \A i \in 0 .. n + 1 : h[i] = Value(g, i)
      <3> HIDE DEF Value
      <3> QED
        BY <2>1
    <2>5. ASSUME NEW i \in 0 .. n + 1 PROVE Value(h, i) = Value(g, i)
      BY <2>3
    <2>6. \A i \in 0 .. n + 1 : h[i] = Value(h, i)
      BY <2>4, <2>5
    <2> HIDE DEF h, Value
    <2> QED
      BY <2>3, <2>6
  <1>3. Nat \subseteq T
    <2> HIDE DEF T
    <2> QED
      BY <1>1, <1>2, NatSetInduction
  <1> DEFINE Good(n, f) == f \in [0 .. n -> V] /\ \A i \in 0 .. n : f[i] = Value(f, i)
             at == [n \in Nat |-> CHOOSE f : Good(n, f)]
             result == [n \in Nat |-> at[n][n]]
  <1>4. ASSUME NEW n \in Nat PROVE Good(n, at[n])
    <2>1. \E f : Good(n, f)
      BY <1>3
    <2> HIDE DEF Good
    <2> QED
      BY <2>1
  <1>5. ASSUME NEW n \in Nat PROVE at[n + 1][n] = at[n][n]
    <2> DEFINE f == at[n]
               g == at[n + 1]
               E == {i \in Nat : i <= n => f[i] = g[i]}
    <2>1. Good(n, f) /\ Good(n + 1, g)
      <3> HIDE DEF at, Good
      <3>1. n + 1 \in Nat
        OBVIOUS
      <3> QED
        BY <1>4, <3>1
    <2> HIDE DEF f, g
    <2>2. 0 \in E
      BY <2>1
    <2>3. ASSUME NEW i \in Nat, i \in E PROVE i + 1 \in E
      <3> SUFFICES ASSUME i + 1 <= n PROVE f[i + 1] = g[i + 1]
        OBVIOUS
      <3>1. f[i] = g[i] /\ i + 1 \in 0 .. n /\ i + 1 \in 0 .. n + 1 /\ (i + 1) - 1 = i /\ i + 1 # 0
        BY <2>3
      <3>2. f[i + 1] = Value(f, i + 1) /\ g[i + 1] = Value(g, i + 1)
        BY <2>1, <3>1
      <3> QED
        BY <3>1, <3>2
    <2>4. Nat \subseteq E
      <3> HIDE DEF E
      <3> QED
        BY <2>2, <2>3, NatSetInduction
    <2>5. f[n] = g[n]
      BY <2>4
    <2> QED
      BY <2>5 DEF f, g
  <1>6. ASSUME NEW n \in Nat PROVE result[n] \in V /\ result[n] = Value(result, n)
    <2>1. Good(n, at[n])
      BY <1>4
    <2>2. result[n] = at[n][n] /\ at[n][n] \in V /\ at[n][n] = Value(at[n], n)
      <3> HIDE DEF at, Value
      <3>1. n \in 0 .. n
        OBVIOUS
      <3> QED
        BY <2>1, <3>1
    <2>3. CASE n = 0
      BY <2>2, <2>3
    <2>4. CASE n # 0
      <3>1. n - 1 \in Nat /\ (n - 1) + 1 = n
        BY <2>4
      <3>2. at[n][n - 1] = at[n - 1][n - 1]
        BY <1>5, <3>1
      <3>3. result[n - 1] = at[n - 1][n - 1]
        BY <3>1
      <3> HIDE DEF result, at
      <3> QED
        BY <2>2, <2>4, <3>2, <3>3
    <2> QED
      BY <2>2, <2>3, <2>4
  <1>7. DOMAIN result = Nat /\ result = [n \in Nat |-> result[n]]
    OBVIOUS
  <1> HIDE DEF result
  <1>8. result \in [Nat -> V]
    BY <1>6, <1>7
  <1>9. result = [n \in Nat |-> Value(result, n)]
    <2> HIDE DEF Value
    <2> QED
      BY <1>6, <1>7
  <1> QED
    BY <1>8, <1>9 DEF Iterates
=============================================================================
