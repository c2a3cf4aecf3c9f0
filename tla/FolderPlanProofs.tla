--------------------------- MODULE FolderPlanProofs ---------------------------
(***************************************************************************)
(* Proofs about FolderPlan.  The first part is about the rules by          *)
(* themselves (FileNames): what they suggest for a name, they suggest      *)
(* again, and a name they suggest without a review says all the old one    *)
(* said.  The second is about the folder: what may be carried into         *)
(* quarantine, whatever changes between the analysis and the run; which    *)
(* names files come to have; and that a run leaves nothing for the next    *)
(* analysis to select.                                                     *)
(***************************************************************************)
EXTENDS FolderPlan, TLAPS, FiniteSetTheorems, FunctionTheorems, WellFoundedInduction,
        SequenceTheorems

-----------------------------------------------------------------------------
(* Sequences of words.                                                     *)

LEMMA Least ==
  ASSUME NEW T, T \subseteq Nat, T # {}
  PROVE  \E x \in T : \A y \in T : x <= y
<1>1. \E x \in T : \A y \in T : <<y, x>> \notin OpToRel(<, Nat)
  BY NatLessThanWellFounded, WFMin, Zenon
<1>2. \A x, y \in Nat : y < x => <<y, x>> \in OpToRel(<, Nat)
  BY Zenon DEF OpToRel
<1>3. PICK x \in T : \A y \in T : <<y, x>> \notin OpToRel(<, Nat)
  BY <1>1
<1>4. \A y \in T : ~(y < x)
  BY <1>2, <1>3, Zenon
<1> QED
  BY <1>4

LEMMA Concat ==
  ASSUME NEW S, NEW a \in Seq(S), NEW b \in Seq(S)
  PROVE  /\ a \o b \in Seq(S) /\ Len(a \o b) = Len(a) + Len(b)
         /\ Len(a) \in Nat /\ Len(b) \in Nat
         /\ \A k \in 1..Len(a) : k \in 1..Len(a \o b) /\ (a \o b)[k] = a[k]
         /\ \A k \in 1..Len(b) : Len(a) + k \in 1..Len(a \o b) /\ (a \o b)[Len(a) + k] = b[k]
OBVIOUS

\* The partial results of FlattenSeq, and where their words come from: h[i]
\* is where the first word of the i-th sequence is.
IsFlattened(g, s, k, S) ==
  /\ g \in [1..k -> Seq(S)]
  /\ \A i \in 1..k : g[i] = IF i = 1 THEN s[i] ELSE g[i - 1] \o s[i]

IsLocated(h, text, s, k) ==
  /\ \A i \in 1..k : s[i] # <<>> => h[i] \in 1..Len(text) /\ text[h[i]] = s[i][1]
  /\ \A i, j \in 1..k : s[i] # <<>> /\ s[j] # <<>> /\ i # j => h[i] # h[j]

LEMMA FlattenOne ==
  ASSUME NEW S, NEW s \in Seq(Seq(S)), Len(s) # 0
  PROVE  \E g, h : IsFlattened(g, s, 1, S) /\ IsLocated(h, g[1], s, 1)
<1> DEFINE g == [i \in 1..1 |-> s[1]]
           h == [i \in 1..1 |-> 1]
<1>1. s[1] \in Seq(S)
  OBVIOUS
<1>2. IsFlattened(g, s, 1, S)
  BY <1>1 DEF IsFlattened
<1>3. IsLocated(h, g[1], s, 1)
  BY <1>1 DEF IsLocated
<1> QED
  BY <1>2, <1>3

LEMMA FlattenMore ==
  ASSUME NEW S, NEW s \in Seq(Seq(S)), NEW m \in 1..Len(s), m # 1,
         NEW g, NEW h, IsFlattened(g, s, m - 1, S), IsLocated(h, g[m - 1], s, m - 1)
  PROVE  \E g2, h2 : IsFlattened(g2, s, m, S) /\ IsLocated(h2, g2[m], s, m)
<1> DEFINE before == g[m - 1]
           text == before \o s[m]
           g2 == [i \in 1..m |-> IF i < m THEN g[i] ELSE text]
           h2 == [i \in 1..m |-> IF i < m THEN h[i] ELSE Len(before) + 1]
<1>1. m \in Nat /\ m >= 2 /\ m - 1 \in 1..(m - 1) /\ Len(s) \in Nat
  OBVIOUS
<1>2. before \in Seq(S) /\ s[m] \in Seq(S) /\ text \in Seq(S)
  BY <1>1 DEF IsFlattened
<1>3. \A i \in 1..(m - 1) : g[i] \in Seq(S)
  BY <1>1 DEF IsFlattened
<1>4. \A i \in 1..m : i < m => i \in 1..(m - 1) /\ g2[i] = g[i] /\ h2[i] = h[i]
  BY <1>1
<1>5. g2[m] = text /\ h2[m] = Len(before) + 1 /\ \A i \in 1..m : i < m \/ i = m
  <2>1. m \in 1..m /\ ~(m < m) /\ \A i \in 1..m : i < m \/ i = m
    BY <1>1
  <2> HIDE DEF text
  <2> QED
    BY <2>1, Zenon
<1>6. g2 \in [1..m -> Seq(S)]
  BY <1>1, <1>2, <1>3
<1>7. ASSUME NEW i \in 1..m PROVE g2[i] = IF i = 1 THEN s[i] ELSE g2[i - 1] \o s[i]
  <2>1. CASE i < m
    <3>1. g[i] = IF i = 1 THEN s[i] ELSE g[i - 1] \o s[i]
      BY <1>4, <2>1 DEF IsFlattened
    <3>2. CASE i = 1
      BY <1>4, <2>1, <3>1, <3>2
    <3>3. CASE i # 1
      <4>1. i - 1 \in 1..m /\ i - 1 < m
        BY <1>1, <3>3
      <4>2. g2[i - 1] = g[i - 1]
        BY <1>4, <4>1
      <4> QED
        BY <1>4, <2>1, <3>1, <3>3, <4>2
    <3> QED
      BY <3>2, <3>3
  <2>2. CASE i = m
    <3>1. m - 1 \in 1..m /\ m - 1 < m
      BY <1>1
    <3>2. g2[m - 1] = before
      BY <1>4, <3>1
    <3> QED
      BY <1>1, <1>5, <2>2, <3>2
  <2> QED
    BY <1>5, <2>1, <2>2
<1>8. IsFlattened(g2, s, m, S)
  <2> HIDE DEF g2
  <2> QED
    BY <1>6, <1>7 DEF IsFlattened
<1>9. \A k \in 1..Len(before) : k \in 1..Len(text) /\ text[k] = before[k]
  <2> HIDE DEF before
  <2> QED
    BY <1>2, Concat
<1>10. s[m] # <<>> => Len(before) + 1 \in 1..Len(text) /\ text[Len(before) + 1] = s[m][1]
  <2>1. s[m] # <<>> => 1 \in 1..Len(s[m])
    BY <1>2
  <2>2. \A k \in 1..Len(s[m]) :
          Len(before) + k \in 1..Len(text) /\ text[Len(before) + k] = s[m][k]
    <3> DEFINE more == s[m]
    <3>1. more \in Seq(S) /\ text = before \o more
      BY <1>2
    <3> HIDE DEF before, more
    <3>2. \A k \in 1..Len(more) :
            Len(before) + k \in 1..Len(text) /\ text[Len(before) + k] = more[k]
      BY <1>2, <3>1, Concat
    <3> QED
      BY <3>2 DEF more
  <2> HIDE DEF text
  <2> QED
    BY <2>1, <2>2
<1>11. IsLocated(h2, text, s, m)
  <2>1. ASSUME NEW i \in 1..m, s[i] # <<>>
        PROVE  h2[i] \in 1..Len(text) /\ text[h2[i]] = s[i][1]
    <3>1. CASE i < m
      <4>1. h[i] \in 1..Len(before) /\ before[h[i]] = s[i][1]
        BY <1>4, <2>1, <3>1 DEF IsLocated
      <4> QED
        BY <1>4, <1>9, <3>1, <4>1
    <3>2. CASE i = m
      BY <1>5, <1>10, <2>1, <3>2
    <3> QED
      BY <1>5, <3>1, <3>2
  <2>2. ASSUME NEW i \in 1..m, NEW j \in 1..m, s[i] # <<>>, s[j] # <<>>, i < j
        PROVE  h2[i] # h2[j]
    <3>1. h[i] \in 1..Len(before) /\ h2[i] = h[i]
      BY <1>1, <1>4, <2>2 DEF IsLocated
    <3>2. CASE j < m
      BY <1>4, <2>2, <3>1, <3>2 DEF IsLocated
    <3>3. CASE j = m
      BY <1>2, <1>5, <3>1, <3>3
    <3> QED
      BY <1>5, <3>2, <3>3
  <2>3. \A i, j \in 1..m : i # j => i < j \/ j < i
    BY <1>1
  <2> HIDE DEF h2, text
  <2> QED
    BY <2>1, <2>2, <2>3 DEF IsLocated
<1> HIDE DEF g2, h2
<1> QED
  BY <1>5, <1>8, <1>11

LEMMA FlattenExists ==
  ASSUME NEW S, NEW s \in Seq(Seq(S)), NEW n \in 1..Len(s)
  PROVE  \E g, h : IsFlattened(g, s, n, S) /\ IsLocated(h, g[n], s, n)
<1> DEFINE P(k) == \E g, h : IsFlattened(g, s, k, S) /\ IsLocated(h, g[k], s, k)
           T == {k \in 1..Len(s) : ~P(k)}
<1>1. Len(s) \in Nat /\ Len(s) # 0 /\ T \subseteq Nat
  OBVIOUS
<1>2. P(1)
  BY <1>1, FlattenOne
<1>3. ASSUME NEW m \in 1..Len(s), m # 1, P(m - 1) PROVE P(m)
  <2>1. PICK g, h : IsFlattened(g, s, m - 1, S) /\ IsLocated(h, g[m - 1], s, m - 1)
    BY <1>3
  <2> QED
    BY <1>3, <2>1, FlattenMore
<1> SUFFICES ASSUME T # {} PROVE FALSE
  OBVIOUS
<1>4. PICK m \in T : \A k \in T : m <= k
  <2> HIDE DEF T
  <2> QED
    BY <1>1, Least
<1> HIDE DEF P
<1>5. m \in 1..Len(s) /\ ~P(m) /\ m # 1
  BY <1>2, <1>4
<1>6. m - 1 \in 1..Len(s) /\ m - 1 \notin T
  BY <1>1, <1>4, <1>5
<1> QED
  BY <1>3, <1>5, <1>6

\* FlattenSeq puts sequences behind one another.
LEMMA FlattenFacts ==
  ASSUME NEW S, NEW s \in Seq(Seq(S)), Len(s) # 0
  PROVE  /\ FlattenSeq(s) \in Seq(S)
         /\ \E h : IsLocated(h, FlattenSeq(s), s, Len(s))
<1> DEFINE n == Len(s)
           F(g) == g = [i \in 1..n |-> IF i = 1 THEN s[i] ELSE g[i - 1] \o s[i]]
           f == CHOOSE g : F(g)
<1>1. n \in Nat /\ n \in 1..n
  OBVIOUS
<1>2. PICK g, h : IsFlattened(g, s, n, S) /\ IsLocated(h, g[n], s, n)
  BY <1>1, FlattenExists
<1>3. F(g)
  BY <1>2 DEF IsFlattened
<1>4. F(f)
  BY <1>3
<1>5. FlattenSeq(s) = f[n]
  BY Zenon DEF FlattenSeq
<1> HIDE DEF f
<1>6. \A i \in 1..n : /\ f[i] = IF i = 1 THEN s[i] ELSE f[i - 1] \o s[i]
                      /\ g[i] = IF i = 1 THEN s[i] ELSE g[i - 1] \o s[i]
  BY <1>3, <1>4
<1> HIDE DEF F
<1> DEFINE T == {i \in 1..n : f[i] # g[i]}
<1>7. T = {}
  <2> SUFFICES ASSUME T # {} PROVE FALSE
    OBVIOUS
  <2>1. T \subseteq Nat
    OBVIOUS
  <2>2. PICK m \in T : \A k \in T : m <= k
    <3> HIDE DEF T
    <3> QED
      BY <2>1, Least
  <2>3. m \in 1..n /\ f[m] # g[m]
    BY <2>2
  <2>4. m # 1
    BY <1>6, <2>3
  <2>5. m - 1 \in 1..n /\ m - 1 \notin T
    BY <1>1, <2>2, <2>3, <2>4
  <2>6. f[m - 1] = g[m - 1]
    BY <2>5
  <2> QED
    BY <1>6, <2>3, <2>4, <2>6
<1>8. f[n] = g[n]
  BY <1>1, <1>7
<1> QED
  BY <1>1, <1>2, <1>5, <1>8 DEF IsFlattened

\* Taking words away keeps the others, though a date comes in three words.
LEMMA SpreadFacts ==
  ASSUME NEW w \in WellFormed
  PROVE  Spread(w) \in Texts /\ Spread(w) # <<>>
<1> DEFINE S == [sep : Separators, word : WellFormed]
<1>1. None \in Runs /\ " " \in Separators
  BY RunsAssumption DEF Separators
<1>2. w.lead \in Runs /\ w.letters \in Runs /\ w.digits \in Runs
  BY DEF WellFormed
<1>3. ASSUME NEW p \in Runs PROVE Piece(" ", Plain(None, None, p, None)) \in S
  <2>1. Plain(None, None, p, None) \in WellFormed
    BY <1>1 DEF Plain, WellFormed, Kinds
  <2> QED
    BY <1>1, <2>1 DEF Piece
<1>4. Piece(" ", w) \in S
  BY <1>1 DEF Piece
<1> HIDE DEF S
<1>5. <<Piece(" ", w)>> \in Seq(S) /\ <<Piece(" ", w)>> # <<>>
  <2>1. \A p \in S : <<p>> \in Seq(S) /\ <<p>> # <<>>
    OBVIOUS
  <2> QED
    BY <1>4, <2>1
<1>6. ASSUME NEW a \in S, NEW b \in S, NEW c \in S
      PROVE  <<a, b, c>> \in Seq(S) /\ <<a, b, c>> # <<>>
  OBVIOUS
<1>7. /\ <<Piece(" ", Plain(None, None, w.lead, None)),
           Piece(" ", Plain(None, None, w.letters, None)),
           Piece(" ", Plain(None, None, w.digits, None))>> \in Seq(S)
      /\ <<Piece(" ", Plain(None, None, w.lead, None)),
           Piece(" ", Plain(None, None, w.letters, None)),
           Piece(" ", Plain(None, None, w.digits, None))>> # <<>>
  BY <1>2, <1>3, <1>6
<1> QED
  BY <1>5, <1>7 DEF Spread, Texts, S

\* Where the words of a text are in another one.
IsFound(h, text, I, new) ==
  /\ \A i \in I : h[i] \in DOMAIN new /\ Word(new, h[i]) = Word(text, i)
  /\ \A i, j \in I : i # j => h[i] # h[j]

LEMMA WithoutFacts ==
  ASSUME NEW text \in Texts, NEW drop, NEW I, I \subseteq DOMAIN text \ drop,
         \A i \in I : Word(text, i).kind # "date"
  PROVE  /\ Without(text, drop) \in Texts
         /\ \E h : IsFound(h, text, I, Without(text, drop))
<1> DEFINE S == [sep : Separators, word : WellFormed]
           s == [i \in DOMAIN text |-> IF i \in drop THEN <<>> ELSE Spread(Word(text, i))]
<1>1. \A i \in DOMAIN text : Word(text, i) \in WellFormed
  <2>1. text \in Seq(S)
    BY DEF Texts
  <2>2. \A p \in S : p.word \in WellFormed
    OBVIOUS
  <2> HIDE DEF S, s
  <2>3. \A i \in DOMAIN text : text[i] \in S
    BY <2>1
  <2> QED
    BY <2>2, <2>3 DEF Word
<1>2. CASE drop = {}
  <2>1. Without(text, drop) = text
    BY <1>2 DEF Without
  <2>2. IsFound([i \in DOMAIN text |-> i], text, I, text)
    BY DEF IsFound
  <2> QED
    BY <2>1, <2>2
<1>3. CASE drop # {}
  <2>1. Without(text, drop) = FlattenSeq(s)
    BY <1>3 DEF Without
  <2>2. \A i \in DOMAIN text : s[i] \in Seq(S)
    BY <1>1, SpreadFacts DEF Texts
  <2>3. DOMAIN text = 1..Len(text) /\ Len(text) \in Nat
    BY DEF Texts
  <2>4. s \in Seq(Seq(S)) /\ Len(s) = Len(text)
    <3>1. s = [i \in 1..Len(text) |-> s[i]]
      BY <2>3
    <3> HIDE DEF s, S
    <3>2. s \in [1..Len(text) -> Seq(S)]
      BY <2>2, <2>3, <3>1
    <3> QED
      BY <2>3, <3>2
  <2>5. \A i \in I : s[i] = Spread(Word(text, i)) /\ Spread(Word(text, i)) = <<Piece(" ", Word(text, i))>>
    BY DEF Spread
  <2>6. \A i \in I : i \in 1..Len(s) /\ s[i] # <<>> /\ s[i][1].word = Word(text, i)
    <3>1. \A w : <<Piece(" ", w)>> # <<>> /\ <<Piece(" ", w)>>[1].word = w
      BY DEF Piece
    <3> HIDE DEF s
    <3> SUFFICES ASSUME NEW i \in I
                 PROVE  i \in 1..Len(s) /\ s[i] # <<>> /\ s[i][1].word = Word(text, i)
      OBVIOUS
    <3>2. i \in 1..Len(s)
      BY <2>3, <2>4
    <3>3. s[i] = <<Piece(" ", Word(text, i))>>
      BY <2>5, Zenon
    <3> QED
      BY <3>1, <3>2, <3>3, Zenon
  <2> HIDE DEF s, S
  <2>7. CASE Len(s) = 0
    <3>1. FlattenSeq(s) = s
      BY <2>7 DEF FlattenSeq
    <3>2. s = <<>> /\ text = <<>>
      BY <2>3, <2>4, <2>7 DEF Texts
    <3>3. I = {}
      BY <2>4, <2>6, <2>7
    <3>4. IsFound(<<>>, text, I, s)
      BY <3>3 DEF IsFound
    <3> QED
      BY <2>1, <3>1, <3>2, <3>4
  <2>8. CASE Len(s) # 0
    <3>1. FlattenSeq(s) \in Seq(S) /\ \E h : IsLocated(h, FlattenSeq(s), s, Len(s))
      BY <2>4, <2>8, FlattenFacts
    <3>2. PICK h : IsLocated(h, FlattenSeq(s), s, Len(s))
      BY <3>1
    <3>3. 1..Len(FlattenSeq(s)) = DOMAIN FlattenSeq(s)
      BY <3>1
    <3>4. IsFound(h, text, I, FlattenSeq(s))
      BY <2>6, <3>2, <3>3 DEF IsLocated, IsFound, Word
    <3> QED
      BY <2>1, <3>1, <3>4 DEF Texts, S
  <2> QED
    BY <2>7, <2>8
<1> QED
  BY <1>2, <1>3

LEMMA FoundAgain ==
  ASSUME NEW f, NEW g, NEW a, NEW b, NEW c, NEW I, NEW J,
         IsFound(f, a, I, b), IsFound(g, b, J, c), \A i \in I : f[i] \in J
  PROVE  IsFound([i \in I |-> g[f[i]]], a, I, c)
BY DEF IsFound

-----------------------------------------------------------------------------
(* How often a text says something.                                        *)

Telling == {"plain", "fc2"}
Saying(text, I, said) == {at \in I \X Fields : Word(text, at[1])[at[2]].text = said}
Count(text, said) == Cardinality(Saying(text, OfKind(text, Telling), said))

LEMMA FieldsFinite == IsFiniteSet(Fields)
<1>1. IsFiniteSet({})
  BY FS_EmptySet
<1>2. Fields = ((({} \cup {"lead"}) \cup {"letters"}) \cup {"digits"}) \cup {"last"}
  BY DEF Fields
<1> QED
  BY <1>1, <1>2, FS_AddElement

LEMMA SayingFinite ==
  ASSUME NEW S, NEW text \in Seq(S), NEW I, I \subseteq DOMAIN text, NEW said
  PROVE  /\ IsFiniteSet(Saying(text, I, said))
         /\ Cardinality(Saying(text, I, said)) \in Nat
<1>1. IsFiniteSet(1..Len(text))
  BY FS_Interval
<1>2. I \in SUBSET (1..Len(text))
  OBVIOUS
<1>3. IsFiniteSet(I)
  BY <1>1, <1>2, FS_Subset
<1>4. IsFiniteSet(I \X Fields)
  BY <1>3, FieldsFinite, FS_Product
<1>5. Saying(text, I, said) \in SUBSET (I \X Fields)
  BY DEF Saying
<1>6. IsFiniteSet(Saying(text, I, said))
  BY <1>4, <1>5, FS_Subset
<1> QED
  BY <1>6, FS_CardinalityType

\* A text in which another one's words are found says them as often.
LEMMA CountFound ==
  ASSUME NEW S, NEW text \in Seq(S), NEW new \in Seq(S), NEW I, NEW h, NEW said,
         I \subseteq DOMAIN text, IsFound(h, text, I, new),
         \A i \in I : Word(text, i).kind \in Telling
  PROVE  Cardinality(Saying(text, I, said)) <= Count(new, said)
<1> DEFINE A == Saying(text, I, said)
           P == OfKind(new, Telling)
           B == Saying(new, P, said)
           j == [at \in A |-> <<h[at[1]], at[2]>>]
<1>1. \A i \in I : h[i] \in P
  BY DEF IsFound, OfKind
<1>2. ASSUME NEW at \in A PROVE j[at] \in B
  <2>1. at \in I \X Fields /\ Word(text, at[1])[at[2]].text = said
    BY DEF Saying
  <2>2. h[at[1]] \in P /\ Word(new, h[at[1]]) = Word(text, at[1])
    BY <1>1, <2>1 DEF IsFound
  <2>3. <<h[at[1]], at[2]>> \in P \X Fields
    BY <2>1, <2>2
  <2> HIDE DEF P
  <2> QED
    BY <2>1, <2>2, <2>3 DEF Saying
<1>3. ASSUME NEW a \in A, NEW b \in A, j[a] = j[b] PROVE a = b
  <2>1. a \in I \X Fields /\ b \in I \X Fields
    BY DEF Saying
  <2>2. h[a[1]] = h[b[1]] /\ a[2] = b[2]
    BY <1>3
  <2> QED
    BY <2>1, <2>2 DEF IsFound
<1> HIDE DEF A
<1>4. j \in [A -> B]
  BY <1>2
<1>5. j \in Injection(A, B)
  <2> HIDE DEF j, B
  <2> QED
    BY <1>3, <1>4, Fun_IsInj
<1>6. IsFiniteSet(B)
  BY SayingFinite DEF OfKind
<1> HIDE DEF j, B
<1> QED
  BY <1>5, <1>6, FS_Injection DEF A, B, Count

LEMMA CountConcat ==
  ASSUME NEW S, NEW a \in Seq(S), NEW b \in Seq(S), NEW said
  PROVE  /\ Count(a \o b, said) = Count(a, said) + Count(b, said)
         /\ Count(a, said) \in Nat /\ Count(b, said) \in Nat
<1> DEFINE c == a \o b
           P == OfKind(a, Telling)
           Q == OfKind(b, Telling)
           R == OfKind(c, Telling)
           Q2 == {Len(a) + i : i \in Q}
           A == Saying(a, P, said)
           B == Saying(b, Q, said)
           A2 == Saying(c, P, said)
           B2 == Saying(c, Q2, said)
           C == Saying(c, R, said)
           j == [at \in B |-> <<Len(a) + at[1], at[2]>>]
<1>1. /\ c \in Seq(S) /\ Len(a) \in Nat /\ Len(b) \in Nat /\ Len(c) = Len(a) + Len(b)
      /\ DOMAIN a = 1..Len(a) /\ DOMAIN b = 1..Len(b) /\ DOMAIN c = 1..Len(c)
  OBVIOUS
<1>2. /\ \A i \in 1..Len(a) : i \in 1..Len(c) /\ Word(c, i) = Word(a, i)
      /\ \A i \in 1..Len(b) : Len(a) + i \in 1..Len(c) /\ Word(c, Len(a) + i) = Word(b, i)
  <2>1. /\ \A i \in 1..Len(a) : i \in 1..Len(c) /\ c[i] = a[i]
        /\ \A i \in 1..Len(b) : Len(a) + i \in 1..Len(c) /\ c[Len(a) + i] = b[i]
    BY Concat
  <2> HIDE DEF c
  <2> QED
    BY <2>1, Zenon DEF Word
<1> HIDE DEF c
<1>3. ASSUME NEW i \in DOMAIN c PROVE i \in DOMAIN a \/ (i - Len(a) \in DOMAIN b /\ i = Len(a) + (i - Len(a)))
  BY <1>1
<1>4. P \subseteq DOMAIN a /\ Q \subseteq DOMAIN b /\ R \subseteq DOMAIN c
  BY DEF OfKind
<1>5. P \subseteq R /\ Q2 \subseteq R
  BY <1>1, <1>2 DEF OfKind
<1>6. R \subseteq P \cup Q2
  <2> SUFFICES ASSUME NEW i \in R PROVE i \in P \cup Q2
    OBVIOUS
  <2>1. i \in DOMAIN c /\ Word(c, i).kind \in Telling
    BY DEF OfKind
  <2>2. CASE i \in DOMAIN a
    BY <1>1, <1>2, <2>1, <2>2 DEF OfKind
  <2>3. CASE i - Len(a) \in DOMAIN b /\ i = Len(a) + (i - Len(a))
    <3>1. Word(b, i - Len(a)) = Word(c, i)
      BY <1>1, <1>2, <2>3
    <3>2. i - Len(a) \in Q
      BY <2>1, <2>3, <3>1 DEF OfKind
    <3> HIDE DEF Q
    <3> QED
      BY <2>3, <3>2
  <2> QED
    BY <1>3, <2>1, <2>2, <2>3
<1>7. \A i \in P, k \in Q2 : i # k
  BY <1>1, <1>4
<1>8. IsFiniteSet(A) /\ IsFiniteSet(B) /\ IsFiniteSet(C) /\ Cardinality(A) \in Nat /\ Cardinality(B) \in Nat
  BY <1>1, <1>4, SayingFinite
<1>9. A2 = A
  BY <1>1, <1>2, <1>4 DEF Saying
<1>10. C = A2 \cup B2 /\ A2 \cap B2 = {}
  <2> HIDE DEF P, Q2, R
  <2>1. R = P \cup Q2
    BY <1>5, <1>6
  <2> QED
    BY <1>7, <2>1 DEF Saying
<1>11. j \in Bijection(B, B2)
  <2> HIDE DEF Q
  <2>1. ASSUME NEW at \in B PROVE j[at] \in B2
    <3>1. at \in Q \X Fields /\ Word(b, at[1])[at[2]].text = said
      BY DEF Saying
    <3>2. Word(c, Len(a) + at[1]) = Word(b, at[1]) /\ Len(a) + at[1] \in Q2
      BY <1>1, <1>2, <1>4, <3>1
    <3>3. <<Len(a) + at[1], at[2]>> \in Q2 \X Fields
      BY <3>1, <3>2
    <3> HIDE DEF Q2
    <3> QED
      BY <3>1, <3>2, <3>3 DEF Saying
  <2>2. ASSUME NEW x \in B, NEW y \in B, j[x] = j[y] PROVE x = y
    <3>1. x \in Q \X Fields /\ y \in Q \X Fields
      BY DEF Saying
    <3>2. Len(a) + x[1] = Len(a) + y[1] /\ x[2] = y[2]
      BY <2>2
    <3>3. x[1] \in Int /\ y[1] \in Int
      BY <1>1, <1>4, <3>1
    <3>4. x[1] = y[1]
      BY <1>1, <3>2, <3>3
    <3> QED
      BY <3>1, <3>2, <3>4
  <2>3. ASSUME NEW y \in B2 PROVE \E x \in B : j[x] = y
    <3>1. y \in Q2 \X Fields /\ Word(c, y[1])[y[2]].text = said
      BY DEF Saying
    <3>2. PICK i \in Q : y[1] = Len(a) + i
      BY <3>1
    <3>3. Word(c, y[1]) = Word(b, i)
      BY <1>1, <1>2, <1>4, <3>2
    <3>4. <<i, y[2]>> \in Q \X Fields
      BY <3>1, <3>2
    <3>5. <<i, y[2]>> \in B
      BY <3>1, <3>3, <3>4 DEF Saying
    <3>6. j[<<i, y[2]>>] = <<Len(a) + i, y[2]>>
      <4> HIDE DEF B
      <4> QED
        BY <3>5
    <3>7. y = <<Len(a) + i, y[2]>>
      BY <3>1, <3>2
    <3> QED
      BY <3>5, <3>6, <3>7
  <2> HIDE DEF B, B2
  <2>4. j \in [B -> B2]
    BY <2>1
  <2> HIDE DEF j
  <2> QED
    BY <2>2, <2>3, <2>4, Fun_IsBij
<1>12. IsFiniteSet(B2) /\ Cardinality(B2) = Cardinality(B)
  <2> HIDE DEF B, B2, j
  <2>1. ExistsBijection(B, B2)
    BY <1>11 DEF ExistsBijection
  <2> QED
    BY <1>8, <2>1, FS_Bijection
<1>13. Cardinality(C) = Cardinality(A) + Cardinality(B)
  <2> HIDE DEF A, B, C, A2, B2
  <2>1. Cardinality(A2 \cap B2) = 0
    BY <1>10, FS_EmptySet
  <2>2. Cardinality(A2 \cup B2) = Cardinality(A2) + Cardinality(B2) - Cardinality(A2 \cap B2)
    BY <1>8, <1>9, <1>12, FS_Union
  <2> QED
    BY <1>8, <1>9, <1>10, <1>12, <2>1, <2>2
<1> QED
  BY <1>8, <1>13 DEF Count, c

\* The fields of a word.
OneIf(condition) == IF condition THEN 1 ELSE 0
CountWord(w, said) ==
  IF w.kind \notin Telling THEN 0
  ELSE OneIf(w.lead.text = said) + OneIf(w.letters.text = said)
         + OneIf(w.digits.text = said) + OneIf(w.last.text = said)

LEMMA CountOne ==
  ASSUME NEW p, NEW said
  PROVE  Count(<<p>>, said) = CountWord(p.word, said)
<1> DEFINE text == <<p>>
           P == OfKind(text, Telling)
           w == p.word
           Has(field) == IF w[field].text = said THEN {<<1, field>>} ELSE {}
<1>1. DOMAIN text = {1} /\ Word(text, 1) = w
  BY DEF Word
<1>2. CASE w.kind \notin Telling
  <2>1. P = {}
    BY <1>1, <1>2 DEF OfKind
  <2>2. Saying(text, P, said) = {}
    BY <2>1 DEF Saying
  <2> QED
    BY <1>2, <2>2, FS_EmptySet DEF Count, CountWord
<1>3. CASE w.kind \in Telling
  <2>1. P = {1}
    BY <1>1, <1>3 DEF OfKind
  <2>2. Saying(text, P, said) = {at \in {1} \X Fields : w[at[2]].text = said}
    BY <1>1, <2>1 DEF Saying
  <2> DEFINE S1 == Has("lead")
             S2 == S1 \cup Has("letters")
             S3 == S2 \cup Has("digits")
             S4 == S3 \cup Has("last")
  <2>3. Saying(text, P, said) = S4
    <3>1. \A at : at \in {1} \X Fields <=> at \in {<<1, "lead">>, <<1, "letters">>, <<1, "digits">>, <<1, "last">>}
      BY DEF Fields
    <3>2. \A at : at \in Saying(text, P, said) <=> at \in S4
      BY <2>2, <3>1
    <3> QED
      BY <3>2
  <2>4. ASSUME NEW T, IsFiniteSet(T), NEW field, <<1, field>> \notin T
        PROVE  /\ IsFiniteSet(T \cup Has(field))
               /\ Cardinality(T \cup Has(field)) = Cardinality(T) + OneIf(w[field].text = said)
    <3>1. Cardinality(T) \in Nat
      BY <2>4, FS_CardinalityType
    <3>2. CASE w[field].text = said
      BY <2>4, <3>2, FS_AddElement DEF OneIf
    <3>3. CASE w[field].text # said
      BY <2>4, <3>1, <3>3 DEF OneIf
    <3> QED
      BY <3>2, <3>3
  <2>5. IsFiniteSet({}) /\ Cardinality({}) = 0
    BY FS_EmptySet
  <2>6. IsFiniteSet(S1) /\ Cardinality(S1) = OneIf(w["lead"].text = said)
    <3>1. S1 = {} \cup Has("lead")
      OBVIOUS
    <3>2. /\ IsFiniteSet({} \cup Has("lead"))
          /\ Cardinality({} \cup Has("lead")) = Cardinality({}) + OneIf(w["lead"].text = said)
      <4> HIDE DEF Has
      <4> QED
        BY <2>4, <2>5
    <3>3. OneIf(w["lead"].text = said) \in {0, 1}
      BY DEF OneIf
    <3> HIDE DEF S1, Has
    <3> QED
      BY <2>5, <3>1, <3>2, <3>3
  <2>7. IsFiniteSet(S2) /\ Cardinality(S2) = Cardinality(S1) + OneIf(w["letters"].text = said)
    <3>1. <<1, "letters">> \notin S1
      OBVIOUS
    <3> HIDE DEF Has
    <3> QED
      BY <2>4, <2>6, <3>1
  <2>8. IsFiniteSet(S3) /\ Cardinality(S3) = Cardinality(S2) + OneIf(w["digits"].text = said)
    <3>1. <<1, "digits">> \notin S2
      OBVIOUS
    <3> HIDE DEF Has
    <3> QED
      BY <2>4, <2>7, <3>1
  <2>9. IsFiniteSet(S4) /\ Cardinality(S4) = Cardinality(S3) + OneIf(w["last"].text = said)
    <3>1. <<1, "last">> \notin S3
      OBVIOUS
    <3> HIDE DEF Has
    <3> QED
      BY <2>4, <2>8, <3>1
  <2>10. Count(text, said) = Cardinality(S4)
    BY <2>3 DEF Count
  <2> HIDE DEF S1, S2, S3, S4
  <2>11. Count(text, said) = OneIf(w["lead"].text = said) + OneIf(w["letters"].text = said)
                             + OneIf(w["digits"].text = said) + OneIf(w["last"].text = said)
    BY <2>6, <2>7, <2>8, <2>9, <2>10
  <2> HIDE DEF text, w
  <2> QED
    BY <1>3, <2>11 DEF CountWord, text, w
<1> QED
  BY <1>2, <1>3

-----------------------------------------------------------------------------
(* What the rules find: codes, parts and variants of a few forms.          *)

IsLabelled(code) ==
  \E w1, w2 : /\ code = Code("-", w1, w2) /\ IsLabel(w1) /\ IsNumber(w2, 1, 8)
              /\ w1.digits = None \/ w2.digits.size > 2
IsMixedCode(code) ==
  \E w1, w2 : code = Code("-", w1, w2) /\ IsMixed(w1) /\ IsNumber(w2, 1, 5)
Underscore == "_"
IsNumeric(code) ==
  \E w1, w2 : /\ code = Code(Underscore, w1, w2) /\ DigitsOf(w1) = w1
              /\ IsNumber(w1, 6, 6) /\ IsNumber(w2, 2, 4)
IsFc2(code) == \E w : code = Fc2Code(w) /\ IsNumber(w, 5, 8)
IsCode(code) ==
  /\ IsLabelled(code) \/ IsMixedCode(code) \/ IsNumeric(code) \/ IsFc2(code)
  /\ ~IsNoisePrefix(code[1].word)
IsPart(part) ==
  part = <<>> \/ \E d : part = Suffix(Plain(None, None, d, None)) /\ d.size \in 1..3
IsVariant(variant) ==
  \/ variant = <<>>
  \/ \E w : /\ variant = Suffix(w) /\ IsLetters(w)
            /\ w.letters.text \in Variants \/ w.letters.size = 1
  \/ \E w1, w2 : /\ variant = <<Piece("-", w1), Piece("-", w2)>>
                 /\ IsLetters(w1) /\ w1.letters.text = "UNCENSORED"
                 /\ IsLetters(w2) /\ w2.letters.text = "LEAK"

LEMMA NoneFacts == None.size = 0 /\ None.text = ""
BY DEF None, Part

LEMMA FromFacts ==
  ASSUME NEW S, NEW text \in Seq(S), NEW i \in Nat, i >= 1
  PROVE  /\ From(text, i) \in Seq(S)
         /\ Len(From(text, i)) = IF i <= Len(text) THEN Len(text) - i + 1 ELSE 0
         /\ \A k \in 1..Len(From(text, i)) :
              i + k - 1 \in DOMAIN text /\ From(text, i)[k] = text[i + k - 1]
BY DEF From

\* What is read of a tail: a part of one or two words and one word behind it.
LEMMA PartLengthFacts ==
  ASSUME NEW rest
  PROVE  \/ PartLength(rest) = 0
         \/ /\ PartLength(rest) = 1 /\ Len(rest) >= 1
            /\ \/ IsNumber(Word(rest, 1), 1, 3)
               \/ /\ IsLabel(Word(rest, 1)) /\ Word(rest, 1).letters.text \in PartWords
                  /\ Word(rest, 1).digits.size \in 1..3
         \/ /\ PartLength(rest) = 2 /\ Len(rest) >= 2
            /\ IsLetters(Word(rest, 1)) /\ Word(rest, 1).letters.text \in PartWords
            /\ IsNumber(Word(rest, 2), 1, 3)
<1> HIDE DEF IsNumber, IsLabel, IsLetters, Word, PartWords
<1> QED
  BY DEF PartLength

LEMMA VariantOfFacts ==
  ASSUME NEW text
  PROVE  /\ IsVariant(VariantOf(text))
         /\ StartsWithLeak(text) =>
              VariantOf(text) = <<Piece("-", Word(text, 1)), Piece("-", Word(text, 2))>>
         /\ StartsWithVariant(text) /\ ~StartsWithLeak(text) =>
              VariantOf(text) = Suffix(Word(text, 1))
         /\ ~StartsWithVariant(text) /\ ~StartsWithLeak(text) => VariantOf(text) = <<>>
<1>1. CASE StartsWithLeak(text)
  <2>1. VariantOf(text) = <<Piece("-", Word(text, 1)), Piece("-", Word(text, 2))>>
    BY <1>1, Zenon DEF VariantOf
  <2> QED
    BY <1>1, <2>1, Zenon DEF StartsWithLeak, IsVariant
<1>2. CASE StartsWithVariant(text) /\ ~StartsWithLeak(text)
  <2>1. VariantOf(text) = Suffix(Word(text, 1))
    BY <1>2, Zenon DEF VariantOf
  <2> QED
    BY <1>2, <2>1, Zenon DEF StartsWithVariant, IsVariant
<1>3. CASE ~StartsWithVariant(text) /\ ~StartsWithLeak(text)
  <2>1. VariantOf(text) = <<>>
    BY <1>3, Zenon DEF VariantOf
  <2> QED
    BY <1>3, <2>1, Zenon DEF IsVariant
<1> QED
  BY <1>1, <1>2, <1>3

LEMMA TailFacts ==
  ASSUME NEW S, NEW rest \in Seq(S)
  PROVE  IsPart(ParseTail(rest).part) /\ IsVariant(ParseTail(rest).variant)
<1> DEFINE n == PartLength(rest)
<1>1. n \in {0, 1, 2}
  BY PartLengthFacts
<1>2. ParseTail(rest).part = IF n = 0 THEN <<>> ELSE Suffix(Plain(None, None, Word(rest, n).digits, None))
  BY DEF ParseTail, TailBehind, TailFrom
<1>3. ParseTail(rest).variant = VariantOf(From(rest, n + 1))
  BY DEF ParseTail, TailBehind, TailFrom
<1>4. n # 0 => Word(rest, n).digits.size \in 1..3
  BY PartLengthFacts DEF IsNumber
<1>5. IsPart(ParseTail(rest).part)
  BY <1>2, <1>4 DEF IsPart
<1>6. IsVariant(VariantOf(From(rest, n + 1)))
  BY VariantOfFacts
<1> QED
  BY <1>3, <1>5, <1>6

\* The text behind a code is a text.
LEMMA FromText ==
  ASSUME NEW text \in Texts, NEW i \in Nat, i >= 1
  PROVE  From(text, i) \in Texts
BY FromFacts DEF Texts

LEMMA WordsOfTexts ==
  ASSUME NEW text \in Texts, NEW i \in 1..Len(text)
  PROVE  Word(text, i) \in WellFormed
<1> DEFINE S == [sep : Separators, word : WellFormed]
<1>1. text \in Seq(S)
  BY DEF Texts
<1>2. \A p \in S : p.word \in WellFormed
  OBVIOUS
<1> HIDE DEF S
<1>3. text[i] \in S
  BY <1>1
<1> QED
  BY <1>2, <1>3 DEF Word

Weights == {95, 92, 90, 86, 78}

IsCandidate(c, text) ==
  /\ IsLabelled(c.code) \/ IsMixedCode(c.code) \/ IsNumeric(c.code) \/ IsFc2(c.code)
  /\ IsPart(c.part) /\ IsVariant(c.variant)
  /\ c.from \in 1..Len(text) /\ c.to \in Nat /\ c.from <= c.to
  /\ c.weight \in Weights

LEMMA CandidateOf ==
  ASSUME NEW text \in Texts, NEW rest \in Texts, NEW weight \in Weights,
         NEW i \in 1..Len(text), NEW to \in Nat, i <= to, NEW code,
         IsLabelled(code) \/ IsMixedCode(code) \/ IsNumeric(code) \/ IsFc2(code)
  PROVE  IsCandidate(Candidate(weight, i, to, code, rest), text)
<1>1. IsPart(ParseTail(rest).part) /\ IsVariant(ParseTail(rest).variant)
  BY TailFacts DEF Texts
<1> QED
  BY <1>1 DEF IsCandidate, Candidate, Found

\* The digits a word begins with, and the texts behind them and behind those it ends with.
LEMMA OpensFacts ==
  ASSUME NEW w, NEW least \in Nat, NEW most \in Nat, least > 0, Opens(w, least, most)
  PROVE  /\ IsNumber(Opening(w), least, most)
         /\ w.kind = "plain"
         /\ w.lead = None => IsNumber(w, least, most)
<1>1. CASE w.lead = None
  <2>1. w.lead.size \notin least..most
    <3>1. 0 \notin least..most
      OBVIOUS
    <3> QED
      BY <1>1, <3>1, NoneFacts, Zenon
  <2>2. IsNumber(w, least, most)
    BY <2>1 DEF Opens
  <2> QED
    BY <1>1, <2>2 DEF Opening, IsNumber
<1>2. CASE w.lead # None
  <2>1. ~IsNumber(w, least, most)
    BY <1>2 DEF IsNumber
  <2>2. w.kind = "plain" /\ w.lead.size \in least..most
    BY <2>1 DEF Opens
  <2>3. IsNumber(Plain(None, None, w.lead, None), least, most)
    BY <2>2 DEF IsNumber, Plain
  <2> QED
    BY <1>2, <2>2, <2>3 DEF Opening
<1> QED
  BY <1>1, <1>2

LEMMA FrontPiece ==
  ASSUME NEW w \in WellFormed, NEW text \in Texts
  PROVE  <<Piece(" ", w)>> \o text \in Texts
<1>1. Piece(" ", w) \in [sep : Separators, word : WellFormed]
  BY DEF Piece, Separators
<1>2. <<Piece(" ", w)>> \in Texts
  <2>1. \A S, p : p \in S => <<p>> \in Seq(S)
    OBVIOUS
  <2> QED
    BY <1>1, <2>1 DEF Texts
<1> QED
  BY <1>2, Concat DEF Texts

LEMMA BehindTexts ==
  ASSUME NEW text \in Texts, NEW i \in 1..Len(text)
  PROVE  BehindOpening(text, i) \in Texts /\ BehindDigits(text, i) \in Texts
<1> DEFINE w == Word(text, i)
<1>1. w \in WellFormed /\ None \in Runs
  BY WordsOfTexts, RunsAssumption
<1>2. From(text, i + 1) \in Texts
  <2>1. i + 1 \in Nat /\ i + 1 >= 1
    BY DEF Texts
  <2> QED
    BY <2>1, FromText
<1>3. [w EXCEPT !.lead = None] \in WellFormed
  BY <1>1 DEF WellFormed
<1>4. w.last \in Runs
  BY <1>1 DEF WellFormed
<1>5. Plain(None, w.last, None, None) \in WellFormed
  BY <1>1, <1>4 DEF WellFormed, Plain, Kinds
<1>6. /\ <<Piece(" ", [w EXCEPT !.lead = None])>> \o From(text, i + 1) \in Texts
      /\ <<Piece(" ", Plain(None, w.last, None, None))>> \o From(text, i + 1) \in Texts
  BY <1>2, <1>3, <1>5, FrontPiece
<1> QED
  BY <1>2, <1>6 DEF BehindOpening, BehindDigits

IsSequence(text) == Len(text) \in Nat /\ DOMAIN text = 1..Len(text)

LEMMA Sequence ==
  /\ \A S : \A text \in Seq(S) : IsSequence(text)
  /\ \A text \in Texts : IsSequence(text)
BY DEF IsSequence, Texts

\* Where the mark of an FC2 code is.
LEMMA MarkFacts ==
  ASSUME NEW text, IsSequence(text), NEW m \in Fc2Marks(text)
  PROVE  /\ m.from \in 1..Len(text) /\ m.to \in 1..Len(text)
         /\ \/ m.to = m.from /\ Word(text, m.from).kind = "fc2"
            \/ /\ m.to = m.from + 1 /\ Word(text, m.from) = FC /\ Joined(text, m.to)
               /\ LettersOf(Word(text, m.to)) = PPV
               /\ Word(text, m.to).kind = "plain" /\ Word(text, m.to).lead = None
<1>1. Len(text) \in Nat /\ DOMAIN text = 1..Len(text)
  BY DEF IsSequence
<1>2. CASE \E i \in OfKind(text, {"fc2"}) : m = [from |-> i, to |-> i]
  BY <1>1, <1>2 DEF OfKind
<1>3. CASE \E i \in 1..(Len(text) - 1) :
            /\ m = [from |-> i, to |-> i + 1]
            /\ Word(text, i) = FC /\ Joined(text, i + 1)
            /\ LettersOf(Word(text, i + 1)) = PPV
            /\ Word(text, i + 1).kind = "plain" /\ Word(text, i + 1).lead = None
  <2>1. PICK i \in 1..(Len(text) - 1) :
            /\ m = [from |-> i, to |-> i + 1]
            /\ Word(text, i) = FC /\ Joined(text, i + 1)
            /\ LettersOf(Word(text, i + 1)) = PPV
            /\ Word(text, i + 1).kind = "plain" /\ Word(text, i + 1).lead = None
    BY <1>3
  <2>2. m.from = i /\ m.to = i + 1 /\ i \in 1..Len(text) /\ i + 1 \in 1..Len(text)
    BY <1>1, <2>1
  <2> QED
    BY <2>1, <2>2
<1> QED
  BY <1>2, <1>3, Zenon DEF Fc2Marks

LEMMA Fc2Candidates ==
  ASSUME NEW text \in Texts, NEW c \in Fc2(text)
  PROVE  IsCandidate(c, text)
<1>1. Len(text) \in Nat
  BY DEF Texts
<1>2. ASSUME NEW i \in 1..Len(text), NEW j \in Nat, i <= j, NEW w, IsNumber(w, 5, 8),
             NEW rest \in Texts, NEW code, code = Fc2Code(w), NEW weight, weight = 95
      PROVE  IsCandidate(Candidate(weight, i, j, code, rest), text)
  <2>1. IsFc2(code) /\ weight \in Weights
    BY <1>2 DEF IsFc2, Weights
  <2> QED
    BY <1>2, <2>1, CandidateOf
<1>3. CASE \E m \in Fc2Marks(text) :
            /\ Word(text, m.to).digits.size \in 5..8
            /\ c = Candidate(95, m.from, m.to, Fc2Code(DigitsOf(Word(text, m.to))),
                             BehindDigits(text, m.to))
  <2>1. PICK m \in Fc2Marks(text) :
            /\ Word(text, m.to).digits.size \in 5..8
            /\ c = Candidate(95, m.from, m.to, Fc2Code(DigitsOf(Word(text, m.to))),
                             BehindDigits(text, m.to))
    BY <1>3
  <2>2. m.from \in 1..Len(text) /\ m.to \in 1..Len(text) /\ (m.to = m.from \/ m.to = m.from + 1)
    BY Sequence, MarkFacts
  <2>3. m.to \in Nat /\ m.from <= m.to
    BY <1>1, <2>2
  <2>4. IsNumber(DigitsOf(Word(text, m.to)), 5, 8)
    BY <2>1 DEF IsNumber, DigitsOf, Plain
  <2>5. BehindDigits(text, m.to) \in Texts
    BY <2>2, BehindTexts
  <2> QED
    BY <1>2, <2>1, <2>2, <2>3, <2>4, <2>5, Zenon
<1>4. CASE \E m \in Fc2Marks(text) :
            /\ Joined(text, m.to + 1) /\ Opens(Word(text, m.to + 1), 5, 8)
            /\ c = Candidate(95, m.from, m.to + 1, Fc2Code(Opening(Word(text, m.to + 1))),
                             BehindOpening(text, m.to + 1))
  <2>1. PICK m \in Fc2Marks(text) :
            /\ Joined(text, m.to + 1) /\ Opens(Word(text, m.to + 1), 5, 8)
            /\ c = Candidate(95, m.from, m.to + 1, Fc2Code(Opening(Word(text, m.to + 1))),
                             BehindOpening(text, m.to + 1))
    BY <1>4
  <2>2. m.from \in 1..Len(text) /\ m.to \in 1..Len(text) /\ (m.to = m.from \/ m.to = m.from + 1)
    BY Sequence, MarkFacts
  <2>3. m.to + 1 \in Nat /\ m.to + 1 \in 1..Len(text) /\ m.from <= m.to + 1
    BY <1>1, <2>1, <2>2 DEF Joined
  <2>4. IsNumber(Opening(Word(text, m.to + 1)), 5, 8)
    BY <2>1, OpensFacts
  <2>5. BehindOpening(text, m.to + 1) \in Texts
    BY <2>3, BehindTexts
  <2> QED
    BY <1>2, <2>1, <2>2, <2>3, <2>4, <2>5, Zenon
<1> QED
  BY <1>3, <1>4, Zenon DEF Fc2

LEMMA MixedCandidates ==
  ASSUME NEW text \in Texts, NEW c \in MixedPrefix(text)
  PROVE  IsCandidate(c, text)
<1>1. Len(text) \in Nat
  BY DEF Texts
<1>2. CASE \E i \in 1..(Len(text) - 1) :
        /\ c = Candidate(92, i, i + 1, Code("-", Word(text, i), Word(text, i + 1)), From(text, i + 2))
        /\ IsMixed(Word(text, i)) /\ IsNumber(Word(text, i + 1), 1, 5)
  <2>1. PICK i \in 1..(Len(text) - 1) :
        /\ c = Candidate(92, i, i + 1, Code("-", Word(text, i), Word(text, i + 1)), From(text, i + 2))
        /\ IsMixed(Word(text, i)) /\ IsNumber(Word(text, i + 1), 1, 5)
    BY <1>2
  <2>2. From(text, i + 2) \in Texts /\ i \in 1..Len(text) /\ i + 1 \in Nat /\ i <= i + 1
    BY <1>1, FromText
  <2>3. IsMixedCode(Code("-", Word(text, i), Word(text, i + 1)))
    BY <2>1, Zenon DEF IsMixedCode
  <2> QED
    BY <2>1, <2>2, <2>3, CandidateOf DEF Weights
<1>3. CASE \E i \in 1..Len(text) :
        /\ c = Candidate(92, i, i, Code("-", [Word(text, i) EXCEPT !.digits = None],
                                        DigitsOf(Word(text, i))), From(text, i + 1))
        /\ IsMixed([Word(text, i) EXCEPT !.digits = None])
        /\ Word(text, i).digits.size \in 1..5
  <2>1. PICK i \in 1..Len(text) :
        /\ c = Candidate(92, i, i, Code("-", [Word(text, i) EXCEPT !.digits = None],
                                        DigitsOf(Word(text, i))), From(text, i + 1))
        /\ IsMixed([Word(text, i) EXCEPT !.digits = None])
        /\ Word(text, i).digits.size \in 1..5
    BY <1>3
  <2>2. From(text, i + 1) \in Texts /\ i \in Nat /\ i <= i
    BY <1>1, FromText
  <2>3. IsNumber(DigitsOf(Word(text, i)), 1, 5)
    BY <2>1 DEF IsNumber, DigitsOf, Plain
  <2> PICK code : code = Code("-", [Word(text, i) EXCEPT !.digits = None], DigitsOf(Word(text, i)))
    OBVIOUS
  <2>4. IsMixedCode(code) /\ c = Candidate(92, i, i, code, From(text, i + 1))
    BY <2>1, <2>3, Zenon DEF IsMixedCode
  <2> QED
    BY <2>2, <2>4, CandidateOf DEF Weights
<1> QED
  BY <1>2, <1>3, Zenon DEF MixedPrefix

LEMMA StandardCandidates ==
  ASSUME NEW text \in Texts, NEW c \in Standard(text)
  PROVE  IsCandidate(c, text)
<1>1. PICK i \in 1..(Len(text) - 1) :
        /\ c = Candidate(92, i, i + 1, Code("-", Word(text, i), Word(text, i + 1)), From(text, i + 2))
        /\ IsLabel(Word(text, i)) /\ IsNumber(Word(text, i + 1), 1, 8)
        /\ Word(text, i).digits = None \/ Word(text, i + 1).digits.size > 2
  BY Zenon DEF Standard
<1>2. Len(text) \in Nat
  BY DEF Texts
<1>3. From(text, i + 2) \in Texts /\ i \in 1..Len(text) /\ i + 1 \in Nat /\ i <= i + 1
  BY <1>2, FromText
<1>4. IsLabelled(Code("-", Word(text, i), Word(text, i + 1)))
  BY <1>1, Zenon DEF IsLabelled
<1> QED
  BY <1>1, <1>3, <1>4, CandidateOf DEF Weights

LEMMA LabelOf ==
  ASSUME NEW p, p.size \in 2..12
  PROVE  IsLabel(Plain(None, p, None, None))
<1> DEFINE w == Plain(None, p, None, None)
<1>1. w.kind = "plain" /\ w.lead = None /\ w.last = None /\ w.letters = p /\ w.digits = None
  BY DEF Plain
<1>2. w.digits.size = 0
  BY <1>1, NoneFacts
<1> HIDE DEF w
<1>3. IsLabel(w)
  BY <1>1, <1>2 DEF IsLabel
<1> QED
  BY <1>3 DEF w

LEMMA CompactCandidates ==
  ASSUME NEW text \in Texts, NEW c \in Compact(text)
  PROVE  IsCandidate(c, text)
<1>1. PICK i \in 1..Len(text) :
        /\ c = Candidate(86, i, i, Code("-", LettersOf(Word(text, i)), DigitsOf(Word(text, i))),
                         From(text, i + 1))
        /\ IsCompact(Word(text, i))
  BY Zenon DEF Compact
<1>2. Len(text) \in Nat
  BY DEF Texts
<1>3. From(text, i + 1) \in Texts /\ i \in Nat /\ i <= i
  BY <1>2, FromText
<1>4. IsLabel(LettersOf(Word(text, i))) /\ LettersOf(Word(text, i)).digits = None
  BY <1>1, LabelOf DEF IsCompact, LettersOf, Plain
<1>5. IsNumber(DigitsOf(Word(text, i)), 1, 8)
  BY <1>1 DEF IsCompact, IsNumber, DigitsOf, Plain
<1>6. IsLabelled(Code("-", LettersOf(Word(text, i)), DigitsOf(Word(text, i))))
  BY <1>4, <1>5, Zenon DEF IsLabelled
<1> QED
  BY <1>1, <1>3, <1>6, CandidateOf DEF Weights

LEMMA NumericCandidates ==
  ASSUME NEW text \in Texts, NEW c \in NumericUnderscore(text)
  PROVE  IsCandidate(c, text)
<1> DEFINE P(i) == [Candidate(78, i, i + 1,
                              Code(Underscore, DigitsOf(Word(text, i)), Opening(Word(text, i + 1))),
                              BehindOpening(text, i + 1))
                      EXCEPT !.before = i > 1 \/ ~IsNumber(Word(text, i), 6, 6)]
<1>1. PICK i \in 1..(Len(text) - 1) :
        /\ c = P(i)
        /\ Word(text, i).digits.size = 6
        /\ Opens(Word(text, i + 1), 2, 4)
  BY Zenon DEF NumericUnderscore, NumericAt, Underscore
<1>2. Len(text) \in Nat
  BY DEF Texts
<1>3. i \in 1..Len(text) /\ i + 1 \in 1..Len(text) /\ i + 1 \in Nat /\ i <= i + 1
  BY <1>2
<1>4. BehindOpening(text, i + 1) \in Texts
  BY <1>3, BehindTexts
<1>5. IsNumber(DigitsOf(Word(text, i)), 6, 6)
  BY <1>1 DEF IsNumber, DigitsOf, Plain
<1>6. IsNumber(Opening(Word(text, i + 1)), 2, 4)
  <2> HIDE DEF P
  <2> QED
    BY <1>1, OpensFacts
<1> PICK code : code = Code(Underscore, DigitsOf(Word(text, i)), Opening(Word(text, i + 1)))
  OBVIOUS
<1>10. DigitsOf(DigitsOf(Word(text, i))) = DigitsOf(Word(text, i))
  BY DEF DigitsOf, Plain
<1>7. IsNumeric(code)
  BY <1>5, <1>6, <1>10, Zenon DEF IsNumeric
<1> PICK rest, before : /\ rest = BehindOpening(text, i + 1)
                        /\ before = (i > 1 \/ ~IsNumber(Word(text, i), 6, 6))
  OBVIOUS
<1>8. IsCandidate(Candidate(78, i, i + 1, code, rest), text)
  BY <1>3, <1>4, <1>7, CandidateOf DEF Weights
<1>9. c = [Candidate(78, i, i + 1, code, rest) EXCEPT !.before = before]
  BY <1>1, Zenon
<1> QED
  BY <1>8, <1>9 DEF IsCandidate, Candidate, Found

LEMMA LetteredIs ==
  ASSUME NEW text, NEW d, IsCandidate(d, text), NEW letter, letter.size = 1,
         d = Found(d.weight, d.from, d.to, d.before, d.code,
                   [part |-> d.part, variant |-> d.variant, left |-> d.left])
  PROVE  IsCandidate(Lettered(d, letter), text)
<1> PICK v : v = Suffix(Plain(None, letter, None, None))
  OBVIOUS
<1>1. IsVariant(v)
  <2>1. IsLetters(Plain(None, letter, None, None)) /\ Plain(None, letter, None, None).letters.size = 1
    BY DEF IsLetters, Plain
  <2> QED
    BY <2>1, Zenon DEF IsVariant
<1>2. \A d2 : d2 = Found(d2.weight, d2.from, d2.to, d2.before, d2.code,
                        [part |-> d2.part, variant |-> d2.variant, left |-> d2.left])
        => [d2 EXCEPT !.variant = v] =
             Found(d2.weight, d2.from, d2.to, d2.before, d2.code,
                   [part |-> d2.part, variant |-> v, left |-> d2.left])
  BY DEF Found
<1>3. Lettered(d, letter) = Found(d.weight, d.from, d.to, d.before, d.code,
                                  [part |-> d.part, variant |-> v, left |-> d.left])
  BY <1>2, Zenon DEF Lettered
<1> QED
  BY <1>1, <1>3 DEF IsCandidate, Found

\* The two runs that a number of three to nine digits is cut into.
LEMMA CutFacts ==
  ASSUME NEW p, p.size \in 3..9
  PROVE  /\ FirstOf(p, CutAt(p)).size \in 0..4
         /\ RestOf(p, CutAt(p)).size \in 3..5
         /\ p.size = 3 => FirstOf(p, CutAt(p)) = None /\ RestOf(p, CutAt(p)) = p
<1> PICK n, k : n = p.size /\ k = CutAt(p)
  OBVIOUS
<1>1. \A m \in 3..9 : /\ m < 8 => m - 3 \in 0..4 /\ m - (m - 3) = 3
                      /\ ~(m < 8) => m - 4 \in 4..5
                      /\ m - 3 = 0 <=> m = 3
  OBVIOUS
<1>2. k \in 0..4 /\ n - k \in 3..5 /\ (n = 3 => k = 0) /\ (k = 0 => n = 3)
  BY <1>1 DEF CutAt
<1>3. CASE k = 0
  <2>1. FirstOf(p, k) = None /\ RestOf(p, k) = p
    BY <1>3 DEF FirstOf, RestOf
  <2>2. n = 3 /\ 0 \in 0..4 /\ 3 \in 3..5
    BY <1>2, <1>3
  <2> QED
    BY <2>1, <2>2, NoneFacts, Zenon
<1>4. CASE k # 0
  <2>1. FirstOf(p, k).size = k /\ RestOf(p, k).size = n - k
    BY <1>4 DEF FirstOf, RestOf, Part
  <2> QED
    BY <1>2, <1>4, <2>1
<1> QED
  BY <1>3, <1>4

LEMMA CutCode ==
  ASSUME NEW w, IsLettered(w)
  PROVE  IsLabelled(Code("-", Plain(None, w.letters, FirstOf(w.digits, CutAt(w.digits)), None),
                              Plain(None, None, RestOf(w.digits, CutAt(w.digits)), None)))
<1> PICK p, q : p = FirstOf(w.digits, CutAt(w.digits)) /\ q = RestOf(w.digits, CutAt(w.digits))
  OBVIOUS
<1>1. p.size \in 0..4 /\ q.size \in 3..5
  BY CutFacts DEF IsLettered
<1>2. IsLabel(Plain(None, w.letters, p, None))
  BY <1>1 DEF IsLettered, IsLabel, Plain
<1>3. IsNumber(Plain(None, None, q, None), 1, 8) /\ Plain(None, None, q, None).digits.size > 2
  BY <1>1 DEF IsNumber, Plain
<1> QED
  BY <1>2, <1>3, Zenon DEF IsLabelled

LEMMA LetteredCandidates ==
  ASSUME NEW text \in Texts, NEW c \in SuffixVariant(text)
  PROVE  IsCandidate(c, text)
<1>1. Len(text) \in Nat
  BY DEF Texts
<1>2. ASSUME NEW i \in 1..Len(text), NEW j \in Nat, i <= j, NEW code, IsLabelled(code),
             NEW rest \in Texts, NEW letter, letter.size = 1, NEW weight, weight = 90
      PROVE  IsCandidate(Lettered(Candidate(weight, i, j, code, rest), letter), text)
  <2> PICK d : d = Candidate(weight, i, j, code, rest)
    OBVIOUS
  <2>1. weight \in Weights
    BY <1>2 DEF Weights
  <2>2. IsCandidate(d, text)
    BY <1>2, <2>1, CandidateOf
  <2>3. d = Found(d.weight, d.from, d.to, d.before, d.code,
                  [part |-> d.part, variant |-> d.variant, left |-> d.left])
    BY DEF Found, Candidate
  <2> QED
    BY <1>2, <2>2, <2>3, LetteredIs
<1>3. CASE \E i \in 1..Len(text) : \E w, k :
             /\ w = Word(text, i) /\ IsLettered(w) /\ k = CutAt(w.digits)
             /\ c = Lettered(Candidate(90, i, i,
                              Code("-", Plain(None, w.letters, FirstOf(w.digits, k), None),
                                   Plain(None, None, RestOf(w.digits, k), None)),
                              From(text, i + 1)), w.last)
  <2>0. PICK i \in 1..Len(text) : \E w, k :
             /\ w = Word(text, i) /\ IsLettered(w) /\ k = CutAt(w.digits)
             /\ c = Lettered(Candidate(90, i, i,
                              Code("-", Plain(None, w.letters, FirstOf(w.digits, k), None),
                                   Plain(None, None, RestOf(w.digits, k), None)),
                              From(text, i + 1)), w.last)
    BY <1>3
  <2>1. PICK w, k :
             /\ w = Word(text, i) /\ IsLettered(w) /\ k = CutAt(w.digits)
             /\ c = Lettered(Candidate(90, i, i,
                              Code("-", Plain(None, w.letters, FirstOf(w.digits, k), None),
                                   Plain(None, None, RestOf(w.digits, k), None)),
                              From(text, i + 1)), w.last)
    BY <2>0
  <2>2. From(text, i + 1) \in Texts /\ i \in Nat /\ i <= i
    BY <1>1, FromText
  <2>3. w.last.size = 1
    BY <2>1 DEF IsLettered
  <2>4. IsLabelled(Code("-", Plain(None, w.letters, FirstOf(w.digits, k), None),
                             Plain(None, None, RestOf(w.digits, k), None)))
    BY <2>1, CutCode, Zenon
  <2> PICK code, rest, weight :
             /\ code = Code("-", Plain(None, w.letters, FirstOf(w.digits, k), None),
                            Plain(None, None, RestOf(w.digits, k), None))
             /\ rest = From(text, i + 1) /\ weight = 90
    OBVIOUS
  <2>5. c = Lettered(Candidate(weight, i, i, code, rest), w.last)
    BY <2>1, Zenon
  <2>6. IsLabelled(code) /\ rest \in Texts
    BY <2>2, <2>4
  <2>7. IsCandidate(Lettered(Candidate(weight, i, i, code, rest), w.last), text)
    BY <1>2, <2>2, <2>3, <2>6
  <2> QED
    BY <2>5, <2>7
<1>4. CASE \E i \in 1..(Len(text) - 1) : \E w :
             /\ w = Word(text, i + 1) /\ IsLabel(Word(text, i))
             /\ w.lead.size \in 3..5 /\ w.letters.size = 1
             /\ c = Lettered(Candidate(90, i, i + 1,
                                       Code("-", Word(text, i), Plain(None, None, w.lead, None)),
                                       From(text, i + 2)), w.letters)
  <2>0. PICK i \in 1..(Len(text) - 1) : \E w :
             /\ w = Word(text, i + 1) /\ IsLabel(Word(text, i))
             /\ w.lead.size \in 3..5 /\ w.letters.size = 1
             /\ c = Lettered(Candidate(90, i, i + 1,
                                       Code("-", Word(text, i), Plain(None, None, w.lead, None)),
                                       From(text, i + 2)), w.letters)
    BY <1>4
  <2>1. PICK w :
             /\ w = Word(text, i + 1) /\ IsLabel(Word(text, i))
             /\ w.lead.size \in 3..5 /\ w.letters.size = 1
             /\ c = Lettered(Candidate(90, i, i + 1,
                                       Code("-", Word(text, i), Plain(None, None, w.lead, None)),
                                       From(text, i + 2)), w.letters)
    BY <2>0
  <2>2. From(text, i + 2) \in Texts /\ i \in 1..Len(text) /\ i + 1 \in Nat /\ i <= i + 1
    BY <1>1, FromText
  <2>3. IsNumber(Plain(None, None, w.lead, None), 1, 8) /\ Plain(None, None, w.lead, None).digits.size > 2
    BY <2>1 DEF IsNumber, Plain
  <2>4. IsLabelled(Code("-", Word(text, i), Plain(None, None, w.lead, None)))
    BY <2>1, <2>3, Zenon DEF IsLabelled
  <2> PICK code, rest, j, weight :
             /\ code = Code("-", Word(text, i), Plain(None, None, w.lead, None))
             /\ rest = From(text, i + 2) /\ j = i + 1 /\ weight = 90
    OBVIOUS
  <2>5. c = Lettered(Candidate(weight, i, j, code, rest), w.letters)
    BY <2>1, Zenon
  <2>6. IsLabelled(code) /\ rest \in Texts /\ i \in 1..Len(text) /\ j \in Nat /\ i <= j
    BY <2>2, <2>4
  <2>7. IsCandidate(Lettered(Candidate(weight, i, j, code, rest), w.letters), text)
    BY <1>2, <2>1, <2>6
  <2> QED
    BY <2>5, <2>7
<1> QED
  BY <1>3, <1>4, ZenonT(60) DEF SuffixVariant

LEMMA CandidateFacts ==
  ASSUME NEW text \in Texts, NEW c \in Candidates(text)
  PROVE  IsCandidate(c, text) /\ IsCode(c.code)
<1>1. IsCandidate(c, text)
  BY Fc2Candidates, NumericCandidates, MixedCandidates, LetteredCandidates,
     StandardCandidates, CompactCandidates DEF Candidates
<1>2. ~IsNoisePrefix(c.code[1].word)
  BY DEF Candidates
<1> QED
  BY <1>1, <1>2 DEF IsCandidate, IsCode

-----------------------------------------------------------------------------
(* The best candidate.                                                     *)

LEMMA BestFacts ==
  ASSUME NEW C, C # {}, \A c \in C : c.weight \in Weights /\ c.from \in Nat
  PROVE  /\ Best(C) \in C
         /\ \A o \in C : \/ Best(C).weight > o.weight
                         \/ Best(C).weight = o.weight /\ Best(C).from <= o.from
<1> DEFINE W == {100 - c.weight : c \in C}
<1>1. \A c \in C : c.weight \in Nat /\ 100 - c.weight \in Nat
  BY DEF Weights
<1>2. PICK c1 \in C : \A c \in C : 100 - c1.weight <= 100 - c.weight
  <2>1. W \subseteq Nat /\ W # {}
    BY <1>1
  <2>2. PICK x \in W : \A y \in W : x <= y
    <3> HIDE DEF W
    <3> QED
      BY <2>1, Least
  <2> QED
    BY <2>2
<1> DEFINE D == {c \in C : c.weight = c1.weight}
           V == {c.from : c \in D}
<1>3. PICK c2 \in D : \A c \in D : c2.from <= c.from
  <2>1. V \subseteq Nat /\ V # {}
    OBVIOUS
  <2>2. PICK x \in V : \A y \in V : x <= y
    <3> HIDE DEF V
    <3> QED
      BY <2>1, Least
  <2> QED
    BY <2>2
<1>4. c2 \in C /\ \A o \in C : c2.weight > o.weight \/ (c2.weight = o.weight /\ c2.from <= o.from)
  <2>1. ASSUME NEW o \in C
        PROVE  c2.weight > o.weight \/ (c2.weight = o.weight /\ c2.from <= o.from)
    <3>1. c2.weight = c1.weight /\ c1.weight \in Nat /\ o.weight \in Nat
      BY <1>1, <1>3
    <3>2. 100 - c1.weight <= 100 - o.weight
      BY <1>2
    <3>3. c1.weight > o.weight \/ o.weight = c1.weight
      BY <3>1, <3>2
    <3> QED
      BY <1>3, <3>1, <3>3
  <2> QED
    BY <1>3, <2>1
<1> DEFINE P(c) == \A o \in C : c.weight > o.weight \/ (c.weight = o.weight /\ c.from <= o.from)
<1>5. Best(C) = CHOOSE c \in C : P(c)
  BY Zenon DEF Best
<1> HIDE DEF D, V
<1>6. \E c \in C : P(c)
  BY <1>4
<1>7. (CHOOSE c \in C : P(c)) \in C /\ P(CHOOSE c \in C : P(c))
  <2> HIDE DEF P
  <2> QED
    BY <1>6
<1> QED
  BY <1>5, <1>7, Zenon

\* A candidate more certain than all others is the best one.
LEMMA BestIs ==
  ASSUME NEW C, NEW b \in C, \A c \in C : c.weight \in Weights /\ c.from \in Nat,
         \A c \in C : c = b \/ c.weight < b.weight
  PROVE  Best(C) = b
<1>1. /\ Best(C) \in C
      /\ Best(C).weight > b.weight \/ Best(C).weight = b.weight
  BY BestFacts
<1>2. Best(C).weight \in Nat /\ b.weight \in Nat
  BY <1>1 DEF Weights
<1>3. ~(Best(C).weight < b.weight)
  BY <1>1, <1>2
<1> QED
  BY <1>1, <1>3

-----------------------------------------------------------------------------
(* What follows the code of a suggested name is read as it was written.    *)

LEMMA FromBehind ==
  ASSUME NEW S, NEW a \in Seq(S), NEW b \in Seq(S)
  PROVE  From(a \o b, Len(a) + 1) = b
<1>1. Len(a) \in Nat /\ Len(b) \in Nat /\ Len(a \o b) = Len(a) + Len(b)
  OBVIOUS
<1>2. From(a \o b, Len(a) + 1) = SubSeq(a \o b, Len(a) + 1, Len(a) + Len(b))
  BY <1>1 DEF From
<1>3. CASE Len(b) = 0
  <2>1. SubSeq(a \o b, Len(a) + 1, Len(a) + Len(b)) = <<>>
    BY <1>1, <1>3, SubSeqEmpty
  <2> QED
    BY <1>2, <1>3, <2>1
<1>4. CASE Len(b) # 0
  <2>1. /\ Len(a) + 1 \in (Len(a) + 1)..(Len(a) + Len(b))
        /\ Len(a) + Len(b) \in (Len(a) + 1)..(Len(a) + Len(b))
    BY <1>1, <1>4
  <2>2. SubSeq(a \o b, Len(a) + 1, Len(a) + Len(b))
          = SubSeq(b, Len(a) + 1 - Len(a), Len(a) + Len(b) - Len(a))
    BY <2>1, SubSeqOfConcat2
  <2>3. Len(a) + 1 - Len(a) = 1 /\ Len(a) + Len(b) - Len(a) = Len(b)
    BY <1>1
  <2>4. SubSeq(b, 1, Len(b)) = b
    BY SubSeqFull
  <2> QED
    BY <1>2, <2>2, <2>3, <2>4
<1> QED
  BY <1>3, <1>4

LEMMA TwoPieces ==
  ASSUME NEW p, NEW v
  PROVE  /\ <<p>> \o <<v>> = <<p, v>>
         /\ From(<<p, v>>, 2) = <<v>> /\ From(<<p, v>>, 3) = <<>>
         /\ From(<<p>>, 1) = <<p>> /\ From(<<p>>, 2) = <<>> /\ From(<<>>, 1) = <<>>
<1> DEFINE S == {p, v}
<1>1. <<p>> \in Seq(S) /\ <<v>> \in Seq(S) /\ <<p, v>> \in Seq(S) /\ <<>> \in Seq(S)
  OBVIOUS
<1>2. Len(<<p>>) = 1 /\ Len(<<p, v>>) = 2 /\ Len(<<>>) = 0
  OBVIOUS
<1> HIDE DEF S
<1>3. /\ <<p>> \o <<v>> = <<p, v>> /\ <<p, v>> \o <<>> = <<p, v>> /\ <<>> \o <<p>> = <<p>>
      /\ <<p>> \o <<>> = <<p>> /\ <<>> \o <<>> = <<>>
  <2>1. <<p>> \o <<v>> \in Seq(S) /\ Len(<<p>> \o <<v>>) = 2
    BY <1>1, <1>2, Concat
  <2>2. (<<p>> \o <<v>>)[1] = p /\ (<<p>> \o <<v>>)[2] = v
    OBVIOUS
  <2>3. \A i \in 1..2 : i = 1 \/ i = 2
    OBVIOUS
  <2>4. <<p, v>>[1] = p /\ <<p, v>>[2] = v
    OBVIOUS
  <2>5. \A i \in 1..2 : (<<p>> \o <<v>>)[i] = <<p, v>>[i]
    BY <2>2, <2>3, <2>4, Zenon
  <2>6. <<p>> \o <<v>> = <<p, v>>
    BY <1>1, <1>2, <2>1, <2>5, SeqEqual
  <2> QED
    BY <1>1, <2>6, ConcatEmptySeq
<1>4. /\ From(<<p>> \o <<v>>, 1 + 1) = <<v>> /\ From(<<p, v>> \o <<>>, 2 + 1) = <<>>
      /\ From(<<>> \o <<p>>, 0 + 1) = <<p>> /\ From(<<p>> \o <<>>, 1 + 1) = <<>>
      /\ From(<<>> \o <<>>, 0 + 1) = <<>>
  <2>1. \A a, b \in Seq(S) : From(a \o b, Len(a) + 1) = b
    BY FromBehind
  <2> QED
    BY <1>1, <1>2, <2>1, Zenon
<1>5. 1 + 1 = 2 /\ 2 + 1 = 3 /\ 0 + 1 = 1
  OBVIOUS
<1> QED
  BY <1>3, <1>4, <1>5, Zenon

LEMMA PartWord ==
  ASSUME NEW d, d.size \in 1..3, NEW w, w = Plain(None, None, d, None)
  PROVE  IsNumber(w, 1, 3) /\ ~IsLetters(w) /\ Plain(None, None, w.digits, None) = w
<1>1. IsNumber(w, 1, 3)
  BY DEF IsNumber, Plain
<1>2. w.letters.size = 0
  BY NoneFacts DEF Plain
<1>3. ~IsLetters(w)
  BY <1>2 DEF IsLetters
<1> QED
  BY <1>1, <1>3 DEF Plain

LEMMA VariantWord ==
  ASSUME NEW w, IsLetters(w)
  PROVE  w.digits.size = 0 /\ w.last.size = 0 /\ w.lead.size = 0 /\ w.letters.size > 0
BY NoneFacts DEF IsLetters

LEMMA VariantRead ==
  ASSUME NEW v, IsVariant(v)
  PROVE  /\ VariantOf(v) = v /\ PartLength(v) = 0
         /\ \E S : v \in Seq(S) /\ \A p \in S : p.sep = "-" /\ IsLetters(p.word)
<1>1. CASE v = <<>>
  <2>1. ~StartsWithVariant(<<>>)
    BY DEF StartsWithVariant
  <2>2. ~StartsWithLeak(<<>>)
    BY DEF StartsWithLeak, Joined
  <2>3. PartLength(<<>>) = 0
    BY PartLengthFacts
  <2>4. VariantOf(<<>>) = <<>>
    BY <2>1, <2>2, VariantOfFacts, Zenon
  <2> PICK U : U = {}
    OBVIOUS
  <2>5. <<>> \in Seq(U)
    OBVIOUS
  <2>6. \A p \in U : p.sep = "-" /\ IsLetters(p.word)
    OBVIOUS
  <2>7. \E S : <<>> \in Seq(S) /\ \A p \in S : p.sep = "-" /\ IsLetters(p.word)
    BY <2>5, <2>6, Zenon
  <2> QED
    BY <1>1, <2>3, <2>4, <2>7, Zenon
<1>2. CASE \E w : /\ v = Suffix(w) /\ IsLetters(w)
                  /\ w.letters.text \in Variants \/ w.letters.size = 1
  <2>1. PICK w : /\ v = Suffix(w) /\ IsLetters(w)
                 /\ w.letters.text \in Variants \/ w.letters.size = 1
    BY <1>2
  <2>2. Len(v) = 1 /\ v # <<>> /\ Word(v, 1) = w
    BY <2>1 DEF Suffix, Word, Piece
  <2>3. ~StartsWithLeak(v)
    BY <2>2 DEF StartsWithLeak, Joined
  <2>4. StartsWithVariant(v)
    BY <2>1, <2>2 DEF StartsWithVariant
  <2>5. VariantOf(v) = v
    BY <2>1, <2>2, <2>3, <2>4, VariantOfFacts, Zenon
  <2>6. PartLength(v) = 0
    <3>1. w.digits.size = 0
      BY <2>1, VariantWord
    <3>2. ~IsNumber(w, 1, 3) /\ 0 \notin 1..3 /\ ~(1 >= 2)
      BY <3>1 DEF IsNumber
    <3> QED
      BY <2>2, <3>1, <3>2, PartLengthFacts, Zenon
  <2> PICK U : U = {Piece("-", w)}
    OBVIOUS
  <2>7. v \in Seq(U)
    BY <2>1 DEF Suffix
  <2>8. \A p \in U : p.sep = "-" /\ IsLetters(p.word)
    BY <2>1 DEF Piece
  <2> QED
    BY <2>5, <2>6, <2>7, <2>8, Zenon
<1>3. CASE \E w1, w2 : /\ v = <<Piece("-", w1), Piece("-", w2)>>
                       /\ IsLetters(w1) /\ w1.letters.text = "UNCENSORED"
                       /\ IsLetters(w2) /\ w2.letters.text = "LEAK"
  <2>1. PICK w1, w2 : /\ v = <<Piece("-", w1), Piece("-", w2)>>
                      /\ IsLetters(w1) /\ w1.letters.text = "UNCENSORED"
                      /\ IsLetters(w2) /\ w2.letters.text = "LEAK"
    BY <1>3
  <2>2. Len(v) = 2 /\ Word(v, 1) = w1 /\ Word(v, 2) = w2 /\ v[2].sep = "-"
    BY <2>1 DEF Word, Piece
  <2>3. Joined(v, 2)
    BY <2>2 DEF Joined, Joints, Separators
  <2>4. StartsWithLeak(v)
    BY <2>1, <2>2, <2>3, Zenon DEF StartsWithLeak
  <2>5. VariantOf(v) = v
    BY <2>1, <2>2, <2>4, VariantOfFacts, Zenon
  <2>6. PartLength(v) = 0
    <3>1. w1.digits.size = 0 /\ w2.digits.size = 0
      BY <2>1, VariantWord
    <3>2. ~IsNumber(w1, 1, 3) /\ ~IsNumber(w2, 1, 3) /\ 0 \notin 1..3
      BY <3>1 DEF IsNumber
    <3> QED
      BY <2>2, <3>1, <3>2, PartLengthFacts, Zenon
  <2> PICK U : U = {Piece("-", w1), Piece("-", w2)}
    OBVIOUS
  <2>7. v \in Seq(U)
    <3>1. \A p, q : <<p, q>> \in Seq({p, q})
      OBVIOUS
    <3> QED
      BY <2>1, <3>1, Zenon
  <2>8. \A p \in U : p.sep = "-" /\ IsLetters(p.word)
    BY <2>1 DEF Piece
  <2> QED
    BY <2>5, <2>6, <2>7, <2>8, Zenon
<1> QED
  BY <1>1, <1>2, <1>3, Zenon DEF IsVariant

LEMMA TailRead ==
  ASSUME NEW part, NEW variant, IsPart(part), IsVariant(variant)
  PROVE  ParseTail(part \o variant) = [part |-> part, variant |-> variant, left |-> <<>>]
<1>1. PICK S : variant \in Seq(S)
  BY VariantRead, Zenon
<1>2. VariantOf(variant) = variant /\ PartLength(variant) = 0
  BY VariantRead, Zenon
<1>3. ASSUME NEW rest, NEW n \in {0, 1}, PartLength(rest) = n
      PROVE  ParseTail(rest) =
               [part |-> IF n = 0 THEN <<>> ELSE Suffix(Plain(None, None, Word(rest, n).digits, None)),
                variant |-> VariantOf(From(rest, n + 1)),
                left |-> From(rest, n + Len(VariantOf(From(rest, n + 1))) + 1)]
  BY <1>3, Zenon DEF ParseTail, TailBehind, TailFrom
<1>4. ASSUME NEW T, NEW s \in Seq(T)
      PROVE  From(s, 1) = s /\ From(s, 0 + 1) = s /\ From(s, Len(s) + 1) = <<>> /\ Len(s) \in Nat
  <2>1. <<>> \in Seq(T) /\ Len(<<>>) = 0 /\ Len(s) \in Nat /\ 0 + 1 = 1
    OBVIOUS
  <2>2. s \o <<>> = s /\ <<>> \o s = s
    BY <2>1, ConcatEmptySeq
  <2>3. From(s \o <<>>, Len(s) + 1) = <<>> /\ From(<<>> \o s, Len(<<>>) + 1) = s
    BY <2>1, FromBehind
  <2> QED
    BY <2>1, <2>2, <2>3, Zenon
<1>5. CASE part = <<>>
  <2>1. part \o variant = variant
    BY <1>1, <1>5, ConcatEmptySeq
  <2>2. 0 \in {0, 1}
    OBVIOUS
  <2>3. ParseTail(variant) =
          [part |-> <<>>, variant |-> VariantOf(From(variant, 0 + 1)),
           left |-> From(variant, 0 + Len(VariantOf(From(variant, 0 + 1))) + 1)]
    BY <1>2, <1>3, <2>2, Zenon
  <2>4. From(variant, 0 + 1) = variant /\ From(variant, Len(variant) + 1) = <<>> /\ Len(variant) \in Nat
    BY <1>1, <1>4, Zenon
  <2>5. 0 + Len(variant) + 1 = Len(variant) + 1
    BY <2>4
  <2> QED
    BY <1>2, <1>5, <2>1, <2>3, <2>4, <2>5, Zenon
<1>6. CASE part # <<>>
  <2>1. PICK d : part = Suffix(Plain(None, None, d, None)) /\ d.size \in 1..3
    BY <1>6 DEF IsPart
  <2> DEFINE p == Plain(None, None, d, None)
  <2>2. IsNumber(p, 1, 3) /\ ~IsLetters(p) /\ Plain(None, None, p.digits, None) = p
    BY <2>1, PartWord
  <2> HIDE DEF p
  <2>3. part = Suffix(p)
    BY <2>1 DEF p
  <2> DEFINE T == S \cup {Piece("-", p)}
             rest == part \o variant
  <2>4. part \in Seq(T) /\ variant \in Seq(T) /\ Len(part) = 1 /\ part[1] = Piece("-", p)
    <3>1. \A q : <<q>> \in Seq(S \cup {q}) /\ variant \in Seq(S \cup {q}) /\ Len(<<q>>) = 1 /\ <<q>>[1] = q
      BY <1>1
    <3> QED
      BY <2>3, <3>1, Zenon DEF Suffix
  <2> HIDE DEF T
  <2>5. rest \in Seq(T) /\ Len(rest) = 1 + Len(variant) /\ Len(rest) >= 1 /\ rest[1] = part[1]
    <3>1. part \o variant \in Seq(T) /\ Len(part \o variant) = Len(part) + Len(variant)
      BY <2>4, Concat
    <3>2. Len(variant) \in Nat /\ 1 \in 1..Len(part)
      BY <2>4
    <3>3. (part \o variant)[1] = part[1]
      BY <2>4, <3>2, Concat
    <3> QED
      BY <2>4, <3>1, <3>2, <3>3
  <2>6. From(rest, 1 + 1) = variant
    BY <2>4, FromBehind
  <2>7. From(rest, Len(rest) + 1) = <<>>
    BY <1>4, <2>5
  <2> HIDE DEF rest
  <2>8. Word(rest, 1) = p
    BY <2>4, <2>5 DEF Word, Piece
  <2>9. PartLength(rest) = 1
    <3>1. PartLength(rest) # 2
      BY <2>2, <2>8, PartLengthFacts
    <3>2. PartLength(rest) # 0
      BY <2>2, <2>5, <2>8 DEF PartLength
    <3> QED
      BY <3>1, <3>2, PartLengthFacts
  <2>10. 1 \in {0, 1} /\ 1 # 0
    OBVIOUS
  <2>11. ParseTail(rest) =
           [part |-> Suffix(Plain(None, None, Word(rest, 1).digits, None)),
            variant |-> VariantOf(From(rest, 1 + 1)),
            left |-> From(rest, 1 + Len(VariantOf(From(rest, 1 + 1))) + 1)]
    BY <1>3, <2>9, <2>10, Zenon
  <2>12. ParseTail(rest) = [part |-> part, variant |-> variant, left |-> <<>>]
    BY <1>2, <2>2, <2>3, <2>5, <2>6, <2>7, <2>8, <2>11, Zenon
  <2> QED
    BY <2>12 DEF rest
<1> QED
  BY <1>5, <1>6

-----------------------------------------------------------------------------
(* The candidates of a text, one by one.                                   *)

AtFc2(o, text, i) ==
  \E m \in Fc2Marks(text) :
    /\ m.from = i
    /\ \/ /\ o = Candidate(95, i, m.to, Fc2Code(DigitsOf(Word(text, m.to))), BehindDigits(text, m.to))
          /\ Word(text, m.to).digits.size \in 5..8
       \/ /\ o = Candidate(95, i, m.to + 1, Fc2Code(Opening(Word(text, m.to + 1))),
                           BehindOpening(text, m.to + 1))
          /\ Word(text, m.to).digits = None
          /\ Joined(text, m.to + 1) /\ Opens(Word(text, m.to + 1), 5, 8)

WithBefore(c, before) == [c EXCEPT !.before = before]
AtNumeric(o, text, i) ==
  /\ o = WithBefore(Candidate(78, i, i + 1,
                              Code(Underscore, DigitsOf(Word(text, i)), Opening(Word(text, i + 1))),
                              BehindOpening(text, i + 1)),
                    i > 1 \/ ~IsNumber(Word(text, i), 6, 6))
  /\ Word(text, i).kind \in Telling
  /\ Word(text, i).digits.size = 6 /\ Word(text, i).last = None
  /\ text[i + 1].sep \in {Underscore, " "} /\ Opens(Word(text, i + 1), 2, 4)

AtMixed(o, text, i) ==
  /\ o = Candidate(92, i, i + 1, Code("-", Word(text, i), Word(text, i + 1)), From(text, i + 2))
  /\ IsMixed(Word(text, i)) /\ IsNumber(Word(text, i + 1), 1, 5)
AtGlued(o, text, i) ==
  \E w : /\ w = Word(text, i)
         /\ o = Candidate(92, i, i, Code("-", [w EXCEPT !.digits = None], DigitsOf(w)),
                          From(text, i + 1))
         /\ IsMixed([w EXCEPT !.digits = None]) /\ w.digits.size \in 1..5

AtLettered(o, text, i) ==
  \E w, k :
    /\ w = Word(text, i) /\ k = CutAt(w.digits) /\ IsLettered(w)
    /\ o = Lettered(Candidate(90, i, i,
                              Code("-", Plain(None, w.letters, FirstOf(w.digits, k), None),
                                   Plain(None, None, RestOf(w.digits, k), None)),
                              From(text, i + 1)), w.last)
AtLetterBehind(o, text, i) ==
  \E w : /\ w = Word(text, i + 1)
         /\ o = Lettered(Candidate(90, i, i + 1,
                                   Code("-", Word(text, i), Plain(None, None, w.lead, None)),
                                   From(text, i + 2)), w.letters)
         /\ IsLabel(Word(text, i)) /\ w.kind = "plain"
         /\ w.lead.size \in 3..5 /\ w.letters.size = 1 /\ w.digits = None

AtStandard(o, text, i) ==
  /\ o = Candidate(92, i, i + 1, Code("-", Word(text, i), Word(text, i + 1)), From(text, i + 2))
  /\ IsLabel(Word(text, i)) /\ IsNumber(Word(text, i + 1), 1, 8)
  /\ Word(text, i).digits = None \/ Word(text, i + 1).digits.size > 2

AtCompact(o, text, i) ==
  /\ o = Candidate(86, i, i, Code("-", LettersOf(Word(text, i)), DigitsOf(Word(text, i))),
                   From(text, i + 1))
  /\ IsCompact(Word(text, i))

LEMMA CandidateSorts ==
  ASSUME NEW text, IsSequence(text), NEW o \in Candidates(text)
  PROVE  \/ \E i \in 1..(Len(text) - 1) : \/ AtNumeric(o, text, i) \/ AtMixed(o, text, i)
                                          \/ AtLetterBehind(o, text, i) /\ o \in SuffixVariant(text)
                                          \/ AtStandard(o, text, i)
         \/ \E i \in 1..Len(text) : \/ AtFc2(o, text, i) \/ AtGlued(o, text, i)
                                    \/ AtLettered(o, text, i) /\ o \in SuffixVariant(text)
                                    \/ AtCompact(o, text, i)
<1>1. ASSUME o \in Fc2(text) PROVE \E i \in 1..Len(text) : AtFc2(o, text, i)
  <2>1. \/ \E m \in Fc2Marks(text) :
             /\ Word(text, m.to).digits.size \in 5..8
             /\ o = Candidate(95, m.from, m.to, Fc2Code(DigitsOf(Word(text, m.to))),
                              BehindDigits(text, m.to))
        \/ \E m \in Fc2Marks(text) :
             /\ Word(text, m.to).digits = None
             /\ Joined(text, m.to + 1) /\ Opens(Word(text, m.to + 1), 5, 8)
             /\ o = Candidate(95, m.from, m.to + 1, Fc2Code(Opening(Word(text, m.to + 1))),
                              BehindOpening(text, m.to + 1))
    BY <1>1, Zenon DEF Fc2
  <2>2. \A m \in Fc2Marks(text) : m.from \in 1..Len(text)
    BY MarkFacts
  <2> QED
    BY <2>1, <2>2, Zenon DEF AtFc2
<1>2. ASSUME o \in NumericUnderscore(text) PROVE \E i \in 1..(Len(text) - 1) : AtNumeric(o, text, i)
  BY <1>2, Zenon DEF NumericUnderscore, NumericAt, AtNumeric, WithBefore, Underscore, Telling
<1>3. ASSUME o \in MixedPrefix(text)
      PROVE  \/ \E i \in 1..(Len(text) - 1) : AtMixed(o, text, i)
             \/ \E i \in 1..Len(text) : AtGlued(o, text, i)
  BY <1>3, Zenon DEF MixedPrefix, AtMixed, AtGlued
<1>4. ASSUME o \in SuffixVariant(text)
      PROVE  \/ \E i \in 1..Len(text) : AtLettered(o, text, i)
             \/ \E i \in 1..(Len(text) - 1) : AtLetterBehind(o, text, i)
  BY <1>4, ZenonT(60) DEF SuffixVariant, AtLettered, AtLetterBehind
<1>5. ASSUME o \in Standard(text) PROVE \E i \in 1..(Len(text) - 1) : AtStandard(o, text, i)
  BY <1>5, Zenon DEF Standard, AtStandard
<1>6. ASSUME o \in Compact(text) PROVE \E i \in 1..Len(text) : AtCompact(o, text, i)
  BY <1>6, Zenon DEF Compact, AtCompact
<1> QED
  BY <1>1, <1>2, <1>3, <1>4, <1>5, <1>6, Zenon DEF Candidates

LEMMA CandidateCases ==
  ASSUME NEW text, IsSequence(text), NEW o \in Candidates(text)
  PROVE  \/ \E i \in 1..(Len(text) - 1) : \/ AtNumeric(o, text, i) \/ AtMixed(o, text, i)
                                          \/ AtLetterBehind(o, text, i) \/ AtStandard(o, text, i)
         \/ \E i \in 1..Len(text) : \/ AtFc2(o, text, i) \/ AtGlued(o, text, i)
                                    \/ AtLettered(o, text, i) \/ AtCompact(o, text, i)
BY CandidateSorts, Zenon

LEMMA CandidateFields ==
  ASSUME NEW weight, NEW from, NEW to, NEW code, NEW rest
  PROVE  LET c == Candidate(weight, from, to, code, rest)
         IN  /\ c.weight = weight /\ c.from = from /\ c.to = to /\ c.code = code
             /\ c.before = (from > 1)
             /\ c.part = ParseTail(rest).part /\ c.variant = ParseTail(rest).variant
             /\ c.left = ParseTail(rest).left
             /\ \A letter : LET l == Lettered(c, letter)
                            IN  /\ l.weight = weight /\ l.from = from /\ l.to = to /\ l.code = code
                                /\ l.before = c.before
                                /\ l.part = c.part /\ l.left = c.left
                                /\ l.variant = Suffix(Plain(None, letter, None, None))
             /\ \A before : LET b == WithBefore(c, before)
                            IN  /\ b.weight = weight /\ b.from = from /\ b.to = to /\ b.code = code
                                /\ b.before = before /\ b.variant = c.variant
                                /\ b.part = c.part /\ b.left = c.left
BY DEF Candidate, Found, Lettered, WithBefore

LEMMA StartOf ==
  ASSUME NEW text, IsSequence(text), NEW o, NEW i
  PROVE  /\ AtFc2(o, text, i) => o.weight = 95 /\ o.from = i /\ o.to \in Nat /\ o.to >= i
         /\ AtNumeric(o, text, i) => o.weight = 78 /\ o.from = i /\ o.to = i + 1
         /\ AtMixed(o, text, i) => o.weight = 92 /\ o.from = i /\ o.to = i + 1
         /\ AtGlued(o, text, i) => o.weight = 92 /\ o.from = i /\ o.to = i
         /\ AtLettered(o, text, i) => o.weight = 90 /\ o.from = i /\ o.to = i
         /\ AtLetterBehind(o, text, i) => o.weight = 90 /\ o.from = i /\ o.to = i + 1
         /\ AtStandard(o, text, i) => o.weight = 92 /\ o.from = i /\ o.to = i + 1
         /\ AtCompact(o, text, i) => o.weight = 86 /\ o.from = i /\ o.to = i
<1>0. \A weight, from, to, code, rest :
        /\ Candidate(weight, from, to, code, rest).weight = weight
        /\ Candidate(weight, from, to, code, rest).from = from
        /\ Candidate(weight, from, to, code, rest).to = to
        /\ \A letter : LET l == Lettered(Candidate(weight, from, to, code, rest), letter)
                       IN  l.weight = weight /\ l.from = from /\ l.to = to
        /\ \A before : LET l == WithBefore(Candidate(weight, from, to, code, rest), before)
                       IN  l.weight = weight /\ l.from = from /\ l.to = to
  BY CandidateFields
<1>1. AtFc2(o, text, i) => o.weight = 95 /\ o.from = i /\ o.to \in Nat /\ o.to >= i
  <2> SUFFICES ASSUME AtFc2(o, text, i)
               PROVE  o.weight = 95 /\ o.from = i /\ o.to \in Nat /\ o.to >= i
    OBVIOUS
  <2>1. PICK m \in Fc2Marks(text) :
          /\ m.from = i
          /\ \/ \E code, rest : o = Candidate(95, i, m.to, code, rest)
             \/ \E code, rest : o = Candidate(95, i, m.to + 1, code, rest)
    BY Zenon DEF AtFc2
  <2>3. o.weight = 95 /\ o.from = i /\ (o.to = m.to \/ o.to = m.to + 1)
    BY <1>0, <2>1
  <2>4. m.from \in 1..Len(text) /\ m.to \in 1..Len(text) /\ (m.to = m.from \/ m.to = m.from + 1)
    BY MarkFacts
  <2>5. Len(text) \in Nat
    BY DEF IsSequence
  <2> QED
    BY <2>1, <2>3, <2>4, <2>5
<1>2. AtNumeric(o, text, i) => o.weight = 78 /\ o.from = i /\ o.to = i + 1
  <2>1. AtNumeric(o, text, i) =>
          \E code, rest, before : o = WithBefore(Candidate(78, i, i + 1, code, rest), before)
    BY Zenon DEF AtNumeric
  <2> QED
    BY <1>0, <2>1
<1>3. AtMixed(o, text, i) => o.weight = 92 /\ o.from = i /\ o.to = i + 1
  BY CandidateFields DEF AtMixed
<1>4. AtGlued(o, text, i) => o.weight = 92 /\ o.from = i /\ o.to = i
  BY CandidateFields DEF AtGlued
<1>5. AtLettered(o, text, i) => o.weight = 90 /\ o.from = i /\ o.to = i
  BY CandidateFields DEF AtLettered
<1>6. AtLetterBehind(o, text, i) => o.weight = 90 /\ o.from = i /\ o.to = i + 1
  BY CandidateFields DEF AtLetterBehind
<1>7. AtStandard(o, text, i) => o.weight = 92 /\ o.from = i /\ o.to = i + 1
  BY CandidateFields DEF AtStandard
<1>8. AtCompact(o, text, i) => o.weight = 86 /\ o.from = i /\ o.to = i
  BY CandidateFields DEF AtCompact
<1> QED
  BY <1>1, <1>2, <1>3, <1>4, <1>5, <1>6, <1>7, <1>8

LEMMA NumberWord ==
  ASSUME NEW w, NEW a, NEW b, IsNumber(w, a, b)
  PROVE  /\ w.kind = "plain" /\ w.lead = None /\ w.letters = None /\ w.last = None
         /\ w.lead.size = 0 /\ w.letters.size = 0 /\ w.last.size = 0
         /\ w.letters.text = "" /\ w.digits.size \in a..b /\ ~IsLetters(w)
<1>1. w.kind = "plain" /\ w.lead = None /\ w.letters = None /\ w.last = None /\ w.digits.size \in a..b
  BY DEF IsNumber
<1>2. w.lead.size = 0 /\ w.letters.size = 0 /\ w.last.size = 0 /\ w.letters.text = ""
  BY <1>1, NoneFacts
<1>3. ~IsLetters(w)
  <2>1. IsLetters(w) => w.letters.size > 0
    BY DEF IsLetters
  <2>2. ~(0 > 0)
    OBVIOUS
  <2> QED
    BY <1>2, <2>1, <2>2, Zenon
<1> QED
  BY <1>1, <1>2, <1>3

LEMMA MarkWord ==
  /\ FC.kind = "plain" /\ FC.lead = None /\ FC.letters # None /\ FC.digits # None /\ FC.last = None
  /\ PPV.letters # None /\ PPV.letters = Part("PPV", 3)
BY DEF FC, PPV, Plain, Part, None

\* A number starts no code but one of two numbers, letters none at all alone.
LEMMA NumberStarts ==
  ASSUME NEW text, IsSequence(text), NEW o, NEW i, IsNumber(Word(text, i), 1, 8)
  PROVE  /\ ~AtFc2(o, text, i) /\ ~AtMixed(o, text, i) /\ ~AtGlued(o, text, i)
         /\ ~AtLettered(o, text, i) /\ ~AtLetterBehind(o, text, i)
         /\ ~AtStandard(o, text, i) /\ ~AtCompact(o, text, i)
<1> DEFINE w == Word(text, i)
<1>1. w.lead.size = 0 /\ w.letters.size = 0 /\ w.last.size = 0 /\ w.letters = None /\ w.kind = "plain"
  BY NumberWord, Zenon
<1>2. ~AtFc2(o, text, i)
  <2> SUFFICES ASSUME AtFc2(o, text, i) PROVE FALSE
    OBVIOUS
  <2>1. PICK m \in Fc2Marks(text) : m.from = i
    BY Zenon DEF AtFc2
  <2>2. w.kind = "fc2" \/ w = FC
    BY <2>1, MarkFacts
  <2>3. "plain" # "fc2"
    OBVIOUS
  <2> QED
    BY <1>1, <2>2, <2>3, MarkWord, Zenon
<1>0. 0 \notin 2..4 /\ 0 \notin 2..8 /\ 0 \notin 2..12 /\ 0 # 1
  OBVIOUS
<1>5. ~IsMixed(w) /\ ~IsLabel(w) /\ ~IsCompact(w) /\ ~IsLettered(w)
  BY <1>0, <1>1, Zenon DEF IsMixed, IsLabel, IsCompact, IsLettered
<1>6. ~IsMixed([w EXCEPT !.digits = None])
  <2>1. [w EXCEPT !.digits = None].lead = w.lead
    OBVIOUS
  <2> HIDE DEF w
  <2> QED
    BY <1>0, <1>1, <2>1, Zenon DEF IsMixed
<1>3. ~AtMixed(o, text, i) /\ ~AtStandard(o, text, i) /\ ~AtCompact(o, text, i) /\ ~AtGlued(o, text, i)
  BY <1>5, <1>6, Zenon DEF AtMixed, AtStandard, AtCompact, AtGlued
<1>4. ~AtLettered(o, text, i) /\ ~AtLetterBehind(o, text, i)
  BY <1>5, Zenon DEF AtLettered, AtLetterBehind
<1> QED
  BY <1>2, <1>3, <1>4

LEMMA LettersStart ==
  ASSUME NEW text, IsSequence(text), NEW o, NEW i, IsLetters(Word(text, i))
  PROVE  /\ ~AtFc2(o, text, i) /\ ~AtNumeric(o, text, i) /\ ~AtMixed(o, text, i)
         /\ ~AtGlued(o, text, i) /\ ~AtLettered(o, text, i) /\ ~AtCompact(o, text, i)
<1> DEFINE w == Word(text, i)
<1>1. /\ w.digits.size = 0 /\ w.last.size = 0 /\ w.lead.size = 0 /\ w.digits = None
      /\ w.kind = "plain"
  BY VariantWord DEF IsLetters
<1>0. 0 \notin 2..4 /\ 0 # 6 /\ 0 \notin 3..9 /\ 0 \notin 3..5 /\ 0 \notin 1..5
  OBVIOUS
<1>3. ~AtFc2(o, text, i)
  <2> SUFFICES ASSUME AtFc2(o, text, i) PROVE FALSE
    OBVIOUS
  <2>1. PICK m \in Fc2Marks(text) : m.from = i
    BY Zenon DEF AtFc2
  <2>2. w.kind = "fc2" \/ w = FC
    BY <2>1, MarkFacts
  <2>3. "plain" # "fc2"
    OBVIOUS
  <2> QED
    BY <1>1, <2>2, <2>3, MarkWord, Zenon
<1>4. ~AtNumeric(o, text, i)
  BY <1>0, <1>1, Zenon DEF AtNumeric
<1>5. ~AtMixed(o, text, i) /\ ~AtGlued(o, text, i)
  BY <1>0, <1>1, Zenon DEF AtMixed, IsMixed, AtGlued
<1>6. ~AtLettered(o, text, i)
  BY <1>0, <1>1, Zenon DEF AtLettered, IsLettered
<1>7. ~AtCompact(o, text, i)
  BY <1>0, <1>1, Zenon DEF AtCompact, IsCompact
<1> QED
  BY <1>3, <1>4, <1>5, <1>6, <1>7

\* Behind word n there are at most a part and a variant.
Behind(text, n) ==
  /\ IsSequence(text) /\ n \in Nat /\ n >= 1 /\ n <= Len(text)
  /\ \A k \in (n + 1)..Len(text) :
       /\ text[k].sep = "-"
       /\ \/ IsNumber(Word(text, k), 1, 3)
          \/ IsLetters(Word(text, k)) /\ \A l \in k..Len(text) : IsLetters(Word(text, l))

LEMMA NothingStartsBehind ==
  ASSUME NEW text, NEW n, Behind(text, n), NEW o \in Candidates(text)
  PROVE  \/ \E i \in 1..(Len(text) - 1) :
               i <= n /\ (\/ (i < n /\ AtNumeric(o, text, i)) \/ AtMixed(o, text, i)
                          \/ AtLetterBehind(o, text, i) \/ AtStandard(o, text, i))
         \/ \E i \in 1..Len(text) :
               i <= n /\ (\/ AtFc2(o, text, i) \/ AtGlued(o, text, i)
                          \/ AtLettered(o, text, i) \/ AtCompact(o, text, i))
<1>1. n \in Nat /\ Len(text) \in Nat /\ IsSequence(text)
  BY DEF Behind, IsSequence
<1>2. ASSUME NEW i \in 1..Len(text), i > n
      PROVE  /\ ~AtFc2(o, text, i) /\ ~AtMixed(o, text, i) /\ ~AtGlued(o, text, i)
             /\ ~AtLettered(o, text, i) /\ ~AtCompact(o, text, i)
             /\ i <= Len(text) - 1 => ~AtLetterBehind(o, text, i) /\ ~AtStandard(o, text, i)
  <2>1. i \in (n + 1)..Len(text)
    BY <1>1, <1>2
  <2>2. CASE IsNumber(Word(text, i), 1, 3)
    <3>1. IsNumber(Word(text, i), 1, 8)
      BY <2>2 DEF IsNumber
    <3> QED
      BY <1>1, <3>1, NumberStarts
  <2>3. CASE IsLetters(Word(text, i)) /\ \A l \in i..Len(text) : IsLetters(Word(text, l))
    <3>1. i <= Len(text) - 1 => IsLetters(Word(text, i + 1))
      BY <1>1, <2>3
    <3>2. IsLetters(Word(text, i + 1)) => ~AtLetterBehind(o, text, i) /\ ~AtStandard(o, text, i)
      <4> SUFFICES ASSUME IsLetters(Word(text, i + 1))
                   PROVE  ~AtLetterBehind(o, text, i) /\ ~AtStandard(o, text, i)
        OBVIOUS
      <4>1. Word(text, i + 1).lead.size = 0 /\ 0 \notin 3..5
        BY VariantWord
      <4>2. ~IsNumber(Word(text, i + 1), 1, 8)
        BY NumberWord, Zenon
      <4> QED
        BY <4>1, <4>2, Zenon DEF AtLetterBehind, AtStandard
    <3> QED
      BY <1>1, <2>3, <3>1, <3>2, LettersStart
  <2> QED
    BY <2>1, <2>2, <2>3 DEF Behind
<1>3. ASSUME NEW i \in 1..(Len(text) - 1), i >= n PROVE ~AtNumeric(o, text, i)
  <2>1. text[i + 1].sep = "-"
    BY <1>1, <1>3 DEF Behind
  <2> QED
    BY <2>1, Zenon DEF AtNumeric, Underscore
<1>4. /\ \A i \in 1..(Len(text) - 1) : i \in 1..Len(text) /\ i <= Len(text) - 1
      /\ \A i \in 1..Len(text) : i <= n <=> ~(i > n)
      /\ \A i \in 1..(Len(text) - 1) : i < n <=> ~(i >= n)
  BY <1>1
<1>6. CASE \E i \in 1..(Len(text) - 1) : AtNumeric(o, text, i)
  <2>1. PICK i \in 1..(Len(text) - 1) : AtNumeric(o, text, i)
    BY <1>6
  <2>2. i < n /\ i <= n
    BY <1>1, <1>3, <1>4, <2>1
  <2> QED
    BY <2>1, <2>2
<1>7. CASE \E i \in 1..(Len(text) - 1) : AtMixed(o, text, i) \/ AtLetterBehind(o, text, i) \/ AtStandard(o, text, i)
  BY <1>2, <1>4, <1>7
<1>8. CASE \E i \in 1..Len(text) : \/ AtFc2(o, text, i) \/ AtGlued(o, text, i)
                                   \/ AtLettered(o, text, i) \/ AtCompact(o, text, i)
  BY <1>2, <1>4, <1>8
<1> QED
  BY <1>1, <1>6, <1>7, <1>8, CandidateCases

\* A candidate that is more certain than all others: no other one is behind it.
IsOnly(c, text) ==
  /\ c \in Candidates(text)
  /\ \A o \in Candidates(text) : (o = c \/ o.weight < c.weight) /\ o.from <= c.to /\ o.to >= 1

LEMMA OnlyLabelled ==
  ASSUME NEW text, Behind(text, 2), text[2].sep = "-",
         IsLabel(Word(text, 1)), IsNumber(Word(text, 2), 1, 8),
         Word(text, 1).digits = None \/ Word(text, 2).digits.size > 2,
         ~IsNoisePrefix(Word(text, 1))
  PROVE  IsOnly(Candidate(92, 1, 2, Code("-", Word(text, 1), Word(text, 2)), From(text, 3)), text)
<1> DEFINE c == Candidate(92, 1, 2, Code("-", Word(text, 1), Word(text, 2)), From(text, 3))
           w1 == Word(text, 1)
           w2 == Word(text, 2)
<1>1. Len(text) \in Nat /\ Len(text) >= 2 /\ 1 \in 1..(Len(text) - 1) /\ IsSequence(text)
  BY DEF Behind, IsSequence
<1>2. c.weight = 92 /\ c.from = 1 /\ c.to = 2 /\ c.code[1].word = w1
  <2>1. \A a, b : Code("-", a, b)[1].word = a
    BY DEF Code, Piece
  <2> QED
    BY <2>1, CandidateFields
<1>3. c \in Candidates(text)
  <2>1. 1 + 1 = 2 /\ 1 + 2 = 3 /\ Joined(text, 2)
    BY <1>1 DEF Joined, Joints, Separators
  <2>2. c \in Standard(text)
    BY <1>1, <2>1, Zenon DEF Standard
  <2> QED
    BY <1>2, <2>2 DEF Candidates
<1>4. /\ w2.lead.size = 0 /\ w2.letters = None
      /\ w1.lead.size = 0 /\ w1.last.size = 0 /\ w1.kind = "plain"
  <2>1. w2.lead.size = 0 /\ w2.letters = None
    BY NumberWord, Zenon
  <2>2. w1.lead = None /\ w1.last = None /\ w1.kind = "plain"
    BY DEF IsLabel
  <2> QED
    BY <2>1, <2>2, NoneFacts
<1>5. /\ \A i \in 1..Len(text) : i <= 2 => i = 1 \/ i = 2
      /\ \A i \in 1..(Len(text) - 1) : i <= 2 => i = 1 \/ i = 2
  BY <1>1
<1>6. ASSUME NEW o
      PROVE  /\ ~AtFc2(o, text, 2) /\ ~AtMixed(o, text, 2) /\ ~AtGlued(o, text, 2)
             /\ ~AtLettered(o, text, 2) /\ ~AtLetterBehind(o, text, 2)
             /\ ~AtStandard(o, text, 2) /\ ~AtCompact(o, text, 2)
  BY <1>1, NumberStarts
<1>0. /\ 1 + 1 = 2 /\ 1 + 2 = 3 /\ 0 \notin 2..4 /\ 0 \notin 3..5 /\ 0 # 1
      /\ "plain" # "fc2" /\ "-" # " "
  OBVIOUS
<1>7. ASSUME NEW o
      PROVE  /\ ~AtFc2(o, text, 1) /\ ~AtNumeric(o, text, 1) /\ ~AtMixed(o, text, 1)
             /\ ~AtGlued(o, text, 1) /\ ~AtLettered(o, text, 1) /\ ~AtLetterBehind(o, text, 1)
             /\ AtStandard(o, text, 1) => o = c
  <2>1. ~AtFc2(o, text, 1)
    <3> SUFFICES ASSUME AtFc2(o, text, 1) PROVE FALSE
      OBVIOUS
    <3>1. PICK m \in Fc2Marks(text) : m.from = 1
      BY Zenon DEF AtFc2
    <3>4. \/ Word(text, 1).kind = "fc2"
          \/ m.to = 1 + 1 /\ LettersOf(Word(text, m.to)) = PPV
      BY <1>1, <3>1, MarkFacts
    <3>2. m.to = 1 + 1 /\ LettersOf(Word(text, m.to)) = PPV
      BY <1>0, <1>4, <3>4, Zenon
    <3>3. LettersOf(w2).letters = None
      BY <1>4 DEF LettersOf, Plain
    <3> QED
      BY <1>0, <3>2, <3>3, MarkWord
  <2>2. ~AtNumeric(o, text, 1)
    BY <1>0, Zenon DEF AtNumeric, Underscore
  <2>3. ~AtMixed(o, text, 1) /\ ~AtGlued(o, text, 1)
    <3>1. [w1 EXCEPT !.digits = None].lead = w1.lead
      OBVIOUS
    <3> QED
      BY <1>0, <1>4, <3>1, Zenon DEF AtMixed, IsMixed, AtGlued
  <2>4. ~AtLettered(o, text, 1)
    BY <1>0, <1>4, Zenon DEF AtLettered, IsLettered
  <2>5. ~AtLetterBehind(o, text, 1)
    BY <1>0, <1>4, Zenon DEF AtLetterBehind
  <2>6. AtStandard(o, text, 1) => o = c
    BY <1>0, Zenon DEF AtStandard
  <2> QED
    BY <2>1, <2>2, <2>3, <2>4, <2>5, <2>6
<1> HIDE DEF c, w1, w2
<1>8. ASSUME NEW o \in Candidates(text)
      PROVE  (o = c \/ o.weight < c.weight) /\ o.from <= c.to /\ o.to >= 1
  <2>1. AtStandard(o, text, 1) \/ AtCompact(o, text, 1)
    <3>1. ~(1 > 2) /\ ~(2 < 2) /\ \A i \in 1..(Len(text) - 1) : i < 2 => i = 1
      BY <1>1
    <3> QED
      BY <1>5, <1>6, <1>7, <3>1, NothingStartsBehind
  <2>2. CASE AtStandard(o, text, 1)
    BY <1>2, <1>7, <2>2
  <2>3. CASE AtCompact(o, text, 1)
    BY <1>1, <1>2, <2>3, StartOf
  <2> QED
    BY <2>1, <2>2, <2>3
<1>9. IsOnly(c, text)
  BY <1>3, <1>8 DEF IsOnly
<1> QED
  BY <1>9 DEF c

LEMMA OnlyMixed ==
  ASSUME NEW text, Behind(text, 2), text[2].sep = "-",
         IsMixed(Word(text, 1)), IsNumber(Word(text, 2), 1, 5), ~IsNoisePrefix(Word(text, 1))
  PROVE  IsOnly(Candidate(92, 1, 2, Code("-", Word(text, 1), Word(text, 2)), From(text, 3)), text)
<1> DEFINE c == Candidate(92, 1, 2, Code("-", Word(text, 1), Word(text, 2)), From(text, 3))
           w1 == Word(text, 1)
           w2 == Word(text, 2)
<1>1. Len(text) \in Nat /\ Len(text) >= 2 /\ 1 \in 1..(Len(text) - 1) /\ IsSequence(text)
  BY DEF Behind, IsSequence
<1>2. c.weight = 92 /\ c.from = 1 /\ c.to = 2 /\ c.code[1].word = w1
  <2>1. \A a, b : Code("-", a, b)[1].word = a
    BY DEF Code, Piece
  <2> QED
    BY <2>1, CandidateFields
<1>3. c \in Candidates(text)
  <2>1. 1 + 1 = 2 /\ 1 + 2 = 3 /\ Joined(text, 2)
    BY <1>1 DEF Joined, Joints, Separators
  <2>2. c \in MixedPrefix(text)
    BY <1>1, <2>1, Zenon DEF MixedPrefix
  <2> QED
    BY <1>2, <2>2 DEF Candidates
<1>0. /\ 1 + 1 = 2 /\ 1 + 2 = 3 /\ 0 \notin 2..4 /\ 0 \notin 1..5 /\ 0 \notin 3..5 /\ 0 \notin 3..9
      /\ "plain" # "fc2" /\ "-" # " "
  OBVIOUS
<1>4. /\ w2.lead.size = 0 /\ IsNumber(w2, 1, 8)
      /\ w1.lead # None /\ w1.digits.size = 0 /\ w1.kind = "plain"
  <2>1. w2.lead.size = 0
    BY NumberWord, Zenon
  <2>2. IsNumber(w2, 1, 8)
    BY DEF IsNumber
  <2>3. w1.lead.size \in 2..4 /\ w1.digits = None /\ w1.kind = "plain"
    BY DEF IsMixed
  <2> QED
    BY <1>0, <2>1, <2>2, <2>3, NoneFacts, Zenon
<1>5. /\ \A i \in 1..Len(text) : i <= 2 => i = 1 \/ i = 2
      /\ \A i \in 1..(Len(text) - 1) : i <= 2 => i = 1 \/ i = 2
  BY <1>1
<1>6. ASSUME NEW o
      PROVE  /\ ~AtFc2(o, text, 2) /\ ~AtMixed(o, text, 2) /\ ~AtGlued(o, text, 2)
             /\ ~AtLettered(o, text, 2) /\ ~AtLetterBehind(o, text, 2)
             /\ ~AtStandard(o, text, 2) /\ ~AtCompact(o, text, 2)
  BY <1>1, <1>4, NumberStarts
<1>7. ASSUME NEW o
      PROVE  /\ ~AtFc2(o, text, 1) /\ ~AtNumeric(o, text, 1) /\ ~AtGlued(o, text, 1)
             /\ ~AtLettered(o, text, 1) /\ ~AtLetterBehind(o, text, 1)
             /\ ~AtStandard(o, text, 1) /\ ~AtCompact(o, text, 1)
             /\ AtMixed(o, text, 1) => o = c
  <2>1. ~AtFc2(o, text, 1)
    <3> SUFFICES ASSUME AtFc2(o, text, 1) PROVE FALSE
      OBVIOUS
    <3>1. PICK m \in Fc2Marks(text) : m.from = 1
      BY Zenon DEF AtFc2
    <3>2. Word(text, 1).kind = "fc2" \/ Word(text, 1) = FC
      BY <1>1, <3>1, MarkFacts
    <3> QED
      BY <1>0, <1>4, <3>2, MarkWord, Zenon
  <2>2. ~AtNumeric(o, text, 1)
    BY <1>0, Zenon DEF AtNumeric, Underscore
  <2>3. ~AtLettered(o, text, 1) /\ ~AtGlued(o, text, 1)
    BY <1>0, <1>4, Zenon DEF AtLettered, IsLettered, AtGlued
  <2>4. ~AtLetterBehind(o, text, 1) /\ ~AtStandard(o, text, 1)
    BY <1>4, Zenon DEF AtLetterBehind, AtStandard, IsLabel
  <2>5. ~AtCompact(o, text, 1)
    BY <1>4, Zenon DEF AtCompact, IsCompact
  <2>6. AtMixed(o, text, 1) => o = c
    BY <1>0, Zenon DEF AtMixed
  <2> QED
    BY <2>1, <2>2, <2>3, <2>4, <2>5, <2>6
<1> HIDE DEF c, w1, w2
<1>8. ASSUME NEW o \in Candidates(text)
      PROVE  (o = c \/ o.weight < c.weight) /\ o.from <= c.to /\ o.to >= 1
  <2>1. AtMixed(o, text, 1)
    <3>1. ~(1 > 2) /\ ~(2 < 2) /\ \A i \in 1..(Len(text) - 1) : i < 2 => i = 1
      BY <1>1
    <3> QED
      BY <1>5, <1>6, <1>7, <3>1, NothingStartsBehind
  <2> QED
    BY <1>2, <1>7, <2>1
<1>9. IsOnly(c, text)
  BY <1>3, <1>8 DEF IsOnly
<1> QED
  BY <1>9 DEF c

LEMMA OnlyNumeric ==
  ASSUME NEW text, Behind(text, 2), text[2].sep = Underscore,
         DigitsOf(Word(text, 1)) = Word(text, 1),
         IsNumber(Word(text, 1), 6, 6), IsNumber(Word(text, 2), 2, 4)
  PROVE  IsOnly(Candidate(78, 1, 2, Code(Underscore, Word(text, 1), Word(text, 2)), From(text, 3)), text)
<1> DEFINE c == Candidate(78, 1, 2, Code(Underscore, Word(text, 1), Word(text, 2)), From(text, 3))
           w1 == Word(text, 1)
           w2 == Word(text, 2)
<1>1. Len(text) \in Nat /\ Len(text) >= 2 /\ 1 \in 1..(Len(text) - 1) /\ IsSequence(text)
  BY DEF Behind, IsSequence
<1>2. c.weight = 78 /\ c.from = 1 /\ c.to = 2 /\ c.code[1].word = w1
  <2>1. \A a, b : Code(Underscore, a, b)[1].word = a
    BY DEF Code, Piece
  <2> QED
    BY <2>1, CandidateFields
<1>3. IsNumber(w1, 1, 8) /\ IsNumber(w2, 1, 8) /\ ~IsLetters(w1) /\ w2.lead = None
  <2>1. IsNumber(w1, 1, 8) /\ IsNumber(w2, 1, 8)
    BY DEF IsNumber
  <2> QED
    BY <2>1, NumberWord, Zenon
<1>4. /\ DigitsOf(w1) = w1 /\ Opening(w2) = w2 /\ BehindOpening(text, 2) = From(text, 3)
      /\ w1.kind \in Telling /\ w1.digits.size = 6 /\ w1.last = None /\ Opens(w2, 2, 4)
  <2>1. 2 + 1 = 3
    OBVIOUS
  <2>3. DigitsOf(w1) = w1
    OBVIOUS
  <2>4. Opening(w2) = w2 /\ BehindOpening(text, 2) = From(text, 3)
    BY <1>3, <2>1, Zenon DEF Opening, BehindOpening
  <2>5. w1.kind \in Telling /\ w1.digits.size = 6 /\ w1.last = None
    BY DEF IsNumber, Telling
  <2> QED
    BY <2>3, <2>4, <2>5 DEF Opens
<1>11. /\ \A o : AtNumeric(o, text, 1) => o = c
       /\ c = [Candidate(78, 1, 1 + 1, Code("_", DigitsOf(w1), Opening(w2)), BehindOpening(text, 1 + 1))
                 EXCEPT !.before = 1 > 1 \/ ~IsNumber(w1, 6, 6)]
  <2>1. 1 + 1 = 2 /\ ~(1 > 1) /\ (1 > 1) = FALSE
    OBVIOUS
  <2> PICK code, rest : code = Code(Underscore, w1, w2) /\ rest = From(text, 3)
    OBVIOUS
  <2>2. WithBefore(Candidate(78, 1, 2, code, rest), FALSE) = Candidate(78, 1, 2, code, rest)
    <3>1. Candidate(78, 1, 2, code, rest) = Found(78, 1, 2, FALSE, code, ParseTail(rest))
      BY <2>1, Zenon DEF Candidate
    <3> QED
      BY <3>1 DEF WithBefore, Found
  <2>3. c = Candidate(78, 1, 2, code, rest)
    BY Zenon
  <2>4. ASSUME NEW before, before = FALSE
        PROVE  WithBefore(Candidate(78, 1, 1 + 1, Code(Underscore, DigitsOf(w1), Opening(w2)),
                                    BehindOpening(text, 1 + 1)), before) = c
    BY <1>4, <2>1, <2>2, <2>3, <2>4, Zenon
  <2> PICK before : before = (1 > 1 \/ ~IsNumber(w1, 6, 6))
    OBVIOUS
  <2>5. before = FALSE
    BY <2>1
  <2>6. WithBefore(Candidate(78, 1, 1 + 1, Code(Underscore, DigitsOf(w1), Opening(w2)),
                                    BehindOpening(text, 1 + 1)), 1 > 1 \/ ~IsNumber(w1, 6, 6)) = c
    BY <2>4, <2>5, Zenon
  <2> HIDE DEF c
  <2> QED
    BY <2>1, <2>6, Zenon DEF AtNumeric, WithBefore, Underscore
<1>5. c \in Candidates(text)
  <2>1. 1 + 1 = 2
    OBVIOUS
  <2>2. c \in NumericUnderscore(text)
    <3> HIDE DEF c
    <3>1. /\ Word(text, 1).kind \in {"plain", "fc2"}
          /\ text[1 + 1].sep \in {"_", " "} /\ Opens(Word(text, 1 + 1), 2, 4)
      BY <1>4, <2>1, Zenon DEF Telling, Underscore
    <3> QED
      BY <1>1, <1>4, <1>11, <2>1, <3>1, Zenon DEF NumericUnderscore, NumericAt
  <2>3. ~IsNoisePrefix(w1)
    <3>1. w1.letters.size = 0
      BY NumberWord, Zenon
    <3>2. 0 \notin 2..12
      OBVIOUS
    <3> QED
      BY <1>3, <3>1, <3>2, Zenon DEF IsNoisePrefix, IsLabel
  <2> HIDE DEF c
  <2> QED
    BY <1>2, <2>2, <2>3 DEF Candidates
<1>6. /\ \A i \in 1..Len(text) : i <= 2 => i = 1 \/ i = 2
      /\ \A i \in 1..(Len(text) - 1) : i <= 2 => i = 1 \/ i = 2
  BY <1>1
<1>7. ASSUME NEW o, NEW i \in {1, 2}
      PROVE  /\ ~AtFc2(o, text, i) /\ ~AtMixed(o, text, i) /\ ~AtGlued(o, text, i)
             /\ ~AtLettered(o, text, i) /\ ~AtLetterBehind(o, text, i)
             /\ ~AtStandard(o, text, i) /\ ~AtCompact(o, text, i)
  <2>1. IsNumber(Word(text, i), 1, 8)
    BY <1>3
  <2> QED
    BY <1>1, <2>1, NumberStarts
<1> HIDE DEF c, w1, w2
<1>9. ASSUME NEW o \in Candidates(text)
      PROVE  (o = c \/ o.weight < c.weight) /\ o.from <= c.to /\ o.to >= 1
  <2>1. AtNumeric(o, text, 1)
    <3>1. ~(2 < 2) /\ \A i \in 1..(Len(text) - 1) : i < 2 => i = 1
      BY <1>1
    <3> QED
      BY <1>6, <1>7, <3>1, NothingStartsBehind
  <2>2. o = c
    BY <1>11, <2>1, Zenon
  <2> QED
    BY <1>2, <2>2
<1>10. IsOnly(c, text)
  BY <1>5, <1>9 DEF IsOnly
<1> QED
  BY <1>10 DEF c

LEMMA OnlyFc2 ==
  ASSUME NEW text, Behind(text, 3), text[2].sep = "-", text[3].sep = "-",
         Word(text, 1) = FC, Word(text, 2) = PPV, IsNumber(Word(text, 3), 5, 8), ~IsNoisePrefix(FC)
  PROVE  IsOnly(Candidate(95, 1, 3, Fc2Code(Word(text, 3)), From(text, 4)), text)
<1> DEFINE c == Candidate(95, 1, 3, Fc2Code(Word(text, 3)), From(text, 4))
           w3 == Word(text, 3)
<1>1. Len(text) \in Nat /\ Len(text) >= 3 /\ 1 \in 1..(Len(text) - 1) /\ IsSequence(text)
  BY DEF Behind, IsSequence
<1>0. /\ 1 + 1 = 2 /\ 2 + 1 = 3 /\ 3 + 1 = 4 /\ 0 \notin 3..5 /\ 0 \notin 2..4 /\ 0 \notin 5..8
      /\ "plain" # "fc2" /\ "-" # " "
  OBVIOUS
<1>2. c.weight = 95 /\ c.from = 1 /\ c.to = 3 /\ c.code[1].word = FC
  <2>1. \A w : Fc2Code(w)[1].word = FC
    BY DEF Fc2Code, Piece
  <2> QED
    BY <2>1, CandidateFields
<1>4. /\ FC.lead.size = 0 /\ PPV.lead.size = 0 /\ PPV.lead = None /\ PPV.digits = None
      /\ PPV.kind = "plain" /\ PPV.digits.size = 0 /\ LettersOf(PPV) = PPV /\ IsLetters(PPV)
      /\ w3.lead.size = 0 /\ w3.lead = None /\ IsNumber(w3, 1, 8) /\ ~IsNumber(PPV, 1, 8)
      /\ ~IsNumber(PPV, 1, 5)
  <2>1. w3.lead.size = 0 /\ w3.lead = None
    BY NumberWord, Zenon
  <2>2. IsNumber(w3, 1, 8)
    BY DEF IsNumber
  <2>3. /\ PPV.lead = None /\ PPV.digits = None /\ PPV.kind = "plain" /\ PPV.last = None
        /\ LettersOf(PPV) = PPV /\ PPV.letters.size = 3
    BY DEF PPV, LettersOf, Plain, Part
  <2>4. IsLetters(PPV)
    BY <2>3 DEF IsLetters
  <2>5. FC.lead = None
    BY DEF FC, Plain
  <2>6. ~IsNumber(PPV, 1, 8) /\ ~IsNumber(PPV, 1, 5)
    BY <2>4, NumberWord, Zenon
  <2> QED
    BY <2>1, <2>2, <2>3, <2>4, <2>5, <2>6, NoneFacts, Zenon
<1>9. /\ Opening(w3) = w3 /\ BehindOpening(text, 3) = From(text, 4)
      /\ Joined(text, 2) /\ Joined(text, 3)
  <2>1. Joined(text, 2) /\ Joined(text, 3)
    BY <1>1 DEF Joined, Joints, Separators
  <2> QED
    BY <1>0, <1>4, <2>1, Zenon DEF Opening, BehindOpening
<1>3. c \in Candidates(text)
  <2> PICK m : m = [from |-> 1, to |-> 1 + 1]
    OBVIOUS
  <2>1. m \in Fc2Marks(text)
    BY <1>0, <1>1, <1>4, <1>9, Zenon DEF Fc2Marks
  <2>2. m.from = 1 /\ m.to = 2
    OBVIOUS
  <2>3. Opens(Word(text, 3), 5, 8)
    BY DEF Opens
  <2>4. c = Candidate(95, m.from, m.to + 1, Fc2Code(Opening(Word(text, m.to + 1))),
                      BehindOpening(text, m.to + 1))
    BY <1>0, <1>9, <2>2, Zenon
  <2>5. Word(text, m.to).digits = None /\ Joined(text, m.to + 1) /\ Opens(Word(text, m.to + 1), 5, 8)
    BY <1>0, <1>4, <1>9, <2>2, <2>3, Zenon
  <2>6. c \in Fc2(text)
    <3> HIDE DEF c
    <3> QED
      BY <2>1, <2>4, <2>5, Zenon DEF Fc2
  <2> QED
    BY <1>2, <2>6 DEF Candidates
<1>5. /\ \A i \in 1..Len(text) : i <= 3 => i = 1 \/ i = 2 \/ i = 3
      /\ \A i \in 1..(Len(text) - 1) : i <= 3 => i = 1 \/ i = 2 \/ i = 3
      /\ \A i \in 1..(Len(text) - 1) : i < 3 => i = 1 \/ i = 2
  BY <1>1
<1>6. ASSUME NEW o
      PROVE  /\ ~AtFc2(o, text, 3) /\ ~AtMixed(o, text, 3) /\ ~AtGlued(o, text, 3)
             /\ ~AtLettered(o, text, 3) /\ ~AtLetterBehind(o, text, 3)
             /\ ~AtStandard(o, text, 3) /\ ~AtCompact(o, text, 3)
  BY <1>1, <1>4, NumberStarts
<1>7. ASSUME NEW o
      PROVE  /\ ~AtFc2(o, text, 2) /\ ~AtNumeric(o, text, 2) /\ ~AtMixed(o, text, 2)
             /\ ~AtGlued(o, text, 2)
             /\ ~AtLettered(o, text, 2) /\ ~AtLetterBehind(o, text, 2) /\ ~AtCompact(o, text, 2)
  <2>1. ~AtLetterBehind(o, text, 2)
    BY <1>0, <1>4, Zenon DEF AtLetterBehind
  <2> QED
    BY <1>1, <1>4, <2>1, LettersStart
<1>8. ASSUME NEW o
      PROVE  /\ ~AtNumeric(o, text, 1) /\ ~AtMixed(o, text, 1) /\ ~AtGlued(o, text, 1)
             /\ ~AtLetterBehind(o, text, 1) /\ ~AtStandard(o, text, 1)
             /\ AtFc2(o, text, 1) => o = c
  <2>1. ~AtNumeric(o, text, 1)
    BY <1>0, Zenon DEF AtNumeric, Underscore
  <2>2. ~AtMixed(o, text, 1) /\ ~AtStandard(o, text, 1)
    BY <1>0, <1>4, Zenon DEF AtMixed, AtStandard
  <2>3. ~AtLetterBehind(o, text, 1)
    BY <1>0, <1>4, Zenon DEF AtLetterBehind
  <2>4. ~AtGlued(o, text, 1)
    <3>1. [FC EXCEPT !.digits = None].lead = FC.lead
      BY DEF FC, Plain
    <3> QED
      BY <1>0, <1>4, <3>1, Zenon DEF AtGlued, IsMixed
  <2>5. AtFc2(o, text, 1) => o = c
    <3> SUFFICES ASSUME AtFc2(o, text, 1) PROVE o = c
      OBVIOUS
    <3>1. PICK m \in Fc2Marks(text) :
            /\ m.from = 1
            /\ \/ Word(text, m.to).digits.size \in 5..8
               \/ o = Candidate(95, 1, m.to + 1, Fc2Code(Opening(Word(text, m.to + 1))),
                                BehindOpening(text, m.to + 1))
      BY Zenon DEF AtFc2
    <3>2. Word(text, 1).kind = "fc2" \/ m.to = 1 + 1
      BY <1>1, <3>1, MarkFacts
    <3>3. m.to = 2
      BY <1>0, <3>2, MarkWord, Zenon
    <3>4. Word(text, m.to).digits.size \notin 5..8
      BY <1>0, <1>4, <3>3, Zenon
    <3> QED
      BY <1>0, <1>9, <3>1, <3>3, <3>4, Zenon
  <2> QED
    BY <2>1, <2>2, <2>3, <2>4, <2>5
<1> HIDE DEF c, w3
<1>10. ASSUME NEW o \in Candidates(text)
       PROVE  (o = c \/ o.weight < c.weight) /\ o.from <= c.to /\ o.to >= 1
  <2>1. \/ AtFc2(o, text, 1) \/ AtLettered(o, text, 1) \/ AtCompact(o, text, 1)
        \/ AtStandard(o, text, 2)
    BY <1>5, <1>6, <1>7, <1>8, NothingStartsBehind
  <2>2. CASE AtFc2(o, text, 1)
    BY <1>2, <1>8, <2>2
  <2>3. CASE AtLettered(o, text, 1) \/ AtCompact(o, text, 1)
    BY <1>1, <1>2, <2>3, StartOf
  <2>4. CASE AtStandard(o, text, 2)
    BY <1>1, <1>2, <2>4, StartOf
  <2> QED
    BY <2>1, <2>2, <2>3, <2>4
<1>11. IsOnly(c, text)
  BY <1>3, <1>10 DEF IsOnly
<1> QED
  BY <1>11 DEF c

-----------------------------------------------------------------------------
(* The rules are content with the names they suggest.                      *)

IsTongue(language, ext) ==
  \/ language = <<>>
  \/ \E p : /\ language = <<p>> /\ ext \in SubtitleExtensions
            /\ p.sep = "." /\ IsLetters(p.word) /\ p.word.letters.text \in Languages
  \/ \E p, q : /\ language = <<p, q>> /\ ext \in SubtitleExtensions
               /\ p.sep = "." /\ IsLetters(p.word) /\ p.word.letters.text \in {"ZH"}
               /\ q.sep \in {"-", Underscore}
               /\ IsLetters(q.word) /\ q.word.letters.text \in Regions

LEMMA PieceFields == \A sep, w : Piece(sep, w).sep = sep /\ Piece(sep, w).word = w
BY DEF Piece

LEMMA CodePieces ==
  ASSUME NEW code, IsLabelled(code) \/ IsMixedCode(code) \/ IsNumeric(code) \/ IsFc2(code)
  PROVE  \/ \E p1, p2 : code = <<p1, p2>>
         \/ \E p1, p2, p3 : code = <<p1, p2, p3>>
<1>1. \A sep, w1, w2 : \E p1, p2 : Code(sep, w1, w2) = <<p1, p2>>
  BY Zenon DEF Code
<1>2. CASE IsLabelled(code)
  <2>1. PICK sep, w1, w2 : code = Code(sep, w1, w2)
    BY <1>2 DEF IsLabelled
  <2> QED
    BY <1>1, <2>1
<1>3. CASE IsMixedCode(code)
  <2>1. PICK sep, w1, w2 : code = Code(sep, w1, w2)
    BY <1>3 DEF IsMixedCode
  <2> QED
    BY <1>1, <2>1
<1>4. CASE IsNumeric(code)
  <2>1. PICK sep, w1, w2 : code = Code(sep, w1, w2)
    BY <1>4 DEF IsNumeric
  <2> QED
    BY <1>1, <2>1
<1>5. CASE IsFc2(code)
  BY <1>5, Zenon DEF IsFc2, Fc2Code
<1> QED
  BY <1>2, <1>3, <1>4, <1>5

LEMMA FewPieces ==
  ASSUME NEW s,
         \/ s = <<>>
         \/ \E p : s = <<p>>
         \/ \E p, q : s = <<p, q>>
         \/ \E p, q, r : s = <<p, q, r>>
  PROVE  \E S : s \in Seq(S)
<1>1. /\ \A p : <<p>> \in Seq({p})
      /\ \A p, q : <<p, q>> \in Seq({p, q})
      /\ \A p, q, r : <<p, q, r>> \in Seq({p, q, r})
  OBVIOUS
<1>2. \A S : <<>> \in Seq(S)
  OBVIOUS
<1>3. CASE s = <<>>
  BY <1>2, <1>3
<1>4. CASE \E p : s = <<p>>
  BY <1>1, <1>4, Zenon
<1>5. CASE \E p, q : s = <<p, q>>
  <2>1. PICK p, q : s = <<p, q>>
    BY <1>5
  <2>2. s \in Seq({p, q})
    BY <2>1
  <2> QED
    BY <2>2
<1>6. CASE \E p, q, r : s = <<p, q, r>>
  <2>1. PICK p, q, r : s = <<p, q, r>>
    BY <1>6
  <2>2. s \in Seq({p, q, r})
    BY <2>1
  <2> QED
    BY <2>2
<1> QED
  BY <1>3, <1>4, <1>5, <1>6, Zenon

\* The pieces of a suggested name are sequences over one set.
LEMMA OneSet ==
  ASSUME NEW code, NEW part, NEW variant, NEW language, NEW ext,
         IsLabelled(code) \/ IsMixedCode(code) \/ IsNumeric(code) \/ IsFc2(code),
         IsPart(part), IsVariant(variant), IsTongue(language, ext)
  PROVE  \E S : code \in Seq(S) /\ part \in Seq(S) /\ variant \in Seq(S) /\ language \in Seq(S)
<1>1. PICK S1 : code \in Seq(S1)
  <2>1. \E S : code \in Seq(S)
    BY CodePieces, FewPieces
  <2> QED
    BY <2>1
<1>2. PICK S2 : part \in Seq(S2)
  <2>1. part = <<>> \/ \E p : part = <<p>>
    BY Zenon DEF IsPart, Suffix
  <2> QED
    BY <2>1, FewPieces
<1>3. PICK S3 : variant \in Seq(S3)
  BY VariantRead, Zenon
<1>4. PICK S4 : language \in Seq(S4)
  <2>1. language = <<>> \/ (\E p : language = <<p>>) \/ (\E p, q : language = <<p, q>>)
    BY Zenon DEF IsTongue
  <2> QED
    BY <2>1, FewPieces
<1> PICK T : T = S1 \cup S2 \cup S3 \cup S4
  OBVIOUS
<1>5. ASSUME NEW S, S \subseteq T, NEW s \in Seq(S) PROVE s \in Seq(T)
  BY <1>5
<1>6. S1 \subseteq T /\ S2 \subseteq T /\ S3 \subseteq T /\ S4 \subseteq T
  OBVIOUS
<1>7. code \in Seq(T) /\ part \in Seq(T) /\ variant \in Seq(T) /\ language \in Seq(T)
  BY <1>1, <1>2, <1>3, <1>4, <1>5, <1>6, Zenon
<1> QED
  BY <1>7

LEMMA RestShape ==
  ASSUME NEW part, NEW variant, IsPart(part), IsVariant(variant), NEW k \in 1..Len(part \o variant)
  PROVE  /\ (part \o variant)[k].sep = "-"
         /\ \/ IsNumber(Word(part \o variant, k), 1, 3)
            \/ /\ IsLetters(Word(part \o variant, k))
               /\ \A l \in k..Len(part \o variant) : IsLetters(Word(part \o variant, l))
<1>1. PICK S : variant \in Seq(S) /\ \A p \in S : p.sep = "-" /\ IsLetters(p.word)
  BY VariantRead, Zenon
<1>2. Len(variant) \in Nat
  BY <1>1
<1>3. \A l \in 1..Len(variant) : variant[l].sep = "-" /\ IsLetters(variant[l].word)
  <2>1. \A l \in 1..Len(variant) : variant[l] \in S
    BY <1>1
  <2> QED
    BY <1>1, <2>1
<1>4. CASE part = <<>>
  <2>1. part \o variant = variant
    BY <1>1, <1>4, ConcatEmptySeq
  <2>2. \A l \in k..Len(variant) : l \in 1..Len(variant)
    BY <1>2, <2>1
  <2>3. k \in 1..Len(variant)
    BY <2>1
  <2> QED
    BY <1>3, <2>1, <2>2, <2>3, Zenon DEF Word
<1>5. CASE part # <<>>
  <2>1. PICK d : part = Suffix(Plain(None, None, d, None)) /\ d.size \in 1..3
    BY <1>5 DEF IsPart
  <2> DEFINE p == Plain(None, None, d, None)
             rest == part \o variant
  <2>2. IsNumber(p, 1, 3)
    BY <2>1, PartWord
  <2> HIDE DEF p
  <2>3. part = <<Piece("-", p)>>
    BY <2>1 DEF p, Suffix
  <2>4. /\ Len(rest) = Len(variant) + 1 /\ rest[1] = Piece("-", p)
        /\ \A l \in 2..Len(rest) : l - 1 \in 1..Len(variant) /\ rest[l] = variant[l - 1]
    <3>1. \A q : LET r == <<q>> \o variant
                 IN  /\ Len(r) = Len(variant) + 1 /\ r[1] = q
                     /\ \A l \in 2..Len(r) : l - 1 \in 1..Len(variant) /\ r[l] = variant[l - 1]
      BY <1>1
    <3> QED
      BY <2>3, <3>1, Zenon
  <2> HIDE DEF rest
  <2>5. \A l \in 2..Len(rest) : rest[l].sep = "-" /\ IsLetters(Word(rest, l))
    BY <1>3, <2>4, Zenon DEF Word
  <2>6. rest[1].sep = "-" /\ IsNumber(Word(rest, 1), 1, 3)
    <3>1. Piece("-", p).sep = "-" /\ Piece("-", p).word = p
      BY PieceFields
    <3> QED
      BY <2>2, <2>4, <3>1, Zenon DEF Word
  <2>7. k = 1 \/ (k \in 2..Len(rest) /\ \A l \in k..Len(rest) : l \in 2..Len(rest))
    <3>1. k \in 1..Len(rest) /\ Len(rest) \in Nat
      BY <1>2, <2>4 DEF rest
    <3> QED
      BY <3>1
  <2>8. /\ rest[k].sep = "-"
        /\ \/ IsNumber(Word(rest, k), 1, 3)
           \/ IsLetters(Word(rest, k)) /\ \A l \in k..Len(rest) : IsLetters(Word(rest, l))
    BY <2>5, <2>6, <2>7, Zenon
  <2> QED
    BY <2>8 DEF rest
<1> QED
  BY <1>4, <1>5

\* How a suggested name without its language is made up.
LEMMA Assembled ==
  ASSUME NEW S, NEW code \in Seq(S), NEW part \in Seq(S), NEW variant \in Seq(S),
         Len(code) >= 1, IsPart(part), IsVariant(variant)
  PROVE  LET text == code \o part \o variant
         IN  /\ text \in Seq(S) /\ Behind(text, Len(code))
             /\ \A k \in 1..Len(code) : text[k] = code[k]
             /\ From(text, Len(code) + 1) = part \o variant
<1> DEFINE rest == part \o variant
           text == code \o rest
<1>1. code \o part \o variant = text
  BY ConcatAssociative
<1>2. rest \in Seq(S)
  OBVIOUS
<1>3. \A k \in 1..Len(rest) :
        /\ rest[k].sep = "-"
        /\ \/ IsNumber(Word(rest, k), 1, 3)
           \/ IsLetters(Word(rest, k)) /\ \A l \in k..Len(rest) : IsLetters(Word(rest, l))
  BY RestShape
<1> HIDE DEF rest
<1>4. /\ text \in Seq(S) /\ Len(text) = Len(code) + Len(rest)
      /\ Len(code) \in Nat /\ Len(rest) \in Nat
      /\ \A k \in 1..Len(code) : text[k] = code[k]
      /\ \A k \in 1..Len(rest) : text[Len(code) + k] = rest[k]
  BY <1>2, Concat
<1>5. From(text, Len(code) + 1) = rest
  BY <1>2, FromBehind
<1> HIDE DEF text
<1>8. \A k \in (Len(code) + 1)..Len(text) :
        /\ k - Len(code) \in 1..Len(rest) /\ Word(text, k) = Word(rest, k - Len(code))
        /\ text[k] = rest[k - Len(code)]
  <2>1. \A k \in (Len(code) + 1)..Len(text) :
          k - Len(code) \in 1..Len(rest) /\ k = Len(code) + (k - Len(code))
    BY <1>4
  <2> QED
    BY <1>4, <2>1 DEF Word
<1>6. ASSUME NEW k \in (Len(code) + 1)..Len(text)
      PROVE  /\ text[k].sep = "-"
             /\ \/ IsNumber(Word(text, k), 1, 3)
                \/ IsLetters(Word(text, k)) /\ \A l \in k..Len(text) : IsLetters(Word(text, l))
  <2>1. \A l \in k..Len(text) :
          l \in (Len(code) + 1)..Len(text) /\ l - Len(code) \in (k - Len(code))..Len(rest)
    BY <1>4
  <2>2. \A l \in k..Len(text) : Word(text, l) = Word(rest, l - Len(code))
    BY <1>8, <2>1, Zenon
  <2> QED
    BY <1>3, <1>8, <2>1, <2>2, Zenon
<1>7. Behind(text, Len(code))
  BY <1>4, <1>6, Sequence DEF Behind
<1> QED
  BY <1>1, <1>4, <1>5, <1>7 DEF rest

LEMMA CleanCandidate ==
  ASSUME NEW S, NEW code \in Seq(S), NEW part \in Seq(S), NEW variant \in Seq(S),
         IsCode(code), IsPart(part), IsVariant(variant)
  PROVE  LET text == code \o part \o variant
         IN  \E c : /\ IsOnly(c, text) /\ c.from = 1 /\ c.code = code
                    /\ c.part = part /\ c.variant = variant /\ c.left = <<>> /\ ~c.before
<1> DEFINE text == code \o part \o variant
           rest == part \o variant
<1>1. \A weight, to : LET c == Candidate(weight, 1, to, code, rest)
                      IN  /\ c.from = 1 /\ c.code = code
                          /\ c.part = part /\ c.variant = variant /\ c.left = <<>>
                          /\ ~c.before
  <2>1. (1 > 1) = FALSE
    OBVIOUS
  <2>2. /\ ParseTail(rest).part = part /\ ParseTail(rest).variant = variant
        /\ ParseTail(rest).left = <<>>
    BY TailRead
  <2> HIDE DEF rest
  <2>3. ASSUME NEW weight, NEW to
        PROVE  LET c == Candidate(weight, 1, to, code, rest)
               IN  /\ c.from = 1 /\ c.code = code
                   /\ c.part = part /\ c.variant = variant /\ c.left = <<>>
                   /\ c.before = (1 > 1)
    BY <2>2, CandidateFields
  <2> QED
    BY <2>1, <2>3, Zenon
<1>2. Len(code) >= 1 =>
        /\ Behind(text, Len(code))
        /\ \A k \in 1..Len(code) : text[k] = code[k]
        /\ From(text, Len(code) + 1) = rest
  BY Assembled
<1>3. ~IsNoisePrefix(code[1].word)
  BY DEF IsCode
<1>4. ASSUME NEW sep, NEW w1, NEW w2, code = Code(sep, w1, w2)
      PROVE  /\ Behind(text, 2) /\ text[2].sep = sep /\ Word(text, 1) = w1 /\ Word(text, 2) = w2
             /\ Code(sep, Word(text, 1), Word(text, 2)) = code
             /\ From(text, 3) = rest /\ ~IsNoisePrefix(Word(text, 1))
  <2>1. Len(code) = 2 /\ code[1] = Piece(" ", w1) /\ code[2] = Piece(sep, w2)
    BY <1>4 DEF Code
  <2> HIDE DEF text, rest
  <2>2. text[1] = code[1] /\ text[2] = code[2] /\ Behind(text, 2) /\ From(text, 3) = rest
    <3>1. 2 + 1 = 3 /\ 2 >= 1 /\ 1 \in 1..2 /\ 2 \in 1..2
      OBVIOUS
    <3> QED
      BY <1>2, <2>1, <3>1, Zenon
  <2>3. Word(text, 1) = w1 /\ Word(text, 2) = w2 /\ text[2].sep = sep
    <3>1. text[1] = Piece(" ", w1) /\ text[2] = Piece(sep, w2)
      BY <2>1, <2>2, Zenon
    <3>2. /\ Piece(" ", w1).word = w1 /\ Piece(sep, w2).word = w2 /\ Piece(sep, w2).sep = sep
      BY PieceFields
    <3> QED
      BY <3>1, <3>2, Zenon DEF Word
  <2> QED
    BY <1>3, <1>4, <2>2, <2>3 DEF Word
<1> HIDE DEF text, rest
<1>5. CASE IsLabelled(code)
  <2>1. PICK w1, w2 : /\ code = Code("-", w1, w2) /\ IsLabel(w1) /\ IsNumber(w2, 1, 8)
                      /\ w1.digits = None \/ w2.digits.size > 2
    BY <1>5 DEF IsLabelled
  <2>2. IsOnly(Candidate(92, 1, 2, code, rest), text)
    BY <1>4, <2>1, OnlyLabelled
  <2> QED
    BY <1>1, <2>2 DEF text
<1>6. CASE IsMixedCode(code)
  <2>1. PICK w1, w2 : code = Code("-", w1, w2) /\ IsMixed(w1) /\ IsNumber(w2, 1, 5)
    BY <1>6 DEF IsMixedCode
  <2>2. IsOnly(Candidate(92, 1, 2, code, rest), text)
    BY <1>4, <2>1, OnlyMixed
  <2> QED
    BY <1>1, <2>2 DEF text
<1>7. CASE IsNumeric(code)
  <2>1. PICK w1, w2 : /\ code = Code(Underscore, w1, w2) /\ DigitsOf(w1) = w1
                      /\ IsNumber(w1, 6, 6) /\ IsNumber(w2, 2, 4)
    BY <1>7 DEF IsNumeric
  <2>2. IsOnly(Candidate(78, 1, 2, code, rest), text)
    BY <1>4, <2>1, OnlyNumeric
  <2> QED
    BY <1>1, <2>2 DEF text
<1>8. CASE IsFc2(code)
  <2>1. PICK w : code = Fc2Code(w) /\ IsNumber(w, 5, 8)
    BY <1>8 DEF IsFc2
  <2>2. Len(code) = 3 /\ code[1] = Piece(" ", FC) /\ code[2] = Piece("-", PPV) /\ code[3] = Piece("-", w)
    <3>1. \A p, q, r : Len(<<p, q, r>>) = 3 /\ <<p, q, r>>[1] = p /\ <<p, q, r>>[2] = q /\ <<p, q, r>>[3] = r
      OBVIOUS
    <3> QED
      BY <2>1, <3>1, Zenon DEF Fc2Code
  <2>3. /\ text[1] = code[1] /\ text[2] = code[2] /\ text[3] = code[3]
        /\ Behind(text, 3) /\ From(text, 4) = rest
    <3>1. 3 + 1 = 4 /\ 3 >= 1 /\ 1 \in 1..3 /\ 2 \in 1..3 /\ 3 \in 1..3
      OBVIOUS
    <3> QED
      BY <1>2, <2>2, <3>1, Zenon
  <2>4. /\ Word(text, 1) = FC /\ Word(text, 2) = PPV /\ Word(text, 3) = w
        /\ text[2].sep = "-" /\ text[3].sep = "-" /\ ~IsNoisePrefix(FC)
    <3>1. text[1] = Piece(" ", FC) /\ text[2] = Piece("-", PPV) /\ text[3] = Piece("-", w)
      BY <2>2, <2>3, Zenon
    <3>2. /\ Piece(" ", FC).word = FC /\ Piece("-", PPV).word = PPV /\ Piece("-", w).word = w
          /\ Piece("-", PPV).sep = "-" /\ Piece("-", w).sep = "-"
      BY PieceFields
    <3>3. code[1].word = FC
      BY <2>2, <3>2, Zenon
    <3> QED
      BY <1>3, <3>1, <3>2, <3>3, Zenon DEF Word
  <2>5. IsOnly(Candidate(95, 1, 3, code, rest), text)
    BY <2>1, <2>3, <2>4, OnlyFc2, Zenon
  <2> QED
    BY <1>1, <2>5 DEF text
<1> QED
  BY <1>5, <1>6, <1>7, <1>8 DEF IsCode

-----------------------------------------------------------------------------
(* Nothing is removed from a suggested name, and its language is found.    *)

AllPlain(text) == \A k \in DOMAIN text : Word(text, k).kind = "plain"

LEMMA PlainText ==
  ASSUME NEW text, AllPlain(text)
  PROVE  CleanText(text) = text /\ SiteWords(text) = {} /\ OfKind(text, Telling) = DOMAIN text
<1>1. \A kinds : "plain" \notin kinds => OfKind(text, kinds) = {}
  BY DEF AllPlain, OfKind
<1>2. OfKind(text, {"adDomain"}) = {} /\ OfKind(text, {"site"}) = {}
      /\ OfKind(text, {"adBracket"}) = {} /\ OfKind(text, {"noise", "date"}) = {}
  <2>1. /\ "plain" \notin {"adDomain"} /\ "plain" \notin {"site"}
        /\ "plain" \notin {"adBracket"} /\ "plain" \notin {"noise", "date"}
    OBVIOUS
  <2> QED
    BY <1>1, <2>1, Zenon
<1>3. SiteWords(text) = {}
  BY <1>2 DEF SiteWords
<1>4. \A drop : drop = {} => Without(text, drop) = text
  BY DEF Without
<1>5. RemoveAdDomains(text) = text
  BY <1>2, <1>3, <1>4 DEF RemoveAdDomains
<1>6. RemoveBracketAds(text) = text /\ RemoveNoise(text) = text
  BY <1>2, <1>4 DEF RemoveBracketAds, RemoveNoise
<1>7. OfKind(text, Telling) = DOMAIN text
  BY DEF AllPlain, OfKind, Telling
<1> QED
  BY <1>3, <1>5, <1>6, <1>7 DEF CleanText

LEMMA DigitKinds ==
  ASSUME NEW w
  PROVE  /\ \A a, b : IsNumber(w, a, b) => w.kind = "plain"
         /\ IsLetters(w) => w.kind = "plain"
         /\ IsLabel(w) => w.kind = "plain"
         /\ IsMixed(w) => w.kind = "plain"
BY DEF IsNumber, IsLetters, IsLabel, IsMixed

\* The words of a code are plain and no dot stands between them.
LEMMA CodeWords ==
  ASSUME NEW code, IsCode(code)
  PROVE  /\ Len(code) \in {2, 3} /\ AllPlain(code) /\ DOMAIN code = 1..Len(code)
         /\ \A k \in 2..Len(code) : code[k].sep # "."
<1>1. ASSUME NEW sep, NEW w1, NEW w2, code = Code(sep, w1, w2), sep # ".",
             w1.kind = "plain", w2.kind = "plain"
      PROVE  /\ Len(code) \in {2, 3} /\ AllPlain(code) /\ DOMAIN code = 1..Len(code)
             /\ \A k \in 2..Len(code) : code[k].sep # "."
  <2>0. /\ Piece(" ", w1).word = w1 /\ Piece(sep, w2).word = w2 /\ Piece(sep, w2).sep = sep
    BY PieceFields
  <2> DEFINE p == Piece(" ", w1)
             q == Piece(sep, w2)
  <2>1. code = <<p, q>>
    BY <1>1 DEF Code
  <2> HIDE DEF p, q
  <2>2. Len(code) = 2 /\ DOMAIN code = 1..2 /\ code[1] = p /\ code[2] = q
    BY <2>1
  <2>3. \A k \in 1..2 : k = 1 \/ k = 2
    OBVIOUS
  <2>4. p.word = w1 /\ q.word = w2 /\ q.sep = sep
    BY <2>0 DEF p, q
  <2>5. AllPlain(code)
    BY <1>1, <2>2, <2>3, <2>4, Zenon DEF AllPlain, Word
  <2>6. \A k \in 2..2 : k = 2
    OBVIOUS
  <2>7. code[2].sep # "."
    BY <1>1, <2>2, <2>4, Zenon
  <2> QED
    BY <2>2, <2>5, <2>6, <2>7
<1>2. CASE IsLabelled(code)
  <2>0. PICK w1, w2 : code = Code("-", w1, w2) /\ IsLabel(w1) /\ IsNumber(w2, 1, 8)
    BY <1>2 DEF IsLabelled
  <2>1. w1.kind = "plain" /\ w2.kind = "plain"
    BY <2>0, DigitKinds
  <2>2. "-" # "."
    OBVIOUS
  <2> QED
    BY <1>1, <2>0, <2>1, <2>2
<1>3. CASE IsMixedCode(code)
  <2>0. PICK w1, w2 : code = Code("-", w1, w2) /\ IsMixed(w1) /\ IsNumber(w2, 1, 5)
    BY <1>3 DEF IsMixedCode
  <2>1. w1.kind = "plain" /\ w2.kind = "plain"
    BY <2>0, DigitKinds
  <2>2. "-" # "."
    OBVIOUS
  <2> QED
    BY <1>1, <2>0, <2>1, <2>2
<1>4. CASE IsNumeric(code)
  <2>0. PICK w1, w2 : code = Code(Underscore, w1, w2) /\ IsNumber(w1, 6, 6) /\ IsNumber(w2, 2, 4)
    BY <1>4 DEF IsNumeric
  <2>1. w1.kind = "plain" /\ w2.kind = "plain"
    BY <2>0, DigitKinds
  <2>2. Underscore # "."
    BY Zenon DEF Underscore
  <2> QED
    BY <1>1, <2>0, <2>1, <2>2
<1>5. CASE IsFc2(code)
  <2>1. PICK w : code = Fc2Code(w) /\ w.kind = "plain"
    BY <1>5, DigitKinds, Zenon DEF IsFc2
  <2>0. /\ Piece(" ", FC).word = FC /\ Piece("-", PPV).word = PPV /\ Piece("-", PPV).sep = "-"
        /\ Piece("-", w).word = w /\ Piece("-", w).sep = "-"
        /\ FC.kind = "plain" /\ PPV.kind = "plain"
    <3>1. FC.kind = "plain" /\ PPV.kind = "plain"
      BY DEF FC, PPV, Plain
    <3> QED
      BY <3>1, PieceFields
  <2> DEFINE p == Piece(" ", FC)
             q == Piece("-", PPV)
             r == Piece("-", w)
  <2>2. code = <<p, q, r>>
    BY <2>1 DEF Fc2Code
  <2>3. p.word.kind = "plain" /\ q.word.kind = "plain" /\ r.word.kind = "plain" /\ q.sep = "-" /\ r.sep = "-"
    BY <2>0, <2>1, Zenon
  <2> HIDE DEF p, q, r
  <2>4. Len(code) = 3 /\ DOMAIN code = 1..3 /\ code[1] = p /\ code[2] = q /\ code[3] = r
    BY <2>2
  <2>5. /\ \A k \in 1..3 : k = 1 \/ k = 2 \/ k = 3
        /\ \A k \in 2..3 : k = 2 \/ k = 3
        /\ "-" # "."
    OBVIOUS
  <2>6. AllPlain(code)
    BY <2>3, <2>4, <2>5, Zenon DEF AllPlain, Word
  <2>7. \A k \in 2..3 : code[k].sep # "."
    BY <2>3, <2>4, <2>5, Zenon
  <2> QED
    BY <2>4, <2>6, <2>7
<1> QED
  BY <1>2, <1>3, <1>4, <1>5 DEF IsCode

LEMMA BaseWords ==
  ASSUME NEW S, NEW code \in Seq(S), NEW part \in Seq(S), NEW variant \in Seq(S),
         IsCode(code), IsPart(part), IsVariant(variant)
  PROVE  LET text == code \o part \o variant
         IN  /\ text \in Seq(S) /\ Len(text) >= 2 /\ AllPlain(text)
             /\ \A k \in 2..Len(text) : text[k].sep # "."
<1> DEFINE text == code \o part \o variant
           n == Len(code)
<1>1. n \in {2, 3} /\ AllPlain(code) /\ DOMAIN code = 1..n
      /\ \A k \in 2..n : code[k].sep # "."
  BY CodeWords
<1>2. n >= 1
  BY <1>1
<1>3. text \in Seq(S) /\ Behind(text, n) /\ \A k \in 1..n : text[k] = code[k]
  BY <1>2, Assembled
<1> HIDE DEF text
<1>4. Len(text) \in Nat /\ n <= Len(text) /\ DOMAIN text = 1..Len(text) /\ Len(text) >= 2
  BY <1>1, <1>3 DEF Behind, IsSequence
<1>5. ASSUME NEW k \in DOMAIN text PROVE Word(text, k).kind = "plain"
  <2>1. CASE k \in 1..n
    BY <1>1, <1>3, <2>1 DEF AllPlain, Word
  <2>2. CASE k \notin 1..n
    <3>1. k \in (n + 1)..Len(text)
      BY <1>1, <1>4, <2>2
    <3> QED
      BY <1>3, <3>1, DigitKinds, Zenon DEF Behind
  <2> QED
    BY <2>1, <2>2
<1>6. ASSUME NEW k \in 2..Len(text) PROVE text[k].sep # "."
  <2>1. CASE k \in 2..n
    BY <1>1, <1>3, <2>1
  <2>2. CASE k \notin 2..n
    <3>1. k \in (n + 1)..Len(text)
      BY <1>1, <1>4, <2>2
    <3>2. text[k].sep = "-"
      BY <1>3, <3>1 DEF Behind
    <3> QED
      BY <3>2
  <2> QED
    BY <2>1, <2>2
<1>7. AllPlain(text)
  BY <1>5 DEF AllPlain
<1> QED
  BY <1>3, <1>4, <1>6, <1>7 DEF text

EndsInOne(stem, ext) == ext \in SubtitleExtensions /\ IsLanguage(stem, Len(stem), Languages)
EndsInTwo(stem, ext) ==
  /\ ext \in SubtitleExtensions /\ IsLanguage(stem, Len(stem) - 1, {"ZH"})
  /\ stem[Len(stem)].sep \in {"-", Underscore}
  /\ IsLetters(Word(stem, Len(stem))) /\ Word(stem, Len(stem)).letters.text \in Regions

LEMMA LanguageLengths ==
  ASSUME NEW stem, NEW ext
  PROVE  \/ EndsInOne(stem, ext) /\ ~EndsInTwo(stem, ext) /\ LanguageLength(stem, ext) = 1
         \/ EndsInTwo(stem, ext) /\ ~EndsInOne(stem, ext) /\ LanguageLength(stem, ext) = 2
         \/ ~EndsInOne(stem, ext) /\ ~EndsInTwo(stem, ext) /\ LanguageLength(stem, ext) = 0
<1>1. "." # "-" /\ "." # Underscore
  BY Zenon DEF Underscore
<1>2. ~(EndsInOne(stem, ext) /\ EndsInTwo(stem, ext))
  BY <1>1 DEF EndsInOne, EndsInTwo, IsLanguage
<1> DEFINE One == ext \in SubtitleExtensions /\ IsLanguage(stem, Len(stem), Languages)
           Two == /\ ext \in SubtitleExtensions /\ IsLanguage(stem, Len(stem) - 1, {"ZH"})
                  /\ stem[Len(stem)].sep \in {"-", "_"}
                  /\ IsLetters(Word(stem, Len(stem))) /\ Word(stem, Len(stem)).letters.text \in Regions
<1>3. One <=> EndsInOne(stem, ext)
  BY Zenon DEF EndsInOne
<1>4. Two <=> EndsInTwo(stem, ext)
  BY Zenon DEF EndsInTwo, Underscore
<1>5. LanguageLength(stem, ext) = CASE One -> 1 [] Two -> 2 [] OTHER -> 0
  BY Zenon DEF LanguageLength
<1> HIDE DEF One, Two
<1> QED
  BY <1>2, <1>3, <1>4, <1>5

LEMMA SplitFacts ==
  ASSUME NEW S, NEW base \in Seq(S), NEW language \in Seq(S)
  PROVE  SplitAt(base \o language, Len(base)) = [base |-> base, language |-> language]
<1>1. From(base \o language, Len(base) + 1) = language
  BY FromBehind
<1>2. SubSeq(base \o language, 1, Len(base)) = base
  OBVIOUS
<1> QED
  BY <1>1, <1>2, Zenon DEF SplitAt

LEMMA LanguageFound ==
  ASSUME NEW S, NEW base \in Seq(S), NEW language \in Seq(S), NEW ext, IsTongue(language, ext),
         Len(base) >= 2, \A k \in 2..Len(base) : base[k].sep # "."
  PROVE  SplitLanguage(base \o language, ext) = [base |-> base, language |-> language]
<1> DEFINE stem == base \o language
           m == Len(base)
<1>1. /\ stem \in Seq(S) /\ Len(stem) = m + Len(language) /\ m \in Nat /\ Len(language) \in Nat
      /\ \A k \in 1..m : stem[k] = base[k]
      /\ \A k \in 1..Len(language) : stem[m + k] = language[k]
  BY Concat
<1>2. LanguageLength(stem, ext) = Len(language)
  <2> HIDE DEF stem
  <2>1. CASE language = <<>>
    <3>1. Len(language) = 0 /\ Len(stem) = m
      BY <1>1, <2>1
    <3>2. \A k \in 2..m : stem[k].sep # "."
      BY <1>1
    <3>3. Len(stem) > 1 => Len(stem) \in 2..m
      BY <1>1, <3>1
    <3>4. Len(stem) - 1 > 1 => Len(stem) - 1 \in 2..m
      BY <1>1, <3>1
    <3>5. ~EndsInOne(stem, ext) /\ ~EndsInTwo(stem, ext)
      BY <3>2, <3>3, <3>4, Zenon DEF EndsInOne, EndsInTwo, IsLanguage
    <3> QED
      BY <3>1, <3>5, LanguageLengths
  <2>2. CASE \E p : /\ language = <<p>> /\ ext \in SubtitleExtensions
                    /\ p.sep = "." /\ IsLetters(p.word) /\ p.word.letters.text \in Languages
    <3>1. PICK p : /\ language = <<p>> /\ ext \in SubtitleExtensions
                   /\ p.sep = "." /\ IsLetters(p.word) /\ p.word.letters.text \in Languages
      BY <2>2
    <3>2. Len(language) = 1 /\ language[1] = p
      BY <3>1
    <3>3. Len(stem) > 1 /\ stem[Len(stem)] = p
      BY <1>1, <3>2
    <3>4. EndsInOne(stem, ext)
      BY <3>1, <3>3, Zenon DEF EndsInOne, IsLanguage, Word
    <3> QED
      BY <3>2, <3>4, LanguageLengths
  <2>3. CASE \E p, q : /\ language = <<p, q>> /\ ext \in SubtitleExtensions
                       /\ p.sep = "." /\ IsLetters(p.word) /\ p.word.letters.text \in {"ZH"}
                       /\ q.sep \in {"-", Underscore}
                       /\ IsLetters(q.word) /\ q.word.letters.text \in Regions
    <3>1. PICK p, q : /\ language = <<p, q>> /\ ext \in SubtitleExtensions
                      /\ p.sep = "." /\ IsLetters(p.word) /\ p.word.letters.text \in {"ZH"}
                      /\ q.sep \in {"-", Underscore}
                      /\ IsLetters(q.word) /\ q.word.letters.text \in Regions
      BY <2>3, Zenon
    <3>2. Len(language) = 2 /\ language[1] = p /\ language[2] = q
      BY <3>1
    <3>3. Len(stem) - 1 > 1 /\ stem[Len(stem) - 1] = p /\ stem[Len(stem)] = q
      BY <1>1, <3>2
    <3>4. EndsInTwo(stem, ext)
      BY <3>1, <3>3, Zenon DEF EndsInTwo, IsLanguage, Word
    <3> QED
      BY <3>2, <3>4, LanguageLengths
  <2> QED
    BY <2>1, <2>2, <2>3, Zenon DEF IsTongue
<1>3. Len(stem) - LanguageLength(stem, ext) = m
  <2> HIDE DEF stem
  <2> QED
    BY <1>1, <1>2
<1> QED
  BY <1>3, SplitFacts, Zenon DEF SplitLanguage

LEMMA SplitSeq ==
  ASSUME NEW S, NEW stem \in Seq(S), NEW k \in 0..Len(stem)
  PROVE  LET a == SubSeq(stem, 1, k)
             b == SubSeq(stem, k + 1, Len(stem))
         IN  a \in Seq(S) /\ b \in Seq(S) /\ stem = a \o b
<1> DEFINE a == SubSeq(stem, 1, k)
           b == SubSeq(stem, k + 1, Len(stem))
<1>1. Len(stem) \in Nat /\ k \in Nat /\ k <= Len(stem)
  OBVIOUS
<1>2. a \in Seq(S) /\ Len(a) = k /\ \A i \in 1..k : a[i] = stem[i]
  BY <1>1
<1>3. b \in Seq(S) /\ Len(b) = Len(stem) - k /\ \A i \in 1..(Len(stem) - k) : b[i] = stem[k + i]
  BY <1>1
<1> HIDE DEF a, b
<1>4. /\ a \o b \in Seq(S) /\ Len(a \o b) = Len(stem)
      /\ \A i \in 1..k : (a \o b)[i] = stem[i]
      /\ \A i \in 1..(Len(stem) - k) : (a \o b)[k + i] = stem[k + i]
  <2>1. /\ a \o b \in Seq(S) /\ Len(a \o b) = Len(a) + Len(b)
        /\ \A i \in 1..Len(a) : (a \o b)[i] = a[i]
        /\ \A i \in 1..Len(b) : (a \o b)[Len(a) + i] = b[i]
    <3>1. a \in Seq(S) /\ b \in Seq(S)
      BY <1>2, <1>3
    <3>2. \A x, y \in Seq(S) :
            /\ x \o y \in Seq(S) /\ Len(x \o y) = Len(x) + Len(y)
            /\ \A i \in 1..Len(x) : (x \o y)[i] = x[i]
            /\ \A i \in 1..Len(y) : (x \o y)[Len(x) + i] = y[i]
      OBVIOUS
    <3> QED
      BY <3>1, <3>2, Zenon
  <2>2. k + (Len(stem) - k) = Len(stem)
    BY <1>1
  <2> QED
    BY <1>2, <1>3, <2>1, <2>2, Zenon
<1>5. \A i \in 1..Len(stem) :
        i \in 1..k \/ (i - k \in 1..(Len(stem) - k) /\ i = k + (i - k))
  BY <1>1
<1> DEFINE c == a \o b
<1> HIDE DEF c
<1>6. \A i \in 1..Len(stem) : c[i] = stem[i]
  BY <1>4, <1>5, Zenon DEF c
<1>7. c = stem
  BY <1>4, <1>6, SeqEqual DEF c
<1> QED
  BY <1>2, <1>3, <1>7 DEF a, b, c

\* The language a stem ends with, and what stands before it.
LEMMA LanguageForm ==
  ASSUME NEW S, NEW stem \in Seq(S), NEW ext
  PROVE  LET parts == SplitLanguage(stem, ext)
         IN  /\ IsTongue(parts.language, ext)
             /\ parts.base \in Seq(S) /\ parts.language \in Seq(S)
             /\ stem = parts.base \o parts.language
<1> DEFINE n == Len(stem)
           l == LanguageLength(stem, ext)
           base == SubSeq(stem, 1, n - l)
           language == SubSeq(stem, n - l + 1, n)
<1>1. n \in Nat /\ l \in {0, 1, 2} /\ l <= n
  <2>1. EndsInOne(stem, ext) => n > 1
    BY DEF EndsInOne, IsLanguage
  <2>2. EndsInTwo(stem, ext) => n - 1 > 1
    BY DEF EndsInTwo, IsLanguage
  <2>3. n \in Nat
    OBVIOUS
  <2> QED
    BY <2>1, <2>2, <2>3, LanguageLengths
<1>2. SplitLanguage(stem, ext).base = base /\ SplitLanguage(stem, ext).language = language
  BY DEF SplitLanguage, SplitAt, From
<1> HIDE DEF l
<1>3. base \in Seq(S) /\ language \in Seq(S) /\ stem = base \o language
  <2>1. n - l \in 0..n
    BY <1>1
  <2>2. \A k \in 0..n : LET a == SubSeq(stem, 1, k)
                            b == SubSeq(stem, k + 1, n)
                        IN  a \in Seq(S) /\ b \in Seq(S) /\ stem = a \o b
    BY SplitSeq
  <2> QED
    BY <2>1, <2>2
<1>4. IsTongue(language, ext)
  <2>1. CASE EndsInOne(stem, ext)
    <3>1. l = 1 /\ n > 1
      BY <2>1, LanguageLengths DEF l, EndsInOne, IsLanguage
    <3>2. language = <<stem[n]>>
      <4>1. n - l + 1 = n
        BY <1>1, <3>1
      <4>2. SubSeq(stem, n, n) = <<stem[n]>>
        <5> DEFINE s == SubSeq(stem, n, n)
        <5>1. s \in Seq(S) /\ Len(s) = 1 /\ s[1] = stem[n]
          BY <1>1, <3>1
        <5> HIDE DEF s
        <5>2. s = <<s[1]>>
          BY <5>1
        <5> QED
          BY <5>1, <5>2 DEF s
      <4> QED
        BY <4>1, <4>2
    <3> HIDE DEF language
    <3> QED
      BY <2>1, <3>2, Zenon DEF EndsInOne, IsLanguage, IsTongue, Word
  <2>2. CASE EndsInTwo(stem, ext)
    <3>1. l = 2 /\ n - 1 > 1
      BY <2>2, LanguageLengths DEF l, EndsInTwo, IsLanguage
    <3>2. language = <<stem[n - 1], stem[n]>>
      <4>1. n - l + 1 = n - 1
        BY <1>1, <3>1
      <4>2. SubSeq(stem, n - 1, n) = <<stem[n - 1], stem[n]>>
        <5> DEFINE s == SubSeq(stem, n - 1, n)
        <5>1. s \in Seq(S) /\ Len(s) = 2 /\ s[1] = stem[n - 1] /\ s[2] = stem[n]
          BY <1>1, <3>1
        <5> HIDE DEF s
        <5>2. s = <<s[1], s[2]>>
          BY <5>1
        <5> QED
          BY <5>1, <5>2 DEF s
      <4> QED
        BY <4>1, <4>2
    <3> HIDE DEF language
    <3> QED
      BY <2>2, <3>2, Zenon DEF EndsInTwo, IsLanguage, IsTongue, Word
  <2>3. CASE ~EndsInOne(stem, ext) /\ ~EndsInTwo(stem, ext)
    <3>1. l = 0
      BY <2>3, LanguageLengths DEF l
    <3>2. language = <<>>
      BY <1>1, <3>1
    <3> QED
      BY <3>2 DEF IsTongue
  <2> QED
    BY <2>1, <2>2, <2>3
<1> QED
  BY <1>2, <1>3, <1>4

LEMMA CandidateSpan ==
  ASSUME NEW text, IsSequence(text), NEW o \in Candidates(text)
  PROVE  /\ o.from \in Nat /\ o.to \in Nat /\ o.from >= 1 /\ o.from <= o.to /\ o.weight \in Weights
         /\ o.from <= Len(text)
<1>0. Len(text) \in Nat
  BY DEF IsSequence
<1>1. PICK i \in 1..Len(text) :
         \/ AtFc2(o, text, i) \/ AtNumeric(o, text, i) \/ AtMixed(o, text, i)
         \/ AtGlued(o, text, i) \/ AtLetterBehind(o, text, i) \/ AtStandard(o, text, i)
         \/ AtLettered(o, text, i) \/ AtCompact(o, text, i)
  <2>1. \A i \in 1..(Len(text) - 1) : i \in 1..Len(text)
    BY <1>0
  <2> QED
    BY <2>1, CandidateCases, Zenon
<1>2. /\ o.from = i /\ o.to \in Nat /\ o.to >= i
      /\ (o.weight = 95 \/ o.weight = 92 \/ o.weight = 90 \/ o.weight = 86 \/ o.weight = 78)
  <2>0. i \in Nat /\ i + 1 \in Nat /\ i + 1 >= i /\ i >= i
    BY <1>0, <1>1
  <2>1. CASE AtFc2(o, text, i)
    BY <2>1, StartOf
  <2>2. CASE AtNumeric(o, text, i)
    BY <2>0, <2>2, StartOf
  <2>3. CASE AtMixed(o, text, i) \/ AtGlued(o, text, i)
    BY <2>0, <2>3, StartOf
  <2>4. CASE AtLetterBehind(o, text, i)
    BY <2>0, <2>4, StartOf
  <2>5. CASE AtStandard(o, text, i)
    BY <2>0, <2>5, StartOf
  <2>6. CASE AtLettered(o, text, i)
    BY <2>0, <2>6, StartOf
  <2>7. CASE AtCompact(o, text, i)
    BY <2>0, <2>7, StartOf
  <2> QED
    BY <1>1, <2>1, <2>2, <2>3, <2>4, <2>5, <2>6, <2>7
<1>3. i \in Nat /\ i >= 1 /\ i <= Len(text)
  BY <1>0, <1>1
<1>4. o.from \in Nat /\ o.to \in Nat /\ o.from >= 1 /\ o.from <= o.to /\ o.from <= Len(text)
  BY <1>2, <1>3
<1>5. o.weight \in Weights
  BY <1>2 DEF Weights
<1> QED
  BY <1>4, <1>5

\* The rules suggest a name they suggested before, and are content with it.
LEMMA CleanSuggestion ==
  ASSUME NEW code, NEW part, NEW variant, NEW language, NEW ext, NEW name,
         IsCode(code), IsPart(part), IsVariant(variant), IsTongue(language, ext),
         name = [stem |-> code \o part \o variant \o language, ext |-> ext, tidy |-> TRUE]
  PROVE  Suggest(name) = [code |-> code, name |-> name, review |-> FALSE]
<1> DEFINE base == code \o part \o variant
           stem == base \o language
           parts == [base |-> base, language |-> language]
<1>1. PICK S : code \in Seq(S) /\ part \in Seq(S) /\ variant \in Seq(S) /\ language \in Seq(S)
  BY OneSet DEF IsCode
<1>2. /\ base \in Seq(S) /\ Len(base) >= 2 /\ AllPlain(base) /\ IsSequence(base)
      /\ \A k \in 2..Len(base) : base[k].sep # "."
  BY <1>1, BaseWords, Sequence
<1>3. PICK c : /\ IsOnly(c, base) /\ c.from = 1 /\ c.code = code
               /\ c.part = part /\ c.variant = variant /\ c.left = <<>> /\ ~c.before
  <2>1. /\ code \in Seq(S) /\ part \in Seq(S) /\ variant \in Seq(S)
        /\ IsCode(code) /\ IsPart(part) /\ IsVariant(variant)
    BY <1>1
  <2>2. \E c : /\ IsOnly(c, base) /\ c.from = 1 /\ c.code = code
                /\ c.part = part /\ c.variant = variant /\ c.left = <<>> /\ ~c.before
    BY <2>1, CleanCandidate
  <2> QED
    BY <2>2, Zenon
<1> HIDE DEF base
<1>5. SplitLanguage(stem, ext) = parts
  BY <1>1, <1>2, LanguageFound
<1>6. CleanText(base) = base
  BY <1>2, PlainText
<1> DEFINE C == Candidates(base)
<1>7. \A o \in C : o.weight \in Weights /\ o.from \in Nat /\ o.to \in Nat
  BY <1>2, CandidateSpan
<1>8. Best(C) = c /\ C # {} /\ c \in C
  <2>1. c \in C /\ \A o \in C : o = c \/ o.weight < c.weight
    BY <1>3 DEF IsOnly
  <2> QED
    BY <1>7, <2>1, BestIs
<1>9. ~IsAmbiguous(C, c)
  <2>1. \A o \in C : o.from <= c.to /\ o.to >= 1
    BY <1>3 DEF IsOnly
  <2>2. \A a, b \in Nat : a <= b => ~(b < a)
    OBVIOUS
  <2>3. \A a \in Nat : a >= 1 => ~(a < 1)
    OBVIOUS
  <2> HIDE DEF C
  <2>4. \A o \in C : ~(o.to < c.from) /\ ~(c.to < o.from)
    BY <1>3, <1>7, <1>8, <2>1, <2>2, <2>3, Zenon
  <2> QED
    BY <2>4, Zenon DEF IsAmbiguous
<1>0. name = [stem |-> stem, ext |-> ext, tidy |-> TRUE]
  BY DEF base
<1> HIDE DEF stem
<1>10. Suggest(name) = SuggestFor(name, parts)
  <2>1. name.stem = stem /\ name.ext = ext
    BY <1>0
  <2> HIDE DEF parts
  <2> QED
    BY <1>5, <2>1, Zenon DEF Suggest
<1>11. SuggestFor(name, parts) = SuggestFrom(name, language, C)
  BY <1>6 DEF SuggestFor
<1>12. SuggestFrom(name, language, C) = Choose(name, language, C, c)
  BY <1>8 DEF SuggestFrom
<1>13. Choose(name, language, C, c).code = code
  BY <1>3 DEF Choose, Render
<1>14. Choose(name, language, C, c).name = name
  BY <1>0, <1>3 DEF Choose, Render, stem, base
<1>15. Choose(name, language, C, c).review = FALSE
  <2>1. Choose(name, language, C, c).review =
          \/ IsAmbiguous(C, c) \/ c.before \/ c.left # <<>>
    BY DEF Choose, Render
  <2>3. ~(IsAmbiguous(C, c) \/ c.before \/ c.left # <<>>)
    BY <1>3, <1>9
  <2> QED
    BY <2>1, <2>3, Zenon
<1> DEFINE R == Choose(name, language, C, c)
<1>16. R = [code |-> R.code, name |-> R.name, review |-> R.review]
  BY DEF Choose, Render
<1> HIDE DEF R
<1>17. R = [code |-> code, name |-> name, review |-> FALSE]
  BY <1>13, <1>14, <1>15, <1>16 DEF R
<1> QED
  BY <1>10, <1>11, <1>12, <1>17 DEF R, base

LEMMA WithoutText ==
  ASSUME NEW text \in Texts, NEW drop
  PROVE  Without(text, drop) \in Texts
<1> PICK I : I = {}
  OBVIOUS
<1>1. I \subseteq DOMAIN text \ drop /\ \A i \in I : Word(text, i).kind # "date"
  OBVIOUS
<1> QED
  BY <1>1, WithoutFacts

LEMMA CleanTextText ==
  ASSUME NEW text \in Texts
  PROVE  CleanText(text) \in Texts
BY WithoutText DEF CleanText, RemoveAdDomains, RemoveBracketAds, RemoveNoise

LEMMA BaseText ==
  ASSUME NEW stem \in Texts, NEW ext
  PROVE  LET parts == SplitLanguage(stem, ext)
         IN  /\ parts.base \in Texts /\ parts.language \in Texts
             /\ stem = parts.base \o parts.language
             /\ IsTongue(parts.language, ext)
BY LanguageForm DEF Texts

\* A candidate with nothing before it is at the beginning.
LEMMA NothingBefore ==
  ASSUME NEW text, IsSequence(text), NEW o \in Candidates(text), ~o.before
  PROVE  o.from = 1
<1>1. ASSUME NEW i, \/ AtFc2(o, text, i) \/ AtMixed(o, text, i) \/ AtGlued(o, text, i)
                    \/ AtLetterBehind(o, text, i) \/ AtStandard(o, text, i)
                    \/ AtLettered(o, text, i) \/ AtCompact(o, text, i)
      PROVE  ~(i > 1)
  <2>1. \/ \E weight, to, code, rest : o = Candidate(weight, i, to, code, rest)
        \/ \E weight, to, code, rest, letter :
             o = Lettered(Candidate(weight, i, to, code, rest), letter)
    <3>1. CASE AtFc2(o, text, i)
      BY <3>1, Zenon DEF AtFc2
    <3>2. CASE AtMixed(o, text, i) \/ AtStandard(o, text, i) \/ AtCompact(o, text, i)
      BY <3>2, Zenon DEF AtMixed, AtStandard, AtCompact
    <3>3. CASE AtGlued(o, text, i)
      BY <3>3, Zenon DEF AtGlued
    <3>4. CASE AtLetterBehind(o, text, i)
      BY <3>4, Zenon DEF AtLetterBehind
    <3>5. CASE AtLettered(o, text, i)
      BY <3>5, Zenon DEF AtLettered
    <3> QED
      BY <1>1, <3>1, <3>2, <3>3, <3>4, <3>5
  <2>2. CASE \E weight, to, code, rest : o = Candidate(weight, i, to, code, rest)
    <3>1. PICK weight, to, code, rest : o = Candidate(weight, i, to, code, rest)
      BY <2>2
    <3>2. o.before = (i > 1)
      BY <3>1, CandidateFields
    <3> QED
      BY <3>2
  <2>3. CASE \E weight, to, code, rest, letter :
               o = Lettered(Candidate(weight, i, to, code, rest), letter)
    <3>1. PICK weight, to, code, rest, letter :
             o = Lettered(Candidate(weight, i, to, code, rest), letter)
      BY <2>3
    <3>2. o.before = (i > 1)
      BY <3>1, CandidateFields
    <3> QED
      BY <3>2
  <2> QED
    BY <2>1, <2>2, <2>3
<1>2. ASSUME NEW i, AtNumeric(o, text, i) PROVE ~(i > 1)
  <2>1. PICK weight, to, code, rest, before :
          /\ o = WithBefore(Candidate(weight, i, to, code, rest), before)
          /\ before = (i > 1 \/ ~IsNumber(Word(text, i), 6, 6))
    BY <1>2, Zenon DEF AtNumeric
  <2>2. o.before = before
    BY <2>1, CandidateFields
  <2> QED
    BY <2>1, <2>2
<1>3. PICK i \in 1..Len(text) :
         \/ AtFc2(o, text, i) \/ AtNumeric(o, text, i) \/ AtMixed(o, text, i)
         \/ AtGlued(o, text, i) \/ AtLetterBehind(o, text, i) \/ AtStandard(o, text, i)
         \/ AtLettered(o, text, i) \/ AtCompact(o, text, i)
  <2>1. \A i \in 1..(Len(text) - 1) : i \in 1..Len(text)
    BY DEF IsSequence
  <2> QED
    BY <2>1, CandidateCases, Zenon
<1>4. ~(i > 1)
  BY <1>1, <1>2, <1>3, Zenon
<1>5. i = 1
  BY <1>3, <1>4 DEF IsSequence
<1>6. o.from = i
  BY <1>3, StartOf
<1> QED
  BY <1>5, <1>6

\* What a suggestion with a code is made of: the best of the candidates of the
\* text that is left, and the language.
LEMMA SuggestionFacts ==
  ASSUME NEW name, name.stem \in Texts, Suggest(name).code # <<>>
  PROVE  LET parts == SplitLanguage(name.stem, name.ext)
             text == CleanText(parts.base)
             b == Best(Candidates(text))
         IN  /\ text \in Texts /\ b \in Candidates(text)
             /\ IsCode(b.code) /\ IsPart(b.part) /\ IsVariant(b.variant)
             /\ IsTongue(parts.language, name.ext)
             /\ Suggest(name).code = b.code
             /\ Suggest(name).name = [stem |-> b.code \o b.part \o b.variant \o parts.language,
                                      ext |-> name.ext, tidy |-> TRUE]
             /\ ~Suggest(name).review => ~b.before /\ b.from = 1 /\ b.left = <<>>
<1> DEFINE parts == SplitLanguage(name.stem, name.ext)
           text == CleanText(parts.base)
           C == Candidates(text)
           b == Best(C)
<1>1. text \in Texts /\ IsSequence(text)
  BY BaseText, CleanTextText, Sequence
<1>2. Suggest(name) = SuggestFrom(name, parts.language, C)
  BY DEF Suggest, SuggestFor
<1>3. IsTongue(parts.language, name.ext)
  BY BaseText
<1> HIDE DEF parts, text
<1>4. \A o \in C : o.weight \in Weights /\ o.from \in Nat /\ o.from >= 1
  BY <1>1, CandidateSpan
<1>11. \A o \in C : ~o.before => o.from = 1
  BY <1>1, NothingBefore
<1> HIDE DEF C
<1>5. C # {}
  BY <1>2 DEF SuggestFrom
<1>6. b \in C
  BY <1>4, <1>5, BestFacts
<1>7. IsCode(b.code) /\ IsPart(b.part) /\ IsVariant(b.variant)
  BY <1>1, <1>6, CandidateFacts DEF C, IsCandidate
<1>8. Suggest(name) = Choose(name, parts.language, C, b)
  BY <1>2, <1>5 DEF SuggestFrom
<1> HIDE DEF b
<1>9. /\ Suggest(name).code = b.code
      /\ Suggest(name).name = [stem |-> b.code \o b.part \o b.variant \o parts.language,
                               ext |-> name.ext, tidy |-> TRUE]
  BY <1>8 DEF Choose, Render
<1>10. ~Suggest(name).review => ~b.before /\ b.left = <<>>
  <2>1. Choose(name, parts.language, C, b).review =
          \/ IsAmbiguous(C, b) \/ b.before \/ b.left # <<>>
    BY DEF Choose, Render
  <2> QED
    BY <1>8, <2>1, Zenon
<1> QED
  BY <1>1, <1>3, <1>6, <1>7, <1>9, <1>10, <1>11 DEF b, C, text, parts

(* A name that the rules suggest with a code, for any text of words in the sense of
   FileNames, of any length and over any Runs, is one they are content with: they find
   the same code in it, have nothing to change and ask for no review
   (rules.py:348-505, suggest_name_with_trace). *)
THEOREM SuggestionsAreClean ==
  ASSUME NEW name, name.stem \in Texts, Suggest(name).code # <<>>
  PROVE  LET s == Suggest(name)
         IN  Suggest(s.name) = [code |-> s.code, name |-> s.name, review |-> FALSE]
<1>1. PICK b, language, ext, n :
         /\ IsCode(b.code) /\ IsPart(b.part) /\ IsVariant(b.variant) /\ IsTongue(language, ext)
         /\ Suggest(name).code = b.code /\ Suggest(name).name = n
         /\ n = [stem |-> b.code \o b.part \o b.variant \o language, ext |-> ext, tidy |-> TRUE]
  BY SuggestionFacts, Zenon
<1>2. Suggest(n) = [code |-> b.code, name |-> n, review |-> FALSE]
  <2> PICK c, p, v : c = b.code /\ p = b.part /\ v = b.variant
    OBVIOUS
  <2>1. IsCode(c) /\ IsPart(p) /\ IsVariant(v) /\ IsTongue(language, ext)
    BY <1>1
  <2>2. n = [stem |-> c \o p \o v \o language, ext |-> ext, tidy |-> TRUE]
    BY <1>1
  <2>3. Suggest(n) = [code |-> c, name |-> n, review |-> FALSE]
    BY <2>1, <2>2, CleanSuggestion, Zenon
  <2> QED
    BY <2>3
<1> QED
  BY <1>1, <1>2

-----------------------------------------------------------------------------
(* What a suggestion says.                                                 *)

Ignored == {None.text} \cup PartWords

LEMMA CountWordNat ==
  ASSUME NEW w, NEW said
  PROVE  CountWord(w, said) \in Nat
<1>1. \A condition : OneIf(condition) \in Nat
  BY DEF OneIf
<1>2. \A a, b, c, d \in Nat : a + b + c + d \in Nat
  OBVIOUS
<1> QED
  BY <1>1, <1>2 DEF CountWord

LEMMA CountEmpty == ASSUME NEW said PROVE Count(<<>>, said) = 0
<1>1. Saying(<<>>, OfKind(<<>>, Telling), said) = {}
  BY DEF Saying, OfKind
<1> QED
  BY <1>1, FS_EmptySet DEF Count

LEMMA CountTwo ==
  ASSUME NEW a, NEW b, NEW said
  PROVE  Count(<<a, b>>, said) = CountWord(a.word, said) + CountWord(b.word, said)
<1> DEFINE S == {a, b}
           x == <<a>>
           y == <<b>>
<1>1. x \in Seq(S) /\ y \in Seq(S)
  OBVIOUS
<1>2. <<a, b>> = x \o y
  BY TwoPieces
<1>3. Count(x, said) = CountWord(a.word, said) /\ Count(y, said) = CountWord(b.word, said)
  BY CountOne
<1>4. Count(x \o y, said) = Count(x, said) + Count(y, said)
  <2> HIDE DEF x, y, S
  <2> QED
    BY <1>1, CountConcat
<1> HIDE DEF x, y
<1> QED
  BY <1>2, <1>3, <1>4, Zenon

LEMMA CountThree ==
  ASSUME NEW a, NEW b, NEW c, NEW said
  PROVE  Count(<<a, b, c>>, said) =
           CountWord(a.word, said) + CountWord(b.word, said) + CountWord(c.word, said)
<1> DEFINE S == {a, b, c}
           x == <<a, b>>
           y == <<c>>
<1>1. x \in Seq(S) /\ y \in Seq(S)
  OBVIOUS
<1>2. <<a, b, c>> = x \o y
  <2>1. \A s, t \in Seq(S) : Len(s) = Len(t) /\ (\A i \in 1..Len(s) : s[i] = t[i]) => s = t
    BY SeqEqual
  <2>2. <<a, b, c>> \in Seq(S) /\ x \o y \in Seq(S)
    OBVIOUS
  <2>3. Len(<<a, b, c>>) = 3 /\ Len(x \o y) = 3
    OBVIOUS
  <2>4. \A i \in 1..3 : <<a, b, c>>[i] = (x \o y)[i]
    OBVIOUS
  <2> HIDE DEF x, y, S
  <2> QED
    BY <2>1, <2>2, <2>3, <2>4
<1>3. /\ Count(x, said) = CountWord(a.word, said) + CountWord(b.word, said)
      /\ Count(y, said) = CountWord(c.word, said)
  BY CountOne, CountTwo
<1>4. Count(x \o y, said) = Count(x, said) + Count(y, said)
  <2> HIDE DEF x, y, S
  <2> QED
    BY <1>1, CountConcat
<1> HIDE DEF x, y
<1> QED
  BY <1>2, <1>3, <1>4, Zenon

LEMMA CountFirst ==
  ASSUME NEW S, NEW text \in Seq(S), NEW i \in 1..Len(text), NEW said
  PROVE  /\ Count(From(text, i), said) = CountWord(Word(text, i), said) + Count(From(text, i + 1), said)
         /\ Count(From(text, i + 1), said) \in Nat /\ Count(From(text, i), said) \in Nat
<1> DEFINE p == text[i]
           x == <<p>>
           y == From(text, i + 1)
<1>1. i \in Nat /\ i >= 1 /\ i + 1 \in Nat /\ i + 1 >= 1 /\ p \in S /\ x \in Seq(S) /\ Len(text) \in Nat
  OBVIOUS
<1>2. /\ y \in Seq(S) /\ Len(y) = IF i + 1 <= Len(text) THEN Len(text) - (i + 1) + 1 ELSE 0
      /\ \A k \in 1..Len(y) : y[k] = text[i + 1 + k - 1]
  BY <1>1, FromFacts
<1>3. /\ From(text, i) \in Seq(S) /\ Len(From(text, i)) = Len(text) - i + 1
      /\ \A k \in 1..Len(From(text, i)) : From(text, i)[k] = text[i + k - 1]
  BY <1>1, FromFacts
<1> HIDE DEF y
<1>4. From(text, i) = x \o y
  <2>1. Len(x \o y) = 1 + Len(y) /\ x \o y \in Seq(S) /\ Len(y) = Len(text) - i
    BY <1>1, <1>2
  <2>2. Len(x \o y) = Len(From(text, i))
    BY <1>1, <1>3, <2>1
  <2>3. ASSUME NEW k \in 1..Len(From(text, i)) PROVE From(text, i)[k] = (x \o y)[k]
    <3>1. CASE k = 1
      BY <1>1, <1>2, <1>3, <3>1
    <3>2. CASE k # 1
      <4>1. (x \o y)[k] = y[k - 1] /\ k - 1 \in 1..Len(y)
        BY <1>1, <1>2, <1>3, <2>1, <3>2
      <4>2. y[k - 1] = text[i + 1 + (k - 1) - 1]
        BY <1>2, <4>1
      <4>3. i + 1 + (k - 1) - 1 = i + k - 1
        BY <1>1
      <4> QED
        BY <1>3, <4>1, <4>2, <4>3
    <3> QED
      BY <3>1, <3>2
  <2> HIDE DEF x
  <2> QED
    BY <1>3, <2>1, <2>2, <2>3, SeqEqual
<1>5. Count(x, said) = CountWord(Word(text, i), said)
  BY CountOne DEF Word
<1>6. /\ Count(x \o y, said) = Count(x, said) + Count(y, said)
      /\ Count(x, said) \in Nat /\ Count(y, said) \in Nat
  BY <1>1, <1>2, CountConcat
<1> HIDE DEF x
<1> QED
  BY <1>4, <1>5, <1>6 DEF y

\* Words that say one thing each.
LEMMA CountFields ==
  ASSUME NEW said, said \notin Ignored
  PROVE  /\ \A a, b, c, d : CountWord(Plain(a, b, c, d), said) =
               OneIf(a.text = said) + OneIf(b.text = said) + OneIf(c.text = said) + OneIf(d.text = said)
         /\ OneIf(None.text = said) = 0
         /\ \A a : /\ CountWord(Plain(a, None, None, None), said) = OneIf(a.text = said)
                   /\ CountWord(Plain(None, a, None, None), said) = OneIf(a.text = said)
                   /\ CountWord(Plain(None, None, a, None), said) = OneIf(a.text = said)
<1>1. \A a, b, c, d : CountWord(Plain(a, b, c, d), said) =
        OneIf(a.text = said) + OneIf(b.text = said) + OneIf(c.text = said) + OneIf(d.text = said)
  BY DEF CountWord, Plain, Telling
<1>2. OneIf(None.text = said) = 0
  BY DEF OneIf, Ignored
<1>3. \A a : OneIf(a.text = said) \in Nat
  BY DEF OneIf
<1> QED
  BY <1>1, <1>2, <1>3

LEMMA FromFirst ==
  ASSUME NEW S, NEW text \in Seq(S)
  PROVE  From(text, 1) = text
BY DEF From

LEMMA CountCode ==
  ASSUME NEW sep, NEW w1, NEW w2, NEW said
  PROVE  Count(Code(sep, w1, w2), said) = CountWord(w1, said) + CountWord(w2, said)
<1>1. Piece(" ", w1).word = w1 /\ Piece(sep, w2).word = w2
  BY PieceFields
<1> DEFINE p == Piece(" ", w1)
           q == Piece(sep, w2)
<1>2. Code(sep, w1, w2) = <<p, q>>
  BY DEF Code
<1>3. p.word = w1 /\ q.word = w2
  BY <1>1
<1> HIDE DEF p, q
<1>4. Count(<<p, q>>, said) = CountWord(p.word, said) + CountWord(q.word, said)
  BY CountTwo
<1> QED
  BY <1>2, <1>3, <1>4, Zenon

LEMMA CountSuffix ==
  ASSUME NEW w, NEW said
  PROVE  Count(Suffix(w), said) = CountWord(w, said)
<1>1. Piece("-", w).word = w
  BY PieceFields
<1> DEFINE p == Piece("-", w)
<1>2. Suffix(w) = <<p>>
  BY DEF Suffix
<1>3. p.word = w
  BY <1>1
<1> HIDE DEF p
<1> QED
  BY <1>2, <1>3, CountOne, Zenon

\* A number says its digits, a word of a part its digits and what is ignored.
LEMMA PartKeeps ==
  ASSUME NEW w, NEW said, said \notin Ignored, w.lead = None, w.last = None,
         w.letters = None \/ w.letters.text \in PartWords
  PROVE  CountWord(w, said) <= CountWord(Plain(None, None, w.digits, None), said)
<1>1. CountWord(Plain(None, None, w.digits, None), said) = OneIf(w.digits.text = said)
  BY CountFields
<1>2. /\ OneIf(w.lead.text = said) = 0 /\ OneIf(w.last.text = said) = 0
      /\ OneIf(w.letters.text = said) = 0
  BY DEF OneIf, Ignored
<1>3. OneIf(w.digits.text = said) \in Nat
  BY DEF OneIf
<1> QED
  BY <1>1, <1>2, <1>3 DEF CountWord

LEMMA TailKeeps ==
  ASSUME NEW S, NEW rest \in Seq(S), NEW said, said \notin Ignored, ParseTail(rest).left = <<>>
  PROVE  /\ Count(rest, said) <= Count(ParseTail(rest).part, said) + Count(ParseTail(rest).variant, said)
         /\ Count(ParseTail(rest).part, said) \in Nat /\ Count(ParseTail(rest).variant, said) \in Nat
<1> DEFINE n == PartLength(rest)
           part == ParseTail(rest).part
           variant == ParseTail(rest).variant
           R(i) == Count(From(rest, i), said)
           W(i) == CountWord(Word(rest, i), said)
<1>1. n \in {0, 1, 2} /\ n <= Len(rest) /\ Len(rest) \in Nat
  BY PartLengthFacts
<1>2. part = IF n = 0 THEN <<>> ELSE Suffix(Plain(None, None, Word(rest, n).digits, None))
  BY DEF ParseTail, TailBehind, TailFrom
<1>3. variant = VariantOf(From(rest, n + 1)) /\ From(rest, n + Len(variant) + 1) = <<>>
  BY DEF ParseTail, TailBehind, TailFrom
<1> DEFINE behind == From(rest, n + 1)
<1>4. R(1) = Count(rest, said)
  BY FromFirst
<1>5. \A i \in 1..Len(rest) : R(i) = W(i) + R(i + 1) /\ R(i + 1) \in Nat /\ R(i) \in Nat
  BY CountFirst
<1>6. \A i : W(i) \in Nat
  BY CountWordNat
<1>7. \A w : Count(Suffix(w), said) = CountWord(w, said)
  BY CountSuffix
<1>8. Count(<<>>, said) = 0
  BY CountEmpty
<1>9. Count(part, said) \in Nat
  BY <1>2, <1>7, <1>8, CountWordNat
<1>10. n >= 1 => W(n) <= Count(part, said)
  <2> SUFFICES ASSUME n >= 1 PROVE W(n) <= Count(part, said)
    OBVIOUS
  <2>1. /\ Word(rest, n).lead = None /\ Word(rest, n).last = None
        /\ Word(rest, n).letters = None \/ Word(rest, n).letters.text \in PartWords
    BY PartLengthFacts DEF IsNumber, IsLabel
  <2>2. W(n) <= CountWord(Plain(None, None, Word(rest, n).digits, None), said)
    BY <2>1, PartKeeps
  <2> QED
    BY <1>2, <1>7, <2>2
<1>11. n = 2 => W(1) = 0
  <2> SUFFICES ASSUME n = 2 PROVE W(1) = 0
    OBVIOUS
  <2>1. IsLetters(Word(rest, 1)) /\ Word(rest, 1).letters.text \in PartWords
    BY PartLengthFacts
  <2>2. /\ Word(rest, 1).lead = None /\ Word(rest, 1).digits = None /\ Word(rest, 1).last = None
        /\ Word(rest, 1).letters.text # said
    BY <2>1 DEF IsLetters, Ignored
  <2> QED
    BY <2>2 DEF CountWord, OneIf, Ignored
<1>12. R(n + 1) <= Count(variant, said) /\ Count(variant, said) \in Nat
  <2>1. /\ Len(behind) = IF n + 1 <= Len(rest) THEN Len(rest) - (n + 1) + 1 ELSE 0
        /\ \A k \in 1..Len(behind) : behind[k] = rest[n + 1 + k - 1]
        /\ behind \in Seq(S)
    BY <1>1, FromFacts
  <2> HIDE DEF behind
  <2>2. CASE StartsWithLeak(behind)
    <3>1. 2 <= Len(behind)
      BY <2>2 DEF StartsWithLeak, Joined
    <3>2. n + 1 \in 1..Len(rest) /\ n + 2 \in 1..Len(rest)
      BY <1>1, <2>1, <3>1
    <3>3. Word(behind, 1) = Word(rest, n + 1) /\ Word(behind, 2) = Word(rest, n + 2)
      <4>1. behind[1] = rest[n + 1 + 1 - 1] /\ behind[2] = rest[n + 1 + 2 - 1]
        BY <2>1, <3>1
      <4> QED
        BY <1>1, <4>1 DEF Word
    <3> DEFINE a == Piece("-", Word(behind, 1))
               b == Piece("-", Word(behind, 2))
    <3>4. a.word = Word(rest, n + 1) /\ b.word = Word(rest, n + 2)
      BY <3>3, PieceFields
    <3>5. variant = <<a, b>>
      BY <1>3, <2>2, VariantOfFacts DEF behind
    <3> HIDE DEF a, b, variant
    <3>6. Count(variant, said) = W(n + 1) + W(n + 2)
      <4>1. Count(<<a, b>>, said) = CountWord(a.word, said) + CountWord(b.word, said)
        BY CountTwo
      <4> QED
        BY <3>4, <3>5, <4>1, Zenon
    <3>7. Len(variant) = 2
      BY <3>5
    <3>8. R(n + 3) = 0
      <4>1. n + Len(variant) + 1 = n + 3
        BY <1>1, <3>7
      <4>2. From(rest, n + 3) = <<>>
        BY <1>3, <4>1, Zenon
      <4> QED
        BY <1>8, <4>2, Zenon
    <3>9. /\ R(n + 1) = W(n + 1) + R(n + 2) /\ R(n + 2) = W(n + 2) + R(n + 3)
          /\ R(n + 1) \in Nat
      <4>1. n + 1 + 1 = n + 2 /\ n + 2 + 1 = n + 3
        BY <1>1
      <4> QED
        BY <1>5, <3>2, <4>1
    <3> HIDE DEF R, W, n
    <3> QED
      BY <1>6, <3>6, <3>8, <3>9
  <2>3. CASE StartsWithVariant(behind) /\ ~StartsWithLeak(behind)
    <3>1. behind # <<>>
      BY <2>3 DEF StartsWithVariant
    <3>2. 1 <= Len(behind)
      BY <2>1, <3>1
    <3>3. n + 1 \in 1..Len(rest)
      BY <1>1, <2>1, <3>2
    <3>4. Word(behind, 1) = Word(rest, n + 1)
      <4>1. behind[1] = rest[n + 1 + 1 - 1]
        BY <2>1, <3>2
      <4> QED
        BY <1>1, <4>1 DEF Word
    <3>5. variant = Suffix(Word(rest, n + 1))
      BY <1>3, <2>3, <3>4, VariantOfFacts DEF behind
    <3>6. Len(variant) = 1
      BY <3>5 DEF Suffix
    <3> HIDE DEF variant
    <3>7. R(n + 2) = 0 /\ Count(variant, said) = W(n + 1)
      <4>1. n + Len(variant) + 1 = n + 2
        BY <1>1, <3>6
      <4>2. From(rest, n + 2) = <<>>
        BY <1>3, <4>1, Zenon
      <4> QED
        BY <1>7, <1>8, <3>5, <4>2, Zenon
    <3>8. R(n + 1) = W(n + 1) + R(n + 2)
      <4>1. n + 1 + 1 = n + 2
        BY <1>1
      <4> QED
        BY <1>5, <3>3, <4>1
    <3> HIDE DEF R, W, n
    <3> QED
      BY <1>6, <3>7, <3>8
  <2>4. CASE ~StartsWithVariant(behind) /\ ~StartsWithLeak(behind)
    <3>1. variant = <<>>
      BY <1>3, <2>4, VariantOfFacts DEF behind
    <3>2. Len(variant) = 0
      BY <3>1
    <3> HIDE DEF variant
    <3> QED
      BY <1>1, <1>3, <1>8, <3>1, <3>2
  <2> QED
    BY <2>2, <2>3, <2>4
<1> HIDE DEF n, part, variant, behind, R, W
<1>13. R(1) \in Nat
  <2>1. Len(rest) = 0 => rest = <<>>
    OBVIOUS
  <2>2. Len(rest) = 0 => R(1) = 0
    BY <1>4, <1>8, <2>1
  <2> QED
    BY <1>1, <1>5, <2>2
<1>14. R(1) <= Count(part, said) + R(n + 1) /\ R(n + 1) \in Nat
  <2>1. CASE n = 0
    <3>1. Count(part, said) = 0
      BY <1>2, <1>8, <2>1
    <3> QED
      BY <1>13, <2>1, <3>1
  <2>2. CASE n = 1
    <3>1. R(1) = W(1) + R(2) /\ R(2) \in Nat /\ W(1) <= Count(part, said) /\ W(1) \in Nat
      BY <1>1, <1>5, <1>6, <1>10, <2>2
    <3> QED
      BY <1>9, <2>2, <3>1
  <2>3. CASE n = 2
    <3>1. R(1) = W(1) + R(2) /\ R(2) = W(2) + R(3) /\ R(3) \in Nat
      BY <1>1, <1>5, <2>3
    <3>2. W(1) = 0 /\ W(2) <= Count(part, said) /\ W(2) \in Nat
      BY <1>6, <1>10, <1>11, <2>3
    <3> QED
      BY <1>9, <2>3, <3>1, <3>2
  <2> QED
    BY <1>1, <2>1, <2>2, <2>3
<1>15. Count(rest, said) <= Count(part, said) + Count(variant, said)
  BY <1>4, <1>9, <1>12, <1>14, <1>13
<1> QED
  BY <1>9, <1>12, <1>15 DEF part, variant

\* A candidate keeps what its words say when nothing is left behind it.
Keeps(text, b, said) ==
  Count(text, said) <= Count(b.code, said) + Count(b.part, said) + Count(b.variant, said)

LEMMA HeadKeeps ==
  ASSUME NEW text \in Texts, NEW rest \in Texts, NEW said, said \notin Ignored, NEW b,
         Count(text, said) <= Count(b.code, said) + Count(rest, said),
         Count(text, said) \in Nat, Count(b.code, said) \in Nat, Count(rest, said) \in Nat,
         b.part = ParseTail(rest).part, b.variant = ParseTail(rest).variant,
         ParseTail(rest).left = <<>>
  PROVE  Keeps(text, b, said)
<1>1. /\ Count(rest, said) <= Count(b.part, said) + Count(b.variant, said)
      /\ Count(b.part, said) \in Nat /\ Count(b.variant, said) \in Nat
  BY TailKeeps DEF Texts
<1> QED
  BY <1>1 DEF Keeps

LEMMA CountSteps ==
  ASSUME NEW text \in Texts, NEW said
  PROVE  /\ Len(text) \in Nat /\ Count(From(text, 1), said) = Count(text, said)
         /\ \A i \in 1..Len(text) :
              /\ From(text, i + 1) \in Texts
              /\ Count(From(text, i), said) = CountWord(Word(text, i), said) + Count(From(text, i + 1), said)
              /\ Count(From(text, i), said) \in Nat /\ Count(From(text, i + 1), said) \in Nat
              /\ CountWord(Word(text, i), said) \in Nat
<1>1. Len(text) \in Nat /\ From(text, 1) = text
  BY FromFirst DEF Texts
<1>2. ASSUME NEW i \in 1..Len(text) PROVE From(text, i + 1) \in Texts
  <2>1. i + 1 \in Nat /\ i + 1 >= 1
    OBVIOUS
  <2> QED
    BY <2>1, FromText
<1> QED
  BY <1>1, <1>2, CountFirst, CountWordNat DEF Texts

\* What the words say of which a code takes a part only.
LEMMA WordWithoutLead ==
  ASSUME NEW w \in WellFormed, NEW said, said \notin Ignored
  PROVE  CountWord(w, said) <=
           CountWord(Plain(None, None, w.lead, None), said) + CountWord([w EXCEPT !.lead = None], said)
<1> DEFINE rest == [w EXCEPT !.lead = None]
<1>1. /\ rest.kind = w.kind /\ rest.lead = None /\ rest.letters = w.letters
      /\ rest.digits = w.digits /\ rest.last = w.last
  BY DEF WellFormed
<1> HIDE DEF rest
<1>2. CountWord(Plain(None, None, w.lead, None), said) = OneIf(w.lead.text = said)
  BY CountFields
<1>3. OneIf(rest.lead.text = said) = 0
  BY <1>1, CountFields
<1>4. /\ OneIf(w.lead.text = said) \in Nat /\ OneIf(w.letters.text = said) \in Nat
      /\ OneIf(w.digits.text = said) \in Nat /\ OneIf(w.last.text = said) \in Nat
  BY DEF OneIf
<1>5. CASE w.kind \in Telling
  <2>1. CountWord(w, said) = OneIf(w.lead.text = said) + OneIf(w.letters.text = said)
                               + OneIf(w.digits.text = said) + OneIf(w.last.text = said)
    BY <1>5 DEF CountWord
  <2>2. CountWord(rest, said) = OneIf(rest.lead.text = said) + OneIf(w.letters.text = said)
                                  + OneIf(w.digits.text = said) + OneIf(w.last.text = said)
    BY <1>1, <1>5 DEF CountWord
  <2> QED
    BY <1>2, <1>3, <1>4, <2>1, <2>2 DEF rest
<1>6. CASE w.kind \notin Telling
  <2>1. CountWord(w, said) = 0 /\ CountWord(rest, said) = 0
    BY <1>1, <1>6 DEF CountWord
  <2> QED
    BY <1>2, <1>4, <2>1 DEF rest
<1> QED
  BY <1>5, <1>6

LEMMA CountFront ==
  ASSUME NEW w \in WellFormed, NEW text \in Texts, NEW said
  PROVE  /\ Count(<<Piece(" ", w)>> \o text, said) = CountWord(w, said) + Count(text, said)
         /\ CountWord(w, said) \in Nat /\ Count(text, said) \in Nat
<1> DEFINE p == Piece(" ", w)
           x == <<p>>
<1>1. p.word = w
  BY PieceFields
<1>2. p \in [sep : Separators, word : WellFormed]
  BY DEF Piece, Separators
<1>3. x \in Texts
  <2> HIDE DEF p
  <2> QED
    BY <1>2 DEF Texts
<1>4. Count(x, said) = CountWord(w, said)
  <2> HIDE DEF p
  <2> QED
    BY <1>1, CountOne, Zenon
<1> HIDE DEF x
<1>5. /\ Count(x \o text, said) = Count(x, said) + Count(text, said)
      /\ Count(x, said) \in Nat /\ Count(text, said) \in Nat
  BY <1>3, CountConcat DEF Texts
<1> QED
  BY <1>4, <1>5 DEF x

\* A code takes the digits a word begins with, and what is behind them stays.
LEMMA OpeningKeeps ==
  ASSUME NEW text \in Texts, NEW i \in 1..Len(text), NEW said, said \notin Ignored
  PROVE  /\ BehindOpening(text, i) \in Texts
         /\ Count(From(text, i), said) <=
              CountWord(Opening(Word(text, i)), said) + Count(BehindOpening(text, i), said)
         /\ Count(From(text, i), said) \in Nat
         /\ CountWord(Opening(Word(text, i)), said) \in Nat /\ Count(BehindOpening(text, i), said) \in Nat
<1> DEFINE w == Word(text, i)
           v == [w EXCEPT !.lead = None]
           rest == BehindOpening(text, i)
           after == From(text, i + 1)
<1>1. w \in WellFormed /\ rest \in Texts /\ None \in Runs
  BY WordsOfTexts, BehindTexts, RunsAssumption
<1>2. /\ Count(From(text, i), said) = CountWord(w, said) + Count(after, said)
      /\ Count(From(text, i), said) \in Nat /\ Count(after, said) \in Nat /\ CountWord(w, said) \in Nat
      /\ after \in Texts
  BY CountSteps
<1>3. CountWord(Opening(w), said) \in Nat
  BY CountWordNat
<1>4. CASE w.lead = None
  <2>1. Opening(w) = w /\ rest = after
    BY <1>4, Zenon DEF Opening, BehindOpening
  <2> HIDE DEF rest, after, w
  <2> QED
    BY <1>1, <1>2, <2>1 DEF rest, w
<1>5. CASE w.lead # None
  <2>1. Opening(w) = Plain(None, None, w.lead, None) /\ rest = <<Piece(" ", v)>> \o after
    BY <1>5, Zenon DEF Opening, BehindOpening
  <2>2. v \in WellFormed
    BY <1>1 DEF WellFormed
  <2>3. CountWord(w, said) <= CountWord(Opening(w), said) + CountWord(v, said)
    BY <1>1, <2>1, WordWithoutLead
  <2> HIDE DEF rest, after, v
  <2>4. /\ Count(rest, said) = CountWord(v, said) + Count(after, said)
        /\ CountWord(v, said) \in Nat
    BY <1>2, <2>1, <2>2, CountFront
  <2> HIDE DEF w
  <2>5. Count(rest, said) \in Nat
    BY <1>2, <2>4
  <2>6. Count(From(text, i), said) <= CountWord(Opening(w), said) + Count(rest, said)
    BY <1>2, <1>3, <2>3, <2>4
  <2> QED
    BY <1>1, <1>2, <1>3, <2>5, <2>6 DEF rest, w
<1> QED
  BY <1>4, <1>5

\* A code takes the digits of a word, and the letters behind them stay.
LEMMA DigitsKeep ==
  ASSUME NEW text \in Texts, NEW i \in 1..Len(text), NEW said, said \notin Ignored
  PROVE  /\ BehindDigits(text, i) \in Texts
         /\ Count(BehindDigits(text, i), said) =
              OneIf(Word(text, i).last.text = said) + Count(From(text, i + 1), said)
         /\ Count(BehindDigits(text, i), said) \in Nat
<1> DEFINE w == Word(text, i)
           v == Plain(None, w.last, None, None)
           rest == BehindDigits(text, i)
           after == From(text, i + 1)
<1>1. w \in WellFormed /\ rest \in Texts /\ None \in Runs
  BY WordsOfTexts, BehindTexts, RunsAssumption
<1>2. Count(after, said) \in Nat /\ after \in Texts
  BY CountSteps
<1>3. OneIf(w.last.text = said) \in Nat
  BY DEF OneIf
<1>4. CASE w.last = None
  <2>1. rest = after
    BY <1>4, Zenon DEF BehindDigits
  <2>2. OneIf(w.last.text = said) = 0
    BY <1>4, CountFields
  <2> HIDE DEF rest, after, w
  <2> QED
    BY <1>1, <1>2, <2>1, <2>2 DEF rest, w, after
<1>5. CASE w.last # None
  <2>1. rest = <<Piece(" ", v)>> \o after
    BY <1>5, Zenon DEF BehindDigits
  <2>2. v \in WellFormed
    <3>1. w.last \in Runs
      BY <1>1 DEF WellFormed
    <3> QED
      BY <1>1, <3>1 DEF WellFormed, Plain, Kinds
  <2>3. CountWord(v, said) = OneIf(w.last.text = said)
    BY CountFields
  <2> HIDE DEF rest, after, v
  <2>4. Count(rest, said) = CountWord(v, said) + Count(after, said)
    BY <1>2, <2>1, <2>2, CountFront
  <2> HIDE DEF w
  <2> QED
    BY <1>1, <1>2, <1>3, <2>3, <2>4 DEF rest, w, after
<1> QED
  BY <1>4, <1>5

LEMMA CountFc2 ==
  ASSUME NEW w, NEW said
  PROVE  /\ Count(Fc2Code(w), said) = CountWord(FC, said) + CountWord(PPV, said) + CountWord(w, said)
         /\ CountWord(FC, said) \in Nat /\ CountWord(PPV, said) \in Nat /\ CountWord(w, said) \in Nat
<1> DEFINE p == Piece(" ", FC)
           q == Piece("-", PPV)
           r == Piece("-", w)
<1>1. p.word = FC /\ q.word = PPV /\ r.word = w
  BY PieceFields
<1>2. Fc2Code(w) = <<p, q, r>>
  BY DEF Fc2Code
<1> HIDE DEF p, q, r
<1>3. Count(<<p, q, r>>, said) =
        CountWord(p.word, said) + CountWord(q.word, said) + CountWord(r.word, said)
  BY CountThree
<1>4. Count(Fc2Code(w), said) = CountWord(FC, said) + CountWord(PPV, said) + CountWord(w, said)
  BY <1>1, <1>2, <1>3, Zenon
<1> QED
  BY <1>4, CountWordNat

\* What the mark of an FC2 code says, the code says.
LEMMA MarkKeeps ==
  ASSUME NEW text \in Texts, NEW said, said \notin Ignored, NEW m \in Fc2Marks(text), m.from = 1
  PROVE  LET w == Word(text, m.to)
         IN  /\ m.to \in 1..Len(text)
             /\ Count(text, said) <=
                  CountWord(FC, said) + CountWord(PPV, said) + OneIf(w.digits.text = said)
                    + OneIf(w.last.text = said) + Count(From(text, m.to + 1), said)
             /\ Count(text, said) \in Nat
<1> DEFINE w == Word(text, m.to)
           D == OneIf(w.digits.text = said)
           L == OneIf(w.last.text = said)
<1>1. /\ m.to \in 1..Len(text)
      /\ \/ m.to = 1 /\ w.kind = "fc2"
         \/ /\ m.to = 2 /\ Word(text, 1) = FC /\ LettersOf(w) = PPV
            /\ w.kind = "plain" /\ w.lead = None
  <2>1. 1 + 1 = 2
    OBVIOUS
  <2> QED
    BY <2>1, Sequence, MarkFacts
<1>2. D \in Nat /\ L \in Nat /\ CountWord(FC, said) \in Nat /\ CountWord(PPV, said) \in Nat
  BY CountWordNat DEF OneIf
<1>3. w \in WellFormed
  BY <1>1, WordsOfTexts
<1>4. CASE m.to = 1 /\ w.kind = "fc2"
  <2>1. w.lead = None /\ w.letters = None
    BY <1>3, <1>4 DEF WellFormed
  <2>2. OneIf(w.lead.text = said) = 0 /\ OneIf(w.letters.text = said) = 0
    BY <2>1, CountFields
  <2>3. CountWord(w, said) = OneIf(w.lead.text = said) + OneIf(w.letters.text = said) + D + L
    BY <1>4 DEF CountWord, Telling
  <2>4. CountWord(w, said) = D + L
    BY <1>2, <2>2, <2>3
  <2>5. /\ Count(text, said) = CountWord(w, said) + Count(From(text, m.to + 1), said)
        /\ Count(From(text, m.to + 1), said) \in Nat /\ Count(text, said) \in Nat
    BY <1>1, <1>4, CountSteps
  <2> HIDE DEF w, D, L
  <2> QED
    BY <1>1, <1>2, <2>4, <2>5 DEF w, D, L
<1>5. CASE /\ m.to = 2 /\ Word(text, 1) = FC /\ LettersOf(w) = PPV
           /\ w.kind = "plain" /\ w.lead = None
  <2>1. CountWord(PPV, said) = OneIf(w.letters.text = said)
    <3>1. LettersOf(w).letters = w.letters
      BY DEF LettersOf, Plain
    <3>2. CountWord(LettersOf(w), said) = OneIf(w.letters.text = said)
      BY CountFields DEF LettersOf
    <3> QED
      BY <1>5, <3>2
  <2>2. OneIf(w.lead.text = said) = 0
    BY <1>5, CountFields
  <2>3. CountWord(w, said) = OneIf(w.lead.text = said) + OneIf(w.letters.text = said) + D + L
    BY <1>5 DEF CountWord, Telling
  <2>4. CountWord(w, said) = CountWord(PPV, said) + D + L
    BY <1>2, <2>1, <2>2, <2>3
  <2>5. /\ Count(text, said) = CountWord(FC, said) + Count(From(text, 2), said)
        /\ Count(text, said) \in Nat
    <3>1. 1 + 1 = 2 /\ 1 \in 1..Len(text)
      BY <1>1, <1>5
    <3> QED
      BY <1>5, <3>1, CountSteps
  <2>6. /\ Count(From(text, 2), said) = CountWord(w, said) + Count(From(text, m.to + 1), said)
        /\ Count(From(text, m.to + 1), said) \in Nat
    BY <1>1, <1>5, CountSteps
  <2> HIDE DEF w, D, L
  <2> QED
    BY <1>1, <1>2, <2>4, <2>5, <2>6 DEF w, D, L
<1> QED
  BY <1>1, <1>4, <1>5

LEMMA Fc2Keeps ==
  ASSUME NEW text \in Texts, NEW b, AtFc2(b, text, 1), b.left = <<>>,
         NEW said, said \notin Ignored
  PROVE  Keeps(text, b, said)
<1>1. PICK m \in Fc2Marks(text) :
        /\ m.from = 1
        /\ \/ /\ b = Candidate(95, 1, m.to, Fc2Code(DigitsOf(Word(text, m.to))),
                               BehindDigits(text, m.to))
              /\ Word(text, m.to).digits.size \in 5..8
           \/ /\ b = Candidate(95, 1, m.to + 1, Fc2Code(Opening(Word(text, m.to + 1))),
                               BehindOpening(text, m.to + 1))
              /\ Word(text, m.to).digits = None
              /\ Joined(text, m.to + 1) /\ Opens(Word(text, m.to + 1), 5, 8)
  BY Zenon DEF AtFc2
<1> DEFINE j == m.to
           w == Word(text, j)
           D == OneIf(w.digits.text = said)
           L == OneIf(w.last.text = said)
           F == CountWord(FC, said)
           P == CountWord(PPV, said)
           after == Count(From(text, j + 1), said)
<1>2. /\ j \in 1..Len(text) /\ Count(text, said) \in Nat
      /\ Count(text, said) <= F + P + D + L + after
  BY <1>1, MarkKeeps
<1>3. F \in Nat /\ P \in Nat /\ D \in Nat /\ L \in Nat
  BY CountWordNat DEF OneIf
<1>4. CASE b = Candidate(95, 1, j, Fc2Code(DigitsOf(w)), BehindDigits(text, j))
  <2> DEFINE code == Fc2Code(DigitsOf(w))
             rest == BehindDigits(text, j)
  <2>1. rest \in Texts /\ Count(rest, said) = L + after /\ Count(rest, said) \in Nat
    BY <1>2, DigitsKeep
  <2>2. CountWord(DigitsOf(w), said) = D
    BY CountFields DEF DigitsOf
  <2>3. Count(code, said) = F + P + D
    BY <2>2, CountFc2
  <2> HIDE DEF code, rest
  <2>4. /\ b.code = code /\ b.part = ParseTail(rest).part /\ b.variant = ParseTail(rest).variant
        /\ ParseTail(rest).left = <<>>
    BY <1>4, CandidateFields DEF code, rest
  <2>5. after \in Nat
    BY <1>2, CountSteps
  <2> HIDE DEF D, L, F, P, after, w
  <2>6. /\ Count(text, said) <= Count(b.code, said) + Count(rest, said)
        /\ Count(text, said) \in Nat /\ Count(b.code, said) \in Nat /\ Count(rest, said) \in Nat
    BY <1>2, <1>3, <2>1, <2>3, <2>4, <2>5
  <2> QED
    BY <2>1, <2>4, <2>6, HeadKeeps
<1>5. CASE /\ b = Candidate(95, 1, j + 1, Fc2Code(Opening(Word(text, j + 1))), BehindOpening(text, j + 1))
           /\ w.digits = None /\ Joined(text, j + 1)
  <2> DEFINE code == Fc2Code(Opening(Word(text, j + 1)))
             rest == BehindOpening(text, j + 1)
             O == CountWord(Opening(Word(text, j + 1)), said)
  <2>1. j + 1 \in 1..Len(text)
    <3>1. Len(text) \in Nat
      BY CountSteps
    <3>2. j + 1 <= Len(text)
      BY <1>5 DEF Joined
    <3> QED
      BY <1>2, <3>1, <3>2
  <2>2. /\ rest \in Texts /\ after <= O + Count(rest, said) /\ after \in Nat
        /\ O \in Nat /\ Count(rest, said) \in Nat
    BY <2>1, OpeningKeeps
  <2>3. Count(code, said) = F + P + O
    BY CountFc2
  <2>4. D = 0 /\ L = 0
    <3>1. w \in WellFormed
      BY <1>2, WordsOfTexts
    <3>2. w.last = None
      BY <1>5, <3>1 DEF WellFormed
    <3> QED
      BY <1>5, <3>2, CountFields
  <2> HIDE DEF code, rest
  <2>5. /\ b.code = code /\ b.part = ParseTail(rest).part /\ b.variant = ParseTail(rest).variant
        /\ ParseTail(rest).left = <<>>
    BY <1>5, CandidateFields DEF code, rest
  <2> HIDE DEF D, L, F, P, O, after, w
  <2>6. /\ Count(text, said) <= Count(b.code, said) + Count(rest, said)
        /\ Count(text, said) \in Nat /\ Count(b.code, said) \in Nat /\ Count(rest, said) \in Nat
    BY <1>2, <1>3, <2>2, <2>3, <2>4, <2>5
  <2> QED
    BY <2>2, <2>5, <2>6, HeadKeeps
<1> QED
  BY <1>1, <1>4, <1>5

\* Mixed prefixes and standard codes are two words as they are.
LEMMA PairKeeps ==
  ASSUME NEW text \in Texts, NEW b, 1 \in 1..(Len(text) - 1), NEW sep,
         b = Candidate(92, 1, 2, Code(sep, Word(text, 1), Word(text, 2)), From(text, 3)),
         b.left = <<>>, NEW said, said \notin Ignored
  PROVE  Keeps(text, b, said)
<1> DEFINE R(i) == Count(From(text, i), said)
           W(i) == CountWord(Word(text, i), said)
           code == Code(sep, Word(text, 1), Word(text, 2))
           rest == From(text, 3)
<1>1. 1 \in 1..Len(text) /\ 2 \in 1..Len(text)
  BY CountSteps
<1>2. /\ R(1) = W(1) + R(2) /\ R(2) = W(2) + R(3)
      /\ R(1) \in Nat /\ R(2) \in Nat /\ R(3) \in Nat
      /\ W(1) \in Nat /\ W(2) \in Nat /\ rest \in Texts /\ R(1) = Count(text, said)
  <2>1. 1 + 1 = 2 /\ 2 + 1 = 3
    OBVIOUS
  <2>2. R(1) = W(1) + R(2) /\ R(1) \in Nat /\ R(2) \in Nat /\ W(1) \in Nat
    BY <1>1, <2>1, CountSteps
  <2>3. R(2) = W(2) + R(3) /\ R(3) \in Nat /\ W(2) \in Nat /\ rest \in Texts
    BY <1>1, <2>1, CountSteps
  <2>4. R(1) = Count(text, said)
    BY CountSteps
  <2> QED
    BY <2>2, <2>3, <2>4
<1>3. Count(code, said) = W(1) + W(2)
  BY CountCode
<1> HIDE DEF code, rest
<1>4. /\ b.code = code /\ b.part = ParseTail(rest).part /\ b.variant = ParseTail(rest).variant
      /\ ParseTail(rest).left = <<>>
  BY CandidateFields DEF code, rest
<1> HIDE DEF W
<1>5. /\ Count(text, said) <= Count(b.code, said) + Count(rest, said)
      /\ Count(text, said) \in Nat /\ Count(b.code, said) \in Nat /\ Count(rest, said) \in Nat
  BY <1>2, <1>3, <1>4 DEF rest
<1> QED
  BY <1>2, <1>4, <1>5, HeadKeeps

\* A code that is one word cut in two.
LEMMA OneKeeps ==
  ASSUME NEW text \in Texts, NEW b, 1 \in 1..Len(text), NEW weight, NEW w1, NEW w2,
         b = Candidate(weight, 1, 1, Code("-", w1, w2), From(text, 2)),
         b.left = <<>>, NEW said, said \notin Ignored,
         CountWord(Word(text, 1), said) = CountWord(w1, said) + CountWord(w2, said)
  PROVE  Keeps(text, b, said)
<1> DEFINE code == Code("-", w1, w2)
           rest == From(text, 2)
<1>1. /\ Count(text, said) = CountWord(Word(text, 1), said) + Count(rest, said)
      /\ Count(text, said) \in Nat /\ Count(rest, said) \in Nat
      /\ CountWord(Word(text, 1), said) \in Nat /\ rest \in Texts
  <2>1. 1 + 1 = 2
    OBVIOUS
  <2> QED
    BY <2>1, CountSteps
<1>2. Count(code, said) = CountWord(w1, said) + CountWord(w2, said)
  BY CountCode
<1> HIDE DEF code, rest
<1>3. /\ b.code = code /\ b.part = ParseTail(rest).part /\ b.variant = ParseTail(rest).variant
      /\ ParseTail(rest).left = <<>>
  BY CandidateFields DEF code, rest
<1>4. /\ Count(text, said) <= Count(b.code, said) + Count(rest, said)
      /\ Count(text, said) \in Nat /\ Count(b.code, said) \in Nat /\ Count(rest, said) \in Nat
  BY <1>1, <1>2, <1>3
<1> QED
  BY <1>1, <1>3, <1>4, HeadKeeps

LEMMA CompactKeeps ==
  ASSUME NEW text \in Texts, NEW b, 1 \in 1..Len(text), AtCompact(b, text, 1),
         b.left = <<>>, NEW said, said \notin Ignored
  PROVE  Keeps(text, b, said)
<1> DEFINE w == Word(text, 1)
<1>1. w.lead = None /\ w.last = None /\ w.kind = "plain"
  BY DEF AtCompact, IsCompact
<1>2. /\ CountWord(LettersOf(w), said) = OneIf(w.letters.text = said)
      /\ CountWord(DigitsOf(w), said) = OneIf(w.digits.text = said)
  BY CountFields DEF LettersOf, DigitsOf
<1>3. OneIf(w.lead.text = said) = 0 /\ OneIf(w.last.text = said) = 0
  BY <1>1, CountFields
<1>4. CountWord(w, said) = OneIf(w.lead.text = said) + OneIf(w.letters.text = said)
                             + OneIf(w.digits.text = said) + OneIf(w.last.text = said)
  BY <1>1 DEF CountWord, Telling
<1>5. OneIf(w.letters.text = said) \in Nat /\ OneIf(w.digits.text = said) \in Nat
  BY DEF OneIf
<1>6. CountWord(w, said) = CountWord(LettersOf(w), said) + CountWord(DigitsOf(w), said)
  BY <1>2, <1>3, <1>4, <1>5
<1>7. b = Candidate(86, 1, 1, Code("-", LettersOf(w), DigitsOf(w)), From(text, 2))
  <2>1. 1 + 1 = 2
    OBVIOUS
  <2> QED
    BY <2>1, Zenon DEF AtCompact
<1> HIDE DEF w
<1> QED
  BY <1>6, <1>7, OneKeeps DEF w

LEMMA GluedKeeps ==
  ASSUME NEW text \in Texts, NEW b, 1 \in 1..Len(text), AtGlued(b, text, 1),
         b.left = <<>>, NEW said, said \notin Ignored
  PROVE  Keeps(text, b, said)
<1> DEFINE w == Word(text, 1)
           v == [w EXCEPT !.digits = None]
<1>1. b = Candidate(92, 1, 1, Code("-", v, DigitsOf(w)), From(text, 2)) /\ IsMixed(v)
  <2>1. 1 + 1 = 2
    OBVIOUS
  <2> QED
    BY <2>1, Zenon DEF AtGlued
<1>2. w \in WellFormed
  BY WordsOfTexts
<1>3. /\ v.kind = w.kind /\ v.lead = w.lead /\ v.letters = w.letters
      /\ v.digits = None /\ v.last = w.last
  BY <1>2 DEF WellFormed
<1> HIDE DEF v
<1>4. w.last = None /\ w.kind = "plain"
  BY <1>1, <1>3 DEF IsMixed
<1>5. CountWord(DigitsOf(w), said) = OneIf(w.digits.text = said)
  BY CountFields DEF DigitsOf
<1>6. OneIf(v.digits.text = said) = 0
  BY <1>3, CountFields
<1>7. CountWord(w, said) = OneIf(w.lead.text = said) + OneIf(w.letters.text = said)
                             + OneIf(w.digits.text = said) + OneIf(w.last.text = said)
  BY <1>4 DEF CountWord, Telling
<1>8. CountWord(v, said) = OneIf(w.lead.text = said) + OneIf(w.letters.text = said)
                             + OneIf(v.digits.text = said) + OneIf(w.last.text = said)
  BY <1>3, <1>4 DEF CountWord, Telling
<1>9. /\ OneIf(w.lead.text = said) \in Nat /\ OneIf(w.letters.text = said) \in Nat
      /\ OneIf(w.digits.text = said) \in Nat /\ OneIf(w.last.text = said) \in Nat
  BY DEF OneIf
<1>10. CountWord(w, said) = CountWord(v, said) + CountWord(DigitsOf(w), said)
  BY <1>5, <1>6, <1>7, <1>8, <1>9
<1> HIDE DEF w
<1> QED
  BY <1>1, <1>10, OneKeeps DEF w

\* Two numbers, the first of which begins the text.
LEMMA NumericKeeps ==
  ASSUME NEW text \in Texts, NEW b, 1 \in 1..(Len(text) - 1), AtNumeric(b, text, 1),
         ~b.before, b.left = <<>>, NEW said, said \notin Ignored
  PROVE  Keeps(text, b, said)
<1> DEFINE w == Word(text, 1)
           before == (1 > 1 \/ ~IsNumber(w, 6, 6))
           second == Opening(Word(text, 2))
           code == Code(Underscore, DigitsOf(w), second)
           rest == BehindOpening(text, 2)
           D == CountWord(DigitsOf(w), said)
           O == CountWord(second, said)
           after == Count(From(text, 2), said)
<1>1. 1 \in 1..Len(text) /\ 2 \in 1..Len(text)
  BY CountSteps
<1>2. b = WithBefore(Candidate(78, 1, 2, code, rest), before)
  <2>1. 1 + 1 = 2
    OBVIOUS
  <2> QED
    BY <2>1, Zenon DEF AtNumeric
<1>3. Count(text, said) = CountWord(w, said) + after /\ Count(text, said) \in Nat /\ after \in Nat
  <2>1. 1 + 1 = 2
    OBVIOUS
  <2> QED
    BY <1>1, <2>1, CountSteps
<1>4. rest \in Texts /\ after <= O + Count(rest, said) /\ O \in Nat /\ Count(rest, said) \in Nat
  BY <1>1, OpeningKeeps
<1>5. Count(code, said) = D + O /\ D \in Nat
  BY CountCode, CountWordNat
<1>6. b.before = before
  <2> HIDE DEF code, rest, before
  <2> QED
    BY <1>2, CandidateFields
<1>7. IsNumber(w, 6, 6)
  BY <1>6
<1>8. CountWord(w, said) = D
  <2>1. w.kind = "plain" /\ w.lead = None /\ w.letters = None /\ w.last = None
    BY <1>7 DEF IsNumber
  <2>2. /\ OneIf(w.lead.text = said) = 0 /\ OneIf(w.letters.text = said) = 0
        /\ OneIf(w.last.text = said) = 0
    BY <2>1, CountFields
  <2>3. CountWord(w, said) = OneIf(w.lead.text = said) + OneIf(w.letters.text = said)
                               + OneIf(w.digits.text = said) + OneIf(w.last.text = said)
    BY <2>1 DEF CountWord, Telling
  <2>4. D = OneIf(w.digits.text = said) /\ OneIf(w.digits.text = said) \in Nat
    BY CountFields DEF DigitsOf, OneIf
  <2> QED
    BY <2>2, <2>3, <2>4
<1> HIDE DEF code, rest, before
<1>9. /\ b.code = code /\ b.part = ParseTail(rest).part /\ b.variant = ParseTail(rest).variant
      /\ ParseTail(rest).left = <<>>
  BY <1>2, CandidateFields
<1> HIDE DEF D, O, after, w, second
<1>10. /\ Count(text, said) <= Count(b.code, said) + Count(rest, said)
       /\ Count(text, said) \in Nat /\ Count(b.code, said) \in Nat /\ Count(rest, said) \in Nat
  BY <1>3, <1>4, <1>5, <1>8, <1>9
<1> QED
  BY <1>4, <1>9, <1>10, HeadKeeps

\* A code with a letter keeps it as its variant, unless another one follows.
LEMMA LetteredTail ==
  ASSUME NEW text \in Texts, NEW rest \in Texts, NEW said, said \notin Ignored, NEW b,
         NEW letter, NEW head \in Nat,
         Count(text, said) = head + Count(rest, said),
         head = Count(b.code, said) + OneIf(letter.text = said),
         Count(rest, said) \in Nat, Count(b.code, said) \in Nat,
         b.part = ParseTail(rest).part, b.variant = Suffix(Plain(None, letter, None, None)),
         ParseTail(rest).left = <<>>, ParseTail(rest).variant = <<>>
  PROVE  Keeps(text, b, said)
<1>1. /\ Count(rest, said) <= Count(b.part, said) + Count(<<>>, said) /\ Count(b.part, said) \in Nat
  BY TailKeeps DEF Texts
<1>2. Count(<<>>, said) = 0
  BY CountEmpty
<1>3. Count(b.variant, said) = OneIf(letter.text = said)
  BY CountSuffix, CountFields
<1>4. OneIf(letter.text = said) \in Nat
  BY DEF OneIf
<1> QED
  BY <1>1, <1>2, <1>3, <1>4 DEF Keeps

\* Candidates where they are, with the letters told apart.
LEMMA LetterCases ==
  ASSUME NEW text \in Texts, NEW b \in Candidates(text)
  PROVE  \E i \in 1..Len(text) :
           \/ AtFc2(b, text, i) \/ AtGlued(b, text, i) \/ AtCompact(b, text, i)
           \/ AtLettered(b, text, i) /\ b \in SuffixVariant(text)
           \/ AtNumeric(b, text, i) /\ i \in 1..(Len(text) - 1)
           \/ AtMixed(b, text, i) /\ i \in 1..(Len(text) - 1)
           \/ AtLetterBehind(b, text, i) /\ i \in 1..(Len(text) - 1) /\ b \in SuffixVariant(text)
           \/ AtStandard(b, text, i) /\ i \in 1..(Len(text) - 1)
<1>0. Len(text) \in Nat /\ \A i \in 1..(Len(text) - 1) : i \in 1..Len(text)
  BY DEF Texts
<1>1. IsSequence(text)
  BY Sequence
<1> QED
  BY <1>0, <1>1, CandidateSorts, Zenon

LEMMA NotCut ==
  ASSUME NEW w, IsLettered(w), ~(w.digits.size > 3)
  PROVE  LET k == CutAt(w.digits)
         IN  /\ Plain(None, w.letters, FirstOf(w.digits, k), None) = LettersOf(w)
             /\ Plain(None, None, RestOf(w.digits, k), None) = DigitsOf(w)
<1>1. w.digits.size = 3
  BY DEF IsLettered
<1>2. CutAt(w.digits) = 0
  BY <1>1 DEF CutAt
<1> QED
  BY <1>2 DEF FirstOf, RestOf, LettersOf, DigitsOf

LEMMA LetteredKeeps ==
  ASSUME NEW text \in Texts, NEW b, 1 \in 1..Len(text), AtLettered(b, text, 1),
         \A i \in DOMAIN text : ~(IsLettered(Word(text, i)) /\ Word(text, i).digits.size > 3),
         b.left = <<>>, NEW said, said \notin Ignored, ParseTail(From(text, b.to + 1)).variant = <<>>
  PROVE  Keeps(text, b, said)
<1> DEFINE R(i) == Count(From(text, i), said)
           W(i) == CountWord(Word(text, i), said)
           w == Word(text, 1)
           code == Code("-", LettersOf(w), DigitsOf(w))
           rest == From(text, 2)
           c == Candidate(90, 1, 1, code, rest)
<1>0. 1 + 1 = 2
  OBVIOUS
<1>1. b.to = 1
  BY Sequence, StartOf
<1>2. /\ R(1) = W(1) + R(2) /\ R(1) \in Nat /\ R(2) \in Nat
      /\ W(1) \in Nat /\ rest \in Texts /\ R(1) = Count(text, said)
  BY <1>0, CountSteps
<1>3. Count(code, said) = CountWord(LettersOf(w), said) + CountWord(DigitsOf(w), said)
  BY CountCode
<1>4. w.lead = None /\ w.kind = "plain" /\ b = Lettered(c, w.last)
  <2>1. PICK k :
          /\ k = CutAt(w.digits) /\ IsLettered(w)
          /\ b = Lettered(Candidate(90, 1, 1,
                                   Code("-", Plain(None, w.letters, FirstOf(w.digits, k), None),
                                        Plain(None, None, RestOf(w.digits, k), None)),
                                   rest), w.last)
    BY <1>0, Zenon DEF AtLettered
  <2>2. 1 \in DOMAIN text
    BY Sequence DEF IsSequence
  <2>3. /\ Plain(None, w.letters, FirstOf(w.digits, k), None) = LettersOf(w)
        /\ Plain(None, None, RestOf(w.digits, k), None) = DigitsOf(w)
    BY <2>1, <2>2, NotCut
  <2>4. b = Lettered(c, w.last)
    BY <2>1, <2>3, Zenon
  <2> QED
    BY <2>1, <2>4 DEF IsLettered
<1>5. /\ CountWord(LettersOf(w), said) = OneIf(w.letters.text = said)
      /\ CountWord(DigitsOf(w), said) = OneIf(w.digits.text = said)
  BY CountFields DEF LettersOf, DigitsOf
<1>6. /\ W(1) = OneIf(w.letters.text = said) + OneIf(w.digits.text = said) + OneIf(w.last.text = said)
      /\ OneIf(w.letters.text = said) + OneIf(w.digits.text = said) \in Nat
  <2>1. OneIf(w.lead.text = said) = 0
    BY <1>4, CountFields
  <2>2. W(1) = OneIf(w.lead.text = said) + OneIf(w.letters.text = said)
                 + OneIf(w.digits.text = said) + OneIf(w.last.text = said)
    BY <1>4 DEF CountWord, Telling
  <2>3. OneIf(w.letters.text = said) \in Nat /\ OneIf(w.digits.text = said) \in Nat
    BY DEF OneIf
  <2> QED
    BY <2>1, <2>2, <2>3
<1>7. ParseTail(rest).variant = <<>>
  BY <1>0, <1>1
<1> HIDE DEF code, rest
<1>8. /\ b.code = code /\ b.part = ParseTail(rest).part
      /\ b.variant = Suffix(Plain(None, w.last, None, None)) /\ ParseTail(rest).left = <<>>
  <2>1. /\ b.code = code /\ b.part = c.part /\ b.left = c.left
        /\ b.variant = Suffix(Plain(None, w.last, None, None))
    BY <1>4, CandidateFields
  <2>2. c.part = ParseTail(rest).part /\ c.left = ParseTail(rest).left
    BY CandidateFields
  <2> HIDE DEF c, w
  <2> QED
    BY <2>1, <2>2
<1>9. Count(rest, said) = R(2)
  BY DEF rest
<1> DEFINE letter == w.last
           head == W(1)
<1>10. /\ head \in Nat /\ Count(text, said) = head + Count(rest, said)
       /\ Count(rest, said) \in Nat
  <2> HIDE DEF W, R
  <2> QED
    BY <1>2, <1>9
<1>11. Count(code, said) = OneIf(w.letters.text = said) + OneIf(w.digits.text = said)
  BY <1>3, <1>5, Zenon
<1> HIDE DEF W, w
<1>12. head = Count(b.code, said) + OneIf(letter.text = said) /\ Count(b.code, said) \in Nat
  BY <1>6, <1>8, <1>11, Zenon
<1> HIDE DEF head, letter
<1>13. b.variant = Suffix(Plain(None, letter, None, None))
  BY <1>8 DEF letter
<1> QED
  BY <1>2, <1>7, <1>8, <1>10, <1>12, <1>13, LetteredTail

LEMMA LetterBehindKeeps ==
  ASSUME NEW text \in Texts, NEW b, 1 \in 1..(Len(text) - 1), AtLetterBehind(b, text, 1),
         b.left = <<>>, NEW said, said \notin Ignored, ParseTail(From(text, b.to + 1)).variant = <<>>
  PROVE  Keeps(text, b, said)
<1> DEFINE R(i) == Count(From(text, i), said)
           W(i) == CountWord(Word(text, i), said)
           w == Word(text, 2)
           number == Plain(None, None, w.lead, None)
           code == Code("-", Word(text, 1), number)
           rest == From(text, 3)
           c == Candidate(90, 1, 2, code, rest)
<1>0. 1 + 1 = 2 /\ 1 + 2 = 3 /\ 2 + 1 = 3
  OBVIOUS
<1>1. b.to = 2
  BY <1>0, Sequence, StartOf
<1>2. /\ R(1) = W(1) + R(2) /\ R(2) = W(2) + R(3) /\ R(1) \in Nat /\ R(2) \in Nat /\ R(3) \in Nat
      /\ W(1) \in Nat /\ W(2) \in Nat /\ rest \in Texts /\ R(1) = Count(text, said)
  <2>1. 1 \in 1..Len(text) /\ 2 \in 1..Len(text)
    BY CountSteps
  <2> QED
    BY <1>0, <2>1, CountSteps
<1>3. Count(code, said) = W(1) + CountWord(number, said)
  BY CountCode
<1>4. w.digits = None /\ b = Lettered(c, w.letters)
  BY <1>0, Zenon DEF AtLetterBehind
<1>5. CountWord(number, said) = OneIf(w.lead.text = said)
  BY CountFields
<1>6. /\ W(2) <= OneIf(w.lead.text = said) + OneIf(w.letters.text = said)
      /\ OneIf(w.lead.text = said) \in Nat /\ OneIf(w.letters.text = said) \in Nat
  <2>0. 2 \in 1..Len(text)
    BY CountSteps
  <2>1. w \in WellFormed
    BY <2>0, WordsOfTexts
  <2>2. w.last = None
    BY <1>4, <2>1 DEF WellFormed
  <2>3. OneIf(w.digits.text = said) = 0 /\ OneIf(w.last.text = said) = 0
    BY <1>4, <2>2, CountFields
  <2>4. W(2) = 0 \/ W(2) = OneIf(w.lead.text = said) + OneIf(w.letters.text = said)
                             + OneIf(w.digits.text = said) + OneIf(w.last.text = said)
    BY DEF CountWord
  <2>5. OneIf(w.letters.text = said) \in Nat /\ OneIf(w.lead.text = said) \in Nat
    BY DEF OneIf
  <2> HIDE DEF w, W
  <2> QED
    BY <2>3, <2>4, <2>5
<1>7. ParseTail(rest).variant = <<>>
  BY <1>0, <1>1
<1> HIDE DEF code, rest
<1>8. /\ b.code = code /\ b.part = ParseTail(rest).part
      /\ b.variant = Suffix(Plain(None, w.letters, None, None)) /\ ParseTail(rest).left = <<>>
  <2>1. /\ b.code = code /\ b.part = c.part /\ b.left = c.left
        /\ b.variant = Suffix(Plain(None, w.letters, None, None))
    BY <1>4, CandidateFields
  <2>2. c.part = ParseTail(rest).part /\ c.left = ParseTail(rest).left
    BY CandidateFields
  <2> HIDE DEF c, w
  <2> QED
    BY <2>1, <2>2
<1>9. Count(rest, said) = R(3)
  BY DEF rest
<1>10. /\ Count(rest, said) <= Count(b.part, said) + Count(<<>>, said) /\ Count(b.part, said) \in Nat
  BY <1>2, <1>7, <1>8, TailKeeps DEF Texts
<1>11. Count(<<>>, said) = 0
  BY CountEmpty
<1>12. Count(b.variant, said) = OneIf(w.letters.text = said)
  BY <1>8, CountSuffix, CountFields
<1>13. Count(b.code, said) = W(1) + OneIf(w.lead.text = said)
  BY <1>3, <1>5, <1>8, Zenon
<1> HIDE DEF W, R, w
<1>14. Count(rest, said) <= Count(b.part, said)
  BY <1>10, <1>11
<1> PICK lead, letters : lead = OneIf(w.lead.text = said) /\ letters = OneIf(w.letters.text = said)
  OBVIOUS
<1> PICK head, tail, variant : /\ head = Count(b.code, said) /\ tail = Count(b.part, said)
                               /\ variant = Count(b.variant, said)
  OBVIOUS
<1>15. /\ lead \in Nat /\ letters \in Nat /\ W(2) <= lead + letters
       /\ head = W(1) + lead /\ variant = letters
  BY <1>6, <1>12, <1>13
<1>16. R(3) <= tail /\ tail \in Nat
  BY <1>9, <1>10, <1>14
<1> PICK r1, r2, r3, w1, w2 : /\ r1 = R(1) /\ r2 = R(2) /\ r3 = R(3)
                               /\ w1 = W(1) /\ w2 = W(2)
  OBVIOUS
<1>17. /\ r1 = w1 + r2 /\ r2 = w2 + r3 /\ r1 \in Nat /\ r2 \in Nat /\ r3 \in Nat
       /\ w1 \in Nat /\ w2 \in Nat
  BY <1>2
<1>18. w2 <= lead + letters /\ head = w1 + lead /\ r3 <= tail
  BY <1>15, <1>16
<1>19. lead \in Nat /\ letters \in Nat /\ variant = letters /\ tail \in Nat
  BY <1>15, <1>16
<1>20. \A m, n, o, x, y, z \in Nat : n <= x + y /\ o <= z => m + (n + o) <= (m + x) + z + y
  OBVIOUS
<1>21. r1 <= head + tail + variant
  <2>1. w1 + (w2 + r3) <= (w1 + lead) + tail + letters
    BY <1>17, <1>18, <1>19, <1>20, Zenon
  <2> QED
    BY <1>17, <1>18, <1>19, <2>1, Zenon
<1>22. r1 = Count(text, said)
  BY <1>2
<1> QED
  BY <1>21, <1>22, Zenon DEF Keeps

LEMMA CandidateKeeps ==
  ASSUME NEW text \in Texts, NEW b \in Candidates(text), ~b.before, b.left = <<>>,
         NEW said, said \notin Ignored,
         \A i \in DOMAIN text : ~(IsLettered(Word(text, i)) /\ Word(text, i).digits.size > 3),
         \A c \in SuffixVariant(text) : ParseTail(From(text, c.to + 1)).variant = <<>>
  PROVE  Keeps(text, b, said)
<1>0. 1 + 1 = 2 /\ 1 + 2 = 3
  OBVIOUS
<1>1. PICK i \in 1..Len(text) :
        \/ AtFc2(b, text, i) \/ AtGlued(b, text, i) \/ AtCompact(b, text, i)
        \/ AtLettered(b, text, i) /\ b \in SuffixVariant(text)
        \/ AtNumeric(b, text, i) /\ i \in 1..(Len(text) - 1)
        \/ AtMixed(b, text, i) /\ i \in 1..(Len(text) - 1)
        \/ AtLetterBehind(b, text, i) /\ i \in 1..(Len(text) - 1) /\ b \in SuffixVariant(text)
        \/ AtStandard(b, text, i) /\ i \in 1..(Len(text) - 1)
  BY LetterCases
<1>2. i = 1
  <2>1. IsSequence(text)
    BY Sequence
  <2>2. b.from = 1
    BY <2>1, NothingBefore
  <2> QED
    BY <1>1, <2>1, <2>2, StartOf
<1>3. CASE AtFc2(b, text, i)
  BY <1>2, <1>3, Fc2Keeps
<1>4. CASE AtNumeric(b, text, i) /\ i \in 1..(Len(text) - 1)
  BY <1>2, <1>4, NumericKeeps
<1>5. CASE AtMixed(b, text, i) /\ i \in 1..(Len(text) - 1)
  <2>1. b = Candidate(92, 1, 2, Code("-", Word(text, 1), Word(text, 2)), From(text, 3))
    BY <1>0, <1>2, <1>5, Zenon DEF AtMixed
  <2> QED
    BY <1>2, <1>5, <2>1, PairKeeps
<1>6. CASE AtLetterBehind(b, text, i) /\ i \in 1..(Len(text) - 1) /\ b \in SuffixVariant(text)
  BY <1>2, <1>6, LetterBehindKeeps
<1>7. CASE AtStandard(b, text, i) /\ i \in 1..(Len(text) - 1)
  <2>1. b = Candidate(92, 1, 2, Code("-", Word(text, 1), Word(text, 2)), From(text, 3))
    BY <1>0, <1>2, <1>7, Zenon DEF AtStandard
  <2> QED
    BY <1>2, <1>7, <2>1, PairKeeps
<1>8. CASE AtLettered(b, text, i) /\ b \in SuffixVariant(text)
  BY <1>2, <1>8, LetteredKeeps
<1>9. CASE AtCompact(b, text, i)
  BY <1>2, <1>9, CompactKeeps
<1>10. CASE AtGlued(b, text, i)
  BY <1>2, <1>10, GluedKeeps
<1> QED
  BY <1>1, <1>3, <1>4, <1>5, <1>6, <1>7, <1>8, <1>9, <1>10

-----------------------------------------------------------------------------
(* From the name a file has to the one that is suggested for it.           *)

LEMMA ReadableFacts ==
  ASSUME NEW text
  PROVE  /\ Readable(text) \subseteq DOMAIN text
         /\ \A i \in Readable(text) : Word(text, i).kind \in Telling /\ i \notin SiteWords(text)
         /\ \A said : Occurrences(text, said) = Cardinality(Saying(text, Readable(text), said))
BY DEF Readable, OfKind, Occurrences, Saying, Telling

\* No plain word is removed but those a site took along.
LEMMA CleanKeeps ==
  ASSUME NEW text \in Texts, NEW said
  PROVE  Occurrences(text, said) <= Count(CleanText(text), said)
<1> DEFINE I == Readable(text)
           t1 == RemoveAdDomains(text)
           t2 == RemoveBracketAds(t1)
           t3 == RemoveNoise(t2)
           d1 == OfKind(text, {"adDomain"}) \cup SiteWords(text)
           d2 == OfKind(t1, {"adBracket"})
           d3 == OfKind(t2, {"noise", "date"})
<1>1. I \subseteq DOMAIN text /\ \A i \in I : Word(text, i).kind \in Telling /\ i \notin SiteWords(text)
  BY ReadableFacts
<1>2. \A kind \in Telling : kind \notin {"adDomain"} /\ kind \notin {"adBracket"}
                             /\ kind \notin {"noise", "date"} /\ kind # "date"
  BY DEF Telling
<1> HIDE DEF I
<1>3. I \subseteq DOMAIN text \ d1 /\ \A i \in I : Word(text, i).kind # "date"
  BY <1>1, <1>2 DEF OfKind
<1>4. t1 = Without(text, d1) /\ t2 = Without(t1, d2) /\ t3 = Without(t2, d3) /\ CleanText(text) = t3
  BY DEF RemoveAdDomains, RemoveBracketAds, RemoveNoise, CleanText
<1> HIDE DEF t1, t2, t3, d1, d2, d3
<1>5. t1 \in Texts /\ t2 \in Texts /\ t3 \in Texts
  BY <1>4, WithoutText
<1>6. PICK h1 : IsFound(h1, text, I, t1)
  BY <1>3, <1>4, WithoutFacts
<1> DEFINE J == {h1[i] : i \in I}
<1>7. J \subseteq DOMAIN t1 /\ \A j \in J : Word(t1, j).kind \in Telling
  BY <1>1, <1>6 DEF IsFound
<1>8. J \subseteq DOMAIN t1 \ d2 /\ \A j \in J : Word(t1, j).kind # "date"
  BY <1>2, <1>7 DEF OfKind, d2
<1>9. \A i \in I : h1[i] \in J
  OBVIOUS
<1> HIDE DEF J
<1>10. PICK h2 : IsFound(h2, t1, J, t2)
  BY <1>4, <1>5, <1>8, WithoutFacts
<1> DEFINE K == {h2[j] : j \in J}
<1>11. K \subseteq DOMAIN t2 /\ \A k \in K : Word(t2, k).kind \in Telling
  BY <1>7, <1>10 DEF IsFound
<1>12. K \subseteq DOMAIN t2 \ d3 /\ \A k \in K : Word(t2, k).kind # "date"
  BY <1>2, <1>11 DEF OfKind, d3
<1>13. \A j \in J : h2[j] \in K
  OBVIOUS
<1> HIDE DEF K
<1>14. PICK h3 : IsFound(h3, t2, K, t3)
  BY <1>4, <1>5, <1>12, WithoutFacts
<1> DEFINE h == [i \in I |-> h2[h1[i]]]
           g == [i \in I |-> h3[h[i]]]
<1>15. IsFound(h, text, I, t2)
  BY <1>6, <1>9, <1>10, FoundAgain
<1>16. \A i \in I : h[i] \in K
  BY <1>9, <1>13
<1> HIDE DEF h
<1>17. IsFound(g, text, I, t3)
  BY <1>14, <1>15, <1>16, FoundAgain
<1> HIDE DEF g
<1>18. Cardinality(Saying(text, I, said)) <= Count(t3, said)
  BY <1>1, <1>5, <1>17, CountFound DEF Texts
<1> QED
  BY <1>4, <1>18, ReadableFacts DEF I

\* What a stem says is said before its language or by it.
LEMMA ConcatKeeps ==
  ASSUME NEW base \in Texts, NEW language \in Texts, NEW stem, stem = base \o language, NEW said
  PROVE  /\ Occurrences(stem, said) <= Occurrences(base, said) + Count(language, said)
         /\ Occurrences(base, said) \in Nat
<1> DEFINE I == Readable(stem)
           J == Readable(base)
           A == Saying(stem, I, said)
           B == Saying(base, J, said)
           n == Len(base)
           m == Len(language)
<1>1. stem \in Texts
  BY Concat DEF Texts
<1>2. B \subseteq B /\ IsFiniteSet(B) /\ Cardinality(B) \in Nat /\ Cardinality(B) = Occurrences(base, said)
  BY ReadableFacts, SayingFinite DEF Texts
<1>3. IsFiniteSet(A) /\ Cardinality(A) \in Nat /\ Cardinality(A) = Occurrences(stem, said)
  BY <1>1, ReadableFacts, SayingFinite DEF Texts
<1>4. /\ n \in Nat /\ m \in Nat /\ DOMAIN stem = 1..(n + m)
      /\ DOMAIN base = 1..n /\ DOMAIN language = 1..m
      /\ \A k \in 1..n : stem[k] = base[k]
      /\ \A k \in 1..m : stem[n + k] = language[k]
  BY DEF Texts
<1> HIDE DEF I, J, A, B, n, m
<1>5. \A k \in 1..n : k \in 1..(n + m) /\ Word(stem, k) = Word(base, k) /\ stem[k].sep = base[k].sep
  BY <1>4 DEF Word
<1>6. \A i \in 1..n : i \in OfKind(base, {"site"}) => i \in OfKind(stem, {"site"})
  BY <1>4, <1>5 DEF OfKind
<1>7. ASSUME NEW i \in 1..n, NEW j \in SiteStarts(base, i) PROVE j \in SiteStarts(stem, i)
  <2> DEFINE kinds == {"plain", "fc2", "noise", "date", "site"}
             joints == {"-", "."}
  <2>1. j \in 1..i /\ \A k \in 1..i : k \in 1..n
    BY <1>4 DEF SiteStarts
  <2>2. \A k \in j..(i - 1) : k \in 1..n
    BY <1>4, <2>1
  <2>3. \A k \in (j + 1)..i : k \in 1..n
    BY <1>4, <2>1
  <2>4. /\ \A k \in j..(i - 1) : Word(base, k).kind \in kinds
        /\ \A k \in (j + 1)..i : base[k].sep \in joints
        /\ j = 1 \/ base[j].sep # "."
    BY DEF SiteStarts
  <2> HIDE DEF kinds, joints
  <2>5. \A k \in j..(i - 1) : Word(stem, k).kind \in kinds
    BY <1>5, <2>2, <2>4
  <2>6. \A k \in (j + 1)..i : stem[k].sep \in joints
    BY <1>5, <2>3, <2>4
  <2>7. j = 1 \/ stem[j].sep # "."
    BY <1>5, <2>1, <2>4
  <2> QED
    BY <2>1, <2>5, <2>6, <2>7 DEF SiteStarts, kinds, joints
<1>8. SiteWords(base) \subseteq SiteWords(stem)
  <2> SUFFICES ASSUME NEW k \in SiteWords(base) PROVE k \in SiteWords(stem)
    OBVIOUS
  <2>1. PICK i \in OfKind(base, {"site"}) : k \in {q \in 1..i : \E j \in SiteStarts(base, i) : j <= q}
    BY DEF SiteWords
  <2>2. i \in 1..n
    BY <1>4 DEF OfKind
  <2>3. k \in {q \in 1..i : \E j \in SiteStarts(stem, i) : j <= q}
    BY <1>7, <2>1, <2>2
  <2>4. i \in OfKind(stem, {"site"})
    BY <1>6, <2>1, <2>2
  <2> QED
    BY <2>3, <2>4, Zenon DEF SiteWords
<1> DEFINE L == {k \in I : k \notin 1..n}
           C == Saying(stem, L, said)
<1>9. \A k \in I : k \in J \/ k \in L
  <2> SUFFICES ASSUME NEW k \in I, k \in 1..n PROVE k \in J
    OBVIOUS
  <2>1. k \in OfKind(stem, {"plain", "fc2"}) /\ k \notin SiteWords(stem)
    BY DEF I, Readable
  <2>2. k \in OfKind(base, {"plain", "fc2"})
    BY <1>4, <1>5, <2>1 DEF OfKind
  <2> QED
    BY <1>8, <2>1, <2>2 DEF J, Readable
<1>10. J \subseteq 1..n
  BY <1>4, ReadableFacts DEF J
<1> HIDE DEF L
<1>11. A \subseteq B \cup C
  <2> SUFFICES ASSUME NEW at \in A PROVE at \in B \cup C
    OBVIOUS
  <2>1. at \in I \X Fields /\ Word(stem, at[1])[at[2]].text = said
    BY DEF A, Saying
  <2>2. CASE at[1] \in J
    <3>1. at \in J \X Fields /\ Word(stem, at[1]) = Word(base, at[1])
      BY <1>5, <1>10, <2>1, <2>2
    <3> QED
      BY <2>1, <3>1 DEF B, Saying
  <2>3. CASE at[1] \in L
    <3>1. at \in L \X Fields
      BY <2>1, <2>3
    <3> QED
      BY <2>1, <3>1 DEF Saying
  <2> QED
    BY <1>9, <2>1, <2>2, <2>3
<1>12. /\ L \subseteq DOMAIN stem
       /\ \A k \in L : /\ Word(stem, k).kind \in Telling
                       /\ k - n \in 1..m /\ k = n + (k - n)
  <2>1. I \subseteq DOMAIN stem /\ \A k \in I : Word(stem, k).kind \in Telling
    BY ReadableFacts DEF I
  <2>2. \A k \in L : k \in I /\ k \notin 1..n
    BY DEF L
  <2> QED
    BY <1>4, <2>1, <2>2
<1>13. IsFiniteSet(C) /\ Cardinality(C) \in Nat
  BY <1>1, <1>12, SayingFinite DEF Texts
<1>14. Cardinality(C) <= Count(language, said)
  <2> DEFINE h == [k \in L |-> k - n]
  <2>1. \A k \in L : h[k] \in DOMAIN language /\ Word(language, h[k]) = Word(stem, k)
    <3> SUFFICES ASSUME NEW k \in L
                 PROVE  h[k] \in DOMAIN language /\ Word(language, h[k]) = Word(stem, k)
      OBVIOUS
    <3>1. h[k] = k - n /\ k - n \in 1..m /\ k = n + (k - n)
      BY <1>12
    <3>2. stem[n + (k - n)] = language[k - n]
      BY <1>4, <3>1
    <3>3. stem[k] = language[k - n]
      BY <3>1, <3>2
    <3> QED
      BY <1>4, <3>1, <3>3 DEF Word
  <2>2. \A k, q \in L : k # q => h[k] # h[q]
    BY <1>4, <1>12
  <2> HIDE DEF h
  <2>3. IsFound(h, stem, L, language)
    BY <2>1, <2>2 DEF IsFound
  <2> QED
    BY <1>1, <1>12, <2>3, CountFound DEF Texts
<1>15. Count(language, said) \in Nat
  BY CountConcat DEF Texts
<1> HIDE DEF C
<1>16. IsFiniteSet(B \cup C) /\ Cardinality(B \cup C) <= Cardinality(B) + Cardinality(C)
  <2>1. IsFiniteSet(B \cup C) /\ Cardinality(B \cup C) = Cardinality(B) + Cardinality(C) - Cardinality(B \cap C)
    BY <1>2, <1>13, FS_Union
  <2>2. IsFiniteSet(B \cap C)
    BY <1>2, FS_Intersection
  <2>3. Cardinality(B \cap C) \in Nat
    BY <2>2, FS_CardinalityType
  <2> QED
    BY <1>2, <1>13, <2>1, <2>3
<1>17. Cardinality(A) <= Cardinality(B \cup C)
  BY <1>11, <1>16, FS_Subset
<1>18. Cardinality(B \cup C) \in Nat
  BY <1>16, FS_CardinalityType
<1> QED
  BY <1>2, <1>3, <1>13, <1>14, <1>15, <1>16, <1>17, <1>18

LEMMA LanguageKeeps ==
  ASSUME NEW stem \in Texts, NEW ext, NEW said
  PROVE  LET parts == SplitLanguage(stem, ext)
         IN  /\ Occurrences(stem, said) <= Occurrences(parts.base, said) + Count(parts.language, said)
             /\ Occurrences(parts.base, said) \in Nat
<1> PICK base, language : LET parts == SplitLanguage(stem, ext)
                          IN  base = parts.base /\ language = parts.language
  OBVIOUS
<1>1. base \in Texts /\ language \in Texts /\ stem = base \o language
  BY BaseText
<1>2. /\ Occurrences(stem, said) <= Occurrences(base, said) + Count(language, said)
      /\ Occurrences(base, said) \in Nat
  BY <1>1, ConcatKeeps
<1> QED
  BY <1>2

LEMMA SuggestedPlain ==
  ASSUME NEW code, NEW part, NEW variant, NEW language, NEW ext,
         IsCode(code), IsPart(part), IsVariant(variant), IsTongue(language, ext)
  PROVE  AllPlain(code \o part \o variant \o language)
<1> DEFINE base == code \o part \o variant
           stem == base \o language
<1>1. PICK S : code \in Seq(S) /\ part \in Seq(S) /\ variant \in Seq(S) /\ language \in Seq(S)
  BY OneSet DEF IsCode
<1>2. base \in Seq(S) /\ AllPlain(base)
  BY <1>1, BaseWords
<1> HIDE DEF base
<1>6. AllPlain(stem)
  <2> SUFFICES ASSUME NEW k \in DOMAIN stem PROVE Word(stem, k).kind = "plain"
    BY DEF AllPlain
  <2>1. DOMAIN stem = 1..(Len(base) + Len(language)) /\ Len(base) \in Nat /\ Len(language) \in Nat
        /\ DOMAIN base = 1..Len(base)
    BY <1>1, <1>2
  <2>2. CASE k \in 1..Len(base)
    <3>1. stem[k] = base[k]
      BY <1>1, <1>2, <2>2
    <3> QED
      BY <1>2, <2>1, <2>2, <3>1 DEF AllPlain, Word
  <2>3. CASE k \notin 1..Len(base)
    <3>1. k - Len(base) \in 1..Len(language) /\ stem[k] = language[k - Len(base)]
      BY <1>1, <1>2, <2>1, <2>3
    <3>2. ASSUME NEW q \in 1..Len(language) PROVE IsLetters(language[q].word)
      BY DEF IsTongue
    <3> QED
      BY <3>1, <3>2 DEF Word, IsLetters
  <2> QED
    BY <2>2, <2>3
<1> QED
  BY <1>6 DEF stem, base

LEMMA SuggestedSays ==
  ASSUME NEW code, NEW part, NEW variant, NEW language, NEW ext, NEW said,
         IsCode(code), IsPart(part), IsVariant(variant), IsTongue(language, ext)
  PROVE  /\ Occurrences(code \o part \o variant \o language, said) =
              Count(code, said) + Count(part, said) + Count(variant, said) + Count(language, said)
         /\ Count(code, said) \in Nat /\ Count(part, said) \in Nat
         /\ Count(variant, said) \in Nat /\ Count(language, said) \in Nat
<1> DEFINE head == code \o part
           base == head \o variant
           stem == base \o language
<1>1. PICK S : code \in Seq(S) /\ part \in Seq(S) /\ variant \in Seq(S) /\ language \in Seq(S)
  BY OneSet DEF IsCode
<1>2. base \in Seq(S) /\ AllPlain(base) /\ head \in Seq(S) /\ stem \in Seq(S)
  BY <1>1, BaseWords
<1>3. /\ Count(head, said) = Count(code, said) + Count(part, said)
      /\ Count(code, said) \in Nat /\ Count(part, said) \in Nat /\ Count(variant, said) \in Nat
      /\ Count(language, said) \in Nat
  BY <1>1, CountConcat
<1>4. Count(base, said) = Count(head, said) + Count(variant, said)
  <2> HIDE DEF head
  <2> QED
    BY <1>1, <1>2, CountConcat
<1>5. Count(stem, said) = Count(base, said) + Count(language, said)
  <2> HIDE DEF base
  <2> QED
    BY <1>1, <1>2, CountConcat
<1> HIDE DEF head, base
<1>6. AllPlain(stem)
  BY SuggestedPlain DEF base, head
<1> HIDE DEF stem
<1>7. Occurrences(stem, said) = Count(stem, said)
  <2>1. OfKind(stem, Telling) \ SiteWords(stem) = OfKind(stem, Telling)
    BY <1>6, PlainText
  <2>2. Readable(stem) = OfKind(stem, Telling)
    BY <2>1 DEF Readable, Telling
  <2> QED
    BY <2>2, ReadableFacts DEF Count
<1>8. Occurrences(stem, said) =
        Count(code, said) + Count(part, said) + Count(variant, said) + Count(language, said)
  BY <1>3, <1>4, <1>5, <1>7
<1> QED
  BY <1>3, <1>8 DEF stem, base, head

(* A name that the rules suggest without a review, for any text of words, says all that
   the old name said beside ads and noise, each thing as often, unless a code with a
   letter is followed by a variant or is cut out of a longer number, as in ABC1234A
   (rules.py:348-505, with parse_tail and the expressions of the codes). *)
THEOREM SuggestionsKeepText ==
  ASSUME NEW old, old.stem \in Texts, Suggest(old).code # <<>>, ~Suggest(old).review,
         ~HasTwoVariants(old), ~HasCutNumber(old)
  PROVE  KeepsText(old.stem, Suggest(old).name.stem)
<1> DEFINE parts == SplitLanguage(old.stem, old.ext)
           text == CleanText(parts.base)
           b == Best(Candidates(text))
           new == b.code \o b.part \o b.variant \o parts.language
<1>1. /\ text \in Texts /\ b \in Candidates(text)
      /\ IsCode(b.code) /\ IsPart(b.part) /\ IsVariant(b.variant)
      /\ IsTongue(parts.language, old.ext)
      /\ Suggest(old).name = [stem |-> new, ext |-> old.ext, tidy |-> TRUE]
      /\ ~b.before /\ b.left = <<>>
  BY SuggestionFacts
<1>2. Suggest(old).name.stem = new
  <2> HIDE DEF new, b, text, parts
  <2> QED
    BY <1>1
<1>3. \A c \in SuffixVariant(text) : ParseTail(From(text, c.to + 1)).variant = <<>>
  BY DEF HasTwoVariants
<1>15. \A i \in DOMAIN text : ~(IsLettered(Word(text, i)) /\ Word(text, i).digits.size > 3)
  BY DEF HasCutNumber
<1>4. parts.base \in Texts
  BY BaseText
<1> SUFFICES ASSUME NEW said \in Said(old.stem)
             PROVE  Occurrences(old.stem, said) <= Occurrences(new, said)
  BY <1>2 DEF KeepsText
<1>5. said \notin Ignored
  BY DEF Said, Ignored
<1>6. /\ Occurrences(old.stem, said) <= Occurrences(parts.base, said) + Count(parts.language, said)
      /\ Occurrences(parts.base, said) \in Nat
  BY LanguageKeeps
<1>7. Occurrences(parts.base, said) <= Count(text, said)
  BY <1>4, CleanKeeps
<1> HIDE DEF parts, text, b
<1>8. Count(text, said) <= Count(b.code, said) + Count(b.part, said) + Count(b.variant, said)
  BY <1>1, <1>3, <1>5, <1>15, CandidateKeeps DEF Keeps
<1> DEFINE c == b.code
           p == b.part
           v == b.variant
           l == parts.language
<1>9. IsCode(c) /\ IsPart(p) /\ IsVariant(v) /\ IsTongue(l, old.ext) /\ new = c \o p \o v \o l
  BY <1>1
<1> HIDE DEF c, p, v, l, new
<1>10. /\ Occurrences(c \o p \o v \o l, said) =
            Count(c, said) + Count(p, said) + Count(v, said) + Count(l, said)
       /\ Count(c, said) \in Nat /\ Count(p, said) \in Nat
       /\ Count(v, said) \in Nat /\ Count(l, said) \in Nat
  BY <1>9, SuggestedSays
<1>11. Count(text, said) \in Nat
  BY <1>1, CountSteps, CountConcat DEF Texts
<1>12. Occurrences(old.stem, said) \in Nat
  BY ReadableFacts, SayingFinite DEF Texts
<1>13. Count(text, said) <= Count(c, said) + Count(p, said) + Count(v, said)
  BY <1>8 DEF c, p, v
<1>14. Occurrences(old.stem, said) <= Occurrences(parts.base, said) + Count(l, said)
  BY <1>6 DEF l
<1> QED
  BY <1>6, <1>7, <1>9, <1>10, <1>11, <1>12, <1>13, <1>14

-----------------------------------------------------------------------------
(* The inductive invariant.                                                *)

\* A place a file can be in, and one that a scan lists.
IsPlace(p) ==
    /\ p = [dir |-> p.dir, home |-> p.home, size |-> p.size, name |-> p.name]
    /\ p.dir \in Dirs \cup {Quarantine} /\ p.home \in Dirs /\ p.size \in Sizes
IsListed(p) == IsPlace(p) /\ p.dir \in Dirs

\* Every file has its place, and no two files of the library share one.
Placed ==
    /\ files = [f \in Files |-> files[f]]
    /\ \A f \in Files : files[f] # Gone => IsPlace(files[f])
    /\ \A f \in Files : first[f] # Gone => IsPlace(first[f])
    /\ \A f, g \in Files :
         InLibrary(f) /\ InLibrary(g) /\ f # g /\ files[f].dir = files[g].dir
           => files[f].name # files[g].name

\* What an item of the plan says of its file.
IsItem(i) ==
    /\ i = Item(i.place, i.op, i.target, i.code, i.review, i.selected)
    /\ IsListed(i.place)
    /\ i.op \in {"keep", "review", "rename", "quarantine"}
    /\ i.selected => Executable(i) /\ ~i.review
    /\ i.selected /\ i.op = "quarantine" => IsJunk(i.place) /\ ~LargeTemp(i.place)

Analysed ==
    /\ phase \in {"idle", "scan", "plan", "run"}
    /\ todo \subseteq Dirs /\ rounds \in 0..MaxRounds /\ touches \in 0..MaxTouches
    /\ \A p \in seen : IsListed(p)
    /\ \A i \in plan : IsItem(i)
    /\ left \subseteq {i \in plan : i.selected} /\ (left # {} => phase = "run")

\* The scan does not enter the directories it passes over.
Outside ==
    /\ todo \cap Excluded = {}
    /\ \A p \in seen : p.dir \notin Excluded
    /\ \A i \in plan : i.place.dir \notin Excluded

-----------------------------------------------------------------------------
(* The items of a plan.                                                    *)

LEMMA ItemFromScanFacts ==
  ASSUME NEW p, IsListed(p)
  PROVE  IsItem(ItemFromScan(p)) /\ ItemFromScan(p).place = p
<1> DEFINE s == Suggest(p.name)
<1>1. ASSUME NEW op \in {"keep", "rename"}, NEW z
      PROVE  IsItem(ItemFor(p, z, op)) /\ ItemFor(p, z, op).place = p
  <2>1. CASE IsJunk(p)
    BY <1>1, <2>1 DEF ItemFor, IsItem, Item, Executable
  <2>2. CASE ~IsJunk(p) /\ p.name.ext \in VideoExtensions
    BY <1>1, <2>2 DEF ItemFor, IsItem, Item, Executable
  <2>3. CASE ~IsJunk(p) /\ p.name.ext \notin VideoExtensions /\ p.name.ext \in SidecarExtensions
    BY <1>1, <2>3 DEF ItemFor, IsItem, Item, Executable
  <2>4. CASE ~IsJunk(p) /\ p.name.ext \notin VideoExtensions /\ p.name.ext \notin SidecarExtensions
    BY <1>1, <2>4 DEF ItemFor, IsItem, Item, Executable
  <2> QED
    BY <2>1, <2>2, <2>3, <2>4
<1> HIDE DEF s
<1>2. ItemFromScan(p) = ItemFor(p, s, IF s.code = <<>> \/ s.name = p.name THEN "keep" ELSE "rename")
  BY DEF ItemFromScan, ItemWith, s
<1> QED
  BY <1>1, <1>2

\* Validation takes selections away and changes nothing else.
LEMMA ValidatedFacts ==
  ASSUME NEW S, \A i \in S : IsItem(i), NEW j \in Validated(S)
  PROVE  IsItem(j) /\ \E i \in S : j.place = i.place
<1>1. PICK i \in S : j = IF Blocked(i) \/ Contested(i, S)
                         THEN [i EXCEPT !.review = TRUE, !.selected = FALSE] ELSE i
  BY DEF Validated
<1>2. CASE j = i
  BY <1>2
<1>3. CASE j = [i EXCEPT !.review = TRUE, !.selected = FALSE]
  <2>1. i = Item(i.place, i.op, i.target, i.code, i.review, i.selected) /\ IsItem(i)
    BY DEF IsItem
  <2>2. j = Item(i.place, i.op, i.target, i.code, TRUE, FALSE)
    BY <1>3, <2>1 DEF Item
  <2> QED
    BY <2>1, <2>2 DEF Item, IsItem
<1> QED
  BY <1>1, <1>2, <1>3

-----------------------------------------------------------------------------
(* The files.                                                              *)

LEMMA InitPlaced == Init => Placed
<1> SUFFICES ASSUME Init PROVE Placed
  OBVIOUS
<1>1. files \in Folders /\ first = files
  BY DEF Init
<1>2. files = [f \in Files |-> files[f]]
  BY <1>1, FoldersAssumption
<1>3. ASSUME NEW f \in Files, files[f] # Gone
      PROVE  IsPlace(files[f])
  <2>1. PICK d \in Dirs, size \in Sizes :
               files[f] = [dir |-> d, home |-> d, size |-> size, name |-> files[f].name]
    BY <1>1, <1>3, FoldersAssumption
  <2> QED
    BY <2>1 DEF IsPlace
<1>4. \A f, g \in Files : \/ files[f] = Gone \/ files[g] = Gone \/ f = g
                          \/ files[f].dir # files[g].dir \/ files[f].name # files[g].name
  BY <1>1, FoldersAssumption
<1> QED
  BY <1>1, <1>2, <1>3, <1>4 DEF Placed, InLibrary

\* The item that is carried out is about the one file that is where it says.
LEMMA TheFile ==
  ASSUME Placed, NEW i, ~Blocked(i), Executable(i), IsListed(i.place),
         NEW f \in Files, IsAt(f, i.place)
  PROVE  files[f] = i.place /\ \A g \in Files : IsAt(g, i.place) => g = f
<1>1. PICK g \in Files : InLibrary(g) /\ files[g] = i.place
  BY DEF Blocked, Unchanged
<1>2. \A g1, g2 \in Files : IsAt(g1, i.place) /\ IsAt(g2, i.place) => g1 = g2
  BY DEF Placed, IsAt
<1>3. IsAt(g, i.place)
  BY <1>1 DEF IsAt
<1> QED
  BY <1>1, <1>2, <1>3

\* A file that stays in the library stays under a name of its own.
LEMMA MovedApart ==
  ASSUME Placed, NEW f \in Files, NEW q, files' = [files EXCEPT ![f] = q], first' = first,
         q # Gone => IsPlace(q),
         q # Gone /\ q.dir # Quarantine =>
           \A g \in Files \ {f} :
             InLibrary(g) /\ files[g].dir = q.dir => files[g].name # q.name
  PROVE  Placed'
<1>1. files = [g \in Files |-> files[g]]
  BY DEF Placed
<1>2. files' = [g \in Files |-> files'[g]] /\ files'[f] = q /\ \A g \in Files \ {f} : files'[g] = files[g]
  BY <1>1
<1>3. \A g \in Files : files'[g] # Gone => IsPlace(files'[g])
  BY <1>2 DEF Placed
<1>4. \A g \in Files \ {f} : InLibrary(g)' => InLibrary(g)
  BY <1>2 DEF InLibrary
<1>5. ASSUME NEW g \in Files, NEW h \in Files, InLibrary(g)', InLibrary(h)', g # h,
             files'[g].dir = files'[h].dir
      PROVE  files'[g].name # files'[h].name
  <2>1. CASE g # f /\ h # f
    BY <1>2, <1>4, <1>5, <2>1 DEF Placed
  <2>2. CASE g = f \/ h = f
    BY <1>2, <1>4, <1>5, <2>2 DEF InLibrary
  <2> QED
    BY <2>1, <2>2
<1>6. (\A g \in Files : first[g] # Gone => IsPlace(first[g]))'
  BY DEF Placed
<1> QED
  BY <1>2, <1>3, <1>5, <1>6 DEF Placed

LEMMA QuarantinedPlace ==
  ASSUME NEW p, p = [dir |-> p.dir, home |-> p.home, size |-> p.size, name |-> p.name]
  PROVE  Quarantined(p) = [dir |-> Quarantine, home |-> p.dir, size |-> p.size, name |-> p.name]
<1> DEFINE q == [p EXCEPT !.dir = Quarantine]
<1>1. q = [dir |-> Quarantine, home |-> p.home, size |-> p.size, name |-> p.name]
  OBVIOUS
<1>2. Quarantined(p) = [q EXCEPT !.home = p.dir]
  BY Zenon DEF Quarantined
<1> HIDE DEF q
<1> QED
  BY <1>1, <1>2

LEMMA RunItemPlaced ==
  ASSUME Placed, Analysed, NEW i \in left, RunItem(i)
  PROVE  Placed'
<1>1. IsItem(i) /\ i.selected /\ Executable(i) /\ IsListed(i.place)
  BY DEF Analysed, IsItem
<1>2. CASE UNCHANGED files
  BY <1>2 DEF RunItem, Placed, InLibrary
<1>3. ASSUME ~Blocked(i), NEW f \in Files, IsAt(f, i.place),
             files' = [files EXCEPT ![f] = IF i.op = "rename" THEN [@ EXCEPT !.name = i.target]
                         ELSE Quarantined(@)]
      PROVE  Placed'
  <2> DEFINE p == i.place
  <2>1. files[f] = p /\ \A g \in Files : IsAt(g, p) => g = f
    BY <1>1, <1>3, TheFile
  <2>2. p = [dir |-> p.dir, home |-> p.home, size |-> p.size, name |-> p.name]
    BY <1>1 DEF IsListed, IsPlace
  <2>3. CASE i.op = "rename"
    <3> DEFINE q == [dir |-> p.dir, home |-> p.home, size |-> p.size, name |-> i.target]
    <3>1. [p EXCEPT !.name = i.target] = q
      BY <2>2
    <3>2. files' = [files EXCEPT ![f] = q]
      BY <1>3, <2>1, <2>3, <3>1
    <3>3. IsPlace(q)
      BY <1>1 DEF IsPlace, IsListed
    <3>4. \A g \in Files \ {f} : InLibrary(g) /\ files[g].dir = q.dir => files[g].name # q.name
      BY <1>3, <2>1, <2>3 DEF Blocked, Taken, SameName
    <3>5. first' = first
      BY DEF RunItem
    <3> HIDE DEF q, p
    <3> QED
      BY <3>2, <3>3, <3>4, <3>5, MovedApart
  <2>4. CASE i.op # "rename"
    <3> DEFINE q == [dir |-> Quarantine, home |-> p.dir, size |-> p.size, name |-> p.name]
    <3>1. Quarantined(p) = q
      BY <2>2, QuarantinedPlace
    <3>2. files' = [files EXCEPT ![f] = q]
      BY <1>3, <2>1, <2>4, <3>1
    <3>3. IsPlace(q) /\ q.dir = Quarantine
      BY <1>1 DEF IsPlace, IsListed
    <3>5. first' = first
      BY DEF RunItem
    <3> HIDE DEF q, p
    <3> QED
      BY <3>2, <3>3, <3>5, MovedApart
  <2> QED
    BY <2>3, <2>4
<1> QED
  BY <1>2, <1>3 DEF RunItem

LEMMA TouchPlaced ==
  ASSUME Placed, NEW f \in Files, Touch(f)
  PROVE  Placed'
<1> DEFINE p == files[f]
<1>1. p = [dir |-> p.dir, home |-> p.home, size |-> p.size, name |-> p.name] /\ IsPlace(p)
      /\ p.dir # Quarantine /\ first' = first
  BY DEF Touch, Placed, IsPlace, InLibrary
<1>2. CASE \E d \in Dirs \ {p.dir} : ~Taken(d, p.name, {f}) /\ files' = [files EXCEPT ![f].dir = d]
  <2>1. PICK d \in Dirs : ~Taken(d, p.name, {f}) /\ files' = [files EXCEPT ![f].dir = d]
    BY <1>2
  <2> DEFINE q == [dir |-> d, home |-> p.home, size |-> p.size, name |-> p.name]
  <2>2. files' = [files EXCEPT ![f] = q]
    <3>1. [p EXCEPT !.dir = d] = q
      BY <1>1
    <3>2. files' = [files EXCEPT ![f] = [p EXCEPT !.dir = d]]
      BY <2>1
    <3> HIDE DEF q, p
    <3> QED
      BY <3>1, <3>2
  <2>3. IsPlace(q)
    BY <1>1 DEF IsPlace
  <2>4. \A g \in Files \ {f} : InLibrary(g) /\ files[g].dir = q.dir => files[g].name # q.name
    BY <2>1 DEF Taken, SameName
  <2> HIDE DEF q, p
  <2> QED
    BY <1>1, <2>2, <2>3, <2>4, MovedApart
<1>3. CASE files' = [files EXCEPT ![f] = Gone]
  BY <1>1, <1>3, MovedApart
<1>4. CASE \E size \in Sizes \ {p.size} : files' = [files EXCEPT ![f].size = size]
  <2>1. PICK size \in Sizes : files' = [files EXCEPT ![f].size = size]
    BY <1>4
  <2> DEFINE q == [dir |-> p.dir, home |-> p.home, size |-> size, name |-> p.name]
  <2>2. files' = [files EXCEPT ![f] = q]
    <3>1. [p EXCEPT !.size = size] = q
      BY <1>1
    <3>2. files' = [files EXCEPT ![f] = [p EXCEPT !.size = size]]
      BY <2>1
    <3> HIDE DEF q, p
    <3> QED
      BY <3>1, <3>2
  <2>3. IsPlace(q)
    BY <1>1 DEF IsPlace
  <2>4. \A g \in Files \ {f} : InLibrary(g) /\ files[g].dir = q.dir => files[g].name # q.name
    BY DEF Placed, Touch
  <2> HIDE DEF q, p
  <2> QED
    BY <1>1, <2>2, <2>3, <2>4, MovedApart
<1> QED
  BY <1>2, <1>3, <1>4 DEF Touch

LEMMA StepPlaced == Placed /\ Analysed /\ [Next]_vars => Placed'
<1> SUFFICES ASSUME Placed, Analysed, [Next]_vars PROVE Placed'
  OBVIOUS
<1>1. CASE UNCHANGED <<files, first>>
  BY <1>1 DEF Placed, InLibrary
<1>2. CASE \E i \in left : RunItem(i)
  BY <1>2, RunItemPlaced
<1>3. CASE \E f \in Files : Touch(f)
  BY <1>3, TouchPlaced
<1> QED
  BY <1>1, <1>2, <1>3
  DEF Next, vars, StartScan, ListDirectory, MakePlan, StartRun, EndRun, Finished

-----------------------------------------------------------------------------
(* The analysis.                                                           *)

LEMMA InitAnalysed == Init => Analysed
  BY DirsAssumption DEF Init, Analysed

LEMMA MakePlanAnalysed ==
  ASSUME Analysed, MakePlan
  PROVE  \A i \in plan' : IsItem(i) /\ \E p \in seen : i.place = p
<1> DEFINE S == {ItemFromScan(p) : p \in seen}
<1>1. \A i \in S : IsItem(i) /\ \E p \in seen : i.place = p
  BY ItemFromScanFacts DEF Analysed
<1>2. plan' = Validated(S)
  BY DEF MakePlan
<1> HIDE DEF S
<1> QED
  BY <1>1, <1>2, ValidatedFacts

LEMMA StepAnalysed == Placed /\ Analysed /\ [Next]_vars => Analysed'
<1> SUFFICES ASSUME Placed, Analysed, [Next]_vars PROVE Analysed'
  OBVIOUS
<1> USE DirsAssumption
<1>1. CASE StartScan
  BY <1>1 DEF StartScan, Analysed
<1>2. CASE MakePlan
  <2>1. \A i \in plan' : IsItem(i)
    BY <1>2, MakePlanAnalysed
  <2>2. left = {}
    BY <1>2 DEF MakePlan, Analysed
  <2> QED
    BY <1>2, <2>1, <2>2 DEF MakePlan, Analysed
<1>3. CASE StartRun
  BY <1>3 DEF StartRun, Analysed
<1>4. CASE EndRun
  BY <1>4 DEF EndRun, Analysed
<1>5. CASE Finished \/ UNCHANGED vars
  BY <1>5 DEF Finished, vars, Analysed
<1>6. CASE \E d \in Dirs : ListDirectory(d)
  <2>1. PICK d \in Dirs : ListDirectory(d)
    BY <1>6
  <2>2. \A f \in Files : InLibrary(f) /\ files[f].dir = d => IsListed(files[f])
    BY DEF Placed, InLibrary, IsListed
  <2>3. \A p \in seen' : IsListed(p)
    BY <2>1, <2>2 DEF ListDirectory, Analysed
  <2>4. todo' \subseteq Dirs
    BY <2>1 DEF ListDirectory, Children, Analysed
  <2> QED
    BY <2>1, <2>3, <2>4 DEF ListDirectory, Analysed
<1>7. CASE \E i \in left : RunItem(i)
  BY <1>7 DEF RunItem, Analysed
<1>8. CASE \E f \in Files : Touch(f)
  <2>1. PICK f \in Files : Touch(f)
    BY <1>8
  <2>2. touches' \in 0..MaxTouches
    BY <2>1 DEF Touch, Analysed
  <2> QED
    BY <2>1, <2>2 DEF Touch, Analysed
<1> QED
  BY <1>1, <1>2, <1>3, <1>4, <1>5, <1>6, <1>7, <1>8 DEF Next

(* Where files are, what was listed and what is selected are of their types, and the
   run only ever works on what is selected, whatever the folder, the rules and the
   changes that others make (scanner.py:73-108, planner.py:222-372). *)
THEOREM TypeCorrect == Spec => []TypeOK
<1>1. Init => Placed /\ Analysed
  BY InitPlaced, InitAnalysed
<1>2. Placed /\ Analysed /\ [Next]_vars => Placed' /\ Analysed'
  BY StepPlaced, StepAnalysed
<1>3. Placed /\ Analysed => TypeOK
  <2> SUFFICES ASSUME Placed, Analysed PROVE TypeOK
    OBVIOUS
  <2>1. /\ \A f \in Files : files[f] # Gone => files[f].size \in Sizes /\ files[f].home \in Dirs
        /\ \A f \in Files : first[f] # Gone => first[f].size \in Sizes /\ first[f].home \in Dirs
    BY DEF Placed, IsPlace
  <2>2. /\ \A p \in seen : p.size \in Sizes /\ p.home \in Dirs
        /\ \A i \in plan : i.place.size \in Sizes /\ i.place.home \in Dirs
    BY DEF Analysed, IsItem, IsListed, IsPlace
  <2>3. \A p \in seen : p.dir \in Dirs
    BY DEF Analysed, IsListed
  <2>4. \A i \in plan : i.op \in {"keep", "review", "rename", "quarantine"}
    BY DEF Analysed, IsItem
  <2>5. \A i \in plan : i.selected => Executable(i) /\ ~i.review
    BY DEF Analysed, IsItem
  <2>6. /\ phase \in {"idle", "scan", "plan", "run"} /\ todo \subseteq Dirs
        /\ left \subseteq {i \in plan : i.selected}
        /\ rounds \in 0..MaxRounds /\ touches \in 0..MaxTouches
    BY DEF Analysed
  <2> QED
    BY <2>1, <2>2, <2>3, <2>4, <2>5, <2>6 DEF TypeOK
<1> QED
  BY <1>1, <1>2, <1>3, PTL DEF Spec

-----------------------------------------------------------------------------
(* What goes to quarantine.                                                *)

LEMMA InitOutside == Root \notin Excluded /\ Init => Outside
  BY DEF Init, Outside

LEMMA StepOutside ==
  Root \notin Excluded /\ Analysed /\ Outside /\ [Next]_vars => Outside'
<1> SUFFICES ASSUME Root \notin Excluded, Analysed, Outside, [Next]_vars PROVE Outside'
  OBVIOUS
<1>1. CASE UNCHANGED <<todo, seen, plan>>
  BY <1>1 DEF Outside
<1>2. CASE StartScan
  BY <1>2 DEF StartScan, Outside
<1>3. CASE MakePlan
  <2>1. \A i \in plan' : \E p \in seen : i.place = p
    BY <1>3, MakePlanAnalysed
  <2> QED
    BY <1>3, <2>1 DEF MakePlan, Outside
<1>4. CASE \E d \in Dirs : ListDirectory(d)
  BY <1>4 DEF ListDirectory, Children, Outside
<1> QED
  BY <1>1, <1>2, <1>3, <1>4
  DEF Next, vars, StartRun, RunItem, EndRun, Touch, Finished

\* What is junk does not depend on where a file once came from.
LEMMA SameJunk ==
  ASSUME NEW p, NEW q, q.dir = p.dir, q.name = p.name, q.size = p.size
  PROVE  (IsJunk(q) <=> IsJunk(p)) /\ (LargeTemp(q) <=> LargeTemp(p))
BY DEF IsJunk, LargeTemp, InAdvertising

\* A file that only changes by joining the quarantine, and how one does.
Junk(p) == IsJunk(p) /\ ~LargeTemp(p) /\ p.dir \notin Excluded
Was(p) == [dir |-> p.home, home |-> p.home, size |-> p.size, name |-> p.name]

JunkOnly ==
    \A f \in Files : files[f] # Gone /\ files[f].dir = Quarantine => Junk(Was(files[f]))

LEMMA JunkLeaves == Placed /\ JunkOnly => OnlyJunkLeaves
<1> SUFFICES ASSUME Placed, NEW f \in Files, files[f] # Gone
             PROVE  /\ [files[f] EXCEPT !.dir = files[f].home] = Was(files[f])
                    /\ Was(files[f]).dir = files[f].home /\ Was(files[f]).home = files[f].home
  BY DEF OnlyJunkLeaves, JunkOnly, Junk
<1>1. files[f] = [dir |-> files[f].dir, home |-> files[f].home,
                  size |-> files[f].size, name |-> files[f].name]
  BY DEF Placed, IsPlace
<1> QED
  BY <1>1 DEF Was

LEMMA StepJunk ==
  Placed /\ Analysed /\ Outside /\ JunkOnly /\ [Next]_vars => JunkOnly'
<1> SUFFICES ASSUME Placed, Analysed, Outside, JunkOnly, [Next]_vars,
                    NEW f \in Files, files'[f] # Gone, files'[f].dir = Quarantine
             PROVE  Junk(Was(files'[f]))
  BY DEF JunkOnly
<1>1. CASE files'[f] = files[f]
  BY <1>1 DEF JunkOnly
<1>2. CASE \E i \in left : RunItem(i) /\ files'[f] # files[f]
  <2>1. PICK i \in left : RunItem(i) /\ files'[f] # files[f]
    BY <1>2
  <2>2. IsItem(i) /\ i.selected /\ Executable(i) /\ i.place.dir \notin Excluded
    BY DEF Analysed, Outside, IsItem
  <2>3. PICK g \in Files :
          /\ ~Blocked(i) /\ IsAt(g, i.place)
          /\ files' = [files EXCEPT ![g] = IF i.op = "rename" THEN [@ EXCEPT !.name = i.target]
                         ELSE Quarantined(@)]
    BY <2>1 DEF RunItem
  <2>4. f = g /\ files[f] = i.place /\ IsPlace(i.place) /\ i.place.dir # Quarantine
    BY <2>1, <2>2, <2>3, TheFile, FoldersAssumption DEF IsItem, IsListed, Placed
  <2>5. i.op # "rename" /\ files'[f] = Quarantined(i.place)
    <3>1. CASE i.op = "rename"
      <4>1. files'[f] = [i.place EXCEPT !.name = i.target]
        BY <2>3, <2>4, <3>1 DEF Placed
      <4>2. files'[f].dir = i.place.dir
        BY <2>4, <4>1 DEF IsPlace
      <4> QED
        BY <2>4, <4>2
    <3>2. CASE i.op # "rename"
      BY <2>3, <2>4, <3>2 DEF Placed
    <3> QED
      BY <3>1, <3>2
  <2>6. files'[f] = [dir |-> Quarantine, home |-> i.place.dir,
                     size |-> i.place.size, name |-> i.place.name]
    BY <2>4, <2>5, QuarantinedPlace DEF IsPlace
  <2>7. IsJunk(i.place) /\ ~LargeTemp(i.place)
    BY <2>2, <2>5 DEF IsItem, Executable
  <2> DEFINE w == Was(files'[f])
  <2>8. w.dir = i.place.dir /\ w.name = i.place.name /\ w.size = i.place.size
    BY <2>6 DEF Was
  <2> HIDE DEF w
  <2>9. IsJunk(w) /\ ~LargeTemp(w)
    BY <2>7, <2>8, SameJunk
  <2>10. Junk(w)
    BY <2>2, <2>8, <2>9 DEF Junk
  <2> QED
    BY <2>10 DEF w
<1>3. CASE \E g \in Files : Touch(g) /\ files'[f] # files[f]
  <2>1. PICK g \in Files : Touch(g) /\ files'[f] # files[f]
    BY <1>3
  <2>2. f = g /\ files[f] # Gone /\ files[f].dir # Quarantine /\ IsPlace(files[f])
    BY <2>1 DEF Touch, Placed, InLibrary
  <2>3. CASE \E d \in Dirs : files' = [files EXCEPT ![f].dir = d]
    BY <2>2, <2>3, FoldersAssumption DEF Placed, IsPlace
  <2>4. CASE files' = [files EXCEPT ![f] = Gone]
    BY <2>4 DEF Placed
  <2>5. CASE \E size \in Sizes : files' = [files EXCEPT ![f].size = size]
    BY <2>2, <2>5 DEF Placed, IsPlace
  <2> QED
    BY <2>1, <2>2, <2>3, <2>4, <2>5 DEF Touch
<1> QED
  BY <1>1, <1>2, <1>3
  DEF Next, vars, StartScan, ListDirectory, MakePlan, StartRun, EndRun, Finished

(* What is in quarantine was junk when it was moved, whatever it was when the folder was
   analysed: for any folder, any rules for names, and however often others change, move
   or empty files between the listing of a directory and the turn of an item.  A folder
   that is itself passed over by scans would be listed when the user analyses just that
   one (scanner.py:73-108, rules.py:542-576, validators.py:90-140). *)
THEOREM QuarantineIsJunk == Root \notin Excluded => (Spec => []OnlyJunkLeaves)
<1> SUFFICES ASSUME Root \notin Excluded PROVE Spec => []OnlyJunkLeaves
  OBVIOUS
<1> DEFINE Inv == Placed /\ Analysed /\ Outside /\ JunkOnly
<1>1. Init => Inv
  <2>1. Init => \A f \in Files : files[f] = Gone \/ files[f].dir # Quarantine
    <3> SUFFICES ASSUME Init, NEW f \in Files, files[f] # Gone PROVE files[f].dir # Quarantine
      OBVIOUS
    <3>1. PICK d \in Dirs, size \in Sizes :
                 files[f] = [dir |-> d, home |-> d, size |-> size, name |-> files[f].name]
      BY FoldersAssumption DEF Init
    <3> QED
      BY <3>1, FoldersAssumption
  <2> QED
    BY <2>1, InitPlaced, InitAnalysed, InitOutside DEF JunkOnly
<1>2. Inv /\ [Next]_vars => Inv'
  BY StepPlaced, StepAnalysed, StepOutside, StepJunk
<1>3. Inv => OnlyJunkLeaves
  BY JunkLeaves
<1> QED
  BY <1>1, <1>2, <1>3, PTL DEF Spec

-----------------------------------------------------------------------------
(* The names files come to have.                                           *)

IsNameOf(n, f) ==
    \/ n = first[f].name
    \/ LET s == Suggest(first[f].name) IN s.code # <<>> /\ ~s.review /\ n = s.name
IsKnown(n) == \E f \in Files : first[f] # Gone /\ IsNameOf(n, f)

\* An item of the plan is the one the scan gave, but for a selection that was taken away.
FromScan(i) ==
    LET j == ItemFromScan(i.place)
    IN  i.op = j.op /\ i.target = j.target /\ i.code = j.code /\ (i.selected => i = j)

\* A file has its first name or the one that was suggested for it, and so have
\* the places of the analysis.
Named ==
    /\ \A f \in Files : first[f] # Gone => first[f].name.stem \in Texts
    /\ \A f \in Files : files[f] # Gone => first[f] # Gone /\ IsNameOf(files[f].name, f)
    /\ \A p \in seen : IsKnown(p.name)
    /\ \A i \in plan : IsKnown(i.place.name) /\ FromScan(i)

\* What plan_item_from_scan makes of a suggestion.
IsProposedBy(i, s) ==
    /\ i.op = "quarantine" <=> IsJunk(i.place)
    /\ i.op = "quarantine" => i.target = i.place.name
    /\ i.op = "rename" => s.code # <<>> /\ i.target = s.name
    /\ i.code # <<>> => i.code = s.code /\ i.target = s.name
    /\ i.selected /\ i.op = "rename" =>
         /\ ~s.review /\ s.name # i.place.name /\ i.place.name.ext \in VideoExtensions
    /\ i.selected => Executable(i)
IsProposed(i) == IsProposedBy(i, Suggest(i.place.name))

LEMMA ItemProposed ==
  ASSUME NEW p
  PROVE  IsProposed(ItemFromScan(p)) /\ ItemFromScan(p).place = p
<1>1. ASSUME NEW s, NEW op \in {"keep", "rename"},
             op = "rename" => s.code # <<>> /\ s.name # p.name
      PROVE  IsProposedBy(ItemFor(p, s, op), s) /\ ItemFor(p, s, op).place = p
  <2>1. CASE IsJunk(p)
    BY <1>1, <2>1 DEF ItemFor, Item, IsProposedBy, Executable
  <2>2. CASE ~IsJunk(p) /\ p.name.ext \in VideoExtensions /\ s.code = <<>>
    BY <1>1, <2>2 DEF ItemFor, Item, IsProposedBy, Executable
  <2>3. CASE ~IsJunk(p) /\ p.name.ext \in VideoExtensions /\ s.code # <<>>
    BY <1>1, <2>3 DEF ItemFor, Item, IsProposedBy, Executable
  <2>4. CASE ~IsJunk(p) /\ p.name.ext \notin VideoExtensions /\ p.name.ext \in SidecarExtensions
    BY <1>1, <2>4 DEF ItemFor, Item, IsProposedBy, Executable
  <2>5. CASE ~IsJunk(p) /\ p.name.ext \notin VideoExtensions /\ p.name.ext \notin SidecarExtensions
    BY <1>1, <2>5 DEF ItemFor, Item, IsProposedBy, Executable
  <2> QED
    BY <2>1, <2>2, <2>3, <2>4, <2>5
<1> DEFINE s == Suggest(p.name)
           op == IF s.code = <<>> \/ s.name = p.name THEN "keep" ELSE "rename"
<1>2. ItemFromScan(p) = ItemFor(p, s, op)
  BY DEF ItemFromScan, ItemWith
<1> HIDE DEF s
<1>3. op \in {"keep", "rename"} /\ (op = "rename" => s.code # <<>> /\ s.name # p.name)
  OBVIOUS
<1> HIDE DEF op
<1>4. IsProposedBy(ItemFor(p, s, op), s) /\ ItemFor(p, s, op).place = p
  BY <1>1, <1>3
<1> QED
  BY <1>2, <1>4, Zenon DEF IsProposed, s

\* The rules suggest a clean name for every name a file comes to have.
LEMMA KnownClean ==
  ASSUME \A f \in Files : first[f] # Gone => first[f].name.stem \in Texts,
         NEW n, IsKnown(n), Suggest(n).code # <<>>
  PROVE  LET s == Suggest(n)
         IN  /\ Suggest(s.name) = [code |-> s.code, name |-> s.name, review |-> FALSE]
             /\ s.name.ext = n.ext /\ AllPlain(s.name.stem)
<1>1. ASSUME NEW old, old.stem \in Texts, Suggest(old).code # <<>>
      PROVE  /\ Suggest(Suggest(old).name) =
                  [code |-> Suggest(old).code, name |-> Suggest(old).name, review |-> FALSE]
             /\ Suggest(old).name.ext = old.ext /\ AllPlain(Suggest(old).name.stem)
  <2>1. PICK c, p, v, l :
          /\ IsCode(c) /\ IsPart(p) /\ IsVariant(v) /\ IsTongue(l, old.ext)
          /\ Suggest(old).name = [stem |-> c \o p \o v \o l, ext |-> old.ext, tidy |-> TRUE]
    BY <1>1, SuggestionFacts, Zenon
  <2>2. AllPlain(c \o p \o v \o l)
    BY <2>1, SuggestedPlain
  <2>3. Suggest(Suggest(old).name) =
          [code |-> Suggest(old).code, name |-> Suggest(old).name, review |-> FALSE]
    BY <1>1, SuggestionsAreClean, Zenon
  <2>4. Suggest(old).name.ext = old.ext /\ Suggest(old).name.stem = c \o p \o v \o l
    BY <2>1
  <2> QED
    BY <2>2, <2>3, <2>4
<1>2. PICK f \in Files : first[f] # Gone /\ IsNameOf(n, f)
  BY DEF IsKnown
<1> DEFINE old == first[f].name
<1>3. old.stem \in Texts
  BY <1>2
<1> HIDE DEF old
<1>4. CASE n = old
  BY <1>1, <1>3, <1>4
<1>5. CASE Suggest(old).code # <<>> /\ n = Suggest(old).name
  <2>1. /\ Suggest(n) = [code |-> Suggest(old).code, name |-> n, review |-> FALSE]
        /\ n.ext = old.ext /\ AllPlain(n.stem)
    BY <1>1, <1>3, <1>5
  <2>2. Suggest(n).name = n /\ Suggest(n).code = Suggest(old).code
    BY <2>1
  <2> QED
    BY <2>1, <2>2
<1> QED
  BY <1>2, <1>4, <1>5 DEF IsNameOf, old

LEMMA FromScanProposed ==
  ASSUME NEW i, FromScan(i)
  PROVE  IsProposed(i)
<1> DEFINE j == ItemFromScan(i.place)
           s == Suggest(i.place.name)
<1>1. IsProposedBy(j, s) /\ j.place = i.place
  BY ItemProposed DEF IsProposed
<1>2. i.op = j.op /\ i.target = j.target /\ i.code = j.code /\ (i.selected => i = j)
  BY DEF FromScan
<1> HIDE DEF j, s
<1>3. IsProposedBy(i, s)
  BY <1>1, <1>2 DEF IsProposedBy, Executable
<1> QED
  BY <1>3 DEF IsProposed, s

\* What validation makes of an item.
IsValidated(i, j, S) ==
    /\ j.place = i.place /\ j.op = i.op /\ j.target = i.target /\ j.code = i.code
    /\ j.selected => j = i /\ ~Blocked(i) /\ ~Contested(i, S)
    /\ i.selected /\ ~j.selected => Blocked(i) \/ Contested(i, S)

LEMMA ValidatedIs ==
  ASSUME NEW S, \A i \in S : IsItem(i)
  PROVE  /\ \A j \in Validated(S) : \E i \in S : IsValidated(i, j, S)
         /\ \A i \in S : \E j \in Validated(S) : IsValidated(i, j, S)
<1> DEFINE V(i) == IF Blocked(i) \/ Contested(i, S)
                   THEN [i EXCEPT !.review = TRUE, !.selected = FALSE] ELSE i
<1>1. ASSUME NEW i \in S PROVE IsValidated(i, V(i), S)
  <2>1. CASE Blocked(i) \/ Contested(i, S)
    <3>1. i = Item(i.place, i.op, i.target, i.code, i.review, i.selected)
      BY DEF IsItem
    <3>2. V(i) = [i EXCEPT !.review = TRUE, !.selected = FALSE]
      BY <2>1
    <3> DEFINE j == Item(i.place, i.op, i.target, i.code, TRUE, FALSE)
    <3>3. V(i) = j
      BY <3>1, <3>2 DEF Item
    <3>4. /\ j.place = i.place /\ j.op = i.op /\ j.target = i.target /\ j.code = i.code
          /\ ~j.selected
      BY DEF Item
    <3> HIDE DEF j, V
    <3> QED
      BY <2>1, <3>3, <3>4 DEF IsValidated
  <2>2. CASE ~(Blocked(i) \/ Contested(i, S))
    <3>1. V(i) = i
      BY <2>2
    <3> HIDE DEF V
    <3> QED
      BY <2>2, <3>1 DEF IsValidated
  <2> QED
    BY <2>1, <2>2
<1>2. Validated(S) = {V(i) : i \in S}
  BY DEF Validated
<1> HIDE DEF V
<1> QED
  BY <1>1, <1>2

LEMMA MakePlanFromScan ==
  ASSUME Analysed, MakePlan
  PROVE  \A i \in plan' : FromScan(i) /\ \E p \in seen : i.place = p
<1> DEFINE S == {ItemFromScan(p) : p \in seen}
<1>1. \A i \in S : IsItem(i) /\ i.place \in seen /\ i = ItemFromScan(i.place)
  BY ItemFromScanFacts DEF Analysed
<1>2. plan' = Validated(S)
  BY DEF MakePlan
<1> HIDE DEF S
<1>3. \A j \in plan' : \E i \in S : IsValidated(i, j, S)
  BY <1>1, <1>2, ValidatedIs
<1> QED
  BY <1>1, <1>3 DEF IsValidated, FromScan

LEMMA InitNamed == Init => Named
<1> SUFFICES ASSUME Init PROVE Named
  OBVIOUS
<1>1. files \in Folders /\ first = files /\ seen = {} /\ plan = {}
  BY DEF Init
<1>2. \A f \in Files : first[f] # Gone => first[f].name.stem \in Texts
  BY <1>1, FoldersAssumption
<1> QED
  BY <1>1, <1>2 DEF Named, IsNameOf

\* A rename that is carried out gives a file the name that is suggested for its
\* first name: one that has it already is not renamed again.
LEMMA Renaming ==
  ASSUME Named, NEW f \in Files, files[f] # Gone, NEW i, FromScan(i), i.selected, i.op = "rename",
         files[f] = i.place
  PROVE  IsNameOf(i.target, f)
<1> DEFINE n == files[f].name
           old == first[f].name
<1>1. IsProposed(i)
  BY FromScanProposed
<1>2. /\ Suggest(n).code # <<>> /\ i.target = Suggest(n).name /\ ~Suggest(n).review
      /\ Suggest(n).name # n
  BY <1>1 DEF IsProposed, IsProposedBy
<1>3. first[f] # Gone /\ IsNameOf(n, f) /\ old.stem \in Texts
  BY DEF Named
<1> HIDE DEF n
<1>4. CASE n = old
  BY <1>2, <1>4 DEF IsNameOf
<1>5. CASE Suggest(old).code # <<>> /\ n = Suggest(old).name
  <2> HIDE DEF old
  <2>1. Suggest(Suggest(old).name) = [code |-> Suggest(old).code, name |-> Suggest(old).name, review |-> FALSE]
    BY <1>3, <1>5, SuggestionsAreClean, Zenon
  <2>2. Suggest(n).name = n
    BY <1>5, <2>1
  <2> QED
    BY <1>2, <2>2
<1> QED
  BY <1>3, <1>4, <1>5 DEF IsNameOf

LEMMA RunItemNamed ==
  ASSUME Placed, Analysed, Named, NEW i \in left, RunItem(i), NEW f \in Files, files'[f] # Gone
  PROVE  first[f] # Gone /\ IsNameOf(files'[f].name, f)
<1>1. IsItem(i) /\ i.selected /\ Executable(i) /\ IsListed(i.place) /\ FromScan(i)
  BY DEF Analysed, IsItem, Named
<1>2. CASE files'[f] = files[f]
  BY <1>2 DEF Named
<1>3. CASE files'[f] # files[f]
  <2>1. PICK g \in Files :
          /\ ~Blocked(i) /\ IsAt(g, i.place)
          /\ files' = [files EXCEPT ![g] = IF i.op = "rename" THEN [@ EXCEPT !.name = i.target]
                         ELSE Quarantined(@)]
    BY <1>3 DEF RunItem
  <2>2. g = f /\ files[f] = i.place /\ files[f] # Gone
    BY <1>1, <1>3, <2>1, TheFile DEF Placed, IsAt, InLibrary
  <2>3. i.place = [dir |-> i.place.dir, home |-> i.place.home, size |-> i.place.size, name |-> i.place.name]
    BY <1>1 DEF IsListed, IsPlace
  <2>4. CASE i.op = "rename"
    <3>1. files'[f] = [i.place EXCEPT !.name = i.target]
      BY <2>1, <2>2, <2>4 DEF Placed
    <3>2. files'[f].name = i.target
      BY <2>3, <3>1
    <3> QED
      BY <1>1, <2>2, <2>4, <3>2, Renaming DEF Named
  <2>5. CASE i.op # "rename"
    <3>1. files'[f] = Quarantined(i.place)
      BY <2>1, <2>2, <2>5 DEF Placed
    <3>2. files'[f].name = files[f].name
      BY <2>2, <2>3, <3>1, QuarantinedPlace
    <3> QED
      BY <2>2, <3>2 DEF Named
  <2> QED
    BY <2>4, <2>5
<1> QED
  BY <1>2, <1>3

LEMMA StepNamed == Placed /\ Analysed /\ Named /\ [Next]_vars => Named'
<1> SUFFICES ASSUME Placed, Analysed, Named, [Next]_vars PROVE Named'
  OBVIOUS
<1>1. first' = first
  BY DEF Next, vars, StartScan, ListDirectory, MakePlan, StartRun, RunItem, EndRun, Touch, Finished
<1>2. ASSUME \A f \in Files : files'[f] # Gone => first[f] # Gone /\ IsNameOf(files'[f].name, f),
             \A p \in seen' : IsKnown(p.name),
             \A i \in plan' : IsKnown(i.place.name) /\ FromScan(i)
      PROVE  Named'
  <2>1. /\ \A n : IsKnown(n) => IsKnown(n)'
        /\ \A n, f : IsNameOf(n, f) => IsNameOf(n, f)'
    BY <1>1 DEF IsKnown, IsNameOf
  <2> QED
    BY <1>1, <1>2, <2>1 DEF Named
<1>3. CASE UNCHANGED <<files, seen, plan>>
  BY <1>2, <1>3 DEF Named
<1>4. CASE StartScan
  BY <1>2, <1>4 DEF StartScan, Named
<1>5. CASE \E d \in Dirs : ListDirectory(d)
  <2>1. PICK d \in Dirs : ListDirectory(d)
    BY <1>5
  <2>2. \A f \in Files : InLibrary(f) => IsKnown(files[f].name)
    BY DEF Named, InLibrary, IsKnown
  <2>3. \A p \in seen' : IsKnown(p.name)
    BY <2>1, <2>2 DEF ListDirectory, Named
  <2> QED
    BY <1>2, <2>1, <2>3 DEF ListDirectory, Named
<1>6. CASE MakePlan
  <2>1. \A i \in plan' : FromScan(i) /\ \E p \in seen : i.place = p
    BY <1>6, MakePlanFromScan
  <2>2. \A i \in plan' : IsKnown(i.place.name)
    BY <2>1 DEF Named
  <2> QED
    BY <1>2, <1>6, <2>1, <2>2 DEF MakePlan, Named
<1>7. CASE \E i \in left : RunItem(i)
  <2>1. PICK i \in left : RunItem(i)
    BY <1>7
  <2>2. \A f \in Files : files'[f] # Gone => first[f] # Gone /\ IsNameOf(files'[f].name, f)
    BY <2>1, RunItemNamed
  <2> QED
    BY <1>2, <2>1, <2>2 DEF RunItem, Named
<1>8. CASE \E f \in Files : Touch(f)
  <2>1. PICK f \in Files : Touch(f)
    BY <1>8
  <2>2. files[f] # Gone /\ IsPlace(files[f]) /\ files = [g \in Files |-> files[g]]
    BY <2>1 DEF Touch, Placed, InLibrary
  <2>3. files'[f] # Gone => files'[f].name = files[f].name
    <3>1. CASE \E d \in Dirs \ {files[f].dir} : files' = [files EXCEPT ![f].dir = d]
      BY <2>2, <3>1 DEF IsPlace
    <3>2. CASE files' = [files EXCEPT ![f] = Gone]
      BY <2>2, <3>2
    <3>3. CASE \E size \in Sizes \ {files[f].size} : files' = [files EXCEPT ![f].size = size]
      BY <2>2, <3>3 DEF IsPlace
    <3> QED
      BY <2>1, <3>1, <3>2, <3>3 DEF Touch
  <2>4. \A g \in Files \ {f} : files'[g] = files[g]
    BY <2>1, <2>2 DEF Touch
  <2>5. \A g \in Files : files'[g] # Gone => first[g] # Gone /\ IsNameOf(files'[g].name, g)
    BY <2>2, <2>3, <2>4 DEF Named
  <2> QED
    BY <1>2, <2>1, <2>5 DEF Touch, Named
<1> QED
  BY <1>3, <1>4, <1>5, <1>6, <1>7, <1>8
  DEF Next, vars, StartRun, EndRun, Finished

LEMMA NamedKeepsText == Named => NothingIsLostByDefault
<1> SUFFICES ASSUME Named, NEW f \in Files, InLibrary(f), files[f].name # first[f].name,
                    ~HasTwoVariants(first[f].name), ~HasCutNumber(first[f].name)
             PROVE  KeepsText(first[f].name.stem, files[f].name.stem)
  BY DEF NothingIsLostByDefault
<1>1. first[f] # Gone /\ IsNameOf(files[f].name, f) /\ first[f].name.stem \in Texts
  BY DEF Named, InLibrary
<1> DEFINE old == first[f].name
<1>2. Suggest(old).code # <<>> /\ ~Suggest(old).review /\ files[f].name = Suggest(old).name
  BY <1>1 DEF IsNameOf
<1> HIDE DEF old
<1>3. KeepsText(old.stem, Suggest(old).name.stem)
  BY <1>1, <1>2, SuggestionsKeepText DEF old
<1> QED
  BY <1>2, <1>3 DEF old

LEMMA NamedIsClean == Named => CleanIsClean
<1> SUFFICES ASSUME Named, NEW i \in plan, i.code # <<>>
             PROVE  Suggest(i.target) = [code |-> i.code, name |-> i.target, review |-> FALSE]
  BY DEF CleanIsClean
<1>1. IsKnown(i.place.name) /\ FromScan(i)
  BY DEF Named
<1>2. IsProposed(i)
  BY <1>1, FromScanProposed
<1> DEFINE n == i.place.name
<1>3. i.code = Suggest(n).code /\ i.target = Suggest(n).name
  BY <1>2 DEF IsProposed, IsProposedBy
<1> HIDE DEF n
<1>4. Suggest(Suggest(n).name) = [code |-> Suggest(n).code, name |-> Suggest(n).name, review |-> FALSE]
  BY <1>1, <1>3, KnownClean DEF Named, n
<1> QED
  BY <1>3, <1>4

(* Whatever is analysed and run, in any number of rounds and whatever others move, empty
   or delete meanwhile, a file of the library has its first name or one that says all
   that it said, with the two exceptions of SuggestionsKeepText; for every folder whose
   names are texts of words (planner.py:222-372, rules.py:348-505). *)
THEOREM NothingIsLost == Spec => []NothingIsLostByDefault
<1> DEFINE Inv == Placed /\ Analysed /\ Named
<1>1. Init => Inv
  BY InitPlaced, InitAnalysed, InitNamed
<1>2. Inv /\ [Next]_vars => Inv'
  BY StepPlaced, StepAnalysed, StepNamed
<1>3. Inv => NothingIsLostByDefault
  BY NamedKeepsText
<1> QED
  BY <1>1, <1>2, <1>3, PTL DEF Spec

-----------------------------------------------------------------------------
(* What an analysis finds, when nobody else changes anything.              *)

\* What a scan can list: Reached is what it comes to from the root.
Scannable(p) == p.name.ext \in ScannedExtensions \/ InAdvertising(p.dir)
IsClosed(D) == Root \in D /\ \A d \in D : Children(d) \subseteq D
Reached == {d \in Dirs : \A D \in SUBSET Dirs : IsClosed(D) => d \in D}
ListedIn(V) == {files[f] : f \in {f \in Files : /\ InLibrary(f) /\ files[f].dir \in V
                                                /\ Scannable(files[f])}}
Listing == ListedIn(Reached)
Items(L) == {ItemFromScan(p) : p \in L}

\* An analysis of the files as they are selects nothing.
Quiet ==
    \A i \in Items(Listing) : i.selected => Blocked(i) \/ Contested(i, Items(Listing))

LEMMA ReachedFacts ==
  /\ Root \in Reached /\ Reached \subseteq Dirs
  /\ \A d \in Reached : Children(d) \subseteq Reached
  /\ \A D \in SUBSET Dirs : IsClosed(D) => Reached \subseteq D
<1>1. Root \in Reached
  BY DirsAssumption DEF Reached, IsClosed
<1>2. Reached \subseteq Dirs /\ \A D \in SUBSET Dirs : IsClosed(D) => Reached \subseteq D
  BY DEF Reached
<1>3. ASSUME NEW d \in Reached, NEW c \in Children(d)
      PROVE  c \in Reached
  <2>1. c \in Dirs
    BY <1>3 DEF Children
  <2>2. ASSUME NEW D \in SUBSET Dirs, IsClosed(D) PROVE c \in D
    BY <1>3, <2>2 DEF Reached, IsClosed
  <2> QED
    BY <2>1, <2>2 DEF Reached
<1> QED
  BY <1>1, <1>2, <1>3

LEMMA ListingFacts ==
  ASSUME Placed, NEW p \in Listing
  PROVE  /\ IsListed(p) /\ p.dir \in Reached /\ Scannable(p)
         /\ \E f \in Files : InLibrary(f) /\ files[f] = p
         /\ ItemFromScan(p) \in Items(Listing) /\ ItemFromScan(p).place = p
         /\ IsItem(ItemFromScan(p))
<1>1. PICK f \in Files : /\ InLibrary(f) /\ files[f] = p
                         /\ files[f].dir \in Reached /\ Scannable(files[f])
  BY DEF Listing, ListedIn
<1>2. IsListed(p)
  BY <1>1, ReachedFacts DEF Placed, InLibrary, IsListed
<1>3. ItemFromScan(p) \in Items(Listing)
  BY DEF Items
<1> QED
  BY <1>1, <1>2, <1>3, ItemFromScanFacts

LEMMA ItemsFacts ==
  ASSUME Placed, NEW i \in Items(Listing)
  PROVE  /\ i.place \in Listing /\ i = ItemFromScan(i.place)
         /\ IsItem(i) /\ IsProposed(i)
<1>1. PICK p \in Listing : i = ItemFromScan(p)
  BY DEF Items
<1> QED
  BY <1>1, ListingFacts, ItemProposed

\* What is suggested for a name depends on the stem and the extension.
LEMMA SameSuggestion ==
  ASSUME NEW n, NEW m, SameName(n, m), Suggest(m).code # <<>>
  PROVE  Suggest(n) = Suggest(m)
<1> PICK stem, ext : stem = m.stem /\ ext = m.ext
  OBVIOUS
<1> DEFINE parts == SplitLanguage(stem, ext)
           C == Candidates(CleanText(parts.base))
<1>1. n.stem = stem /\ n.ext = ext
  BY DEF SameName
<1>2. /\ Suggest(n) = SuggestFrom(n, parts.language, C)
      /\ Suggest(m) = SuggestFrom(m, parts.language, C)
  BY <1>1 DEF Suggest, SuggestFor
<1> HIDE DEF C
<1>3. C # {}
  BY <1>2 DEF SuggestFrom
<1>4. /\ Suggest(n) = Choose(n, parts.language, C, Best(C))
      /\ Suggest(m) = Choose(m, parts.language, C, Best(C))
  BY <1>2, <1>3 DEF SuggestFrom
<1> PICK l, b : l = parts.language /\ b = Best(C)
  OBVIOUS
<1>5. Suggest(n) = Choose(n, l, C, b) /\ Suggest(m) = Choose(m, l, C, b)
  BY <1>4
<1>6. Choose(n, l, C, b) = Choose(m, l, C, b)
  BY <1>1 DEF Choose, Render
<1> QED
  BY <1>5, <1>6

\* A renamed file is neither junk nor renamed again.
LEMMA RenamedIsKept ==
  ASSUME \A f \in Files : first[f] # Gone => first[f].name.stem \in Texts,
         NEW i, IsListed(i.place), IsKnown(i.place.name), IsProposed(i), i.selected, i.op = "rename",
         NEW p, p = [i.place EXCEPT !.name = i.target]
  PROVE  ~ItemFromScan(p).selected
<1> DEFINE n == i.place.name
           j == ItemFromScan(p)
<1>1. /\ Suggest(n).code # <<>> /\ i.target = Suggest(n).name
      /\ n.ext \in VideoExtensions /\ ~IsJunk(i.place)
  BY DEF IsProposed, IsProposedBy
<1>2. p.dir = i.place.dir /\ p.size = i.place.size /\ p.name = i.target
  BY DEF IsListed, IsPlace
<1> HIDE DEF n
<1>3. /\ Suggest(Suggest(n).name) = [code |-> Suggest(n).code, name |-> Suggest(n).name, review |-> FALSE]
      /\ Suggest(n).name.ext = n.ext /\ AllPlain(Suggest(n).name.stem)
  BY <1>1, KnownClean DEF n
<1> PICK t, u : t = Suggest(n).name /\ u = Suggest(t)
  OBVIOUS
<1>4. u.name = t /\ t.ext = n.ext /\ AllPlain(t.stem) /\ p.name = t
  BY <1>1, <1>2, <1>3
<1>5. \A kind : kind # "plain" => ~HasWord(t, kind)
  BY <1>4 DEF HasWord, Words, AllPlain
<1>6. ~HasWord(t, "slogan") /\ ~HasWord(t, "adDomain")
  BY <1>5
<1>7. ~IsJunk(p)
  BY <1>1, <1>2, <1>4, <1>6 DEF IsJunk, n
<1>8. IsProposedBy(j, u) /\ j.place = p
  BY <1>4, ItemProposed DEF IsProposed
<1> HIDE DEF j
<1> QED
  BY <1>4, <1>7, <1>8 DEF IsProposedBy, Executable, j

-----------------------------------------------------------------------------
(* The run of what an analysis selected.                                   *)

\* The places of the plan were listed, each once.
Planned ==
    /\ \A i \in plan : i.place.dir \in Reached /\ Scannable(i.place)
    /\ \A i, o \in plan : i.place = o.place => i = o

\* A selection that was taken away had a reason that the run does not remove:
\* another item that stays where it is.
StandsInTheWay(o, j) ==
    /\ ~o.selected /\ o.place.dir = j.place.dir
    /\ \/ Executable(o) /\ SameName(o.target, j.target)
       \/ j.op = "rename" /\ SameName(o.place.name, j.target)
Stays ==
    \A i \in plan :
        ~i.selected /\ ItemFromScan(i.place).selected
          => \E o \in plan \ {i} : StandsInTheWay(o, ItemFromScan(i.place))

\* What is not carried out yet, or not at all, is where it was.
Pending(i) == ~i.selected \/ i \in left
Remain == \A i \in plan : Pending(i) => \E f \in Files : InLibrary(f) /\ files[f] = i.place

\* What a new scan lists is an item of the plan that is where it was, or one
\* that was renamed.
Renamed(p, i) ==
    i.selected /\ i.op = "rename" /\ p = [i.place EXCEPT !.name = i.target]
Accounted ==
    \A p \in Listing : \E i \in plan : (Pending(i) /\ p = i.place) \/ Renamed(p, i)

\* No item of the run takes what another one needs.
Apart(i, o) == ~(i.place.dir = o.place.dir /\ SameName(i.target, o.target))
Free ==
    /\ \A i \in left : ~Blocked(i)
    /\ \A i, o \in left : i # o => Apart(i, o)

Running == Planned /\ Stays /\ Remain /\ Accounted /\ Free

LEMMA SameTarget ==
  /\ \A n, m : SameName(n, m) => SameName(m, n)
  /\ \A n, m, o : SameName(n, m) /\ SameName(m, o) => SameName(n, o)
  /\ \A n : SameName(n, n)
BY DEF SameName

\* Two items claim one target both or neither.
LEMMA ContestedBoth ==
  ASSUME NEW S, NEW i \in S, NEW o \in S, i # o, Executable(i), Executable(o),
         o.place.dir = i.place.dir, SameName(o.target, i.target)
  PROVE  Contested(i, S) /\ Contested(o, S)
BY SameTarget DEF Contested

\* Who would be selected and is not has another one in the way.
LEMMA WhyNotSelected ==
  ASSUME Placed, Named, NEW j \in Items(Listing), j.selected,
         Blocked(j) \/ Contested(j, Items(Listing))
  PROVE  \E o \in Items(Listing) :
           /\ o # j /\ o.place.dir = j.place.dir
           /\ \/ /\ Contested(o, Items(Listing)) /\ Executable(o) /\ SameName(o.target, j.target)
              \/ /\ ~o.selected \/ Contested(o, Items(Listing))
                 /\ j.op = "rename" /\ SameName(o.place.name, j.target)
<1> DEFINE S == Items(Listing)
<1>1. /\ j.place \in Listing /\ j = ItemFromScan(j.place) /\ IsItem(j) /\ IsProposed(j)
      /\ Executable(j)
  BY ItemsFacts DEF IsProposed, IsProposedBy
<1>2. CASE Contested(j, S)
  <2>1. PICK o \in S \ {j} : /\ Executable(o) /\ o.place.dir = j.place.dir
                             /\ SameName(o.target, j.target)
    BY <1>2 DEF Contested
  <2>2. Contested(o, S)
    BY <1>1, <2>1, ContestedBoth
  <2> QED
    BY <2>1, <2>2
<1>3. CASE Blocked(j)
  <2>1. Unchanged(j)
    BY <1>1, ListingFacts DEF Unchanged
  <2>2. j.op = "rename" /\ Taken(j.place.dir, j.target, {f \in Files : IsAt(f, j.place)})
    BY <1>1, <1>3, <2>1 DEF Blocked
  <2>3. PICK g \in Files : /\ InLibrary(g) /\ ~IsAt(g, j.place)
                           /\ files[g].dir = j.place.dir /\ SameName(files[g].name, j.target)
    BY <2>2 DEF Taken
  <2> DEFINE q == files[g]
             o == ItemFromScan(q)
             n == j.place.name
  <2>4. /\ Suggest(n).code # <<>> /\ j.target = Suggest(n).name /\ n.ext \in VideoExtensions
        /\ IsKnown(n)
    <3>1. IsKnown(n)
      <4>1. PICK f \in Files : InLibrary(f) /\ files[f] = j.place
        BY <1>1, ListingFacts
      <4> QED
        BY <4>1 DEF Named, InLibrary, IsKnown
    <3> QED
      BY <1>1, <2>2, <3>1 DEF IsProposed, IsProposedBy
  <2> HIDE DEF n
  <2>5. /\ Suggest(Suggest(n).name) = [code |-> Suggest(n).code, name |-> Suggest(n).name, review |-> FALSE]
        /\ Suggest(n).name.ext = n.ext
    BY <2>4, KnownClean DEF Named
  <2>6. q \in Listing
    <3>1. q.name.ext \in VideoExtensions
      BY <2>3, <2>4, <2>5 DEF SameName
    <3>2. Scannable(q)
      BY <3>1 DEF Scannable, ScannedExtensions
    <3>3. q.dir \in Reached
      BY <1>1, <2>3, ListingFacts
    <3> QED
      BY <2>3, <3>2, <3>3 DEF Listing, ListedIn
  <2>7. o \in S /\ o.place = q /\ IsItem(o) /\ IsProposed(o)
    BY <2>6, ListingFacts, ItemsFacts
  <2>8. q # j.place
    BY <2>3 DEF IsAt
  <2> HIDE DEF o
  <2>9. o # j /\ o.place.dir = j.place.dir /\ SameName(o.place.name, j.target)
    BY <2>3, <2>7, <2>8
  <2>10. CASE ~o.selected
    BY <2>2, <2>7, <2>9, <2>10
  <2>11. CASE o.selected
    <3>1. Executable(o)
      BY <2>7, <2>11 DEF IsProposed, IsProposedBy
    <3>2. SameName(o.target, j.target)
      <4>1. CASE o.op = "quarantine"
        <5>1. o.target = o.place.name
          BY <2>7, <4>1 DEF IsProposed, IsProposedBy
        <5> QED
          BY <2>9, <5>1
      <4>2. CASE o.op = "rename"
        <5> PICK t, m : t = Suggest(n).name /\ m = o.place.name
          OBVIOUS
        <5>1. SameName(m, t) /\ Suggest(t).code # <<>> /\ Suggest(t).name = t /\ j.target = t
          BY <2>4, <2>5, <2>9
        <5>2. Suggest(m) = Suggest(t)
          BY <5>1, SameSuggestion
        <5>3. o.target = Suggest(m).name
          BY <2>7, <4>2 DEF IsProposed, IsProposedBy
        <5>4. o.target = t
          BY <5>1, <5>2, <5>3
        <5> QED
          BY <5>1, <5>4, SameTarget
      <4> QED
        BY <3>1, <4>1, <4>2 DEF Executable
    <3>3. Contested(o, S)
      BY <1>1, <2>7, <2>9, <3>1, <3>2, ContestedBoth
    <3> QED
      BY <2>7, <2>9, <3>1, <3>2, <3>3
  <2> QED
    BY <2>10, <2>11
<1> QED
  BY <1>2, <1>3

LEMMA Deselected ==
  ASSUME NEW i, i = Item(i.place, i.op, i.target, i.code, i.review, i.selected),
         NEW j, j = [i EXCEPT !.review = TRUE, !.selected = FALSE]
  PROVE  j = Item(i.place, i.op, i.target, i.code, TRUE, FALSE)
BY DEF Item

\* A validated plan has one item for each listed place.
LEMMA PlanFacts ==
  ASSUME Placed, plan = Validated(Items(Listing))
  PROVE  /\ \A i \in Items(Listing) : \E j \in plan : IsValidated(i, j, Items(Listing))
         /\ \A j \in plan : \E i \in Items(Listing) : IsValidated(i, j, Items(Listing))
         /\ \A i, o \in plan : i.place = o.place => i = o
<1> DEFINE S == Items(Listing)
           V(i) == IF Blocked(i) \/ Contested(i, S)
                   THEN [i EXCEPT !.review = TRUE, !.selected = FALSE] ELSE i
<1>1. \A i \in S : IsItem(i) /\ i = ItemFromScan(i.place)
  BY ItemsFacts
<1>2. plan = {V(i) : i \in S}
  BY DEF Validated
<1>3. ASSUME NEW i \in S PROVE V(i).place = i.place
  <2>1. i = Item(i.place, i.op, i.target, i.code, i.review, i.selected)
    BY <1>1 DEF IsItem
  <2> QED
    BY <2>1 DEF Item
<1> HIDE DEF V
<1>4. ASSUME NEW i \in plan, NEW o \in plan, i.place = o.place PROVE i = o
  <2>1. PICK i1 \in S, o1 \in S : i = V(i1) /\ o = V(o1)
    BY <1>2
  <2>2. i1.place = o1.place
    BY <1>3, <1>4, <2>1
  <2> QED
    BY <1>1, <2>1, <2>2
<1>5. \A i \in plan : \E o \in S : IsValidated(o, i, S)
  BY <1>1, ValidatedIs
<1>6. \A i \in S : \E o \in plan : IsValidated(i, o, S)
  BY <1>1, ValidatedIs
<1> QED
  BY <1>4, <1>5, <1>6

LEMMA StartRunRunning ==
  ASSUME Placed, Analysed, Named, plan = Validated(Items(Listing)), StartRun, phase' = "run"
  PROVE  Running'
<1> DEFINE S == Items(Listing)
<1>1. left' = {i \in plan : i.selected} /\ UNCHANGED <<files, plan>>
  BY DEF StartRun
<1>2. \A i \in S : i.place \in Listing /\ i = ItemFromScan(i.place) /\ IsItem(i) /\ IsProposed(i)
  BY ItemsFacts
<1>3. /\ \A i \in S : \E j \in plan : IsValidated(i, j, S)
      /\ \A j \in plan : \E i \in S : IsValidated(i, j, S)
      /\ \A i, o \in plan : i.place = o.place => i = o
  BY PlanFacts
<1> HIDE DEF S
<1>4. \A p \in Listing : \E i \in S : i.place = p
  BY ListingFacts DEF S
<1>5. \A i \in plan : i.place \in Listing
  BY <1>2, <1>3 DEF IsValidated
<1>6. Planned'
  <2>1. \A i \in plan : i.place.dir \in Reached /\ Scannable(i.place)
    BY <1>5, ListingFacts
  <2> QED
    BY <1>1, <1>3, <2>1 DEF Planned
<1>7. Stays'
  <2> SUFFICES ASSUME NEW k \in plan, ~k.selected, ItemFromScan(k.place).selected
               PROVE  \E o \in plan \ {k} : StandsInTheWay(o, ItemFromScan(k.place))
    BY <1>1 DEF Stays, StandsInTheWay
  <2>1. PICK j \in S : IsValidated(j, k, S)
    BY <1>3
  <2>2. j = ItemFromScan(k.place) /\ j.selected
    BY <1>2, <2>1 DEF IsValidated
  <2>3. Blocked(j) \/ Contested(j, S)
    BY <2>1, <2>2 DEF IsValidated
  <2>4. PICK o \in S :
           /\ o # j /\ o.place.dir = j.place.dir
           /\ \/ /\ Contested(o, S) /\ Executable(o) /\ SameName(o.target, j.target)
              \/ /\ ~o.selected \/ Contested(o, S)
                 /\ j.op = "rename" /\ SameName(o.place.name, j.target)
    BY <2>2, <2>3, WhyNotSelected DEF S
  <2>5. PICK m \in plan : IsValidated(o, m, S)
    BY <1>3
  <2>6. m # k
    BY <1>2, <2>1, <2>4, <2>5 DEF IsValidated
  <2>7. m.place = o.place /\ m.op = o.op /\ m.target = o.target /\ ~m.selected
    BY <2>4, <2>5 DEF IsValidated
  <2>8. StandsInTheWay(m, j)
    BY <2>4, <2>7 DEF StandsInTheWay, Executable
  <2> QED
    BY <2>2, <2>6, <2>8
<1>8. Remain'
  <2>1. \A i \in plan : \E f \in Files : InLibrary(f) /\ files[f] = i.place
    BY <1>5, ListingFacts
  <2> QED
    BY <1>1, <2>1 DEF Remain, InLibrary
<1>9. Accounted'
  <2>1. \A p \in Listing : \E i \in plan : p = i.place
    BY <1>3, <1>4 DEF IsValidated
  <2>2. Listing' = Listing
    BY <1>1 DEF Listing, ListedIn, InLibrary
  <2> QED
    BY <1>1, <2>1, <2>2 DEF Accounted, Pending
<1>10. Free'
  <2>1. ASSUME NEW i \in plan, i.selected
        PROVE  i \in S /\ ~Blocked(i) /\ ~Contested(i, S) /\ Executable(i)
    BY <1>2, <1>3, <2>1 DEF IsValidated, IsProposed, IsProposedBy
  <2>2. \A i, o \in plan : i.selected /\ o.selected /\ i # o => Apart(i, o)
    <3> SUFFICES ASSUME NEW i \in plan, NEW o \in plan, i.selected, o.selected, i # o,
                        ~Apart(i, o)
                 PROVE  FALSE
      OBVIOUS
    <3>1. i.place.dir = o.place.dir /\ SameName(i.target, o.target)
      BY DEF Apart
    <3>2. Contested(o, S)
      BY <2>1, <3>1, ContestedBoth
    <3> QED
      BY <2>1, <3>2
  <2>3. \A i \in plan : i.selected => ~Blocked(i)'
    BY <1>1, <2>1 DEF Blocked, Unchanged, Taken, IsAt, InLibrary
  <2> QED
    BY <1>1, <2>2, <2>3 DEF Free
<1> QED
  BY <1>6, <1>7, <1>8, <1>9, <1>10 DEF Running

LEMMA StartRunQuiet ==
  ASSUME Placed, Analysed, plan = Validated(Items(Listing)), StartRun, phase' # "run"
  PROVE  Quiet
<1> DEFINE S == Items(Listing)
<1>1. \A i \in S : i.place \in Listing /\ i = ItemFromScan(i.place) /\ IsItem(i)
  BY ItemsFacts
<1>2. /\ \A i \in S : \E j \in plan : IsValidated(i, j, S)
      /\ \A j \in plan : \E i \in S : IsValidated(i, j, S)
      /\ \A i, o \in plan : i.place = o.place => i = o
  BY PlanFacts
<1> HIDE DEF S
<1>3. Validated(plan) = plan
  <2> DEFINE V(i, T) == IF Blocked(i) \/ Contested(i, T)
                        THEN [i EXCEPT !.review = TRUE, !.selected = FALSE] ELSE i
  <2>1. Validated(plan) = {V(j, plan) : j \in plan} /\ plan = {V(i, S) : i \in S}
    BY DEF Validated, S
  <2>2. ASSUME NEW j \in plan PROVE V(j, plan) = j
    <3>1. PICK i \in S : j = V(i, S)
      BY <2>1
    <3>2. CASE Blocked(i) \/ Contested(i, S)
      <4>1. i = Item(i.place, i.op, i.target, i.code, i.review, i.selected)
        BY <1>1 DEF IsItem
      <4>2. j = [i EXCEPT !.review = TRUE, !.selected = FALSE]
        BY <3>1, <3>2
      <4>3. j = Item(i.place, i.op, i.target, i.code, TRUE, FALSE)
        BY <4>1, <4>2 DEF Item
      <4>4. j = Item(j.place, j.op, j.target, j.code, j.review, j.selected)
        BY DEF Analysed, IsItem
      <4>5. PICK k : k = [j EXCEPT !.review = TRUE, !.selected = FALSE]
        OBVIOUS
      <4>6. k = Item(j.place, j.op, j.target, j.code, TRUE, FALSE)
        BY <4>4, <4>5, Deselected
      <4>7. j.place = i.place /\ j.op = i.op /\ j.target = i.target /\ j.code = i.code
        BY <4>3 DEF Item
      <4>8. k = j
        BY <4>3, <4>6, <4>7
      <4> QED
        BY <4>5, <4>8, Zenon
    <3>3. CASE ~(Blocked(i) \/ Contested(i, S))
      <4>1. j = i
        BY <3>1, <3>3
      <4>2. ~Contested(j, plan)
        <5> SUFFICES ASSUME Executable(j),
                            NEW o \in plan \ {j}, Executable(o), o.place.dir = j.place.dir,
                            SameName(o.target, j.target)
                     PROVE  FALSE
          BY DEF Contested
        <5>1. PICK m \in S : IsValidated(m, o, S)
          BY <1>2
        <5>2. m # i
          BY <1>2, <4>1, <5>1 DEF IsValidated
        <5>3. Executable(m) /\ m.place.dir = i.place.dir /\ SameName(m.target, i.target)
          BY <4>1, <5>1 DEF IsValidated, Executable
        <5>4. Contested(i, S)
          BY <4>1, <5>2, <5>3, ContestedBoth
        <5> QED
          BY <3>3, <5>4
      <4> QED
        BY <3>3, <4>1, <4>2
    <3> QED
      BY <3>2, <3>3
  <2> HIDE DEF V
  <2> QED
    BY <2>1, <2>2
<1>4. \A i \in plan : ~i.selected
  BY <1>3 DEF StartRun
<1>5. \A i \in S : i.selected => Blocked(i) \/ Contested(i, S)
  BY <1>2, <1>4 DEF IsValidated
<1> QED
  BY <1>5 DEF Quiet, S

\* Two files of the library are not in one place.
LEMMA OnePlace ==
  ASSUME Placed, NEW f \in Files, NEW g \in Files, InLibrary(f), InLibrary(g), files[f] = files[g]
  PROVE  f = g
BY DEF Placed

\* What a run does to the files when its item is carried out.
IsRunOf(i, f) ==
    /\ files[f] = i.place
    /\ i.op = "rename" => files'[f] = [i.place EXCEPT !.name = i.target]
    /\ i.op # "rename" => ~InLibrary(f)'
    /\ \A g \in Files \ {f} : files'[g] = files[g] /\ (InLibrary(g)' <=> InLibrary(g))

LEMMA RunItemMoves ==
  ASSUME Placed, Analysed, Free, NEW i \in left, RunItem(i)
  PROVE  \E f \in Files : InLibrary(f) /\ IsRunOf(i, f)
<1>1. ~Blocked(i) /\ IsItem(i) /\ Executable(i) /\ IsListed(i.place)
  BY DEF Free, Analysed, IsItem
<1>2. PICK f \in Files :
        /\ IsAt(f, i.place)
        /\ files' = [files EXCEPT ![f] = IF i.op = "rename" THEN [@ EXCEPT !.name = i.target]
                       ELSE Quarantined(@)]
  BY <1>1 DEF RunItem
<1>3. files[f] = i.place /\ InLibrary(f)
  BY <1>1, <1>2, TheFile DEF IsAt
<1>4. files'[f] = IF i.op = "rename" THEN [i.place EXCEPT !.name = i.target] ELSE Quarantined(i.place)
  BY <1>2, <1>3 DEF Placed
<1>5. Quarantined(i.place).dir = Quarantine
  <2>1. i.place = [dir |-> i.place.dir, home |-> i.place.home, size |-> i.place.size,
                   name |-> i.place.name]
    BY <1>1 DEF IsListed, IsPlace
  <2> QED
    BY <2>1, QuarantinedPlace
<1>6. \A g \in Files \ {f} : files'[g] = files[g]
  BY <1>2 DEF Placed
<1> QED
  BY <1>3, <1>4, <1>5, <1>6 DEF IsRunOf, InLibrary

LEMMA RunItemRunning ==
  ASSUME Placed, Placed', Analysed, Running, NEW i \in left, RunItem(i)
  PROVE  Running'
<1> USE DEF Running
<1>1. PICK f \in Files : InLibrary(f) /\ IsRunOf(i, f)
  BY RunItemMoves
<1>2. UNCHANGED plan /\ left' = left \ {i} /\ i \in plan /\ i.selected
  BY DEF RunItem, Analysed
<1>3. IsItem(i) /\ IsPlace(i.place) /\ Executable(i)
  BY <1>2 DEF Analysed, IsItem, IsListed
<1>4. Planned' /\ Stays'
  BY <1>2 DEF Planned, Stays, StandsInTheWay
<1>5. ASSUME NEW k \in plan, Pending(k)'
      PROVE  /\ k # i /\ k.place # i.place /\ Pending(k)
             /\ \E g \in Files \ {f} : InLibrary(g) /\ files[g] = k.place
  <2>1. k # i /\ Pending(k) /\ k.place # i.place
    BY <1>2, <1>5 DEF Pending, Planned
  <2>2. PICK g \in Files : InLibrary(g) /\ files[g] = k.place
    BY <2>1 DEF Remain
  <2>3. g # f
    BY <1>1, <2>1, <2>2 DEF IsRunOf
  <2> QED
    BY <2>1, <2>2, <2>3
<1>6. Remain'
  <2> SUFFICES ASSUME NEW k \in plan, Pending(k)'
               PROVE  \E g \in Files : InLibrary(g)' /\ files'[g] = k.place
    BY <1>2 DEF Remain
  <2> QED
    BY <1>1, <1>5 DEF IsRunOf
<1>7. Accounted'
  <2> SUFFICES ASSUME NEW g \in Files, InLibrary(g)', files'[g].dir \in Reached, Scannable(files'[g])
               PROVE  \E k \in plan : (Pending(k)' /\ files'[g] = k.place) \/ Renamed(files'[g], k)
    BY <1>2 DEF Accounted, Listing, ListedIn
  <2>1. CASE g = f
    <3>1. i.op = "rename" /\ files'[g] = [i.place EXCEPT !.name = i.target]
      BY <1>1, <2>1 DEF IsRunOf
    <3> QED
      BY <1>2, <3>1 DEF Renamed
  <2>2. CASE g # f
    <3>1. files'[g] = files[g] /\ InLibrary(g)
      BY <1>1, <2>2 DEF IsRunOf
    <3>2. files[g] \in Listing
      BY <3>1 DEF Listing, ListedIn
    <3>3. PICK k \in plan : (Pending(k) /\ files[g] = k.place) \/ Renamed(files[g], k)
      BY <3>2 DEF Accounted
    <3>4. CASE Pending(k) /\ files[g] = k.place
      <4>1. k # i
        BY <1>1, <2>2, <3>1, <3>4, OnePlace DEF IsRunOf
      <4>2. Pending(k)'
        BY <1>2, <3>4, <4>1 DEF Pending
      <4> QED
        BY <3>1, <3>4, <4>2
    <3> QED
      BY <3>1, <3>3, <3>4
  <2> QED
    BY <2>1, <2>2
<1>8. Free'
  <2>1. \A k, o \in left' : k # o => Apart(k, o)
    BY <1>2 DEF Free
  <2>2. ASSUME NEW k \in left' PROVE ~Blocked(k)'
    <3>1. k \in left /\ k \in plan /\ Pending(k)' /\ ~Blocked(k) /\ Apart(i, k)
      BY <1>2 DEF Free, Analysed, Pending
    <3>2. PICK g \in Files \ {f} : InLibrary(g) /\ files[g] = k.place
      BY <1>5, <3>1
    <3>3. Unchanged(k)'
      BY <1>1, <3>2 DEF Unchanged, IsRunOf
    <3>4. ASSUME k.op = "rename", NEW h \in Files, InLibrary(h)', ~IsAt(h, k.place)',
                 files'[h].dir = k.place.dir, SameName(files'[h].name, k.target)
          PROVE  FALSE
      <4>1. CASE h = f
        <5>1. i.op = "rename" /\ files'[f] = [i.place EXCEPT !.name = i.target]
          BY <1>1, <3>4, <4>1 DEF IsRunOf
        <5>2. files'[f].dir = i.place.dir /\ files'[f].name = i.target
          BY <1>3, <5>1 DEF IsPlace
        <5> QED
          BY <3>1, <3>4, <4>1, <5>2 DEF Apart
      <4>2. CASE h # f
        <5>1. files'[h] = files[h] /\ InLibrary(h)
          BY <1>1, <3>4, <4>2 DEF IsRunOf
        <5>2. ~IsAt(h, k.place)
          BY <3>4, <5>1 DEF IsAt
        <5>3. Taken(k.place.dir, k.target, {e \in Files : IsAt(e, k.place)})
          BY <3>4, <5>1, <5>2 DEF Taken
        <5> QED
          BY <3>1, <3>4, <5>3 DEF Blocked
      <4> QED
        BY <4>1, <4>2
    <3>5. k.op = "rename" => ~Taken(k.place.dir, k.target, {e \in Files : IsAt(e, k.place)})'
      BY <3>4 DEF Taken
    <3> QED
      BY <3>3, <3>5 DEF Blocked
  <2> QED
    BY <2>1, <2>2 DEF Free
<1> QED
  BY <1>4, <1>6, <1>7, <1>8

LEMMA EndRunQuiet ==
  ASSUME Placed, Analysed, Named, Running, left = {}
  PROVE  Quiet
<1> USE DEF Running
<1> DEFINE S == Items(Listing)
<1> SUFFICES ASSUME NEW j \in S, j.selected PROVE Blocked(j) \/ Contested(j, S)
  BY DEF Quiet
<1> DEFINE p == j.place
<1>1. p \in Listing /\ j = ItemFromScan(p) /\ Executable(j)
  BY ItemsFacts DEF IsProposed, IsProposedBy
<1> HIDE DEF S, p
<1>2. PICK k \in plan : (Pending(k) /\ p = k.place) \/ Renamed(p, k)
  BY <1>1 DEF Accounted
<1>3. CASE Renamed(p, k)
  <2>1. IsProposed(k) /\ IsKnown(k.place.name) /\ IsListed(k.place)
    BY FromScanProposed DEF Named, Analysed, IsItem
  <2>2. ~ItemFromScan(p).selected
    BY <1>3, <2>1, RenamedIsKept DEF Renamed, Named
  <2> QED
    BY <1>1, <2>2
<1>4. CASE Pending(k) /\ p = k.place
  <2>1. ~k.selected /\ ItemFromScan(k.place).selected
    BY <1>1, <1>4 DEF Pending
  <2>2. PICK o \in plan \ {k} : StandsInTheWay(o, j)
    BY <1>1, <1>4, <2>1 DEF Stays
  <2>3. PICK h \in Files : InLibrary(h) /\ files[h] = o.place
    BY <2>2 DEF StandsInTheWay, Remain, Pending
  <2>4. o.place # p /\ o.place.dir = p.dir
    BY <1>4, <2>2 DEF Planned, StandsInTheWay, p
  <2> DEFINE m == ItemFromScan(o.place)
  <2>5. o.place \in Listing
    BY <2>3 DEF Planned, Listing, ListedIn
  <2>6. m \in S /\ m.place = o.place /\ m # j
    BY <2>4, <2>5, ListingFacts DEF S, p
  <2>7. m.op = o.op /\ m.target = o.target
    BY DEF Named, FromScan
  <2> HIDE DEF m
  <2>8. CASE Executable(o) /\ SameName(o.target, j.target)
    <3>1. Executable(m) /\ SameName(m.target, j.target) /\ m.place.dir = j.place.dir
      BY <2>4, <2>6, <2>7, <2>8 DEF Executable, p
    <3> QED
      BY <1>1, <2>6, <3>1, ContestedBoth
  <2>9. CASE j.op = "rename" /\ SameName(o.place.name, j.target)
    <3>1. PICK f \in Files : InLibrary(f) /\ files[f] = p
      BY <1>1, ListingFacts
    <3>2. ~IsAt(h, p)
      <4>1. f # h
        BY <2>3, <2>4, <3>1
      <4> QED
        BY <2>3, <2>4, <3>1, <4>1 DEF Placed, IsAt
    <3>3. Taken(p.dir, j.target, {f1 \in Files : IsAt(f1, p)})
      BY <2>3, <2>4, <2>9, <3>2 DEF Taken
    <3> QED
      BY <2>9, <3>3 DEF Blocked, p
  <2> QED
    BY <2>2, <2>8, <2>9 DEF StandsInTheWay
<1> QED
  BY <1>2, <1>3, <1>4

-----------------------------------------------------------------------------
(* Analyses and runs in turn.                                              *)

\* The directories that are listed already, with those that are to be listed,
\* are what can be reached from the root so far.
IsScanned(V) ==
    /\ Root \in V \cup todo /\ V \cup todo \subseteq Reached
    /\ \A d \in V : Children(d) \subseteq V \cup todo
    /\ seen = ListedIn(V)
Scanned == \E V \in SUBSET Dirs : IsScanned(V)

Settled ==
    touches = 0 =>
      /\ phase = "idle" /\ rounds > 0 => Quiet
      /\ phase \in {"scan", "plan"} /\ rounds > 1 => Quiet
      /\ phase = "scan" => Scanned
      /\ phase = "plan" => plan = Validated(Items(Listing))
      /\ phase = "run" => Running

LEMMA SameFiles ==
  ASSUME UNCHANGED files
  PROVE  /\ Listing' = Listing /\ \A V : ListedIn(V)' = ListedIn(V)
         /\ Quiet => Quiet'
<1>1. Listing' = Listing /\ \A V : ListedIn(V)' = ListedIn(V)
  BY DEF Listing, ListedIn, InLibrary
<1>2. \A i : Blocked(i)' <=> Blocked(i)
  BY DEF Blocked, Unchanged, Taken, IsAt, InLibrary
<1>3. Items(Listing)' = Items(Listing)
  BY <1>1 DEF Items
<1>4. \A i, S : Contested(i, S)' <=> Contested(i, S)
  BY DEF Contested
<1> QED
  BY <1>1, <1>2, <1>3, <1>4, Zenon DEF Quiet

LEMMA SameValidated ==
  ASSUME UNCHANGED files
  PROVE  Validated(Items(Listing))' = Validated(Items(Listing))
<1>1. \A i : Blocked(i)' <=> Blocked(i)
  BY DEF Blocked, Unchanged, Taken, IsAt, InLibrary
<1>2. \A i, S : Contested(i, S)' <=> Contested(i, S)
  BY DEF Contested
<1>3. Items(Listing)' = Items(Listing)
  BY SameFiles DEF Items
<1> QED
  BY <1>1, <1>2, <1>3 DEF Validated

LEMMA StartScanScanned == StartScan => Scanned'
<1> SUFFICES ASSUME StartScan PROVE Scanned'
  OBVIOUS
<1> PICK V : V = {}
  OBVIOUS
<1>1. todo' = {Root} /\ seen' = {}
  BY DEF StartScan
<1>2. ListedIn(V)' = {}
  BY DEF ListedIn
<1>3. IsScanned(V)'
  BY <1>1, <1>2, ReachedFacts DEF IsScanned
<1> QED
  BY <1>3 DEF Scanned

LEMMA ListDirectoryScanned ==
  ASSUME Scanned, NEW d \in Dirs, ListDirectory(d)
  PROVE  Scanned'
<1>1. PICK V \in SUBSET Dirs : IsScanned(V)
  BY DEF Scanned
<1> PICK W : W = V \cup {d}
  OBVIOUS
<1>2. /\ d \in todo /\ todo' = (todo \ {d}) \cup Children(d) /\ UNCHANGED files
      /\ seen' = seen \cup ListedIn({d})
  BY DEF ListDirectory, ListedIn, Scannable
<1>3. W \cup todo' = V \cup todo \cup Children(d)
  BY <1>2
<1>4. Children(d) \subseteq Reached
  BY <1>1, <1>2, ReachedFacts DEF IsScanned
<1>5. ListedIn(W)' = ListedIn(V) \cup ListedIn({d})
  <2>1. ListedIn(W) = ListedIn(V) \cup ListedIn({d})
    BY DEF ListedIn
  <2> QED
    BY <1>2, <2>1, SameFiles
<1>6. IsScanned(W)'
  BY <1>1, <1>2, <1>3, <1>4, <1>5 DEF IsScanned
<1> QED
  BY <1>1, <1>6 DEF Scanned

LEMMA MakePlanListing ==
  ASSUME Scanned, MakePlan
  PROVE  plan' = Validated(Items(Listing)) /\ UNCHANGED files
<1>1. PICK V \in SUBSET Dirs : IsScanned(V)
  BY DEF Scanned
<1>2. todo = {} /\ plan' = Validated({ItemFromScan(p) : p \in seen}) /\ UNCHANGED files
  BY DEF MakePlan
<1>3. IsClosed(V) /\ V \subseteq Reached
  BY <1>1, <1>2 DEF IsScanned, IsClosed
<1>4. V = Reached
  BY <1>3, ReachedFacts
<1>5. seen = Listing
  BY <1>1, <1>4 DEF IsScanned, Listing
<1> QED
  BY <1>2, <1>5 DEF Items

LEMMA StepSettled ==
  Placed /\ Placed' /\ Analysed /\ Named /\ Settled /\ [Next]_vars => Settled'
<1> SUFFICES ASSUME Placed, Placed', Analysed, Named, Settled, [Next]_vars, touches' = 0
             PROVE  (/\ phase = "idle" /\ rounds > 0 => Quiet
                     /\ phase \in {"scan", "plan"} /\ rounds > 1 => Quiet
                     /\ phase = "scan" => Scanned
                     /\ phase = "plan" => plan = Validated(Items(Listing))
                     /\ phase = "run" => Running)'
  BY DEF Settled
<1>1. ~(\E f \in Files : Touch(f)) /\ touches = 0
  <2>1. touches \in Nat
    BY DirsAssumption DEF Analysed
  <2>2. ASSUME NEW f \in Files, Touch(f) PROVE FALSE
    <3>1. touches' = touches + 1
      BY <2>2 DEF Touch
    <3> QED
      BY <2>1, <3>1
  <2> QED
    BY <2>2 DEF Next, vars, StartScan, ListDirectory, MakePlan, StartRun, RunItem, EndRun, Finished
<1>2. /\ phase = "idle" /\ rounds > 0 => Quiet
      /\ phase \in {"scan", "plan"} /\ rounds > 1 => Quiet
      /\ phase = "scan" => Scanned
      /\ phase = "plan" => plan = Validated(Items(Listing))
      /\ phase = "run" => Running
  BY <1>1 DEF Settled
<1>3. CASE StartScan
  <2>1. phase = "idle" /\ phase' = "scan" /\ rounds' = rounds + 1 /\ UNCHANGED files
    BY <1>3 DEF StartScan
  <2>2. rounds' > 1 => rounds > 0
    BY <2>1 DEF Analysed
  <2> QED
    BY <1>2, <1>3, <2>1, <2>2, StartScanScanned, SameFiles
<1>4. CASE \E d \in Dirs : ListDirectory(d)
  <2>1. PICK d \in Dirs : ListDirectory(d)
    BY <1>4
  <2>2. phase = "scan" /\ UNCHANGED <<phase, files, rounds>>
    BY <2>1 DEF ListDirectory
  <2> QED
    BY <1>2, <2>1, <2>2, ListDirectoryScanned, SameFiles
<1>5. CASE MakePlan
  <2>1. phase = "scan" /\ phase' = "plan" /\ UNCHANGED rounds
    BY <1>5 DEF MakePlan
  <2>2. plan' = Validated(Items(Listing)) /\ UNCHANGED files
    BY <1>2, <1>5, <2>1, MakePlanListing
  <2>3. Validated(Items(Listing))' = Validated(Items(Listing))
    BY <2>2, SameValidated
  <2> QED
    BY <1>2, <2>1, <2>2, <2>3, SameFiles
<1>6. CASE StartRun
  <2>1. phase = "plan" /\ phase' \in {"run", "idle"} /\ UNCHANGED files
    BY <1>6 DEF StartRun
  <2>2. phase' = "run" => Running'
    BY <1>2, <1>6, <2>1, StartRunRunning
  <2>3. phase' = "idle" => Quiet
    BY <1>2, <1>6, <2>1, StartRunQuiet
  <2> QED
    BY <2>1, <2>2, <2>3, SameFiles
<1>7. CASE \E i \in left : RunItem(i)
  <2>1. PICK i \in left : RunItem(i)
    BY <1>7
  <2>2. phase = "run" /\ phase' = "run"
    BY <2>1 DEF RunItem
  <2> QED
    BY <1>2, <2>1, <2>2, RunItemRunning
<1>8. CASE EndRun
  <2>1. phase = "run" /\ phase' = "idle" /\ UNCHANGED files /\ left = {}
    BY <1>8 DEF EndRun
  <2> QED
    BY <1>2, <2>1, EndRunQuiet, SameFiles
<1>9. CASE UNCHANGED vars
  <2>1. UNCHANGED <<files, phase, todo, seen, plan, left, rounds>>
    BY <1>9 DEF vars
  <2>2. Listing' = Listing /\ (Quiet => Quiet') /\ \A V : ListedIn(V)' = ListedIn(V)
    BY <2>1, SameFiles
  <2>3. Scanned => Scanned'
    BY <2>1, <2>2 DEF Scanned, IsScanned
  <2>4. plan = Validated(Items(Listing)) => plan' = Validated(Items(Listing))'
    BY <2>1, SameValidated
  <2>5. Running => Running'
    <3>1. Planned' = Planned /\ Stays' = Stays
      BY <2>1 DEF Planned, Stays, StandsInTheWay
    <3>2. Remain' = Remain /\ Accounted' = Accounted
      BY <2>1, <2>2 DEF Remain, Accounted, Pending, Renamed, InLibrary
    <3>3. Free' = Free
      BY <2>1 DEF Free, Apart, Blocked, Unchanged, Taken, IsAt, InLibrary
    <3> QED
      BY <3>1, <3>2, <3>3 DEF Running
  <2> QED
    BY <1>2, <2>1, <2>2, <2>3, <2>4, <2>5
<1> QED
  BY <1>1, <1>3, <1>4, <1>5, <1>6, <1>7, <1>8, <1>9 DEF Next, Finished

LEMMA SettledIsQuiet == Placed /\ Settled => SecondPlanIsQuiet
<1> SUFFICES ASSUME Placed, Settled, phase = "plan", rounds > 1, touches = 0,
                    NEW j \in plan, j.selected
             PROVE  FALSE
  BY DEF SecondPlanIsQuiet
<1>1. plan = Validated(Items(Listing)) /\ Quiet
  BY DEF Settled
<1>2. PICK i \in Items(Listing) : IsValidated(i, j, Items(Listing))
  BY <1>1, PlanFacts
<1>3. i = j /\ ~Blocked(i) /\ ~Contested(i, Items(Listing))
  BY <1>2 DEF IsValidated
<1> QED
  BY <1>1, <1>3 DEF Quiet

(* What a plan suggests needs no other suggestion, and as long as nobody else changes the
   files, an analysis after the first one selects nothing: for any folder whose names are
   texts of words, and although items of the first plan were deselected because others
   were in their way
   (planner.py:222-372, validators.py:100-180). *)
THEOREM Settles == Spec => []AnalysisSettles
<1> DEFINE Inv == Placed /\ Analysed /\ Named /\ Settled
<1>1. Init => Inv
  <2>1. Init => Settled
    BY DEF Init, Settled
  <2> QED
    BY <2>1, InitPlaced, InitAnalysed, InitNamed
<1>2. Inv /\ [Next]_vars => Inv'
  BY StepPlaced, StepAnalysed, StepNamed, StepSettled
<1>3. Inv => AnalysisSettles
  BY NamedIsClean, SettledIsQuiet DEF AnalysisSettles
<1> QED
  BY <1>1, <1>2, <1>3, PTL DEF Spec

=============================================================================
