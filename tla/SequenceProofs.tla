------------------------- MODULE SequenceProofs -------------------------
(***************************************************************************)
(* Theorems about the two modules whose state is sequences put together    *)
(* from parts: a stream from frames (FrameCodec), and the turns and the    *)
(* prompt of a request from messages (RequestHistory).                     *)
(*                                                                         *)
(* Frames: their bytes are kept, whatever the messages, the sizes of the   *)
(* reads and the moment the connection breaks off; and, for messages that  *)
(* fit their length, no slice is out of bounds and the loop implements the *)
(* channel of whole messages.                                              *)
(*                                                                         *)
(* Requests: for any chat, the model reads it once and in order, its turns *)
(* are the exchanges of the chat, and a result follows the call it answers.*)
(***************************************************************************)
EXTENDS FrameCodec, RequestHistory, SequenceTheorems, FiniteSetTheorems,
        WellFoundedInduction, TLAPS

\* The order of the naturals as a set of pairs, for WFMin.
LEMMA LessWellFounded == IsWellFoundedOn({p \in Nat \X Nat : p[1] < p[2]}, Nat)
BY NatLessThanWellFounded, Zenon DEF OpToRel

\* Induction over the naturals, for a set instead of a predicate: the least
\* number outside the set would have a predecessor outside it.
LEMMA Induction ==
  ASSUME NEW S \in SUBSET Nat, 0 \in S, \A n \in S : n + 1 \in S
  PROVE  S = Nat
<1> SUFFICES ASSUME Nat \ S # {} PROVE FALSE
  OBVIOUS
<1>1. PICK n \in Nat \ S : \A m \in Nat \ S : ~(<<m, n>> \in {p \in Nat \X Nat : p[1] < p[2]})
  BY LessWellFounded, WFMin, Zenon
<1>2. n \in Nat /\ n # 0 /\ n - 1 \in Nat /\ n - 1 < n
  OBVIOUS
<1>3. <<n - 1, n>> \in {p \in Nat \X Nat : p[1] < p[2]}
  BY <1>2
<1>4. n - 1 \in S
  BY <1>1, <1>2, <1>3
<1> QED
  BY <1>2, <1>4
-----------------------------------------------------------------------------
(* FlattenSeq.                                                             *)

\* The function that FlattenSeq defines by recursion, on the first n elements.
Flattens(f, s, n) == f = [i \in 1..n |-> IF i = 1 THEN s[i] ELSE f[i - 1] \o s[i]]

\* There is such a function for every length.
LEMMA FlattensExists ==
  ASSUME NEW s
  PROVE  \A n \in Nat : \E f : Flattens(f, s, n)
<1> DEFINE S == {n \in Nat : \E f : Flattens(f, s, n)}
<1>1. 0 \in S
  <2> DEFINE f == [i \in 1..0 |-> s[i]]
  <2>1. Flattens(f, s, 0)
    BY DEF Flattens
  <2> QED
    BY <2>1
<1>2. ASSUME NEW n \in S PROVE n + 1 \in S
  <2>1. n \in Nat
    OBVIOUS
  <2>2. PICK f : Flattens(f, s, n)
    OBVIOUS
  <2> DEFINE g == [i \in 1..(n + 1) |-> IF i \in 1..n THEN f[i]
                                        ELSE IF i = 1 THEN s[i] ELSE f[i - 1] \o s[i]]
  <2>3. ASSUME NEW i \in 1..(n + 1) PROVE g[i] = IF i = 1 THEN s[i] ELSE g[i - 1] \o s[i]
    <3>1. CASE i \in 1..n
      <4>1. f[i] = IF i = 1 THEN s[i] ELSE f[i - 1] \o s[i]
        BY <2>2, <3>1 DEF Flattens
      <4>2. i # 1 => i - 1 \in 1..n /\ i - 1 \in 1..(n + 1)
        BY <2>1, <3>1
      <4> QED
        BY <3>1, <4>1, <4>2
    <3>2. CASE i \notin 1..n
      <4>1. i # 1 => i - 1 \in 1..n /\ i - 1 \in 1..(n + 1)
        BY <2>1, <3>2
      <4> QED
        BY <3>2, <4>1
    <3> QED
      BY <3>1, <3>2
  <2>4. DOMAIN g = 1..(n + 1)
    OBVIOUS
  <2> HIDE DEF g
  <2>5. g = [i \in 1..(n + 1) |-> g[i]]
    <3>1. g = [i \in 1..(n + 1) |-> IF i \in 1..n THEN f[i]
                                        ELSE IF i = 1 THEN s[i] ELSE f[i - 1] \o s[i]]
      BY DEF g
    <3> QED
      BY <3>1
  <2>6. Flattens(g, s, n + 1)
    BY <2>3, <2>5 DEF Flattens
  <2> QED
    BY <2>1, <2>6
<1>3. S = Nat
  <2> HIDE DEF S
  <2>1. S \in SUBSET Nat
    BY DEF S
  <2> QED
    BY <1>1, <1>2, <2>1, Induction
<1> QED
  BY <1>3

\* Its value at one place.
LEMMA FlattensAt ==
  ASSUME NEW s, NEW n, NEW f, Flattens(f, s, n), NEW i \in 1..n
  PROVE  f[i] = IF i = 1 THEN s[i] ELSE f[i - 1] \o s[i]
<1> DEFINE e(j) == IF j = 1 THEN s[j] ELSE f[j - 1] \o s[j]
<1>1. f = [j \in 1..n |-> e(j)]
  BY DEF Flattens
<1> HIDE DEF e
<1>2. f[i] = e(i)
  BY <1>1
<1> QED
  BY <1>2 DEF e

\* It depends on the elements up to that place only.
LEMMA FlattensAgree ==
  ASSUME NEW s, NEW t, NEW n \in Nat, NEW m \in Nat, n <= m,
         \A i \in 1..n : s[i] = t[i],
         NEW f, Flattens(f, s, n), NEW g, Flattens(g, t, m)
  PROVE  \A i \in 1..n : f[i] = g[i]
<1> DEFINE S == {i \in Nat : i \in 1..n => f[i] = g[i]}
<1>1. 0 \in S
  OBVIOUS
<1>2. ASSUME NEW i \in S PROVE i + 1 \in S
  <2>1. SUFFICES ASSUME i + 1 \in 1..n PROVE f[i + 1] = g[i + 1]
    OBVIOUS
  <2>2. i + 1 \in 1..m /\ i \in Nat
    BY <2>1
  <2>3. f[i + 1] = IF i + 1 = 1 THEN s[i + 1] ELSE f[i + 1 - 1] \o s[i + 1]
    BY <2>1, FlattensAt
  <2>4. g[i + 1] = IF i + 1 = 1 THEN t[i + 1] ELSE g[i + 1 - 1] \o t[i + 1]
    BY <2>2, FlattensAt
  <2>5. i + 1 # 1 => i \in 1..n /\ i + 1 - 1 = i
    BY <2>1, <2>2
  <2>6. i + 1 # 1 => f[i] = g[i]
    BY <2>5
  <2> QED
    BY <2>1, <2>3, <2>4, <2>5, <2>6
<1>3. S = Nat
  <2> HIDE DEF S
  <2>1. S \in SUBSET Nat
    BY DEF S
  <2> QED
    BY <1>1, <1>2, <2>1, Induction
<1> QED
  BY <1>3

\* The flattened sequence is its value at the last place.
LEMMA FlattenSeqIsFlattens ==
  ASSUME NEW s, Len(s) \in Nat, Len(s) # 0
  PROVE  \E f : Flattens(f, s, Len(s)) /\ FlattenSeq(s) = f[Len(s)]
<1> DEFINE f == CHOOSE f : Flattens(f, s, Len(s))
<1>1. Flattens(f, s, Len(s))
  BY FlattensExists
<1>2. FlattenSeq(s) = f[Len(s)]
  BY DEF FlattenSeq, Flattens
<1> QED
  BY <1>1, <1>2

\* Appending an element appends its bytes.
LEMMA FlattenSeqAppend ==
  ASSUME NEW B, NEW s \in Seq(Seq(B)), NEW x \in Seq(B)
  PROVE  FlattenSeq(Append(s, x)) = FlattenSeq(s) \o x
<1> DEFINE t == Append(s, x)
<1>1. /\ Len(s) \in Nat /\ Len(t) = Len(s) + 1 /\ t[Len(s) + 1] = x
      /\ \A i \in 1..Len(s) : t[i] = s[i]
  BY AppendProperties
<1>2. PICK g : Flattens(g, t, Len(t)) /\ FlattenSeq(t) = g[Len(t)]
  <2> HIDE DEF t
  <2> QED
    BY <1>1, FlattenSeqIsFlattens
<1> HIDE DEF t
<1>3. g[Len(s) + 1] = IF Len(s) + 1 = 1 THEN x ELSE g[Len(s)] \o x
  <2>1. Len(s) + 1 \in 1..Len(t) /\ Len(s) + 1 - 1 = Len(s)
    BY <1>1
  <2>2. g[Len(s) + 1] = IF Len(s) + 1 = 1 THEN t[Len(s) + 1] ELSE g[Len(s) + 1 - 1] \o t[Len(s) + 1]
    BY <1>2, <2>1, FlattensAt
  <2> QED
    BY <1>1, <2>1, <2>2
<1>4. CASE Len(s) = 0
  <2>1. s = <<>>
    BY <1>4
  <2>2. FlattenSeq(s) = <<>>
    BY <2>1 DEF FlattenSeq
  <2> QED
    BY <1>1, <1>2, <1>3, <1>4, <2>2 DEF t
<1>5. CASE Len(s) # 0
  <2>1. PICK f : Flattens(f, s, Len(s)) /\ FlattenSeq(s) = f[Len(s)]
    BY <1>1, <1>5, FlattenSeqIsFlattens
  <2>2. f[Len(s)] = g[Len(s)]
    <3>1. Len(s) \in 1..Len(s) /\ Len(s) <= Len(t) /\ Len(t) \in Nat
      BY <1>1, <1>5
    <3>2. \A i \in 1..Len(s) : f[i] = g[i]
      <4>1. \A i \in 1..Len(s) : s[i] = t[i]
        BY <1>1
      <4>2. Flattens(f, s, Len(s)) /\ Flattens(g, t, Len(t)) /\ Len(s) \in Nat
        BY <1>1, <1>2, <2>1
      <4> DEFINE n == Len(s)
                 m == Len(t)
      <4>3. n \in Nat /\ m \in Nat /\ n <= m
        BY <3>1, <4>2
      <4> HIDE DEF n, m
      <4>4. Flattens(f, s, n) /\ Flattens(g, t, m) /\ \A i \in 1..n : s[i] = t[i]
        BY <4>1, <4>2 DEF n, m
      <4>5. \A i \in 1..n : f[i] = g[i]
        BY <4>3, <4>4, FlattensAgree
      <4> QED
        BY <4>5 DEF n
    <3> QED
      BY <3>1, <3>2
  <2> QED
    BY <1>1, <1>2, <1>3, <1>5, <2>1, <2>2 DEF t
<1> QED
  BY <1>4, <1>5

\* Nothing flattens to nothing.
LEMMA FlattenSeqEmpty == FlattenSeq(<<>>) = <<>>
BY DEF FlattenSeq

\* What is flattened so far is a prefix of what is flattened in the end.
LEMMA FlattenSeqPrefix ==
  ASSUME NEW B
  PROVE  \A s \in Seq(Seq(B)) : /\ FlattenSeq(s) \in Seq(B)
                                /\ \A n \in 0..Len(s) : IsPrefix(FlattenSeq(SubSeq(s, 1, n)), FlattenSeq(s))
<1> DEFINE Holds(s) == /\ FlattenSeq(s) \in Seq(B)
                       /\ \A n \in 0..Len(s) : IsPrefix(FlattenSeq(SubSeq(s, 1, n)), FlattenSeq(s))
           S == {k \in Nat : \A s \in Seq(Seq(B)) : Len(s) = k => Holds(s)}
<1>1. 0 \in S
  <2> SUFFICES ASSUME NEW s \in Seq(Seq(B)), Len(s) = 0 PROVE Holds(s)
    OBVIOUS
  <2>1. s = <<>> /\ FlattenSeq(s) = <<>>
    BY FlattenSeqEmpty
  <2>2. \A n \in 0..Len(s) : SubSeq(s, 1, n) = <<>>
    BY <2>1
  <2>3. \A n \in 0..Len(s) : FlattenSeq(SubSeq(s, 1, n)) = <<>>
    BY <2>2, FlattenSeqEmpty
  <2>4. IsPrefix(<<>>, <<>>)
    BY DEF IsPrefix
  <2>5. <<>> \in Seq(B)
    OBVIOUS
  <2> QED
    BY <2>1, <2>3, <2>4, <2>5
<1>2. ASSUME NEW k \in S PROVE k + 1 \in S
  <2> SUFFICES ASSUME NEW s \in Seq(Seq(B)), Len(s) = k + 1 PROVE Holds(s)
    OBVIOUS
  <2> DEFINE t == SubSeq(s, 1, k)
             x == s[k + 1]
  <2>1. k \in Nat /\ t \in Seq(Seq(B)) /\ Len(t) = k /\ x \in Seq(B)
    OBVIOUS
  <2>2. s = Append(t, x)
    <3>1. \A i \in 1..(k + 1) : s[i] = Append(t, x)[i]
      BY <2>1
    <3>2. Append(t, x) \in Seq(Seq(B)) /\ Len(Append(t, x)) = k + 1
      BY <2>1
    <3> QED
      BY <2>1, <3>1, <3>2, SeqEqual
  <2>3. \A n \in 0..k : SubSeq(s, 1, n) = SubSeq(t, 1, n)
    BY <2>1
  <2>4. SubSeq(s, 1, k + 1) = s
    BY <2>1, SubSeqFull
  <2> HIDE DEF t, x
  <2>5. Holds(t)
    BY <2>1
  <2>6. FlattenSeq(s) = FlattenSeq(t) \o x
    BY <2>1, <2>2, FlattenSeqAppend
  <2>7. FlattenSeq(t) \in Seq(B) /\ FlattenSeq(s) \in Seq(B)
    BY <2>1, <2>5, <2>6
  <2>8. ASSUME NEW n \in 0..k PROVE IsPrefix(FlattenSeq(SubSeq(s, 1, n)), FlattenSeq(s))
    <3> DEFINE p == FlattenSeq(SubSeq(t, 1, n))
    <3>1. IsPrefix(p, FlattenSeq(t))
      BY <2>1, <2>5
    <3> HIDE DEF p
    <3>2. IsPrefix(p, FlattenSeq(t) \o x)
      BY <2>1, <2>7, <3>1 DEF IsPrefix
    <3> QED
      BY <2>3, <2>6, <3>2 DEF p
  <2>9. IsPrefix(FlattenSeq(s), FlattenSeq(s))
    BY <2>7 DEF IsPrefix
  <2>10. \A n \in 0..Len(s) : n \in 0..k \/ n = k + 1
    BY <2>1
  <2> QED
    BY <2>4, <2>7, <2>8, <2>9, <2>10
<1>3. S = Nat
  <2> HIDE DEF S
  <2>1. S \in SUBSET Nat
    BY DEF S
  <2> QED
    BY <1>1, <1>2, <2>1, Induction
<1> QED
  BY <1>3
-----------------------------------------------------------------------------
(* The parts of a flattened sequence.                                      *)

\* Where the part i of a flattened sequence begins.
Off(g, i) == Len(FlattenSeq(SubSeq(g, 1, i - 1)))

\* What is flattened up to i ends with the part i.
LEMMA OneMorePart ==
  ASSUME NEW B, NEW g \in Seq(Seq(B)), NEW i \in 1..Len(g)
  PROVE  FlattenSeq(SubSeq(g, 1, i)) = FlattenSeq(SubSeq(g, 1, i - 1)) \o g[i]
<1> DEFINE t == SubSeq(g, 1, i - 1)
           u == SubSeq(g, 1, i)
<1>1. /\ t \in Seq(Seq(B)) /\ Len(t) = i - 1 /\ i \in Nat /\ i - 1 \in Nat /\ g[i] \in Seq(B)
      /\ \A k \in 1..(i - 1) : t[k] = g[k]
  OBVIOUS
<1>2. u \in Seq(Seq(B)) /\ Len(u) = i /\ \A k \in 1..i : u[k] = g[k]
  OBVIOUS
<1> HIDE DEF t, u
<1>3. /\ Append(t, g[i]) \in Seq(Seq(B)) /\ Len(Append(t, g[i])) = i
      /\ \A k \in 1..i : Append(t, g[i])[k] = u[k]
  <2> DEFINE x == g[i]
  <2>1. /\ Append(t, x) \in Seq(Seq(B)) /\ Len(Append(t, x)) = Len(t) + 1
        /\ \A k \in 1..Len(t) : Append(t, x)[k] = t[k]
        /\ Append(t, x)[Len(t) + 1] = x
    <3>1. x \in Seq(B)
      BY <1>1
    <3> HIDE DEF x
    <3> QED
      BY <1>1, <3>1, AppendProperties
  <2> HIDE DEF x
  <2>2. \A k \in 1..i : k \in 1..(i - 1) \/ k = i
    BY <1>1
  <2>3. u[i] = x /\ \A k \in 1..(i - 1) : u[k] = g[k]
    BY <1>1, <1>2 DEF x
  <2>4. Append(t, x)[i] = u[i] /\ i = Len(t) + 1
    <3>1. i = Len(t) + 1
      BY <1>1
    <3> QED
      BY ONLY <2>1, <2>3, <3>1
  <2>5. ASSUME NEW k \in 1..(i - 1) PROVE Append(t, x)[k] = u[k]
    BY <1>1, <2>1, <2>3
  <2>6. \A k \in 1..i : Append(t, x)[k] = u[k]
    BY <2>2, <2>4, <2>5
  <2>7. x = g[i]
    BY DEF x
  <2> QED
    BY <2>1, <2>4, <2>6, <2>7
<1>4. u = Append(t, g[i])
  BY <1>2, <1>3, SeqEqual
<1>5. FlattenSeq(Append(t, g[i])) = FlattenSeq(t) \o g[i]
  BY <1>1, FlattenSeqAppend
<1> QED
  BY <1>4, <1>5 DEF t, u

\* A prefix agrees with the whole.
LEMMA PrefixAgrees ==
  ASSUME NEW B, NEW s \in Seq(B), NEW t \in Seq(B), IsPrefix(s, t)
  PROVE  Len(s) <= Len(t) /\ \A i \in 1..Len(s) : s[i] = t[i]
<1>1. Len(s) \in Nat /\ Len(t) \in Nat /\ Len(s) <= Len(t) /\ SubSeq(s, 1, Len(s)) = SubSeq(t, 1, Len(s))
  BY DEF IsPrefix
<1>2. \A i \in 1..Len(s) : SubSeq(s, 1, Len(s))[i] = s[i] /\ SubSeq(t, 1, Len(s))[i] = t[i]
  BY <1>1
<1> QED
  BY <1>1, <1>2

\* The lengths of what is flattened up to n grow with n.
LEMMA PartsGrow ==
  ASSUME NEW B, NEW g \in Seq(Seq(B)), NEW n \in 0..Len(g), NEW m \in n..Len(g)
  PROVE  /\ FlattenSeq(SubSeq(g, 1, n)) \in Seq(B)
         /\ Len(FlattenSeq(SubSeq(g, 1, n))) \in Nat
         /\ Len(FlattenSeq(SubSeq(g, 1, n))) <= Len(FlattenSeq(SubSeq(g, 1, m)))
<1> DEFINE u == SubSeq(g, 1, m)
<1>1. u \in Seq(Seq(B)) /\ Len(u) = m /\ n \in 0..m /\ SubSeq(u, 1, n) = SubSeq(g, 1, n)
  OBVIOUS
<1>2. SubSeq(g, 1, n) \in Seq(Seq(B))
  OBVIOUS
<1> HIDE DEF u
<1>3. FlattenSeq(u) \in Seq(B) /\ IsPrefix(FlattenSeq(SubSeq(u, 1, n)), FlattenSeq(u))
  BY <1>1, FlattenSeqPrefix
<1>4. FlattenSeq(SubSeq(g, 1, n)) \in Seq(B)
  BY <1>2, FlattenSeqPrefix
<1>5. Len(FlattenSeq(SubSeq(g, 1, n))) <= Len(FlattenSeq(u))
  BY <1>1, <1>3 DEF IsPrefix
<1> QED
  BY <1>4, <1>5 DEF u

\* The parts stand one behind the other, and nothing else does.
LEMMA Parts ==
  ASSUME NEW B, NEW g \in Seq(Seq(B))
  PROVE  /\ FlattenSeq(g) \in Seq(B)
         /\ \A i \in 1..Len(g) : Off(g, i) \in Nat
         /\ \A i, j \in 1..Len(g) : i < j => Off(g, i) + Len(g[i]) <= Off(g, j)
         /\ \A i \in 1..Len(g) : \A k \in 1..Len(g[i]) :
              /\ Off(g, i) + k \in 1..Len(FlattenSeq(g))
              /\ FlattenSeq(g)[Off(g, i) + k] = g[i][k]
         /\ \A s \in 1..Len(FlattenSeq(g)) : \E i \in 1..Len(g) : \E k \in 1..Len(g[i]) :
              s = Off(g, i) + k
<1> DEFINE F == FlattenSeq(g)
           upTo(n) == FlattenSeq(SubSeq(g, 1, n))
<1>1. Len(g) \in Nat /\ SubSeq(g, 1, Len(g)) = g /\ SubSeq(g, 1, 0) = <<>>
  BY SubSeqFull
<1>2. F \in Seq(B)
  BY FlattenSeqPrefix
<1>3. ASSUME NEW n \in 0..Len(g) PROVE upTo(n) \in Seq(B) /\ Len(upTo(n)) \in Nat
  BY PartsGrow
<1>4. ASSUME NEW n \in 0..Len(g), NEW m \in n..Len(g) PROVE Len(upTo(n)) <= Len(upTo(m))
  BY PartsGrow
<1>5. ASSUME NEW i \in 1..Len(g)
      PROVE  /\ Off(g, i) = Len(upTo(i - 1)) /\ Off(g, i) \in Nat /\ g[i] \in Seq(B)
             /\ upTo(i) = upTo(i - 1) \o g[i] /\ Len(upTo(i)) = Off(g, i) + Len(g[i])
  <2>1. upTo(i) = upTo(i - 1) \o g[i]
    BY OneMorePart
  <2>2. i - 1 \in 0..Len(g) /\ g[i] \in Seq(B)
    OBVIOUS
  <2>3. upTo(i - 1) \in Seq(B) /\ Len(upTo(i - 1)) \in Nat
    BY <1>3, <2>2
  <2>4. Len(upTo(i - 1) \o g[i]) = Len(upTo(i - 1)) + Len(g[i])
    BY <2>2, <2>3
  <2> QED
    BY <2>1, <2>2, <2>3, <2>4 DEF Off
<1>6. upTo(Len(g)) = F /\ upTo(0) = <<>>
  BY <1>1, FlattenSeqEmpty
<1>7. ASSUME NEW i \in 1..Len(g), NEW j \in 1..Len(g), i < j
      PROVE  Off(g, i) + Len(g[i]) <= Off(g, j)
  <2>1. i \in 0..Len(g) /\ j - 1 \in i..Len(g)
    BY <1>1, <1>7
  <2>2. Len(upTo(i)) <= Len(upTo(j - 1))
    BY <1>4, <2>1
  <2> HIDE DEF upTo
  <2> QED
    BY <1>5, <2>2
<1>8. ASSUME NEW i \in 1..Len(g), NEW k \in 1..Len(g[i])
      PROVE  Off(g, i) + k \in 1..Len(F) /\ F[Off(g, i) + k] = g[i][k]
  <2> DEFINE p == upTo(i - 1)
             q == upTo(i)
  <2>1. /\ p \in Seq(B) /\ g[i] \in Seq(B) /\ q = p \o g[i] /\ Len(p) = Off(g, i) /\ Off(g, i) \in Nat
        /\ Len(q) = Off(g, i) + Len(g[i])
    <3>1. i - 1 \in 0..Len(g)
      BY <1>1
    <3> QED
      BY <1>3, <1>5, <3>1
  <2>2. q \in Seq(B) /\ IsPrefix(q, F)
    <3>1. i \in 0..Len(g)
      BY <1>1
    <3>2. \A s \in Seq(Seq(B)) : \A n \in 0..Len(s) : IsPrefix(FlattenSeq(SubSeq(s, 1, n)), FlattenSeq(s))
      BY FlattenSeqPrefix
    <3> QED
      BY <1>3, <3>1, <3>2
  <2> HIDE DEF p, q, F, upTo
  <2>3. Len(q) <= Len(F) /\ \A n \in 1..Len(q) : q[n] = F[n]
    BY <1>2, <2>2, PrefixAgrees
  <2>4. Len(F) \in Nat /\ Len(g[i]) \in Nat
    BY <1>2, <2>1
  <2> DEFINE n == Off(g, i) + k
  <2>5. n \in 1..Len(q) /\ n \in 1..Len(F) /\ ~(n <= Len(p)) /\ n - Len(p) = k
    <3> DEFINE o == Off(g, i)
               l == Len(g[i])
               e == Len(F)
    <3>1. o \in Nat /\ l \in Nat /\ e \in Nat /\ k \in 1..l /\ o + l <= e
      BY <2>1, <2>3, <2>4
    <3> HIDE DEF o, l, e
    <3>2. o + k \in 1..(o + l) /\ o + k \in 1..e /\ ~(o + k <= o) /\ o + k - o = k
      BY ONLY <3>1
    <3> QED
      BY <2>1, <3>2 DEF o, l, e
  <2>6. q[n] = g[i][k]
    <3>1. \A x \in 1..(Len(p) + Len(g[i])) : (p \o g[i])[x] = IF x <= Len(p) THEN p[x] ELSE g[i][x - Len(p)]
      BY <2>1, ConcatProperties
    <3> HIDE DEF n
    <3> QED
      BY <2>1, <2>5, <3>1
  <2> HIDE DEF n
  <2>7. F[n] = g[i][k]
    BY <2>3, <2>5, <2>6
  <2> QED
    BY <2>5, <2>7 DEF n
<1>9. ASSUME NEW s \in 1..Len(F)
      PROVE  \E i \in 1..Len(g) : \E k \in 1..Len(g[i]) : s = Off(g, i) + k
  <2> DEFINE S == {n \in 0..Len(g) : s <= Len(upTo(n))}
  <2>1. Len(g) \in S /\ S \in SUBSET Nat
    BY <1>1, <1>2, <1>6
  <2>2. PICK i \in S : \A m \in S : ~(<<m, i>> \in {p \in Nat \X Nat : p[1] < p[2]})
    <3> HIDE DEF S
    <3> QED
      BY <2>1, LessWellFounded, WFMin, Zenon
  <2>3. i \in 0..Len(g) /\ s <= Len(upTo(i)) /\ s \in Nat /\ s >= 1
    BY <1>2
  <2>4. i # 0
    <3>1. Len(upTo(0)) = 0
      BY <1>6
    <3> HIDE DEF upTo
    <3> QED
      BY <2>3, <3>1
  <2>5. i \in 1..Len(g) /\ i - 1 \in 0..Len(g) /\ <<i - 1, i>> \in {p \in Nat \X Nat : p[1] < p[2]}
    BY <1>1, <2>3, <2>4
  <2>6. ~(s <= Len(upTo(i - 1)))
    <3>1. i - 1 \notin S
      BY <2>2, <2>5
    <3> QED
      BY <2>5, <3>1
  <2>7. /\ Off(g, i) = Len(upTo(i - 1)) /\ Len(upTo(i)) = Off(g, i) + Len(g[i]) /\ Off(g, i) \in Nat
        /\ Len(g[i]) \in Nat
    <3>1. i \in 1..Len(g)
      BY <2>5
    <3>2. g[i] \in Seq(B)
      BY <3>1
    <3>3. Len(g[i]) \in Nat
      BY <3>2
    <3>4. /\ Off(g, i) = Len(upTo(i - 1)) /\ Len(upTo(i)) = Off(g, i) + Len(g[i])
          /\ Off(g, i) \in Nat
      BY <1>5, <3>1
    <3> QED
      BY <3>3, <3>4
  <2> DEFINE a == Len(upTo(i - 1))
             b == Len(upTo(i))
             o == Off(g, i)
             l == Len(g[i])
             k == s - o
  <2>8. k \in 1..l /\ s = o + k
    <3>1. s <= b /\ ~(s <= a) /\ o = a /\ b = o + l /\ o \in Nat /\ l \in Nat /\ s \in Nat
      BY <2>3, <2>6, <2>7
    <3> HIDE DEF a, b, o, l
    <3> QED
      BY <3>1
  <2> HIDE DEF k
  <2> QED
    BY <2>5, <2>8
<1> QED
  BY <1>2, <1>5, <1>7, <1>8, <1>9
-----------------------------------------------------------------------------
(* Lengths of two digits, and sums that wrap around.                       *)

\* A length that two digits can hold is made of them.
LEMMA DivMod ==
  ASSUME NEW n \in Nat, n < Base * Base
  PROVE  n \div Base \in Byte /\ n % Base \in Byte /\ (n \div Base) * Base + (n % Base) = n
<1>1. Base \in Nat /\ Base > 0
  BY BaseAssumption
<1>2. n = Base * (n \div Base) + (n % Base) /\ n % Base \in 0..(Base - 1) /\ n \div Base \in Nat
  BY <1>1
<1> DEFINE q == n \div Base
<1>3. q \in Nat
  BY <1>2
<1>4. Base * q <= n
  BY <1>1, <1>2, <1>3
<1> HIDE DEF q
<1>5. q >= Base => Base * q >= Base * Base
  BY <1>1, <1>3
<1>6. q < Base
  BY <1>1, <1>3, <1>4, <1>5
<1> QED
  BY <1>1, <1>2, <1>3, <1>6 DEF Byte, q

\* Two digits are read back from the number they make.
LEMMA TwoDigits ==
  ASSUME NEW a \in Byte, NEW b \in Byte
  PROVE  /\ a * Base + b \in Nat /\ a * Base + b < Base * Base
         /\ (a * Base + b) \div Base = a /\ (a * Base + b) % Base = b
<1>1. Base \in Nat /\ Base > 0 /\ a \in Nat /\ b \in Nat /\ a <= Base - 1 /\ b < Base
  BY BaseAssumption DEF Byte
<1>2. a * Base <= (Base - 1) * Base
  BY <1>1
<1>3. (Base - 1) * Base = Base * Base - Base
  BY <1>1
<1> QED
  BY <1>1, <1>2, <1>3

\* What wrapping around does to sums up to the first one that wraps.
LEMMA WrapSmall ==
  ASSUME NEW n \in Nat
  PROVE  /\ n < Base * Base => Wrap(n) = n
         /\ Wrap(n) \in Nat /\ Wrap(n) <= n /\ Wrap(n) < Base * Base
         /\ n >= Base * Base /\ n < Base * Base + HeaderSize => Wrap(n) < HeaderSize
<1> DEFINE m == Base * Base
<1>1. m \in Nat /\ m >= 4
  BY BaseAssumption
<1>2. Wrap(n) = n % m
  BY DEF Wrap
<1> HIDE DEF m
<1>3. n < m => n % m = n
  BY <1>1
<1>4. n % m \in 0..(m - 1) /\ n % m <= n
  BY <1>1
<1>5. n >= m /\ n < m + HeaderSize => n % m < HeaderSize
  BY <1>1 DEF HeaderSize
<1> QED
  BY <1>1, <1>2, <1>3, <1>4, <1>5 DEF m
-----------------------------------------------------------------------------
(* Frames.                                                                 *)

\* Whatever can be framed.
Frame == [flags : Byte, payload : Seq(Byte)]

\* What the server sends can be framed.
LEMMA MessagesAreFrames == Messages \subseteq Frame
BY MessagesAssumption DEF Frame

\* A frame's bytes: the flags, the length as it wrapped, the payload.
LEMMA FrameBytes ==
  ASSUME NEW msg \in Frame
  PROVE  /\ frameConnectMessage(msg) \in Seq(Byte)
         /\ Len(frameConnectMessage(msg)) = HeaderSize + Len(msg.payload)
         /\ frameConnectMessage(msg)[1] = msg.flags
         /\ LengthIn(frameConnectMessage(msg)) = Wrap(Len(msg.payload))
         /\ \A i \in 1..Len(msg.payload) : frameConnectMessage(msg)[HeaderSize + i] = msg.payload[i]
<1> DEFINE length == Wrap(Len(msg.payload))
           header == <<msg.flags, length \div Base, length % Base>>
           payload == msg.payload
<1>1. msg.flags \in Byte /\ payload \in Seq(Byte) /\ Len(payload) \in Nat
  BY DEF Frame
<1>2. length \in Nat /\ length < Base * Base
  BY <1>1, WrapSmall
<1>3. /\ length \div Base \in Byte /\ length % Base \in Byte
      /\ (length \div Base) * Base + (length % Base) = length
  <2> HIDE DEF length
  <2> QED
    BY <1>2, DivMod
<1>4. frameConnectMessage(msg) = header \o payload
  BY DEF frameConnectMessage
<1> DEFINE q == length \div Base
           r == length % Base
<1> HIDE DEF length, payload
<1>5. header = <<msg.flags, q, r>> /\ q \in Byte /\ r \in Byte
  BY <1>3
<1> HIDE DEF q, r
<1>6. header \in Seq(Byte) /\ Len(header) = 3 /\ header[1] = msg.flags /\ header[2] = q /\ header[3] = r
  BY <1>1, <1>5
<1> HIDE DEF header
<1>7. /\ header \o payload \in Seq(Byte) /\ Len(header \o payload) = 3 + Len(payload)
      /\ \A i \in 1..3 : (header \o payload)[i] = header[i]
      /\ \A i \in 1..Len(payload) : (header \o payload)[3 + i] = payload[i]
  <2>1. /\ header \o payload \in Seq(Byte) /\ Len(header \o payload) = Len(header) + Len(payload)
        /\ \A i \in 1..(Len(header) + Len(payload)) :
             (header \o payload)[i] = IF i <= Len(header) THEN header[i] ELSE payload[i - Len(header)]
    BY <1>1, <1>6, ConcatProperties
  <2>2. ASSUME NEW i \in 1..Len(payload)
        PROVE  3 + i \in 1..(3 + Len(payload)) /\ ~(3 + i <= 3) /\ 3 + i - 3 = i
    BY <1>1
  <2>3. \A i \in 1..3 : i \in 1..(3 + Len(payload)) /\ i <= 3
    BY <1>1
  <2> QED
    BY <1>6, <2>1, <2>2, <2>3
<1>8. LengthIn(header \o payload) = length
  BY <1>3, <1>6, <1>7 DEF LengthIn, q, r
<1> QED
  BY <1>4, <1>6, <1>7, <1>8 DEF HeaderSize, length, payload

\* The frames of a sequence of messages, one for one.
LEMMA FramesAreSequences ==
  ASSUME NEW msgs \in Seq(Frame)
  PROVE  /\ [i \in DOMAIN msgs |-> frameConnectMessage(msgs[i])] \in Seq(Seq(Byte))
         /\ Len([i \in DOMAIN msgs |-> frameConnectMessage(msgs[i])]) = Len(msgs)
<1>1. ASSUME NEW i \in DOMAIN msgs PROVE frameConnectMessage(msgs[i]) \in Seq(Byte)
  BY FrameBytes
<1>2. DOMAIN msgs = 1..Len(msgs) /\ Len(msgs) \in Nat
  OBVIOUS
<1> QED
  BY <1>1, <1>2

\* One more message puts its frame after the bytes of the others.
LEMMA BytesAppend ==
  ASSUME NEW msgs \in Seq(Frame), NEW msg \in Frame
  PROVE  Bytes(Append(msgs, msg)) = Bytes(msgs) \o frameConnectMessage(msg)
<1> DEFINE frames(m) == [i \in DOMAIN m |-> frameConnectMessage(m[i])]
           more == Append(msgs, msg)
<1>1. \A f \in Frame : frameConnectMessage(f) \in Seq(Byte)
  BY FrameBytes
<1>2. frames(msgs) \in Seq(Seq(Byte)) /\ Len(frames(msgs)) = Len(msgs)
  BY FramesAreSequences
<1>3. /\ more \in Seq(Frame) /\ Len(more) = Len(msgs) + 1 /\ Len(msgs) \in Nat
      /\ more[Len(msgs) + 1] = msg /\ \A i \in 1..Len(msgs) : more[i] = msgs[i]
  BY AppendProperties
<1> HIDE DEF more
<1>4. frames(more) \in Seq(Seq(Byte)) /\ Len(frames(more)) = Len(msgs) + 1
  BY <1>3, FramesAreSequences
<1>5. Append(frames(msgs), frameConnectMessage(msg)) \in Seq(Seq(Byte))
  BY <1>1, <1>2
<1>6. Len(Append(frames(msgs), frameConnectMessage(msg))) = Len(msgs) + 1
  BY <1>1, <1>2
<1>7. \A i \in 1..(Len(msgs) + 1) : frames(more)[i] = Append(frames(msgs), frameConnectMessage(msg))[i]
  BY <1>1, <1>2, <1>3
<1>8. frames(more) = Append(frames(msgs), frameConnectMessage(msg))
  BY <1>4, <1>5, <1>6, <1>7, SeqEqual
<1>9. FlattenSeq(Append(frames(msgs), frameConnectMessage(msg)))
        = FlattenSeq(frames(msgs)) \o frameConnectMessage(msg)
  BY <1>1, <1>2, FlattenSeqAppend
<1> QED
  BY <1>8, <1>9 DEF Bytes, more

\* The bytes of the first messages come first among the bytes of all.
LEMMA BytesPrefix ==
  ASSUME NEW msgs \in Seq(Frame)
  PROVE  /\ Bytes(msgs) \in Seq(Byte)
         /\ \A n \in 0..Len(msgs) : IsPrefix(Bytes(SubSeq(msgs, 1, n)), Bytes(msgs))
<1> DEFINE frames(m) == [i \in DOMAIN m |-> frameConnectMessage(m[i])]
<1>1. frames(msgs) \in Seq(Seq(Byte)) /\ Len(frames(msgs)) = Len(msgs)
  BY FramesAreSequences
<1>2. ASSUME NEW n \in 0..Len(msgs) PROVE frames(SubSeq(msgs, 1, n)) = SubSeq(frames(msgs), 1, n)
  BY <1>1
<1>3. /\ FlattenSeq(frames(msgs)) \in Seq(Byte)
      /\ \A n \in 0..Len(frames(msgs)) :
           IsPrefix(FlattenSeq(SubSeq(frames(msgs), 1, n)), FlattenSeq(frames(msgs)))
  BY <1>1, FlattenSeqPrefix
<1> QED
  BY <1>1, <1>2, <1>3 DEF Bytes

\* What is sliced off is the frame that stands there, and the rest.
LEMMA FrameTaken ==
  ASSUME NEW b \in Seq(Byte), Enough(b), Sliceable(b)
  PROVE  /\ FrameIn(b) \in Frame /\ RestOf(b) \in Seq(Byte)
         /\ frameConnectMessage(FrameIn(b)) \o RestOf(b) = b
         /\ LengthIn(b) \in Nat /\ HeaderSize + LengthIn(b) <= Len(b)
         /\ Len(FrameIn(b).payload) = LengthIn(b)
<1> DEFINE L == LengthIn(b)
           f == FrameIn(b)
           x == frameConnectMessage(f)
<1>1. Len(b) \in Nat /\ HeaderSize <= Len(b) /\ HeaderSize = 3
  BY DEF Enough, HeaderSize
<1>2. b[1] \in Byte /\ b[2] \in Byte /\ b[3] \in Byte
  BY <1>1
<1>3. L \in Nat /\ L < Base * Base
  BY <1>2, TwoDigits DEF LengthIn
<1>4. Wrap(3 + L) = 3 + L /\ 3 + L <= Len(b)
  <2> HIDE DEF L
  <2>1. 3 + L \in Nat /\ Base * Base \in Nat
    BY <1>3, BaseAssumption
  <2>2. 3 <= Wrap(3 + L) /\ Wrap(3 + L) <= Wrap(Len(b)) /\ Wrap(Len(b)) <= Len(b)
    BY <1>1, WrapSmall DEF Sliceable, EndIn, Enough, L
  <2>3. ~(3 + L >= Base * Base)
    <3> DEFINE m == Base * Base
    <3>1. 3 + L >= m /\ 3 + L < m + 3 => Wrap(3 + L) < 3 /\ Wrap(3 + L) \in Nat
      BY <1>1, <2>1, WrapSmall
    <3>2. m \in Nat /\ L < m
      BY <1>3, <2>1
    <3> HIDE DEF m
    <3>3. ~(3 + L >= m)
      BY <1>3, <2>2, <3>1, <3>2
    <3> QED
      BY <3>3 DEF m
  <2>4. Wrap(3 + L) = 3 + L
    <3> DEFINE m == Base * Base
    <3>1. 3 + L < m => Wrap(3 + L) = 3 + L
      BY <2>1, WrapSmall
    <3>2. m \in Nat /\ ~(3 + L >= m)
      BY <2>1, <2>3
    <3> HIDE DEF m
    <3> QED
      BY <2>1, <3>1, <3>2
  <2>5. Wrap(Len(b)) \in Nat
    BY <1>1, WrapSmall
  <2> QED
    BY <1>1, <2>1, <2>2, <2>4, <2>5
<1> HIDE DEF L
<1>5. f = [flags |-> b[1], payload |-> SubSeq(b, 4, 3 + L)]
  BY <1>1 DEF FrameIn, L
<1>6. /\ SubSeq(b, 4, 3 + L) \in Seq(Byte) /\ Len(SubSeq(b, 4, 3 + L)) = L
      /\ \A i \in 1..L : SubSeq(b, 4, 3 + L)[i] = b[3 + i]
  BY <1>1, <1>3, <1>4
<1>7. f \in Frame /\ f.flags = b[1] /\ f.payload = SubSeq(b, 4, 3 + L)
  BY <1>2, <1>5, <1>6 DEF Frame
<1> HIDE DEF f
<1>8. /\ x \in Seq(Byte) /\ Len(x) = 3 + L /\ x[1] = b[1] /\ LengthIn(x) = L
      /\ \A i \in 1..L : x[3 + i] = b[3 + i]
  BY <1>1, <1>3, <1>6, <1>7, FrameBytes, WrapSmall
<1> HIDE DEF x
<1>9. x[2] \in Byte /\ x[3] \in Byte
  BY <1>3, <1>8
<1>10. x[2] = b[2] /\ x[3] = b[3]
  <2>1. (x[2] * Base + x[3]) \div Base = x[2] /\ (x[2] * Base + x[3]) % Base = x[3]
    BY <1>9, TwoDigits
  <2>2. (b[2] * Base + b[3]) \div Base = b[2] /\ (b[2] * Base + b[3]) % Base = b[3]
    BY <1>2, TwoDigits
  <2>3. x[2] * Base + x[3] = b[2] * Base + b[3]
    BY <1>8 DEF LengthIn, L
  <2> QED
    BY <2>1, <2>2, <2>3
<1>11. ASSUME NEW j \in 1..(3 + L) PROVE x[j] = b[j]
  <2>1. j = 1 \/ j = 2 \/ j = 3 \/ (j - 3 \in 1..L /\ j = 3 + (j - 3))
    BY <1>3
  <2> QED
    BY <1>8, <1>10, <2>1
<1> DEFINE y == RestOf(b)
<1>12. y = SubSeq(b, 3 + L + 1, Len(b))
  BY <1>1, <1>4 DEF RestOf, EndIn, L
<1>13. /\ y \in Seq(Byte) /\ Len(y) = Len(b) - (3 + L)
       /\ \A i \in 1..Len(y) : y[i] = b[3 + L + i]
  BY <1>1, <1>3, <1>4, <1>12
<1> HIDE DEF y
<1>14. x \o y = b
  <2>1. /\ x \o y \in Seq(Byte) /\ Len(x \o y) = Len(x) + Len(y)
        /\ \A i \in 1..(Len(x) + Len(y)) :
             (x \o y)[i] = IF i <= Len(x) THEN x[i] ELSE y[i - Len(x)]
    BY <1>8, <1>13, ConcatProperties
  <2>2. Len(x \o y) = Len(b)
    BY <1>1, <1>3, <1>8, <1>13, <2>1
  <2>3. ASSUME NEW i \in 1..Len(b) PROVE (x \o y)[i] = b[i]
    <3>1. CASE i <= 3 + L
      BY <1>3, <1>8, <1>11, <2>1, <2>2, <3>1
    <3>2. CASE ~(i <= 3 + L)
      <4>1. i - (3 + L) \in 1..Len(y) /\ 3 + L + (i - (3 + L)) = i
        BY <1>1, <1>3, <1>4, <1>13, <3>2
      <4>2. (x \o y)[i] = y[i - (3 + L)]
        BY <1>8, <2>1, <2>2, <3>2
      <4> QED
        BY <1>13, <4>1, <4>2
    <3> QED
      BY <3>1, <3>2
  <2> QED
    BY <2>1, <2>2, <2>3, SeqEqual
<1> QED
  BY <1>1, <1>3, <1>4, <1>6, <1>7, <1>13, <1>14 DEF L, f, x, y
-----------------------------------------------------------------------------
(* No byte is lost.                                                        *)

\* The type invariant.
TypeOK ==
  /\ sent \in Seq(Messages) /\ got \in Seq(Frame)
  /\ wire \in Seq(Byte) /\ pending \in Seq(Byte)
  /\ cut \in BOOLEAN /\ failed \in BOOLEAN
  /\ pc \in {"read", "extract", "done"}
  /\ outcome \in {"open", "ended", "dropped", "panic"}

\* So could what it has sent.
LEMMA SentAreFrames ==
  ASSUME TypeOK
  PROVE  sent \in Seq(Frame)
BY MessagesAreFrames, SeqMonotonic DEF TypeOK

\* Cutting the end off the last part leaves a prefix of the whole.
LEMMA PrefixOfConcat ==
  ASSUME NEW B, NEW s \in Seq(B), NEW t \in Seq(B), NEW n \in 0..Len(t)
  PROVE  IsPrefix(s \o SubSeq(t, 1, n), s \o t)
<1> DEFINE u == SubSeq(t, 1, n)
<1>1. /\ u \in Seq(B) /\ Len(u) = n /\ \A i \in 1..n : u[i] = t[i]
      /\ Len(s) \in Nat /\ Len(t) \in Nat /\ n \in Nat /\ n <= Len(t)
  OBVIOUS
<1> HIDE DEF u
<1>2. /\ s \o u \in Seq(B) /\ Len(s \o u) = Len(s) + n
      /\ \A i \in 1..(Len(s) + n) : (s \o u)[i] = IF i <= Len(s) THEN s[i] ELSE u[i - Len(s)]
  BY <1>1, ConcatProperties
<1>3. /\ s \o t \in Seq(B) /\ Len(s \o t) = Len(s) + Len(t)
      /\ \A i \in 1..(Len(s) + Len(t)) : (s \o t)[i] = IF i <= Len(s) THEN s[i] ELSE t[i - Len(s)]
  BY ConcatProperties
<1>4. ASSUME NEW i \in 1..(Len(s) + n) PROVE (s \o u)[i] = (s \o t)[i]
  <2>1. i \in 1..(Len(s) + Len(t))
    BY <1>1
  <2>2. ~(i <= Len(s)) => i - Len(s) \in 1..n
    BY <1>1
  <2> QED
    BY <1>1, <1>2, <1>3, <2>1, <2>2
<1>5. Len(s \o u) <= Len(s \o t)
  BY <1>1, <1>2, <1>3
<1> DEFINE x == s \o u
           y == s \o t
<1>6. x \in Seq(B) /\ y \in Seq(B) /\ Len(x) \in Nat /\ Len(x) <= Len(y) /\ \A i \in 1..Len(x) : x[i] = y[i]
  BY <1>1, <1>2, <1>3, <1>4, <1>5
<1> HIDE DEF x, y
<1>7. SubSeq(x, 1, Len(x)) = SubSeq(y, 1, Len(x))
  BY <1>6
<1>8. IsPrefix(x, y)
  BY <1>6, <1>7 DEF IsPrefix
<1> QED
  BY <1>8 DEF x, y, u

\* Parts that follow each other do so however they are grouped.
LEMMA Regroup ==
  \A s, t, u \in Seq(Byte) : (s \o t) \o u = s \o (t \o u)
BY ConcatAssociative

\* A frame that is sent is put behind the others on the wire.
LEMMA SendKeeps ==
  ASSUME TypeOK, BytesAreKept, Send
  PROVE  TypeOK' /\ BytesAreKept'
<1>1. PICK msg \in Messages : sent' = Append(sent, msg) /\ wire' = wire \o frameConnectMessage(msg)
  BY DEF Send
<1>2. ~cut /\ UNCHANGED <<cut, pending, failed, pc, got, outcome>>
  BY DEF Send
<1>3. msg \in Frame /\ sent \in Seq(Frame)
  BY MessagesAreFrames, SentAreFrames
<1> DEFINE f == frameConnectMessage(msg)
           s == Bytes(sent)
           g == Bytes(got)
<1>4. f \in Seq(Byte) /\ s \in Seq(Byte) /\ g \in Seq(Byte) /\ wire \in Seq(Byte) /\ pending \in Seq(Byte)
  BY <1>3, FrameBytes, BytesPrefix DEF TypeOK
<1>5. Bytes(sent') = s \o f
  BY <1>1, <1>3, BytesAppend
<1> HIDE DEF f, s, g
<1>6. (g \o pending) \o wire = s
  BY <1>2 DEF BytesAreKept, s, g
<1>7. ((g \o pending) \o wire) \o f = (g \o pending) \o (wire \o f)
  <2> DEFINE h == g \o pending
  <2>1. h \in Seq(Byte)
    BY <1>4
  <2> HIDE DEF h
  <2>2. (h \o wire) \o f = h \o (wire \o f)
    BY <1>4, <2>1, Regroup
  <2> QED
    BY <2>2 DEF h
<1>8. BytesAreKept'
  BY <1>1, <1>2, <1>5, <1>6, <1>7 DEF BytesAreKept, f, g
<1>9. TypeOK'
  <2>1. sent' \in Seq(Messages)
    BY <1>1 DEF TypeOK
  <2>2. wire' \in Seq(Byte)
    BY <1>1, <1>4 DEF f
  <2> QED
    BY <1>2, <2>1, <2>2 DEF TypeOK
<1> QED
  BY <1>8, <1>9

\* A connection that breaks off leaves a prefix.
LEMMA DropKeeps ==
  ASSUME TypeOK, BytesAreKept, Drop
  PROVE  TypeOK' /\ BytesAreKept'
<1>1. PICK n \in 0..Len(wire) : wire' = SubSeq(wire, 1, n)
  BY DEF Drop
<1>2. ~cut /\ cut' = TRUE /\ UNCHANGED <<sent, pending, failed, pc, got, outcome>>
  BY DEF Drop
<1> DEFINE s == Bytes(sent)
           g == Bytes(got)
<1>3. g \in Seq(Byte) /\ wire \in Seq(Byte) /\ pending \in Seq(Byte)
  BY BytesPrefix DEF TypeOK
<1> HIDE DEF s, g
<1>4. (g \o pending) \o wire = s
  BY <1>2 DEF BytesAreKept, s, g
<1>5. IsPrefix((g \o pending) \o SubSeq(wire, 1, n), (g \o pending) \o wire)
  <2>1. g \o pending \in Seq(Byte)
    BY <1>3
  <2> QED
    BY <1>3, <2>1, PrefixOfConcat
<1>6. BytesAreKept'
  BY <1>1, <1>2, <1>4, <1>5 DEF BytesAreKept, s, g
<1>7. wire' \in Seq(Byte)
  BY <1>1, <1>3
<1> QED
  BY <1>2, <1>6, <1>7 DEF TypeOK

\* A read moves bytes from the wire to those pending.
LEMMA ReadKeeps ==
  ASSUME TypeOK, BytesAreKept, Read
  PROVE  TypeOK' /\ BytesAreKept'
<1>1. PICK n \in 1..BufSize : /\ n <= Len(wire)
                              /\ pending' = pending \o SubSeq(wire, 1, n)
                              /\ wire' = SubSeq(wire, n + 1, Len(wire))
                              /\ failed' \in {FALSE, cut /\ n = Len(wire)}
  BY DEF Read
<1>2. pc' = "extract" /\ UNCHANGED <<sent, cut, got, outcome>>
  BY DEF Read
<1> DEFINE s == Bytes(sent)
           g == Bytes(got)
           a == SubSeq(wire, 1, n)
           c == SubSeq(wire, n + 1, Len(wire))
<1>3. g \in Seq(Byte) /\ wire \in Seq(Byte) /\ pending \in Seq(Byte)
  BY BytesPrefix DEF TypeOK
<1>4. n \in Nat /\ n >= 1 /\ Len(wire) \in Nat
  BY <1>1, <1>3, BoundsAssumption
<1>5. a \in Seq(Byte) /\ c \in Seq(Byte)
  BY <1>1, <1>3, <1>4
<1>6. a \o c = wire
  <2>1. 1 \in 1..(Len(wire) + 1) /\ n \in 0..Len(wire) /\ Len(wire) \in n..Len(wire)
    BY <1>1, <1>4
  <2>2. a \o c = SubSeq(wire, 1, Len(wire))
    BY <1>3, <2>1, ConcatAdjacentSubSeq
  <2> QED
    BY <1>3, <2>2, SubSeqFull
<1> HIDE DEF s, g, a, c
<1>7. (g \o (pending \o a)) \o c = (g \o pending) \o wire
  <2>1. (g \o (pending \o a)) \o c = (g \o pending) \o (a \o c)
    <3> DEFINE h == g \o pending
               p == pending \o a
    <3>1. h \in Seq(Byte) /\ p \in Seq(Byte)
      BY <1>3, <1>5
    <3>2. h \o a = g \o p
      <4>1. g \in Seq(Byte) /\ pending \in Seq(Byte) /\ a \in Seq(Byte)
        BY <1>3, <1>5
      <4> QED
        BY ONLY <4>1, Regroup
    <3> HIDE DEF h, p
    <3>3. (h \o a) \o c = h \o (a \o c)
      BY <1>5, <3>1, Regroup
    <3> QED
      BY <3>2, <3>3 DEF h, p
  <2> QED
    BY <1>6, <2>1
<1>8. BytesAreKept'
  BY <1>1, <1>2, <1>7 DEF BytesAreKept, g, a, c
<1>9. pending' \in Seq(Byte) /\ wire' \in Seq(Byte)
  BY <1>1, <1>3, <1>5 DEF a, c
<1> QED
  BY <1>1, <1>2, <1>8, <1>9 DEF TypeOK

\* A frame that is taken is replaced by the message it was made of.
LEMMA ExtractFrameKeeps ==
  ASSUME TypeOK, BytesAreKept, ExtractFrame
  PROVE  TypeOK' /\ BytesAreKept'
<1>1. UNCHANGED <<sent, wire, cut, failed>> /\ Enough(pending)
  BY DEF ExtractFrame
<1>2. CASE ~Sliceable(pending)
  BY <1>1, <1>2 DEF ExtractFrame, TypeOK, BytesAreKept
<1>3. CASE Sliceable(pending)
  <2> DEFINE f == FrameIn(pending)
             x == frameConnectMessage(f)
             r == RestOf(pending)
             g == Bytes(got)
  <2>1. /\ got' = Append(got, f) /\ pending' = r
        /\ pc' \in {"done", "extract"} /\ outcome' \in {"ended", "open"}
    BY <1>3 DEF ExtractFrame, AfterFrame
  <2>2. pending \in Seq(Byte) /\ wire \in Seq(Byte) /\ g \in Seq(Byte) /\ got \in Seq(Frame)
    BY BytesPrefix DEF TypeOK
  <2>3. f \in Frame /\ r \in Seq(Byte) /\ x \o r = pending
    BY <1>1, <1>3, <2>2, FrameTaken
  <2>4. x \in Seq(Byte)
    BY <2>3, FrameBytes
  <2>5. Bytes(got') = g \o x
    BY <2>1, <2>2, <2>3, BytesAppend
  <2> HIDE DEF f, x, r, g
  <2>6. (g \o x) \o r = g \o pending
    <3>1. (g \o x) \o r = g \o (x \o r)
      <4>1. g \in Seq(Byte) /\ x \in Seq(Byte) /\ r \in Seq(Byte)
        BY <2>2, <2>3, <2>4
      <4> QED
        BY ONLY <4>1, Regroup
    <3> QED
      BY <2>3, <3>1
  <2>7. BytesAreKept'
    BY <1>1, <2>1, <2>5, <2>6 DEF BytesAreKept, g
  <2>8. got' \in Seq(Frame)
    BY <2>1, <2>2, <2>3
  <2> QED
    BY <1>1, <2>1, <2>3, <2>7, <2>8 DEF TypeOK
<1> QED
  BY <1>2, <1>3

\* The other steps move no bytes.
LEMMA OtherStepsKeep ==
  ASSUME TypeOK, BytesAreKept, ReadFails \/ NoFrame \/ UNCHANGED vars
  PROVE  TypeOK' /\ BytesAreKept'
<1>1. UNCHANGED <<sent, wire, cut, pending, got>>
  BY DEF ReadFails, NoFrame, vars
<1>2. TypeOK'
  BY DEF TypeOK, ReadFails, NoFrame, vars
<1>3. BytesAreKept'
  BY <1>1 DEF BytesAreKept
<1> QED
  BY <1>2, <1>3

\* There are no bytes at first.
LEMMA Initially == Init => TypeOK /\ BytesAreKept
<1>1. Bytes(<<>>) = <<>>
  BY FlattenSeqEmpty DEF Bytes
<1>2. <<>> \o <<>> \o <<>> = <<>>
  OBVIOUS
<1>3. <<>> \in Seq(Messages) /\ <<>> \in Seq(Frame) /\ <<>> \in Seq(Byte)
  OBVIOUS
<1>4. Init => TypeOK
  BY <1>3 DEF Init, TypeOK
<1>5. Init => BytesAreKept
  BY <1>1, <1>2 DEF Init, BytesAreKept
<1> QED
  BY <1>4, <1>5

\* No step loses or adds one.
LEMMA KeptByStep ==
  ASSUME TypeOK, BytesAreKept, [Next]_vars
  PROVE  TypeOK' /\ BytesAreKept'
BY SendKeeps, DropKeeps, ReadKeeps, ExtractFrameKeeps, OtherStepsKeep DEF Next, Loop

\* No byte is lost, doubled or moved, whatever the messages, the reads and
\* the moment the connection breaks off.
THEOREM Kept == Spec => [](TypeOK /\ BytesAreKept)
<1>1. TypeOK /\ BytesAreKept /\ [Next]_vars => (TypeOK /\ BytesAreKept)'
  BY KeptByStep
<1> QED
  BY Initially, <1>1, PTL DEF Spec

\* BytesAreKept as the run states it (stream.go:454-470).
THEOREM BytesKept == Spec => []BytesAreKept
<1>1. TypeOK /\ BytesAreKept => BytesAreKept
  OBVIOUS
<1> QED
  BY Kept, <1>1, PTL
-----------------------------------------------------------------------------
(* Whole messages, in order.                                               *)

\* No message is so long that its length, or that of its frame, wraps around:
\* protobuf keeps a message below 2 GiB, and the sums wrap at 4 GiB.
FramesFit == \A msg \in Messages : HeaderSize + Len(msg.payload) < Base * Base

\* The messages received are the first of those sent; the loop is done when
\* it has an outcome, and that is no panic.
InOrder ==
  /\ Len(got) <= Len(sent)
  /\ \A i \in 1..Len(got) : got[i] = sent[i]
  /\ outcome # "panic"
  /\ pc = "done" <=> outcome # "open"

\* A prefix, place by place.
LEMMA PrefixAt ==
  ASSUME NEW s \in Seq(Byte), NEW t \in Seq(Byte), IsPrefix(s, t)
  PROVE  Len(s) <= Len(t) /\ \A i \in 1..Len(s) : s[i] = t[i]
<1>1. Len(s) \in Nat /\ Len(t) \in Nat /\ Len(s) <= Len(t) /\ SubSeq(s, 1, Len(s)) = SubSeq(t, 1, Len(s))
  BY DEF IsPrefix
<1>2. \A i \in 1..Len(s) : SubSeq(s, 1, Len(s))[i] = s[i] /\ SubSeq(t, 1, Len(s))[i] = t[i]
  BY <1>1
<1> QED
  BY <1>1, <1>2

\* Two that follow the same bytes on the same stream agree as far as they go.
LEMMA SameBytes ==
  ASSUME NEW g \in Seq(Byte), NEW p \in Seq(Byte), NEW w \in Seq(Byte), NEW y \in Seq(Byte),
         NEW s \in Seq(Byte), IsPrefix((g \o p) \o w, s), IsPrefix(g \o y, s)
  PROVE  \A i \in 1..Len(p) : i <= Len(y) => p[i] = y[i]
<1> DEFINE h == g \o p
           k == h \o w
           l == g \o y
<1>1. /\ h \in Seq(Byte) /\ Len(h) = Len(g) + Len(p)
      /\ \A i \in 1..(Len(g) + Len(p)) : h[i] = IF i <= Len(g) THEN g[i] ELSE p[i - Len(g)]
  BY ConcatProperties
<1>2. /\ l \in Seq(Byte) /\ Len(l) = Len(g) + Len(y)
      /\ \A i \in 1..(Len(g) + Len(y)) : l[i] = IF i <= Len(g) THEN g[i] ELSE y[i - Len(g)]
  BY ConcatProperties
<1> HIDE DEF h
<1>3. /\ k \in Seq(Byte) /\ Len(k) = Len(h) + Len(w)
      /\ \A i \in 1..(Len(h) + Len(w)) : k[i] = IF i <= Len(h) THEN h[i] ELSE w[i - Len(h)]
  <2>1. h \in Seq(Byte)
    BY <1>1
  <2> QED
    BY <2>1, ConcatProperties
<1>4. IsPrefix(k, s) /\ IsPrefix(l, s)
  BY DEF h
<1> HIDE DEF k, l
<1>5. /\ \A i \in 1..Len(k) : k[i] = s[i]
      /\ \A i \in 1..Len(l) : l[i] = s[i]
  <2>1. k \in Seq(Byte) /\ l \in Seq(Byte)
    BY <1>2, <1>3
  <2>2. \A i \in 1..Len(k) : k[i] = s[i]
    BY <1>4, <2>1, PrefixAt
  <2>3. \A i \in 1..Len(l) : l[i] = s[i]
    BY <1>4, <2>1, PrefixAt
  <2> QED
    BY <2>2, <2>3
<1>6. SUFFICES ASSUME NEW i \in 1..Len(p), i <= Len(y) PROVE p[i] = y[i]
  OBVIOUS
<1>7. Len(g) \in Nat /\ Len(p) \in Nat /\ Len(y) \in Nat /\ Len(w) \in Nat
  OBVIOUS
<1> DEFINE j == Len(g) + i
<1>8. /\ j \in 1..(Len(g) + Len(p)) /\ j \in 1..(Len(g) + Len(y)) /\ j \in 1..(Len(h) + Len(w))
      /\ ~(j <= Len(g)) /\ j <= Len(h) /\ j - Len(g) = i
  BY <1>1, <1>6, <1>7
<1> HIDE DEF j
<1>9. k[j] = p[i]
  BY <1>1, <1>3, <1>8
<1>10. l[j] = y[i]
  BY <1>2, <1>8
<1>11. j \in 1..Len(k) /\ j \in 1..Len(l)
  BY <1>2, <1>3, <1>8
<1> QED
  BY <1>5, <1>9, <1>10, <1>11

\* What is pending begins the message after the last one received.
LEMMA NextIsPending ==
  ASSUME TypeOK, BytesAreKept, InOrder, pending # <<>>
  PROVE  /\ Len(got) + 1 \in 1..Len(sent) /\ sent[Len(got) + 1] \in Messages
         /\ \A i \in 1..Len(pending) :
              i <= Len(frameConnectMessage(sent[Len(got) + 1]))
                => pending[i] = frameConnectMessage(sent[Len(got) + 1])[i]
<1> DEFINE n == Len(got)
           g == Bytes(got)
           s == Bytes(sent)
<1>1. /\ got \in Seq(Frame) /\ sent \in Seq(Frame) /\ sent \in Seq(Messages)
      /\ pending \in Seq(Byte) /\ wire \in Seq(Byte) /\ g \in Seq(Byte) /\ s \in Seq(Byte)
  BY SentAreFrames, BytesPrefix DEF TypeOK
<1>2. n \in Nat /\ Len(sent) \in Nat /\ n <= Len(sent)
  BY <1>1 DEF InOrder
<1>3. got = SubSeq(sent, 1, n)
  <2>1. SubSeq(sent, 1, n) \in Seq(Frame) /\ Len(SubSeq(sent, 1, n)) = n
        /\ \A i \in 1..n : SubSeq(sent, 1, n)[i] = sent[i]
    BY <1>1, <1>2
  <2> QED
    BY <1>1, <2>1, SeqEqual DEF InOrder
<1>4. IsPrefix((g \o pending) \o wire, s)
  <2>1. IsPrefix(s, s)
    BY <1>1 DEF IsPrefix
  <2> QED
    BY <2>1 DEF BytesAreKept
<1>5. n # Len(sent)
  <2> SUFFICES ASSUME n = Len(sent) PROVE FALSE
    OBVIOUS
  <2>1. got = sent
    BY <1>1, <1>3, SubSeqFull
  <2>2. g = s
    BY <2>1
  <2> HIDE DEF g, s, n
  <2>3. g \o pending \in Seq(Byte) /\ Len(g \o pending) = Len(g) + Len(pending)
    BY <1>1
  <2>4. (g \o pending) \o wire \in Seq(Byte) /\ Len((g \o pending) \o wire) = Len(g) + Len(pending) + Len(wire)
    BY <1>1, <2>3
  <2>5. Len((g \o pending) \o wire) <= Len(s)
    BY <1>4 DEF IsPrefix
  <2>6. Len(g) \in Nat /\ Len(pending) \in Nat /\ Len(wire) \in Nat /\ Len(pending) # 0
    BY <1>1
  <2> QED
    BY <2>2, <2>4, <2>5, <2>6
<1> DEFINE msg == sent[n + 1]
           y == frameConnectMessage(msg)
<1>6. n + 1 \in 1..Len(sent) /\ msg \in Messages /\ msg \in Frame
  BY <1>1, <1>2, <1>5
<1>7. y \in Seq(Byte)
  BY <1>6, FrameBytes
<1>8. IsPrefix(g \o y, s)
  <2>1. SubSeq(sent, 1, n + 1) = Append(SubSeq(sent, 1, n), msg)
    <3>1. /\ SubSeq(sent, 1, n + 1) \in Seq(Frame) /\ Len(SubSeq(sent, 1, n + 1)) = n + 1
          /\ \A i \in 1..(n + 1) : SubSeq(sent, 1, n + 1)[i] = sent[i]
      BY <1>1, <1>2, <1>6
    <3>2. /\ Append(got, msg) \in Seq(Frame) /\ Len(Append(got, msg)) = n + 1
          /\ \A i \in 1..n : Append(got, msg)[i] = got[i]
          /\ Append(got, msg)[n + 1] = msg
      BY <1>1, <1>6, AppendProperties
    <3>3. \A i \in 1..(n + 1) : SubSeq(sent, 1, n + 1)[i] = Append(got, msg)[i]
      BY <1>2, <3>1, <3>2 DEF InOrder
    <3> QED
      BY <1>3, <3>1, <3>2, <3>3, SeqEqual
  <2>2. Bytes(SubSeq(sent, 1, n + 1)) = g \o y
    BY <1>1, <1>3, <1>6, <2>1, BytesAppend
  <2>3. n + 1 \in 0..Len(sent)
    BY <1>6
  <2>4. IsPrefix(Bytes(SubSeq(sent, 1, n + 1)), Bytes(sent))
    BY <1>1, <2>3, BytesPrefix
  <2> QED
    BY <2>2, <2>4
<1> HIDE DEF g, s, y
<1>9. \A i \in 1..Len(pending) : i <= Len(y) => pending[i] = y[i]
  BY <1>1, <1>4, <1>7, <1>8, SameBytes
<1> QED
  BY <1>6, <1>9 DEF y

\* Hence its header is that message's, and the frame is that message.
LEMMA FrameIsNext ==
  ASSUME FramesFit, TypeOK, BytesAreKept, InOrder, Enough(pending)
  PROVE  /\ Sliceable(pending)
         /\ Len(got) + 1 \in 1..Len(sent)
         /\ FrameIn(pending) = sent[Len(got) + 1]
<1> DEFINE msg == sent[Len(got) + 1]
           y == frameConnectMessage(msg)
           m == Len(msg.payload)
<1>1. pending \in Seq(Byte) /\ Len(pending) \in Nat /\ 3 <= Len(pending)
  BY DEF TypeOK, Enough, HeaderSize
<1>2. pending # <<>>
  BY <1>1
<1>3. /\ Len(got) + 1 \in 1..Len(sent) /\ msg \in Messages
      /\ \A i \in 1..Len(pending) : i <= Len(y) => pending[i] = y[i]
  BY <1>2, NextIsPending
<1>4. msg \in Frame
  BY <1>3, MessagesAreFrames
<1> HIDE DEF msg
<1>5. m \in Nat /\ 3 + m < Base * Base
  BY <1>3, <1>4 DEF FramesFit, HeaderSize, Frame
<1>6. /\ y \in Seq(Byte) /\ Len(y) = 3 + m /\ y[1] = msg.flags /\ LengthIn(y) = Wrap(m)
      /\ \A i \in 1..m : y[3 + i] = msg.payload[i]
  BY <1>4, FrameBytes DEF HeaderSize
<1> HIDE DEF y
<1>7. pending[1] = y[1] /\ pending[2] = y[2] /\ pending[3] = y[3]
  <2>1. \A i \in {1, 2, 3} : i \in 1..Len(pending) /\ i <= Len(y)
    <3> HIDE DEF m
    <3> QED
      BY <1>1, <1>5, <1>6
  <2> QED
    BY <1>3, <2>1
<1>8. Wrap(m) = m /\ Wrap(3 + m) = 3 + m
  <2> HIDE DEF m
  <2> DEFINE b == Base * Base
  <2>1. b \in Nat
    BY BaseAssumption
  <2>2. (m < b => Wrap(m) = m) /\ (3 + m < b => Wrap(3 + m) = 3 + m)
    <3>1. 3 + m \in Nat
      BY <1>5
    <3> QED
      BY <1>5, <3>1, WrapSmall
  <2>3. 3 + m < b
    BY <1>5
  <2> HIDE DEF b
  <2> QED
    BY <1>5, <2>1, <2>2, <2>3
<1>9. LengthIn(pending) = m
  BY <1>6, <1>7, <1>8 DEF LengthIn
<1>10. Sliceable(pending)
  BY <1>5, <1>8, <1>9 DEF Sliceable, EndIn, HeaderSize
<1>11. /\ FrameIn(pending) \in Frame /\ Len(FrameIn(pending).payload) = m /\ 3 + m <= Len(pending)
  BY <1>1, <1>9, <1>10, FrameTaken DEF HeaderSize
<1>12. FrameIn(pending) = [flags |-> pending[1], payload |-> SubSeq(pending, 4, 3 + m)]
  BY <1>9 DEF FrameIn, HeaderSize
<1>13. SubSeq(pending, 4, 3 + m) = msg.payload
  <2>1. /\ SubSeq(pending, 4, 3 + m) \in Seq(Byte) /\ Len(SubSeq(pending, 4, 3 + m)) = m
        /\ \A i \in 1..m : SubSeq(pending, 4, 3 + m)[i] = pending[3 + i]
    <3> HIDE DEF m
    <3> QED
      BY <1>1, <1>5, <1>11
  <2>2. \A i \in 1..m : 3 + i \in 1..Len(pending) /\ 3 + i <= Len(y)
    <3> HIDE DEF m
    <3> QED
      BY <1>1, <1>5, <1>6, <1>11
  <2>3. \A i \in 1..m : SubSeq(pending, 4, 3 + m)[i] = msg.payload[i]
    <3> HIDE DEF m
    <3> QED
      BY <1>3, <1>6, <2>1, <2>2
  <2>4. msg.payload \in Seq(Byte)
    BY <1>4 DEF Frame
  <2> QED
    BY <2>1, <2>3, <2>4, SeqEqual
<1>14. FrameIn(pending) = msg
  BY <1>4, <1>6, <1>7, <1>12, <1>13 DEF Frame
<1> QED
  BY <1>3, <1>10, <1>14 DEF msg

\* Nothing was received at first.
LEMMA InOrderInitially == Init => InOrder
BY DEF Init, InOrder

\* Every step keeps the order: the frame that ExtractFrame takes is the next
\* message.
LEMMA InOrderStays ==
  ASSUME FramesFit, TypeOK, BytesAreKept, InOrder, [Next]_vars
  PROVE  InOrder'
<1>1. CASE Send
  <2>1. PICK msg \in Messages : sent' = Append(sent, msg)
    BY <1>1 DEF Send
  <2>2. UNCHANGED <<got, outcome, pc>>
    BY <1>1 DEF Send
  <2>3. /\ sent \in Seq(Messages) /\ Len(sent') = Len(sent) + 1 /\ Len(sent) \in Nat
        /\ \A i \in 1..Len(sent) : sent'[i] = sent[i]
    BY <2>1 DEF TypeOK
  <2>4. Len(got) \in Nat
    BY DEF TypeOK
  <2> QED
    BY <2>2, <2>3, <2>4 DEF InOrder
<1>2. CASE Drop
  BY <1>2 DEF Drop, InOrder
<1>3. CASE Read
  BY <1>3 DEF Read, InOrder
<1>4. CASE ReadFails
  BY <1>4 DEF ReadFails, InOrder
<1>5. CASE ExtractFrame
  <2>1. /\ Sliceable(pending) /\ Len(got) + 1 \in 1..Len(sent)
        /\ FrameIn(pending) = sent[Len(got) + 1]
    BY <1>5, FrameIsNext DEF ExtractFrame
  <2>2. /\ got' = Append(got, sent[Len(got) + 1]) /\ sent' = sent
        /\ (pc' = "done" /\ outcome' = "ended") \/ (pc' = "extract" /\ outcome' = "open")
    BY <1>5, <2>1 DEF ExtractFrame, AfterFrame
  <2>3. /\ Len(got') = Len(got) + 1 /\ Len(got) \in Nat /\ Len(sent) \in Nat
        /\ got'[Len(got) + 1] = sent[Len(got) + 1] /\ \A i \in 1..Len(got) : got'[i] = got[i]
    BY <2>2 DEF TypeOK
  <2>4. \A i \in 1..Len(got') : i \in 1..Len(got) \/ i = Len(got) + 1
    BY <2>3
  <2> QED
    BY <2>1, <2>2, <2>3, <2>4 DEF InOrder
<1>6. CASE NoFrame
  BY <1>6 DEF NoFrame, InOrder
<1>7. CASE UNCHANGED vars
  BY <1>7 DEF vars, InOrder
<1> QED
  BY <1>1, <1>2, <1>3, <1>4, <1>5, <1>6, <1>7 DEF Next, Loop

\* The inductive invariant.
IInv == TypeOK /\ BytesAreKept /\ InOrder

\* The inductive invariant, for messages that fit.
LEMMA Inductive ==
  ASSUME FramesFit
  PROVE  Spec => []IInv
<1>1. Init => IInv
  BY Initially, InOrderInitially DEF IInv
<1>2. IInv /\ [Next]_vars => IInv'
  BY KeptByStep, InOrderStays DEF IInv
<1> QED
  BY <1>1, <1>2, PTL DEF Spec

\* The loop's slice of the payload is never out of its bounds
\* (stream.go:465-469).
THEOREM SlicesInBounds ==
  ASSUME FramesFit
  PROVE  Spec => [](outcome # "panic")
<1>1. IInv => outcome # "panic"
  BY DEF IInv, InOrder
<1> QED
  BY Inductive, <1>1, PTL

\* Every step of the codec is one of the channel of whole messages, or none.
LEMMA StepImplements ==
  ASSUME IInv, FramesFit, [Next]_vars
  PROVE  [Channel!Next]_Channel!vars
<1> USE DEF IInv
<1>1. CASE Send
  <2>1. PICK msg \in Messages : sent' = Append(sent, msg)
    BY <1>1 DEF Send
  <2>2. sent \in Seq(Messages) /\ Len(sent) \in Nat
    BY DEF TypeOK
  <2>3. ~Channel!Ended
    BY <1>1, <2>2 DEF Send, Ended, Last, Channel!Ended
  <2>4. Len(sent) < MaxSent /\ UNCHANGED <<got, outcome>>
    BY <1>1 DEF Send
  <2>5. Channel!Send
    BY <2>1, <2>3, <2>4 DEF Channel!Send
  <2> QED
    BY <2>5 DEF Channel!Next
<1>2. CASE Drop \/ Read \/ ReadFails \/ UNCHANGED vars
  BY <1>2 DEF Drop, Read, ReadFails, vars, Channel!vars
<1>3. CASE ExtractFrame
  <2>1. /\ Sliceable(pending) /\ Len(got) + 1 \in 1..Len(sent)
        /\ FrameIn(pending) = sent[Len(got) + 1]
    BY <1>3, FrameIsNext DEF ExtractFrame
  <2> DEFINE msg == sent[Len(got) + 1]
  <2>2. msg \in Messages /\ Len(got) \in Nat /\ Len(sent) \in Nat
    BY <2>1 DEF TypeOK
  <2>3. outcome = "open" /\ sent' = sent
    BY <1>3 DEF ExtractFrame, InOrder
  <2>4. /\ got' = Append(got, msg)
        /\ outcome' = IF connectEndStream(msg) THEN "ended" ELSE "open"
    BY <1>3, <2>1 DEF ExtractFrame
  <2>5. (outcome' = "open") = (msg \notin {m \in Messages : connectEndStream(m)})
    BY <2>2, <2>4
  <2>6. Channel!Receive
    BY <2>1, <2>2, <2>3, <2>4, <2>5 DEF Channel!Receive
  <2> QED
    BY <2>6 DEF Channel!Next
<1>4. CASE NoFrame
  <2>1. outcome = "open" /\ UNCHANGED <<sent, got>>
    BY <1>4 DEF NoFrame, InOrder
  <2>2. outcome' = "dropped" \/ outcome' = outcome
    BY <1>4 DEF NoFrame
  <2> QED
    BY <2>1, <2>2 DEF Channel!Next, Channel!Lose, Channel!vars
<1> QED
  BY <1>1, <1>2, <1>3, <1>4 DEF Next, Loop

\* The safety of the channel of whole messages: those that the loop handles
\* are those that were sent, in their order, none torn, none twice, none
\* after the end (stream.go:454-488).
THEOREM ImplementsChannelSafety ==
  ASSUME FramesFit
  PROVE  Spec => Channel!Safety
<1>1. Init => Channel!Init
  BY DEF Init, Channel!Init
<1>2. IInv /\ [Next]_vars => [Channel!Next]_Channel!vars
  BY StepImplements
<1> QED
  BY Inductive, <1>1, <1>2, PTL DEF Spec, Channel!Safety
-----------------------------------------------------------------------------
(* Requests: sets of positions, and what a loop over them appends.         *)

\* The greatest of a bounded set of numbers.
LEMMA GreatestOf ==
  ASSUME NEW b \in Nat, NEW S \in SUBSET 0..b, S # {}
  PROVE  Max(S) \in S /\ \A n \in S : n <= Max(S)
<1> DEFINE Gaps == {b - n : n \in S}
<1>1. \A n \in S : n \in Nat /\ b - n \in Nat
  OBVIOUS
<1>2. Gaps \in SUBSET Nat /\ Gaps # {}
  BY <1>1
<1>3. PICK g \in Gaps : \A m \in Gaps : ~(<<m, g>> \in {p \in Nat \X Nat : p[1] < p[2]})
  <2> HIDE DEF Gaps
  <2> QED
    BY <1>2, LessWellFounded, WFMin, Zenon
<1>4. PICK n \in S : g = b - n
  OBVIOUS
<1>5. ASSUME NEW m \in S PROVE n >= m
  <2>1. b - m \in Gaps /\ b - m \in Nat /\ b - n \in Nat /\ m \in Nat /\ n \in Nat
    BY <1>1
  <2>2. b - m < b - n => <<b - m, b - n>> \in {p \in Nat \X Nat : p[1] < p[2]}
    BY <2>1
  <2>3. ~(b - m < b - n)
    BY <1>3, <1>4, <2>1, <2>2
  <2> QED
    BY <2>1, <2>3
<1>6. \E x \in S : \A y \in S : x >= y
  BY <1>5
<1>7. Max(S) \in S /\ \A y \in S : Max(S) >= y
  BY <1>6 DEF Max
<1>8. Max(S) \in Nat
  BY <1>1, <1>7
<1> QED
  BY <1>1, <1>7, <1>8

\* A loop that appends the members of a set appends each once and in order.
LEMMA PositionsInOrder ==
  ASSUME NEW S, NEW n \in Nat
  PROVE  /\ Positions(S, n) \in Seq(1..n)
         /\ \A s \in DOMAIN Positions(S, n) : Positions(S, n)[s] \in S
         /\ \A i \in S \cap 1..n : \E s \in DOMAIN Positions(S, n) : Positions(S, n)[s] = i
         /\ \A s, u \in DOMAIN Positions(S, n) :
              s < u => Positions(S, n)[s] < Positions(S, n)[u]
<1> DEFINE g == [i \in 1..n |-> IF i \in S THEN <<i>> ELSE <<>>]
           P == FlattenSeq(g)
<1>1. Positions(S, n) = P
  BY DEF Positions
<1>2. g \in Seq(Seq(1..n)) /\ Len(g) = n
  <2>1. ASSUME NEW i \in 1..n PROVE g[i] \in Seq(1..n)
    <3>1. <<i>> \in Seq(1..n) /\ <<>> \in Seq(1..n)
      OBVIOUS
    <3>2. g[i] = IF i \in S THEN <<i>> ELSE <<>>
      OBVIOUS
    <3> QED
      BY <3>1, <3>2
  <2> QED
    BY <2>1
<1>3. ASSUME NEW i \in 1..n
      PROVE  /\ i \in S => Len(g[i]) = 1 /\ g[i][1] = i
             /\ i \notin S => Len(g[i]) = 0
  <2>1. g[i] = IF i \in S THEN <<i>> ELSE <<>>
    OBVIOUS
  <2>2. Len(<<i>>) = 1 /\ <<i>>[1] = i /\ Len(<<>>) = 0
    OBVIOUS
  <2> QED
    BY <2>1, <2>2
<1> HIDE DEF g
<1>4. /\ P \in Seq(1..n)
      /\ \A i \in 1..n : Off(g, i) \in Nat
      /\ \A i, j \in 1..n : i < j => Off(g, i) + Len(g[i]) <= Off(g, j)
      /\ \A i \in 1..n : \A k \in 1..Len(g[i]) : Off(g, i) + k \in 1..Len(P) /\ P[Off(g, i) + k] = g[i][k]
      /\ \A s \in 1..Len(P) : \E i \in 1..n : \E k \in 1..Len(g[i]) : s = Off(g, i) + k
  BY <1>2, Parts
<1> HIDE DEF P
<1>5. DOMAIN P = 1..Len(P) /\ Len(P) \in Nat
  BY <1>4
<1>6. ASSUME NEW s \in DOMAIN P
      PROVE  P[s] \in 1..n /\ P[s] \in S /\ s = Off(g, P[s]) + 1
  <2>1. PICK i \in 1..n : \E k \in 1..Len(g[i]) : s = Off(g, i) + k
    BY <1>4, <1>5
  <2>2. PICK k \in 1..Len(g[i]) : s = Off(g, i) + k
    BY <2>1
  <2>3. i \in S
    BY <1>3, <2>2
  <2>4. Len(g[i]) = 1 /\ g[i][1] = i /\ k = 1
    BY <1>3, <2>2, <2>3
  <2>5. 1 \in 1..Len(g[i])
    BY <2>4
  <2>6. P[s] = i
    BY <1>4, <2>2, <2>4, <2>5
  <2> QED
    BY <2>2, <2>3, <2>4, <2>6
<1>7. ASSUME NEW i \in S \cap 1..n PROVE Off(g, i) + 1 \in DOMAIN P /\ P[Off(g, i) + 1] = i
  <2>1. 1 \in 1..Len(g[i]) /\ g[i][1] = i
    BY <1>3
  <2> QED
    BY <1>4, <1>5, <2>1
<1>8. ASSUME NEW s \in DOMAIN P, NEW u \in DOMAIN P, s < u PROVE P[s] < P[u]
  <2> DEFINE i == P[s]
             j == P[u]
  <2>1. i \in 1..n /\ j \in 1..n /\ s = Off(g, i) + 1 /\ u = Off(g, j) + 1 /\ Len(g[j]) = 1
    BY <1>3, <1>6
  <2>2. Off(g, i) \in Nat /\ Off(g, j) \in Nat
    BY <1>4, <2>1
  <2>3. j < i => Off(g, j) + 1 <= Off(g, i)
    BY <1>4, <2>1
  <2>4. i # j
    BY <1>8, <2>1, <2>2
  <2> HIDE DEF i, j
  <2>5. ~(j < i)
    BY <1>8, <2>1, <2>2, <2>3
  <2>6. i < j
    BY <2>1, <2>4, <2>5
  <2> QED
    BY <2>6 DEF i, j
<1> QED
  BY <1>1, <1>4, <1>6, <1>7, <1>8

-----------------------------------------------------------------------------
(* The prompt and what the model reads.                                    *)

\* Concatenation, place by place.
LEMMA ConcatAt ==
  ASSUME NEW B, NEW s \in Seq(B), NEW t \in Seq(B)
  PROVE  /\ s \o t \in Seq(B) /\ Len(s \o t) = Len(s) + Len(t)
         /\ Len(s) \in Nat /\ Len(t) \in Nat
         /\ \A i \in 1..Len(s) : (s \o t)[i] = s[i]
         /\ \A i \in 1..Len(t) : (s \o t)[Len(s) + i] = t[i]
<1>1. /\ s \o t \in Seq(B) /\ Len(s \o t) = Len(s) + Len(t)
      /\ \A i \in 1..(Len(s) + Len(t)) : (s \o t)[i] = IF i <= Len(s) THEN s[i] ELSE t[i - Len(s)]
  BY ConcatProperties
<1>2. Len(s) \in Nat /\ Len(t) \in Nat
  OBVIOUS
<1>3. ASSUME NEW i \in 1..Len(t)
      PROVE  Len(s) + i \in 1..(Len(s) + Len(t)) /\ ~(Len(s) + i <= Len(s)) /\ Len(s) + i - Len(s) = i
  BY <1>2
<1>4. \A i \in 1..Len(s) : i \in 1..(Len(s) + Len(t)) /\ i <= Len(s)
  BY <1>2
<1> QED
  BY <1>1, <1>2, <1>3, <1>4

\* R has the numbers of P and then those of A, in order, and the 0 of I.
HasInOrder(R, P, I, A) ==
  /\ {R[i] : i \in DOMAIN R} \ {0} = {P[i] : i \in DOMAIN P} \cup {A[i] : i \in DOMAIN A}
  /\ \A i, j \in DOMAIN R : i < j /\ R[j] # 0 => R[i] < R[j]
  /\ Cardinality({i \in DOMAIN R : R[i] = 0}) = IF I = <<>> THEN 0 ELSE 1

\* The texts in order, the instruction or nothing, the action's or nothing.
LEMMA ReadsInOrder ==
  ASSUME NEW n \in Nat, NEW m \in Nat, n < m,
         NEW P \in Seq(1..n), \A s, u \in DOMAIN P : s < u => P[s] < P[u],
         NEW I \in {<<>>, << 0 >>}, NEW A \in {<<>>, << m >>},
         NEW R, R = (P \o I) \o A
  PROVE  HasInOrder(R, P, I, A)
<1> DEFINE p == Len(P)
           q == Len(I)
           r == Len(A)
<1>1. P \in Seq(Nat) /\ I \in Seq(Nat) /\ A \in Seq(Nat)
  <2>1. P \in Seq(Nat)
    OBVIOUS
  <2>2. <<>> \in Seq(Nat) /\ <<0>> \in Seq(Nat) /\ <<m>> \in Seq(Nat)
    OBVIOUS
  <2>3. I \in Seq(Nat) /\ A \in Seq(Nat)
    BY <2>2
  <2> QED
    BY <2>1, <2>2, <2>3
<1>2. /\ p \in Nat /\ DOMAIN P = 1..p /\ DOMAIN I = 1..q /\ DOMAIN A = 1..r
      /\ q \in {0, 1} /\ q = (IF I = <<>> THEN 0 ELSE 1) /\ (q = 1 => I[1] = 0)
      /\ r \in {0, 1} /\ (r = 1 => A[1] = m)
      /\ \A i \in 1..p : P[i] \in 1..n
  <2>1. p \in Nat /\ DOMAIN P = 1..p /\ \A i \in 1..p : P[i] \in 1..n
    OBVIOUS
  <2>2. DOMAIN I = 1..q /\ q \in {0, 1} /\ q = (IF I = <<>> THEN 0 ELSE 1) /\ (q = 1 => I[1] = 0)
    <3>1. CASE I = <<>>
      BY <3>1
    <3>2. CASE I = <<0>>
      BY <3>2
    <3> QED
      BY <3>1, <3>2
  <2>3. DOMAIN A = 1..r /\ r \in {0, 1} /\ (r = 1 => A[1] = m)
    <3>1. CASE A = <<>>
      BY <3>1
    <3>2. CASE A = <<m>>
      BY <3>2
    <3> QED
      BY <3>1, <3>2
  <2> QED
    BY <2>1, <2>2, <2>3
<1>3. /\ DOMAIN R = 1..(p + q + r)
      /\ \A i \in 1..p : R[i] = P[i]
      /\ \A i \in 1..q : R[p + i] = I[i]
      /\ \A i \in 1..r : R[p + q + i] = A[i]
  <2> DEFINE T == P \o I
  <2>1. /\ T \in Seq(Nat) /\ Len(T) = p + q
        /\ \A i \in 1..p : T[i] = P[i]
        /\ \A i \in 1..q : T[p + i] = I[i]
    BY <1>1, ConcatAt
  <2>2. R = T \o A
    OBVIOUS
  <2> HIDE DEF T
  <2>3. /\ R \in Seq(Nat) /\ Len(R) = p + q + r
        /\ \A i \in 1..(p + q) : R[i] = T[i]
        /\ \A i \in 1..r : R[p + q + i] = A[i]
    <3>1. /\ T \o A \in Seq(Nat) /\ Len(T \o A) = Len(T) + Len(A)
          /\ \A i \in 1..Len(T) : (T \o A)[i] = T[i]
          /\ \A i \in 1..Len(A) : (T \o A)[Len(T) + i] = A[i]
      <4>1. T \in Seq(Nat) /\ A \in Seq(Nat)
        BY <1>1, <2>1
      <4> QED
        BY ONLY <4>1, ConcatAt
    <3> QED
      BY <2>1, <2>2, <3>1
  <2> HIDE DEF p, q, r
  <2>4. DOMAIN R = 1..(p + q + r)
    BY <2>3
  <2>5. \A i \in 1..p : i \in 1..(p + q)
    BY <1>2
  <2>6. \A i \in 1..q : p + i \in 1..(p + q)
    BY <1>2
  <2> QED
    BY <2>1, <2>3, <2>4, <2>5, <2>6
<1> HIDE DEF p, q, r
<1>4. ASSUME NEW i \in DOMAIN R
      PROVE  \/ i \in 1..p /\ R[i] = P[i] /\ R[i] \in 1..n
             \/ i = p + 1 /\ q = 1 /\ R[i] = 0
             \/ i = p + q + 1 /\ r = 1 /\ R[i] = m
  <2>1. \/ i \in 1..p \/ (i = p + 1 /\ q = 1) \/ (i = p + q + 1 /\ r = 1)
    BY <1>2, <1>3
  <2>2. q = 1 => R[p + 1] = 0
    BY <1>2, <1>3
  <2>3. r = 1 => R[p + q + 1] = m
    BY <1>2, <1>3
  <2> QED
    BY <1>2, <1>3, <2>1, <2>2, <2>3
<1>5. {R[i] : i \in DOMAIN R} \ {0} = {P[i] : i \in DOMAIN P} \cup {A[i] : i \in DOMAIN A}
  <2>1. ASSUME NEW i \in DOMAIN R, R[i] # 0
        PROVE  R[i] \in {P[k] : k \in DOMAIN P} \cup {A[k] : k \in DOMAIN A}
    <3>1. (i \in 1..p /\ R[i] = P[i]) \/ (r = 1 /\ R[i] = m)
      BY <1>4, <2>1
    <3>2. r = 1 => 1 \in DOMAIN A /\ A[1] = m
      BY <1>2
    <3> QED
      BY <1>2, <3>1, <3>2
  <2>2. ASSUME NEW k \in DOMAIN P PROVE P[k] \in {R[i] : i \in DOMAIN R} \ {0}
    <3>1. k \in 1..p /\ k \in DOMAIN R
      BY <1>2, <1>3
    <3>2. R[k] = P[k] /\ P[k] # 0
      BY <1>2, <1>3, <3>1
    <3> QED
      BY <3>1, <3>2
  <2>3. ASSUME NEW k \in DOMAIN A PROVE A[k] \in {R[i] : i \in DOMAIN R} \ {0}
    <3>1. k = 1 /\ r = 1
      BY <1>2
    <3>2. p + q + 1 \in DOMAIN R /\ R[p + q + 1] = A[1] /\ A[1] # 0
      BY <1>2, <1>3, <3>1
    <3> QED
      BY <3>1, <3>2
  <2> QED
    BY ONLY <2>1, <2>2, <2>3
<1>6. ASSUME NEW i \in DOMAIN R, NEW j \in DOMAIN R, i < j, R[j] # 0
      PROVE  R[i] < R[j]
  <2>1. CASE j \in 1..p
    <3>1. i \in 1..p
      BY <1>2, <1>3, <1>6, <2>1
    <3>2. P[i] < P[j]
      BY <1>2, <1>6, <2>1, <3>1
    <3> QED
      BY <1>3, <2>1, <3>1, <3>2
  <2>2. CASE j \notin 1..p
    <3>1. j = p + q + 1 /\ r = 1 /\ R[j] = m
      BY <1>4, <1>6, <2>2
    <3>2. (i \in 1..p /\ R[i] \in 1..n) \/ R[i] = 0
      BY <1>2, <1>4, <1>6, <3>1
    <3> QED
      BY <3>1, <3>2
  <2> QED
    BY <2>1, <2>2
<1>7. Cardinality({i \in DOMAIN R : R[i] = 0}) = IF I = <<>> THEN 0 ELSE 1
  <2> DEFINE Z == {i \in DOMAIN R : R[i] = 0}
  <2>1. CASE q = 0
    <3>1. m # 0 /\ q # 1
      BY <2>1
    <3>2. \A i \in DOMAIN R : R[i] # 0
      BY ONLY <1>4, <3>1
    <3>3. Z = {}
      BY ONLY <3>2 DEF Z
    <3>4. Cardinality(Z) = 0
      BY <3>3, FS_EmptySet
    <3> QED
      BY <1>2, <2>1, <3>4
  <2>2. CASE q = 1
    <3>1. \A i \in Z : i = p + 1
      <4>1. m # 0
        OBVIOUS
      <4>2. \A i \in DOMAIN R : R[i] = 0 => i = p + 1
        BY ONLY <1>4, <4>1
      <4> QED
        BY ONLY <4>2 DEF Z
    <3>2. p + 1 \in Z
      BY <1>2, <1>3, <2>2
    <3>3. Z = {p + 1}
      BY <3>1, <3>2
    <3> HIDE DEF Z
    <3>4. Cardinality(Z) = 1
      BY <3>3, FS_Singleton
    <3> QED
      BY <1>2, <2>2, <3>4 DEF Z
  <2> QED
    BY <1>2, <2>1, <2>2
<1> QED
  BY ONLY <1>5, <1>6, <1>7 DEF HasInOrder

\* What is history, of a chat that is not empty.
LEMMA SplitChat ==
  ASSUME NEW M, NEW h \in Seq(M), h # <<>>
  PROVE  LET s == Split(h)
         IN /\ s.history \in Seq(M)
            /\ Len(s.history) \in Nat /\ Len(h) \in Nat /\ Len(s.history) <= Len(h)
            /\ \A i \in 1..Len(s.history) : s.history[i] = h[i]
            /\ \/ /\ s.kind = "userMessage" /\ s.msg = Len(h) /\ Len(s.history) = Len(h) - 1
                  /\ h[Len(h)].role = "user" /\ HasText(h[Len(h)])
               \/ s.kind = "resume" /\ s.history = h
<1> DEFINE n == Len(h)
           f == SubSeq(h, 1, n - 1)
<1>1. n \in Nat /\ n >= 1 /\ n - 1 \in Nat
  BY EmptySeq
<1>2. /\ f \in Seq(M) /\ Len(f) = n - 1 /\ \A i \in 1..(n - 1) : f[i] = h[i]
  <2>1. \A i \in 1..(n - 1) : h[i] \in M /\ 1 + i - 1 = i
    BY <1>1
  <2> HIDE DEF n
  <2>2. n - 1 \in Int /\ 1 \in Int /\ n - 1 - 1 + 1 = n - 1 /\ (1 <= n - 1 \/ n - 1 = 0)
    BY <1>1
  <2>3. /\ f \in Seq(M) /\ Len(f) = (IF 1 <= n - 1 THEN n - 1 - 1 + 1 ELSE 0)
        /\ \A i \in 1..(n - 1 - 1 + 1) : f[i] = h[1 + i - 1]
    BY <2>1, <2>2, SubSeqProperties
  <2> HIDE DEF f
  <2> QED
    BY <2>1, <2>2, <2>3
<1>3. Last(h) = h[n] /\ Front(h) = f
  BY DEF Last, Front
<1> DEFINE act == h[n].role = "user" /\ HasText(h[n])
<1>4. Split(h) = IF act THEN [kind |-> "userMessage", msg |-> n, history |-> f]
                                ELSE [kind |-> "resume", msg |-> 0, history |-> h]
  BY <1>3 DEF Split
<1> HIDE DEF f
<1>5. CASE act
  BY <1>1, <1>2, <1>4, <1>5
<1>6. CASE ~act
  BY <1>1, <1>4, <1>6
<1> QED
  BY <1>5, <1>6

\* The prompt and the message to act on are what the model reads of a chat.
ReadOf(h, tools) ==
  LET s == Split(h)
      prompt == rootPrompt(s.history, tools)
  IN IF s.kind = "userMessage" THEN Append(prompt, s.msg) ELSE prompt

\* R is every message of the chat with a text, in order, and the instruction
\* if it is due.
ReadsWhole(R, h, tools) ==
  /\ {R[i] : i \in DOMAIN R} \ {0} = {i \in DOMAIN h : InPrompt(h[i])}
  /\ \A i, j \in DOMAIN R : i < j /\ R[j] # 0 => R[i] < R[j]
  /\ Cardinality({i \in DOMAIN R : R[i] = 0})
       = IF tools /\ ~HasInstruction(h) THEN 1 ELSE 0

\* The model reads the whole of a chat.
LEMMA ChatIsRead ==
  ASSUME NEW M, NEW h \in Seq(M), h # <<>>, NEW tools \in BOOLEAN
  PROVE  ReadsWhole(ReadOf(h, tools), h, tools)
<1> DEFINE s == Split(h)
           k == Len(s.history)
           n == Len(h)
           S == {i \in DOMAIN s.history : InPrompt(s.history[i])}
           P == Positions(S, k)
           I == IF tools /\ ~HasInstruction(s.history) THEN <<0>> ELSE <<>>
           A == IF s.kind = "userMessage" THEN <<n>> ELSE <<>>
           prompt == rootPrompt(s.history, tools)
           R == IF s.kind = "userMessage" THEN Append(prompt, s.msg) ELSE prompt
<1>1. /\ s.history \in Seq(M) /\ k \in Nat /\ n \in Nat /\ k <= n
      /\ \A i \in 1..k : s.history[i] = h[i]
      /\ \/ /\ s.kind = "userMessage" /\ s.msg = n /\ k = n - 1
            /\ h[n].role = "user" /\ HasText(h[n])
         \/ s.kind = "resume" /\ s.history = h
  BY SplitChat
<1> HIDE DEF s
<1>2. DOMAIN s.history = 1..k /\ DOMAIN h = 1..n
  BY <1>1
<1>3. prompt = P \o I
  BY DEF rootPrompt, InstructionEntry
<1>4. /\ P \in Seq(1..k)
      /\ \A j \in DOMAIN P : P[j] \in S
      /\ \A i \in S \cap 1..k : \E j \in DOMAIN P : P[j] = i
      /\ \A j, u \in DOMAIN P : j < u => P[j] < P[u]
  <2> HIDE DEF S, k
  <2>1. k \in Nat
    BY <1>1
  <2> QED
    BY <2>1, PositionsInOrder
<1> HIDE DEF P, I, prompt
<1>5. {P[j] : j \in DOMAIN P} = S
  BY <1>2, <1>4
<1>6. I \in {<<>>, <<0>>} /\ A \in {<<>>, <<n>>} /\ P \in Seq(Nat) /\ I \in Seq(Nat)
  <2>1. I \in {<<>>, <<0>>} /\ A \in {<<>>, <<n>>}
    BY DEF I
  <2>2. <<>> \in Seq(Nat) /\ <<0>> \in Seq(Nat)
    OBVIOUS
  <2>3. P \in Seq(Nat)
    BY <1>1, <1>4
  <2> QED
    BY <2>1, <2>2, <2>3
<1>7. R = (P \o I) \o A
  <2> DEFINE Q == P \o I
  <2>1. Q \in Seq(Nat)
    BY <1>6, ConcatAt
  <2> HIDE DEF Q
  <2>2. CASE s.kind = "userMessage"
    <3>1. Append(Q, n) = Q \o <<n>>
      <4> HIDE DEF n
      <4> QED
        BY <1>1, <2>1, AppendIsConcat
    <3> QED
      BY <1>1, <1>3, <2>2, <3>1 DEF Q
  <2>3. CASE s.kind # "userMessage"
    <3>1. Q \o <<>> = Q
      BY <2>1
    <3> QED
      BY <1>3, <2>3, <3>1 DEF Q
  <2> QED
    BY <2>2, <2>3
<1>8. /\ {R[i] : i \in DOMAIN R} \ {0} = {P[i] : i \in DOMAIN P} \cup {A[i] : i \in DOMAIN A}
      /\ \A i, j \in DOMAIN R : i < j /\ R[j] # 0 => R[i] < R[j]
      /\ Cardinality({i \in DOMAIN R : R[i] = 0}) = IF I = <<>> THEN 0 ELSE 1
  <2>1. A \in {<<>>, <<k + 1>>}
    BY <1>1
  <2> DEFINE m == k + 1
  <2>2. k \in Nat /\ m \in Nat /\ k < m
    BY <1>1
  <2> HIDE DEF A, k, m, R
  <2>3. A \in {<<>>, <<m>>}
    BY <2>1 DEF m
  <2>4. /\ k \in Nat /\ m \in Nat /\ k < m /\ P \in Seq(1..k)
        /\ \A j, u \in DOMAIN P : j < u => P[j] < P[u]
        /\ I \in {<<>>, <<0>>} /\ A \in {<<>>, <<m>>} /\ R = (P \o I) \o A
    BY <1>4, <1>6, <1>7, <2>2, <2>3
  <2>5. HasInOrder(R, P, I, A)
    BY ONLY <2>4, ReadsInOrder
  <2> QED
    BY ONLY <2>5 DEF HasInOrder
<1>9. {P[i] : i \in DOMAIN P} \cup {A[i] : i \in DOMAIN A} = {i \in DOMAIN h : InPrompt(h[i])}
  <2>1. CASE s.kind = "userMessage"
    <3>1. {A[i] : i \in DOMAIN A} = {n} /\ n = k + 1
      BY <1>1, <2>1
    <3>2. InPrompt(h[n])
      BY <1>1, <2>1 DEF InPrompt, PromptRoles
    <3>3. \A i \in 1..n : i \in 1..k \/ i = n
      BY <1>1, <3>1
    <3>4. \A i \in 1..k : i \in S <=> InPrompt(h[i])
      BY <1>1, <1>2
    <3>5. S \subseteq 1..k /\ n \in 1..n /\ 1..k \subseteq 1..n
      BY <1>1, <1>2, <3>1
    <3> HIDE DEF A, S, k, n
    <3> QED
      BY <1>2, <1>5, <3>1, <3>2, <3>3, <3>4, <3>5
  <2>2. CASE s.kind # "userMessage"
    <3>1. {A[i] : i \in DOMAIN A} = {} /\ s.history = h
      BY <1>1, <2>2
    <3> QED
      BY <1>5, <3>1
  <2> QED
    BY <2>1, <2>2
<1>10. HasInstruction(s.history) <=> HasInstruction(h)
  <2>1. CASE s.kind = "userMessage"
    <3>1. \A i \in 1..n : i \in 1..k \/ i = n
      BY <1>1, <2>1
    <3>2. h[n].role # "system" /\ 1..k \subseteq 1..n
      BY <1>1, <2>1
    <3> QED
      BY <1>1, <1>2, <3>1, <3>2 DEF HasInstruction
  <2>2. CASE s.kind # "userMessage"
    BY <1>1, <2>2
  <2> QED
    BY <2>1, <2>2
<1>11. (IF I = <<>> THEN 0 ELSE 1) = IF tools /\ ~HasInstruction(h) THEN 1 ELSE 0
  BY <1>10 DEF I
<1>12. ReadOf(h, tools) = R
  BY DEF ReadOf, R, prompt, s
<1> HIDE DEF A, R
<1> QED
  BY <1>8, <1>9, <1>11, <1>12 DEF ReadsWhole

-----------------------------------------------------------------------------
(* Turns and their steps.                                                  *)

\* The nearest message before i that opens a turn, if there is one.
LEMMA OpenerOf ==
  ASSUME NEW M, NEW h \in Seq(M), NEW i \in 1..Len(h)
  PROVE  LET o == Opener(h, i)
         IN /\ o \in 0..(i - 1)
            /\ o # 0 => OpensTurn(h[o])
            /\ \A j \in 1..(i - 1) : OpensTurn(h[j]) => j <= o
<1> DEFINE S == {0} \cup {j \in 1..(i - 1) : OpensTurn(h[j])}
<1>1. i \in Nat /\ i - 1 \in Nat
  OBVIOUS
<1>2. S \in SUBSET 0..(i - 1) /\ S # {}
  BY <1>1
<1>3. Opener(h, i) = Max(S)
  BY DEF Opener
<1>4. \A o \in S : o # 0 => OpensTurn(h[o])
  OBVIOUS
<1>5. \A j \in 1..(i - 1) : OpensTurn(h[j]) => j \in S
  OBVIOUS
<1> HIDE DEF S
<1>6. Max(S) \in S /\ \A n \in S : n <= Max(S)
  BY <1>1, <1>2, GreatestOf
<1> QED
  BY <1>2, <1>3, <1>4, <1>5, <1>6

\* Later messages have later openers.
LEMMA OpenersGrow ==
  ASSUME NEW M, NEW h \in Seq(M), NEW i \in 1..Len(h), NEW j \in 1..Len(h), j <= i
  PROVE  Opener(h, j) <= Opener(h, i)
<1> DEFINE o == Opener(h, j)
           u == Opener(h, i)
<1>1. o \in 0..(j - 1) /\ (o # 0 => OpensTurn(h[o]))
  BY OpenerOf
<1>2. u \in 0..(i - 1) /\ \A k \in 1..(i - 1) : OpensTurn(h[k]) => k <= u
  BY OpenerOf
<1> HIDE DEF o, u
<1>3. o # 0 => o \in 1..(i - 1)
  BY <1>1
<1>4. o <= u
  BY <1>1, <1>2, <1>3
<1> QED
  BY <1>4 DEF o, u

\* What a result finds is a call of its id, recorded in a turn before it, and
\* no call or result of that id was recorded between the two.
LEMMA WaitingCall ==
  ASSUME NEW M, \A m \in M : IsMessage(m),
         NEW h \in Seq(M), NEW i \in 1..Len(h), NEW c \in Waiting(h, i)
  PROVE  \E j \in 1..(i - 1) : \E k \in 1..Len(h[j].calls) :
           /\ c = <<j, k>> /\ h[j].role = "assistant" /\ InTurn(h, j)
           /\ h[j].calls[k].id = h[i].answers
           /\ \A a \in 1..(i - 1) :
                /\ InTurn(h, a)
                /\ Asks(h[a], h[i].answers) \/ Takes(h[a], h[i].answers)
                => a <= j
<1> DEFINE id == h[i].answers
           touched == {j \in 1..(i - 1) : /\ Asks(h[j], id) \/ Takes(h[j], id)
                                          /\ InTurn(h, j)}
           with(j) == {k \in DOMAIN h[j].calls : h[j].calls[k].id = id}
<1>1. i \in Nat /\ i - 1 \in Nat
  OBVIOUS
<1>2. c \in {<<j, Max(with(j))>> :
               j \in {a \in touched : Asks(h[a], id) /\ a = Max(touched)}}
  BY DEF Waiting
<1>3. PICK j \in touched :
        c = <<j, Max(with(j))>> /\ Asks(h[j], id) /\ j = Max(touched)
  BY <1>2
<1>4. /\ j \in 1..(i - 1) /\ j \in 1..Len(h) /\ InTurn(h, j)
      /\ touched \in SUBSET 0..(i - 1) /\ touched # {}
  <2>1. j \in 1..(i - 1) /\ InTurn(h, j) /\ touched # {}
    BY <1>3
  <2>2. j \in 1..Len(h)
    BY <1>1, <2>1
  <2>3. 1..(i - 1) \subseteq 0..(i - 1) /\ touched \subseteq 1..(i - 1)
    BY <1>1
  <2> HIDE DEF touched
  <2> QED
    BY <2>1, <2>2, <2>3
<1>5. \A a \in touched : a <= j
  <2> HIDE DEF touched
  <2> QED
    BY <1>1, <1>3, <1>4, GreatestOf
<1>6. /\ h[j].calls \in Seq(ToSet(h[j].calls))
      /\ h[j].role = "assistant"
      /\ \E k \in DOMAIN h[j].calls : h[j].calls[k].id = id
  <2>1. h[j] \in M
    BY <1>4
  <2>2. IsMessage(h[j])
    BY <2>1
  <2> QED
    BY <1>3, <2>2 DEF IsMessage, Asks
<1>7. DOMAIN h[j].calls = 1..Len(h[j].calls) /\ Len(h[j].calls) \in Nat
  BY <1>6
<1> DEFINE l == Len(h[j].calls)
           W == with(j)
<1>8. W \in SUBSET 0..l /\ W # {} /\ \A k \in W : k \in 1..l /\ h[j].calls[k].id = id
  BY <1>6, <1>7
<1>9. Max(W) \in W
  <2> HIDE DEF W, l
  <2>1. l \in Nat
    BY <1>7 DEF l
  <2> QED
    BY <1>8, <2>1, GreatestOf
<1> DEFINE k == Max(W)
<1>10. c = <<j, k>> /\ k \in 1..l /\ h[j].calls[k].id = id
  BY <1>3, <1>8, <1>9
<1>11. ASSUME NEW a \in 1..(i - 1), InTurn(h, a), Asks(h[a], id) \/ Takes(h[a], id)
       PROVE  a <= j
  BY <1>5, <1>11
<1> HIDE DEF k, touched, with, W
<1> QED
  BY <1>4, <1>6, <1>10, <1>11

\* Whatever a turn can record.
HistorySteps == {TextStep(i) : i \in Nat} \cup {CallStep(i, k) : i \in Nat, k \in Nat}
                  \cup {ResultStep(i, c) : i \in Nat, c \in Nat \X Nat}

\* A step is one of its message, and what it is shows.
LEMMA TextStepFields ==
  ASSUME NEW i
  PROVE  TextStep(i).msg = i /\ TextStep(i).kind = "text"
BY DEF TextStep

\* The same of a call.
LEMMA CallStepFields ==
  ASSUME NEW i, NEW k
  PROVE  /\ CallStep(i, k).msg = i /\ CallStep(i, k).kind = "call"
         /\ CallStep(i, k).call = <<i, k>>
BY DEF CallStep

\* The same of a result.
LEMMA ResultStepFields ==
  ASSUME NEW i, NEW c
  PROVE  /\ ResultStep(i, c).msg = i /\ ResultStep(i, c).kind = "result"
         /\ ResultStep(i, c).call = c
BY DEF ResultStep

\* S are the steps of a reply: one for its text, one for each of its calls.
ReplySteps(S, i, msg) ==
  /\ S \in Seq(HistorySteps)
  /\ Len(S) = Len(msg.calls) + (IF HasText(msg) THEN 1 ELSE 0)
  /\ \A n \in 1..Len(S) : S[n].msg = i /\ S[n].kind # "result"
  /\ \A k \in 1..Len(msg.calls) : \E n \in 1..Len(S) : S[n] = CallStep(i, k)

\* A reply leaves its text and its calls.
LEMMA StepsOfReply ==
  ASSUME NEW i \in Nat, NEW msg, IsMessage(msg)
  PROVE  ReplySteps(AssistantSteps(i, msg), i, msg)
<1> DEFINE l == Len(msg.calls)
           T == IF HasText(msg) THEN <<TextStep(i)>> ELSE <<>>
           C == [k \in DOMAIN msg.calls |-> CallStep(i, k)]
           t == IF HasText(msg) THEN 1 ELSE 0
           S == T \o C
<1>1. msg.calls \in Seq(ToSet(msg.calls))
  BY DEF IsMessage
<1>2. DOMAIN msg.calls = 1..l /\ l \in Nat /\ t \in {0, 1}
  BY <1>1
<1>3. TextStep(i) \in HistorySteps /\ \A k \in Nat : CallStep(i, k) \in HistorySteps
  BY DEF HistorySteps
<1>4. C \in Seq(HistorySteps) /\ Len(C) = l /\ \A k \in 1..l : C[k] = CallStep(i, k)
  <2> HIDE DEF l
  <2> QED
    BY <1>2, <1>3
<1>5. T \in Seq(HistorySteps) /\ Len(T) = t /\ (t = 1 => T[1] = TextStep(i))
  <2> DEFINE x == TextStep(i)
  <2> HIDE DEF x
  <2>1. <<x>> \in Seq(HistorySteps) /\ Len(<<x>>) = 1 /\ <<x>>[1] = x
    BY <1>3 DEF x
  <2>2. <<>> \in Seq(HistorySteps) /\ Len(<<>>) = 0
    OBVIOUS
  <2> QED
    BY <2>1, <2>2 DEF x
<1>6. AssistantSteps(i, msg) = S
  BY DEF AssistantSteps
<1> HIDE DEF T, C, t, l
<1>7. /\ S \in Seq(HistorySteps) /\ Len(S) = t + l
      /\ \A n \in 1..t : S[n] = T[n]
      /\ \A n \in 1..l : S[t + n] = C[n]
  <2>1. /\ T \o C \in Seq(HistorySteps) /\ Len(T \o C) = Len(T) + Len(C)
        /\ \A n \in 1..Len(T) : (T \o C)[n] = T[n]
        /\ \A n \in 1..Len(C) : (T \o C)[Len(T) + n] = C[n]
    <3>1. T \in Seq(HistorySteps) /\ C \in Seq(HistorySteps)
      BY <1>4, <1>5
    <3> QED
      BY ONLY <3>1, ConcatAt
  <2> QED
    BY <1>4, <1>5, <2>1
<1> HIDE DEF S
<1>8. ASSUME NEW n \in 1..Len(S) PROVE S[n].msg = i /\ S[n].kind # "result"
  <2>1. n \in 1..t \/ (n - t \in 1..l /\ n = t + (n - t))
    BY <1>2, <1>7
  <2>2. S[n] = TextStep(i) \/ \E k \in 1..l : S[n] = CallStep(i, k)
    <3>1. CASE n \in 1..t
      <4>1. n = 1 /\ t = 1
        BY <1>2, <3>1
      <4> QED
        BY <1>5, <1>7, <4>1
    <3>2. CASE n \notin 1..t
      <4>1. n - t \in 1..l /\ n = t + (n - t)
        BY <2>1, <3>2
      <4> DEFINE k == n - t
      <4>2. k \in 1..l /\ n = t + k
        BY <4>1
      <4> HIDE DEF k
      <4> QED
        BY <1>4, <1>7, <4>2
    <3> QED
      BY <3>1, <3>2
  <2> QED
    BY <2>2, TextStepFields, CallStepFields
<1>9. ASSUME NEW k \in 1..l PROVE \E n \in 1..Len(S) : S[n] = CallStep(i, k)
  <2>1. t + k \in 1..Len(S)
    BY <1>2, <1>7
  <2> QED
    BY <1>4, <1>7, <2>1
<1>10. t + l = l + t
  BY <1>2
<1> QED
  BY <1>6, <1>7, <1>8, <1>9, <1>10 DEF ReplySteps, l, t

\* A result leaves one step, for the call it found or as a text.
LEMMA StepsOfResult ==
  ASSUME NEW M, \A m \in M : IsMessage(m),
         NEW h \in Seq(M), NEW i \in 1..Len(h)
  PROVE  LET S == ResultSteps(h, i)
         IN /\ S \in Seq(HistorySteps) /\ Len(S) = 1
            /\ S[1].msg = i
            /\ S[1].kind = "result" => S[1].call \in Waiting(h, i)
<1> DEFINE W == Waiting(h, i)
           c == CHOOSE call \in W : TRUE
           x == IF W = {} THEN TextStep(i) ELSE ResultStep(i, c)
<1>1. ResultSteps(h, i) = <<x>>
  BY DEF ResultSteps
<1>2. i \in Nat
  OBVIOUS
<1>3. W # {} => c \in W
  OBVIOUS
<1>4. ASSUME NEW d \in W PROVE d \in Nat \X Nat
  <2>1. PICK j \in 1..(i - 1) : \E k \in 1..Len(h[j].calls) : d = <<j, k>>
    BY WaitingCall
  <2>2. PICK k \in 1..Len(h[j].calls) : d = <<j, k>>
    BY <2>1
  <2>3. j \in Nat /\ k \in Nat
    OBVIOUS
  <2> QED
    BY <2>2, <2>3
<1>5. x \in HistorySteps /\ x.msg = i /\ (x.kind = "result" => x.call \in W)
  <2> HIDE DEF c, W
  <2>1. CASE W = {}
    <3>1. x = TextStep(i)
      BY <2>1
    <3> HIDE DEF x
    <3> QED
      BY <1>2, <2>1, <3>1, TextStepFields DEF HistorySteps
  <2>2. CASE W # {}
    <3>1. x = ResultStep(i, c) /\ c \in W /\ c \in Nat \X Nat
      BY <1>3, <1>4, <2>2
    <3> HIDE DEF x
    <3>2. x \in HistorySteps
      BY <1>2, <3>1 DEF HistorySteps
    <3> QED
      BY <3>1, <3>2, ResultStepFields
  <2> QED
    BY <2>1, <2>2
<1> HIDE DEF x, W
<1>6. <<x>> \in Seq(HistorySteps) /\ Len(<<x>>) = 1 /\ <<x>>[1] = x
  BY <1>5
<1> QED
  BY <1>1, <1>5, <1>6 DEF W

\* The steps a message should leave in a turn.
DueOf(msg) ==
  IF msg.role = "tool" THEN 1
  ELSE Len(msg.calls) + (IF HasText(msg) THEN 1 ELSE 0)

\* A message leaves the steps due, in a turn; a result is put to a call that
\* waited, and a call of a reply has its step.
LEMMA StepsOfMessage ==
  ASSUME NEW M, \A m \in M : IsMessage(m),
         NEW h \in Seq(M), NEW i \in 1..Len(h)
  PROVE  LET S == StepsFor(h, i)
         IN /\ S \in Seq(HistorySteps)
            /\ Len(S) = IF h[i].role \in {"assistant", "tool"} /\ InTurn(h, i)
                        THEN DueOf(h[i]) ELSE 0
            /\ \A n \in 1..Len(S) :
                 /\ S[n].msg = i
                 /\ S[n].kind = "result" =>
                      /\ h[i].role = "tool" /\ InTurn(h, i)
                      /\ Len(S) = 1 /\ S[n].call \in Waiting(h, i)
            /\ h[i].role = "assistant" /\ InTurn(h, i) =>
                 \A k \in 1..Len(h[i].calls) : \E n \in 1..Len(S) : S[n] = CallStep(i, k)
<1> DEFINE S == StepsFor(h, i)
<1>1. i \in Nat /\ h[i] \in M /\ IsMessage(h[i])
  OBVIOUS
<1>2. CASE h[i].role = "assistant" /\ InTurn(h, i)
  <2>1. S = AssistantSteps(i, h[i])
    BY <1>2 DEF StepsFor
  <2> HIDE DEF S
  <2>2. /\ S \in Seq(HistorySteps)
        /\ Len(S) = Len(h[i].calls) + (IF HasText(h[i]) THEN 1 ELSE 0)
        /\ \A n \in 1..Len(S) : S[n].msg = i /\ S[n].kind # "result"
        /\ \A k \in 1..Len(h[i].calls) : \E n \in 1..Len(S) : S[n] = CallStep(i, k)
    <3>1. ReplySteps(S, i, h[i])
      BY <1>1, <2>1, StepsOfReply
    <3> QED
      BY <3>1 DEF ReplySteps
  <2>3. Len(S) = DueOf(h[i])
    BY <1>2, <2>2 DEF DueOf
  <2> QED
    BY <1>2, <2>2, <2>3 DEF S
<1>3. CASE h[i].role = "tool" /\ InTurn(h, i)
  <2>1. S = ResultSteps(h, i)
    BY <1>3 DEF StepsFor
  <2> HIDE DEF S
  <2>2. /\ S \in Seq(HistorySteps) /\ Len(S) = 1
        /\ S[1].msg = i
        /\ S[1].kind = "result" => S[1].call \in Waiting(h, i)
    BY <2>1, StepsOfResult
  <2>3. Len(S) = DueOf(h[i])
    BY <1>3, <2>2 DEF DueOf
  <2>4. \A n \in 1..Len(S) : n = 1
    BY <2>2
  <2> QED
    BY <1>3, <2>2, <2>3, <2>4 DEF S
<1>4. CASE ~(h[i].role \in {"assistant", "tool"} /\ InTurn(h, i))
  <2>1. S = <<>>
    BY <1>4 DEF StepsFor
  <2> HIDE DEF S
  <2>2. S \in Seq(HistorySteps) /\ Len(S) = 0 /\ 1..Len(S) = {}
    BY <2>1
  <2> QED
    BY <1>4, <2>2 DEF S
<1> QED
  BY <1>2, <1>3, <1>4

\* F holds the steps of the messages that o opened the turn of, and of no
\* others, each once and in the order of the messages.
TurnSteps(h, o, F) ==
  /\ F \in Seq(HistorySteps)
  /\ \A s \in DOMAIN F :
       /\ F[s].msg \in 1..Len(h) /\ Opener(h, F[s].msg) = o
       /\ \E k \in 1..Len(StepsFor(h, F[s].msg)) : F[s] = StepsFor(h, F[s].msg)[k]
  /\ \A s, u \in DOMAIN F : s < u => F[s].msg <= F[u].msg
  /\ \A i \in 1..Len(h) : Opener(h, i) = o =>
       \A k \in 1..Len(StepsFor(h, i)) : \E s \in DOMAIN F : F[s] = StepsFor(h, i)[k]
  /\ \A i \in 1..Len(h) :
       Cardinality({s \in DOMAIN F : F[s].msg = i})
         = IF Opener(h, i) = o THEN Len(StepsFor(h, i)) ELSE 0
  /\ \A s, u \in DOMAIN F :
       F[s].msg = F[u].msg /\ Len(StepsFor(h, F[s].msg)) = 1 => s = u

\* The turn of an opener has those steps.
LEMMA StepsOfTurn ==
  ASSUME NEW M, \A m \in M : IsMessage(m),
         NEW h \in Seq(M), NEW o
  PROVE  TurnSteps(h, o, TurnOf(h, o).steps)
<1> DEFINE n == Len(h)
           g == [i \in DOMAIN h |-> IF Opener(h, i) = o THEN StepsFor(h, i) ELSE <<>>]
           F == FlattenSeq(g)
           Left(i) == StepsFor(h, i)
<1>1. n \in Nat /\ DOMAIN h = 1..n
  OBVIOUS
<1>2. TurnOf(h, o).steps = F
  BY DEF TurnOf
<1>3. ASSUME NEW i \in 1..n
      PROVE  /\ Left(i) \in Seq(HistorySteps)
             /\ Len(Left(i)) \in Nat
             /\ \A k \in 1..Len(Left(i)) : Left(i)[k].msg = i
  <2>1. /\ Left(i) \in Seq(HistorySteps)
        /\ \A k \in 1..Len(Left(i)) : Left(i)[k].msg = i
    BY StepsOfMessage
  <2> HIDE DEF Left
  <2>2. Len(Left(i)) \in Nat
    BY <2>1
  <2> QED
    BY <2>1, <2>2
<1> HIDE DEF Left
<1>4. ASSUME NEW i \in 1..n
      PROVE  g[i] = IF Opener(h, i) = o THEN Left(i) ELSE <<>>
  BY <1>1 DEF Left
<1>5. g \in Seq(Seq(HistorySteps)) /\ Len(g) = n
  <2>1. ASSUME NEW i \in 1..n PROVE g[i] \in Seq(HistorySteps)
    <3>1. <<>> \in Seq(HistorySteps)
      OBVIOUS
    <3> HIDE DEF g
    <3> QED
      BY <1>3, <1>4, <3>1
  <2>2. g = [i \in 1..n |-> g[i]]
    BY <1>1
  <2> HIDE DEF g, n
  <2> QED
    BY <1>1, <2>1, <2>2
<1> HIDE DEF g, n
<1>6. /\ F \in Seq(HistorySteps)
      /\ \A i \in 1..n : Off(g, i) \in Nat
      /\ \A i, j \in 1..n : i < j => Off(g, i) + Len(g[i]) <= Off(g, j)
      /\ \A i \in 1..n : \A k \in 1..Len(g[i]) : Off(g, i) + k \in 1..Len(F) /\ F[Off(g, i) + k] = g[i][k]
      /\ \A s \in 1..Len(F) : \E i \in 1..n : \E k \in 1..Len(g[i]) : s = Off(g, i) + k
  BY <1>5, Parts
<1> HIDE DEF F
<1>7. DOMAIN F = 1..Len(F) /\ Len(F) \in Nat
  BY <1>6
<1>8. ASSUME NEW i \in 1..n
      PROVE  /\ Len(g[i]) \in Nat
             /\ Opener(h, i) = o => g[i] = Left(i)
             /\ Opener(h, i) # o => Len(g[i]) = 0
  BY <1>3, <1>4
<1>9. ASSUME NEW s \in DOMAIN F
      PROVE  /\ F[s].msg \in 1..n /\ Opener(h, F[s].msg) = o
             /\ \E k \in 1..Len(Left(F[s].msg)) :
                  s = Off(g, F[s].msg) + k /\ F[s] = Left(F[s].msg)[k]
  <2>1. PICK i \in 1..n : \E k \in 1..Len(g[i]) : s = Off(g, i) + k
    BY <1>6, <1>7
  <2>2. PICK k \in 1..Len(g[i]) : s = Off(g, i) + k
    BY <2>1
  <2>3. Opener(h, i) = o
    BY <1>8, <2>2
  <2>4. g[i] = Left(i)
    BY <1>8, <2>3
  <2>5. k \in 1..Len(Left(i)) /\ F[s] = Left(i)[k]
    BY <1>6, <2>2, <2>4
  <2>6. F[s].msg = i
    BY <1>3, <2>5
  <2> QED
    BY <2>2, <2>3, <2>5, <2>6
<1>10. ASSUME NEW s \in DOMAIN F, NEW u \in DOMAIN F, s < u
       PROVE  F[s].msg <= F[u].msg
  <2> DEFINE i == F[s].msg
             j == F[u].msg
  <2>1. /\ i \in 1..n /\ j \in 1..n
        /\ Opener(h, i) = o /\ Opener(h, j) = o
    BY <1>9
  <2>2. PICK k \in 1..Len(Left(i)) : s = Off(g, i) + k
    BY <1>9
  <2>3. PICK l \in 1..Len(Left(j)) : u = Off(g, j) + l
    BY <1>9
  <2> HIDE DEF i, j
  <2>4. j < i => Off(g, j) + Len(Left(j)) <= Off(g, i)
    BY <1>6, <1>8, <2>1
  <2>5. Off(g, i) \in Nat /\ Off(g, j) \in Nat /\ Len(Left(i)) \in Nat /\ Len(Left(j)) \in Nat
    BY <1>3, <1>6, <2>1
  <2>6. ~(j < i)
    BY <1>10, <2>2, <2>3, <2>4, <2>5
  <2>7. i <= j
    BY <1>1, <2>1, <2>6
  <2> QED
    BY <2>7 DEF i, j
<1>11. ASSUME NEW i \in 1..n, Opener(h, i) = o, NEW k \in 1..Len(Left(i))
       PROVE  \E s \in DOMAIN F : F[s] = Left(i)[k]
  <2>1. g[i] = Left(i)
    BY <1>8, <1>11
  <2>2. Off(g, i) + k \in DOMAIN F /\ F[Off(g, i) + k] = Left(i)[k]
    BY <1>6, <1>7, <2>1
  <2> QED
    BY <2>2
<1>12. ASSUME NEW i \in 1..n
       PROVE  Cardinality({s \in DOMAIN F : F[s].msg = i})
                = IF Opener(h, i) = o THEN Len(Left(i)) ELSE 0
  <2> DEFINE Z == {s \in DOMAIN F : F[s].msg = i}
             a == Off(g, i)
             l == Len(Left(i))
  <2>1. CASE Opener(h, i) = o
    <3>1. a \in Nat /\ l \in Nat /\ g[i] = Left(i)
      BY <1>3, <1>6, <1>8, <2>1
    <3>2. ASSUME NEW s \in Z PROVE s \in (a + 1)..(a + l)
      <4>1. s \in DOMAIN F /\ F[s].msg = i
        OBVIOUS
      <4>2. PICK k \in 1..l : s = a + k
        BY <1>9, <4>1
      <4> HIDE DEF a, l
      <4> QED
        BY <3>1, <4>2
    <3>3. ASSUME NEW s \in (a + 1)..(a + l) PROVE s \in Z
      <4> DEFINE k == s - a
      <4>1. k \in 1..l /\ s = a + k
        <5> HIDE DEF a, l
        <5> QED
          BY <3>1
      <4> HIDE DEF k
      <4>2. s \in DOMAIN F /\ F[s] = Left(i)[k]
        BY <1>6, <1>7, <3>1, <4>1
      <4>3. F[s].msg = i
        BY <1>3, <4>1, <4>2
      <4> QED
        BY <4>2, <4>3
    <3> HIDE DEF Z, a, l
    <3>4. Z = (a + 1)..(a + l)
      BY <3>2, <3>3
    <3>5. a + 1 \in Int /\ a + l \in Int
      BY <3>1
    <3>6. Cardinality((a + 1)..(a + l)) = IF a + 1 > a + l THEN 0 ELSE (a + l) - (a + 1) + 1
      BY <3>5, FS_Interval
    <3>7. Cardinality(Z) = l
      BY <3>1, <3>4, <3>6
    <3> QED
      BY <2>1, <3>7 DEF Z, l
  <2>2. CASE Opener(h, i) # o
    <3>1. Z = {}
      BY <1>9, <2>2
    <3>2. Cardinality(Z) = 0
      BY <3>1, FS_EmptySet
    <3> QED
      BY <2>2, <3>2
  <2> QED
    BY <2>1, <2>2
<1>13. ASSUME NEW s \in DOMAIN F, NEW u \in DOMAIN F,
              F[s].msg = F[u].msg, Len(Left(F[s].msg)) = 1
       PROVE  s = u
  <2> DEFINE i == F[s].msg
  <2>1. PICK k \in 1..Len(Left(i)) : s = Off(g, i) + k
    BY <1>9
  <2>2. PICK l \in 1..Len(Left(i)) : u = Off(g, i) + l
    BY <1>9, <1>13
  <2>3. k = 1 /\ l = 1
    BY <1>13
  <2> QED
    BY <2>1, <2>2, <2>3
<1>14. \A s \in DOMAIN F : \E k \in 1..Len(Left(F[s].msg)) : F[s] = Left(F[s].msg)[k]
  BY <1>9
<1>15. TurnSteps(h, o, F)
  BY <1>6, <1>9, <1>10, <1>11, <1>12, <1>13, <1>14 DEF TurnSteps, n, Left
<1> QED
  BY <1>2, <1>15

\* The messages that open a turn of their own.
OpenersOf(h) == {i \in 1..Len(h) : OpensTurn(h[i]) /\ OpenerHasText(h[i])}

\* T has a turn for each of them, in order, with its steps.
TurnsOf(h, T) ==
  /\ DOMAIN T \subseteq Nat
  /\ \A t \in DOMAIN T : T[t].opener \in OpenersOf(h) /\ TurnSteps(h, T[t].opener, T[t].steps)
  /\ \A o \in OpenersOf(h) : \E t \in DOMAIN T : T[t].opener = o
  /\ \A t, u \in DOMAIN T : t < u => T[t].opener < T[u].opener

\* The turns built are those.
LEMMA TurnsOfHistory ==
  ASSUME NEW M, \A m \in M : IsMessage(m), NEW h \in Seq(M)
  PROVE  TurnsOf(h, buildHistoryTurnBlobIDs(h))
<1> DEFINE n == Len(h)
           P == Positions(OpenersOf(h), n)
           T == buildHistoryTurnBlobIDs(h)
<1>1. n \in Nat /\ DOMAIN h = 1..n
  OBVIOUS
<1>2. T = [t \in DOMAIN P |-> TurnOf(h, P[t])]
  BY <1>1 DEF buildHistoryTurnBlobIDs, OpenersOf
<1>3. /\ P \in Seq(1..n)
      /\ \A t \in DOMAIN P : P[t] \in OpenersOf(h)
      /\ \A i \in OpenersOf(h) \cap 1..n : \E t \in DOMAIN P : P[t] = i
      /\ \A t, u \in DOMAIN P : t < u => P[t] < P[u]
  <2> HIDE DEF n
  <2> QED
    BY <1>1, PositionsInOrder
<1>4. OpenersOf(h) \subseteq 1..n
  BY DEF OpenersOf
<1> HIDE DEF T, P, n
<1>5. DOMAIN T = DOMAIN P /\ DOMAIN T \subseteq Nat
  BY <1>2, <1>3
<1>6. ASSUME NEW t \in DOMAIN T
      PROVE  T[t].opener = P[t] /\ TurnSteps(h, T[t].opener, T[t].steps)
  <2>1. T[t] = TurnOf(h, P[t])
    BY <1>2, <1>5
  <2>2. T[t].opener = P[t]
    BY <2>1 DEF TurnOf
  <2>3. TurnSteps(h, P[t], TurnOf(h, P[t]).steps)
    BY StepsOfTurn
  <2> QED
    BY <2>1, <2>2, <2>3
<1>7. TurnsOf(h, T)
  BY <1>3, <1>4, <1>5, <1>6 DEF TurnsOf
<1> QED
  BY <1>7 DEF T

\* A result step and the call it was put to.
LEMMA ResultStepOf ==
  ASSUME NEW M, \A m \in M : IsMessage(m), NEW h \in Seq(M),
         NEW o, NEW F, TurnSteps(h, o, F), NEW s \in DOMAIN F, F[s].kind = "result"
  PROVE  /\ F[s].msg \in 1..Len(h)
         /\ h[F[s].msg].role = "tool" /\ InTurn(h, F[s].msg)
         /\ Len(StepsFor(h, F[s].msg)) = 1
         /\ F[s].call \in Waiting(h, F[s].msg)
<1> DEFINE i == F[s].msg
           S == StepsFor(h, i)
<1>1. i \in 1..Len(h) /\ \E k \in 1..Len(S) : F[s] = S[k]
  BY DEF TurnSteps
<1>2. PICK k \in 1..Len(S) : F[s] = S[k]
  BY <1>1
<1> HIDE DEF i
<1>3. \A n \in 1..Len(S) :
        S[n].kind = "result" => /\ h[i].role = "tool" /\ InTurn(h, i)
                                /\ Len(S) = 1 /\ S[n].call \in Waiting(h, i)
  <2> HIDE DEF S
  <2>1. i \in 1..Len(h)
    BY <1>1
  <2> QED
    BY <2>1, StepsOfMessage DEF S
<1> QED
  BY <1>1, <1>2, <1>3 DEF i

\* Two results do not find the same call: the first takes it out.
LEMMA CallsWaitOnce ==
  ASSUME NEW M, \A m \in M : IsMessage(m), NEW h \in Seq(M),
         NEW i \in 1..Len(h), NEW j \in 1..Len(h), i < j,
         h[i].role = "tool", InTurn(h, i),
         NEW c \in Waiting(h, i)
  PROVE  c \notin Waiting(h, j)
<1> SUFFICES ASSUME c \in Waiting(h, j) PROVE FALSE
  OBVIOUS
<1>1. PICK a \in 1..(i - 1) : \E k \in 1..Len(h[a].calls) :
        c = <<a, k>> /\ h[a].calls[k].id = h[i].answers
  BY WaitingCall
<1>2. PICK k \in 1..Len(h[a].calls) : c = <<a, k>> /\ h[a].calls[k].id = h[i].answers
  BY <1>1
<1>3. PICK b \in 1..(j - 1) : \E l \in 1..Len(h[b].calls) :
           /\ c = <<b, l>> /\ h[b].calls[l].id = h[j].answers
           /\ \A d \in 1..(j - 1) :
                /\ InTurn(h, d)
                /\ Asks(h[d], h[j].answers) \/ Takes(h[d], h[j].answers)
                => d <= b
  BY WaitingCall
<1>4. a = b /\ h[i].answers = h[j].answers
  BY <1>2, <1>3
<1>5. i \in 1..(j - 1) /\ ~(i <= a)
  OBVIOUS
<1>6. Takes(h[i], h[j].answers)
  BY <1>4 DEF Takes
<1> QED
  BY <1>3, <1>4, <1>5, <1>6

\* The turns of one opener are one.
LEMMA OneTurn ==
  ASSUME NEW h, NEW T, TurnsOf(h, T), NEW t \in DOMAIN T, NEW u \in DOMAIN T
  PROVE  /\ T[t].opener = T[u].opener => t = u
         /\ T[t].opener < T[u].opener => t < u
<1>1. t \in Nat /\ u \in Nat /\ T[t].opener \in Nat /\ T[u].opener \in Nat
  BY DEF TurnsOf, OpenersOf
<1>2. t < u => T[t].opener < T[u].opener
  BY DEF TurnsOf
<1>3. u < t => T[u].opener < T[t].opener
  BY DEF TurnsOf
<1> QED
  BY <1>1, <1>2, <1>3

\* The result at s in turn t is put to a call of its id, of a message before
\* it, that has a step before it.
CallComesFirst(h, T, t, s) ==
  LET i == T[t].steps[s].msg
      c == T[t].steps[s].call
  IN /\ i \in 1..Len(h) /\ c[1] \in 1..(i - 1)
     /\ h[c[1]].calls[c[2]].id = h[i].answers
     /\ \E u \in DOMAIN T : \E v \in DOMAIN T[u].steps :
          /\ u < t \/ (u = t /\ v < s)
          /\ T[u].steps[v].kind = "call" /\ T[u].steps[v].call = c

\* The call of a result is recorded before it.
LEMMA CallIsRecorded ==
  ASSUME NEW M, \A m \in M : IsMessage(m), NEW h \in Seq(M),
         NEW T, TurnsOf(h, T), NEW t \in DOMAIN T, NEW s \in DOMAIN T[t].steps,
         T[t].steps[s].kind = "result"
  PROVE  CallComesFirst(h, T, t, s)
<1> DEFINE F == T[t].steps
           i == F[s].msg
           c == F[s].call
           o == T[t].opener
<1>1. TurnSteps(h, o, F) /\ o \in OpenersOf(h)
  BY DEF TurnsOf
<1> HIDE DEF o
<1>2. i \in 1..Len(h) /\ c \in Waiting(h, i) /\ Opener(h, i) = o
  <2>1. i \in 1..Len(h) /\ c \in Waiting(h, i)
    <3> HIDE DEF F
    <3>1. F[s].kind = "result" /\ s \in DOMAIN F
      BY DEF F
    <3> QED
      BY <1>1, <3>1, ResultStepOf
  <2>2. Opener(h, i) = o
    BY <1>1 DEF TurnSteps
  <2> QED
    BY <2>1, <2>2
<1> HIDE DEF i, c, F
<1>3. PICK j \in 1..(i - 1) : \E k \in 1..Len(h[j].calls) :
           /\ c = <<j, k>> /\ h[j].role = "assistant" /\ InTurn(h, j)
           /\ h[j].calls[k].id = h[i].answers
  BY <1>2, WaitingCall
<1>4. PICK k \in 1..Len(h[j].calls) :
           /\ c = <<j, k>> /\ h[j].role = "assistant" /\ InTurn(h, j)
           /\ h[j].calls[k].id = h[i].answers
  BY <1>3
<1>5. j \in 1..Len(h) /\ j < i /\ i \in Nat /\ j \in Nat
  BY <1>2
<1>6. c[1] = j /\ c[2] = k
  BY <1>4
<1> DEFINE p == Opener(h, j)
<1>7. p \in OpenersOf(h) /\ p <= o
  <2>1. p # 0 /\ OpenerHasText(h[p])
    BY <1>4 DEF InTurn
  <2>2. p \in 0..(j - 1) /\ (p # 0 => OpensTurn(h[p]))
    BY <1>5, OpenerOf
  <2>3. p <= o
    BY <1>2, <1>5, OpenersGrow
  <2> HIDE DEF p
  <2>4. p \in 1..Len(h)
    BY <1>2, <1>5, <2>1, <2>2
  <2> QED
    BY <2>1, <2>2, <2>3, <2>4 DEF OpenersOf
<1>8. PICK u \in DOMAIN T : T[u].opener = p
  BY <1>7 DEF TurnsOf
<1>9. TurnSteps(h, p, T[u].steps)
  BY <1>8 DEF TurnsOf
<1>10. PICK v \in DOMAIN T[u].steps : T[u].steps[v] = CallStep(j, k)
  <2>1. \E n \in 1..Len(StepsFor(h, j)) : StepsFor(h, j)[n] = CallStep(j, k)
    BY <1>4, <1>5, StepsOfMessage
  <2> QED
    BY <1>5, <1>9, <2>1 DEF TurnSteps
<1>11. T[u].steps[v].kind = "call" /\ T[u].steps[v].call = c /\ T[u].steps[v].msg = j
  BY <1>4, <1>10, CallStepFields
<1>12. u < t \/ (u = t /\ v < s)
  <2>1. CASE p < o
    BY <1>8, <2>1, OneTurn DEF o
  <2>2. CASE p = o
    <3>1. u = t
      BY <1>8, <2>2, OneTurn DEF o
    <3>2. /\ F[s].msg = i /\ F[v].msg = j /\ s \in DOMAIN F /\ v \in DOMAIN F
          /\ F \in Seq(HistorySteps)
          /\ (s < v => F[s].msg <= F[v].msg)
      BY <1>1, <1>11, <3>1 DEF TurnSteps, F, i
    <3>3. s \in Nat /\ v \in Nat
      BY <3>2
    <3>4. v < s
      BY <1>5, <3>2, <3>3
    <3> QED
      BY <3>1, <3>4
  <2>3. p \in Nat /\ o \in Nat
    BY <1>1, <1>7 DEF OpenersOf
  <2> HIDE DEF p
  <2> QED
    BY <1>7, <2>1, <2>2, <2>3
<1> QED
  BY <1>2, <1>4, <1>6, <1>11, <1>12 DEF CallComesFirst, i, c, F

\* No two results are put to one call.
LEMMA ResultsAreAlone ==
  ASSUME NEW M, \A m \in M : IsMessage(m), NEW h \in Seq(M),
         NEW T, TurnsOf(h, T),
         NEW t \in DOMAIN T, NEW s \in DOMAIN T[t].steps, T[t].steps[s].kind = "result",
         NEW u \in DOMAIN T, NEW v \in DOMAIN T[u].steps, T[u].steps[v].kind = "result",
         T[u].steps[v].call = T[t].steps[s].call
  PROVE  u = t /\ v = s
<1> DEFINE F == T[t].steps
           G == T[u].steps
           i == F[s].msg
           j == G[v].msg
           c == F[s].call
<1>1. TurnSteps(h, T[t].opener, F) /\ TurnSteps(h, T[u].opener, G)
  BY DEF TurnsOf
<1>2. F[s].kind = "result" /\ s \in DOMAIN F /\ G[v].kind = "result" /\ v \in DOMAIN G /\ G[v].call = c
  OBVIOUS
<1>3. /\ Opener(h, i) = T[t].opener /\ Opener(h, j) = T[u].opener
  BY <1>1 DEF TurnSteps
<1> HIDE DEF F, G
<1>4. /\ i \in 1..Len(h) /\ h[i].role = "tool" /\ InTurn(h, i)
      /\ Len(StepsFor(h, i)) = 1 /\ c \in Waiting(h, i)
  BY <1>1, <1>2, ResultStepOf
<1>5. /\ j \in 1..Len(h) /\ h[j].role = "tool" /\ InTurn(h, j)
      /\ c \in Waiting(h, j)
  BY <1>1, <1>2, ResultStepOf
<1>6. i = j
  <2> HIDE DEF i, j, c
  <2>1. ~(i < j)
    BY <1>4, <1>5, CallsWaitOnce
  <2>2. ~(j < i)
    BY <1>4, <1>5, CallsWaitOnce
  <2> QED
    BY <1>4, <1>5, <2>1, <2>2
<1>7. u = t
  BY <1>3, <1>6, OneTurn
<1>8. F = G
  BY <1>7 DEF F, G
<1>9. s = v
  BY <1>1, <1>2, <1>4, <1>6, <1>8 DEF TurnSteps
<1> QED
  BY <1>7, <1>9

-----------------------------------------------------------------------------
(* The requests of a chat.                                                 *)

\* What a chat is made of: a shape, its text by its position.
ChatMessage == Shapes \cup {[shape EXCEPT !.text = n] : shape \in Shapes, n \in Nat}

\* The chat, and a request that is the translation of what was sent of it.
RequestIsOfTheChat ==
  /\ messages \in Seq(ChatMessage)
  /\ request.upTo \in 0..Len(messages)
  /\ request.tools \in BOOLEAN
  /\ Built =>
       LET s == Split(Sent)
       IN /\ request.action = s.kind /\ request.msg = s.msg
          /\ request.turns = buildHistoryTurnBlobIDs(s.history)
          /\ request.prompt = rootPrompt(s.history, request.tools)

\* A message of a chat is a message.
LEMMA ChatMessagesAreMessages == \A m \in ChatMessage : IsMessage(m)
<1> SUFFICES ASSUME NEW m \in ChatMessage PROVE IsMessage(m)
  OBVIOUS
<1>1. CASE m \in Shapes
  BY <1>1, ShapesAssumption
<1>2. CASE m \notin Shapes
  <2>1. PICK shape \in Shapes, n \in Nat : m = [shape EXCEPT !.text = n]
    BY <1>2 DEF ChatMessage
  <2>2. IsMessage(shape)
    BY ShapesAssumption
  <2>3. DOMAIN m = DOMAIN shape /\ m.role = shape.role /\ m.calls = shape.calls
    BY <2>1, <2>2 DEF IsMessage
  <2> QED
    BY <2>2, <2>3 DEF IsMessage
<1> QED
  BY <1>1, <1>2

\* What was sent stays what it was as the chat grows.
LEMMA SentStays ==
  ASSUME NEW M, NEW h \in Seq(M), NEW x \in M, NEW u \in 0..Len(h)
  PROVE  SubSeq(Append(h, x), 1, u) = SubSeq(h, 1, u)
<1> DEFINE g == Append(h, x)
<1>1. /\ g \in Seq(M) /\ Len(g) = Len(h) + 1 /\ Len(h) \in Nat /\ u \in Nat
      /\ \A i \in 1..Len(h) : g[i] = h[i]
  BY AppendProperties
<1>2. u \in 0..Len(g)
  BY <1>1
<1> HIDE DEF g
<1>3. \A i \in 1..u : i \in 1..Len(h) /\ i \in 1..Len(g)
  BY <1>1
<1> DEFINE s == SubSeq(g, 1, u)
           t == SubSeq(h, 1, u)
<1>4. s \in Seq(M) /\ Len(s) = u /\ \A i \in 1..u : s[i] = g[i]
  BY <1>1, <1>2, <1>3
<1>5. t \in Seq(M) /\ Len(t) = u /\ \A i \in 1..u : t[i] = h[i]
  BY <1>1, <1>3
<1> HIDE DEF s, t
<1>6. s = t
  BY <1>1, <1>3, <1>4, <1>5, SeqEqual
<1> QED
  BY <1>6 DEF s, t, g

\* At first nothing was sent.
LEMMA NothingSent == ChatInit => RequestIsOfTheChat
BY DEF ChatInit, NoRequest, RequestIsOfTheChat, Built

\* Writing changes nothing that was sent.
LEMMA WriteKeepsRequest ==
  ASSUME RequestIsOfTheChat, NEW shape \in Shapes, Write(shape)
  PROVE  RequestIsOfTheChat'
<1> DEFINE x == IF shape.text = "some" THEN [shape EXCEPT !.text = Len(messages) + 1] ELSE shape
           u == request.upTo
<1>1. messages' = Append(messages, x) /\ request' = request
  BY DEF Write
<1>2. messages \in Seq(ChatMessage) /\ u \in 0..Len(messages) /\ Len(messages) + 1 \in Nat
  BY DEF RequestIsOfTheChat
<1>3. x \in ChatMessage
  BY <1>2 DEF ChatMessage
<1> HIDE DEF x, u
<1>4. /\ Append(messages, x) \in Seq(ChatMessage) /\ Len(Append(messages, x)) = Len(messages) + 1
  BY <1>2, <1>3
<1>5. SubSeq(Append(messages, x), 1, u) = SubSeq(messages, 1, u)
  BY <1>2, <1>3, SentStays
<1>6. Sent' = Sent
  BY <1>1, <1>5 DEF Sent, u
<1>7. Built' = Built
  BY <1>1 DEF Built
<1>8. request.upTo \in 0..Len(messages')
  BY <1>1, <1>2, <1>4 DEF u
<1> QED
  BY <1>1, <1>4, <1>6, <1>7, <1>8 DEF RequestIsOfTheChat

\* A request is the translation of the chat it is sent with.
LEMMA SubmitTranslates ==
  ASSUME RequestIsOfTheChat, NEW tools \in BOOLEAN, Submit(tools)
  PROVE  RequestIsOfTheChat'
<1> DEFINE id == conversationIDFor(messages)
           s == Split(messages)
           found == Found(id, request)
           b == buildAgentRunRequest(messages, tools, found)
<1>1. messages \in Seq(ChatMessage) /\ Len(messages) \in Nat /\ messages' = messages
  BY DEF RequestIsOfTheChat, Submit
<1>2. CASE BuildFails(s.history)
  <2>1. request' = [NoRequest EXCEPT !.upTo = Len(messages), !.id = id, !.failed = TRUE]
    BY <1>2 DEF Submit
  <2>2. request'.upTo = Len(messages) /\ request'.failed = TRUE /\ request'.tools = FALSE
    BY <2>1 DEF NoRequest
  <2>3. ~Built'
    BY <2>2 DEF Built
  <2>4. Len(messages) \in 0..Len(messages)
    BY <1>1
  <2> HIDE DEF id, s, found, b
  <2> QED
    BY <1>1, <2>2, <2>3, <2>4 DEF RequestIsOfTheChat
<1>3. CASE ~BuildFails(s.history)
  <2>1. request' = [upTo |-> Len(messages), tools |-> tools, failed |-> FALSE, id |-> id,
                    action |-> b.action, msg |-> b.msg, turns |-> b.turns, prompt |-> b.prompt]
    BY <1>3 DEF Submit
  <2> HIDE DEF b
  <2>2. /\ request'.upTo = Len(messages) /\ request'.tools = tools
        /\ request'.action = b.action /\ request'.msg = b.msg
        /\ request'.turns = b.turns /\ request'.prompt = b.prompt
    BY <2>1
  <2>3. /\ b.action = s.kind /\ b.msg = s.msg
        /\ b.turns = buildHistoryTurnBlobIDs(s.history)
        /\ b.prompt = rootPrompt(s.history, tools)
    BY DEF b, buildAgentRunRequest, State
  <2>4. Sent' = messages
    <3>1. SubSeq(messages, 1, Len(messages)) = messages
      BY <1>1, SubSeqFull
    <3> QED
      BY <1>1, <2>2, <3>1 DEF Sent
  <2> QED
    BY <1>1, <2>2, <2>3, <2>4 DEF RequestIsOfTheChat
<1> QED
  BY <1>2, <1>3

\* Every step keeps the request the translation of what was sent.
LEMMA RequestStaysOfTheChat ==
  ASSUME RequestIsOfTheChat, [ChatNext]_(chatVars)
  PROVE  RequestIsOfTheChat'
<1>1. CASE UNCHANGED chatVars
  BY <1>1 DEF chatVars, RequestIsOfTheChat, Built, Sent
<1>2. CASE \E shape \in Shapes : Write(shape)
  BY <1>2, WriteKeepsRequest
<1>3. CASE \E tools \in BOOLEAN : Submit(tools)
  BY <1>3, SubmitTranslates
<1> QED
  BY <1>1, <1>2, <1>3 DEF ChatNext

\* For any shapes, any bound and any request: it is the translation of the
\* chat it was sent with.
THEOREM RequestOfTheChat == ChatSpec => []RequestIsOfTheChat
<1>1. ChatInit => RequestIsOfTheChat
  BY NothingSent
<1>2. RequestIsOfTheChat /\ [ChatNext]_(chatVars) => RequestIsOfTheChat'
  BY RequestStaysOfTheChat
<1> QED
  BY <1>1, <1>2, PTL DEF ChatSpec

\* What was sent is a chat, not an empty one once something was built.
LEMMA SentIsAChat ==
  ASSUME RequestIsOfTheChat, Built
  PROVE  Sent \in Seq(ChatMessage) /\ Sent # <<>>
<1> DEFINE u == request.upTo
           h == SubSeq(messages, 1, u)
<1>1. messages \in Seq(ChatMessage) /\ u \in 0..Len(messages) /\ u > 0
  BY DEF RequestIsOfTheChat, Built
<1> HIDE DEF u
<1>2. h \in Seq(ChatMessage) /\ Len(h) = u
  BY <1>1
<1>3. h # <<>>
  <2> HIDE DEF h
  <2> QED
    BY <1>1, <1>2
<1> QED
  BY <1>2, <1>3 DEF Sent, u

\* What it means for what the model reads.
LEMMA ReadsInvariant == RequestIsOfTheChat => ModelReadsTheChat
<1> SUFFICES ASSUME RequestIsOfTheChat, Built PROVE ModelReadsTheChat
  BY DEF ModelReadsTheChat
<1> DEFINE h == Sent
           tools == request.tools
           R == ReadOf(h, tools)
<1>1. h \in Seq(ChatMessage) /\ h # <<>> /\ tools \in BOOLEAN
  BY SentIsAChat DEF RequestIsOfTheChat
<1>2. Reads = R
  BY DEF RequestIsOfTheChat, Reads, ReadOf
<1>3. ReadsWhole(R, h, tools)
  <2> HIDE DEF h, tools
  <2> QED
    BY <1>1, ChatIsRead
<1> DEFINE theirs == {i \in DOMAIN h : h[i].role = "system" /\ h[i].text = Instruction}
<1>4. HasInstruction(h) <=> theirs # {}
  BY DEF HasInstruction
<1>5. ToSet(Reads) = {R[i] : i \in DOMAIN R}
  BY <1>2 DEF ToSet
<1> HIDE DEF R, h, tools, theirs
<1>6. /\ ToSet(R) \ {0} = {i \in DOMAIN h : InPrompt(h[i])}
      /\ \A i, j \in DOMAIN R : i < j /\ R[j] # 0 => R[i] < R[j]
      /\ Cardinality({i \in DOMAIN R : R[i] = 0})
           = (IF tools /\ theirs = {} THEN 1 ELSE 0)
  BY <1>2, <1>3, <1>4, <1>5 DEF ReadsWhole
<1> QED
  BY <1>2, <1>6 DEF ModelReadsTheChat, InstructionEntry, h, tools, theirs

\* The openers before a message, with a text or not.
OpenersUpTo(h, i) == {j \in 1..(i - 1) : OpensTurn(h[j])}

\* The nearest opener is the last of those before, when it is one at all.
LEMMA OpenerIsLast ==
  ASSUME NEW M, NEW h \in Seq(M), NEW i \in 1..Len(h), NEW o \in OpenersOf(h)
  PROVE  Opener(h, i) = o
           <=> (OpenersUpTo(h, i) # {} /\ Max(OpenersUpTo(h, i)) = o)
<1> DEFINE u == Opener(h, i)
           O == OpenersUpTo(h, i)
           m == Max(O)
<1>1. i \in Nat /\ i - 1 \in Nat /\ o \in Nat /\ o # 0
  BY DEF OpenersOf
<1>2. O \in SUBSET 0..(i - 1) /\ \A j \in O : j \in Nat /\ j # 0
  BY <1>1 DEF OpenersUpTo
<1>3. /\ u \in 0..(i - 1) /\ (u # 0 => OpensTurn(h[u]))
      /\ \A j \in 1..(i - 1) : OpensTurn(h[j]) => j <= u
  BY OpenerOf
<1> HIDE DEF u
<1>4. (u # 0 => u \in O) /\ \A j \in O : j <= u
  BY <1>1, <1>3 DEF OpenersUpTo
<1> HIDE DEF O
<1>5. O # {} => m \in O /\ \A j \in O : j <= m
  BY <1>1, <1>2, GreatestOf
<1> HIDE DEF m
<1>6. O # {} => u = m
  <2> SUFFICES ASSUME O # {} PROVE u = m
    OBVIOUS
  <2>1. m \in O /\ m \in Nat /\ m # 0 /\ m <= u
    BY <1>2, <1>4, <1>5
  <2>2. u \in Nat /\ u # 0
    BY <1>1, <1>3, <2>1
  <2>3. u <= m
    BY <1>4, <1>5, <2>2
  <2> QED
    BY <2>1, <2>2, <2>3
<1> QED
  BY <1>1, <1>4, <1>6 DEF u, m, O

\* How many steps of a message a turn has.
LEMMA StepsInTurn ==
  ASSUME NEW M, \A m \in M : IsMessage(m), NEW h \in Seq(M),
         NEW o \in OpenersOf(h), NEW F, TurnSteps(h, o, F), NEW i \in 1..Len(h)
  PROVE  Cardinality({s \in DOMAIN F : F[s].msg = i})
           = IF h[i].role \in {"assistant", "tool"} /\ Opener(h, i) = o
             THEN DueOf(h[i]) ELSE 0
<1> DEFINE Z == {s \in DOMAIN F : F[s].msg = i}
           S == StepsFor(h, i)
<1>1. Cardinality(Z) = IF Opener(h, i) = o THEN Len(S) ELSE 0
  BY DEF TurnSteps
<1>2. Len(S) = IF h[i].role \in {"assistant", "tool"} /\ InTurn(h, i) THEN DueOf(h[i]) ELSE 0
  BY StepsOfMessage
<1>3. o # 0 /\ OpenerHasText(h[o])
  BY DEF OpenersOf
<1>4. Opener(h, i) = o => InTurn(h, i)
  BY <1>3 DEF InTurn
<1> HIDE DEF Z, S
<1> QED
  BY <1>1, <1>2, <1>4 DEF Z

\* What the turns of a request were made from.
LEMMA TurnsOfRequest ==
  ASSUME RequestIsOfTheChat, Built
  PROVE  /\ HistorySent \in Seq(ChatMessage)
         /\ Len(HistorySent) \in Nat /\ Len(HistorySent) <= Len(Sent)
         /\ \A i \in 1..Len(HistorySent) : HistorySent[i] = Sent[i]
         /\ request.turns = buildHistoryTurnBlobIDs(HistorySent)
<1> DEFINE h == Sent
           s == Split(h)
<1>1. h \in Seq(ChatMessage) /\ h # <<>>
  BY SentIsAChat
<1>2. request.action = s.kind /\ request.turns = buildHistoryTurnBlobIDs(s.history)
  BY DEF RequestIsOfTheChat
<1>3. HistorySent = s.history
  BY <1>2 DEF HistorySent, Split
<1>4. /\ s.history \in Seq(ChatMessage) /\ Len(s.history) \in Nat /\ Len(s.history) <= Len(h)
      /\ \A i \in 1..Len(s.history) : s.history[i] = h[i]
  <2> HIDE DEF h
  <2> QED
    BY <1>1, SplitChat
<1> QED
  BY <1>2, <1>3, <1>4

\* What it means for the turns.
LEMMA TurnsInvariant ==
  ASSUME RequestIsOfTheChat
  PROVE  TurnsAreExchanges
<1> SUFFICES ASSUME Built PROVE TurnsAreExchanges
  BY DEF TurnsAreExchanges
<1> DEFINE h == HistorySent
           T == request.turns
<1>1. \A m \in ChatMessage : IsMessage(m)
  BY ChatMessagesAreMessages
<1>2. /\ h \in Seq(ChatMessage) /\ Len(h) \in Nat /\ DOMAIN h = 1..Len(h)
      /\ \A i \in 1..Len(h) : h[i] = Sent[i]
      /\ T = buildHistoryTurnBlobIDs(h)
  BY TurnsOfRequest
<1> HIDE DEF h, T
<1>3. TurnsOf(h, T)
  BY <1>1, <1>2, TurnsOfHistory
<1>4. {T[t].opener : t \in DOMAIN T}
        = {i \in DOMAIN h : OpensTurn(Sent[i]) /\ OpenerHasText(Sent[i])}
  <2>1. OpenersOf(h) = {i \in DOMAIN h : OpensTurn(Sent[i]) /\ OpenerHasText(Sent[i])}
    BY <1>2 DEF OpenersOf
  <2>2. {T[t].opener : t \in DOMAIN T} = OpenersOf(h)
    BY <1>3 DEF TurnsOf
  <2> QED
    BY <2>1, <2>2
<1>5. ASSUME NEW t \in DOMAIN T, NEW i \in DOMAIN h
      PROVE  Cardinality(StepsOf(t, i)) =
               IF /\ Sent[i].role \in {"assistant", "tool"}
                  /\ OpenersBefore(i) # {}
                  /\ Max(OpenersBefore(i)) = T[t].opener
                 THEN StepsDue(i) ELSE 0
  <2> DEFINE o == T[t].opener
             F == T[t].steps
             O == OpenersBefore(i)
  <2>1. o \in OpenersOf(h) /\ TurnSteps(h, o, F) /\ i \in 1..Len(h)
    BY <1>2, <1>3 DEF TurnsOf
  <2>2. O = OpenersUpTo(h, i)
    <3>1. \A j \in 1..(i - 1) : j \in 1..Len(h)
      BY <1>2
    <3> QED
      BY <1>2, <3>1 DEF OpenersBefore, OpenersUpTo
  <2>3. StepsOf(t, i) = {s \in DOMAIN F : F[s].msg = i}
    BY DEF StepsOf, T
  <2>4. StepsDue(i) = DueOf(h[i]) /\ Sent[i] = h[i]
    BY <1>2, <2>1 DEF StepsDue, DueOf
  <2> HIDE DEF o, F, O
  <2>5. Opener(h, i) = o <=> (O # {} /\ Max(O) = o)
    <3>1. h \in Seq(ChatMessage) /\ i \in 1..Len(h) /\ o \in OpenersOf(h)
      BY <1>2, <2>1
    <3> QED
      BY <2>2, <3>1, OpenerIsLast
  <2>6. Cardinality({s \in DOMAIN F : F[s].msg = i})
           = IF h[i].role \in {"assistant", "tool"} /\ Opener(h, i) = o
             THEN DueOf(h[i]) ELSE 0
    BY <1>1, <1>2, <2>1, StepsInTurn
  <2> QED
    BY <2>3, <2>4, <2>5, <2>6 DEF o, O
<1>6. ASSUME NEW t \in DOMAIN T, NEW s \in DOMAIN T[t].steps, NEW u \in DOMAIN T[t].steps, s < u
      PROVE  T[t].steps[s].msg <= T[t].steps[u].msg
  BY <1>3, <1>6 DEF TurnsOf, TurnSteps
<1> QED
  BY <1>4, <1>5, <1>6 DEF TurnsAreExchanges, h, T

\* What it means for the results.
LEMMA ResultsInvariant ==
  ASSUME RequestIsOfTheChat
  PROVE  ResultFollowsItsCall
<1> SUFFICES ASSUME Built, NEW p \in StepPlaces, StepAt(p).kind = "result"
             PROVE  LET c == StepAt(p).call IN
                    /\ Sent[c[1]].calls[c[2]].id = Sent[StepAt(p).msg].answers
                    /\ \E q \in StepPlaces :
                         /\ Before(q, p) /\ StepAt(q).kind = "call"
                         /\ StepAt(q).call = c
                    /\ \A q \in StepPlaces \ {p} :
                         StepAt(q).kind = "result" => StepAt(q).call # c
  BY DEF ResultFollowsItsCall
<1> DEFINE h == HistorySent
           T == request.turns
           c == StepAt(p).call
           i == StepAt(p).msg
<1>1. \A m \in ChatMessage : IsMessage(m)
  BY ChatMessagesAreMessages
<1>2. /\ h \in Seq(ChatMessage) /\ Len(h) \in Nat /\ DOMAIN h = 1..Len(h)
      /\ \A k \in 1..Len(h) : h[k] = Sent[k]
      /\ T = buildHistoryTurnBlobIDs(h)
  BY TurnsOfRequest
<1> HIDE DEF h
<1>3. TurnsOf(h, T)
  <2> HIDE DEF T
  <2> QED
    BY <1>1, <1>2, TurnsOfHistory
<1>4. ASSUME NEW q
      PROVE  q \in StepPlaces <=>
               \E t \in DOMAIN T : \E s \in DOMAIN T[t].steps : q = <<t, s>>
  BY DEF StepPlaces
<1>5. ASSUME NEW t, NEW s PROVE StepAt(<<t, s>>) = T[t].steps[s]
  BY DEF StepAt
<1> HIDE DEF T, c, i
<1>6. PICK t \in DOMAIN T : \E s \in DOMAIN T[t].steps : p = <<t, s>>
  BY <1>4
<1>7. PICK s \in DOMAIN T[t].steps : p = <<t, s>>
  BY <1>6
<1>8. T[t].steps[s].kind = "result" /\ T[t].steps[s].call = c /\ T[t].steps[s].msg = i
  BY <1>5, <1>7 DEF c, i
<1>9. /\ i \in 1..Len(h) /\ c[1] \in 1..(i - 1)
      /\ h[c[1]].calls[c[2]].id = h[i].answers
      /\ \E u \in DOMAIN T : \E v \in DOMAIN T[u].steps :
           /\ u < t \/ (u = t /\ v < s)
           /\ T[u].steps[v].kind = "call" /\ T[u].steps[v].call = c
  <2>1. h \in Seq(ChatMessage) /\ T[t].steps[s].kind = "result" /\ t \in DOMAIN T /\ s \in DOMAIN T[t].steps
    BY <1>2, <1>8
  <2>2. CallComesFirst(h, T, t, s)
    BY <1>1, <1>3, <2>1, CallIsRecorded
  <2> QED
    BY <1>8, <2>2 DEF CallComesFirst
<1>10. Sent[c[1]].calls[c[2]].id = Sent[i].answers
  <2>1. c[1] \in 1..Len(h)
    BY <1>2, <1>9
  <2> QED
    BY <1>2, <1>9, <2>1
<1>11. \E q \in StepPlaces :
         /\ Before(q, p) /\ StepAt(q).kind = "call"
         /\ StepAt(q).call = c
  <2>1. PICK u \in DOMAIN T : \E v \in DOMAIN T[u].steps :
           /\ u < t \/ (u = t /\ v < s)
           /\ T[u].steps[v].kind = "call" /\ T[u].steps[v].call = c
    BY <1>9
  <2>2. PICK v \in DOMAIN T[u].steps :
           /\ u < t \/ (u = t /\ v < s)
           /\ T[u].steps[v].kind = "call" /\ T[u].steps[v].call = c
    BY <2>1
  <2>3. <<u, v>> \in StepPlaces
    BY <1>4
  <2>4. Before(<<u, v>>, p)
    BY <1>7, <2>2 DEF Before
  <2> QED
    BY <1>5, <2>2, <2>3, <2>4
<1>12. ASSUME NEW q \in StepPlaces, StepAt(q).kind = "result",
              StepAt(q).call = c
       PROVE  q = p
  <2>1. PICK u \in DOMAIN T : \E v \in DOMAIN T[u].steps : q = <<u, v>>
    BY <1>4
  <2>2. PICK v \in DOMAIN T[u].steps : q = <<u, v>>
    BY <2>1
  <2>3. T[u].steps[v].kind = "result" /\ T[u].steps[v].call = T[t].steps[s].call
    BY <1>5, <1>8, <1>12, <2>2
  <2>4. u = t /\ v = s
    BY <1>1, <1>2, <1>3, <1>8, <2>3, ResultsAreAlone
  <2> QED
    BY <1>7, <2>2, <2>4
<1> QED
  BY <1>10, <1>11, <1>12 DEF c, i

\* For any chat, whatever its messages are made of: the model reads each that
\* has a text once and in order, and with tools is told about them once
\* (buildAgentRunRequest, with buildRootPromptMessageBlobIDs).
THEOREM ChatIsReadOnce == ChatSpec => []ModelReadsTheChat
BY RequestOfTheChat, ReadsInvariant, PTL

\* For any chat of messages: its turns are those of its openers with text, and
\* each has the steps of the replies and results that follow, all of them and
\* in order (buildHistoryTurnBlobIDs).
THEOREM TurnsAreThoseOfTheChat == ChatSpec => []TurnsAreExchanges
<1>1. RequestIsOfTheChat => TurnsAreExchanges
  BY TurnsInvariant
<1> QED
  BY <1>1, RequestOfTheChat, PTL

\* For any chat of messages: a result is put to a call of its id, recorded
\* before it, and no other result is (pendingToolCallsByID).
THEOREM ResultsFollowTheirCalls == ChatSpec => []ResultFollowsItsCall
<1>1. RequestIsOfTheChat => ResultFollowsItsCall
  BY ResultsInvariant
<1> QED
  BY <1>1, RequestOfTheChat, PTL
=============================================================================
