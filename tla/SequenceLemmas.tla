---------------------------- MODULE SequenceLemmas ----------------------------
(***************************************************************************)
(* Facts about natural numbers, recursive functions and the helpers for    *)
(* sequences that the components' proofs share.                            *)
(***************************************************************************)
EXTENDS Vectors, WellFoundedInduction, TLAPS

\* A non-empty set of natural numbers has a least element.
LEMMA NatMin ==
  ASSUME NEW T, T \subseteq Nat, T # {}
  PROVE  \E x \in T : \A y \in T : x <= y
<1> DEFINE R == OpToRel(<, Nat)
<1>1. IsWellFoundedOn(R, Nat)
  BY NatLessThanWellFounded
<1>2. R = {ss \in Nat \X Nat : ss[1] < ss[2]}
  BY Zenon DEF OpToRel
<1> HIDE DEF R
<1>3. PICK x \in T : \A y \in T : ~(<<y, x>> \in R)
  BY <1>1, WFMin
<1>4. ASSUME NEW y \in T PROVE x <= y
  <2>1. x \in Nat /\ y \in Nat
    OBVIOUS
  <2>2. <<y, x>> \in Nat \X Nat /\ <<y, x>>[1] = y /\ <<y, x>>[2] = x
    BY <2>1
  <2>3. ~(y < x)
    BY <1>2, <1>3, <2>2
  <2>4. QED
    BY <2>1, <2>3
<1>5. QED
  BY <1>4

\* Min of FiniteSetsExt is that element.
LEMMA MinOfNats ==
  ASSUME NEW T, T \subseteq Nat, T # {}
  PROVE  Min(T) \in T /\ \A y \in T : Min(T) <= y
<1>1. \E x \in T : \A y \in T : x <= y
  BY NatMin
<1>2. QED
  BY <1>1 DEF Min

\* A non-empty set of natural numbers with an upper bound has a greatest one.
LEMMA MaxOfNats ==
  ASSUME NEW n \in Nat, NEW T, T \subseteq 0 .. n, T # {}
  PROVE  Max(T) \in T /\ \A y \in T : Max(T) >= y
<1> DEFINE D == {n - x : x \in T}
<1>1. D \subseteq Nat /\ D # {}
  <2>1. \A x \in T : n - x \in Nat
    OBVIOUS
  <2>2. QED
    BY <2>1
<1>2. PICK d \in D : \A y \in D : d <= y
  <2> HIDE DEF D
  <2>1. QED
    BY <1>1, NatMin
<1>3. PICK x \in T : d = n - x
  OBVIOUS
<1>4. \A y \in T : x >= y
  <2> TAKE y \in T
  <2>1. n - y \in D
    OBVIOUS
  <2>2. n - x <= n - y
    BY <1>2, <1>3, <2>1
  <2>3. QED
    BY <2>2
<1>5. QED
  BY <1>4 DEF Max

\* Induction up to n, for the set S of the numbers that have the property.
LEMMA UpTo ==
  ASSUME NEW n \in Nat, NEW S, 0 \in S, \A i \in 1 .. n : i - 1 \in S => i \in S
  PROVE  \A i \in 0 .. n : i \in S
<1> DEFINE Bad == {i \in 0 .. n : i \notin S}
<1>1. SUFFICES ASSUME Bad # {} PROVE FALSE
  OBVIOUS
<1>2. Bad \subseteq Nat
  OBVIOUS
<1>3. PICK m \in Bad : \A i \in Bad : m <= i
  <2> HIDE DEF Bad
  <2>1. QED
    BY <1>1, <1>2, NatMin
<1>4. m \in 1 .. n /\ m - 1 \in 0 .. n
  OBVIOUS
<1>5. m - 1 \notin Bad
  BY <1>3, <1>4
<1>6. QED
  BY <1>4, <1>5

\* f is defined on 0 .. n by recursion, with values in T.
IsRecursion(f, n, T, b, step) ==
  /\ f \in [0 .. n -> T]
  /\ f[0] = b
  /\ \A i \in 1 .. n : f[i] = step[i][f[i - 1]]

\* Such a function exists if every step stays within T.
LEMMA RecursiveFunction ==
  ASSUME NEW n \in Nat, NEW T, NEW b \in T, NEW step \in [1 .. n -> [T -> T]]
  PROVE  \E f : IsRecursion(f, n, T, b, step)
<1> DEFINE S == {m \in 0 .. n : \E f : IsRecursion(f, m, T, b, step)}
<1>1. 0 \in S
  <2>1. IsRecursion([i \in 0 .. 0 |-> b], 0, T, b, step)
    <3>1. [i \in 0 .. 0 |-> b] \in [0 .. 0 -> T] /\ [i \in 0 .. 0 |-> b][0] = b /\ 1 .. 0 = {}
      OBVIOUS
    <3>2. QED
      BY <3>1 DEF IsRecursion
  <2>2. QED
    BY <2>1
<1>2. ASSUME NEW m \in 1 .. n, m - 1 \in S PROVE m \in S
  <2>0. PICK f : IsRecursion(f, m - 1, T, b, step)
    BY <1>2
  <2>1. f \in [0 .. (m - 1) -> T] /\ f[0] = b /\ \A i \in 1 .. (m - 1) : f[i] = step[i][f[i - 1]]
    BY <2>0 DEF IsRecursion
  <2>2. m - 1 \in 0 .. (m - 1) /\ f[m - 1] \in T
    BY <2>1
  <2>3. step[m][f[m - 1]] \in T
    BY <2>2
  <2> DEFINE h == [i \in 0 .. m |-> IF i < m THEN f[i] ELSE step[m][f[m - 1]]]
  <2>4. h \in [0 .. m -> T]
    BY <2>1, <2>3
  <2>5. ASSUME NEW i \in 1 .. m PROVE h[i] = step[i][h[i - 1]]
    <3>1. h[i - 1] = f[i - 1]
      OBVIOUS
    <3>2. CASE i < m
      <4>1. i \in 1 .. (m - 1) /\ h[i] = f[i]
        BY <3>2
      <4>2. f[i] = step[i][f[i - 1]]
        BY <2>1, <4>1
      <4>3. QED
        BY <3>1, <4>1, <4>2
    <3>3. CASE i = m
      <4>1. h[m] = step[m][f[m - 1]]
        OBVIOUS
      <4> HIDE DEF h
      <4>2. QED
        BY <3>1, <3>3, <4>1
    <3>4. QED
      BY <3>2, <3>3
  <2>6. h[0] = b
    BY <2>1
  <2>7. m \in 0 .. n
    OBVIOUS
  <2> HIDE DEF h
  <2>8. IsRecursion(h, m, T, b, step)
    BY <2>4, <2>5, <2>6 DEF IsRecursion
  <2>9. QED
    BY <2>7, <2>8
<1>3. \A m \in 0 .. n : m \in S
  <2> HIDE DEF S
  <2>1. QED
    BY <1>1, <1>2, UpTo
<1>4. n \in S
  BY <1>3
<1>5. QED
  BY <1>4

-------------------------------------------------------------------------------
\* Append puts one more item at the end of a sequence.
LEMMA AppendFacts ==
  ASSUME NEW S, NEW s \in Seq(S), NEW e \in S
  PROVE  /\ Append(s, e) \in Seq(S)
         /\ Len(Append(s, e)) = Len(s) + 1
         /\ Range(Append(s, e)) = Range(s) \cup {e}
         /\ IsInjective(s) /\ e \notin Range(s) => IsInjective(Append(s, e))
<1> DEFINE t == Append(s, e)
<1>1. t \in Seq(S) /\ Len(t) = Len(s) + 1 /\ Len(s) \in Nat
  OBVIOUS
<1>2. \A i \in 1 .. Len(s) : t[i] = s[i]
  OBVIOUS
<1>3. t[Len(s) + 1] = e
  OBVIOUS
<1> HIDE DEF t
<1>4. DOMAIN t = 1 .. Len(s) + 1 /\ DOMAIN s = 1 .. Len(s)
  BY <1>1
<1>5. \A i \in 1 .. Len(s) + 1 : i \in 1 .. Len(s) \/ i = Len(s) + 1
  BY <1>1
<1>6. (1 .. Len(s)) \subseteq 1 .. Len(s) + 1 /\ Len(s) + 1 \in 1 .. Len(s) + 1
  BY <1>1
<1>7. Range(t) = Range(s) \cup {e}
  BY <1>2, <1>3, <1>4, <1>5, <1>6 DEF Range
<1>8. ASSUME IsInjective(s), e \notin Range(s) PROVE IsInjective(t)
  <2>1. \A i, j \in 1 .. Len(s) : s[i] = s[j] => i = j
    BY <1>4, <1>8 DEF IsInjective
  <2>2. \A i \in 1 .. Len(s) : s[i] # e
    BY <1>4, <1>8 DEF Range
  <2>3. SUFFICES ASSUME NEW i \in 1 .. Len(s) + 1, NEW j \in 1 .. Len(s) + 1, t[i] = t[j]
                 PROVE  i = j
    BY <1>4 DEF IsInjective
  <2>4. QED
    BY <1>2, <1>3, <1>5, <2>1, <2>2, <2>3
<1>9. QED
  BY <1>1, <1>7, <1>8 DEF t

\* InsertAt puts one more item into a sequence.
LEMMA InsertAtFacts ==
  ASSUME NEW S, NEW s \in Seq(S), NEW p \in 1 .. Len(s) + 1, NEW e \in S
  PROVE  /\ InsertAt(s, p, e) \in Seq(S)
         /\ Len(InsertAt(s, p, e)) = Len(s) + 1
         /\ \A i \in 1 .. Len(s) + 1 :
              InsertAt(s, p, e)[i] = IF i < p THEN s[i] ELSE IF i = p THEN e ELSE s[i - 1]
         /\ Range(InsertAt(s, p, e)) = Range(s) \cup {e}
         /\ IsInjective(s) /\ e \notin Range(s) => IsInjective(InsertAt(s, p, e))
<1> DEFINE A == SubSeq(s, 1, p - 1)
           B == SubSeq(s, p, Len(s))
           t == A \o <<e>> \o B
<1>0. InsertAt(s, p, e) = t
  BY DEF InsertAt
<1>1. /\ A \in Seq(S) /\ Len(A) = p - 1
      /\ B \in Seq(S) /\ Len(B) = Len(s) - p + 1
      /\ \A i \in 1 .. p - 1 : A[i] = s[i]
      /\ \A i \in 1 .. Len(s) - p + 1 : B[i] = s[p + i - 1]
  OBVIOUS
<1> HIDE DEF A, B
<1>2. t \in Seq(S) /\ Len(t) = Len(s) + 1
  BY <1>1
<1>3. \A i \in 1 .. Len(t) : t[i] = IF i < p THEN s[i] ELSE IF i = p THEN e ELSE s[i - 1]
  <2> DEFINE u == A \o <<e>>
  <2>1. u \in Seq(S) /\ Len(u) = p /\ \A i \in 1 .. p : u[i] = IF i < p THEN s[i] ELSE e
    BY <1>1
  <2> HIDE DEF u
  <2>2. \A i \in 1 .. Len(t) : t[i] = IF i <= p THEN u[i] ELSE B[i - p]
    BY <1>1, <1>2, <2>1 DEF u
  <2>3. \A i \in 1 .. Len(t) : i > p => B[i - p] = s[i - 1]
    BY <1>1, <1>2
  <2>4. QED
    BY <1>2, <2>1, <2>2, <2>3
<1> HIDE DEF t
<1>4. DOMAIN t = 1 .. Len(t) /\ DOMAIN s = 1 .. Len(s)
  BY <1>2
<1>5. Range(t) = Range(s) \cup {e}
  <2>1. ASSUME NEW i \in 1 .. Len(t) PROVE t[i] \in Range(s) \cup {e}
    <3>1. t[i] = e \/ (i \in 1 .. Len(s) /\ t[i] = s[i]) \/ (i - 1 \in 1 .. Len(s) /\ t[i] = s[i - 1])
      BY <1>2, <1>3
    <3>2. QED
      BY <1>4, <3>1 DEF Range
  <2>2. e \in Range(t)
    <3>1. p \in 1 .. Len(t) /\ t[p] = e
      BY <1>2, <1>3
    <3>2. QED
      BY <1>4, <3>1 DEF Range
  <2>3. ASSUME NEW i \in 1 .. Len(s) PROVE s[i] \in Range(t)
    <3>1. CASE i < p
      <4>1. i \in 1 .. Len(t) /\ t[i] = s[i]
        BY <1>2, <1>3, <3>1
      <4>2. QED
        BY <1>4, <4>1 DEF Range
    <3>2. CASE i >= p
      <4>1. i + 1 \in 1 .. Len(t) /\ t[i + 1] = s[i]
        BY <1>2, <1>3, <3>2
      <4>2. QED
        BY <1>4, <4>1 DEF Range
    <3>3. QED
      BY <3>1, <3>2
  <2>4. QED
    BY <1>4, <2>1, <2>2, <2>3 DEF Range
<1>6. ASSUME IsInjective(s), e \notin Range(s) PROVE IsInjective(t)
  <2>1. \A i, j \in 1 .. Len(s) : s[i] = s[j] => i = j
    BY <1>4, <1>6 DEF IsInjective
  <2>2. \A i \in 1 .. Len(s) : s[i] # e
    BY <1>4, <1>6 DEF Range
  <2>3. SUFFICES ASSUME NEW i \in 1 .. Len(t), NEW j \in 1 .. Len(t), t[i] = t[j] PROVE i = j
    BY <1>4 DEF IsInjective
  <2>4. ASSUME NEW k \in 1 .. Len(t)
        PROVE  \/ k = p /\ t[k] = e
               \/ k < p /\ k \in 1 .. Len(s) /\ t[k] = s[k]
               \/ k > p /\ k - 1 \in 1 .. Len(s) /\ t[k] = s[k - 1]
    BY <1>2, <1>3
  <2>5. Len(s) \in Nat /\ p \in Nat /\ i \in Nat /\ j \in Nat
    OBVIOUS
  <2>6. CASE t[i] = e
    BY <2>2, <2>3, <2>4, <2>6
  <2>7. CASE t[i] # e
    <3>1. \/ i < p /\ i \in 1 .. Len(s) /\ t[i] = s[i]
          \/ i > p /\ i - 1 \in 1 .. Len(s) /\ t[i] = s[i - 1]
      BY <2>4, <2>7
    <3>2. \/ j < p /\ j \in 1 .. Len(s) /\ t[j] = s[j]
          \/ j > p /\ j - 1 \in 1 .. Len(s) /\ t[j] = s[j - 1]
      BY <2>3, <2>4, <2>7
    <3>3. QED
      BY <2>1, <2>3, <2>5, <3>1, <3>2
  <2>8. QED
    BY <2>6, <2>7
<1>7. QED
  BY <1>0, <1>2, <1>3, <1>5, <1>6

\* RemoveFirst takes out at most one item, and from a sequence without
\* duplicates exactly the one asked for.
LEMMA RemoveFirstFacts ==
  ASSUME NEW S, NEW s \in Seq(S), NEW e
  PROVE  /\ RemoveFirst(s, e) \in Seq(S)
         /\ Range(RemoveFirst(s, e)) \subseteq Range(s)
         /\ Len(RemoveFirst(s, e)) <= Len(s)
         /\ e \notin Range(s) => RemoveFirst(s, e) = s
         /\ IsInjective(s) => /\ IsInjective(RemoveFirst(s, e))
                              /\ Range(RemoveFirst(s, e)) = Range(s) \ {e}
<1>1. CASE ~\E i \in 1 .. Len(s) : s[i] = e
  <2>1. RemoveFirst(s, e) = s
    BY <1>1 DEF RemoveFirst
  <2>2. e \notin Range(s)
    BY <1>1 DEF Range
  <2>3. QED
    BY <2>1, <2>2
<1>2. CASE \E i \in 1 .. Len(s) : s[i] = e
  <2> DEFINE I == {i \in 1 .. Len(s) : s[i] = e}
             p == Min(I)
             A == SubSeq(s, 1, p - 1)
             B == SubSeq(s, p + 1, Len(s))
             t == A \o B
  <2>1. RemoveFirst(s, e) = t
    BY <1>2 DEF RemoveFirst, RemoveAt, SelectInSeq
  <2>2. p \in I
    <3>1. I \subseteq Nat /\ I # {}
      BY <1>2
    <3> HIDE DEF I
    <3>2. QED
      BY <3>1, MinOfNats
  <2>3. p \in 1 .. Len(s) /\ s[p] = e
    BY <2>2
  <2> HIDE DEF I, p
  <2>4. /\ A \in Seq(S) /\ Len(A) = p - 1
        /\ B \in Seq(S) /\ Len(B) = Len(s) - p
        /\ \A i \in 1 .. p - 1 : A[i] = s[i]
        /\ \A i \in 1 .. Len(s) - p : B[i] = s[p + i]
    BY <2>3
  <2> HIDE DEF A, B
  <2>5. t \in Seq(S) /\ Len(t) = Len(s) - 1
    <3>1. t \in Seq(S) /\ Len(t) = Len(A) + Len(B)
      BY <2>4
    <3>2. Len(s) \in Nat
      OBVIOUS
    <3>3. QED
      BY <2>3, <2>4, <3>1, <3>2
  <2>6. \A i \in 1 .. Len(t) : t[i] = IF i < p THEN s[i] ELSE s[i + 1]
    <3>1. \A i \in 1 .. Len(t) : t[i] = IF i < p THEN A[i] ELSE B[i - p + 1]
      BY <2>3, <2>4, <2>5
    <3>2. \A i \in 1 .. Len(t) : i >= p => i - p + 1 \in 1 .. Len(s) - p
      BY <2>3, <2>5
    <3>3. \A i \in 1 .. Len(t) : i >= p => B[i - p + 1] = s[i + 1]
      BY <2>3, <2>4, <3>2
    <3>4. QED
      BY <2>3, <2>4, <2>5, <3>1, <3>3
  <2> HIDE DEF t
  <2>7. DOMAIN t = 1 .. Len(t) /\ DOMAIN s = 1 .. Len(s)
    BY <2>5
  <2>8. Range(t) \subseteq Range(s) /\ e \in Range(s)
    BY <2>3, <2>5, <2>6, <2>7 DEF Range
  <2>9. ASSUME IsInjective(s)
        PROVE  IsInjective(t) /\ Range(t) = Range(s) \ {e}
    <3>1. \A i, j \in 1 .. Len(s) : s[i] = s[j] => i = j
      BY <2>7, <2>9 DEF IsInjective
    <3>2. IsInjective(t)
      <4>1. SUFFICES ASSUME NEW i \in 1 .. Len(t), NEW j \in 1 .. Len(t), t[i] = t[j] PROVE i = j
        BY <2>7 DEF IsInjective
      <4>2. QED
        BY <2>3, <2>5, <2>6, <3>1, <4>1
    <3>3. \A i \in 1 .. Len(t) : t[i] # e
      BY <2>3, <2>5, <2>6, <3>1
    <3>4. ASSUME NEW i \in 1 .. Len(s), s[i] # e PROVE s[i] \in Range(t)
      <4>1. CASE i < p
        <5>1. i \in 1 .. Len(t) /\ t[i] = s[i]
          BY <2>3, <2>5, <2>6, <4>1
        <5>2. QED
          BY <2>7, <5>1 DEF Range
      <4>2. CASE i >= p
        <5>1. i - 1 \in 1 .. Len(t) /\ t[i - 1] = s[i]
          BY <2>3, <2>5, <2>6, <3>4, <4>2
        <5>2. QED
          BY <2>7, <5>1 DEF Range
      <4>3. QED
        BY <2>3, <4>1, <4>2
    <3>5. QED
      BY <2>7, <2>8, <3>2, <3>3, <3>4 DEF Range
  <2>10. QED
    BY <2>1, <2>5, <2>8, <2>9
<1>3. QED
  BY <1>1, <1>2

\* CopyIf takes the items one after the other.
LEMMA CopyIfSteps ==
  ASSUME NEW S, NEW s \in Seq(S), NEW K
  PROVE  \E F : /\ CopyIf(s, K) = F[Len(s)]
                /\ F[0] = <<>>
                /\ \A i \in 1 .. Len(s) :
                     F[i] = IF s[i] \in K THEN Append(F[i - 1], s[i]) ELSE F[i - 1]
<1> DEFINE n == Len(s)
           T == Seq(S)
           step == [i \in 1 .. n |-> [t \in T |-> IF s[i] \in K THEN Append(t, s[i]) ELSE t]]
           eq(f) == [i \in 0 .. n |-> IF i = 0 THEN <<>>
                                      ELSE IF s[i] \in K THEN Append(f[i - 1], s[i]) ELSE f[i - 1]]
           F == CHOOSE f : f = eq(f)
<1>1. CopyIf(s, K) = F[n]
  BY DEF CopyIf
<1>2. n \in Nat /\ <<>> \in T /\ \A i \in 1 .. n : s[i] \in S
  OBVIOUS
<1>3. step \in [1 .. n -> [T -> T]]
  BY <1>2
<1>4. \A i \in 1 .. n, t \in T : step[i][t] = IF s[i] \in K THEN Append(t, s[i]) ELSE t
  OBVIOUS
<1> HIDE DEF n, T, step
<1>5. F = eq(F)
  <2>1. PICK f : IsRecursion(f, n, T, <<>>, step)
    BY <1>2, <1>3, RecursiveFunction
  <2>2. f \in [0 .. n -> T] /\ f[0] = <<>> /\ \A i \in 1 .. n : f[i] = step[i][f[i - 1]]
    BY <2>1 DEF IsRecursion
  <2>3. \A i \in 1 .. n : i - 1 \in 0 .. n /\ f[i - 1] \in T
    BY <1>2, <2>2
  <2>4. \A i \in 1 .. n : f[i] = IF s[i] \in K THEN Append(f[i - 1], s[i]) ELSE f[i - 1]
    BY <1>4, <2>2, <2>3
  <2>5. \A i \in 0 .. n : f[i] = IF i = 0 THEN <<>>
                                 ELSE IF s[i] \in K THEN Append(f[i - 1], s[i]) ELSE f[i - 1]
    <3>1. \A i \in 0 .. n : i = 0 \/ (i # 0 /\ i \in 1 .. n)
      BY <1>2
    <3>2. QED
      BY <2>2, <2>4, <3>1
  <2>6. f = eq(f)
    BY <2>2, <2>5
  <2>7. QED
    BY <2>6
<1> HIDE DEF F
<1>6. F[0] = <<>>
  BY <1>2, <1>5
<1>7. \A i \in 1 .. n : F[i] = IF s[i] \in K THEN Append(F[i - 1], s[i]) ELSE F[i - 1]
  <2>1. \A i \in 1 .. n : i \in 0 .. n /\ i # 0
    BY <1>2
  <2>2. \A i \in 0 .. n : F[i] = eq(F)[i]
    BY <1>5
  <2>3. QED
    BY <2>1, <2>2
<1>8. QED
  BY <1>1, <1>6, <1>7 DEF n

\* vector_copy_if keeps the items that pass, once each if they were.
LEMMA CopyIfFacts ==
  ASSUME NEW S, NEW s \in Seq(S), NEW K
  PROVE  /\ CopyIf(s, K) \in Seq(S)
         /\ Range(CopyIf(s, K)) = Range(s) \cap K
         /\ Len(CopyIf(s, K)) <= Len(s)
         /\ IsInjective(s) => IsInjective(CopyIf(s, K))
<1> DEFINE n == Len(s)
           T == Seq(S)
<1>2. n \in Nat /\ <<>> \in T /\ \A i \in 1 .. n : s[i] \in S
  OBVIOUS
<1>3. PICK F : /\ CopyIf(s, K) = F[n]
               /\ F[0] = <<>>
               /\ \A i \in 1 .. n : F[i] = IF s[i] \in K THEN Append(F[i - 1], s[i]) ELSE F[i - 1]
  BY CopyIfSteps
<1>1. CopyIf(s, K) = F[n]
  BY <1>3
<1> HIDE DEF n, T
<1>6. F[0] = <<>>
  BY <1>3
<1>7. \A i \in 1 .. n : F[i] = IF s[i] \in K THEN Append(F[i - 1], s[i]) ELSE F[i - 1]
  BY <1>3
<1> DEFINE G == {i \in 0 .. n : /\ F[i] \in T
                                /\ Range(F[i]) = {s[j] : j \in 1 .. i} \cap K
                                /\ Len(F[i]) <= i
                                /\ IsInjective(s) => IsInjective(F[i])}
<1>8. 0 \in G
  <2>1. Range(<<>>) = {} /\ IsInjective(<<>>) /\ Len(<<>>) = 0 /\ 1 .. 0 = {} /\ 0 \in 0 .. n
    BY <1>2 DEF Range, IsInjective
  <2>2. QED
    BY <1>2, <1>6, <2>1
<1>9. ASSUME NEW i \in 1 .. n, i - 1 \in G PROVE i \in G
  <2>1. /\ F[i - 1] \in T /\ Range(F[i - 1]) = {s[j] : j \in 1 .. (i - 1)} \cap K
        /\ Len(F[i - 1]) <= i - 1 /\ Len(F[i - 1]) \in Nat
        /\ IsInjective(s) => IsInjective(F[i - 1])
    BY <1>9 DEF T
  <2>2. {s[j] : j \in 1 .. i} = {s[j] : j \in 1 .. (i - 1)} \cup {s[i]}
    OBVIOUS
  <2>3. IsInjective(s) => s[i] \notin {s[j] : j \in 1 .. (i - 1)}
    BY <1>2 DEF IsInjective, n
  <2>4. CASE s[i] \in K
    <3>1. F[i] = Append(F[i - 1], s[i])
      BY <1>7, <2>4
    <3>2. /\ F[i] \in T /\ Len(F[i]) = Len(F[i - 1]) + 1
          /\ Range(F[i]) = Range(F[i - 1]) \cup {s[i]}
          /\ IsInjective(F[i - 1]) /\ s[i] \notin Range(F[i - 1]) => IsInjective(F[i])
      BY <1>2, <2>1, <3>1, AppendFacts DEF T
    <3>3. Range(F[i]) = {s[j] : j \in 1 .. i} \cap K
      BY <2>1, <2>2, <2>4, <3>2
    <3>4. Len(F[i]) <= i
      BY <2>1, <3>2
    <3>5. QED
      BY <2>1, <2>3, <3>2, <3>3, <3>4
  <2>5. CASE s[i] \notin K
    <3>1. F[i] = F[i - 1]
      BY <1>7, <2>5
    <3>2. Len(F[i]) <= i
      BY <2>1, <3>1
    <3>3. QED
      BY <2>1, <2>2, <2>5, <3>1, <3>2
  <2>6. QED
    BY <2>4, <2>5
<1>10. \A i \in 0 .. n : i \in G
  <2> HIDE DEF G
  <2>1. QED
    BY <1>2, <1>8, <1>9, UpTo
<1>11. n \in G
  <2> HIDE DEF G
  <2>1. QED
    BY <1>2, <1>10
<1>12. Range(s) = {s[j] : j \in 1 .. n}
  BY DEF Range, n
<1>13. QED
  BY <1>1, <1>11, <1>12 DEF n, T

\* t holds the first m sequences side by side, the b-th behind off[b] items.
SideBySide(t, ss, off, m) ==
  /\ \A b \in 1 .. m : \A j \in 1 .. Len(ss[b]) : off[b] + j \in 1 .. Len(t) /\ t[off[b] + j] = ss[b][j]
  /\ \A k \in 1 .. Len(t) : \E b \in 1 .. m : \E j \in 1 .. Len(ss[b]) : k = off[b] + j

LEMMA SideBySideStep ==
  ASSUME NEW S, NEW ss, NEW m \in Nat \ {0}, NEW off, NEW t \in Seq(S),
         ss[m] \in Seq(S), off[m] = Len(t), SideBySide(t, ss, off, m - 1),
         \A b \in 1 .. m : off[b] \in Nat
  PROVE  SideBySide(t \o ss[m], ss, off, m)
<1> DEFINE u == t \o ss[m]
<1>1. /\ u \in Seq(S) /\ Len(u) = Len(t) + Len(ss[m]) /\ Len(t) \in Nat /\ Len(ss[m]) \in Nat
      /\ \A k \in 1 .. Len(t) : u[k] = t[k]
      /\ \A j \in 1 .. Len(ss[m]) : u[Len(t) + j] = ss[m][j]
  OBVIOUS
<1> HIDE DEF u
<1>2. ASSUME NEW b \in 1 .. m, NEW j \in 1 .. Len(ss[b])
      PROVE  off[b] + j \in 1 .. Len(u) /\ u[off[b] + j] = ss[b][j]
  <2>1. CASE b = m
    <3>1. off[b] = Len(t) /\ ss[b] = ss[m] /\ j \in 1 .. Len(ss[m])
      BY <1>2, <2>1
    <3>2. Len(t) + j \in 1 .. Len(u) /\ u[Len(t) + j] = ss[m][j]
      BY <1>1, <3>1
    <3>3. QED
      BY <3>1, <3>2
  <2>2. CASE b # m
    <3>1. b \in 1 .. m - 1
      BY <2>2
    <3>2. off[b] + j \in 1 .. Len(t) /\ t[off[b] + j] = ss[b][j]
      BY <1>2, <3>1 DEF SideBySide
    <3>3. \A k \in 1 .. Len(t) : k \in 1 .. Len(u) /\ u[k] = t[k]
      BY <1>1
    <3>4. QED
      BY <3>2, <3>3
  <2>3. QED
    BY <2>1, <2>2
<1>3. ASSUME NEW k \in 1 .. Len(u)
      PROVE  \E b \in 1 .. m : \E j \in 1 .. Len(ss[b]) : k = off[b] + j
  <2>1. CASE k <= Len(t)
    <3>1. k \in 1 .. Len(t)
      BY <1>1, <2>1
    <3>2. PICK b \in 1 .. m - 1 : \E j \in 1 .. Len(ss[b]) : k = off[b] + j
      BY <3>1 DEF SideBySide
    <3>3. b \in 1 .. m
      OBVIOUS
    <3>4. QED
      BY <3>2, <3>3
  <2>2. CASE k > Len(t)
    <3>1. k - Len(t) \in 1 .. Len(ss[m]) /\ k = off[m] + (k - Len(t)) /\ m \in 1 .. m
      BY <1>1, <2>2
    <3>2. QED
      BY <3>1
  <2>3. QED
    BY <1>1, <2>1, <2>2
<1>4. QED
  BY <1>2, <1>3 DEF SideBySide, u

\* FlattenSeq puts the sequences side by side, the b-th behind off[b] items.
LEMMA FlattenFacts ==
  ASSUME NEW S, NEW ss \in Seq(Seq(S))
  PROVE  /\ FlattenSeq(ss) \in Seq(S)
         /\ \E off \in [1 .. Len(ss) -> Nat] : SideBySide(FlattenSeq(ss), ss, off, Len(ss))
<1> DEFINE n == Len(ss)
           T == Seq(S)
           eq(f) == [i \in 1 .. n |-> IF i = 1 THEN ss[i] ELSE f[i - 1] \o ss[i]]
           F == CHOOSE f : f = eq(f)
<1>1. n \in Nat /\ \A i \in 1 .. n : ss[i] \in T
  OBVIOUS
<1>2. CASE n = 0
  <2>1. ss = <<>> /\ FlattenSeq(ss) = <<>> /\ 1 .. Len(ss) = {}
    BY <1>2 DEF FlattenSeq
  <2>2. <<>> \in [1 .. Len(ss) -> Nat] /\ 1 .. Len(FlattenSeq(ss)) = {} /\ <<>> \in Seq(S)
    BY <2>1
  <2>3. QED
    BY <2>1, <2>2 DEF SideBySide
<1>3. CASE n # 0
  <2>1. FlattenSeq(ss) = F[n]
    BY <1>3 DEF FlattenSeq
  <2>2. F = eq(F)
    <3> DEFINE m == n - 1
               step == [i \in 1 .. m |-> [t \in T |-> t \o ss[i + 1]]]
    <3>1. m \in Nat /\ ss[1] \in T /\ \A i \in 1 .. m : i + 1 \in 1 .. n
      BY <1>1, <1>3
    <3>2. step \in [1 .. m -> [T -> T]]
      BY <1>1, <3>1
    <3>3. \A i \in 1 .. m, t \in T : step[i][t] = t \o ss[i + 1]
      OBVIOUS
    <3> HIDE DEF m, step, T
    <3>4. PICK g : IsRecursion(g, m, T, ss[1], step)
      BY <3>1, <3>2, RecursiveFunction
    <3>5. g \in [0 .. m -> T] /\ g[0] = ss[1] /\ \A i \in 1 .. m : g[i] = step[i][g[i - 1]]
      BY <3>4 DEF IsRecursion
    <3>6. \A i \in 1 .. m : g[i] = g[i - 1] \o ss[i + 1]
      <4>1. \A i \in 1 .. m : g[i - 1] \in T
        BY <3>1, <3>5
      <4>2. QED
        BY <3>3, <3>5, <4>1
    <3> DEFINE f == [i \in 1 .. n |-> g[i - 1]]
    <3>7. \A i \in 1 .. n : f[i] = IF i = 1 THEN ss[i] ELSE f[i - 1] \o ss[i]
      <4> TAKE i \in 1 .. n
      <4>1. CASE i = 1
        BY <3>5, <4>1
      <4>2. CASE i # 1
        <5>1. i - 1 \in 1 .. m /\ i - 1 \in 1 .. n /\ (i - 1) + 1 = i
          BY <1>1, <4>2 DEF m
        <5>2. f[i] = g[i - 1] /\ f[i - 1] = g[i - 1 - 1]
          BY <5>1
        <5>3. g[i - 1] = g[i - 1 - 1] \o ss[i]
          BY <3>6, <5>1
        <5>4. QED
          BY <4>2, <5>2, <5>3
      <4>3. QED
        BY <4>1, <4>2
    <3>8. f = eq(f)
      BY <3>7
    <3>9. QED
      BY <3>8
  <2> HIDE DEF F, T
  <2>3. F[1] = ss[1] /\ \A i \in 2 .. n : F[i] = F[i - 1] \o ss[i]
    <3>1. \A i \in 1 .. n : F[i] = eq(F)[i]
      BY <2>2
    <3>2. 1 \in 1 .. n /\ \A i \in 2 .. n : i \in 1 .. n /\ i # 1
      BY <1>1, <1>3
    <3>3. QED
      BY <3>1, <3>2
  <2> DEFINE len(b) == IF b = 1 THEN 0 ELSE Len(F[b - 1])
             off == [b \in 1 .. n |-> len(b)]
             G == {0} \cup {i \in 1 .. n : /\ F[i] \in T /\ SideBySide(F[i], ss, off, i)
                                           /\ \A b \in 1 .. i : off[b] \in Nat}
  <2>4. /\ off[1] = 0 /\ DOMAIN off = 1 .. n
        /\ \A i \in 2 .. n : off[i] = Len(F[i - 1])
    BY <1>1, <1>3
  <2>5. off = [b \in 1 .. n |-> off[b]]
    OBVIOUS
  <2> HIDE DEF n, off
  <2>6. ASSUME NEW i \in 1 .. n, i - 1 \in G PROVE i \in G
    <3>1. CASE i = 1
      <4>1. 1 .. 1 = {1} /\ F[1] = ss[1] /\ ss[1] \in T /\ Len(ss[1]) \in Nat
        BY <1>1, <2>3, <3>1 DEF T
      <4>2. SideBySide(F[1], ss, off, 1)
        BY <2>4, <4>1 DEF SideBySide
      <4>3. QED
        BY <2>4, <3>1, <4>1, <4>2
    <3>2. CASE i # 1
      <4>1. i - 1 \in 1 .. n /\ i - 1 # 0 /\ i \in 2 .. n /\ i \in Nat \ {0}
        BY <1>1, <3>2
      <4>2. F[i - 1] \in T /\ SideBySide(F[i - 1], ss, off, i - 1) /\ \A b \in 1 .. i - 1 : off[b] \in Nat
        BY <2>6, <4>1
      <4>3. off[i] = Len(F[i - 1]) /\ F[i] = F[i - 1] \o ss[i] /\ F[i - 1] \in Seq(S) /\ ss[i] \in Seq(S)
        BY <1>1, <2>3, <2>4, <4>1, <4>2 DEF T
      <4>4. off[i] \in Nat /\ F[i] \in T
        BY <4>3 DEF T
      <4>5. \A b \in 1 .. i : off[b] \in Nat
        <5>1. \A b \in 1 .. i : b = i \/ b \in 1 .. i - 1
          BY <4>1
        <5>2. QED
          BY <4>2, <4>4, <5>1
      <4>6. SideBySide(F[i], ss, off, i)
        BY <4>1, <4>2, <4>3, <4>5, SideBySideStep
      <4>7. QED
        BY <4>4, <4>5, <4>6
    <3>3. QED
      BY <3>1, <3>2
  <2>7. \A i \in 0 .. n : i \in G
    <3>1. 0 \in G
      OBVIOUS
    <3> HIDE DEF G
    <3>2. QED
      BY <1>1, <2>6, <3>1, UpTo
  <2>8. F[n] \in T /\ SideBySide(F[n], ss, off, n) /\ \A b \in 1 .. n : off[b] \in Nat
    <3>1. n \in G /\ n # 0
      BY <1>1, <1>3, <2>7
    <3>2. QED
      BY <3>1
  <2>9. off \in [1 .. n -> Nat]
    BY <2>5, <2>8
  <2>10. QED
    BY <2>1, <2>8, <2>9 DEF T, n
<1>4. QED
  BY <1>2, <1>3

\* Sequences that share nothing, none of which repeats an item, are flattened
\* into one that repeats none.
LEMMA FlattenDistinct ==
  ASSUME NEW S, NEW ss \in Seq(Seq(S)),
         \A b \in 1 .. Len(ss) : IsInjective(ss[b]),
         \A b, c \in 1 .. Len(ss) : b # c => Range(ss[b]) \cap Range(ss[c]) = {}
  PROVE  /\ FlattenSeq(ss) \in Seq(S) /\ IsInjective(FlattenSeq(ss))
         /\ Range(FlattenSeq(ss)) = UNION {Range(ss[b]) : b \in 1 .. Len(ss)}
<1> DEFINE t == FlattenSeq(ss)
           n == Len(ss)
<1>1. t \in Seq(S) /\ \E off \in [1 .. n -> Nat] : SideBySide(t, ss, off, n)
  BY FlattenFacts
<1>2. PICK off \in [1 .. n -> Nat] : SideBySide(t, ss, off, n)
  BY <1>1
<1> HIDE DEF t
<1>3. \A b \in 1 .. n : ss[b] \in Seq(S)
  OBVIOUS
<1>4. \A b \in 1 .. n : DOMAIN ss[b] = 1 .. Len(ss[b])
  BY <1>3
<1>5. DOMAIN t = 1 .. Len(t)
  BY <1>1
<1>6. \A b \in 1 .. n : \A j \in DOMAIN ss[b] : off[b] + j \in DOMAIN t /\ t[off[b] + j] = ss[b][j]
  BY <1>2, <1>4, <1>5 DEF SideBySide
<1>7. \A k \in DOMAIN t : \E b \in 1 .. n : \E j \in DOMAIN ss[b] : k = off[b] + j
  <2> HIDE DEF n
  <2>1. \A k \in 1 .. Len(t) : \E b \in 1 .. n : \E j \in 1 .. Len(ss[b]) : k = off[b] + j
    BY <1>2 DEF SideBySide
  <2>2. TAKE k \in DOMAIN t
  <2>3. PICK b \in 1 .. n : \E j \in 1 .. Len(ss[b]) : k = off[b] + j
    BY <1>5, <2>1, <2>2
  <2>4. QED
    BY <1>4, <2>3
<1> HIDE DEF n
<1>8. IsInjective(t)
  <2>1. SUFFICES ASSUME NEW k \in DOMAIN t, NEW l \in DOMAIN t, t[k] = t[l] PROVE k = l
    BY DEF IsInjective
  <2>2. PICK b \in 1 .. n : \E i \in DOMAIN ss[b] : k = off[b] + i
    BY <1>7
  <2>3. PICK c \in 1 .. n : \E j \in DOMAIN ss[c] : l = off[c] + j
    BY <1>7
  <2>4. PICK i \in DOMAIN ss[b] : k = off[b] + i
    BY <2>2
  <2>5. PICK j \in DOMAIN ss[c] : l = off[c] + j
    BY <2>3
  <2>6. ss[b][i] = ss[c][j]
    BY <1>6, <2>1, <2>4, <2>5
  <2>7. b = c
    BY <2>6 DEF n, Range
  <2>8. i = j
    BY <2>6, <2>7 DEF n, IsInjective
  <2>9. QED
    BY <2>4, <2>5, <2>7, <2>8
<1>9. Range(t) = UNION {Range(ss[b]) : b \in 1 .. n}
  <2>1. ASSUME NEW k \in DOMAIN t PROVE t[k] \in UNION {Range(ss[b]) : b \in 1 .. n}
    <3>1. PICK b \in 1 .. n : \E i \in DOMAIN ss[b] : k = off[b] + i
      BY <1>7
    <3>2. PICK i \in DOMAIN ss[b] : k = off[b] + i
      BY <3>1
    <3>3. t[k] = ss[b][i]
      BY <1>6, <3>2
    <3>4. QED
      BY <3>3 DEF Range
  <2>2. ASSUME NEW b \in 1 .. n, NEW j \in DOMAIN ss[b] PROVE ss[b][j] \in Range(t)
    <3>1. off[b] + j \in DOMAIN t /\ t[off[b] + j] = ss[b][j]
      BY <1>6
    <3>2. QED
      BY <3>1 DEF Range
  <2>3. QED
    BY <2>1, <2>2 DEF Range
<1>10. QED
  BY <1>1, <1>8, <1>9 DEF t, n
===============================================================================
