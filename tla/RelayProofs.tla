---------------------------- MODULE RelayProofs ----------------------------
(***************************************************************************)
(* What the proofs about both proxies share: facts about sequences and the *)
(* operators of Relay, and what the steps in Relay do to the buffers.      *)
(***************************************************************************)
EXTENDS Relay, Integers, SequenceTheorems, WellFoundedInduction, TLAPS

-----------------------------------------------------------------------------
(* Keep                                                                    *)

\* A set of numbers has a least one, which is how the facts about the
\* function in Keep are proved: by their least counterexample.
LEMMA LeastElement ==
    ASSUME NEW T \in SUBSET Nat, T # {}
    PROVE  \E n \in T : \A m \in T : n <= m
  <1>1. PICK n \in T : \A m \in T : <<m, n>> \notin OpToRel(<, Nat)
    BY WFMin, NatLessThanWellFounded, Zenon
  <1>2. \A m \in T : ~ (m < n)
    BY <1>1, Zenon DEF OpToRel
  <1> QED
    BY <1>2

\* The n-th value of the function in Keep.
KeptAt(f, s, S, i) ==
    IF i = 0 THEN <<>>
    ELSE IF s[i] \in S THEN Append(f[i - 1], s[i]) ELSE f[i - 1]

Kept(f, s, S, n) == f = [i \in 0 .. n |-> KeptAt(f, s, S, i)]

\* There is such a function.
LEMMA KeptExists ==
    ASSUME NEW s, NEW S, NEW n \in Nat
    PROVE  \E f : Kept(f, s, S, n)
  <1> DEFINE T == {k \in Nat : ~ \E f : Kept(f, s, S, k)}
  <1>1. SUFFICES ASSUME T # {} PROVE FALSE
    OBVIOUS
  <1>2. PICK k \in T : \A m \in T : k <= m
    <2> HIDE DEF T
    <2>1. T \in SUBSET Nat
      BY DEF T
    <2> QED
      BY <1>1, <2>1, LeastElement
  <1>3. CASE k = 0
    <2> DEFINE f == [i \in 0 .. 0 |-> <<>>]
    <2>1. Kept(f, s, S, 0)
      BY DEF Kept, KeptAt
    <2> QED
      BY <1>3, <2>1
  <1>4. CASE k # 0
    <2>1. PICK g : Kept(g, s, S, k - 1)
      BY <1>2, <1>4
    <2> DEFINE f == [i \in 0 .. k |-> IF i = k THEN KeptAt(g, s, S, k) ELSE g[i]]
    <2>2. \A i \in 0 .. k - 1 : f[i] = g[i]
      BY <1>4
    <2>3. \A i \in 0 .. k - 1 : g[i] = KeptAt(g, s, S, i)
      BY <2>1, Zenon DEF Kept
    <2>4. \A i \in 0 .. k : KeptAt(f, s, S, i) = KeptAt(g, s, S, i)
      <3>1. \A i \in 1 .. k : f[i - 1] = g[i - 1]
        BY <2>2
      <3> HIDE DEF f
      <3> QED
        BY <3>1 DEF KeptAt
    <2>5. \A i \in 0 .. k : f[i] = KeptAt(f, s, S, i)
      <3>1. \A i \in 0 .. k : f[i] = IF i = k THEN KeptAt(g, s, S, k) ELSE g[i]
        OBVIOUS
      <3> HIDE DEF f
      <3> QED
        BY <1>4, <2>3, <2>4, <3>1
    <2>6. f = [i \in 0 .. k |-> f[i]]
      OBVIOUS
    <2>7. Kept(f, s, S, k)
      <3> HIDE DEF f
      <3> QED
        BY <2>5, <2>6 DEF Kept
    <2> QED
      BY <2>7
  <1> QED
    BY <1>3, <1>4

\* Its value at k depends only on the first k elements.
LEMMA KeptSame ==
    ASSUME NEW s, NEW t, NEW S, NEW n \in Nat, NEW m \in Nat,
           NEW f, NEW g, Kept(f, s, S, n), Kept(g, t, S, m),
           NEW k \in 0 .. n, k <= m,
           \A i \in 1 .. k : s[i] = t[i]
    PROVE  f[k] = g[k]
  <1> DEFINE T == {j \in 0 .. k : f[j] # g[j]}
  <1>1. SUFFICES ASSUME T # {} PROVE FALSE
    OBVIOUS
  <1>2. PICK j \in T : \A i \in T : j <= i
    <2> HIDE DEF T
    <2>1. T \in SUBSET Nat
      BY DEF T
    <2> QED
      BY <1>1, <2>1, LeastElement
  <1>3. f[j] = KeptAt(f, s, S, j) /\ g[j] = KeptAt(g, t, S, j)
    <2>1. j \in 0 .. n /\ j \in 0 .. m
      OBVIOUS
    <2> QED
      BY <2>1, Zenon DEF Kept
  <1>4. j = 0 \/ (s[j] = t[j] /\ f[j - 1] = g[j - 1])
    BY <1>2
  <1> QED
    BY <1>3, <1>4 DEF KeptAt

\* Keep is such a function's last value.
LEMMA KeepIsKept ==
    ASSUME NEW s, NEW S, Len(s) \in Nat
    PROVE  \E f : Kept(f, s, S, Len(s)) /\ Keep(s, S) = f[Len(s)]
  <1> DEFINE Fun(f) == f = [n \in 0 .. Len(s) |->
                              IF n = 0 THEN <<>>
                              ELSE IF s[n] \in S THEN Append(f[n - 1], s[n])
                              ELSE f[n - 1]]
             c == CHOOSE f : Fun(f)
  <1>1. PICK f : Kept(f, s, S, Len(s))
    BY KeptExists
  <1>2. Fun(f)
    BY <1>1 DEF Kept, KeptAt
  <1>3. Fun(c)
    <2> HIDE DEF Fun
    <2> QED
      BY <1>2
  <1>4. Kept(c, s, S, Len(s))
    <2> HIDE DEF c
    <2> QED
      BY <1>3 DEF Kept, KeptAt
  <1>5. Keep(s, S) = c[Len(s)]
    BY DEF Keep
  <1> QED
    BY <1>4, <1>5, Zenon

\* Keep depends on the elements only.
LEMMA KeepEmpty ==
    ASSUME NEW S
    PROVE  Keep(<<>>, S) = <<>>
  <1>1. Len(<<>>) = 0
    BY EmptySeq
  <1>2. PICK f : Kept(f, <<>>, S, 0) /\ Keep(<<>>, S) = f[0]
    BY <1>1, KeepIsKept
  <1>3. f[0] = KeptAt(f, <<>>, S, 0)
    <2>1. 0 \in 0 .. 0
      OBVIOUS
    <2> QED
      BY <1>2, <2>1, Zenon DEF Kept
  <1> QED
    BY <1>2, <1>3 DEF KeptAt

\* One element more.
LEMMA KeepAppend ==
    ASSUME NEW A, NEW s \in Seq(A), NEW u \in A, NEW S
    PROVE  Keep(Append(s, u), S)
             = IF u \in S THEN Append(Keep(s, S), u) ELSE Keep(s, S)
  <1> DEFINE t == Append(s, u)
             n == Len(s)
  <1>1. /\ t \in Seq(A) /\ Len(t) = n + 1 /\ n \in Nat
        /\ t[n + 1] = u /\ \A i \in 1 .. n : t[i] = s[i]
    BY AppendProperties, LenProperties
  <1> HIDE DEF t, n
  <1>2. PICK f : Kept(f, s, S, n) /\ Keep(s, S) = f[n]
    BY <1>1, KeepIsKept DEF n
  <1>3. PICK g : Kept(g, t, S, n + 1) /\ Keep(t, S) = g[n + 1]
    BY <1>1, KeepIsKept
  <1>4. g[n] = f[n]
    <2>1. n + 1 \in Nat /\ n \in 0 .. n + 1 /\ n <= n
      BY <1>1
    <2> QED
      BY <1>1, <1>2, <1>3, <2>1, KeptSame
  <1>5. g[n + 1] = KeptAt(g, t, S, n + 1)
    <2>1. n + 1 \in 0 .. n + 1
      BY <1>1
    <2> QED
      BY <1>3, <2>1, Zenon DEF Kept
  <1>6. n + 1 # 0 /\ (n + 1) - 1 = n
    BY <1>1
  <1> QED
    BY <1>1, <1>2, <1>3, <1>4, <1>5, <1>6 DEF KeptAt, t

\* What is proved of a sequence by adding its elements one by one.
LEMMA AppendLast ==
    ASSUME NEW A, NEW s \in Seq(A), NEW n \in 1 .. Len(s)
    PROVE  /\ SubSeq(s, 1, n - 1) \in Seq(A) /\ s[n] \in A
           /\ SubSeq(s, 1, n) = Append(SubSeq(s, 1, n - 1), s[n])
  <1>1. Len(s) \in Nat /\ \A i \in 1 .. Len(s) : s[i] \in A
    BY LenProperties, ElementOfSeq
  <1>2. SubSeq(s, 1, n - 1) \in Seq(A)
    <2>1. \A i \in 1 .. n - 1 : s[i] \in A
      BY <1>1
    <2>2. n - 1 \in Int
      BY <1>1
    <2> QED
      BY <2>1, <2>2, SubSeqProperties
  <1>3. SubSeq(s, 1, n) = SubSeq(s, 1, n - 1) \o <<s[n]>>
    <2>1. 1 \in 1 .. Len(s) /\ n \in 1 .. Len(s)
      BY <1>1
    <2> QED
      BY <2>1, SubSeqRecursiveSecond
  <1> QED
    BY <1>1, <1>2, <1>3, AppendIsConcat

\* The same for the last element of a prefix.
LEMMA KeepLast ==
    ASSUME NEW A, NEW s \in Seq(A), NEW S, NEW n \in 1 .. Len(s)
    PROVE  Keep(SubSeq(s, 1, n), S)
             = IF s[n] \in S THEN Append(Keep(SubSeq(s, 1, n - 1), S), s[n])
               ELSE Keep(SubSeq(s, 1, n - 1), S)
  <1> DEFINE r == SubSeq(s, 1, n - 1)
             u == s[n]
  <1>1. r \in Seq(A) /\ u \in A /\ SubSeq(s, 1, n) = Append(r, u)
    BY AppendLast
  <1> HIDE DEF r, u
  <1>2. Keep(Append(r, u), S)
          = IF u \in S THEN Append(Keep(r, S), u) ELSE Keep(r, S)
    BY <1>1, KeepAppend
  <1> QED
    BY <1>1, <1>2 DEF r, u

\* Keep keeps elements of S only, and of s only.
LEMMA KeepType ==
    ASSUME NEW A, NEW s \in Seq(A), NEW S
    PROVE  Keep(s, S) \in Seq(A \cap S)
  <1> DEFINE P(n) == Keep(SubSeq(s, 1, n), S) \in Seq(A \cap S)
             T == {n \in 0 .. Len(s) : ~P(n)}
  <1>1. Len(s) \in Nat /\ SubSeq(s, 1, Len(s)) = s
    BY LenProperties, SubSeqFull
  <1>2. SUFFICES ASSUME T # {} PROVE FALSE
    <2>1. ASSUME T = {} PROVE P(Len(s))
      <3>1. Len(s) \in 0 .. Len(s)
        BY <1>1
      <3> HIDE DEF P
      <3> QED
        BY <2>1, <3>1
    <2> QED
      BY <1>1, <2>1
  <1>3. PICK n \in T : \A i \in T : n <= i
    <2>1. T \in SUBSET Nat
      BY <1>1
    <2> HIDE DEF T
    <2> QED
      BY <1>2, <2>1, LeastElement
  <1>4. CASE n = 0
    <2>1. SubSeq(s, 1, 0) = <<>>
      BY SubSeqEmpty
    <2> QED
      BY <1>4, <2>1, KeepEmpty, EmptySeq
  <1>5. CASE n # 0
    <2>1. n - 1 \in 0 .. Len(s) /\ n - 1 \notin T /\ n \in 1 .. Len(s)
      BY <1>1, <1>3, <1>5
    <2>2. P(n - 1)
      BY <2>1
    <2>3. Keep(SubSeq(s, 1, n), S)
            = IF s[n] \in S THEN Append(Keep(SubSeq(s, 1, n - 1), S), s[n])
              ELSE Keep(SubSeq(s, 1, n - 1), S)
      BY <2>1, KeepLast
    <2>4. s[n] \in A
      BY <2>1, AppendLast
    <2>5. s[n] \in S => Append(Keep(SubSeq(s, 1, n - 1), S), s[n]) \in Seq(A \cap S)
      BY <2>2, <2>4, AppendProperties
    <2> QED
      BY <2>2, <2>3, <2>5
  <1> QED
    BY <1>4, <1>5

\* Append at the end of a concatenation.
LEMMA AppendConcat ==
    ASSUME NEW A, NEW s \in Seq(A), NEW t \in Seq(A), NEW u \in A
    PROVE  s \o Append(t, u) = Append(s \o t, u)
  <1>1. <<u>> \in Seq(A)
    OBVIOUS
  <1>2. s \o t \in Seq(A)
    BY ConcatProperties
  <1>3. Append(t, u) = t \o <<u>> /\ Append(s \o t, u) = (s \o t) \o <<u>>
    BY <1>2, AppendIsConcat
  <1>4. (s \o t) \o <<u>> = s \o (t \o <<u>>)
    BY <1>1, ConcatAssociative
  <1> QED
    BY <1>3, <1>4

\* Keep distributes over concatenation.
LEMMA KeepConcat ==
    ASSUME NEW A, NEW s \in Seq(A), NEW t \in Seq(A), NEW S
    PROVE  Keep(s \o t, S) = Keep(s, S) \o Keep(t, S)
  <1> DEFINE P(n) == Keep(s \o SubSeq(t, 1, n), S)
                       = Keep(s, S) \o Keep(SubSeq(t, 1, n), S)
             T == {n \in 0 .. Len(t) : ~P(n)}
  <1>1. Len(t) \in Nat /\ SubSeq(t, 1, Len(t)) = t
    BY LenProperties, SubSeqFull
  <1>2. SUFFICES ASSUME T # {} PROVE FALSE
    <2>1. ASSUME T = {} PROVE P(Len(t))
      <3>1. Len(t) \in 0 .. Len(t)
        BY <1>1
      <3> HIDE DEF P
      <3> QED
        BY <2>1, <3>1
    <2> QED
      BY <1>1, <2>1
  <1>3. PICK n \in T : \A i \in T : n <= i
    <2>1. T \in SUBSET Nat
      BY <1>1
    <2> HIDE DEF T
    <2> QED
      BY <1>2, <2>1, LeastElement
  <1>4. Keep(s, S) \in Seq(A \cap S)
    BY KeepType
  <1>5. CASE n = 0
    <2>1. SubSeq(t, 1, 0) = <<>>
      BY SubSeqEmpty
    <2>2. s \o <<>> = s /\ Keep(s, S) \o <<>> = Keep(s, S)
      BY <1>4, ConcatEmptySeq
    <2> QED
      BY <1>5, <2>1, <2>2, KeepEmpty
  <1>6. CASE n # 0
    <2> DEFINE r == SubSeq(t, 1, n - 1)
               u == t[n]
    <2>1. n - 1 \in 0 .. Len(t) /\ n - 1 \notin T /\ n \in 1 .. Len(t)
      BY <1>1, <1>3, <1>6
    <2>2. P(n - 1)
      BY <2>1
    <2>3. r \in Seq(A) /\ u \in A /\ SubSeq(t, 1, n) = Append(r, u)
      BY <2>1, AppendLast
    <2>4. Keep(s \o r, S) = Keep(s, S) \o Keep(r, S)
      BY <2>2
    <2> HIDE DEF P, T, r, u
    <2>5. s \o Append(r, u) = Append(s \o r, u) /\ s \o r \in Seq(A)
      BY <2>3, AppendConcat, ConcatProperties
    <2>6. Keep(r, S) \in Seq(A \cap S)
      BY <2>3, KeepType
    <2>8. Keep(Append(s \o r, u), S)
            = IF u \in S THEN Append(Keep(s \o r, S), u) ELSE Keep(s \o r, S)
      <3> DEFINE sr == s \o r
      <3>1. sr \in Seq(A)
        BY <2>5
      <3> HIDE DEF sr
      <3>2. Keep(Append(sr, u), S)
              = IF u \in S THEN Append(Keep(sr, S), u) ELSE Keep(sr, S)
        BY <2>3, <3>1, KeepAppend
      <3> QED
        BY <3>2 DEF sr
    <2>7. CASE u \in S
      <3>1. Keep(Append(s \o r, u), S) = Append(Keep(s \o r, S), u)
        BY <2>7, <2>8
      <3>2. Keep(Append(r, u), S) = Append(Keep(r, S), u)
        BY <2>3, <2>7, KeepAppend
      <3>3. Append(Keep(s, S) \o Keep(r, S), u)
              = Keep(s, S) \o Append(Keep(r, S), u)
        <4> DEFINE k == Keep(s, S)
                   l == Keep(r, S)
        <4>1. k \in Seq(A \cap S) /\ l \in Seq(A \cap S) /\ u \in A \cap S
          BY <1>4, <2>3, <2>6, <2>7
        <4> HIDE DEF k, l
        <4>2. k \o Append(l, u) = Append(k \o l, u)
          BY <4>1, AppendConcat
        <4> QED
          BY <4>2 DEF k, l
      <3>4. P(n)
        BY <2>3, <2>4, <2>5, <3>1, <3>2, <3>3 DEF P
      <3> QED
        BY <3>4 DEF T
    <2>9. CASE u \notin S
      <3>1. Keep(Append(s \o r, u), S) = Keep(s \o r, S)
        BY <2>8, <2>9
      <3>2. Keep(Append(r, u), S) = Keep(r, S)
        BY <2>3, <2>9, KeepAppend
      <3>3. P(n)
        BY <2>3, <2>4, <2>5, <3>1, <3>2 DEF P
      <3> QED
        BY <3>3 DEF T
    <2> QED
      BY <2>7, <2>9
  <1> QED
    BY <1>5, <1>6

\* Nothing is left out if all elements are in S.
LEMMA KeepAll ==
    ASSUME NEW A, NEW s \in Seq(A), NEW S, \A i \in 1 .. Len(s) : s[i] \in S
    PROVE  Keep(s, S) = s
  <1> DEFINE P(n) == Keep(SubSeq(s, 1, n), S) = SubSeq(s, 1, n)
             T == {n \in 0 .. Len(s) : ~P(n)}
  <1>1. Len(s) \in Nat /\ SubSeq(s, 1, Len(s)) = s
    BY LenProperties, SubSeqFull
  <1>2. SUFFICES ASSUME T # {} PROVE FALSE
    <2>1. ASSUME T = {} PROVE P(Len(s))
      <3>1. Len(s) \in 0 .. Len(s)
        BY <1>1
      <3> HIDE DEF P
      <3> QED
        BY <2>1, <3>1
    <2> QED
      BY <1>1, <2>1
  <1>3. PICK n \in T : \A i \in T : n <= i
    <2>1. T \in SUBSET Nat
      BY <1>1
    <2> HIDE DEF T
    <2> QED
      BY <1>2, <2>1, LeastElement
  <1>4. CASE n = 0
    <2>1. SubSeq(s, 1, 0) = <<>>
      BY SubSeqEmpty
    <2> QED
      BY <1>4, <2>1, KeepEmpty
  <1>5. CASE n # 0
    <2>1. n - 1 \in 0 .. Len(s) /\ n - 1 \notin T /\ n \in 1 .. Len(s)
      BY <1>1, <1>3, <1>5
    <2>2. P(n - 1)
      BY <2>1
    <2>3. Keep(SubSeq(s, 1, n), S)
            = IF s[n] \in S THEN Append(Keep(SubSeq(s, 1, n - 1), S), s[n])
              ELSE Keep(SubSeq(s, 1, n - 1), S)
      BY <2>1, KeepLast
    <2> QED
      BY <2>1, <2>2, <2>3, AppendLast
  <1> QED
    BY <1>4, <1>5

-----------------------------------------------------------------------------
(* Streams that are cut and joined                                         *)

\* A buffer cut in two.
LEMMA CutFacts ==
    ASSUME NEW s \in Seq(Unit), NEW n \in 0 .. Len(s)
    PROVE  /\ SubSeq(s, 1, n) \in Seq(Unit)
           /\ Len(SubSeq(s, 1, n)) = n
           /\ SubSeq(s, n + 1, Len(s)) \in Seq(Unit)
           /\ Len(SubSeq(s, n + 1, Len(s))) = Len(s) - n
  <1>1. Len(s) \in Nat /\ \A i \in 1 .. Len(s) : s[i] \in Unit
    BY LenProperties, ElementOfSeq
  <1>2. /\ SubSeq(s, 1, n) \in Seq(Unit)
        /\ Len(SubSeq(s, 1, n)) = IF 1 <= n THEN n - 1 + 1 ELSE 0
    <2>1. \A i \in 1 .. n : s[i] \in Unit
      BY <1>1
    <2> QED
      BY <1>1, <2>1, SubSeqProperties
  <1>3. /\ SubSeq(s, n + 1, Len(s)) \in Seq(Unit)
        /\ Len(SubSeq(s, n + 1, Len(s)))
             = IF n + 1 <= Len(s) THEN Len(s) - (n + 1) + 1 ELSE 0
    <2>1. \A i \in n + 1 .. Len(s) : s[i] \in Unit
      BY <1>1
    <2>2. n + 1 \in Int /\ Len(s) \in Int
      BY <1>1
    <2> QED
      BY <2>1, <2>2, SubSeqProperties
  <1> QED
    BY <1>1, <1>2, <1>3

\* Concatenation is associative and stays within streams.
LEMMA Regroup ==
    ASSUME NEW s \in Seq(Unit), NEW t \in Seq(Unit), NEW u \in Seq(Unit)
    PROVE  (s \o t) \o u = s \o (t \o u)
  BY ConcatAssociative

\* A stream that is cut at the same place in two ways is cut into the same
\* parts.
LEMMA SameCut ==
    ASSUME NEW p \in Seq(Unit), NEW q \in Seq(Unit),
           NEW r \in Seq(Unit), NEW s \in Seq(Unit),
           p \o q = r \o s, Len(p) = Len(r)
    PROVE  p = r /\ q = s
  <1>1. Len(p) \in Nat /\ Len(q) \in Nat
    BY LenProperties
  <1>2. \A i \in 1 .. Len(p) + Len(q) :
          (p \o q)[i] = IF i <= Len(p) THEN p[i] ELSE q[i - Len(p)]
    BY ConcatProperties
  <1>3. /\ Len(r \o s) = Len(r) + Len(s)
        /\ \A i \in 1 .. Len(r) + Len(s) :
             (r \o s)[i] = IF i <= Len(r) THEN r[i] ELSE s[i - Len(r)]
    BY ConcatProperties
  <1>4. \A i \in 1 .. Len(p) : p[i] = r[i]
    <2>1. Len(s) \in Nat
      BY LenProperties
    <2> QED
      BY <1>1, <1>2, <1>3, <2>1
  <1>5. p = r
    BY <1>4, SeqEqual
  <1>6. q = s
    <2>1. Len(r) + Len(s) = Len(p) + Len(q) /\ Len(s) \in Nat
      BY <1>1, <1>3, ConcatProperties, LenProperties
    <2>2. Len(q) = Len(s)
      BY <1>1, <2>1
    <2>3. ASSUME NEW i \in 1 .. Len(q)
          PROVE  q[i] = s[i]
      <3>1. /\ Len(p) + i \in 1 .. Len(p) + Len(q) /\ ~(Len(p) + i <= Len(p))
            /\ (Len(p) + i) - Len(p) = i
        BY <1>1
      <3> QED
        BY <1>2, <1>3, <2>1, <3>1
    <2> QED
      BY <2>2, <2>3, SeqEqual
  <1> QED
    BY <1>5, <1>6

\* The first unit of a stream is followed by its tail.
LEMMA TailAfter ==
    ASSUME NEW u \in Unit, NEW t \in Seq(Unit)
    PROVE  Tail(<<u>> \o t) = t
  <1>1. <<u>> \in Seq(Unit) /\ Len(<<u>>) = 1
    OBVIOUS
  <1> DEFINE x == <<u>> \o t
  <1>2. /\ x \in Seq(Unit) /\ Len(x) = 1 + Len(t) /\ Len(t) \in Nat
        /\ \A i \in 1 .. 1 + Len(t) : x[i] = IF i <= 1 THEN <<u>>[i] ELSE t[i - 1]
    BY <1>1, ConcatProperties, LenProperties
  <1> HIDE DEF x
  <1>3. x # <<>>
    BY <1>2, EmptySeq
  <1>4. /\ Tail(x) \in Seq(Unit) /\ Len(Tail(x)) = Len(x) - 1
        /\ \A i \in 1 .. Len(Tail(x)) : Tail(x)[i] = x[i + 1]
    BY <1>2, <1>3, HeadTailProperties
  <1>5. Len(Tail(x)) = Len(t)
    BY <1>2, <1>4
  <1>6. ASSUME NEW i \in 1 .. Len(Tail(x))
        PROVE  Tail(x)[i] = t[i]
    <2>1. i + 1 \in 1 .. 1 + Len(t) /\ ~(i + 1 <= 1) /\ (i + 1) - 1 = i
      BY <1>2, <1>5
    <2> QED
      BY <1>2, <1>4, <2>1
  <1>7. Tail(x) = t
    BY <1>4, <1>5, <1>6, SeqEqual
  <1> QED
    BY <1>7 DEF x

\* A sequence is what it is cut into.
LEMMA CutJoin ==
    ASSUME NEW s \in Seq(Unit), NEW n \in 0 .. Len(s)
    PROVE  SubSeq(s, 1, n) \o SubSeq(s, n + 1, Len(s)) = s
  <1>1. Len(s) \in Nat
    BY LenProperties
  <1>2. 1 \in 1 .. Len(s) + 1 /\ n \in 1 - 1 .. Len(s) /\ Len(s) \in n .. Len(s)
    BY <1>1
  <1>3. SubSeq(s, 1, n) \o SubSeq(s, n + 1, Len(s)) = SubSeq(s, 1, Len(s))
    BY <1>2, ConcatAdjacentSubSeq
  <1> QED
    BY <1>3, SubSeqFull

\* A unit moves from the head of one buffer to the end of the one before it.
LEMMA UnitMoves ==
    ASSUME NEW s \in Seq(Unit), NEW t \in Seq(Unit), t # <<>>
    PROVE  Append(s, Head(t)) \o Tail(t) = s \o t
  <1>1. Head(t) \in Unit /\ Tail(t) \in Seq(Unit) /\ <<Head(t)>> \in Seq(Unit)
    BY HeadTailProperties
  <1>2. Append(s, Head(t)) = s \o <<Head(t)>>
    BY <1>1, AppendIsConcat
  <1>3. <<Head(t)>> \o Tail(t) = t
    <2>1. Len(t) \in Nat \ {0}
      BY EmptySeq
    <2>2. 1 \in 1 .. Len(t) /\ Len(t) \in 1 .. Len(t)
      BY <2>1
    <2>3. SubSeq(t, 1, Len(t)) = <<t[1]>> \o SubSeq(t, 1 + 1, Len(t))
      BY <2>2, SubSeqRecursiveFirst
    <2>4. SubSeq(t, 1, Len(t)) = t /\ Tail(t) = SubSeq(t, 2, Len(t))
      BY SubSeqFull, TailIsSubSeq
    <2>5. Head(t) = t[1]
      OBVIOUS
    <2> QED
      BY <2>3, <2>4, <2>5
  <1>4. (s \o <<Head(t)>>) \o Tail(t) = s \o (<<Head(t)>> \o Tail(t))
    BY <1>1, Regroup
  <1> QED
    BY <1>2, <1>3, <1>4

\* The first n units move.
LEMMA UnitsMove ==
    ASSUME NEW s \in Seq(Unit), NEW t \in Seq(Unit), NEW n \in 0 .. Len(t)
    PROVE  (s \o SubSeq(t, 1, n)) \o SubSeq(t, n + 1, Len(t)) = s \o t
  <1>1. SubSeq(t, 1, n) \in Seq(Unit)
    BY CutFacts
  <1>2. SubSeq(t, n + 1, Len(t)) \in Seq(Unit)
    BY CutFacts
  <1>3. SubSeq(t, 1, n) \o SubSeq(t, n + 1, Len(t)) = t
    BY CutJoin
  <1>4. (s \o SubSeq(t, 1, n)) \o SubSeq(t, n + 1, Len(t))
          = s \o (SubSeq(t, 1, n) \o SubSeq(t, n + 1, Len(t)))
    BY <1>1, <1>2, Regroup
  <1> QED
    BY <1>3, <1>4

\* A unit that arrives moves within what is still to be handled.
LEMMA UnitArrives ==
    ASSUME NEW r \in Seq(Unit), NEW i \in Seq(Unit), NEW o \in Seq(Unit),
           o # <<>>
    PROVE  (r \o Append(i, Head(o))) \o Tail(o) = (r \o i) \o o
  <1>1. Head(o) \in Unit /\ Tail(o) \in Seq(Unit)
    BY HeadTailProperties
  <1>2. Append(i, Head(o)) \in Seq(Unit)
    BY <1>1, AppendProperties
  <1>3. (r \o Append(i, Head(o))) \o Tail(o) = r \o (Append(i, Head(o)) \o Tail(o))
    BY <1>1, <1>2, Regroup
  <1>4. Append(i, Head(o)) \o Tail(o) = i \o o
    BY UnitMoves
  <1>5. (r \o i) \o o = r \o (i \o o)
    BY Regroup
  <1> QED
    BY <1>3, <1>4, <1>5

\* What send takes moves within what was sent or is to be sent, which grows
\* by the new data.
LEMMA UnitsSent ==
    ASSUME NEW all \in Seq(Unit), NEW n \in 0 .. Len(all)
    PROVE  \A g, q, x, data \in Seq(Unit) : all = x \o data =>
             (g \o (q \o SubSeq(all, 1, n))) \o Unsent(all, n)
               = ((g \o q) \o x) \o data
  <1> SUFFICES ASSUME NEW g \in Seq(Unit), NEW q \in Seq(Unit),
                      NEW x \in Seq(Unit), NEW data \in Seq(Unit),
                      all = x \o data
               PROVE  (g \o (q \o SubSeq(all, 1, n))) \o Unsent(all, n)
                        = ((g \o q) \o x) \o data
    OBVIOUS
  <1> DEFINE pre == SubSeq(all, 1, n)
             post == Unsent(all, n)
             qp == q \o pre
             gq == g \o q
  <1>1. pre \in Seq(Unit)
    BY CutFacts
  <1>2. post \in Seq(Unit)
    BY CutFacts DEF Unsent
  <1>3. qp \in Seq(Unit)
    BY <1>1, ConcatProperties
  <1>4. gq \in Seq(Unit)
    BY ConcatProperties
  <1>5. qp \o post = q \o all
    BY UnitsMove DEF Unsent
  <1>6. g \o (q \o all) = gq \o all
    BY Regroup
  <1> HIDE DEF pre, post, qp, gq
  <1>7. (g \o qp) \o post = g \o (qp \o post)
    <2>1. \A s, t \in Seq(Unit) : (g \o s) \o t = g \o (s \o t)
      BY Regroup
    <2> QED
      BY <1>2, <1>3, <2>1, Zenon
  <1>8. gq \o (x \o data) = (gq \o x) \o data
    BY <1>4, Regroup
  <1> QED
    BY <1>5, <1>6, <1>7, <1>8 DEF pre, post, qp, gq

-----------------------------------------------------------------------------
(* Payloads and packets                                                    *)

\* Streams of data are streams.
LEMMA DataUnits ==
    ASSUME NEW s \in Seq(Data)
    PROVE  s \in Seq(Unit)
  <1>1. Data \subseteq Unit
    BY DEF Data, Unit
  <1>2. Len(s) \in Nat /\ \A i \in 1 .. Len(s) : s[i] \in Data
    BY LenProperties, ElementOfSeq
  <1>3. s = [i \in 1 .. Len(s) |-> s[i]]
    BY LenProperties
  <1> QED
    BY <1>1, <1>2, <1>3, IsASeq

\* The parts of a stream of data are data.
LEMMA DataParts ==
    ASSUME NEW s \in Seq(Unit), NEW t \in Seq(Unit), s \o t \in Seq(Data)
    PROVE  s \in Seq(Data) /\ t \in Seq(Data)
  <1> DEFINE x == s \o t
             m == Len(s)
             n == Len(t)
  <1>1. /\ Len(x) = m + n /\ m \in Nat /\ n \in Nat
        /\ \A i \in 1 .. m + n : x[i] = IF i <= m THEN s[i] ELSE t[i - m]
    BY ConcatProperties, LenProperties
  <1>2. \A i \in 1 .. Len(x) : x[i] \in Data
    BY ElementOfSeq
  <1>3. s = [i \in 1 .. m |-> s[i]] /\ t = [i \in 1 .. n |-> t[i]]
    BY LenProperties
  <1> HIDE DEF x, m, n
  <1>4. \A i \in 1 .. m : s[i] \in Data
    <2> SUFFICES ASSUME NEW i \in 1 .. m PROVE s[i] \in Data
      OBVIOUS
    <2>1. i \in 1 .. m + n /\ i <= m
      BY <1>1
    <2> QED
      BY <1>1, <1>2, <2>1
  <1>5. \A i \in 1 .. n : t[i] \in Data
    <2> SUFFICES ASSUME NEW i \in 1 .. n PROVE t[i] \in Data
      OBVIOUS
    <2>1. m + i \in 1 .. m + n /\ ~(m + i <= m) /\ (m + i) - m = i
      BY <1>1
    <2> QED
      BY <1>1, <1>2, <2>1
  <1>6. [i \in 1 .. m |-> s[i]] \in Seq(Data)
    BY <1>1, <1>4, IsASeq
  <1>7. [i \in 1 .. n |-> t[i]] \in Seq(Data)
    BY <1>1, <1>5, IsASeq
  <1> QED
    BY <1>3, <1>6, <1>7

\* A payload is data.
LEMMA PayloadType ==
    ASSUME NEW s \in Seq(Unit)
    PROVE  Payload(s) \in Seq(Data) /\ Payload(s) \in Seq(Unit)
  <1>1. Unit \cap Data = Data
    BY DEF Unit, Data
  <1>2. Payload(s) \in Seq(Unit \cap Data)
    BY KeepType DEF Payload
  <1>3. Payload(s) \in Seq(Data)
    BY <1>1, <1>2
  <1> QED
    BY <1>3, DataUnits

\* The payload of two streams is that of the first and that of the second.
LEMMA PayloadConcat ==
    \A s, t \in Seq(Unit) : Payload(s \o t) = Payload(s) \o Payload(t)
  BY KeepConcat DEF Payload

\* Data is its own payload.
LEMMA PayloadOfData ==
    ASSUME NEW s \in Seq(Data)
    PROVE  Payload(s) = s
  <1>1. \A i \in 1 .. Len(s) : s[i] \in Data
    BY LenProperties, ElementOfSeq
  <1> QED
    BY <1>1, KeepAll DEF Payload

\* A length is no payload.
LEMMA PayloadOfLength ==
    ASSUME NEW n \in Nat
    PROVE  <<Len4(n)>> \in Seq(Unit) /\ Payload(<<Len4(n)>>) = <<>>
  <1> DEFINE u == Len4(n)
  <1>1. u \in Unit /\ u \notin Data
    BY DEF Len4, Unit, Data
  <1> HIDE DEF u
  <1>2. <<>> \in Seq(Unit) /\ Append(<<>>, u) = <<u>> /\ <<u>> \in Seq(Unit)
    BY <1>1
  <1>3. Keep(Append(<<>>, u), Data) = Keep(<<>>, Data)
    BY <1>1, <1>2, KeepAppend
  <1> QED
    BY <1>2, <1>3, KeepEmpty DEF Payload, u

\* A packet is a stream.
LEMMA EncryptUnits ==
    ASSUME NEW s \in Seq(Unit)
    PROVE  Encrypt(s) \in Seq(Unit)
  <1>1. <<Len4(Len(s))>> \in Seq(Unit)
    BY LenProperties, PayloadOfLength
  <1> QED
    BY <1>1, ConcatProperties DEF Encrypt

\* Encrypting adds nothing to the payload.
LEMMA PayloadOfPacket ==
    ASSUME NEW s \in Seq(Data)
    PROVE  Payload(Encrypt(s)) = s
  <1> DEFINE l == <<Len4(Len(s))>>
  <1>1. l \in Seq(Unit) /\ Payload(l) = <<>>
    BY LenProperties, PayloadOfLength
  <1>2. s \in Seq(Unit) /\ Payload(s) = s
    BY DataUnits, PayloadOfData
  <1> HIDE DEF l
  <1>3. Payload(l \o s) = Payload(l) \o Payload(s)
    BY <1>1, <1>2, PayloadConcat
  <1>4. <<>> \o s = s
    BY ConcatEmptySeq
  <1> QED
    BY <1>1, <1>2, <1>3, <1>4 DEF Encrypt, l

\* The data of the first packet on the way in joins what came out,
LEMMA PayloadLeaves ==
    ASSUME NEW o \in Seq(Unit), NEW d \in Seq(Data), NEW x \in Seq(Unit)
    PROVE  (o \o d) \o Payload(x) = o \o Payload(Encrypt(d) \o x)
  <1> DEFINE e == Encrypt(d)
             p == Payload(x)
  <1>1. d \in Seq(Unit)
    BY DataUnits
  <1>2. e \in Seq(Unit)
    BY <1>1, EncryptUnits
  <1>3. Payload(e) = d
    BY PayloadOfPacket
  <1>4. p \in Seq(Unit)
    BY PayloadType
  <1> HIDE DEF e
  <1>5. Payload(e \o x) = Payload(e) \o p
    BY <1>2, PayloadConcat, Zenon
  <1> HIDE DEF p
  <1>6. (o \o d) \o p = o \o (d \o p)
    BY <1>1, <1>4, Regroup
  <1>7. (o \o d) \o p = o \o Payload(e \o x)
    BY <1>3, <1>5, <1>6
  <1> QED
    BY <1>7 DEF e, p

\* and data that is packed on the way out stays the same data.
LEMMA PayloadPacked ==
    ASSUME NEW o \in Seq(Unit), NEW d \in Seq(Data), NEW x \in Seq(Unit)
    PROVE  Payload(o \o Encrypt(d)) \o x = Payload(o) \o (d \o x)
  <1> DEFINE e == Encrypt(d)
             p == Payload(o)
  <1>1. d \in Seq(Unit)
    BY DataUnits
  <1>2. e \in Seq(Unit)
    BY <1>1, EncryptUnits
  <1>3. Payload(e) = d
    BY PayloadOfPacket
  <1>4. p \in Seq(Unit)
    BY PayloadType
  <1> HIDE DEF e
  <1>5. Payload(o \o e) = p \o Payload(e)
    BY <1>2, PayloadConcat, Zenon
  <1> HIDE DEF p
  <1>6. (p \o d) \o x = p \o (d \o x)
    BY <1>1, <1>4, Regroup
  <1>7. Payload(o \o e) \o x = p \o (d \o x)
    BY <1>3, <1>5, <1>6
  <1> QED
    BY <1>7 DEF e, p

\* A complete packet is a length, its data and what follows.
LEMMA PacketSplit ==
    ASSUME NEW s \in Seq(Unit), Decrypts(s)
    PROVE  /\ s = Encrypt(Decrypted(s)) \o AfterPacket(s)
           /\ Len(Decrypted(s)) = s[1][2]
  <1> DEFINE k == s[1][2]
             data == SubSeq(s, 2, k + 1)
             rest == SubSeq(s, k + 2, Len(s))
  <1>1. Len(s) \in Nat /\ k \in 1 .. Len(s) - 1 /\ s[1][1] = "len"
    BY LenProperties DEF Decrypts
  <1>2. s[1] = Len4(k)
    <2>1. s[1] \in Unit
      BY <1>1, ElementOfSeq
    <2> QED
      BY <1>1, <2>1 DEF Unit, Len4
  <1>3. Len(data) = k /\ data \in Seq(Unit)
    <2>1. \A i \in 2 .. k + 1 : s[i] \in Unit
      BY <1>1, ElementOfSeq
    <2>2. 2 \in Int /\ k + 1 \in Int
      BY <1>1
    <2>3. /\ Len(data) = IF 2 <= k + 1 THEN (k + 1) - 2 + 1 ELSE 0
          /\ data \in Seq(Unit)
      BY <2>1, <2>2, SubSeqProperties
    <2> QED
      BY <1>1, <2>3
  <1>4. SubSeq(s, 1, k + 1) = <<Len4(k)>> \o data
    <2>1. 1 \in 1 .. Len(s) /\ k + 1 \in 1 .. Len(s)
      BY <1>1
    <2>2. SubSeq(s, 1, k + 1) = <<s[1]>> \o SubSeq(s, 1 + 1, k + 1)
      BY <2>1, SubSeqRecursiveFirst
    <2>3. 1 + 1 = 2
      OBVIOUS
    <2> QED
      BY <1>2, <2>2, <2>3, Zenon
  <1>5. SubSeq(s, 1, k + 1) \o rest = s
    <2>1. k + 1 \in 0 .. Len(s) /\ (k + 1) + 1 = k + 2
      BY <1>1
    <2> QED
      BY <2>1, CutJoin
  <1> QED
    BY <1>3, <1>4, <1>5 DEF Encrypt, Decrypted, AfterPacket

-----------------------------------------------------------------------------
(* Buffers                                                                 *)

USE BackendAssumption, BufferAssumption, FailingAssumption, DataAssumption

\* There are two ends.
LEMMA OtherFacts ==
    /\ Other("front") = "back" /\ Other("back") = "front"
    /\ "front" \in Ends /\ "back" \in Ends /\ "front" # "back"
  BY DEF Other, Ends

\* send and recv take no more than there is and no more than fits.
LEMMA LeastFacts ==
    ASSUME NEW m \in Nat, NEW n \in Nat
    PROVE  Least(m, n) \in 0 .. m /\ Least(m, n) <= n
  BY DEF Least

\* A buffer is empty when its length says so.
LEMMA EmptyFacts ==
    ASSUME NEW s \in Seq(Unit)
    PROVE  Len(s) \in Nat /\ (s = <<>> <=> Len(s) = 0)
  BY EmptySeq, LenProperties

\* encrypt_cfb adds one unit, the length.
LEMMA EncryptFacts ==
    ASSUME NEW s \in Seq(Unit)
    PROVE  /\ Encrypt(s) \in Seq(Unit)
           /\ Len(Encrypt(s)) = Len(s) + 1
  <1>1. Len4(Len(s)) \in Unit
    BY LenProperties DEF Len4, Unit
  <1>2. <<Len4(Len(s))>> \in Seq(Unit) /\ Len(<<Len4(Len(s))>>) = 1
    BY <1>1
  <1> QED
    BY <1>2, ConcatProperties, LenProperties DEF Encrypt

\* A complete packet has data, and leaves a buffer.
LEMMA DecryptFacts ==
    ASSUME NEW s \in Seq(Unit), Decrypts(s)
    PROVE  /\ Decrypted(s) \in Seq(Unit) /\ Decrypted(s) # <<>>
           /\ AfterPacket(s) \in Seq(Unit)
  <1> DEFINE k == s[1][2]
  <1>1. Len(s) \in Nat /\ k \in 1 .. Len(s) - 1
    BY LenProperties DEF Decrypts
  <1>2. \A i \in 1 .. Len(s) : s[i] \in Unit
    BY ElementOfSeq
  <1>3. Decrypted(s) \in Seq(Unit) /\ Len(Decrypted(s)) = k
    <2>1. \A i \in 2 .. k + 1 : s[i] \in Unit
      BY <1>1, <1>2
    <2>2. 2 \in Int /\ k + 1 \in Int
      BY <1>1
    <2>3. /\ SubSeq(s, 2, k + 1) \in Seq(Unit)
          /\ Len(SubSeq(s, 2, k + 1)) =
               IF 2 <= k + 1 THEN (k + 1) - 2 + 1 ELSE 0
      BY <2>1, <2>2, SubSeqProperties
    <2> QED
      BY <1>1, <2>3 DEF Decrypted
  <1>4. AfterPacket(s) \in Seq(Unit)
    <2>1. \A i \in k + 2 .. Len(s) : s[i] \in Unit
      BY <1>1, <1>2
    <2>2. k + 2 \in Int /\ Len(s) \in Int
      BY <1>1
    <2> QED
      BY <2>1, <2>2, SubSeqProperties DEF AfterPacket
  <1> QED
    BY <1>1, <1>3, <1>4, EmptyFacts

-----------------------------------------------------------------------------
(* Packets                                                                 *)

\* A unit is data or the length of a packet.
LEMMA UnitKinds ==
    ASSUME NEW u \in Unit
    PROVE  IsData(u) <=> u \in Data
  BY DEF Unit, IsData, Data

\* The elements of a concatenation.
LEMMA ConcatIndex ==
    ASSUME NEW s \in Seq(Unit), NEW t \in Seq(Unit)
    PROVE  /\ s \o t \in Seq(Unit) /\ Len(s \o t) = Len(s) + Len(t)
           /\ \A i \in 1 .. Len(s) : (s \o t)[i] = s[i]
           /\ \A i \in 1 .. Len(t) : (s \o t)[Len(s) + i] = t[i]
  <1>1. Len(s) \in Nat /\ Len(t) \in Nat
    BY LenProperties
  <1>2. /\ s \o t \in Seq(Unit) /\ Len(s \o t) = Len(s) + Len(t)
        /\ \A i \in 1 .. Len(s) + Len(t) :
              (s \o t)[i] = IF i <= Len(s) THEN s[i] ELSE t[i - Len(s)]
    BY ConcatProperties
  <1>3. ASSUME NEW i \in 1 .. Len(t)
        PROVE  (s \o t)[Len(s) + i] = t[i]
    <2>1. /\ Len(s) + i \in 1 .. Len(s) + Len(t) /\ ~(Len(s) + i <= Len(s))
          /\ (Len(s) + i) - Len(s) = i
      BY <1>1
    <2> QED
      BY <1>2, <2>1
  <1> QED
    BY <1>1, <1>2, <1>3

\* The elements of a packet.
LEMMA PacketIndex ==
    ASSUME NEW d \in Seq(Unit), NEW e, e = Encrypt(d)
    PROVE  /\ e \in Seq(Unit) /\ Len(e) = 1 + Len(d)
           /\ e[1] = Len4(Len(d)) /\ \A i \in 1 .. Len(d) : e[1 + i] = d[i]
  <1> DEFINE l == <<Len4(Len(d))>>
  <1>1. l \in Seq(Unit) /\ Len(l) = 1 /\ l[1] = Len4(Len(d))
    BY LenProperties, PayloadOfLength
  <1> HIDE DEF l
  <1>2. e = l \o d
    BY DEF l, Encrypt
  <1>3. /\ l \o d \in Seq(Unit) /\ Len(l \o d) = Len(l) + Len(d)
        /\ \A i \in 1 .. Len(l) : (l \o d)[i] = l[i]
        /\ \A i \in 1 .. Len(d) : (l \o d)[Len(l) + i] = d[i]
    BY <1>1, ConcatIndex
  <1> QED
    BY <1>1, <1>2, <1>3

\* What a first packet announces is data, and the rest is cut into packets
\* as before.
LEMMA FirstPacket ==
    ASSUME NEW d \in Seq(Unit), NEW y \in Seq(Unit), Packets(Encrypt(d) \o y)
    PROVE  d \in Seq(Data) /\ Packets(y)
  <1> DEFINE e == Encrypt(d)
             k == Len(d)
             l == Len(y)
             x == e \o y
  <1>1. k \in Nat /\ l \in Nat
    BY LenProperties
  <1>2. /\ e \in Seq(Unit) /\ Len(e) = 1 + k
        /\ e[1] = Len4(k) /\ \A i \in 1 .. k : e[1 + i] = d[i]
    BY PacketIndex
  <1> HIDE DEF e
  <1>3. /\ Len(x) = Len(e) + l
        /\ \A i \in 1 .. Len(e) : x[i] = e[i]
        /\ \A i \in 1 .. l : x[Len(e) + i] = y[i]
    BY <1>2, ConcatIndex
  <1>4. Packets(x)
    BY DEF e
  <1> HIDE DEF x, k, l
  <1>5. Len(x) = (1 + k) + l
    BY <1>2, <1>3
  <1>6. x[1] = Len4(k)
    BY <1>1, <1>2, <1>3
  <1>7. \A i \in 1 .. l : x[(1 + k) + i] = y[i]
    BY <1>2, <1>3
  <1>8. \A i \in 1 .. k : x[1 + i] = d[i]
    BY <1>1, <1>2, <1>3
  <1>9. \A i \in 1 .. (1 + k) + l : ~IsData(x[i]) =>
          \A j \in i + 1 .. (1 + k) + l :
             /\ j <= i + x[i][2] => IsData(x[j])
             /\ j = i + x[i][2] + 1 => ~IsData(x[j])
    BY <1>4, <1>5 DEF Packets
  <1>10. ~IsData(x[1]) /\ x[1][2] = k
    BY <1>6 DEF Len4, IsData
  <1>11. ASSUME NEW j \in 2 .. (1 + k) + l
         PROVE  /\ j <= 1 + k => IsData(x[j])
                /\ j = 1 + k + 1 => ~IsData(x[j])
    <2>1. 1 \in 1 .. (1 + k) + l /\ j \in 1 + 1 .. (1 + k) + l
      BY <1>1
    <2>2. /\ j <= 1 + x[1][2] => IsData(x[j])
          /\ j = 1 + x[1][2] + 1 => ~IsData(x[j])
      BY <1>9, <1>10, <2>1, Zenon
    <2> QED
      BY <1>10, <2>2, Zenon
  <1>12. ASSUME NEW i \in 1 .. k
        PROVE  d[i] \in Data
    <2>5. 1 + i \in 2 .. (1 + k) + l
      BY <1>1
    <2>6. 1 + i <= 1 + k
      BY <1>1
    <2>2. IsData(x[1 + i])
      BY <1>11, <2>5, <2>6, Zenon
    <2>3. x[1 + i] = d[i]
      BY <1>8
    <2>4. d[i] \in Unit
      BY ElementOfSeq DEF k
    <2> QED
      BY <2>2, <2>3, <2>4, UnitKinds
  <1>13. d \in Seq(Data)
    <2>1. d = [i \in 1 .. k |-> d[i]]
      BY LenProperties DEF k
    <2>2. [i \in 1 .. k |-> d[i]] \in Seq(Data)
      BY <1>1, <1>12, IsASeq
    <2> QED
      BY <2>1, <2>2
  <1>14. y # <<>> => ~IsData(y[1])
    <2>1. SUFFICES ASSUME 1 <= l PROVE ~IsData(y[1])
      BY <1>1, EmptyFacts DEF l
    <2>2. /\ (1 + k) + 1 \in 2 .. (1 + k) + l /\ 1 \in 1 .. l
          /\ (1 + k) + 1 = 1 + k + 1
      BY <1>1, <2>1
    <2> QED
      BY <1>11, <1>7, <2>2
  <1>15. ASSUME NEW i \in 1 .. l, ~IsData(y[i]), NEW j \in i + 1 .. l
        PROVE  /\ j <= i + y[i][2] => IsData(y[j])
               /\ j = i + y[i][2] + 1 => ~IsData(y[j])
    <2> DEFINE n == y[i][2]
    <2>1. /\ (1 + k) + i \in 1 .. (1 + k) + l
          /\ (1 + k) + j \in (1 + k) + i + 1 .. (1 + k) + l
          /\ j \in 1 .. l
      BY <1>1
    <2>2. x[(1 + k) + i] = y[i] /\ x[(1 + k) + j] = y[j]
      BY <1>7, <2>1
    <2>3. n \in Nat
      <3>1. y[i] \in Unit
        BY ElementOfSeq DEF l
      <3> QED
        BY <1>15, <3>1 DEF Unit, IsData
    <2>4. /\ (1 + k) + j <= (1 + k) + i + n => IsData(y[j])
          /\ (1 + k) + j = (1 + k) + i + n + 1 => ~IsData(y[j])
      BY <1>9, <1>15, <2>1, <2>2
    <2> HIDE DEF n
    <2>5. /\ j <= i + n => IsData(y[j])
          /\ j = i + n + 1 => ~IsData(y[j])
      BY <1>1, <2>3, <2>4
    <2> QED
      BY <2>5 DEF n
  <1> QED
    BY <1>13, <1>14, <1>15 DEF Packets, l

\* So decrypting takes a packet off.
LEMMA PacketsRest ==
    ASSUME NEW s \in Seq(Unit), NEW w \in Seq(Unit), Decrypts(s),
           Packets(s \o w)
    PROVE  /\ Decrypted(s) \in Seq(Data) /\ Packets(AfterPacket(s) \o w)
           /\ s \o w = Encrypt(Decrypted(s)) \o (AfterPacket(s) \o w)
  <1> DEFINE d == Decrypted(s)
             e == Encrypt(d)
             a == AfterPacket(s)
  <1>1. d \in Seq(Unit)
    BY DecryptFacts
  <1>2. a \in Seq(Unit)
    BY DecryptFacts
  <1>3. s = e \o a
    BY PacketSplit
  <1> HIDE DEF d, a
  <1>4. e \in Seq(Unit)
    BY <1>1, PacketIndex
  <1> HIDE DEF e
  <1>5. (e \o a) \o w = e \o (a \o w)
    <2>1. \A v \in Seq(Unit) : (e \o v) \o w = e \o (v \o w)
      BY <1>4, Regroup
    <2> QED
      BY <1>2, <2>1, Zenon
  <1>6. s \o w = e \o (a \o w)
    BY <1>3, <1>5
  <1>7. a \o w \in Seq(Unit)
    BY <1>2, ConcatProperties
  <1>8. Packets(e \o (a \o w))
    BY <1>6
  <1>9. d \in Seq(Data) /\ Packets(a \o w)
    BY <1>1, <1>7, <1>8, FirstPacket, Zenon DEF e
  <1> QED
    BY <1>6, <1>9 DEF d, a, e

\* A handshake packet is two units long.
LEMMA HandshakeUnits ==
    ASSUME NEW u \in Data
    PROVE  u \in Unit /\ <<u>> \in Seq(Data) /\ Len(Encrypt(<<u>>)) = 2
  <1>1. u \in Unit
    BY DEF Unit, Data
  <1> DEFINE s == <<u>>
  <1>2. s \in Seq(Unit) /\ Len(s) = 1 /\ s \in Seq(Data)
    BY <1>1
  <1> HIDE DEF s
  <1>3. Len(Encrypt(s)) = Len(s) + 1
    BY <1>2, EncryptFacts
  <1> QED
    BY <1>1, <1>2, <1>3 DEF s

\* What follows a handshake of one unit in a stream.
LEMMA AfterHandshake ==
    ASSUME NEW x \in Seq(Unit), NEW u \in Data,
           Decrypts(x), Decrypted(x) = <<u>>, Packets(x)
    PROVE  LET w == AfterPacket(x) IN
           /\ w \in Seq(Unit) /\ x = Encrypt(<<u>>) \o w
           /\ Packets(w) /\ Payload(w) = Tail(Payload(x))
  <1> DEFINE w == AfterPacket(x)
             d == <<u>>
             e == Encrypt(d)
  <1>1. Decrypts(x) /\ Decrypted(x) = d /\ Packets(x)
    OBVIOUS
  <1>2. w \in Seq(Unit)
    BY <1>1, DecryptFacts
  <1>3. x = e \o w
    BY <1>1, PacketSplit
  <1>4. d \in Seq(Data) /\ d \in Seq(Unit) /\ u \in Unit
    BY HandshakeUnits, DataUnits
  <1> HIDE DEF w
  <1>5. Packets(w)
    <2>1. Packets(e \o w)
      BY <1>1, <1>3
    <2> HIDE DEF d
    <2> QED
      BY <1>2, <1>4, <2>1, FirstPacket
  <1>6. Payload(x) = d \o Payload(w)
    <2> HIDE DEF d
    <2>1. e \in Seq(Unit)
      BY <1>4, EncryptUnits
    <2>2. Payload(e) = d
      BY <1>4, PayloadOfPacket
    <2> HIDE DEF e
    <2>3. Payload(e \o w) = Payload(e) \o Payload(w)
      BY <1>2, <2>1, PayloadConcat, Zenon
    <2> QED
      BY <1>3, <2>2, <2>3
  <1>7. Tail(d \o Payload(w)) = Payload(w)
    BY <1>2, <1>4, PayloadType, TailAfter
  <1> QED
    BY <1>2, <1>3, <1>5, <1>6, <1>7 DEF w

\* When it is complete nothing else has arrived.
LEMMA OnlyHandshake ==
    ASSUME NEW x \in Seq(Unit), NEW u \in Data,
           Decrypts(x), Decrypted(x) = <<u>>, Packets(x),
           NEW r \in Seq(Unit), NEW i \in Seq(Unit), NEW t \in Seq(Unit),
           r \o (i \o t) = x, Decrypts(r), Len(t) >= Len(x) - 2
    PROVE  i = <<>> /\ t = AfterPacket(x)
  <1>1. /\ Len(r) \in Nat /\ Len(i) \in Nat /\ Len(t) \in Nat
        /\ i \o t \in Seq(Unit) /\ Len(i \o t) = Len(i) + Len(t)
    BY ConcatProperties, LenProperties
  <1>2. Len(x) = Len(r) + (Len(i) + Len(t))
    BY <1>1, ConcatProperties
  <1>3. Len(r) >= 2
    BY <1>1 DEF Decrypts
  <1>4. Len(r) = 2 /\ Len(i) = 0
    <2> DEFINE j == Len(r)
               k == Len(i)
               l == Len(t)
               m == Len(x)
    <2>1. /\ j \in Nat /\ k \in Nat /\ l \in Nat
          /\ m = j + (k + l) /\ j >= 2 /\ l >= m - 2
      BY <1>1, <1>2, <1>3
    <2> HIDE DEF j, k, l, m
    <2>2. j = 2 /\ k = 0
      BY <2>1
    <2> QED
      BY <2>2 DEF j, k
  <1>5. i = <<>>
    BY <1>4, EmptySeq
  <1>6. r \o t = x
    BY <1>5, ConcatEmptySeq
  <1> DEFINE w == AfterPacket(x)
             e == Encrypt(<<u>>)
  <1>7. w \in Seq(Unit) /\ x = e \o w
    BY AfterHandshake
  <1>8. Len(e) = 2 /\ e \in Seq(Unit)
    BY HandshakeUnits, EncryptUnits, DataUnits
  <1> HIDE DEF w, e
  <1>9. r \o t = e \o w /\ Len(r) = Len(e)
    BY <1>4, <1>6, <1>7, <1>8
  <1>10. t = w
    BY <1>7, <1>8, <1>9, SameCut
  <1> QED
    BY <1>5, <1>10 DEF w

-----------------------------------------------------------------------------
(* Typing                                                                  *)

Streams == [Ends -> Seq(Unit)]

\* The types of what is declared in Relay, but for pc, which takes more
\* values in one proxy than in the other.
Sized ==
    /\ open \in BOOLEAN
    /\ stage \in [Ends -> {"none", "handshake", "streaming"}]
    /\ mask \in [Ends -> SUBSET Kinds]
    /\ armed \in SUBSET Ends /\ fin \in SUBSET Ends
    /\ batch \subseteq LiveEvent /\ cur \in LiveEvent \cup {NoEvent}
    /\ rxbuf \in Streams /\ txbuf \in Streams
    /\ inq \in Streams /\ outq \in Streams
    /\ todo \in Streams /\ got \in Streams
    /\ \A c \in Ends : Len(inq[c]) <= RcvBuf /\ Len(outq[c]) <= SndBuf

\* The events kqueue reports: one flag each.
Read(c) == [conn |-> c, read |-> TRUE, write |-> FALSE, eof |-> FALSE]
Write(c) == [conn |-> c, read |-> FALSE, write |-> TRUE, eof |-> FALSE]
Eof(c) == [conn |-> c, read |-> FALSE, write |-> FALSE, eof |-> TRUE]

\* The calls of the poller make masks of masks.
LEMMA MaskFacts ==
    ASSUME NEW m \in SUBSET Kinds
    PROVE  /\ WatchMask \in SUBSET Kinds
           /\ WatchReadMask(m) \in SUBSET Kinds
           /\ WatchWriteMask(m) \in SUBSET Kinds
           /\ UnwatchReadMask(m) \in SUBSET Kinds
           /\ UnwatchWriteMask(m) \in SUBSET Kinds
  BY DEF Kinds, WatchMask, WatchReadMask, WatchWriteMask, UnwatchReadMask,
         UnwatchWriteMask, Enabled, Disabled

\* What is left of an event is an event or nothing.
LEMMA RemainingFacts ==
    ASSUME NEW e \in Event
    PROVE  Remaining(e) \in LiveEvent \cup {NoEvent}
  BY DEF Remaining, LiveEvent

\* The event in hand.
LEMMA CurIsEvent ==
    ASSUME Sized
    PROVE  cur \in Event /\ cur.conn \in Ends
  <1>1. NoEvent \in Event
    BY DEF NoEvent, Event, Ends
  <1>2. cur \in Event
    BY <1>1 DEF Sized, LiveEvent
  <1> QED
    BY <1>2 DEF Event

\* A callback that returns leaves an event or nothing.
LEMMA ReturnsTyped ==
    ASSUME Sized, RecvReturns \/ (SendReturns /\ pc = "loop")
    PROVE  /\ cur' \in LiveEvent \cup {NoEvent}
           /\ pc' = "loop" /\ batch' = batch
  <1>1. [cur EXCEPT !.read = FALSE] \in Event
    BY CurIsEvent DEF Event
  <1>2. [cur EXCEPT !.write = FALSE] \in Event
    BY CurIsEvent DEF Event
  <1> QED
    BY <1>1, <1>2, RemainingFacts DEF RecvReturns, SendReturns

\* poller_watch and its like.
LEMMA RearmTyped ==
    ASSUME Sized, NEW S \in SUBSET Ends, Rearm(S)
    PROVE  armed' \in SUBSET Ends
  BY DEF Sized, Rearm

\* A wake-up from the network.
LEMMA WakeTyped ==
    ASSUME Sized, NEW c \in Ends, NEW asked, Wake(c, asked)
    PROVE  armed' \in SUBSET Ends
  BY DEF Sized, Wake

\* Sending s, as much as the socket of c takes.
LEMMA SendFacts ==
    ASSUME Sized, NEW c \in Ends, NEW s \in Seq(Unit), NEW n,
           n = Least(Len(s), SndBuf - Len(outq[c]))
    PROVE  /\ n \in 0 .. Len(s) /\ n <= SndBuf - Len(outq[c])
           /\ Unsent(s, n) \in Seq(Unit)
           /\ Len(Unsent(s, n)) = Len(s) - n
           /\ outq[c] \o SubSeq(s, 1, n) \in Seq(Unit)
           /\ Len(outq[c] \o SubSeq(s, 1, n)) <= SndBuf
  <1>1. /\ outq[c] \in Seq(Unit) /\ Len(outq[c]) <= SndBuf
        /\ SndBuf - Len(outq[c]) \in Nat /\ Len(s) \in Nat
    BY EmptyFacts DEF Sized, Streams
  <1>2. n \in 0 .. Len(s) /\ n <= SndBuf - Len(outq[c])
    BY <1>1, LeastFacts
  <1>3. /\ SubSeq(s, 1, n) \in Seq(Unit) /\ Len(SubSeq(s, 1, n)) = n
        /\ Unsent(s, n) \in Seq(Unit) /\ Len(Unsent(s, n)) = Len(s) - n
    BY <1>2, CutFacts DEF Unsent
  <1>4. /\ outq[c] \o SubSeq(s, 1, n) \in Seq(Unit)
        /\ Len(outq[c] \o SubSeq(s, 1, n)) = Len(outq[c]) + n
    BY <1>1, <1>3, ConcatProperties
  <1> QED
    BY <1>1, <1>2, <1>3, <1>4, EmptyFacts

\* Taking what one recv returns from the socket of c.
LEMMA ReceiveFacts ==
    ASSUME Sized, NEW c \in Ends
    PROVE  /\ Received(c) \in 0 .. Len(inq[c]) /\ Received(c) <= RecvMax
           /\ inq[c] # <<>> => Received(c) > 0
           /\ SubSeq(inq[c], 1, Received(c)) \in Seq(Unit)
           /\ Len(SubSeq(inq[c], 1, Received(c))) = Received(c)
           /\ TakeReceived(c) => /\ inq' \in Streams
                                 /\ \A e \in Ends : Len(inq'[e]) <= RcvBuf
  <1>1. inq \in Streams /\ inq[c] \in Seq(Unit) /\ Len(inq[c]) \in Nat
    BY EmptyFacts DEF Sized, Streams
  <1>2. Received(c) \in 0 .. Len(inq[c]) /\ Received(c) <= RecvMax
    BY <1>1 DEF Received, Least
  <1>3. inq[c] # <<>> => Received(c) > 0
    BY <1>1, EmptyFacts DEF Received, Least
  <1>4. /\ SubSeq(inq[c], 1, Received(c)) \in Seq(Unit)
        /\ Len(SubSeq(inq[c], 1, Received(c))) = Received(c)
        /\ SubSeq(inq[c], Received(c) + 1, Len(inq[c])) \in Seq(Unit)
        /\ Len(SubSeq(inq[c], Received(c) + 1, Len(inq[c])))
             = Len(inq[c]) - Received(c)
    BY <1>1, <1>2, CutFacts
  <1>5. ASSUME TakeReceived(c)
        PROVE  inq' \in Streams /\ \A e \in Ends : Len(inq'[e]) <= RcvBuf
    <2>1. inq' = [inq EXCEPT ![c] = SubSeq(inq[c], Received(c) + 1, Len(inq[c]))]
      BY <1>5 DEF TakeReceived
    <2>2. inq' \in Streams
      BY <1>1, <1>4, <2>1 DEF Streams
    <2>3. \A e \in Ends : Len(inq[e]) <= RcvBuf
      BY DEF Sized
    <2>4. Len(inq'[c]) <= RcvBuf
      BY <1>1, <1>2, <1>4, <2>1, <2>3 DEF Streams
    <2> QED
      BY <1>1, <2>1, <2>2, <2>3, <2>4 DEF Streams
  <1> QED
    BY <1>2, <1>3, <1>4, <1>5

\* append_txbuf, send and move_txbuf.
LEMMA ForwardTyped ==
    ASSUME Sized, NEW c \in Ends, NEW d \in Ends, NEW data \in Seq(Unit),
           Forward(c, d, data)
    PROVE  /\ txbuf' \in Streams /\ outq' \in Streams
           /\ \A e \in Ends : Len(outq'[e]) <= SndBuf
           /\ mask' \in [Ends -> SUBSET Kinds] /\ armed' \in SUBSET Ends
  <1> DEFINE all == txbuf[d] \o data
             n == Least(Len(all), SndBuf - Len(outq[d]))
  <1>1. txbuf \in Streams /\ outq \in Streams /\ all \in Seq(Unit)
    BY ConcatProperties DEF Sized, Streams
  <1>2. /\ Unsent(all, n) \in Seq(Unit)
        /\ outq[d] \o SubSeq(all, 1, n) \in Seq(Unit)
        /\ Len(outq[d] \o SubSeq(all, 1, n)) <= SndBuf
    <2> HIDE DEF all
    <2> QED
      BY <1>1, SendFacts
  <1>3. /\ txbuf' = [txbuf EXCEPT ![d] = Unsent(all, n)]
        /\ outq' = [outq EXCEPT ![d] = outq[d] \o SubSeq(all, 1, n)]
    BY DEF Forward
  <1>4. \A e \in Ends : Len(outq[e]) <= SndBuf
    BY DEF Sized
  <1>5. mask' \in [Ends -> SUBSET Kinds] /\ armed' \in SUBSET Ends
    <2>1. mask \in [Ends -> SUBSET Kinds] /\ armed \in SUBSET Ends
      BY DEF Sized
    <2>2. CASE UNCHANGED pollVars
      BY <2>1, <2>2 DEF pollVars
    <2>3. CASE /\ mask' = [mask EXCEPT ![c] = UnwatchReadMask(@),
                                      ![d] = WatchWriteMask(@)]
               /\ Rearm(Ends)
      BY <2>1, <2>3, MaskFacts, RearmTyped DEF Sized
    <2> QED
      BY <2>2, <2>3 DEF Forward
  <1> HIDE DEF all, n
  <1> QED
    BY <1>1, <1>2, <1>3, <1>4, <1>5 DEF Streams

\* The forms are events.
LEMMA FormFacts ==
    ASSUME NEW c \in Ends
    PROVE  Read(c) \in LiveEvent /\ Write(c) \in LiveEvent /\ Eof(c) \in LiveEvent
  BY DEF Read, Write, Eof, LiveEvent, Event

\* What kqueue reports was asked for.
LEMMA KqueueFacts ==
    ASSUME NEW e \in KqueueEvents
    PROVE  \E c \in Ends :
              \/ "in" \in mask[c] /\ (e = Read(c) \/ e = Eof(c))
              \/ "out" \in mask[c] /\ e = Write(c)
  <1>1. PICK c \in Ends :
          \/ /\ "in" \in mask[c]
             /\ e = [conn |-> c, read |-> c \notin fin, write |-> FALSE,
                     eof |-> c \in fin]
          \/ "out" \in mask[c] /\ e = Write(c)
    BY DEF KqueueEvents, Write
  <1>2. CASE c \in fin
    <2>1. (c \in fin) = TRUE /\ (c \notin fin) = FALSE
      BY <1>2
    <2> QED
      BY <1>1, <2>1, Zenon DEF Eof
  <1>3. CASE c \notin fin
    <2>1. (c \in fin) = FALSE /\ (c \notin fin) = TRUE
      BY <1>3
    <2> QED
      BY <1>1, <2>1, Zenon DEF Read
  <1> QED
    BY <1>2, <1>3

\* What poller_wait reports are events.
LEMMA EventsTyped ==
    ASSUME Sized
    PROVE  EpollEvents \subseteq LiveEvent /\ KqueueEvents \subseteq LiveEvent
  <1>1. ASSUME NEW e \in EpollEvents
        PROVE  e \in LiveEvent
    <2>1. PICK c \in armed :
            /\ Interesting(c)
            /\ e = [conn |-> c,
                    read |-> "in" \in mask[c] /\ Readable(c),
                    write |-> "out" \in mask[c] /\ Writable(c),
                    eof |-> c \in fin]
      BY DEF EpollEvents
    <2>2. e \in Event
      BY <2>1 DEF Event, Sized
    <2>3. e.read \/ e.write \/ e.eof
      BY <2>1 DEF Interesting
    <2> QED
      BY <2>2, <2>3 DEF LiveEvent
  <1>2. ASSUME NEW e \in KqueueEvents
        PROVE  e \in LiveEvent
    BY <1>2, KqueueFacts, FormFacts
  <1> QED
    BY <1>1, <1>2

\* One lemma per group of actions follows.
LEMMA PollerTyped ==
    ASSUME Sized, PollerWait \/ NextEvent
    PROVE  Sized'
  <1> USE DEF Sized, sockVars, connVars, pollVars
  <1>1. CASE PollerWait
    BY <1>1, EventsTyped DEF PollerWait
  <1>2. CASE NextEvent
    BY <1>2 DEF NextEvent
  <1> QED
    BY <1>1, <1>2

LEMMA NetworkTyped ==
    ASSUME Sized, NEW c \in Ends, Arrive(c) \/ Fetch(c) \/ Finish(c)
    PROVE  Sized'
  <1> USE DEF Sized, connVars, loopVars
  <1>0. /\ armed' \in SUBSET Ends
        /\ UNCHANGED <<open, connVars, mask, loopVars>>
    BY WakeTyped DEF Arrive, Fetch, Finish
  <1>1. CASE Arrive(c)
    <2>1. /\ inq' = [inq EXCEPT ![c] = Append(inq[c], Head(todo[c]))]
          /\ todo' = [todo EXCEPT ![c] = Tail(todo[c])]
          /\ todo[c] # <<>> /\ Len(inq[c]) < RcvBuf
          /\ UNCHANGED <<outq, fin, got>>
      BY <1>1 DEF Arrive
    <2>2. Head(todo[c]) \in Unit /\ Tail(todo[c]) \in Seq(Unit)
      BY <2>1, HeadTailProperties DEF Streams
    <2>3. /\ Append(inq[c], Head(todo[c])) \in Seq(Unit)
          /\ Len(Append(inq[c], Head(todo[c]))) = Len(inq[c]) + 1
          /\ Len(inq[c]) \in Nat
      BY <2>2, AppendProperties, LenProperties DEF Streams
    <2>4. Len(Append(inq[c], Head(todo[c]))) <= RcvBuf
      BY <2>1, <2>3
    <2> QED
      BY <1>0, <2>1, <2>2, <2>3, <2>4 DEF Streams
  <1>2. CASE Fetch(c)
    <2>1. /\ got' = [got EXCEPT ![c] = Append(got[c], Head(outq[c]))]
          /\ outq' = [outq EXCEPT ![c] = Tail(outq[c])]
          /\ outq[c] # <<>>
          /\ UNCHANGED <<inq, fin, todo>>
      BY <1>2 DEF Fetch
    <2>2. /\ Head(outq[c]) \in Unit /\ Tail(outq[c]) \in Seq(Unit)
          /\ Len(Tail(outq[c])) = Len(outq[c]) - 1
          /\ Len(outq[c]) \in Nat
      BY <2>1, HeadTailProperties, LenProperties DEF Streams
    <2>3. Append(got[c], Head(outq[c])) \in Seq(Unit)
      BY <2>2, AppendProperties DEF Streams
    <2>4. Len(Tail(outq[c])) <= SndBuf
      BY <2>2
    <2> QED
      BY <1>0, <2>1, <2>2, <2>3, <2>4 DEF Streams
  <1>3. CASE Finish(c)
    BY <1>0, <1>3 DEF Finish
  <1> QED
    BY <1>1, <1>2, <1>3

LEMMA ErrorTyped ==
    ASSUME Sized, HandleError
    PROVE  Sized'
  BY DEF HandleError, Sized, sockVars, connVars, pollVars

\* A pair that was just accepted.
LEMMA RelayInitSized == RelayInit => Sized /\ pc = "loop"
  <1> SUFFICES ASSUME RelayInit PROVE Sized /\ pc = "loop"
    OBVIOUS
  <1>1. <<>> \in Seq(Unit) /\ Len(<<>>) = 0
    BY EmptySeq
  <1> QED
    BY <1>1, MaskFacts DEF RelayInit, Sized, Streams, Kinds, WatchMask

-----------------------------------------------------------------------------
(* Streams                                                                 *)

\* What c has still to handle, in the order in which it will, and what was
\* sent to the far end of c or is to be sent.
In(c) == rxbuf[c] \o inq[c] \o todo[c]
Out(c) == got[c] \o outq[c] \o txbuf[c]

\* The network moves units, it does not change what is on its way.
LEMMA NetworkMoves ==
    ASSUME Sized, NEW c \in Ends, Arrive(c) \/ Fetch(c) \/ Finish(c)
    PROVE  \A d \in Ends : In(d)' = In(d) /\ Out(d)' = Out(d)
  <1> USE DEF connVars
  <1>1. CASE Arrive(c)
    <2>1. /\ inq' = [inq EXCEPT ![c] = Append(inq[c], Head(todo[c]))]
          /\ todo' = [todo EXCEPT ![c] = Tail(todo[c])]
          /\ UNCHANGED <<rxbuf, txbuf, outq, got>> /\ todo[c] # <<>>
      BY <1>1 DEF Arrive
    <2>2. In(c)' = In(c)
      <3>1. rxbuf[c] \in Seq(Unit) /\ inq[c] \in Seq(Unit) /\ todo[c] \in Seq(Unit)
        BY DEF Sized, Streams
      <3>2. In(c)' = (rxbuf[c] \o Append(inq[c], Head(todo[c]))) \o Tail(todo[c])
        BY <2>1 DEF In, Sized, Streams
      <3>3. (rxbuf[c] \o Append(inq[c], Head(todo[c]))) \o Tail(todo[c])
              = (rxbuf[c] \o inq[c]) \o todo[c]
        BY <2>1, <3>1, UnitArrives, Zenon
      <3> QED
        BY <3>2, <3>3 DEF In
    <2> QED
      BY <2>1, <2>2 DEF In, Out, Sized, Streams
  <1>2. CASE Fetch(c)
    <2>1. /\ got' = [got EXCEPT ![c] = Append(got[c], Head(outq[c]))]
          /\ outq' = [outq EXCEPT ![c] = Tail(outq[c])]
          /\ UNCHANGED <<rxbuf, txbuf, inq, todo>> /\ outq[c] # <<>>
      BY <1>2 DEF Fetch
    <2>2. Out(c)' = Out(c)
      BY <2>1, UnitMoves DEF Out, Sized, Streams
    <2> QED
      BY <2>1, <2>2 DEF In, Out, Sized, Streams
  <1>3. CASE Finish(c)
    BY <1>3 DEF Finish, In, Out
  <1> QED
    BY <1>1, <1>2, <1>3

\* recv moves what it returns to rxbuf.
LEMMA ReceiveMoves ==
    ASSUME Sized, NEW c \in Ends, TakeReceived(c),
           rxbuf' = [rxbuf EXCEPT ![c] =
                       rxbuf[c] \o SubSeq(inq[c], 1, Received(c))],
           UNCHANGED todo
    PROVE  /\ rxbuf' \in Streams
           /\ \A d \in Ends : In(d)' = In(d)
  <1> DEFINE k == Received(c)
             pre == SubSeq(inq[c], 1, k)
             post == SubSeq(inq[c], k + 1, Len(inq[c]))
  <1>1. /\ k \in 0 .. Len(inq[c]) /\ pre \in Seq(Unit) /\ inq' \in Streams
    BY ReceiveFacts
  <1>2. rxbuf[c] \in Seq(Unit) /\ inq[c] \in Seq(Unit)
    BY DEF Sized, Streams
  <1>3. rxbuf[c] \o pre \in Seq(Unit)
    BY <1>1, <1>2, ConcatProperties
  <1>4. (rxbuf[c] \o pre) \o post = rxbuf[c] \o inq[c]
    BY <1>1, <1>2, UnitsMove
  <1>5. inq' = [inq EXCEPT ![c] = post] /\ rxbuf' = [rxbuf EXCEPT ![c] = rxbuf[c] \o pre]
    BY DEF TakeReceived
  <1> HIDE DEF k, pre, post
  <1> QED
    BY <1>3, <1>4, <1>5 DEF In, Sized, Streams

\* send moves what it takes to the send buffer.
LEMMA SendMoves ==
    ASSUME Sized, NEW c \in Ends, NEW data \in Seq(Unit), NEW all, NEW n,
           all = txbuf[c] \o data,
           n = Least(Len(all), SndBuf - Len(outq[c])),
           outq' = [outq EXCEPT ![c] = outq[c] \o SubSeq(all, 1, n)],
           txbuf' = [txbuf EXCEPT ![c] = Unsent(all, n)],
           UNCHANGED got
    PROVE  /\ txbuf' \in Streams /\ outq' \in Streams
           /\ \A d \in Ends : Len(outq'[d]) <= SndBuf
           /\ Out(c)' = Out(c) \o data
           /\ \A d \in Ends : d # c => Out(d)' = Out(d)
  <1>1. /\ got[c] \in Seq(Unit) /\ outq[c] \in Seq(Unit)
        /\ txbuf[c] \in Seq(Unit) /\ all \in Seq(Unit)
    BY ConcatProperties DEF Sized, Streams
  <1>2. /\ n \in 0 .. Len(all) /\ Unsent(all, n) \in Seq(Unit)
        /\ outq[c] \o SubSeq(all, 1, n) \in Seq(Unit)
        /\ Len(outq[c] \o SubSeq(all, 1, n)) <= SndBuf
        /\ SubSeq(all, 1, n) \in Seq(Unit)
    BY <1>1, SendFacts, CutFacts
  <1>3. Out(c)' = Out(c) \o data
    <2>1. Out(c)' = (got[c] \o (outq[c] \o SubSeq(all, 1, n))) \o Unsent(all, n)
      BY DEF Out, Sized, Streams
    <2>2. (got[c] \o (outq[c] \o SubSeq(all, 1, n))) \o Unsent(all, n)
            = ((got[c] \o outq[c]) \o txbuf[c]) \o data
      <3>1. got[c] \in Seq(Unit)
        BY <1>1
      <3>2. outq[c] \in Seq(Unit)
        BY <1>1
      <3>3. txbuf[c] \in Seq(Unit)
        BY <1>1
      <3>4. n \in 0 .. Len(all)
        BY <1>2
      <3>5. all \in Seq(Unit)
        BY <1>1
      <3>6. \A g, q, x, d \in Seq(Unit) : all = x \o d =>
              (g \o (q \o SubSeq(all, 1, n))) \o Unsent(all, n)
                = ((g \o q) \o x) \o d
        BY <3>4, <3>5, UnitsSent, Zenon
      <3>7. \A x, d \in Seq(Unit) : all = x \o d =>
              (got[c] \o (outq[c] \o SubSeq(all, 1, n))) \o Unsent(all, n)
                = ((got[c] \o outq[c]) \o x) \o d
        BY <3>1, <3>2, <3>6, Zenon
      <3> QED
        BY <3>3, <3>7, Zenon
    <2> QED
      BY <2>1, <2>2 DEF Out
  <1> QED
    BY <1>1, <1>2, <1>3 DEF Out, Sized, Streams

\* append_txbuf, send and move_txbuf add the data to what goes to the peer.
LEMMA ForwardMoves ==
    ASSUME Sized, NEW c \in Ends, NEW d \in Ends, c # d,
           NEW data \in Seq(Unit), Forward(c, d, data), UNCHANGED got
    PROVE  Out(d)' = Out(d) \o data /\ Out(c)' = Out(c)
  <1> DEFINE all == txbuf[d] \o data
             n == Least(Len(all), SndBuf - Len(outq[d]))
  <1>1. outq' = [outq EXCEPT ![d] = outq[d] \o SubSeq(all, 1, n)]
    BY DEF Forward
  <1>2. txbuf' = [txbuf EXCEPT ![d] = Unsent(all, n)]
    BY DEF Forward
  <1> HIDE DEF all
  <1>3. all = txbuf[d] \o data
    BY DEF all
  <1> QED
    BY <1>1, <1>2, <1>3, SendMoves

\* So does flushing, with no data to add.
LEMMA FlushMoves ==
    ASSUME Sized, NEW c \in Ends, NEW n,
           n = Least(Len(txbuf[c]), SndBuf - Len(outq[c])),
           outq' = [outq EXCEPT ![c] = outq[c] \o SubSeq(txbuf[c], 1, n)],
           txbuf' = [txbuf EXCEPT ![c] = Unsent(txbuf[c], n)],
           UNCHANGED got
    PROVE  \A d \in Ends : Out(d)' = Out(d)
  <1>1. txbuf[c] \in Seq(Unit) /\ <<>> \in Seq(Unit)
    BY DEF Sized, Streams
  <1>2. txbuf[c] \o <<>> = txbuf[c]
    BY <1>1, ConcatEmptySeq
  <1>3. /\ Out(c)' = Out(c) \o <<>>
        /\ \A d \in Ends : d # c => Out(d)' = Out(d)
    BY <1>1, <1>2, SendMoves
  <1>4. Out(c) \in Seq(Unit)
    BY ConcatProperties DEF Out, Sized, Streams
  <1>5. Out(c) \o <<>> = Out(c)
    BY <1>4, ConcatEmptySeq
  <1> QED
    BY <1>3, <1>5

\* What is on its way is a stream.
LEMMA InOutTyped ==
    ASSUME Sized, NEW c \in Ends
    PROVE  In(c) \in Seq(Unit) /\ Out(c) \in Seq(Unit)
  BY ConcatProperties DEF In, Out, Sized, Streams

\* The two ways to read In.
LEMMA InRegrouped ==
    ASSUME Sized, NEW c \in Ends
    PROVE  /\ inq[c] \o todo[c] \in Seq(Unit)
           /\ In(c) = rxbuf[c] \o (inq[c] \o todo[c])
  <1>1. rxbuf[c] \in Seq(Unit)
    BY DEF Sized, Streams
  <1>2. inq[c] \in Seq(Unit)
    BY DEF Sized, Streams
  <1>3. todo[c] \in Seq(Unit)
    BY DEF Sized, Streams
  <1>4. \A u, v \in Seq(Unit) : (rxbuf[c] \o u) \o v = rxbuf[c] \o (u \o v)
    BY <1>1, Regroup
  <1>5. inq[c] \o todo[c] \in Seq(Unit)
    BY <1>2, <1>3, ConcatProperties
  <1> QED
    BY <1>2, <1>3, <1>4, <1>5, Zenon DEF In

\* Nobody received anything as long as nothing came out.
LEMMA NothingOut ==
    ASSUME Sized, NEW c \in Ends, Out(c) = <<>>
    PROVE  got[c] = <<>> /\ outq[c] = <<>> /\ txbuf[c] = <<>>
  <1>1. got[c] \in Seq(Unit) /\ outq[c] \in Seq(Unit) /\ txbuf[c] \in Seq(Unit)
    BY DEF Sized, Streams
  <1>2. Len(got[c] \o outq[c]) = Len(got[c]) + Len(outq[c])
    BY <1>1, ConcatProperties
  <1>3. got[c] \o outq[c] \in Seq(Unit)
    BY <1>1, ConcatProperties
  <1>4. Len(Out(c)) = Len(got[c] \o outq[c]) + Len(txbuf[c])
    BY <1>1, <1>3, ConcatProperties DEF Out
  <1>5. Len(Out(c)) = 0
    BY EmptySeq
  <1>6. Len(got[c]) \in Nat /\ Len(outq[c]) \in Nat /\ Len(txbuf[c]) \in Nat
    BY <1>1, LenProperties
  <1>7. Len(got[c]) = 0 /\ Len(outq[c]) = 0 /\ Len(txbuf[c]) = 0
    <2> DEFINE l == Len(got[c])
               m == Len(outq[c])
               n == Len(txbuf[c])
    <2>1. (l + m) + n = 0
      BY <1>2, <1>4, <1>5
    <2>2. l \in Nat /\ m \in Nat /\ n \in Nat
      BY <1>6
    <2> HIDE DEF l, m, n
    <2>3. l = 0 /\ m = 0 /\ n = 0
      BY <2>1, <2>2
    <2> QED
      BY <2>3 DEF l, m, n
  <1>8. \A s \in Seq(Unit) : Len(s) = 0 => s = <<>>
    BY EmptySeq
  <1> QED
    BY <1>1, <1>7, <1>8, Zenon

=============================================================================
