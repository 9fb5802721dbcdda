------------------------ MODULE RequestParserProofs ------------------------
(***************************************************************************)
(* handle_client_request for requests with any port and cut into any       *)
(* number of pieces: types, the right target, and the request intact.      *)
(***************************************************************************)
EXTENDS RequestParser, SequenceTheorems, WellFoundedInduction, TLAPS

USE MaxCutsAssumption

-----------------------------------------------------------------------------
(* Numbers                                                                 *)

\* A set of numbers has a least one: what the recursive functions compute is
\* proved by their least counterexample.
LEMMA LeastElement ==
    ASSUME NEW T \in SUBSET Nat, T # {}
    PROVE  \E n \in T : \A m \in T : n <= m
  <1>1. PICK n \in T : \A m \in T : <<m, n>> \notin OpToRel(<, Nat)
    BY WFMin, NatLessThanWellFounded, Zenon
  <1>2. \A m \in T : ~ (m < n)
    BY <1>1, Zenon DEF OpToRel
  <1> QED
    BY <1>2

\* f reads the digits of s one by one.
Reading(f, s, n) ==
    /\ f \in [0 .. n -> Int] /\ f[0] = 0
    /\ \A i \in 1 .. n : f[i] = f[i - 1] * 10 + (s[i] - 48)

\* There is such a function.
LEMMA ReadingExists ==
    ASSUME NEW s, NEW n \in Nat, \A i \in 1 .. n : s[i] \in Int
    PROVE  \E f : Reading(f, s, n)
  <1> DEFINE Missing(k) == ~ \E f : Reading(f, s, k)
             T == {k \in 0 .. n : Missing(k)}
  <1>1. SUFFICES ASSUME T # {} PROVE FALSE
    <2>1. n \in 0 .. n
      OBVIOUS
    <2> HIDE DEF Missing
    <2>2. T = {} => ~Missing(n)
      BY <2>1
    <2> QED
      BY <2>2 DEF Missing
  <1>2. PICK k \in T : \A m \in T : k <= m
    <2> HIDE DEF T
    <2>1. T \in SUBSET Nat
      BY DEF T
    <2> QED
      BY <1>1, <2>1, LeastElement
  <1>3. ASSUME NEW f, Reading(f, s, k) PROVE FALSE
    BY <1>2, <1>3
  <1>4. CASE k = 0
    <2> DEFINE f == [i \in 0 .. 0 |-> 0]
    <2>1. Reading(f, s, 0)
      BY DEF Reading
    <2> HIDE DEF f
    <2> QED
      BY <1>3, <1>4, <2>1
  <1>5. CASE k # 0
    <2>1. k \in 1 .. n /\ k - 1 \in 0 .. n /\ k - 1 \notin T
      BY <1>2, <1>5
    <2>2. PICK g : Reading(g, s, k - 1)
      BY <2>1
    <2> DEFINE v == g[k - 1] * 10 + (s[k] - 48)
               f == [i \in 0 .. k |-> IF i = k THEN v ELSE g[i]]
    <2>3. /\ g \in [0 .. k - 1 -> Int] /\ g[0] = 0
          /\ \A i \in 1 .. k - 1 : g[i] = g[i - 1] * 10 + (s[i] - 48)
      BY <2>2 DEF Reading
    <2>4. v \in Int
      BY <2>1, <2>3
    <2>5. /\ \A i \in 0 .. k - 1 : f[i] = g[i]
          /\ f[k] = v /\ f \in [0 .. k -> Int]
      <3> HIDE DEF v
      <3> QED
        BY <2>1, <2>3, <2>4
    <2>6. v = f[k - 1] * 10 + (s[k] - 48)
      BY <2>1, <2>5
    <2> HIDE DEF f, v
    <2>7. f[0] = 0
      BY <2>1, <2>3, <2>5
    <2>8. ASSUME NEW i \in 1 .. k PROVE f[i] = f[i - 1] * 10 + (s[i] - 48)
      <3>1. CASE i = k
        BY <2>5, <2>6, <3>1
      <3>2. CASE i # k
        <4>1. i \in 1 .. k - 1 /\ i \in 0 .. k - 1 /\ i - 1 \in 0 .. k - 1
          BY <2>1, <3>2
        <4>2. g[i] = g[i - 1] * 10 + (s[i] - 48)
          BY <2>3, <4>1
        <4> QED
          BY <2>5, <4>1, <4>2
      <3> QED
        BY <3>1, <3>2
    <2>9. Reading(f, s, k)
      BY <2>5, <2>7, <2>8 DEF Reading
    <2> QED
      BY <1>3, <2>9
  <1> QED
    BY <1>4, <1>5, <1>2

\* The functions in Decimal and in Port.
DecimalFun(f, s) ==
    f = [i \in 0 .. Len(s) |-> IF i = 0 THEN 0 ELSE f[i - 1] * 10 + (s[i] - 48)]

PortFun(f, s) ==
    f = [i \in 0 .. Len(s) |->
           IF i = 0 THEN 0 ELSE (f[i - 1] * 10 + (s[i] - 48)) % PortSpace]

LEMMA ReadingIsDecimalFun ==
    ASSUME NEW s, NEW f, Len(s) \in Nat, Reading(f, s, Len(s))
    PROVE  DecimalFun(f, s)
  <1> DEFINE n == Len(s)
  <1>1. /\ f \in [0 .. n -> Int] /\ f[0] = 0
        /\ \A i \in 1 .. n : f[i] = f[i - 1] * 10 + (s[i] - 48)
    BY DEF Reading
  <1>2. f = [i \in 0 .. n |-> f[i]]
    BY <1>1
  <1>3. \A i \in 0 .. n : f[i] = IF i = 0 THEN 0 ELSE f[i - 1] * 10 + (s[i] - 48)
    BY <1>1
  <1> QED
    BY <1>2, <1>3 DEF DecimalFun

\* Division with remainder.
LEMMA Division ==
    ASSUME NEW v \in Int
    PROVE  \E k, r \in Int : 0 <= r /\ r < PortSpace /\ v = PortSpace * k + r
  <1>1. v \div PortSpace \in Int /\ v % PortSpace \in Int
    BY DEF PortSpace
  <1>2. 0 <= v % PortSpace /\ v % PortSpace < PortSpace
    BY DEF PortSpace
  <1>3. v = PortSpace * (v \div PortSpace) + (v % PortSpace)
    BY DEF PortSpace
  <1> QED
    BY <1>1, <1>2, <1>3

LEMMA Remainder ==
    ASSUME NEW x \in Int, NEW k \in Int
    PROVE  (PortSpace * k + x) % PortSpace = x % PortSpace
  BY DEF PortSpace

LEMMA SmallRemainder ==
    ASSUME NEW r \in Int, 0 <= r, r < PortSpace
    PROVE  r % PortSpace = r
  BY DEF PortSpace

\* A step of parse_port, with and without what was dropped before.
LEMMA Narrowing ==
    ASSUME NEW v \in Int, NEW d \in Int
    PROVE  /\ v % PortSpace \in 0 .. PortSpace - 1
           /\ ((v % PortSpace) * 10 + d) % PortSpace = (v * 10 + d) % PortSpace
  <1>1. PICK k \in Int, r \in Int : 0 <= r /\ r < PortSpace /\ v = PortSpace * k + r
    BY Division
  <1>2. v % PortSpace = r
    BY <1>1, Remainder, SmallRemainder
  <1> DEFINE x == r * 10 + d
             j == k * 10
  <1>3. x \in Int /\ j \in Int /\ v * 10 + d = PortSpace * j + x
    BY <1>1 DEF PortSpace
  <1> HIDE DEF x, j
  <1>4. (v * 10 + d) % PortSpace = x % PortSpace
    BY <1>3, Remainder
  <1>5. PortSpace \in Int
    BY DEF PortSpace
  <1> QED
    BY <1>1, <1>2, <1>4, <1>5 DEF x

LEMMA StepFacts ==
    ASSUME NEW n \in Nat, NEW f \in [0 .. n -> Int], NEW i \in 1 .. n,
           NEW s, \A j \in 1 .. n : s[j] \in Int
    PROVE  i \in 0 .. n /\ i - 1 \in 0 .. n /\ f[i - 1] \in Int /\ s[i] - 48 \in Int
  <1>1. i \in 0 .. n /\ i - 1 \in 0 .. n
    OBVIOUS
  <1>2. s[i] \in Int
    OBVIOUS
  <1> QED
    BY <1>1, <1>2

\* What is dropped on the way does not matter: parse_port computes the number
\* modulo 2^16, of any characters.
LEMMA PortIsDecimal ==
    ASSUME NEW s \in Seq(Int)
    PROVE  /\ Decimal(s) \in Int
           /\ Port(s) = Decimal(s) % PortSpace
  <1> DEFINE n == Len(s)
  <1>1. n \in Nat /\ \A i \in 1 .. n : s[i] \in Int
    OBVIOUS
  <1>2. PICK f : Reading(f, s, n)
    BY <1>1, ReadingExists
  <1>3. /\ f \in [0 .. n -> Int] /\ f[0] = 0
        /\ \A i \in 1 .. n : f[i] = f[i - 1] * 10 + (s[i] - 48)
    BY <1>2 DEF Reading
  <1>4. DecimalFun(f, s)
    BY <1>1, <1>2, ReadingIsDecimalFun
  <1> DEFINE p == [i \in 0 .. n |-> f[i] % PortSpace]
  <1>5. PortFun(p, s)
    <2>1. \A i \in 0 .. n : p[i] = f[i] % PortSpace
      OBVIOUS
    <2>2. p[0] = 0
      BY <1>1, <1>3, <2>1 DEF PortSpace
    <2>3. ASSUME NEW i \in 1 .. n
          PROVE  p[i] = (p[i - 1] * 10 + (s[i] - 48)) % PortSpace
      <3>1. i \in 0 .. n /\ i - 1 \in 0 .. n /\ f[i - 1] \in Int /\ s[i] - 48 \in Int
        BY <1>1, <1>3, StepFacts
      <3>2. p[i] = (f[i - 1] * 10 + (s[i] - 48)) % PortSpace
        BY <1>3, <2>1, <3>1
      <3>3. p[i - 1] = f[i - 1] % PortSpace
        BY <2>1, <3>1
      <3> HIDE DEF p
      <3> QED
        BY <3>1, <3>2, <3>3, Narrowing
    <2>4. p = [i \in 0 .. n |-> p[i]]
      OBVIOUS
    <2> HIDE DEF p
    <2>5. \A i \in 0 .. n : p[i] = IF i = 0 THEN 0
                                   ELSE (p[i - 1] * 10 + (s[i] - 48)) % PortSpace
      BY <1>1, <2>2, <2>3
    <2> QED
      BY <2>4, <2>5 DEF PortFun
  <1> DEFINE d == CHOOSE g : DecimalFun(g, s)
             q == CHOOSE g : PortFun(g, s)
  <1>6. DecimalFun(d, s) /\ PortFun(q, s)
    <2> HIDE DEF p
    <2> QED
      BY <1>4, <1>5, Zenon
  <1>7. Decimal(s) = d[n] /\ Port(s) = q[n]
    BY Zenon DEF Decimal, Port, DecimalFun, PortFun
  <1> HIDE DEF d, q, p
  <1>8. \A i \in 0 .. n : d[i] = f[i]
    <2> DEFINE T == {i \in 0 .. n : d[i] # f[i]}
    <2>1. SUFFICES ASSUME T # {} PROVE FALSE
      OBVIOUS
    <2>2. PICK i \in T : \A j \in T : i <= j
      <3> HIDE DEF T
      <3>1. T \in SUBSET Nat
        BY DEF T
      <3> QED
        BY <2>1, <3>1, LeastElement
    <2>3. d[i] = IF i = 0 THEN 0 ELSE d[i - 1] * 10 + (s[i] - 48)
      BY <1>6, <2>2, Zenon DEF DecimalFun
    <2>4. CASE i = 0
      BY <1>3, <2>2, <2>3, <2>4
    <2>5. CASE i # 0
      <3>1. i - 1 \in 0 .. n /\ i - 1 \notin T /\ i \in 1 .. n
        BY <2>2, <2>5
      <3>2. d[i - 1] = f[i - 1] /\ f[i] = f[i - 1] * 10 + (s[i] - 48)
        BY <1>3, <3>1
      <3> QED
        BY <2>2, <2>3, <2>5, <3>2
    <2> QED
      BY <2>4, <2>5
  <1>9. \A i \in 0 .. n : q[i] = f[i] % PortSpace
    <2> DEFINE T == {i \in 0 .. n : q[i] # f[i] % PortSpace}
    <2>1. SUFFICES ASSUME T # {} PROVE FALSE
      OBVIOUS
    <2>2. PICK i \in T : \A j \in T : i <= j
      <3> HIDE DEF T
      <3>1. T \in SUBSET Nat
        BY DEF T
      <3> QED
        BY <2>1, <3>1, LeastElement
    <2>3. q[i] = IF i = 0 THEN 0 ELSE (q[i - 1] * 10 + (s[i] - 48)) % PortSpace
      BY <1>6, <2>2, Zenon DEF PortFun
    <2>4. CASE i = 0
      BY <1>3, <2>2, <2>3, <2>4 DEF PortSpace
    <2>5. CASE i # 0
      <3>1. i - 1 \in 0 .. n /\ i - 1 \notin T /\ i \in 1 .. n
        BY <2>2, <2>5
      <3>2. /\ q[i - 1] = f[i - 1] % PortSpace
            /\ f[i] = f[i - 1] * 10 + (s[i] - 48)
            /\ f[i - 1] \in Int /\ s[i] - 48 \in Int
        BY <1>1, <1>3, <3>1, StepFacts
      <3>3. q[i] = f[i] % PortSpace
        BY <2>3, <2>5, <3>2, Narrowing
      <3> QED
        BY <2>2, <3>3
    <2> QED
      BY <2>4, <2>5
  <1>10. n \in 0 .. n /\ f[n] \in Int
    BY <1>1, <1>3
  <1> QED
    BY <1>7, <1>8, <1>9, <1>10

\* A port's digits are no negative number.
LEMMA DigitsNotNegative ==
    ASSUME NEW s \in Seq(48 .. 57)
    PROVE  Decimal(s) >= 0
  <1> DEFINE n == Len(s)
             d == CHOOSE g : DecimalFun(g, s)
  <1>1. n \in Nat /\ \A i \in 1 .. n : s[i] \in Int /\ s[i] >= 48
    OBVIOUS
  <1>2. PICK f : Reading(f, s, n)
    BY <1>1, ReadingExists
  <1>3. DecimalFun(f, s)
    BY <1>1, <1>2, ReadingIsDecimalFun
  <1>4. DecimalFun(d, s) /\ Decimal(s) = d[n]
    <2>1. DecimalFun(d, s)
      BY <1>3, Zenon
    <2>2. Decimal(s) = d[n]
      BY Zenon DEF Decimal, DecimalFun
    <2> QED
      BY <2>1, <2>2
  <1> HIDE DEF d
  <1>5. \A i \in 0 .. n : d[i] \in Int /\ d[i] >= 0
    <2> DEFINE Bad(i) == ~ (d[i] \in Int /\ d[i] >= 0)
               T == {i \in 0 .. n : Bad(i)}
    <2>1. SUFFICES ASSUME T # {} PROVE FALSE
      OBVIOUS
    <2>2. PICK i \in T : \A j \in T : i <= j
      <3> HIDE DEF T
      <3>1. T \in SUBSET Nat
        BY DEF T
      <3> QED
        BY <2>1, <3>1, LeastElement
    <2>3. d[i] = IF i = 0 THEN 0 ELSE d[i - 1] * 10 + (s[i] - 48)
      BY <1>4, <2>2, Zenon DEF DecimalFun
    <2>4. CASE i = 0
      BY <2>2, <2>3, <2>4
    <2>5. CASE i # 0
      <3>1. i - 1 \in 0 .. n /\ i - 1 \notin T /\ i \in 1 .. n
        BY <2>2, <2>5
      <3>2. d[i - 1] \in Int /\ d[i - 1] >= 0 /\ s[i] \in Int /\ s[i] >= 48
        BY <1>1, <3>1
      <3> QED
        BY <2>2, <2>3, <2>5, <3>2
    <2> QED
      BY <2>4, <2>5
  <1> QED
    BY <1>1, <1>4, <1>5

\* parse_port reads a request's port as it is meant.
LEMMA PortAsMeant ==
    ASSUME NEW r, IsRequest(r)
    PROVE  /\ r.port \in Seq(48 .. 57)
           /\ Port(r.port) = Decimal(r.port)
  <1>1. r.port \in Seq(48 .. 57) /\ Decimal(r.port) < PortSpace
    BY DEF IsRequest
  <1>2. r.port \in Seq(Int)
    BY <1>1
  <1> QED
    BY <1>1, <1>2, DigitsNotNegative, PortIsDecimal, SmallRemainder

LEMMA PortInRange ==
    ASSUME NEW s \in Seq(Int)
    PROVE  Port(s) \in 0 .. PortSpace - 1
  BY PortIsDecimal, Narrowing

-----------------------------------------------------------------------------
(* Scanning                                                                *)

LEMMA ScanRange ==
    ASSUME NEW s, NEW i \in Nat, NEW stops, Len(s) \in Nat
    PROVE  LET e == Scan(s, i, stops)
           IN  /\ e \in (i .. Len(s)) \cup {Len(s) + 1}
               /\ e <= Len(s) => s[e] \in stops
               /\ \A j \in i .. Len(s) : s[j] \in stops => e <= j
  <1> DEFINE T == {j \in i .. Len(s) : s[j] \in stops} \cup {Len(s) + 1}
  <1>1. T \in SUBSET Nat /\ T # {}
    OBVIOUS
  <1>2. Min(T) = CHOOSE x \in T : \A y \in T : x =< y
    BY Zenon DEF Min
  <1>3. Min(T) \in T /\ \A y \in T : Min(T) <= y
    <2> HIDE DEF T
    <2> QED
      BY <1>1, <1>2, LeastElement
  <1>4. Scan(s, i, stops) = Min(T)
    BY Zenon DEF Scan
  <1> QED
    BY <1>3, <1>4

\* A scan ends at the first stop.
LEMMA ScanFinds ==
    ASSUME NEW s, NEW i \in Nat, NEW stops, Len(s) \in Nat,
           NEW e \in i .. Len(s), s[e] \in stops,
           \A j \in i .. e - 1 : s[j] \notin stops
    PROVE  Scan(s, i, stops) = e
  <1> DEFINE f == Scan(s, i, stops)
  <1>1. /\ f \in (i .. Len(s)) \cup {Len(s) + 1}
        /\ f <= Len(s) => s[f] \in stops
        /\ f <= e
    BY ScanRange
  <1> HIDE DEF f
  <1>2. f \in i .. e - 1 => FALSE
    BY <1>1
  <1> QED
    BY <1>1, <1>2 DEF f

\* Without one it finds the end.
LEMMA ScanMisses ==
    ASSUME NEW s, NEW i \in Nat, NEW stops, Len(s) \in Nat,
           \A j \in i .. Len(s) : s[j] \notin stops
    PROVE  Scan(s, i, stops) = Len(s) + 1
  <1> DEFINE f == Scan(s, i, stops)
  <1>1. /\ f \in (i .. Len(s)) \cup {Len(s) + 1}
        /\ f <= Len(s) => s[f] \in stops
    BY ScanRange
  <1> HIDE DEF f
  <1> QED
    BY <1>1 DEF f

-----------------------------------------------------------------------------
(* The lines that applications send                                        *)

USE DEF Space, Slash, Colon, Open, Close, Word, Http

\* The address of a request, up to the port.
Lead(r) == Start \o Scheme(r) \o Site(r)

\* GET http://host
LEMMA HttpName ==
    ASSUME NEW r, r.kind = "http", ~r.ipv6
    PROVE  LET A == Lead(r)
           IN  /\ A \in Seq(Int) /\ Len(A) = 8
               /\ A[1] = Word /\ A[2] = Space
               /\ A[3] = Http /\ A[4] = Colon /\ A[5] = Slash /\ A[6] = Slash
               /\ A[7] = Word /\ A[8] = Word
  BY DEF Lead, Start, Scheme, HttpPrefix, Site, Host

\* GET http://[host]
LEMMA HttpIPv6 ==
    ASSUME NEW r, r.kind = "http", r.ipv6
    PROVE  LET A == Lead(r)
           IN  /\ A \in Seq(Int) /\ Len(A) = 11
               /\ A[1] = Word /\ A[2] = Space
               /\ A[3] = Http /\ A[4] = Colon /\ A[5] = Slash /\ A[6] = Slash
               /\ A[7] = Open /\ A[8] = Word /\ A[9] = Colon /\ A[10] = Word
               /\ A[11] = Close
  BY DEF Lead, Start, Scheme, HttpPrefix, Site, Host

\* CONNECT host
LEMMA HttpsName ==
    ASSUME NEW r, r.kind = "https", ~r.ipv6
    PROVE  LET A == Lead(r)
           IN  /\ A \in Seq(Int) /\ Len(A) = 4
               /\ A[1] = Word /\ A[2] = Space /\ A[3] = Word /\ A[4] = Word
  BY DEF Lead, Start, Scheme, Site, Host

\* CONNECT [host]
LEMMA HttpsIPv6 ==
    ASSUME NEW r, r.kind = "https", r.ipv6
    PROVE  LET A == Lead(r)
           IN  /\ A \in Seq(Int) /\ Len(A) = 7
               /\ A[1] = Word /\ A[2] = Space
               /\ A[3] = Open /\ A[4] = Word /\ A[5] = Colon /\ A[6] = Word
               /\ A[7] = Close
  BY DEF Lead, Start, Scheme, Site, Host

\* The port, if any.
LEMMA PortPart ==
    ASSUME NEW d \in Seq(48 .. 57), NEW n \in Nat, Len(d) = n, n # 0
    PROVE  LET P == <<Colon>> \o d
           IN  /\ P \in Seq(Int) /\ Len(P) = n + 1
               /\ P[1] = Colon /\ \A i \in 1 .. n : P[1 + i] = d[i]
  <1>1. d \in Seq(Int)
    OBVIOUS
  <1> QED
    BY <1>1

LEMMA Joined ==
    ASSUME NEW a \in Seq(Int), NEW b \in Seq(Int)
    PROVE  /\ a \o b \in Seq(Int) /\ Len(a \o b) = Len(a) + Len(b)
           /\ Len(a) \in Nat /\ Len(b) \in Nat
           /\ \A i \in 1 .. Len(a) : (a \o b)[i] = a[i]
           /\ \A i \in 1 .. Len(b) : (a \o b)[Len(a) + i] = b[i]
  OBVIOUS

\* s is made of four parts.
Chained(s, a, b, c, d) ==
    /\ s \in Seq(Int) /\ Len(s) = Len(a) + Len(b) + Len(c) + Len(d)
    /\ \A i \in 1 .. Len(a) : s[i] = a[i]
    /\ \A i \in 1 .. Len(b) : s[Len(a) + i] = b[i]
    /\ \A i \in 1 .. Len(c) : s[Len(a) + Len(b) + i] = c[i]
    /\ \A i \in 1 .. Len(d) : s[Len(a) + Len(b) + Len(c) + i] = d[i]

LEMMA Chain ==
    ASSUME NEW a \in Seq(Int), NEW b \in Seq(Int),
           NEW c \in Seq(Int), NEW d \in Seq(Int)
    PROVE  Chained(a \o b \o c \o d, a, b, c, d)
  <1> DEFINE x == a \o b
             y == x \o c
             s == y \o d
  <1>1. /\ x \in Seq(Int) /\ Len(x) = Len(a) + Len(b)
        /\ Len(a) \in Nat /\ Len(b) \in Nat
        /\ \A i \in 1 .. Len(a) : x[i] = a[i]
        /\ \A i \in 1 .. Len(b) : x[Len(a) + i] = b[i]
    BY Joined, Zenon
  <1> HIDE DEF x
  <1>2. /\ y \in Seq(Int) /\ Len(y) = Len(x) + Len(c)
        /\ \A i \in 1 .. Len(x) : y[i] = x[i]
        /\ \A i \in 1 .. Len(c) : y[Len(x) + i] = c[i]
    BY <1>1, Joined, Zenon
  <1> HIDE DEF y
  <1>3. /\ s \in Seq(Int) /\ Len(s) = Len(y) + Len(d)
        /\ \A i \in 1 .. Len(y) : s[i] = y[i]
        /\ \A i \in 1 .. Len(d) : s[Len(y) + i] = d[i]
    BY <1>2, Joined, Zenon
  <1> HIDE DEF s
  <1>4. Len(c) \in Nat /\ Len(d) \in Nat
    OBVIOUS
  <1> QED
    BY <1>1, <1>2, <1>3, <1>4 DEF s, y, x, Chained

\* What follows the address: the port, if any, then the path of a plain
\* request, then the version.
LineIs(r, L, k, n, p, q) ==
    /\ L \in Seq(Int) /\ Len(L) = k + p + q + 4
    /\ \A i \in 1 .. k : L[i] = Lead(r)[i]
    /\ n # 0 => L[k + 1] = Colon /\ \A i \in 1 .. n : L[k + 1 + i] = r.port[i]
    /\ L[k + p + 1] = IF r.kind = "http" THEN Slash ELSE Space

LEMMA LineParts ==
    ASSUME NEW r, r.port \in Seq(48 .. 57), Lead(r) \in Seq(Int)
    PROVE  LineIs(r, Line(r), Len(Lead(r)), Len(r.port),
                  IF Len(r.port) = 0 THEN 0 ELSE Len(r.port) + 1,
                  IF r.kind = "http" THEN 2 ELSE 0)
  <1> DEFINE k == Len(Lead(r))
             n == Len(r.port)
             p == IF n = 0 THEN 0 ELSE n + 1
             q == IF r.kind = "http" THEN 2 ELSE 0
  <1>0. /\ k \in Nat /\ n \in Nat
        /\ p = (IF n = 0 THEN 0 ELSE n + 1) /\ q = (IF r.kind = "http" THEN 2 ELSE 0)
        /\ Len(Lead(r)) = k /\ Len(r.port) = n
    OBVIOUS
  <1> HIDE DEF k, n, p, q
  <1> DEFINE A == Lead(r)
             P == IF r.port = <<>> THEN <<>> ELSE <<Colon>> \o r.port
             Q == IF r.kind = "http" THEN <<Slash, Word>> ELSE <<>>
             D == A \o P \o Q \o Version
  <1>1. Line(r) = D
    BY Zenon DEF Line, Lead
  <1>2. A \in Seq(Int) /\ Len(A) = k
    BY <1>0
  <1>3. /\ P \in Seq(Int) /\ Len(P) = p
        /\ n # 0 => P[1] = Colon /\ \A i \in 1 .. n : P[1 + i] = r.port[i]
    <2>1. CASE r.port = <<>>
      BY <1>0, <2>1
    <2>2. CASE r.port # <<>>
      <3>1. n # 0
        BY <1>0, <2>2
      <3>2. P = <<Colon>> \o r.port
        BY <2>2
      <3> HIDE DEF P
      <3> QED
        BY <1>0, <3>1, <3>2, PortPart
    <2> QED
      BY <2>1, <2>2
  <1>4. Q \in Seq(Int) /\ Len(Q) = q /\ (r.kind = "http" => Q[1] = Slash)
    BY <1>0
  <1>5. Version \in Seq(Int) /\ Len(Version) = 4 /\ Version[1] = Space
    BY DEF Version
  <1>6. p \in Nat /\ q \in Nat
    BY <1>0
  <1> HIDE DEF A, P, Q
  <1>7. Chained(D, A, P, Q, Version)
    <2>1. A \in Seq(Int) /\ P \in Seq(Int) /\ Q \in Seq(Int) /\ Version \in Seq(Int)
      BY <1>2, <1>3, <1>4, <1>5
    <2> QED
      BY <2>1, Chain, Zenon
  <1> HIDE DEF D
  <1>8. /\ Len(D) = k + p + q + 4 /\ \A i \in 1 .. k : D[i] = A[i]
        /\ \A i \in 1 .. p : D[k + i] = P[i]
        /\ \A i \in 1 .. q : D[k + p + i] = Q[i]
        /\ \A i \in 1 .. 4 : D[k + p + q + i] = Version[i]
    BY <1>0, <1>2, <1>3, <1>4, <1>5, <1>7 DEF Chained
  <1>9. n # 0 => D[k + 1] = Colon /\ \A i \in 1 .. n : D[k + 1 + i] = r.port[i]
    <2>1. SUFFICES ASSUME n # 0
                   PROVE  D[k + 1] = Colon /\ \A i \in 1 .. n : D[k + 1 + i] = r.port[i]
      OBVIOUS
    <2>2. 1 \in 1 .. p /\ \A i \in 1 .. n : 1 + i \in 1 .. p /\ k + (1 + i) = k + 1 + i
      BY <1>0, <2>1
    <2>3. P[1] = Colon /\ \A i \in 1 .. n : P[1 + i] = r.port[i]
      BY <1>3, <2>1
    <2>4. D[k + 1] = Colon
      BY <1>8, <2>2, <2>3
    <2>5. ASSUME NEW i \in 1 .. n PROVE D[k + 1 + i] = r.port[i]
      <3>1. D[k + (1 + i)] = P[1 + i]
        BY <1>8, <2>2, Zenon
      <3> QED
        BY <2>2, <2>3, <3>1
    <2> QED
      BY <2>4, <2>5
  <1>10. D[k + p + 1] = IF r.kind = "http" THEN Slash ELSE Space
    <2>1. CASE r.kind = "http"
      <3>1. 1 \in 1 .. q
        BY <1>0, <2>1
      <3> QED
        BY <1>4, <1>8, <2>1, <3>1
    <2>2. CASE r.kind # "http"
      <3>1. q = 0 /\ 1 \in 1 .. 4 /\ k + p + q + 1 = k + p + 1
        BY <1>0, <1>6, <2>2
      <3> QED
        BY <1>5, <1>8, <2>2, <3>1
    <2> QED
      BY <2>1, <2>2
  <1>11. LineIs(r, D, k, n, p, q)
    BY <1>7, <1>8, <1>9, <1>10 DEF A, Chained, LineIs
  <1> QED
    BY <1>1, <1>11, Zenon DEF k, n, p, q

LEMMA LineNoPort ==
    ASSUME NEW r, r.port = <<>>, Lead(r) \in Seq(Int)
    PROVE  LET L == Line(r)
               k == Len(Lead(r))
           IN  /\ L \in Seq(Int) /\ Len(L) = k + (IF r.kind = "http" THEN 6 ELSE 4)
               /\ \A i \in 1 .. k : L[i] = Lead(r)[i]
               /\ L[k + 1] = IF r.kind = "http" THEN Slash ELSE Space
  <1>1. r.port \in Seq(48 .. 57) /\ Len(r.port) = 0
    OBVIOUS
  <1>2. LineIs(r, Line(r), Len(Lead(r)), 0, 0, IF r.kind = "http" THEN 2 ELSE 0)
    BY <1>1, LineParts
  <1> QED
    BY <1>2 DEF LineIs

\* L is made of an address A, a port d, and the rest of a line.
WithPort(L, A, d, http) ==
    LET k == Len(A)
        n == Len(d)
    IN  /\ L \in Seq(Int) /\ Len(L) = k + n + (IF http THEN 7 ELSE 5)
        /\ \A i \in 1 .. k : L[i] = A[i]
        /\ L[k + 1] = Colon /\ \A i \in 1 .. n : L[k + 1 + i] = d[i]
        /\ L[k + n + 2] = IF http THEN Slash ELSE Space

LEMMA LineWithPort ==
    ASSUME NEW r, r.port \in Seq(48 .. 57), r.port # <<>>, Lead(r) \in Seq(Int)
    PROVE  WithPort(Line(r), Lead(r), r.port, r.kind = "http")
  <1> DEFINE k == Len(Lead(r))
             n == Len(r.port)
  <1>1. n # 0 /\ n \in Nat /\ k \in Nat
    OBVIOUS
  <1>2. LineIs(r, Line(r), k, n, n + 1, IF r.kind = "http" THEN 2 ELSE 0)
    BY <1>1, LineParts
  <1> DEFINE L == Line(r)
  <1> HIDE DEF k, n, L
  <1>3. /\ k + (n + 1) + 1 = k + n + 2
        /\ k + (n + 1) + 2 + 4 = k + n + 7 /\ k + (n + 1) + 0 + 4 = k + n + 5
    BY <1>1
  <1>4. LineIs(r, L, k, n, n + 1, IF r.kind = "http" THEN 2 ELSE 0)
    BY <1>2 DEF L
  <1>5. L \in Seq(Int)
    BY <1>4 DEF LineIs
  <1>6. Len(L) = k + n + (IF r.kind = "http" THEN 7 ELSE 5)
    BY <1>1, <1>4 DEF LineIs
  <1>7. \A i \in 1 .. k : L[i] = Lead(r)[i]
    BY <1>4 DEF LineIs
  <1>8. L[k + 1] = Colon /\ \A i \in 1 .. n : L[k + 1 + i] = r.port[i]
    BY <1>1, <1>4, Zenon DEF LineIs
  <1>9. L[k + n + 2] = IF r.kind = "http" THEN Slash ELSE Space
    <2>1. L[k + (n + 1) + 1] = IF r.kind = "http" THEN Slash ELSE Space
      BY <1>4, Zenon DEF LineIs
    <2> QED
      BY <1>3, <2>1
  <1> QED
    BY <1>5, <1>6, <1>7, <1>8, <1>9, Zenon DEF WithPort, k, n, L

-----------------------------------------------------------------------------
(* Parsing                                                                 *)

LEMMA SameSeq ==
    ASSUME NEW a \in Seq(Int), NEW b \in Seq(Int), Len(a) = Len(b),
           \A i \in 1 .. Len(a) : a[i] = b[i]
    PROVE  a = b
  BY SeqEqual, Zenon

\* The method is skipped.
LEMMA AddressFound ==
    ASSUME NEW s \in Seq(Int), Len(s) >= 2, s[1] = Word, s[2] = Space
    PROVE  Address(s) = 3
  <1>1. Scan(s, 1, {Space}) = 2
    <2>1. 1 \in Nat /\ Len(s) \in Nat /\ 2 \in 1 .. Len(s) /\ s[2] \in {Space}
      OBVIOUS
    <2>2. \A j \in 1 .. 2 - 1 : s[j] \notin {Space}
      OBVIOUS
    <2> QED
      BY <2>1, <2>2, ScanFinds
  <1> QED
    BY <1>1 DEF Address

LEMMA FirstFour ==
    ASSUME NEW t \in Seq(Int), 4 <= Len(t)
    PROVE  SubSeq(t, 1, 4) \in Seq(Int)
  OBVIOUS

LEMMA HttpSeen ==
    ASSUME NEW s \in Seq(Int), Len(s) >= 6, Address(s) = 3,
           s[3] = Http, s[4] = Colon, s[5] = Slash, s[6] = Slash
    PROVE  IsHttp(s)
  <1> DEFINE t == SubSeq(s, 3, Len(s))
             h == HttpPrefix
  <1>1. /\ t \in Seq(Int) /\ Len(t) = Len(s) - 2
        /\ t[1] = s[3] /\ t[2] = s[4] /\ t[3] = s[5] /\ t[4] = s[6]
    <2>1. t \in Seq(Int) /\ Len(t) = Len(s) - 2
      OBVIOUS
    <2>2. t[1] = s[3] /\ t[2] = s[4] /\ t[3] = s[5] /\ t[4] = s[6]
      OBVIOUS
    <2> QED
      BY <2>1, <2>2
  <1>2. h \in Seq(Int) /\ Len(h) = 4 /\ h[1] = Http /\ h[2] = Colon
        /\ h[3] = Slash /\ h[4] = Slash
    BY DEF HttpPrefix
  <1> HIDE DEF t, h
  <1>3. t[1] = Http /\ t[2] = Colon /\ t[3] = Slash /\ t[4] = Slash /\ Len(t) >= 4
    BY <1>1
  <1>4. SubSeq(h, 1, 4) = SubSeq(t, 1, 4)
    <2> DEFINE u == SubSeq(h, 1, 4)
               v == SubSeq(t, 1, 4)
    <2>1. u \in Seq(Int) /\ Len(u) = 4 /\ \A i \in 1 .. 4 : u[i] = h[i]
      BY <1>2, SMTT(30)
    <2>2. v \in Seq(Int) /\ Len(v) = 4
      <3>1. t \in Seq(Int) /\ 4 <= Len(t)
        BY <1>1, <1>3
      <3>2. v \in Seq(Int)
        BY <3>1, FirstFour, Zenon
      <3>3. Len(v) = 4
        BY <3>1
      <3> QED
        BY <3>2, <3>3
    <2>3. v[1] = t[1] /\ v[2] = t[2] /\ v[3] = t[3] /\ v[4] = t[4]
      BY <1>1, <1>3
    <2>4. u[1] = h[1] /\ u[2] = h[2] /\ u[3] = h[3] /\ u[4] = h[4]
      BY <2>1
    <2> HIDE DEF u, v
    <2>5. u[1] = v[1] /\ u[2] = v[2] /\ u[3] = v[3] /\ u[4] = v[4]
      BY <1>2, <1>3, <2>3, <2>4
    <2>6. Len(u) = Len(v) /\ \A i \in 1 .. Len(u) : u[i] = v[i]
      BY <2>1, <2>2, <2>5
    <2>7. u = v
      BY <2>1, <2>2, <2>6, SameSeq, Zenon
    <2> QED
      BY <2>7 DEF u, v
  <1>5. IsPrefix(h, t)
    BY <1>2, <1>3, <1>4 DEF IsPrefix
  <1> QED
    BY <1>5 DEF IsHttp, h, t

LEMMA HttpNotSeen ==
    ASSUME NEW s \in Seq(Int), Len(s) >= 3, Address(s) = 3, s[3] # Http
    PROVE  ~IsHttp(s)
  <1> DEFINE t == SubSeq(s, 3, Len(s))
             h == HttpPrefix
             u == SubSeq(h, 1, 4)
             v == SubSeq(t, 1, 4)
  <1>1. t \in Seq(Int) /\ t[1] = s[3]
    OBVIOUS
  <1>2. h \in Seq(Int) /\ Len(h) = 4 /\ h[1] = Http
    BY DEF HttpPrefix
  <1> HIDE DEF t, h
  <1>3. u[1] = Http
    BY <1>2
  <1>4. Len(t) >= 4 => v[1] = t[1]
    BY <1>1
  <1> HIDE DEF u, v
  <1>5. Len(t) >= 4 => u # v
    BY <1>1, <1>3, <1>4
  <1>6. ~IsPrefix(h, t)
    BY <1>1, <1>2, <1>5 DEF IsPrefix, u, v
  <1> QED
    BY <1>6 DEF IsHttp, h, t

LEMMA DigitsAreNumbers ==
    ASSUME NEW d \in Seq(48 .. 57)
    PROVE  d \in Seq(Int)
  OBVIOUS

\* The port d, of n digits, stands at place i of s, as far as s goes, and
\* behind it the stop.
PortAt(s, i, d, n, stop) ==
    /\ s \in Seq(Int) /\ i \in Nat /\ 1 <= i /\ i <= Len(s)
    /\ d \in Seq(48 .. 57) /\ n \in Nat /\ Len(d) = n
    /\ stop \in {Slash, Space}
    /\ \A j \in 1 .. n : i - 1 + j <= Len(s) => s[i - 1 + j] = d[j]
    /\ i + n <= Len(s) => s[i + n] = stop

\* It is read once the stop is there.
PortRead(s, host, i, d, n, stop) ==
    ToPort(s, host, i, {stop}) =
        IF i + n <= Len(s) THEN To(host, Port(d)) ELSE More

LEMMA ToPortReads ==
    ASSUME NEW s, NEW host, NEW i, NEW d, NEW n, NEW stop,
           PortAt(s, i, d, n, stop)
    PROVE  PortRead(s, host, i, d, n, stop)
  <1> SUFFICES ASSUME s \in Seq(Int), i \in Nat, 1 <= i, i <= Len(s),
                      d \in Seq(48 .. 57), n \in Nat, Len(d) = n,
                      stop \in {Slash, Space},
                      \A j \in 1 .. n : i - 1 + j <= Len(s) => s[i - 1 + j] = d[j],
                      i + n <= Len(s) => s[i + n] = stop
               PROVE  PortRead(s, host, i, d, n, stop)
    BY DEF PortAt
  <1> USE DEF PortRead
  <1> DEFINE e == Scan(s, i, {stop})
  <1>1. \A j \in i .. i + n - 1 : j <= Len(s) => s[j] \notin {stop}
    <2> SUFFICES ASSUME NEW j \in i .. i + n - 1, j <= Len(s)
                 PROVE  s[j] # stop
      OBVIOUS
    <2>1. j - i + 1 \in 1 .. n /\ i - 1 + (j - i + 1) = j
      OBVIOUS
    <2>2. s[j] = d[j - i + 1]
      BY <2>1
    <2>3. d[j - i + 1] \in 48 .. 57
      BY <2>1
    <2>4. \A x \in 48 .. 57 : x # 47 /\ x # 32
      OBVIOUS
    <2> QED
      BY <2>2, <2>3, <2>4
  <1>2. CASE i + n <= Len(s)
    <2>1. Len(s) \in Nat /\ i + n \in i .. Len(s) /\ s[i + n] \in {stop}
      BY <1>2
    <2>2. \A j \in i .. (i + n) - 1 : s[j] \notin {stop}
      BY <1>1, <1>2
    <2>3. e = i + n
      BY <2>1, <2>2, ScanFinds
    <2> DEFINE t == SubSeq(s, i, i + n - 1)
    <2>4. t \in Seq(Int) /\ Len(t) = n /\ \A j \in 1 .. n : t[j] = s[i + j - 1]
      BY <1>2
    <2>5. \A j \in 1 .. n : t[j] = d[j]
      <3> HIDE DEF t
      <3> SUFFICES ASSUME NEW j \in 1 .. n PROVE t[j] = d[j]
        OBVIOUS
      <3>1. i + j - 1 = i - 1 + j /\ i - 1 + j <= Len(s)
        BY <1>2
      <3> QED
        BY <2>4, <3>1
    <2>6. t = d
      <3> HIDE DEF t
      <3>1. d \in Seq(Int)
        BY DigitsAreNumbers
      <3>2. Len(t) = Len(d) /\ \A j \in 1 .. Len(t) : t[j] = d[j]
        BY <2>4, <2>5
      <3> QED
        BY <2>4, <3>1, <3>2, SameSeq, Zenon
    <2> HIDE DEF t, e
    <2>7. SubSeq(s, i, e - 1) = d
      BY <2>3, <2>6 DEF t
    <2>8. ~ (i > Len(s)) /\ ~ (e > Len(s))
      BY <1>2, <2>3
    <2>9. ToPort(s, host, i, {stop}) = To(host, Port(SubSeq(s, i, e - 1)))
      BY <2>8 DEF ToPort, e
    <2> QED
      BY <1>2, <2>7, <2>9
  <1>3. CASE ~ (i + n <= Len(s))
    <2>1. Len(s) \in Nat /\ \A j \in i .. Len(s) : s[j] \notin {stop}
      BY <1>1, <1>3
    <2>2. e = Len(s) + 1
      BY <2>1, ScanMisses
    <2> HIDE DEF e
    <2>3. ~ (i > Len(s)) /\ e > Len(s)
      BY <2>1, <2>2
    <2> QED
      BY <1>3, <2>3 DEF ToPort, e
  <1> QED
    BY <1>2, <1>3

\* What handle_client_request should make of s, the beginning of r's line.
Right(r, s) ==
    /\ Address(s) = 3
    /\ IsHttp(s) <=> r.kind = "http"
    /\ \/ Parse(s) = To(Host(r), Meant(r).port)
       \/ r.kind = "http" /\ Len(s) < Len(Line(r)) /\ Parse(s) = More

\* s is the beginning of the line of r.
Beginning(r, s) ==
    /\ s \in Seq(Int) /\ Len(s) <= Len(Line(r))
    /\ \A i \in 1 .. Len(s) : s[i] = Line(r)[i]

LEMMA TwoElements ==
    ASSUME NEW t \in Seq(Int), Len(t) = 2, NEW x, NEW y, t[1] = x, t[2] = y
    PROVE  t = <<x, y>>
  OBVIOUS

LEMMA ThreeElements ==
    ASSUME NEW t \in Seq(Int), Len(t) = 3, NEW x, NEW y, NEW z,
           t[1] = x, t[2] = y, t[3] = z
    PROVE  t = <<x, y, z>>
  OBVIOUS

\* The name of a site.
LEMMA NameSlice ==
    ASSUME NEW s \in Seq(Int), NEW i \in Nat, 1 <= i, i + 1 <= Len(s),
           s[i] = Word, s[i + 1] = Word
    PROVE  SubSeq(s, i, i + 1) = <<Word, Word>>
  <1> DEFINE t == SubSeq(s, i, i + 1)
  <1>1. t \in Seq(Int) /\ Len(t) = 2 /\ t[1] = s[i] /\ t[2] = s[i + 1]
    OBVIOUS
  <1> HIDE DEF t
  <1>2. t = <<Word, Word>>
    BY <1>1, TwoElements
  <1> QED
    BY <1>2 DEF t

LEMMA IPv6Slice ==
    ASSUME NEW s \in Seq(Int), NEW i \in Nat, 1 <= i, i + 2 <= Len(s),
           s[i] = Word, s[i + 1] = Colon, s[i + 2] = Word
    PROVE  SubSeq(s, i, i + 2) = <<Word, Colon, Word>>
  <1> DEFINE t == SubSeq(s, i, i + 2)
  <1>1. t \in Seq(Int) /\ Len(t) = 3 /\ t[1] = s[i] /\ t[2] = s[i + 1] /\ t[3] = s[i + 2]
    OBVIOUS
  <1> HIDE DEF t
  <1>2. t = <<Word, Colon, Word>>
    BY <1>1, ThreeElements
  <1> QED
    BY <1>2 DEF t

\* A name at i, and what ends it behind it.
LEMMA NameEnds ==
    ASSUME NEW s \in Seq(Int), NEW i \in Nat, 1 <= i, i + 2 <= Len(s),
           s[i] = Word, s[i + 1] = Word, s[i + 2] \in {Colon, Space, Slash}
    PROVE  /\ Scan(s, i, {Colon, Space, Slash}) = i + 2
           /\ SubSeq(s, i, (i + 2) - 1) = <<Word, Word>>
  <1>1. Len(s) \in Nat /\ i + 2 \in i .. Len(s)
    OBVIOUS
  <1>2. \A j \in i .. (i + 2) - 1 : s[j] \notin {Colon, Space, Slash}
    BY SMTT(30)
  <1>3. (i + 2) - 1 = i + 1
    OBVIOUS
  <1>4. Scan(s, i, {Colon, Space, Slash}) = i + 2
    BY <1>1, <1>2, ScanFinds, SMTT(30)
  <1>5. SubSeq(s, i, i + 1) = <<Word, Word>>
    BY NameSlice
  <1> QED
    BY <1>3, <1>4, <1>5

\* An address at i, closed by ']'.
LEMMA IPv6Ends ==
    ASSUME NEW s \in Seq(Int), NEW i \in Nat, 1 <= i, i + 3 <= Len(s),
           s[i] = Word, s[i + 1] = Colon, s[i + 2] = Word, s[i + 3] = Close
    PROVE  /\ Scan(s, i, {Close}) = i + 3
           /\ SubSeq(s, i, (i + 3) - 1) = <<Word, Colon, Word>>
  <1>1. Len(s) \in Nat /\ i + 3 \in i .. Len(s)
    OBVIOUS
  <1>2. ASSUME NEW j \in i .. (i + 3) - 1 PROVE s[j] \notin {Close}
    <2>1. j = i \/ j = i + 1 \/ j = i + 2
      OBVIOUS
    <2> QED
      BY <2>1
  <1>3. (i + 3) - 1 = i + 2
    OBVIOUS
  <1>4. Scan(s, i, {Close}) = i + 3
    <2> DEFINE e == i + 3
               stops == {Close}
    <2>1. e \in i .. Len(s) /\ s[e] \in stops
      BY <1>1
    <2>2. \A j \in i .. e - 1 : s[j] \notin stops
      BY <1>2
    <2>3. Len(s) \in Nat
      BY <1>1
    <2> HIDE DEF e, stops
    <2>4. Scan(s, i, stops) = e
      BY <2>1, <2>2, <2>3, ScanFinds
    <2> QED
      BY <2>4 DEF e, stops
  <1>5. SubSeq(s, i, i + 2) = <<Word, Colon, Word>>
    BY IPv6Slice
  <1> QED
    BY <1>3, <1>4, <1>5

\* GET http://host/path, without a port: a port would be Misread.
LEMMA HttpNameRight ==
    ASSUME NEW r, IsRequest(r), r.kind = "http", ~r.ipv6, r.port = <<>>,
           NEW s, Beginning(r, s), Len(s) >= 7
    PROVE  Right(r, s)
  <1> DEFINE L == Line(r)
             A == Lead(r)
  <1>1. /\ A \in Seq(Int) /\ Len(A) = 8 /\ A[1] = Word /\ A[2] = Space
        /\ A[3] = Http /\ A[4] = Colon /\ A[5] = Slash /\ A[6] = Slash
        /\ A[7] = Word /\ A[8] = Word
    BY HttpName
  <1>2. /\ L \in Seq(Int)
        /\ Len(L) = Len(A) + (IF r.kind = "http" THEN 6 ELSE 4)
        /\ \A i \in 1 .. Len(A) : L[i] = A[i]
        /\ L[Len(A) + 1] = IF r.kind = "http" THEN Slash ELSE Space
    BY <1>1, LineNoPort, Zenon
  <1> HIDE DEF A
  <1>3. /\ Len(L) = 14 /\ L[1] = Word /\ L[2] = Space /\ L[3] = Http
        /\ L[4] = Colon /\ L[5] = Slash /\ L[6] = Slash /\ L[7] = Word
        /\ L[8] = Word /\ L[9] = Slash
    <2> HIDE DEF L
    <2>1. Len(L) = 14 /\ L[9] = Slash
      BY <1>1, <1>2
    <2>2. /\ L[1] = A[1] /\ L[2] = A[2] /\ L[3] = A[3] /\ L[4] = A[4]
          /\ L[5] = A[5] /\ L[6] = A[6] /\ L[7] = A[7] /\ L[8] = A[8]
      BY <1>1, <1>2
    <2> QED
      BY <1>1, <2>1, <2>2
  <1>4. s \in Seq(Int) /\ Len(s) <= 14 /\ Len(s) \in Nat
    BY <1>3 DEF Beginning
  <1>5. \A i \in 1 .. Len(s) : s[i] = L[i]
    BY DEF Beginning
  <1> HIDE DEF L
  <1>6. /\ s[1] = Word /\ s[2] = Space /\ s[3] = Http /\ s[4] = Colon
        /\ s[5] = Slash /\ s[6] = Slash /\ s[7] = Word
    <2>1. /\ 1 \in 1 .. Len(s) /\ 2 \in 1 .. Len(s) /\ 3 \in 1 .. Len(s)
          /\ 4 \in 1 .. Len(s) /\ 5 \in 1 .. Len(s) /\ 6 \in 1 .. Len(s)
          /\ 7 \in 1 .. Len(s)
      BY <1>4
    <2>2. s[1] = L[1] /\ s[2] = L[2] /\ s[3] = L[3] /\ s[4] = L[4]
      BY <1>5, <2>1, Zenon
    <2>3. s[5] = L[5] /\ s[6] = L[6] /\ s[7] = L[7]
      BY <1>5, <2>1, Zenon
    <2> QED
      BY <1>3, <2>2, <2>3
  <1>7. /\ Len(s) >= 8 => s[8] = Word
        /\ Len(s) >= 9 => s[9] = Slash
    <2>1. /\ Len(s) >= 8 => 8 \in 1 .. Len(s)
          /\ Len(s) >= 9 => 9 \in 1 .. Len(s)
      BY <1>4
    <2> QED
      BY <1>3, <1>5, <2>1, ZenonT(30)
  <1>8. Address(s) = 3
    <2>1. Len(s) >= 2
      BY <1>4
    <2> QED
      BY <1>4, <1>6, <2>1, AddressFound, Zenon
  <1>9. IsHttp(s)
    <2>1. Len(s) >= 6
      BY <1>4
    <2> QED
      BY <1>4, <1>6, <1>8, <2>1, HttpSeen, Zenon
  <1>10. Parse(s) = ParseName(s, 7)
    <2>1. Len(HttpPrefix) = 4
      BY DEF HttpPrefix
    <2> QED
      BY <1>4, <1>6, <1>8, <1>9, <2>1 DEF Parse
  <1>11. CASE Len(s) >= 9
    <2> DEFINE e == Scan(s, 7, {Colon, Space, Slash})
    <2>1. e = 9 /\ SubSeq(s, 7, e - 1) = <<Word, Word>>
      <3> DEFINE i == 7
      <3>1. i \in Nat /\ 1 <= i /\ i + 2 <= Len(s) /\ i + 1 = 8 /\ i + 2 = 9
        BY <1>4, <1>11
      <3>2. s[7] = Word /\ s[8] = Word /\ s[9] = Slash
        BY <1>4, <1>6, <1>7, <1>11
      <3>3. s[i] = Word /\ s[i + 1] = Word /\ s[i + 2] \in {Colon, Space, Slash}
        BY <3>1, <3>2, Zenon
      <3> HIDE DEF i
      <3>4. /\ Scan(s, i, {Colon, Space, Slash}) = i + 2
            /\ SubSeq(s, i, (i + 2) - 1) = <<Word, Word>>
        BY <1>4, <3>1, <3>3, NameEnds, Zenon
      <3> QED
        BY <3>1, <3>4, Zenon DEF i
    <2> HIDE DEF e
    <2>2. s[e] # Colon /\ ~ (e > Len(s))
      BY <1>4, <1>7, <1>11, <2>1, SMTT(30)
    <2>3. Parse(s) = To(<<Word, Word>>, 80)
      BY <1>10, <2>1, <2>2 DEF ParseName, e
    <2> QED
      BY <1>8, <1>9, <2>3 DEF Right, Meant, Host
  <1>12. CASE ~ (Len(s) >= 9)
    <2> DEFINE e == Scan(s, 7, {Colon, Space, Slash})
    <2>1. \A j \in 7 .. Len(s) : s[j] \notin {Colon, Space, Slash}
      BY <1>4, <1>6, <1>7, <1>12, SMTT(30)
    <2>2. e = Len(s) + 1
      BY <1>4, <2>1, ScanMisses
    <2> HIDE DEF e
    <2>3. Parse(s) = More
      BY <1>4, <1>10, <2>2 DEF ParseName, e
    <2> QED
      BY <1>3, <1>4, <1>8, <1>9, <1>12, <2>3 DEF Right, L
  <1> QED
    BY <1>11, <1>12

\* CONNECT [host], without a port: a port would be Misread.  The version has
\* begun to arrive.
LEMMA HttpsIPv6Right ==
    ASSUME NEW r, IsRequest(r), r.kind = "https", r.ipv6, r.port = <<>>,
           NEW s, Beginning(r, s), Len(s) > Len(Line(r)) - 4
    PROVE  Right(r, s)
  <1> DEFINE L == Line(r)
             A == Lead(r)
  <1>1. /\ A \in Seq(Int) /\ Len(A) = 7 /\ A[1] = Word /\ A[2] = Space
        /\ A[3] = Open /\ A[4] = Word /\ A[5] = Colon /\ A[6] = Word
        /\ A[7] = Close
    BY HttpsIPv6
  <1>2. /\ L \in Seq(Int)
        /\ Len(L) = Len(A) + (IF r.kind = "http" THEN 6 ELSE 4)
        /\ \A i \in 1 .. Len(A) : L[i] = A[i]
        /\ L[Len(A) + 1] = IF r.kind = "http" THEN Slash ELSE Space
    BY <1>1, LineNoPort, Zenon
  <1> HIDE DEF A
  <1>3. /\ Len(L) = 11 /\ L[1] = Word /\ L[2] = Space /\ L[3] = Open
        /\ L[4] = Word /\ L[5] = Colon /\ L[6] = Word /\ L[7] = Close
        /\ L[8] = Space
    <2> HIDE DEF L
    <2>1. Len(L) = 11 /\ L[8] = Space
      BY <1>1, <1>2
    <2>2. /\ L[1] = A[1] /\ L[2] = A[2] /\ L[3] = A[3] /\ L[4] = A[4]
          /\ L[5] = A[5] /\ L[6] = A[6] /\ L[7] = A[7]
      BY <1>1, <1>2
    <2> QED
      BY <1>1, <2>1, <2>2
  <1>4. s \in Seq(Int) /\ Len(s) <= 11 /\ Len(s) \in Nat /\ Len(s) >= 8
    <2>1. s \in Seq(Int) /\ Len(s) <= Len(L) /\ Len(s) > Len(L) - 4
      BY DEF Beginning
    <2>2. Len(L) = 11
      BY <1>3
    <2> HIDE DEF L
    <2>3. Len(s) <= 11 /\ Len(s) > 11 - 4
      BY <2>1, <2>2
    <2>4. Len(s) \in Nat
      BY <2>1
    <2> QED
      BY <2>1, <2>3, <2>4
  <1>5. \A i \in 1 .. Len(s) : s[i] = L[i]
    BY DEF Beginning
  <1> HIDE DEF L
  <1>6. /\ s[1] = Word /\ s[2] = Space /\ s[3] = Open /\ s[4] = Word
        /\ s[5] = Colon /\ s[6] = Word /\ s[7] = Close /\ s[8] = Space
    <2>1. /\ 1 \in 1 .. Len(s) /\ 2 \in 1 .. Len(s) /\ 3 \in 1 .. Len(s)
          /\ 4 \in 1 .. Len(s) /\ 5 \in 1 .. Len(s) /\ 6 \in 1 .. Len(s)
          /\ 7 \in 1 .. Len(s) /\ 8 \in 1 .. Len(s)
      BY <1>4
    <2>2. s[1] = L[1] /\ s[2] = L[2] /\ s[3] = L[3] /\ s[4] = L[4]
      BY <1>5, <2>1, Zenon
    <2>3. s[5] = L[5] /\ s[6] = L[6] /\ s[7] = L[7] /\ s[8] = L[8]
      BY <1>5, <2>1, Zenon
    <2> QED
      BY <1>3, <2>2, <2>3
  <1>7. Len(s) >= 2 /\ Len(s) >= 3
    BY <1>4
  <1>8. Address(s) = 3
    BY <1>4, <1>6, <1>7, AddressFound, Zenon
  <1>9. ~IsHttp(s)
    <2>1. s[3] # Http
      BY <1>6
    <2> QED
      BY <1>4, <1>7, <1>8, <2>1, HttpNotSeen, Zenon
  <1>10. Parse(s) = ParseIPv6(s, 3)
    BY <1>4, <1>6, <1>8, <1>9 DEF Parse
  <1>11. Scan(s, 4, {Close}) = 7 /\ SubSeq(s, 4, 7 - 1) = <<Word, Colon, Word>>
    <2> DEFINE i == 4
    <2>1. i \in Nat /\ 1 <= i /\ i + 3 <= Len(s)
          /\ i + 1 = 5 /\ i + 2 = 6 /\ i + 3 = 7
      BY <1>4
    <2>2. s[i] = Word /\ s[i + 1] = Colon /\ s[i + 2] = Word /\ s[i + 3] = Close
      BY <1>6, <2>1
    <2> HIDE DEF i
    <2>3. /\ Scan(s, i, {Close}) = i + 3
          /\ SubSeq(s, i, (i + 3) - 1) = <<Word, Colon, Word>>
      BY <1>4, <2>1, <2>2, IPv6Ends, Zenon
    <2> QED
      BY <2>1, <2>3, Zenon DEF i
  <1>12. Parse(s) = To(<<Word, Colon, Word>>, 80)
    <2> DEFINE e == Scan(s, 3 + 1, {Close})
    <2>1. e = 7 /\ SubSeq(s, 3 + 1, e - 1) = <<Word, Colon, Word>>
      BY <1>11
    <2> HIDE DEF e
    <2>2. e + 1 = 8 /\ ~ (e > Len(s))
      BY <1>4, <2>1
    <2>3. s[e + 1] # Colon
      BY <1>6, <2>2
    <2> QED
      BY <1>10, <2>1, <2>2, <2>3 DEF ParseIPv6, e
  <1> QED
    BY <1>8, <1>9, <1>12 DEF Right, Meant, Host

\* CONNECT host or CONNECT host:port.  The version has begun to arrive.
LEMMA HttpsNameRight ==
    ASSUME NEW r, IsRequest(r), r.kind = "https", ~r.ipv6,
           NEW s, Beginning(r, s), Len(s) > Len(Line(r)) - 4
    PROVE  Right(r, s)
  <1> DEFINE L == Line(r)
             A == Lead(r)
             d == r.port
             n == Len(d)
  <1>1. /\ A \in Seq(Int) /\ Len(A) = 4 /\ A[1] = Word /\ A[2] = Space
        /\ A[3] = Word /\ A[4] = Word
    BY HttpsName
  <1>2. /\ d \in Seq(48 .. 57) /\ n \in Nat
        /\ Decimal(d) < PortSpace /\ (d = <<>> <=> n = 0)
    <2>1. d \in Seq(48 .. 57)
      BY DEF IsRequest
    <2> QED
      BY <2>1 DEF IsRequest
  <1>3. /\ L \in Seq(Int)
        /\ Len(L) = IF n = 0 THEN 8 ELSE n + 9
        /\ L[1] = Word /\ L[2] = Space /\ L[3] = Word /\ L[4] = Word
        /\ n = 0 => L[5] = Space
        /\ n # 0 => L[5] = Colon /\ L[6 + n] = Space
        /\ n # 0 => \A i \in 1 .. n : L[5 + i] = d[i]
    <2>1. CASE n = 0
      <3>1. /\ L \in Seq(Int)
            /\ Len(L) = Len(A) + (IF r.kind = "http" THEN 6 ELSE 4)
            /\ \A i \in 1 .. Len(A) : L[i] = A[i]
            /\ L[Len(A) + 1] = IF r.kind = "http" THEN Slash ELSE Space
        <4>1. r.port = <<>>
          BY <1>2, <2>1
        <4> QED
          BY <1>1, <4>1, LineNoPort, ZenonT(30)
      <3> HIDE DEF A, L, d, n
      <3>2. L[1] = A[1] /\ L[2] = A[2] /\ L[3] = A[3] /\ L[4] = A[4]
        BY <1>1, <3>1
      <3>3. Len(L) = 8 /\ L[5] = Space
        BY <1>1, <3>1
      <3> QED
        BY <1>1, <2>1, <3>1, <3>2, <3>3
    <2>2. CASE n # 0
      <3>1. /\ L \in Seq(Int)
            /\ Len(L) = Len(A) + n + (IF r.kind = "http" THEN 7 ELSE 5)
            /\ \A i \in 1 .. Len(A) : L[i] = A[i]
            /\ L[Len(A) + 1] = Colon
            /\ \A i \in 1 .. n : L[Len(A) + 1 + i] = d[i]
            /\ L[Len(A) + n + 2] = IF r.kind = "http" THEN Slash ELSE Space
        <4>1. r.port # <<>> /\ r.port \in Seq(48 .. 57)
          BY <1>2, <2>2
        <4>2. WithPort(L, A, d, r.kind = "http")
          BY <1>1, <4>1, LineWithPort, Zenon
        <4> HIDE DEF A, L, d
        <4> QED
          BY <4>2, Zenon DEF WithPort
      <3> HIDE DEF A, L, d, n
      <3>2. L[1] = A[1] /\ L[2] = A[2] /\ L[3] = A[3] /\ L[4] = A[4]
        BY <1>1, <3>1
      <3>3. Len(A) + n + 5 = n + 9 /\ Len(A) + 1 = 5 /\ Len(A) + n + 2 = 6 + n
        BY <1>1, <1>2
      <3>4. Len(L) = n + 9 /\ L[5] = Colon /\ L[6 + n] = Space
        BY <3>1, <3>3
      <3>5. \A i \in 1 .. n : L[5 + i] = d[i]
        BY <3>1, <3>3, Zenon
      <3> QED
        BY <1>1, <2>2, <3>1, <3>2, <3>4, <3>5
    <2> QED
      BY <2>1, <2>2
  <1>4. /\ s \in Seq(Int) /\ Len(s) \in Nat /\ Len(s) <= Len(L)
        /\ Len(s) > Len(L) - 4
    BY DEF Beginning
  <1>5. \A i \in 1 .. Len(s) : s[i] = L[i]
    BY DEF Beginning
  <1> HIDE DEF L, A, d, n
  <1>6. /\ Len(s) >= 5 /\ Len(s) >= 2 /\ Len(s) >= 3
        /\ n # 0 => Len(s) >= n + 6
    <2>1. (n = 0 => Len(L) = 8) /\ (n # 0 => Len(L) = n + 9)
      BY <1>3
    <2>2. n \in Nat
      BY <1>2
    <2>3. CASE n = 0
      <3>1. Len(s) > 8 - 4
        BY <1>4, <2>1, <2>3
      <3> QED
        BY <1>4, <2>3, <3>1
    <2>4. CASE n # 0
      <3>1. Len(s) > (n + 9) - 4
        BY <1>4, <2>1, <2>4
      <3> QED
        BY <1>4, <2>2, <3>1
    <2> QED
      BY <2>3, <2>4
  <1>7. /\ s[1] = Word /\ s[2] = Space /\ s[3] = Word /\ s[4] = Word
        /\ s[5] = IF n = 0 THEN Space ELSE Colon
    <2>1. /\ 1 \in 1 .. Len(s) /\ 2 \in 1 .. Len(s) /\ 3 \in 1 .. Len(s)
          /\ 4 \in 1 .. Len(s) /\ 5 \in 1 .. Len(s)
      BY <1>4, <1>6
    <2>2. s[1] = L[1] /\ s[2] = L[2] /\ s[3] = L[3] /\ s[4] = L[4] /\ s[5] = L[5]
      BY <1>5, <2>1, Zenon
    <2> QED
      BY <1>3, <2>2, SMTT(30)
  <1>8. Address(s) = 3
    BY <1>4, <1>6, <1>7, AddressFound, Zenon
  <1>9. ~IsHttp(s)
    <2>1. s[3] # Http
      BY <1>7
    <2> QED
      BY <1>4, <1>6, <1>8, <2>1, HttpNotSeen, Zenon
  <1>10. Parse(s) = ParseName(s, 3)
    BY <1>4, <1>6, <1>7, <1>8, <1>9, SMTT(30) DEF Parse
  <1> DEFINE e == Scan(s, 3, {Colon, Space, Slash})
  <1>11. e = 5 /\ SubSeq(s, 3, e - 1) = <<Word, Word>>
    <2> DEFINE i == 3
    <2>1. i \in Nat /\ 1 <= i /\ i + 2 <= Len(s) /\ i + 1 = 4 /\ i + 2 = 5
      BY <1>4, <1>6
    <2>2. s[5] \in {Colon, Space, Slash}
      BY <1>7
    <2>3. s[i] = Word /\ s[i + 1] = Word /\ s[i + 2] \in {Colon, Space, Slash}
      BY <1>7, <2>1, <2>2, Zenon
    <2> HIDE DEF i
    <2>4. /\ Scan(s, i, {Colon, Space, Slash}) = i + 2
          /\ SubSeq(s, i, (i + 2) - 1) = <<Word, Word>>
      BY <1>4, <2>1, <2>3, NameEnds, Zenon
    <2> QED
      BY <2>1, <2>4, Zenon DEF i
  <1> HIDE DEF e
  <1>12. ~ (e > Len(s)) /\ e + 1 = 6
    BY <1>4, <1>6, <1>11
  <1>13. CASE n = 0
    <2>1. s[e] # Colon
      BY <1>7, <1>11, <1>13
    <2>2. Parse(s) = To(<<Word, Word>>, 80)
      BY <1>10, <1>11, <1>12, <2>1 DEF ParseName, e
    <2>3. Meant(r).port = 80
      BY <1>2, <1>13 DEF Meant, d
    <2> QED
      BY <1>8, <1>9, <2>2, <2>3 DEF Right, Host
  <1>14. CASE n # 0
    <2>1. s[e] = Colon
      BY <1>7, <1>11, <1>14
    <2>2. Parse(s) = ToPort(s, <<Word, Word>>, 6, {Space})
      BY <1>10, <1>11, <1>12, <2>1 DEF ParseName, e
    <2>3. ToPort(s, <<Word, Word>>, 6, {Space}) = To(<<Word, Word>>, Port(d))
      <3> DEFINE i == 6
      <3>1. i \in Nat /\ i <= Len(s) /\ 1 <= i /\ Len(d) = n /\ i + n <= Len(s)
        BY <1>2, <1>4, <1>6, <1>14 DEF n
      <3>2. \A j \in 1 .. n : i - 1 + j <= Len(s) => s[i - 1 + j] = d[j]
        <4> SUFFICES ASSUME NEW j \in 1 .. n PROVE s[i - 1 + j] = d[j]
          OBVIOUS
        <4>1. i - 1 + j = 5 + j /\ 5 + j \in 1 .. Len(s)
          BY <1>2, <1>4, <1>6, <1>14
        <4>2. s[5 + j] = L[5 + j]
          BY <1>5, <4>1, Zenon
        <4>3. L[5 + j] = d[j]
          BY <1>3, <1>14, Zenon
        <4> QED
          BY <4>1, <4>2, <4>3, Zenon
      <3>3. s[i + n] = Space
        <4>1. 6 + n \in 1 .. Len(s)
          BY <1>2, <1>4, <1>6, <1>14
        <4>2. s[6 + n] = L[6 + n]
          BY <1>5, <4>1, Zenon
        <4> QED
          BY <1>3, <1>14, <4>2, Zenon
      <3> HIDE DEF i
      <3>4. ToPort(s, <<Word, Word>>, i, {Space}) =
              IF i + n <= Len(s) THEN To(<<Word, Word>>, Port(d)) ELSE More
        <4> DEFINE h == <<Word, Word>>
                   stop == Space
        <4>1. stop \in {Slash, Space}
          OBVIOUS
        <4>2. s \in Seq(Int) /\ d \in Seq(48 .. 57) /\ n \in Nat
          BY <1>2, <1>4
        <4>3. i + n <= Len(s) => s[i + n] = stop
          BY <3>3
        <4> HIDE DEF h, stop
        <4>4. PortAt(s, i, d, n, stop)
          BY <3>1, <3>2, <4>1, <4>2, <4>3, Zenon DEF PortAt
        <4>5. PortRead(s, h, i, d, n, stop)
          BY <4>4, ToPortReads, Zenon
        <4> QED
          BY <4>5 DEF PortRead, h, stop
      <3> QED
        BY <3>1, <3>4, Zenon DEF i
    <2>4. Port(d) = Decimal(d)
      BY <1>2, PortAsMeant DEF d
    <2>5. Meant(r).port = Decimal(d)
      BY <1>2, <1>14 DEF Meant, d
    <2> QED
      BY <1>8, <1>9, <2>2, <2>3, <2>4, <2>5 DEF Right, Host
  <1> QED
    BY <1>13, <1>14

LEMMA Beyond ==
    ASSUME NEW m \in Nat, m # 11, ~ (m < 11)
    PROVE  m >= 12
  OBVIOUS

LEMMA Further ==
    ASSUME NEW m \in Nat, m # 12, m >= 12
    PROVE  13 <= m
  OBVIOUS

LEMMA Shorter ==
    ASSUME NEW m \in Nat, m < 11, NEW l, NEW n \in Nat, l = 17 \/ l = n + 18
    PROVE  m < l
  OBVIOUS

\* GET http://[host]/path or GET http://[host]:port/path, not cut right after
\* "http://", ']' or the ':' of the port.
LEMMA HttpIPv6Right ==
    ASSUME NEW r, IsRequest(r), r.kind = "http", r.ipv6,
           NEW s, Beginning(r, s), Len(s) >= 7, Len(s) # 11,
           r.port # <<>> => Len(s) # 12
    PROVE  Right(r, s)
  <1> DEFINE L == Line(r)
             A == Lead(r)
             d == r.port
             n == Len(d)
  <1>1. /\ A \in Seq(Int) /\ Len(A) = 11 /\ A[1] = Word /\ A[2] = Space
        /\ A[3] = Http /\ A[4] = Colon /\ A[5] = Slash /\ A[6] = Slash
        /\ A[7] = Open /\ A[8] = Word /\ A[9] = Colon /\ A[10] = Word
        /\ A[11] = Close
    BY HttpIPv6
  <1>2. /\ d \in Seq(48 .. 57) /\ n \in Nat
        /\ Decimal(d) < PortSpace /\ (d = <<>> <=> n = 0)
    <2>1. d \in Seq(48 .. 57)
      BY DEF IsRequest
    <2> QED
      BY <2>1 DEF IsRequest
  <1>3. /\ L \in Seq(Int)
        /\ Len(L) = IF n = 0 THEN 17 ELSE n + 18
        /\ \A i \in 1 .. 11 : L[i] = A[i]
        /\ n = 0 => L[12] = Slash
        /\ n # 0 => L[12] = Colon /\ L[13 + n] = Slash
        /\ n # 0 => \A i \in 1 .. n : L[12 + i] = d[i]
    <2>1. CASE n = 0
      <3>1. /\ L \in Seq(Int)
            /\ Len(L) = Len(A) + (IF r.kind = "http" THEN 6 ELSE 4)
            /\ \A i \in 1 .. Len(A) : L[i] = A[i]
            /\ L[Len(A) + 1] = IF r.kind = "http" THEN Slash ELSE Space
        <4>1. r.port = <<>>
          BY <1>2, <2>1
        <4> QED
          BY <1>1, <4>1, LineNoPort, ZenonT(30)
      <3> HIDE DEF A, L, d, n
      <3>2. Len(A) = 11 /\ Len(A) + 1 = 12 /\ Len(A) + 6 = 17
        BY <1>1
      <3>3. Len(L) = 17 /\ L[12] = Slash
        BY <3>1, <3>2
      <3>4. \A i \in 1 .. 11 : L[i] = A[i]
        BY <3>1, <3>2, Zenon
      <3> QED
        BY <2>1, <3>1, <3>3, <3>4
    <2>2. CASE n # 0
      <3>1. /\ L \in Seq(Int)
            /\ Len(L) = Len(A) + n + (IF r.kind = "http" THEN 7 ELSE 5)
            /\ \A i \in 1 .. Len(A) : L[i] = A[i]
            /\ L[Len(A) + 1] = Colon
            /\ \A i \in 1 .. n : L[Len(A) + 1 + i] = d[i]
            /\ L[Len(A) + n + 2] = IF r.kind = "http" THEN Slash ELSE Space
        <4>1. r.port # <<>> /\ r.port \in Seq(48 .. 57)
          BY <1>2, <2>2
        <4>2. WithPort(L, A, d, r.kind = "http")
          BY <1>1, <4>1, LineWithPort, Zenon
        <4> HIDE DEF A, L, d
        <4> QED
          BY <4>2, Zenon DEF WithPort
      <3> HIDE DEF A, L, d, n
      <3>2. /\ Len(A) = 11 /\ Len(A) + n + 7 = n + 18
            /\ Len(A) + 1 = 12 /\ Len(A) + n + 2 = 13 + n
        BY <1>1, <1>2
      <3>3. Len(L) = n + 18 /\ L[12] = Colon /\ L[13 + n] = Slash
        BY <3>1, <3>2
      <3>4. ASSUME NEW i \in 1 .. n PROVE L[12 + i] = d[i]
        <4>1. L[Len(A) + 1 + i] = d[i]
          BY <3>1, Zenon
        <4> QED
          BY <3>2, <4>1, Zenon
      <3>5. \A i \in 1 .. 11 : L[i] = A[i]
        BY <3>1, <3>2, Zenon
      <3> QED
        BY <2>2, <3>1, <3>3, <3>4, <3>5
    <2> QED
      BY <2>1, <2>2
  <1>4. /\ s \in Seq(Int) /\ Len(s) \in Nat /\ Len(s) <= Len(L)
        /\ Len(s) >= 7 /\ Len(s) # 11 /\ (n # 0 => Len(s) # 12)
    BY <1>2 DEF Beginning
  <1>5. \A i \in 1 .. Len(s) : s[i] = L[i]
    BY DEF Beginning
  <1> HIDE DEF L, A, d, n
  <1>6. Len(s) \in Nat /\ Len(s) >= 7 /\ Len(s) # 11 /\ Len(s) >= 2 /\ Len(s) >= 6
    <2>1. Len(s) \in Nat /\ Len(s) >= 7 /\ Len(s) # 11
      BY <1>4
    <2> QED
      BY <2>1
  <1>13. ASSUME NEW i \in 1 .. 11, i \in 1 .. Len(s) PROVE s[i] = A[i]
    <2>1. s[i] = L[i]
      BY <1>5, <1>13, Zenon
    <2>2. L[i] = A[i]
      BY <1>3, <1>13, Zenon
    <2> QED
      BY <2>1, <2>2
  <1>7. /\ s[1] = Word /\ s[2] = Space /\ s[3] = Http /\ s[4] = Colon
        /\ s[5] = Slash /\ s[6] = Slash /\ s[7] = Open
    <2>1. /\ 1 \in 1 .. Len(s) /\ 2 \in 1 .. Len(s) /\ 3 \in 1 .. Len(s)
          /\ 4 \in 1 .. Len(s) /\ 5 \in 1 .. Len(s) /\ 6 \in 1 .. Len(s)
          /\ 7 \in 1 .. Len(s)
      BY <1>4
    <2>2. /\ 1 \in 1 .. 11 /\ 2 \in 1 .. 11 /\ 3 \in 1 .. 11 /\ 4 \in 1 .. 11
          /\ 5 \in 1 .. 11 /\ 6 \in 1 .. 11 /\ 7 \in 1 .. 11
      OBVIOUS
    <2>3. s[1] = A[1] /\ s[2] = A[2] /\ s[3] = A[3] /\ s[4] = A[4]
      BY <1>13, <2>1, <2>2, Zenon
    <2>4. s[5] = A[5] /\ s[6] = A[6] /\ s[7] = A[7]
      BY <1>13, <2>1, <2>2, Zenon
    <2> QED
      BY <1>1, <2>3, <2>4
  <1>8. Address(s) = 3
    BY <1>4, <1>6, <1>7, AddressFound, Zenon
  <1>9. IsHttp(s)
    BY <1>4, <1>6, <1>7, <1>8, HttpSeen, Zenon
  <1>10. Parse(s) = ParseIPv6(s, 7)
    <2>1. Len(HttpPrefix) = 4
      BY DEF HttpPrefix
    <2> QED
      BY <1>4, <1>7, <1>8, <1>9, <2>1 DEF Parse
  <1> DEFINE e == Scan(s, 7 + 1, {Close})
  <1>11. CASE Len(s) < 11
    <2>1. \A j \in 8 .. Len(s) : s[j] \notin {Close}
      <3> SUFFICES ASSUME NEW j \in 8 .. Len(s) PROVE s[j] # Close
        OBVIOUS
      <3>1. j \in 1 .. Len(s) /\ j \in 1 .. 11 /\ (j = 8 \/ j = 9 \/ j = 10)
        BY <1>4, <1>11
      <3>2. s[j] = A[j]
        BY <1>13, <3>1, Zenon
      <3>3. A[8] # Close /\ A[9] # Close /\ A[10] # Close
        BY <1>1
      <3> QED
        BY <3>1, <3>2, <3>3, Zenon
    <2>2. e = Len(s) + 1
      <3>1. Scan(s, 8, {Close}) = Len(s) + 1
        BY <1>4, <2>1, ScanMisses
      <3> QED
        BY <3>1
    <2> HIDE DEF e
    <2>3. e > Len(s)
      BY <1>4, <2>2
    <2>4. Parse(s) = More
      BY <1>10, <2>3 DEF ParseIPv6, e
    <2>5. Len(s) < Len(L)
      <3>1. Len(L) = 17 \/ Len(L) = n + 18
        BY <1>3
      <3> QED
        BY <1>2, <1>6, <1>11, <3>1, Shorter, Zenon
    <2> QED
      BY <1>8, <1>9, <2>4, <2>5 DEF Right, L
  <1>12. CASE ~ (Len(s) < 11)
    <2>1. Len(s) >= 12
      BY <1>6, <1>12, Beyond, Zenon
    <2>2. /\ s[8] = Word /\ s[9] = Colon /\ s[10] = Word /\ s[11] = Close
          /\ s[12] = L[12]
      <3>1. /\ 8 \in 1 .. Len(s) /\ 9 \in 1 .. Len(s) /\ 10 \in 1 .. Len(s)
            /\ 11 \in 1 .. Len(s) /\ 12 \in 1 .. Len(s)
        BY <1>4, <2>1
      <3>2. 8 \in 1 .. 11 /\ 9 \in 1 .. 11 /\ 10 \in 1 .. 11 /\ 11 \in 1 .. 11
        OBVIOUS
      <3>3. s[8] = A[8] /\ s[9] = A[9] /\ s[10] = A[10] /\ s[11] = A[11]
        BY <1>13, <3>1, <3>2, Zenon
      <3>4. s[12] = L[12]
        BY <1>5, <3>1, Zenon
      <3> QED
        BY <1>1, <3>3, <3>4
    <2>3. e = 11 /\ SubSeq(s, 7 + 1, e - 1) = <<Word, Colon, Word>>
      <3> DEFINE i == 8
      <3>1. /\ i \in Nat /\ 1 <= i /\ i + 3 <= Len(s)
            /\ i + 1 = 9 /\ i + 2 = 10 /\ i + 3 = 11 /\ 7 + 1 = i
        BY <1>4, <2>1
      <3>2. s[i] = Word /\ s[i + 1] = Colon /\ s[i + 2] = Word /\ s[i + 3] = Close
        BY <2>2, <3>1
      <3> HIDE DEF i
      <3>3. /\ Scan(s, i, {Close}) = i + 3
            /\ SubSeq(s, i, (i + 3) - 1) = <<Word, Colon, Word>>
        BY <1>4, <3>1, <3>2, IPv6Ends, ZenonT(30)
      <3> QED
        BY <3>1, <3>3, Zenon
    <2> HIDE DEF e
    <2>4. ~ (e > Len(s)) /\ e < Len(s) /\ e + 1 = 12 /\ e + 2 = 13
      BY <1>4, <2>1, <2>3, SMTT(30)
    <2>5. CASE n = 0
      <3>1. s[e + 1] # Colon
        BY <1>3, <2>2, <2>4, <2>5
      <3>2. Parse(s) = To(<<Word, Colon, Word>>, 80)
        BY <1>10, <2>3, <2>4, <3>1 DEF ParseIPv6, e
      <3>3. Meant(r).port = 80
        BY <1>2, <2>5 DEF Meant, d
      <3> QED
        BY <1>8, <1>9, <3>2, <3>3 DEF Right, Host
    <2>6. CASE n # 0
      <3> DEFINE h == <<Word, Colon, Word>>
      <3>1. s[e + 1] = Colon
        BY <1>3, <2>2, <2>4, <2>6
      <3>2. Parse(s) = ToPort(s, h, 13, {Slash})
        BY <1>10, <2>3, <2>4, <3>1 DEF ParseIPv6, e
      <3>3. PortRead(s, h, 13, d, n, Slash)
        <4> DEFINE i == 13
        <4>1. i \in Nat /\ i <= Len(s) /\ 1 <= i /\ Len(d) = n
          <5>1. Len(s) # 12
            BY <1>4, <2>6
          <5>2. 13 <= Len(s)
            BY <1>6, <2>1, <5>1, Further, Zenon
          <5>3. i \in Nat /\ 1 <= i /\ Len(d) = n
            BY DEF n
          <5> QED
            BY <5>2, <5>3, Zenon
        <4>2. \A j \in 1 .. n : i - 1 + j <= Len(s) => s[i - 1 + j] = d[j]
          <5> SUFFICES ASSUME NEW j \in 1 .. n, i - 1 + j <= Len(s)
                       PROVE  s[i - 1 + j] = d[j]
            OBVIOUS
          <5>1. i - 1 + j = 12 + j /\ 12 + j \in 1 .. Len(s)
            BY <1>2, <1>4
          <5>2. s[12 + j] = L[12 + j]
            BY <1>5, <5>1, Zenon
          <5>3. L[12 + j] = d[j]
            BY <1>3, <2>6, Zenon
          <5> QED
            BY <5>1, <5>2, <5>3, Zenon
        <4>3. i + n <= Len(s) => s[i + n] = Slash
          <5> SUFFICES ASSUME i + n <= Len(s) PROVE s[13 + n] = Slash
            OBVIOUS
          <5>1. 13 + n \in 1 .. Len(s)
            BY <1>2, <1>4
          <5>2. s[13 + n] = L[13 + n]
            BY <1>5, <5>1, Zenon
          <5> QED
            BY <1>3, <2>6, <5>2, Zenon
        <4> HIDE DEF i, h
        <4>4. PortRead(s, h, i, d, n, Slash)
          <5> DEFINE stop == Slash
          <5>1. stop \in {Slash, Space}
            OBVIOUS
          <5>2. i + n <= Len(s) => s[i + n] = stop
            BY <4>3
          <5>3. s \in Seq(Int) /\ d \in Seq(48 .. 57) /\ n \in Nat
            BY <1>2, <1>4
          <5> HIDE DEF stop
          <5>4. PortAt(s, i, d, n, stop)
            BY <4>1, <4>2, <5>1, <5>2, <5>3, Zenon DEF PortAt
          <5>5. PortRead(s, h, i, d, n, stop)
            BY <5>4, ToPortReads, Zenon
          <5> QED
            BY <5>5, Zenon DEF stop
        <4> QED
          BY <4>4, Zenon DEF i
      <3>4. Port(d) = Decimal(d)
        BY <1>2, PortAsMeant DEF d
      <3>5. Meant(r).port = Decimal(d)
        BY <1>2, <2>6 DEF Meant, d
      <3>6. Host(r) = h
        BY DEF Host
      <3> HIDE DEF h
      <3>7. CASE 13 + n <= Len(s)
        <4>1. Parse(s) = To(h, Port(d))
          BY <3>2, <3>3, <3>7 DEF PortRead
        <4> QED
          BY <1>8, <1>9, <3>4, <3>5, <3>6, <4>1 DEF Right
      <3>8. CASE ~ (13 + n <= Len(s))
        <4>1. Parse(s) = More
          BY <3>2, <3>3, <3>8 DEF PortRead
        <4>2. Len(s) < Len(L)
          <5>1. Len(L) = n + 18
            BY <1>3, <2>6
          <5> QED
            BY <1>2, <1>4, <3>8, <5>1
        <4> QED
          BY <1>8, <1>9, <4>1, <4>2 DEF Right, L
      <3> QED
        BY <3>7, <3>8
    <2> QED
      BY <2>5, <2>6
  <1> QED
    BY <1>11, <1>12

\* The shortest lines there are.
LEMMA LineLong ==
    ASSUME NEW r, IsRequest(r)
    PROVE  /\ Line(r) \in Seq(Int) /\ Len(Line(r)) \in Nat /\ Len(Line(r)) >= 8
           /\ r.kind = "http" => Len(Line(r)) >= 14
           /\ r.kind = "http" /\ r.ipv6 => Len(Line(r)) >= 17
           /\ Line(r)[1] = Word
  <1> DEFINE A == Lead(r)
             k == Len(A)
             n == Len(r.port)
             p == IF n = 0 THEN 0 ELSE n + 1
             q == IF r.kind = "http" THEN 2 ELSE 0
             L == Line(r)
  <1>1. r.port \in Seq(48 .. 57) /\ r.kind \in {"http", "https"} /\ r.ipv6 \in BOOLEAN
    BY DEF IsRequest
  <1>2. /\ A \in Seq(Int) /\ A[1] = Word
        /\ k = IF r.kind = "http" THEN IF r.ipv6 THEN 11 ELSE 8
               ELSE IF r.ipv6 THEN 7 ELSE 4
    <2>1. CASE r.kind = "http" /\ r.ipv6
      BY <2>1, HttpIPv6
    <2>2. CASE r.kind = "http" /\ ~r.ipv6
      BY <2>2, HttpName
    <2>3. CASE r.kind = "https" /\ r.ipv6
      BY <2>3, HttpsIPv6
    <2>4. CASE r.kind = "https" /\ ~r.ipv6
      BY <2>4, HttpsName
    <2> QED
      BY <1>1, <2>1, <2>2, <2>3, <2>4
  <1>3. LineIs(r, L, k, n, p, q)
    BY <1>1, <1>2, LineParts, Zenon
  <1>4. n \in Nat
    BY <1>1
  <1>5. p \in Nat /\ q = (IF r.kind = "http" THEN 2 ELSE 0)
    BY <1>4
  <1> HIDE DEF A, k, n, p, q, L
  <1>6. /\ L \in Seq(Int) /\ Len(L) = k + p + q + 4
        /\ \A i \in 1 .. k : L[i] = A[i]
    BY <1>3 DEF LineIs, A
  <1>7. 1 \in 1 .. k
    BY <1>2
  <1>8. L[1] = Word
    <2>1. L[1] = A[1]
      BY <1>6, <1>7, Zenon
    <2> QED
      BY <1>2, <2>1
  <1>9. /\ Len(L) \in Nat /\ Len(L) >= 8
        /\ r.kind = "http" => Len(L) >= 14
        /\ r.kind = "http" /\ r.ipv6 => Len(L) >= 17
    <2>1. CASE r.kind = "http"
      <3>1. q = 2 /\ (k = 8 \/ k = 11) /\ (r.ipv6 => k = 11)
        BY <1>2, <1>5, <2>1
      <3> QED
        BY <1>5, <1>6, <3>1, SMTT(30)
    <2>2. CASE r.kind = "https"
      <3>1. q = 0 /\ (k = 4 \/ k = 7)
        BY <1>2, <1>5, <2>2
      <3> QED
        BY <1>5, <1>6, <2>2, <3>1
    <2> QED
      BY <1>1, <2>1, <2>2
  <1> QED
    BY <1>6, <1>8, <1>9 DEF L

\* Before three characters have arrived, there is no address to look at.
LEMMA TooShort ==
    ASSUME NEW s \in Seq(Int), Len(s) \in Nat, 1 <= Len(s), Len(s) < 3, s[1] = Word
    PROVE  Address(s) > Len(s)
  <1> DEFINE f == Scan(s, 1, {Space})
  <1>1. /\ f \in (1 .. Len(s)) \cup {Len(s) + 1}
        /\ f <= Len(s) => s[f] \in {Space}
    BY ScanRange
  <1> HIDE DEF f
  <1>2. f # 1
    BY <1>1
  <1>3. f \in Nat /\ f >= 2
    BY <1>1, <1>2
  <1> QED
    BY <1>3 DEF Address, f

-----------------------------------------------------------------------------
(* A request that is read as it is meant, not cut where it hurts           *)

LEMMA LongLine ==
    ASSUME NEW m \in Nat, m >= 17
    PROVE  m # 11 /\ m # 12
  OBVIOUS

LEMMA BehindScheme ==
    ASSUME NEW m \in Nat, m >= 3, NEW F, 2 + 1 .. 2 + 4 \subseteq F, m \notin F
    PROVE  m >= 7
  <1>1. m \notin 3 .. 6
    OBVIOUS
  <1> QED
    BY <1>1

\* An address that comes with no port, or with one that is not misread, in a
\* line that is cut nowhere or at a place that is not fragile, is found.
LEMMA ParseRight ==
    ASSUME NEW r, IsRequest(r), ~Misread(r),
           NEW s, Beginning(r, s), Len(s) >= 3,
           Len(s) = Len(Line(r)) \/ Len(s) \notin Fragile(r)
    PROVE  Right(r, s)
  <1>1. /\ r.kind \in {"http", "https"} /\ r.ipv6 \in BOOLEAN
        /\ r.port # <<>> => ((r.kind = "http") = r.ipv6)
    BY DEF IsRequest, Misread
  <1>2. /\ Len(Line(r)) \in Nat /\ Len(Line(r)) >= 8
        /\ r.kind = "http" => Len(Line(r)) >= 14
        /\ r.kind = "http" /\ r.ipv6 => Len(Line(r)) >= 17
    BY LineLong
  <1>3. Len(s) \in Nat /\ Len(s) <= Len(Line(r))
    BY DEF Beginning
  <1>4. Len(Start) = 2 /\ Len(HttpPrefix) = 4 /\ Len(Version) = 4
    BY DEF Start, HttpPrefix, Version
  <1>5. CASE r.kind = "https"
    <2>1. Fragile(r) = 2 + 1 .. Len(Line(r)) - 4
      BY <1>4, <1>5 DEF Fragile
    <2>2. Len(s) > Len(Line(r)) - 4
      BY <1>2, <1>3, <2>1
    <2>3. CASE r.ipv6
      <3>1. r.port = <<>>
        BY <1>1, <1>5, <2>3
      <3> QED
        BY <1>5, <2>2, <2>3, <3>1, HttpsIPv6Right
    <2>4. CASE ~r.ipv6
      BY <1>5, <2>2, <2>4, HttpsNameRight
    <2> QED
      BY <2>3, <2>4
  <1>6. CASE r.kind = "http"
    <2>1. 2 + 1 .. 2 + 4 \subseteq Fragile(r)
      BY <1>4, <1>6 DEF Fragile
    <2>2. Len(s) >= 7
      <3>1. CASE Len(s) = Len(Line(r))
        BY <1>2, <1>6, <3>1
      <3>2. CASE Len(s) \notin Fragile(r)
        BY <1>3, <2>1, <3>2, BehindScheme, Zenon
      <3> QED
        BY <3>1, <3>2
    <2>3. CASE r.ipv6
      <3>1. 2 + Len(Scheme(r) \o Site(r)) = 11
        BY <1>6, <2>3 DEF Scheme, Site, Host, HttpPrefix
      <3>2. 11 \in Fragile(r) /\ (r.port # <<>> => 12 \in Fragile(r))
        <4> DEFINE site == 2 + Len(Scheme(r) \o Site(r))
        <4>1. site = 11 /\ site + 1 = 12
          BY <3>1
        <4>2. Fragile(r) = 2 + 1 .. 2 + 4 \cup {site}
                             \cup (IF r.port # <<>> THEN {site + 1} ELSE {})
          BY <1>4, <1>6, <2>3 DEF Fragile
        <4> HIDE DEF site
        <4> QED
          BY <4>1, <4>2
      <3>3. Len(s) # 11 /\ (r.port # <<>> => Len(s) # 12)
        <4>1. CASE Len(s) = Len(Line(r))
          <5>1. Len(s) >= 17
            BY <1>2, <1>6, <2>3, <4>1
          <5> QED
            BY <1>3, <5>1, LongLine, Zenon
        <4>2. CASE Len(s) \notin Fragile(r)
          BY <3>2, <4>2, Zenon
        <4> QED
          BY <4>1, <4>2
      <3> QED
        BY <1>6, <2>2, <2>3, <3>3, HttpIPv6Right
    <2>4. CASE ~r.ipv6
      <3>1. r.port = <<>>
        BY <1>1, <1>6, <2>4
      <3> QED
        BY <1>6, <2>2, <2>4, <3>1, HttpNameRight
    <2> QED
      BY <2>3, <2>4
  <1> QED
    BY <1>1, <1>5, <1>6

-----------------------------------------------------------------------------
(* Any port that is found has sixteen bits                                 *)

PortFits(p) == p.to.port \in 0 .. PortSpace - 1

LEMMA PortsFit == 0 \in 0 .. PortSpace - 1 /\ 80 \in 0 .. PortSpace - 1
  BY DEF PortSpace

LEMMA SliceOfNumbers ==
    ASSUME NEW s \in Seq(Int), NEW i \in Nat, NEW j \in Int,
           1 <= i, i <= j + 1, j <= Len(s)
    PROVE  SubSeq(s, i, j) \in Seq(Int)
  OBVIOUS

LEMMA ToPortFits ==
    ASSUME NEW s \in Seq(Int), NEW host, NEW i \in Nat, 1 <= i, NEW stops
    PROVE  PortFits(ToPort(s, host, i, stops))
  <1> DEFINE e == Scan(s, i, stops)
             p == ToPort(s, host, i, stops)
  <1>1. Len(s) \in Nat /\ e \in (i .. Len(s)) \cup {Len(s) + 1}
    BY ScanRange
  <1>2. CASE i > Len(s)
    <2>1. p = Overrun
      BY <1>2 DEF ToPort
    <2> QED
      BY <2>1, PortsFit DEF PortFits, Overrun, NoTarget
  <1>3. CASE ~ (i > Len(s)) /\ e > Len(s)
    <2>1. p = More
      BY <1>3 DEF ToPort
    <2> QED
      BY <2>1, PortsFit DEF PortFits, More, NoTarget
  <1>4. CASE ~ (i > Len(s)) /\ ~ (e > Len(s))
    <2>1. p = To(host, Port(SubSeq(s, i, e - 1)))
      BY <1>4 DEF ToPort
    <2> HIDE DEF e
    <2>2. e - 1 \in Int /\ i <= (e - 1) + 1 /\ e - 1 <= Len(s)
      BY <1>1, <1>4
    <2>3. SubSeq(s, i, e - 1) \in Seq(Int)
      BY <2>2, SliceOfNumbers, Zenon
    <2>4. Port(SubSeq(s, i, e - 1)) \in 0 .. PortSpace - 1
      BY <2>3, PortInRange, Zenon
    <2> QED
      BY <2>1, <2>4 DEF PortFits, To
  <1> QED
    BY <1>2, <1>3, <1>4

LEMMA ParseFits ==
    ASSUME NEW s \in Seq(Int)
    PROVE  PortFits(Parse(s))
  <1> DEFINE a == Address(s)
             i == a + (IF IsHttp(s) THEN Len(HttpPrefix) ELSE 0)
             p == Parse(s)
  <1>1. a \in Nat /\ i \in Nat /\ 1 <= i
    <2>1. Scan(s, 1, {Space}) \in (1 .. Len(s)) \cup {Len(s) + 1} /\ Len(s) \in Nat
      BY ScanRange
    <2>2. a \in Nat /\ 1 <= a
      BY <2>1 DEF Address
    <2>3. Len(HttpPrefix) = 4
      BY DEF HttpPrefix
    <2> QED
      BY <2>2, <2>3
  <1>2. /\ i > Len(s) => p = Overrun
        /\ ~ (i > Len(s)) /\ s[i] = Open => p = ParseIPv6(s, i)
        /\ ~ (i > Len(s)) /\ s[i] # Open => p = ParseName(s, i)
    BY DEF Parse
  <1> HIDE DEF a, i, p
  <1>3. PortFits(Overrun) /\ PortFits(More) /\ \A h : PortFits(To(h, 80))
    BY PortsFit DEF PortFits, Overrun, More, NoTarget, To
  <1>4. PortFits(ParseIPv6(s, i))
    <2> DEFINE e == Scan(s, i + 1, {Close})
    <2>1. e \in (i + 1 .. Len(s)) \cup {Len(s) + 1} /\ Len(s) \in Nat
      <3>1. i + 1 \in Nat /\ Len(s) \in Nat
        BY <1>1
      <3> QED
        BY <3>1, ScanRange
    <2> HIDE DEF e
    <2>2. e + 2 \in Nat /\ 1 <= e + 2
      BY <1>1, <2>1
    <2>3. \A h : PortFits(ToPort(s, h, e + 2, {Slash}))
      BY <2>2, ToPortFits, Zenon
    <2> QED
      BY <1>3, <2>3, Zenon DEF ParseIPv6, e
  <1>5. PortFits(ParseName(s, i))
    <2> DEFINE e == Scan(s, i, {Colon, Space, Slash})
    <2>1. e \in (i .. Len(s)) \cup {Len(s) + 1} /\ Len(s) \in Nat
      <3>1. Len(s) \in Nat
        OBVIOUS
      <3> QED
        BY <1>1, <3>1, ScanRange
    <2> HIDE DEF e
    <2>2. e + 1 \in Nat /\ 1 <= e + 1
      BY <1>1, <2>1
    <2>3. \A h : PortFits(ToPort(s, h, e + 1, {Space}))
      BY <2>2, ToPortFits, Zenon
    <2> QED
      BY <1>3, <2>3, Zenon DEF ParseName, e
  <1> QED
    BY <1>2, <1>3, <1>4, <1>5, Zenon DEF p

-----------------------------------------------------------------------------
(* The inductive invariant                                                 *)

\* What has arrived.
Received == SubSeq(Line(req), 1, sent)

\* Of a request that is read as it is meant and not cut where it hurts:
\* either everything there is so far is kept and more is to come, or the
\* target is known.
Shape ==
    \/ /\ target = NoTarget /\ sent < Len(Line(req)) /\ rxbuf = Received
    \/ /\ target = Meant(req) /\ kind = req.kind
       /\ rxbuf = IF req.kind = "http" THEN Received ELSE <<>>

IInv ==
    /\ TypeOK
    /\ rxbuf \in Seq(Int)
    /\ kind = "unknown" => target = NoTarget
    /\ Sound => Shape

LEMMA PrefixOf ==
    ASSUME NEW L \in Seq(Int), NEW m \in Nat, m <= Len(L)
    PROVE  /\ SubSeq(L, 1, m) \in Seq(Int) /\ Len(SubSeq(L, 1, m)) = m
           /\ \A i \in 1 .. m : SubSeq(L, 1, m)[i] = L[i]
  OBVIOUS

\* The pieces of a line, put together.
LEMMA Pieces ==
    ASSUME NEW L \in Seq(Int), NEW m \in Nat, NEW n \in Nat,
           1 <= n, m + n <= Len(L)
    PROVE  SubSeq(L, 1, m) \o SubSeq(L, m + 1, m + n) = SubSeq(L, 1, m + n)
  <1> DEFINE a == SubSeq(L, 1, m)
             b == SubSeq(L, m + 1, m + n)
             c == SubSeq(L, 1, m + n)
  <1>1. a \in Seq(Int) /\ Len(a) = m /\ \A i \in 1 .. m : a[i] = L[i]
    <2>1. m <= Len(L)
      OBVIOUS
    <2> QED
      BY <2>1, PrefixOf, Zenon
  <1>2. b \in Seq(Int) /\ Len(b) = n /\ \A i \in 1 .. n : b[i] = L[m + i]
    OBVIOUS
  <1>3. c \in Seq(Int) /\ Len(c) = m + n /\ \A i \in 1 .. m + n : c[i] = L[i]
    <2>1. m + n \in Nat /\ m + n <= Len(L)
      OBVIOUS
    <2> QED
      BY <2>1, PrefixOf, Zenon
  <1> HIDE DEF a, b, c
  <1>4. /\ a \o b \in Seq(Int) /\ Len(a \o b) = m + n
        /\ \A i \in 1 .. Len(a) : (a \o b)[i] = a[i]
        /\ \A i \in 1 .. Len(b) : (a \o b)[Len(a) + i] = b[i]
    BY <1>1, <1>2, Joined
  <1>5. ASSUME NEW i \in 1 .. m + n PROVE (a \o b)[i] = c[i]
    <2>1. CASE i \in 1 .. m
      BY <1>1, <1>3, <1>4, <2>1
    <2>2. CASE i \notin 1 .. m
      <3>1. i - m \in 1 .. n /\ m + (i - m) = i
        BY <2>2
      <3>2. (a \o b)[m + (i - m)] = b[i - m]
        BY <1>1, <1>2, <1>4, <3>1, Zenon
      <3>3. b[i - m] = L[m + (i - m)]
        BY <1>2, <3>1, Zenon
      <3> QED
        BY <1>3, <3>1, <3>2, <3>3
    <2> QED
      BY <2>1, <2>2
  <1>6. Len(a \o b) = Len(c) /\ \A i \in 1 .. Len(a \o b) : (a \o b)[i] = c[i]
    BY <1>3, <1>4, <1>5
  <1>7. a \o b = c
    BY <1>3, <1>4, <1>6, SameSeq, Zenon
  <1> QED
    BY <1>7 DEF a, b, c

LEMMA PrefixBegins ==
    ASSUME NEW r, Line(r) \in Seq(Int), NEW m \in Nat, m <= Len(Line(r))
    PROVE  LET s == SubSeq(Line(r), 1, m)
           IN  Len(s) = m /\ Beginning(r, s)
  <1> DEFINE L == Line(r)
             s == SubSeq(L, 1, m)
  <1>1. L \in Seq(Int) /\ m <= Len(L)
    OBVIOUS
  <1> HIDE DEF L
  <1>2. s \in Seq(Int) /\ Len(s) = m /\ \A i \in 1 .. m : s[i] = L[i]
    BY <1>1
  <1> HIDE DEF s
  <1>3. s \in Seq(Int) /\ Len(s) <= Len(L) /\ \A i \in 1 .. Len(s) : s[i] = L[i]
    BY <1>1, <1>2
  <1>4. Beginning(r, s)
    BY <1>3 DEF Beginning, L
  <1> QED
    BY <1>2, <1>4 DEF s, L

LEMMA InitInv == Init => IInv
  <1> SUFFICES ASSUME Init PROVE IInv
    OBVIOUS
  <1>1. IsRequest(req)
    BY RequestsAssumption DEF Init
  <1>2. Line(req) \in Seq(Int) /\ Len(Line(req)) \in Nat /\ Len(Line(req)) >= 8
    BY <1>1, LineLong
  <1>3. Received = <<>>
    BY <1>2 DEF Received, Init
  <1>4. TypeOK
    <2>1. NoTarget.port \in 0 .. PortSpace - 1
      BY PortsFit DEF NoTarget
    <2>2. sent \in 0 .. Len(Line(req))
      BY <1>2 DEF Init
    <2> QED
      BY <1>3, <2>1, <2>2 DEF TypeOK, Init, Received
  <1>5. Shape
    <2>1. sent < Len(Line(req))
      BY <1>2 DEF Init
    <2> QED
      BY <1>3, <2>1 DEF Shape, Init
  <1> QED
    BY <1>4, <1>5 DEF IInv, Init

\* Characters arrive.
Arrives(n) ==
    /\ IsRequest(req) /\ req' = req
    /\ sent \in Nat /\ sent' = sent + n /\ n >= 1 /\ sent' <= Len(Line(req))
    /\ target = NoTarget
    /\ Appended(n) \in Seq(Int)
    /\ rxbuf = Received => Appended(n) = Received' /\ Beginning(req, Received')
                              /\ Len(Received') = sent'

LEMMA ReceiveArrives ==
    ASSUME IInv, NEW n, Receive(n)
    PROVE  n \in Nat /\ Arrives(n)
  <1>1. IsRequest(req) /\ sent \in 0 .. Len(Line(req)) /\ rxbuf \in Seq(Int)
    BY RequestsAssumption DEF IInv, TypeOK
  <1>2. Line(req) \in Seq(Int) /\ Len(Line(req)) \in Nat
    BY <1>1, LineLong
  <1>3. /\ n \in 1 .. Len(Line(req)) - sent /\ sent' = sent + n
        /\ req' = req /\ target = NoTarget
    BY DEF Receive
  <1>4. /\ n \in Nat /\ 1 <= n /\ sent \in Nat /\ sent + n <= Len(Line(req))
        /\ sent + n \in Nat
    BY <1>1, <1>2, <1>3
  <1>5. Appended(n) \in Seq(Int)
    <2>1. Arrival(n) \in Seq(Int)
      <3>1. /\ sent + 1 \in Nat /\ sent + n \in Int /\ 1 <= sent + 1
            /\ sent + 1 <= (sent + n) + 1
        BY <1>4
      <3> QED
        BY <1>2, <1>4, <3>1, SliceOfNumbers, Zenon DEF Arrival
    <2> QED
      BY <1>1, <2>1 DEF Appended
  <1>6. Received' = SubSeq(Line(req), 1, sent + n)
    BY <1>3 DEF Received, Line, Scheme, Site, Host
  <1>7. ASSUME rxbuf = Received PROVE Appended(n) = Received'
    <2>1. SubSeq(Line(req), 1, sent) \o SubSeq(Line(req), sent + 1, sent + n)
            = SubSeq(Line(req), 1, sent + n)
      BY <1>2, <1>4, Pieces, Zenon
    <2> QED
      BY <1>6, <1>7, <2>1, Zenon DEF Received, Appended, Arrival
  <1>8. Beginning(req, Received') /\ Len(Received') = sent'
    <2>1. /\ Len(SubSeq(Line(req), 1, sent + n)) = sent + n
          /\ Beginning(req, SubSeq(Line(req), 1, sent + n))
      BY <1>2, <1>4, PrefixBegins, Zenon
    <2> QED
      BY <1>3, <1>6, <2>1, Zenon
  <1> QED
    BY <1>1, <1>3, <1>4, <1>5, <1>7, <1>8 DEF Arrives

\* What every reaction to them leaves in place.
LEMMA ArrivalTypes ==
    ASSUME IInv, NEW n, Receive(n)
    PROVE  req' \in Requests /\ sent' \in 0 .. Len(Line(req')) /\ cuts' \subseteq 1 .. sent'
  <1>1. n \in Nat /\ Arrives(n)
    BY ReceiveArrives
  <1>2. req \in Requests /\ cuts \subseteq 1 .. sent
    BY DEF IInv, TypeOK
  <1>3. Len(Line(req)) \in Nat
    BY <1>1, LineLong DEF Arrives
  <1>4. req' = req /\ sent' \in 0 .. Len(Line(req)) /\ sent' >= 1 /\ sent <= sent'
    BY <1>1, <1>3 DEF Arrives
  <1>5. cuts' \subseteq cuts \cup {sent'}
    BY DEF Receive
  <1>6. 1 .. sent \subseteq 1 .. sent' /\ sent' \in 1 .. sent'
    BY <1>1, <1>4 DEF Arrives
  <1> QED
    BY <1>2, <1>4, <1>5, <1>6

LEMMA MeantIsThere ==
    ASSUME NEW r
    PROVE  Meant(r) # NoTarget
  <1>1. Host(r) # <<>>
    BY DEF Host
  <1> QED
    BY <1>1 DEF Meant, NoTarget

\* If the request is still sound, everything has been kept.
LEMMA SoundBefore ==
    ASSUME IInv, NEW n, Receive(n), Sound'
    PROVE  /\ rxbuf = Received /\ ~Misread(req)
           /\ sent' = Len(Line(req)) \/ sent' \notin Fragile(req)
  <1>1. n \in Nat /\ Arrives(n)
    BY ReceiveArrives
  <1>2. req' = req /\ target = NoTarget
    BY <1>1 DEF Arrives
  <1>3. ~Misread(req) /\ cuts' \cap Fragile(req) = {}
    BY <1>2 DEF Sound
  <1>4. cuts \subseteq cuts'
    BY DEF Receive
  <1>5. Sound
    BY <1>3, <1>4 DEF Sound
  <1>6. rxbuf = Received
    BY <1>2, <1>5, MeantIsThere DEF IInv, Shape
  <1>7. ASSUME sent' # Len(Line(req)) PROVE sent' \notin Fragile(req)
    <2>1. sent' < Len(Line(req))
      <3>1. Len(Line(req)) \in Nat
        BY <1>1, LineLong DEF Arrives
      <3>2. sent' \in Nat /\ sent' <= Len(Line(req))
        BY <1>1 DEF Arrives
      <3> QED
        BY <1>7, <3>1, <3>2
    <2>2. sent' \in cuts'
      BY <1>2, <2>1 DEF Receive
    <2> QED
      BY <1>3, <2>2
  <1> QED
    BY <1>3, <1>6, <1>7

\* And then the parser makes the right thing of it, if there is an address.
LEMMA SoundRead ==
    ASSUME IInv, NEW n, Receive(n), Sound'
    PROVE  LET s == Appended(n)
           IN  /\ s = Received' /\ Len(s) = sent'
               /\ \/ Right(req, s) /\ Address(s) <= Len(s)
                  \/ Address(s) > Len(s) /\ sent' < Len(Line(req))
  <1> DEFINE s == Appended(n)
  <1>1. n \in Nat /\ Arrives(n)
    BY ReceiveArrives
  <1>2. /\ rxbuf = Received /\ ~Misread(req)
        /\ sent' = Len(Line(req)) \/ sent' \notin Fragile(req)
    BY SoundBefore
  <1>3. s = Received' /\ Beginning(req, s) /\ Len(s) = sent'
    BY <1>1, <1>2 DEF Arrives
  <1>4. IsRequest(req) /\ sent' \in Nat /\ sent' >= 1 /\ s \in Seq(Int)
    BY <1>1 DEF Arrives
  <1>5. Len(Line(req)) \in Nat /\ Len(Line(req)) >= 8 /\ Line(req)[1] = Word
    BY <1>4, LineLong
  <1> HIDE DEF s
  <1>6. CASE sent' >= 3
    <2>1. /\ Len(s) >= 3
          /\ Len(s) = Len(Line(req)) \/ Len(s) \notin Fragile(req)
      BY <1>2, <1>3, <1>6
    <2>2. Right(req, s)
      BY <1>2, <1>3, <1>4, <2>1, ParseRight, Zenon
    <2>3. Address(s) = 3
      BY <2>2 DEF Right
    <2>4. Address(s) <= Len(s)
      BY <1>3, <1>6, <2>3
    <2> QED
      BY <1>3, <2>2, <2>4 DEF s
  <1>7. CASE ~ (sent' >= 3)
    <2>1. Len(s) \in Nat /\ 1 <= Len(s) /\ Len(s) < 3
      BY <1>3, <1>4, <1>7
    <2>2. s[1] = Word
      <3>1. 1 \in 1 .. Len(s)
        BY <2>1
      <3>2. s[1] = Line(req)[1]
        BY <1>3, <3>1, Zenon DEF Beginning
      <3> QED
        BY <1>5, <3>2
    <2>3. Address(s) > Len(s)
      BY <1>4, <2>1, <2>2, TooShort, Zenon
    <2>4. sent' < Len(Line(req))
      BY <1>4, <1>5, <1>7
    <2> QED
      BY <1>3, <2>3, <2>4 DEF s
  <1> QED
    BY <1>6, <1>7

LEMMA WaitForAddressInv ==
    ASSUME IInv, NEW n, WaitForAddress(n)
    PROVE  IInv'
  <1> DEFINE s == Appended(n)
  <1>1. /\ Receive(n) /\ Address(s) > Len(s) /\ rxbuf' = s
        /\ kind' = kind /\ target' = target
    BY DEF WaitForAddress
  <1>2. n \in Nat /\ Arrives(n)
    BY <1>1, ReceiveArrives
  <1>3. req' \in Requests /\ sent' \in 0 .. Len(Line(req')) /\ cuts' \subseteq 1 .. sent'
    BY <1>1, ArrivalTypes
  <1>4. rxbuf' \in Seq(Int) /\ target' = NoTarget
    BY <1>1, <1>2 DEF Arrives
  <1>5. TypeOK'
    <2>1. kind' = "unknown" => rxbuf' = SubSeq(Line(req'), 1, sent')
      <3>1. kind = "unknown" => rxbuf = Received
        BY DEF IInv, TypeOK, Received
      <3>2. rxbuf = Received => rxbuf' = Received'
        BY <1>1, <1>2 DEF Arrives
      <3>3. Received' = SubSeq(Line(req'), 1, sent')
        BY DEF Received
      <3> QED
        BY <1>1, <3>1, <3>2, <3>3
    <2>2. kind' \in {"unknown", "http", "https"} /\ target'.port \in 0 .. PortSpace - 1
      BY <1>1 DEF IInv, TypeOK
    <2> QED
      BY <1>3, <2>1, <2>2, Zenon DEF TypeOK
  <1>6. ASSUME Sound' PROVE Shape'
    <2>1. s = Received' /\ sent' < Len(Line(req))
      <3>1. /\ s = Received' /\ Len(s) = sent'
            /\ \/ Right(req, s) /\ Address(s) <= Len(s)
               \/ Address(s) > Len(s) /\ sent' < Len(Line(req))
        BY <1>1, <1>6, SoundRead, Zenon
      <3>2. Right(req, s) => Address(s) = 3
        BY DEF Right
      <3> HIDE DEF s
      <3>3. sent' \in Nat
        BY <1>2 DEF Arrives
      <3> QED
        BY <1>1, <3>1, <3>2, <3>3
    <2>2. req' = req
      BY <1>2 DEF Arrives
    <2> QED
      BY <1>1, <1>4, <2>1, <2>2 DEF Shape
  <1> QED
    BY <1>4, <1>5, <1>6 DEF IInv

LEMMA HandleClientRequestInv ==
    ASSUME IInv, NEW n, HandleClientRequest(n)
    PROVE  IInv'
  <1> DEFINE s == Appended(n)
             p == Parse(s)
  <1>1. /\ Receive(n) /\ Address(s) <= Len(s) /\ rxbuf' = Kept(s)
        /\ kind' = IF IsHttp(s) THEN "http" ELSE "https"
        /\ target' = p.to
    BY DEF HandleClientRequest
  <1>2. n \in Nat /\ Arrives(n)
    BY <1>1, ReceiveArrives
  <1>3. req' \in Requests /\ sent' \in 0 .. Len(Line(req')) /\ cuts' \subseteq 1 .. sent'
    BY <1>1, ArrivalTypes
  <1>4. s \in Seq(Int) /\ req' = req
    BY <1>2 DEF Arrives
  <1> HIDE DEF s
  <1>5. rxbuf' \in Seq(Int)
    BY <1>1, <1>4 DEF Kept
  <1>6. kind' \in {"http", "https"}
    BY <1>1
  <1>7. TypeOK'
    <2>1. target'.port \in 0 .. PortSpace - 1
      BY <1>1, <1>4, ParseFits DEF PortFits
    <2>2. kind' \in {"unknown", "http", "https"} /\ kind' # "unknown"
      BY <1>6
    <2> QED
      BY <1>3, <2>1, <2>2, Zenon DEF TypeOK
  <1>8. ASSUME Sound' PROVE Shape'
    <2>1. /\ s = Received' /\ Len(s) = sent'
          /\ \/ Right(req, s) /\ Address(s) <= Len(s)
             \/ Address(s) > Len(s) /\ sent' < Len(Line(req))
      BY <1>1, <1>8, SoundRead, Zenon DEF s
    <2>2. Right(req, s)
      <3>1. ~ (Address(s) > Len(s))
        <4>1. Scan(s, 1, {Space}) \in (1 .. Len(s)) \cup {Len(s) + 1} /\ Len(s) \in Nat
          BY <1>4, ScanRange
        <4>2. Address(s) \in Nat
          BY <4>1 DEF Address
        <4> QED
          BY <1>1, <4>1, <4>2
      <3> QED
        BY <2>1, <3>1
    <2>3. req.kind \in {"http", "https"}
      BY <1>2 DEF Arrives, IsRequest
    <2>4. kind' = req.kind
      BY <1>1, <2>2, <2>3 DEF Right
    <2>5. rxbuf' = IF req.kind = "http" THEN Received' ELSE <<>>
      BY <1>1, <2>1, <2>2 DEF Right, Kept
    <2>6. CASE p = To(Host(req), Meant(req).port)
      <3>1. target' = Meant(req)
        BY <1>1, <2>6 DEF To, Meant
      <3> QED
        BY <1>4, <2>4, <2>5, <3>1 DEF Shape
    <2>7. CASE req.kind = "http" /\ Len(s) < Len(Line(req)) /\ p = More
      <3>1. target' = NoTarget
        BY <1>1, <2>7 DEF More
      <3> QED
        BY <1>4, <2>1, <2>5, <2>7, <3>1 DEF Shape
    <2> QED
      BY <2>2, <2>6, <2>7 DEF Right
  <1> QED
    BY <1>5, <1>6, <1>7, <1>8 DEF IInv

LEMMA RunPastEndInv ==
    ASSUME IInv, NEW n, RunPastEnd(n)
    PROVE  IInv'
  <1> DEFINE s == Appended(n)
  <1>1. /\ Receive(n) /\ Address(s) <= Len(s) /\ rxbuf' = Kept(s)
        /\ Parse(s) = Overrun
        /\ kind' = IF IsHttp(s) THEN "http" ELSE "https"
        /\ target' \in {NoTarget, [host |-> <<Word>>, port |-> 80]}
    BY DEF RunPastEnd
  <1>2. n \in Nat /\ Arrives(n)
    BY <1>1, ReceiveArrives
  <1>3. req' \in Requests /\ sent' \in 0 .. Len(Line(req')) /\ cuts' \subseteq 1 .. sent'
    BY <1>1, ArrivalTypes
  <1>4. s \in Seq(Int)
    BY <1>2 DEF Arrives
  <1> HIDE DEF s
  <1>5. rxbuf' \in Seq(Int)
    BY <1>1, <1>4 DEF Kept
  <1>6. kind' \in {"http", "https"}
    BY <1>1
  <1>7. TypeOK'
    <2>1. target'.port \in 0 .. PortSpace - 1
      BY <1>1, PortsFit DEF NoTarget
    <2>2. kind' \in {"unknown", "http", "https"} /\ kind' # "unknown"
      BY <1>6
    <2> QED
      BY <1>3, <2>1, <2>2, Zenon DEF TypeOK
  <1>8. ~Sound'
    <2>1. SUFFICES ASSUME Sound' PROVE FALSE
      OBVIOUS
    <2>2. \/ Right(req, s) /\ Address(s) <= Len(s)
          \/ Address(s) > Len(s) /\ sent' < Len(Line(req))
      BY <1>1, <2>1, SoundRead, Zenon DEF s
    <2>3. ~ (Address(s) > Len(s))
      <3>1. Scan(s, 1, {Space}) \in (1 .. Len(s)) \cup {Len(s) + 1} /\ Len(s) \in Nat
        BY <1>4, ScanRange
      <3>2. Address(s) \in Nat
        BY <3>1 DEF Address
      <3> QED
        BY <1>1, <3>1, <3>2
    <2>4. Right(req, s)
      BY <2>2, <2>3
    <2> QED
      BY <1>1, <2>4 DEF Right, To, More, Overrun
  <1> QED
    BY <1>5, <1>6, <1>7, <1>8 DEF IInv

LEMMA NextInv == IInv /\ [Next]_vars => IInv'
  <1> SUFFICES ASSUME IInv, [Next]_vars PROVE IInv'
    OBVIOUS
  <1>1. CASE Next
    BY <1>1, WaitForAddressInv, HandleClientRequestInv, RunPastEndInv, Zenon DEF Next
  <1>2. CASE UNCHANGED vars
    BY <1>2 DEF vars, IInv, TypeOK, Sound, Shape, Received
  <1> QED
    BY <1>1, <1>2

THEOREM Invariance == Spec => []IInv
  BY InitInv, NextInv, PTL DEF Spec

\* A port that is asked for has sixteen bits, and a parser that returned 0
\* without deciding the kind has kept everything, whatever the application
\* sends and wherever recv cuts it, undefined behaviour included.
THEOREM TypeCorrect == Spec => []TypeOK
  <1>1. IInv => TypeOK
    BY DEF IInv
  <1> QED
    BY <1>1, Invariance, PTL

\* handle_client_request finds host and port of a request that has a form it
\* reads as it is meant, in whichever pieces it comes, unless one ends at a
\* fragile place: any port, any number of pieces.
THEOREM TargetAlwaysRight == Spec => []TargetRight
  <1>1. IInv => TargetRight
    BY DEF IInv, TargetRight, Shape
  <1> QED
    BY <1>1, Invariance, PTL

\* And rxbuf then holds what is to be forwarded: the http request as far as
\* it has arrived, nothing of a CONNECT.
THEOREM RequestAlwaysIntact == Spec => []RequestIntact
  <1>1. IInv => RequestIntact
    BY DEF IInv, RequestIntact, Shape, Received
  <1> QED
    BY <1>1, Invariance, PTL

=============================================================================
