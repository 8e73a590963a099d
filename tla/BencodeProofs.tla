--------------------------- MODULE BencodeProofs ---------------------------
(***************************************************************************)
(* The decoder decodes the grammar, for any bytes and any nesting: what it  *)
(* has read and the frames it has open leave exactly the readings that the  *)
(* whole of the bytes has in Grammar (Faithful).                            *)
(*                                                                         *)
(* The encoder undoes it: what the grammar reads strictly is written back   *)
(* byte for byte (EncodedAsRead, at the end).                               *)
(***************************************************************************)
EXTENDS Grammar, SequenceTheorems, FiniteSetTheorems, WellFoundedInduction, TLAPS

(* Induction: a set of numbers has a least one. *)
LEMMA LeastNat ==
    ASSUME NEW T \in SUBSET Nat, T # {}
    PROVE  \E n \in T : \A m \in T : n <= m
<1> DEFINE R == OpToRel(<, Nat)
<1>1. IsWellFoundedOn(R, Nat)
  BY NatLessThanWellFounded
<1>2. \A m, n \in Nat : m < n => <<m, n>> \in R
  BY DEF OpToRel
<1> HIDE DEF R
<1>3. PICK n \in T : \A m \in T : ~(<<m, n>> \in R)
  BY <1>1, WFMin
<1>4. \A m \in T : ~(m < n)
  BY <1>2, <1>3
<1> QED BY <1>4

-----------------------------------------------------------------------------
(* Meaning is well defined: what a word means depends on lesser words only. *)

Body(f, w) ==
    CASE w[1] = "value" -> ValueOf(f, w[2], w[3])
      [] w[1] = "list"  -> ListOf(f, w[2], w[3])
      [] w[1] = "dict"  -> DictOf(f, w[2], w[3])

Size(w) == 2 * Len(w[2]) + IF w[1] = "value" THEN 0 ELSE 1

Agree(f, g, w) == \A x \in Word : Size(x) < Size(w) => f[x] = g[x]

LEMMA Words ==
    ASSUME NEW s \in Seq(STRING), NEW strict \in BOOLEAN
    PROVE  /\ <<"value", s, strict>> \in Word /\ Size(<<"value", s, strict>>) = 2 * Len(s)
           /\ <<"list", s, strict>> \in Word /\ Size(<<"list", s, strict>>) = 2 * Len(s) + 1
           /\ <<"dict", s, strict>> \in Word /\ Size(<<"dict", s, strict>>) = 2 * Len(s) + 1
BY DEF Word, Size

LEMMA SizeNat == \A w \in Word : Size(w) \in Nat
<1> SUFFICES ASSUME NEW w \in Word PROVE Size(w) \in Nat
  OBVIOUS
<1>1. w[2] \in Seq(STRING)
  BY DEF Word
<1> DEFINE n == Len(w[2])
<1>2. n \in Nat
  BY <1>1
<1>3. Size(w) = 2 * n + IF w[1] = "value" THEN 0 ELSE 1
  BY DEF Size
<1> HIDE DEF n
<1>4. CASE w[1] = "value"
  BY <1>2, <1>3, <1>4
<1>5. CASE w[1] # "value"
  BY <1>2, <1>3, <1>5
<1> QED BY <1>4, <1>5

LEMMA CutFacts ==
    ASSUME NEW s \in Seq(STRING), NEW m \in 1 .. (Len(s) + 1), NEW n \in (m - 1) .. Len(s)
    PROVE  /\ Cut(s, m, n) \in Seq(STRING)
           /\ Len(Cut(s, m, n)) = n - m + 1
           /\ \A i \in 1 .. (n - m + 1) : Cut(s, m, n)[i] = s[m + i - 1]
<1>1. Len(s) \in Nat
  OBVIOUS
<1>2. \A i \in m .. n : s[i] \in STRING
  BY <1>1
<1>3. Len(SubSeq(s, m, n)) = IF m <= n THEN n - m + 1 ELSE 0
  BY <1>1, <1>2, SubSeqProperties
<1> QED BY <1>1, <1>2, <1>3, SubSeqProperties DEF Cut

LEMMA ValueDepends ==
    ASSUME NEW s \in Seq(STRING), NEW strict \in BOOLEAN, NEW f, NEW g,
           Agree(f, g, <<"value", s, strict>>)
    PROVE  ValueOf(f, s, strict) = ValueOf(g, s, strict)
<1>1. CASE Len(s) < 2
  BY <1>1 DEF ValueOf
<1>2. CASE ~(Len(s) < 2)
  <2> DEFINE inner == Cut(s, 2, Len(s) - 1)
  <2>0. Len(s) \in Nat
    OBVIOUS
  <2>1. inner \in Seq(STRING) /\ Len(inner) = Len(s) - 2
    BY <1>2, <2>0, CutFacts
  <2> DEFINE w == <<"value", s, strict>>
  <2>2. w \in Word /\ Size(w) = 2 * Len(s) /\ Agree(f, g, w)
    BY Words
  <2> DEFINE l == <<"list", inner, strict>>
             d == <<"dict", inner, strict>>
  <2>3. l \in Word /\ d \in Word /\ Size(l) = 2 * Len(inner) + 1 /\ Size(d) = 2 * Len(inner) + 1
    BY <2>1, Words
  <2> HIDE DEF inner, w, l, d
  <2>4. Size(l) < Size(w) /\ Size(d) < Size(w)
    BY <2>0, <2>1, <2>2, <2>3
  <2>5. f[l] = g[l] /\ f[d] = g[d]
    BY <2>2, <2>3, <2>4 DEF Agree
  <2> QED BY <2>5 DEF ValueOf, inner, l, d
<1> QED BY <1>1, <1>2

LEMMA ListDepends ==
    ASSUME NEW s \in Seq(STRING), NEW strict \in BOOLEAN, NEW f, NEW g,
           Agree(f, g, <<"list", s, strict>>)
    PROVE  ListOf(f, s, strict) = ListOf(g, s, strict)
<1>1. CASE s = <<>>
  BY <1>1 DEF ListOf
<1>2. CASE s # <<>>
  <2>1. ASSUME NEW i \in DOMAIN s
        PROVE  /\ f[<<"list", Cut(s, i + 1, Len(s)), strict>>] = g[<<"list", Cut(s, i + 1, Len(s)), strict>>]
               /\ f[<<"value", Cut(s, 1, i), strict>>] = g[<<"value", Cut(s, 1, i), strict>>]
    <3>1. Len(s) \in Nat /\ i \in 1 .. Len(s)
      OBVIOUS
    <3> DEFINE a == Cut(s, 1, i)
               b == Cut(s, i + 1, Len(s))
               w == <<"list", s, strict>>
    <3>2. 1 \in 1 .. (Len(s) + 1) /\ i \in (1 - 1) .. Len(s)
          /\ i + 1 \in 1 .. (Len(s) + 1) /\ Len(s) \in (i + 1 - 1) .. Len(s)
      BY <3>1
    <3>3. a \in Seq(STRING) /\ Len(a) = i
      BY <3>1, <3>2, CutFacts
    <3>4. b \in Seq(STRING) /\ Len(b) = Len(s) - i
      <4> DEFINE m == i + 1
                 n == Len(s)
      <4>1. m \in 1 .. (Len(s) + 1) /\ n \in (m - 1) .. Len(s)
        BY <3>2
      <4> HIDE DEF m, n
      <4>2. Cut(s, m, n) \in Seq(STRING) /\ Len(Cut(s, m, n)) = n - m + 1
        BY <4>1, CutFacts
      <4> QED BY <3>1, <4>2 DEF m, n
    <3>5. w \in Word /\ Size(w) = 2 * Len(s) + 1 /\ Agree(f, g, w)
      BY Words
    <3> DEFINE x == <<"list", b, strict>>
               y == <<"value", a, strict>>
    <3>6. x \in Word /\ y \in Word /\ Size(x) = 2 * Len(b) + 1 /\ Size(y) = 2 * Len(a)
      BY <3>3, <3>4, Words
    <3> HIDE DEF a, b, w, x, y
    <3>7. Size(x) < Size(w) /\ Size(y) < Size(w)
      <4>1. Size(x) = 2 * (Len(s) - i) + 1 /\ Size(y) = 2 * i /\ Size(w) = 2 * Len(s) + 1
        BY <3>3, <3>4, <3>5, <3>6
      <4> QED BY <3>1, <4>1
    <3>8. f[x] = g[x] /\ f[y] = g[y]
      BY <3>5, <3>6, <3>7 DEF Agree
    <3> QED BY <3>8 DEF a, b, x, y
  <2> DEFINE Part(M, i) ==
                UNION {{<<v>> \o l : l \in M[<<"list", Cut(s, i + 1, Len(s)), strict>>]} :
                          v \in M[<<"value", Cut(s, 1, i), strict>>]}
  <2>2. \A i \in DOMAIN s : Part(f, i) = Part(g, i)
    BY <2>1
  <2>3. /\ ListOf(f, s, strict) = UNION {Part(f, i) : i \in DOMAIN s}
        /\ ListOf(g, s, strict) = UNION {Part(g, i) : i \in DOMAIN s}
    BY <1>2 DEF ListOf
  <2> HIDE DEF Part
  <2> QED BY <2>2, <2>3
<1> QED BY <1>1, <1>2

LEMMA DictDepends ==
    ASSUME NEW s \in Seq(STRING), NEW strict \in BOOLEAN, NEW f, NEW g,
           Agree(f, g, <<"dict", s, strict>>)
    PROVE  DictOf(f, s, strict) = DictOf(g, s, strict)
<1>1. CASE s = <<>>
  BY <1>1 DEF DictOf
<1>2. CASE s # <<>>
  <2>1. ASSUME NEW i \in DOMAIN s, NEW j \in (i + 1) .. Len(s)
        PROVE  /\ f[<<"dict", Cut(s, j + 1, Len(s)), strict>>] = g[<<"dict", Cut(s, j + 1, Len(s)), strict>>]
               /\ f[<<"value", Cut(s, i + 1, j), strict>>] = g[<<"value", Cut(s, i + 1, j), strict>>]
    <3>1. Len(s) \in Nat /\ i \in 1 .. Len(s)
      OBVIOUS
    <3> DEFINE a == Cut(s, i + 1, j)
               b == Cut(s, j + 1, Len(s))
               w == <<"dict", s, strict>>
    <3>2. i + 1 \in 1 .. (Len(s) + 1) /\ j \in (i + 1 - 1) .. Len(s)
          /\ j + 1 \in 1 .. (Len(s) + 1) /\ Len(s) \in (j + 1 - 1) .. Len(s)
      BY <3>1
    <3>3. a \in Seq(STRING) /\ Len(a) = j - (i + 1) + 1
      BY <3>2, CutFacts
    <3>4. b \in Seq(STRING) /\ Len(b) = Len(s) - j
      <4> DEFINE m == j + 1
                 n == Len(s)
      <4>1. m \in 1 .. (Len(s) + 1) /\ n \in (m - 1) .. Len(s)
        BY <3>2
      <4> HIDE DEF m, n
      <4>2. Cut(s, m, n) \in Seq(STRING) /\ Len(Cut(s, m, n)) = n - m + 1
        BY <4>1, CutFacts
      <4> QED BY <3>1, <4>2 DEF m, n
    <3>5. w \in Word /\ Size(w) = 2 * Len(s) + 1 /\ Agree(f, g, w)
      BY Words
    <3> DEFINE x == <<"dict", b, strict>>
               y == <<"value", a, strict>>
    <3>6. x \in Word /\ y \in Word /\ Size(x) = 2 * Len(b) + 1 /\ Size(y) = 2 * Len(a)
      BY <3>3, <3>4, Words
    <3> HIDE DEF a, b, w, x, y
    <3>7. Size(x) < Size(w) /\ Size(y) < Size(w)
      BY <3>1, <3>3, <3>4, <3>5, <3>6
    <3>8. f[x] = g[x] /\ f[y] = g[y]
      BY <3>5, <3>6, <3>7 DEF Agree
    <3> QED BY <3>8 DEF a, b, x, y
  <2> DEFINE Part(M, i, j, k) ==
                UNION {{Under(d, k, v) :
                          d \in {d \in M[<<"dict", Cut(s, j + 1, Len(s)), strict>>] :
                                    strict => \A x \in DOMAIN d : Before(k, x)}} :
                         v \in M[<<"value", Cut(s, i + 1, j), strict>>]}
  <2>2. ASSUME NEW i \in DOMAIN s, NEW j \in (i + 1) .. Len(s), NEW k
        PROVE  Part(f, i, j, k) = Part(g, i, j, k)
    <3> DEFINE a == Cut(s, i + 1, j)
               b == Cut(s, j + 1, Len(s))
    <3>1. f[<<"dict", b, strict>>] = g[<<"dict", b, strict>>]
      BY <2>1
    <3>2. f[<<"value", a, strict>>] = g[<<"value", a, strict>>]
      BY <2>1
    <3> HIDE DEF a, b
    <3>3. Part(f, i, j, k) = UNION {{Under(d, k, v) : d \in {d \in f[<<"dict", b, strict>>] :
                                strict => \A x \in DOMAIN d : Before(k, x)}} : v \in f[<<"value", a, strict>>]}
      BY DEF a, b
    <3>4. Part(g, i, j, k) = UNION {{Under(d, k, v) : d \in {d \in g[<<"dict", b, strict>>] :
                                strict => \A x \in DOMAIN d : Before(k, x)}} : v \in g[<<"value", a, strict>>]}
      BY DEF a, b
    <3> HIDE DEF Part
    <3> QED BY <3>1, <3>2, <3>3, <3>4
  <2>3. /\ DictOf(f, s, strict) =
              UNION {UNION {Part(f, i, j, k) : k \in Texts(Cut(s, 1, i), strict), j \in (i + 1) .. Len(s)} :
                       i \in DOMAIN s}
        /\ DictOf(g, s, strict) =
              UNION {UNION {Part(g, i, j, k) : k \in Texts(Cut(s, 1, i), strict), j \in (i + 1) .. Len(s)} :
                       i \in DOMAIN s}
    BY <1>2 DEF DictOf
  <2> HIDE DEF Part
  <2> DEFINE All(M, i) == UNION {Part(M, i, j, k) : k \in Texts(Cut(s, 1, i), strict), j \in (i + 1) .. Len(s)}
  <2>4. \A i \in DOMAIN s : All(f, i) = All(g, i)
    BY <2>2
  <2>5. /\ DictOf(f, s, strict) = UNION {All(f, i) : i \in DOMAIN s}
        /\ DictOf(g, s, strict) = UNION {All(g, i) : i \in DOMAIN s}
    BY <2>3
  <2> HIDE DEF All
  <2> QED BY <2>4, <2>5
<1> QED BY <1>1, <1>2

LEMMA BodyDepends ==
    ASSUME NEW w \in Word, NEW f, NEW g, Agree(f, g, w)
    PROVE  Body(f, w) = Body(g, w)
<1>1. /\ w = <<w[1], w[2], w[3]>> /\ w[1] \in {"value", "list", "dict"}
      /\ w[2] \in Seq(STRING) /\ w[3] \in BOOLEAN
  BY DEF Word
<1>2. CASE w[1] = "value"
  BY <1>1, <1>2, ValueDepends DEF Body
<1>3. CASE w[1] = "list"
  BY <1>1, <1>3, ListDepends DEF Body
<1>4. CASE w[1] = "dict"
  BY <1>1, <1>4, DictDepends DEF Body
<1> QED BY <1>1, <1>2, <1>3, <1>4

\* A function that is right for the words up to a size.
Lesser(n) == {w \in Word : Size(w) < n}
Right(f, n) == f = [w \in Lesser(n) |-> Body(f, w)]

LEMMA RightIsOne ==
    ASSUME NEW m \in Nat, NEW n \in Nat, NEW f, NEW g, Right(f, m), Right(g, n)
    PROVE  \A w \in Lesser(m) \cap Lesser(n) : f[w] = g[w]
<1> DEFINE bad == {w \in Lesser(m) \cap Lesser(n) : f[w] # g[w]}
           T == {Size(w) : w \in bad}
<1> SUFFICES ASSUME bad # {} PROVE FALSE
  OBVIOUS
<1>1. T \in SUBSET Nat /\ T # {}
  BY SizeNat DEF Lesser
<1>2. PICK k \in T : \A l \in T : k <= l
  BY <1>1, LeastNat
<1>3. PICK w \in bad : Size(w) = k
  BY <1>2
<1>4. w \in Word /\ Size(w) \in Nat /\ Size(w) < m /\ Size(w) < n
  BY <1>3, SizeNat DEF Lesser
<1>5. Agree(f, g, w)
  <2> SUFFICES ASSUME NEW x \in Word, Size(x) < Size(w) PROVE f[x] = g[x]
    BY DEF Agree
  <2>1. Size(x) \in Nat
    BY SizeNat
  <2>2. x \in Lesser(m) \cap Lesser(n)
    BY <1>4, <2>1 DEF Lesser
  <2>3. x \notin bad
    BY <1>1, <1>2, <1>3, <2>1
  <2> QED BY <2>2, <2>3
<1>6. Body(f, w) = Body(g, w)
  BY <1>4, <1>5, BodyDepends
<1>7. f[w] = Body(f, w) /\ g[w] = Body(g, w)
  BY <1>3 DEF Right
<1> QED BY <1>3, <1>6, <1>7

LEMMA RightExists == \A n \in Nat : \E f : Right(f, n)
<1> DEFINE T == {n \in Nat : ~ \E f : Right(f, n)}
<1> SUFFICES ASSUME T # {} PROVE FALSE
  OBVIOUS
<1>1. PICK n \in T : \A m \in T : n <= m
  BY LeastNat
<1>2. CASE n = 0
  <2> DEFINE f == [w \in Lesser(0) |-> {}]
  <2>1. Lesser(0) = {}
    BY SizeNat DEF Lesser
  <2>2. Right(f, 0)
    BY <2>1 DEF Right
  <2> QED BY <1>2, <2>2
<1>3. CASE n # 0
  <2>1. n \in Nat /\ n - 1 \in Nat /\ n - 1 \notin T
    BY <1>1, <1>3
  <2>2. PICK f : Right(f, n - 1)
    BY <2>1
  <2> DEFINE g == [w \in Lesser(n) |-> Body(f, w)]
  <2>3. \A w \in Lesser(n) : g[w] = Body(f, w)
    OBVIOUS
  <2>4. \A w \in Lesser(n - 1) : f[w] = Body(f, w)
    BY <2>2 DEF Right
  <2>5. \A w \in Lesser(n) : Agree(f, g, w)
    <3> SUFFICES ASSUME NEW w \in Lesser(n), NEW x \in Word, Size(x) < Size(w) PROVE f[x] = g[x]
      BY DEF Agree
    <3>1. Size(w) < n /\ Size(w) \in Nat /\ Size(x) \in Nat
      BY SizeNat DEF Lesser
    <3>2. Size(x) < n - 1 /\ Size(x) < n
      BY <2>1, <3>1
    <3>3. x \in Lesser(n - 1) /\ x \in Lesser(n)
      BY <3>2 DEF Lesser
    <3> QED BY <2>3, <2>4, <3>3
  <2>6. \A w \in Lesser(n) : Body(f, w) = Body(g, w)
    BY <2>5, BodyDepends DEF Lesser
  <2>7. g = [w \in Lesser(n) |-> Body(g, w)]
    BY <2>6
  <2> HIDE DEF g
  <2>8. Right(g, n)
    BY <2>7 DEF Right
  <2> QED BY <1>1, <2>8
<1> QED BY <1>2, <1>3

LEMMA MeaningUnfolds == \A w \in Word : Meaning[w] = Body(Meaning, w)
<1> DEFINE At(n) == CHOOSE f : Right(f, n)
           F == [w \in Word |-> At(Size(w) + 1)[w]]
<1>1. \A n \in Nat : Right(At(n), n)
  BY RightExists
<1> HIDE DEF At
<1>2. ASSUME NEW w \in Word PROVE F[w] = Body(F, w)
  <2> DEFINE n == Size(w) + 1
             f == At(n)
  <2>1. n \in Nat /\ Size(w) \in Nat
    BY SizeNat
  <2>2. Right(f, n)
    BY <1>1, <2>1
  <2>3. w \in Lesser(n)
    BY <2>1 DEF Lesser
  <2>4. Agree(f, F, w)
    <3> SUFFICES ASSUME NEW x \in Word, Size(x) < Size(w) PROVE f[x] = F[x]
      BY DEF Agree
    <3>1. Size(x) \in Nat /\ Size(x) + 1 \in Nat
      BY SizeNat
    <3>2. x \in Lesser(n) /\ x \in Lesser(Size(x) + 1)
      BY <2>1, <3>1 DEF Lesser
    <3>3. Right(At(Size(x) + 1), Size(x) + 1)
      BY <1>1, <3>1
    <3>4. f[x] = At(Size(x) + 1)[x]
      BY <2>1, <2>2, <3>1, <3>2, <3>3, RightIsOne
    <3> QED BY <3>4
  <2>5. f[w] = Body(f, w)
    BY <2>2, <2>3 DEF Right
  <2>6. Body(f, w) = Body(F, w)
    BY <2>4, BodyDepends
  <2> QED BY <2>5, <2>6
<1>3. F = [w \in Word |-> Body(F, w)]
  BY <1>2
<1> HIDE DEF F
<1>4. \E f : f = [w \in Word |-> Body(f, w)]
  BY <1>3
<1>5. Meaning = [w \in Word |-> Body(Meaning, w)]
  BY <1>4 DEF Meaning, Body
<1> QED BY <1>5

-----------------------------------------------------------------------------
(* What the bytes from a position on can be read as. *)

LEMMA ValuesUnfold ==
    ASSUME NEW s \in Seq(STRING)
    PROVE  /\ Values(s, FALSE) = ValueOf(Meaning, s, FALSE)
           /\ Meaning[<<"list", s, FALSE>>] = ListOf(Meaning, s, FALSE)
           /\ Meaning[<<"dict", s, FALSE>>] = DictOf(Meaning, s, FALSE)
<1>1. FALSE \in BOOLEAN
  OBVIOUS
<1>2. /\ <<"value", s, FALSE>> \in Word /\ <<"list", s, FALSE>> \in Word
      /\ <<"dict", s, FALSE>> \in Word
  BY <1>1 DEF Word
<1> QED BY <1>2, MeaningUnfolds DEF Values, Body

LEMMA SliceFacts ==
    ASSUME data \in Seq(STRING), NEW p \in 0 .. Len(data), NEW n \in p .. Len(data)
    PROVE  /\ Slice(p, n) \in Seq(STRING)
           /\ Len(Slice(p, n)) = n - p
           /\ \A i \in 1 .. (n - p) : Slice(p, n)[i] = data[p + i]
<1> DEFINE m == p + 1
<1>1. Len(data) \in Nat /\ m \in 1 .. (Len(data) + 1) /\ n \in (m - 1) .. Len(data)
  OBVIOUS
<1>2. /\ Cut(data, m, n) \in Seq(STRING)
      /\ Len(Cut(data, m, n)) = n - m + 1
      /\ \A i \in 1 .. (n - m + 1) : Cut(data, m, n)[i] = data[m + i - 1]
  BY <1>1, CutFacts
<1>3. n - m + 1 = n - p /\ \A i \in Int : m + i - 1 = p + i
  BY <1>1
<1> QED BY <1>2, <1>3 DEF Slice, Cut

LEMMA CutOfSlice ==
    ASSUME data \in Seq(STRING), NEW p \in 0 .. Len(data), NEW n \in p .. Len(data),
           NEW a \in 1 .. (n - p + 1), NEW b \in (a - 1) .. (n - p)
    PROVE  Cut(Slice(p, n), a, b) = Slice(p + a - 1, p + b)
<1> DEFINE s == Slice(p, n)
           t == Cut(s, a, b)
           q == p + a - 1
           r == p + b
           u == Slice(q, r)
<1>1. Len(data) \in Nat /\ q \in 0 .. Len(data) /\ r \in q .. Len(data) /\ r - q = b - a + 1
  OBVIOUS
<1>2. s \in Seq(STRING) /\ Len(s) = n - p /\ \A i \in 1 .. (n - p) : s[i] = data[p + i]
  BY SliceFacts
<1>3. /\ u \in Seq(STRING) /\ Len(u) = b - a + 1
      /\ \A i \in 1 .. (b - a + 1) : u[i] = data[q + i]
  <2> HIDE DEF q, r
  <2> QED BY <1>1, SliceFacts
<1> HIDE DEF s, u
<1>4. /\ t \in Seq(STRING) /\ Len(t) = b - a + 1
      /\ \A i \in 1 .. (b - a + 1) : t[i] = s[a + i - 1]
  <2>1. a \in 1 .. (Len(s) + 1) /\ b \in (a - 1) .. Len(s)
    BY <1>1, <1>2
  <2> QED BY <1>2, <2>1, CutFacts
<1> HIDE DEF t
<1>5. \A i \in 1 .. (b - a + 1) : t[i] = u[i]
  <2> SUFFICES ASSUME NEW i \in 1 .. (b - a + 1) PROVE t[i] = u[i]
    OBVIOUS
  <2>1. a + i - 1 \in 1 .. (n - p) /\ p + (a + i - 1) = q + i
    OBVIOUS
  <2> QED BY <1>2, <1>3, <1>4, <2>1
<1>6. t = u
  <2>1. Len(t) = Len(u) /\ \A i \in 1 .. Len(t) : t[i] = u[i]
    BY <1>3, <1>4, <1>5
  <2> QED BY <1>3, <1>4, <2>1, SeqEqual
<1> QED BY <1>6 DEF t, s, u

\* What ValueOf makes of the bytes between two positions.
AsString(p, n, v) == \E t \in Texts(Slice(p, n), FALSE) : v = [str |-> t]
AsInteger(p, n, v) ==
    /\ data[n] = "e" /\ \A j \in (p + 1) .. (n - 2) : data[j + 1] # "e"
    /\ \E m \in ParseI64(Slice(p + 1, n - 1)) : v = [int |-> m]
AsList(p, n, v) ==
    data[n] = "e" /\ \E l \in Meaning[<<"list", Slice(p + 1, n - 1), FALSE>>] : v = [list |-> l]
AsDict(p, n, v) ==
    data[n] = "e" /\ \E d \in Meaning[<<"dict", Slice(p + 1, n - 1), FALSE>>] : v = [dict |-> d]

LEMMA ValuesAt ==
    ASSUME data \in Seq(STRING), NEW p \in 0 .. Len(data), NEW n \in p .. Len(data), NEW v
    PROVE  v \in Values(Slice(p, n), FALSE) <=>
             /\ n >= p + 2
             /\ \/ data[p + 1] \in Digit /\ AsString(p, n, v)
                \/ data[p + 1] = "i" /\ AsInteger(p, n, v)
                \/ data[p + 1] = "l" /\ AsList(p, n, v)
                \/ data[p + 1] = "d" /\ AsDict(p, n, v)
<1> DEFINE s == Slice(p, n)
           inner == Cut(s, 2, Len(s) - 1)
<1>1. Len(data) \in Nat /\ p \in Nat /\ n \in Nat
  OBVIOUS
<1>2. s \in Seq(STRING) /\ Len(s) = n - p /\ \A i \in 1 .. (n - p) : s[i] = data[p + i]
  BY SliceFacts
<1>3. Values(s, FALSE) = ValueOf(Meaning, s, FALSE)
  BY <1>2, ValuesUnfold
<1>4. CASE n < p + 2
  <2>1. Len(s) < 2
    BY <1>1, <1>2, <1>4
  <2>2. ValueOf(Meaning, s, FALSE) = {}
    BY <2>1 DEF ValueOf
  <2>3. v \notin Values(s, FALSE)
    BY <1>3, <2>2
  <2>4. ~(n >= p + 2)
    BY <1>1, <1>4
  <2> QED BY <2>3, <2>4
<1>5. CASE n >= p + 2
  <2>0. 1 \in 1 .. (n - p) /\ n - p \in 1 .. (n - p) /\ p + (n - p) = n /\ ~(n - p < 2)
    BY <1>1, <1>5
  <2>1. ~(Len(s) < 2) /\ s[1] = data[p + 1] /\ s[Len(s)] = data[n]
    <3> HIDE DEF s
    <3> QED BY <1>2, <2>0
  <2>2. inner = Slice(p + 1, n - 1)
    <3> HIDE DEF s
    <3> DEFINE b == n - p - 1
    <3>1. 2 \in 1 .. (n - p + 1) /\ b \in (2 - 1) .. (n - p)
      BY <1>1, <1>5
    <3>2. p + 2 - 1 = p + 1 /\ p + b = n - 1
      BY <1>1
    <3> HIDE DEF b
    <3>3. Cut(s, 2, b) = Slice(p + 2 - 1, p + b)
      BY <3>1, CutOfSlice DEF s
    <3> QED BY <1>2, <3>2, <3>3 DEF b
  <2>3. /\ inner \in Seq(STRING) /\ Len(inner) = n - p - 2
        /\ \A i \in 1 .. (n - p - 2) : inner[i] = data[p + 1 + i]
    <3>1. p + 1 \in 0 .. Len(data) /\ n - 1 \in (p + 1) .. Len(data) /\ n - 1 - (p + 1) = n - p - 2
      BY <1>1, <1>5
    <3> DEFINE pp == p + 1
               nn == n - 1
    <3>2. pp \in 0 .. Len(data) /\ nn \in pp .. Len(data)
      BY <3>1
    <3> HIDE DEF pp, nn, inner
    <3>3. /\ Slice(pp, nn) \in Seq(STRING) /\ Len(Slice(pp, nn)) = nn - pp
          /\ \A i \in 1 .. (nn - pp) : Slice(pp, nn)[i] = data[pp + i]
      BY <3>2, SliceFacts
    <3> QED BY <2>2, <3>1, <3>3 DEF pp, nn
  <2>4. (\A j \in DOMAIN inner : inner[j] # "e")
            <=> \A j \in (p + 1) .. (n - 2) : data[j + 1] # "e"
    <3> HIDE DEF inner
    <3>1. DOMAIN inner = 1 .. (n - p - 2)
      BY <2>3
    <3>2. ASSUME \A j \in 1 .. (n - p - 2) : inner[j] # "e", NEW j \in (p + 1) .. (n - 2)
          PROVE  data[j + 1] # "e"
      <4>1. j - p \in 1 .. (n - p - 2) /\ p + 1 + (j - p) = j + 1
        BY <1>1
      <4> QED BY <2>3, <3>2, <4>1
    <3>3. ASSUME \A j \in (p + 1) .. (n - 2) : data[j + 1] # "e", NEW j \in 1 .. (n - p - 2)
          PROVE  inner[j] # "e"
      <4>1. p + j \in (p + 1) .. (n - 2) /\ p + 1 + j = (p + j) + 1
        BY <1>1
      <4> QED BY <2>3, <3>3, <4>1
    <3> QED BY <3>1, <3>2, <3>3
  <2>5. "i" \notin Digit /\ "l" \notin Digit /\ "d" \notin Digit /\ "e" \notin Digit
    BY DEF Digit, Digits
  <2> DEFINE a == s[1]
             z == s[Len(s)] = "e"
             none == \A j \in DOMAIN inner : inner[j] # "e"
  <2>6. ValueOf(Meaning, s, FALSE) =
            CASE a \in Digit -> {[str |-> t] : t \in Texts(s, FALSE)}
              [] a = "i" /\ z /\ none -> {[int |-> m] : m \in ParseI64(inner)}
              [] a = "l" /\ z -> {[list |-> l] : l \in Meaning[<<"list", inner, FALSE>>]}
              [] a = "d" /\ z -> {[dict |-> d] : d \in Meaning[<<"dict", inner, FALSE>>]}
              [] OTHER -> {}
    <3>1. {m \in ParseI64(inner) : FALSE => Canonical(inner)} = ParseI64(inner)
      OBVIOUS
    <3> QED BY <2>1, <3>1 DEF ValueOf
  <2>7. a = data[p + 1] /\ (z <=> data[n] = "e")
        /\ (none <=> \A j \in (p + 1) .. (n - 2) : data[j + 1] # "e")
    BY <2>1, <2>4
  <2> HIDE DEF a, z, none, s, inner
  <2>8. v \in ValueOf(Meaning, s, FALSE) <=>
            \/ a \in Digit /\ \E t \in Texts(s, FALSE) : v = [str |-> t]
            \/ a = "i" /\ z /\ none /\ \E m \in ParseI64(inner) : v = [int |-> m]
            \/ a = "l" /\ z /\ \E l \in Meaning[<<"list", inner, FALSE>>] : v = [list |-> l]
            \/ a = "d" /\ z /\ \E d \in Meaning[<<"dict", inner, FALSE>>] : v = [dict |-> d]
    <3>1. CASE a \in Digit
      BY <2>5, <2>6, <3>1
    <3>2. CASE a = "i"
      BY <2>5, <2>6, <3>2
    <3>3. CASE a = "l"
      BY <2>5, <2>6, <3>3
    <3>4. CASE a = "d"
      BY <2>5, <2>6, <3>4
    <3>5. CASE a \notin Digit \cup {"i", "l", "d"}
      BY <2>6, <3>5
    <3> QED BY <3>1, <3>2, <3>3, <3>4, <3>5
  <2>9. v \in Values(s, FALSE) <=> v \in ValueOf(Meaning, s, FALSE)
    BY <1>3
  <2>10. (\E t \in Texts(s, FALSE) : v = [str |-> t])
            <=> \E t \in Texts(Slice(p, n), FALSE) : v = [str |-> t]
    BY DEF s
  <2>11. v \in Values(s, FALSE) <=> v \in Values(Slice(p, n), FALSE)
    BY DEF s
  <2>12. v \in Values(Slice(p, n), FALSE) <=>
            \/ a \in Digit /\ \E t \in Texts(Slice(p, n), FALSE) : v = [str |-> t]
            \/ a = "i" /\ z /\ none /\ \E m \in ParseI64(inner) : v = [int |-> m]
            \/ a = "l" /\ z /\ \E l \in Meaning[<<"list", inner, FALSE>>] : v = [list |-> l]
            \/ a = "d" /\ z /\ \E d \in Meaning[<<"dict", inner, FALSE>>] : v = [dict |-> d]
    BY <2>8, <2>9, <2>10, <2>11, Zenon
  <2>13. v \in Values(Slice(p, n), FALSE) <=>
            \/ data[p + 1] \in Digit /\ \E t \in Texts(Slice(p, n), FALSE) : v = [str |-> t]
            \/ /\ data[p + 1] = "i" /\ data[n] = "e"
               /\ \A j \in (p + 1) .. (n - 2) : data[j + 1] # "e"
               /\ \E m \in ParseI64(Slice(p + 1, n - 1)) : v = [int |-> m]
            \/ /\ data[p + 1] = "l" /\ data[n] = "e"
               /\ \E l \in Meaning[<<"list", Slice(p + 1, n - 1), FALSE>>] : v = [list |-> l]
            \/ /\ data[p + 1] = "d" /\ data[n] = "e"
               /\ \E d \in Meaning[<<"dict", Slice(p + 1, n - 1), FALSE>>] : v = [dict |-> d]
    <3> HIDE DEF a, z, none
    <3> QED BY <2>2, <2>7, <2>12, Zenon
  <2> QED BY <1>5, <2>13, Zenon DEF AsString, AsInteger, AsList, AsDict
<1>6. n < p + 2 \/ n >= p + 2
  BY <1>1
<1> QED BY <1>4, <1>5, <1>6, Zenon

\* The first delimiter, then as many bytes as the number before it says.
LEMMA TextsAt ==
    ASSUME data \in Seq(STRING), NEW p \in 0 .. Len(data), NEW n \in p .. Len(data), NEW t
    PROVE  t \in Texts(Slice(p, n), FALSE) <=>
             \E i \in Until(p, ":") :
                 i < n /\ n - (i + 1) \in ParseUsize(Slice(p, i)) /\ t = Slice(i + 1, n)
<1> DEFINE s == Slice(p, n)
           Colon(i) == /\ s[i] = ":" /\ \A j \in 1 .. (i - 1) : s[j] # ":"
                       /\ (Len(s) - i) \in ParseUsize(Cut(s, 1, i - 1))
<1>1. Len(data) \in Nat /\ p \in Nat /\ n \in Nat /\ p <= n /\ n <= Len(data)
  OBVIOUS
<1>2. s \in Seq(STRING) /\ Len(s) = n - p /\ \A i \in 1 .. (n - p) : s[i] = data[p + i]
  BY SliceFacts
<1>3. t \in Texts(s, FALSE) <=>
          \E i \in 2 .. (n - p) : Colon(i) /\ t = Cut(s, i + 1, n - p)
  <2>1. Texts(s, FALSE) = {Cut(s, i + 1, Len(s)) : i \in {i \in 2 .. Len(s) :
                            /\ s[i] = ":" /\ \A j \in 1 .. (i - 1) : s[j] # ":"
                            /\ (Len(s) - i) \in ParseUsize(Cut(s, 1, i - 1))
                            /\ FALSE => Canonical(Cut(s, 1, i - 1))}}
    BY DEF Texts
  <2>2. t \in Texts(s, FALSE) <=>
          \E i \in 2 .. Len(s) : Colon(i) /\ t = Cut(s, i + 1, Len(s))
    BY <2>1
  <2> HIDE DEF Colon, s
  <2> QED BY <1>2, <2>2
<1>4. ASSUME NEW i \in 2 .. (n - p)
      PROVE  /\ Cut(s, 1, i - 1) = Slice(p, p + i - 1)
             /\ Cut(s, i + 1, n - p) = Slice(p + i, n)
             /\ (s[i] = ":" /\ \A j \in 1 .. (i - 1) : s[j] # ":") <=> p + i - 1 \in Until(p, ":")
  <2> DEFINE b == i - 1
             a == i + 1
             c == n - p
  <2>1. 1 \in 1 .. (n - p + 1) /\ b \in (1 - 1) .. (n - p) /\ p + 1 - 1 = p /\ p + b = p + i - 1
    BY <1>1
  <2>2. a \in 1 .. (n - p + 1) /\ c \in (a - 1) .. (n - p) /\ p + a - 1 = p + i /\ p + c = n
    BY <1>1
  <2> HIDE DEF a, b, c
  <2>3. Cut(s, 1, b) = Slice(p + 1 - 1, p + b)
    BY <2>1, CutOfSlice
  <2>4. Cut(s, a, c) = Slice(p + a - 1, p + c)
    BY <2>2, CutOfSlice
  <2>5. /\ Cut(s, 1, i - 1) = Slice(p, p + i - 1)
        /\ Cut(s, i + 1, n - p) = Slice(p + i, n)
    <3> HIDE DEF s
    <3> QED BY <2>1, <2>2, <2>3, <2>4 DEF a, b, c
  <2>6. (s[i] = ":" /\ \A j \in 1 .. (i - 1) : s[j] # ":") <=> p + i - 1 \in Until(p, ":")
    <3> DEFINE k == p + i - 1
    <3>1. k \in p .. (Len(data) - 1) /\ k + 1 = p + i /\ i \in 1 .. (n - p)
      BY <1>1
    <3>2. s[i] = data[k + 1]
      BY <1>2, <3>1
    <3>3. ASSUME NEW j \in 1 .. (i - 1)
          PROVE  s[j] = data[(p + j - 1) + 1] /\ p + j - 1 \in p .. (k - 1)
      <4>1. j \in 1 .. (n - p) /\ p + j = (p + j - 1) + 1
        BY <1>1
      <4> QED BY <1>1, <1>2, <4>1
    <3>4. ASSUME NEW j \in p .. (k - 1)
          PROVE  j - p + 1 \in 1 .. (i - 1) /\ s[j - p + 1] = data[j + 1]
      <4>1. j - p + 1 \in 1 .. (i - 1) /\ j - p + 1 \in 1 .. (n - p) /\ p + (j - p + 1) = j + 1
        BY <1>1
      <4> QED BY <1>2, <4>1
    <3>5. (\A j \in 1 .. (i - 1) : s[j] # ":") <=> (\A j \in p .. (k - 1) : data[j + 1] # ":")
      <4> HIDE DEF s, k
      <4> QED BY <3>3, <3>4
    <3>6. k \in Until(p, ":") <=> data[k + 1] = ":" /\ \A j \in p .. (k - 1) : data[j + 1] # ":"
      <4> HIDE DEF k
      <4> QED BY <3>1 DEF Until
    <3> HIDE DEF s
    <3> QED BY <3>2, <3>5, <3>6
  <2> QED BY <2>5, <2>6
<1>5. ASSUME NEW i \in 2 .. (n - p), Colon(i), t = Cut(s, i + 1, n - p)
      PROVE  \E k \in Until(p, ":") :
                 k < n /\ n - (k + 1) \in ParseUsize(Slice(p, k)) /\ t = Slice(k + 1, n)
  <2> DEFINE k == p + i - 1
  <2>1. k < n /\ k + 1 = p + i /\ n - (k + 1) = n - p - i
    BY <1>1
  <2>2. k \in Until(p, ":") /\ Cut(s, 1, i - 1) = Slice(p, k) /\ t = Slice(p + i, n)
    BY <1>4, <1>5
  <2>3. n - p - i \in ParseUsize(Slice(p, k))
    <3>1. Len(s) - i \in ParseUsize(Cut(s, 1, i - 1))
      BY <1>5
    <3> HIDE DEF s, k
    <3> QED BY <1>2, <2>2, <3>1
  <2> HIDE DEF k
  <2> QED BY <2>1, <2>2, <2>3
<1>6. ASSUME NEW k \in Until(p, ":"), k < n, n - (k + 1) \in ParseUsize(Slice(p, k)),
             t = Slice(k + 1, n)
      PROVE  \E i \in 2 .. (n - p) : Colon(i) /\ t = Cut(s, i + 1, n - p)
  <2> DEFINE i == k - p + 1
  <2>1. k \in p .. (Len(data) - 1)
    BY DEF Until
  <2>2. k # p
    <3> SUFFICES ASSUME k = p PROVE FALSE
      OBVIOUS
    <3>1. Slice(p, p) = <<>>
      <4>1. p + 1 \in Int /\ p \in Int /\ p < p + 1
        BY <1>1
      <4> QED BY <4>1, SubSeqEmpty DEF Slice
    <3>2. ParseUsize(<<>>) = {}
      BY DEF ParseUsize, Unsigned, IsNumeral
    <3> QED BY <1>6, <3>1, <3>2
  <2>3. i \in 2 .. (n - p) /\ p + i - 1 = k /\ p + i = k + 1 /\ n - p - i = n - (k + 1)
    BY <1>1, <1>6, <2>1, <2>2
  <2> HIDE DEF i
  <2>4. /\ Cut(s, 1, i - 1) = Slice(p, k) /\ Cut(s, i + 1, n - p) = Slice(k + 1, n)
        /\ (s[i] = ":" /\ \A j \in 1 .. (i - 1) : s[j] # ":")
    BY <1>4, <1>6, <2>3
  <2>5. Len(s) - i \in ParseUsize(Cut(s, 1, i - 1))
    <3> HIDE DEF s
    <3> QED BY <1>2, <1>6, <2>3, <2>4
  <2> QED BY <1>6, <2>3, <2>4, <2>5
<1> HIDE DEF Colon
<1> QED BY <1>3, <1>5, <1>6

-----------------------------------------------------------------------------
(* Where a value, the rest of a loop or a key can end. *)

\* From position p on, the bytes up to n are a value, or the rest of a list or
\* of a dictionary with the byte that ends it, or a key.
ReadsValue(p, n, v) == n \in p .. Len(data) /\ v \in Values(Slice(p, n), FALSE)
ReadsList(p, n, l) ==
    n \in (p + 1) .. Len(data) /\ data[n] = "e" /\ l \in Meaning[<<"list", Slice(p, n - 1), FALSE>>]
ReadsDict(p, n, d) ==
    n \in (p + 1) .. Len(data) /\ data[n] = "e" /\ d \in Meaning[<<"dict", Slice(p, n - 1), FALSE>>]
ReadsKey(p, n, k) == n \in p .. Len(data) /\ k \in Texts(Slice(p, n), FALSE)

LEMMA EmptySlice == \A p \in Int : Slice(p, p) = <<>>
<1> SUFFICES ASSUME NEW p \in Int PROVE Slice(p, p) = <<>>
  OBVIOUS
<1>1. p + 1 \in Int /\ p < p + 1
  OBVIOUS
<1> QED BY <1>1, SubSeqEmpty DEF Slice

\* No value and no key begins where there are no bytes, or with "e".
LEMMA NothingAt ==
    ASSUME data \in Seq(STRING), NEW p \in 0 .. Len(data), NEW n, NEW v, ReadsValue(p, n, v)
    PROVE  /\ n \in (p + 2) .. Len(data) /\ p < Len(data)
           /\ data[p + 1] \in Digit \cup {"i", "l", "d"}
<1>0. Len(data) \in Nat
  OBVIOUS
<1>1. n \in p .. Len(data) /\ v \in Values(Slice(p, n), FALSE)
  BY DEF ReadsValue
<1>2. n >= p + 2 /\ data[p + 1] \in Digit \cup {"i", "l", "d"}
  BY <1>1, ValuesAt
<1> QED BY <1>0, <1>1, <1>2

LEMMA ByteIs == "e" \notin Digit /\ "i" \notin Digit /\ "l" \notin Digit /\ "d" \notin Digit
                /\ ":" \notin Digit /\ "+" \notin Digit
<1>1. DOMAIN Digits = 1 .. 10
  BY DEF Digits
<1>2. \A i \in 1 .. 10 : Digits[i] \in {"0", "1", "2", "3", "4", "5", "6", "7", "8", "9"}
  BY DEF Digits
<1> QED BY <1>1, <1>2 DEF Digit

LEMMA NoKeyAt ==
    ASSUME data \in Seq(STRING), NEW p \in 0 .. Len(data), NEW n, NEW k, ReadsKey(p, n, k)
    PROVE  n \in (p + 2) .. Len(data) /\ p < Len(data) /\ data[p + 1] # "e"
<1>0. Len(data) \in Nat
  OBVIOUS
<1>1. n \in p .. Len(data) /\ k \in Texts(Slice(p, n), FALSE)
  BY DEF ReadsKey
<1>2. PICK i \in Until(p, ":") :
          i < n /\ n - (i + 1) \in ParseUsize(Slice(p, i))
  BY <1>1, TextsAt
<1>3. i \in p .. (Len(data) - 1)
  BY DEF Until
<1>4. ParseUsize(<<>>) = {}
  BY DEF ParseUsize, Unsigned, IsNumeral
<1>5. i # p
  BY <1>1, <1>2, <1>4, EmptySlice
<1>6. i \in 0 .. Len(data) /\ i \in p .. Len(data) /\ i - p >= 1
  BY <1>0, <1>1, <1>3, <1>5
<1> DEFINE s == Slice(p, i)
<1>7. s \in Seq(STRING) /\ Len(s) = i - p /\ \A j \in 1 .. (i - p) : s[j] = data[p + j]
  BY <1>6, SliceFacts
<1> HIDE DEF s
<1>8. s # <<>> /\ s[1] = data[p + 1] /\ 1 \in DOMAIN s
  BY <1>6, <1>7
<1>9. ParseUsize(s) # {}
  BY <1>2 DEF s
<1>10. s[1] # "e"
  <2> SUFFICES ASSUME s[1] = "e" PROVE FALSE
    OBVIOUS
  <2>1. Unsigned(s, {"+"}) = s
    BY DEF Unsigned
  <2>2. s[1] \in Digit
    BY <1>8, <1>9, <2>1 DEF ParseUsize, IsNumeral
  <2> QED BY <2>2, ByteIs
<1> QED BY <1>0, <1>1, <1>2, <1>6, <1>8, <1>10

Cons(v, l) == <<v>> \o l

LEMMA ListUnfolds ==
    ASSUME data \in Seq(STRING), NEW p \in 0 .. Len(data), NEW n, NEW l
    PROVE  ReadsList(p, n, l) <=>
             \/ p < Len(data) /\ data[p + 1] = "e" /\ n = p + 1 /\ l = <<>>
             \/ \E r, v, m : ReadsValue(p, r, v) /\ ReadsList(r, n, m) /\ l = Cons(v, m)
<1> DEFINE s == Slice(p, n - 1)
<1>0. Len(data) \in Nat
  OBVIOUS
<1>1. ASSUME n \in (p + 1) .. Len(data)
      PROVE  /\ s \in Seq(STRING) /\ Len(s) = n - 1 - p
             /\ Meaning[<<"list", s, FALSE>>] = ListOf(Meaning, s, FALSE)
  <2> DEFINE b == n - 1
  <2>1. b \in p .. Len(data)
    BY <1>0, <1>1
  <2> HIDE DEF b
  <2>2. Slice(p, b) \in Seq(STRING) /\ Len(Slice(p, b)) = b - p
    BY <2>1, SliceFacts
  <2>3. s \in Seq(STRING) /\ Len(s) = n - 1 - p
    BY <2>2 DEF b
  <2> QED BY <2>3, ValuesUnfold
<1>2. ASSUME n \in (p + 1) .. Len(data), NEW i \in 1 .. (n - 1 - p)
      PROVE  Cut(s, 1, i) = Slice(p, p + i) /\ Cut(s, i + 1, Len(s)) = Slice(p + i, n - 1)
  <2> DEFINE b == n - 1
             a == i + 1
             c == n - 1 - p
  <2>1. /\ b \in p .. Len(data) /\ 1 \in 1 .. (b - p + 1) /\ i \in (1 - 1) .. (b - p)
        /\ a \in 1 .. (b - p + 1) /\ c \in (a - 1) .. (b - p)
        /\ p + 1 - 1 = p /\ p + a - 1 = p + i /\ p + c = n - 1
    BY <1>0, <1>2
  <2>2. Len(s) = c
    BY <1>1, <1>2
  <2> HIDE DEF b, a, c
  <2>3. Cut(Slice(p, b), 1, i) = Slice(p + 1 - 1, p + i)
    BY <2>1, CutOfSlice
  <2>4. Cut(Slice(p, b), a, c) = Slice(p + a - 1, p + c)
    BY <2>1, CutOfSlice
  <2>5. Cut(s, 1, i) = Slice(p, p + i)
    BY <2>1, <2>3 DEF b
  <2>6. Cut(s, a, c) = Slice(p + i, n - 1)
    BY <2>1, <2>4 DEF b
  <2>7. Cut(s, i + 1, Len(s)) = Slice(p + i, n - 1)
    BY <2>2, <2>6 DEF a
  <2> QED BY <2>5, <2>7
<1>3. CASE n \in (p + 1) .. Len(data)
  <2> HIDE DEF s
  <2>1. CASE n = p + 1
    <3>1. s = <<>>
      BY <2>1, EmptySlice DEF s
    <3>2. ReadsList(p, n, l) <=> data[n] = "e" /\ l = <<>>
      <4>1. ReadsList(p, n, l) <=> data[n] = "e" /\ l \in ListOf(Meaning, s, FALSE)
        BY <1>1, <1>3 DEF ReadsList, s
      <4>2. ListOf(Meaning, s, FALSE) = {<<>>}
        BY <3>1 DEF ListOf
      <4> QED BY <4>1, <4>2
    <3>3. ~ \E r, v, m : ReadsValue(p, r, v) /\ ReadsList(r, n, m) /\ l = Cons(v, m)
      <4> SUFFICES ASSUME NEW r, NEW v, NEW m, ReadsValue(p, r, v), ReadsList(r, n, m) PROVE FALSE
        OBVIOUS
      <4>1. r \in (p + 2) .. Len(data)
        BY NothingAt
      <4>2. n \in (r + 1) .. Len(data)
        BY DEF ReadsList
      <4> QED BY <1>0, <2>1, <4>1, <4>2
    <3>4. p < Len(data)
      BY <1>0, <1>3, <2>1
    <3> QED BY <2>1, <3>2, <3>3, <3>4
  <2>2. CASE n # p + 1
    <3>1. s # <<>>
      <4>1. Len(s) # 0
        BY <1>0, <1>1, <1>3, <2>2
      <4> QED BY <4>1
    <3>2. l \in ListOf(Meaning, s, FALSE) <=>
            \E i \in DOMAIN s :
              \E v \in Meaning[<<"value", Cut(s, 1, i), FALSE>>] :
                \E m \in Meaning[<<"list", Cut(s, i + 1, Len(s)), FALSE>>] : l = Cons(v, m)
      <4> DEFINE V(i) == Meaning[<<"value", Cut(s, 1, i), FALSE>>]
                 L(i) == Meaning[<<"list", Cut(s, i + 1, Len(s)), FALSE>>]
      <4>1. ListOf(Meaning, s, FALSE) =
              UNION {UNION {{Cons(v, m) : m \in L(i)} : v \in V(i)} : i \in DOMAIN s}
        BY <3>1 DEF ListOf, Cons
      <4> HIDE DEF V, L
      <4> DEFINE Q(i, v) == {Cons(v, m) : m \in L(i)}
                 P(i) == UNION {Q(i, v) : v \in V(i)}
      <4>2. \A i : \A v : l \in Q(i, v) <=> \E m \in L(i) : l = Cons(v, m)
        OBVIOUS
      <4> HIDE DEF Q
      <4>3. \A i : l \in P(i) <=> \E v \in V(i) : l \in Q(i, v)
        OBVIOUS
      <4>4. ListOf(Meaning, s, FALSE) = UNION {P(i) : i \in DOMAIN s}
        BY <4>1 DEF Q
      <4> HIDE DEF P
      <4>5. l \in ListOf(Meaning, s, FALSE) <=> \E i \in DOMAIN s : l \in P(i)
        BY <4>4
      <4>6. l \in ListOf(Meaning, s, FALSE) <=>
              \E i \in DOMAIN s : \E v \in V(i) : \E m \in L(i) : l = Cons(v, m)
        BY <4>2, <4>3, <4>5
      <4> QED BY <4>6 DEF V, L
    <3>3. DOMAIN s = 1 .. (n - 1 - p)
      BY <1>1, <1>3
    <3>4. l \in ListOf(Meaning, s, FALSE) <=>
            \E i \in 1 .. (n - 1 - p) :
              \E v \in Meaning[<<"value", Slice(p, p + i), FALSE>>] :
                \E m \in Meaning[<<"list", Slice(p + i, n - 1), FALSE>>] : l = Cons(v, m)
      BY <1>2, <1>3, <3>2, <3>3
    <3>5. ASSUME NEW i \in 1 .. (n - 1 - p),
                 NEW v \in Meaning[<<"value", Slice(p, p + i), FALSE>>],
                 NEW m \in Meaning[<<"list", Slice(p + i, n - 1), FALSE>>],
                 data[n] = "e"
          PROVE  ReadsValue(p, p + i, v) /\ ReadsList(p + i, n, m)
      <4>1. p + i \in p .. Len(data) /\ n \in (p + i + 1) .. Len(data)
        BY <1>0, <1>3
      <4> QED BY <3>5, <4>1 DEF ReadsValue, ReadsList, Values
    <3>6. ASSUME NEW r, NEW v, NEW m, ReadsValue(p, r, v), ReadsList(r, n, m)
          PROVE  /\ data[n] = "e"
                 /\ \E i \in 1 .. (n - 1 - p) :
                      /\ v \in Meaning[<<"value", Slice(p, p + i), FALSE>>]
                      /\ m \in Meaning[<<"list", Slice(p + i, n - 1), FALSE>>]
      <4>1. r \in (p + 2) .. Len(data) /\ n \in (r + 1) .. Len(data)
        BY <3>6, NothingAt DEF ReadsList
      <4> DEFINE i == r - p
      <4>2. i \in 1 .. (n - 1 - p) /\ r = p + i
        BY <1>0, <4>1
      <4> HIDE DEF i
      <4>3. data[n] = "e" /\ v \in Meaning[<<"value", Slice(p, r), FALSE>>]
            /\ m \in Meaning[<<"list", Slice(r, n - 1), FALSE>>]
        BY <3>6 DEF ReadsValue, ReadsList, Values
      <4> QED BY <4>2, <4>3
    <3>7. ReadsList(p, n, l) <=> data[n] = "e" /\ l \in ListOf(Meaning, s, FALSE)
      BY <1>1, <1>3 DEF ReadsList, s
    <3> QED BY <2>2, <3>4, <3>5, <3>6, <3>7
  <2> QED BY <2>1, <2>2
<1>4. CASE n \notin (p + 1) .. Len(data)
  <2>1. ~ReadsList(p, n, l)
    BY <1>4 DEF ReadsList
  <2>2. ~(p < Len(data) /\ n = p + 1)
    BY <1>0, <1>4
  <2>3. ~ \E r, v, m : ReadsValue(p, r, v) /\ ReadsList(r, n, m) /\ l = Cons(v, m)
    <3> SUFFICES ASSUME NEW r, NEW v, NEW m, ReadsValue(p, r, v), ReadsList(r, n, m) PROVE FALSE
      OBVIOUS
    <3>1. r \in (p + 2) .. Len(data)
      BY NothingAt
    <3>2. n \in (r + 1) .. Len(data)
      BY DEF ReadsList
    <3> QED BY <1>0, <1>4, <3>1, <3>2
  <2> QED BY <2>1, <2>2, <2>3
<1> QED BY <1>3, <1>4

LEMMA DictUnfolds ==
    ASSUME data \in Seq(STRING), NEW p \in 0 .. Len(data), NEW n, NEW d
    PROVE  ReadsDict(p, n, d) <=>
             \/ p < Len(data) /\ data[p + 1] = "e" /\ n = p + 1 /\ d = <<>>
             \/ \E q, k, r, v, e : /\ ReadsKey(p, q, k) /\ ReadsValue(q, r, v)
                                   /\ ReadsDict(r, n, e) /\ d = Under(e, k, v)
<1> DEFINE s == Slice(p, n - 1)
<1>0. Len(data) \in Nat
  OBVIOUS
<1>1. ASSUME n \in (p + 1) .. Len(data)
      PROVE  /\ s \in Seq(STRING) /\ Len(s) = n - 1 - p
             /\ Meaning[<<"dict", s, FALSE>>] = DictOf(Meaning, s, FALSE)
  <2> DEFINE b == n - 1
  <2>1. b \in p .. Len(data)
    BY <1>0, <1>1
  <2> HIDE DEF b
  <2>2. Slice(p, b) \in Seq(STRING) /\ Len(Slice(p, b)) = b - p
    BY <2>1, SliceFacts
  <2>3. s \in Seq(STRING) /\ Len(s) = n - 1 - p
    BY <2>2 DEF b
  <2> QED BY <2>3, ValuesUnfold
<1>2. ASSUME n \in (p + 1) .. Len(data), NEW i \in 1 .. (n - 1 - p), NEW j \in (i + 1) .. (n - 1 - p)
      PROVE  /\ Cut(s, 1, i) = Slice(p, p + i) /\ Cut(s, i + 1, j) = Slice(p + i, p + j)
             /\ Cut(s, j + 1, Len(s)) = Slice(p + j, n - 1)
  <2> DEFINE b == n - 1
             a == i + 1
             h == j + 1
             c == n - 1 - p
  <2>1. /\ b \in p .. Len(data) /\ 1 \in 1 .. (b - p + 1) /\ i \in (1 - 1) .. (b - p)
        /\ a \in 1 .. (b - p + 1) /\ j \in (a - 1) .. (b - p)
        /\ h \in 1 .. (b - p + 1) /\ c \in (h - 1) .. (b - p)
        /\ p + 1 - 1 = p /\ p + a - 1 = p + i /\ p + h - 1 = p + j /\ p + c = n - 1
    BY <1>0, <1>2
  <2>2. Len(s) = c
    BY <1>1, <1>2
  <2> HIDE DEF b, a, c, h
  <2>3. Cut(Slice(p, b), 1, i) = Slice(p + 1 - 1, p + i)
    BY <2>1, CutOfSlice
  <2>4. Cut(Slice(p, b), a, j) = Slice(p + a - 1, p + j)
    BY <2>1, CutOfSlice
  <2>5. Cut(Slice(p, b), h, c) = Slice(p + h - 1, p + c)
    BY <2>1, CutOfSlice
  <2>6. Cut(s, 1, i) = Slice(p, p + i)
    BY <2>1, <2>3 DEF b
  <2>7. Cut(s, a, j) = Slice(p + i, p + j)
    BY <2>1, <2>4 DEF b
  <2>8. Cut(s, h, c) = Slice(p + j, n - 1)
    BY <2>1, <2>5 DEF b
  <2>9. Cut(s, i + 1, j) = Slice(p + i, p + j)
    BY <2>7 DEF a
  <2>10. Cut(s, j + 1, Len(s)) = Slice(p + j, n - 1)
    BY <2>2, <2>8 DEF h
  <2> QED BY <2>6, <2>9, <2>10
<1>3. ASSUME NEW q, NEW k, NEW r, NEW v, NEW e, ReadsKey(p, q, k), ReadsValue(q, r, v), ReadsDict(r, n, e)
      PROVE  q \in (p + 2) .. Len(data) /\ r \in (q + 2) .. Len(data) /\ n \in (r + 1) .. Len(data)
  <2>1. q \in (p + 2) .. Len(data)
    BY <1>3, NoKeyAt
  <2>2. q \in 0 .. Len(data)
    BY <1>0, <2>1
  <2>3. r \in (q + 2) .. Len(data)
    BY <1>3, <2>2, NothingAt
  <2>4. n \in (r + 1) .. Len(data)
    BY <1>3 DEF ReadsDict
  <2> QED BY <2>1, <2>3, <2>4
<1>4. CASE n \in (p + 1) .. Len(data)
  <2> HIDE DEF s
  <2>1. CASE n = p + 1
    <3>1. s = <<>>
      BY <2>1, EmptySlice DEF s
    <3>2. ReadsDict(p, n, d) <=> data[n] = "e" /\ d = <<>>
      <4>1. ReadsDict(p, n, d) <=> data[n] = "e" /\ d \in DictOf(Meaning, s, FALSE)
        BY <1>1, <1>4 DEF ReadsDict, s
      <4>2. DictOf(Meaning, s, FALSE) = {<<>>}
        BY <3>1 DEF DictOf
      <4> QED BY <4>1, <4>2
    <3>3. ~ \E q, k, r, v, e : /\ ReadsKey(p, q, k) /\ ReadsValue(q, r, v)
                               /\ ReadsDict(r, n, e) /\ d = Under(e, k, v)
      <4> SUFFICES ASSUME NEW q, NEW k, NEW r, NEW v, NEW e, ReadsKey(p, q, k), ReadsValue(q, r, v),
                          ReadsDict(r, n, e)
                   PROVE  FALSE
        OBVIOUS
      <4> QED BY <1>0, <1>3, <2>1
    <3>4. p < Len(data)
      BY <1>0, <1>4, <2>1
    <3> QED BY <2>1, <3>2, <3>3, <3>4
  <2>2. CASE n # p + 1
    <3>1. s # <<>>
      <4>1. Len(s) # 0
        BY <1>0, <1>1, <1>4, <2>2
      <4> QED BY <4>1
    <3>2. d \in DictOf(Meaning, s, FALSE) <=>
            \E i \in DOMAIN s : \E j \in (i + 1) .. Len(s) :
              \E k \in Texts(Cut(s, 1, i), FALSE) :
                \E v \in Meaning[<<"value", Cut(s, i + 1, j), FALSE>>] :
                  \E e \in Meaning[<<"dict", Cut(s, j + 1, Len(s)), FALSE>>] : d = Under(e, k, v)
      <4> DEFINE K(i) == Texts(Cut(s, 1, i), FALSE)
                 V(i, j) == Meaning[<<"value", Cut(s, i + 1, j), FALSE>>]
                 L(j) == Meaning[<<"dict", Cut(s, j + 1, Len(s)), FALSE>>]
                 M(j, k) == {e \in L(j) : FALSE => \A x \in DOMAIN e : Before(k, x)}
      <4> DEFINE Q(j, k, v) == {Under(e, k, v) : e \in M(j, k)}
                 P(i, j, k) == UNION {Q(j, k, v) : v \in V(i, j)}
                 O(i) == UNION {P(i, j, k) : k \in K(i), j \in (i + 1) .. Len(s)}
      <4>1. \A j, k : M(j, k) = L(j)
        OBVIOUS
      <4>2. DictOf(Meaning, s, FALSE) = UNION {O(i) : i \in DOMAIN s}
        BY <3>1 DEF DictOf
      <4> HIDE DEF K, V, L, M
      <4>3. \A j, k, v : d \in Q(j, k, v) <=> \E e \in L(j) : d = Under(e, k, v)
        BY <4>1
      <4> HIDE DEF Q
      <4>5. \A i, j, k : d \in P(i, j, k) <=> \E v \in V(i, j) : d \in Q(j, k, v)
        OBVIOUS
      <4> HIDE DEF P
      <4>6. \A i : d \in O(i) <=> \E k \in K(i), j \in (i + 1) .. Len(s) : d \in P(i, j, k)
        OBVIOUS
      <4> HIDE DEF O
      <4>7. d \in DictOf(Meaning, s, FALSE) <=> \E i \in DOMAIN s : d \in O(i)
        BY <4>2
      <4>8. \A i, j, k : d \in P(i, j, k) <=> \E v \in V(i, j) : \E e \in L(j) : d = Under(e, k, v)
        BY <4>3, <4>5, Zenon
      <4>9. \A i : d \in O(i) <=>
              \E j \in (i + 1) .. Len(s) : \E k \in K(i) :
                \E v \in V(i, j) : \E e \in L(j) : d = Under(e, k, v)
        BY <4>6, <4>8
      <4>10. d \in DictOf(Meaning, s, FALSE) <=>
              \E i \in DOMAIN s : \E j \in (i + 1) .. Len(s) : \E k \in K(i) :
                \E v \in V(i, j) : \E e \in L(j) : d = Under(e, k, v)
        BY <4>7, <4>9, Zenon
      <4> QED BY <4>10 DEF V, L, K
    <3>3. DOMAIN s = 1 .. (n - 1 - p) /\ Len(s) = n - 1 - p
      BY <1>1, <1>4
    <3>4. d \in DictOf(Meaning, s, FALSE) <=>
            \E i \in 1 .. (n - 1 - p) : \E j \in (i + 1) .. (n - 1 - p) :
              \E k \in Texts(Slice(p, p + i), FALSE) :
                \E v \in Meaning[<<"value", Slice(p + i, p + j), FALSE>>] :
                  \E e \in Meaning[<<"dict", Slice(p + j, n - 1), FALSE>>] : d = Under(e, k, v)
      <4> DEFINE X(a, b, c) ==
                    \E k \in Texts(a, FALSE) :
                      \E v \in Meaning[<<"value", b, FALSE>>] :
                        \E e \in Meaning[<<"dict", c, FALSE>>] : d = Under(e, k, v)
      <4>1. d \in DictOf(Meaning, s, FALSE) <=>
              \E i \in DOMAIN s : \E j \in (i + 1) .. Len(s) :
                X(Cut(s, 1, i), Cut(s, i + 1, j), Cut(s, j + 1, Len(s)))
        BY <3>2
      <4>2. SUFFICES d \in DictOf(Meaning, s, FALSE) <=>
              \E i \in 1 .. (n - 1 - p) : \E j \in (i + 1) .. (n - 1 - p) :
                X(Slice(p, p + i), Slice(p + i, p + j), Slice(p + j, n - 1))
        OBVIOUS
      <4> HIDE DEF X
      <4>3. d \in DictOf(Meaning, s, FALSE) <=>
              \E i \in 1 .. (n - 1 - p) : \E j \in (i + 1) .. (n - 1 - p) :
                X(Cut(s, 1, i), Cut(s, i + 1, j), Cut(s, j + 1, Len(s)))
        BY <3>3, <4>1
      <4>4. \A i \in 1 .. (n - 1 - p) : \A j \in (i + 1) .. (n - 1 - p) :
              X(Cut(s, 1, i), Cut(s, i + 1, j), Cut(s, j + 1, Len(s)))
                <=> X(Slice(p, p + i), Slice(p + i, p + j), Slice(p + j, n - 1))
        BY <1>2, <1>4
      <4> QED BY <4>3, <4>4
    <3>5. ASSUME NEW i \in 1 .. (n - 1 - p), NEW j \in (i + 1) .. (n - 1 - p),
                 NEW k \in Texts(Slice(p, p + i), FALSE),
                 NEW v \in Meaning[<<"value", Slice(p + i, p + j), FALSE>>],
                 NEW e \in Meaning[<<"dict", Slice(p + j, n - 1), FALSE>>],
                 data[n] = "e"
          PROVE  ReadsKey(p, p + i, k) /\ ReadsValue(p + i, p + j, v) /\ ReadsDict(p + j, n, e)
      <4>1. p + i \in p .. Len(data) /\ p + j \in (p + i) .. Len(data) /\ n \in (p + j + 1) .. Len(data)
        BY <1>0, <1>4
      <4> QED BY <3>5, <4>1 DEF ReadsKey, ReadsValue, ReadsDict, Values
    <3>6. ASSUME NEW q, NEW k, NEW r, NEW v, NEW e, ReadsKey(p, q, k), ReadsValue(q, r, v), ReadsDict(r, n, e)
          PROVE  /\ data[n] = "e"
                 /\ \E i \in 1 .. (n - 1 - p) : \E j \in (i + 1) .. (n - 1 - p) :
                      /\ k \in Texts(Slice(p, p + i), FALSE)
                      /\ v \in Meaning[<<"value", Slice(p + i, p + j), FALSE>>]
                      /\ e \in Meaning[<<"dict", Slice(p + j, n - 1), FALSE>>]
      <4>1. q \in (p + 2) .. Len(data) /\ r \in (q + 2) .. Len(data) /\ n \in (r + 1) .. Len(data)
        BY <1>3, <3>6
      <4> DEFINE i == q - p
                 j == r - p
      <4>2. i \in 1 .. (n - 1 - p) /\ q = p + i /\ j \in (i + 1) .. (n - 1 - p) /\ r = p + j
        BY <1>0, <4>1
      <4> HIDE DEF i, j
      <4>3. data[n] = "e" /\ k \in Texts(Slice(p, q), FALSE)
            /\ v \in Meaning[<<"value", Slice(q, r), FALSE>>]
            /\ e \in Meaning[<<"dict", Slice(r, n - 1), FALSE>>]
        BY <3>6 DEF ReadsKey, ReadsValue, ReadsDict, Values
      <4> QED BY <4>2, <4>3
    <3>7. ReadsDict(p, n, d) <=> data[n] = "e" /\ d \in DictOf(Meaning, s, FALSE)
      BY <1>1, <1>4 DEF ReadsDict, s
    <3>8. CASE data[n] = "e" /\ d \in DictOf(Meaning, s, FALSE)
      BY <2>2, <3>4, <3>5, <3>7, <3>8
    <3>9. CASE ~(data[n] = "e" /\ d \in DictOf(Meaning, s, FALSE))
      <4>1. ~ \E q, k, r, v, e : /\ ReadsKey(p, q, k) /\ ReadsValue(q, r, v)
                                 /\ ReadsDict(r, n, e) /\ d = Under(e, k, v)
        <5> SUFFICES ASSUME NEW q, NEW k, NEW r, NEW v, NEW e, ReadsKey(p, q, k), ReadsValue(q, r, v),
                            ReadsDict(r, n, e), d = Under(e, k, v)
                     PROVE  FALSE
          OBVIOUS
        <5> QED BY <3>4, <3>6, <3>9
      <4> QED BY <2>2, <3>7, <3>9, <4>1
    <3> QED BY <3>8, <3>9
  <2> QED BY <2>1, <2>2
<1>5. CASE n \notin (p + 1) .. Len(data)
  <2>1. ~ReadsDict(p, n, d)
    BY <1>5 DEF ReadsDict
  <2>2. ~(p < Len(data) /\ n = p + 1)
    BY <1>0, <1>5
  <2>3. ~ \E q, k, r, v, e : /\ ReadsKey(p, q, k) /\ ReadsValue(q, r, v)
                             /\ ReadsDict(r, n, e) /\ d = Under(e, k, v)
    <3> SUFFICES ASSUME NEW q, NEW k, NEW r, NEW v, NEW e, ReadsKey(p, q, k), ReadsValue(q, r, v),
                        ReadsDict(r, n, e)
                 PROVE  FALSE
      OBVIOUS
    <3> QED BY <1>0, <1>3, <1>5
  <2> QED BY <2>1, <2>2, <2>3
<1> QED BY <1>4, <1>5

\* A value that is read somewhere in the bytes.
IsPart(v) == \E p \in 0 .. Len(data) : \E n : ReadsValue(p, n, v)

\* What is read as a list is a sequence of such values.
LEMMA ListIsSequence ==
    ASSUME data \in Seq(STRING)
    PROVE  \A p \in 0 .. Len(data) : \A n, l : ReadsList(p, n, l) => \E S : l \in Seq(S) /\ \A x \in S : IsPart(x)
<1> DEFINE Bad(k) == \E p \in 0 .. Len(data) : \E n, l :
                        ReadsList(p, n, l) /\ n - p = k /\ ~ \E S : l \in Seq(S) /\ \A x \in S : IsPart(x)
           T == {k \in Nat : Bad(k)}
<1>0. Len(data) \in Nat
  OBVIOUS
<1>1. SUFFICES ASSUME T # {} PROVE FALSE
  <2> SUFFICES ASSUME T = {}, NEW p \in 0 .. Len(data), NEW n, NEW l, ReadsList(p, n, l)
               PROVE  \E S : l \in Seq(S) /\ \A x \in S : IsPart(x)
    OBVIOUS
  <2>1. n \in (p + 1) .. Len(data)
    BY DEF ReadsList
  <2>2. n - p \in Nat
    BY <1>0, <2>1
  <2>3. ~Bad(n - p)
    BY <2>2
  <2> QED BY <2>3
<1>2. PICK k \in T : \A j \in T : k <= j
  BY <1>1, LeastNat
<1> HIDE DEF T
<1>3. PICK p, n, l : /\ p \in 0 .. Len(data) /\ ReadsList(p, n, l) /\ n - p = k
                     /\ ~ \E S : l \in Seq(S) /\ \A x \in S : IsPart(x)
  BY <1>2 DEF T
<1>4. l # <<>>
  <2>1. <<>> \in Seq({}) /\ \A x \in {} : IsPart(x)
    OBVIOUS
  <2>2. ASSUME l = <<>> PROVE \E S : l \in Seq(S) /\ \A x \in S : IsPart(x)
    <3>1. l \in Seq({}) /\ \A x \in {} : IsPart(x)
      BY <2>1, <2>2
    <3> WITNESS {}
    <3> QED BY <3>1
  <2> QED BY <1>3, <2>2, Zenon
<1>5. PICK r, v, m : ReadsValue(p, r, v) /\ ReadsList(r, n, m) /\ l = Cons(v, m)
  <2>1. p \in 0 .. Len(data) /\ ReadsList(p, n, l)
    BY <1>3
  <2>2. ReadsList(p, n, l) <=>
          \/ p < Len(data) /\ data[p + 1] = "e" /\ n = p + 1 /\ l = <<>>
          \/ \E r, v, m : ReadsValue(p, r, v) /\ ReadsList(r, n, m) /\ l = Cons(v, m)
    BY <2>1, ListUnfolds
  <2> QED BY <1>4, <2>1, <2>2, Zenon
<1>6. r \in (p + 2) .. Len(data) /\ n \in (r + 1) .. Len(data)
  <2>1. p \in 0 .. Len(data)
    BY <1>3
  <2>2. r \in (p + 2) .. Len(data)
    BY <1>5, <2>1, NothingAt
  <2> QED BY <1>5, <2>2 DEF ReadsList
<1>7. PICK S : m \in Seq(S) /\ \A x \in S : IsPart(x)
  <2>1. n - r \in Nat /\ n - r < k /\ r \in 0 .. Len(data) /\ k \in Nat
    BY <1>0, <1>3, <1>6
  <2>2. n - r \notin T
    BY <1>2, <2>1
  <2>3. ~Bad(n - r)
    BY <2>1, <2>2 DEF T
  <2> QED BY <1>5, <2>1, <2>3
<1>8. <<v>> \in Seq(S \cup {v}) /\ m \in Seq(S \cup {v})
  BY <1>7
<1>9. l \in Seq(S \cup {v})
  BY <1>5, <1>8, ConcatProperties DEF Cons
<1>10. IsPart(v)
  BY <1>3, <1>5 DEF IsPart
<1> QED BY <1>3, <1>7, <1>9, <1>10

IsFunction(d) == d = [x \in DOMAIN d |-> d[x]]

LEMMA DictIsFunction ==
    ASSUME data \in Seq(STRING), NEW p \in 0 .. Len(data), NEW n, NEW d, ReadsDict(p, n, d)
    PROVE  IsFunction(d)
<1>1. CASE d = <<>>
  BY <1>1 DEF IsFunction
<1>2. CASE \E e, k, v : d = Under(e, k, v)
  BY <1>2 DEF IsFunction, Under
<1> QED BY <1>1, <1>2, DictUnfolds

-----------------------------------------------------------------------------
(* What a frame comes to, when the bytes from p up to n are the rest of it. *)

\* e over d: what is read later counts.
Onto(e, d) == [x \in DOMAIN e \cup DOMAIN d |-> IF x \in DOMAIN e THEN e[x] ELSE d[x]]

\* d with the value v for k.
Put(d, k, v) == [x \in DOMAIN d \cup {k} |-> IF x = k THEN v ELSE d[x]]

Ends(f, p, n, w) ==
    \/ /\ "list" \in DOMAIN f
       /\ \E m : ReadsList(p, n, m) /\ w = [list |-> f.list \o m]
    \/ /\ "list" \notin DOMAIN f /\ "key" \notin DOMAIN f
       /\ \E e : ReadsDict(p, n, e) /\ w = [dict |-> Onto(e, f.dict)]
    \/ /\ "list" \notin DOMAIN f /\ "key" \in DOMAIN f
       /\ \E r, v, e : /\ ReadsValue(p, r, v) /\ ReadsDict(r, n, e)
                       /\ w = [dict |-> Onto(e, Add(f, v).dict)]

ListFrame(f, l) == f = [list |-> l] /\ \E S : l \in Seq(S)
DictFrame(f, d) == f = [dict |-> d] /\ IsFunction(d)
Waiting(d, k) == [dict |-> d, key |-> k]
KeyFrame(f, d, k) == f = Waiting(d, k) /\ IsFunction(d)
Frame(f) == (\E l : ListFrame(f, l)) \/ (\E d : DictFrame(f, d)) \/ (\E d, k : KeyFrame(f, d, k))

LEMMA ListFrameFacts ==
    ASSUME NEW f, NEW l, ListFrame(f, l)
    PROVE  /\ "list" \in DOMAIN f /\ "key" \notin DOMAIN f /\ "dict" \notin DOMAIN f /\ f.list = l
           /\ \A v : ListFrame(Add(f, v), Append(l, v))
<1>1. "list" \in DOMAIN f /\ "key" \notin DOMAIN f /\ "dict" \notin DOMAIN f /\ f.list = l
  BY DEF ListFrame
<1>2. ASSUME NEW v PROVE ListFrame(Add(f, v), Append(l, v))
  <2>1. Add(f, v) = [list |-> Append(l, v)]
    BY <1>1 DEF Add
  <2>2. PICK S : l \in Seq(S)
    BY DEF ListFrame
  <2>3. l \in Seq(S \cup {v}) /\ v \in S \cup {v}
    BY <2>2
  <2>4. Append(l, v) \in Seq(S \cup {v})
    BY <2>3
  <2> QED BY <2>1, <2>4 DEF ListFrame
<1> QED BY <1>1, <1>2

LEMMA DictFrameFacts ==
    ASSUME NEW f, NEW d, DictFrame(f, d)
    PROVE  /\ "list" \notin DOMAIN f /\ "key" \notin DOMAIN f /\ "dict" \in DOMAIN f /\ f.dict = d
           /\ IsFunction(d)
BY DEF DictFrame

LEMMA KeyFrameFacts ==
    ASSUME NEW f, NEW d, NEW k, KeyFrame(f, d, k)
    PROVE  /\ "list" \notin DOMAIN f /\ "key" \in DOMAIN f /\ "dict" \in DOMAIN f
           /\ f.dict = d /\ f.key = k /\ IsFunction(d)
           /\ \A v : /\ Add(f, v).dict = Put(d, k, v)
                     /\ DictFrame(Add(f, v), Add(f, v).dict)
<1>1. /\ "list" \notin DOMAIN f /\ "key" \in DOMAIN f /\ "dict" \in DOMAIN f
      /\ f.dict = d /\ f.key = k /\ IsFunction(d)
  BY DEF KeyFrame, Waiting
<1>2. ASSUME NEW v PROVE /\ Add(f, v).dict = Put(d, k, v)
                         /\ DictFrame(Add(f, v), Add(f, v).dict)
  <2> DEFINE g == [x \in DOMAIN d \cup {k} |-> IF x = k THEN v ELSE d[x]]
  <2>1. Add(f, v) = [dict |-> g]
    BY <1>1 DEF Add
  <2>2. IsFunction(g)
    BY DEF IsFunction
  <2> HIDE DEF g
  <2>3. Add(f, v).dict = g
    BY <2>1
  <2>4. Add(f, v).dict = g /\ DictFrame(Add(f, v), Add(f, v).dict)
    BY <2>1, <2>2, <2>3 DEF DictFrame
  <2> QED BY <2>4 DEF g, Put
<1> QED BY <1>1, <1>2

\* The four ways in which a frame goes on.
LEMMA AppendConcat ==
    ASSUME NEW S, NEW l \in Seq(S), NEW T, NEW m \in Seq(T), NEW v
    PROVE  Append(l, v) \o m = l \o Cons(v, m)
<1> DEFINE U == S \cup T \cup {v}
<1>1. l \in Seq(U) /\ m \in Seq(U) /\ v \in U /\ <<v>> \in Seq(U)
  <2>1. v \in U
    OBVIOUS
  <2>2. S \subseteq U /\ T \subseteq U
    OBVIOUS
  <2> HIDE DEF U
  <2>3. l \in Seq(U) /\ m \in Seq(U)
    BY <2>2, SeqMonotonic
  <2> QED BY <2>1, <2>3
<1> HIDE DEF U
<1>2. Append(l, v) = l \o <<v>>
  BY <1>1, AppendIsConcat
<1>3. (l \o <<v>>) \o m = l \o (<<v>> \o m)
  BY <1>1, ConcatAssociative
<1> QED BY <1>2, <1>3 DEF Cons

LEMMA KeyEnds ==
    ASSUME NEW f, NEW d, NEW k, KeyFrame(f, d, k), NEW p, NEW n, NEW w
    PROVE  Ends(f, p, n, w) <=> \E r, v : ReadsValue(p, r, v) /\ Ends(Add(f, v), r, n, w)
<1>1. "list" \notin DOMAIN f /\ "key" \in DOMAIN f
  BY KeyFrameFacts
<1>2. \A v : "list" \notin DOMAIN Add(f, v) /\ "key" \notin DOMAIN Add(f, v)
  BY KeyFrameFacts, DictFrameFacts
<1>3. Ends(f, p, n, w) <=>
        \E r, v, e : /\ ReadsValue(p, r, v) /\ ReadsDict(r, n, e)
                     /\ w = [dict |-> Onto(e, Add(f, v).dict)]
  BY <1>1 DEF Ends
<1>4. \A r, v : Ends(Add(f, v), r, n, w) <=>
        \E e : ReadsDict(r, n, e) /\ w = [dict |-> Onto(e, Add(f, v).dict)]
  BY <1>2 DEF Ends
<1> QED BY <1>3, <1>4

LEMMA ListEnds ==
    ASSUME data \in Seq(STRING), NEW f, NEW l, ListFrame(f, l),
           NEW p \in 0 .. Len(data), ~(p < Len(data) /\ data[p + 1] = "e"), NEW n, NEW w
    PROVE  Ends(f, p, n, w) <=> \E r, v : ReadsValue(p, r, v) /\ Ends(Add(f, v), r, n, w)
<1>0. Len(data) \in Nat
  OBVIOUS
<1>1. "list" \in DOMAIN f /\ f.list = l
  BY ListFrameFacts
<1>2. \A v : "list" \in DOMAIN Add(f, v) /\ Add(f, v).list = Append(l, v)
  <2> TAKE v
  <2>1. ListFrame(Add(f, v), Append(l, v))
    BY ListFrameFacts
  <2> QED BY <2>1, ListFrameFacts
<1>3. Ends(f, p, n, w) <=> \E m : ReadsList(p, n, m) /\ w = [list |-> l \o m]
  BY <1>1 DEF Ends
<1>4. \A m : ReadsList(p, n, m) <=>
        \E r, v, i : ReadsValue(p, r, v) /\ ReadsList(r, n, i) /\ m = Cons(v, i)
  BY ListUnfolds
<1>5. \A r, v : Ends(Add(f, v), r, n, w) <=>
        \E i : ReadsList(r, n, i) /\ w = [list |-> Append(l, v) \o i]
  BY <1>2 DEF Ends
<1>6. \A r, v, i : ReadsValue(p, r, v) /\ ReadsList(r, n, i) => Append(l, v) \o i = l \o Cons(v, i)
  <2> SUFFICES ASSUME NEW r, NEW v, NEW i, ReadsValue(p, r, v), ReadsList(r, n, i)
               PROVE  Append(l, v) \o i = l \o Cons(v, i)
    OBVIOUS
  <2>1. r \in 0 .. Len(data)
    <3>1. r \in (p + 2) .. Len(data)
      BY NothingAt
    <3> QED BY <1>0, <3>1
  <2>2. \E T : i \in Seq(T)
    BY <2>1, ListIsSequence
  <2>3. \E S : l \in Seq(S)
    BY DEF ListFrame
  <2> QED BY <2>2, <2>3, AppendConcat
<1>7. ASSUME Ends(f, p, n, w)
      PROVE  \E r, v : ReadsValue(p, r, v) /\ Ends(Add(f, v), r, n, w)
  <2>1. PICK m : ReadsList(p, n, m) /\ w = [list |-> l \o m]
    BY <1>3, <1>7
  <2>2. PICK r, v, i : ReadsValue(p, r, v) /\ ReadsList(r, n, i) /\ m = Cons(v, i)
    BY <1>4, <2>1
  <2>3. Append(l, v) \o i = l \o m
    BY <1>6, <2>2
  <2>4. w = [list |-> Append(l, v) \o i]
    BY <2>1, <2>3
  <2> QED BY <1>5, <2>2, <2>4
<1>8. ASSUME NEW r, NEW v, ReadsValue(p, r, v), Ends(Add(f, v), r, n, w)
      PROVE  Ends(f, p, n, w)
  <2>1. PICK i : ReadsList(r, n, i) /\ w = [list |-> Append(l, v) \o i]
    BY <1>5, <1>8
  <2>2. ReadsList(p, n, Cons(v, i))
    BY <1>4, <1>8, <2>1
  <2>3. Append(l, v) \o i = l \o Cons(v, i)
    BY <1>6, <1>8, <2>1
  <2>4. w = [list |-> l \o Cons(v, i)]
    BY <2>1, <2>3
  <2> QED BY <1>3, <2>2, <2>4
<1> QED BY <1>7, <1>8

LEMMA OntoFacts ==
    ASSUME NEW d, IsFunction(d)
    PROVE  /\ Onto(d, <<>>) = d /\ Onto(<<>>, d) = d
           /\ \A e, k, v : Onto(Under(e, k, v), d) = Onto(e, Put(d, k, v))
<1>1. DOMAIN <<>> = {}
  OBVIOUS
<1>2. Onto(d, <<>>) = d /\ Onto(<<>>, d) = d
  BY <1>1 DEF IsFunction, Onto
<1>3. ASSUME NEW e, NEW k, NEW v
      PROVE  Onto(Under(e, k, v), d) = Onto(e, Put(d, k, v))
  <2> DEFINE g == [x \in DOMAIN d \cup {k} |-> IF x = k THEN v ELSE d[x]]
             u == Under(e, k, v)
  <2>1. DOMAIN g = DOMAIN d \cup {k} /\ \A x \in DOMAIN g : g[x] = IF x = k THEN v ELSE d[x]
    OBVIOUS
  <2>2. DOMAIN u = DOMAIN e \cup {k} /\ \A x \in DOMAIN u : u[x] = IF x \in DOMAIN e THEN e[x] ELSE v
    BY DEF Under
  <2> HIDE DEF g, u
  <2>3. Onto(u, d) = Onto(e, g)
    BY <2>1, <2>2 DEF Onto
  <2> QED BY <2>3 DEF u, g, Put
<1> QED BY <1>2, <1>3

LEMMA DictEnds ==
    ASSUME data \in Seq(STRING), NEW f, NEW d, DictFrame(f, d),
           NEW p \in 0 .. Len(data), ~(p < Len(data) /\ data[p + 1] = "e"), NEW n, NEW w
    PROVE  Ends(f, p, n, w) <=>
              \E q, k : ReadsKey(p, q, k) /\ Ends(Waiting(d, k), q, n, w)
<1>1. "list" \notin DOMAIN f /\ "key" \notin DOMAIN f /\ f.dict = d /\ IsFunction(d)
  BY DictFrameFacts
<1>2. Ends(f, p, n, w) <=> \E e : ReadsDict(p, n, e) /\ w = [dict |-> Onto(e, d)]
  BY <1>1 DEF Ends
<1>3. \A e : ReadsDict(p, n, e) <=>
        \E q, k, r, v, i : /\ ReadsKey(p, q, k) /\ ReadsValue(q, r, v)
                           /\ ReadsDict(r, n, i) /\ e = Under(i, k, v)
  BY DictUnfolds
<1>4. \A k, v : Add(Waiting(d, k), v).dict = Put(d, k, v)
  <2> TAKE k, v
  <2> DEFINE g == Waiting(d, k)
  <2>1. KeyFrame(g, d, k)
    BY <1>1 DEF KeyFrame
  <2> HIDE DEF g
  <2>2. Add(g, v).dict = Put(d, k, v)
    BY <2>1, KeyFrameFacts
  <2> QED BY <2>2 DEF g
<1>5. \A q, k : Ends(Waiting(d, k), q, n, w) <=>
        \E r, v, i : /\ ReadsValue(q, r, v) /\ ReadsDict(r, n, i)
                     /\ w = [dict |-> Onto(i, Add(Waiting(d, k), v).dict)]
  <2> TAKE q, k
  <2>1. "list" \notin DOMAIN Waiting(d, k) /\ "key" \in DOMAIN Waiting(d, k)
    BY DEF Waiting
  <2> QED BY <2>1 DEF Ends
<1>6. \A k, v, i : Onto(i, Add(Waiting(d, k), v).dict) = Onto(Under(i, k, v), d)
  BY <1>1, <1>4, OntoFacts
<1>7. ASSUME Ends(f, p, n, w)
      PROVE  \E q, k : ReadsKey(p, q, k) /\ Ends(Waiting(d, k), q, n, w)
  <2>1. PICK e : ReadsDict(p, n, e) /\ w = [dict |-> Onto(e, d)]
    BY <1>2, <1>7
  <2>2. PICK q, k, r, v, i : /\ ReadsKey(p, q, k) /\ ReadsValue(q, r, v)
                             /\ ReadsDict(r, n, i) /\ e = Under(i, k, v)
    BY <1>3, <2>1
  <2>3. w = [dict |-> Onto(i, Add(Waiting(d, k), v).dict)]
    BY <1>6, <2>1, <2>2
  <2> QED BY <1>5, <2>2, <2>3
<1>8. ASSUME NEW q, NEW k, ReadsKey(p, q, k), Ends(Waiting(d, k), q, n, w)
      PROVE  Ends(f, p, n, w)
  <2>1. PICK r, v, i : /\ ReadsValue(q, r, v) /\ ReadsDict(r, n, i)
                       /\ w = [dict |-> Onto(i, Add(Waiting(d, k), v).dict)]
    BY <1>5, <1>8
  <2>2. ReadsDict(p, n, Under(i, k, v))
    BY <1>3, <1>8, <2>1
  <2>3. w = [dict |-> Onto(Under(i, k, v), d)]
    BY <1>6, <2>1
  <2> QED BY <1>2, <2>2, <2>3
<1> QED BY <1>7, <1>8

\* At the byte that ends it, a frame is what it has become.
LEMMA ClosedEnds ==
    ASSUME data \in Seq(STRING), NEW f, (\E l : ListFrame(f, l)) \/ (\E d : DictFrame(f, d)),
           NEW p \in 0 .. Len(data), p < Len(data), data[p + 1] = "e", NEW n, NEW w
    PROVE  Ends(f, p, n, w) <=> n = p + 1 /\ w = f
<1>1. CASE \E l : ListFrame(f, l)
  <2>1. PICK l : ListFrame(f, l)
    BY <1>1
  <2>2. "list" \in DOMAIN f /\ f.list = l
    BY <2>1, ListFrameFacts
  <2>3. \A m : ReadsList(p, n, m) <=> n = p + 1 /\ m = <<>>
    <3>1. \A r, v : ~ReadsValue(p, r, v)
      BY NothingAt, ByteIs
    <3> QED BY <3>1, ListUnfolds
  <2>4. PICK S : l \in Seq(S)
    BY <2>1 DEF ListFrame
  <2>5. l \o <<>> = l
    BY <2>4, ConcatEmptySeq
  <2>6. Ends(f, p, n, w) <=> \E m : ReadsList(p, n, m) /\ w = [list |-> l \o m]
    BY <2>2 DEF Ends
  <2>7. Ends(f, p, n, w) <=> n = p + 1 /\ w = [list |-> l]
    BY <2>3, <2>5, <2>6
  <2> QED BY <2>1, <2>7 DEF ListFrame
<1>2. CASE \E d : DictFrame(f, d)
  <2>1. PICK d : DictFrame(f, d)
    BY <1>2
  <2>2. "list" \notin DOMAIN f /\ "key" \notin DOMAIN f /\ f.dict = d /\ IsFunction(d)
    BY <2>1, DictFrameFacts
  <2>3. \A e : ReadsDict(p, n, e) <=> n = p + 1 /\ e = <<>>
    <3>1. \A q, k : ~ReadsKey(p, q, k)
      BY NoKeyAt
    <3> QED BY <3>1, DictUnfolds
  <2>4. Onto(<<>>, d) = d
    BY <2>2, OntoFacts
  <2>5. Ends(f, p, n, w) <=> \E e : ReadsDict(p, n, e) /\ w = [dict |-> Onto(e, d)]
    BY <2>2 DEF Ends
  <2>6. Ends(f, p, n, w) <=> n = p + 1 /\ w = [dict |-> d]
    BY <2>3, <2>4, <2>5
  <2> QED BY <2>1, <2>6 DEF DictFrame
<1> QED BY <1>1, <1>2

\* A frame that is opened comes to the list or the dictionary that begins there.
LEMMA OpenedEnds ==
    ASSUME data \in Seq(STRING), NEW p \in 0 .. Len(data), NEW n, NEW w
    PROVE  /\ ListFrame([list |-> <<>>], <<>>) /\ DictFrame([dict |-> <<>>], <<>>)
           /\ Ends([list |-> <<>>], p, n, w) <=> \E m : ReadsList(p, n, m) /\ w = [list |-> m]
           /\ Ends([dict |-> <<>>], p, n, w) <=> \E e : ReadsDict(p, n, e) /\ w = [dict |-> e]
<1>1. ListFrame([list |-> <<>>], <<>>)
  <2>1. <<>> \in Seq({})
    OBVIOUS
  <2> QED BY <2>1 DEF ListFrame
<1>2. DictFrame([dict |-> <<>>], <<>>)
  BY DEF DictFrame, IsFunction
<1>3. Ends([list |-> <<>>], p, n, w) <=> \E m : ReadsList(p, n, m) /\ w = [list |-> m]
  <2>1. \A m : ReadsList(p, n, m) => <<>> \o m = m
    BY ListIsSequence, ConcatEmptySeq
  <2>2. Ends([list |-> <<>>], p, n, w) <=> \E m : ReadsList(p, n, m) /\ w = [list |-> <<>> \o m]
    <3> DEFINE f == [list |-> <<>>]
    <3>1. "list" \in DOMAIN f /\ f.list = <<>>
      OBVIOUS
    <3> HIDE DEF f
    <3>2. Ends(f, p, n, w) <=> \E m : ReadsList(p, n, m) /\ w = [list |-> <<>> \o m]
      BY <3>1 DEF Ends
    <3> QED BY <3>2 DEF f
  <2> QED BY <2>1, <2>2
<1>4. Ends([dict |-> <<>>], p, n, w) <=> \E e : ReadsDict(p, n, e) /\ w = [dict |-> e]
  <2>1. \A e : ReadsDict(p, n, e) => Onto(e, <<>>) = e
    BY DictIsFunction, OntoFacts
  <2>2. Ends([dict |-> <<>>], p, n, w) <=> \E e : ReadsDict(p, n, e) /\ w = [dict |-> Onto(e, <<>>)]
    <3> DEFINE f == [dict |-> <<>>]
    <3>1. "list" \notin DOMAIN f /\ "key" \notin DOMAIN f /\ f.dict = <<>>
      OBVIOUS
    <3> HIDE DEF f
    <3>2. Ends(f, p, n, w) <=> \E e : ReadsDict(p, n, e) /\ w = [dict |-> Onto(e, <<>>)]
      BY <3>1 DEF Ends
    <3> QED BY <3>2 DEF f
  <2> QED BY <2>1, <2>2
<1> QED BY <1>1, <1>2, <1>3, <1>4

-----------------------------------------------------------------------------
(* What the stack comes to: the value goes to the k-th frame, what that one *)
(* comes to goes to the one below it, and so on to the caller.              *)

Leads(frames, k, p, v, n, w) ==
    \E at, val :
        /\ at[1] = n /\ val[1] = w /\ at[k + 1] = p /\ val[k + 1] = v
        /\ \A i \in 1 .. k : Ends(Add(frames[i], val[i + 1]), at[i + 1], at[i], val[i])

LEMMA LeadsNowhere ==
    ASSUME NEW frames, NEW p, NEW v, NEW n, NEW w
    PROVE  Leads(frames, 0, p, v, n, w) <=> n = p /\ w = v
<1>1. ASSUME Leads(frames, 0, p, v, n, w) PROVE n = p /\ w = v
  BY <1>1 DEF Leads
<1>2. ASSUME n = p, w = v PROVE Leads(frames, 0, p, v, n, w)
  <2> DEFINE at == [i \in {1} |-> n]
             val == [i \in {1} |-> w]
  <2>1. at[1] = n /\ val[1] = w /\ at[0 + 1] = p /\ val[0 + 1] = v
    BY <1>2
  <2> HIDE DEF at, val
  <2>2. \A i \in 1 .. 0 : Ends(Add(frames[i], val[i + 1]), at[i + 1], at[i], val[i])
    OBVIOUS
  <2> QED BY <2>1, <2>2 DEF Leads
<1> QED BY <1>1, <1>2

LEMMA LeadsDown ==
    ASSUME NEW frames, NEW k \in Nat \ {0}, NEW p, NEW v, NEW n, NEW w
    PROVE  Leads(frames, k, p, v, n, w) <=>
              \E q, u : Ends(Add(frames[k], v), p, q, u) /\ Leads(frames, k - 1, q, u, n, w)
<1>1. ASSUME Leads(frames, k, p, v, n, w)
      PROVE  \E q, u : Ends(Add(frames[k], v), p, q, u) /\ Leads(frames, k - 1, q, u, n, w)
  <2>1. PICK at, val :
          /\ at[1] = n /\ val[1] = w /\ at[k + 1] = p /\ val[k + 1] = v
          /\ \A i \in 1 .. k : Ends(Add(frames[i], val[i + 1]), at[i + 1], at[i], val[i])
    BY <1>1 DEF Leads
  <2>2. k \in 1 .. k /\ k - 1 + 1 = k /\ \A i \in 1 .. (k - 1) : i \in 1 .. k
    OBVIOUS
  <2>3. Ends(Add(frames[k], v), p, at[k], val[k])
    BY <2>1, <2>2
  <2>4. /\ at[1] = n /\ val[1] = w /\ at[k - 1 + 1] = at[k] /\ val[k - 1 + 1] = val[k]
        /\ \A i \in 1 .. (k - 1) : Ends(Add(frames[i], val[i + 1]), at[i + 1], at[i], val[i])
    BY <2>1, <2>2
  <2>5. Leads(frames, k - 1, at[k], val[k], n, w)
    BY <2>4 DEF Leads
  <2> QED BY <2>3, <2>5
<1>2. ASSUME NEW q, NEW u, Ends(Add(frames[k], v), p, q, u), Leads(frames, k - 1, q, u, n, w)
      PROVE  Leads(frames, k, p, v, n, w)
  <2>1. PICK at, val :
          /\ at[1] = n /\ val[1] = w /\ at[k - 1 + 1] = q /\ val[k - 1 + 1] = u
          /\ \A i \in 1 .. (k - 1) : Ends(Add(frames[i], val[i + 1]), at[i + 1], at[i], val[i])
    BY <1>2 DEF Leads
  <2>2. k - 1 + 1 = k /\ 1 \in 1 .. k /\ k \in 1 .. k
    OBVIOUS
  <2> DEFINE a == [i \in 1 .. (k + 1) |-> IF i = k + 1 THEN p ELSE at[i]]
             b == [i \in 1 .. (k + 1) |-> IF i = k + 1 THEN v ELSE val[i]]
  <2>3. /\ a[k + 1] = p /\ b[k + 1] = v
        /\ \A i \in 1 .. k : a[i] = at[i] /\ b[i] = val[i]
    OBVIOUS
  <2> HIDE DEF a, b
  <2>4. \A i \in 1 .. k : Ends(Add(frames[i], b[i + 1]), a[i + 1], a[i], b[i])
    <3> SUFFICES ASSUME NEW i \in 1 .. k PROVE Ends(Add(frames[i], b[i + 1]), a[i + 1], a[i], b[i])
      OBVIOUS
    <3>1. CASE i = k
      <4>1. a[i + 1] = p /\ b[i + 1] = v /\ a[i] = q /\ b[i] = u
        BY <2>1, <2>2, <2>3, <3>1
      <4> QED BY <1>2, <3>1, <4>1
    <3>2. CASE i # k
      <4>1. i \in 1 .. (k - 1) /\ i + 1 \in 1 .. k
        BY <3>2
      <4>2. a[i + 1] = at[i + 1] /\ b[i + 1] = val[i + 1] /\ a[i] = at[i] /\ b[i] = val[i]
        BY <2>3, <4>1
      <4> QED BY <2>1, <4>1, <4>2
    <3> QED BY <3>1, <3>2
  <2>5. a[1] = n /\ b[1] = w
    BY <2>1, <2>2, <2>3
  <2> QED BY <2>3, <2>4, <2>5 DEF Leads
<1> QED BY <1>1, <1>2

LEMMA LeadsSame ==
    ASSUME NEW F, NEW G, NEW k \in Nat, \A i \in 1 .. k : F[i] = G[i],
           NEW p, NEW v, NEW n, NEW w
    PROVE  Leads(F, k, p, v, n, w) <=> Leads(G, k, p, v, n, w)
BY DEF Leads

\* The values that stack and position leave to be read, with where they end:
\* the frame on top comes to something that leads to them.
Stands(frames, p, n, w) ==
    \/ frames = <<>> /\ ReadsValue(p, n, w)
    \/ /\ frames # <<>>
       /\ \E q, u : /\ Ends(frames[Len(frames)], p, q, u)
                    /\ Leads(frames, Len(frames) - 1, q, u, n, w)

Frames(frames) ==
    /\ \E S : frames \in Seq(S)
    /\ \A i \in 1 .. Len(frames) : Frame(frames[i])
    /\ \A i \in 1 .. (Len(frames) - 1) : "dict" \in DOMAIN frames[i] => "key" \in DOMAIN frames[i]

\* The next byte begins a value: no key, and not the end of a list.
ValueDue(frames, p) ==
    LET f == frames[Len(frames)]
    IN  \/ frames = <<>>
        \/ "key" \in DOMAIN f
        \/ "list" \in DOMAIN f /\ ~(p < Len(data) /\ data[p + 1] = "e")

LEMMA StandsDue ==
    ASSUME data \in Seq(STRING), NEW frames, Frames(frames),
           NEW p \in 0 .. Len(data), ValueDue(frames, p), NEW n, NEW w
    PROVE  Stands(frames, p, n, w) <=>
              \E r, v : ReadsValue(p, r, v) /\ Leads(frames, Len(frames), r, v, n, w)
<1>1. CASE frames = <<>>
  <2>1. Len(frames) = 0
    BY <1>1
  <2>2. \A r, v : Leads(frames, Len(frames), r, v, n, w) <=> n = r /\ w = v
    BY <2>1, LeadsNowhere
  <2>3. Stands(frames, p, n, w) <=> ReadsValue(p, n, w)
    BY <1>1 DEF Stands
  <2> QED BY <2>2, <2>3
<1>2. CASE frames # <<>>
  <2> DEFINE k == Len(frames)
             f == frames[k]
  <2>1. k \in Nat \ {0} /\ k \in 1 .. k
    BY <1>2 DEF Frames
  <2>2. Frame(f)
    BY <2>1 DEF Frames
  <2>3. "key" \in DOMAIN f \/ ("list" \in DOMAIN f /\ ~(p < Len(data) /\ data[p + 1] = "e"))
    BY <1>2 DEF ValueDue
  <2>4. Stands(frames, p, n, w) <=> \E q, u : Ends(f, p, q, u) /\ Leads(frames, k - 1, q, u, n, w)
    BY <1>2 DEF Stands
  <2>5. \A r, v : Leads(frames, k, r, v, n, w) <=>
           \E q, u : Ends(Add(f, v), r, q, u) /\ Leads(frames, k - 1, q, u, n, w)
    <3> HIDE DEF k
    <3> QED BY <2>1, LeadsDown
  <2> HIDE DEF f
  <2>6. \A q, u : Ends(f, p, q, u) <=> \E r, v : ReadsValue(p, r, v) /\ Ends(Add(f, v), r, q, u)
    <3> TAKE q, u
    <3>1. CASE \E d, x : KeyFrame(f, d, x)
      BY <3>1, KeyEnds
    <3>2. CASE \E l : ListFrame(f, l)
      <4>1. ~(p < Len(data) /\ data[p + 1] = "e")
        BY <2>3, <3>2, ListFrameFacts
      <4> QED BY <3>2, <4>1, ListEnds
    <3>3. CASE \E d : DictFrame(f, d)
      BY <2>3, <3>3, DictFrameFacts
    <3> QED BY <2>2, <3>1, <3>2, <3>3 DEF Frame
  <2> HIDE DEF k
  <2>7. SUFFICES Stands(frames, p, n, w) <=> \E r, v : ReadsValue(p, r, v) /\ Leads(frames, k, r, v, n, w)
    BY DEF k
  <2> QED BY <2>4, <2>5, <2>6
<1> QED BY <1>1, <1>2

-----------------------------------------------------------------------------
(* The decoder reads what stands there. *)

LEMMA UntilIsOne ==
    ASSUME NEW p, NEW c, NEW i \in Until(p, c), NEW j \in Until(p, c)
    PROVE  i = j
<1>1. i \in Int /\ j \in Int /\ p <= i /\ p <= j /\ i \in p .. (Len(data) - 1) /\ j \in p .. (Len(data) - 1)
  BY DEF Until
<1>2. data[i + 1] = c /\ data[j + 1] = c
  BY DEF Until
<1>3. (\A h \in p .. (i - 1) : data[h + 1] # c) /\ (\A h \in p .. (j - 1) : data[h + 1] # c)
  BY DEF Until
<1>4. ~(i < j)
  <2> SUFFICES ASSUME i < j PROVE FALSE
    OBVIOUS
  <2>1. i \in p .. (j - 1)
    BY <1>1
  <2> QED BY <1>2, <1>3, <2>1
<1>5. ~(j < i)
  <2> SUFFICES ASSUME j < i PROVE FALSE
    OBVIOUS
  <2>1. j \in p .. (i - 1)
    BY <1>1
  <2> QED BY <1>2, <1>3, <2>1
<1> QED BY <1>1, <1>4, <1>5

LEMMA NumbersAreOne ==
    ASSUME NEW s
    PROVE  /\ \A m, n \in ParseI64(s) : m = n
           /\ \A m, n \in ParseUsize(s) : m = n
           /\ ParseUsize(s) \subseteq 0 .. (USize - 1)
<1>1. \A m, n \in ParseI64(s) : m = n
  BY DEF ParseI64
<1>2. \A m, n \in ParseUsize(s) : m = n
  BY DEF ParseUsize
<1>3. ParseUsize(s) \subseteq 0 .. (USize - 1)
  BY DEF ParseUsize
<1> QED BY <1>1, <1>2, <1>3

Numbers(p) == UNION {ParseI64(Slice(p + 1, i)) \X {i} : i \in Until(p + 1, "e")}
Lengths(p) == UNION {ParseUsize(Slice(p, i)) \X {i + 1} : i \in Until(p, ":")}

LEMMA NumbersFacts ==
    ASSUME NEW p
    PROVE  /\ \A x : x \in Numbers(p) <=>
                 \E i \in Until(p + 1, "e") : \E m \in ParseI64(Slice(p + 1, i)) : x = <<m, i>>
           /\ \A x, y \in Numbers(p) : x = y
<1>1. \A x : x \in Numbers(p) <=>
         \E i \in Until(p + 1, "e") : \E m \in ParseI64(Slice(p + 1, i)) : x = <<m, i>>
  <2> TAKE x
  <2> DEFINE P(i) == ParseI64(Slice(p + 1, i)) \X {i}
  <2>1. x \in Numbers(p) <=> \E i \in Until(p + 1, "e") : x \in P(i)
    BY DEF Numbers
  <2>2. \A i : x \in P(i) <=> \E m \in ParseI64(Slice(p + 1, i)) : x = <<m, i>>
    OBVIOUS
  <2> HIDE DEF P
  <2> QED BY <2>1, <2>2, Zenon
<1>2. ASSUME NEW x \in Numbers(p), NEW y \in Numbers(p) PROVE x = y
  <2>1a. PICK i \in Until(p + 1, "e") : \E m \in ParseI64(Slice(p + 1, i)) : x = <<m, i>>
    BY <1>1
  <2>1. PICK m \in ParseI64(Slice(p + 1, i)) : x = <<m, i>>
    BY <2>1a
  <2>2a. PICK j \in Until(p + 1, "e") : \E n \in ParseI64(Slice(p + 1, j)) : y = <<n, j>>
    BY <1>1
  <2>2. PICK n \in ParseI64(Slice(p + 1, j)) : y = <<n, j>>
    BY <2>2a
  <2>3. i = j
    BY UntilIsOne
  <2>4. m = n
    BY <2>3, NumbersAreOne
  <2> QED BY <2>1, <2>2, <2>3, <2>4
<1> QED BY <1>1, <1>2

LEMMA LengthsFacts ==
    ASSUME data \in Seq(STRING), NEW p \in 0 .. Len(data)
    PROVE  /\ \A x : x \in Lengths(p) <=>
                 \E i \in Until(p, ":") : \E m \in ParseUsize(Slice(p, i)) : x = <<m, i + 1>>
           /\ \A x, y \in Lengths(p) : x = y
           /\ \A x \in Lengths(p) : x = <<x[1], x[2]>> /\ x[1] \in Nat /\ x[2] \in (p + 1) .. Len(data)
<1>1. \A x : x \in Lengths(p) <=>
         \E i \in Until(p, ":") : \E m \in ParseUsize(Slice(p, i)) : x = <<m, i + 1>>
  <2> TAKE x
  <2> DEFINE P(i) == ParseUsize(Slice(p, i)) \X {i + 1}
  <2>1. x \in Lengths(p) <=> \E i \in Until(p, ":") : x \in P(i)
    BY DEF Lengths
  <2>2. \A i : x \in P(i) <=> \E m \in ParseUsize(Slice(p, i)) : x = <<m, i + 1>>
    OBVIOUS
  <2> HIDE DEF P
  <2> QED BY <2>1, <2>2, Zenon
<1>2. ASSUME NEW x \in Lengths(p), NEW y \in Lengths(p) PROVE x = y
  <2>1a. PICK i \in Until(p, ":") : \E m \in ParseUsize(Slice(p, i)) : x = <<m, i + 1>>
    BY <1>1
  <2>1. PICK m \in ParseUsize(Slice(p, i)) : x = <<m, i + 1>>
    BY <2>1a
  <2>2a. PICK j \in Until(p, ":") : \E n \in ParseUsize(Slice(p, j)) : y = <<n, j + 1>>
    BY <1>1
  <2>2. PICK n \in ParseUsize(Slice(p, j)) : y = <<n, j + 1>>
    BY <2>2a
  <2>3. i = j
    BY UntilIsOne
  <2>4. m = n
    BY <2>3, NumbersAreOne
  <2> QED BY <2>1, <2>2, <2>3, <2>4
<1>3. ASSUME NEW x \in Lengths(p)
      PROVE  x = <<x[1], x[2]>> /\ x[1] \in Nat /\ x[2] \in (p + 1) .. Len(data)
  <2>1a. PICK i \in Until(p, ":") : \E m \in ParseUsize(Slice(p, i)) : x = <<m, i + 1>>
    BY <1>1
  <2>1. PICK m \in ParseUsize(Slice(p, i)) : x = <<m, i + 1>>
    BY <2>1a
  <2>2. m \in Nat
    BY NumbersAreOne, WidthAssumption
  <2>3. i \in p .. (Len(data) - 1)
    BY DEF Until
  <2>4. i + 1 \in (p + 1) .. Len(data)
    BY <2>3
  <2> QED BY <2>1, <2>2, <2>4
<1> QED BY <1>1, <1>2, <1>3

LEMMA ReadsByByte ==
    ASSUME data \in Seq(STRING), NEW p \in 0 .. Len(data), NEW n, NEW v
    PROVE  /\ data[p + 1] \in Digit =>
                 (ReadsValue(p, n, v) <=> n \in p .. Len(data) /\ n >= p + 2 /\ AsString(p, n, v))
           /\ data[p + 1] = "i" =>
                 (ReadsValue(p, n, v) <=> n \in p .. Len(data) /\ n >= p + 2 /\ AsInteger(p, n, v))
           /\ data[p + 1] = "l" =>
                 (ReadsValue(p, n, v) <=> n \in p .. Len(data) /\ n >= p + 2 /\ AsList(p, n, v))
           /\ data[p + 1] = "d" =>
                 (ReadsValue(p, n, v) <=> n \in p .. Len(data) /\ n >= p + 2 /\ AsDict(p, n, v))
<1>1. CASE n \in p .. Len(data)
  <2>1. v \in Values(Slice(p, n), FALSE) <=>
          /\ n >= p + 2
          /\ \/ data[p + 1] \in Digit /\ AsString(p, n, v)
             \/ data[p + 1] = "i" /\ AsInteger(p, n, v)
             \/ data[p + 1] = "l" /\ AsList(p, n, v)
             \/ data[p + 1] = "d" /\ AsDict(p, n, v)
    BY <1>1, ValuesAt
  <2>2. ReadsValue(p, n, v) <=> v \in Values(Slice(p, n), FALSE)
    BY <1>1 DEF ReadsValue
  <2> QED BY <1>1, <2>1, <2>2, ByteIs
<1>2. CASE n \notin p .. Len(data)
  BY <1>2 DEF ReadsValue
<1> QED BY <1>1, <1>2

LEMMA IntegerReads ==
    ASSUME data \in Seq(STRING), NEW p \in 0 .. Len(data), p < Len(data), data[p + 1] = "i",
           NEW n, NEW v
    PROVE  ReadsValue(p, n, v) <=> \E x \in Numbers(p) : n = x[2] + 1 /\ v = [int |-> x[1]]
<1>0. Len(data) \in Nat
  OBVIOUS
<1>1. ASSUME ReadsValue(p, n, v)
      PROVE  \E x \in Numbers(p) : n = x[2] + 1 /\ v = [int |-> x[1]]
  <2>1. n \in p .. Len(data) /\ n >= p + 2 /\ AsInteger(p, n, v)
    BY <1>1, ReadsByByte
  <2>2. /\ n >= p + 2 /\ data[n] = "e" /\ \A j \in (p + 1) .. (n - 2) : data[j + 1] # "e"
        /\ \E m \in ParseI64(Slice(p + 1, n - 1)) : v = [int |-> m]
    BY <2>1 DEF AsInteger
  <2> DEFINE i == n - 1
  <2>3. i \in (p + 1) .. (Len(data) - 1) /\ i + 1 = n /\ i - 1 = n - 2
    BY <1>0, <2>1, <2>2
  <2> HIDE DEF i
  <2>4. i \in Until(p + 1, "e")
    BY <2>2, <2>3 DEF Until
  <2>5. PICK m \in ParseI64(Slice(p + 1, i)) : v = [int |-> m]
    BY <2>2 DEF i
  <2>6. <<m, i>> \in Numbers(p)
    BY <2>4, NumbersFacts
  <2> QED BY <2>3, <2>5, <2>6
<1>2. ASSUME NEW x \in Numbers(p), n = x[2] + 1, v = [int |-> x[1]]
      PROVE  ReadsValue(p, n, v)
  <2>1a. PICK i \in Until(p + 1, "e") : \E m \in ParseI64(Slice(p + 1, i)) : x = <<m, i>>
    BY NumbersFacts
  <2>1. PICK m \in ParseI64(Slice(p + 1, i)) : x = <<m, i>>
    BY <2>1a
  <2>2. i \in (p + 1) .. (Len(data) - 1) /\ data[i + 1] = "e"
        /\ \A j \in (p + 1) .. (i - 1) : data[j + 1] # "e"
    BY DEF Until
  <2>3. n = i + 1 /\ v = [int |-> m]
    BY <1>2, <2>1
  <2>4. n \in p .. Len(data) /\ n >= p + 2 /\ n - 2 = i - 1 /\ n - 1 = i
    BY <1>0, <2>2, <2>3
  <2>5. data[n] = "e" /\ \A j \in (p + 1) .. (n - 2) : data[j + 1] # "e"
    BY <2>2, <2>3, <2>4
  <2>6. \E h \in ParseI64(Slice(p + 1, n - 1)) : v = [int |-> h]
    BY <2>1, <2>3, <2>4
  <2>7. AsInteger(p, n, v)
    BY <2>5, <2>6 DEF AsInteger
  <2> QED BY <2>4, <2>7, ReadsByByte
<1> QED BY <1>1, <1>2

LEMMA KeyReads ==
    ASSUME data \in Seq(STRING), NEW p \in 0 .. Len(data), NEW n, NEW k
    PROVE  ReadsKey(p, n, k) <=>
             \E x \in Lengths(p) : n = x[2] + x[1] /\ n <= Len(data) /\ k = Slice(x[2], n)
<1>0. Len(data) \in Nat
  OBVIOUS
<1>1. ASSUME ReadsKey(p, n, k)
      PROVE  \E x \in Lengths(p) : n = x[2] + x[1] /\ n <= Len(data) /\ k = Slice(x[2], n)
  <2>1. n \in p .. Len(data) /\ k \in Texts(Slice(p, n), FALSE)
    BY <1>1 DEF ReadsKey
  <2>2. PICK i \in Until(p, ":") :
          i < n /\ n - (i + 1) \in ParseUsize(Slice(p, i)) /\ k = Slice(i + 1, n)
    BY <2>1, TextsAt
  <2>3. i \in p .. (Len(data) - 1)
    BY DEF Until
  <2> DEFINE m == n - (i + 1)
             j == i + 1
  <2>4. n = j + m /\ n <= Len(data)
    BY <1>0, <2>1, <2>3
  <2>5. <<m, j>> \in Lengths(p)
    BY <2>2, LengthsFacts
  <2>6. k = Slice(j, n)
    BY <2>2
  <2> HIDE DEF m, j
  <2> DEFINE x == <<m, j>>
  <2>7. x \in Lengths(p) /\ x[1] = m /\ x[2] = j
    BY <2>5
  <2> HIDE DEF x
  <2> QED BY <2>4, <2>6, <2>7
<1>2. ASSUME NEW x \in Lengths(p), n = x[2] + x[1], n <= Len(data), k = Slice(x[2], n)
      PROVE  ReadsKey(p, n, k)
  <2>1a. PICK i \in Until(p, ":") : \E m \in ParseUsize(Slice(p, i)) : x = <<m, i + 1>>
    BY LengthsFacts
  <2>1. PICK m \in ParseUsize(Slice(p, i)) : x = <<m, i + 1>>
    BY <2>1a
  <2>2. i \in p .. (Len(data) - 1)
    BY DEF Until
  <2>3. m \in Nat
    BY NumbersAreOne, WidthAssumption
  <2>4. n = i + 1 + m /\ k = Slice(i + 1, n)
    BY <1>2, <2>1
  <2>5. n \in p .. Len(data) /\ i < n /\ n - (i + 1) = m
    BY <1>0, <1>2, <2>2, <2>3, <2>4
  <2>6. k \in Texts(Slice(p, n), FALSE)
    BY <2>1, <2>4, <2>5, TextsAt
  <2> QED BY <2>5, <2>6 DEF ReadsKey
<1> QED BY <1>1, <1>2

LEMMA StringReads ==
    ASSUME data \in Seq(STRING), NEW p \in 0 .. Len(data), p < Len(data), data[p + 1] \in Digit,
           NEW n, NEW v
    PROVE  ReadsValue(p, n, v) <=> \E t : ReadsKey(p, n, t) /\ v = [str |-> t]
<1>1. ASSUME ReadsValue(p, n, v) PROVE \E t : ReadsKey(p, n, t) /\ v = [str |-> t]
  <2>1. n \in p .. Len(data) /\ AsString(p, n, v)
    BY <1>1, ReadsByByte
  <2> QED BY <2>1 DEF ReadsKey, AsString
<1>2. ASSUME NEW t, ReadsKey(p, n, t), v = [str |-> t] PROVE ReadsValue(p, n, v)
  <2>1. n \in p .. Len(data) /\ t \in Texts(Slice(p, n), FALSE)
    BY <1>2 DEF ReadsKey
  <2>2. n >= p + 2
    <3>1. n \in (p + 2) .. Len(data)
      BY <1>2, NoKeyAt
    <3> QED BY <3>1
  <2>3. AsString(p, n, v)
    BY <1>2, <2>1 DEF AsString
  <2> QED BY <2>1, <2>2, <2>3, ReadsByByte
<1> QED BY <1>1, <1>2

LEMMA LoopReads ==
    ASSUME data \in Seq(STRING), NEW p \in 0 .. Len(data), p < Len(data), data[p + 1] \in {"l", "d"},
           NEW n, NEW v
    PROVE  ReadsValue(p, n, v) <=>
             Ends(IF data[p + 1] = "l" THEN [list |-> <<>>] ELSE [dict |-> <<>>], p + 1, n, v)
<1>0. Len(data) \in Nat
  OBVIOUS
<1> DEFINE r == p + 1
<1>1. r \in 0 .. Len(data)
  BY <1>0
<1>2. ASSUME n \in p .. Len(data), n >= p + 2
      PROVE  n \in (r + 1) .. Len(data) /\ n \in p .. Len(data)
  BY <1>0, <1>2
<1>3. ASSUME n \in (r + 1) .. Len(data) PROVE n \in p .. Len(data) /\ n >= p + 2
  BY <1>0, <1>3
<1>5. CASE data[p + 1] = "l"
  <2>1. ReadsValue(p, n, v) <=> n \in p .. Len(data) /\ n >= p + 2 /\ AsList(p, n, v)
    BY <1>5, ReadsByByte
  <2>2. ReadsValue(p, n, v) <=> \E l : ReadsList(r, n, l) /\ v = [list |-> l]
    <3> QED BY <1>2, <1>3, <2>1 DEF ReadsList, AsList, r
  <2>3. Ends([list |-> <<>>], r, n, v) <=> \E l : ReadsList(r, n, l) /\ v = [list |-> l]
    <3> HIDE DEF r
    <3> QED BY <1>1, OpenedEnds
  <2> QED BY <1>5, <2>2, <2>3
<1>6. CASE data[p + 1] = "d"
  <2>1. ReadsValue(p, n, v) <=> n \in p .. Len(data) /\ n >= p + 2 /\ AsDict(p, n, v)
    BY <1>6, ReadsByByte
  <2>2. ReadsValue(p, n, v) <=> \E l : ReadsDict(r, n, l) /\ v = [dict |-> l]
    <3> QED BY <1>2, <1>3, <2>1 DEF ReadsDict, AsDict, r
  <2>3. Ends([dict |-> <<>>], r, n, v) <=> \E l : ReadsDict(r, n, l) /\ v = [dict |-> l]
    <3> HIDE DEF r
    <3> QED BY <1>1, OpenedEnds
  <2> QED BY <1>6, <2>2, <2>3
<1> QED BY <1>5, <1>6

-----------------------------------------------------------------------------
(* Every step of the decoder leaves the readings that there were.           *)

\* What the decoder can still come to: the values and where they end.
Remains(how, frames, p, x, n, w) ==
    \/ how = "running" /\ Stands(frames, p, n, w)
    \/ how = "ok" /\ n = p /\ w = x

LastReplaced(F, G, x) ==
    /\ Len(G) = Len(F) /\ G # <<>> /\ G[Len(F)] = x
    /\ \A i \in 1 .. (Len(F) - 1) : G[i] = F[i]

LEMMA ReplacedFrames ==
    ASSUME NEW F, Frames(F), F # <<>>, NEW x, Frame(x)
    PROVE  /\ Frames([F EXCEPT ![Len(F)] = x])
           /\ LastReplaced(F, [F EXCEPT ![Len(F)] = x], x)
<1> DEFINE G == [F EXCEPT ![Len(F)] = x]
           k == Len(F)
<1>1. PICK S : F \in Seq(S)
  BY DEF Frames
<1>2. k \in Nat \ {0} /\ DOMAIN F = 1 .. k
  BY <1>1
<1>2a. F \in [1 .. k -> S]
  BY <1>1
<1>3. /\ G \in [1 .. k -> S \cup {x}] /\ G[k] = x
      /\ \A i \in 1 .. (k - 1) : G[i] = F[i]
  <2>1. G = [F EXCEPT ![k] = x]
    OBVIOUS
  <2> HIDE DEF G, k
  <2> QED BY <1>2, <1>2a, <2>1
<1> HIDE DEF G, k
<1>4. G \in Seq(S \cup {x}) /\ Len(G) = k
  BY <1>2, <1>3
<1>5. G # <<>>
  BY <1>2, <1>4
<1>6. \A i \in 1 .. k : i = k \/ i \in 1 .. (k - 1)
  BY <1>2
<1>7. \A i \in 1 .. k : Frame(G[i])
  <2>1. \A i \in 1 .. k : Frame(F[i])
    BY DEF Frames, k
  <2>2. \A i \in 1 .. (k - 1) : i \in 1 .. k
    BY <1>2
  <2> QED BY <1>3, <1>6, <2>1, <2>2
<1>8. \A i \in 1 .. (k - 1) : "dict" \in DOMAIN G[i] => "key" \in DOMAIN G[i]
  BY <1>3 DEF Frames, k
<1>9. Frames(G)
  BY <1>4, <1>7, <1>8 DEF Frames
<1>10. LastReplaced(F, G, x)
  BY <1>3, <1>4, <1>5 DEF LastReplaced, k
<1> QED BY <1>9, <1>10 DEF G

LEMMA ReplacedStands ==
    ASSUME NEW F, Frames(F), F # <<>>, NEW G, NEW x, LastReplaced(F, G, x), NEW p, NEW n, NEW w
    PROVE  Stands(G, p, n, w) <=>
              \E q, u : Ends(x, p, q, u) /\ Leads(F, Len(F) - 1, q, u, n, w)
<1> DEFINE k == Len(F)
<1>1. k \in Nat \ {0} /\ k - 1 \in Nat
  BY DEF Frames
<1>2. Len(G) = k /\ G # <<>> /\ G[k] = x /\ \A i \in 1 .. (k - 1) : G[i] = F[i]
  BY DEF LastReplaced
<1>3. Stands(G, p, n, w) <=> \E q, u : Ends(x, p, q, u) /\ Leads(G, k - 1, q, u, n, w)
  BY <1>2 DEF Stands
<1> HIDE DEF k
<1>4. \A q, u : Leads(G, k - 1, q, u, n, w) <=> Leads(F, k - 1, q, u, n, w)
  BY <1>1, <1>2, LeadsSame
<1> QED BY <1>3, <1>4 DEF k

\* A value that is returned leads to what remains.
LEMMA ReturnRemains ==
    ASSUME NEW F, Frames(F), NEW r, NEW v, decoded = "running", Return(F, v),
           F # <<>> /\ "dict" \in DOMAIN F[Len(F)] => "key" \in DOMAIN F[Len(F)]
    PROVE  /\ Frames(stack')
           /\ \A n, w : Leads(F, Len(F), r, v, n, w) <=> Remains(decoded', stack', r, value', n, w)
<1>1. CASE F = <<>>
  <2>1. stack' = <<>> /\ value' = v /\ decoded' = "ok"
    BY <1>1 DEF Return
  <2>2. Frames(stack')
    <3>1. <<>> \in Seq({}) /\ Len(<<>>) = 0
      OBVIOUS
    <3> QED BY <2>1, <3>1 DEF Frames
  <2>3. Len(F) = 0
    BY <1>1
  <2>4. \A n, w : Leads(F, Len(F), r, v, n, w) <=> n = r /\ w = v
    BY <2>3, LeadsNowhere
  <2> QED BY <2>1, <2>2, <2>4 DEF Remains
<1>2. CASE F # <<>>
  <2> DEFINE k == Len(F)
             x == Add(F[k], v)
             G == [F EXCEPT ![k] = x]
  <2>1. stack' = G /\ decoded' = "running" /\ value' = value
    <3>1. PICK S : F \in Seq(S)
      BY DEF Frames
    <3>2. stack' = [F EXCEPT ![Len(F)] = Add(@, v)]
      BY <1>2 DEF Return
    <3>3. stack' = G
      BY <3>2
    <3> QED BY <1>2, <3>3 DEF Return
  <2>2. k \in Nat \ {0} /\ k \in 1 .. k
    BY <1>2 DEF Frames
  <2>3. Frame(x)
    <3> DEFINE f == F[k]
    <3>1. Frame(f) /\ ("dict" \in DOMAIN f => "key" \in DOMAIN f)
      BY <1>2, <2>2 DEF Frames
    <3> HIDE DEF f, k
    <3>2. CASE \E l : ListFrame(f, l)
      <4>1. \E l : ListFrame(Add(f, v), l)
        BY <3>2, ListFrameFacts
      <4> QED BY <4>1 DEF Frame, f
    <3>3. CASE \E d : DictFrame(f, d)
      BY <3>1, <3>3, DictFrameFacts
    <3>4. CASE \E d, y : KeyFrame(f, d, y)
      <4>1. \E d : DictFrame(Add(f, v), d)
        BY <3>4, KeyFrameFacts
      <4> QED BY <4>1 DEF Frame, f
    <3> QED BY <3>1, <3>2, <3>3, <3>4 DEF Frame
  <2> HIDE DEF x
  <2>4. Frames(G) /\ LastReplaced(F, G, x)
    BY <1>2, <2>3, ReplacedFrames
  <2> HIDE DEF G
  <2>5. G # <<>>
    BY <2>4 DEF LastReplaced
  <2>6. \A n, w : Stands(G, r, n, w) <=> \E q, u : Ends(x, r, q, u) /\ Leads(F, k - 1, q, u, n, w)
    BY <1>2, <2>4, ReplacedStands
  <2>7. \A n, w : Leads(F, k, r, v, n, w) <=> \E q, u : Ends(x, r, q, u) /\ Leads(F, k - 1, q, u, n, w)
    <3> HIDE DEF k
    <3> QED BY <2>2, LeadsDown DEF x
  <2>8. \A n, w : Remains(decoded', stack', r, value', n, w) <=> Stands(G, r, n, w)
    BY <2>1 DEF Remains
  <2>9. \A n, w : Leads(F, k, r, v, n, w) <=> Remains(decoded', stack', r, value', n, w)
    BY <2>6, <2>7, <2>8
  <2> QED BY <2>1, <2>4, <2>9
<1> QED BY <1>1, <1>2

DecoderOK ==
    /\ data \in Seq(STRING) /\ position \in 0 .. Len(data) /\ Frames(stack)
    /\ Len(data) < USize

\* What a step must do.
Keeps ==
    /\ data' = data
    /\ decoded' \in {"running", "ok"} => Frames(stack')
    /\ \A n, w : Stands(stack, position, n, w) <=> Remains(decoded', stack', position', value', n, w)

LEMMA DueHere ==
    ASSUME DecoderOK, ~KeyDue, ~(InLoop /\ Ahead /\ Byte = "e")
    PROVE  /\ ValueDue(stack, position)
           /\ stack # <<>> /\ "dict" \in DOMAIN stack[Len(stack)] => "key" \in DOMAIN stack[Len(stack)]
           /\ \A n, w : Stands(stack, position, n, w) <=>
                 \E r, v : ReadsValue(position, r, v) /\ Leads(stack, Len(stack), r, v, n, w)
<1>1. CASE stack = <<>>
  BY <1>1, StandsDue DEF ValueDue, DecoderOK
<1>2. CASE stack # <<>>
  <2> DEFINE f == stack[Len(stack)]
  <2>1. Frame(f)
    <3>1. Len(stack) \in 1 .. Len(stack)
      BY <1>2 DEF DecoderOK, Frames
    <3> QED BY <3>1 DEF DecoderOK, Frames
  <2>2. "key" \in DOMAIN f \/ "dict" \notin DOMAIN f
    BY <1>2 DEF KeyDue, InLoop, Top
  <2> HIDE DEF f
  <2>3. "key" \in DOMAIN f \/ ("list" \in DOMAIN f /\ "key" \notin DOMAIN f)
    BY <2>1, <2>2, ListFrameFacts, DictFrameFacts, KeyFrameFacts DEF Frame
  <2>4. "key" \in DOMAIN f \/ ("list" \in DOMAIN f /\ ~(Ahead /\ Byte = "e"))
    BY <1>2, <2>3 DEF InLoop, Top, f
  <2>5. ValueDue(stack, position)
    BY <2>4 DEF ValueDue, Ahead, Byte, f
  <2> QED BY <2>2, <2>5, StandsDue DEF DecoderOK, f
<1> QED BY <1>1, <1>2

LEMMA ReadOne ==
    ASSUME DecoderOK, decoded = "running", ~KeyDue, ~(InLoop /\ Ahead /\ Byte = "e"),
           NEW r, NEW x, \A n, v : ReadsValue(position, n, v) <=> n = r /\ v = x,
           Return(stack, x), position' = r, data' = data
    PROVE  Keeps
<1>1. \A n, w : Stands(stack, position, n, w) <=>
                   \E m, v : ReadsValue(position, m, v) /\ Leads(stack, Len(stack), m, v, n, w)
  BY DueHere
<1>2. \A n, w : Stands(stack, position, n, w) <=> Leads(stack, Len(stack), r, x, n, w)
  BY <1>1
<1>3. /\ Frames(stack')
      /\ \A n, w : Leads(stack, Len(stack), r, x, n, w) <=> Remains(decoded', stack', r, value', n, w)
  <2>1. stack # <<>> /\ "dict" \in DOMAIN stack[Len(stack)] => "key" \in DOMAIN stack[Len(stack)]
    BY DueHere
  <2>2. Frames(stack)
    BY DEF DecoderOK
  <2> QED BY <2>1, <2>2, ReturnRemains
<1> QED BY <1>2, <1>3 DEF Keeps

LEMMA ReadNone ==
    ASSUME DecoderOK, ~KeyDue, ~(InLoop /\ Ahead /\ Byte = "e"),
           \A n, v : ~ReadsValue(position, n, v),
           decoded' \in {"error", "panic"}, data' = data
    PROVE  Keeps
<1>1. \A n, w : ~Stands(stack, position, n, w)
  BY DueHere
<1>2. \A n, w : ~Remains(decoded', stack', position', value', n, w)
  BY DEF Remains
<1> QED BY <1>1, <1>2 DEF Keeps

LEMMA IntegerKeeps ==
    ASSUME DecoderOK, decoded = "running", DecodeInteger
    PROVE  Keeps
<1> DEFINE p == position
<1>1. ~KeyDue /\ Ahead /\ Byte = "i" /\ ~(InLoop /\ Ahead /\ Byte = "e")
  BY DEF DecodeInteger
<1>2. data \in Seq(STRING) /\ p \in 0 .. Len(data) /\ p < Len(data) /\ data[p + 1] = "i"
  BY <1>1 DEF DecoderOK, Ahead, Byte
<1>3. \/ Numbers(p) = {} /\ Stop("error")
      \/ \E x \in Numbers(p) : /\ position' = x[2] + 1
                               /\ Return(stack, [int |-> x[1]])
                               /\ UNCHANGED data
  BY DEF DecodeInteger, Numbers
<1>4. \A n, v : ReadsValue(p, n, v) <=> \E x \in Numbers(p) : n = x[2] + 1 /\ v = [int |-> x[1]]
  <2> HIDE DEF p
  <2> QED BY <1>2, IntegerReads
<1>5. CASE Numbers(p) = {} /\ Stop("error")
  <2>1. \A n, v : ~ReadsValue(position, n, v)
    BY <1>4, <1>5
  <2>2. decoded' = "error" /\ data' = data
    BY <1>5 DEF Stop
  <2> QED BY <1>1, <2>1, <2>2, ReadNone
<1>6. CASE \E x \in Numbers(p) : /\ position' = x[2] + 1
                                 /\ Return(stack, [int |-> x[1]])
                                 /\ UNCHANGED data
  <2>1. PICK x \in Numbers(p) : /\ position' = x[2] + 1
                                /\ Return(stack, [int |-> x[1]])
                                /\ UNCHANGED data
    BY <1>6
  <2>2. \A y \in Numbers(p) : y = x
    BY NumbersFacts
  <2> DEFINE r == x[2] + 1
             y == [int |-> x[1]]
  <2>3. position' = r /\ Return(stack, y) /\ data' = data
    BY <2>1
  <2>4. \A n, v : ReadsValue(position, n, v) <=> n = r /\ v = y
    BY <1>4, <2>2
  <2> HIDE DEF r, y
  <2> QED BY <1>1, <2>3, <2>4, ReadOne
<1> QED BY <1>3, <1>5, <1>6

\* A key is read: the frame on top waits for its value.
LEMMA KeyStands ==
    ASSUME DecoderOK, KeyDue, ~(Ahead /\ Byte = "e")
    PROVE  /\ DictFrame(Top, Top.dict) /\ stack # <<>> /\ Frames(stack)
           /\ \A n, w : Stands(stack, position, n, w) <=>
                 \E r, k : /\ ReadsKey(position, r, k)
                           /\ \E q, u : /\ Ends(Waiting(Top.dict, k), r, q, u)
                                        /\ Leads(stack, Len(stack) - 1, q, u, n, w)
<1> DEFINE p == position
           h == Len(stack)
           f == stack[h]
           d == f.dict
<1>1. stack # <<>> /\ "key" \notin DOMAIN f /\ "dict" \in DOMAIN f
  BY DEF KeyDue, InLoop, Top
<1>2. data \in Seq(STRING) /\ p \in 0 .. Len(data) /\ ~(p < Len(data) /\ data[p + 1] = "e")
  BY DEF DecoderOK, Ahead, Byte
<1>3. Frames(stack) /\ h \in 1 .. h
  BY <1>1 DEF DecoderOK, Frames
<1>4. Frame(f)
  BY <1>3 DEF Frames
<1>5. DictFrame(f, d)
  <2> HIDE DEF f
  <2>1. PICK e : DictFrame(f, e)
    BY <1>1, <1>4, ListFrameFacts, KeyFrameFacts DEF Frame
  <2>2. e = f.dict
    BY <2>1, DictFrameFacts
  <2> QED BY <2>1, <2>2
<1>6. \A n, w : Stands(stack, p, n, w) <=> \E q, u : Ends(f, p, q, u) /\ Leads(stack, h - 1, q, u, n, w)
  BY <1>1 DEF Stands
<1>7. \A q, u : Ends(f, p, q, u) <=>
                  \E r, k : ReadsKey(p, r, k) /\ Ends(Waiting(d, k), r, q, u)
  <2> HIDE DEF d, f, p
  <2> QED BY <1>2, <1>5, DictEnds
<1>8. \A n, w : Stands(stack, p, n, w) <=>
                 \E r, k : /\ ReadsKey(p, r, k)
                           /\ \E q, u : /\ Ends(Waiting(d, k), r, q, u)
                                        /\ Leads(stack, h - 1, q, u, n, w)
  <2> HIDE DEF d, f, p, h
  <2> QED BY <1>6, <1>7
<1> QED BY <1>1, <1>3, <1>5, <1>8 DEF Top

\* The key at hand.
KeyTaken(x) == stack' = [stack EXCEPT ![Len(stack)] = Waiting(Top.dict, x)]

LEMMA KeyOne ==
    ASSUME DecoderOK, decoded = "running", KeyDue, ~(Ahead /\ Byte = "e"), data' = data,
           NEW r, NEW x, \A n, k : ReadsKey(position, n, k) <=> n = r /\ k = x,
           KeyTaken(x),
           position' = r, value' = value, decoded' = decoded
    PROVE  Keeps
<1> DEFINE d == Top.dict
           g == Waiting(d, x)
           G == [stack EXCEPT ![Len(stack)] = g]
<1>1. DictFrame(Top, d) /\ stack # <<>> /\ Frames(stack)
  BY KeyStands
<1>2. stack' = G
  BY DEF KeyTaken
<1>3. Frame(g)
  <2>1. IsFunction(d)
    BY <1>1 DEF DictFrame
  <2>2. KeyFrame(g, d, x)
    BY <2>1 DEF KeyFrame
  <2> HIDE DEF g, d
  <2> QED BY <2>2 DEF Frame
<1>4. \A n, w : Stands(stack, position, n, w) <=>
                  \E q, u : Ends(g, r, q, u) /\ Leads(stack, Len(stack) - 1, q, u, n, w)
  BY KeyStands
<1> HIDE DEF g
<1>5. Frames(G) /\ LastReplaced(stack, G, g)
  BY <1>1, <1>3, ReplacedFrames
<1> HIDE DEF G
<1>6. \A n, w : Stands(G, r, n, w) <=>
                  \E q, u : Ends(g, r, q, u) /\ Leads(stack, Len(stack) - 1, q, u, n, w)
  BY <1>1, <1>5, ReplacedStands
<1>7. \A n, w : Stands(stack, position, n, w) <=> Stands(stack', r, n, w)
  BY <1>2, <1>4, <1>6
<1>8. \A n, w : Remains(decoded', stack', position', value', n, w) <=> Stands(stack', r, n, w)
  BY DEF Remains
<1> QED BY <1>2, <1>5, <1>7, <1>8 DEF Keeps

LEMMA KeyNone ==
    ASSUME DecoderOK, KeyDue, ~(Ahead /\ Byte = "e"), data' = data,
           \A n, k : ~ReadsKey(position, n, k), decoded' \in {"error", "panic"}
    PROVE  Keeps
<1>1. \A n, w : ~Stands(stack, position, n, w)
  BY KeyStands
<1>2. \A n, w : ~Remains(decoded', stack', position', value', n, w)
  BY DEF Remains
<1> QED BY <1>1, <1>2 DEF Keeps

\* What a text is taken for.
TookText(t) ==
    IF KeyDue
    THEN /\ KeyTaken(t)
         /\ value' = value /\ decoded' = decoded
    ELSE Return(stack, [str |-> t])

LEMMA ByteStringKeeps ==
    ASSUME DecoderOK, decoded = "running", DecodeByteString
    PROVE  Keeps
<1> DEFINE p == position
<1>0. Len(data) \in Nat /\ USize \in Nat /\ Len(data) < USize
  BY WidthAssumption DEF DecoderOK
<1>1. data \in Seq(STRING) /\ p \in 0 .. Len(data) /\ p < Len(data)
  BY DEF DecoderOK, DecodeByteString, Ahead
<1>2. \A n, k : ReadsKey(p, n, k) <=>
        \E x \in Lengths(p) : n = x[2] + x[1] /\ n <= Len(data) /\ k = Slice(x[2], n)
  <2> HIDE DEF p
  <2> QED BY <1>1, KeyReads
<1>3. \A x, y \in Lengths(p) : x = y
  <2> HIDE DEF p
  <2> QED BY <1>1, LengthsFacts
<1>4. \/ (\A n, k : ~ReadsKey(p, n, k)) /\ decoded' \in {"error", "panic"} /\ data' = data
      \/ \E r, t : /\ \A n, k : ReadsKey(p, n, k) <=> n = r /\ k = t
                   /\ position' = r /\ data' = data /\ TookText(t)
  <2>1. \/ Lengths(p) = {} /\ Stop("error")
        \/ \E x \in Lengths(p) :
             LET end == x[2] + x[1]
                 text == Slice(x[2], end)
             IN  \/ end >= USize /\ Stop("panic")
                 \/ end < USize /\ end > Len(data) /\ Stop("error")
                 \/ /\ end < USize /\ end <= Len(data)
                    /\ position' = end
                    /\ TookText(text)
                    /\ UNCHANGED data
    BY DEF DecodeByteString, Lengths, TookText, KeyTaken, Waiting, Top
  <2>2. CASE Lengths(p) = {} /\ Stop("error")
    <3>1. decoded' = "error" /\ data' = data
      BY <2>2 DEF Stop
    <3> QED BY <1>2, <2>2, <3>1
  <2>3. CASE Lengths(p) # {}
    <3>1. PICK x \in Lengths(p) :
             LET end == x[2] + x[1]
                 text == Slice(x[2], end)
             IN  \/ end >= USize /\ Stop("panic")
                 \/ end < USize /\ end > Len(data) /\ Stop("error")
                 \/ /\ end < USize /\ end <= Len(data)
                    /\ position' = end
                    /\ TookText(text)
                    /\ UNCHANGED data
      BY <2>1, <2>3
    <3> DEFINE end == x[2] + x[1]
               text == Slice(x[2], end)
    <3>2. \/ end >= USize /\ Stop("panic")
          \/ end < USize /\ end > Len(data) /\ Stop("error")
          \/ /\ end < USize /\ end <= Len(data)
             /\ position' = end
             /\ TookText(text)
             /\ UNCHANGED data
      BY <3>1
    <3>3. \A n, k : ReadsKey(p, n, k) <=> n = end /\ n <= Len(data) /\ k = Slice(x[2], n)
      <4>1. \A y \in Lengths(p) : y = x
        BY <1>3
      <4> QED BY <1>2, <4>1
    <3>4. end \in Nat
      <4>1. x[1] \in Nat /\ x[2] \in (p + 1) .. Len(data)
        <5> HIDE DEF p
        <5> QED BY <1>1, LengthsFacts
      <4> QED BY <1>1, <4>1
    <3>5. CASE end > Len(data)
      <4>1. \A n, k : ~ReadsKey(p, n, k)
        BY <1>0, <3>3, <3>4, <3>5
      <4>2. decoded' \in {"error", "panic"} /\ data' = data
        <5>1. Stop("panic") \/ Stop("error")
          <6> HIDE DEF end, text
          <6> QED BY <1>0, <3>2, <3>4, <3>5
        <5> QED BY <5>1 DEF Stop
      <4> QED BY <4>1, <4>2
    <3>6. CASE ~(end > Len(data))
      <4>1. \A n, k : ReadsKey(p, n, k) <=> n = end /\ k = text
        <5>1. end <= Len(data)
          BY <1>0, <3>4, <3>6
        <5> QED BY <3>3, <5>1
      <4> HIDE DEF end, text
      <4>2. ~(end >= USize)
        BY <1>0, <3>4, <3>6
      <4> QED BY <3>2, <3>6, <4>1, <4>2
    <3> QED BY <3>5, <3>6
  <2> QED BY <2>1, <2>2, <2>3
<1>5. CASE KeyDue
  <2>1. ~(Ahead /\ Byte = "e")
    BY <1>5 DEF DecodeByteString
  <2>2. CASE (\A n, k : ~ReadsKey(p, n, k)) /\ decoded' \in {"error", "panic"} /\ data' = data
    BY <1>5, <2>1, <2>2, KeyNone
  <2>3. ASSUME NEW r, NEW t, \A n, k : ReadsKey(position, n, k) <=> n = r /\ k = t,
               position' = r, data' = data, TookText(t)
        PROVE  Keeps
    <3>1. KeyTaken(t) /\ value' = value /\ decoded' = decoded
      BY <1>5, <2>3 DEF TookText
    <3>2. DecoderOK /\ decoded = "running" /\ KeyDue /\ data' = data /\ position' = r
      BY <1>5, <2>3
    <3> HIDE DEF p
    <3> QED BY <2>1, <2>3, <3>1, <3>2, KeyOne
  <2> QED BY <1>4, <2>2, <2>3
<1>6. CASE ~KeyDue
  <2>1. Byte \in Digit /\ data[p + 1] \in Digit /\ Byte # "e"
    BY <1>6, ByteIs DEF DecodeByteString, Byte
  <2>2. \A n, v : ReadsValue(p, n, v) <=> \E t : ReadsKey(p, n, t) /\ v = [str |-> t]
    <3> HIDE DEF p
    <3> QED BY <1>1, <2>1, StringReads
  <2>3. CASE (\A n, k : ~ReadsKey(p, n, k)) /\ decoded' \in {"error", "panic"} /\ data' = data
    <3>1. \A n, v : ~ReadsValue(position, n, v)
      BY <2>2, <2>3
    <3> QED BY <1>6, <2>1, <2>3, <3>1, ReadNone
  <2>4. ASSUME NEW r, NEW t, \A n, k : ReadsKey(p, n, k) <=> n = r /\ k = t,
               position' = r, data' = data, TookText(t)
        PROVE  Keeps
    <3> DEFINE y == [str |-> t]
    <3>1. \A n, v : ReadsValue(position, n, v) <=> n = r /\ v = y
      BY <2>2, <2>4
    <3>2. Return(stack, y)
      BY <1>6, <2>4 DEF TookText
    <3> HIDE DEF y
    <3> QED BY <1>6, <2>1, <2>4, <3>1, <3>2, ReadOne
  <2> QED BY <1>4, <2>3, <2>4
<1> QED BY <1>5, <1>6

\* A frame on top of the others, or off them.
LEMMA PushedFrames ==
    ASSUME NEW F, Frames(F), NEW x, Frame(x),
           F # <<>> /\ "dict" \in DOMAIN F[Len(F)] => "key" \in DOMAIN F[Len(F)]
    PROVE  /\ Frames(Append(F, x))
           /\ \A p, n, w : Stands(Append(F, x), p, n, w) <=>
                 \E q, u : Ends(x, p, q, u) /\ Leads(F, Len(F), q, u, n, w)
<1> DEFINE G == Append(F, x)
           k == Len(F)
<1>1. PICK S : F \in Seq(S)
  BY DEF Frames
<1>2. F \in Seq(S \cup {x}) /\ x \in S \cup {x}
  BY <1>1
<1>3. G \in Seq(S \cup {x}) /\ Len(G) = k + 1 /\ G[k + 1] = x /\ \A i \in 1 .. k : G[i] = F[i]
  BY <1>2
<1>4. k \in Nat
  BY <1>1
<1>5. F = <<>> \/ k \in 1 .. k
  BY <1>1
<1>6. \A i \in 1 .. k : Frame(F[i])
  BY DEF Frames
<1>7. \A i \in 1 .. (k - 1) : "dict" \in DOMAIN F[i] => "key" \in DOMAIN F[i]
  BY DEF Frames
<1>8. F # <<>> /\ "dict" \in DOMAIN F[k] => "key" \in DOMAIN F[k]
  OBVIOUS
<1>8a. k \in 1 .. k => F # <<>>
  <2>1. F = <<>> => k = 0
    OBVIOUS
  <2> HIDE DEF k
  <2> QED BY <1>4, <2>1
<1> HIDE DEF G, k
<1>9. \A i \in 1 .. (k + 1) : i = k + 1 \/ i \in 1 .. k
  BY <1>4
<1>10. \A i \in 1 .. k : (i = k /\ k \in 1 .. k) \/ i \in 1 .. (k - 1)
  BY <1>4
<1>11. \A i \in 1 .. Len(G) : Frame(G[i])
  BY <1>3, <1>6, <1>9
<1>12. \A i \in 1 .. (Len(G) - 1) : "dict" \in DOMAIN G[i] => "key" \in DOMAIN G[i]
  <2>1. Len(G) - 1 = k
    BY <1>3, <1>4
  <2> QED BY <1>3, <1>7, <1>8, <1>8a, <1>10, <2>1
<1>13. Frames(G)
  BY <1>3, <1>11, <1>12 DEF Frames
<1>14. G # <<>> /\ Len(G) - 1 = k /\ G[Len(G)] = x
  BY <1>3, <1>4
<1>15. ASSUME NEW p, NEW n, NEW w
       PROVE  Stands(G, p, n, w) <=> \E q, u : Ends(x, p, q, u) /\ Leads(F, k, q, u, n, w)
  <2>1. \A q, u : Leads(G, k, q, u, n, w) <=> Leads(F, k, q, u, n, w)
    BY <1>3, <1>4, LeadsSame
  <2> QED BY <1>14, <2>1 DEF Stands
<1> QED BY <1>13, <1>15 DEF G, k

LEMMA PoppedFrames ==
    ASSUME NEW F, Frames(F), F # <<>>
    PROVE  LET B == SubSeq(F, 1, Len(F) - 1)
           IN  /\ Frames(B) /\ Len(B) = Len(F) - 1
               /\ B # <<>> /\ "dict" \in DOMAIN B[Len(B)] => "key" \in DOMAIN B[Len(B)]
               /\ \A q, u, n, w : Leads(B, Len(B), q, u, n, w) <=> Leads(F, Len(F) - 1, q, u, n, w)
<1> DEFINE B == SubSeq(F, 1, Len(F) - 1)
           k == Len(F) - 1
<1>1. PICK S : F \in Seq(S)
  BY DEF Frames
<1>2. k \in Nat /\ Len(F) = k + 1
  BY <1>1
<1>3. B \in Seq(S) /\ Len(B) = k /\ \A i \in 1 .. k : B[i] = F[i]
  <2>1. B = SubSeq(F, 1, k)
    OBVIOUS
  <2> HIDE DEF B, k
  <2>2. Len(B) = k
    BY <1>1, <1>2, <2>1
  <2>3. \A i \in 1 .. k : B[i] = F[i]
    BY <1>1, <1>2, <2>1
  <2>4. B \in Seq(S)
    BY <1>1, <1>2, <2>1
  <2> QED BY <2>2, <2>3, <2>4
<1>4. \A i \in 1 .. (k + 1) : Frame(F[i])
  BY <1>2 DEF Frames
<1>5. \A i \in 1 .. k : "dict" \in DOMAIN F[i] => "key" \in DOMAIN F[i]
  BY DEF Frames
<1> HIDE DEF B, k
<1>6. B = <<>> \/ k \in 1 .. k
  BY <1>3
<1>7. \A i \in 1 .. k : i \in 1 .. (k + 1)
  BY <1>2
<1>8. \A i \in 1 .. (k - 1) : i \in 1 .. k
  BY <1>2
<1>9. Frames(B)
  BY <1>3, <1>4, <1>5, <1>7, <1>8 DEF Frames
<1>10. B # <<>> /\ "dict" \in DOMAIN B[Len(B)] => "key" \in DOMAIN B[Len(B)]
  BY <1>3, <1>5, <1>6
<1>11. \A q, u, n, w : Leads(B, k, q, u, n, w) <=> Leads(F, k, q, u, n, w)
  BY <1>2, <1>3, LeadsSame
<1> QED BY <1>3, <1>9, <1>10, <1>11 DEF B, k

LEMMA OpenLoopKeeps ==
    ASSUME DecoderOK, decoded = "running", OpenLoop
    PROVE  Keeps
<1> DEFINE p == position
           x == IF data[p + 1] = "l" THEN [list |-> <<>>] ELSE [dict |-> <<>>]
<1>1. data \in Seq(STRING) /\ p \in 0 .. Len(data) /\ p < Len(data) /\ data[p + 1] \in {"l", "d"}
  BY DEF DecoderOK, OpenLoop, Ahead, Byte
<1>2. ~KeyDue /\ ~(InLoop /\ Ahead /\ Byte = "e") /\ data' = data /\ value' = value
  BY DEF OpenLoop
<1>3. stack' = Append(stack, x) /\ position' = p + 1 /\ decoded' = "running"
  BY DEF OpenLoop, Byte
<1>4. /\ stack # <<>> /\ "dict" \in DOMAIN stack[Len(stack)] => "key" \in DOMAIN stack[Len(stack)]
      /\ \A n, w : Stands(stack, position, n, w) <=>
            \E r, v : ReadsValue(position, r, v) /\ Leads(stack, Len(stack), r, v, n, w)
  BY <1>2, DueHere
<1>5. Frame(x)
  <2>1. 0 \in 0 .. Len(data)
    BY <1>1
  <2>2. ListFrame([list |-> <<>>], <<>>) /\ DictFrame([dict |-> <<>>], <<>>)
    BY <1>1, <2>1, OpenedEnds
  <2> QED BY <2>2 DEF Frame
<1>6. \A r, v : ReadsValue(p, r, v) <=> Ends(x, p + 1, r, v)
  <2> HIDE DEF p
  <2> QED BY <1>1, LoopReads
<1> HIDE DEF x
<1>7. /\ Frames(Append(stack, x))
      /\ \A m, n, w : Stands(Append(stack, x), m, n, w) <=>
            \E q, u : Ends(x, m, q, u) /\ Leads(stack, Len(stack), q, u, n, w)
  BY <1>4, <1>5, PushedFrames DEF DecoderOK
<1> DEFINE G == Append(stack, x)
<1>8. Frames(G) /\ stack' = G
  BY <1>3, <1>7
<1>9. \A n, w : Stands(G, p + 1, n, w) <=> \E q, u : Ends(x, p + 1, q, u) /\ Leads(stack, Len(stack), q, u, n, w)
  BY <1>7
<1> HIDE DEF G
<1>10. \A n, w : Stands(stack, position, n, w) <=> Stands(G, p + 1, n, w)
  BY <1>4, <1>6, <1>9
<1>11. \A n, w : Remains(decoded', stack', position', value', n, w) <=> Stands(G, p + 1, n, w)
  BY <1>3, <1>8 DEF Remains
<1> QED BY <1>2, <1>8, <1>10, <1>11 DEF Keeps

LEMMA CloseLoopKeeps ==
    ASSUME DecoderOK, decoded = "running", CloseLoop
    PROVE  Keeps
<1> DEFINE p == position
           F == stack
           f == F[Len(F)]
           k == Len(F) - 1
           B == SubSeq(F, 1, Len(F) - 1)
<1>1. data \in Seq(STRING) /\ p \in 0 .. Len(data) /\ p < Len(data) /\ data[p + 1] = "e"
  BY DEF DecoderOK, CloseLoop, Ahead, Byte
<1>2. F # <<>> /\ "key" \notin DOMAIN f /\ Frames(F)
  BY DEF CloseLoop, InLoop, Top, DecoderOK
<1>3. position' = p + 1 /\ data' = data /\ Return(B, f)
  BY DEF CloseLoop, Top
<1>4. Frame(f)
  <2>1. Len(F) \in 1 .. Len(F)
    BY <1>2 DEF Frames
  <2> QED BY <1>2, <2>1 DEF Frames
<1>5. /\ Frames(B) /\ Len(B) = k
      /\ B # <<>> /\ "dict" \in DOMAIN B[Len(B)] => "key" \in DOMAIN B[Len(B)]
      /\ \A q, u, n, w : Leads(B, Len(B), q, u, n, w) <=> Leads(F, k, q, u, n, w)
  <2> HIDE DEF F
  <2> QED BY <1>2, PoppedFrames
<1>6. \A n, w : Stands(F, p, n, w) <=> \E q, u : Ends(f, p, q, u) /\ Leads(F, k, q, u, n, w)
  BY <1>2 DEF Stands
<1> HIDE DEF f, B, k
<1>7. (\E l : ListFrame(f, l)) \/ (\E d : DictFrame(f, d))
  BY <1>2, <1>4, KeyFrameFacts DEF Frame
<1>8. \A q, u : Ends(f, p, q, u) <=> q = p + 1 /\ u = f
  <2> HIDE DEF p
  <2> QED BY <1>1, <1>7, ClosedEnds
<1>9. /\ Frames(stack')
      /\ \A n, w : Leads(B, Len(B), p + 1, f, n, w) <=> Remains(decoded', stack', p + 1, value', n, w)
  BY <1>3, <1>5, ReturnRemains
<1>10. \A n, w : Stands(F, p, n, w) <=> Remains(decoded', stack', p + 1, value', n, w)
  BY <1>5, <1>6, <1>8, <1>9
<1> QED BY <1>3, <1>9, <1>10 DEF Keeps

LEMMA NothingKeeps ==
    ASSUME DecoderOK, decoded = "running", DecodeNothing
    PROVE  Keeps
<1>1. data \in Seq(STRING) /\ position \in 0 .. Len(data)
  BY DEF DecoderOK
<1>2. decoded' \in {"error", "panic"} /\ data' = data
  BY DEF DecodeNothing, Stop
<1>3. \/ ~Ahead
      \/ Byte \notin Digit \cup {"i", "l", "d"} /\ ~KeyDue /\ ~(InLoop /\ Byte = "e")
  BY DEF DecodeNothing
<1>4. ~(Ahead /\ Byte = "e" /\ InLoop)
  BY <1>3
<1>5. CASE KeyDue
  <2>1. ~Ahead
    BY <1>3, <1>5
  <2>2. \A n, k : ~ReadsKey(position, n, k)
    BY <1>1, <2>1, NoKeyAt DEF Ahead
  <2> QED BY <1>2, <1>5, <2>1, <2>2, KeyNone
<1>6. CASE ~KeyDue
  <2>1. \A n, v : ~ReadsValue(position, n, v)
    BY <1>1, <1>3, NothingAt DEF Ahead, Byte
  <2> QED BY <1>2, <1>4, <1>6, <2>1, ReadNone
<1> QED BY <1>5, <1>6

\* A step of the decoder leaves what its bytes can still stand for: it neither
\* loses a reading nor takes one that is not there.
LEMMA DecodeStepKeeps ==
    ASSUME DecoderOK, DecodeStep, ~OverflowStack
    PROVE  Keeps
BY IntegerKeeps, ByteStringKeeps, OpenLoopKeeps, CloseLoopKeeps, NothingKeeps DEF DecodeStep

-----------------------------------------------------------------------------
(* The decoder stays in the bounds of its bytes. *)

\* DecoderInBounds, and that there are sequences to be in the bounds of.
DecoderInv ==
    /\ data \in Seq(STRING)
    /\ \E S : stack \in Seq(S)
    /\ DecoderInBounds

LEMMA ReplaceLast ==
    ASSUME NEW S, NEW s \in Seq(S), s # <<>>, NEW x
    PROVE  LET t == [s EXCEPT ![Len(s)] = x]
           IN  t \in Seq(S \cup {x}) /\ Len(t) = Len(s)
<1> DEFINE t == [s EXCEPT ![Len(s)] = x]
<1>1. t \in [1 .. Len(s) -> S \cup {x}]
  OBVIOUS
<1>2. Len(s) \in Nat
  OBVIOUS
<1> HIDE DEF t
<1>3. t \in Seq(S \cup {x}) /\ Len(t) = Len(s)
  BY <1>1, <1>2
<1> QED BY <1>3 DEF t

LEMMA FrontIsShorter ==
    ASSUME NEW S, NEW s \in Seq(S), s # <<>>
    PROVE  /\ SubSeq(s, 1, Len(s) - 1) \in Seq(S)
           /\ Len(SubSeq(s, 1, Len(s) - 1)) = Len(s) - 1
<1> DEFINE n == Len(s) - 1
<1>1. n \in Nat /\ \A i \in 1 .. n : s[i] \in S
  OBVIOUS
<1> HIDE DEF n
<1>2. /\ SubSeq(s, 1, n) \in Seq(S)
      /\ Len(SubSeq(s, 1, n)) = IF 1 <= n THEN n - 1 + 1 ELSE 0
  BY <1>1, SubSeqProperties
<1>3. SubSeq(s, 1, n) \in Seq(S) /\ Len(SubSeq(s, 1, n)) = n
  BY <1>1, <1>2
<1> QED BY <1>3 DEF n

\* What is returned to a loop leaves as many frames; to the caller, none.
LEMMA ReturnFrames ==
    ASSUME NEW S, NEW frames \in Seq(S), NEW v, Return(frames, v)
    PROVE  (\E T : stack' \in Seq(T)) /\ Len(stack') = Len(frames)
<1>1. CASE frames = <<>>
  <2>1. stack' = <<>>
    BY <1>1 DEF Return
  <2>2. stack' \in Seq({}) /\ Len(stack') = 0 /\ Len(frames) = 0
    BY <1>1, <2>1
  <2> QED BY <2>2
<1>2. CASE frames # <<>>
  <2>1. stack' = [frames EXCEPT ![Len(frames)] = Add(@, v)]
    BY <1>2 DEF Return
  <2>2. PICK x : stack' = [frames EXCEPT ![Len(frames)] = x]
    BY <2>1
  <2>3. stack' \in Seq(S \cup {x}) /\ Len(stack') = Len(frames)
    BY <1>2, <2>2, ReplaceLast
  <2> QED BY <2>3
<1> QED BY <1>1, <1>2

LEMMA StopInv ==
    ASSUME DecoderInv, NEW how, how # "running", Stop(how)
    PROVE  DecoderInv' /\ decoded' # "running"
BY DEF DecoderInv, DecoderInBounds, Stop

LEMMA IntegerInv ==
    ASSUME DecoderInv, DecodeInteger
    PROVE  DecoderInv' /\ (position' > position \/ decoded' # "running")
<1> DEFINE numbers == UNION {ParseI64(Slice(position + 1, i)) \X {i} :
                                i \in Until(position + 1, "e")}
<1>1. CASE Stop("error")
  BY <1>1, StopInv
<1>2. CASE \E number \in numbers :
              /\ position' = number[2] + 1
              /\ Return(stack, [int |-> number[1]])
              /\ UNCHANGED data
  <2>1. PICK number \in numbers :
              /\ position' = number[2] + 1
              /\ Return(stack, [int |-> number[1]])
              /\ data' = data
    BY <1>2
  <2>2. PICK i \in Until(position + 1, "e") : number[2] = i
    BY <2>1
  <2>3. i \in Int /\ position + 1 <= i /\ i <= Len(data) - 1
    BY <2>2 DEF Until, DecoderInv, DecoderInBounds
  <2>4. (\E T : stack' \in Seq(T)) /\ Len(stack') = Len(stack)
    BY <2>1, ReturnFrames DEF DecoderInv
  <2>5. position \in Nat /\ Len(data) \in Nat /\ Len(stack) \in Nat /\ Len(stack) <= position
    BY DEF DecoderInv, DecoderInBounds
  <2>6. position' \in 0 .. Len(data) /\ position' > position
    BY <2>1, <2>2, <2>3, <2>5
  <2>7. Len(stack') <= position'
    BY <2>4, <2>5, <2>6
  <2> QED BY <2>1, <2>4, <2>6, <2>7 DEF DecoderInv, DecoderInBounds
<1> QED BY <1>1, <1>2 DEF DecodeInteger

LEMMA ByteStringInv ==
    ASSUME DecoderInv, DecodeByteString
    PROVE  DecoderInv' /\ (position' > position \/ decoded' # "running")
<1> DEFINE lengths == UNION {ParseUsize(Slice(position, i)) \X {i + 1} :
                                i \in Until(position, ":")}
<1>1. CASE Stop("error") \/ Stop("panic")
  BY <1>1, StopInv
<1>2. CASE \E length \in lengths :
              LET start == length[2]
                  end   == start + length[1]
                  text  == Slice(start, end)
              IN  /\ end < USize /\ end <= Len(data)
                  /\ position' = end
                  /\ IF KeyDue
                     THEN /\ stack' = [stack EXCEPT ![Len(stack)] =
                                          [dict |-> @.dict, key |-> text]]
                          /\ UNCHANGED <<value, decoded>>
                     ELSE Return(stack, [str |-> text])
                  /\ UNCHANGED data
  <2>1. PICK length \in lengths :
              /\ length[2] + length[1] <= Len(data)
              /\ position' = length[2] + length[1]
              /\ data' = data
              /\ \/ /\ KeyDue
                    /\ \E x : stack' = [stack EXCEPT ![Len(stack)] = x]
                 \/ \E x : Return(stack, x)
    BY <1>2
  <2>2. PICK i \in Until(position, ":") :
              length[2] = i + 1 /\ length[1] \in ParseUsize(Slice(position, i))
    BY <2>1
  <2>3. i \in Int /\ position <= i
    BY <2>2 DEF Until, DecoderInv, DecoderInBounds
  <2>4. length[1] \in Nat
    BY <2>2, WidthAssumption DEF ParseUsize
  <2>5. (\E T : stack' \in Seq(T)) /\ Len(stack') = Len(stack)
    <3>1. CASE KeyDue /\ \E x : stack' = [stack EXCEPT ![Len(stack)] = x]
      <4>1. stack # <<>>
        BY <3>1 DEF KeyDue, InLoop
      <4>2. PICK x : stack' = [stack EXCEPT ![Len(stack)] = x]
        BY <3>1
      <4>3. PICK S : stack \in Seq(S)
        BY DEF DecoderInv
      <4> QED BY <4>1, <4>2, <4>3, ReplaceLast
    <3>2. CASE \E x : Return(stack, x)
      BY <3>2, ReturnFrames DEF DecoderInv
    <3> QED BY <2>1, <3>1, <3>2
  <2>6. position \in Nat /\ Len(data) \in Nat /\ Len(stack) \in Nat /\ Len(stack) <= position
    BY DEF DecoderInv, DecoderInBounds
  <2>7. position' \in 0 .. Len(data) /\ position' > position
    BY <2>1, <2>2, <2>3, <2>4, <2>6
  <2>8. Len(stack') <= position'
    BY <2>5, <2>6, <2>7
  <2> QED BY <2>1, <2>5, <2>7, <2>8 DEF DecoderInv, DecoderInBounds
<1> QED BY <1>1, <1>2 DEF DecodeByteString

LEMMA LoopInv ==
    ASSUME DecoderInv, OpenLoop \/ CloseLoop
    PROVE  DecoderInv' /\ position' > position
<1>1. /\ position' = position + 1 /\ data' = data /\ position < Len(data)
  BY DEF OpenLoop, CloseLoop, Ahead
<1>2. PICK S : stack \in Seq(S)
  BY DEF DecoderInv
<1>3. (\E T : stack' \in Seq(T)) /\ Len(stack') <= Len(stack) + 1
  <2>1. CASE OpenLoop
    <3>1. PICK x : stack' = Append(stack, x)
      BY <2>1 DEF OpenLoop
    <3>2. stack \in Seq(S \cup {x})
      BY <1>2
    <3> QED BY <3>1, <3>2
  <2>2. CASE CloseLoop
    <3>1. stack # <<>>
      BY <2>2 DEF CloseLoop, InLoop
    <3>2. PICK v : Return(SubSeq(stack, 1, Len(stack) - 1), v)
      BY <2>2 DEF CloseLoop
    <3>3. /\ SubSeq(stack, 1, Len(stack) - 1) \in Seq(S)
          /\ Len(SubSeq(stack, 1, Len(stack) - 1)) = Len(stack) - 1
      BY <1>2, <3>1, FrontIsShorter
    <3>4. (\E T : stack' \in Seq(T)) /\ Len(stack') = Len(stack) - 1
      BY <3>2, <3>3, ReturnFrames
    <3>5. Len(stack) \in Nat
      BY <1>2
    <3> QED BY <3>4, <3>5
  <2> QED BY <2>1, <2>2
<1>4. position \in Nat /\ Len(data) \in Nat /\ Len(stack) \in Nat /\ Len(stack) <= position
  BY DEF DecoderInv, DecoderInBounds
<1>5. Len(stack') \in Nat
  BY <1>3
<1>6. Len(stack') <= position'
  BY <1>1, <1>3, <1>4, <1>5
<1>7. position' \in 0 .. Len(data) /\ position' > position
  BY <1>1, <1>4
<1> QED BY <1>1, <1>3, <1>6, <1>7 DEF DecoderInv, DecoderInBounds

LEMMA DecodeStepInv ==
    ASSUME DecoderInv, DecodeStep
    PROVE  DecoderInv' /\ (position' > position \/ decoded' # "running")
<1>1. CASE DecodeNothing
  BY <1>1, StopInv DEF DecodeNothing
<1>2. CASE OpenLoop \/ CloseLoop
  BY <1>2, LoopInv
<1>3. CASE OverflowStack
  BY <1>3, StopInv DEF OverflowStack
<1> QED BY <1>1, <1>2, <1>3, IntegerInv, ByteStringInv DEF DecodeStep

-----------------------------------------------------------------------------
(* From the first byte to the value. *)

\* The readings of the bytes are those that remain to the decoder, until it stops
\* for want of stack.
Faithful ==
    decoded \notin {"no", "overflow"} =>
        /\ Len(data) < USize
        /\ decoded = "running" => Frames(stack)
        /\ \A n, w : ReadsValue(0, n, w) <=> Remains(decoded, stack, position, value, n, w)

LEMMA SameBytes ==
    ASSUME data' = data, NEW n, NEW w
    PROVE  /\ ReadsValue(0, n, w)' <=> ReadsValue(0, n, w)
           /\ Remains(decoded, stack, position, value, n, w)' <=>
                 Remains(decoded', stack', position', value', n, w)
<1>1. ReadsValue(0, n, w)' <=> ReadsValue(0, n, w)
  BY DEF ReadsValue, Slice
<1>2. Remains(decoded, stack, position, value, n, w)' <=>
         Remains(decoded', stack', position', value', n, w)
  BY DEF Remains, Stands, Leads, Ends, ReadsValue, ReadsList, ReadsDict, Slice, Add
<1> QED BY <1>1, <1>2

\* Before the first step the bytes are all there is to read.
LEMMA FaithfulStarts ==
    ASSUME decoded' = "running", stack' = <<>>, position' = 0, Len(data') < USize
    PROVE  Faithful'
<1>1. Frames(stack)'
  <2>1. <<>> \in Seq({}) /\ Len(<<>>) = 0
    OBVIOUS
  <2> QED BY <2>1 DEF Frames
<1>2. ASSUME NEW n, NEW w
      PROVE  ReadsValue(0, n, w)' <=> Remains(decoded, stack, position, value, n, w)'
  BY DEF Remains, Stands, ReadsValue, Slice
<1> QED BY <1>1, <1>2 DEF Faithful

LEMMA FaithfulStep ==
    ASSUME DecoderInv, Faithful, DecodeStep
    PROVE  Faithful'
<1>1. decoded = "running" /\ Len(data) < USize
  BY DEF DecodeStep, Faithful
<1>2. DecoderOK
  BY <1>1 DEF DecoderInv, DecoderInBounds, Faithful, DecoderOK
<1>0. CASE OverflowStack
  BY <1>0 DEF OverflowStack, Stop, Faithful
<1> SUFFICES ASSUME ~OverflowStack PROVE Faithful'
  BY <1>0
<1>3. Keeps
  BY <1>2, DecodeStepKeeps
<1>4. \A n, w : ReadsValue(0, n, w) <=> Stands(stack, position, n, w)
  BY <1>1 DEF Faithful, Remains
<1>5. ASSUME NEW n, NEW w
      PROVE  ReadsValue(0, n, w)' <=> Remains(decoded, stack, position, value, n, w)'
  BY <1>3, <1>4, SameBytes DEF Keeps
<1>6. Len(data)' < USize /\ (decoded' = "running" => Frames(stack)')
  <2>1. Frames(stack') => Frames(stack)'
    BY DEF Frames, Frame, ListFrame, DictFrame, KeyFrame, Waiting, IsFunction
  <2> QED BY <1>1, <1>3, <2>1 DEF Keeps
<1> QED BY <1>5, <1>6 DEF Faithful

\* What has been read to the end is the one value that the bytes begin with.
LEMMA FaithfulEnds ==
    ASSUME DecoderInv, Faithful
    PROVE  /\ decoded = "ok" =>
                 /\ Values(Slice(0, position), FALSE) = {value}
                 /\ \A n \in 0 .. Len(data) : n # position => Values(Slice(0, n), FALSE) = {}
           /\ decoded \in {"error", "panic"} =>
                 \A n \in 0 .. Len(data) : Values(Slice(0, n), FALSE) = {}
<1>1. \A n \in 0 .. Len(data) : \A w : w \in Values(Slice(0, n), FALSE) <=> ReadsValue(0, n, w)
  BY DEF ReadsValue
<1>2. position \in 0 .. Len(data)
  BY DEF DecoderInv, DecoderInBounds
<1>3. CASE decoded = "ok"
  <2>1. \A n, w : ReadsValue(0, n, w) <=> n = position /\ w = value
    BY <1>3 DEF Faithful, Remains
  <2> QED BY <1>1, <1>2, <1>3, <2>1
<1>4. CASE decoded \in {"error", "panic"}
  <2>1. \A n, w : ~ReadsValue(0, n, w)
    BY <1>4 DEF Faithful, Remains
  <2> QED BY <1>1, <1>4, <2>1
<1> QED BY <1>3, <1>4

LEMMA DecoderSame ==
    ASSUME DecoderInv, Faithful, UNCHANGED decoderVars
    PROVE  DecoderInv' /\ Faithful'
<1>1. /\ data' = data /\ position' = position /\ stack' = stack /\ decoded' = decoded
      /\ value' = value
  BY DEF decoderVars
<1>2. DecoderInv'
  BY <1>1 DEF DecoderInv, DecoderInBounds
<1>3. ASSUME NEW n, NEW w
      PROVE  /\ ReadsValue(0, n, w)' <=> ReadsValue(0, n, w)
             /\ Remains(decoded, stack, position, value, n, w)' <=>
                   Remains(decoded, stack, position, value, n, w)
  BY <1>1, SameBytes
<1>4. Frames(stack) => Frames(stack)'
  BY <1>1 DEF Frames, Frame, ListFrame, DictFrame, KeyFrame, Waiting, IsFunction
<1> QED BY <1>1, <1>2, <1>3, <1>4 DEF Faithful

-----------------------------------------------------------------------------
(* What values are made of. *)

Proper(v) ==
    /\ "int" \in DOMAIN v => v.int \in -I64 .. (I64 - 1)
    /\ "list" \in DOMAIN v => \E S : v.list \in Seq(S) /\ \A x \in S : IsPart(x)
    /\ "dict" \in DOMAIN v => \A k \in DOMAIN v.dict : IsPart(v.dict[k])

LEMMA DictParts ==
    ASSUME data \in Seq(STRING)
    PROVE  \A p \in 0 .. Len(data) : \A n, d : ReadsDict(p, n, d) => \A k \in DOMAIN d : IsPart(d[k])
<1> DEFINE Bad(k) == \E p \in 0 .. Len(data) : \E n, d :
                        ReadsDict(p, n, d) /\ n - p = k /\ ~ \A x \in DOMAIN d : IsPart(d[x])
           T == {k \in Nat : Bad(k)}
<1>0. Len(data) \in Nat
  OBVIOUS
<1>1. SUFFICES ASSUME T # {} PROVE FALSE
  <2> SUFFICES ASSUME T = {}, NEW p \in 0 .. Len(data), NEW n, NEW d, ReadsDict(p, n, d)
               PROVE  \A x \in DOMAIN d : IsPart(d[x])
    OBVIOUS
  <2>1. n \in (p + 1) .. Len(data)
    BY DEF ReadsDict
  <2>2. n - p \in Nat
    BY <1>0, <2>1
  <2>3. ~Bad(n - p)
    BY <2>2
  <2> QED BY <2>3
<1>2. PICK h \in T : \A j \in T : h <= j
  BY <1>1, LeastNat
<1> HIDE DEF T
<1>3. PICK p, n, d : /\ p \in 0 .. Len(data) /\ ReadsDict(p, n, d) /\ n - p = h
                     /\ ~ \A x \in DOMAIN d : IsPart(d[x])
  BY <1>2 DEF T
<1>4. d # <<>>
  BY <1>3
<1>5. PICK q, k, r, v, e : /\ ReadsKey(p, q, k) /\ ReadsValue(q, r, v)
                           /\ ReadsDict(r, n, e) /\ d = Under(e, k, v)
  <2>1. p \in 0 .. Len(data) /\ ReadsDict(p, n, d)
    BY <1>3
  <2>2. ReadsDict(p, n, d) <=>
             \/ p < Len(data) /\ data[p + 1] = "e" /\ n = p + 1 /\ d = <<>>
             \/ \E q, k, r, v, e : /\ ReadsKey(p, q, k) /\ ReadsValue(q, r, v)
                                   /\ ReadsDict(r, n, e) /\ d = Under(e, k, v)
    BY <2>1, DictUnfolds
  <2> QED BY <1>4, <2>1, <2>2, Zenon
<1>6. q \in (p + 2) .. Len(data) /\ r \in (q + 2) .. Len(data) /\ n \in (r + 1) .. Len(data)
  <2>1. p \in 0 .. Len(data)
    BY <1>3
  <2>2. q \in (p + 2) .. Len(data)
    BY <1>5, <2>1, NoKeyAt
  <2>3. q \in 0 .. Len(data)
    BY <1>0, <2>1, <2>2
  <2>4. r \in (q + 2) .. Len(data)
    BY <1>5, <2>3, NothingAt
  <2> QED BY <1>5, <2>2, <2>4 DEF ReadsDict
<1>7. \A x \in DOMAIN e : IsPart(e[x])
  <2>1. n - r \in Nat /\ n - r < h /\ r \in 0 .. Len(data) /\ h \in Nat
    BY <1>0, <1>3, <1>6
  <2>2. n - r \notin T
    BY <1>2, <2>1
  <2>3. ~Bad(n - r)
    BY <2>1, <2>2 DEF T
  <2> QED BY <1>5, <2>1, <2>3
<1>8. IsPart(v)
  <2>1. q \in 0 .. Len(data)
    BY <1>0, <1>3, <1>6
  <2> QED BY <1>5, <2>1 DEF IsPart
<1>9. \A x \in DOMAIN d : d[x] = v \/ (x \in DOMAIN e /\ d[x] = e[x])
  BY <1>5 DEF Under
<1> QED BY <1>3, <1>7, <1>8, <1>9

LEMMA PartsAreProper ==
    ASSUME data \in Seq(STRING), NEW v, IsPart(v)
    PROVE  Proper(v)
<1>0. Len(data) \in Nat
  OBVIOUS
<1>1. PICK p \in 0 .. Len(data) : \E n : ReadsValue(p, n, v)
  BY DEF IsPart
<1>2. PICK n : ReadsValue(p, n, v)
  BY <1>1
<1>3. n \in (p + 2) .. Len(data) /\ p < Len(data) /\ data[p + 1] \in Digit \cup {"i", "l", "d"}
  BY <1>2, NothingAt
<1>4. CASE data[p + 1] \in Digit
  <2>1. AsString(p, n, v)
    BY <1>2, <1>4, ReadsByByte
  <2> QED BY <2>1 DEF AsString, Proper
<1>5. CASE data[p + 1] = "i"
  <2>1. AsInteger(p, n, v)
    BY <1>2, <1>5, ReadsByByte
  <2>2. PICK m \in ParseI64(Slice(p + 1, n - 1)) : v = [int |-> m]
    BY <2>1 DEF AsInteger
  <2>3. m \in -I64 .. (I64 - 1)
    BY <2>2 DEF ParseI64
  <2>4. v = [int |-> m]
    BY <2>2
  <2> QED BY <2>3, <2>4 DEF Proper
<1>6. CASE data[p + 1] \in {"l", "d"}
  <2> DEFINE q == p + 1
  <2>1. Ends(IF data[p + 1] = "l" THEN [list |-> <<>>] ELSE [dict |-> <<>>], q, n, v)
    BY <1>2, <1>3, <1>6, LoopReads
  <2>2. q \in 0 .. Len(data)
    BY <1>0, <1>3
  <2> HIDE DEF q
  <2>3. \/ \E l : ReadsList(q, n, l) /\ v = [list |-> l]
        \/ \E d : ReadsDict(q, n, d) /\ v = [dict |-> d]
    BY <1>6, <2>1, <2>2, OpenedEnds
  <2>4. ASSUME NEW l, ReadsList(q, n, l), v = [list |-> l] PROVE Proper(v)
    <3>1. \E S : l \in Seq(S) /\ \A x \in S : IsPart(x)
      BY <2>2, <2>4, ListIsSequence
    <3>2. "int" \notin DOMAIN v /\ "dict" \notin DOMAIN v /\ v.list = l
      BY <2>4
    <3> QED BY <3>1, <3>2 DEF Proper
  <2>5. ASSUME NEW d, ReadsDict(q, n, d), v = [dict |-> d] PROVE Proper(v)
    <3>1. \A k \in DOMAIN d : IsPart(d[k])
      BY <2>2, <2>5, DictParts
    <3>2. "int" \notin DOMAIN v /\ "list" \notin DOMAIN v /\ v.dict = d
      BY <2>5
    <3> QED BY <3>1, <3>2 DEF Proper
  <2> QED BY <2>3, <2>4, <2>5
<1> QED BY <1>3, <1>4, <1>5, <1>6

\* The value that was decoded is one of them.
LEMMA ValueIsPart ==
    ASSUME DecoderInv, Faithful, decoded = "ok"
    PROVE  IsPart(value)
<1>1. ReadsValue(0, position, value)
  BY DEF Faithful, Remains
<1>2. 0 \in 0 .. Len(data)
  BY DEF DecoderInv
<1> QED BY <1>1, <1>2 DEF IsPart

-----------------------------------------------------------------------------
(* Numerals. *)

NumeralAt(f, m) == (IF m < 10 THEN <<>> ELSE f[m \div 10]) \o <<Digits[(m % 10) + 1]>>
NumeralsTo(f, n) == f = [m \in 0 .. n |-> NumeralAt(f, m)]

LEMMA Tenth ==
    ASSUME NEW m \in Nat
    PROVE  /\ m \div 10 \in Nat /\ m % 10 \in 0 .. 9 /\ m = 10 * (m \div 10) + (m % 10)
           /\ m >= 10 => m \div 10 < m /\ m \div 10 >= 1
<1>1. m % 10 \in 0 .. 9
  OBVIOUS
<1>2. m \div 10 \in Int
  OBVIOUS
<1>3. m = 10 * (m \div 10) + (m % 10)
  OBVIOUS
<1> DEFINE q == m \div 10
           r == m % 10
<1> HIDE DEF q, r
<1>4. q \in Int /\ r \in 0 .. 9 /\ m = 10 * q + r
  BY <1>1, <1>2, <1>3 DEF q, r
<1>5. q \in Nat /\ (m >= 10 => q < m /\ q >= 1)
  BY <1>4
<1> QED BY <1>4, <1>5 DEF q, r

LEMMA TenTimes ==
    ASSUME NEW a \in Nat, NEW c \in 0 .. 9, NEW m, m = 10 * a + c
    PROVE  m \in Nat /\ m \div 10 = a /\ m % 10 = c
<1>1. m \in Nat
  OBVIOUS
<1>2. m \div 10 \in Nat /\ m % 10 \in 0 .. 9 /\ m = 10 * (m \div 10) + (m % 10)
  BY <1>1, Tenth
<1> DEFINE q == m \div 10
           r == m % 10
<1> HIDE DEF q, r
<1>3. q \in Nat /\ r \in 0 .. 9 /\ 10 * q + r = 10 * a + c
  BY <1>2 DEF q, r
<1>4. q = a /\ r = c
  BY <1>3
<1> QED BY <1>1, <1>4 DEF q, r

LEMMA NumeralsAgree ==
    ASSUME NEW a \in Nat, NEW b \in Nat, NEW f, NEW g, NumeralsTo(f, a), NumeralsTo(g, b)
    PROVE  \A m \in (0 .. a) \cap (0 .. b) : f[m] = g[m]
<1> DEFINE T == {m \in (0 .. a) \cap (0 .. b) : f[m] # g[m]}
<1> SUFFICES ASSUME T # {} PROVE FALSE
  OBVIOUS
<1>0. T \in SUBSET Nat
  OBVIOUS
<1>1. PICK m \in T : \A k \in T : m <= k
  BY <1>0, LeastNat
<1>2. m \in 0 .. a /\ m \in 0 .. b /\ m \in Nat /\ f[m] # g[m]
  BY <1>1
<1>3. f[m] = NumeralAt(f, m) /\ g[m] = NumeralAt(g, m)
  BY <1>2 DEF NumeralsTo
<1>4. CASE m < 10
  BY <1>2, <1>3, <1>4 DEF NumeralAt
<1>5. CASE m >= 10
  <2> DEFINE k == m \div 10
  <2>1. k \in Nat /\ k < m
    BY <1>2, <1>5, Tenth
  <2> HIDE DEF k
  <2>2. k \in (0 .. a) \cap (0 .. b) /\ k \notin T
    BY <1>1, <1>2, <2>1
  <2>3. f[k] = g[k]
    BY <2>2
  <2> QED BY <1>2, <1>3, <2>3 DEF NumeralAt, k
<1> QED BY <1>2, <1>4, <1>5

LEMMA NumeralsExist == \A n \in Nat : \E f : NumeralsTo(f, n)
<1> DEFINE T == {n \in Nat : ~ \E f : NumeralsTo(f, n)}
<1> SUFFICES ASSUME T # {} PROVE FALSE
  OBVIOUS
<1>1. PICK n \in T : \A m \in T : n <= m
  BY LeastNat
<1>2. CASE n = 0
  <2> DEFINE f == [m \in 0 .. 0 |-> NumeralAt(<<>>, m)]
  <2>1. \A m \in 0 .. 0 : NumeralAt(f, m) = NumeralAt(<<>>, m)
    BY DEF NumeralAt
  <2> HIDE DEF f
  <2>2. f = [m \in 0 .. 0 |-> NumeralAt(f, m)]
    BY <2>1 DEF f
  <2> QED BY <1>1, <1>2, <2>2 DEF NumeralsTo
<1>3. CASE n # 0
  <2>1. n \in Nat /\ n - 1 \in Nat /\ n - 1 \notin T
    BY <1>1, <1>3
  <2>2. PICK f : NumeralsTo(f, n - 1)
    BY <2>1
  <2> DEFINE g == [m \in 0 .. n |-> NumeralAt(f, m)]
  <2>3. \A m \in 0 .. (n - 1) : f[m] = NumeralAt(f, m)
    BY <2>2 DEF NumeralsTo
  <2>4. \A m \in 0 .. n : g[m] = NumeralAt(f, m)
    OBVIOUS
  <2>5. ASSUME NEW m \in 0 .. n PROVE NumeralAt(g, m) = NumeralAt(f, m)
    <3>1. CASE m < 10
      BY <3>1 DEF NumeralAt
    <3>2. CASE m >= 10
      <4> DEFINE k == m \div 10
      <4>1. m \in Nat
        BY <2>1
      <4>2. k \in Nat /\ k < m
        BY <3>2, <4>1, Tenth
      <4> HIDE DEF k
      <4>3. k \in 0 .. (n - 1) /\ k \in 0 .. n
        BY <2>1, <4>1, <4>2
      <4>4. g[k] = f[k]
        BY <2>3, <2>4, <4>3
      <4> HIDE DEF g
      <4> QED BY <3>2, <4>4 DEF NumeralAt, k
    <3>3. m \in Int
      BY <2>1
    <3> QED BY <3>1, <3>2, <3>3
  <2>6. g = [m \in 0 .. n |-> NumeralAt(g, m)]
    BY <2>5
  <2> HIDE DEF g
  <2> QED BY <1>1, <2>6 DEF NumeralsTo
<1> QED BY <1>2, <1>3

LEMMA NumeralUnfolds ==
    ASSUME NEW n \in Nat
    PROVE  Numeral(n) = (IF n < 10 THEN <<>> ELSE Numeral(n \div 10)) \o <<Digits[(n % 10) + 1]>>
<1> DEFINE F(m) == CHOOSE f : NumeralsTo(f, m)
<1>1. \A m \in Nat : NumeralsTo(F(m), m)
  BY NumeralsExist
<1>2. \A m : Numeral(m) = F(m)[m]
  BY DEF Numeral, NumeralsTo, NumeralAt
<1> HIDE DEF F
<1>3. F(n)[n] = NumeralAt(F(n), n)
  BY <1>1 DEF NumeralsTo
<1>4. CASE n < 10
  BY <1>2, <1>3, <1>4 DEF NumeralAt
<1>5. CASE n >= 10
  <2> DEFINE k == n \div 10
  <2>1. k \in Nat /\ k < n
    BY <1>5, Tenth
  <2> HIDE DEF k
  <2>2. k \in (0 .. n) \cap (0 .. k)
    BY <2>1
  <2>3. F(n)[k] = F(k)[k]
    BY <1>1, <2>1, <2>2, NumeralsAgree
  <2> QED BY <1>2, <1>3, <1>5, <2>3 DEF NumeralAt, k
<1> QED BY <1>4, <1>5

\* What the first n digits stand for.
DecimalAt(f, s, n) == IF n = 0 THEN 0 ELSE 10 * f[n - 1] + Worth(s[n])
DecimalsOf(f, s) == f = [n \in 0 .. Len(s) |-> DecimalAt(f, s, n)]

LEMMA DecimalsExist == ASSUME NEW s, Len(s) \in Nat PROVE \E f : DecimalsOf(f, s)
<1> DEFINE To(f, n) == f = [m \in 0 .. n |-> DecimalAt(f, s, m)]
           T == {n \in Nat : ~ \E f : To(f, n)}
<1> SUFFICES ASSUME T # {} PROVE FALSE
  BY DEF DecimalsOf
<1>1. PICK n \in T : \A m \in T : n <= m
  BY LeastNat
<1>2. CASE n = 0
  <2> DEFINE f == [m \in 0 .. 0 |-> 0]
  <2>1. \A m \in 0 .. 0 : DecimalAt(f, s, m) = 0
    BY DEF DecimalAt
  <2> HIDE DEF f
  <2>2. f = [m \in 0 .. 0 |-> DecimalAt(f, s, m)]
    BY <2>1 DEF f
  <2> QED BY <1>1, <1>2, <2>2
<1>3. CASE n # 0
  <2>1. n \in Nat /\ n - 1 \in Nat /\ n - 1 \notin T
    BY <1>1, <1>3
  <2>2. PICK f : To(f, n - 1)
    BY <2>1
  <2> DEFINE g == [m \in 0 .. n |-> DecimalAt(f, s, m)]
  <2>3. \A m \in 0 .. (n - 1) : f[m] = DecimalAt(f, s, m)
    BY <2>2
  <2>4. \A m \in 0 .. n : g[m] = DecimalAt(f, s, m)
    OBVIOUS
  <2> HIDE DEF To
  <2>5. ASSUME NEW m \in 0 .. n PROVE DecimalAt(g, s, m) = DecimalAt(f, s, m)
    <3>1. CASE m = 0
      BY <3>1 DEF DecimalAt
    <3>2. CASE m # 0
      <4>1. m - 1 \in 0 .. (n - 1) /\ m - 1 \in 0 .. n
        BY <2>1, <3>2
      <4>2. g[m - 1] = f[m - 1]
        BY <2>3, <2>4, <4>1
      <4> HIDE DEF g
      <4> QED BY <3>2, <4>2 DEF DecimalAt
    <3> QED BY <3>1, <3>2
  <2>6. g = [m \in 0 .. n |-> DecimalAt(g, s, m)]
    BY <2>5
  <2> HIDE DEF g
  <2> QED BY <1>1, <2>6 DEF To
<1> QED BY <1>2, <1>3

LEMMA DecimalUnfolds ==
    ASSUME NEW s \in Seq(STRING), s # <<>>
    PROVE  Decimal(s) = 10 * Decimal(Cut(s, 1, Len(s) - 1)) + Worth(s[Len(s)])
<1> DEFINE F(t) == CHOOSE f : DecimalsOf(f, t)
           L == Len(s)
           r == Cut(s, 1, L - 1)
<1>1. L \in Nat /\ L # 0
  OBVIOUS
<1>2. r \in Seq(STRING) /\ Len(r) = L - 1 /\ \A i \in 1 .. (L - 1) : r[i] = s[i]
  <2>1. 1 \in 1 .. (L + 1) /\ L - 1 \in (1 - 1) .. L
    BY <1>1
  <2>2. r \in Seq(STRING) /\ Len(r) = (L - 1) - 1 + 1
        /\ \A i \in 1 .. ((L - 1) - 1 + 1) : r[i] = s[1 + i - 1]
    BY <2>1, CutFacts
  <2> HIDE DEF r, L
  <2> QED BY <1>1, <2>2
<1>3. DecimalsOf(F(s), s) /\ DecimalsOf(F(r), r)
  BY <1>1, <1>2, DecimalsExist
<1>4. Decimal(s) = F(s)[L] /\ Decimal(r) = F(r)[Len(r)]
  BY DEF Decimal, DecimalsOf, DecimalAt
<1> HIDE DEF F, r, L
<1>5. \A n \in 0 .. L : F(s)[n] = DecimalAt(F(s), s, n)
  BY <1>3 DEF DecimalsOf, L
<1>6. \A n \in 0 .. (L - 1) : F(r)[n] = DecimalAt(F(r), r, n)
  BY <1>2, <1>3 DEF DecimalsOf
<1>7. \A n \in 0 .. (L - 1) : F(s)[n] = F(r)[n]
  <2> DEFINE T == {n \in 0 .. (L - 1) : F(s)[n] # F(r)[n]}
  <2> SUFFICES ASSUME T # {} PROVE FALSE
    OBVIOUS
  <2>0. T \in SUBSET Nat
    BY <1>1
  <2>1. PICK n \in T : \A m \in T : n <= m
    BY <2>0, LeastNat
  <2>2. n \in 0 .. (L - 1) /\ n \in 0 .. L
    BY <1>1, <2>1
  <2>3. n # 0
    BY <1>5, <1>6, <2>1, <2>2 DEF DecimalAt
  <2>4. n - 1 \in 0 .. (L - 1) /\ n \in 1 .. (L - 1) /\ n - 1 \notin T
    BY <1>1, <2>1, <2>2, <2>3
  <2>5. F(s)[n - 1] = F(r)[n - 1] /\ r[n] = s[n]
    BY <1>2, <2>4
  <2>6. F(s)[n] = F(r)[n]
    BY <1>5, <1>6, <2>2, <2>3, <2>5 DEF DecimalAt
  <2> QED BY <2>1, <2>6
<1>8. L \in 0 .. L /\ L - 1 \in 0 .. (L - 1)
  BY <1>1
<1>9. F(s)[L] = 10 * F(s)[L - 1] + Worth(s[L])
  BY <1>1, <1>5, <1>8 DEF DecimalAt
<1> QED BY <1>2, <1>4, <1>7, <1>8, <1>9 DEF r, L

LEMMA DecimalOfNothing == Decimal(<<>>) = 0
<1>1. PICK f : DecimalsOf(f, <<>>)
  BY DecimalsExist
<1>2. DecimalsOf(CHOOSE g : DecimalsOf(g, <<>>), <<>>)
  BY <1>1
<1>3. Decimal(<<>>) = (CHOOSE g : DecimalsOf(g, <<>>))[Len(<<>>)]
  BY DEF Decimal, DecimalsOf, DecimalAt
<1> DEFINE g == CHOOSE g : DecimalsOf(g, <<>>)
<1> HIDE DEF g
<1>4. g = [n \in 0 .. 0 |-> DecimalAt(g, <<>>, n)]
  BY <1>2 DEF DecimalsOf, g
<1>5. g[0] = 0
  BY <1>4 DEF DecimalAt
<1> QED BY <1>3, <1>5 DEF g

LEMMA WorthFacts ==
    ASSUME NEW c \in Digit
    PROVE  /\ Worth(c) \in 0 .. 9 /\ Digits[Worth(c) + 1] = c
           /\ c # "0" => Worth(c) >= 1
<1> DEFINE i == CHOOSE i \in DOMAIN Digits : Digits[i] = c
<1>1. DOMAIN Digits = 1 .. 10 /\ Digits[1] = "0"
  BY DEF Digits
<1>2. \E j \in DOMAIN Digits : Digits[j] = c
  BY DEF Digit
<1>3. i \in 1 .. 10 /\ Digits[i] = c
  BY <1>1, <1>2
<1>4. Worth(c) = i - 1
  BY DEF Worth
<1> HIDE DEF i
<1>5. Worth(c) + 1 = i /\ Worth(c) \in 0 .. 9
  BY <1>3, <1>4
<1>6. c # "0" => i # 1
  BY <1>1, <1>3
<1> QED BY <1>3, <1>4, <1>5, <1>6

\* A numeral without leading zeros is how its number is written.
Plainly(s) == s \in Seq(STRING) /\ IsNumeral(s) /\ (s[1] = "0" => Len(s) = 1)

LEMMA Halves ==
    ASSUME NEW s \in Seq(STRING), NEW n \in 0 .. Len(s)
    PROVE  /\ Cut(s, 1, n) \in Seq(STRING) /\ Len(Cut(s, 1, n)) = n
           /\ \A i \in 1 .. n : Cut(s, 1, n)[i] = s[i]
           /\ Cut(s, n + 1, Len(s)) \in Seq(STRING) /\ Len(Cut(s, n + 1, Len(s))) = Len(s) - n
           /\ \A i \in 1 .. (Len(s) - n) : Cut(s, n + 1, Len(s))[i] = s[n + i]
           /\ s = Cut(s, 1, n) \o Cut(s, n + 1, Len(s))
<1> DEFINE L == Len(s)
           m == n + 1
           a == Cut(s, 1, n)
           b == Cut(s, m, L)
           t == a \o b
<1>1. L \in Nat /\ n \in Nat /\ n <= L
  OBVIOUS
<1>2. a \in Seq(STRING) /\ Len(a) = n /\ \A i \in 1 .. n : a[i] = s[i]
  <2>1. 1 \in 1 .. (L + 1) /\ n \in (1 - 1) .. L
    BY <1>1
  <2>2. a \in Seq(STRING) /\ Len(a) = n - 1 + 1 /\ \A i \in 1 .. (n - 1 + 1) : a[i] = s[1 + i - 1]
    BY <2>1, CutFacts
  <2> HIDE DEF a, L
  <2>3. n - 1 + 1 = n /\ \A i \in 1 .. n : 1 + i - 1 = i
    BY <1>1
  <2> QED BY <2>2, <2>3
<1>3. b \in Seq(STRING) /\ Len(b) = L - n /\ \A i \in 1 .. (L - n) : b[i] = s[n + i]
  <2>1. m \in 1 .. (L + 1) /\ L \in (m - 1) .. L
    BY <1>1
  <2> HIDE DEF m
  <2>2. b \in Seq(STRING) /\ Len(b) = L - m + 1 /\ \A i \in 1 .. (L - m + 1) : b[i] = s[m + i - 1]
    BY <2>1, CutFacts
  <2> HIDE DEF b, L
  <2>3. L - m + 1 = L - n /\ \A i \in 1 .. (L - n) : m + i - 1 = n + i
    BY <1>1 DEF m
  <2> QED BY <2>2, <2>3
<1>4. t = s
  <2> HIDE DEF a, b
  <2>1. /\ t \in Seq(STRING) /\ Len(t) = n + (L - n)
        /\ \A i \in 1 .. (n + (L - n)) : t[i] = IF i <= n THEN a[i] ELSE b[i - n]
    <3>1. /\ a \o b \in Seq(STRING) /\ Len(a \o b) = Len(a) + Len(b)
          /\ \A i \in 1 .. (Len(a) + Len(b)) : (a \o b)[i] = IF i <= Len(a) THEN a[i] ELSE b[i - Len(a)]
      BY <1>2, <1>3, ConcatProperties
    <3> QED BY <1>2, <1>3, <3>1
  <2> HIDE DEF t, L
  <2>2. n + (L - n) = L
    BY <1>1
  <2>3. ASSUME NEW i \in 1 .. L PROVE t[i] = s[i]
    <3>1. CASE i <= n
      BY <1>1, <1>2, <2>1, <2>2, <3>1
    <3>2. CASE ~(i <= n)
      <4>1. i - n \in 1 .. (L - n) /\ n + (i - n) = i
        BY <1>1, <3>2
      <4> QED BY <1>3, <2>1, <2>2, <3>2, <4>1
    <3> QED BY <3>1, <3>2
  <2> QED BY <2>1, <2>2, <2>3, SeqEqual DEF L
<1> QED BY <1>2, <1>3, <1>4 DEF m

LEMMA OneByte == ASSUME NEW s \in Seq(STRING), Len(s) = 1 PROVE s = <<s[1]>>
<1>1. <<s[1]>> \in Seq(STRING) /\ Len(<<s[1]>>) = 1 /\ \A i \in 1 .. 1 : s[i] = <<s[1]>>[i]
  OBVIOUS
<1> QED BY <1>1, SeqEqual

LEMMA LastByte ==
    ASSUME NEW s \in Seq(STRING), s # <<>>
    PROVE  /\ Cut(s, 1, Len(s) - 1) \in Seq(STRING) /\ Len(Cut(s, 1, Len(s) - 1)) = Len(s) - 1
           /\ \A i \in 1 .. (Len(s) - 1) : Cut(s, 1, Len(s) - 1)[i] = s[i]
           /\ s = Cut(s, 1, Len(s) - 1) \o <<s[Len(s)]>>
<1> DEFINE n == Len(s) - 1
           b == Cut(s, n + 1, Len(s))
<1>1. n \in 0 .. Len(s) /\ Len(s) \in Nat /\ Len(s) - n = 1 /\ n + 1 = Len(s)
  OBVIOUS
<1> HIDE DEF n
<1>2. b \in Seq(STRING) /\ Len(b) = 1 /\ b[1] = s[Len(s)] /\ s = Cut(s, 1, n) \o b
  <2>1. /\ b \in Seq(STRING) /\ Len(b) = Len(s) - n /\ s = Cut(s, 1, n) \o b
        /\ \A i \in 1 .. (Len(s) - n) : b[i] = s[n + i]
    BY <1>1, Halves
  <2> HIDE DEF b
  <2>2. 1 \in 1 .. (Len(s) - n)
    BY <1>1
  <2> QED BY <1>1, <2>1, <2>2
<1>3. b = <<b[1]>>
  BY <1>2, OneByte
<1>4. /\ Cut(s, 1, n) \in Seq(STRING) /\ Len(Cut(s, 1, n)) = n
      /\ \A i \in 1 .. n : Cut(s, 1, n)[i] = s[i]
  BY <1>1, Halves
<1> QED BY <1>2, <1>3, <1>4 DEF n

LEMMA FirstByte ==
    ASSUME NEW s \in Seq(STRING), s # <<>>
    PROVE  /\ Cut(s, 2, Len(s)) \in Seq(STRING) /\ Len(Cut(s, 2, Len(s))) = Len(s) - 1
           /\ \A i \in 1 .. (Len(s) - 1) : Cut(s, 2, Len(s))[i] = s[1 + i]
           /\ s = <<s[1]>> \o Cut(s, 2, Len(s))
<1> DEFINE n == 1
           a == Cut(s, 1, n)
           b == Cut(s, n + 1, Len(s))
<1>1. n \in 0 .. Len(s) /\ n = 1 /\ n + 1 = 2
  OBVIOUS
<1> HIDE DEF n
<1>2. /\ a \in Seq(STRING) /\ Len(a) = n /\ (\A i \in 1 .. n : a[i] = s[i])
      /\ b \in Seq(STRING) /\ Len(b) = Len(s) - n /\ (\A i \in 1 .. (Len(s) - n) : b[i] = s[n + i])
      /\ s = a \o b
  BY <1>1, Halves
<1>3. b = Cut(s, 2, Len(s))
  BY <1>1
<1> HIDE DEF a, b
<1>4. a = <<s[1]>>
  BY <1>1, <1>2, OneByte
<1> QED BY <1>1, <1>2, <1>3, <1>4

LEMMA NumeralBack ==
    \A s : Plainly(s) =>
        /\ Decimal(s) \in Nat /\ Numeral(Decimal(s)) = s
        /\ s[1] # "0" => Decimal(s) >= 1
<1> DEFINE Good(s) == /\ Decimal(s) \in Nat /\ Numeral(Decimal(s)) = s
                      /\ s[1] # "0" => Decimal(s) >= 1
           T == {n \in Nat : \E s : Plainly(s) /\ ~Good(s) /\ Len(s) = n}
<1>1. SUFFICES ASSUME T # {} PROVE FALSE
  <2> SUFFICES ASSUME T = {}, NEW s, Plainly(s) PROVE Good(s)
    OBVIOUS
  <2>1. Len(s) \in Nat
    BY DEF Plainly
  <2> QED BY <2>1
<1>2. PICK n \in T : \A m \in T : n <= m
  BY <1>1, LeastNat
<1>3. PICK s : Plainly(s) /\ ~Good(s) /\ Len(s) = n
  BY <1>2
<1>4. s \in Seq(STRING) /\ s # <<>> /\ n \in Nat /\ n # 0 /\ \A i \in 1 .. n : s[i] \in Digit
  BY <1>3 DEF Plainly, IsNumeral
<1> DEFINE r == Cut(s, 1, n - 1)
           c == s[n]
           w == Worth(c)
           m == Decimal(s)
           a == Decimal(r)
<1>5. /\ r \in Seq(STRING) /\ Len(r) = n - 1 /\ (\A i \in 1 .. (n - 1) : r[i] = s[i])
      /\ s = r \o <<c>>
  BY <1>3, <1>4, LastByte
<1>6. w \in 0 .. 9 /\ Digits[w + 1] = c /\ (c # "0" => w >= 1)
  BY <1>4, WorthFacts
<1>7. m = 10 * a + w
  BY <1>3, <1>4, DecimalUnfolds
<1>8. CASE n = 1
  <2>1. r = <<>>
    BY <1>5, <1>8
  <2>2. a = 0
    BY <2>1, DecimalOfNothing
  <2> HIDE DEF r, w, m, a
  <2>3. m \in Nat /\ m < 10 /\ m = w
    BY <1>6, <1>7, <2>2
  <2>4. m % 10 = w
    BY <1>6, <2>3
  <2>5. Numeral(m) = <<>> \o <<Digits[w + 1]>>
    BY <2>3, <2>4, NumeralUnfolds
  <2>6. Numeral(m) = s
    BY <1>5, <1>6, <2>1, <2>5
  <2> QED BY <1>3, <1>6, <1>8, <2>3, <2>6 DEF m
<1>9. CASE n # 1
  <2>1. s[1] # "0"
    BY <1>3, <1>9 DEF Plainly
  <2>2. r[1] = s[1] /\ r # <<>> /\ n - 1 \in Nat
    BY <1>4, <1>5, <1>9
  <2>3. Plainly(r)
    <3>1. \A i \in DOMAIN r : r[i] \in Digit
      BY <1>4, <1>5
    <3> HIDE DEF r
    <3> QED BY <1>5, <2>1, <2>2, <3>1 DEF Plainly, IsNumeral
  <2>4. n - 1 \notin T
    BY <1>2, <1>4
  <2>5. Good(r)
    BY <1>5, <2>2, <2>3, <2>4
  <2>6. a \in Nat /\ a >= 1 /\ Numeral(a) = r
    BY <2>1, <2>2, <2>5
  <2> HIDE DEF r, w, m, a, T
  <2>7. m \in Nat /\ m \div 10 = a /\ m % 10 = w
    BY <1>6, <1>7, <2>6, TenTimes
  <2>8. m >= 10
    BY <1>6, <1>7, <2>6
  <2>9. Numeral(m) = Numeral(m \div 10) \o <<Digits[(m % 10) + 1]>>
    BY <2>7, <2>8, NumeralUnfolds
  <2>10. Numeral(m) = s
    BY <1>5, <1>6, <2>6, <2>7, <2>9
  <2> QED BY <1>3, <2>7, <2>8, <2>10 DEF m
<1> QED BY <1>8, <1>9

LEMMA SignsAreNoDigits == "-" \notin Digit /\ "+" \notin Digit /\ ":" \notin Digit
BY DEF Digit, Digits

LEMMA LengthWritten ==
    ASSUME NEW s \in Seq(STRING), Canonical(s), NEW n \in ParseUsize(s)
    PROVE  n \in Nat /\ s = Numeral(n)
<1>1. ParseUsize(s) # {}
  OBVIOUS
<1>2. IsNumeral(Unsigned(s, {"+"})) /\ n = Decimal(Unsigned(s, {"+"}))
  BY DEF ParseUsize
<1>3. IsNumeral(Unsigned(s, {"-"})) /\ (Unsigned(s, {"-"})[1] = "0" => s = <<"0">>)
  BY DEF Canonical
<1>4. s # <<>>
  BY <1>3 DEF IsNumeral, Unsigned
<1>5. s[1] \notin {"-", "+"}
  <2>1. CASE s[1] = "-"
    <3>1. Unsigned(s, {"+"}) = s
      BY <2>1 DEF Unsigned
    <3> QED BY <1>2, <1>4, <2>1, <3>1, SignsAreNoDigits DEF IsNumeral
  <2>2. CASE s[1] = "+"
    <3>1. Unsigned(s, {"-"}) = s
      BY <2>2 DEF Unsigned
    <3> QED BY <1>3, <1>4, <2>2, <3>1, SignsAreNoDigits DEF IsNumeral
  <2> QED BY <2>1, <2>2
<1>6. Unsigned(s, {"+"}) = s /\ Unsigned(s, {"-"}) = s
  BY <1>5 DEF Unsigned
<1>7. Plainly(s)
  BY <1>2, <1>3, <1>6 DEF Plainly
<1> QED BY <1>2, <1>6, <1>7, NumeralBack

EncodeNumber(n) == IF n < 0 THEN <<"-">> \o Numeral(-n) ELSE Numeral(n)

LEMMA NumberWritten ==
    ASSUME NEW s \in Seq(STRING), Canonical(s), NEW n \in ParseI64(s)
    PROVE  n \in Int /\ s = EncodeNumber(n)
<1> DEFINE t == Unsigned(s, {"+", "-"})
<1>1. IsNumeral(t) /\ n = IF s[1] = "-" THEN -Decimal(t) ELSE Decimal(t)
  BY DEF ParseI64
<1>2. IsNumeral(Unsigned(s, {"-"})) /\ (Unsigned(s, {"-"})[1] = "0" => s = <<"0">>)
  BY DEF Canonical
<1>3. s # <<>>
  BY <1>2 DEF IsNumeral, Unsigned
<1>4. s[1] # "+"
  <2> SUFFICES ASSUME s[1] = "+" PROVE FALSE
    OBVIOUS
  <2>1. Unsigned(s, {"-"}) = s
    BY DEF Unsigned
  <2> QED BY <1>2, <1>3, <2>1, SignsAreNoDigits DEF IsNumeral
<1>5. CASE s[1] = "-"
  <2>1. t = Tail(s) /\ Unsigned(s, {"-"}) = Tail(s)
    BY <1>3, <1>5 DEF Unsigned
  <2>2. Tail(s) \in Seq(STRING)
    BY <1>3
  <2> HIDE DEF t
  <2>3. t[1] # "0"
    <3>1. s # <<"0">>
      BY <1>5
    <3> QED BY <1>2, <2>1, <3>1
  <2>4. Plainly(t)
    BY <1>1, <2>1, <2>2, <2>3 DEF Plainly
  <2>5. Decimal(t) \in Nat /\ Numeral(Decimal(t)) = t /\ Decimal(t) >= 1
    BY <2>3, <2>4, NumeralBack
  <2>6. n = -Decimal(t)
    BY <1>1, <1>5
  <2>7. n \in Int /\ n < 0 /\ -n = Decimal(t)
    BY <2>5, <2>6
  <2>8. s = <<"-">> \o t
    BY <1>3, <1>5, <2>1
  <2> QED BY <2>5, <2>7, <2>8 DEF EncodeNumber
<1>6. CASE s[1] # "-"
  <2>1. t = s /\ Unsigned(s, {"-"}) = s
    BY <1>4, <1>6 DEF Unsigned
  <2> HIDE DEF t
  <2>2. Plainly(s)
    BY <1>1, <1>2, <2>1 DEF Plainly
  <2>3. Decimal(s) \in Nat /\ Numeral(Decimal(s)) = s /\ n = Decimal(s)
    BY <1>1, <1>6, <2>1, <2>2, NumeralBack
  <2>4. ~(n < 0)
    BY <2>3
  <2> QED BY <2>3, <2>4 DEF EncodeNumber
<1> QED BY <1>5, <1>6

\* A text as it stands in a strict reading is the text as it is written.
LEMMA TextWritten ==
    ASSUME NEW s \in Seq(STRING), NEW k \in Texts(s, TRUE)
    PROVE  k \in Seq(STRING) /\ s = EncodeText(k) /\ Len(k) < USize /\ Len(s) >= 2
<1> DEFINE L == Len(s)
<1>1. PICK i \in 2 .. L : /\ s[i] = ":" /\ (L - i) \in ParseUsize(Cut(s, 1, i - 1))
                          /\ Canonical(Cut(s, 1, i - 1)) /\ k = Cut(s, i + 1, L)
  BY DEF Texts
<1> DEFINE h == Cut(s, 1, i)
           a == Cut(h, 1, i - 1)
<1>2. L \in Nat /\ i \in 0 .. L /\ i \in Nat /\ i - 1 \in 0 .. L /\ i >= 2
  OBVIOUS
<1>3. h \in Seq(STRING) /\ Len(h) = i /\ h[i] = s[i] /\ \A j \in 1 .. i : h[j] = s[j]
  <2>1. h \in Seq(STRING) /\ Len(h) = i /\ \A j \in 1 .. i : h[j] = s[j]
    BY <1>2, Halves
  <2> HIDE DEF h
  <2>2. i \in 1 .. i
    BY <1>2
  <2> QED BY <2>1, <2>2
<1>4. k \in Seq(STRING) /\ Len(k) = L - i /\ s = h \o k
  BY <1>1, <1>2, Halves
<1>5. a \in Seq(STRING) /\ Len(a) = i - 1 /\ h = a \o <<":">> /\ \A j \in 1 .. (i - 1) : a[j] = h[j]
  <2> HIDE DEF h
  <2>1. h # <<>> /\ Len(h) - 1 = i - 1 /\ h[Len(h)] = ":"
    BY <1>1, <1>2, <1>3
  <2>2. /\ Cut(h, 1, Len(h) - 1) \in Seq(STRING) /\ Len(Cut(h, 1, Len(h) - 1)) = Len(h) - 1
        /\ \A j \in 1 .. (Len(h) - 1) : Cut(h, 1, Len(h) - 1)[j] = h[j]
        /\ h = Cut(h, 1, Len(h) - 1) \o <<h[Len(h)]>>
    BY <1>3, <2>1, LastByte
  <2>3. Cut(h, 1, Len(h) - 1) = a
    BY <2>1
  <2> HIDE DEF a
  <2> QED BY <2>1, <2>2, <2>3
<1>6. a = Cut(s, 1, i - 1)
  <2> DEFINE c == Cut(s, 1, i - 1)
             n == i - 1
  <2>1. c \in Seq(STRING) /\ Len(c) = n /\ \A j \in 1 .. n : c[j] = s[j]
    BY <1>2, Halves
  <2>2. \A j \in 1 .. n : j \in 1 .. i
    BY <1>2
  <2> HIDE DEF a, c, h
  <2>3. \A j \in 1 .. n : a[j] = c[j]
    BY <1>3, <1>5, <2>1, <2>2
  <2> QED BY <1>5, <2>1, <2>3, SeqEqual DEF c
<1> HIDE DEF a, h
<1>7. L - i \in Nat /\ a = Numeral(L - i) /\ L - i < USize
  <2>1. a = Numeral(L - i)
    BY <1>1, <1>5, <1>6, LengthWritten
  <2> QED BY <1>1, <1>2, <2>1, WidthAssumption DEF ParseUsize
<1>8. s = (a \o <<":">>) \o k
  BY <1>4, <1>5
<1>9. s = EncodeText(k)
  BY <1>4, <1>7, <1>8 DEF EncodeText
<1>10. Len(k) < USize /\ L >= 2
  BY <1>2, <1>4, <1>7
<1> QED BY <1>4, <1>9, <1>10

-----------------------------------------------------------------------------
(* The order of the keys. *)

LEMMA BelowAsymmetric == \A a, b : ~(Below(a, b) /\ Below(b, a)) /\ ~Below(a, a)
<1> SUFFICES ASSUME NEW a, NEW b, Below(a, b), Below(b, a) PROVE FALSE
  OBVIOUS
<1>1. PICK i, j \in DOMAIN ByteOrder : i < j /\ ByteOrder[i] = a /\ ByteOrder[j] = b
  BY DEF Below
<1>2. PICK m, n \in DOMAIN ByteOrder : m < n /\ ByteOrder[m] = b /\ ByteOrder[n] = a
  BY DEF Below
<1>3. i = n /\ j = m
  BY <1>1, <1>2, OrderAssumption
<1>4. i \in Int /\ j \in Int
  BY OrderAssumption
<1> QED BY <1>1, <1>2, <1>3, <1>4

LEMMA BeforeAsymmetric ==
    ASSUME NEW s \in Seq(STRING), NEW t \in Seq(STRING), Before(s, t), Before(t, s)
    PROVE  FALSE
<1>0. Len(s) \in Nat /\ Len(t) \in Nat
  OBVIOUS
<1>1. PICK m \in 0 .. Len(s) :
        /\ m <= Len(t) /\ \A i \in 1 .. m : s[i] = t[i]
        /\ IF m < Len(s) /\ m < Len(t) THEN Below(s[m + 1], t[m + 1])
           ELSE m = Len(s) /\ m < Len(t)
  BY DEF Before
<1>2. PICK n \in 0 .. Len(t) :
        /\ n <= Len(s) /\ \A i \in 1 .. n : t[i] = s[i]
        /\ IF n < Len(t) /\ n < Len(s) THEN Below(t[n + 1], s[n + 1])
           ELSE n = Len(t) /\ n < Len(s)
  BY DEF Before
<1>3. CASE m = n
  BY <1>0, <1>1, <1>2, <1>3, BelowAsymmetric
<1>4. CASE m < n
  <2>1. m < Len(s) /\ m < Len(t)
    BY <1>0, <1>1, <1>2, <1>4
  <2>2. m + 1 \in 1 .. n
    BY <1>0, <1>4
  <2>3. t[m + 1] = s[m + 1]
    BY <1>2, <2>2
  <2> QED BY <1>1, <2>1, <2>3, BelowAsymmetric
<1>5. CASE n < m
  <2>1. n < Len(s) /\ n < Len(t)
    BY <1>0, <1>1, <1>2, <1>5
  <2>2. n + 1 \in 1 .. m
    BY <1>0, <1>5
  <2>3. t[n + 1] = s[n + 1]
    BY <1>1, <2>2
  <2> QED BY <1>2, <2>1, <2>3, BelowAsymmetric
<1>6. m \in Int /\ n \in Int
  OBVIOUS
<1> QED BY <1>3, <1>4, <1>5, <1>6

\* A dictionary as it is read and written: keys that can be put in order.
Keyed(d) == IsFiniteSet(DOMAIN d) /\ DOMAIN d \subseteq Seq(STRING)

InOrder(keys, d) ==
    /\ keys \in [1 .. Cardinality(DOMAIN d) -> DOMAIN d]
    /\ \A i, j \in DOMAIN keys : i < j => Before(keys[i], keys[j])

LEMMA InOrderOnto ==
    ASSUME NEW d, Keyed(d), NEW K, InOrder(K, d)
    PROVE  /\ \A i, j \in 1 .. Cardinality(DOMAIN d) : K[i] = K[j] => i = j
           /\ \A x \in DOMAIN d : \E i \in 1 .. Cardinality(DOMAIN d) : K[i] = x
<1> DEFINE D == DOMAIN d
           n == Cardinality(D)
<1>0. IsFiniteSet(D) /\ D \subseteq Seq(STRING)
  BY DEF Keyed
<1>1. n \in Nat
  BY <1>0, FS_CardinalityType
<1>2. K \in [1 .. n -> D] /\ \A i, j \in 1 .. n : i < j => Before(K[i], K[j])
  BY DEF InOrder
<1> HIDE DEF D, n
<1>3. ASSUME NEW i \in 1 .. n, NEW j \in 1 .. n, K[i] = K[j] PROVE i = j
  <2>1. K[i] \in Seq(STRING)
    BY <1>0, <1>2
  <2>2. ~Before(K[i], K[i])
    BY <2>1, BeforeAsymmetric
  <2>3. i \in Int /\ j \in Int
    OBVIOUS
  <2>4. ~(i < j) /\ ~(j < i)
    BY <1>2, <1>3, <2>2
  <2> QED BY <2>3, <2>4
<1>4. K \in Injection(1 .. n, D)
  BY <1>2, <1>3 DEF Injection, IsInjective
<1>5. IsFiniteSet(1 .. n) /\ Cardinality(1 .. n) = n
  BY <1>1, FS_Interval
<1>6. K \in Surjection(1 .. n, D)
  BY <1>0, <1>4, <1>5, FS_Injection DEF n
<1>7. \A x \in D : \E i \in 1 .. n : K[i] = x
  BY <1>6 DEF Surjection
<1> QED BY <1>3, <1>7 DEF D, n

\* There is one order that the keys can be in.
LEMMA InOrderIsOne ==
    ASSUME NEW d, Keyed(d), NEW K, NEW M, InOrder(K, d), InOrder(M, d)
    PROVE  K = M
<1> DEFINE D == DOMAIN d
           n == Cardinality(D)
           T == {i \in 1 .. n : K[i] # M[i]}
<1>0. D \subseteq Seq(STRING) /\ n \in Nat
  BY FS_CardinalityType DEF Keyed
<1>1. K \in [1 .. n -> D] /\ M \in [1 .. n -> D]
  BY DEF InOrder
<1>2. /\ \A i, j \in 1 .. n : i < j => Before(K[i], K[j])
      /\ \A i, j \in 1 .. n : i < j => Before(M[i], M[j])
  BY DEF InOrder
<1>3. /\ \A i, j \in 1 .. n : K[i] = K[j] => i = j
      /\ \A i, j \in 1 .. n : M[i] = M[j] => i = j
      /\ \A x \in D : \E i \in 1 .. n : K[i] = x
      /\ \A x \in D : \E i \in 1 .. n : M[i] = x
  BY InOrderOnto
<1> HIDE DEF D, n
<1>4. T = {}
  <2> SUFFICES ASSUME T # {} PROVE FALSE
    OBVIOUS
  <2>1. T \in SUBSET Nat
    BY <1>0
  <2>2. PICK i \in T : \A j \in T : i <= j
    BY <2>1, LeastNat
  <2>3. i \in 1 .. n /\ K[i] # M[i] /\ K[i] \in D /\ M[i] \in D
    BY <1>1, <2>2
  <2>4. PICK j \in 1 .. n : M[j] = K[i]
    BY <1>3, <2>3
  <2>5. PICK k \in 1 .. n : K[k] = M[i]
    BY <1>3, <2>3
  <2>6. i \in Int /\ j \in Int /\ k \in Int
    BY <2>3
  <2>7. ~(j < i)
    <3> SUFFICES ASSUME j < i PROVE FALSE
      OBVIOUS
    <3>1. K[j] = M[j]
      BY <2>2, <2>6
    <3> QED BY <1>3, <2>3, <2>4, <2>6, <3>1
  <2>8. ~(k < i)
    <3> SUFFICES ASSUME k < i PROVE FALSE
      OBVIOUS
    <3>1. K[k] = M[k]
      BY <2>2, <2>6
    <3> QED BY <1>3, <2>3, <2>5, <2>6, <3>1
  <2>9. i < j /\ i < k
    BY <2>3, <2>4, <2>5, <2>6, <2>7, <2>8
  <2>10. Before(M[i], K[i]) /\ Before(K[i], M[i])
    BY <1>2, <2>3, <2>4, <2>5, <2>9
  <2> QED BY <1>0, <2>3, <2>10, BeforeAsymmetric
<1>5. \A i \in 1 .. n : K[i] = M[i]
  BY <1>4
<1>6. K = [i \in 1 .. n |-> K[i]] /\ M = [i \in 1 .. n |-> M[i]]
  BY <1>1
<1>7. [i \in 1 .. n |-> K[i]] = [i \in 1 .. n |-> M[i]]
  BY <1>5
<1> QED BY <1>6, <1>7

LEMMA KeysAre ==
    ASSUME NEW d, Keyed(d), NEW K, InOrder(K, d)
    PROVE  KeysOf(d) = K
<1> DEFINE M == CHOOSE keys : InOrder(keys, d)
<1>1. InOrder(M, d)
  OBVIOUS
<1>2. KeysOf(d) = M
  BY <1>1, InOrderIsOne DEF KeysOf, InOrder
<1> HIDE DEF M
<1> QED BY <1>1, <1>2, InOrderIsOne

\* With a key before the others.
LEMMA KeyInFront ==
    ASSUME NEW e, Keyed(e), NEW M, InOrder(M, e), NEW k \in Seq(STRING), NEW v,
           \A x \in DOMAIN e : Before(k, x)
    PROVE  /\ k \notin DOMAIN e /\ Keyed(Under(e, k, v))
           /\ Cardinality(DOMAIN Under(e, k, v)) = Cardinality(DOMAIN e) + 1
           /\ InOrder([i \in 1 .. (Cardinality(DOMAIN e) + 1) |-> IF i = 1 THEN k ELSE M[i - 1]],
                      Under(e, k, v))
<1> DEFINE D == DOMAIN e
           n == Cardinality(D)
           d == Under(e, k, v)
           K == [i \in 1 .. (n + 1) |-> IF i = 1 THEN k ELSE M[i - 1]]
<1>0. D \subseteq Seq(STRING) /\ IsFiniteSet(D) /\ n \in Nat
  BY FS_CardinalityType DEF Keyed
<1>1. k \notin D
  BY BeforeAsymmetric
<1>2. DOMAIN d = D \cup {k}
  BY DEF Under
<1>3. IsFiniteSet(D \cup {k}) /\ Cardinality(D \cup {k}) = n + 1
  BY <1>0, <1>1, FS_AddElement
<1>4. M \in [1 .. n -> D] /\ \A i, j \in 1 .. n : i < j => Before(M[i], M[j])
  BY DEF InOrder
<1>5. \A x \in D : Before(k, x)
  OBVIOUS
<1> HIDE DEF D, n, d
<1>6. \A i \in 1 .. (n + 1) : i # 1 => i - 1 \in 1 .. n
  BY <1>0
<1>7. K \in [1 .. (n + 1) -> D \cup {k}]
  BY <1>4, <1>6
<1>8. ASSUME NEW i \in 1 .. (n + 1), NEW j \in 1 .. (n + 1), i < j PROVE Before(K[i], K[j])
  <2>1. j # 1 /\ j - 1 \in 1 .. n /\ K[j] = M[j - 1] /\ K[j] \in D
    BY <1>0, <1>4, <1>6, <1>8
  <2>2. CASE i = 1
    BY <1>5, <2>1, <2>2
  <2>3. CASE i # 1
    <3>1. i - 1 \in 1 .. n /\ i - 1 < j - 1 /\ K[i] = M[i - 1]
      BY <1>0, <1>6, <1>8, <2>3
    <3> QED BY <1>4, <2>1, <3>1
  <2> QED BY <2>2, <2>3
<1> HIDE DEF K
<1>9. InOrder(K, d)
  BY <1>2, <1>3, <1>7, <1>8 DEF InOrder
<1>10. Keyed(d)
  BY <1>0, <1>2, <1>3 DEF Keyed
<1> QED BY <1>1, <1>2, <1>3, <1>9, <1>10 DEF D, n, d, K

-----------------------------------------------------------------------------
(* Texts one after the other. *)

JoinedAt(f, texts, m) == IF m = 0 THEN <<>> ELSE f[m - 1] \o texts[m]
JoinedTo(f, texts, n) == f = [m \in 0 .. n |-> JoinedAt(f, texts, m)]

LEMMA JoinedExist == ASSUME NEW texts PROVE \A n \in Nat : \E f : JoinedTo(f, texts, n)
<1> DEFINE T == {n \in Nat : ~ \E f : JoinedTo(f, texts, n)}
<1> SUFFICES ASSUME T # {} PROVE FALSE
  OBVIOUS
<1>1. PICK n \in T : \A m \in T : n <= m
  BY LeastNat
<1>2. CASE n = 0
  <2> DEFINE f == [m \in 0 .. 0 |-> <<>>]
  <2>1. \A m \in 0 .. 0 : JoinedAt(f, texts, m) = <<>>
    BY DEF JoinedAt
  <2> HIDE DEF f
  <2>2. f = [m \in 0 .. 0 |-> JoinedAt(f, texts, m)]
    BY <2>1 DEF f
  <2> QED BY <1>1, <1>2, <2>2 DEF JoinedTo
<1>3. CASE n # 0
  <2>1. n \in Nat /\ n - 1 \in Nat /\ n - 1 \notin T
    BY <1>1, <1>3
  <2>2. PICK f : JoinedTo(f, texts, n - 1)
    BY <2>1
  <2> DEFINE g == [m \in 0 .. n |-> JoinedAt(f, texts, m)]
  <2>3. \A m \in 0 .. (n - 1) : f[m] = JoinedAt(f, texts, m)
    BY <2>2 DEF JoinedTo
  <2>4. \A m \in 0 .. n : g[m] = JoinedAt(f, texts, m)
    OBVIOUS
  <2>5. ASSUME NEW m \in 0 .. n PROVE JoinedAt(g, texts, m) = JoinedAt(f, texts, m)
    <3>1. CASE m = 0
      BY <3>1 DEF JoinedAt
    <3>2. CASE m # 0
      <4>1. m - 1 \in 0 .. (n - 1) /\ m - 1 \in 0 .. n
        BY <2>1, <3>2
      <4>2. g[m - 1] = f[m - 1]
        BY <2>3, <2>4, <4>1
      <4> HIDE DEF g
      <4> QED BY <3>2, <4>2 DEF JoinedAt
    <3> QED BY <3>1, <3>2
  <2>6. g = [m \in 0 .. n |-> JoinedAt(g, texts, m)]
    BY <2>5
  <2> HIDE DEF g
  <2> QED BY <1>1, <2>6 DEF JoinedTo
<1> QED BY <1>2, <1>3

LEMMA JoinedAgree ==
    ASSUME NEW texts, NEW n \in Nat, NEW k \in Nat, NEW f, NEW g,
           JoinedTo(f, texts, n), JoinedTo(g, texts, k)
    PROVE  \A m \in (0 .. n) \cap (0 .. k) : f[m] = g[m]
<1> DEFINE T == {m \in (0 .. n) \cap (0 .. k) : f[m] # g[m]}
<1> SUFFICES ASSUME T # {} PROVE FALSE
  OBVIOUS
<1>0. T \in SUBSET Nat
  OBVIOUS
<1>1. PICK m \in T : \A j \in T : m <= j
  BY <1>0, LeastNat
<1>2. m \in 0 .. n /\ m \in 0 .. k /\ m \in Nat /\ f[m] # g[m]
  BY <1>1
<1>3. f[m] = JoinedAt(f, texts, m) /\ g[m] = JoinedAt(g, texts, m)
  BY <1>2 DEF JoinedTo
<1>4. m # 0
  BY <1>2, <1>3 DEF JoinedAt
<1>5. m - 1 \in (0 .. n) \cap (0 .. k) /\ m - 1 \notin T
  BY <1>1, <1>2, <1>4
<1>6. f[m - 1] = g[m - 1]
  BY <1>5
<1> QED BY <1>2, <1>3, <1>4, <1>6 DEF JoinedAt

LEMMA JoinedUnfolds ==
    ASSUME NEW texts
    PROVE  /\ Joined(texts, 0) = <<>>
           /\ \A n \in Nat : Joined(texts, n + 1) = Joined(texts, n) \o texts[n + 1]
<1> DEFINE F(n) == CHOOSE f : JoinedTo(f, texts, n)
<1>1. \A n \in Nat : JoinedTo(F(n), texts, n)
  BY JoinedExist
<1>2. \A n : Joined(texts, n) = F(n)[n]
  BY DEF Joined, JoinedTo, JoinedAt
<1> HIDE DEF F
<1>3. Joined(texts, 0) = <<>>
  <2>1. F(0)[0] = JoinedAt(F(0), texts, 0)
    BY <1>1 DEF JoinedTo
  <2> QED BY <1>2, <2>1 DEF JoinedAt
<1>4. ASSUME NEW n \in Nat PROVE Joined(texts, n + 1) = Joined(texts, n) \o texts[n + 1]
  <2> DEFINE k == n + 1
  <2>1. k \in Nat /\ k \in 0 .. k /\ k # 0 /\ k - 1 = n /\ n \in (0 .. k) \cap (0 .. n)
    OBVIOUS
  <2> HIDE DEF k
  <2>2. F(k)[k] = JoinedAt(F(k), texts, k)
    BY <1>1, <2>1 DEF JoinedTo
  <2>3. F(k)[n] = F(n)[n]
    BY <1>1, <2>1, JoinedAgree
  <2> QED BY <1>2, <2>1, <2>2, <2>3 DEF JoinedAt, k
<1> QED BY <1>3, <1>4

LEMMA Associative ==
    \A a, b, c \in Seq(STRING) : (a \o b) \o c = a \o (b \o c)
<1> SUFFICES ASSUME NEW a \in Seq(STRING), NEW b \in Seq(STRING), NEW c \in Seq(STRING)
             PROVE  (a \o b) \o c = a \o (b \o c)
  OBVIOUS
<1> QED BY ConcatAssociative, SMT

LEMMA JoinedInFront ==
    ASSUME NEW T, NEW U, NEW n \in Nat, U[1] \in Seq(STRING),
           \A i \in 1 .. n : T[i] \in Seq(STRING) /\ U[i + 1] = T[i]
    PROVE  Joined(T, n) \in Seq(STRING) /\ Joined(U, n + 1) = U[1] \o Joined(T, n)
<1> DEFINE Good(m) == Joined(T, m) \in Seq(STRING) /\ Joined(U, m + 1) = U[1] \o Joined(T, m)
           Bad == {m \in 0 .. n : ~Good(m)}
<1>1. SUFFICES ASSUME Bad # {} PROVE FALSE
  <2>1. n \in 0 .. n
    OBVIOUS
  <2> QED BY <2>1
<1>2. Bad \in SUBSET Nat
  OBVIOUS
<1>3. PICK m \in Bad : \A j \in Bad : m <= j
  BY <1>1, <1>2, LeastNat
<1>4. m \in 0 .. n /\ ~Good(m) /\ m \in Nat
  BY <1>3
<1>5. CASE m = 0
  <2>1. Joined(T, 0) = <<>> /\ Joined(U, 0) = <<>> /\ Joined(U, 0 + 1) = Joined(U, 0) \o U[0 + 1]
    BY JoinedUnfolds
  <2>2. 0 + 1 = 1
    OBVIOUS
  <2>3. Joined(U, 0 + 1) = <<>> \o U[1]
    BY <2>1, <2>2
  <2>4. <<>> \o U[1] = U[1] /\ U[1] \o <<>> = U[1]
    BY ConcatEmptySeq
  <2>5. <<>> \in Seq(STRING)
    OBVIOUS
  <2> QED BY <1>4, <1>5, <2>1, <2>3, <2>4, <2>5
<1>6. CASE m # 0
  <2> DEFINE k == m - 1
  <2>1. k \in Nat /\ k \in 0 .. n /\ k < m /\ k + 1 = m /\ m \in 1 .. n
    BY <1>4, <1>6
  <2> HIDE DEF k
  <2>2. k \notin Bad
    BY <1>3, <1>4, <2>1
  <2>3. Good(k)
    BY <2>1, <2>2
  <2>4. Joined(T, m) = Joined(T, k) \o T[m]
    BY <2>1, JoinedUnfolds
  <2>5. Joined(U, m + 1) = Joined(U, m) \o U[m + 1]
    BY <1>4, JoinedUnfolds
  <2>6. T[m] \in Seq(STRING) /\ U[m + 1] = T[m]
    BY <2>1
  <2>7. Joined(U, m) = U[1] \o Joined(T, k) /\ Joined(T, k) \in Seq(STRING)
    BY <2>1, <2>3
  <2>8. (U[1] \o Joined(T, k)) \o T[m] = U[1] \o (Joined(T, k) \o T[m])
    BY <2>6, <2>7, Associative
  <2>9. Joined(T, k) \o T[m] \in Seq(STRING)
    BY <2>6, <2>7, ConcatProperties
  <2> QED BY <1>4, <2>4, <2>5, <2>6, <2>7, <2>8, <2>9
<1> QED BY <1>5, <1>6

-----------------------------------------------------------------------------
(* What is read strictly is written back. *)

LEMMA StrictUnfold ==
    ASSUME NEW s \in Seq(STRING)
    PROVE  /\ Values(s, TRUE) = ValueOf(Meaning, s, TRUE)
           /\ Meaning[<<"value", s, TRUE>>] = Values(s, TRUE)
           /\ Meaning[<<"list", s, TRUE>>] = ListOf(Meaning, s, TRUE)
           /\ Meaning[<<"dict", s, TRUE>>] = DictOf(Meaning, s, TRUE)
<1>1. TRUE \in BOOLEAN
  OBVIOUS
<1>2. /\ <<"value", s, TRUE>> \in Word /\ <<"list", s, TRUE>> \in Word
      /\ <<"dict", s, TRUE>> \in Word
  BY <1>1 DEF Word
<1> QED BY <1>2, MeaningUnfolds DEF Values, Body

\* A text of at most n bytes stands for v, and T[i] is the text of what it is for.
Readable(v, n) == \E s \in Seq(STRING) : Len(s) <= n /\ v \in Values(s, TRUE)
Back(v, n, t) == \A s \in Seq(STRING) : Len(s) <= n /\ v \in Values(s, TRUE) => t = s

ListGood(s, l) ==
    /\ \E S : l \in Seq(S)
    /\ \A i \in 1 .. Len(l) : Readable(l[i], Len(s))
    /\ \A T : (\A i \in 1 .. Len(l) : Back(l[i], Len(s), T[i])) => Joined(T, Len(l)) = s

LEMMA ItemInFront ==
    ASSUME NEW a \in Seq(STRING), NEW b \in Seq(STRING), NEW v, v \in Values(a, TRUE),
           NEW m, ListGood(b, m)
    PROVE  ListGood(a \o b, <<v>> \o m)
<1> DEFINE s == a \o b
           l == <<v>> \o m
           n == Len(m)
<1>1. PICK S : m \in Seq(S)
  BY DEF ListGood
<1>2. n \in Nat /\ Len(a) \in Nat /\ Len(b) \in Nat
  BY <1>1
<1>3. s \in Seq(STRING) /\ Len(s) = Len(a) + Len(b)
  BY ConcatProperties
<1>4. /\ l \in Seq(S \cup {v}) /\ Len(l) = n + 1 /\ l[1] = v
      /\ \A i \in 1 .. n : l[i + 1] = m[i]
  <2>1. <<v>> \in Seq(S \cup {v}) /\ m \in Seq(S \cup {v}) /\ Len(<<v>>) = 1
    BY <1>1
  <2>2. /\ l \in Seq(S \cup {v}) /\ Len(l) = 1 + n
        /\ \A i \in 1 .. (1 + n) : l[i] = IF i <= 1 THEN <<v>>[i] ELSE m[i - 1]
    BY <2>1, ConcatProperties
  <2> HIDE DEF l, n
  <2>3. 1 \in 1 .. (1 + n) /\ \A i \in 1 .. n : i + 1 \in 1 .. (1 + n) /\ ~(i + 1 <= 1) /\ i + 1 - 1 = i
    BY <1>2
  <2> QED BY <1>2, <2>2, <2>3
<1>5. \A i \in 1 .. n : Readable(m[i], Len(b))
  BY DEF ListGood
<1> HIDE DEF s, l, n
<1>6. \A i \in 1 .. (n + 1) : i = 1 \/ (i - 1 \in 1 .. n /\ l[i] = m[i - 1])
  <2> SUFFICES ASSUME NEW i \in 1 .. (n + 1), i # 1 PROVE i - 1 \in 1 .. n /\ l[i] = m[i - 1]
    OBVIOUS
  <2>1. i - 1 \in 1 .. n /\ (i - 1) + 1 = i
    BY <1>2
  <2> QED BY <1>4, <2>1
<1>7. ASSUME NEW i \in 1 .. (n + 1) PROVE Readable(l[i], Len(s))
  <2>1. CASE i = 1
    <3>1. Len(a) <= Len(s) /\ l[i] \in Values(a, TRUE)
      <4>1. Len(a) <= Len(s)
        BY <1>2, <1>3
      <4>2. l[i] = v
        BY <1>4, <2>1, Zenon
      <4> QED BY <4>1, <4>2
    <3> QED BY <3>1 DEF Readable
  <2>2. CASE i - 1 \in 1 .. n /\ l[i] = m[i - 1]
    <3>1. PICK t \in Seq(STRING) : Len(t) <= Len(b) /\ l[i] \in Values(t, TRUE)
      BY <1>5, <2>2 DEF Readable
    <3>2. Len(t) <= Len(s)
      <4>1. Len(t) \in Nat
        OBVIOUS
      <4> QED BY <1>2, <1>3, <3>1, <4>1
    <3> QED BY <3>1, <3>2 DEF Readable
  <2> QED BY <1>6, <2>1, <2>2
<1>8. ASSUME NEW U, \A i \in 1 .. (n + 1) : Back(l[i], Len(s), U[i])
      PROVE  Joined(U, n + 1) = s
  <2> DEFINE T == [i \in 1 .. n |-> U[i + 1]]
  <2>1. U[1] = a
    <3>1. 1 \in 1 .. (n + 1) /\ Len(a) <= Len(s)
      BY <1>2, <1>3
    <3> QED BY <1>4, <1>8, <3>1 DEF Back
  <2>2. ASSUME NEW i \in 1 .. n PROVE T[i] \in Seq(STRING) /\ U[i + 1] = T[i] /\ Back(m[i], Len(b), T[i])
    <3>1. i + 1 \in 1 .. (n + 1) /\ l[i + 1] = m[i]
      BY <1>2, <1>4
    <3>2. T[i] = U[i + 1] /\ Back(m[i], Len(s), U[i + 1])
      BY <1>8, <3>1
    <3>3. PICK t \in Seq(STRING) : Len(t) <= Len(b) /\ m[i] \in Values(t, TRUE)
      BY <1>5 DEF Readable
    <3> HIDE DEF T
    <3>4. \A x \in Seq(STRING) : Len(x) <= Len(b) => Len(x) <= Len(s)
      <4> SUFFICES ASSUME NEW x \in Seq(STRING), Len(x) <= Len(b) PROVE Len(x) <= Len(s)
        OBVIOUS
      <4>1. Len(x) \in Nat
        OBVIOUS
      <4> QED BY <1>2, <1>3, <4>1
    <3>5. Back(m[i], Len(b), T[i])
      BY <3>2, <3>4 DEF Back
    <3>6. T[i] = t
      BY <3>3, <3>5 DEF Back
    <3> QED BY <3>2, <3>5, <3>6
  <2> HIDE DEF T
  <2>3. Joined(T, n) = b
    BY <2>2 DEF ListGood, n
  <2>4. Joined(U, n + 1) = U[1] \o Joined(T, n)
    BY <1>2, <2>1, <2>2, JoinedInFront
  <2> QED BY <2>1, <2>3, <2>4 DEF s
<1>9. ListGood(s, l)
  BY <1>4, <1>7, <1>8 DEF ListGood
<1> QED BY <1>9 DEF s, l

\* l is read off s as a first value and a rest.
SplitsOff(M, s, strict, l) ==
    \E i \in DOMAIN s : \E v \in M[<<"value", Cut(s, 1, i), strict>>] :
    \E m \in M[<<"list", Cut(s, i + 1, Len(s)), strict>>] : l = <<v>> \o m

LEMMA ListSplit ==
    ASSUME NEW M, NEW s, s # <<>>, NEW strict
    PROVE  \A l : l \in ListOf(M, s, strict) <=> SplitsOff(M, s, strict, l)
<1> DEFINE V(i) == M[<<"value", Cut(s, 1, i), strict>>]
           R(i) == M[<<"list", Cut(s, i + 1, Len(s)), strict>>]
           One(i, v) == {<<v>> \o m : m \in R(i)}
           All(i) == UNION {One(i, v) : v \in V(i)}
<1>1. ListOf(M, s, strict) = UNION {All(i) : i \in DOMAIN s}
  BY DEF ListOf
<1> HIDE DEF V, R
<1>2. ASSUME NEW l, NEW i, NEW v PROVE l \in One(i, v) <=> \E m \in R(i) : l = <<v>> \o m
  OBVIOUS
<1> HIDE DEF One
<1>3. ASSUME NEW l, NEW i PROVE l \in All(i) <=> \E v \in V(i) : \E m \in R(i) : l = <<v>> \o m
  <2>1. l \in All(i) <=> \E v \in V(i) : l \in One(i, v)
    OBVIOUS
  <2> HIDE DEF All
  <2>2. \A v : l \in One(i, v) <=> \E m \in R(i) : l = <<v>> \o m
    BY <1>2
  <2> QED BY <2>1, <2>2, Zenon
<1> HIDE DEF All
<1>4. \A l : l \in ListOf(M, s, strict) <=> \E i \in DOMAIN s : l \in All(i)
  BY <1>1
<1>5. \A l : l \in ListOf(M, s, strict) <=> \E i \in DOMAIN s : \E v \in V(i) : \E m \in R(i) : l = <<v>> \o m
  BY <1>3, <1>4
<1> QED BY <1>5 DEF V, R, SplitsOff

LEMMA ListWritten ==
    \A s \in Seq(STRING) : \A l \in Meaning[<<"list", s, TRUE>>] : ListGood(s, l)
<1> DEFINE T == {n \in Nat : \E s \in Seq(STRING) : \E l \in Meaning[<<"list", s, TRUE>>] :
                                Len(s) = n /\ ~ListGood(s, l)}
<1>1. SUFFICES ASSUME T # {} PROVE FALSE
  <2> SUFFICES ASSUME T = {}, NEW s \in Seq(STRING), NEW l \in Meaning[<<"list", s, TRUE>>]
               PROVE  ListGood(s, l)
    OBVIOUS
  <2>1. Len(s) \in Nat
    OBVIOUS
  <2> QED BY <2>1
<1>2. PICK n \in T : \A m \in T : n <= m
  BY <1>1, LeastNat
<1>3. PICK s \in Seq(STRING) : \E l \in Meaning[<<"list", s, TRUE>>] : Len(s) = n /\ ~ListGood(s, l)
  BY <1>2
<1>4. PICK l \in Meaning[<<"list", s, TRUE>>] : Len(s) = n /\ ~ListGood(s, l)
  BY <1>3
<1>5. l \in ListOf(Meaning, s, TRUE)
  BY <1>4, StrictUnfold
<1>6. CASE s = <<>>
  <2>1. l = <<>>
    BY <1>5, <1>6 DEF ListOf
  <2>2. <<>> \in Seq({}) /\ Len(<<>>) = 0 /\ 1 .. 0 = {}
    OBVIOUS
  <2>3. \A U : Joined(U, 0) = <<>>
    BY JoinedUnfolds
  <2>4. ListGood(s, l)
    BY <1>6, <2>1, <2>2, <2>3 DEF ListGood
  <2> QED BY <1>4, <2>4
<1>7. CASE s # <<>>
  <2>1. PICK i \in DOMAIN s : \E v \in Meaning[<<"value", Cut(s, 1, i), TRUE>>] :
                              \E m \in Meaning[<<"list", Cut(s, i + 1, Len(s)), TRUE>>] : l = <<v>> \o m
    <3>1. SplitsOff(Meaning, s, TRUE, l)
      BY <1>5, <1>7, ListSplit
    <3> QED BY <3>1 DEF SplitsOff
  <2> DEFINE a == Cut(s, 1, i)
             b == Cut(s, i + 1, Len(s))
  <2>2. PICK v \in Meaning[<<"value", a, TRUE>>], m \in Meaning[<<"list", b, TRUE>>] : l = <<v>> \o m
    BY <2>1
  <2>3. i \in 0 .. Len(s) /\ i >= 1 /\ Len(s) \in Nat
    OBVIOUS
  <2>4. a \in Seq(STRING) /\ b \in Seq(STRING) /\ Len(b) = Len(s) - i /\ s = a \o b
    BY <2>3, Halves
  <2> HIDE DEF a, b
  <2>5. v \in Values(a, TRUE)
    BY <2>2, <2>4, StrictUnfold
  <2>6. Len(b) \in Nat /\ Len(b) < n
    BY <1>4, <2>3, <2>4
  <2>7. Len(b) \notin T
    <3>1. n \in Nat
      BY <1>2
    <3> HIDE DEF T
    <3> QED BY <1>2, <2>6, <3>1
  <2>8. ListGood(b, m)
    BY <2>2, <2>4, <2>6, <2>7
  <2>9. ListGood(a \o b, <<v>> \o m)
    BY <2>4, <2>5, <2>8, ItemInFront
  <2> QED BY <1>4, <2>2, <2>4, <2>9
<1> QED BY <1>6, <1>7

\* The bytes s hold the key k, as it is written, and then a text of v.
HoldsEntry(s, k, v) ==
    \E a, c, b \in Seq(STRING) :
        /\ EncodeText(k) \in Seq(STRING) /\ v \in Values(c, TRUE)
        /\ s = a \o (EncodeText(k) \o (c \o b))

\* t is the text of the entry of k.
EntryBack(k, v, n, t) ==
    \A c \in Seq(STRING) : Len(c) <= n /\ v \in Values(c, TRUE) => t = EncodeText(k) \o c

DictGood(s, d) ==
    /\ Keyed(d) /\ \E K : InOrder(K, d)
    /\ \A k \in DOMAIN d : HoldsEntry(s, k, d[k])
    /\ \A T, K :
          InOrder(K, d) /\ (\A i \in 1 .. Cardinality(DOMAIN d) : EntryBack(K[i], d[K[i]], Len(s), T[i]))
              => Joined(T, Cardinality(DOMAIN d)) = s

LEMMA EntryLonger ==
    ASSUME NEW x \in Seq(STRING), NEW s \in Seq(STRING), NEW k, NEW v, HoldsEntry(s, k, v)
    PROVE  HoldsEntry(x \o s, k, v)
<1> DEFINE t == EncodeText(k)
<1>1. t \in Seq(STRING) /\ \E a, c, b \in Seq(STRING) : v \in Values(c, TRUE) /\ s = a \o (t \o (c \o b))
  BY DEF HoldsEntry
<1>2. PICK a, c, b \in Seq(STRING) : v \in Values(c, TRUE) /\ s = a \o (t \o (c \o b))
  BY <1>1
<1> DEFINE r == t \o (c \o b)
<1> HIDE DEF t
<1>3. r \in Seq(STRING)
  BY <1>1, ConcatProperties
<1>4. x \o s = (x \o a) \o r /\ x \o a \in Seq(STRING)
  <2> HIDE DEF r
  <2>1. s = a \o r
    BY <1>2 DEF r
  <2>2. \A z \in Seq(STRING) : (x \o a) \o z = x \o (a \o z)
    BY Associative
  <2>3. x \o a \in Seq(STRING)
    BY ConcatProperties
  <2> QED BY <1>3, <2>1, <2>2, <2>3
<1>5. \E y, z, w \in Seq(STRING) : v \in Values(z, TRUE) /\ x \o s = y \o (t \o (z \o w))
  BY <1>2, <1>4
<1> QED BY <1>1, <1>5 DEF HoldsEntry, t

LEMMA EntryShorter ==
    ASSUME NEW s \in Seq(STRING), NEW k, NEW v, HoldsEntry(s, k, v)
    PROVE  EncodeText(k) \in Seq(STRING) /\ Readable(v, Len(s))
<1> DEFINE t == EncodeText(k)
<1>1. t \in Seq(STRING) /\ \E a, c, b \in Seq(STRING) : v \in Values(c, TRUE) /\ s = a \o (t \o (c \o b))
  BY DEF HoldsEntry
<1>2. PICK a, c, b \in Seq(STRING) : v \in Values(c, TRUE) /\ s = a \o (t \o (c \o b))
  BY <1>1
<1> HIDE DEF t
<1> DEFINE y == c \o b
           z == t \o y
<1>3. y \in Seq(STRING) /\ Len(y) = Len(c) + Len(b)
  BY ConcatProperties
<1> HIDE DEF y
<1>4. z \in Seq(STRING) /\ Len(z) = Len(t) + Len(y)
  BY <1>1, <1>3, ConcatProperties
<1> HIDE DEF z
<1>5. Len(s) = Len(a) + Len(z)
  BY <1>2, <1>4, ConcatProperties DEF y, z
<1>6. Len(a) \in Nat /\ Len(b) \in Nat /\ Len(c) \in Nat /\ Len(t) \in Nat
  BY <1>1
<1>7. Len(c) <= Len(s)
  BY <1>3, <1>4, <1>5, <1>6
<1> QED BY <1>1, <1>2, <1>7 DEF Readable, t

LEMMA EntryInFront ==
    ASSUME NEW a \in Seq(STRING), NEW c \in Seq(STRING), NEW b \in Seq(STRING),
           NEW k \in Seq(STRING), a = EncodeText(k), NEW v, v \in Values(c, TRUE),
           NEW e, DictGood(b, e), \A x \in DOMAIN e : Before(k, x)
    PROVE  DictGood(a \o (c \o b), Under(e, k, v))
<1> DEFINE s == a \o (c \o b)
           d == Under(e, k, v)
           n == Cardinality(DOMAIN e)
<1>1. Keyed(e) /\ n \in Nat
  BY FS_CardinalityType DEF DictGood, Keyed
<1>2. PICK M : InOrder(M, e)
  BY DEF DictGood
<1> DEFINE K == [i \in 1 .. (n + 1) |-> IF i = 1 THEN k ELSE M[i - 1]]
<1>3. k \notin DOMAIN e /\ Keyed(d) /\ Cardinality(DOMAIN d) = n + 1 /\ InOrder(K, d)
  BY <1>1, <1>2, KeyInFront
<1>4. DOMAIN d = DOMAIN e \cup {k} /\ d[k] = v /\ \A x \in DOMAIN e : d[x] = e[x] /\ x # k
  BY <1>3 DEF Under
<1>5. c \o b \in Seq(STRING) /\ Len(c \o b) = Len(c) + Len(b)
  BY ConcatProperties
<1>6. s \in Seq(STRING) /\ Len(s) = Len(a) + (Len(c) + Len(b))
  <2> DEFINE y == c \o b
  <2>1. y \in Seq(STRING) /\ Len(y) = Len(c) + Len(b)
    BY <1>5
  <2> HIDE DEF y
  <2>2. a \o y \in Seq(STRING) /\ Len(a \o y) = Len(a) + Len(y)
    BY <2>1, ConcatProperties
  <2> QED BY <2>1, <2>2 DEF y
<1>7. Len(a) \in Nat /\ Len(b) \in Nat /\ Len(c) \in Nat
  OBVIOUS
<1> HIDE DEF s, d, n, K
<1>8. Len(c) <= Len(s) /\ \A x \in Seq(STRING) : Len(x) <= Len(b) => Len(x) <= Len(s)
  <2>1. Len(c) <= Len(s)
    BY <1>6, <1>7
  <2>2. ASSUME NEW x \in Seq(STRING), Len(x) <= Len(b) PROVE Len(x) <= Len(s)
    <3>1. Len(x) \in Nat
      OBVIOUS
    <3> QED BY <1>6, <1>7, <2>2, <3>1
  <2> QED BY <2>1, <2>2
<1>9. ASSUME NEW x \in DOMAIN d PROVE HoldsEntry(s, x, d[x])
  <2>1. CASE x = k
    <3>1. <<>> \in Seq(STRING) /\ s = <<>> \o s
      BY <1>6, ConcatEmptySeq
    <3>2. s = a \o (c \o b)
      BY DEF s
    <3>3. s = <<>> \o (EncodeText(k) \o (c \o b))
      BY <3>1, <3>2
    <3> QED BY <1>4, <2>1, <3>1, <3>3 DEF HoldsEntry
  <2>2. CASE x \in DOMAIN e
    <3>1. HoldsEntry(b, x, e[x])
      BY <2>2 DEF DictGood
    <3>2. HoldsEntry(c \o b, x, e[x])
      BY <3>1, EntryLonger
    <3>3. HoldsEntry(a \o (c \o b), x, e[x])
      BY <1>5, <3>2, EntryLonger
    <3> QED BY <1>4, <2>2, <3>3 DEF s
  <2> QED BY <1>4, <2>1, <2>2
<1>10. ASSUME NEW U, NEW X, InOrder(X, d),
              \A i \in 1 .. (n + 1) : EntryBack(X[i], d[X[i]], Len(s), U[i])
       PROVE  Joined(U, n + 1) = s
  <2> DEFINE T == [i \in 1 .. n |-> U[i + 1]]
  <2>1. X = K
    BY <1>3, <1>10, InOrderIsOne
  <2>2. /\ 1 \in 1 .. (n + 1) /\ X[1] = k
        /\ \A i \in 1 .. n : i + 1 \in 1 .. (n + 1) /\ X[i + 1] = M[i] /\ M[i] \in DOMAIN e
    <3>1. 1 \in 1 .. (n + 1) /\ \A i \in 1 .. n : i + 1 \in 1 .. (n + 1) /\ i + 1 # 1 /\ i + 1 - 1 = i
      BY <1>1
    <3>2. M \in [1 .. n -> DOMAIN e]
      BY <1>2 DEF InOrder, n
    <3> QED BY <2>1, <3>1, <3>2 DEF K
  <2>3. U[1] = a \o c
    BY <1>4, <1>8, <1>10, <2>2 DEF EntryBack
  <2>4. ASSUME NEW i \in 1 .. n
        PROVE  T[i] \in Seq(STRING) /\ U[i + 1] = T[i] /\ EntryBack(M[i], e[M[i]], Len(b), T[i])
    <3> DEFINE x == M[i]
    <3>1. x \in DOMAIN e /\ X[i + 1] = x /\ d[x] = e[x] /\ i + 1 \in 1 .. (n + 1)
      BY <1>4, <2>2
    <3>2. T[i] = U[i + 1] /\ EntryBack(x, e[x], Len(s), U[i + 1])
      BY <1>10, <3>1
    <3> HIDE DEF T, x
    <3>3. EntryBack(x, e[x], Len(b), T[i])
      BY <1>8, <3>2 DEF EntryBack
    <3>4. HoldsEntry(b, x, e[x])
      BY <3>1 DEF DictGood
    <3>5. EncodeText(x) \in Seq(STRING) /\ Readable(e[x], Len(b))
      BY <3>4, EntryShorter
    <3>6. PICK t \in Seq(STRING) : Len(t) <= Len(b) /\ e[x] \in Values(t, TRUE)
      BY <3>5 DEF Readable
    <3>7. T[i] = EncodeText(x) \o t
      BY <3>3, <3>6 DEF EntryBack
    <3>8. T[i] \in Seq(STRING)
      BY <3>5, <3>7, ConcatProperties
    <3> QED BY <3>2, <3>3, <3>8 DEF x
  <2> HIDE DEF T
  <2>5. Joined(T, n) = b
    BY <1>2, <2>4 DEF DictGood, n
  <2>6. U[1] \in Seq(STRING)
    BY <2>3, ConcatProperties
  <2>7. Joined(U, n + 1) = U[1] \o Joined(T, n)
    BY <1>1, <2>4, <2>6, JoinedInFront
  <2>8. (a \o c) \o b = a \o (c \o b)
    BY Associative
  <2> QED BY <2>3, <2>5, <2>7, <2>8 DEF s
<1>11. DictGood(s, d)
  BY <1>3, <1>9, <1>10 DEF DictGood
<1> QED BY <1>11 DEF s, d

\* d is read off s as a key, a value and a rest.
Splits(M, s, strict, d) ==
    \E i \in DOMAIN s : \E k \in Texts(Cut(s, 1, i), strict) : \E j \in (i + 1) .. Len(s) :
    \E v \in M[<<"value", Cut(s, i + 1, j), strict>>] :
    \E e \in M[<<"dict", Cut(s, j + 1, Len(s)), strict>>] :
        (strict => \A x \in DOMAIN e : Before(k, x)) /\ d = Under(e, k, v)

LEMMA DictSplit ==
    ASSUME NEW M, NEW s, s # <<>>, NEW strict
    PROVE  \A d : d \in DictOf(M, s, strict) <=> Splits(M, s, strict, d)
<1> DEFINE V(i, j) == M[<<"value", Cut(s, i + 1, j), strict>>]
           E(j) == M[<<"dict", Cut(s, j + 1, Len(s)), strict>>]
           First(k, e) == strict => \A x \in DOMAIN e : Before(k, x)
           One(j, k, v) == {Under(e, k, v) : e \in {e \in E(j) : First(k, e)}}
           Part(i, j, k) == UNION {One(j, k, v) : v \in V(i, j)}
           All(i) == UNION {Part(i, j, k) : k \in Texts(Cut(s, 1, i), strict), j \in (i + 1) .. Len(s)}
<1>1. DictOf(M, s, strict) = UNION {All(i) : i \in DOMAIN s}
  BY DEF DictOf
<1> HIDE DEF V, E, First
<1>2. ASSUME NEW d, NEW j, NEW k, NEW v
      PROVE  d \in One(j, k, v) <=> \E e \in E(j) : First(k, e) /\ d = Under(e, k, v)
  OBVIOUS
<1> HIDE DEF One
<1>3. ASSUME NEW d, NEW i, NEW j, NEW k
      PROVE  d \in Part(i, j, k) <=> \E v \in V(i, j) : \E e \in E(j) : First(k, e) /\ d = Under(e, k, v)
  <2>1. d \in Part(i, j, k) <=> \E v \in V(i, j) : d \in One(j, k, v)
    OBVIOUS
  <2> QED BY <1>2, <2>1
<1> HIDE DEF Part
<1>4. ASSUME NEW d, NEW i
      PROVE  d \in All(i) <=> \E k \in Texts(Cut(s, 1, i), strict) : \E j \in (i + 1) .. Len(s) : d \in Part(i, j, k)
  OBVIOUS
<1> HIDE DEF All
<1>5. \A d : d \in DictOf(M, s, strict) <=> \E i \in DOMAIN s : d \in All(i)
  BY <1>1
<1>6. \A d : d \in DictOf(M, s, strict) <=>
         \E i \in DOMAIN s : \E k \in Texts(Cut(s, 1, i), strict) : \E j \in (i + 1) .. Len(s) :
         \E v \in V(i, j) : \E e \in E(j) : First(k, e) /\ d = Under(e, k, v)
  BY <1>3, <1>4, <1>5
<1> QED BY <1>6 DEF V, E, First, Splits

LEMMA DictWritten ==
    \A s \in Seq(STRING) : \A d \in Meaning[<<"dict", s, TRUE>>] : DictGood(s, d)
<1> DEFINE T == {n \in Nat : \E s \in Seq(STRING) : \E d \in Meaning[<<"dict", s, TRUE>>] :
                                Len(s) = n /\ ~DictGood(s, d)}
<1>1. SUFFICES ASSUME T # {} PROVE FALSE
  <2> SUFFICES ASSUME T = {}, NEW s \in Seq(STRING), NEW d \in Meaning[<<"dict", s, TRUE>>]
               PROVE  DictGood(s, d)
    OBVIOUS
  <2>1. Len(s) \in Nat
    OBVIOUS
  <2> QED BY <2>1
<1>2. PICK n \in T : \A m \in T : n <= m
  BY <1>1, LeastNat
<1>3. PICK s \in Seq(STRING) : \E d \in Meaning[<<"dict", s, TRUE>>] : Len(s) = n /\ ~DictGood(s, d)
  BY <1>2
<1>4. PICK d \in Meaning[<<"dict", s, TRUE>>] : Len(s) = n /\ ~DictGood(s, d)
  BY <1>3
<1>5. d \in DictOf(Meaning, s, TRUE)
  BY <1>4, StrictUnfold
<1>6. CASE s = <<>>
  <2>1. d = <<>>
    BY <1>5, <1>6 DEF DictOf
  <2>2. DOMAIN <<>> = {} /\ Len(<<>>) = 0 /\ <<>> \in [1 .. 0 -> {}]
    OBVIOUS
  <2>3. IsFiniteSet({}) /\ Cardinality({}) = 0
    BY FS_EmptySet
  <2>4. Keyed(d) /\ InOrder(<<>>, d)
    BY <2>1, <2>2, <2>3 DEF Keyed, InOrder
  <2>5. \A U : Joined(U, 0) = <<>>
    BY JoinedUnfolds
  <2>6. Cardinality(DOMAIN d) = 0 /\ DOMAIN d = {}
    BY <2>1, <2>2, <2>3
  <2>7. DictGood(s, d)
    BY <1>6, <2>4, <2>5, <2>6 DEF DictGood
  <2> QED BY <1>4, <2>7
<1>7. CASE s # <<>>
  <2>1. PICK i \in DOMAIN s : \E k \in Texts(Cut(s, 1, i), TRUE) : \E j \in (i + 1) .. Len(s) :
           \E v \in Meaning[<<"value", Cut(s, i + 1, j), TRUE>>] :
           \E e \in Meaning[<<"dict", Cut(s, j + 1, Len(s)), TRUE>>] :
               (TRUE => \A x \in DOMAIN e : Before(k, x)) /\ d = Under(e, k, v)
    <3>1. Splits(Meaning, s, TRUE, d)
      BY <1>5, <1>7, DictSplit
    <3> QED BY <3>1 DEF Splits
  <2>2. PICK k \in Texts(Cut(s, 1, i), TRUE), j \in (i + 1) .. Len(s) :
           \E v \in Meaning[<<"value", Cut(s, i + 1, j), TRUE>>] :
           \E e \in Meaning[<<"dict", Cut(s, j + 1, Len(s)), TRUE>>] :
               (\A x \in DOMAIN e : Before(k, x)) /\ d = Under(e, k, v)
    BY <2>1
  <2>3. PICK v \in Meaning[<<"value", Cut(s, i + 1, j), TRUE>>],
             e \in Meaning[<<"dict", Cut(s, j + 1, Len(s)), TRUE>>] :
               (\A x \in DOMAIN e : Before(k, x)) /\ d = Under(e, k, v)
    BY <2>2
  <2> DEFINE a == Cut(s, 1, i)
             c == Cut(s, i + 1, j)
             b == Cut(s, j + 1, Len(s))
             r == Cut(s, i + 1, Len(s))
             m == i + 1
  <2>6. Len(s) \in Nat /\ i \in 1 .. Len(s) /\ j \in 0 .. Len(s) /\ j >= i + 1 /\ i \in 0 .. Len(s)
    OBVIOUS
  <2>7. a \in Seq(STRING) /\ s = a \o r
    BY <2>6, Halves
  <2>8. b \in Seq(STRING) /\ Len(b) = Len(s) - j
    BY <2>6, Halves
  <2>9. m \in 1 .. (Len(s) + 1) /\ j \in (m - 1) .. Len(s) /\ Len(s) \in j .. Len(s)
    BY <2>6
  <2>10. c \in Seq(STRING)
    <3> HIDE DEF m
    <3>1. Cut(s, m, j) \in Seq(STRING)
      BY <2>9, CutFacts
    <3> QED BY <3>1 DEF m
  <2>11. r = c \o b
    <3> HIDE DEF m
    <3>1. SubSeq(s, m, j) \o SubSeq(s, j + 1, Len(s)) = SubSeq(s, m, Len(s))
      BY <2>9, ConcatAdjacentSubSeq
    <3> QED BY <3>1 DEF m, Cut
  <2>12. v \in Values(c, TRUE) /\ e \in Meaning[<<"dict", b, TRUE>>]
    BY <2>3, <2>8, <2>10, StrictUnfold
  <2>13. k \in Texts(a, TRUE)
    BY <2>2
  <2> HIDE DEF a, b, c, r, m
  <2>14. k \in Seq(STRING) /\ a = EncodeText(k)
    BY <2>7, <2>13, TextWritten
  <2>15. Len(b) \in Nat /\ Len(b) < n
    BY <1>4, <2>6, <2>8
  <2>16. Len(b) \notin T
    <3>1. n \in Nat
      BY <1>2
    <3> HIDE DEF T
    <3> QED BY <1>2, <2>15, <3>1
  <2>17. DictGood(b, e)
    BY <2>8, <2>12, <2>15, <2>16
  <2>18. DictGood(a \o (c \o b), Under(e, k, v))
    BY <2>3, <2>7, <2>8, <2>10, <2>12, <2>14, <2>17, EntryInFront
  <2> QED BY <1>4, <2>3, <2>7, <2>11, <2>18
<1> QED BY <1>6, <1>7

LEMMA Wrapped ==
    ASSUME NEW s \in Seq(STRING), Len(s) >= 2
    PROVE  /\ Cut(s, 2, Len(s) - 1) \in Seq(STRING) /\ Len(Cut(s, 2, Len(s) - 1)) = Len(s) - 2
           /\ s = <<s[1]>> \o Cut(s, 2, Len(s) - 1) \o <<s[Len(s)]>>
<1> DEFINE t == Cut(s, 2, Len(s))
           i == Cut(s, 2, Len(s) - 1)
<1>1. Len(s) \in Nat /\ s # <<>>
  OBVIOUS
<1>2. t \in Seq(STRING) /\ Len(t) = Len(s) - 1 /\ s = <<s[1]>> \o t
      /\ \A j \in 1 .. (Len(s) - 1) : t[j] = s[1 + j]
  BY <1>1, FirstByte
<1>3. i \in Seq(STRING) /\ Len(i) = Len(s) - 2 /\ \A j \in 1 .. (Len(s) - 2) : i[j] = s[1 + j]
  <2>1. 2 \in 1 .. (Len(s) + 1) /\ Len(s) - 1 \in (2 - 1) .. Len(s)
    BY <1>1
  <2>2. i \in Seq(STRING) /\ Len(i) = Len(s) - 1 - 2 + 1
    BY <2>1, CutFacts
  <2>3. \A j \in 1 .. (Len(s) - 2) : i[j] = s[1 + j]
    BY <1>1 DEF Cut
  <2> QED BY <1>1, <2>2, <2>3
<1> HIDE DEF i, t
<1>4. t = i \o <<s[Len(s)]>>
  <2> DEFINE c == s[Len(s)]
             u == i \o <<c>>
  <2>1. c \in STRING /\ <<c>> \in Seq(STRING) /\ Len(<<c>>) = 1 /\ <<c>>[1] = c
    BY <1>1
  <2> HIDE DEF c
  <2>2. /\ u \in Seq(STRING) /\ Len(u) = Len(s) - 1
        /\ \A j \in 1 .. (Len(s) - 2) : u[j] = i[j]
        /\ u[Len(s) - 1] = c
    <3> DEFINE w == <<c>>
    <3>1. w \in Seq(STRING) /\ Len(w) = 1 /\ w[1] = c /\ u = i \o w
      BY <2>1
    <3> HIDE DEF w
    <3>2. i \o w \in Seq(STRING) /\ Len(i \o w) = Len(i) + Len(w)
          /\ \A j \in 1 .. (Len(i) + Len(w)) : (i \o w)[j] = IF j <= Len(i) THEN i[j] ELSE w[j - Len(i)]
      BY <1>3, <3>1, ConcatProperties
    <3>3. Len(s) - 1 \in 1 .. (Len(i) + Len(w)) /\ ~(Len(s) - 1 <= Len(i)) /\ Len(s) - 1 - Len(i) = 1
      BY <1>1, <1>3, <3>1
    <3>4. \A j \in 1 .. (Len(s) - 2) : j \in 1 .. (Len(i) + Len(w)) /\ j <= Len(i)
      BY <1>1, <1>3, <3>1
    <3>5. u[Len(s) - 1] = c
      BY <3>1, <3>2, <3>3
    <3> QED BY <1>1, <1>3, <3>1, <3>2, <3>4, <3>5
  <2> HIDE DEF u
  <2>3. \A j \in 1 .. (Len(s) - 1) : t[j] = u[j]
    <3> SUFFICES ASSUME NEW j \in 1 .. (Len(s) - 1) PROVE t[j] = u[j]
      OBVIOUS
    <3>1. CASE j = Len(s) - 1
      BY <1>1, <1>2, <2>2, <3>1 DEF c
    <3>2. CASE j # Len(s) - 1
      <4>1. j \in 1 .. (Len(s) - 2)
        BY <1>1, <3>2
      <4> QED BY <1>2, <1>3, <2>2, <4>1
    <3> QED BY <3>1, <3>2
  <2>4. t = u
    BY <1>2, <2>2, <2>3, SeqEqual
  <2> QED BY <2>4 DEF u, c
<1>5. \A x, y \in Seq(STRING) : (<<s[1]>> \o x) \o y = <<s[1]>> \o (x \o y)
  <2>1. <<s[1]>> \in Seq(STRING)
    BY <1>1
  <2> QED BY <2>1, Associative
<1>6. <<s[Len(s)]>> \in Seq(STRING)
  BY <1>1
<1>7. s = (<<s[1]>> \o i) \o <<s[Len(s)]>>
  BY <1>2, <1>3, <1>4, <1>5, <1>6
<1> QED BY <1>3, <1>7 DEF i

LEMMA StrictCases ==
    ASSUME NEW s \in Seq(STRING), NEW v \in Values(s, TRUE)
    PROVE  /\ Len(s) \in Nat /\ Len(s) >= 2
           /\ LET inner == Cut(s, 2, Len(s) - 1)
              IN  \/ \E t \in Texts(s, TRUE) : v = [str |-> t]
                  \/ s[1] = "i" /\ s[Len(s)] = "e" /\ Canonical(inner)
                     /\ \E n \in ParseI64(inner) : v = [int |-> n]
                  \/ s[1] = "l" /\ s[Len(s)] = "e"
                     /\ \E l \in Meaning[<<"list", inner, TRUE>>] : v = [list |-> l]
                  \/ s[1] = "d" /\ s[Len(s)] = "e"
                     /\ \E d \in Meaning[<<"dict", inner, TRUE>>] : v = [dict |-> d]
<1> DEFINE inner == Cut(s, 2, Len(s) - 1)
           L == Meaning[<<"list", inner, TRUE>>]
           D == Meaning[<<"dict", inner, TRUE>>]
<1>1. v \in ValueOf(Meaning, s, TRUE)
  BY StrictUnfold
<1>2. Len(s) \in Nat /\ Len(s) >= 2
  <2>1. CASE Len(s) < 2
    <3>1. ValueOf(Meaning, s, TRUE) = {}
      BY <2>1 DEF ValueOf
    <3> QED BY <1>1, <3>1
  <2> QED BY <2>1
<1> HIDE DEF L, D
<1>3. v \in CASE s[1] \in Digit -> {[str |-> t] : t \in Texts(s, TRUE)}
              [] s[1] = "i" /\ s[Len(s)] = "e" /\ (\A j \in DOMAIN inner : inner[j] # "e") ->
                     {[int |-> n] : n \in {n \in ParseI64(inner) : TRUE => Canonical(inner)}}
              [] s[1] = "l" /\ s[Len(s)] = "e" -> {[list |-> l] : l \in L}
              [] s[1] = "d" /\ s[Len(s)] = "e" -> {[dict |-> d] : d \in D}
              [] OTHER -> {}
  BY <1>1, <1>2 DEF ValueOf, L, D
<1> HIDE DEF inner
<1>4. CASE s[1] \in Digit
  <2>1. \E t \in Texts(s, TRUE) : v = [str |-> t]
    BY <1>3, <1>4, ByteIs
  <2> QED BY <1>2, <2>1
<1>5. CASE s[1] = "i" /\ s[Len(s)] = "e" /\ (\A j \in DOMAIN inner : inner[j] # "e")
  <2>1. v \in {[int |-> n] : n \in {n \in ParseI64(inner) : TRUE => Canonical(inner)}}
    BY <1>3, <1>5, ByteIs
  <2>2. Canonical(inner) /\ \E n \in ParseI64(inner) : v = [int |-> n]
    BY <2>1
  <2> QED BY <1>2, <1>5, <2>2 DEF inner
<1>6. CASE s[1] = "l" /\ s[Len(s)] = "e"
  <2>1. \E l \in L : v = [list |-> l]
    BY <1>3, <1>6, ByteIs
  <2> QED BY <1>2, <1>6, <2>1 DEF inner, L
<1>7. CASE s[1] = "d" /\ s[Len(s)] = "e"
  <2>1. \E d \in D : v = [dict |-> d]
    BY <1>3, <1>7, ByteIs
  <2> QED BY <1>2, <1>7, <2>1 DEF inner, D
<1> QED BY <1>3, <1>4, <1>5, <1>6, <1>7

LEMMA WrittenKinds ==
    /\ \A t, T : Inside([str |-> t]) = <<>> /\ Written([str |-> t], T) = EncodeText(t)
    /\ \A n, T : Inside([int |-> n]) = <<>>
                 /\ Written([int |-> n], T) = <<"i">> \o EncodeNumber(n) \o <<"e">>
    /\ \A l, T : Inside([list |-> l]) = l
                 /\ Written([list |-> l], T) = <<"l">> \o Joined(T, Len(l)) \o <<"e">>
    /\ \A d, T : Inside([dict |-> d]) = [i \in DOMAIN KeysOf(d) |-> d[KeysOf(d)[i]]]
                 /\ Written([dict |-> d], T) =
                       <<"d">> \o Joined([i \in DOMAIN KeysOf(d) |-> EncodeText(KeysOf(d)[i]) \o T[i]],
                                         Len(KeysOf(d))) \o <<"e">>
<1>1. ASSUME NEW t, NEW T PROVE Inside([str |-> t]) = <<>> /\ Written([str |-> t], T) = EncodeText(t)
  BY DEF Inside, Written
<1>2. ASSUME NEW n, NEW T
      PROVE  Inside([int |-> n]) = <<>> /\ Written([int |-> n], T) = <<"i">> \o EncodeNumber(n) \o <<"e">>
  BY DEF Inside, Written, EncodeNumber
<1>3. ASSUME NEW l, NEW T
      PROVE  Inside([list |-> l]) = l /\ Written([list |-> l], T) = <<"l">> \o Joined(T, Len(l)) \o <<"e">>
  BY DEF Inside, Written
<1>4. ASSUME NEW d, NEW T
      PROVE  /\ Inside([dict |-> d]) = [i \in DOMAIN KeysOf(d) |-> d[KeysOf(d)[i]]]
             /\ Written([dict |-> d], T) =
                   <<"d">> \o Joined([i \in DOMAIN KeysOf(d) |-> EncodeText(KeysOf(d)[i]) \o T[i]],
                                     Len(KeysOf(d))) \o <<"e">>
  BY DEF Inside, Written
<1> QED BY <1>1, <1>2, <1>3, <1>4

\* What is inside a value has shorter texts, and with them the value is written.
Rewritten(s, v) ==
    /\ \A i \in DOMAIN Inside(v) : Readable(Inside(v)[i], Len(s) - 1)
    /\ \A T : (\A i \in DOMAIN Inside(v) : Back(Inside(v)[i], Len(s) - 1, T[i])) => Written(v, T) = s

LEMMA ListRewritten ==
    ASSUME NEW s \in Seq(STRING), Len(s) >= 2, s[1] = "l", s[Len(s)] = "e",
           NEW l \in Meaning[<<"list", Cut(s, 2, Len(s) - 1), TRUE>>]
    PROVE  Rewritten(s, [list |-> l])
<1> DEFINE inner == Cut(s, 2, Len(s) - 1)
           v == [list |-> l]
<1>1. Len(s) \in Nat /\ inner \in Seq(STRING) /\ Len(inner) = Len(s) - 2
      /\ s = <<"l">> \o inner \o <<"e">>
  BY Wrapped
<1>2. ListGood(inner, l)
  BY <1>1, ListWritten
<1> HIDE DEF inner
<1>3. Inside(v) = l /\ DOMAIN l = 1 .. Len(l)
  BY <1>2, WrittenKinds DEF ListGood
<1>4. \A x \in Seq(STRING) : Len(x) <= Len(inner) => Len(x) <= Len(s) - 1
  <2> SUFFICES ASSUME NEW x \in Seq(STRING), Len(x) <= Len(inner) PROVE Len(x) <= Len(s) - 1
    OBVIOUS
  <2>1. Len(x) \in Nat
    OBVIOUS
  <2> QED BY <1>1, <2>1
<1>5. \A T : Written(v, T) = <<"l">> \o Joined(T, Len(l)) \o <<"e">>
  BY WrittenKinds
<1> HIDE DEF v
<1>6. \A i \in DOMAIN Inside(v) : Readable(Inside(v)[i], Len(s) - 1)
  <2> SUFFICES ASSUME NEW i \in DOMAIN Inside(v) PROVE Readable(Inside(v)[i], Len(s) - 1)
    OBVIOUS
  <2>1. Readable(l[i], Len(inner)) /\ Inside(v)[i] = l[i]
    BY <1>2, <1>3 DEF ListGood
  <2> QED BY <1>4, <2>1 DEF Readable
<1>7. ASSUME NEW T, \A i \in DOMAIN Inside(v) : Back(Inside(v)[i], Len(s) - 1, T[i])
      PROVE  Written(v, T) = s
  <2>1. \A i \in 1 .. Len(l) : Back(l[i], Len(inner), T[i])
    <3> SUFFICES ASSUME NEW i \in 1 .. Len(l) PROVE Back(l[i], Len(inner), T[i])
      OBVIOUS
    <3>1. Back(l[i], Len(s) - 1, T[i])
      BY <1>3, <1>7
    <3> QED BY <1>4, <3>1 DEF Back
  <2>2. Joined(T, Len(l)) = inner
    BY <1>2, <2>1 DEF ListGood
  <2> QED BY <1>1, <1>5, <2>2
<1> QED BY <1>6, <1>7 DEF Rewritten, v

LEMMA DictRewritten ==
    ASSUME NEW s \in Seq(STRING), Len(s) >= 2, s[1] = "d", s[Len(s)] = "e",
           NEW d \in Meaning[<<"dict", Cut(s, 2, Len(s) - 1), TRUE>>]
    PROVE  Rewritten(s, [dict |-> d])
<1> DEFINE inner == Cut(s, 2, Len(s) - 1)
           v == [dict |-> d]
           K == KeysOf(d)
           n == Cardinality(DOMAIN d)
<1>1. Len(s) \in Nat /\ inner \in Seq(STRING) /\ Len(inner) = Len(s) - 2
      /\ s = <<"d">> \o inner \o <<"e">>
  BY Wrapped
<1>2. DictGood(inner, d)
  BY <1>1, DictWritten
<1>3. InOrder(K, d) /\ n \in Nat
  BY <1>2, KeysAre, FS_CardinalityType DEF DictGood, Keyed
<1>4. Inside(v) = [i \in DOMAIN K |-> d[K[i]]]
  BY WrittenKinds
<1>5. \A T : Written(v, T) = <<"d">> \o Joined([i \in DOMAIN K |-> EncodeText(K[i]) \o T[i]], Len(K)) \o <<"e">>
  BY WrittenKinds
<1> HIDE DEF inner, v, K
<1>6. K \in [1 .. n -> DOMAIN d] /\ DOMAIN K = 1 .. n
  BY <1>3 DEF InOrder
<1>7. Len(K) = n
  BY <1>3, <1>6
<1>8. \A x \in Seq(STRING) : Len(x) <= Len(inner) => Len(x) <= Len(s) - 1
  <2> SUFFICES ASSUME NEW x \in Seq(STRING), Len(x) <= Len(inner) PROVE Len(x) <= Len(s) - 1
    OBVIOUS
  <2>1. Len(x) \in Nat
    OBVIOUS
  <2> QED BY <1>1, <2>1
<1> HIDE DEF n
<1>9. \A i \in DOMAIN Inside(v) : Readable(Inside(v)[i], Len(s) - 1)
  <2> SUFFICES ASSUME NEW i \in DOMAIN Inside(v) PROVE Readable(Inside(v)[i], Len(s) - 1)
    OBVIOUS
  <2>1. K[i] \in DOMAIN d /\ Inside(v)[i] = d[K[i]]
    BY <1>4, <1>6
  <2>2. Readable(d[K[i]], Len(inner))
    BY <1>1, <1>2, <2>1, EntryShorter DEF DictGood
  <2> QED BY <1>8, <2>1, <2>2 DEF Readable
<1>10. ASSUME NEW T, \A i \in DOMAIN Inside(v) : Back(Inside(v)[i], Len(s) - 1, T[i])
       PROVE  Written(v, T) = s
  <2> DEFINE U == [i \in DOMAIN K |-> EncodeText(K[i]) \o T[i]]
  <2>1. \A i \in 1 .. n : EntryBack(K[i], d[K[i]], Len(inner), U[i])
    <3> SUFFICES ASSUME NEW i \in 1 .. n PROVE EntryBack(K[i], d[K[i]], Len(inner), U[i])
      OBVIOUS
    <3>1. Back(d[K[i]], Len(s) - 1, T[i]) /\ U[i] = EncodeText(K[i]) \o T[i]
      BY <1>4, <1>6, <1>10
    <3> HIDE DEF U
    <3> QED BY <1>8, <3>1 DEF Back, EntryBack
  <2>2. Written(v, T) = <<"d">> \o Joined(U, n) \o <<"e">>
    BY <1>5, <1>7
  <2> HIDE DEF U
  <2>3. Joined(U, n) = inner
    BY <1>2, <1>3, <2>1 DEF DictGood, n
  <2> QED BY <1>1, <2>2, <2>3
<1> QED BY <1>9, <1>10 DEF Rewritten, v

LEMMA WrittenBack ==
    ASSUME NEW s \in Seq(STRING), NEW v \in Values(s, TRUE)
    PROVE  Rewritten(s, v)
<1> DEFINE inner == Cut(s, 2, Len(s) - 1)
<1>1. Len(s) \in Nat /\ Len(s) >= 2
  BY StrictCases
<1>2. inner \in Seq(STRING) /\ s = <<s[1]>> \o inner \o <<s[Len(s)]>>
  BY <1>1, Wrapped
<1>3. \/ \E t \in Texts(s, TRUE) : v = [str |-> t]
      \/ s[1] = "i" /\ s[Len(s)] = "e" /\ Canonical(inner) /\ \E n \in ParseI64(inner) : v = [int |-> n]
      \/ s[1] = "l" /\ s[Len(s)] = "e" /\ \E l \in Meaning[<<"list", inner, TRUE>>] : v = [list |-> l]
      \/ s[1] = "d" /\ s[Len(s)] = "e" /\ \E d \in Meaning[<<"dict", inner, TRUE>>] : v = [dict |-> d]
  BY StrictCases
<1>4. CASE \E t \in Texts(s, TRUE) : v = [str |-> t]
  <2>1. PICK t \in Texts(s, TRUE) : v = [str |-> t]
    BY <1>4
  <2>2. s = EncodeText(t)
    BY TextWritten
  <2>3. Inside(v) = <<>> /\ \A T : Written(v, T) = s
    BY <2>1, <2>2, WrittenKinds
  <2> QED BY <2>3 DEF Rewritten
<1>5. CASE s[1] = "i" /\ s[Len(s)] = "e" /\ Canonical(inner) /\ \E n \in ParseI64(inner) : v = [int |-> n]
  <2>1. PICK n \in ParseI64(inner) : v = [int |-> n]
    BY <1>5
  <2> HIDE DEF inner
  <2>2. inner = EncodeNumber(n)
    BY <1>2, <1>5, NumberWritten
  <2>3. Inside(v) = <<>> /\ \A T : Written(v, T) = s
    BY <1>2, <1>5, <2>1, <2>2, WrittenKinds
  <2> QED BY <2>3 DEF Rewritten
<1>6. CASE s[1] = "l" /\ s[Len(s)] = "e" /\ \E l \in Meaning[<<"list", inner, TRUE>>] : v = [list |-> l]
  BY <1>1, <1>6, ListRewritten
<1>7. CASE s[1] = "d" /\ s[Len(s)] = "e" /\ \E d \in Meaning[<<"dict", inner, TRUE>>] : v = [dict |-> d]
  BY <1>1, <1>7, DictRewritten
<1> QED BY <1>3, <1>4, <1>5, <1>6, <1>7

-----------------------------------------------------------------------------
(* The levels of a value, and the texts at each. *)

PartsOf(u) == {Inside(u)[i] : i \in DOMAIN Inside(u)}
LevelAt(f, v, m) == IF m = 0 THEN {v} ELSE UNION {PartsOf(u) : u \in f[m - 1]}
LevelsTo(f, v, n) == f = [m \in 0 .. n |-> LevelAt(f, v, m)]

LEMMA LevelsExist == ASSUME NEW v PROVE \A n \in Nat : \E f : LevelsTo(f, v, n)
<1> DEFINE T == {n \in Nat : ~ \E f : LevelsTo(f, v, n)}
<1> SUFFICES ASSUME T # {} PROVE FALSE
  OBVIOUS
<1>1. PICK n \in T : \A m \in T : n <= m
  BY LeastNat
<1>2. CASE n = 0
  <2> DEFINE f == [m \in 0 .. 0 |-> {v}]
  <2>1. \A m \in 0 .. 0 : LevelAt(f, v, m) = {v}
    BY DEF LevelAt
  <2> HIDE DEF f
  <2>2. f = [m \in 0 .. 0 |-> LevelAt(f, v, m)]
    BY <2>1 DEF f
  <2> QED BY <1>1, <1>2, <2>2 DEF LevelsTo
<1>3. CASE n # 0
  <2>1. n \in Nat /\ n - 1 \in Nat /\ n - 1 \notin T
    BY <1>1, <1>3
  <2>2. PICK f : LevelsTo(f, v, n - 1)
    BY <2>1
  <2> DEFINE g == [m \in 0 .. n |-> LevelAt(f, v, m)]
  <2>3. \A m \in 0 .. (n - 1) : f[m] = LevelAt(f, v, m)
    BY <2>2 DEF LevelsTo
  <2>4. \A m \in 0 .. n : g[m] = LevelAt(f, v, m)
    OBVIOUS
  <2>5. ASSUME NEW m \in 0 .. n PROVE LevelAt(g, v, m) = LevelAt(f, v, m)
    <3>1. CASE m = 0
      BY <3>1 DEF LevelAt
    <3>2. CASE m # 0
      <4>1. m - 1 \in 0 .. (n - 1) /\ m - 1 \in 0 .. n
        BY <2>1, <3>2
      <4>2. g[m - 1] = f[m - 1]
        BY <2>3, <2>4, <4>1
      <4> HIDE DEF g
      <4> QED BY <3>2, <4>2 DEF LevelAt
    <3> QED BY <3>1, <3>2
  <2>6. g = [m \in 0 .. n |-> LevelAt(g, v, m)]
    BY <2>5
  <2> HIDE DEF g
  <2> QED BY <1>1, <2>6 DEF LevelsTo
<1> QED BY <1>2, <1>3

LEMMA LevelsAgree ==
    ASSUME NEW v, NEW n \in Nat, NEW k \in Nat, NEW f, NEW g,
           LevelsTo(f, v, n), LevelsTo(g, v, k)
    PROVE  \A m \in (0 .. n) \cap (0 .. k) : f[m] = g[m]
<1> DEFINE T == {m \in (0 .. n) \cap (0 .. k) : f[m] # g[m]}
<1> SUFFICES ASSUME T # {} PROVE FALSE
  OBVIOUS
<1>0. T \in SUBSET Nat
  OBVIOUS
<1>1. PICK m \in T : \A j \in T : m <= j
  BY <1>0, LeastNat
<1>2. m \in 0 .. n /\ m \in 0 .. k /\ m \in Nat /\ f[m] # g[m]
  BY <1>1
<1>3. f[m] = LevelAt(f, v, m) /\ g[m] = LevelAt(g, v, m)
  BY <1>2 DEF LevelsTo
<1>4. m # 0
  BY <1>2, <1>3 DEF LevelAt
<1>5. m - 1 \in (0 .. n) \cap (0 .. k) /\ m - 1 \notin T
  BY <1>1, <1>2, <1>4
<1>6. f[m - 1] = g[m - 1]
  BY <1>5
<1> QED BY <1>2, <1>3, <1>4, <1>6 DEF LevelAt

LEMMA LevelsUnfold ==
    ASSUME NEW v
    PROVE  /\ Levels(v)[0] = {v}
           /\ \A n \in Nat : Levels(v)[n + 1] = UNION {PartsOf(u) : u \in Levels(v)[n]}
<1> DEFINE F(n) == CHOOSE f : LevelsTo(f, v, n)
           g == [n \in Nat |-> F(n)[n]]
           L == Levels(v)
<1>1. \A n \in Nat : LevelsTo(F(n), v, n)
  BY LevelsExist
<1>2. L = CHOOSE f : f = [n \in Nat |-> LevelAt(f, v, n)]
  BY DEF Levels, LevelAt, PartsOf
<1>3. \A n \in Nat : g[n] = F(n)[n]
  OBVIOUS
<1> HIDE DEF F, L
<1>4. ASSUME NEW n \in Nat PROVE g[n] = LevelAt(g, v, n)
  <2>1. n \in 0 .. n
    OBVIOUS
  <2>2. F(n)[n] = LevelAt(F(n), v, n)
    BY <1>1, <2>1 DEF LevelsTo
  <2> HIDE DEF g
  <2>3. CASE n = 0
    BY <1>3, <2>2, <2>3 DEF LevelAt
  <2>4. CASE n # 0
    <3>1. n - 1 \in Nat /\ n - 1 \in (0 .. n) \cap (0 .. (n - 1))
      BY <2>4
    <3>2. F(n)[n - 1] = F(n - 1)[n - 1]
      BY <1>1, <3>1, LevelsAgree
    <3>3. g[n - 1] = F(n)[n - 1]
      BY <1>3, <3>1, <3>2
    <3> QED BY <1>3, <2>2, <2>4, <3>3 DEF LevelAt
  <2> QED BY <2>3, <2>4
<1>5. g = [n \in Nat |-> LevelAt(g, v, n)]
  BY <1>4
<1> HIDE DEF g
<1>6. L = [n \in Nat |-> LevelAt(L, v, n)]
  BY <1>2, <1>5
<1>7. L[0] = {v}
  BY <1>6 DEF LevelAt
<1>8. ASSUME NEW n \in Nat PROVE L[n + 1] = UNION {PartsOf(u) : u \in L[n]}
  <2>1. n + 1 \in Nat /\ n + 1 # 0 /\ n + 1 - 1 = n
    OBVIOUS
  <2> QED BY <1>6, <2>1 DEF LevelAt
<1> QED BY <1>7, <1>8 DEF L

\* A value has one text at most in the form of the encoder.
LEMMA OneText ==
    \A u : \A s, t \in Seq(STRING) : u \in Values(s, TRUE) /\ u \in Values(t, TRUE) => s = t
<1> DEFINE Same(n) == \A u : \A s, t \in Seq(STRING) :
                Len(s) <= n /\ Len(t) <= n /\ u \in Values(s, TRUE) /\ u \in Values(t, TRUE) => s = t
           B == {n \in Nat : ~Same(n)}
<1>1. SUFFICES ASSUME B # {} PROVE FALSE
  <2> SUFFICES ASSUME B = {}, NEW u, NEW s \in Seq(STRING), NEW t \in Seq(STRING),
                      u \in Values(s, TRUE), u \in Values(t, TRUE)
               PROVE  s = t
    OBVIOUS
  <2> DEFINE n == Len(s) + Len(t)
  <2>1. n \in Nat /\ Len(s) <= n /\ Len(t) <= n
    OBVIOUS
  <2> HIDE DEF n
  <2>2. Same(n)
    BY <2>1
  <2> QED BY <2>1, <2>2
<1>2. PICK n \in B : \A m \in B : n <= m
  BY <1>1, LeastNat
<1>3. n \in Nat /\ ~Same(n)
  BY <1>2
<1>40. PICK u : \E s, t \in Seq(STRING) :
         /\ Len(s) <= n /\ Len(t) <= n
         /\ u \in Values(s, TRUE) /\ u \in Values(t, TRUE) /\ s # t
  BY <1>3
<1>4. PICK s \in Seq(STRING), t \in Seq(STRING) :
         /\ Len(s) <= n /\ Len(t) <= n
         /\ u \in Values(s, TRUE) /\ u \in Values(t, TRUE) /\ s # t
  BY <1>40
<1>5. Len(s) \in Nat /\ Len(s) >= 2 /\ Rewritten(s, u) /\ Rewritten(t, u) /\ Len(t) \in Nat
  BY <1>4, StrictCases, WrittenBack
<1>6. n - 1 \in Nat /\ Len(s) - 1 <= n - 1 /\ Len(t) - 1 <= n - 1 /\ ~(n <= n - 1)
  BY <1>3, <1>4, <1>5
<1>7. Same(n - 1)
  BY <1>2, <1>6
<1> DEFINE T == [i \in DOMAIN Inside(u) |->
                   CHOOSE x \in Seq(STRING) : Len(x) <= Len(s) - 1 /\ Inside(u)[i] \in Values(x, TRUE)]
<1>8. ASSUME NEW i \in DOMAIN Inside(u)
      PROVE  Back(Inside(u)[i], Len(s) - 1, T[i]) /\ Back(Inside(u)[i], Len(t) - 1, T[i])
  <2> DEFINE w == Inside(u)[i]
             x == T[i]
  <2>1. Readable(w, Len(s) - 1)
    BY <1>5 DEF Rewritten
  <2>2. x \in Seq(STRING) /\ Len(x) <= Len(s) - 1 /\ w \in Values(x, TRUE)
    BY <2>1 DEF Readable
  <2> HIDE DEF T, w, x
  <2>3. Len(x) <= n - 1
    <3>1. Len(x) \in Nat
      BY <2>2
    <3> QED BY <1>3, <1>5, <1>6, <2>2, <3>1
  <2>4. ASSUME NEW y \in Seq(STRING), Len(y) <= Len(s) - 1 \/ Len(y) <= Len(t) - 1, w \in Values(y, TRUE)
        PROVE  x = y
    <3>1. Len(y) \in Nat
      OBVIOUS
    <3>2. Len(y) <= n - 1
      BY <1>3, <1>5, <1>6, <2>4, <3>1
    <3> QED BY <1>7, <2>2, <2>3, <2>4, <3>2
  <2>5. Back(w, Len(s) - 1, x) /\ Back(w, Len(t) - 1, x)
    BY <2>4 DEF Back
  <2> QED BY <2>5 DEF w, x
<1> HIDE DEF T
<1>9. Written(u, T) = s /\ Written(u, T) = t
  BY <1>5, <1>8 DEF Rewritten
<1> QED BY <1>4, <1>9

TextAt(f, v, n) ==
    [u \in Levels(v)[n] |-> Written(u, [i \in DOMAIN Inside(u) |-> f[n + 1][Inside(u)[i]]])]

LEMMA EncodeIs ==
    ASSUME NEW v
    PROVE  Encode(v) = (CHOOSE f : f = [n \in Nat |-> TextAt(f, v, n)])[0][v]
BY DEF Encode, TextAt

\* What was read in the form of the encoder is written back byte for byte: for
\* any nesting, encode_bencode_value gives the bytes that a value came from.
THEOREM EncodedAsRead ==
    ASSUME NEW s \in Seq(STRING), NEW v \in Values(s, TRUE)
    PROVE  Encode(v) = s
<1> DEFINE L == Levels(v)
           TextOf(u) == CHOOSE x \in Seq(STRING) : u \in Values(x, TRUE)
           Read(u) == \E x \in Seq(STRING) : u \in Values(x, TRUE)
           h == [n \in Nat |-> [u \in L[n] |-> TextOf(u)]]
           g == CHOOSE f : f = [n \in Nat |-> TextAt(f, v, n)]
<1>1. L[0] = {v} /\ \A n \in Nat : L[n + 1] = UNION {PartsOf(u) : u \in L[n]}
  BY LevelsUnfold
<1>2. \A u : \A x \in Seq(STRING) : u \in Values(x, TRUE) => TextOf(u) = x
  BY OneText
<1>3. Encode(v) = g[0][v]
  BY EncodeIs
<1>4. \A n \in Nat : h[n] = [u \in L[n] |-> TextOf(u)]
  OBVIOUS
<1>5. \A f, n : TextAt(f, v, n) =
         [u \in L[n] |-> Written(u, [i \in DOMAIN Inside(u) |-> f[n + 1][Inside(u)[i]]])]
  BY DEF TextAt
<1> HIDE DEF L, TextOf, h
<1>6. ASSUME NEW n \in Nat, NEW u \in L[n], NEW i \in DOMAIN Inside(u)
      PROVE  Inside(u)[i] \in L[n + 1]
  BY <1>1 DEF PartsOf
<1>7. ASSUME NEW u, Read(u)
      PROVE  /\ Rewritten(TextOf(u), u) /\ TextOf(u) \in Seq(STRING)
             /\ \A i \in DOMAIN Inside(u) : Read(Inside(u)[i])
  <2>1. PICK x \in Seq(STRING) : u \in Values(x, TRUE)
    BY <1>7
  <2>2. x = TextOf(u) /\ Rewritten(x, u)
    BY <1>2, <2>1, WrittenBack
  <2> QED BY <2>2 DEF Rewritten, Readable
<1>8. \A n \in Nat : \A u \in L[n] : Read(u)
  <2> DEFINE B == {n \in Nat : ~ \A u \in L[n] : Read(u)}
  <2> SUFFICES ASSUME B # {} PROVE FALSE
    OBVIOUS
  <2>1. PICK n \in B : \A m \in B : n <= m
    BY LeastNat
  <2>2. n # 0
    BY <1>1, <2>1
  <2>3. n \in Nat /\ n - 1 \in Nat /\ n - 1 \notin B /\ n - 1 + 1 = n
    <3>1. n \in Nat
      BY <2>1
    <3>2. n - 1 \in Nat /\ n - 1 + 1 = n /\ ~(n <= n - 1)
      BY <2>2, <3>1
    <3> HIDE DEF B
    <3> QED BY <2>1, <3>1, <3>2
  <2>4. \A u \in L[n - 1] : Read(u)
    BY <2>3
  <2>5. L[n] = UNION {PartsOf(u) : u \in L[n - 1]}
    BY <1>1, <2>3
  <2>6. \A w \in L[n] : Read(w)
    <3> SUFFICES ASSUME NEW w \in L[n] PROVE Read(w)
      OBVIOUS
    <3>1. PICK u \in L[n - 1] : w \in PartsOf(u)
      BY <2>5
    <3>2. PICK i \in DOMAIN Inside(u) : w = Inside(u)[i]
      BY <3>1 DEF PartsOf
    <3>3. Read(u)
      BY <2>4
    <3> HIDE DEF Read
    <3> QED BY <1>7, <3>2, <3>3
  <2> QED BY <2>1, <2>6
<1> HIDE DEF Read
<1>9. h = [n \in Nat |-> TextAt(h, v, n)]
  <2>1. ASSUME NEW n \in Nat, NEW u \in L[n]
        PROVE  Written(u, [i \in DOMAIN Inside(u) |-> h[n + 1][Inside(u)[i]]]) = TextOf(u)
    <3> DEFINE T == [i \in DOMAIN Inside(u) |-> h[n + 1][Inside(u)[i]]]
    <3>1. ASSUME NEW i \in DOMAIN Inside(u) PROVE Back(Inside(u)[i], Len(TextOf(u)) - 1, T[i])
      <4>1. n + 1 \in Nat /\ Inside(u)[i] \in L[n + 1]
        BY <1>6
      <4>2. T[i] = TextOf(Inside(u)[i])
        BY <1>4, <4>1
      <4> HIDE DEF T
      <4> QED BY <1>2, <4>2 DEF Back
    <3> HIDE DEF T
    <3>2. Written(u, T) = TextOf(u)
      BY <1>7, <1>8, <3>1 DEF Rewritten
    <3> QED BY <3>2 DEF T
  <2>2. ASSUME NEW n \in Nat PROVE h[n] = TextAt(h, v, n)
    <3>1. TextAt(h, v, n) = [u \in L[n] |-> Written(u, [i \in DOMAIN Inside(u) |-> h[n + 1][Inside(u)[i]]])]
      BY <1>5
    <3>2. TextAt(h, v, n) = [u \in L[n] |-> TextOf(u)]
      BY <2>1, <3>1
    <3> QED BY <1>4, <3>2
  <2>3. h = [n \in Nat |-> h[n]]
    BY DEF h
  <2> QED BY <2>2, <2>3
<1>10. g = [n \in Nat |-> TextAt(g, v, n)]
  BY <1>9
<1> HIDE DEF g
<1> DEFINE B == {k \in Nat : \E n \in Nat : \E u \in L[n] : k = Len(TextOf(u)) /\ g[n][u] # TextOf(u)}
<1>11. B = {}
  <2> SUFFICES ASSUME B # {} PROVE FALSE
    OBVIOUS
  <2>1. PICK k \in B : \A m \in B : k <= m
    BY LeastNat
  <2>2. PICK n \in Nat : \E u \in L[n] : k = Len(TextOf(u)) /\ g[n][u] # TextOf(u)
    BY <2>1
  <2>3. PICK u \in L[n] : k = Len(TextOf(u)) /\ g[n][u] # TextOf(u)
    BY <2>2
  <2>4. k \in Nat /\ Rewritten(TextOf(u), u)
    BY <1>7, <1>8, <2>1
  <2> DEFINE T == [i \in DOMAIN Inside(u) |-> g[n + 1][Inside(u)[i]]]
  <2>5. ASSUME NEW i \in DOMAIN Inside(u) PROVE Back(Inside(u)[i], k - 1, T[i])
    <3> DEFINE w == Inside(u)[i]
    <3>1. n + 1 \in Nat /\ w \in L[n + 1] /\ T[i] = g[n + 1][w]
      BY <1>6
    <3>2. Readable(w, k - 1)
      BY <2>3, <2>4 DEF Rewritten
    <3> HIDE DEF w, T
    <3>3. PICK x \in Seq(STRING) : Len(x) <= k - 1 /\ w \in Values(x, TRUE)
      BY <3>2 DEF Readable
    <3>4. TextOf(w) = x
      BY <1>2, <3>3
    <3>5. Len(x) \in Nat /\ ~(k <= Len(x))
      BY <2>4, <3>3
    <3>6. Len(x) \notin B
      <4> HIDE DEF B
      <4> QED BY <2>1, <3>5
    <3>7. g[n + 1][w] = TextOf(w)
      BY <3>1, <3>4, <3>5, <3>6
    <3>8. Back(w, k - 1, T[i])
      BY <1>2, <3>1, <3>7 DEF Back
    <3> QED BY <3>8 DEF w
  <2> HIDE DEF B, T
  <2>6. Written(u, T) = TextOf(u)
    BY <2>3, <2>4, <2>5 DEF Rewritten
  <2>7. g[n] = TextAt(g, v, n)
    BY <1>10
  <2>8. g[n][u] = Written(u, T)
    BY <1>5, <2>7 DEF T
  <2> QED BY <2>3, <2>6, <2>8
<1>12. TextOf(v) = s
  BY <1>2
<1>13. g[0][v] = s
  <2>1. 0 \in Nat /\ v \in L[0] /\ Len(s) \in Nat
    BY <1>1
  <2> QED BY <1>11, <1>12, <2>1
<1> QED BY <1>3, <1>13

-----------------------------------------------------------------------------
(* What is read strictly is also read. *)

LEMMA LooseUnfold ==
    ASSUME NEW s \in Seq(STRING)
    PROVE  /\ Values(s, FALSE) = ValueOf(Meaning, s, FALSE)
           /\ Meaning[<<"value", s, FALSE>>] = Values(s, FALSE)
           /\ Meaning[<<"list", s, FALSE>>] = ListOf(Meaning, s, FALSE)
           /\ Meaning[<<"dict", s, FALSE>>] = DictOf(Meaning, s, FALSE)
<1>1. FALSE \in BOOLEAN
  OBVIOUS
<1>2. /\ <<"value", s, FALSE>> \in Word /\ <<"list", s, FALSE>> \in Word
      /\ <<"dict", s, FALSE>> \in Word
  BY <1>1 DEF Word
<1> QED BY <1>2, MeaningUnfolds DEF Values, Body

LEMMA TextsLoosened == \A s : Texts(s, TRUE) \subseteq Texts(s, FALSE)
BY DEF Texts

\* Each reading of s in the form of the encoder is a reading of s.
LooseToo(s) ==
    /\ Meaning[<<"list", s, TRUE>>] \subseteq Meaning[<<"list", s, FALSE>>]
    /\ Meaning[<<"dict", s, TRUE>>] \subseteq Meaning[<<"dict", s, FALSE>>]

LEMMA ValueLoosened ==
    ASSUME NEW s \in Seq(STRING), Len(s) >= 2 => LooseToo(Cut(s, 2, Len(s) - 1))
    PROVE  Values(s, TRUE) \subseteq Values(s, FALSE)
<1> DEFINE inner == Cut(s, 2, Len(s) - 1)
           F == ValueOf(Meaning, s, FALSE)
           L == Meaning[<<"list", inner, FALSE>>]
           D == Meaning[<<"dict", inner, FALSE>>]
<1> SUFFICES ASSUME NEW v \in Values(s, TRUE) PROVE v \in F
  BY LooseUnfold
<1>1. Len(s) \in Nat /\ Len(s) >= 2
  BY StrictCases
<1>2. ~(Len(s) < 2)
  BY <1>1
<1>3. LooseToo(inner)
  BY <1>1
<1>4. F = CASE s[1] \in Digit -> {[str |-> t] : t \in Texts(s, FALSE)}
            [] s[1] = "i" /\ s[Len(s)] = "e" /\ (\A j \in DOMAIN inner : inner[j] # "e") ->
                   {[int |-> n] : n \in {n \in ParseI64(inner) : FALSE => Canonical(inner)}}
            [] s[1] = "l" /\ s[Len(s)] = "e" -> {[list |-> l] : l \in L}
            [] s[1] = "d" /\ s[Len(s)] = "e" -> {[dict |-> d] : d \in D}
            [] OTHER -> {}
  BY <1>2 DEF ValueOf
<1> DEFINE LT == Meaning[<<"list", inner, TRUE>>]
           DT == Meaning[<<"dict", inner, TRUE>>]
<1>5. v \in CASE s[1] \in Digit -> {[str |-> t] : t \in Texts(s, TRUE)}
            [] s[1] = "i" /\ s[Len(s)] = "e" /\ (\A j \in DOMAIN inner : inner[j] # "e") ->
                   {[int |-> n] : n \in {n \in ParseI64(inner) : TRUE => Canonical(inner)}}
            [] s[1] = "l" /\ s[Len(s)] = "e" -> {[list |-> l] : l \in LT}
            [] s[1] = "d" /\ s[Len(s)] = "e" -> {[dict |-> d] : d \in DT}
            [] OTHER -> {}
  BY <1>2, StrictUnfold DEF ValueOf
<1>6. LT \subseteq L /\ DT \subseteq D
  BY <1>3 DEF LooseToo
<1> HIDE DEF L, D, LT, DT, F, inner
<1>7. CASE s[1] \in Digit
  <2>1. v \in {[str |-> t] : t \in Texts(s, TRUE)}
    BY <1>5, <1>7, ByteIs
  <2>2. v \in {[str |-> t] : t \in Texts(s, FALSE)}
    BY <2>1, TextsLoosened
  <2> QED BY <1>4, <1>7, <2>2, ByteIs
<1>8. CASE s[1] = "i" /\ s[Len(s)] = "e" /\ (\A j \in DOMAIN inner : inner[j] # "e")
  <2>1. v \in {[int |-> n] : n \in {n \in ParseI64(inner) : TRUE => Canonical(inner)}}
    BY <1>5, <1>8, ByteIs
  <2>2. v \in {[int |-> n] : n \in {n \in ParseI64(inner) : FALSE => Canonical(inner)}}
    BY <2>1
  <2> QED BY <1>4, <1>8, <2>2, ByteIs
<1>9. CASE s[1] = "l" /\ s[Len(s)] = "e"
  <2>1. v \in {[list |-> l] : l \in LT}
    BY <1>5, <1>9, ByteIs
  <2>2. v \in {[list |-> l] : l \in L}
    BY <1>6, <2>1
  <2> QED BY <1>4, <1>9, <2>2, ByteIs
<1>10. CASE s[1] = "d" /\ s[Len(s)] = "e"
  <2>1. v \in {[dict |-> d] : d \in DT}
    BY <1>5, <1>10, ByteIs
  <2>2. v \in {[dict |-> d] : d \in D}
    BY <1>6, <2>1
  <2> QED BY <1>4, <1>10, <2>2, ByteIs
<1> QED BY <1>5, <1>7, <1>8, <1>9, <1>10

LEMMA ListLoosened ==
    ASSUME NEW s \in Seq(STRING),
           \A r \in Seq(STRING) : Len(r) <= Len(s) => Values(r, TRUE) \subseteq Values(r, FALSE),
           \A r \in Seq(STRING) : Len(r) < Len(s) => LooseToo(r)
    PROVE  Meaning[<<"list", s, TRUE>>] \subseteq Meaning[<<"list", s, FALSE>>]
<1> SUFFICES ASSUME NEW l \in ListOf(Meaning, s, TRUE) PROVE l \in ListOf(Meaning, s, FALSE)
  BY StrictUnfold, LooseUnfold
<1>1. CASE s = <<>>
  BY <1>1 DEF ListOf
<1>2. CASE s # <<>>
  <2>1. SplitsOff(Meaning, s, TRUE, l)
    BY <1>2, ListSplit
  <2>2. PICK i \in DOMAIN s : \E v \in Meaning[<<"value", Cut(s, 1, i), TRUE>>] :
             \E m \in Meaning[<<"list", Cut(s, i + 1, Len(s)), TRUE>>] : l = <<v>> \o m
    BY <2>1 DEF SplitsOff
  <2> DEFINE a == Cut(s, 1, i)
             b == Cut(s, i + 1, Len(s))
  <2>3. i \in 0 .. Len(s) /\ i \in 1 .. Len(s) /\ Len(s) \in Nat
    OBVIOUS
  <2>4. a \in Seq(STRING) /\ Len(a) <= Len(s) /\ b \in Seq(STRING) /\ Len(b) < Len(s)
    <3>1. a \in Seq(STRING) /\ Len(a) = i /\ b \in Seq(STRING) /\ Len(b) = Len(s) - i
      BY <2>3, Halves
    <3> HIDE DEF a, b
    <3> QED BY <2>3, <3>1
  <2> HIDE DEF a, b
  <2>5. \E v \in Meaning[<<"value", a, TRUE>>] : \E m \in Meaning[<<"list", b, TRUE>>] : l = <<v>> \o m
    BY <2>2 DEF a, b
  <2>6. Meaning[<<"value", a, TRUE>>] \subseteq Meaning[<<"value", a, FALSE>>]
    BY <2>4, StrictUnfold, LooseUnfold
  <2>7. Meaning[<<"list", b, TRUE>>] \subseteq Meaning[<<"list", b, FALSE>>]
    BY <2>4 DEF LooseToo
  <2>8. \E v \in Meaning[<<"value", a, FALSE>>] : \E m \in Meaning[<<"list", b, FALSE>>] : l = <<v>> \o m
    BY <2>5, <2>6, <2>7
  <2>9. SplitsOff(Meaning, s, FALSE, l)
    BY <2>8 DEF a, b, SplitsOff
  <2> QED BY <1>2, <2>9, ListSplit
<1> QED BY <1>1, <1>2

LEMMA DictLoosened ==
    ASSUME NEW s \in Seq(STRING),
           \A r \in Seq(STRING) : Len(r) <= Len(s) => Values(r, TRUE) \subseteq Values(r, FALSE),
           \A r \in Seq(STRING) : Len(r) < Len(s) => LooseToo(r)
    PROVE  Meaning[<<"dict", s, TRUE>>] \subseteq Meaning[<<"dict", s, FALSE>>]
<1> SUFFICES ASSUME NEW d \in DictOf(Meaning, s, TRUE) PROVE d \in DictOf(Meaning, s, FALSE)
  BY StrictUnfold, LooseUnfold
<1>1. CASE s = <<>>
  BY <1>1 DEF DictOf
<1>2. CASE s # <<>>
  <2>1. Splits(Meaning, s, TRUE, d)
    BY <1>2, DictSplit
  <2>2. PICK i \in DOMAIN s : \E k \in Texts(Cut(s, 1, i), TRUE) : \E j \in (i + 1) .. Len(s) :
             \E v \in Meaning[<<"value", Cut(s, i + 1, j), TRUE>>] :
             \E e \in Meaning[<<"dict", Cut(s, j + 1, Len(s)), TRUE>>] : d = Under(e, k, v)
    BY <2>1 DEF Splits
  <2>3. PICK k \in Texts(Cut(s, 1, i), TRUE), j \in (i + 1) .. Len(s) :
             \E v \in Meaning[<<"value", Cut(s, i + 1, j), TRUE>>] :
             \E e \in Meaning[<<"dict", Cut(s, j + 1, Len(s)), TRUE>>] : d = Under(e, k, v)
    BY <2>2
  <2> DEFINE c == Cut(s, i + 1, j)
             b == Cut(s, j + 1, Len(s))
             m == i + 1
  <2>4. Len(s) \in Nat /\ i \in 1 .. Len(s) /\ j \in 0 .. Len(s) /\ j >= i + 1
        /\ m \in 1 .. (Len(s) + 1) /\ j \in (m - 1) .. Len(s) /\ m >= 2
    OBVIOUS
  <2>5. c \in Seq(STRING) /\ Len(c) <= Len(s)
    <3> HIDE DEF m
    <3>1. Cut(s, m, j) \in Seq(STRING) /\ Len(Cut(s, m, j)) = j - m + 1
      BY <2>4, CutFacts
    <3>2. c = Cut(s, m, j)
      BY DEF m
    <3> HIDE DEF c
    <3> QED BY <2>4, <3>1, <3>2
  <2>6. b \in Seq(STRING) /\ Len(b) < Len(s)
    <3>1. b \in Seq(STRING) /\ Len(b) = Len(s) - j
      BY <2>4, Halves
    <3> HIDE DEF b
    <3> QED BY <2>4, <3>1
  <2> HIDE DEF c, b, m
  <2>7. \E v \in Meaning[<<"value", c, TRUE>>] : \E e \in Meaning[<<"dict", b, TRUE>>] : d = Under(e, k, v)
    BY <2>3 DEF c, b
  <2>8. Meaning[<<"value", c, TRUE>>] \subseteq Meaning[<<"value", c, FALSE>>]
    BY <2>5, StrictUnfold, LooseUnfold
  <2>9. Meaning[<<"dict", b, TRUE>>] \subseteq Meaning[<<"dict", b, FALSE>>]
    BY <2>6 DEF LooseToo
  <2>10. \E v \in Meaning[<<"value", c, FALSE>>] : \E e \in Meaning[<<"dict", b, FALSE>>] : d = Under(e, k, v)
    BY <2>7, <2>8, <2>9
  <2>11. k \in Texts(Cut(s, 1, i), FALSE)
    BY TextsLoosened
  <2>12. Splits(Meaning, s, FALSE, d)
    BY <2>10, <2>11 DEF c, b, Splits
  <2> QED BY <1>2, <2>12, DictSplit
<1> QED BY <1>1, <1>2

LEMMA StrictIsLoose ==
    \A s \in Seq(STRING) : Values(s, TRUE) \subseteq Values(s, FALSE)
<1> DEFINE Good(s) == Values(s, TRUE) \subseteq Values(s, FALSE) /\ LooseToo(s)
           B == {n \in Nat : \E s \in Seq(STRING) : Len(s) = n /\ ~Good(s)}
<1>1. SUFFICES ASSUME B # {} PROVE FALSE
  <2> SUFFICES ASSUME B = {}, NEW s \in Seq(STRING) PROVE Good(s)
    OBVIOUS
  <2>1. Len(s) \in Nat
    OBVIOUS
  <2> HIDE DEF Good
  <2> QED BY <2>1
<1> HIDE DEF Good
<1>2. PICK n \in B : \A m \in B : n <= m
  BY <1>1, LeastNat
<1>3. PICK s \in Seq(STRING) : Len(s) = n /\ ~Good(s)
  BY <1>2
<1>4. n \in Nat /\ \A r \in Seq(STRING) : Len(r) < n => Good(r)
  <2>1. n \in Nat
    BY <1>2
  <2>2. ASSUME NEW r \in Seq(STRING), Len(r) < n PROVE Good(r)
    <3>1. Len(r) \in Nat /\ ~(n <= Len(r))
      BY <2>1, <2>2
    <3>2. Len(r) \notin B
      <4> HIDE DEF B
      <4> QED BY <1>2, <3>1
    <3> QED BY <3>1, <3>2
  <2> QED BY <2>1, <2>2
<1>5. ASSUME NEW r \in Seq(STRING), Len(r) <= n PROVE Values(r, TRUE) \subseteq Values(r, FALSE)
  <2>1. Len(r) >= 2 => LooseToo(Cut(r, 2, Len(r) - 1))
    <3> SUFFICES ASSUME Len(r) >= 2 PROVE LooseToo(Cut(r, 2, Len(r) - 1))
      OBVIOUS
    <3> DEFINE i == Cut(r, 2, Len(r) - 1)
    <3>1. Len(r) \in Nat
      OBVIOUS
    <3> HIDE DEF B
    <3>2. i \in Seq(STRING) /\ Len(i) = Len(r) - 2
      BY Wrapped
    <3> HIDE DEF i
    <3>3. Len(i) < n
      BY <1>4, <1>5, <3>1, <3>2
    <3>4. LooseToo(i)
      BY <1>4, <3>2, <3>3 DEF Good
    <3> QED BY <3>4 DEF i
  <2> QED BY <2>1, ValueLoosened
<1>6. \A r \in Seq(STRING) : Len(r) <= Len(s) => Values(r, TRUE) \subseteq Values(r, FALSE)
  BY <1>3, <1>5
<1>7. \A r \in Seq(STRING) : Len(r) < Len(s) => LooseToo(r)
  BY <1>3, <1>4 DEF Good
<1>8. Values(s, TRUE) \subseteq Values(s, FALSE)
  <2>1. Len(s) <= n
    BY <1>3, <1>4
  <2> QED BY <1>5, <2>1
<1>9. LooseToo(s)
  <2>1. Meaning[<<"list", s, TRUE>>] \subseteq Meaning[<<"list", s, FALSE>>]
    BY <1>6, <1>7, ListLoosened
  <2>2. Meaning[<<"dict", s, TRUE>>] \subseteq Meaning[<<"dict", s, FALSE>>]
    BY <1>6, <1>7, DictLoosened
  <2> QED BY <2>1, <2>2 DEF LooseToo
<1> QED BY <1>3, <1>8, <1>9 DEF Good

-----------------------------------------------------------------------------
(* Where the entry of a key is. *)

LEMMA EntryFollowed ==
    ASSUME NEW x \in Seq(STRING), NEW s \in Seq(STRING), NEW k, NEW v, HoldsEntry(s, k, v)
    PROVE  HoldsEntry(s \o x, k, v)
<1> DEFINE t == EncodeText(k)
<1>1. t \in Seq(STRING) /\ \E a, c, b \in Seq(STRING) : v \in Values(c, TRUE) /\ s = a \o (t \o (c \o b))
  BY DEF HoldsEntry
<1>2. PICK a, c, b \in Seq(STRING) : v \in Values(c, TRUE) /\ s = a \o (t \o (c \o b))
  BY <1>1
<1> HIDE DEF t
<1> DEFINE y == c \o b
           z == t \o y
           w == b \o x
<1>3. y \in Seq(STRING) /\ w \in Seq(STRING) /\ c \o w = y \o x
  BY Associative, ConcatProperties
<1>4. s = a \o z
  BY <1>2
<1> HIDE DEF y
<1>5. z \in Seq(STRING) /\ z \o x = t \o (y \o x)
  <2>1. t \o y \in Seq(STRING)
    BY <1>1, <1>3, ConcatProperties
  <2>2. \A b1, b2 \in Seq(STRING) : (t \o b1) \o b2 = t \o (b1 \o b2)
    BY <1>1, Associative
  <2> QED BY <1>3, <2>1, <2>2
<1> HIDE DEF z, w
<1>6. s \o x = a \o (z \o x)
  <2>1. \A b1, b2 \in Seq(STRING) : (a \o b1) \o b2 = a \o (b1 \o b2)
    BY Associative
  <2> QED BY <1>4, <1>5, <2>1
<1>7. s \o x = a \o (t \o (c \o w))
  BY <1>3, <1>5, <1>6
<1> QED BY <1>1, <1>2, <1>3, <1>7 DEF HoldsEntry, t

\* A dictionary at the front of some bytes: its entries are among them.
LEMMA EntryInFile ==
    ASSUME NEW s \in Seq(STRING), NEW n \in 0 .. Len(s),
           NEW v \in Values(Cut(s, 1, n), TRUE), "dict" \in DOMAIN v, NEW k \in DOMAIN v.dict
    PROVE  HoldsEntry(s, k, v.dict[k])
<1> DEFINE S == Cut(s, 1, n)
           rest == Cut(s, n + 1, Len(s))
           inner == Cut(S, 2, Len(S) - 1)
<1>1. S \in Seq(STRING) /\ rest \in Seq(STRING) /\ s = S \o rest
  BY Halves
<1> HIDE DEF S, rest
<1>2. Len(S) \in Nat /\ Len(S) >= 2
  BY <1>1, StrictCases DEF S
<1>3. PICK d \in Meaning[<<"dict", inner, TRUE>>] : v = [dict |-> d]
  <2>1. \/ \E t \in Texts(S, TRUE) : v = [str |-> t]
        \/ \E m \in ParseI64(inner) : v = [int |-> m]
        \/ \E l \in Meaning[<<"list", inner, TRUE>>] : v = [list |-> l]
        \/ \E d \in Meaning[<<"dict", inner, TRUE>>] : v = [dict |-> d]
    BY <1>1, StrictCases DEF S
  <2> HIDE DEF inner
  <2>2. /\ \A t : "dict" \notin DOMAIN [str |-> t]
        /\ \A m : "dict" \notin DOMAIN [int |-> m]
        /\ \A l : "dict" \notin DOMAIN [list |-> l]
    OBVIOUS
  <2> QED BY <2>1, <2>2
<1>4. inner \in Seq(STRING) /\ S = <<S[1]>> \o inner \o <<S[Len(S)]>>
  BY <1>1, <1>2, Wrapped
<1>5. <<S[1]>> \in Seq(STRING) /\ <<S[Len(S)]>> \in Seq(STRING)
  BY <1>1, <1>2
<1>6. DictGood(inner, d)
  BY <1>4, DictWritten
<1> DEFINE f == <<S[1]>>
           e == <<S[Len(S)]>>
           x == v.dict[k]
<1>7. HoldsEntry(inner, k, x)
  BY <1>3, <1>6 DEF DictGood
<1> HIDE DEF inner, f, e, x
<1>8. HoldsEntry(f \o inner, k, x) /\ f \o inner \in Seq(STRING)
  BY <1>4, <1>5, <1>7, EntryLonger, ConcatProperties DEF f
<1>9. HoldsEntry((f \o inner) \o e, k, x)
  BY <1>5, <1>8, EntryFollowed DEF e
<1>10. HoldsEntry(S, k, x)
  BY <1>4, <1>9 DEF f, e
<1>11. HoldsEntry(S \o rest, k, x)
  BY <1>1, <1>10, EntryFollowed
<1> QED BY <1>1, <1>11 DEF x

LEMMA MiddleIs ==
    \A x, y, z \in Seq(STRING) :
        /\ Len(x \o (y \o z)) = Len(x) + Len(y) + Len(z)
        /\ Cut(x \o (y \o z), Len(x) + 1, Len(x) + Len(y)) = y
<1> SUFFICES ASSUME NEW x \in Seq(STRING), NEW y \in Seq(STRING), NEW z \in Seq(STRING)
             PROVE  /\ Len(x \o (y \o z)) = Len(x) + Len(y) + Len(z)
                    /\ Cut(x \o (y \o z), Len(x) + 1, Len(x) + Len(y)) = y
  OBVIOUS
<1> DEFINE s == x \o (y \o z)
           w == y \o z
           p == Len(x)
           q == Len(y)
           c == Cut(s, p + 1, p + q)
<1>1. p \in Nat /\ q \in Nat /\ Len(z) \in Nat
  OBVIOUS
<1>2. /\ y \o z \in Seq(STRING) /\ Len(y \o z) = Len(y) + Len(z)
      /\ \A i \in 1 .. (Len(y) + Len(z)) : (y \o z)[i] = IF i <= Len(y) THEN y[i] ELSE z[i - Len(y)]
  BY ConcatProperties
<1>3. w \in Seq(STRING) /\ Len(w) = q + Len(z) /\ \A i \in 1 .. q : w[i] = y[i]
  BY <1>1, <1>2
<1> HIDE DEF w, p, q
<1>4. /\ x \o w \in Seq(STRING) /\ Len(x \o w) = Len(x) + Len(w)
      /\ \A i \in 1 .. (Len(x) + Len(w)) : (x \o w)[i] = IF i <= Len(x) THEN x[i] ELSE w[i - Len(x)]
  BY <1>3, ConcatProperties
<1>5. s = x \o w
  BY DEF w
<1> HIDE DEF s
<1>6. s \in Seq(STRING) /\ Len(s) = p + q + Len(z)
  BY <1>1, <1>3, <1>4, <1>5 DEF p
<1>7. \A i \in 1 .. q : s[p + i] = y[i]
  <2> SUFFICES ASSUME NEW i \in 1 .. q PROVE s[p + i] = y[i]
    OBVIOUS
  <2>1. p + i \in 1 .. (Len(x) + Len(w)) /\ ~(p + i <= Len(x)) /\ p + i - Len(x) = i
    BY <1>1, <1>3 DEF p
  <2> QED BY <1>3, <1>4, <1>5, <2>1 DEF p
<1>8. c \in Seq(STRING) /\ Len(c) = q /\ \A i \in 1 .. q : c[i] = y[i]
  <2> DEFINE m == p + 1
             n == p + q
  <2>1. m \in 1 .. (Len(s) + 1) /\ n \in (m - 1) .. Len(s) /\ n - m + 1 = q
    BY <1>1, <1>6
  <2> HIDE DEF p, q
  <2>2. \A i \in 1 .. q : c[i] = s[p + i]
    BY <1>1, <1>6 DEF Cut
  <2> HIDE DEF m, n
  <2>3. Cut(s, m, n) \in Seq(STRING) /\ Len(Cut(s, m, n)) = n - m + 1
    BY <1>6, <2>1, CutFacts
  <2> QED BY <1>7, <2>1, <2>2, <2>3 DEF m, n
<1> HIDE DEF c
<1>9. c = y
  BY <1>8, SeqEqual DEF q
<1> QED BY <1>6, <1>9 DEF c, p, q, s

LEMMA InfoKey == EncodeText(<<"info">>) = <<"1", ":", "info">>
<1> DEFINE S == {"1", ":", "info"}
<1>1. Numeral(1) = <<"1">>
  <2>1. Numeral(1) = <<>> \o <<Digits[1 + 1]>>
    <3>1. 1 \in Nat /\ 1 < 10 /\ 1 % 10 = 1
      OBVIOUS
    <3> QED BY <3>1, NumeralUnfolds
  <2>2. Digits[1 + 1] = "1"
    BY DEF Digits
  <2> QED BY <2>1, <2>2
<1>2. Len(<<"info">>) = 1
  OBVIOUS
<1>3. EncodeText(<<"info">>) = <<"1">> \o <<":">> \o <<"info">>
  BY <1>1, <1>2 DEF EncodeText
<1>4. <<"1">> \o <<":">> = <<"1", ":">>
  <2> DEFINE a == <<"1">>
             b == <<":">>
             c == <<"1", ":">>
  <2>1. /\ a \in Seq(S) /\ Len(a) = 1 /\ a[1] = "1"
        /\ b \in Seq(S) /\ Len(b) = 1 /\ b[1] = ":"
        /\ c \in Seq(S) /\ Len(c) = 2 /\ c[1] = "1" /\ c[2] = ":"
    <3>1. a \in Seq(S) /\ Len(a) = 1 /\ a[1] = "1"
      OBVIOUS
    <3>2. b \in Seq(S) /\ Len(b) = 1 /\ b[1] = ":"
      OBVIOUS
    <3>3. c \in Seq(S) /\ Len(c) = 2
      OBVIOUS
    <3>4. c[1] = "1" /\ c[2] = ":"
      OBVIOUS
    <3> QED BY <3>1, <3>2, <3>3, <3>4
  <2> HIDE DEF a, b, c
  <2>2. a \o b \in Seq(S) /\ Len(a \o b) = 2 /\ (a \o b)[1] = "1" /\ (a \o b)[2] = ":"
    BY <2>1, ConcatProperties
  <2>3. \A i \in 1 .. Len(c) : (a \o b)[i] = c[i]
    BY <2>1, <2>2
  <2>4. a \o b = c
    BY <2>1, <2>2, <2>3, SeqEqual
  <2> QED BY <2>4 DEF a, b, c
<1>5. <<"1", ":">> \o <<"info">> = <<"1", ":", "info">>
  <2> DEFINE a == <<"1", ":">>
             b == <<"info">>
             c == <<"1", ":", "info">>
  <2>1. /\ a \in Seq(S) /\ Len(a) = 2 /\ a[1] = "1" /\ a[2] = ":"
        /\ b \in Seq(S) /\ Len(b) = 1 /\ b[1] = "info"
        /\ c \in Seq(S) /\ Len(c) = 3 /\ c[1] = "1" /\ c[2] = ":" /\ c[3] = "info"
    <3>1. a \in Seq(S) /\ Len(a) = 2
      OBVIOUS
    <3>2. a[1] = "1" /\ a[2] = ":"
      OBVIOUS
    <3>3. b \in Seq(S) /\ Len(b) = 1 /\ b[1] = "info"
      OBVIOUS
    <3>4. c \in Seq(S) /\ Len(c) = 3
      OBVIOUS
    <3>5. c[1] = "1" /\ c[2] = ":" /\ c[3] = "info"
      OBVIOUS
    <3> QED BY <3>1, <3>2, <3>3, <3>4, <3>5
  <2> HIDE DEF a, b, c
  <2>2. /\ a \o b \in Seq(S) /\ Len(a \o b) = 3
        /\ (a \o b)[1] = "1" /\ (a \o b)[2] = ":" /\ (a \o b)[3] = "info"
    <3>1. /\ a \o b \in Seq(S) /\ Len(a \o b) = Len(a) + Len(b)
          /\ \A i \in 1 .. (Len(a) + Len(b)) : (a \o b)[i] = IF i <= Len(a) THEN a[i] ELSE b[i - Len(a)]
      BY <2>1, ConcatProperties
    <3>2. {1, 2, 3} \subseteq 1 .. (Len(a) + Len(b)) /\ 3 - Len(a) = 1 /\ ~(3 <= Len(a))
      BY <2>1
    <3> QED BY <2>1, <3>1, <3>2
  <2>3. \A i \in 1 .. Len(c) : (a \o b)[i] = c[i]
    BY <2>1, <2>2
  <2>4. a \o b = c
    BY <2>1, <2>2, <2>3, SeqEqual
  <2> QED BY <2>4 DEF a, b, c
<1> QED BY <1>3, <1>4, <1>5
=============================================================================
