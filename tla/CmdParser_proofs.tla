-------------------------- MODULE CmdParser_proofs --------------------------
(***************************************************************************)
(* What the line editor writes, character by character, for any alphabet,  *)
(* any length of line, any bytes and depth of history, and any keys in any *)
(* order: whatever it moves, overwrites and deletes on the terminal, the   *)
(* terminal shows the line at every prompt, with its cursor at the insertion*)
(* point.  What is written is read as the screens the terminal goes through*)
(* (Writes); each helper's output has its screens, and outputs put together*)
(* go through one's and then the other's (PutsJoined).  And what is kept of*)
(* the lines submitted: the newest, as many as go in and no fewer.         *)
(***************************************************************************)
EXTENDS CmdParser, FiniteSetTheorems, WellFoundedInduction, TLAPS

(* The least number principle, and with it induction over an index.        *)
LEMMA LeastNumber ==
  ASSUME NEW T \in SUBSET Nat, T # {}
  PROVE  \E x \in T : \A y \in T : x <= y
<1> DEFINE R == {ss \in Nat \X Nat : ss[1] < ss[2]}
<1>1. IsWellFoundedOn(R, Nat)
  BY NatLessThanWellFounded DEF OpToRel
<1>2. \A x, y \in Nat : <<y, x>> \in R <=> y < x
  OBVIOUS
<1> HIDE DEF R
<1>3. \E x \in T : \A y \in T : ~ (<<y, x>> \in R)
  BY <1>1, WFMin
<1>4. PICK x \in T : \A y \in T : ~ (<<y, x>> \in R)
  BY <1>3
<1>5. \A y \in T : ~(y < x)
  BY <1>2, <1>4
<1> QED
  BY <1>5

LEMMA NumberInduction ==
  ASSUME NEW G, 0 \in G, NEW n \in Nat, \A i \in 1 .. n : i - 1 \in G => i \in G
  PROVE  \A i \in 0 .. n : i \in G
<1> DEFINE T == {i \in Nat : i <= n /\ i \notin G}
<1> SUFFICES ASSUME NEW j \in 0 .. n, j \notin G PROVE FALSE
  OBVIOUS
<1>1. T \in SUBSET Nat /\ T # {}
  OBVIOUS
<1>2. PICK i \in T : \A k \in T : i <= k
  BY <1>1, LeastNumber
<1>3. i \in Nat /\ i <= n /\ i \notin G /\ i # 0
  OBVIOUS
<1>4. i - 1 \in Nat /\ i - 1 <= n /\ ~(i <= i - 1) /\ i \in 1 .. n
  BY <1>3
<1>5. i - 1 \in G
  BY <1>2, <1>4
<1> QED
  BY <1>3, <1>4, <1>5

(* The greatest element of a set of indices.                               *)
LEMMA MaxOfIndices ==
  ASSUME NEW n \in Nat, NEW s \in SUBSET (1 .. n), s # {}
  PROVE  Max(s) \in s /\ \A y \in s : y <= Max(s)
<1> DEFINE T == {n - x : x \in s}
<1>1. T \in SUBSET Nat /\ T # {}
  <2>1. \A x \in s : x \in 1 .. n
    OBVIOUS
  <2>2. \A x \in s : n - x \in Nat
    BY <2>1
  <2> QED
    BY <2>2
<1>2. PICK d \in T : \A y \in T : d <= y
  BY <1>1, LeastNumber
<1>3. PICK x \in s : d = n - x
  OBVIOUS
<1>4. \A y \in s : x >= y
  <2> SUFFICES ASSUME NEW y \in s PROVE x >= y
    OBVIOUS
  <2>1. n - y \in T
    OBVIOUS
  <2>2. d <= n - y
    BY <1>2, <2>1
  <2> QED
    BY <1>3, <2>2
<1>5. Max(s) \in s /\ \A y \in s : Max(s) >= y
  BY <1>4 DEF Max
<1> QED
  BY <1>5

LEMMA MaxIs ==
  ASSUME NEW i \in Nat, i # 0, NEW s \in SUBSET (1 .. i), i \in s
  PROVE  Max(s) = i /\ s \ {i} \in SUBSET (1 .. (i - 1))
<1>1. Max(s) \in s /\ \A y \in s : y <= Max(s)
  BY MaxOfIndices
<1>2. Max(s) \in 1 .. i /\ i <= Max(s)
  BY <1>1
<1>3. \A y \in s : y \in 1 .. i
  OBVIOUS
<1> QED
  BY <1>2, <1>3

LEMMA PrefixStep ==
  ASSUME NEW n \in Nat, NEW i \in 1 .. n
  PROVE  i \in Nat /\ i # 0 /\ i \in 1 .. i /\ (1 .. i) \ {i} = 1 .. (i - 1)
         /\ 1 .. i \in SUBSET (1 .. n) /\ 1 .. i # {}
OBVIOUS

(* A fold over indices, the highest last: it exists, and what is folded up *)
(* to an index follows from what is folded up to the one before.           *)
IndexSteps(n, X, b, w) ==
  n \in Nat /\ b \in X /\ \A i \in 1 .. n, y \in X : w[<<i, y>>] \in X
IndexFold(n, b, w, f) ==
  \A s \in SUBSET (1 .. n) : f[s] = IF s = {} THEN b ELSE w[<<Max(s), f[s \ {Max(s)}]>>]

LEMMA IndexFoldExists ==
  ASSUME NEW n, NEW X, NEW b, NEW w, IndexSteps(n, X, b, w)
  PROVE  \E f \in [SUBSET (1 .. n) -> X] : IndexFold(n, b, w, f)
<1> DEFINE Up(m) == \E f \in [SUBSET (1 .. m) -> X] : IndexFold(m, b, w, f)
           G == {m \in Nat : Up(m)}
<1>0. n \in Nat /\ b \in X
  BY DEF IndexSteps
<1>1. 0 \in G
  <2> DEFINE f == [s \in SUBSET (1 .. 0) |-> b]
  <2>1. \A s \in SUBSET (1 .. 0) : s = {}
    OBVIOUS
  <2>2. f \in [SUBSET (1 .. 0) -> X] /\ IndexFold(0, b, w, f)
    BY <1>0, <2>1 DEF IndexFold
  <2> QED
    BY <2>2
<1>2. ASSUME NEW i \in 1 .. n, i - 1 \in G PROVE i \in G
  <2>1. PICK g \in [SUBSET (1 .. (i - 1)) -> X] : IndexFold(i - 1, b, w, g)
    BY <1>2
  <2> DEFINE f == [s \in SUBSET (1 .. i) |-> IF i \in s THEN w[<<i, g[s \ {i}]>>] ELSE g[s]]
             d(s) == s \ {Max(s)}
  <2>2. i \in Nat /\ i # 0 /\ i \in 1 .. n
    BY <1>0
  <2>3. ASSUME NEW s \in SUBSET (1 .. i), i \in s
        PROVE  f[s] \in X /\ f[s] = w[<<Max(s), f[s \ {Max(s)}]>>]
    <3>1. Max(s) = i /\ s \ {i} \in SUBSET (1 .. (i - 1))
      BY <2>2, <2>3, MaxIs
    <3>2. s \ {i} \in SUBSET (1 .. i) /\ i \notin s \ {i}
      OBVIOUS
    <3>3. f[s \ {i}] = g[s \ {i}] /\ g[s \ {i}] \in X
      BY <3>1, <3>2
    <3>4. f[s] = w[<<i, g[s \ {i}]>>]
      BY <2>3
    <3> HIDE DEF f
    <3>5. w[<<i, g[s \ {i}]>>] \in X
      BY <2>2, <3>3 DEF IndexSteps
    <3> QED
      BY <3>1, <3>3, <3>4, <3>5
  <2>4. ASSUME NEW s \in SUBSET (1 .. i), i \notin s
        PROVE  f[s] \in X /\ f[s] = IF s = {} THEN b ELSE w[<<Max(s), f[s \ {Max(s)}]>>]
    <3> DEFINE m == Max(s)
    <3>0. s \in SUBSET (1 .. (i - 1))
      BY <2>2, <2>4
    <3> HIDE DEF m
    <3>1. /\ s \ {m} \in SUBSET (1 .. i) /\ i \notin s \ {m}
          /\ s \ {m} \in SUBSET (1 .. (i - 1))
      BY <2>4, <3>0
    <3>2. f[s] = g[s] /\ f[s \ {m}] = g[s \ {m}] /\ g[s] \in X
      BY <2>4, <3>0, <3>1
    <3>3. g[s] = IF s = {} THEN b ELSE w[<<m, g[s \ {m}]>>]
      BY <2>1, <3>0 DEF IndexFold, m
    <3> HIDE DEF f
    <3> QED
      BY <3>2, <3>3 DEF m
  <2>5. f \in [SUBSET (1 .. i) -> X]
    <3>1. \A s \in SUBSET (1 .. i) : f[s] \in X
      <4> HIDE DEF f
      <4> QED
        BY <2>3, <2>4
    <3>2. f = [s \in SUBSET (1 .. i) |-> f[s]]
      OBVIOUS
    <3> HIDE DEF f
    <3> QED
      BY <3>1, <3>2
  <2>6. IndexFold(i, b, w, f)
    <3> SUFFICES ASSUME NEW s \in SUBSET (1 .. i)
                 PROVE  f[s] = IF s = {} THEN b ELSE w[<<Max(s), f[s \ {Max(s)}]>>]
      BY DEF IndexFold
    <3> HIDE DEF f
    <3> QED
      BY <2>3, <2>4
  <2> HIDE DEF f
  <2> QED
    BY <2>2, <2>5, <2>6
<1>3. \A i \in 0 .. n : i \in G
  <2> HIDE DEF G
  <2> QED
    BY <1>0, <1>1, <1>2, NumberInduction
<1>4. n \in G
  <2> HIDE DEF G
  <2> QED
    BY <1>0, <1>3
<1> QED
  BY <1>4

LEMMA IndexFoldSteps ==
  ASSUME NEW n \in Nat, NEW b, NEW w, NEW f, IndexFold(n, b, w, f)
  PROVE  f[1 .. 0] = b /\ \A i \in 1 .. n : f[1 .. i] = w[<<i, f[1 .. (i - 1)]>>]
<1>1. f[1 .. 0] = b
  <2>1. 1 .. 0 = {} /\ {} \in SUBSET (1 .. n)
    OBVIOUS
  <2> QED
    BY <2>1 DEF IndexFold
<1>2. ASSUME NEW i \in 1 .. n PROVE f[1 .. i] = w[<<i, f[1 .. (i - 1)]>>]
  <2>1. i \in Nat /\ i # 0 /\ i \in 1 .. i /\ (1 .. i) \ {i} = 1 .. (i - 1)
        /\ 1 .. i \in SUBSET (1 .. n) /\ 1 .. i # {}
    BY PrefixStep
  <2>2. Max(1 .. i) = i
    BY <2>1, MaxIs
  <2> QED
    BY <2>1, <2>2 DEF IndexFold
<1> QED
  BY <1>1, <1>2

LEMMA SeqEqual ==
  ASSUME NEW C, NEW a \in Seq(C), NEW b \in Seq(C), NEW n \in Nat, Len(a) = n, Len(b) = n,
         \A i \in 1 .. n : a[i] = b[i]
  PROVE  a = b
<1>1. a = [i \in 1 .. n |-> a[i]] /\ b = [i \in 1 .. n |-> b[i]]
  OBVIOUS
<1> QED
  BY <1>1

LEMMA ConcatIs ==
  ASSUME NEW C, NEW a \in Seq(C), NEW b \in Seq(C)
  PROVE  /\ a \o b \in Seq(C) /\ Len(a \o b) = Len(a) + Len(b)
         /\ \A i \in 1 .. Len(a) : (a \o b)[i] = a[i]
         /\ \A i \in 1 .. Len(b) : (a \o b)[Len(a) + i] = b[i]
  OBVIOUS

LEMMA OneMore ==
  ASSUME NEW m \in Nat, NEW l \in Nat, m <= l, NEW n, n = IF m + 1 > l THEN m + 1 ELSE l
  PROVE  n \in Nat /\ (n = l \/ (n = m + 1 /\ m = l))
  OBVIOUS

(* What the editor writes, character by character: T[i] is the terminal    *)
(* after i of them.                                                        *)
Glyphs  == Letters \cup {SP}
Screens == Seq(Glyphs) \X Int
Strokes == Seq(Glyphs \cup {BS})
Writes(T, s, out) == T[0] = s /\ \A i \in 1 .. Len(out) : T[i] = Shown(T[i - 1], out[i])
Puts(s, out, r)   == \E T : Writes(T, s, out) /\ T[Len(out)] = r
Printing(S, f, s, out) ==
  f = [u \in SUBSET S |-> IF u = {} THEN s ELSE Shown(f[u \ {Max(u)}], out[Max(u)])]

LEMMA GlyphsStand == BS \notin Glyphs /\ SP \in Glyphs
  BY ParserAssumption DEF Glyphs, BS, SP

LEMMA ShownIs ==
  ASSUME NEW q, NEW k, NEW c
  PROVE  /\ c = BS => Shown(<<q, k>>, c) = <<q, k - 1>>
         /\ c # BS /\ k = Len(q) => Shown(<<q, k>>, c) = <<Append(q, c), k + 1>>
         /\ c # BS /\ k # Len(q) /\ k \in 0 .. (Len(q) - 1) =>
              Shown(<<q, k>>, c) = <<ReplaceAt(q, k + 1, c), k + 1>>
         /\ c # BS /\ k # Len(q) /\ k \notin 0 .. (Len(q) - 1) =>
              Shown(<<q, k>>, c) = <<q, k + 1>>
<1>1. <<q, k>>[1] = q /\ <<q, k>>[2] = k
  OBVIOUS
<1> QED
  BY <1>1 DEF Shown

LEMMA ShownTypes ==
  ASSUME NEW s \in Screens, NEW c \in Glyphs \cup {BS}
  PROVE  Shown(s, c) \in Screens
<1>1. PICK q \in Seq(Glyphs), k \in Int : s = <<q, k>>
  BY DEF Screens
<1>2. \A p \in Seq(Glyphs), i \in Int : <<p, i>> \in Screens
  BY DEF Screens
<1>3. q \in Seq(Glyphs) /\ k - 1 \in Int /\ k + 1 \in Int
  OBVIOUS
<1>4. CASE c = BS
  BY <1>1, <1>2, <1>3, <1>4, ShownIs
<1>5. CASE c # BS
  <2>1. c \in Glyphs
    BY <1>5
  <2>2. Append(q, c) \in Seq(Glyphs)
    BY <2>1
  <2>3. k \in 0 .. (Len(q) - 1) => ReplaceAt(q, k + 1, c) \in Seq(Glyphs)
    BY <2>1 DEF ReplaceAt
  <2>4. CASE k = Len(q)
    <3>1. Shown(<<q, k>>, c) = <<Append(q, c), k + 1>>
      BY <1>5, <2>4, ShownIs
    <3> QED
      BY <1>1, <1>2, <1>3, <2>2, <3>1
  <2>5. CASE k # Len(q) /\ k \in 0 .. (Len(q) - 1)
    <3>1. Shown(<<q, k>>, c) = <<ReplaceAt(q, k + 1, c), k + 1>>
      BY <1>5, <2>5, ShownIs
    <3> QED
      BY <1>1, <1>2, <1>3, <2>3, <2>5, <3>1
  <2>6. CASE k # Len(q) /\ k \notin 0 .. (Len(q) - 1)
    <3>1. Shown(<<q, k>>, c) = <<q, k + 1>>
      BY <1>5, <2>6, ShownIs
    <3> QED
      BY <1>1, <1>2, <1>3, <3>1
  <2> QED
    BY <2>4, <2>5, <2>6
<1> QED
  BY <1>4, <1>5

LEMMA PrintingExists ==
  ASSUME NEW s \in Screens, NEW out \in Strokes
  PROVE  \E f : Printing(DOMAIN out, f, s, out)
<1> DEFINE n == Len(out)
           w == [p \in (1 .. n) \X Screens |-> Shown(p[2], out[p[1]])]
<1>1. n \in Nat /\ DOMAIN out = 1 .. n /\ \A i \in 1 .. n : out[i] \in Glyphs \cup {BS}
  BY DEF Strokes
<1>2. \A i \in 1 .. n, y \in Screens : w[<<i, y>>] = Shown(y, out[i])
  OBVIOUS
<1> HIDE DEF w, n
<1>3. IndexSteps(n, Screens, s, w)
  BY <1>1, <1>2, ShownTypes DEF IndexSteps
<1>4. PICK f \in [SUBSET (1 .. n) -> Screens] : IndexFold(n, s, w, f)
  BY <1>3, IndexFoldExists
<1>5. ASSUME NEW u \in SUBSET (1 .. n)
      PROVE  f[u] = IF u = {} THEN s ELSE Shown(f[u \ {Max(u)}], out[Max(u)])
  <2>1. CASE u = {}
    BY <1>4, <2>1 DEF IndexFold
  <2>2. CASE u # {}
    <3>1. Max(u) \in u
      BY <1>1, <2>2, MaxOfIndices
    <3>2. Max(u) \in 1 .. n /\ f[u \ {Max(u)}] \in Screens
      BY <3>1
    <3>3. f[u] = w[<<Max(u), f[u \ {Max(u)}]>>]
      BY <1>4, <2>2 DEF IndexFold
    <3> QED
      BY <1>2, <2>2, <3>2, <3>3
  <2> QED
    BY <2>1, <2>2
<1>6. f = [u \in SUBSET (1 .. n) |-> f[u]]
  OBVIOUS
<1>7. f = [u \in SUBSET (1 .. n) |-> IF u = {} THEN s ELSE Shown(f[u \ {Max(u)}], out[Max(u)])]
  BY <1>5, <1>6
<1> QED
  BY <1>1, <1>7 DEF Printing

(* The fold is the last of what the characters give one after another.     *)
LEMMA WrittenIs ==
  ASSUME NEW s \in Screens, NEW out \in Strokes, NEW r, Puts(s, out, r)
  PROVE  FoldLeft(Shown, s, out) = r
<1> DEFINE n == Len(out)
           f == CHOOSE f1 : Printing(DOMAIN out, f1, s, out)
<1>1. n \in Nat /\ DOMAIN out = 1 .. n
  BY DEF Strokes
<1>2. FoldLeft(Shown, s, out) = f[DOMAIN out]
  BY DEF FoldLeft, MapThenFoldSet, Printing
<1>3. Printing(1 .. n, f, s, out)
  BY <1>1, PrintingExists
<1> HIDE DEF f, n
<1>4. PICK T : Writes(T, s, out) /\ T[n] = r
  BY DEF Puts, n
<1>5. f[1 .. 0] = T[0]
  <2>1. 1 .. 0 = {} /\ {} \in SUBSET (1 .. n)
    OBVIOUS
  <2> QED
    BY <1>3, <1>4, <2>1 DEF Printing, Writes
<1>6. ASSUME NEW i \in 1 .. n, f[1 .. (i - 1)] = T[i - 1] PROVE f[1 .. i] = T[i]
  <2>1. i \in Nat /\ i # 0 /\ i \in 1 .. i /\ (1 .. i) \ {i} = 1 .. (i - 1)
        /\ 1 .. i \in SUBSET (1 .. n) /\ 1 .. i # {}
    BY <1>1, PrefixStep
  <2>2. Max(1 .. i) = i
    BY <2>1, MaxIs
  <2>3. f[1 .. i] = Shown(f[1 .. (i - 1)], out[i])
    BY <1>3, <2>1, <2>2 DEF Printing
  <2>4. T[i] = Shown(T[i - 1], out[i])
    BY <1>4 DEF Writes, n
  <2> QED
    BY <1>6, <2>3, <2>4
<1>7. \A i \in 0 .. n : f[1 .. i] = T[i]
  <2> DEFINE G == {i \in Nat : f[1 .. i] = T[i]}
  <2>1. 0 \in G
    BY <1>5
  <2>2. \A i \in 1 .. n : i - 1 \in G => i \in G
    BY <1>1, <1>6
  <2> HIDE DEF G
  <2>3. \A i \in 0 .. n : i \in G
    BY <1>1, <2>1, <2>2, NumberInduction
  <2> QED
    BY <2>3 DEF G
<1> QED
  BY <1>1, <1>2, <1>4, <1>7

LEMMA PutsNothing == ASSUME NEW s PROVE Puts(s, <<>>, s)
<1> DEFINE T == [i \in 0 .. 0 |-> s]
<1>1. Writes(T, s, <<>>) /\ T[Len(<<>>)] = s
  BY DEF Writes
<1> QED
  BY <1>1 DEF Puts

LEMMA PutsJoined ==
  ASSUME NEW C, NEW a \in Seq(C), NEW b \in Seq(C), NEW s, NEW r, NEW q,
         Puts(s, a, r), Puts(r, b, q)
  PROVE  Puts(s, a \o b, q)
<1>1. PICK A : Writes(A, s, a) /\ A[Len(a)] = r
  BY DEF Puts
<1>2. PICK B : Writes(B, r, b) /\ B[Len(b)] = q
  BY DEF Puts
<1> DEFINE m == Len(a)
           n == Len(b)
           T == [i \in 0 .. (m + n) |-> IF i <= m THEN A[i] ELSE B[i - m]]
<1>3. m \in Nat /\ n \in Nat /\ Len(a \o b) = m + n
  OBVIOUS
<1>4. ASSUME NEW i \in 1 .. (m + n) PROVE T[i] = Shown(T[i - 1], (a \o b)[i])
  <2>1. CASE i <= m
    <3>1. i \in 1 .. m /\ T[i] = A[i] /\ T[i - 1] = A[i - 1] /\ (a \o b)[i] = a[i]
      BY <1>3, <2>1
    <3> QED
      BY <1>1, <3>1 DEF Writes
  <2>2. CASE i > m
    <3>1. i - m \in 1 .. n /\ T[i] = B[i - m] /\ (a \o b)[i] = b[i - m]
      BY <1>3, <2>2
    <3>2. T[i - 1] = B[(i - m) - 1]
      <4>1. CASE i = m + 1
        <5>1. i - 1 = m /\ (i - m) - 1 = 0 /\ T[m] = A[m]
          BY <1>3, <4>1
        <5> QED
          BY <1>1, <1>2, <5>1 DEF Writes
      <4>2. CASE i # m + 1
        <5>1. i - 1 \in 0 .. (m + n) /\ ~(i - 1 <= m) /\ (i - 1) - m = (i - m) - 1
          BY <1>3, <2>2, <4>2
        <5> QED
          BY <5>1
      <4> QED
        BY <4>1, <4>2
    <3>3. B[i - m] = Shown(B[(i - m) - 1], b[i - m])
      BY <1>2, <3>1 DEF Writes
    <3> QED
      BY <3>1, <3>2, <3>3
  <2> QED
    BY <1>3, <2>1, <2>2
<1>5. T[0] = s
  BY <1>1, <1>3 DEF Writes
<1>6. T[m + n] = q
  <2>1. CASE n = 0
    <3>1. T[m + n] = A[m] /\ r = q
      BY <1>2, <1>3, <2>1 DEF Writes
    <3> QED
      BY <1>1, <3>1
  <2>2. CASE n # 0
    <3>1. T[m + n] = B[n]
      BY <1>3, <2>2
    <3> QED
      BY <1>2, <3>1
  <2> QED
    BY <2>1, <2>2
<1> HIDE DEF T, m, n
<1> QED
  BY <1>3, <1>4, <1>5, <1>6 DEF Puts, Writes

LEMMA PutsOne == ASSUME NEW s, NEW c PROVE Puts(s, <<c>>, Shown(s, c))
<1> DEFINE T == [i \in 0 .. 1 |-> IF i = 0 THEN s ELSE Shown(s, c)]
<1>1. T[0] = s /\ T[1] = Shown(s, c) /\ Len(<<c>>) = 1 /\ <<c>>[1] = c /\ 1 - 1 = 0
  OBVIOUS
<1> HIDE DEF T
<1>2. \A i \in 1 .. 1 : T[i] = Shown(T[i - 1], <<c>>[i])
  <2>1. \A i \in 1 .. 1 : i = 1
    OBVIOUS
  <2> QED
    BY <1>1, <2>1
<1> QED
  BY <1>1, <1>2 DEF Puts, Writes

(* To the left, over what stands there, and back over it with blanks.      *)
LEMMA TimesIs ==
  ASSUME NEW C, NEW c \in C, NEW n \in Nat
  PROVE  /\ Times(n, c) \in Seq(C) /\ Len(Times(n, c)) = n
         /\ \A i \in 1 .. n : Times(n, c)[i] = c
  BY DEF Times

LEMMA PutsBack ==
  ASSUME NEW q, NEW k \in Int, NEW n \in Nat
  PROVE  Puts(<<q, k>>, moveLeft(n), <<q, k - n>>)
<1> DEFINE T == [i \in 0 .. n |-> <<q, k - i>>]
           out == Times(n, BS)
<1>1. Len(out) = n /\ \A i \in 1 .. n : out[i] = BS
  BY TimesIs
<1>2. T[0] = <<q, k>> /\ T[n] = <<q, k - n>>
  OBVIOUS
<1> HIDE DEF out
<1>3. ASSUME NEW i \in 1 .. n PROVE T[i] = Shown(T[i - 1], out[i])
  <2>1. T[i] = <<q, k - i>> /\ T[i - 1] = <<q, k - (i - 1)>> /\ out[i] = BS
    BY <1>1
  <2>2. Shown(<<q, k - (i - 1)>>, BS) = <<q, (k - (i - 1)) - 1>>
    BY ShownIs
  <2>3. (k - (i - 1)) - 1 = k - i
    OBVIOUS
  <2> QED
    BY <2>1, <2>2, <2>3
<1> HIDE DEF T
<1> QED
  BY <1>1, <1>2, <1>3 DEF Puts, Writes, moveLeft, out

(* The first i characters of t over q from column k + 1 on.                *)
Over(q, k, t, i) ==
  [j \in 1 .. (IF k + i > Len(q) THEN k + i ELSE Len(q)) |->
     IF k < j /\ j <= k + i THEN t[j - k] ELSE q[j]]

LEMMA OverTypes ==
  ASSUME NEW q \in Seq(Glyphs), NEW k \in 0 .. Len(q), NEW t \in Seq(Glyphs), NEW i \in 0 .. Len(t)
  PROVE  /\ Over(q, k, t, i) \in Seq(Glyphs)
         /\ Len(Over(q, k, t, i)) = IF k + i > Len(q) THEN k + i ELSE Len(q)
<1> DEFINE n == IF k + i > Len(q) THEN k + i ELSE Len(q)
<1>1. n \in Nat
  OBVIOUS
<1>2. ASSUME NEW j \in 1 .. n
      PROVE  (IF k < j /\ j <= k + i THEN t[j - k] ELSE q[j]) \in Glyphs
  <2>1. CASE k < j /\ j <= k + i
    <3>1. j - k \in 1 .. Len(t)
      BY <1>1, <2>1
    <3> QED
      BY <2>1, <3>1
  <2>2. CASE ~(k < j /\ j <= k + i)
    <3>1. j \in 1 .. Len(q)
      BY <1>1, <2>2
    <3> QED
      BY <2>2, <3>1
  <2> QED
    BY <2>1, <2>2
<1> HIDE DEF n
<1> QED
  BY <1>1, <1>2 DEF Over, n

LEMMA PrintedOver ==
  ASSUME NEW p \in Seq(Glyphs), NEW m \in 0 .. Len(p), NEW c \in Glyphs
  PROVE  Shown(<<p, m>>, c) =
           <<[j \in 1 .. (IF m + 1 > Len(p) THEN m + 1 ELSE Len(p)) |->
                IF j = m + 1 THEN c ELSE p[j]], m + 1>>
<1>1. c # BS
  BY GlyphsStand
<1>2. CASE m = Len(p)
  <2>1. Shown(<<p, m>>, c) = <<Append(p, c), m + 1>>
    BY <1>1, <1>2, ShownIs
  <2>2. Append(p, c) = [j \in 1 .. (m + 1) |-> IF j = m + 1 THEN c ELSE p[j]]
    <3> DEFINE x == Append(p, c)
    <3>1. x \in Seq(Glyphs) /\ Len(x) = m + 1
      BY <1>2
    <3>2. \A j \in 1 .. (m + 1) : x[j] = IF j = m + 1 THEN c ELSE p[j]
      BY <1>2
    <3> HIDE DEF x
    <3>3. x = [j \in 1 .. (m + 1) |-> x[j]]
      BY <3>1
    <3> QED
      BY <3>2, <3>3 DEF x
  <2> QED
    BY <1>2, <2>1, <2>2
<1>3. CASE m # Len(p)
  <2>1. m \in 0 .. (Len(p) - 1)
    BY <1>3
  <2>2. Shown(<<p, m>>, c) = <<ReplaceAt(p, m + 1, c), m + 1>>
    BY <1>1, <1>3, <2>1, ShownIs
  <2>3. ReplaceAt(p, m + 1, c) = [j \in 1 .. Len(p) |-> IF j = m + 1 THEN c ELSE p[j]]
    BY <2>1 DEF ReplaceAt
  <2> QED
    BY <2>1, <2>2, <2>3
<1> QED
  BY <1>2, <1>3

LEMMA OverStep ==
  ASSUME NEW q \in Seq(Glyphs), NEW k \in 0 .. Len(q), NEW t \in Seq(Glyphs), NEW i \in 1 .. Len(t)
  PROVE  <<Over(q, k, t, i), k + i>> = Shown(<<Over(q, k, t, i - 1), k + i - 1>>, t[i])
<1> DEFINE p == Over(q, k, t, i - 1)
           m == k + i - 1
           n == IF m + 1 > Len(q) THEN m + 1 ELSE Len(q)
<1>1. /\ p \in Seq(Glyphs) /\ Len(p) = IF m > Len(q) THEN m ELSE Len(q)
      /\ \A j \in 1 .. Len(p) : p[j] = IF k < j /\ j <= m THEN t[j - k] ELSE q[j]
  <2>1. i - 1 \in 0 .. Len(t) /\ k + (i - 1) = m
    OBVIOUS
  <2>2. p \in Seq(Glyphs) /\ Len(p) = IF m > Len(q) THEN m ELSE Len(q)
    BY <2>1, OverTypes
  <2>3. p = [j \in 1 .. (IF m > Len(q) THEN m ELSE Len(q)) |->
               IF k < j /\ j <= m THEN t[j - k] ELSE q[j]]
    BY <2>1 DEF Over
  <2> QED
    BY <2>2, <2>3
<1>2. m \in Nat /\ m + 1 = k + i /\ m + 1 - k = i /\ k <= m /\ t[i] \in Glyphs /\ Len(q) \in Nat
  OBVIOUS
<1>3. Over(q, k, t, i) =
        [j \in 1 .. n |-> IF k < j /\ j <= m + 1 THEN t[j - k] ELSE q[j]]
  BY <1>2 DEF Over
<1> HIDE DEF p, m
<1>4. m \in 0 .. Len(p) /\ Len(p) \in Nat /\ n = IF m + 1 > Len(p) THEN m + 1 ELSE Len(p)
  BY <1>1, <1>2
<1> HIDE DEF n
<1>5. Shown(<<p, m>>, t[i]) = <<[j \in 1 .. n |-> IF j = m + 1 THEN t[i] ELSE p[j]], m + 1>>
  <2> DEFINE c == t[i]
  <2>1. p \in Seq(Glyphs) /\ m \in 0 .. Len(p) /\ c \in Glyphs
    BY <1>1, <1>2, <1>4
  <2> HIDE DEF c
  <2>2. Shown(<<p, m>>, c) =
          <<[j \in 1 .. (IF m + 1 > Len(p) THEN m + 1 ELSE Len(p)) |->
                IF j = m + 1 THEN c ELSE p[j]], m + 1>>
    BY <2>1, PrintedOver
  <2> QED
    BY <1>4, <2>2 DEF c
<1>6. n \in Nat /\ (n = Len(p) \/ (n = m + 1 /\ m = Len(p)))
  <2>1. m \in Nat /\ Len(p) \in Nat /\ m <= Len(p)
    BY <1>2, <1>4
  <2> QED
    BY <1>4, <2>1, OneMore
<1>7. ASSUME NEW j \in 1 .. n
      PROVE  (IF j = m + 1 THEN t[i] ELSE p[j]) = IF k < j /\ j <= m + 1 THEN t[j - k] ELSE q[j]
  <2>1. CASE j = m + 1
    BY <1>2, <2>1
  <2>2. CASE j # m + 1
    <3>1. j \in 1 .. Len(p)
      BY <1>2, <1>6, <2>2
    <3>2. j <= m <=> j <= m + 1
      BY <1>2, <2>2
    <3> QED
      BY <1>1, <2>2, <3>1, <3>2
  <2> QED
    BY <2>1, <2>2
<1>8. [j \in 1 .. n |-> IF j = m + 1 THEN t[i] ELSE p[j]] = Over(q, k, t, i)
  BY <1>3, <1>7
<1> QED
  BY <1>2, <1>5, <1>8 DEF p, m

LEMMA PutsText ==
  ASSUME NEW q \in Seq(Glyphs), NEW k \in 0 .. Len(q), NEW t \in Seq(Glyphs)
  PROVE  Puts(<<q, k>>, t, <<Over(q, k, t, Len(t)), k + Len(t)>>)
<1> DEFINE T == [i \in 0 .. Len(t) |-> <<Over(q, k, t, i), k + i>>]
<1>1. T[0] = <<q, k>>
  <2>1. Over(q, k, t, 0) = q
    BY DEF Over
  <2> QED
    BY <2>1
<1>2. ASSUME NEW i \in 1 .. Len(t) PROVE T[i] = Shown(T[i - 1], t[i])
  <2>1. i - 1 \in 0 .. Len(t) /\ k + (i - 1) = k + i - 1
    OBVIOUS
  <2>2. T[i] = <<Over(q, k, t, i), k + i>> /\ T[i - 1] = <<Over(q, k, t, i - 1), k + i - 1>>
    BY <2>1
  <2>3. <<Over(q, k, t, i), k + i>> = Shown(<<Over(q, k, t, i - 1), k + i - 1>>, t[i])
    BY OverStep
  <2> QED
    BY <2>2, <2>3, Zenon
<1>3. T[Len(t)] = <<Over(q, k, t, Len(t)), k + Len(t)>>
  OBVIOUS
<1> HIDE DEF T
<1> QED
  BY <1>1, <1>2, <1>3 DEF Puts, Writes

(* Back over k characters with blanks, one after the other.                *)
Erased(q, k, n) == [j \in DOMAIN q |-> IF k - n < j /\ j <= k THEN SP ELSE q[j]]
Backspaces(n) == [j \in 1 .. (3 * n) |-> IF \E m \in Int : j = 3 * m + 2 THEN SP ELSE BS]

LEMMA BackspacesStep ==
  ASSUME NEW n \in Nat, n # 0
  PROVE  /\ Backspaces(n - 1) \in Seq({SP, BS}) /\ Backspaces(n) \in Seq({SP, BS})
         /\ Backspaces(n) = Backspaces(n - 1) \o echoBackspace
<1> DEFINE a == Backspaces(n - 1)
           b == Backspaces(n)
           v(j) == IF \E m \in Int : j = 3 * m + 2 THEN SP ELSE BS
<1>1. /\ a \in Seq({SP, BS}) /\ Len(a) = 3 * (n - 1)
      /\ \A j \in 1 .. (3 * (n - 1)) : a[j] = v(j)
  BY DEF Backspaces
<1>2. /\ b \in Seq({SP, BS}) /\ Len(b) = 3 * n /\ \A j \in 1 .. (3 * n) : b[j] = v(j)
  BY DEF Backspaces
<1>3. echoBackspace \in Seq({SP, BS}) /\ Len(echoBackspace) = 3
      /\ echoBackspace[1] = BS /\ echoBackspace[2] = SP /\ echoBackspace[3] = BS
  BY DEF echoBackspace
<1>4. v(3 * n - 2) = BS /\ v(3 * n - 1) = SP /\ v(3 * n) = BS
  <2>1. 3 * n - 1 = 3 * (n - 1) + 2 /\ n - 1 \in Int
    OBVIOUS
  <2>2. ~ \E m \in Int : 3 * n - 2 = 3 * m + 2
    OBVIOUS
  <2>3. ~ \E m \in Int : 3 * n = 3 * m + 2
    OBVIOUS
  <2> QED
    BY <2>1, <2>2, <2>3
<1> DEFINE c == a \o echoBackspace
           e == 3 * (n - 1)
<1>0. e \in Nat /\ 3 * n = e + 3 /\ 3 * n - 2 = e + 1 /\ 3 * n - 1 = e + 2
  OBVIOUS
<1> HIDE DEF a, b, v, e
<1>5. /\ c \in Seq({SP, BS}) /\ Len(c) = e + 3
      /\ \A j \in 1 .. e : c[j] = a[j]
      /\ \A j \in 1 .. 3 : c[e + j] = echoBackspace[j]
  <2> DEFINE S == {SP, BS}
             d == echoBackspace
  <2>1. a \in Seq(S) /\ d \in Seq(S) /\ e \in Nat /\ 3 \in Nat /\ Len(a) = e /\ Len(d) = 3
    BY <1>0, <1>1, <1>3 DEF e
  <2> HIDE DEF S, d
  <2>2. /\ a \o d \in Seq(S) /\ Len(a \o d) = Len(a) + Len(d)
        /\ \A j \in 1 .. Len(a) : (a \o d)[j] = a[j]
        /\ \A j \in 1 .. Len(d) : (a \o d)[Len(a) + j] = d[j]
    <3>1. \A x \in Seq(S), y \in Seq(S) :
            /\ x \o y \in Seq(S) /\ Len(x \o y) = Len(x) + Len(y)
            /\ \A j \in 1 .. Len(x) : (x \o y)[j] = x[j]
            /\ \A j \in 1 .. Len(y) : (x \o y)[Len(x) + j] = y[j]
      BY ConcatIs
    <3>2. a \in Seq(S) /\ d \in Seq(S)
      BY <2>1
    <3> QED
      BY <3>1, <3>2, Zenon
  <2> QED
    BY <2>1, <2>2 DEF S, d
<1> HIDE DEF c
<1>6. ASSUME NEW j \in 1 .. (3 * n) PROVE c[j] = v(j)
  <2>1. CASE j <= e
    <3>1. j \in 1 .. e
      BY <1>0, <2>1
    <3>2. a[j] = v(j)
      BY <1>1, <3>1 DEF e
    <3> QED
      BY <1>5, <3>1, <3>2
  <2>2. CASE j > e
    <3>1. j = e + 1 \/ j = e + 2 \/ j = e + 3
      BY <1>0, <2>2
    <3>2. c[e + 1] = BS /\ c[e + 2] = SP /\ c[e + 3] = BS
      BY <1>3, <1>5
    <3>3. v(e + 1) = BS /\ v(e + 2) = SP /\ v(e + 3) = BS
      BY <1>0, <1>4
    <3> QED
      BY <3>1, <3>2, <3>3
  <2> QED
    BY <1>0, <2>1, <2>2
<1>7. 3 * n \in Nat /\ \A j \in 1 .. (3 * n) : b[j] = c[j]
  BY <1>0, <1>2, <1>6
<1>8. b = c
  BY <1>0, <1>2, <1>5, <1>7, SeqEqual
<1> QED
  BY <1>1, <1>2, <1>8 DEF a, b, c

LEMMA FlattenedBackspaces ==
  ASSUME NEW n \in Nat
  PROVE  FlattenSeq(Times(n, echoBackspace)) = Backspaces(n)
<1> DEFINE ones == Times(n, echoBackspace)
           Flat(f) == f = [i \in 1 .. n |-> IF i = 1 THEN ones[i] ELSE f[i - 1] \o ones[i]]
           f0 == [i \in 1 .. n |-> Backspaces(i)]
           f == CHOOSE g : Flat(g)
<1>0. Len(ones) = n /\ \A i \in 1 .. n : ones[i] = echoBackspace
  BY DEF Times
<1>1. Backspaces(0) = <<>>
  BY DEF Backspaces
<1>2. \A i \in 1 .. n : Backspaces(i) = Backspaces(i - 1) \o echoBackspace
  <2> SUFFICES ASSUME NEW i \in 1 .. n
               PROVE  Backspaces(i) = Backspaces(i - 1) \o echoBackspace
    OBVIOUS
  <2>1. i \in Nat /\ i # 0
    OBVIOUS
  <2> QED
    BY <2>1, BackspacesStep
<1>3. n # 0 => Backspaces(1) = echoBackspace
  <2> HAVE n # 0
  <2>1. Backspaces(1) = Backspaces(0) \o echoBackspace
    BY BackspacesStep
  <2>2. echoBackspace \in Seq({SP, BS})
    BY DEF echoBackspace
  <2> QED
    BY <1>1, <2>1, <2>2
<1>4. Flat(f0)
  <2>1. ASSUME NEW i \in 1 .. n
        PROVE  Backspaces(i) = IF i = 1 THEN ones[i] ELSE f0[i - 1] \o ones[i]
    <3>1. CASE i = 1
      BY <1>0, <1>3, <3>1
    <3>2. CASE i # 1
      <4>1. i - 1 \in 1 .. n
        BY <3>2
      <4>2. f0[i - 1] = Backspaces(i - 1)
        BY <4>1
      <4> QED
        BY <1>0, <1>2, <3>2, <4>2
    <3> QED
      BY <3>1, <3>2
  <2> QED
    BY <2>1
<1>5. Flat(f)
  <2> HIDE DEF Flat, f0
  <2> QED
    BY <1>4
<1>6. FlattenSeq(ones) = IF Len(ones) = 0 THEN ones ELSE f[Len(ones)]
  BY <1>0 DEF FlattenSeq
<1> HIDE DEF f, f0, ones
<1>7. \A i \in 1 .. n : f[i] = IF i = 1 THEN ones[i] ELSE f[i - 1] \o ones[i]
  BY <1>5
<1>8. \A i \in 0 .. n : i # 0 => f[i] = Backspaces(i)
  <2> DEFINE G == {i \in Nat : i # 0 => f[i] = Backspaces(i)}
  <2>1. 0 \in G
    OBVIOUS
  <2>2. ASSUME NEW i \in 1 .. n, i - 1 \in G PROVE i \in G
    <3>1. CASE i = 1
      BY <1>0, <1>3, <1>7, <3>1
    <3>2. CASE i # 1
      <4>1. f[i - 1] = Backspaces(i - 1) /\ i \in Nat
        BY <2>2, <3>2
      <4>2. f[i] = f[i - 1] \o echoBackspace
        BY <1>0, <1>7, <3>2
      <4>3. f[i] = Backspaces(i)
        BY <1>2, <4>1, <4>2, Zenon
      <4> QED
        BY <4>1, <4>3
    <3> QED
      BY <3>1, <3>2
  <2> HIDE DEF G
  <2>3. \A i \in 0 .. n : i \in G
    BY <2>1, <2>2, NumberInduction
  <2> QED
    BY <2>3 DEF G
<1>9. CASE n = 0
  <2>1. ones = <<>>
    BY <1>9 DEF ones, Times
  <2> QED
    BY <1>0, <1>1, <1>6, <1>9, <2>1 DEF ones
<1>10. CASE n # 0
  BY <1>0, <1>6, <1>8, <1>10 DEF ones
<1> QED
  BY <1>9, <1>10

(* A backspace, a blank and a backspace: the character left of the cursor  *)
(* is gone, and the cursor is where it was.                                *)
LEMMA PutsEcho ==
  ASSUME NEW q \in Seq(Glyphs), NEW k \in 1 .. Len(q)
  PROVE  Puts(<<q, k>>, echoBackspace, <<[j \in DOMAIN q |-> IF j = k THEN SP ELSE q[j]], k - 1>>)
<1> DEFINE r == [j \in DOMAIN q |-> IF j = k THEN SP ELSE q[j]]
           T == [i \in 0 .. 3 |-> IF i = 0 THEN <<q, k>> ELSE IF i = 1 THEN <<q, k - 1>>
                                  ELSE IF i = 2 THEN <<r, k>> ELSE <<r, k - 1>>]
<1>1. Len(echoBackspace) = 3
      /\ echoBackspace[1] = BS /\ echoBackspace[2] = SP /\ echoBackspace[3] = BS
  BY DEF echoBackspace
<1>6. r = [j \in DOMAIN q |-> IF j = k THEN SP ELSE q[j]]
  OBVIOUS
<1> HIDE DEF r
<1>2. T[0] = <<q, k>> /\ T[1] = <<q, k - 1>> /\ T[2] = <<r, k>> /\ T[3] = <<r, k - 1>>
  OBVIOUS
<1>3. Shown(<<q, k>>, BS) = <<q, k - 1>> /\ Shown(<<r, k>>, BS) = <<r, k - 1>>
  BY ShownIs
<1>4. Shown(<<q, k - 1>>, SP) = <<r, k>>
  <2> DEFINE m == k - 1
  <2>1. m \in 0 .. Len(q) /\ m + 1 = k /\ ~(m + 1 > Len(q)) /\ DOMAIN q = 1 .. Len(q)
    OBVIOUS
  <2> HIDE DEF m
  <2>2. Shown(<<q, m>>, SP) =
          <<[j \in 1 .. (IF m + 1 > Len(q) THEN m + 1 ELSE Len(q)) |->
               IF j = m + 1 THEN SP ELSE q[j]], m + 1>>
    BY <2>1, GlyphsStand, PrintedOver
  <2> QED
    BY <1>6, <2>1, <2>2 DEF m
<1> HIDE DEF T
<1>5. \A i \in 1 .. 3 : T[i] = Shown(T[i - 1], echoBackspace[i])
  <2>1. \A i \in 1 .. 3 : i = 1 \/ i = 2 \/ i = 3
    OBVIOUS
  <2>2. T[1] = Shown(T[0], echoBackspace[1]) /\ T[2] = Shown(T[1], echoBackspace[2])
        /\ T[3] = Shown(T[2], echoBackspace[3])
    BY <1>1, <1>2, <1>3, <1>4
  <2>3. 1 - 1 = 0 /\ 2 - 1 = 1 /\ 3 - 1 = 2
    OBVIOUS
  <2> QED
    BY <2>1, <2>2, <2>3
<1> QED
  BY <1>1, <1>2, <1>5 DEF Puts, Writes, r

LEMMA PutsErased ==
  ASSUME NEW q \in Seq(Glyphs), NEW k \in 0 .. Len(q), NEW n \in 0 .. k
  PROVE  /\ Erased(q, k, n) \in Seq(Glyphs) /\ Len(Erased(q, k, n)) = Len(q)
         /\ Puts(<<q, k>>, FlattenSeq(Times(n, echoBackspace)), <<Erased(q, k, n), k - n>>)
<1>1. \A i \in 0 .. n : Erased(q, k, i) \in Seq(Glyphs) /\ Len(Erased(q, k, i)) = Len(q)
  BY GlyphsStand DEF Erased
<1> DEFINE G == {i \in 0 .. n : Puts(<<q, k>>, Backspaces(i), <<Erased(q, k, i), k - i>>)}
<1>2. 0 \in G
  <2>1. Backspaces(0) = <<>> /\ k - 0 = k
    BY DEF Backspaces
  <2>2. Erased(q, k, 0) = q
    BY DEF Erased
  <2> QED
    BY <2>1, <2>2, PutsNothing
<1>3. ASSUME NEW i \in 1 .. n, i - 1 \in G PROVE i \in G
  <2> DEFINE m == i - 1
             r == k - m
             p == Erased(q, k, m)
  <2>1. Puts(<<q, k>>, Backspaces(m), <<p, r>>)
    BY <1>3
  <2>2. m \in 0 .. n /\ r \in 1 .. Len(q) /\ r - 1 = k - i /\ i \in Nat /\ i # 0
    OBVIOUS
  <2>3. p \in Seq(Glyphs) /\ Len(p) = Len(q)
    BY <1>1, <2>2
  <2>4. [j \in DOMAIN p |-> IF j = r THEN SP ELSE p[j]] = Erased(q, k, i)
    BY <2>2, <2>3 DEF Erased
  <2> HIDE DEF p, r
  <2>5. Puts(<<p, r>>, echoBackspace, <<Erased(q, k, i), k - i>>)
    BY <2>2, <2>3, <2>4, PutsEcho
  <2>6. /\ Backspaces(m) \in Seq({SP, BS}) /\ echoBackspace \in Seq({SP, BS})
        /\ Backspaces(i) = Backspaces(m) \o echoBackspace
    <3>1. Backspaces(m) \in Seq({SP, BS}) /\ Backspaces(i) = Backspaces(m) \o echoBackspace
      BY <2>2, BackspacesStep
    <3>2. echoBackspace \in Seq({SP, BS})
      BY DEF echoBackspace
    <3> QED
      BY <3>1, <3>2
  <2> HIDE DEF m
  <2>7. Puts(<<q, k>>, Backspaces(i), <<Erased(q, k, i), k - i>>)
    BY <2>1, <2>5, <2>6, PutsJoined
  <2> QED
    BY <2>7
<1>4. n \in G
  <2> HIDE DEF G
  <2>1. n \in Nat /\ n \in 0 .. n
    OBVIOUS
  <2> QED
    BY <1>2, <1>3, <2>1, NumberInduction
<1> QED
  BY <1>1, <1>4, FlattenedBackspaces

----------------------------------------------------------------------------
(* The terminal's line: the line, and blanks.                              *)
Shows(q, l) ==
  /\ q \in Seq(Glyphs) /\ Len(q) >= Len(l)
  /\ \A i \in 1 .. Len(q) : q[i] = IF i <= Len(l) THEN l[i] ELSE SP

LEMMA TailIs ==
  ASSUME NEW C, NEW l \in Seq(C), NEW k \in 0 .. Len(l)
  PROVE  /\ SubSeq(l, k + 1, Len(l)) \in Seq(C) /\ Len(SubSeq(l, k + 1, Len(l))) = Len(l) - k
         /\ \A i \in 1 .. (Len(l) - k) : SubSeq(l, k + 1, Len(l))[i] = l[k + i]
<1>1. SubSeq(l, k + 1, Len(l)) \in Seq(C)
  OBVIOUS
<1>2. Len(SubSeq(l, k + 1, Len(l))) = Len(l) - k
  OBVIOUS
<1>3. \A i \in 1 .. (Len(l) - k) : SubSeq(l, k + 1, Len(l))[i] = l[k + i]
  OBVIOUS
<1> QED
  BY <1>1, <1>2, <1>3

LEMMA HeadIs ==
  ASSUME NEW C, NEW l \in Seq(C), NEW k \in 0 .. Len(l)
  PROVE  /\ SubSeq(l, 1, k) \in Seq(C) /\ Len(SubSeq(l, 1, k)) = k
         /\ \A i \in 1 .. k : SubSeq(l, 1, k)[i] = l[i]
  OBVIOUS

LEMMA LettersShow == ASSUME NEW l \in Seq(Letters) PROVE l \in Seq(Glyphs)
  BY DEF Glyphs

(* What refreshTail() writes: the new line's rest, and blanks over what    *)
(* the old one had more.                                                   *)
RestAndBlanks(t, l, from, stale) ==
  /\ t \in Seq(Glyphs) /\ Len(t) = Len(l) - from + stale
  /\ \A i \in 1 .. Len(t) : t[i] = IF from + i <= Len(l) THEN l[from + i] ELSE SP

LEMMA TailAndBlanks ==
  ASSUME NEW l \in Seq(Letters), NEW from \in 0 .. Len(l), NEW stale \in Nat
  PROVE  RestAndBlanks(SubSeq(l, from + 1, Len(l)) \o Times(stale, SP), l, from, stale)
<1> DEFINE t == SubSeq(l, from + 1, Len(l)) \o Times(stale, SP)
           a == SubSeq(l, from + 1, Len(l))
           b == Times(stale, SP)
           m == Len(l) - from
<1>1. l \in Seq(Glyphs) /\ m \in Nat
  BY LettersShow
<1>2. a \in Seq(Glyphs) /\ Len(a) = m /\ \A i \in 1 .. m : a[i] = l[from + i]
  BY <1>1, TailIs
<1>3. b \in Seq(Glyphs) /\ Len(b) = stale /\ \A i \in 1 .. stale : b[i] = SP
  BY GlyphsStand, TimesIs
<1>4. /\ a \o b \in Seq(Glyphs) /\ Len(a \o b) = Len(a) + Len(b)
      /\ \A i \in 1 .. Len(a) : (a \o b)[i] = a[i]
      /\ \A i \in 1 .. Len(b) : (a \o b)[Len(a) + i] = b[i]
  <2> HIDE DEF a, b
  <2>1. \A x \in Seq(Glyphs), y \in Seq(Glyphs) :
            /\ x \o y \in Seq(Glyphs) /\ Len(x \o y) = Len(x) + Len(y)
            /\ \A j \in 1 .. Len(x) : (x \o y)[j] = x[j]
            /\ \A j \in 1 .. Len(y) : (x \o y)[Len(x) + j] = y[j]
    BY ConcatIs
  <2>2. a \in Seq(Glyphs) /\ b \in Seq(Glyphs)
    BY <1>2, <1>3
  <2> QED
    BY <2>1, <2>2, Zenon
<1>5. t = a \o b
  OBVIOUS
<1>6. from \in Nat /\ from + m = Len(l) /\ Len(l) \in Nat
  OBVIOUS
<1> HIDE DEF a, b, m, t
<1>7. t \in Seq(Glyphs) /\ Len(t) = m + stale
  BY <1>2, <1>3, <1>4, <1>5
<1>8. ASSUME NEW i \in 1 .. (m + stale)
      PROVE  t[i] = IF from + i <= Len(l) THEN l[from + i] ELSE SP
  <2>1. CASE i <= m
    <3>1. i \in 1 .. m /\ from + i <= Len(l)
      BY <1>1, <1>6, <2>1
    <3> QED
      BY <1>2, <1>4, <1>5, <3>1
  <2>2. CASE i > m
    <3>1. ~(from + i <= Len(l)) /\ i - m \in 1 .. stale /\ m + (i - m) = i
      BY <1>1, <1>6, <2>2
    <3> DEFINE j == i - m
    <3> HIDE DEF j
    <3>2. j \in 1 .. stale /\ m + j = i
      BY <3>1 DEF j
    <3>3. (a \o b)[m + j] = b[j] /\ b[j] = SP
      BY <1>2, <1>3, <1>4, <3>2
    <3> QED
      BY <1>5, <3>1, <3>2, <3>3
  <2>3. i <= m \/ i > m
    BY <1>1
  <2> QED
    BY <2>1, <2>2, <2>3
<1>9. RestAndBlanks(t, l, from, stale)
  BY <1>7, <1>8 DEF m, RestAndBlanks
<1> QED
  BY <1>9 DEF t

LEMMA RefreshShows ==
  ASSUME NEW l0 \in Seq(Letters), NEW l \in Seq(Letters), NEW q, Shows(q, l0),
         NEW from \in 0 .. Len(l), from <= Len(l0), \A i \in 1 .. from : l[i] = l0[i],
         NEW stale \in Nat, Len(l) + stale >= Len(l0),
         NEW at \in 0 .. (Len(l) + stale)
  PROVE  \E r : /\ Shows(r, l) /\ Puts(<<q, from>>, refreshTail(l, from, stale, at), <<r, at>>)
                /\ refreshTail(l, from, stale, at) \in Strokes
<1> DEFINE t == SubSeq(l, from + 1, Len(l)) \o Times(stale, SP)
           r == Over(q, from, t, Len(t))
           n == Len(l) + stale - at
           back == moveLeft(n)
<1>0. t = SubSeq(l, from + 1, Len(l)) \o Times(stale, SP)
  OBVIOUS
<1> HIDE DEF t
<1>1. /\ t \in Seq(Glyphs) /\ Len(t) = Len(l) - from + stale
      /\ \A i \in 1 .. Len(t) : t[i] = IF from + i <= Len(l) THEN l[from + i] ELSE SP
  <2>1. RestAndBlanks(t, l, from, stale)
    BY <1>0, TailAndBlanks
  <2> QED
    BY <2>1 DEF RestAndBlanks
<1>2. refreshTail(l, from, stale, at) = t \o back
  BY <1>0 DEF refreshTail
<1>3. /\ q \in Seq(Glyphs) /\ from \in 0 .. Len(q) /\ Len(q) >= Len(l0)
      /\ \A i \in 1 .. Len(q) : q[i] = IF i <= Len(l0) THEN l0[i] ELSE SP
  BY DEF Shows
<1>4. Puts(<<q, from>>, t, <<r, from + Len(t)>>)
  BY <1>1, <1>3, PutsText
<1>5. /\ n \in Nat /\ from + Len(t) \in Int /\ from + Len(t) - n = at
      /\ from + Len(t) = Len(l) + stale
  BY <1>1
<1> HIDE DEF r, n
<1>6. Puts(<<r, from + Len(t)>>, back, <<r, from + Len(t) - n>>)
  BY <1>5, PutsBack
<1>7. t \in Strokes /\ back \in Strokes
  <2>1. t \in Strokes
    BY <1>1 DEF Strokes
  <2>2. back \in Strokes
    BY <1>5 DEF moveLeft, Times, Strokes
  <2> QED
    BY <2>1, <2>2
<1> HIDE DEF back
<1>8. Puts(<<q, from>>, t \o back, <<r, at>>) /\ t \o back \in Strokes
  <2>1. Puts(<<r, from + Len(t)>>, back, <<r, at>>)
    BY <1>5, <1>6
  <2>2. Puts(<<q, from>>, t \o back, <<r, at>>)
    BY <1>4, <1>7, <2>1, PutsJoined DEF Strokes
  <2> QED
    BY <1>7, <2>2 DEF Strokes
<1>9. Shows(r, l)
  <2>1. Len(t) \in 0 .. Len(t)
    BY <1>1
  <2>2. r \in Seq(Glyphs) /\ Len(r) = IF Len(l) + stale > Len(q) THEN Len(l) + stale ELSE Len(q)
    <3>1. /\ Over(q, from, t, Len(t)) \in Seq(Glyphs)
          /\ Len(Over(q, from, t, Len(t))) = IF from + Len(t) > Len(q) THEN from + Len(t) ELSE Len(q)
      BY <1>1, <1>3, <2>1, OverTypes
    <3> QED
      BY <1>5, <3>1 DEF r
  <2>3. Len(r) >= Len(l)
    BY <1>3, <2>2
  <2>4. r = [j \in 1 .. (IF Len(l) + stale > Len(q) THEN Len(l) + stale ELSE Len(q)) |->
               IF from < j /\ j <= Len(l) + stale THEN t[j - from] ELSE q[j]]
    BY <1>5 DEF r, Over
  <2>5. ASSUME NEW j \in 1 .. Len(r) PROVE r[j] = IF j <= Len(l) THEN l[j] ELSE SP
    <3>1. r[j] = IF from < j /\ j <= Len(l) + stale THEN t[j - from] ELSE q[j]
      BY <2>2, <2>4
    <3>2. CASE from < j /\ j <= Len(l) + stale
      <4>1. j - from \in 1 .. Len(t) /\ from + (j - from) = j
        BY <1>1, <3>2
      <4>2. t[j - from] = IF j <= Len(l) THEN l[j] ELSE SP
        BY <1>1, <4>1
      <4> QED
        BY <3>1, <3>2, <4>2
    <3>3. CASE j <= from
      <4>1. j \in 1 .. from /\ j \in 1 .. Len(q) /\ j <= Len(l) /\ j <= Len(l0)
        BY <1>3, <3>3
      <4> QED
        BY <1>3, <3>1, <3>3, <4>1
    <3>4. CASE j > Len(l) + stale
      <4>1. j \in 1 .. Len(q) /\ ~(j <= Len(l)) /\ ~(j <= Len(l0))
        BY <1>3, <2>2, <3>4
      <4>2. ~(from < j /\ j <= Len(l) + stale)
        BY <3>4
      <4> QED
        BY <1>3, <3>1, <4>1, <4>2
    <3> QED
      BY <3>2, <3>3, <3>4
  <2> QED
    BY <2>2, <2>3, <2>5 DEF Shows
<1> QED
  BY <1>2, <1>8, <1>9

(* To the end: the rest of the line over itself.                           *)
LEMMA EndPuts ==
  ASSUME NEW l \in Seq(Letters), NEW q, Shows(q, l), NEW k \in 0 .. Len(l)
  PROVE  /\ Puts(<<q, k>>, SubSeq(l, k + 1, Len(l)), <<q, Len(l)>>)
         /\ SubSeq(l, k + 1, Len(l)) \in Strokes
<1> DEFINE t == SubSeq(l, k + 1, Len(l))
<1>1. l \in Seq(Glyphs)
  BY LettersShow
<1>2. t \in Seq(Glyphs) /\ Len(t) = Len(l) - k /\ \A i \in 1 .. (Len(l) - k) : t[i] = l[k + i]
  BY <1>1, TailIs
<1> HIDE DEF t
<1>3. /\ q \in Seq(Glyphs) /\ Len(q) >= Len(l) /\ k \in 0 .. Len(q)
      /\ \A i \in 1 .. Len(q) : q[i] = IF i <= Len(l) THEN l[i] ELSE SP
  BY DEF Shows
<1>4. Puts(<<q, k>>, t, <<Over(q, k, t, Len(t)), k + Len(t)>>)
  BY <1>2, <1>3, PutsText
<1>5. k + Len(t) = Len(l) /\ ~(k + Len(t) > Len(q)) /\ Len(t) \in 0 .. Len(t)
  BY <1>2, <1>3
<1>6. Over(q, k, t, Len(t)) = q
  <2>1. Over(q, k, t, Len(t)) =
          [j \in 1 .. Len(q) |-> IF k < j /\ j <= Len(l) THEN t[j - k] ELSE q[j]]
    BY <1>5 DEF Over
  <2>2. ASSUME NEW j \in 1 .. Len(q)
        PROVE  (IF k < j /\ j <= Len(l) THEN t[j - k] ELSE q[j]) = q[j]
    <3>1. CASE k < j /\ j <= Len(l)
      <4>1. j - k \in 1 .. (Len(l) - k) /\ k + (j - k) = j
        BY <3>1
      <4>2. t[j - k] = l[j] /\ q[j] = l[j]
        BY <1>2, <1>3, <3>1, <4>1
      <4> QED
        BY <3>1, <4>2
    <3>2. CASE ~(k < j /\ j <= Len(l))
      BY <3>2
    <3> QED
      BY <3>1, <3>2
  <2>3. q = [j \in 1 .. Len(q) |-> q[j]]
    BY <1>3
  <2> QED
    BY <2>1, <2>2, <2>3
<1>7. t \in Strokes
  BY <1>2 DEF Strokes
<1> QED
  BY <1>4, <1>5, <1>6, <1>7 DEF t

(* redrawLine() from the end of the old line.                              *)
LEMMA RedrawShows ==
  ASSUME NEW l0 \in Seq(Letters), NEW l \in Seq(Letters), NEW q, Shows(q, l0)
  PROVE  \E r : /\ Shows(r, l) /\ redrawLine(Len(l0), l) \in Strokes
                /\ Puts(<<q, Len(l0)>>, redrawLine(Len(l0), l), <<r, Len(l)>>)
<1> DEFINE n == Len(l0)
           e == FlattenSeq(Times(n, echoBackspace))
           p == Erased(q, n, n)
           r == Over(p, 0, l, Len(l))
<1>1. /\ q \in Seq(Glyphs) /\ Len(q) >= n /\ n \in Nat
      /\ \A i \in 1 .. Len(q) : q[i] = IF i <= n THEN l0[i] ELSE SP
  BY DEF Shows
<1>2. n \in 0 .. Len(q) /\ n \in 0 .. n /\ n - n = 0 /\ Len(q) \in Nat
  BY <1>1
<1> HIDE DEF n
<1>3. p \in Seq(Glyphs) /\ Len(p) = Len(q) /\ Puts(<<q, n>>, e, <<p, 0>>)
  BY <1>1, <1>2, PutsErased
<1>4. \A j \in 1 .. Len(p) : p[j] = SP
  <2>1. p = [j \in 1 .. Len(q) |-> IF 0 < j /\ j <= n THEN SP ELSE q[j]]
    BY <1>1, <1>2 DEF Erased
  <2>2. \A j \in 1 .. Len(q) : (IF 0 < j /\ j <= n THEN SP ELSE q[j]) = SP
    BY <1>1
  <2> HIDE DEF p
  <2> QED
    BY <1>3, <2>1, <2>2
<1>5. e \in Strokes
  <2>1. e = Backspaces(n)
    BY <1>1, FlattenedBackspaces
  <2> HIDE DEF e
  <2>2. Backspaces(n) \in Seq({SP, BS})
    BY <1>1 DEF Backspaces
  <2>3. {SP, BS} \subseteq Glyphs \cup {BS}
    BY GlyphsStand
  <2>4. Backspaces(n) \in Seq(Glyphs \cup {BS})
    BY <2>2, <2>3
  <2> QED
    BY <2>1, <2>4 DEF Strokes
<1> HIDE DEF p, e
<1>6. l \in Seq(Glyphs) /\ l \in Strokes /\ Len(l) \in 0 .. Len(l) /\ 0 \in 0 .. Len(p) /\ 0 + Len(l) = Len(l)
  <2>1. l \in Seq(Glyphs)
    BY LettersShow
  <2>2. Len(p) \in Nat
    BY <1>3
  <2> QED
    BY <2>1, <2>2 DEF Strokes
<1>7. Puts(<<p, 0>>, l, <<r, Len(l)>>)
  <2>1. Puts(<<p, 0>>, l, <<Over(p, 0, l, Len(l)), 0 + Len(l)>>)
    BY <1>3, <1>6, PutsText
  <2> QED
    BY <1>6, <2>1
<1>8. Puts(<<q, n>>, e \o l, <<r, Len(l)>>) /\ e \o l \in Strokes
  <2> HIDE DEF r
  <2>1. Puts(<<q, n>>, e \o l, <<r, Len(l)>>)
    BY <1>3, <1>5, <1>6, <1>7, PutsJoined DEF Strokes
  <2> QED
    BY <1>5, <1>6, <2>1 DEF Strokes
<1>9. Shows(r, l)
  <2>1. r \in Seq(Glyphs) /\ Len(r) = IF Len(l) > Len(p) THEN Len(l) ELSE Len(p)
    <3>1. /\ Over(p, 0, l, Len(l)) \in Seq(Glyphs)
          /\ Len(Over(p, 0, l, Len(l))) = IF 0 + Len(l) > Len(p) THEN 0 + Len(l) ELSE Len(p)
      BY <1>3, <1>6, OverTypes
    <3> QED
      BY <1>6, <3>1
  <2>2. r = [j \in 1 .. (IF Len(l) > Len(p) THEN Len(l) ELSE Len(p)) |->
               IF 0 < j /\ j <= Len(l) THEN l[j - 0] ELSE p[j]]
    BY <1>6 DEF Over
  <2> HIDE DEF r
  <2>3. Len(r) >= Len(l) /\ Len(p) \in Nat
    BY <1>3, <2>1
  <2>4. ASSUME NEW j \in 1 .. Len(r) PROVE r[j] = IF j <= Len(l) THEN l[j] ELSE SP
    <3>1. r[j] = IF 0 < j /\ j <= Len(l) THEN l[j - 0] ELSE p[j]
      BY <2>1, <2>2
    <3>2. CASE j <= Len(l)
      <4>1. 0 < j /\ j - 0 = j
        OBVIOUS
      <4> QED
        BY <3>1, <3>2, <4>1
    <3>3. CASE ~(j <= Len(l))
      <4>1. j \in 1 .. Len(p)
        BY <2>1, <2>3, <3>3
      <4> QED
        BY <1>4, <3>1, <3>3, <4>1
    <3> QED
      BY <3>2, <3>3
  <2> QED
    BY <2>1, <2>3, <2>4 DEF Shows
<1>10. redrawLine(n, l) = e \o l
  BY DEF redrawLine, e
<1> QED
  BY <1>8, <1>9, <1>10 DEF n

----------------------------------------------------------------------------
ParserInv ==
  /\ lineBuf \in Seq(Letters) /\ cursorPos \in 0 .. Len(lineBuf)
  /\ history \in Seq(Seq(Letters)) /\ historyPos \in 0 .. Len(history)
  /\ \E q : screen = <<q, cursorPos>> /\ Shows(q, lineBuf)

(* What is printed ends where the line and the cursor end up.              *)
LEMMA PrintsTheLine ==
  ASSUME ParserInv, NEW out \in Strokes, Write(out),
         lineBuf' \in Seq(Letters), cursorPos' \in 0 .. Len(lineBuf'),
         history' \in Seq(Seq(Letters)), historyPos' \in 0 .. Len(history'),
         \A q : screen = <<q, cursorPos>> /\ Shows(q, lineBuf) =>
           \E r : Shows(r, lineBuf') /\ Puts(<<q, cursorPos>>, out, <<r, cursorPos'>>)
  PROVE  ParserInv'
<1>1. PICK q : screen = <<q, cursorPos>> /\ Shows(q, lineBuf)
  BY DEF ParserInv
<1>2. PICK r : Shows(r, lineBuf') /\ Puts(<<q, cursorPos>>, out, <<r, cursorPos'>>)
  BY <1>1
<1>3. screen \in Screens
  BY <1>1 DEF Screens, Shows, ParserInv
<1>4. screen' = <<r, cursorPos'>>
  BY <1>1, <1>2, <1>3, WrittenIs DEF Write
<1>5. \E q1 : screen' = <<q1, cursorPos'>> /\ Shows(q1, lineBuf')
  BY <1>2, <1>4
<1> QED
  BY <1>5 DEF ParserInv, Shows

LEMMA ParserStands ==
  ASSUME ParserInv, UNCHANGED <<editor, history, historyPos>> PROVE ParserInv'
  BY DEF ParserInv, editor, Shows

LEMMA ParserInitial == ParserInit => ParserInv
<1> SUFFICES ASSUME ParserInit PROVE ParserInv
  OBVIOUS
<1>1. Shows(<<>>, <<>>)
  BY DEF Shows
<1> QED
  BY <1>1 DEF ParserInit, ParserInv

LEMMA MoveKeeps ==
  ASSUME ParserInv, NEW to \in 0 .. Len(lineBuf), NEW out \in Strokes, Move(to, out),
         UNCHANGED <<history, historyPos>>,
         \A q : Shows(q, lineBuf) => Puts(<<q, cursorPos>>, out, <<q, to>>)
  PROVE  ParserInv'
<1>1. lineBuf' = lineBuf /\ cursorPos' = to /\ Write(out)
  BY DEF Move
<1>2. /\ lineBuf \in Seq(Letters) /\ history \in Seq(Seq(Letters))
      /\ historyPos \in 0 .. Len(history)
  BY DEF ParserInv
<1>3. ASSUME NEW q, Shows(q, lineBuf)
      PROVE  \E r : Shows(r, lineBuf') /\ Puts(<<q, cursorPos>>, out, <<r, cursorPos'>>)
  BY <1>1, <1>3
<1> QED
  BY <1>1, <1>2, <1>3, PrintsTheLine

LEMMA LeftKeeps ==
  ASSUME ParserInv, NEW n \in 0 .. cursorPos, Move(cursorPos - n, moveLeft(n)),
         UNCHANGED <<history, historyPos>>
  PROVE  ParserInv'
<1>1. cursorPos \in 0 .. Len(lineBuf) /\ lineBuf \in Seq(Letters)
  BY DEF ParserInv
<1>2. n \in Nat /\ cursorPos \in Int /\ cursorPos - n \in 0 .. Len(lineBuf)
  BY <1>1
<1>3. moveLeft(n) \in Strokes
  BY <1>2 DEF moveLeft, Times, Strokes
<1>4. \A q : Puts(<<q, cursorPos>>, moveLeft(n), <<q, cursorPos - n>>)
  BY <1>2, PutsBack
<1> QED
  BY <1>2, <1>3, <1>4, MoveKeeps

LEMMA HomeKeeps ==
  ASSUME ParserInv, Home, UNCHANGED <<history, historyPos>> PROVE ParserInv'
<1>1. cursorPos \in 0 .. cursorPos /\ cursorPos - cursorPos = 0
  BY DEF ParserInv
<1> QED
  BY <1>1, LeftKeeps DEF Home

LEMMA EndKeeps ==
  ASSUME ParserInv, End, UNCHANGED <<history, historyPos>> PROVE ParserInv'
<1>1. cursorPos \in 0 .. Len(lineBuf) /\ lineBuf \in Seq(Letters)
  BY DEF ParserInv
<1>2. Len(lineBuf) \in 0 .. Len(lineBuf)
  BY <1>1
<1>3. \A q : Shows(q, lineBuf) =>
        Puts(<<q, cursorPos>>, moveToEnd, <<q, Len(lineBuf)>>) /\ moveToEnd \in Strokes
  BY <1>1, EndPuts DEF moveToEnd
<1>4. moveToEnd \in Strokes
  BY <1>3 DEF ParserInv
<1> QED
  BY <1>2, <1>3, <1>4, MoveKeeps DEF End, lineLen

\* The character under the cursor, over itself.
LEMMA RightKeeps ==
  ASSUME ParserInv, cursorPos < lineLen, Move(cursorPos + 1, <<lineBuf[cursorPos + 1]>>),
         UNCHANGED <<history, historyPos>>
  PROVE  ParserInv'
<1> DEFINE k == cursorPos
           c == lineBuf[k + 1]
<1>1. k \in 0 .. Len(lineBuf) /\ lineBuf \in Seq(Letters) /\ k < Len(lineBuf)
  BY DEF ParserInv, lineLen
<1>2. k + 1 \in 0 .. Len(lineBuf) /\ k + 1 \in 1 .. Len(lineBuf) /\ c \in Letters /\ c \in Glyphs
  BY <1>1 DEF Glyphs
<1>3. <<c>> \in Strokes
  BY <1>2 DEF Strokes
<1>4. ASSUME NEW q, Shows(q, lineBuf) PROVE Puts(<<q, k>>, <<c>>, <<q, k + 1>>)
  <2>1. /\ q \in Seq(Glyphs) /\ k \in 0 .. Len(q) /\ ~(k + 1 > Len(q)) /\ k + 1 \in 1 .. Len(q)
        /\ q[k + 1] = c
    BY <1>1, <1>2, <1>4 DEF Shows
  <2> HIDE DEF k, c
  <2>2. Shown(<<q, k>>, c) =
           <<[j \in 1 .. (IF k + 1 > Len(q) THEN k + 1 ELSE Len(q)) |->
                IF j = k + 1 THEN c ELSE q[j]], k + 1>>
    BY <1>2, <2>1, PrintedOver
  <2>3. [j \in 1 .. Len(q) |-> IF j = k + 1 THEN c ELSE q[j]] = q
    <3>1. q = [j \in 1 .. Len(q) |-> q[j]]
      BY <2>1
    <3> QED
      BY <2>1, <3>1
  <2>4. Shown(<<q, k>>, c) = <<q, k + 1>>
    BY <2>1, <2>2, <2>3
  <2> QED
    BY <2>4, PutsOne
<1> QED
  BY <1>2, <1>3, <1>4, MoveKeeps

LEMMA CutIs ==
  ASSUME NEW l \in Seq(Letters), NEW at \in Nat, NEW n \in Nat, at + n <= Len(l)
  PROVE  /\ Cut(l, at, n) \in Seq(Letters) /\ Len(Cut(l, at, n)) = Len(l) - n
         /\ \A i \in 1 .. at : Cut(l, at, n)[i] = l[i]
         /\ n = 0 => Cut(l, at, n) = l
<1> DEFINE k == at + n
           a == SubSeq(l, 1, at)
           b == SubSeq(l, k + 1, Len(l))
<1>1. at \in 0 .. Len(l) /\ k \in 0 .. Len(l) /\ at + n + 1 = k + 1
  OBVIOUS
<1>2. a \in Seq(Letters) /\ Len(a) = at /\ \A i \in 1 .. at : a[i] = l[i]
  BY <1>1, HeadIs
<1> HIDE DEF k
<1>3. /\ b \in Seq(Letters) /\ Len(b) = Len(l) - k
      /\ \A i \in 1 .. (Len(l) - k) : b[i] = l[k + i]
  BY <1>1, TailIs
<1>4. Cut(l, at, n) = a \o b
  BY <1>1 DEF Cut
<1> HIDE DEF a, b
<1>5. /\ a \o b \in Seq(Letters) /\ Len(a \o b) = Len(a) + Len(b)
      /\ \A i \in 1 .. Len(a) : (a \o b)[i] = a[i]
      /\ \A i \in 1 .. Len(b) : (a \o b)[Len(a) + i] = b[i]
  <2>1. \A x \in Seq(Letters), y \in Seq(Letters) :
            /\ x \o y \in Seq(Letters) /\ Len(x \o y) = Len(x) + Len(y)
            /\ \A j \in 1 .. Len(x) : (x \o y)[j] = x[j]
            /\ \A j \in 1 .. Len(y) : (x \o y)[Len(x) + j] = y[j]
    BY ConcatIs
  <2> QED
    BY <1>2, <1>3, <2>1, Zenon
<1>6. Len(a) + Len(b) = Len(l) - n
  BY <1>1, <1>2, <1>3 DEF k
<1>7. ASSUME n = 0 PROVE a \o b = l
  <2>1. k = at /\ Len(l) \in Nat /\ Len(a \o b) = Len(l)
    BY <1>5, <1>6, <1>7 DEF k
  <2>2. ASSUME NEW i \in 1 .. Len(l) PROVE (a \o b)[i] = l[i]
    <3>1. CASE i <= at
      BY <1>2, <1>5, <3>1
    <3>2. CASE i > at
      <4> DEFINE j == i - at
      <4>1. j \in 1 .. (Len(l) - k) /\ at + j = i
        BY <2>1, <3>2
      <4> HIDE DEF j
      <4>2. (a \o b)[at + j] = b[j] /\ b[j] = l[k + j]
        BY <1>2, <1>3, <1>5, <4>1
      <4> QED
        BY <2>1, <4>1, <4>2
    <3>3. i <= at \/ i > at
      OBVIOUS
    <3> QED
      BY <3>1, <3>2, <3>3
  <2> QED
    BY <1>5, <2>1, <2>2, SeqEqual
<1> QED
  BY <1>2, <1>4, <1>5, <1>6, <1>7

LEMMA DeleteKeeps ==
  ASSUME ParserInv, NEW back \in Nat, NEW at \in Nat, NEW n \in Nat,
         at + n <= Len(lineBuf), cursorPos - back = at, deleteRange(back, at, n),
         UNCHANGED <<history, historyPos>>
  PROVE  ParserInv'
<1> DEFINE l == Cut(lineBuf, at, n)
           k == cursorPos
           tail == IF n = 0 THEN <<>> ELSE refreshTail(l, at, n, at)
           out == moveLeft(back) \o tail
<1>1. /\ lineBuf \in Seq(Letters) /\ k \in 0 .. Len(lineBuf)
      /\ history \in Seq(Seq(Letters)) /\ historyPos \in 0 .. Len(history)
  BY DEF ParserInv
<1>2. /\ l \in Seq(Letters) /\ Len(l) = Len(lineBuf) - n /\ \A i \in 1 .. at : l[i] = lineBuf[i]
      /\ n = 0 => l = lineBuf
  BY <1>1, CutIs
<1>3. lineBuf' = l /\ cursorPos' = at /\ Write(out)
  BY DEF deleteRange
<1>4. at \in 0 .. Len(l) /\ at <= Len(lineBuf) /\ Len(l) + n >= Len(lineBuf) /\ at \in 0 .. (Len(l) + n)
      /\ k \in Int
  BY <1>1, <1>2
<1> HIDE DEF l
<1>5. ASSUME NEW q, Shows(q, lineBuf)
      PROVE  \E r : Shows(r, l) /\ Puts(<<q, k>>, out, <<r, at>>) /\ out \in Strokes
  <2>1. Puts(<<q, k>>, moveLeft(back), <<q, at>>)
    BY <1>4, PutsBack
  <2>2. moveLeft(back) \in Strokes
    BY DEF moveLeft, Times, Strokes
  <2>3. PICK r : Shows(r, l) /\ Puts(<<q, at>>, tail, <<r, at>>) /\ tail \in Strokes
    <3>1. CASE n = 0
      <4>1. Shows(q, l) /\ tail = <<>> /\ <<>> \in Strokes
        BY <1>2, <1>5, <3>1 DEF Strokes
      <4> QED
        BY <4>1, PutsNothing
    <3>2. CASE n # 0
      <4>1. tail = refreshTail(l, at, n, at)
        BY <3>2
      <4>2. /\ lineBuf \in Seq(Letters) /\ l \in Seq(Letters) /\ Shows(q, lineBuf)
            /\ at \in 0 .. Len(l) /\ at <= Len(lineBuf) /\ \A i \in 1 .. at : l[i] = lineBuf[i]
            /\ n \in Nat /\ Len(l) + n >= Len(lineBuf) /\ at \in 0 .. (Len(l) + n)
        BY <1>1, <1>2, <1>4, <1>5
      <4>3. \E r : /\ Shows(r, l) /\ Puts(<<q, at>>, refreshTail(l, at, n, at), <<r, at>>)
                   /\ refreshTail(l, at, n, at) \in Strokes
        BY <4>2, RefreshShows
      <4> QED
        BY <4>1, <4>3
    <3> QED
      BY <3>1, <3>2
  <2> HIDE DEF tail
  <2>4. Puts(<<q, k>>, out, <<r, at>>)
    BY <2>1, <2>2, <2>3, PutsJoined DEF Strokes
  <2>5. out \in Strokes
    BY <2>2, <2>3 DEF Strokes
  <2> QED
    BY <2>3, <2>4, <2>5
<1> HIDE DEF out
<1>6. out \in Strokes
  BY <1>5 DEF ParserInv
<1>7. /\ lineBuf' \in Seq(Letters) /\ cursorPos' \in 0 .. Len(lineBuf')
      /\ history' \in Seq(Seq(Letters)) /\ historyPos' \in 0 .. Len(history')
  BY <1>1, <1>2, <1>3, <1>4
<1>8. ASSUME NEW q, Shows(q, lineBuf)
      PROVE  \E r : Shows(r, lineBuf') /\ Puts(<<q, cursorPos>>, out, <<r, cursorPos'>>)
  BY <1>3, <1>5, <1>8
<1> QED
  BY <1>3, <1>6, <1>7, <1>8, PrintsTheLine

LEMMA InsertIs ==
  ASSUME NEW l \in Seq(Letters), NEW k \in 0 .. Len(l), NEW c \in Letters
  PROVE  /\ InsertAt(l, k + 1, c) \in Seq(Letters) /\ Len(InsertAt(l, k + 1, c)) = Len(l) + 1
         /\ \A i \in 1 .. k : InsertAt(l, k + 1, c)[i] = l[i]
<1> DEFINE a == SubSeq(l, 1, k)
           b == SubSeq(l, k + 1, Len(l))
<1>1. a \in Seq(Letters) /\ Len(a) = k /\ \A i \in 1 .. k : a[i] = l[i]
  BY HeadIs
<1>2. b \in Seq(Letters) /\ Len(b) = Len(l) - k
  BY TailIs
<1>3. InsertAt(l, k + 1, c) = a \o <<c>> \o b
  <2>1. (k + 1) - 1 = k
    OBVIOUS
  <2> QED
    <3>1. InsertAt(l, k + 1, c) = SubSeq(l, 1, (k + 1) - 1) \o <<c>> \o SubSeq(l, k + 1, Len(l))
      BY DEF InsertAt
    <3>2. SubSeq(l, 1, (k + 1) - 1) = a
      BY <2>1
    <3> QED
      BY <3>1, <3>2
<1> HIDE DEF a, b
<1> DEFINE d == a \o <<c>>
<1>4. d \in Seq(Letters) /\ Len(d) = k + 1 /\ \A i \in 1 .. k : d[i] = l[i]
  BY <1>1
<1> HIDE DEF d
<1>5. /\ d \o b \in Seq(Letters) /\ Len(d \o b) = Len(d) + Len(b)
      /\ \A i \in 1 .. Len(d) : (d \o b)[i] = d[i]
  BY <1>2, <1>4, ConcatIs
<1>6. \A i \in 1 .. k : i \in 1 .. Len(d)
  BY <1>4
<1>7. Len(d) + Len(b) = Len(l) + 1
  BY <1>2, <1>4
<1>8. \A i \in 1 .. k : (d \o b)[i] = l[i]
  BY <1>4, <1>5, <1>6
<1>9. InsertAt(l, k + 1, c) = d \o b
  BY <1>3 DEF d
<1> QED
  BY <1>5, <1>7, <1>8, <1>9

LEMMA PrintableKeeps ==
  ASSUME ParserInv, Printable PROVE ParserInv'
<1>1. PICK c \in Letters :
         IF lineLen + 1 < LINE_MAX_LEN
         THEN /\ lineBuf' = InsertAt(lineBuf, cursorPos + 1, c)
              /\ cursorPos' = cursorPos + 1
              /\ Write(refreshTail(lineBuf', cursorPos, 0, cursorPos + 1))
         ELSE UNCHANGED editor
  BY DEF Printable
<1>2. UNCHANGED <<history, historyPos>>
  BY DEF Printable, Key, record
<1>3. CASE ~(lineLen + 1 < LINE_MAX_LEN)
  BY <1>1, <1>2, <1>3, ParserStands
<1>4. CASE lineLen + 1 < LINE_MAX_LEN
  <2> DEFINE k == cursorPos
             l == InsertAt(lineBuf, k + 1, c)
             out == refreshTail(l, k, 0, k + 1)
  <2>1. /\ lineBuf \in Seq(Letters) /\ k \in 0 .. Len(lineBuf)
        /\ history \in Seq(Seq(Letters)) /\ historyPos \in 0 .. Len(history)
    BY DEF ParserInv
  <2>2. lineBuf' = l /\ cursorPos' = k + 1 /\ Write(out)
    BY <1>1, <1>4
  <2>3. /\ l \in Seq(Letters) /\ Len(l) = Len(lineBuf) + 1
        /\ \A i \in 1 .. k : l[i] = lineBuf[i]
    BY <2>1, InsertIs
  <2> HIDE DEF l
  <2>4. /\ k \in 0 .. Len(l) /\ k <= Len(lineBuf) /\ 0 \in Nat /\ Len(l) + 0 >= Len(lineBuf)
        /\ k + 1 \in 0 .. (Len(l) + 0) /\ k + 1 \in 0 .. Len(l)
    BY <2>1, <2>3
  <2>5. ASSUME NEW q, Shows(q, lineBuf)
        PROVE  \E r : Shows(r, l) /\ Puts(<<q, k>>, out, <<r, k + 1>>) /\ out \in Strokes
    BY <2>1, <2>3, <2>4, <2>5, RefreshShows
  <2> HIDE DEF out
  <2>6. out \in Strokes
    BY <2>5 DEF ParserInv
  <2>7. /\ lineBuf' \in Seq(Letters) /\ cursorPos' \in 0 .. Len(lineBuf')
        /\ history' \in Seq(Seq(Letters)) /\ historyPos' \in 0 .. Len(history')
    BY <1>2, <2>1, <2>2, <2>3, <2>4
  <2>8. ASSUME NEW q, Shows(q, lineBuf)
        PROVE  \E r : Shows(r, lineBuf') /\ Puts(<<q, cursorPos>>, out, <<r, cursorPos'>>)
    BY <2>2, <2>5, <2>8
  <2> QED
    BY <2>2, <2>6, <2>7, <2>8, PrintsTheLine
<1> QED
  BY <1>3, <1>4

(* An entry of the history, or nothing past its end, in the line's place.  *)
LEMMA RecallKeeps ==
  ASSUME ParserInv, NEW pos \in 0 .. Len(history), historyRecall(pos), UNCHANGED history
  PROVE  ParserInv'
<1> DEFINE l0 == lineBuf
           k == cursorPos
           l == IF pos = Len(history) THEN <<>> ELSE history[pos + 1]
           redraw == redrawLine(Len(l0), l)
           out == moveToEnd \o redraw
<1>1. l0 \in Seq(Letters) /\ k \in 0 .. Len(l0) /\ history \in Seq(Seq(Letters))
  BY DEF ParserInv
<1>2. l \in Seq(Letters)
  <2>1. pos # Len(history) => pos + 1 \in 1 .. Len(history)
    BY <1>1
  <2> QED
    BY <1>1, <2>1
<1>3. historyPos' = pos /\ lineBuf' = l /\ cursorPos' = Len(l) /\ Write(out)
  BY DEF historyRecall, lineLen
<1> HIDE DEF l
<1>4. ASSUME NEW q, Shows(q, l0)
      PROVE  \E r : Shows(r, l) /\ Puts(<<q, k>>, out, <<r, Len(l)>>) /\ out \in Strokes
  <2>1. Puts(<<q, k>>, moveToEnd, <<q, Len(l0)>>) /\ moveToEnd \in Strokes
    BY <1>1, <1>4, EndPuts DEF moveToEnd
  <2>2. PICK r : Shows(r, l) /\ redraw \in Strokes /\ Puts(<<q, Len(l0)>>, redraw, <<r, Len(l)>>)
    BY <1>1, <1>2, <1>4, RedrawShows
  <2> HIDE DEF redraw
  <2>3. Puts(<<q, k>>, out, <<r, Len(l)>>)
    BY <2>1, <2>2, PutsJoined DEF Strokes
  <2>4. out \in Strokes
    BY <2>1, <2>2 DEF Strokes
  <2> QED
    BY <2>2, <2>3, <2>4
<1> HIDE DEF out
<1>5. out \in Strokes
  BY <1>4 DEF ParserInv
<1>6. /\ lineBuf' \in Seq(Letters) /\ cursorPos' \in 0 .. Len(lineBuf')
      /\ history' \in Seq(Seq(Letters)) /\ historyPos' \in 0 .. Len(history')
  BY <1>1, <1>2, <1>3
<1>7. ASSUME NEW q, Shows(q, lineBuf)
      PROVE  \E r : Shows(r, lineBuf') /\ Puts(<<q, cursorPos>>, out, <<r, cursorPos'>>)
  BY <1>3, <1>4, <1>7
<1> QED
  BY <1>3, <1>5, <1>6, <1>7, PrintsTheLine

LEMMA FinalKeeps ==
  ASSUME ParserInv, CsiFinal PROVE ParserInv'
<1>1. PICK c \in Finals : handleCsiFinal(c)
  BY DEF CsiFinal
<1>2. /\ lineBuf \in Seq(Letters) /\ cursorPos \in 0 .. Len(lineBuf)
      /\ history \in Seq(Seq(Letters)) /\ historyPos \in 0 .. Len(history)
  BY DEF ParserInv
<1>3. CASE historyPos > 0 /\ historyRecall(historyPos - 1) /\ UNCHANGED history
  <2>1. historyPos - 1 \in 0 .. Len(history)
    BY <1>2, <1>3
  <2> QED
    BY <1>3, <2>1, RecallKeeps
<1>4. CASE historyPos < Len(history) /\ historyRecall(historyPos + 1) /\ UNCHANGED history
  <2>1. historyPos + 1 \in 0 .. Len(history)
    BY <1>2, <1>4
  <2> QED
    BY <1>4, <2>1, RecallKeeps
<1>5. CASE cursorPos > 0 /\ Move(cursorPos - 1, moveLeft(1)) /\ Edits
  <2>1. 1 \in 0 .. cursorPos
    BY <1>2, <1>5
  <2> QED
    BY <1>5, <2>1, LeftKeeps DEF Edits
<1>6. CASE /\ cursorPos < lineLen /\ Move(cursorPos + 1, <<lineBuf[cursorPos + 1]>>) /\ Edits
  BY <1>6, RightKeeps DEF Edits
<1>7. CASE (Home \/ End) /\ Edits
  BY <1>7, HomeKeeps, EndKeeps DEF Edits
<1>8. CASE cursorPos < lineLen /\ deleteRange(0, cursorPos, 1) /\ Edits
  <2>1. /\ cursorPos \in Nat /\ 0 \in Nat /\ 1 \in Nat /\ cursorPos + 1 <= Len(lineBuf)
        /\ cursorPos - 0 = cursorPos
    BY <1>2, <1>8 DEF lineLen
  <2> QED
    BY <1>8, <2>1, DeleteKeeps DEF Edits
<1>9. CASE Nothing
  BY <1>9, ParserStands DEF Nothing
<1> QED
  BY <1>1, <1>3, <1>4, <1>5, <1>6, <1>7, <1>8, <1>9 DEF handleCsiFinal

(* Ctrl+W finds where the word and the blanks before it begin.             *)
LEMMA FirstFrom ==
  ASSUME NEW n \in Nat, NEW S, S \subseteq 0 .. n, S # {}
  PROVE  \E i \in S : \A j \in S : i <= j
<1>1. S \in SUBSET Nat
  OBVIOUS
<1> QED
  BY <1>1, LeastNumber

LEMMA WordIs ==
  ASSUME ParserInv, CtrlW
  PROVE  \E to \in 0 .. cursorPos :
           IF to < cursorPos THEN deleteRange(cursorPos - to, to, cursorPos - to)
                             ELSE UNCHANGED editor
<1> DEFINE blank(i) == i > 0 /\ lineBuf[i] = SP
           k == cursorPos
           B(i) == ~blank(i) /\ \A j \in (i + 1) .. k : blank(j)
           b == CHOOSE i \in 0 .. k : B(i)
           W(i) == (i = 0 \/ blank(i)) /\ \A j \in (i + 1) .. b : ~blank(j)
           start == CHOOSE i \in 0 .. b : W(i)
<1>1. k \in Nat /\ k <= Len(lineBuf) /\ Len(lineBuf) \in Nat
  BY DEF ParserInv
<1>2. b \in 0 .. k
  <2> DEFINE S == {i \in 0 .. k : \A j \in (i + 1) .. k : blank(j)}
  <2>1. k \in S
    BY <1>1
  <2>2. PICK i \in S : \A j \in S : i <= j
    <3>1. S \subseteq 0 .. k /\ S # {}
      BY <2>1
    <3> HIDE DEF S
    <3> QED
      BY <1>1, <3>1, FirstFrom
  <2>3. i \in 0 .. k /\ \A j \in (i + 1) .. k : blank(j)
    OBVIOUS
  <2>4. ~blank(i)
    <3> SUFFICES ASSUME blank(i) PROVE FALSE
      OBVIOUS
    <3>1. i # 0
      OBVIOUS
    <3>2. i - 1 \in 0 .. k /\ ~(i <= i - 1) /\ (i - 1) + 1 = i
      BY <1>1, <2>3, <3>1
    <3> HIDE DEF blank
    <3>3. \A j \in i .. k : blank(j)
      <4> SUFFICES ASSUME NEW j \in i .. k PROVE blank(j)
        OBVIOUS
      <4>1. j = i \/ j \in (i + 1) .. k
        BY <2>3
      <4> QED
        BY <2>3, <4>1
    <3>4. i - 1 \in S
      BY <3>2, <3>3
    <3> QED
      BY <2>2, <3>2, <3>4
  <2>5. \E j \in 0 .. k : B(j)
    BY <2>3, <2>4
  <2> HIDE DEF B
  <2> QED
    BY <2>5
<1> HIDE DEF b
<1>3. start \in 0 .. b
  <2> DEFINE S == {i \in 0 .. b : \A j \in (i + 1) .. b : ~blank(j)}
  <2>0. b \in Nat
    BY <1>2
  <2>1. b \in S
    BY <2>0
  <2>2. PICK i \in S : \A j \in S : i <= j
    <3>1. S \subseteq 0 .. b /\ S # {}
      BY <2>1
    <3> HIDE DEF S
    <3> QED
      BY <2>0, <3>1, FirstFrom
  <2>3. i \in 0 .. b /\ \A j \in (i + 1) .. b : ~blank(j)
    OBVIOUS
  <2>4. i = 0 \/ blank(i)
    <3> SUFFICES ASSUME i # 0, ~blank(i) PROVE FALSE
      OBVIOUS
    <3>2. i - 1 \in 0 .. b /\ ~(i <= i - 1) /\ (i - 1) + 1 = i
      BY <2>0, <2>3
    <3> HIDE DEF blank
    <3>3. \A j \in i .. b : ~blank(j)
      <4> SUFFICES ASSUME NEW j \in i .. b PROVE ~blank(j)
        OBVIOUS
      <4>1. j = i \/ j \in (i + 1) .. b
        BY <2>0, <2>3
      <4> QED
        BY <2>3, <4>1
    <3>4. i - 1 \in S
      BY <3>2, <3>3
    <3> QED
      BY <2>2, <3>2, <3>4
  <2>5. \E j \in 0 .. b : W(j)
    BY <2>3, <2>4
  <2> HIDE DEF W
  <2> QED
    BY <2>5
<1>4. IF start < k THEN deleteRange(k - start, start, k - start) ELSE UNCHANGED editor
  BY DEF CtrlW, b
<1> HIDE DEF start
<1>5. start \in 0 .. k
  BY <1>1, <1>2, <1>3
<1> QED
  BY <1>4, <1>5

LEMMA WordKeeps ==
  ASSUME ParserInv, CtrlW PROVE ParserInv'
<1> DEFINE k == cursorPos
<1>1. k \in Nat /\ k <= Len(lineBuf) /\ Len(lineBuf) \in Nat
  BY DEF ParserInv
<1>2. PICK start \in 0 .. k :
        IF start < k THEN deleteRange(k - start, start, k - start) ELSE UNCHANGED editor
  BY WordIs
<1>3. UNCHANGED <<history, historyPos>>
  BY DEF CtrlW, Key, record
<1>4. CASE start < k
  <2>1. start \in Nat /\ k - start \in Nat /\ start + (k - start) <= Len(lineBuf)
        /\ k - (k - start) = start
    BY <1>1, <1>2, <1>4
  <2> QED
    BY <1>2, <1>3, <1>4, <2>1, DeleteKeeps
<1>5. CASE ~(start < k)
  BY <1>2, <1>3, <1>5, ParserStands
<1> QED
  BY <1>4, <1>5

----------------------------------------------------------------------------
(* The bytes of the history, entry by entry.                               *)
Lines == Seq(Letters)
Sizing(S, f, h) ==
  f = [s \in SUBSET S |-> IF s = {} THEN 0 ELSE f[s \ {Max(s)}] + Len(h[Max(s)]) + 1]
Sizes(T, h) == T[0] = 0 /\ \A i \in 1 .. Len(h) : T[i] = T[i - 1] + Len(h[i]) + 1

LEMMA SizingExists ==
  ASSUME NEW h \in Seq(Lines)
  PROVE  \E f \in [SUBSET (1 .. Len(h)) -> Nat] : Sizing(1 .. Len(h), f, h)
<1> DEFINE n == Len(h)
           w == [p \in (1 .. n) \X Nat |-> p[2] + Len(h[p[1]]) + 1]
<1>1. n \in Nat /\ \A i \in 1 .. n : Len(h[i]) \in Nat
  <2>1. \A i \in 1 .. n : h[i] \in Seq(Letters)
    BY DEF Lines
  <2> QED
    BY <2>1
<1>2. \A i \in 1 .. n, y \in Nat : w[<<i, y>>] = y + Len(h[i]) + 1
  OBVIOUS
<1> HIDE DEF w, n
<1>3. IndexSteps(n, Nat, 0, w)
  <2>1. ASSUME NEW i \in 1 .. n, NEW y \in Nat PROVE w[<<i, y>>] \in Nat
    <3> DEFINE k == Len(h[i])
    <3>1. k \in Nat
      BY <1>1
    <3>2. w[<<i, y>>] = y + k + 1
      BY <1>2
    <3> HIDE DEF k
    <3>3. y + k + 1 \in Nat
      BY <3>1
    <3> QED
      BY <3>2, <3>3, Zenon
  <2> QED
    BY <1>1, <2>1 DEF IndexSteps
<1>4. PICK f \in [SUBSET (1 .. n) -> Nat] : IndexFold(n, 0, w, f)
  BY <1>3, IndexFoldExists
<1>5. ASSUME NEW u \in SUBSET (1 .. n)
      PROVE  f[u] = IF u = {} THEN 0 ELSE f[u \ {Max(u)}] + Len(h[Max(u)]) + 1
  <2>1. CASE u = {}
    BY <1>4, <2>1 DEF IndexFold
  <2>2. CASE u # {}
    <3>1. Max(u) \in u
      BY <1>1, <2>2, MaxOfIndices
    <3>2. Max(u) \in 1 .. n /\ f[u \ {Max(u)}] \in Nat
      BY <3>1
    <3>3. f[u] = w[<<Max(u), f[u \ {Max(u)}]>>]
      BY <1>4, <2>2 DEF IndexFold
    <3> QED
      BY <1>2, <2>2, <3>2, <3>3
  <2> QED
    BY <2>1, <2>2
<1>6. f = [u \in SUBSET (1 .. n) |-> f[u]]
  OBVIOUS
<1>7. Sizing(1 .. n, f, h)
  BY <1>5, <1>6 DEF Sizing
<1> QED
  BY <1>7 DEF n

LEMMA SizeIs ==
  ASSUME NEW h \in Seq(Lines)
  PROVE  \E T \in [0 .. Len(h) -> Nat] : Sizes(T, h) /\ Size(h) = T[Len(h)]
<1> DEFINE n == Len(h)
           f == CHOOSE f1 : Sizing(DOMAIN h, f1, h)
           T == [i \in 0 .. n |-> f[1 .. i]]
<1>1. n \in Nat /\ DOMAIN h = 1 .. n /\ \A i \in 1 .. n : Len(h[i]) \in Nat
  <2>1. \A i \in 1 .. n : h[i] \in Seq(Letters)
    BY DEF Lines
  <2> QED
    BY <2>1
<1>2. Size(h) = f[DOMAIN h]
  BY DEF Size, FoldLeft, MapThenFoldSet, Sizing
<1>3. Sizing(1 .. n, f, h)
  BY <1>1, SizingExists
<1> HIDE DEF f
<1>4. T[0] = 0
  <2>1. 1 .. 0 = {} /\ {} \in SUBSET (1 .. n)
    OBVIOUS
  <2> QED
    BY <1>1, <1>3, <2>1 DEF Sizing
<1>5. ASSUME NEW i \in 1 .. n PROVE T[i] = T[i - 1] + Len(h[i]) + 1
  <2>0. i \in Nat /\ i # 0 /\ i \in 1 .. i /\ i - 1 \in 0 .. n /\ i \in 0 .. n
    BY <1>1
  <2>1. (1 .. i) \ {i} = 1 .. (i - 1) /\ 1 .. i \in SUBSET (1 .. n) /\ 1 .. i # {}
    BY <1>1, PrefixStep
  <2>2. Max(1 .. i) = i
    BY <2>0, MaxIs
  <2>3. f[1 .. i] = f[1 .. (i - 1)] + Len(h[i]) + 1
    BY <1>3, <2>1, <2>2 DEF Sizing
  <2> QED
    BY <2>0, <2>3
<1>6. T[n] = f[1 .. n] /\ T = [i \in 0 .. n |-> T[i]]
  BY <1>1
<1> HIDE DEF T, n
<1>7. \A i \in 0 .. n : T[i] \in Nat
  <2> DEFINE G == {i \in Nat : T[i] \in Nat}
  <2>1. 0 \in G
    BY <1>4
  <2>2. ASSUME NEW i \in 1 .. n, i - 1 \in G PROVE i \in G
    BY <1>1, <1>5, <2>2
  <2> HIDE DEF G
  <2>3. \A i \in 0 .. n : i \in G
    BY <1>1, <2>1, <2>2, NumberInduction
  <2> QED
    BY <2>3 DEF G
<1>8. T \in [0 .. n -> Nat]
  BY <1>6, <1>7
<1> QED
  BY <1>1, <1>2, <1>4, <1>5, <1>6, <1>8 DEF Sizes, n

LEMMA SizeOfNothing == Size(<<>>) = 0
<1>1. <<>> \in Seq(Lines) /\ Len(<<>>) = 0
  OBVIOUS
<1> QED
  BY <1>1, SizeIs DEF Sizes

(* What historyAdd() makes of the history: a line not empty and not the    *)
(* last one again goes to the end, and no more goes at the front than must.*)
Goes(h, l) == l # <<>> /\ ~(h # <<>> /\ l = h[Len(h)])
LEMMA AddedIs ==
  ASSUME NEW h \in Seq(Lines), NEW l \in Lines, Goes(h, l), Len(l) + 1 <= HISTORY_BYTES
  PROVE  \E n \in 0 .. Len(h) :
           /\ historyAdd(h, l) = Append(historyDropOldest(h, n), l)
           /\ ~Full(historyDropOldest(h, n), l)
           /\ \A k \in 0 .. (n - 1) : Full(historyDropOldest(h, k), l)
<1> DEFINE S == {n \in 0 .. Len(h) : ~Full(historyDropOldest(h, n), l)}
           D(n) == /\ ~Full(historyDropOldest(h, n), l)
                   /\ \A k \in 0 .. (n - 1) : Full(historyDropOldest(h, k), l)
           d == CHOOSE n \in 0 .. Len(h) : D(n)
<1>1. Len(l) \in Nat /\ Len(h) \in Nat /\ HISTORY_BYTES \in Nat /\ HISTORY_DEPTH \in Nat
      /\ HISTORY_DEPTH # 0
  BY ParserAssumption DEF Lines
<1>2. Len(h) \in S
  <2>1. historyDropOldest(h, Len(h)) = <<>>
    BY DEF historyDropOldest
  <2>2. ~Full(<<>>, l)
    BY <1>1, SizeOfNothing DEF Full
  <2> QED
    BY <1>1, <2>1, <2>2
<1>3. PICK n \in S : \A j \in S : n <= j
  <2>1. S \subseteq 0 .. Len(h) /\ S # {}
    BY <1>2
  <2> HIDE DEF S
  <2> QED
    BY <1>1, <2>1, FirstFrom
<1>4. n \in 0 .. Len(h) /\ D(n)
  <2>1. n \in 0 .. Len(h) /\ ~Full(historyDropOldest(h, n), l)
    OBVIOUS
  <2>2. ASSUME NEW k \in 0 .. (n - 1) PROVE Full(historyDropOldest(h, k), l)
    <3>1. k \in 0 .. Len(h) /\ ~(n <= k)
      BY <1>1, <2>1
    <3> QED
      BY <1>3, <3>1
  <2> QED
    BY <2>1, <2>2
<1> HIDE DEF D, S
<1>5. d \in 0 .. Len(h) /\ D(d)
  BY <1>4
<1>6. historyAdd(h, l) = Append(historyDropOldest(h, d), l)
  <2>1. l # <<>> /\ ~(h # <<>> /\ l = h[Len(h)]) /\ ~(Len(l) + 1 > HISTORY_BYTES)
    BY <1>1 DEF Goes
  <2>2. historyAdd(h, l) =
          LET drop == CHOOSE i \in 0 .. Len(h) : D(i) IN Append(historyDropOldest(h, drop), l)
    BY <2>1 DEF historyAdd, D
  <2> QED
    BY <2>2
<1> HIDE DEF d
<1> QED
  BY <1>5, <1>6 DEF D

LEMMA NotAdded ==
  ASSUME NEW h, NEW l, ~Goes(h, l) PROVE historyAdd(h, l) = h
  BY DEF historyAdd, Goes

LEMMA AddedType ==
  ASSUME NEW h \in Seq(Lines), NEW l \in Lines
  PROVE  historyAdd(h, l) \in Seq(Lines)
<1>1. CASE ~Goes(h, l)
  BY <1>1, NotAdded
<1>2. CASE Goes(h, l) /\ Len(l) + 1 > HISTORY_BYTES
  BY <1>2 DEF historyAdd, Goes
<1>3. CASE Goes(h, l) /\ ~(Len(l) + 1 > HISTORY_BYTES)
  <2>1. Len(l) + 1 <= HISTORY_BYTES
    BY <1>3, ParserAssumption DEF Lines
  <2>2. PICK n \in 0 .. Len(h) : historyAdd(h, l) = Append(historyDropOldest(h, n), l)
    BY <1>3, <2>1, AddedIs
  <2>3. historyDropOldest(h, n) \in Seq(Lines)
    BY TailIs DEF historyDropOldest
  <2> QED
    BY <2>2, <2>3
<1> QED
  BY <1>1, <1>2, <1>3

LEMMA EnterKeeps ==
  ASSUME ParserInv, Enter PROVE ParserInv'
<1>1. lineBuf \in Lines /\ history \in Seq(Lines)
  BY DEF ParserInv, Lines
<1>2. /\ history' = historyAdd(history, lineBuf) /\ historyPos' = Len(history')
      /\ lineBuf' = <<>> /\ cursorPos' = 0 /\ screen' = <<<<>>, 0>>
  BY DEF Enter
<1>3. history' \in Seq(Lines)
  BY <1>1, <1>2, AddedType
<1>4. historyPos' \in 0 .. Len(history')
  BY <1>2, <1>3
<1>5. Shows(<<>>, <<>>)
  BY DEF Shows
<1>6. \E q : screen' = <<q, cursorPos'>> /\ Shows(q, lineBuf')
  BY <1>2, <1>5
<1>7. lineBuf' \in Seq(Letters) /\ cursorPos' \in 0 .. Len(lineBuf')
  BY <1>2
<1> QED
  BY <1>3, <1>4, <1>6, <1>7 DEF ParserInv, Lines, Shows

LEMMA ParserStep == ASSUME ParserInv, cmd_parser_feed_char PROVE ParserInv'
<1>1. CASE LineFeedOfPair \/ Escape \/ Introducer \/ CsiParam
  BY <1>1, ParserStands DEF LineFeedOfPair, Escape, Introducer, CsiParam, record
<1>2. CASE Key("BS") /\ IF cursorPos > 0 THEN deleteRange(1, cursorPos - 1, 1) ELSE UNCHANGED editor
  <2>1. UNCHANGED <<history, historyPos>>
    BY <1>2 DEF Key, record
  <2>2. CASE cursorPos > 0
    <3>1. cursorPos - 1 \in Nat /\ 1 \in Nat /\ (cursorPos - 1) + 1 <= Len(lineBuf)
      BY <2>2 DEF ParserInv
    <3> QED
      BY <1>2, <2>1, <2>2, <3>1, DeleteKeeps
  <2>3. CASE ~(cursorPos > 0)
    BY <1>2, <2>1, <2>3, ParserStands
  <2> QED
    BY <2>2, <2>3
<1>3. CASE CtrlA
  BY <1>3, HomeKeeps DEF CtrlA, Key, record
<1>4. CASE CtrlE
  BY <1>4, EndKeeps DEF CtrlE, Key, record
<1>5. CASE CtrlU
  <2>1. /\ cursorPos \in Nat /\ 0 \in Nat /\ Len(lineBuf) \in Nat /\ 0 + Len(lineBuf) <= Len(lineBuf)
        /\ cursorPos - cursorPos = 0
    BY DEF ParserInv
  <2>2. UNCHANGED <<history, historyPos>> /\ deleteRange(cursorPos, 0, Len(lineBuf))
    BY <1>5 DEF CtrlU, Key, record, lineLen
  <2> QED
    BY <2>1, <2>2, DeleteKeeps
<1>6. CASE CtrlK
  <2> DEFINE n == Len(lineBuf) - cursorPos
  <2>1. /\ cursorPos \in Nat /\ 0 \in Nat /\ n \in Nat /\ cursorPos + n <= Len(lineBuf)
        /\ cursorPos - 0 = cursorPos
    BY DEF ParserInv
  <2>2. UNCHANGED <<history, historyPos>> /\ deleteRange(0, cursorPos, n)
    BY <1>6 DEF CtrlK, Key, record, lineLen
  <2> HIDE DEF n
  <2> QED
    BY <2>1, <2>2, DeleteKeeps
<1> QED
  BY <1>1, <1>2, <1>3, <1>4, <1>5, <1>6, FinalKeeps, EnterKeeps, WordKeeps, PrintableKeeps
     DEF cmd_parser_feed_char, Backspace

LEMMA LineIsShown == ASSUME ParserInv PROVE ScreenIsLine
<1>1. PICK q : screen = <<q, cursorPos>> /\ Shows(q, lineBuf)
  BY DEF ParserInv
<1>2. lineBuf \in Seq(Glyphs) /\ Len(lineBuf) \in Nat
  BY LettersShow DEF ParserInv
<1>3. /\ q \in Seq(Glyphs) /\ Len(q) >= Len(lineBuf)
      /\ \A i \in 1 .. Len(q) : q[i] = IF i <= Len(lineBuf) THEN lineBuf[i] ELSE SP
  BY <1>1 DEF Shows
<1>4. SubSeq(q, 1, Len(lineBuf)) = lineBuf
  <2>1. Len(lineBuf) \in 0 .. Len(q)
    BY <1>2, <1>3
  <2>2. /\ SubSeq(q, 1, Len(lineBuf)) \in Seq(Glyphs)
        /\ Len(SubSeq(q, 1, Len(lineBuf))) = Len(lineBuf)
        /\ \A i \in 1 .. Len(lineBuf) : SubSeq(q, 1, Len(lineBuf))[i] = q[i]
    BY <1>3, <2>1, HeadIs
  <2>3. \A i \in 1 .. Len(lineBuf) : q[i] = lineBuf[i]
    BY <1>2, <1>3
  <2> QED
    BY <1>2, <2>2, <2>3, SeqEqual
<1>5. Blank(q, Len(lineBuf))
  BY <1>2, <1>3 DEF Blank
<1>6. screen[1] = q /\ screen[2] = cursorPos
  BY <1>1
<1> QED
  BY <1>3, <1>4, <1>5, <1>6 DEF ScreenIsLine, lineLen

(* Whatever is inserted, deleted, killed and recalled, in a line of any    *)
(* length: the terminal shows the line and nothing else, with its cursor   *)
(* at the insertion point (ScreenIsLine; refreshTail(), redrawLine()).     *)
THEOREM LineAlwaysShown == ParserSpec => []ScreenIsLine
<1>1. ParserInv /\ [cmd_parser_feed_char]_parserVars => ParserInv'
  <2>1. ASSUME ParserInv, UNCHANGED parserVars PROVE ParserInv'
    BY <2>1, ParserStands DEF parserVars, record
  <2> QED
    BY <2>1, ParserStep
<1> QED
  BY <1>1, ParserInitial, LineIsShown, PTL DEF ParserSpec

----------------------------------------------------------------------------
(* The lines submitted, without immediate repetitions: which of them stay, *)
(* and how many of those there are up to the k-th.                         *)
Kept(s) == {i \in DOMAIN s : i = 1 \/ s[i] # s[i - 1]}
UpTo(s, k) == Cardinality({j \in Kept(s) : j <= k})
Deduped(s) == [i \in 1 .. Cardinality(Kept(s)) |-> s[CHOOSE k \in Kept(s) : UpTo(s, k) = i]]
Ranked(s)  == \A i \in 1 .. Cardinality(Kept(s)) : \E k \in Kept(s) : UpTo(s, k) = i
Again(s, l) == s # <<>> /\ s[Len(s)] = l

LEMMA KeptIs ==
  ASSUME NEW s \in Seq(Lines)
  PROVE  /\ Kept(s) \subseteq 1 .. Len(s) /\ IsFiniteSet(Kept(s)) /\ Cardinality(Kept(s)) \in Nat
<1>1. Kept(s) \subseteq 1 .. Len(s)
  BY DEF Kept
<1>2. Len(s) \in Nat /\ IsFiniteSet(1 .. Len(s))
  BY FS_Interval
<1>3. IsFiniteSet(Kept(s))
  BY <1>1, <1>2, FS_Subset
<1> QED
  BY <1>1, <1>3, FS_CardinalityType

(* One line more: it stays unless it is the last one again.                *)
KeptNext(s, l, n, t) ==
  /\ t \in Seq(Lines) /\ Len(t) = n + 1 /\ n \in Nat /\ t[n + 1] = l
  /\ \A i \in 1 .. n : t[i] = s[i]
  /\ Kept(t) = IF Again(s, l) THEN Kept(s) ELSE Kept(s) \cup {n + 1}
  /\ \A k \in 1 .. n : UpTo(t, k) = UpTo(s, k)
  /\ UpTo(t, n + 1) = Cardinality(Kept(t))

LEMMA KeptOfOneMore ==
  ASSUME NEW s \in Seq(Lines), NEW l \in Lines
  PROVE  KeptNext(s, l, Len(s), Append(s, l))
<1> DEFINE n == Len(s)
           t == Append(s, l)
<1>0. n = Len(s)
  OBVIOUS
<1>1. /\ t \in Seq(Lines) /\ Len(t) = n + 1 /\ n \in Nat /\ t[n + 1] = l
      /\ \A i \in 1 .. n : t[i] = s[i]
  OBVIOUS
<1> HIDE DEF n, t
<1>2. DOMAIN t = 1 .. (n + 1) /\ DOMAIN s = 1 .. n
  BY <1>0, <1>1
<1>3. ASSUME NEW i \in 1 .. n PROVE i \in Kept(t) <=> i \in Kept(s)
  <2>1. i \in 1 .. (n + 1) /\ t[i] = s[i]
    BY <1>1
  <2>2. i # 1 => t[i - 1] = s[i - 1]
    <3>1. i # 1 => i - 1 \in 1 .. n
      BY <1>1
    <3> QED
      BY <1>1, <3>1
  <2> QED
    BY <1>2, <2>1, <2>2 DEF Kept
<1>4. n + 1 \in Kept(t) <=> ~Again(s, l)
  <2>1. n + 1 \in 1 .. (n + 1) /\ (n + 1) - 1 = n /\ (n + 1 = 1 <=> n = 0) /\ (s = <<>> <=> n = 0)
    BY <1>0, <1>1
  <2>2. n # 0 => t[n] = s[n]
    BY <1>1
  <2> QED
    BY <1>0, <1>1, <1>2, <2>1, <2>2 DEF Kept, Again
<1>5. Kept(t) \subseteq 1 .. (n + 1) /\ Kept(s) \subseteq 1 .. n
  BY <1>0, <1>1, KeptIs
<1>6. \A i \in 1 .. (n + 1) : i \in 1 .. n \/ i = n + 1
  BY <1>1
<1>7. \A i \in 1 .. n : i \in 1 .. (n + 1) /\ i # n + 1
  BY <1>1
<1>8. Kept(t) = IF Again(s, l) THEN Kept(s) ELSE Kept(s) \cup {n + 1}
  <2>1. ASSUME NEW i PROVE i \in Kept(t) <=> i \in Kept(s) \/ (i = n + 1 /\ ~Again(s, l))
    <3>1. CASE i \in 1 .. n
      BY <1>3, <1>7, <3>1
    <3>2. CASE i = n + 1
      <4>1. n + 1 \notin Kept(s)
        BY <1>5, <1>7
      <4> QED
        BY <1>4, <3>2, <4>1
    <3>3. CASE i \notin 1 .. n /\ i # n + 1
      BY <1>5, <1>6, <3>3
    <3> QED
      BY <3>1, <3>2, <3>3
  <2> QED
    BY <2>1
<1>9. ASSUME NEW k \in 1 .. n PROVE UpTo(t, k) = UpTo(s, k)
  <2>1. ASSUME NEW j PROVE j \in Kept(t) /\ j <= k <=> j \in Kept(s) /\ j <= k
    <3>1. ~(n + 1 <= k)
      BY <1>1
    <3> QED
      BY <1>8, <3>1
  <2>2. {j \in Kept(t) : j <= k} = {j \in Kept(s) : j <= k}
    BY <2>1
  <2> QED
    BY <2>2 DEF UpTo
<1>10. UpTo(t, n + 1) = Cardinality(Kept(t))
  <2>1. \A j \in Kept(t) : j <= n + 1
    BY <1>1, <1>5
  <2>2. {j \in Kept(t) : j <= n + 1} = Kept(t)
    BY <2>1
  <2> QED
    BY <2>2 DEF UpTo
<1>11. KeptNext(s, l, n, t)
  BY <1>1, <1>8, <1>9, <1>10 DEF KeptNext
<1> QED
  BY <1>11 DEF n, t

LEMMA DedupedIs ==
  ASSUME NEW s \in Seq(Lines), NEW l \in Lines, NEW t, t = Append(s, l), Ranked(s),
         Deduped(s) \in Seq(Lines)
  PROVE  /\ Deduped(t) = IF Again(s, l) THEN Deduped(s) ELSE Append(Deduped(s), l)
         /\ Ranked(t)
<1> DEFINE n == Len(s)
           c == Cardinality(Kept(s))
<1>0. n = Len(s)
  OBVIOUS
<1>a. KeptNext(s, l, n, t)
  BY KeptOfOneMore
<1> HIDE DEF n
<1>1. /\ t \in Seq(Lines) /\ Len(t) = n + 1 /\ n \in Nat /\ t[n + 1] = l
      /\ \A i \in 1 .. n : t[i] = s[i]
      /\ Kept(t) = IF Again(s, l) THEN Kept(s) ELSE Kept(s) \cup {n + 1}
      /\ \A k \in 1 .. n : UpTo(t, k) = UpTo(s, k)
      /\ UpTo(t, n + 1) = Cardinality(Kept(t))
  BY <1>a DEF KeptNext
<1>2. /\ Kept(s) \subseteq 1 .. n /\ IsFiniteSet(Kept(s)) /\ c \in Nat
  BY <1>0, KeptIs
<1>3. ASSUME ~Again(s, l)
      PROVE  Cardinality(Kept(t)) = c + 1 /\ UpTo(t, n + 1) = c + 1
  <2>1. n + 1 \notin Kept(s)
    BY <1>1, <1>2
  <2>2. Cardinality(Kept(s) \cup {n + 1}) = c + 1
    BY <1>2, <2>1, FS_AddElement
  <2> QED
    BY <1>1, <1>3, <2>2
<1>4. ASSUME NEW i \in 1 .. c
      PROVE  /\ (CHOOSE k \in Kept(t) : UpTo(t, k) = i) = (CHOOSE k \in Kept(s) : UpTo(s, k) = i)
             /\ (CHOOSE k \in Kept(s) : UpTo(s, k) = i) \in 1 .. n
             /\ \E k \in Kept(t) : UpTo(t, k) = i
  <2>1. ASSUME NEW k PROVE k \in Kept(t) /\ UpTo(t, k) = i <=> k \in Kept(s) /\ UpTo(s, k) = i
    <3>1. k \in Kept(s) => k \in Kept(t) /\ UpTo(t, k) = UpTo(s, k)
      BY <1>1, <1>2
    <3>2. ASSUME k \in Kept(t), UpTo(t, k) = i PROVE k \in Kept(s)
      <4>1. CASE Again(s, l)
        BY <1>1, <3>2, <4>1
      <4>2. CASE ~Again(s, l)
        <5>1. UpTo(t, n + 1) # i
          BY <1>2, <1>3, <4>2
        <5> QED
          BY <1>1, <3>2, <4>2, <5>1
      <4> QED
        BY <4>1, <4>2
    <3> QED
      BY <3>1, <3>2
  <2>2. (CHOOSE k \in Kept(t) : UpTo(t, k) = i) = (CHOOSE k \in Kept(s) : UpTo(s, k) = i)
    BY <2>1, Zenon
  <2>3. \E k \in Kept(s) : UpTo(s, k) = i
    BY DEF Ranked
  <2>4. (CHOOSE k \in Kept(s) : UpTo(s, k) = i) \in Kept(s)
    BY <2>3, Zenon
  <2> QED
    BY <1>2, <2>1, <2>2, <2>3, <2>4
<1>5. ASSUME NEW i \in 1 .. c
      PROVE  t[CHOOSE k \in Kept(t) : UpTo(t, k) = i] = s[CHOOSE k \in Kept(s) : UpTo(s, k) = i]
  BY <1>1, <1>4, Zenon
<1>6. Len(Deduped(s)) = c /\ Deduped(s) = [i \in 1 .. c |-> Deduped(s)[i]]
      /\ \A i \in 1 .. c : Deduped(s)[i] = s[CHOOSE k \in Kept(s) : UpTo(s, k) = i]
  BY <1>2 DEF Deduped
<1>7. CASE Again(s, l)
  <2>1. Cardinality(Kept(t)) = c
    BY <1>1, <1>7
  <2>2. Deduped(t) = [i \in 1 .. c |-> t[CHOOSE k \in Kept(t) : UpTo(t, k) = i]]
    BY <2>1 DEF Deduped
  <2>3. Deduped(s) = [i \in 1 .. c |-> s[CHOOSE k \in Kept(s) : UpTo(s, k) = i]]
    BY DEF Deduped
  <2>4. Deduped(t) = Deduped(s)
    BY <1>5, <2>2, <2>3
  <2>5. Ranked(t)
    BY <1>4, <2>1 DEF Ranked
  <2> QED
    BY <1>7, <2>4, <2>5
<1>8. CASE ~Again(s, l)
  <2>1. Cardinality(Kept(t)) = c + 1 /\ UpTo(t, n + 1) = c + 1
    BY <1>3, <1>8
  <2>2. \A i \in 1 .. (c + 1) : i \in 1 .. c \/ i = c + 1
    BY <1>2
  <2>3. ASSUME NEW k \in Kept(t), UpTo(t, k) = c + 1 PROVE k = n + 1
    <3> SUFFICES ASSUME k \in Kept(s) PROVE FALSE
      BY <1>1, <1>8
    <3>1. UpTo(s, k) = c + 1
      BY <1>1, <1>2, <2>3
    <3>2. {j \in Kept(s) : j <= k} \subseteq Kept(s)
      OBVIOUS
    <3>3. UpTo(s, k) <= c
      BY <1>2, <3>2, FS_Subset DEF UpTo
    <3> QED
      BY <1>2, <3>1, <3>3
  <2>4. n + 1 \in Kept(t)
    BY <1>1, <1>8
  <2>5. (CHOOSE k \in Kept(t) : UpTo(t, k) = c + 1) = n + 1
    BY <2>1, <2>3, <2>4
  <2>6. Ranked(t)
    <3> SUFFICES ASSUME NEW i \in 1 .. (c + 1) PROVE \E k \in Kept(t) : UpTo(t, k) = i
      BY <2>1 DEF Ranked
    <3>1. CASE i \in 1 .. c
      BY <1>4, <3>1
    <3>2. CASE i = c + 1
      BY <2>1, <2>4, <3>2
    <3> QED
      BY <2>2, <3>1, <3>2
  <2> DEFINE d == Append(Deduped(s), l)
  <2>7. d = [i \in 1 .. (c + 1) |-> d[i]] /\ d[c + 1] = l /\ \A i \in 1 .. c : d[i] = Deduped(s)[i]
    BY <1>2, <1>6
  <2> HIDE DEF d
  <2>8. Deduped(t) = [i \in 1 .. (c + 1) |-> t[CHOOSE k \in Kept(t) : UpTo(t, k) = i]]
    BY <2>1 DEF Deduped
  <2>9. ASSUME NEW i \in 1 .. (c + 1) PROVE t[CHOOSE k \in Kept(t) : UpTo(t, k) = i] = d[i]
    <3>1. CASE i \in 1 .. c
      BY <1>5, <1>6, <2>7, <3>1
    <3>2. CASE i = c + 1
      BY <1>1, <2>5, <2>7, <3>2
    <3> QED
      BY <2>2, <3>1, <3>2
  <2>10. Deduped(t) = d
    BY <2>7, <2>8, <2>9
  <2> QED
    BY <1>8, <2>6, <2>10 DEF d
<1> QED
  BY <1>7, <1>8

LEMMA DedupedNothing == Deduped(<<>>) = <<>> /\ Ranked(<<>>)
<1>1. Kept(<<>>) = {}
  BY DEF Kept
<1>2. Cardinality(Kept(<<>>)) = 0
  BY <1>1, FS_EmptySet
<1> QED
  BY <1>2 DEF Deduped, Ranked

(* What the history holds in bytes, an entry more at either end; and that  *)
(* it is one byte for each entry more than what all of them hold.          *)
LEMMA SizeType == ASSUME NEW h \in Seq(Lines) PROVE Size(h) \in Nat
<1>1. PICK T \in [0 .. Len(h) -> Nat] : Size(h) = T[Len(h)]
  BY SizeIs
<1>2. Len(h) \in 0 .. Len(h)
  OBVIOUS
<1> QED
  BY <1>1, <1>2

LEMMA SizeWithLast ==
  ASSUME NEW h \in Seq(Lines), NEW l \in Lines
  PROVE  Size(Append(h, l)) = Size(h) + Len(l) + 1
<1> DEFINE g == Append(h, l)
           n == Len(h)
<1>1. g \in Seq(Lines) /\ Len(g) = n + 1 /\ n \in Nat /\ g[n + 1] = l /\ \A i \in 1 .. n : g[i] = h[i]
  OBVIOUS
<1> HIDE DEF g
<1>2. PICK T \in [0 .. n -> Nat] : Sizes(T, h) /\ Size(h) = T[n]
  BY SizeIs
<1>3. PICK U \in [0 .. Len(g) -> Nat] : Sizes(U, g) /\ Size(g) = U[Len(g)]
  BY <1>1, SizeIs
<1>4. /\ T[0] = 0 /\ \A i \in 1 .. n : T[i] = T[i - 1] + Len(h[i]) + 1
      /\ U[0] = 0 /\ \A i \in 1 .. (n + 1) : U[i] = U[i - 1] + Len(g[i]) + 1
  BY <1>1, <1>2, <1>3 DEF Sizes
<1> HIDE DEF n
<1>5. \A i \in 0 .. n : U[i] = T[i]
  <2> DEFINE G == {i \in Nat : U[i] = T[i]}
  <2>1. 0 \in G
    BY <1>4
  <2>2. ASSUME NEW i \in 1 .. n, i - 1 \in G PROVE i \in G
    <3>1. i \in 1 .. (n + 1) /\ g[i] = h[i] /\ U[i - 1] = T[i - 1] /\ i \in Nat
      BY <1>1, <2>2
    <3> QED
      BY <1>4, <3>1
  <2> HIDE DEF G
  <2>3. \A i \in 0 .. n : i \in G
    BY <1>1, <2>1, <2>2, NumberInduction
  <2> QED
    BY <2>3 DEF G
<1>6. n \in 0 .. n /\ n + 1 \in 1 .. (n + 1) /\ (n + 1) - 1 = n
  BY <1>1
<1>7. U[n + 1] = T[n] + Len(l) + 1
  BY <1>1, <1>4, <1>5, <1>6
<1> QED
  BY <1>1, <1>2, <1>3, <1>7 DEF g

LEMMA SizeWithFirst ==
  ASSUME NEW h \in Seq(Lines), NEW g \in Seq(Lines), Len(g) = Len(h) + 1,
         \A i \in 1 .. Len(h) : g[i + 1] = h[i]
  PROVE  Size(g) = Size(h) + Len(g[1]) + 1
<1> DEFINE n == Len(h)
           b == Len(g[1]) + 1
<1>1. n \in Nat /\ Len(g) = n + 1 /\ \A i \in 1 .. n : g[i + 1] = h[i]
  OBVIOUS
<1>2. PICK T \in [0 .. n -> Nat] : Sizes(T, h) /\ Size(h) = T[n]
  BY SizeIs
<1>3. PICK U \in [0 .. (n + 1) -> Nat] : Sizes(U, g) /\ Size(g) = U[n + 1]
  BY <1>1, SizeIs
<1>4. /\ T[0] = 0 /\ \A i \in 1 .. n : T[i] = T[i - 1] + Len(h[i]) + 1
      /\ U[0] = 0 /\ \A i \in 1 .. (n + 1) : U[i] = U[i - 1] + Len(g[i]) + 1
  BY <1>1, <1>2, <1>3 DEF Sizes
<1>5. b \in Nat /\ \A i \in 1 .. n : Len(h[i]) \in Nat
  <2>1. g[1] \in Seq(Letters) /\ \A i \in 1 .. n : h[i] \in Seq(Letters)
    BY <1>1 DEF Lines
  <2> QED
    BY <2>1
<1>6. b = Len(g[1]) + 1
  OBVIOUS
<1> HIDE DEF n, b
<1>7. \A i \in 0 .. n : U[i + 1] = T[i] + b
  <2> DEFINE G == {i \in Nat : U[i + 1] = T[i] + b}
  <2>1. 0 \in G
    <3>1. 1 \in 1 .. (n + 1) /\ 1 - 1 = 0 /\ 0 + 1 = 1
      BY <1>1
    <3>2. U[1] = U[0] + Len(g[1]) + 1
      BY <1>4, <3>1
    <3> QED
      BY <1>4, <1>5, <1>6, <3>1, <3>2
  <2>2. ASSUME NEW i \in 1 .. n, i - 1 \in G PROVE i \in G
    <3>0. /\ i + 1 \in 1 .. (n + 1) /\ (i + 1) - 1 = i /\ (i - 1) + 1 = i
          /\ i \in Nat /\ i - 1 \in 0 .. n
      <4>1. n \in Nat
        BY <1>1
      <4> QED
        BY <4>1
    <3>1. /\ i + 1 \in 1 .. (n + 1) /\ (i + 1) - 1 = i /\ (i - 1) + 1 = i /\ g[i + 1] = h[i]
          /\ i \in Nat /\ i - 1 \in 0 .. n /\ Len(h[i]) \in Nat
      BY <1>1, <1>5, <3>0
    <3>2. U[i] = T[i - 1] + b
      BY <2>2, <3>1
    <3>3. U[i + 1] = U[i] + Len(h[i]) + 1 /\ T[i] = T[i - 1] + Len(h[i]) + 1
      BY <1>4, <3>1
    <3>4. T[i - 1] \in Nat
      BY <1>2, <3>1
    <3> QED
      BY <1>5, <3>1, <3>2, <3>3, <3>4
  <2> HIDE DEF G
  <2>3. \A i \in 0 .. n : i \in G
    BY <1>1, <2>1, <2>2, NumberInduction
  <2> QED
    BY <2>3 DEF G
<1>8. n \in 0 .. n /\ T[n] \in Nat
  BY <1>1, <1>2
<1>9. Size(g) = Size(h) + b
  BY <1>2, <1>3, <1>7, <1>8
<1>10. Size(h) \in Nat /\ Len(g[1]) \in Nat
  <2>1. g[1] \in Seq(Letters)
    BY <1>1 DEF Lines
  <2> QED
    BY <2>1, SizeType
<1> QED
  BY <1>6, <1>9, <1>10

LEMMA FlattenedIs ==
  ASSUME NEW h \in Seq(Lines)
  PROVE  Len(FlattenSeq(h)) + Len(h) = Size(h)
<1> DEFINE n == Len(h)
           w == [p \in (1 .. n) \X Lines |-> IF p[1] = 1 THEN h[p[1]] ELSE p[2] \o h[p[1]]]
           Flat(f) == f = [i \in 1 .. n |-> IF i = 1 THEN h[i] ELSE f[i - 1] \o h[i]]
           f == CHOOSE g : Flat(g)
<1>1. n \in Nat /\ <<>> \in Lines /\ \A i \in 1 .. n : h[i] \in Lines
  BY DEF Lines
<1>2. \A i \in 1 .. n, y \in Lines : w[<<i, y>>] = IF i = 1 THEN h[i] ELSE y \o h[i]
  OBVIOUS
<1>3. FlattenSeq(h) = IF n = 0 THEN h ELSE f[n]
  BY DEF FlattenSeq
<1>0. n = Len(h) /\ (n = 0 => h = <<>>)
  OBVIOUS
<1> HIDE DEF w, n
<1>4. IndexSteps(n, Lines, <<>>, w)
  <2>1. ASSUME NEW i \in 1 .. n, NEW y \in Lines PROVE w[<<i, y>>] \in Lines
    <3>1. h[i] \in Lines /\ y \o h[i] \in Lines
      BY <1>1 DEF Lines
    <3> QED
      BY <1>2, <3>1
  <2> QED
    BY <1>1, <2>1 DEF IndexSteps
<1>5. PICK F \in [SUBSET (1 .. n) -> Lines] : IndexFold(n, <<>>, w, F)
  BY <1>4, IndexFoldExists
<1>6. \A i \in 1 .. n : F[1 .. i] = w[<<i, F[1 .. (i - 1)]>>]
  <2> DEFINE b == <<>>
  <2>1. n \in Nat /\ IndexFold(n, b, w, F)
    BY <1>1, <1>5
  <2> HIDE DEF b
  <2>2. \A f1 : IndexFold(n, b, w, f1) => \A i \in 1 .. n : f1[1 .. i] = w[<<i, f1[1 .. (i - 1)]>>]
    BY <2>1, IndexFoldSteps
  <2> QED
    BY <2>1, <2>2, Zenon
<1>7. \E g : Flat(g)
  <2> DEFINE g == [i \in 1 .. n |-> F[1 .. i]]
  <2>1. ASSUME NEW i \in 1 .. n
        PROVE  F[1 .. i] = IF i = 1 THEN h[i] ELSE g[i - 1] \o h[i]
    <3>1. 1 .. (i - 1) \in SUBSET (1 .. n) /\ (i # 1 => i - 1 \in 1 .. n)
      BY <1>1
    <3>2. F[1 .. (i - 1)] \in Lines
      BY <1>5, <3>1
    <3>3. F[1 .. i] = IF i = 1 THEN h[i] ELSE F[1 .. (i - 1)] \o h[i]
      BY <1>2, <1>6, <3>2
    <3> QED
      BY <3>1, <3>3
  <2>2. g = [i \in 1 .. n |-> IF i = 1 THEN h[i] ELSE g[i - 1] \o h[i]]
    BY <2>1
  <2> QED
    BY <2>2
<1>8. Flat(f)
  <2> HIDE DEF Flat
  <2> QED
    BY <1>7
<1> HIDE DEF f
<1>9. \A i \in 1 .. n : f[i] = IF i = 1 THEN h[i] ELSE f[i - 1] \o h[i]
  BY <1>8
<1>10. PICK T \in [0 .. n -> Nat] : Sizes(T, h) /\ Size(h) = T[n]
  BY <1>0, SizeIs
<1>11. T[0] = 0 /\ \A i \in 1 .. n : T[i] = T[i - 1] + Len(h[i]) + 1
  BY <1>0, <1>10 DEF Sizes
<1>12. \A i \in 0 .. n : i # 0 => f[i] \in Lines /\ Len(f[i]) + i = T[i]
  <2> DEFINE G == {i \in Nat : i # 0 => f[i] \in Lines /\ Len(f[i]) + i = T[i]}
  <2>1. 0 \in G
    OBVIOUS
  <2>2. ASSUME NEW i \in 1 .. n, i - 1 \in G PROVE i \in G
    <3>1. i \in Nat /\ i # 0 /\ h[i] \in Lines /\ h[i] \in Seq(Letters)
      BY <1>1 DEF Lines
    <3>2. Len(h[i]) \in Nat /\ T[i] = T[i - 1] + Len(h[i]) + 1
      BY <1>11, <3>1
    <3>3. CASE i = 1
      <4>1. f[i] = h[i] /\ T[i - 1] = 0
        BY <1>9, <1>11, <3>3
      <4> QED
        BY <3>1, <3>2, <3>3, <4>1
    <3>4. CASE i # 1
      <4>a. i - 1 # 0
        BY <3>1, <3>4
      <4>b. f[i - 1] \in Lines /\ Len(f[i - 1]) + (i - 1) = T[i - 1]
        BY <2>2, <4>a
      <4>1. f[i - 1] \in Lines /\ Len(f[i - 1]) + (i - 1) = T[i - 1] /\ f[i] = f[i - 1] \o h[i]
        BY <1>9, <3>4, <4>b
      <4>2. f[i] \in Lines /\ Len(f[i]) = Len(f[i - 1]) + Len(h[i])
        BY <3>1, <4>1 DEF Lines
      <4>3. Len(f[i - 1]) \in Nat
        BY <4>1 DEF Lines
      <4> DEFINE a == Len(f[i - 1])
                 b == Len(h[i])
                 c == T[i - 1]
      <4>4. a \in Nat /\ b \in Nat /\ a + (i - 1) = c /\ Len(f[i]) = a + b /\ T[i] = c + b + 1
        BY <3>2, <4>1, <4>2, <4>3
      <4> HIDE DEF a, b, c
      <4>5. (a + b) + i = c + b + 1
        BY <3>1, <4>4
      <4>6. Len(f[i]) + i = T[i]
        BY <4>4, <4>5
      <4> QED
        BY <3>1, <4>2, <4>6
    <3> QED
      BY <3>3, <3>4
  <2> HIDE DEF G
  <2>3. \A i \in 0 .. n : i \in G
    BY <1>1, <2>1, <2>2, NumberInduction
  <2> QED
    BY <2>3 DEF G
<1>13. CASE n = 0
  <2>1. h = <<>>
    BY <1>0, <1>13
  <2> QED
    BY <1>0, <1>3, <1>10, <1>11, <1>13, <2>1
<1>14. CASE n # 0
  <2>1. n \in 0 .. n
    BY <1>1
  <2> QED
    BY <1>0, <1>3, <1>10, <1>12, <1>14, <2>1
<1> QED
  BY <1>13, <1>14

(* The history h of the lines d: it is the newest of them, as many as go   *)
(* into the depth and the bytes, and no fewer.                             *)
Recent(h, d) ==
  /\ h \in Seq(Lines) /\ d \in Seq(Lines)
  /\ Len(h) <= Len(d) /\ \A i \in 1 .. Len(h) : h[i] = d[(Len(d) - Len(h)) + i]
  /\ Len(h) <= HISTORY_DEPTH /\ Size(h) <= HISTORY_BYTES
  /\ Len(h) < Len(d) => \/ Len(h) + 1 > HISTORY_DEPTH
                        \/ Size(h) + Len(d[Len(d) - Len(h)]) + 1 > HISTORY_BYTES

(* One line more, and k entries dropped for it.  The newest of those       *)
(* dropped would not have gone in, or nothing was dropped and what did not *)
(* go in before does not go in now.                                        *)
LEMMA RecentAdded ==
  ASSUME NEW h, NEW d, Recent(h, d), NEW l \in Lines, Goes(h, l), Len(l) + 1 <= HISTORY_BYTES
  PROVE  Recent(historyAdd(h, l), Append(d, l))
<1> DEFINE m == Len(h)
           n == Len(d)
           b == Len(l) + 1
           DEPTH == HISTORY_DEPTH
           BYTES == HISTORY_BYTES
<1>1. /\ h \in Seq(Lines) /\ d \in Seq(Lines) /\ m \in Nat /\ n \in Nat
      /\ m <= n /\ (\A i \in 1 .. m : h[i] = d[(n - m) + i])
      /\ m < n => m + 1 > DEPTH \/ Size(h) + Len(d[n - m]) + 1 > BYTES
  BY DEF Recent
<1>2. b \in Nat /\ DEPTH \in Nat /\ BYTES \in Nat
  BY ParserAssumption DEF Lines
<1>3. PICK k \in 0 .. m :
           /\ historyAdd(h, l) = Append(historyDropOldest(h, k), l)
           /\ ~Full(historyDropOldest(h, k), l)
           /\ \A o \in 0 .. (k - 1) : Full(historyDropOldest(h, o), l)
  BY <1>1, AddedIs
<1> DEFINE g == historyDropOldest(h, k)
           j == m - k
           h2 == Append(g, l)
           d2 == Append(d, l)
<1>4. g \in Seq(Lines) /\ Len(g) = j /\ \A i \in 1 .. j : g[i] = h[k + i]
  BY <1>1, TailIs DEF historyDropOldest
<1>5. Size(g) \in Nat /\ Size(h) \in Nat
  BY <1>1, <1>4, SizeType
<1>6. ~(j >= DEPTH) /\ ~(BYTES - Size(g) < b)
  BY <1>3, <1>4 DEF Full
<1>7. n + 1 \in Nat /\ d2 \in Seq(Lines) /\ Len(d2) = n + 1 /\ d2[n + 1] = l /\ \A i \in 1 .. n : d2[i] = d[i]
  BY <1>1
<1> HIDE DEF g, d2
<1>8. /\ h2 \in Seq(Lines) /\ Len(h2) = j + 1 /\ h2[j + 1] = l /\ \A i \in 1 .. j : h2[i] = g[i]
  BY <1>4
<1>9. Size(h2) = Size(g) + b
  <2>1. Size(h2) = Size(g) + Len(l) + 1 /\ Len(l) \in Nat
    BY <1>4, SizeWithLast DEF Lines
  <2> QED
    BY <1>5, <2>1
<1>10. historyAdd(h, l) = h2
  BY <1>3 DEF g
<1>11. \A i \in 1 .. n : Len(d[i]) \in Nat
  <2>1. \A i \in 1 .. n : d[i] \in Seq(Letters)
    BY <1>1 DEF Lines
  <2> QED
    BY <2>1
<1>13. k \in Nat /\ k <= m
  BY <1>1, <1>3
<1>14. ASSUME k # 0
      PROVE  \/ (j + 1) + 1 > DEPTH
             \/ Size(h2) + Len(d2[(n + 1) - (j + 1)]) + 1 > BYTES
  <2> DEFINE f == historyDropOldest(h, k - 1)
  <2>1. k - 1 \in 0 .. m /\ k - 1 \in 0 .. (k - 1) /\ m - (k - 1) = j + 1 /\ (k - 1) + 1 = k
        /\ k \in 1 .. m /\ 1 \in 1 .. (j + 1) /\ j \in Nat
    BY <1>1, <1>13, <1>14
  <2>2. f \in Seq(Lines) /\ Len(f) = j + 1 /\ \A i \in 1 .. (j + 1) : f[i] = h[(k - 1) + i]
    BY <1>1, <2>1, TailIs DEF historyDropOldest
  <2>3. f[1] = h[k] /\ \A i \in 1 .. j : f[i + 1] = g[i]
    <3>1. \A i \in 1 .. j : i + 1 \in 1 .. (j + 1) /\ (k - 1) + (i + 1) = k + i
      BY <1>1, <1>13
    <3> QED
      BY <1>4, <2>1, <2>2, <3>1
  <2>4. Full(f, l)
    BY <1>3, <2>1
  <2> HIDE DEF f, j
  <2>5. Size(f) = Size(g) + Len(f[1]) + 1
    BY <1>4, <2>2, <2>3, SizeWithFirst
  <2>6. h[k] = d[(n - m) + k] /\ (n - m) + k \in 1 .. n /\ (n + 1) - (j + 1) = (n - m) + k
    BY <1>1, <1>13, <1>14, <2>1 DEF j
  <2>7. d2[(n + 1) - (j + 1)] = f[1] /\ Len(f[1]) \in Nat
    BY <1>7, <1>11, <2>3, <2>6
  <2>8. j + 1 >= DEPTH \/ BYTES - Size(f) < b
    BY <2>2, <2>4 DEF Full
  <2> DEFINE c == Len(f[1])
             z == Size(g)
  <2>9. c \in Nat /\ z \in Nat /\ (j + 1 >= DEPTH \/ BYTES - (z + c + 1) < b)
    BY <1>5, <2>5, <2>7, <2>8
  <2> HIDE DEF c, z, b, DEPTH, BYTES
  <2>10. (j + 1) + 1 > DEPTH \/ (z + b) + c + 1 > BYTES
    BY <1>2, <2>1, <2>9
  <2>11. (j + 1) + 1 > DEPTH \/ Size(h2) + Len(d2[(n + 1) - (j + 1)]) + 1 > BYTES
    BY <1>9, <2>7, <2>10 DEF c, z
  <2> QED
    BY <2>11
<1>15. ASSUME k = 0, m < n
      PROVE  \/ (j + 1) + 1 > DEPTH
             \/ Size(h2) + Len(d2[(n + 1) - (j + 1)]) + 1 > BYTES
  <2>1. j = m /\ (n + 1) - (j + 1) = n - m /\ n - m \in 1 .. n
    BY <1>1, <1>15
  <2>2. g = h
    <3>1. \A i \in 1 .. m : 0 + i = i
      BY <1>1
    <3>2. \A i \in 1 .. m : g[i] = h[i]
      BY <1>4, <1>15, <2>1, <3>1
    <3> QED
      BY <1>1, <1>4, <2>1, <3>2, SeqEqual
  <2>3. d2[(n + 1) - (j + 1)] = d[n - m] /\ Len(d[n - m]) \in Nat
    BY <1>7, <1>11, <2>1
  <2>4. m + 1 > DEPTH \/ Size(g) + Len(d[n - m]) + 1 > BYTES
    BY <1>1, <1>15, <2>2
  <2> DEFINE c == Len(d[n - m])
             z == Size(g)
  <2>5. c \in Nat /\ z \in Nat /\ (m + 1 > DEPTH \/ z + c + 1 > BYTES) /\ m \in Nat
    BY <1>1, <1>5, <2>3, <2>4
  <2> HIDE DEF c, z, b, DEPTH, BYTES, m
  <2>6. (m + 1) + 1 > DEPTH \/ (z + b) + c + 1 > BYTES
    BY <1>2, <2>5
  <2> QED
    BY <1>9, <2>1, <2>3, <2>6 DEF c, z
<1> HIDE DEF j, h2, b, DEPTH, BYTES
<1>16. j \in Nat /\ j <= m /\ j = m - k
  BY <1>1, <1>13 DEF j
<1>17. j + 1 < n + 1 => \/ (j + 1) + 1 > DEPTH
                        \/ Size(h2) + Len(d2[(n + 1) - (j + 1)]) + 1 > BYTES
  <2>1. j + 1 < n + 1 => k # 0 \/ (k = 0 /\ m < n)
    BY <1>1, <1>13, <1>16
  <2> QED
    BY <1>14, <1>15, <2>1
<1>18. ASSUME NEW i \in 1 .. (j + 1) PROVE h2[i] = d2[((n + 1) - (j + 1)) + i]
  <2>1. CASE i \in 1 .. j
    <3>1. /\ k + i \in 1 .. m /\ ((n + 1) - (j + 1)) + i = (n - m) + (k + i)
          /\ (n - m) + (k + i) \in 1 .. n
      BY <1>1, <1>13, <1>16, <2>1
    <3>2. h[k + i] = d[(n - m) + (k + i)]
      BY <1>1, <3>1
    <3> QED
      BY <1>4, <1>7, <1>8, <2>1, <3>1, <3>2
  <2>2. CASE i = j + 1
    <3>1. ((n + 1) - (j + 1)) + i = n + 1
      BY <1>1, <1>16, <2>2
    <3> QED
      BY <1>7, <1>8, <2>2, <3>1
  <2>3. i \in 1 .. j \/ i = j + 1
    BY <1>16
  <2> QED
    BY <2>1, <2>2, <2>3
<1>19. j + 1 <= n + 1 /\ j + 1 <= DEPTH /\ Size(h2) <= BYTES
  BY <1>1, <1>2, <1>5, <1>6, <1>9, <1>16
<1> QED
  BY <1>7, <1>8, <1>10, <1>17, <1>18, <1>19 DEF Recent, d2, DEPTH, BYTES

----------------------------------------------------------------------------
(* No line grows over the buffer, so each goes into the history's bytes.   *)
Short == /\ Len(lineBuf) < LINE_MAX_LEN
         /\ \A i \in 1 .. Len(history) : Len(history[i]) < LINE_MAX_LEN

LEMMA DeletedIsShort ==
  ASSUME ParserInv, Short, NEW back, NEW to \in Nat, NEW n \in Nat, to + n <= Len(lineBuf),
         deleteRange(back, to, n)
  PROVE  Len(lineBuf') < LINE_MAX_LEN
<1> DEFINE m == Len(lineBuf)
           l == Cut(lineBuf, to, n)
<1>1. lineBuf \in Seq(Letters) /\ m \in Nat /\ m < LINE_MAX_LEN /\ LINE_MAX_LEN \in Nat
  BY ParserAssumption DEF ParserInv, Short
<1>2. Len(l) = m - n
  BY <1>1, CutIs
<1>3. lineBuf' = l
  BY DEF deleteRange
<1> HIDE DEF m, l
<1>4. m - n < LINE_MAX_LEN
  BY <1>1
<1> QED
  BY <1>2, <1>3, <1>4

LEMMA RecalledIsShort ==
  ASSUME ParserInv, Short, NEW pos \in 0 .. Len(history), historyRecall(pos)
  PROVE  Len(lineBuf') < LINE_MAX_LEN
<1>1. CASE pos = Len(history)
  <2>1. lineBuf' = <<>> /\ Len(<<>>) = 0
    BY <1>1 DEF historyRecall
  <2>2. 0 < LINE_MAX_LEN
    BY ParserAssumption
  <2> QED
    BY <2>1, <2>2
<1>2. CASE pos # Len(history)
  <2>1. Len(history) \in Nat
    BY DEF ParserInv
  <2>2. pos + 1 \in 1 .. Len(history)
    BY <1>2, <2>1
  <2>3. lineBuf' = history[pos + 1]
    BY <1>2 DEF historyRecall
  <2> QED
    BY <2>2, <2>3 DEF Short
<1> QED
  BY <1>1, <1>2

LEMMA FinalIsShort ==
  ASSUME ParserInv, Short, CsiFinal
  PROVE  Len(lineBuf') < LINE_MAX_LEN /\ UNCHANGED <<history, submitted>>
<1>1. PICK c \in Finals : handleCsiFinal(c)
  BY DEF CsiFinal
<1>2. UNCHANGED submitted
  BY DEF CsiFinal
<1>3. /\ cursorPos \in Nat /\ Len(lineBuf) \in Nat /\ Len(history) \in Nat
      /\ historyPos \in 0 .. Len(history)
  BY DEF ParserInv
<1>4. CASE /\ \/ historyPos > 0 /\ historyRecall(historyPos - 1)
              \/ historyPos < Len(history) /\ historyRecall(historyPos + 1)
           /\ UNCHANGED history
  <2>1. CASE historyPos > 0 /\ historyRecall(historyPos - 1)
    <3>1. historyPos - 1 \in 0 .. Len(history)
      BY <1>3, <2>1
    <3> QED
      BY <1>2, <1>4, <2>1, <3>1, RecalledIsShort
  <2>2. CASE historyPos < Len(history) /\ historyRecall(historyPos + 1)
    <3>1. historyPos + 1 \in 0 .. Len(history)
      BY <1>3, <2>2
    <3> QED
      BY <1>2, <1>4, <2>2, <3>1, RecalledIsShort
  <2> QED
    BY <1>4, <2>1, <2>2
<1>5. CASE UNCHANGED <<lineBuf, history>>
  BY <1>2, <1>5 DEF Short
<1>6. CASE cursorPos < lineLen /\ deleteRange(0, cursorPos, 1) /\ Edits
  <2>1. 1 \in Nat /\ cursorPos + 1 <= Len(lineBuf)
    BY <1>3, <1>6 DEF lineLen
  <2>2. UNCHANGED history
    BY <1>6 DEF Edits
  <2> QED
    BY <1>2, <1>3, <1>6, <2>1, <2>2, DeletedIsShort
<1> QED
  BY <1>1, <1>4, <1>5, <1>6 DEF handleCsiFinal, Edits, Nothing, editor, Move, Home, End

LEMMA EditedIsShort ==
  ASSUME ParserInv, Short, cmd_parser_feed_char
  PROVE  Enter \/ (Len(lineBuf') < LINE_MAX_LEN /\ UNCHANGED <<history, submitted>>)
<1>1. /\ cursorPos \in Nat /\ Len(lineBuf) \in Nat /\ cursorPos <= Len(lineBuf)
      /\ lineBuf \in Seq(Letters)
  BY DEF ParserInv
<1>2. CASE LineFeedOfPair \/ Escape \/ Introducer \/ CsiParam
  BY <1>2 DEF LineFeedOfPair, Escape, Introducer, CsiParam, record, editor, Short
<1>3. CASE Backspace
  <2>1. UNCHANGED <<history, submitted>>
    BY <1>3 DEF Backspace, Key, record
  <2>2. CASE cursorPos > 0
    <3>1. cursorPos - 1 \in Nat /\ 1 \in Nat /\ (cursorPos - 1) + 1 <= Len(lineBuf)
      BY <1>1, <2>2
    <3> QED
      BY <1>3, <2>1, <2>2, <3>1, DeletedIsShort DEF Backspace
  <2>3. CASE ~(cursorPos > 0)
    BY <1>3, <2>1, <2>3 DEF Backspace, editor, Short
  <2> QED
    BY <2>2, <2>3
<1>4. CASE CtrlA \/ CtrlE
  BY <1>4 DEF CtrlA, CtrlE, Home, End, Move, Key, record, Short
<1>5. CASE CtrlU
  <2>1. UNCHANGED <<history, submitted>> /\ deleteRange(cursorPos, 0, Len(lineBuf))
    BY <1>5 DEF CtrlU, Key, record, lineLen
  <2>2. 0 \in Nat /\ 0 + Len(lineBuf) <= Len(lineBuf)
    BY <1>1
  <2> QED
    BY <1>1, <2>1, <2>2, DeletedIsShort
<1>6. CASE CtrlK
  <2> DEFINE n == Len(lineBuf) - cursorPos
  <2>1. UNCHANGED <<history, submitted>> /\ deleteRange(0, cursorPos, n)
    BY <1>6 DEF CtrlK, Key, record, lineLen
  <2>2. n \in Nat /\ cursorPos + n <= Len(lineBuf)
    BY <1>1
  <2> HIDE DEF n
  <2> QED
    BY <1>1, <2>1, <2>2, DeletedIsShort
<1>7. CASE CtrlW
  <2>1. UNCHANGED <<history, submitted>>
    BY <1>7 DEF CtrlW, Key, record
  <2>2. PICK to \in 0 .. cursorPos :
          IF to < cursorPos THEN deleteRange(cursorPos - to, to, cursorPos - to)
                            ELSE UNCHANGED editor
    BY <1>7, WordIs
  <2>3. CASE to < cursorPos
    <3>1. to \in Nat /\ cursorPos - to \in Nat /\ to + (cursorPos - to) <= Len(lineBuf)
      BY <1>1, <2>3
    <3> QED
      BY <2>1, <2>2, <2>3, <3>1, DeletedIsShort
  <2>4. CASE ~(to < cursorPos)
    BY <2>1, <2>2, <2>4 DEF editor, Short
  <2> QED
    BY <2>3, <2>4
<1>8. CASE Printable
  <2>1. UNCHANGED <<history, submitted>>
    BY <1>8 DEF Printable, Key, record
  <2>2. PICK c \in Letters :
          IF lineLen + 1 < LINE_MAX_LEN
          THEN lineBuf' = InsertAt(lineBuf, cursorPos + 1, c) ELSE UNCHANGED editor
    BY <1>8 DEF Printable
  <2>3. CASE lineLen + 1 < LINE_MAX_LEN
    <3>1. cursorPos \in 0 .. Len(lineBuf)
      BY <1>1
    <3>2. Len(lineBuf') = lineLen + 1
      BY <1>1, <2>2, <2>3, <3>1, InsertIs DEF lineLen
    <3> QED
      BY <2>1, <2>3, <3>2
  <2>4. CASE ~(lineLen + 1 < LINE_MAX_LEN)
    BY <2>1, <2>2, <2>4 DEF editor, Short
  <2> QED
    BY <2>3, <2>4
<1> QED
  BY <1>2, <1>3, <1>4, <1>5, <1>6, <1>7, <1>8, FinalIsShort DEF cmd_parser_feed_char

(* The history is the newest of the lines submitted, and ends in the line  *)
(* submitted last.                                                         *)
HistoryInv ==
  /\ ParserInv /\ Short
  /\ submitted \in Seq(Lines) /\ Ranked(submitted)
  /\ Recent(history, Deduped(submitted))
  /\ (history = <<>> <=> submitted = <<>>)
  /\ submitted # <<>> => history[Len(history)] = submitted[Len(submitted)]

LEMMA HistoryInitial == ParserInit => HistoryInv
<1> SUFFICES ASSUME ParserInit PROVE HistoryInv
  OBVIOUS
<1>1. ParserInv
  BY ParserInitial
<1>2. lineBuf = <<>> /\ history = <<>> /\ submitted = <<>> /\ Len(<<>>) = 0 /\ <<>> \in Seq(Lines)
  BY DEF ParserInit
<1>3. Short
  BY <1>2, ParserAssumption DEF Short
<1>4. Recent(<<>>, <<>>)
  <2>1. 0 <= HISTORY_DEPTH /\ 0 <= HISTORY_BYTES
    BY ParserAssumption
  <2> QED
    BY <1>2, <2>1, SizeOfNothing DEF Recent
<1> QED
  BY <1>1, <1>2, <1>3, <1>4, DedupedNothing DEF HistoryInv

LEMMA HistorySubmitted == ASSUME HistoryInv, Enter PROVE HistoryInv'
<1> DEFINE l == lineBuf
           h == history
           s == submitted
           d == Deduped(submitted)
<1>1. /\ ParserInv /\ Short /\ s \in Seq(Lines) /\ Ranked(s) /\ Recent(h, d)
      /\ (h = <<>> <=> s = <<>>) /\ (s # <<>> => h[Len(h)] = s[Len(s)])
  BY DEF HistoryInv
<1>2. /\ history' = historyAdd(h, l) /\ lineBuf' = <<>>
      /\ submitted' = IF l = <<>> THEN s ELSE Append(s, l)
  BY DEF Enter
<1>3. ParserInv'
  BY <1>1, EnterKeeps
<1>4. l \in Lines /\ h \in Seq(Lines) /\ d \in Seq(Lines)
  BY <1>1 DEF ParserInv, Recent, Lines
<1>5. Len(l) < LINE_MAX_LEN /\ Len(l) + 1 <= HISTORY_BYTES /\ 0 < LINE_MAX_LEN
  <2>1. Len(l) \in Nat
    BY <1>4 DEF Lines
  <2>2. Len(l) < LINE_MAX_LEN
    BY <1>1 DEF Short
  <2> HIDE DEF l
  <2> QED
    BY <2>1, <2>2, ParserAssumption
<1>6. Len(lineBuf') < LINE_MAX_LEN
  BY <1>2, <1>5
<1>7. Goes(h, l) <=> l # <<>> /\ ~Again(s, l)
  BY <1>1 DEF Goes, Again
<1> HIDE DEF l, h, s, d
<1>8. CASE l = <<>>
  <2>1. history' = h /\ submitted' = s
    BY <1>2, <1>7, <1>8, NotAdded
  <2> QED
    BY <1>1, <1>3, <1>6, <2>1 DEF HistoryInv, Short, h, s, d
<1>9. CASE l # <<>> /\ Again(s, l)
  <2>1. history' = h /\ submitted' = Append(s, l)
    BY <1>2, <1>7, <1>9, NotAdded
  <2>2. Deduped(Append(s, l)) = d /\ Ranked(Append(s, l))
    BY <1>1, <1>4, <1>9, DedupedIs DEF d, s
  <2>3. /\ Append(s, l) \in Seq(Lines) /\ Append(s, l) # <<>>
        /\ Append(s, l)[Len(Append(s, l))] = l
    BY <1>1, <1>4
  <2>4. s # <<>> /\ h # <<>> /\ h[Len(h)] = l
    BY <1>1, <1>9 DEF Again
  <2> QED
    BY <1>1, <1>3, <1>6, <2>1, <2>2, <2>3, <2>4 DEF HistoryInv, Short, h
<1>10. CASE Goes(h, l)
  <2>1. submitted' = Append(s, l)
    BY <1>2, <1>7, <1>10
  <2>2. Deduped(Append(s, l)) = Append(d, l) /\ Ranked(Append(s, l))
    BY <1>1, <1>4, <1>7, <1>10, DedupedIs DEF d, s
  <2>3. Recent(historyAdd(h, l), Append(d, l))
    BY <1>1, <1>4, <1>5, <1>10, RecentAdded
  <2>4. /\ Append(s, l) \in Seq(Lines) /\ Append(s, l) # <<>>
        /\ Append(s, l)[Len(Append(s, l))] = l
    BY <1>1, <1>4
  <2>5. PICK k \in 0 .. Len(h) : historyAdd(h, l) = Append(historyDropOldest(h, k), l)
    BY <1>4, <1>5, <1>10, AddedIs
  <2> DEFINE g == historyDropOldest(h, k)
             j == Len(h) - k
  <2>6. g \in Seq(Lines) /\ Len(g) = j /\ \A i \in 1 .. j : g[i] = h[k + i]
    BY <1>4, <2>5, TailIs DEF historyDropOldest
  <2> HIDE DEF g
  <2>7. /\ Append(g, l) # <<>> /\ Len(Append(g, l)) = j + 1 /\ Append(g, l)[j + 1] = l
        /\ \A i \in 1 .. j : Append(g, l)[i] = g[i]
    <3>1. j \in Nat
      BY <1>4, <2>5
    <3> HIDE DEF j
    <3> QED
      BY <1>4, <2>6, <3>1
  <2>8. \A i \in 1 .. (j + 1) : Len(Append(g, l)[i]) < LINE_MAX_LEN
    <3>1. \A i \in 1 .. j : k + i \in 1 .. Len(h)
      BY <1>4, <2>5
    <3>2. \A i \in 1 .. j : Len(h[k + i]) < LINE_MAX_LEN
      BY <1>1, <3>1 DEF Short, h
    <3>3. \A i \in 1 .. (j + 1) : i \in 1 .. j \/ i = j + 1
      BY <1>4, <2>5
    <3> HIDE DEF j
    <3> QED
      BY <1>5, <2>6, <2>7, <3>2, <3>3
  <2>9. history' = Append(g, l)
    BY <1>2, <2>5 DEF g
  <2> QED
    BY <1>2, <1>3, <1>6, <2>1, <2>2, <2>3, <2>4, <2>7, <2>8, <2>9 DEF HistoryInv, Short
<1> QED
  BY <1>7, <1>8, <1>9, <1>10

LEMMA HistoryStep ==
  ASSUME HistoryInv, [cmd_parser_feed_char]_parserVars PROVE HistoryInv'
<1>1. CASE UNCHANGED parserVars
  <2>1. ParserInv'
    BY <1>1, ParserStands DEF parserVars, record, HistoryInv
  <2> QED
    BY <1>1, <2>1 DEF HistoryInv, parserVars, record, editor, Short
<1>2. CASE cmd_parser_feed_char /\ ~Enter
  <2>1. ParserInv'
    BY <1>2, ParserStep DEF HistoryInv
  <2>2. Len(lineBuf') < LINE_MAX_LEN /\ UNCHANGED <<history, submitted>>
    BY <1>2, EditedIsShort DEF HistoryInv
  <2> QED
    BY <2>1, <2>2 DEF HistoryInv, Short
<1> QED
  BY <1>1, <1>2, HistorySubmitted

LEMMA SuffixIs ==
  ASSUME NEW h \in Seq(Lines), NEW d \in Seq(Lines), Len(h) <= Len(d),
         \A i \in 1 .. Len(h) : h[i] = d[(Len(d) - Len(h)) + i]
  PROVE  IsSuffix(h, d)
<1> DEFINE m == Len(h)
           n == Len(d)
           a == Reverse(h)
           b == Reverse(d)
<1>1. m \in Nat /\ n \in Nat /\ m <= n /\ \A i \in 1 .. m : h[i] = d[(n - m) + i]
  OBVIOUS
<1>2. a = [i \in 1 .. m |-> h[(m - i) + 1]] /\ b = [i \in 1 .. n |-> d[(n - i) + 1]]
  BY DEF Reverse
<1>3. /\ \A i \in 1 .. m : h[i] \in Lines
      /\ \A i \in 1 .. n : d[i] \in Lines
  OBVIOUS
<1>4. IsSuffix(h, d) <=> Len(a) <= Len(b) /\ SubSeq(a, 1, Len(a)) = SubSeq(b, 1, Len(a))
  BY DEF IsSuffix, IsPrefix
<1> HIDE DEF m, n, a, b
<1>5. a \in Seq(Lines) /\ Len(a) = m
  <2>1. \A i \in 1 .. m : (m - i) + 1 \in 1 .. m
    BY <1>1
  <2>2. \A i \in 1 .. m : h[(m - i) + 1] \in Lines
    BY <1>3, <2>1
  <2> QED
    BY <1>1, <1>2, <2>2
<1>6. b \in Seq(Lines) /\ Len(b) = n
  <2>1. \A i \in 1 .. n : (n - i) + 1 \in 1 .. n
    BY <1>1
  <2>2. \A i \in 1 .. n : d[(n - i) + 1] \in Lines
    BY <1>3, <2>1
  <2> QED
    BY <1>1, <1>2, <2>2
<1>7. ASSUME NEW i \in 1 .. m PROVE a[i] = b[i]
  <2>1. /\ (m - i) + 1 \in 1 .. m /\ (n - m) + ((m - i) + 1) = (n - i) + 1 /\ i \in 1 .. n
    BY <1>1
  <2>2. h[(m - i) + 1] = d[(n - m) + ((m - i) + 1)]
    BY <1>1, <2>1
  <2> QED
    BY <1>2, <2>1, <2>2
<1>8. m \in 0 .. n /\ m \in 0 .. m
  BY <1>1
<1>9. /\ SubSeq(a, 1, m) \in Seq(Lines) /\ Len(SubSeq(a, 1, m)) = m
      /\ \A i \in 1 .. m : SubSeq(a, 1, m)[i] = a[i]
  BY <1>5, <1>8, HeadIs
<1>10. /\ SubSeq(b, 1, m) \in Seq(Lines) /\ Len(SubSeq(b, 1, m)) = m
       /\ \A i \in 1 .. m : SubSeq(b, 1, m)[i] = b[i]
  BY <1>6, <1>8, HeadIs
<1>11. SubSeq(a, 1, m) = SubSeq(b, 1, m)
  BY <1>1, <1>7, <1>9, <1>10, SeqEqual
<1> QED
  BY <1>1, <1>4, <1>5, <1>6, <1>11

LEMMA HistoryIsLatest == ASSUME HistoryInv PROVE HistoryLatest
<1> DEFINE h == history
           d == Deduped(submitted)
           m == Len(h)
           n == Len(d)
           x == d[n - m]
           more == <<x>> \o h
<1>0. Deduplicated = d
  BY DEF Deduplicated, Deduped, Kept, UpTo
<1>1. Recent(h, d)
  BY DEF HistoryInv
<1> HIDE DEF h, d
<1>2. /\ h \in Seq(Lines) /\ d \in Seq(Lines) /\ m \in Nat /\ n \in Nat
      /\ m <= n /\ \A i \in 1 .. m : h[i] = d[(n - m) + i]
      /\ m <= HISTORY_DEPTH /\ Size(h) <= HISTORY_BYTES
      /\ m < n => m + 1 > HISTORY_DEPTH \/ Size(h) + Len(x) + 1 > HISTORY_BYTES
  BY <1>1 DEF Recent
<1>3. IsSuffix(h, d)
  BY <1>2, SuffixIs
<1>4. Len(FlattenSeq(h)) + Len(h) <= HISTORY_BYTES
  BY <1>2, FlattenedIs
<1>5. m < n => Len(more) > HISTORY_DEPTH \/ Len(FlattenSeq(more)) + Len(more) > HISTORY_BYTES
  <2> HAVE m < n
  <2>1. n - m \in 1 .. n
    BY <1>2
  <2>2. x \in Lines
    BY <1>2, <2>1
  <2>3. <<x>> \in Seq(Lines) /\ Len(<<x>>) = 1 /\ <<x>>[1] = x
    BY <2>2
  <2>4. \A a \in Seq(Lines), b \in Seq(Lines) :
          /\ a \o b \in Seq(Lines) /\ Len(a \o b) = Len(a) + Len(b)
          /\ \A i \in 1 .. Len(a) : (a \o b)[i] = a[i]
          /\ \A i \in 1 .. Len(b) : (a \o b)[Len(a) + i] = b[i]
    BY ConcatIs
  <2>5. /\ more \in Seq(Lines) /\ Len(more) = 1 + m
        /\ (\A i \in 1 .. 1 : more[i] = <<x>>[i]) /\ \A i \in 1 .. m : more[1 + i] = h[i]
    BY <1>2, <2>3, <2>4
  <2>6. 1 \in 1 .. 1 /\ 1 + m = m + 1 /\ \A i \in 1 .. m : 1 + i = i + 1
    BY <1>2
  <2>7. more[1] = x /\ Len(more) = m + 1 /\ \A i \in 1 .. m : more[i + 1] = h[i]
    BY <2>3, <2>5, <2>6
  <2> HIDE DEF more
  <2>8. Size(more) = Size(h) + Len(x) + 1
    BY <1>2, <2>5, <2>7, SizeWithFirst
  <2>9. Len(FlattenSeq(more)) + Len(more) = Size(more)
    BY <2>5, FlattenedIs
  <2> QED
    BY <1>2, <2>7, <2>8, <2>9
<1> QED
  BY <1>0, <1>2, <1>3, <1>4, <1>5 DEF HistoryLatest, h

(* Whatever is submitted: the history holds the newest lines, without      *)
(* immediate repetitions, and just as many of them as its depth and its    *)
(* bytes allow (HistoryLatest; historyAdd(), historyDropOldest()).         *)
THEOREM HistoryKeepsLatest == ParserSpec => []HistoryLatest
<1>1. HistoryInv /\ [cmd_parser_feed_char]_parserVars => HistoryInv'
  BY HistoryStep
<1> QED
  BY <1>1, HistoryInitial, HistoryIsLatest, PTL DEF ParserSpec
=============================================================================
