---------------------------- MODULE Lab_proofs ----------------------------
(***************************************************************************)
(* That the rate the chain test tells the user to use passed every stage   *)
(* this command ran, and no faster one did: for every ladder of rates and  *)
(* every pair of stages typed, every order of commands, any set-up of any  *)
(* stage failing, and the brake between any two calls.                     *)
(*                                                                         *)
(* A command is a program in `todo', so the invariant (LabInv) says what   *)
(* kind of program is left of it: none with a call of the chain test in it *)
(* (Aside); the whole chain test still ahead (Ahead); its set-up (Setting);*)
(* or a piece of a stage followed by the stages to come, the summary and   *)
(* the restore (Staging).  A failure skips calls, and the summary must not *)
(* be reached by one: a piece is Tight, no call of it skips past its end.  *)
(* With it goes what was found so far (Verdict): only stages up to this    *)
(* one are in `ran'; one that is not, and should be, was left out because  *)
(* the set-up or the trigger failed, and then those after it are left out, *)
(* too; a rate is chosen in stage 9 alone and, once chosen, is the best.   *)
(***************************************************************************)
EXTENDS Lab, SequenceTheorems, FiniteSetTheorems, WellFoundedInduction, TLAPS

IsSequence(s) == \E S : s \in Seq(S)

(* The calls of the chain test that carry its verdict from stage to stage, *)
(* and the calls only the suite or the stream is made of.                  *)
ChainCalls == {"begin", "stage", "triggers", "count", "counted", "recounted", "grid", "result",
               "stream rate", "best", "attempt", "summary"}
SuiteCalls == {"stream_on_route", "siggen_start", "selftest", "run_dactest", "dactest_run",
        "row",
               "sweep", "point", "shot", "flow", "flows", "datas", "test_dac", "run stream"}
Foreign    == ChainCalls \cup SuiteCalls
Strict     == Foreign \cup {"ok"}

(* A failure skips no further than to the n-th call behind s.              *)
Reaches(s, n) ==
  \A i \in 1 .. Len(s) : s[i][3] \in Nat /\ (s[i][3] = Everything \/ i + s[i][3] <= Len(s) + n)
Tight(s) == Reaches(s, 0)
(* No call of s is one of N, nor any of what s may fall back on.           *)
Closed(Q, N)    == \A c \in Q : c[1] \notin N /\ c[3] \in Nat /\ c[4] \in Seq(Q) /\ Tight(c[4])
ClearCall(c, N) == \E Q : Closed(Q, N) /\ c \in Q
Clear(s, N)     == IsSequence(s) /\ \A i \in 1 .. Len(s) : ClearCall(s[i], N)
Neat(s, N)      == Clear(s, N) /\ Tight(s)

----------------------------------------------------------------------------
(* Sequences.                                                              *)
LEMMA Joining ==
  ASSUME NEW s, NEW t, IsSequence(s), IsSequence(t)
  PROVE  /\ IsSequence(s \o t)
         /\ Len(s) \in Nat /\ Len(t) \in Nat
         /\ Len(s \o t) = Len(s) + Len(t)
         /\ \A i \in 1 .. Len(s) : (s \o t)[i] = s[i]
         /\ \A i \in 1 .. Len(t) : (s \o t)[Len(s) + i] = t[i]
         /\ s = <<>> <=> Len(s) = 0
<1>1. PICK S : s \in Seq(S)
  BY DEF IsSequence
<1>2. PICK T : t \in Seq(T)
  BY DEF IsSequence
<1>3. s \in Seq(S \cup T) /\ t \in Seq(S \cup T)
  BY <1>1, <1>2, SeqMonotonic
<1>4. s \o t \in Seq(S \cup T)
  BY <1>3
<1> QED
  BY <1>3, <1>4 DEF IsSequence

LEMMA Together ==
  ASSUME NEW s, NEW t, NEW u, IsSequence(s), IsSequence(t), IsSequence(u)
  PROVE  \E S : s \in Seq(S) /\ t \in Seq(S) /\ u \in Seq(S)
<1>1. PICK A, B, C : s \in Seq(A) /\ t \in Seq(B) /\ u \in Seq(C)
  BY DEF IsSequence
<1> DEFINE S == A \cup B \cup C
<1>2. A \subseteq S /\ B \subseteq S /\ C \subseteq S
  OBVIOUS
<1> HIDE DEF S
<1> QED
  BY <1>1, <1>2, SeqMonotonic

LEMMA Assoc ==
  ASSUME NEW s, NEW t, NEW u, IsSequence(s), IsSequence(t), IsSequence(u)
  PROVE  (s \o t) \o u = s \o (t \o u) /\ s \o <<>> = s /\ <<>> \o s = s
<1>1. PICK S : s \in Seq(S) /\ t \in Seq(S) /\ u \in Seq(S)
  BY Together
<1>2. (s \o t) \o u = s \o (t \o u)
  BY <1>1, ConcatAssociative
<1>3. s \o <<>> = s /\ <<>> \o s = s
  BY <1>1, ConcatEmptySeq
<1> QED
  BY <1>2, <1>3

LEMMA Leftover ==
  ASSUME NEW s, IsSequence(s), NEW k \in Nat, 1 + k <= Len(s)
  PROVE  /\ IsSequence(SubSeq(s, 2 + k, Len(s)))
         /\ Len(SubSeq(s, 2 + k, Len(s))) = Len(s) - (1 + k)
         /\ \A i \in 1 .. Len(s) - (1 + k) : SubSeq(s, 2 + k, Len(s))[i] = s[(1 + k) + i]
<1> DEFINE a == SubSeq(s, 2 + k, Len(s))
<1>1. PICK S : s \in Seq(S)
  BY DEF IsSequence
<1>2. Len(s) \in Nat
  BY <1>1
<1>3. 2 + k \in Int /\ Len(s) \in Int /\ \A i \in (2 + k) .. Len(s) : s[i] \in S
  BY <1>1, <1>2
<1>4. /\ a \in Seq(S)
      /\ Len(a) = IF 2 + k <= Len(s) THEN Len(s) - (2 + k) + 1 ELSE 0
      /\ \A i \in 1 .. Len(s) - (2 + k) + 1 : a[i] = s[(2 + k) + i - 1]
  BY <1>3, SubSeqProperties
<1> HIDE DEF a
<1>5. Len(a) = Len(s) - (1 + k)
  BY <1>2, <1>4
<1>6. ASSUME NEW i \in 1 .. Len(s) - (1 + k) PROVE a[i] = s[(1 + k) + i]
  <2>1. i \in 1 .. Len(s) - (2 + k) + 1 /\ (2 + k) + i - 1 = (1 + k) + i
    BY <1>2
  <2>2. a[i] = s[(2 + k) + i - 1]
    BY <1>4, <2>1
  <2> QED
    BY <2>1, <2>2
<1> QED
  BY <1>4, <1>5, <1>6 DEF IsSequence, a

(* What is left of s \o t behind a call of s.                              *)
LEMMA Behind ==
  ASSUME NEW s, NEW t, IsSequence(s), IsSequence(t), NEW k \in Nat, 1 + k <= Len(s)
  PROVE  /\ IsSequence(SubSeq(s, 2 + k, Len(s)))
         /\ Len(SubSeq(s, 2 + k, Len(s))) = Len(s) - (1 + k)
         /\ \A i \in 1 .. Len(s) - (1 + k) : SubSeq(s, 2 + k, Len(s))[i] = s[(1 + k) + i]
         /\ SubSeq(s \o t, 2 + k, Len(s \o t)) = SubSeq(s, 2 + k, Len(s)) \o t
         /\ s \o t # <<>> /\ Head(s \o t) = s[1]
         /\ Tail(s \o t) = SubSeq(s \o t, 2, Len(s \o t))
<1>1. PICK S : s \in Seq(S) /\ t \in Seq(S)
  BY Together
<1> DEFINE u == s \o t
           a == SubSeq(s, 2 + k, Len(s))
           b == SubSeq(u, 2 + k, Len(u))
<1>2. /\ u \in Seq(S) /\ Len(s) \in Nat /\ Len(t) \in Nat /\ Len(u) = Len(s) + Len(t)
      /\ \A i \in 1 .. Len(s) : u[i] = s[i]
      /\ \A i \in 1 .. Len(t) : u[Len(s) + i] = t[i]
  BY <1>1
<1> HIDE DEF u
<1>3. a \in Seq(S) /\ Len(a) = Len(s) - (1 + k)
      /\ \A i \in 1 .. Len(s) - (1 + k) : a[i] = s[(1 + k) + i]
  <2>1. 2 + k \in Int /\ Len(s) \in Int /\ \A i \in (2 + k) .. Len(s) : s[i] \in S
    BY <1>1, <1>2
  <2>2. /\ a \in Seq(S)
        /\ Len(a) = IF 2 + k <= Len(s) THEN Len(s) - (2 + k) + 1 ELSE 0
        /\ \A i \in 1 .. Len(s) - (2 + k) + 1 : a[i] = s[(2 + k) + i - 1]
    BY <2>1, SubSeqProperties
  <2> HIDE DEF a
  <2>3. Len(a) = Len(s) - (1 + k)
    BY <1>2, <2>2
  <2>4. ASSUME NEW i \in 1 .. Len(s) - (1 + k) PROVE a[i] = s[(1 + k) + i]
    <3>1. i \in 1 .. Len(s) - (2 + k) + 1 /\ (2 + k) + i - 1 = (1 + k) + i
      BY <1>2
    <3>2. a[i] = s[(2 + k) + i - 1]
      BY <2>2, <3>1
    <3> QED
      BY <3>1, <3>2
  <2> QED
    BY <2>2, <2>3, <2>4
<1>4. b \in Seq(S) /\ Len(b) = Len(u) - (1 + k)
      /\ \A i \in 1 .. Len(u) - (1 + k) : b[i] = u[(1 + k) + i]
  <2>1. 2 + k \in Int /\ Len(u) \in Int /\ \A i \in (2 + k) .. Len(u) : u[i] \in S
    BY <1>1, <1>2
  <2>2. /\ b \in Seq(S)
        /\ Len(b) = IF 2 + k <= Len(u) THEN Len(u) - (2 + k) + 1 ELSE 0
        /\ \A i \in 1 .. Len(u) - (2 + k) + 1 : b[i] = u[(2 + k) + i - 1]
    BY <2>1, SubSeqProperties
  <2> HIDE DEF b
  <2>3. Len(b) = Len(u) - (1 + k)
    BY <1>2, <2>2
  <2>4. ASSUME NEW i \in 1 .. Len(u) - (1 + k) PROVE b[i] = u[(1 + k) + i]
    <3>1. i \in 1 .. Len(u) - (2 + k) + 1 /\ (2 + k) + i - 1 = (1 + k) + i
      BY <1>2
    <3>2. b[i] = u[(2 + k) + i - 1]
      BY <2>2, <3>1
    <3> QED
      BY <3>1, <3>2
  <2> QED
    BY <2>2, <2>3, <2>4
<1> HIDE DEF a, b
<1>5. b = a \o t
  <2> DEFINE c == a \o t
  <2>1. /\ c \in Seq(S) /\ Len(c) = Len(a) + Len(t)
        /\ \A i \in 1 .. Len(a) : c[i] = a[i]
        /\ \A i \in 1 .. Len(t) : c[Len(a) + i] = t[i]
    <3>1. IsSequence(a) /\ IsSequence(t)
      BY <1>1, <1>3 DEF IsSequence
    <3>2. a \o t \in Seq(S)
      BY <1>1, <1>3
    <3> QED
      BY <3>1, <3>2, Joining
  <2> HIDE DEF c
  <2>2. Len(b) = Len(c)
    BY <1>2, <1>3, <1>4, <2>1
  <2>3. ASSUME NEW i \in 1 .. Len(b) PROVE b[i] = c[i]
    <3>1. CASE i <= Len(a)
      <4>1. i \in 1 .. Len(a) /\ (1 + k) + i \in 1 .. Len(s) /\ i \in 1 .. Len(u) - (1 + k)
            /\ i \in 1 .. Len(s) - (1 + k)
        BY <1>2, <1>3, <1>4, <3>1
      <4>2. b[i] = u[(1 + k) + i]
        BY <1>4, <4>1
      <4>3. u[(1 + k) + i] = s[(1 + k) + i]
        BY <1>2, <4>1
      <4>4. a[i] = s[(1 + k) + i]
        BY <1>3, <4>1
      <4> QED
        BY <2>1, <4>1, <4>2, <4>3, <4>4
    <3>2. CASE ~(i <= Len(a))
      <4> DEFINE j == i - Len(a)
      <4>1. j \in 1 .. Len(t) /\ Len(a) + j = i /\ (1 + k) + i = Len(s) + j
            /\ i \in 1 .. Len(u) - (1 + k)
        BY <1>2, <1>3, <1>4, <3>2
      <4> HIDE DEF j
      <4> QED
        BY <1>2, <1>4, <2>1, <4>1
    <3> QED
      BY <3>1, <3>2
  <2>4. b = c
    BY <1>4, <2>1, <2>2, <2>3, SeqEqual
  <2> QED
    BY <2>4 DEF c
<1>6. u # <<>> /\ Head(u) = s[1] /\ Tail(u) = SubSeq(u, 2, Len(u))
  <2>1. Len(u) > 0 /\ 1 \in 1 .. Len(s)
    BY <1>2
  <2> QED
    BY <1>2, <2>1, TailIsSubSeq
<1> QED
  BY <1>3, <1>4, <1>5, <1>6 DEF IsSequence, a, b, u

----------------------------------------------------------------------------
(* Clear programs.                                                         *)
LEMMA ClearLess ==
  ASSUME NEW M, NEW N, M \subseteq N
  PROVE  /\ \A c : ClearCall(c, N) => ClearCall(c, M)
         /\ \A s : Clear(s, N) => Clear(s, M)
         /\ \A s : Neat(s, N) => Neat(s, M)
<1>1. \A Q : Closed(Q, N) => Closed(Q, M)
  BY DEF Closed
<1>2. \A c : ClearCall(c, N) => ClearCall(c, M)
  BY <1>1 DEF ClearCall
<1> QED
  BY <1>2 DEF Clear, Neat

LEMMA ClearIs ==
  ASSUME NEW N, NEW c, ClearCall(c, N)
  PROVE  c[1] \notin N /\ c[3] \in Nat /\ Neat(c[4], N)
<1>1. PICK Q : Closed(Q, N) /\ c \in Q
  BY DEF ClearCall
<1>2. c[1] \notin N /\ c[3] \in Nat /\ c[4] \in Seq(Q) /\ Tight(c[4])
  BY <1>1 DEF Closed
<1>3. \A i \in 1 .. Len(c[4]) : c[4][i] \in Q
  BY <1>2
<1>4. \A i \in 1 .. Len(c[4]) : ClearCall(c[4][i], N)
  BY <1>1, <1>3 DEF ClearCall
<1> QED
  BY <1>2, <1>4 DEF Neat, Clear, IsSequence

LEMMA ClearMade ==
  ASSUME NEW N, NEW f, NEW x, NEW k \in Nat, NEW els, f \notin N, Neat(els, N)
  PROVE  ClearCall(OrElse(f, x, k, els), N)
<1> DEFINE c == OrElse(f, x, k, els)
           W(i) == CHOOSE Q : Closed(Q, N) /\ els[i] \in Q
           P == UNION {W(i) : i \in 1 .. Len(els)}
           Q == P \cup {c}
<1>1. c[1] = f /\ c[3] = k /\ c[4] = els
  BY DEF OrElse
<1>2. IsSequence(els) /\ \A i \in 1 .. Len(els) : ClearCall(els[i], N)
  BY DEF Neat, Clear
<1>3. \A i \in 1 .. Len(els) : Closed(W(i), N) /\ els[i] \in W(i)
  BY <1>2 DEF ClearCall
<1> HIDE DEF W
<1>4. \A i \in 1 .. Len(els) : W(i) \subseteq P /\ els[i] \in P
  BY <1>3
<1>5. Closed(P, N)
  <2>1. ASSUME NEW d \in P PROVE d[1] \notin N /\ d[3] \in Nat /\ d[4] \in Seq(P) /\ Tight(d[4])
    <3>1. PICK i \in 1 .. Len(els) : d \in W(i)
      OBVIOUS
    <3>2. d[1] \notin N /\ d[3] \in Nat /\ d[4] \in Seq(W(i)) /\ Tight(d[4])
      BY <1>3, <3>1 DEF Closed
    <3>3. W(i) \subseteq P
      BY <1>4
    <3> HIDE DEF P
    <3> QED
      BY <3>2, <3>3, SeqMonotonic
  <2> QED
    BY <2>1 DEF Closed
<1>6. els \in Seq(P)
  <2>1. PICK S : els \in Seq(S)
    BY <1>2 DEF IsSequence
  <2>2. Len(els) \in Nat /\ els \in [1 .. Len(els) -> S]
    BY <2>1
  <2> HIDE DEF P
  <2>3. els \in [1 .. Len(els) -> P]
    BY <1>4, <2>2
  <2> QED
    BY <2>2, <2>3, SeqDef
<1> HIDE DEF P, c
<1>7. P \subseteq Q /\ c \in Q
  OBVIOUS
<1>8. Closed(Q, N)
  <2>1. ASSUME NEW d \in Q PROVE d[1] \notin N /\ d[3] \in Nat /\ d[4] \in Seq(Q) /\ Tight(d[4])
    <3>1. CASE d \in P
      <4>1. d[1] \notin N /\ d[3] \in Nat /\ d[4] \in Seq(P) /\ Tight(d[4])
        BY <1>5, <3>1 DEF Closed
      <4> HIDE DEF Q
      <4> QED
        BY <1>7, <4>1, SeqMonotonic
    <3>2. CASE d = c
      <4>1. d[1] \notin N /\ d[3] \in Nat /\ d[4] \in Seq(P) /\ Tight(d[4])
        BY <1>1, <1>6, <3>2 DEF Neat
      <4> HIDE DEF Q
      <4> QED
        BY <1>7, <4>1, SeqMonotonic
    <3> QED
      BY <2>1, <3>1, <3>2
  <2> QED
    BY <2>1 DEF Closed
<1> QED
  BY <1>7, <1>8 DEF ClearCall, c

LEMMA NothingNeat == \A N : Neat(<<>>, N)
<1>1. Len(<<>>) = 0 /\ <<>> \in Seq({})
  OBVIOUS
<1>2. \A i \in 1 .. 0 : FALSE
  OBVIOUS
<1> QED
  BY <1>1, <1>2 DEF Neat, Clear, Tight, Reaches, IsSequence

LEMMA ClearJoin ==
  ASSUME NEW N, NEW s, NEW t, Clear(s, N), Clear(t, N) PROVE Clear(s \o t, N)
<1> DEFINE u == s \o t
<1>1. /\ IsSequence(u) /\ Len(s) \in Nat /\ Len(t) \in Nat /\ Len(u) = Len(s) + Len(t)
      /\ \A i \in 1 .. Len(s) : u[i] = s[i]
      /\ \A i \in 1 .. Len(t) : u[Len(s) + i] = t[i]
  BY Joining DEF Clear
<1> HIDE DEF u
<1>2. ASSUME NEW i \in 1 .. Len(u) PROVE ClearCall(u[i], N)
  <2>1. CASE i <= Len(s)
    BY <1>1, <2>1 DEF Clear
  <2>2. CASE ~(i <= Len(s))
    <3>1. i - Len(s) \in 1 .. Len(t) /\ Len(s) + (i - Len(s)) = i
      BY <1>1, <2>2
    <3> QED
      BY <1>1, <3>1 DEF Clear
  <2> QED
    BY <2>1, <2>2
<1> QED
  BY <1>1, <1>2 DEF Clear, u

LEMMA ReachJoin ==
  ASSUME NEW s, NEW t, NEW n \in Nat, IsSequence(s), IsSequence(t), Reaches(s, n), Tight(t),
         n <= Len(t)
  PROVE  Tight(s \o t)
<1> DEFINE u == s \o t
<1>1. /\ Len(s) \in Nat /\ Len(t) \in Nat /\ Len(u) = Len(s) + Len(t)
      /\ \A i \in 1 .. Len(s) : u[i] = s[i]
      /\ \A i \in 1 .. Len(t) : u[Len(s) + i] = t[i]
  BY Joining
<1> HIDE DEF u
<1>2. ASSUME NEW i \in 1 .. Len(u)
      PROVE  u[i][3] \in Nat /\ (u[i][3] = Everything \/ i + u[i][3] <= Len(u) + 0)
  <2>1. CASE i <= Len(s)
    <3>1. i \in 1 .. Len(s) /\ u[i] = s[i]
      BY <1>1, <2>1
    <3>2. s[i][3] \in Nat /\ (s[i][3] = Everything \/ i + s[i][3] <= Len(s) + n)
      BY <3>1 DEF Reaches
    <3> QED
      BY <1>1, <3>1, <3>2
  <2>2. CASE ~(i <= Len(s))
    <3>1. PICK j \in 1 .. Len(t) : Len(s) + j = i
      <4>1. i - Len(s) \in 1 .. Len(t) /\ Len(s) + (i - Len(s)) = i
        BY <1>1, <2>2
      <4> QED
        BY <4>1
    <3>2. u[i] = t[j]
      BY <1>1, <3>1
    <3>3. t[j][3] \in Nat /\ (t[j][3] = Everything \/ j + t[j][3] <= Len(t) + 0)
      BY DEF Tight, Reaches
    <3> QED
      BY <1>1, <3>1, <3>2, <3>3
  <2> QED
    BY <2>1, <2>2
<1> QED
  BY <1>2 DEF Tight, Reaches, u

LEMMA NeatJoin ==
  ASSUME NEW N, NEW s, NEW t, Neat(s, N), Neat(t, N) PROVE Neat(s \o t, N)
<1>1. IsSequence(s) /\ IsSequence(t) /\ Reaches(s, 0) /\ Tight(t) /\ 0 <= Len(t) /\ 0 \in Nat
  <2>1. Len(t) \in Nat
    BY DEF Neat, Clear, IsSequence
  <2> QED
    BY <2>1 DEF Neat, Clear, Tight
<1> QED
  BY <1>1, ReachJoin, ClearJoin DEF Neat

(* Calls in a row.                                                         *)
LEMMA ClearOver ==
  ASSUME NEW N, NEW S, \A c \in S : ClearCall(c, N), NEW s \in Seq(S)
  PROVE  Clear(s, N) /\ ((\A c \in S : c[3] = 0) => Neat(s, N))
<1>1. Clear(s, N)
  BY DEF Clear, IsSequence
<1>2. ASSUME \A c \in S : c[3] = 0 PROVE Tight(s)
  <2>1. \A i \in 1 .. Len(s) : s[i][3] = 0 /\ i + 0 <= Len(s) + 0
    BY <1>2
  <2> QED
    BY <2>1 DEF Tight, Reaches
<1> QED
  BY <1>1, <1>2 DEF Neat

LEMMA Row1 ==
  ASSUME NEW N, NEW a,
         ClearCall(a, N)
  PROVE  /\ Clear(<<a>>, N)
         /\ (a[3] = 0) => Neat(<<a>>, N)
<1> DEFINE S == {a}
           s == <<a>>
<1>1. s \in Seq(S) /\ (\A x \in S : ClearCall(x, N))
  OBVIOUS
<1>2. (a[3] = 0) => \A x \in S : x[3] = 0
  OBVIOUS
<1> HIDE DEF S, s
<1>3. Clear(s, N) /\ ((\A x \in S : x[3] = 0) => Neat(s, N))
  BY <1>1, ClearOver
<1> QED
  BY <1>2, <1>3 DEF s

LEMMA Row2 ==
  ASSUME NEW N, NEW a, NEW b,
         ClearCall(a, N), ClearCall(b, N)
  PROVE  /\ Clear(<<a, b>>, N)
         /\ (a[3] = 0 /\ b[3] = 0) => Neat(<<a, b>>, N)
<1> DEFINE S == {a, b}
           s == <<a, b>>
<1>1. s \in Seq(S) /\ (\A x \in S : ClearCall(x, N))
  OBVIOUS
<1>2. (a[3] = 0 /\ b[3] = 0) => \A x \in S : x[3] = 0
  OBVIOUS
<1> HIDE DEF S, s
<1>3. Clear(s, N) /\ ((\A x \in S : x[3] = 0) => Neat(s, N))
  BY <1>1, ClearOver
<1> QED
  BY <1>2, <1>3 DEF s

LEMMA Row3 ==
  ASSUME NEW N, NEW a, NEW b, NEW c,
         ClearCall(a, N), ClearCall(b, N), ClearCall(c, N)
  PROVE  /\ Clear(<<a, b, c>>, N)
         /\ (a[3] = 0 /\ b[3] = 0 /\ c[3] = 0) => Neat(<<a, b, c>>, N)
<1> DEFINE S == {a, b, c}
           s == <<a, b, c>>
<1>1. s \in Seq(S) /\ (\A x \in S : ClearCall(x, N))
  OBVIOUS
<1>2. (a[3] = 0 /\ b[3] = 0 /\ c[3] = 0) => \A x \in S : x[3] = 0
  OBVIOUS
<1> HIDE DEF S, s
<1>3. Clear(s, N) /\ ((\A x \in S : x[3] = 0) => Neat(s, N))
  BY <1>1, ClearOver
<1> QED
  BY <1>2, <1>3 DEF s

LEMMA Row4 ==
  ASSUME NEW N, NEW a, NEW b, NEW c, NEW d,
         ClearCall(a, N), ClearCall(b, N), ClearCall(c, N), ClearCall(d, N)
  PROVE  /\ Clear(<<a, b, c, d>>, N)
         /\ (a[3] = 0 /\ b[3] = 0 /\ c[3] = 0 /\ d[3] = 0) => Neat(<<a, b, c, d>>, N)
<1> DEFINE S == {a, b, c, d}
           s == <<a, b, c, d>>
<1>1. s \in Seq(S) /\ (\A x \in S : ClearCall(x, N))
  OBVIOUS
<1>2. (a[3] = 0 /\ b[3] = 0 /\ c[3] = 0 /\ d[3] = 0) => \A x \in S : x[3] = 0
  OBVIOUS
<1> HIDE DEF S, s
<1>3. Clear(s, N) /\ ((\A x \in S : x[3] = 0) => Neat(s, N))
  BY <1>1, ClearOver
<1> QED
  BY <1>2, <1>3 DEF s

LEMMA Row5 ==
  ASSUME NEW N, NEW a, NEW b, NEW c, NEW d, NEW e,
         ClearCall(a, N), ClearCall(b, N), ClearCall(c, N), ClearCall(d, N), ClearCall(e, N)
  PROVE  /\ Clear(<<a, b, c, d, e>>, N)
         /\ (a[3] = 0 /\ b[3] = 0 /\ c[3] = 0 /\ d[3] = 0 /\ e[3] = 0)
                 => Neat(<<a, b, c, d, e>>, N)
<1> DEFINE S == {a, b, c, d, e}
           s == <<a, b, c, d, e>>
<1>1. s \in Seq(S) /\ (\A x \in S : ClearCall(x, N))
  OBVIOUS
<1>2. (a[3] = 0 /\ b[3] = 0 /\ c[3] = 0 /\ d[3] = 0 /\ e[3] = 0) => \A x \in S : x[3] = 0
  OBVIOUS
<1> HIDE DEF S, s
<1>3. Clear(s, N) /\ ((\A x \in S : x[3] = 0) => Neat(s, N))
  BY <1>1, ClearOver
<1> QED
  BY <1>2, <1>3 DEF s

LEMMA Row6 ==
  ASSUME NEW N, NEW a, NEW b, NEW c, NEW d, NEW e, NEW f,
         ClearCall(a, N), ClearCall(b, N), ClearCall(c, N), ClearCall(d, N), ClearCall(e, N),
                 ClearCall(f, N)
  PROVE  /\ Clear(<<a, b, c, d, e, f>>, N)
         /\ (a[3] = 0 /\ b[3] = 0 /\ c[3] = 0 /\ d[3] = 0 /\ e[3] = 0 /\ f[3] = 0)
                 => Neat(<<a, b, c, d, e, f>>, N)
<1> DEFINE S == {a, b, c, d, e, f}
           s == <<a, b, c, d, e, f>>
<1>1. s \in Seq(S) /\ (\A x \in S : ClearCall(x, N))
  OBVIOUS
<1>2. (a[3] = 0 /\ b[3] = 0 /\ c[3] = 0 /\ d[3] = 0 /\ e[3] = 0 /\ f[3] = 0)
        => \A x \in S : x[3] = 0
  OBVIOUS
<1> HIDE DEF S, s
<1>3. Clear(s, N) /\ ((\A x \in S : x[3] = 0) => Neat(s, N))
  BY <1>1, ClearOver
<1> QED
  BY <1>2, <1>3 DEF s

LEMMA Row7 ==
  ASSUME NEW N, NEW a, NEW b, NEW c, NEW d, NEW e, NEW f, NEW h,
         ClearCall(a, N), ClearCall(b, N), ClearCall(c, N), ClearCall(d, N), ClearCall(e, N),
                 ClearCall(f, N), ClearCall(h, N)
  PROVE  /\ Clear(<<a, b, c, d, e, f, h>>, N)
         /\ (a[3] = 0 /\ b[3] = 0 /\ c[3] = 0 /\ d[3] = 0 /\ e[3] = 0 /\ f[3] = 0 /\ h[3] = 0)
                 => Neat(<<a, b, c, d, e, f, h>>, N)
<1> DEFINE S == {a, b, c, d, e, f, h}
           s == <<a, b, c, d, e, f, h>>
<1>1. s \in Seq(S) /\ (\A x \in S : ClearCall(x, N))
  OBVIOUS
<1>2. (a[3] = 0 /\ b[3] = 0 /\ c[3] = 0 /\ d[3] = 0 /\ e[3] = 0 /\ f[3] = 0 /\ h[3] = 0)
        => \A x \in S : x[3] = 0
  OBVIOUS
<1> HIDE DEF S, s
<1>3. Clear(s, N) /\ ((\A x \in S : x[3] = 0) => Neat(s, N))
  BY <1>1, ClearOver
<1> QED
  BY <1>2, <1>3 DEF s

LEMMA CallIs ==
  ASSUME NEW f, NEW x, NEW k, NEW e
  PROVE  /\ OrElse(f, x, k, e)[1] = f /\ OrElse(f, x, k, e)[2] = x
         /\ OrElse(f, x, k, e)[3] = k /\ OrElse(f, x, k, e)[4] = e
  BY DEF OrElse

LEMMA DoPlainly ==
  ASSUME NEW N, NEW f, f \notin N PROVE ClearCall(Do(f), N) /\ Do(f)[3] = 0
  BY ClearMade, NothingNeat, CallIs DEF Do, Call

LEMMA Plainly ==
  ASSUME NEW N, NEW f, f \notin N, NEW x PROVE ClearCall(Call(f, x), N) /\ Call(f, x)[3] = 0
  BY ClearMade, NothingNeat, CallIs DEF Call

LEMMA NotePlainly ==
  ASSUME NEW N, NEW f, f \notin N, NEW x, NEW e, Neat(e, N)
  PROVE  ClearCall(Note(f, x, e), N) /\ Note(f, x, e)[3] = 0 /\ ClearCall(Try(f, x, e), N)
  BY ClearMade, CallIs DEF Note, Try, Everything

----------------------------------------------------------------------------
(* The invariant.  A call of stage s that carries the verdict on, where m  *)
(* says that the set-up stands and the triggers convert.                   *)
Unstaged == 10
Names(s) == IF s = Unstaged THEN Foreign ELSE Strict
OwnCall(c, s, m) ==
  /\ s # Unstaged /\ c[3] = 0 /\ c[4] = <<>>
  /\ c[1] \in ChainCalls \ {"begin", "stage", "summary"}
  /\ c[1] = "triggers" => s = 2
  /\ c[1] \in {"count", "counted", "recounted"} => s = 4
  /\ c[1] \in {"grid", "result", "stream rate"} => c[2][2] \notin {5, 6} \ {s}
  /\ c[1] = "best" => s = 9 /\ m
Belongs(c, s, m) == ClearCall(c, Names(s)) \/ OwnCall(c, s, m)
Piece(x, s, m)   == IsSequence(x) /\ Tight(x) /\ \A i \in 1 .. Len(x) : Belongs(x[i], s, m)

(* One sequence after the other: u is s and then t.                        *)
Joins(u, s, t) == u = s \o t
Past(u, k)     == SubSeq(u, 2 + k, Len(u))

(* What the chain test still does from stage k on.                         *)
Spine(k, l) == ([j \in 1 .. (l - k + 1) |-> Call("stage", k + j - 1)] \o <<Do("summary")>>)
               \o acq_chain_restore
Plan(sp)    == <<Call("begin", sp)>> \o (chain_setup \o Spine(sp[1], sp[2]))

(* The rate it will tell the user to use is the fastest that passed.       *)
Chosen ==
  /\ StagesRun # {} /\ 9 \in span[1] .. span[2] /\ AllPassed(g_best)
  /\ \A r \in Rates : r > g_best => ~AllPassed(r)
(* So far, in stage s: every stage before it has run or could not.         *)
Verdict(s) ==
  /\ ran \subseteq (span[1] .. s) \cap (4 .. 6)
  /\ \A k \in (span[1] .. s) \cap (4 .. 6) : k \in ran \/ ~(ok /\ trigger_ok)
  /\ g_best # 0 => s = 9 /\ Chosen

Aside   == Clear(todo, ChainCalls)
Ahead   == \E x : \E sp \in Spans : Piece(x, Unstaged, FALSE) /\ Joins(todo, x, Plan(sp))
Setting == /\ span \in Spans /\ g_best = 0 /\ ran = {}
           /\ \E x : Piece(x, Unstaged, FALSE) /\ Joins(todo, x, Spine(span[1], span[2]))
Staging == /\ span \in Spans
           /\ \E s \in span[1] .. span[2] :
                /\ Verdict(s)
                /\ \E x : Piece(x, s, ok /\ trigger_ok) /\ Joins(todo, x, Spine(s + 1, span[2]))
LabInv  == Aside \/ Ahead \/ Setting \/ Staging

(* How a call may go on, but for those that carry the verdict.             *)
Moves ==
  \/ Done \/ Failed
  \/ \E b : Neat(b, Strict) /\ Instead(b)
  \/ \E b : Clear(b, ChainCalls) /\ Leave(b)
  \/ Head(todo)[1] \in SuiteCalls /\ \E b : Clear(b, ChainCalls) /\ Instead(b)
Untold == UNCHANGED <<ran, passed, trigger_ok, g_best, span>>

----------------------------------------------------------------------------
(* Pieces of a stage.                                                      *)
LEMMA NamesOf ==
  /\ \A s : Names(s) \subseteq Strict /\ Foreign \subseteq Names(s)
  /\ ChainCalls \subseteq Foreign /\ SuiteCalls \subseteq Foreign /\ Foreign \subseteq Strict
  BY DEF Names, Strict, Foreign

LEMMA NeatPiece ==
  /\ \A x, s, m : Neat(x, Strict) => Piece(x, s, m)
  /\ \A x, m : Neat(x, Foreign) => Piece(x, Unstaged, m)
  /\ \A x, s, m : Neat(x, Names(s)) => Piece(x, s, m)
<1>1. \A x, s, m : Neat(x, Names(s)) => Piece(x, s, m)
  BY DEF Neat, Clear, Piece, Belongs
<1>2. \A x, s : Neat(x, Strict) => Neat(x, Names(s))
  BY ClearLess, NamesOf
<1>3. Names(Unstaged) = Foreign
  BY DEF Names
<1> QED
  BY <1>1, <1>2, <1>3

LEMMA PieceJoin ==
  ASSUME NEW s, NEW m, NEW x, NEW y, Piece(x, s, m), Piece(y, s, m) PROVE Piece(x \o y, s, m)
<1> DEFINE u == x \o y
<1>1. /\ IsSequence(u) /\ Len(x) \in Nat /\ Len(y) \in Nat /\ Len(u) = Len(x) + Len(y)
      /\ \A i \in 1 .. Len(x) : u[i] = x[i]
      /\ \A i \in 1 .. Len(y) : u[Len(x) + i] = y[i]
  BY Joining DEF Piece
<1>2. Tight(u)
  <2>1. IsSequence(x) /\ IsSequence(y) /\ Reaches(x, 0) /\ Tight(y) /\ 0 <= Len(y) /\ 0 \in Nat
    BY <1>1 DEF Piece, Tight
  <2> QED
    BY <2>1, ReachJoin
<1> HIDE DEF u
<1>3. ASSUME NEW i \in 1 .. Len(u) PROVE Belongs(u[i], s, m)
  <2>1. CASE i <= Len(x)
    BY <1>1, <2>1 DEF Piece
  <2>2. CASE ~(i <= Len(x))
    <3>1. i - Len(x) \in 1 .. Len(y) /\ Len(x) + (i - Len(x)) = i
      BY <1>1, <2>2
    <3> QED
      BY <1>1, <3>1 DEF Piece
  <2> QED
    BY <2>1, <2>2
<1> QED
  BY <1>1, <1>2, <1>3 DEF Piece, u

(* What is left of a piece behind its first call and k more.               *)
LEMMA PieceLeft ==
  ASSUME NEW s, NEW m, NEW x, Piece(x, s, m), NEW k \in Nat, 1 + k <= Len(x)
  PROVE  Piece(SubSeq(x, 2 + k, Len(x)), s, m)
<1> DEFINE y == SubSeq(x, 2 + k, Len(x))
<1>1. /\ IsSequence(y) /\ Len(x) \in Nat /\ Len(y) = Len(x) - (1 + k)
      /\ \A i \in 1 .. Len(x) - (1 + k) : y[i] = x[(1 + k) + i]
  <2>1. IsSequence(x)
    BY DEF Piece
  <2>2. Len(x) \in Nat
    BY <2>1 DEF IsSequence
  <2> QED
    BY <2>1, <2>2, Leftover
<1> HIDE DEF y
<1>2. ASSUME NEW i \in 1 .. Len(y)
      PROVE  /\ Belongs(y[i], s, m)
             /\ y[i][3] \in Nat /\ (y[i][3] = Everything \/ i + y[i][3] <= Len(y) + 0)
  <2>1. (1 + k) + i \in 1 .. Len(x) /\ y[i] = x[(1 + k) + i]
    BY <1>1
  <2>2. /\ Belongs(y[i], s, m)
        /\ y[i][3] \in Nat /\ (y[i][3] = Everything \/ ((1 + k) + i) + y[i][3] <= Len(x) + 0)
    BY <2>1 DEF Piece, Tight, Reaches
  <2> QED
    BY <1>1, <2>2
<1> QED
  BY <1>1, <1>2 DEF Piece, Tight, Reaches, y

LEMMA PieceMoved ==
  ASSUME NEW s, NEW m, NEW x, NEW y, NEW b, Piece(x, s, m), IsSequence(y), Piece(b, s, m),
         NEW k \in Nat, 1 + k <= Len(x), NEW u, Joins(u, x, y), NEW v, Joins(v, b, Past(u, k))
  PROVE  \E z : Piece(z, s, m) /\ Joins(v, z, y)
<1> DEFINE r == SubSeq(x, 2 + k, Len(x))
           q == b \o r
<1>1. Piece(r, s, m) /\ Past(u, k) = r \o y
  BY PieceLeft, Behind DEF Piece, Joins, Past
<1> HIDE DEF r
<1>2. Piece(q, s, m)
  BY <1>1, PieceJoin
<1>3. b \o (r \o y) = (b \o r) \o y
  <2>1. IsSequence(b) /\ IsSequence(r)
    BY <1>1 DEF Piece
  <2> QED
    BY <2>1, Assoc
<1>4. v = q \o y
  BY <1>1, <1>3 DEF Joins
<1> HIDE DEF q
<1>5. Joins(v, q, y)
  BY <1>4 DEF Joins
<1> QED
  BY <1>2, <1>5

LEMMA AtFirst ==
  ASSUME NEW x, NEW y, IsSequence(x), IsSequence(y), x # <<>>, NEW u, Joins(u, x, y)
  PROVE  /\ 1 \in 1 .. Len(x) /\ Len(x) \in Nat /\ 1 + 0 <= Len(x)
         /\ IsSequence(u) /\ u # <<>> /\ Head(u) = x[1] /\ Tail(u) = Past(u, 0)
<1>1. Len(x) \in Nat /\ Len(x) # 0 /\ IsSequence(u)
  BY Joining DEF Joins
<1>2. 1 \in 1 .. Len(x) /\ 1 + 0 <= Len(x) /\ 0 \in Nat
  BY <1>1
<1>3. /\ x \o y # <<>> /\ Head(x \o y) = x[1]
      /\ Tail(x \o y) = SubSeq(x \o y, 2, Len(x \o y))
  BY <1>2, Behind
<1> QED
  BY <1>1, <1>2, <1>3 DEF Joins, Past

LEMMA TailIs ==
  ASSUME NEW u, IsSequence(u), u # <<>>
  PROVE  IsSequence(Tail(u)) /\ Joins(Tail(u), <<>>, Tail(u))
<1>1. PICK S : u \in Seq(S)
  BY DEF IsSequence
<1>2. IsSequence(Tail(u))
  BY <1>1 DEF IsSequence
<1> QED
  BY <1>2, Assoc DEF Joins

LEMMA Moved ==
  ASSUME NEW s, NEW m, NEW x, NEW y, Piece(x, s, m), IsSequence(y), Joins(todo, x, y), x # <<>>,
         ClearCall(x[1], Names(s)), Moves
  PROVE  Clear(todo', ChainCalls) \/ \E z : Piece(z, s, m) /\ Joins(todo', z, y)
<1> DEFINE c == x[1]
<1>1. /\ 1 \in 1 .. Len(x) /\ Len(x) \in Nat /\ 1 + 0 <= Len(x)
      /\ IsSequence(todo) /\ todo # <<>> /\ Head(todo) = c /\ Tail(todo) = Past(todo, 0)
  BY AtFirst DEF Piece
<1>2. c[1] \notin SuiteCalls /\ c[3] \in Nat /\ Neat(c[4], Names(s))
      /\ (c[3] = Everything \/ 1 + c[3] <= Len(x))
  <2>1. c[1] \notin Names(s) /\ c[3] \in Nat /\ Neat(c[4], Names(s))
    BY ClearIs
  <2>2. c[1] \notin SuiteCalls
    BY <2>1, NamesOf
  <2>3. c[3] = Everything \/ 1 + c[3] <= Len(x) + 0
    BY <1>1 DEF Piece, Tight, Reaches
  <2> QED
    BY <1>1, <2>1, <2>2, <2>3
<1> HIDE DEF c
<1>3. ASSUME NEW b, Piece(b, s, m), NEW v, Joins(v, b, Tail(todo))
      PROVE  \E z : Piece(z, s, m) /\ Joins(v, z, y)
  <2>1. 0 \in Nat /\ Joins(v, b, Past(todo, 0))
    BY <1>1, <1>3
  <2> QED
    BY <1>1, <1>3, <2>1, PieceMoved
<1>4. CASE Done
  <2>1. Piece(<<>>, s, m)
    BY NothingNeat, NeatPiece
  <2>2. Joins(todo', <<>>, Tail(todo))
    BY <1>1, <1>4, TailIs DEF Done, Leave
  <2> QED
    BY <1>3, <2>1, <2>2
<1>5. CASE Failed
  <2>1. todo' = c[4] \o (IF c[3] = Everything THEN <<>> ELSE Past(todo, c[3]))
    BY <1>1, <1>5 DEF Failed, Past
  <2>2. CASE c[3] = Everything
    <3>1. IsSequence(c[4]) /\ c[4] \o <<>> = c[4]
      BY <1>2, Assoc DEF Neat, Clear
    <3>2. ChainCalls \subseteq Names(s)
      BY NamesOf
    <3>3. Clear(c[4], ChainCalls)
      BY <1>2, <3>2, ClearLess DEF Neat
    <3> QED
      BY <2>1, <2>2, <3>1, <3>3
  <2>3. CASE c[3] # Everything
    <3> DEFINE b == c[4]
               k == c[3]
    <3>1. Piece(b, s, m) /\ k \in Nat /\ 1 + k <= Len(x)
      BY <1>2, <2>3, NeatPiece
    <3>2. Joins(todo', b, Past(todo, k))
      BY <2>1, <2>3 DEF Joins
    <3> HIDE DEF b, k
    <3> QED
      BY <3>1, <3>2, PieceMoved
  <2> QED
    BY <2>2, <2>3
<1>6. CASE \E b : Neat(b, Strict) /\ Instead(b)
  <2>1. PICK b : Neat(b, Strict) /\ Instead(b)
    BY <1>6
  <2>2. Piece(b, s, m)
    BY <2>1, NeatPiece
  <2>3. Joins(todo', b, Tail(todo))
    BY <2>1 DEF Instead, Leave, Joins
  <2> QED
    BY <1>3, <2>2, <2>3
<1>7. CASE \E b : Clear(b, ChainCalls) /\ Leave(b)
  BY <1>7 DEF Leave
<1> QED
  BY <1>1, <1>2, <1>4, <1>5, <1>6, <1>7 DEF Moves
(* The other calls.                                                        *)
BoardCalls == {"clock_dac_on", "clock_dac_select", "dac_enable",
               "dac_unit_off", "dac_light_off", "uref", "window_write",
               "dma_off_if_idle", "dma0_stop", "dma0_window", "dma0_enable",
               "dma2_stop", "dma2_window", "dma2_enable",
               "dma2_window_back", "sccp1_start", "sccp1_stop",
               "sccp1_count", "sccp2_start", "sccp2_stop", "adc_deinit",
               "adc_reinit", "adc_init", "adc_set_input",
               "adc_set_mode_burst", "adc_set_mode_single",
               "adc_set_mode_oversample", "adc_set_trg2", "adc_set_irqsel",
               "adc_ch0_irq", "adc_set_period", "step_on", "panic",
               "clock_adc_set_pll", "clock_adc_set_div", "clock_trig_on",
               "clock_adc_gate"}
CoreCalls == {"settle", "restart", "capture_init", "core_down",
              "capture_start", "run", "busy", "armed", "powered", "chain",
              "half", "restore_dac2", "siggen_stop", "stream_off",
              "route_applied", "route", "stream", "gen", "claim", "ask",
              "unask"}
TestCalls == {"measure", "clkdiv_cur", "var_known", "grid window",
              "two windows", "back", "self_ok"}

LEMMA Apart ==
  /\ \A f \in BoardCalls \cup CoreCalls \cup TestCalls :
       f \notin Strict /\ f \notin Foreign /\ f \notin ChainCalls
  /\ "ok" \notin Foreign /\ "ok" \notin ChainCalls /\ SuiteCalls \cap ChainCalls = {}
<1>1. \A f \in BoardCalls : f \notin Strict
  <2>1. \A f \in BoardCalls : f \notin ChainCalls
    BY ZenonT(60) DEF BoardCalls, ChainCalls
  <2>2. \A f \in BoardCalls : f \notin SuiteCalls
    BY ZenonT(60) DEF BoardCalls, SuiteCalls
  <2>3. \A f \in BoardCalls : f # "ok"
    BY DEF BoardCalls
  <2> QED
    BY <2>1, <2>2, <2>3 DEF Strict, Foreign
<1>2. \A f \in CoreCalls : f \notin Strict
  <2>1. \A f \in CoreCalls : f \notin ChainCalls
    BY DEF CoreCalls, ChainCalls
  <2>2. \A f \in CoreCalls : f \notin SuiteCalls
    BY DEF CoreCalls, SuiteCalls
  <2>3. \A f \in CoreCalls : f # "ok"
    BY DEF CoreCalls
  <2> QED
    BY <2>1, <2>2, <2>3 DEF Strict, Foreign
<1>3. \A f \in TestCalls : f \notin Strict
  <2>1. \A f \in TestCalls : f \notin ChainCalls
    BY DEF TestCalls, ChainCalls
  <2>2. \A f \in TestCalls : f \notin SuiteCalls
    BY DEF TestCalls, SuiteCalls
  <2>3. \A f \in TestCalls : f # "ok"
    BY DEF TestCalls
  <2> QED
    BY <2>1, <2>2, <2>3 DEF Strict, Foreign
<1>4. Foreign \subseteq Strict /\ ChainCalls \subseteq Foreign
  BY DEF Strict, Foreign
<1>5. "ok" \notin Foreign /\ SuiteCalls \cap ChainCalls = {}
  BY DEF Foreign, ChainCalls, SuiteCalls
<1> QED
  BY <1>1, <1>2, <1>3, <1>4, <1>5


----------------------------------------------------------------------------
(* What the calls of the core are made of.                                 *)

LEMMA DacOffNeat ==
  ASSUME NEW u
  PROVE  Neat(dac_off(u), Strict)
<1>1. Neat(<<Call("dac_unit_off", u), Do("dac_light_off")>>, Strict)
  <2>1. /\ ClearCall(Call("dac_unit_off", u), Strict) /\ Call("dac_unit_off", u)[3] = 0
        /\ ClearCall(Do("dac_light_off"), Strict) /\ Do("dac_light_off")[3] = 0
    BY Apart, DoPlainly, Plainly DEF BoardCalls
  <2> QED
    BY <2>1, Row2
<1> QED
  BY <1>1 DEF dac_off

LEMMA DeinitNeat ==
  Neat(dma0_deinit, Strict)
<1>1. Neat(<<Do("dma0_stop"), Do("dma_off_if_idle")>>, Strict)
  <2>1. /\ ClearCall(Do("dma0_stop"), Strict) /\ Do("dma0_stop")[3] = 0
        /\ ClearCall(Do("dma_off_if_idle"), Strict) /\ Do("dma_off_if_idle")[3] = 0
    BY Apart, DoPlainly DEF BoardCalls
  <2> QED
    BY <2>1, Row2
<1> QED
  BY <1>1 DEF dma0_deinit

LEMMA ArmNeat ==
  ASSUME NEW r, NEW p
  PROVE  Neat(Arm(r, p), Strict)
<1>1. Neat(<<Do("dma_off_if_idle"), Do("dma0_stop"), Call("dma0_window", r), Do("window_write"),
        Call("dma0_enable", <<r, p>>)>>, Strict)
  <2>1. /\ ClearCall(Do("dma_off_if_idle"), Strict) /\ Do("dma_off_if_idle")[3] = 0
        /\ ClearCall(Do("dma0_stop"), Strict) /\ Do("dma0_stop")[3] = 0
        /\ ClearCall(Call("dma0_window", r), Strict) /\ Call("dma0_window", r)[3] = 0
        /\ ClearCall(Do("window_write"), Strict) /\ Do("window_write")[3] = 0
        /\ ClearCall(Call("dma0_enable", <<r, p>>), Strict)
                /\ Call("dma0_enable", <<r, p>>)[3] = 0
    BY Apart, DoPlainly, Plainly DEF BoardCalls
  <2> QED
    BY <2>1, Row5
<1> QED
  BY <1>1 DEF Arm

LEMMA PllNeat ==
  ASSUME NEW p, NEW e, NEW N, Neat(e, N), N \subseteq Strict
  PROVE  Neat(capture_set_pll(p, e), N)
<1>1. Neat(<<Do("settle"), Do("adc_deinit"), Note("clock_adc_set_pll", p, e),
        Note("adc_reinit", 0, e), Do("restart")>>, N)
  <2>1. /\ ClearCall(Do("settle"), N) /\ Do("settle")[3] = 0
        /\ ClearCall(Do("adc_deinit"), N) /\ Do("adc_deinit")[3] = 0
        /\ ClearCall(Note("clock_adc_set_pll", p, e), N)
                /\ Note("clock_adc_set_pll", p, e)[3] = 0
        /\ ClearCall(Note("adc_reinit", 0, e), N) /\ Note("adc_reinit", 0, e)[3] = 0
        /\ ClearCall(Do("restart"), N) /\ Do("restart")[3] = 0
    BY Apart, DoPlainly, NotePlainly DEF BoardCalls, CoreCalls
  <2> QED
    BY <2>1, Row5
<1> QED
  BY <1>1 DEF capture_set_pll

LEMMA CoreNeat ==
  ASSUME NEW c
  PROVE  Neat(capture_select_core(c), Strict)
<1>1. Neat(<<Do("settle"), Do("core_down"), Call("adc_init", c), Do("capture_init"),
        Call("powered", TRUE)>>, Strict)
  <2>1. /\ ClearCall(Do("settle"), Strict) /\ Do("settle")[3] = 0
        /\ ClearCall(Do("core_down"), Strict) /\ Do("core_down")[3] = 0
        /\ ClearCall(Call("adc_init", c), Strict) /\ Call("adc_init", c)[3] = 0
        /\ ClearCall(Do("capture_init"), Strict) /\ Do("capture_init")[3] = 0
        /\ ClearCall(Call("powered", TRUE), Strict) /\ Call("powered", TRUE)[3] = 0
    BY Apart, DoPlainly, Plainly DEF BoardCalls, CoreCalls
  <2> QED
    BY <2>1, Row5
<1> QED
  BY <1>1 DEF capture_select_core

LEMMA RestoreNeat ==
  Neat(acq_chain_restore, Strict)
<1> DEFINE part1 == <<Do("settle"), Do("sccp1_stop"), Call("sccp1_count", FALSE),
        Call("adc_ch0_irq", FALSE), Call("step_on", FALSE), Do("restore_dac2"),
        Call("clock_dac_select", "pll1")>>
           part2 == capture_select_core("boot")
           part3 == capture_set_pll("board", <<>>)
<1>1. Neat(part1, Strict)
  <2>1. /\ ClearCall(Do("settle"), Strict) /\ Do("settle")[3] = 0
        /\ ClearCall(Do("sccp1_stop"), Strict) /\ Do("sccp1_stop")[3] = 0
        /\ ClearCall(Call("sccp1_count", FALSE), Strict) /\ Call("sccp1_count", FALSE)[3] = 0
        /\ ClearCall(Call("adc_ch0_irq", FALSE), Strict) /\ Call("adc_ch0_irq", FALSE)[3] = 0
        /\ ClearCall(Call("step_on", FALSE), Strict) /\ Call("step_on", FALSE)[3] = 0
        /\ ClearCall(Do("restore_dac2"), Strict) /\ Do("restore_dac2")[3] = 0
        /\ ClearCall(Call("clock_dac_select", "pll1"), Strict)
                /\ Call("clock_dac_select", "pll1")[3] = 0
    BY Apart, DoPlainly, Plainly DEF BoardCalls, CoreCalls
  <2> QED
    BY <2>1, Row7
<1>2. Neat(part2, Strict)
  BY CoreNeat
<1>3. Neat(part1 \o part2, Strict)
  BY <1>1, <1>2, NeatJoin
<1>4. Neat(part3, Strict)
  BY PllNeat, NothingNeat
<1>5. Neat(part1 \o part2 \o part3, Strict)
  BY <1>3, <1>4, NeatJoin
<1> QED
  BY <1>5 DEF acq_chain_restore

LEMMA StopNeat ==
  Neat(capture_chain_stop, Strict)
<1>1. Neat(<<Do("sccp1_stop"), Do("settle")>>, Strict)
  <2>1. /\ ClearCall(Do("sccp1_stop"), Strict) /\ Do("sccp1_stop")[3] = 0
        /\ ClearCall(Do("settle"), Strict) /\ Do("settle")[3] = 0
    BY Apart, DoPlainly DEF BoardCalls, CoreCalls
  <2> QED
    BY <2>1, Row2
<1> QED
  BY <1>1 DEF capture_chain_stop

(* A DAC's start skips the calls behind it when there is no clock.         *)
LEMMA DacStartReaches ==
  ASSUME NEW u, NEW how, NEW k \in Nat, NEW e, NEW N, Neat(e, N), N \subseteq Strict
  PROVE  /\ Clear(dac_start(u, how, k, e), N)
         /\ \A n \in Nat : k = Everything \/ k <= n + 1 => Reaches(dac_start(u, how, k, e), n)
<1> DEFINE a == OrElse("clock_dac_on", 0, k, e)
           b == Call("dac_enable", <<u, how>>)
           s == dac_start(u, how, k, e)
<1>1. a[3] = k /\ b[3] = 0
  BY CallIs DEF Call
<1>2. ClearCall(a, N) /\ ClearCall(b, N)
  <2>1. "clock_dac_on" \notin N /\ "dac_enable" \notin N
    BY Apart DEF BoardCalls
  <2> QED
    BY <2>1, ClearMade, Plainly
<1>3. s = <<a, b>>
  BY DEF dac_start
<1> HIDE DEF a, b, s
<1>4. Clear(s, N)
  BY <1>2, <1>3, Row2
<1>5. Len(s) = 2 /\ s[1] = a /\ s[2] = b
  BY <1>3
<1>6. ASSUME NEW n \in Nat, k = Everything \/ k <= n + 1 PROVE Reaches(s, n)
  <2>1. \A i \in 1 .. Len(s) : i = 1 \/ i = 2
    BY <1>5
  <2>2. s[1][3] \in Nat /\ (s[1][3] = Everything \/ 1 + s[1][3] <= Len(s) + n)
    BY <1>1, <1>5, <1>6
  <2>3. s[2][3] \in Nat /\ 2 + s[2][3] <= Len(s) + n
    BY <1>1, <1>5
  <2> QED
    BY <2>1, <2>2, <2>3 DEF Reaches
<1> QED
  BY <1>4, <1>6 DEF s

LEMMA DacStartNeat ==
  ASSUME NEW u, NEW how, NEW k \in {1, Everything}, NEW e, NEW N, Neat(e, N), N \subseteq Strict
  PROVE  Neat(dac_start(u, how, k, e), N)
<1>1. k \in Nat /\ 0 \in Nat /\ (k = Everything \/ k <= 0 + 1)
  BY DEF Everything
<1> QED
  BY <1>1, DacStartReaches DEF Neat, Tight

(* And the start of the triggered stream.                                  *)
LEMMA ChainStartReaches ==
  ASSUME NEW k \in Nat, NEW e, NEW N, Neat(e, N), N \subseteq Strict
  PROVE  /\ Clear(capture_chain_start(k, e), N)
         /\ \A n \in Nat : k = Everything \/ k <= n => Reaches(capture_chain_start(k, e), n)
<1> DEFINE els == <<Do("settle")>> \o e
           a == Do("settle")
           b == Call("chain", TRUE)
           c == Do("capture_init")
           d == Call("run", TRUE)
           f == OrElse("sccp1_start", 0, k, els)
           s == capture_chain_start(k, e)
<1>1. /\ ClearCall(a, N) /\ ClearCall(b, N) /\ ClearCall(c, N) /\ ClearCall(d, N)
      /\ a[3] = 0 /\ b[3] = 0 /\ c[3] = 0 /\ d[3] = 0
  BY Apart, DoPlainly, Plainly DEF CoreCalls
<1>2. Neat(els, N)
  <2>1. Neat(<<a>>, N)
    BY <1>1, Row1
  <2> QED
    BY <2>1, NeatJoin
<1>3. ClearCall(f, N)
  <2>1. "sccp1_start" \notin N
    BY Apart DEF BoardCalls
  <2> HIDE DEF els
  <2> QED
    BY <1>2, <2>1, ClearMade
<1>4. s = <<a, b, c, d, f>> /\ f[3] = k
  BY CallIs DEF capture_chain_start
<1> HIDE DEF a, b, c, d, f, s
<1>5. Clear(s, N)
  BY <1>1, <1>3, <1>4, Row5
<1>6. Len(s) = 5 /\ s[1] = a /\ s[2] = b /\ s[3] = c /\ s[4] = d /\ s[5] = f
  BY <1>4
<1>7. ASSUME NEW n \in Nat, k = Everything \/ k <= n PROVE Reaches(s, n)
  <2>1. ASSUME NEW i \in 1 .. Len(s)
        PROVE  s[i][3] \in Nat /\ (s[i][3] = Everything \/ i + s[i][3] <= Len(s) + n)
    <3>1. i \in 1 .. 4 \/ i = 5
      BY <1>6
    <3>2. CASE i \in 1 .. 4
      <4>1. s[i][3] = 0
        BY <1>1, <1>6, <3>2
      <4> QED
        BY <1>6, <3>2, <4>1
    <3>3. CASE i = 5
      BY <1>4, <1>6, <1>7, <3>3
    <3> QED
      BY <3>1, <3>2, <3>3
  <2> QED
    BY <2>1 DEF Reaches
<1> QED
  BY <1>5, <1>7 DEF s


LEMMA SettleNeat ==
  ASSUME NEW p, NEW q
  PROVE  Neat((IF p THEN <<Do("sccp1_stop")>> ELSE <<>>)
              \o (IF q THEN <<Do("adc_deinit"), Do("adc_reinit")>> ELSE <<>>)
              \o dma0_deinit \o <<Call("armed", FALSE)>>, Strict)
<1> DEFINE A == IF p THEN <<Do("sccp1_stop")>> ELSE <<>>
           B == IF q THEN <<Do("adc_deinit"), Do("adc_reinit")>> ELSE <<>>
<1>1. Neat(A, Strict)
  <2>1. Neat(<<Do("sccp1_stop")>>, Strict)
    BY Apart, DoPlainly, Row1 DEF BoardCalls
  <2> QED
    BY <2>1, NothingNeat
<1>2. Neat(B, Strict)
  <2>1. Neat(<<Do("adc_deinit"), Do("adc_reinit")>>, Strict)
    BY Apart, DoPlainly, Row2 DEF BoardCalls
  <2> QED
    BY <2>1, NothingNeat
<1> HIDE DEF A, B
<1>3. Neat(A \o B, Strict)
  BY <1>1, <1>2, NeatJoin
<1>4. Neat(dma0_deinit, Strict)
  BY DeinitNeat
<1>5. Neat(A \o B \o dma0_deinit, Strict)
  BY <1>3, <1>4, NeatJoin
<1>6. Neat(<<Call("armed", FALSE)>>, Strict)
  <2>1. /\ ClearCall(Call("armed", FALSE), Strict) /\ Call("armed", FALSE)[3] = 0
    BY Apart, Plainly DEF CoreCalls
  <2> QED
    BY <2>1, Row1
<1>7. Neat(A \o B \o dma0_deinit \o <<Call("armed", FALSE)>>, Strict)
  BY <1>5, <1>6, NeatJoin
<1> QED
  BY <1>7 DEF A, B

LEMMA NotOkNeat ==
  Neat(NotOk, Foreign)
<1>1. Neat(<<Call("ok", FALSE)>>, Foreign)
  <2>1. /\ ClearCall(Call("ok", FALSE), Foreign) /\ Call("ok", FALSE)[3] = 0
    BY Apart, Plainly
  <2> QED
    BY <2>1, Row1
<1> QED
  BY <1>1 DEF NotOk

LEMMA SetupNeat ==
  ASSUME NEW core, NEW signal, NEW half
  PROVE  Neat(acq_chain_setup(core, signal, half), Foreign)
<1> DEFINE part1 == <<Call("ok", TRUE), Do("settle"), Do("sccp1_stop"), Call("half", half)>>
           part2 == capture_set_pll("chain", NotOk)
           part3 == <<Note("clock_trig_on", "on", NotOk), Call("clock_dac_select", "pll1")>>
           test == IF signal THEN dac_start(2, "level", 1, NotOk) ELSE <<>>
           modes == <<Call("adc_set_mode_single", "sccp1"), Call("adc_set_irqsel", 0),
                   Do("settle")>>
           rest == capture_select_core(core) \o modes
<1>1. Neat(part1, Foreign)
  <2>1. /\ ClearCall(Call("ok", TRUE), Foreign) /\ Call("ok", TRUE)[3] = 0
        /\ ClearCall(Do("settle"), Foreign) /\ Do("settle")[3] = 0
        /\ ClearCall(Do("sccp1_stop"), Foreign) /\ Do("sccp1_stop")[3] = 0
        /\ ClearCall(Call("half", half), Foreign) /\ Call("half", half)[3] = 0
    BY Apart, DoPlainly, Plainly DEF BoardCalls, CoreCalls
  <2> QED
    BY <2>1, Row4
<1>2. Neat(part2, Foreign)
  BY PllNeat, NotOkNeat, NamesOf
<1>3. Neat(part1 \o part2, Foreign)
  BY <1>1, <1>2, NeatJoin
<1>4. Neat(part3, Foreign)
  <2>1. /\ ClearCall(Note("clock_trig_on", "on", NotOk), Foreign)
          /\ Note("clock_trig_on", "on", NotOk)[3] = 0
        /\ ClearCall(Call("clock_dac_select", "pll1"), Foreign)
                /\ Call("clock_dac_select", "pll1")[3] = 0
    BY Apart, Plainly, NotePlainly, NotOkNeat DEF BoardCalls
  <2> QED
    BY <2>1, Row2
<1>5. Neat(part1 \o part2 \o part3, Foreign)
  BY <1>3, <1>4, NeatJoin
<1>6. Neat(test, Foreign)
  <2>1. Neat(dac_start(2, "level", 1, NotOk), Foreign)
    BY DacStartNeat, NotOkNeat, NamesOf
  <2> QED
    BY <2>1, NothingNeat
<1>7. Neat(part1 \o part2 \o part3 \o test, Foreign)
  BY <1>5, <1>6, NeatJoin
<1>8. Neat(rest, Foreign)
  <2>1. Neat(modes, Foreign)
    <3>1. /\ ClearCall(Call("adc_set_mode_single", "sccp1"), Foreign)
          /\ Call("adc_set_mode_single", "sccp1")[3] = 0
          /\ ClearCall(Call("adc_set_irqsel", 0), Foreign) /\ Call("adc_set_irqsel", 0)[3] = 0
          /\ ClearCall(Do("settle"), Foreign) /\ Do("settle")[3] = 0
      BY Apart, DoPlainly, Plainly DEF BoardCalls, CoreCalls
    <3> QED
      BY <3>1, Row3
  <2>2. Neat(capture_select_core(core), Foreign)
    BY CoreNeat, ClearLess, NamesOf
  <2> QED
    BY <2>1, <2>2, NeatJoin
<1>9. Neat(part1 \o part2 \o part3 \o test \o rest, Foreign)
  BY <1>7, <1>8, NeatJoin
<1> QED
  BY <1>9 DEF acq_chain_setup

LEMMA ArmsNeat ==
  ASSUME NEW h PROVE Neat(dma0_init(h), Strict) /\ Neat(dma0_pp_init(h), Strict)
  BY ArmNeat DEF dma0_init, dma0_pp_init

LEMMA TxStopNeat ==
  Neat(dma_tx_stop, Strict)
<1>1. Neat(<<Do("dma2_stop"), Call("dma2_window", None), Do("dma2_window_back")>>, Strict)
  <2>1. /\ ClearCall(Do("dma2_stop"), Strict) /\ Do("dma2_stop")[3] = 0
        /\ ClearCall(Call("dma2_window", None), Strict) /\ Call("dma2_window", None)[3] = 0
        /\ ClearCall(Do("dma2_window_back"), Strict) /\ Do("dma2_window_back")[3] = 0
    BY Apart, DoPlainly, Plainly DEF BoardCalls
  <2> QED
    BY <2>1, Row3
<1> QED
  BY <1>1 DEF dma_tx_stop

LEMMA GenStopNeat ==
  ASSUME NEW u
  PROVE  Neat(<<Do("sccp2_stop")>> \o dma_tx_stop \o dac_off(u)
              \o <<Call("claim", 0), Call("gen", 0)>>, Strict)
<1> DEFINE part1 == <<Do("sccp2_stop")>>
           part2 == dac_off(u)
           part3 == <<Call("claim", 0), Call("gen", 0)>>
<1>1. Neat(part1, Strict)
  <2>1. /\ ClearCall(Do("sccp2_stop"), Strict) /\ Do("sccp2_stop")[3] = 0
    BY Apart, DoPlainly DEF BoardCalls
  <2> QED
    BY <2>1, Row1
<1>2. Neat(dma_tx_stop, Strict)
  BY TxStopNeat
<1>3. Neat(part1 \o dma_tx_stop, Strict)
  BY <1>1, <1>2, NeatJoin
<1>4. Neat(part2, Strict)
  BY DacOffNeat
<1>5. Neat(part1 \o dma_tx_stop \o part2, Strict)
  BY <1>3, <1>4, NeatJoin
<1>6. Neat(part3, Strict)
  <2>1. /\ ClearCall(Call("claim", 0), Strict) /\ Call("claim", 0)[3] = 0
        /\ ClearCall(Call("gen", 0), Strict) /\ Call("gen", 0)[3] = 0
    BY Apart, Plainly DEF CoreCalls
  <2> QED
    BY <2>1, Row2
<1>7. Neat(part1 \o dma_tx_stop \o part2 \o part3, Strict)
  BY <1>5, <1>6, NeatJoin
<1> QED
  BY <1>7

LEMMA StreamOffNeat ==
  Neat(capture_chain_stop \o acq_chain_restore
              \o <<Call("route", "none"), Call("stream", FALSE)>>, Strict)
<1> DEFINE part1 == <<Call("route", "none"), Call("stream", FALSE)>>
<1>1. Neat(capture_chain_stop, Strict)
  BY StopNeat
<1>2. Neat(acq_chain_restore, Strict)
  BY RestoreNeat
<1>3. Neat(capture_chain_stop \o acq_chain_restore, Strict)
  BY <1>1, <1>2, NeatJoin
<1>4. Neat(part1, Strict)
  <2>1. /\ ClearCall(Call("route", "none"), Strict) /\ Call("route", "none")[3] = 0
        /\ ClearCall(Call("stream", FALSE), Strict) /\ Call("stream", FALSE)[3] = 0
    BY Apart, Plainly DEF CoreCalls
  <2> QED
    BY <2>1, Row2
<1>5. Neat(capture_chain_stop \o acq_chain_restore \o part1, Strict)
  BY <1>3, <1>4, NeatJoin
<1> QED
  BY <1>5
----------------------------------------------------------------------------
(* What the stages are made of.                                            *)
LEMMA ClaimNeat ==
  ASSUME NEW a, NEW b, NEW c, NEW d, NEW e, NEW f, NEW g, NEW h, NEW i, NEW j, NEW k, NEW l
  PROVE  Neat(Claim(a, b, c, d, e, f, g, h, i, j, k, l), Strict)
<1> DEFINE x == <<a, b, c, d, e, f, g, h, i, j, k, l>>
<1>1. Claim(a, b, c, d, e, f, g, h, i, j, k, l) = <<Call("measure", x)>>
  BY DEF Claim
<1> HIDE DEF x
<1>2. ClearCall(Call("measure", x), Strict) /\ Call("measure", x)[3] = 0
  BY Apart, Plainly DEF TestCalls
<1> QED
  BY <1>1, <1>2, Row1

LEMMA TriggeredNeat ==
  ASSUME NEW d, NEW irq, NEW step, NEW dac2, NEW input
  PROVE  Neat(Triggered(d, irq, step, dac2, input), Strict)
         /\ Len(Triggered(d, irq, step, dac2, input)) = 1
<1>1. Neat(Triggered(d, irq, step, dac2, input), Strict)
  BY ClaimNeat DEF Triggered
<1> QED
  BY <1>1 DEF Triggered, Claim

LEMMA BurstNeat ==
  ASSUME NEW pll, NEW div, NEW input PROVE Neat(Burst(pll, div, input), Strict)
  BY ClaimNeat DEF Burst

LEMMA OwnNeat ==
  ASSUME NEW pll PROVE Neat(Own(pll), Strict)
  BY BurstNeat DEF Own

LEMMA ByBurstNeat ==
  ASSUME NEW pll, NEW dac2 PROVE Neat(ByBurst(pll, dac2), Strict)
  BY ClaimNeat DEF ByBurst

LEMMA ReinitClear == Neat(<<reinit>>, Strict) /\ ClearCall(reinit, Strict) /\ reinit[3] = 0
<1>1. ClearCall(reinit, Strict) /\ reinit[3] = 0
  BY Apart, NotePlainly, NothingNeat DEF BoardCalls, reinit
<1> QED
  BY <1>1, Row1

LEMMA LevelNeat == Neat(set_level, Strict)
  BY DacStartNeat, NothingNeat DEF set_level

LEMMA WindowNeat ==
  ASSUME NEW d, NEW irq, NEW step, NEW dac2 PROVE Neat(window(d, irq, step, dac2), Strict)
<1> DEFINE a == capture_chain_start(1, <<>>)
           b == Triggered(d, irq, step, dac2, "own")
<1>1. Clear(a, Strict) /\ Reaches(a, 1)
  BY ChainStartReaches, NothingNeat
<1>2. Neat(b, Strict) /\ Len(b) = 1
  BY TriggeredNeat
<1> HIDE DEF a, b
<1>3. Clear(a \o b, Strict)
  BY <1>1, <1>2, ClearJoin DEF Neat
<1>4. Tight(a \o b)
  BY <1>1, <1>2, ReachJoin DEF Neat, Clear
<1>5. Neat((a \o b) \o capture_chain_stop, Strict)
  BY <1>3, <1>4, StopNeat, NeatJoin DEF Neat
<1> QED
  BY <1>5 DEF window, a, b

LEMMA SelNeat ==
  ASSUME NEW d
  PROVE  Neat(IrqSel(d), Strict)
<1>1. Neat(<<Call("adc_set_irqsel", IF d THEN 1 ELSE 0)>>, Strict)
  <2>1. /\ ClearCall(Call("adc_set_irqsel", IF d THEN 1 ELSE 0), Strict)
          /\ Call("adc_set_irqsel", IF d THEN 1 ELSE 0)[3] = 0
    BY Apart, Plainly DEF BoardCalls
  <2> QED
    BY <2>1, Row1
<1> QED
  BY <1>1 DEF IrqSel

LEMMA CountNeat ==
  ASSUME NEW d
  PROVE  Neat(count_at(d), Strict)
<1>1. Neat(IrqSel(d), Strict)
  BY SelNeat
<1>2. Neat(window(d, FALSE, FALSE, "level"), Strict)
  BY WindowNeat
<1>3. Neat(IrqSel(d) \o window(d, FALSE, FALSE, "level"), Strict)
  BY <1>1, <1>2, NeatJoin
<1>4. Neat(IrqSel(FALSE), Strict)
  BY SelNeat
<1>5. Neat(IrqSel(d) \o window(d, FALSE, FALSE, "level") \o IrqSel(FALSE), Strict)
  BY <1>3, <1>4, NeatJoin
<1> QED
  BY <1>5 DEF count_at

LEMMA ForNeat ==
  ASSUME NEW d
  PROVE  Neat(stream_for(d), Strict)
<1>1. Neat(IrqSel(d), Strict)
  BY SelNeat
<1>2. Neat(window(d, FALSE, FALSE, "level"), Strict)
  BY WindowNeat
<1>3. Neat(IrqSel(d) \o window(d, FALSE, FALSE, "level"), Strict)
  BY <1>1, <1>2, NeatJoin
<1>4. Neat(IrqSel(FALSE), Strict)
  BY SelNeat
<1>5. Neat(IrqSel(d) \o window(d, FALSE, FALSE, "level") \o IrqSel(FALSE), Strict)
  BY <1>3, <1>4, NeatJoin
<1> QED
  BY <1>5 DEF stream_for

LEMMA CollectNeat ==
  ASSUME NEW step, NEW input
  PROVE  Neat(adc_collect(step, input), Strict)
<1> DEFINE part1 == <<Do("settle"), Call("adc_ch0_irq", TRUE), Note("sccp1_start", 0, <<>>)>>
           part2 == Triggered(FALSE, TRUE, step, "level", input)
           part3 == <<Do("sccp1_stop"), Call("adc_ch0_irq", FALSE)>>
<1>1. Neat(part1, Strict)
  <2>1. /\ ClearCall(Do("settle"), Strict) /\ Do("settle")[3] = 0
        /\ ClearCall(Call("adc_ch0_irq", TRUE), Strict) /\ Call("adc_ch0_irq", TRUE)[3] = 0
        /\ ClearCall(Note("sccp1_start", 0, <<>>), Strict)
                /\ Note("sccp1_start", 0, <<>>)[3] = 0
    BY Apart, DoPlainly, Plainly, NotePlainly, NothingNeat DEF BoardCalls, CoreCalls
  <2> QED
    BY <2>1, Row3
<1>2. Neat(part2, Strict)
  BY TriggeredNeat
<1>3. Neat(part1 \o part2, Strict)
  BY <1>1, <1>2, NeatJoin
<1>4. Neat(part3, Strict)
  <2>1. /\ ClearCall(Do("sccp1_stop"), Strict) /\ Do("sccp1_stop")[3] = 0
        /\ ClearCall(Call("adc_ch0_irq", FALSE), Strict) /\ Call("adc_ch0_irq", FALSE)[3] = 0
    BY Apart, DoPlainly, Plainly DEF BoardCalls
  <2> QED
    BY <2>1, Row2
<1>5. Neat(part1 \o part2 \o part3, Strict)
  BY <1>3, <1>4, NeatJoin
<1> QED
  BY <1>5 DEF adc_collect

LEMMA TimerNeat ==
  Neat(counted_timer, Strict)
<1>1. Neat(<<Call("sccp1_count", TRUE), Note("sccp1_start", 0, <<>>), Do("sccp1_stop"),
        Call("sccp1_count", FALSE)>>, Strict)
  <2>1. /\ ClearCall(Call("sccp1_count", TRUE), Strict) /\ Call("sccp1_count", TRUE)[3] = 0
        /\ ClearCall(Note("sccp1_start", 0, <<>>), Strict)
                /\ Note("sccp1_start", 0, <<>>)[3] = 0
        /\ ClearCall(Do("sccp1_stop"), Strict) /\ Do("sccp1_stop")[3] = 0
        /\ ClearCall(Call("sccp1_count", FALSE), Strict) /\ Call("sccp1_count", FALSE)[3] = 0
    BY Apart, DoPlainly, Plainly, NotePlainly, NothingNeat DEF BoardCalls
  <2> QED
    BY <2>1, Row4
<1> QED
  BY <1>1 DEF counted_timer

LEMMA OneShotNeat ==
  ASSUME NEW c, NEW N, N \subseteq Strict, Neat(c, N)
  PROVE  Neat(capture_oneshot_n(c), N) /\ Neat(capture_oneshot(c), N)
<1> DEFINE part1 == <<Do("settle"), Do("capture_start")>>
           part2 == <<capture_stop>>
           part3 == <<Do("settle")>>
<1>1. Neat(part1, N)
  <2>1. /\ ClearCall(Do("settle"), N) /\ Do("settle")[3] = 0
        /\ ClearCall(Do("capture_start"), N) /\ Do("capture_start")[3] = 0
    BY Apart, DoPlainly DEF CoreCalls
  <2> QED
    BY <2>1, Row2
<1>2. Neat(c, N)
  OBVIOUS
<1>3. Neat(part1 \o c, N)
  BY <1>1, <1>2, NeatJoin
<1>4. Neat(part2, N)
  BY Apart, Plainly, Row1 DEF CoreCalls, capture_stop
<1>5. Neat(part1 \o c \o part2, N)
  BY <1>3, <1>4, NeatJoin
<1>6. Neat(part3, N)
  <2>1. /\ ClearCall(Do("settle"), N) /\ Do("settle")[3] = 0
    BY Apart, DoPlainly DEF CoreCalls
  <2> QED
    BY <2>1, Row1
<1>7. Neat(part1 \o c \o part2 \o part3, N)
  BY <1>5, <1>6, NeatJoin
<1> QED
  BY <1>5, <1>7 DEF capture_oneshot_n, capture_oneshot

LEMMA RateNeat ==
  ASSUME NEW c, Neat(c, Strict)
  PROVE  Neat(measure_rate(c), Strict)
<1>1. Neat(<<Do("settle"), Do("capture_start")>>, Strict)
  <2>1. /\ ClearCall(Do("settle"), Strict) /\ Do("settle")[3] = 0
        /\ ClearCall(Do("capture_start"), Strict) /\ Do("capture_start")[3] = 0
    BY Apart, DoPlainly DEF CoreCalls
  <2> QED
    BY <2>1, Row2
<1>2. Neat(c, Strict)
  OBVIOUS
<1>3. Neat(<<Do("settle"), Do("capture_start")>> \o c, Strict)
  BY <1>1, <1>2, NeatJoin
<1>4. Neat(<<Do("settle")>>, Strict)
  <2>1. /\ ClearCall(Do("settle"), Strict) /\ Do("settle")[3] = 0
    BY Apart, DoPlainly DEF CoreCalls
  <2> QED
    BY <2>1, Row1
<1>5. Neat(<<Do("settle"), Do("capture_start")>> \o c \o <<Do("settle")>>, Strict)
  BY <1>3, <1>4, NeatJoin
<1> QED
  BY <1>5 DEF measure_rate

LEMMA ProbeNeat ==
  ASSUME NEW c, Neat(c, Strict)
  PROVE  Neat(capture_clkoff_probe(c), Strict)
<1> DEFINE part1 == <<Do("settle"), Do("adc_deinit"), Call("clock_adc_gate", "off"), reinit,
        Do("capture_start")>>
           part2 == <<Do("settle"), Do("adc_deinit"), Note("clock_adc_gate", "on", <<>>),
                   reinit>>
<1>1. Neat(part1, Strict)
  <2>1. /\ ClearCall(Do("settle"), Strict) /\ Do("settle")[3] = 0
        /\ ClearCall(Do("adc_deinit"), Strict) /\ Do("adc_deinit")[3] = 0
        /\ ClearCall(Call("clock_adc_gate", "off"), Strict)
                /\ Call("clock_adc_gate", "off")[3] = 0
        /\ ClearCall(reinit, Strict) /\ reinit[3] = 0
        /\ ClearCall(Do("capture_start"), Strict) /\ Do("capture_start")[3] = 0
    BY Apart, DoPlainly, Plainly, ReinitClear DEF BoardCalls, CoreCalls
  <2> QED
    BY <2>1, Row5
<1>2. Neat(c, Strict)
  OBVIOUS
<1>3. Neat(part1 \o c, Strict)
  BY <1>1, <1>2, NeatJoin
<1>4. Neat(part2, Strict)
  <2>1. /\ ClearCall(Do("settle"), Strict) /\ Do("settle")[3] = 0
        /\ ClearCall(Do("adc_deinit"), Strict) /\ Do("adc_deinit")[3] = 0
        /\ ClearCall(Note("clock_adc_gate", "on", <<>>), Strict)
                /\ Note("clock_adc_gate", "on", <<>>)[3] = 0
        /\ ClearCall(reinit, Strict) /\ reinit[3] = 0
    BY Apart, DoPlainly, NotePlainly, ReinitClear, NothingNeat DEF BoardCalls, CoreCalls
  <2> QED
    BY <2>1, Row4
<1>5. Neat(part1 \o c \o part2, Strict)
  BY <1>3, <1>4, NeatJoin
<1> QED
  BY <1>5 DEF capture_clkoff_probe

LEMMA DivNeat ==
  ASSUME NEW r PROVE Neat(capture_set_clkdiv(r), Strict)
<1> DEFINE a == Do("settle")
           b == Do("adc_deinit")
           c == OrElse("clock_adc_set_div", r, 2, <<reinit>>)
           d == Call("clkdiv_cur", r)
           e == Do("restart")
           s == capture_set_clkdiv(r)
<1>1. /\ ClearCall(a, Strict) /\ ClearCall(b, Strict) /\ ClearCall(d, Strict)
      /\ ClearCall(e, Strict) /\ a[3] = 0 /\ b[3] = 0 /\ d[3] = 0 /\ e[3] = 0
  BY Apart, DoPlainly, Plainly DEF CoreCalls, BoardCalls, TestCalls
<1>2. ClearCall(c, Strict) /\ c[3] = 2
  <2>1. "clock_adc_set_div" \notin Strict
    BY Apart DEF BoardCalls
  <2> QED
    BY <2>1, ReinitClear, ClearMade, CallIs
<1>3. s = <<a, b, c, reinit, d, e>>
  BY DEF capture_set_clkdiv
<1> HIDE DEF a, b, c, d, e, s
<1>4. Clear(s, Strict)
  BY <1>1, <1>2, <1>3, ReinitClear, Row6
<1>5. Tight(s)
  <2>1. Len(s) = 6 /\ s[1] = a /\ s[2] = b /\ s[3] = c /\ s[4] = reinit /\ s[5] = d /\ s[6] = e
    BY <1>3
  <2>2. ASSUME NEW i \in 1 .. Len(s)
        PROVE  s[i][3] \in Nat /\ (s[i][3] = Everything \/ i + s[i][3] <= Len(s) + 0)
    <3>1. i = 3 \/ (i \in {1, 2, 4, 5, 6})
      BY <2>1
    <3>2. i # 3 => s[i][3] = 0
      BY <1>1, <2>1, <3>1, ReinitClear
    <3> QED
      BY <1>2, <2>1, <3>1, <3>2
  <2> QED
    BY <2>2 DEF Tight, Reaches
<1> QED
  BY <1>4, <1>5 DEF Neat, s

LEMMA ClockTestNeat ==
  Neat(test_clock, Strict)
<1>1. Neat(capture_set_clkdiv("divided"), Strict)
  BY DivNeat
<1>2. Neat(capture_set_clkdiv("undivided"), Strict)
  BY DivNeat
<1>3. Neat(capture_set_clkdiv("divided") \o capture_set_clkdiv("undivided"), Strict)
  BY <1>1, <1>2, NeatJoin
<1> QED
  BY <1>3 DEF test_clock

LEMMA PllWindowNeat ==
  ASSUME NEW pll
  PROVE  Neat(b2b_window(pll), Strict)
<1> DEFINE part1 == capture_set_pll(pll, <<>>)
           part2 == dac_start(2, "triangle", 1, <<>>)
           part3 == capture_oneshot(ByBurst(pll, "triangle"))
<1>1. Neat(part1, Strict)
  BY PllNeat, NothingNeat
<1>2. Neat(part2, Strict)
  BY DacStartNeat, NothingNeat
<1>3. Neat(part1 \o part2, Strict)
  BY <1>1, <1>2, NeatJoin
<1>4. Neat(part3, Strict)
  BY OneShotNeat, ByBurstNeat
<1>5. Neat(part1 \o part2 \o part3, Strict)
  BY <1>3, <1>4, NeatJoin
<1> QED
  BY <1>5 DEF b2b_window

LEMMA CheckNeat ==
  Neat(start_check, Strict)
<1>1. Neat(<<Do("settle")>>, Strict)
  <2>1. /\ ClearCall(Do("settle"), Strict) /\ Do("settle")[3] = 0
    BY Apart, DoPlainly DEF CoreCalls
  <2> QED
    BY <2>1, Row1
<1>2. Neat(window(FALSE, FALSE, FALSE, Unsaid), Strict)
  BY WindowNeat
<1>3. Neat(<<Do("settle")>> \o window(FALSE, FALSE, FALSE, Unsaid), Strict)
  BY <1>1, <1>2, NeatJoin
<1> QED
  BY <1>3 DEF start_check

LEMMA TwoNeat ==
  Neat(window(FALSE, FALSE, FALSE, "triangle") \o window(FALSE, FALSE, FALSE, "triangle"),
          Strict)
<1>1. Neat(window(FALSE, FALSE, FALSE, "triangle"), Strict)
  BY WindowNeat
<1>2. Neat(window(FALSE, FALSE, FALSE, "triangle"), Strict)
  BY WindowNeat
<1>3. Neat(window(FALSE, FALSE, FALSE, "triangle")
        \o window(FALSE, FALSE, FALSE, "triangle"), Strict)
  BY <1>1, <1>2, NeatJoin
<1> QED
  BY <1>3

----------------------------------------------------------------------------
(* The stages.                                                             *)
LEMMA PieceOver ==
  ASSUME NEW s, NEW m, NEW S, \A c \in S : Belongs(c, s, m) /\ c[3] = 0, NEW x \in Seq(S)
  PROVE  Piece(x, s, m)
<1>1. \A i \in 1 .. Len(x) : Belongs(x[i], s, m) /\ x[i][3] = 0 /\ i + 0 <= Len(x) + 0
  OBVIOUS
<1> QED
  BY <1>1 DEF Piece, IsSequence, Tight, Reaches

LEMMA ReachPiece ==
  ASSUME NEW s, NEW m, NEW x, NEW y, NEW n \in Nat, Clear(x, Strict), Reaches(x, n),
         Piece(y, s, m), n <= Len(y)
  PROVE  Piece(x \o y, s, m)
<1> DEFINE u == x \o y
<1>1. /\ IsSequence(u) /\ Len(x) \in Nat /\ Len(y) \in Nat /\ Len(u) = Len(x) + Len(y)
      /\ \A i \in 1 .. Len(x) : u[i] = x[i]
      /\ \A i \in 1 .. Len(y) : u[Len(x) + i] = y[i]
  BY Joining DEF Piece, Clear
<1>2. Tight(u)
  BY ReachJoin DEF Piece, Clear
<1> HIDE DEF u
<1>3. ASSUME NEW i \in 1 .. Len(u) PROVE Belongs(u[i], s, m)
  <2>1. CASE i <= Len(x)
    <3>1. ClearCall(u[i], Strict)
      BY <1>1, <2>1 DEF Clear
    <3> QED
      BY <3>1, ClearLess, NamesOf DEF Belongs
  <2>2. CASE ~(i <= Len(x))
    <3>1. i - Len(x) \in 1 .. Len(y) /\ Len(x) + (i - Len(x)) = i
      BY <1>1, <2>2
    <3> QED
      BY <1>1, <3>1 DEF Piece
  <2> QED
    BY <2>1, <2>2
<1> QED
  BY <1>1, <1>2, <1>3 DEF Piece, u

LEMMA OwnMade ==
  ASSUME NEW c, NEW s, NEW m, s # Unstaged, c[3] = 0, c[4] = <<>>
  PROVE  /\ c[1] = "triggers" /\ s = 2 => Belongs(c, s, m)
         /\ c[1] = "count" /\ s = 4 => Belongs(c, s, m)
         /\ c[1] = "counted" /\ s = 4 => Belongs(c, s, m)
         /\ c[1] = "recounted" /\ s = 4 => Belongs(c, s, m)
         /\ c[1] = "grid" /\ c[2][2] \notin {5, 6} \ {s} => Belongs(c, s, m)
         /\ c[1] = "result" /\ c[2][2] \notin {5, 6} \ {s} => Belongs(c, s, m)
         /\ c[1] = "stream rate" /\ c[2][2] \notin {5, 6} \ {s} => Belongs(c, s, m)
         /\ c[1] = "best" /\ s = 9 /\ m = TRUE => Belongs(c, s, m)
         /\ c[1] = "attempt" => Belongs(c, s, m)
  BY DEF Belongs, OwnCall, ChainCalls

LEMMA OwnIs ==
  ASSUME NEW x, NEW s, NEW m, s # Unstaged
  PROVE  /\ s = 2 => Belongs(Call("triggers", x), s, m)
         /\ s = 4 => Belongs(Call("count", x), s, m)
         /\ s = 4 => Belongs(Call("counted", x), s, m)
         /\ s = 4 => Belongs(Call("recounted", x), s, m)
         /\ x[2] \notin {5, 6} \ {s} => Belongs(Call("grid", x), s, m)
         /\ x[2] \notin {5, 6} \ {s} => Belongs(Call("result", x), s, m)
         /\ x[2] \notin {5, 6} \ {s} => Belongs(Call("stream rate", x), s, m)
         /\ s = 9 /\ m = TRUE => Belongs(Call("best", x), s, m)
         /\ Belongs(Call("attempt", x), s, m)
<1>1. s = 2 => Belongs(Call("triggers", x), s, m)
  <2> DEFINE c == Call("triggers", x)
  <2>1. c[1] = "triggers" /\ c[2] = x /\ c[3] = 0 /\ c[4] = <<>>
    BY DEF Call, OrElse
  <2> HIDE DEF c
  <2>2. s = 2 => Belongs(c, s, m)
    BY <2>1, OwnMade
  <2> QED
    BY <2>2 DEF c
<1>2. s = 4 => Belongs(Call("count", x), s, m)
  <2> DEFINE c == Call("count", x)
  <2>1. c[1] = "count" /\ c[2] = x /\ c[3] = 0 /\ c[4] = <<>>
    BY DEF Call, OrElse
  <2> HIDE DEF c
  <2>2. s = 4 => Belongs(c, s, m)
    BY <2>1, OwnMade
  <2> QED
    BY <2>2 DEF c
<1>3. s = 4 => Belongs(Call("counted", x), s, m)
  <2> DEFINE c == Call("counted", x)
  <2>1. c[1] = "counted" /\ c[2] = x /\ c[3] = 0 /\ c[4] = <<>>
    BY DEF Call, OrElse
  <2> HIDE DEF c
  <2>2. s = 4 => Belongs(c, s, m)
    BY <2>1, OwnMade
  <2> QED
    BY <2>2 DEF c
<1>4. s = 4 => Belongs(Call("recounted", x), s, m)
  <2> DEFINE c == Call("recounted", x)
  <2>1. c[1] = "recounted" /\ c[2] = x /\ c[3] = 0 /\ c[4] = <<>>
    BY DEF Call, OrElse
  <2> HIDE DEF c
  <2>2. s = 4 => Belongs(c, s, m)
    BY <2>1, OwnMade
  <2> QED
    BY <2>2 DEF c
<1>5. x[2] \notin {5, 6} \ {s} => Belongs(Call("grid", x), s, m)
  <2> DEFINE c == Call("grid", x)
  <2>1. c[1] = "grid" /\ c[2] = x /\ c[3] = 0 /\ c[4] = <<>>
    BY DEF Call, OrElse
  <2> HIDE DEF c
  <2>2. x[2] \notin {5, 6} \ {s} => Belongs(c, s, m)
    BY <2>1, OwnMade
  <2> QED
    BY <2>2 DEF c
<1>6. x[2] \notin {5, 6} \ {s} => Belongs(Call("result", x), s, m)
  <2> DEFINE c == Call("result", x)
  <2>1. c[1] = "result" /\ c[2] = x /\ c[3] = 0 /\ c[4] = <<>>
    BY DEF Call, OrElse
  <2> HIDE DEF c
  <2>2. x[2] \notin {5, 6} \ {s} => Belongs(c, s, m)
    BY <2>1, OwnMade
  <2> QED
    BY <2>2 DEF c
<1>7. x[2] \notin {5, 6} \ {s} => Belongs(Call("stream rate", x), s, m)
  <2> DEFINE c == Call("stream rate", x)
  <2>1. c[1] = "stream rate" /\ c[2] = x /\ c[3] = 0 /\ c[4] = <<>>
    BY DEF Call, OrElse
  <2> HIDE DEF c
  <2>2. x[2] \notin {5, 6} \ {s} => Belongs(c, s, m)
    BY <2>1, OwnMade
  <2> QED
    BY <2>2 DEF c
<1>8. s = 9 /\ m = TRUE => Belongs(Call("best", x), s, m)
  <2> DEFINE c == Call("best", x)
  <2>1. c[1] = "best" /\ c[2] = x /\ c[3] = 0 /\ c[4] = <<>>
    BY DEF Call, OrElse
  <2> HIDE DEF c
  <2>2. s = 9 /\ m = TRUE => Belongs(c, s, m)
    BY <2>1, OwnMade
  <2> QED
    BY <2>2 DEF c
<1>9. Belongs(Call("attempt", x), s, m)
  <2> DEFINE c == Call("attempt", x)
  <2>1. c[1] = "attempt" /\ c[2] = x /\ c[3] = 0 /\ c[4] = <<>>
    BY DEF Call, OrElse
  <2> HIDE DEF c
  <2>2. Belongs(c, s, m)
    BY <2>1, OwnMade
  <2> QED
    BY <2>2 DEF c
<1> QED
  BY <1>1, <1>2, <1>3, <1>4, <1>5, <1>6, <1>7, <1>8, <1>9

LEMMA StageNumbers == \A s \in 0 .. 9 : s # Unstaged
  BY DEF Unstaged

LEMMA NoSkip == \A f, x : Call(f, x)[3] = 0
  BY DEF Call, OrElse

LEMMA StrictIs ==
  ASSUME NEW c, NEW s, NEW m, ClearCall(c, Strict) PROVE Belongs(c, s, m)
  BY ClearLess, NamesOf DEF Belongs

LEMMA Stage1Neat ==
  Neat(stage1, Strict)
<1>1. Neat(<<Do("settle"), Note("sccp1_start", 0, <<>>), Do("sccp1_stop")>>, Strict)
  <2>1. /\ ClearCall(Do("settle"), Strict) /\ Do("settle")[3] = 0
        /\ ClearCall(Note("sccp1_start", 0, <<>>), Strict)
                /\ Note("sccp1_start", 0, <<>>)[3] = 0
        /\ ClearCall(Do("sccp1_stop"), Strict) /\ Do("sccp1_stop")[3] = 0
    BY Apart, DoPlainly, NotePlainly, NothingNeat DEF BoardCalls, CoreCalls
  <2> QED
    BY <2>1, Row3
<1>2. Neat(counted_timer, Strict)
  BY TimerNeat
<1>3. Neat(<<Do("settle"), Note("sccp1_start", 0, <<>>), Do("sccp1_stop")>>
        \o counted_timer, Strict)
  BY <1>1, <1>2, NeatJoin
<1> QED
  BY <1>3 DEF stage1

LEMMA Stage2Piece ==
  ASSUME NEW m
  PROVE  Piece(stage2, 2, m)
<1> DEFINE part1  == adc_collect(FALSE, "own")
           part2  == <<Do("settle"), Call("adc_set_input", "samc31")>>
           part3  == adc_collect(FALSE, "samc31")
           part4  == <<Call("adc_set_input", "own"), Call("uref", TRUE),
                   Call("adc_set_input", "uref")>>
           part5  == adc_collect(FALSE, "uref")
           part6  == <<Call("adc_set_input", "own"), Call("uref", FALSE)>>
           part7  == <<Do("settle"), Call("sccp1_count", TRUE), Call("adc_ch0_irq", TRUE),
                   Note("sccp1_start", 0, <<>>)>>
           part8  == Triggered(FALSE, TRUE, FALSE, "level", "own")
           part9  == <<Do("sccp1_stop"), Call("adc_ch0_irq", FALSE), Call("sccp1_count", FALSE),
                   Do("triggers")>>
           part10 == <<Call("step_on", TRUE)>>
           part11 == adc_collect(TRUE, "own")
           part12 == <<Call("step_on", FALSE)>>
<1>1. Piece(set_level, 2, m)
  BY LevelNeat, NeatPiece
<1>2. Piece(part1, 2, m)
  BY CollectNeat, NeatPiece
<1>3. Piece(set_level \o part1, 2, m)
  BY <1>1, <1>2, PieceJoin
<1>4. Piece(part2, 2, m)
  <2>1. Neat(<<Do("settle"), Call("adc_set_input", "samc31")>>, Strict)
    <3>1. /\ ClearCall(Do("settle"), Strict) /\ Do("settle")[3] = 0
          /\ ClearCall(Call("adc_set_input", "samc31"), Strict)
                  /\ Call("adc_set_input", "samc31")[3] = 0
      BY Apart, DoPlainly, Plainly, NotePlainly, NothingNeat, ReinitClear
              DEF BoardCalls, CoreCalls
    <3> QED
      BY <3>1, Row2
  <2> QED
    BY <2>1, NeatPiece
<1>5. Piece(set_level \o part1 \o part2, 2, m)
  BY <1>3, <1>4, PieceJoin
<1>6. Piece(part3, 2, m)
  BY CollectNeat, NeatPiece
<1>7. Piece(set_level \o part1 \o part2 \o part3, 2, m)
  BY <1>5, <1>6, PieceJoin
<1>8. Piece(part4, 2, m)
  <2>1. Neat(<<Call("adc_set_input", "own"), Call("uref", TRUE),
          Call("adc_set_input", "uref")>>, Strict)
    <3>1. /\ ClearCall(Call("adc_set_input", "own"), Strict)
            /\ Call("adc_set_input", "own")[3] = 0
          /\ ClearCall(Call("uref", TRUE), Strict) /\ Call("uref", TRUE)[3] = 0
          /\ ClearCall(Call("adc_set_input", "uref"), Strict)
                  /\ Call("adc_set_input", "uref")[3] = 0
      BY Apart, DoPlainly, Plainly, NotePlainly, NothingNeat, ReinitClear DEF BoardCalls
    <3> QED
      BY <3>1, Row3
  <2> QED
    BY <2>1, NeatPiece
<1>9. Piece(set_level \o part1 \o part2 \o part3 \o part4, 2, m)
  BY <1>7, <1>8, PieceJoin
<1>10. Piece(set_level, 2, m)
  BY LevelNeat, NeatPiece
<1>11. Piece(set_level \o part1 \o part2 \o part3 \o part4 \o set_level, 2, m)
  BY <1>9, <1>10, PieceJoin
<1>12. Piece(part5, 2, m)
  BY CollectNeat, NeatPiece
<1>13. Piece(set_level \o part1 \o part2 \o part3 \o part4 \o set_level \o part5, 2, m)
  BY <1>11, <1>12, PieceJoin
<1>14. Piece(part6, 2, m)
  <2>1. Neat(<<Call("adc_set_input", "own"), Call("uref", FALSE)>>, Strict)
    <3>1. /\ ClearCall(Call("adc_set_input", "own"), Strict)
            /\ Call("adc_set_input", "own")[3] = 0
          /\ ClearCall(Call("uref", FALSE), Strict) /\ Call("uref", FALSE)[3] = 0
      BY Apart, DoPlainly, Plainly, NotePlainly, NothingNeat, ReinitClear DEF BoardCalls
    <3> QED
      BY <3>1, Row2
  <2> QED
    BY <2>1, NeatPiece
<1>15. Piece(set_level \o part1 \o part2 \o part3 \o part4 \o set_level \o part5 \o part6, 2, m)
  BY <1>13, <1>14, PieceJoin
<1>16. Piece(set_level, 2, m)
  BY LevelNeat, NeatPiece
<1>17. Piece(set_level \o part1 \o part2 \o part3 \o part4 \o set_level \o part5 \o part6
        \o set_level, 2, m)
  BY <1>15, <1>16, PieceJoin
<1>18. Piece(part7, 2, m)
  <2>1. Neat(<<Do("settle"), Call("sccp1_count", TRUE), Call("adc_ch0_irq", TRUE),
          Note("sccp1_start", 0, <<>>)>>, Strict)
    <3>1. /\ ClearCall(Do("settle"), Strict) /\ Do("settle")[3] = 0
          /\ ClearCall(Call("sccp1_count", TRUE), Strict) /\ Call("sccp1_count", TRUE)[3] = 0
          /\ ClearCall(Call("adc_ch0_irq", TRUE), Strict) /\ Call("adc_ch0_irq", TRUE)[3] = 0
          /\ ClearCall(Note("sccp1_start", 0, <<>>), Strict)
                  /\ Note("sccp1_start", 0, <<>>)[3] = 0
      BY Apart, DoPlainly, Plainly, NotePlainly, NothingNeat, ReinitClear
              DEF BoardCalls, CoreCalls
    <3> QED
      BY <3>1, Row4
  <2> QED
    BY <2>1, NeatPiece
<1>19. Piece(set_level \o part1 \o part2 \o part3 \o part4 \o set_level \o part5 \o part6
        \o set_level \o part7, 2, m)
  BY <1>17, <1>18, PieceJoin
<1>20. Piece(part8, 2, m)
  BY TriggeredNeat, NeatPiece
<1>21. Piece(set_level \o part1 \o part2 \o part3 \o part4 \o set_level \o part5 \o part6
        \o set_level \o part7 \o part8, 2, m)
  BY <1>19, <1>20, PieceJoin
<1>22. Piece(part9, 2, m)
  <2> DEFINE a == Do("sccp1_stop")
             b == Call("adc_ch0_irq", FALSE)
             c == Call("sccp1_count", FALSE)
             d == Do("triggers")
             S == {a, b, c, d}
  <2>1. /\ ClearCall(a, Strict) /\ ClearCall(b, Strict) /\ ClearCall(c, Strict)
        /\ a[3] = 0 /\ b[3] = 0 /\ c[3] = 0
    BY Apart, DoPlainly, Plainly DEF BoardCalls
  <2>2. Belongs(d, 2, m) /\ d[3] = 0
    <3>1. 2 # Unstaged
      BY StageNumbers
    <3>2. Belongs(Call("triggers", 0), 2, m)
      BY <3>1, OwnIs
    <3> QED
      BY <3>2, NoSkip DEF Do
  <2> HIDE DEF a, b, c, d
  <2>3. \A x \in S : Belongs(x, 2, m) /\ x[3] = 0
    BY <2>1, <2>2, StrictIs
  <2>4. <<a, b, c, d>> \in Seq(S)
    OBVIOUS
  <2> HIDE DEF S
  <2>5. Piece(<<a, b, c, d>>, 2, m)
    BY <2>3, <2>4, PieceOver
  <2> QED
    BY <2>5 DEF a, b, c, d
<1>23. Piece(set_level \o part1 \o part2 \o part3 \o part4 \o set_level \o part5 \o part6
        \o set_level \o part7 \o part8 \o part9, 2, m)
  BY <1>21, <1>22, PieceJoin
<1>24. Piece(set_level, 2, m)
  BY LevelNeat, NeatPiece
<1>25. Piece(set_level \o part1 \o part2 \o part3 \o part4 \o set_level \o part5 \o part6
        \o set_level \o part7 \o part8 \o part9 \o set_level, 2, m)
  BY <1>23, <1>24, PieceJoin
<1>26. Piece(part10, 2, m)
  <2>1. Neat(<<Call("step_on", TRUE)>>, Strict)
    <3>1. /\ ClearCall(Call("step_on", TRUE), Strict) /\ Call("step_on", TRUE)[3] = 0
      BY Apart, DoPlainly, Plainly, NotePlainly, NothingNeat, ReinitClear DEF BoardCalls
    <3> QED
      BY <3>1, Row1
  <2> QED
    BY <2>1, NeatPiece
<1>27. Piece(set_level \o part1 \o part2 \o part3 \o part4 \o set_level \o part5 \o part6
        \o set_level \o part7 \o part8 \o part9 \o set_level \o part10, 2, m)
  BY <1>25, <1>26, PieceJoin
<1>28. Piece(part11, 2, m)
  BY CollectNeat, NeatPiece
<1>29. Piece(set_level \o part1 \o part2 \o part3 \o part4 \o set_level \o part5 \o part6
        \o set_level \o part7 \o part8 \o part9 \o set_level \o part10 \o part11, 2, m)
  BY <1>27, <1>28, PieceJoin
<1>30. Piece(part12, 2, m)
  <2>1. Neat(<<Call("step_on", FALSE)>>, Strict)
    <3>1. /\ ClearCall(Call("step_on", FALSE), Strict) /\ Call("step_on", FALSE)[3] = 0
      BY Apart, DoPlainly, Plainly, NotePlainly, NothingNeat, ReinitClear DEF BoardCalls
    <3> QED
      BY <3>1, Row1
  <2> QED
    BY <2>1, NeatPiece
<1>31. Piece(set_level \o part1 \o part2 \o part3 \o part4 \o set_level \o part5 \o part6
        \o set_level \o part7 \o part8 \o part9 \o set_level \o part10 \o part11
        \o part12, 2, m)
  BY <1>29, <1>30, PieceJoin
<1> QED
  BY <1>31 DEF stage2

LEMMA Stage3Neat ==
  Neat(stage3, Strict)
<1> DEFINE part1 == <<Call("step_on", TRUE), Call("adc_ch0_irq", TRUE)>>
           part2 == window(FALSE, TRUE, TRUE, "level")
           part3 == <<Call("adc_ch0_irq", FALSE), Call("step_on", FALSE)>>
<1>1. Neat(set_level, Strict)
  BY LevelNeat
<1>2. Neat(part1, Strict)
  <2>1. /\ ClearCall(Call("step_on", TRUE), Strict) /\ Call("step_on", TRUE)[3] = 0
        /\ ClearCall(Call("adc_ch0_irq", TRUE), Strict) /\ Call("adc_ch0_irq", TRUE)[3] = 0
    BY Apart, Plainly DEF BoardCalls
  <2> QED
    BY <2>1, Row2
<1>3. Neat(set_level \o part1, Strict)
  BY <1>1, <1>2, NeatJoin
<1>4. Neat(part2, Strict)
  BY WindowNeat
<1>5. Neat(set_level \o part1 \o part2, Strict)
  BY <1>3, <1>4, NeatJoin
<1>6. Neat(part3, Strict)
  <2>1. /\ ClearCall(Call("adc_ch0_irq", FALSE), Strict) /\ Call("adc_ch0_irq", FALSE)[3] = 0
        /\ ClearCall(Call("step_on", FALSE), Strict) /\ Call("step_on", FALSE)[3] = 0
    BY Apart, Plainly DEF BoardCalls
  <2> QED
    BY <2>1, Row2
<1>7. Neat(set_level \o part1 \o part2 \o part3, Strict)
  BY <1>5, <1>6, NeatJoin
<1> QED
  BY <1>7 DEF stage3

LEMMA RatesCount == Cardinality(Rates) \in Nat /\ Rates = 1 .. Cardinality(Rates)
  BY LabAssumption, FS_CardinalityType

LEMMA Stage4Piece ==
  ASSUME NEW m PROVE Piece(stage4, 4, m)
<1>1. ASSUME NEW r \in Rates PROVE Belongs(Call("count", r), 4, m) /\ Call("count", r)[3] = 0
  <2>1. 4 # Unstaged
    BY StageNumbers
  <2>2. Belongs(Call("count", r), 4, m)
    BY <2>1, OwnIs
  <2> QED
    BY <2>2, NoSkip
<1>2. Piece([r \in Rates |-> Call("count", r)], 4, m)
  <2> DEFINE S == {Call("count", r) : r \in Rates}
             x == [r \in Rates |-> Call("count", r)]
  <2>1. \A c \in S : Belongs(c, 4, m) /\ c[3] = 0
    BY <1>1
  <2>2. x \in [1 .. Cardinality(Rates) -> S]
    BY RatesCount
  <2> HIDE DEF S, x
  <2>3. x \in Seq(S)
    BY <2>2, RatesCount, SeqDef
  <2>4. Piece(x, 4, m)
    BY <2>1, <2>3, PieceOver
  <2> QED
    BY <2>4 DEF x
<1>3. Piece(set_level, 4, m)
  BY LevelNeat, NeatPiece
<1> QED
  BY <1>2, <1>3, PieceJoin DEF stage4

LEMMA Stage5Piece ==
  ASSUME NEW m PROVE Piece(stage5, 5, m)
<1> DEFINE x == [r \in Rates |-> Call("grid", <<r, 5>>)]
           a == Call("clock_dac_select", "pll2")
           b == Call("grid", <<Eight, 0>>)
           c == Call("clock_dac_select", "pll1")
<1>1. Piece(x, 5, m)
  <2> DEFINE S == {Call("grid", <<r, 5>>) : r \in Rates}
  <2>1. \A d \in S : Belongs(d, 5, m) /\ d[3] = 0
    <3>1. ASSUME NEW r \in Rates
          PROVE  Belongs(Call("grid", <<r, 5>>), 5, m) /\ Call("grid", <<r, 5>>)[3] = 0
      <4> DEFINE q == <<r, 5>>
      <4>1. 5 # Unstaged /\ q[2] \notin {5, 6} \ {5}
        BY StageNumbers
      <4> HIDE DEF q
      <4>2. Belongs(Call("grid", q), 5, m) /\ Call("grid", q)[3] = 0
        BY <4>1, OwnIs, NoSkip
      <4> QED
        BY <4>2 DEF q
    <3> QED
      BY <3>1
  <2>2. x \in [1 .. Cardinality(Rates) -> S]
    BY RatesCount
  <2> HIDE DEF S, x
  <2>3. x \in Seq(S)
    BY <2>2, RatesCount, SeqDef
  <2> QED
    BY <2>1, <2>3, PieceOver
<1> HIDE DEF x
<1>2. Piece(<<a, b, c>>, 5, m)
  <2> DEFINE S == {a, b, c}
  <2>1. ClearCall(a, Strict) /\ ClearCall(c, Strict) /\ a[3] = 0 /\ c[3] = 0
    BY Apart, Plainly DEF BoardCalls
  <2>2. Belongs(b, 5, m) /\ b[3] = 0
    <3> DEFINE q == <<Eight, 0>>
    <3>1. 5 # Unstaged /\ q[2] \notin {5, 6} \ {5}
      BY StageNumbers
    <3> HIDE DEF q
    <3>2. Belongs(Call("grid", q), 5, m) /\ Call("grid", q)[3] = 0
      BY <3>1, OwnIs, NoSkip
    <3> QED
      BY <3>2 DEF q
  <2> HIDE DEF a, b, c
  <2>3. \A d \in S : Belongs(d, 5, m) /\ d[3] = 0
    BY <2>1, <2>2, StrictIs
  <2>4. <<a, b, c>> \in Seq(S)
    OBVIOUS
  <2> HIDE DEF S
  <2> QED
    BY <2>3, <2>4, PieceOver
<1>3. Piece(set_level, 5, m)
  BY LevelNeat, NeatPiece
<1>4. stage5 = (x \o <<a, b, c>>) \o set_level
  BY DEF stage5, x
<1> HIDE DEF a, b, c
<1>5. Piece(x \o <<a, b, c>>, 5, m)
  BY <1>1, <1>2, PieceJoin
<1>6. Piece((x \o <<a, b, c>>) \o set_level, 5, m)
  BY <1>3, <1>5, PieceJoin
<1> QED
  BY <1>4, <1>6

LEMMA Stage6Piece ==
  ASSUME NEW m PROVE Piece(stage6, 6, m)
<1> DEFINE x == [r \in Rates |-> Call("stream rate", <<r, 6>>)]
<1>1. Piece(x, 6, m)
  <2> DEFINE S == {Call("stream rate", <<r, 6>>) : r \in Rates}
  <2>1. \A d \in S : Belongs(d, 6, m) /\ d[3] = 0
    <3>1. ASSUME NEW r \in Rates
          PROVE  Belongs(Call("stream rate", <<r, 6>>), 6, m)
                  /\ Call("stream rate", <<r, 6>>)[3] = 0
      <4> DEFINE q == <<r, 6>>
      <4>1. 6 # Unstaged /\ q[2] \notin {5, 6} \ {6}
        BY StageNumbers
      <4> HIDE DEF q
      <4>2. Belongs(Call("stream rate", q), 6, m) /\ Call("stream rate", q)[3] = 0
        BY <4>1, OwnIs, NoSkip
      <4> QED
        BY <4>2 DEF q
    <3> QED
      BY <3>1
  <2>2. x \in [1 .. Cardinality(Rates) -> S]
    BY RatesCount
  <2> HIDE DEF S, x
  <2>3. x \in Seq(S)
    BY <2>2, RatesCount, SeqDef
  <2> QED
    BY <2>1, <2>3, PieceOver
<1>2. stage6 = (set_level \o <<Do("settle")>>) \o x
  BY DEF stage6
<1> HIDE DEF x
<1>3. Piece(set_level, 6, m)
  BY LevelNeat, NeatPiece
<1>4. Piece(<<Do("settle")>>, 6, m)
  <2>1. Neat(<<Do("settle")>>, Strict)
    BY Apart, DoPlainly, Row1 DEF CoreCalls
  <2> QED
    BY <2>1, NeatPiece
<1>5. Piece(set_level \o <<Do("settle")>>, 6, m)
  BY <1>3, <1>4, PieceJoin
<1>6. Piece((set_level \o <<Do("settle")>>) \o x, 6, m)
  BY <1>1, <1>5, PieceJoin
<1> QED
  BY <1>2, <1>6

LEMMA Stage7Neat == Neat(stage7, Strict)
<1> DEFINE a == (set_level \o start_check) \o start_check
           b == dac_start(2, "triangle", 2, <<>>)
           c == <<Do("two windows")>>
<1>1. Neat(a, Strict)
  BY LevelNeat, CheckNeat, NeatJoin
<1>2. Clear(b, Strict) /\ Reaches(b, 1)
  <2>1. 2 \in Nat /\ 1 \in Nat /\ 2 <= 1 + 1
    OBVIOUS
  <2> QED
    BY <2>1, DacStartReaches, NothingNeat
<1>3. Neat(c, Strict) /\ Len(c) = 1
  <2>1. Neat(c, Strict)
    BY Apart, DoPlainly, Row1 DEF TestCalls
  <2> QED
    BY <2>1
<1>4. stage7 = ((a \o b) \o c) \o set_level
  BY DEF stage7
<1> HIDE DEF a, b, c
<1>5. Neat(b \o c, Strict)
  <2>1. Clear(b \o c, Strict)
    BY <1>2, <1>3, ClearJoin DEF Neat
  <2>2. IsSequence(b) /\ IsSequence(c) /\ Tight(c) /\ 1 \in Nat /\ 1 <= Len(c)
    BY <1>2, <1>3 DEF Neat, Clear
  <2>3. Tight(b \o c)
    BY <1>2, <2>2, ReachJoin
  <2> QED
    BY <2>1, <2>3 DEF Neat
<1>6. (a \o b) \o c = a \o (b \o c)
  BY <1>1, <1>2, <1>3, Assoc DEF Neat, Clear
<1>7. Neat((a \o b) \o c, Strict)
  BY <1>1, <1>5, <1>6, NeatJoin
<1>8. Neat(((a \o b) \o c) \o set_level, Strict)
  BY <1>7, LevelNeat, NeatJoin
<1> QED
  BY <1>4, <1>8

LEMMA Stage8Neat ==
  Neat(stage8, Strict)
<1> DEFINE part1 == dac_start(2, "triangle", 1, <<>>)
           part2 == <<Do("settle"), Do("adc_deinit"), Call("clock_adc_gate", "off"),
                   Note("clock_adc_gate", "on", <<>>), reinit, Do("adc_set_mode_burst")>>
           part3 == capture_clkoff_probe(ByBurst("chain", "triangle"))
           part4 == b2b_window("row")
           part5 == b2b_window("chain")
           part6 == capture_set_pll("chain", <<>>)
           part7 == <<Call("adc_set_mode_single", "sccp1")>>
<1>1. Neat(test_clock, Strict)
  BY ClockTestNeat
<1>2. Neat(part1, Strict)
  BY DacStartNeat, NothingNeat
<1>3. Neat(test_clock \o part1, Strict)
  BY <1>1, <1>2, NeatJoin
<1>4. Neat(part2, Strict)
  <2>1. /\ ClearCall(Do("settle"), Strict) /\ Do("settle")[3] = 0
        /\ ClearCall(Do("adc_deinit"), Strict) /\ Do("adc_deinit")[3] = 0
        /\ ClearCall(Call("clock_adc_gate", "off"), Strict)
                /\ Call("clock_adc_gate", "off")[3] = 0
        /\ ClearCall(Note("clock_adc_gate", "on", <<>>), Strict)
                /\ Note("clock_adc_gate", "on", <<>>)[3] = 0
        /\ ClearCall(reinit, Strict) /\ reinit[3] = 0
        /\ ClearCall(Do("adc_set_mode_burst"), Strict) /\ Do("adc_set_mode_burst")[3] = 0
    BY Apart, DoPlainly, Plainly, NotePlainly, ReinitClear, NothingNeat
            DEF BoardCalls, CoreCalls
  <2> QED
    BY <2>1, Row6
<1>5. Neat(test_clock \o part1 \o part2, Strict)
  BY <1>3, <1>4, NeatJoin
<1>6. Neat(part3, Strict)
  BY ProbeNeat, ByBurstNeat
<1>7. Neat(test_clock \o part1 \o part2 \o part3, Strict)
  BY <1>5, <1>6, NeatJoin
<1>8. Neat(part4, Strict)
  BY PllWindowNeat
<1>9. Neat(test_clock \o part1 \o part2 \o part3 \o part4, Strict)
  BY <1>7, <1>8, NeatJoin
<1>10. Neat(part5, Strict)
  BY PllWindowNeat
<1>11. Neat(test_clock \o part1 \o part2 \o part3 \o part4 \o part5, Strict)
  BY <1>9, <1>10, NeatJoin
<1>12. Neat(part6, Strict)
  BY PllNeat, NothingNeat
<1>13. Neat(test_clock \o part1 \o part2 \o part3 \o part4 \o part5 \o part6, Strict)
  BY <1>11, <1>12, NeatJoin
<1>14. Neat(part7, Strict)
  <2>1. /\ ClearCall(Call("adc_set_mode_single", "sccp1"), Strict)
          /\ Call("adc_set_mode_single", "sccp1")[3] = 0
    BY Apart, Plainly DEF BoardCalls
  <2> QED
    BY <2>1, Row1
<1>15. Neat(test_clock \o part1 \o part2 \o part3 \o part4 \o part5 \o part6 \o part7, Strict)
  BY <1>13, <1>14, NeatJoin
<1>16. Neat(set_level, Strict)
  BY LevelNeat
<1>17. Neat(test_clock \o part1 \o part2 \o part3 \o part4 \o part5 \o part6 \o part7
        \o set_level, Strict)
  BY <1>15, <1>16, NeatJoin
<1> QED
  BY <1>17 DEF stage8

LEMMA Stage9Piece == Piece(stage9, 9, TRUE)
<1> DEFINE a == Do("best")
           b == Do("attempt")
           S == {a, b}
<1>1. Belongs(a, 9, TRUE) /\ a[3] = 0
  <2>1. 9 # Unstaged
    BY StageNumbers
  <2>2. Belongs(Call("best", 0), 9, TRUE)
    BY <2>1, OwnIs
  <2> QED
    BY <2>2, NoSkip DEF Do
<1>2. Belongs(b, 9, TRUE) /\ b[3] = 0
  <2>1. 9 # Unstaged
    BY StageNumbers
  <2>2. Belongs(Call("attempt", 0), 9, TRUE)
    BY <2>1, OwnIs
  <2> QED
    BY <2>2, NoSkip DEF Do
<1>3. stage9 = set_level \o <<a, b>>
  BY DEF stage9
<1> HIDE DEF a, b
<1>4. Piece(<<a, b>>, 9, TRUE)
  <2>1. \A d \in S : Belongs(d, 9, TRUE) /\ d[3] = 0
    BY <1>1, <1>2
  <2>2. <<a, b>> \in Seq(S)
    OBVIOUS
  <2> HIDE DEF S
  <2> QED
    BY <2>1, <2>2, PieceOver
<1>5. Piece(set_level, 9, TRUE)
  BY LevelNeat, NeatPiece
<1>6. Piece(set_level \o <<a, b>>, 9, TRUE)
  BY <1>4, <1>5, PieceJoin
<1> QED
  BY <1>3, <1>6

(* A stage, and whatever is left of it is read under the same flags.       *)
LEMMA StagePiece ==
  ASSUME NEW n \in 0 .. 9, NEW m \in BOOLEAN, n = 9 => m PROVE Piece(Stage(n), n, m)
<1>0. n \in {0, 1, 2, 3, 4, 5, 6, 7, 8, 9}
  OBVIOUS
<1>1. CASE n \in {0, 1, 3, 7, 8}
  <2>1. /\ n = 0 => Stage(n) = <<>>
        /\ n = 1 => Stage(n) = stage1
        /\ n = 3 => Stage(n) = stage3
        /\ n = 7 => Stage(n) = stage7
        /\ n = 8 => Stage(n) = stage8
    BY DEF Stage
  <2>2. Neat(Stage(n), Strict)
    BY <1>1, <2>1, NothingNeat, Stage1Neat, Stage3Neat, Stage7Neat, Stage8Neat
  <2> QED
    BY <2>2, NeatPiece
<1>2. CASE n \in {2, 4, 5, 6, 9}
  <2>1. /\ n = 2 => Stage(n) = stage2
        /\ n = 4 => Stage(n) = stage4
        /\ n = 5 => Stage(n) = stage5
        /\ n = 6 => Stage(n) = stage6
        /\ n = 9 => Stage(n) = stage9
    BY DEF Stage
  <2>2. n = 9 => m = TRUE
    OBVIOUS
  <2> QED
    BY <1>2, <2>1, <2>2, Stage2Piece, Stage4Piece, Stage5Piece, Stage6Piece, Stage9Piece
<1> QED
  BY <1>0, <1>1, <1>2

LEMMA PieceAny ==
  ASSUME NEW x, NEW s, NEW m, NEW n, s # 9, Piece(x, s, m) PROVE Piece(x, s, n)
  BY DEF Piece, Belongs, OwnCall
----------------------------------------------------------------------------
(* What the calls of the suite and of the core's commands are made of.     *)
LEMMA NeatClear ==
  ASSUME NEW N, N \subseteq Strict, ChainCalls \subseteq N, NEW x,
          Neat(x, N) PROVE Clear(x, ChainCalls)
  BY ClearLess DEF Neat

LEMMA StrictClear ==
  ASSUME NEW x, Neat(x, Strict) \/ Neat(x, Foreign)
          \/ Neat(x, ChainCalls) PROVE Clear(x, ChainCalls)
  BY NeatClear, NamesOf

LEMMA NothingClear == Clear(<<>>, ChainCalls)
  BY NothingNeat DEF Neat

(* A call on its own.                                                      *)
LEMMA OneClear == \A f, x : f \notin ChainCalls => Clear(<<Call(f, x)>>, ChainCalls)
  BY Plainly, Row1

LEMMA SelftestClear ==
  ASSUME NEW i, NEW p
  PROVE  Clear(<<Do("settle"), Call("adc_set_input", "internal"), Do("capture_start")>>
               \o Burst(Unsaid, Unsaid, "internal")
               \o <<Call("adc_set_input", i)>>
               \o (IF p THEN <<>> ELSE <<capture_stop>>), ChainCalls)
<1> DEFINE part1 == <<Do("settle"), Call("adc_set_input", "internal"), Do("capture_start")>>
           part2 == Burst(Unsaid, Unsaid, "internal")
           part3 == <<Call("adc_set_input", i)>>
           part4 == (IF p THEN <<>> ELSE <<capture_stop>>)
<1>1. Clear(part1, ChainCalls)
  <2>1. /\ ClearCall(Do("settle"), ChainCalls)
        /\ ClearCall(Call("adc_set_input", "internal"), ChainCalls)
        /\ ClearCall(Do("capture_start"), ChainCalls)
    BY Apart, DoPlainly, Plainly DEF BoardCalls, CoreCalls
  <2> QED
    BY <2>1, Row3
<1>2. Clear(part2, ChainCalls)
  BY BurstNeat, StrictClear
<1>3. Clear(part1 \o part2, ChainCalls)
  BY <1>1, <1>2, ClearJoin
<1>4. Clear(part3, ChainCalls)
  <2>1. /\ ClearCall(Call("adc_set_input", i), ChainCalls)
    BY Apart, Plainly DEF BoardCalls
  <2> QED
    BY <2>1, Row1
<1>5. Clear(part1 \o part2 \o part3, ChainCalls)
  BY <1>3, <1>4, ClearJoin
<1>6. Clear(part4, ChainCalls)
  BY Apart, NothingClear, OneClear DEF CoreCalls, capture_stop
<1>7. Clear(part1 \o part2 \o part3 \o part4, ChainCalls)
  BY <1>5, <1>6, ClearJoin
<1> QED
  BY <1>7

LEMMA DactestClear ==
  ASSUME NEW a, NEW i
  PROVE  Clear(<<Call("uref", TRUE), Call("adc_set_input", "uref"), Do("siggen_stop"),
          Call("dactest_run", a), Call("adc_set_input", i), Call("uref", FALSE)>>, ChainCalls)
<1>1. Clear(<<Call("uref", TRUE), Call("adc_set_input", "uref"), Do("siggen_stop"),
        Call("dactest_run", a), Call("adc_set_input", i), Call("uref", FALSE)>>, ChainCalls)
  <2>1. /\ ClearCall(Call("uref", TRUE), ChainCalls)
        /\ ClearCall(Call("adc_set_input", "uref"), ChainCalls)
        /\ ClearCall(Do("siggen_stop"), ChainCalls)
        /\ ClearCall(Call("dactest_run", a), ChainCalls)
        /\ ClearCall(Call("adc_set_input", i), ChainCalls)
        /\ ClearCall(Call("uref", FALSE), ChainCalls)
    BY Apart, DoPlainly, Plainly DEF BoardCalls, CoreCalls, SuiteCalls, ChainCalls
  <2> QED
    BY <2>1, Row6
<1> QED
  BY <1>1

LEMMA VariantNeat == ASSUME NEW v, NEW i PROVE Neat(VariantClaim(v, i), Strict)
  BY ClaimNeat DEF VariantClaim

LEMMA ShotClear ==
  ASSUME NEW c, Neat(c, Strict)
  PROVE  Clear(capture_oneshot(c), ChainCalls) /\ Clear(measure_rate(c), ChainCalls)
  BY OneShotNeat, RateNeat, StrictClear

LEMMA DacClear ==
  ASSUME NEW u, NEW how, NEW k \in Nat PROVE Clear(dac_start(u, how, k, <<>>), ChainCalls)
<1>1. Neat(<<>>, ChainCalls) /\ ChainCalls \subseteq Strict
  BY NothingNeat, NamesOf
<1> QED
  BY <1>1, DacStartReaches

LEMMA ReadBackClear ==
  ASSUME NEW p, NEW q, NEW u, NEW a
  PROVE  Clear((IF p THEN dac_start(u, "triangle", 1, <<>>) ELSE <<>>)
          \o capture_oneshot(IF q THEN Burst(Unsaid, Unsaid, "uref")
                  ELSE VariantClaim(a, "uref")), ChainCalls)
<1>1. Clear((IF p THEN dac_start(u, "triangle", 1, <<>>) ELSE <<>>), ChainCalls)
  BY DacClear, NothingClear
<1>2. Clear(capture_oneshot(IF q THEN Burst(Unsaid, Unsaid, "uref")
        ELSE VariantClaim(a, "uref")), ChainCalls)
  <2> DEFINE c == IF q THEN Burst(Unsaid, Unsaid, "uref") ELSE VariantClaim(a, "uref")
  <2>1. Neat(c, Strict)
    BY BurstNeat, VariantNeat
  <2> HIDE DEF c
  <2>2. Clear(capture_oneshot(c), ChainCalls)
    BY <2>1, ShotClear
  <2> QED
    BY <2>2 DEF c
<1>3. Clear((IF p THEN dac_start(u, "triangle", 1, <<>>) ELSE <<>>)
        \o capture_oneshot(IF q THEN Burst(Unsaid, Unsaid, "uref")
        ELSE VariantClaim(a, "uref")), ChainCalls)
  BY <1>1, <1>2, ClearJoin
<1> QED
  BY <1>3

LEMMA RowClear ==
  Clear(capture_oneshot(Own("row")) \o capture_oneshot(Own("row"))
          \o measure_rate(Own("row")) \o measure_rate(Own("row")), ChainCalls)
<1> DEFINE part1 == capture_oneshot(Own("row"))
           part2 == measure_rate(Own("row"))
<1>1. Clear(part1, ChainCalls)
  BY ShotClear, OwnNeat
<1>2. Clear(part1, ChainCalls)
  BY ShotClear, OwnNeat
<1>3. Clear(part1 \o part1, ChainCalls)
  BY <1>1, <1>2, ClearJoin
<1>4. Clear(part2, ChainCalls)
  BY ShotClear, OwnNeat
<1>5. Clear(part1 \o part1 \o part2, ChainCalls)
  BY <1>3, <1>4, ClearJoin
<1>6. Clear(part2, ChainCalls)
  BY ShotClear, OwnNeat
<1>7. Clear(part1 \o part1 \o part2 \o part2, ChainCalls)
  BY <1>5, <1>6, ClearJoin
<1> QED
  BY <1>7

LEMMA SkipClear ==
  ASSUME NEW f, f \notin ChainCalls, NEW x, NEW k \in Nat, NEW e, Neat(e, ChainCalls)
  PROVE  ClearCall(OrElse(f, x, k, e), ChainCalls)
  BY ClearMade

LEMMA ReinitLess ==
  ClearCall(reinit, ChainCalls) /\ Neat(<<reinit>>, ChainCalls)
  /\ Neat(<<Do("restart")>>, ChainCalls) /\ Neat(<<reinit, Do("restart")>>, ChainCalls)
<1>1. ClearCall(reinit, ChainCalls) /\ Neat(<<reinit>>, ChainCalls) /\ reinit[3] = 0
  BY ReinitClear, ClearLess, NamesOf
<1>2. ClearCall(Do("restart"), ChainCalls) /\ Do("restart")[3] = 0
  BY Apart, DoPlainly DEF CoreCalls
<1> QED
  BY <1>1, <1>2, Row1, Row2

LEMMA SweepRowClear == Clear(sweep_row, ChainCalls)
<1> DEFINE a == Do("settle")
           b == Do("adc_deinit")
           c == OrElse("clock_adc_set_pll", "row", 3, <<reinit, Do("restart")>>)
           d == OrElse("adc_reinit", 0, 2, <<Do("restart")>>)
           e == Do("restart")
           f == Do("row")
<1>1. ClearCall(a, ChainCalls) /\ ClearCall(b, ChainCalls) /\ ClearCall(e, ChainCalls)
  BY Apart, DoPlainly DEF BoardCalls, CoreCalls
<1>2. ClearCall(f, ChainCalls)
  BY DoPlainly DEF ChainCalls
<1>3. ClearCall(c, ChainCalls) /\ ClearCall(d, ChainCalls)
  <2>1. "clock_adc_set_pll" \notin ChainCalls /\ "adc_reinit" \notin ChainCalls
    BY Apart DEF BoardCalls
  <2> QED
    BY <2>1, ReinitLess, SkipClear
<1>4. sweep_row = <<a, b, c, d, e, f>>
  BY DEF sweep_row
<1> HIDE DEF a, b, c, d, e, f
<1> QED
  BY <1>1, <1>2, <1>3, <1>4, Row6

LEMMA SweepClear ==
  ASSUME NEW p
  PROVE  Clear(sweep_row \o sweep_row \o capture_set_pll("board", <<>>)
          \o (IF p THEN <<Do("capture_start")>> ELSE <<>>), ChainCalls)
<1> DEFINE part1 == capture_set_pll("board", <<>>)
           part2 == (IF p THEN <<Do("capture_start")>> ELSE <<>>)
<1>1. Clear(sweep_row, ChainCalls)
  BY SweepRowClear
<1>2. Clear(sweep_row, ChainCalls)
  BY SweepRowClear
<1>3. Clear(sweep_row \o sweep_row, ChainCalls)
  BY <1>1, <1>2, ClearJoin
<1>4. Clear(part1, ChainCalls)
  BY PllNeat, NothingNeat, StrictClear
<1>5. Clear(sweep_row \o sweep_row \o part1, ChainCalls)
  BY <1>3, <1>4, ClearJoin
<1>6. Clear(part2, ChainCalls)
  BY Apart, NothingClear, OneClear DEF CoreCalls, Do
<1>7. Clear(sweep_row \o sweep_row \o part1 \o part2, ChainCalls)
  BY <1>5, <1>6, ClearJoin
<1> QED
  BY <1>7

LEMMA BaseClear == ASSUME NEW v PROVE Clear(Base(v), ChainCalls)
<1> DEFINE a == Do("settle")
           b == Do("sccp1_stop")
           c == Call("var_known", FALSE)
           d == Do("adc_deinit")
           e == Note("clock_adc_set_div", "undivided", <<>>)
           f == Note("clock_adc_set_pll", "chain", <<>>)
<1>1. /\ ClearCall(a, ChainCalls) /\ ClearCall(b, ChainCalls) /\ ClearCall(c, ChainCalls)
      /\ ClearCall(d, ChainCalls) /\ ClearCall(e, ChainCalls) /\ ClearCall(f, ChainCalls)
  BY Apart, DoPlainly, Plainly, NotePlainly, NothingNeat DEF BoardCalls, CoreCalls, TestCalls
<1>2. Base(v) = <<a, b, c>> \o (IF v = "b2b" THEN <<>> ELSE <<d, e, f, reinit>>)
  BY DEF Base
<1> HIDE DEF a, b, c, d, e, f
<1>3. Clear(<<a, b, c>>, ChainCalls) /\ Clear(<<d, e, f, reinit>>, ChainCalls)
  BY <1>1, ReinitLess, Row3, Row4
<1>4. Clear(IF v = "b2b" THEN <<>> ELSE <<d, e, f, reinit>>, ChainCalls)
  BY <1>3, NothingClear
<1> QED
  BY <1>2, <1>3, <1>4, ClearJoin

LEMMA TimerClear ==
  ASSUME NEW v, NEW k \in Nat PROVE Clear(timer_variant(v, k), ChainCalls)
<1> DEFINE a(n) == OrElse("clock_trig_on", "on", n, <<>>)
           b(n) == OrElse("sccp1_start", 0, n, <<>>)
           c == Do("adc_set_mode_burst")
           d == Call("adc_set_trg2", "sccp1")
           e(t) == Call("adc_set_mode_single", t)
           n == IF v = "trg2" THEN k + 3 ELSE k + 2
           t == IF v = "old" THEN "sccp3" ELSE "sccp1"
           x == IF v \in {"g13", "trg2"} THEN <<a(n)>> ELSE <<>>
           y == IF v = "trg2" THEN <<b(k + 2), c, d>> ELSE <<b(k + 1), e(t)>>
<1>1. timer_variant(v, k) = x \o y
  BY DEF timer_variant
<1>2. n \in Nat /\ k + 1 \in Nat /\ k + 2 \in Nat
  OBVIOUS
<1> HIDE DEF n, t
<1>3. ClearCall(a(n), ChainCalls) /\ ClearCall(b(k + 1), ChainCalls)
        /\ ClearCall(b(k + 2), ChainCalls)
  <2>1. "clock_trig_on" \notin ChainCalls /\ "sccp1_start" \notin ChainCalls
    BY Apart DEF BoardCalls
  <2> QED
    BY <1>2, <2>1, NothingNeat, SkipClear
<1>4. ClearCall(c, ChainCalls) /\ ClearCall(d, ChainCalls) /\ ClearCall(e(t), ChainCalls)
  BY Apart, DoPlainly, Plainly DEF BoardCalls
<1> HIDE DEF a, b, c, d, e
<1>5. Clear(<<a(n)>>, ChainCalls) /\ Clear(<<b(k + 2), c, d>>, ChainCalls)
      /\ Clear(<<b(k + 1), e(t)>>, ChainCalls)
  BY <1>3, <1>4, Row1, Row2, Row3
<1>6. Clear(x, ChainCalls) /\ Clear(y, ChainCalls)
  BY <1>5, NothingClear
<1> HIDE DEF x, y
<1> QED
  BY <1>1, <1>6, ClearJoin

LEMMA MechanismClear ==
  ASSUME NEW v, NEW k \in Nat
  PROVE  Clear(Mechanism(v, k), ChainCalls)
<1> DEFINE a == Do("adc_deinit")
           b == OrElse("clock_adc_set_pll", "row", k + 2, <<reinit>>)
           c == OrElse("adc_reinit", 0, k + 1, <<>>)
           d == Do("adc_set_mode_burst")
           e == Do("adc_set_period")
           f == Call("adc_set_trg2", "rptcnt")
           g == Do("adc_set_mode_oversample")
           h == OrElse("clock_adc_set_div", "divided", k + 2, <<reinit>>)
<1>1. /\ ClearCall(a, ChainCalls) /\ ClearCall(d, ChainCalls) /\ ClearCall(e, ChainCalls)
      /\ ClearCall(f, ChainCalls) /\ ClearCall(g, ChainCalls)
  BY Apart, DoPlainly, Plainly DEF BoardCalls
<1>2. ClearCall(b, ChainCalls) /\ ClearCall(c, ChainCalls) /\ ClearCall(h, ChainCalls)
  <2>1. /\ "clock_adc_set_pll" \notin ChainCalls /\ "adc_reinit" \notin ChainCalls
        /\ "clock_adc_set_div" \notin ChainCalls
    BY Apart DEF BoardCalls
  <2>2. k + 2 \in Nat /\ k + 1 \in Nat
    OBVIOUS
  <2> QED
    BY <2>1, <2>2, ReinitLess, NothingNeat, SkipClear
<1>3. /\ v = "b2b" => Mechanism(v, k) = <<a, b, c, d>>
      /\ v \in Timer => Mechanism(v, k) = timer_variant(v, k)
      /\ v = "rptcnt" => Mechanism(v, k) = <<d, e, f>>
      /\ v = "over" => Mechanism(v, k) = <<g>>
      /\ v \notin {"b2b", "rptcnt", "over"} \cup Timer => Mechanism(v, k) = <<a, h, reinit, d>>
  BY DEF Mechanism, Timer
<1> HIDE DEF a, b, c, d, e, f, g, h
<1>4. /\ Clear(<<a, b, c, d>>, ChainCalls) /\ Clear(<<d, e, f>>, ChainCalls)
      /\ Clear(<<g>>, ChainCalls) /\ Clear(<<a, h, reinit, d>>, ChainCalls)
  BY <1>1, <1>2, ReinitLess, Row1, Row3, Row4
<1> QED
  BY <1>3, <1>4, TimerClear

LEMMA SelectClear ==
  ASSUME NEW v, NEW k \in Nat PROVE Clear(capture_select_variant(v, k), ChainCalls)
<1> DEFINE a == Base(v)
           b == Mechanism(v, k + 1)
           c == <<Call("var_known", TRUE)>>
<1>1. Clear(a, ChainCalls)
  BY BaseClear
<1>2. Clear(b, ChainCalls)
  <2>1. k + 1 \in Nat
    OBVIOUS
  <2> QED
    BY <2>1, MechanismClear
<1>3. Clear(c, ChainCalls)
  BY Apart, OneClear DEF TestCalls
<1>4. capture_select_variant(v, k) = (a \o b) \o c
  BY DEF capture_select_variant
<1> HIDE DEF a, b, c
<1>5. Clear(a \o b, ChainCalls)
  BY <1>1, <1>2, ClearJoin
<1> QED
  BY <1>3, <1>4, <1>5, ClearJoin

LEMMA PointClear ==
  ASSUME NEW v
  PROVE  Clear(capture_select_variant(v, 1) \o <<Call("shot", v)>>, ChainCalls)
<1>1. Clear(capture_select_variant(v, 1), ChainCalls)
  BY SelectClear
<1>2. Clear(<<Call("shot", v)>>, ChainCalls)
  <2>1. /\ ClearCall(Call("shot", v), ChainCalls)
    BY Apart, Plainly DEF SuiteCalls, ChainCalls
  <2> QED
    BY <2>1, Row1
<1>3. Clear(capture_select_variant(v, 1) \o <<Call("shot", v)>>, ChainCalls)
  BY <1>1, <1>2, ClearJoin
<1> QED
  BY <1>3

LEMMA VariantShotClear ==
  ASSUME NEW v
  PROVE  /\ Clear(capture_oneshot(VariantClaim(v, "own")), ChainCalls)
         /\ Clear(measure_rate(VariantClaim(v, "own")), ChainCalls)
  BY VariantNeat, ShotClear

LEMMA FlowClear ==
  ASSUME NEW v
  PROVE  Clear(Flow(v), ChainCalls)
<1>1. Clear(capture_select_variant(v, 1), ChainCalls)
  BY SelectClear
<1>2. Clear(<<Call("flow", v)>>, ChainCalls)
  <2>1. /\ ClearCall(Call("flow", v), ChainCalls)
    BY Apart, Plainly DEF SuiteCalls, ChainCalls
  <2> QED
    BY <2>1, Row1
<1>3. Clear(capture_select_variant(v, 1) \o <<Call("flow", v)>>, ChainCalls)
  BY <1>1, <1>2, ClearJoin
<1> QED
  BY <1>3 DEF Flow

LEMMA FlowsClear ==
  ASSUME NEW v
  PROVE  Clear(Flow(v) \o Flow(v), ChainCalls)
<1>1. Clear(Flow(v), ChainCalls)
  BY FlowClear
<1>2. Clear(Flow(v), ChainCalls)
  BY FlowClear
<1>3. Clear(Flow(v) \o Flow(v), ChainCalls)
  BY <1>1, <1>2, ClearJoin
<1> QED
  BY <1>3

LEMMA DataClear ==
  ASSUME NEW v
  PROVE  Clear(Data(v), ChainCalls)
<1>1. Clear(capture_select_variant(v, 2), ChainCalls)
  BY SelectClear
<1>2. Clear(<<Call("run_dactest", v), Call("run_dactest", v)>>, ChainCalls)
  <2>1. /\ ClearCall(Call("run_dactest", v), ChainCalls)
        /\ ClearCall(Call("run_dactest", v), ChainCalls)
    BY Apart, Plainly DEF SuiteCalls, ChainCalls
  <2> QED
    BY <2>1, Row2
<1>3. Clear(capture_select_variant(v, 2) \o <<Call("run_dactest", v), Call("run_dactest", v)>>,
        ChainCalls)
  BY <1>1, <1>2, ClearJoin
<1> QED
  BY <1>3 DEF Data

LEMMA TestDacClear ==
  ASSUME NEW p
  PROVE  Clear((IF p THEN dac_start(2, "triangle", 3, <<>>) \o <<Call("ask", 2)>> ELSE <<>>)
          \o <<Call("run_dactest", Unsaid)>>, ChainCalls)
<1>1. Clear((IF p THEN dac_start(2, "triangle", 3, <<>>) \o <<Call("ask", 2)>> ELSE <<>>),
        ChainCalls)
  <2>1. Clear(dac_start(2, "triangle", 3, <<>>), ChainCalls)
    BY DacClear
  <2>2. Clear(<<Call("ask", 2)>>, ChainCalls)
    BY Apart, OneClear DEF CoreCalls
  <2>3. Clear(dac_start(2, "triangle", 3, <<>>) \o <<Call("ask", 2)>>, ChainCalls)
    BY <2>1, <2>2, ClearJoin
  <2> QED
    BY <2>3, NothingClear
<1>2. Clear(<<Call("run_dactest", Unsaid)>>, ChainCalls)
  <2>1. /\ ClearCall(Call("run_dactest", Unsaid), ChainCalls)
    BY Apart, Plainly DEF SuiteCalls, ChainCalls
  <2> QED
    BY <2>1, Row1
<1>3. Clear((IF p THEN dac_start(2, "triangle", 3, <<>>) \o <<Call("ask", 2)>> ELSE <<>>)
        \o <<Call("run_dactest", Unsaid)>>, ChainCalls)
  BY <1>1, <1>2, ClearJoin
<1> QED
  BY <1>3

LEMMA RunStreamClear ==
  Clear(IF ok THEN set_level \o stream_for(FALSE) ELSE <<>>, ChainCalls)
<1>1. Neat(set_level \o stream_for(FALSE), Strict)
  BY LevelNeat, ForNeat, NeatJoin
<1>2. Clear(set_level \o stream_for(FALSE), ChainCalls)
  BY <1>1, StrictClear
<1> QED
  BY <1>2, NothingClear

LEMMA OnRouteClear ==
  ASSUME NEW core, NEW signal, NEW half, NEW r, NEW start, Neat(start, Strict)
  PROVE  Clear(acq_chain_setup(core, signal, half)
          \o <<Call("route_applied", r)>>
          \o (IF signal THEN dac_triangle_start(2, start) ELSE <<>>) \o start, ChainCalls)
<1> DEFINE part1 == acq_chain_setup(core, signal, half)
           part2 == <<Call("route_applied", r)>>
           part3 == (IF signal THEN dac_triangle_start(2, start) ELSE <<>>)
<1>1. Clear(part1, ChainCalls)
  BY SetupNeat, StrictClear
<1>2. Clear(part2, ChainCalls)
  <2>1. /\ ClearCall(Call("route_applied", r), ChainCalls)
    BY Apart, Plainly DEF CoreCalls
  <2> QED
    BY <2>1, Row1
<1>3. Clear(part1 \o part2, ChainCalls)
  BY <1>1, <1>2, ClearJoin
<1>4. Clear(part3, ChainCalls)
  <2>1. Neat(dac_triangle_start(2, start), Strict)
    BY DacStartNeat DEF dac_triangle_start
  <2> QED
    BY <2>1, StrictClear, NothingClear
<1>5. Clear(part1 \o part2 \o part3, ChainCalls)
  BY <1>3, <1>4, ClearJoin
<1>6. Clear(start, ChainCalls)
  BY StrictClear
<1>7. Clear(part1 \o part2 \o part3 \o start, ChainCalls)
  BY <1>5, <1>6, ClearJoin
<1> QED
  BY <1>7

LEMMA StartNeat ==
  Neat(capture_chain_start(Everything, acq_chain_restore \o <<Call("route", "none")>>)
       \o <<Call("stream", TRUE)>>, Strict)
<1> DEFINE e == acq_chain_restore \o <<Call("route", "none")>>
           s == capture_chain_start(Everything, e)
           t == <<Call("stream", TRUE)>>
<1>1. Neat(<<Call("route", "none")>>, Strict) /\ Neat(t, Strict)
  BY Apart, Plainly, Row1 DEF CoreCalls
<1>2. Neat(e, Strict)
  BY <1>1, RestoreNeat, NeatJoin
<1> HIDE DEF e, t
<1>3. Everything \in Nat /\ 0 \in Nat
  BY DEF Everything
<1>4. Clear(s, Strict) /\ Reaches(s, 0)
  BY <1>2, <1>3, ChainStartReaches
<1> HIDE DEF s
<1>5. Neat(s \o t, Strict)
  BY <1>1, <1>4, NeatJoin DEF Neat, Tight
<1> QED
  BY <1>5 DEF s, t, e

LEMMA SiggenClear ==
  ASSUME NEW u, NEW n
  PROVE  Clear(dac_level_start(u, <<>>) \o <<Call("unask", u)>>
          \o dma_tx_start(u, n, dac_off(u))
          \o <<Try("sccp2_start", 0, <<Do("sccp2_stop")>> \o dma_tx_stop \o dac_off(u)),
               Call("claim", u), Call("gen", u)>>, ChainCalls)
<1> DEFINE part1 == dac_level_start(u, <<>>)
           part2 == <<Call("unask", u)>>
           part3 == dma_tx_start(u, n, dac_off(u))
           part4 == <<Try("sccp2_start", 0, <<Do("sccp2_stop")>> \o dma_tx_stop \o dac_off(u)),
               Call("claim", u), Call("gen", u)>>
<1>1. Clear(part1, ChainCalls)
  BY DacStartNeat, NothingNeat, NamesOf, StrictClear DEF dac_level_start
<1>2. Clear(part2, ChainCalls)
  <2>1. /\ ClearCall(Call("unask", u), ChainCalls)
    BY Apart, Plainly DEF CoreCalls
  <2> QED
    BY <2>1, Row1
<1>3. Clear(part1 \o part2, ChainCalls)
  BY <1>1, <1>2, ClearJoin
<1>4. Clear(part3, ChainCalls)
  <2> DEFINE e == dac_off(u)
             a == Do("dma2_stop")
             b == Call("dma2_window", TableRange(n))
             c == Do("window_write")
             d == Try("dma2_enable", <<TableRange(n), u>>, e)
  <2>1. Neat(e, Strict)
    BY DacOffNeat
  <2> HIDE DEF e
  <2>2. /\ ClearCall(a, Strict) /\ ClearCall(b, Strict) /\ ClearCall(c, Strict)
        /\ ClearCall(d, Strict)
    BY <2>1, Apart, DoPlainly, Plainly, NotePlainly DEF BoardCalls
  <2>3. dma_tx_start(u, n, e) = <<a, b, c, d>>
    BY DEF dma_tx_start
  <2> HIDE DEF a, b, c, d
  <2>4. Clear(dma_tx_start(u, n, e), Strict)
    BY <2>2, <2>3, Row4
  <2>5. Clear(dma_tx_start(u, n, e), ChainCalls)
    BY <2>4, ClearLess, NamesOf
  <2> QED
    BY <2>5 DEF e
<1>5. Clear(part1 \o part2 \o part3, ChainCalls)
  BY <1>3, <1>4, ClearJoin
<1>6. Clear(part4, ChainCalls)
  <2> DEFINE e == (<<Do("sccp2_stop")>> \o dma_tx_stop) \o dac_off(u)
             a == Try("sccp2_start", 0, e)
             b == Call("claim", u)
             c == Call("gen", u)
  <2>1. Neat(e, Strict)
    <3>1. Neat(<<Do("sccp2_stop")>>, Strict)
      BY Apart, DoPlainly, Row1 DEF BoardCalls
    <3>2. Neat(<<Do("sccp2_stop")>> \o dma_tx_stop, Strict)
      BY <3>1, TxStopNeat, NeatJoin
    <3> QED
      BY <3>2, DacOffNeat, NeatJoin
  <2> HIDE DEF e
  <2>2. ClearCall(a, Strict) /\ ClearCall(b, Strict) /\ ClearCall(c, Strict)
    BY <2>1, Apart, Plainly, NotePlainly DEF BoardCalls, CoreCalls
  <2> HIDE DEF a, b, c
  <2>3. Clear(<<a, b, c>>, Strict)
    BY <2>2, Row3
  <2>4. Clear(<<a, b, c>>, ChainCalls)
    BY <2>3, ClearLess, NamesOf
  <2> QED
    BY <2>4 DEF a, b, c, e
<1>7. Clear(part1 \o part2 \o part3 \o part4, ChainCalls)
  BY <1>5, <1>6, ClearJoin
<1> QED
  BY <1>7
----------------------------------------------------------------------------
(* What is typed.                                                          *)
LEMMA ReleaseClear == ASSUME NEW u PROVE Clear(siggen_release_dac(u), ChainCalls)
  BY Apart, OneClear DEF siggen_release_dac, CoreCalls

LEMMA DownClear == Clear(<<Do("siggen_stop"), Do("stream_off")>>, ChainCalls)
  BY Apart, DoPlainly, Row2 DEF CoreCalls

LEMMA DacOnClear ==
  ASSUME NEW u
  PROVE  Clear(siggen_release_dac(u) \o dac_triangle_start(u, <<>>)
          \o <<Call("ask", u)>>, ChainCalls)
<1>1. Clear(siggen_release_dac(u), ChainCalls)
  BY ReleaseClear
<1>2. Clear(dac_triangle_start(u, <<>>), ChainCalls)
  BY DacStartNeat, NothingNeat, StrictClear, NamesOf DEF dac_triangle_start
<1>3. Clear(siggen_release_dac(u) \o dac_triangle_start(u, <<>>), ChainCalls)
  BY <1>1, <1>2, ClearJoin
<1>4. Clear(<<Call("ask", u)>>, ChainCalls)
  <2>1. /\ ClearCall(Call("ask", u), ChainCalls)
    BY Apart, Plainly DEF CoreCalls
  <2> QED
    BY <2>1, Row1
<1>5. Clear(siggen_release_dac(u) \o dac_triangle_start(u, <<>>)
        \o <<Call("ask", u)>>, ChainCalls)
  BY <1>3, <1>4, ClearJoin
<1> QED
  BY <1>5

LEMMA DacOffClear ==
  ASSUME NEW u
  PROVE  Clear(siggen_release_dac(u) \o dac_off(u) \o <<Call("unask", u)>>, ChainCalls)
<1>1. Clear(siggen_release_dac(u), ChainCalls)
  BY ReleaseClear
<1>2. Clear(dac_off(u), ChainCalls)
  BY DacOffNeat, StrictClear
<1>3. Clear(siggen_release_dac(u) \o dac_off(u), ChainCalls)
  BY <1>1, <1>2, ClearJoin
<1>4. Clear(<<Call("unask", u)>>, ChainCalls)
  <2>1. /\ ClearCall(Call("unask", u), ChainCalls)
    BY Apart, Plainly DEF CoreCalls
  <2> QED
    BY <2>1, Row1
<1>5. Clear(siggen_release_dac(u) \o dac_off(u) \o <<Call("unask", u)>>, ChainCalls)
  BY <1>3, <1>4, ClearJoin
<1> QED
  BY <1>5

LEMMA SiggenOnClear ==
  ASSUME NEW u, NEW n
  PROVE  Clear(<<Do("siggen_stop"), Call("siggen_start", <<u, n>>)>>, ChainCalls)
<1>1. Clear(<<Do("siggen_stop"), Call("siggen_start", <<u, n>>)>>, ChainCalls)
  <2>1. /\ ClearCall(Do("siggen_stop"), ChainCalls)
        /\ ClearCall(Call("siggen_start", <<u, n>>), ChainCalls)
    BY Apart, DoPlainly, Plainly DEF CoreCalls, SuiteCalls, ChainCalls
  <2> QED
    BY <2>1, Row2
<1> QED
  BY <1>1

LEMMA StreamOnClear ==
  ASSUME NEW r
  PROVE  Clear(<<Do("stream_off"), Call("stream_on_route", r)>>, ChainCalls)
<1>1. Clear(<<Do("stream_off"), Call("stream_on_route", r)>>, ChainCalls)
  <2>1. /\ ClearCall(Do("stream_off"), ChainCalls)
        /\ ClearCall(Call("stream_on_route", r), ChainCalls)
    BY Apart, DoPlainly, Plainly DEF CoreCalls, SuiteCalls, ChainCalls
  <2> QED
    BY <2>1, Row2
<1> QED
  BY <1>1

LEMMA BufClear ==
  ASSUME NEW h
  PROVE  Clear(<<Do("settle"), Call("half", h)>>, ChainCalls)
<1>1. Clear(<<Do("settle"), Call("half", h)>>, ChainCalls)
  <2>1. /\ ClearCall(Do("settle"), ChainCalls)
        /\ ClearCall(Call("half", h), ChainCalls)
    BY Apart, DoPlainly, Plainly DEF CoreCalls
  <2> QED
    BY <2>1, Row2
<1> QED
  BY <1>1

LEMMA ChainRunClear ==
  Clear(chain_run, ChainCalls)
<1> DEFINE part1 == <<Do("siggen_stop"), Do("stream_off")>>
           part2 == <<Do("run stream")>>
<1>1. Clear(part1, ChainCalls)
  BY DownClear
<1>2. Clear(chain_setup, ChainCalls)
  BY SetupNeat, StrictClear DEF chain_setup
<1>3. Clear(part1 \o chain_setup, ChainCalls)
  BY <1>1, <1>2, ClearJoin
<1>4. Clear(part2, ChainCalls)
  <2>1. /\ ClearCall(Do("run stream"), ChainCalls)
    BY Apart, DoPlainly DEF SuiteCalls, ChainCalls
  <2> QED
    BY <2>1, Row1
<1>5. Clear(part1 \o chain_setup \o part2, ChainCalls)
  BY <1>3, <1>4, ClearJoin
<1>6. Clear(acq_chain_restore, ChainCalls)
  BY RestoreNeat, StrictClear
<1>7. Clear(part1 \o chain_setup \o part2 \o acq_chain_restore, ChainCalls)
  BY <1>5, <1>6, ClearJoin
<1> QED
  BY <1>7 DEF chain_run

LEMMA CommandClear == ASSUME Command PROVE Clear(todo', ChainCalls)
<1>1. Clear(<<Do("siggen_stop")>>, ChainCalls) /\ Clear(<<Do("stream_off")>>, ChainCalls)
  BY Apart, OneClear DEF CoreCalls, Do
<1>2. CASE DacOn
  BY <1>2, DacOnClear DEF DacOn, Type, Begin
<1>3. CASE DacOff
  BY <1>3, DacOffClear DEF DacOff, Type, Begin
<1>4. CASE SiggenOn
  BY <1>4, SiggenOnClear DEF SiggenOn, Type, Begin
<1>5. CASE SiggenOff
  BY <1>1, <1>5 DEF SiggenOff, Type, Begin
<1>6. CASE StreamOn
  BY <1>6, StreamOnClear DEF StreamOn, Type, Begin
<1>7. CASE StreamOnInput
  BY <1>7, StreamOnClear DEF StreamOnInput, Type, Begin
<1>8. CASE StreamOff
  BY <1>1, <1>8 DEF StreamOff, Type, Begin
<1>9. CASE StreamGrab
  BY <1>1, <1>9 DEF StreamGrab, Type, Begin
<1>10. CASE Buf
  BY <1>10, BufClear DEF Buf, Type, Begin
<1> QED
  BY <1>2, <1>3, <1>4, <1>5, <1>6, <1>7, <1>8, <1>9, <1>10 DEF Command

LEMMA EachClear == ASSUME NEW f, f \notin ChainCalls PROVE Clear(Each(f), ChainCalls)
<1> DEFINE S == {Call(f, Variants[i]) : i \in DOMAIN Variants}
           s == Each(f)
           n == 8
<1>1. DOMAIN Variants = 1 .. n /\ n \in Nat
  BY DEF Variants
<1> HIDE DEF n
<1>2. s \in [1 .. n -> S]
  BY <1>1 DEF Each
<1>3. \A c \in S : ClearCall(c, ChainCalls)
  BY Plainly
<1> HIDE DEF S, s
<1>4. s \in Seq(S)
  BY <1>1, <1>2, SeqDef
<1>5. Clear(s, ChainCalls)
  BY <1>3, <1>4, ClearOver
<1> QED
  BY <1>5 DEF s


LEMMA MatrixClear ==
  Clear(cmd_matrix, ChainCalls)
<1> DEFINE part1 == Each("point")
           part2 == Each("flows")
           part3 == Each("datas")
           part4 == capture_select_variant("b2b", 0)
           part5 == capture_set_pll("board", <<>>)
           part6 == <<Do("back")>>
<1>1. Clear(part1, ChainCalls)
  BY EachClear DEF ChainCalls
<1>2. Clear(part2, ChainCalls)
  BY EachClear DEF ChainCalls
<1>3. Clear(part1 \o part2, ChainCalls)
  BY <1>1, <1>2, ClearJoin
<1>4. Clear(part3, ChainCalls)
  BY EachClear DEF ChainCalls
<1>5. Clear(part1 \o part2 \o part3, ChainCalls)
  BY <1>3, <1>4, ClearJoin
<1>6. Clear(part4, ChainCalls)
  BY SelectClear
<1>7. Clear(part1 \o part2 \o part3 \o part4, ChainCalls)
  BY <1>5, <1>6, ClearJoin
<1>8. Clear(part5, ChainCalls)
  BY PllNeat, NothingNeat, StrictClear
<1>9. Clear(part1 \o part2 \o part3 \o part4 \o part5, ChainCalls)
  BY <1>7, <1>8, ClearJoin
<1>10. Clear(part6, ChainCalls)
  <2>1. /\ ClearCall(Do("back"), ChainCalls)
    BY Apart, DoPlainly DEF TestCalls
  <2> QED
    BY <2>1, Row1
<1>11. Clear(part1 \o part2 \o part3 \o part4 \o part5 \o part6, ChainCalls)
  BY <1>9, <1>10, ClearJoin
<1> QED
  BY <1>11 DEF cmd_matrix

LEMMA ClockTestClear ==
  Clear(test_clock, ChainCalls)
<1>1. Clear(test_clock, ChainCalls)
  BY ClockTestNeat, StrictClear
<1> QED
  BY <1>1

LEMMA GateTestClear ==
  Clear(test_clkoff, ChainCalls)
<1>1. Clear(capture_clkoff_probe(Own(Unsaid)), ChainCalls)
  BY ProbeNeat, OwnNeat, StrictClear
<1> QED
  BY <1>1 DEF test_clkoff

LEMMA BurstTestClear ==
  Clear(test_bursts, ChainCalls)
<1>1. Clear(<<Call("point", "b2b"), Call("point", "b2b")>>, ChainCalls)
  <2>1. /\ ClearCall(Call("point", "b2b"), ChainCalls)
        /\ ClearCall(Call("point", "b2b"), ChainCalls)
    BY Apart, Plainly DEF SuiteCalls, ChainCalls
  <2> QED
    BY <2>1, Row2
<1> QED
  BY <1>1 DEF test_bursts

LEMMA AllClear ==
  Clear(test_all, ChainCalls)
<1> DEFINE part1 == capture_set_clkdiv("undivided")
           part2 == <<Do("selftest"), Do("self_ok")>>
           part3 == <<Do("sweep")>>
           part4 == <<Do("test_dac")>>
<1>1. Clear(part1, ChainCalls)
  BY DivNeat, StrictClear
<1>2. Clear(part2, ChainCalls)
  <2>1. /\ ClearCall(Do("selftest"), ChainCalls)
        /\ ClearCall(Do("self_ok"), ChainCalls)
    BY Apart, DoPlainly DEF TestCalls, SuiteCalls, ChainCalls
  <2> QED
    BY <2>1, Row2
<1>3. Clear(part1 \o part2, ChainCalls)
  BY <1>1, <1>2, ClearJoin
<1>4. Clear(test_clock, ChainCalls)
  BY ClockTestClear
<1>5. Clear(part1 \o part2 \o test_clock, ChainCalls)
  BY <1>3, <1>4, ClearJoin
<1>6. Clear(test_clkoff, ChainCalls)
  BY GateTestClear
<1>7. Clear(part1 \o part2 \o test_clock \o test_clkoff, ChainCalls)
  BY <1>5, <1>6, ClearJoin
<1>8. Clear(test_bursts, ChainCalls)
  BY BurstTestClear
<1>9. Clear(part1 \o part2 \o test_clock \o test_clkoff \o test_bursts, ChainCalls)
  BY <1>7, <1>8, ClearJoin
<1>10. Clear(part3, ChainCalls)
  <2>1. /\ ClearCall(Do("sweep"), ChainCalls)
    BY Apart, DoPlainly DEF SuiteCalls, ChainCalls
  <2> QED
    BY <2>1, Row1
<1>11. Clear(part1 \o part2 \o test_clock \o test_clkoff \o test_bursts \o part3, ChainCalls)
  BY <1>9, <1>10, ClearJoin
<1>12. Clear(cmd_matrix, ChainCalls)
  BY MatrixClear
<1>13. Clear(part1 \o part2 \o test_clock \o test_clkoff \o test_bursts \o part3
        \o cmd_matrix, ChainCalls)
  BY <1>11, <1>12, ClearJoin
<1>14. Clear(part4, ChainCalls)
  <2>1. /\ ClearCall(Do("test_dac"), ChainCalls)
    BY Apart, DoPlainly DEF SuiteCalls, ChainCalls
  <2> QED
    BY <2>1, Row1
<1>15. Clear(part1 \o part2 \o test_clock \o test_clkoff \o test_bursts \o part3 \o cmd_matrix
        \o part4, ChainCalls)
  BY <1>13, <1>14, ClearJoin
<1> QED
  BY <1>15 DEF test_all

LEMMA TestsClear == \A t \in Tests : Clear(<<Do("siggen_stop"), Do("stream_off")>>
  \o t, ChainCalls)
<1>1. /\ Clear(<<Do("sweep")>>, ChainCalls) /\ Clear(<<Do("selftest")>>, ChainCalls)
      /\ Clear(<<Do("test_dac")>>, ChainCalls)
  BY OneClear DEF ChainCalls, Do
<1>2. Clear(measure_rate(Own(Unsaid)), ChainCalls)
  BY ShotClear, OwnNeat
<1>3. \A t \in Tests : Clear(t, ChainCalls)
  BY <1>1, <1>2, ClockTestClear, GateTestClear, BurstTestClear, MatrixClear, AllClear DEF Tests
<1> QED
  BY <1>3, DownClear, ClearJoin

LEMMA BenchClear == \A t \in Bench : Clear(t, ChainCalls)
<1>1. Clear(<<Do("siggen_stop"), Do("sweep")>>, ChainCalls)
  BY DoPlainly, Row2 DEF ChainCalls
<1>2. /\ Clear(<<Do("capture_start")>>, ChainCalls) /\ Clear(<<capture_stop>>, ChainCalls)
      /\ Clear(<<Call("run_dactest", Unsaid)>>, ChainCalls)
              /\ Clear(<<Do("selftest")>>, ChainCalls)
  BY OneClear DEF ChainCalls, Do, capture_stop
<1>3. Clear(capture_oneshot(Own(Unsaid)), ChainCalls)
  BY ShotClear, OwnNeat
<1>4. /\ Clear(capture_set_clkdiv("divided"), ChainCalls)
      /\ Clear(capture_set_clkdiv("undivided"), ChainCalls)
  BY DivNeat, StrictClear
<1> QED
  BY <1>1, <1>2, <1>3, <1>4 DEF Bench

(* The plan of a chain test.                                               *)
LEMMA JoinsMade == \A s, t : Joins(s \o t, s, t)
  BY DEF Joins

LEMMA JoinsAssoc ==
  ASSUME NEW s, NEW t, NEW u, IsSequence(s), IsSequence(t), IsSequence(u),
         NEW a, NEW b, NEW c, Joins(a, s, t), Joins(b, a, u), Joins(c, t, u)
  PROVE  Joins(b, s, c) /\ IsSequence(a) /\ IsSequence(c)
<1>1. (s \o t) \o u = s \o (t \o u)
  BY Assoc
<1>2. IsSequence(s \o t) /\ IsSequence(t \o u)
  BY Joining
<1> QED
  BY <1>1, <1>2 DEF Joins

LEMMA OneIs == ASSUME NEW c PROVE IsSequence(<<c>>)
<1>1. <<c>> \in Seq({c})
  OBVIOUS
<1> QED
  BY <1>1 DEF IsSequence

LEMMA StagesAre ==
  ASSUME NEW k \in Int, NEW l \in Int
  PROVE  IsSequence([j \in 1 .. (l - k + 1) |-> Call("stage", k + j - 1)])
<1> DEFINE n == IF l - k + 1 < 0 THEN 0 ELSE l - k + 1
           s == [j \in 1 .. (l - k + 1) |-> Call("stage", k + j - 1)]
           S == {Call("stage", k + j - 1) : j \in Int}
<1>1. n \in Nat /\ 1 .. (l - k + 1) = 1 .. n
  OBVIOUS
<1> HIDE DEF n
<1>2. s \in [1 .. n -> S]
  BY <1>1
<1> HIDE DEF s, S
<1>3. s \in Seq(S)
  BY <1>1, <1>2, SeqDef
<1> QED
  BY <1>3 DEF IsSequence, s

LEMMA PlanTyped ==
  ASSUME NEW k \in Int, NEW l \in Int
  PROVE  Joins(chain_all(k, l), <<Do("siggen_stop"), Do("stream_off")>>, Plan(<<k, l>>))
<1> DEFINE p == <<Do("siggen_stop"), Do("stream_off")>>
           q == <<Call("begin", <<k, l>>)>>
           c == chain_setup
           d == [j \in 1 .. (l - k + 1) |-> Call("stage", k + j - 1)]
           e == <<Do("summary")>>
           f == acq_chain_restore
           pq == <<Do("siggen_stop"), Do("stream_off"), Call("begin", <<k, l>>)>>
<1>1. Joins(pq, p, q)
  BY DEF Joins
<1>2. chain_all(k, l) = (((pq \o c) \o d) \o e) \o f
  BY DEF chain_all
<1>3. Plan(<<k, l>>) = q \o (c \o ((d \o e) \o f))
  BY DEF Plan, Spine
<1>4. IsSequence(p) /\ IsSequence(q) /\ IsSequence(e)
  BY DownClear, OneIs DEF Clear
<1>5. IsSequence(c) /\ IsSequence(f)
  BY SetupNeat, RestoreNeat DEF Neat, Clear, chain_setup
<1>6. IsSequence(d)
  BY StagesAre
<1> HIDE DEF p, q, c, d, e, f, pq
<1> DEFINE pc == pq \o c
           pd == pc \o d
           pe == pd \o e
           pf == pe \o f
           de == d \o e
           df == de \o f
           cf == c \o df
           qf == q \o cf
<1>7. /\ Joins(pc, pq, c) /\ Joins(pd, pc, d) /\ Joins(pe, pd, e) /\ Joins(pf, pe, f)
      /\ Joins(de, d, e) /\ Joins(df, de, f) /\ Joins(cf, c, df) /\ Joins(qf, q, cf)
  BY JoinsMade
<1>8. chain_all(k, l) = pf /\ Plan(<<k, l>>) = qf
  BY <1>2, <1>3
<1> HIDE DEF pc, pd, pe, pf, de, df, cf, qf
<1>9. Joins(pf, p, qf)
  <2>1. IsSequence(pq)
    BY <1>1, <1>4, Joining DEF Joins
  <2>2. IsSequence(pc)
    BY <1>5, <1>7, <2>1, Joining DEF Joins
  <2>3. Joins(pe, pc, de) /\ IsSequence(de)
    BY <1>4, <1>6, <1>7, <2>2, JoinsAssoc
  <2>4. Joins(pf, pc, df)
    BY <1>5, <1>7, <2>2, <2>3, JoinsAssoc
  <2>5. IsSequence(df)
    BY <1>5, <1>7, <2>3, Joining DEF Joins
  <2>6. Joins(pf, pq, cf) /\ IsSequence(cf)
    BY <1>5, <1>7, <2>1, <2>4, <2>5, JoinsAssoc
  <2> QED
    BY <1>1, <1>4, <1>7, <2>6, JoinsAssoc
<1> QED
  BY <1>8, <1>9 DEF p

LEMMA DownPiece == ASSUME NEW s, NEW m PROVE Piece(<<Do("siggen_stop"), Do("stream_off")>>, s,
  m)
<1> DEFINE a == Do("siggen_stop")
           b == Do("stream_off")
<1>1. ClearCall(a, Strict) /\ ClearCall(b, Strict) /\ a[3] = 0 /\ b[3] = 0
  BY Apart, DoPlainly DEF CoreCalls
<1> HIDE DEF a, b
<1>2. Neat(<<a, b>>, Strict)
  BY <1>1, Row2
<1>3. Piece(<<a, b>>, s, m)
  BY <1>2, NeatPiece
<1> QED
  BY <1>3 DEF a, b

(* Whatever is typed is none of the chain test's business, or its plan.    *)
LEMMA LabTyped ==
  ASSUME LabCommand
  PROVE  /\ Clear(todo', ChainCalls) \/ Ahead'
         /\ UNCHANGED <<ran, passed, trigger_ok, g_best, span>>
<1>1. UNCHANGED <<ran, passed, trigger_ok, g_best, span>>
  BY DEF LabCommand, Chain, Test, BenchCommand, ChainRun, TypeLab, Type1, flags
<1>2. CASE Chain
  <2>1. PICK s \in Spans : todo' = chain_all(s[1], s[2])
    BY <1>2 DEF Chain, TypeLab, Type1, Type, Begin
  <2>2. s[1] \in Int /\ s[2] \in Int /\ s = <<s[1], s[2]>>
    BY LabAssumption
  <2> DEFINE x == <<Do("siggen_stop"), Do("stream_off")>>
  <2>3. Joins(chain_all(s[1], s[2]), x, Plan(<<s[1], s[2]>>))
    BY <2>2, PlanTyped
  <2>4. Piece(x, Unstaged, FALSE)
    BY DownPiece
  <2> HIDE DEF x
  <2>5. Joins(todo', x, Plan(s))
    BY <2>1, <2>2, <2>3
  <2>6. \E y : \E sp \in Spans : Piece(y, Unstaged, FALSE) /\ Joins(todo', y, Plan(sp))
    BY <2>4, <2>5
  <2>7. Ahead' <=> \E y : \E sp \in Spans : Piece(y, Unstaged, FALSE)
          /\ Joins(todo', y, Plan(sp))
    BY DEF Ahead
  <2> QED
    BY <1>1, <2>6, <2>7
<1>3. CASE Test
  <2>1. PICK t \in Tests : todo' = <<Do("siggen_stop"), Do("stream_off")>> \o t
    BY <1>3 DEF Test, TypeLab, Type1, Type, Begin
  <2>2. Clear(<<Do("siggen_stop"), Do("stream_off")>> \o t, ChainCalls)
    BY TestsClear
  <2> QED
    BY <1>1, <2>1, <2>2
<1>4. CASE BenchCommand
  <2>1. PICK t \in Bench : todo' = t
    BY <1>4 DEF BenchCommand, TypeLab, Type1, Type, Begin
  <2>2. Clear(t, ChainCalls)
    BY BenchClear
  <2> QED
    BY <1>1, <2>1, <2>2
<1>5. CASE ChainRun
  <2>1. todo' = chain_run
    BY <1>5 DEF ChainRun, TypeLab, Type1, Type, Begin
  <2>2. Clear(chain_run, ChainCalls)
    BY ChainRunClear
  <2> QED
    BY <1>1, <2>1, <2>2
<1>6. CASE Type1(StreamOn \/ (user = "bench" /\ DacOn))
  <2>1. StreamOn \/ DacOn
    BY <1>6 DEF Type1
  <2>2. Command
    BY <2>1 DEF Command
  <2>3. Clear(todo', ChainCalls)
    BY <2>2, CommandClear
  <2> QED
    BY <1>1, <2>3
<1> QED
  BY <1>1, <1>2, <1>3, <1>4, <1>5, <1>6 DEF LabCommand
----------------------------------------------------------------------------
(* The spine of the plan.                                                  *)
LEMMA Pushed ==
  ASSUME NEW c, NEW t, IsSequence(t), NEW u, Joins(u, <<c>>, t)
  PROVE  u # <<>> /\ Head(u) = c /\ Tail(u) = t /\ IsSequence(u)
<1> DEFINE x == <<c>>
<1>1. IsSequence(x) /\ x # <<>> /\ x[1] = c /\ Len(x) = 1
  BY OneIs
<1> HIDE DEF x
<1>2. u # <<>> /\ Head(u) = c /\ IsSequence(u) /\ Tail(u) = Past(u, 0)
  BY <1>1, AtFirst DEF x
<1> DEFINE k == 0
           r == SubSeq(x, 2 + k, Len(x))
<1>3. k \in Nat /\ 1 + k <= Len(x) /\ Len(x) - (1 + k) = 0
  BY <1>1
<1>4. Tail(u) = Past(u, k)
  BY <1>2
<1> HIDE DEF k
<1>5. Past(u, k) = SubSeq(x, 2 + k, Len(x)) \o t
  BY <1>1, <1>3, Behind DEF Past, Joins, x
<1>6. IsSequence(r) /\ Len(r) = 0
  BY <1>1, <1>3, Leftover
<1> HIDE DEF r
<1>7. r = <<>>
  BY <1>6, Joining
<1>8. Tail(u) = r \o t
  BY <1>4, <1>5 DEF r
<1> QED
  BY <1>2, <1>7, <1>8, Assoc

LEMMA StagesPushed ==
  ASSUME NEW k \in Int, NEW l \in Int, k <= l
  PROVE  Joins([j \in 1 .. (l - k + 1) |-> Call("stage", k + j - 1)], <<Call("stage", k)>>,
               [j \in 1 .. (l - (k + 1) + 1) |-> Call("stage", (k + 1) + j - 1)])
<1> DEFINE f(i) == Call("stage", i)
           s == [j \in 1 .. (l - k + 1) |-> f(k + j - 1)]
           t == [j \in 1 .. (l - (k + 1) + 1) |-> f((k + 1) + j - 1)]
           x == <<f(k)>>
           S == {f(i) : i \in Int}
           n == l - k + 1
<1>1. n \in Nat /\ n >= 1 /\ l - (k + 1) + 1 = n - 1 /\ n - 1 \in Nat
  OBVIOUS
<1>2. /\ s \in [1 .. n -> S] /\ t \in [1 .. n - 1 -> S]
      /\ \A j \in 1 .. n : s[j] = f(k + j - 1)
      /\ \A j \in 1 .. n - 1 : t[j] = f((k + 1) + j - 1)
  BY <1>1
<1>3. x \in Seq(S) /\ Len(x) = 1 /\ x[1] = f(k)
  OBVIOUS
<1> HIDE DEF f, s, t, x, S, n
<1>4. s \in Seq(S) /\ Len(s) = n /\ t \in Seq(S) /\ Len(t) = n - 1
  BY <1>1, <1>2, SeqDef
<1>5. /\ x \o t \in Seq(S) /\ Len(x \o t) = n /\ (x \o t)[1] = f(k)
      /\ \A j \in 1 .. n - 1 : (x \o t)[1 + j] = t[j]
  <2>1. IsSequence(x) /\ IsSequence(t) /\ x \o t \in Seq(S)
    BY <1>3, <1>4 DEF IsSequence
  <2>2. /\ Len(x \o t) = Len(x) + Len(t)
        /\ \A i \in 1 .. Len(x) : (x \o t)[i] = x[i]
        /\ \A i \in 1 .. Len(t) : (x \o t)[Len(x) + i] = t[i]
    BY <2>1, Joining
  <2> DEFINE xt == x \o t
  <2> HIDE DEF xt
  <2>3. /\ Len(xt) = Len(x) + Len(t)
        /\ \A i \in 1 .. Len(x) : xt[i] = x[i]
        /\ \A i \in 1 .. Len(t) : xt[Len(x) + i] = t[i]
    BY <2>2 DEF xt
  <2>4. Len(xt) = n /\ xt[1] = f(k) /\ \A j \in 1 .. n - 1 : xt[1 + j] = t[j]
    BY <1>1, <1>3, <1>4, <2>3
  <2> QED
    BY <2>1, <2>4 DEF xt
<1>6. ASSUME NEW j \in 1 .. n PROVE s[j] = (x \o t)[j]
  <2>1. CASE j = 1
    BY <1>1, <1>2, <1>5, <2>1
  <2>2. CASE j # 1
    <3>1. j - 1 \in 1 .. n - 1 /\ 1 + (j - 1) = j /\ (k + 1) + (j - 1) - 1 = k + j - 1
      BY <1>1, <2>2
    <3>2. (x \o t)[1 + (j - 1)] = t[j - 1] /\ t[j - 1] = f((k + 1) + (j - 1) - 1)
      BY <1>2, <1>5, <3>1
    <3> QED
      BY <1>2, <3>1, <3>2
  <2> QED
    BY <2>1, <2>2
<1>7. s = x \o t
  BY <1>4, <1>5, <1>6, SeqEqual
<1> QED
  BY <1>7 DEF Joins, s, t, x, f

LEMMA SpineIs ==
  ASSUME NEW k \in Int, NEW l \in Int
  PROVE  /\ IsSequence(Spine(k, l)) /\ Spine(k, l) # <<>>
         /\ k <= l => /\ Head(Spine(k, l)) = Call("stage", k)
                      /\ Tail(Spine(k, l)) = Spine(k + 1, l)
         /\ ~(k <= l) => /\ Head(Spine(k, l)) = Do("summary")
                         /\ Tail(Spine(k, l)) = acq_chain_restore
<1> DEFINE d(i) == [j \in 1 .. (l - i + 1) |-> Call("stage", i + j - 1)]
           e == <<Do("summary")>>
           f == acq_chain_restore
           de(i) == d(i) \o e
           g(i) == de(i) \o f
<1>1. \A i \in Int : IsSequence(d(i))
  BY StagesAre
<1>2. IsSequence(e) /\ IsSequence(f)
  BY OneIs, RestoreNeat DEF Neat, Clear
<1>3. \A i : Spine(i, l) = g(i)
  BY DEF Spine
<1>4. k + 1 \in Int
  OBVIOUS
<1>5. CASE k <= l
  <2> DEFINE x == <<Call("stage", k)>>
  <2>1. Joins(d(k), x, d(k + 1)) /\ IsSequence(x)
    BY <1>5, StagesPushed, OneIs
  <2> HIDE DEF d, e, f, x
  <2>2. Joins(de(k), d(k), e) /\ Joins(de(k + 1), d(k + 1), e)
    BY JoinsMade
  <2>3. IsSequence(d(k + 1)) /\ IsSequence(d(k))
    BY <1>1, <1>4
  <2> HIDE DEF de
  <2>4. Joins(de(k), x, de(k + 1)) /\ IsSequence(de(k + 1))
    BY <1>2, <2>1, <2>2, <2>3, JoinsAssoc
  <2>5. Joins(g(k), de(k), f) /\ Joins(g(k + 1), de(k + 1), f)
    BY JoinsMade
  <2> HIDE DEF g
  <2>6. Joins(g(k), x, g(k + 1)) /\ IsSequence(g(k + 1))
    BY <1>2, <2>1, <2>4, <2>5, JoinsAssoc
  <2>7. g(k) # <<>> /\ Head(g(k)) = Call("stage", k) /\ Tail(g(k)) = g(k + 1)
          /\ IsSequence(g(k))
    BY <2>6, Pushed DEF x
  <2> QED
    BY <1>3, <1>5, <2>7
<1>6. CASE ~(k <= l)
  <2>1. d(k) = <<>>
    <3>1. 1 .. (l - k + 1) = 1 .. 0
      BY <1>6
    <3>2. d(k) = [j \in 1 .. 0 |-> Call("stage", k + j - 1)]
      BY <3>1
    <3>3. IsSequence(d(k)) /\ Len(d(k)) = 0
      <4>1. IsSequence(d(k))
        BY <1>1
      <4>2. d(k) \in [1 .. 0 -> {1}]
        BY <3>2
      <4>3. 0 \in Nat
        OBVIOUS
      <4> HIDE DEF d
      <4>4. Len(d(k)) = 0
        BY <4>2, <4>3, SeqDef
      <4> QED
        BY <4>1, <4>4
    <3> HIDE DEF d
    <3> QED
      BY <3>3, Joining
  <2> HIDE DEF d, f
  <2>2. de(k) = e
    BY <1>2, <2>1, Assoc
  <2> HIDE DEF de, e
  <2>3. Joins(g(k), e, f)
    BY <2>2, JoinsMade
  <2> HIDE DEF g
  <2>4. g(k) # <<>> /\ Head(g(k)) = Do("summary") /\ Tail(g(k)) = f /\ IsSequence(g(k))
    BY <1>2, <2>3, Pushed DEF e
  <2> QED
    BY <1>3, <1>6, <2>4 DEF f
<1> QED
  BY <1>5, <1>6

LEMMA PlanIs ==
  ASSUME NEW sp \in Spans
  PROVE  /\ IsSequence(Plan(sp)) /\ Plan(sp) # <<>> /\ Head(Plan(sp)) = Call("begin", sp)
         /\ Joins(Tail(Plan(sp)), chain_setup, Spine(sp[1], sp[2]))
<1> DEFINE c == Call("begin", sp)
           t == chain_setup \o Spine(sp[1], sp[2])
<1>1. sp[1] \in Int /\ sp[2] \in Int
  BY LabAssumption
<1>2. IsSequence(Spine(sp[1], sp[2])) /\ IsSequence(chain_setup)
  BY <1>1, SpineIs, SetupNeat DEF Neat, Clear, chain_setup
<1>3. IsSequence(t) /\ Joins(t, chain_setup, Spine(sp[1], sp[2]))
  BY <1>2, Joining, JoinsMade
<1>4. Joins(Plan(sp), <<c>>, t)
  BY JoinsMade DEF Plan
<1> HIDE DEF t, c
<1>5. Plan(sp) # <<>> /\ Head(Plan(sp)) = c /\ Tail(Plan(sp)) = t /\ IsSequence(Plan(sp))
  BY <1>3, <1>4, Pushed
<1> QED
  BY <1>3, <1>5 DEF c
----------------------------------------------------------------------------
(* The calls that carry no verdict.                                        *)
Plain ==
  /\ todo # <<>> /\ Head(todo)[1] \notin ChainCalls /\ Moves /\ Untold
  /\ ok' = ok \/ Head(todo)[1] = "ok"

LEMMA PanicClear == Clear(<<Do("panic")>>, ChainCalls)
  BY Apart, OneClear DEF BoardCalls, Do

LEMMA DriverPlain ==
  ASSUME DriverCall, UNCHANGED soft, UNCHANGED labSoft PROVE Plain
<1>1. Untold /\ ok' = ok
  BY DEF Untold, labSoft, flags, soft
<1> DEFINE Board == todo # <<>> /\ Head(todo)[1] \in BoardCalls
<1>2. ASSUME clock_dac_select \/ dac_enable \/ dac_unit_off \/ dac_light_off
        \/ uref_set PROVE Board /\ (Done)
  BY <1>2 DEF clock_dac_select, dac_enable, dac_unit_off, dac_light_off, uref_set, BoardCalls,
          Now
<1>3. ASSUME window_write \/ dma_off_if_idle \/ dma0_stop \/ dma0_window
        \/ dma0_enable PROVE Board /\ (Done)
  BY <1>3 DEF window_write, dma_off_if_idle, dma0_stop, dma0_window, dma0_enable, BoardCalls,
          Now
<1>4. ASSUME dma2_stop \/ dma2_window \/ sccp1_stop \/ sccp1_count \/ sccp2_stop PROVE Board
        /\ (Done)
  BY <1>4 DEF dma2_stop, dma2_window, sccp1_stop, sccp1_count, sccp2_stop, BoardCalls, Now
<1>5. ASSUME adc_deinit \/ adc_set_input \/ adc_set_mode_burst \/ adc_set_mode_single
        \/ adc_set_irqsel PROVE Board /\ (Done)
  BY <1>5 DEF adc_deinit, adc_set_input, adc_set_mode_burst, adc_set_mode_single,
          adc_set_irqsel, Adc, BoardCalls, Now
<1>6. ASSUME adc_ch0_irq \/ step_on \/ adc_set_mode_oversample \/ adc_set_trg2
        \/ adc_set_period PROVE Board /\ (Done)
  BY <1>6 DEF adc_ch0_irq, step_on, adc_set_mode_oversample, adc_set_trg2, adc_set_period, Adc,
          BoardCalls, Now
<1>7. ASSUME clock_dac_on \/ dma2_enable \/ sccp1_start \/ sccp2_start
        \/ adc_reinit PROVE Board /\ (Done \/ Failed)
  BY <1>7 DEF clock_dac_on, dma2_enable, sccp1_start, sccp2_start, adc_reinit, BoardCalls, Now
<1>8. ASSUME clock_adc_set_pll \/ clock_adc_set_div \/ clock_trig_on
        \/ clock_adc_gate PROVE Board /\ (Done \/ Failed)
  BY <1>8 DEF clock_adc_set_pll, clock_adc_set_div, clock_trig_on, clock_adc_gate, Switch,
          BoardCalls, Now
<1>9. ASSUME adc_init PROVE Board /\ (Done \/ Leave(<<Do("panic")>>))
  BY <1>9 DEF adc_init, BoardCalls, Now
<1>10. ASSUME dma2_window_back PROVE Board /\ \E b : Neat(b, Strict) /\ Instead(b)
  <2>1. Neat(<<Do("window_write")>>, Strict)
    BY Apart, DoPlainly, Row1 DEF BoardCalls
  <2>2. Neat(IF dma.win0 # None THEN <<Do("window_write")>> ELSE <<>>, Strict)
    BY <2>1, NothingNeat
  <2>3. Instead(IF dma.win0 # None THEN <<Do("window_write")>> ELSE <<>>)
    BY <1>10 DEF dma2_window_back
  <2> QED
    BY <1>10, <2>2, <2>3 DEF dma2_window_back, BoardCalls, Now
<1>11. Board /\ Moves
  BY <1>2, <1>3, <1>4, <1>5, <1>6, <1>7, <1>8, <1>9, <1>10, PanicClear DEF DriverCall, Moves
<1> QED
  BY <1>1, <1>11, Apart DEF Plain

LEMMA CorePlain ==
  ASSUME SessionCall, UNCHANGED labSoft
  PROVE  /\ todo # <<>> /\ Head(todo)[1] \in CoreCalls \cup {"ok", "stream_on_route",
          "siggen_start"}
         /\ ok' = ok \/ Head(todo)[1] = "ok"
<1>1. ASSUME \E f \in {"armed", "chain", "run", "busy", "powered", "half"} : Cap(f)
      PROVE  todo # <<>> /\ Head(todo)[1] \in CoreCalls /\ ok' = ok
  BY <1>1 DEF Cap, CoreCalls, Now, soft
<1>2. ASSUME capture_settle \/ capture_init \/ core_down \/ capture_start \/ restart
      PROVE  todo # <<>> /\ Head(todo)[1] \in CoreCalls /\ ok' = ok
  BY <1>2 DEF capture_settle, capture_init, core_down, capture_start, restart, CoreCalls, Now,
          soft
<1>3. ASSUME set_route \/ set_stream \/ set_gen \/ set_claim \/ ask \/ unask
      PROVE  todo # <<>> /\ Head(todo)[1] \in CoreCalls /\ ok' = ok
  BY <1>3 DEF set_route, set_stream, set_gen, set_claim, ask, unask, Soft, CoreCalls, Now
<1>4. ASSUME set_ok PROVE todo # <<>> /\ Head(todo)[1] = "ok"
  BY <1>4 DEF set_ok, Soft, Now
<1>5. ASSUME restore_dac2 \/ route_applied \/ chain_stream_off \/ siggen_stop
      PROVE  todo # <<>> /\ Head(todo)[1] \in CoreCalls /\ ok' = ok
  BY <1>5 DEF restore_dac2, route_applied, chain_stream_off, siggen_stop, CoreCalls, Now, soft
<1>6. ASSUME stream_on_route \/ siggen_start
      PROVE  todo # <<>> /\ Head(todo)[1] \in {"stream_on_route", "siggen_start"} /\ ok' = ok
  BY <1>6 DEF stream_on_route, siggen_start, Now, soft
<1> QED
  BY <1>1, <1>2, <1>3, <1>4, <1>5, <1>6 DEF SessionCall

LEMMA CoreMoves == ASSUME SessionCall PROVE Moves
<1>1. CASE \E f \in {"armed", "chain", "run", "busy", "powered", "half"} : Cap(f)
  BY <1>1 DEF Cap, Moves
<1>2. CASE set_ok \/ set_route \/ set_stream \/ set_gen \/ set_claim \/ ask \/ unask
  BY <1>2 DEF set_ok, set_route, set_stream, set_gen, set_claim, ask, unask, Soft, Moves
<1>3. CASE capture_settle
  <2>1. PICK hangs \in {cap.busy, FALSE} :
          Instead((IF cap.chain THEN <<Do("sccp1_stop")>> ELSE <<>>)
               \o (IF hangs /\ cap.powered THEN <<Do("adc_deinit"), Do("adc_reinit")>>
                       ELSE <<>>)
               \o dma0_deinit \o <<Call("armed", FALSE)>>)
    BY <1>3 DEF capture_settle
  <2> DEFINE p == cap.chain
             q == hangs /\ cap.powered
             b == (IF p THEN <<Do("sccp1_stop")>> ELSE <<>>)
                  \o (IF q THEN <<Do("adc_deinit"), Do("adc_reinit")>> ELSE <<>>)
                  \o dma0_deinit \o <<Call("armed", FALSE)>>
  <2>2. Instead(b)
    BY <2>1
  <2> HIDE DEF p, q
  <2>3. Neat(b, Strict)
    BY SettleNeat
  <2> HIDE DEF b
  <2> QED
    BY <2>2, <2>3 DEF Moves
<1>4. CASE capture_init
  <2> DEFINE a == IF cap.chain THEN dma0_pp_init(cap.half) ELSE dma0_init(cap.half)
             b == a \o <<Call("armed", TRUE)>>
  <2>1. Instead(b)
    BY <1>4 DEF capture_init
  <2>2. Neat(a, Strict)
    BY ArmsNeat
  <2>3. Neat(<<Call("armed", TRUE)>>, Strict)
    BY Apart, Plainly, Row1 DEF CoreCalls
  <2> HIDE DEF a
  <2>4. Neat(b, Strict)
    BY <2>2, <2>3, NeatJoin
  <2> HIDE DEF b
  <2> QED
    BY <2>1, <2>4 DEF Moves
<1>5. CASE core_down
  <2> DEFINE b == <<IF cap.powered THEN Do("adc_deinit") ELSE Call("clock_adc_gate", "on")>>
  <2>1. Instead(b)
    BY <1>5 DEF core_down
  <2>2. Neat(<<Do("adc_deinit")>>, Strict) /\ Neat(<<Call("clock_adc_gate", "on")>>, Strict)
    BY Apart, DoPlainly, Plainly, Row1 DEF BoardCalls
  <2>3. Neat(b, Strict)
    BY <2>2
  <2> HIDE DEF b
  <2> QED
    BY <2>1, <2>3 DEF Moves
<1>6. CASE capture_start
  <2> DEFINE a == IF cap.armed THEN <<>> ELSE <<Do("capture_init")>>
             c == <<Call("run", TRUE), Call("busy", TRUE)>>
             b == a \o c
  <2>1. Instead(b)
    BY <1>6 DEF capture_start
  <2>2. Neat(<<Do("capture_init")>>, Strict)
    BY Apart, DoPlainly, Row1 DEF CoreCalls
  <2>3. Neat(a, Strict)
    BY <2>2, NothingNeat
  <2>4. Neat(c, Strict)
    BY Apart, Plainly, Row2 DEF CoreCalls
  <2> HIDE DEF a, c
  <2>5. Neat(b, Strict)
    BY <2>3, <2>4, NeatJoin
  <2> HIDE DEF b
  <2> QED
    BY <2>1, <2>5 DEF Moves
<1>7. CASE restart
  <2> DEFINE b == IF cap.was THEN <<Do("capture_start")>> ELSE <<>>
  <2>1. Instead(b)
    BY <1>7 DEF restart
  <2>2. Neat(<<Do("capture_start")>>, Strict)
    BY Apart, DoPlainly, Row1 DEF CoreCalls
  <2>3. Neat(b, Strict)
    BY <2>2, NothingNeat
  <2> HIDE DEF b
  <2> QED
    BY <2>1, <2>3 DEF Moves
<1>8. CASE restore_dac2
  <2> DEFINE b == IF gen # 2 THEN dac_off(2) ELSE <<>>
  <2>1. Instead(b)
    BY <1>8 DEF restore_dac2
  <2>2. Neat(b, Strict)
    BY DacOffNeat, NothingNeat
  <2> HIDE DEF b
  <2> QED
    BY <2>1, <2>2 DEF Moves
<1>9. CASE route_applied
  <2>1. Done \/ Leave(acq_chain_restore)
    BY <1>9 DEF route_applied
  <2>2. Clear(acq_chain_restore, ChainCalls)
    BY RestoreNeat, StrictClear
  <2> QED
    BY <2>1, <2>2 DEF Moves
<1>10. CASE chain_stream_off
  <2> DEFINE a == capture_chain_stop \o acq_chain_restore
                  \o <<Call("route", "none"), Call("stream", FALSE)>>
             b == IF stream THEN a ELSE <<>>
  <2>1. Instead(b)
    BY <1>10 DEF chain_stream_off
  <2>2. Neat(a, Strict)
    BY StreamOffNeat
  <2> HIDE DEF a
  <2>3. Neat(b, Strict)
    BY <2>2, NothingNeat
  <2> HIDE DEF b
  <2> QED
    BY <2>1, <2>3 DEF Moves
<1>11. CASE stream_on_route
  <2> DEFINE signal == Arg = "signal"
             core   == IF signal THEN "chain" ELSE "input"
             half   == cap.half
             r      == Arg
             start  == capture_chain_start(Everything, acq_chain_restore
                     \o <<Call("route", "none")>>)
                       \o <<Call("stream", TRUE)>>
             b == acq_chain_setup(core, signal, half)
                  \o <<Call("route_applied", r)>>
                  \o (IF signal THEN dac_triangle_start(2, start) ELSE <<>>) \o start
  <2>1. Leave(<<>>) \/ Instead(b)
    BY <1>11 DEF stream_on_route
  <2>2. Head(todo)[1] \in SuiteCalls
    BY <1>11 DEF stream_on_route, Now, SuiteCalls
  <2>3. Neat(start, Strict)
    BY StartNeat
  <2> HIDE DEF signal, core, half, r, start
  <2>4. Clear(b, ChainCalls)
    BY <2>3, OnRouteClear
  <2> HIDE DEF b
  <2> QED
    BY <2>1, <2>2, <2>4, NothingClear DEF Moves
<1>12. CASE siggen_stop
  <2> DEFINE u == gen
             a == <<Do("sccp2_stop")>> \o dma_tx_stop \o dac_off(u)
                  \o <<Call("claim", 0), Call("gen", 0)>>
             b == IF gen # 0 /\ Arg \in {0, gen} THEN a ELSE <<>>
  <2>1. Instead(b)
    BY <1>12 DEF siggen_stop
  <2>2. Neat(a, Strict)
    BY GenStopNeat
  <2> HIDE DEF a
  <2>3. Neat(b, Strict)
    BY <2>2, NothingNeat
  <2> HIDE DEF b
  <2> QED
    BY <2>1, <2>3 DEF Moves
<1>13. CASE siggen_start
  <2> DEFINE u == Arg[1]
             n == Arg[2]
             b == dac_level_start(u, <<>>) \o <<Call("unask", u)>>
                  \o dma_tx_start(u, n, dac_off(u))
                  \o <<Try("sccp2_start", 0, <<Do("sccp2_stop")>> \o dma_tx_stop \o dac_off(u)),
                       Call("claim", u), Call("gen", u)>>
  <2>1. Leave(<<>>) \/ Instead(b)
    BY <1>13 DEF siggen_start
  <2>2. Head(todo)[1] \in SuiteCalls
    BY <1>13 DEF siggen_start, Now, SuiteCalls
  <2> HIDE DEF u, n
  <2>3. Clear(b, ChainCalls)
    BY SiggenClear
  <2> HIDE DEF b
  <2> QED
    BY <2>1, <2>2, <2>3, NothingClear DEF Moves
<1> QED
  BY <1>1, <1>2, <1>3, <1>4, <1>5, <1>6, <1>7, <1>8, <1>9, <1>10, <1>11, <1>12, <1>13
          DEF SessionCall

LEMMA SessionPlain ==
  ASSUME SessionCall, UNCHANGED labSoft PROVE Plain
<1>1. Untold
  BY DEF Untold, labSoft, flags
<1>2. Head(todo)[1] \notin ChainCalls
  BY CorePlain, Apart DEF SuiteCalls
<1> QED
  BY <1>1, <1>2, CorePlain, CoreMoves DEF Plain
LEMMA ExpandPlain ==
  ASSUME NEW f, NEW b, Expand(f, b),
         (f \in SuiteCalls /\ Clear(b, ChainCalls)) \/ (f \in TestCalls /\ Neat(b, Strict))
  PROVE  Plain
<1>1. todo # <<>> /\ Head(todo)[1] = f /\ Instead(b) /\ Untold /\ ok' = ok
  BY DEF Expand, Now, keep, soft, labSoft, flags, Untold
<1>2. f \notin ChainCalls
  BY Apart
<1>3. Moves
  BY <1>1 DEF Moves
<1> QED
  BY <1>1, <1>2, <1>3 DEF Plain

PlainLab ==
  \/ measure \/ capture_selftest \/ set_clkdiv_cur \/ set_var_known
  \/ run_dactest \/ dactest_run \/ row \/ console_sweep \/ matrix_point \/ matrix_stream
  \/ matrix_shot \/ flows \/ datas \/ back \/ test_dac \/ self_ok
  \/ grid_window \/ two_windows \/ run_stream

LEMMA LabPlain == ASSUME PlainLab PROVE Plain
<1>1. CASE measure \/ set_clkdiv_cur \/ set_var_known \/ back \/ self_ok
  <2>1. todo # <<>> /\ Head(todo)[1] \in TestCalls /\ Untold /\ ok' = ok
    BY <1>1 DEF measure, set_clkdiv_cur, set_var_known, back, self_ok, Now, TestCalls, keep,
            soft,
                labSoft, flags, Untold
  <2>2. Done \/ Leave(<<>>)
    BY <1>1 DEF measure, set_clkdiv_cur, set_var_known, back, self_ok
  <2> QED
    BY <2>1, <2>2, Apart, NothingClear DEF Plain, Moves
<1>2. CASE capture_selftest
  <2> DEFINE i == adc.input
             p == cap.run
             b == <<Do("settle"), Call("adc_set_input", "internal"), Do("capture_start")>>
                  \o Burst(Unsaid, Unsaid, "internal")
                  \o <<Call("adc_set_input", i)>>
                  \o (IF p THEN <<>> ELSE <<capture_stop>>)
  <2>1. Now("selftest") /\ Instead(b) /\ keep /\ UNCHANGED labSoft
    BY <1>2 DEF capture_selftest
  <2> HIDE DEF i, p
  <2>2. Clear(b, ChainCalls)
    BY SelftestClear
  <2> HIDE DEF b
  <2>3. Expand("selftest", b) /\ "selftest" \in SuiteCalls
    BY <2>1 DEF Expand, SuiteCalls
  <2> QED
    BY <2>2, <2>3, ExpandPlain
<1>3. CASE run_dactest
  <2> DEFINE a == Arg
             i == adc.input
             b == <<Call("uref", TRUE)>>
             c == <<Call("uref", TRUE), Call("adc_set_input", "uref"), Do("siggen_stop"),
                    Call("dactest_run", a), Call("adc_set_input", i), Call("uref", FALSE)>>
  <2>1. Expand("run_dactest", b) \/ Expand("run_dactest", c)
    BY <1>3 DEF run_dactest
  <2>2. Clear(b, ChainCalls)
    BY Apart, OneClear DEF BoardCalls
  <2> HIDE DEF a, i
  <2>3. Clear(c, ChainCalls)
    BY DactestClear
  <2> HIDE DEF b, c
  <2>4. "run_dactest" \in SuiteCalls
    BY DEF SuiteCalls
  <2> QED
    BY <2>1, <2>2, <2>3, <2>4, ExpandPlain
<1>4. CASE dactest_run
  <2> DEFINE u == IF dac[2] # "off" THEN 2 ELSE 1
             p == var_known
             q == Arg = Unsaid
             a == Arg
             c == (IF p THEN dac_start(u, "triangle", 1, <<>>) ELSE <<>>)
                  \o capture_oneshot(IF q THEN Burst(Unsaid, Unsaid, "uref")
                                     ELSE VariantClaim(a, "uref"))
             b == IF AnyRunning THEN c ELSE <<>>
  <2>1. Expand("dactest_run", b)
    BY <1>4 DEF dactest_run
  <2> HIDE DEF u, p, q, a
  <2>2. Clear(c, ChainCalls)
    BY ReadBackClear
  <2> HIDE DEF c
  <2>3. Clear(b, ChainCalls)
    BY <2>2, NothingClear
  <2> HIDE DEF b
  <2>4. "dactest_run" \in SuiteCalls
    BY DEF SuiteCalls
  <2> QED
    BY <2>1, <2>3, <2>4, ExpandPlain
<1>5. CASE row
  <2>1. PICK b : Expand("row", b) /\ Clear(b, ChainCalls)
    BY <1>5, RowClear DEF row
  <2>2. "row" \in SuiteCalls
    BY DEF SuiteCalls
  <2> QED
    BY <2>1, <2>2, ExpandPlain
<1>6. CASE console_sweep
  <2> DEFINE p == cap.run
             b == sweep_row \o sweep_row \o capture_set_pll("board", <<>>)
                  \o (IF p THEN <<Do("capture_start")>> ELSE <<>>)
  <2>1. Expand("sweep", b)
    BY <1>6 DEF console_sweep
  <2> HIDE DEF p
  <2>2. Clear(b, ChainCalls)
    BY SweepClear
  <2> HIDE DEF b
  <2>3. "sweep" \in SuiteCalls
    BY DEF SuiteCalls
  <2> QED
    BY <2>1, <2>2, <2>3, ExpandPlain
<1>7. CASE matrix_point \/ matrix_shot \/ matrix_stream
  <2> DEFINE v == Arg
             a == capture_select_variant(v, 1) \o <<Call("shot", v)>>
             b == capture_oneshot(VariantClaim(v, "own"))
             c == measure_rate(VariantClaim(v, "own"))
  <2>1. Expand("point", a) \/ Expand("shot", b) \/ Expand("flow", c)
    BY <1>7 DEF matrix_point, matrix_shot, matrix_stream
  <2> HIDE DEF v
  <2>2. Clear(a, ChainCalls) /\ Clear(b, ChainCalls) /\ Clear(c, ChainCalls)
    BY PointClear, VariantShotClear
  <2> HIDE DEF a, b, c
  <2>3. {"point", "shot", "flow"} \subseteq SuiteCalls
    BY DEF SuiteCalls
  <2> QED
    BY <2>1, <2>2, <2>3, ExpandPlain
<1>8. CASE flows \/ datas
  <2> DEFINE v == Arg
             a == <<>>
             b == Flow(v) \o Flow(v)
             c == Data(v)
  <2>1. Expand("flows", a) \/ Expand("flows", b) \/ Expand("datas", a) \/ Expand("datas", c)
    BY <1>8 DEF flows, datas
  <2> HIDE DEF v
  <2>2. Clear(a, ChainCalls) /\ Clear(b, ChainCalls) /\ Clear(c, ChainCalls)
    BY NothingClear, FlowsClear, DataClear
  <2> HIDE DEF a, b, c
  <2>3. {"flows", "datas"} \subseteq SuiteCalls
    BY DEF SuiteCalls
  <2> QED
    BY <2>1, <2>2, <2>3, ExpandPlain
<1>9. CASE test_dac
  <2> DEFINE p == dac[2] = "off"
             b == (IF p THEN dac_start(2, "triangle", 3, <<>>) \o <<Call("ask", 2)>> ELSE <<>>)
                  \o <<Call("run_dactest", Unsaid)>>
  <2>1. Expand("test_dac", b)
    BY <1>9 DEF test_dac
  <2> HIDE DEF p
  <2>2. Clear(b, ChainCalls)
    BY TestDacClear
  <2> HIDE DEF b
  <2>3. "test_dac" \in SuiteCalls
    BY DEF SuiteCalls
  <2> QED
    BY <2>1, <2>2, <2>3, ExpandPlain
<1>10. CASE run_stream
  <2> DEFINE b == IF ok THEN set_level \o stream_for(FALSE) ELSE <<>>
  <2>1. Expand("run stream", b)
    BY <1>10 DEF run_stream
  <2>2. Clear(b, ChainCalls)
    BY RunStreamClear
  <2> HIDE DEF b
  <2>3. "run stream" \in SuiteCalls
    BY DEF SuiteCalls
  <2> QED
    BY <2>1, <2>2, <2>3, ExpandPlain
<1>11. CASE grid_window
  <2> DEFINE d == Arg
             b == window(d, FALSE, FALSE, "triangle")
  <2>1. Expand("grid window", b)
    BY <1>11 DEF grid_window
  <2> HIDE DEF d
  <2>2. Neat(b, Strict)
    BY WindowNeat
  <2> HIDE DEF b
  <2>3. "grid window" \in TestCalls
    BY DEF TestCalls
  <2> QED
    BY <2>1, <2>2, <2>3, ExpandPlain
<1>12. CASE two_windows
  <2> DEFINE b == window(FALSE, FALSE, FALSE, "triangle")
          \o window(FALSE, FALSE, FALSE, "triangle")
  <2>1. Expand("two windows", b)
    BY <1>12 DEF two_windows
  <2>2. Neat(b, Strict)
    BY TwoNeat
  <2> HIDE DEF b
  <2>3. "two windows" \in TestCalls
    BY DEF TestCalls
  <2> QED
    BY <2>1, <2>2, <2>3, ExpandPlain
<1> QED
  BY <1>1, <1>2, <1>3, <1>4, <1>5, <1>6, <1>7, <1>8, <1>9, <1>10, <1>11, <1>12 DEF PlainLab

----------------------------------------------------------------------------
(* They keep the invariant.                                                *)
LEMMA RestClear ==
  ASSUME NEW N, NEW s, Clear(s, N), NEW k \in Nat
  PROVE  Clear(SubSeq(s, 2 + k, Len(s)), N)
<1> DEFINE a == SubSeq(s, 2 + k, Len(s))
<1>1. PICK S : s \in Seq(S)
  BY DEF Clear, IsSequence
<1>2. Len(s) \in Nat
  BY <1>1
<1>3. 2 + k \in Int /\ Len(s) \in Int /\ \A i \in (2 + k) .. Len(s) : s[i] \in S
  BY <1>1, <1>2
<1>4. /\ a \in Seq(S)
      /\ Len(a) = IF 2 + k <= Len(s) THEN Len(s) - (2 + k) + 1 ELSE 0
      /\ \A i \in 1 .. Len(s) - (2 + k) + 1 : a[i] = s[(2 + k) + i - 1]
  BY <1>3, SubSeqProperties
<1> HIDE DEF a
<1>5. ASSUME NEW i \in 1 .. Len(a) PROVE ClearCall(a[i], N)
  <2>1. i \in 1 .. Len(s) - (2 + k) + 1 /\ (2 + k) + i - 1 \in 1 .. Len(s)
    BY <1>2, <1>4
  <2>2. a[i] = s[(2 + k) + i - 1]
    BY <1>4, <2>1
  <2> QED
    BY <2>1, <2>2 DEF Clear
<1> QED
  BY <1>4, <1>5 DEF Clear, IsSequence, a

LEMMA AsideMoved ==
  ASSUME Clear(todo, ChainCalls), todo # <<>>, Moves
  PROVE  Clear(todo', ChainCalls)
<1> DEFINE N == ChainCalls
           c == Head(todo)
<1>1. IsSequence(todo) /\ \A i \in 1 .. Len(todo) : ClearCall(todo[i], N)
  BY DEF Clear
<1>2. ClearCall(c, N) /\ Clear(Tail(todo), N)
  <2>1. PICK S : todo \in Seq(S)
    BY <1>1 DEF IsSequence
  <2>2. /\ Len(todo) \in Nat /\ Len(todo) # 0 /\ c = todo[1]
        /\ Tail(todo) \in Seq(S) /\ Len(Tail(todo)) = Len(todo) - 1
        /\ \A i \in 1 .. Len(Tail(todo)) : Tail(todo)[i] = todo[i + 1]
    BY <2>1
  <2>3. 1 \in 1 .. Len(todo)
    BY <2>2
  <2>4. ASSUME NEW i \in 1 .. Len(Tail(todo)) PROVE ClearCall(Tail(todo)[i], N)
    <3>1. i + 1 \in 1 .. Len(todo) /\ Tail(todo)[i] = todo[i + 1]
      BY <2>2
    <3> QED
      BY <1>1, <3>1
  <2> QED
    BY <1>1, <2>2, <2>3, <2>4 DEF Clear, IsSequence
<1>3. Clear(c[4], N) /\ c[3] \in Nat
  BY <1>2, ClearIs DEF Neat
<1> HIDE DEF N, c
<1>4. CASE Done
  BY <1>2, <1>4 DEF Done, Leave, N
<1>5. CASE Failed
  <2> DEFINE k == c[3]
             r == IF k = Everything THEN <<>> ELSE SubSeq(todo, 2 + k, Len(todo))
  <2>1. todo' = c[4] \o r
    BY <1>5 DEF Failed, c
  <2>2. k \in Nat
    BY <1>3
  <2> HIDE DEF k
  <2>3. Clear(SubSeq(todo, 2 + k, Len(todo)), N)
    BY <2>2, RestClear DEF N
  <2>4. Clear(r, N)
    BY <2>3, NothingClear DEF N
  <2> HIDE DEF r
  <2> QED
    BY <1>3, <2>1, <2>4, ClearJoin DEF N
<1>6. ASSUME NEW b, Clear(b, N), Instead(b) PROVE Clear(todo', N)
  <2>1. todo' = b \o Tail(todo)
    BY <1>6 DEF Instead, Leave
  <2> QED
    BY <1>2, <1>6, <2>1, ClearJoin
<1>7. CASE \E b : Clear(b, ChainCalls) /\ Leave(b)
  BY <1>7 DEF Leave
<1>8. \A b : Neat(b, Strict) => Clear(b, N)
  BY StrictClear DEF N
<1> QED
  BY <1>4, <1>5, <1>6, <1>7, <1>8 DEF Moves, N
Settled == ok /\ trigger_ok
InStage(s, x) ==
  /\ span \in Spans /\ s \in span[1] .. span[2] /\ Verdict(s)
  /\ Piece(x, s, Settled) /\ Joins(todo, x, Spine(s + 1, span[2]))
(* The program stands before stage k, or before the summary.               *)
AtSpine(k) ==
  /\ span \in Spans /\ todo = Spine(k, span[2])
  /\ \/ k = span[1] /\ g_best = 0 /\ ran = {}
     \/ k - 1 \in span[1] .. span[2] /\ Verdict(k - 1)

LEMMA SpanIs == ASSUME span \in Spans PROVE span[1] \in 0 .. 9 /\ span[2] \in 0 .. 9
  BY LabAssumption

LEMMA StagingIs == Staging <=> \E s, x : InStage(s, x)
  BY DEF Staging, InStage, Settled

LEMMA StagingNext == Staging' <=>
  /\ span' \in Spans
  /\ \E s \in span'[1] .. span'[2] :
       /\ Verdict(s)'
       /\ \E x : Piece(x, s, Settled') /\ Joins(todo', x, Spine(s + 1, span'[2]))
  BY DEF Staging, Settled

LEMMA EmptyJoin ==
  ASSUME NEW u, NEW y, IsSequence(y), Joins(u, <<>>, y) PROVE u = y
  BY Assoc DEF Joins

LEMMA PlainKept == ASSUME LabInv, Plain PROVE LabInv'
<1>1. /\ todo # <<>> /\ Head(todo)[1] \notin ChainCalls /\ Moves
      /\ UNCHANGED <<ran, passed, trigger_ok, g_best, span>>
      /\ ok' = ok \/ Head(todo)[1] = "ok"
  BY DEF Plain, Untold
<1>2. Aside' <=> Clear(todo', ChainCalls)
  BY DEF Aside
<1>3. CASE Aside
  <2>1. Aside'
    BY <1>1, <1>2, <1>3, AsideMoved DEF Aside
  <2> QED
    BY <2>1 DEF LabInv
<1>4. ASSUME NEW x, NEW y, NEW m, IsSequence(y), Piece(x, Unstaged, m), Joins(todo, x, y),
        x # <<>>
      PROVE  Clear(todo', ChainCalls) \/ \E z : Piece(z, Unstaged, m) /\ Joins(todo', z, y)
  <2>1. 1 \in 1 .. Len(x)
    BY <1>4, AtFirst DEF Piece
  <2>2. Belongs(x[1], Unstaged, m)
    BY <1>4, <2>1 DEF Piece
  <2>3. ClearCall(x[1], Names(Unstaged))
    BY <2>2 DEF Belongs, OwnCall
  <2> QED
    BY <1>1, <1>4, <2>3, Moved
<1>5. CASE Ahead
  <2>1. PICK x : \E sp \in Spans : Piece(x, Unstaged, FALSE) /\ Joins(todo, x, Plan(sp))
    BY <1>5 DEF Ahead
  <2>10. PICK sp \in Spans : Piece(x, Unstaged, FALSE) /\ Joins(todo, x, Plan(sp))
    BY <2>1
  <2>2. IsSequence(Plan(sp)) /\ Head(Plan(sp)) = Call("begin", sp)
    BY PlanIs
  <2>3. x # <<>>
    <3>1. ASSUME x = <<>> PROVE FALSE
      <4>1. todo = Plan(sp)
        BY <2>10, <2>2, <3>1, EmptyJoin
      <4>2. Head(todo)[1] = "begin"
        BY <2>2, <4>1, CallIs DEF Call
      <4> QED
        BY <1>1, <4>2 DEF ChainCalls
    <3> QED
      BY <3>1
  <2>4. Clear(todo', ChainCalls) \/ \E z : Piece(z, Unstaged, FALSE)
          /\ Joins(todo', z, Plan(sp))
    BY <1>4, <2>10, <2>2, <2>3
  <2>5. Ahead' <=> \E y : \E q \in Spans : Piece(y, Unstaged, FALSE) /\ Joins(todo', y, Plan(q))
    BY DEF Ahead
  <2> QED
    BY <1>2, <2>4, <2>5 DEF LabInv
<1>6. ASSUME NEW k \in Int, NEW l \in Int PROVE todo # Spine(k, l)
  <2>1. Head(Spine(k, l)) = Call("stage", k) \/ Head(Spine(k, l)) = Do("summary")
    BY SpineIs
  <2>2. Call("stage", k)[1] = "stage" /\ Do("summary")[1] = "summary"
    BY DEF Call, Do, OrElse
  <2> QED
    BY <1>1, <2>1, <2>2 DEF ChainCalls
<1>7. CASE Setting
  <2>1. PICK x : Piece(x, Unstaged, FALSE) /\ Joins(todo, x, Spine(span[1], span[2]))
    BY <1>7 DEF Setting
  <2>2. span \in Spans /\ span[1] \in Int /\ span[2] \in Int /\ g_best = 0 /\ ran = {}
    BY <1>7, SpanIs DEF Setting
  <2>3. IsSequence(Spine(span[1], span[2]))
    BY <2>2, SpineIs
  <2>4. x # <<>>
    BY <1>6, <2>1, <2>2, <2>3, EmptyJoin
  <2>5. \/ Clear(todo', ChainCalls)
        \/ \E z : Piece(z, Unstaged, FALSE) /\ Joins(todo', z, Spine(span[1], span[2]))
    BY <1>4, <2>1, <2>3, <2>4
  <2>6. Setting' <=> /\ span' \in Spans /\ g_best' = 0 /\ ran' = {}
                     /\ \E y : Piece(y, Unstaged, FALSE)
                             /\ Joins(todo', y, Spine(span'[1], span'[2]))
    BY DEF Setting
  <2> QED
    BY <1>1, <1>2, <2>2, <2>5, <2>6 DEF LabInv
<1>8. CASE Staging
  <2>1. PICK s, x : InStage(s, x)
    BY <1>8, StagingIs
  <2>2. /\ span \in Spans /\ s \in span[1] .. span[2] /\ Verdict(s)
        /\ Piece(x, s, Settled) /\ Joins(todo, x, Spine(s + 1, span[2]))
    BY <2>1 DEF InStage
  <2>3. span[1] \in 0 .. 9 /\ span[2] \in 0 .. 9
    BY <2>2, SpanIs
  <2>4. s \in 0 .. 9 /\ s + 1 \in Int /\ span[2] \in Int
    BY <2>2, <2>3
  <2>5. IsSequence(Spine(s + 1, span[2])) /\ s # Unstaged
    BY <2>4, SpineIs, StageNumbers
  <2>6. x # <<>>
    BY <1>6, <2>2, <2>4, <2>5, EmptyJoin
  <2>7. 1 \in 1 .. Len(x) /\ Head(todo) = x[1]
    BY <2>2, <2>5, <2>6, AtFirst DEF Piece
  <2>8. Belongs(x[1], s, Settled)
    BY <2>2, <2>7 DEF Piece
  <2>9. ClearCall(x[1], Names(s)) /\ Names(s) = Strict
    BY <1>1, <2>5, <2>7, <2>8 DEF Belongs, OwnCall, Names
  <2>10. x[1][1] # "ok"
    BY <2>9, ClearIs DEF Strict
  <2>11. ok' = ok /\ Settled' = Settled
    BY <1>1, <2>7, <2>10 DEF Settled
  <2>12. \/ Clear(todo', ChainCalls)
         \/ \E z : Piece(z, s, Settled) /\ Joins(todo', z, Spine(s + 1, span[2]))
    BY <1>1, <2>2, <2>5, <2>6, <2>9, Moved
  <2>13. Verdict(s)'
    BY <1>1, <2>2, <2>11 DEF Verdict, Chosen, StagesRun, AllPassed
  <2> QED
    BY <1>1, <1>2, <2>2, <2>11, <2>12, <2>13, StagingNext DEF LabInv
<1> QED
  BY <1>3, <1>5, <1>7, <1>8 DEF LabInv

----------------------------------------------------------------------------
(* Where a call that carries the verdict can come from.                    *)
LEMMA Whence ==
  ASSUME LabInv, todo # <<>>, Head(todo)[1] \in ChainCalls
  PROVE  \/ \E sp \in Spans : todo = Plan(sp) /\ Head(todo) = Call("begin", sp)
         \/ \E k \in Int : AtSpine(k)
         \/ \E s, x : InStage(s, x) /\ x # <<>> /\ OwnCall(Head(todo), s, Settled)
<1>1. ASSUME NEW x, NEW y, NEW s, NEW m, IsSequence(y), Piece(x, s, m), Joins(todo, x, y),
        x # <<>>
      PROVE  OwnCall(Head(todo), s, m)
  <2>1. 1 \in 1 .. Len(x) /\ Head(todo) = x[1]
    BY <1>1, AtFirst DEF Piece
  <2>2. Belongs(x[1], s, m)
    BY <1>1, <2>1 DEF Piece
  <2>3. ~ClearCall(x[1], Names(s))
    <3>1. x[1][1] \in Names(s)
      BY <2>1, NamesOf
    <3> QED
      BY <3>1, ClearIs
  <2> QED
    BY <2>1, <2>2, <2>3 DEF Belongs
<1>2. ~Aside
  <2>1. ASSUME Clear(todo, ChainCalls) PROVE FALSE
    <3>1. PICK S : todo \in Seq(S)
      BY <2>1 DEF Clear, IsSequence
    <3>2. 1 \in 1 .. Len(todo) /\ Head(todo) = todo[1]
      BY <3>1
    <3>3. ClearCall(Head(todo), ChainCalls)
      BY <2>1, <3>2 DEF Clear
    <3> QED
      BY <3>3, ClearIs
  <2> QED
    BY <2>1 DEF Aside
<1>3. CASE Ahead
  <2>1. PICK x : \E sp \in Spans : Piece(x, Unstaged, FALSE) /\ Joins(todo, x, Plan(sp))
    BY <1>3 DEF Ahead
  <2>10. PICK sp \in Spans : Piece(x, Unstaged, FALSE) /\ Joins(todo, x, Plan(sp))
    BY <2>1
  <2>2. IsSequence(Plan(sp)) /\ Head(Plan(sp)) = Call("begin", sp)
    BY PlanIs
  <2>3. x = <<>>
    BY <1>1, <2>10, <2>2 DEF OwnCall
  <2>4. todo = Plan(sp)
    BY <2>10, <2>2, <2>3, EmptyJoin
  <2> QED
    BY <2>2, <2>4
<1>4. CASE Setting
  <2>1. PICK x : Piece(x, Unstaged, FALSE) /\ Joins(todo, x, Spine(span[1], span[2]))
    BY <1>4 DEF Setting
  <2>2. span \in Spans /\ span[1] \in Int /\ span[2] \in Int /\ g_best = 0 /\ ran = {}
    BY <1>4, SpanIs DEF Setting
  <2>3. IsSequence(Spine(span[1], span[2]))
    BY <2>2, SpineIs
  <2>4. x = <<>>
    BY <1>1, <2>1, <2>3 DEF OwnCall
  <2>5. todo = Spine(span[1], span[2])
    BY <2>1, <2>3, <2>4, EmptyJoin
  <2>6. AtSpine(span[1])
    BY <2>2, <2>5 DEF AtSpine
  <2> QED
    BY <2>2, <2>6
<1>5. CASE Staging
  <2>1. PICK s, x : InStage(s, x)
    BY <1>5, StagingIs
  <2>2. /\ span \in Spans /\ s \in span[1] .. span[2] /\ Verdict(s)
        /\ Piece(x, s, Settled) /\ Joins(todo, x, Spine(s + 1, span[2]))
    BY <2>1 DEF InStage
  <2>3. span[1] \in 0 .. 9 /\ span[2] \in 0 .. 9
    BY <2>2, SpanIs
  <2>4. s \in Int /\ s + 1 \in Int /\ span[2] \in Int /\ (s + 1) - 1 = s
    BY <2>2, <2>3
  <2>5. IsSequence(Spine(s + 1, span[2]))
    BY <2>4, SpineIs
  <2>6. CASE x # <<>>
    <3>1. OwnCall(Head(todo), s, Settled)
      BY <1>1, <2>2, <2>5, <2>6
    <3> QED
      BY <2>1, <2>6, <3>1
  <2>7. CASE x = <<>>
    <3>1. todo = Spine(s + 1, span[2])
      BY <2>2, <2>5, <2>7, EmptyJoin
    <3>2. AtSpine(s + 1)
      BY <2>2, <2>4, <3>1 DEF AtSpine
    <3> QED
      BY <2>4, <3>2
  <2> QED
    BY <2>6, <2>7
<1> QED
  BY <1>2, <1>3, <1>4, <1>5 DEF LabInv
----------------------------------------------------------------------------
(* Three places a chain call stands at: the plan's first call, the spine,  *)
(* a stage.                                                                *)
LEMMA FromStage ==
  ASSUME LabInv, todo # <<>>, Head(todo)[1] \in ChainCalls \ {"begin", "stage", "summary"}
  PROVE  \E s, x : InStage(s, x) /\ x # <<>> /\ OwnCall(Head(todo), s, Settled)
<1>1. CASE \E sp \in Spans : todo = Plan(sp) /\ Head(todo) = Call("begin", sp)
  <2>1. Head(todo)[1] = "begin"
    BY <1>1, CallIs DEF Call
  <2> QED
    BY <2>1
<1>2. CASE \E k \in Int : AtSpine(k)
  <2>1. PICK k \in Int : AtSpine(k)
    BY <1>2
  <2>2. span[2] \in Int /\ todo = Spine(k, span[2])
    BY <2>1, SpanIs DEF AtSpine
  <2>3. Head(todo) = Call("stage", k) \/ Head(todo) = Do("summary")
    BY <2>2, SpineIs
  <2>4. Call("stage", k)[1] = "stage" /\ Do("summary")[1] = "summary"
    BY CallIs DEF Call, Do
  <2> QED
    BY <2>3, <2>4
<1> QED
  BY <1>1, <1>2, Whence

LEMMA FromSpine ==
  ASSUME LabInv, todo # <<>>, Head(todo)[1] \in {"stage", "summary"}
  PROVE  \E k \in Int : AtSpine(k)
<1>1. Head(todo)[1] \in ChainCalls
  BY DEF ChainCalls
<1>2. CASE \E sp \in Spans : todo = Plan(sp) /\ Head(todo) = Call("begin", sp)
  <2>1. Head(todo)[1] = "begin"
    BY <1>2, CallIs DEF Call
  <2> QED
    BY <2>1
<1>3. CASE \E s, x : InStage(s, x) /\ x # <<>> /\ OwnCall(Head(todo), s, Settled)
  <2>1. Head(todo)[1] \notin {"begin", "stage", "summary"}
    BY <1>3 DEF OwnCall
  <2> QED
    BY <2>1
<1> QED
  BY <1>1, <1>2, <1>3, Whence

LEMMA FromPlan ==
  ASSUME LabInv, todo # <<>>, Head(todo)[1] = "begin"
  PROVE  Head(todo)[2] \in Spans /\ todo = Plan(Head(todo)[2])
<1>1. Head(todo)[1] \in ChainCalls
  BY DEF ChainCalls
<1>2. CASE \E sp \in Spans : todo = Plan(sp) /\ Head(todo) = Call("begin", sp)
  BY <1>2, CallIs DEF Call
<1>3. CASE \E k \in Int : AtSpine(k)
  <2>1. PICK k \in Int : AtSpine(k)
    BY <1>3
  <2>2. span[2] \in Int /\ todo = Spine(k, span[2])
    BY <2>1, SpanIs DEF AtSpine
  <2>3. Head(todo) = Call("stage", k) \/ Head(todo) = Do("summary")
    BY <2>2, SpineIs
  <2>4. Call("stage", k)[1] = "stage" /\ Do("summary")[1] = "summary"
    BY CallIs DEF Call, Do
  <2> QED
    BY <2>3, <2>4
<1>4. CASE \E s, x : InStage(s, x) /\ x # <<>> /\ OwnCall(Head(todo), s, Settled)
  <2>1. Head(todo)[1] \notin {"begin", "stage", "summary"}
    BY <1>4 DEF OwnCall
  <2> QED
    BY <2>1
<1> QED
  BY <1>1, <1>2, <1>3, <1>4, Whence

(* A call of a stage is replaced by more of that stage.                    *)
LEMMA Onward ==
  ASSUME NEW s, NEW x, InStage(s, x), x # <<>>, NEW b, Piece(b, s, Settled'),
         todo' = b \o Tail(todo), s # 9 \/ Settled' = Settled, span' = span, Verdict(s)'
  PROVE  LabInv'
<1> DEFINE y == Spine(s + 1, span[2])
           m == Settled
           n == Settled'
           v == todo'
<1>1. /\ span \in Spans /\ s \in span[1] .. span[2]
      /\ Piece(x, s, m) /\ Joins(todo, x, y)
  BY DEF InStage
<1>2. IsSequence(y)
  <2>1. span[1] \in 0 .. 9 /\ span[2] \in 0 .. 9
    BY <1>1, SpanIs
  <2>2. s + 1 \in Int /\ span[2] \in Int
    BY <1>1, <2>1
  <2> QED
    BY <2>2, SpineIs
<1>3. n = m \/ s # 9
  OBVIOUS
<1>4. Piece(b, s, n)
  OBVIOUS
<1>5. v = b \o Tail(todo)
  OBVIOUS
<1> HIDE DEF y, m, n, v
<1>6. Piece(x, s, n)
  BY <1>1, <1>3, PieceAny
<1>7. 0 \in Nat /\ 1 + 0 <= Len(x) /\ Tail(todo) = Past(todo, 0)
  BY <1>1, <1>2, AtFirst DEF Piece
<1>8. Joins(v, b, Past(todo, 0))
  BY <1>5, <1>7 DEF Joins
<1>9. \E z : Piece(z, s, n) /\ Joins(v, z, y)
  BY <1>1, <1>2, <1>4, <1>6, <1>7, <1>8, PieceMoved
<1>10. Staging'
  BY <1>1, <1>9, StagingNext DEF y, n, v
<1> QED
  BY <1>10 DEF LabInv

(* The same for a call that only gives way, and for one that is done.      *)
LEMMA Replaced ==
  ASSUME NEW s, NEW x, InStage(s, x), x # <<>>, NEW b, Piece(b, s, Settled), Instead(b),
         UNCHANGED <<ok, trigger_ok, span, ran, g_best>>, passed' = passed \/ g_best = 0
  PROVE  LabInv'
<1>1. Settled' = Settled
  BY DEF Settled
<1>2. Verdict(s)
  BY DEF InStage
<1>3. Verdict(s)'
  BY <1>2 DEF Verdict, Chosen, StagesRun, AllPassed
<1>4. todo' = b \o Tail(todo)
  BY DEF Instead, Leave
<1> QED
  BY <1>1, <1>3, <1>4, Onward

LEMMA DoneIsInstead ==
  ASSUME IsSequence(todo), todo # <<>>, Done PROVE Instead(<<>>)
<1>1. IsSequence(Tail(todo)) /\ Joins(Tail(todo), <<>>, Tail(todo))
  BY TailIs
<1> QED
  BY <1>1 DEF Done, Leave, Instead, Joins

LEMMA Finished ==
  ASSUME NEW s, NEW x, InStage(s, x), x # <<>>, Done,
         UNCHANGED <<ok, trigger_ok, span, ran, g_best>>, passed' = passed \/ g_best = 0
  PROVE  LabInv'
<1>1. IsSequence(todo) /\ todo # <<>>
  <2>1. span \in Spans /\ s \in span[1] .. span[2] /\ IsSequence(x)
          /\ Joins(todo, x, Spine(s + 1, span[2]))
    BY DEF InStage, Piece
  <2>2. s + 1 \in Int /\ span[2] \in Int
    BY <2>1, SpanIs
  <2>3. IsSequence(Spine(s + 1, span[2]))
    BY <2>2, SpineIs
  <2> QED
    BY <2>1, <2>3, AtFirst
<1>2. Instead(<<>>)
  BY <1>1, DoneIsInstead
<1>3. Piece(<<>>, s, Settled)
  BY NothingNeat, NeatPiece
<1> QED
  BY <1>2, <1>3, Replaced
----------------------------------------------------------------------------
(* The calls that carry the verdict.                                       *)
LEMMA BeginKept == ASSUME LabInv, begin PROVE LabInv'
<1>1. /\ todo # <<>> /\ Head(todo)[1] = "begin" /\ todo' = Tail(todo)
      /\ ran' = {} /\ g_best' = 0 /\ span' = Head(todo)[2]
  BY DEF begin, Now, Done, Leave, Arg
<1>2. PICK sp \in Spans : Head(todo)[2] = sp /\ todo = Plan(sp)
  BY <1>1, FromPlan
<1>3. Joins(todo', chain_setup, Spine(sp[1], sp[2])) /\ span' = sp
  BY <1>1, <1>2, PlanIs
<1>4. Piece(chain_setup, Unstaged, FALSE)
  BY SetupNeat, NeatPiece DEF chain_setup
<1>5. Setting' <=> /\ span' \in Spans /\ g_best' = 0 /\ ran' = {}
                   /\ \E y : Piece(y, Unstaged, FALSE)
                           /\ Joins(todo', y, Spine(span'[1], span'[2]))
  BY DEF Setting
<1>6. Setting'
  BY <1>1, <1>3, <1>4, <1>5
<1> QED
  BY <1>6 DEF LabInv

LEMMA StageKept == ASSUME LabInv, stage PROVE LabInv'
<1>1. todo # <<>> /\ Head(todo)[1] = "stage" /\ UNCHANGED <<ok, trigger_ok, span, g_best,
        passed>>
  BY DEF stage, Now, keep, soft
<1>2. PICK k \in Int : AtSpine(k)
  BY <1>1, FromSpine
<1> DEFINE l == span[2]
<1>3. /\ span \in Spans /\ span[1] \in 0 .. 9 /\ l \in 0 .. 9 /\ todo = Spine(k, l)
      /\ \/ k = span[1] /\ g_best = 0 /\ ran = {}
         \/ k - 1 \in span[1] .. l /\ Verdict(k - 1)
  BY <1>2, SpanIs DEF AtSpine
<1>4. k <= l
  <2>1. ASSUME ~(k <= l) PROVE FALSE
    <3>1. l \in Int
      BY <1>3
    <3>2. Head(todo) = Do("summary")
      BY <1>3, <2>1, <3>1, SpineIs
    <3>3. Do("summary")[1] = "summary"
      BY CallIs DEF Call, Do
    <3> QED
      BY <1>1, <3>2, <3>3
  <2> QED
    BY <2>1
<1>5. Head(todo) = Call("stage", k) /\ Tail(todo) = Spine(k + 1, l)
  <2>1. l \in Int
    BY <1>3
  <2> QED
    BY <1>3, <1>4, <2>1, SpineIs
<1>6. Arg = k
  BY <1>5, CallIs DEF Arg, Call
<1>7. k \in span[1] .. l /\ k \in 0 .. 9
  BY <1>3, <1>4
<1> DEFINE runs == (ok \/ k = 0) /\ (trigger_ok \/ k < 3 \/ k = 8)
           b    == IF runs THEN Stage(k) ELSE <<>>
           m    == Settled
<1>8. todo' = b \o Spine(k + 1, l) /\ ran' = IF runs /\ k \in 4..6 THEN ran \cup {k} ELSE ran
  BY <1>5, <1>6 DEF stage, Instead, Leave
<1>9. m \in BOOLEAN /\ (runs /\ k = 9 => m) /\ (k \in 4 .. 6 => (runs <=> m)) /\ m' = m
  BY <1>1, <1>7 DEF Settled
<1>10. g_best = 0 /\ ran \subseteq (span[1] .. k) \cap (4 .. 6)
       /\ \A j \in (span[1] .. k) \cap (4 .. 6) : j = k \/ j \in ran \/ ~m
  <2>1. CASE k = span[1] /\ g_best = 0 /\ ran = {}
    <3>1. \A j \in span[1] .. k : j = k
      BY <1>3, <2>1
    <3> QED
      BY <2>1, <3>1
  <2>2. CASE k - 1 \in span[1] .. l /\ Verdict(k - 1)
    <3>1. /\ ran \subseteq (span[1] .. k - 1) \cap (4 .. 6)
          /\ \A j \in (span[1] .. k - 1) \cap (4 .. 6) : j \in ran \/ ~m
          /\ g_best # 0 => k - 1 = 9
      BY <2>2 DEF Verdict, Settled
    <3>2. k - 1 # 9
      BY <1>7
    <3>3. (span[1] .. k) = (span[1] .. k - 1) \cup {k}
      BY <1>3, <1>7
    <3> HIDE DEF m
    <3> QED
      BY <3>1, <3>2, <3>3
  <2> QED
    BY <1>3, <2>1, <2>2
<1>11. Verdict(k)' <=>
         /\ ran' \subseteq (span'[1] .. k) \cap (4 .. 6)
         /\ \A j \in (span'[1] .. k) \cap (4 .. 6) : j \in ran' \/ ~m'
         /\ g_best' # 0 => k = 9 /\ Chosen'
  BY DEF Verdict, Settled
<1> HIDE DEF runs, m
<1>12. Piece(b, k, m)
  <2>1. CASE runs
    <3>1. Piece(Stage(k), k, m)
      BY <1>7, <1>9, <2>1, StagePiece
    <3> QED
      BY <2>1, <3>1
  <2>2. CASE ~runs
    BY <2>2, NothingNeat, NeatPiece
  <2> QED
    BY <2>1, <2>2
<1> HIDE DEF b
<1>13. k \in span[1] .. k
  BY <1>7, <1>3
<1>14. Verdict(k)'
  <2>1. ran' \subseteq (span[1] .. k) \cap (4 .. 6)
    BY <1>8, <1>10, <1>13
  <2>2. \A j \in (span[1] .. k) \cap (4 .. 6) : j \in ran' \/ ~m
    <3> SUFFICES ASSUME NEW j \in (span[1] .. k) \cap (4 .. 6) PROVE j \in ran' \/ ~m
      OBVIOUS
    <3>1. CASE j = k
      BY <1>8, <1>9, <3>1
    <3>2. CASE j # k
      BY <1>8, <1>10, <3>2
    <3> QED
      BY <3>1, <3>2
  <2> QED
    BY <1>1, <1>9, <1>10, <1>11, <2>1, <2>2
<1>15. Joins(todo', b, Spine(k + 1, l))
  BY <1>8 DEF Joins
<1>16. Piece(b, k, Settled')
  BY <1>9, <1>12 DEF m
<1>17. Staging'
  BY <1>1, <1>3, <1>7, <1>14, <1>15, <1>16, StagingNext
<1> QED
  BY <1>17 DEF LabInv

LEMMA SummaryAt ==
  ASSUME LabInv, Now("summary")
  PROVE  \E k \in Int : AtSpine(k) /\ ~(k <= span[2]) /\ Tail(todo) = acq_chain_restore
<1>1. todo # <<>> /\ Head(todo)[1] = "summary"
  BY DEF Now
<1>2. PICK k \in Int : AtSpine(k)
  BY <1>1, FromSpine
<1>3. span[2] \in Int /\ todo = Spine(k, span[2])
  BY <1>2, SpanIs DEF AtSpine
<1>4. ~(k <= span[2])
  <2>1. ASSUME k <= span[2] PROVE FALSE
    <3>1. Head(todo) = Call("stage", k)
      BY <1>3, <2>1, SpineIs
    <3>2. Call("stage", k)[1] = "stage"
      BY CallIs DEF Call
    <3> QED
      BY <1>1, <3>1, <3>2
  <2> QED
    BY <2>1
<1>5. Tail(todo) = acq_chain_restore
  BY <1>3, <1>4, SpineIs
<1> QED
  BY <1>2, <1>4, <1>5

LEMMA SummaryKept == ASSUME LabInv, summary PROVE LabInv'
<1>1. Now("summary") /\ todo' = Tail(todo)
  BY DEF summary, Done, Leave
<1>2. todo' = acq_chain_restore
  BY <1>1, SummaryAt
<1>3. Clear(acq_chain_restore, ChainCalls)
  BY RestoreNeat, StrictClear
<1>4. Aside' <=> Clear(todo', ChainCalls)
  BY DEF Aside
<1> QED
  BY <1>2, <1>3, <1>4 DEF LabInv

LEMMA TriggersKept == ASSUME LabInv, triggers PROVE LabInv'
<1>1. /\ todo # <<>> /\ Head(todo)[1] = "triggers" /\ todo' = Tail(todo)
      /\ UNCHANGED <<ran, g_best, span>>
  BY DEF triggers, Now, Done, Leave
<1>2. Head(todo)[1] \in ChainCalls \ {"begin", "stage", "summary"}
  BY <1>1 DEF ChainCalls
<1>3. PICK s, x : InStage(s, x) /\ x # <<>> /\ OwnCall(Head(todo), s, Settled)
  BY <1>1, <1>2, FromStage
<1>4. s = 2
  BY <1>1, <1>3 DEF OwnCall
<1>5. /\ span \in Spans /\ s \in span[1] .. span[2] /\ Verdict(s)
      /\ IsSequence(x) /\ Joins(todo, x, Spine(s + 1, span[2]))
  BY <1>3 DEF InStage, Piece
<1>6. span[1] \in 0 .. 9 /\ span[2] \in 0 .. 9
  BY <1>5, SpanIs
<1>7. (span[1] .. 2) \cap (4 .. 6) = {}
  BY <1>6
<1>8. ran = {} /\ g_best = 0
  BY <1>4, <1>5, <1>7 DEF Verdict
<1>9. Verdict(s)'
  BY <1>1, <1>4, <1>7, <1>8 DEF Verdict
<1>10. Piece(<<>>, s, Settled')
  BY NothingNeat, NeatPiece
<1>11. todo' = <<>> \o Tail(todo)
  <2>1. s + 1 \in Int /\ span[2] \in Int
    BY <1>4, <1>6
  <2>2. IsSequence(Spine(s + 1, span[2]))
    BY <2>1, SpineIs
  <2>3. IsSequence(todo)
    BY <1>3, <1>5, <2>2, AtFirst
  <2>4. Joins(Tail(todo), <<>>, Tail(todo))
    BY <1>1, <2>3, TailIs
  <2> QED
    BY <1>1, <2>4 DEF Joins
<1>12. s # 9 /\ span' = span
  BY <1>1, <1>4
<1> QED
  BY <1>3, <1>9, <1>10, <1>11, <1>12, Onward

(* A call that is itself other calls of its stage.                         *)
Quiet == UNCHANGED <<ok, trigger_ok, span, ran, g_best>>

LEMMA ExpandQuiet ==
  ASSUME NEW f, NEW b, Expand(f, b)
  PROVE  todo # <<>> /\ Head(todo)[1] = f /\ Instead(b) /\ Quiet /\ passed' = passed
  BY DEF Expand, Now, keep, soft, labSoft, flags, Quiet

LEMMA OneOwn ==
  ASSUME NEW c, NEW s, NEW m, Belongs(c, s, m), c[3] = 0 PROVE Piece(<<c>>, s, m)
          /\ Len(<<c>>) = 1
<1> DEFINE S == {c}
           x == <<c>>
<1>1. x \in Seq(S) /\ Len(x) = 1 /\ \A d \in S : Belongs(d, s, m) /\ d[3] = 0
  OBVIOUS
<1> HIDE DEF S, x
<1>2. Piece(x, s, m)
  BY <1>1, PieceOver
<1> QED
  BY <1>1, <1>2 DEF x

LEMMA CountKept == ASSUME LabInv, count_rate PROVE LabInv'
<1> DEFINE a == Arg
           c == Call("counted", a)
           b == count_at(FALSE) \o <<c>>
<1>1. Expand("count", b)
  BY DEF count_rate
<1> HIDE DEF a, b
<1>2. todo # <<>> /\ Head(todo)[1] = "count" /\ Instead(b) /\ Quiet /\ passed' = passed
  BY <1>1, ExpandQuiet
<1>3. Head(todo)[1] \in ChainCalls \ {"begin", "stage", "summary"}
  BY <1>2 DEF ChainCalls
<1>4. PICK s, x : InStage(s, x) /\ x # <<>> /\ OwnCall(Head(todo), s, Settled)
  BY <1>2, <1>3, FromStage
<1>5. s = 4
  BY <1>2, <1>4 DEF OwnCall
<1>6. s # Unstaged
  BY <1>5, StageNumbers
<1> DEFINE m == Settled
<1> HIDE DEF m
<1>7. Belongs(c, s, m) /\ c[3] = 0
  BY <1>5, <1>6, OwnIs, NoSkip
<1> HIDE DEF c
<1>8. Piece(<<c>>, s, m)
  BY <1>7, OneOwn
<1>9. Piece(count_at(FALSE), s, m)
  BY CountNeat, NeatPiece
<1>10. Piece(b, s, m)
  BY <1>8, <1>9, PieceJoin DEF b
<1> QED
  BY <1>2, <1>4, <1>10, Replaced DEF Quiet, m

LEMMA CountedKept == ASSUME LabInv, counted \/ recounted PROVE LabInv'
<1> DEFINE a == Arg
           c == Call("recounted", a)
           b == count_at(TRUE) \o <<c>>
<1>1. /\ todo # <<>> /\ Head(todo)[1] \in {"counted", "recounted"} /\ Quiet
      /\ Done \/ Instead(b)
  <2>1. CASE Expand("counted", b)
    BY <2>1, ExpandQuiet
  <2>2. CASE counted /\ ~Expand("counted", b)
    BY <2>2 DEF counted, Now, Found, keep, soft, Quiet
  <2>3. CASE recounted
    BY <2>3 DEF recounted, Now, Found, keep, soft, Quiet
  <2> QED
    BY <2>1, <2>2, <2>3
<1> HIDE DEF a, b
<1>3. Head(todo)[1] \in ChainCalls \ {"begin", "stage", "summary"}
  BY <1>1 DEF ChainCalls
<1>4. PICK s, x : InStage(s, x) /\ x # <<>> /\ OwnCall(Head(todo), s, Settled)
  BY <1>1, <1>3, FromStage
<1>5. s = 4
  BY <1>1, <1>4 DEF OwnCall
<1>6. s # Unstaged /\ g_best = 0
  BY <1>4, <1>5, StageNumbers DEF InStage, Verdict
<1> DEFINE m == Settled
<1> HIDE DEF m
<1>7. Belongs(c, s, m) /\ c[3] = 0
  BY <1>5, <1>6, OwnIs, NoSkip
<1> HIDE DEF c
<1>8. Piece(<<c>>, s, m)
  BY <1>7, OneOwn
<1>9. Piece(count_at(TRUE), s, m)
  BY CountNeat, NeatPiece
<1>10. Piece(b, s, m)
  BY <1>8, <1>9, PieceJoin DEF b
<1>11. CASE Instead(b)
  BY <1>1, <1>4, <1>6, <1>10, <1>11, Replaced DEF Quiet, m
<1>12. CASE Done
  BY <1>1, <1>4, <1>6, <1>12, Finished DEF Quiet
<1> QED
  BY <1>1, <1>11, <1>12
LEMMA GridKept == ASSUME LabInv, grid_at PROVE LabInv'
<1> DEFINE a == Arg
           d == a[1] \in data
           e == IF d THEN IrqSel(TRUE) ELSE <<>>
           f == dac_start(2, "triangle", 4, IrqSel(FALSE))
           g == Call("grid window", d)
           h == Call("adc_set_irqsel", 0)
           c == Call("result", a)
           r == <<g, h, c>>
           b == (e \o f) \o r
<1>1. Expand("grid", b)
  BY DEF grid_at
<1> HIDE DEF b
<1>2. todo # <<>> /\ Head(todo)[1] = "grid" /\ Instead(b) /\ Quiet /\ passed' = passed
  BY <1>1, ExpandQuiet
<1>3. Head(todo)[1] \in ChainCalls \ {"begin", "stage", "summary"}
  BY <1>2 DEF ChainCalls
<1>4. PICK s, x : InStage(s, x) /\ x # <<>> /\ OwnCall(Head(todo), s, Settled)
  BY <1>2, <1>3, FromStage
<1>5. s # Unstaged /\ a[2] \notin {5, 6} \ {s}
  BY <1>2, <1>4 DEF OwnCall, Arg
<1> HIDE DEF a
<1> DEFINE m == Settled
<1> HIDE DEF m
<1>6. Belongs(c, s, m) /\ c[3] = 0
  BY <1>5, OwnIs, NoSkip
<1>7. Belongs(g, s, m) /\ g[3] = 0 /\ Belongs(h, s, m) /\ h[3] = 0
  <2>1. ClearCall(g, Strict) /\ g[3] = 0 /\ ClearCall(h, Strict) /\ h[3] = 0
    BY Apart, Plainly DEF BoardCalls, TestCalls
  <2> QED
    BY <2>1, StrictIs
<1> HIDE DEF c, g, h
<1>8. Piece(r, s, m) /\ Len(r) = 3
  <2> DEFINE S == {g, h, c}
  <2>1. \A k \in S : Belongs(k, s, m) /\ k[3] = 0
    BY <1>6, <1>7
  <2>2. r \in Seq(S) /\ Len(r) = 3
    OBVIOUS
  <2> HIDE DEF S, r
  <2> QED
    BY <2>1, <2>2, PieceOver
<1>9. Neat(IrqSel(TRUE), Strict) /\ Neat(IrqSel(FALSE), Strict)
  BY SelNeat
<1>10. Neat(e, Strict)
  BY <1>9, NothingNeat
<1>11. Clear(f, Strict) /\ Reaches(f, 3)
  <2>1. 3 \in Nat /\ 4 \in Nat /\ 4 <= 3 + 1 /\ Strict \subseteq Strict
    OBVIOUS
  <2> QED
    BY <1>9, <2>1, DacStartReaches
<1> HIDE DEF e, f, r
<1>12. Piece(f \o r, s, m)
  BY <1>8, <1>11, ReachPiece
<1>13. Piece(e, s, m)
  BY <1>10, NeatPiece
<1>14. Piece(e \o (f \o r), s, m)
  BY <1>12, <1>13, PieceJoin
<1>15. b = e \o (f \o r)
  <2>1. IsSequence(e) /\ IsSequence(f) /\ IsSequence(r)
    BY <1>8, <1>11, <1>13 DEF Piece, Clear
  <2> QED
    BY <2>1, Assoc DEF b
<1>16. Piece(b, s, m)
  BY <1>14, <1>15
<1> QED
  BY <1>2, <1>4, <1>16, Replaced DEF Quiet, m

LEMMA ResultKept == ASSUME LabInv, result PROVE LabInv'
<1>1. /\ todo # <<>> /\ Head(todo)[1] = "result" /\ Done /\ Quiet
      /\ passed' = passed \/ Head(todo)[2][2] \in 5 .. 6
  BY DEF result, Now, Arg, keep, soft, Quiet
<1>2. Head(todo)[1] \in ChainCalls \ {"begin", "stage", "summary"}
  BY <1>1 DEF ChainCalls
<1>3. PICK s, x : InStage(s, x) /\ x # <<>> /\ OwnCall(Head(todo), s, Settled)
  BY <1>1, <1>2, FromStage
<1>4. Head(todo)[2][2] \notin {5, 6} \ {s}
  BY <1>1, <1>3 DEF OwnCall
<1>5. passed' = passed \/ s \in 5 .. 6
  BY <1>1, <1>4
<1>6. g_best # 0 => s = 9
  BY <1>3 DEF InStage, Verdict
<1>7. passed' = passed \/ g_best = 0
  BY <1>5, <1>6
<1> QED
  BY <1>1, <1>3, <1>7, Finished DEF Quiet

LEMMA StreamKept == ASSUME LabInv, stream_rate PROVE LabInv'
<1> DEFINE a == Arg
           d == a[1] \in data
           p == a[2] = 6 /\ 4 \in ran /\ a[1] \notin passed[4]
           e == stream_for(d)
           c == Call("result", a)
           b == IF p THEN <<>> ELSE e \o <<c>>
<1>1. Expand("stream rate", b)
  BY DEF stream_rate
<1> HIDE DEF b, p, d
<1>2. todo # <<>> /\ Head(todo)[1] = "stream rate" /\ Instead(b) /\ Quiet /\ passed' = passed
  BY <1>1, ExpandQuiet
<1>3. Head(todo)[1] \in ChainCalls \ {"begin", "stage", "summary"}
  BY <1>2 DEF ChainCalls
<1>4. PICK s, x : InStage(s, x) /\ x # <<>> /\ OwnCall(Head(todo), s, Settled)
  BY <1>2, <1>3, FromStage
<1>5. s # Unstaged /\ a[2] \notin {5, 6} \ {s}
  BY <1>2, <1>4 DEF OwnCall, Arg
<1> HIDE DEF a
<1> DEFINE m == Settled
<1> HIDE DEF m
<1>6. Belongs(c, s, m) /\ c[3] = 0
  BY <1>5, OwnIs, NoSkip
<1> HIDE DEF c
<1>7. Piece(<<c>>, s, m)
  BY <1>6, OneOwn
<1>8. Piece(e, s, m)
  BY ForNeat, NeatPiece
<1> HIDE DEF e
<1>9. Piece(e \o <<c>>, s, m)
  BY <1>7, <1>8, PieceJoin
<1>10. Piece(<<>>, s, m)
  BY NothingNeat, NeatPiece
<1>11. Piece(b, s, m)
  BY <1>9, <1>10 DEF b
<1> QED
  BY <1>2, <1>4, <1>11, Replaced DEF Quiet, m

LEMMA AttemptKept == ASSUME LabInv, attempt PROVE LabInv'
<1> DEFINE p == g_best # 0
           q == g_best # Eight
           x1 == <<g_best, 9>>
           x2 == <<Eight, 0>>
           c1 == Call("stream rate", x1)
           c2 == Call("stream rate", x2)
           e == IF p THEN <<c1>> ELSE <<>>
           f == IF q THEN <<c2>> ELSE <<>>
           b == e \o f
<1>1. Expand("attempt", b)
  BY DEF attempt
<1> HIDE DEF b
<1>2. todo # <<>> /\ Head(todo)[1] = "attempt" /\ Instead(b) /\ Quiet /\ passed' = passed
  BY <1>1, ExpandQuiet
<1>3. Head(todo)[1] \in ChainCalls \ {"begin", "stage", "summary"}
  BY <1>2 DEF ChainCalls
<1>4. PICK s, x : InStage(s, x) /\ x # <<>> /\ OwnCall(Head(todo), s, Settled)
  BY <1>2, <1>3, FromStage
<1>5. s # Unstaged
  BY <1>4 DEF OwnCall
<1> DEFINE m == Settled
<1> HIDE DEF m, p, q
<1>6. x1[2] \notin {5, 6} \ {s} /\ x2[2] \notin {5, 6} \ {s}
  OBVIOUS
<1> HIDE DEF x1, x2
<1>7. Belongs(c1, s, m) /\ c1[3] = 0 /\ Belongs(c2, s, m) /\ c2[3] = 0
  BY <1>5, <1>6, OwnIs, NoSkip
<1> HIDE DEF c1, c2
<1>8. Piece(<<c1>>, s, m) /\ Piece(<<c2>>, s, m) /\ Piece(<<>>, s, m)
  BY <1>7, OneOwn, NothingNeat, NeatPiece
<1>9. Piece(e, s, m) /\ Piece(f, s, m)
  BY <1>8
<1> HIDE DEF e, f
<1>10. Piece(b, s, m)
  BY <1>9, PieceJoin DEF b
<1> QED
  BY <1>2, <1>4, <1>10, Replaced DEF Quiet, m

(* The greatest of a set of rates.                                         *)
LEMMA Least ==
  ASSUME NEW T \in SUBSET Nat, T # {}
  PROVE  \E x \in T : \A y \in T : x <= y
<1> DEFINE R == {ss \in Nat \X Nat : ss[1] < ss[2]}
<1>1. IsWellFoundedOn(R, Nat)
  BY NatLessThanWellFounded DEF OpToRel
<1>2. \A x, y \in Nat : <<y, x>> \in R <=> y < x
  OBVIOUS
<1> HIDE DEF R
<1>3. \E x \in T : \A y \in T : ~ (<<y, x>> \in R)
  BY <1>1, WFMin
<1>4. PICK x \in T : \A y \in T : ~ (<<y, x>> \in R)
  BY <1>3
<1>5. \A y \in T : ~(y < x)
  BY <1>2, <1>4
<1> QED
  BY <1>5

LEMMA Fastest ==
  ASSUME NEW n \in Nat, NEW s \in SUBSET (1 .. n), s # {}
  PROVE  \E x \in s : \A y \in s : y <= x
<1> DEFINE T == {n - x : x \in s}
<1>1. T \in SUBSET Nat /\ T # {}
  <2>1. \A x \in s : x \in 1 .. n
    OBVIOUS
  <2>2. \A x \in s : n - x \in Nat
    BY <2>1
  <2> QED
    BY <2>2
<1>2. PICK d \in T : \A y \in T : d <= y
  BY <1>1, Least
<1>3. PICK x \in s : d = n - x
  OBVIOUS
<1>4. \A y \in s : y <= x
  <2> SUFFICES ASSUME NEW y \in s PROVE y <= x
    OBVIOUS
  <2>1. n - y \in T
    OBVIOUS
  <2>2. d <= n - y
    BY <1>2, <2>1
  <2> QED
    BY <1>3, <2>2
<1> QED
  BY <1>4

LEMMA BestKept == ASSUME LabInv, best PROVE LabInv'
<1>1. /\ todo # <<>> /\ Head(todo)[1] = "best" /\ todo' = Tail(todo) /\ g_best' = best_index
      /\ UNCHANGED <<ok, trigger_ok, ran, passed, span>>
  BY DEF best, Now, Done, Leave, keep, soft
<1>2. Head(todo)[1] \in ChainCalls \ {"begin", "stage", "summary"}
  BY <1>1 DEF ChainCalls
<1>3. PICK s, x : InStage(s, x) /\ x # <<>> /\ OwnCall(Head(todo), s, Settled)
  BY <1>1, <1>2, FromStage
<1>4. s = 9 /\ Settled
  BY <1>1, <1>3 DEF OwnCall
<1>5. /\ span \in Spans /\ s \in span[1] .. span[2] /\ Verdict(s)
      /\ IsSequence(x) /\ Joins(todo, x, Spine(s + 1, span[2]))
  BY <1>3 DEF InStage, Piece
<1>6. span[1] \in 0 .. 9 /\ span[2] \in 0 .. 9
  BY <1>5, SpanIs
<1>7. span[2] = 9 /\ 9 \in span[1] .. span[2]
  BY <1>4, <1>5, <1>6
<1>8. ran = StagesRun
  <2>1. /\ ran \subseteq (span[1] .. 9) \cap (4 .. 6)
        /\ \A k \in (span[1] .. 9) \cap (4 .. 6) : k \in ran
    BY <1>4, <1>5 DEF Verdict, Settled
  <2>2. StagesRun = (span[1] .. 9) \cap (4 .. 6)
    BY <1>7 DEF StagesRun
  <2> QED
    BY <2>1, <2>2
<1> DEFINE good == {r \in Rates : \A k \in ran : r \in passed[k]}
<1>9. good = {r \in Rates : AllPassed(r)}
  BY <1>8 DEF AllPassed
<1>10. ASSUME ran # {}, good # {}
       PROVE  /\ best_index \in good /\ \A q \in good : q <= best_index
  <2>1. good \in SUBSET (1 .. Cardinality(Rates)) /\ Cardinality(Rates) \in Nat
    BY RatesCount
  <2> HIDE DEF good
  <2>2. \E r \in good : \A q \in good : q <= r
    BY <1>10, <2>1, Fastest
  <2>3. best_index = CHOOSE r \in good : \A q \in good : q <= r
    BY <1>10 DEF best_index, good
  <2> QED
    BY <2>2, <2>3
<1>11. best_index # 0 => ran # {} /\ good # {}
  BY DEF best_index
<1>12. best_index # 0 => /\ StagesRun # {} /\ AllPassed(best_index)
                         /\ \A r \in Rates : r > best_index => ~AllPassed(r)
  <2> SUFFICES ASSUME best_index # 0
               PROVE  /\ StagesRun # {} /\ AllPassed(best_index)
                      /\ \A r \in Rates : r > best_index => ~AllPassed(r)
    OBVIOUS
  <2>1. best_index \in Rates /\ AllPassed(best_index) /\ \A q \in Rates : AllPassed(q)
          => q <= best_index
    BY <1>9, <1>10, <1>11
  <2>2. \A r \in Rates : r > best_index => ~(r <= best_index)
    BY <2>1, RatesCount
  <2> QED
    BY <1>8, <1>11, <2>1, <2>2
<1>13. StagesRun' = StagesRun /\ \A r : AllPassed(r)' <=> AllPassed(r)
  BY <1>1 DEF StagesRun, AllPassed
<1>14. Chosen' <=>
         /\ StagesRun' # {} /\ 9 \in span'[1] .. span'[2]
                 /\ \A k \in StagesRun' : g_best' \in passed'[k]
         /\ \A r \in Rates : r > g_best' => ~(\A k \in StagesRun' : r \in passed'[k])
  BY DEF Chosen, AllPassed
<1>15. g_best' # 0 => Chosen'
  <2>1. \A r : AllPassed(r) <=> \A k \in StagesRun : r \in passed[k]
    BY DEF AllPassed
  <2> QED
    BY <1>1, <1>7, <1>12, <1>13, <1>14, <2>1
<1>16. Verdict(s)' <=>
         /\ ran' \subseteq (span'[1] .. s) \cap (4 .. 6)
         /\ \A j \in (span'[1] .. s) \cap (4 .. 6) : j \in ran' \/ ~Settled'
         /\ g_best' # 0 => s = 9 /\ Chosen'
  BY DEF Verdict, Settled
<1>17. Settled' = Settled
  BY <1>1 DEF Settled
<1>18. Verdict(s)'
  BY <1>1, <1>4, <1>5, <1>15, <1>16, <1>17 DEF Verdict, Settled
<1>19. Piece(<<>>, s, Settled')
  BY NothingNeat, NeatPiece
<1>20. todo' = <<>> \o Tail(todo)
  <2>1. s + 1 \in Int /\ span[2] \in Int
    BY <1>4, <1>6
  <2>2. IsSequence(Spine(s + 1, span[2]))
    BY <2>1, SpineIs
  <2>3. IsSequence(todo)
    BY <1>3, <1>5, <2>2, AtFirst
  <2>4. Joins(Tail(todo), <<>>, Tail(todo))
    BY <1>1, <2>3, TailIs
  <2> QED
    BY <1>1, <2>4 DEF Joins
<1> QED
  BY <1>1, <1>3, <1>17, <1>18, <1>19, <1>20, Onward
----------------------------------------------------------------------------
(* The invariant is one of the specification.                              *)
LEMMA Kept ==
  ASSUME LabInv, UNCHANGED <<todo, ok, ran, passed, trigger_ok, g_best, span>> PROVE LabInv'
<1>1. Aside => Aside'
  BY DEF Aside
<1>2. Ahead => Ahead'
  BY DEF Ahead
<1>3. Setting => Setting'
  BY DEF Setting
<1>4. Staging => Staging'
  <2> SUFFICES ASSUME Staging PROVE Staging'
    OBVIOUS
  <2>1. PICK s, x : InStage(s, x)
    BY StagingIs
  <2>2. Verdict(s)' /\ Settled' = Settled
    BY <2>1 DEF InStage, Verdict, Chosen, StagesRun, AllPassed, Settled
  <2> QED
    BY <2>1, <2>2, StagingNext DEF InStage
<1> QED
  BY <1>1, <1>2, <1>3, <1>4 DEF LabInv

LEMMA LabStarts == LabInit => LabInv
<1>1. LabInit => todo = <<>>
  BY DEF LabInit, SessionInit
<1> QED
  BY <1>1, NothingClear DEF LabInv, Aside

LEMMA CommandKept == ASSUME Command PROVE LabInv'
<1>1. Clear(todo', ChainCalls)
  BY CommandClear
<1>2. Aside' <=> Clear(todo', ChainCalls)
  BY DEF Aside
<1> QED
  BY <1>1, <1>2 DEF LabInv

LEMMA TypedKept == ASSUME LabCommand PROVE LabInv'
<1>1. Clear(todo', ChainCalls) \/ Ahead'
  BY LabTyped
<1>2. Aside' <=> Clear(todo', ChainCalls)
  BY DEF Aside
<1> QED
  BY <1>1, <1>2 DEF LabInv

LEMMA CallKept == ASSUME LabInv, LabCall PROVE LabInv'
<1>1. CASE PlainLab
  BY <1>1, LabPlain, PlainKept
<1>2. CASE begin \/ stage \/ summary \/ triggers
  BY <1>2, BeginKept, StageKept, SummaryKept, TriggersKept
<1>3. CASE count_rate \/ counted \/ recounted
  BY <1>3, CountKept, CountedKept
<1>4. CASE grid_at \/ result \/ stream_rate \/ best \/ attempt
  BY <1>4, GridKept, ResultKept, StreamKept, BestKept, AttemptKept
<1> QED
  BY <1>1, <1>2, <1>3, <1>4 DEF LabCall, PlainLab

LEMMA CoreKept ==
  ASSUME LabInv, SessionCall \/ (DriverCall /\ UNCHANGED soft) \/ Brake, UNCHANGED labSoft
  PROVE  LabInv'
<1>1. CASE SessionCall
  BY <1>1, SessionPlain, PlainKept
<1>2. CASE DriverCall /\ UNCHANGED soft
  BY <1>2, DriverPlain, PlainKept
<1>3. CASE Brake
  <2>1. UNCHANGED <<todo, ok, ran, passed, trigger_ok, g_best, span>>
    BY <1>3 DEF Brake, soft, labSoft, flags
  <2> QED
    BY <2>1, Kept
<1> QED
  BY <1>1, <1>2, <1>3

LEMMA LabStep == LabInv /\ [LabNext]_labVars => LabInv'
<1> SUFFICES ASSUME LabInv, [LabNext]_labVars PROVE LabInv'
  OBVIOUS
<1>1. CASE user = "core" /\ SessionNext /\ UNCHANGED labSoft
  BY <1>1, CommandKept, CoreKept DEF SessionNext
<1>2. CASE user # "core" /\ LabCommand
  BY <1>2, TypedKept
<1>3. CASE LabCall
  BY <1>3, CallKept
<1>4. CASE user # "core" /\ (SessionCall \/ (DriverCall /\ UNCHANGED soft) \/ Brake)
        /\ UNCHANGED labSoft
  BY <1>4, CoreKept
<1>5. CASE UNCHANGED labVars
  <2>1. UNCHANGED <<todo, ok, ran, passed, trigger_ok, g_best, span>>
    BY <1>5 DEF labVars, vars, soft, labSoft, flags
  <2> QED
    BY <2>1, Kept
<1> QED
  BY <1>1, <1>2, <1>3, <1>4, <1>5 DEF LabNext

LEMMA InvChosen == LabInv => ChosenRatePassed
<1> SUFFICES ASSUME LabInv, Now("summary"), g_best # 0 PROVE Chosen
  BY DEF ChosenRatePassed, Chosen
<1>1. PICK k \in Int : AtSpine(k) /\ ~(k <= span[2])
  BY SummaryAt
<1>2. Verdict(k - 1)
  BY <1>1 DEF AtSpine
<1> QED
  BY <1>2 DEF Verdict

(* The rate the chain test tells the user to use, for every ladder of      *)
(* rates and every choice of stages: whatever failed on the way, whatever  *)
(* a stage found, and however the user used the console before and after,  *)
(* it passed every stage this very command ran, stage 9 streamed it, and   *)
(* no faster rate did as well (chaintest.c, best_index() and summary()).   *)
THEOREM RateHasPassed == LabSpec => []ChosenRatePassed
<1>1. LabSpec => []LabInv
  <2>1. LabInit => LabInv
    BY LabStarts
  <2>2. LabInv /\ [LabNext]_labVars => LabInv'
    BY LabStep
  <2> QED
    BY <2>1, <2>2, PTL DEF LabSpec
<1>2. LabInv => ChosenRatePassed
  BY InvChosen
<1> QED
  BY <1>1, <1>2, PTL

=============================================================================
